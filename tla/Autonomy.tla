------------------------------- MODULE Autonomy -------------------------------
(***************************************************************************)
(* The pure part of the supervisor: the delegation ladder, the gate in     *)
(* front of execution, the rolling window of quality scores, the review    *)
(* that promotes or demotes, the fold of human feedback into the window,   *)
(* and the choice of the most trusted agent.                               *)
(*                                                                         *)
(* A score is a number of hundredths (0.45 is 45).  Averages and trust are *)
(* compared by cross-multiplication, exactly; the code compares floats.    *)
(***************************************************************************)
EXTENDS Integers, Sequences, FiniteSets, Functions

CONSTANT
    EvaluationWindow    \* EVALUATION_WINDOW: tasks per review, scores kept

ASSUME EvaluationWindowAssumption == EvaluationWindow \in Nat \ {0}

PromoteThreshold == 85
DemoteThreshold == 45
PostHocEscalationThreshold == 50
NewAgentPrior == 60
MinTrackRecord == 3

Levels == 0..4
Risks == {"LOW", "MEDIUM", "HIGH"}

\* "No score yet" (None in the code): the score of a result nobody has judged.
NoScore == -1

\* What changes about an agent as it works.  The rest of its profile (role,
\* task types, WIP limit) is fixed by the roster.
StandingOf(scores) ==
    [level : Levels, paused : BOOLEAN, window : Seq(scores), count : Nat]

\* Must a human sign off before an agent at this level may run the task?
RequiresPreapproval(level, risk) ==
    \/ level = 0
    \/ level = 1 /\ risk = "HIGH"

\* A low score is surfaced to a human only from level 2 up.
EscalatesAfter(level, score) ==
    score < PostHocEscalationThreshold /\ level >= 2

Total(window) == SumFunction(window)

AverageAtLeast(window, threshold) == Total(window) >= threshold * Len(window)

\* Fault: the window is not cut.
LatestScoresUncut(window) == window

\* The window is cut: the oldest scores beyond EvaluationWindow leave it.
LatestScores(window) ==
    IF Len(window) > EvaluationWindow
    THEN SubSeq(window, Len(window) - EvaluationWindow + 1, Len(window))
    ELSE window

\* A fresh score enters the window and the oldest beyond the window leave.
PushScore(window, score) == LatestScores(Append(window, score))

\* Fault: every completed task is a review.
DueAlways(standing) == standing.count # 0 /\ standing.window # <<>>

\* A review is due when a cycle of EvaluationWindow tasks has just closed.
DueForReview(standing) ==
    /\ standing.count # 0
    /\ standing.count % EvaluationWindow = 0
    /\ standing.window # <<>>

Promotes(standing) ==
    /\ DueForReview(standing)
    /\ AverageAtLeast(standing.window, PromoteThreshold)
    /\ standing.level < 4

Demotes(standing) ==
    /\ DueForReview(standing)
    /\ ~ AverageAtLeast(standing.window, DemoteThreshold)
    /\ standing.level > 0

\* Fault: what is added is the score that was there before.
ApplyFeedbackOriginal(window, original, corrected) ==
    IF \E i \in DOMAIN window : window[i] = original
    THEN window
    ELSE Append(window, original)

\* The human verdict replaces the last score equal to the original one; when
\* the original is gone from the window the verdict is added at the end, and
\* the window is not cut back.
ApplyFeedback(window, original, corrected) ==
    LET places == {i \in DOMAIN window : window[i] = original}
        latest == CHOOSE i \in places : \A j \in places : j <= i
    IN  IF places # {}
        THEN [window EXCEPT ![latest] = corrected]
        ELSE Append(window, corrected)

\* Trust as a fraction: the average, blended with the prior until the agent
\* has MinTrackRecord completed tasks.
Trust(standing) ==
    LET known == IF standing.count < MinTrackRecord
                 THEN standing.count ELSE MinTrackRecord
        size == Len(standing.window)
    IN  IF standing.window = <<>>
        THEN [num |-> NewAgentPrior, den |-> 1]
        ELSE [num |-> known * Total(standing.window)
                        + (MinTrackRecord - known) * NewAgentPrior * size,
              den |-> MinTrackRecord * size]

LessTrusted(s1, s2) ==
    Trust(s1).num * Trust(s2).den < Trust(s2).num * Trust(s1).den

\* Is a the most trusted of the eligible agents?  Between equals it is the one
\* registered first, which is what Python's max over a dict returns.
MostTrusted(a, eligible, standing, position) ==
    \A b \in eligible \ {a} :
        \/ LessTrusted(standing[b], standing[a])
        \/ /\ ~ LessTrusted(standing[a], standing[b])
           /\ position[a] < position[b]
===============================================================================
