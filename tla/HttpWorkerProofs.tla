--------------------------- MODULE HttpWorkerProofs ----------------------------
(***************************************************************************)
(* What holds of the escalation agent's client for every number of         *)
(* attempts, every set of tickets and whatever the service answers.        *)
(***************************************************************************)
EXTENDS HttpWorker, TLAPS

\* A count per ticket stays one when a request is added to it.
LEMMA OneMoreType ==
    ASSUME NEW count \in [Tickets -> Nat], NEW k \in Targets
    PROVE  OneMore(count, k) \in [Tickets -> Nat]
BY DEF OneMore, Targets

\* A failed attempt leaves the loop's counter where the next step needs it.
LEMMA FailedType ==
    ASSUME HttpTypeOK, phase \in {"send", "wait"}, Failed
    PROVE  /\ phase' \in {"sleep", "raised"}
           /\ phase' = "sleep" => attempt < MaxAttempts
           /\ UNCHANGED <<target, attempt, status>>
BY HttpAssumption DEF HttpTypeOK, Failed

\* Each step of the client and of the service keeps the types.
LEMMA HttpNextType == HttpTypeOK /\ [HttpNext]_httpVars => HttpTypeOK'
<1> SUFFICES ASSUME HttpTypeOK, [HttpNext]_httpVars PROVE HttpTypeOK'
  OBVIOUS
<1> USE HttpAssumption DEF HttpTypeOK, Phases, client, service
<1>1. ASSUME NEW k \in Targets, Call(k) PROVE HttpTypeOK'
  BY <1>1 DEF Call
<1>2. CASE Send
  BY <1>2, OneMoreType DEF Send
<1>3. CASE NotConnected
  BY <1>3, FailedType DEF NotConnected
<1>4. CASE Timeout
  <2>1. strays' \in [Tickets -> Nat]
    BY <1>4, OneMoreType DEF Timeout
  <2> QED BY <1>4, <2>1, FailedType DEF Timeout
<1>5. CASE Retry
  BY <1>5 DEF Retry
<1>6. CASE Read
  BY <1>6 DEF Read
<1>7. CASE Collect
  BY <1>7 DEF Collect, Nothing
<1>8. ASSUME NEW s \in StatusCodes, Answer(s) PROVE HttpTypeOK'
  <2>1. triages' \in [Tickets -> Nat]
    BY <1>8, OneMoreType DEF Answer
  <2>2. CASE phase' = "got"
    BY <1>8, <2>1, <2>2 DEF Answer, Receive, Failed
  <2>3. CASE phase' # "got"
    BY <1>8, <2>1, <2>3, FailedType DEF Answer, Receive
  <2> QED BY <2>2, <2>3
<1>9. ASSUME NEW k \in Tickets, AnswerStray(k) PROVE HttpTypeOK'
  <2>1. triages' \in [Tickets -> Nat]
    BY <1>9, OneMoreType DEF AnswerStray, Targets
  <2>2. strays' \in [Tickets -> Nat]
    BY <1>9 DEF AnswerStray
  <2> QED BY <1>9, <2>1, <2>2 DEF AnswerStray
<1>10. CASE UNCHANGED httpVars
  BY <1>10 DEF httpVars
<1> QED BY <1>1, <1>2, <1>3, <1>4, <1>5, <1>6, <1>7, <1>8, <1>9, <1>10
        DEF HttpNext, ClientStep

\* The client and the service begin in their types.
LEMMA HttpInitType == HttpInit => HttpTypeOK
BY HttpAssumption DEF HttpInit, HttpTypeOK, Phases, NoTicket

\* The loop of _call_with_retries (lines 71-88) never runs out of attempts
\* without having raised or returned.
THEOREM HttpTypeCorrect == HttpSpec => []HttpTypeOK
BY HttpInitType, HttpNextType, PTL DEF HttpSpec

-------------------------------------------------------------------------------
\* The phases of a call, as the supervisor sees them.
LEMMA Jobs ==
    /\ \A p \in {"send", "wait", "sleep", "got"} : JobOf[p] = "running"
    /\ \A p \in {"idle", "returned", "raised"} : JobOf[p] = p
BY DEF JobOf, Phases

\* Each step is a step of the contract, or none.
LEMMA StepsKeepContract ==
    HttpTypeOK /\ [HttpNext]_httpVars => [Contract!Next]_(JobOf[phase])
<1> SUFFICES ASSUME HttpTypeOK, [HttpNext]_httpVars
             PROVE  [Contract!Next]_(JobOf[phase])
  OBVIOUS
<1> USE Jobs DEF Contract!Next, Contract!Run, Contract!Finish, Contract!Collect,
                 Contract!Move
<1>1. ASSUME NEW k \in Targets, Call(k) PROVE Contract!Next
  BY <1>1 DEF Call
<1>2. CASE Send \/ Retry
  BY <1>2 DEF Send, Retry
<1>3. CASE NotConnected \/ Timeout
  BY <1>3, FailedType DEF NotConnected, Timeout
<1>4. CASE Read
  BY <1>4 DEF Read
<1>5. CASE Collect
  BY <1>5 DEF Collect
<1>6. ASSUME NEW s \in StatusCodes, Answer(s) PROVE [Contract!Next]_(JobOf[phase])
  BY <1>6, FailedType DEF Answer, Receive
<1>7. CASE (\E k \in Tickets : AnswerStray(k)) \/ UNCHANGED httpVars
  BY <1>7 DEF AnswerStray, httpVars, client
<1> QED BY <1>1, <1>2, <1>3, <1>4, <1>5, <1>6, <1>7 DEF HttpNext, ClientStep

\* run and get_open_ticket_keys return or raise once for each call, whatever
\* the service does (the safety part of KeepsContract).
THEOREM ReturnsOrRaisesOnce ==
    HttpSpec => Contract!Init /\ [][Contract!Next]_(JobOf[phase])
<1>1. HttpInit => Contract!Init
  BY Jobs DEF HttpInit, Contract!Init
<1> QED BY <1>1, HttpTypeCorrect, StepsKeepContract, PTL DEF HttpSpec
===============================================================================
