------------------------------ MODULE HttpWorker ------------------------------
(***************************************************************************)
(* The client of the escalation agent: one call at a time, of run (POST    *)
(* /triage/{ticket}) or of get_open_ticket_keys (GET /tickets), each with  *)
(* the retry loop of _call_with_retries.  The service at the other end is  *)
(* outside this repository.  It may refuse the connection, answer with any *)
(* status, answer late or never; a request the client has given up is      *)
(* still there, and the service may still do the work it asks for.         *)
(***************************************************************************)
EXTENDS Naturals

CONSTANTS
    Tickets,        \* the tickets of the service
    MaxAttempts,    \* MAX_ATTEMPTS
    StatusCodes     \* what the service may answer with (redirects are followed)

TransientStatusCodes == {429, 502, 503, 504}

\* raise_for_status raises from 400 on: any 2xx or 3xx is as good as 200.
Success(s) == s < 400

\* What a call asks for when it is not about a ticket, and when there is none.
Listing == "GET /tickets"
Nothing == "nothing"
Targets == Tickets \cup {Listing}

ASSUME HttpAssumption ==
    /\ MaxAttempts \in Nat \ {0}
    /\ StatusCodes \subseteq 200..599
    /\ Listing \notin Tickets

VARIABLES
    phase,      \* how far the call has come
    target,     \* what it asks for
    attempt,    \* the number of the attempt, from 1
    status,     \* the status of the response that ended the retry loop
    strays,     \* POSTs about a ticket the client gave up and the service has
    posts,      \* history: POSTs about a ticket that reached the service
    triages     \* history: triages of a ticket the service has done

client == <<phase, target, attempt, status>>
service == <<strays, posts, triages>>
httpVars == <<client, service>>

Phases == {"idle", "send", "wait", "sleep", "got", "returned", "raised"}
NoTicket == [k \in Tickets |-> 0]

HttpInit ==
    /\ phase = "idle" /\ target = Nothing /\ attempt = 0 /\ status = 0
    /\ strays = NoTicket /\ posts = NoTicket /\ triages = NoTicket

-------------------------------------------------------------------------------
(* The client.                                                             *)

\* A count per ticket; GET /tickets is about no ticket.
OneMore(count, k) == IF k = Listing THEN count ELSE [count EXCEPT ![k] = @ + 1]

\* (A task without a ticket raises before anything is sent: that call is none.)
Call(k) ==
    /\ phase = "idle"
    /\ phase' = "send" /\ target' = k /\ attempt' = 1
    /\ UNCHANGED <<status, service>>

\* Fault: one attempt too many.
FailedOnce ==
    /\ phase' = IF attempt > MaxAttempts THEN "raised" ELSE "sleep"
    /\ UNCHANGED <<target, attempt, status>>

\* Fault: the loop ends without raising.
FailedSilently ==
    /\ phase' = IF attempt = MaxAttempts THEN "idle" ELSE "sleep"
    /\ UNCHANGED <<target, attempt, status>>

\* An attempt ended in a RequestException: the last one raises
\* EscalationServiceUnavailable, the others are followed by a pause.
Failed ==
    /\ phase' = IF attempt = MaxAttempts THEN "raised" ELSE "sleep"
    /\ UNCHANGED <<target, attempt, status>>

Send ==
    /\ phase = "send"
    /\ phase' = "wait"
    /\ posts' = OneMore(posts, target)
    /\ UNCHANGED <<target, attempt, status, strays, triages>>

NotConnected ==
    /\ phase = "send"
    /\ Failed
    /\ UNCHANGED service

\* Fault: the request has no timeout.
TimeoutNever == FALSE /\ UNCHANGED httpVars

\* The service has not answered in time; the request stays with it.
Timeout ==
    /\ phase = "wait"
    /\ Failed
    /\ strays' = OneMore(strays, target)
    /\ UNCHANGED <<posts, triages>>

Retry ==
    /\ phase = "sleep"
    /\ phase' = "send"
    /\ attempt' = attempt + 1
    /\ UNCHANGED <<target, status, service>>

\* The response is here: a transient status counts as a failed attempt, but
\* for the last attempt, whose response is returned whatever it says.
Receive(s) ==
    \/ /\ s \in TransientStatusCodes /\ attempt < MaxAttempts
       /\ Failed
    \/ /\ ~ (s \in TransientStatusCodes /\ attempt < MaxAttempts)
       /\ phase' = "got" /\ status' = s
       /\ UNCHANGED <<target, attempt>>

\* Fault: the status is not looked at.
ReadAnything ==
    /\ phase = "got"
    /\ phase' = "returned"
    /\ UNCHANGED <<target, attempt, status, service>>

\* run, and get_open_ticket_keys: an error status raises, and so does a body
\* without the expected fields, whatever the status.
Read ==
    /\ phase = "got"
    /\ \/ Success(status) /\ phase' = "returned"
       \/ phase' = "raised"
    /\ UNCHANGED <<target, attempt, status, service>>

\* The caller has its output or its exception.
Collect ==
    /\ phase \in {"returned", "raised"}
    /\ phase' = "idle" /\ target' = Nothing /\ attempt' = 0 /\ status' = 0
    /\ UNCHANGED service

-------------------------------------------------------------------------------
(* The service.                                                            *)

\* It answers in time.  A triage is done before its success is reported.
Answer(s) ==
    /\ phase = "wait"
    /\ Receive(s)
    /\ triages' = IF Success(s) THEN OneMore(triages, target) ELSE triages
    /\ UNCHANGED <<strays, posts>>

\* It comes to a request the client has given up: nobody reads the answer, but
\* the triage may be done.
AnswerStray(k) ==
    /\ strays[k] > 0
    /\ strays' = [strays EXCEPT ![k] = @ - 1]
    /\ triages' \in {triages, OneMore(triages, k)}
    /\ UNCHANGED <<client, posts>>

-------------------------------------------------------------------------------
\* The client's own steps: it never waits for ever, and it never stops.
ClientStep == Send \/ NotConnected \/ Timeout \/ Retry \/ Read

HttpNext ==
    \/ \E k \in Targets : Call(k)
    \/ ClientStep \/ Collect
    \/ \E s \in StatusCodes : Answer(s)
    \/ \E k \in Tickets : AnswerStray(k)

\* requests.request has a timeout and the interpreter runs the client.
HttpSpec == HttpInit /\ [][HttpNext]_httpVars /\ WF_httpVars(ClientStep)
-------------------------------------------------------------------------------
(* Correctness.                                                            *)

\* Every variable has its type; a pause is followed by another attempt, so the
\* retry loop never runs out of attempts without having raised or returned
\* (the line after the loop is never reached).
HttpTypeOK ==
    /\ phase \in Phases
    /\ target \in Targets \cup {Nothing}
    /\ attempt \in 0..MaxAttempts
    /\ status \in StatusCodes \cup {0}
    /\ {strays, posts, triages} \subseteq [Tickets -> Nat]
    /\ phase # "idle" => target \in Targets /\ attempt > 0
    /\ phase = "sleep" => attempt < MaxAttempts
    /\ phase = "got" => status \in StatusCodes

\* The client is a worker as the supervisor needs it: the call returns or
\* raises once, whatever the service does (worker.py, _call_with_retries).
JobOf == [p \in Phases |->
            IF p \in {"idle", "returned", "raised"} THEN p ELSE "running"]
Contract == INSTANCE WorkerContract WITH job <- JobOf[phase]
KeepsContract == Contract!Spec
===============================================================================
