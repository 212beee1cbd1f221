--------------------------- MODULE SearchService ---------------------------
(***************************************************************************)
(* What the search tool of the agent plugin promises: every call is        *)
(* answered once, with rows or with a failure text, or lost with the       *)
(* server when the server ends; and as long as the service is in step the  *)
(* rows are those of the caller's own query. The                           *)
(* service falls out of step when a caller gives up waiting, and regains   *)
(* it only at a moment at which nobody is waiting.                         *)
(***************************************************************************)
CONSTANTS Requests, NoRows

VARIABLES status, answer, inStep

vars == <<status, answer, inStep>>

Init ==
  /\ status = [r \in Requests |-> "idle"]
  /\ answer = [r \in Requests |-> NoRows]
  /\ inStep = TRUE

Nobody == \A r \in Requests : status[r] # "waiting"

(* A call arrives; a service nobody waits for may regain its step.         *)
Open(r) ==
  /\ status[r] = "idle"
  /\ status' = [status EXCEPT ![r] = "waiting"]
  /\ inStep' \in {inStep, inStep \/ Nobody}
  /\ UNCHANGED answer

(* Rows are handed to a waiting caller: its own while in step.             *)
Answer(r) ==
  /\ status[r] = "waiting"
  /\ status' = [status EXCEPT ![r] = "rows"]
  /\ \E q \in Requests :
       /\ inStep => q = r
       /\ answer' = [answer EXCEPT ![r] = q]
  /\ UNCHANGED inStep

(* Callers whose warm search failed retry on their own; giving up on a     *)
(* pending answer takes the service out of step.                           *)
GiveUp(R) ==
  /\ \A r \in R : status[r] = "waiting"
  /\ status' = [r \in Requests |-> IF r \in R THEN "retrying" ELSE status[r]]
  /\ inStep' \in {inStep, FALSE, Nobody'}
  /\ UNCHANGED answer

(* The retry answers its own caller, or fails.                             *)
Retry(r) ==
  /\ status[r] = "retrying"
  /\ \/ /\ status' = [status EXCEPT ![r] = "rows"]
        /\ answer' = [answer EXCEPT ![r] = r]
     \/ /\ status' = [status EXCEPT ![r] = "failed"]
        /\ UNCHANGED answer
  /\ UNCHANGED inStep

(* The call that arrives ends the server, and with it every call in it.    *)
Crash(r) ==
  /\ status[r] = "idle"
  /\ status' = [q \in Requests |->
                  IF q = r \/ status[q] \in {"waiting", "retrying"}
                  THEN "lost" ELSE status[q]]
  /\ inStep' = TRUE
  /\ UNCHANGED answer

Resync ==
  /\ Nobody
  /\ inStep' = TRUE
  /\ UNCHANGED <<status, answer>>

Next ==
  \/ \E r \in Requests : Open(r) \/ Answer(r) \/ Retry(r) \/ Crash(r)
  \/ \E R \in SUBSET Requests : GiveUp(R)
  \/ Resync

Spec == Init /\ [][Next]_vars
=============================================================================
