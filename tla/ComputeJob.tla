------------------------------ MODULE ComputeJob ------------------------------
(***************************************************************************)
(* What the compute client promises its callers, whatever travels between  *)
(* page and worker: calls are served one at a time, a promise settles      *)
(* once, and an acknowledged cancellation rules the result out.            *)
(***************************************************************************)
CONSTANT Calls   \* requests of the page, each with its own promise

VARIABLES status,  \* "unused", "pending", or how the promise settled
          stopped  \* pending or ended calls whose cancellation was acknowledged

jobVars == <<status, stopped>>

Endings == {"result", "cancelled", "failed", "unposted", "disposed", "broken"}

Init ==
  /\ status = [q \in Calls |-> "unused"]
  /\ stopped = {}

Submit(q) ==
  /\ \A p \in Calls : status[p] # "pending"
  /\ status[q] = "unused"
  /\ status' = [status EXCEPT ![q] = "pending"]
  /\ UNCHANGED stopped

\* The request could not even be handed to the worker.
Reject(q) ==
  /\ status[q] = "unused"
  /\ status' = [status EXCEPT ![q] = "unposted"]
  /\ UNCHANGED stopped

\* The page may have given the call up before the acknowledgement arrives,
\* but a result it has received is never declared cancelled.
AcknowledgeCancel(q) ==
  /\ status[q] \notin {"unused", "result"}
  /\ stopped' = stopped \cup {q}
  /\ UNCHANGED status

\* A cancelled call had its cancellation acknowledged before.
Settle(q, v) ==
  /\ status[q] = "pending"
  /\ v = "result" => q \notin stopped
  /\ v = "cancelled" => q \in stopped
  /\ status' = [status EXCEPT ![q] = v]
  /\ UNCHANGED stopped

Next ==
  \E q \in Calls :
    \/ Submit(q) \/ Reject(q) \/ AcknowledgeCancel(q)
    \/ \E v \in Endings : Settle(q, v)

Spec == Init /\ [][Next]_jobVars
=============================================================================
