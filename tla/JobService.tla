------------------------------ MODULE JobService ------------------------------
(***************************************************************************)
(* What the nonlinear job service promises the page, whatever its workers  *)
(* do: one job is active at a time; a job begins once, only while it is    *)
(* queued, and ends once, as the user asked; and the checkpoint it shows   *)
(* only moves on, from where it was resumed, until the job ends.           *)
(***************************************************************************)
EXTENDS Naturals

CONSTANTS Jobs, Steps  \* Steps: the numbers of committed steps

VARIABLES open,    \* the service takes jobs
          status,  \* of each job
          wish,    \* what the user last asked of it
          shown    \* the last committed step reported as a checkpoint, 0 for none

jobVars == <<open, status, wish, shown>>

Executing == {"running", "pausing", "cancelling"}
Active == Executing \cup {"queued"}

Init ==
  /\ open = TRUE
  /\ status = [j \in Jobs |-> "none"]
  /\ wish = [j \in Jobs |-> "none"]
  /\ shown = [j \in Jobs |-> 0]

\* A job that is resumed starts from the checkpoint of the paused one.
Admit(j) ==
  /\ open /\ status[j] = "none" /\ \A k \in Jobs : status[k] \notin Active
  /\ \E s \in {"queued", "blocked"} : status' = [status EXCEPT ![j] = s]
  /\ \E c \in {0} \cup {shown[k] : k \in {i \in Jobs : status[i] = "paused"}} :
       shown' = [shown EXCEPT ![j] = c]
  /\ UNCHANGED <<open, wish>>

Begin(j) ==
  /\ status[j] = "queued"
  /\ \E s \in {"running", "failed"} : status' = [status EXCEPT ![j] = s]
  /\ UNCHANGED <<open, wish, shown>>

AskPause(j) ==
  /\ open
  /\ \/ status[j] = "queued" /\ status' = [status EXCEPT ![j] = "paused"]
     \/ status[j] = "running" /\ status' = [status EXCEPT ![j] = "pausing"]
  /\ wish' = [wish EXCEPT ![j] = "pause"]
  /\ UNCHANGED <<open, shown>>

\* A cancellation may follow a pause, not the other way round.
AskCancel(j) ==
  /\ open
  /\ \/ status[j] = "queued" /\ status' = [status EXCEPT ![j] = "cancelled"]
     \/ status[j] \in Executing /\ status' = [status EXCEPT ![j] = "cancelling"]
  /\ wish' = [wish EXCEPT ![j] = "cancel"]
  /\ UNCHANGED <<open, shown>>

Report(j) ==
  /\ status[j] \in Executing
  /\ \E c \in Steps : c > shown[j] /\ shown' = [shown EXCEPT ![j] = c]
  /\ UNCHANGED <<open, status, wish>>

\* The ends a wish leaves.
Ends(w) ==
  CASE w = "pause"  -> {"paused"}
    [] w = "cancel" -> {"cancelled"}
    [] OTHER        -> {"completed", "failed", "blocked"}

\* A result that is too large is given up, and the checkpoint with it.
End(j) ==
  /\ status[j] \in Executing
  /\ \E s \in Ends(wish[j]) :
       /\ status' = [status EXCEPT ![j] = s]
       /\ \/ UNCHANGED shown
          \/ s # "completed" /\ shown' = [shown EXCEPT ![j] = 0]
  /\ UNCHANGED <<open, wish>>

Close ==
  /\ open /\ open' = FALSE
  /\ status' = [j \in Jobs |-> IF status[j] \in Active THEN "cancelled" ELSE status[j]]
  /\ UNCHANGED <<wish, shown>>

Next ==
  \/ Close
  \/ \E j \in Jobs : Admit(j) \/ Begin(j) \/ AskPause(j) \/ AskCancel(j) \/ Report(j) \/ End(j)

Spec == Init /\ [][Next]_jobVars
===============================================================================
