-------------------------- MODULE WorkerLeaseProofs --------------------------
(***************************************************************************)
(* Proofs about WorkerLease and the ResourceBudget it holds memory of, for *)
(* any set of tasks, any sizes and any ceiling.                            *)
(***************************************************************************)
EXTENDS WorkerLease, TLAPS

-----------------------------------------------------------------------------
(* The budget by itself. *)

BudgetInv == BudgetTypeOK /\ WithinBudget /\ QuarantineAccounted

\* No call of the budget makes the total exceed the ceiling or loses the
\* reservation of a quarantined owner.
LEMMA BudgetInvStep == BudgetInv /\ [BudgetNext]_budgetVars => BudgetInv'
<1> SUFFICES ASSUME BudgetInv, [BudgetNext]_budgetVars PROVE BudgetInv'
  OBVIOUS
<1> USE BudgetAssumption DEF BudgetInv, BudgetTypeOK, WithinBudget, QuarantineAccounted
<1>1. ASSUME NEW o \in Owners, NEW b \in Sizes, Reserve(o, b) PROVE BudgetInv'
  BY <1>1 DEF Reserve, Admits, TerminationUnconfirmed, Proposed
<1>2. ASSUME NEW o \in Owners, Release(o) PROVE BudgetInv'
  BY <1>2 DEF Release, Forget, budgetVars
<1>3. ASSUME NEW o \in Owners, Quarantine(o) PROVE BudgetInv'
  BY <1>3 DEF Quarantine
<1>4. ASSUME NEW o \in Owners, ConfirmTermination(o) PROVE BudgetInv'
  BY <1>4 DEF ConfirmTermination, Forget, budgetVars
<1>5. CASE UNCHANGED budgetVars
  BY <1>5 DEF budgetVars
<1> QED
  BY <1>1, <1>2, <1>3, <1>4, <1>5 DEF BudgetNext

\* The total stays within the ceiling and quarantined memory stays counted.
THEOREM BudgetKept == BudgetSpec => [](BudgetTypeOK /\ WithinBudget /\ QuarantineAccounted)
<1>1. BudgetInit => BudgetInv
  BY BudgetAssumption DEF BudgetInit, BudgetInv, BudgetTypeOK, WithinBudget, QuarantineAccounted
<1> QED
  BY <1>1, BudgetInvStep, PTL DEF BudgetSpec, BudgetInv

\* While one owner is quarantined nobody's reservation grows.
THEOREM QuarantineFreezes == BudgetSpec => NoGrowthInQuarantine
<1> DEFINE Frozen == quarantined # {} =>
             \A o \in Owners : /\ bytes'[o] <= bytes[o]
                               /\ o \in quarantined \cap quarantined' => bytes'[o] = bytes[o]
<1>1. BudgetInv /\ [BudgetNext]_budgetVars => [Frozen]_budgetVars
  <2> SUFFICES ASSUME BudgetInv, BudgetNext PROVE Frozen
    OBVIOUS
  <2> USE BudgetAssumption DEF BudgetInv, BudgetTypeOK
  <2>1. ASSUME NEW u \in Owners, NEW b \in Sizes, Reserve(u, b) PROVE Frozen
    BY <2>1 DEF Reserve, Admits, TerminationUnconfirmed
  <2>2. ASSUME NEW u \in Owners, Release(u) PROVE Frozen
    BY <2>2 DEF Release, Forget, budgetVars
  <2>3. ASSUME NEW u \in Owners, Quarantine(u) PROVE Frozen
    BY <2>3 DEF Quarantine
  <2>4. ASSUME NEW u \in Owners, ConfirmTermination(u) PROVE Frozen
    BY <2>4 DEF ConfirmTermination, Forget, budgetVars
  <2> QED
    BY <2>1, <2>2, <2>3, <2>4 DEF BudgetNext
<1>2. BudgetSpec => []BudgetInv
  BY BudgetKept, PTL DEF BudgetInv
<1> QED
  BY <1>1, <1>2, PTL DEF BudgetSpec, NoGrowthInQuarantine

-----------------------------------------------------------------------------
(* The tasks. *)

\* What one task's flags say about its worker and its reservation.
Lease(t) ==
  /\ held[t] <=> t \in quarantined
  /\ held[t] => t \in owners
  /\ MayRun(t) => t \in owners
  /\ task[t] = "idle" => factory[t] = "none" /\ worker[t] = "none" /\ ~held[t] /\ ~exited[t]
  /\ task[t] = "open" =>
       /\ factory[t] \in {"scheduled", "called", "delivered"}
       /\ t \in owners /\ ~held[t] /\ outcome[t] = "pending"
  /\ task[t] = "done" /\ FactoryPending(t) => held[t]
  /\ factory[t] = "late" /\ worker[t] = "live" => held[t]
  /\ factory[t] \notin {"delivered", "late"} => worker[t] = "none"
  /\ MayRun(t) /\ outcome[t] # "pending" => held[t]
  /\ exited[t] => ~MayRun(t) /\ ~FactoryPending(t)
  /\ task[t] = "refused" => factory[t] = "none" /\ worker[t] = "none"
  /\ term[t] = "late" => task[t] = "done" /\ factory[t] = "late"
  /\ term[t] = "pending" \/ grace[t] = "armed" => task[t] = "done" /\ factory[t] = "delivered"
  /\ outcome[t] # "pending" => task[t] \in {"done", "refused"}
  /\ factory[t] \in {"delivered", "late"} => worker[t] # "none"
  /\ outcome[t] = "result" => factory[t] = "delivered" /\ worker[t] = "exited"

TaskTypeOK ==
  /\ task \in [Owners -> {"idle", "refused", "open", "done"}]
  /\ factory \in [Owners -> {"none", "scheduled", "called", "delivered", "late", "over"}]
  /\ worker \in [Owners -> {"none", "live", "exited"}]
  /\ exited \in [Owners -> BOOLEAN]
  /\ held \in [Owners -> BOOLEAN]
  /\ watching \in [Owners -> BOOLEAN]
  /\ term \in [Owners -> {"none", "pending", "late", "over"}]
  /\ grace \in [Owners -> {"off", "armed", "expired"}]
  /\ verdict \in [Owners -> Verdicts]
  /\ outcome \in [Owners -> Outcomes]

IInv == TaskTypeOK /\ BudgetInv /\ \A t \in Owners : Lease(t)

-----------------------------------------------------------------------------
\* Every step of the tasks uses the budget through its own operations.
LEMMA StepUsesBudget == [Next]_vars => [BudgetNext]_budgetVars
<1> SUFFICES ASSUME [Next]_vars PROVE [BudgetNext]_budgetVars
  OBVIOUS
<1> USE DEF BudgetNext
<1>1. ASSUME NEW u \in Owners, NEW b \in Sizes, Start(u,b) PROVE [BudgetNext]_budgetVars
  BY <1>1 DEF Start, Settle
<1>2. ASSUME NEW u \in Owners, NEW b \in Sizes, Refuse(u,b) PROVE [BudgetNext]_budgetVars
  BY <1>2 DEF Refuse, Settle
<1>3. ASSUME NEW u \in Owners, Close(u) PROVE [BudgetNext]_budgetVars
  BY <1>3 DEF Close
<1>4. ASSUME NEW u \in Owners, Abort(u) PROVE [BudgetNext]_budgetVars
  BY <1>4 DEF Abort, Finish, Settle, Unconfirmed
<1>5. ASSUME NEW u \in Owners, Timeout(u) PROVE [BudgetNext]_budgetVars
  BY <1>5 DEF Timeout, Finish, Settle, Unconfirmed
<1>6. ASSUME NEW u \in Owners, CallFactory(u) PROVE [BudgetNext]_budgetVars
  BY <1>6 DEF CallFactory, ProofExit
<1>7. ASSUME NEW u \in Owners, FactoryResolves(u) PROVE [BudgetNext]_budgetVars
  BY <1>7 DEF FactoryResolves
<1>8. ASSUME NEW u \in Owners, FactoryRejects(u) PROVE [BudgetNext]_budgetVars
  BY <1>8 DEF FactoryRejects, Settle, ProofExit
<1>9. ASSUME NEW u \in Owners, Answer(u) PROVE [BudgetNext]_budgetVars
  BY <1>9 DEF Answer, Finish, Settle, Unconfirmed
<1>10. ASSUME NEW u \in Owners, WorkerExits(u) PROVE [BudgetNext]_budgetVars
  BY <1>10 DEF WorkerExits, ProofExit
<1>11. ASSUME NEW u \in Owners, TerminateResolves(u) PROVE [BudgetNext]_budgetVars
  BY <1>11 DEF TerminateResolves, Settle, ProofExit
<1>12. ASSUME NEW u \in Owners, TerminateRejects(u) PROVE [BudgetNext]_budgetVars
  BY <1>12 DEF TerminateRejects, Settle, Unconfirmed
<1>13. ASSUME NEW u \in Owners, GraceExpires(u) PROVE [BudgetNext]_budgetVars
  BY <1>13 DEF GraceExpires, Settle, Unconfirmed
<1>14. ASSUME NEW u \in Owners, LateTerminateResolves(u) PROVE [BudgetNext]_budgetVars
  BY <1>14 DEF LateTerminateResolves, ProofExit
<1>15. ASSUME NEW u \in Owners, LateTerminateRejects(u) PROVE [BudgetNext]_budgetVars
  BY <1>15 DEF LateTerminateRejects, Unconfirmed
<1>16. CASE UNCHANGED vars
  BY <1>16 DEF vars
<1> QED
  BY <1>1, <1>2, <1>3, <1>4, <1>5, <1>6, <1>7, <1>8, <1>9, <1>10, <1>11, <1>12, <1>13, <1>14, <1>15, <1>16 DEF Next, Loop, Platform

-----------------------------------------------------------------------------
(***************************************************************************)
(* Type correctness of the tasks' own variables.                           *)
(***************************************************************************)
LEMMA OutcomeSets ==
  /\ \A v \in Verdicts : v \in Outcomes
  /\ "none" \in Verdicts /\ "result" \in Verdicts /\ "cancelled" \in Verdicts
  /\ "timeout" \in Verdicts /\ "failed" \in Verdicts
  /\ "pending" \in Outcomes /\ "refused" \in Outcomes /\ "closed" \in Outcomes
  /\ "terminationTimeout" \in Outcomes /\ "terminationFailed" \in Outcomes
  BY DEF Verdicts, Outcomes

\* A settled promise's outcome is one of the outcomes, and both branches of
\* a conditional observer registration are Boolean.
LEMMA SettleType ==
  ASSUME outcome \in [Owners -> Outcomes], NEW u \in Owners, NEW v \in Outcomes, Settle(u, v)
  PROVE  outcome' \in [Owners -> Outcomes]
  BY DEF Settle

LEMMA WatchType ==
  ASSUME watching \in [Owners -> BOOLEAN], NEW u \in Owners, Set(watching, u, u \notin Web)
  PROVE  watching' \in [Owners -> BOOLEAN]
<1>1. (u \notin Web) \in BOOLEAN
  OBVIOUS
<1> QED
  BY <1>1, Zenon DEF Set

LEMMA TypeStep == TaskTypeOK /\ [Next]_vars => TaskTypeOK'
<1> SUFFICES ASSUME TaskTypeOK, [Next]_vars PROVE TaskTypeOK'
  OBVIOUS
<1> USE OutcomeSets DEF TaskTypeOK, Set
<1>1. ASSUME NEW u \in Owners, NEW b \in Sizes, Start(u,b) PROVE TaskTypeOK'
  BY <1>1 DEF Start, Settle
<1>2. ASSUME NEW u \in Owners, NEW b \in Sizes, Refuse(u,b) PROVE TaskTypeOK'
  BY <1>2 DEF Refuse, Settle
<1>3. ASSUME NEW u \in Owners, Close(u) PROVE TaskTypeOK'
  BY <1>3 DEF Close
<1>4. ASSUME NEW u \in Owners, Abort(u) PROVE TaskTypeOK'
  BY <1>4 DEF Abort, Finish, Settle, Unconfirmed
<1>5. ASSUME NEW u \in Owners, Timeout(u) PROVE TaskTypeOK'
  BY <1>5 DEF Timeout, Finish, Settle, Unconfirmed
<1>6. ASSUME NEW u \in Owners, CallFactory(u) PROVE TaskTypeOK'
  BY <1>6 DEF CallFactory, ProofExit
<1>7. ASSUME NEW u \in Owners, FactoryResolves(u) PROVE TaskTypeOK'
  <2>1. CASE task[u] = "open"
    BY <1>7, <2>1 DEF FactoryResolves
  <2>2. CASE task[u] # "open"
    BY <1>7, <2>2, WatchType DEF FactoryResolves
  <2> QED
    BY <2>1, <2>2
<1>8. ASSUME NEW u \in Owners, FactoryRejects(u) PROVE TaskTypeOK'
  BY <1>8 DEF FactoryRejects, Settle, ProofExit
<1>9. ASSUME NEW u \in Owners, Answer(u) PROVE TaskTypeOK'
  <2> PICK v \in {"result", "failed"} : Finish(u, v)
    BY <1>9 DEF Answer
  <2>1. factory[u] = "delivered" /\ UNCHANGED <<factory, exited>>
    BY <1>9 DEF Answer
  <2> QED
    BY <2>1, WatchType DEF Finish
<1>10. ASSUME NEW u \in Owners, WorkerExits(u) PROVE TaskTypeOK'
  <2>1. CASE task[u] = "open"
    <3>1. exited' \in [Owners -> BOOLEAN] /\ watching' \in [Owners -> BOOLEAN]
      BY <1>10, <2>1 DEF WorkerExits
    <3>2. /\ task' \in [Owners -> {"idle", "refused", "open", "done"}]
          /\ worker' \in [Owners -> {"none", "live", "exited"}]
          /\ term' \in [Owners -> {"none", "pending", "late", "over"}]
          /\ grace' \in [Owners -> {"off", "armed", "expired"}]
      BY <1>10, <2>1 DEF WorkerExits
    <3>3. verdict' \in [Owners -> Verdicts] /\ UNCHANGED <<factory, held, outcome>>
      BY <1>10, <2>1 DEF WorkerExits
    <3> QED
      BY <3>1, <3>2, <3>3
  <2>2. CASE task[u] # "open"
    BY <1>10, <2>2 DEF WorkerExits, ProofExit
  <2> QED
    BY <2>1, <2>2
<1>11. ASSUME NEW u \in Owners, TerminateResolves(u) PROVE TaskTypeOK'
  <2>1. CASE grace[u] = "expired"
    BY <1>11, <2>1 DEF TerminateResolves, ProofExit
  <2>2. CASE grace[u] # "expired"
    BY <1>11, <2>2, SettleType DEF TerminateResolves
  <2> QED
    BY <2>1, <2>2
<1>12. ASSUME NEW u \in Owners, TerminateRejects(u) PROVE TaskTypeOK'
  <2>1. CASE exited[u]
    BY <1>12, <2>1, SettleType DEF TerminateRejects
  <2>2. CASE ~exited[u]
    BY <1>12, <2>2, SettleType DEF TerminateRejects, Unconfirmed
  <2> QED
    BY <2>1, <2>2
<1>13. ASSUME NEW u \in Owners, GraceExpires(u) PROVE TaskTypeOK'
  <2>1. CASE exited[u]
    BY <1>13, <2>1, SettleType DEF GraceExpires
  <2>2. CASE ~exited[u]
    BY <1>13, <2>2, SettleType DEF GraceExpires, Unconfirmed
  <2> QED
    BY <2>1, <2>2
<1>14. ASSUME NEW u \in Owners, LateTerminateResolves(u) PROVE TaskTypeOK'
  BY <1>14 DEF LateTerminateResolves, ProofExit
<1>15. ASSUME NEW u \in Owners, LateTerminateRejects(u) PROVE TaskTypeOK'
  BY <1>15 DEF LateTerminateRejects, Unconfirmed
<1>16. CASE UNCHANGED vars
  BY <1>16 DEF vars, taskVars
<1> QED
  BY <1>1, <1>2, <1>3, <1>4, <1>5, <1>6, <1>7, <1>8, <1>9, <1>10, <1>11, <1>12, <1>13, <1>14, <1>15, <1>16 DEF Next, Loop, Platform

-----------------------------------------------------------------------------
(***************************************************************************)
(* Every step keeps every task's lease.  A step of task u changes only u's *)
(* flags and u's entry of the budget.                                      *)
(***************************************************************************)
LEMMA LeaseStep == IInv /\ [Next]_vars => \A t \in Owners : Lease(t)'
<1> SUFFICES ASSUME TaskTypeOK, BudgetTypeOK, \A t \in Owners : Lease(t), [Next]_vars,
                    NEW t \in Owners
             PROVE  Lease(t)'
  BY DEF IInv, BudgetInv
<1> USE DEF TaskTypeOK, BudgetTypeOK, Set
<1>1. ASSUME NEW u \in Owners, NEW b \in Sizes, Start(u,b) PROVE Lease(t)'
  BY <1>1 DEF Start, Settle, Reserve, Proposed, budgetVars, Lease, MayRun, FactoryPending
<1>2. ASSUME NEW u \in Owners, NEW b \in Sizes, Refuse(u,b) PROVE Lease(t)'
  BY <1>2 DEF Refuse, Settle, budgetVars, Lease, MayRun, FactoryPending
<1>3. ASSUME NEW u \in Owners, Close(u) PROVE Lease(t)'
  BY <1>3 DEF Close, Release, Forget, budgetVars, Lease, MayRun, FactoryPending
<1>4. ASSUME NEW u \in Owners, Abort(u) PROVE Lease(t)'
  BY <1>4 DEF Abort, Finish, Settle, Unconfirmed, Quarantine, budgetVars, Lease, MayRun, FactoryPending
<1>5. ASSUME NEW u \in Owners, Timeout(u) PROVE Lease(t)'
  BY <1>5 DEF Timeout, Finish, Settle, Unconfirmed, Quarantine, budgetVars, Lease, MayRun, FactoryPending
<1>6. ASSUME NEW u \in Owners, CallFactory(u) PROVE Lease(t)'
  BY <1>6 DEF CallFactory, ProofExit, ConfirmTermination, Forget, budgetVars, Lease, MayRun, FactoryPending
<1>7. ASSUME NEW u \in Owners, FactoryResolves(u) PROVE Lease(t)'
  BY <1>7 DEF FactoryResolves, budgetVars, Lease, MayRun, FactoryPending
<1>8. ASSUME NEW u \in Owners, FactoryRejects(u) PROVE Lease(t)'
  BY <1>8 DEF FactoryRejects, Settle, ProofExit, ConfirmTermination, Forget, budgetVars, Lease, MayRun, FactoryPending
<1>9. ASSUME NEW u \in Owners, Answer(u) PROVE Lease(t)'
  BY <1>9 DEF Answer, Finish, Settle, Unconfirmed, Quarantine, budgetVars, Lease, MayRun, FactoryPending
<1>10. ASSUME NEW u \in Owners, WorkerExits(u) PROVE Lease(t)'
  BY <1>10 DEF WorkerExits, ProofExit, ConfirmTermination, Forget, budgetVars, Lease, MayRun, FactoryPending
<1>11. ASSUME NEW u \in Owners, TerminateResolves(u) PROVE Lease(t)'
  BY <1>11 DEF TerminateResolves, Settle, ProofExit, ConfirmTermination, Forget, budgetVars, Lease, MayRun, FactoryPending
<1>12. ASSUME NEW u \in Owners, TerminateRejects(u) PROVE Lease(t)'
  BY <1>12 DEF TerminateRejects, Settle, Unconfirmed, Quarantine, budgetVars, Lease, MayRun, FactoryPending
<1>13. ASSUME NEW u \in Owners, GraceExpires(u) PROVE Lease(t)'
  BY <1>13 DEF GraceExpires, Settle, Unconfirmed, Quarantine, budgetVars, Lease, MayRun, FactoryPending
<1>14. ASSUME NEW u \in Owners, LateTerminateResolves(u) PROVE Lease(t)'
  BY <1>14 DEF LateTerminateResolves, ProofExit, ConfirmTermination, Forget, budgetVars, Lease, MayRun, FactoryPending
<1>15. ASSUME NEW u \in Owners, LateTerminateRejects(u) PROVE Lease(t)'
  BY <1>15 DEF LateTerminateRejects, Unconfirmed, Quarantine, budgetVars, Lease, MayRun, FactoryPending
<1>16. CASE UNCHANGED vars
  BY <1>16 DEF vars, taskVars, budgetVars, Lease, MayRun, FactoryPending
<1> QED
  BY <1>1, <1>2, <1>3, <1>4, <1>5, <1>6, <1>7, <1>8, <1>9, <1>10, <1>11, <1>12, <1>13, <1>14, <1>15, <1>16 DEF Next, Loop, Platform

-----------------------------------------------------------------------------
\* The invariant holds in every state: the tasks and the budget are well formed,
\* and what a task's flags say of its worker agrees with its reservation.
THEOREM InductiveInvariant == Spec => []IInv
<1>1. Init => IInv
  BY BudgetAssumption DEF Init, BudgetInit, IInv, TaskTypeOK, BudgetTypeOK, BudgetInv,
     WithinBudget, QuarantineAccounted, Lease, MayRun, FactoryPending, Verdicts, Outcomes
<1>2. IInv /\ [Next]_vars => IInv'
  BY TypeStep, LeaseStep, StepUsesBudget, BudgetInvStep DEF IInv
<1> QED
  BY <1>1, <1>2, PTL DEF Spec

\* The flags of the tasks and the budget keep their shape.
THEOREM TypeCorrect == Spec => []TypeOK
<1>1. IInv => TypeOK
  BY DEF IInv, BudgetInv, TaskTypeOK, TypeOK
<1> QED
  BY <1>1, InductiveInvariant, PTL

\* The reservation of a worker that may still run is never given back
\* (boundedWorkerTask.js:24-38).
THEOREM WorkersHoldAdmission == Spec => []AdmissionHeld
<1>1. IInv => AdmissionHeld
  BY DEF IInv, Lease, AdmissionHeld
<1> QED
  BY <1>1, InductiveInvariant, PTL

\* Whichever of answer, abort, time-out, exit and terminate() came first, a result is
\* handed out only after the worker that produced it has ended
\* (boundedWorkerTask.js:13-38).
THEOREM ResultsAfterEnd == Spec => []ResultAfterEnd
<1>1. IInv => ResultAfterEnd
  BY DEF IInv, Lease, ResultAfterEnd
<1> QED
  BY <1>1, InductiveInvariant, PTL

\* The tasks implement the budget's specification.
THEOREM LeaseImplementsBudget == Spec => BudgetSpec
<1>1. Init => BudgetInit
  BY DEF Init
<1> QED
  BY <1>1, StepUsesBudget, PTL DEF Spec, BudgetSpec
=============================================================================
