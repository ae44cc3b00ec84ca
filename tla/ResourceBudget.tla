---------------------------- MODULE ResourceBudget ----------------------------
(***************************************************************************)
(* The managed-memory budget every service of the page shares              *)
(* (src/core/resourceBudget.js): a map from owners to reserved bytes, a    *)
(* running total, and the owners quarantined because the worker that uses  *)
(* their memory could not be shown to have ended.                          *)
(*                                                                         *)
(* A JavaScript Map is kept as the set of its keys and a function that is  *)
(* 0 outside it, which is how the code reads it (owners.get(owner)||0).    *)
(***************************************************************************)
EXTENDS Integers

CONSTANTS Owners,    \* names handed out by nextOwner
          Sizes,     \* byte counts a caller may ask for
          MaxBytes   \* maxBytes of createResourceBudget

ASSUME BudgetAssumption == /\ Sizes \subseteq Nat
                           /\ MaxBytes \in Nat \ {0}

VARIABLES owners,       \* keys of the owners map
          bytes,        \* its values
          quarantined,  \* keys of the quarantined map
          total,        \* sum of the reservations, kept incrementally
          peak          \* largest total so far

budgetVars == <<owners, bytes, quarantined, total, peak>>

BudgetInit ==
  /\ owners = {}
  /\ bytes = [o \in Owners |-> 0]
  /\ quarantined = {}
  /\ total = 0
  /\ peak = 0

\* While a worker may still be alive nobody's reservation grows, and the
\* owner it holds is frozen.
TerminationUnconfirmed_OwnerOnly(o, b) == o \in quarantined \* mutant: others may grow

TerminationUnconfirmed(o, b) ==
  \/ o \in quarantined
  \/ quarantined # {} /\ b > bytes[o]

Proposed(o, b) == total - bytes[o] + b

Admits(o, b) == ~TerminationUnconfirmed(o, b) /\ Proposed(o, b) <= MaxBytes

Reserve(o, b) ==
  /\ Admits(o, b)
  /\ owners' = owners \cup {o}
  /\ bytes' = [bytes EXCEPT ![o] = b]
  /\ total' = Proposed(o, b)
  /\ peak' = IF Proposed(o, b) > peak THEN Proposed(o, b) ELSE peak
  /\ UNCHANGED quarantined

Forget(o) ==
  /\ owners' = owners \ {o}
  /\ bytes' = [bytes EXCEPT ![o] = 0]
  /\ total' = total - bytes[o]
  /\ UNCHANGED peak

\* A quarantined owner refuses to be released (returns false).
Release(o) ==
  IF o \in quarantined
  THEN UNCHANGED budgetVars
  ELSE Forget(o) /\ UNCHANGED quarantined

Quarantine(o) ==
  /\ o \in owners
  /\ quarantined' = quarantined \cup {o}
  /\ UNCHANGED <<owners, bytes, total, peak>>

ConfirmTermination(o) ==
  IF o \in quarantined
  THEN Forget(o) /\ quarantined' = quarantined \ {o}
  ELSE UNCHANGED budgetVars

BudgetNext ==
  \E o \in Owners :
    \/ \E b \in Sizes : Reserve(o, b)
    \/ Release(o)
    \/ Quarantine(o)
    \/ ConfirmTermination(o)

BudgetSpec == BudgetInit /\ [][BudgetNext]_budgetVars
-----------------------------------------------------------------------------
BudgetTypeOK ==
  /\ owners \in SUBSET Owners
  /\ bytes \in [Owners -> Nat]
  /\ quarantined \in SUBSET Owners
  /\ total \in Int
  /\ peak \in Nat

\* The total never exceeds the ceiling, nor the recorded peak: reservations
\* are admitted against the total as it would be after replacing the owner's
\* previous reservation (resourceBudget.js:27-29).
WithinBudget == total <= peak /\ peak <= MaxBytes

\* Memory of a worker whose end is unconfirmed stays accounted for, and what
\* is not reserved carries no bytes (resourceBudget.js:31-33).
QuarantineAccounted ==
  /\ quarantined \subseteq owners
  /\ \A o \in Owners \ owners : bytes[o] = 0

\* While any owner is quarantined no reservation grows, and a quarantined
\* reservation changes only by the confirmation that lifts the quarantine
\* (resourceBudget.js:26,31).
NoGrowthInQuarantine ==
  [][quarantined # {} =>
       \A o \in Owners :
         /\ bytes'[o] <= bytes[o]
         /\ o \in quarantined \cap quarantined' => bytes'[o] = bytes[o]]_budgetVars
=============================================================================
