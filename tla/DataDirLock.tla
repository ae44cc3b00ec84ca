----------------------------- MODULE DataDirLock -----------------------------
(***************************************************************************)
(* The lock on the data directory (server/store/lockfile.mjs) that keeps a *)
(* second server process away from the files of ProjectStore, and its use  *)
(* by server/main.mjs.                                                     *)
(*                                                                         *)
(* Each server is a process with a pid of its own that starts once and may *)
(* die at any step.  One file operation is one step and may fail (no       *)
(* space, too many open files, an error of the device).  Opening a file    *)
(* that exists for a heartbeat empties it; what is written through a       *)
(* handle of a file that was removed since is lost.  The JSON of an owner  *)
(* is written in one go, and at most one heartbeat of a server is in       *)
(* flight.                                                                 *)
(*                                                                         *)
(* Bounds: Servers; MaxBeats heartbeats of all servers together.           *)
(***************************************************************************)
EXTENDS Naturals

CONSTANTS Servers, NoFile, Torn, MaxBeats

ASSUME LockAssumption ==
  /\ NoFile # Torn /\ {NoFile, Torn} \cap Servers = {}
  /\ MaxBeats \in Nat

VARIABLES
  file,      \* NoFile, Torn (no owner can be read from it) or the owner in it
  pc,        \* where each server is
  attempt,   \* of acquireDataDirLock
  linked,    \* the open handle of a server is that of the file at the path
  beat,      \* "idle" | "due" | "open"
  beats,     \* heartbeats of all servers so far
  \* history
  lockTurns, \* no server has touched the lock while another did
  legible    \* no heartbeat failed behind its opening, no start failed to read a live owner

lockVars == <<file, pc, attempt, linked, beat, beats, lockTurns, legible>>

LockInit ==
  /\ file = NoFile
  /\ pc = [s \in Servers |-> "off"]
  /\ attempt = [s \in Servers |-> 0]
  /\ linked = [s \in Servers |-> FALSE]
  /\ beat = [s \in Servers |-> "idle"]
  /\ beats = 0
  /\ lockTurns = TRUE /\ legible = TRUE

At(s, places) == pc[s] \in places
Goto(s, place) == pc' = [pc EXCEPT ![s] = place]

isProcessAlive(s) == ~At(s, {"off", "dead"})
Acquiring(s) == At(s, {"creating", "writing", "reading", "removing"})
Holds(s) == At(s, {"held"})
Busy(s) == Acquiring(s) \/ At(s, {"releasing", "unlinking"}) \/ beat[s] # "idle"

LockInTurn(s) == lockTurns' = (lockTurns /\ \A t \in Servers \ {s} : ~Busy(t))

Remove == file' = NoFile /\ linked' = [s \in Servers |-> FALSE]
-----------------------------------------------------------------------------
(* acquireDataDirLock *)

\* An error other than EEXIST leaves acquireDataDirLock and ends the start.
Fail(s) == Goto(s, "failed")

Start(s) ==
  /\ At(s, {"off"}) /\ Goto(s, "creating") /\ LockInTurn(s)
  /\ UNCHANGED <<file, attempt, linked, beat, beats, legible>>

Create_Overwrites(s) == \* mutant: open with "w", not "wx"
  /\ At(s, {"creating"})
  /\ file' = Torn /\ linked' = [linked EXCEPT ![s] = TRUE] /\ Goto(s, "writing")
  /\ UNCHANGED <<attempt, beat, beats, lockTurns, legible>>

\* open(lockPath, 'wx')
Create(s) ==
  /\ At(s, {"creating"})
  /\ \/ /\ file = NoFile
        /\ file' = Torn /\ linked' = [linked EXCEPT ![s] = TRUE] /\ Goto(s, "writing")
     \/ /\ file # NoFile
        /\ Goto(s, "reading") /\ UNCHANGED <<file, linked>>
     \/ Fail(s) /\ UNCHANGED <<file, linked>>
  /\ UNCHANGED <<attempt, beat, beats, lockTurns, legible>>

\* Without its owner the file stays as it was created; close may fail as well.
WriteOwner(s) ==
  /\ At(s, {"writing"})
  /\ linked' = [linked EXCEPT ![s] = FALSE]
  /\ \/ /\ file' = IF linked[s] THEN s ELSE file
        /\ Goto(s, "held") \/ Fail(s)
     \/ Fail(s) /\ UNCHANGED file
  /\ UNCHANGED <<attempt, beat, beats, lockTurns, legible>>

\* readLockOwner: what the file holds, and nothing if the read fails.
readLockOwner == {file, Torn}

LiveOwner(owner) == owner \in Servers /\ isProcessAlive(owner)

ReadOwner_Waits(s) == \* mutant: a live owner is waited for
  /\ At(s, {"reading"})
  /\ Goto(s, IF LiveOwner(file) THEN "creating" ELSE "removing")
  /\ UNCHANGED <<file, attempt, linked, beat, beats, lockTurns, legible>>

\* An owner that cannot be read counts as a process that is gone.
ReadOwner(s) ==
  /\ At(s, {"reading"})
  /\ \E owner \in readLockOwner :
       /\ Goto(s, IF LiveOwner(owner) THEN "refused" ELSE "removing")
       /\ legible' = (legible /\ LiveOwner(owner) = LiveOwner(file))
  /\ UNCHANGED <<file, attempt, linked, beat, beats, lockTurns>>

RemoveStale_Always(s) == \* mutant: attempts are not counted
  /\ At(s, {"removing"})
  /\ Remove
  /\ attempt' = [attempt EXCEPT ![s] = @ + 1]
  /\ Goto(s, "creating")
  /\ UNCHANGED <<beat, beats, lockTurns, legible>>

RemoveStale_Once(s) == \* mutant: no second attempt after the clean-up
  /\ At(s, {"removing"})
  /\ Remove /\ Goto(s, "refused")
  /\ UNCHANGED <<attempt, beat, beats, lockTurns, legible>>

RemoveStale(s) ==
  /\ At(s, {"removing"})
  /\ \/ /\ Remove
        /\ attempt' = [attempt EXCEPT ![s] = @ + 1]
        /\ Goto(s, IF attempt[s] = 0 THEN "creating" ELSE "refused")
     \/ Fail(s) /\ UNCHANGED <<file, linked, attempt>>
  /\ UNCHANGED <<beat, beats, lockTurns, legible>>
-----------------------------------------------------------------------------
(* The lease. *)

Heartbeat(s) ==
  /\ Holds(s) /\ beat[s] = "idle" /\ beats < MaxBeats
  /\ beat' = [beat EXCEPT ![s] = "due"]
  /\ beats' = beats + 1
  /\ LockInTurn(s)
  /\ UNCHANGED <<file, pc, attempt, linked, legible>>

\* The file is emptied, or made anew if it is gone; the timer drops every error.
OpenBeat(s) ==
  /\ beat[s] = "due"
  /\ \/ /\ beat' = [beat EXCEPT ![s] = "open"]
        /\ file' = Torn /\ linked' = [linked EXCEPT ![s] = TRUE]
     \/ beat' = [beat EXCEPT ![s] = "idle"] /\ UNCHANGED <<file, linked>>
  /\ UNCHANGED <<pc, attempt, beats, lockTurns, legible>>

\* A write that fails leaves the file empty, and its server goes on.
WriteBeat(s) ==
  /\ beat[s] = "open" /\ beat' = [beat EXCEPT ![s] = "idle"]
  /\ \/ file' = (IF linked[s] THEN s ELSE file) /\ UNCHANGED legible
     \/ legible' = FALSE /\ UNCHANGED file
  /\ linked' = [linked EXCEPT ![s] = FALSE]
  /\ UNCHANGED <<pc, attempt, beats, lockTurns>>

Release(s) ==
  /\ Holds(s) /\ Goto(s, "releasing") /\ LockInTurn(s)
  /\ UNCHANGED <<file, attempt, linked, beat, beats, legible>>

\* release, of which main.mjs drops every error: the lock may stay behind.
CheckOwn(s) ==
  /\ At(s, {"releasing"})
  /\ \E owner \in readLockOwner : Goto(s, IF owner = s THEN "unlinking" ELSE "released")
  /\ UNCHANGED <<file, attempt, linked, beat, beats, lockTurns, legible>>

Unlink(s) ==
  /\ At(s, {"unlinking"})
  /\ Remove \/ UNCHANGED <<file, linked>>
  /\ Goto(s, "released")
  /\ UNCHANGED <<attempt, beat, beats, lockTurns, legible>>

Die(s) ==
  /\ isProcessAlive(s)
  /\ Goto(s, "dead")
  /\ beat' = [beat EXCEPT ![s] = "idle"]
  /\ linked' = [linked EXCEPT ![s] = FALSE]
  /\ UNCHANGED <<file, attempt, beats, lockTurns, legible>>
-----------------------------------------------------------------------------
FileStep(s) ==
  \/ Create(s) \/ WriteOwner(s) \/ ReadOwner(s) \/ RemoveStale(s)
  \/ OpenBeat(s) \/ WriteBeat(s) \/ CheckOwn(s) \/ Unlink(s)

LockNext == \E s \in Servers : Start(s) \/ Heartbeat(s) \/ Release(s) \/ Die(s) \/ FileStep(s)

LockSpec == LockInit /\ [][LockNext]_lockVars

\* A file operation ends, well or not.  No server has to start, beat, release or die.
FairLockSpec == LockSpec /\ \A s \in Servers : WF_lockVars(FileStep(s))
-----------------------------------------------------------------------------
Places == {"off", "creating", "writing", "reading", "removing", "refused", "failed", "held",
           "releasing", "unlinking", "released", "dead"}

LockTypeOK ==
  /\ file \in Servers \cup {NoFile, Torn}
  /\ pc \in [Servers -> Places]
  /\ attempt \in [Servers -> 0..2]
  /\ linked \in [Servers -> BOOLEAN]
  /\ beat \in [Servers -> {"idle", "due", "open"}]
  /\ beats \in 0..MaxBeats
  /\ lockTurns \in BOOLEAN /\ legible \in BOOLEAN

\* While the servers touch the lock one after the other, whichever of them die and
\* at whichever step, whichever file operations fail but these two: a heartbeat that
\* has emptied the lock writes it, and a server that starts can read a live owner.
\* Then a server that holds the directory holds it alone, and between its heartbeats
\* the lock names it (lockfile.mjs:28-46,81-87).
TurnsKeepLock ==
  lockTurns /\ legible => \A s \in Servers : Holds(s) =>
             /\ \A t \in Servers \ {s} : ~Holds(t)
             /\ beat[s] = "idle" /\ (\A t \in Servers : ~Busy(t)) => file = s

\* A start ends: the directory is held or the server refused, or the start failed
\* (lockfile.mjs:28-46).
StartsEnd == \A s \in Servers : Acquiring(s) ~> ~Acquiring(s)

OnlyServer(s) == \A t \in Servers \ {s} : ~isProcessAlive(t)

\* Whatever dead servers and failed operations left at the path, a server that starts
\* alone gets the directory unless a file operation of its own start fails ("Stale
\* lock files are reclaimed", WP-05-platform-hardening.md:89).
DeadOwnersReclaimed ==
  \A s \in Servers :
    (lockTurns /\ Acquiring(s) /\ OnlyServer(s))
      ~> (Holds(s) \/ At(s, {"dead", "failed"}) \/ ~OnlyServer(s))

\* Two live servers never hold the directory together, not even if no heartbeat and
\* no read fails ("live duplicate startup fails with a clear data directory lock
\* error", WP-05-platform-hardening.md:89).
OneHolder == legible => \A s, t \in Servers : Holds(s) /\ Holds(t) => s = t
=============================================================================
