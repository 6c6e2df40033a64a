------------------------------ MODULE Collector ------------------------------
(***************************************************************************)
(* What the stale file collector does to the files of a directory and to   *)
(* the workers that have them open, without the lock, the cursor and the   *)
(* limits by which it gets there: one file at a time is found to belong to *)
(* a dead worker, and is unlinked some time later or left alone.           *)
(***************************************************************************)
EXTENDS FiniteSets

CONSTANTS
  Pids,      \* the pids of workers
  NoPid,
  Files,     \* the names of metric files
  PidOf,     \* extract_numeric_pid of a name, NoPid if there is none
  PidReuse   \* a pid may come back

VARIABLES
  alive,   \* the pids of running workers
  born,    \* the pids that were ever given to a worker
  dir,     \* the *.db files of the directory
  mapped,  \* the store that the worker of a file has open: none, linked or orphan
  found    \* the file found dead last, if the sweep still means to unlink it

collectorVars == <<alive, born, dir, mapped, found>>

Begin(p) ==
  /\ p \notin alive
  /\ PidReuse \/ p \notin born
  /\ alive' = alive \cup {p}
  /\ born' = born \cup {p}
  /\ UNCHANGED <<dir, mapped, found>>

\* The one that dies may be the one that sweeps.
Die(p) ==
  /\ p \in alive
  /\ alive' = alive \ {p}
  /\ mapped' = [f \in Files |-> IF PidOf[f] = p THEN "none" ELSE mapped[f]]
  /\ found' \in {found, {}}
  /\ UNCHANGED <<born, dir>>

Link(f) ==
  /\ PidOf[f] \in alive
  /\ mapped[f] = "none"
  /\ mapped' = [mapped EXCEPT ![f] = "linked"]
  /\ dir' = dir \cup {f}
  /\ UNCHANGED <<alive, born, found>>

\* The file was listed before; it need not be there any more.
FindDead(f) ==
  /\ alive # {}
  /\ found = {}
  /\ PidOf[f] \in Pids \ alive
  /\ found' = {f}
  /\ UNCHANGED <<alive, born, dir, mapped>>

\* Too young, gone meanwhile, or not to be removed.
LeaveAlone ==
  /\ found' = {}
  /\ UNCHANGED <<alive, born, dir, mapped>>

Collect(f) ==
  /\ alive # {}
  /\ f \in found
  /\ f \in dir
  /\ dir' = dir \ {f}
  /\ mapped' = [mapped EXCEPT ![f] = IF @ = "linked" THEN "orphan" ELSE @]
  /\ found' = {}
  /\ UNCHANGED <<alive, born>>

CollectorInit ==
  /\ alive = {}
  /\ dir \in SUBSET Files
  /\ born = {p \in Pids : \E f \in dir : PidOf[f] = p}
  /\ mapped = [f \in Files |-> "none"]
  /\ found = {}

CollectorNext ==
  \/ \E p \in Pids : Begin(p) \/ Die(p)
  \/ \E f \in Files : Link(f) \/ FindDead(f) \/ Collect(f)
  \/ LeaveAlone

CollectorSpec == CollectorInit /\ [][CollectorNext]_collectorVars

=============================================================================
