----------------------------- MODULE Obituaries -----------------------------
(***************************************************************************)
(* What ChildProcess::DeathObserver promises its users                     *)
(* (src/include/core/posix/child_process.h): child_died is emitted for     *)
(* dead children only, and once for every time a child was put under       *)
(* observation.  A report fails when a slot throws; nothing is promised    *)
(* then but that the child is dead.  (That child_died is emitted at all is *)
(* EveryDeathReported.)                                                    *)
(***************************************************************************)
EXTENDS Naturals

CONSTANT Child

VARIABLES
  dead,      \* the children that have ceased to exist
  watched,   \* how often each child was put under observation
  reported,  \* how often its death was reported
  failed     \* the children a report of whose death has failed

vars == <<dead, watched, reported, failed>>

Init ==
  /\ dead = {}
  /\ watched = [c \in Child |-> 0]
  /\ reported = [c \in Child |-> 0]
  /\ failed = {}

Die(c) ==
  /\ dead' = dead \cup {c}
  /\ UNCHANGED <<watched, reported, failed>>

\* A child that is already dead may still be put under observation.  A child
\* is under at most one observation at a time.
Watch(c) ==
  /\ c \in failed \/ reported[c] = watched[c]
  /\ watched' = [watched EXCEPT ![c] = @ + 1]
  /\ UNCHANGED <<dead, reported, failed>>

Report(c) ==
  /\ c \in dead
  /\ c \in failed \/ reported[c] < watched[c]
  /\ reported' = [reported EXCEPT ![c] = @ + 1]
  /\ failed' \in {failed, failed \cup {c}}
  /\ UNCHANGED <<dead, watched>>

Next == \E c \in Child : Die(c) \/ Watch(c) \/ Report(c)

Spec == Init /\ [][Next]_vars
=============================================================================
