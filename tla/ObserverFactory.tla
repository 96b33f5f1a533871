-------------------------- MODULE ObserverFactory --------------------------
(***************************************************************************)
(* How the one DeathObserver is made and destroyed                         *)
(* (src/src/core/posix/child_process.cpp):                                 *)
(* create_once_with_signal_trap() called by several threads, constructor   *)
(* and destructor of DeathObserverImpl member by member, and the run() of  *)
(* the trap, which calls the slot of every observer that is connected.     *)
(***************************************************************************)
EXTENDS Integers

CONSTANT Creator  \* the threads that call create_once_with_signal_trap()

VARIABLES
  created,  \* has_been_created_once
  cpc,      \* where each creator, or the owner of its observer, is
  traps,    \* does the trap passed by each creator trap sig_chld?
  slots,    \* the creators whose observer is connected to signal_raised()
  died,     \* the member signals.child_died of each observer
  observed, \* the creators whose observer has an entry in children
  running,  \* somebody is in the run() of the trap for sig_chld
  calling,  \* the observers that the dispatch under way has yet to call
  misused,  \* history: the observers that emitted child_died outside its lifetime
  raced     \* history: the observers that were destroyed while the trap ran

ofVars == <<created, cpc, traps, slots, died, observed, running, calling, misused, raced>>

Making == {"connect", "signals", "check"}
Unwinding == {"unwind", "disconnect", "retry"}
Ending == {"end", "gone"}

OfTypeOK ==
  /\ created \in BOOLEAN
  /\ cpc \in [Creator -> {"idle", "made"} \cup Making \cup Unwinding \cup Ending]
  /\ traps \in [Creator -> BOOLEAN]
  /\ slots \subseteq Creator
  /\ died \in [Creator -> {"none", "alive", "destroyed"}]
  /\ observed \subseteq Creator
  /\ running \in BOOLEAN
  /\ calling \subseteq Creator
  /\ misused \subseteq Creator
  /\ raced \subseteq Creator

OfInit ==
  /\ created = FALSE
  /\ cpc = [c \in Creator |-> "idle"]
  /\ traps = [c \in Creator |-> FALSE]
  /\ slots = {}
  /\ died = [c \in Creator |-> "none"]
  /\ observed = {}
  /\ running = FALSE
  /\ calling = {}
  /\ misused = {}
  /\ raced = {}

Step(c, from, to) == cpc[c] = from /\ cpc' = [cpc EXCEPT ![c] = to]

\* core::Signal holds its mutex while it calls its slots, and to connect and
\* disconnect one.
SignalFree(c) == traps[c] => calling = {}

-----------------------------------------------------------------------------
(* create_once_with_signal_trap().                                         *)

\* Mutation of Exchange: the flag would be set by a store after the check.
ExchangeLoad(c) ==
  /\ ~created
  /\ Step(c, "idle", "connect")
  /\ \E has \in BOOLEAN : traps' = [traps EXCEPT ![c] = has]
  /\ UNCHANGED <<created, slots, died, observed, running, calling, misused, raced>>

\* The flag is set by the call that finds it unset; any other call throws.
Exchange(c) ==
  /\ ~created
  /\ Step(c, "idle", "connect")
  /\ created' = TRUE
  /\ \E has \in BOOLEAN : traps' = [traps EXCEPT ![c] = has]
  /\ UNCHANGED <<slots, died, observed, running, calling, misused, raced>>

\* An allocation fails before anything is connected.
NewFails(c) ==
  /\ Step(c, "connect", "retry")
  /\ UNCHANGED <<created, traps, slots, died, observed, running, calling, misused, raced>>

\* The constructor initializes on_sig_child_connection ...
Connect(c) ==
  /\ SignalFree(c)
  /\ Step(c, "connect", "signals")
  /\ slots' = IF traps[c] THEN slots \cup {c} ELSE slots
  /\ UNCHANGED <<created, traps, died, observed, running, calling, misused, raced>>

\* ... and then signals,
InitSignals(c) ==
  /\ Step(c, "signals", "check")
  /\ died' = [died EXCEPT ![c] = "alive"]
  /\ UNCHANGED <<created, traps, slots, observed, running, calling, misused, raced>>

\* and throws if the trap does not have sig_chld.
CheckTrap(c) ==
  /\ Step(c, "check", IF traps[c] THEN "made" ELSE "unwind")
  /\ UNCHANGED <<created, traps, slots, died, observed, running, calling, misused, raced>>

\* The members are destroyed in reverse order: signals ...
DestroySignals(c, from, to) ==
  /\ Step(c, from, to)
  /\ died' = [died EXCEPT ![c] = "destroyed"]
  /\ UNCHANGED <<created, traps, slots, observed, running, calling, misused>>

Unwind(c) == DestroySignals(c, "unwind", "disconnect") /\ UNCHANGED raced

\* ... and then on_sig_child_connection, children and guard.
Disconnect(c, from, to) ==
  /\ SignalFree(c)
  /\ Step(c, from, to)
  /\ slots' = slots \ {c}
  /\ observed' = observed \ {c}
  /\ UNCHANGED <<created, traps, died, running, calling, misused, raced>>

\* Mutation of Retry: the exception would leave the flag set.
RetryNever(c) ==
  /\ Step(c, "retry", "idle")
  /\ died' = [died EXCEPT ![c] = "none"]
  /\ UNCHANGED <<created, traps, slots, observed, running, calling, misused, raced>>

\* The catch block resets the flag and throws on.
Retry(c) ==
  /\ Step(c, "retry", "idle")
  /\ created' = FALSE
  /\ died' = [died EXCEPT ![c] = "none"]
  /\ UNCHANGED <<traps, slots, observed, running, calling, misused, raced>>

-----------------------------------------------------------------------------
(* The owner of the observer, and the thread that runs the trap.           *)

\* add() of a child that is alive.
Add(c) ==
  /\ cpc[c] = "made"
  /\ observed' = observed \cup {c}
  /\ UNCHANGED <<created, cpc, traps, slots, died, running, calling, misused, raced>>

\* The owner destroys the observer; nothing keeps it from doing so while the
\* trap runs.
End(c) ==
  /\ DestroySignals(c, "made", "end")
  /\ raced' = IF running THEN raced \cup {c} ELSE raced
EndDisconnect(c) == Disconnect(c, "end", "gone")

Run ==
  /\ ~running
  /\ running' = TRUE
  /\ raced' = raced \cup {c \in Creator : cpc[c] = "end"}
  /\ UNCHANGED <<created, cpc, traps, slots, died, observed, calling, misused>>

StopTrap ==
  /\ running /\ calling = {}
  /\ running' = FALSE
  /\ UNCHANGED <<created, cpc, traps, slots, died, observed, calling, misused, raced>>

\* SIGCHLD: run() emits signal_raised().
Dispatch ==
  /\ running /\ calling = {}
  /\ calling' = slots
  /\ UNCHANGED <<created, cpc, traps, slots, died, observed, running, misused, raced>>

\* Mutation of OnSigChild: every child that is reaped would be reported.
OnSigChildUnknown(c) ==
  /\ c \in calling
  /\ calling' = calling \ {c}
  /\ \E known, unknown \in BOOLEAN :
       /\ known => c \in observed
       /\ observed' = IF known THEN observed \ {c} ELSE observed
       /\ misused' = IF (known \/ unknown) /\ died[c] # "alive" THEN misused \cup {c}
                     ELSE misused
  /\ UNCHANGED <<created, cpc, traps, slots, died, running, raced>>

\* The slot calls on_sig_child(), which may reap children that add() was called
\* for, which it reports and erases, and others.
OnSigChild(c) ==
  /\ c \in calling
  /\ calling' = calling \ {c}
  /\ \E known \in BOOLEAN :
       /\ known => c \in observed
       /\ observed' = IF known THEN observed \ {c} ELSE observed
       /\ misused' = IF known /\ died[c] # "alive" THEN misused \cup {c} ELSE misused
  /\ UNCHANGED <<created, cpc, traps, slots, died, running, raced>>

OfNext ==
  \/ \E c \in Creator :
       \/ Exchange(c) \/ NewFails(c) \/ Connect(c) \/ InitSignals(c) \/ CheckTrap(c)
       \/ Unwind(c) \/ Disconnect(c, "disconnect", "retry")
       \/ Retry(c)
       \/ Add(c) \/ End(c) \/ EndDisconnect(c) \/ OnSigChild(c)
  \/ Run \/ StopTrap \/ Dispatch

OfSpec == OfInit /\ [][OfNext]_ofVars

-----------------------------------------------------------------------------
(* Properties.                                                             *)

\* "Creates the unique instance of class DeathObserver." (child_process.h:60):
\* no two observers are ever under construction or alive together, and none
\* follows one that was destroyed.
UniqueInstance ==
  \A c, d \in Creator : cpc[c] # "idle" /\ cpc[d] # "idle" => c = d

\* "We make sure that a throwing c'tor does not impact our ability to retry
\* creation" (child_process.cpp:174): has_been_created_once is set exactly while
\* a call is under way and from its success on.
FlagIsAccurate == created <=> \E c \in Creator : cpc[c] # "idle"

\* The slot is connected before the member signals exists and disconnected after
\* it was destroyed (child_process.cpp:141-147).  Still a run() that is under way
\* during the construction never makes the observer emit child_died before it
\* exists.  After its end it is emitted only by an observer that was destroyed
\* while the trap ran; nothing in the code prevents that.
EmitsWithinLifetime == misused \subseteq raced
=============================================================================
