---------------------------- MODULE SignalMasks ----------------------------
(***************************************************************************)
(* The life of signal traps in a process with several threads: constructor *)
(* and destructor of impl::SignalTrap (src/src/core/posix/signal.cpp) and  *)
(* the signal masks that decide where the kernel delivers a signal.        *)
(***************************************************************************)
EXTENDS Integers

CONSTANTS
  Thread,
  Main,    \* the thread the process starts with
  Trap,    \* bound: the SignalTrap instances
  Signo

ASSUME MainIsThread == Main \in Thread

VARIABLES
  alive,    \* the running threads
  unborn,   \* the threads that were not started yet
  mask,     \* kernel: the signals each thread blocks
  trap,     \* the life of each SignalTrap
  blocked,  \* blocked_signals_mask of each
  old,      \* old_signals_mask of each
  heirs,    \* history: who constructed the trap, and the threads started since
            \*          by one of those
  escaped   \* history: the traps that a signal got past although every thread
            \*          was an heir

mkVars == <<alive, unborn, mask, trap, blocked, old, heirs, escaped>>

MkTypeOK ==
  /\ alive \subseteq Thread /\ unborn \subseteq Thread
  /\ mask \in [Thread -> SUBSET Signo]
  /\ trap \in [Trap -> {"none", "live", "gone"}]
  /\ blocked \in [Trap -> SUBSET Signo] /\ old \in [Trap -> SUBSET Signo]
  /\ heirs \in [Trap -> SUBSET Thread]
  /\ escaped \subseteq Trap

MkInit ==
  /\ alive = {Main}
  /\ unborn = Thread \ {Main}
  /\ mask = [t \in Thread |-> {}]
  /\ trap = [k \in Trap |-> "none"]
  /\ blocked = [k \in Trap |-> {}]
  /\ old = [k \in Trap |-> {}]
  /\ heirs = [k \in Trap |-> {}]
  /\ escaped = {}

-----------------------------------------------------------------------------
(* The kernel and the threads.                                             *)

\* A new thread starts with the mask of the one that starts it.
Spawn(t, u) ==
  /\ t \in alive /\ u \in unborn
  /\ alive' = alive \cup {u}
  /\ unborn' = unborn \ {u}
  /\ mask' = [mask EXCEPT ![u] = mask[t]]
  /\ heirs' = [k \in Trap |-> IF t \in heirs[k] THEN heirs[k] \cup {u} ELSE heirs[k]]
  /\ UNCHANGED <<trap, blocked, old, escaped>>

ThreadExits(t) ==
  /\ t \in alive /\ alive # {t}
  /\ alive' = alive \ {t}
  /\ UNCHANGED <<unborn, mask, trap, blocked, old, heirs, escaped>>

\* A signal for the process goes to a thread that does not block it; when there
\* is none it stays pending, and the signalfd of run() finds it.
Deliver(s) ==
  /\ \E t \in alive : s \notin mask[t]
  /\ escaped' = escaped \cup {k \in Trap : /\ trap[k] = "live" /\ s \in blocked[k]
                                           /\ alive \subseteq heirs[k]}
  /\ UNCHANGED <<alive, unborn, mask, trap, blocked, old, heirs>>

-----------------------------------------------------------------------------
(* impl::SignalTrap.                                                       *)

\* set_thread_signal_mask() and set_process_signal_mask(): with SIG_BLOCK, and
\* on Linux sigprocmask(), too, is about the calling thread only.  So the two
\* scopes are the same.
SetSignalMask(t, new) == mask' = [mask EXCEPT ![t] = @ \cup new]

\* trap_signals_for_process() and trap_signals_for_all_subsequent_threads().
Construct(t, k, signals) ==
  /\ t \in alive /\ trap[k] = "none"
  /\ trap' = [trap EXCEPT ![k] = "live"]
  /\ blocked' = [blocked EXCEPT ![k] = signals]
  /\ old' = [old EXCEPT ![k] = mask[t]]
  /\ SetSignalMask(t, signals)
  /\ heirs' = [heirs EXCEPT ![k] = {t}]
  /\ UNCHANGED <<alive, unborn, escaped>>

\* eventfd() fails: the constructor throws before it changes the mask.
ConstructFails(t, k) ==
  /\ t \in alive /\ trap[k] = "none"
  /\ trap' = [trap EXCEPT ![k] = "gone"]
  /\ UNCHANGED <<alive, unborn, mask, blocked, old, heirs, escaped>>

\* Mutation of Destroy: the old mask would be restored, with SIG_SETMASK.
DestroyRestores(t, k) ==
  /\ t \in alive /\ trap[k] = "live"
  /\ trap' = [trap EXCEPT ![k] = "gone"]
  /\ mask' = [mask EXCEPT ![t] = old[k]]
  /\ UNCHANGED <<alive, unborn, blocked, old, heirs, escaped>>

\* ~SignalTrap, on whichever thread drops the last reference.  The old mask is
\* applied with SIG_BLOCK, too: nothing is ever unblocked.
Destroy(t, k) ==
  /\ t \in alive /\ trap[k] = "live"
  /\ trap' = [trap EXCEPT ![k] = "gone"]
  /\ SetSignalMask(t, old[k])
  /\ UNCHANGED <<alive, unborn, blocked, old, heirs, escaped>>

MkNext ==
  \/ \E t, u \in Thread : Spawn(t, u)
  \/ \E t \in Thread : ThreadExits(t)
  \/ \E s \in Signo : Deliver(s)
  \/ \E t \in Thread, k \in Trap :
       \/ \E signals \in SUBSET Signo : Construct(t, k, signals)
       \/ ConstructFails(t, k)
       \/ Destroy(t, k)

MkSpec == MkInit /\ [][MkNext]_mkVars

-----------------------------------------------------------------------------
(* Properties.                                                             *)

\* "Traps the specified signals for the current thread, and inherits the
\* respective signal mask to all child-threads." (signal.h:107): whatever other
\* traps are constructed and destroyed meanwhile, in any order and on any
\* thread, the heirs of a living trap block its signals.
HeirsBlock ==
  \A k \in Trap : trap[k] = "live" => \A t \in heirs[k] : blocked[k] \subseteq mask[t]

\* "Traps the specified signals for the entire process." (signal.h:100) is true
\* only for a process all of whose threads descend from the one that made the
\* trap: then no trapped signal is ever delivered to a thread.
NoSignalEscapes == escaped = {}
=============================================================================
