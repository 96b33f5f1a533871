----------------------------- MODULE SignalTrap -----------------------------
(***************************************************************************)
(* impl::SignalTrap (src/src/core/posix/signal.cpp): run(), stop() and the *)
(* signals they race with.  A trapped signal is blocked, so the kernel     *)
(* keeps at most one pending instance of it until the signalfd is read;    *)
(* the eventfd counts the stop() calls nobody has consumed.                *)
(***************************************************************************)
EXTENDS Integers, FiniteSets

CONSTANTS
  Runner,    \* the threads that call run()
  Signal,    \* the trapped signals, blocked_signals_mask
  BufSize,   \* signal_info_buffer_size
  MaxStops,  \* bound: stop() calls that wait to be consumed
  Faults     \* may signalfd() and poll() fail, and slots throw?

ASSUME ConstantsOK ==
  /\ IsFiniteSet(Runner)
  /\ IsFiniteSet(Signal)
  /\ BufSize \in Nat \ {0}
  /\ MaxStops \in Nat \ {0}
  /\ Faults \in BOOLEAN

VARIABLES
  state,     \* SignalTrap::state
  event_fd,  \* the counter of the eventfd
  pending,   \* kernel: the trapped signals that are pending
  pc,        \* where each runner is in run()
  revents,   \* the fds for which poll() reported POLLIN to a runner
  buf,       \* the part of signal_info a runner has not dispatched yet
  owed,      \* history: pending instances raised but not yet emitted
  dropped    \* history: read, but abandoned because a slot threw

vars == <<state, event_fd, pending, pc, revents, buf, owed, dropped>>

Loop == {"poll", "read", "emit", "event"}
Outside == {"idle", "threw"}  \* threw: the last call of run() threw

TypeOK ==
  /\ state \in {"not_running", "running"}
  /\ event_fd \in 0..MaxStops
  /\ pending \in SUBSET Signal
  /\ pc \in [Runner -> {"store", "open", "leave", "overrun"} \cup Outside \cup Loop]
  /\ revents \in [Runner -> SUBSET {"signal_fd", "event_fd"}]
  /\ buf \in [Runner -> SUBSET Signal]
  /\ owed \in [Signal -> Int]
  /\ dropped \in [Signal -> Nat]

Init ==
  /\ state = "not_running"
  /\ event_fd = 0
  /\ pending = {}
  /\ pc = [r \in Runner |-> "idle"]
  /\ revents = [r \in Runner |-> {}]
  /\ buf = [r \in Runner |-> {}]
  /\ owed = [s \in Signal |-> 0]
  /\ dropped = [s \in Signal |-> 0]

Goto(r, from, to) == pc[r] = from /\ pc' = [pc EXCEPT ![r] = to]

-----------------------------------------------------------------------------
\* A trapped signal is raised.  It coalesces with one that is still pending.
Raise(s) ==
  /\ s \notin pending
  /\ pending' = pending \cup {s}
  /\ owed' = [owed EXCEPT ![s] = @ + 1]
  /\ UNCHANGED <<state, event_fd, pc, revents, buf, dropped>>

\* stop(), from any thread, a slot of signal_raised() included.
Stop ==
  /\ event_fd < MaxStops
  /\ event_fd' = event_fd + 1
  /\ UNCHANGED <<state, pending, pc, revents, buf, owed, dropped>>

-----------------------------------------------------------------------------
(* run().  A call that finds the trap running throws and changes nothing.  *)

RunCheck(r) ==
  /\ pc[r] \in Outside
  /\ state # "running"
  /\ pc' = [pc EXCEPT ![r] = "store"]
  /\ UNCHANGED <<state, event_fd, pending, revents, buf, owed, dropped>>

RunStore(r) ==
  /\ Goto(r, "store", "open")
  /\ state' = "running"
  /\ UNCHANGED <<event_fd, pending, revents, buf, owed, dropped>>

OpenSignalFd(r) ==
  /\ Goto(r, "open", "poll")
  /\ UNCHANGED <<state, event_fd, pending, revents, buf, owed, dropped>>

\* signalfd() fails: run() throws, the state stays as it is.
OpenFails(r) ==
  /\ Faults
  /\ Goto(r, "open", "threw")
  /\ UNCHANGED <<state, event_fd, pending, revents, buf, owed, dropped>>

\* Mutation of Poll: the revents would not be looked at.
PollUnchecked(r) ==
  /\ Goto(r, "poll", "read")
  /\ pending # {} \/ event_fd > 0
  /\ revents' = [revents EXCEPT ![r] = {"signal_fd", "event_fd"}]
  /\ UNCHANGED <<state, event_fd, pending, buf, owed, dropped>>

\* poll() returns as soon as one of the fds is readable (EINTR polls again).
Poll(r) ==
  /\ Goto(r, "poll", "read")
  /\ revents' = [revents EXCEPT ![r] =
                   {f \in {"signal_fd"} : pending # {}}
                     \cup {f \in {"event_fd"} : event_fd > 0}]
  /\ revents'[r] # {}
  /\ UNCHANGED <<state, event_fd, pending, buf, owed, dropped>>

\* poll() fails with another error than EINTR: the loop is left.
PollFails(r) ==
  /\ Faults
  /\ Goto(r, "poll", "leave")
  /\ UNCHANGED <<state, event_fd, pending, revents, buf, owed, dropped>>

\* Mutation of ReadSignals: room for one signal per poll().
ReadSignalsOne(r) ==
  /\ Goto(r, "read", IF pending = {} THEN "overrun" ELSE "emit")
  /\ "signal_fd" \in revents[r]
  /\ \E s \in pending : /\ buf' = [buf EXCEPT ![r] = {s}]
                        /\ pending' = pending \ {s}
  /\ UNCHANGED <<state, event_fd, revents, owed, dropped>>

\* read() moves up to BufSize pending signals to signal_info.  When there is
\* none (EAGAIN) it returns -1, which the comparison with the unsigned i turns
\* into a huge bound: the loop runs over the end of the buffer.
ReadSignals(r) ==
  /\ Goto(r, "read", IF pending = {} THEN "overrun" ELSE "emit")
  /\ "signal_fd" \in revents[r]
  /\ \E got \in SUBSET pending :
       /\ IF Cardinality(pending) <= BufSize THEN got = pending
          ELSE Cardinality(got) = BufSize
       /\ buf' = [buf EXCEPT ![r] = got]
       /\ pending' = pending \ got
  /\ UNCHANGED <<state, event_fd, revents, owed, dropped>>

SkipSignals(r) ==
  /\ Goto(r, "read", "event")
  /\ "signal_fd" \notin revents[r]
  /\ UNCHANGED <<state, event_fd, pending, revents, buf, owed, dropped>>

\* on_signal_raised(signal_info[i]).  Only trapped signals reach the
\* signalfd, so has() never filters one.
Emit(r) ==
  /\ pc[r] = "emit"
  /\ \E s \in buf[r] :
       /\ buf' = [buf EXCEPT ![r] = @ \ {s}]
       /\ owed' = [owed EXCEPT ![s] = @ - 1]
  /\ UNCHANGED <<state, event_fd, pending, pc, revents, dropped>>

\* A slot of signal_raised() throws: the exception leaves run() with the rest
\* of signal_info, and the state stays as it is.
EmitThrows(r) ==
  /\ Faults
  /\ Goto(r, "emit", "threw")
  /\ \E s \in buf[r] :
       /\ owed' = [owed EXCEPT ![s] = @ - 1]
       /\ dropped' = [x \in Signal |-> IF x \in buf[r] \ {s} THEN dropped[x] + 1
                                       ELSE dropped[x]]
  /\ buf' = [buf EXCEPT ![r] = {}]
  /\ UNCHANGED <<state, event_fd, pending, revents>>

\* Mutation of EmitDone: the loop over signal_info stops one entry early.
EmitDoneEarly(r) ==
  /\ Goto(r, "emit", "event")
  /\ Cardinality(buf[r]) <= 1
  /\ buf' = [buf EXCEPT ![r] = {}]
  /\ UNCHANGED <<state, event_fd, pending, revents, owed, dropped>>

EmitDone(r) ==
  /\ Goto(r, "emit", "event")
  /\ buf[r] = {}
  /\ UNCHANGED <<state, event_fd, pending, revents, buf, owed, dropped>>

\* Mutation of EventStop: the loop would be left after every poll().
EventStopAlways(r) ==
  /\ Goto(r, "event", "leave")
  /\ event_fd' = 0
  /\ UNCHANGED <<state, pending, revents, buf, owed, dropped>>

\* The read() resets the eventfd; its result does not matter.
EventStop(r) ==
  /\ Goto(r, "event", "leave")
  /\ "event_fd" \in revents[r]
  /\ event_fd' = 0
  /\ UNCHANGED <<state, pending, revents, buf, owed, dropped>>

\* Mutation of EventNone: the stop would be served only when no signal came.
EventNoneAfterSignal(r) ==
  /\ Goto(r, "event", "poll")
  /\ "event_fd" \notin revents[r] \/ "signal_fd" \in revents[r]
  /\ UNCHANGED <<state, event_fd, pending, revents, buf, owed, dropped>>

EventNone(r) ==
  /\ Goto(r, "event", "poll")
  /\ "event_fd" \notin revents[r]
  /\ UNCHANGED <<state, event_fd, pending, revents, buf, owed, dropped>>

\* Mutation of Leave: the state would not be reset.
LeaveRunning(r) ==
  /\ Goto(r, "leave", "idle")
  /\ UNCHANGED <<state, event_fd, pending, revents, buf, owed, dropped>>

Leave(r) ==
  /\ Goto(r, "leave", "idle")
  /\ state' = "not_running"
  /\ UNCHANGED <<event_fd, pending, revents, buf, owed, dropped>>

-----------------------------------------------------------------------------
Running(r) ==
  \/ RunStore(r) \/ OpenSignalFd(r) \/ OpenFails(r) \/ Poll(r) \/ PollFails(r)
  \/ ReadSignals(r) \/ SkipSignals(r) \/ Emit(r)
  \/ EmitThrows(r) \/ EmitDone(r) \/ EventStop(r) \/ EventNone(r) \/ Leave(r)

Next ==
  \/ \E s \in Signal : Raise(s)
  \/ Stop
  \/ \E r \in Runner : RunCheck(r) \/ Running(r)

Spec == Init /\ [][Next]_vars

\* A thread inside run() keeps running; nothing is assumed of the callers of
\* run() and stop() and of the senders of signals.
FairSpec == Spec /\ \A r \in Runner : WF_vars(Running(r))

-----------------------------------------------------------------------------
(* Properties.                                                             *)

\* No signal is lost or dispatched twice on its way through the signalfd, the
\* buffer and a stop(): what was raised is pending, in a buffer or emitted.
\* Only an exception of a slot (signal.cpp:158) loses signals, those of the
\* same read() that had not been dispatched yet.
SignalsConserved ==
  \A s \in Signal :
    owed[s] = (IF s \in pending THEN 1 ELSE 0)
                + Cardinality({r \in Runner : s \in buf[r]}) + dropped[s]

\* "SignalTrap::run can only be run once." (signal.cpp:109): two threads are
\* never inside run() together.
RunOnlyOnce ==
  \A r1, r2 \in Runner : pc[r1] \in Loop /\ pc[r2] \in Loop => r1 = r2

\* With one runner, the revents it acts on are never stale: when it reads the
\* signalfd there is something to read, so the loop over signal_info stays in
\* bounds.
NoOverrun == \A r \in Runner : pc[r] # "overrun"

\* "The call blocks until stop is called." (signal.h:81): a run() without a
\* failing system call leaves its loop only by consuming a stop().
BlocksUntilStop ==
  [][\A r \in Runner : pc[r] = "event" /\ pc'[r] = "leave" => event_fd > 0]_vars

\* state tells whether somebody is in run(), so that the trap can be run again
\* after stop() or a failing poll().  An exception is the only way to leave it
\* "running" with nobody in run(): signalfd() fails (signal.cpp:128) or a slot
\* throws (signal.cpp:158), and then every later call of run() throws, too.
StateIsAccurate ==
  state = "running" <=>
    \E r \in Runner : pc[r] \in Loop \cup {"open", "leave", "threw"}

\* A stop() is never lost, even one that comes before run() or while signals
\* keep coming in: every run() that is under way returns.
StopEndsRun ==
  \A r \in Runner : event_fd > 0 /\ pc[r] \notin Outside ~> pc[r] \in Outside

\* A trapped signal that is pending while the trap runs is taken up, unless
\* the run() ends; a trap for more signals than signal_info has room for may
\* leave one behind for ever while the others keep coming in.
SignalsTakenUp ==
  Cardinality(Signal) <= BufSize => \A r \in Runner, s \in Signal :
    s \in pending /\ pc[r] \in Loop ~> s \notin pending \/ pc[r] \notin Loop
=============================================================================
