-------------------------- MODULE SignalTrapProofs --------------------------
(***************************************************************************)
(* Proofs about SignalTrap: that no signal is lost, for any number of      *)
(* threads in run(), signals, stop() calls and sizes of the buffer; and    *)
(* what run() relies on when only one thread calls it.                     *)
(***************************************************************************)
EXTENDS SignalTrap, FiniteSetTheorems, TLAPS

\* Only a runner that dispatches has something in its buffer.
BufOK == \A r \in Runner : pc[r] # "emit" => buf[r] = {}

\* What makes conservation inductive.
Conserving == TypeOK /\ BufOK /\ SignalsConserved

\* The runners whose buffer b[r] contains s.
Holders(b, s) == {r \in Runner : s \in b[r]}

-----------------------------------------------------------------------------
\* The holders of a signal can be counted.
LEMMA HoldersFinite ==
  ASSUME NEW b \in [Runner -> SUBSET Signal], NEW s \in Signal
  PROVE  IsFiniteSet(Holders(b, s)) /\ Cardinality(Holders(b, s)) \in Nat
<1>1. Holders(b, s) \in SUBSET Runner /\ IsFiniteSet(Runner)
  BY ConstantsOK DEF ConstantsOK, Holders
<1> QED
  BY <1>1, FS_Subset, FS_CardinalityType

\* How the number of holders of a signal changes when one buffer does.
LEMMA HoldersCount ==
  ASSUME NEW b \in [Runner -> SUBSET Signal], NEW c \in [Runner -> SUBSET Signal],
         NEW r \in Runner, \A q \in Runner \ {r} : c[q] = b[q], NEW s \in Signal
  PROVE  Cardinality(Holders(c, s)) =
           IF s \in c[r] /\ s \notin b[r] THEN Cardinality(Holders(b, s)) + 1
           ELSE IF s \notin c[r] /\ s \in b[r] THEN Cardinality(Holders(b, s)) - 1
           ELSE Cardinality(Holders(b, s))
<1> DEFINE H == Holders(b, s)
           K == Holders(c, s)
<1>1. IsFiniteSet(H) /\ Cardinality(H) \in Nat
  BY HoldersFinite
<1>2. r \in H <=> s \in b[r]
  BY DEF Holders
<1>3. CASE s \in c[r]
  <2>1. K = H \cup {r}
    BY <1>3 DEF Holders
  <2>2. Cardinality(K) = IF r \in H THEN Cardinality(H) ELSE Cardinality(H) + 1
    BY Zenon, <1>1, <2>1, FS_AddElement
  <2>3. QED
    BY <1>1, <1>2, <1>3, <2>2
<1>4. CASE s \notin c[r]
  <2>1. K = H \ {r}
    BY <1>4 DEF Holders
  <2>2. Cardinality(K) = IF r \in H THEN Cardinality(H) - 1 ELSE Cardinality(H)
    BY Zenon, <1>1, <2>1, FS_RemoveElement
  <2>3. QED
    BY <1>1, <1>2, <1>4, <2>2
<1> QED
  BY <1>1, <1>3, <1>4

-----------------------------------------------------------------------------
\* A trap starts with nothing owed.
LEMMA ConservingInit == Init => Conserving
<1> SUFFICES ASSUME Init PROVE Conserving
  OBVIOUS
<1> USE ConstantsOK DEF ConstantsOK, Init
<1>1. TypeOK
  BY DEF TypeOK, Loop, Outside
<1>2. BufOK
  BY DEF BufOK
<1>3. SignalsConserved
  <2> SUFFICES ASSUME NEW s \in Signal
               PROVE  owed[s] = (IF s \in pending THEN 1 ELSE 0)
                                  + Cardinality({r \in Runner : s \in buf[r]})
                                  + dropped[s]
    BY DEF SignalsConserved
  <2>1. {r \in Runner : s \in buf[r]} = {}
    OBVIOUS
  <2>2. QED
    BY <2>1, FS_EmptySet
<1> QED
  BY <1>1, <1>2, <1>3 DEF Conserving

\* Every step keeps the signals: what leaves pending enters one buffer, and what
\* leaves a buffer is emitted.
LEMMA ConservingStep == Conserving /\ [Next]_vars => Conserving'
<1> SUFFICES ASSUME Conserving, [Next]_vars PROVE Conserving'
  OBVIOUS
<1> USE ConstantsOK DEF ConstantsOK
<1>0. /\ TypeOK /\ BufOK
      /\ \A s \in Signal : owed[s] = (IF s \in pending THEN 1 ELSE 0)
                                       + Cardinality(Holders(buf, s)) + dropped[s]
  BY DEF Conserving, SignalsConserved, Holders
<1> SUFFICES /\ TypeOK' /\ BufOK'
             /\ \A s \in Signal : owed'[s] = (IF s \in pending' THEN 1 ELSE 0)
                                               + Cardinality(Holders(buf', s)) + dropped'[s]
  BY DEF Conserving, SignalsConserved, Holders
<1>1. ASSUME NEW s \in Signal, Raise(s)
      PROVE  /\ TypeOK' /\ BufOK'
             /\ \A x \in Signal : owed'[x] = (IF x \in pending' THEN 1 ELSE 0)
                                               + Cardinality(Holders(buf', x)) + dropped'[x]
  <2>1. TypeOK' /\ BufOK'
    BY <1>0, <1>1 DEF Raise, TypeOK, BufOK
  <2>2. ASSUME NEW x \in Signal
        PROVE  owed'[x] = (IF x \in pending' THEN 1 ELSE 0) + Cardinality(Holders(buf', x)) + dropped'[x]
    <3>1. Cardinality(Holders(buf, x)) \in Nat
      BY <1>0, HoldersFinite DEF TypeOK
    <3>2. QED
      BY <1>0, <1>1, <3>1 DEF Raise, TypeOK
  <2>3. QED
    BY <2>1, <2>2
<1>2. ASSUME NEW r \in Runner, ReadSignals(r)
      PROVE  /\ TypeOK' /\ BufOK'
             /\ \A x \in Signal : owed'[x] = (IF x \in pending' THEN 1 ELSE 0)
                                               + Cardinality(Holders(buf', x)) + dropped'[x]
  <2>1. PICK got \in SUBSET pending :
          /\ buf' = [buf EXCEPT ![r] = got]
          /\ pending' = pending \ got
          /\ pending = {} => got = {}
    BY Zenon, <1>2 DEF ReadSignals
  <2>2. /\ pc' = [pc EXCEPT ![r] = IF pending = {} THEN "overrun" ELSE "emit"]
        /\ pc[r] = "read"
        /\ UNCHANGED <<state, event_fd, revents, owed, dropped>>
    BY <1>2 DEF ReadSignals, Goto
  <2>3. TypeOK'
    BY <1>0, <2>1, <2>2 DEF TypeOK, Loop, Outside
  <2>4. BufOK'
    BY <1>0, <2>1, <2>2 DEF TypeOK, BufOK
  <2>5. ASSUME NEW x \in Signal
        PROVE  owed'[x] = (IF x \in pending' THEN 1 ELSE 0) + Cardinality(Holders(buf', x)) + dropped'[x]
    <3>1. buf[r] = {} /\ got \in SUBSET Signal
      BY <1>0, <2>2 DEF TypeOK, BufOK
    <3>2. /\ Cardinality(Holders(buf, x)) \in Nat
          /\ Cardinality(Holders(buf', x)) =
               Cardinality(Holders(buf, x)) + (IF x \in got THEN 1 ELSE 0)
      <4>1. /\ buf \in [Runner -> SUBSET Signal] /\ buf' \in [Runner -> SUBSET Signal]
            /\ \A q \in Runner \ {r} : buf'[q] = buf[q]
            /\ buf'[r] = got
        BY <1>0, <2>1, <2>3 DEF TypeOK
      <4>2. Cardinality(Holders(buf, x)) \in Nat
        BY <4>1, HoldersFinite
      <4>3. QED
        BY <3>1, <4>1, <4>2, HoldersCount
    <3>3. QED
      BY <1>0, <2>1, <2>2, <3>2 DEF TypeOK
  <2>6. QED
    BY <2>3, <2>4, <2>5
<1>3. ASSUME NEW r \in Runner, Emit(r)
      PROVE  /\ TypeOK' /\ BufOK'
             /\ \A x \in Signal : owed'[x] = (IF x \in pending' THEN 1 ELSE 0)
                                               + Cardinality(Holders(buf', x)) + dropped'[x]
  <2>1. PICK s \in buf[r] : /\ buf' = [buf EXCEPT ![r] = @ \ {s}]
                            /\ owed' = [owed EXCEPT ![s] = @ - 1]
    BY Zenon, <1>3 DEF Emit
  <2>2. pc[r] = "emit" /\ UNCHANGED <<state, event_fd, pending, pc, revents, dropped>>
    BY <1>3 DEF Emit
  <2>3. TypeOK' /\ BufOK'
    BY <1>0, <2>1, <2>2 DEF TypeOK, BufOK
  <2>4. ASSUME NEW x \in Signal
        PROVE  owed'[x] = (IF x \in pending' THEN 1 ELSE 0) + Cardinality(Holders(buf', x)) + dropped'[x]
    <3>1. /\ Cardinality(Holders(buf, x)) \in Nat
          /\ Cardinality(Holders(buf', x)) =
               Cardinality(Holders(buf, x)) - (IF x = s THEN 1 ELSE 0)
      <4>1. /\ buf \in [Runner -> SUBSET Signal] /\ buf' \in [Runner -> SUBSET Signal]
            /\ \A q \in Runner \ {r} : buf'[q] = buf[q]
            /\ buf'[r] = buf[r] \ {s}
        BY <1>0, <2>1, <2>3 DEF TypeOK
      <4>2. Cardinality(Holders(buf, x)) \in Nat
        BY <4>1, HoldersFinite
      <4>3. QED
        BY <4>1, <4>2, HoldersCount
    <3>2. QED
      BY <1>0, <2>1, <2>2, <3>1 DEF TypeOK
  <2>5. QED
    BY <2>3, <2>4
<1>9. ASSUME NEW r \in Runner, EmitThrows(r)
      PROVE  /\ TypeOK' /\ BufOK'
             /\ \A x \in Signal : owed'[x] = (IF x \in pending' THEN 1 ELSE 0)
                                               + Cardinality(Holders(buf', x)) + dropped'[x]
  <2>1. PICK s \in buf[r] :
          /\ owed' = [owed EXCEPT ![s] = @ - 1]
          /\ dropped' = [x \in Signal |-> IF x \in buf[r] \ {s} THEN dropped[x] + 1
                                          ELSE dropped[x]]
    BY Zenon, <1>9 DEF EmitThrows
  <2>2. /\ pc' = [pc EXCEPT ![r] = "threw"] /\ buf' = [buf EXCEPT ![r] = {}]
        /\ UNCHANGED <<state, event_fd, pending, revents>>
    BY <1>9, Zenon DEF EmitThrows, Goto
  <2>3. s \in Signal
    BY <1>0 DEF TypeOK
  <2>4. TypeOK'
    BY <1>0, <2>1, <2>2, <2>3 DEF TypeOK, Loop, Outside
  <2>5. BufOK'
    BY <1>0, <2>2 DEF TypeOK, BufOK
  <2>6. ASSUME NEW x \in Signal
        PROVE  owed'[x] = (IF x \in pending' THEN 1 ELSE 0)
                            + Cardinality(Holders(buf', x)) + dropped'[x]
    <3>1. /\ Cardinality(Holders(buf, x)) \in Nat
          /\ Cardinality(Holders(buf', x)) =
               Cardinality(Holders(buf, x)) - (IF x \in buf[r] THEN 1 ELSE 0)
      <4>1. /\ buf \in [Runner -> SUBSET Signal] /\ buf' \in [Runner -> SUBSET Signal]
            /\ \A q \in Runner \ {r} : buf'[q] = buf[q]
            /\ buf'[r] = {}
        BY <1>0, <2>2, <2>4 DEF TypeOK
      <4>2. Cardinality(Holders(buf, x)) \in Nat
        BY <4>1, HoldersFinite
      <4>3. QED
        BY <4>1, <4>2, HoldersCount
    <3>2. /\ owed[x] \in Int /\ dropped[x] \in Nat
          /\ owed'[x] = owed[x] - (IF x = s THEN 1 ELSE 0)
          /\ dropped'[x] = dropped[x] + (IF x \in buf[r] \ {s} THEN 1 ELSE 0)
      BY <1>0, <2>1, <2>3 DEF TypeOK
    <3>3. QED
      BY <1>0, <2>2, <3>1, <3>2
  <2>7. QED
    BY <2>4, <2>5, <2>6
<1>4. ASSUME UNCHANGED <<pending, buf, owed, dropped>>, TypeOK', BufOK'
      PROVE  /\ TypeOK' /\ BufOK'
             /\ \A x \in Signal : owed'[x] = (IF x \in pending' THEN 1 ELSE 0)
                                               + Cardinality(Holders(buf', x)) + dropped'[x]
  BY <1>0, <1>4
<1>5. CASE Stop
  BY <1>0, <1>4, <1>5 DEF Stop, TypeOK, BufOK
<1>6. ASSUME NEW r \in Runner, Poll(r)
      PROVE  UNCHANGED <<pending, buf, owed, dropped>> /\ TypeOK' /\ BufOK'
  BY <1>0, <1>6 DEF Poll, Goto, TypeOK, BufOK, Loop, Outside
<1>7. ASSUME NEW r \in Runner,
             \/ RunCheck(r) \/ RunStore(r) \/ OpenSignalFd(r) \/ OpenFails(r)
             \/ PollFails(r) \/ SkipSignals(r) \/ EmitDone(r) \/ EventStop(r)
             \/ EventNone(r) \/ Leave(r)
      PROVE  UNCHANGED <<pending, buf, owed, dropped>> /\ TypeOK' /\ BufOK'
  <2> USE <1>0 DEF Goto, TypeOK, BufOK, Loop, Outside
  <2>1. CASE RunCheck(r) \/ RunStore(r) \/ OpenSignalFd(r) \/ OpenFails(r)
    BY <2>1 DEF RunCheck, RunStore, OpenSignalFd, OpenFails
  <2>2. CASE PollFails(r) \/ SkipSignals(r) \/ EmitDone(r)
    BY <2>2 DEF PollFails, SkipSignals, EmitDone
  <2>3. CASE EventStop(r) \/ EventNone(r) \/ Leave(r)
    BY <2>3 DEF EventStop, EventNone, Leave
  <2>4. QED
    BY <1>7, <2>1, <2>2, <2>3
<1>8. CASE UNCHANGED vars
  BY <1>0, <1>4, <1>8 DEF vars, TypeOK, BufOK
<1> QED
  BY <1>1, <1>2, <1>3, <1>4, <1>5, <1>6, <1>7, <1>8, <1>9 DEF Next, Running

\* Conserving holds in every reachable state.
LEMMA ConservingInvariant == Spec => []Conserving
  BY ConservingInit, ConservingStep, PTL DEF Spec

\* run(), stop() and the signals keep the types of their state, however many
\* threads call run().
THEOREM TypeCorrect == Spec => []TypeOK
<1>1. Conserving => TypeOK
  BY DEF Conserving
<1> QED
  BY <1>1, ConservingInvariant, PTL

\* No trapped signal is lost or dispatched twice by run(), even when several
\* threads have got past its check and read from signalfds side by side, system
\* calls fail and stop() comes at any time.
THEOREM NoSignalLost == Spec => []SignalsConserved
<1>1. Conserving => SignalsConserved
  BY DEF Conserving
<1> QED
  BY <1>1, ConservingInvariant, PTL

-----------------------------------------------------------------------------
\* What the revents of a runner promise until it has acted on them.
Fresh ==
  \A r \in Runner :
    /\ pc[r] = "read" /\ "signal_fd" \in revents[r] => pending # {}
    /\ pc[r] \in {"read", "emit", "event"} /\ "event_fd" \in revents[r] => event_fd > 0

\* With one runner its revents stay fresh and state says where it is.
Alone == TypeOK /\ Fresh /\ NoOverrun /\ StateIsAccurate

\* Alone is an invariant when one thread calls run(): nobody else reads from the
\* signalfd or the eventfd, or writes state.
LEMMA AloneInvariant ==
  ASSUME NEW R, Runner = {R}
  PROVE  Spec => []Alone
<1> USE ConstantsOK DEF ConstantsOK
<1>1. Init => Alone
  <2> SUFFICES ASSUME Init PROVE Alone
    OBVIOUS
  <2>1. TypeOK
    BY ConservingInit DEF Conserving
  <2>2. Fresh /\ NoOverrun /\ StateIsAccurate
    BY DEF Init, Fresh, NoOverrun, StateIsAccurate, Loop
  <2>3. QED
    BY <2>1, <2>2 DEF Alone
<1>2. TypeOK' /\ Alone /\ [Next]_vars => Alone'
  <2> SUFFICES ASSUME TypeOK', Alone, [Next]_vars
               PROVE  Fresh' /\ NoOverrun' /\ StateIsAccurate'
    BY DEF Alone
  <2> USE DEF Alone, TypeOK, Fresh, NoOverrun, StateIsAccurate, Goto, Loop, Outside
  <2>1. ASSUME NEW s \in Signal, Raise(s)
        PROVE  Fresh' /\ NoOverrun' /\ StateIsAccurate'
    BY <2>1 DEF Raise
  <2>2. CASE Stop
    BY <2>2 DEF Stop
  <2>3. CASE RunCheck(R) \/ RunStore(R) \/ OpenSignalFd(R) \/ OpenFails(R)
    BY <2>3 DEF RunCheck, RunStore, OpenSignalFd, OpenFails
  <2>4. CASE Poll(R)
    BY <2>4 DEF Poll
  <2>5. CASE PollFails(R) \/ SkipSignals(R) \/ Emit(R) \/ EmitDone(R)
    BY <2>5 DEF PollFails, SkipSignals, Emit, EmitDone
  <2>10. CASE EmitThrows(R)
    BY <2>10 DEF EmitThrows
  <2>6. CASE ReadSignals(R)
    BY <2>6 DEF ReadSignals
  <2>7. CASE EventStop(R) \/ EventNone(R) \/ Leave(R)
    BY <2>7 DEF EventStop, EventNone, Leave
  <2>8. CASE UNCHANGED vars
    BY <2>8 DEF vars
  <2>9. QED
    BY <2>1, <2>2, <2>3, <2>4, <2>5, <2>6, <2>7, <2>8, <2>10 DEF Next, Running
<1> QED
  BY <1>1, <1>2, TypeCorrect, PTL DEF Spec

\* With one thread in run(), the loop over signal_info stays in bounds, for any
\* signals and stops.
THEOREM OneRunnerSafe ==
  ASSUME NEW R, Runner = {R}
  PROVE  Spec => []NoOverrun
<1>1. Alone => NoOverrun
  BY DEF Alone
<1> QED
  BY <1>1, AloneInvariant, PTL

\* With one thread in run(), state is reset by every run() that no exception
\* leaves, so that the trap can be run again.
THEOREM OneRunnerResets ==
  ASSUME NEW R, Runner = {R}
  PROVE  Spec => []StateIsAccurate
<1>1. Alone => StateIsAccurate
  BY DEF Alone
<1> QED
  BY <1>1, AloneInvariant, PTL

\* With one thread in run(), "The call blocks until stop is called.": it leaves
\* its loop, but for a failing poll(), only by consuming a stop().
THEOREM OneRunnerBlocks ==
  ASSUME NEW R, Runner = {R}
  PROVE  Spec => BlocksUntilStop
<1>1. Alone /\ [Next]_vars =>
        [\A r \in Runner : pc[r] = "event" /\ pc'[r] = "leave" => event_fd > 0]_vars
  <2> SUFFICES ASSUME Alone, Next, pc[R] = "event", pc'[R] = "leave"
               PROVE  event_fd > 0
    OBVIOUS
  <2>1. EventStop(R)
    BY DEF Alone, TypeOK, Next, Running, Raise, Stop, RunCheck, RunStore, OpenSignalFd,
           OpenFails, Poll, PollFails, ReadSignals, SkipSignals, Emit,
           EmitThrows, EmitDone, EventNone, Leave, Goto, Outside
  <2>2. QED
    BY <2>1 DEF EventStop, Alone, Fresh
<1> QED
  BY <1>1, AloneInvariant, PTL DEF Spec, BlocksUntilStop
=============================================================================
