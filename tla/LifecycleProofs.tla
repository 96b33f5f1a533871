-------------------------- MODULE LifecycleProofs --------------------------
(***************************************************************************)
(* Proofs about SignalMasks and ObserverFactory, for any number of         *)
(* threads, traps, signals and creators.                                   *)
(***************************************************************************)
EXTENDS SignalMasks, ObserverFactory, TLAPS

\* Only threads that were started are alive or heirs.
Born == \A t \in unborn : t \notin alive /\ \A k \in Trap : t \notin heirs[k]

\* The inductive invariant for the masks.
Trapping == MkTypeOK /\ Born /\ HeirsBlock /\ NoSignalEscapes

\* Trapping is inductive: constructors and destructors only add to a mask, and a
\* thread that is started inherits one.
LEMMA TrappingInvariant == MkSpec => []Trapping
<1>1. MkInit => Trapping
  BY MainIsThread DEF MkInit, Trapping, MkTypeOK, Born, HeirsBlock, NoSignalEscapes
<1>2. Trapping /\ [MkNext]_mkVars => Trapping'
  <2> SUFFICES ASSUME Trapping, [MkNext]_mkVars PROVE Trapping'
    OBVIOUS
  <2> USE DEF Trapping, MkTypeOK, Born, HeirsBlock, NoSignalEscapes
  <2>1. ASSUME NEW t \in Thread, NEW u \in Thread, Spawn(t, u) PROVE Trapping'
    <3>1. MkTypeOK' /\ Born' /\ NoSignalEscapes'
      BY <2>1 DEF Spawn
    <3>2. ASSUME NEW k \in Trap, trap'[k] = "live", NEW x \in heirs'[k]
          PROVE  blocked'[k] \subseteq mask'[x]
      <4>1. x = u \/ x \in heirs[k]
        BY <2>1, <3>2 DEF Spawn
      <4>2. CASE x = u
        <5>1. t \in heirs[k] /\ mask'[u] = mask[t]
          BY <2>1, <3>2, <4>2 DEF Spawn
        <5>2. QED
          BY <2>1, <3>2, <4>2, <5>1 DEF Spawn
      <4>3. CASE x \in heirs[k] /\ x # u
        BY <2>1, <3>2, <4>3 DEF Spawn
      <4>4. QED
        BY <4>1, <4>2, <4>3
    <3>3. QED
      BY <3>1, <3>2
  <2>2. ASSUME NEW t \in Thread, ThreadExits(t) PROVE Trapping'
    BY <2>2 DEF ThreadExits
  <2>3. ASSUME NEW s \in Signo, Deliver(s) PROVE Trapping'
    <3>1. {k \in Trap : /\ trap[k] = "live" /\ s \in blocked[k]
                        /\ alive \subseteq heirs[k]} = {}
      BY <2>3 DEF Deliver
    <3>2. QED
      BY <2>3, <3>1 DEF Deliver
  <2>4. ASSUME NEW t \in Thread, NEW k \in Trap, NEW signals \in SUBSET Signo,
               Construct(t, k, signals)
        PROVE  Trapping'
    BY <2>4 DEF Construct, SetSignalMask
  <2>5. ASSUME NEW t \in Thread, NEW k \in Trap, ConstructFails(t, k)
        PROVE  Trapping'
    BY <2>5 DEF ConstructFails
  <2>6. ASSUME NEW t \in Thread, NEW k \in Trap, Destroy(t, k)
        PROVE  Trapping'
    BY <2>6 DEF Destroy, SetSignalMask
  <2>7. CASE UNCHANGED mkVars
    BY <2>7 DEF mkVars
  <2>8. QED
    BY <2>1, <2>2, <2>3, <2>4, <2>5, <2>6, <2>7 DEF MkNext
<1> QED
  BY <1>1, <1>2, PTL DEF MkSpec

\* However many traps come and go on however many threads, the thread that made
\* a living trap and all threads started from it block its signals.
THEOREM TrapsAreInherited == MkSpec => []HeirsBlock
<1>1. Trapping => HeirsBlock
  BY DEF Trapping
<1> QED
  BY <1>1, TrappingInvariant, PTL

\* A signal that a living trap is there for reaches no thread of a process all
\* of whose threads descend from the one that made the trap.
THEOREM TrapsHold == MkSpec => []NoSignalEscapes
<1>1. Trapping => NoSignalEscapes
  BY DEF Trapping
<1> QED
  BY <1>1, TrappingInvariant, PTL

-----------------------------------------------------------------------------
\* An observer that can be called into is complete.
Complete ==
  /\ \A c \in Creator : cpc[c] \in {"check", "made"} => died[c] = "alive"
  /\ \A c \in observed : cpc[c] \in {"made", "end"}
  /\ \A c \in Creator : cpc[c] = "end" /\ running => c \in raced
  /\ calling # {} => running

\* The inductive invariant for the factory.
Guarded == OfTypeOK /\ UniqueInstance /\ FlagIsAccurate /\ Complete /\ EmitsWithinLifetime

\* Guarded is inductive: only the call that has set the flag constructs, and
\* only it resets the flag; nothing is observed before the construction is over.
LEMMA GuardedInvariant == OfSpec => []Guarded
<1> USE DEF Guarded, OfTypeOK, UniqueInstance, FlagIsAccurate, Complete,
            EmitsWithinLifetime, Making, Unwinding, Ending, Step
<1>1. OfInit => Guarded
  BY DEF OfInit
<1>2. Guarded /\ [OfNext]_ofVars => Guarded'
  <2> SUFFICES ASSUME Guarded, [OfNext]_ofVars PROVE Guarded'
    OBVIOUS
  <2>1. ASSUME NEW c \in Creator, Exchange(c) PROVE Guarded'
    BY <2>1 DEF Exchange
  <2>2. ASSUME NEW c \in Creator, NewFails(c) \/ Connect(c) PROVE Guarded'
    BY <2>2 DEF NewFails, Connect
  <2>3. ASSUME NEW c \in Creator, InitSignals(c) \/ CheckTrap(c) PROVE Guarded'
    BY <2>3 DEF InitSignals, CheckTrap
  <2>4. ASSUME NEW c \in Creator, Unwind(c) PROVE Guarded'
    BY <2>4 DEF Unwind, DestroySignals
  <2>5. ASSUME NEW c \in Creator, Disconnect(c, "disconnect", "retry")
        PROVE  Guarded'
    BY <2>5 DEF Disconnect
  <2>6. ASSUME NEW c \in Creator, Retry(c) PROVE Guarded'
    <3>1. /\ cpc[c] = "retry" /\ cpc' = [cpc EXCEPT ![c] = "idle"] /\ created' = FALSE
          /\ died' = [died EXCEPT ![c] = "none"]
          /\ UNCHANGED <<traps, slots, observed, running, calling, misused, raced>>
      BY <2>6 DEF Retry
    <3>2. \A d \in Creator \ {c} : cpc[d] = "idle"
      BY <3>1
    <3>3. OfTypeOK' /\ UniqueInstance' /\ EmitsWithinLifetime'
      BY <3>1
    <3>4. FlagIsAccurate'
      BY <3>1, <3>2
    <3>5. Complete'
      BY <3>1
    <3>6. QED
      BY <3>3, <3>4, <3>5
  <2>7. ASSUME NEW c \in Creator, Add(c) PROVE Guarded'
    BY <2>7 DEF Add
  <2>8. ASSUME NEW c \in Creator, End(c) PROVE Guarded'
    BY <2>8 DEF End, DestroySignals
  <2>9. ASSUME NEW c \in Creator, EndDisconnect(c) PROVE Guarded'
    BY <2>9 DEF EndDisconnect, Disconnect
  <2>10. ASSUME NEW c \in Creator, OnSigChild(c) PROVE Guarded'
    BY <2>10 DEF OnSigChild
  <2>11. CASE Run \/ StopTrap \/ Dispatch
    <3>1. CASE Run
      BY <3>1 DEF Run
    <3>2. CASE StopTrap
      BY <3>2 DEF StopTrap
    <3>3. CASE Dispatch
      BY <3>3 DEF Dispatch
    <3>4. QED
      BY <2>11, <3>1, <3>2, <3>3
  <2>12. CASE UNCHANGED ofVars
    BY <2>12 DEF ofVars
  <2>13. QED
    BY <2>1, <2>2, <2>3, <2>4, <2>5, <2>6, <2>7, <2>8, <2>9, <2>10, <2>11, <2>12
    DEF OfNext
<1> QED
  BY <1>1, <1>2, PTL DEF OfSpec

\* However many threads call create_once_with_signal_trap(), one observer at
\* most is ever under construction or alive.
THEOREM ObserverIsUnique == OfSpec => []UniqueInstance
<1>1. Guarded => UniqueInstance
  BY DEF Guarded
<1> QED
  BY <1>1, GuardedInvariant, PTL

\* A constructor that throws never leaves has_been_created_once set, and never
\* resets it for somebody else.
THEOREM CreationCanBeRetried == OfSpec => []FlagIsAccurate
<1>1. Guarded => FlagIsAccurate
  BY DEF Guarded
<1> QED
  BY <1>1, GuardedInvariant, PTL

\* child_died is never emitted before it was constructed, although its slot is
\* connected earlier, and after its destruction only when the trap ran meanwhile.
THEOREM EmissionsAreSafe == OfSpec => []EmitsWithinLifetime
<1>1. Guarded => EmitsWithinLifetime
  BY DEF Guarded
<1> QED
  BY <1>1, GuardedInvariant, PTL
=============================================================================
