------------------------ MODULE DeathObserverProofs ------------------------
(***************************************************************************)
(* Proofs about DeathObserver, for any number of children, threads and     *)
(* calls.  Shape needs no assumption on pids; Lives is about the processes *)
(* behind the pids and needs a kernel that does not reuse them.            *)
(***************************************************************************)
EXTENDS DeathObserver, TLAPS

\* A thread is in a locked section exactly when it holds the guard.
GuardOK == \A t \in Thread : pc[t] \in Locked <=> guard = t

\* A pid in the table belongs to the child stored under it.
TableOK == \A p \in Pid : children[p] # None => pid[children[p]] = p

\* What a thread inside add() knows.
ArgOK ==
  \A t \in Thread :
    /\ pc[t] \in Adding => arg[t] \in Child /\ pid[arg[t]] \in Pid
    /\ pc[t] \notin Adding => arg[t] = None
    /\ pc[t] \in Adding \ {"add_lock"} => children[pid[arg[t]]] = arg[t]

\* What a thread inside on_sig_child() knows.
ReapedOK ==
  \A t \in Thread :
    /\ pc[t] \in {"osc_lock", "osc_emit", "osc_erase"} => reaped[t] \in Pid
    /\ pc[t] \in {"osc_emit", "osc_erase"} => children[reaped[t]] \in Child

\* A process has a pid from its fork() on, and a ChildProcess has a process.
PidOK ==
  /\ \A c \in Child : IF proc[c] = "unborn" THEN pid[c] = None
                      ELSE pid[c] \in Pid
  /\ \A c \in held : pid[c] \in Pid

Shape == TypeOK /\ GuardOK /\ TableOK /\ ArgOK /\ ReapedOK /\ PidOK
-----------------------------------------------------------------------------
\* ~Private in a child changes nothing but the child's own memory.
LEMMA DropInChildIsLocal ==
  ASSUME Shape, NEW d \in Child, NEW c \in Child, DropInChild(d, c)
  PROVE  /\ copies' \in [Child -> SUBSET Child]
         /\ UNCHANGED <<proc, pid, group, sigchld, held, guard, children, pc, arg,
                        reaped, inserted, emitted, slain, waited, threw>>
<1>1. /\ proc' = [e \in Child |-> proc[e]]
      /\ sigchld' = (sigchld \/ FALSE)
      /\ slain' = slain \cup ({c} \X {})
  BY DEF DropInChild, Release
<1>2. proc' = proc /\ slain' = slain
  BY <1>1 DEF Shape, TypeOK
<1>3. sigchld' = sigchld
  BY <1>1 DEF Shape, TypeOK
<1>4. copies' \in [Child -> SUBSET Child]
  BY DEF DropInChild, Shape, TypeOK
<1>5. QED
  BY <1>2, <1>3, <1>4 DEF DropInChild

\* Shape is inductive: the mutex, the table and the program counters of the
\* threads inside add() and on_sig_child() fit together in every state.
LEMMA ShapeInvariant == Spec => []Shape
<1> USE ConstantsOK DEF ConstantsOK, Thread, Dead, Adding, Reaping, Locked
<1>1. Init => Shape
  <2> SUFFICES ASSUME Init PROVE Shape
    OBVIOUS
  <2> USE DEF Init
  <2>1. TypeOK
    <3>1. copies \in [Child -> SUBSET Child]
      OBVIOUS
    <3>2. /\ slain \in SUBSET (Child \X Child)
          /\ waited \in SUBSET Child /\ threw \in SUBSET Child
      OBVIOUS
    <3>3. /\ guard \in Thread \cup {None}
          /\ pc \in [Thread -> {"idle", "threw"} \cup Adding \cup Reaping]
          /\ arg \in [Thread -> Child \cup {None}]
          /\ reaped \in [Thread -> Pid \cup {None}]
      OBVIOUS
    <3>4. QED
      BY Zenon, <3>1, <3>2, <3>3 DEF TypeOK
  <2>2. GuardOK /\ TableOK
    BY DEF GuardOK, TableOK
  <2>3. ArgOK /\ ReapedOK
    BY DEF ArgOK, ReapedOK
  <2>4. PidOK
    BY DEF PidOK
  <2>5. QED
    BY <2>1, <2>2, <2>3, <2>4 DEF Shape
<1>2. Shape /\ [Next]_vars => Shape'
  <2> SUFFICES ASSUME Shape, [Next]_vars PROVE Shape'
    OBVIOUS
  <2> USE DEF Shape, TypeOK, GuardOK, TableOK, ArgOK, ReapedOK, PidOK,
          kernel, history, Goto
  <2>1. ASSUME NEW c \in Child, Fork(c) PROVE Shape'
    <3>1. PICK p \in Pid : pid' = [pid EXCEPT ![c] = p]
      BY Zenon, <2>1 DEF Fork
    <3>2. \A d \in Child : pid[d] \in Pid => d # c
      BY <2>1 DEF Fork
    <3>3. TypeOK'
      BY <2>1, <3>1 DEF Fork
    <3>4. TableOK'
      BY <2>1, <3>1, <3>2 DEF Fork
    <3>5. ArgOK'
      BY <2>1, <3>1, <3>2 DEF Fork
    <3>6. (GuardOK /\ ReapedOK /\ PidOK)'
      BY <2>1, <3>1 DEF Fork
    <3>7. QED
      BY <3>3, <3>4, <3>5, <3>6
  <2>2. ASSUME NEW c \in Child, Die(c) PROVE Shape'
    BY <2>2 DEF Die
  <2>3. ASSUME NEW c \in Child, StopOrContinue(c) PROVE Shape'
    BY <2>3 DEF StopOrContinue
  <2>4. ASSUME NEW c \in Child, LeaveGroup(c) PROVE Shape'
    BY <2>4 DEF LeaveGroup
  <2>5. ASSUME NEW c \in Child, WaitFor(c) PROVE Shape'
    BY <2>5 DEF WaitFor, Owners
  <2>6. ASSUME NEW c \in Child, Drop(c) PROVE Shape'
    BY <2>6 DEF Drop, Release, Owners
  <2>7. ASSUME NEW t \in App, CallOnSigChild(t) PROVE Shape'
    BY <2>7 DEF CallOnSigChild
  <2>8. ASSUME NEW t \in App, NEW c \in Child, AddCall(t, c) PROVE Shape'
    BY <2>8 DEF AddCall
  <2>9. ASSUME TrapSigchld PROVE Shape'
    BY Zenon, <2>9 DEF TrapSigchld
  <2>10. ASSUME NEW t \in Thread, AddPresent(t) PROVE Shape'
    BY <2>10 DEF AddPresent
  <2>11. ASSUME NEW t \in Thread, AddInsert(t) PROVE Shape'
    BY <2>11 DEF AddInsert
  <2>12. ASSUME NEW t \in Thread, AddAlive(t) PROVE Shape'
    BY <2>12 DEF AddAlive
  <2>13. ASSUME NEW t \in Thread, AddDead(t) PROVE Shape'
    BY <2>13 DEF AddDead, Owners
  <2>14. ASSUME NEW t \in Thread, AddEmit(t) PROVE Shape'
    BY <2>14 DEF AddEmit
  <2>15. ASSUME NEW t \in Thread, AddErase(t) PROVE Shape'
    BY <2>15 DEF AddErase
  <2>16. ASSUME NEW t \in Thread, OscReap(t) PROVE Shape'
    BY <2>16 DEF OscReap
  <2>17. ASSUME NEW t \in Thread, OscNone(t) PROVE Shape'
    BY <2>17 DEF OscNone
  <2>18. ASSUME NEW t \in Thread, OscUnknown(t) PROVE Shape'
    BY <2>18 DEF OscUnknown
  <2>19. ASSUME NEW t \in Thread, OscFind(t) PROVE Shape'
    BY <2>19 DEF OscFind
  <2>20. ASSUME NEW t \in Thread, OscEmit(t) PROVE Shape'
    BY <2>20 DEF OscEmit
  <2>21. ASSUME NEW t \in Thread, OscErase(t) PROVE Shape'
    <3>1. reaped[t] \in Pid /\ pc[t] = "osc_erase" /\ guard = t
      BY <2>21 DEF OscErase
    <3>2. /\ pc' = [pc EXCEPT ![t] = "osc_wait"]
          /\ children' = [children EXCEPT ![reaped[t]] = None]
          /\ guard' = None /\ reaped' = [reaped EXCEPT ![t] = None]
          /\ UNCHANGED <<pid, group, held, copies, arg, inserted, emitted, waited, threw>>
      BY <2>21, Zenon DEF OscErase
    <3>3. /\ proc' \in [Child -> {"unborn", "alive"} \cup Dead]
          /\ \A d \in Child : proc'[d] = "unborn" <=> proc[d] = "unborn"
          /\ sigchld' \in BOOLEAN /\ slain' \in SUBSET (Child \X Child)
      <4>1. children[reaped[t]] \in Child
        BY <3>1 DEF ReapedOK
      <4>2. Release(TRUE, children[reaped[t]], held, children')
        BY <2>21, Zenon DEF OscErase
      <4>3. QED
        BY <4>1, <4>2 DEF Release, Owners
    <3>4. TypeOK'
      BY <3>1, <3>2, <3>3
    <3>5. GuardOK' /\ ArgOK'
      BY <3>1, <3>2
    <3>6. TableOK'
      BY <3>1, <3>2
    <3>7. ReapedOK'
      BY <3>1, <3>2
    <3>8. PidOK'
      BY <3>2, <3>3
    <3>9. QED
      BY <3>4, <3>5, <3>6, <3>7, <3>8, Zenon
  <2>22. CASE UNCHANGED vars
    BY <2>22 DEF vars
  <2>24. ASSUME NEW c \in Child, NEW d \in Child, DropInChild(d, c) PROVE Shape'
    BY <2>24, DropInChildIsLocal
  <2>25. ASSUME NEW t \in Thread, AddThrows(t) PROVE Shape'
    BY <2>25 DEF AddThrows
  <2>26. ASSUME NEW t \in Thread, OscThrows(t) PROVE Shape'
    BY <2>26 DEF OscThrows
  <2>23. QED
    BY Zenon, <2>1, <2>2, <2>3, <2>4, <2>5, <2>6, <2>7, <2>8, <2>9, <2>10, <2>11,
       <2>12, <2>13, <2>14, <2>15, <2>16, <2>17, <2>18, <2>19, <2>20, <2>21,
       <2>22, <2>24, <2>25, <2>26 DEF Next, Add, OnSigChild
<1>3. QED
  BY <1>1, <1>2, PTL DEF Spec

-----------------------------------------------------------------------------
\* Every state of the observer is well typed.
THEOREM TypeCorrect == Spec => []TypeOK
BY ShapeInvariant, PTL DEF Shape

\* No death is forgotten although SIGCHLDs coalesce: TrapSigchld clears the
\* signal only on entering the reap loop, and on_sig_child() leaves the loop
\* only when waitpid() finds no dead child of the group.
THEOREM WakeupNeverLost == Spec => []NoLostWakeup
<1> USE ConstantsOK DEF ConstantsOK, Thread, Dead, Adding, Reaping, Locked
<1>1. Init => NoLostWakeup
  BY DEF Init, NoLostWakeup
<1>2. Shape /\ NoLostWakeup /\ [Next]_vars => NoLostWakeup'
  <2> SUFFICES ASSUME Shape, NoLostWakeup, [Next]_vars PROVE NoLostWakeup'
    OBVIOUS
  <2> USE DEF Shape, TypeOK, NoLostWakeup, kernel, history, Goto
  <2>1. ASSUME NEW c \in Child, Fork(c) PROVE NoLostWakeup'
    BY <2>1 DEF Fork
  <2>2. ASSUME NEW c \in Child, Die(c) PROVE NoLostWakeup'
    BY <2>2 DEF Die
  <2>3. ASSUME NEW c \in Child, StopOrContinue(c) PROVE NoLostWakeup'
    BY <2>3 DEF StopOrContinue
  <2>4. ASSUME NEW c \in Child, LeaveGroup(c) PROVE NoLostWakeup'
    BY <2>4 DEF LeaveGroup
  <2>5. ASSUME NEW c \in Child, WaitFor(c) PROVE NoLostWakeup'
    BY <2>5 DEF WaitFor, Owners
  <2>6. ASSUME NEW c \in Child, Drop(c) PROVE NoLostWakeup'
    BY Zenon, <2>6 DEF Drop, Release, Owners
  <2>7. ASSUME NEW t \in App, CallOnSigChild(t) PROVE NoLostWakeup'
    BY <2>7 DEF CallOnSigChild
  <2>8. ASSUME NEW t \in App, NEW c \in Child, AddCall(t, c) PROVE NoLostWakeup'
    BY <2>8 DEF AddCall
  <2>9. ASSUME TrapSigchld PROVE NoLostWakeup'
    BY <2>9 DEF TrapSigchld
  <2>10. ASSUME NEW t \in Thread, AddPresent(t) PROVE NoLostWakeup'
    BY <2>10 DEF AddPresent
  <2>11. ASSUME NEW t \in Thread, AddInsert(t) PROVE NoLostWakeup'
    BY <2>11 DEF AddInsert
  <2>12. ASSUME NEW t \in Thread, AddAlive(t) PROVE NoLostWakeup'
    BY <2>12 DEF AddAlive
  <2>13. ASSUME NEW t \in Thread, AddDead(t) PROVE NoLostWakeup'
    BY <2>13 DEF AddDead, Owners
  <2>14. ASSUME NEW t \in Thread, AddEmit(t) PROVE NoLostWakeup'
    BY <2>14 DEF AddEmit
  <2>15. ASSUME NEW t \in Thread, AddErase(t) PROVE NoLostWakeup'
    BY <2>15 DEF AddErase
  <2>16. ASSUME NEW t \in Thread, OscReap(t) PROVE NoLostWakeup'
    BY <2>16 DEF OscReap
  <2>17. ASSUME NEW t \in Thread, OscNone(t) PROVE NoLostWakeup'
    BY <2>17 DEF OscNone
  <2>18. ASSUME NEW t \in Thread, OscUnknown(t) PROVE NoLostWakeup'
    BY <2>18 DEF OscUnknown
  <2>19. ASSUME NEW t \in Thread, OscFind(t) PROVE NoLostWakeup'
    BY <2>19 DEF OscFind
  <2>20. ASSUME NEW t \in Thread, OscEmit(t) PROVE NoLostWakeup'
    BY <2>20 DEF OscEmit
  <2>21. ASSUME NEW t \in Thread, OscErase(t) PROVE NoLostWakeup'
    BY Zenon, <2>21 DEF OscErase, Release, Owners
  <2>22. CASE UNCHANGED vars
    BY <2>22 DEF vars
  <2>24. ASSUME NEW c \in Child, NEW d \in Child, DropInChild(d, c) PROVE NoLostWakeup'
    BY <2>24, DropInChildIsLocal
  <2>25. ASSUME NEW t \in Thread, AddThrows(t) PROVE NoLostWakeup'
    BY <2>25 DEF AddThrows
  <2>26. ASSUME NEW t \in Thread, OscThrows(t) PROVE NoLostWakeup'
    BY <2>26 DEF OscThrows
  <2>23. QED
    BY Zenon, <2>1, <2>2, <2>3, <2>4, <2>5, <2>6, <2>7, <2>8, <2>9, <2>10, <2>11,
       <2>12, <2>13, <2>14, <2>15, <2>16, <2>17, <2>18, <2>19, <2>20,
       <2>21, <2>22, <2>24, <2>25, <2>26
       DEF Next, Add, OnSigChild
<1>3. QED
  BY <1>1, <1>2, ShapeInvariant, PTL DEF Spec

\* A step that neither inserts, emits nor erases leaves the account of every
\* child alone.
LEMMA QuietStep ==
  ASSUME OneObituaryPerInsertion,
         UNCHANGED <<children, inserted, emitted, threw>>,
         \A t \in Thread :
           /\ pc[t] = "add_erase" <=> pc'[t] = "add_erase"
           /\ pc[t] = "osc_erase" <=> pc'[t] = "osc_erase"
           /\ pc[t] = "add_erase" => arg'[t] = arg[t]
           /\ pc[t] = "osc_erase" => reaped'[t] = reaped[t]
  PROVE  OneObituaryPerInsertion'
<1>1. \A c \in Child : Owed(c)' <=> Owed(c)
  BY DEF Owed, Observed
<1>2. QED
  BY <1>1 DEF OneObituaryPerInsertion

\* add() and on_sig_child() share the work: each insertion is answered by one
\* emission, by the thread that holds the guard between emission and erase.
THEOREM ObituaryPerInsertion == Spec => []OneObituaryPerInsertion
<1> USE ConstantsOK DEF ConstantsOK, Thread
<1>1. Init => OneObituaryPerInsertion
  <2> SUFFICES ASSUME Init, NEW c \in Child
               PROVE  inserted[c] = emitted[c] + (IF Owed(c) THEN 1 ELSE 0)
    BY DEF OneObituaryPerInsertion
  <2>1. ~Owed(c)
    BY DEF Init, Owed, Observed
  <2>2. QED
    BY <2>1 DEF Init
<1>2. ASSUME Shape, Shape', OneObituaryPerInsertion, [Next]_vars
      PROVE  OneObituaryPerInsertion'
  <2> USE <1>2 DEF Shape, TypeOK, Goto, history
  <2>1. CASE UNCHANGED <<children, pc, arg, reaped, inserted, emitted, threw>>
    BY <2>1, QuietStep
  <2>2. ASSUME NEW t \in App, CallOnSigChild(t) PROVE OneObituaryPerInsertion'
    BY <2>2, QuietStep DEF CallOnSigChild
  <2>3. ASSUME NEW t \in App, NEW c \in Child, AddCall(t, c)
        PROVE  OneObituaryPerInsertion'
    BY <2>3, QuietStep DEF AddCall
  <2>4. CASE TrapSigchld
    BY <2>4, QuietStep DEF TrapSigchld
  <2>5. ASSUME NEW t \in Thread, AddPresent(t) \/ AddAlive(t) \/ AddDead(t)
        PROVE  OneObituaryPerInsertion'
    BY <2>5, QuietStep DEF AddPresent, AddAlive, AddDead
  <2>6. ASSUME NEW t \in Thread,
               OscReap(t) \/ OscNone(t) \/ OscUnknown(t) \/ OscFind(t)
        PROVE  OneObituaryPerInsertion'
    <3>1. PICK k \in {"idle", "osc_lock", "osc_wait", "osc_emit"} :
            /\ pc[t] \in {"osc_wait", "osc_lock"} /\ pc' = [pc EXCEPT ![t] = k]
            /\ reaped' = reaped \/ \E r : reaped' = [reaped EXCEPT ![t] = r]
      BY <2>6, Zenon DEF OscReap, OscNone, OscUnknown, OscFind
    <3>2. UNCHANGED <<children, inserted, emitted, arg, threw>>
      BY <2>6, Zenon DEF OscReap, OscNone, OscUnknown, OscFind
    <3>3. QED
      BY <3>1, <3>2, QuietStep
  <2>7. ASSUME NEW t \in Thread, AddInsert(t) PROVE OneObituaryPerInsertion'
    <3> DEFINE c == arg[t]
    <3>1. c \in Child /\ pid[c] \in Pid
      BY <2>7 DEF AddInsert, ArgOK, Adding
    <3>2. ~Owed(c)
      <4>1. children[pid[c]] = None
        BY <2>7, Zenon DEF AddInsert
      <4>2. ~Observed(c)
        BY <3>1, <4>1 DEF Observed, TableOK
      <4>3. QED
        BY <4>2, Zenon DEF Owed
    <3>3. Owed(c)'
      <4>1. children'[pid[c]] = c
        BY <2>7, <3>1 DEF AddInsert
      <4>2. guard' = t /\ pc'[t] = "add_check"
        BY <2>7 DEF AddInsert
      <4>3. \A u \in Thread : pc'[u] # "add_erase" /\ pc'[u] # "osc_erase"
        BY <4>2 DEF GuardOK, Locked
      <4>4. QED
        <5>1. arg'[t] = arg[t]
          BY <2>7, Zenon DEF AddInsert
        <5>2. Observed(c)'
          BY <3>1, <4>1, <5>1, Zenon DEF Observed
        <5>3. QED
          BY <4>3, <5>2, Zenon DEF Owed
    <3>4. \A d \in Child : d # c => (Owed(d)' <=> Owed(d))
      <4> SUFFICES ASSUME NEW d \in Child, d # c PROVE Owed(d)' <=> Owed(d)
        OBVIOUS
      <4>1. Observed(d)' <=> Observed(d)
        BY <2>7, <3>1 DEF AddInsert, Observed
      <4>2. \A u \in Thread : pc[u] # "osc_erase" /\ pc'[u] # "osc_erase"
        BY <2>7 DEF AddInsert, GuardOK, Locked
      <4>3. QED
        BY Zenon, <2>7, <4>1, <4>2 DEF AddInsert, Owed
    <3>5. QED
      BY <2>7, <3>1, <3>2, <3>3, <3>4 DEF AddInsert, OneObituaryPerInsertion
  <2>8. ASSUME NEW t \in Thread, NEW c \in Child,
               \/ AddEmit(t) /\ c = arg[t]
               \/ OscEmit(t) /\ c = children[reaped[t]]
        PROVE  OneObituaryPerInsertion'
    <3>1. Owed(c)
      <4>1. pc[t] \in {"add_emit", "osc_emit"} /\ guard = t
        BY <2>8 DEF AddEmit, OscEmit, GuardOK, Locked
      <4>2. Observed(c)
        BY <2>8 DEF AddEmit, OscEmit, Observed, ArgOK, ReapedOK, Adding
      <4>3. \A u \in Thread : pc[u] # "add_erase" /\ pc[u] # "osc_erase"
        BY <4>1 DEF GuardOK, Locked
      <4>4. QED
        BY <4>2, <4>3, Zenon DEF Owed
    <3>2. ~Owed(c)'
      BY Zenon, <2>8 DEF AddEmit, OscEmit, Owed
    <3>3. \A d \in Child : d # c => (Owed(d)' <=> Owed(d))
      <4>1. UNCHANGED <<children, arg, reaped>>
        BY <2>8, Zenon DEF AddEmit, OscEmit
      <4>2. \A u \in Thread \ {t} : pc'[u] = pc[u]
        BY <2>8, Zenon DEF AddEmit, OscEmit
      <4>3. \/ pc[t] = "add_emit" /\ pc'[t] = "add_erase" /\ arg[t] = c
            \/ pc[t] = "osc_emit" /\ pc'[t] = "osc_erase" /\ children[reaped[t]] = c
        BY <2>8 DEF AddEmit, OscEmit
      <4>4. QED
        BY <4>1, <4>2, <4>3 DEF Owed, Observed
    <3>4. emitted' = [emitted EXCEPT ![c] = @ + 1] /\ UNCHANGED <<inserted, threw>>
      BY <2>8 DEF AddEmit, OscEmit
    <3>5. QED
      BY <3>1, <3>2, <3>3, <3>4 DEF OneObituaryPerInsertion
  <2>9. ASSUME NEW t \in Thread, NEW p \in Pid,
               \/ AddErase(t) /\ p = pid[arg[t]]
               \/ OscErase(t) /\ p = reaped[t]
        PROVE  OneObituaryPerInsertion'
    <3>1. /\ children' = [children EXCEPT ![p] = None]
          /\ UNCHANGED <<inserted, emitted, threw>>
          /\ guard = t /\ guard' = None
          /\ \/ pc[t] = "add_erase" /\ arg[t] = children[p]
             \/ pc[t] = "osc_erase" /\ reaped[t] = p
      <4>1. /\ children' = [children EXCEPT ![p] = None]
            /\ UNCHANGED <<inserted, emitted, threw>> /\ guard' = None
        BY <2>9, Zenon DEF AddErase, OscErase
      <4>2. \/ pc[t] = "add_erase" /\ p = pid[arg[t]]
            \/ pc[t] = "osc_erase" /\ reaped[t] = p
        BY <2>9, Zenon DEF AddErase, OscErase
      <4>3. guard = t
        BY <4>2 DEF GuardOK, Locked
      <4>4. pc[t] = "add_erase" => arg[t] = children[p]
        BY <4>2 DEF ArgOK, Adding
      <4>5. QED
        BY <4>1, <4>2, <4>3, <4>4, Zenon
    <3>2. \A u \in Thread : pc'[u] # "add_erase" /\ pc'[u] # "osc_erase"
      BY <3>1 DEF GuardOK, Locked
    <3>3. \A u \in Thread : u # t => pc[u] # "add_erase" /\ pc[u] # "osc_erase"
      BY <3>1 DEF GuardOK, Locked
    <3>4. children[p] \in Child
      BY Zenon, <2>9, <3>1 DEF AddErase, OscErase, ArgOK, ReapedOK, Adding
    <3>5. ~Owed(children[p])
      BY <3>1, <3>4 DEF Owed
    <3>6. \A q \in Pid : children[q] = children[p] => q = p
      BY <3>4 DEF TableOK
    <3>7. \A d \in Child : Owed(d)' <=> Owed(d)
      <4> SUFFICES ASSUME NEW d \in Child PROVE Owed(d)' <=> Owed(d)
        OBVIOUS
      <4>1. CASE d = children[p]
        BY <3>1, <3>5, <3>6, <4>1 DEF Owed, Observed
      <4>2. CASE d # children[p]
        <5>1. Observed(d)' <=> Observed(d)
          BY <3>1, <4>2 DEF Observed
        <5>2. QED
          BY Zenon, <3>1, <3>2, <3>3, <4>2, <5>1 DEF Owed
      <4>3. QED
        BY <4>1, <4>2
    <3>8. QED
      BY <3>1, <3>7 DEF OneObituaryPerInsertion
  <2>14. ASSUME NEW t \in Thread, NEW c \in Child,
                \/ AddThrows(t) /\ c = arg[t]
                \/ OscThrows(t) /\ c = children[reaped[t]]
         PROVE  OneObituaryPerInsertion'
    <3>1. UNCHANGED <<children, inserted>> /\ threw' = threw \cup {c}
      BY <2>14, Zenon DEF AddThrows, OscThrows
    <3>2. /\ pc[t] \in {"add_emit", "osc_emit"} /\ pc'[t] \in {"idle", "threw"}
          /\ \A u \in Thread \ {t} : /\ pc'[u] = pc[u] /\ arg'[u] = arg[u]
                                     /\ reaped'[u] = reaped[u]
      <4>1. CASE AddThrows(t)
        BY <4>1 DEF AddThrows
      <4>2. CASE OscThrows(t)
        BY <4>2 DEF OscThrows
      <4>3. QED
        BY <2>14, <4>1, <4>2
    <3>3. \A d \in Child : Owed(d)' <=> Owed(d)
      BY <3>1, <3>2 DEF Owed, Observed
    <3>4. \A d \in Child : d # c => emitted'[d] = emitted[d]
      <4>1. emitted' = [emitted EXCEPT ![c] = @ + 1]
        BY <2>14, Zenon DEF AddThrows, OscThrows
      <4>2. QED
        BY <4>1
    <3>5. QED
      BY <3>1, <3>3, <3>4 DEF OneObituaryPerInsertion
  <2>10. ASSUME NEW t \in Thread, Add(t) PROVE OneObituaryPerInsertion'
    <3>1. ASSUME AddEmit(t) \/ AddErase(t) \/ AddThrows(t)
          PROVE  arg[t] \in Child /\ pid[arg[t]] \in Pid
      BY Zenon, <3>1 DEF AddEmit, AddErase, AddThrows, ArgOK, Adding
    <3>2. QED
      BY Zenon, <2>5, <2>7, <2>8, <2>9, <2>10, <2>14, <3>1 DEF Add
  <2>11. ASSUME NEW t \in Thread, OnSigChild(t) PROVE OneObituaryPerInsertion'
    <3>1. ASSUME OscEmit(t) \/ OscErase(t) \/ OscThrows(t)
          PROVE  reaped[t] \in Pid /\ children[reaped[t]] \in Child
      BY Zenon, <3>1 DEF OscEmit, OscErase, OscThrows, ReapedOK
    <3>2. QED
      BY <2>6, <2>8, <2>9, <2>11, <2>14, <3>1, Zenon DEF OnSigChild
  <2>12. ASSUME NEW c \in Child, \/ Fork(c) \/ Die(c) \/ StopOrContinue(c)
                                 \/ LeaveGroup(c) \/ WaitFor(c) \/ Drop(c)
         PROVE  OneObituaryPerInsertion'
    BY Zenon, <2>1, <2>12 DEF Fork, Die, StopOrContinue, LeaveGroup, WaitFor, Drop
  <2>15. ASSUME NEW c \in Child, NEW d \in Child, DropInChild(d, c)
         PROVE  OneObituaryPerInsertion'
    BY <2>1, <2>15, DropInChildIsLocal, Zenon
  <2>13. QED
    BY <2>1, <2>2, <2>3, <2>4, <2>10, <2>11, <2>12, <2>15, Zenon DEF Next, vars
<1>3. QED
  BY <1>1, <1>2, ShapeInvariant, PTL DEF Spec

-----------------------------------------------------------------------------
(* The processes behind the pids, for a kernel that does not hand out the   *)
(* pid of a reaped child again.                                             *)

\* A pid names one child.
PidUnique == \A c, d \in Child : pid[c] = pid[d] /\ pid[c] # None => c = d

\* A thread that goes on to report a child has seen it reaped.
Buried ==
  \A t \in Thread :
    /\ pc[t] \in {"osc_lock", "osc_emit", "osc_erase"} =>
         \E c \in Child : pid[c] = reaped[t] /\ proc[c] = "gone"
    /\ pc[t] \in {"add_emit", "add_erase"} => proc[arg[t]] = "gone"

Lives == PidUnique /\ Buried /\ NoFalseObituary

\* What every step leaves alone: a reaped child stays reaped, a pid stays.
LEMMA GoneForGood ==
  ASSUME Shape, [Next]_vars
  PROVE  \A c \in Child : /\ proc[c] = "gone" => proc'[c] = "gone"
                          /\ proc[c] # "unborn" => pid'[c] = pid[c]
<1> USE DEF Shape, TypeOK, kernel
<1>1. ASSUME NEW c \in Child, Fork(c) \/ Die(c) \/ StopOrContinue(c)
      PROVE  \A d \in Child : /\ proc[d] = "gone" => proc'[d] = "gone"
                              /\ proc[d] # "unborn" => pid'[d] = pid[d]
  BY <1>1 DEF Fork, Die, StopOrContinue
<1>6. ASSUME NEW c \in Child, NEW e \in Child, DropInChild(e, c)
      PROVE  \A d \in Child : /\ proc[d] = "gone" => proc'[d] = "gone"
                              /\ pid'[d] = pid[d]
  BY <1>6, DropInChildIsLocal
<1>2. ASSUME NEW c \in Child, LeaveGroup(c) \/ WaitFor(c) \/ Drop(c)
      PROVE  \A d \in Child : /\ proc[d] = "gone" => proc'[d] = "gone"
                              /\ pid'[d] = pid[d]
  BY <1>2 DEF LeaveGroup, WaitFor, Drop, Release
<1>3. ASSUME NEW t \in Thread, Add(t)
      PROVE  \A d \in Child : /\ proc[d] = "gone" => proc'[d] = "gone"
                              /\ pid'[d] = pid[d]
  BY Zenon, <1>3 DEF Add, AddPresent, AddInsert, AddAlive, AddDead, AddEmit,
              AddThrows, AddErase
<1>4. ASSUME NEW t \in Thread, OnSigChild(t)
      PROVE  \A d \in Child : /\ proc[d] = "gone" => proc'[d] = "gone"
                              /\ pid'[d] = pid[d]
  BY Zenon, <1>4 DEF OnSigChild, OscReap, OscNone, OscUnknown, OscFind, OscEmit,
              OscThrows, OscErase, Release
<1>5. QED
  BY Zenon, <1>1, <1>2, <1>3, <1>4, <1>6
     DEF Next, vars, TrapSigchld, CallOnSigChild, AddCall

\* The threads other than t stay where they are.
OthersStay(t) ==
  \A u \in Thread \ {t} : pc'[u] = pc[u] /\ arg'[u] = arg[u] /\ reaped'[u] = reaped[u]

\* What an assignment to the program counter, the argument or the local pid of
\* one thread leaves alone.
LEMMA OneThread ==
  ASSUME Shape, NEW t \in Thread, NEW k, pc' = [pc EXCEPT ![t] = k],
         arg' = arg \/ \E a : arg' = [arg EXCEPT ![t] = a],
         reaped' = reaped \/ \E r : reaped' = [reaped EXCEPT ![t] = r]
  PROVE  OthersStay(t) /\ pc'[t] = k
<1>1. DOMAIN pc = Thread /\ DOMAIN arg = Thread /\ DOMAIN reaped = Thread
  BY Zenon DEF Shape, TypeOK
<1>2. QED
  BY <1>1, Zenon DEF OthersStay

\* What thread t has seen of the child it goes on to report.
Told(t) ==
  /\ pc[t] \in {"osc_lock", "osc_emit", "osc_erase"} =>
       \E c \in Child : pid[c] = reaped[t] /\ proc[c] = "gone"
  /\ pc[t] \in {"add_emit", "add_erase"} => proc[arg[t]] = "gone"

\* A step of thread t keeps Buried when t knows what it has to afterwards.
LEMMA BuriedMoves ==
  ASSUME Shape, Buried, [Next]_vars, NEW t \in Thread, OthersStay(t), Told(t)'
  PROVE  Buried'
<1>1. SUFFICES ASSUME NEW u \in Thread PROVE Told(u)'
  BY Zenon DEF Buried, Told
<1>2. CASE u = t
  BY <1>2, Zenon
<1>3. CASE u # t
  <2>1. Told(u) /\ pc'[u] = pc[u] /\ arg'[u] = arg[u] /\ reaped'[u] = reaped[u]
    BY <1>3, Zenon DEF Buried, Told, OthersStay
  <2>2. \A c \in Child : proc[c] = "gone" => proc'[c] = "gone" /\ pid'[c] = pid[c]
    BY GoneForGood
  <2>3. pc[u] \in {"add_emit", "add_erase"} => arg[u] \in Child
    BY Zenon DEF Shape, ArgOK, Adding
  <2>4. QED
    BY <2>1, <2>2, <2>3, Zenon DEF Told
<1>4. QED
  BY <1>2, <1>3, Zenon

\* Buried is inductive relative to Shape.
LEMMA BuriedNext ==
  ASSUME Shape, Buried, [Next]_vars
  PROVE  Buried'
<1>1. \A c \in Child : proc[c] = "gone" => proc'[c] = "gone" /\ pid'[c] = pid[c]
  BY GoneForGood
<1>2. CASE UNCHANGED <<pc, arg, reaped>>
  <2>1. ASSUME NEW u \in Thread PROVE Told(u)'
    <3>1. pc[u] \in {"add_emit", "add_erase"} => arg[u] \in Child
      BY DEF Shape, ArgOK, Adding
    <3>2. Told(u)
      BY Zenon DEF Buried, Told
    <3>3. QED
      BY <1>1, <1>2, <3>1, <3>2, Zenon DEF Told
  <2>2. QED
    BY <2>1, Zenon DEF Buried, Told
<1>3. ASSUME NEW t \in Thread,
             NEW k \in {"idle", "threw", "add_lock", "add_check", "osc_wait"},
             pc' = [pc EXCEPT ![t] = k],
             arg' = arg \/ \E a : arg' = [arg EXCEPT ![t] = a],
             reaped' = reaped \/ \E r : reaped' = [reaped EXCEPT ![t] = r]
      PROVE  Buried'
  <2>1. OthersStay(t) /\ pc'[t] = k
    BY <1>3, OneThread, Zenon
  <2>2. Told(t)'
    BY <1>3, <2>1 DEF Told
  <2>3. QED
    BY <2>1, <2>2, BuriedMoves, Zenon
<1>4. ASSUME NEW t \in App, CallOnSigChild(t) \/ \E c \in Child : AddCall(t, c)
      PROVE  Buried'
  <2>1. t \in Thread
    BY Zenon DEF Thread
  <2>2. CASE CallOnSigChild(t)
    BY <1>3, <2>1, <2>2, Zenon DEF CallOnSigChild, Goto
  <2>3. ASSUME NEW c \in Child, AddCall(t, c) PROVE Buried'
    BY <1>3, <2>1, <2>3, Zenon DEF AddCall, Goto
  <2>4. QED
    BY <1>4, <2>2, <2>3, Zenon
<1>5. CASE TrapSigchld
  <2>1. Trap \in Thread
    BY Zenon DEF Thread
  <2>2. QED
    BY <1>3, <1>5, <2>1, Zenon DEF TrapSigchld, Goto
<1>6. ASSUME NEW t \in Thread, \/ AddPresent(t) \/ AddInsert(t) \/ AddAlive(t)
                               \/ AddErase(t) \/ AddThrows(t)
      PROVE  Buried'
  BY <1>3, <1>6, Zenon DEF AddPresent, AddInsert, AddAlive, AddErase, AddThrows, Goto
<1>7. ASSUME NEW t \in Thread, OscNone(t) \/ OscUnknown(t) \/ OscErase(t)
      PROVE  Buried'
  BY <1>3, <1>7, Zenon DEF OscNone, OscUnknown, OscErase, Goto
<1>13. ASSUME NEW t \in Thread, OscThrows(t) PROVE Buried'
  <2>1. PICK k \in {"idle", "threw"} : pc' = [pc EXCEPT ![t] = k]
    BY <1>13, Zenon DEF OscThrows, Goto
  <2>2. arg' = arg /\ reaped' = [reaped EXCEPT ![t] = None]
    BY <1>13, Zenon DEF OscThrows
  <2>3. QED
    BY <1>3, <2>1, <2>2, Zenon
<1>14. ASSUME NEW c \in Child, NEW d \in Child, DropInChild(d, c) PROVE Buried'
  BY <1>2, <1>14, DropInChildIsLocal, Zenon
<1>8. ASSUME NEW t \in Thread, AddDead(t) \/ AddEmit(t) PROVE Buried'
  <2>1. PICK k \in {"add_emit", "add_erase"} : pc' = [pc EXCEPT ![t] = k]
    BY <1>8, Zenon DEF AddDead, AddEmit, Goto
  <2>2. UNCHANGED <<pid, arg, reaped>> /\ pc[t] \in {"add_check", "add_emit"}
    BY <1>8, Zenon DEF AddDead, AddEmit, Goto, kernel
  <2>3. OthersStay(t) /\ pc'[t] = k
    BY <2>1, <2>2, OneThread, Zenon
  <2>4. arg[t] \in Child /\ pid[arg[t]] \in Pid
    BY <2>2 DEF Shape, ArgOK, Adding
  <2>5. proc'[arg[t]] = "gone"
    <3>1. CASE AddDead(t)
      <4>1. proc[arg[t]] \in {"alive"} \cup Dead
        BY <2>4, ConstantsOK DEF Shape, TypeOK, PidOK, ConstantsOK
      <4>2. arg[t] \in Owners(pid[arg[t]]) \/ proc[arg[t]] = "gone"
        BY <2>4, <4>1 DEF Owners, Dead
      <4>3. QED
        BY <2>4, <3>1, <4>2, Zenon DEF AddDead
    <3>2. CASE AddEmit(t)
      <4>1. proc[arg[t]] = "gone"
        BY <3>2 DEF AddEmit, Goto, Buried
      <4>2. QED
        BY <1>1, <2>4, <4>1, Zenon
    <3>3. QED
      BY <1>8, <3>1, <3>2, Zenon
  <2>6. Told(t)'
    BY <2>1, <2>2, <2>3, <2>5 DEF Told
  <2>7. QED
    BY <2>3, <2>6, BuriedMoves, Zenon
<1>9. ASSUME NEW t \in Thread, OscReap(t) PROVE Buried'
  <2>1. PICK c \in group : /\ pc' = [pc EXCEPT ![t] = "osc_lock"]
                           /\ proc' = [proc EXCEPT ![c] = "gone"]
                           /\ reaped' = [reaped EXCEPT ![t] = pid[c]]
                           /\ UNCHANGED <<pid, arg>>
    BY <1>9, Zenon DEF OscReap, Goto
  <2>2. OthersStay(t) /\ pc'[t] = "osc_lock"
    BY <2>1, OneThread, Zenon
  <2>3. c \in Child /\ proc'[c] = "gone" /\ pid'[c] = reaped'[t]
    BY <2>1 DEF Shape, TypeOK
  <2>4. Told(t)'
    BY Zenon, <2>2, <2>3 DEF Told
  <2>5. QED
    BY <2>2, <2>4, BuriedMoves, Zenon
<1>10. ASSUME NEW t \in Thread, OscFind(t) \/ OscEmit(t) PROVE Buried'
  <2>1. PICK k \in {"osc_emit", "osc_erase"} : pc' = [pc EXCEPT ![t] = k]
    BY <1>10, Zenon DEF OscFind, OscEmit, Goto
  <2>2. UNCHANGED <<proc, pid, arg, reaped>> /\ pc[t] \in {"osc_lock", "osc_emit"}
    BY <1>10, Zenon DEF OscFind, OscEmit, Goto, kernel
  <2>3. OthersStay(t) /\ pc'[t] = k
    BY <2>1, <2>2, OneThread, Zenon
  <2>4. \E c \in Child : pid[c] = reaped[t] /\ proc[c] = "gone"
    BY <2>2 DEF Buried
  <2>5. Told(t)'
    BY <2>1, <2>2, <2>3, <2>4 DEF Told
  <2>6. QED
    BY <2>3, <2>5, BuriedMoves, Zenon
<1>11. ASSUME NEW t \in Thread, Add(t) \/ OnSigChild(t) PROVE Buried'
  BY <1>6, <1>7, <1>8, <1>9, <1>10, <1>11, <1>13, Zenon DEF Add, OnSigChild
<1>12. QED
  BY <1>2, <1>4, <1>5, <1>11, <1>14, Zenon DEF Next, vars, Fork, Die, StopOrContinue,
     LeaveGroup, WaitFor, Drop

\* Lives is inductive relative to Shape.
LEMMA LivesInvariant == ASSUME ~PidReuse PROVE Spec => []Lives
<1> USE ConstantsOK DEF ConstantsOK, Thread
<1>1. Init => Lives
  BY DEF Init, Lives, PidUnique, Buried, NoFalseObituary
<1>2. ASSUME Shape, Lives, [Next]_vars PROVE Lives'
  <2> USE <1>2 DEF Shape, TypeOK, Lives, Goto
  <2>1. \A c \in Child : /\ proc[c] = "gone" => proc'[c] = "gone"
                         /\ proc[c] # "unborn" => pid'[c] = pid[c]
    BY Zenon, GoneForGood
  <2>7. ASSUME NEW c \in Child, NEW d \in Child, DropInChild(d, c)
        PROVE  UNCHANGED <<pid, emitted>>
    BY <2>7, DropInChildIsLocal, Zenon
  <2>2. PidUnique'
    <3>1. ASSUME NEW c \in Child, Fork(c) PROVE PidUnique'
      BY <3>1 DEF Fork, Free, PidUnique
    <3>2. CASE UNCHANGED pid
      BY <3>2 DEF PidUnique
    <3>3. QED
      BY Zenon, <2>7, <3>1, <3>2 DEF Next, vars, kernel, Die, StopOrContinue, LeaveGroup,
         WaitFor, Drop, CallOnSigChild, AddCall, TrapSigchld, Add, AddPresent,
         AddInsert, AddAlive, AddDead, AddEmit, AddThrows, AddErase, OnSigChild,
         OscReap, OscNone, OscUnknown, OscFind, OscEmit, OscThrows, OscErase
  <2>3. NoFalseObituary'
    <3>1. ASSUME NEW t \in Thread, AddEmit(t) \/ AddThrows(t)
          PROVE  NoFalseObituary'
      <4>1. emitted' = [emitted EXCEPT ![arg[t]] = @ + 1] /\ pc[t] = "add_emit"
        BY <3>1, Zenon DEF AddEmit, AddThrows
      <4>2. arg[t] \in Child /\ proc[arg[t]] = "gone"
        BY <4>1 DEF Buried, ArgOK, Adding
      <4>3. QED
        BY <2>1, <4>1, <4>2 DEF NoFalseObituary
    <3>2. ASSUME NEW t \in Thread, OscEmit(t) \/ OscThrows(t)
          PROVE  NoFalseObituary'
      <4>4. pc[t] = "osc_emit"
        BY <3>2, Zenon DEF OscEmit, OscThrows
      <4>5. reaped[t] \in Pid /\ children[reaped[t]] \in Child
        BY <4>4 DEF ReapedOK
      <4>1. children[reaped[t]] \in Child /\ pid[children[reaped[t]]] = reaped[t]
        BY <4>5 DEF TableOK
      <4>2. proc[children[reaped[t]]] = "gone"
        <5>1. PICK d \in Child : pid[d] = reaped[t] /\ proc[d] = "gone"
          BY <3>2, Zenon DEF OscEmit, OscThrows, Buried
        <5>2. reaped[t] \in Pid
          BY <3>2 DEF OscEmit, OscThrows, ReapedOK
        <5>3. QED
          BY <4>1, <5>1, <5>2 DEF PidUnique
      <4>3. QED
        BY <2>1, <3>2, <4>1, <4>2 DEF OscEmit, OscThrows, NoFalseObituary
    <3>3. CASE UNCHANGED emitted
      BY Zenon, <2>1, <3>3 DEF NoFalseObituary
    <3>4. QED
      BY Zenon, <2>7, <3>1, <3>2, <3>3 DEF Next, vars, history, Fork, Die, StopOrContinue,
         LeaveGroup, WaitFor, Drop, CallOnSigChild, AddCall, TrapSigchld, Add,
         AddPresent, AddInsert, AddAlive, AddDead, AddErase, OnSigChild,
         OscReap, OscNone, OscUnknown, OscFind, OscErase
  <2>5. Buried'
    BY BuriedNext, Zenon
  <2>6. QED
    BY <2>2, <2>3, <2>5
<1>3. QED
  BY <1>1, <1>2, ShapeInvariant, PTL DEF Spec

\* Without pid reuse child_died is emitted for reaped children only: the pid
\* that add() or on_sig_child() looks up is the pid of the child it finds.
THEOREM ObituariesAreTrue == ASSUME ~PidReuse PROVE Spec => []NoFalseObituary
BY LivesInvariant, PTL DEF Lives

-----------------------------------------------------------------------------
(* What the destructor can hit, whatever the kernel does with pids.         *)

\* Two children have had the same pid only if the kernel reuses pids, and then
\* one of them has been reaped.
PidOwned ==
  \A c, d \in Child : c # d /\ pid[c] = pid[d] /\ pid[c] # None =>
                       PidReuse /\ (proc[c] = "gone" \/ proc[d] = "gone")

\* ~Private of c has killed another child only after c itself had been reaped
\* and its pid had been handed out again.
StrayKillNeedsReuse ==
  \A c, d \in Child : <<c, d>> \in slain /\ c # d =>
                       PidReuse /\ proc[c] = "gone" /\ pid[c] = pid[d]

Strays == PidOwned /\ StrayKillNeedsReuse

\* Release adds no other stray kill.
LEMMA ReleaseStrays ==
  ASSUME Shape, Strays, NEW c \in Child, pid[c] \in Pid, NEW h, NEW tab,
         NEW o \in BOOLEAN, Release(o, c, h, tab), UNCHANGED pid,
         \A d \in Child : proc[d] = "gone" => proc'[d] = "gone"
  PROVE  StrayKillNeedsReuse'
<1>1. PICK victims \in SUBSET Child :
        /\ slain' = slain \cup ({c} \X victims)
        /\ \A d \in victims : pid[d] = pid[c] /\ proc[d] = "alive"
  <2> DEFINE V == IF ~o \/ Referenced(c, h, tab) THEN {}
                  ELSE {d \in Owners(pid[c]) : proc[d] = "alive"}
  <2>1. slain' = slain \cup ({c} \X V)
    BY Zenon DEF Release
  <2>2. V \in SUBSET Child /\ \A d \in V : pid[d] = pid[c] /\ proc[d] = "alive"
    BY DEF Owners
  <2>3. QED
    BY <2>1, <2>2
<1>2. SUFFICES ASSUME NEW x \in Child, NEW y \in Child, <<x, y>> \in slain', x # y
               PROVE  PidReuse /\ proc'[x] = "gone" /\ pid'[x] = pid'[y]
  BY Zenon DEF StrayKillNeedsReuse
<1>3. CASE <<x, y>> \in slain
  BY <1>2, <1>3, Zenon DEF Strays, StrayKillNeedsReuse
<1>4. CASE <<x, y>> \notin slain
  <2>1. x = c /\ y \in victims
    BY <1>1, <1>2, <1>4
  <2>2. pid[c] # None
    BY ConstantsOK DEF ConstantsOK
  <2>3. PidReuse /\ (proc[x] = "gone" \/ proc[y] = "gone")
    BY <1>1, <1>2, <2>1, <2>2, Zenon DEF Strays, PidOwned
  <2>4. proc[y] = "alive" /\ pid[y] = pid[x]
    BY <1>1, <2>1, Zenon
  <2>5. QED
    BY <2>3, <2>4
<1>5. QED
  BY <1>3, <1>4, Zenon

\* A pid that ~Private kills belongs to its own child, or to a child that got
\* the pid after the own child had been reaped; nothing else that the observer,
\* the application's handles or a child's inherited handles do can make it hit
\* a foreign process.  No assumption on the constants is needed.
THEOREM StraysNeedReuse == Spec => []StrayKillNeedsReuse
<1>1. Init => Strays
  BY DEF Init, Strays, PidOwned, StrayKillNeedsReuse
<1>2. ASSUME Shape, Strays, [Next]_vars PROVE Strays'
  <2>1. \A c \in Child : /\ proc[c] = "gone" => proc'[c] = "gone"
                         /\ proc[c] # "unborn" => pid'[c] = pid[c]
    BY <1>2, GoneForGood, Zenon
  <2>2. ASSUME NEW c \in Child, NEW d \in Child, DropInChild(d, c)
        PROVE  UNCHANGED <<pid, slain>>
    BY <1>2, <2>2, DropInChildIsLocal, Zenon
  <2>3. PidOwned'
    <3>1. ASSUME NEW c \in Child, Fork(c) PROVE PidOwned'
      <4>1. PICK p \in Pid : Free(p) /\ pid' = [pid EXCEPT ![c] = p]
        BY <3>1, Zenon DEF Fork
      <4>2. proc' = [proc EXCEPT ![c] = "alive"] /\ proc[c] = "unborn"
        BY <3>1, Zenon DEF Fork
      <4>3. pid'[c] = p /\ \A d \in Child : d # c => pid'[d] = pid[d] /\ proc'[d] = proc[d]
        BY <1>2, <4>1, <4>2 DEF Shape, TypeOK
      <4>4. \A d \in Child : d # c /\ pid[d] = p => PidReuse /\ proc[d] = "gone"
        BY <4>1, Zenon DEF Free
      <4>5. SUFFICES ASSUME NEW x \in Child, NEW y \in Child, x # y,
                            pid'[x] = pid'[y], pid'[x] # None
                     PROVE  PidReuse /\ (proc'[x] = "gone" \/ proc'[y] = "gone")
        BY Zenon DEF PidOwned
      <4>6. CASE x = c
        BY <4>3, <4>4, <4>5, <4>6
      <4>7. CASE y = c
        BY <4>3, <4>4, <4>5, <4>7
      <4>8. CASE x # c /\ y # c
        BY <1>2, <4>3, <4>5, <4>8, Zenon DEF Strays, PidOwned
      <4>9. QED
        BY <4>6, <4>7, <4>8, Zenon
    <3>2. CASE UNCHANGED pid
      BY <1>2, <2>1, <3>2, Zenon DEF Strays, PidOwned
    <3>3. QED
      BY Zenon, <1>2, <2>2, <3>1, <3>2 DEF Next, vars, kernel, Die, StopOrContinue,
         LeaveGroup, WaitFor, Drop, CallOnSigChild, AddCall, TrapSigchld, Add,
         AddPresent, AddInsert, AddAlive, AddDead, AddEmit, AddThrows, AddErase,
         OnSigChild, OscReap, OscNone, OscUnknown, OscFind, OscEmit, OscThrows,
         OscErase
  <2>4. StrayKillNeedsReuse'
    <3>1. ASSUME NEW c \in Child, Drop(c) PROVE StrayKillNeedsReuse'
      <4>1. c \in held /\ Release(TRUE, c, held', children) /\ UNCHANGED pid
        BY <3>1, Zenon DEF Drop
      <4>2. pid[c] \in Pid
        BY <1>2, <4>1, Zenon DEF Shape, PidOK
      <4>3. QED
        BY <1>2, <2>1, <4>1, <4>2, ReleaseStrays, Zenon
    <3>2. ASSUME NEW t \in Thread, OscErase(t) PROVE StrayKillNeedsReuse'
      <4>1. /\ pc[t] = "osc_erase" /\ UNCHANGED pid
            /\ Release(TRUE, children[reaped[t]], held, children')
        BY <3>2, Zenon DEF OscErase, Goto
      <4>2. children[reaped[t]] \in Child /\ reaped[t] \in Pid
        BY <1>2, <4>1, Zenon DEF Shape, ReapedOK
      <4>3. pid[children[reaped[t]]] \in Pid
        BY <1>2, <4>2, ConstantsOK DEF Shape, TableOK, ConstantsOK
      <4>4. QED
        BY <1>2, <2>1, <4>1, <4>2, <4>3, ReleaseStrays, Zenon
    <3>3. CASE UNCHANGED slain
      <4>1. SUFFICES ASSUME NEW x \in Child, NEW y \in Child, <<x, y>> \in slain, x # y
                     PROVE  PidReuse /\ proc'[x] = "gone" /\ pid'[x] = pid'[y]
        BY <3>3, Zenon DEF StrayKillNeedsReuse
      <4>2. PidReuse /\ proc[x] = "gone" /\ pid[x] = pid[y]
        BY <1>2, <4>1, Zenon DEF Strays, StrayKillNeedsReuse
      <4>3. proc[y] # "unborn" /\ proc[x] # "unborn"
        BY <1>2, <4>2, ConstantsOK DEF ConstantsOK, Shape, PidOK
      <4>4. QED
        BY <2>1, <4>2, <4>3, Zenon
    <3>4. QED
      BY Zenon, <1>2, <2>2, <3>1, <3>2, <3>3 DEF Next, vars, history, Fork, Die,
         StopOrContinue, LeaveGroup, WaitFor, CallOnSigChild, AddCall, TrapSigchld,
         Add, AddPresent, AddInsert, AddAlive, AddDead, AddEmit, AddThrows, AddErase,
         OnSigChild, OscReap, OscNone, OscUnknown, OscFind, OscEmit, OscThrows
  <2>5. QED
    BY <2>3, <2>4, Zenon DEF Strays
<1>3. QED
  BY <1>1, <1>2, ShapeInvariant, PTL DEF Spec, Strays

-----------------------------------------------------------------------------
\* Thread t still has to report the reaped child c.
Hands(t, c) ==
  \/ pc[t] \in {"add_check", "add_emit", "add_erase"} /\ arg[t] = c
  \/ pc[t] \in {"osc_lock", "osc_emit", "osc_erase"} /\ reaped[t] = pid[c]

\* A step of the kernel or of the application leaves no entry unattended when
\* the only observed child it may reap is one that wait_for() collects.
LEMMA ProcessMoves ==
  ASSUME NoOrphanedEntry, UNCHANGED <<children, pc, arg, reaped, threw>>,
         waited \subseteq waited',
         \A c \in Child : Observed(c) /\ proc'[c] = "gone" =>
           (proc[c] = "gone" /\ pid'[c] = pid[c]) \/ c \in waited'
  PROVE  NoOrphanedEntry'
<1>1. SUFFICES ASSUME NEW c \in Child, Observed(c)', proc'[c] = "gone",
                      c \notin waited', c \notin threw'
               PROVE  InHands(c)'
  BY Zenon DEF NoOrphanedEntry
<1>2. Observed(c)
  BY <1>1, Zenon DEF Observed
<1>3. proc[c] = "gone" /\ pid'[c] = pid[c] /\ c \notin waited /\ c \notin threw
  BY <1>1, <1>2, Zenon
<1>4. InHands(c)
  BY <1>2, <1>3, Zenon DEF NoOrphanedEntry
<1>5. QED
  BY <1>3, <1>4, Zenon DEF InHands

\* A step of thread t leaves no entry unattended when t holds the ones it
\* disturbs and lets go of none, unless a slot throws.
LEMMA ThreadMoves ==
  ASSUME NoOrphanedEntry, NEW t \in Thread, OthersStay(t), UNCHANGED <<pid, waited>>,
         threw \subseteq threw',
         \A c \in Child : Observed(c)' /\ proc'[c] = "gone" =>
            \/ Hands(t, c)' \/ c \in threw'
            \/ (Observed(c) /\ proc[c] = "gone" /\ ~Hands(t, c))
  PROVE  NoOrphanedEntry'
<1>1. SUFFICES ASSUME NEW c \in Child, Observed(c)', proc'[c] = "gone",
                      ~Hands(t, c)', c \notin waited', c \notin threw'
               PROVE  InHands(c)'
  BY Zenon DEF NoOrphanedEntry, InHands, Hands
<1>2. Observed(c) /\ proc[c] = "gone" /\ ~Hands(t, c) /\ c \notin waited \cup threw
  BY <1>1, Zenon
<1>3. PICK u \in Thread : Hands(u, c)
  BY <1>2, Zenon DEF NoOrphanedEntry, InHands, Hands
<1>4. u \in Thread \ {t}
  BY <1>2, <1>3, Zenon
<1>5. Hands(u, c)'
  BY <1>3, <1>4, Zenon DEF OthersStay, Hands
<1>6. QED
  BY <1>5, Zenon DEF InHands, Hands

\* A step of a thread that has nothing to report and touches neither the table
\* nor the processes.
LEMMA IdleMoves ==
  ASSUME Shape, NoOrphanedEntry, NEW t \in Thread, NEW k,
         pc[t] \in {"idle", "add_lock", "osc_wait"}, pc' = [pc EXCEPT ![t] = k],
         arg' = arg \/ \E a : arg' = [arg EXCEPT ![t] = a],
         UNCHANGED <<proc, pid, children, reaped, waited, threw>>
  PROVE  NoOrphanedEntry'
<1>1. OthersStay(t)
  BY OneThread, Zenon
<1>2. \A c \in Child : ~Hands(t, c)
  BY DEF Hands
<1>3. \A c \in Child : Observed(c)' => Observed(c)
  BY Zenon DEF Observed
<1>4. QED
  BY <1>1, <1>2, <1>3, ThreadMoves, Zenon

\* Without pid reuse a reaped child that is still in the table is in the hands
\* of a thread that will report it, unless wait_for() took it or a slot threw.
THEOREM NoEntryOrphaned == ASSUME ~PidReuse PROVE Spec => []NoOrphanedEntry
<1>1. Init => NoOrphanedEntry
  BY ConstantsOK DEF ConstantsOK, Init, NoOrphanedEntry, Observed
<1>2. ASSUME Shape, Lives, NoOrphanedEntry, [Next]_vars PROVE NoOrphanedEntry'
  <2>0. /\ proc \in [Child -> {"unborn", "alive"} \cup Dead]
        /\ pid \in [Child -> Pid \cup {None}]
        /\ children \in [Pid -> Child \cup {None}]
        /\ reaped \in [Thread -> Pid \cup {None}]
    BY <1>2, Zenon DEF Shape, TypeOK
  <2>1. ASSUME NEW c \in Child, Fork(c) PROVE NoOrphanedEntry'
    <3>1. PICK p \in Pid : /\ pid' = [pid EXCEPT ![c] = p]
                           /\ proc' = [proc EXCEPT ![c] = "alive"]
                           /\ UNCHANGED <<children, pc, arg, reaped, waited, threw>>
      BY <2>1, Zenon DEF Fork, history
    <3>2. \A d \in Child : proc'[d] = "gone" => proc[d] = "gone" /\ pid'[d] = pid[d]
      BY <2>0, <3>1
    <3>3. QED
      BY <1>2, <3>1, <3>2, ProcessMoves, Zenon
  <2>18. ASSUME NEW c \in Child, WaitFor(c) PROVE NoOrphanedEntry'
    <3>1. PICK d \in Child : /\ proc' = [proc EXCEPT ![d] = "gone"]
                             /\ waited' = waited \cup {d}
                             /\ UNCHANGED <<pid, children, pc, arg, reaped, threw>>
      BY <2>18, Zenon DEF WaitFor, Owners
    <3>2. \A e \in Child : proc'[e] = "gone" => proc[e] = "gone" \/ e \in waited'
      BY <2>0, <3>1
    <3>3. waited \subseteq waited'
      BY <3>1, Zenon
    <3>4. QED
      BY <1>2, <3>1, <3>2, <3>3, ProcessMoves, Zenon
  <2>19. ASSUME NEW c \in Child, NEW d \in Child, DropInChild(d, c)
         PROVE  NoOrphanedEntry'
    <3>1. UNCHANGED <<proc, pid, children, pc, arg, reaped, waited, threw>>
      BY <1>2, <2>19, DropInChildIsLocal, Zenon
    <3>2. QED
      BY <1>2, <3>1, ProcessMoves, Zenon
  <2>2. ASSUME NEW c \in Child, \/ Die(c) \/ StopOrContinue(c) \/ LeaveGroup(c)
        PROVE  NoOrphanedEntry'
    <3>1. UNCHANGED <<pid, children, pc, arg, reaped, waited, threw>>
      BY <2>2, Zenon DEF Die, StopOrContinue, LeaveGroup, history
    <3>2. \A d \in Child : proc'[d] = "gone" => proc[d] = "gone"
      BY <2>0, <2>2 DEF Die, StopOrContinue, LeaveGroup
    <3>3. QED
      BY <1>2, <3>1, <3>2, ProcessMoves, Zenon
  <2>3. ASSUME NEW c \in Child, Drop(c) PROVE NoOrphanedEntry'
    <3>1. UNCHANGED <<pid, children, pc, arg, reaped, waited, threw>>
      BY <2>3, Zenon DEF Drop
    <3>2. \A d \in Child : proc'[d] = "gone" => proc[d] = "gone"
      BY <2>3, Zenon DEF Drop, Release
    <3>3. QED
      BY <1>2, <3>1, <3>2, ProcessMoves, Zenon
  <2>4. ASSUME NEW t \in App, CallOnSigChild(t) \/ \E c \in Child : AddCall(t, c)
        PROVE  NoOrphanedEntry'
    <3>1. t \in Thread
      BY Zenon DEF Thread
    <3>2. CASE CallOnSigChild(t)
      BY <1>2, <3>1, <3>2, IdleMoves, Zenon
         DEF CallOnSigChild, Goto, kernel, history
    <3>3. ASSUME NEW c \in Child, AddCall(t, c) PROVE NoOrphanedEntry'
      BY <1>2, <3>1, <3>3, IdleMoves, Zenon DEF AddCall, Goto, kernel, history
    <3>4. QED
      BY <2>4, <3>2, <3>3, Zenon
  <2>5. CASE TrapSigchld
    <3>1. Trap \in Thread
      BY Zenon DEF Thread
    <3>2. QED
      BY <1>2, <2>5, <3>1, IdleMoves, Zenon DEF TrapSigchld, Goto, history
  <2>6. ASSUME NEW t \in Thread, AddPresent(t) \/ OscNone(t)
        PROVE  NoOrphanedEntry'
    BY <1>2, <2>6, IdleMoves, Zenon DEF AddPresent, OscNone, Goto, kernel,
                                          history
  <2>7. ASSUME NEW t \in Thread, AddInsert(t) PROVE NoOrphanedEntry'
    <3>1. /\ pc[t] = "add_lock" /\ pc' = [pc EXCEPT ![t] = "add_check"]
          /\ children' = [children EXCEPT ![pid[arg[t]]] = arg[t]]
          /\ UNCHANGED <<proc, pid, arg, reaped, waited, threw>>
      BY <2>7, Zenon DEF AddInsert, Goto, kernel, history
    <3>2. OthersStay(t) /\ pc'[t] = "add_check"
      BY <1>2, <3>1, OneThread, Zenon
    <3>3. Hands(t, arg[t])' /\ \A c \in Child : ~Hands(t, c)
      BY Zenon, <3>1, <3>2 DEF Hands
    <3>4. \A c \in Child : Observed(c)' => c = arg[t] \/ Observed(c)
      BY <2>0, <3>1 DEF Observed
    <3>5. \A c \in Child : Observed(c)' => Hands(t, c)' \/ Observed(c)
      BY Zenon, <3>1, <3>3, <3>4 DEF Hands
    <3>6. QED
      BY <1>2, <3>1, <3>2, <3>3, <3>5, ThreadMoves, Zenon
  <2>8. ASSUME NEW t \in Thread, AddAlive(t) PROVE NoOrphanedEntry'
    <3>1. /\ pc[t] = "add_check" /\ pc' = [pc EXCEPT ![t] = "idle"]
          /\ arg' = [arg EXCEPT ![t] = None]
          /\ UNCHANGED <<proc, pid, children, reaped, waited, threw>>
      BY <2>8, Zenon DEF AddAlive, Goto, kernel, history
    <3>2. OthersStay(t)
      BY <1>2, <3>1, OneThread, Zenon
    <3>3. arg[t] \in Child /\ pid[arg[t]] \in Pid
      BY Zenon, <1>2, <3>1 DEF Shape, ArgOK, Adding
    <3>4. proc[arg[t]] # "gone"
      <4>1. PICK d \in Child : pid[d] = pid[arg[t]] /\ proc[d] # "gone"
        BY Zenon, <2>8 DEF AddAlive, Owners
      <4>2. d = arg[t]
        BY Zenon, <1>2, <3>3, <4>1, ConstantsOK DEF ConstantsOK, Lives, PidUnique
      <4>3. QED
        BY <4>1, <4>2, Zenon
    <3>5. \A c \in Child : proc[c] = "gone" => ~Hands(t, c)
      BY <3>1, <3>4 DEF Hands
    <3>6. \A c \in Child : Observed(c)' => Observed(c)
      BY <3>1, Zenon DEF Observed
    <3>7. QED
      BY <1>2, <3>1, <3>2, <3>5, <3>6, ThreadMoves, Zenon
  <2>9. ASSUME NEW t \in Thread, AddDead(t) \/ AddEmit(t) PROVE NoOrphanedEntry'
    <3>1. PICK k \in {"add_emit", "add_erase"} :
            /\ pc[t] \in {"add_check", "add_emit"} /\ pc' = [pc EXCEPT ![t] = k]
            /\ UNCHANGED <<pid, children, arg, reaped, waited, threw>>
      BY <2>9, Zenon DEF AddDead, AddEmit, Goto, kernel, history
    <3>2. OthersStay(t) /\ pc'[t] = k
      BY <1>2, <3>1, OneThread, Zenon
    <3>3. arg[t] \in Child /\ pid[arg[t]] \in Pid
      BY <1>2, <3>1 DEF Shape, ArgOK, Adding
    <3>4. \A d \in Child : d # arg[t] => proc'[d] = proc[d]
      <4>1. \A d \in Child : pid[d] = pid[arg[t]] => d = arg[t]
        BY <1>2, <3>3, ConstantsOK DEF ConstantsOK, Lives, PidUnique
      <4>2. \A d \in Child : d # arg[t] => d \notin Owners(pid[arg[t]])
        BY <4>1, Zenon DEF Owners
      <4>3. QED
        BY <2>9, <4>2, Zenon DEF AddDead, AddEmit, kernel
    <3>5. \A c \in Child : Hands(t, c)' \/ (c # arg[t] /\ ~Hands(t, c))
      BY <3>1, <3>2 DEF Hands
    <3>6. \A c \in Child : Observed(c)' => Observed(c)
      BY <3>1, Zenon DEF Observed
    <3>7. QED
      BY <1>2, <3>1, <3>2, <3>4, <3>5, <3>6, ThreadMoves, Zenon
  <2>10. ASSUME NEW t \in Thread, AddErase(t) PROVE NoOrphanedEntry'
    <3>1. /\ pc[t] = "add_erase" /\ pc' = [pc EXCEPT ![t] = "idle"]
          /\ children' = [children EXCEPT ![pid[arg[t]]] = None]
          /\ arg' = [arg EXCEPT ![t] = None]
          /\ UNCHANGED <<proc, pid, reaped, waited, threw>>
      BY <2>10, Zenon DEF AddErase, Goto, kernel, history
    <3>2. OthersStay(t)
      BY <1>2, <3>1, OneThread, Zenon
    <3>3. arg[t] \in Child /\ pid[arg[t]] \in Pid
      BY <1>2, <3>1 DEF Shape, ArgOK, Adding
    <3>4. \A p \in Pid : children[p] = arg[t] => p = pid[arg[t]]
      BY <1>2, <3>3, ConstantsOK DEF Shape, TableOK, ConstantsOK
    <3>5. \A c \in Child : Observed(c)' => c # arg[t] /\ Observed(c)
      BY <2>0, <3>1, <3>3, <3>4, ConstantsOK DEF Observed, ConstantsOK
    <3>6. \A c \in Child : c # arg[t] => ~Hands(t, c)
      BY <3>1 DEF Hands
    <3>7. QED
      BY <1>2, <3>1, <3>2, <3>5, <3>6, ThreadMoves, Zenon
  <2>11. ASSUME NEW t \in Thread, OscReap(t) PROVE NoOrphanedEntry'
    <3>1. PICK d \in group : /\ pc[t] = "osc_wait" /\ pc' = [pc EXCEPT ![t] = "osc_lock"]
                             /\ proc' = [proc EXCEPT ![d] = "gone"]
                             /\ reaped' = [reaped EXCEPT ![t] = pid[d]]
                             /\ UNCHANGED <<pid, children, arg, waited, threw>>
      BY <2>11, Zenon DEF OscReap, Goto, history
    <3>2. OthersStay(t) /\ pc'[t] = "osc_lock"
      BY <1>2, <3>1, OneThread, Zenon
    <3>3. reaped'[t] = pid[d] /\ \A c \in Child : c # d => proc'[c] = proc[c]
      BY <2>0, <3>1
    <3>4. Hands(t, d)' /\ \A c \in Child : ~Hands(t, c)
      BY <3>1, <3>2, <3>3 DEF Hands
    <3>5. \A c \in Child : Observed(c)' => Observed(c)
      BY <3>1, Zenon DEF Observed
    <3>6. \A c \in Child : proc'[c] = "gone" => Hands(t, c)' \/ proc[c] = "gone"
      BY <3>3, <3>4, Zenon DEF Hands
    <3>7. QED
      BY <1>2, <3>1, <3>2, <3>4, <3>5, <3>6, ThreadMoves, Zenon
  <2>12. ASSUME NEW t \in Thread, OscFind(t) \/ OscEmit(t) PROVE NoOrphanedEntry'
    <3>1. PICK k \in {"osc_emit", "osc_erase"} :
            /\ pc[t] \in {"osc_lock", "osc_emit"} /\ pc' = [pc EXCEPT ![t] = k]
            /\ UNCHANGED <<proc, pid, children, arg, reaped, waited, threw>>
      BY <2>12, Zenon DEF OscFind, OscEmit, Goto, kernel, history
    <3>2. OthersStay(t) /\ pc'[t] = k
      BY <1>2, <3>1, OneThread, Zenon
    <3>3. \A c \in Child : Hands(t, c)' \/ ~Hands(t, c)
      BY <3>1, <3>2 DEF Hands
    <3>4. \A c \in Child : Observed(c)' => Observed(c)
      BY <3>1, Zenon DEF Observed
    <3>5. QED
      BY <1>2, <3>1, <3>2, <3>3, <3>4, ThreadMoves, Zenon
  <2>13. ASSUME NEW t \in Thread, OscUnknown(t) PROVE NoOrphanedEntry'
    <3>1. /\ pc[t] = "osc_lock" /\ pc' = [pc EXCEPT ![t] = "osc_wait"]
          /\ children[reaped[t]] = None /\ reaped' = [reaped EXCEPT ![t] = None]
          /\ UNCHANGED <<proc, pid, children, arg, waited, threw>>
      BY <2>13, Zenon DEF OscUnknown, Goto, kernel, history
    <3>2. OthersStay(t)
      BY <1>2, <3>1, OneThread, Zenon
    <3>3. \A c \in Child : Observed(c) => pid[c] # reaped[t]
      BY <1>2, <3>1, ConstantsOK DEF Observed, Shape, TableOK, ConstantsOK
    <3>4. \A c \in Child : pid[c] # reaped[t] => ~Hands(t, c)
      BY <3>1 DEF Hands
    <3>5. \A c \in Child : Observed(c)' => Observed(c)
      BY <3>1, Zenon DEF Observed
    <3>6. QED
      BY <1>2, <3>1, <3>2, <3>3, <3>4, <3>5, ThreadMoves, Zenon
  <2>14. ASSUME NEW t \in Thread, OscErase(t) PROVE NoOrphanedEntry'
    <3>1. /\ pc[t] = "osc_erase" /\ pc' = [pc EXCEPT ![t] = "osc_wait"]
          /\ children' = [children EXCEPT ![reaped[t]] = None]
          /\ reaped' = [reaped EXCEPT ![t] = None] /\ UNCHANGED <<pid, arg, waited, threw>>
      BY <2>14, Zenon DEF OscErase, Goto
    <3>2. OthersStay(t)
      BY <1>2, <3>1, OneThread, Zenon
    <3>3. reaped[t] \in Pid
      BY <1>2, <3>1 DEF Shape, ReapedOK
    <3>4. \A c \in Child : Observed(c)' => \E p \in Pid \ {reaped[t]} : children[p] = c
      BY <2>0, <3>1, <3>3, ConstantsOK DEF Observed, ConstantsOK
    <3>5. \A c \in Child : Observed(c)' => Observed(c) /\ pid[c] # reaped[t]
      BY <1>2, <3>4, ConstantsOK DEF Observed, Shape, TableOK, ConstantsOK
    <3>6. \A c \in Child : pid[c] # reaped[t] => ~Hands(t, c)
      BY <3>1 DEF Hands
    <3>7. \A c \in Child : proc'[c] = "gone" => proc[c] = "gone"
      BY <2>14, Zenon DEF OscErase, Release
    <3>8. QED
      BY <1>2, <3>1, <3>2, <3>5, <3>6, <3>7, ThreadMoves, Zenon
  <2>20. ASSUME NEW t \in Thread, AddThrows(t) PROVE NoOrphanedEntry'
    <3>1. /\ pc[t] = "add_emit" /\ pc' = [pc EXCEPT ![t] = "idle"]
          /\ arg' = [arg EXCEPT ![t] = None] /\ threw' = threw \cup {arg[t]}
          /\ UNCHANGED <<proc, pid, children, reaped, waited>>
      BY <2>20, Zenon DEF AddThrows, Goto, kernel
    <3>2. OthersStay(t)
      BY <1>2, <3>1, OneThread, Zenon
    <3>3. \A c \in Child : c \in threw' \/ ~Hands(t, c)
      BY <3>1 DEF Hands
    <3>4. \A c \in Child : Observed(c)' => Observed(c)
      BY <3>1, Zenon DEF Observed
    <3>5. threw \subseteq threw'
      BY <3>1, Zenon
    <3>6. QED
      BY <1>2, <3>1, <3>2, <3>3, <3>4, <3>5, ThreadMoves, Zenon
  <2>21. ASSUME NEW t \in Thread, OscThrows(t) PROVE NoOrphanedEntry'
    <3>1. PICK k \in {"idle", "threw"} :
            /\ pc[t] = "osc_emit" /\ pc' = [pc EXCEPT ![t] = k]
            /\ reaped' = [reaped EXCEPT ![t] = None]
            /\ threw' = threw \cup {children[reaped[t]]}
            /\ UNCHANGED <<proc, pid, children, arg, waited>>
      BY <2>21, Zenon DEF OscThrows, Goto, kernel
    <3>2. OthersStay(t)
      BY <1>2, <3>1, OneThread, Zenon
    <3>3. reaped[t] \in Pid /\ children[reaped[t]] \in Child
      BY <1>2, <3>1 DEF Shape, ReapedOK
    <3>4. pid[children[reaped[t]]] = reaped[t]
      BY <1>2, <3>3, ConstantsOK DEF Shape, TableOK, ConstantsOK
    <3>5. \A c \in Child : pid[c] = reaped[t] => c = children[reaped[t]]
      BY <1>2, <3>3, <3>4, ConstantsOK DEF Lives, PidUnique, ConstantsOK
    <3>6. \A c \in Child : c \in threw' \/ ~Hands(t, c)
      BY <3>1, <3>5 DEF Hands
    <3>7. \A c \in Child : Observed(c)' => Observed(c)
      BY <3>1, Zenon DEF Observed
    <3>8. threw \subseteq threw'
      BY <3>1, Zenon
    <3>9. QED
      BY <1>2, <3>1, <3>2, <3>6, <3>7, <3>8, ThreadMoves, Zenon
  <2>15. CASE UNCHANGED vars
    BY <1>2, <2>15, ProcessMoves, Zenon DEF vars, kernel, history
  <2>16. ASSUME NEW t \in Thread, Add(t) \/ OnSigChild(t) PROVE NoOrphanedEntry'
    BY <2>6, <2>7, <2>8, <2>9, <2>10, <2>11, <2>12, <2>13, <2>14, <2>16, <2>20, <2>21,
       Zenon DEF Add, OnSigChild
  <2>17. QED
    BY <1>2, <2>1, <2>2, <2>3, <2>4, <2>5, <2>15, <2>16, <2>18, <2>19, Zenon
       DEF Next
<1>3. QED
  BY <1>1, <1>2, ShapeInvariant, LivesInvariant, PTL DEF Spec

-----------------------------------------------------------------------------
\* Without pid reuse the observer implements Obituaries: Die maps to Die, as
\* does a Drop that kills; AddInsert maps to Watch, AddEmit and OscEmit to
\* Report, and every other step is a stutter.
THEOREM PromiseKept == ASSUME ~PidReuse PROVE Spec => KeepsPromise
<1> USE ConstantsOK DEF ConstantsOK, Thread
<1> DEFINE dead == {c \in Child : proc[c] \in Dead}
<1>1. Init => Promise!Init
  BY DEF Init, Promise!Init, Dead
<1>2. ASSUME Shape, Lives, OneObituaryPerInsertion, [Next]_vars
      PROVE  [Promise!Next]_(Promise!vars)
  <2> USE <1>2 DEF Shape, TypeOK, Goto
  <2>1. ASSUME UNCHANGED <<inserted, emitted, threw>>,
               \A d \in Child : proc'[d] \in Dead <=> proc[d] \in Dead
        PROVE  UNCHANGED Promise!vars
    BY <2>1 DEF Promise!vars
  <2>2. ASSUME NEW c \in Child, UNCHANGED <<inserted, emitted, threw>>,
               proc'[c] \in Dead,
               \A d \in Child \ {c} : proc'[d] \in Dead <=> proc[d] \in Dead
        PROVE  Promise!Next
    <3>1. dead' = dead \cup {c}
      BY <2>2
    <3>2. Promise!Die(c)
      BY <2>2, <3>1 DEF Promise!Die
    <3>3. QED
      BY <3>2 DEF Promise!Next
  <2>3. ASSUME NEW c \in Child, Fork(c) \/ StopOrContinue(c) \/ LeaveGroup(c)
        PROVE  UNCHANGED Promise!vars
    BY <2>1, <2>3 DEF Fork, StopOrContinue, LeaveGroup, history, Dead
  <2>4. ASSUME NEW c \in Child, WaitFor(c) PROVE UNCHANGED Promise!vars
    BY <2>1, <2>4 DEF WaitFor, history, Dead
  <2>5. ASSUME NEW c \in Child, Die(c) PROVE Promise!Next
    BY <2>2, <2>5 DEF Die, history, Dead
  <2>6. ASSUME NEW c \in Child, Drop(c) PROVE [Promise!Next]_(Promise!vars)
    <3>1. Owners(pid[c]) \subseteq {c}
      BY <2>6 DEF Drop, Owners, Lives, PidUnique, PidOK
    <3>2. \A d \in Child \ {c} : proc'[d] = proc[d]
      BY Zenon, <2>6, <3>1 DEF Drop, Release
    <3>3. proc'[c] \in {"zombie", proc[c]}
      BY Zenon, <2>6 DEF Drop, Release
    <3>4. UNCHANGED <<inserted, emitted, threw>>
      BY <2>6 DEF Drop
    <3>5. QED
      BY <2>1, <2>2, <3>2, <3>3, <3>4 DEF Dead
  <2>7. ASSUME NEW t \in Thread, AddInsert(t) PROVE Promise!Next
    <3>1. arg[t] \in Child /\ pid[arg[t]] \in Pid
      BY Zenon, <2>7 DEF AddInsert, ArgOK, Adding
    <3>2. ~Owed(arg[t])
      BY Zenon, <2>7, <3>1 DEF AddInsert, Owed, Observed, TableOK
    <3>3. arg[t] \in threw \/ emitted[arg[t]] = inserted[arg[t]]
      BY <3>1, <3>2 DEF OneObituaryPerInsertion
    <3>4. Promise!Watch(arg[t])
      BY Zenon, <2>7, <3>1, <3>3 DEF AddInsert, kernel, Promise!Watch
    <3>5. QED
      BY <3>1, <3>4 DEF Promise!Next
  <2>8. ASSUME NEW t \in Thread, NEW c \in Child,
               \/ pc[t] = "add_emit" /\ c = arg[t]
               \/ pc[t] = "osc_emit" /\ c = children[reaped[t]],
               proc' = proc, inserted' = inserted,
               emitted' = [emitted EXCEPT ![c] = @ + 1],
               threw' = threw \/ threw' = threw \cup {c}
        PROVE  Promise!Next
    <3>1. Owed(c)
      <4>1. guard = t
        BY <2>8 DEF GuardOK, Locked
      <4>2. Observed(c)
        BY <2>8 DEF Observed, ArgOK, ReapedOK, Adding
      <4>3. \A u \in Thread : pc[u] # "add_erase" /\ pc[u] # "osc_erase"
        BY <2>8, <4>1 DEF GuardOK, Locked
      <4>4. QED
        BY <4>2, <4>3, Zenon DEF Owed
    <3>2. c \in threw \/ emitted[c] < inserted[c]
      BY <3>1 DEF OneObituaryPerInsertion
    <3>3. proc[c] = "gone"
      <4>1. CASE pc[t] = "add_emit" /\ c = arg[t]
        BY <4>1 DEF Lives, Buried
      <4>2. CASE pc[t] = "osc_emit" /\ c = children[reaped[t]]
        <5>1. reaped[t] \in Pid
          BY <4>2 DEF ReapedOK
        <5>2. pid[c] = reaped[t]
          BY <4>2, <5>1 DEF TableOK
        <5>3. PICK d \in Child : pid[d] = reaped[t] /\ proc[d] = "gone"
          BY <4>2, Zenon DEF Lives, Buried
        <5>4. QED
          BY <5>1, <5>2, <5>3 DEF Lives, PidUnique
      <4>3. QED
        BY <2>8, <4>1, <4>2, Zenon
    <3>4. dead' = dead /\ c \in dead
      BY <2>8, <3>3 DEF Dead
    <3>5. Promise!Report(c)
      BY Zenon, <2>8, <3>2, <3>4 DEF Promise!Report
    <3>6. QED
      BY <3>5 DEF Promise!Next
  <2>9. ASSUME NEW t \in Thread, AddPresent(t) \/ AddAlive(t) \/ AddErase(t)
        PROVE  UNCHANGED Promise!vars
    BY Zenon, <2>1, <2>9 DEF AddPresent, AddAlive, AddErase, kernel, history
  <2>10. ASSUME NEW t \in Thread, AddDead(t) PROVE UNCHANGED Promise!vars
    BY Zenon, <2>1, <2>10 DEF AddDead, Owners, Dead, history
  <2>11. ASSUME NEW t \in Thread,
                OscReap(t) \/ OscNone(t) \/ OscUnknown(t) \/ OscFind(t)
         PROVE  UNCHANGED Promise!vars
    <3>1. UNCHANGED <<inserted, emitted, threw>>
      BY <2>11, Zenon DEF OscReap, OscNone, OscUnknown, OscFind, history
    <3>2. \A d \in Child : proc'[d] \in Dead <=> proc[d] \in Dead
      <4>1. CASE OscReap(t)
        BY <4>1 DEF OscReap, Dead
      <4>2. CASE ~OscReap(t)
        BY <2>11, <4>2, Zenon DEF OscNone, OscUnknown, OscFind, kernel
      <4>3. QED
        BY <4>1, <4>2, Zenon
    <3>3. QED
      BY <2>1, <3>1, <3>2, Zenon
  <2>12. ASSUME NEW t \in Thread, OscErase(t) PROVE UNCHANGED Promise!vars
    <3> DEFINE c == children[reaped[t]]
    <3>1. c \in Child /\ pid[c] = reaped[t]
      BY <2>12 DEF OscErase, ReapedOK, TableOK
    <3>2. Owners(pid[c]) = {}
      <4>1. pc[t] = "osc_erase" /\ reaped[t] \in Pid
        BY Zenon, <2>12 DEF OscErase, ReapedOK
      <4>2. PICK d \in Child : pid[d] = reaped[t] /\ proc[d] = "gone"
        BY <4>1, Zenon DEF Lives, Buried
      <4>3. \A e \in Child : pid[e] = pid[c] => e = d
        BY Zenon, <3>1, <4>1, <4>2 DEF Lives, PidUnique
      <4>4. QED
        BY <4>2, <4>3 DEF Owners
    <3>3. \A d \in Child : proc'[d] = proc[d]
      BY Zenon, <2>12, <3>2 DEF OscErase, Release
    <3>4. QED
      BY Zenon, <2>1, <2>12, <3>3 DEF OscErase
  <2>13. CASE UNCHANGED <<proc, inserted, emitted, threw>>
    BY <2>1, <2>13
  <2>14. ASSUME NEW t \in Thread, Add(t) PROVE [Promise!Next]_(Promise!vars)
    <3>1. ASSUME AddEmit(t) PROVE Promise!Next
      BY <2>8, <3>1, Zenon DEF AddEmit, ArgOK, Adding, kernel
    <3>2. ASSUME AddThrows(t) PROVE Promise!Next
      BY <2>8, <3>2, Zenon DEF AddThrows, ArgOK, Adding, kernel
    <3>3. QED
      BY Zenon, <2>7, <2>9, <2>10, <2>14, <3>1, <3>2 DEF Add
  <2>15. ASSUME NEW t \in Thread, OnSigChild(t)
         PROVE  [Promise!Next]_(Promise!vars)
    <3>1. ASSUME OscEmit(t) PROVE Promise!Next
      BY <2>8, <3>1, Zenon DEF OscEmit, ReapedOK, kernel
    <3>2. ASSUME OscThrows(t) PROVE Promise!Next
      BY <2>8, <3>2, Zenon DEF OscThrows, ReapedOK, kernel
    <3>3. QED
      BY <2>11, <2>12, <2>15, <3>1, <3>2, Zenon DEF OnSigChild
  <2>17. ASSUME NEW c \in Child, NEW d \in Child, DropInChild(d, c)
         PROVE  UNCHANGED Promise!vars
    <3>1. UNCHANGED <<proc, inserted, emitted, threw>>
      BY <2>17, DropInChildIsLocal, Zenon
    <3>2. QED
      BY <2>1, <3>1
  <2>16. QED
    BY Zenon, <2>3, <2>4, <2>5, <2>6, <2>13, <2>14, <2>15, <2>17
       DEF Next, vars, kernel, history, TrapSigchld, CallOnSigChild, AddCall
<1>3. QED
  BY <1>1, <1>2, ShapeInvariant, LivesInvariant, ObituaryPerInsertion, PTL
     DEF Spec, KeepsPromise, Promise!Spec

-----------------------------------------------------------------------------
\* What ~Private of c adds to slain: nothing that a child with a reference did.
LEMMA ReleaseSpares ==
  ASSUME NEW o, NEW c, Release(o, c, held', children'),
         NEW d \in Child, d \in held' \/ Observed(d)',
         NEW e \in Child, <<d, e>> \in slain'
  PROVE  <<d, e>> \in slain
<1>1. CASE c = d
  <2>1. Referenced(c, held', children')
    BY <1>1 DEF Observed, Referenced
  <2>2. slain' = slain \cup ({c} \X {})
    BY Zenon, <2>1 DEF Release
  <2>3. QED
    BY <2>2
<1>2. CASE c # d
  <2>1. PICK victims : slain' = slain \cup ({c} \X victims)
    BY Zenon DEF Release
  <2>2. QED
    BY <1>2, <2>1
<1>3. QED
  BY <1>1, <1>2

\* A reference keeps the process alive: neither the last handle of the
\* application, nor the erase of a table entry, nor ~Private in a child kills a
\* process that the parent still refers to.  No assumption on pids is needed.
THEOREM ReferenceKeepsAlive == Spec => ReferencedChildSurvives
<1> DEFINE Spares == \A c \in Child : c \in held' \/ Observed(c)' =>
                       \A d \in Child : <<c, d>> \in slain' => <<c, d>> \in slain
<1>1. ASSUME Shape, Next PROVE Spares
  <2>1. CASE slain' = slain
    BY <2>1
  <2>2. ASSUME NEW c \in Child, Drop(c) PROVE Spares
    <3>1. children' = children /\ Release(TRUE, c, held', children)
      BY <2>2 DEF Drop
    <3>2. Release(TRUE, c, held', children')
      BY <3>1
    <3>3. QED
      BY <3>2, ReleaseSpares
  <2>3. ASSUME NEW t \in Thread, OscErase(t) PROVE Spares
    <3>1. held' = held /\ Release(TRUE, children[reaped[t]], held, children')
      BY <2>3 DEF OscErase
    <3>2. Release(TRUE, children[reaped[t]], held', children')
      BY <3>1
    <3>3. QED
      BY <3>2, ReleaseSpares
  <2>5. ASSUME NEW c \in Child, NEW d \in Child, DropInChild(d, c) PROVE Spares
    BY <1>1, <2>1, <2>5, DropInChildIsLocal, Zenon
  <2>4. QED
    BY Zenon, <1>1, <2>1, <2>2, <2>3, <2>5
    DEF Next, Fork, Die, StopOrContinue, LeaveGroup, WaitFor, CallOnSigChild, AddCall,
        TrapSigchld, Add, AddPresent, AddInsert, AddAlive, AddDead, AddEmit, AddThrows,
        AddErase, OnSigChild, OscReap, OscNone, OscUnknown, OscFind, OscEmit, OscThrows,
        history
<1>2. Shape /\ [Next]_vars => [Spares]_vars
  BY <1>1
<1>3. QED
  BY <1>2, ShapeInvariant, PTL DEF Spec, ReferencedChildSurvives
=============================================================================
