--------------------------- MODULE DeathObserver ---------------------------
(***************************************************************************)
(* ChildProcess::DeathObserver (src/src/core/posix/child_process.cpp),     *)
(* running in the parent: the table of observed children, its mutex, the   *)
(* reap loop on_sig_child, and the threads that race on them.              *)
(*                                                                         *)
(* The kernel's side (child states, pids, the pending SIGCHLD, waitpid and *)
(* kill) is modelled from how the code uses it.  The mutex serialises      *)
(* every access to the table, so a locked section is cut only where        *)
(* another thread can see or change something: at waitpid, at the emission *)
(* of child_died and at the final erase.                                   *)
(***************************************************************************)
EXTENDS Naturals

CONSTANTS
  Child,       \* ChildProcess instances, one per forked process
  Pid,         \* process identifiers the kernel hands out
  Trap,        \* the thread inside SignalTrap::run()
  App,         \* the application's threads
  MaxAdds,     \* bound: insertions into the table per child
  PidReuse,    \* may the kernel hand out the pid of a reaped child again?
  OtherWaits,  \* does the application call ChildProcess::wait_for()?
  LeavesGroup, \* may a child move to another process group?
  SlotsThrow,  \* may a slot of child_died throw?
  None         \* no child, no pid, no thread

Thread == App \cup {Trap}

ASSUME ConstantsOK ==
  /\ MaxAdds \in Nat
  /\ PidReuse \in BOOLEAN /\ OtherWaits \in BOOLEAN /\ LeavesGroup \in BOOLEAN
  /\ SlotsThrow \in BOOLEAN
  /\ Trap \notin App
  /\ None \notin Child \cup Pid \cup Thread

VARIABLES
  proc,      \* kernel: state of each child process
  pid,       \* pid of each child, None before fork()
  group,     \* kernel: the children in the parent's process group
  sigchld,   \* kernel: SIGCHLD is pending (blocked, so it stays pending)
  held,      \* children some ChildProcess of the application still refers to
  copies,    \* the ChildProcess objects each child has inherited
  guard,     \* DeathObserverImpl::guard, the thread that holds it
  children,  \* DeathObserverImpl::children
  pc,        \* where each thread is
  arg,       \* the argument of the add() a thread is in
  reaped,    \* the local pid of the on_sig_child() a thread is in
  inserted,  \* history: insertions into children, per child
  emitted,   \* history: child_died emissions, per child
  slain,     \* history: <<c, d>>, ~Private of c delivered SIGKILL to d
  waited,    \* history: the children that wait_for() has collected
  threw      \* history: the children for which a slot of child_died threw

kernel == <<proc, pid, group, sigchld>>
history == <<inserted, emitted, slain, waited, threw>>
vars == <<kernel, held, copies, guard, children, pc, arg, reaped, history>>

Dead == {"zombie", "gone"}

Adding == {"add_lock", "add_check", "add_emit", "add_erase"}
Reaping == {"osc_wait", "osc_lock", "osc_emit", "osc_erase"}
Locked == {"add_check", "add_emit", "add_erase", "osc_emit", "osc_erase"}

TypeOK ==
  /\ proc \in [Child -> {"unborn", "alive"} \cup Dead]
  /\ pid \in [Child -> Pid \cup {None}]
  /\ group \in SUBSET Child
  /\ sigchld \in BOOLEAN
  /\ held \in SUBSET Child
  /\ copies \in [Child -> SUBSET Child]
  /\ guard \in Thread \cup {None}
  /\ children \in [Pid -> Child \cup {None}]
  /\ pc \in [Thread -> {"idle", "threw"} \cup Adding \cup Reaping]
  /\ arg \in [Thread -> Child \cup {None}]
  /\ reaped \in [Thread -> Pid \cup {None}]
  /\ inserted \in [Child -> Nat]
  /\ emitted \in [Child -> Nat]
  /\ slain \in SUBSET (Child \X Child)
  /\ waited \in SUBSET Child
  /\ threw \in SUBSET Child

Init ==
  /\ proc = [c \in Child |-> "unborn"]
  /\ pid = [c \in Child |-> None]
  /\ group = Child
  /\ sigchld = FALSE
  /\ held = {}
  /\ copies = [c \in Child |-> {}]
  /\ guard = None
  /\ children = [p \in Pid |-> None]
  /\ pc = [t \in Thread |-> "idle"]
  /\ arg = [t \in Thread |-> None]
  /\ reaped = [t \in Thread |-> None]
  /\ inserted = [c \in Child |-> 0]
  /\ emitted = [c \in Child |-> 0]
  /\ slain = {}
  /\ waited = {}
  /\ threw = {}

-----------------------------------------------------------------------------
(* The kernel, as waitpid, kill and fork present it to the code.           *)

\* The child processes that own pid p: the kernel frees a pid when the
\* child is reaped.
Owners(p) == {d \in Child : pid[d] = p /\ proc[d] \in {"alive", "zombie"}}

Free(p) == \A d \in Child : pid[d] = p => PidReuse /\ proc[d] = "gone"

Goto(t, from, to) == pc[t] = from /\ pc' = [pc EXCEPT ![t] = to]

\* Some ChildProcess still shares the Private of c: a handle of the
\* application or the copy in the observer's table.
Observed(c) == \E p \in Pid : children[p] = c

Referenced(c, handles, table) == c \in handles \/ \E p \in Pid : table[p] = c

\* Mutation of Release: the process would not be asked for.
ReleaseAnywhere(original, c, handles, table) ==
  LET victims == IF Referenced(c, handles, table) THEN {}
                 ELSE {d \in Owners(pid[c]) : proc[d] = "alive"}
  IN  /\ proc' = [d \in Child |-> IF d \in victims THEN "zombie" ELSE proc[d]]
      /\ sigchld' = (sigchld \/ victims # {})
      /\ slain' = slain \cup ({c} \X victims)

\* ~Private, when the last reference that a process has to c is gone: SIGKILL
\* to the pid of c, whoever owns it now, if the process is the original parent.
\* The pid is never -1: fork() and vfork() throw before they make a
\* ChildProcess with it.
Release(original, c, handles, table) ==
  LET victims == IF ~original \/ Referenced(c, handles, table) THEN {}
                 ELSE {d \in Owners(pid[c]) : proc[d] = "alive"}
  IN  /\ proc' = [d \in Child |-> IF d \in victims THEN "zombie" ELSE proc[d]]
      /\ sigchld' = (sigchld \/ victims # {})
      /\ slain' = slain \cup ({c} \X victims)

\* posix::fork() returned a ChildProcess for a new child, which has inherited
\* those the application held.  (The copy of the table in the child's memory is
\* not modelled: no child calls its observer.)
Fork(c) ==
  /\ proc[c] = "unborn"
  /\ \E p \in Pid : Free(p) /\ pid' = [pid EXCEPT ![c] = p]
  /\ proc' = [proc EXCEPT ![c] = "alive"]
  /\ held' = held \cup {c}
  /\ copies' = [copies EXCEPT ![c] = held]
  /\ UNCHANGED <<group, sigchld, guard, children, pc, arg, reaped, history>>

\* The child exits or a signal terminates it.
Die(c) ==
  /\ proc[c] = "alive"
  /\ proc' = [proc EXCEPT ![c] = "zombie"]
  /\ sigchld' = TRUE
  /\ copies' = [copies EXCEPT ![c] = {}]
  /\ UNCHANGED <<pid, group, held, guard, children, pc, arg, reaped, history>>

\* The child is stopped or continued: a SIGCHLD without a death.  No waitpid
\* here asks for stopped children, so they are not told from running ones.
StopOrContinue(c) ==
  /\ proc[c] = "alive"
  /\ sigchld' = TRUE
  /\ UNCHANGED <<proc, pid, group, held, copies, guard, children, pc, arg,
                 reaped, history>>

\* setpgid() or setsid() in the child, e.g. in the child_setup of exec().
LeaveGroup(c) ==
  /\ LeavesGroup
  /\ proc[c] = "alive"
  /\ group' = group \ {c}
  /\ UNCHANGED <<proc, pid, sigchld, held, copies, guard, children, pc, arg,
                 reaped, history>>

-----------------------------------------------------------------------------
(* The application's operations on a ChildProcess.                         *)

\* ChildProcess::wait_for() collects the child that owns the pid.  A call with
\* nohang that finds nothing to collect returns no_state_change, one that finds
\* no child throws; neither changes anything.
WaitFor(c) ==
  /\ OtherWaits
  /\ c \in held
  /\ \E d \in Owners(pid[c]) :
       /\ proc[d] = "zombie"
       /\ proc' = [proc EXCEPT ![d] = "gone"]
       /\ waited' = waited \cup {d}
  /\ UNCHANGED <<pid, group, sigchld, held, copies, guard, children, pc, arg,
                 reaped, inserted, emitted, slain, threw>>

\* The application's last ChildProcess for c is destroyed.  The argument of
\* a running add() is one of them.
Drop(c) ==
  /\ c \in held
  /\ \A t \in App : arg[t] # c
  /\ held' = held \ {c}
  /\ Release(TRUE, c, held', children)
  /\ UNCHANGED <<pid, group, copies, guard, children, pc, arg, reaped,
                 inserted, emitted, waited, threw>>

\* A child destroys the ChildProcess for c that it has inherited.
DropInChild(d, c) ==
  /\ proc[d] = "alive"
  /\ c \in copies[d]
  /\ copies' = [copies EXCEPT ![d] = @ \ {c}]
  /\ Release(FALSE, c, copies'[d], [p \in Pid |-> None])
  /\ UNCHANGED <<pid, group, held, guard, children, pc, arg, reaped, inserted,
                 emitted, waited, threw>>

-----------------------------------------------------------------------------
(* DeathObserverImpl::add.                                                 *)

\* The early return for the pid -1 is never taken, see Release.
AddCall(t, c) ==
  /\ Goto(t, "idle", "add_lock")
  /\ c \in held
  /\ inserted[c] < MaxAdds
  /\ arg' = [arg EXCEPT ![t] = c]
  /\ UNCHANGED <<kernel, held, copies, guard, children, reaped, inserted,
                 emitted, slain, waited, threw>>

\* The pid is already in the table: insert() reports it, add() returns false.
AddPresent(t) ==
  /\ Goto(t, "add_lock", "idle")
  /\ guard = None
  /\ children[pid[arg[t]]] # None
  /\ arg' = [arg EXCEPT ![t] = None]
  /\ UNCHANGED <<kernel, held, copies, guard, children, reaped, history>>

AddInsert(t) ==
  /\ Goto(t, "add_lock", "add_check")
  /\ guard = None
  /\ children[pid[arg[t]]] = None
  /\ guard' = t
  /\ children' = [children EXCEPT ![pid[arg[t]]] = arg[t]]
  /\ inserted' = [inserted EXCEPT ![arg[t]] = @ + 1]
  /\ UNCHANGED <<kernel, held, copies, arg, reaped, emitted, slain, waited,
                 threw>>

\* waitpid(pid, WNOHANG) = 0: add() returns true.
AddAlive(t) ==
  /\ Goto(t, "add_check", "idle")
  /\ \E d \in Owners(pid[arg[t]]) : proc[d] = "alive"
  /\ guard' = None
  /\ arg' = [arg EXCEPT ![t] = None]
  /\ UNCHANGED <<kernel, held, copies, children, reaped, history>>

\* Mutation of AddDead: ECHILD would be taken for "still alive", i.e. only a
\* child that add() reaps itself would be reported.
AddDeadIgnoresEchild(t) ==
  /\ pc[t] = "add_check"
  /\ IF \E d \in Owners(pid[arg[t]]) : proc[d] = "zombie"
     THEN /\ proc' = [d \in Child |-> IF d \in Owners(pid[arg[t]])
                                      THEN "gone" ELSE proc[d]]
          /\ pc' = [pc EXCEPT ![t] = "add_emit"]
          /\ UNCHANGED <<guard, arg>>
     ELSE /\ \A d \in Owners(pid[arg[t]]) : proc[d] = "zombie"
          /\ pc' = [pc EXCEPT ![t] = "idle"]
          /\ guard' = None
          /\ arg' = [arg EXCEPT ![t] = None]
          /\ UNCHANGED proc
  /\ UNCHANGED <<pid, group, sigchld, held, copies, children, reaped, history>>

\* Mutation of AddDead: the child would be reported whatever waitpid returns.
AddDeadUnchecked(t) ==
  /\ Goto(t, "add_check", "add_emit")
  /\ proc' = [d \in Child |-> IF d \in Owners(pid[arg[t]]) /\ proc[d] = "zombie"
                              THEN "gone" ELSE proc[d]]
  /\ UNCHANGED <<pid, group, sigchld, held, copies, guard, children, arg,
                 reaped, history>>

\* waitpid(pid, WNOHANG) # 0: it reaped the child, or found no such child
\* because another thread had reaped it (-1 with ECHILD).
AddDead(t) ==
  /\ Goto(t, "add_check", "add_emit")
  /\ \A d \in Owners(pid[arg[t]]) : proc[d] = "zombie"
  /\ proc' = [d \in Child |-> IF d \in Owners(pid[arg[t]]) THEN "gone"
                              ELSE proc[d]]
  /\ UNCHANGED <<pid, group, sigchld, held, copies, guard, children, arg,
                 reaped, history>>

\* signals.child_died(new_process.second), with the guard held.
AddEmit(t) ==
  /\ Goto(t, "add_emit", "add_erase")
  /\ emitted' = [emitted EXCEPT ![arg[t]] = @ + 1]
  /\ UNCHANGED <<kernel, held, copies, guard, children, arg, reaped, inserted,
                 slain, waited, threw>>

\* A slot throws: add() leaves its lock and the exception leaves add(), but the
\* entry stays in the table.
AddThrows(t) ==
  /\ SlotsThrow
  /\ Goto(t, "add_emit", "idle")
  /\ emitted' = [emitted EXCEPT ![arg[t]] = @ + 1]
  /\ threw' = threw \cup {arg[t]}
  /\ guard' = None
  /\ arg' = [arg EXCEPT ![t] = None]
  /\ UNCHANGED <<kernel, held, copies, children, reaped, inserted, slain,
                 waited>>

\* Mutation of AddErase: the entry of the reported child would stay behind.
AddEraseForgotten(t) ==
  /\ Goto(t, "add_erase", "idle")
  /\ guard' = None
  /\ arg' = [arg EXCEPT ![t] = None]
  /\ UNCHANGED <<kernel, held, copies, children, reaped, history>>

\* children.erase(new_process.first); return false.  The argument of add()
\* still refers to the child, so nothing is released.
AddErase(t) ==
  /\ Goto(t, "add_erase", "idle")
  /\ children' = [children EXCEPT ![pid[arg[t]]] = None]
  /\ guard' = None
  /\ arg' = [arg EXCEPT ![t] = None]
  /\ UNCHANGED <<kernel, held, copies, reaped, history>>

-----------------------------------------------------------------------------
(* DeathObserverImpl::on_sig_child.                                        *)

\* The trap reads SIGCHLD from its signalfd and dispatches it (SignalTrap
\* models the steps in between).
TrapSigchld ==
  /\ Goto(Trap, "idle", "osc_wait")
  /\ sigchld
  /\ sigchld' = FALSE
  /\ UNCHANGED <<proc, pid, group, held, copies, guard, children, arg, reaped,
                 history>>

\* on_sig_child() is public: the application may call it as well.
CallOnSigChild(t) ==
  /\ Goto(t, "idle", "osc_wait")
  /\ UNCHANGED <<kernel, held, copies, guard, children, arg, reaped, history>>

\* waitpid(0, WNOHANG) > 0: any dead child of the parent's process group.
OscReap(t) ==
  /\ Goto(t, "osc_wait", "osc_lock")
  /\ \E c \in group :
       /\ proc[c] = "zombie"
       /\ proc' = [proc EXCEPT ![c] = "gone"]
       /\ reaped' = [reaped EXCEPT ![t] = pid[c]]
  /\ UNCHANGED <<pid, group, sigchld, held, copies, guard, children, arg,
                 history>>

\* Mutation of OscNone: one waitpid per SIGCHLD, without the loop.
OscNoneAnyTime(t) ==
  /\ Goto(t, "osc_wait", "idle")
  /\ UNCHANGED <<kernel, held, copies, guard, children, arg, reaped, history>>

\* waitpid(0, WNOHANG) is 0, or -1 with ECHILD: the loop ends.
OscNone(t) ==
  /\ Goto(t, "osc_wait", "idle")
  /\ \A c \in group : proc[c] # "zombie"
  /\ UNCHANGED <<kernel, held, copies, guard, children, arg, reaped, history>>

\* The reaped child is not observed.
OscUnknown(t) ==
  /\ Goto(t, "osc_lock", "osc_wait")
  /\ guard = None
  /\ children[reaped[t]] = None
  /\ reaped' = [reaped EXCEPT ![t] = None]
  /\ UNCHANGED <<kernel, held, copies, guard, children, arg, history>>

\* Mutation of OscFind: the table would be searched without the lock.
OscFindUnlocked(t) ==
  /\ Goto(t, "osc_lock", "osc_emit")
  /\ children[reaped[t]] # None
  /\ guard' = IF guard = None THEN t ELSE guard
  /\ UNCHANGED <<kernel, held, copies, children, arg, reaped, history>>

OscFind(t) ==
  /\ Goto(t, "osc_lock", "osc_emit")
  /\ guard = None
  /\ children[reaped[t]] # None
  /\ guard' = t
  /\ UNCHANGED <<kernel, held, copies, children, arg, reaped, history>>

\* signals.child_died(it->second).  Without WUNTRACED or WCONTINUED the status
\* is always that of an exited or signaled child.
OscEmit(t) ==
  /\ Goto(t, "osc_emit", "osc_erase")
  /\ emitted' = [emitted EXCEPT ![children[reaped[t]]] = @ + 1]
  /\ UNCHANGED <<kernel, held, copies, guard, children, arg, reaped, inserted,
                 slain, waited, threw>>

\* A slot throws: the exception leaves on_sig_child() with the entry still in
\* the table.  In the trap's thread it leaves SignalTrap::run(), too, and the
\* trap never runs again (see SignalTrap).
OscThrows(t) ==
  /\ SlotsThrow
  /\ Goto(t, "osc_emit", IF t = Trap THEN "threw" ELSE "idle")
  /\ emitted' = [emitted EXCEPT ![children[reaped[t]]] = @ + 1]
  /\ threw' = threw \cup {children[reaped[t]]}
  /\ guard' = None
  /\ reaped' = [reaped EXCEPT ![t] = None]
  /\ UNCHANGED <<kernel, held, copies, children, arg, inserted, slain, waited>>

\* children.erase(it): the table's copy of the ChildProcess is destroyed.
OscErase(t) ==
  /\ Goto(t, "osc_erase", "osc_wait")
  /\ children' = [children EXCEPT ![reaped[t]] = None]
  /\ Release(TRUE, children[reaped[t]], held, children')
  /\ guard' = None
  /\ reaped' = [reaped EXCEPT ![t] = None]
  /\ UNCHANGED <<pid, group, held, copies, arg, inserted, emitted, waited,
                 threw>>

-----------------------------------------------------------------------------
Add(t) ==
  \/ AddPresent(t) \/ AddInsert(t) \/ AddAlive(t) \/ AddDead(t)
  \/ AddEmit(t) \/ AddThrows(t) \/ AddErase(t)

OnSigChild(t) ==
  \/ OscReap(t) \/ OscNone(t) \/ OscUnknown(t) \/ OscFind(t)
  \/ OscEmit(t) \/ OscThrows(t) \/ OscErase(t)

Next ==
  \/ \E c \in Child : \/ Fork(c) \/ Die(c) \/ StopOrContinue(c)
                      \/ LeaveGroup(c) \/ WaitFor(c) \/ Drop(c)
                      \/ \E d \in Child : DropInChild(d, c)
  \/ \E t \in App : CallOnSigChild(t) \/ \E c \in Child : AddCall(t, c)
  \/ TrapSigchld
  \/ \E t \in Thread : Add(t) \/ OnSigChild(t)

Spec == Init /\ [][Next]_vars

\* A thread inside a call of the library keeps running, and the trap answers
\* a pending SIGCHLD.  Nothing is assumed about the application or the kernel.
Fairness ==
  /\ WF_vars(TrapSigchld)
  /\ \A t \in Thread : WF_vars(Add(t)) /\ WF_vars(OnSigChild(t))

FairSpec == Spec /\ Fairness

-----------------------------------------------------------------------------
(* Properties.                                                             *)

\* "emits a signal when a monitored child has died" (child_process.h:47):
\* child_died is emitted only for a child that is dead and reaped, whichever
\* thread reaped it and however add() and on_sig_child() interleave.  This
\* needs a kernel that does not reuse pids: on_sig_child() reaps before it
\* locks, and meanwhile a new child may get the pid and be added.
NoFalseObituary == \A c \in Child : emitted[c] > 0 => proc[c] = "gone"

\* The entry of c is still owed an emission: it is in the table, and no thread
\* stands between the emission and the erase.
Owed(c) ==
  /\ Observed(c)
  /\ \A t \in Thread :
       /\ ~(pc[t] = "add_erase" /\ arg[t] = c)
       /\ ~(pc[t] = "osc_erase" /\ children[reaped[t]] = c)

\* Every successful insertion is answered by exactly one child_died, or is
\* still waiting for it in the table: add() and the reap loop never both
\* report a death and never both leave it to the other.  A child for which a
\* slot threw is left out: its entry stays in the table although its death has
\* been reported, and on_sig_child() may report it again.
OneObituaryPerInsertion ==
  \A c \in Child \ threw : inserted[c] = emitted[c] + (IF Owed(c) THEN 1 ELSE 0)

\* A dead child of the group is never forgotten although SIGCHLDs coalesce and
\* the application calls on_sig_child(), too: SIGCHLD is pending or the trap is
\* in its reap loop and will ask waitpid again.  A slot that throws in the
\* trap's thread ends the trap; nobody waits for the children after that.
NoLostWakeup ==
  (\E c \in group : proc[c] = "zombie") =>
     sigchld \/ pc[Trap] \in Reaping \cup {"threw"}

\* The child that thread t has reaped, or is checking in add(), and must still
\* answer for.
InHands(c) ==
  \E t \in Thread :
     \/ pc[t] \in {"add_check", "add_emit", "add_erase"} /\ arg[t] = c
     \/ pc[t] \in {"osc_lock", "osc_emit", "osc_erase"} /\ reaped[t] = pid[c]

\* No entry of the table outlives its child unattended: as soon as an observed
\* child has been reaped, the thread that reaped it (or the add() that is
\* checking on it) still has to report it.  There are two ways to orphan an
\* entry, and no other: wait_for() collects a child that is in the table, or a
\* slot throws.
NoOrphanedEntry ==
  \A c \in Child : Observed(c) /\ proc[c] = "gone" =>
                     InHands(c) \/ c \in waited \/ c \in threw

\* "If so, we kill the original child." (child_process.cpp:299): ~Private
\* signals no other process than the one it was created for.
DestructorKillsOwnChild == \A k \in slain : k[1] = k[2]

\* Nobody kills a child that the parent still refers to: not the observer's
\* erase while the application has a handle, not the application's last handle
\* while the child is observed, and not a child that destroys the ChildProcess
\* objects it has inherited ("it might happen that the d'tor is called from the
\* child process", child_process.cpp:319).
ReferencedChildSurvives ==
  [][\A c \in Child : c \in held' \/ Observed(c)' =>
       \A d \in Child : <<c, d>> \in slain' => <<c, d>> \in slain]_vars

\* "child_died is emitted whenever an observed child ceases to exist"
\* (child_process.h:88): every death of an observed child is reported, whatever
\* the other children did, if the child died in the parent's process group
\* (on_sig_child() waits for no other), if wait_for() did not collect it, and
\* if no slot ended the trap by throwing.
EveryDeathReported ==
  \A c \in Child :
    (Observed(c) /\ proc[c] \in Dead /\ c \in group) ~>
      (emitted[c] >= inserted[c] \/ c \in waited \/ pc[Trap] = "threw")

\* A child is dead for its observers once it is a zombie.
Promise == INSTANCE Obituaries WITH
  dead <- {c \in Child : proc[c] \in Dead},
  watched <- inserted,
  reported <- emitted,
  failed <- threw

\* add() and on_sig_child() implement Obituaries: they report only children
\* under observation, only dead ones, and once per observation as long as no
\* slot throws.
KeepsPromise == Promise!Spec
=============================================================================
