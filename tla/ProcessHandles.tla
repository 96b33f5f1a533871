--------------------------- MODULE ProcessHandles ---------------------------
(***************************************************************************)
(* Process, ProcessGroup and Signalable (src/src/core/posix/process.cpp,   *)
(* process_group.cpp, signalable.cpp) and this_process::instance() and     *)
(* parent() (this_process.cpp): what the handles of several processes      *)
(* denote while processes are forked, change their group and end.          *)
(*                                                                         *)
(* Pids are numbers, as kill() and getpgid() tell them apart by their      *)
(* sign; they are given out in order and not used again.                   *)
(***************************************************************************)
EXTENDS Integers

CONSTANT MaxPid  \* bound: the processes that are ever forked, init included

Pid == 1..MaxPid  \* 1 is init

VARIABLES
  proc,    \* kernel: what has become of each process
  ppid,    \* kernel: getppid(), 0 when the parent is out of sight
  pgid,    \* kernel: getpgid()
  self,    \* the static self of instance() in each process, 0 before the first call
  handle,  \* the Process or ProcessGroup each process holds
  used     \* history: who last used its handle, the handle, and whom it reached

phVars == <<proc, ppid, pgid, self, handle, used>>

There(p) == proc[p] \in {"alive", "zombie"}

\* A handle: what it is, Private::pid or id, and the pid that Signalable passes
\* to kill().  own is a history: the process that got it from instance(), if any.
Process(pid) == [kind |-> "process", pid |-> pid, kill |-> pid, own |-> 0]
ProcessGroup(id) == [kind |-> "group", pid |-> id, kill |-> -id, own |-> 0]

\* Process::invalid(): pid() is -1, but Signalable was constructed with 0.
Invalid == [kind |-> "process", pid |-> -1, kill |-> 0, own |-> 0]

Handle ==
  [kind : {"process", "group"}, pid : -1..MaxPid, kill : -MaxPid..MaxPid, own : 0..MaxPid]

Unused == [by |-> 0, through |-> Invalid, reached |-> {}]

PhTypeOK ==
  /\ proc \in [Pid -> {"none", "alive", "zombie", "gone"}]
  /\ ppid \in [Pid -> 0..MaxPid] /\ pgid \in [Pid -> 0..MaxPid]
  /\ self \in [Pid -> 0..MaxPid]
  /\ handle \in [Pid -> Handle]
  /\ used \in [by : 0..MaxPid, through : Handle, reached : SUBSET Pid]

PhInit ==
  /\ proc = [p \in Pid |-> IF p <= 2 THEN "alive" ELSE "none"]
  /\ \E parent \in {0, 1} : ppid = [p \in Pid |-> IF p = 2 THEN parent ELSE 0]
  /\ pgid = [p \in Pid |-> IF p <= 2 THEN p ELSE 0]
  /\ self = [p \in Pid |-> 0]
  /\ handle = [p \in Pid |-> Invalid]
  /\ used = Unused

-----------------------------------------------------------------------------
(* The processes.  init does not use the library and does not end.         *)

Runs(p) == p # 1 /\ proc[p] = "alive"

Hold(p, h) ==
  /\ handle' = [handle EXCEPT ![p] = h]
  /\ UNCHANGED <<proc, ppid, pgid, used>>

\* posix::fork(): the child has copies of all objects, the parent a handle.
Fork(p, q) ==
  /\ Runs(p) /\ proc[q] = "none" /\ \A r \in 1..q - 1 : proc[r] # "none"
  /\ proc' = [proc EXCEPT ![q] = "alive"]
  /\ ppid' = [ppid EXCEPT ![q] = p]
  /\ pgid' = [pgid EXCEPT ![q] = pgid[p]]
  /\ self' = [self EXCEPT ![q] = self[p]]
  /\ handle' = [handle EXCEPT ![p] = Process(q), ![q] = handle[p]]
  /\ UNCHANGED used

\* A process makes itself the leader of a group.
Lead(p) ==
  /\ Runs(p) /\ pgid[p] # p
  /\ pgid' = [pgid EXCEPT ![p] = p]
  /\ UNCHANGED <<proc, ppid, self, handle, used>>

\* A process ends; init adopts its children.
Exit(p) ==
  /\ Runs(p)
  /\ proc' = [proc EXCEPT ![p] = "zombie"]
  /\ ppid' = [q \in Pid |-> IF ppid[q] = p THEN 1 ELSE ppid[q]]
  /\ UNCHANGED <<pgid, self, handle, used>>

Reap(p) ==
  /\ proc[p] = "zombie"
  /\ proc' = [proc EXCEPT ![p] = "gone"]
  /\ UNCHANGED <<ppid, pgid, self, handle, used>>

\* instance(): getpid() is called once, and not again after a fork().
Instance(p) ==
  /\ Runs(p)
  /\ self' = [self EXCEPT ![p] = IF @ = 0 THEN p ELSE @]
  /\ Hold(p, [Process(self'[p]) EXCEPT !.own = p])

\* parent(): 0 when the parent is in another pid namespace.
Parent(p) ==
  /\ Runs(p)
  /\ Hold(p, Process(ppid[p]))
  /\ UNCHANGED self

\* ::getpgid(pid), -1 on an error; 0 stands for the caller.
Getpgid(p, pid) ==
  CASE pid = 0 -> pgid[p]
    [] pid \in Pid /\ There(pid) -> pgid[pid]
    [] OTHER -> -1

\* process_group_or_throw() and process_group(): on an error the first throws,
\* the second sets the error_code and returns a ProcessGroup all the same.
Group(p) ==
  LET id == Getpgid(p, handle[p].pid)
  IN  /\ Runs(p) /\ handle[p].kind = "process"
      /\ \/ Hold(p, ProcessGroup(id))
         \/ id = -1 /\ Hold(p, handle[p])
      /\ UNCHANGED self

-----------------------------------------------------------------------------
\* The processes that kill(pid, sig) signals when p calls it; none is an error.
Killed(p, pid) ==
  {q \in Pid : There(q) /\ \/ pid > 0 /\ q = pid
                           \/ pid = 0 /\ pgid[q] = pgid[p]
                           \/ pid = -1 /\ q \notin {1, p}
                           \/ pid < -1 /\ pgid[q] = -pid}

Reaches(p, targets) ==
  /\ used' = [by |-> p, through |-> handle[p], reached |-> targets]
  /\ UNCHANGED <<proc, ppid, pgid, self, handle>>

\* send_signal() and send_signal_or_throw(), with a signal that kills nobody.
SendSignal(p) == Runs(p) /\ Reaches(p, Killed(p, handle[p].kill))

\* operator>> and operator<< of the proc::process namespace access the directory
\* /proc/<pid>, if there is one.
AccessProc(p) ==
  /\ Runs(p) /\ handle[p].kind = "process"
  /\ Reaches(p, {q \in Pid : There(q) /\ q = handle[p].pid})

PhNext ==
  \E p \in Pid :
    \/ \E q \in Pid : Fork(p, q)
    \/ Lead(p) \/ Exit(p) \/ Reap(p) \/ Instance(p) \/ Parent(p) \/ Group(p)
    \/ SendSignal(p) \/ AccessProc(p)

PhSpec == PhInit /\ [][PhNext]_phVars

-----------------------------------------------------------------------------
(* Properties.                                                             *)

\* "Returns a Process instance corresponding to this process."
\* (this_process.h:100): what a process does through the handle that instance()
\* has returned to it concerns that process and no other.
InstanceIsThisProcess ==
  used.by # 0 /\ used.through.own = used.by => used.reached = {used.by}
=============================================================================
