----------------------------- MODULE WaitStatus -----------------------------
(***************************************************************************)
(* How the end of a child reaches its parent: main() returns a status that *)
(* fork() passes to ::exit(), the kernel packs the event into the word     *)
(* that waitpid() fills in, ChildProcess::wait_for()                       *)
(* (src/src/core/posix/child_process.cpp) unpacks it.                      *)
(***************************************************************************)
EXTENDS Integers

Success == 0   \* exit::Status::success
Failure == 1   \* exit::Status::failure
SigKill == 9
SigTerm == 15
SigStop == 19

\* wait::Result: the status and the detail that goes with it.
Exited(code) == [status |-> "exited", detail |-> code, core_dumped |-> FALSE]
Signaled(sig, core) == [status |-> "signaled", detail |-> sig, core_dumped |-> core]
Stopped(sig) == [status |-> "stopped", detail |-> sig, core_dumped |-> FALSE]
Continued == [status |-> "continued", detail |-> 0, core_dumped |-> FALSE]
Undefined == [status |-> "undefined", detail |-> 0, core_dumped |-> FALSE]

ExitCode == 0..255
SignalNo == 1..64

Event == {Exited(c) : c \in ExitCode}
           \cup {Signaled(s, core) : s \in SignalNo, core \in BOOLEAN}
           \cup {Stopped(s) : s \in SignalNo} \cup {Continued}

\* ::exit() keeps the low byte of its argument.
ExitWith(status) == Exited(status % 256)

\* The word waitpid() stores for an event.
Word(e) ==
  CASE e.status = "exited" -> e.detail * 256
    [] e.status = "signaled" -> e.detail + (IF e.core_dumped THEN 128 ELSE 0)
    [] e.status = "stopped" -> e.detail * 256 + 127
    [] e.status = "continued" -> 65535

\* WIFEXITED, WIFSIGNALED, WIFSTOPPED and WIFCONTINUED, in the order and with
\* the accessors of wait_for().  That there is no change of state to report, its
\* remaining result, needs the flag no_hang, which nobody in the library sets.
Decode(word) ==
  CASE word % 128 = 0 -> Exited((word \div 256) % 256)
    [] word % 128 # 0 /\ word % 128 < 127 ->
         Signaled(word % 128, (word \div 128) % 2 = 1)
    [] word % 256 = 127 -> Stopped((word \div 256) % 256)
    [] word = 65535 -> Continued
    [] OTHER -> Undefined
=============================================================================
