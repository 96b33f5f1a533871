----------------------------- MODULE ForkAndRun -----------------------------
(***************************************************************************)
(* core::testing::fork_and_run() (src/src/core/testing/fork_and_run.cpp):  *)
(* the parent forks a service and a client, waits for the client, signals  *)
(* the service with SIGTERM, waits for it and reports who failed.  What    *)
(* the two do until they exit is left to the module that uses this one.    *)
(***************************************************************************)
EXTENDS WaitStatus

CONSTANTS
  Catches,  \* does the service survive SIGTERM (it has a handler for it)?
  Faults    \* may children be killed or stopped, and system calls fail?

Child == {"service", "client"}
Alive == {"running", "stopped", "reported"}

VARIABLES
  parent,  \* where fork_and_run() is
  proc,    \* what the kernel knows of each child
  end,     \* how each child ended
  term,    \* SIGTERM is pending for the service
  halted,  \* the children that were stopped; bound: one stop per child
  result   \* the bits of the ForkAndRunResult: the children that failed

runVars == <<parent, proc, end, term, halted, result>>

RunTypeOK ==
  /\ parent \in {"fork_service", "fork_client", "wait_client", "sigterm",
                 "wait_service", "returned", "thrown"}
  /\ proc \in [Child -> {"none", "zombie", "reaped"} \cup Alive]
  /\ end \in [Child -> Event \cup {Undefined}]
  /\ term \in BOOLEAN
  /\ halted \subseteq Child
  /\ result \subseteq Child

RunInit ==
  /\ parent = "fork_service"
  /\ proc = [c \in Child |-> "none"]
  /\ end = [c \in Child |-> Undefined]
  /\ term = FALSE
  /\ halted = {}
  /\ result = {}

-----------------------------------------------------------------------------
(* The children.                                                           *)

\* main() returned or threw: fork() ends the child with ::exit(status).
Exit(c, status) ==
  /\ proc[c] = "running"
  /\ proc' = [proc EXCEPT ![c] = "zombie"]
  /\ end' = [end EXCEPT ![c] = ExitWith(status)]
  /\ UNCHANGED <<parent, term, halted, result>>

\* The child crashes or somebody kills it.
Crash(c) ==
  /\ Faults
  /\ proc[c] \in Alive
  /\ \E core \in BOOLEAN : end' = [end EXCEPT ![c] = Signaled(SigKill, core)]
  /\ proc' = [proc EXCEPT ![c] = "zombie"]
  /\ UNCHANGED <<parent, term, halted, result>>

Halt(c) ==
  /\ Faults
  /\ proc[c] = "running" /\ c \notin halted
  /\ proc' = [proc EXCEPT ![c] = "stopped"]
  /\ halted' = halted \cup {c}
  /\ UNCHANGED <<parent, end, term, result>>

Resume(c) ==
  /\ proc[c] \in {"stopped", "reported"}
  /\ proc' = [proc EXCEPT ![c] = "running"]
  /\ UNCHANGED <<parent, end, term, halted, result>>

\* A running service takes the pending SIGTERM.
DeliverTerm ==
  /\ term /\ proc["service"] = "running"
  /\ term' = FALSE
  /\ IF Catches THEN UNCHANGED <<proc, end>>
     ELSE /\ proc' = [proc EXCEPT !["service"] = "zombie"]
          /\ end' = [end EXCEPT !["service"] = Signaled(SigTerm, FALSE)]
  /\ UNCHANGED <<parent, halted, result>>

-----------------------------------------------------------------------------
(* The parent.                                                             *)

\* Mutation of Killed: ~Private would only let go of the child.
KilledNothing(p) == p

\* What the two ~Private make of the children p: they send SIGKILL and do not
\* wait.
Killed(p) == [c \in Child |-> IF p[c] \in Alive THEN "zombie" ELSE p[c]]

\* fork_and_run() is left, with the children p, and its destructors run.
Leave(how, p) ==
  /\ parent' = how
  /\ proc' = Killed(p)
  /\ end' = [c \in Child |-> IF Killed(p)[c] # p[c] THEN Signaled(SigKill, FALSE)
                             ELSE end[c]]

ForkChild(c, at, next) ==
  /\ parent = at
  /\ parent' = next
  /\ proc' = [proc EXCEPT ![c] = "running"]
  /\ UNCHANGED <<end, term, halted, result>>

ForkService == ForkChild("service", "fork_service", "fork_client")
ForkClient == ForkChild("client", "fork_client", "wait_client")

\* fork(), waitpid() or kill() fails: the exception leaves fork_and_run().
Fail ==
  /\ Faults
  /\ parent \in {"fork_service", "fork_client", "wait_client", "sigterm",
                "wait_service"}
  /\ Leave("thrown", proc)
  /\ UNCHANGED <<term, halted, result>>

\* Mutation of Failed: the default branch of the switch would be missing.
FailedIfExited(r) == r.status = "exited" /\ r.detail = Failure

\* The switch over the wait::Result.
Failed(r) == IF r.status = "exited" THEN r.detail = Failure ELSE TRUE

\* Mutation of Waitable: the flag untraced would be missing.
WaitableTraced(c) == proc[c] = "zombie"

\* wait_for(untraced) blocks until the child ended or stopped.
Waitable(c) == proc[c] \in {"zombie", "stopped"}

\* The wait::Result for a child that is waitable.
WaitResult(c) ==
  Decode(Word(IF proc[c] = "zombie" THEN end[c] ELSE Stopped(SigStop)))

AfterWait(c) == IF proc[c] = "zombie" THEN "reaped" ELSE "reported"

Judge(c) == result' = IF Failed(WaitResult(c)) THEN result \cup {c} ELSE result

WaitClient ==
  /\ parent = "wait_client" /\ Waitable("client")
  /\ parent' = "sigterm"
  /\ Judge("client")
  /\ proc' = [proc EXCEPT !["client"] = AfterWait("client")]
  /\ UNCHANGED <<end, term, halted>>

\* send_signal_or_throw(sig_term): it succeeds even for a zombie.
SendTerm ==
  /\ parent = "sigterm"
  /\ parent' = "wait_service"
  /\ term' = (proc["service"] # "zombie")
  /\ UNCHANGED <<proc, end, halted, result>>

\* The last wait, the return and the destructors.
WaitService ==
  /\ parent = "wait_service" /\ Waitable("service")
  /\ Judge("service")
  /\ Leave("returned", [proc EXCEPT !["service"] = AfterWait("service")])
  /\ UNCHANGED <<term, halted>>

Parent == ForkService \/ ForkClient \/ WaitClient \/ SendTerm \/ WaitService

Outside == Fail \/ \E c \in Child : Crash(c) \/ Halt(c) \/ Resume(c)

-----------------------------------------------------------------------------
(* Properties.                                                             *)

\* "@return ForkAndRunResult indicating if either of service or client failed."
\* (fork_and_run.h:56): a child that was waited for to its end is reported
\* exactly when it did not exit with success.
ResultIsAccurate ==
  parent = "returned" =>
    \A c \in Child : proc[c] = "reaped" => (c \in result <=> end[c] # Exited(Success))

\* The status word, its decoding and the two switches (fork_and_run.cpp:52-75)
\* report a child that was killed, that was stopped when it was waited for, or
\* that returned exit::Status::failure, and not one that returned success.  Of
\* other exit statuses this says nothing: the code takes them for a success.
EndsReported ==
  parent = "returned" =>
    \A c \in Child :
      /\ proc[c] # "reaped" \/ end[c].status # "exited" \/ end[c] = Exited(Failure)
           => c \in result
      /\ proc[c] = "reaped" /\ end[c] = Exited(Success) => c \notin result

\* "If so, we kill the original child." (child_process.cpp:299): whichever way fork_and_run() is
\* left, the ~Private of its two ChildProcess instances leave no child alive.
NoSurvivor ==
  parent \in {"returned", "thrown"} => \A c \in Child : proc[c] \notin Alive

\* fork_and_run() returns, however its children end or stop.
Returns == <>(parent \in {"returned", "thrown"})
=============================================================================
