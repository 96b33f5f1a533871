----------------------------- MODULE SyncedRun -----------------------------
(***************************************************************************)
(* fork_and_run() with a service and a client that share a                 *)
(* CrossProcessSync, as in src/tests/cross_process_sync_test.cpp: the      *)
(* service signals Rounds times, the client waits for as many signals and  *)
(* compares the counter with the round.                                    *)
(***************************************************************************)
EXTENDS ForkAndRun

CONSTANTS
  Rounds,      \* bound: signals sent and awaited (50 in the test)
  Cap,
  Timeouts,    \* may an operation run into its timeout?
  OtherStatus  \* what children may exit with besides success and failure

ASSUME ConstantsOK ==
  /\ Rounds \in Nat
  /\ Cap \in Nat \ {0}
  /\ {Catches, Faults, Timeouts} \subseteq BOOLEAN
  /\ OtherStatus \subseteq ExitCode

VARIABLES
  tokens, at, counter,  \* the CrossProcessSync
  round,                \* the rounds each child has finished
  ok,                   \* no expectation of the child has failed
  sent                  \* history: the signals the service has sent

INSTANCE CrossProcessSync WITH User <- Child

sync == <<tokens, at, counter>>
vars == <<runVars, sync, round, ok, sent>>

TypeOK ==
  /\ RunTypeOK
  /\ SyncTypeOK
  /\ round \in [Child -> 0..Rounds]
  /\ ok \in [Child -> BOOLEAN]
  /\ sent \in 0..Rounds

Init ==
  /\ RunInit
  /\ SyncInit
  /\ round = [c \in Child |-> 0]
  /\ ok = [c \in Child |-> TRUE]
  /\ sent = 0

\* Child c takes a step of its closure.
InMain(c) ==
  /\ proc[c] = "running"
  /\ round[c] < Rounds
  /\ UNCHANGED runVars

EndRound(c, good) ==
  /\ round' = [round EXCEPT ![c] = @ + 1]
  /\ ok' = [ok EXCEPT ![c] = @ /\ good]

Begin(c) ==
  /\ InMain(c)
  /\ IF c = "service" THEN PollOut(c) ELSE PollIn(c)
  /\ UNCHANGED <<round, ok, sent>>

ServiceSignals ==
  /\ InMain("service")
  /\ Write("service")
  /\ EndRound("service", TRUE)
  /\ sent' = sent + 1

ClientCounts ==
  /\ InMain("client")
  /\ Read("client")
  /\ EndRound("client", counter'["client"] = round'["client"])
  /\ UNCHANGED sent

TimesOut(c) ==
  /\ Timeouts
  /\ InMain(c)
  /\ IF c = "service" THEN SignalTimeout(c) ELSE WaitTimeout(c)
  /\ EndRound(c, FALSE)
  /\ UNCHANGED sent

\* The closure returns what HasFailure() makes of its expectations; code that
\* it runs may end the child with a status of its own, as the closure of exec()
\* does when execve() fails (exec.cpp:70).
Main(c) ==
  /\ \/ round[c] = Rounds /\ Exit(c, IF ok[c] THEN Success ELSE Failure)
     \/ \E status \in OtherStatus : Exit(c, status)
  /\ UNCHANGED <<sync, round, ok, sent>>

Step(c) ==
  \/ Begin(c) \/ TimesOut(c) \/ Main(c)
  \/ c = "service" /\ ServiceSignals
  \/ c = "client" /\ ClientCounts

\* The handler of SIGTERM interrupts a poll(), which throws for EINTR.
TermInterrupts ==
  /\ DeliverTerm
  /\ proc'["service"] = "running" /\ round["service"] < Rounds
  /\ at["service"] = "idle"
  /\ EndRound("service", FALSE)
  /\ UNCHANGED <<sync, sent>>

Run ==
  \/ (Parent \/ DeliverTerm) /\ UNCHANGED <<sync, round, ok, sent>>
  \/ TermInterrupts

Disturb ==
  /\ Outside
  /\ UNCHANGED <<sync, round, ok, sent>>

Next == Run \/ Disturb \/ \E c \in Child : Step(c)

Spec == Init /\ [][Next]_vars

\* The scheduler lets everyone run who can; a poll() ends by its timeout at
\* the latest; the kernel delivers SIGTERM to a running service.
FairSpec ==
  /\ Spec
  /\ WF_vars(Run)
  /\ \A c \in Child : WF_vars(Step(c))

-----------------------------------------------------------------------------
(* Properties.                                                             *)

\* "The number of ready signals that have been collected since creation."
\* (cross_process_sync.h:87): the client's counter and the signals still in
\* the pipe account for every signal the service has sent, also after
\* timeouts, crashes and stops.
SignalsCollected == counter["client"] + tokens = sent

\* "EXPECT_EQ(core::testing::ForkAndRunResult::empty,
\* core::testing::fork_and_run(service, client));"
\* (tests/cross_process_sync_test.cpp:52), for a service without a handler for
\* SIGTERM, as in the test.
TestPasses == parent = "returned" => result = {}
=============================================================================
