-------------------------- MODULE CrossProcessSync --------------------------
(***************************************************************************)
(* core::testing::CrossProcessSync                                         *)
(* (src/src/core/testing/cross_process_sync.cpp): a pipe whose descriptors *)
(* every process that has a copy of the object shares, and a counter that  *)
(* each copy has for itself.  An operation polls first, with a timeout,    *)
(* and then reads or writes without one.                                   *)
(***************************************************************************)
EXTENDS Integers

CONSTANTS
  User,  \* the processes that have a copy
  Cap    \* bound: the signals the pipe holds before poll() denies POLLOUT

VARIABLES
  tokens,  \* the signals in the pipe
  at,      \* where each user is in an operation
  counter  \* counter of each user's copy

SyncTypeOK ==
  /\ tokens \in 0..Cap
  /\ at \in [User -> {"idle", "write", "read"}]
  /\ counter \in [User -> Nat]

SyncInit ==
  /\ tokens = 0
  /\ at = [u \in User |-> "idle"]
  /\ counter = [u \in User |-> 0]

-----------------------------------------------------------------------------
(* try_signal_ready_for()                                                  *)

PollOut(u) ==
  /\ at[u] = "idle" /\ tokens < Cap
  /\ at' = [at EXCEPT ![u] = "write"]
  /\ UNCHANGED <<tokens, counter>>

\* The time is up and the pipe is full: Error::Timeout.
SignalTimeout(u) ==
  /\ at[u] = "idle" /\ tokens = Cap
  /\ UNCHANGED <<tokens, at, counter>>

\* write() blocks while the pipe is full.
Write(u) ==
  /\ at[u] = "write" /\ tokens < Cap
  /\ tokens' = tokens + 1
  /\ at' = [at EXCEPT ![u] = "idle"]
  /\ UNCHANGED counter

-----------------------------------------------------------------------------
(* wait_for_signal_ready_for()                                             *)

PollIn(u) ==
  /\ at[u] = "idle" /\ tokens > 0
  /\ at' = [at EXCEPT ![u] = "read"]
  /\ UNCHANGED <<tokens, counter>>

WaitTimeout(u) ==
  /\ at[u] = "idle" /\ tokens = 0
  /\ UNCHANGED <<tokens, at, counter>>

\* Mutation of Read: the counter would be set, not increased.
ReadSets(u) ==
  /\ at[u] = "read" /\ tokens > 0
  /\ tokens' = tokens - 1
  /\ counter' = [counter EXCEPT ![u] = 1]
  /\ at' = [at EXCEPT ![u] = "idle"]

\* read() blocks while the pipe is empty; the value is always 1.
Read(u) ==
  /\ at[u] = "read" /\ tokens > 0
  /\ tokens' = tokens - 1
  /\ counter' = [counter EXCEPT ![u] = @ + 1]
  /\ at' = [at EXCEPT ![u] = "idle"]

-----------------------------------------------------------------------------
(* The object by itself: every user may signal and wait.                   *)

SyncNext ==
  \E u \in User :
    \/ PollOut(u) \/ SignalTimeout(u) \/ Write(u)
    \/ PollIn(u) \/ WaitTimeout(u) \/ Read(u)

SyncSpec == SyncInit /\ [][SyncNext]_<<tokens, at, counter>>

\* "Wait for the other sides to signal readiness for at most duration
\* milliseconds." (cross_process_sync.h:86): the timeout covers the poll() only,
\* so what it found must still be true when the read() comes to it.
WaitIsTimed == \A u \in User : at[u] = "read" => tokens > 0
=============================================================================
