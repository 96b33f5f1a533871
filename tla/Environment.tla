---------------------------- MODULE Environment ----------------------------
(***************************************************************************)
(* core::posix::this_process::env (src/src/core/posix/this_process.cpp):   *)
(* calls of several threads on ::environ, under env_guard().  The C        *)
(* library's setenv(), unsetenv() and getenv() search the lines first and  *)
(* act on what they found in a second step; for_each() hands one line      *)
(* after the other to the caller's functor.                                *)
(***************************************************************************)
EXTENDS Integers, SequencesExt

CONSTANTS
  Caller,
  Key,
  Value,
  Absent,     \* getenv() returned nullptr
  MaxInherit  \* bound: the lines the process was started with

ASSUME MaxInherit \in Nat

VARIABLES
  environ,  \* the lines, in order; execve() may have passed a key twice
  guard,    \* the threads that hold env_guard()
  epc,      \* where each thread is in its call
  op,       \* the call of each thread
  at,       \* the index of a line in environ
  seen,     \* the lines for_each() has passed to the functor
  out       \* the result of the call

evVars == <<environ, guard, epc, op, at, seen, out>>

None == [kind |-> "none"]
Op == [kind : {"set"}, key : Key, value : Value]
        \cup [kind : {"get", "unset"}, key : Key]
        \cup {[kind |-> "for_each"]}
Line == [key : Key, value : Value]

\* The value that the first line for each key gives it.
Meaning(lines) ==
  [k \in Key |->
     LET found == {i \in 1..Len(lines) : lines[i].key = k}
     IN  IF found = {} THEN Absent ELSE lines[Min(found)].value]

EvTypeOK ==
  /\ environ \in Seq(Line)
  /\ guard \subseteq Caller
  /\ epc \in [Caller -> {"idle", "lock", "search", "act", "visit", "stuck", "done"}]
  /\ op \in [Caller -> Op \cup {None}]
  /\ at \in [Caller -> Nat \ {0}]
  /\ seen \in [Caller -> Seq(Line)]
  /\ out \in [Caller -> {None} \cup [ok : BOOLEAN] \cup [got : Value \cup {Absent}]
                          \cup [all : [Key -> Value \cup {Absent}]]]

EvInit ==
  /\ environ \in UNION {[1..n -> Line] : n \in 0..MaxInherit}
  /\ guard = {}
  /\ epc = [t \in Caller |-> "idle"]
  /\ op = [t \in Caller |-> None]
  /\ at = [t \in Caller |-> 1]
  /\ seen = [t \in Caller |-> <<>>]
  /\ out = [t \in Caller |-> None]

EvGoto(t, from, to) == epc[t] = from /\ epc' = [epc EXCEPT ![t] = to]

-----------------------------------------------------------------------------
Call(t) ==
  /\ EvGoto(t, "idle", "lock")
  /\ \E o \in Op : op' = [op EXCEPT ![t] = o]
  /\ UNCHANGED <<environ, guard, at, seen, out>>

AfterLock(o) == IF o.kind = "for_each" THEN "visit" ELSE "search"

\* Mutation of Lock: for_each() would not take the guard.
LockButForEach(t) ==
  /\ EvGoto(t, "lock", AfterLock(op[t]))
  /\ guard = {} \/ op[t].kind = "for_each"
  /\ guard' = IF op[t].kind = "for_each" THEN guard ELSE {t}
  /\ UNCHANGED <<environ, op, at, seen, out>>

\* std::lock_guard, on the one mutex that env_guard() returns.
Lock(t) ==
  /\ EvGoto(t, "lock", AfterLock(op[t]))
  /\ guard = {}
  /\ guard' = {t}
  /\ UNCHANGED <<environ, op, at, seen, out>>

\* The C library looks for the key.
Search(t) ==
  LET found == {i \in 1..Len(environ) : environ[i].key = op[t].key}
  IN  /\ EvGoto(t, "search", "act")
      /\ at' = [at EXCEPT ![t] = Min(found \cup {Len(environ) + 1})]
      /\ UNCHANGED <<environ, guard, op, seen, out>>

Missing(t) == at[t] > Len(environ)

Finish(t, result) ==
  /\ out' = [out EXCEPT ![t] = result]
  /\ UNCHANGED <<guard, op, at, seen>>

\* get() and get_or_throw()
Get(t) ==
  /\ EvGoto(t, "act", "done")
  /\ op[t].kind = "get"
  /\ Finish(t, [got |-> IF Missing(t) THEN Absent ELSE environ[at[t]].value])
  /\ UNCHANGED environ

\* set() and set_or_throw(): overwrite is 0, a key that is there stays.
Set(t) ==
  /\ EvGoto(t, "act", "done")
  /\ op[t].kind = "set"
  /\ environ' = IF Missing(t)
                THEN Append(environ, [key |-> op[t].key, value |-> op[t].value])
                ELSE environ
  /\ Finish(t, [ok |-> TRUE])

\* unset() and unset_or_throw(): unsetenv() removes every line for the key.
Unset(t) ==
  /\ EvGoto(t, "act", "done")
  /\ op[t].kind = "unset"
  /\ environ' = SelectSeq(environ, LAMBDA l : l.key # op[t].key)
  /\ Finish(t, [ok |-> TRUE])

\* setenv() or unsetenv() fails: false and an error_code, or an exception.
Fails(t) ==
  /\ EvGoto(t, "act", "done")
  /\ op[t].kind \in {"set", "unset"}
  /\ Finish(t, [ok |-> FALSE])
  /\ UNCHANGED environ

\* for_each() calls the functor for the next line.
VisitLine(t) ==
  /\ epc[t] = "visit" /\ ~Missing(t)
  /\ seen' = [seen EXCEPT ![t] = Append(@, environ[at[t]])]
  /\ at' = [at EXCEPT ![t] = @ + 1]
  /\ UNCHANGED <<environ, guard, epc, op, out>>

\* The functor itself calls set(), unset(), get() or for_each(): the thread
\* locks the mutex that it holds, and waits for itself.
Reenter(t) ==
  /\ EvGoto(t, "visit", "stuck")
  /\ ~Missing(t)
  /\ UNCHANGED <<environ, guard, op, at, seen, out>>

VisitEnd(t) ==
  /\ EvGoto(t, "visit", "done")
  /\ Missing(t)
  /\ Finish(t, [all |-> Meaning(seen[t])])
  /\ UNCHANGED environ

\* Mutation of Return: an exception would not unlock the guard.
ReturnLocked(t) ==
  /\ EvGoto(t, "done", "idle")
  /\ guard' = IF out[t] = [ok |-> FALSE] THEN guard ELSE guard \ {t}
  /\ op' = [op EXCEPT ![t] = None]
  /\ at' = [at EXCEPT ![t] = 1]
  /\ seen' = [seen EXCEPT ![t] = <<>>]
  /\ out' = [out EXCEPT ![t] = None]
  /\ UNCHANGED environ

\* The call returns or throws, and its lock_guard is destroyed.
Return(t) ==
  /\ EvGoto(t, "done", "idle")
  /\ guard' = guard \ {t}
  /\ op' = [op EXCEPT ![t] = None]
  /\ at' = [at EXCEPT ![t] = 1]
  /\ seen' = [seen EXCEPT ![t] = <<>>]
  /\ out' = [out EXCEPT ![t] = None]
  /\ UNCHANGED environ

\* The steps a thread takes in a call.
Proceed(t) ==
  \/ Lock(t) \/ Search(t) \/ Get(t) \/ Set(t) \/ Unset(t) \/ Fails(t)
  \/ VisitLine(t) \/ VisitEnd(t) \/ Return(t)

EvNext == \E t \in Caller : Call(t) \/ Reenter(t) \/ Proceed(t)

EvSpec == EvInit /\ [][EvNext]_evVars

\* A thread in a call is scheduled and the functor returns; nothing is assumed
\* of who gets the mutex next, nor that anybody calls at all.
EvFairSpec == EvSpec /\ \A t \in Caller : WF_evVars(Proceed(t))

-----------------------------------------------------------------------------
(* Properties.                                                             *)

Phase(t) ==
  CASE epc[t] = "idle" -> "idle"
    [] epc[t] = "done" -> "done"
    [] OTHER -> "called"

AsCoded ==
  INSTANCE AtomicEnv WITH
    env <- Meaning(environ), phase <- [t \in Caller |-> Phase(t)], Overwrite <- FALSE

AsDocumented ==
  INSTANCE AtomicEnv WITH
    env <- Meaning(environ), phase <- [t \in Caller |-> Phase(t)], Overwrite <- TRUE

\* env_guard() (this_process.cpp): every call of set(), unset(), get() and
\* for_each() takes effect at one instant, whatever other threads do: none sees
\* a half-done change, and for_each() reports one state of the environment.  The
\* effect of set() is the one of setenv() with overwrite = 0, as in the code;
\* what the header says of it is SetsAsDocumented.
Linearizable == AsCoded!Spec

\* "set will adjust the contents of the variable identified by key to the
\* provided value." (this_process.h:88, and :80 of set_or_throw()): one that reports
\* success has given the variable the value.
SetsAsDocumented == AsDocumented!Spec

\* Whoever holds env_guard() gives it back, on every path out of every call,
\* thrown exceptions included, so that no other thread waits for ever; the one
\* exception is a functor of for_each() that calls back into env.
GuardReleased == guard # {} ~> (guard = {} \/ \E t \in Caller : epc[t] = "stuck")
=============================================================================
