-------------------------------- MODULE Exec --------------------------------
(***************************************************************************)
(* core::posix::exec() (src/src/core/posix/exec.cpp) for a caller who      *)
(* passes on its own environment: the lines of ::environ are split by      *)
(* for_each() (src/src/core/posix/this_process.cpp), collected in a        *)
(* std::map and joined again in the child, which calls execve() with the   *)
(* two arrays that it has filled.                                          *)
(***************************************************************************)
EXTENDS CxxString, WaitStatus, Functions

CONSTANTS
  MaxLines,  \* bound: the lines of the caller's environment
  MaxLine,   \* bound: the length of a line
  MaxArgs    \* bound: the arguments

ASSUME MaxLines \in Nat /\ MaxLine \in Nat /\ MaxArgs \in Nat

VARIABLES
  inherited,  \* ::environ, the lines of the caller's environment
  argc,       \* the number of arguments
  env,        \* the map: the pairs [key, value] inserted so far
  pargv,      \* the array pargv, from index 0
  penv,       \* the array penv, from index 0
  it,         \* the index at which the array is written next
  exPc,       \* where the caller, and then its child, is
  ended       \* how the child ended, if execve() did not succeed

exVars == <<inherited, argc, env, pargv, penv, it, exPc, ended>>

EnvLine == Words({"k", "="}, 1..MaxLine)
Unwritten == <<"?">>  \* memory from new[] that was not written yet
Null == <<"0">>   \* the null pointer
Arg(i) == <<"a", i>>
Array(size) == [i \in 0..size - 1 |-> Unwritten]
NoArray == <<>>

ExInit(environs) ==
  /\ inherited \in environs
  /\ argc \in 0..MaxArgs
  /\ env = <<>>
  /\ pargv = NoArray /\ penv = NoArray
  /\ it = 1
  /\ exPc = "for_each"
  /\ ended = Undefined

-----------------------------------------------------------------------------
(* The caller.                                                             *)

\* Mutation of Split: the line would be split at its last "=".
SplitLast(line) ==
  LET eq == FindLast(line, "=")
  IN  [key |-> Substr(line, 0, eq), value |-> Substr(line, Plus(eq, 1), NPos)]

\* What for_each() makes of a line; without a "=", npos + 1 is 0.
Split(line) ==
  LET eq == FindFirst(line, "=")
  IN  [key |-> Substr(line, 0, eq), value |-> Substr(line, Plus(eq, 1), NPos)]

\* The functor inserts the pair; std::map::insert keeps the first for a key.
Collect ==
  LET pair == Split(inherited[it])
  IN  /\ exPc = "for_each" /\ it <= Len(inherited)
      /\ env' = IF \E i \in 1..Len(env) : env[i].key = pair.key THEN env
                ELSE Append(env, pair)
      /\ it' = it + 1
      /\ UNCHANGED <<inherited, argc, pargv, penv, exPc, ended>>

\* The call of exec(), and of fork() with its lambda, in the child.
Fork ==
  /\ exPc = "for_each" /\ it > Len(inherited)
  /\ exPc' = "argv"
  /\ pargv' = [Array(argc + 2) EXCEPT ![0] = Arg(0)]
  /\ it' = 1
  /\ UNCHANGED <<inherited, argc, env, penv, ended>>

-----------------------------------------------------------------------------
(* The child.                                                              *)

CopyArg ==
  /\ exPc = "argv" /\ it <= argc
  /\ pargv' = [pargv EXCEPT ![it] = Arg(it)]
  /\ it' = it + 1
  /\ UNCHANGED <<inherited, argc, env, penv, exPc, ended>>

\* Mutation of EndArgs: the null pointer would be left out of the new array.
EndArgsShort ==
  /\ exPc = "argv" /\ it > argc
  /\ pargv' = [pargv EXCEPT ![it] = Null]
  /\ exPc' = "env"
  /\ penv' = Array(Len(env))
  /\ it' = 0
  /\ UNCHANGED <<inherited, argc, env, ended>>

EndArgs ==
  /\ exPc = "argv" /\ it > argc
  /\ pargv' = [pargv EXCEPT ![it] = Null]
  /\ exPc' = "env"
  /\ penv' = Array(Len(env) + 1)
  /\ it' = 0
  /\ UNCHANGED <<inherited, argc, env, ended>>

\* The order of the pairs in the map is of no consequence here.
CopyPair ==
  /\ exPc = "env" /\ it < Len(env)
  /\ penv' = [penv EXCEPT ![it] = env[it + 1].key \o <<"=">> \o env[it + 1].value]
  /\ it' = it + 1
  /\ UNCHANGED <<inherited, argc, env, pargv, exPc, ended>>

EndEnv ==
  /\ exPc = "env" /\ it = Len(env)
  /\ penv' = [penv EXCEPT ![it] = Null]
  /\ exPc' = "setup"
  /\ UNCHANGED <<inherited, argc, env, pargv, it, ended>>

\* child_setup() throws and fork() turns that into a failure, or it returns.
Setup ==
  /\ exPc = "setup"
  /\ \/ exPc' = "execve" /\ UNCHANGED ended
     \/ exPc' = "exited" /\ ended' = ExitWith(Failure)
  /\ UNCHANGED <<inherited, argc, env, pargv, penv, it>>

ExecveSucceeds ==
  /\ exPc = "execve"
  /\ exPc' = "replaced"
  /\ UNCHANGED <<inherited, argc, env, pargv, penv, it, ended>>

\* execve() returns -1, which the lambda returns as its exit::Status: exec() does
\* not throw, whatever exec.h:38 says, and the failure is seen by who waits for
\* the child.
ExecveFails ==
  /\ exPc = "execve"
  /\ exPc' = "exited"
  /\ ended' = ExitWith(-1)
  /\ UNCHANGED <<inherited, argc, env, pargv, penv, it>>

ExNext == \/ Collect \/ Fork \/ CopyArg \/ EndArgs \/ CopyPair \/ EndEnv \/ Setup
          \/ ExecveSucceeds \/ ExecveFails

-----------------------------------------------------------------------------
(* Properties.                                                             *)

\* getenv(): the text after the first line that starts with the key and "=".
Getenv(lines, key) ==
  LET prefix == key \o <<"=">>
      found == {i \in 1..Len(lines) : IsPrefix(prefix, lines[i])}
  IN  IF found = {} THEN Null
      ELSE SubSeq(lines[Min(found)], Len(prefix) + 1, Len(lines[Min(found)]))

\* Every element was written, and exactly the last one is the null pointer.
Filled(array) ==
  /\ DOMAIN array = 0..Cardinality(DOMAIN array) - 1
  /\ \A i \in DOMAIN array :
       array[i] # Unwritten /\ (array[i] = Null <=> i = Cardinality(DOMAIN array) - 1)

\* execve() is only called with arrays of which every element was written and
\* exactly the last one is the null pointer, whatever was passed to exec().
ArraysFilled ==
  exPc \in {"setup", "execve", "replaced"} => Filled(pargv) /\ Filled(penv)

\* The functor passed to for_each(), and a program started with what it collects
\* (posix_process_test.cpp:275), find for every variable the value that
\* getenv() finds in this process, also when a value contains a "=" or a key
\* occurs twice; a line without a "=" changes only the variable of that name.
EnvironmentPassedOn ==
  \A key \in Words({"k"}, 1..MaxLine) \ ToSet(inherited) :
    LET collected == {env[i].value : i \in {j \in 1..Len(env) : env[j].key = key}}
        value == Getenv(inherited, key)
        lines == [i \in 1..Cardinality(DOMAIN penv) - 1 |-> penv[i - 1]]
    IN  /\ exPc # "for_each" => collected = {value} \ {Null}
        /\ exPc = "replaced" => Getenv(lines, key) = value
=============================================================================
