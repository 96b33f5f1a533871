----------------------------- MODULE AtomicEnv -----------------------------
(***************************************************************************)
(* What a caller of core::posix::this_process::env can rely on: a map from *)
(* names to values on which every call takes effect at one instant between *)
(* its invocation and its return.                                          *)
(***************************************************************************)
EXTENDS Naturals

CONSTANTS
  Caller, Key, Value, Absent,
  Overwrite  \* does set() replace the value of a key that is there?

VARIABLES
  env,    \* the value of each key, or Absent
  phase,  \* idle, called or done, for each thread
  op,     \* the call of each thread
  out     \* what the call of each thread returns

vars == <<env, phase, op, out>>

None == [kind |-> "none"]
Op == [kind : {"set"}, key : Key, value : Value]
        \cup [kind : {"get", "unset"}, key : Key]
        \cup {[kind |-> "for_each"]}

Init ==
  /\ env \in [Key -> Value \cup {Absent}]
  /\ phase = [t \in Caller |-> "idle"]
  /\ op = [t \in Caller |-> None]
  /\ out = [t \in Caller |-> None]

Invoke(t) ==
  /\ phase[t] = "idle"
  /\ phase' = [phase EXCEPT ![t] = "called"]
  /\ \E o \in Op : op' = [op EXCEPT ![t] = o]
  /\ UNCHANGED <<env, out>>

\* The effect and the result of call o; a set or an unset may fail and do
\* nothing.
Effect(o, env2, result) ==
  \/ o.kind = "get" /\ env2 = env /\ result = [got |-> env[o.key]]
  \/ o.kind = "for_each" /\ env2 = env /\ result = [all |-> env]
  \/ /\ o.kind = "set" /\ result = [ok |-> TRUE]
     /\ env2 = IF Overwrite \/ env[o.key] = Absent
               THEN [env EXCEPT ![o.key] = o.value] ELSE env
  \/ /\ o.kind = "unset" /\ result = [ok |-> TRUE]
     /\ env2 = [env EXCEPT ![o.key] = Absent]
  \/ o.kind \in {"set", "unset"} /\ env2 = env /\ result = [ok |-> FALSE]

Do(t) ==
  /\ phase[t] = "called"
  /\ phase' = [phase EXCEPT ![t] = "done"]
  /\ \E result \in [ok : BOOLEAN] \cup [got : Value \cup {Absent}] \cup {[all |-> env]} :
       /\ Effect(op[t], env', result)
       /\ out' = [out EXCEPT ![t] = result]
  /\ UNCHANGED op

Return(t) ==
  /\ phase[t] = "done"
  /\ phase' = [phase EXCEPT ![t] = "idle"]
  /\ op' = [op EXCEPT ![t] = None]
  /\ out' = [out EXCEPT ![t] = None]
  /\ UNCHANGED env

Next == \E t \in Caller : Invoke(t) \/ Do(t) \/ Return(t)

Spec == Init /\ [][Next]_vars
=============================================================================
