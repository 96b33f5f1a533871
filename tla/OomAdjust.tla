----------------------------- MODULE OomAdjust -----------------------------
(***************************************************************************)
(* OomAdj, OomScoreAdj and OomScore                                        *)
(* (src/src/core/posix/linux/proc/process/oom_*.cpp): an object with which *)
(* a program reads and writes the file of a process, which may end at any  *)
(* time, while others adjust it, too, through either file.                 *)
(***************************************************************************)
EXTENDS Integers

CONSTANT Assigned  \* bound: the values chosen for each adjustment

Adjustment == {"OomAdj", "OomScoreAdj"}

ASSUME Assigned \in [Adjustment -> SUBSET Int]

VARIABLES
  kind,     \* the class of the object
  value,    \* its member value
  score,    \* kernel: the adjustment of the process
  exists,   \* kernel: the process is there
  fetched,  \* history: value is what a read stored
  effect    \* history: the value written last, if that took effect and nobody
            \*          else has adjusted the process since

omVars == <<kind, value, score, exists, fetched, effect>>

Object == Adjustment \cup {"OomScore"}

\* The constants of <linux/oom.h> behind disable_value(), min_value() and
\* max_value().
DisableValue == -17
MinValue(o) == IF o = "OomAdj" THEN -16 ELSE -1000
MaxValue(o) == IF o = "OomAdj" THEN 15 ELSE 1000


\* is_valid() of the two adjustments; that of OomAdj takes in disable_value(),
\* against its comment "true iff min_value() <= value <= max_value()."
\* (oom_adj.h:72).
IsValid(o, v) ==
  /\ (IF o = "OomAdj" THEN DisableValue ELSE MinValue(o)) <= v
  /\ v <= MaxValue(o)

\* Mutation of PathRead: the copy of the operator for OomAdj.
PathReadCopied(o) == IF o = "OomScore" THEN "oom_score" ELSE "oom_adj"

\* The file that operator>> opens.
PathRead(o) ==
  CASE o = "OomAdj" -> "oom_adj"
    [] o = "OomScoreAdj" -> "oom_score_adj"
    [] o = "OomScore" -> "oom_score"

\* The file that operator<< opens.
PathWrite(o) == IF o = "OomAdj" THEN "oom_adj" ELSE "oom_score_adj"

-----------------------------------------------------------------------------
(* The kernel: oom_adj is oom_score_adj on another scale, with a special   *)
(* case for the upper end; C divides towards zero.                         *)

Div(a, b) == IF a < 0 THEN -((-a) \div b) ELSE a \div b

Shown(file) ==
  CASE file = "oom_score_adj" -> score
    [] file = "oom_adj" -> IF score * 17 > 15 * 1000 THEN 15 ELSE Div(score * 17, 1000)
    [] file = "oom_score" -> IF score < 0 THEN 0 ELSE score  \* a process of no size

Accepts(file, v) ==
  IF file = "oom_adj" THEN v \in -17..15 ELSE v \in -1000..1000

Scaled(file, v) ==
  CASE file = "oom_score_adj" -> v
    [] file = "oom_adj" -> IF v = 15 THEN 1000 ELSE Div(v * 1000, 17)

-----------------------------------------------------------------------------
\* The value of an OomAdj and of an OomScoreAdj is not initialized.
OmInit ==
  /\ kind \in Object
  /\ value \in IF kind = "OomScore" THEN {0} ELSE Assigned[kind]
  /\ score = 0
  /\ exists = TRUE
  /\ fetched = FALSE
  /\ effect = {}

\* The program assigns to the value.
Assign(v) ==
  /\ value' = v
  /\ fetched' = FALSE
  /\ UNCHANGED <<kind, score, exists, effect>>

\* operator>>: without a file, the value stays what it was; the std::runtime_error
\* of the headers is never thrown.
Read ==
  /\ IF exists THEN value' = Shown(PathRead(kind)) /\ fetched' = TRUE
               ELSE UNCHANGED <<value, fetched>>
  /\ UNCHANGED <<kind, score, exists, effect>>

\* operator<<, for a valid value: it may be refused, which nobody is told of,
\* either.
Write ==
  /\ IsValid(kind, value)
  /\ \/ /\ exists /\ Accepts(PathWrite(kind), value)
        /\ score' = Scaled(PathWrite(kind), value)
        /\ effect' = {value}
     \/ UNCHANGED <<score, effect>>
  /\ UNCHANGED <<kind, value, exists, fetched>>

\* Somebody else adjusts the process.
Other(file, v) ==
  /\ exists /\ Accepts(file, v)
  /\ score' = Scaled(file, v)
  /\ effect' = {}
  /\ UNCHANGED <<kind, value, exists, fetched>>

Vanish ==
  /\ exists
  /\ exists' = FALSE
  /\ UNCHANGED <<kind, value, score, fetched, effect>>

OmNext ==
  \/ kind \in Adjustment /\ (Write \/ \E v \in Assigned[kind] : Assign(v))
  \/ Read
  \/ \E o \in Adjustment : \E v \in Assigned[o] : Other(PathWrite(o), v)
  \/ Vanish

-----------------------------------------------------------------------------
(* Properties.                                                             *)

Abs(v) == IF v < 0 THEN -v ELSE v

\* "EXPECT_EQ(...max_value(), oom_adj.value)" (linux_process_test.cpp:122): a read
\* after a write of an object that took effect finds the value that was written,
\* for OomScoreAdj always, for OomAdj if it is disable_value() or max_value() and
\* else at most one less in size: the two scales do not convert back and forth,
\* min_value() itself is read back as -15.
ReadsBack ==
  \A wrote \in effect :
    LET read == Shown(PathRead(kind))
    IN  IF kind = "OomScoreAdj" \/ wrote \in {DisableValue, MaxValue(kind)}
        THEN read = wrote
        ELSE Abs(read) \in {Abs(wrote) - 1, Abs(wrote)} /\ read * wrote >= 0

=============================================================================
