------------------------------ MODULE ProcStat ------------------------------
(***************************************************************************)
(* Reading /proc/<pid>/stat into a Stat                                    *)
(* (src/src/core/posix/linux/proc/process/stat.cpp): formatted extraction  *)
(* of one member after the other from a line of text.                      *)
(*                                                                         *)
(* A token of the line is [of, col, whole, form]: the process and the      *)
(* column it tells about, whether it is all of that column, and its form,  *)
(* "n" for a digit or a number, "c" for one other character, "w" for       *)
(* several, "nc" for a digit with another character behind it.  A member   *)
(* holds what it was taken from, [of, col, whole].                         *)
(***************************************************************************)
EXTENDS Integers, SequencesExt

CONSTANTS
  Proc,      \* the processes whose files are read
  MaxBlanks  \* bound: blanks in the name of an executable

ASSUME MaxBlanks \in Nat

VARIABLES
  stat,  \* the Stat object, used for one read after the other
  in,    \* the stream: the tokens that are left, and whether it is good
  next,  \* the index in Extracted of the member that is extracted next
  last,  \* history: the last read that found a file, its process and name
  lost   \* history: the reads since then found none

stVars == <<stat, in, next, last, lost>>

\* struct Stat (stat.h): the members as declared, which is the order of the
\* columns in proc(5).
Declared == <<
  "pid", "executable", "state", "parent", "process_group", "session_id",
  "tty_nr", "controlling_process_group", "kernel_flags", "minor_faults_count",
  "minor_faults_count_by_children", "major_faults_count",
  "major_faults_count_by_children", "time.user", "time.system",
  "time.user_for_children", "time.system_for_children", "priority", "nice",
  "thread_count", "time_before_next_sig_alarm", "start_time", "size.virt",
  "size.resident_set", "size.resident_set_limit", "addresses.start_code",
  "addresses.end_code", "addresses.start_stack", "addresses.stack_pointer",
  "addresses.instruction_pointer", "signals.pending", "signals.blocked",
  "signals.ignored", "signals.caught", "channel", "swap_count",
  "swap_count_children", "exit_signal", "cpu_count", "realtime_priority",
  "scheduling_policy", "aggregated_block_io_delays", "guest_time",
  "guest_time_children" >>

Member == ToSet(Declared)

\* Mutation of Extracted: the order of the page faults in getrusage().
ExtractedByKind == <<
  "pid", "executable", "state", "parent", "process_group", "session_id",
  "tty_nr", "controlling_process_group", "kernel_flags", "minor_faults_count",
  "major_faults_count", "minor_faults_count_by_children",
  "major_faults_count_by_children" >> \o SubSeq(Declared, 14, Len(Declared))

\* operator>>(std::istream&, Stat&): the members in the order of extraction.
Extracted == <<
  "pid", "executable", "state", "parent", "process_group", "session_id",
  "tty_nr", "controlling_process_group", "kernel_flags", "minor_faults_count",
  "minor_faults_count_by_children", "major_faults_count",
  "major_faults_count_by_children", "time.user", "time.system",
  "time.user_for_children", "time.system_for_children", "priority", "nice",
  "thread_count", "time_before_next_sig_alarm", "start_time", "size.virt",
  "size.resident_set", "size.resident_set_limit", "addresses.start_code",
  "addresses.end_code", "addresses.start_stack", "addresses.stack_pointer",
  "addresses.instruction_pointer", "signals.pending", "signals.blocked",
  "signals.ignored", "signals.caught", "channel", "swap_count",
  "swap_count_children", "exit_signal", "cpu_count", "realtime_priority",
  "scheduling_policy", "aggregated_block_io_delays", "guest_time",
  "guest_time_children" >>

\* What a member can hold besides: its initializer, the 0 that a failing
\* extraction of a number stores, the value of an uninitialized variable.
Default == [of |-> "default", col |-> 0, whole |-> FALSE]
Zero == [of |-> "zero", col |-> 0, whole |-> FALSE]
Indeterminate == [of |-> "indeterminate", col |-> 0, whole |-> FALSE]

-----------------------------------------------------------------------------
(* Formatted extraction: the value and what it leaves of the stream.       *)

From(t) == [of |-> t.of, col |-> t.col, whole |-> t.whole]
Taken == [in EXCEPT !.tokens = Tail(@)]
Rest == [in EXCEPT !.tokens[1].form = "c"]
Bad == [in EXCEPT !.ok = FALSE]

\* A number: the digits; without any, 0 is stored and the stream fails.
Number(t) ==
  CASE t.form = "n" -> [value |-> From(t), in |-> Taken]
    [] t.form = "nc" -> [value |-> From(t), in |-> Rest]
    [] OTHER -> [value |-> Zero, in |-> Bad]

\* A character: the first one of the token.
Character(t) ==
  [value |-> From(t), in |-> IF t.form \in {"n", "c"} THEN Taken ELSE Rest]

\* A string: what is before the next blank.
String(t) == [value |-> From(t), in |-> Taken]

\* A stream that has failed, or is at its end, stores nothing; but the state
\* is copied from a local variable, which then was never set.
Extraction(m) ==
  LET t == Head(in.tokens)
  IN  CASE ~in.ok \/ in.tokens = <<>> ->
             [value |-> IF m = "state" THEN Indeterminate ELSE stat[m], in |-> Bad]
        [] m = "executable" -> String(t)
        [] m = "state" -> Character(t)
        [] OTHER -> Number(t)

-----------------------------------------------------------------------------
(* The kernel: a line with a name of one or more words, in parentheses, as *)
(* the second column.                                                      *)

NameForms ==
  {<<"w">>} \cup
  UNION {{<<"w">> \o mid \o <<end>> : mid \in [1..n - 1 -> {"n", "w"}],
                                       end \in {"c", "nc", "w"}} : n \in 1..MaxBlanks}

LineOf(p, name) ==
  LET token(col, form) ==
        [of |-> p, col |-> col, whole |-> col # 2 \/ Len(name) = 1, form |-> form]
  IN  <<token(1, "n")>> \o [i \in 1..Len(name) |-> token(2, name[i])]
        \o <<token(3, "c")>> \o [i \in 1..Len(Declared) - 3 |-> token(i + 3, "n")]

-----------------------------------------------------------------------------
StInit ==
  /\ stat = [m \in Member |-> Default]
  /\ in = [tokens |-> <<>>, ok |-> FALSE]
  /\ next = Len(Extracted) + 1
  /\ last = <<>>
  /\ lost = FALSE

\* operator>>(const Process&, Stat&): the file is opened.  The kernel makes the
\* whole line when it is first read.
Open(p, name) ==
  /\ next > Len(Extracted)
  /\ in' = [tokens |-> LineOf(p, name), ok |-> TRUE]
  /\ next' = 1
  /\ last' = <<p, name>>
  /\ lost' = FALSE
  /\ UNCHANGED stat

\* There is no such process any more: the stream has failed from the start.
NoFile ==
  /\ next > Len(Extracted)
  /\ in' = [tokens |-> <<>>, ok |-> FALSE]
  /\ next' = 1
  /\ lost' = TRUE
  /\ UNCHANGED <<stat, last>>

Extract ==
  LET m == Extracted[next]
      e == Extraction(m)
  IN  /\ next <= Len(Extracted)
      /\ stat' = [stat EXCEPT ![m] = e.value]
      /\ in' = e.in
      /\ next' = next + 1
      /\ UNCHANGED <<last, lost>>

StNext ==
  \/ \E p \in Proc, name \in NameForms : Open(p, name)
  \/ NoFile
  \/ Extract

-----------------------------------------------------------------------------
(* Properties.                                                             *)

\* operator>> (stat.cpp): the object describes the process of the last read that
\* found a file, every member by all of its own column, whatever earlier reads
\* left in it and however many reads found none since, but for the state, which
\* such a read copies from an uninitialized variable.  That is so for names
\* without a blank.  With one, executable is not "The filename of the executable"
\* of stat.h:44 but its first word, every column after it may be taken for
\* another, and only the pid is right.
StatDescribesProcess ==
  LET Told(i) == /\ Len(last[2]) = 1 \/ Declared[i] = "pid"
                 /\ Declared[i] = "state" => ~lost
  IN  last # <<>> /\ next > Len(Extracted) =>
        \A i \in 1..Len(Declared) :
          Told(i) => stat[Declared[i]] = [of |-> last[1], col |-> i, whole |-> TRUE]
=============================================================================
