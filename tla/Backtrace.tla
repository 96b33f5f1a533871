----------------------------- MODULE Backtrace -----------------------------
(***************************************************************************)
(* core::posix::backtrace (src/src/core/posix/backtrace.cpp): how a raw    *)
(* symbol is taken apart and demangled, and the walk over the stack that   *)
(* hands one frame after the other to a handler; print_backtrace() of      *)
(* fork.cpp is such a handler.                                             *)
(***************************************************************************)
EXTENDS CxxString

CONSTANTS
  MaxFrames,  \* max_frames
  MaxStack    \* bound: the depth of the stack

ASSUME MaxFrames \in Nat /\ MaxStack \in Nat

VARIABLES
  stack,   \* the frames of the calling program, innermost first
  shown,   \* what the handler was called with
  buffer,  \* the memory backtrace_symbols() allocated
  walk     \* where visit_with_handler() is

btVars == <<stack, shown, buffer, walk>>

-----------------------------------------------------------------------------
(* backtrace_symbols(): file(name+offset) [address], without the name or   *)
(* the parentheses when nothing is known.  A path may contain parentheses. *)

Name == {<<"n">>, <<"m">>, <<"n", "m">>}
Mangled == {<<"n", "m">>, <<"m">>}  \* the names that __cxa_demangle() accepts
File == {<<"f">>, <<"f", "(", ")">>}
Frame ==
  [file : File, form : {"name+offset"}, name : Name]
    \cup [file : File, form : {"+offset", "()", "none"}, name : {<<>>}]

Raw(f) ==
  f.file \o (CASE f.form = "none" -> <<>>
               [] f.form = "()" -> <<"(", ")">>
               [] OTHER -> <<"(">> \o f.name \o <<"+", "o", ")">>) \o <<" ", "a">>
Demangled(name) == <<"demangled">> \o name

-----------------------------------------------------------------------------
(* impl::demangle() and impl::Frame::Symbol.                               *)

Demangle(symbol) ==
  [text |-> IF symbol \in Mangled THEN Demangled(symbol) ELSE <<>>,
   is_cxx |-> symbol \in Mangled]

\* Mutation of MangledSymbol: the offset would be left in.
MangledSymbolOffset(raw) ==
  LET first == FindFirst(raw, "(")
      last == FindLast(raw, ")")
  IN  Substr(raw, Plus(first, 1), Minus(Minus(last, 1), Plus(first, 1)))

\* The text between the parentheses, but for its last character; the length
\* wraps around for "()", which gives the rest of the text.
MangledSymbol(raw) ==
  LET first == FindFirst(raw, "(")
      last == FindLast(raw, ")")
      inner == Substr(raw, Plus(first, 1), Minus(Minus(last, 1), Plus(first, 1)))
      plus == FindFirst(inner, "+")
  IN  IF plus # NPos THEN Substr(inner, 0, plus) ELSE inner

Symbol(raw) ==
  LET found == FindFirst(raw, "(") # NPos /\ FindLast(raw, ")") # NPos
      d == Demangle(MangledSymbol(raw))
  IN  IF ~found THEN [raw |-> raw, demangled |-> <<>>, is_cxx |-> FALSE]
      ELSE [raw |-> raw, demangled |-> IF d.is_cxx THEN d.text ELSE raw,
            is_cxx |-> d.is_cxx]

\* What print_backtrace() writes for a frame.
Printed(symbol) == IF symbol.is_cxx THEN symbol.demangled ELSE symbol.raw

-----------------------------------------------------------------------------
(* visit_with_handler().                                                   *)

BtInit(stacks) ==
  /\ stack \in stacks
  /\ shown = <<>>
  /\ buffer = "none"
  /\ walk = "called"

FrameCount == Min({Len(stack), MaxFrames})

Capture ==
  /\ walk = "called"
  /\ walk' = "loop"
  /\ buffer' = "allocated"
  /\ UNCHANGED <<stack, shown>>

\* backtrace_symbols() returns a null pointer, which nobody checks.
CaptureFails ==
  /\ walk = "called"
  /\ walk' = IF FrameCount = 0 THEN "done" ELSE "crashed"
  /\ UNCHANGED <<stack, shown, buffer>>

\* ~Scope, however the loop is left
LeaveWalk(to) == walk' = to /\ buffer' = "freed"

\* impl::Frame
FrameAt(depth) == [depth |-> depth, symbol |-> Symbol(Raw(stack[depth + 1]))]

\* The handler returns true, returns false, or throws.
VisitFrame ==
  /\ walk = "loop" /\ Len(shown) < FrameCount
  /\ shown' = Append(shown, FrameAt(Len(shown)))
  /\ \/ UNCHANGED <<walk, buffer>>
     \/ LeaveWalk("left")
     \/ LeaveWalk("threw")
  /\ UNCHANGED stack

VisitDone ==
  /\ walk = "loop" /\ Len(shown) = FrameCount
  /\ LeaveWalk("done")
  /\ UNCHANGED <<stack, shown>>

BtNext == Capture \/ CaptureFails \/ VisitFrame \/ VisitDone

-----------------------------------------------------------------------------
(* Properties.                                                             *)

\* "true iff the symbol refers to a mangled C++ symbol." (backtrace.h:56): despite
\* the wrap-around and the dropped character the name between the parentheses is
\* the one that is demangled, for paths without parentheses; and what
\* print_backtrace() writes (fork.cpp), for any path, is that name or the raw
\* symbol.  It is so because print_backtrace() asks is_cxx() first: demangled()
\* itself is not "the demangled C++ symbol name or raw" of backtrace.h:61, for a
\* symbol without parentheses it is empty.
NamesFrames ==
  \A i \in 1..Len(shown) :
    LET symbol == shown[i].symbol
        name == stack[i].name
    IN  /\ At(stack[i].file, "(") = {} => (symbol.is_cxx <=> name \in Mangled)
        /\ Printed(symbol) \in {Demangled(name), symbol.raw}
=============================================================================
