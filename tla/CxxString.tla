----------------------------- MODULE CxxString -----------------------------
(***************************************************************************)
(* The operations of std::string that the library uses: positions count    *)
(* from zero and arithmetic on them wraps around as that of size_t does.   *)
(***************************************************************************)
EXTENDS Integers, SequencesExt

SizeT == 65536       \* stands for 2^64: more than the length of any string
NPos == SizeT - 1    \* std::string::npos

Plus(a, b) == (a + b) % SizeT
Minus(a, b) == (a - b) % SizeT

At(s, c) == {i \in 1..Len(s) : s[i] = c}
FindFirst(s, c) == IF At(s, c) = {} THEN NPos ELSE Min(At(s, c)) - 1
FindLast(s, c) == IF At(s, c) = {} THEN NPos ELSE Max(At(s, c)) - 1

\* s.substr(pos, n), for pos up to the length of s
Substr(s, pos, n) == SubSeq(s, pos + 1, Min({pos + n, Len(s)}))

Words(chars, lengths) == UNION {[1..n -> chars] : n \in lengths}
=============================================================================
