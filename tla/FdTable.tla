------------------------------ MODULE FdTable ------------------------------
(***************************************************************************)
(* A process's table of file descriptors, as pipe(), dup(), dup2(),        *)
(* close() and fork() present it to the library, and ChildProcess::Pipe    *)
(* (src/src/core/posix/child_process.cpp) on top of it.                    *)
(***************************************************************************)
EXTENDS Integers, FiniteSetsExt

CONSTANTS
  MaxFd,  \* bound: the highest descriptor (RLIMIT_NOFILE)
  Nobody  \* the owner of files that are no pipes

Fd == 0..MaxFd
Invalid == -1

\* A file is <<owner, stream, end>>: one end of the pipe that a call of fork()
\* made for a stream, or a file the process had before.
Std(s) == <<Nobody, s, "std">>
Closed == <<Nobody, Invalid, "closed">>
End(f, s, e) == <<f, s, e>>

Unused(t) == {fd \in Fd : t[fd] = Closed}

\* The kernel hands out the lowest unused descriptor, or fails (EMFILE).
Lowest(t) == IF Unused(t) = {} THEN Invalid ELSE Min(Unused(t))

Put(t, fd, file) == IF fd = Invalid THEN t ELSE [t EXCEPT ![fd] = file]

Close(t, fd) == Put(t, fd, Closed)

\* dup() of a possibly invalid descriptor: the new table and descriptor.
Dup(t, fd) ==
  LET new == IF fd = Invalid THEN Invalid ELSE Lowest(t)
  IN  [tab |-> Put(t, new, t[fd]), fd |-> new]

-----------------------------------------------------------------------------
(* ChildProcess::Pipe: two descriptors, each possibly invalid.             *)

NoPipe == [r |-> Invalid, w |-> Invalid]

\* The descriptors of Pipe(), which throws unless there are two to be had.
PipeFits(t) == Cardinality(Unused(t)) >= 2

NewPipe(t, f, s) ==
  LET r == Lowest(t)
      t1 == Put(t, r, End(f, s, "r"))
      w == Lowest(t1)
  IN  [tab |-> Put(t1, w, End(f, s, "w")), pipe |-> [r |-> r, w |-> w]]

\* Pipe(const Pipe&): the results of dup() are not checked.
CopyPipe(t, p) ==
  LET r == Dup(t, p.r)
      w == Dup(r.tab, p.w)
  IN  [tab |-> w.tab, pipe |-> [r |-> r.fd, w |-> w.fd]]

\* The end that ~Pipe closes next.
FirstEnd(p) == IF p.r # Invalid THEN "r" ELSE "w"
=============================================================================
