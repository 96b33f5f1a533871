---------------------------- MODULE ForkStreams ----------------------------
(***************************************************************************)
(* posix::fork() and posix::vfork() (src/src/core/posix/fork.cpp): the     *)
(* pipes that redirect a child's standard streams, from their creation in  *)
(* the parent to the destruction of the ChildProcess.  Each call has a     *)
(* child of its own.  The calls of several threads interleave, one system  *)
(* call of the parent at a time.  A child only changes its own table, so   *)
(* its preparations are one step.                                          *)
(***************************************************************************)
EXTENDS FdTable

CONSTANTS
  Call,  \* calls of fork() or vfork(); each names its child as well
  Jobs   \* what the calls may be asked for: the function and the flags of each

ASSUME ConstantsOK ==
  /\ Jobs \subseteq [Call -> [kind : {"fork", "vfork"}, flags : SUBSET (0..2)]]
  /\ MaxFd \in Nat /\ MaxFd > 2
  /\ Nobody \notin Call

Stream == 0..2  \* STDIN_FILENO, STDOUT_FILENO, STDERR_FILENO

VARIABLES
  tab,      \* descriptors of the parent (Nobody) and of each child
  job,      \* whether a call is one of fork() or vfork(), and what it redirects
  todo,     \* the streams a call has still to make or to copy a pipe for
  tmp,      \* the temporary Pipe() of a call
  loc,      \* stdin_pipe, stdout_pipe and stderr_pipe of a call
  cloc,     \* the copies of these pipes in the memory of the child of fork()
  priv,     \* Private::pipes of the resulting ChildProcess
  pc,       \* where each call is in the parent
  cpc,      \* where each child is
  starved,  \* history: the calls in which a dup() failed
  during    \* history: the other calls that forked while a call was inside

vars == <<tab, job, todo, tmp, loc, cloc, priv, pc, cpc, starved, during>>

\* The two dup() of operator=.
Assigning == [r |-> "assign_r", w |-> "assign_w"]

Inside == {"open", "assign_r", "assign_w", "release", "suspended", "parent", "unwind"}
PipeType == [r : Fd \cup {Invalid}, w : Fd \cup {Invalid}]
File == {Std(s) : s \in Stream} \cup {Closed}
          \cup (Call \X Stream \X {"r", "w"})

TypeOK ==
  /\ tab \in [Call \cup {Nobody} -> [Fd -> File]]
  /\ job \in Jobs
  /\ todo \in [Call -> SUBSET Stream]
  /\ tmp \in [Call -> PipeType]
  /\ loc \in [Call -> [Stream -> PipeType]]
  /\ cloc \in [Call -> [Stream -> PipeType]]
  /\ priv \in [Call -> [Stream -> PipeType]]
  /\ pc \in [Call -> {"idle", "returned", "thrown", "dropped"} \cup Inside]
  /\ cpc \in [Call -> {"none", "setup", "main", "exited"}]
  /\ starved \subseteq Call
  /\ during \in [Call -> SUBSET Call]

NoPipes == [s \in Stream |-> NoPipe]
NoFds == [fd \in Fd |-> Closed]
InitialFds == [fd \in Fd |-> IF fd \in Stream THEN Std(fd) ELSE Closed]

Init ==
  /\ tab = [p \in Call \cup {Nobody} |-> IF p = Nobody THEN InitialFds ELSE NoFds]
  /\ job \in Jobs
  /\ todo = [f \in Call |-> {}]
  /\ tmp = [f \in Call |-> NoPipe]
  /\ loc = [f \in Call |-> NoPipes]
  /\ cloc = [f \in Call |-> NoPipes]
  /\ priv = [f \in Call |-> NoPipes]
  /\ pc = [f \in Call |-> "idle"]
  /\ cpc = [f \in Call |-> "none"]
  /\ starved = {}
  /\ during = [f \in Call |-> {}]

\* The ends that the parent keeps for itself, and that it leaves to the child.
ParentEnd(s) == IF s = 0 THEN "w" ELSE "r"
ChildEnd(s) == IF s = 0 THEN "r" ELSE "w"

\* The streams whose pipe has an end.
Pipes(pipes) == {s \in Stream : pipes[s] # NoPipe}

\* The streams of which the parent still holds the child's end.
ToShut(f) == {s \in Stream : loc[f][s][ChildEnd(s)] # Invalid}

-----------------------------------------------------------------------------
(* The parent, up to the fork.                                             *)

\* vfork() makes all three pipes, whatever the flags.
Begin(f) ==
  /\ pc[f] = "idle"
  /\ todo' = [todo EXCEPT ![f] = IF job[f].kind = "vfork" THEN Stream ELSE job[f].flags]
  /\ pc' = [pc EXCEPT ![f] = "open"]
  /\ UNCHANGED <<tab, job, tmp, loc, cloc, priv, cpc, starved, during>>

\* Pipe(): a temporary in fork(), the local pipe itself in vfork().
MakePipe(f) ==
  LET s == Min(todo[f])
      new == NewPipe(tab[Nobody], f, s)
  IN  /\ pc[f] = "open" /\ todo[f] # {}
      /\ PipeFits(tab[Nobody])
      /\ tab' = [tab EXCEPT ![Nobody] = new.tab]
      /\ IF job[f].kind = "vfork"
         THEN /\ loc' = [loc EXCEPT ![f][s] = new.pipe]
              /\ todo' = [todo EXCEPT ![f] = @ \ {s}]
              /\ UNCHANGED <<tmp, pc>>
         ELSE /\ tmp' = [tmp EXCEPT ![f] = new.pipe]
              /\ pc' = [pc EXCEPT ![f] = Assigning["r"]]
              /\ UNCHANGED <<loc, todo>>
      /\ UNCHANGED <<job, cloc, priv, cpc, starved, during>>

\* operator=, whose left side is an invalid pipe: dup() of an end of the
\* temporary.  The result is not checked.
AssignEnd(f, e) ==
  LET s == Min(todo[f])
      d == Dup(tab[Nobody], tmp[f][e])
  IN  /\ pc[f] = Assigning[e]
      /\ tab' = [tab EXCEPT ![Nobody] = d.tab]
      /\ loc' = [loc EXCEPT ![f][s][e] = d.fd]
      /\ starved' = IF d.fd = Invalid THEN starved \cup {f} ELSE starved
      /\ pc' = [pc EXCEPT ![f] = IF e = "r" THEN Assigning["w"] ELSE "release"]
      /\ UNCHANGED <<job, todo, tmp, cloc, priv, cpc, during>>

\* ~Pipe closes an end of the temporary.
ReleaseEnd(f) ==
  LET s == Min(todo[f])
      e == FirstEnd(tmp[f])
  IN  /\ pc[f] = "release"
      /\ tab' = [tab EXCEPT ![Nobody] = Close(@, tmp[f][e])]
      /\ tmp' = [tmp EXCEPT ![f][e] = Invalid]
      /\ IF e = "w"
         THEN /\ pc' = [pc EXCEPT ![f] = "open"]
              /\ todo' = [todo EXCEPT ![f] = @ \ {s}]
         ELSE UNCHANGED <<pc, todo>>
      /\ UNCHANGED <<job, loc, cloc, priv, cpc, starved, during>>

\* pipe() or fork() fails (also the pipe() that Pipe::invalid() makes and
\* closes on its first call).
Throw(f) ==
  /\ pc[f] = "open"
  /\ todo[f] = {} \/ ~PipeFits(tab[Nobody])
  /\ pc' = [pc EXCEPT ![f] = "unwind"]
  /\ todo' = [todo EXCEPT ![f] = {}]
  /\ UNCHANGED <<tab, job, tmp, loc, cloc, priv, cpc, starved, during>>

\* The child gets a copy of the table, the child of fork() one of the pipes as
\* well.  The caller of vfork() waits.
Fork(f) ==
  /\ pc[f] = "open" /\ todo[f] = {}
  /\ tab' = [tab EXCEPT ![f] = tab[Nobody]]
  /\ cloc' = [cloc EXCEPT ![f] = IF job[f].kind = "fork" THEN loc[f] ELSE @]
  /\ pc' = [pc EXCEPT ![f] = IF job[f].kind = "vfork" THEN "suspended" ELSE "parent"]
  /\ todo' = [todo EXCEPT ![f] = Pipes(loc[f])]
  /\ cpc' = [cpc EXCEPT ![f] = "setup"]
  /\ during' = [g \in Call |->
                  IF g # f /\ pc[g] \in Inside THEN during[g] \cup {f} ELSE during[g]]
  /\ UNCHANGED <<job, tmp, loc, priv, starved>>

-----------------------------------------------------------------------------
(* The child.                                                              *)

\* The pipes that the child goes by: after a vfork() the caller's own.
ChildPipes(f) == IF job[f].kind = "vfork" THEN loc[f] ELSE cloc[f]

\* close_write_fd() on stdin_pipe, close_read_fd() on the others.
DropParentEnds(pipes) == [s \in Stream |-> [pipes[s] EXCEPT ![ParentEnd(s)] = Invalid]]

CloseParentEnds(t, pipes) ==
  [fd \in Fd |-> IF \E s \in Stream : fd = pipes[s][ParentEnd(s)] THEN Closed ELSE t[fd]]

\* Mutation of Redirect: every stream would be replaced that has a pipe end.
RedirectAll(t, f, s) ==
  LET fd == ChildPipes(f)[s][ChildEnd(s)]
  IN  IF fd = Invalid THEN [t EXCEPT ![s] = Closed] ELSE [t EXCEPT ![s] = t[fd]]

\* redirect_stream_to_fd()
Redirect(t, f, s) ==
  IF s \in job[f].flags THEN [t EXCEPT ![s] = t[ChildPipes(f)[s][ChildEnd(s)]]] ELSE t

\* The child closes the parent's ends and replaces its standard streams.
ChildSetup(f) ==
  LET t == CloseParentEnds(tab[f], ChildPipes(f))
  IN  /\ cpc[f] = "setup"
      /\ \A s \in job[f].flags : ChildPipes(f)[s][ChildEnd(s)] # Invalid
      /\ tab' = [tab EXCEPT ![f] = Redirect(Redirect(Redirect(t, f, 0), f, 1), f, 2)]
      /\ IF job[f].kind = "vfork"
         THEN loc' = [loc EXCEPT ![f] = DropParentEnds(@)] /\ UNCHANGED cloc
         ELSE cloc' = [cloc EXCEPT ![f] = DropParentEnds(@)] /\ UNCHANGED loc
      /\ cpc' = [cpc EXCEPT ![f] = "main"]
      /\ UNCHANGED <<job, todo, tmp, priv, pc, starved, during>>

\* dup2() fails for want of a pipe end, main() returns or throws, or the child
\* is killed.
ChildExit(f) ==
  /\ cpc[f] \in {"setup", "main"}
  /\ tab' = [tab EXCEPT ![f] = NoFds]
  /\ cloc' = [cloc EXCEPT ![f] = NoPipes]
  /\ cpc' = [cpc EXCEPT ![f] = "exited"]
  /\ UNCHANGED <<job, todo, tmp, loc, priv, pc, starved, during>>

-----------------------------------------------------------------------------
(* The parent, after the fork.                                             *)

\* The child of vfork() has ended.
Resume(f) ==
  /\ pc[f] = "suspended" /\ cpc[f] = "exited"
  /\ pc' = [pc EXCEPT ![f] = "parent"]
  /\ UNCHANGED <<tab, job, todo, tmp, loc, cloc, priv, cpc, starved, during>>

\* Mutation of Shut: the parent would forget the child's ends.
ShutNothing(f) ==
  /\ pc[f] = "parent" /\ ToShut(f) # {}
  /\ LET s == Min(ToShut(f)) IN loc' = [loc EXCEPT ![f][s][ChildEnd(s)] = Invalid]
  /\ UNCHANGED <<tab, job, todo, tmp, cloc, priv, pc, cpc, starved, during>>

\* stdin_pipe.close_read_fd(), stdout_ and stderr_pipe.close_write_fd()
Shut(f) ==
  LET s == Min(ToShut(f))
  IN  /\ pc[f] = "parent" /\ ToShut(f) # {}
      /\ tab' = [tab EXCEPT ![Nobody] = Close(@, loc[f][s][ChildEnd(s)])]
      /\ loc' = [loc EXCEPT ![f][s][ChildEnd(s)] = Invalid]
      /\ UNCHANGED <<job, todo, tmp, cloc, priv, pc, cpc, starved, during>>

\* Mutation of PrivatePipes: one of the two exchanges of arguments is missing.
PrivatePipesSwapped(p) == [s \in Stream |-> <<p[1], p[2], p[0]>>[s + 1]]

\* ChildProcess passes its pipes (stdin, stdout, stderr) to parameters named
\* (stderr, stdin, stdout), which initialise the members (stdin, stdout,
\* stderr) as {stderr, stdin, stdout}: the two exchanges cancel out.
PrivatePipes(p) ==
  LET param == [stderr |-> p[0], stdin |-> p[1], stdout |-> p[2]]
  IN  [s \in Stream |-> <<param.stderr, param.stdin, param.stdout>>[s + 1]]

\* A pipe, of which at most one end is left, is copied to the Private.
Copy(f) ==
  LET s == Min(todo[f])
      p == PrivatePipes(loc[f])[s]
      c == CopyPipe(tab[Nobody], p)
  IN  /\ pc[f] = "parent" /\ ToShut(f) = {} /\ todo[f] # {}
      /\ tab' = [tab EXCEPT ![Nobody] = c.tab]
      /\ priv' = [priv EXCEPT ![f][s] = c.pipe]
      /\ starved' = IF c.pipe = NoPipe /\ p # NoPipe THEN starved \cup {f} ELSE starved
      /\ todo' = [todo EXCEPT ![f] = @ \ {s}]
      /\ UNCHANGED <<job, tmp, loc, cloc, pc, cpc, during>>

\* The end of the block, by an exception or by the return.
Leaving(f) == pc[f] = "unwind" \/ (pc[f] = "parent" /\ ToShut(f) = {} /\ todo[f] = {})

\* Mutation of DestroyEnd: the pipes would be forgotten.
DestroyEndForgets(f) ==
  LET s == Max(Pipes(loc[f]))
  IN  /\ Leaving(f) /\ loc[f] # NoPipes
      /\ loc' = [loc EXCEPT ![f][s][FirstEnd(loc[f][s])] = Invalid]
      /\ UNCHANGED <<tab, job, todo, tmp, cloc, priv, pc, cpc, starved, during>>

\* The local pipes are destroyed, the last one first.
DestroyEnd(f) ==
  LET s == Max(Pipes(loc[f]))
      e == FirstEnd(loc[f][s])
  IN  /\ Leaving(f) /\ loc[f] # NoPipes
      /\ tab' = [tab EXCEPT ![Nobody] = Close(@, loc[f][s][e])]
      /\ loc' = [loc EXCEPT ![f][s][e] = Invalid]
      /\ UNCHANGED <<job, todo, tmp, cloc, priv, pc, cpc, starved, during>>

Return(f) ==
  /\ Leaving(f) /\ loc[f] = NoPipes
  /\ pc' = [pc EXCEPT ![f] = IF pc[f] = "unwind" THEN "thrown" ELSE "returned"]
  /\ UNCHANGED <<tab, job, todo, tmp, loc, cloc, priv, cpc, starved, during>>

\* The last ChildProcess goes.  The child that ~Private kills ends in ChildExit.
Drop(f) ==
  /\ pc[f] = "returned"
  /\ pc' = [pc EXCEPT ![f] = "dropped"]
  /\ UNCHANGED <<tab, job, todo, tmp, loc, cloc, priv, cpc, starved, during>>

\* The pipes of the Private are destroyed; each has one end at most.
DropEnd(f) ==
  LET s == Max(Pipes(priv[f]))
      e == FirstEnd(priv[f][s])
  IN  /\ pc[f] = "dropped" /\ priv[f] # NoPipes
      /\ tab' = [tab EXCEPT ![Nobody] = Close(@, priv[f][s][e])]
      /\ priv' = [priv EXCEPT ![f][s][e] = Invalid]
      /\ UNCHANGED <<job, todo, tmp, loc, cloc, pc, cpc, starved, during>>

Next ==
  \E f \in Call :
    \/ Begin(f) \/ Throw(f) \/ Fork(f) \/ ChildSetup(f) \/ ChildExit(f)
    \/ MakePipe(f) \/ ReleaseEnd(f) \/ Resume(f) \/ Shut(f) \/ Copy(f)
    \/ DestroyEnd(f) \/ Return(f) \/ Drop(f) \/ DropEnd(f)
    \/ \E e \in {"r", "w"} : AssignEnd(f, e)

Spec == Init /\ [][Next]_vars

-----------------------------------------------------------------------------
(* Properties.                                                             *)

\* The descriptor behind ChildProcess::cin(), cout() and cerr().
StreamFd(f, s) == priv[f][s][ParentEnd(s)]

\* Each redirected stream of a running child leads to the ChildProcess.
Connected(f) ==
  pc[f] = "returned" /\ cpc[f] \in {"main", "exited"} =>
    \A s \in job[f].flags :
      /\ StreamFd(f, s) # Invalid
      /\ tab[Nobody][StreamFd(f, s)] = End(f, s, ParentEnd(s))
      /\ cpc[f] = "main" => tab[f][s] = End(f, s, ChildEnd(s))

\* Once fork() has returned, each stream in flags leads from the running child
\* to the ChildProcess through one pipe, whatever other threads fork meanwhile
\* (fork.cpp:59-120).  A call in which a dup() failed is left out: its result is
\* not checked (child_process.cpp:212), so fork() returns without the stream,
\* where fork.h:34 announces a std::system_error in case of errors.
StreamsConnected == \A f \in Call \ starved : job[f].kind = "fork" => Connected(f)

\* "flags Specify which standard streams should be redirected to the parent
\* process." (fork.h:46), said of vfork().
VforkStreamsConnected == \A f \in Call \ starved : job[f].kind = "vfork" => Connected(f)

\* A stream that is not in flags stays what it is in the parent.
OthersUntouched ==
  \A f \in Call, s \in Stream :
    cpc[f] = "main" /\ s \notin job[f].flags => tab[f][s] = InitialFds[s]

\* Whatever other calls do, and whichever pipe() or dup() fails, a fork() that
\* has returned leaves the parent the descriptors of the streams of its
\* ChildProcess, and one that has thrown or whose ChildProcess is gone leaves
\* it none.
NoFdLeak ==
  \A f \in Call :
    job[f].kind = "fork" /\ pc[f] \notin Inside =>
      {fd \in Fd : \E s \in Stream : tab[Nobody][fd] \in {End(f, s, "r"), End(f, s, "w")}} =
        {StreamFd(f, s) : s \in Stream} \ {Invalid}

\* Reading the output of a child ends when the child does: nobody else holds
\* the write end of its stdout or stderr.  Only a child that another thread
\* forked while this call was under way does (fork.cpp:71 copies every
\* descriptor, and none is closed on exec).
EofAfterExit ==
  \A f \in Call, s \in {1, 2} :
    pc[f] = "returned" /\ cpc[f] = "exited" =>
      \A p \in (Call \cup {Nobody}) \ during[f], fd \in Fd : tab[p][fd] # End(f, s, "w")
=============================================================================
