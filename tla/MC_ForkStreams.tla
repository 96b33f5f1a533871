-------------------------- MODULE MC_ForkStreams --------------------------
(* Instances of ForkStreams for TLC.                                       *)
EXTENDS ForkStreams, TLC

CONSTANTS f1, f2  \* the calls

Asks(kind, flags) == [kind |-> kind, flags |-> flags]

\* Two streams at once, two calls with a pipe each, and fork() against vfork().
Pairs ==
  {(f1 :> Asks("fork", {0, 1})) @@ (f2 :> Asks("fork", {})),
   (f1 :> Asks("fork", {2})) @@ (f2 :> Asks("fork", {1})),
   (f1 :> Asks("fork", {2})) @@ (f2 :> Asks("vfork", {2}))}

Vfork == {f1 :> Asks("vfork", {0, 1})}
=============================================================================
