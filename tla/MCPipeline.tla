----------------------------- MODULE MCPipeline -----------------------------
(***************************************************************************)
(* Two flows.  In Stem the source feeds b, which forks into the leaves c and *)
(* d.  In Remerge the source forks into b, c and d, and b feeds c as well:   *)
(* the leaf c is reached on two paths.                                      *)
(***************************************************************************)
EXTENDS Pipeline

Task(name, deps) == [name |-> name, explicit |-> deps # <<>>, deps |-> deps, io |-> TRUE]

Stem == <<Task("a", <<>>), Task("b", <<"a">>), Task("c", <<"b">>), Task("d", <<"b">>)>>

Remerge == <<Task("a", <<>>), Task("b", <<"a">>), Task("c", <<"a", "b">>), Task("d", <<"a">>)>>

\* The last task handles events that failed upstream.
LastTask == {N}

=============================================================================
