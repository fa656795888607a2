------------------------------ MODULE TaskGraph ------------------------------
(***************************************************************************)
(* How a flow's task list becomes a graph of channels (app/src/flow.rs):    *)
(* resolve_parents, the choice between the linear and the DAG wiring, and  *)
(* the number of leaves each task reaches, which sizes the completion      *)
(* channel of a source.                                                    *)
(*                                                                         *)
(* A flow is a sequence of tasks [name, explicit, deps, io]: whether        *)
(* depends_on is set, the names in it, and whether the task takes part in  *)
(* the pipeline at all (has_pipeline_io).                                  *)
(***************************************************************************)
EXTENDS Naturals, Sequences, FiniteSets

\* The index a name stands for; resolve_parents refuses duplicates before.
IndexOf(flow, name) == CHOOSE i \in DOMAIN flow : flow[i].name = name

\* resolve_parents succeeds: names are unique and every entry of depends_on is
\* the name of an earlier task.
Resolves(flow) ==
  /\ \A i, j \in DOMAIN flow : flow[i].name = flow[j].name => i = j
  /\ \A i \in DOMAIN flow : flow[i].explicit =>
       \A k \in DOMAIN flow[i].deps :
         /\ \E j \in DOMAIN flow : flow[j].name = flow[i].deps[k]
         /\ IndexOf(flow, flow[i].deps[k]) < i

\* The previous task of the pipeline, if any.
ImplicitParent(flow, i) ==
  LET before == {j \in 1..(i - 1) : flow[j].io}
  IN IF before = {} THEN <<>> ELSE <<CHOOSE j \in before : \A k \in before : k <= j>>

\* resolve_parents: the parents of each task, in the order of depends_on.
ResolveParents(flow) ==
  [i \in DOMAIN flow |->
     IF flow[i].explicit
     THEN [k \in DOMAIN flow[i].deps |-> IndexOf(flow, flow[i].deps[k])]
     ELSE IF flow[i].io THEN ImplicitParent(flow, i) ELSE <<>>]

\* The channel ends a task's output is cloned into: one for each place where a
\* later task names it.
Branches(parents, p) ==
  UNION {{<<c, k>> : k \in {j \in DOMAIN parents[c] : parents[c][j] = p}} : c \in DOMAIN parents}

Children(parents, p) == {b[1] : b \in Branches(parents, p)}

\* Mutant of DownstreamLeaves: the counts of the children are added up.
DownstreamLeavesSummed(parents) ==
  LET sum[t \in DOMAIN parents] ==
        IF Children(parents, t) = {} THEN 1
        ELSE LET upTo[c \in 0..Len(parents)] ==
                   IF c = 0 THEN 0
                   ELSE upTo[c - 1] + (IF c \in Children(parents, t) THEN sum[c] ELSE 0)
             IN upTo[Len(parents)]
  IN sum

\* build_dag's reverse pass: the distinct leaves reachable from each task.
DownstreamLeaves(parents) ==
  LET reachable[t \in DOMAIN parents] ==
        IF Children(parents, t) = {} THEN {t}
        ELSE UNION {reachable[c] : c \in Children(parents, t)}
  IN [t \in DOMAIN parents |-> Cardinality(reachable[t])]

\* build_linear: every task receives from the one before it.
LinearParents(flow) == [i \in DOMAIN flow |-> IF i = 1 THEN <<>> ELSE <<i - 1>>]

NeedsDag(flow) == \E i \in DOMAIN flow : flow[i].explicit \/ ~flow[i].io

\* TaskRegistryBuilder::build.
BuildRegistry(flow) ==
  IF ~NeedsDag(flow)
  THEN [ok |-> TRUE, parents |-> LinearParents(flow),
        leaves |-> [i \in DOMAIN flow |-> 1]]
  ELSE IF Resolves(flow)
  THEN [ok |-> TRUE, parents |-> ResolveParents(flow),
        leaves |-> DownstreamLeaves(ResolveParents(flow))]
  ELSE [ok |-> FALSE, parents |-> <<>>, leaves |-> <<>>]

=============================================================================
