---------------------------- MODULE TaskRegistry ----------------------------
(***************************************************************************)
(* TaskRegistryBuilder::build (app/src/flow.rs) as a step from a flow       *)
(* definition to its registry, for the definitions in FlowConfigs, checked *)
(* against reference definitions by paths.                                 *)
(***************************************************************************)
EXTENDS TaskGraph

CONSTANT FlowConfigs   \* the flow definitions tried

\* They are lists of tasks.
ASSUME FlowConfigsAssumption == \A f \in FlowConfigs : Len(f) \in Nat /\ DOMAIN f = 1..Len(f)

VARIABLES flow,       \* the definition
          registry    \* what build made of it, or NotBuilt

wiringVars == <<flow, registry>>

NotBuilt == [ok |-> FALSE, parents |-> <<>>, leaves |-> <<>>]

WiringInit ==
  /\ flow \in FlowConfigs
  /\ registry = NotBuilt

Build ==
  /\ registry' = BuildRegistry(flow)
  /\ UNCHANGED flow

WiringNext == Build

WiringSpec == WiringInit /\ [][WiringNext]_wiringVars

-----------------------------------------------------------------------------

\* A path through the wiring, as the sequence of tasks an event visits.
IsPath(p) == \A i \in 1..(Len(p) - 1) : p[i] \in {registry.parents[p[i + 1]][k] :
                                            k \in DOMAIN registry.parents[p[i + 1]]}

\* Every sequence of tasks up to the length of the flow.
Walks == UNION {[1..n -> DOMAIN flow] : n \in 1..Len(flow)}

IsLeaf(t) == \A u \in DOMAIN flow : \A k \in DOMAIN registry.parents[u] :
               registry.parents[u][k] # t

Paths(t, u) == {p \in Walks : p[1] = t /\ p[Len(p)] = u /\ IsPath(p)}

\* The completion channel of a task is sized by the leaves that a path leads
\* to, each once: the reverse pass of build_dag over the task list agrees with
\* reachability, and so does the constant 1 of build_linear.
LeavesAreReachable ==
  registry.ok =>
    \A t \in DOMAIN flow :
      registry.leaves[t] = Cardinality({u \in DOMAIN flow : IsLeaf(u) /\ Paths(t, u) # {}})

\* The two ways to wire a flow agree where both apply: a list of pipeline tasks
\* without depends_on gets the same parents and leaf counts from build_linear
\* as it would from build_dag.
LinearIsDag ==
  registry.ok /\ (\A i \in DOMAIN flow : flow[i].io /\ ~flow[i].explicit) =>
    /\ registry.parents = ResolveParents(flow)
    /\ registry.leaves = DownstreamLeaves(ResolveParents(flow))

\* A pipeline task without depends_on is fed by the pipeline: a walk back from
\* it over implicit parents meets pipeline tasks only and ends at a task that
\* names its own parents or at the first pipeline task, so it never waits on a
\* registration-only task that sends nothing.
ImplicitChainIsFed ==
  registry.ok =>
    \A t \in DOMAIN flow : flow[t].io /\ ~flow[t].explicit =>
      \E s \in 1..t :
        /\ flow[s].io
        /\ flow[s].explicit \/ \A j \in 1..(s - 1) : ~flow[j].io
        /\ \E p \in Paths(s, t) : \A i \in DOMAIN p : flow[p[i]].io

=============================================================================
