--------------------------- MODULE CompletionPromise ---------------------------
(***************************************************************************)
(* What CompletionState promises a source, with nothing of how it counts:  *)
(* each report is one step, the report that brings the count to zero       *)
(* decides, the source hears that decision, or, while reports are missing, *)
(* that none will come.                                                    *)
(***************************************************************************)
EXTENDS Naturals

CONSTANT LeafCount

VARIABLES left, result, source

pvars == <<left, result, source>>

Init ==
  /\ left = IF LeafCount = 0 THEN 1 ELSE LeafCount
  /\ result = "none"
  /\ source = "waiting"

Report(v) ==
  /\ left > 0
  /\ left' = left - 1
  /\ result' = IF left = 1 THEN v ELSE result
  /\ UNCHANGED source

Learn ==
  /\ source = "waiting"
  /\ result # "none"
  /\ source' = IF result = "ok" THEN "acked" ELSE "failed"
  /\ UNCHANGED <<left, result>>

Abandon ==
  /\ source = "waiting"
  /\ left > 0
  /\ source' = "failed"
  /\ UNCHANGED <<left, result>>

GiveUp ==
  /\ source = "waiting"
  /\ source' = "gaveup"
  /\ UNCHANGED <<left, result>>

Next == (\E v \in {"ok", "err"} : Report(v)) \/ Learn \/ Abandon \/ GiveUp

Spec == Init /\ [][Next]_pvars

=============================================================================
