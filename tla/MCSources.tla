----------------------------- MODULE MCSources -----------------------------
(***************************************************************************)
(* Sources for TLC.                                                        *)
(***************************************************************************)
EXTENDS Sources

CONSTANTS p1, p2

\* One source task of each kind, in the modes that differ.
MCPartitions == {p1, p2}

SourceTask(k, added, start, maxDeliver, mode, rerun, maxDisruptions) ==
  [kind |-> k, partitions |-> {p1}, added |-> added, start |-> start, maxDeliver |-> maxDeliver,
   mode |-> mode, rerun |-> rerun, maxDisruptions |-> maxDisruptions]

LogTask(k, added, start, maxDeliver) ==
  SourceTask(k, added, start, maxDeliver, "once", FALSE, IF added = {} THEN 2 ELSE 1)

MCSources ==
  {LogTask("kafka", {}, "earliest", 0), LogTask("kafka", {p2}, "latest", 1), LogTask("kafka", {}, "latest", 2)}
    \cup {LogTask(k, {}, "earliest", 0) : k \in {"salesforce", "managed", "change_stream"}}
    \cup {SourceTask("generate", {}, "earliest", 0, mode, rerun, 2) :
            mode \in {"interval", "once"}, rerun \in BOOLEAN}

SalesforceTask == {LogTask("salesforce", {}, "earliest", 0)}
=============================================================================
