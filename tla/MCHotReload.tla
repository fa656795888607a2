----------------------------- MODULE MCHotReload -----------------------------
(***************************************************************************)
(* Instances of HotReload for TLC.                                         *)
(***************************************************************************)
EXTENDS HotReload

CONSTANTS f1, f2,          \* flows
          plain,           \* a definition that runs on every pod
          elected,         \* one that runs under leader election
          broken, badgraph \* one that does not parse, one whose graph is wrong

=============================================================================
