----------------------------- MODULE MCAuthoring -----------------------------
(***************************************************************************)
(* Instances of Authoring for TLC.                                         *)
(***************************************************************************)
EXTENDS Authoring

CONSTANTS a, b, bad,  \* contents
          f           \* a path

AsIs == [c \in Contents |-> c]
OneTargetOnly == [p \in Paths |-> "workspace"]

=============================================================================
