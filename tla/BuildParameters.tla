--------------------------- MODULE BuildParameters ---------------------------
(* The parameters that the cache of processed binaries and the chain of        *)
(* targets share.                                                              *)
EXTENDS Naturals

CONSTANTS
    MaxContent,       \* contents of a source are 1..MaxContent
    Incompatible,     \* the contents of the binary whose architecture is wrong
    Reverts,          \* whether a source may go back to an older content
    MaxBuilds         \* bound: builds

ASSUME BuildParametersAssumption ==
    /\ MaxContent \in Nat \ {0} /\ MaxBuilds \in Nat
    /\ Incompatible \subseteq 1..MaxContent
    /\ Reverts \in BOOLEAN
=============================================================================
