----------------------------- MODULE MCBinCache -----------------------------
(* Instances of BinCache for TLC. *)
EXTENDS BinCache

Second == {2}
=============================================================================
