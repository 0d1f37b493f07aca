----------------------------- MODULE MCIsolated -----------------------------
(* Instances of Isolated for TLC. *)
EXTENDS Isolated

AllDeaths == {"call", "answer", "idle"}
=============================================================================
