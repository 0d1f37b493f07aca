------------------------------ MODULE MCChild ------------------------------
(* Instances of Child for TLC. *)
EXTENDS Child

\* argv emulation is for windowed builds.
AllModes == {m \in Mode : m.argv_emulation => m.windowed}
=============================================================================
