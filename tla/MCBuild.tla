------------------------------ MODULE MCBuild ------------------------------
(* Instances of Build for TLC. *)
EXTENDS Build

Second == {2}
BothModes == {TRUE, FALSE}
OneDir == {FALSE}
\* The import is given up, and comes back.
FirstAndThird == {1, 3}
=============================================================================
