------------------------------ MODULE MCLaunch ------------------------------
(* Instances of Launch for TLC. *)
EXTENDS Launch

CONSTANTS a, b

\* A onefile program with a splash screen, and a onedir program.
OneOfEach == {a, b}
JustA == {a}

NoPathOrOne == {<<>>, <<UserDir>>}
=============================================================================
