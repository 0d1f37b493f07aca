------------------------------ MODULE MCSplash ------------------------------
(* Instances of Splash for TLC. *)
EXTENDS Splash

NoDependencies == {}
SecondEntry == {2}
BothKinds == {TRUE, FALSE}
OnlyJoinable == {TRUE}
=============================================================================
