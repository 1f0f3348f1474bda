----------------------- MODULE MCCredentialRefresh -----------------------
(* Two requests of one connection, on one provider or on two: those of a    *)
(* source and of the one that replaced it, say.                             *)
EXTENDS CredentialRefresh, TLC

CONSTANTS p1, p2, a, b

SameOrTwo == {a :> p1 @@ b :> p1, a :> p1 @@ b :> p2}
===========================================================================
