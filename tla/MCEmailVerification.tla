------------------------ MODULE MCEmailVerification -------------------------
(* Instances of EmailVerification for TLC.                                  *)
EXTENDS EmailVerification, TLC

CONSTANTS ann, bob, c1, c2, c3, v1, v2, office

\* Everybody calls from one address.
OneAddress == [c \in Calls |-> office]

\* Bob makes one call, ann the others.
AnnAndBob == [c \in Calls |-> IF c = c1 THEN bob ELSE ann]

VerificationSymmetry == Permutations(Calls \ {c1}) \cup Permutations(Verifies)
=============================================================================
