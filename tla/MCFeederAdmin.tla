---------------------------- MODULE MCFeederAdmin ----------------------------
(***************************************************************************)
(* TLC instances of FeederAdmin: keys, invitations and enrollment requests *)
(* are interchangeable.                                                    *)
(***************************************************************************)
EXTENDS FeederAdmin, TLC
Symmetry == Permutations(Keys) \cup Permutations(Tokens) \cup Permutations(Enrollers)
=============================================================================
