------------------------------ MODULE MCWallet ------------------------------
(***************************************************************************)
(* Small instances of Wallet for TLC.                                      *)
(***************************************************************************)
EXTENDS Wallet, TLC

CONSTANTS s1, s2, t1, t2, ghost, h1, h2

\* An admin adds one credit or removes two: the second reaches the clamp.
MCAccumulators == {1, -2}
Symmetry == Permutations(Handlers)
=============================================================================
