------------------------------ MODULE MCSessions ------------------------------
(***************************************************************************)
(* Small instances of Sessions for TLC.                                    *)
(***************************************************************************)
EXTENDS Sessions, TLC

CONSTANTS u1, u2, b1, b2, h1, h2, h3

Symmetry == Permutations(Handlers) \cup Permutations(Browsers)
===============================================================================
