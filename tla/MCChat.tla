-------------------------------- MODULE MCChat --------------------------------
(***************************************************************************)
(* Small instances of Chat for TLC.                                        *)
(***************************************************************************)
EXTENDS Chat, TLC

CONSTANTS s1, t1, k1, h1, h2

\* A socket of the tutor, whose id in table Tutor is that of the user.
OneTab == (k1 :> t1)
Same == (t1 :> t1)
Symmetry == Permutations(Handlers)
===============================================================================
