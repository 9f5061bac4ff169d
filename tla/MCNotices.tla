-------------------------------- MODULE MCNotices --------------------------------
(* Values of the constants of Notices for TLC. *)
EXTENDS Notices, TLC

\* Slots and addresses are interchangeable.
Symmetric == Permutations(Handlers) \cup Permutations(Addresses)
================================================================================
