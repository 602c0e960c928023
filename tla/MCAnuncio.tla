----------------------------- MODULE MCAnuncio ------------------------------
(* Module Anuncio for TLC.                                                   *)
EXTENDS Anuncio

Symmetry == Permutations(Devices) \cup Permutations(Users)
            \cup Permutations(Texts) \cup Permutations(Ids)
=============================================================================
