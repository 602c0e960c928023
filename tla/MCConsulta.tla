----------------------------- MODULE MCConsulta -----------------------------
(***************************************************************************)
(* Consulta with more than one ad, small enough for TLC.  Two documents can *)
(* disagree: an answer could have one of them as it was before a write and *)
(* the other as it was after a later one.  With one lookup at a time the   *)
(* second document in limbo waits for the first.                           *)
(***************************************************************************)
EXTENDS Consulta

\* The phone that asks does not write here; it does in the run with one ad.
OthersWrite == ~own.made
=============================================================================
