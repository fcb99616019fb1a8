--------------------------- MODULE MCPayloadLimit ---------------------------
(***************************************************************************)
(* An instance of PayloadLimit for TLC: chunks below, at and above the     *)
(* limit, also empty ones, and headers that lie both ways.                 *)
(***************************************************************************)
EXTENDS PayloadLimit

MCSizes == {0, 1, 2, 4}
MCDeclared == {None, 0, 3, 4}
=============================================================================
