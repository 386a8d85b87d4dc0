------------------------------- MODULE MCMedia -------------------------------
(***************************************************************************)
(* Media for TLC.                                                          *)
(***************************************************************************)
EXTENDS Media

=============================================================================
