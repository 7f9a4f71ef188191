------------------------------- MODULE MCChat -------------------------------
(***************************************************************************)
(* Two handlers, one member: Chat for TLC.                                 *)
(***************************************************************************)
EXTENDS Chat, TLC

MCKinds == {"none", "mild", "serious", "apology"}
HandlerSymmetry == Permutations(Handlers)
=============================================================================
