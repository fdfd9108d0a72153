----------------------------- MODULE MCCollection -----------------------------
(***************************************************************************)
(* Instances of Collection for TLC.  The configurations give every         *)
(* constant its value.                                                     *)
(***************************************************************************)
EXTENDS Collection
=============================================================================
