------------------------------- MODULE MCConn -------------------------------
(***************************************************************************)
(* Instances of Conn for TLC.  The calls are interchangeable: only their    *)
(* identity is ever compared.                                               *)
(***************************************************************************)
EXTENDS ConnInv, TLC

Symmetry == Permutations(Calls)
=============================================================================
