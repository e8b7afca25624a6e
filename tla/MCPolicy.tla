------------------------------ MODULE MCPolicy ------------------------------
(***************************************************************************)
(* An instance of Policy for TLC: four addresses; the whole net, a half of  *)
(* it written in two ways, two single addresses and an invalid netblock;    *)
(* policies that allow nothing more, undocumented commands, or writes to    *)
(* one variable.                                                            *)
(***************************************************************************)
EXTENDS Policy

Block(a, n) == [addr |-> a, bits |-> n]

MCNetblocks ==
  {Block(0, 0), Block(2, 1), Block(3, 1), Block(0, 2), Block(3, 2), Block(0, -1)}

MCPolicies ==
  {NoRules, [undoc |-> TRUE, writes |-> {}],
   [undoc |-> FALSE, writes |-> {<<2, 2>>}]}
=============================================================================
