------------------------------- MODULE MCProxy -------------------------------
(***************************************************************************)
(* Instances of Proxy for TLC.  The configurations: both hosts, on either    *)
(* port; the first one only; both on one port; none.  What they leave out   *)
(* are these with hosts or ports exchanged.                                 *)
(***************************************************************************)
EXTENDS ProxyInv, TLC

CONSTANTS h1, h2, p1, p2

MCConfigs ==
  {h1 :> a @@ h2 :> b : <<a, b>> \in {<<p1, p2>>, <<p2, p1>>, <<p1, Nil>>, <<p1, p1>>, <<Nil, Nil>>}}
=============================================================================
