----------------------------- MODULE DummyProofs ----------------------------
(***************************************************************************)
(* Proofs about Dummy, for any number of clients.                           *)
(***************************************************************************)
EXTENDS Dummy, TLAPS

LEMMA InitInv == Init => DummyInvariant
<1> SUFFICES ASSUME Init PROVE DummyInvariant
  OBVIOUS
<1>1. TypeOK
  <2>1. {stopping, listening, unblocked} \subseteq BOOLEAN
    BY Zenon DEF Init
  <2>2. 0 \in 0..MaxLines
    BY MaxLinesAssumption
  <2> QED
    BY <2>1, <2>2 DEF Init, TypeOK, Running
<1>2. ~stopping /\ listening /\ ~unblocked
  BY Zenon DEF Init
<1> QED
  BY <1>1, <1>2 DEF Init, DummyInvariant, Running, UnblockReachesAll, RegistryExact

(* The steps of Stop and of the goroutines that wait for it.                 *)
LEMMA StopInv ==
  DummyInvariant /\ (Stop \/ CloseListener \/ Unblock) => DummyInvariant'
<1> SUFFICES ASSUME DummyInvariant, Stop \/ CloseListener \/ Unblock PROVE DummyInvariant'
  OBVIOUS
<1> USE DEF DummyInvariant, TypeOK, Running, UnblockReachesAll, RegistryExact
<1>1. CASE Stop
  BY <1>1 DEF Stop, accVars, clVars
<1>2. CASE CloseListener
  BY <1>2, NoneAssumption DEF CloseListener, accVars
<1>3. CASE Unblock
  BY <1>3 DEF Unblock, accVars
<1> QED
  BY <1>1, <1>2, <1>3

(* The accept loop: a connection in hand is registered, then gets a handler   *)
(* or, when the context is stopping, is closed.                               *)
LEMMA AcceptingInv == DummyInvariant /\ Accepting => DummyInvariant'
<1> SUFFICES ASSUME DummyInvariant, Accepting PROVE DummyInvariant'
  OBVIOUS
<1> USE NoneAssumption DEF DummyInvariant, TypeOK, Running, UnblockReachesAll, RegistryExact
<1>1. ASSUME NEW c \in Clients, AcceptConn(c) PROVE DummyInvariant'
  BY <1>1 DEF AcceptConn, serverVars
<1>2. CASE AcceptError
  BY <1>2 DEF AcceptError, serverVars, clVars
<1>3. CASE Register
  BY <1>3 DEF Register, InHand, serverVars
<1>4. CASE Spawn
  BY <1>4 DEF Spawn, Refused, serverVars
<1> QED
  BY <1>1, <1>2, <1>3, <1>4 DEF Accepting

(* A client, or its handler.                                                  *)
LEMMA ClientInv ==
  ASSUME DummyInvariant, NEW c \in Clients, Connect(c) \/ HangUp(c) \/ Serve(c)
  PROVE  DummyInvariant'
<1> USE NoneAssumption, MaxLinesAssumption
    DEF DummyInvariant, TypeOK, Running, UnblockReachesAll, RegistryExact, serverVars, accVars
<1>1. CASE Connect(c)
  BY <1>1 DEF Connect
<1>2. CASE HangUp(c)
  BY <1>2 DEF HangUp
<1>3. CASE Greet(c)
  BY <1>3 DEF Greet
<1>4. CASE Fill(c)
  BY <1>4 DEF Fill
<1>5. CASE Take(c)
  BY <1>5 DEF Take
<1>6. CASE Handle(c)
  BY <1>6 DEF Handle
<1>7. CASE ReadError(c)
  BY <1>7 DEF ReadError
<1>8. CASE Cleanup(c)
  BY <1>8 DEF Cleanup, Registered
<1> QED
  BY <1>1, <1>2, <1>3, <1>4, <1>5, <1>6, <1>7, <1>8 DEF Serve

LEMMA NextInv == DummyInvariant /\ [Next]_vars => DummyInvariant'
<1>1. DummyInvariant /\ UNCHANGED vars => DummyInvariant'
  BY DEF vars, serverVars, accVars, clVars, DummyInvariant, TypeOK, Running,
         UnblockReachesAll, RegistryExact
<1> QED
  BY <1>1, StopInv, AcceptingInv, ClientInv DEF Next

(* A connection is registered from before its handler starts until it ends,   *)
(* whatever Stop comes between (dummy.go:109).                                *)
THEOREM InvariantCorrect == Spec => []DummyInvariant
BY InitInv, NextInv, PTL DEF Spec

(* No handler escapes the deadline that ends it at shutdown (dummy.go:89).     *)
THEOREM UnblockCorrect == Spec => []UnblockReachesAll
<1>1. DummyInvariant => UnblockReachesAll
  BY DEF DummyInvariant
<1> QED
  BY <1>1, InvariantCorrect, PTL

(* Before shutdown the registry holds no closed connection (dummy.go:114).     *)
THEOREM RegistryCorrect == Spec => []RegistryExact
<1>1. DummyInvariant => RegistryExact
  BY DEF DummyInvariant
<1> QED
  BY <1>1, InvariantCorrect, PTL
=============================================================================
