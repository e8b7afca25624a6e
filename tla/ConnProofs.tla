----------------------------- MODULE ConnProofs -----------------------------
(***************************************************************************)
(* Proofs about Conn for every set of calls: type correctness, mutual       *)
(* exclusion, and that a response is never paired with a foreign command.   *)
(***************************************************************************)
EXTENDS ConnInv, TLAPS

(* The commands, and the queues of commands.                                 *)
LEMMA MsgsFacts ==
  /\ SN \in Msgs /\ \A k \in Calls : k \in Msgs
  /\ <<>> \in Seq(Msgs)
  /\ \A s \in Seq(Msgs) : \A m \in Msgs : Append(s, m) \in Seq(Msgs)
  /\ \A s \in Seq(Msgs) : s # <<>> => Head(s) \in Msgs /\ Tail(s) \in Seq(Msgs)
  BY DEF Msgs

(* The steps of the system, one by one: what a proof about Next has to cover. *)
LEMMA NextCases ==
  ASSUME [Next]_vars,
         NEW P,
         \A k \in Calls : Invoke(k) => P,
         \A k \in Calls : Reject(k) => P,
         \A k \in Calls : Acquire(k) => P,
         \A k \in Calls : DialOk(k) => P,
         \A k \in Calls : DialFail(k) => P,
         \A k \in Calls : Send(k) => P,
         \A k \in Calls : WriteOk(k) => P,
         \A k \in Calls : WriteErr(k) => P,
         \A k \in Calls : ScanLine(k) => P,
         \A k \in Calls : ScanTail(k) => P,
         \A k \in Calls : ScanFail(k) => P,
         \A k \in Calls : Expire(k) => P,
         Close => P,
         \A e \in Calls : KeepDrain(e) => P,
         \A e \in Calls : KeepClosed(e) => P,
         \A e \in Calls : KeepTimer(e) => P,
         \A e \in Calls : KeepLocked(e) => P,
         \A e \in Calls : HostGreet(e) => P,
         \A e \in Calls : HostHandle(e) => P,
         HostFinish => P,
         \A e \in Calls : HostHangup(e) => P,
         UNCHANGED vars => P
  PROVE  P
  BY DEF Next, CallStep, KeepStep, HostStep

(* A Conn nobody has called yet (conn.go:51-58) is well formed.              *)
LEMMA TypeInit == Init => TypeOK
<1> SUFFICES ASSUME Init PROVE TypeOK
  OBVIOUS
<1>1. CallType
  BY MsgsFacts DEF Init, CallType
<1>2. ConnType
  BY MsgsFacts DEF Init, ConnType
<1>3. KeepType
  BY DEF Init, KeepType
<1>4. HostType
  BY MsgsFacts DEF Init, HostType
<1> QED
  BY <1>1, <1>2, <1>3, <1>4 DEF TypeOK

(* A return leaves the calls' variables in their domains.                    *)
LEMMA ReturnType ==
  ASSUME CallType, NEW k \in Calls, NEW of \in Msgs \union {Nil},
         NEW kind \in {"reply", "part", "prompt", "error"}, Return(k, kind, of)
  PROVE  CallType'
  BY MsgsFacts DEF CallType, Return

(* Every action keeps every variable in its domain.                          *)
LEMMA TypeStep == TypeOK /\ [Next]_vars => TypeOK'
<1> SUFFICES ASSUME TypeOK, [Next]_vars PROVE TypeOK'
  OBVIOUS
<1> USE MsgsFacts DEF TypeOK, callVars, scanVars, keepVars, hostVars
<1>1. ASSUME NEW k \in Calls, Invoke(k) PROVE TypeOK'
  BY <1>1 DEF CallType, ConnType, KeepType, HostType, Invoke
<1>2. ASSUME NEW k \in Calls, Reject(k) PROVE TypeOK'
  BY <1>2 DEF CallType, ConnType, KeepType, HostType, Reject
<1>3. ASSUME NEW k \in Calls, Acquire(k) PROVE TypeOK'
  BY <1>3 DEF CallType, ConnType, KeepType, HostType, Acquire
<1>4. ASSUME NEW k \in Calls, DialOk(k) PROVE TypeOK'
  <2>1. CallType'
    BY <1>4 DEF CallType, DialOk, InProgress
  <2>2. ConnType'
    BY <1>4 DEF ConnType, DialOk, InProgress
  <2>3. KeepType'
    BY <1>4 DEF KeepType, DialOk, InProgress
  <2>4. HostType'
    BY <1>4 DEF HostType, DialOk, InProgress
  <2> QED
    BY <2>1, <2>2, <2>3, <2>4
<1>5. ASSUME NEW k \in Calls, DialFail(k) PROVE TypeOK'
  BY <1>5 DEF CallType, ConnType, KeepType, HostType, DialFail, Return
<1>6. ASSUME NEW k \in Calls, Send(k) PROVE TypeOK'
  BY <1>6 DEF CallType, ConnType, KeepType, HostType, Send
<1>7. ASSUME NEW k \in Calls, WriteOk(k) PROVE TypeOK'
  <2>1. CallType'
    BY <1>7 DEF CallType, WriteOk
  <2>2. ConnType'
    BY <1>7 DEF ConnType, WriteOk
  <2>3. KeepType'
    BY <1>7 DEF KeepType, WriteOk
  <2>4. HostType'
    <3>1. CASE host[sock] = "closed"
      BY <1>7, <3>1 DEF HostType, WriteOk
    <3>2. CASE host[sock] # "closed"
      <4>1. cmd[k] \in Msgs
        BY DEF CallType
      <4>2. toHost' = [toHost EXCEPT ![sock] = Append(@, cmd[k])]
        BY <1>7, <3>2 DEF WriteOk
      <4>3. toHost' \in [Calls -> Seq(Msgs)]
        BY <4>1, <4>2 DEF HostType
      <4> QED
        BY <1>7, <4>3 DEF HostType, WriteOk
    <3> QED
      BY <3>1, <3>2
  <2> QED
    BY <2>1, <2>2, <2>3, <2>4
<1>8. ASSUME NEW k \in Calls, WriteErr(k) PROVE TypeOK'
  <2>1. CallType'
    BY <1>8 DEF CallType, WriteErr, Fail, Return, CloseLocked
  <2>2. ConnType'
    BY <1>8 DEF ConnType, WriteErr, Fail, Return, CloseLocked
  <2>3. KeepType'
    BY <1>8 DEF KeepType, WriteErr, Fail, Return, CloseLocked
  <2>4. HostType'
    BY <1>8 DEF HostType, WriteErr, Fail, Return, CloseLocked
  <2> QED
    BY <2>1, <2>2, <2>3, <2>4
<1>9. ASSUME NEW k \in Calls, ScanLine(k) PROVE TypeOK'
  <2>1. CallType'
    <3>1. Head(recv) \in Msgs
      BY <1>9 DEF ConnType, ScanLine
    <3>2. CASE cmd[k] = SN
      BY <1>9, <3>2 DEF CallType, ScanLine, Got
    <3>3. CASE cmd[k] # SN
      <4>1. Return(k, "reply", Head(recv))
        BY <1>9, <3>3 DEF ScanLine, Got
      <4> QED
        BY <3>1, <4>1, ReturnType
    <3> QED
      BY <3>2, <3>3
  <2>2. ConnType'
    BY <1>9 DEF ConnType, ScanLine, Got, Return
  <2>3. KeepType'
    BY <1>9 DEF KeepType, ScanLine, Got, Return
  <2>4. HostType'
    BY <1>9 DEF HostType, ScanLine, Got, Return
  <2> QED
    BY <2>1, <2>2, <2>3, <2>4
<1>10. ASSUME NEW k \in Calls, ScanTail(k) PROVE TypeOK'
  <2>1. CallType'
    <3>1. CASE cmd[k] = SN
      BY <1>10, <3>1 DEF CallType, ScanTail, Got
    <3>2. CASE cmd[k] # SN /\ tail = Prompt
      <4>1. Return(k, "prompt", Nil)
        BY <1>10, <3>2 DEF ScanTail, Got
      <4> QED
        BY <4>1, ReturnType
    <3>3. CASE cmd[k] # SN /\ tail # Prompt
      <4>1. tail \in Msgs
        BY <1>10, <3>3 DEF ConnType, ScanTail
      <4>2. Return(k, "part", tail)
        BY <1>10, <3>3 DEF ScanTail, Got
      <4> QED
        BY <4>1, <4>2, ReturnType
    <3> QED
      BY <3>1, <3>2, <3>3
  <2>2. ConnType'
    BY <1>10 DEF ConnType, ScanTail, Got, Return
  <2>3. KeepType'
    BY <1>10 DEF KeepType, ScanTail, Got, Return
  <2>4. HostType'
    BY <1>10 DEF HostType, ScanTail, Got, Return
  <2> QED
    BY <2>1, <2>2, <2>3, <2>4
<1>11. ASSUME NEW k \in Calls, ScanFail(k) PROVE TypeOK'
  <2>1. CallType'
    BY <1>11 DEF CallType, ScanFail, Fail, Return, CloseLocked
  <2>2. ConnType'
    BY <1>11 DEF ConnType, ScanFail, Fail, Return, CloseLocked
  <2>3. KeepType'
    BY <1>11 DEF KeepType, ScanFail, Fail, Return, CloseLocked
  <2>4. HostType'
    BY <1>11 DEF HostType, ScanFail, Fail, Return, CloseLocked
  <2> QED
    BY <2>1, <2>2, <2>3, <2>4
<1>12. ASSUME NEW k \in Calls, Expire(k) PROVE TypeOK'
  BY <1>12 DEF CallType, ConnType, KeepType, HostType, Expire
<1>13. ASSUME Close PROVE TypeOK'
  <2>1. CallType'
    BY <1>13 DEF CallType, Close, CloseLocked
  <2>2. ConnType'
    BY <1>13 DEF ConnType, Close, CloseLocked
  <2>3. KeepType'
    BY <1>13 DEF KeepType, Close, CloseLocked
  <2>4. HostType'
    BY <1>13 DEF HostType, Close, CloseLocked
  <2> QED
    BY <2>1, <2>2, <2>3, <2>4
<1>14. ASSUME NEW e \in Calls, KeepDrain(e) PROVE TypeOK'
  BY <1>14 DEF CallType, ConnType, KeepType, HostType, KeepDrain, InProgress
<1>15. ASSUME NEW e \in Calls, KeepClosed(e) PROVE TypeOK'
  BY <1>15 DEF CallType, ConnType, KeepType, HostType, KeepClosed
<1>16. ASSUME NEW e \in Calls, KeepTimer(e) PROVE TypeOK'
  BY <1>16 DEF CallType, ConnType, KeepType, HostType, KeepTimer
<1>17. ASSUME NEW e \in Calls, KeepLocked(e) PROVE TypeOK'
  <2>1. CallType'
    BY <1>17 DEF CallType, KeepLocked, CloseLocked
  <2>2. ConnType'
    BY <1>17 DEF ConnType, KeepLocked, CloseLocked
  <2>3. KeepType'
    BY <1>17 DEF KeepType, KeepLocked, CloseLocked
  <2>4. HostType'
    BY <1>17 DEF HostType, KeepLocked, CloseLocked
  <2> QED
    BY <2>1, <2>2, <2>3, <2>4
<1>18. ASSUME NEW e \in Calls, HostGreet(e) PROVE TypeOK'
  BY <1>18 DEF CallType, ConnType, KeepType, HostType, HostGreet
<1>19. ASSUME NEW e \in Calls, HostHandle(e) PROVE TypeOK'
  <2>1. CallType'
    BY <1>19 DEF CallType, HostHandle
  <2>2. ConnType'
    <3>1. Head(toHost[e]) \in Msgs
      BY <1>19 DEF HostType, HostHandle
    <3>2. recv' \in Seq(Msgs)
      BY <1>19, <3>1 DEF ConnType, HostHandle
    <3>3. tail' \in Msgs \union {Nil, Prompt}
      BY <1>19, <3>1 DEF ConnType, HostHandle
    <3> QED
      BY <1>19, <3>2, <3>3 DEF ConnType, HostHandle
  <2>3. KeepType'
    BY <1>19 DEF KeepType, HostHandle
  <2>4. HostType'
    BY <1>19 DEF HostType, HostHandle
  <2> QED
    BY <2>1, <2>2, <2>3, <2>4
<1>20. ASSUME HostFinish PROVE TypeOK'
  <2>1. CallType'
    BY <1>20 DEF CallType, HostFinish
  <2>2. ConnType'
    BY <1>20 DEF ConnType, HostFinish
  <2>3. KeepType'
    BY <1>20 DEF KeepType, HostFinish
  <2>4. HostType'
    BY <1>20 DEF HostType, HostFinish
  <2> QED
    BY <2>1, <2>2, <2>3, <2>4
<1>21. ASSUME NEW e \in Calls, HostHangup(e) PROVE TypeOK'
  <2>1. CallType'
    BY <1>21 DEF CallType, HostHangup
  <2>2. ConnType'
    BY <1>21 DEF ConnType, HostHangup
  <2>3. KeepType'
    BY <1>21 DEF KeepType, HostHangup
  <2>4. HostType'
    BY <1>21 DEF HostType, HostHangup
  <2> QED
    BY <2>1, <2>2, <2>3, <2>4
<1>22. ASSUME UNCHANGED vars PROVE TypeOK'
  BY <1>22 DEF vars, CallType, ConnType, KeepType, HostType
<1> HIDE DEF TypeOK
<1> QED
  BY <1>1, <1>2, <1>3, <1>4, <1>5, <1>6, <1>7, <1>8, <1>9, <1>10, <1>11,
     <1>12, <1>13, <1>14, <1>15, <1>16, <1>17, <1>18, <1>19, <1>20, <1>21,
     <1>22, NextCases

(* The connection's state is always well formed: the type invariant holds of *)
(* every behaviour, for every set of calls.                                  *)
THEOREM TypeCorrect == Spec => []TypeOK
  BY TypeInit, TypeStep, PTL DEF Spec

-----------------------------------------------------------------------------
(* The lock, the socket and the program counters stay in step: one case per  *)
(* action.                                                                   *)
LEMMA LockStep == TypeOK /\ LockInv /\ [Next]_vars => LockInv'
<1> SUFFICES ASSUME TypeOK, LockInv, [Next]_vars PROVE LockInv'
  OBVIOUS
<1> USE DistinctAssumption
    DEF LockInv, TypeOK, CallType, ConnType, KeepType, HostType, callVars,
        scanVars, keepVars, hostVars, LockOwner, SockParts, SockByPc,
        Undialed, CmdOwn
<1>1. ASSUME NEW k \in Calls, Invoke(k) PROVE LockInv'
  BY <1>1 DEF Invoke
<1>2. ASSUME NEW k \in Calls, Reject(k) PROVE LockInv'
  BY <1>2 DEF Reject
<1>3. ASSUME NEW k \in Calls, Acquire(k) PROVE LockInv'
  BY <1>3 DEF Acquire
<1>4. ASSUME NEW k \in Calls, DialOk(k) PROVE LockInv'
  BY <1>4 DEF DialOk, InProgress
<1>5. ASSUME NEW k \in Calls, DialFail(k) PROVE LockInv'
  BY <1>5 DEF DialFail, Return
<1>6. ASSUME NEW k \in Calls, Send(k) PROVE LockInv'
  BY <1>6 DEF Send
<1>7. ASSUME NEW k \in Calls, WriteOk(k) PROVE LockInv'
  BY <1>7 DEF WriteOk
<1>8. ASSUME NEW k \in Calls, WriteErr(k) PROVE LockInv'
  BY <1>8 DEF WriteErr, Fail, Return, CloseLocked
<1>9. ASSUME NEW k \in Calls, ScanLine(k) PROVE LockInv'
  <2>1. LockOwner'
    BY <1>9 DEF ScanLine, Got, Return
  <2>2. SockParts'
    BY <1>9 DEF ScanLine, Got, Return
  <2>3. SockByPc'
    BY <1>9 DEF ScanLine, Got, Return
  <2>4. Undialed'
    BY <1>9 DEF ScanLine, Got, Return
  <2>5. CmdOwn'
    BY <1>9 DEF ScanLine, Got, Return
  <2> QED
    BY <2>1, <2>2, <2>3, <2>4, <2>5
<1>10. ASSUME NEW k \in Calls, ScanTail(k) PROVE LockInv'
  <2>1. LockOwner'
    BY <1>10 DEF ScanTail, Got, Return
  <2>2. SockParts'
    BY <1>10 DEF ScanTail, Got, Return
  <2>3. SockByPc'
    BY <1>10 DEF ScanTail, Got, Return
  <2>4. Undialed'
    BY <1>10 DEF ScanTail, Got, Return
  <2>5. CmdOwn'
    BY <1>10 DEF ScanTail, Got, Return
  <2> QED
    BY <2>1, <2>2, <2>3, <2>4, <2>5
<1>11. ASSUME NEW k \in Calls, ScanFail(k) PROVE LockInv'
  BY <1>11 DEF ScanFail, Fail, Return, CloseLocked
<1>12. ASSUME NEW k \in Calls, Expire(k) PROVE LockInv'
  BY <1>12 DEF Expire
<1>13. ASSUME Close PROVE LockInv'
  BY <1>13 DEF Close, CloseLocked
<1>14. ASSUME NEW e \in Calls, KeepDrain(e) PROVE LockInv'
  BY <1>14 DEF KeepDrain, InProgress
<1>15. ASSUME NEW e \in Calls, KeepClosed(e) PROVE LockInv'
  BY <1>15 DEF KeepClosed
<1>16. ASSUME NEW e \in Calls, KeepTimer(e) PROVE LockInv'
  BY <1>16 DEF KeepTimer
<1>17. ASSUME NEW e \in Calls, KeepLocked(e) PROVE LockInv'
  BY <1>17 DEF KeepLocked, CloseLocked
<1>18. ASSUME NEW e \in Calls, HostGreet(e) PROVE LockInv'
  BY <1>18 DEF HostGreet
<1>19. ASSUME NEW e \in Calls, HostHandle(e) PROVE LockInv'
  BY <1>19 DEF HostHandle, Listening, Own, Stray
<1>20. ASSUME HostFinish PROVE LockInv'
  BY <1>20 DEF HostFinish, Listening
<1>21. ASSUME NEW e \in Calls, HostHangup(e) PROVE LockInv'
  BY <1>21 DEF HostHangup
<1>22. ASSUME UNCHANGED vars PROVE LockInv'
  BY <1>22 DEF vars
<1> HIDE DEF LockInv
<1> QED
  BY <1>1, <1>2, <1>3, <1>4, <1>5, <1>6, <1>7, <1>8, <1>9, <1>10, <1>11,
     <1>12, <1>13, <1>14, <1>15, <1>16, <1>17, <1>18, <1>19, <1>20, <1>21,
     <1>22, NextCases

-----------------------------------------------------------------------------
(* What is on its way on the open socket belongs to the call that scans it,  *)
(* and hence the answer it returns.                                          *)
LEMMA PairStep ==
  ASSUME Broadcast = FALSE, TypeOK, LockInv, PairInv, [Next]_vars PROVE PairInv'
<1> USE DistinctAssumption
    DEF LockInv, PairInv, TypeOK, ConnType, HostType,
        callVars, scanVars, keepVars, hostVars
<1>1. ASSUME NEW k \in Calls, Invoke(k) PROVE PairInv'
  BY <1>1
  DEF LockOwner, SockParts, SockByPc, Undialed, CmdOwn, CallType, Pairing,
       Quiet, Pending, Msgs, NoCrossTalk,
      Invoke
<1>2. ASSUME NEW k \in Calls, Reject(k) PROVE PairInv'
  BY <1>2
  DEF LockOwner, SockParts, SockByPc, Undialed, CmdOwn, CallType, Pairing,
       Quiet, Pending, Msgs, NoCrossTalk,
      Reject
<1>3. ASSUME NEW k \in Calls, Acquire(k) PROVE PairInv'
  BY <1>3
  DEF LockOwner, SockParts, SockByPc, Undialed, CmdOwn, CallType, Pairing,
       Quiet, Pending, Msgs, NoCrossTalk,
      Acquire
<1>4. ASSUME NEW k \in Calls, DialOk(k) PROVE PairInv'
  BY <1>4
  DEF LockOwner, SockParts, SockByPc, Undialed, CmdOwn, CallType, Pairing,
       Quiet, Pending, Msgs, NoCrossTalk,
      DialOk, InProgress
<1>5. ASSUME NEW k \in Calls, DialFail(k) PROVE PairInv'
  BY <1>5
  DEF LockOwner, SockParts, SockByPc, Undialed, CmdOwn, CallType, Pairing,
       Quiet, Pending, Msgs, NoCrossTalk,
      DialFail, Return
<1>6. ASSUME NEW k \in Calls, Send(k) PROVE PairInv'
  BY <1>6
  DEF LockOwner, SockParts, SockByPc, Undialed, CmdOwn, CallType, Pairing,
       Quiet, Pending, Msgs, NoCrossTalk,
      Send
<1>7. ASSUME NEW k \in Calls, WriteOk(k) PROVE PairInv'
  <2>1. Pairing'
    <3> SUFFICES ASSUME ~scanErr PROVE Pairing'
      BY <1>7 DEF Pairing, WriteOk
    <3>1. mu = k /\ sock \in Calls /\ Quiet
      BY <1>7 DEF WriteOk, LockOwner, SockByPc, Pairing
    <3>2. CASE host[sock] = "closed"
      BY <1>7, <3>1, <3>2 DEF WriteOk, Pairing, Quiet
    <3>3. CASE host[sock] # "closed"
      <4>1. toHost'[sock] = <<cmd[k]>>
        BY <1>7, <3>1, <3>3 DEF WriteOk, Quiet, CallType
      <4>2. mu' = k /\ pc'[k] = "scan" /\ cmd' = cmd /\ sock' = sock
        BY <1>7, <3>1 DEF WriteOk, CallType
      <4>3. Pending(cmd[k])'
        BY <1>7, <3>1, <4>1, <4>2 DEF WriteOk, Quiet, Pending
      <4> QED
        BY <3>1, <4>2, <4>3 DEF Pairing
    <3> QED
      BY <3>2, <3>3
  <2>2. NoCrossTalk'
    BY <1>7 DEF NoCrossTalk, WriteOk
  <2> QED
    BY <2>1, <2>2
<1>8. ASSUME NEW k \in Calls, WriteErr(k) PROVE PairInv'
  <2>1. Pairing'
    BY <1>8
    DEF LockOwner, SockParts, SockByPc, Undialed, CmdOwn, CallType, Pairing,
       Quiet, Pending, Msgs, WriteErr, Fail, Return, CloseLocked
  <2>2. NoCrossTalk'
    BY <1>8
    DEF LockOwner, SockByPc, CmdOwn, CallType, Pairing, Quiet, Pending,
        NoCrossTalk, Msgs, WriteErr, Fail, Return, CloseLocked
  <2> QED
    BY <2>1, <2>2
<1>9. ASSUME NEW k \in Calls, ScanLine(k) PROVE PairInv'
  <2>1. Pairing'
    <3>1. mu = k /\ sock # Nil
      BY <1>9 DEF ScanLine, LockOwner, SockByPc
    <3>2. toHost[sock] = <<>> /\ recv = <<cmd[k]>> /\ tail = Prompt
      BY <1>9, <3>1 DEF ScanLine, Pairing, Quiet, Pending
    <3>3. UNCHANGED <<sock, tail, toHost>> /\ recv' = <<>>
      BY <1>9, <3>2 DEF ScanLine
    <3> QED
      BY <3>2, <3>3 DEF Pairing, Quiet, Msgs
  <2>2. NoCrossTalk'
    BY <1>9
    DEF LockOwner, SockByPc, CmdOwn, CallType, Pairing, Quiet, Pending,
        NoCrossTalk, Msgs, ScanLine, Got, Return
  <2> QED
    BY <2>1, <2>2
<1>10. ASSUME NEW k \in Calls, ScanTail(k) PROVE PairInv'
  <2>1. Pairing'
    BY <1>10
    DEF LockOwner, SockParts, SockByPc, Undialed, CmdOwn, CallType, Pairing,
       Quiet, Pending, Msgs, ScanTail, Got, Return
  <2>2. NoCrossTalk'
    BY <1>10
    DEF LockOwner, SockByPc, CmdOwn, CallType, Pairing, Quiet, Pending,
        NoCrossTalk, Msgs, ScanTail, Got, Return
  <2> QED
    BY <2>1, <2>2
<1>11. ASSUME NEW k \in Calls, ScanFail(k) PROVE PairInv'
  <2>1. Pairing'
    BY <1>11
    DEF LockOwner, SockParts, SockByPc, Undialed, CmdOwn, CallType, Pairing,
       Quiet, Pending, Msgs, ScanFail, Fail, Return, CloseLocked
  <2>2. NoCrossTalk'
    BY <1>11
    DEF LockOwner, SockByPc, CmdOwn, CallType, Pairing, Quiet, Pending,
        NoCrossTalk, Msgs, ScanFail, Fail, Return, CloseLocked
  <2> QED
    BY <2>1, <2>2
<1>12. ASSUME NEW k \in Calls, Expire(k) PROVE PairInv'
  BY <1>12
  DEF LockOwner, SockParts, SockByPc, Undialed, CmdOwn, CallType, Pairing,
       Quiet, Pending, Msgs, NoCrossTalk,
      Expire
<1>13. ASSUME Close PROVE PairInv'
  BY <1>13
  DEF LockOwner, SockParts, SockByPc, Undialed, CmdOwn, CallType, Pairing,
       Quiet, Pending, Msgs, NoCrossTalk,
      Close, CloseLocked
<1>14. ASSUME NEW e \in Calls, KeepDrain(e) PROVE PairInv'
  BY <1>14
  DEF LockOwner, SockParts, SockByPc, Undialed, CmdOwn, CallType, Pairing,
       Quiet, Pending, Msgs, NoCrossTalk,
      KeepDrain, InProgress
<1>15. ASSUME NEW e \in Calls, KeepClosed(e) PROVE PairInv'
  BY <1>15
  DEF LockOwner, SockParts, SockByPc, Undialed, CmdOwn, CallType, Pairing,
       Quiet, Pending, Msgs, NoCrossTalk,
      KeepClosed
<1>16. ASSUME NEW e \in Calls, KeepTimer(e) PROVE PairInv'
  BY <1>16
  DEF LockOwner, SockParts, SockByPc, Undialed, CmdOwn, CallType, Pairing,
       Quiet, Pending, Msgs, NoCrossTalk,
      KeepTimer
<1>17. ASSUME NEW e \in Calls, KeepLocked(e) PROVE PairInv'
  BY <1>17
  DEF LockOwner, SockParts, SockByPc, Undialed, CmdOwn, CallType, Pairing,
       Quiet, Pending, Msgs, NoCrossTalk,
      KeepLocked, CloseLocked
<1>18. ASSUME NEW e \in Calls, HostGreet(e) PROVE PairInv'
  BY <1>18
  DEF LockOwner, SockParts, SockByPc, Undialed, CmdOwn, CallType, Pairing,
       Quiet, Pending, Msgs, NoCrossTalk,
      HostGreet
<1>19. ASSUME NEW e \in Calls, HostHandle(e) PROVE PairInv'
  <2>1. Pairing'
    <3> SUFFICES ASSUME sock # Nil, ~scanErr PROVE Pairing'
      BY <1>19 DEF Pairing, HostHandle
    <3>1. UNCHANGED <<pc, cmd, mu, sock, scanErr>>
      BY <1>19 DEF HostHandle
    <3>2. CASE e # sock
      BY <1>19, <3>1, <3>2 DEF HostHandle, Own, Stray, Pairing, Quiet, Pending
    <3>3. CASE e = sock
      <4>1. Own(e) /\ ~Stray(e)
        BY <1>19, <3>3 DEF HostHandle, Own, Stray, Listening
      <4>2. mu # Nil /\ pc[mu] = "scan"
        BY <1>19, <3>3 DEF HostHandle, Pairing, Quiet
      <4>3. toHost[sock] = <<cmd[mu]>> /\ recv = <<>>
        BY <1>19, <3>3 DEF HostHandle, Pairing, Quiet, Pending
      <4>4. tail' = cmd[mu] /\ recv' = <<>> /\ toHost'[sock] = <<>>
        BY <1>19, <3>3, <4>1, <4>3 DEF HostHandle
      <4> QED
        BY <3>1, <4>2, <4>4 DEF Pairing, Pending
    <3> QED
      BY <3>2, <3>3
  <2>2. NoCrossTalk'
    BY <1>19 DEF NoCrossTalk, HostHandle
  <2> QED
    BY <2>1, <2>2
<1>20. ASSUME HostFinish PROVE PairInv'
  <2>1. Pairing'
    <3>1. mu # Nil /\ pc[mu] = "scan" /\ Pending(cmd[mu])
      BY <1>20 DEF HostFinish, Listening, Pairing, Quiet
    <3>2. toHost[sock] = <<>> /\ recv = <<>> /\ tail = cmd[mu]
      BY <1>20, <3>1 DEF HostFinish, Pending, Msgs
    <3>3. recv' = <<cmd[mu]>>
      BY <1>20, <3>2 DEF HostFinish
    <3> QED
      BY <1>20, <3>1, <3>2, <3>3 DEF HostFinish, Pairing, Pending
  <2>2. NoCrossTalk'
    BY <1>20 DEF NoCrossTalk, HostFinish
  <2> QED
    BY <2>1, <2>2
<1>21. ASSUME NEW e \in Calls, HostHangup(e) PROVE PairInv'
  BY <1>21
  DEF LockOwner, SockParts, SockByPc, Undialed, CmdOwn, CallType, Pairing,
       Quiet, Pending, Msgs, NoCrossTalk,
      HostHangup
<1>22. ASSUME UNCHANGED vars PROVE PairInv'
  BY <1>22 DEF vars, Pairing, Quiet, Pending, NoCrossTalk
<1> HIDE DEF PairInv
<1> QED
  BY <1>1, <1>2, <1>3, <1>4, <1>5, <1>6, <1>7, <1>8, <1>9, <1>10, <1>11,
     <1>12, <1>13, <1>14, <1>15, <1>16, <1>17, <1>18, <1>19, <1>20, <1>21,
     <1>22, NextCases

-----------------------------------------------------------------------------
(* Every command is queued in one place, or executed once, and every answer  *)
(* is that of an executed command.                                           *)
LEMMA ExecStep ==
  ASSUME TypeOK, LockInv, ExecInv, [Next]_vars PROVE ExecInv'
<1> USE DistinctAssumption
    DEF LockInv, ExecInv, TypeOK, ConnType, HostType,
        callVars, scanVars, keepVars, hostVars
<1>1. ASSUME NEW k \in Calls, Invoke(k) PROVE ExecInv'
  BY <1>1
  DEF CallType, LockOwner, SockByPc, CmdOwn, Undialed, Unwritten,
      OpenUnanswered, QueuedUnrun,
      QueuedOnce, RunAtMostOnce, AnswersRun, Msgs,
      Invoke
<1>2. ASSUME NEW k \in Calls, Reject(k) PROVE ExecInv'
  BY <1>2
  DEF CallType, LockOwner, SockByPc, CmdOwn, Undialed, Unwritten,
      OpenUnanswered, QueuedUnrun,
      QueuedOnce, RunAtMostOnce, AnswersRun, Msgs,
      Reject
<1>3. ASSUME NEW k \in Calls, Acquire(k) PROVE ExecInv'
  BY <1>3
  DEF CallType, LockOwner, SockByPc, CmdOwn, Undialed, Unwritten,
      OpenUnanswered, QueuedUnrun,
      QueuedOnce, RunAtMostOnce, AnswersRun, Msgs,
      Acquire
<1>4. ASSUME NEW k \in Calls, DialOk(k) PROVE ExecInv'
  BY <1>4
  DEF CallType, LockOwner, SockByPc, CmdOwn, Undialed, Unwritten,
      OpenUnanswered, QueuedUnrun,
      QueuedOnce, RunAtMostOnce, AnswersRun, Msgs,
      DialOk, InProgress
<1>5. ASSUME NEW k \in Calls, DialFail(k) PROVE ExecInv'
  <2>1. OpenUnanswered'
    BY <1>5 DEF OpenUnanswered, CallType, Msgs,
                 DialFail, Return
  <2>2. QueuedUnrun'
    BY <1>5 DEF QueuedUnrun, Unwritten, CallType, CmdOwn, Msgs,
                 DialFail, Return
  <2>3. QueuedOnce'
    BY <1>5 DEF QueuedOnce, Msgs,
                 DialFail, Return
  <2>4. RunAtMostOnce'
    BY <1>5 DEF RunAtMostOnce, QueuedUnrun, Unwritten, CallType, CmdOwn, Msgs,
                 DialFail, Return
  <2>5. AnswersRun'
    BY <1>5 DEF AnswersRun, CallType, Msgs,
                 DialFail, Return
  <2> QED
    BY <2>1, <2>2, <2>3, <2>4, <2>5
<1>6. ASSUME NEW k \in Calls, Send(k) PROVE ExecInv'
  BY <1>6
  DEF CallType, LockOwner, SockByPc, CmdOwn, Undialed, Unwritten,
      OpenUnanswered, QueuedUnrun,
      QueuedOnce, RunAtMostOnce, AnswersRun, Msgs,
      Send
<1>7. ASSUME NEW k \in Calls, WriteOk(k) PROVE ExecInv'
  <2>1. OpenUnanswered'
    BY <1>7
    DEF CallType, LockOwner, SockByPc, CmdOwn, Undialed, Unwritten,
        OpenUnanswered, QueuedUnrun,
      QueuedOnce, RunAtMostOnce, AnswersRun, Msgs,
        WriteOk
  <2>2. QueuedUnrun'
    BY <1>7
    DEF CallType, LockOwner, SockByPc, CmdOwn, Undialed, Unwritten,
        OpenUnanswered, QueuedUnrun,
      QueuedOnce, RunAtMostOnce, AnswersRun, Msgs,
        WriteOk
  <2>3. QueuedOnce'
    <3>1. CASE host[sock] = "closed"
      BY <1>7, <3>1 DEF WriteOk, QueuedOnce
    <3>2. CASE host[sock] # "closed"
      <4> DEFINE q == toHost[sock]
      <4>1. sock \in Calls /\ q \in Seq(Msgs) /\ cmd[k] \in Msgs
        BY <1>7 DEF WriteOk, SockByPc, CallType
      <4>2. toHost' = [toHost EXCEPT ![sock] = Append(q, cmd[k])]
        BY <1>7, <3>2 DEF WriteOk
      <4>3. /\ \A e \in Calls : e # sock => toHost'[e] = toHost[e]
            /\ DOMAIN toHost'[sock] = DOMAIN q \union {Len(q) + 1}
            /\ Len(q) + 1 \notin DOMAIN q
            /\ \A i \in DOMAIN q : toHost'[sock][i] = q[i]
            /\ toHost'[sock][Len(q) + 1] = cmd[k]
        BY <4>1, <4>2
      <4>4. cmd[k] \in Calls =>
              \A e \in Calls : \A i \in DOMAIN toHost[e] : toHost[e][i] # cmd[k]
        <5>1. cmd[k] \in Calls => cmd[k] = k /\ Unwritten(k)
          BY <1>7 DEF WriteOk, Unwritten, CmdOwn
        <5> QED
          BY <5>1 DEF QueuedUnrun
      <4> HIDE DEF q
      <4> SUFFICES ASSUME NEW d \in Calls, NEW e \in Calls,
                          NEW i \in DOMAIN toHost'[d], NEW j \in DOMAIN toHost'[e],
                          toHost'[d][i] \in Calls, toHost'[d][i] = toHost'[e][j]
                   PROVE  d = e /\ i = j
        BY DEF QueuedOnce
      <4>5. d # sock \/ i \in DOMAIN q => i \in DOMAIN toHost[d] /\ toHost'[d][i] = toHost[d][i]
        BY <4>3 DEF q
      <4>6. e # sock \/ j \in DOMAIN q => j \in DOMAIN toHost[e] /\ toHost'[e][j] = toHost[e][j]
        BY <4>3 DEF q
      <4> QED
        BY <4>3, <4>4, <4>5, <4>6 DEF QueuedOnce
    <3> QED
      BY <3>1, <3>2
  <2>4. RunAtMostOnce'
    BY <1>7
    DEF CallType, LockOwner, SockByPc, CmdOwn, Undialed, Unwritten,
        OpenUnanswered, QueuedUnrun,
      QueuedOnce, RunAtMostOnce, AnswersRun, Msgs,
        WriteOk
  <2>5. AnswersRun'
    BY <1>7
    DEF CallType, LockOwner, SockByPc, CmdOwn, Undialed, Unwritten,
        OpenUnanswered, QueuedUnrun,
      QueuedOnce, RunAtMostOnce, AnswersRun, Msgs,
        WriteOk
  <2> QED
    BY <2>1, <2>2, <2>3, <2>4, <2>5
<1>8. ASSUME NEW k \in Calls, WriteErr(k) PROVE ExecInv'
  <2>1. OpenUnanswered'
    BY <1>8 DEF OpenUnanswered, CallType, Msgs,
                 WriteErr, Fail, Return, CloseLocked
  <2>2. QueuedUnrun'
    BY <1>8 DEF QueuedUnrun, Unwritten, CallType, CmdOwn, Msgs,
                 WriteErr, Fail, Return, CloseLocked
  <2>3. QueuedOnce'
    BY <1>8 DEF QueuedOnce, Msgs,
                 WriteErr, Fail, Return, CloseLocked
  <2>4. RunAtMostOnce'
    BY <1>8 DEF RunAtMostOnce, QueuedUnrun, Unwritten, CallType, CmdOwn, Msgs,
                 WriteErr, Fail, Return, CloseLocked
  <2>5. AnswersRun'
    BY <1>8 DEF AnswersRun, CallType, Msgs,
                 WriteErr, Fail, Return, CloseLocked
  <2> QED
    BY <2>1, <2>2, <2>3, <2>4, <2>5
<1>9. ASSUME NEW k \in Calls, ScanLine(k) PROVE ExecInv'
  <2>1. OpenUnanswered'
    <3>1. CASE cmd[k] = SN
      BY <1>9, <3>1 DEF OpenUnanswered, CallType, ScanLine, Got
    <3>2. CASE cmd[k] # SN
      BY <1>9, <3>2 DEF OpenUnanswered, CallType, ScanLine, Got, Return
    <3> QED
      BY <3>1, <3>2
  <2>2. QueuedUnrun'
    <3>1. UNCHANGED <<toHost, runs>>
      BY <1>9 DEF ScanLine
    <3>2. \A j \in Calls : Unwritten(j)' => Unwritten(j)
      BY <1>9 DEF ScanLine, Got, Return, Unwritten, CallType
    <3> QED
      BY <3>1, <3>2 DEF QueuedUnrun
  <2>3. QueuedOnce'
    BY <1>9 DEF QueuedOnce, Msgs,
                 ScanLine, Got, Return
  <2>4. RunAtMostOnce'
    <3>1. UNCHANGED <<toHost, runs>>
      BY <1>9 DEF ScanLine
    <3>2. \A j \in Calls : Unwritten(j)' => Unwritten(j)
      BY <1>9 DEF ScanLine, Got, Return, Unwritten, CallType
    <3> QED
      BY <3>1, <3>2 DEF RunAtMostOnce
  <2>5. AnswersRun'
    <3>1. /\ recv[1] = Head(recv) /\ 1 \in DOMAIN recv
          /\ \A i \in DOMAIN recv' : i + 1 \in DOMAIN recv /\ recv'[i] = recv[i + 1]
      BY <1>9 DEF ScanLine
    <3>2. \A i \in DOMAIN recv' : recv'[i] \in Calls => runs[recv'[i]] = 1
      BY <3>1 DEF AnswersRun
    <3>3. Head(recv) \in Calls => runs[Head(recv)] = 1
      BY <3>1 DEF AnswersRun
    <3>4. UNCHANGED <<tail, runs>>
      BY <1>9 DEF ScanLine
    <3>5. \A j \in Calls : answers'[j] \in {answers[j], Head(recv)}
      <4>1. CASE cmd[k] = SN
        BY <1>9, <4>1 DEF ScanLine, Got
      <4>2. CASE cmd[k] # SN
        BY <1>9, <4>2 DEF ScanLine, Got, Return, CallType
      <4> QED
        BY <4>1, <4>2
    <3> QED
      BY <3>2, <3>3, <3>4, <3>5 DEF AnswersRun
  <2> QED
    BY <2>1, <2>2, <2>3, <2>4, <2>5
<1>10. ASSUME NEW k \in Calls, ScanTail(k) PROVE ExecInv'
  <2>1. OpenUnanswered'
    BY <1>10 DEF OpenUnanswered, CallType, Msgs,
                 ScanTail, Got, Return
  <2>2. QueuedUnrun'
    <3>1. UNCHANGED <<toHost, runs>>
      BY <1>10 DEF ScanTail
    <3>2. \A j \in Calls : Unwritten(j)' => Unwritten(j)
      BY <1>10 DEF ScanTail, Got, Return, Unwritten, CallType
    <3> QED
      BY <3>1, <3>2 DEF QueuedUnrun
  <2>3. QueuedOnce'
    BY <1>10 DEF QueuedOnce, Msgs,
                 ScanTail, Got, Return
  <2>4. RunAtMostOnce'
    BY <1>10 DEF RunAtMostOnce, QueuedUnrun, Unwritten, CallType, CmdOwn, Msgs,
                 ScanTail, Got, Return
  <2>5. AnswersRun'
    <3>1. UNCHANGED <<recv, runs>> /\ tail' = Nil
      BY <1>10 DEF ScanTail
    <3>2. \A j \in Calls : answers'[j] \in {answers[j], Nil, tail}
      <4>1. CASE cmd[k] = SN
        BY <1>10, <4>1 DEF ScanTail, Got
      <4>2. CASE cmd[k] # SN
        BY <1>10, <4>2 DEF ScanTail, Got, Return, CallType
      <4> QED
        BY <4>1, <4>2
    <3> QED
      BY <3>1, <3>2 DEF AnswersRun
  <2> QED
    BY <2>1, <2>2, <2>3, <2>4, <2>5
<1>11. ASSUME NEW k \in Calls, ScanFail(k) PROVE ExecInv'
  <2>1. OpenUnanswered'
    BY <1>11 DEF OpenUnanswered, CallType, Msgs,
                 ScanFail, Fail, Return, CloseLocked
  <2>2. QueuedUnrun'
    BY <1>11 DEF QueuedUnrun, Unwritten, CallType, CmdOwn, Msgs,
                 ScanFail, Fail, Return, CloseLocked
  <2>3. QueuedOnce'
    BY <1>11 DEF QueuedOnce, Msgs,
                 ScanFail, Fail, Return, CloseLocked
  <2>4. RunAtMostOnce'
    BY <1>11 DEF RunAtMostOnce, QueuedUnrun, Unwritten, CallType, CmdOwn, Msgs,
                 ScanFail, Fail, Return, CloseLocked
  <2>5. AnswersRun'
    BY <1>11 DEF AnswersRun, CallType, Msgs,
                 ScanFail, Fail, Return, CloseLocked
  <2> QED
    BY <2>1, <2>2, <2>3, <2>4, <2>5
<1>12. ASSUME NEW k \in Calls, Expire(k) PROVE ExecInv'
  BY <1>12
  DEF CallType, LockOwner, SockByPc, CmdOwn, Undialed, Unwritten,
      OpenUnanswered, QueuedUnrun,
      QueuedOnce, RunAtMostOnce, AnswersRun, Msgs,
      Expire
<1>13. ASSUME Close PROVE ExecInv'
  BY <1>13
  DEF CallType, LockOwner, SockByPc, CmdOwn, Undialed, Unwritten,
      OpenUnanswered, QueuedUnrun,
      QueuedOnce, RunAtMostOnce, AnswersRun, Msgs,
      Close, CloseLocked
<1>14. ASSUME NEW e \in Calls, KeepDrain(e) PROVE ExecInv'
  BY <1>14
  DEF CallType, LockOwner, SockByPc, CmdOwn, Undialed, Unwritten,
      OpenUnanswered, QueuedUnrun,
      QueuedOnce, RunAtMostOnce, AnswersRun, Msgs,
      KeepDrain, InProgress
<1>15. ASSUME NEW e \in Calls, KeepClosed(e) PROVE ExecInv'
  BY <1>15
  DEF CallType, LockOwner, SockByPc, CmdOwn, Undialed, Unwritten,
      OpenUnanswered, QueuedUnrun,
      QueuedOnce, RunAtMostOnce, AnswersRun, Msgs,
      KeepClosed
<1>16. ASSUME NEW e \in Calls, KeepTimer(e) PROVE ExecInv'
  BY <1>16
  DEF CallType, LockOwner, SockByPc, CmdOwn, Undialed, Unwritten,
      OpenUnanswered, QueuedUnrun,
      QueuedOnce, RunAtMostOnce, AnswersRun, Msgs,
      KeepTimer
<1>17. ASSUME NEW e \in Calls, KeepLocked(e) PROVE ExecInv'
  BY <1>17
  DEF CallType, LockOwner, SockByPc, CmdOwn, Undialed, Unwritten,
      OpenUnanswered, QueuedUnrun,
      QueuedOnce, RunAtMostOnce, AnswersRun, Msgs,
      KeepLocked, CloseLocked
<1>18. ASSUME NEW e \in Calls, HostGreet(e) PROVE ExecInv'
  BY <1>18
  DEF CallType, LockOwner, SockByPc, CmdOwn, Undialed, Unwritten,
      OpenUnanswered, QueuedUnrun,
      QueuedOnce, RunAtMostOnce, AnswersRun, Msgs,
      HostGreet
<1>19. ASSUME NEW e \in Calls, HostHandle(e) PROVE ExecInv'
  <2>1. OpenUnanswered'
    BY <1>19
    DEF CallType, LockOwner, SockByPc, CmdOwn, Undialed, Unwritten,
        OpenUnanswered, QueuedUnrun,
      QueuedOnce, RunAtMostOnce, AnswersRun, Msgs,
        HostHandle, Listening, Own, Stray
  <2>2. QueuedUnrun'
    BY <1>19
    DEF CallType, LockOwner, SockByPc, CmdOwn, Undialed, Unwritten,
        OpenUnanswered, QueuedUnrun,
      QueuedOnce, RunAtMostOnce, AnswersRun, Msgs,
        HostHandle, Listening, Own, Stray
  <2>3. QueuedOnce'
    <3> DEFINE q == toHost[e]
    <3>1. q \in Seq(Msgs) /\ q # <<>>
      BY <1>19 DEF HostHandle
    <3>2. toHost' = [toHost EXCEPT ![e] = Tail(q)]
      BY <1>19 DEF HostHandle
    <3>3. /\ \A d \in Calls : d # e => toHost'[d] = toHost[d]
          /\ \A i \in DOMAIN toHost'[e] :
               i \in Nat /\ i + 1 \in DOMAIN q /\ toHost'[e][i] = q[i + 1]
      BY <3>1, <3>2
    <3>4. \A i, j \in Nat : i + 1 = j + 1 => i = j
      OBVIOUS
    <3> SUFFICES ASSUME NEW d \in Calls, NEW c \in Calls,
                        NEW i \in DOMAIN toHost'[d], NEW j \in DOMAIN toHost'[c],
                        toHost'[d][i] \in Calls, toHost'[d][i] = toHost'[c][j]
                 PROVE  d = c /\ i = j
      BY DEF QueuedOnce
    <3> HIDE DEF q
    <3>5. PICK m \in DOMAIN toHost[d] :
            toHost'[d][i] = toHost[d][m] /\ m = IF d = e THEN i + 1 ELSE i
      BY <3>3 DEF q
    <3>6. PICK n \in DOMAIN toHost[c] :
            toHost'[c][j] = toHost[c][n] /\ n = IF c = e THEN j + 1 ELSE j
      BY <3>3 DEF q
    <3>7. d = c /\ m = n
      <4>1. toHost[d][m] \in Calls /\ toHost[d][m] = toHost[c][n]
        BY <3>5, <3>6
      <4> QED
        BY <4>1 DEF QueuedOnce
    <3> QED
      BY <3>3, <3>4, <3>5, <3>6, <3>7
  <2>4. RunAtMostOnce'
    BY <1>19
    DEF CallType, LockOwner, SockByPc, CmdOwn, Undialed, Unwritten,
        OpenUnanswered, QueuedUnrun,
      QueuedOnce, RunAtMostOnce, AnswersRun, Msgs,
        HostHandle, Listening, Own, Stray
  <2>5. AnswersRun'
    BY <1>19
    DEF CallType, LockOwner, SockByPc, CmdOwn, Undialed, Unwritten,
        OpenUnanswered, QueuedUnrun,
      QueuedOnce, RunAtMostOnce, AnswersRun, Msgs,
        HostHandle, Listening, Own, Stray
  <2> QED
    BY <2>1, <2>2, <2>3, <2>4, <2>5
<1>20. ASSUME HostFinish PROVE ExecInv'
  <2>1. OpenUnanswered'
    BY <1>20 DEF OpenUnanswered, CallType, Msgs,
                 HostFinish, Listening
  <2>2. QueuedUnrun'
    BY <1>20 DEF QueuedUnrun, Unwritten, CallType, CmdOwn, Msgs,
                 HostFinish, Listening
  <2>3. QueuedOnce'
    BY <1>20 DEF QueuedOnce, Msgs,
                 HostFinish, Listening
  <2>4. RunAtMostOnce'
    BY <1>20 DEF RunAtMostOnce, QueuedUnrun, Unwritten, CallType, CmdOwn, Msgs,
                 HostFinish, Listening
  <2>5. AnswersRun'
    <3>1. /\ DOMAIN recv' = DOMAIN recv \union {Len(recv) + 1}
          /\ \A i \in DOMAIN recv : recv'[i] = recv[i]
          /\ recv'[Len(recv) + 1] = tail
      BY <1>20, MsgsFacts DEF HostFinish
    <3> QED
      BY <1>20, <3>1 DEF HostFinish, AnswersRun
  <2> QED
    BY <2>1, <2>2, <2>3, <2>4, <2>5
<1>21. ASSUME NEW e \in Calls, HostHangup(e) PROVE ExecInv'
  BY <1>21
  DEF CallType, LockOwner, SockByPc, CmdOwn, Undialed, Unwritten,
      OpenUnanswered, QueuedUnrun,
      QueuedOnce, RunAtMostOnce, AnswersRun, Msgs,
      HostHangup
<1>22. ASSUME UNCHANGED vars PROVE ExecInv'
  BY <1>22
  DEF vars, Unwritten, OpenUnanswered, QueuedUnrun, QueuedOnce, RunAtMostOnce,
      AnswersRun
<1> HIDE DEF ExecInv
<1> QED
  BY <1>1, <1>2, <1>3, <1>4, <1>5, <1>6, <1>7, <1>8, <1>9, <1>10, <1>11,
     <1>12, <1>13, <1>14, <1>15, <1>16, <1>17, <1>18, <1>19, <1>20, <1>21,
     <1>22, NextCases

-----------------------------------------------------------------------------
(* The three parts of the invariant hold at the start.                       *)
LEMMA LockInit == Init => LockInv
  BY DistinctAssumption
  DEF Init, LockInv, LockOwner, SockParts, SockByPc, Undialed, CmdOwn

(* A Conn without a socket has nothing on its way and has returned nothing.  *)
LEMMA PairInit == Init => PairInv
  BY DEF Init, PairInv, Pairing, NoCrossTalk

(* Before the first call nothing is queued, executed or answered.            *)
LEMMA ExecInit == Init => ExecInv
  BY DistinctAssumption
  DEF Init, ExecInv, OpenUnanswered, QueuedUnrun, QueuedOnce, RunAtMostOnce,
      AnswersRun

(* The lock discipline and the state of the connection always agree.         *)
THEOREM LockCorrect == Spec => [](TypeOK /\ LockInv)
  BY TypeInit, TypeStep, LockInit, LockStep, PTL DEF Spec

(* Mutual exclusion: RoundTrip's critical section has one call in it.        *)
THEOREM LockOwnerCorrect == Spec => []LockOwner
  BY LockCorrect, PTL DEF LockInv

(* writeLocked never sends on a nil or closed keepalive channel.             *)
THEOREM SendHasChannelCorrect == Spec => []SendHasChannel
<1>1. TypeOK /\ LockInv => SendHasChannel
  BY
  DEF TypeOK, ConnType, LockInv, SockParts, SockByPc, Undialed, SendHasChannel
<1> QED
  BY <1>1, LockCorrect, PTL

(* A command runs at most once, and a returned reply is evidence that it     *)
(* ran, whether or not the host broadcasts.                                  *)
THEOREM ExecutedOnceCorrect == Spec => []ExecutedOnce
<1>1. ExecInv => ExecutedOnce
  BY DEF ExecInv, RunAtMostOnce, AnswersRun, ExecutedOnce
<1> QED
  BY <1>1, LockCorrect, ExecInit, ExecStep, PTL DEF Spec

(* No call returns the reply to another command, when the host answers on    *)
(* one connection only; a late answer that is broadcast would be returned to *)
(* another call.                                                             *)
THEOREM NoCrossTalkCorrect ==
  ASSUME Broadcast = FALSE PROVE Spec => []NoCrossTalk
<1>1. TypeOK /\ LockInv /\ PairInv /\ [Next]_vars => PairInv'
  BY PairStep
<1>2. PairInv => NoCrossTalk
  BY DEF PairInv
<1> QED
  BY <1>1, <1>2, LockCorrect, PairInit, PTL DEF Spec

(* The inductive invariant holds of every behaviour.                         *)
THEOREM IInvCorrect ==
  ASSUME Broadcast = FALSE PROVE Spec => []IInv
<1>1. TypeOK /\ LockInv /\ PairInv /\ [Next]_vars => PairInv'
  BY PairStep
<1>2. IInv <=> TypeOK /\ LockInv /\ PairInv /\ ExecInv
  BY DEF IInv
<1> QED
  BY <1>1, <1>2, LockCorrect, PairInit, ExecInit, ExecStep, PTL DEF Spec

(* The action formulas of LockProtects and EpochOwnsClose.                   *)
LockStable ==
  \A k \in Calls :
    mu = k /\ mu' = k /\ sock # Nil => sock' = sock /\ keepAlive' = keepAlive

EpochStable ==
  \A e \in Calls :
    kpc[e] = "lock" /\ kpc'[e] = "exit" /\ sock # e => sock' = sock
(* What a step can do to the socket of a call that keeps the lock.           *)
LEMMA LockProtectsStep ==
  ASSUME TypeOK, LockInv, [Next]_vars PROVE LockStable
<1> USE DistinctAssumption
    DEF LockStable, TypeOK, LockInv, callVars, scanVars, keepVars, hostVars,
        LockOwner, SockByPc, CallType
<1>1. ASSUME NEW k \in Calls, Invoke(k) PROVE LockStable
  BY <1>1 DEF Invoke
<1>2. ASSUME NEW k \in Calls, Reject(k) PROVE LockStable
  BY <1>2 DEF Reject
<1>3. ASSUME NEW k \in Calls, Acquire(k) PROVE LockStable
  BY <1>3 DEF Acquire
<1>4. ASSUME NEW k \in Calls, DialOk(k) PROVE LockStable
  BY <1>4 DEF DialOk, InProgress
<1>5. ASSUME NEW k \in Calls, DialFail(k) PROVE LockStable
  BY <1>5 DEF DialFail, Return
<1>6. ASSUME NEW k \in Calls, Send(k) PROVE LockStable
  BY <1>6 DEF Send
<1>7. ASSUME NEW k \in Calls, WriteOk(k) PROVE LockStable
  BY <1>7 DEF WriteOk
<1>8. ASSUME NEW k \in Calls, WriteErr(k) PROVE LockStable
  BY <1>8 DEF WriteErr, Fail, Return, CloseLocked
<1>9. ASSUME NEW k \in Calls, ScanLine(k) PROVE LockStable
  BY <1>9 DEF ScanLine, Got, Return
<1>10. ASSUME NEW k \in Calls, ScanTail(k) PROVE LockStable
  BY <1>10 DEF ScanTail, Got, Return
<1>11. ASSUME NEW k \in Calls, ScanFail(k) PROVE LockStable
  BY <1>11 DEF ScanFail, Fail, Return, CloseLocked
<1>12. ASSUME NEW k \in Calls, Expire(k) PROVE LockStable
  BY <1>12 DEF Expire
<1>13. ASSUME Close PROVE LockStable
  BY <1>13 DEF Close, CloseLocked
<1>14. ASSUME NEW e \in Calls, KeepDrain(e) PROVE LockStable
  BY <1>14 DEF KeepDrain, InProgress
<1>15. ASSUME NEW e \in Calls, KeepClosed(e) PROVE LockStable
  BY <1>15 DEF KeepClosed
<1>16. ASSUME NEW e \in Calls, KeepTimer(e) PROVE LockStable
  BY <1>16 DEF KeepTimer
<1>17. ASSUME NEW e \in Calls, KeepLocked(e) PROVE LockStable
  BY <1>17 DEF KeepLocked, CloseLocked
<1>18. ASSUME NEW e \in Calls, HostGreet(e) PROVE LockStable
  BY <1>18 DEF HostGreet
<1>19. ASSUME NEW e \in Calls, HostHandle(e) PROVE LockStable
  BY <1>19 DEF HostHandle
<1>20. ASSUME HostFinish PROVE LockStable
  BY <1>20 DEF HostFinish
<1>21. ASSUME NEW e \in Calls, HostHangup(e) PROVE LockStable
  BY <1>21 DEF HostHangup
<1>22. ASSUME UNCHANGED vars PROVE LockStable
  BY <1>22 DEF vars
<1> HIDE DEF LockStable
<1> QED
  BY <1>1, <1>2, <1>3, <1>4, <1>5, <1>6, <1>7, <1>8, <1>9, <1>10, <1>11,
     <1>12, <1>13, <1>14, <1>15, <1>16, <1>17, <1>18, <1>19, <1>20, <1>21,
     <1>22, NextCases

(* What a keepalive goroutine that leaves can do to the socket of a later    *)
(* epoch.                                                                    *)
LEMMA EpochStep ==
  ASSUME TypeOK, LockInv, [Next]_vars PROVE EpochStable
<1> USE DistinctAssumption
    DEF EpochStable, TypeOK, LockInv, callVars, scanVars, keepVars,
        hostVars, SockParts, KeepType, Undialed, CallType
<1>1. ASSUME NEW k \in Calls, Invoke(k) PROVE EpochStable
  BY <1>1 DEF Invoke
<1>2. ASSUME NEW k \in Calls, Reject(k) PROVE EpochStable
  BY <1>2 DEF Reject
<1>3. ASSUME NEW k \in Calls, Acquire(k) PROVE EpochStable
  BY <1>3 DEF Acquire
<1>4. ASSUME NEW k \in Calls, DialOk(k) PROVE EpochStable
  BY <1>4 DEF DialOk, InProgress
<1>5. ASSUME NEW k \in Calls, DialFail(k) PROVE EpochStable
  BY <1>5 DEF DialFail, Return
<1>6. ASSUME NEW k \in Calls, Send(k) PROVE EpochStable
  BY <1>6 DEF Send
<1>7. ASSUME NEW k \in Calls, WriteOk(k) PROVE EpochStable
  BY <1>7 DEF WriteOk
<1>8. ASSUME NEW k \in Calls, WriteErr(k) PROVE EpochStable
  BY <1>8 DEF WriteErr, Fail, Return, CloseLocked
<1>9. ASSUME NEW k \in Calls, ScanLine(k) PROVE EpochStable
  BY <1>9 DEF ScanLine, Got, Return
<1>10. ASSUME NEW k \in Calls, ScanTail(k) PROVE EpochStable
  BY <1>10 DEF ScanTail, Got, Return
<1>11. ASSUME NEW k \in Calls, ScanFail(k) PROVE EpochStable
  BY <1>11 DEF ScanFail, Fail, Return, CloseLocked
<1>12. ASSUME NEW k \in Calls, Expire(k) PROVE EpochStable
  BY <1>12 DEF Expire
<1>13. ASSUME Close PROVE EpochStable
  BY <1>13 DEF Close, CloseLocked
<1>14. ASSUME NEW e \in Calls, KeepDrain(e) PROVE EpochStable
  BY <1>14 DEF KeepDrain, InProgress
<1>15. ASSUME NEW e \in Calls, KeepClosed(e) PROVE EpochStable
  BY <1>15 DEF KeepClosed
<1>16. ASSUME NEW e \in Calls, KeepTimer(e) PROVE EpochStable
  BY <1>16 DEF KeepTimer
<1>17. ASSUME NEW e \in Calls, KeepLocked(e) PROVE EpochStable
  BY <1>17 DEF KeepLocked, CloseLocked
<1>18. ASSUME NEW e \in Calls, HostGreet(e) PROVE EpochStable
  BY <1>18 DEF HostGreet
<1>19. ASSUME NEW e \in Calls, HostHandle(e) PROVE EpochStable
  BY <1>19 DEF HostHandle
<1>20. ASSUME HostFinish PROVE EpochStable
  BY <1>20 DEF HostFinish
<1>21. ASSUME NEW e \in Calls, HostHangup(e) PROVE EpochStable
  BY <1>21 DEF HostHangup
<1>22. ASSUME UNCHANGED vars PROVE EpochStable
  BY <1>22 DEF vars
<1> HIDE DEF EpochStable
<1> QED
  BY <1>1, <1>2, <1>3, <1>4, <1>5, <1>6, <1>7, <1>8, <1>9, <1>10, <1>11,
     <1>12, <1>13, <1>14, <1>15, <1>16, <1>17, <1>18, <1>19, <1>20, <1>21,
     <1>22, NextCases

(* No action undoes a wedge.                                                 *)
LEMMA WedgeStep ==
  ASSUME TypeOK, LockInv, Wedged, [Next]_vars PROVE Wedged'
<1> USE DistinctAssumption
    DEF TypeOK, LockInv, callVars, scanVars, keepVars, hostVars, LockOwner,
        SockParts, SockByPc, Wedged, CallType, ConnType, KeepType
<1>1. ASSUME NEW k \in Calls, Invoke(k) PROVE Wedged'
  BY <1>1 DEF Invoke
<1>2. ASSUME NEW k \in Calls, Reject(k) PROVE Wedged'
  BY <1>2 DEF Reject
<1>3. ASSUME NEW k \in Calls, Acquire(k) PROVE Wedged'
  BY <1>3 DEF Acquire
<1>4. ASSUME NEW k \in Calls, DialOk(k) PROVE Wedged'
  BY <1>4 DEF DialOk, InProgress
<1>5. ASSUME NEW k \in Calls, DialFail(k) PROVE Wedged'
  BY <1>5 DEF DialFail, Return
<1>6. ASSUME NEW k \in Calls, Send(k) PROVE Wedged'
  BY <1>6 DEF Send
<1>7. ASSUME NEW k \in Calls, WriteOk(k) PROVE Wedged'
  BY <1>7 DEF WriteOk
<1>8. ASSUME NEW k \in Calls, WriteErr(k) PROVE Wedged'
  BY <1>8 DEF WriteErr, Fail, Return, CloseLocked
<1>9. ASSUME NEW k \in Calls, ScanLine(k) PROVE Wedged'
  BY <1>9 DEF ScanLine, Got, Return
<1>10. ASSUME NEW k \in Calls, ScanTail(k) PROVE Wedged'
  BY <1>10 DEF ScanTail, Got, Return
<1>11. ASSUME NEW k \in Calls, ScanFail(k) PROVE Wedged'
  BY <1>11 DEF ScanFail, Fail, Return, CloseLocked
<1>12. ASSUME NEW k \in Calls, Expire(k) PROVE Wedged'
  BY <1>12 DEF Expire
<1>13. ASSUME Close PROVE Wedged'
  BY <1>13 DEF Close, CloseLocked
<1>14. ASSUME NEW e \in Calls, KeepDrain(e) PROVE Wedged'
  BY <1>14 DEF KeepDrain, InProgress
<1>15. ASSUME NEW e \in Calls, KeepClosed(e) PROVE Wedged'
  BY <1>15 DEF KeepClosed
<1>16. ASSUME NEW e \in Calls, KeepTimer(e) PROVE Wedged'
  BY <1>16 DEF KeepTimer
<1>17. ASSUME NEW e \in Calls, KeepLocked(e) PROVE Wedged'
  BY <1>17 DEF KeepLocked, CloseLocked
<1>18. ASSUME NEW e \in Calls, HostGreet(e) PROVE Wedged'
  BY <1>18 DEF HostGreet
<1>19. ASSUME NEW e \in Calls, HostHandle(e) PROVE Wedged'
  BY <1>19 DEF HostHandle
<1>20. ASSUME HostFinish PROVE Wedged'
  BY <1>20 DEF HostFinish
<1>21. ASSUME NEW e \in Calls, HostHangup(e) PROVE Wedged'
  BY <1>21 DEF HostHangup
<1>22. ASSUME UNCHANGED vars PROVE Wedged'
  BY <1>22 DEF vars
<1> HIDE DEF TypeOK
<1> QED
  BY <1>1, <1>2, <1>3, <1>4, <1>5, <1>6, <1>7, <1>8, <1>9, <1>10, <1>11,
     <1>12, <1>13, <1>14, <1>15, <1>16, <1>17, <1>18, <1>19, <1>20, <1>21,
     <1>22, NextCases

(* While a call holds the lock, its socket is neither replaced nor closed    *)
(* by anybody else.                                                          *)
THEOREM LockProtectsCorrect == Spec => LockProtects
<1>1. TypeOK /\ LockInv /\ [Next]_vars => [LockStable]_vars
  BY LockProtectsStep
<1> QED
  BY <1>1, LockCorrect, PTL DEF Spec, LockProtects, LockStable

(* A stale keepalive goroutine leaves the connection of a later epoch        *)
(* alone.                                                                    *)
THEOREM EpochCorrect == Spec => EpochOwnsClose
<1>1. TypeOK /\ LockInv /\ [Next]_vars => [EpochStable]_vars
  BY EpochStep
<1> QED
  BY <1>1, LockCorrect, PTL DEF Spec, EpochOwnsClose, EpochStable

(* Once the lock holder and the keepalive goroutine wait for one another,    *)
(* they do so forever.                                                       *)
THEOREM WedgeCorrect == Spec => WedgeIsForever
<1>1. TypeOK /\ LockInv /\ [Next]_vars => [Wedged => Wedged']_vars
  BY WedgeStep
<1> QED
  BY <1>1, LockCorrect, PTL DEF Spec, WedgeIsForever


-----------------------------------------------------------------------------
(***************************************************************************)
(* The proof that Conn implements RoundTripSpec under the mapping Phase.    *)
(***************************************************************************)

(* Initial states map to initial states.                                     *)
LEMMA RefineInit == Init => RT!Init
  BY DEF Init, RT!Init, Phase

(* A return closes the call's phase.                                         *)
LEMMA PhaseDone ==
  ASSUME CallType, NEW k \in Calls, pc' = [pc EXCEPT ![k] = "done"]
  PROVE  Phase' = [Phase EXCEPT ![k] = "done"]
  BY DEF CallType, Phase

(* A move inside RoundTrip is invisible.                                     *)
LEMMA PhaseOpen ==
  ASSUME CallType, NEW k \in Calls, pc[k] \notin {"new", "done"},
         NEW p \in {"dial", "send", "write", "scan"}, pc' = [pc EXCEPT ![k] = p]
  PROVE  Phase' = Phase
  BY DEF CallType, Phase

(* A failing return maps to ReturnError.                                     *)
LEMMA RefineError ==
  ASSUME CallType, ExecInv, NEW k \in Calls, pc[k] # "done",
         Return(k, "error", Nil), UNCHANGED runs
  PROVE  RT!ReturnError(k)
<1>1. Phase[k] # "done"
  BY DEF CallType, Phase
<1>2. Phase' = [Phase EXCEPT ![k] = "done"]
  BY PhaseDone DEF Return
<1>3. answers' = answers
  BY DEF CallType, ExecInv, OpenUnanswered, Return
<1> QED
  BY <1>1, <1>2, <1>3 DEF Return, RT!ReturnError

(* A bare prompt maps to ReturnPrompt.                                       *)
LEMMA RefinePrompt ==
  ASSUME CallType, ExecInv, NEW k \in Calls, pc[k] = "scan",
         Return(k, "prompt", Nil), UNCHANGED runs
  PROVE  RT!ReturnPrompt(k)
  BY PhaseDone
  DEF CallType, ExecInv, OpenUnanswered, Return, Phase, RT!ReturnPrompt

(* A reply, whole or cut, maps to ReturnReply.                               *)
LEMMA RefineReply ==
  ASSUME CallType, NEW k \in Calls, pc[k] = "scan",
         NEW m \in RT!Replies(k), NEW kind, Return(k, kind, m), UNCHANGED runs
  PROVE  RT!ReturnReply(k, kind)
  BY PhaseDone DEF CallType, Return, Phase, RT!ReturnReply

(* What the scanner returns is a reply the call may be given: its own when    *)
(* the pairing holds, that of some executed command otherwise.                *)
LEMMA ReplyAllowed ==
  ASSUME ExecInv, NEW k \in Calls, NEW m \in Msgs,
         m \in Calls => runs[m] = 1, Broadcast \/ m = k
  PROVE  m \in RT!Replies(k)
  BY BroadcastAssumption DEF RT!Replies, Msgs

(* Every step maps to a step of RoundTripSpec or to a stutter.               *)
LEMMA RefineStep ==
  ASSUME TypeOK, LockInv, ExecInv, Broadcast \/ PairInv, [Next]_vars
  PROVE  [RT!Next]_(RT!absVars)
<1> USE DEF TypeOK, callVars, scanVars, keepVars, hostVars, RT!absVars
<1>1. ASSUME NEW k \in Calls, Invoke(k) PROVE [RT!Next]_(RT!absVars)
  <2>1. RT!Enter(k)
    BY <1>1 DEF Invoke, CallType, Phase, RT!Enter
  <2> QED
    BY <2>1 DEF RT!Next
<1>2. ASSUME NEW k \in Calls, Reject(k) PROVE [RT!Next]_(RT!absVars)
  <2>1. RT!ReturnError(k)
    BY <1>2, PhaseDone DEF Reject, CallType, Phase, RT!ReturnError
  <2> QED
    BY <2>1 DEF RT!Next
<1>3. ASSUME NEW k \in Calls, Acquire(k) PROVE [RT!Next]_(RT!absVars)
  BY <1>3, PhaseOpen DEF Acquire
<1>4. ASSUME NEW k \in Calls, DialOk(k) PROVE [RT!Next]_(RT!absVars)
  BY <1>4, PhaseOpen DEF DialOk
<1>5. ASSUME NEW k \in Calls, DialFail(k) PROVE [RT!Next]_(RT!absVars)
  BY <1>5, RefineError DEF DialFail, Fail, RT!Next
<1>6. ASSUME NEW k \in Calls, Send(k) PROVE [RT!Next]_(RT!absVars)
  BY <1>6, PhaseOpen DEF Send
<1>7. ASSUME NEW k \in Calls, WriteOk(k) PROVE [RT!Next]_(RT!absVars)
  BY <1>7, PhaseOpen DEF WriteOk
<1>8. ASSUME NEW k \in Calls, WriteErr(k) PROVE [RT!Next]_(RT!absVars)
  BY <1>8, RefineError DEF WriteErr, Fail, RT!Next
<1>9. ASSUME NEW k \in Calls, ScanLine(k) PROVE [RT!Next]_(RT!absVars)
  <2> DEFINE m == Head(recv)
  <2>1. m \in Msgs /\ 1 \in DOMAIN recv /\ recv[1] = m
    BY <1>9 DEF ScanLine, ConnType
  <2>2. m \in Calls => runs[m] = 1
    BY <2>1 DEF ExecInv, AnswersRun
  <2>3. Broadcast \/ cmd[k] = m
    BY <1>9
    DEF ScanLine, LockInv, LockOwner, SockByPc, PairInv, Pairing, Quiet,
        Pending
  <2>4. CASE cmd[k] = SN
    BY <1>9, <2>4, PhaseOpen DEF ScanLine, Got
  <2>5. CASE cmd[k] # SN
    <3>1. cmd[k] = k
      BY <2>5 DEF LockInv, CmdOwn
    <3>2. m \in RT!Replies(k)
      BY <2>1, <2>2, <2>3, <3>1, ReplyAllowed
    <3>3. pc[k] = "scan" /\ Return(k, "reply", m) /\ UNCHANGED runs
      BY <1>9, <2>5 DEF ScanLine, Got
    <3>4. RT!ReturnReply(k, "reply")
      BY <3>2, <3>3, RefineReply
    <3> QED
      BY <3>4 DEF RT!Next
  <2> QED
    BY <2>4, <2>5
<1>10. ASSUME NEW k \in Calls, ScanTail(k) PROVE [RT!Next]_(RT!absVars)
  <2>1. CASE cmd[k] = SN
    BY <1>10, <2>1, PhaseOpen DEF ScanTail, Got
  <2>2. CASE cmd[k] # SN /\ tail = Prompt
    BY <1>10, <2>2, RefinePrompt DEF ScanTail, Got, RT!Next
  <2>3. CASE cmd[k] # SN /\ tail # Prompt
    <3>1. cmd[k] = k
      BY <2>3 DEF LockInv, CmdOwn
    <3>2. tail \in Msgs
      BY <1>10, <2>3 DEF ScanTail, ConnType
    <3>3. Broadcast \/ tail = k
      BY <1>10, <3>1, <3>2
      DEF ScanTail, LockInv, LockOwner, SockByPc, PairInv, Pairing, Quiet,
          Pending
    <3>4. tail \in RT!Replies(k)
      BY <3>2, <3>3, ReplyAllowed DEF ExecInv, AnswersRun
    <3>5. pc[k] = "scan" /\ Return(k, "part", tail) /\ UNCHANGED runs
      BY <1>10, <2>3 DEF ScanTail, Got
    <3>6. RT!ReturnReply(k, "part")
      BY <3>4, <3>5, RefineReply
    <3> QED
      BY <3>6 DEF RT!Next
  <2> QED
    BY <2>1, <2>2, <2>3
<1>11. ASSUME NEW k \in Calls, ScanFail(k) PROVE [RT!Next]_(RT!absVars)
  BY <1>11, RefineError DEF ScanFail, Fail, RT!Next
<1>12. ASSUME NEW k \in Calls, Expire(k) PROVE [RT!Next]_(RT!absVars)
  BY <1>12 DEF Expire, Phase
<1>13. ASSUME Close PROVE [RT!Next]_(RT!absVars)
  BY <1>13 DEF Close, CloseLocked, Phase
<1>14. ASSUME NEW e \in Calls, KeepDrain(e) PROVE [RT!Next]_(RT!absVars)
  BY <1>14 DEF KeepDrain, InProgress, Phase
<1>15. ASSUME NEW e \in Calls, KeepClosed(e) PROVE [RT!Next]_(RT!absVars)
  BY <1>15 DEF KeepClosed, Phase
<1>16. ASSUME NEW e \in Calls, KeepTimer(e) PROVE [RT!Next]_(RT!absVars)
  BY <1>16 DEF KeepTimer, Phase
<1>17. ASSUME NEW e \in Calls, KeepLocked(e) PROVE [RT!Next]_(RT!absVars)
  BY <1>17 DEF KeepLocked, CloseLocked, Phase
<1>18. ASSUME NEW e \in Calls, HostGreet(e) PROVE [RT!Next]_(RT!absVars)
  BY <1>18 DEF HostGreet, Phase
<1>19. ASSUME NEW e \in Calls, HostHandle(e) PROVE [RT!Next]_(RT!absVars)
  <2> DEFINE m == Head(toHost[e])
  <2>1. m \in Msgs /\ 1 \in DOMAIN toHost[e] /\ toHost[e][1] = m
    BY <1>19 DEF HostHandle, HostType
  <2>2. Phase' = Phase /\ UNCHANGED <<outcome, answers>>
    BY <1>19 DEF HostHandle, Phase
  <2>3. runs' = [k \in Calls |-> IF k = m THEN runs[k] + 1 ELSE runs[k]]
    BY <1>19 DEF HostHandle
  <2> HIDE DEF m
  <2>4. CASE m \in Calls
    <3>1. runs[m] = 0 /\ ~Unwritten(m)
      BY <2>1, <2>4 DEF ExecInv, QueuedUnrun
    <3>2. runs' = [runs EXCEPT ![m] = 1]
      <4>1. runs[m] + 1 = 1
        BY <3>1
      <4>2. \A k \in Calls : runs'[k] = IF k = m THEN 1 ELSE runs[k]
        BY <2>3, <4>1
      <4> QED
        BY <2>3, <2>4, <4>2 DEF HostType
    <3>3. Phase[m] # "new"
      BY <2>4, <3>1 DEF Phase, Unwritten, CallType
    <3> QED
      BY <2>2, <2>4, <3>1, <3>2, <3>3 DEF RT!Next, RT!Execute
  <2>5. CASE m \notin Calls
    BY <2>2, <2>3, <2>5 DEF HostType
  <2> QED
    BY <2>4, <2>5
<1>20. ASSUME HostFinish PROVE [RT!Next]_(RT!absVars)
  BY <1>20 DEF HostFinish, Phase
<1>21. ASSUME NEW e \in Calls, HostHangup(e) PROVE [RT!Next]_(RT!absVars)
  BY <1>21 DEF HostHangup, Phase
<1>22. ASSUME UNCHANGED vars PROVE [RT!Next]_(RT!absVars)
  BY <1>22 DEF vars, Phase
<1> QED
  BY <1>1, <1>2, <1>3, <1>4, <1>5, <1>6, <1>7, <1>8, <1>9, <1>10, <1>11,
     <1>12, <1>13, <1>14, <1>15, <1>16, <1>17, <1>18, <1>19, <1>20, <1>21,
     <1>22, NextCases

(* The pairing, or a host that broadcasts, is kept by every step.            *)
LEMMA PairOrBroadcast ==
  TypeOK /\ LockInv /\ (Broadcast \/ PairInv) /\ [Next]_vars =>
    (Broadcast \/ PairInv)'
<1>1. CASE Broadcast = FALSE
  BY <1>1, PairStep
<1>2. CASE Broadcast = TRUE
  BY <1>2
<1> QED
  BY <1>1, <1>2, BroadcastAssumption

(* Conn implements RoundTripSpec, whatever the host does with its answers:    *)
(* RoundTripSpec promises less of one that broadcasts.                        *)
THEOREM RefinementCorrect == Spec => ImplementsRoundTrip
<1> DEFINE Inv == TypeOK /\ LockInv /\ ExecInv /\ (Broadcast \/ PairInv)
<1>1. Init => Inv
  BY TypeInit, LockInit, ExecInit, PairInit
<1>2. Inv /\ [Next]_vars => Inv'
  BY TypeStep, LockStep, ExecStep, PairOrBroadcast
<1>3. Inv /\ [Next]_vars => [RT!Next]_(RT!absVars)
  BY RefineStep
<1> HIDE DEF Inv
<1> QED
  BY <1>1, <1>2, <1>3, RefineInit, PTL DEF Spec, ImplementsRoundTrip, RT!Spec
=============================================================================
