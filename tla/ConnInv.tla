------------------------------ MODULE ConnInv ------------------------------
(***************************************************************************)
(* The inductive invariant of Conn - why a response is paired with the      *)
(* command of the call that returns it, and why a command runs at most once *)
(* - and the mapping from Conn to the abstract RoundTripSpec.  Pairing is   *)
(* an invariant when the host answers on one connection only (Broadcast =   *)
(* FALSE); the rest holds either way.                                       *)
(***************************************************************************)
EXTENDS Conn

(* The socket and the channel are installed and removed together, and only a *)
(* socket has a scanner.                                                     *)
SockParts ==
  /\ keepAlive = sock
  /\ sock = Nil => recv = <<>> /\ tail = Nil /\ scanErr = FALSE

(* Where a call stands tells whether there is a socket.                      *)
SockByPc ==
  \A k \in Calls :
    /\ pc[k] = "dial" => sock = Nil
    /\ pc[k] \in {"send", "write", "scan"} => sock # Nil

(* An epoch that was never dialed has no goroutine, no host and no traffic;  *)
(* the goroutine of the open socket has not left.                            *)
Undialed ==
  \A e \in Calls :
    /\ pc[e] \in {"new", "lock", "dial"} =>
         sock # e /\ toHost[e] = <<>> /\ kpc[e] = "none" /\ ~token[e]
         /\ host[e] = "none"
    /\ sock = e => kpc[e] \in {"select", "lock"}

(* A call carries its own command, except that the one that dialed asks for  *)
(* the serial number first.                                                  *)
CmdOwn ==
  \A k \in Calls :
    /\ cmd[k] \in {k, SN}
    /\ pc[k] \in {"new", "lock", "dial"} => cmd[k] = k

(* No command and no answer is on its way on the open socket.                *)
Quiet == toHost[sock] = <<>> /\ recv = <<>> /\ tail \notin Msgs

(* Exactly one command is on its way: unread by the host, half answered, or  *)
(* answered.                                                                 *)
Pending(m) ==
  \/ toHost[sock] = <<m>> /\ recv = <<>> /\ tail \notin Msgs
  \/ toHost[sock] = <<>> /\ recv = <<>> /\ tail = m
  \/ toHost[sock] = <<>> /\ recv = <<m>> /\ tail = Prompt

(* While the scanner can still return a token, the only command on its way   *)
(* is the one the holder of the lock waits for.                              *)
Pairing ==
  sock # Nil /\ ~scanErr =>
    \/ Quiet
    \/ mu # Nil /\ pc[mu] = "scan" /\ Pending(cmd[mu])

-----------------------------------------------------------------------------
(* A call whose own command has not been written yet.                        *)
Unwritten(k) ==
  \/ pc[k] \in {"new", "lock", "dial", "send", "write"}
  \/ pc[k] = "scan" /\ cmd[k] # k

(* A call answers for no command before it returns.                          *)
OpenUnanswered == \A k \in Calls : pc[k] # "done" => answers[k] = Nil

(* A command waiting on a connection has been written and not been executed. *)
QueuedUnrun ==
  \A e \in Calls : \A i \in DOMAIN toHost[e] :
    toHost[e][i] \in Calls =>
      ~Unwritten(toHost[e][i]) /\ runs[toHost[e][i]] = 0

(* A command waits in one place.                                             *)
QueuedOnce ==
  \A d, e \in Calls : \A i \in DOMAIN toHost[d] : \A j \in DOMAIN toHost[e] :
    toHost[d][i] \in Calls /\ toHost[d][i] = toHost[e][j] => d = e /\ i = j

(* A command runs at most once, and only after it was written.               *)
RunAtMostOnce ==
  \A k \in Calls : runs[k] \in {0, 1} /\ (Unwritten(k) => runs[k] = 0)

(* Every answer, on its way or returned, is that of an executed command.     *)
AnswersRun ==
  /\ tail \in Calls => runs[tail] = 1
  /\ \A i \in DOMAIN recv : recv[i] \in Calls => runs[recv[i]] = 1
  /\ \A k \in Calls : answers[k] \in Calls => runs[answers[k]] = 1

ExecInv ==
  /\ OpenUnanswered /\ QueuedUnrun /\ QueuedOnce /\ RunAtMostOnce
  /\ AnswersRun

-----------------------------------------------------------------------------
LockInv == LockOwner /\ SockParts /\ SockByPc /\ Undialed /\ CmdOwn

PairInv == Pairing /\ NoCrossTalk

(* The inductive invariant of the connection: the lock and the socket agree  *)
(* with where the calls stand, what is on its way on the socket belongs to   *)
(* the call that waits for it, and every command is in one place.            *)
IInv == TypeOK /\ LockInv /\ PairInv /\ ExecInv

-----------------------------------------------------------------------------
(* The refinement mapping to RoundTripSpec: the callers see whether a call   *)
(* was entered and whether it has returned.                                  *)
Phase ==
  [k \in Calls |-> CASE pc[k] = "new" -> "new"
                     [] pc[k] = "done" -> "done"
                     [] OTHER -> "open"]

RT == INSTANCE RoundTripSpec WITH phase <- Phase

(* Conn implements RoundTripSpec: locking, dialing, late answers, leftover    *)
(* prompts and the keepalive goroutine are invisible to the callers.          *)
ImplementsRoundTrip == RT!Spec
=============================================================================
