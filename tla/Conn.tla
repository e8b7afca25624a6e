-------------------------------- MODULE Conn --------------------------------
(***************************************************************************)
(* pkg/conn: one shared connection to one MDC host.                         *)
(*                                                                         *)
(* Every invocation of RoundTrip is a process of its own (an element of     *)
(* Calls).  A call runs under Conn.mu from Acquire to its return: it dials  *)
(* when there is no socket, asks for the serial number first on a fresh     *)
(* socket, and pairs the command it writes with the next token of the       *)
(* response scanner.  One goroutine per dialed socket closes the socket     *)
(* when the keepalive channel has been silent for idleTime.                 *)
(*                                                                         *)
(* A socket, its keepalive channel and its goroutine live and die together: *)
(* the code calls the channel an epoch.  A call dials at most once, so an   *)
(* epoch is named by the call that dialed it.                               *)
(*                                                                         *)
(* The host at the other end answers each line with the line, a line end    *)
(* and a prompt, as the test server of pkg/dummy does; Broadcast makes it   *)
(* send the answer to every open connection, as the README says a real      *)
(* control does.  The scanner sees whole lines (recv) and the bytes after   *)
(* the last line end (tail): nothing, a prompt, or the beginning of a line. *)
(***************************************************************************)
EXTENDS Naturals, Sequences

CONSTANTS Calls,      \* the invocations of RoundTrip
          SN,         \* the serial-number command sent first on every socket
          Nil,        \* no socket, no owner, nothing in the buffer
          Prompt,     \* the byte '>' alone
          Broadcast   \* does the host answer on every open connection?

ASSUME DistinctAssumption ==
  /\ SN # Nil /\ SN # Prompt /\ Nil # Prompt
  /\ SN \notin Calls /\ Nil \notin Calls /\ Prompt \notin Calls

ASSUME BroadcastAssumption == Broadcast \in BOOLEAN

VARIABLES
  pc,         \* where each call is in RoundTrip
  cmd,        \* the command each call is about to pair with a response
  expired,    \* has the call's deadline (writeTimeout) passed?
  outcome,    \* what the call returned
  answers,    \* the command whose reply the call returned
  mu,         \* the call that holds Conn.mu, or Nil
  sock,       \* c.mu.conn: the epoch of the open socket, or Nil
  keepAlive,  \* c.mu.keepAlive: the epoch whose channel is installed, or Nil
  recv,       \* whole lines the scanner of the open socket has not returned
  tail,       \* what follows the last line end
  scanErr,    \* the scanner has met a read error, which it keeps
  kpc,        \* where the keepalive goroutine of each epoch is
  token,      \* does the keepalive channel (capacity 1) hold a token?
  armed,      \* the calls that were in progress when the timer was armed
  host,       \* the host's end of each socket
  toHost,     \* command lines written and not yet read by the host
  runs        \* how often the host has executed each call's command

callVars == <<pc, cmd, expired, outcome, answers>>
scanVars == <<recv, tail, scanErr>>
keepVars == <<kpc, token, armed>>
hostVars == <<host, toHost, runs>>
vars == <<callVars, mu, sock, keepAlive, scanVars, keepVars, hostVars>>

-----------------------------------------------------------------------------
Msgs == Calls \union {SN}

InProgress == {k \in Calls : pc[k] \notin {"new", "done"}}

(* No call that was in progress when the timer was armed still has time      *)
(* left: idleTime = writeTimeout, so its deadline is not after the timer's.  *)
Elapsed(e) == \A k \in armed[e] : expired[k]

(* Mutant: no deadline on the socket. *)
ReadFailsNoDeadline(k) == host[sock] = "closed"

(* A read on the socket fails at once: the deadline passed, or the host hung *)
(* up.                                                                       *)
ReadFails(k) == expired[k] \/ host[sock] = "closed"

Init ==
  /\ pc = [k \in Calls |-> "new"]
  /\ cmd = [k \in Calls |-> k]
  /\ expired = [k \in Calls |-> FALSE]
  /\ outcome = [k \in Calls |-> "none"]
  /\ answers = [k \in Calls |-> Nil]
  /\ mu = Nil
  /\ sock = Nil
  /\ keepAlive = Nil
  /\ recv = <<>> /\ tail = Nil /\ scanErr = FALSE
  /\ kpc = [e \in Calls |-> "none"]
  /\ token = [e \in Calls |-> FALSE]
  /\ armed = [e \in Calls |-> {}]
  /\ host = [e \in Calls |-> "none"]
  /\ toHost = [e \in Calls |-> <<>>]
  /\ runs = [k \in Calls |-> 0]

(* closeLocked: close the socket and the channel, drop the scanner.          *)
CloseLocked ==
  /\ sock' = Nil
  /\ keepAlive' = Nil
  /\ recv' = <<>> /\ tail' = Nil /\ scanErr' = FALSE

(* RoundTrip returns: the deferred Unlock and cancel run, and its locals are *)
(* gone.                                                                     *)
Return(k, kind, of) ==
  /\ pc' = [pc EXCEPT ![k] = "done"]
  /\ outcome' = [outcome EXCEPT ![k] = kind]
  /\ answers' = [answers EXCEPT ![k] = of]
  /\ expired' = [expired EXCEPT ![k] = FALSE]
  /\ armed' = [e \in Calls |-> armed[e] \ {k}]
  /\ mu' = Nil
  /\ cmd' = [cmd EXCEPT ![k] = k]

(* Mutant: an error leaves the connection open. *)
FailStaysOpen(k) ==
  /\ Return(k, "error", Nil)
  /\ UNCHANGED <<sock, keepAlive, scanVars, kpc, token, hostVars>>

(* writeLocked returns an error: its deferred function closes the            *)
(* connection, and RoundTrip passes the error on.                            *)
Fail(k) ==
  /\ CloseLocked
  /\ Return(k, "error", Nil)
  /\ UNCHANGED <<kpc, token, hostVars>>

(* writeLocked returns a response.  The serial number's is only logged and   *)
(* the call goes on with its own command.                                    *)
Got(k, kind, of) ==
  IF cmd[k] = SN
  THEN /\ cmd' = [cmd EXCEPT ![k] = k]
       /\ pc' = [pc EXCEPT ![k] = "send"]
       /\ UNCHANGED <<expired, outcome, answers, armed, mu>>
  ELSE Return(k, kind, of)

-----------------------------------------------------------------------------
(* RoundTrip is entered; the deadline starts to run before the lock is held. *)
Invoke(k) ==
  /\ pc[k] = "new"
  /\ pc' = [pc EXCEPT ![k] = "lock"]
  /\ UNCHANGED <<cmd, expired, outcome, answers, mu, sock, keepAlive,
                 scanVars, keepVars, hostVars>>

(* The caller's context is already done.                                     *)
Reject(k) ==
  /\ pc[k] = "new"
  /\ pc' = [pc EXCEPT ![k] = "done"]
  /\ outcome' = [outcome EXCEPT ![k] = "error"]
  /\ UNCHANGED <<cmd, expired, answers, mu, sock, keepAlive,
                 scanVars, keepVars, hostVars>>

(* Mutant: RoundTrip does not lock. *)
AcquireNoLock(k) ==
  /\ pc[k] = "lock"
  /\ mu' = k
  /\ pc' = [pc EXCEPT ![k] = IF sock = Nil THEN "dial" ELSE "send"]
  /\ UNCHANGED <<cmd, expired, outcome, answers, sock, keepAlive,
                 scanVars, keepVars, hostVars>>

(* The lock is taken; a dial follows when there is no connection.            *)
Acquire(k) ==
  /\ pc[k] = "lock"
  /\ mu = Nil
  /\ mu' = k
  /\ pc' = [pc EXCEPT ![k] = IF sock = Nil THEN "dial" ELSE "send"]
  /\ UNCHANGED <<cmd, expired, outcome, answers, sock, keepAlive,
                 scanVars, keepVars, hostVars>>

(* The dial succeeds within the deadline: the socket, its channel, its       *)
(* scanner and its goroutine come to life, and the host has a connection.    *)
DialOk(k) ==
  /\ pc[k] = "dial"
  /\ ~expired[k]
  /\ sock' = k /\ keepAlive' = k
  /\ recv' = <<>> /\ tail' = Nil /\ scanErr' = FALSE
  /\ kpc' = [kpc EXCEPT ![k] = "select"]
  /\ armed' = [armed EXCEPT ![k] = InProgress]
  /\ host' = [host EXCEPT ![k] = "accepted"]
  /\ cmd' = [cmd EXCEPT ![k] = SN]
  /\ pc' = [pc EXCEPT ![k] = "send"]
  /\ UNCHANGED <<expired, outcome, answers, mu, token, toHost, runs>>

(* The host is unreachable, or the deadline is over: nothing was opened, so  *)
(* nothing is closed.                                                        *)
DialFail(k) ==
  /\ pc[k] = "dial"
  /\ Return(k, "error", Nil)
  /\ UNCHANGED <<sock, keepAlive, scanVars, kpc, token, hostVars>>

(* Mutant: a full channel is passed by. *)
SendLossy(k) ==
  /\ pc[k] = "send"
  /\ keepAlive # Nil
  /\ token' = [token EXCEPT ![keepAlive] = TRUE]
  /\ pc' = [pc EXCEPT ![k] = "write"]
  /\ UNCHANGED <<cmd, expired, outcome, answers, mu, sock, keepAlive,
                 scanVars, kpc, armed, hostVars>>

(* keepAlive <- struct{}{}: blocks while the channel is full.                *)
Send(k) ==
  /\ pc[k] = "send"
  /\ keepAlive # Nil
  /\ ~token[keepAlive]
  /\ token' = [token EXCEPT ![keepAlive] = TRUE]
  /\ pc' = [pc EXCEPT ![k] = "write"]
  /\ UNCHANGED <<cmd, expired, outcome, answers, mu, sock, keepAlive,
                 scanVars, kpc, armed, hostVars>>

(* The write goes out; one that meets a connection the host has closed may   *)
(* still succeed here and be lost.                                           *)
WriteOk(k) ==
  /\ pc[k] = "write"
  /\ ~expired[k]
  /\ toHost' = IF host[sock] = "closed" THEN toHost
               ELSE [toHost EXCEPT ![sock] = Append(@, cmd[k])]
  /\ pc' = [pc EXCEPT ![k] = "scan"]
  /\ UNCHANGED <<cmd, expired, outcome, answers, mu, sock, keepAlive,
                 scanVars, keepVars, host, runs>>

WriteErr(k) ==
  /\ pc[k] = "write"
  /\ expired[k] \/ host[sock] = "closed"
  /\ Fail(k)

(* The scanner returns the first whole line.                                 *)
ScanLine(k) ==
  /\ pc[k] = "scan"
  /\ recv # <<>>
  /\ ~scanErr
  /\ recv' = Tail(recv)
  /\ Got(k, "reply", Head(recv))
  /\ UNCHANGED <<sock, keepAlive, tail, scanErr, kpc, token, hostVars>>

(* A read fails while bytes without a line end are in the buffer: the        *)
(* scanner hands them to ScanPrompt as the last line and keeps the error for *)
(* its next call.  A prompt alone is not stripped, because ScanPrompt only   *)
(* drops prompts that something follows; the token is not empty, so          *)
(* writeLocked takes it for the response and leaves the connection open.     *)
ScanTail(k) ==
  /\ pc[k] = "scan"
  /\ recv = <<>>
  /\ tail # Nil
  /\ ~scanErr
  /\ ReadFails(k)
  /\ tail' = Nil
  /\ scanErr' = TRUE
  /\ IF tail = Prompt THEN Got(k, "prompt", Nil) ELSE Got(k, "part", tail)
  /\ UNCHANGED <<recv, sock, keepAlive, kpc, token, hostVars>>

(* Mutant: a failed read is retried on a new connection. *)
ScanFailRetries(k) ==
  /\ pc[k] = "scan"
  /\ scanErr \/ ReadFails(k)
  /\ CloseLocked
  /\ pc' = [pc EXCEPT ![k] = "dial"]
  /\ UNCHANGED <<cmd, expired, outcome, answers, mu, keepVars, hostVars>>

(* The scanner returns FALSE: it met an error before, or the read fails with *)
(* nothing in its buffer.  What the model counts as received may still be    *)
(* unread, so the read may also fail with recv or tail at hand.              *)
ScanFail(k) ==
  /\ pc[k] = "scan"
  /\ scanErr \/ ReadFails(k)
  /\ Fail(k)

(* The deadline of a call passes.                                            *)
Expire(k) ==
  /\ k \in InProgress
  /\ ~expired[k]
  /\ expired' = [expired EXCEPT ![k] = TRUE]
  /\ UNCHANGED <<pc, cmd, outcome, answers, mu, sock, keepAlive,
                 scanVars, keepVars, hostVars>>

(* Close, called by the owner of the Conn or by its finalizer.               *)
Close ==
  /\ mu = Nil
  /\ sock # Nil
  /\ CloseLocked
  /\ UNCHANGED <<callVars, mu, keepVars, hostVars>>

-----------------------------------------------------------------------------
(* Mutant: the goroutine ends after the first token. *)
KeepDrainOnce(e) ==
  /\ kpc[e] = "select"
  /\ token[e]
  /\ token' = [token EXCEPT ![e] = FALSE]
  /\ kpc' = [kpc EXCEPT ![e] = "exit"]
  /\ UNCHANGED <<callVars, mu, sock, keepAlive, scanVars, armed, hostVars>>

(* The keepalive goroutine of epoch e takes a token and loops: time.After is *)
(* called anew.                                                              *)
KeepDrain(e) ==
  /\ kpc[e] = "select"
  /\ token[e]
  /\ token' = [token EXCEPT ![e] = FALSE]
  /\ armed' = [armed EXCEPT ![e] = InProgress]
  /\ UNCHANGED <<callVars, mu, sock, keepAlive, scanVars, kpc, hostVars>>

(* The channel is closed and drained: closeLocked removed it.                *)
KeepClosed(e) ==
  /\ kpc[e] = "select"
  /\ keepAlive # e
  /\ ~token[e]
  /\ kpc' = [kpc EXCEPT ![e] = "exit"]
  /\ armed' = [armed EXCEPT ![e] = {}]
  /\ UNCHANGED <<callVars, mu, sock, keepAlive, scanVars, token, hostVars>>

(* The timer wins the select.  From here on nobody receives from the         *)
(* channel.                                                                  *)
KeepTimer(e) ==
  /\ kpc[e] = "select"
  /\ ~token[e]
  /\ Elapsed(e)
  /\ kpc' = [kpc EXCEPT ![e] = "lock"]
  /\ armed' = [armed EXCEPT ![e] = {}]
  /\ UNCHANGED <<callVars, mu, sock, keepAlive, scanVars, token, hostVars>>

(* Mutant: the goroutine closes the connection without the lock. *)
KeepLockedNoLock(e) ==
  /\ kpc[e] = "lock"
  /\ IF keepAlive = e THEN CloseLocked
                      ELSE UNCHANGED <<sock, keepAlive, scanVars>>
  /\ kpc' = [kpc EXCEPT ![e] = "exit"]
  /\ UNCHANGED <<callVars, mu, token, armed, hostVars>>

(* Mutant: the goroutine closes whatever connection there is. *)
KeepLockedNoEpoch(e) ==
  /\ kpc[e] = "lock"
  /\ mu = Nil
  /\ CloseLocked
  /\ kpc' = [kpc EXCEPT ![e] = "exit"]
  /\ UNCHANGED <<callVars, mu, token, armed, hostVars>>

(* The goroutine gets the lock, closes the connection if the channel is      *)
(* still its own, unlocks and returns.                                       *)
KeepLocked(e) ==
  /\ kpc[e] = "lock"
  /\ mu = Nil
  /\ IF keepAlive = e THEN CloseLocked
                      ELSE UNCHANGED <<sock, keepAlive, scanVars>>
  /\ kpc' = [kpc EXCEPT ![e] = "exit"]
  /\ UNCHANGED <<callVars, mu, token, armed, hostVars>>

-----------------------------------------------------------------------------
(* The host greets a connection with a prompt.                               *)
HostGreet(e) ==
  /\ host[e] = "accepted"
  /\ host' = [host EXCEPT ![e] = "ready"]
  /\ tail' = IF e = sock /\ ~scanErr THEN Prompt ELSE tail
  /\ UNCHANGED <<callVars, mu, sock, keepAlive, recv, scanErr, keepVars,
                 toHost, runs>>

(* Can the scanner of the open socket receive another line?                  *)
Listening == sock # Nil /\ host[sock] = "ready" /\ ~scanErr

(* Does an answer given on connection e reach the scanner, as the answer of  *)
(* its own connection or as a broadcast from another one?                    *)
Own(e) == Listening /\ e = sock
Stray(e) == Listening /\ e # sock /\ Broadcast

(* The host reads a line and executes it, also when the client has closed    *)
(* the socket since.  The beginning of the answer arrives; a broadcast       *)
(* arrives whole.  Lines do not mix: nothing arrives inside another line.    *)
HostHandle(e) ==
  /\ host[e] = "ready"
  /\ toHost[e] # <<>>
  /\ Own(e) \/ Stray(e) => tail \notin Msgs
  /\ LET m == Head(toHost[e])
     IN  /\ runs' = [k \in Calls |-> IF k = m THEN runs[k] + 1 ELSE runs[k]]
         /\ tail' = IF Own(e) THEN m ELSE IF Stray(e) THEN Prompt ELSE tail
         /\ recv' = IF Stray(e) THEN Append(recv, m) ELSE recv
  /\ toHost' = [toHost EXCEPT ![e] = Tail(@)]
  /\ UNCHANGED <<callVars, mu, sock, keepAlive, scanErr, keepVars, host>>

(* The rest of the answer, its line end and the next prompt arrive.          *)
HostFinish ==
  /\ Listening
  /\ tail \in Msgs
  /\ recv' = Append(recv, tail)
  /\ tail' = Prompt
  /\ UNCHANGED <<callVars, mu, sock, keepAlive, scanErr, keepVars, hostVars>>

(* The host closes a connection, with whatever it has not read: it stops,    *)
(* restarts, or has seen the client's end close.                             *)
HostHangup(e) ==
  /\ host[e] \in {"accepted", "ready"}
  /\ host' = [host EXCEPT ![e] = "closed"]
  /\ toHost' = [toHost EXCEPT ![e] = <<>>]
  /\ UNCHANGED <<callVars, mu, sock, keepAlive, scanVars, keepVars, runs>>

-----------------------------------------------------------------------------
CallStep(k) ==
  \/ Acquire(k) \/ DialOk(k) \/ DialFail(k) \/ Send(k)
  \/ WriteOk(k) \/ WriteErr(k)
  \/ ScanLine(k) \/ ScanTail(k) \/ ScanFail(k)

KeepStep(e) == KeepDrain(e) \/ KeepClosed(e) \/ KeepTimer(e) \/ KeepLocked(e)

HostStep(e) == HostGreet(e) \/ HostHandle(e) \/ HostHangup(e)

Next ==
  \/ \E k \in Calls :
        Invoke(k) \/ Reject(k) \/ CallStep(k) \/ Expire(k)
        \/ KeepStep(k) \/ HostStep(k)
  \/ HostFinish
  \/ Close

Spec == Init /\ [][Next]_vars

(* The scheduler runs every goroutine that can run and time passes; the host *)
(* owes nothing.  Calls is finite, so a waiter for mu that is never served   *)
(* faces a lock that stays free, and weak fairness is all it needs.          *)
Fairness ==
  /\ \A k \in Calls : WF_vars(CallStep(k)) /\ WF_vars(Expire(k))
  /\ \A e \in Calls : WF_vars(KeepStep(e))

FairSpec == Spec /\ Fairness

-----------------------------------------------------------------------------
CallType ==
  /\ pc \in [Calls -> {"new", "lock", "dial", "send", "write", "scan", "done"}]
  /\ cmd \in [Calls -> Msgs]
  /\ expired \in [Calls -> BOOLEAN]
  /\ outcome \in [Calls -> {"none", "reply", "part", "prompt", "error"}]
  /\ answers \in [Calls -> Msgs \union {Nil}]

ConnType ==
  /\ mu \in Calls \union {Nil}
  /\ sock \in Calls \union {Nil}
  /\ keepAlive \in Calls \union {Nil}
  /\ recv \in Seq(Msgs)
  /\ tail \in Msgs \union {Nil, Prompt}
  /\ scanErr \in BOOLEAN

KeepType ==
  /\ kpc \in [Calls -> {"none", "select", "lock", "exit"}]
  /\ token \in [Calls -> BOOLEAN]
  /\ armed \in [Calls -> SUBSET Calls]

HostType ==
  /\ host \in [Calls -> {"none", "accepted", "ready", "closed"}]
  /\ toHost \in [Calls -> Seq(Msgs)]
  /\ runs \in [Calls -> Nat]

(* Type correctness: every variable of the calls, the connection, its         *)
(* goroutines and the host stays in its domain.                               *)
TypeOK == CallType /\ ConnType /\ KeepType /\ HostType

(* Mutual exclusion: a call is past Lock and before its return exactly while  *)
(* it owns Conn.mu, so two calls are never between writeLocked's write and    *)
(* its read at the same time.                                                 *)
LockOwner ==
  \A k \in Calls : pc[k] \in {"dial", "send", "write", "scan"} <=> mu = k

(* The channel writeLocked sends to is installed, open, and has a goroutine   *)
(* that has not left: a send on a nil channel would block forever and one on  *)
(* a closed channel would panic.                                              *)
SendHasChannel ==
  \A k \in Calls :
    pc[k] \in {"send", "write", "scan"} =>
      /\ sock # Nil /\ keepAlive = sock
      /\ kpc[keepAlive] \in {"select", "lock"}

(* A call never gets the reply, or a piece of the reply, of another call's    *)
(* command or of the serial-number command, although late answers, hangups,   *)
(* redials and leftover prompts interleave with it (README.md: clients cannot *)
(* interfere with one another).  True when the host answers on one            *)
(* connection only.                                                           *)
NoCrossTalk ==
  \A k \in Calls : outcome[k] \in {"reply", "part"} => answers[k] = k

(* A reply is evidence: a call that returns the reply of its command returns  *)
(* it for a command the host has executed, and executed once; no command is   *)
(* executed twice, whatever fails.                                            *)
ExecutedOnce ==
  \A k \in Calls :
    /\ runs[k] \in {0, 1}
    /\ answers[k] \in Calls => runs[answers[k]] = 1

(* While a call holds the lock nobody replaces or closes its socket: neither  *)
(* the keepalive goroutine of this or of an older epoch, nor Close.           *)
LockProtects ==
  [][\A k \in Calls :
       mu = k /\ mu' = k /\ sock # Nil =>
         sock' = sock /\ keepAlive' = keepAlive]_vars

(* The keepalive channel is an epoch: a goroutine whose timer fires after its *)
(* connection was replaced leaves the new connection alone.                   *)
EpochOwnsClose ==
  [][\A e \in Calls :
       kpc[e] = "lock" /\ kpc'[e] = "exit" /\ sock # e => sock' = sock]_vars

(* The keepalive goroutine waits for the lock, the channel is full again, and *)
(* the call that holds the lock waits for the goroutine to receive.           *)
Wedged ==
  \E k \in Calls :
    /\ pc[k] = "send" /\ keepAlive # Nil
    /\ token[keepAlive] /\ kpc[keepAlive] = "lock"

(* No way out: once the lock holder and the goroutine wait for one another    *)
(* nothing - a deadline, a hangup, Close, another call - separates them.      *)
WedgeIsForever == [][Wedged => Wedged']_vars

(* Every call returns, with a response or an error, unless the keepalive      *)
(* goroutine and the lock holder wait for one another.                        *)
CallReturns == \A k \in Calls : pc[k] = "lock" ~> (pc[k] = "done" \/ Wedged)

(* No goroutine and no socket lingers: each epoch's goroutine ends, however    *)
(* its connection ended, and a connection nobody uses is given up, so that     *)
(* the socket of the epoch is closed in the end.                               *)
KeepAliveExits ==
  \A e \in Calls : kpc[e] = "select" ~> (kpc[e] = "exit" /\ sock # e) \/ Wedged

-----------------------------------------------------------------------------
(* RoundTrip's comment (conn.go:78): it writes a message and receives a       *)
(* response.  No call ends up holding the lock forever.                       *)
NoWedge == ~Wedged
=============================================================================
