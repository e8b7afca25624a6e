------------------------------- MODULE Dummy --------------------------------
(***************************************************************************)
(* pkg/dummy: how the dummy MDC server starts and ends its handlers.        *)
(*                                                                         *)
(* Four kinds of goroutine: one accepts, registers and starts handlers; one *)
(* closes the listener when the context stops; one then sets an expired     *)
(* read deadline on every registered connection; and each handler reads     *)
(* until a read fails.  A stopping context refuses new goroutines.  What a  *)
(* handler answers is in Exchange.                                          *)
(***************************************************************************)
EXTENDS Naturals, FiniteSets

CONSTANTS Clients,   \* client connections, each made at most once
          MaxLines,  \* bound: lines in the scanner's buffer
          None

ASSUME NoneAssumption == None \notin Clients
ASSUME MaxLinesAssumption == MaxLines \in Nat

VARIABLES
  stopping,   \* the stopper context is stopping
  listening,  \* the listener is open
  unblocked,  \* the goroutine that sets the deadlines has run
  acc,        \* the accept loop: "accept", "register", "spawn", "exit"
  cur,        \* the connection it has accepted
  st,         \* where each connection is
  openConns,  \* the registry, guarded by openConnsMu
  expired,    \* connections whose read deadline is in the past
  gone,       \* connections whose client has hung up
  buffered    \* lines the scanner of a handler holds

serverVars == <<stopping, listening, unblocked>>
accVars == <<acc, cur>>
clVars == <<st, openConns, expired, gone, buffered>>
vars == <<serverVars, accVars, clVars>>

Running == {"greet", "read", "handle", "cleanup"}

-----------------------------------------------------------------------------
Init ==
  /\ stopping = FALSE /\ listening = TRUE /\ unblocked = FALSE
  /\ acc = "accept" /\ cur = None
  /\ st = [c \in Clients |-> "none"]
  /\ openConns = {} /\ expired = {} /\ gone = {}
  /\ buffered = [c \in Clients |-> 0]

Stop ==
  /\ ~stopping
  /\ stopping' = TRUE
  /\ UNCHANGED <<listening, unblocked, accVars, clVars>>

(* Closing the listener resets what waits in its backlog.                    *)
CloseListener ==
  /\ stopping /\ listening
  /\ listening' = FALSE
  /\ st' = [c \in Clients |-> IF st[c] = "queued" THEN "closed" ELSE st[c]]
  /\ UNCHANGED <<stopping, unblocked, accVars, openConns, expired, gone, buffered>>

(* Every registered connection gets a deadline in the past, under the lock.  *)
Unblock ==
  /\ stopping /\ ~unblocked
  /\ unblocked' = TRUE
  /\ expired' = expired \union openConns
  /\ UNCHANGED <<stopping, listening, accVars, st, openConns, gone, buffered>>

-----------------------------------------------------------------------------
Connect(c) ==
  /\ listening
  /\ st[c] = "none"
  /\ st' = [st EXCEPT ![c] = "queued"]
  /\ UNCHANGED <<serverVars, accVars, openConns, expired, gone, buffered>>

HangUp(c) ==
  /\ st[c] \in Running \union {"queued", "accepted"}
  /\ c \notin gone
  /\ gone' = gone \union {c}
  /\ UNCHANGED <<serverVars, accVars, st, openConns, expired, buffered>>

(* Accept returns a connection, and goes on with it even if the listener is  *)
(* closed right after.                                                       *)
AcceptConn(c) ==
  /\ acc = "accept" /\ listening
  /\ st[c] = "queued"
  /\ st' = [st EXCEPT ![c] = "accepted"]
  /\ acc' = "register" /\ cur' = c
  /\ UNCHANGED <<serverVars, openConns, expired, gone, buffered>>

AcceptError ==
  /\ acc = "accept" /\ ~listening
  /\ acc' = "exit"
  /\ UNCHANGED <<serverVars, cur, clVars>>

(* Mutant: the connection is not registered. *)
Nothing == {}

InHand == {cur}

(* The connection is registered before its handler is started.               *)
Register ==
  /\ acc = "register"
  /\ openConns' = openConns \union InHand
  /\ acc' = "spawn"
  /\ UNCHANGED <<serverVars, cur, st, expired, gone, buffered>>

(* Mutant: the handler is started whatever the context says. *)
NeverRefused == FALSE

Refused == stopping

(* ctx.Go: the handler starts, or the stopping context refuses it and the    *)
(* connection is closed; its registration stays.                             *)
Spawn ==
  /\ acc = "spawn"
  /\ st' = [st EXCEPT ![cur] = IF Refused THEN "closed" ELSE "greet"]
  /\ acc' = "accept" /\ cur' = None
  /\ UNCHANGED <<serverVars, openConns, expired, gone, buffered>>

-----------------------------------------------------------------------------
(* The handler writes the first prompt; that fails if the client is gone.    *)
Greet(c) ==
  /\ st[c] = "greet"
  /\ \/ st' = [st EXCEPT ![c] = "read"]
     \/ c \in gone /\ st' = [st EXCEPT ![c] = "cleanup"]
  /\ UNCHANGED <<serverVars, accVars, openConns, expired, gone, buffered>>

(* A read before the deadline brings lines into the scanner's buffer, also    *)
(* those of a client that has hung up since.                                  *)
Fill(c) ==
  /\ st[c] = "read" /\ buffered[c] = 0
  /\ c \notin expired
  /\ \E n \in 1..MaxLines : buffered' = [buffered EXCEPT ![c] = n]
  /\ UNCHANGED <<serverVars, accVars, st, openConns, expired, gone>>

(* The scanner returns a line it holds, deadline or not.                     *)
Take(c) ==
  /\ st[c] = "read" /\ buffered[c] > 0
  /\ buffered' = [buffered EXCEPT ![c] = @ - 1]
  /\ st' = [st EXCEPT ![c] = "handle"]
  /\ UNCHANGED <<serverVars, accVars, openConns, expired, gone>>

(* The line was empty, or its answer, also the one to a bad message, is      *)
(* written.                                                                  *)
Handle(c) ==
  /\ st[c] = "handle"
  /\ \/ st' = [st EXCEPT ![c] = "read"]
     \/ c \in gone /\ st' = [st EXCEPT ![c] = "cleanup"]
  /\ UNCHANGED <<serverVars, accVars, openConns, expired, gone, buffered>>

(* A read fails: the deadline is over, or the client is gone.                *)
ReadError(c) ==
  /\ st[c] = "read" /\ buffered[c] = 0
  /\ c \in expired \union gone
  /\ st' = [st EXCEPT ![c] = "cleanup"]
  /\ UNCHANGED <<serverVars, accVars, openConns, expired, gone, buffered>>

(* Mutant: the registration is forgotten. *)
Unregistered(c) == {}

Registered(c) == {c}

(* The handler's deferred function.                                          *)
Cleanup(c) ==
  /\ st[c] = "cleanup"
  /\ st' = [st EXCEPT ![c] = "closed"]
  /\ openConns' = openConns \ Registered(c)
  /\ UNCHANGED <<serverVars, accVars, expired, gone, buffered>>

-----------------------------------------------------------------------------
Accepting ==
  (\E c \in Clients : AcceptConn(c)) \/ AcceptError \/ Register \/ Spawn

Serve(c) ==
  Greet(c) \/ Fill(c) \/ Take(c) \/ Handle(c) \/ ReadError(c) \/ Cleanup(c)

Next ==
  \/ Stop \/ CloseListener \/ Unblock
  \/ Accepting
  \/ \E c \in Clients : Connect(c) \/ HangUp(c) \/ Serve(c)

Spec == Init /\ [][Next]_vars

(* Goroutines are scheduled.  A client may stay silent, but it reads its      *)
(* answers or is gone: writes have no deadline.                              *)
Fairness ==
  /\ WF_vars(CloseListener) /\ WF_vars(Unblock) /\ WF_vars(Accepting)
  /\ \A c \in Clients :
       WF_vars(Greet(c) \/ Take(c) \/ Handle(c) \/ ReadError(c) \/ Cleanup(c))

FairSpec == Spec /\ Fairness

-----------------------------------------------------------------------------
(* Type correctness; the accept loop has a connection in hand exactly between *)
(* Accept and ctx.Go.                                                         *)
TypeOK ==
  /\ stopping \in BOOLEAN /\ listening \in BOOLEAN /\ unblocked \in BOOLEAN
  /\ acc \in {"accept", "register", "spawn", "exit"}
  /\ cur \in Clients \union {None}
  /\ cur # None <=> acc \in {"register", "spawn"}
  /\ st \in [Clients -> Running \union {"none", "queued", "accepted", "closed"}]
  /\ openConns \subseteq Clients /\ expired \subseteq Clients
  /\ gone \subseteq Clients
  /\ buffered \in [Clients -> 0..MaxLines]

(* No handler is missed (dummy.go:89): once the deadlines were set, every     *)
(* handler that runs has one in the past, however its accept, registration    *)
(* and start interleaved with the shutdown.                                   *)
UnblockReachesAll ==
  unblocked => \A c \in Clients : st[c] \in Running => c \in expired

(* The registry does not leak: a closed connection is still registered only   *)
(* when the stopping context refused its handler.                             *)
RegistryExact ==
  ~stopping => \A c \in openConns : st[c] # "closed"

(* Shutdown ends the accept loop and every handler, also one whose client     *)
(* stays connected and silent.                                                *)
ShutdownCompletes ==
  stopping ~> /\ acc = "exit" /\ ~listening
              /\ \A c \in Clients : st[c] \in {"none", "closed"}
-----------------------------------------------------------------------------
(* The inductive invariant: the deadlines are set after Stop only, and a      *)
(* connection is registered from before its handler starts until it ends.     *)
DummyInvariant ==
  /\ TypeOK
  /\ unblocked => stopping
  /\ listening \/ stopping
  /\ acc \in {"register", "spawn"} => st[cur] = "accepted"
  /\ acc = "spawn" => cur \in openConns
  /\ \A c \in Clients : st[c] \in Running => c \in openConns
  /\ UnblockReachesAll
  /\ RegistryExact
=============================================================================
