----------------------------- MODULE RoutingSpec ----------------------------
(***************************************************************************)
(* What a client of the proxy may rely on, whatever reconfiguration does.   *)
(*                                                                         *)
(* Configurations are published one after another, and some of them are put *)
(* in place, each later than the one before.  A message is judged at once   *)
(* and as a whole: by the policies of one published configuration, not      *)
(* older than the one in place when the message was read, and it goes to a  *)
(* host which that same configuration proxies on the client's port.         *)
(***************************************************************************)
EXTENDS Naturals

CONSTANTS Hosts, Ports, Clients, MaxVersion, Nil

VARIABLES
  version,  \* how many configurations have been published
  config,   \* the published configurations
  applied,  \* the one in place
  session   \* of each client: Nil when it is not served

vars == <<version, config, applied, session>>

Idle(p) == [at |-> "idle", port |-> p]
Asking(p, v) == [at |-> "asking", port |-> p, floor |-> v]
Judged(p, v, h) == [at |-> "judged", port |-> p, by |-> v, host |-> h]

Init ==
  /\ version = 0
  /\ config = [v \in 1..MaxVersion |-> [h \in Hosts |-> Nil]]
  /\ applied = 0
  /\ session = [c \in Clients |-> Nil]

Publish ==
  /\ version < MaxVersion
  /\ version' = version + 1
  /\ \E f \in [Hosts -> Ports \union {Nil}] :
       config' = [config EXCEPT ![version + 1] = f]
  /\ UNCHANGED <<applied, session>>

Apply ==
  /\ applied' \in (applied + 1)..version
  /\ UNCHANGED <<version, config, session>>

Becomes(c, s) ==
  /\ session' = [session EXCEPT ![c] = s]
  /\ UNCHANGED <<version, config, applied>>

Open(c) == session[c] = Nil /\ \E p \in Ports : Becomes(c, Idle(p))

Ask(c) ==
  \E p \in Ports : session[c] = Idle(p) /\ Becomes(c, Asking(p, applied))

Judge(c) ==
  \E p \in Ports, h \in Hosts, u, v \in 0..MaxVersion :
    /\ session[c] = Asking(p, u)
    /\ u <= v /\ 1 <= v /\ v <= version
    /\ config[v][h] = p
    /\ Becomes(c, Judged(p, v, h))

(* The message is denied, or answered by the host.                           *)
Answer(c) ==
  \E p \in Ports, h \in Hosts, v \in 0..MaxVersion :
    session[c] = Judged(p, v, h) /\ Becomes(c, Idle(p))

End(c) == session[c] # Nil /\ Becomes(c, Nil)

Next ==
  \/ Publish \/ Apply
  \/ \E c \in Clients : Open(c) \/ Ask(c) \/ Judge(c) \/ Answer(c) \/ End(c)

Spec == Init /\ [][Next]_vars
=============================================================================
