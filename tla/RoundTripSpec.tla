---------------------------- MODULE RoundTripSpec ----------------------------
(***************************************************************************)
(* What Conn.RoundTrip promises its callers, without the lock, the socket,  *)
(* the scanner or the keepalive goroutine.                                  *)
(*                                                                         *)
(* A command is executed by the host at most once, after its call was       *)
(* entered, possibly after the call has given up.  A call that returns a    *)
(* reply, or the beginning of one, returns that of its own command, which   *)
(* the host has executed by then - or, from a host that broadcasts, the     *)
(* reply to any command that was executed.  A call may return a bare prompt *)
(* or an error at any time, and neither says whether the command was        *)
(* executed.                                                                *)
(***************************************************************************)
EXTENDS Naturals

CONSTANTS Calls, SN, Nil, Broadcast

VARIABLES phase,    \* has the call been entered, has it returned?
          outcome,  \* what it returned
          answers,  \* whose reply it returned
          runs      \* how often the host executed its command

absVars == <<phase, outcome, answers, runs>>

Init ==
  /\ phase = [k \in Calls |-> "new"]
  /\ outcome = [k \in Calls |-> "none"]
  /\ answers = [k \in Calls |-> Nil]
  /\ runs = [k \in Calls |-> 0]

Enter(k) ==
  /\ phase[k] = "new"
  /\ phase' = [phase EXCEPT ![k] = "open"]
  /\ UNCHANGED <<outcome, answers, runs>>

Execute(k) ==
  /\ phase[k] # "new"
  /\ runs[k] = 0
  /\ runs' = [runs EXCEPT ![k] = 1]
  /\ UNCHANGED <<phase, outcome, answers>>

(* The commands whose replies may be returned to call k.                     *)
Replies(k) ==
  IF Broadcast THEN {m \in Calls : runs[m] = 1} \union {SN}
               ELSE {m \in {k} : runs[m] = 1}

ReturnReply(k, kind) ==
  /\ phase[k] = "open"
  /\ phase' = [phase EXCEPT ![k] = "done"]
  /\ outcome' = [outcome EXCEPT ![k] = kind]
  /\ \E m \in Replies(k) : answers' = [answers EXCEPT ![k] = m]
  /\ UNCHANGED runs

ReturnPrompt(k) ==
  /\ phase[k] = "open"
  /\ phase' = [phase EXCEPT ![k] = "done"]
  /\ outcome' = [outcome EXCEPT ![k] = "prompt"]
  /\ UNCHANGED <<answers, runs>>

ReturnError(k) ==
  /\ phase[k] # "done"
  /\ phase' = [phase EXCEPT ![k] = "done"]
  /\ outcome' = [outcome EXCEPT ![k] = "error"]
  /\ UNCHANGED <<answers, runs>>

Next ==
  \E k \in Calls :
    \/ Enter(k)
    \/ Execute(k)
    \/ ReturnReply(k, "reply") \/ ReturnReply(k, "part")
    \/ ReturnPrompt(k)
    \/ ReturnError(k)

Spec == Init /\ [][Next]_absVars
=============================================================================
