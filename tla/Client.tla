------------------------------- MODULE Client -------------------------------
(***************************************************************************)
(* internal/proxy: one client connection, byte stream and clock included    *)
(* (Proxy.proxy, proxy.go:209).                                             *)
(*                                                                         *)
(* Proxy takes a message as whole and leaves time open; here it is the       *)
(* other way round: the configuration is a flag, and the stream is cut      *)
(* anywhere.  A line is two halves, the second with the line end, so the    *)
(* stream is a position: half 2i-1 begins line i, half 2i ends it.  A       *)
(* scanner holds the halves from+1..scanned.  When the 100ms deadline       *)
(* passes, the code puts a new scanner in its place, and what the old one   *)
(* held is gone (proxy.go:248).                                             *)
(***************************************************************************)
EXTENDS Integers, Sequences

CONSTANTS MaxLines,  \* bound: lines the client sends
          MaxIdle    \* bound: the ticks after which a client is idle

ASSUME MaxLinesAssumption == MaxLines \in Nat
ASSUME MaxIdleAssumption == MaxIdle \in Nat \ {0}

Lines == 1..MaxLines
Kinds == {"command", "denied", "empty", "junk"}

VARIABLES
  kind,       \* what each line is
  arrived,    \* the halves that have reached the proxy
  client,     \* "open", "ended" (it sends no more) or "reset"
  pc,         \* the handler: "top", "scan", "parse", "route", "trip", "closed"
  from, scanned,
  token,      \* the line in hand and whether it is "whole", its "head", "tail"
  msg,        \* what it was parsed as
  forwarded,  \* the tokens that went to the backend
  answered,   \* the lines that were answered
  cut,        \* the lines whose first half went with a scanner
  age,        \* ticks since idleSince
  expanded,   \* the configuration's defaults have been filled in
  routed,     \* there is a route for the client
  hostUp,     \* round trips succeed
  stopping

streamVars == <<kind, arrived, client>>
scanVars == <<from, scanned, cut>>
msgVars == <<token, msg>>
outVars == <<forwarded, answered>>
envVars == <<expanded, routed, hostUp, stopping>>
vars == <<streamVars, pc, scanVars, msgVars, outVars, age, envVars>>

NoToken == [line |-> 0, part |-> "whole"]

Init ==
  /\ kind \in [Lines -> Kinds]
  /\ arrived = 0 /\ client = "open"
  /\ pc = "top"
  /\ from = 0 /\ scanned = 0 /\ cut = {}
  /\ token = NoToken /\ msg = "empty"
  /\ forwarded = <<>> /\ answered = {}
  /\ age = 0
  /\ expanded = TRUE /\ routed = TRUE /\ hostUp = TRUE /\ stopping = FALSE

-----------------------------------------------------------------------------
(* The client and its surroundings.                                          *)
Arrive ==
  /\ client = "open" /\ arrived < 2 * MaxLines
  /\ arrived' = arrived + 1
  /\ UNCHANGED <<kind, client, pc, scanVars, msgVars, outVars, age, envVars>>

HangUp ==
  /\ client # "reset"
  /\ client' \in {"ended", "reset"} \ {client}
  /\ UNCHANGED <<kind, arrived, pc, scanVars, msgVars, outVars, age, envVars>>

(* A new configuration is in the variable before expandPolicy has seen it,   *)
(* and is applied after that.                                                *)
SetConfig ==
  /\ expanded' = FALSE
  /\ UNCHANGED <<streamVars, pc, scanVars, msgVars, outVars, age, routed, hostUp,
                 stopping>>

Configure ==
  /\ ~expanded
  /\ expanded' = TRUE
  /\ routed' \in BOOLEAN
  /\ UNCHANGED <<streamVars, pc, scanVars, msgVars, outVars, age, hostUp, stopping>>

HostFails ==
  /\ hostUp
  /\ hostUp' = FALSE
  /\ UNCHANGED <<streamVars, pc, scanVars, msgVars, outVars, age, expanded, routed,
                 stopping>>

Stop ==
  /\ ~stopping
  /\ stopping' = TRUE
  /\ UNCHANGED <<streamVars, pc, scanVars, msgVars, outVars, age, expanded, routed,
                 hostUp>>

Tick ==
  /\ pc # "closed" /\ age < MaxIdle
  /\ age' = age + 1
  /\ UNCHANGED <<streamVars, pc, scanVars, msgVars, outVars, envVars>>

-----------------------------------------------------------------------------
Goto(at, to) ==
  /\ pc = at
  /\ pc' = to
  /\ UNCHANGED <<streamVars, envVars>>

(* The handler returns, which closes the connection.                         *)
Return(at) ==
  /\ Goto(at, "closed")
  /\ UNCHANGED <<scanVars, msgVars, outVars, age>>

(* Mutant: idle connections are not dropped. *)
NeverTooLong == FALSE

IdleTooLong == age = MaxIdle

(* The top of the loop.  Before expandPolicy MaxIdle may still be 0.         *)
TopStopping == stopping /\ Return("top")

TopIdle == ~stopping /\ (IdleTooLong \/ ~expanded) /\ Return("top")

(* Mutant: every turn of the loop makes a new scanner. *)
NewScanner == scanned

(* The loop keeps its scanner.                                               *)
KeptScanner == from

TopScan ==
  /\ ~stopping /\ ~IdleTooLong
  /\ Goto("top", "scan")
  /\ from' = KeptScanner
  /\ UNCHANGED <<scanned, cut, msgVars, outVars, age>>

-----------------------------------------------------------------------------
(* bufio.Scanner.  The end of the next line behind position p:               *)
LineEnd(p) == 2 * (p \div 2) + 2

HasLine == LineEnd(from) <= scanned

Yield(part) ==
  /\ Goto("scan", "parse")
  /\ token' = [line |-> LineEnd(from) \div 2, part |-> part]
  /\ UNCHANGED <<scanned, cut, msg, outVars, age>>

(* A line it holds.  What is left of one whose beginning was lost is a line  *)
(* too.                                                                      *)
ScanLine ==
  /\ HasLine
  /\ Yield(IF from % 2 = 0 THEN "whole" ELSE "tail")
  /\ from' = LineEnd(from)

(* Otherwise it reads what has arrived.                                      *)
ScanRead ==
  /\ ~HasLine /\ scanned < arrived /\ client # "reset"
  /\ Goto("scan", "scan")
  /\ scanned' = arrived
  /\ UNCHANGED <<from, cut, msgVars, outVars, age>>

AtEnd == ~HasLine /\ client = "ended" /\ scanned = arrived

(* The end of the input: an unterminated line counts as one ...              *)
ScanRest ==
  /\ AtEnd /\ from < scanned
  /\ Yield("head")
  /\ from' = scanned

(* ... and without one Scan returns FALSE and no error, so the loop goes on. *)
ScanNothing ==
  /\ AtEnd /\ from = scanned
  /\ Goto("scan", "top")
  /\ UNCHANGED <<scanVars, msgVars, outVars, age>>

(* Mutant: a fragment that comes with the timeout is taken for a line. *)
FragmentGoesTo == IF from < scanned THEN "parse" ELSE "top"

(* After a timeout the loop starts over, whatever Scan returned with it.     *)
TimeoutGoesTo == "top"

(* The deadline passes, while nothing arrives or between the parts of a      *)
(* line.  The fragment is dropped with the scanner.                          *)
ScanTimeout ==
  /\ ~HasLine
  /\ from < scanned \/ (scanned = arrived /\ client = "open")
  /\ Goto("scan", TimeoutGoesTo)
  /\ IF from = scanned THEN UNCHANGED <<token, cut>>
     ELSE /\ token' = [line |-> LineEnd(from) \div 2, part |-> "head"]
          /\ cut' = cut \union {token'.line}
  /\ from' = scanned
  /\ UNCHANGED <<scanned, msg, outVars, age>>

ScanFails == ~HasLine /\ client = "reset" /\ Return("scan")

-----------------------------------------------------------------------------
(* What ParseCommand may make of a token.  It wants a leading '?', so the    *)
(* rest of a command is none; the beginning of one may be a shorter one.     *)
Readings(t) ==
  LET k == kind[t.line] IN
  CASE t.part = "whole" \/ k = "empty" -> {k}
    [] t.part = "head" /\ k # "empty" -> {"command", "denied", "junk"}
    [] t.part = "tail" /\ k = "junk" -> Kinds
    [] OTHER -> {"empty", "junk"}

ParseEmpty ==
  /\ Goto("parse", "top")
  /\ "empty" \in Readings(token)
  /\ UNCHANGED <<scanVars, msgVars, outVars, age>>

ParseFails == Return("parse") /\ "junk" \in Readings(token)

Parse ==
  /\ Goto("parse", "route")
  /\ msg' \in Readings(token) \intersect {"command", "denied"}
  /\ UNCHANGED <<scanVars, token, outVars, age>>

NoRoute == ~routed /\ Return("route")

(* Mutant: a failed access check kills the connection. *)
DenyEnds == "closed"

(* A failed access check doesn't kill the connection.                        *)
DenyGoesTo == "top"

(* The denial is an answer, and leaves idleSince as it is.                   *)
Deny ==
  /\ msg = "denied" /\ routed
  /\ Goto("route", DenyGoesTo)
  /\ answered' = answered \union {token.line}
  /\ UNCHANGED <<scanVars, msgVars, forwarded, age>>

DenyFails == msg = "denied" /\ routed /\ client # "open" /\ Return("route")

Forward ==
  /\ msg = "command" /\ routed
  /\ Goto("route", "trip")
  /\ forwarded' = Append(forwarded, token)
  /\ UNCHANGED <<scanVars, msgVars, answered, age>>

(* The round trip fails, or the client is not there to be answered.          *)
TripFails == (~hostUp \/ client # "open") /\ Return("trip")

(* The response is written; only now the client counts as active.            *)
Reply ==
  /\ hostUp
  /\ Goto("trip", "top")
  /\ answered' = answered \union {token.line}
  /\ age' = 0
  /\ UNCHANGED <<scanVars, msgVars, forwarded>>

-----------------------------------------------------------------------------
Handle ==
  \/ TopStopping \/ TopIdle \/ TopScan
  \/ ScanLine \/ ScanRead \/ ScanRest \/ ScanNothing \/ ScanTimeout \/ ScanFails
  \/ ParseEmpty \/ ParseFails \/ Parse
  \/ NoRoute \/ Deny \/ DenyFails \/ Forward \/ TripFails \/ Reply

Next ==
  \/ Arrive \/ HangUp \/ SetConfig \/ Configure \/ HostFails \/ Stop \/ Tick
  \/ Handle

Spec == Init /\ [][Next]_vars

(* The handler is scheduled and time passes.  The client owes nothing.       *)
FairSpec == Spec /\ WF_vars(Handle) /\ WF_vars(Tick)

-----------------------------------------------------------------------------
(* Type correctness; the scanner is never ahead of the stream, and a handler *)
(* past the scanner has a line in hand.                                      *)
TypeOK ==
  /\ kind \in [Lines -> Kinds]
  /\ from <= scanned /\ scanned <= arrived /\ arrived \in 0..(2 * MaxLines)
  /\ client \in {"open", "ended", "reset"}
  /\ pc \in {"top", "scan", "parse", "route", "trip", "closed"}
  /\ pc \in {"parse", "route", "trip"} => token.line \in Lines
  /\ cut \subseteq Lines /\ answered \subseteq Lines
  /\ age \in 0..MaxIdle

(* The host is sent what the client typed (proxy.go:248): commands go to the  *)
(* backend in the order of their lines, each at most once, and a command is  *)
(* never one half of a line, wherever the deadline cuts the stream.  The     *)
(* exceptions: what follows a cut in a line that was no command, and an      *)
(* unterminated last line.                                                   *)
WholeInOrder ==
  \A i \in 1..Len(forwarded) :
    LET t == forwarded[i] IN
    /\ \A j \in 1..(i - 1) : forwarded[j].line < t.line
    /\ \/ t.part = "whole" /\ kind[t.line] = "command"
       \/ t.part = "tail" /\ kind[t.line] = "junk" /\ t.line \in cut
       \/ t.part = "head" /\ client # "open" /\ arrived = 2 * t.line - 1

(* A connection ends for a reason: the context stops, the client has gone,   *)
(* sent junk or had a line cut, has no route, its host fails, nothing was    *)
(* proxied for MaxIdle, or the configuration was not expanded (proxy.go:234). *)
(* A denial is no reason, nor is a deadline.                                 *)
EndsForReason ==
  [][pc # "closed" /\ pc' = "closed" =>
       \/ stopping \/ client # "open" \/ ~routed \/ ~hostUp
       \/ pc = "parse" /\ (kind[token.line] = "junk" \/ token.line \in cut)
       \/ age = MaxIdle \/ ~expanded]_vars

(* Nobody stays for ever: after Stop, and after its client has ended or      *)
(* reset it, a connection is closed - by the idle clock, where the scanner   *)
(* at the end of the input reports nothing and the loop spins (proxy.go:254). *)
ConnectionEnds == stopping \/ client # "open" ~> pc = "closed"

(* Nothing is skipped (proxy.go:241): whenever the handler is about to wait   *)
(* for more input, every command and every denied line behind the scanner's  *)
(* position was answered, however many arrived at once, unless the deadline  *)
(* cut it.                                                                   *)
NothingSkipped ==
  pc \in {"top", "scan"} =>
    \A i \in Lines :
      2 * i <= from /\ kind[i] \in {"command", "denied"} => i \in answered \union cut
=============================================================================
