------------------------------ MODULE Exchange ------------------------------
(***************************************************************************)
(* A command on its way from a client through the proxy to the host, and    *)
(* the answer on its way back.  The proxy parses the client's line, judges  *)
(* the command it understood and writes it anew; the host parses that.  The *)
(* host is pkg/dummy's, with its table of macro variables.                  *)
(*                                                                         *)
(* One command is under way at a time: it meets the host's table in one     *)
(* step, so that the order of those steps is all that others could change.  *)
(* A command that the host executes after its call has ended is one that is *)
(* forwarded late.                                                          *)
(***************************************************************************)
EXTENDS Message

CONSTANT MaxCommands  \* bound: commands the client sends

ASSUME MaxCommandsAssumption == MaxCommands \in Nat

VARIABLES
  at,      \* where the command is: "idle" (nowhere), "judge", "wire", "reply" or "told"
  typed,   \* the value of a write as the client typed it
  judged,  \* the command that the proxy, or fetch, means
  wire,    \* the line on its way to the host
  seen,    \* the command the host understood
  answer,  \* the answer on its way back
  how,     \* how it arrived: "whole" or "cut"; or it is a "stray", another command's
  data,    \* the host's macro variables
  table,   \* what they should be: the value each judged write gave them
  sent     \* commands so far

vars == <<at, typed, judged, wire, seen, answer, how, data, table, sent>>

Variables == {Int64(i) : i \in 0..MaxInt}

Unset == Int64(0)

-----------------------------------------------------------------------------
Init ==
  /\ at = "idle"
  /\ typed = None /\ judged = None /\ wire = None /\ seen = None /\ answer = None
  /\ how = None
  /\ data = [x \in Variables |-> Unset]
  /\ table = [x \in Variables |-> Unset]
  /\ sent = 0

(* The proxy reads a line.  One that is no command ends the connection.      *)
Read(l) ==
  /\ at = "idle" /\ sent < MaxCommands
  /\ sent' = sent + 1
  /\ judged' = ParseCommand(l)
  /\ at' = IF judged' = None THEN "idle" ELSE "judge"
  /\ typed' = IF judged' # None /\ IsWrite(judged') THEN l.value ELSE None
  /\ UNCHANGED <<wire, seen, answer, how, data, table>>

Deny ==
  /\ at = "judge"
  /\ at' = "idle" /\ typed' = None /\ judged' = None
  /\ UNCHANGED <<wire, seen, answer, how, data, table, sent>>

(* The policy allows it, and RoundTrip writes it to the host.                *)
Forward ==
  /\ at = "judge"
  /\ at' = "wire"
  /\ wire' = WriteTo(judged)
  /\ UNCHANGED <<typed, judged, seen, answer, how, data, table, sent>>

Lookup(x) == IF x \in Variables THEN data[x] ELSE Unset

(* Server.handle of a query.                                                 *)
QueryAnswer(x) ==
  IF x.whole < 0 \/ x.frac # 0 THEN [text |-> "BAD VARIABLE NUMBER"]
  ELSE [text |-> "MACRO", value |-> IF x = Int64(0) THEN NaN ELSE Format(Lookup(x))]

(* The number of a canned message (TOOL CHANGES, 1024), or what a cut leaves   *)
(* of it; one without a number means as much as a part of one.                *)
CannedNumber == [neg |-> FALSE, whole |-> <<1>>, frac |-> <<>>]

(* Server.handle of a basic command: the canned messages are those of the    *)
(* documented ones.                                                          *)
BasicAnswer(n) == IF n.whole \in Documented THEN [text |-> "canned", value |-> CannedNumber]
                  ELSE [text |-> "?"]

HandleAnswer(c) ==
  IF c = None THEN [text |-> "BAD MESSAGE"]
  ELSE CASE IsWrite(c) -> [text |-> "!"]
         [] c.kind = "query" -> QueryAnswer(c.variable)
         [] OTHER -> BasicAnswer(c.command)

(* The host handles the line.                                                *)
Handle ==
  /\ at = "wire"
  /\ at' = "reply"
  /\ LET c == ParseCommand(wire) IN
       /\ seen' = c
       /\ data' = IF c # None /\ IsWrite(c) THEN [data EXCEPT ![c.variable] = c.value]
                                            ELSE data
       /\ answer' = HandleAnswer(c)
  /\ table' = IF IsWrite(judged) THEN [table EXCEPT ![judged.variable] = judged.value]
                                 ELSE table
  /\ typed' = None
  /\ UNCHANGED <<judged, wire, how, sent>>

(* The scanner returns the answer, or what had arrived of it when the         *)
(* deadline passed or the connection ended.  After that the next call fails   *)
(* on this connection, or finds it closed by its timer and dials.             *)
Receive ==
  /\ at = "reply"
  /\ at' = "told"
  /\ \/ how' = "whole" /\ answer' = answer
     \/ how' = "cut" /\ answer' \in Cuts(answer)
  /\ UNCHANGED <<typed, judged, wire, seen, data, table, sent>>

Forget ==
  /\ at' = "idle"
  /\ typed' = None /\ judged' = None /\ wire' = None /\ seen' = None
  /\ answer' = None /\ how' = None
  /\ UNCHANGED <<data, table, sent>>

(* The response is parsed, and passed on.                                    *)
Answer == at = "told" /\ Forget

(* RoundTrip fails, before or after the host has handled the command.        *)
TripFails == at \in {"wire", "reply"} /\ Forget

Next ==
  \/ \E l \in Lines : Read(l)
  \/ Deny \/ Forward \/ Handle \/ Receive \/ Answer \/ TripFails

Spec == Init /\ [][Next]_vars

-----------------------------------------------------------------------------
(* What was judged is what is executed (TestParseMessage, message_test.go:138): *)
(* the command the host understands is the one the policy judged, its kind,   *)
(* variable and value, although it was written and parsed once more.  (Only    *)
(* fetch can ask for a variable below zero, and is refused.)                  *)
JudgedIsExecuted ==
  at = "reply" =>
    seen = IF judged.kind = "query" /\ judged.variable.whole < 0 THEN None ELSE judged

(* Reads return the last write: the answer to a query has the value that the  *)
(* last judged write to the variable had, through all the parsing and         *)
(* formatting of both; a write is acknowledged as success.  If the answer was *)
(* cut (conn.go:181), a query's has the value that this one begins with, or   *)
(* none.                                                                      *)
ReadsLastWrite ==
  LET read == ParseResponse(judged, answer)
      expected == table[judged.variable]
      isRead == judged.kind = "query" /\ judged.variable \in Variables \ {Int64(0)}
  IN
    /\ at = "reply" \/ (at = "told" /\ how = "whole") =>
         /\ isRead => read = expected
         /\ IsWrite(judged) => IsSuccess(judged, answer)
    /\ at = "told" /\ how = "cut" /\ isRead =>
         read \in {None} \union {ParseNumber(t) : t \in Beginnings(Format(expected))}

(* Safe commands are understood (message.go:94): the host complains neither   *)
(* about a command that IsSafe lets read-only clients send, nor of its         *)
(* variable.                                                                  *)
SafeIsAnswered ==
  at = "reply" /\ IsSafe(judged) => answer.text \in {"MACRO", "canned"}

(* Float64 and String agree (TestParseNumber, message_test.go:265): both name *)
(* the same value for every Number the host was sent, but for a fraction      *)
(* whose logarithm is rounded up: Float64 reads it as if a zero stood before  *)
(* it, and makes 0.999999999999999 a tenth.                                   *)
FloatAgrees ==
  judged # None /\ IsWrite(judged) =>
    LET n == judged.value
        t == Format(n)
    IN Float64(n) = Value(IF n.frac \in LogCarries THEN [t EXCEPT !.frac = <<0>> \o @]
                                                   ELSE t)

-----------------------------------------------------------------------------
(* The comment of number.go:41 ("A Number represents a fixed-point decimal    *)
(* value"): the value that is sent to the host is the one the client typed.   *)
FixedPoint ==
  at = "wire" /\ IsWrite(judged) => Value(wire.value) = Value(typed)
=============================================================================
