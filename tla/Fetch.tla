------------------------------- MODULE Fetch --------------------------------
(***************************************************************************)
(* cmd/fetch: a range of macro variables is queried, one RoundTrip after    *)
(* the other, and written as a table, while a client goes on writing to the *)
(* same host.  The file that --out names is created, but the table's writer *)
(* is left nil, and the flush panics.                                       *)
(*                                                                         *)
(* Fetch has a connection of its own, beside the proxy's, and a real host   *)
(* sends every answer to every connection (README.md:25), so that a call    *)
(* may return an answer to somebody else, or to an earlier call.            *)
(***************************************************************************)
EXTENDS Exchange

VARIABLES
  pc,          \* "new", "ask", "await", "write", "done", "error" or "panic"
  start, end,  \* the flags; 0 is unset
  buf,         \* the numbers fetched so far
  rows,        \* what is on the standard output
  held,        \* the values each variable has had since fetch began
  heard,       \* the answers the host has given since then
  came         \* how each number fetched so far arrived

fetchVars == <<pc, start, end, buf, rows, held, heard, came>>
allVars == <<vars, fetchVars>>

(* Go's int wraps around.                                                    *)
Wrap(i) == ((i + MaxInt + 1) % (2 * MaxInt + 2)) - MaxInt - 1

FetchInit ==
  /\ Init
  /\ pc = "new"
  /\ start = 0 /\ end = 0
  /\ buf = <<>> /\ rows = <<>>
  /\ held = [x \in Variables |-> {data[x]}]
  /\ heard = {} /\ came = <<>>

(* Run checks its flags.                                                     *)
NoHost ==
  /\ pc = "new"
  /\ pc' = "error"
  /\ UNCHANGED <<vars, start, end, buf, rows, held, heard, came>>

Run(s, e) ==
  /\ pc = "new"
  /\ start' = s
  /\ end' = IF e = 0 THEN s ELSE e
  /\ pc' = IF s = 0 \/ Wrap(end' - s + 1) <= 0 THEN "error" ELSE "ask"
  /\ held' = [x \in Variables |-> {data[x]}]
  /\ heard' = {}
  /\ UNCHANGED <<vars, buf, rows, came>>

Count == Wrap(end - start + 1)

(* Mutant: variables are counted from the first one. *)
VariableFromOne(i) == i

Variable(i) == Wrap(start + i - 1)

(* RoundTrip writes the next query.                                          *)
Ask ==
  /\ pc = "ask" /\ at = "idle"
  /\ pc' = "await"
  /\ at' = "wire"
  /\ judged' = Query(Int64(Variable(Len(buf) + 1)))
  /\ wire' = WriteTo(judged')
  /\ UNCHANGED <<typed, seen, answer, how, data, table, sent,
                 start, end, buf, rows, held, heard, came>>

(* It returns: a number is kept, also one that was cut or is a stray; any     *)
(* other answer is an error.                                                  *)
Collect ==
  /\ pc = "await"
  /\ Answer
  /\ LET n == ParseResponse(judged, answer) IN
       IF n = None THEN pc' = "error" /\ UNCHANGED <<buf, came>>
       ELSE /\ buf' = Append(buf, n)
            /\ came' = Append(came, how)
            /\ pc' = IF Len(buf') = Count THEN "write" ELSE "ask"
  /\ UNCHANGED <<start, end, rows, held, heard>>

FetchFails ==
  /\ pc = "await"
  /\ TripFails
  /\ pc' = "error"
  /\ UNCHANGED <<start, end, buf, rows, held, heard, came>>

(* The table is written to the standard output.                              *)
WriteTable ==
  /\ pc = "write"
  /\ pc' = "done"
  /\ rows' = [i \in 1..Count |-> [variable |-> Variable(i), text |-> Format(buf[i])]]
  /\ UNCHANGED <<vars, start, end, buf, held, heard, came>>

(* With --out there is no writer at the end of it.                           *)
WritePanics ==
  /\ pc = "write"
  /\ pc' = "panic"
  /\ UNCHANGED <<vars, start, end, buf, rows, held, heard, came>>

(* The file cannot be opened, or the output fails.                           *)
WriteFails ==
  /\ pc = "write"
  /\ pc' = "error"
  /\ UNCHANGED <<vars, start, end, buf, rows, held, heard, came>>

(* The client's steps; the call that is under way while fetch waits is its    *)
(* own.                                                                      *)
Client ==
  /\ \/ \E l \in Lines : Read(l)
     \/ Deny \/ Forward \/ Receive
     \/ pc # "await" /\ (Answer \/ TripFails)
  /\ UNCHANGED fetchVars

(* The host's.                                                               *)
Host ==
  /\ Handle
  /\ held' = [x \in Variables |-> held[x] \union {data'[x]}]
  /\ heard' = heard \union {answer'}
  /\ UNCHANGED <<pc, start, end, buf, rows, came>>

(* A call takes an answer that the host sent to everyone for its own, which   *)
(* is still to come.                                                          *)
Overhear ==
  /\ at \in {"wire", "reply"}
  /\ at' = "told"
  /\ how' = "stray"
  /\ answer' \in UNION {Cuts(r) : r \in heard \ {answer}}
  /\ heard' = IF at = "wire" THEN heard \union {HandleAnswer(ParseCommand(wire))} ELSE heard
  /\ UNCHANGED <<typed, judged, wire, seen, data, table, sent,
                 pc, start, end, buf, rows, held, came>>

FetchNext ==
  \/ Client \/ Host \/ Overhear \/ NoHost
  \/ \E s, e \in Ints : Run(s, e)
  \/ Ask \/ Collect \/ FetchFails \/ WriteTable \/ WritePanics \/ WriteFails

FetchSpec == FetchInit /\ [][FetchNext]_allVars

-----------------------------------------------------------------------------
(* The texts that name a value variable x has had since fetch began.          *)
Texts(x) ==
  CASE x = 0 -> {NaN}
    [] x > 0 -> {Format(n) : n \in held[Int64(x)]}
    [] OTHER -> {}

(* Those that a cut line may leave.                                           *)
CutTexts(x) ==
  {Format(ParseNumber(t)) : t \in UNION {Beginnings(u) : u \in Texts(x)}}

(* A fetch that succeeds (fetch.go:91) has fetched what was asked for: unless *)
(* it took a stray for an answer, one row for each variable from start to end *)
(* in order, whatever the flags, since a range that wraps around asks for a    *)
(* variable the host refuses.  Each has a value that variable had while fetch *)
(* ran, whatever others wrote, or what a cut line left of it; after a stray,   *)
(* a value that some variable had, or the number of a canned message.         *)
RowsRight ==
  pc = "done" =>
    /\ Len(rows) = Len(came)
    /\ (\A i \in 1..Len(came) : came[i] # "stray") =>
         /\ Len(rows) = end - start + 1
         /\ \A i \in 1..Len(rows) : rows[i].variable = start + i - 1
    /\ \A i \in 1..Len(rows) :
         LET x == rows[i].variable IN
           /\ came[i] = "whole" => rows[i].text \in Texts(x)
           /\ came[i] = "cut" => rows[i].text \in CutTexts(x)
           /\ came[i] = "stray" =>
                \/ \E y \in 0..MaxInt : rows[i].text \in CutTexts(y)
                \/ rows[i].text = Format(ParseNumber(CannedNumber))
=============================================================================
