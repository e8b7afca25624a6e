---------------------------- MODULE ClientProofs ----------------------------
(***************************************************************************)
(* Proofs about Client, for any number of lines and any idle time.          *)
(***************************************************************************)
EXTENDS Client, TLAPS

Parts == {"whole", "head", "tail"}
Tokens == [line : Lines, part : Parts]
InHand == pc \in {"parse", "route", "trip"}

(* The input is over after the half at which the scanner stands.             *)
Over == client # "open" /\ arrived = from

StreamOK ==
  /\ kind \in [Lines -> Kinds]
  /\ arrived \in Nat /\ arrived <= 2 * MaxLines
  /\ from \in Nat /\ scanned \in Nat /\ from <= scanned /\ scanned <= arrived

(* A scanner between the halves of a line has lost the first one, or stands   *)
(* at the end of the input.                                                  *)
Between == \A q \in Nat : from = 2 * q + 1 => q + 1 \in cut \/ Over

(* The line in hand is the last one behind the scanner's position.           *)
TokenOK ==
  InHand =>
    /\ token \in Tokens
    /\ token.part # "head" => from = 2 * token.line
    /\ token.part = "head" => from = 2 * token.line - 1 /\ Over
    /\ token.part = "tail" => token.line \in cut

MsgOK ==
  pc = "route" /\ msg = "command" =>
    /\ token.part = "whole" => kind[token.line] = "command"
    /\ token.part = "tail" => kind[token.line] = "junk"

(* What was forwarded is behind it, too.                                     *)
Behind(t) ==
  /\ 2 * t.line <= from + 1
  /\ 2 * t.line = from + 1 => Over
  /\ pc \in {"parse", "route"} => t.line < token.line

ForwardedOK ==
  /\ forwarded \in Seq(Tokens)
  /\ \A i \in 1..Len(forwarded) : Behind(forwarded[i])

(* Nothing but the line in hand is left to be answered.                      *)
Settled ==
  pc # "closed" =>
    \A i \in Lines :
      2 * i <= from /\ kind[i] \in {"command", "denied"} =>
        i \in answered \union cut \/ (InHand /\ i = token.line)

Inv ==
  /\ StreamOK /\ Between /\ TokenOK /\ MsgOK
  /\ ForwardedOK /\ WholeInOrder /\ Settled

-----------------------------------------------------------------------------
(* Half p stands in line q + 1, the end of which is half 2q + 2.             *)
LEMMA Halves ==
  ASSUME NEW p \in Nat
  PROVE  \E q \in Nat :
           /\ LineEnd(p) = 2 * q + 2 /\ LineEnd(p) \div 2 = q + 1
           /\ p = 2 * q \/ p = 2 * q + 1
           /\ p % 2 = 0 <=> p = 2 * q
<1> DEFINE q == p \div 2
<1>1. q \in Nat /\ (p = 2 * q \/ p = 2 * q + 1) /\ (p % 2 = 0 <=> p = 2 * q)
  OBVIOUS
<1>2. LineEnd(p) = 2 * q + 2
  BY DEF LineEnd
<1>3. LineEnd(p) \div 2 = q + 1
  BY <1>1, <1>2
<1> QED BY <1>1, <1>2, <1>3

(* The strengthened invariant holds of a new connection.                     *)
LEMMA InitInv == Init => Inv
<1> SUFFICES ASSUME Init PROVE Inv
  OBVIOUS
<1>1. StreamOK /\ Between
  BY MaxLinesAssumption DEF Init, StreamOK, Between
<1>2. TokenOK /\ MsgOK
  BY DEF Init, TokenOK, MsgOK, InHand
<1>3. forwarded = <<>> /\ Len(forwarded) = 0 /\ forwarded \in Seq(Tokens)
  BY DEF Init
<1>4. ForwardedOK /\ WholeInOrder
  BY <1>3 DEF ForwardedOK, WholeInOrder
<1>5. Settled
  BY DEF Init, Settled, Lines
<1> QED BY <1>1, <1>2, <1>4, <1>5 DEF Inv

(* It says nothing of the clock, the configuration and the host.             *)
LEMMA InvStutter ==
  ASSUME Inv, UNCHANGED <<streamVars, pc, scanVars, msgVars, outVars>>
  PROVE  Inv'
<1> USE DEF streamVars, scanVars, msgVars, outVars
<1>1. StreamOK' /\ Between'
  BY DEF Inv, StreamOK, Between, Over
<1>2. TokenOK' /\ MsgOK'
  BY DEF Inv, TokenOK, MsgOK, InHand, Over
<1>3. ForwardedOK' /\ WholeInOrder'
  BY DEF Inv, ForwardedOK, WholeInOrder, Behind, Over
<1>4. Settled'
  BY DEF Inv, Settled, InHand
<1> QED BY <1>1, <1>2, <1>3, <1>4 DEF Inv
(* A half arrives only while the client is open, so nothing was over.        *)
LEMMA InvArrive == Inv /\ Arrive => Inv'
<1> SUFFICES ASSUME Inv, Arrive PROVE Inv'
  OBVIOUS
<1> USE DEF scanVars, msgVars, outVars, Arrive
<1>1. ~Over /\ client = "open"
  BY DEF Over
<1>2. StreamOK'
  BY MaxLinesAssumption DEF Inv, StreamOK
<1>3. Between'
  BY <1>1 DEF Inv, Between
<1>4. TokenOK' /\ MsgOK'
  BY <1>1 DEF Inv, TokenOK, MsgOK, InHand
<1>5. ForwardedOK'
  BY <1>1 DEF Inv, ForwardedOK, Behind
<1>6. WholeInOrder'
  BY <1>1 DEF Inv, WholeInOrder
<1>7. Settled'
  BY DEF Inv, Settled, InHand
<1> QED BY <1>2, <1>3, <1>4, <1>5, <1>6, <1>7 DEF Inv

(* What is over stays over when the client hangs up.                         *)
LEMMA InvHangUp == Inv /\ HangUp => Inv'
<1> SUFFICES ASSUME Inv, HangUp PROVE Inv'
  OBVIOUS
<1> USE DEF scanVars, msgVars, outVars, HangUp
<1>1. client' # "open"
  OBVIOUS
<1>2. Over => Over'
  BY <1>1 DEF Over
<1>3. StreamOK' /\ Between'
  BY <1>2 DEF Inv, StreamOK, Between
<1>4. TokenOK' /\ MsgOK'
  BY <1>2 DEF Inv, TokenOK, MsgOK, InHand
<1>5. ForwardedOK'
  BY <1>2 DEF Inv, ForwardedOK, Behind
<1>6. WholeInOrder'
  BY <1>1 DEF Inv, WholeInOrder
<1>7. Settled'
  BY DEF Inv, Settled, InHand
<1> QED BY <1>3, <1>4, <1>5, <1>6, <1>7 DEF Inv

(* The handler moves on without a line in hand, or returns.                  *)
LEMMA InvMove ==
  ASSUME Inv, UNCHANGED <<streamVars, scanVars, msgVars, outVars>>,
         pc' = "closed" \/ (~InHand /\ pc # "closed" /\ pc' \in {"top", "scan"})
  PROVE  Inv'
<1> USE DEF streamVars, scanVars, msgVars, outVars
<1>1. ~InHand'
  BY DEF InHand
<1>2. StreamOK' /\ Between' /\ TokenOK' /\ MsgOK'
  BY <1>1 DEF Inv, StreamOK, Between, Over, TokenOK, MsgOK, InHand
<1>3. ForwardedOK'
  BY DEF Inv, ForwardedOK, Behind, Over
<1>4. WholeInOrder'
  BY DEF Inv, WholeInOrder
<1>5. Settled'
  BY DEF Inv, Settled
<1> QED BY <1>2, <1>3, <1>4, <1>5 DEF Inv

(* Reading moves only the scanner's other end.                               *)
LEMMA InvRead == Inv /\ ScanRead => Inv'
<1> SUFFICES ASSUME Inv, ScanRead PROVE Inv'
  OBVIOUS
<1> USE DEF streamVars, msgVars, outVars, ScanRead, Goto
<1>1. StreamOK' /\ Between'
  BY DEF Inv, StreamOK, Between, Over
<1>2. TokenOK' /\ MsgOK'
  BY DEF Inv, TokenOK, MsgOK, InHand
<1>3. ForwardedOK' /\ WholeInOrder'
  BY DEF Inv, ForwardedOK, WholeInOrder, Behind, Over
<1>4. Settled'
  BY DEF Inv, Settled, InHand
<1> QED BY <1>1, <1>2, <1>3, <1>4 DEF Inv

(* A line comes out of the scanner: it is the next one, or what is left of   *)
(* the one the position stands in; the others were settled before.           *)
LEMMA InvLine == Inv /\ ScanLine => Inv'
<1> SUFFICES ASSUME Inv, ScanLine PROVE Inv'
  OBVIOUS
<1> USE DEF streamVars, ScanLine, Goto, Yield, outVars
<1>0. StreamOK
  BY DEF Inv
<1>1. PICK q \in Nat : /\ LineEnd(from) = 2 * q + 2 /\ LineEnd(from) \div 2 = q + 1
                       /\ from = 2 * q \/ from = 2 * q + 1
                       /\ from % 2 = 0 <=> from = 2 * q
  BY <1>0, Halves DEF StreamOK
<1>2. /\ from' = 2 * q + 2 /\ from' <= scanned
      /\ token' = [line |-> q + 1, part |-> IF from = 2 * q THEN "whole" ELSE "tail"]
      /\ from < from' /\ q + 1 \in Lines
  <2>1. from' = 2 * q + 2 /\ from' <= scanned
    BY <1>1 DEF HasLine
  <2>2. token' = [line |-> q + 1, part |-> IF from = 2 * q THEN "whole" ELSE "tail"]
    BY <1>1
  <2>3. from < from' /\ q + 1 \in Lines
    BY <1>0, <1>1, <2>1, MaxLinesAssumption DEF StreamOK, Lines
  <2> QED BY <2>1, <2>2, <2>3
<1>3. ~Over
  BY <1>0, <1>2 DEF Over, StreamOK
<1>4. StreamOK'
  BY <1>0, <1>2 DEF StreamOK
<1>5. Between'
  BY <1>2 DEF Between
<1>6. from # 2 * q => q + 1 \in cut
  BY <1>1, <1>3 DEF Inv, Between
<1>7. TokenOK' /\ MsgOK'
  <2>1. token' \in Tokens /\ from' = 2 * token'.line /\ token'.part # "head"
    BY <1>2 DEF Tokens, Parts
  <2>2. token'.part = "tail" => token'.line \in cut'
    BY <1>2, <1>6
  <2> QED BY <2>1, <2>2 DEF TokenOK, MsgOK
<1>8. ForwardedOK'
  <2> SUFFICES ASSUME NEW i \in 1..Len(forwarded) PROVE Behind(forwarded[i])'
    BY DEF Inv, ForwardedOK
  <2>1. forwarded[i] \in Tokens /\ Behind(forwarded[i])
    BY DEF Inv, ForwardedOK
  <2>2. 2 * forwarded[i].line <= from /\ forwarded[i].line \in Nat
    BY <2>1, <1>3, <1>0 DEF Behind, Tokens, Lines, StreamOK
  <2>3. forwarded[i].line < q + 1
    BY <2>2, <1>1
  <2> QED BY <2>2, <2>3, <1>2 DEF Behind
<1>9. WholeInOrder'
  BY DEF Inv, WholeInOrder
<1>10. Settled'
  <2> SUFFICES ASSUME NEW i \in Lines, 2 * i <= from',
                      kind[i] \in {"command", "denied"}
               PROVE  i \in answered \union cut \/ i = q + 1
    BY <1>2 DEF Settled, InHand
  <2>1. CASE i = q + 1
    BY <2>1
  <2>2. CASE i # q + 1
    <3>1. 2 * i <= from
      BY <2>2, <1>1, <1>2 DEF Lines
    <3> QED BY <3>1 DEF Inv, Settled, InHand
  <2> QED BY <2>1, <2>2
<1> QED BY <1>4, <1>5, <1>7, <1>8, <1>9, <1>10 DEF Inv
(* At the end of the input the rest of the scanner's content is half a line. *)
LEMMA InvRest == Inv /\ ScanRest => Inv'
<1> SUFFICES ASSUME Inv, ScanRest PROVE Inv'
  OBVIOUS
<1> USE DEF streamVars, ScanRest, AtEnd, HasLine, Goto, Yield, outVars
<1>0. StreamOK
  BY DEF Inv
<1>1. PICK q \in Nat : /\ LineEnd(from) = 2 * q + 2 /\ LineEnd(from) \div 2 = q + 1
                       /\ from = 2 * q \/ from = 2 * q + 1
  BY <1>0, Halves DEF StreamOK
<1>2. /\ from = 2 * q /\ from' = 2 * q + 1 /\ from' = arrived /\ from' = scanned
      /\ q + 1 \in Lines
  BY <1>0, <1>1, MaxLinesAssumption DEF StreamOK, Lines
<1>3. token' = [line |-> q + 1, part |-> "head"]
  BY <1>1
<1>4. Over'
  BY <1>2 DEF Over
<1>5. StreamOK' /\ Between'
  BY <1>0, <1>2, <1>4 DEF StreamOK, Between
<1>6. TokenOK' /\ MsgOK'
  BY <1>2, <1>3, <1>4 DEF TokenOK, MsgOK, Tokens, Parts
<1>7. ForwardedOK'
  <2> SUFFICES ASSUME NEW i \in 1..Len(forwarded) PROVE Behind(forwarded[i])'
    BY DEF Inv, ForwardedOK
  <2>1. forwarded[i] \in Tokens /\ 2 * forwarded[i].line <= from + 1
    BY DEF Inv, ForwardedOK, Behind
  <2>2. forwarded[i].line < q + 1
    BY <2>1, <1>2 DEF Tokens, Lines
  <2> QED BY <2>1, <2>2, <1>2, <1>3, <1>4 DEF Behind, Tokens, Lines
<1>8. WholeInOrder'
  BY DEF Inv, WholeInOrder
<1>9. Settled'
  <2> SUFFICES ASSUME NEW i \in Lines, 2 * i <= from',
                      kind[i] \in {"command", "denied"}
               PROVE  i \in answered \union cut
    BY DEF Settled
  <2>1. 2 * i <= from
    BY <1>2 DEF Lines
  <2> QED BY <2>1 DEF Inv, Settled, InHand
<1> QED BY <1>5, <1>6, <1>7, <1>8, <1>9 DEF Inv

(* A deadline that finds a fragment cuts a line from its beginning.          *)
LEMMA InvTimeout == Inv /\ ScanTimeout => Inv'
<1> SUFFICES ASSUME Inv, ScanTimeout PROVE Inv'
  OBVIOUS
<1> USE DEF streamVars, ScanTimeout, TimeoutGoesTo, HasLine, Goto, outVars
<1>0. StreamOK
  BY DEF Inv
<1>1. ~InHand /\ ~InHand' /\ pc # "closed"
  BY DEF InHand
<1>2. StreamOK' /\ TokenOK' /\ MsgOK' /\ WholeInOrder'
  BY <1>0, <1>1 DEF Inv, StreamOK, TokenOK, MsgOK, WholeInOrder
<1>3. CASE from = scanned
  <2>1. Between'
    BY <1>3 DEF Inv, Between, Over
  <2>2. ForwardedOK'
    BY <1>3 DEF Inv, ForwardedOK, Behind, Over
  <2>3. Settled'
    BY <1>1, <1>3 DEF Inv, Settled
  <2> QED BY <1>2, <2>1, <2>2, <2>3 DEF Inv
<1>4. CASE from # scanned
  <2>1. PICK q \in Nat : /\ LineEnd(from) = 2 * q + 2 /\ LineEnd(from) \div 2 = q + 1
                         /\ from = 2 * q \/ from = 2 * q + 1
    BY <1>0, Halves DEF StreamOK
  <2>2. from = 2 * q /\ from' = 2 * q + 1
    BY <1>0, <1>4, <2>1 DEF StreamOK
  <2>3. cut' = cut \union {q + 1}
    BY <1>4, <2>1
  <2>4. Between'
    BY <2>2, <2>3 DEF Between
  <2>5. ForwardedOK'
    <3> SUFFICES ASSUME NEW i \in 1..Len(forwarded) PROVE Behind(forwarded[i])'
      BY DEF Inv, ForwardedOK
    <3>1. forwarded[i] \in Tokens /\ 2 * forwarded[i].line <= from + 1
      BY DEF Inv, ForwardedOK, Behind
    <3>2. 2 * forwarded[i].line <= from
      BY <3>1, <2>2 DEF Tokens, Lines
    <3> QED BY <3>1, <3>2, <2>2 DEF Behind, Tokens, Lines
  <2>6. Settled'
    <3> SUFFICES ASSUME NEW i \in Lines, 2 * i <= from',
                        kind[i] \in {"command", "denied"}
                 PROVE  i \in answered \union cut
      BY <2>3 DEF Settled
    <3>1. 2 * i <= from
      BY <2>2 DEF Lines
    <3> QED BY <3>1, <1>1 DEF Inv, Settled
  <2> QED BY <1>2, <2>4, <2>5, <2>6 DEF Inv
<1> QED BY <1>3, <1>4

-----------------------------------------------------------------------------
(* A parsed line is no command unless its kind is.                           *)
LEMMA InvParse == Inv /\ Parse => Inv'
<1> SUFFICES ASSUME Inv, Parse PROVE Inv'
  OBVIOUS
<1> USE DEF streamVars, scanVars, outVars, Parse, Goto
<1>1. InHand /\ InHand'
  BY DEF InHand
<1>2. StreamOK' /\ Between'
  BY DEF Inv, StreamOK, Between, Over
<1>3. TokenOK'
  BY <1>1 DEF Inv, TokenOK, Over
<1>4. MsgOK'
  BY DEF MsgOK, Readings
<1>5. ForwardedOK'
  BY DEF Inv, ForwardedOK, Behind, Over
<1>6. WholeInOrder' /\ Settled'
  BY <1>1 DEF Inv, WholeInOrder, Settled
<1> QED BY <1>2, <1>3, <1>4, <1>5, <1>6 DEF Inv

(* Only an empty line, or what is left of a cut one, is passed over.         *)
LEMMA InvEmpty == Inv /\ ParseEmpty => Inv'
<1> SUFFICES ASSUME Inv, ParseEmpty PROVE Inv'
  OBVIOUS
<1> USE DEF streamVars, scanVars, msgVars, outVars, ParseEmpty, Goto
<1>1. InHand /\ ~InHand' /\ pc = "parse" /\ pc' = "top"
  BY DEF InHand
<1>2. StreamOK' /\ Between' /\ TokenOK' /\ MsgOK'
  BY <1>1 DEF Inv, StreamOK, Between, Over, TokenOK, MsgOK
<1>3. ForwardedOK' /\ WholeInOrder'
  BY <1>1 DEF Inv, ForwardedOK, Behind, Over, WholeInOrder
<1>4. Settled'
  <2> SUFFICES ASSUME NEW i \in Lines, 2 * i <= from,
                      kind[i] \in {"command", "denied"}, i = token.line
               PROVE  i \in answered \union cut
    BY <1>1 DEF Inv, Settled
  <2>1. token \in Tokens /\ token.part # "head"
    BY <1>1 DEF Inv, TokenOK, Tokens, Lines
  <2>2. token.part # "whole"
    BY DEF Readings
  <2>3. token.part = "tail"
    BY <2>1, <2>2 DEF Tokens, Parts
  <2> QED BY <2>3, <1>1 DEF Inv, TokenOK
<1> QED BY <1>2, <1>3, <1>4 DEF Inv

(* The line in hand is answered, and nothing else changes.                   *)
LEMMA InvAnswer ==
  ASSUME Inv, UNCHANGED <<streamVars, scanVars, msgVars, forwarded>>,
         pc # "closed", pc' = "top", answered' = answered \union {token.line}
  PROVE  Inv'
<1> USE DEF streamVars, scanVars, msgVars
<1>1. ~InHand'
  BY DEF InHand
<1>2. StreamOK' /\ Between' /\ TokenOK' /\ MsgOK'
  BY <1>1 DEF Inv, StreamOK, Between, Over, TokenOK, MsgOK
<1>3. ForwardedOK' /\ WholeInOrder'
  BY DEF Inv, ForwardedOK, Behind, Over, WholeInOrder
<1>4. Settled'
  BY DEF Inv, Settled, InHand
<1> QED BY <1>2, <1>3, <1>4 DEF Inv

(* A command goes to the backend behind everything that went there before.   *)
LEMMA InvForward == Inv /\ Forward => Inv'
<1> SUFFICES ASSUME Inv, Forward PROVE Inv'
  OBVIOUS
<1> USE DEF streamVars, scanVars, msgVars, Forward, Goto
<1>0. StreamOK
  BY DEF Inv
<1>1. InHand /\ InHand' /\ pc = "route" /\ pc' = "trip"
  BY DEF InHand
<1>2. StreamOK' /\ Between' /\ TokenOK' /\ MsgOK'
  BY <1>1 DEF Inv, StreamOK, Between, Over, TokenOK, MsgOK
<1>3. /\ token \in Tokens
      /\ token.part # "head" => from = 2 * token.line
      /\ token.part = "head" => from = 2 * token.line - 1 /\ Over
      /\ token.part = "tail" => token.line \in cut
  BY <1>1 DEF Inv, TokenOK
<1>4. /\ token.part = "whole" => kind[token.line] = "command"
      /\ token.part = "tail" => kind[token.line] = "junk"
  BY <1>1 DEF Inv, MsgOK
<1>5. /\ forwarded \in Seq(Tokens) /\ forwarded' \in Seq(Tokens)
      /\ Len(forwarded) \in Nat /\ Len(forwarded') = Len(forwarded) + 1
      /\ forwarded'[Len(forwarded) + 1] = token
      /\ \A i \in 1..Len(forwarded) : forwarded'[i] = forwarded[i]
  BY <1>3 DEF Inv, ForwardedOK
<1>6. \A i \in 1..Len(forwarded) : Behind(forwarded[i]) /\ forwarded[i].line < token.line
  BY <1>1 DEF Inv, ForwardedOK, Behind
<1>7. Over' <=> Over
  BY DEF Over
<1>8. ForwardedOK'
  <2> SUFFICES ASSUME NEW i \in 1..(Len(forwarded) + 1) PROVE Behind(forwarded[i])'
    BY <1>5 DEF ForwardedOK
  <2>1. CASE i = Len(forwarded) + 1
    <3>1. token.line \in Nat /\ from \in Nat
      BY <1>0, <1>3 DEF Tokens, Lines, StreamOK
    <3>2. 2 * token.line <= from + 1
      BY <3>1, <1>3
    <3>3. 2 * token.line = from + 1 => Over
      BY <3>1, <1>3
    <3> QED BY <2>1, <1>1, <1>5, <1>7, <3>2, <3>3 DEF Behind
  <2>2. CASE i # Len(forwarded) + 1
    <3>1. i \in 1..Len(forwarded)
      BY <2>2, <1>5
    <3> QED BY <3>1, <1>1, <1>5, <1>6, <1>7 DEF Behind
  <2> QED BY <2>1, <2>2
<1>9. WholeInOrder'
  <2> SUFFICES ASSUME NEW i \in 1..(Len(forwarded) + 1)
               PROVE  LET t == forwarded'[i] IN
                      /\ \A j \in 1..(i - 1) : forwarded'[j].line < t.line
                      /\ \/ t.part = "whole" /\ kind[t.line] = "command"
                         \/ t.part = "tail" /\ kind[t.line] = "junk" /\ t.line \in cut
                         \/ t.part = "head" /\ client # "open" /\ arrived = 2 * t.line - 1
    BY <1>5 DEF WholeInOrder
  <2>1. CASE i = Len(forwarded) + 1
    <3>1. \A j \in 1..(i - 1) : forwarded'[j].line < token.line
      BY <2>1, <1>5, <1>6
    <3>2. \/ token.part = "whole" /\ kind[token.line] = "command"
          \/ token.part = "tail" /\ kind[token.line] = "junk" /\ token.line \in cut
          \/ token.part = "head" /\ client # "open" /\ arrived = 2 * token.line - 1
      BY <1>3, <1>4 DEF Tokens, Parts, Over
    <3> QED BY <2>1, <1>5, <3>1, <3>2
  <2>2. CASE i # Len(forwarded) + 1
    <3>1. i \in 1..Len(forwarded) /\ \A j \in 1..(i - 1) : j \in 1..Len(forwarded)
      BY <2>2, <1>5
    <3> QED BY <3>1, <1>5 DEF Inv, WholeInOrder
  <2> QED BY <2>1, <2>2
<1>10. Settled'
  BY <1>1 DEF Inv, Settled
<1> QED BY <1>2, <1>8, <1>9, <1>10 DEF Inv

-----------------------------------------------------------------------------
(* Every step keeps the invariant.                                           *)
LEMMA NextInv == Inv /\ [Next]_vars => Inv'
<1> SUFFICES ASSUME Inv, [Next]_vars PROVE Inv'
  OBVIOUS
<1>1. CASE SetConfig \/ Configure \/ HostFails \/ Stop \/ Tick \/ UNCHANGED vars
  BY <1>1, InvStutter DEF SetConfig, Configure, HostFails, Stop, Tick, vars
<1>2. CASE TopStopping \/ TopIdle \/ ScanFails \/ ParseFails
           \/ NoRoute \/ DenyFails \/ TripFails
  BY <1>2, InvMove DEF TopStopping, TopIdle, ScanFails, ParseFails, NoRoute,
    DenyFails, TripFails, Return, Goto
<1>3. CASE TopScan \/ ScanNothing
  BY <1>3, InvMove DEF TopScan, KeptScanner, ScanNothing, Goto, InHand, scanVars
<1>4. CASE Deny \/ Reply
  BY <1>4, InvAnswer DEF Deny, DenyGoesTo, Reply, Goto
<1> QED BY <1>1, <1>2, <1>3, <1>4, InvArrive, InvHangUp, InvRead, InvLine, InvRest,
          InvTimeout, InvEmpty, InvParse, InvForward DEF Next, Handle

(* The host is sent whole commands, in the order of their lines and each at  *)
(* most once (proxy.go:248), except for what a deadline or the end of the    *)
(* input left of a line: however long the stream, wherever it is cut.        *)
THEOREM WholeInOrderCorrect == Spec => []WholeInOrder
<1>1. Inv => WholeInOrder
  BY DEF Inv
<1> QED BY <1>1, InitInv, NextInv, PTL DEF Spec

(* Whenever the handler waits for input, every command and every denied line *)
(* that it has passed was answered or cut by a deadline (proxy.go:241).      *)
THEOREM NothingSkippedCorrect == Spec => []NothingSkipped
<1>1. Inv => NothingSkipped
  BY DEF Inv, Settled, InHand, NothingSkipped
<1> QED BY <1>1, InitInv, NextInv, PTL DEF Spec
(* A connection ends only for a reason (proxy.go:234, :293): not for a denial *)
(* and not for a deadline.  That a line which does not parse is one takes the *)
(* invariant: half a line in hand was cut, or is the last one.               *)
THEOREM EndsForReasonCorrect == Spec => EndsForReason
<1> DEFINE Reason ==
      \/ stopping \/ client # "open" \/ ~routed \/ ~hostUp
      \/ pc = "parse" /\ (kind[token.line] = "junk" \/ token.line \in cut)
      \/ age = MaxIdle \/ ~expanded
<1>1. Inv /\ [Next]_vars => [pc # "closed" /\ pc' = "closed" => Reason]_vars
  <2> SUFFICES ASSUME Inv, [Next]_vars, pc # "closed", pc' = "closed"
               PROVE  Reason
    OBVIOUS
  <2>1. CASE UNCHANGED vars
    BY <2>1 DEF vars
  <2>2. CASE Arrive \/ HangUp \/ SetConfig \/ Configure \/ HostFails \/ Stop \/ Tick
    BY <2>2 DEF Arrive, HangUp, SetConfig, Configure, HostFails, Stop, Tick
  <2>3. CASE TopStopping \/ TopIdle \/ ScanFails \/ NoRoute \/ DenyFails \/ TripFails
    BY <2>3 DEF TopStopping, TopIdle, IdleTooLong, ScanFails, NoRoute, DenyFails,
      TripFails, Return, Goto
  <2>4. CASE ParseFails
    <3>1. pc = "parse" /\ "junk" \in Readings(token)
      BY <2>4 DEF ParseFails, Return, Goto
    <3>2. /\ token \in Tokens
          /\ token.part = "head" => Over
          /\ token.part = "tail" => token.line \in cut
      BY <3>1 DEF Inv, TokenOK, InHand
    <3>3. token.part = "whole" => kind[token.line] = "junk"
      BY <3>1 DEF Readings
    <3> QED BY <3>1, <3>2, <3>3 DEF Tokens, Parts, Over
  <2>5. CASE \/ TopScan \/ ScanLine \/ ScanRead \/ ScanRest \/ ScanNothing \/ ScanTimeout
             \/ ParseEmpty \/ Parse \/ Deny \/ Forward \/ Reply
    BY <2>5 DEF TopScan, ScanLine, ScanRead, ScanRest, ScanNothing, ScanTimeout,
      ParseEmpty, Parse, Deny, Forward, Reply, Goto, Yield, DenyGoesTo, TimeoutGoesTo
  <2> QED BY <2>1, <2>2, <2>3, <2>4, <2>5 DEF Next, Handle
<1> QED BY <1>1, InitInv, NextInv, PTL DEF Spec, EndsForReason
=============================================================================
