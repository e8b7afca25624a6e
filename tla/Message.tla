------------------------------- MODULE Message ------------------------------
(***************************************************************************)
(* pkg/message: numbers, commands and responses, how they are parsed and    *)
(* how they are written.                                                    *)
(*                                                                         *)
(* Text is modelled by its structure.  A numeral is a sign, the digits      *)
(* before the point and those after it; a line is a Q or an E with its      *)
(* numerals.  A Number keeps each side of the point as an integer of its    *)
(* own, at most MaxInt, and the sign with the whole part.                   *)
(***************************************************************************)
EXTENDS Integers, Sequences

CONSTANTS
  Base,            \* of the numerals, ten in the code
  MaxInt,          \* the largest integer, math.MaxInt64 in the code
  WholeDigits,     \* bound: digits a client types before the point
  FracDigits,      \* bound: and after it
  QMacroVariable,  \* the number of the Q command that takes a variable
  Documented,      \* the numbers of the documented Q commands
  LogCarries,      \* the fractions whose logarithm is rounded up, see Float64
  NaN,
  None             \* no value, an error

ASSUME BaseAssumption == Base \in Nat \ {0, 1}
ASSUME BoundsAssumption == {WholeDigits, FracDigits} \subseteq Nat \ {0}
ASSUME CommandsAssumption ==
  /\ MaxInt \in Nat /\ QMacroVariable \in 0..MaxInt
  /\ Documented \subseteq 0..MaxInt \ {QMacroVariable}
  /\ LogCarries \subseteq 1..MaxInt

Ints == (-MaxInt - 1)..MaxInt

(* Numbers, what they are written as, and the commands that carry them.      *)
Number == [whole : Ints, frac : 0..MaxInt]

Text == [neg : BOOLEAN, whole : Seq(0..(Base - 1)), frac : Seq(0..(Base - 1))]

Command ==
  [kind : {"write"}, variable : Number, value : Number]
  \union [kind : {"query"}, variable : Number]
  \union [kind : {"basic"}, command : Number]

ASSUME NullAssumption ==
  /\ NaN # None
  /\ \A x \in {NaN, None} : x \notin Number /\ x \notin Text /\ x \notin Command

Digits(least, most) == UNION {[1..n -> 0..(Base - 1)] : n \in least..most}

Numerals(signs) ==
  [neg : signs, whole : Digits(1, WholeDigits), frac : Digits(0, FracDigits)]

Unsigned == {t \in Numerals({FALSE}) : t.frac = <<>>}

(* What a client may type; the variable after a Q may be left out.           *)
Lines ==
  [letter : {"E"}, variable : Unsigned, value : Numerals(BOOLEAN)]
  \union [letter : {"Q"}, command : Unsigned, variable : Numerals({FALSE}) \union {None}]
  \union {[letter |-> "other"]}

-----------------------------------------------------------------------------
(* What each prefix of a sequence of digits comes to.                        *)
Prefixes(ds) ==
  LET upTo[i \in 0..Len(ds)] == IF i = 0 THEN 0 ELSE upTo[i - 1] * Base + ds[i]
  IN  upTo

(* strconv.ParseInt, before its range check.                                 *)
Natural(ds) == Prefixes(ds)[Len(ds)]

Signed(t) == IF t.neg THEN -Natural(t.whole) ELSE Natural(t.whole)

(* fmt's %d, of a natural number.                                            *)
DigitsOf[n \in Nat] ==
  IF n < Base THEN <<n>> ELSE Append(DigitsOf[n \div Base], n % Base)

Int64(i) == [whole |-> i, frac |-> 0]

ParseNumber(t) ==
  CASE t = NaN -> NaN
    [] t = None -> None
    [] OTHER -> IF Signed(t) \in Ints /\ Natural(t.frac) <= MaxInt
                THEN [whole |-> Signed(t), frac |-> Natural(t.frac)]
                ELSE None

Abs(i) == IF i < 0 THEN -i ELSE i

(* Number.Format with the verb d.                                            *)
FormatInt(n) == [neg |-> n.whole < 0, whole |-> DigitsOf[Abs(n.whole)], frac |-> <<>>]

(* Mutant: the sign is not written. *)
FormatUnsigned(n) ==
  IF n = NaN THEN NaN
  ELSE [FormatInt(n) EXCEPT !.neg = FALSE, !.frac = DigitsOf[n.frac]]

(* Number.Format with the verb f: "%d.%d".                                   *)
Format(n) ==
  IF n = NaN THEN NaN ELSE [FormatInt(n) EXCEPT !.frac = DigitsOf[n.frac]]

Write(x, n) == [kind |-> "write", variable |-> x, value |-> n]
Query(x) == [kind |-> "query", variable |-> x]
Basic(n) == [kind |-> "basic", command |-> n]

IsWrite(c) == c.kind = "write"

(* Mutant: fractional variables are thought safe. *)
IsSafeWhole(c) ==
  c.kind = "query" \/ (c.kind = "basic" /\ c.command.whole \in Documented)

(* A basic command is safe if it is documented, a query if its variable may  *)
(* exist, and a write never.                                                 *)
IsSafe(c) ==
  \/ c.kind = "basic" /\ (c.command.whole \in Documented \/ c.command = Int64(QMacroVariable))
  \/ c.kind = "query" /\ c.variable.whole >= 0 /\ c.variable.frac = 0

ParseWrite(l) ==
  LET x == ParseNumber(l.variable)
      n == ParseNumber(l.value)
  IN IF None \in {x, n} THEN None ELSE Write(x, n)

(* The variable of a query has no sign, and only Q600 looks at it.           *)
ParseQuery(l) ==
  LET n == ParseNumber(l.command)
      x == ParseNumber(l.variable)
  IN IF n = None \/ (l.variable # None /\ l.variable.neg) THEN None
     ELSE IF n.whole # QMacroVariable THEN Basic(n)
     ELSE IF x = None THEN None
     ELSE Query(x)

ParseCommand(l) ==
  CASE l.letter = "E" -> ParseWrite(l)
    [] l.letter = "Q" -> ParseQuery(l)
    [] OTHER -> None

(* Mutant: the variable of a query is written with %d. *)
VariableInt(x) == FormatInt(x)

VariableText(x) == Format(x)

(* Command.WriteTo: "?E%d %f", "?Q600 %f" or "?Q%d".                         *)
WriteTo(c) ==
  CASE c.kind = "write" ->
         [letter |-> "E", variable |-> FormatInt(c.variable), value |-> Format(c.value)]
    [] c.kind = "query" ->
         [letter |-> "Q", command |-> FormatInt(Int64(QMacroVariable)),
          variable |-> VariableText(c.variable)]
    [] OTHER -> [letter |-> "Q", command |-> FormatInt(c.command), variable |-> None]

(* Which answers have two parts, the second of them a number.                 *)
HasNumber(r) == r.text \in {"MACRO", "canned"}

(* What the answer to a query means: its number, whatever comes before it; any *)
(* other answer is opaque and has no value.                                  *)
ParseResponse(c, r) ==
  IF c.kind = "query" /\ HasNumber(r) THEN ParseNumber(r.value) ELSE None

IsSuccess(c, r) ==
  CASE c.kind = "write" -> r.text = "!"
    [] c.kind = "query" -> ParseResponse(c, r) # None
    [] OTHER -> FALSE

(* What is left of a number in a line that ends too early, if it still is one; *)
(* it may have lost no more than the line end.                                *)
Beginnings(t) ==
  IF t = NaN THEN {NaN}
  ELSE {[t EXCEPT !.whole = SubSeq(@, 1, i), !.frac = <<>>] : i \in 1..Len(t.whole)}
       \union {[t EXCEPT !.frac = SubSeq(@, 1, i)] : i \in 1..Len(t.frac)}

(* What is left of an answer: a prompt, the beginning of its text, or all of  *)
(* it but for the end of a number or of the line.                             *)
Cuts(r) ==
  {[text |-> "part"]}
  \union IF HasNumber(r) THEN {[r EXCEPT !.value = t] : t \in Beginnings(r.value)}
         ELSE {r}

-----------------------------------------------------------------------------
Places == 2 * FracDigits + 2

(* What a numeral means, in units of Base^-Places.                           *)
Value(t) ==
  LET magnitude == Natural(t.whole) * Base ^ Places
                   + Natural(t.frac) * Base ^ (Places - Len(t.frac))
  IN IF t.neg THEN -magnitude ELSE magnitude

Copysign(f, w) == IF w < 0 THEN -f ELSE f

(* Mutant: the logarithm is rounded up, one digit too few for a power of the base. *)
LogDigitsCeil(f) == IF f <= 1 THEN 0 ELSE Len(DigitsOf[f - 1])

(* floor(log f) + 1, in floating-point numbers.  It is the number of f's      *)
(* digits, unless f is so little below a power of the base that its logarithm *)
(* comes out as the power's.                                                  *)
LogDigits(f) == Len(DigitsOf[f]) + IF f \in LogCarries THEN 1 ELSE 0

(* Number.Float64, but for the last bits of the result.                      *)
Float64(n) ==
  n.whole * Base ^ Places
    + Copysign(n.frac * Base ^ (Places - LogDigits(n.frac)), n.whole)
=============================================================================
