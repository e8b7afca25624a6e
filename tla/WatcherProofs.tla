---------------------------- MODULE WatcherProofs ---------------------------
(***************************************************************************)
(* Proofs about Watcher, for any number of versions of the file and any     *)
(* clock.                                                                   *)
(***************************************************************************)
EXTENDS Watcher, TLAPS

LEMMA InitInv == Init => WatchInvariant
<1> SUFFICES ASSUME Init PROVE WatchInvariant
  OBVIOUS
<1>1. TypeOK
  <2>1. now \in 1..MaxTime /\ 0 \in 0..MaxTime /\ 0 \in 0..MaxVersion
    BY BoundsAssumption DEF Init
  <2>2. {exists, readable, orderly, stopping} \subseteq BOOLEAN
    BY Zenon DEF Init
  <2> QED
    BY <2>1, <2>2 DEF Init, TypeOK, Versions
<1>2. good \subseteq 1..content /\ cfg <= content /\ (orderly => seen <= mtime /\ readable)
  BY DEF Init
<1>3. pc = "sleep" /\ content \notin good
  BY DEF Init
<1> QED
  BY <1>1, <1>2, <1>3 DEF WatchInvariant, NoLostUpdate

(* An edit, orderly or not: what was seen no longer is the stamp, or edits    *)
(* are not orderly any more.                                                  *)
LEMMA ChangeInv ==
  ASSUME WatchInvariant, NEW stamp \in 1..MaxTime, Change(stamp)
  PROVE  WatchInvariant'
<1>1. /\ content' = content + 1 /\ content' \in 1..MaxVersion
      /\ good' \in {good, good \union {content'}}
  <2>1. /\ content' = content + 1 /\ content < MaxVersion
        /\ good' = good \union {content + 1} \/ good' = good
    <3>1. PICK g \in BOOLEAN : good' = IF g THEN good \union {content + 1} ELSE good
      BY Zenon DEF Change
    <3>2. CASE g = TRUE
      BY <3>1, <3>2 DEF Change
    <3>3. CASE g = FALSE
      BY <3>1, <3>3 DEF Change
    <3> QED
      BY <3>2, <3>3
  <2>2. content + 1 \in 1..MaxVersion
    BY <2>1, BoundsAssumption DEF WatchInvariant, TypeOK
  <2> QED
    BY <2>1, <2>2
<1>2. orderly' => orderly /\ seen < mtime'
  <2>1. orderly' => orderly /\ stamp > mtime
    BY Zenon DEF Change
  <2>2. mtime' = stamp
    BY DEF Change
  <2>3. mtime \in Nat /\ seen \in Nat /\ (orderly => seen <= mtime)
    BY DEF WatchInvariant, TypeOK
  <2> QED
    BY <2>1, <2>2, <2>3
<1>3. UNCHANGED <<now, readable, pc, seen, opened, cfg, stopping>> /\ mtime' = stamp
  BY DEF Change, clockVars, watchVars
<1>4. TypeOK'
  BY <1>1, <1>3, BoundsAssumption DEF WatchInvariant, TypeOK, Change, Versions
<1>5. good' \subseteq 1..content' /\ cfg' <= content'
  BY <1>1, <1>3, BoundsAssumption DEF WatchInvariant, TypeOK, Versions
<1>6. orderly' => seen' <= mtime' /\ readable'
  BY <1>2, <1>3, BoundsAssumption DEF WatchInvariant, TypeOK
<1>7. pc' = "decode" => cfg' <= opened' /\ opened' <= content'
  BY <1>1, <1>3, BoundsAssumption DEF WatchInvariant, TypeOK, Versions
<1>8. ~(orderly' /\ seen' = mtime')
  BY <1>2, <1>3, <1>4, BoundsAssumption DEF WatchInvariant, TypeOK
<1> QED
  BY <1>4, <1>5, <1>6, <1>7, <1>8 DEF WatchInvariant, NoLostUpdate

LEMMA EnvironmentInv ==
  WatchInvariant /\ (Tick \/ Stop \/ Edit \/ Replace \/ Remove \/ Chmod) => WatchInvariant'
<1> SUFFICES ASSUME WatchInvariant, Tick \/ Stop \/ Edit \/ Replace \/ Remove \/ Chmod
             PROVE  WatchInvariant'
  OBVIOUS
<1> USE BoundsAssumption
<1>1. CASE Tick
  BY <1>1 DEF WatchInvariant, TypeOK, NoLostUpdate, Tick, fileVars, watchVars
<1>2. CASE Stop
  BY <1>2 DEF WatchInvariant, TypeOK, NoLostUpdate, Stop, clockVars, fileVars, watchVars
<1>3. CASE Edit
  BY <1>3, ChangeInv DEF WatchInvariant, TypeOK, Edit
<1>4. CASE Replace
  BY <1>4, ChangeInv DEF WatchInvariant, TypeOK, Replace
<1>5. CASE Remove
  BY <1>5 DEF WatchInvariant, TypeOK, NoLostUpdate, Remove, clockVars, watchVars
<1>6. CASE Chmod
  BY <1>6 DEF WatchInvariant, TypeOK, NoLostUpdate, Chmod, clockVars, watchVars
<1> QED
  BY <1>1, <1>2, <1>3, <1>4, <1>5, <1>6

LEMMA DecodeInv ==
  ASSUME WatchInvariant, NEW v \in Contents, Decode(v) PROVE WatchInvariant'
<1> USE BoundsAssumption DEF Decode, Decodes, StampBefore, Contents, clockVars, fileVars
<1>1. UNCHANGED <<now, content, good, mtime, exists, readable, orderly, seen, opened, stopping>>
  OBVIOUS
<1>2. v <= content /\ v \in good
  BY DEF WatchInvariant, TypeOK
<1>3. TypeOK'
  BY <1>1, <1>2 DEF WatchInvariant, TypeOK
<1>4. orderly /\ seen = mtime => v = content
  BY DEF WatchInvariant, TypeOK
<1> QED
  BY <1>1, <1>2, <1>3, <1>4 DEF WatchInvariant, NoLostUpdate

LEMMA WatchInv == WatchInvariant /\ Watch => WatchInvariant'
<1> SUFFICES ASSUME WatchInvariant, Watch PROVE WatchInvariant'
  OBVIOUS
<1> USE BoundsAssumption DEF clockVars, fileVars
<1>1. CASE StatError
  BY <1>1 DEF WatchInvariant, TypeOK, NoLostUpdate, StatError
<1>2. CASE Stat
  BY <1>2 DEF WatchInvariant, TypeOK, NoLostUpdate, Stat, Later
<1>3. CASE Open
  BY <1>3 DEF WatchInvariant, TypeOK, NoLostUpdate, Open, Current
<1>4. CASE OpenError
  BY <1>4 DEF WatchInvariant, TypeOK, NoLostUpdate, OpenError
<1>5. CASE \E v \in Contents : Decode(v)
  BY <1>5, DecodeInv
<1>6. CASE DecodeError
  BY <1>6 DEF WatchInvariant, TypeOK, NoLostUpdate, DecodeError
<1>7. CASE End
  BY <1>7 DEF WatchInvariant, TypeOK, NoLostUpdate, End
<1> QED
  BY <1>1, <1>2, <1>3, <1>4, <1>5, <1>6, <1>7 DEF Watch

LEMMA NextInv == WatchInvariant /\ [Next]_vars => WatchInvariant'
<1>1. WatchInvariant /\ UNCHANGED vars => WatchInvariant'
  BY DEF vars, clockVars, fileVars, watchVars, WatchInvariant, TypeOK, NoLostUpdate
<1> QED
  BY <1>1, EnvironmentInv, WatchInv DEF Next

(* A stamp that was seen stands for the content that was opened, as long as   *)
(* stamps move forward (mdcmux.go:69).                                        *)
THEOREM InvariantCorrect == Spec => []WatchInvariant
BY InitInv, NextInv, PTL DEF Spec

(* A watcher that sleeps and believes it is up to date is, for any number of  *)
(* edits between its steps (mdcmux.go:66).                                    *)
THEOREM NoLostUpdateCorrect == Spec => []NoLostUpdate
<1>1. WatchInvariant => NoLostUpdate
  BY DEF WatchInvariant
<1> QED
  BY <1>1, InvariantCorrect, PTL

(* A later version is never followed by an earlier one (mdcmux.go:90).        *)
THEOREM NeverGoesBackCorrect == Spec => NeverGoesBack
<1>1. WatchInvariant /\ [Next]_vars => [cfg' >= cfg]_vars
  <2> SUFFICES ASSUME WatchInvariant, Next PROVE cfg' >= cfg
    BY DEF vars
  <2> USE BoundsAssumption
  <2>1. CASE \E v \in Contents : Decode(v)
    BY <2>1 DEF WatchInvariant, TypeOK, Decode, Contents
  <2>2. CASE cfg' = cfg
    BY <2>2 DEF WatchInvariant, TypeOK, Versions
  <2>3. (\E v \in Contents : Decode(v)) \/ cfg' = cfg
    BY DEF Next, Watch, Tick, Stop, Edit, Replace, Change, Remove, Chmod, StatError, Stat,
           Open, OpenError, DecodeError, End, watchVars
  <2> QED
    BY <2>1, <2>2, <2>3
<1> QED
  BY <1>1, InvariantCorrect, PTL DEF Spec, NeverGoesBack
=============================================================================
