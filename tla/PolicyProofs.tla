---------------------------- MODULE PolicyProofs ----------------------------
(***************************************************************************)
(* Proofs about Policy, for any netblocks, policies and address width: the  *)
(* configuration alone decides who judges a client, whatever the order in   *)
(* which the maps are iterated and whatever the sort does with equals.      *)
(***************************************************************************)
EXTENDS Policy, FiniteSetTheorems, FunctionTheorems, WellFoundedInduction, TLAPS

AllEntries == Entries(base, 0) \union Entries(target, 1)

(* What has been copied and what is still to be copied are the configured    *)
(* entries.                                                                  *)
Copying ==
  /\ todo \subseteq AllEntries
  /\ ordered \in Seq(Configured)
  /\ ToSet(ordered) \union {e \in todo : IsValid(e.prefix)} = Configured

(* They are all there, and none stands after one that it comes before.       *)
Sorted ==
  /\ ordered \in Seq(Configured)
  /\ ToSet(ordered) = Configured
  /\ \A i, j \in DOMAIN ordered : Before(ordered[i], ordered[j]) => i < j

Judgement ==
  /\ client \in Addrs /\ cmd \in Commands
  /\ policy = FirstMatch(client)
  /\ allowed = (policy # None /\ Allow(policy.rules, cmd))

(* The inductive invariant.                                                  *)
PolicyInvariant ==
  /\ base \in Maps /\ target \in Maps
  /\ phase \in {"copy", "ready", "judged"}
  /\ phase = "copy" => Copying
  /\ phase # "copy" => IF Configured = {} THEN ordered = Localhost ELSE Sorted
  /\ phase = "judged" => Judgement
  /\ phase # "judged" => client = None /\ cmd = None /\ policy = None /\ allowed = FALSE

-----------------------------------------------------------------------------
(* The operators.                                                            *)

(* The elements of a sequence, and what Append adds to them.                 *)
LEMMA ToSetAppend ==
  ASSUME NEW S, NEW s \in Seq(S), NEW e \in S
  PROVE  ToSet(Append(s, e)) = ToSet(s) \union {e}
<1>1. DOMAIN Append(s, e) = DOMAIN s \union {Len(s) + 1}
  OBVIOUS
<1>2. \A i \in DOMAIN s : Append(s, e)[i] = s[i]
  OBVIOUS
<1>3. Append(s, e)[Len(s) + 1] = e
  OBVIOUS
<1> QED
  BY <1>1, <1>2, <1>3 DEF ToSet

(* A nonempty set of naturals has a least element.                           *)
LEMMA LeastNatural ==
  ASSUME NEW S \in SUBSET Nat, S # {}
  PROVE  \E i \in S : \A j \in S : i <= j
<1> DEFINE R == {ss \in Nat \X Nat : ss[1] < ss[2]}
<1>1. IsWellFoundedOn(R, Nat)
  BY NatLessThanWellFounded DEF OpToRel
<1>2. \A x, y \in Nat : <<x, y>> \in R <=> x < y
  OBVIOUS
<1> HIDE DEF R
<1>3. PICK i \in S : \A j \in S : ~(<<j, i>> \in R)
  BY <1>1, WFMin
<1>4. \A j \in S : ~(j < i)
  BY <1>2, <1>3
<1> QED
  BY <1>4

(* The sequences of a finite set have all its elements.                      *)
LEMMA SetToSeqsRange ==
  ASSUME NEW S, IsFiniteSet(S), NEW s \in SetToSeqs(S)
  PROVE  s \in Seq(S) /\ ToSet(s) = S
<1> DEFINE n == Cardinality(S)
<1>1. n \in Nat
  BY FS_CardinalityType
<1>2. s \in [1..n -> S] /\ \A i, j \in 1..n : i # j => s[i] # s[j]
  BY DEF SetToSeqs
<1>3. s \in Injection(1..n, S)
  BY <1>2, Fun_IsInj
<1>4. Cardinality(1..n) = n
  BY <1>1, FS_Interval
<1> HIDE DEF n
<1>5. s \in Surjection(1..n, S)
  BY <1>3, <1>4, FS_Injection DEF n
<1>6. \A e \in S : \E i \in 1..n : s[i] = e
  BY <1>5 DEF Surjection
<1>7. DOMAIN s = 1..n /\ s \in Seq(S)
  BY <1>1, <1>2
<1> QED
  BY <1>2, <1>6, <1>7 DEF ToSet

(* The elements of a sequence are finitely many.                             *)
LEMMA ToSetFinite ==
  ASSUME NEW S, NEW s \in Seq(S)
  PROVE  IsFiniteSet(ToSet(s))
<1>1. s \in [1..Len(s) -> ToSet(s)]
  BY DEF ToSet
<1>2. \A e \in ToSet(s) : \E i \in 1..Len(s) : s[i] = e
  BY DEF ToSet
<1>3. s \in Surjection(1..Len(s), ToSet(s))
  BY <1>1, <1>2, Fun_IsSurj
<1>4. IsFiniteSet(1..Len(s))
  BY FS_Interval
<1> QED
  BY <1>3, <1>4, FS_Surjection

(* The first entry that covers the client.                                   *)
LEMMA FirstMatchFacts ==
  ASSUME NEW S, ordered \in Seq(S), NEW a, Matches(a) # {}
  PROVE  \E i \in Matches(a) : /\ FirstMatch(a) = ordered[i]
                               /\ \A j \in Matches(a) : i <= j
<1> DEFINE Least(i) == \A j \in Matches(a) : i <= j
<1>1. Matches(a) \in SUBSET Nat
  BY DEF Matches
<1>2. \E i \in Matches(a) : Least(i)
  BY <1>1, LeastNatural
<1>3. (CHOOSE i \in Matches(a) : Least(i)) \in Matches(a)
        /\ Least(CHOOSE i \in Matches(a) : Least(i))
  BY <1>2
<1> QED
  BY <1>3 DEF FirstMatch

(* Two entries are ordered or the same: a netblock is named once in a map.   *)
LEMMA EntriesOrdered ==
  ASSUME base \in Maps, target \in Maps,
         NEW e \in AllEntries, NEW f \in AllEntries, e # f
  PROVE  Before(e, f) \/ Before(f, e)
<1>1. /\ DOMAIN base \subseteq Netblocks
      /\ DOMAIN target \subseteq Netblocks
  BY DEF Maps
<1>2. \A p \in Netblocks : p = [addr |-> p.addr, bits |-> p.bits]
                             /\ p.addr \in Int /\ p.bits \in Int
  BY PrefixAssumption, WidthAssumption DEF Addrs
<1>3. /\ e.prefix \in Netblocks /\ e.priority \in {0, 1}
      /\ f.prefix \in Netblocks /\ f.priority \in {0, 1}
  BY <1>1 DEF AllEntries, Entries
<1>4. e.priority = f.priority => e.prefix # f.prefix
  BY DEF AllEntries, Entries
<1>5. e.prefix # f.prefix => e.prefix.addr # f.prefix.addr \/ e.prefix.bits # f.prefix.bits
  BY <1>2, <1>3
<1> QED
  BY <1>2, <1>3, <1>4, <1>5 DEF Before

(* The block of a single address covers that address.                        *)
LEMMA LoopbackCovers ==
  ASSUME NEW a \in Addrs
  PROVE  Covers(Localhost[1].prefix, a) <=> a = Loopback
<1>1. Localhost[1].prefix = [addr |-> Loopback, bits |-> Width]
  BY DEF Localhost
<1>2. 2 ^ (Width - Width) = 1
  BY WidthAssumption
<1>3. a \in Int /\ Loopback \in Int
  BY LoopbackAssumption, WidthAssumption DEF Addrs
<1>4. a \div 1 = a /\ Loopback \div 1 = Loopback
  BY <1>3
<1> QED
  BY <1>1, <1>2, <1>4, WidthAssumption DEF Covers, IsValid

-----------------------------------------------------------------------------
(* The steps.                                                                *)

LEMMA InitInv == Init => PolicyInvariant
<1> SUFFICES ASSUME Init PROVE PolicyInvariant
  OBVIOUS
<1>1. Copying
  BY DEF Init, Copying, AllEntries, Configured, ToSet
<1> QED
  BY <1>1 DEF Init, PolicyInvariant

LEMMA CopyInv ==
  ASSUME PolicyInvariant, NEW e, Copy(e)
  PROVE  PolicyInvariant'
<1> USE DEF Copy, cfgVars, msgVars
<1>1. Copying /\ e \in AllEntries
  BY DEF PolicyInvariant, Copying
<1>2. Configured' = Configured /\ AllEntries' = AllEntries
  BY DEF Configured, AllEntries
<1>3. IsValid(e.prefix) <=> e \in Configured
  BY <1>1 DEF Configured, AllEntries
<1>4. ordered' \in Seq(Configured)
  BY <1>1, <1>3 DEF Copying
<1>5. ToSet(ordered') = IF IsValid(e.prefix) THEN ToSet(ordered) \union {e} ELSE ToSet(ordered)
  <2>1. CASE IsValid(e.prefix)
    <3>1. ToSet(Append(ordered, e)) = ToSet(ordered) \union {e}
      BY <1>1, <1>3, <2>1, ToSetAppend DEF Copying
    <3> QED
      BY <2>1, <3>1
  <2>2. CASE ~IsValid(e.prefix)
    BY <2>2
  <2> QED
    BY <2>1, <2>2
<1>6. Copying'
  BY <1>1, <1>2, <1>3, <1>4, <1>5 DEF Copying
<1> QED
  BY <1>6 DEF PolicyInvariant

LEMMA SortInv ==
  ASSUME PolicyInvariant, Sort
  PROVE  PolicyInvariant'
<1> USE DEF Sort, cfgVars, msgVars
<1>1. ordered \in Seq(Configured) /\ ToSet(ordered) = Configured
  BY DEF PolicyInvariant, Copying
<1>2. Configured' = Configured
  BY DEF Configured
<1>3. Configured = {} <=> ordered = <<>>
  BY <1>1 DEF ToSet
<1>4. CASE ordered = <<>>
  BY <1>2, <1>3, <1>4 DEF PolicyInvariant, Localhost
<1>5. CASE ordered # <<>>
  <2>1. /\ ordered' \in SetToSeqs(Configured)
        /\ \A i, j \in DOMAIN ordered' : Before(ordered'[i], ordered'[j]) => i < j
    BY <1>1, <1>5
  <2>2. IsFiniteSet(Configured)
    BY <1>1, ToSetFinite
  <2>3. ordered' \in Seq(Configured) /\ ToSet(ordered') = Configured
    BY <2>1, <2>2, SetToSeqsRange
  <2>4. Sorted'
    BY <1>2, <2>1, <2>3 DEF Sorted
  <2> QED
    BY <1>2, <1>3, <1>5, <2>4 DEF PolicyInvariant
<1> QED
  BY <1>4, <1>5

LEMMA JudgeInv ==
  ASSUME PolicyInvariant, NEW a \in Addrs, NEW c \in Commands, Judge(a, c)
  PROVE  PolicyInvariant'
<1> USE DEF Judge, cfgVars
<1>1. Configured' = Configured
  BY DEF Configured
<1>2. Sorted' <=> Sorted
  BY <1>1 DEF Sorted
<1>3. FirstMatch(a)' = FirstMatch(a)
  BY DEF FirstMatch, Matches
<1>4. Judgement'
  BY <1>3 DEF Judgement
<1> QED
  BY <1>1, <1>2, <1>4 DEF PolicyInvariant, Localhost

LEMMA StutterInv ==
  ASSUME PolicyInvariant, UNCHANGED vars
  PROVE  PolicyInvariant'
BY DEF PolicyInvariant, vars, cfgVars, msgVars, Copying, Sorted, Judgement, Configured,
       AllEntries, FirstMatch, Matches, Localhost

(* The copied, then sorted list is the configuration in every step, and a     *)
(* judgement is its first match.                                              *)
THEOREM InvariantCorrect == Spec => []PolicyInvariant
<1>1. PolicyInvariant /\ [Next]_vars => PolicyInvariant'
  BY CopyInv, SortInv, JudgeInv, StutterInv DEF Next
<1> QED
  BY <1>1, InitInv, PTL DEF Spec

-----------------------------------------------------------------------------
(* The invariant covers the type.                                            *)
LEMMA InvariantImpliesType == PolicyInvariant => TypeOK
<1> SUFFICES ASSUME PolicyInvariant PROVE TypeOK
  OBVIOUS
<1> USE DEF PolicyInvariant
<1>1. \A i \in DOMAIN ordered : ordered[i] \in Configured \union ToSet(Localhost)
  BY DEF Copying, Sorted, ToSet
<1>2. Configured # {} \/ phase = "copy" => ordered \in Seq(Configured)
  BY DEF Copying, Sorted
<1>3. ordered = Localhost => ordered \in Seq({Localhost[1]})
  BY DEF Localhost
<1>4. policy \in ToSet(ordered) \union {None}
  <2>1. CASE phase # "judged"
    BY <2>1
  <2>2. CASE phase = "judged" /\ Matches(client) = {}
    BY <2>2 DEF Judgement, FirstMatch
  <2>3. CASE phase = "judged" /\ Matches(client) # {}
    <3>1. \E i \in Matches(client) : FirstMatch(client) = ordered[i]
      BY <1>2, <1>3, <2>3, FirstMatchFacts
    <3> QED
      BY <2>3, <3>1 DEF Judgement, Matches, ToSet
  <2> QED
    BY <2>1, <2>2, <2>3
<1>5. client \in Addrs \union {None} /\ cmd \in Commands \union {None} /\ allowed \in BOOLEAN
  BY DEF Judgement
<1> QED
  BY <1>1, <1>4, <1>5 DEF TypeOK

(* Type correctness, the rightness of the sorted list included.              *)
THEOREM TypeCorrect == Spec => []TypeOK
  BY InvariantCorrect, InvariantImpliesType, PTL

(* A judged client: its policy is the first one that names it.               *)
LEMMA InvariantImpliesDecided == PolicyInvariant => Decided
<1> SUFFICES ASSUME PolicyInvariant, phase = "judged"
             PROVE  IF Configured = {}
                    THEN policy = IF client = Loopback THEN Localhost[1] ELSE None
                    ELSE IF Naming(client) = {} THEN policy = None
                    ELSE /\ policy \in Naming(client)
                         /\ \A e \in Naming(client) \ {policy} : Before(policy, e)
  BY DEF Decided, Before
<1>1. client \in Addrs /\ policy = FirstMatch(client)
  BY DEF PolicyInvariant, Judgement
<1>2. CASE Configured = {}
  <2>1. ordered = Localhost /\ DOMAIN ordered = {1}
    BY <1>2 DEF PolicyInvariant, Localhost
  <2>2. Matches(client) = IF client = Loopback THEN {1} ELSE {}
    BY <1>1, <2>1, LoopbackCovers DEF Matches
  <2>3. ordered \in Seq({Localhost[1]})
    BY <2>1 DEF Localhost
  <2>4. CASE client = Loopback
    BY <1>1, <1>2, <2>1, <2>2, <2>3, <2>4, FirstMatchFacts
  <2>5. CASE client # Loopback
    BY <1>1, <1>2, <2>2, <2>5 DEF FirstMatch
  <2> QED
    BY <2>4, <2>5
<1>3. CASE Configured # {}
  <2>1. Sorted
    BY <1>3 DEF PolicyInvariant
  <2>2. \A i \in Matches(client) : ordered[i] \in Naming(client)
    BY <2>1 DEF Sorted, Matches, Naming
  <2>3. \A e \in Naming(client) : \E i \in Matches(client) : ordered[i] = e
    BY <2>1 DEF Sorted, Matches, Naming, ToSet
  <2>4. CASE Naming(client) = {}
    BY <1>1, <1>3, <2>2, <2>4 DEF FirstMatch
  <2>5. CASE Naming(client) # {}
    <3>1. Matches(client) # {}
      BY <2>3, <2>5
    <3>2. PICK i \in Matches(client) : /\ policy = ordered[i]
                                       /\ \A j \in Matches(client) : i <= j
      BY <1>1, <2>1, <3>1, FirstMatchFacts DEF Sorted
    <3>3. policy \in Naming(client)
      BY <2>2, <3>2
    <3>4. ASSUME NEW e \in Naming(client), e # policy
          PROVE  Before(policy, e)
      <4>1. PICK j \in Matches(client) : ordered[j] = e
        BY <2>3
      <4>2. i \in Nat /\ j \in Nat /\ i <= j /\ i \in DOMAIN ordered /\ j \in DOMAIN ordered
        BY <2>1, <3>2 DEF Matches, Sorted
      <4>3. ~Before(e, policy)
        BY <2>1, <3>2, <4>1, <4>2 DEF Sorted
      <4>4. e \in AllEntries /\ policy \in AllEntries
        BY <3>3 DEF Naming, Configured, AllEntries
      <4> QED
        BY <3>4, <4>3, <4>4, EntriesOrdered DEF PolicyInvariant
    <3> QED
      BY <1>3, <2>5, <3>3, <3>4
  <2> QED
    BY <2>4, <2>5
<1> QED
  BY <1>2, <1>3

(* The configuration decides who judges a client, and nothing else: neither   *)
(* the order in which the maps are iterated nor what the sort does with       *)
(* equals.                                                                    *)
THEOREM DecidedCorrect == Spec => []Decided
  BY InvariantCorrect, InvariantImpliesDecided, PTL

(* A write that passes was granted: localhost's default has no grants, and a  *)
(* first match is a configured entry that names the client.                   *)
LEMMA InvariantImpliesGrant == PolicyInvariant => WriteNeedsGrant
<1> SUFFICES ASSUME PolicyInvariant, allowed, IsWrite(cmd)
             PROVE  \E e \in Naming(client) : AllowWrite(e.rules, cmd.variable)
  BY DEF WriteNeedsGrant
<1>1. phase = "judged" /\ Judgement
  BY DEF PolicyInvariant
<1>2. AllowWrite(policy.rules, cmd.variable)
  BY <1>1 DEF Judgement, Allow, IsSafe, IsWrite
<1>3. Matches(client) # {} /\ policy # None
  BY <1>1 DEF Judgement, FirstMatch
<1>4. CASE Configured = {}
  <2>1. ordered = Localhost
    BY <1>1, <1>4 DEF PolicyInvariant
  <2>2. policy = Localhost[1]
    BY <1>1, <1>3, <1>4, InvariantImpliesDecided DEF Decided
  <2> QED
    BY <1>2, <2>2 DEF Localhost, NoRules, AllowWrite
<1>5. CASE Configured # {}
  <2>1. ordered \in Seq(Configured)
    BY <1>1, <1>5 DEF PolicyInvariant, Sorted
  <2>2. PICK i \in Matches(client) : policy = ordered[i]
    BY <1>1, <1>3, <2>1, FirstMatchFacts DEF Judgement
  <2>3. policy \in Naming(client)
    BY <2>1, <2>2 DEF Matches, Naming
  <2> QED
    BY <1>2, <2>3
<1> QED
  BY <1>4, <1>5

(* Nothing is written without a grant of a configured policy that names the   *)
(* client.                                                                    *)
THEOREM WriteNeedsGrantCorrect == Spec => []WriteNeedsGrant
  BY InvariantCorrect, InvariantImpliesGrant, PTL

(* What holds in place of the comment of config.go:62 (TargetWins): a client  *)
(* that a policy of the configuration names is judged by one of those,        *)
(* whatever its target's policies say.                                        *)
GlobalWins ==
  phase = "judged" /\ (\E e \in Naming(client) : e.priority = 0) => policy.priority = 0

LEMMA DecidedImpliesGlobal == PolicyInvariant /\ Decided => GlobalWins
<1> SUFFICES ASSUME PolicyInvariant, Decided, phase = "judged",
                    NEW e \in Naming(client), e.priority = 0
             PROVE  policy.priority = 0
  BY DEF GlobalWins
<1>1. e \in Configured /\ Configured # {} /\ Naming(client) # {}
  BY DEF Naming
<1>2. policy \in Naming(client)
  BY <1>1 DEF Decided
<1>3. policy.priority \in {0, 1}
  BY <1>2 DEF Naming, Configured, Entries
<1>4. CASE policy = e
  BY <1>4
<1>5. CASE policy # e
  BY <1>1, <1>3, <1>5 DEF Decided
<1> QED
  BY <1>4, <1>5

(* A policy of the configuration that names the client outranks every policy  *)
(* of the target.                                                             *)
THEOREM GlobalWinsCorrect == Spec => []GlobalWins
  BY InvariantCorrect, InvariantImpliesDecided, DecidedImpliesGlobal, PTL
=============================================================================
