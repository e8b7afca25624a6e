------------------------------- MODULE Policy -------------------------------
(***************************************************************************)
(* internal/proxy/config.go: which policy judges a client, and what it      *)
(* lets through.                                                            *)
(*                                                                         *)
(* expandPolicy copies the policies of the configuration and of one target  *)
(* out of two maps, which Go iterates in any order, and sorts them; the     *)
(* first one whose netblock contains the client's address is the client's.  *)
(* An address is a number of Width bits.  A netblock keeps the address it   *)
(* was written with, the bits outside its mask included.                    *)
(***************************************************************************)
EXTENDS Integers, FiniteSets, Sequences, SequencesExt

CONSTANTS Width, Loopback,
          Netblocks,    \* netblocks a configuration may name
          Policies,    \* the access rules a policy may have
          Variables,   \* macro variables
          MaxEntries,  \* bound: policies per map
          None

Addrs == 0..(2 ^ Width - 1)

ASSUME WidthAssumption == Width \in Nat
ASSUME LoopbackAssumption == Loopback \in Addrs
ASSUME PrefixAssumption == Netblocks \subseteq [addr : Addrs, bits : -1..Width]

VARIABLES
  base, target,  \* Config.Policy and Target.Policy: netblock to rules
  todo,          \* the entries of both maps still to be copied
  ordered,       \* the local of that name, then Target.ordered
  phase,         \* "copy", "ready", "judged"
  client, cmd,   \* a message, and who sent it
  policy,        \* the entry that judges it, or None
  allowed        \* may it pass?

cfgVars == <<base, target>>
msgVars == <<client, cmd, policy, allowed>>
vars == <<cfgVars, todo, ordered, phase, msgVars>>

-----------------------------------------------------------------------------
IsValid(p) == p.bits >= 0

(* netip.Prefix.Contains: the bits under the mask agree.                     *)
Covers(p, a) ==
  /\ IsValid(p)
  /\ LET host == 2 ^ (Width - p.bits) IN p.addr \div host = a \div host

(* The entries of a map, with a priority.                                    *)
Entries(map, prio) ==
  {[prefix |-> p, priority |-> prio, rules |-> map[p]] : p \in DOMAIN map}

(* Mutant: netblocks of one size are equal. *)
BeforeBySize(e, f) ==
  \/ e.priority < f.priority
  \/ e.priority = f.priority /\ e.prefix.bits < f.prefix.bits

(* The comparison: by priority, then by the length of the mask, then by the  *)
(* address as written, each ascending.                                       *)
Before(e, f) ==
  \/ e.priority < f.priority
  \/ /\ e.priority = f.priority
     /\ \/ e.prefix.bits < f.prefix.bits
        \/ e.prefix.bits = f.prefix.bits /\ e.prefix.addr < f.prefix.addr

NoRules == [undoc |-> FALSE, writes |-> {}]

(* A target without any policy can be used from localhost, the entry of whose  *)
(* IPv6 twin is left out: there is one family of addresses.                   *)
Localhost ==
  <<[prefix |-> [addr |-> Loopback, bits |-> Width], priority |-> 0,
     rules |-> NoRules]>>

Commands ==
  [kind : {"basic"}, documented : BOOLEAN]
    \union [kind : {"query"}, frac : {0, 1}]
    \union [kind : {"write"}, variable : Variables]

(* A query's variable has no sign, so that the test for one below zero falls    *)
(* away.                                                                     *)
IsSafe(c) ==
  \/ c.kind = "basic" /\ c.documented
  \/ c.kind = "query" /\ c.frac = 0

IsWrite(c) == c.kind = "write"
HasCommand(c) == c.kind \in {"basic", "query"}

AllowWrite(r, v) == \E pair \in r.writes : pair[1] <= v /\ v <= pair[2]

(* Mutant: the first test lets undocumented commands of any kind pass. *)
AllowUndocFirst(r, c) ==
  IsSafe(c) \/ r.undoc \/ (IsWrite(c) /\ AllowWrite(r, c.variable))

(* Policy.Allow.                                                             *)
Allow(r, c) ==
  \/ IsSafe(c)
  \/ IsWrite(c) /\ AllowWrite(r, c.variable)
  \/ ~IsWrite(c) /\ HasCommand(c) /\ r.undoc

-----------------------------------------------------------------------------
Maps == UNION {[S -> Policies] : S \in {T \in SUBSET Netblocks :
                                          Cardinality(T) <= MaxEntries}}

Init ==
  /\ base \in Maps /\ target \in Maps
  /\ todo = Entries(base, 0) \union Entries(target, 1)
  /\ ordered = <<>>
  /\ phase = "copy"
  /\ client = None /\ cmd = None /\ policy = None
  /\ allowed = FALSE

(* One iteration of one of the loops, the one over Config.Policy first.      *)
Copy(e) ==
  /\ phase = "copy"
  /\ e \in todo
  /\ e.priority = 1 => \A f \in todo : f.priority = 1
  /\ todo' = todo \ {e}
  /\ ordered' = IF IsValid(e.prefix) THEN Append(ordered, e) ELSE ordered
  /\ UNCHANGED <<cfgVars, phase, msgVars>>

(* slices.SortFunc, which is not stable: any order that the comparison does  *)
(* not object to.                                                            *)
Sort ==
  /\ phase = "copy"
  /\ todo = {}
  /\ phase' = "ready"
  /\ IF ordered = <<>>
     THEN ordered' = Localhost
     ELSE \E s \in SetToSeqs(ToSet(ordered)) :
            /\ \A i, j \in DOMAIN s : Before(s[i], s[j]) => i < j
            /\ ordered' = s
  /\ UNCHANGED <<cfgVars, todo, msgVars>>

Matches(a) == {i \in DOMAIN ordered : Covers(ordered[i].prefix, a)}

(* listenerRoute.get: the first match counts.                                *)
FirstMatch(a) ==
  IF Matches(a) = {} THEN None
  ELSE ordered[CHOOSE i \in Matches(a) : \A j \in Matches(a) : i <= j]

(* A client at address a sends command c; a client without a policy is       *)
(* dropped.                                                                  *)
Judge(a, c) ==
  /\ phase = "ready"
  /\ phase' = "judged"
  /\ client' = a /\ cmd' = c
  /\ policy' = FirstMatch(a)
  /\ allowed' = (policy' # None /\ Allow(policy'.rules, c))
  /\ UNCHANGED <<cfgVars, todo, ordered>>

Next ==
  \/ \E e \in todo : Copy(e)
  \/ Sort
  \/ \E a \in Addrs, c \in Commands : Judge(a, c)

Spec == Init /\ [][Next]_vars

-----------------------------------------------------------------------------
Configured ==
  {e \in Entries(base, 0) \union Entries(target, 1) : IsValid(e.prefix)}

Naming(a) == {e \in Configured : Covers(e.prefix, a)}

(* Type correctness of the tables and of the message; only valid netblocks    *)
(* get into the sorted list.                                                  *)
TypeOK ==
  /\ base \in Maps /\ target \in Maps
  /\ \A i \in DOMAIN ordered : ordered[i] \in Configured \union ToSet(Localhost)
  /\ phase \in {"copy", "ready", "judged"}
  /\ client \in Addrs \union {None}
  /\ cmd \in Commands \union {None}
  /\ policy \in ToSet(ordered) \union {None}
  /\ allowed \in BOOLEAN

(* The configuration decides, and nothing else: whatever order the maps are   *)
(* iterated in and whatever the sort does with equals, a client is judged by  *)
(* the one entry that comes before all others naming its address; a target    *)
(* with policies none of which names it is closed to it; a target without     *)
(* any is open to localhost.                                                  *)
Decided ==
  phase = "judged" =>
    IF Configured = {} THEN policy = IF client = Loopback THEN Localhost[1] ELSE None
    ELSE IF Naming(client) = {} THEN policy = None
    ELSE /\ policy \in Naming(client)
         /\ \A e \in Naming(client) \ {policy} :
              \/ policy.priority < e.priority
              \/ /\ policy.priority = e.priority
                 /\ \/ policy.prefix.bits < e.prefix.bits
                    \/ /\ policy.prefix.bits = e.prefix.bits
                       /\ policy.prefix.addr < e.prefix.addr

(* Nothing is written without a grant (README.md: "Allow writes only to       *)
(* certain macro variable ranges"): a write that passes, passes under some    *)
(* configured policy that names the client and has the variable in a range;   *)
(* the permission for undocumented Q commands does not extend to writes.      *)
WriteNeedsGrant ==
  allowed /\ IsWrite(cmd) =>
    \E e \in Naming(client) : AllowWrite(e.rules, cmd.variable)

-----------------------------------------------------------------------------
(* The comment of config.go:62 ("Per-target policies have higher priority"):  *)
(* a client named by a policy of the target is judged by one of them.         *)
TargetWins ==
  phase = "judged" /\ (\E e \in Naming(client) : e.priority = 1) =>
    policy.priority = 1
=============================================================================
