-------------------------------- MODULE Cmap --------------------------------
(***************************************************************************)
(* pkg/message: the canonicalizing map behind BasicCommand.                 *)
(*                                                                         *)
(* The map holds weak pointers.  Goroutines look a key up without the write *)
(* lock first (peek), then under it.  The garbage collector clears the weak *)
(* pointers of an object nobody references and queues its cleanup, which    *)
(* takes the lock some time later and deletes the entry if it is still its  *)
(* own.  A weak pointer is named by the object it points to; a new object   *)
(* never equals an old one, not even at the same address.                   *)
(***************************************************************************)
EXTENDS Naturals, FiniteSets

CONSTANTS Keys,
          Documented,  \* the keys of the predefined commands
          Threads,     \* goroutines
          Objects,     \* bound: the basicCommands ever allocated
          Nil

ASSUME DocumentedAssumption == Documented \subseteq Keys
ASSUME NilAssumption == Nil \notin Keys \union Objects

VARIABLES
  data,     \* m.mu.data
  keyOf,    \* the key of each allocated object
  dead,     \* objects whose weak pointers the collector has cleared
  toClean,  \* objects whose cleanup is queued
  vars0,    \* the objects in package variables; their documented flag is set
  pc, key,  \* where each goroutine is in get, and for which key
  ptr,      \* the weak pointer it read in peek
  held      \* the objects it holds pointers to

mapVars == <<data, keyOf>>
gcVars == <<dead, toClean>>
vars == <<mapVars, gcVars, vars0, pc, key, ptr, held>>

-----------------------------------------------------------------------------
(* Package initialization is over: every predefined command is in the map    *)
(* and in a variable.                                                        *)
Init ==
  \E f \in [Documented -> Objects] :
    /\ \A k, l \in Documented : f[k] = f[l] => k = l
    /\ data = [k \in Keys |-> IF k \in Documented THEN f[k] ELSE Nil]
    /\ keyOf = [o \in Objects |-> IF \E k \in Documented : f[k] = o
                                  THEN CHOOSE k \in Documented : f[k] = o
                                  ELSE Nil]
    /\ vars0 = {f[k] : k \in Documented}
    /\ dead = {} /\ toClean = {}
    /\ pc = [t \in Threads |-> "idle"]
    /\ key = [t \in Threads |-> Nil]
    /\ ptr = [t \in Threads |-> Nil]
    /\ held = [t \in Threads |-> {}]

(* Mutant: what a variable holds may be collected. *)
ReferencedByThreads(o) == \E t \in Threads : o \in held[t]

Referenced(o) == o \in vars0 \/ \E t \in Threads : o \in held[t]

Allocated == {o \in Objects : keyOf[o] # Nil}
Fresh == Objects \ Allocated

-----------------------------------------------------------------------------
Get(t, k) ==
  /\ pc[t] = "idle"
  /\ key' = [key EXCEPT ![t] = k]
  /\ pc' = [pc EXCEPT ![t] = "peek"]
  /\ UNCHANGED <<mapVars, gcVars, vars0, ptr, held>>

(* get returns o.                                                            *)
Return(t, o) ==
  /\ held' = [held EXCEPT ![t] = @ \union {o}]
  /\ pc' = [pc EXCEPT ![t] = "idle"]

(* peek reads the entry under the read lock, and unlocks.                    *)
PeekRead(t) ==
  /\ pc[t] = "peek"
  /\ ptr' = [ptr EXCEPT ![t] = data[key[t]]]
  /\ pc' = [pc EXCEPT ![t] = IF data[key[t]] = Nil THEN "lock" ELSE "value"]
  /\ UNCHANGED <<mapVars, gcVars, vars0, key, held>>

(* Then it asks the weak pointer for its value: the fast path.               *)
PeekHit(t) ==
  /\ pc[t] = "value"
  /\ ptr[t] \notin dead
  /\ Return(t, ptr[t])
  /\ UNCHANGED <<mapVars, gcVars, vars0, key, ptr>>

PeekMiss(t) ==
  /\ pc[t] = "value"
  /\ ptr[t] \in dead
  /\ pc' = [pc EXCEPT ![t] = "lock"]
  /\ UNCHANGED <<mapVars, gcVars, vars0, key, ptr, held>>

(* Under the lock: somebody else was faster.                                 *)
DoubleCheck(t) ==
  /\ pc[t] = "lock"
  /\ data[key[t]] # Nil
  /\ data[key[t]] \notin dead
  /\ Return(t, data[key[t]])
  /\ UNCHANGED <<mapVars, gcVars, vars0, key, ptr>>

(* Mutant: get assigns without looking again. *)
AssignUnchecked(t, o) ==
  /\ pc[t] = "lock"
  /\ o \in Fresh
  /\ data' = [data EXCEPT ![key[t]] = o]
  /\ keyOf' = [keyOf EXCEPT ![o] = key[t]]
  /\ Return(t, o)
  /\ UNCHANGED <<gcVars, vars0, key, ptr>>

(* Under the lock: a new object replaces a missing or a dead entry.  Its     *)
(* cleanup is armed before the lock is released.                             *)
Assign(t, o) ==
  /\ pc[t] = "lock"
  /\ data[key[t]] = Nil \/ data[key[t]] \in dead
  /\ o \in Fresh
  /\ data' = [data EXCEPT ![key[t]] = o]
  /\ keyOf' = [keyOf EXCEPT ![o] = key[t]]
  /\ Return(t, o)
  /\ UNCHANGED <<gcVars, vars0, key, ptr>>

(* A goroutine drops its last pointer to a command.                          *)
Release(t, o) ==
  /\ o \in held[t]
  /\ held' = [held EXCEPT ![t] = @ \ {o}]
  /\ UNCHANGED <<mapVars, gcVars, vars0, pc, key, ptr>>

-----------------------------------------------------------------------------
(* The collector finds an object unreferenced, clears its weak pointers and  *)
(* queues its cleanup.                                                       *)
Collect(o) ==
  /\ o \in Allocated \ dead
  /\ ~Referenced(o)
  /\ dead' = dead \union {o}
  /\ toClean' = toClean \union {o}
  /\ UNCHANGED <<mapVars, vars0, pc, key, ptr, held>>

(* Mutant: cleanup deletes the entry of the key, whoever owns it. *)
CleanupAny(o) ==
  /\ o \in toClean
  /\ toClean' = toClean \ {o}
  /\ data' = [data EXCEPT ![keyOf[o]] = Nil]
  /\ UNCHANGED <<keyOf, dead, vars0, pc, key, ptr, held>>

(* Mutant: cleanup asks the weak pointer for its value, and finds none. *)
CleanupByValue(o) ==
  /\ o \in toClean
  /\ toClean' = toClean \ {o}
  /\ data' = [data EXCEPT ![keyOf[o]] = IF @ = o /\ o \notin dead THEN Nil ELSE @]
  /\ UNCHANGED <<keyOf, dead, vars0, pc, key, ptr, held>>

(* cleanup: the conditional delete, under the lock.                          *)
Cleanup(o) ==
  /\ o \in toClean
  /\ toClean' = toClean \ {o}
  /\ data' = [data EXCEPT ![keyOf[o]] = IF @ = o THEN Nil ELSE @]
  /\ UNCHANGED <<keyOf, dead, vars0, pc, key, ptr, held>>

-----------------------------------------------------------------------------
Lookup(t) ==
  \/ PeekRead(t) \/ PeekHit(t) \/ PeekMiss(t) \/ DoubleCheck(t)
  \/ \E o \in Objects : Assign(t, o)

Next ==
  \/ \E t \in Threads :
        \/ \E k \in Keys : Get(t, k)
        \/ Lookup(t)
        \/ \E o \in Objects : Release(t, o)
  \/ \E o \in Objects : Collect(o) \/ Cleanup(o)

Spec == Init /\ [][Next]_vars

(* The runtime runs queued cleanups; goroutines are scheduled.  Nobody has   *)
(* to release anything, and the collector owes nothing.                      *)
Fairness ==
  /\ \A t \in Threads : WF_vars(Lookup(t))
  /\ \A o \in Objects : WF_vars(Cleanup(o))

FairSpec == Spec /\ Fairness

-----------------------------------------------------------------------------
(* Type correctness.  A goroutine asks a weak pointer for its value only      *)
(* after it found one (cmap.go:91).                                           *)
TypeOK ==
  /\ data \in [Keys -> Objects \union {Nil}]
  /\ keyOf \in [Objects -> Keys \union {Nil}]
  /\ dead \subseteq Objects /\ toClean \subseteq Objects
  /\ vars0 \subseteq Objects
  /\ pc \in [Threads -> {"idle", "peek", "value", "lock"}]
  /\ key \in [Threads -> Keys \union {Nil}]
  /\ ptr \in [Threads -> Objects \union {Nil}]
  /\ held \in [Threads -> SUBSET Objects]
  /\ \A t \in Threads : pc[t] # "idle" => key[t] \in Keys
  /\ \A t \in Threads : pc[t] = "value" => ptr[t] \in Objects

(* Instances are canonical, allowing for pointer comparisons (basic.go:50):   *)
(* all pointers anybody holds for a key are equal, whatever the collector and *)
(* its cleanups do between the two lookups of get.                            *)
Canonical ==
  \A o, p \in Objects :
    Referenced(o) /\ Referenced(p) /\ keyOf[o] = keyOf[p] => o = p

(* A documented command stays documented (basic.go:66): the flag is set on    *)
(* one object, and get never hands out another one for its key, so the policy *)
(* check never changes its mind about a Q command.                            *)
SafeStays ==
  \A t \in Threads : \A o \in held[t] :
    keyOf[o] \in Documented <=> o \in vars0

(* The late cleanup of a dead object never deletes the entry of its           *)
(* successor: an entry is replaced or removed only after its own death.       *)
LiveEntryStays ==
  [][\A k \in Keys : data[k] # Nil /\ data[k] \notin dead => data'[k] = data[k]]_vars

(* The map does not leak: the entry of a dead object goes away.               *)
DeadEntryGoes ==
  \A o \in Objects : o \in dead ~> \A k \in Keys : data[k] # o
=============================================================================
