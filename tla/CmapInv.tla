------------------------------- MODULE CmapInv -------------------------------
(***************************************************************************)
(* The inductive invariant of Cmap.                                         *)
(***************************************************************************)
EXTENDS Cmap

(* An entry is in the slot of its own key.                                   *)
EntryKey == \A k \in Keys : data[k] # Nil => keyOf[data[k]] = k

(* An allocated object that is not dead is in the map: this is what nobody   *)
(* may undo, neither a second assignment nor an old cleanup.                 *)
LiveInMap ==
  \A o \in Objects : keyOf[o] # Nil /\ o \notin dead => data[keyOf[o]] = o

(* What somebody holds is allocated and not dead.                            *)
HeldLive ==
  \A o \in Objects : Referenced(o) => keyOf[o] # Nil /\ o \notin dead

(* Only the dead are cleaned up, and only what was allocated dies.           *)
CleanDead == toClean \subseteq dead /\ \A o \in dead : keyOf[o] # Nil

(* A weak pointer read in peek belongs to the key that was asked for.        *)
PeekKey == \A t \in Threads : pc[t] = "value" => keyOf[ptr[t]] = key[t]

(* The predefined commands are in variables, and nothing else is.            *)
VarsDocumented ==
  /\ \A o \in vars0 : keyOf[o] \in Documented
  /\ \A k \in Documented : \E o \in vars0 : keyOf[o] = k

(* The inductive invariant: what makes Canonical and SafeStays survive every  *)
(* step of get, the collector and the cleanups (cmap.go:47-100).              *)
CmapInv ==
  /\ EntryKey /\ LiveInMap /\ HeldLive /\ CleanDead /\ PeekKey
  /\ VarsDocumented
=============================================================================
