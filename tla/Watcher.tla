------------------------------- MODULE Watcher ------------------------------
(***************************************************************************)
(* cmd/mdcmux: the goroutine that polls the configuration file and sets the *)
(* variable the proxy watches.                                              *)
(*                                                                         *)
(* Once a second it asks for the file's modification time; if that is later *)
(* than the last one seen, it opens, decodes and publishes the file.  In    *)
(* between anybody may edit, replace, remove or lock the file.  Each state  *)
(* of the file's content is a version; some do not decode, such as a file   *)
(* written by half.                                                         *)
(***************************************************************************)
EXTENDS Naturals

CONSTANTS MaxVersion,  \* bound: versions of the file
          MaxTime      \* bound: the clock that stamps the file

ASSUME BoundsAssumption == MaxVersion \in Nat /\ MaxTime \in Nat \ {0}

Versions == 1..MaxVersion

VARIABLES
  now,       \* the clock, as fine as the file system's time stamps
  content,   \* the version in the file; 0 before there is one
  good,      \* the versions that decode
  mtime,     \* the file's time stamp
  exists, readable,
  pc,        \* the watcher: "sleep", "open", "decode", "ended", "failed"
  seen,      \* lastModTime; 0 is the zero time
  opened,    \* the version in the file when it was opened
  cfg,       \* the version published last; 0 is none
  orderly,   \* so far every edit moved the time stamp forward, and the
             \* permissions never changed
  stopping

clockVars == <<now>>
fileVars == <<content, good, mtime, exists, readable, orderly>>
watchVars == <<pc, seen, opened, cfg>>
vars == <<clockVars, fileVars, watchVars, stopping>>

-----------------------------------------------------------------------------
Init ==
  /\ now = 1
  /\ content = 0 /\ good = {} /\ mtime = 0
  /\ exists = FALSE /\ readable = TRUE
  /\ pc = "sleep" /\ seen = 0 /\ opened = 0 /\ cfg = 0
  /\ orderly = TRUE /\ stopping = FALSE

Tick ==
  /\ now < MaxTime
  /\ now' = now + 1
  /\ UNCHANGED <<fileVars, watchVars, stopping>>

Stop ==
  /\ ~stopping
  /\ stopping' = TRUE
  /\ UNCHANGED <<clockVars, fileVars, watchVars>>

(* The file gets a new content, which may or may not decode, and a stamp.    *)
Change(stamp) ==
  /\ content < MaxVersion
  /\ content' = content + 1
  /\ \E g \in BOOLEAN : good' = IF g THEN good \union {content + 1} ELSE good
  /\ mtime' = stamp
  /\ orderly' = (orderly /\ stamp > mtime)
  /\ exists' = TRUE
  /\ UNCHANGED <<clockVars, readable, watchVars, stopping>>

Edit == Change(now)

(* Another file takes its place, with the stamp it had.                      *)
Replace == \E t \in 1..(now - 1) : Change(t)

Remove ==
  /\ exists
  /\ exists' = FALSE
  /\ UNCHANGED <<clockVars, content, good, mtime, readable, orderly, watchVars,
                 stopping>>

Chmod ==
  /\ exists
  /\ readable' = ~readable
  /\ orderly' = FALSE
  /\ UNCHANGED <<clockVars, content, good, mtime, exists, watchVars, stopping>>

-----------------------------------------------------------------------------
(* The timer fires and the file is not there: the goroutine returns the      *)
(* error.                                                                    *)
StatError ==
  /\ pc = "sleep"
  /\ ~exists
  /\ pc' = "failed"
  /\ UNCHANGED <<clockVars, fileVars, seen, opened, cfg, stopping>>

(* Mutant: only a file of a later second counts. *)
LaterSecond == mtime > seen + 1

Later == mtime > seen

(* A later time stamp is noted down before anything was read.                *)
Stat ==
  /\ pc = "sleep"
  /\ exists
  /\ Later
  /\ seen' = mtime
  /\ pc' = "open"
  /\ UNCHANGED <<clockVars, fileVars, opened, cfg, stopping>>

(* Mutant: the file stays open from one watch to the next. *)
FirstContent == IF opened = 0 THEN content ELSE opened

Current == content

Open ==
  /\ pc = "open"
  /\ exists /\ readable
  /\ opened' = Current
  /\ pc' = "decode"
  /\ UNCHANGED <<clockVars, fileVars, seen, cfg, stopping>>

(* The open fails.  The branch that reports it asks for a zero lastModTime,  *)
(* which Stat has just overwritten.                                          *)
OpenError ==
  /\ pc = "open"
  /\ ~exists \/ ~readable
  /\ pc' = IF seen = 0 THEN "failed" ELSE "sleep"
  /\ UNCHANGED <<clockVars, fileVars, seen, opened, cfg, stopping>>

(* The decoder reads the file as it was opened, if another one replaced it,  *)
(* or as it is now, if it was edited in place.                               *)
Contents == {opened, content}

(* Mutant: what could be decoded is published in spite of the error. *)
Anything(v) == TRUE

Decodes(v) == v \in good

(* Mutant: the time stamp is taken after the file was read. *)
StampAfter == mtime

StampBefore == seen

(* A good version is published.                                              *)
Decode(v) ==
  /\ pc = "decode"
  /\ Decodes(v)
  /\ cfg' = v
  /\ seen' = StampBefore
  /\ pc' = "sleep"
  /\ UNCHANGED <<clockVars, fileVars, opened, stopping>>

(* A bad one, or parts of two, is logged, and the time stamp stays seen.      *)
DecodeError ==
  /\ pc = "decode"
  /\ opened # content \/ content \notin good
  /\ pc' = "sleep"
  /\ UNCHANGED <<clockVars, fileVars, seen, opened, cfg, stopping>>

End ==
  /\ pc = "sleep" /\ stopping
  /\ pc' = "ended"
  /\ UNCHANGED <<clockVars, fileVars, seen, opened, cfg, stopping>>

Watch ==
  \/ StatError \/ Stat \/ Open \/ OpenError
  \/ (\E v \in Contents : Decode(v)) \/ DecodeError
  \/ End

Next == Tick \/ Stop \/ Edit \/ Replace \/ Remove \/ Chmod \/ Watch

Spec == Init /\ [][Next]_vars

(* The timer keeps firing and file operations return; nobody has to edit the *)
(* file, or stop.                                                            *)
FairSpec == Spec /\ WF_vars(Watch)

-----------------------------------------------------------------------------
(* Type correctness; what is published is a version that decodes.             *)
TypeOK ==
  /\ now \in 1..MaxTime /\ mtime \in 0..MaxTime /\ seen \in 0..MaxTime
  /\ content \in 0..MaxVersion /\ opened \in 0..MaxVersion
  /\ good \subseteq Versions
  /\ cfg \in good \union {0}
  /\ exists \in BOOLEAN /\ readable \in BOOLEAN
  /\ pc \in {"sleep", "open", "decode", "ended", "failed"}
  /\ orderly \in BOOLEAN /\ stopping \in BOOLEAN

(* No lost update (mdcmux.go:66): when the watcher sleeps and believes it has *)
(* seen the file, the version in the file is the one it published, or did not *)
(* decode, or is gone - although the stamp was read before the content and    *)
(* the file may have changed between the two.  True as long as edits are      *)
(* orderly.                                                                   *)
NoLostUpdate ==
  pc = "sleep" /\ orderly /\ seen = mtime /\ content \in good /\ exists =>
    cfg = content

(* Publication never goes back: a later version is never followed by an       *)
(* earlier one, whatever happens to the time stamps and permissions.          *)
NeverGoesBack == [][cfg' >= cfg]_vars

(* The newest configuration gets through: when nobody edits the file any      *)
(* more, a version that decodes is published in the end, unless the watcher   *)
(* has ended or a time stamp failed to tell.                                  *)
NewestPublished ==
  <>[](orderly /\ content \in good /\ exists =>
         cfg = content \/ pc \in {"ended", "failed"})
-----------------------------------------------------------------------------
(* The inductive invariant: as long as edits are orderly, a file whose stamp  *)
(* was seen has not changed since it was opened; and what is opened is never  *)
(* older than what was published.                                             *)
WatchInvariant ==
  /\ TypeOK
  /\ good \subseteq 1..content
  /\ cfg <= content
  /\ orderly => seen <= mtime /\ readable
  /\ pc = "decode" => cfg <= opened /\ opened <= content
  /\ pc = "decode" /\ orderly /\ seen = mtime => opened = content
  /\ NoLostUpdate
=============================================================================
