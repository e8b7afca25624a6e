# Verification of mdcmux

TLA+ models of `mdcmux`, a proxy between many network clients and machine
controls (MDC hosts), checked with TLC and, where the prover reaches, proved with
TLAPS. The
models are written from the Go source in `src/`; line numbers in this document
and in the modules refer to those files. `PROJECT.json` lists the components,
runs, hazards, findings and theorems, and maps every definition that stands for
code to its lines.

Contents: [1 Inventory](#1-inventory) ·
[2 Modules and their code](#2-modules-and-their-code) ·
[3 Runs and bounds](#3-runs-and-bounds) · [4 Fairness](#4-fairness) ·
[5 Proofs](#5-proofs) · [6 Findings](#6-findings) ·
[7 Not modelled](#7-not-modelled) · [8 What could follow](#8-what-could-follow)

## 1 Inventory

```
 mdcmux.json --watch--> cmd/mdcmux --variable--> internal/proxy --listeners--> clients
                                                    |   |  \
                                          config.go |   |   pkg/message (parse, format, cmap)
                                                        v
                                                     pkg/conn --TCP--> MDC host (pkg/dummy in tests)
```

| component | state it keeps | operations | what makes it correct |
|---|---|---|---|
| **backend connection** `pkg/conn` | under one mutex: socket, keepalive channel, response scanner; one goroutine per dialed socket | `RoundTrip`, `Close`, `dialLocked`, `writeLocked`, `closeLocked`, the keepalive goroutine | a response belongs to the command of the call that returns it; a command is sent once; a stale keepalive goroutine spares the new connection; every call returns |
| **proxy** `internal/proxy/proxy.go` | under one mutex: `connByHostname`, `listeners`, `routes`; a lock per route object; one goroutine each for reconfiguration, per listener, per client | reconfigure, abort, commit, shutdown, accept, handle, `policyFor`; per client a scanner with a 100 ms deadline and an idle clock | no message is judged by stale rules or sent to a backend its rules do not belong to; listeners and connections survive reconfiguration; shutdown is complete; lines reach the host whole and in order, and none is skipped |
| **access policies** `internal/proxy/config.go` | the sorted policies of each target | `expandPolicy`, `Policy.Allow`, `AllowWrites`, `listenerRoute.get` | the configuration alone decides; writes need a grant |
| **canonical commands** `pkg/message/cmap.go`, `basic.go` | a map of weak pointers | `get`, `peek`, `cleanup` and the collector | one object per live key; a documented command stays documented |
| **messages and numbers** `pkg/message` | none | `ParseCommand`, `ParseResponse`, `WriteTo`, `ParseNumber`, `Format`, `Float64` | what was judged is what the host executes; reads return what was written |
| **configuration watcher** `cmd/mdcmux` | last time stamp seen | stat, open, decode, publish | no update is lost, none is undone |
| **dummy server** `pkg/dummy` | registry of connections, macro variables | accept, register, handle, stop | shutdown reaches every handler |
| **fetch** `cmd/fetch` | the numbers fetched so far | parse flags, query, write the table | a fetch that succeeds printed what was asked for |
| command line, test rig | - | - | not modelled, see section 7 |

How they interact. The watcher sets a notifying variable; the proxy's
configurator waits on it, expands the policies in place and rebuilds the maps
under `p.mu`, writing new contents into route objects that running handlers
share. A handler looks its route up anew for every message, judges the message,
calls `RoundTrip` on a `Conn` shared by all clients of one host, and writes the
response back. `stopper.Context` starts goroutines, refuses new ones once it is
stopping, and is what every loop looks at to leave.

What is hard. (a) `Conn`: callers, a timer goroutine per socket generation, a
host that answers late or hangs up, and a deadline that starts before the lock is
held. (b) Proxy: a lookup in two halves, under two locks, against a
reconfiguration that may stop half way and that shares objects with the
generation in place. (c) `cmap`: a double-checked lookup against a garbage
collector that clears pointers and runs cleanups whenever it likes. (d) Dummy:
accept, register and spawn against a shutdown in three steps. (e) Watcher: time
of check and time of use of a file. (f) Clients: a byte
stream that a deadline may cut anywhere, whose end the scanner does not report.
(g) Pure code: sort order, sign, leading zeros, the ends of int64, and a command
that is parsed twice, by the proxy and by the host. The `hazards` of `PROJECT.json` list all of these at the
line where they bite, with the properties that watch them.

## 2 Modules and their code

| component | specification | for TLC | proofs |
|---|---|---|---|
| backend connection | `Conn`, abstractly `RoundTripSpec`; `ConnInv` (inductive invariant, refinement mapping) | `MCConn` | `ConnProofs` |
| proxy | `Proxy`, abstractly `RoutingSpec`; `ProxyInv` (inductive invariant, refinement mapping) | `MCProxy` | `ProxyProofs` |
| proxy, one client's byte stream | `Client` | - | `ClientProofs` |
| access policies | `Policy` | `MCPolicy` | `PolicyProofs` |
| canonical commands | `Cmap`; `CmapInv` | - | `CmapProofs` |
| messages and numbers | `Message` (operators), `Exchange` (client, proxy, host) | - | `FetchProofs` |
| fetch | `Fetch`, which extends `Exchange` | - | `FetchProofs` |
| dummy server | `Dummy` | - | `DummyProofs` |
| watcher | `Watcher` | - | `WatcherProofs` |

Operators whose comment begins with *Mutant* are not part of any specification.
They are plausible errors in the definition that follows them, kept to show that
each property fails when the code is wrong in that way (`mutants` in
`PROJECT.json`).

### Conn

Each invocation of `RoundTrip` is a process: `Invoke` (the deadline starts,
conn.go:85) or `Reject` (the caller's context is over); `Acquire` (`mu.Lock`);
`DialOk` / `DialFail` (`dialLocked`, with its initial serial number query);
`Send` (the keepalive channel of capacity one), `WriteOk` / `WriteErr`,
`ScanLine` / `ScanTail` / `ScanFail` (`writeLocked`). `Fail` is the deferred
function that closes the connection on an error. Whatever runs in one critical
section without waiting is one action; every wait - the lock, the channel, the
network - ends one.

An epoch (the code's word, conn.go:132) is a socket with its channel and its
goroutine, named by the call that dialed it, since a call dials at most once. The
goroutine is `KeepDrain`, `KeepClosed`, `KeepTimer`, `KeepLocked`. `KeepTimer`
and `KeepLocked` are two actions because nobody receives from the channel in
between: this is where the wedge of section 6 comes from.

Time is abstract. `Expire(k)` is the passing of a call's deadline. The keepalive
timer and a call's deadline both last 30 s, so the timer cannot fire while a call
that was in progress when it was armed still has time left; `armed[e]` remembers
those calls, and `Elapsed` is the only relation between clocks the model uses.

The host is not in `src/` except as the test server. `HostGreet`, `HostHandle`,
`HostFinish`, `HostHangup` follow `pkg/dummy`: prompt, one answer per line,
prompt. A read by the scanner may meet a whole line, the beginning of one, or a
bare prompt. `HostHandle` may execute a line whose connection the client has
given up. With `Broadcast = TRUE` an answer also reaches the open connection when
it was asked for on another one, as README.md:25 says real controls behave.

`RoundTripSpec` is what a caller may rely on: at most one execution, never before
the call; a reply is that of the caller's own executed command, or, from a host
that broadcasts, that of some executed command (or of the serial-number query);
an error or a bare prompt says nothing about execution.

### Proxy

The configurator is `Begin` (read the newest configuration, `expandPolicy`,
lock), one step per target (`ApplyKept`: the port has a listener; `ApplyNew`:
listen succeeds; `AbortOwn`, `AbortForeign`: the port is in use, by a listener of
the proxy's own or by another process, and the callback returns), `Commit` (close
what is unreferenced, swap the maps) and `Shutdown`. The history variable `clean`
remembers whether a port was ever asked for twice or found in use by others;
properties that need free ports are stated under it. `p.mu` is held while `cpc = "apply"`, so the actions of others that
need it have the guard `cpc # "apply"`. Applying is still split into one action
per target, because handlers read route objects under the route's own lock,
which the configurator takes only for each update.

A handler is `Greet`, `TopStopping`/`TopIdle`/`TopReads` (the top of the loop), `Read*` (one scan under a 100 ms deadline), `FetchRoute` then `GetRoute`
(the two halves of `policyFor`), `Deny`, `Allow`, `Reply`, `TripFails`. Time is
left open: a client may always have been idle for long enough (`TopIdle`). What a policy says is left to `Policy`; here it is named by
its configuration's version, and denial is a free choice.

`RoundTrip` is one step that returns in the end: this is `CallReturns` of `Conn`,
with the exception stated there.

`RoutingSpec` is what clients may rely on: configurations are put in place in the
order in which they were published, and a message is judged and routed at once, by
one configuration not older than the one in place when it was read. The mapping
(`ProxyInv`) sees a handler between `Read` and `GetRoute` as asking, behind it as
judged. This contains two properties that are also stated by themselves:
`FreshPolicy` and `RightTarget`.

### Client

The same handler loop (proxy.go:209-343) for one client, with what `Proxy` leaves
out: bytes and time. A line is two halves, of which the second has the line end; a
position in the stream is a number of halves, so that a deadline or the end of the
input falls either between lines or inside one, which is all the code can tell
apart. `ScanLine`, `ScanRead`, `ScanRest`, `ScanNothing`, `ScanTimeout`,
`ScanFails` are the outcomes of `in.Scan()`; `from..scanned` is what the scanner
holds, and `cut` remembers which lines lost their first half with a replaced
scanner. `Readings` says what `ParseCommand` may make of half a line. The clock
counts to `MaxIdle` (`Tick`); only `Reply` sets it back. The configuration is two
flags: whether there is a route, and whether the defaults have been filled in.

### Policy

A one-shot computation, run on every input within the bounds: two maps are copied
in any order (`Copy`), sorted with any result an unstable sort may give (`Sort`),
and a message is judged (`Judge`).

### Message, Exchange, Fetch

`Message` has the pure code of `pkg/message` on the structure of text: a numeral is
a sign and two sequences of digits, a line is a letter and numerals. Base and
largest integer are constants; exact values are counted in units of
`Base^-Places`, so that no fraction is rounded. `Float64` takes the number of a
fraction's digits from a floating-point logarithm (number.go:109), which comes out
one too many for some fractions; which ones depends on the float format, so they are
the constant `LogCarries`, any set of positive integers. `Cuts` and `Beginnings` are
what is left of an answer when the connection ends inside it, or the deadline passes.

`Exchange` sends a command through it all: the proxy parses the line (`Read`),
judges the command (`Deny`, `Forward`), writes it anew; the host parses that
(`Handle`, the dummy server's `handle` with its table of macro variables); the
scanner returns the answer, whole or cut (`Receive`, conn.go:181); it is parsed and
passed on (`Answer`). `TripFails` is every error of `RoundTrip`, before or after
the host has handled the command; a command that the host handles after its call has
failed is one that is forwarded late. One command is under way at a time:
it meets the table under one lock, in one step, and the order of those steps is
all that concurrency could change.

`Fetch` adds `cmd/fetch` next to that client: `Run` (the flags, Go's wrapping
arithmetic included), `Ask` and `Collect` (the loop over `RoundTrip`),
`FetchFails`, and the three ends of `write`: `WriteTable`, `WriteFails` and
`WritePanics`, the nil writer behind `--out`. `Collect` keeps whatever number it is
given, as fetch.go:92-97 does: that of a whole answer, the beginning of one in an
answer that was cut, or that of a stray (`Overhear`): fetch has a connection of its
own, and a host that sends every answer to every connection (README.md:25) sends it
those to the proxy's commands as well, and those to its own earlier queries. Three variables
only record: `held` (the values each variable has had since fetch began), `heard`
(the answers the host has given since) and `came` (how each number kept arrived). A cut may
come in any row; in the code, one before the last row needs the keepalive timer to close
the connection before the next query.

### Cmap

`Get`, `PeekRead`, `PeekHit`, `PeekMiss`, `DoubleCheck`, `Assign` are the steps of
`get`; `Collect` is the collector (clearing weak pointers, queueing the cleanup)
and `Cleanup` the conditional delete. `Release` is a caller's dropping of a
pointer. The weak pointer is read and dereferenced in two steps, as in the code,
and in between the object may die.

### Dummy

The accept loop (`AcceptConn`, `Register`, `Spawn`), the listener's goroutine
(`CloseListener`), the one that sets expired deadlines (`Unblock`), and handlers.
What a handler answers, and the table of macro variables, are in `Exchange`.

### Watcher

`Stat`, `Open`/`OpenError`, `Decode`/`DecodeError`, against `Edit`, `Replace`,
`Remove`, `Chmod`. A file opened before it was replaced is read as it was; one
edited in place is read as it is: `Decode` may see either (`Contents`).

## 3 Runs and bounds

| run | shows | bounds, and why they suffice |
|---|---|---|
| `conn_safety` | pairing, execution, epochs, and the inductive invariant (which contains the lock's) | 3 calls. Two sockets can then be stale while a third is open, and the wedge (one call to dial, one to fill the channel after the timer, one to block) happens. About 1.2 million states up to symmetry |
| `conn_liveness` | calls return, keepalive goroutines end and an idle connection is closed; `Conn` implements `RoundTripSpec` | 2 calls, no symmetry (unsound for liveness), and a host that broadcasts, so that stray answers occur. Two calls cannot wedge, so the exception `Wedged` is never used here: the properties hold outright |
| `conn_wedge` | finding | 3 calls |
| `proxy` | the inductive invariant; `Proxy` implements `RoutingSpec`; commits repair aborts; connections and listeners are conserved, and match the configuration at rest; shutdown completes; the newest configuration is applied | 2 hosts, 2 ports, 3 configurations out of five - enough to swap two targets' ports, to put two targets on one port, to drop and restore one, to empty the proxy; what the five leave out are they with hosts or ports exchanged. Any listen may fail. One client: handlers write no shared state, so a second one sees nothing the first does not. The proofs cover the rest |
| `client` | whole lines in order, nothing skipped, ends for a reason, ends in the end | 2 lines, hence 4 halves: a cut line before and after another, and both in one read; idle after 2 ticks. The invariants are proved for any number of lines |
| `policy` | the decision depends on the configuration only; writes need grants | 4 addresses; 6 netblocks - the net, one half written in two ways, two hosts, an invalid one; at most 2 entries per map, so up to 4 are sorted. The proofs cover the rest |
| `policy_target` | finding | the same |
| `cmap` | canonicity, stable `IsSafe`, entries of live objects, the inductive invariant; dead entries go | 2 goroutines, a documented and an undocumented key, 3 objects: a key is replaced while its old cleanup is pending |
| `fetch` | what was judged is executed, reads return the last write, safe commands are understood, `Float64` agrees with `String` but for the fractions of `LogCarries`, a successful fetch printed the right rows, with answers whole, cut or broadcast | base 2, integers from -3 to 2, up to 2 digits a side (values to 3): the range of digits exceeds that of integers, so overflow occurs on both sides of the point, and so do zeros after it, powers of the base, a fraction just below one (`LogCarries`), negative zero and a range whose length wraps around. Every line of these, one of them next to one fetch of any range; a second line, or more digits, takes hours; any number of lines, any base, any width of integers and any number of digits are covered by the proofs |
| `exchange_fixed` | finding | the same lines, without fetch |
| `dummy` | no handler escapes the shutdown, the registry is exact, shutdown completes | 3 clients, 2 buffered lines |
| `watcher` | no lost update and the newest good version published while time stamps move forward (`orderly`, a history variable); publication never goes back | 3 versions, 4 instants |

Deadlock is not checked: every one of these systems may stop - all calls have
returned, the context is stopped, the number has arrived - and
waiting for ever is the subject of liveness properties or, for `Conn`, of
`NoWedge` and `WedgeIsForever`. The bounds `Calls`, `Clients`, `Objects`, `MaxVersion`,
`MaxTime`, `MaxEntries`, `MaxLines`, `MaxIdle`, `MaxCommands`, `WholeDigits`,
`FracDigits` and `MaxInt` are named in the modules; nothing else is cut off.

## 4 Fairness

Weak fairness only, of goroutines and of time:

- `Conn`: every call's steps, every keepalive goroutine's, and `Expire`. The
  host owes nothing. A waiter for the mutex needs no more than weak fairness,
  since finitely many calls leave the lock free in the end.
- `Proxy`: the configurator, the accept goroutines and the handlers. A handler
  that reads wakes up after 100 ms at the latest, and `RoundTrip` returns.
- `Client`: the handler and the clock. The client, the host and whoever changes the
  configuration owe nothing; `ConnectionEnds` holds because the clock runs out.
- `Cmap`: lookups and queued cleanups. The collector owes nothing.
- `Dummy`: the server's goroutines. A client may stay silent, but it reads its
  answers or is gone: the code sets no write deadline, and a client that does
  neither would hold up a shutdown.
- `Watcher`: the watcher, not the editors.

## 5 Proofs

Proofs hold for every value of the constants that satisfies the assumptions, which are
named in the modules and evaluated by TLC: bounds are numbers, a base has two digits,
netblocks have addresses of the right width, the maps of a configuration go from
hosts to ports (`ConfigsAssumption`), the documented commands are numbers other than
that of the Q command that takes a variable, and the null values (`Nil`, `None`, `NaN`,
the prompt) are not also something else.

**Conn.** The invariants that matter are not inductive: that a call returns its
own reply depends on what is buffered, which depends on who holds the lock and
what the host has not read. `IInv` (module `ConnInv`) adds

- `SockParts`, `SockByPc`, `Undialed`: the socket, its channel and goroutine agree
  with the program counters, and an epoch not yet dialed has no traffic;
- `CmdOwn`: a call carries its own command or the serial-number query;
- `Pairing`: as long as the scanner can return a token, what is under way on the
  open socket is nothing, or exactly the command the lock holder waits for. This is
  the heart of the argument: a failed call closes the socket, a scanner with an
  error stays failed, so a late answer has no one to mislead;
- `ExecInv`: a command waits in at most one place, was not executed while it
  waits, and every answer is that of an executed command.

`ConnProofs` proves `TypeCorrect`, `LockOwnerCorrect`, `SendHasChannelCorrect`,
`ExecutedOnceCorrect` (these for any host), `NoCrossTalkCorrect` and `IInvCorrect`
(under `Broadcast = FALSE`; the assumption is necessary: with `TRUE` in
`conn_safety.cfg`, TLC finds an answer returned to the wrong call), and the action
properties `LockProtectsCorrect`, `EpochCorrect` and `WedgeCorrect`.
`ConnProofs` also proves `RefinementCorrect`, that `Conn` implements
`RoundTripSpec`, for any host: steps of the lock, the socket and the goroutine
stutter, `HostHandle` of a call's command is `Execute`, and returns are the abstract
returns. `Pairing` enters only for a host that does not broadcast, where the
abstract return allows the caller's own reply and no other.

**Cmap.** `CmapInv` says in essence that every allocated object that is not dead
is in the map, under its own key (`LiveInMap`, `EntryKey`). Assignments replace
only missing or dead entries, cleanups delete only their own, and what somebody
holds is not dead. `CmapProofs` derives `CanonicalCorrect`, `SafeStaysCorrect` and
`LiveEntryCorrect` from it, for any number of keys, goroutines and objects.

**Proxy.** Two things make the lookup safe although it takes two locks and the
configurator rewrites route objects that handlers hold. `RouteObjects` is the heart:
every route object that was ever filled, in use or left behind by an abort, holds a
backend and policies of one target of one configuration, which that configuration
proxies on the listener's port; and one in use is not older than the generation in
place. `Handlers` says the same of what a handler has looked up. The rest of
`ProxyInvariant` ties both generations to their configurations (`GenConns`,
`GenListeners`, `NextGen`) and, as long as no port was in use (`clean`), says that
every reconfiguration succeeds, leaves no listener behind (`CleanSoFar`) and gives
a host that stays no second connection (`OneConn`). From it follow `FreshPolicy`,
`RightTarget`, `OneQueue`, `ListenersMatch`, `CommitRepairs`, `Conserved`,
and that `Proxy` implements `RoutingSpec`: only `Publish`,
`Commit` and the handler's `Greet`, `Read`, `GetRoute` and their ends change the
abstract state. All for any sets of hosts, ports and clients and any
configurations.

**Client.** `Inv` (in `ClientProofs`) relates the position of the scanner to
everything behind it: a position inside a line means that the line was cut or the
input is over (`Between`), the token in hand ends at the position (`TokenOK`), what
was forwarded lies behind it (`ForwardedOK`), and so does what was answered or cut
(`Settled`). It needs `Over`, because an unterminated last line may be forwarded
only if nothing follows. `WholeInOrderCorrect`, `NothingSkippedCorrect` and
`EndsForReasonCorrect` hold for any number of lines; the last needs `TokenOK`, since
half a line that does not parse was cut or is the last.

**Dummy and Watcher.** `DummyInvariant`: a handler is registered from before it
starts until it ends, and deadlines are set after Stop only; `UnblockReachesAll` and
the registry's exactness follow. `WatchInvariant`: while edits are orderly, a file
whose stamp was seen has not changed since it was opened, and what is open is never
older than what was published; `NoLostUpdate` and `NeverGoesBack` follow. For any
number of clients, versions and instants.

**Policy.** `PolicyInvariant`: while maps are copied, what is in the slice and what is
still to come are the configured entries (`Copying`); the slice handed to the handlers
has all of them, and none behind one it comes before (`Sorted`); the verdict is that of
the first match (`Judgement`). Of the sort only two things are used: it permutes, and it
leaves nothing in front of what compares as smaller. `DecidedCorrect` follows because the
order is total on the configured entries (`EntriesOrdered`: within a map a netblock is a
key, and the comparison ends with the address as written),
so that neither the order of map iteration nor the instability of the sort can
matter. `WriteNeedsGrantCorrect` covers the fallback to the local host too, and
`GlobalWinsCorrect` states what holds in place of the comment that `policy_target`
refutes. For any netblocks, rules, commands and width of address.

**Message, Exchange, Fetch.** Everything here is computed digit by digit, and the
library's induction theorems take an operator, which the provers cannot instantiate.
`FetchProofs` therefore starts with induction on *sets* of naturals (`StrongInduction`,
from `WFMin`: the complement has no least element). A recursive function is a CHOOSE, so
`DigitsOfEquation` and `PrefixesEquation` first show that a solution exists, by gluing
the tables up to n together. On these rest

- `NaturalOfDigits` and `DigitsOfNatural`: reading undoes writing, and writing undoes
  reading where there is no leading zero, for any base;
- `NumbersRoundTrip`: whatever `Format` writes, `ParseNumber` reads back, negative
  fractions and the integers' ends included;
- `WrittenIsUnderstood`: every command the proxy judged is written as a line that the
  host parses to that very command. `JudgedIsExecutedCorrect` is this and the invariant;
- `FloatIsFormat`: `Float64` scales the fraction by exactly the digits that `Format`
  writes, powers of the base included, or by one more if its logarithm is rounded up; a
  zero in front changes nothing but the scale (`NaturalLeadingZero`).

`ExchangeInvariant` says which command and number each stage of an exchange carries,
what of an answer arrived, and that the host's table is what the client's writes made it. From it follow
`ReadsLastWriteCorrect`, `SafeIsAnsweredCorrect` and `FloatAgreesCorrect`.
`FixedPointIfExactCorrect` bounds the damage that `exchange_fixed` finds: a number
without a fraction, or whose fraction begins with another digit than zero and whose sign
has a whole part to stand with, keeps its value.

`FetchInvariant` adds the loop of `cmd/fetch`: while it waits, the command under way is
the query of the next variable, every number that was heard is one some variable has had
or a canned message's (`AnswerNumber`), and every number that was collected is right for
the way it arrived (`Fetched`): it has the value of a text of its variable, of the
beginning of one, or, from a stray, of the beginning of any variable's. `RowsRightCorrect`
needs one argument more, for a range whose length overflows: if it wraps to something
positive, the variables it asks for include the least integer, which is negative; the host
refuses that, and no cut turns the refusal into a number, so such a fetch does not succeed
unless a stray is taken for that answer (`WholeOrCut`, `InvariantImpliesRows`).

**Only model-checked.** The liveness properties, because the prover has no ENABLED, on
which the meaning of fairness rests: `CallReturns`, `KeepAliveExits`, the two
`ShutdownCompletes`, `NewestApplied`, `ConnectionEnds`, `DeadEntryGoes` and
`NewestPublished`. Every safety property of a passing run, the refinements included, is a
theorem.

## 6 Findings

Where the code does something other than a comment, message, test or document of
the repository says, a run that must fail shows it.

| run | code | the disagreement |
|---|---|---|
| `conn_wedge` | conn.go:161 | The keepalive goroutine stops receiving when its timer fires, then waits for the mutex. Meanwhile one call puts a token in the channel, the next one blocks in the send with the mutex held, outside any deadline. Both wait for ever, and so does every later call; `WedgeIsForever` is a theorem |
| `policy_target` | config.go:90 | Target policies come last, not first: ascending order, first match wins. With the example of README.md:65 no client can write |
| `exchange_fixed` | number.go:153 | 1.05 is forwarded as 1.5, -0.5 as 0.5 |

Behaviours that the models contain and no property excludes, met while writing
them:

- A bare prompt at the end of the input is returned as a response, and so is a
  line cut by a deadline or a hangup (`ScanTail`; wire.go:51, conn.go:181).
- With a host that broadcasts, a late answer to an abandoned command is returned
  to another call (`Stray`; conn.go:181 against README.md:25-29).
- An aborted reconfiguration ("not reconfiguring", proxy.go:117) leaves new
  policies in routes that are in use, and listeners that are never closed
  (`Abort`). A later success repairs the routes (`CommitRepairs`); a leaked
  listener blocks its port for good (`AbortOwn`).
- A handler that reads `MaxIdle` before `expandPolicy` has filled in its default
  drops an active client (`TopIdle`; proxy.go:234).
- A line whose beginning arrives before the deadline and its end after it loses the
  beginning (`ScanTimeout`; proxy.go:248). The rest of a command is junk, and ends
  the connection; if all but the line end had arrived, the rest is an empty line,
  and the command is lost without a trace (`NothingSkipped` excepts `cut`). After a
  line that was no command, the rest may be one, and is forwarded (`WholeInOrder`).
- At the end of a client's input the scanner reports no error, so the handler spins
  until `MaxIdle` (`ScanNothing`; proxy.go:254), and an unterminated last line is
  taken for a whole one (`ScanRest`).
- A denied message is no activity: a client that is only ever denied is dropped as
  idle (`Deny` leaves `age`; proxy.go:299).
- `fetch --out` creates the file and panics on a nil writer, leaving it empty
  (`WritePanics`; fetch.go:114). A range whose length wraps around ends in an error
  of the host or of the flags, not in wrong rows, unless a stray is taken (`RowsRight`).
- A `fetch` that succeeds may print a number its variable never had: what a hangup left
  of 12.5 is 12 or 1, and is kept (`Receive`, `Collect`; conn.go:181, fetch.go:92-97);
  from a host that broadcasts, another command's number is (`Overhear`). `RowsRight` says
  what can be said: it begins a number the variable, or some variable, had meanwhile.
- `Float64` is off by a factor of ten for a long fraction just below a power of ten:
  `math.Log10` of 999999999999999, the fraction of 0.999999999999999, is 15 exactly, so
  that the result is a tenth (`LogDigits`; number.go:109; `FloatAgrees` excepts
  `LogCarries`). It begins with the three fractions below ten to the fifteenth and takes
  in some five thousand below ten to the eighteenth. Powers of ten themselves, as in 0.1
  and 0.10, come out right. The comment of `Float64` promises no precision, so no run
  presents this as a finding.
- A host removed and added again gets a second connection while handlers may still
  use the first (`OneQueue` excepts it; proxy.go:103).
- A client accepted while the context stops is never closed (`"leaked"`;
  proxy.go:200).
- The error of mdcmux.go:75 is never returned, because the test for a zero
  `lastModTime` comes after its assignment (`OpenError`); and a file whose change
  brings no later time stamp, or could not be opened when it did, is not loaded
  (`Stat`, the reason for `orderly`).

Met while reading, outside the models: `Number.LogValue` logs 1.1 as 2 (it counts
one digit too few for a power of ten, number.go:131); `Config.Bind` left out
listens on all interfaces, while README.md says the default is `localhost`.

## 7 Not modelled

- The command line, `cmd/legal`, logging, signal handling: wiring and I/O. The signal
  handler's only effect on state is `Stop`.
- Regular expressions and the wording of messages; the tables of documented
  commands (only the flag counts); the dummy's canned answers.
- The last bits of what `Float64` computes (the scale is modelled, section 6), and
  `LogValue`; the drain timeout after which a stopper
  gives up on its goroutines; TCP back-pressure (a write that blocks); the limit of
  64 KiB on a scanner's line; the memory a large range of `fetch` asks for, and a
  configuration file that is opened once a change and never closed (mdcmux.go:72).
- Which answers a host broadcasts while no call of `fetch` waits for one: a stray may be
  any answer since it began. Addresses of the other family, 4-in-6 or with a zone, in the
  policies (`Prefix.Contains` is false for them, and the local host has one entry per
  family, config.go:77-86). The error that ends the watcher when stat fails
  (mdcmux.go:64), and a read that mixes two versions of a file and still decodes.
- `internal/mdctest` and `*_test.go`: test fixtures.

## 8 What could follow

Every component that keeps state is modelled, and every safety property whose
argument the prover can express is a theorem. What would add something:

1. `Proxy` over `RoundTripSpec` in place of its one-step round trip, with several
   clients of one host: the two refinements proved here are its halves.
2. `Watcher` with the proxy's configurator: from the newest good file to what the
   routes serve, which `NewestPublished` and `NewestApplied` state in two parts.
3. The converse of `FixedPointIfExact`, that every other number changes its value. TLC
   finds it true on the instance of `fetch`; a proof needs the value of a numeral to be
   monotone in its digits.
