-------------------------------- MODULE Proxy --------------------------------
(***************************************************************************)
(* internal/proxy: reconfiguration, routing and the lifetime of client      *)
(* connections.                                                             *)
(*                                                                         *)
(* One goroutine applies each new configuration under Proxy.mu, target by   *)
(* target, conserving backend connections and listeners of the previous     *)
(* generation.  One goroutine per listener accepts clients.  One goroutine  *)
(* per client reads messages and looks the route of its listener up anew    *)
(* for each: the route under Proxy.mu, then the backend and the policies    *)
(* under the route's own lock.                                              *)
(*                                                                         *)
(* A configuration maps a host to the port it is proxied on, or to Nil when *)
(* it has no target for it; its policies are named by its version.  Whether *)
(* a policy names the client's address, and whether it allows a message, is *)
(* left open here.  Conn objects and listeners are named by what they serve *)
(* and the version that created them.                                       *)
(***************************************************************************)
EXTENDS Naturals, FiniteSets

CONSTANTS Hosts, Ports,
          Clients,        \* client connections, each made at most once
          Configs,        \* the configurations somebody may write
          MaxVersion,     \* bound: how many configurations are published
          Nil

ASSUME ConfigsAssumption == Configs \subseteq [Hosts -> Ports \union {Nil}]
ASSUME MaxVersionAssumption == MaxVersion \in Nat

Versions == 1..MaxVersion
Conns == [host : Hosts, born : Versions]
Listeners == [port : Ports, born : Versions]

ASSUME NilAssumption == Nil \notin Hosts \union Ports \union Conns \union Listeners

NoConfig == [h \in Hosts |-> Nil]

VARIABLES
  version,    \* how many configurations have been published
  config,     \* the published configurations
  stopping,   \* the stopper context is stopping
  clean,      \* no port was asked for twice, or found in use by others

  cpc,        \* the configurator: "wait", "apply" (it holds p.mu), "stopped"
  current,    \* the version being applied, or applied last
  todo,       \* the hosts whose targets are still to be applied
  nextConns, nextListeners, nextRoutes,

  committed,  \* the version of the generation in p.mu
  conns,      \* p.mu.connByHostname
  listeners,  \* p.mu.listeners
  routes,     \* the keys of p.mu.routes
  routeMdc,   \* the backend in each listener's route object
  routePol,   \* the policies in it: the version they come from

  open,       \* the listeners open in the operating system

  cl,         \* where each client connection is
  via,        \* the listener it came through
  mdc, pol,   \* what its handler has looked up for the message at hand
  since       \* the generation in place when that message was read

cfgVars == <<version, config>>
nextVars == <<todo, nextConns, nextListeners, nextRoutes>>
muVars == <<committed, conns, listeners, routes>>
routeVars == <<routeMdc, routePol>>
clVars == <<cl, via, mdc, pol, since>>
sysVars == <<cfgVars, stopping, clean, cpc, current, nextVars, muVars, routeVars,
             open>>
vars == <<sysVars, clVars>>

-----------------------------------------------------------------------------
Init ==
  /\ version = 0
  /\ config = [v \in Versions |-> NoConfig]
  /\ stopping = FALSE /\ clean = TRUE
  /\ cpc = "wait" /\ current = 0
  /\ todo = {} /\ nextRoutes = {}
  /\ nextConns = [h \in Hosts |-> Nil]
  /\ nextListeners = [p \in Ports |-> Nil]
  /\ committed = 0
  /\ conns = [h \in Hosts |-> Nil]
  /\ listeners = [p \in Ports |-> Nil]
  /\ routes = {}
  /\ routeMdc = [l \in Listeners |-> Nil]
  /\ routePol = [l \in Listeners |-> 0]
  /\ open = {}
  /\ cl = [c \in Clients |-> "none"]
  /\ via = [c \in Clients |-> Nil]
  /\ mdc = [c \in Clients |-> Nil]
  /\ pol = [c \in Clients |-> 0]
  /\ since = [c \in Clients |-> 0]

(* Does every target have a port of its own?                                 *)
Disjoint(f) == \A g, h \in Hosts : g # h /\ f[g] # Nil => f[g] # f[h]

(* Somebody sets the configuration variable.                                 *)
Publish ==
  /\ version < MaxVersion
  /\ version' = version + 1
  /\ \E f \in Configs :
       /\ config' = [config EXCEPT ![version + 1] = f]
       /\ clean' = (clean /\ Disjoint(f))
  /\ UNCHANGED <<stopping, cpc, current, nextVars, muVars, routeVars, open, clVars>>

Stop ==
  /\ ~stopping
  /\ stopping' = TRUE
  /\ UNCHANGED <<cfgVars, clean, cpc, current, nextVars, muVars, routeVars, open,
                 clVars>>

-----------------------------------------------------------------------------
(* Mutant: the configuration is read once and changes are not waited for. *)
ChangedOnce == current = 0 /\ version > 0

Changed == current < version

(* The configurator sees the newest configuration, fills its defaults in,    *)
(* takes p.mu and starts with empty maps.  Versions in between are skipped.   *)
Begin ==
  /\ cpc = "wait"
  /\ Changed
  /\ current' = version
  /\ cpc' = "apply"
  /\ todo' = {h \in Hosts : config[version][h] # Nil}
  /\ nextConns' = [h \in Hosts |-> Nil]
  /\ nextListeners' = [p \in Ports |-> Nil]
  /\ nextRoutes' = {}
  /\ UNCHANGED <<cfgVars, stopping, clean, muVars, routeVars, open, clVars>>

PortOf(h) == config[current][h]

(* Mutant: every reconfiguration makes new connections. *)
ConnForNew(h) == [host |-> h, born |-> current]

ConnFor(h) ==
  IF conns[h] # Nil THEN conns[h] ELSE [host |-> h, born |-> current]

NewListener(h) == [port |-> PortOf(h), born |-> current]

(* Mutant: the route object keeps the policies of its first target. *)
PoliciesKept(l) == IF routePol[l] = 0 THEN current ELSE routePol[l]

(* The policies a route gets: always those of this configuration.            *)
PoliciesFor(l) == current

(* Mutant: a new connection is used but not kept. *)
KeptConn(h) == conns[h]

(* The connection that the next generation knows.                            *)
NextConn(h) == ConnFor(h)

(* The rest of the loop body, once the target has its listener l.            *)
Route(h, l) ==
  /\ nextConns' = [nextConns EXCEPT ![h] = NextConn(h)]
  /\ nextListeners' = [nextListeners EXCEPT ![PortOf(h)] = l]
  /\ nextRoutes' = nextRoutes \union {l}
  /\ routeMdc' = [routeMdc EXCEPT ![l] = ConnFor(h)]
  /\ routePol' = [routePol EXCEPT ![l] = PoliciesFor(l)]
  /\ todo' = todo \ {h}
  /\ UNCHANGED <<cfgVars, stopping, clean, cpc, current, muVars, clVars>>

(* One target whose port is listened on already.                             *)
ApplyKept(h) ==
  /\ cpc = "apply" /\ h \in todo
  /\ listeners[PortOf(h)] # Nil
  /\ Route(h, listeners[PortOf(h)])
  /\ UNCHANGED open

(* One target that needs a listener; the port is free.                       *)
ApplyNew(h) ==
  /\ cpc = "apply" /\ h \in todo
  /\ listeners[PortOf(h)] = Nil
  /\ \A l \in open : l.port # PortOf(h)
  /\ open' = open \union {NewListener(h)}
  /\ Route(h, NewListener(h))

(* The port is taken: the error is logged and the callback returns, leaving   *)
(* the old maps in place, and the routes it has changed and the listeners it  *)
(* has opened as they are.                                                    *)
Abort(h) ==
  /\ cpc = "apply" /\ h \in todo
  /\ listeners[PortOf(h)] = Nil
  /\ cpc' = "wait"
  /\ todo' = {}
  /\ UNCHANGED <<cfgVars, stopping, current, nextConns, nextListeners,
                 nextRoutes, muVars, routeVars, open, clVars>>

(* By a listener of ours: an aborted reconfiguration left it, or another      *)
(* target of this configuration has just opened it.                           *)
AbortOwn(h) ==
  /\ \E l \in open : l.port = PortOf(h)
  /\ Abort(h)
  /\ UNCHANGED clean

(* By another process.                                                        *)
AbortForeign(h) ==
  /\ \A l \in open : l.port # PortOf(h)
  /\ Abort(h)
  /\ clean' = FALSE

(* A closed listener takes the clients in its backlog with it.               *)
CloseListeners(S) ==
  /\ open' = open \ S
  /\ cl' = [c \in Clients |->
              IF cl[c] = "queued" /\ via[c] \in S THEN "closed" ELSE cl[c]]

Known == {listeners[p] : p \in {q \in Ports : listeners[q] # Nil}}

(* Mutant: unreferenced listeners stay open. *)
NoneUnreferenced == {}

(* Mutant: every listener of the old generation is closed. *)
AllUnreferenced == Known

Unreferenced ==
  {listeners[p] : p \in {q \in Ports : listeners[q] # Nil /\ nextListeners[q] = Nil}}

(* All targets are done: unreferenced listeners are closed and the new maps  *)
(* replace the old ones.                                                     *)
Commit ==
  /\ cpc = "apply" /\ todo = {}
  /\ CloseListeners(Unreferenced)
  /\ conns' = nextConns
  /\ listeners' = nextListeners
  /\ routes' = nextRoutes
  /\ committed' = current
  /\ cpc' = "wait"
  /\ UNCHANGED <<cfgVars, stopping, clean, current, nextVars, routeVars, via, mdc, pol,
                 since>>

(* The context is stopping: the configurator closes the listeners it knows.  *)
Shutdown ==
  /\ cpc = "wait" /\ stopping
  /\ CloseListeners(Known)
  /\ cpc' = "stopped"
  /\ UNCHANGED <<cfgVars, stopping, clean, current, nextVars, muVars, routeVars, via,
                 mdc, pol, since>>

-----------------------------------------------------------------------------
(* A client connects: its connection waits in the listener's backlog.        *)
Connect(c, l) ==
  /\ cl[c] = "none"
  /\ l \in open
  /\ cl' = [cl EXCEPT ![c] = "queued"]
  /\ via' = [via EXCEPT ![c] = l]
  /\ UNCHANGED <<sysVars, mdc, pol, since>>

(* The accept goroutine takes it.  A connection without a route is dropped;  *)
(* one with a route gets a handler, unless the stopping context refuses to   *)
(* start a goroutine, which nobody notices.  The lookup takes p.mu.          *)
Accept(c) ==
  /\ cl[c] = "queued"
  /\ cpc # "apply"
  /\ \/ cl' = [cl EXCEPT ![c] = "closed"]      \* no route, or no policy for it
     \/ /\ via[c] \in routes
        /\ cl' = [cl EXCEPT ![c] = IF stopping THEN "leaked" ELSE "greet"]
  /\ UNCHANGED <<sysVars, via, mdc, pol, since>>

(* The handler moves on.                                                     *)
Move(c, from, to) ==
  /\ cl[c] = from
  /\ cl' = [cl EXCEPT ![c] = to]
  /\ UNCHANGED <<sysVars, via>>

(* The handler returns and closes the client connection.                     *)
End(c, from) ==
  /\ Move(c, from, "closed")
  /\ UNCHANGED <<mdc, pol, since>>

(* The first prompt is written, or the client is gone already.               *)
Greet(c) ==
  /\ Move(c, "greet", "top")
  /\ UNCHANGED <<mdc, pol, since>>

GreetFails(c) == End(c, "greet")

(* The top of the loop.                                                      *)
TopStopping(c) == stopping /\ End(c, "top")

(* Nothing was proxied for MaxIdle - which may also be the 0 of a             *)
(* configuration that was set and not expanded yet: any client is idle then.  *)
TopIdle(c) == ~stopping /\ End(c, "top")

(* Mutant: the loop does not look at the context. *)
GoesOnAlways == TRUE

GoesOn == ~stopping

TopReads(c) ==
  /\ GoesOn
  /\ Move(c, "top", "reading")
  /\ UNCHANGED <<mdc, pol, since>>

(* No line within 100ms, an empty line, or the client is gone (the scanner   *)
(* reports no error at the end of the input).                                *)
ReadNothing(c) ==
  /\ Move(c, "reading", "top")
  /\ UNCHANGED <<mdc, pol, since>>

(* The read fails, or the line is no command.                                *)
ReadFails(c) == End(c, "reading")

(* Mutant: the route found for the first message serves all of them. *)
LooksUpOnce(c) == IF pol[c] = 0 THEN "read" ELSE "judge"

(* Every message is routed anew.                                             *)
LooksUp(c) == "read"

(* A command arrives.                                                        *)
Read(c) ==
  /\ Move(c, "reading", LooksUp(c))
  /\ since' = [since EXCEPT ![c] = committed]
  /\ UNCHANGED <<mdc, pol>>

(* policyFor, first half: the route object of the listener, under p.mu.      *)
FetchRoute(c) ==
  /\ cpc # "apply"
  /\ via[c] \in routes
  /\ Move(c, "read", "fetched")
  /\ UNCHANGED <<mdc, pol, since>>

NoRoute(c) ==
  /\ cpc # "apply"
  /\ via[c] \notin routes
  /\ End(c, "read")

(* policyFor, second half: backend and policies together, under the route's  *)
(* lock.                                                                     *)
GetRoute(c) ==
  /\ Move(c, "fetched", "judge")
  /\ mdc' = [mdc EXCEPT ![c] = routeMdc[via[c]]]
  /\ pol' = [pol EXCEPT ![c] = routePol[via[c]]]
  /\ UNCHANGED <<since>>

(* No policy names the client's address.                                     *)
NoPolicy(c) == End(c, "fetched")

(* The policy denies the message, which does not end the connection.         *)
Deny(c) ==
  /\ Move(c, "judge", "top")
  /\ UNCHANGED <<mdc, pol, since>>

(* It does if the client is gone when it is told.                            *)
DenyFails(c) == End(c, "judge")

(* The policy allows it: RoundTrip on the backend.                           *)
Allow(c) ==
  /\ Move(c, "judge", "trip")
  /\ UNCHANGED <<mdc, pol, since>>

(* The response is written back.                                             *)
Reply(c) ==
  /\ Move(c, "trip", "top")
  /\ UNCHANGED <<mdc, pol, since>>

(* RoundTrip failed, or the client's end did while replying.                 *)
TripFails(c) == End(c, "trip")

-----------------------------------------------------------------------------
Apply == \E h \in Hosts : ApplyKept(h) \/ ApplyNew(h) \/ AbortOwn(h) \/ AbortForeign(h)

Configure == Begin \/ Apply \/ Commit \/ Shutdown

Handle(c) ==
  \/ Greet(c) \/ GreetFails(c)
  \/ TopStopping(c) \/ TopIdle(c) \/ TopReads(c)
  \/ ReadNothing(c) \/ ReadFails(c) \/ Read(c)
  \/ FetchRoute(c) \/ NoRoute(c) \/ GetRoute(c) \/ NoPolicy(c)
  \/ Deny(c) \/ DenyFails(c) \/ Allow(c) \/ Reply(c) \/ TripFails(c)

Next ==
  \/ Publish \/ Stop \/ Configure
  \/ \E c \in Clients : Accept(c) \/ Handle(c) \/ \E l \in Listeners : Connect(c, l)

Spec == Init /\ [][Next]_vars

(* The goroutines are scheduled; a handler that reads wakes up every 100ms,   *)
(* and RoundTrip returns (CallReturns of Conn, which excepts Conn's Wedged).  *)
Fairness ==
  /\ WF_vars(Configure)
  /\ \A c \in Clients : WF_vars(Accept(c)) /\ WF_vars(Handle(c))

FairSpec == Spec /\ Fairness

-----------------------------------------------------------------------------
(* Type correctness of the configurator, the generation in place, the         *)
(* listeners and the client connections.  A handler past the lookup has a     *)
(* backend, not nil, to send to (proxy.go:284).                               *)
TypeOK ==
  /\ version \in 0..MaxVersion
  /\ config \in [Versions -> [Hosts -> Ports \union {Nil}]]
  /\ stopping \in BOOLEAN /\ clean \in BOOLEAN
  /\ cpc \in {"wait", "apply", "stopped"} /\ current \in 0..MaxVersion
  /\ todo \subseteq Hosts /\ nextRoutes \subseteq Listeners
  /\ nextConns \in [Hosts -> Conns \union {Nil}]
  /\ nextListeners \in [Ports -> Listeners \union {Nil}]
  /\ committed \in 0..MaxVersion
  /\ conns \in [Hosts -> Conns \union {Nil}]
  /\ listeners \in [Ports -> Listeners \union {Nil}]
  /\ routes \subseteq Listeners
  /\ routeMdc \in [Listeners -> Conns \union {Nil}]
  /\ routePol \in [Listeners -> 0..MaxVersion]
  /\ open \subseteq Listeners
  /\ cl \in [Clients -> {"none", "queued", "greet", "top", "reading", "read",
                         "fetched", "judge", "trip", "closed", "leaked"}]
  /\ via \in [Clients -> Listeners \union {Nil}]
  /\ mdc \in [Clients -> Conns \union {Nil}]
  /\ \A c \in Clients : cl[c] \in {"judge", "trip"} => mdc[c] \in Conns
  /\ pol \in [Clients -> 0..MaxVersion]
  /\ since \in [Clients -> 0..MaxVersion]

(* No stale policy (proxy.go:274): a message is judged by the policies of the *)
(* generation that was in place when it was read, or of a later one, however  *)
(* old the client connection is and wherever reconfiguration comes between    *)
(* the two halves of the lookup.                                              *)
FreshPolicy ==
  \A c \in Clients : cl[c] \in {"judge", "trip"} => pol[c] >= since[c]

(* Backend and policies belong together: whatever mixture of old and new      *)
(* routes reconfiguration leaves behind, a message is judged by the policies  *)
(* of the very target it is sent to, and that target is the one which its     *)
(* configuration proxies on the client's port.                                *)
RightTarget ==
  \A c \in Clients :
    cl[c] \in {"judge", "trip"} =>
      config[pol[c]][mdc[c].host] = via[c].port

(* One queue per host (proxy.go:49, :103): as long as a host is proxied by    *)
(* every configuration and no port was in use, every message for it, also     *)
(* one that was routed several reconfigurations ago and is still under way,   *)
(* uses the Conn that p.mu knows, so no two sockets lead to one control.      *)
OneQueue ==
  clean => \A c \in Clients :
    /\ cl[c] \in {"judge", "trip"}
    /\ \A v \in 1..current : config[v][mdc[c].host] # Nil
    => mdc[c] = conns[mdc[c].host]

(* Unless a port was in use, the listeners open in the operating system are   *)
(* between reconfigurations the ones p.mu knows, each has its route, and they *)
(* serve the ports of the configuration in place (proxy.go:144): nothing was  *)
(* left open, and nothing closed that is still needed.                        *)
ListenersMatch ==
  cpc = "wait" /\ clean =>
    /\ open = routes
    /\ open = Known
    /\ committed > 0 =>
         {l.port : l \in open} = {config[committed][h] : h \in Hosts} \ {Nil}

(* A reconfiguration that succeeds repairs whatever aborted ones left in the   *)
(* shared route objects (proxy.go:121, :136): every route in place then leads *)
(* to the Conn p.mu knows, under the policies just applied.                   *)
CommitRepairs ==
  [][committed' # committed =>
       \A l \in routes' :
         /\ routePol'[l] = committed'
         /\ routeMdc'[l] = conns'[routeMdc'[l].host]]_vars

(* Nothing in use is replaced (proxy.go:49): a host proxied before and after  *)
(* a reconfiguration keeps its Conn, so its requests stay in one queue, and a *)
(* port proxied before and after keeps its listener, open, with the clients   *)
(* that wait there.                                                           *)
Conserved ==
  [][/\ \A h \in Hosts :
          conns[h] # Nil /\ conns'[h] # Nil => conns'[h] = conns[h]
     /\ \A p \in Ports :
          listeners[p] # Nil /\ listeners'[p] # Nil /\ cpc' # "stopped" =>
            listeners'[p] = listeners[p] /\ listeners[p] \in open']_vars

(* A clean shutdown: after Stop the configurator ends, every handler returns, *)
(* whatever it was doing, and unless a port was in use no listener is left.   *)
ShutdownCompletes ==
  stopping ~> /\ cpc = "stopped"
              /\ clean => open = {}
              /\ \A c \in Clients : cl[c] \in {"none", "closed", "leaked"}

(* The newest configuration is put in place, however quickly configurations   *)
(* follow one another, unless a port was in use.                              *)
NewestApplied ==
  <>[](committed = version \/ cpc = "stopped" \/ ~clean)
=============================================================================
