------------------------------ MODULE ProxyInv ------------------------------
(***************************************************************************)
(* The inductive invariant of Proxy, and the mapping under which Proxy       *)
(* implements RoutingSpec.                                                   *)
(***************************************************************************)
EXTENDS Proxy

Target(v, h) == config[v][h] # Nil

Judging(c) == cl[c] \in {"judge", "trip"}

(* Versions are published, applied and committed in order.                   *)
VersionsInOrder == committed <= current /\ current <= version

(* The generation in place: connections and listeners are those of exactly   *)
(* the targets of its configuration, and the routes lead to the listeners.   *)
GenConns ==
  \A h \in Hosts :
    /\ conns[h] # Nil <=> committed > 0 /\ Target(committed, h)
    /\ conns[h] # Nil => conns[h].host = h

GenListeners ==
  /\ \A p \in Ports :
       /\ listeners[p] # Nil <=> committed > 0 /\ \E h \in Hosts : config[committed][h] = p
       /\ listeners[p] # Nil =>
            listeners[p].port = p /\ (cpc # "stopped" => listeners[p] \in open)
  /\ \A l \in Listeners : l \in routes <=> listeners[l.port] = l

(* The generation that is being built, of the targets done so far.           *)
Done(h) == h \notin todo /\ Target(current, h)

NextGen ==
  cpc = "apply" =>
    /\ current > 0
    /\ \A h \in todo : Target(current, h)
    /\ \A h \in Hosts : nextConns[h] = IF Done(h) THEN ConnFor(h) ELSE Nil
    /\ \A p \in Ports :
         /\ nextListeners[p] # Nil <=>
              \E h \in Hosts : Done(h) /\ config[current][h] = p
         /\ nextListeners[p] # Nil =>
              /\ nextListeners[p].port = p /\ nextListeners[p] \in open
              /\ listeners[p] # Nil => nextListeners[p] = listeners[p]
    /\ \A l \in Listeners : l \in nextRoutes <=> nextListeners[l.port] = l
    /\ \A l \in nextRoutes :
         /\ routePol[l] = current
         /\ Done(routeMdc[l].host)
         /\ routeMdc[l] = ConnFor(routeMdc[l].host)

(* The heart of it: every route object, in use or not, holds a backend and    *)
(* policies of one target of one configuration, which that configuration     *)
(* proxies on the listener's port; one in use is not older than the          *)
(* generation in place.                                                      *)
RouteObjects ==
  \A l \in Listeners :
    /\ routePol[l] <= current
    /\ routePol[l] > 0 =>
         routeMdc[l] \in Conns /\ config[routePol[l]][routeMdc[l].host] = l.port
    /\ l \in routes => routePol[l] > 0 /\ routePol[l] >= committed

(* What a handler has looked up.                                              *)
Handlers ==
  \A c \in Clients :
    /\ cl[c] # "none" => via[c] \in Listeners
    /\ since[c] <= committed
    /\ pol[c] <= current
    /\ cl[c] = "fetched" => /\ committed > 0
                            /\ routePol[via[c]] > 0 /\ routePol[via[c]] >= since[c]
    /\ Judging(c) => /\ committed > 0 /\ pol[c] > 0 /\ pol[c] >= since[c]
                     /\ config[pol[c]][mdc[c].host] = via[c].port

(* As long as no port was in use, every reconfiguration succeeds, and leaves  *)
(* no listener behind.                                                       *)
CleanSoFar ==
  clean =>
    /\ \A v \in 1..version : Disjoint(config[v])
    /\ cpc = "wait" => current = committed /\ open \subseteq routes
    /\ cpc = "apply" => open \subseteq routes \union nextRoutes

(* And a host that is in every configuration has one connection for good.    *)
Always(h) == \A v \in 1..current : Target(v, h)

OneConn ==
  clean => \A l \in Listeners :
    routePol[l] > 0 /\ Always(routeMdc[l].host) => routeMdc[l] = ConnFor(routeMdc[l].host)

(* The inductive invariant: the generation in place, the one being built and  *)
(* the route objects agree with the configurations they were made from, and   *)
(* a handler with the route objects, at every step of a reconfiguration.      *)
ProxyInvariant ==
  /\ TypeOK
  /\ VersionsInOrder /\ GenConns /\ GenListeners /\ NextGen
  /\ RouteObjects /\ Handlers
  /\ CleanSoFar /\ OneConn /\ OneQueue

-----------------------------------------------------------------------------
(* The abstract state.  A connection that waits in a backlog is not served.  *)
Session(c) ==
  CASE cl[c] \in {"greet", "top", "reading"} ->
         [at |-> "idle", port |-> via[c].port]
    [] cl[c] \in {"read", "fetched"} ->
         [at |-> "asking", port |-> via[c].port, floor |-> since[c]]
    [] cl[c] \in {"judge", "trip"} ->
         [at |-> "judged", port |-> via[c].port, by |-> pol[c], host |-> mdc[c].host]
    [] OTHER -> Nil

sessions == [c \in Clients |-> Session(c)]

Abstract == INSTANCE RoutingSpec WITH applied <- committed, session <- sessions

(* Reconfiguration is invisible (proxy.go:274): although the lookup takes two *)
(* locks and the configurator rewrites route objects in use, each message is *)
(* judged and routed as if by one configuration at one instant.              *)
ImplementsRoutingSpec == Abstract!Spec
=============================================================================
