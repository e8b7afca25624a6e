----------------------------- MODULE ProxyProofs -----------------------------
(***************************************************************************)
(* Proofs about Proxy, for any hosts, ports, clients and configurations, and *)
(* any number of reconfigurations.                                          *)
(***************************************************************************)
EXTENDS ProxyInv, TLAPS

Inv == ProxyInvariant

-----------------------------------------------------------------------------
(* Facts about the state functions.                                          *)

(* ConnFor yields a connection to the host it is asked for.                   *)
LEMMA ConnForType ==
  ASSUME TypeOK, GenConns, current > 0, NEW h \in Hosts
  PROVE  ConnFor(h) \in Conns /\ ConnFor(h).host = h /\ ConnFor(h) # Nil
BY NilAssumption, MaxVersionAssumption DEF TypeOK, GenConns, ConnFor, Conns, Versions

(* A configured target's port is a port.                                      *)
LEMMA PortType ==
  ASSUME TypeOK, current > 0, NEW h \in Hosts, Target(current, h)
  PROVE  PortOf(h) \in Ports /\ NewListener(h) \in Listeners /\ NewListener(h) # Nil
BY NilAssumption, MaxVersionAssumption
   DEF TypeOK, Target, PortOf, NewListener, Listeners, Versions

-----------------------------------------------------------------------------
(* The initial states.                                                       *)
LEMMA InitInv == Init => Inv
<1> SUFFICES ASSUME Init PROVE Inv
  OBVIOUS
<1>1. TypeOK
  <2>1. /\ version \in 0..MaxVersion /\ current \in 0..MaxVersion
        /\ committed \in 0..MaxVersion
        /\ routePol \in [Listeners -> 0..MaxVersion]
        /\ pol \in [Clients -> 0..MaxVersion] /\ since \in [Clients -> 0..MaxVersion]
    BY MaxVersionAssumption DEF Init
  <2>2. config \in [Versions -> [Hosts -> Ports \union {Nil}]]
    BY DEF Init, NoConfig
  <2> QED
    BY <2>1, <2>2 DEF Init, TypeOK
<1>2. VersionsInOrder /\ GenConns
  BY DEF Init, VersionsInOrder, GenConns
<1>3. GenListeners
  BY NilAssumption DEF Init, GenListeners, Listeners
<1>4. NextGen /\ RouteObjects
  BY DEF Init, NextGen, RouteObjects
<1>5. Handlers /\ OneQueue
  BY DEF Init, Handlers, Judging, OneQueue
<1>6. CleanSoFar /\ OneConn
  BY DEF Init, CleanSoFar, OneConn
<1> QED
  BY <1>1, <1>2, <1>3, <1>4, <1>5, <1>6 DEF Inv, ProxyInvariant

-----------------------------------------------------------------------------
(* Publish and Stop.                                                         *)
LEMMA PublishInv == Inv /\ Publish => Inv'
<1> SUFFICES ASSUME Inv, Publish PROVE Inv'
  OBVIOUS
<1> USE DEF Publish, cfgVars, nextVars, muVars, routeVars, clVars
<1>0. /\ TypeOK /\ VersionsInOrder /\ GenConns /\ GenListeners /\ NextGen
      /\ RouteObjects /\ Handlers /\ CleanSoFar /\ OneConn /\ OneQueue
  BY DEF Inv, ProxyInvariant
<1>1. TypeOK'
  BY <1>0, ConfigsAssumption, MaxVersionAssumption DEF TypeOK, Versions
<1>2. /\ \A v \in 0..version : v > 0 => config'[v] = config[v]
      /\ current \in 0..version /\ committed \in 0..version
      /\ \A v \in 1..current : v \in 1..version
  BY <1>0, MaxVersionAssumption DEF TypeOK, VersionsInOrder, Versions
<1>3. VersionsInOrder'
  BY <1>0, <1>2, MaxVersionAssumption DEF TypeOK, VersionsInOrder
<1>4. GenConns' /\ GenListeners'
  BY <1>0, <1>2 DEF GenConns, GenListeners, Target
<1>5. \A h \in Hosts : current > 0 => (Target(current, h)' <=> Target(current, h))
                                      /\ (ConnFor(h))' = ConnFor(h)
  BY <1>2 DEF Target, ConnFor
<1>6. NextGen'
  BY <1>0, <1>2, <1>5 DEF NextGen, Done, ConnFor, Target, TypeOK, Conns
<1>7. RouteObjects'
  <2>1. \A l \in Listeners : routePol[l] > 0 => config'[routePol[l]] = config[routePol[l]]
    BY <1>0, <1>2 DEF RouteObjects, TypeOK
  <2>2. UNCHANGED <<current, committed, routes, routeVars>>
    OBVIOUS
  <2> HIDE DEF Publish
  <2> QED
    BY <1>0, <2>1, <2>2 DEF RouteObjects
<1>8. Handlers'
  <2>1. \A c \in Clients : pol[c] > 0 => config'[pol[c]] = config[pol[c]]
    BY <1>0, <1>2 DEF Handlers, TypeOK
  <2>2. UNCHANGED <<current, committed, routePol, clVars>>
    OBVIOUS
  <2> HIDE DEF Publish
  <2> QED
    BY <1>0, <2>1, <2>2 DEF Handlers, Judging
<1>9. CleanSoFar'
  <2>1. PICK f \in Configs : /\ config' = [config EXCEPT ![version + 1] = f]
                            /\ clean' = (clean /\ Disjoint(f))
    OBVIOUS
  <2>2. ASSUME clean', NEW v \in 1..version' PROVE Disjoint(config'[v])
    <3>1. CASE v = version + 1
      <4>1. config'[v] = f
        BY <1>0, <2>1, <3>1, MaxVersionAssumption DEF TypeOK, Versions
      <4> QED
        BY <2>1, <2>2, <4>1
    <3>2. CASE v # version + 1
      <4>1. v \in 1..version /\ config'[v] = config[v]
        BY <1>0, <1>2, <3>2, MaxVersionAssumption DEF TypeOK
      <4> QED
        BY <1>0, <2>1, <2>2, <4>1 DEF CleanSoFar
    <3> QED
      BY <3>1, <3>2
  <2>3. UNCHANGED <<cpc, current, committed, open, routes, nextRoutes>>
    OBVIOUS
  <2> HIDE DEF Publish
  <2> QED
    BY <1>0, <2>1, <2>2, <2>3 DEF CleanSoFar
<1>10. \A h : Always(h)' <=> Always(h)
  BY <1>2 DEF Always, Target
<1>11. OneConn'
  BY <1>0, <1>10 DEF OneConn, ConnFor
<1>12. OneQueue'
  <2>0. clean' => clean
    OBVIOUS
  <2>1. /\ UNCHANGED <<current, conns, clVars>>
        /\ \A v \in 1..current : config'[v] = config[v]
    BY <1>2
  <2> HIDE DEF Publish
  <2>2. SUFFICES ASSUME clean', NEW c \in Clients, (cl[c] \in {"judge", "trip"})',
                        (\A v \in 1..current : config[v][mdc[c].host] # Nil)'
                 PROVE  (mdc[c] = conns[mdc[c].host])'
    BY DEF OneQueue
  <2>3. \A v \in 1..current : config[v][mdc[c].host] # Nil
    BY <2>1, <2>2
  <2>4. clean /\ cl[c] \in {"judge", "trip"}
    BY <2>0, <2>1, <2>2
  <2>5. mdc[c] = conns[mdc[c].host]
    BY <1>0, <2>3, <2>4 DEF OneQueue
  <2> QED
    BY <2>1, <2>5
<1> QED
  BY <1>1, <1>3, <1>4, <1>6, <1>7, <1>8, <1>9, <1>11, <1>12 DEF Inv, ProxyInvariant

LEMMA StopInv == Inv /\ Stop => Inv'
<1> SUFFICES ASSUME Inv, Stop PROVE Inv'
  OBVIOUS
<1> USE DEF Stop, cfgVars, nextVars, muVars, routeVars, clVars
<1>1. TypeOK'
  BY DEF Inv, ProxyInvariant, TypeOK
<1>2. (VersionsInOrder /\ GenConns /\ GenListeners /\ NextGen /\ RouteObjects)'
  BY DEF Inv, ProxyInvariant, VersionsInOrder, GenConns, GenListeners, NextGen,
         RouteObjects, Target, Done, ConnFor
<1>3. (Handlers /\ CleanSoFar /\ OneConn /\ OneQueue)'
  BY DEF Inv, ProxyInvariant, Handlers, Judging, CleanSoFar, OneConn, OneQueue,
         Always, Target, ConnFor
<1> QED
  BY <1>1, <1>2, <1>3 DEF Inv, ProxyInvariant

-----------------------------------------------------------------------------
(* The configurator begins.                                                  *)
LEMMA BeginInv == Inv /\ Begin => Inv'
<1> SUFFICES ASSUME Inv, Begin PROVE Inv'
  OBVIOUS
<1>0. /\ TypeOK /\ VersionsInOrder /\ GenConns /\ GenListeners /\ NextGen
      /\ RouteObjects /\ Handlers /\ CleanSoFar /\ OneConn /\ OneQueue
  BY DEF Inv, ProxyInvariant
<1>1. /\ UNCHANGED <<version, config, stopping, clean, committed, conns, listeners,
                     routes, routeMdc, routePol, open, cl, via, mdc, pol, since>>
      /\ cpc = "wait" /\ cpc' = "apply"
      /\ current < version /\ current' = version
      /\ todo' = {h \in Hosts : Target(version, h)}
      /\ nextConns' = [h \in Hosts |-> Nil]
      /\ nextListeners' = [p \in Ports |-> Nil] /\ nextRoutes' = {}
  BY DEF Begin, Changed, cfgVars, muVars, routeVars, clVars, Target
<1> HIDE DEF Begin
<1>2. /\ version \in 0..MaxVersion /\ current \in 0..MaxVersion /\ committed \in 0..MaxVersion
      /\ current' > 0
      /\ \A v \in 1..current : v \in 1..current'
  BY <1>0, <1>1, MaxVersionAssumption DEF TypeOK
<1>3. TypeOK'
  BY <1>0, <1>1 DEF TypeOK
<1>4. VersionsInOrder'
  BY <1>0, <1>1, <1>2, MaxVersionAssumption DEF VersionsInOrder
<1>5. GenConns' /\ GenListeners'
  BY <1>0, <1>1 DEF GenConns, GenListeners, Target
<1>6. NextGen'
  <2>1. \A h \in Hosts : ~Done(h)'
    BY <1>1 DEF Done, Target
  <2>2. \A h \in todo' : Target(current, h)'
    BY <1>1 DEF Target
  <2>3. \A l \in Listeners : l.port \in Ports /\ l # Nil
    BY NilAssumption DEF Listeners
  <2> QED
    BY <1>1, <1>2, <2>1, <2>2, <2>3 DEF NextGen
<1>7. RouteObjects'
  BY <1>0, <1>1, <1>2, MaxVersionAssumption DEF RouteObjects, TypeOK
<1>8. Handlers'
  BY <1>0, <1>1, <1>2, MaxVersionAssumption DEF Handlers, Judging, TypeOK
<1>9. CleanSoFar'
  BY <1>0, <1>1 DEF CleanSoFar
<1>10. \A h : Always(h)' => Always(h)
  BY <1>1, <1>2 DEF Always, Target
<1>11. OneConn'
  <2> SUFFICES ASSUME clean', NEW l \in Listeners, (routePol[l] > 0)',
                      Always(routeMdc[l].host)'
               PROVE  (routeMdc[l] = ConnFor(routeMdc[l].host))'
    BY DEF OneConn
  <2>1. clean /\ routePol[l] > 0 /\ Always(routeMdc[l].host)
    BY <1>1, <1>10
  <2>2. routeMdc[l] = ConnFor(routeMdc[l].host)
    BY <1>0, <2>1 DEF OneConn
  <2>3. current = committed /\ committed > 0 /\ routeMdc[l].host \in Hosts
    BY <1>0, <1>1, <1>2, <2>1 DEF CleanSoFar, RouteObjects, TypeOK, Conns
  <2>4. Target(committed, routeMdc[l].host)
    BY <1>2, <2>1, <2>3 DEF Always
  <2>5. conns[routeMdc[l].host] # Nil
    BY <1>0, <2>3, <2>4 DEF GenConns
  <2> QED
    BY <1>1, <2>2, <2>5 DEF ConnFor
<1>12. OneQueue'
  BY <1>0, <1>1, <1>2 DEF OneQueue
<1> QED
  BY <1>3, <1>4, <1>5, <1>6, <1>7, <1>8, <1>9, <1>11, <1>12 DEF Inv, ProxyInvariant

-----------------------------------------------------------------------------
(* One target is applied: what ApplyKept and ApplyNew have in common.        *)
LEMMA RouteInv ==
  ASSUME Inv, cpc = "apply", NEW h \in todo, NEW l \in Listeners,
         Route(h, l), l.port = PortOf(h),
         listeners[PortOf(h)] # Nil => l = listeners[PortOf(h)],
         open' = open \union {l},
         nextListeners[PortOf(h)] # Nil => l = nextListeners[PortOf(h)]
  PROVE  Inv'
<1>0. /\ TypeOK /\ VersionsInOrder /\ GenConns /\ GenListeners /\ NextGen
      /\ RouteObjects /\ Handlers /\ CleanSoFar /\ OneConn /\ OneQueue
  BY DEF Inv, ProxyInvariant
<1>1. /\ UNCHANGED <<version, config, stopping, clean, cpc, current, committed, conns,
                     listeners, routes, cl, via, mdc, pol, since>>
      /\ nextConns' = [nextConns EXCEPT ![h] = ConnFor(h)]
      /\ nextListeners' = [nextListeners EXCEPT ![PortOf(h)] = l]
      /\ nextRoutes' = nextRoutes \union {l}
      /\ routeMdc' = [routeMdc EXCEPT ![l] = ConnFor(h)]
      /\ routePol' = [routePol EXCEPT ![l] = current]
      /\ todo' = todo \ {h}
  BY DEF Route, cfgVars, muVars, clVars, NextConn, PoliciesFor
<1>2. /\ h \in Hosts /\ current > 0 /\ current \in 1..MaxVersion
      /\ Target(current, h) /\ PortOf(h) \in Ports
      /\ ConnFor(h) \in Conns /\ ConnFor(h).host = h /\ ConnFor(h) # Nil
  <2>1. h \in Hosts /\ current > 0 /\ Target(current, h)
    BY <1>0 DEF NextGen, TypeOK
  <2> QED
    BY <1>0, <2>1, ConnForType, PortType, MaxVersionAssumption DEF TypeOK
<1>3. TypeOK'
  BY <1>0, <1>1, <1>2, MaxVersionAssumption DEF TypeOK
<1>4. VersionsInOrder' /\ GenConns'
  BY <1>0, <1>1 DEF VersionsInOrder, GenConns, Target
<1>5. GenListeners'
  BY <1>0, <1>1 DEF GenListeners
<1>6. /\ \A g : ConnFor(g)' = ConnFor(g)
      /\ \A g : Target(current, g)' <=> Target(current, g)
      /\ \A g : Done(g)' <=> Done(g) \/ g = h
  BY <1>0, <1>1, <1>2 DEF ConnFor, Target, Done, TypeOK
<1>7. NextGen'
  <2>1. current' > 0 /\ \A g \in todo' : Target(current, g)'
    BY <1>0, <1>1, <1>2, <1>6 DEF NextGen
  <2>2. \A g \in Hosts : (nextConns[g] = IF Done(g) THEN ConnFor(g) ELSE Nil)'
    BY <1>0, <1>1, <1>2, <1>6 DEF NextGen, TypeOK
  <2>3. ASSUME NEW p \in Ports
        PROVE  /\ (nextListeners[p] # Nil)' <=>
                     \E g \in Hosts : Done(g)' /\ config[current][g] = p
               /\ (nextListeners[p] # Nil)' =>
                    /\ nextListeners'[p].port = p /\ nextListeners'[p] \in open'
                    /\ listeners[p] # Nil => nextListeners'[p] = listeners[p]
    <3>1. CASE p = PortOf(h)
      <4>1. nextListeners'[p] = l /\ l # Nil
        BY <1>0, <1>1, <3>1, NilAssumption DEF TypeOK
      <4>2. Done(h)' /\ config[current][h] = p
        BY <1>6, <3>1 DEF PortOf
      <4> QED
        BY <1>1, <1>2, <3>1, <4>1, <4>2
    <3>2. CASE p # PortOf(h)
      <4>1. nextListeners'[p] = nextListeners[p]
        BY <1>0, <1>1, <3>2 DEF TypeOK
      <4>2. \A g \in Hosts : config[current][g] = p => (Done(g)' <=> Done(g))
        BY <1>6, <3>2 DEF PortOf
      <4> QED
        BY <1>0, <4>1, <4>2 DEF NextGen
    <3> QED
      BY <3>1, <3>2
  <2>4. \A k \in Listeners : (k \in nextRoutes <=> nextListeners[k.port] = k)'
    <3> SUFFICES ASSUME NEW k \in Listeners
                 PROVE  k \in nextRoutes' <=> nextListeners'[k.port] = k
      OBVIOUS
    <3>0. k.port \in Ports
      BY DEF Listeners
    <3>1. k \in nextRoutes <=> nextListeners[k.port] = k
      BY <1>0 DEF NextGen
    <3>2. k # Nil
      BY NilAssumption
    <3>3. CASE k.port = PortOf(h)
      <4>1. nextListeners'[k.port] = l
        BY <1>0, <1>1, <3>0, <3>3 DEF TypeOK
      <4> QED
        BY <1>1, <3>1, <3>2, <3>3, <4>1
    <3>4. CASE k.port # PortOf(h)
      BY <1>0, <1>1, <3>0, <3>1, <3>4 DEF TypeOK
    <3> QED
      BY <3>3, <3>4
  <2>5. ASSUME NEW k \in nextRoutes'
        PROVE  (/\ routePol[k] = current
                /\ Done(routeMdc[k].host)
                /\ routeMdc[k] = ConnFor(routeMdc[k].host))'
    <3>0. k \in Listeners
      BY <1>3 DEF TypeOK
    <3>1. CASE k = l
      <4>1. routePol'[k] = current /\ routeMdc'[k] = ConnFor(h)
        BY <1>0, <1>1, <3>1 DEF TypeOK
      <4> QED
        BY <1>1, <1>2, <1>6, <4>1
    <3>2. CASE k # l
      <4>1. k \in nextRoutes /\ routePol'[k] = routePol[k] /\ routeMdc'[k] = routeMdc[k]
        BY <1>0, <1>1, <3>0, <3>2 DEF TypeOK
      <4>2. /\ routePol[k] = current /\ Done(routeMdc[k].host)
            /\ routeMdc[k] = ConnFor(routeMdc[k].host)
        BY <1>0, <4>1 DEF NextGen
      <4> QED
        BY <1>1, <1>6, <4>1, <4>2
    <3> QED
      BY <3>1, <3>2
  <2> QED
    BY <1>1, <1>6, <2>1, <2>2, <2>3, <2>4, <2>5 DEF NextGen
<1>8. RouteObjects'
  <2> SUFFICES ASSUME NEW k \in Listeners
               PROVE  /\ routePol'[k] <= current
                      /\ routePol'[k] > 0 =>
                           routeMdc'[k] \in Conns /\ config[routePol'[k]][routeMdc'[k].host] = k.port
                      /\ k \in routes => routePol'[k] > 0 /\ routePol'[k] >= committed
    BY <1>1 DEF RouteObjects
  <2>1. CASE k = l
    <3>1. routePol'[k] = current /\ routeMdc'[k] = ConnFor(h)
      BY <1>0, <1>1, <2>1 DEF TypeOK
    <3>2. committed <= current /\ config[current][h] = k.port
      BY <1>0, <2>1 DEF VersionsInOrder, PortOf
    <3> QED
      BY <1>2, <3>1, <3>2, MaxVersionAssumption
  <2>2. CASE k # l
    BY <1>0, <1>1, <2>2 DEF RouteObjects, TypeOK
  <2> QED
    BY <2>1, <2>2
<1>9. Handlers'
  <2>1. \A k \in Listeners : routePol'[k] >= routePol[k] /\ routePol[k] \in Nat
    BY <1>0, <1>1, <1>2, MaxVersionAssumption DEF RouteObjects, TypeOK
  <2> SUFFICES ASSUME NEW c \in Clients, cl[c] = "fetched"
               PROVE  routePol'[via[c]] > 0 /\ routePol'[via[c]] >= since[c]
    BY <1>0, <1>1 DEF Handlers, Judging
  <2>2. via[c] \in Listeners /\ routePol[via[c]] > 0 /\ routePol[via[c]] >= since[c]
    BY <1>0 DEF Handlers
  <2>3. routePol'[via[c]] \in Nat /\ since[c] \in Nat
    BY <1>0, <1>3, <2>2, MaxVersionAssumption DEF TypeOK
  <2> QED
    BY <2>1, <2>2, <2>3
<1>10. CleanSoFar'
  BY <1>0, <1>1 DEF CleanSoFar
<1>11. OneConn'
  <2> SUFFICES ASSUME clean, NEW k \in Listeners, routePol'[k] > 0,
                      Always(routeMdc'[k].host)
               PROVE  routeMdc'[k] = ConnFor(routeMdc'[k].host)
    BY <1>1, <1>6 DEF OneConn, Always, Target
  <2>1. CASE k = l
    BY <1>0, <1>1, <1>2, <2>1 DEF TypeOK
  <2>2. CASE k # l
    BY <1>0, <1>1, <2>2 DEF OneConn, TypeOK
  <2> QED
    BY <2>1, <2>2
<1>12. OneQueue'
  BY <1>0, <1>1 DEF OneQueue
<1> QED
  BY <1>3, <1>4, <1>5, <1>7, <1>8, <1>9, <1>10, <1>11, <1>12 DEF Inv, ProxyInvariant

LEMMA ApplyKeptInv == ASSUME Inv, NEW h \in Hosts, ApplyKept(h) PROVE Inv'
<1> DEFINE l == listeners[PortOf(h)]
<1>0. TypeOK /\ GenListeners /\ NextGen
  BY DEF Inv, ProxyInvariant
<1>1. /\ cpc = "apply" /\ h \in todo /\ l # Nil /\ open' = open /\ Route(h, l)
  BY DEF ApplyKept
<1>2. PortOf(h) \in Ports
  BY <1>0, <1>1, PortType DEF NextGen
<1>3. l \in Listeners /\ l.port = PortOf(h) /\ l \in open
  BY <1>0, <1>1, <1>2 DEF GenListeners, TypeOK
<1>4. nextListeners[PortOf(h)] # Nil => l = nextListeners[PortOf(h)]
  BY <1>0, <1>1, <1>2 DEF NextGen
<1>5. open' = open \union {l}
  BY <1>1, <1>3
<1> HIDE DEF l
<1> QED
  BY <1>1, <1>3, <1>4, <1>5, RouteInv DEF l

LEMMA ApplyNewInv == ASSUME Inv, NEW h \in Hosts, ApplyNew(h) PROVE Inv'
<1> DEFINE l == NewListener(h)
<1>0. TypeOK /\ GenListeners /\ NextGen
  BY DEF Inv, ProxyInvariant
<1>1. /\ cpc = "apply" /\ h \in todo /\ listeners[PortOf(h)] = Nil
      /\ \A k \in open : k.port # PortOf(h)
      /\ open' = open \union {l} /\ Route(h, l)
  BY DEF ApplyNew
<1>2. PortOf(h) \in Ports /\ l \in Listeners /\ l.port = PortOf(h)
  BY <1>0, <1>1, PortType DEF NextGen, NewListener
<1>3. nextListeners[PortOf(h)] = Nil
  BY <1>0, <1>1, <1>2 DEF NextGen
<1> HIDE DEF l
<1> QED
  BY <1>1, <1>2, <1>3, RouteInv

-----------------------------------------------------------------------------
(* A reconfiguration stops half way.                                         *)
LEMMA AbortInv ==
  ASSUME Inv, NEW h \in Hosts, Abort(h), clean' \in BOOLEAN, ~clean'
  PROVE  Inv'
<1>0. /\ TypeOK /\ VersionsInOrder /\ GenConns /\ GenListeners
      /\ RouteObjects /\ Handlers
  BY DEF Inv, ProxyInvariant
<1>1. /\ UNCHANGED <<version, config, stopping, current, nextConns, nextListeners,
                     nextRoutes, committed, conns, listeners, routes, routeMdc,
                     routePol, open, cl, via, mdc, pol, since>>
      /\ cpc = "apply" /\ cpc' = "wait" /\ todo' = {}
  BY DEF Abort, cfgVars, muVars, routeVars, clVars
<1>2. TypeOK'
  BY <1>0, <1>1 DEF TypeOK
<1>3. VersionsInOrder' /\ GenConns' /\ GenListeners' /\ NextGen'
  BY <1>0, <1>1 DEF VersionsInOrder, GenConns, GenListeners, NextGen, Target
<1>4. RouteObjects' /\ Handlers'
  BY <1>0, <1>1 DEF RouteObjects, Handlers, Judging
<1>5. CleanSoFar' /\ OneConn' /\ OneQueue'
  BY DEF CleanSoFar, OneConn, OneQueue
<1> QED
  BY <1>2, <1>3, <1>4, <1>5 DEF Inv, ProxyInvariant

(* A clean configuration finds no listener of the proxy's own in its way.    *)
LEMMA AbortOwnInv == ASSUME Inv, NEW h \in Hosts, AbortOwn(h) PROVE Inv'
<1>0. TypeOK /\ VersionsInOrder /\ GenListeners /\ NextGen /\ CleanSoFar
  BY DEF Inv, ProxyInvariant
<1>1. /\ Abort(h) /\ clean' = clean
      /\ cpc = "apply" /\ h \in todo /\ listeners[PortOf(h)] = Nil
  BY DEF AbortOwn, Abort
<1>2. ASSUME clean PROVE FALSE
  <2>1. PICK l \in open : l.port = PortOf(h)
    BY DEF AbortOwn
  <2>2. l \in Listeners /\ l # Nil /\ PortOf(h) \in Ports /\ Target(current, h)
    BY <1>0, <1>1, <2>1, PortType, NilAssumption DEF TypeOK, NextGen
  <2>3. l \notin routes
    BY <1>0, <1>1, <2>1, <2>2 DEF GenListeners
  <2>4. l \in nextRoutes
    BY <1>0, <1>1, <1>2, <2>3 DEF CleanSoFar
  <2>5. nextListeners[PortOf(h)] # Nil
    BY <1>0, <1>1, <2>1, <2>2, <2>4 DEF NextGen
  <2>6. PICK g \in Hosts : Done(g) /\ config[current][g] = PortOf(h)
    BY <1>0, <1>1, <2>2, <2>5 DEF NextGen
  <2>7. g # h /\ config[current][g] # Nil
    BY <1>1, <2>6 DEF Done, Target
  <2>8. Disjoint(config[current])
    BY <1>0, <1>1, <1>2, MaxVersionAssumption DEF CleanSoFar, VersionsInOrder, NextGen, TypeOK
  <2> QED
    BY <2>6, <2>7, <2>8 DEF Disjoint, PortOf
<1>3. ~clean' /\ clean' \in BOOLEAN
  BY <1>0, <1>1, <1>2 DEF TypeOK
<1> QED
  BY <1>1, <1>3, AbortInv

LEMMA AbortForeignInv == ASSUME Inv, NEW h \in Hosts, AbortForeign(h) PROVE Inv'
BY AbortInv DEF AbortForeign

-----------------------------------------------------------------------------
(* The new generation is put in place.                                       *)
LEMMA CommitInv == Inv /\ Commit => Inv'
<1> SUFFICES ASSUME Inv, Commit PROVE Inv'
  OBVIOUS
<1>0. /\ TypeOK /\ VersionsInOrder /\ GenConns /\ GenListeners /\ NextGen
      /\ RouteObjects /\ Handlers /\ CleanSoFar /\ OneConn /\ OneQueue
  BY DEF Inv, ProxyInvariant
<1>1. /\ UNCHANGED <<version, config, stopping, clean, current, nextVars, routeMdc,
                     routePol, via, mdc, pol, since>>
      /\ cpc = "apply" /\ cpc' = "wait" /\ todo = {}
      /\ conns' = nextConns /\ listeners' = nextListeners /\ routes' = nextRoutes
      /\ committed' = current
      /\ open' = open \ Unreferenced
      /\ cl' = [c \in Clients |->
                  IF cl[c] = "queued" /\ via[c] \in Unreferenced THEN "closed" ELSE cl[c]]
  BY DEF Commit, CloseListeners, cfgVars, routeVars
<1>2. \A h : Done(h) <=> Target(current, h)
  BY <1>1 DEF Done
<1>3. current > 0 /\ current \in 1..MaxVersion /\ committed <= current
      /\ committed \in 0..MaxVersion
  BY <1>0, <1>1, MaxVersionAssumption DEF NextGen, TypeOK, VersionsInOrder
<1>4. \A h \in Hosts : ConnFor(h) # Nil /\ ConnFor(h).host = h
  BY <1>0, <1>3, ConnForType
<1>5. \A p \in Ports : nextListeners[p] # Nil => nextListeners[p] \notin Unreferenced
  BY <1>0, <1>1 DEF Unreferenced, NextGen, GenListeners
<1>6. TypeOK'
  <2>1. cl' \in [Clients -> {"none", "queued", "greet", "top", "reading", "read",
                              "fetched", "judge", "trip", "closed", "leaked"}]
    BY <1>0, <1>1 DEF TypeOK
  <2>2. \A c \in Clients : cl'[c] \in {"judge", "trip"} => mdc'[c] \in Conns
    BY <1>0, <1>1 DEF TypeOK
  <2> QED
    BY <1>0, <1>1, <2>1, <2>2 DEF TypeOK, nextVars
<1>7. VersionsInOrder' /\ NextGen'
  BY <1>0, <1>1, <1>3, MaxVersionAssumption DEF VersionsInOrder, NextGen, TypeOK
<1>8. GenConns'
  BY <1>0, <1>1, <1>2, <1>3, <1>4 DEF GenConns, NextGen, Target
<1>9. GenListeners'
  <2>1. \A p \in Ports : listeners'[p] # Nil <=> \E h \in Hosts : config[current][h] = p
    BY <1>0, <1>1, <1>2, NilAssumption DEF NextGen, Target
  <2>2. \A p \in Ports : listeners'[p] # Nil =>
          listeners'[p].port = p /\ listeners'[p] \in open'
    BY <1>0, <1>1, <1>5 DEF NextGen
  <2>3. \A l \in Listeners : l \in routes' <=> listeners'[l.port] = l
    BY <1>0, <1>1 DEF NextGen
  <2> QED
    BY <1>1, <1>3, <2>1, <2>2, <2>3 DEF GenListeners
<1>10. RouteObjects'
  BY <1>0, <1>1, <1>3 DEF RouteObjects, NextGen, TypeOK
<1>11. Handlers'
  <2>1. \A c \in Clients : since[c] <= current
    BY <1>0, <1>3, MaxVersionAssumption DEF Handlers, TypeOK
  <2>2. \A c \in Clients : /\ cl'[c] # "none" => cl[c] # "none"
                           /\ cl'[c] = "fetched" => cl[c] = "fetched"
                           /\ cl'[c] \in {"judge", "trip"} => cl[c] \in {"judge", "trip"}
    BY <1>1
  <2> QED
    BY <1>0, <1>1, <1>3, <2>1, <2>2 DEF Handlers, Judging
<1>12. CleanSoFar'
  <2>1. ASSUME clean, NEW l \in open' PROVE l \in routes'
    <3>1. l \in Listeners /\ l.port \in Ports /\ l \notin Unreferenced
      BY <1>0, <1>1, <2>1 DEF TypeOK, Listeners
    <3>2. l \in routes \/ l \in nextRoutes
      BY <1>0, <1>1, <2>1 DEF CleanSoFar
    <3>3. CASE l \in routes
      <4>1. listeners[l.port] = l /\ l # Nil
        BY <1>0, <3>1, <3>3, NilAssumption DEF GenListeners
      <4>2. nextListeners[l.port] # Nil
        BY <3>1, <4>1 DEF Unreferenced
      <4> QED
        BY <1>0, <1>1, <3>1, <4>1, <4>2 DEF NextGen
    <3> QED
      BY <1>1, <3>2, <3>3
  <2> QED
    BY <1>0, <1>1, <2>1 DEF CleanSoFar
<1>13. ASSUME NEW h \in Hosts, Always(h)
       PROVE  ConnFor(h)' = ConnFor(h) /\ conns'[h] = ConnFor(h)
  <2>1. Target(current, h)
    BY <1>3, <1>13 DEF Always
  <2>2. nextConns[h] = ConnFor(h)
    BY <1>0, <1>1, <1>2, <2>1 DEF NextGen
  <2> QED
    BY <1>1, <1>4, <2>2 DEF ConnFor
<1>14. OneConn'
  <2> SUFFICES ASSUME clean, NEW l \in Listeners, routePol[l] > 0,
                      Always(routeMdc[l].host)
               PROVE  routeMdc[l] = ConnFor(routeMdc[l].host)'
    BY <1>1 DEF OneConn, Always, Target
  <2>1. routeMdc[l].host \in Hosts
    BY <1>0 DEF RouteObjects, Conns
  <2> QED
    BY <1>0, <1>1, <1>13, <2>1 DEF OneConn
<1>15. OneQueue'
  <2> SUFFICES ASSUME clean, NEW c \in Clients, cl'[c] \in {"judge", "trip"},
                      \A v \in 1..current : config[v][mdc[c].host] # Nil
               PROVE  mdc[c] = conns'[mdc[c].host]
    BY <1>1 DEF OneQueue
  <2>1. cl[c] \in {"judge", "trip"}
    BY <1>1
  <2>2. mdc[c] \in Conns /\ mdc[c].host \in Hosts /\ mdc[c] # Nil
    BY <1>0, <2>1, NilAssumption DEF TypeOK, Conns
  <2>3. mdc[c] = conns[mdc[c].host]
    BY <1>0, <2>1 DEF OneQueue
  <2>4. Always(mdc[c].host)
    BY DEF Always, Target
  <2> QED
    BY <1>13, <2>2, <2>3, <2>4 DEF ConnFor
<1> QED
  BY <1>6, <1>7, <1>8, <1>9, <1>10, <1>11, <1>12, <1>14, <1>15 DEF Inv, ProxyInvariant

(* The configurator ends.                                                    *)
LEMMA ShutdownInv == Inv /\ Shutdown => Inv'
<1> SUFFICES ASSUME Inv, Shutdown PROVE Inv'
  OBVIOUS
<1>0. /\ TypeOK /\ VersionsInOrder /\ GenConns /\ GenListeners /\ NextGen
      /\ RouteObjects /\ Handlers /\ CleanSoFar /\ OneConn /\ OneQueue
  BY DEF Inv, ProxyInvariant
<1>1. /\ UNCHANGED <<version, config, stopping, clean, current, todo, nextConns,
                     nextListeners, nextRoutes, committed, conns, listeners, routes,
                     routeMdc, routePol, via, mdc, pol, since>>
      /\ cpc' = "stopped" /\ open' = open \ Known
      /\ cl' = [c \in Clients |->
                  IF cl[c] = "queued" /\ via[c] \in Known THEN "closed" ELSE cl[c]]
  BY DEF Shutdown, CloseListeners, cfgVars, nextVars, muVars, routeVars
<1>2. \A c \in Clients : /\ cl'[c] # "none" => cl[c] # "none"
                         /\ cl'[c] = "fetched" => cl[c] = "fetched"
                         /\ cl'[c] \in {"judge", "trip"} => cl[c] \in {"judge", "trip"}
  BY <1>1
<1>3. TypeOK'
  <2>1. cl' \in [Clients -> {"none", "queued", "greet", "top", "reading", "read",
                              "fetched", "judge", "trip", "closed", "leaked"}]
    BY <1>0, <1>1 DEF TypeOK
  <2> QED
    BY <1>0, <1>1, <1>2, <2>1 DEF TypeOK
<1>4. VersionsInOrder' /\ GenConns' /\ GenListeners' /\ NextGen' /\ RouteObjects'
  BY <1>0, <1>1 DEF VersionsInOrder, GenConns, GenListeners, NextGen, RouteObjects, Target
<1>5. Handlers'
  BY <1>0, <1>1, <1>2 DEF Handlers, Judging
<1>6. CleanSoFar' /\ OneConn'
  BY <1>0, <1>1 DEF CleanSoFar, OneConn, Always, Target, ConnFor
<1>7. OneQueue'
  BY <1>0, <1>1, <1>2 DEF OneQueue
<1> QED
  BY <1>3, <1>4, <1>5, <1>6, <1>7 DEF Inv, ProxyInvariant

-----------------------------------------------------------------------------
(* Client connections and their handlers, which write no shared state.       *)
LEMMA SysInv ==
  ASSUME Inv, UNCHANGED sysVars
  PROVE  (/\ VersionsInOrder /\ GenConns /\ GenListeners /\ NextGen /\ RouteObjects
          /\ CleanSoFar /\ OneConn)'
<1>1. UNCHANGED <<version, config, stopping, clean, cpc, current, todo, nextConns,
                  nextListeners, nextRoutes, committed, conns, listeners, routes,
                  routeMdc, routePol, open>>
  BY DEF sysVars, cfgVars, nextVars, muVars, routeVars
<1>2. (VersionsInOrder /\ GenConns /\ GenListeners)'
  BY <1>1 DEF Inv, ProxyInvariant, VersionsInOrder, GenConns, GenListeners, Target
<1>3. NextGen'
  BY <1>1 DEF Inv, ProxyInvariant, NextGen, Target, Done, ConnFor
<1>4. (RouteObjects /\ CleanSoFar /\ OneConn)'
  BY <1>1 DEF Inv, ProxyInvariant, RouteObjects, CleanSoFar, OneConn, Always, Target, ConnFor
<1> QED
  BY <1>2, <1>3, <1>4

Stages == {"none", "queued", "greet", "top", "reading", "read", "fetched", "judge",
           "trip", "closed", "leaked"}

(* A connection moves on without a new lookup.                               *)
LEMMA MoveInv ==
  ASSUME Inv, NEW c \in Clients, NEW to \in Stages \ {"none", "judge"},
         UNCHANGED <<sysVars, via, mdc, pol, since>>,
         cl[c] # "none", cl' = [cl EXCEPT ![c] = to],
         to = "trip" => cl[c] = "judge",
         to = "fetched" => via[c] \in routes
  PROVE  Inv'
<1>0. /\ TypeOK /\ VersionsInOrder /\ RouteObjects /\ Handlers /\ OneQueue
  BY DEF Inv, ProxyInvariant
<1>1. UNCHANGED <<version, config, stopping, clean, cpc, current, todo, nextConns,
                  nextListeners, nextRoutes, committed, conns, listeners, routes,
                  routeMdc, routePol, open, via, mdc, pol, since>>
  BY DEF sysVars, cfgVars, nextVars, muVars, routeVars
<1>2. \A d \in Clients : cl'[d] = IF d = c THEN to ELSE cl[d]
  BY <1>0 DEF TypeOK
<1>3. \A d \in Clients : cl'[d] \in {"judge", "trip"} => cl[d] \in {"judge", "trip"}
  BY <1>2
<1>4. TypeOK'
  <2>1. cl' \in [Clients -> Stages]
    BY <1>0 DEF TypeOK, Stages
  <2> QED
    BY <1>0, <1>1, <1>3, <2>1 DEF TypeOK, Stages
<1>5. Handlers'
  <2> SUFFICES ASSUME NEW d \in Clients
               PROVE  /\ cl'[d] # "none" => via[d] \in Listeners
                      /\ cl'[d] = "fetched" => /\ committed > 0
                                               /\ routePol[via[d]] > 0
                                               /\ routePol[via[d]] >= since[d]
                      /\ cl'[d] \in {"judge", "trip"} =>
                           /\ committed > 0 /\ pol[d] > 0 /\ pol[d] >= since[d]
                           /\ config[pol[d]][mdc[d].host] = via[d].port
    BY <1>0, <1>1 DEF Handlers, Judging
  <2>1. cl'[d] # "none" => cl[d] # "none"
    BY <1>2
  <2>2. CASE d = c /\ to = "fetched"
    <3>1. via[c] \in Listeners /\ via[c] \in routes
      BY <1>0, <2>2 DEF Handlers
    <3>2. routePol[via[c]] > 0 /\ routePol[via[c]] >= committed /\ since[c] <= committed
      BY <1>0, <3>1 DEF RouteObjects, Handlers
    <3>3. committed > 0
      <4>1. via[c] \in routes => committed > 0
        BY <3>1, NilAssumption DEF Inv, ProxyInvariant, GenListeners, Listeners
      <4> QED
        BY <3>1, <4>1
    <3>4. routePol[via[c]] \in Nat /\ committed \in Nat /\ since[c] \in Nat
      BY <1>0, <3>1, MaxVersionAssumption DEF TypeOK
    <3> QED
      BY <1>2, <2>2, <3>1, <3>2, <3>3, <3>4
  <2>3. CASE ~(d = c /\ to = "fetched")
    BY <1>0, <1>2, <1>3, <2>1, <2>3 DEF Handlers, Judging
  <2> QED
    BY <2>2, <2>3
<1>6. OneQueue'
  BY <1>0, <1>1, <1>3 DEF OneQueue
<1> QED
  BY <1>4, <1>5, <1>6, SysInv DEF Inv, ProxyInvariant

(* A client connects.                                                        *)
LEMMA ConnectInv ==
  ASSUME Inv, NEW c \in Clients, NEW l \in Listeners, Connect(c, l) PROVE Inv'
<1>0. /\ TypeOK /\ Handlers /\ OneQueue
  BY DEF Inv, ProxyInvariant
<1>1. UNCHANGED <<version, config, stopping, clean, cpc, current, todo, nextConns,
                  nextListeners, nextRoutes, committed, conns, listeners, routes,
                  routeMdc, routePol, open, mdc, pol, since>>
  BY DEF Connect, sysVars, cfgVars, nextVars, muVars, routeVars
<1>2. /\ \A d \in Clients : cl'[d] = IF d = c THEN "queued" ELSE cl[d]
      /\ \A d \in Clients : via'[d] = IF d = c THEN l ELSE via[d]
      /\ via' \in [Clients -> Listeners \union {Nil}] /\ cl' \in [Clients -> Stages]
  BY <1>0 DEF Connect, TypeOK, Stages
<1>3. TypeOK'
  BY <1>0, <1>1, <1>2 DEF TypeOK, Stages
<1>4. Handlers'
  BY <1>0, <1>1, <1>2 DEF Handlers, Judging
<1>5. OneQueue'
  BY <1>0, <1>1, <1>2 DEF OneQueue
<1>6. UNCHANGED sysVars
  BY DEF Connect
<1> QED
  BY <1>3, <1>4, <1>5, <1>6, SysInv DEF Inv, ProxyInvariant

(* A message is read.                                                        *)
LEMMA ReadInv == ASSUME Inv, NEW c \in Clients, Read(c) PROVE Inv'
<1>0. /\ TypeOK /\ Handlers /\ OneQueue
  BY DEF Inv, ProxyInvariant
<1>1. UNCHANGED <<version, config, stopping, clean, cpc, current, todo, nextConns,
                  nextListeners, nextRoutes, committed, conns, listeners, routes,
                  routeMdc, routePol, open, via, mdc, pol>>
  BY DEF Read, Move, sysVars, cfgVars, nextVars, muVars, routeVars
<1>2. /\ cl[c] = "reading"
      /\ \A d \in Clients : cl'[d] = IF d = c THEN "read" ELSE cl[d]
      /\ \A d \in Clients : since'[d] = IF d = c THEN committed ELSE since[d]
      /\ since' \in [Clients -> 0..MaxVersion] /\ cl' \in [Clients -> Stages]
  BY <1>0 DEF Read, Move, LooksUp, TypeOK, Stages
<1>3. TypeOK'
  BY <1>0, <1>1, <1>2 DEF TypeOK, Stages
<1>4. Handlers'
  BY <1>0, <1>1, <1>2, MaxVersionAssumption DEF Handlers, Judging, TypeOK
<1>5. OneQueue'
  BY <1>0, <1>1, <1>2 DEF OneQueue
<1>6. UNCHANGED sysVars
  BY DEF Read, Move
<1> QED
  BY <1>3, <1>4, <1>5, <1>6, SysInv DEF Inv, ProxyInvariant

(* Backend and policies are looked up.                                       *)
LEMMA GetRouteInv == ASSUME Inv, NEW c \in Clients, GetRoute(c) PROVE Inv'
<1>0. /\ TypeOK /\ VersionsInOrder /\ GenConns /\ RouteObjects /\ Handlers
      /\ OneConn /\ OneQueue
  BY DEF Inv, ProxyInvariant
<1>1. UNCHANGED <<version, config, stopping, clean, cpc, current, todo, nextConns,
                  nextListeners, nextRoutes, committed, conns, listeners, routes,
                  routeMdc, routePol, open, via, since>>
  BY DEF GetRoute, Move, sysVars, cfgVars, nextVars, muVars, routeVars
<1>2. /\ cl[c] = "fetched" /\ via[c] \in Listeners /\ committed > 0
      /\ routePol[via[c]] > 0 /\ routePol[via[c]] >= since[c]
      /\ routePol[via[c]] <= current
      /\ routeMdc[via[c]] \in Conns
      /\ config[routePol[via[c]]][routeMdc[via[c]].host] = via[c].port
  <2>1. cl[c] = "fetched"
    BY DEF GetRoute, Move
  <2>2. via[c] \in Listeners /\ committed > 0
        /\ routePol[via[c]] > 0 /\ routePol[via[c]] >= since[c]
    BY <1>0, <2>1 DEF Handlers
  <2> QED
    BY <1>0, <2>1, <2>2 DEF RouteObjects
<1>3. /\ \A d \in Clients : cl'[d] = IF d = c THEN "judge" ELSE cl[d]
      /\ \A d \in Clients : mdc'[d] = IF d = c THEN routeMdc[via[c]] ELSE mdc[d]
      /\ \A d \in Clients : pol'[d] = IF d = c THEN routePol[via[c]] ELSE pol[d]
      /\ mdc' \in [Clients -> Conns \union {Nil}] /\ pol' \in [Clients -> 0..MaxVersion]
      /\ cl' \in [Clients -> Stages]
  BY <1>0, <1>2 DEF GetRoute, Move, TypeOK, Stages
<1>4. TypeOK'
  BY <1>0, <1>1, <1>2, <1>3 DEF TypeOK, Stages
<1>5. Handlers'
  BY <1>0, <1>1, <1>2, <1>3 DEF Handlers, Judging
<1>6. OneQueue'
  <2> SUFFICES ASSUME clean, NEW d \in Clients, cl'[d] \in {"judge", "trip"},
                      \A v \in 1..current : config[v][mdc'[d].host] # Nil
               PROVE  mdc'[d] = conns[mdc'[d].host]
    BY <1>1 DEF OneQueue
  <2>1. CASE d = c
    <3> DEFINE h == routeMdc[via[c]].host
    <3>1. mdc'[d] = routeMdc[via[c]] /\ h \in Hosts
      BY <1>2, <1>3, <2>1 DEF Conns
    <3>2. Always(h)
      BY <3>1 DEF Always, Target
    <3>3. routeMdc[via[c]] = ConnFor(h)
      BY <1>0, <1>2, <3>2 DEF OneConn
    <3>4. committed \in 1..current
      BY <1>0, <1>2, MaxVersionAssumption DEF VersionsInOrder, TypeOK
    <3>5. conns[h] # Nil
      BY <1>0, <1>2, <3>1, <3>2, <3>4 DEF Always, GenConns
    <3> QED
      BY <3>1, <3>3, <3>5 DEF ConnFor
  <2>2. CASE d # c
    BY <1>0, <1>3, <2>2 DEF OneQueue
  <2> QED
    BY <2>1, <2>2
<1>7. UNCHANGED sysVars
  BY DEF GetRoute, Move
<1> QED
  BY <1>4, <1>5, <1>6, <1>7, SysInv DEF Inv, ProxyInvariant

(* The other steps of a client connection move it on.                        *)
LEMMA ClientInv ==
  ASSUME Inv, NEW c \in Clients,
         Accept(c) \/ Handle(c) \/ \E l \in Listeners : Connect(c, l)
  PROVE  Inv'
<1>1. CASE Accept(c)
  <2>1. PICK to \in {"closed", "leaked", "greet"} : cl' = [cl EXCEPT ![c] = to]
    BY <1>1 DEF Accept
  <2>2. cl[c] # "none" /\ UNCHANGED <<sysVars, via, mdc, pol, since>>
    BY <1>1 DEF Accept
  <2>3. to \in Stages \ {"none", "judge"} /\ to # "trip" /\ to # "fetched"
    BY DEF Stages
  <2> QED
    BY <2>1, <2>2, <2>3, MoveInv
<1>2. CASE \E l \in Listeners : Connect(c, l)
  BY <1>2, ConnectInv
<1>3. CASE Read(c)
  BY <1>3, ReadInv
<1>4. CASE GetRoute(c)
  BY <1>4, GetRouteInv
<1>5. CASE FetchRoute(c)
  <2>1. /\ cl[c] # "none" /\ cl' = [cl EXCEPT ![c] = "fetched"] /\ via[c] \in routes
        /\ UNCHANGED <<sysVars, via, mdc, pol, since>> /\ "fetched" \in Stages \ {"none", "judge"}
    BY <1>5 DEF FetchRoute, Move, Stages
  <2> QED
    BY <2>1, MoveInv
<1>6. CASE Allow(c)
  <2>1. /\ cl[c] = "judge" /\ cl' = [cl EXCEPT ![c] = "trip"]
        /\ UNCHANGED <<sysVars, via, mdc, pol, since>> /\ "trip" \in Stages \ {"none", "judge"}
    BY <1>6 DEF Allow, Move, Stages
  <2> QED
    BY <2>1, MoveInv
<1>7. CASE \/ Greet(c) \/ GreetFails(c) \/ TopStopping(c) \/ TopIdle(c) \/ TopReads(c)
           \/ ReadNothing(c) \/ ReadFails(c) \/ NoRoute(c) \/ NoPolicy(c)
           \/ Deny(c) \/ DenyFails(c) \/ Reply(c) \/ TripFails(c)
  <2>1. PICK to \in {"top", "reading", "closed"} : cl' = [cl EXCEPT ![c] = to]
    BY <1>7 DEF Greet, GreetFails, TopStopping, TopIdle, TopReads, ReadNothing, ReadFails,
                NoRoute, NoPolicy, Deny, DenyFails, Reply, TripFails, End, Move
  <2>2. cl[c] # "none" /\ UNCHANGED <<sysVars, via, mdc, pol, since>>
    BY <1>7 DEF Greet, GreetFails, TopStopping, TopIdle, TopReads, ReadNothing, ReadFails,
                NoRoute, NoPolicy, Deny, DenyFails, Reply, TripFails, End, Move
  <2>3. to \in Stages \ {"none", "judge"} /\ to # "trip" /\ to # "fetched"
    BY DEF Stages
  <2> QED
    BY <2>1, <2>2, <2>3, MoveInv
<1> QED
  BY <1>1, <1>2, <1>3, <1>4, <1>5, <1>6, <1>7 DEF Handle

-----------------------------------------------------------------------------
LEMMA NextInv == Inv /\ [Next]_vars => Inv'
<1> SUFFICES ASSUME Inv, [Next]_vars PROVE Inv'
  OBVIOUS
<1>1. CASE Publish
  BY <1>1, PublishInv
<1>2. CASE Stop
  BY <1>2, StopInv
<1>3. CASE Configure
  BY <1>3, BeginInv, ApplyKeptInv, ApplyNewInv, AbortOwnInv, AbortForeignInv, CommitInv,
     ShutdownInv DEF Configure, Apply
<1>4. CASE \E c \in Clients : Accept(c) \/ Handle(c) \/ \E l \in Listeners : Connect(c, l)
  BY <1>4, ClientInv
<1>5. CASE UNCHANGED vars
  <2>1. UNCHANGED sysVars /\ UNCHANGED <<cl, via, mdc, pol, since>>
    BY <1>5 DEF vars, clVars
  <2>2. UNCHANGED <<version, config, stopping, clean, cpc, current, todo, nextConns,
                    nextListeners, nextRoutes, committed, conns, listeners, routes,
                    routeMdc, routePol, open>>
    BY <2>1 DEF sysVars, cfgVars, nextVars, muVars, routeVars
  <2>3. TypeOK'
    BY <2>1, <2>2 DEF Inv, ProxyInvariant, TypeOK
  <2>4. Handlers' /\ OneQueue'
    BY <2>1, <2>2 DEF Inv, ProxyInvariant, Handlers, Judging, OneQueue
  <2> QED
    BY <2>1, <2>3, <2>4, SysInv DEF Inv, ProxyInvariant
<1> QED
  BY <1>1, <1>2, <1>3, <1>4, <1>5 DEF Next

(* The inductive invariant holds: at every step of a reconfiguration the      *)
(* generation in place, the one being built (proxy.go:98), the route objects *)
(* and the handlers agree with published configurations.                     *)
THEOREM InvariantCorrect == Spec => []ProxyInvariant
<1>1. Init => ProxyInvariant
  BY InitInv DEF Inv
<1>2. ProxyInvariant /\ [Next]_vars => ProxyInvariant'
  BY NextInv DEF Inv
<1> QED
  BY <1>1, <1>2, PTL DEF Spec

(* Type correctness: among others, a handler that has a policy has a backend  *)
(* (proxy.go:284).                                                           *)
THEOREM TypeCorrect == Spec => []TypeOK
<1>1. ProxyInvariant => TypeOK
  BY DEF ProxyInvariant
<1> QED
  BY <1>1, InvariantCorrect, PTL

(* No message is judged by policies older than the generation that was in     *)
(* place when it was read (proxy.go:274).                                    *)
THEOREM FreshPolicyCorrect == Spec => []FreshPolicy
<1>1. ProxyInvariant => FreshPolicy
  BY DEF ProxyInvariant, FreshPolicy, Handlers, Judging
<1> QED
  BY <1>1, InvariantCorrect, PTL

(* The policies that judge a message belong to the target it is sent to       *)
(* (proxy.go:136).                                                           *)
THEOREM RightTargetCorrect == Spec => []RightTarget
<1>1. ProxyInvariant => RightTarget
  BY DEF ProxyInvariant, RightTarget, Handlers, Judging
<1> QED
  BY <1>1, InvariantCorrect, PTL

(* A host in every configuration has one Conn, also for messages under way    *)
(* (proxy.go:103).                                                           *)
THEOREM OneQueueCorrect == Spec => []OneQueue
<1>1. ProxyInvariant => OneQueue
  BY DEF ProxyInvariant
<1> QED
  BY <1>1, InvariantCorrect, PTL

(* Between reconfigurations nothing was left open and nothing needed was      *)
(* closed (proxy.go:144), unless a port was in use.                          *)
THEOREM ListenersMatchCorrect == Spec => []ListenersMatch
<1>1. ProxyInvariant => ListenersMatch
  <2> SUFFICES ASSUME ProxyInvariant, cpc = "wait", clean
               PROVE  /\ open = routes /\ open = Known
                      /\ committed > 0 =>
                           {l.port : l \in open}
                             = {config[committed][h] : h \in Hosts} \ {Nil}
    BY DEF ListenersMatch
  <2>0. TypeOK /\ GenListeners /\ CleanSoFar
    BY DEF ProxyInvariant
  <2>1. \A l \in Listeners : l.port \in Ports /\ l # Nil
    BY NilAssumption DEF Listeners
  <2>2. routes \subseteq open
    BY <2>0, <2>1 DEF GenListeners, TypeOK
  <2>3. open = routes
    BY <2>0, <2>2 DEF CleanSoFar
  <2>4. \A p \in Ports : listeners[p] # Nil =>
          listeners[p] \in Listeners /\ listeners[p].port = p /\ listeners[p] \in routes
    BY <2>0 DEF GenListeners, TypeOK
  <2>5. routes = Known
    BY <2>0, <2>1, <2>4 DEF Known, GenListeners, TypeOK
  <2>6. ASSUME committed > 0
        PROVE  {l.port : l \in open} = {config[committed][h] : h \in Hosts} \ {Nil}
    <3>1. committed \in Versions
      BY <2>0, <2>6, MaxVersionAssumption DEF TypeOK, Versions
    <3>2. \A h \in Hosts : config[committed][h] \in Ports \union {Nil}
      BY <2>0, <3>1 DEF TypeOK
    <3>3. \A p \in Ports : listeners[p] # Nil <=> \E h \in Hosts : config[committed][h] = p
      BY <2>0, <2>6 DEF GenListeners
    <3>4. ASSUME NEW l \in open
          PROVE  l.port \in {config[committed][h] : h \in Hosts} \ {Nil}
      <4>1. l \in Listeners /\ l \in routes
        BY <2>0, <2>3, <3>4 DEF TypeOK
      <4>2. listeners[l.port] = l /\ l.port \in Ports /\ l # Nil
        BY <2>0, <2>1, <4>1 DEF GenListeners
      <4>3. \E h \in Hosts : config[committed][h] = l.port
        BY <3>3, <4>2
      <4> QED
        BY <4>2, <4>3, NilAssumption
    <3>5. ASSUME NEW h \in Hosts, config[committed][h] # Nil
          PROVE  \E l \in open : l.port = config[committed][h]
      <4>1. config[committed][h] \in Ports /\ listeners[config[committed][h]] # Nil
        BY <3>2, <3>3, <3>5
      <4> QED
        BY <2>3, <2>4, <4>1
    <3> QED
      BY <3>4, <3>5
  <2> QED
    BY <2>3, <2>5, <2>6
<1> QED
  BY <1>1, InvariantCorrect, PTL

-----------------------------------------------------------------------------
(* What a step may do to the generation in place: only Commit replaces it.   *)
LEMMA OnlyCommit == [Next]_vars => Commit \/ UNCHANGED muVars
<1>1. Configure => Commit \/ UNCHANGED muVars
  BY DEF Configure, Begin, Apply, ApplyKept, ApplyNew, Route, AbortOwn, AbortForeign, Abort,
         Shutdown, muVars
<1>2. ASSUME NEW c \in Clients, Accept(c) \/ Handle(c) \/ \E l \in Listeners : Connect(c, l)
      PROVE  UNCHANGED muVars
  <2>1. UNCHANGED sysVars
    BY <1>2 DEF Accept, Connect, Handle, Greet, GreetFails, TopStopping, TopIdle, TopReads,
                ReadNothing, ReadFails, Read, FetchRoute, NoRoute, GetRoute, NoPolicy, Deny,
                DenyFails, Allow, Reply, TripFails, End, Move
  <2> QED
    BY <2>1 DEF sysVars
<1> QED
  BY <1>1, <1>2 DEF Next, Publish, Stop, vars, sysVars

(* Listeners are closed only by Commit and Shutdown.                         *)
LEMMA OnlyClosers ==
  [Next]_vars => Commit \/ cpc' = "stopped" \/ open \subseteq open'
<1>1. Configure => Commit \/ cpc' = "stopped" \/ open \subseteq open'
  BY DEF Configure, Begin, Apply, ApplyKept, ApplyNew, AbortOwn, AbortForeign, Abort, Shutdown
<1>2. ASSUME NEW c \in Clients, Accept(c) \/ Handle(c) \/ \E l \in Listeners : Connect(c, l)
      PROVE  open \subseteq open'
  <2>1. UNCHANGED sysVars
    BY <1>2 DEF Accept, Connect, Handle, Greet, GreetFails, TopStopping, TopIdle, TopReads,
                ReadNothing, ReadFails, Read, FetchRoute, NoRoute, GetRoute, NoPolicy, Deny,
                DenyFails, Allow, Reply, TripFails, End, Move
  <2> QED
    BY <2>1 DEF sysVars
<1> QED
  BY <1>1, <1>2 DEF Next, Publish, Stop, vars, sysVars

(* A success repairs what aborted reconfigurations left in the route objects  *)
(* (proxy.go:121, :136).                                                     *)
THEOREM CommitRepairsCorrect == Spec => CommitRepairs
<1>1. ProxyInvariant /\ [Next]_vars =>
        [committed' # committed =>
           \A l \in routes' : /\ routePol'[l] = committed'
                              /\ routeMdc'[l] = conns'[routeMdc'[l].host]]_vars
  <2> SUFFICES ASSUME ProxyInvariant, [Next]_vars, committed' # committed, NEW l \in routes'
               PROVE  /\ routePol'[l] = committed'
                      /\ routeMdc'[l] = conns'[routeMdc'[l].host]
    OBVIOUS
  <2>1. Commit
    BY OnlyCommit DEF muVars
  <2>2. /\ cpc = "apply" /\ todo = {} /\ routes' = nextRoutes /\ committed' = current
        /\ conns' = nextConns /\ UNCHANGED <<routeMdc, routePol>>
    BY <2>1 DEF Commit, routeVars
  <2>3. /\ NextGen /\ TypeOK /\ l \in nextRoutes /\ l \in Listeners
    BY <2>2 DEF ProxyInvariant, TypeOK
  <2>4. /\ routePol[l] = current /\ Done(routeMdc[l].host)
        /\ routeMdc[l] = ConnFor(routeMdc[l].host)
    BY <2>2, <2>3 DEF NextGen
  <2>5. routeMdc[l] \in Conns
    BY <2>2, <2>3, <2>4, MaxVersionAssumption
       DEF ProxyInvariant, RouteObjects, NextGen
  <2>6. nextConns[routeMdc[l].host] = ConnFor(routeMdc[l].host)
    BY <2>2, <2>3, <2>4, <2>5 DEF NextGen, Conns
  <2> QED
    BY <2>2, <2>4, <2>6
<1> QED
  BY <1>1, InvariantCorrect, PTL DEF Spec, CommitRepairs

(* Connections and listeners in use survive reconfiguration (proxy.go:49).    *)
THEOREM ConservedCorrect == Spec => Conserved
<1>1. ProxyInvariant /\ [Next]_vars =>
        [/\ \A h \in Hosts :
              conns[h] # Nil /\ conns'[h] # Nil => conns'[h] = conns[h]
         /\ \A p \in Ports :
              listeners[p] # Nil /\ listeners'[p] # Nil /\ cpc' # "stopped" =>
                listeners'[p] = listeners[p] /\ listeners[p] \in open']_vars
  <2> SUFFICES ASSUME ProxyInvariant, [Next]_vars, ~UNCHANGED vars
               PROVE  /\ \A h \in Hosts :
                           conns[h] # Nil /\ conns'[h] # Nil => conns'[h] = conns[h]
                      /\ \A p \in Ports :
                           listeners[p] # Nil /\ listeners'[p] # Nil /\ cpc' # "stopped" =>
                             listeners'[p] = listeners[p] /\ listeners[p] \in open'
    OBVIOUS
  <2>0. TypeOK /\ GenListeners /\ NextGen
    BY DEF ProxyInvariant
  <2>1. CASE Commit
    <3>1. /\ cpc = "apply" /\ todo = {} /\ conns' = nextConns /\ listeners' = nextListeners
          /\ open' = open \ Unreferenced
      BY <2>1 DEF Commit, CloseListeners
    <3>2. ASSUME NEW h \in Hosts, conns[h] # Nil, conns'[h] # Nil PROVE conns'[h] = conns[h]
      <4>1. nextConns[h] = IF Done(h) THEN ConnFor(h) ELSE Nil
        BY <2>0, <3>1 DEF NextGen
      <4> QED
        BY <3>1, <3>2, <4>1 DEF ConnFor
    <3>3. ASSUME NEW p \in Ports, listeners[p] # Nil, listeners'[p] # Nil
          PROVE  listeners'[p] = listeners[p] /\ listeners[p] \in open'
      <4>1. listeners'[p] = listeners[p] /\ listeners[p].port = p /\ listeners[p] \in open
        BY <2>0, <3>1, <3>3 DEF NextGen, GenListeners
      <4>2. listeners[p] \notin Unreferenced
        BY <2>0, <3>1, <3>3, <4>1 DEF Unreferenced, GenListeners
      <4> QED
        BY <3>1, <4>1, <4>2
    <3> QED
      BY <3>2, <3>3
  <2>2. CASE UNCHANGED muVars /\ (cpc' = "stopped" \/ open \subseteq open')
    <3>1. \A p \in Ports : listeners[p] # Nil /\ cpc # "stopped" => listeners[p] \in open
      BY <2>0 DEF GenListeners
    <3>2. cpc = "stopped" => cpc' = "stopped"
      BY DEF Next, Publish, Stop, Configure, Begin, Apply, ApplyKept, ApplyNew, Route, AbortOwn,
             AbortForeign, Abort, Commit, Shutdown, Accept, Connect, Handle, Greet, GreetFails,
             TopStopping, TopIdle, TopReads, ReadNothing, ReadFails, Read, FetchRoute, NoRoute,
             GetRoute, NoPolicy, Deny, DenyFails, Allow, Reply, TripFails, End, Move, vars, sysVars
    <3> QED
      BY <2>2, <3>1, <3>2 DEF muVars
  <2> QED
    BY <2>1, <2>2, OnlyCommit, OnlyClosers
<1> QED
  BY <1>1, InvariantCorrect, PTL DEF Spec, Conserved

-----------------------------------------------------------------------------
(***************************************************************************)
(* Proxy implements RoutingSpec: proof.                                      *)
(***************************************************************************)

(* Serving a client: Session by the stage of the connection.                 *)
LEMMA SessionCases ==
  ASSUME NEW c
  PROVE  /\ cl[c] \in {"greet", "top", "reading"} => Session(c) = Abstract!Idle(via[c].port)
         /\ cl[c] \in {"read", "fetched"} =>
              Session(c) = Abstract!Asking(via[c].port, since[c])
         /\ cl[c] \in {"judge", "trip"} =>
              Session(c) = Abstract!Judged(via[c].port, pol[c], mdc[c].host)
         /\ cl[c] \in {"none", "queued", "closed", "leaked"} => Session(c) = Nil
BY DEF Session, Abstract!Idle, Abstract!Asking, Abstract!Judged

LEMMA AbstractInit == Init => Abstract!Init
<1> SUFFICES ASSUME Init PROVE Abstract!Init
  OBVIOUS
<1>1. \A c \in Clients : Session(c) = Nil
  BY SessionCases DEF Init
<1> QED
  BY <1>1 DEF Init, Abstract!Init, sessions, NoConfig, Versions

(* A step that moves no handler.                                             *)
LEMMA SameSessions ==
  ASSUME UNCHANGED <<via, mdc, pol, since>>,
         \A c \in Clients :
           \/ cl'[c] = cl[c]
           \/ cl[c] = "queued" /\ cl'[c] = "closed"
  PROVE  sessions' = sessions
<1>1. ASSUME NEW c \in Clients PROVE Session(c)' = Session(c)
  <2>1. CASE cl'[c] = cl[c]
    BY <2>1 DEF Session
  <2>2. CASE cl[c] = "queued" /\ cl'[c] = "closed"
    BY <2>2 DEF Session
  <2> QED
    BY <2>1, <2>2
<1> QED
  BY <1>1 DEF sessions

LEMMA AbstractConfigure ==
  ASSUME Inv, Publish \/ Stop \/ Configure
  PROVE  [Abstract!Next]_(Abstract!vars)
<1>0. TypeOK /\ VersionsInOrder
  BY DEF Inv, ProxyInvariant
<1>1. CASE Publish
  <2>1. PICK f \in Configs : config' = [config EXCEPT ![version + 1] = f]
    BY <1>1 DEF Publish
  <2>2. /\ version < MaxVersion /\ version' = version + 1 /\ committed' = committed
        /\ UNCHANGED <<cl, via, mdc, pol, since>>
    BY <1>1 DEF Publish, muVars, clVars
  <2>3. f \in [Hosts -> Ports \union {Nil}]
    BY ConfigsAssumption
  <2>4. sessions' = sessions
    BY <2>2, SameSessions
  <2>5. Abstract!Publish
    BY <2>1, <2>2, <2>3, <2>4 DEF Abstract!Publish
  <2> QED
    BY <2>5 DEF Abstract!Next
<1>2. CASE Stop \/ Begin \/ Apply
  <2>1. UNCHANGED <<version, config, committed>> /\ UNCHANGED <<cl, via, mdc, pol, since>>
    BY <1>2 DEF Stop, Begin, Apply, ApplyKept, ApplyNew, Route, AbortOwn, AbortForeign, Abort,
                cfgVars, muVars, clVars
  <2>2. sessions' = sessions
    BY <2>1, SameSessions
  <2> QED
    BY <2>1, <2>2 DEF Abstract!vars
<1>3. CASE Commit
  <2>1. /\ UNCHANGED <<version, config>> /\ committed' = current
        /\ UNCHANGED <<via, mdc, pol, since>>
        /\ cl' = [c \in Clients |->
                   IF cl[c] = "queued" /\ via[c] \in Unreferenced THEN "closed" ELSE cl[c]]
    BY <1>3 DEF Commit, CloseListeners, cfgVars
  <2>2. sessions' = sessions
    BY <2>1, SameSessions
  <2>3. CASE committed = current
    BY <2>1, <2>2, <2>3 DEF Abstract!vars
  <2>4. CASE committed # current
    <3>1. current \in (committed + 1)..version
      BY <1>0, <2>4, MaxVersionAssumption DEF VersionsInOrder, TypeOK
    <3>2. Abstract!Apply
      BY <2>1, <2>2, <3>1 DEF Abstract!Apply
    <3> QED
      BY <3>2 DEF Abstract!Next
  <2> QED
    BY <2>3, <2>4
<1>4. CASE Shutdown
  <2>1. /\ UNCHANGED <<version, config, committed>> /\ UNCHANGED <<via, mdc, pol, since>>
        /\ cl' = [c \in Clients |->
                   IF cl[c] = "queued" /\ via[c] \in Known THEN "closed" ELSE cl[c]]
    BY <1>4 DEF Shutdown, CloseListeners, cfgVars, muVars
  <2>2. sessions' = sessions
    BY <2>1, SameSessions
  <2> QED
    BY <2>1, <2>2 DEF Abstract!vars
<1> QED
  BY <1>1, <1>2, <1>3, <1>4 DEF Configure

-----------------------------------------------------------------------------
(* One client moves: its session changes, and nothing else does.             *)
LEMMA OneSession ==
  ASSUME UNCHANGED sysVars, NEW c \in Clients,
         \A d \in Clients : d # c => UNCHANGED <<cl[d], via[d], mdc[d], pol[d], since[d]>>
  PROVE  /\ UNCHANGED <<version, config, committed>>
         /\ sessions' = [sessions EXCEPT ![c] = Session(c)']
<1>1. \A d \in Clients : d # c => Session(d)' = Session(d)
  BY DEF Session
<1>2. UNCHANGED <<version, config, committed>>
  BY DEF sysVars, cfgVars, muVars
<1> QED
  BY <1>1, <1>2 DEF sessions

(* Steps without a new lookup or message: the session stays, begins or ends.  *)
LEMMA AbstractMove ==
  ASSUME Inv, NEW c \in Clients, NEW to \in Stages,
         UNCHANGED <<sysVars, via, mdc, pol, since>>,
         cl' = [cl EXCEPT ![c] = to],
         \/ to \in {"closed", "leaked"}
         \/ cl[c] = "queued" /\ to = "greet"
         \/ cl[c] \in {"greet", "top", "reading"} /\ to \in {"top", "reading"}
         \/ cl[c] = "read" /\ to = "fetched"
         \/ cl[c] = "judge" /\ to \in {"trip", "top"}
         \/ cl[c] = "trip" /\ to = "top"
  PROVE  [Abstract!Next]_(Abstract!vars)
<1>0. TypeOK /\ VersionsInOrder /\ Handlers
  BY DEF Inv, ProxyInvariant
<1>1. \A d \in Clients : cl'[d] = IF d = c THEN to ELSE cl[d]
  BY <1>0 DEF TypeOK
<1>2. /\ UNCHANGED <<version, config, committed>>
      /\ sessions' = [sessions EXCEPT ![c] = Session(c)']
  BY <1>1, OneSession
<1>3. sessions[c] = Session(c)
  BY DEF sessions
<1>4. CASE Session(c)' = Session(c)
  <2>1. sessions' = sessions
    BY <1>2, <1>3, <1>4 DEF sessions
  <2> QED
    BY <1>2, <2>1 DEF Abstract!vars
<1>5. CASE to \in {"closed", "leaked"} /\ Session(c)' # Session(c)
  <2>1. Session(c)' = Nil
    BY <1>1, <1>5 DEF Session
  <2>2. Abstract!End(c)
    BY <1>2, <1>3, <1>5, <2>1 DEF Abstract!End, Abstract!Becomes
  <2> QED
    BY <2>2 DEF Abstract!Next
<1>6. CASE cl[c] = "queued" /\ to = "greet"
  <2>1. Session(c) = Nil /\ Session(c)' = Abstract!Idle(via[c].port)
    BY <1>1, <1>6 DEF Session, Abstract!Idle
  <2>2. via[c].port \in Ports
    BY <1>0, <1>6 DEF Handlers, Listeners
  <2>3. Abstract!Open(c)
    BY <1>2, <1>3, <2>1, <2>2 DEF Abstract!Open, Abstract!Becomes
  <2> QED
    BY <2>3 DEF Abstract!Next
<1>7. CASE cl[c] \in {"judge", "trip"} /\ to = "top"
  <2>1. /\ Session(c) = Abstract!Judged(via[c].port, pol[c], mdc[c].host)
        /\ Session(c)' = Abstract!Idle(via[c].port)
    BY <1>1, <1>7 DEF Session, Abstract!Judged, Abstract!Idle
  <2>2. via[c].port \in Ports /\ mdc[c].host \in Hosts /\ pol[c] \in 0..MaxVersion
    BY <1>0, <1>7 DEF Handlers, Listeners, TypeOK, Conns
  <2>3. Abstract!Answer(c)
    BY <1>2, <1>3, <2>1, <2>2 DEF Abstract!Answer, Abstract!Becomes
  <2> QED
    BY <2>3 DEF Abstract!Next
<1>8. CASE \/ cl[c] \in {"greet", "top", "reading"} /\ to \in {"top", "reading"}
           \/ cl[c] = "read" /\ to = "fetched"
           \/ cl[c] = "judge" /\ to = "trip"
  <2>1. Session(c)' = Session(c)
    BY <1>1, <1>8 DEF Session
  <2> QED
    BY <1>4, <2>1
<1> QED
  BY <1>4, <1>5, <1>6, <1>7, <1>8

LEMMA AbstractRead ==
  ASSUME Inv, NEW c \in Clients, Read(c) PROVE [Abstract!Next]_(Abstract!vars)
<1>0. TypeOK /\ Handlers
  BY DEF Inv, ProxyInvariant
<1>1. /\ UNCHANGED <<sysVars, via, mdc, pol>> /\ cl[c] = "reading"
      /\ \A d \in Clients : cl'[d] = IF d = c THEN "read" ELSE cl[d]
      /\ \A d \in Clients : since'[d] = IF d = c THEN committed ELSE since[d]
  BY <1>0 DEF Read, Move, LooksUp, TypeOK
<1>2. /\ UNCHANGED <<version, config, committed>>
      /\ sessions' = [sessions EXCEPT ![c] = Session(c)']
  BY <1>1, OneSession
<1>3. /\ sessions[c] = Abstract!Idle(via[c].port)
      /\ Session(c)' = Abstract!Asking(via[c].port, committed)
  BY <1>1 DEF sessions, Session, Abstract!Idle, Abstract!Asking
<1>4. via[c].port \in Ports
  BY <1>0, <1>1 DEF Handlers, Listeners
<1>5. Abstract!Ask(c)
  BY <1>2, <1>3, <1>4 DEF Abstract!Ask, Abstract!Becomes
<1> QED
  BY <1>5 DEF Abstract!Next

(* The second half of the lookup is where the message is judged.             *)
LEMMA AbstractJudge ==
  ASSUME Inv, NEW c \in Clients, GetRoute(c) PROVE [Abstract!Next]_(Abstract!vars)
<1>0. TypeOK /\ VersionsInOrder /\ RouteObjects /\ Handlers
  BY DEF Inv, ProxyInvariant
<1> DEFINE v == routePol[via[c]]
           m == routeMdc[via[c]]
<1>1. cl[c] = "fetched" /\ via[c] \in Listeners /\ v > 0 /\ v >= since[c]
  BY <1>0 DEF GetRoute, Move, Handlers
<1>2. /\ UNCHANGED <<sysVars, via, since>>
      /\ \A d \in Clients : cl'[d] = IF d = c THEN "judge" ELSE cl[d]
      /\ \A d \in Clients : mdc'[d] = IF d = c THEN m ELSE mdc[d]
      /\ \A d \in Clients : pol'[d] = IF d = c THEN v ELSE pol[d]
  BY <1>0 DEF GetRoute, Move, TypeOK
<1>3. /\ UNCHANGED <<version, config, committed>>
      /\ sessions' = [sessions EXCEPT ![c] = Session(c)']
  BY <1>2, OneSession
<1>4. /\ sessions[c] = Abstract!Asking(via[c].port, since[c])
      /\ Session(c)' = Abstract!Judged(via[c].port, v, m.host)
  BY <1>1, <1>2 DEF sessions, Session, Abstract!Asking, Abstract!Judged
<1>5. /\ via[c].port \in Ports /\ m.host \in Hosts
      /\ v \in 0..MaxVersion /\ since[c] \in 0..MaxVersion
      /\ config[v][m.host] = via[c].port
  BY <1>0, <1>1 DEF RouteObjects, TypeOK, Listeners, Conns
<1>6. since[c] <= v /\ 1 <= v /\ v <= version
  BY <1>0, <1>1, <1>5, MaxVersionAssumption DEF RouteObjects, VersionsInOrder, TypeOK
<1> HIDE DEF v, m
<1>7. Abstract!Judge(c)
  BY <1>3, <1>4, <1>5, <1>6 DEF Abstract!Judge, Abstract!Becomes
<1> QED
  BY <1>7 DEF Abstract!Next

LEMMA AbstractClient ==
  ASSUME Inv, NEW c \in Clients,
         Accept(c) \/ Handle(c) \/ \E l \in Listeners : Connect(c, l)
  PROVE  [Abstract!Next]_(Abstract!vars)
<1>0. TypeOK
  BY DEF Inv, ProxyInvariant
<1>1. CASE Accept(c)
  <2>1. PICK to \in {"closed", "leaked", "greet"} : cl' = [cl EXCEPT ![c] = to]
    BY <1>1 DEF Accept
  <2>2. cl[c] = "queued" /\ UNCHANGED <<sysVars, via, mdc, pol, since>> /\ to \in Stages
    BY <1>1 DEF Accept, Stages
  <2> QED
    BY <2>1, <2>2, AbstractMove
<1>2. CASE \E l \in Listeners : Connect(c, l)
  <2>1. /\ UNCHANGED <<sysVars, mdc, pol, since>> /\ cl[c] = "none"
        /\ \A d \in Clients : cl'[d] = IF d = c THEN "queued" ELSE cl[d]
        /\ \A d \in Clients : d # c => via'[d] = via[d]
    BY <1>0, <1>2 DEF Connect, TypeOK
  <2>2. /\ UNCHANGED <<version, config, committed>>
        /\ sessions' = [sessions EXCEPT ![c] = Session(c)']
    BY <2>1, OneSession
  <2>3. Session(c)' = Nil /\ sessions[c] = Nil
    BY <2>1 DEF Session, sessions
  <2>4. sessions' = sessions
    BY <2>2, <2>3 DEF sessions
  <2> QED
    BY <2>2, <2>4 DEF Abstract!vars
<1>3. CASE Read(c)
  BY <1>3, AbstractRead
<1>4. CASE GetRoute(c)
  BY <1>4, AbstractJudge
<1>5. CASE FetchRoute(c)
  <2>1. /\ cl[c] = "read" /\ cl' = [cl EXCEPT ![c] = "fetched"] /\ "fetched" \in Stages
        /\ UNCHANGED <<sysVars, via, mdc, pol, since>>
    BY <1>5 DEF FetchRoute, Move, Stages
  <2> QED
    BY <2>1, AbstractMove
<1>6. CASE Allow(c)
  <2>1. /\ cl[c] = "judge" /\ cl' = [cl EXCEPT ![c] = "trip"] /\ "trip" \in Stages
        /\ UNCHANGED <<sysVars, via, mdc, pol, since>>
    BY <1>6 DEF Allow, Move, Stages
  <2> QED
    BY <2>1, AbstractMove
<1>7. CASE Greet(c) \/ TopReads(c) \/ ReadNothing(c)
  <2>1. PICK to \in {"top", "reading"} : cl' = [cl EXCEPT ![c] = to]
    BY <1>7 DEF Greet, TopReads, ReadNothing, Move
  <2>2. /\ cl[c] \in {"greet", "top", "reading"} /\ to \in Stages
        /\ UNCHANGED <<sysVars, via, mdc, pol, since>>
    BY <1>7 DEF Greet, TopReads, ReadNothing, Move, Stages
  <2> QED
    BY <2>1, <2>2, AbstractMove
<1>8. CASE Deny(c) \/ Reply(c)
  <2>1. /\ cl[c] \in {"judge", "trip"} /\ cl' = [cl EXCEPT ![c] = "top"] /\ "top" \in Stages
        /\ UNCHANGED <<sysVars, via, mdc, pol, since>>
    BY <1>8 DEF Deny, Reply, Move, Stages
  <2> QED
    BY <2>1, AbstractMove
<1>9. CASE \/ GreetFails(c) \/ TopStopping(c) \/ TopIdle(c) \/ ReadFails(c) \/ NoRoute(c)
           \/ NoPolicy(c) \/ DenyFails(c) \/ TripFails(c)
  <2>1. /\ cl' = [cl EXCEPT ![c] = "closed"] /\ "closed" \in Stages
        /\ UNCHANGED <<sysVars, via, mdc, pol, since>>
    BY <1>9 DEF GreetFails, TopStopping, TopIdle, ReadFails, NoRoute, NoPolicy, DenyFails,
                TripFails, End, Move, Stages
  <2> QED
    BY <2>1, AbstractMove
<1> QED
  BY <1>1, <1>2, <1>3, <1>4, <1>5, <1>6, <1>7, <1>8, <1>9 DEF Handle

LEMMA AbstractNext == Inv /\ [Next]_vars => [Abstract!Next]_(Abstract!vars)
<1> SUFFICES ASSUME Inv, [Next]_vars PROVE [Abstract!Next]_(Abstract!vars)
  OBVIOUS
<1>1. CASE UNCHANGED vars
  <2>1. UNCHANGED <<version, config, committed, cl, via, mdc, pol, since>>
    BY <1>1 DEF vars, sysVars, clVars, cfgVars, muVars
  <2>2. sessions' = sessions
    BY <2>1, SameSessions
  <2> QED
    BY <2>1, <2>2 DEF Abstract!vars
<1> QED
  BY <1>1, AbstractConfigure, AbstractClient DEF Next

(* Reconfiguration is invisible: Proxy implements RoutingSpec, in which a     *)
(* message is judged and routed by one published configuration at one        *)
(* instant (proxy.go:274).                                                   *)
THEOREM RefinementCorrect == Spec => ImplementsRoutingSpec
<1>1. Init => Abstract!Init
  BY AbstractInit
<1>2. ProxyInvariant /\ [Next]_vars => [Abstract!Next]_(Abstract!vars)
  BY AbstractNext DEF Inv
<1> QED
  BY <1>1, <1>2, InvariantCorrect, PTL DEF Spec, ImplementsRoutingSpec, Abstract!Spec
=============================================================================
