------------------------ MODULE TunnelSessionProofs -------------------------
(***************************************************************************)
(* What TunnelSession guarantees for any lists of routes and of bypass     *)
(* entries, any routes of somebody else, and sessions without end.         *)
(***************************************************************************)
EXTENDS TunnelSession, SequenceTheorems, TLAPS

-----------------------------------------------------------------------------
(* The inductive invariant *)

BeforeBypass == {"none", "open_tun", "prepare"}
BeforeRoutes == BeforeBypass \cup {"bypass"}
Starting     == {"open_tun", "prepare", "bypass", "apply", "rollback"}
AfterRoutes  == {"build_tun", "dns_server", "device"}
Stopping     == {"stop_services", "remove_routes"}

\* What start has done so far is what the session says of itself.
Progress ==
    /\ pc \in Starting \cup AfterRoutes \cup {"running"} => result = "ok"
    /\ pc \in Starting => routes = NoRoutes /\ status = "Created"
    /\ pc \in AfterRoutes => status = "RoutesApplied"
    /\ pc \in {"prepare", "bypass", "apply", "rollback", "running"} \cup AfterRoutes => tun
    /\ pc = "running" => device /\ probe
    /\ pc \notin {"apply", "bypass", "stop_bypass"} => index = 1
    /\ status = "Stopped" => pc = "ended"

\* The list s is our routes in the kernel, each once.
Tracks(s) == ToSet(s) = ourRoutes /\ IsInjective(s)

\* The routes in the kernel are known to apply, then to the session, until
\* they are gone; a start that has failed has closed the device, and with it
\* gone its routes.
RoutesTracked ==
    /\ pc \in BeforeRoutes \cup {"stop_bypass", "stop_device"} => ourRoutes = {}
    /\ pc \notin {"apply", "rollback"} => added = <<>>
    /\ pc = "apply" => Tracks(added)
    /\ pc \in AfterRoutes \cup {"running"} \/ (pc \in Stopping /\ result = "ok") =>
          routes # NoRoutes /\ Tracks(routes)
    /\ result = "start" /\ pc # "none" => ourRoutes = {}
    /\ pc \in Stopping => result # "stop"
    /\ result = "stop" => refused

\* A handle that says so has all entries until it is torn down; a protected
\* session has one as long as there may be routes.
BypassComplete ==
    /\ bypass = "installed" /\ pc # "stop_bypass" => entries = EntryNames
    /\ pc = "bypass" /\ full => \A i \in 1 .. index - 1 : BypassEntries[i] \in entries
    /\ pc \in {"open_tun", "prepare", "bypass"} => ~protected
    /\ protected /\ (pc \in {"apply", "rollback", "running", "stop_bypass"} \cup AfterRoutes \cup Stopping)
          => bypass = "installed"
    /\ protected /\ pc = "ended" /\ ourRoutes # {} => entries = EntryNames

\* The teardown has dealt with the entries up to its index, then with all.
TornDown ==
    /\ pc = "stop_bypass" =>
          \A i \in 1 .. index - 1 : BypassEntries[i] \in entries => BypassEntries[i] \in stuck
    /\ protected /\ (pc = "stop_device" \/ status = "Stopped") => entries \subseteq stuck

IInv == TypeOK /\ Progress /\ RoutesTracked /\ BypassComplete /\ TornDown

-----------------------------------------------------------------------------
(* Lists of routes *)

\* A list of strings is a list of its elements.
LEMMA ListOfElements ==
    ASSUME NEW s \in Seq(STRING), NEW S, ToSet(s) \subseteq S
    PROVE  s \in Seq(S)
<1>1. \A i \in 1 .. Len(s) : s[i] \in S
  BY DEF ToSet
<1> QED BY <1>1

\* Appending a new element.
LEMMA AppendTracks ==
    ASSUME NEW S, NEW s \in Seq(S), NEW r \in S, r \notin ToSet(s), IsInjective(s)
    PROVE  /\ Append(s, r) \in Seq(S)
           /\ ToSet(Append(s, r)) = ToSet(s) \cup {r}
           /\ IsInjective(Append(s, r))
<1> DEFINE t == Append(s, r)
<1>1. t \in Seq(S) /\ Len(t) = Len(s) + 1 /\ t[Len(s) + 1] = r
  OBVIOUS
<1>2. \A i \in 1 .. Len(s) : t[i] = s[i]
  OBVIOUS
<1> HIDE DEF t
<1>3. ToSet(t) = ToSet(s) \cup {r}
  <2>1. DOMAIN t = 1 .. Len(s) + 1 /\ DOMAIN s = 1 .. Len(s) /\ Len(s) \in Nat
    BY <1>1
  <2>2. ToSet(t) \subseteq ToSet(s) \cup {r}
    BY <1>1, <1>2, <2>1 DEF ToSet
  <2>3. ToSet(s) \cup {r} \subseteq ToSet(t)
    BY <1>1, <1>2, <2>1 DEF ToSet
  <2> QED BY <2>2, <2>3
<1>4. IsInjective(t)
  <2> SUFFICES ASSUME NEW a \in 1 .. Len(s) + 1, NEW b \in 1 .. Len(s) + 1, t[a] = t[b]
               PROVE  a = b
    BY <1>1 DEF IsInjective
  <2>1. \A i \in 1 .. Len(s) : s[i] # r
    BY DEF ToSet
  <2> QED BY <1>1, <1>2, <2>1 DEF IsInjective
<1> QED BY <1>1, <1>3, <1>4 DEF t

\* Taking the last one off.
LEMMA FrontTracks ==
    ASSUME NEW S, NEW s \in Seq(S), s # <<>>, IsInjective(s)
    PROVE  /\ Last(s) \in ToSet(s)
           /\ Front(s) \in Seq(S)
           /\ ToSet(Front(s)) = ToSet(s) \ {Last(s)}
           /\ IsInjective(Front(s))
<1> DEFINE t == Front(s)
           n == Len(s)
<1>1. n \in Nat /\ n > 0 /\ DOMAIN s = 1 .. n
  OBVIOUS
<1>2. /\ t \in Seq(S) /\ Len(t) = n - 1 /\ DOMAIN t = 1 .. n - 1
      /\ \A i \in 1 .. n - 1 : t[i] = s[i]
  BY <1>1 DEF Front
<1> HIDE DEF t, n
<1>3. Last(s) \in ToSet(s)
  BY <1>1 DEF Last, n, ToSet
<1>4. ToSet(t) = ToSet(s) \ {Last(s)}
  <2>1. \A i \in 1 .. n : s[i] = Last(s) => i = n
    <3>1. n \in 1 .. n
      BY <1>1
    <3> QED BY <1>1, <3>1 DEF Last, n, IsInjective
  <2>2. ToSet(t) \subseteq ToSet(s) \ {Last(s)}
    <3> SUFFICES ASSUME NEW i \in 1 .. n - 1
                 PROVE  t[i] \in ToSet(s) /\ t[i] # Last(s)
      BY <1>2 DEF ToSet
    <3>1. i \in 1 .. n /\ i # n
      BY <1>1
    <3>2. t[i] = s[i]
      BY <1>2
    <3> QED BY <1>1, <2>1, <3>1, <3>2 DEF ToSet
  <2>3. ToSet(s) \ {Last(s)} \subseteq ToSet(t)
    <3> SUFFICES ASSUME NEW i \in 1 .. n, s[i] # Last(s)
                 PROVE  s[i] \in ToSet(t)
      BY <1>1 DEF ToSet
    <3>1. i \in 1 .. n - 1
      BY <1>1 DEF Last, n
    <3>2. t[i] \in ToSet(t)
      BY <1>2, <3>1 DEF ToSet
    <3> QED BY <1>2, <3>1, <3>2
  <2> QED BY <2>2, <2>3
<1>5. IsInjective(t)
  BY <1>1, <1>2 DEF IsInjective
<1> QED BY <1>2, <1>3, <1>4, <1>5 DEF t

\* The empty list, and the one that stands for none.
LEMMA EmptyTracks ==
    /\ \A S : <<>> \in Seq(S)
    /\ ToSet(<<>>) = {} /\ IsInjective(<<>>)
    /\ NoRoutes # <<>> /\ NoRoutes \notin Seq(RouteNames)
<1>1. ToSet(<<>>) = {} /\ IsInjective(<<>>)
  BY DEF ToSet, IsInjective
<1>2. NoRoutes # <<>> /\ NoRoutes \notin Seq(RouteNames)
  <2>1. Len(NoRoutes) = 1 /\ NoRoutes[1] = "no routes taken"
    BY DEF NoRoutes
  <2>3. NoRoutes # <<>>
    BY DEF NoRoutes
  <2>4. \A s \in Seq(RouteNames) : Len(s) = 1 => s[1] \in RouteNames
    OBVIOUS
  <2> HIDE DEF NoRoutes
  <2> QED BY <2>1, <2>3, <2>4, NoRoutesAssumption
<1> QED BY <1>1, <1>2

\* The routes a session plans, of either mode, with or without v6 and DNS.
LEMMA PlannedTyped ==
    /\ \A m \in {"Full", "Split"}, v6 \in BOOLEAN :
          networks_from_vpn_conn(m, v6) \in Seq(RouteNames)
    /\ \A v6 \in BOOLEAN : dns_host_routes(v6) \in Seq(RouteNames)
<1>1. \A m \in {"Full", "Split"}, f \in {"v4", "v6"} : ServerRoutes[m][f] \in Seq(RouteNames)
  BY SessionAssumption, ListOfElements DEF RouteNames
<1>2. \A f \in {"v4", "v6"} : SystemDns[f] \in Seq(RouteNames)
  BY SessionAssumption, ListOfElements DEF RouteNames
<1>3. \A s, t \in Seq(RouteNames) : s \o t \in Seq(RouteNames) /\ s \o <<>> \in Seq(RouteNames)
  OBVIOUS
<1>4. ASSUME NEW m \in {"Full", "Split"}, NEW v6 \in BOOLEAN
      PROVE  networks_from_vpn_conn(m, v6) \in Seq(RouteNames)
  BY <1>1, <1>3 DEF networks_from_vpn_conn
<1>5. ASSUME NEW v6 \in BOOLEAN PROVE dns_host_routes(v6) \in Seq(RouteNames)
  BY <1>2, <1>3 DEF dns_host_routes
<1> QED BY <1>4, <1>5

-----------------------------------------------------------------------------
(* The steps of start *)

\* Names of the sets of places, spelt out.
USE DEF BeforeBypass, BeforeRoutes, Starting, AfterRoutes, Stopping

\* Nothing was ever started.
LEMMA InitInv == Init => IInv
<1> SUFFICES ASSUME Init PROVE IInv
  OBVIOUS
<1>1. {tun, full, ipv6, dnsServer, device, probe, protected, refused} \subseteq BOOLEAN
  BY Zenon DEF Init
<1>2. TypeOK
  <2>1. index \in 1 .. Len(BypassEntries) + 1
    BY SessionAssumption DEF Init
  <2> QED BY <1>1, <2>1, EmptyTracks DEF Init, TypeOK, Pcs
<1>3. Progress /\ RoutesTracked /\ BypassComplete /\ TornDown
  BY DEF Init, Progress, RoutesTracked, BypassComplete, TornDown
<1> QED BY <1>2, <1>3 DEF IInv

\* A new session has neither routes nor a bypass.
LEMMA NewSessionStep == ASSUME IInv, NewSession PROVE IInv'
<1>1. /\ pc = "none" /\ pc' = "open_tun" /\ result' = "ok" /\ routes' = NoRoutes /\ status' = "Created"
      /\ bypass' = "none" /\ full' \in BOOLEAN /\ ipv6' \in BOOLEAN
      /\ dnsServer' = FALSE /\ device' = FALSE /\ probe' = FALSE
      /\ protected' = FALSE /\ refused' = FALSE /\ stuck' = {}
      /\ UNCHANGED <<ourRoutes, entries, tun, index, added>>
  BY DEF NewSession, FreshSession, kernel
<1>2. planned' \in Seq(RouteNames)
  BY <1>1, PlannedTyped DEF NewSession
<1>3. TypeOK'
  <2>1. index' \in 1 .. Len(BypassEntries) + 1
    BY <1>1 DEF IInv, TypeOK
  <2>2. {tun', full', ipv6', dnsServer', device', probe', protected', refused'} \subseteq BOOLEAN
    BY <1>1, Zenon DEF IInv, TypeOK
  <2> QED BY <1>1, <1>2, <2>1, <2>2 DEF IInv, TypeOK, Pcs
<1>4. Progress' /\ RoutesTracked' /\ BypassComplete' /\ TornDown'
  BY <1>1 DEF IInv, Progress, RoutesTracked, BypassComplete, TornDown
<1> QED BY <1>3, <1>4 DEF IInv

\* A failed start has closed the TUN device.
LEMMA StartFailsStep ==
    ASSUME IInv, pc \in Starting \cup AfterRoutes, NEW point, StartFails(point)
    PROVE  IInv'
<1>1. /\ pc' = "stop_services" /\ tun' = FALSE /\ ourRoutes' = {} /\ index' = 1 /\ added' = <<>>
      /\ result' = "start"
      /\ UNCHANGED <<entries, full, ipv6, planned, bypass, routes, dnsServer, device, probe, status,
                     protected, refused, stuck>>
  BY DEF StartFails, config, session, seen
<1>2. TypeOK'
  <2>1. index' \in 1 .. Len(BypassEntries) + 1
    BY <1>1, SessionAssumption
  <2>2. {tun', full', ipv6', dnsServer', device', probe', protected', refused'} \subseteq BOOLEAN
    BY <1>1, Zenon DEF IInv, TypeOK
  <2> QED BY <1>1, <2>1, <2>2, EmptyTracks DEF IInv, TypeOK, Pcs
<1>3. Progress' /\ RoutesTracked' /\ BypassComplete' /\ TornDown'
  BY <1>1 DEF IInv, Progress, RoutesTracked, BypassComplete, TornDown
<1> QED BY <1>2, <1>3 DEF IInv

\* Up to the bypass nothing of the kernel's tables is touched.
LEMMA OpenTunStep == ASSUME IInv, OpenTun PROVE IInv'
<1>1. CASE StartFails("open_tun")
  BY <1>1, StartFailsStep DEF OpenTun
<1>2. CASE /\ tun' = TRUE /\ pc' = "prepare"
           /\ UNCHANGED <<ourRoutes, entries, config, session, index, added, result, seen>>
  <2>1. UNCHANGED <<ourRoutes, entries, full, ipv6, planned, bypass, routes, dnsServer, device,
                    probe, status, index, added, result, protected, refused, stuck>> /\ pc = "open_tun"
    BY <1>2 DEF config, session, seen, OpenTun
  <2>2. TypeOK'
    <3>1. {tun', full', ipv6', dnsServer', device', probe', protected', refused'} \subseteq BOOLEAN
      BY <1>2, <2>1, Zenon DEF IInv, TypeOK
    <3> QED BY <1>2, <2>1, <3>1 DEF IInv, TypeOK, Pcs
  <2>3. Progress' /\ RoutesTracked' /\ BypassComplete' /\ TornDown'
    BY <1>2, <2>1 DEF IInv, Progress, RoutesTracked, BypassComplete, TornDown
  <2> QED BY <2>2, <2>3 DEF IInv
<1> QED BY <1>1, <1>2 DEF OpenTun

\* Nor in the preparations, which may plan more routes.
LEMMA PrepareStep == ASSUME IInv, Prepare PROVE IInv'
<1>1. CASE StartFails("prepare")
  BY <1>1, StartFailsStep DEF Prepare
<1>2. CASE /\ pc' = "bypass"
           /\ UNCHANGED planned \/ planned' = planned \o dns_host_routes(ipv6)
           /\ UNCHANGED <<kernel, full, ipv6, session, index, added, result, seen>>
  <2>1. /\ UNCHANGED <<ourRoutes, entries, tun, full, ipv6, bypass, routes, dnsServer, device,
                       probe, status, index, added, result, protected, refused, stuck>>
        /\ pc = "prepare" /\ ipv6 \in BOOLEAN /\ planned \in Seq(RouteNames)
    BY <1>2 DEF kernel, session, seen, Prepare, IInv, TypeOK
  <2>2. planned' \in Seq(RouteNames)
    <3>1. dns_host_routes(ipv6) \in Seq(RouteNames)
      BY <2>1, PlannedTyped
    <3>2. \A s, t \in Seq(RouteNames) : s \o t \in Seq(RouteNames)
      OBVIOUS
    <3>3. planned \o dns_host_routes(ipv6) \in Seq(RouteNames)
      BY <2>1, <3>1, <3>2
    <3> QED BY <1>2, <2>1, <3>3
  <2>3. TypeOK'
    BY <1>2, <2>1, <2>2 DEF IInv, TypeOK, Pcs
  <2>4. Progress' /\ RoutesTracked' /\ BypassComplete' /\ TornDown'
    BY <1>2, <2>1 DEF IInv, Progress, RoutesTracked, BypassComplete, TornDown
  <2> QED BY <2>3, <2>4 DEF IInv
<1> QED BY <1>1, <1>2 DEF Prepare

\* RouteBypass::setup: the handle says installed once every entry is there.
LEMMA BypassReadyStep ==
    ASSUME IInv, pc = "bypass", NEW handle \in {"none", "noop", "installed"}, BypassReady(handle),
           UNCHANGED entries, full => handle # "noop",
           handle = "installed" => full /\ index > Len(BypassEntries)
    PROVE  IInv'
<1>1. /\ bypass' = handle /\ pc' = "apply" /\ index' = 1
      /\ protected' = (handle = "installed")
      /\ UNCHANGED <<ourRoutes, entries, tun, full, ipv6, planned, routes, dnsServer, device, probe,
                     status, added, result, refused, stuck>>
  BY DEF BypassReady, config
<1>2. handle = "installed" => entries = EntryNames
  <2> SUFFICES ASSUME handle = "installed" PROVE EntryNames \subseteq entries
    BY DEF IInv, TypeOK
  <2>1. index - 1 = Len(BypassEntries) /\ BypassEntries \in Seq(STRING)
    <3>1. BypassEntries \in Seq(STRING) /\ Len(BypassEntries) \in Nat
      BY SessionAssumption
    <3>2. index \in 1 .. Len(BypassEntries) + 1 /\ index > Len(BypassEntries)
      BY DEF IInv, TypeOK
    <3> QED BY <3>1, <3>2
  <2>2. \A i \in 1 .. Len(BypassEntries) : BypassEntries[i] \in entries
    BY <2>1 DEF IInv, BypassComplete
  <2> QED BY <2>1, <2>2 DEF EntryNames, ToSet
<1>3. TypeOK'
  <2>1. index' \in 1 .. Len(planned') + 1 /\ protected' \in BOOLEAN
    BY <1>1 DEF IInv, TypeOK
  <2>2. {tun', full', ipv6', dnsServer', device', probe', protected', refused'} \subseteq BOOLEAN
    BY <1>1, <2>1, Zenon DEF IInv, TypeOK
  <2> QED BY <1>1, <2>1, <2>2 DEF IInv, TypeOK, Pcs
<1>4. Progress'
  BY <1>1 DEF IInv, Progress
<1>5. RoutesTracked'
  BY <1>1, EmptyTracks DEF IInv, RoutesTracked, Progress, Tracks
<1>6. BypassComplete' /\ TornDown'
  BY <1>1, <1>2 DEF IInv, BypassComplete, TornDown, Progress
<1> QED BY <1>3, <1>4, <1>5, <1>6 DEF IInv

\* One entry after the other.
LEMMA BypassStep == ASSUME IInv, BypassSetup PROVE IInv'
<1>0. pc = "bypass"
  BY DEF BypassSetup
<1>1. CASE /\ full
           /\ index <= Len(BypassEntries)
           /\ entries' = entries \cup {BypassEntries[index]}
           /\ index' = index + 1
           /\ UNCHANGED <<ourRoutes, tun, config, session, pc, added, result, seen>>
  <2>1. UNCHANGED <<ourRoutes, tun, full, ipv6, planned, bypass, routes, dnsServer, device, probe,
                    status, pc, added, result, protected, refused, stuck>>
    BY <1>1 DEF config, session, seen
  <2>2. index \in 1 .. Len(BypassEntries) /\ Len(BypassEntries) \in Nat
        /\ BypassEntries[index] \in EntryNames
    <3>1. index \in 1 .. Len(BypassEntries) /\ Len(BypassEntries) \in Nat
      BY <1>0, <1>1, SessionAssumption DEF IInv, TypeOK
    <3> QED BY <3>1, SessionAssumption DEF EntryNames, ToSet
  <2>3. entries' \subseteq EntryNames /\ index' \in 1 .. Len(BypassEntries) + 1
    BY <1>1, <2>2 DEF IInv, TypeOK
  <2>4. TypeOK'
    BY <1>0, <2>1, <2>3 DEF IInv, TypeOK
  <2>5. Progress' /\ RoutesTracked'
    BY <1>0, <2>1 DEF IInv, Progress, RoutesTracked
  <2>6. BypassComplete' /\ TornDown'
    <3>1. \A i \in 1 .. index' - 1 : i \in 1 .. index - 1 \/ i = index
      BY <1>1, <2>2
    <3>2. bypass = "installed" => entries' = EntryNames
      BY <1>0, <1>1, <2>3 DEF IInv, BypassComplete
    <3> QED BY <1>0, <1>1, <2>1, <3>1, <3>2 DEF IInv, BypassComplete, TornDown, Progress
  <2> QED BY <2>4, <2>5, <2>6 DEF IInv
<1> QED BY <1>0, <1>1, BypassReadyStep DEF BypassSetup

\* route::apply: a route that is added is new to the kernel, so the list keeps
\* being our routes, each once.
LEMMA AddRouteStep == ASSUME IInv, AddRoute PROVE IInv'
<1> DEFINE r == planned[index]
<1>1. /\ pc = "apply" /\ index \in 1 .. Len(planned) /\ Len(planned) \in Nat
      /\ planned \in Seq(RouteNames) /\ added \in Seq(RouteNames)
      /\ UNCHANGED <<entries, tun, full, ipv6, planned, bypass, routes, dnsServer, device, probe,
                     status, result, protected, refused, stuck>>
  BY DEF AddRoute, IInv, TypeOK, config, session, seen
<1>2. r \in RouteNames
  BY <1>1
<1>3. CASE /\ r \in ForeignRoutes \cup ourRoutes /\ UNCHANGED <<ourRoutes, added>>
           /\ index' = index + 1 /\ UNCHANGED pc
  <2>1. index' \in 1 .. Len(planned') + 1
    BY <1>1, <1>3
  <2>2. TypeOK'
    BY <1>1, <1>3, <2>1 DEF IInv, TypeOK
  <2>3. Progress' /\ RoutesTracked' /\ BypassComplete' /\ TornDown'
    BY <1>1, <1>3 DEF IInv, Progress, RoutesTracked, BypassComplete, TornDown, Tracks
  <2> QED BY <2>2, <2>3 DEF IInv
<1>4. CASE /\ r \notin ForeignRoutes \cup ourRoutes
           /\ ourRoutes' = ourRoutes \cup {r} /\ added' = Append(added, r)
           /\ index' = index + 1 /\ UNCHANGED pc
  <2>1. index' \in 1 .. Len(planned') + 1
    BY <1>1, <1>4
  <2>2. Tracks(added) /\ r \notin ToSet(added)
    BY <1>1, <1>4 DEF IInv, RoutesTracked, Tracks
  <2>3. /\ added' \in Seq(RouteNames)
        /\ ToSet(added') = ToSet(added) \cup {r}
        /\ IsInjective(added')
    <3> HIDE DEF r
    <3> QED BY <1>1, <1>2, <1>4, <2>2, AppendTracks DEF Tracks
  <2>4. Tracks(added)'
    BY <1>4, <2>2, <2>3 DEF Tracks
  <2>5. TypeOK'
    BY <1>1, <1>2, <1>4, <2>1, <2>3 DEF IInv, TypeOK
  <2>6. Progress'
    BY <1>1, <1>4 DEF IInv, Progress
  <2>7. RoutesTracked'
    BY <1>1, <1>4, <2>4 DEF IInv, RoutesTracked, Progress
  <2>8. BypassComplete' /\ TornDown'
    BY <1>1, <1>4 DEF IInv, BypassComplete, TornDown
  <2> QED BY <2>5, <2>6, <2>7, <2>8 DEF IInv
<1>5. CASE pc' = "rollback" /\ index' = 1 /\ UNCHANGED <<ourRoutes, added>>
  <2>1. index' \in 1 .. Len(BypassEntries) + 1
    BY <1>5, SessionAssumption
  <2>2. TypeOK'
    BY <1>1, <1>5, <2>1 DEF IInv, TypeOK, Pcs
  <2>3. Progress' /\ RoutesTracked' /\ BypassComplete' /\ TornDown'
    BY <1>1, <1>5 DEF IInv, Progress, RoutesTracked, BypassComplete, TornDown
  <2> QED BY <2>2, <2>3 DEF IInv
<1> QED BY <1>3, <1>4, <1>5 DEF AddRoute

\* AppliedRoutes takes the list over.
LEMMA RoutesAppliedStep == ASSUME IInv, RoutesApplied PROVE IInv'
<1>1. /\ pc = "apply" /\ pc' = "build_tun" /\ routes' = added /\ status' = "RoutesApplied"
      /\ added' = <<>> /\ index' = 1 /\ added \in Seq(RouteNames)
      /\ UNCHANGED <<ourRoutes, entries, tun, full, ipv6, planned, bypass, dnsServer, device, probe,
                     result, protected, refused, stuck>>
  BY DEF RoutesApplied, IInv, TypeOK, kernel, config, seen
<1>2. TypeOK'
  <2>1. index' \in 1 .. Len(BypassEntries) + 1
    BY <1>1, SessionAssumption
  <2> QED BY <1>1, <2>1, EmptyTracks DEF IInv, TypeOK, Pcs
<1>3. Progress'
  BY <1>1 DEF IInv, Progress
<1>4. RoutesTracked'
  BY <1>1, EmptyTracks DEF IInv, RoutesTracked, Tracks, Progress
<1>5. BypassComplete' /\ TornDown'
  BY <1>1 DEF IInv, BypassComplete, TornDown
<1> QED BY <1>2, <1>3, <1>4, <1>5 DEF IInv

\* What is left of start touches no table.
LEMMA ServicesStep == ASSUME IInv, BuildVpnTun \/ StartDnsServer \/ StartDevice PROVE IInv'
<1>1. pc \in AfterRoutes
  BY DEF BuildVpnTun, StartDnsServer, StartDevice
<1>2. CASE \E point : StartFails(point)
  BY <1>1, <1>2, StartFailsStep
<1>3. CASE /\ UNCHANGED <<ourRoutes, entries, tun, full, ipv6, planned, bypass, routes,
                          index, added, result, protected, refused, stuck>>
           /\ {dnsServer', device', probe'} \subseteq BOOLEAN
           /\ \/ pc' \in {"dns_server", "device"} /\ status' = status
              \/ pc' = "running" /\ status' = "Running" /\ device' /\ probe'
  <2>1. TypeOK'
    <3>1. {tun', full', ipv6', dnsServer', device', probe', protected', refused'} \subseteq BOOLEAN
      BY <1>3, Zenon DEF IInv, TypeOK
    <3> QED BY <1>1, <1>3, <3>1 DEF IInv, TypeOK, Pcs
  <2>2. Progress' /\ RoutesTracked' /\ BypassComplete' /\ TornDown'
    BY <1>1, <1>3 DEF IInv, Progress, RoutesTracked, BypassComplete, TornDown, Tracks
  <2> QED BY <2>1, <2>2 DEF IInv
<1>4. CASE \A point : ~StartFails(point)
  <2>1. {dnsServer, device, probe} \subseteq BOOLEAN
    BY DEF IInv, TypeOK
  <2>2. /\ UNCHANGED <<ourRoutes, entries, tun, full, ipv6, planned, bypass, routes,
                       index, added, result, protected, refused, stuck>>
        /\ \/ pc' \in {"dns_server", "device"} /\ status' = status
           \/ pc' = "running" /\ status' = "Running" /\ device' = TRUE /\ probe' = TRUE
    BY <1>4 DEF BuildVpnTun, StartDnsServer, StartDevice, kernel, config, session, seen
  <2>3. {dnsServer', device', probe'} \subseteq BOOLEAN
    <3>1. dnsServer' \in {dnsServer} \cup BOOLEAN /\ device' \in {device, TRUE} /\ probe' \in {probe, TRUE}
      BY <1>4 DEF BuildVpnTun, StartDnsServer, StartDevice, session, seen
    <3> QED BY <2>1, <3>1, Zenon
  <2> QED BY <1>3, <2>2, <2>3
<1> QED BY <1>2, <1>4

-----------------------------------------------------------------------------
(* The steps of stop *)

\* Stopping a running session, and its probe and DNS server.
LEMMA StopStep == ASSUME IInv, Stop \/ StopServices PROVE IInv'
<1>1. /\ UNCHANGED <<ourRoutes, entries, tun, full, ipv6, planned, bypass, routes, device, status,
                     index, added, result, protected, refused, stuck>>
      /\ \/ pc = "running" /\ pc' = "stop_services" /\ UNCHANGED <<dnsServer, probe>>
         \/ pc = "stop_services" /\ pc' = "remove_routes" /\ dnsServer' = FALSE /\ probe' = FALSE
  BY DEF Stop, StopServices, kernel, config, session, seen
<1>2. TypeOK'
  <2>1. {tun', full', ipv6', dnsServer', device', probe', protected', refused'} \subseteq BOOLEAN
    BY <1>1, Zenon DEF IInv, TypeOK
  <2> QED BY <1>1, <2>1 DEF IInv, TypeOK, Pcs
<1>3. Progress' /\ RoutesTracked' /\ BypassComplete' /\ TornDown'
  BY <1>1 DEF IInv, Progress, RoutesTracked, BypassComplete, TornDown, Tracks
<1> QED BY <1>2, <1>3 DEF IInv

\* AppliedRoutes::remove takes the last one off both.
LEMMA RemoveRoutesStep == ASSUME IInv, RemoveRoutes PROVE IInv'
<1>1. /\ pc = "remove_routes"
      /\ UNCHANGED <<entries, tun, full, ipv6, planned, bypass, dnsServer, device, probe, status,
                     index, added, protected, stuck>>
      /\ index = 1 /\ refused' \in BOOLEAN
      /\ result \in {"ok", "start"}
      /\ index \in 1 .. Len(BypassEntries) + 1
  BY DEF RemoveRoutes, config, IInv, TypeOK, RoutesTracked, Progress
<1>2. CASE /\ routes \in {NoRoutes, <<>>} /\ routes' = NoRoutes /\ pc' = "stop_bypass"
           /\ UNCHANGED <<ourRoutes, result, refused>>
  <2>1. ourRoutes = {}
    BY <1>1, <1>2, EmptyTracks DEF IInv, RoutesTracked, Tracks
  <2>2. TypeOK'
    BY <1>1, <1>2 DEF IInv, TypeOK, Pcs
  <2>3. Progress' /\ RoutesTracked' /\ BypassComplete' /\ TornDown'
    BY <1>1, <1>2, <2>1 DEF IInv, Progress, RoutesTracked, BypassComplete, TornDown
  <2> QED BY <2>2, <2>3 DEF IInv
<1>3. CASE /\ routes \notin {NoRoutes, <<>>} /\ Last(routes) \in ourRoutes
           /\ ourRoutes' = ourRoutes \ {Last(routes)} /\ routes' = Front(routes)
           /\ UNCHANGED <<pc, result, refused>>
  <2>1. result = "ok" /\ routes \in Seq(RouteNames) /\ routes # <<>> /\ Tracks(routes)
    BY <1>1, <1>3 DEF IInv, TypeOK, RoutesTracked
  <2>2. /\ routes' \in Seq(RouteNames)
        /\ ToSet(routes') = ToSet(routes) \ {Last(routes)}
        /\ IsInjective(routes')
    BY <1>3, <2>1, FrontTracks DEF Tracks
  <2>3. routes' # NoRoutes /\ Tracks(routes)'
    BY <1>3, <2>1, <2>2, EmptyTracks DEF Tracks
  <2>4. TypeOK'
    BY <1>1, <1>3, <2>2 DEF IInv, TypeOK
  <2>5. Progress'
    BY <1>1, <1>3 DEF IInv, Progress
  <2>6. RoutesTracked'
    BY <1>1, <1>3, <2>1, <2>3 DEF IInv, RoutesTracked
  <2>7. BypassComplete' /\ TornDown'
    BY <1>1, <1>3 DEF IInv, BypassComplete, TornDown
  <2> QED BY <2>4, <2>5, <2>6, <2>7 DEF IInv
<1>4. CASE /\ \/ routes \notin {NoRoutes, <<>>} /\ Last(routes) \notin ourRoutes /\ UNCHANGED refused
              \/ routes # NoRoutes /\ refused' = TRUE
           /\ routes' = NoRoutes /\ pc' = "ended"
           /\ result' = (IF result = "ok" THEN "stop" ELSE result)
           /\ UNCHANGED ourRoutes
  <2>1. result' = "stop" => refused'
    <3>1. result = "ok" /\ routes \notin {NoRoutes, <<>>} => Last(routes) \in ourRoutes
      BY <1>1, FrontTracks DEF IInv, TypeOK, RoutesTracked, Tracks
    <3> QED BY <1>1, <1>4, <3>1
  <2>2. TypeOK'
    BY <1>1, <1>4 DEF IInv, TypeOK, Pcs
  <2>3. Progress' /\ RoutesTracked' /\ BypassComplete' /\ TornDown'
    BY <1>1, <1>4, <2>1 DEF IInv, Progress, RoutesTracked, BypassComplete, TornDown
  <2> QED BY <2>2, <2>3 DEF IInv
<1> QED BY <1>2, <1>3, <1>4 DEF RemoveRoutes

\* The bypass goes when the routes are gone, the device last.
LEMMA StopRestStep == ASSUME IInv, StopBypass \/ StopDevice PROVE IInv'
<1>1. CASE StopBypass
  <2>1. /\ pc = "stop_bypass"
        /\ index \in 1 .. Len(BypassEntries) + 1 /\ Len(BypassEntries) \in Nat
        /\ UNCHANGED <<ourRoutes, tun, full, ipv6, planned, routes, dnsServer, device, probe, status,
                       added, result, protected, refused>>
    BY <1>1, SessionAssumption DEF StopBypass, config, IInv, TypeOK
  <2>2. CASE /\ ~TeardownDone /\ index' = index + 1 /\ UNCHANGED <<bypass, pc>>
             /\ \/ entries' = entries \ {BypassEntries[index]} /\ stuck' = stuck \ {BypassEntries[index]}
                \/ stuck' = stuck \cup {BypassEntries[index]} /\ UNCHANGED entries
    <3>1. index \in 1 .. Len(BypassEntries) /\ BypassEntries[index] \in EntryNames
      <4>1. index \in 1 .. Len(BypassEntries)
        BY <2>1, <2>2 DEF TeardownDone
      <4> QED BY <4>1, SessionAssumption DEF EntryNames, ToSet
    <3>2. index' \in 1 .. Len(BypassEntries) + 1 /\ entries' \subseteq EntryNames /\ stuck' \subseteq EntryNames
      BY <2>1, <2>2, <3>1 DEF IInv, TypeOK
    <3>3. TypeOK'
      BY <2>1, <2>2, <3>2 DEF IInv, TypeOK, Pcs
    <3>4. Progress' /\ RoutesTracked' /\ BypassComplete'
      BY <2>1, <2>2 DEF IInv, Progress, RoutesTracked, BypassComplete
    <3>5. TornDown'
      <4>1. \A i \in 1 .. index' - 1 : i \in 1 .. index - 1 \/ i = index
        BY <2>1, <2>2
      <4>2. \A i \in 1 .. index' - 1 : BypassEntries[i] \in entries' => BypassEntries[i] \in stuck'
        BY <2>1, <2>2, <4>1 DEF IInv, TornDown
      <4> QED BY <2>1, <2>2, <4>2 DEF IInv, TornDown, Progress
    <3> QED BY <3>3, <3>4, <3>5 DEF IInv
  <2>3. CASE /\ TeardownDone /\ bypass' = "none" /\ pc' = "stop_device" /\ index' = 1
             /\ UNCHANGED <<entries, stuck>>
    <3>1. TypeOK'
      BY <2>1, <2>3 DEF IInv, TypeOK, Pcs
    <3>2. Progress' /\ RoutesTracked' /\ BypassComplete'
      BY <2>1, <2>3 DEF IInv, Progress, RoutesTracked, BypassComplete
    <3>3. protected => entries \subseteq stuck
      <4> SUFFICES ASSUME protected, NEW e \in entries PROVE e \in stuck
        OBVIOUS
      <4>1. index - 1 = Len(BypassEntries)
        BY <2>1, <2>3 DEF TeardownDone, IInv, BypassComplete
      <4>2. PICK i \in 1 .. Len(BypassEntries) : BypassEntries[i] = e
        <5>1. e \in EntryNames
          BY DEF IInv, TypeOK
        <5>2. DOMAIN BypassEntries = 1 .. Len(BypassEntries)
          BY SessionAssumption
        <5> QED BY <5>1, <5>2 DEF EntryNames, ToSet
      <4> QED BY <2>1, <4>1, <4>2 DEF IInv, TornDown
    <3>4. TornDown'
      BY <2>1, <2>3, <3>3 DEF IInv, TornDown, Progress
    <3> QED BY <3>1, <3>2, <3>4 DEF IInv
  <2> QED BY <1>1, <2>2, <2>3 DEF StopBypass
<1>2. CASE StopDevice
  <2>1. /\ pc = "stop_device" /\ pc' = "ended" /\ device' = FALSE /\ tun' = FALSE /\ ourRoutes' = {}
        /\ status' = "Stopped"
        /\ UNCHANGED <<entries, full, ipv6, planned, bypass, routes, dnsServer, probe,
                       index, added, result, protected, refused, stuck>>
    BY <1>2 DEF StopDevice, config, seen
  <2>2. TypeOK'
    <3>1. {tun', full', ipv6', dnsServer', device', probe', protected', refused'} \subseteq BOOLEAN
      BY <2>1, Zenon DEF IInv, TypeOK
    <3> QED BY <2>1, <3>1 DEF IInv, TypeOK, Pcs
  <2>3. Progress' /\ RoutesTracked' /\ BypassComplete' /\ TornDown'
    BY <2>1 DEF IInv, Progress, RoutesTracked, BypassComplete, TornDown
  <2> QED BY <2>2, <2>3 DEF IInv
<1> QED BY <1>1, <1>2

\* A session that is dropped, or whose process is killed, leaves no route.
LEMMA GoneStep == ASSUME IInv, DropSession \/ Crash PROVE IInv'
<1>1. /\ pc' = "none" /\ tun' = FALSE /\ ourRoutes' = {} /\ planned' = <<>>
      /\ bypass' = "none" /\ routes' = NoRoutes /\ dnsServer' = FALSE /\ device' = FALSE
      /\ probe' = FALSE /\ status' = "Created"
      /\ UNCHANGED <<entries, full, ipv6>>
      /\ \/ pc = "ended" /\ UNCHANGED <<index, added, result, protected, refused, stuck>>
         \/ index' = 1 /\ added' = <<>> /\ result' = "ok" /\ UNCHANGED <<protected, refused, stuck>>
  BY DEF DropSession, Crash, FreshSession, seen
<1>2. added' = <<>>
  BY <1>1 DEF IInv, RoutesTracked
<1>3. TypeOK'
  <2>1. index' \in 1 .. Len(BypassEntries) + 1
    BY <1>1, SessionAssumption DEF IInv, TypeOK
  <2>2. {tun', full', ipv6', dnsServer', device', probe', protected', refused'} \subseteq BOOLEAN
    BY <1>1, Zenon DEF IInv, TypeOK
  <2> QED BY <1>1, <1>2, <2>1, <2>2, EmptyTracks DEF IInv, TypeOK, Pcs
<1>4. Progress' /\ RoutesTracked' /\ BypassComplete' /\ TornDown'
  BY <1>1, <1>2 DEF IInv, Progress, RoutesTracked, BypassComplete, TornDown
<1> QED BY <1>3, <1>4 DEF IInv

\* Every step keeps the invariant.
LEMMA NextInv == IInv /\ [Next]_vars => IInv'
<1> SUFFICES ASSUME IInv, [Next]_vars PROVE IInv'
  OBVIOUS
<1>1. CASE UNCHANGED vars
  <2>1. UNCHANGED <<ourRoutes, entries, tun, full, ipv6, planned, bypass, routes, dnsServer, device,
                    probe, status, pc, index, added, result, protected, refused, stuck>>
    BY <1>1 DEF vars, kernel, config, session, seen
  <2> QED BY <2>1 DEF IInv, TypeOK, Progress, RoutesTracked, BypassComplete, TornDown, Tracks
<1>2. CASE Rollback
  BY <1>2, StartFailsStep DEF Rollback
<1> QED
  BY <1>1, <1>2, NewSessionStep, OpenTunStep, PrepareStep, BypassStep, AddRouteStep,
     RoutesAppliedStep, ServicesStep, StopStep, RemoveRoutesStep, StopRestStep, GoneStep
  DEF Next, Proceeds

\* What a session, the kernel and the observers may be, whatever the lists.
THEOREM TypeCorrect == Spec => []TypeOK
<1>1. IInv => TypeOK
  BY DEF IInv
<1> QED BY <1>1, InitInv, NextInv, PTL DEF Spec

\* From the first to the last of our routes a bypass that was set up is complete in
\* full-tunnel mode, whatever fails or is killed and however many sessions
\* came before.
THEOREM BypassAroundRoutes == Spec => []BypassOutlivesRoutes
<1>1. IInv => BypassOutlivesRoutes
  <2> SUFFICES ASSUME IInv, ourRoutes # {}, protected PROVE entries = EntryNames
    BY DEF BypassOutlivesRoutes
  <2>1. pc \in {"apply", "rollback", "running", "ended"} \cup AfterRoutes \cup Stopping
    BY DEF IInv, TypeOK, Pcs, RoutesTracked
  <2> QED BY <2>1 DEF IInv, BypassComplete
<1> QED BY <1>1, InitInv, NextInv, PTL DEF Spec

\* A stop that reaches its end leaves of the bypass only what the system
\* refused to delete, of this session and of those before it.
THEOREM StopCleansUp == Spec => []StopLeavesOnlyStuck
<1>1. IInv => StopLeavesOnlyStuck
  BY DEF IInv, TornDown, StopLeavesOnlyStuck
<1> QED BY <1>1, InitInv, NextInv, PTL DEF Spec

\* What remove() will delete is exactly what apply() has added and is still
\* there: no duplicate and no route of somebody else; so stop() fails only when
\* the kernel refuses.
THEOREM StopDeletesOurRoutes == Spec => []RunningIsTracked
<1>1. IInv => RunningIsTracked
  BY DEF IInv, RunningIsTracked, Progress, RoutesTracked, Tracks
<1> QED BY <1>1, InitInv, NextInv, PTL DEF Spec

=============================================================================
