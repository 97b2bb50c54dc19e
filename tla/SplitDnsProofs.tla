--------------------------- MODULE SplitDnsProofs ---------------------------
(***************************************************************************)
(* For any number of tasks, servers and questions, on any network: only    *)
(* queries that the dialer cannot bind come back through the TUN device,   *)
(* and SERVFAIL means that every server has failed.                        *)
(***************************************************************************)
EXTENDS SplitDns, TLAPS

-----------------------------------------------------------------------------
(* Types                                                                   *)

\* A part of TypeOK: what a query is asked and how it is answered.
TaskTypes ==
    /\ st \in [Tasks -> TaskStates]
    /\ kind \in [Tasks -> {"none", "tun", "server"}]
    /\ question \in [Tasks -> Questions \cup {Malformed}]
    /\ parent \in [Tasks -> (Tasks \X Endpoints) \cup {NoParent}]
    /\ route \in [Tasks -> {"none", "routed", "directed"}]
    /\ result \in [Tasks -> Results]
    /\ query \in [Tasks -> [Endpoints -> QueryStates]]

\* The rest of it.
SessionTypes ==
    /\ answers \in [Questions -> SUBSET SUBSET (V4Values \cup V6Values)]
    /\ split \subseteq Questions
    /\ full \in BOOLEAN /\ iface \in BOOLEAN /\ cancelled \in BOOLEAN
    /\ tunNets \subseteq FullNets \cup SplitNets \cup SystemServers
    /\ session \in SessionStates
    /\ servers \subseteq Endpoints
    /\ loop \in [Loops -> {"off", "serving", "ended"}]

\* The type invariant, spelt out.
LEMMA TypeParts == TypeOK <=> TaskTypes /\ SessionTypes
  <1>1. {full, iface, cancelled} \subseteq BOOLEAN
            <=> full \in BOOLEAN /\ iface \in BOOLEAN /\ cancelled \in BOOLEAN
    BY Zenon
  <1> QED
    BY <1>1, Zenon DEF TypeOK, TaskTypes, SessionTypes

\* The local answers are sets of addresses, whatever the tables hold.
LEMMA SynthesizeType ==
    ASSUME NEW tables, NEW type, NEW name
    PROVE  synthesize(tables, type, name) \in SUBSET SUBSET (V4Values \cup V6Values)
  <1> DEFINE n    == normalize_domain(name)
             four == lookup_v4(tables, n)
             six  == lookup_v6(tables, n)
  <1>1. \A S : /\ {v \cap V4Values : v \in S} \ {{}} \in SUBSET SUBSET (V4Values \cup V6Values)
               /\ {v \cap V6Values : v \in S} \in SUBSET SUBSET (V4Values \cup V6Values)
    OBVIOUS
  <1>2. {} \in SUBSET SUBSET (V4Values \cup V6Values) /\ {{}} \in SUBSET SUBSET (V4Values \cup V6Values)
    OBVIOUS
  <1> HIDE DEF n, four, six
  <1>3. synthesize(tables, type, name) =
            CASE n = <<>> -> {}
              [] n # <<>> /\ type = "A" -> {v \cap V4Values : v \in four} \ {{}}
              [] n # <<>> /\ type = "AAAA" /\ six # {} -> {v \cap V6Values : v \in six}
              [] n # <<>> /\ type = "AAAA" /\ six = {} -> IF four # {} THEN {{}} ELSE {}
              [] OTHER -> {}
    BY DEF synthesize, n, four, six
  <1>4. CASE n = <<>>
    BY <1>2, <1>3, <1>4
  <1>5. CASE n # <<>> /\ type = "A"
    BY <1>1, <1>3, <1>5
  <1>6. CASE n # <<>> /\ type = "AAAA" /\ six # {}
    BY <1>1, <1>3, <1>6
  <1>7. CASE n # <<>> /\ type = "AAAA" /\ six = {}
    BY <1>2, <1>3, <1>7
  <1>8. CASE n # <<>> /\ type # "A" /\ type # "AAAA"
    BY <1>2, <1>3, <1>8
  <1> QED
    BY <1>4, <1>5, <1>6, <1>7, <1>8

\* A session starts well typed.
LEMMA InitTypes == Init => TaskTypes /\ SessionTypes
  <1> SUFFICES ASSUME Init PROVE TaskTypes /\ SessionTypes
    OBVIOUS
  <1>1. answers \in [Questions -> SUBSET SUBSET (V4Values \cup V6Values)]
    <2>1. PICK tables \in Tables :
            answers = [x \in Questions |-> synthesize(tables, x.type, x.name)]
      BY DEF Init
    <2>2. \A x \in Questions :
            synthesize(tables, x.type, x.name) \in SUBSET SUBSET (V4Values \cup V6Values)
      BY SynthesizeType
    <2> QED
      BY <2>1, <2>2
  <1>2. TaskTypes
    BY DEF Init, TaskTypes, TaskStates, Results, QueryStates
  <1>3. /\ split \subseteq Questions /\ full \in BOOLEAN /\ iface \in BOOLEAN /\ cancelled \in BOOLEAN
        /\ tunNets \subseteq FullNets \cup SplitNets \cup SystemServers
    BY DnsAssumption DEF Init
  <1>4. session \in SessionStates /\ servers \subseteq Endpoints
    BY DEF Init, SessionStates
  <1>5. loop \in [Loops -> {"off", "serving", "ended"}]
    BY DEF Init
  <1> QED
    BY <1>1, <1>2, <1>3, <1>4, <1>5 DEF SessionTypes

\* Steps of the session keep the types.
LEMMA SessionKeepsTypes ==
    ASSUME TaskTypes, SessionTypes, SessionStep \/ Stop
    PROVE  TaskTypes' /\ SessionTypes'
  <1> USE DEF taskVars, SessionStates
  <1>1. TaskTypes'
    BY DEF SessionStep, Stop, ResolveVpnServers, StartServer, RemoveRoutes, StopDevice, LoopEnds,
           TaskTypes
  <1>2. CASE ResolveVpnServers
    <2>1. servers' \subseteq Endpoints
      BY <1>2 DEF ResolveVpnServers, Addrs, Named, Endpoints
    <2> QED
      BY <1>1, <1>2, <2>1 DEF ResolveVpnServers, SessionTypes
  <1>3. CASE StartServer
    BY <1>1, <1>3 DEF StartServer, SessionTypes
  <1>4. CASE RemoveRoutes \/ StopDevice \/ Stop
    BY <1>1, <1>4 DEF RemoveRoutes, StopDevice, Stop, SessionTypes
  <1>5. ASSUME NEW l \in Loops, LoopEnds(l)
        PROVE  SessionTypes'
    BY <1>5 DEF LoopEnds, SessionTypes
  <1> QED
    BY <1>1, <1>2, <1>3, <1>4, <1>5 DEF SessionStep

\* The state of one query, typed after a change of it.
LEMMA QueryTypes ==
    ASSUME TaskTypes, NEW t \in Tasks, NEW e \in Endpoints, NEW v \in QueryStates
    PROVE  [query EXCEPT ![t][e] = v] \in [Tasks -> [Endpoints -> QueryStates]]
  BY DEF TaskTypes

\* Steps of a task keep the types.
LEMMA TaskKeepsTypes ==
    ASSUME TaskTypes, NEW t \in Tasks, TaskStep(t) \/ \E e \in Endpoints : Receive(t, e)
    PROVE  TaskTypes' /\ UNCHANGED sessionVars
  <1>1. CASE Resolve(t)
    <2>1. \A x : Failure(x) \in Results
      BY DEF Failure, Results
    <2>2. st' \in [Tasks -> TaskStates] /\ route' \in [Tasks -> {"none", "routed", "directed"}]
      BY <1>1 DEF Resolve, TaskTypes, TaskStates
    <2>3. result' \in [Tasks -> Results]
      <3>1. "local" \in Results
        BY DEF Results
      <3> QED
        BY <1>1, <2>1, <3>1 DEF Resolve, TaskTypes
    <2>4. query' \in [Tasks -> [Endpoints -> QueryStates]]
      <3> DEFINE row == [e \in Endpoints |-> IF e \in Upstreams(question[t]) THEN "spawned"
                                            ELSE "none"]
      <3>1. row \in [Endpoints -> QueryStates]
        BY DEF QueryStates
      <3>2. query' = query \/ query' = [query EXCEPT ![t] = row]
        BY <1>1 DEF Resolve
      <3> HIDE DEF row
      <3> QED
        BY <3>1, <3>2 DEF TaskTypes
    <2> QED
      BY <1>1, <2>2, <2>3, <2>4 DEF Resolve, TaskTypes
  <1>2. CASE Collect(t)
    <2>1. \E r \in Results : result' = [result EXCEPT ![t] = r]
      BY <1>2 DEF Collect, Failure, Results
    <2> QED
      BY <1>2, <2>1 DEF Collect, TaskTypes, TaskStates
  <1>3. CASE Reply(t)
    <2>1. query' \in [Tasks -> [Endpoints -> QueryStates]]
      <3>1. CASE parent[t] # NoParent
        <4>1. parent[t][1] \in Tasks /\ parent[t][2] \in Endpoints
          BY <3>1 DEF TaskTypes
        <4>2. "ok" \in QueryStates
          BY DEF QueryStates
        <4> QED
          BY <1>3, <4>1, <4>2, QueryTypes DEF Reply, TaskTypes
      <3>2. CASE parent[t] = NoParent
        BY <1>3, <3>2 DEF Reply, TaskTypes
      <3> QED
        BY <3>1, <3>2
    <2> QED
      BY <1>3, <2>1 DEF Reply, TaskTypes, TaskStates
  <1>4. ASSUME NEW e \in Endpoints, Send(t, e) \/ Timeout(t, e) \/ Receive(t, e)
        PROVE  TaskTypes' /\ UNCHANGED sessionVars
    <2>1. \E v \in QueryStates : query' = [query EXCEPT ![t][e] = v]
      BY <1>4 DEF Send, Timeout, Receive, QueryStates
    <2>2. query' \in [Tasks -> [Endpoints -> QueryStates]]
      BY <2>1, QueryTypes
    <2> QED
      BY <1>4, <2>2 DEF Send, Timeout, Receive, TaskTypes
  <1> QED
    BY <1>1, <1>2, <1>3, <1>4 DEF TaskStep

\* A task that is spawned is well typed.
LEMMA SpawnTypes ==
    ASSUME TaskTypes, NEW t \in Tasks, NEW k \in {"tun", "server"},
           NEW x \in Questions \cup {Malformed}, NEW p \in (Tasks \X Endpoints) \cup {NoParent},
           Spawn(t, k, x, p), UNCHANGED <<route, result>>,
           query' \in [Tasks -> [Endpoints -> QueryStates]]
    PROVE  TaskTypes'
  BY DEF Spawn, TaskTypes, TaskStates

\* Packets that are read keep the types.
LEMMA PacketKeepsTypes ==
    ASSUME TaskTypes, NEW t \in Tasks,
           \/ \E x \in Questions \cup {Malformed} :
                ClientQuery(t, x) \/ \E l \in Loops : ServeQuery(l, t, x)
           \/ \E e \in Endpoints : RecvOwn(t, e)
    PROVE  TaskTypes' /\ UNCHANGED sessionVars
  <1>1. ASSUME NEW x \in Questions \cup {Malformed}, NEW l \in Loops,
               ClientQuery(t, x) \/ ServeQuery(l, t, x)
        PROVE  TaskTypes' /\ UNCHANGED sessionVars
    <2>1. query' \in [Tasks -> [Endpoints -> QueryStates]]
      BY <1>1 DEF ClientQuery, ServeQuery, TaskTypes
    <2> QED
      BY <1>1, <2>1, SpawnTypes DEF ClientQuery, ServeQuery
  <1>2. ASSUME NEW e \in Endpoints, RecvOwn(t, e)
        PROVE  TaskTypes' /\ UNCHANGED sessionVars
    <2>1. "hijacked" \in QueryStates /\ "wireguard" \in QueryStates
      BY DEF QueryStates
    <2>2. query' \in [Tasks -> [Endpoints -> QueryStates]]
      BY <1>2, <2>1, QueryTypes DEF RecvOwn
    <2>3. question[t] \in Questions \cup {Malformed} /\ <<t, e>> \in Tasks \X Endpoints
      BY DEF TaskTypes
    <2>4. CASE Hijacked(e[1], e[2])
      BY <1>2, <2>2, <2>3, <2>4, SpawnTypes DEF RecvOwn
    <2>5. CASE ~Hijacked(e[1], e[2])
      BY <1>2, <2>2, <2>5 DEF RecvOwn, TaskTypes
    <2> QED
      BY <2>4, <2>5
  <1>3. \E l : l \in Loops
    BY DEF Loops
  <1> QED
    BY <1>1, <1>2, <1>3

\* Every step keeps the types.
LEMMA NextTypes == TaskTypes /\ SessionTypes /\ [Next]_vars => TaskTypes' /\ SessionTypes'
  <1> SUFFICES ASSUME TaskTypes, SessionTypes, [Next]_vars PROVE TaskTypes' /\ SessionTypes'
    OBVIOUS
  <1>1. UNCHANGED sessionVars => SessionTypes'
    BY DEF sessionVars, SessionTypes
  <1>2. CASE UNCHANGED vars
    BY <1>1, <1>2 DEF vars, taskVars, TaskTypes
  <1> QED
    BY <1>1, <1>2, SessionKeepsTypes, TaskKeepsTypes, PacketKeepsTypes DEF Next

\* The variables have their types: answers hold addresses only, the servers
\* are those of the configuration, and a task's packet has a sender.
THEOREM TypeCorrect == Spec => []TypeOK
  <1>1. TaskTypes /\ SessionTypes => TypeOK
    BY TypeParts
  <1> QED
    BY <1>1, InitTypes, NextTypes, PTL DEF Spec

-----------------------------------------------------------------------------
(* What comes back                                                         *)

Early   == {"routes_applied", "tun_built"}
NotYet  == {"idle", "resolving"}

\* Nothing is asked before the servers are known, and a task that has not
\* resolved yet has neither a route nor a query.
Fresh ==
    \A t \in Tasks :
        /\ session \in Early => st[t] = "idle"
        /\ st[t] \in NotYet => route[t] = "none" /\ \A e \in Endpoints : query[t][e] = "none"

\* A routed query goes to one of the servers that recv exempts.
Sides ==
    \A t \in Tasks, e \in Endpoints : query[t][e] # "none" =>
        route[t] = "directed" \/ (route[t] = "routed" /\ e \in servers)

\* What waits in the TUN device is routed, or could not be kept out.
InTun ==
    \A t \in Tasks, e \in Endpoints :
        query[t][e] = "in_tun" => route[t] = "routed" \/ Unkept(t, e)

\* The DNS server starts last.
ServerStartsLast == session \in Early => \A l \in Loops : loop[l] = "off"

QueryInv == Fresh /\ Sides /\ InTun /\ ServerStartsLast

\* One query that is under way changes its state; tasks are spawned or end.
LEMMA OneQuery ==
    ASSUME TaskTypes, QueryInv,
           NEW t \in Tasks, NEW e \in Endpoints, NEW v \in QueryStates,
           query[t][e] # "none",
           query' = [query EXCEPT ![t][e] = v],
           v = "in_tun" => route[t] = "routed" \/ Unkept(t, e),
           \A u \in Tasks : st'[u] \in NotYet => st[u] \in NotYet,
           UNCHANGED <<iface, session, servers, loop, route>>
    PROVE  QueryInv'
  <1> USE DEF QueryInv
  <1>1. /\ query'[t][e] = v
        /\ \A u \in Tasks, f \in Endpoints :
              <<u, f>> # <<t, e>> => query'[u][f] = query[u][f]
    BY DEF TaskTypes
  <1>2. st[t] \notin NotYet
    BY DEF Fresh
  <1>3. session \notin Early
    BY <1>2 DEF Fresh, NotYet
  <1>4. Fresh'
    BY <1>1, <1>2, <1>3 DEF Fresh
  <1>5. Sides' /\ ServerStartsLast'
    BY <1>1, <1>3 DEF Sides, ServerStartsLast
  <1>6. InTun'
    BY <1>1 DEF InTun, Unkept
  <1> QED
    BY <1>4, <1>5, <1>6

\* The session moves on; no task is concerned.
LEMMA SessionOnly ==
    ASSUME QueryInv,
           session' \in Early => session \in Early /\ UNCHANGED loop,
           UNCHANGED <<iface, servers, taskVars>>
    PROVE  QueryInv'
  <1> USE DEF QueryInv, taskVars
  <1>1. Sides' /\ InTun' /\ ServerStartsLast'
    BY DEF Sides, InTun, Unkept, ServerStartsLast
  <1>2. Fresh'
    BY DEF Fresh
  <1> QED
    BY <1>1, <1>2

\* Queries and routes rest; tasks are spawned, go on or end.
LEMMA QueriesStay ==
    ASSUME QueryInv, session \notin Early,
           \A u \in Tasks : st'[u] \in NotYet => st[u] \in NotYet,
           UNCHANGED <<iface, session, servers, loop, route, query>>
    PROVE  QueryInv'
  BY DEF QueryInv, Fresh, Sides, InTun, Unkept, ServerStartsLast

\* A task chooses a side, and asks the servers of it only.
LEMMA ResolveInv ==
    ASSUME TaskTypes, QueryInv, NEW t \in Tasks, Resolve(t) PROVE QueryInv'
  <1> USE DEF sessionVars
  <1> DEFINE x    == question[t]
             row  == [e \in Endpoints |-> IF e \in Upstreams(x) THEN "spawned" ELSE "none"]
             side == IF route_through_vpn(x) THEN "routed" ELSE "directed"
  <1>1. /\ st[t] = "resolving"
        /\ st'[t] \notin NotYet
        /\ \A u \in Tasks \ {t} : st'[u] = st[u]
        /\ UNCHANGED <<iface, session, servers, loop>>
    BY DEF Resolve, TaskTypes, NotYet
  <1>2. session \notin Early /\ \A e \in Endpoints : query[t][e] = "none"
    BY <1>1 DEF QueryInv, Fresh, NotYet
  <1>3. UNCHANGED route \/ route' = [route EXCEPT ![t] = side]
    BY DEF Resolve
  <1>4. \/ UNCHANGED query
        \/ query' = [query EXCEPT ![t] = row] /\ route' = [route EXCEPT ![t] = side]
    BY DEF Resolve
  <1>5. \A e \in Endpoints : row[e] # "none" =>
            /\ row[e] = "spawned"
            /\ side = "directed" \/ (side = "routed" /\ e \in servers)
    BY DEF Upstreams
  <1> HIDE DEF row, side
  <1>6. \A u \in Tasks \ {t} : query'[u] = query[u] /\ route'[u] = route[u]
    BY <1>3, <1>4 DEF TaskTypes
  <1>7. \/ \A e \in Endpoints : query'[t][e] = "none"
        \/ query'[t] = row /\ route'[t] = side
    BY <1>2, <1>4 DEF TaskTypes
  <1>8. Fresh'
    BY <1>1, <1>2, <1>6 DEF QueryInv, Fresh
  <1>9. Sides' /\ InTun'
    BY <1>1, <1>5, <1>6, <1>7 DEF QueryInv, Sides, InTun, Unkept
  <1>10. ServerStartsLast'
    BY <1>1, <1>2 DEF ServerStartsLast
  <1> QED
    BY <1>8, <1>9, <1>10 DEF QueryInv

\* A directed query that reaches the TUN device was sent from a socket that is
\* bound to no interface.
LEMMA SendInv ==
    ASSUME TaskTypes, QueryInv, NEW t \in Tasks, NEW e \in Endpoints, Send(t, e) PROVE QueryInv'
  <1>1. PICK v \in QueryStates :
            /\ query' = [query EXCEPT ![t][e] = v]
            /\ v = "in_tun" => ~Bound(t, e[1])
    BY DEF Send, QueryStates
  <1>2. route[t] = "directed" \/ route[t] = "routed"
    BY DEF QueryInv, Sides, Send
  <1>3. v = "in_tun" => route[t] = "routed" \/ Unkept(t, e)
    BY <1>1, <1>2 DEF Bound, Unkept
  <1> QED
    BY <1>1, <1>3, OneQuery DEF Send, sessionVars

\* Every step keeps what is known of the queries.
LEMMA NextQueries == TaskTypes /\ QueryInv /\ [Next]_vars => QueryInv'
  <1> SUFFICES ASSUME TaskTypes, QueryInv, [Next]_vars PROVE QueryInv'
    OBVIOUS
  <1> USE DEF sessionVars
  <1>1. CASE ResolveVpnServers
    <2>1. /\ session = "routes_applied" /\ session' = "tun_built"
          /\ UNCHANGED <<iface, loop, taskVars>>
      BY <1>1 DEF ResolveVpnServers
    <2>2. \A t \in Tasks, e \in Endpoints : query[t][e] = "none" /\ st[t] = "idle"
      BY <2>1 DEF QueryInv, Fresh, Early, NotYet
    <2> QED
      BY <2>1, <2>2 DEF QueryInv, Fresh, Sides, InTun, ServerStartsLast, taskVars, Early
  <1>2. CASE StartServer \/ RemoveRoutes \/ StopDevice \/ Stop
    BY <1>2, SessionOnly DEF StartServer, RemoveRoutes, StopDevice, Stop, Early
  <1>3. ASSUME NEW l \in Loops, LoopEnds(l) PROVE QueryInv'
    BY <1>3, SessionOnly DEF LoopEnds, QueryInv, ServerStartsLast
  <1>4. ASSUME NEW t \in Tasks, Collect(t) PROVE QueryInv'
    <2>1. session \notin Early
      BY <1>4 DEF Collect, QueryInv, Fresh
    <2>2. \A u \in Tasks : st'[u] \in NotYet => st[u] \in NotYet
      BY <1>4 DEF Collect, TaskTypes, NotYet
    <2> QED
      BY <1>4, <2>1, <2>2, QueriesStay DEF Collect
  <1>5. ASSUME NEW t \in Tasks, Reply(t) PROVE QueryInv'
    <2>1. session \notin Early
      BY <1>5 DEF Reply, QueryInv, Fresh
    <2>2. \A u \in Tasks : st'[u] \in NotYet => st[u] \in NotYet
      BY <1>5 DEF Reply, TaskTypes, NotYet
    <2>3. CASE UNCHANGED query
      BY <1>5, <2>1, <2>2, <2>3, QueriesStay DEF Reply
    <2>4. CASE query' # query
      <3>1. /\ parent[t] # NoParent /\ query[parent[t][1]][parent[t][2]] = "hijacked"
            /\ query' = [query EXCEPT ![parent[t][1]][parent[t][2]] = "ok"]
        BY <1>5, <2>4 DEF Reply
      <3>2. PICK p \in Tasks, f \in Endpoints :
                query[p][f] # "none" /\ query' = [query EXCEPT ![p][f] = "ok"]
        BY <3>1 DEF TaskTypes
      <3> QED
        BY <1>5, <2>2, <3>2, OneQuery DEF Reply, QueryStates
    <2> QED
      BY <2>3, <2>4
  <1>6. ASSUME NEW t \in Tasks, NEW e \in Endpoints, Timeout(t, e) \/ Receive(t, e)
        PROVE  QueryInv'
    BY <1>6, OneQuery DEF Timeout, Receive, QueryStates
  <1>7. ASSUME NEW t \in Tasks, NEW k, NEW x, NEW p, Spawn(t, k, x, p)
        PROVE  \A u \in Tasks : st'[u] \in NotYet => st[u] \in NotYet
    BY <1>7 DEF Spawn, TaskTypes, NotYet
  <1>8. ASSUME NEW t \in Tasks, NEW x, ClientQuery(t, x) PROVE QueryInv'
    BY <1>7, <1>8, QueriesStay DEF ClientQuery, Reading, Early
  <1>9. ASSUME NEW t \in Tasks, NEW x, NEW l \in Loops, ServeQuery(l, t, x) PROVE QueryInv'
    <2>1. session \notin Early
      BY <1>9 DEF ServeQuery, QueryInv, ServerStartsLast
    <2> QED
      BY <1>7, <1>9, <2>1, QueriesStay DEF ServeQuery
  <1>10. ASSUME NEW t \in Tasks, NEW e \in Endpoints, RecvOwn(t, e) PROVE QueryInv'
    <2>1. \A u \in Tasks : st'[u] \in NotYet => st[u] \in NotYet
      <3>1. CASE Hijacked(e[1], e[2])
        BY <1>7, <1>10, <3>1 DEF RecvOwn
      <3>2. CASE ~Hijacked(e[1], e[2])
        BY <1>10, <3>2 DEF RecvOwn
      <3> QED
        BY <3>1, <3>2
    <2>2. PICK v \in {"hijacked", "wireguard"} : query' = [query EXCEPT ![t][e] = v]
      BY <1>10 DEF RecvOwn
    <2> QED
      BY <1>10, <2>1, <2>2, OneQuery DEF RecvOwn, QueryStates
  <1>11. CASE UNCHANGED vars
    BY <1>11, SessionOnly DEF vars
  <1> QED
    BY <1>1, <1>2, <1>3, <1>4, <1>5, <1>6, <1>8, <1>9, <1>10, <1>11, ResolveInv, SendInv
    DEF Next, SessionStep, TaskStep

\* No task gets a packet of ours, and a route that is chosen stays.
LEMMA ParentsStay ==
    ASSUME OnlyUnkeptComeBack, TaskTypes,
           \A u \in Tasks : parent'[u] \in {parent[u], NoParent},
           \A u \in Tasks : route[u] = "directed" => route'[u] = "directed",
           UNCHANGED iface
    PROVE  OnlyUnkeptComeBack'
  <1> SUFFICES ASSUME NEW t \in Tasks, parent'[t] # NoParent
               PROVE  Unkept(parent[t][1], parent[t][2])'
    BY DEF OnlyUnkeptComeBack
  <1>1. parent'[t] = parent[t] /\ parent[t][1] \in Tasks
    BY DEF TaskTypes
  <1> QED
    BY <1>1 DEF OnlyUnkeptComeBack, Unkept

\* Every step keeps it: what recv takes for a query of an application is no
\* packet to an exempt server, so it is one that could not be kept out.
LEMMA NextParents ==
    TaskTypes /\ QueryInv /\ OnlyUnkeptComeBack /\ [Next]_vars => OnlyUnkeptComeBack'
  <1> SUFFICES ASSUME TaskTypes, QueryInv, OnlyUnkeptComeBack, [Next]_vars
               PROVE  OnlyUnkeptComeBack'
    OBVIOUS
  <1> USE DEF sessionVars, taskVars
  <1>1. CASE SessionStep \/ Stop \/ UNCHANGED vars
    <2>1. UNCHANGED <<iface, parent, route>>
      BY <1>1 DEF SessionStep, Stop, ResolveVpnServers, StartServer, RemoveRoutes, StopDevice,
                  LoopEnds, vars
    <2> QED
      BY <2>1, ParentsStay
  <1>2. ASSUME NEW t \in Tasks, Resolve(t) PROVE OnlyUnkeptComeBack'
    <2>1. st[t] = "resolving" /\ UNCHANGED <<iface, parent>>
      BY <1>2 DEF Resolve
    <2>2. route[t] = "none"
      BY <2>1 DEF QueryInv, Fresh, NotYet
    <2>3. \A u \in Tasks \ {t} : route'[u] = route[u]
      BY <1>2 DEF Resolve, TaskTypes
    <2> QED
      BY <2>1, <2>2, <2>3, ParentsStay
  <1>3. ASSUME NEW t \in Tasks, NEW e \in Endpoints,
               \/ Collect(t) \/ Reply(t)
               \/ Send(t, e) \/ Timeout(t, e) \/ Receive(t, e)
        PROVE  OnlyUnkeptComeBack'
    <2>1. UNCHANGED <<iface, parent, route>>
      BY <1>3 DEF Collect, Reply, Send, Timeout, Receive
    <2> QED
      BY <2>1, ParentsStay
  <1>4. ASSUME NEW t \in Tasks, Collect(t) \/ Reply(t)
        PROVE  OnlyUnkeptComeBack'
    <2>1. UNCHANGED <<iface, parent, route>>
      BY <1>4 DEF Collect, Reply
    <2> QED
      BY <2>1, ParentsStay
  <1>5. ASSUME NEW t \in Tasks, NEW x, NEW l, ClientQuery(t, x) \/ ServeQuery(l, t, x)
        PROVE  OnlyUnkeptComeBack'
    <2>1. UNCHANGED <<iface, route>> /\ parent' = [parent EXCEPT ![t] = NoParent]
      BY <1>5 DEF ClientQuery, ServeQuery, Spawn
    <2>2. \A u \in Tasks : parent'[u] \in {parent[u], NoParent}
      BY <2>1 DEF TaskTypes
    <2> QED
      BY <2>1, <2>2, ParentsStay
  <1>6. ASSUME NEW t \in Tasks, NEW e \in Endpoints, RecvOwn(t, e)
        PROVE  OnlyUnkeptComeBack'
    <2>1. UNCHANGED <<iface, route>>
      BY <1>6 DEF RecvOwn
    <2>2. CASE ~Hijacked(e[1], e[2])
      BY <1>6, <2>1, <2>2, ParentsStay DEF RecvOwn
    <2>3. CASE Hijacked(e[1], e[2])
      <3>1. e \notin servers
        BY <2>3 DEF Hijacked
      <3>2. Unkept(t, e)
        BY <1>6, <3>1 DEF RecvOwn, QueryInv, Sides, InTun, Unkept
      <3>3. PICK c \in Tasks : parent' = [parent EXCEPT ![c] = <<t, e>>]
        BY <1>6, <2>3 DEF RecvOwn, Spawn
      <3>4. parent'[c] = <<t, e>> /\ \A u \in Tasks \ {c} : parent'[u] = parent[u]
        BY <3>3 DEF TaskTypes
      <3> SUFFICES ASSUME NEW u \in Tasks, parent'[u] # NoParent
                   PROVE  Unkept(parent[u][1], parent[u][2])'
        BY DEF OnlyUnkeptComeBack
      <3>5. CASE u = c
        BY <2>1, <3>2, <3>4, <3>5 DEF Unkept
      <3>6. CASE u # c
        BY <2>1, <3>4, <3>6 DEF OnlyUnkeptComeBack, Unkept
      <3> QED
        BY <3>5, <3>6
    <2> QED
      BY <2>2, <2>3
  <1> QED
    BY <1>1, <1>2, <1>3, <1>4, <1>5, <1>6 DEF Next, TaskStep

\* On any network, with or without an interface and whatever the routes: the
\* resolver takes a packet of its own for one of an application only if it is a
\* query of the directed transport that bind_udp_to leaves unbound.  What the
\* routed transport sends is exempt, although recv compares addresses with the
\* list that resolve_vpn_servers found once, at the start.
THEOREM ForwardingLoopsOnlyUnbound == Spec => []OnlyUnkeptComeBack
  <1>1. Init => QueryInv /\ OnlyUnkeptComeBack
    BY DEF Init, QueryInv, Fresh, Sides, InTun, ServerStartsLast, OnlyUnkeptComeBack
  <1> QED
    BY <1>1, InitTypes, NextTypes, NextQueries, NextParents, PTL DEF Spec

-----------------------------------------------------------------------------
(* SERVFAIL                                                                *)

\* A task that has not resolved yet has no result and no query, and one that
\* waits has no result.
Unresolved ==
    \A t \in Tasks :
        /\ st[t] \in {"idle", "resolving"} =>
              result[t] = "none" /\ \A e \in Endpoints : query[t][e] = "none"
        /\ st[t] = "waiting" => result[t] = "none"

FailedInv == Unresolved /\ ServfailMeansAllFailed

\* One query that is under way changes its state.
LEMMA QueryMoves ==
    ASSUME TaskTypes, FailedInv, NEW t \in Tasks, NEW e \in Endpoints, NEW v \in QueryStates,
           query[t][e] \notin {"none", "failed"}, query' = [query EXCEPT ![t][e] = v],
           UNCHANGED result,
           \A u \in Tasks : st'[u] # st[u] => st'[u] = "done" \/ (st[u] = "idle" /\ st'[u] = "resolving")
    PROVE  FailedInv'
  <1>1. /\ query'[t][e] = v
        /\ \A u \in Tasks, f \in Endpoints : <<u, f>> # <<t, e>> => query'[u][f] = query[u][f]
    BY DEF TaskTypes
  <1>2. result[t] \notin {"servfail", "echo"} /\ st[t] \notin {"idle", "resolving"}
    BY DEF FailedInv, Unresolved, ServfailMeansAllFailed
  <1>3. Unresolved'
    BY <1>1, <1>2 DEF FailedInv, Unresolved
  <1>4. ServfailMeansAllFailed'
    BY <1>1, <1>2 DEF FailedInv, ServfailMeansAllFailed
  <1> QED
    BY <1>3, <1>4 DEF FailedInv

\* No query changes, and no task gets a result or goes back.
LEMMA QueriesRest ==
    ASSUME FailedInv, UNCHANGED <<result, query>>,
           \A u \in Tasks : st'[u] # st[u] => st'[u] = "done" \/ (st[u] = "idle" /\ st'[u] = "resolving")
    PROVE  FailedInv'
  BY DEF FailedInv, Unresolved, ServfailMeansAllFailed

\* Every step of a task keeps the results what its queries say.
LEMMA TaskFails ==
    ASSUME TaskTypes, FailedInv, NEW t \in Tasks, Resolve(t) \/ Collect(t) \/ Reply(t)
    PROVE  FailedInv'
  <1>1. CASE Resolve(t)
    <2> DEFINE x   == question[t]
               row == [e \in Endpoints |-> IF e \in Upstreams(x) THEN "spawned" ELSE "none"]
    <2>1. result[t] = "none" /\ \A e \in Endpoints : query[t][e] = "none"
      BY <1>1 DEF Resolve, FailedInv, Unresolved
    <2>2. \/ /\ st' = [st EXCEPT ![t] = "waiting"] /\ query' = [query EXCEPT ![t] = row]
             /\ UNCHANGED result
          \/ \E r \in {"local", Failure(x)} :
                /\ st' = [st EXCEPT ![t] = "replying"] /\ result' = [result EXCEPT ![t] = r]
                /\ UNCHANGED query
      BY <1>1 DEF Resolve
    <2> HIDE DEF x, row
    <2>3. CASE /\ st' = [st EXCEPT ![t] = "waiting"] /\ query' = [query EXCEPT ![t] = row]
               /\ UNCHANGED result
      <3>1. st'[t] = "waiting" /\ \A u \in Tasks \ {t} : st'[u] = st[u] /\ query'[u] = query[u]
        BY <2>3 DEF TaskTypes
      <3> QED
        BY <2>1, <2>3, <3>1 DEF FailedInv, Unresolved, ServfailMeansAllFailed
    <2>4. ASSUME NEW r, st' = [st EXCEPT ![t] = "replying"], result' = [result EXCEPT ![t] = r],
                 UNCHANGED query
          PROVE  FailedInv'
      <3>1. st'[t] = "replying" /\ \A u \in Tasks \ {t} : st'[u] = st[u] /\ result'[u] = result[u]
        BY <2>4 DEF TaskTypes
      <3> QED
        BY <2>1, <2>4, <3>1 DEF FailedInv, Unresolved, ServfailMeansAllFailed
    <2> QED
      BY <2>2, <2>3, <2>4
  <1>2. CASE Collect(t)
    <2>1. /\ st' = [st EXCEPT ![t] = "replying"] /\ UNCHANGED query
          /\ \E r \in Results : result' = [result EXCEPT ![t] = r]
          /\ \/ result' = [result EXCEPT ![t] = "upstream"]
             \/ \A e \in Endpoints : query[t][e] \in {"none", "failed"}
      BY <1>2 DEF Collect, Failure, Results
    <2>2. st'[t] = "replying"
          /\ \A u \in Tasks \ {t} : st'[u] = st[u] /\ result'[u] = result[u]
      BY <2>1 DEF TaskTypes
    <2>3. result'[t] = "upstream" \/ \A e \in Endpoints : query[t][e] \in {"none", "failed"}
      BY <2>1 DEF TaskTypes
    <2> QED
      BY <2>1, <2>2, <2>3 DEF FailedInv, Unresolved, ServfailMeansAllFailed
  <1>3. CASE Reply(t)
    <2>1. UNCHANGED result /\ \A u \in Tasks : st'[u] # st[u] => st'[u] = "done"
      BY <1>3 DEF Reply, TaskTypes
    <2>2. CASE UNCHANGED query
      BY <2>1, <2>2, QueriesRest
    <2>3. CASE query' # query
      <3>1. /\ parent[t] # NoParent /\ query[parent[t][1]][parent[t][2]] = "hijacked"
            /\ query' = [query EXCEPT ![parent[t][1]][parent[t][2]] = "ok"]
        BY <1>3, <2>3 DEF Reply
      <3>2. parent[t][1] \in Tasks /\ parent[t][2] \in Endpoints /\ "ok" \in QueryStates
        BY <3>1 DEF TaskTypes, QueryStates
      <3> QED
        BY <2>1, <3>1, <3>2, QueryMoves
    <2> QED
      BY <2>2, <2>3
  <1> QED
    BY <1>1, <1>2, <1>3

\* Every step keeps the results what the queries say.
LEMMA NextFails == TaskTypes /\ FailedInv /\ [Next]_vars => FailedInv'
  <1> SUFFICES ASSUME TaskTypes, FailedInv, [Next]_vars PROVE FailedInv'
    OBVIOUS
  <1> USE DEF sessionVars, taskVars
  <1>1. CASE SessionStep \/ Stop
    <2>1. UNCHANGED <<st, result, query>>
      BY <1>1 DEF SessionStep, Stop, ResolveVpnServers, StartServer, RemoveRoutes, StopDevice,
                  LoopEnds
    <2> QED
      BY <2>1, QueriesRest
  <1>2. ASSUME NEW t \in Tasks, NEW e \in Endpoints, Send(t, e) \/ Timeout(t, e) \/ Receive(t, e)
        PROVE  FailedInv'
    <2>1. /\ \E v \in QueryStates : query' = [query EXCEPT ![t][e] = v]
          /\ query[t][e] \notin {"none", "failed"} /\ UNCHANGED <<st, result>>
      BY <1>2 DEF Send, Timeout, Receive, QueryStates
    <2> QED
      BY <2>1, QueryMoves
  <1>3. ASSUME NEW t \in Tasks, NEW k, NEW x, NEW p, Spawn(t, k, x, p)
        PROVE  \A u \in Tasks : st'[u] # st[u] => st[u] = "idle" /\ st'[u] = "resolving"
    BY <1>3 DEF Spawn, TaskTypes
  <1>4. ASSUME NEW t \in Tasks, NEW x, NEW l, ClientQuery(t, x) \/ ServeQuery(l, t, x)
        PROVE  FailedInv'
    BY <1>3, <1>4, QueriesRest DEF ClientQuery, ServeQuery
  <1>5. ASSUME NEW t \in Tasks, NEW e \in Endpoints, RecvOwn(t, e)
        PROVE  FailedInv'
    <2>1. /\ \E v \in QueryStates : query' = [query EXCEPT ![t][e] = v]
          /\ query[t][e] \notin {"none", "failed"} /\ UNCHANGED result
      BY <1>5 DEF RecvOwn, QueryStates
    <2>2. \A u \in Tasks : st'[u] # st[u] => st[u] = "idle" /\ st'[u] = "resolving"
      <3>1. CASE Hijacked(e[1], e[2])
        BY <1>3, <1>5, <3>1 DEF RecvOwn
      <3>2. CASE ~Hijacked(e[1], e[2])
        BY <1>5, <3>2 DEF RecvOwn
      <3> QED
        BY <3>1, <3>2
    <2> QED
      BY <2>1, <2>2, QueryMoves
  <1>6. CASE UNCHANGED vars
    BY <1>6, QueriesRest DEF vars
  <1> QED
    BY <1>1, <1>2, <1>4, <1>5, <1>6, TaskFails DEF Next, TaskStep

\* SERVFAIL is the last resort of parallel_query_routed and _directed: a query
\* that failed stays failed, also if our own packets come back and are answered.
THEOREM ServfailIsLastResort == Spec => []ServfailMeansAllFailed
  <1>1. Init => FailedInv
    BY DEF Init, FailedInv, Unresolved, ServfailMeansAllFailed
  <1>2. FailedInv => ServfailMeansAllFailed
    BY DEF FailedInv
  <1> QED
    BY <1>1, <1>2, InitTypes, NextTypes, NextFails, PTL DEF Spec
=============================================================================
