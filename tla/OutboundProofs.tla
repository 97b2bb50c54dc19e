--------------------------- MODULE OutboundProofs ---------------------------
(***************************************************************************)
(* Proofs about the outbound sockets of module Outbound.                   *)
(***************************************************************************)
EXTENDS Outbound, WellFoundedInduction, TLAPS

-----------------------------------------------------------------------------
(* The inductive invariant                                                 *)

Lists == Seq(STRING) \ {<<>>}
Endpoints == Hosts \cup Addresses \cup {Pinned}
Steps     == {"A", "AAAA", "connect", "ok", "error"}
Questions == {"A", "AAAA"} \X Nat
Dials     == [owner : {"session", "api"}, host : Hosts, step : Steps, at : Nat \ {0},
              addrs : Seq(Endpoints), asked : SUBSET Questions, dialled : SUBSET Endpoints]

\* What the steps of the choice have left behind.
Counted ==
    /\ pc \in {"resolve", "default"} => tries = 0
    /\ pc = "tun" => tries < TUN_LOOKUP_RETRIES
    /\ pc \in {"built", "v4", "bound"} => tries <= BIND_MAX_RETRIES

\* While the choice is made every state of the system is remembered, the one
\* that was read first too.
Remembered ==
    /\ pc \in {"resolve", "default"} => os \in seen /\ directed = NoInterface
    /\ pc = "default" => config.pin = "" /\ \E machine \in seen : listed = machine.interfaces
    /\ seen \subseteq Machines

\* After the choice there is an interface in full-tunnel mode.
Separate ==
    config.full /\ pc \notin {"resolve", "default", "failed"} => directed.name \notin {"", Tun}

\* Nobody resolves before the lists of servers are there; they stay.
Served ==
    /\ servers \in [session : Seq(STRING), api : Lists]
    /\ pc \in {"built", "v4", "bound"} => servers.session \in Lists
    /\ job # NoJob => /\ pc \in {"built", "v4", "bound", "failed"}
                      /\ servers[job.owner] \in Lists
    /\ ~Idle /\ job.owner = "session" => pc \in {"built", "bound"}

\* How far a lookup or a dial has come, and what it has done by its end.
Walk(dial) ==
    /\ dial \in Dials
    /\ dial.step = "A" => /\ dial.at \in DOMAIN servers[dial.owner]
                          /\ dial.addrs = <<>>
                          /\ dial.asked = {"A"} \X (1 .. dial.at - 1)
    /\ dial.step = "AAAA" =>
          /\ dial.at \in DOMAIN servers[dial.owner]
          /\ dial.addrs = <<>> => dial.asked = ({"A"} \X DOMAIN servers[dial.owner])
                                                \cup ({"AAAA"} \X (1 .. dial.at - 1))
    /\ dial.step = "connect" => /\ dial.at \in DOMAIN dial.addrs
                                /\ \A i \in 1 .. dial.at - 1 : dial.addrs[i] \in dial.dialled
    /\ dial.step = "error" =>
          IF dial.addrs = <<>>
          THEN dial.host \in Invalid \/ dial.asked = {"A", "AAAA"} \X DOMAIN servers[dial.owner]
          ELSE dial.owner = "api" => \A i \in DOMAIN dial.addrs : dial.addrs[i] \in dial.dialled

Walked == job = NoJob \/ Walk(job)

IInv ==
    /\ TypeOK /\ Counted /\ Remembered /\ Separate /\ Served /\ Walked
    /\ NoSelfLoop /\ ChosenWasUsable

-----------------------------------------------------------------------------
(* Searching                                                               *)

\* A set of numbers that is not empty has a least one, which Min yields.
LEMMA MinIsMember ==
    ASSUME NEW S \in SUBSET Nat, S # {}
    PROVE  Min(S) \in S
<1> DEFINE Less == {ss \in Nat \X Nat : ss[1] < ss[2]}
<1>0. IsWellFoundedOn(Less, Nat)
    BY NatLessThanWellFounded DEF OpToRel
<1>1. PICK least \in S : \A y \in S : <<y, least>> \notin Less
    <2> HIDE DEF Less
    <2> QED  BY <1>0, WFMin
<1>2. ASSUME NEW y \in S  PROVE least <= y
    <2>1. <<y, least>> \notin Less /\ <<y, least>> \in Nat \X Nat
        BY <1>1
    <2>2. <<y, least>>[1] = y /\ <<y, least>>[2] = least
        OBVIOUS
    <2>3. ~(y < least)
        BY <2>1, <2>2
    <2> QED  BY <2>3
<1> QED
    BY <1>2 DEF Min

\* The interfaces of the system are a list.
LEMMA InterfacesAreListed ==
    ASSUME NEW machine \in Machines
    PROVE  /\ machine.interfaces \in Seq(Nics)
           /\ DOMAIN machine.interfaces = 1 .. Len(machine.interfaces)
           /\ Len(machine.interfaces) \in Nat
           /\ \A i \in DOMAIN machine.interfaces : machine.interfaces[i] \in Nics
    BY InterfacesAssumption

\* Find yields the place of an interface of that name.
LEMMA FindIsThere ==
    ASSUME NEW list \in Seq(Nics), NEW name, Find(list, name) > 0
    PROVE  /\ Find(list, name) \in DOMAIN list
           /\ list[Find(list, name)].name = name
<1> DEFINE I == {i \in 1 .. Len(list) : list[i].name = name}
<1>1. Find(list, name) = IF I # {} THEN Min(I) ELSE 0
    BY DEF Find, SelectInSeq
<1>2. I # {}
    BY <1>1
<1>3. I \in SUBSET Nat /\ DOMAIN list = 1 .. Len(list)
    OBVIOUS
<1>4. Min(I) \in I
    BY <1>2, <1>3, MinIsMember
<1> QED
    BY <1>1, <1>2, <1>3, <1>4

\* best_fallback_interface yields a candidate of the list, or nothing.
LEMMA FallbackIsCandidate ==
    ASSUME NEW list \in Seq(Nics), best_fallback_interface(list) # NoInterface
    PROVE  \E i \in DOMAIN list : /\ is_wan_candidate(list[i])
                                  /\ best_fallback_interface(list) = from_interface(list[i])
<1> DEFINE R == {i \in 1 .. Len(list) : is_wan_candidate(list[i]) /\ list[i].gateway}
           C == {i \in 1 .. Len(list) : is_wan_candidate(list[i])}
           r == IF R # {} THEN Min(R) ELSE 0
           c == IF C # {} THEN Min(C) ELSE 0
           at == IF r > 0 THEN r ELSE c
<1>1. best_fallback_interface(list) = IF at = 0 \/ list[at].index = 0 THEN NoInterface
                                      ELSE from_interface(list[at])
    BY DEF best_fallback_interface, SelectInSeq
<1>2. R \in SUBSET Nat /\ C \in SUBSET Nat /\ R \subseteq C /\ DOMAIN list = 1 .. Len(list)
    OBVIOUS
<1>3. (R # {} => Min(R) \in C) /\ (C # {} => Min(C) \in C)
    BY <1>2, MinIsMember
<1>4. at = 0 \/ at \in C
    BY <1>3
<1> QED
    BY <1>1, <1>2, <1>4

-----------------------------------------------------------------------------
(* Initial states                                                          *)

\* There is always a server to ask.
LEMMA ServersAreListed ==
    ASSUME NEW machine \in Machines
    PROVE  system_dns_servers(machine.dns) \in Lists
<1>1. system_dns_servers(machine.dns) \in Seq(STRING)
    BY ServersAssumption
<1>2. <<"8.8.8.8">> # <<>>
    OBVIOUS
<1>3. system_dns_servers(machine.dns) # <<>>
    BY <1>2 DEF system_dns_servers
<1> QED
    BY <1>1, <1>3 DEF Lists

\* The invariant holds initially.
LEMMA InitIInv == Init => IInv
<1> SUFFICES ASSUME Init PROVE IInv
    OBVIOUS
<1> USE DEF Init
<1>1. TypeOK
    BY OutboundAssumption DEF TypeOK, NoJob
<1>2. Counted
    BY OutboundAssumption DEF Counted
<1>3. Remembered
    BY DEF Remembered
<1>4. Separate
    BY DEF Separate
<1>5. Served
    <2>1. servers.api \in Lists /\ <<>> \in Seq(STRING)
        BY ServersAreListed
    <2> QED
        BY <2>1 DEF Served, Idle, NoJob
<1>6. Walked
    BY DEF Walked
<1>7. NoSelfLoop
    BY DEF NoSelfLoop, NoSocket
<1>8. ChosenWasUsable
    BY DEF ChosenWasUsable
<1> QED
    BY <1>1, <1>2, <1>3, <1>4, <1>5, <1>6, <1>7, <1>8 DEF IInv

-----------------------------------------------------------------------------
(* The choice of the interface                                             *)

\* An interface that was read and is a candidate may be chosen.
LEMMA CandidateIsFit ==
    ASSUME IInv, NEW machine \in seen, NEW i \in DOMAIN machine.interfaces,
           is_wan_candidate(machine.interfaces[i]),
           config.pin \in {"", machine.interfaces[i].name},
           UNCHANGED <<config, seen>>,
           directed' = from_interface(machine.interfaces[i])
    PROVE  directed'.name \notin {"", Tun} /\ ChosenWasUsable'
<1> DEFINE nic == machine.interfaces[i]
<1>1. nic \in Nics
    BY InterfacesAreListed DEF IInv, Remembered
<1>2. directed'.name = nic.name /\ directed'.index = nic.index
    BY DEF from_interface
<1>3. nic.name # "" /\ nic.name # Tun /\ nic.up /\ nic.addrs
    BY <1>1 DEF is_wan_candidate, Nics
<1>4. machine \in seen' /\ i \in DOMAIN machine.interfaces
    OBVIOUS
<1> QED
    BY <1>2, <1>3, <1>4 DEF ChosenWasUsable

\* Before the sockets there are no jobs.
LEMMA NoJobYet ==
    ASSUME IInv, pc \in {"resolve", "default", "tun", "dns"}
    PROVE  job = NoJob
    BY DEF IInv, Served

\* A socket that stays is where it was.
LEMMA SocketStays ==
    ASSUME IInv, UNCHANGED <<config, socket>>
    PROVE  NoSelfLoop'
    BY DEF IInv, NoSelfLoop, should_bind

\* A step that leaves the jobs alone.
LEMMA JobsStay ==
    ASSUME IInv, UNCHANGED <<servers, job>>,
           pc' \in {"built", "v4", "bound"} => pc \in {"built", "v4", "bound"},
           job = NoJob \/ (Idle /\ pc' \in {"built", "v4", "bound", "failed"}) \/ pc' = pc
    PROVE  Served' /\ Walked'
<1> USE DEF IInv
<1>1. Served'
    BY DEF Served, Idle, NoJob
<1>2. Walked'
    BY DEF Walked, Walk
<1> QED
    BY <1>1, <1>2

\* The first read, and the pin.
LEMMA ReadInterfacesKeeps ==
    ASSUME IInv, ReadInterfaces
    PROVE  IInv'
<1> DEFINE at == Find(os.interfaces, config.pin)
           nic == os.interfaces[at]
           usable == at > 0 /\ is_wan_candidate(nic) /\ nic.index > 0
<1> USE DEF system, session
<1>1. /\ pc = "resolve" /\ job = NoJob /\ os \in seen /\ os \in Machines /\ directed = NoInterface
      /\ listed' = os.interfaces
      /\ UNCHANGED <<os, changes, seen, config, routed, tries, servers, pool, job, jobs, socket>>
    BY NoJobYet DEF ReadInterfaces, IInv, Remembered, TypeOK
<1>2. \/ config.pin = "" /\ pc' = "default" /\ directed' = directed
      \/ config.pin # "" /\ usable /\ Chosen(from_interface(nic))
      \/ config.pin # "" /\ ~usable /\ Failed
    BY DEF ReadInterfaces
<1>3. ASSUME usable
      PROVE  at \in DOMAIN os.interfaces /\ nic.name = config.pin /\ is_wan_candidate(nic)
    BY <1>1, <1>3, FindIsThere, InterfacesAreListed
<1> HIDE DEF at, nic, usable
<1>4. pc' \in {"default", "tun", "failed"}
    BY <1>2 DEF Chosen, Failed
<1>5. TypeOK' /\ Counted'
    BY <1>1, <1>4, OutboundAssumption DEF IInv, TypeOK, Counted, NoJob
<1>6. Served' /\ Walked' /\ NoSelfLoop'
    BY <1>1, <1>4, JobsStay, SocketStays
<1>7. Remembered' /\ Separate' /\ ChosenWasUsable'
    <2>1. CASE config.pin = "" /\ pc' = "default" /\ directed' = directed
        BY <1>1, <2>1 DEF IInv, Remembered, Separate, ChosenWasUsable
    <2>2. CASE config.pin # "" /\ usable /\ Chosen(from_interface(nic))
        <3>1. directed'.name \notin {"", Tun} /\ ChosenWasUsable'
            BY <1>1, <1>3, <2>2, CandidateIsFit DEF Chosen, nic
        <3> QED
            BY <1>1, <2>2, <3>1 DEF IInv, Remembered, Separate, Chosen
    <2>3. CASE Failed
        BY <1>1, <2>3 DEF IInv, Remembered, Separate, ChosenWasUsable, Failed
    <2> QED
        BY <1>2, <2>1, <2>2, <2>3
<1> QED
    BY <1>5, <1>6, <1>7 DEF IInv

\* The second read, and the fallback to the first.
LEMMA ReadDefaultKeeps ==
    ASSUME IInv, ReadDefault
    PROVE  IInv'
<1> DEFINE at == Find(os.interfaces, os.default)
           nic == os.interfaces[at]
           usable == at > 0 /\ is_wan_candidate(nic)
<1> USE DEF system, session
<1>1. /\ pc = "default" /\ job = NoJob /\ os \in seen /\ os \in Machines /\ directed = NoInterface
      /\ config.pin = "" /\ \E machine \in seen : listed = machine.interfaces
      /\ UNCHANGED <<os, changes, seen, config, routed, tries, servers, pool, job, jobs, socket>>
    BY NoJobYet DEF ReadDefault, IInv, Remembered, TypeOK
<1>2. \/ usable /\ Failed
      \/ usable /\ Chosen(from_interface(nic))
      \/ Fallback
    BY DEF ReadDefault
<1>3. ASSUME usable
      PROVE  at \in DOMAIN os.interfaces /\ is_wan_candidate(nic)
    <2>1. at > 0 /\ os.interfaces \in Seq(Nics)
        BY <1>1, <1>3, InterfacesAreListed
    <2> QED
        BY <1>3, <2>1, FindIsThere
<1> HIDE DEF at, nic, usable
<1>4. pc' \in {"tun", "failed"}
    BY <1>2 DEF Chosen, Failed, Fallback
<1>5. TypeOK' /\ Counted'
    <2>1. tries = 0 /\ tries' = tries
        BY <1>1 DEF IInv, Counted
    <2>2. Counted'
        BY <1>4, <2>1, OutboundAssumption DEF Counted
    <2>3. TypeOK'
        BY <1>1, <1>4 DEF IInv, TypeOK, NoJob
    <2> QED
        BY <2>2, <2>3
<1>6. Served' /\ Walked' /\ NoSelfLoop'
    BY <1>1, <1>4, JobsStay, SocketStays
<1>7. Remembered'
    BY <1>1, <1>4 DEF IInv, Remembered
<1>8. Separate' /\ ChosenWasUsable'
    <2>1. CASE Failed
        BY <1>1, <2>1 DEF Separate, ChosenWasUsable, Failed
    <2>2. CASE usable /\ Chosen(from_interface(nic))
        <3>1. directed'.name \notin {"", Tun} /\ ChosenWasUsable'
            BY <1>1, <1>3, <2>2, CandidateIsFit DEF Chosen, nic
        <3> QED
            BY <3>1 DEF Separate
    <2>3. CASE Fallback /\ ~Failed
        <3> DEFINE fallback == best_fallback_interface(listed)
        <3>1. directed' = fallback /\ (fallback = NoInterface => ~config.full)
            BY <2>3 DEF Fallback, Chosen
        <3>2. CASE fallback = NoInterface
            BY <1>1, <3>1, <3>2 DEF Separate, ChosenWasUsable
        <3>3. CASE fallback # NoInterface
            <4>1. PICK machine \in seen : listed = machine.interfaces
                BY <1>1
            <4>2. listed \in Seq(Nics)
                BY <4>1, InterfacesAreListed DEF IInv, Remembered
            <4>3. PICK i \in DOMAIN listed : /\ is_wan_candidate(listed[i])
                                             /\ fallback = from_interface(listed[i])
                BY <3>3, <4>2, FallbackIsCandidate
            <4>4. directed'.name \notin {"", Tun} /\ ChosenWasUsable'
                BY <1>1, <3>1, <4>1, <4>3, CandidateIsFit
            <4> QED
                BY <4>4 DEF Separate
        <3> QED
            BY <3>2, <3>3
    <2> QED
        BY <1>2, <2>1, <2>2, <2>3
<1> QED
    BY <1>5, <1>6, <1>7, <1>8 DEF IInv

\* The device of the session is looked for.
LEMMA LookupTunKeeps ==
    ASSUME IInv, LookupTun
    PROVE  IInv'
<1>1. /\ pc = "tun" /\ job = NoJob /\ tries' = tries + 1 /\ seen' = {}
      /\ pc' = "dns" \/ (pc' = "tun" /\ tries' # TUN_LOOKUP_RETRIES)
      /\ UNCHANGED <<os, changes, config, listed, directed, servers, pool, job, jobs, socket>>
    BY NoJobYet DEF LookupTun, IInv
<1>2. TUN_LOOKUP_RETRIES \in Nat /\ BIND_MAX_RETRIES \in Nat /\ tries \in Nat
    BY OutboundAssumption DEF IInv, TypeOK
<1>3. tries' <= TUN_LOOKUP_RETRIES
    BY <1>1, <1>2 DEF IInv, Counted
<1>4. TypeOK' /\ Counted'
    BY <1>1, <1>2, <1>3 DEF IInv, TypeOK, Counted, NoJob
<1>5. Served' /\ Walked' /\ NoSelfLoop'
    BY <1>1, JobsStay, SocketStays
<1>6. Remembered' /\ Separate' /\ ChosenWasUsable'
    BY <1>1 DEF IInv, Remembered, Separate, ChosenWasUsable
<1> QED
    BY <1>4, <1>5, <1>6 DEF IInv

\* The servers are read.
LEMMA DiscoverDnsKeeps ==
    ASSUME IInv, DiscoverDns
    PROVE  IInv'
<1> USE DEF system
<1>1. /\ pc = "dns" /\ job = NoJob /\ tries' = 0
      /\ \/ pc' = "built" /\ servers' = [servers EXCEPT !.session = system_dns_servers(os.dns)]
         \/ pc' = "failed" /\ servers' = servers
      /\ UNCHANGED <<os, changes, seen, config, listed, directed, routed, pool, job, jobs, socket>>
    BY NoJobYet DEF DiscoverDns, IInv
<1>2. TypeOK' /\ Counted'
    BY <1>1, OutboundAssumption DEF IInv, TypeOK, Counted, NoJob
<1>3. Served' /\ Walked'
    <2>1. system_dns_servers(os.dns) \in Lists
        BY ServersAreListed DEF IInv, TypeOK
    <2> HIDE DEF IInv
    <2>2. servers \in [session : Seq(STRING), api : Lists]
        BY DEF IInv, Served
    <2>3. servers' \in [session : Seq(STRING), api : Lists]
          /\ (pc' = "built" => servers'.session \in Lists)
        BY <1>1, <2>1, <2>2 DEF Lists
    <2> QED
        BY <1>1, <2>3 DEF Served, Walked, Idle, NoJob
<1>4. NoSelfLoop'
    BY <1>1, SocketStays
<1>5. Remembered' /\ Separate' /\ ChosenWasUsable'
    BY <1>1 DEF IInv, Remembered, Separate, ChosenWasUsable
<1> QED
    BY <1>2, <1>3, <1>4, <1>5 DEF IInv

\* The system changes.
LEMMA OsChangesKeeps ==
    ASSUME IInv, OsChanges
    PROVE  IInv'
<1> USE DEF session
<1>1. /\ os' \in Machines /\ changes' = changes + 1 /\ changes < MaxChanges
      /\ seen' = IF pc \in {"resolve", "default"} THEN seen \cup {os'} ELSE seen
      /\ UNCHANGED <<config, pc, listed, directed, routed, tries, servers, pool, job, jobs, socket>>
    BY DEF OsChanges
<1>2. TypeOK' /\ Counted'
    BY <1>1, OutboundAssumption DEF IInv, TypeOK, Counted, NoJob
<1>3. Served' /\ Walked' /\ NoSelfLoop'
    BY <1>1, JobsStay, SocketStays
<1>4. Remembered' /\ Separate'
    BY <1>1 DEF IInv, Remembered, Separate
<1>5. ChosenWasUsable'
    <2>1. CASE pc \in {"resolve", "default"}
        BY <1>1, <2>1 DEF IInv, Remembered, ChosenWasUsable
    <2>2. CASE pc \notin {"resolve", "default"}
        BY <1>1, <2>2 DEF IInv, ChosenWasUsable
    <2> QED
        BY <2>1, <2>2
<1> QED
    BY <1>2, <1>3, <1>4, <1>5 DEF IInv

-----------------------------------------------------------------------------
(* The WireGuard sockets                                                   *)

\* A step of the session after the choice leaves the choice alone.
LEMMA ChoiceStays ==
    ASSUME IInv, UNCHANGED <<os, changes, seen, config, listed, directed>>,
           pc \in {"built", "v4", "bound", "failed"},
           pc' \in {"built", "v4", "bound", "failed"},
           pc = "failed" => pc' = pc
    PROVE  Remembered' /\ Separate' /\ ChosenWasUsable'
    BY DEF IInv, Remembered, Separate, ChosenWasUsable

\* The pair of sockets, and the retries on another port.
LEMMA BindKeeps ==
    ASSUME IInv, Bind
    PROVE  IInv'
<1> USE DEF system, Unchanged
<1>1. /\ Idle /\ pc \in {"built", "v4"} /\ pc' \in {"built", "v4", "bound", "failed"}
      /\ tries' = tries \/ (tries < BIND_MAX_RETRIES /\ tries' = tries + 1)
      /\ \/ socket' = socket
         \/ socket' = [owner |-> "session", dst |-> "any", nic |-> directed]
      /\ UNCHANGED <<os, changes, seen, config, listed, directed, routed, servers, pool, job, jobs>>
    BY DEF Bind, BindV4, BindV6, BindV6InUse, BindFails, BindUdp
<1>2. TypeOK' /\ Counted'
    BY <1>1, OutboundAssumption DEF IInv, TypeOK, Counted, NoJob
<1>3. Served' /\ Walked'
    BY <1>1, JobsStay
<1>4. Remembered' /\ Separate' /\ ChosenWasUsable'
    BY <1>1, ChoiceStays
<1>5. NoSelfLoop'
    <2>1. CASE socket' = socket
        BY <1>1, <2>1, SocketStays
    <2>2. CASE socket' = [owner |-> "session", dst |-> "any", nic |-> directed]
        BY <1>1, <2>2 DEF IInv, Separate, NoSelfLoop, should_bind
    <2> QED
        BY <1>1, <2>1, <2>2
<1> QED
    BY <1>2, <1>3, <1>4, <1>5 DEF IInv

-----------------------------------------------------------------------------
(* Lookups and dials                                                       *)

\* A socket for a job of the session is one after the choice.
LEMMA OpenIsSeparate ==
    ASSUME IInv, ~Idle, job # NoJob, NEW dst, Open(job.owner, dst), UNCHANGED config
    PROVE  NoSelfLoop'
<1>1. socket' = [owner |-> job.owner, dst |-> dst, nic |-> Bound(NicOf(job.owner), dst)]
    BY DEF Open
<1>2. job.owner = "session" => pc \in {"built", "bound"}
    BY DEF IInv, Served
<1> QED
    BY <1>1, <1>2 DEF IInv, Separate, NoSelfLoop, should_bind, Bound, NicOf

\* A dial in another step, with another server or address.
GoneOn(dial, step, at) == [dial EXCEPT !.step = step, !.at = at]

\* A dial goes on as a dial.
LEMMA DialGoesOn ==
    ASSUME NEW dial \in Dials, NEW step \in Steps, NEW at \in Nat \ {0}
    PROVE  LET next == GoneOn(dial, step, at)
           IN  /\ next \in Dials /\ next.step = step /\ next.at = at
               /\ next.owner = dial.owner /\ next.addrs = dial.addrs
               /\ next.asked = dial.asked /\ next.dialled = dial.dialled
<1> DEFINE moved == [dial EXCEPT !.step = step]
<1>1. /\ moved \in Dials /\ moved.step = step
      /\ moved.owner = dial.owner /\ moved.addrs = dial.addrs
      /\ moved.asked = dial.asked /\ moved.dialled = dial.dialled
    BY DEF Dials
<1> DEFINE next == [moved EXCEPT !.at = at]
<1>2. /\ next \in Dials /\ next.step = step /\ next.at = at
      /\ next.owner = dial.owner /\ next.addrs = dial.addrs
      /\ next.asked = dial.asked /\ next.dialled = dial.dialled
    <2> HIDE DEF moved
    <2> QED  BY <1>1 DEF Dials
<1>3. GoneOn(dial, step, at) = next
    BY DEF GoneOn
<1> HIDE DEF next
<1> QED
    BY <1>2, <1>3

\* After the last server: what has been asked by then is enough.
LEMMA EndIsWalked ==
    ASSUME NEW dial \in Dials, dial.step \in {"A", "AAAA"},
           servers[dial.owner] \in Lists,
           dial.addrs = <<>> =>
              dial.asked = (IF dial.step = "A" THEN {"A"} ELSE {"A", "AAAA"})
                              \X DOMAIN servers[dial.owner]
    PROVE  /\ Walk(EndOfServers(dial))
           /\ EndOfServers(dial).owner = dial.owner
<1> DEFINE n == Len(servers[dial.owner])
<1>1. n \in Nat \ {0} /\ DOMAIN servers[dial.owner] = 1 .. n
    BY DEF Lists
<1>2. CASE dial.step = "A"
    <2> DEFINE next == GoneOn(dial, "AAAA", 1)
    <2>1. EndOfServers(dial) = next
        BY <1>2 DEF EndOfServers, GoneOn
    <2>2. {"AAAA", "error", "connect"} \subseteq Steps
        BY DEF Steps
    <2>3. /\ next \in Dials /\ next.owner = dial.owner /\ next.step = "AAAA" /\ next.at = 1
          /\ next.addrs = dial.addrs /\ next.asked = dial.asked
        BY <2>2, DialGoesOn
    <2> HIDE DEF next, n
    <2>4. 1 .. 1 - 1 = {} /\ 1 \in 1 .. n
        BY <1>1
    <2>5. {"AAAA"} \X (1 .. 1 - 1) = {}
        BY <2>4
    <2>6. Walk(next)
        BY <1>1, <1>2, <2>3, <2>4, <2>5 DEF Walk
    <2> QED
        BY <2>1, <2>3, <2>6
<1>3. CASE dial.step = "AAAA"
    <2> DEFINE next == GoneOn(dial, IF dial.addrs = <<>> THEN "error" ELSE "connect", 1)
    <2>1. EndOfServers(dial) = next
        BY <1>3 DEF EndOfServers, GoneOn
    <2>2. {"AAAA", "error", "connect"} \subseteq Steps
        BY DEF Steps
    <2>3. /\ next \in Dials /\ next.owner = dial.owner /\ next.at = 1
          /\ next.step = IF dial.addrs = <<>> THEN "error" ELSE "connect"
          /\ next.addrs = dial.addrs /\ next.asked = dial.asked
        BY <2>2, DialGoesOn
    <2>4. dial.addrs # <<>> => 1 \in DOMAIN dial.addrs
        BY DEF Dials
    <2> HIDE DEF next, n
    <2>5. 1 .. 1 - 1 = {}
        OBVIOUS
    <2>6. Walk(next)
        BY <1>3, <2>3, <2>4, <2>5 DEF Walk
    <2> QED
        BY <2>1, <2>3, <2>6
<1> QED
    BY <1>2, <1>3

\* What a query leaves is as complete as what it found.
LEMMA AskedIsDial ==
    ASSUME Walk(job), Querying
    PROVE  /\ Asked \in Dials /\ Asked.step = job.step /\ Asked.owner = job.owner
           /\ Asked.at = job.at /\ Asked.addrs = job.addrs
           /\ Asked.asked = job.asked \cup {<<job.step, job.at>>}
    BY DEF Asked, Walk, Dials, Questions, Querying

\* A step of a job that keeps its place in the list.
LEMMA JobMoves ==
    ASSUME IInv, Kept, ~Idle, Walk(job'), job'.owner = job.owner, NoSelfLoop'
    PROVE  IInv'
<1> USE DEF Kept, system, session
<1>1. job \in Dials /\ servers[job.owner] \in Lists /\ pc \in {"built", "v4", "bound", "failed"}
      /\ (job.owner = "session" => pc \in {"built", "bound"})
    BY DEF IInv, Walked, Walk, Served, Idle, NoJob
<1>2. job'.step \in Steps /\ job'.at \in Nat \ {0}
    BY DEF Walk, Dials
<1>3. TypeOK' /\ Counted'
    BY <1>2 DEF IInv, TypeOK, Counted, Steps
<1>4. Served'
    BY <1>1 DEF IInv, Served
<1>5. Walked'
    BY DEF Walked, Walk
<1>6. Remembered' /\ Separate' /\ ChosenWasUsable'
    BY <1>1, ChoiceStays
<1> QED
    BY <1>3, <1>4, <1>5, <1>6 DEF IInv

\* What is known of a query in progress.
LEMMA QueryInProgress ==
    ASSUME IInv, Querying
    PROVE  /\ ~Idle /\ job # NoJob /\ Walk(job) /\ servers[job.owner] \in Lists
           /\ job.at \in 1 .. Len(servers[job.owner])
           /\ DOMAIN servers[job.owner] = 1 .. Len(servers[job.owner])
           /\ Len(servers[job.owner]) \in Nat
<1>1. ~Idle /\ job # NoJob
    BY DEF Querying, Idle, NoJob
<1>2. Walk(job) /\ servers[job.owner] \in Lists
    BY <1>1 DEF IInv, Walked, Served
<1>3. job.at \in DOMAIN servers[job.owner]
    BY <1>2 DEF Walk, Querying
<1> QED
    BY <1>1, <1>2, <1>3 DEF Lists

\* The next server, or the next kind of records.
LEMMA NextServerWalks ==
    ASSUME IInv, Querying, NextServer
    PROVE  Walk(job') /\ job'.owner = job.owner
<1> DEFINE n == Len(servers[job.owner])
<1>1. /\ Walk(job) /\ servers[job.owner] \in Lists
      /\ job.at \in 1 .. n /\ DOMAIN servers[job.owner] = 1 .. n /\ n \in Nat
    BY QueryInProgress
<1>2. /\ Asked \in Dials /\ Asked.step = job.step /\ Asked.owner = job.owner
      /\ Asked.at = job.at /\ Asked.addrs = job.addrs
      /\ Asked.asked = job.asked \cup {<<job.step, job.at>>}
    BY <1>1, AskedIsDial
<1>3. job' = IF job.at < n THEN [Asked EXCEPT !.at = @ + 1] ELSE EndOfServers(Asked)
    BY DEF NextServer
<1>4. \A k \in 1 .. n : (1 .. k - 1) \cup {k} = 1 .. k
    BY <1>1
<1>5. /\ ({"A"} \X (1 .. job.at - 1)) \cup {<<"A", job.at>>} = {"A"} \X (1 .. job.at)
      /\ ({"AAAA"} \X (1 .. job.at - 1)) \cup {<<"AAAA", job.at>>} = {"AAAA"} \X (1 .. job.at)
    <2> HIDE DEF n
    <2>1. (1 .. job.at - 1) \cup {job.at} = 1 .. job.at
        BY <1>1, <1>4
    <2> QED
        BY <2>1
<1>6. /\ job.step = "A" => Asked.addrs = <<>> /\ Asked.asked = {"A"} \X (1 .. job.at)
      /\ job.step = "AAAA" /\ Asked.addrs = <<>> =>
            Asked.asked = ({"A"} \X (1 .. n)) \cup ({"AAAA"} \X (1 .. job.at))
    BY <1>1, <1>2, <1>5 DEF Walk
<1>7. job.step \in {"A", "AAAA"}
    BY DEF Querying
<1> HIDE DEF n
<1>8. CASE job.at < n
    <2>1. /\ job' \in Dials /\ job'.step = job.step /\ job'.owner = job.owner
          /\ job'.at = job.at + 1 /\ job'.addrs = Asked.addrs /\ job'.asked = Asked.asked
        BY <1>2, <1>3, <1>8 DEF Dials
    <2>2. job'.at - 1 = job.at /\ job'.at \in 1 .. n
        BY <1>1, <1>8, <2>1
    <2> QED
        BY <1>1, <1>6, <1>7, <2>1, <2>2 DEF Walk
<1>9. CASE ~(job.at < n)
    <2>1. job.at = n
        BY <1>1, <1>9
    <2>2. ({"A"} \X (1 .. n)) \cup ({"AAAA"} \X (1 .. n)) = {"A", "AAAA"} \X (1 .. n)
        OBVIOUS
    <2>3. Asked.addrs = <<>> =>
              Asked.asked = (IF Asked.step = "A" THEN {"A"} ELSE {"A", "AAAA"})
                              \X DOMAIN servers[Asked.owner]
        BY <1>1, <1>2, <1>6, <1>7, <2>1, <2>2
    <2> QED
        BY <1>1, <1>2, <1>3, <1>7, <1>9, <2>3, EndIsWalked
<1> QED
    BY <1>8, <1>9

\* An answer ends the round of the servers.
LEMMA AnswerWalks ==
    ASSUME IInv, Querying, NEW addr \in Addresses,
           job' = EndOfServers([Asked EXCEPT !.addrs = Append(@, addr)])
    PROVE  Walk(job') /\ job'.owner = job.owner
<1>1. Walk(job) /\ servers[job.owner] \in Lists
    BY QueryInProgress
<1>2. /\ Asked \in Dials /\ Asked.step = job.step /\ Asked.owner = job.owner
    BY <1>1, AskedIsDial
<1> DEFINE more == Append(Asked.addrs, addr)
           answered == [Asked EXCEPT !.addrs = more]
<1>3. more \in Seq(Endpoints) /\ more # <<>>
    <2>1. Asked.addrs \in Seq(Endpoints) /\ addr \in Endpoints
        BY <1>2 DEF Dials, Endpoints
    <2> QED
        BY <2>1
<1> HIDE DEF more
<1>4. answered \in Dials /\ answered.step = job.step /\ answered.owner = job.owner
      /\ answered.addrs = more
    BY <1>2, <1>3 DEF Dials
<1>5. job' = EndOfServers(answered)
    BY <1>2 DEF more
<1>6. job.step \in {"A", "AAAA"}
    BY DEF Querying
<1> HIDE DEF answered
<1> QED
    BY <1>1, <1>3, <1>4, <1>5, <1>6, EndIsWalked

\* A query: an answer, an error, a timeout, or no socket for it.
LEMMA QueryKeeps ==
    ASSUME IInv, QueryAnswered \/ QueryUnbound \/ QueryTimesOut
    PROVE  IInv'
<1>1. Querying /\ Kept
    BY DEF QueryAnswered, QueryUnbound, QueryTimesOut
<1>2. UNCHANGED config
    BY <1>1 DEF Kept
<1>3. ~Idle /\ job # NoJob
    BY <1>1, QueryInProgress
<1>4. Open(job.owner, Server) \/ socket' = socket
    BY DEF QueryAnswered, QueryUnbound, QueryTimesOut
<1>5. NoSelfLoop'
    BY <1>2, <1>3, <1>4, OpenIsSeparate, SocketStays
<1>6. \/ NextServer
      \/ \E addr \in Addresses : job' = EndOfServers([Asked EXCEPT !.addrs = Append(@, addr)])
    BY DEF QueryAnswered, QueryUnbound, QueryTimesOut
<1>7. Walk(job') /\ job'.owner = job.owner
    BY <1>1, <1>6, NextServerWalks, AnswerWalks
<1> QED
    BY <1>1, <1>3, <1>5, <1>7, JobMoves

\* A connection, or the next address.
LEMMA ConnectKeeps ==
    ASSUME IInv, Connected \/ ConnectFails \/ ConnectTimesOut
    PROVE  IInv'
<1>1. job.step = "connect" /\ Kept
    BY DEF Connected, ConnectFails, ConnectTimesOut
<1>2. UNCHANGED config
    BY <1>1 DEF Kept
<1>3. ~Idle /\ job # NoJob
    BY <1>1 DEF Idle, NoJob
<1>4. Open(job.owner, Address) \/ socket' = socket
    BY DEF Connected, ConnectFails, ConnectTimesOut
<1>5. NoSelfLoop'
    BY <1>2, <1>3, <1>4, OpenIsSeparate, SocketStays
<1> DEFINE n == Len(job.addrs)
<1>6. /\ job \in Dials /\ job.at \in 1 .. n /\ DOMAIN job.addrs = 1 .. n /\ n \in Nat
      /\ \A i \in 1 .. job.at - 1 : job.addrs[i] \in job.dialled
      /\ Address \in Endpoints
    <2>1. Walk(job)
        BY <1>3 DEF IInv, Walked
    <2>2. job \in Dials /\ job.addrs \in Seq(Endpoints) /\ job.at \in DOMAIN job.addrs
        BY <1>1, <2>1 DEF Walk, Dials
    <2> QED
        BY <1>1, <2>1, <2>2 DEF Walk, Address
<1>7. /\ Dialled \in Dials /\ Dialled.owner = job.owner /\ Dialled.at = job.at
      /\ Dialled.step = job.step
      /\ Dialled.addrs = job.addrs /\ Dialled.dialled = job.dialled \cup {job.addrs[job.at]}
    BY <1>6 DEF Dialled, Dials, Address
<1> HIDE DEF n
<1>8. \A i \in 1 .. job.at : job.addrs[i] \in Dialled.dialled
    BY <1>6, <1>7
<1>9. \/ job' = [Dialled EXCEPT !.step = "ok"]
      \/ job' = [Dialled EXCEPT !.step = "error"] /\ (job.owner = "api" => ~(job.at < n))
      \/ job' = [Dialled EXCEPT !.at = @ + 1] /\ job.at < n
    BY DEF Connected, ConnectFails, ConnectTimesOut, NextAddress, n
<1>10. Walk(job') /\ job'.owner = job.owner
    <2>1. CASE job' = [Dialled EXCEPT !.step = "ok"]
        <3>1. job' \in Dials /\ job'.step = "ok" /\ job'.owner = job.owner
            BY <1>7, <2>1 DEF Dials, Steps
        <3> QED
            BY <3>1 DEF Walk
    <2>2. CASE job' = [Dialled EXCEPT !.step = "error"] /\ (job.owner = "api" => ~(job.at < n))
        <3>1. /\ job' \in Dials /\ job'.step = "error" /\ job'.owner = job.owner
              /\ job'.addrs = job.addrs /\ job'.dialled = Dialled.dialled
            BY <1>7, <2>2 DEF Dials, Steps
        <3>2. job.owner = "api" => job.at = n
            BY <1>6, <2>2
        <3>3. job.addrs # <<>>
            BY <1>6 DEF n
        <3> QED
            BY <1>6, <1>8, <3>1, <3>2, <3>3 DEF Walk
    <2>3. CASE job' = [Dialled EXCEPT !.at = @ + 1] /\ job.at < n
        <3>1. /\ job' \in Dials /\ job'.step = "connect" /\ job'.owner = job.owner
              /\ job'.at = job.at + 1 /\ job'.addrs = job.addrs /\ job'.dialled = Dialled.dialled
            BY <1>1, <1>7, <2>3 DEF Dials
        <3>2. job'.at - 1 = job.at /\ job'.at \in 1 .. n
            BY <1>6, <2>3, <3>1
        <3> QED
            BY <1>6, <1>8, <3>1, <3>2 DEF Walk
    <2> QED
        BY <1>9, <2>1, <2>2, <2>3
<1> QED
    BY <1>1, <1>3, <1>5, <1>10, JobMoves

\* A job begins.
LEMMA ResolveHostKeeps ==
    ASSUME IInv, resolve_host
    PROVE  IInv'
<1> USE DEF system, session
<1>1. PICK owner \in {"session", "api"}, host \in Hosts :
         /\ Ready(owner)
         /\ LET fixed == IF owner = "api" /\ host = Override THEN <<Pinned>>
                         ELSE IF host \in Literals THEN <<host>> ELSE <<>>
            IN job' = [owner |-> owner, host |-> host, step |-> FirstStep(host, fixed), at |-> 1,
                       addrs |-> fixed, asked |-> {}, dialled |-> {}]
    BY DEF resolve_host
<1>2. /\ jobs < MaxJobs /\ jobs' = jobs + 1
      /\ UNCHANGED <<os, changes, seen, config, pc, listed, directed, routed, tries,
                     servers, pool, socket>>
    BY DEF resolve_host
<1> DEFINE fixed == IF owner = "api" /\ host = Override THEN <<Pinned>>
                    ELSE IF host \in Literals THEN <<host>> ELSE <<>>
<1>3. fixed \in Seq(Endpoints) /\ (fixed # <<>> => DOMAIN fixed = 1 .. 1)
    <2>1. host \in Endpoints /\ Pinned \in Endpoints
        BY DEF Endpoints
    <2> QED
        BY <2>1
<1> HIDE DEF fixed
<1>4. /\ job'.owner = owner /\ job'.host = host
      /\ job'.step = IF fixed # <<>> THEN "connect" ELSE IF host \in Invalid THEN "error" ELSE "A"
      /\ job'.at = 1 /\ job'.addrs = fixed /\ job'.asked = {} /\ job'.dialled = {}
      /\ job' \in Dials
    BY <1>1, <1>3 DEF Dials, Steps, fixed, FirstStep
<1>5. pc \in {"built", "v4", "bound", "failed"} /\ (owner = "session" => pc \in {"built", "bound"})
    BY <1>1 DEF Ready
<1>6. servers[owner] \in Lists
    BY <1>5 DEF IInv, Served
<1>7. Served'
    BY <1>2, <1>4, <1>5, <1>6 DEF IInv, Served
<1>8. Walked'
    <2>1. 1 .. 1 - 1 = {} /\ {"A"} \X {} = {}
        OBVIOUS
    <2>2. 1 \in DOMAIN servers[owner]
        BY <1>6 DEF Lists
    <2>3. Walk(job)'
        BY <1>2, <1>3, <1>4, <2>1, <2>2 DEF Walk
    <2> QED
        BY <2>3 DEF Walked
<1>9. TypeOK' /\ Counted'
    <2>1. job'.step \in {"A", "connect", "error"} /\ jobs' \in 0 .. MaxJobs
        BY <1>2, <1>4, OutboundAssumption DEF IInv, TypeOK
    <2> QED
        BY <1>2, <1>4, <2>1 DEF IInv, TypeOK, Counted
<1>10. Remembered' /\ Separate' /\ ChosenWasUsable' /\ NoSelfLoop'
    BY <1>2, <1>5, ChoiceStays, SocketStays
<1> QED
    BY <1>7, <1>8, <1>9, <1>10 DEF IInv

-----------------------------------------------------------------------------
(* Theorems                                                                *)

\* Every step preserves the invariant.
LEMMA NextIInv == IInv /\ [Next]_vars => IInv'
<1> SUFFICES ASSUME IInv, [Next]_vars PROVE IInv'
    OBVIOUS
<1>1. CASE Build
    BY <1>1, ReadInterfacesKeeps, ReadDefaultKeeps, LookupTunKeeps, DiscoverDnsKeeps DEF Build
<1>2. CASE Bind
    BY <1>2, BindKeeps
<1>3. CASE OsChanges
    BY <1>3, OsChangesKeeps
<1>4. CASE resolve_host
    BY <1>4, ResolveHostKeeps
<1>5. CASE QueryAnswered \/ QueryUnbound \/ QueryTimesOut
    BY <1>5, QueryKeeps
<1>6. CASE Connected \/ ConnectFails \/ ConnectTimesOut
    BY <1>6, ConnectKeeps
<1>7. CASE UNCHANGED vars
    <2>1. UNCHANGED <<os, changes, seen, config, pc, listed, directed, routed, tries,
                      servers, pool, job, jobs, socket>>
        BY <1>7 DEF vars, system, session
    <2>2. Served' /\ Walked' /\ NoSelfLoop'
        BY <2>1, JobsStay, SocketStays
    <2>3. TypeOK' /\ Counted'
        BY <2>1 DEF IInv, TypeOK, Counted, NoJob
    <2>4. Remembered' /\ Separate' /\ ChosenWasUsable'
        BY <2>1 DEF IInv, Remembered, Separate, ChosenWasUsable
    <2> QED
        BY <2>2, <2>3, <2>4 DEF IInv
<1> QED
    BY <1>1, <1>2, <1>3, <1>4, <1>5, <1>6, <1>7 DEF Next

\* The invariant holds always.
LEMMA Invariance == Spec => []IInv
<1> QED
    BY InitIInv, NextIInv, PTL DEF Spec

\* The variables have their types: the retries of the TUN lookup and of the
\* pair of sockets stay within their bounds.
THEOREM TypeCorrect == Spec => []TypeOK
<1>1. IInv => TypeOK
    BY DEF IInv
<1> QED
    BY <1>1, Invariance, PTL

\* In full-tunnel mode no socket of the session goes into the tunnel it
\* carries (resolve_blocking, new_socket2), for any set of machines, however
\* often the system changes between the reads.
THEOREM SessionStaysOutside == Spec => []NoSelfLoop
<1>1. IInv => NoSelfLoop
    BY DEF IInv
<1> QED
    BY <1>1, Invariance, PTL

\* The interface chosen is the pin, and was usable at one of the reads.
THEOREM ChoiceIsUsable == Spec => []ChosenWasUsable
<1>1. IInv => ChosenWasUsable
    BY DEF IInv
<1> QED
    BY <1>1, Invariance, PTL

\* No server and no address is skipped before a host is given up, for any
\* number of them (query_record, the connector).
THEOREM NothingIsSkipped == Spec => []ErrorIsThorough
<1>1. IInv => ErrorIsThorough
    BY DEF IInv, Walked, Walk, ErrorIsThorough, NoJob
<1> QED
    BY <1>1, Invariance, PTL
=============================================================================
