-------------------------- MODULE SupervisorProofs --------------------------
(***************************************************************************)
(* Proofs about the supervisor of module Supervisor.                       *)
(***************************************************************************)
EXTENDS Supervisor, TLAPS

-----------------------------------------------------------------------------
(* What the theorems suppose of the limits                                 *)

\* A report is answered before the next one is due.
ReportsAreShort == MaxReport < ReportInterval

\* Silence is suffered for longer than a session without any answer, and
\* reports are sent when the tunnel is looked at.
LimitsAreOrdered ==
    /\ ReportsAreShort
    /\ ReportInterval % LivenessPoll = 0
    /\ ConnectTimeout + MaxReport <= LivenessTimeout

\* A server answers, and the ones in front of it time out within the limits.
LimitsLeaveRoom ==
    /\ DeadServers < Servers
    /\ DeadServers * DnsTimeout <= ConnectTimeout
    /\ ProbeInterval + DeadServers * DnsTimeout <= LivenessTimeout

-----------------------------------------------------------------------------
(* The parts of the inductive invariants                                   *)

\* The network is the baseline's until it changes.
Watched ==
    /\ ~present => changed
    /\ phase \in {"run", "report"} /\ ~pinned => network = baseline \/ changed \/ blind
    /\ phase # "done" => outcome = Running

\* A report begins when it is due, and is due at the start of its interval.
Reported ==
    /\ phase = "connecting" => clock = 0 /\ sessionAge = 0 /\ due = {}
    /\ phase = "run" => reportFor = 0
    /\ phase = "report" => clock = reportFor
    /\ phase \in {"connecting", "report"} => reportFor <= MaxReport
    /\ "report" \in due => phase = "run" /\ clock = 0

\* Only a call to the server delays a cancellation.
Prompt ==
    /\ ~cancelled => cancelledFor = 0
    /\ phase \in {"connecting", "report"} => cancelledFor <= reportFor
    /\ phase = "run" => cancelledFor <= MaxReport
    /\ "report" \in due => cancelledFor = 0

\* An age is looked at every LivenessPoll seconds, after the report at most.
Late(age, limit, intervals, where, reporting, time) ==
    IF "liveness" \notin intervals THEN age <= limit + (time % LivenessPoll)
    ELSE IF where = "report" THEN age <= limit + LivenessPoll + reporting
    ELSE IF "report" \in intervals THEN age <= limit + LivenessPoll
    ELSE age <= limit + LivenessPoll + MaxReport

Polled ==
    /\ phase = "connecting" /\ lastRx # None => lastRx <= reportFor
    /\ phase \in {"run", "report"} =>
          IF lastRx = None THEN Late(sessionAge, ConnectTimeout, due, phase, reportFor, clock)
          ELSE Late(lastRx, LivenessTimeout, due, phase, reportFor, clock)
    /\ outcome.event = "HandshakeTimeout" /\ ~outcome.was_healthy => sessionAge > ConnectTimeout

\* After its death a tunnel answers no more.
Silent ==
    /\ alive => deadFor = 0
    /\ phase # "done" /\ lastRx # None => deadFor <= lastRx
    /\ phase = "connecting" /\ lastRx = None => deadFor <= reportFor
    /\ phase \in {"run", "report"} /\ lastRx = None => deadFor <= sessionAge + MaxReport

\* Seconds until a server answers, if the tunnel lives.
Remaining ==
    IF server = 0 THEN DeadServers * DnsTimeout + (IF roundDue THEN 0 ELSE probeClock)
    ELSE IF server > DeadServers THEN 0
    ELSE (DeadServers - server) * DnsTimeout + (DnsTimeout - waited)

Answering ==
    alive => /\ server > DeadServers => waited = 0
             /\ IF lastRx = None
                THEN /\ roundDue \/ server > 0
                     /\ sessionAge + Remaining <= DeadServers * DnsTimeout
                ELSE lastRx + Remaining <= ProbeInterval + DeadServers * DnsTimeout

-----------------------------------------------------------------------------
(* Arithmetic                                                              *)

\* The remainder is less than the divisor.
LEMMA ModType ==
    ASSUME NEW n \in Nat, NEW d \in Nat \ {0}
    PROVE  n % d \in 0 .. d - 1
    OBVIOUS

\* Below the divisor the remainder is the number, at the divisor it is 0.
LEMMA ModWraps ==
    ASSUME NEW n \in Nat, NEW d \in Nat \ {0}
    PROVE  /\ n < d => n % d = n
           /\ n = d => n % d = 0
    OBVIOUS

\* The remainder grows with the number until it is 0 again.
LEMMA ModStep ==
    ASSUME NEW n \in Nat, NEW d \in Nat \ {0}, (n + 1) % d # 0
    PROVE  (n + 1) % d = (n % d) + 1
<1> DEFINE q == n \div d
           r == n % d
<1>1. q \in Nat /\ r \in 0 .. d - 1 /\ n = d * q + r
    OBVIOUS
<1>2. n + 1 = d * q + (r + 1)
    BY <1>1
<1> HIDE DEF q, r
<1>3. CASE r + 1 = d
    <2>1. n + 1 = d * (q + 1)
        BY <1>1, <1>2, <1>3
    <2>2. (n + 1) % d = 0
        BY <1>1, <2>1
    <2> QED
        BY <2>2
<1>4. CASE r + 1 < d
    <2>1. (n + 1) % d = r + 1
        BY <1>1, <1>2, <1>4
    <2> QED
        BY <2>1 DEF r
<1> QED
    BY <1>1, <1>3, <1>4

\* The constants are numbers.
LEMMA Constants ==
    /\ LivenessPoll \in Nat \ {0} /\ NetworkPoll \in Nat \ {0} /\ ReportInterval \in Nat \ {0}
    /\ ProbeInterval \in Nat \ {0} /\ DnsTimeout \in Nat \ {0}
    /\ ConnectTimeout \in Nat /\ LivenessTimeout \in Nat /\ Servers \in Nat
    /\ DeadServers \in Nat /\ MaxReport \in Nat
    /\ AgeBound \in Nat /\ AgeBound = ConnectTimeout + LivenessTimeout + LivenessPoll + NetworkPoll + MaxReport + 1
    BY SupervisorAssumption DEF AgeBound

\* Counting stops at the bound.
LEMMA CountingIsBounded ==
    ASSUME NEW n \in 0 .. AgeBound, NEW on \in BOOLEAN
    PROVE  /\ Cap(n + 1, AgeBound) \in 0 .. AgeBound /\ Cap(n + 1, AgeBound) <= n + 1
           /\ n < AgeBound => Cap(n + 1, AgeBound) = n + 1
           /\ Counting(n, on) = IF on THEN Cap(n + 1, AgeBound) ELSE n
           /\ Counting(n, on) \in 0 .. AgeBound
    BY Constants DEF Cap, Counting

-----------------------------------------------------------------------------
(* Types                                                                   *)

Flags ==
    /\ alive \in BOOLEAN /\ deviceUp \in BOOLEAN /\ pinned \in BOOLEAN /\ present \in BOOLEAN
    /\ roundDue \in BOOLEAN /\ cancelled \in BOOLEAN /\ changed \in BOOLEAN /\ blind \in BOOLEAN

Ranges ==
    /\ network \in Networks /\ baseline \in Networks
    /\ server \in 0 .. Servers
    /\ waited \in 0 .. DnsTimeout
    /\ probeClock \in 1 .. ProbeInterval
    /\ lastRx \in {None} \cup 0 .. AgeBound
    /\ phase \in {"connecting", "run", "report", "done"}
    /\ clock \in 0 .. ReportInterval - 1
    /\ sessionAge \in 0 .. AgeBound
    /\ due \subseteq Intervals
    /\ deadFor \in 0 .. AgeBound /\ cancelledFor \in 0 .. AgeBound /\ reportFor \in 0 .. AgeBound
    /\ lostFor \in 0 .. AgeBound

\* The type invariant, spelt out.
LEMMA TypeParts == TypeOK <=> Flags /\ Ranges
<1>1. {alive, deviceUp, pinned, present, roundDue, cancelled, changed, blind} \subseteq BOOLEAN
         <=> Flags
    BY Zenon DEF Flags
<1>2. {deadFor, cancelledFor, reportFor, lostFor} \subseteq 0 .. AgeBound
         <=> /\ deadFor \in 0 .. AgeBound /\ cancelledFor \in 0 .. AgeBound /\ reportFor \in 0 .. AgeBound
             /\ lostFor \in 0 .. AgeBound
    BY Zenon
<1> QED
    BY <1>1, <1>2, Zenon DEF TypeOK, Ranges

\* The type invariant holds initially.
LEMMA InitTypes == Init => TypeOK
<1> SUFFICES ASSUME Init PROVE Flags /\ Ranges
    BY TypeParts
<1>1. Flags
    BY DEF Init, Flags
<1>2. Ranges
    BY Constants, SupervisorAssumption DEF Init, Ranges, Intervals
<1> QED
    BY <1>1, <1>2

\* The probe keeps the types.
LEMMA ProbeTypes ==
    ASSUME Flags, Ranges, Probe
    PROVE  Flags' /\ Ranges'
<1> USE DEF environment, loop, observers
<1>1. CASE ProbeRound
    <2>1. Flags'
        BY <1>1 DEF ProbeRound, Flags
    <2>2. server' \in 0 .. Servers /\ waited' \in 0 .. DnsTimeout
        BY <1>1, Constants DEF ProbeRound, Ranges
    <2> QED
        BY <1>1, <2>1, <2>2 DEF ProbeRound, Ranges
<1>2. CASE ProbeReply
    BY <1>2, Constants DEF ProbeReply, Flags, Ranges
<1>3. CASE ProbeTimeout
    BY <1>3, Constants DEF ProbeTimeout, Flags, Ranges
<1> QED
    BY <1>1, <1>2, <1>3 DEF Probe

\* A branch that returns keeps the types.
LEMMA EndsTypes ==
    ASSUME Flags, Ranges, NEW event, NEW healthy, Ends(event, healthy), blind' \in BOOLEAN
    PROVE  Flags' /\ Ranges'
    BY DEF Ends, environment, probe, Flags, Ranges

\* A branch that goes on keeps the types.
LEMMA PassesTypes ==
    ASSUME Flags, Ranges, NEW interval, Passes(interval), lostFor' \in {0, lostFor},
           phase' \in {"connecting", "run", "report", "done"}
    PROVE  Flags' /\ Ranges'
<1>1. lostFor' \in 0 .. AgeBound
    BY Constants DEF Ranges
<1> QED
    BY <1>1 DEF Passes, environment, probe, Flags, Ranges

\* What the branches of a look at the network come to.
LEMMA LookCases ==
    ASSUME Flags, NetworkTick
    PROVE  /\ phase = "run" /\ "network" \in due
           /\ \/ \E failed \in BOOLEAN : GivesUp(failed) /\ (~failed => Lost)
              \/ Handled("network") /\ UNCHANGED phase /\ ~Lost
              \/ Skips
<1>1. phase = "run" /\ "network" \in due /\ (PinnedLook \/ DefaultLook)
    BY DEF NetworkTick
<1>2. CASE PinnedLook
    BY <1>1, <1>2 DEF PinnedLook, Lost
<1>3. CASE DefaultLook
    <2>1. ASSUME NEW now, now # baseline, GivesUp(now # network)
          PROVE  \E failed \in BOOLEAN : GivesUp(failed) /\ (~failed => Lost)
        <3>1. CASE now = network
            <4>1. GivesUp(FALSE) /\ Lost
                BY <1>3, <2>1, <3>1 DEF DefaultLook, Lost, GivesUp
            <4> QED
                BY <4>1
        <3>2. CASE now # network
            <4>1. GivesUp(TRUE)
                BY <2>1, <3>2 DEF GivesUp
            <4> QED
                BY <4>1
        <3> QED
            BY <3>1, <3>2
    <2> QED
        BY <1>1, <1>3, <2>1 DEF DefaultLook, Lost
<1> QED
    BY <1>1, <1>2, <1>3

\* The loop keeps the types.
LEMMA LoopTypes ==
    ASSUME Flags, Ranges, Loop \/ ReportAnswer
    PROVE  Flags' /\ Ranges'
<1>1. CASE RunBegins
    <2> USE DEF environment, probe
    <2>1. Flags'
        <3>1. blind' \in BOOLEAN
            BY <1>1 DEF RunBegins
        <3> QED
            BY <1>1, <3>1 DEF RunBegins, Flags
    <2>2. /\ clock' \in 0 .. ReportInterval - 1 /\ sessionAge' \in 0 .. AgeBound
          /\ reportFor' \in 0 .. AgeBound
        BY <1>1, Constants DEF RunBegins
    <2>3. due' \subseteq Intervals /\ baseline' \in Networks /\ phase' = "run"
        BY <1>1, SupervisorAssumption DEF RunBegins, capture_blocking, Ranges, Intervals
    <2> QED
        BY <1>1, <2>1, <2>2, <2>3 DEF RunBegins, Ranges
<1>2. CASE Cancelled \/ TransportFailed
    BY <1>2, EndsTypes DEF Cancelled, TransportFailed, Returns, Flags
<1>3. CASE LivenessTick
    BY <1>3, EndsTypes, PassesTypes DEF LivenessTick, Returns, Handled, Flags, Ranges
<1>4. CASE NetworkTick
    <2>1. ASSUME NEW failed \in BOOLEAN, GivesUp(failed) PROVE Flags' /\ Ranges'
        BY <2>1, EndsTypes DEF GivesUp, Flags
    <2>2. CASE Handled("network") /\ UNCHANGED phase
        BY <2>2, PassesTypes DEF Handled, Ranges
    <2>3. CASE Skips
        BY <2>3, PassesTypes DEF Skips, Ranges
    <2> QED
        BY <1>4, <2>1, <2>2, <2>3, LookCases
<1>5. CASE ReportTick
    BY <1>5, PassesTypes DEF ReportTick, Handled
<1>6. CASE ReportAnswer
    <2>1. CASE Returns("ServerKickOut", WasHealthy)
        BY <2>1, EndsTypes DEF Returns, Flags
    <2>2. CASE phase' = "run" /\ ~Returns("ServerKickOut", WasHealthy)
        BY <1>6, <2>2, Constants DEF ReportAnswer, environment, probe, Flags, Ranges
    <2> QED
        BY <1>6, <2>1, <2>2 DEF ReportAnswer
<1> QED
    BY <1>1, <1>2, <1>3, <1>4, <1>5, <1>6 DEF Loop

\* The environment keeps the types.
LEMMA EnvironmentTypes ==
    ASSUME Flags, Ranges, Environment
    PROVE  Flags' /\ Ranges'
<1> USE DEF environment, probe, loop, observers
<1>1. CASE TunnelDies
    BY <1>1 DEF TunnelDies, Flags, Ranges
<1>2. CASE DeviceStops
    BY <1>2 DEF DeviceStops, Flags, Ranges
<1>3. CASE NetworkChanges
    BY <1>3, Constants DEF NetworkChanges, Flags, Ranges
<1>4. CASE InterfaceLost
    <2>1. 0 \in 0 .. AgeBound
        BY Constants
    <2>2. Flags'
        BY <1>4 DEF InterfaceLost, Flags
    <2> QED
        BY <1>4, <2>1, <2>2 DEF InterfaceLost, Ranges
<1>5. CASE CancelToken
    BY <1>5 DEF CancelToken, Flags, Ranges
<1> QED
    BY <1>1, <1>2, <1>3, <1>4, <1>5 DEF Environment

\* What a second changes.
LEMMA TickFacts ==
    ASSUME Flags, Ranges, Tick
    PROVE  /\ phase # "done" /\ ~Urgent
           /\ phase \in {"connecting", "report"} => reportFor < MaxReport
           /\ waited' = IF server > 0 THEN waited + 1 ELSE 0
           /\ probeClock' = IF probeClock = 1 THEN ProbeInterval ELSE probeClock - 1
           /\ roundDue' = (roundDue \/ probeClock = 1)
           /\ lastRx' = IF lastRx = None THEN None ELSE Cap(lastRx + 1, AgeBound)
           /\ clock' = IF phase = "connecting" THEN 0 ELSE (clock + 1) % ReportInterval
           /\ sessionAge' = IF phase = "connecting" THEN 0 ELSE Cap(sessionAge + 1, AgeBound)
           /\ due' = IF phase = "connecting" THEN {} ELSE due \cup Ticked(clock + 1)
           /\ deadFor' = IF ~alive THEN Cap(deadFor + 1, AgeBound) ELSE deadFor
           /\ cancelledFor' = IF cancelled THEN Cap(cancelledFor + 1, AgeBound) ELSE cancelledFor
           /\ reportFor' = IF phase \in {"connecting", "report"} THEN Cap(reportFor + 1, AgeBound)
                           ELSE reportFor
           /\ lostFor' = IF phase # "connecting" /\ Lost THEN Cap(lostFor + 1, AgeBound) ELSE lostFor
           /\ UNCHANGED <<alive, deviceUp, network, pinned, present, server, phase, baseline,
                          cancelled, outcome, changed, blind>>
    BY DEF Tick, Older, Counting, environment

\* A second keeps the types.
LEMMA TickTypes ==
    ASSUME Flags, Ranges, Tick
    PROVE  Flags' /\ Ranges'
<1>1. Flags'
    BY TickFacts DEF Flags
<1>2. waited' \in 0 .. DnsTimeout
    BY TickFacts, Constants DEF Ranges, Urgent
<1>3. probeClock' \in 1 .. ProbeInterval
    BY TickFacts, Constants DEF Ranges
<1>4. clock' \in 0 .. ReportInterval - 1
    <2>1. clock + 1 \in Nat
        BY Constants DEF Ranges
    <2>2. (clock + 1) % ReportInterval \in 0 .. ReportInterval - 1
        BY <2>1, Constants, ModType
    <2> QED
        BY <2>2, TickFacts, Constants
<1>5. /\ lastRx' \in {None} \cup 0 .. AgeBound /\ sessionAge' \in 0 .. AgeBound
      /\ deadFor' \in 0 .. AgeBound /\ cancelledFor' \in 0 .. AgeBound /\ reportFor' \in 0 .. AgeBound
      /\ lostFor' \in 0 .. AgeBound
    <2>1. \A n \in 0 .. AgeBound : Cap(n + 1, AgeBound) \in 0 .. AgeBound
        BY CountingIsBounded
    <2>2. 0 \in 0 .. AgeBound
        BY Constants
    <2> QED
        BY <2>1, <2>2, TickFacts DEF Ranges
<1>6. due' \subseteq Intervals
    BY TickFacts DEF Ranges, Ticked, Intervals
<1> QED
    BY <1>1, <1>2, <1>3, <1>4, <1>5, <1>6, TickFacts DEF Ranges

\* Every step keeps the types.
LEMMA NextTypes == TypeOK /\ [Next]_vars => TypeOK'
<1>0. (TypeOK <=> Flags /\ Ranges)'
    BY TypeParts, PTL
<1> SUFFICES ASSUME Flags, Ranges, [Next]_vars PROVE Flags' /\ Ranges'
    BY <1>0, TypeParts
<1>1. CASE UNCHANGED vars
    BY <1>1 DEF vars, environment, probe, loop, observers, Flags, Ranges
<1> QED
    BY <1>1, LoopTypes, ProbeTypes, EnvironmentTypes, TickTypes DEF Next, Over

\* The variables have their types: the waiting of the probe, the ticks of its
\* interval and the phases of the loop stay within their ranges.
THEOREM TypeCorrect == Spec => []TypeOK
<1> QED
    BY InitTypes, NextTypes, PTL DEF Spec

-----------------------------------------------------------------------------
(* Changes of the network                                                  *)

NetworkInv == Watched /\ ChangeHasCause

\* A session that ends for another reason, or for a change that was seen.
LEMMA EndsWatched ==
    ASSUME NetworkInv, NEW event, NEW healthy, Ends(event, healthy),
           blind => blind', event = "NetworkChanged" => changed \/ blind'
    PROVE  NetworkInv'
    BY DEF NetworkInv, Watched, ChangeHasCause, Ends, environment

\* A step that leaves the network and the loop where they are.
LEMMA NetworkStays ==
    ASSUME NetworkInv, UNCHANGED <<network, pinned, present, baseline, outcome, changed, blind>>,
           phase' = phase \/ (phase \in {"run", "report"} /\ phase' \in {"run", "report"})
    PROVE  NetworkInv'
    BY DEF NetworkInv, Watched, ChangeHasCause

\* Every step keeps the baseline that of the network, unless it changed.
LEMMA NextNetwork == TypeOK /\ NetworkInv /\ [Next]_vars => NetworkInv'
<1> SUFFICES ASSUME Flags, Ranges, NetworkInv, [Next]_vars PROVE NetworkInv'
    BY TypeParts
<1> USE DEF environment, probe, loop, observers
<1>1. CASE RunBegins
    <2>1. blind' <=> baseline' # network
        BY <1>1 DEF RunBegins
    <2>2. /\ phase = "connecting" /\ phase' = "run"
          /\ UNCHANGED <<network, pinned, present, outcome, changed>>
        BY <1>1 DEF RunBegins
    <2>3. outcome = Running
        BY <2>2 DEF NetworkInv, Watched
    <2> QED
        BY <2>1, <2>2, <2>3 DEF NetworkInv, Watched, ChangeHasCause, Running
<1>2. CASE Cancelled \/ TransportFailed
    <2>1. CASE Cancelled
        BY <2>1 DEF Cancelled, Returns, Ends, NetworkInv, Watched, ChangeHasCause
    <2>2. CASE TransportFailed
        BY <2>2, EndsWatched DEF TransportFailed, Returns
    <2> QED
        BY <1>2, <2>1, <2>2
<1>3. CASE LivenessTick
    BY <1>3, EndsWatched, NetworkStays DEF LivenessTick, Returns, Handled, Passes
<1>4. CASE NetworkTick
    <2>1. ASSUME NEW failed \in BOOLEAN, GivesUp(failed), ~failed => Lost PROVE NetworkInv'
        <3>1. Lost => changed \/ blind
            BY <1>4, LookCases DEF Lost, NetworkInv, Watched, Flags
        <3> QED
            BY <2>1, <3>1, EndsWatched DEF GivesUp, Flags
    <2>2. CASE Handled("network") /\ UNCHANGED phase
        BY <2>2, NetworkStays DEF Handled, Passes
    <2>3. CASE Skips
        BY <2>3, NetworkStays DEF Skips, Passes
    <2> QED
        BY <1>4, <2>1, <2>2, <2>3, LookCases
<1>5. CASE ReportTick
    BY <1>5, NetworkStays DEF ReportTick, Handled, Passes
<1>6. CASE ReportAnswer
    BY <1>6, EndsWatched, NetworkStays DEF ReportAnswer, Returns
<1>7. CASE Probe
    BY <1>7, NetworkStays DEF Probe, ProbeRound, ProbeReply, ProbeTimeout
<1>8. CASE TunnelDies \/ DeviceStops \/ CancelToken
    BY <1>8, NetworkStays DEF TunnelDies, DeviceStops, CancelToken
<1>9. CASE NetworkChanges \/ InterfaceLost
    BY <1>9 DEF NetworkChanges, InterfaceLost, NetworkInv, Watched, ChangeHasCause
<1>10. CASE Tick
    BY <1>10, TickFacts, NetworkStays
<1>11. CASE UNCHANGED vars
    BY <1>11, NetworkStays DEF vars
<1> QED
    BY <1>1, <1>2, <1>3, <1>4, <1>5, <1>6, <1>7, <1>8, <1>9, <1>10, <1>11
       DEF Next, Loop, Environment, Over

\* A session is given up for a change of the network only when the network is
\* another one than at its start, or a look at it failed, for any networks,
\* intervals and limits, whatever the lookups and snapshots return.
THEOREM NoFalseChange == Spec => []ChangeHasCause
<1>1. Init => NetworkInv
    BY DEF Init, NetworkInv, Watched, ChangeHasCause, Running
<1>2. NetworkInv => ChangeHasCause
    BY DEF NetworkInv
<1> QED
    BY <1>1, <1>2, NextNetwork, TypeCorrect, PTL DEF Spec

-----------------------------------------------------------------------------
(* Cancellation                                                            *)

ReportInv == Reported /\ Prompt

\* The state that the deadlines are about stays.
TimesStay ==
    UNCHANGED <<phase, clock, sessionAge, due, cancelled, cancelledFor, reportFor>>

\* A session that ends.
LEMMA EndsPrompt ==
    ASSUME ReportInv, NEW event, NEW healthy, Ends(event, healthy)
    PROVE  ReportInv'
    BY DEF ReportInv, Reported, Prompt, Ends

\* A tick of an interval that is handled.
LEMMA HandledPrompt ==
    ASSUME ReportInv, phase = "run", NEW interval, Passes(interval),
           phase' = "run" \/ (phase' = "report" /\ interval = "report" /\ "report" \in due)
    PROVE  ReportInv'
    BY Constants DEF ReportInv, Reported, Prompt, Passes

\* A second: a cancellation waits with the call to the server only.
LEMMA TickPrompt ==
    ASSUME ReportsAreShort, Flags, Ranges, ReportInv, Tick
    PROVE  ReportInv'
<1> USE DEF ReportInv
<1>1. CASE phase = "run"
    <2>1. ~cancelled /\ due = {} /\ phase' = "run" /\ reportFor' = 0 /\ cancelledFor' = 0
        BY <1>1, TickFacts DEF Urgent, CancelReady, Reported, Prompt, Flags
    <2>2. cancelled' = cancelled
        BY TickFacts
    <2>3. "report" \in due' => clock' = 0
        BY <1>1, <2>1, TickFacts DEF Ticked
    <2> QED
        BY <2>1, <2>2, <2>3, Constants DEF Reported, Prompt
<1>2. CASE phase \in {"connecting", "report"}
    <2>0. reportFor \in 0 .. AgeBound /\ cancelledFor \in 0 .. AgeBound
        BY DEF Ranges
    <2>1. /\ phase' = phase /\ cancelled' = cancelled /\ reportFor < MaxReport
          /\ reportFor' = reportFor + 1
        <3>1. reportFor < MaxReport /\ reportFor' = Cap(reportFor + 1, AgeBound)
            BY <1>2, TickFacts
        <3>2. reportFor < AgeBound
            BY <2>0, <3>1, Constants
        <3> QED
            BY <2>0, <3>1, <3>2, TickFacts, CountingIsBounded
    <2>2. /\ cancelled => cancelledFor' <= cancelledFor + 1
          /\ ~cancelled => cancelledFor' = cancelledFor
        BY TickFacts, CountingIsBounded DEF Ranges
    <2>3. reportFor' <= MaxReport /\ cancelledFor' <= reportFor'
        <3>1. cancelledFor <= reportFor
            BY <1>2 DEF Prompt
        <3>2. cancelledFor' \in Nat /\ cancelledFor' <= cancelledFor + 1
            BY <2>0, <2>2, TickTypes, Constants DEF Ranges
        <3> QED
            BY <2>0, <2>1, <3>1, <3>2, Constants
    <2>4. Prompt'
        <3>1. ~cancelled' => cancelledFor' = 0
            BY <2>1, <2>2 DEF Prompt
        <3>2. "report" \notin due'
            <4>1. CASE phase = "connecting"
                BY <4>1, TickFacts
            <4>2. CASE phase = "report"
                <5>1. clock + 1 \in Nat /\ clock + 1 < ReportInterval /\ clock + 1 # 0
                    BY <2>1, <4>2, Constants DEF Reported, ReportsAreShort, Ranges
                <5>2. (clock + 1) % ReportInterval # 0
                    BY <5>1, ModWraps, Constants
                <5> QED
                    BY <4>2, <5>2, TickFacts DEF Ticked, Reported
            <4> QED
                BY <1>2, <4>1, <4>2
        <3> QED
            BY <1>2, <2>1, <2>3, <3>1, <3>2 DEF Prompt
    <2>5. Reported'
        <3>1. CASE phase = "connecting"
            BY <2>1, <2>3, <3>1, TickFacts DEF Reported
        <3>2. CASE phase = "report"
            <4>1. clock + 1 \in Nat /\ clock + 1 < ReportInterval /\ clock + 1 # 0
                BY <2>1, <3>2, Constants DEF Reported, ReportsAreShort, Ranges
            <4>2. (clock + 1) % ReportInterval = clock + 1
                BY <4>1, ModWraps, Constants
            <4>3. clock' = reportFor' /\ "report" \notin due'
                BY <2>1, <3>2, <4>1, <4>2, TickFacts DEF Ticked, Reported
            <4> QED
                BY <2>1, <2>3, <3>2, <4>3 DEF Reported
        <3> QED
            BY <1>2, <3>1, <3>2
    <2> QED
        BY <2>4, <2>5
<1> QED
    BY <1>1, <1>2, TickFacts DEF Ranges

\* Every step keeps a cancellation prompt.
LEMMA NextPrompt ==
    ASSUME ReportsAreShort
    PROVE  TypeOK /\ ReportInv /\ [Next]_vars => ReportInv'
<1> SUFFICES ASSUME Flags, Ranges, ReportInv, [Next]_vars PROVE ReportInv'
    BY TypeParts
<1> USE DEF environment, probe, loop, observers
<1>1. CASE RunBegins
    BY <1>1, Constants DEF RunBegins, ReportInv, Reported, Prompt, Ranges
<1>2. CASE Cancelled \/ TransportFailed
    BY <1>2, EndsPrompt DEF Cancelled, TransportFailed, Returns
<1>3. CASE LivenessTick
    BY <1>3, EndsPrompt, HandledPrompt DEF LivenessTick, Returns, Handled
<1>4. CASE NetworkTick
    BY <1>4, LookCases, EndsPrompt, HandledPrompt DEF GivesUp, Skips, Handled
<1>5. CASE ReportTick
    BY <1>5, HandledPrompt DEF ReportTick, Handled
<1>6. CASE ReportAnswer
    <2>1. CASE Returns("ServerKickOut", WasHealthy)
        BY <2>1, EndsPrompt DEF Returns
    <2>2. CASE ~Returns("ServerKickOut", WasHealthy)
        BY <1>6, <2>2, Constants DEF ReportAnswer, ReportInv, Reported, Prompt, Ranges
    <2> QED
        BY <2>1, <2>2
<1>7. CASE TimesStay
    BY <1>7 DEF TimesStay, ReportInv, Reported, Prompt
<1>8. CASE Probe \/ TunnelDies \/ DeviceStops \/ NetworkChanges \/ InterfaceLost \/ UNCHANGED vars
    BY <1>7, <1>8 DEF TimesStay, Probe, ProbeRound, ProbeReply, ProbeTimeout, TunnelDies,
                      DeviceStops, NetworkChanges, InterfaceLost, vars
<1>9. CASE CancelToken
    BY <1>9 DEF CancelToken, ReportInv, Reported, Prompt
<1>10. CASE Tick
    BY <1>10, TickPrompt
<1> QED
    BY <1>1, <1>2, <1>3, <1>4, <1>5, <1>6, <1>8, <1>9, <1>10 DEF Next, Loop, Environment, Over

\* The invariant holds always.
LEMMA PromptInvariance ==
    ASSUME ReportsAreShort
    PROVE  Spec => []ReportInv
<1>1. Init => ReportInv
    BY Constants DEF Init, ReportInv, Reported, Prompt
<1> QED
    BY <1>1, NextPrompt, TypeCorrect, PTL DEF Spec

\* A cancellation waits for the call to the server that is in progress, and
\* for no second one, although the branches of the select! are not ordered.
THEOREM CancelWaitsOnce ==
    ASSUME ReportsAreShort
    PROVE  Spec => []CancelIsPrompt
<1>1. TypeOK /\ ReportInv => CancelIsPrompt
    BY TypeParts, Constants DEF ReportInv, Reported, Prompt, CancelIsPrompt, Ranges
<1> QED
    BY <1>1, PromptInvariance, TypeCorrect, PTL

-----------------------------------------------------------------------------
(* The loss of the network                                                 *)

\* Reports are sent when the network is looked at.
LooksAreRegular == ReportsAreShort /\ ReportInterval % NetworkPoll = 0

\* How long the network may be lost, by where the loop is.
LossBound(intervals, where, reporting, time) ==
    IF "network" \notin intervals THEN time % NetworkPoll
    ELSE IF where = "report" THEN NetworkPoll + reporting
    ELSE IF "report" \in intervals THEN NetworkPoll
    ELSE NetworkPoll + MaxReport

\* The network is looked at every NetworkPoll seconds, after the report at
\* most, and the count begins when it is lost.
LossInv ==
    /\ phase = "connecting" => lostFor = 0
    /\ phase \in {"run", "report"} => lostFor <= LossBound(due, phase, reportFor, clock)
    /\ phase # "done" /\ ~Lost => lostFor = 0

\* The bounds are numbers, and in order.
LEMMA LossBoundType ==
    ASSUME Ranges, ReportInv, phase \in {"run", "report"}
    PROVE  /\ LossBound(due, phase, reportFor, clock) \in Nat
           /\ LossBound(due, phase, reportFor, clock) <= NetworkPoll + MaxReport
<1>1. clock % NetworkPoll \in 0 .. NetworkPoll - 1
    BY ModType, Constants DEF Ranges
<1>2. reportFor \in Nat /\ (phase = "report" => reportFor <= MaxReport)
    BY Constants DEF Ranges, ReportInv, Reported
<1> QED
    BY <1>1, <1>2, Constants DEF LossBound

\* A count of 0 is within every bound.
LEMMA NoLoss ==
    ASSUME Ranges', phase' # "done", lostFor' = 0
    PROVE  LossInv'
<1>0. clock' \in 0 .. ReportInterval - 1 /\ reportFor' \in 0 .. AgeBound
    BY DEF Ranges
<1>1. \A k \in 0 .. ReportInterval - 1, i \in 0 .. AgeBound :
          \A intervals, where : 0 <= LossBound(intervals, where, i, k)
    <2> TAKE k \in 0 .. ReportInterval - 1, i \in 0 .. AgeBound
    <2> TAKE intervals, where
    <2>1. k \in Nat /\ i \in Nat
        BY Constants
    <2>2. k % NetworkPoll \in 0 .. NetworkPoll - 1
        BY <2>1, ModType, Constants
    <2> QED
        BY <2>1, <2>2, Constants DEF LossBound
<1>2. 0 <= LossBound(due', phase', reportFor', clock')
    BY <1>0, <1>1
<1>3. lostFor' <= LossBound(due', phase', reportFor', clock')
    BY <1>2
<1> QED
    BY <1>3 DEF LossInv

\* A second later the network is looked at, or there is time left.
LEMMA LossTick ==
    ASSUME LooksAreRegular, Flags, Ranges, ReportInv, LossInv, Tick
    PROVE  LossInv'
<1> DEFINE n == clock + 1
           m == clock % NetworkPoll
<1>0. /\ phase # "done" /\ phase' = phase /\ (Lost' <=> Lost)
      /\ lostFor \in Nat /\ Ranges'
    BY TickFacts, TickTypes, Constants DEF Lost, Ranges
<1>1. n \in Nat /\ n <= ReportInterval /\ m \in 0 .. NetworkPoll - 1
    BY ModType, Constants DEF Ranges
<1>2. CASE phase = "connecting" \/ ~Lost
    <2>1. lostFor' = 0
        BY <1>0, <1>2, TickFacts DEF LossInv
    <2> QED
        BY <1>0, <2>1, NoLoss
<1>3. CASE phase \in {"run", "report"} /\ Lost
    <2>1. lostFor' \in Nat /\ lostFor' <= lostFor + 1
        <3>1. lostFor \in 0 .. AgeBound /\ lostFor' = Cap(lostFor + 1, AgeBound)
            BY <1>3, TickFacts DEF Ranges
        <3> QED
            BY <3>1, Constants DEF Cap
    <2>2. due' = due \cup Ticked(n) /\ clock' = n % ReportInterval
        BY <1>3, TickFacts
    <2>3. phase = "report" => reportFor \in Nat /\ reportFor' = reportFor + 1
        <3>1. reportFor \in 0 .. AgeBound
            BY DEF Ranges
        <3>2. phase = "report" => reportFor < MaxReport /\ reportFor' = Cap(reportFor + 1, AgeBound)
            BY TickFacts
        <3>3. reportFor < MaxReport => reportFor < AgeBound
            BY <3>1, Constants
        <3>4. reportFor < AgeBound => Cap(reportFor + 1, AgeBound) = reportFor + 1
            BY <3>1, Constants DEF Cap
        <3> QED
            BY <3>1, <3>2, <3>3, <3>4, Constants
    <2>4. lostFor <= LossBound(due, phase, reportFor, clock)
        BY <1>3 DEF LossInv
    <2> SUFFICES lostFor' <= LossBound(due', phase', reportFor', clock')
        BY <1>0, <1>3 DEF LossInv
    <2> HIDE DEF n, m
    <2>5. CASE "network" \in due
        <3>1. phase = "report"
            BY <1>3, <2>5, TickFacts DEF Urgent
        <3>2. lostFor <= NetworkPoll + reportFor
            BY <2>4, <2>5, <3>1 DEF LossBound
        <3>3. lostFor' <= NetworkPoll + reportFor'
            BY <1>0, <2>1, <2>3, <3>1, <3>2, Constants
        <3> QED
            BY <1>0, <2>2, <2>5, <3>1, <3>3 DEF LossBound
    <2>6. CASE "network" \notin due
        <3>1. lostFor <= m
            BY <2>4, <2>6 DEF LossBound, m
        <3>2. CASE n % NetworkPoll = 0
            <4>1. "network" \in due'
                BY <2>2, <3>2 DEF Ticked
            <4>2. lostFor' <= NetworkPoll
                BY <1>0, <1>1, <2>1, <3>1, Constants
            <4> QED
                BY <1>0, <1>3, <2>1, <2>3, <4>1, <4>2, Constants DEF LossBound
        <3>3. CASE n % NetworkPoll # 0
            <4>1. "network" \notin due'
                BY <2>2, <2>6, <3>3 DEF Ticked
            <4>2. n % NetworkPoll = m + 1
                <5>1. clock \in Nat /\ NetworkPoll \in Nat \ {0}
                    BY Constants DEF Ranges
                <5>2. (clock + 1) % NetworkPoll # 0
                    BY <3>3 DEF n
                <5>3. (clock + 1) % NetworkPoll = (clock % NetworkPoll) + 1
                    BY <5>1, <5>2, ModStep
                <5> QED
                    BY <5>3 DEF n, m
            <4>3. n # ReportInterval
                BY <3>3 DEF LooksAreRegular
            <4>4. clock' = n
                BY <1>1, <2>2, <4>3, ModWraps, Constants
            <4>5. lostFor' <= clock' % NetworkPoll
                BY <1>0, <1>1, <2>1, <3>1, <4>2, <4>4
            <4> QED
                BY <4>1, <4>5 DEF LossBound
        <3> QED
            BY <3>2, <3>3
    <2> QED
        BY <2>5, <2>6
<1> QED
    BY <1>0, <1>2, <1>3 DEF Ranges

\* A branch that takes no time and leaves the network's tick where it is.
LEMMA LossBranch ==
    ASSUME Ranges, Ranges', ReportInv, LossInv, UNCHANGED <<network, pinned, present, baseline, clock, lostFor>>,
           \/ phase = "run" /\ phase' = "run" /\ due' = due \ {"liveness"} /\ UNCHANGED reportFor
           \/ ReportTick
           \/ ReportAnswer /\ phase' = "run"
    PROVE  LossInv'
<1>0. /\ lostFor \in Nat /\ reportFor \in Nat
      /\ Lost' <=> Lost
    BY Constants DEF Ranges, Lost
<1>1. CASE phase = "run" /\ phase' = "run" /\ due' = due \ {"liveness"} /\ UNCHANGED reportFor
    BY <1>0, <1>1 DEF LossInv, LossBound
<1>2. CASE ReportTick
    <2>1. /\ phase = "run" /\ phase' = "report" /\ "report" \in due /\ reportFor' = 0
          /\ due' = due \ {"report"}
        BY <1>2 DEF ReportTick, Handled, Passes, ReportInv, Reported
    <2>2. lostFor <= LossBound(due', phase', reportFor', clock')
        BY <1>0, <2>1, Constants DEF LossInv, LossBound
    <2> QED
        BY <1>0, <2>1, <2>2 DEF LossInv
<1>3. CASE ReportAnswer /\ phase' = "run"
    <2>1. phase = "report" /\ reportFor <= MaxReport /\ "report" \notin due /\ due' = due
        BY <1>3 DEF ReportAnswer, Returns, Ends, ReportInv, Reported
    <2>2. lostFor <= LossBound(due', phase', reportFor', clock')
        BY <1>0, <1>3, <2>1, Constants DEF LossInv, LossBound
    <2> QED
        BY <1>0, <1>3, <2>1, <2>2 DEF LossInv
<1> QED
    BY <1>1, <1>2, <1>3

\* Every step keeps the bounds.
LEMMA NextLoss ==
    ASSUME LooksAreRegular
    PROVE  TypeOK /\ ReportInv /\ LossInv /\ [Next]_vars => LossInv'
<1>0. (TypeOK <=> Flags /\ Ranges)'
    BY TypeParts, PTL
<1> SUFFICES ASSUME Flags, Ranges, Ranges', ReportInv, LossInv, [Next]_vars PROVE LossInv'
    BY <1>0, TypeParts, NextTypes
<1> USE DEF environment, probe, loop, observers
<1>1. CASE RunBegins
    <2>1. lostFor' = 0 /\ phase' = "run"
        BY <1>1 DEF RunBegins, LossInv
    <2> QED
        BY <2>1, NoLoss
<1>2. ASSUME NEW event, NEW healthy, Ends(event, healthy) PROVE LossInv'
    BY <1>2 DEF Ends, LossInv
<1>3. CASE Cancelled \/ TransportFailed
    BY <1>2, <1>3 DEF Cancelled, TransportFailed, Returns
<1>4. CASE LivenessTick
    <2>1. CASE Handled("liveness") /\ UNCHANGED phase
        BY <1>4, <2>1, LossBranch DEF LivenessTick, Handled, Passes
    <2> QED
        BY <1>2, <1>4, <2>1 DEF LivenessTick, Returns
<1>5. CASE NetworkTick
    <2>1. CASE Handled("network") /\ UNCHANGED phase /\ ~Lost
        <3>1. lostFor' = 0 /\ phase' # "done"
            BY <1>5, <2>1, LookCases DEF Handled, LossInv
        <3> QED
            BY <3>1, NoLoss
    <2>2. CASE Skips
        <3>1. lostFor' = 0 /\ phase' # "done"
            BY <1>5, <2>2, LookCases DEF Skips
        <3> QED
            BY <3>1, NoLoss
    <2> QED
        BY <1>2, <1>5, <2>1, <2>2, LookCases DEF GivesUp
<1>6. CASE ReportTick
    BY <1>6, LossBranch DEF ReportTick, Handled, Passes
<1>7. CASE ReportAnswer
    <2>1. CASE Returns("ServerKickOut", WasHealthy)
        BY <1>2, <2>1 DEF Returns
    <2>2. CASE ~Returns("ServerKickOut", WasHealthy)
        <3>1. phase' = "run" /\ UNCHANGED <<network, pinned, present, baseline, clock, lostFor>>
            BY <1>7, <2>2 DEF ReportAnswer
        <3> QED
            BY <1>7, <3>1, LossBranch
    <2> QED
        BY <2>1, <2>2
<1>8. CASE NetworkChanges \/ InterfaceLost
    <2>1. lostFor' = 0 /\ phase' # "done"
        BY <1>8 DEF NetworkChanges, InterfaceLost
    <2> QED
        BY <2>1, NoLoss
<1>9. CASE UNCHANGED <<network, pinned, present, baseline, phase, due, clock, reportFor, lostFor>>
    BY <1>9 DEF LossInv, LossBound, Lost
<1>10. CASE Probe \/ TunnelDies \/ DeviceStops \/ CancelToken \/ UNCHANGED vars
    BY <1>9, <1>10 DEF Probe, ProbeRound, ProbeReply, ProbeTimeout, TunnelDies, DeviceStops,
                       CancelToken, vars
<1>11. CASE Tick
    BY <1>11, LossTick
<1> QED
    BY <1>1, <1>3, <1>4, <1>5, <1>6, <1>7, <1>8, <1>10, <1>11 DEF Next, Loop, Environment, Over

\* A network that is not the baseline any more, or a pinned interface that is
\* gone, ends the session at most a poll and a report later, or after the last
\* look that failed, at every phase of the polls and of the report.
THEOREM LossEndsSession ==
    ASSUME LooksAreRegular
    PROVE  Spec => []LossNoticed
<1>0. ReportsAreShort
    BY DEF LooksAreRegular
<1>1. Init => LossInv
    BY DEF Init, LossInv
<1>2. TypeOK /\ ReportInv /\ LossInv => LossNoticed
    <2> SUFFICES ASSUME Ranges, ReportInv, LossInv, phase # "done"
                 PROVE  lostFor <= NetworkPoll + MaxReport
        BY TypeParts DEF LossNoticed
    <2>1. lostFor \in Nat
        BY Constants DEF Ranges
    <2>2. CASE phase = "connecting"
        BY <2>2, Constants DEF LossInv
    <2>3. CASE phase \in {"run", "report"}
        BY <2>1, <2>3, LossBoundType, Constants DEF LossInv
    <2> QED
        BY <2>2, <2>3 DEF Ranges
<1> QED
    BY <1>0, <1>1, <1>2, NextLoss, PromptInvariance, TypeCorrect, PTL DEF Spec

-----------------------------------------------------------------------------
(* Deadlines                                                               *)

DeadlineInv == Polled /\ Silent

\* How late an age is looked at.
LEMMA LateIsBounded ==
    ASSUME Ranges, ReportInv, phase \in {"run", "report"}, NEW age \in Nat, NEW limit \in Nat,
           Late(age, limit, due, phase, reportFor, clock)
    PROVE  age <= limit + LivenessPoll + MaxReport
<1>1. clock % LivenessPoll \in 0 .. LivenessPoll - 1
    BY ModType, Constants DEF Ranges
<1>2. phase = "report" => reportFor <= MaxReport
    BY DEF ReportInv, Reported
<1>3. reportFor \in Nat
    BY Constants DEF Ranges
<1> QED
    BY <1>1, <1>2, <1>3, Constants DEF Late

\* An age that was in bounds when it was looked at is not late.
LEMMA InBounds ==
    ASSUME Ranges, NEW age \in Nat, NEW limit \in Nat, age <= limit, NEW intervals, NEW where
    PROVE  Late(age, limit, intervals, where, reportFor, clock)
<1>1. clock % LivenessPoll \in 0 .. LivenessPoll - 1
    BY ModType, Constants DEF Ranges
<1>2. reportFor \in Nat
    BY Constants DEF Ranges
<1> QED
    BY <1>1, <1>2, Constants DEF Late

\* A second later an age is looked at, or there is time left.
LEMMA LateTick ==
    ASSUME LimitsAreOrdered, Flags, Ranges, ReportInv, Tick, phase \in {"run", "report"},
           NEW age \in Nat, NEW older \in Nat, older <= age + 1, NEW limit \in Nat,
           Late(age, limit, due, phase, reportFor, clock)
    PROVE  Late(older, limit, due', phase', reportFor', clock')
<1> DEFINE n == clock + 1
           m == clock % LivenessPoll
<1>1. n \in Nat /\ n <= ReportInterval /\ m \in 0 .. LivenessPoll - 1
    BY ModType, Constants DEF Ranges
<1>2. due' = due \cup Ticked(n) /\ clock' = n % ReportInterval /\ phase' = phase
    BY TickFacts
<1>3. phase = "report" => reportFor \in Nat /\ reportFor' = reportFor + 1
    <2>1. reportFor \in 0 .. AgeBound
        BY DEF Ranges
    <2>2. phase = "report" => reportFor < MaxReport /\ reportFor' = Cap(reportFor + 1, AgeBound)
        BY TickFacts
    <2>3. reportFor < MaxReport => reportFor < AgeBound
        BY <2>1, Constants
    <2>4. reportFor < AgeBound => Cap(reportFor + 1, AgeBound) = reportFor + 1
        BY <2>1, Constants DEF Cap
    <2> QED
        BY <2>1, <2>2, <2>3, <2>4, Constants
<1> HIDE DEF n, m
<1>4. CASE "liveness" \in due
    <2>1. phase = "report"
        BY <1>4, TickFacts DEF Urgent
    <2>2. age <= limit + LivenessPoll + reportFor
        BY <1>4, <2>1 DEF Late
    <2>3. older <= limit + LivenessPoll + reportFor'
        BY <1>3, <2>1, <2>2, Constants
    <2> QED
        BY <1>2, <1>4, <2>1, <2>3 DEF Late
<1>5. CASE "liveness" \notin due
    <2>1. age <= limit + m
        BY <1>5 DEF Late, m
    <2>2. CASE n % LivenessPoll = 0
        <3>1. "liveness" \in due'
            BY <1>2, <2>2 DEF Ticked
        <3>2. older <= limit + LivenessPoll
            BY <1>1, <2>1, Constants
        <3> QED
            BY <1>2, <1>3, <3>1, <3>2, Constants DEF Late
    <2>3. CASE n % LivenessPoll # 0
        <3>1. "liveness" \notin due'
            BY <1>2, <1>5, <2>3 DEF Ticked
        <3>2. n % LivenessPoll = m + 1
            <4>1. clock \in Nat /\ LivenessPoll \in Nat \ {0}
                BY Constants DEF Ranges
            <4>2. (clock + 1) % LivenessPoll # 0
                BY <2>3 DEF n
            <4>3. (clock + 1) % LivenessPoll = (clock % LivenessPoll) + 1
                BY <4>1, <4>2, ModStep
            <4> QED
                BY <4>3 DEF n, m
        <3>3. n # ReportInterval
            BY <2>3 DEF LimitsAreOrdered
        <3>4. clock' = n
            BY <1>1, <1>2, <3>3, ModWraps, Constants
        <3>5. older <= limit + (clock' % LivenessPoll)
            BY <1>1, <2>1, <3>2, <3>4
        <3> QED
            BY <3>1, <3>5 DEF Late
    <2> QED
        BY <2>2, <2>3
<1> QED
    BY <1>4, <1>5

\* An age is below the bound, where it would stop counting, while it is looked
\* at in time.
LEMMA AgesCount ==
    ASSUME LimitsAreOrdered, Ranges, ReportInv, Polled, phase # "done"
    PROVE  /\ lastRx # None => lastRx < AgeBound
           /\ lastRx = None => sessionAge < AgeBound
           /\ phase \in {"connecting", "report"} => reportFor <= MaxReport
<1>1. phase \in {"connecting", "report"} => reportFor <= MaxReport
    BY DEF ReportInv, Reported
<1>2. reportFor \in Nat /\ sessionAge \in Nat /\ (lastRx # None => lastRx \in Nat)
    BY Constants DEF Ranges
<1>3. CASE phase = "connecting"
    BY <1>1, <1>2, <1>3, Constants DEF Polled, ReportInv, Reported
<1>4. CASE phase \in {"run", "report"} /\ lastRx = None
    <2>1. Late(sessionAge, ConnectTimeout, due, phase, reportFor, clock)
        BY <1>4 DEF Polled
    <2>2. sessionAge <= ConnectTimeout + LivenessPoll + MaxReport
        BY <1>2, <1>4, <2>1, LateIsBounded, Constants
    <2> QED
        BY <1>1, <1>2, <1>4, <2>2, Constants
<1>5. CASE phase \in {"run", "report"} /\ lastRx # None
    <2>1. Late(lastRx, LivenessTimeout, due, phase, reportFor, clock)
        BY <1>5 DEF Polled
    <2>2. lastRx <= LivenessTimeout + LivenessPoll + MaxReport
        BY <1>2, <1>5, <2>1, LateIsBounded, Constants
    <2> QED
        BY <1>1, <1>2, <1>5, <2>2, Constants
<1> QED
    BY <1>3, <1>4, <1>5 DEF Ranges

\* A session that ends keeps the deadlines.
LEMMA EndsInTime ==
    ASSUME DeadlineInv, NEW event, NEW healthy, Ends(event, healthy),
           event = "HandshakeTimeout" /\ ~healthy => sessionAge > ConnectTimeout
    PROVE  DeadlineInv'
<1>1. Polled'
    BY DEF DeadlineInv, Polled, Ends, probe
<1>2. Silent'
    BY DEF DeadlineInv, Silent, Ends, environment, probe
<1> QED
    BY <1>1, <1>2 DEF DeadlineInv

\* A second: the ages and the silence grow together.
LEMMA TickInTime ==
    ASSUME LimitsAreOrdered, Flags, Ranges, NetworkInv, ReportInv, DeadlineInv, Tick
    PROVE  DeadlineInv'
<1> USE DEF DeadlineInv
<1>1. phase # "done" /\ phase' = phase /\ outcome' = outcome /\ alive' = alive
    BY TickFacts
<1>2. /\ deadFor \in 0 .. AgeBound /\ reportFor \in 0 .. AgeBound /\ sessionAge \in 0 .. AgeBound
      /\ lastRx # None => lastRx \in 0 .. AgeBound
    BY DEF Ranges
<1>3. \A k \in 0 .. AgeBound : k < AgeBound => Cap(k + 1, AgeBound) = k + 1
    BY Constants DEF Cap
<1>4. deadFor' \in Nat /\ deadFor' <= deadFor + 1 /\ (alive => deadFor' = deadFor)
    <2>1. Cap(deadFor + 1, AgeBound) \in Nat /\ Cap(deadFor + 1, AgeBound) <= deadFor + 1
        BY <1>2, Constants DEF Cap
    <2> QED
        BY <1>2, <2>1, TickFacts, Constants
<1>5. lastRx = None => lastRx' = None
    BY TickFacts
<1>6. lastRx # None => lastRx' = lastRx + 1 /\ lastRx' # None
    <2>1. lastRx # None => lastRx' = Cap(lastRx + 1, AgeBound)
        BY TickFacts
    <2>2. lastRx # None => lastRx < AgeBound
        BY <1>1, AgesCount
    <2>3. lastRx # None => lastRx + 1 # None
        BY <1>2, Constants DEF None
    <2> QED
        BY <1>2, <1>3, <2>1, <2>2, <2>3
<1>7. phase \in {"connecting", "report"} => reportFor' = reportFor + 1
    <2>1. phase \in {"connecting", "report"}
              => reportFor < MaxReport /\ reportFor' = Cap(reportFor + 1, AgeBound)
        BY TickFacts
    <2>2. reportFor < MaxReport => reportFor < AgeBound
        BY <1>2, Constants
    <2> QED
        BY <1>2, <1>3, <2>1, <2>2
<1>8. phase \in {"run", "report"} /\ lastRx = None => sessionAge' = sessionAge + 1
    <2>1. phase \in {"run", "report"} => sessionAge' = Cap(sessionAge + 1, AgeBound)
        BY TickFacts
    <2>2. lastRx = None => sessionAge < AgeBound
        BY <1>1, AgesCount
    <2> QED
        BY <1>2, <1>3, <2>1, <2>2
<1>9. Polled'
    <2>1. phase' = "connecting" /\ lastRx' # None => lastRx' <= reportFor'
        BY <1>1, <1>2, <1>5, <1>6, <1>7, Constants DEF Polled
    <2>2. ASSUME phase' \in {"run", "report"}, lastRx' = None
          PROVE  Late(sessionAge', ConnectTimeout, due', phase', reportFor', clock')
        <3>1. lastRx = None /\ phase \in {"run", "report"}
            BY <1>1, <1>6, <2>2
        <3>2. Late(sessionAge, ConnectTimeout, due, phase, reportFor, clock)
            BY <3>1 DEF Polled
        <3>3. sessionAge \in Nat /\ sessionAge' \in Nat /\ sessionAge' <= sessionAge + 1
            BY <1>2, <1>8, <3>1, Constants
        <3> QED
            BY <3>1, <3>2, <3>3, LateTick, Constants
    <2>3. ASSUME phase' \in {"run", "report"}, lastRx' # None
          PROVE  Late(lastRx', LivenessTimeout, due', phase', reportFor', clock')
        <3>1. lastRx # None /\ phase \in {"run", "report"}
            BY <1>1, <1>5, <2>3
        <3>2. Late(lastRx, LivenessTimeout, due, phase, reportFor, clock)
            BY <3>1 DEF Polled
        <3>3. lastRx \in Nat /\ lastRx' \in Nat /\ lastRx' <= lastRx + 1
            BY <1>2, <1>6, <3>1, Constants
        <3> QED
            BY <3>1, <3>2, <3>3, LateTick, Constants
    <2>4. outcome'.event # "HandshakeTimeout"
        BY <1>1 DEF NetworkInv, Watched, Running
    <2> QED
        BY <2>1, <2>2, <2>3, <2>4 DEF Polled
<1>10. Silent'
    <2>1. alive' => deadFor' = 0
        BY <1>1, <1>4 DEF Silent
    <2>2. lastRx' # None => deadFor' <= lastRx'
        BY <1>1, <1>2, <1>4, <1>5, <1>6, Constants DEF Silent
    <2>3. phase' = "connecting" /\ lastRx' = None => deadFor' <= reportFor'
        BY <1>1, <1>2, <1>4, <1>6, <1>7, Constants DEF Silent
    <2>4. phase' \in {"run", "report"} /\ lastRx' = None => deadFor' <= sessionAge' + MaxReport
        BY <1>1, <1>2, <1>4, <1>6, <1>8, Constants DEF Silent
    <2> QED
        BY <2>1, <2>2, <2>3, <2>4 DEF Silent
<1> QED
    BY <1>9, <1>10

\* The loop begins with the report behind it.
LEMMA RunBeginsInTime ==
    ASSUME LimitsAreOrdered, Flags, Ranges, NetworkInv, ReportInv, DeadlineInv, RunBegins
    PROVE  DeadlineInv'
<1> USE DEF DeadlineInv
<1>1. /\ phase = "connecting" /\ phase' = "run" /\ sessionAge' = 0 /\ due' = {"liveness", "network"}
      /\ UNCHANGED <<alive, lastRx, outcome, deadFor>>
    BY DEF RunBegins, environment, probe
<1>2. /\ reportFor <= MaxReport /\ reportFor \in Nat /\ deadFor \in Nat
      /\ lastRx # None => lastRx \in Nat /\ lastRx <= reportFor
    BY <1>1, Constants DEF ReportInv, Reported, Polled, Ranges
<1>3. Polled'
    <2>1. "liveness" \in due' /\ "report" \notin due'
        BY <1>1
    <2>2. Late(0, ConnectTimeout, due', phase', reportFor', clock')
        BY <1>1, <2>1, Constants DEF Late
    <2>3. lastRx # None => Late(lastRx, LivenessTimeout, due', phase', reportFor', clock')
        BY <1>1, <1>2, <2>1, Constants DEF Late
    <2>4. outcome'.event # "HandshakeTimeout"
        BY <1>1 DEF NetworkInv, Watched, Running
    <2> QED
        BY <1>1, <2>2, <2>3, <2>4 DEF Polled
<1>4. Silent'
    BY <1>1, <1>2, Constants DEF Silent
<1> QED
    BY <1>3, <1>4

\* A look at the tunnel in time resets how late the next one is.
LEMMA LivenessTickInTime ==
    ASSUME Flags, Ranges, NetworkInv, ReportInv, DeadlineInv, LivenessTick
    PROVE  DeadlineInv'
<1>0. phase = "run" /\ sessionAge \in Nat /\ (lastRx # None => lastRx \in Nat)
    BY Constants DEF LivenessTick, Ranges
<1>1. CASE liveness_status(lastRx, sessionAge) # "Healthy"
    <2>1. ~WasHealthy => sessionAge > ConnectTimeout
        BY <1>1 DEF liveness_status, WasHealthy
    <2>2. Ends("HandshakeTimeout", WasHealthy)
        BY <1>1 DEF LivenessTick, Returns
    <2> QED
        BY <2>1, <2>2, EndsInTime
<1>2. CASE liveness_status(lastRx, sessionAge) = "Healthy"
    <2>1. /\ lastRx = None => sessionAge <= ConnectTimeout
          /\ lastRx # None => lastRx <= LivenessTimeout
        BY <1>0, <1>2, Constants DEF liveness_status
    <2>2. UNCHANGED <<alive, lastRx, phase, clock, sessionAge, outcome, deadFor, reportFor>>
        BY <1>2 DEF LivenessTick, Handled, Passes, environment, probe
    <2>3. lastRx = None => Late(sessionAge, ConnectTimeout, due', phase, reportFor, clock)
        BY <1>0, <2>1, InBounds, Constants
    <2>4. lastRx # None => Late(lastRx, LivenessTimeout, due', phase, reportFor, clock)
        BY <1>0, <2>1, InBounds, Constants
    <2>5. Polled'
        BY <1>0, <2>2, <2>3, <2>4 DEF DeadlineInv, Polled
    <2>6. Silent'
        BY <2>2 DEF DeadlineInv, Silent
    <2> QED
        BY <2>5, <2>6 DEF DeadlineInv
<1> QED
    BY <1>1, <1>2

\* Another tick that is handled takes no time, and neither does an answer.
LEMMA BranchInTime ==
    ASSUME Flags, Ranges, ReportInv, DeadlineInv,
           \/ phase = "run" /\ phase' = "run" /\ Passes("network")
           \/ ReportTick
           \/ ReportAnswer /\ phase' = "run"
    PROVE  DeadlineInv'
<1>1. /\ UNCHANGED <<alive, lastRx, clock, sessionAge, outcome, deadFor>>
      /\ phase \in {"run", "report"} /\ phase' \in {"run", "report"}
      /\ "liveness" \in due' <=> "liveness" \in due
    BY DEF Handled, Passes, ReportTick, ReportAnswer, Returns, Ends, environment, probe
<1>2. ASSUME NEW age \in Nat, NEW limit \in Nat, Late(age, limit, due, phase, reportFor, clock)
      PROVE  Late(age, limit, due', phase', reportFor', clock')
    <2>1. CASE "liveness" \notin due
        BY <1>1, <1>2, <2>1 DEF Late
    <2>2. CASE "liveness" \in due /\ Passes("network") /\ phase = "run" /\ phase' = "run"
        BY <1>1, <1>2, <2>2 DEF Late, Passes
    <2>3. CASE "liveness" \in due /\ ReportTick
        <3>1. phase = "run" /\ phase' = "report" /\ "report" \in due /\ reportFor' = 0
            BY <2>3 DEF ReportTick, Handled, Passes, ReportInv, Reported
        <3>2. age <= limit + LivenessPoll
            BY <1>2, <2>3, <3>1 DEF Late
        <3>3. age <= limit + LivenessPoll + reportFor'
            BY <3>1, <3>2, Constants
        <3> QED
            BY <1>1, <2>3, <3>1, <3>3 DEF Late
    <2>4. CASE "liveness" \in due /\ ReportAnswer /\ phase' = "run"
        <3>1. phase = "report" /\ reportFor <= MaxReport /\ "report" \notin due /\ due' = due
            BY <2>4 DEF ReportAnswer, Returns, Ends, ReportInv, Reported
        <3>2. age <= limit + LivenessPoll + reportFor /\ reportFor \in Nat
            BY <1>2, <2>4, <3>1, Constants DEF Late, Ranges
        <3>3. age <= limit + LivenessPoll + MaxReport
            BY <3>1, <3>2, Constants
        <3> QED
            BY <2>4, <3>1, <3>3 DEF Late
    <2> QED
        BY <2>1, <2>2, <2>3, <2>4
<1>3. Polled'
    <2>1. sessionAge \in Nat /\ (lastRx # None => lastRx \in Nat)
        BY Constants DEF Ranges
    <2>2. phase' # "connecting" /\ phase' # "done"
        BY <1>1
    <2> QED
        BY <1>1, <1>2, <2>1, <2>2, Constants DEF DeadlineInv, Polled
<1>4. Silent'
    BY <1>1 DEF DeadlineInv, Silent
<1> QED
    BY <1>3, <1>4 DEF DeadlineInv

\* A reply starts the ages anew.
LEMMA ReplyInTime ==
    ASSUME Flags, Ranges, DeadlineInv, ProbeReply
    PROVE  DeadlineInv'
<1>1. /\ UNCHANGED <<alive, phase, clock, sessionAge, due, outcome, deadFor, reportFor>>
      /\ lastRx' = 0 /\ alive
    BY DEF ProbeReply, environment, loop, observers
<1>2. Late(0, LivenessTimeout, due, phase, reportFor, clock)
    BY InBounds, Constants
<1>3. 0 # None /\ reportFor \in Nat
    BY Constants DEF None, Ranges
<1>4. Polled'
    BY <1>1, <1>2, <1>3 DEF DeadlineInv, Polled
<1>5. Silent'
    BY <1>1, <1>3 DEF DeadlineInv, Silent
<1> QED
    BY <1>4, <1>5 DEF DeadlineInv

\* Every step keeps the deadlines.
LEMMA NextInTime ==
    ASSUME LimitsAreOrdered
    PROVE  TypeOK /\ NetworkInv /\ ReportInv /\ DeadlineInv /\ [Next]_vars => DeadlineInv'
<1> SUFFICES ASSUME Flags, Ranges, NetworkInv, ReportInv, DeadlineInv, [Next]_vars
             PROVE  DeadlineInv'
    BY TypeParts
<1>1. CASE RunBegins
    BY <1>1, RunBeginsInTime
<1>2. CASE Cancelled \/ TransportFailed
    BY <1>2, EndsInTime DEF Cancelled, TransportFailed, Returns
<1>3. CASE LivenessTick
    BY <1>3, LivenessTickInTime
<1>4. CASE NetworkTick
    BY <1>4, LookCases, EndsInTime, BranchInTime DEF GivesUp, Skips, Handled
<1>5. CASE ReportTick
    BY <1>5, BranchInTime
<1>6. CASE ReportAnswer
    BY <1>6, EndsInTime, BranchInTime DEF ReportAnswer, Returns
<1>7. CASE /\ UNCHANGED <<lastRx, phase, clock, sessionAge, due, outcome, deadFor, reportFor>>
           /\ alive' => alive
    BY <1>7 DEF DeadlineInv, Polled, Silent
<1>8. CASE ProbeRound \/ ProbeTimeout \/ DeviceStops \/ NetworkChanges \/ InterfaceLost
           \/ CancelToken \/ TunnelDies \/ UNCHANGED vars
    BY <1>7, <1>8 DEF ProbeRound, ProbeTimeout, DeviceStops, NetworkChanges, InterfaceLost,
                      CancelToken, TunnelDies, vars, environment, probe, loop, observers
<1>9. CASE ProbeReply
    BY <1>9, ReplyInTime
<1>10. CASE Tick
    BY <1>10, TickInTime
<1> QED
    BY <1>1, <1>2, <1>3, <1>4, <1>5, <1>6, <1>8, <1>9, <1>10
       DEF Next, Loop, Probe, Environment, Over

\* The session that nobody answers, the one whose tunnel died and the one that
\* is cancelled each end by their deadline, at every phase of the polls, of
\* the probe and of the report that is awaited, for any limits in order.
THEOREM SessionEndsInTime ==
    ASSUME LimitsAreOrdered
    PROVE  Spec => []DeadlinesKept
<1>0. ReportsAreShort
    BY DEF LimitsAreOrdered
<1>1. Init => NetworkInv /\ DeadlineInv
    <2> SUFFICES ASSUME Init PROVE NetworkInv /\ DeadlineInv
        OBVIOUS
    <2>1. NetworkInv
        BY DEF Init, NetworkInv, Watched, ChangeHasCause, Running
    <2>2. Polled /\ Silent
        BY DEF Init, Polled, Silent, Running
    <2> QED
        BY <2>1, <2>2 DEF DeadlineInv
<1>2. TypeOK /\ ReportInv /\ DeadlineInv => DeadlinesKept
    <2> SUFFICES ASSUME Ranges, ReportInv, DeadlineInv PROVE DeadlinesKept
        BY TypeParts
    <2>1. CancelIsPrompt
        BY Constants DEF ReportInv, Reported, Prompt, CancelIsPrompt, Ranges
    <2>2. /\ sessionAge \in Nat /\ deadFor \in Nat /\ reportFor \in Nat
          /\ lastRx # None => lastRx \in Nat
        BY Constants DEF Ranges
    <2>3. CASE phase = "connecting"
        <3>1. sessionAge = 0 /\ reportFor <= MaxReport
            BY <2>3 DEF ReportInv, Reported
        <3>2. deadFor <= MaxReport
            BY <2>2, <2>3, <3>1, Constants DEF DeadlineInv, Polled, Silent
        <3> QED
            BY <2>1, <2>2, <3>1, <3>2, Constants
               DEF DeadlinesKept, UnansweredGivenUp, DeathNoticed, DeadlineInv, Polled
    <2>4. CASE phase \in {"run", "report"}
        <3>1. lastRx = None => sessionAge <= ConnectTimeout + LivenessPoll + MaxReport
            BY <2>2, <2>4, LateIsBounded, Constants DEF DeadlineInv, Polled
        <3>2. lastRx # None => lastRx <= LivenessTimeout + LivenessPoll + MaxReport
            BY <2>2, <2>4, LateIsBounded, Constants DEF DeadlineInv, Polled
        <3>3. deadFor <= LivenessTimeout + LivenessPoll + MaxReport
            BY <2>2, <2>4, <3>1, <3>2, Constants DEF DeadlineInv, Silent, LimitsAreOrdered
        <3> QED
            BY <2>1, <3>1, <3>3
               DEF DeadlinesKept, UnansweredGivenUp, DeathNoticed, DeadlineInv, Polled
    <2>5. CASE phase = "done"
        BY <2>1, <2>5 DEF DeadlinesKept, UnansweredGivenUp, DeathNoticed, DeadlineInv, Polled
    <2> QED
        BY <2>3, <2>4, <2>5 DEF Ranges
<1> QED
    BY <1>0, <1>1, <1>2, NextInTime, NextNetwork, PromptInvariance, TypeCorrect, PTL DEF Spec

-----------------------------------------------------------------------------
(* A tunnel that is alive                                                  *)

AliveInv == Answering /\ AliveIsNotTimedOut

\* The time that is left to server k of the dead ones and those behind it.
Dead(k) == (DeadServers - k) * DnsTimeout

\* It shrinks by one DnsTimeout from each server to the next.
LEMMA DeadSteps ==
    ASSUME NEW k \in Nat, k < DeadServers
    PROVE  Dead(k) = Dead(k + 1) + DnsTimeout /\ Dead(k) \in Nat /\ Dead(k + 1) \in Nat
<1>1. PICK j \in Nat : DeadServers = k + 1 + j
    <2>1. DeadServers - (k + 1) \in Nat /\ DeadServers = k + 1 + (DeadServers - (k + 1))
        BY Constants
    <2> QED
        BY <2>1
<1>2. DeadServers - k = j + 1 /\ DeadServers - (k + 1) = j
    BY <1>1
<1>3. (j + 1) * DnsTimeout = j * DnsTimeout + DnsTimeout /\ j * DnsTimeout \in Nat
    BY Constants
<1> QED
    BY <1>2, <1>3, Constants DEF Dead

\* The first of them has the time of all.
LEMMA DeadEnds ==
    /\ Dead(0) = DeadServers * DnsTimeout /\ Dead(0) \in Nat
    /\ Dead(DeadServers) = 0
<1>1. DeadServers - 0 = DeadServers /\ DeadServers - DeadServers = 0
    BY Constants
<1>2. DeadServers * DnsTimeout \in Nat /\ 0 * DnsTimeout = 0
    BY Constants
<1> QED
    BY <1>1, <1>2 DEF Dead

\* The time that remains, by the state of the probe.
LEMMA RemainingCases ==
    ASSUME Flags, Ranges
    PROVE  /\ server = 0 /\ roundDue => Remaining = Dead(0)
           /\ server = 0 /\ ~roundDue => Remaining = Dead(0) + probeClock
           /\ server > DeadServers => Remaining = 0
           /\ server > 0 /\ server <= DeadServers => Remaining = Dead(server) + (DnsTimeout - waited)
           /\ Remaining \in Nat
<1>1. server \in Nat /\ probeClock \in 1 .. ProbeInterval /\ waited \in 0 .. DnsTimeout
    BY Constants DEF Ranges
<1>2. server <= DeadServers => Dead(server) \in Nat
    <2>1. CASE server = DeadServers
        BY <2>1, DeadEnds
    <2>2. CASE server < DeadServers
        BY <1>1, <2>2, DeadSteps
    <2> QED
        BY <1>1, <2>1, <2>2, Constants
<1>3. CASE server = 0
    <2>1. ~(server > DeadServers) \/ server = 0
        BY <1>3
    <2>2. Remaining = Dead(0) + (IF roundDue THEN 0 ELSE probeClock)
        BY <1>3, DeadEnds DEF Remaining
    <2>3. server > DeadServers => FALSE
        BY <1>3, Constants
    <2> QED
        BY <1>1, <1>3, <2>2, <2>3, DeadEnds, Constants
<1>4. CASE server > 0 /\ server > DeadServers
    <2>1. Remaining = 0
        BY <1>1, <1>4, Constants DEF Remaining
    <2> QED
        BY <1>1, <1>4, <2>1, Constants
<1>5. CASE server > 0 /\ server <= DeadServers
    <2>1. Remaining = Dead(server) + (DnsTimeout - waited)
        BY <1>1, <1>5, Constants DEF Remaining, Dead
    <2>2. Remaining \in Nat
        BY <1>1, <1>2, <1>5, <2>1, Constants
    <2> QED
        BY <1>1, <1>5, <2>1, <2>2, Constants
<1> QED
    BY <1>1, <1>3, <1>4, <1>5, Constants

\* The same after a step.
LEMMA RemainingNext ==
    ASSUME Flags', Ranges'
    PROVE  /\ server' = 0 /\ roundDue' => Remaining' = Dead(0)
           /\ server' = 0 /\ ~roundDue' => Remaining' = Dead(0) + probeClock'
           /\ server' > DeadServers => Remaining' = 0
           /\ server' > 0 /\ server' <= DeadServers
                 => Remaining' = Dead(server') + (DnsTimeout - waited')
           /\ Remaining' \in Nat
<1>1. (Flags /\ Ranges =>
           /\ server = 0 /\ roundDue => Remaining = Dead(0)
           /\ server = 0 /\ ~roundDue => Remaining = Dead(0) + probeClock
           /\ server > DeadServers => Remaining = 0
           /\ server > 0 /\ server <= DeadServers => Remaining = Dead(server) + (DnsTimeout - waited)
           /\ Remaining \in Nat)'
    BY RemainingCases, PTL
<1> QED
    BY <1>1

\* The invariant, with the time of the dead servers by name.
AliveParts ==
    alive => /\ server > DeadServers => waited = 0
             /\ lastRx = None => (roundDue \/ server > 0) /\ sessionAge + Remaining <= Dead(0)
             /\ lastRx # None => lastRx + Remaining <= ProbeInterval + Dead(0)

\* It is the same invariant.
LEMMA AnsweringParts == Answering <=> AliveParts
    BY DeadEnds, Zenon DEF Answering, AliveParts

\* The next server is asked when one is given up, and loses no time.
LEMMA ProbeAnswers ==
    ASSUME LimitsLeaveRoom, Flags, Ranges, Flags', Ranges', AliveParts, Probe
    PROVE  AliveParts'
<1> SUFFICES ASSUME alive, alive'
             PROVE  /\ server' > DeadServers => waited' = 0
                    /\ lastRx' = None => /\ roundDue' \/ server' > 0
                                         /\ sessionAge' + Remaining' <= Dead(0)
                    /\ lastRx' # None => lastRx' + Remaining' <= ProbeInterval + Dead(0)
    BY DEF AliveParts, Probe, ProbeRound, ProbeReply, ProbeTimeout, environment
<1>0. /\ server \in Nat /\ sessionAge \in Nat /\ (lastRx # None => lastRx \in Nat)
      /\ Servers > DeadServers /\ Servers > 0 /\ Dead(0) \in Nat
      /\ Remaining \in Nat /\ Remaining' \in Nat
    BY RemainingCases, RemainingNext, DeadEnds, Constants DEF Ranges, LimitsLeaveRoom
<1>1. CASE ProbeRound
    <2>1. /\ server = 0 /\ roundDue /\ server' = 1 /\ waited' = 0
          /\ UNCHANGED <<lastRx, sessionAge>>
        BY <1>0, <1>1 DEF ProbeRound, loop
    <2>2. Remaining = Dead(0)
        BY <2>1, RemainingCases
    <2>3. Remaining' <= Dead(0)
        <3>1. CASE DeadServers = 0
            <4>1. server' > DeadServers
                BY <2>1, <3>1
            <4> QED
                BY <1>0, <4>1, RemainingNext
        <3>2. CASE DeadServers > 0
            <4>1. Remaining' = Dead(1) + DnsTimeout
                BY <2>1, <3>2, RemainingNext, Constants
            <4>2. Dead(0) = Dead(0 + 1) + DnsTimeout
                BY <3>2, DeadSteps, Constants
            <4> QED
                BY <1>0, <4>1, <4>2
        <3> QED
            BY <3>1, <3>2, Constants
    <2> QED
        BY <1>0, <2>1, <2>2, <2>3, Constants DEF AliveParts
<1>2. CASE ProbeReply
    <2>1. /\ server' = 0 /\ waited' = 0 /\ lastRx' = 0 /\ UNCHANGED <<roundDue, probeClock>>
        BY <1>2 DEF ProbeReply
    <2>2. probeClock \in 1 .. ProbeInterval /\ roundDue \in BOOLEAN
        BY DEF Ranges, Flags
    <2>3. Remaining' <= ProbeInterval + Dead(0)
        BY <1>0, <2>1, <2>2, RemainingNext, Constants
    <2>4. 0 # None
        BY DEF None
    <2> QED
        BY <1>0, <2>1, <2>3, <2>4, Constants
<1>3. CASE ProbeTimeout
    <2>1. /\ server > 0 /\ waited = DnsTimeout /\ waited' = 0 /\ UNCHANGED <<lastRx, sessionAge>>
          /\ server' = IF server < Servers THEN server + 1 ELSE 0
        BY <1>3 DEF ProbeTimeout, loop
    <2>2. server <= DeadServers
        BY <1>0, <2>1, Constants DEF AliveParts
    <2>3. server' = server + 1 /\ server' > 0
        BY <1>0, <2>1, <2>2, Constants
    <2>4. Remaining = Dead(server) + (DnsTimeout - waited)
        BY <2>1, <2>2, RemainingCases
    <2>5. Remaining' <= Remaining
        <3>1. CASE server = DeadServers
            <4>1. server' > DeadServers
                BY <1>0, <2>3, <3>1
            <4> QED
                BY <1>0, <4>1, RemainingNext
        <3>2. CASE server < DeadServers
            <4>1. server' <= DeadServers
                BY <1>0, <2>3, <3>2, Constants
            <4>2. Remaining' = Dead(server') + (DnsTimeout - waited')
                BY <2>3, <4>1, RemainingNext
            <4>3. Dead(server) = Dead(server + 1) + DnsTimeout
                  /\ Dead(server) \in Nat /\ Dead(server + 1) \in Nat
                BY <1>0, <3>2, DeadSteps
            <4> QED
                BY <2>1, <2>3, <2>4, <4>2, <4>3, Constants
        <3> QED
            BY <1>0, <2>2, <3>1, <3>2, Constants
    <2> QED
        BY <1>0, <2>1, <2>3, <2>5, Constants DEF AliveParts
<1> QED
    BY <1>1, <1>2, <1>3 DEF Probe

\* What grows by one while what remains shrinks by one stays in bounds.
LEMMA Nearer ==
    ASSUME NEW age \in Nat, NEW older \in Nat, NEW left \in Nat, NEW less \in Nat,
           NEW bound \in Nat, older <= age + 1, less + 1 <= left, age + left <= bound
    PROVE  older + less <= bound
    OBVIOUS

\* A second brings the answer a second nearer.
LEMMA TickAnswers ==
    ASSUME Flags, Ranges, Flags', Ranges', AliveParts, Tick
    PROVE  AliveParts'
<1> SUFFICES ASSUME alive
             PROVE  /\ server' > DeadServers => waited' = 0
                    /\ lastRx' = None => /\ roundDue' \/ server' > 0
                                         /\ sessionAge' + Remaining' <= Dead(0)
                    /\ lastRx' # None => lastRx' + Remaining' <= ProbeInterval + Dead(0)
    BY TickFacts DEF AliveParts
<1>0. /\ server \in Nat /\ sessionAge \in Nat /\ (lastRx # None => lastRx \in Nat)
      /\ Dead(0) \in Nat /\ Remaining \in Nat /\ Remaining' \in Nat
      /\ waited \in 0 .. DnsTimeout /\ probeClock \in 1 .. ProbeInterval
    BY RemainingCases, RemainingNext, DeadEnds, Constants DEF Ranges
<1>1. /\ server <= DeadServers
      /\ server = 0 => ~roundDue
      /\ server > 0 => waited # DnsTimeout
      /\ server' = server
    BY <1>0, TickFacts, Constants DEF Urgent
<1>2. /\ lastRx = None => lastRx' = None
      /\ lastRx # None => lastRx' # None /\ lastRx' \in Nat /\ lastRx' <= lastRx + 1
      /\ sessionAge' \in Nat /\ sessionAge' <= sessionAge + 1
    <2>1. \A k \in 0 .. AgeBound : Cap(k + 1, AgeBound) \in Nat /\ Cap(k + 1, AgeBound) <= k + 1
        BY Constants DEF Cap
    <2>2. sessionAge \in 0 .. AgeBound /\ (lastRx # None => lastRx \in 0 .. AgeBound)
        BY DEF Ranges
    <2>3. \A k \in Nat : k # None
        BY DEF None
    <2>4. sessionAge' = 0 \/ sessionAge' = Cap(sessionAge + 1, AgeBound)
        BY TickFacts
    <2>5. lastRx # None => lastRx' = Cap(lastRx + 1, AgeBound)
        BY TickFacts
    <2>6. sessionAge' \in Nat /\ sessionAge' <= sessionAge + 1
        BY <1>0, <2>1, <2>2, <2>4
    <2>7. lastRx = None => lastRx' = None
        BY TickFacts
    <2> QED
        BY <2>1, <2>2, <2>3, <2>5, <2>6, <2>7
<1>3. Remaining' + 1 <= Remaining
    <2>1. CASE server = 0
        <3>1. Remaining = Dead(0) + probeClock
            BY <1>1, <2>1, RemainingCases
        <3>2. CASE probeClock = 1
            <4>1. roundDue' /\ server' = 0
                BY <1>1, <2>1, <3>2, TickFacts
            <4> QED
                BY <1>0, <3>1, <3>2, <4>1, RemainingNext
        <3>3. CASE probeClock # 1
            <4>1. ~roundDue' /\ server' = 0 /\ probeClock' = probeClock - 1
                BY <1>1, <2>1, <3>3, TickFacts
            <4> QED
                BY <1>0, <3>1, <4>1, RemainingNext
        <3> QED
            BY <3>2, <3>3
    <2>2. CASE server > 0
        <3>1. waited' = waited + 1
            BY <2>2, TickFacts
        <3>2. Remaining = Dead(server) + (DnsTimeout - waited)
            BY <1>1, <2>2, RemainingCases
        <3>3. Remaining' = Dead(server) + (DnsTimeout - waited')
            <4>1. server' > 0 /\ server' <= DeadServers
                BY <1>1, <2>2
            <4> QED
                BY <1>1, <4>1, RemainingNext
        <3>4. Dead(server) \in Int
            BY <1>0, Constants DEF Dead
        <3> QED
            BY <1>0, <3>1, <3>2, <3>3, <3>4, Constants
    <2>3. server = 0 \/ server > 0
        BY <1>0
    <2> QED
        BY <2>1, <2>2, <2>3
<1>4. server' <= DeadServers /\ ~(server' > DeadServers)
    BY <1>0, <1>1, Constants
<1>5. ASSUME lastRx' = None
      PROVE  (roundDue' \/ server' > 0) /\ sessionAge' + Remaining' <= Dead(0)
    <2>1. lastRx = None
        BY <1>2, <1>5
    <2>2. server > 0 /\ sessionAge + Remaining <= Dead(0)
        BY <1>0, <1>1, <2>1 DEF AliveParts
    <2>3. sessionAge' + Remaining' <= Dead(0)
        BY <1>0, <1>2, <1>3, <2>2, Nearer
    <2> QED
        BY <1>1, <2>2, <2>3
<1>6. ASSUME lastRx' # None
      PROVE  lastRx' + Remaining' <= ProbeInterval + Dead(0)
    <2>1. lastRx # None
        BY <1>2, <1>6
    <2>2. lastRx + Remaining <= ProbeInterval + Dead(0)
        BY <2>1 DEF AliveParts
    <2>3. ProbeInterval + Dead(0) \in Nat
        BY <1>0, Constants
    <2> QED
        BY <1>0, <1>2, <1>3, <2>1, <2>2, <2>3, Nearer
<1> QED
    BY <1>4, <1>5, <1>6

\* A look at a tunnel that is alive finds it healthy.
LEMMA LivenessTickAlive ==
    ASSUME LimitsLeaveRoom, Flags, Ranges, AliveParts, alive
    PROVE  liveness_status(lastRx, sessionAge) = "Healthy"
<1>1. /\ Remaining \in Nat /\ Dead(0) = DeadServers * DnsTimeout /\ Dead(0) \in Nat
      /\ sessionAge \in Nat /\ (lastRx # None => lastRx \in Nat)
    BY RemainingCases, DeadEnds, Constants DEF Ranges
<1>2. Dead(0) <= ConnectTimeout /\ ProbeInterval + Dead(0) <= LivenessTimeout
    BY <1>1 DEF LimitsLeaveRoom
<1>3. lastRx = None => sessionAge <= ConnectTimeout
    BY <1>1, <1>2, Constants DEF AliveParts
<1>4. lastRx # None => lastRx <= LivenessTimeout
    BY <1>1, <1>2, Constants DEF AliveParts
<1> QED
    BY <1>1, <1>3, <1>4, Constants DEF liveness_status

\* What the loop and the environment do leaves the probe alone.
LEMMA ProbeStays ==
    ASSUME AliveParts, UNCHANGED <<server, waited, roundDue, probeClock, lastRx>>,
           alive' => alive, sessionAge' = sessionAge \/ sessionAge' = 0, Flags, Ranges
    PROVE  AliveParts'
<1>1. Remaining' = Remaining
    BY DEF Remaining
<1>2. /\ Remaining \in Nat /\ sessionAge \in Nat /\ Dead(0) \in Nat
      /\ 0 + Remaining <= sessionAge + Remaining
    BY RemainingCases, DeadEnds, Constants DEF Ranges
<1> QED
    BY <1>1, <1>2 DEF AliveParts

\* Every step keeps the answers coming.
LEMMA NextAlive ==
    ASSUME LimitsLeaveRoom
    PROVE  TypeOK /\ NetworkInv /\ AliveInv /\ [Next]_vars => AliveInv'
<1> SUFFICES ASSUME Flags, Ranges, Flags', Ranges', NetworkInv, AliveParts, AliveIsNotTimedOut,
                    [Next]_vars
             PROVE  AliveParts' /\ AliveIsNotTimedOut'
    <2>1. (TypeOK <=> Flags /\ Ranges)' /\ (Answering <=> AliveParts)'
        BY TypeParts, AnsweringParts, PTL
    <2> QED
        BY <2>1, TypeParts, NextTypes, AnsweringParts DEF AliveInv
<1>1. ASSUME NEW event, NEW healthy, Ends(event, healthy), event = "HandshakeTimeout" => ~alive
      PROVE  AliveParts' /\ AliveIsNotTimedOut'
    <2>1. AliveParts'
        BY <1>1, ProbeStays DEF Ends, environment, probe
    <2>2. AliveIsNotTimedOut'
        BY <1>1 DEF Ends, environment, AliveIsNotTimedOut
    <2> QED
        BY <2>1, <2>2
<1>2. ASSUME NEW interval, Passes(interval)
      PROVE  AliveParts' /\ AliveIsNotTimedOut'
    <2>1. AliveParts'
        BY <1>2, ProbeStays DEF Passes, environment, probe
    <2>2. AliveIsNotTimedOut'
        BY <1>2 DEF Passes, environment, AliveIsNotTimedOut
    <2> QED
        BY <2>1, <2>2
<1>3. CASE RunBegins
    BY <1>3, ProbeStays DEF RunBegins, environment, probe, AliveIsNotTimedOut
<1>4. CASE Cancelled \/ TransportFailed
    BY <1>1, <1>4 DEF Cancelled, TransportFailed, Returns
<1>5. CASE LivenessTick
    <2>1. CASE liveness_status(lastRx, sessionAge) # "Healthy"
        <3>1. ~alive
            BY <2>1, LivenessTickAlive
        <3> QED
            BY <1>1, <1>5, <2>1, <3>1 DEF LivenessTick, Returns
    <2>2. CASE liveness_status(lastRx, sessionAge) = "Healthy"
        BY <1>2, <1>5, <2>2 DEF LivenessTick, Handled
    <2> QED
        BY <2>1, <2>2
<1>6. CASE NetworkTick
    BY <1>1, <1>2, <1>6, LookCases DEF GivesUp, Skips, Handled
<1>7. CASE ReportTick
    BY <1>2, <1>7 DEF ReportTick, Handled
<1>8. CASE ReportAnswer
    <2>1. CASE Returns("ServerKickOut", WasHealthy)
        BY <1>1, <2>1 DEF Returns
    <2>2. CASE ~Returns("ServerKickOut", WasHealthy)
        BY <1>8, <2>2, ProbeStays DEF ReportAnswer, environment, probe, AliveIsNotTimedOut
    <2> QED
        BY <2>1, <2>2
<1>9. CASE Probe
    <2>1. AliveIsNotTimedOut'
        BY <1>9 DEF Probe, ProbeRound, ProbeReply, ProbeTimeout, environment, loop,
                    AliveIsNotTimedOut
    <2> QED
        BY <1>9, <2>1, ProbeAnswers
<1>10. CASE Environment \/ UNCHANGED vars
    <2>1. /\ UNCHANGED <<server, waited, roundDue, probeClock, lastRx, sessionAge, outcome>>
          /\ alive' => alive
        BY <1>10 DEF Environment, TunnelDies, DeviceStops, NetworkChanges, InterfaceLost,
                     CancelToken, vars, environment, probe, loop
    <2> QED
        BY <2>1, ProbeStays DEF AliveIsNotTimedOut
<1>11. CASE Tick
    <2>1. AliveIsNotTimedOut'
        BY <1>11, TickFacts DEF AliveIsNotTimedOut
    <2> QED
        BY <1>11, <2>1, TickAnswers
<1> QED
    BY <1>3, <1>4, <1>5, <1>6, <1>7, <1>8, <1>9, <1>10, <1>11 DEF Next, Loop, Over

\* A tunnel whose server answers is never torn down for silence, whatever the
\* phase of the probe's rounds and of the polls, for any number of servers that
\* time out first, as long as the limits leave room for them.
THEOREM AliveTunnelIsKept ==
    ASSUME LimitsLeaveRoom
    PROVE  Spec => []AliveIsNotTimedOut
<1>1. Init => NetworkInv /\ AliveInv
    <2> SUFFICES ASSUME Init PROVE NetworkInv /\ AliveParts /\ AliveIsNotTimedOut
        BY AnsweringParts DEF AliveInv
    <2>1. NetworkInv
        BY DEF Init, NetworkInv, Watched, ChangeHasCause, Running
    <2>2. AliveIsNotTimedOut
        BY DEF Init, AliveIsNotTimedOut, Running
    <2>3. Flags /\ Ranges
        BY InitTypes, TypeParts
    <2>4. server = 0 /\ roundDue /\ lastRx = None /\ sessionAge = 0
        BY DEF Init
    <2>5. Remaining = Dead(0) /\ Dead(0) \in Nat
        BY <2>3, <2>4, RemainingCases, DeadEnds
    <2>6. ~(server > DeadServers)
        BY <2>4, Constants
    <2>7. AliveParts
        BY <2>4, <2>5, <2>6 DEF AliveParts
    <2> QED
        BY <2>1, <2>2, <2>7
<1>2. AliveInv => AliveIsNotTimedOut
    BY DEF AliveInv
<1> QED
    BY <1>1, <1>2, NextAlive, NextNetwork, TypeCorrect, PTL DEF Spec
=============================================================================
