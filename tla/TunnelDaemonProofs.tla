------------------------- MODULE TunnelDaemonProofs -------------------------
(***************************************************************************)
(* What TunnelDaemon guarantees for any number of concurrent requests,     *)
(* connect loops and reconnect attempts.                                   *)
(***************************************************************************)
EXTENDS TunnelDaemon, TLAPS

-----------------------------------------------------------------------------
(* The pure VPN state *)

\* A saturating counter stays in the range of a u32.
LEMMA SaturatingTyped ==
    ASSUME NEW n \in 0 .. MaxU32
    PROVE  SaturatingIncr(n) \in 0 .. MaxU32
BY MaxU32Assumption DEF SaturatingIncr

\* The attempt count of any state is a u32.
LEMMA AttemptsTyped ==
    ASSUME NEW s \in VpnStates
    PROVE  attempts_of(s) \in 0 .. MaxU32
BY MaxU32Assumption DEF attempts_of, VpnStates

\* A transition takes a request out of any state, the default at worst.
LEMMA IntoRequestTyped ==
    ASSUME NEW s \in VpnStates
    PROVE  into_request(s) \in Requests \cup {NoRequest}
BY DEF into_request, DefaultRequest, Requests, Modes, VpnStates

\* States are put together from typed parts.
LEMMA StateTyped ==
    /\ \A t \in Tags \cup {"Absent"}, q \in Requests \cup {NoRequest},
          a \in 0 .. MaxU32, j \in Nat : State(t, q, a, j) \in VpnStates
    /\ 0 \in 0 .. MaxU32
    /\ NoTunnel \in Nat
BY MaxU32Assumption DEF State, VpnStates, NoTunnel

\* The two states without a request.
LEMMA RestStatesTyped == Disconnected \in VpnStates /\ Absent \in VpnStates
BY StateTyped DEF Disconnected, Absent, Tags

\* A new connect puts the machine in a state of the machine.
LEMMA ConnectingTyped ==
    ASSUME NEW r \in Requests \cup {NoRequest}
    PROVE  into_connecting(r) \in VpnStates
BY StateTyped DEF into_connecting, Tags

\* So does every other transition.
LEMMA TransitionsTyped ==
    ASSUME NEW s \in VpnStates, NEW i \in Nat
    PROVE  /\ into_configuring(s) \in VpnStates
           /\ into_connected(s, i) \in VpnStates
           /\ into_reconnecting(s) \in VpnStates
           /\ into_failed(s) \in VpnStates
           /\ into_disconnecting(s) \in VpnStates
<1>1. /\ into_request(s) \in Requests \cup {NoRequest}
      /\ attempts_of(s) \in 0 .. MaxU32
      /\ SaturatingIncr(attempts_of(s)) \in 0 .. MaxU32
  BY IntoRequestTyped, AttemptsTyped, SaturatingTyped
<1> QED
  BY <1>1, StateTyped
  DEF into_configuring, into_connected, into_reconnecting, into_failed,
      into_disconnecting, Tags

\* Every state of the machine has an RPC message.
LEMMA ProtoTyped ==
    ASSUME NEW s \in VpnStates
    PROVE  to_tunnel_proto(s) \in Tunnels
<1>1. current_request(s).mode \in Modes \cup {"Unspecified"}
  BY DEF current_request, VpnStates, Requests, NoRequest
<1> QED
  BY <1>1, AttemptsTyped DEF to_tunnel_proto, Tunnels, VpnStates

\* Broadcasting keeps the machine and the channel typed.
LEMMA BroadcastTyped ==
    ASSUME NEW s \in VpnStates, vpn' = s, broadcast
    PROVE  VpnTypeOK'
BY ProtoTyped DEF broadcast, VpnTypeOK

\* Whatever a client sends becomes a request the daemon can work with.
LEMMA ProtoRequestTyped ==
    ASSUME NEW p \in ProtoRequests
    PROVE  vpn_request_from_proto(p) \in Requests
<1>1. p \in [mode : Modes \cup {"Unspecified"}, location_id : Int]
  BY DaemonAssumption
<1> QED
  BY <1>1 DEF vpn_request_from_proto, Requests, Modes

\* The reconnect controller: the count stays a u32, the decision is one of three.
LEMMA RecordTyped ==
    ASSUME NEW n \in 0 .. MaxU32, NEW e
    PROVE  /\ record(n, e).attempts \in 0 .. MaxU32
           /\ record(n, e).kind \in DecisionKinds
BY SaturatingTyped DEF record, DecisionKinds

-----------------------------------------------------------------------------
(* Types *)

\* A step of a connect loop keeps the types of what it does not mention.
LEMMA LoopStepTyped ==
    ASSUME TypeOK, NEW l \in LoopIds, NEW from, NEW to \in LoopPcs,
           LoopStep(l, from, to), activeOutbound' \in Ifaces
    PROVE  /\ SharedTypeOK'
           /\ HandlerTypeOK'
           /\ loopPc' \in [LoopIds -> LoopPcs]
           /\ loopRequest' \in [LoopIds -> Requests \cup {NoRequest}]
BY DEF LoopStep, TypeOK, SharedTypeOK, streams, HandlerTypeOK, LoopTypeOK, bounds, handlers

\* The accepted path of connect_tunnel keeps every type it touches.
LEMMA ConnectTyped ==
    ASSUME TypeOK, NEW r \in Requests \cup {NoRequest}, connect_tunnel(r)
    PROVE  /\ VpnTypeOK'
           /\ LoopTypeOK'
           /\ token' \in LoopIds \cup {0}
           /\ tunnelTask' \in LoopIds \cup {0}
           /\ spawned' \in 0 .. MaxLoops
           /\ UNCHANGED <<cancelled, config, activeOutbound>>
<1>1. spawned + 1 \in LoopIds
  BY DaemonAssumption DEF connect_tunnel, TypeOK, SharedTypeOK, streams, LoopIds
<1>2. VpnTypeOK'
  <2>1. into_connecting(r) \in VpnStates
    BY ConnectingTyped
  <2> QED BY <2>1, BroadcastTyped DEF connect_tunnel
<1>3. LoopTypeOK'
  BY <1>1 DEF connect_tunnel, TypeOK, LoopTypeOK, LoopPcs
<1> QED
  BY <1>1, <1>2, <1>3, DaemonAssumption DEF connect_tunnel, LoopIds

\* disconnect_tunnel's first critical section keeps the types.
LEMMA DisconnectBeginTyped ==
    ASSUME TypeOK, NEW h \in Handlers, disconnect_begin(h),
           process' \in {"starting", "up", "draining", "down"}
    PROVE  TypeOK'
<1>1. VpnTypeOK'
  <2>1. CASE vpn.tag = "Absent"
    BY <2>1 DEF disconnect_begin, TypeOK, VpnTypeOK
  <2>2. CASE vpn.tag # "Absent"
    <3>1. into_disconnecting(vpn) \in VpnStates
      BY TransitionsTyped DEF TypeOK, VpnTypeOK
    <3> QED BY <2>2, <3>1, BroadcastTyped DEF disconnect_begin
  <2> QED BY <2>1, <2>2
<1>2. SharedTypeOK'
  BY DEF disconnect_begin, TypeOK, SharedTypeOK, streams, bounds
<1>3. LoopTypeOK'
  BY DEF disconnect_begin, TypeOK, LoopTypeOK, loops
<1>4. HandlerTypeOK'
  BY DEF disconnect_begin, TypeOK, SharedTypeOK, streams, HandlerTypeOK, HandlerPcs
<1> QED BY <1>1, <1>2, <1>3, <1>4 DEF TypeOK

\* Daemon::new builds a well-typed daemon.
LEMMA InitTyped == Init => TypeOK
<1> SUFFICES ASSUME Init PROVE TypeOK
  OBVIOUS
<1>1. VpnTypeOK
  BY RestStatesTyped, ProtoTyped DEF Init, VpnTypeOK
<1>2. SharedTypeOK
  BY DaemonAssumption, RestStatesTyped, ProtoTyped DEF Init, SharedTypeOK
<1>3. LoopTypeOK
  BY DaemonAssumption, MaxU32Assumption
  DEF Init, LoopTypeOK, LoopPcs, NoOutcome, Outcomes, DecisionKinds
<1>4. HandlerTypeOK
  BY DEF Init, HandlerTypeOK, HandlerPcs
<1> QED BY <1>1, <1>2, <1>3, <1>4 DEF TypeOK

\* Every step of a connect loop keeps the types.
LEMMA LoopTyped ==
    ASSUME TypeOK, NEW l \in LoopIds, LoopProceeds(l) \/ LoopCancelled(l)
    PROVE  TypeOK'
<1> USE DEF TypeOK
<1>0. AutoIface \in Ifaces /\ MaxLoops \in Nat
  BY DaemonAssumption
<1>a. l \in Nat
  BY <1>0 DEF LoopIds
<1> USE DEF LoopPcs
<1>1. /\ into_configuring(vpn) \in VpnStates
      /\ into_connected(vpn, l) \in VpnStates
      /\ into_reconnecting(vpn) \in VpnStates
      /\ into_failed(vpn) \in VpnStates
      /\ Disconnected \in VpnStates
  BY <1>a, TransitionsTyped, RestStatesTyped DEF VpnTypeOK
<1>2. CASE LoopConfigure(l)
  BY <1>0, <1>1, <1>2, BroadcastTyped, LoopStepTyped DEF LoopConfigure, vpn_transition, LoopTypeOK, SharedTypeOK, streams
<1>3. CASE LoopNegotiate(l)
  BY <1>0, <1>3, LoopStepTyped DEF LoopNegotiate, LoopTypeOK, SharedTypeOK, streams, VpnTypeOK
<1>4. CASE LoopStart(l)
  BY <1>0, <1>4, LoopStepTyped DEF LoopStart, LoopTypeOK, SharedTypeOK, streams, VpnTypeOK
<1>5. CASE LoopOpen(l)
  BY <1>0, <1>5, LoopStepTyped DEF LoopOpen, LoopTypeOK, SharedTypeOK, streams, VpnTypeOK
<1>6. CASE LoopMarkConnected(l)
  BY <1>0, <1>1, <1>6, BroadcastTyped, LoopStepTyped DEF LoopMarkConnected, vpn_transition, LoopTypeOK, SharedTypeOK, streams
<1>7. CASE SuperviseTrigger(l) \/ SuperviseCancelled(l)
  <2>1. PICK o \in Outcomes : SuperviseEnds(l, o)
    BY <1>7 DEF SuperviseTrigger, SuperviseCancelled, Outcomes, NoOutcome
  <2> QED
    BY <1>0, <2>1, LoopStepTyped DEF SuperviseEnds, LoopTypeOK, SharedTypeOK, streams, VpnTypeOK
<1>8. CASE LoopTeardown(l)
  <2>1. /\ outcome' \in [LoopIds -> Outcomes]
        /\ iface' \in [LoopIds -> Ifaces]
        /\ VpnTypeOK'
        /\ activeOutbound' \in Ifaces
    BY <1>0, <1>8 DEF LoopTeardown, LoopTypeOK, VpnTypeOK, SharedTypeOK, streams, NoOutcome, Outcomes
  <2>2. CASE outcome[l].event = "Cancelled"
    <3>1. LoopStep(l, "teardown", "markdisc") /\ UNCHANGED <<controller, decision>>
      BY <1>8, <2>2 DEF LoopTeardown
    <3> QED BY <2>1, <3>1, LoopStepTyped DEF LoopTypeOK
  <2>3. CASE outcome[l].event # "Cancelled"
    <3>1. AfterTrigger(l).attempts \in 0 .. MaxU32 /\ AfterTrigger(l).kind \in DecisionKinds
      BY RecordTyped, MaxU32Assumption DEF LoopTypeOK, AfterTrigger
    <3>2. /\ LoopStep(l, "teardown", "decide")
          /\ controller' = [controller EXCEPT ![l] = AfterTrigger(l).attempts]
          /\ decision' = [decision EXCEPT ![l] = AfterTrigger(l).kind]
      BY <1>8, <2>3 DEF LoopTeardown
    <3> QED BY <2>1, <3>1, <3>2, LoopStepTyped DEF LoopTypeOK
  <2> QED BY <2>2, <2>3
<1>9. CASE LoopFail(l)
  <2>1. VpnTypeOK'
    BY <1>1, <1>9, BroadcastTyped DEF LoopFail, mark_failed
  <2> QED
    BY <1>0, <1>9, <2>1, LoopStepTyped DEF LoopFail, mark_failed, LoopTypeOK
<1>10. CASE LoopCheck(l)
  <2>1. CASE l \in cancelled
    BY <1>0, <1>10, <2>1, LoopStepTyped DEF LoopCheck, LoopTypeOK, SharedTypeOK, streams, VpnTypeOK
  <2>2. CASE l \notin cancelled
    <3> DEFINE n == record(controller[l], "TransportFailed")
    <3>1. n.attempts \in 0 .. MaxU32 /\ n.kind \in DecisionKinds
      BY RecordTyped DEF LoopTypeOK
    <3>2. /\ LoopStep(l, "check", "decide")
          /\ controller' = [controller EXCEPT ![l] = n.attempts]
          /\ decision' = [decision EXCEPT ![l] = n.kind]
          /\ UNCHANGED <<vpn, watch, activeOutbound, outcome, iface>>
      BY <1>10, <2>2 DEF LoopCheck
    <3> HIDE DEF n
    <3> QED
      BY <1>0, <3>1, <3>2, LoopStepTyped DEF LoopTypeOK, SharedTypeOK, streams, VpnTypeOK
  <2> QED BY <2>1, <2>2
<1>11. CASE LoopDecide(l)
  <2>1. decision' \in [LoopIds -> DecisionKinds]
    BY <1>11 DEF LoopDecide, LoopTypeOK, DecisionKinds
  <2>2. CASE decision[l] = "Stop"
    <3>1. VpnTypeOK'
      BY <1>1, <1>11, <2>2, BroadcastTyped DEF LoopDecide, mark_failed
    <3> QED
      BY <1>0, <1>11, <2>1, <2>2, <3>1, LoopStepTyped DEF LoopDecide, mark_failed, LoopTypeOK
  <2>3. CASE decision[l] # "Stop"
    <3>1. VpnTypeOK'
      BY <1>1, <1>11, <2>3, BroadcastTyped DEF LoopDecide, vpn_transition
    <3> QED
      BY <1>11, <2>1, <2>3, <3>1, LoopStepTyped DEF LoopDecide, LoopTypeOK, SharedTypeOK, streams
  <2> QED BY <2>2, <2>3
<1>12. CASE SleepElapsed(l)
  BY <1>0, <1>12, LoopStepTyped DEF SleepElapsed, LoopTypeOK, SharedTypeOK, streams, VpnTypeOK
<1>13. CASE SleepCancelled(l)
  BY <1>0, <1>13, LoopStepTyped DEF SleepCancelled, LoopTypeOK, SharedTypeOK, streams, VpnTypeOK
<1>14. CASE LoopMarkDisconnected(l)
  <2>1. VpnTypeOK'
    BY <1>1, <1>14, BroadcastTyped DEF LoopMarkDisconnected, mark_disconnected
  <2> QED
    BY <1>0, <1>14, <2>1, LoopStepTyped
    DEF LoopMarkDisconnected, mark_disconnected, LoopTypeOK
<1> QED
  BY <1>2, <1>3, <1>4, <1>5, <1>6, <1>7, <1>8, <1>9, <1>10, <1>11, <1>12, <1>13, <1>14
  DEF LoopProceeds, LoopCancelled

\* Every step of a handler that has begun keeps the types.
LEMMA HandlerTyped ==
    ASSUME TypeOK, NEW h \in Handlers, HandlerProceeds(h)
    PROVE  TypeOK'
<1>1. CASE DisconnectFinish(h)
  <2>1. VpnTypeOK'
    <3>1. CASE vpn.tag = "Absent"
      BY <1>1, <3>1 DEF DisconnectFinish, TypeOK, VpnTypeOK
    <3>2. CASE vpn.tag # "Absent"
      <4>1. Disconnected \in VpnStates
        BY RestStatesTyped
      <4> QED BY <1>1, <3>2, <4>1, BroadcastTyped DEF DisconnectFinish
    <3> QED BY <3>1, <3>2
  <2> QED
    BY <1>1, <2>1 DEF DisconnectFinish, TypeOK, SharedTypeOK, streams, LoopTypeOK,
       HandlerTypeOK, HandlerPcs, bounds, loops
<1>2. CASE ReconnectCheck(h)
  <2>1. current_request(vpn) \in Requests \cup {NoRequest}
    BY DEF TypeOK, VpnTypeOK, VpnStates, current_request
  <2> QED
    BY <1>2, <2>1 DEF ReconnectCheck, TypeOK, VpnTypeOK, SharedTypeOK, streams, LoopTypeOK,
       HandlerTypeOK, HandlerPcs, bounds, loops
<1>3. CASE ReconnectCancel(h)
  BY <1>3 DEF ReconnectCancel, TypeOK, VpnTypeOK, SharedTypeOK, streams, LoopTypeOK,
     HandlerTypeOK, HandlerPcs, bounds, loops
<1>4. CASE ReconnectConnect(h)
  <2>1. HandlerTypeOK'
    BY <1>4 DEF ReconnectConnect, TypeOK, HandlerTypeOK, HandlerPcs
  <2>2. CASE connect_tunnel(savedRequest[h])
    <3>1. savedRequest[h] \in Requests \cup {NoRequest}
      BY DEF TypeOK, HandlerTypeOK
    <3> QED
      BY <1>4, <2>1, <2>2, <3>1, ConnectTyped DEF ReconnectConnect, TypeOK, SharedTypeOK, streams
  <2>3. CASE UNCHANGED <<shared, spawned, loops>>
    BY <1>4, <2>1, <2>3 DEF ReconnectConnect, TypeOK, VpnTypeOK, SharedTypeOK, streams,
       LoopTypeOK, shared, loops
  <2> QED BY <1>4, <2>2, <2>3 DEF ReconnectConnect
<1> QED BY <1>1, <1>2, <1>3, <1>4 DEF HandlerProceeds

\* Every step keeps the types.
LEMMA NextTyped == TypeOK /\ [Next]_vars => TypeOK'
<1> SUFFICES ASSUME TypeOK, [Next]_vars PROVE TypeOK'
  OBVIOUS
<1> USE DEF TypeOK
<1>1. CASE maybe_auto_resume
  <2>1. CASE UNCHANGED <<shared, bounds, loops>>
    BY <1>1, <2>1 DEF maybe_auto_resume, VpnTypeOK, SharedTypeOK, streams, LoopTypeOK,
       HandlerTypeOK, shared, bounds, loops, handlers
  <2>2. CASE /\ connects < MaxUserConnects
             /\ \E p \in ProtoRequests : connect_tunnel(vpn_request_from_proto(p))
             /\ connects' = connects + 1
    <3>1. PICK p \in ProtoRequests : connect_tunnel(vpn_request_from_proto(p))
      BY <2>2
    <3> QED
      BY <1>1, <2>2, <3>1, ProtoRequestTyped, ConnectTyped, DaemonAssumption
      DEF maybe_auto_resume, SharedTypeOK, streams, HandlerTypeOK, handlers
  <2> QED BY <1>1, <2>1, <2>2 DEF maybe_auto_resume
<1>2. ASSUME NEW h \in Callers, NEW p \in ProtoRequests, ConnectTunnel(h, p)
      PROVE  TypeOK'
  BY <1>2, ProtoRequestTyped, ConnectTyped, DaemonAssumption
  DEF ConnectTunnel, SharedTypeOK, streams, HandlerTypeOK, handlers
<1>3. ASSUME NEW h \in Callers, NEW i \in Ifaces, UpdateConfiguration(h, i)
      PROVE  TypeOK'
  BY <1>3 DEF UpdateConfiguration, VpnTypeOK, SharedTypeOK, streams, LoopTypeOK,
     HandlerTypeOK, HandlerPcs, Handlers, bounds, loops
<1>4. ASSUME NEW h \in Callers, DisconnectTunnel(h)
      PROVE  TypeOK'
  BY <1>4, DisconnectBeginTyped DEF DisconnectTunnel, Handlers
<1>5. ASSUME NEW h \in Callers, ClientGone(h)
      PROVE  TypeOK'
  BY <1>5 DEF ClientGone, VpnTypeOK, SharedTypeOK, streams, LoopTypeOK, HandlerTypeOK,
     HandlerPcs, shared, bounds, loops
<1>6. ASSUME NEW h \in Handlers, HandlerProceeds(h)
      PROVE  TypeOK'
  BY <1>6, HandlerTyped
<1>7. ASSUME NEW l \in LoopIds, LoopProceeds(l) \/ LoopCancelled(l)
      PROVE  TypeOK'
  BY <1>7, LoopTyped
<1>8. CASE AuthChange
  BY <1>8 DEF AuthChange, VpnTypeOK, SharedTypeOK, streams, LoopTypeOK, HandlerTypeOK,
     shared, bounds, loops, handlers
<1>9. CASE ShutdownSignal
  BY <1>9 DEF ShutdownSignal, VpnTypeOK, SharedTypeOK, streams, LoopTypeOK, HandlerTypeOK,
     shared, bounds, loops, handlers
<1>10. CASE ShutdownTeardown
  BY <1>10, DisconnectBeginTyped DEF ShutdownTeardown, Handlers
<1>11. ASSUME NEW w \in Watchers, Watches(w)
       PROVE  TypeOK'
  <2>1. to_tunnel_proto(Absent) \in Tunnels
    BY RestStatesTyped, ProtoTyped
  <2>2. stream' \in [Watchers -> {"closed", "open"}] /\ shown' \in [Watchers -> Tunnels]
    BY <1>11, <2>1 DEF Watches, WatchTunnel, WatchDeliver, WatchClosed, VpnTypeOK, SharedTypeOK
  <2>3. UNCHANGED <<shared, authenticated, process, bounds, loops, handlers>>
    BY <1>11 DEF Watches, WatchTunnel, WatchDeliver, WatchClosed
  <2> QED BY <2>2, <2>3 DEF VpnTypeOK, SharedTypeOK, LoopTypeOK, HandlerTypeOK,
     shared, bounds, loops, handlers
<1>12. CASE UNCHANGED vars
  BY <1>12 DEF vars, VpnTypeOK, SharedTypeOK, streams, LoopTypeOK, HandlerTypeOK,
     shared, bounds, loops, handlers
<1> QED
  BY <1>1, <1>2, <1>3, <1>4, <1>5, <1>6, <1>7, <1>8, <1>9, <1>10, <1>11, <1>12 DEF Next, Exited

\* Type correctness, for any number of requests, loops and attempts.
THEOREM TypeCorrect == Spec => []TypeOK
BY InitTyped, NextTyped, PTL DEF Spec

-----------------------------------------------------------------------------
(* Nobody waits for a task that was not told to stop *)

\* The machine, once created, is never dropped.
LEMMA TransitionsPresent ==
    ASSUME NEW s, NEW i, NEW r
    PROVE  /\ into_connecting(r).tag = "Connecting"
           /\ into_configuring(s).tag = "Configuring"
           /\ into_connected(s, i).tag = "Connected"
           /\ into_connected(s, i).info = i
           /\ into_reconnecting(s).tag = "Reconnecting"
           /\ into_failed(s).tag = "Failed"
           /\ into_disconnecting(s).tag = "Disconnecting"
           /\ Disconnected.tag = "Disconnected"
BY DEF into_connecting, into_configuring, into_connected, into_reconnecting,
       into_failed, into_disconnecting, Disconnected, State

\* What a loop's step does to the machine: nothing, or one transition, which
\* is also sent to the watchers.
LEMMA LoopSetsVpn ==
    ASSUME NEW l \in LoopIds, LoopProceeds(l) \/ LoopCancelled(l)
    PROVE  \/ UNCHANGED <<vpn, watch>>
           \/ vpn_transition(into_configuring(vpn))
           \/ vpn_transition(into_connected(vpn, l))
           \/ vpn_transition(into_reconnecting(vpn))
           \/ vpn_transition(into_failed(vpn))
           \/ vpn_transition(Disconnected)
BY DEF LoopProceeds, LoopCancelled, LoopConfigure, LoopNegotiate, LoopStart, LoopOpen,
       LoopMarkConnected, SuperviseTrigger, SuperviseCancelled, SuperviseEnds,
       LoopTeardown, LoopFail, LoopCheck, LoopDecide, SleepElapsed, SleepCancelled,
       LoopMarkDisconnected, mark_failed, mark_disconnected, vpn_transition

\* A loop's step touches neither the tokens nor the handlers.
LEMMA LoopLeavesHandlers ==
    ASSUME NEW l \in LoopIds, LoopProceeds(l) \/ LoopCancelled(l)
    PROVE  UNCHANGED <<token, cancelled, tunnelTask, handlerPc, awaited, savedToken>>
BY DEF LoopProceeds, LoopCancelled, LoopConfigure, LoopNegotiate, LoopStart, LoopOpen,
       LoopMarkConnected, SuperviseTrigger, SuperviseCancelled, SuperviseEnds,
       LoopTeardown, LoopFail, LoopCheck, LoopDecide, SleepElapsed, SleepCancelled,
       LoopMarkDisconnected, LoopStep, handlers

\* A stream of WatchTunnel changes nothing but itself.
LEMMA WatchesOnly ==
    ASSUME NEW w \in Watchers, Watches(w)
    PROVE  /\ process # "down"
           /\ UNCHANGED <<shared, authenticated, process, bounds, loops, handlers>>
BY DEF Watches, WatchTunnel, WatchDeliver, WatchClosed

\* The accepted path of connect_tunnel.
LEMMA ConnectKeepsWaitInv ==
    ASSUME TypeOK, WaitInv, NEW r, connect_tunnel(r),
           \A h \in Handlers :
               \/ /\ handlerPc'[h] = handlerPc[h]
                  /\ awaited'[h] = awaited[h]
                  /\ savedToken'[h] = savedToken[h]
               \/ handlerPc'[h] = "idle"
    PROVE  WaitInv'
<1>1. vpn'.tag # "Absent" /\ tunnelTask' = token' /\ UNCHANGED cancelled
  BY TransitionsPresent DEF connect_tunnel, vpn_transition, broadcast
<1> QED
  BY <1>1 DEF WaitInv, HandleMatchesToken, SavedTokenMatches, AwaitedTaskCancelled

\* disconnect_tunnel's first critical section cancels the task it takes.
LEMMA DisconnectKeepsWaitInv ==
    ASSUME TypeOK, WaitInv, NEW h \in Handlers, disconnect_begin(h)
    PROVE  WaitInv'
<1>1. HandleMatchesToken'
  BY DEF disconnect_begin, HandleMatchesToken
<1>2. tunnelTask # 0 => tunnelTask \in cancelled'
  BY DEF disconnect_begin, WaitInv, HandleMatchesToken
<1>3. cancelled \subseteq cancelled'
  BY DEF disconnect_begin
<1>4. SavedTokenMatches' /\ AwaitedTaskCancelled'
  BY <1>2, <1>3 DEF disconnect_begin, TypeOK, HandlerTypeOK, WaitInv,
     SavedTokenMatches, AwaitedTaskCancelled
<1> QED BY <1>1, <1>4 DEF WaitInv

\* WaitInv is inductive.
LEMMA WaitInvStep == TypeOK /\ WaitInv /\ [Next]_vars => WaitInv'
<1> SUFFICES ASSUME TypeOK, WaitInv, [Next]_vars PROVE WaitInv'
  OBVIOUS
<1> USE DEF WaitInv
<1>1. CASE maybe_auto_resume
  BY <1>1, ConnectKeepsWaitInv
  DEF maybe_auto_resume, HandleMatchesToken, SavedTokenMatches, AwaitedTaskCancelled,
      shared, handlers
<1>2. ASSUME NEW h \in Callers, NEW p \in ProtoRequests, ConnectTunnel(h, p)
      PROVE  WaitInv'
  BY <1>2, ConnectKeepsWaitInv DEF ConnectTunnel, handlers
<1>3. ASSUME NEW h \in Callers, NEW i \in Ifaces, UpdateConfiguration(h, i)
      PROVE  WaitInv'
  BY <1>3 DEF UpdateConfiguration, TypeOK, HandlerTypeOK, HandleMatchesToken,
     SavedTokenMatches, AwaitedTaskCancelled
<1>4. ASSUME NEW h \in Callers, DisconnectTunnel(h)
      PROVE  WaitInv'
  BY <1>4, DisconnectKeepsWaitInv DEF DisconnectTunnel, Handlers
<1>5. ASSUME NEW h \in Callers, ClientGone(h)
      PROVE  WaitInv'
  BY <1>5 DEF ClientGone, TypeOK, HandlerTypeOK, HandleMatchesToken,
     SavedTokenMatches, AwaitedTaskCancelled, shared
<1>6. ASSUME NEW h \in Handlers, DisconnectFinish(h)
      PROVE  WaitInv'
  <2>1. vpn'.tag = "Absent" => vpn.tag = "Absent"
    BY <1>6, TransitionsPresent DEF DisconnectFinish, vpn_transition, broadcast
  <2> QED
    BY <1>6, <2>1 DEF DisconnectFinish, TypeOK, HandlerTypeOK, HandleMatchesToken,
       SavedTokenMatches, AwaitedTaskCancelled
<1>7. ASSUME NEW h \in Handlers, ReconnectCheck(h)
      PROVE  WaitInv'
  BY <1>7 DEF ReconnectCheck, TypeOK, HandlerTypeOK, HandleMatchesToken,
     SavedTokenMatches, AwaitedTaskCancelled
<1>8. ASSUME NEW h \in Handlers, ReconnectCancel(h)
      PROVE  WaitInv'
  BY <1>8 DEF ReconnectCancel, TypeOK, HandlerTypeOK, HandleMatchesToken,
     SavedTokenMatches, AwaitedTaskCancelled
<1>9. ASSUME NEW h \in Handlers, ReconnectConnect(h)
      PROVE  WaitInv'
  <2>1. \A g \in Handlers :
           \/ /\ handlerPc'[g] = handlerPc[g]
              /\ awaited'[g] = awaited[g]
              /\ savedToken'[g] = savedToken[g]
           \/ handlerPc'[g] = "idle"
    BY <1>9 DEF ReconnectConnect, TypeOK, HandlerTypeOK
  <2>2. CASE connect_tunnel(savedRequest[h])
    BY <2>1, <2>2, ConnectKeepsWaitInv
  <2>3. CASE UNCHANGED <<shared, spawned, loops>>
    BY <2>1, <2>3 DEF HandleMatchesToken, SavedTokenMatches, AwaitedTaskCancelled, shared
  <2> QED BY <1>9, <2>2, <2>3 DEF ReconnectConnect
<1>10. ASSUME NEW l \in LoopIds, LoopProceeds(l) \/ LoopCancelled(l)
       PROVE  WaitInv'
  <2>1. vpn'.tag = "Absent" => vpn.tag = "Absent"
    BY <1>10, LoopSetsVpn, TransitionsPresent DEF vpn_transition, broadcast
  <2> QED
    BY <1>10, <2>1, LoopLeavesHandlers
    DEF HandleMatchesToken, SavedTokenMatches, AwaitedTaskCancelled
<1>11. CASE AuthChange \/ ShutdownSignal \/ (\E w \in Watchers : Watches(w)) \/ UNCHANGED vars
  BY <1>11, WatchesOnly DEF AuthChange, ShutdownSignal, vars, shared, handlers,
     HandleMatchesToken, SavedTokenMatches, AwaitedTaskCancelled
<1>12. CASE ShutdownTeardown
  BY <1>12, DisconnectKeepsWaitInv DEF ShutdownTeardown, Handlers
<1> QED
  BY <1>1, <1>2, <1>3, <1>4, <1>5, <1>6, <1>7, <1>8, <1>9, <1>10, <1>11, <1>12
  DEF Next, HandlerProceeds, Exited

\* A handler of DisconnectTunnel or UpdateConfiguration waits only for a task
\* whose token is cancelled, however requests, loops and reconnects interleave.
THEOREM WaitsAreCancelled == Spec => []AwaitedTaskCancelled
<1>1. Init => WaitInv
  BY DEF Init, WaitInv, HandleMatchesToken, SavedTokenMatches, AwaitedTaskCancelled
<1>2. WaitInv => AwaitedTaskCancelled
  BY DEF WaitInv
<1> QED BY <1>1, <1>2, TypeCorrect, WaitInvStep, PTL DEF Spec

-----------------------------------------------------------------------------
(* What the machine shows has somebody behind it *)

\* A loop that will still write the machine.
Driving(l) == Live(l) /\ loopPc[l] # "check"

\* A loop's step keeps a driver for every state in progress.
LEMMA LoopKeepsDriver ==
    ASSUME TypeOK, TransientStateHasDriver, NEW l \in LoopIds,
           LoopProceeds(l) \/ LoopCancelled(l)
    PROVE  TransientStateHasDriver'
<1> USE DEF Live, Driving
<1>1. vpn'.tag = "Disconnecting" => vpn.tag = "Disconnecting"
  BY LoopSetsVpn, TransitionsPresent DEF vpn_transition, broadcast
<1>2. UNCHANGED handlerPc
  BY LoopLeavesHandlers
<1>3. CASE Driving(l)'
  BY <1>1, <1>2, <1>3 DEF TransientStateHasDriver
<1>4. CASE ~Driving(l)'
  <2>1. loopPc' = [loopPc EXCEPT ![l] = "done"] \/ loopPc' = [loopPc EXCEPT ![l] = "check"]
    BY <1>4 DEF TypeOK, LoopTypeOK, LoopProceeds, LoopCancelled, LoopConfigure,
       LoopNegotiate, LoopStart, LoopOpen, LoopMarkConnected, SuperviseTrigger,
       SuperviseCancelled, SuperviseEnds, LoopTeardown, LoopFail, LoopCheck,
       LoopDecide, SleepElapsed, SleepCancelled, LoopMarkDisconnected, LoopStep
  <2>2. CASE LoopCheck(l)
    <3>1. loopPc[l] = "check" /\ UNCHANGED vpn
      BY <2>2 DEF LoopCheck, LoopStep
    <3> QED
      BY <1>1, <1>2, <2>1, <3>1 DEF TransientStateHasDriver, TypeOK, LoopTypeOK
  <2>3. CASE ~LoopCheck(l)
    <3>1. vpn'.tag \in {"Failed", "Disconnected"}
      BY <1>4, <2>3, TransitionsPresent
      DEF TypeOK, LoopTypeOK, LoopProceeds, LoopCancelled, LoopConfigure,
          LoopNegotiate, LoopStart, LoopOpen, LoopMarkConnected, SuperviseTrigger,
          SuperviseCancelled, SuperviseEnds, LoopTeardown, LoopFail,
          LoopDecide, SleepElapsed, SleepCancelled, LoopMarkDisconnected, LoopStep,
          mark_failed, mark_disconnected, vpn_transition, broadcast
    <3> QED
      BY <3>1 DEF TransientStateHasDriver
  <2> QED BY <2>2, <2>3
<1> QED BY <1>3, <1>4

\* A new connect is its own driver.
LEMMA ConnectKeepsDriver ==
    ASSUME TypeOK, NEW r, connect_tunnel(r)
    PROVE  TransientStateHasDriver'
<1>1. spawned + 1 \in LoopIds
  BY DaemonAssumption DEF connect_tunnel, TypeOK, SharedTypeOK, streams, LoopIds
<1>2. vpn'.tag = "Connecting" /\ loopPc'[spawned + 1] = "configure"
  BY <1>1, TransitionsPresent DEF connect_tunnel, vpn_transition, broadcast, TypeOK, LoopTypeOK
<1> QED
  BY <1>1, <1>2 DEF TransientStateHasDriver, Live

\* The first critical section of a disconnect makes its handler the driver.
LEMMA DisconnectKeepsDriver ==
    ASSUME TypeOK, TransientStateHasDriver, NEW h \in Handlers, disconnect_begin(h)
    PROVE  TransientStateHasDriver'
<1>1. handlerPc'[h] = "disc_await"
  BY DEF disconnect_begin, TypeOK, HandlerTypeOK
<1>2. vpn'.tag \in {"Absent", "Disconnecting"}
  BY TransitionsPresent DEF disconnect_begin, vpn_transition, broadcast
<1> QED
  BY <1>1, <1>2 DEF TransientStateHasDriver

\* A handler that leaves disc_await alone, and the machine and the loops too,
\* leaves every driver in place.
LEMMA OthersKeepDriver ==
    ASSUME TransientStateHasDriver, UNCHANGED <<vpn, loopPc>>,
           \A h \in Handlers :
               handlerPc[h] = "disc_await" => handlerPc'[h] = "disc_await"
    PROVE  TransientStateHasDriver'
BY DEF TransientStateHasDriver, Live

\* Every step keeps a driver for every state in progress.
LEMMA DriverStep ==
    TypeOK /\ TransientStateHasDriver /\ [Next]_vars => TransientStateHasDriver'
<1> SUFFICES ASSUME TypeOK, TransientStateHasDriver, [Next]_vars
             PROVE  TransientStateHasDriver'
  OBVIOUS
<1> USE DEF TypeOK, HandlerTypeOK, shared, loops, handlers
<1>1. CASE maybe_auto_resume
  BY <1>1, ConnectKeepsDriver, OthersKeepDriver DEF maybe_auto_resume
<1>2. ASSUME NEW h \in Callers, NEW p \in ProtoRequests, ConnectTunnel(h, p)
      PROVE  TransientStateHasDriver'
  BY <1>2, ConnectKeepsDriver DEF ConnectTunnel
<1>3. ASSUME NEW h \in Callers, NEW i \in Ifaces, UpdateConfiguration(h, i)
      PROVE  TransientStateHasDriver'
  BY <1>3, OthersKeepDriver DEF UpdateConfiguration, Handlers
<1>4. ASSUME NEW h \in Callers, DisconnectTunnel(h)
      PROVE  TransientStateHasDriver'
  BY <1>4, DisconnectKeepsDriver DEF DisconnectTunnel, Handlers
<1>5. ASSUME NEW h \in Callers, ClientGone(h)
      PROVE  TransientStateHasDriver'
  BY <1>5 DEF ClientGone, TransientStateHasDriver, Live
<1>6. ASSUME NEW h \in Handlers, DisconnectFinish(h)
      PROVE  TransientStateHasDriver'
  <2>1. vpn'.tag \in {"Absent", "Disconnected"}
    BY <1>6, TransitionsPresent DEF DisconnectFinish, vpn_transition, broadcast
  <2> QED BY <2>1 DEF TransientStateHasDriver
<1>7. ASSUME NEW h \in Handlers, ReconnectCheck(h) \/ ReconnectCancel(h)
      PROVE  TransientStateHasDriver'
  BY <1>7, OthersKeepDriver DEF ReconnectCheck, ReconnectCancel
<1>8. ASSUME NEW h \in Handlers, ReconnectConnect(h)
      PROVE  TransientStateHasDriver'
  BY <1>8, ConnectKeepsDriver, OthersKeepDriver DEF ReconnectConnect
<1>9. ASSUME NEW l \in LoopIds, LoopProceeds(l) \/ LoopCancelled(l)
      PROVE  TransientStateHasDriver'
  BY <1>9, LoopKeepsDriver
<1>10. CASE AuthChange \/ ShutdownSignal \/ (\E w \in Watchers : Watches(w)) \/ UNCHANGED vars
  BY <1>10, WatchesOnly, OthersKeepDriver DEF AuthChange, ShutdownSignal, vars
<1>11. CASE ShutdownTeardown
  BY <1>11, DisconnectKeepsDriver DEF ShutdownTeardown, Handlers
<1> QED
  BY <1>1, <1>2, <1>3, <1>4, <1>5, <1>6, <1>7, <1>8, <1>9, <1>10, <1>11
  DEF Next, HandlerProceeds, Exited

\* The tunnel is never shown as in progress with nobody left to change it.
THEOREM NoStrandedState == Spec => []TransientStateHasDriver
<1>1. Init => TransientStateHasDriver
  BY DEF Init, TransientStateHasDriver, Absent, State
<1> QED BY <1>1, TypeCorrect, DriverStep, PTL DEF Spec

-----------------------------------------------------------------------------
(* Connected is never said of a session that is gone *)

\* A loop's step keeps ConnectedInfoLive.
LEMMA LoopKeepsConnected ==
    ASSUME TypeOK, ConnectedInfoLive, NEW l \in LoopIds,
           LoopProceeds(l) \/ LoopCancelled(l)
    PROVE  ConnectedInfoLive'
<1> USE DEF TypeOK, LoopTypeOK
<1>1. CASE LoopMarkConnected(l)
  <2>1. vpn'.info = l /\ loopPc'[l] = "supervise"
    BY <1>1, TransitionsPresent DEF LoopMarkConnected, LoopStep, vpn_transition, broadcast
  <2> QED BY <2>1 DEF ConnectedInfoLive
<1>2. CASE LoopConfigure(l) \/ LoopFail(l) \/ LoopDecide(l) \/ LoopMarkDisconnected(l)
  <2>1. vpn'.tag # "Connected"
    BY <1>2, TransitionsPresent
    DEF LoopConfigure, LoopFail, LoopDecide, LoopMarkDisconnected, mark_failed,
        mark_disconnected, vpn_transition, broadcast
  <2> QED BY <2>1 DEF ConnectedInfoLive
<1>3. CASE SuperviseTrigger(l) \/ SuperviseCancelled(l) \/ LoopTeardown(l)
  <2>1. UNCHANGED vpn
    BY <1>3 DEF SuperviseTrigger, SuperviseCancelled, SuperviseEnds, LoopTeardown
  <2>2. /\ loopPc'[l] \in {"teardown", "decide", "markdisc"}
        /\ \A m \in LoopIds : m # l => loopPc'[m] = loopPc[m]
    BY <1>3 DEF SuperviseTrigger, SuperviseCancelled, SuperviseEnds, LoopTeardown, LoopStep
  <2> QED BY <2>1, <2>2 DEF ConnectedInfoLive
<1>4. CASE \/ LoopNegotiate(l) \/ LoopStart(l) \/ LoopOpen(l) \/ LoopCheck(l)
           \/ SleepElapsed(l) \/ SleepCancelled(l)
  <2>1. UNCHANGED vpn
    BY <1>4 DEF LoopNegotiate, LoopStart, LoopOpen, LoopCheck, SleepElapsed, SleepCancelled
  <2>2. /\ loopPc[l] \in {"negotiate", "start", "open", "check", "sleep"}
        /\ \A m \in LoopIds : m # l => loopPc'[m] = loopPc[m]
    BY <1>4 DEF LoopNegotiate, LoopStart, LoopOpen, LoopCheck, SleepElapsed,
       SleepCancelled, LoopStep
  <2> QED BY <2>1, <2>2 DEF ConnectedInfoLive
<1> QED BY <1>1, <1>2, <1>3, <1>4 DEF LoopProceeds, LoopCancelled

\* Every step keeps ConnectedInfoLive.
LEMMA ConnectedStep == TypeOK /\ ConnectedInfoLive /\ [Next]_vars => ConnectedInfoLive'
<1> SUFFICES ASSUME TypeOK, ConnectedInfoLive, [Next]_vars PROVE ConnectedInfoLive'
  OBVIOUS
<1>1. ASSUME NEW r, connect_tunnel(r) PROVE ConnectedInfoLive'
  BY <1>1, TransitionsPresent DEF connect_tunnel, vpn_transition, broadcast, ConnectedInfoLive
<1>2. CASE UNCHANGED <<vpn, loopPc>>
  BY <1>2 DEF ConnectedInfoLive
<1>3. ASSUME NEW h, disconnect_begin(h) PROVE ConnectedInfoLive'
  BY <1>3, TransitionsPresent DEF disconnect_begin, vpn_transition, broadcast, ConnectedInfoLive, loops
<1>4. ASSUME NEW h \in Handlers, DisconnectFinish(h) PROVE ConnectedInfoLive'
  BY <1>4, TransitionsPresent DEF DisconnectFinish, vpn_transition, broadcast, ConnectedInfoLive, loops
<1>5. ASSUME NEW l \in LoopIds, LoopProceeds(l) \/ LoopCancelled(l) PROVE ConnectedInfoLive'
  BY <1>5, LoopKeepsConnected
<1>6. ASSUME NEW w \in Watchers, Watches(w) PROVE ConnectedInfoLive'
  BY <1>2, <1>6, WatchesOnly DEF shared, loops
<1> QED
  BY <1>1, <1>2, <1>3, <1>4, <1>5, <1>6
  DEF Next, HandlerProceeds, maybe_auto_resume, ConnectTunnel, UpdateConfiguration,
      DisconnectTunnel, ClientGone, ReconnectCheck, ReconnectCancel, ReconnectConnect,
      AuthChange, ShutdownSignal, ShutdownTeardown, Exited, vars, shared, loops

\* While the daemon reports Connected, the loop of the reported session has not
\* moved on to another attempt: it supervises it, or is about to report.
THEOREM ConnectedIsBacked == Spec => []ConnectedInfoLive
<1>1. Init => ConnectedInfoLive
  BY DEF Init, ConnectedInfoLive, Absent, State
<1> QED BY <1>1, TypeCorrect, ConnectedStep, PTL DEF Spec

-----------------------------------------------------------------------------
(* One client at a time                                                    *)
(*                                                                         *)
(* With one client that waits for its answers, and that does not connect   *)
(* again in the moment between a failed attempt (mark_failed) and what its *)
(* loop makes of it, the daemon never runs two loops at once.  The run     *)
(* two_loops shows what happens without the second condition.              *)

NobodyLive == \A l \in LoopIds : ~Live(l)

\* Requests come one after the other, and their clients stay.
OneClient == (\A g, h \in Callers : g = h) /\ ~ClientsMayAbort

\* No connect is accepted in a Failed state whose loop is still there.
PatientStep == connects' # connects /\ vpn.tag = "Failed" => NobodyLive
Patient     == [][PatientStep]_vars

\* A handler that has taken the task out of tunnel_task.
Taking(h) == handlerPc[h] \in {"disc_await", "upd_cancel", "upd_await"}

\* At most one handler is at work, main's only when no other can begin.
OneBusy ==
    /\ \A g, h \in Handlers : handlerPc[g] # "idle" /\ handlerPc[h] # "idle" => g = h
    /\ handlerPc[Main] # "idle" => process = "draining"
    /\ process = "starting" => \A h \in Handlers : handlerPc[h] = "idle"

\* A loop that lives is the machine's, and somebody can wait for it: it is in
\* tunnel_task, or the handler that took it from there knows it.
OneLoop ==
    /\ token = spawned
    /\ \A l \in LoopIds : Live(l) =>
          /\ l = token
          /\ tunnelTask = l \/ \E h \in Handlers : Taking(h) /\ awaited[h] = l
    /\ \A h \in Handlers : Taking(h) => tunnelTask = 0

\* A machine at rest, and a process that has ended, have no loop.
RestIsDown == vpn.tag \in {"Disconnected", "Absent"} \/ process = "down" => NobodyLive

\* What the machine shows is what its loop works on.  (A disconnect of a
\* disconnected machine shows a default request, but no loop reads it.)
Shown ==
    HasRequest(vpn) /\ (vpn.tag # "Disconnecting" \/ ~NobodyLive)
        => token # 0 /\ vpn.request = loopRequest[token]

\* A session is on the interface recorded in active_outbound, and that is the
\* configured one, or the loop is cancelled, or about to be.
Follows ==
    /\ \A h \in Handlers : handlerPc[h] = "upd_cancel" => savedToken[h] = token
    /\ \A l \in LoopIds : loopPc[l] \in {"open", "mark", "supervise"} =>
          /\ iface[l] = activeOutbound
          /\ \/ l \in cancelled
             \/ iface[l] = config
             \/ \E h \in Handlers : handlerPc[h] \in {"upd_check", "upd_cancel"}

SerialInv == OneBusy /\ OneLoop /\ RestIsDown /\ Shown /\ Follows

\* It covers what the serial run checks.
LEMMA SerialInvImplies ==
    ASSUME SerialInv
    PROVE  /\ AtMostOneLiveLoop
           /\ DisconnectedMeansDown
           /\ NoLeakAtExit
           /\ SessionFollowsConfig
           /\ ShownRequestIsCurrent
<1>1. AtMostOneLiveLoop
  BY DEF SerialInv, OneLoop, AtMostOneLiveLoop
<1>2. DisconnectedMeansDown /\ NoLeakAtExit
  BY DEF SerialInv, RestIsDown, NobodyLive, DisconnectedMeansDown, NoLeakAtExit, Live, HoldsTunnel
<1>3. SessionFollowsConfig
  BY DEF SerialInv, Follows, SessionFollowsConfig
<1>4. ShownRequestIsCurrent
  BY DEF SerialInv, Shown, ShownRequestIsCurrent
<1> QED BY <1>1, <1>2, <1>3, <1>4

\* The daemon starts with nothing running.
LEMMA SerialInit == Init => SerialInv
<1> SUFFICES ASSUME Init PROVE SerialInv
  OBVIOUS
<1>1. \A l \in LoopIds : loopPc[l] = "none"
  BY DEF Init
<1>2. \A h \in Handlers : handlerPc[h] = "idle"
  BY DEF Init
<1>3. OneBusy
  BY <1>2 DEF OneBusy, Handlers
<1>4. OneLoop
  BY <1>1, <1>2 DEF Init, OneLoop, Live, Taking
<1>5. RestIsDown
  BY <1>1 DEF RestIsDown, NobodyLive, Live
<1>6. Shown
  BY DEF Init, Shown, HasRequest, Absent, State
<1>7. Follows
  BY <1>1, <1>2 DEF Follows
<1> QED BY <1>3, <1>4, <1>5, <1>6, <1>7 DEF SerialInv

\* A connect that is accepted while no loop lives and no handler has a task.
LEMMA ConnectSerial ==
    ASSUME TypeOK, NobodyLive, NEW r, connect_tunnel(r), process' # "down", OneBusy',
           \A h \in Handlers : ~Taking(h)'
    PROVE  SerialInv'
<1>1. spawned + 1 \in LoopIds /\ spawned + 1 # 0
  BY DaemonAssumption DEF connect_tunnel, TypeOK, SharedTypeOK, streams, LoopIds
<1>2. /\ token' = spawned + 1 /\ spawned' = spawned + 1 /\ tunnelTask' = spawned + 1
      /\ vpn' = into_connecting(r)
      /\ loopPc' = [loopPc EXCEPT ![spawned + 1] = "configure"]
      /\ loopRequest' = [loopRequest EXCEPT ![spawned + 1] = r]
  BY DEF connect_tunnel, vpn_transition, broadcast
<1>3. \A l \in LoopIds : l # spawned + 1 => loopPc'[l] \in {"none", "done"}
  BY <1>2 DEF NobodyLive, Live, TypeOK, LoopTypeOK
<1>4. loopPc'[spawned + 1] = "configure" /\ loopRequest'[spawned + 1] = r
  BY <1>1, <1>2 DEF TypeOK, LoopTypeOK
<1>5. vpn'.tag = "Connecting" /\ vpn'.request = r
  BY <1>2 DEF into_connecting, State
<1>6. OneLoop'
  BY <1>2, <1>3 DEF OneLoop, Live
<1>7. RestIsDown'
  BY <1>5 DEF RestIsDown
<1>8. Shown'
  BY <1>1, <1>2, <1>4, <1>5 DEF Shown
<1>9. Follows'
  BY <1>3, <1>4 DEF Follows, Taking
<1> QED BY <1>6, <1>7, <1>8, <1>9 DEF SerialInv

\* disconnect_begin, by the only handler at work.
LEMMA DisconnectSerial ==
    ASSUME TypeOK, SerialInv, NEW h \in Handlers, disconnect_begin(h), UNCHANGED process,
           \A g \in Handlers : handlerPc[g] = "idle", OneBusy'
    PROVE  SerialInv'
<1>1. /\ UNCHANGED <<token, spawned, config, activeOutbound, loopPc, loopRequest, iface, savedToken>>
      /\ tunnelTask' = 0
      /\ awaited' = [awaited EXCEPT ![h] = tunnelTask]
      /\ handlerPc' = [handlerPc EXCEPT ![h] = "disc_await"]
      /\ cancelled \subseteq cancelled'
  BY DEF disconnect_begin, bounds, loops
<1>2. \A l \in LoopIds : Live(l)' = Live(l)
  BY <1>1 DEF Live
<1>3. NobodyLive' = NobodyLive
  BY <1>2 DEF NobodyLive
<1>4. Taking(h)' /\ awaited'[h] = tunnelTask
  BY <1>1 DEF TypeOK, HandlerTypeOK, Taking
<1>5. OneLoop'
  BY <1>1, <1>2, <1>4 DEF SerialInv, OneLoop, Taking
<1>6. CASE vpn.tag = "Absent"
  <2>1. UNCHANGED vpn
    BY <1>6 DEF disconnect_begin
  <2> QED BY <1>1, <1>3, <1>5, <1>6, <2>1 DEF SerialInv, RestIsDown, Shown, HasRequest, Follows,
             TypeOK, HandlerTypeOK
<1>7. CASE vpn.tag # "Absent"
  <2>1. vpn'.tag = "Disconnecting" /\ vpn'.request = into_request(vpn)
    BY <1>7 DEF disconnect_begin, vpn_transition, broadcast, into_disconnecting, State
  <2>2. RestIsDown'
    BY <1>3, <2>1 DEF SerialInv, RestIsDown
  <2>3. Shown'
    <3> SUFFICES ASSUME ~NobodyLive PROVE token # 0 /\ vpn'.request = loopRequest[token]
      BY <1>1, <1>3, <2>1 DEF Shown
    <3>1. HasRequest(vpn)
      BY DEF SerialInv, RestIsDown, HasRequest
    <3> QED BY <2>1, <3>1 DEF SerialInv, Shown, into_request
  <2>4. Follows'
    BY <1>1 DEF SerialInv, Follows, TypeOK, HandlerTypeOK
  <2> QED BY <1>5, <2>2, <2>3, <2>4 DEF SerialInv
<1> QED BY <1>6, <1>7

\* A step that leaves the loops, the machine and the task where they are, by a
\* handler that has no task before or after it.
LEMMA HandlerSerial ==
    ASSUME TypeOK, SerialInv, OneBusy', process' # "down",
           UNCHANGED <<vpn, token, spawned, tunnelTask, cancelled, activeOutbound,
                       loopPc, loopRequest, iface, awaited, savedToken>>,
           \A h \in Handlers : Taking(h)' = Taking(h),
           \A h \in Handlers : handlerPc'[h] = "upd_cancel" => handlerPc[h] = "upd_cancel",
           \/ \E h \in Handlers : handlerPc'[h] \in {"upd_check", "upd_cancel"}
           \/ /\ config' = config
              /\ config = activeOutbound \/ NobodyLive \/ UNCHANGED handlerPc
    PROVE  SerialInv'
<1>1. \A l \in LoopIds : Live(l)' = Live(l)
  BY DEF Live
<1>2. NobodyLive' = NobodyLive
  BY <1>1 DEF NobodyLive
<1>3. OneLoop'
  BY <1>1 DEF SerialInv, OneLoop
<1>4. RestIsDown' /\ Shown'
  BY <1>2 DEF SerialInv, RestIsDown, Shown
<1>5. Follows'
  <2>1. \A l \in LoopIds : loopPc[l] \in {"open", "mark", "supervise"} => ~NobodyLive
    BY DEF NobodyLive, Live
  <2> QED BY <2>1 DEF SerialInv, Follows
<1> QED BY <1>3, <1>4, <1>5 DEF SerialInv

\* When the task the only handler waits for has ended, no loop lives.
LEMMA AwaitedWasLast ==
    ASSUME SerialInv, NEW h \in Handlers, Taking(h), AwaitedDone(h)
    PROVE  NobodyLive
<1> SUFFICES ASSUME NEW l \in LoopIds, Live(l) PROVE FALSE
  BY DEF NobodyLive
<1>1. tunnelTask = 0 /\ l # 0
  BY DaemonAssumption DEF SerialInv, OneLoop, LoopIds
<1>2. PICK g \in Handlers : Taking(g) /\ awaited[g] = l
  BY <1>1 DEF SerialInv, OneLoop
<1>3. g = h
  BY <1>2 DEF SerialInv, OneBusy, Taking
<1> QED BY <1>1, <1>2, <1>3 DEF AwaitedDone, Live

\* A handler that ends leaves at most the others.
LEMMA EndKeepsOneBusy ==
    ASSUME TypeOK, OneBusy, NEW h \in Handlers, handlerPc' = [handlerPc EXCEPT ![h] = "idle"],
           process' = process \/ (h = Main /\ process' = "down")
    PROVE  OneBusy'
BY DEF TypeOK, HandlerTypeOK, OneBusy, Handlers

\* Going on from one await point to the next.
LEMMA GoOnKeepsOneBusy ==
    ASSUME TypeOK, OneBusy, NEW h \in Handlers, handlerPc[h] # "idle", UNCHANGED process,
           NEW to, handlerPc' = [handlerPc EXCEPT ![h] = to]
    PROVE  OneBusy'
BY DEF TypeOK, HandlerTypeOK, OneBusy, Handlers

\* The steps of a handler that has begun.
LEMMA HandlerProceedsSerial ==
    ASSUME TypeOK, SerialInv, NEW h \in Handlers, HandlerProceeds(h)
    PROVE  SerialInv'
<1>0. OneBusy /\ OneLoop /\ RestIsDown /\ Shown /\ Follows
  BY DEF SerialInv
<1>1. CASE DisconnectFinish(h)
  <2>1. /\ Taking(h) /\ AwaitedDone(h)
        /\ UNCHANGED <<token, cancelled, tunnelTask, config, activeOutbound, spawned, loopPc,
                       loopRequest, iface, savedToken>>
        /\ handlerPc' = [handlerPc EXCEPT ![h] = "idle"]
        /\ process' = process \/ (h = Main /\ process' = "down")
        /\ vpn'.tag \in {"Absent", "Disconnected"}
    BY <1>1, TransitionsPresent DEF DisconnectFinish, bounds, loops, Taking, vpn_transition, broadcast
  <2>2. NobodyLive /\ NobodyLive'
    BY <2>1, AwaitedWasLast DEF NobodyLive, Live
  <2>3. OneBusy'
    BY <1>0, <2>1, EndKeepsOneBusy
  <2>4. \A g \in Handlers : handlerPc'[g] = "idle"
    BY <1>0, <2>1 DEF OneBusy, Taking, TypeOK, HandlerTypeOK
  <2>5. OneLoop'
    BY <1>0, <2>1, <2>2, <2>4 DEF OneLoop, NobodyLive, Taking
  <2>6. RestIsDown' /\ Shown'
    BY <2>1, <2>2 DEF RestIsDown, Shown, HasRequest
  <2>7. Follows'
    BY <2>2, <2>4 DEF Follows, NobodyLive, Live
  <2> QED BY <2>3, <2>5, <2>6, <2>7 DEF SerialInv
<1>2. CASE ReconnectCheck(h)
  <2>1. /\ handlerPc[h] = "upd_check" /\ process # "down"
        /\ UNCHANGED <<vpn, token, cancelled, config, activeOutbound, process, spawned,
                       loopPc, loopRequest, iface>>
    BY <1>2 DEF ReconnectCheck, bounds, loops
  <2>2. \A g \in Handlers : g # h => handlerPc[g] = "idle"
    BY <1>0, <2>1 DEF OneBusy
  <2>3. CASE /\ config = activeOutbound \/ ~HasRequest(vpn)
             /\ handlerPc' = [handlerPc EXCEPT ![h] = "idle"]
             /\ UNCHANGED <<tunnelTask, awaited, savedRequest, savedToken>>
    <3>1. OneBusy'
      BY <1>0, <2>1, <2>3, EndKeepsOneBusy
    <3>2. config = activeOutbound \/ NobodyLive
      BY <1>0, <2>3 DEF RestIsDown, HasRequest, TypeOK, VpnTypeOK, VpnStates
    <3>3. \A g \in Handlers : Taking(g)' = Taking(g)
      BY <2>1, <2>3 DEF Taking, TypeOK, HandlerTypeOK
    <3>4. \A g \in Handlers : handlerPc'[g] = "upd_cancel" => handlerPc[g] = "upd_cancel"
      BY <2>3 DEF TypeOK, HandlerTypeOK
    <3> QED BY <2>1, <2>3, <3>1, <3>2, <3>3, <3>4, HandlerSerial
  <2>4. CASE /\ handlerPc' = [handlerPc EXCEPT ![h] = "upd_cancel"]
             /\ savedToken' = [savedToken EXCEPT ![h] = token]
             /\ awaited' = [awaited EXCEPT ![h] = tunnelTask]
             /\ tunnelTask' = 0
    <3>1. OneBusy'
      BY <1>0, <2>1, <2>4, GoOnKeepsOneBusy
    <3>2. /\ Taking(h)' /\ awaited'[h] = tunnelTask /\ savedToken'[h] = token
          /\ handlerPc'[h] = "upd_cancel"
          /\ \A g \in Handlers : g # h => handlerPc'[g] = "idle"
      BY <2>2, <2>4 DEF Taking, TypeOK, HandlerTypeOK
    <3>3. \A l \in LoopIds : Live(l)' = Live(l)
      BY <2>1 DEF Live
    <3>4. \A g \in Handlers : ~Taking(g)
      BY <2>1, <2>2 DEF Taking
    <3>5. OneLoop'
      BY <1>0, <2>1, <2>4, <3>2, <3>3, <3>4 DEF OneLoop
    <3>6. RestIsDown' /\ Shown'
      BY <1>0, <2>1, <3>3 DEF RestIsDown, Shown, NobodyLive
    <3>7. Follows'
      BY <1>0, <2>1, <3>2 DEF Follows
    <3> QED BY <3>1, <3>5, <3>6, <3>7 DEF SerialInv
  <2> QED BY <1>2, <2>3, <2>4 DEF ReconnectCheck
<1>3. CASE ReconnectCancel(h)
  <2>1. /\ handlerPc[h] = "upd_cancel" /\ process # "down"
        /\ cancelled' = cancelled \cup {savedToken[h]}
        /\ handlerPc' = [handlerPc EXCEPT ![h] = "upd_await"]
        /\ UNCHANGED <<vpn, token, tunnelTask, config, activeOutbound, process, spawned, loopPc,
                       loopRequest, iface, awaited, savedToken>>
    BY <1>3 DEF ReconnectCancel, bounds, loops
  <2>2. OneBusy'
    BY <1>0, <2>1, GoOnKeepsOneBusy
  <2>3. \A g \in Handlers : Taking(g)' = Taking(g)
    BY <2>1 DEF Taking, TypeOK, HandlerTypeOK
  <2>4. \A l \in LoopIds : Live(l)' = Live(l)
    BY <2>1 DEF Live
  <2>5. OneLoop'
    BY <1>0, <2>1, <2>3, <2>4 DEF OneLoop
  <2>6. RestIsDown' /\ Shown'
    BY <1>0, <2>1, <2>4 DEF RestIsDown, Shown, NobodyLive
  <2>7. Follows'
    <3>1. \A l \in LoopIds : loopPc[l] \in {"open", "mark", "supervise"} => l \in cancelled'
      BY <1>0, <2>1 DEF OneLoop, Live, Follows
    <3> QED BY <1>0, <2>1, <3>1 DEF Follows, TypeOK, HandlerTypeOK
  <2> QED BY <2>2, <2>5, <2>6, <2>7 DEF SerialInv
<1>4. CASE ReconnectConnect(h)
  <2>1. /\ handlerPc[h] = "upd_await" /\ Taking(h) /\ AwaitedDone(h) /\ process # "down"
        /\ handlerPc' = [handlerPc EXCEPT ![h] = "idle"] /\ UNCHANGED process
    BY <1>4 DEF ReconnectConnect, Taking
  <2>2. NobodyLive
    BY <2>1, AwaitedWasLast
  <2>3. OneBusy'
    BY <1>0, <2>1, EndKeepsOneBusy
  <2>4. \A g \in Handlers : handlerPc'[g] = "idle"
    BY <1>0, <2>1 DEF OneBusy, TypeOK, HandlerTypeOK
  <2>5. CASE connect_tunnel(savedRequest[h])
    BY <2>1, <2>2, <2>3, <2>4, <2>5, ConnectSerial DEF Taking
  <2>6. CASE UNCHANGED <<shared, spawned, loops>>
    <3>1. UNCHANGED <<vpn, token, cancelled, tunnelTask, config, activeOutbound, spawned, loopPc,
                      loopRequest, iface>>
      BY <2>6 DEF shared, loops
    <3>2. NobodyLive'
      BY <2>2, <3>1 DEF NobodyLive, Live
    <3>3. OneLoop' /\ Follows'
      BY <1>0, <2>4, <3>1, <3>2 DEF OneLoop, Follows, NobodyLive, Live, Taking
    <3>4. RestIsDown' /\ Shown'
      BY <1>0, <2>2, <3>1, <3>2 DEF RestIsDown, Shown
    <3> QED BY <2>3, <3>3, <3>4 DEF SerialInv
  <2> QED BY <1>4, <2>5, <2>6 DEF ReconnectConnect
<1> QED BY <1>1, <1>2, <1>3, <1>4 DEF HandlerProceeds

\* What the step of a loop leaves alone.
LEMMA LoopStepEffect ==
    ASSUME TypeOK, NEW l \in LoopIds, LoopProceeds(l) \/ LoopCancelled(l)
    PROVE  /\ Live(l) /\ process # "down"
           /\ \A m \in LoopIds : m # l => loopPc'[m] = loopPc[m]
           /\ loopPc'[l] # "none"
           /\ UNCHANGED <<token, cancelled, tunnelTask, config, process, spawned, connects,
                          loopRequest, handlerPc, awaited, savedToken>>
<1>1. \E from, to \in LoopPcs \ {"none"} : from # "done" /\ LoopStep(l, from, to)
  BY DEF LoopProceeds, LoopCancelled, LoopConfigure, LoopNegotiate, LoopStart, LoopOpen,
     LoopMarkConnected, SuperviseTrigger, SuperviseCancelled, SuperviseEnds,
     LoopTeardown, LoopFail, LoopCheck, LoopDecide, SleepElapsed, SleepCancelled,
     LoopMarkDisconnected, LoopPcs
<1> QED BY <1>1 DEF LoopStep, Live, TypeOK, LoopTypeOK, bounds, handlers

\* The machine after a loop's step: its request, and when it is at rest.
LEMMA LoopShows ==
    ASSUME TypeOK, NEW l \in LoopIds, LoopProceeds(l) \/ LoopCancelled(l), HasRequest(vpn)
    PROVE  /\ vpn'.tag # "Absent"
           /\ vpn'.tag = "Disconnected" => loopPc'[l] = "done"
           /\ vpn'.tag # "Disconnected" => vpn'.request = vpn.request
           /\ vpn'.tag = "Disconnecting" => UNCHANGED vpn
           /\ loopPc'[l] = "done" => vpn'.tag \in {"Disconnected", "Failed"} \/ LoopCheck(l)
           /\ LoopCheck(l) => UNCHANGED vpn
<1> USE DEF TypeOK, LoopTypeOK
<1>1. CASE \/ LoopConfigure(l) \/ LoopMarkConnected(l) \/ LoopFail(l) \/ LoopDecide(l)
           \/ LoopMarkDisconnected(l)
  <2>1. \/ vpn' \in {into_configuring(vpn), into_connected(vpn, l), into_reconnecting(vpn)}
           /\ loopPc'[l] # "done"
        \/ vpn' = into_failed(vpn)
        \/ vpn' = Disconnected /\ loopPc'[l] = "done"
    BY <1>1 DEF LoopConfigure, LoopMarkConnected, LoopFail, LoopDecide, LoopMarkDisconnected,
       LoopStep, vpn_transition, broadcast, mark_failed, mark_disconnected
  <2>2. ~LoopCheck(l)
    BY <1>1 DEF LoopConfigure, LoopMarkConnected, LoopFail, LoopDecide, LoopMarkDisconnected,
       LoopStep, LoopCheck
  <2> QED BY <2>1, <2>2
      DEF into_configuring, into_connected, into_reconnecting, into_failed, into_request,
          Disconnected, State
<1>2. CASE \/ LoopNegotiate(l) \/ LoopStart(l) \/ LoopOpen(l) \/ LoopTeardown(l)
           \/ SuperviseTrigger(l) \/ SuperviseCancelled(l) \/ SleepElapsed(l) \/ SleepCancelled(l)
  <2>1. UNCHANGED vpn /\ loopPc'[l] # "done"
    BY <1>2 DEF LoopNegotiate, LoopStart, LoopOpen, LoopTeardown, SuperviseTrigger,
       SuperviseCancelled, SuperviseEnds, SleepElapsed, SleepCancelled, LoopStep
  <2> QED BY <2>1 DEF HasRequest
<1>3. CASE LoopCheck(l)
  BY <1>3 DEF LoopCheck, HasRequest
<1> QED BY <1>1, <1>2, <1>3 DEF LoopProceeds, LoopCancelled

\* The interface a session is on, after a step of its loop.
LEMMA LoopFollows ==
    ASSUME TypeOK, NEW l \in LoopIds, LoopProceeds(l) \/ LoopCancelled(l),
           loopPc'[l] \in {"open", "mark", "supervise"}
    PROVE  \/ iface'[l] = config /\ activeOutbound' = config
           \/ /\ loopPc[l] \in {"open", "mark", "supervise"}
              /\ UNCHANGED <<iface, activeOutbound>>
BY DEF TypeOK, LoopTypeOK, LoopProceeds, LoopCancelled, LoopConfigure, LoopNegotiate,
       LoopStart, LoopOpen, LoopMarkConnected, SuperviseTrigger, SuperviseCancelled,
       SuperviseEnds, LoopTeardown, LoopFail, LoopCheck, LoopDecide, SleepElapsed,
       SleepCancelled, LoopMarkDisconnected, LoopStep

\* The only loop takes a step.
LEMMA LoopSerial ==
    ASSUME TypeOK, SerialInv, NEW l \in LoopIds, LoopProceeds(l) \/ LoopCancelled(l)
    PROVE  SerialInv'
<1>0. OneBusy /\ OneLoop /\ RestIsDown /\ Shown /\ Follows
  BY DEF SerialInv
<1>1. /\ Live(l) /\ process # "down"
      /\ \A m \in LoopIds : m # l => loopPc'[m] = loopPc[m]
      /\ loopPc'[l] # "none"
      /\ UNCHANGED <<token, cancelled, tunnelTask, config, process, spawned,
                     loopRequest, handlerPc, awaited, savedToken>>
  BY LoopStepEffect
<1>2. l = token /\ ~NobodyLive /\ \A m \in LoopIds : m # l => ~Live(m) /\ ~Live(m)'
  BY <1>0, <1>1 DEF OneLoop, NobodyLive, Live
<1>3. HasRequest(vpn) /\ token # 0 /\ vpn.request = loopRequest[token]
  BY <1>0, <1>2 DEF RestIsDown, HasRequest, Shown
<1>4. OneBusy'
  BY <1>0, <1>1 DEF OneBusy
<1>5. OneLoop'
  BY <1>0, <1>1, <1>2 DEF OneLoop, Taking
<1>6. RestIsDown'
  BY <1>1, <1>2, <1>3, LoopShows DEF RestIsDown, NobodyLive, Live
<1>7. Shown'
  BY <1>1, <1>3, LoopShows DEF Shown, HasRequest
<1>8. Follows'
  <2>1. \A h \in Handlers : handlerPc'[h] = "upd_cancel" => savedToken'[h] = token'
    BY <1>0, <1>1 DEF Follows
  <2>2. ASSUME NEW m \in LoopIds, loopPc'[m] \in {"open", "mark", "supervise"}
        PROVE  m = l
    BY <1>2, <2>2 DEF Live
  <2>3. CASE loopPc'[l] \in {"open", "mark", "supervise"}
    BY <1>0, <1>1, <2>1, <2>2, <2>3, LoopFollows DEF Follows
  <2>4. CASE loopPc'[l] \notin {"open", "mark", "supervise"}
    BY <2>1, <2>2, <2>4 DEF Follows
  <2> QED BY <2>3, <2>4
<1> QED BY <1>4, <1>5, <1>6, <1>7, <1>8 DEF SerialInv

\* A step of a client that keeps to the conditions.
LEMMA SerialStep ==
    ASSUME OneClient, TypeOK, SerialInv, [Next]_vars, [PatientStep]_vars
    PROVE  SerialInv'
<1>0. /\ OneBusy /\ OneLoop /\ RestIsDown /\ Shown /\ Follows
      /\ MaxUserConnects \in Nat /\ connects \in Nat
  BY DaemonAssumption DEF SerialInv, TypeOK, SharedTypeOK, streams
<1>1. ASSUME connect_admitted, connects' = connects + 1
      PROVE  NobodyLive
  <2>1. connects' # connects
    BY <1>0, <1>1
  <2>2. PatientStep
    BY <2>1 DEF vars, bounds
  <2> QED BY <1>0, <1>1, <2>1, <2>2 DEF PatientStep, connect_admitted, can_connect, RestIsDown
<1>2. ASSUME NEW h \in Callers, handlerPc[h] = "idle", process = "up"
      PROVE  \A g \in Handlers : handlerPc[g] = "idle"
  BY <1>0, <1>2, DaemonAssumption DEF OneClient, OneBusy, Handlers
<1>3. CASE maybe_auto_resume
  <2>1. /\ process = "starting" /\ process' = "up"
        /\ UNCHANGED <<handlerPc, awaited, savedRequest, savedToken>>
        /\ \A g \in Handlers : handlerPc[g] = "idle"
    BY <1>0, <1>3 DEF maybe_auto_resume, handlers, OneBusy
  <2>2. OneBusy'
    BY <1>0, <2>1 DEF OneBusy, Handlers
  <2>3. CASE /\ \E p \in ProtoRequests : connect_tunnel(vpn_request_from_proto(p))
             /\ connects' = connects + 1
    <3>1. PICK p \in ProtoRequests : connect_tunnel(vpn_request_from_proto(p))
      BY <2>3
    <3>2. NobodyLive
      BY <1>1, <2>3, <3>1 DEF connect_tunnel
    <3> QED BY <2>1, <2>2, <3>1, <3>2, ConnectSerial DEF Taking
  <2>4. CASE UNCHANGED <<shared, bounds, loops>>
    BY <2>1, <2>2, <2>4, HandlerSerial DEF shared, bounds, loops, Taking
  <2> QED BY <1>3, <2>3, <2>4 DEF maybe_auto_resume
<1>4. ASSUME NEW h \in Callers, NEW p \in ProtoRequests, ConnectTunnel(h, p)
      PROVE  SerialInv'
  <2>1. /\ process = "up" /\ handlerPc[h] = "idle" /\ UNCHANGED <<process, handlerPc>>
        /\ connect_tunnel(vpn_request_from_proto(p)) /\ connects' = connects + 1
    BY <1>4 DEF ConnectTunnel, handlers
  <2>2. NobodyLive
    BY <1>1, <2>1 DEF connect_tunnel
  <2>3. OneBusy'
    BY <1>0, <2>1 DEF OneBusy
  <2> QED BY <1>2, <2>1, <2>2, <2>3, ConnectSerial DEF Taking
<1>5. ASSUME NEW h \in Callers, NEW i \in Ifaces, UpdateConfiguration(h, i)
      PROVE  SerialInv'
  <2>1. /\ process = "up" /\ handlerPc[h] = "idle" /\ UNCHANGED process
        /\ handlerPc' = [handlerPc EXCEPT ![h] = "upd_check"]
        /\ UNCHANGED <<vpn, token, spawned, tunnelTask, cancelled, activeOutbound,
                       loopPc, loopRequest, iface, awaited, savedToken>>
    BY <1>5 DEF UpdateConfiguration, bounds, loops
  <2>2. h \in Handlers /\ h # Main /\ \A g \in Handlers : handlerPc[g] = "idle"
    BY <1>2, <2>1, DaemonAssumption DEF Handlers
  <2>3. handlerPc'[h] = "upd_check" /\ \A g \in Handlers : g # h => handlerPc'[g] = "idle"
    BY <2>1, <2>2 DEF TypeOK, HandlerTypeOK
  <2>4. OneBusy'
    BY <2>1, <2>2, <2>3, DaemonAssumption DEF OneBusy, Handlers
  <2>5. \A g \in Handlers : Taking(g)' = Taking(g)
    BY <2>2, <2>3 DEF Taking
  <2>6. \A g \in Handlers : handlerPc'[g] = "upd_cancel" => handlerPc[g] = "upd_cancel"
    BY <2>3
  <2> QED BY <2>1, <2>2, <2>3, <2>4, <2>5, <2>6, HandlerSerial
<1>6. ASSUME NEW h \in Callers, DisconnectTunnel(h)
      PROVE  SerialInv'
  <2>1. /\ process = "up" /\ handlerPc[h] = "idle" /\ UNCHANGED process /\ disconnect_begin(h)
        /\ handlerPc' = [handlerPc EXCEPT ![h] = "disc_await"]
    BY <1>6 DEF DisconnectTunnel, disconnect_begin
  <2>2. h \in Handlers /\ h # Main /\ \A g \in Handlers : handlerPc[g] = "idle"
    BY <1>2, <2>1, DaemonAssumption DEF Handlers
  <2>3. OneBusy'
    BY <2>1, <2>2, DaemonAssumption DEF OneBusy, Handlers, TypeOK, HandlerTypeOK
  <2> QED BY <2>1, <2>2, <2>3, DisconnectSerial
<1>7. ASSUME NEW h \in Callers, ClientGone(h)
      PROVE  SerialInv'
  BY <1>7 DEF ClientGone, OneClient
<1>8. ASSUME NEW h \in Handlers, HandlerProceeds(h)
      PROVE  SerialInv'
  BY <1>8, HandlerProceedsSerial
<1>9. ASSUME NEW l \in LoopIds, LoopProceeds(l) \/ LoopCancelled(l)
      PROVE  SerialInv'
  BY <1>9, LoopSerial
<1>10. CASE AuthChange \/ ShutdownSignal \/ \E w \in Watchers : Watches(w)
  <2>1. /\ process' = process \/ (process = "up" /\ process' = "draining")
        /\ process' # "down"
        /\ UNCHANGED <<vpn, token, spawned, tunnelTask, cancelled, config, activeOutbound,
                       loopPc, loopRequest, iface, handlerPc, awaited, savedToken>>
    BY <1>10, WatchesOnly DEF AuthChange, ShutdownSignal, shared, bounds, loops, handlers
  <2>2. OneBusy'
    BY <1>0, <2>1 DEF OneBusy
  <2> QED BY <2>1, <2>2, HandlerSerial DEF Taking
<1>11. CASE ShutdownTeardown
  <2>1. /\ process = "draining" /\ \A h \in Callers : handlerPc[h] = "idle"
        /\ disconnect_begin(Main) /\ UNCHANGED process /\ handlerPc[Main] = "idle"
        /\ handlerPc' = [handlerPc EXCEPT ![Main] = "disc_await"]
    BY <1>11 DEF ShutdownTeardown, disconnect_begin
  <2>2. Main \in Handlers /\ \A g \in Handlers : handlerPc[g] = "idle"
    BY <2>1 DEF Handlers
  <2>3. OneBusy'
    BY <2>1, <2>2 DEF OneBusy, Handlers, TypeOK, HandlerTypeOK
  <2> QED BY <2>1, <2>2, <2>3, DisconnectSerial
<1>12. CASE UNCHANGED vars
  BY <1>0, <1>12
  DEF vars, shared, bounds, loops, handlers, SerialInv, OneBusy, OneLoop, RestIsDown, Shown,
      Follows, NobodyLive, Live, Taking
<1> QED
  BY <1>3, <1>4, <1>5, <1>6, <1>7, <1>8, <1>9, <1>10, <1>11, <1>12 DEF Next, Exited

\* So the invariant holds of such a client.
LEMMA SerialHolds ==
    ASSUME OneClient
    PROVE  Spec /\ Patient => []SerialInv
<1>1. TypeOK /\ SerialInv /\ [Next]_vars /\ [PatientStep]_vars => SerialInv'
  BY SerialStep
<1> QED BY <1>1, SerialInit, TypeCorrect, PTL DEF Spec, Patient

\* can_connect keeps its word: a client that does not connect in the moment
\* after a failed attempt never has two connect loops fight over the device
\* and the routes, however often it connects, disconnects and changes the
\* interface.
THEOREM OneLoopAtATime ==
    ASSUME OneClient
    PROVE  Spec /\ Patient => []AtMostOneLiveLoop
<1>1. SerialInv => AtMostOneLiveLoop
  BY SerialInvImplies
<1> QED BY <1>1, SerialHolds, PTL

\* Disconnected is only said once the session has given back the device and
\* the routes.
THEOREM DisconnectedIsDown ==
    ASSUME OneClient
    PROVE  Spec /\ Patient => []DisconnectedMeansDown
<1>1. SerialInv => DisconnectedMeansDown
  BY SerialInvImplies
<1> QED BY <1>1, SerialHolds, PTL

\* The teardown of main.rs leaves no session behind when the process exits.
THEOREM ExitIsClean ==
    ASSUME OneClient
    PROVE  Spec /\ Patient => []NoLeakAtExit
<1>1. SerialInv => NoLeakAtExit
  BY SerialInvImplies
<1> QED BY <1>1, SerialHolds, PTL

\* reconnect_if_outbound_changed misses no change of the interface: between
\* requests a session that goes on is on the configured one.
THEOREM ConfigTakesEffect ==
    ASSUME OneClient
    PROVE  Spec /\ Patient => []SessionFollowsConfig
<1>1. SerialInv => SessionFollowsConfig
  BY SerialInvImplies
<1> QED BY <1>1, SerialHolds, PTL

\* The request the machine shows, which a reconnect would use again, is the one
\* its loop works on: no transition loses or replaces it.
THEOREM RequestIsKept ==
    ASSUME OneClient
    PROVE  Spec /\ Patient => []ShownRequestIsCurrent
<1>1. SerialInv => ShownRequestIsCurrent
  BY SerialInvImplies
<1> QED BY <1>1, SerialHolds, PTL

\* Before the first connect there is no machine and nothing to reconnect.
Fresh ==
    connects = 0 =>
        /\ vpn.tag = "Absent"
        /\ \A h \in Handlers : handlerPc[h] \notin {"upd_cancel", "upd_await"}
        /\ NobodyLive

\* Every step keeps Fresh.
LEMMA FreshStep == TypeOK /\ Fresh /\ [Next]_vars => Fresh'
<1> SUFFICES ASSUME TypeOK, Fresh, [Next]_vars, connects' = 0
             PROVE  /\ vpn'.tag = "Absent"
                    /\ \A h \in Handlers : handlerPc'[h] \notin {"upd_cancel", "upd_await"}
                    /\ NobodyLive'
  BY DEF Fresh
<1>1. connects \in Nat
  BY DaemonAssumption DEF TypeOK, SharedTypeOK, streams
<1>2. CASE maybe_auto_resume
  <2>1. UNCHANGED <<shared, bounds, loops, handlers>>
    BY <1>1, <1>2 DEF maybe_auto_resume
  <2> QED BY <2>1 DEF Fresh, shared, bounds, loops, handlers, NobodyLive, Live
<1>3. ASSUME NEW h \in Callers, NEW p \in ProtoRequests, ConnectTunnel(h, p) PROVE FALSE
  BY <1>1, <1>3 DEF ConnectTunnel
<1>4. ASSUME NEW h \in Callers, NEW i \in Ifaces, UpdateConfiguration(h, i) PROVE Fresh'
  BY <1>4 DEF UpdateConfiguration, Fresh, bounds, loops, NobodyLive, Live, TypeOK, HandlerTypeOK
<1>5. ASSUME NEW h \in Handlers, disconnect_begin(h) PROVE Fresh'
  BY <1>5 DEF disconnect_begin, Fresh, bounds, loops, NobodyLive, Live, TypeOK, HandlerTypeOK
<1>6. ASSUME NEW h \in Callers, ClientGone(h) PROVE Fresh'
  BY <1>6 DEF ClientGone, Fresh, shared, bounds, loops, NobodyLive, Live, TypeOK, HandlerTypeOK
<1>7. ASSUME NEW h \in Handlers, HandlerProceeds(h) PROVE Fresh'
  <2>1. CASE DisconnectFinish(h)
    BY <2>1 DEF DisconnectFinish, Fresh, bounds, loops, NobodyLive, Live, TypeOK, HandlerTypeOK
  <2>2. CASE ReconnectCheck(h)
    BY <2>2 DEF ReconnectCheck, HasRequest, Fresh, bounds, loops, NobodyLive, Live, TypeOK,
       HandlerTypeOK
  <2>3. CASE ReconnectCancel(h) \/ ReconnectConnect(h)
    BY <2>3 DEF ReconnectCancel, ReconnectConnect, Fresh, bounds
  <2> QED BY <1>7, <2>1, <2>2, <2>3 DEF HandlerProceeds
<1>8. ASSUME NEW l \in LoopIds, LoopProceeds(l) \/ LoopCancelled(l) PROVE FALSE
  BY <1>8, LoopStepEffect DEF Fresh, NobodyLive
<1>9. CASE AuthChange \/ ShutdownSignal \/ (\E w \in Watchers : Watches(w)) \/ UNCHANGED vars
  BY <1>9, WatchesOnly DEF AuthChange, ShutdownSignal, vars, shared, bounds, loops, handlers, Fresh,
     NobodyLive, Live
<1> QED
  BY <1>2, <1>3, <1>4, <1>5, <1>6, <1>7, <1>8, <1>9
  DEF Next, Exited, DisconnectTunnel, ShutdownTeardown, Handlers, Fresh

\* A client that connects once is patient: the five theorems hold of the
\* instance that the serial run checks.
THEOREM OneConnectIsPatient ==
    ASSUME MaxUserConnects <= 1
    PROVE  Spec => Patient
<1>1. Init => Fresh
  BY DEF Init, Fresh, Absent, State, NobodyLive, Live
<1>2. TypeOK /\ TypeOK' /\ Fresh /\ [Next]_vars => [PatientStep]_vars
  <2> SUFFICES ASSUME TypeOK, TypeOK', Fresh, [Next]_vars, connects' # connects
               PROVE  connects = 0
    BY DEF Fresh, PatientStep
  <2>1. connects \in 0 .. MaxUserConnects /\ connects' \in 0 .. MaxUserConnects
    BY DEF TypeOK, SharedTypeOK, streams
  <2>2. connects' = connects + 1
    <3>1. CASE \E l \in LoopIds : LoopProceeds(l) \/ LoopCancelled(l)
      BY <3>1, LoopStepEffect
    <3>2. CASE \E h \in Handlers : HandlerProceeds(h)
      BY <3>2 DEF HandlerProceeds, DisconnectFinish, ReconnectCheck, ReconnectCancel,
         ReconnectConnect, bounds
    <3>3. CASE \E w \in Watchers : Watches(w)
      BY <3>3, WatchesOnly DEF bounds
    <3> QED
      BY <3>1, <3>2, <3>3
      DEF Next, maybe_auto_resume, ConnectTunnel, UpdateConfiguration, DisconnectTunnel,
          ShutdownTeardown, disconnect_begin, ClientGone, AuthChange, ShutdownSignal, Exited,
          vars, bounds
  <2> QED BY <2>1, <2>2, DaemonAssumption
<1> QED BY <1>1, <1>2, TypeCorrect, FreshStep, PTL DEF Spec, Patient

=============================================================================
