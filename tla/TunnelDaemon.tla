---------------------------- MODULE TunnelDaemon ----------------------------
(***************************************************************************)
(* The tunnel control of crates/daemon/src/daemon.rs: the RPC handlers     *)
(* ConnectTunnel, DisconnectTunnel and UpdateConfiguration, the connect    *)
(* loops they spawn, the WatchTunnel streams and the shutdown path of      *)
(* main.rs.                                                                *)
(*                                                                         *)
(* All of them share DaemonInner behind one mutex.  An action is one       *)
(* critical section, or one stretch of code between two of them whose      *)
(* effects others can see (a cancelled token, a finished task, a session   *)
(* that holds the TUN device and the routes).                              *)
(*                                                                         *)
(* connect_tunnel creates the cancellation token and the task together,    *)
(* so one number names a loop, its token and its task; 0 is none.          *)
(***************************************************************************)
EXTENDS ReconnectPolicy, FiniteSets

CONSTANTS
    Callers,          \* RPC requests that can be in progress at a time
    Watchers,         \* WatchTunnel streams that can be open at a time
    Main,             \* the main task: auto-resume and the final teardown
    ProtoRequests,    \* ConnectTunnel requests: [mode, location_id]
    Ifaces,           \* values of outbound_interface
    AutoIface,        \* outbound_interface = None
    ClientsMayAbort,  \* a client may go away while its request is served
    MaxLoops,         \* bound: connect loops ever spawned
    MaxUserConnects   \* bound: accepted connects that are not reconnects

Handlers == Callers \cup {Main}
LoopIds  == 1 .. MaxLoops

ASSUME DaemonAssumption ==
    /\ Main \notin Callers
    /\ IsFiniteSet(Callers)
    /\ AutoIface \in Ifaces
    /\ ClientsMayAbort \in BOOLEAN
    /\ MaxLoops \in Nat
    /\ MaxUserConnects \in Nat
    /\ ProtoRequests \subseteq [mode        : Modes \cup {"Unspecified"},
                                location_id : Int]

VARIABLES
    vpn,             \* DaemonInner.vpn
    watch,           \* the value in the vpn_watch channel
    token,           \* VpnMachine.cancel_token
    cancelled,       \* tokens on which cancel() was called
    tunnelTask,      \* DaemonInner.tunnel_task
    config,          \* config.outbound_interface
    activeOutbound,  \* DaemonInner.active_outbound
    authenticated,   \* auth.state is Authenticated
    process,         \* phase of the daemon process
    stream,          \* the WatchTunnel streams that are open
    shown,           \* the last message of each stream
    spawned,         \* loops spawned so far
    connects,        \* accepted connects so far
    loopPc,          \* where each connect loop is
    loopRequest,     \* its request
    controller,      \* attempts of its ReconnectController
    outcome,         \* SupervisorOutcome of its last session
    decision,        \* its last ReconnectDecision
    iface,           \* interface its session was started on
    handlerPc,       \* where each handler is
    awaited,         \* the task a handler took out of tunnel_task
    savedRequest,    \* request read by reconnect_if_outbound_changed
    savedToken       \* token cloned by reconnect_if_outbound_changed

shared   == <<vpn, watch, token, cancelled, tunnelTask, config, activeOutbound>>
streams  == <<stream, shown>>
bounds   == <<spawned, connects>>
loops    == <<loopPc, loopRequest, controller, outcome, decision, iface>>
handlers == <<handlerPc, awaited, savedRequest, savedToken>>
vars     == <<shared, authenticated, streams, process, bounds, loops, handlers>>

LoopPcs == {"none", "configure", "negotiate", "start", "open", "mark",
            "supervise", "teardown", "fail", "check", "decide", "sleep",
            "markdisc", "done"}

HandlerPcs == {"idle", "disc_await", "upd_check", "upd_cancel", "upd_await"}

\* HandshakeTimeout and NetworkChanged are recorded just like TransportFailed
\* (see record), so one of the three stands for all.
SupervisorEvents == {"TransportFailed", "ServerKickOut"}
Outcomes  == [event : SupervisorEvents \cup {"Cancelled"}, was_healthy : BOOLEAN]
NoOutcome == [event |-> "Cancelled", was_healthy |-> FALSE]

Live(l) == loopPc[l] \notin {"none", "done"}

\* The loop's session owns the TUN device, the routes and the bypass.
HoldsTunnel(l) == loopPc[l] \in {"open", "mark", "supervise", "teardown"}

VpnTypeOK ==
    /\ vpn \in VpnStates
    /\ watch \in Tunnels

SharedTypeOK ==
    /\ token \in LoopIds \cup {0}
    /\ cancelled \subseteq LoopIds \cup {0}
    /\ tunnelTask \in LoopIds \cup {0}
    /\ config \in Ifaces
    /\ activeOutbound \in Ifaces
    /\ authenticated \in BOOLEAN
    /\ process \in {"starting", "up", "draining", "down"}
    /\ stream \in [Watchers -> {"closed", "open"}]
    /\ shown \in [Watchers -> Tunnels]
    /\ spawned \in 0 .. MaxLoops
    /\ connects \in 0 .. MaxUserConnects

LoopTypeOK ==
    /\ loopPc \in [LoopIds -> LoopPcs]
    /\ loopRequest \in [LoopIds -> Requests \cup {NoRequest}]
    /\ controller \in [LoopIds -> 0 .. MaxU32]
    /\ outcome \in [LoopIds -> Outcomes]
    /\ decision \in [LoopIds -> DecisionKinds]
    /\ iface \in [LoopIds -> Ifaces]

HandlerTypeOK ==
    /\ handlerPc \in [Handlers -> HandlerPcs]
    /\ awaited \in [Handlers -> LoopIds \cup {0}]
    /\ savedRequest \in [Handlers -> Requests \cup {NoRequest}]
    /\ savedToken \in [Handlers -> LoopIds \cup {0}]

TypeOK == VpnTypeOK /\ SharedTypeOK /\ LoopTypeOK /\ HandlerTypeOK

\* Daemon::new, followed by restore_session: the session may be restored.
Init ==
    /\ vpn = Absent
    /\ watch = to_tunnel_proto(Absent)
    /\ token = 0
    /\ cancelled = {}
    /\ tunnelTask = 0
    /\ config \in Ifaces
    /\ activeOutbound = AutoIface
    /\ authenticated \in BOOLEAN
    /\ process = "starting"
    /\ stream = [w \in Watchers |-> "closed"]
    /\ shown = [w \in Watchers |-> to_tunnel_proto(Absent)]
    /\ spawned = 0
    /\ connects = 0
    /\ loopPc = [l \in LoopIds |-> "none"]
    /\ loopRequest = [l \in LoopIds |-> NoRequest]
    /\ controller = [l \in LoopIds |-> 0]
    /\ outcome = [l \in LoopIds |-> NoOutcome]
    /\ decision = [l \in LoopIds |-> "Stop"]
    /\ iface = [l \in LoopIds |-> AutoIface]
    /\ handlerPc = [h \in Handlers |-> "idle"]
    /\ awaited = [h \in Handlers |-> 0]
    /\ savedRequest = [h \in Handlers |-> NoRequest]
    /\ savedToken = [h \in Handlers |-> 0]

-----------------------------------------------------------------------------
(* Daemon::connect_tunnel *)

\* vpn_watch_tx.send(vpn.to_tunnel_proto()), before the mutex is released.
broadcast == watch' = to_tunnel_proto(vpn')

connect_admitted == authenticated /\ (vpn.tag = "Absent" \/ can_connect(vpn))

\* Mutant: set_connecting keeps the machine's token when it has one.
connect_tunnel_OldToken(request) ==
    LET l == spawned + 1 IN
    /\ connect_admitted
    /\ spawned < MaxLoops
    /\ vpn' = into_connecting(request)
    /\ broadcast
    /\ token' = IF token = 0 THEN l ELSE token
    /\ tunnelTask' = l
    /\ spawned' = l
    /\ loopPc' = [loopPc EXCEPT ![l] = "configure"]
    /\ loopRequest' = [loopRequest EXCEPT ![l] = request]
    /\ UNCHANGED <<cancelled, config, activeOutbound, controller, outcome,
                   decision, iface>>

\* The accepted path: set_connecting with a fresh token, broadcast, spawn.
connect_tunnel(request) ==
    LET l == spawned + 1 IN
    /\ connect_admitted
    /\ spawned < MaxLoops
    /\ vpn' = into_connecting(request)
    /\ broadcast
    /\ token' = l
    /\ tunnelTask' = l
    /\ spawned' = l
    /\ loopPc' = [loopPc EXCEPT ![l] = "configure"]
    /\ loopRequest' = [loopRequest EXCEPT ![l] = request]
    /\ UNCHANGED <<cancelled, config, activeOutbound, controller, outcome,
                   decision, iface>>

\* Updates that may still spawn a loop: the bound leaves room for them.
PendingUpdates ==
    {h \in Handlers : handlerPc[h] \in {"upd_check", "upd_cancel", "upd_await"}}

RoomForLoop == spawned + Cardinality(PendingUpdates) < MaxLoops

\* A refused connect returns an error and changes nothing.
ConnectTunnel(h, p) ==
    /\ process = "up"
    /\ h \in Callers
    /\ handlerPc[h] = "idle"
    /\ RoomForLoop
    /\ connects < MaxUserConnects
    /\ connect_tunnel(vpn_request_from_proto(p))
    /\ connects' = connects + 1
    /\ UNCHANGED <<authenticated, streams, process, handlers>>

\* Main, before it serves: connect with the persisted request, if there is
\* one, auto-reconnect is on and the session was restored.
maybe_auto_resume ==
    /\ process = "starting"
    /\ process' = "up"
    /\ \/ /\ connects < MaxUserConnects
          /\ \E p \in ProtoRequests : connect_tunnel(vpn_request_from_proto(p))
          /\ connects' = connects + 1
       \/ UNCHANGED <<shared, bounds, loops>>
    /\ UNCHANGED <<authenticated, streams, handlers>>

-----------------------------------------------------------------------------
(* Daemon::disconnect_tunnel *)

\* Mutant: the token is not cancelled.
disconnect_begin_NoCancel(h) ==
    /\ handlerPc[h] = "idle"
    /\ IF vpn.tag = "Absent"
       THEN UNCHANGED <<vpn, watch>>
       ELSE vpn' = into_disconnecting(vpn) /\ broadcast
    /\ awaited' = [awaited EXCEPT ![h] = tunnelTask]
    /\ tunnelTask' = 0
    /\ handlerPc' = [handlerPc EXCEPT ![h] = "disc_await"]
    /\ UNCHANGED <<cancelled, token, config, activeOutbound, authenticated, streams, bounds,
                   loops, savedRequest, savedToken>>

\* First critical section: Disconnecting, cancel, take the task.
disconnect_begin(h) ==
    /\ handlerPc[h] = "idle"
    /\ IF vpn.tag = "Absent"
       THEN UNCHANGED <<vpn, watch, cancelled>>
       ELSE /\ vpn' = into_disconnecting(vpn)
            /\ cancelled' = cancelled \cup {token}
            /\ broadcast
    /\ awaited' = [awaited EXCEPT ![h] = tunnelTask]
    /\ tunnelTask' = 0
    /\ handlerPc' = [handlerPc EXCEPT ![h] = "disc_await"]
    /\ UNCHANGED <<token, config, activeOutbound, authenticated, streams, bounds, loops,
                   savedRequest, savedToken>>

DisconnectTunnel(h) ==
    /\ process = "up"
    /\ h \in Callers
    /\ disconnect_begin(h)
    /\ UNCHANGED process

\* Mutant: the task is dropped instead of awaited.
AwaitedDone_NoWait(h) == TRUE

AwaitedDone(h) == awaited[h] # 0 => loopPc[awaited[h]] = "done"

\* Mutant: returns after the task without setting Disconnected.
DisconnectFinish_NoReset(h) ==
    /\ process # "down"
    /\ handlerPc[h] = "disc_await"
    /\ AwaitedDone(h)
    /\ handlerPc' = [handlerPc EXCEPT ![h] = "idle"]
    /\ awaited' = [awaited EXCEPT ![h] = 0]
    /\ process' = IF h = Main THEN "down" ELSE process
    /\ UNCHANGED <<shared, authenticated, streams, bounds, loops, savedRequest, savedToken>>

\* Second critical section, once the task has ended.
DisconnectFinish(h) ==
    /\ process # "down"
    /\ handlerPc[h] = "disc_await"
    /\ AwaitedDone(h)
    /\ IF vpn.tag = "Absent" THEN UNCHANGED <<vpn, watch>>
       ELSE vpn' = Disconnected /\ broadcast
    /\ handlerPc' = [handlerPc EXCEPT ![h] = "idle"]
    /\ awaited' = [awaited EXCEPT ![h] = 0]
    /\ process' = IF h = Main THEN "down" ELSE process
    /\ UNCHANGED <<token, cancelled, tunnelTask, config, activeOutbound,
                   authenticated, streams, bounds, loops, savedRequest, savedToken>>

-----------------------------------------------------------------------------
(* UpdateConfiguration and Daemon::reconnect_if_outbound_changed *)

UpdateConfiguration(h, i) ==
    /\ process = "up"
    /\ h \in Callers
    /\ handlerPc[h] = "idle"
    /\ RoomForLoop
    /\ config' = i
    /\ handlerPc' = [handlerPc EXCEPT ![h] = "upd_check"]
    /\ UNCHANGED <<vpn, watch, token, cancelled, tunnelTask, activeOutbound,
                   authenticated, streams, process, bounds, loops, awaited,
                   savedRequest, savedToken>>

\* The critical section: compare, read the request, clone the token, take the
\* task.  (Rebuilding the HTTP pool touches nothing modelled here.)
ReconnectCheck(h) ==
    /\ process # "down"
    /\ handlerPc[h] = "upd_check"
    /\ IF config = activeOutbound \/ ~HasRequest(vpn)
       THEN /\ handlerPc' = [handlerPc EXCEPT ![h] = "idle"]
            /\ UNCHANGED <<tunnelTask, awaited, savedRequest, savedToken>>
       ELSE /\ handlerPc' = [handlerPc EXCEPT ![h] = "upd_cancel"]
            /\ savedRequest' = [savedRequest EXCEPT ![h] = current_request(vpn)]
            /\ savedToken' = [savedToken EXCEPT ![h] = token]
            /\ awaited' = [awaited EXCEPT ![h] = tunnelTask]
            /\ tunnelTask' = 0
    /\ UNCHANGED <<vpn, watch, token, cancelled, config, activeOutbound,
                   authenticated, streams, process, bounds, loops>>

\* cancel.cancel(), outside the lock.
ReconnectCancel(h) ==
    /\ process # "down"
    /\ handlerPc[h] = "upd_cancel"
    /\ cancelled' = cancelled \cup {savedToken[h]}
    /\ handlerPc' = [handlerPc EXCEPT ![h] = "upd_await"]
    /\ UNCHANGED <<vpn, watch, token, tunnelTask, config, activeOutbound,
                   authenticated, streams, process, bounds, loops, awaited,
                   savedRequest, savedToken>>

\* The task has ended: connect again.  A refusal is only logged.
ReconnectConnect(h) ==
    /\ process # "down"
    /\ handlerPc[h] = "upd_await"
    /\ AwaitedDone(h)
    /\ \/ connect_tunnel(savedRequest[h])
       \/ /\ ~connect_admitted
          /\ UNCHANGED <<shared, spawned, loops>>
    /\ handlerPc' = [handlerPc EXCEPT ![h] = "idle"]
    /\ awaited' = [awaited EXCEPT ![h] = 0]
    /\ savedRequest' = [savedRequest EXCEPT ![h] = NoRequest]
    /\ savedToken' = [savedToken EXCEPT ![h] = 0]
    /\ UNCHANGED <<authenticated, streams, process, connects>>

-----------------------------------------------------------------------------
(* The environment: clients, logins, the process *)

\* The client of a request disconnects: the server drops the handler at its
\* await point; a task it was waiting for runs on.
ClientGone(h) ==
    /\ ClientsMayAbort
    /\ process # "down"
    /\ h \in Callers
    /\ handlerPc[h] \in {"disc_await", "upd_check", "upd_await"}
    /\ handlerPc' = [handlerPc EXCEPT ![h] = "idle"]
    /\ awaited' = [awaited EXCEPT ![h] = 0]
    /\ savedRequest' = [savedRequest EXCEPT ![h] = NoRequest]
    /\ savedToken' = [savedToken EXCEPT ![h] = 0]
    /\ UNCHANGED <<shared, authenticated, streams, process, bounds, loops>>

\* Login and Logout; neither touches the tunnel.
AuthChange ==
    /\ process = "up"
    /\ authenticated' = ~authenticated
    /\ UNCHANGED <<shared, streams, process, bounds, loops, handlers>>

\* A WatchTunnel stream begins with the value there is ...
WatchTunnel(w) ==
    /\ process = "up"
    /\ stream[w] = "closed"
    /\ stream' = [stream EXCEPT ![w] = "open"]
    /\ shown' = [shown EXCEPT ![w] = watch]
    /\ UNCHANGED <<shared, authenticated, process, bounds, loops, handlers>>

\* ... goes on with the latest one whenever there is a new one ...
WatchDeliver(w) ==
    /\ process # "down"
    /\ stream[w] = "open"
    /\ shown[w] # watch
    /\ shown' = [shown EXCEPT ![w] = watch]
    /\ UNCHANGED <<shared, authenticated, stream, process, bounds, loops, handlers>>

\* ... and ends with its client: the daemon keeps the sender for ever.
WatchClosed(w) ==
    /\ process # "down"
    /\ stream[w] = "open"
    /\ stream' = [stream EXCEPT ![w] = "closed"]
    /\ shown' = [shown EXCEPT ![w] = to_tunnel_proto(Absent)]
    /\ UNCHANGED <<shared, authenticated, process, bounds, loops, handlers>>

Watches(w) == WatchTunnel(w) \/ WatchDeliver(w) \/ WatchClosed(w)

NoStream == \A w \in Watchers : stream[w] = "closed"

\* A signal: the server accepts no new request.
ShutdownSignal ==
    /\ process = "up"
    /\ process' = "draining"
    /\ UNCHANGED <<shared, authenticated, streams, bounds, loops, handlers>>

\* Mutant: main returns without disconnecting.
ShutdownTeardown_Skipped ==
    /\ process = "draining"
    /\ \A h \in Callers : handlerPc[h] = "idle"
    /\ NoStream
    /\ process' = "down"
    /\ UNCHANGED <<shared, authenticated, streams, bounds, loops, handlers>>

\* The graceful shutdown waits for the requests in progress, the streams among
\* them; then main disconnects the tunnel.
ShutdownTeardown ==
    /\ process = "draining"
    /\ \A h \in Callers : handlerPc[h] = "idle"
    /\ NoStream
    /\ disconnect_begin(Main)
    /\ UNCHANGED process

\* The process has exited: nothing happens any more.
Exited == process = "down" /\ UNCHANGED vars

-----------------------------------------------------------------------------
(* Daemon::run_connect_loop and connect_once, for the loop l *)

\* The loop l is at pc `from' and goes to `to'.
LoopStep(l, from, to) ==
    /\ process # "down"
    /\ loopPc[l] = from
    /\ loopPc' = [loopPc EXCEPT ![l] = to]
    /\ UNCHANGED <<token, cancelled, tunnelTask, config, authenticated, streams, process,
                   bounds, loopRequest, handlers>>

\* The transition f(vpn), and the send that follows it.
vpn_transition(s) ==
    /\ vpn' = s
    /\ broadcast

\* vpn_transition(set_configuring)
LoopConfigure(l) ==
    /\ LoopStep(l, "configure", "negotiate")
    /\ vpn_transition(into_configuring(vpn))
    /\ UNCHANGED <<activeOutbound, controller, outcome, decision, iface>>

\* The tenant and dot calls, up to start_session: a configuration or an error.
LoopNegotiate(l) ==
    /\ \E to \in {"start", "fail"} : LoopStep(l, "negotiate", to)
    /\ UNCHANGED <<vpn, watch, activeOutbound, controller, outcome, decision, iface>>

\* Mutant: active_outbound is not recorded.
LoopStart_NoRecord(l) ==
    /\ LoopStep(l, "start", "open")
    /\ iface' = [iface EXCEPT ![l] = config]
    /\ UNCHANGED <<vpn, watch, activeOutbound, controller, outcome, decision>>

\* start_session's critical section, which records the interface.
LoopStart(l) ==
    /\ LoopStep(l, "start", "open")
    /\ activeOutbound' = config
    /\ iface' = [iface EXCEPT ![l] = config]
    /\ UNCHANGED <<vpn, watch, controller, outcome, decision>>

\* TunnelSession::start, which undoes its work when it fails.
LoopOpen(l) ==
    /\ \E to \in {"mark", "fail"} : LoopStep(l, "open", to)
    /\ UNCHANGED <<vpn, watch, activeOutbound, controller, outcome, decision, iface>>

\* mark_connected; the report 100 that follows is best effort.
LoopMarkConnected(l) ==
    /\ LoopStep(l, "mark", "supervise")
    /\ vpn_transition(into_connected(vpn, l))
    /\ UNCHANGED <<activeOutbound, controller, outcome, decision, iface>>

SuperviseEnds(l, o) ==
    /\ LoopStep(l, "supervise", "teardown")
    /\ outcome' = [outcome EXCEPT ![l] = o]
    /\ UNCHANGED <<vpn, watch, activeOutbound, controller, decision, iface>>

\* Mutant: the supervisor's select! has no cancel branch.
SuperviseCancelled_Missing(l) ==
    /\ l \in cancelled
    /\ loopPc[l] = "none"
    /\ SuperviseEnds(l, NoOutcome)

\* supervisor::run returns because of the token ...
SuperviseCancelled(l) ==
    /\ l \in cancelled
    /\ SuperviseEnds(l, NoOutcome)

\* ... or because of a trigger: tokio::select! takes any branch that is ready.
SuperviseTrigger(l) ==
    \E e \in SupervisorEvents, healthy \in BOOLEAN :
        SuperviseEnds(l, [event |-> e, was_healthy |-> healthy])

\* The loop's match on a trigger: a healthy session starts the count afresh.
AfterTrigger(l) ==
    record(IF outcome[l].was_healthy THEN 0 ELSE controller[l], outcome[l].event)

\* session.stop() and the report 101, then the loop's match on the outcome.
LoopTeardown(l) ==
    /\ IF outcome[l].event = "Cancelled"
       THEN /\ LoopStep(l, "teardown", "markdisc")
            /\ UNCHANGED <<controller, decision>>
       ELSE /\ LoopStep(l, "teardown", "decide")
            /\ controller' = [controller EXCEPT ![l] = AfterTrigger(l).attempts]
            /\ decision' = [decision EXCEPT ![l] = AfterTrigger(l).kind]
    /\ outcome' = [outcome EXCEPT ![l] = NoOutcome]
    /\ iface' = [iface EXCEPT ![l] = AutoIface]
    /\ UNCHANGED <<vpn, watch, activeOutbound>>

mark_failed ==
    /\ activeOutbound' = AutoIface
    /\ vpn' = into_failed(vpn)
    /\ broadcast

\* Mutant: the watchers are not told.
mark_disconnected_Silent ==
    /\ activeOutbound' = AutoIface
    /\ vpn' = Disconnected
    /\ UNCHANGED watch

mark_disconnected ==
    /\ activeOutbound' = AutoIface
    /\ vpn' = Disconnected
    /\ broadcast

\* connect_once returned an error.
LoopFail(l) ==
    /\ LoopStep(l, "fail", "check")
    /\ mark_failed
    /\ iface' = [iface EXCEPT ![l] = AutoIface]
    /\ UNCHANGED <<controller, outcome, decision>>

\* ... and then: is_cancelled, or record(TransportFailed).
LoopCheck(l) ==
    /\ IF l \in cancelled
       THEN /\ LoopStep(l, "check", "done")
            /\ UNCHANGED <<controller, decision>>
       ELSE LET next == record(controller[l], "TransportFailed")
            IN  /\ LoopStep(l, "check", "decide")
                /\ controller' = [controller EXCEPT ![l] = next.attempts]
                /\ decision' = [decision EXCEPT ![l] = next.kind]
    /\ UNCHANGED <<vpn, watch, activeOutbound, outcome, iface>>

\* Mutant: Stop ends the loop without mark_failed.
LoopDecide_SilentStop(l) ==
    /\ IF decision[l] = "Stop"
       THEN /\ LoopStep(l, "decide", "done")
            /\ UNCHANGED <<vpn, watch>>
       ELSE /\ LoopStep(l, "decide", "sleep")
            /\ vpn_transition(into_reconnecting(vpn))
    /\ decision' = [decision EXCEPT ![l] = "Stop"]
    /\ UNCHANGED <<activeOutbound, controller, outcome, iface>>

\* Mutant: the loop sleeps without set_reconnecting.
LoopDecide_StillConnected(l) ==
    /\ IF decision[l] = "Stop"
       THEN LoopStep(l, "decide", "done") /\ mark_failed
       ELSE LoopStep(l, "decide", "sleep") /\ UNCHANGED <<vpn, watch, activeOutbound>>
    /\ decision' = [decision EXCEPT ![l] = "Stop"]
    /\ UNCHANGED <<controller, outcome, iface>>

\* handle_decision up to the select!: Retry and SwitchNode do the same.
LoopDecide(l) ==
    /\ IF decision[l] = "Stop"
       THEN /\ LoopStep(l, "decide", "done")
            /\ mark_failed
       ELSE /\ LoopStep(l, "decide", "sleep")
            /\ vpn_transition(into_reconnecting(vpn))
            /\ UNCHANGED activeOutbound
    /\ decision' = [decision EXCEPT ![l] = "Stop"]
    /\ UNCHANGED <<controller, outcome, iface>>

\* The two branches of the select!.
SleepCancelled(l) ==
    /\ l \in cancelled
    /\ LoopStep(l, "sleep", "markdisc")
    /\ UNCHANGED <<vpn, watch, activeOutbound, controller, outcome, decision, iface>>

SleepElapsed(l) ==
    /\ LoopStep(l, "sleep", "configure")
    /\ UNCHANGED <<vpn, watch, activeOutbound, controller, outcome, decision, iface>>

LoopMarkDisconnected(l) ==
    /\ LoopStep(l, "markdisc", "done")
    /\ mark_disconnected
    /\ UNCHANGED <<controller, outcome, decision, iface>>

\* What the loop does by itself, and what it does because of its token.
LoopProceeds(l) ==
    \/ LoopConfigure(l) \/ LoopNegotiate(l) \/ LoopStart(l) \/ LoopOpen(l)
    \/ LoopMarkConnected(l) \/ SuperviseTrigger(l) \/ LoopTeardown(l)
    \/ LoopFail(l) \/ LoopCheck(l) \/ LoopDecide(l) \/ SleepElapsed(l)
    \/ LoopMarkDisconnected(l)

LoopCancelled(l) == SuperviseCancelled(l) \/ SleepCancelled(l)

-----------------------------------------------------------------------------

HandlerProceeds(h) ==
    \/ DisconnectFinish(h)
    \/ ReconnectCheck(h)
    \/ ReconnectCancel(h)
    \/ ReconnectConnect(h)

Next ==
    \/ maybe_auto_resume
    \/ \E h \in Callers :
          \/ \E p \in ProtoRequests : ConnectTunnel(h, p)
          \/ \E i \in Ifaces : UpdateConfiguration(h, i)
          \/ DisconnectTunnel(h)
          \/ ClientGone(h)
    \/ \E h \in Handlers : HandlerProceeds(h)
    \/ \E l \in LoopIds : LoopProceeds(l) \/ LoopCancelled(l)
    \/ \E w \in Watchers : Watches(w)
    \/ AuthChange
    \/ ShutdownSignal
    \/ ShutdownTeardown
    \/ Exited

Spec == Init /\ [][Next]_vars

\* Tasks that can run do run (the tokio scheduler is fair, and every network
\* call of a loop returns); select! polls its branches in random order, so a
\* token that stays cancelled is noticed in the end.  A session may live for
\* ever, and so may a client that watches: nothing is assumed of
\* SuperviseTrigger and WatchClosed.
Fairness ==
    /\ \A l \in LoopIds :
          /\ WF_vars(LoopProceeds(l) /\ loopPc[l] # "supervise")
          /\ SF_vars(LoopCancelled(l))
    /\ \A h \in Handlers : WF_vars(HandlerProceeds(h))
    /\ \A w \in Watchers : WF_vars(WatchDeliver(w))
    /\ WF_vars(maybe_auto_resume)
    /\ WF_vars(ShutdownTeardown)

FairSpec == Spec /\ Fairness

-----------------------------------------------------------------------------
(* Safety *)

\* The task a disconnect would wait for is the one its token reaches.
HandleMatchesToken ==
    tunnelTask # 0 => vpn.tag # "Absent" /\ tunnelTask = token

\* Between its critical section and cancel(), reconnect_if_outbound_changed
\* holds the token of the very task it took.
SavedTokenMatches ==
    \A h \in Handlers :
        handlerPc[h] = "upd_cancel" /\ awaited[h] # 0 => awaited[h] = savedToken[h]

\* A handler never waits for a task that nobody has told to stop: the await in
\* disconnect_tunnel and in reconnect_if_outbound_changed is not in vain.
AwaitedTaskCancelled ==
    \A h \in Handlers :
        handlerPc[h] \in {"disc_await", "upd_await"} /\ awaited[h] # 0
            => awaited[h] \in cancelled

\* The three together are inductive: no handler ever waits for a task that is
\* not, or not about to be, cancelled.
WaitInv == HandleMatchesToken /\ SavedTokenMatches /\ AwaitedTaskCancelled

\* A state the UI shows as in progress has somebody who will change it: a
\* connect loop that still has to write the machine, or the disconnect.
TransientStateHasDriver ==
    /\ vpn.tag \in {"Connecting", "Configuring", "Connected", "Reconnecting"}
          => \E l \in LoopIds : Live(l) /\ loopPc[l] # "check"
    /\ vpn.tag = "Disconnecting" /\ ~ClientsMayAbort
          => \E h \in Handlers : handlerPc[h] = "disc_await"

\* While the machine says Connected, the session it describes is up, or its
\* loop is on the way to say otherwise.
ConnectedInfoLive ==
    vpn.tag = "Connected"
        => /\ vpn.info \in LoopIds
           /\ loopPc[vpn.info] \in {"supervise", "teardown", "decide", "markdisc"}

\* can_connect: "True when a connect may start (no active or in-flight
\* tunnel)", so that two loops never fight over the device and the routes.
AtMostOneLiveLoop ==
    \A l, m \in LoopIds : Live(l) /\ Live(m) => l = m

\* Disconnected means down: no session still owns the device or the routes.
DisconnectedMeansDown ==
    vpn.tag = "Disconnected" => \A l \in LoopIds : ~HoldsTunnel(l)

\* The graceful teardown of main.rs leaves nothing behind at exit.
NoLeakAtExit ==
    process = "down" => \A l \in LoopIds : ~HoldsTunnel(l)

\* An outbound interface selected while a tunnel is active takes effect: when
\* no request is in progress, the supervised session uses it.
SessionFollowsConfig ==
    (\A h \in Handlers : handlerPc[h] = "idle")
        => \A l \in LoopIds :
              loopPc[l] = "supervise" /\ l \notin cancelled => iface[l] = config

\* The request the machine shows, and that a reconnect would use, is the one
\* the current loop works on.
ShownRequestIsCurrent ==
    HasRequest(vpn) /\ vpn.tag # "Disconnecting"
        => token # 0 /\ vpn.request = loopRequest[token]

-----------------------------------------------------------------------------
(* Liveness *)

\* A loop whose token is cancelled ends, whatever it was doing.
CancelledLoopEnds ==
    \A l \in LoopIds : l \in cancelled ~> loopPc[l] = "done" \/ process = "down"

\* A disconnect resets the state: Disconnecting does not last.
DisconnectingEnds == vpn.tag = "Disconnecting" ~> vpn.tag # "Disconnecting"

\* After the shutdown signal, once the last WatchTunnel stream is closed, the
\* process exits: no request, loop or await of the teardown holds it up.
ShutdownCompletes == process = "draining" /\ NoStream ~> process = "down"

\* A UI that stays gets to see the state the machine is in: whichever critical
\* section changed it last has sent it, and the streams deliver it.
WatcherCatchesUp ==
    \A w \in Watchers :
        stream[w] = "open" ~> stream[w] = "closed" \/ shown[w] = to_tunnel_proto(vpn)

\* The comment on the teardown of main.rs: a "signal-initiated shutdown" cancels
\* the supervise task, awaits it and cleans up.
SignalTearsDown == process = "draining" ~> process = "down"

=============================================================================
