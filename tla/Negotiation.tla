----------------------------- MODULE Negotiation ----------------------------
(***************************************************************************)
(* One attempt to get a tunnel configuration: connect_once of              *)
(* crates/daemon/src/daemon.rs up to the session, with the dot list, the   *)
(* ranking of the dots by probes (crates/daemon/src/latency.rs) and the    *)
(* requests to the dots (crates/core/src/vpn.rs).                          *)
(*                                                                         *)
(* Other handlers use the same jar and the same AuthMachine meanwhile: an  *)
(* answer to them merges cookies, a logout clears the jar, an activation   *)
(* replaces the tenant and its signing secret.  The HTTP client has no     *)
(* timeout of its own; a probe has one.                                    *)
(***************************************************************************)
EXTENDS ApiClient, Sequences, SequencesExt

CONSTANTS
    Requests,           \* VpnRequest: mode, location, reconnect, protocol, otp
    DotLists,           \* lists the tenant may answer /api/vpn/list with
    Tenants,            \* AuthMachine.tenant and .signing: url (FALSE when it does
                        \* not parse), enabled, activation_code
    MAX_DOT_ATTEMPTS, MAX_CONFIG_ATTEMPTS_PER_DOT,
    MaxRtt,             \* bound: round-trip times of probes
    MaxOthers           \* bound: steps of the other handlers

ASSUME NegotiationAssumption ==
    /\ {MAX_DOT_ATTEMPTS, MAX_CONFIG_ATTEMPTS_PER_DOT, MaxRtt} \subseteq Nat \ {0}
    /\ MaxOthers \in Nat
    /\ \A request \in Requests : request.protocol \in {"Udp", "FeilianTcp"}

VARIABLES
    pc, request,
    jar,          \* the shared CookieStore
    auth,         \* of the AuthMachine: tenant, knock_token, whether there is a totp
    client,       \* hooks of the client for the tenant
    hooks,        \* ... and of those for the dots
    domain,       \* the tenant's vpn_domain is known
    otp,          \* code for /vpn/conn
    found,        \* the suitable dots of the list
    rtt,          \* probe result of each, Pending before there is one
    order,        \* the candidates: positions in found, in the order of trying
    at,           \* which of them is tried
    tried,        \* requests for a configuration, by position in found
    call,         \* request on the wire, or NoCall
    result,       \* Ok, or why it failed
    transport,    \* of the tunnel that is to be brought up
    others,       \* steps of other handlers
    tokenSet      \* observer: /api/vpn/list set a vpn-token and the jar was kept

session == <<jar, auth, others>>
account == <<client, hooks, domain, otp>>
dots    == <<found, rtt, order, at, tried>>
vars    == <<pc, request, session, account, dots, call, result, transport, tokenSet>>

Pending     == MaxRtt + 2   \* no result yet
Unreachable == MaxRtt + 1   \* None: failed, timed out, or no endpoint
NoCall      == [path |-> ""]

-----------------------------------------------------------------------------
(* A dot of the list: its id, the tiers and protocols it serves, whether it *)
(* takes reconnects, its addresses, whether its ports are valid, and        *)
(* whether its operator routes by IP.                                      *)

\* A node that serves Split only cannot serve Full.
supports_android_mode(dot, mode) == ~(dot.mode = "Split" /\ mode = "Full")

supports_reconnect(dot) == dot.reconnect /\ ~dot.dedicated /\ ~dot.exclude

\* ip4_domain, else fast_ip, else api_ip, else ip; the first three are one here.
api_host(dot) == IF dot.api # "" THEN dot.api ELSE dot.ip

should_use_vpn_ip_for_config_api(dot, isAuto) == ~isAuto /\ dot.ip # "" /\ dot.operator

\* from_dot fails: a port is missing or out of range, or there is no address.
BadEndpoint(dot) == ~dot.ports \/ dot.ip = ""

from_dot(dot, useIp) ==
    [api |-> IF useIp THEN dot.ip ELSE api_host(dot), wireguard |-> dot.ip]

\* The certificate is validated against vpn_domain when the host is an IPv4
\* address; a name, and an IPv6 address in its brackets, is used as it is.
build_dot_api_client(endpoint, known) ==
    [address |-> endpoint.api,
     tls     |-> IF known /\ endpoint.api \in {"v4", "v4api"} THEN "vpn_domain" ELSE endpoint.api]

\* A dot of one protocol serves that one; else the caller chooses.
effective_transport(dot, requested) ==
    IF dot.protocol \in {"Udp", "FeilianTcp"} THEN dot.protocol ELSE requested

-----------------------------------------------------------------------------
(* connect_once                                                            *)

\* The identity, the knock token and the signing config of a client; what it
\* shares with all others is the jar.
build_hooks(machine) ==
    [identity |-> "device", knock |-> machine.knock,
     signer |-> [enabled |-> machine.tenant.enabled, rules |-> <<>>, signing_input_params |-> {},
                 hmac_key_base64 |-> "", shared_secret |-> "", device_id |-> "device",
                 activation_code |-> machine.tenant.activation_code]]

Init ==
    /\ pc = "idle" /\ request \in Requests
    /\ jar = EmptyJar
    /\ auth \in [tenant : Tenants, knock : {None, 1}, totp : BOOLEAN]
    /\ client = build_hooks(auth) /\ hooks = build_hooks(auth)
    /\ domain = FALSE /\ otp = "none" /\ transport = "none"
    /\ found = <<>> /\ rtt = <<>> /\ order = <<>> /\ at = 1 /\ tried = <<>>
    /\ call = NoCall /\ result = "none" /\ others = 0 /\ tokenSet = FALSE

Send(with, cookies, method, path, body) ==
    call' = prepare(with.signer, with.identity, with.knock, cookies, method, path, body)

\* Dot clients with a jar of their own.
SendToDot_OwnJar(path, body) == Send(hooks, EmptyJar, "POST", path, body)

\* ApiClient::send of a dot client: the shared jar, as it is now.
SendToDot(path, body) == Send(hooks, jar, "POST", path, body)

\* ApiClient::send of the client for the tenant.
SendToTenant(with, path) == Send(with, jar, "GET", path, [to |-> "tenant"])

\* The jar takes the cookies of an answer, whatever else it says.
Absorb(answer) == \E updates \in {EmptyJar, [n \in {"csrf-token"} |-> 1]} :
                     jar' = absorb(jar, answer, updates)

Finish(how) == pc' = "done" /\ result' = how /\ call' = NoCall

\* The client for the tenant, if there is a valid address, and the call for
\* its settings.
connect_once ==
    /\ pc = "idle"
    /\ client' = build_hooks(auth)
    /\ \/ ~auth.tenant.url /\ Finish("NotAuthenticated")
       \/ /\ auth.tenant.url
          /\ SendToTenant(client', "/api/setting")
          /\ pc' = "setting" /\ UNCHANGED result
    /\ UNCHANGED <<request, session, hooks, domain, otp, dots, transport, tokenSet>>

\* An error here only means that the domain is not known.
GetVpnSetting ==
    /\ pc = "setting"
    /\ \E answer \in Answers :
          /\ Absorb(answer)
          /\ domain' \in (IF answer = "data" THEN BOOLEAN ELSE {FALSE})
    /\ pc' = "prepare" /\ call' = NoCall
    /\ UNCHANGED <<request, auth, others, client, hooks, otp, dots, result, transport, tokenSet>>

\* The code given by the user, or else one from the secret that is stored now.
compute_otp(manual) ==
    IF manual # "none" THEN manual ELSE IF auth.totp THEN "totp" ELSE "none"

\* The code and the hooks of the dot clients, then the call for the list.
Prepare ==
    /\ pc = "prepare"
    /\ otp' = compute_otp(request.otp)
    /\ hooks' = build_hooks(auth)
    /\ SendToTenant(client, "/api/vpn/list")
    /\ pc' = "list"
    /\ UNCHANGED <<request, session, client, domain, dots, result, transport, tokenSet>>

ListFails ==
    /\ pc = "list"
    /\ \E answer \in Answers \ {"data"} : Absorb(answer)
    /\ Finish("list")
    /\ UNCHANGED <<request, auth, others, account, dots, transport, tokenSet>>

Suitable(list, wanted) ==
    SelectSeq(list, LAMBDA dot : /\ wanted.location # None => dot.id = wanted.location
                                 /\ supports_android_mode(dot, wanted.mode)
                                 /\ wanted.reconnect => supports_reconnect(dot))

\* A filter of a list is a list.
ASSUME SuitableAssumption ==
    \A list \in DotLists, wanted \in Requests :
        Suitable(list, wanted) \in Seq({list[i] : i \in DOMAIN list})

\* A dot in its original place, cut to the number of dots that are tried.
Truncated(seq) == SubSeq(seq, 1, Min({Len(seq), MAX_DOT_ATTEMPTS}))

\* A pinned dot, and an only one, is not probed.  A dot without an endpoint
\* is not either and counts as unreachable.
ListArrives ==
    /\ pc = "list"
    /\ \E list \in DotLists, token \in {None, 1} :
       /\ jar' = merge(jar, IF token = None THEN EmptyJar ELSE [n \in {"vpn-token"} |-> token])
       /\ tokenSet' = (token # None)
       /\ found' = Suitable(list, request)
    /\ tried' = [i \in DOMAIN found' |-> 0]
    /\ rtt' = [i \in DOMAIN found' |->
                  IF BadEndpoint(found'[i]) THEN Unreachable ELSE Pending]
    /\ order' = Truncated([i \in DOMAIN found' |-> i])
    /\ \/ found' = <<>> /\ Finish("no dot")
       \/ /\ found' # <<>>
          /\ pc' = IF request.location = None /\ Len(found') > 1 THEN "rank" ELSE "try"
          /\ call' = NoCall /\ UNCHANGED result
    /\ UNCHANGED <<request, auth, others, account, at, transport>>

-----------------------------------------------------------------------------
(* rank_dots_by_latency                                                    *)

Probe(i, time) ==
    /\ pc = "rank" /\ rtt[i] = Pending
    /\ rtt' = [rtt EXCEPT ![i] = time]
    /\ UNCHANGED <<pc, request, auth, others, account, found, order, at, tried, call, result,
                   transport, tokenSet>>

ProbeAnswers(i) == \/ \E time \in 1 .. MaxRtt : Probe(i, time) /\ Absorb("data")
                   \/ Probe(i, Unreachable) /\ Absorb("http")

\* A probe that waits for its dot as long as it takes.
ProbeTimesOut_Never(i) == FALSE

ProbeTimesOut(i) == Probe(i, Unreachable) /\ UNCHANGED jar

\* The order of an Option: nothing comes before something.
cmp_latency_NoneFirst(a, b) == b # Unreachable /\ (a = Unreachable \/ a < b)

\* Reachable before unreachable, then the shorter time.
cmp_latency(a, b) == a < b

Before(i, j) == \/ cmp_latency(rtt[i], rtt[j])
                \/ i < j /\ ~cmp_latency(rtt[j], rtt[i])

\* All probes are in: sort, equal ones in their original order.
rank_dots_by_latency ==
    /\ pc = "rank" /\ \A i \in DOMAIN found : rtt[i] # Pending
    /\ \E sorted \in Bijection(DOMAIN found, DOMAIN found) :
          /\ \A j, k \in DOMAIN found : j < k => Before(sorted[j], sorted[k])
          /\ order' = Truncated(sorted)
    /\ pc' = "try"
    /\ UNCHANGED <<request, session, account, found, rtt, at, tried, call, result, transport, tokenSet>>

-----------------------------------------------------------------------------
(* The requests for a configuration                                        *)

Current == order[at]

\* A dot without an endpoint ends the negotiation, not only its own turn.
TryDot ==
    /\ pc = "try" /\ at <= Len(order)
    /\ LET dot == found[Current]
           endpoint == from_dot(dot, should_use_vpn_ip_for_config_api(dot, FALSE))
       IN \/ /\ BadEndpoint(dot)
             /\ Finish("endpoint")
             /\ UNCHANGED tried
          \/ /\ ~BadEndpoint(dot)
             /\ tried' = [tried EXCEPT ![Current] = @ + 1]
             /\ SendToDot("/vpn/conn", [to |-> build_dot_api_client(endpoint, domain),
                                        otp |-> otp, export_id |-> dot.id])
             /\ pc' = "conn" /\ UNCHANGED result
    /\ UNCHANGED <<request, session, account, found, rtt, order, at, transport, tokenSet>>

\* The next attempt, with this dot or with the next one.
NextAttempt ==
    /\ pc' = "try" /\ call' = NoCall /\ UNCHANGED result
    /\ at' = IF tried[Current] < MAX_CONFIG_ATTEMPTS_PER_DOT THEN at ELSE at + 1

\* An error is retried; a success without a configuration is final.
ConnAnswers ==
    /\ pc = "conn"
    /\ \E answer \in Answers :
          /\ Absorb(answer)
          /\ \/ /\ answer = "data" /\ Finish("Ok")
                /\ transport' = effective_transport(found[Current], request.protocol)
                /\ UNCHANGED at
             \/ answer = "empty" /\ Finish("no data") /\ UNCHANGED <<at, transport>>
             \/ ~send_ok(answer) /\ NextAttempt /\ UNCHANGED transport
    /\ UNCHANGED <<request, auth, others, account, found, rtt, order, tried, tokenSet>>

Exhausted ==
    /\ pc = "try" /\ at > Len(order)
    /\ Finish("api")
    /\ UNCHANGED <<request, session, account, dots, transport, tokenSet>>

-----------------------------------------------------------------------------
(* The other handlers of the daemon                                        *)

\* An answer to any of them, a dot list among them.
OtherAnswer ==
    /\ \E name \in {"csrf-token", "vpn-token"} : jar' = merge(jar, [n \in {name} |-> 2])
    /\ UNCHANGED <<auth, tokenSet>>

\* A logout; clients that exist keep their knock token.
clear_session ==
    /\ jar' = EmptyJar /\ tokenSet' = FALSE
    /\ auth' = [auth EXCEPT !.knock = None, !.totp = FALSE]

\* Signing is not enabled by it, and the address may be missing.
activate ==
    /\ \E tenant \in Tenants : ~tenant.enabled /\ auth' = [auth EXCEPT !.tenant = tenant]
    /\ UNCHANGED <<jar, tokenSet>>

Other ==
    /\ pc # "done" /\ others < MaxOthers
    /\ others' = others + 1
    /\ OtherAnswer \/ clear_session \/ activate
    /\ UNCHANGED <<pc, request, account, dots, call, result, transport>>

-----------------------------------------------------------------------------
Step == connect_once \/ Prepare \/ rank_dots_by_latency \/ TryDot \/ Exhausted
Answered == GetVpnSetting \/ ListArrives \/ ListFails \/ ConnAnswers

Next ==
    \/ Step
    \/ Answered
    \/ \E i \in DOMAIN found : ProbeAnswers(i) \/ ProbeTimesOut(i)
    \/ Other

Spec == Init /\ [][Next]_vars

\* The daemon and the timers of the probes run.  Nothing is assumed of the
\* tenant and the dots, which may leave any request unanswered.
FairSpec ==
    /\ Spec
    /\ WF_vars(Step)
    /\ WF_vars(\E i \in DOMAIN found : ProbeTimesOut(i))

-----------------------------------------------------------------------------
(* Properties                                                              *)

TypeOK ==
    /\ pc \in {"idle", "setting", "prepare", "list", "rank", "try", "conn", "done"}
    /\ request \in Requests
    /\ auth \in [tenant : Tenants, knock : {None, 1}, totp : BOOLEAN]
    /\ domain \in BOOLEAN /\ tokenSet \in BOOLEAN
    /\ rtt \in [DOMAIN found -> 1 .. Pending]
    /\ tried \in [DOMAIN found -> 0 .. MAX_CONFIG_ATTEMPTS_PER_DOT]
    /\ \A k \in DOMAIN order : order[k] \in DOMAIN found
    /\ at \in 1 .. Len(order) + 1
    /\ result \in {"none", "Ok", "NotAuthenticated", "list", "no dot", "endpoint", "no data", "api"}
    /\ transport \in {"none", "Udp", "FeilianTcp"}
    /\ others \in 0 .. MaxOthers

\* A dot has its turn, or brings the negotiation to an end, only when those
\* before it have failed as often as they may, and in the automatic choice
\* these are all that answered their probe faster: probes that come in any
\* order, hung ones and dots without an endpoint do not make a slow or broken
\* one go first.  The error of a dot is reported only after all of them, as
\* many as may be tried.
DotsInTurn ==
    /\ \A k \in 1 .. at - 1 : tried[order[k]] = MAX_CONFIG_ATTEMPTS_PER_DOT
    /\ pc \in {"try", "conn", "done"} /\ at <= Len(order) /\ request.location = None
          => \A i \in DOMAIN found :
                rtt[i] < rtt[Current] => tried[i] = MAX_CONFIG_ATTEMPTS_PER_DOT
    /\ result = "api" => at = Min({Len(found), MAX_DOT_ATTEMPTS}) + 1

\* client.rs: "cookies set mid-flow (e.g. `vpn-token` from `/api/vpn/list`)
\* are present on later requests (e.g. the dot's `/vpn/conn`)": whatever the
\* other handlers do to the jar, short of a logout.
TokenReachesDot ==
    call.path = "/vpn/conn" /\ tokenSet => call.headers.jwt # None

\* A negotiation comes to an end, or hangs in one request that nobody answers:
\* ApiClient::send has no timeout.  Whatever else the dots do, probes left
\* unanswered and errors of every dot among it, does not keep it up.
EndsOrHangs == (pc # "idle" ~> pc = "done") \/ <>[](call # NoCall)
=============================================================================
