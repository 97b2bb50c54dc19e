-------------------------------- MODULE Auth --------------------------------
(***************************************************************************)
(* The authentication of the daemon and what it keeps on disk: AuthMachine *)
(* (crates/daemon/src/state.rs), its RPC handlers (service/auth.rs), the   *)
(* login steps (crates/core/src/auth.rs, state/auth.rs), the shared cookie *)
(* jar (crates/api/src/client.rs) and persist_credentials, restore and     *)
(* auto-resume (daemon.rs, main.rs).                                       *)
(*                                                                         *)
(* Handlers that call the server with the mutex held are one step.  The    *)
(* jar is not behind that mutex: a response to anybody changes it, and     *)
(* every change spawns a task that saves the session.  A save is a         *)
(* snapshot under the mutex and a write after it; the file itself is       *)
(* replaced in one step here (see CredentialFile for when that is so).     *)
(* A client that goes away drops its handler at the next await: whatever   *)
(* the handler had yet to do, a save or a delete included, is not done.    *)
(*                                                                         *)
(* A tenant names its server.  The jar is the server that last changed it  *)
(* and a version number; pending flows and the TOTP secret are the tenant  *)
(* they belong to.                                                         *)
(***************************************************************************)
EXTENDS Integers, FiniteSets

CONSTANTS
    Callers,      \* auth RPCs in progress at a time
    Persisters,   \* bound: tasks of the jar's listener alive at a time
    Tenants,
    None,
    Version,      \* login API of each tenant
    WithTotp,     \* tenants whose users have a TOTP secret
    MayFail,      \* calls to servers, saves and deletes may fail
    ClientsMayAbort,   \* a client may go away while its request is served
    MaxVersions,  \* bound: changes of the jar
    MaxRestarts   \* bound: restarts of the daemon

ASSUME AuthAssumption ==
    /\ Callers \cap Persisters = {}
    /\ None \notin Tenants
    /\ Version \in [Tenants -> {"Legacy", "V1"}]
    /\ WithTotp \subseteq Tenants
    /\ MayFail \in BOOLEAN
    /\ ClientsMayAbort \in BOOLEAN
    /\ MaxVersions \in Nat
    /\ MaxRestarts \in Nat

VARIABLES
    state,        \* AuthMachine.state
    tenant,       \* AuthMachine.tenant and .signing
    api,          \* AuthMachine.login_api_version
    totp,         \* AuthMachine.totp
    oauth,        \* AuthMachine.oauth_pending
    device,       \* AuthMachine.device_login_pending
    jar,          \* the CookieStore
    tunnel,       \* tenant of the VPN request in progress
    file,         \* credentials.json
    pc,           \* where each handler and task is
    client,       \* tenant its ApiClient addresses
    snapshot,     \* what it is saving
    versions, restarts,   \* bounds
    loggedOut,    \* observer: nobody has logged in since the last Logout
    gone,         \* observer: ... and a file deleted since, with no save under way
    heard,        \* observer: the jar has changed in the session that goes on
    lost          \* observer: the last save failed or was not alone

machine   == <<state, tenant, api, totp, oauth, device>>
tasks     == <<pc, client, snapshot>>
marks     == <<restarts, loggedOut, gone, lost>>
observers == <<marks, heard>>
vars      == <<machine, jar, versions, tunnel, file, tasks, observers>>

Tasks == Callers \cup Persisters
States == {"Unconfigured", "Configured", "AwaitingOtp", "AwaitingMfa", "AwaitingOauth",
           "AwaitingDeviceLogin", "Authenticated"}
Maybe == Tenants \cup {None}
EmptyJar == [tenant |-> None, version |-> 0]
Jars == [tenant : Maybe, version : 0 .. MaxVersions]
Credentials == [tenant : Tenants, api : {"Legacy", "V1"}, totp : Maybe, jar : Jars,
                last_vpn_request : BOOLEAN]
NoFile == [tenant |-> None, api |-> "Legacy", totp |-> None, jar |-> EmptyJar,
           last_vpn_request |-> FALSE]

Pcs == {"idle", "version", "poll", "device_done", "post", "totp_client", "totp",
        "check", "persist", "save", "delete"}

TypeOK ==
    /\ state \in States
    /\ {tenant, totp, oauth, device, tunnel} \subseteq Maybe
    /\ api \in {"Legacy", "V1"}
    /\ jar \in Jars
    /\ file \in Credentials \cup {NoFile}
    /\ pc \in [Tasks -> Pcs]
    /\ \A p \in Persisters : pc[p] \in {"idle", "persist", "save"}
    /\ client \in [Tasks -> Maybe]
    /\ snapshot \in [Tasks -> Credentials \cup {NoFile}]
    /\ versions \in 0 .. MaxVersions
    /\ restarts \in 0 .. MaxRestarts
    /\ {loggedOut, gone, heard, lost} \subseteq BOOLEAN

\* The first start: no credentials.
Init ==
    /\ state = "Unconfigured"
    /\ tenant = None
    /\ api = "Legacy"
    /\ totp = None
    /\ oauth = None
    /\ device = None
    /\ jar = EmptyJar
    /\ tunnel = None
    /\ file = NoFile
    /\ pc = [t \in Tasks |-> "idle"]
    /\ client = [t \in Tasks |-> None]
    /\ snapshot = [t \in Tasks |-> NoFile]
    /\ versions = 0
    /\ restarts = 0
    /\ loggedOut = FALSE
    /\ gone = FALSE
    /\ heard = FALSE
    /\ lost = FALSE

-----------------------------------------------------------------------------
(* The cookie jar *)

\* The listener's task: it waits for the mutex, so one that waits already will
\* see this change too.
Spawned(at) ==
    IF \E p \in Persisters : at[p] = "persist" THEN {at}
    ELSE {[at EXCEPT ![p] = "persist"] : p \in {q \in Persisters : at[q] = "idle"}}

\* Mutant: the jar has no listener.
merge_Silent(t, at) ==
    \/ /\ versions < MaxVersions
       /\ jar' = [tenant |-> t, version |-> versions + 1]
       /\ versions' = versions + 1
       /\ pc' = at
    \/ /\ UNCHANGED <<jar, versions>>
       /\ pc' = at

\* A response of the server t may set cookies (merge, which notifies if they
\* are new) or not; `at' is where the tasks are otherwise.
merge(t, at) ==
    \/ /\ versions < MaxVersions
       /\ jar' = [tenant |-> t, version |-> versions + 1]
       /\ versions' = versions + 1
       /\ pc' \in Spawned(at)
    \/ /\ UNCHANGED <<jar, versions>>
       /\ pc' = at

\* A login or a completed flow always sets them.
merge_session(t, at) == merge(t, at) /\ versions' # versions

At(t, to) == [pc EXCEPT ![t] = to]

\* What the observer makes of a step.
Hears == heard' = (state' = "Authenticated"
                     /\ (heard \/ versions' # versions \/ restarts' # restarts))

-----------------------------------------------------------------------------
(* Activation *)

\* The match server knows the code (with or without tenant data) or refuses
\* it.  The session of the tenant before stays in the jar, and so does totp.
activate(t) ==
    /\ state' = "Configured"
    /\ tenant' \in {t, tenant}

Activate(h, t) ==
    /\ pc[h] = "idle"
    /\ activate(t)
    /\ pc' = At(h, "version")
    /\ UNCHANGED <<api, totp, oauth, device, jar, versions, tunnel, file, client,
                   snapshot, marks>>
    /\ Hears

\* refresh_login_api_version: best effort.
refresh_login_api_version(h) ==
    /\ pc[h] = "version"
    /\ \/ /\ tenant # None
          /\ api' = IF Version[tenant] = "V1" THEN "V1" ELSE api
       \/ /\ tenant = None \/ MayFail
          /\ UNCHANGED api
    /\ pc' = At(h, "check")
    /\ UNCHANGED <<state, tenant, totp, oauth, device, jar, versions, tunnel, file,
                   client, snapshot, observers>>

-----------------------------------------------------------------------------
(* Password, code and MFA logins *)

\* LoginV2Result: the action of `next' ("none" without one) and `result'.
LoginResponses == [action : {"none", "mfa", "goto_link", "verify_code"},
                   result : {"success", "none"}]

next_login_step(r) ==
    IF r.action = "mfa" THEN "AwaitingMfa"
    ELSE IF r.action \in {"none", "goto_link"} \/ r.result = "success" THEN "Authenticated"
    ELSE "AwaitingOtp"

\* What every handler but Activate and Logout needs.
require_configured == state # "Unconfigured"
tenant_client      == tenant # None

\* AuthMachine::login, verify_login_code, verify_mfa and skip_challenge: none
\* of them looks at the state, the server decides.  An error changes nothing.
LoginAnswer(h) ==
    /\ tenant_client
    /\ state' \in {next_login_step(r) : r \in LoginResponses}
    /\ IF state' = "Authenticated"
       THEN merge_session(tenant, At(h, "post"))
       ELSE merge(tenant, At(h, "post"))
    /\ loggedOut' = (loggedOut /\ state' # "Authenticated")
    /\ gone' = (gone /\ state' # "Authenticated")
    /\ UNCHANGED <<tenant, api, totp, oauth, device, tunnel, file, client, snapshot,
                   restarts, lost>>
    /\ Hears

\* The four handlers differ in what they send; post_login follows in each.
login(h)                  == pc[h] = "idle" /\ require_configured /\ LoginAnswer(h)
verify_login_code(h)      == pc[h] = "idle" /\ require_configured /\ LoginAnswer(h)
verify_mfa(h)             == pc[h] = "idle" /\ require_configured /\ LoginAnswer(h)
skip_pending_challenge(h) == pc[h] = "idle" /\ require_configured /\ LoginAnswer(h)

-----------------------------------------------------------------------------
(* Third-party and device logins *)

\* The provider is looked up in the tenant's list, and the flow belongs to it;
\* one that is not there, or cannot do it, is an error that changes nothing.
PendingFlow == tenant

start_oauth ==
    /\ tenant_client
    /\ oauth' = PendingFlow
    /\ state' = "AwaitingOauth"
    /\ UNCHANGED <<tenant, api, totp, device, jar, versions, tunnel, file, tasks, marks>>
    /\ Hears

start_third_party_login(h) == pc[h] = "idle" /\ require_configured /\ start_oauth

\* The pending flow is taken out before the call that may fail, or in which
\* the handler may be dropped.
complete_oauth(h) ==
    /\ tenant_client
    /\ oauth # None
    /\ oauth' = None
    /\ \/ /\ oauth = tenant
          /\ state' = "Authenticated"
          /\ merge_session(tenant, At(h, "post"))
          /\ loggedOut' = FALSE
          /\ gone' = FALSE
       \/ /\ MayFail \/ ClientsMayAbort \/ oauth # tenant
          /\ UNCHANGED <<state, jar, versions, pc, loggedOut, gone>>
    /\ UNCHANGED <<tenant, api, totp, device, tunnel, file, client, snapshot,
                   restarts, lost>>
    /\ Hears

complete_third_party_login(h) == pc[h] = "idle" /\ require_configured /\ complete_oauth(h)

\* AuthMachine::start_device_login, and its handler.
start_device_login(h) ==
    /\ pc[h] = "idle"
    /\ require_configured
    /\ tenant_client
    /\ device' = PendingFlow
    /\ state' = "AwaitingDeviceLogin"
    /\ UNCHANGED <<tenant, api, totp, oauth, jar, versions, tunnel, file, tasks, marks>>
    /\ Hears

\* CompleteDeviceLogin: token and client are read, the mutex is released.  A
\* server that does not know the token never answers it.
DevicePoll(h) ==
    /\ pc[h] = "idle"
    /\ require_configured
    /\ tenant_client
    /\ device # None
    /\ client' = [client EXCEPT ![h] = IF device = tenant THEN tenant ELSE None]
    /\ pc' = At(h, "poll")
    /\ UNCHANGED <<machine, jar, versions, tunnel, file, snapshot, observers>>

\* The user has finished in the provider's app: token/check answers.
DevicePollAnswer(h) ==
    /\ pc[h] = "poll"
    /\ client[h] # None
    /\ merge_session(client[h], At(h, "device_done"))
    /\ UNCHANGED <<machine, tunnel, file, client, snapshot, marks>>
    /\ Hears

\* The deadline of two minutes.
DevicePollTimeout(h) ==
    /\ pc[h] = "poll"
    /\ pc' = At(h, "idle")
    /\ client' = [client EXCEPT ![h] = None]
    /\ UNCHANGED <<machine, jar, versions, tunnel, file, snapshot, observers>>

complete_device_login(h) ==
    /\ pc[h] = "device_done"
    /\ device' = None
    /\ state' = "Authenticated"
    /\ pc' = At(h, "post")
    /\ client' = [client EXCEPT ![h] = None]
    /\ loggedOut' = FALSE
    /\ gone' = FALSE
    /\ UNCHANGED <<tenant, api, totp, oauth, jar, versions, tunnel, file, snapshot,
                   restarts, lost>>
    /\ Hears

\* A call that leaves everything but the jar alone: the RPCs below, calls that
\* fail or whose handler is dropped, and the calls inside the steps above and
\* in Logout.
CallTenant ==
    /\ tenant_client
    /\ merge(tenant, pc)
    /\ UNCHANGED <<machine, tunnel, file, client, snapshot, marks>>
    /\ Hears

request_login_code         == require_configured /\ CallTenant
list_third_party_providers == require_configured /\ CallTenant

\* A legacy tenant has no such endpoint: nothing is sent.
request_mfa_code == require_configured /\ api = "V1" /\ CallTenant

\* (A logout between require_authenticated and the call makes it one of the
\* calls above.)
list_vpn_locations == state = "Authenticated" /\ CallTenant

-----------------------------------------------------------------------------
(* After a login *)

\* post_login: nothing to do if it was not the last step.
post_login(h) ==
    /\ pc[h] = "post"
    /\ pc' = At(h, IF state = "Authenticated" THEN "totp_client" ELSE "check")
    /\ UNCHANGED <<machine, jar, versions, tunnel, file, client, snapshot, observers>>

\* maybe_fetch_totp builds a client ...
TotpClient(h) ==
    /\ pc[h] = "totp_client"
    /\ client' = [client EXCEPT ![h] = tenant]
    /\ pc' = At(h, IF tenant = None THEN "check" ELSE "totp")
    /\ UNCHANGED <<machine, jar, versions, tunnel, file, snapshot, observers>>

\* ... and stores the answer, if there is one.  The security report follows.
TotpAnswer(h) ==
    /\ pc[h] = "totp"
    /\ totp' \in (IF client[h] \in WithTotp THEN {client[h]} ELSE {totp})
                    \cup (IF MayFail THEN {totp} ELSE {})
    /\ merge(client[h], At(h, "check"))
    /\ client' = [client EXCEPT ![h] = None]
    /\ UNCHANGED <<state, tenant, api, oauth, device, tunnel, file, snapshot, marks>>
    /\ Hears

\* maybe_persist_and_broadcast
PersistCheck(h) ==
    /\ pc[h] = "check"
    /\ pc' = At(h, IF state = "Authenticated" THEN "persist" ELSE "idle")
    /\ UNCHANGED <<machine, jar, versions, tunnel, file, client, snapshot, observers>>

\* The client goes away and the handler is dropped between two steps.  (While
\* it writes or deletes the file: see Save and delete_credentials; in a call
\* under the mutex: see CallTenant.)
ClientGone(h) ==
    /\ ClientsMayAbort
    /\ pc[h] \in {"version", "poll", "device_done", "post", "totp_client", "totp",
                  "check", "persist"}
    /\ pc' = At(h, "idle")
    /\ client' = [client EXCEPT ![h] = None]
    /\ UNCHANGED <<machine, jar, versions, tunnel, file, snapshot, observers>>

-----------------------------------------------------------------------------
(* The credentials file *)

to_credentials ==
    [tenant |-> tenant, api |-> api, totp |-> totp, jar |-> jar,
     last_vpn_request |-> tunnel # None]

WritesFile(t) == pc[t] \in {"save", "delete"}

\* Mutant: the state is not looked at.
persist_credentials_Always(t) ==
    /\ pc[t] = "persist"
    /\ tenant # None
    /\ snapshot' = [snapshot EXCEPT ![t] = to_credentials]
    /\ pc' = At(t, "save")
    /\ lost' = \E u \in Tasks : WritesFile(u)
    /\ UNCHANGED <<machine, jar, versions, tunnel, file, client, restarts, loggedOut,
                   gone, heard>>

\* Under the mutex: a snapshot, of an authenticated session only ...
persist_credentials(t) ==
    /\ pc[t] = "persist"
    /\ IF state = "Authenticated" /\ tenant # None
       THEN /\ snapshot' = [snapshot EXCEPT ![t] = to_credentials]
            /\ pc' = At(t, "save")
            /\ lost' = \E u \in Tasks : WritesFile(u)
       ELSE pc' = At(t, "idle") /\ UNCHANGED <<snapshot, lost>>
    /\ UNCHANGED <<machine, jar, versions, tunnel, file, client, restarts, loggedOut,
                   gone, heard>>

\* A handler, unlike a task of the listener, is dropped with its client.
MayBeDropped(t) == ClientsMayAbort /\ t \in Callers

\* ... and after it, the write.  A failure is only logged; a dropped handler
\* does not get to the rename.
Save(t) ==
    /\ pc[t] = "save"
    /\ \/ file' = snapshot[t] /\ UNCHANGED lost
       \/ (MayFail \/ MayBeDropped(t)) /\ lost' = TRUE /\ UNCHANGED file
    /\ pc' = At(t, "idle")
    /\ snapshot' = [snapshot EXCEPT ![t] = NoFile]
    /\ UNCHANGED <<machine, jar, versions, tunnel, client, restarts, loggedOut, gone, heard>>

\* The server's answer does not matter.  (Its cookies are cleared with the
\* rest; the task they spawn waits for the mutex.)
Logout(h) ==
    /\ pc[h] = "idle"
    /\ state # "Unconfigured"
    /\ jar' = EmptyJar
    /\ totp' = None
    /\ oauth' = None
    /\ device' = None
    /\ state' = "Configured"
    /\ pc' \in {At(h, "delete")} \cup Spawned(At(h, "delete"))
    /\ loggedOut' = TRUE
    /\ UNCHANGED <<tenant, api, versions, tunnel, file, client, snapshot, restarts, gone, lost>>
    /\ Hears

\* Here too a failure is only logged, and a dropped handler deletes nothing.
delete_credentials(h) ==
    /\ pc[h] = "delete"
    /\ \/ /\ file' = NoFile
          /\ gone' = (state # "Authenticated" /\ \A t \in Tasks : pc[t] # "save")
       \/ (MayFail \/ MayBeDropped(h)) /\ UNCHANGED <<file, gone>>
    /\ pc' = At(h, "idle")
    /\ UNCHANGED <<machine, jar, versions, tunnel, client, snapshot, restarts, loggedOut,
                   heard, lost>>

-----------------------------------------------------------------------------
(* The tunnel, as far as it matters here *)

\* connect_tunnel is accepted: the request is kept until the disconnect.
Connect ==
    /\ state = "Authenticated"
    /\ tunnel = None
    /\ tunnel' = tenant
    /\ UNCHANGED <<machine, jar, versions, file, tasks, observers>>

\* mark_connected saves the session with the request.
mark_connected ==
    /\ tunnel # None
    /\ \E p \in Persisters : pc[p] = "idle" /\ pc' = At(p, "persist")
    /\ UNCHANGED <<machine, jar, versions, tunnel, file, client, snapshot, observers>>

\* The loop's calls: to the tenant it was started with.
TunnelCall ==
    /\ tunnel # None
    /\ merge(tunnel, pc)
    /\ UNCHANGED <<machine, tunnel, file, client, snapshot, marks>>
    /\ Hears

Disconnect ==
    /\ tunnel # None
    /\ tunnel' = None
    /\ UNCHANGED <<machine, jar, versions, file, tasks, observers>>

-----------------------------------------------------------------------------
(* A restart, by a crash or after an exit *)

restore_session == IF file.jar = EmptyJar THEN "Configured" ELSE "Authenticated"

\* The main task: load the file, restore_from_credentials, restore_session
\* and, with auto_reconnect, maybe_auto_resume.
Restart ==
    /\ restarts < MaxRestarts
    /\ restarts' = restarts + 1
    /\ state' = IF file = NoFile THEN "Unconfigured" ELSE restore_session
    /\ tenant' = file.tenant
    /\ api' = file.api
    /\ totp' = file.totp
    /\ oauth' = None
    /\ device' = None
    /\ jar' = file.jar
    /\ tunnel' = IF file.last_vpn_request /\ state' = "Authenticated" THEN file.tenant ELSE None
    /\ pc' = [t \in Tasks |-> "idle"]
    /\ client' = [t \in Tasks |-> None]
    /\ snapshot' = [t \in Tasks |-> NoFile]
    /\ lost' = FALSE
    /\ UNCHANGED <<versions, file, loggedOut, gone>>
    /\ Hears

-----------------------------------------------------------------------------

Handler(h) ==
    \/ refresh_login_api_version(h)
    \/ DevicePollTimeout(h) \/ complete_device_login(h)
    \/ post_login(h) \/ TotpClient(h) \/ TotpAnswer(h) \/ PersistCheck(h)
    \/ delete_credentials(h) \/ ClientGone(h)

Request(h) ==
    \/ \E t \in Tenants : Activate(h, t)
    \/ login(h) \/ verify_login_code(h) \/ verify_mfa(h) \/ skip_pending_challenge(h)
    \/ start_third_party_login(h) \/ complete_third_party_login(h)
    \/ start_device_login(h) \/ DevicePoll(h) \/ Logout(h)

Query ==
    \/ request_login_code \/ request_mfa_code
    \/ list_third_party_providers \/ list_vpn_locations

Saves(t) == persist_credentials(t) \/ Save(t)

Next ==
    \/ \E h \in Callers : Request(h) \/ Handler(h) \/ DevicePollAnswer(h)
    \/ \E t \in Tasks : Saves(t)
    \/ Query
    \/ Connect \/ mark_connected \/ TunnelCall \/ Disconnect
    \/ Restart

Spec == Init /\ [][Next]_vars

-----------------------------------------------------------------------------
(* Properties *)

Quiet == \A t \in Tasks : pc[t] = "idle"

\* "Delete credentials on logout": once a logout has deleted the file with no
\* save past its check, it stays gone and nobody is authenticated until the
\* next login, whatever handlers and tasks were waiting to save the session,
\* whatever clients went away and however often the daemon is restarted.
LogoutForgets == gone => file = NoFile /\ state # "Authenticated"

\* "persists the session whenever it absorbs a change": with the tasks at rest,
\* what the jar absorbed in the session that goes on is in the file, though
\* handlers were dropped half way, others saved or logged out before, and the
\* daemon was restarted; unless the last save itself failed, was dropped, or
\* shared the file with another one.
DiskIsCurrent ==
    Quiet /\ heard /\ ~lost => file.tenant = tenant /\ file.jar = jar

\* What the doc of PersistedCredentials says of the file, "Deleted on logout".
LogoutDeletesFile == loggedOut /\ Quiet => file = NoFile

\* The same across a restart: who has logged out is asked to log in.
LoggedOutStaysOut == loggedOut => state # "Authenticated"

\* The doc of PersistedCredentials: "all session data required to resume an
\* authenticated session", the TOTP secret among it.
SecretIsOnDisk == Quiet /\ state = "Authenticated" => file.totp = totp

\* The doc of maybe_auto_resume: on startup, re-establish the tunnel "if it was
\* active".
ResumesWhatWasActive ==
    [][restarts' # restarts /\ tunnel' # None => tunnel # None]_vars

=============================================================================
