----------------------------- MODULE AuthProofs -----------------------------
(***************************************************************************)
(* What Auth guarantees for any number of requests, listener tasks,        *)
(* tenants, changes of the jar and restarts.                               *)
(***************************************************************************)
EXTENDS Auth, TLAPS

-----------------------------------------------------------------------------
(* The inductive invariant *)

\* A task of the listener that has yet to look at the session.
WillSave == \E p \in Persisters : pc[p] = "persist"

\* c holds what DiskIsCurrent asks of the file.
Current(c) == c.tenant = tenant /\ c.jar = jar

\* A session, and a device login that is waited for, belong to a tenant.
TenantKnown ==
    /\ state = "Authenticated" => tenant # None
    /\ \A h \in Callers : pc[h] \in {"poll", "device_done"} => tenant # None

\* A file that is gone for good leaves nobody past the check of a save.
Forgotten ==
    gone => /\ file = NoFile
            /\ state # "Authenticated"
            /\ \A t \in Tasks : pc[t] # "save"

\* What the session has brought into the jar is on disk, on its way there by
\* the only writer, or about to be looked at by a task that no client can drop.
OnDisk ==
    heard => /\ state = "Authenticated"
             /\ ~lost =>
                  \/ WillSave
                  \/ \E t \in Tasks : /\ pc[t] = "save" /\ Current(snapshot[t])
                                      /\ \A u \in Tasks : WritesFile(u) => u = t
                  \/ Current(file) /\ \A u \in Tasks : ~WritesFile(u)

IInv == TypeOK /\ TenantKnown /\ Forgotten /\ OnDisk

\* It covers what the runs check.
LEMMA IInvImplies == IInv => LogoutForgets /\ DiskIsCurrent
<1> SUFFICES ASSUME IInv PROVE LogoutForgets /\ DiskIsCurrent
  OBVIOUS
<1> USE DEF IInv, Tasks
<1>1. LogoutForgets
  BY DEF LogoutForgets, Forgotten
<1>2. DiskIsCurrent
  BY DEF DiskIsCurrent, OnDisk, Quiet, WillSave, Current
<1> QED BY <1>1, <1>2

-----------------------------------------------------------------------------
(* The jar and its listener *)

\* Where tasks may be: those of the listener only ever save.
TaskPcs == {at \in [Tasks -> Pcs] : \A p \in Persisters : at[p] \in {"idle", "persist", "save"}}

\* Spawning moves an idle task of the listener, at most, and leaves one that
\* will look at the session.
LEMMA SpawnedFacts ==
    ASSUME NEW at \in TaskPcs, NEW n \in Spawned(at)
    PROVE  /\ n \in TaskPcs
           /\ \E p \in Persisters : n[p] = "persist"
           /\ \A u \in Tasks : n[u] = at[u] \/ (u \in Persisters /\ at[u] = "idle" /\ n[u] = "persist")
BY DEF Spawned, TaskPcs, Tasks, Pcs

\* So a merge that changes the jar is followed by somebody's look at it.
LEMMA MergeFacts ==
    ASSUME TypeOK, NEW t \in Maybe, NEW at \in TaskPcs, merge(t, at)
    PROVE  /\ jar' \in Jars
           /\ versions' \in 0 .. MaxVersions
           /\ pc' \in TaskPcs
           /\ jar' # jar \/ versions' # versions => \E p \in Persisters : pc'[p] = "persist"
           /\ \A u \in Tasks : pc'[u] = at[u] \/ (u \in Persisters /\ at[u] = "idle" /\ pc'[u] = "persist")
<1>1. CASE /\ versions < MaxVersions
           /\ jar' = [tenant |-> t, version |-> versions + 1]
           /\ versions' = versions + 1
           /\ pc' \in Spawned(at)
  <2>1. versions + 1 \in 0 .. MaxVersions
    BY <1>1, AuthAssumption DEF TypeOK
  <2> QED BY <1>1, <2>1, SpawnedFacts DEF Jars
<1>2. CASE UNCHANGED <<jar, versions>> /\ pc' = at
  BY <1>2 DEF TypeOK
<1> QED BY <1>1, <1>2 DEF merge

\* A handler that moves on does not touch the listener's tasks.
LEMMA AtFacts ==
    ASSUME TypeOK, NEW h \in Callers, NEW to \in Pcs
    PROVE  /\ At(h, to) \in TaskPcs
           /\ At(h, to)[h] = to
           /\ \A u \in Tasks : u # h => At(h, to)[u] = pc[u]
BY AuthAssumption DEF At, TaskPcs, TypeOK, Tasks

\* The tasks of a typed state.
LEMMA PcFacts == TypeOK => pc \in TaskPcs
BY DEF TypeOK, TaskPcs

-----------------------------------------------------------------------------
(* Steps that leave the file and its writers alone *)

\* Such a step keeps the invariant if a file that is gone stays gone without a
\* login, and a session is left as it was or somebody to save it.
LEMMA QuietStep ==
    ASSUME IInv, TypeOK', TenantKnown', UNCHANGED <<file, snapshot, lost>>,
           \A u \in Tasks : WritesFile(u) \/ WritesFile(u)' => pc'[u] = pc[u],
           gone' => gone /\ (state' = "Authenticated" => state = "Authenticated"),
           heard' => /\ state' = "Authenticated"
                     /\ \/ WillSave'
                        \/ heard /\ UNCHANGED <<tenant, jar>> /\ (WillSave => WillSave')
    PROVE  IInv'
<1>1. Forgotten'
  BY DEF IInv, Forgotten, WritesFile, Tasks
<1>2. OnDisk'
  <2> SUFFICES ASSUME heard', ~lost', ~WillSave'
               PROVE  \/ \E t \in Tasks : /\ pc'[t] = "save" /\ Current(snapshot[t])'
                                           /\ \A u \in Tasks : WritesFile(u)' => u = t
                      \/ Current(file)' /\ \A u \in Tasks : ~WritesFile(u)'
    BY DEF OnDisk
  <2>1. heard /\ ~lost /\ ~WillSave /\ UNCHANGED <<tenant, jar>>
    OBVIOUS
  <2>2. CASE \E t \in Tasks : /\ pc[t] = "save" /\ Current(snapshot[t])
                              /\ \A u \in Tasks : WritesFile(u) => u = t
    BY <2>1, <2>2 DEF Current, WritesFile
  <2>3. CASE Current(file) /\ \A u \in Tasks : ~WritesFile(u)
    BY <2>1, <2>3 DEF Current, WritesFile
  <2> QED BY <2>1, <2>2, <2>3 DEF IInv, OnDisk
<1> QED BY <1>1, <1>2 DEF IInv

\* What the observer hears of: a session's change of the jar.
LEMMA HeardFacts ==
    ASSUME Hears, UNCHANGED restarts
    PROVE  /\ heard' \in BOOLEAN
           /\ heard' => state' = "Authenticated"
           /\ heard' /\ versions' = versions => heard
BY DEF Hears

\* How the tasks moved, seen from the handler that took the step.
LEMMA Moved ==
    ASSUME TypeOK, NEW h \in Callers, NEW to \in Pcs, NEW t \in Maybe,
           merge(t, At(h, to)) \/ (pc' = At(h, to) /\ UNCHANGED <<jar, versions>>)
    PROVE  /\ jar' \in Jars
           /\ versions' \in 0 .. MaxVersions
           /\ pc' \in TaskPcs
           /\ pc'[h] = to
           /\ jar' # jar \/ versions' # versions => \E p \in Persisters : pc'[p] = "persist"
           /\ \A u \in Tasks : u # h =>
                 \/ pc'[u] = pc[u]
                 \/ u \in Persisters /\ pc[u] = "idle" /\ pc'[u] = "persist"
<1>1. At(h, to) \in TaskPcs /\ At(h, to)[h] = to /\ \A u \in Tasks : u # h => At(h, to)[u] = pc[u]
  BY AtFacts
<1>2. CASE merge(t, At(h, to))
  <2> DEFINE at == At(h, to)
  <2>1. at \in TaskPcs /\ merge(t, at)
    BY <1>1, <1>2
  <2> HIDE DEF at
  <2>2. /\ jar' \in Jars
        /\ versions' \in 0 .. MaxVersions
        /\ pc' \in TaskPcs
        /\ jar' # jar \/ versions' # versions => \E p \in Persisters : pc'[p] = "persist"
        /\ \A u \in Tasks : pc'[u] = at[u] \/ (u \in Persisters /\ at[u] = "idle" /\ pc'[u] = "persist")
    BY <2>1, MergeFacts
  <2>3. h \in Tasks /\ h \notin Persisters
    BY AuthAssumption DEF Tasks
  <2> QED BY <1>1, <2>2, <2>3 DEF at
<1>3. CASE pc' = At(h, to) /\ UNCHANGED <<jar, versions>>
  BY <1>1, <1>3 DEF TypeOK
<1> QED BY <1>2, <1>3

\* Where a handler is between its steps, writing nothing.
InFlight == {"idle", "version", "poll", "device_done", "post", "totp_client", "totp",
             "check", "persist"}

\* A handler's step that keeps off the file keeps the invariant, under what
\* the handlers below show of themselves.
LEMMA HandlerStep ==
    ASSUME IInv, NEW h \in Callers, NEW to \in InFlight, NEW t \in Maybe,
           merge(t, At(h, to)) \/ (pc' = At(h, to) /\ UNCHANGED <<jar, versions>>),
           pc[h] \in InFlight,
           UNCHANGED <<file, snapshot, tunnel, restarts, lost>>,
           state' \in States, api' \in {"Legacy", "V1"},
           {tenant', totp', oauth', device'} \subseteq Maybe,
           client' \in [Tasks -> Maybe],
           loggedOut' \in BOOLEAN, gone' \in BOOLEAN,
           gone' => gone /\ (state' = "Authenticated" => state = "Authenticated"),
           Hears,
           tenant # None => tenant' # None,
           to \in {"poll", "device_done"} => tenant' # None,
           state' = "Authenticated" => tenant' # None /\ UNCHANGED tenant
    PROVE  IInv'
<1>1. TypeOK /\ h \in Tasks /\ h \notin Persisters /\ to \in Pcs
  BY AuthAssumption DEF IInv, InFlight, Pcs, Tasks
<1>2. /\ jar' \in Jars
      /\ versions' \in 0 .. MaxVersions
      /\ pc' \in TaskPcs
      /\ pc'[h] = to
      /\ jar' # jar \/ versions' # versions => \E p \in Persisters : pc'[p] = "persist"
      /\ \A u \in Tasks : u # h =>
            \/ pc'[u] = pc[u]
            \/ u \in Persisters /\ pc[u] = "idle" /\ pc'[u] = "persist"
  BY <1>1, Moved
<1>3. heard' \in BOOLEAN /\ (heard' => state' = "Authenticated")
      /\ (heard' /\ versions' = versions => heard)
  BY HeardFacts
<1>4. TypeOK'
  BY <1>1, <1>2, <1>3 DEF TypeOK, TaskPcs
<1>5. TenantKnown'
  BY <1>1, <1>2, AuthAssumption DEF IInv, TenantKnown, Tasks
<1>6. \A u \in Tasks : WritesFile(u) \/ WritesFile(u)' => pc'[u] = pc[u]
  BY <1>2 DEF WritesFile, InFlight
<1>7. (WillSave => WillSave') /\ (jar' # jar \/ versions' # versions => WillSave')
  BY <1>1, <1>2 DEF WillSave, Tasks
<1>8. heard' => /\ state' = "Authenticated"
                /\ WillSave' \/ (heard /\ UNCHANGED <<tenant, jar>> /\ (WillSave => WillSave'))
  BY <1>3, <1>7
<1> QED BY <1>4, <1>5, <1>6, <1>8, QuietStep

-----------------------------------------------------------------------------
(* The handlers *)

\* Activation: whatever was known of the session, the state says Configured.
LEMMA ActivateStep ==
    ASSUME IInv, NEW h \in Callers, NEW t \in Tenants, Activate(h, t)
    PROVE  IInv'
<1>1. TypeOK /\ None \in Maybe /\ "version" \in InFlight /\ pc[h] \in InFlight
  BY DEF IInv, Activate, InFlight, Maybe
<1>2. /\ state' \in States /\ state' # "Authenticated"
      /\ {tenant', totp', oauth', device'} \subseteq Maybe
      /\ tenant # None => tenant' # None
  BY <1>1, AuthAssumption DEF Activate, activate, TypeOK, States, Maybe
<1>3. /\ pc' = At(h, "version") /\ UNCHANGED <<jar, versions>>
      /\ UNCHANGED <<file, snapshot, tunnel, restarts, lost, loggedOut, gone, api, client>>
      /\ Hears
  BY DEF Activate, marks
<1>4. api' \in {"Legacy", "V1"} /\ client' \in [Tasks -> Maybe]
      /\ loggedOut' \in BOOLEAN /\ gone' \in BOOLEAN
  BY <1>1, <1>3 DEF TypeOK
<1> QED BY <1>1, <1>2, <1>3, <1>4, HandlerStep

\* The login API is looked up: nothing of the session changes.
LEMMA RefreshStep ==
    ASSUME IInv, NEW h \in Callers, refresh_login_api_version(h)
    PROVE  IInv'
<1>1. TypeOK /\ None \in Maybe /\ "check" \in InFlight /\ pc[h] \in InFlight
  BY DEF IInv, refresh_login_api_version, InFlight, Maybe
<1>2. /\ pc' = At(h, "check")
      /\ UNCHANGED <<jar, versions, state, tenant, totp, oauth, device, tunnel, file,
                     client, snapshot, loggedOut, gone, heard, restarts, lost>>
      /\ Hears
  BY DEF refresh_login_api_version, observers, marks, Hears, IInv, OnDisk, TypeOK
<1>3. api' \in {"Legacy", "V1"}
  BY <1>1 DEF refresh_login_api_version, TypeOK
<1>4. /\ state' \in States /\ {tenant', totp', oauth', device'} \subseteq Maybe
      /\ client' \in [Tasks -> Maybe] /\ loggedOut' \in BOOLEAN /\ gone' \in BOOLEAN
      /\ state' = "Authenticated" => tenant' # None
  BY <1>1, <1>2 DEF TypeOK, IInv, TenantKnown
<1> QED BY <1>1, <1>2, <1>3, <1>4, HandlerStep

\* The four logins: post_login follows in each.
LEMMA LoginStep ==
    ASSUME IInv, NEW h \in Callers, pc[h] = "idle", LoginAnswer(h)
    PROVE  IInv'
<1>1. TypeOK /\ tenant \in Maybe /\ tenant # None /\ "post" \in InFlight /\ pc[h] \in InFlight
  BY DEF IInv, TypeOK, LoginAnswer, tenant_client, InFlight
<1>2. merge(tenant, At(h, "post"))
  BY DEF LoginAnswer, merge_session
<1>3. /\ UNCHANGED <<tenant, api, totp, oauth, device, tunnel, file, client, snapshot,
                     restarts, lost>>
      /\ loggedOut' = (loggedOut /\ state' # "Authenticated")
      /\ gone' = (gone /\ state' # "Authenticated")
      /\ Hears
  BY DEF LoginAnswer
<1>4. state' \in States
  BY DEF LoginAnswer, next_login_step, States
<1>5. /\ {tenant', totp', oauth', device'} \subseteq Maybe /\ api' \in {"Legacy", "V1"}
      /\ client' \in [Tasks -> Maybe] /\ loggedOut' \in BOOLEAN /\ gone' \in BOOLEAN
  BY <1>1, <1>3 DEF TypeOK
<1> QED BY <1>1, <1>2, <1>3, <1>4, <1>5, HandlerStep

\* A third-party login that completes is a login; one that fails only loses
\* the pending flow.
LEMMA OauthStep ==
    ASSUME IInv, NEW h \in Callers, complete_third_party_login(h)
    PROVE  IInv'
<1>1. TypeOK /\ tenant \in Maybe /\ tenant # None /\ pc[h] = "idle" /\ h \in Tasks
      /\ complete_oauth(h) /\ None \in Maybe
  BY DEF IInv, TypeOK, complete_third_party_login, complete_oauth, tenant_client, Tasks, Maybe
<1>2. UNCHANGED <<tenant, api, totp, device, tunnel, file, client, snapshot, restarts, lost>>
      /\ oauth' = None /\ Hears
  BY <1>1 DEF complete_oauth
<1>3. /\ {tenant', totp', oauth', device'} \subseteq Maybe /\ api' \in {"Legacy", "V1"}
      /\ client' \in [Tasks -> Maybe]
  BY <1>1, <1>2 DEF TypeOK
<1>4. CASE /\ state' = "Authenticated"
           /\ merge_session(tenant, At(h, "post"))
           /\ loggedOut' = FALSE /\ gone' = FALSE
  <2>1. merge(tenant, At(h, "post")) /\ state' \in States /\ {loggedOut', gone'} \subseteq BOOLEAN
        /\ "post" \in InFlight /\ pc[h] \in InFlight
    BY <1>1, <1>4 DEF merge_session, States, InFlight
  <2> QED BY <1>1, <1>2, <1>3, <1>4, <2>1, HandlerStep
<1>5. CASE UNCHANGED <<state, jar, versions, pc, loggedOut, gone>>
  <2>1. heard' \in BOOLEAN /\ (heard' => state' = "Authenticated" /\ heard)
    BY <1>2, <1>5, HeardFacts
  <2>2. TypeOK'
    BY <1>1, <1>2, <1>3, <1>5, <2>1 DEF TypeOK
  <2>3. TenantKnown'
    BY <1>2, <1>5 DEF IInv, TenantKnown
  <2> QED BY <1>2, <1>5, <2>1, <2>2, <2>3, QuietStep DEF WillSave, WritesFile
<1> QED BY <1>1, <1>4, <1>5 DEF complete_oauth

\* Starting a third-party or a device login ends the session in the machine.
LEMMA StartStep ==
    ASSUME IInv, NEW h \in Callers, start_third_party_login(h) \/ start_device_login(h)
    PROVE  IInv'
<1>1. /\ state' \in {"AwaitingOauth", "AwaitingDeviceLogin"}
      /\ oauth' \in {tenant, oauth} /\ device' \in {tenant, device}
      /\ UNCHANGED <<tenant, api, totp, jar, versions, tunnel, file, pc, client, snapshot,
                     restarts, loggedOut, gone, lost>>
      /\ heard' = FALSE
  BY DEF start_third_party_login, start_oauth, start_device_login, PendingFlow, tasks, marks, Hears
<1>2. TypeOK'
  BY <1>1 DEF IInv, TypeOK, States
<1>3. TenantKnown'
  BY <1>1 DEF IInv, TenantKnown
<1> QED BY <1>1, <1>2, <1>3, QuietStep DEF WritesFile

\* A handler's step that only moves it, or sets its own client.
LEMMA PlainStep ==
    ASSUME IInv, NEW h \in Callers, NEW to \in InFlight, pc' = At(h, to), pc[h] \in InFlight,
           client' \in [Tasks -> Maybe],
           UNCHANGED <<machine, jar, versions, tunnel, file, snapshot, observers>>,
           to \in {"poll", "device_done"} => tenant # None
    PROVE  IInv'
<1>1. TypeOK /\ None \in Maybe
  BY DEF IInv, Maybe
<1>2. UNCHANGED <<state, tenant, api, totp, oauth, device, jar, versions, tunnel, file, snapshot,
                  restarts, loggedOut, gone, heard, lost>>
  BY DEF machine, observers, marks
<1>3. /\ state' \in States /\ {tenant', totp', oauth', device'} \subseteq Maybe
      /\ api' \in {"Legacy", "V1"} /\ loggedOut' \in BOOLEAN /\ gone' \in BOOLEAN
      /\ state' = "Authenticated" => tenant' # None
  BY <1>1, <1>2 DEF TypeOK, IInv, TenantKnown
<1>4. Hears
  BY <1>2 DEF Hears, IInv, OnDisk, TypeOK
<1> QED BY <1>1, <1>2, <1>3, <1>4, HandlerStep

\* The device login polls without the mutex: asking and giving up.
LEMMA PollStep ==
    ASSUME IInv, NEW h \in Callers, DevicePoll(h) \/ DevicePollTimeout(h)
    PROVE  IInv'
<1>1. TypeOK /\ h \in Tasks
  BY DEF IInv, Tasks
<1>2. CASE DevicePoll(h)
  BY <1>1, <1>2, PlainStep DEF DevicePoll, tenant_client, TypeOK, InFlight, Maybe
<1>3. CASE DevicePollTimeout(h)
  BY <1>1, <1>3, PlainStep DEF DevicePollTimeout, TypeOK, InFlight, Maybe
<1> QED BY <1>2, <1>3

\* The answer to it changes the jar, so the listener has a task.
LEMMA PollAnswerStep ==
    ASSUME IInv, NEW h \in Callers, DevicePollAnswer(h)
    PROVE  IInv'
<1>1. /\ TypeOK /\ h \in Tasks /\ pc[h] = "poll" /\ client[h] \in Maybe
      /\ tenant # None
      /\ "device_done" \in InFlight /\ "device_done" \in Pcs /\ pc[h] \in InFlight
  BY DEF IInv, TypeOK, TenantKnown, DevicePollAnswer, Tasks, InFlight, Pcs
<1>2. merge(client[h], At(h, "device_done"))
  BY DEF DevicePollAnswer, merge_session
<1>3. /\ UNCHANGED <<state, tenant, api, totp, oauth, device, tunnel, file, client, snapshot,
                     restarts, loggedOut, gone, lost>>
      /\ Hears
  BY DEF DevicePollAnswer, machine, marks
<1>4. /\ state' \in States /\ {tenant', totp', oauth', device'} \subseteq Maybe
      /\ api' \in {"Legacy", "V1"} /\ {loggedOut', gone'} \subseteq BOOLEAN
      /\ client' \in [Tasks -> Maybe]
  BY <1>1, <1>3 DEF TypeOK
<1> QED BY <1>1, <1>2, <1>3, <1>4, HandlerStep

\* The device login is completed: a session of whatever tenant is there now.
LEMMA DeviceStep ==
    ASSUME IInv, NEW h \in Callers, complete_device_login(h)
    PROVE  IInv'
<1>1. /\ TypeOK /\ h \in Tasks /\ None \in Maybe /\ tenant # None
      /\ "post" \in InFlight /\ pc[h] \in InFlight
  BY DEF IInv, TenantKnown, complete_device_login, Tasks, Maybe, InFlight
<1>2. /\ pc' = At(h, "post") /\ state' = "Authenticated" /\ device' = None
      /\ loggedOut' = FALSE /\ gone' = FALSE /\ Hears
      /\ UNCHANGED <<tenant, api, totp, oauth, jar, versions, tunnel, file, snapshot,
                     restarts, lost>>
  BY DEF complete_device_login
<1>3. /\ state' \in States /\ {tenant', totp', oauth', device'} \subseteq Maybe
      /\ api' \in {"Legacy", "V1"} /\ {loggedOut', gone'} \subseteq BOOLEAN
      /\ client' \in [Tasks -> Maybe]
  BY <1>1, <1>2 DEF TypeOK, States, complete_device_login
<1> QED BY <1>1, <1>2, <1>3, HandlerStep

\* What follows a login, up to the TOTP call and after it.
LEMMA PostLoginStep ==
    ASSUME IInv, NEW h \in Callers, post_login(h) \/ TotpClient(h) \/ PersistCheck(h)
    PROVE  IInv'
<1>1. TypeOK /\ h \in Tasks
  BY DEF IInv, Tasks
<1>2. CASE post_login(h)
  BY <1>1, <1>2, PlainStep DEF post_login, TypeOK, InFlight
<1>3. CASE TotpClient(h)
  BY <1>1, <1>3, PlainStep DEF TotpClient, TypeOK, InFlight
<1>4. CASE PersistCheck(h)
  BY <1>1, <1>4, PlainStep DEF PersistCheck, TypeOK, InFlight
<1> QED BY <1>2, <1>3, <1>4

\* A client that goes away takes its handler with it, and nothing else.
LEMMA GoneStep ==
    ASSUME IInv, NEW h \in Callers, ClientGone(h)
    PROVE  IInv'
<1>1. TypeOK /\ h \in Tasks
  BY DEF IInv, Tasks
<1> QED BY <1>1, PlainStep DEF ClientGone, TypeOK, InFlight, Maybe

\* The TOTP secret arrives; its handler has yet to look at the session.
LEMMA TotpStep ==
    ASSUME IInv, NEW h \in Callers, TotpAnswer(h)
    PROVE  IInv'
<1>1. /\ TypeOK /\ h \in Tasks /\ client[h] \in Maybe
      /\ "check" \in InFlight /\ pc[h] \in InFlight
  BY DEF IInv, TypeOK, TotpAnswer, Tasks, InFlight
<1>2. /\ merge(client[h], At(h, "check"))
      /\ UNCHANGED <<state, tenant, api, oauth, device, tunnel, file, snapshot,
                     restarts, loggedOut, gone, lost>>
      /\ Hears
      /\ totp' \in {client[h], totp}
      /\ client' = [client EXCEPT ![h] = None]
  BY DEF TotpAnswer, marks
<1>3. /\ state' \in States /\ {tenant', totp', oauth', device'} \subseteq Maybe
      /\ api' \in {"Legacy", "V1"} /\ {loggedOut', gone'} \subseteq BOOLEAN
      /\ client' \in [Tasks -> Maybe]
  BY <1>1, <1>2 DEF TypeOK, Maybe
<1>4. state' = "Authenticated" => tenant' # None
  BY <1>2 DEF IInv, TenantKnown
<1> QED BY <1>1, <1>2, <1>3, <1>4, HandlerStep

-----------------------------------------------------------------------------
(* Calls that only change the jar, and the tunnel *)

\* A response to anybody: a jar that changed has a task to save it.
LEMMA CallStep ==
    ASSUME IInv, NEW t \in Maybe, merge(t, pc), Hears,
           UNCHANGED <<machine, tunnel, file, client, snapshot, marks>>
    PROVE  IInv'
<1>1. TypeOK /\ pc \in TaskPcs
  BY PcFacts DEF IInv
<1>2. /\ jar' \in Jars
      /\ versions' \in 0 .. MaxVersions
      /\ pc' \in TaskPcs
      /\ jar' # jar \/ versions' # versions => \E p \in Persisters : pc'[p] = "persist"
      /\ \A u \in Tasks : pc'[u] = pc[u] \/ (u \in Persisters /\ pc[u] = "idle" /\ pc'[u] = "persist")
  BY <1>1, MergeFacts
<1>3. heard' \in BOOLEAN /\ (heard' => state' = "Authenticated")
      /\ (heard' /\ versions' = versions => heard)
  BY HeardFacts DEF marks
<1>4. TypeOK'
  BY <1>1, <1>2, <1>3 DEF TypeOK, TaskPcs, machine, marks
<1>5. TenantKnown'
  BY <1>2, AuthAssumption DEF IInv, TenantKnown, Tasks, machine
<1>6. (WillSave => WillSave') /\ (jar' # jar \/ versions' # versions => WillSave')
  BY <1>2 DEF WillSave, Tasks
<1>7. heard' => /\ state' = "Authenticated"
                /\ WillSave' \/ (heard /\ UNCHANGED <<tenant, jar>> /\ (WillSave => WillSave'))
  BY <1>3, <1>6 DEF machine
<1> QED
  BY <1>2, <1>4, <1>5, <1>7, QuietStep DEF WritesFile, machine, marks

\* The connect loop's part in this: its request, its calls, the save it asks for.
LEMMA TunnelStep ==
    ASSUME IInv, Connect \/ mark_connected \/ Disconnect
    PROVE  IInv'
<1>1. TypeOK
  BY DEF IInv
<1>2. /\ UNCHANGED <<state, tenant, api, totp, oauth, device, jar, versions, file, client,
                     snapshot, restarts, loggedOut, gone, heard, lost>>
      /\ tunnel' \in Maybe
      /\ \/ pc' = pc
         \/ \E p \in Persisters : pc[p] = "idle" /\ pc' = [pc EXCEPT ![p] = "persist"]
  BY <1>1 DEF Connect, mark_connected, Disconnect, TypeOK, Maybe, machine, tasks, observers, marks, At
<1>3. /\ pc' \in TaskPcs
      /\ \A u \in Tasks : pc'[u] = pc[u] \/ (u \in Persisters /\ pc[u] = "idle" /\ pc'[u] = "persist")
  BY <1>1, <1>2 DEF TypeOK, TaskPcs, Tasks, Pcs
<1>4. TypeOK'
  BY <1>1, <1>2, <1>3 DEF TypeOK, TaskPcs
<1>5. TenantKnown'
  BY <1>2, <1>3, AuthAssumption DEF IInv, TenantKnown, Tasks
<1>6. WillSave => WillSave'
  BY <1>3 DEF WillSave, Tasks
<1>7. heard' => state' = "Authenticated"
  BY <1>2 DEF IInv, OnDisk
<1> QED BY <1>2, <1>3, <1>4, <1>5, <1>6, <1>7, QuietStep DEF WritesFile

-----------------------------------------------------------------------------
(* The steps that are about the file *)

\* A snapshot is of the session as it is; its writer is the only one, or it
\* may be lost.
LEMMA PersistStep ==
    ASSUME IInv, NEW t \in Tasks, persist_credentials(t)
    PROVE  IInv'
<1>1. /\ TypeOK /\ pc[t] = "persist"
      /\ UNCHANGED <<state, tenant, api, totp, oauth, device, jar, versions, tunnel, file, client,
                     restarts, loggedOut, gone, heard>>
  BY DEF IInv, persist_credentials, machine
<1>2. CASE /\ state = "Authenticated" /\ tenant # None
           /\ snapshot' = [snapshot EXCEPT ![t] = to_credentials]
           /\ pc' = [pc EXCEPT ![t] = "save"]
           /\ lost' = \E u \in Tasks : WritesFile(u)
  <2>1. to_credentials \in Credentials /\ Current(to_credentials)
    BY <1>1, <1>2 DEF to_credentials, Credentials, Current, TypeOK, Maybe
  <2>2. TypeOK'
    BY <1>1, <1>2, <2>1 DEF TypeOK, Tasks, Pcs
  <2>3. TenantKnown'
    BY <1>1, <1>2 DEF IInv, TenantKnown, TypeOK, Tasks
  <2>4. Forgotten'
    BY <1>1, <1>2 DEF IInv, Forgotten
  <2>5. OnDisk'
    <3> SUFFICES ASSUME ~lost'
                 PROVE  \E v \in Tasks : /\ pc'[v] = "save" /\ Current(snapshot[v])'
                                         /\ \A u \in Tasks : WritesFile(u)' => u = v
      BY <1>1, <1>2 DEF OnDisk
    <3>1. pc'[t] = "save" /\ snapshot'[t] = to_credentials
      BY <1>1, <1>2 DEF TypeOK
    <3>2. Current(snapshot[t])'
      BY <1>1, <2>1, <3>1 DEF Current
    <3>3. \A u \in Tasks : WritesFile(u)' => u = t
      BY <1>1, <1>2 DEF WritesFile, TypeOK
    <3> QED BY <3>1, <3>2, <3>3
  <2> QED BY <2>2, <2>3, <2>4, <2>5 DEF IInv
<1>3. CASE /\ ~(state = "Authenticated" /\ tenant # None)
           /\ pc' = [pc EXCEPT ![t] = "idle"] /\ UNCHANGED <<snapshot, lost>>
  <2>1. state # "Authenticated"
    BY <1>3 DEF IInv, TenantKnown
  <2>2. TypeOK'
    BY <1>1, <1>3 DEF TypeOK, Tasks, Pcs
  <2>3. TenantKnown'
    BY <1>1, <1>3 DEF IInv, TenantKnown, TypeOK, Tasks
  <2>4. \A u \in Tasks : WritesFile(u) \/ WritesFile(u)' => pc'[u] = pc[u]
    BY <1>1, <1>3 DEF WritesFile, TypeOK
  <2>5. ~heard'
    BY <1>1, <2>1 DEF IInv, OnDisk
  <2> QED BY <1>1, <1>3, <2>1, <2>2, <2>3, <2>4, <2>5, QuietStep
<1> QED BY <1>2, <1>3 DEF persist_credentials, At

\* The write: of the only writer it is the session, unless it is lost.
LEMMA SaveStep ==
    ASSUME IInv, NEW t \in Tasks, Save(t)
    PROVE  IInv'
<1>1. /\ TypeOK /\ pc[t] = "save" /\ WritesFile(t)
      /\ UNCHANGED <<state, tenant, api, totp, oauth, device, jar, versions, tunnel, client,
                     restarts, loggedOut, gone, heard>>
      /\ pc' = [pc EXCEPT ![t] = "idle"] /\ snapshot' = [snapshot EXCEPT ![t] = NoFile]
      /\ \/ file' = snapshot[t] /\ UNCHANGED lost
         \/ lost' = TRUE /\ UNCHANGED file
  BY DEF IInv, Save, machine, WritesFile, At
<1>2. TypeOK'
  BY <1>1 DEF TypeOK, Tasks, Pcs
<1>3. TenantKnown'
  BY <1>1 DEF IInv, TenantKnown, TypeOK, Tasks
<1>4. Forgotten'
  BY <1>1 DEF IInv, Forgotten
<1>5. OnDisk'
  <2> SUFFICES ASSUME heard, ~lost', ~lost, file' = snapshot[t], ~WillSave'
               PROVE  Current(file)' /\ \A u \in Tasks : ~WritesFile(u)'
    BY <1>1 DEF OnDisk, IInv
  <2>1. ~WillSave
    BY <1>1 DEF WillSave, TypeOK, Tasks
  <2>2. PICK v \in Tasks : /\ pc[v] = "save" /\ Current(snapshot[v])
                           /\ \A u \in Tasks : WritesFile(u) => u = v
    BY <1>1, <2>1 DEF IInv, OnDisk
  <2>3. v = t
    BY <1>1, <2>2
  <2>4. \A u \in Tasks : ~WritesFile(u)'
    BY <1>1, <2>2, <2>3 DEF WritesFile, TypeOK
  <2>5. Current(file)'
    BY <1>1, <2>2, <2>3 DEF Current
  <2> QED BY <2>4, <2>5
<1> QED BY <1>2, <1>3, <1>4, <1>5 DEF IInv

\* A logout forgets the session; the file is next.
LEMMA LogoutStep ==
    ASSUME IInv, NEW h \in Callers, Logout(h)
    PROVE  IInv'
<1>1. /\ TypeOK /\ h \in Tasks /\ h \notin Persisters /\ pc[h] = "idle"
      /\ jar' = EmptyJar /\ totp' = None /\ oauth' = None /\ device' = None
      /\ state' = "Configured" /\ loggedOut' = TRUE
      /\ heard' = FALSE
      /\ UNCHANGED <<tenant, api, versions, tunnel, file, client, snapshot, restarts, gone, lost>>
  BY AuthAssumption DEF IInv, Logout, Tasks, Hears
<1>2. /\ pc' \in TaskPcs
      /\ pc'[h] = "delete"
      /\ \A u \in Tasks : u # h => pc'[u] = pc[u] \/ pc'[u] = "persist"
  <2> DEFINE at == At(h, "delete")
  <2>1. at \in TaskPcs /\ at[h] = "delete" /\ \A u \in Tasks : u # h => at[u] = pc[u]
    BY <1>1, AtFacts DEF Pcs
  <2>2. pc' = at \/ pc' \in Spawned(at)
    BY DEF Logout
  <2> HIDE DEF at
  <2> QED BY <1>1, <2>1, <2>2, SpawnedFacts
<1>3. EmptyJar \in Jars
  BY AuthAssumption DEF EmptyJar, Jars, Maybe
<1>4. TypeOK'
  BY <1>1, <1>2, <1>3 DEF TypeOK, TaskPcs, States, Maybe
<1>5. TenantKnown'
  BY <1>1, <1>2 DEF IInv, TenantKnown, Tasks
<1>6. Forgotten'
  BY <1>1, <1>2 DEF IInv, Forgotten
<1>7. OnDisk'
  BY <1>1 DEF OnDisk
<1> QED BY <1>4, <1>5, <1>6, <1>7 DEF IInv

\* The deletion: a session that began meanwhile has a task that will save it.
LEMMA DeleteStep ==
    ASSUME IInv, NEW h \in Callers, delete_credentials(h)
    PROVE  IInv'
<1>1. /\ TypeOK /\ h \in Tasks /\ h \notin Persisters /\ pc[h] = "delete" /\ WritesFile(h)
      /\ UNCHANGED <<state, tenant, api, totp, oauth, device, jar, versions, tunnel, client,
                     snapshot, restarts, loggedOut, heard, lost>>
      /\ pc' = [pc EXCEPT ![h] = "idle"]
      /\ \/ file' = NoFile /\ gone' = (state # "Authenticated" /\ \A t \in Tasks : pc[t] # "save")
         \/ UNCHANGED <<file, gone>>
  BY AuthAssumption DEF IInv, delete_credentials, machine, WritesFile, At, Tasks
<1>2. TypeOK'
  BY <1>1 DEF TypeOK, Tasks, Pcs
<1>3. TenantKnown'
  BY <1>1 DEF IInv, TenantKnown, TypeOK, Tasks
<1>4. Forgotten'
  BY <1>1 DEF IInv, Forgotten, TypeOK
<1>5. OnDisk'
  <2>1. heard' => state' = "Authenticated"
    BY <1>1 DEF IInv, OnDisk
  <2> SUFFICES ASSUME heard, ~lost PROVE WillSave'
    BY <1>1, <2>1 DEF OnDisk
  <2>2. WillSave
    BY <1>1 DEF IInv, OnDisk, WritesFile
  <2> QED BY <1>1, <2>2 DEF WillSave, TypeOK, Tasks
<1> QED BY <1>2, <1>3, <1>4, <1>5 DEF IInv

\* A restart reads the session from the file, or none when that is gone.
LEMMA RestartStep ==
    ASSUME IInv, Restart
    PROVE  IInv'
<1>1. /\ TypeOK
      /\ restarts < MaxRestarts /\ restarts' = restarts + 1
      /\ tenant' = file.tenant /\ api' = file.api /\ totp' = file.totp /\ jar' = file.jar
      /\ oauth' = None /\ device' = None
      /\ state' = (IF file = NoFile THEN "Unconfigured" ELSE restore_session)
      /\ tunnel' \in {file.tenant, None}
      /\ pc' = [t \in Tasks |-> "idle"] /\ client' = [t \in Tasks |-> None]
      /\ snapshot' = [t \in Tasks |-> NoFile]
      /\ lost' = FALSE /\ heard' \in BOOLEAN /\ (heard' => state' = "Authenticated")
      /\ UNCHANGED <<versions, file, loggedOut, gone>>
  BY DEF IInv, Restart, Hears
<1>2. /\ file.tenant \in Maybe /\ file.totp \in Maybe /\ file.jar \in Jars
      /\ file.api \in {"Legacy", "V1"}
      /\ file # NoFile => file.tenant # None
  <2>1. CASE file = NoFile
    BY <2>1, AuthAssumption DEF NoFile, EmptyJar, Jars, Maybe
  <2>2. CASE file \in Credentials
    BY <2>2, AuthAssumption DEF Credentials, Maybe
  <2> QED BY <1>1, <2>1, <2>2 DEF TypeOK
<1>3. TypeOK'
  <2>1. restarts' \in 0 .. MaxRestarts
    BY <1>1, AuthAssumption DEF TypeOK
  <2>2. state' \in States
    BY <1>1 DEF restore_session, States
  <2>3. /\ pc' \in [Tasks -> Pcs] /\ \A p \in Persisters : pc'[p] \in {"idle", "persist", "save"}
        /\ client' \in [Tasks -> Maybe] /\ snapshot' \in [Tasks -> Credentials \cup {NoFile}]
    BY <1>1 DEF Pcs, Maybe, Tasks
  <2>4. {tenant', totp', oauth', device', tunnel'} \subseteq Maybe /\ jar' \in Jars
        /\ api' \in {"Legacy", "V1"}
    BY <1>1, <1>2 DEF Maybe
  <2>5. {loggedOut', gone', heard', lost'} \subseteq BOOLEAN /\ versions' \in 0 .. MaxVersions
        /\ file' \in Credentials \cup {NoFile}
    BY <1>1 DEF TypeOK
  <2> QED BY <2>1, <2>2, <2>3, <2>4, <2>5 DEF TypeOK
<1>4. \A t \in Tasks : pc'[t] = "idle"
  BY <1>1
<1>5. TenantKnown'
  BY <1>1, <1>2, <1>4 DEF TenantKnown, Tasks
<1>6. Forgotten'
  BY <1>1, <1>4 DEF IInv, Forgotten
<1>7. OnDisk'
  BY <1>1, <1>4 DEF OnDisk, Current, WritesFile
<1> QED BY <1>3, <1>5, <1>6, <1>7 DEF IInv

-----------------------------------------------------------------------------
(* The theorems *)

\* The first start has nothing to forget and nothing to save.
LEMMA InitInv == Init => IInv
<1> SUFFICES ASSUME Init PROVE IInv
  OBVIOUS
<1>1. TypeOK
  <2>1. NoFile.tenant = None /\ EmptyJar \in Jars /\ None \in Maybe
    BY AuthAssumption DEF NoFile, EmptyJar, Jars, Maybe
  <2>2. /\ pc \in [Tasks -> Pcs] /\ \A p \in Persisters : pc[p] \in {"idle", "persist", "save"}
        /\ client \in [Tasks -> Maybe] /\ snapshot \in [Tasks -> Credentials \cup {NoFile}]
    BY <2>1 DEF Init, Pcs, Tasks
  <2>3. versions \in 0 .. MaxVersions /\ restarts \in 0 .. MaxRestarts
    BY AuthAssumption DEF Init
  <2>4. {loggedOut, gone, heard, lost} \subseteq BOOLEAN
    BY Zenon DEF Init
  <2> QED BY <2>1, <2>2, <2>3, <2>4 DEF Init, TypeOK, States
<1>2. TenantKnown
  BY DEF Init, TenantKnown, Tasks
<1>3. Forgotten /\ OnDisk
  BY DEF Init, Forgotten, OnDisk
<1> QED BY <1>1, <1>2, <1>3 DEF IInv

\* Every step keeps the invariant.
LEMMA NextInv == IInv /\ [Next]_vars => IInv'
<1> SUFFICES ASSUME IInv, [Next]_vars PROVE IInv'
  OBVIOUS
<1>1. TypeOK /\ tenant \in Maybe /\ tunnel \in Maybe
  BY DEF IInv, TypeOK
<1>2. ASSUME NEW h \in Callers, Request(h) PROVE IInv'
  BY <1>2, ActivateStep, LoginStep, OauthStep, StartStep, PollStep, LogoutStep
  DEF Request, login, verify_login_code, verify_mfa, skip_pending_challenge
<1>3. ASSUME NEW h \in Callers, Handler(h) PROVE IInv'
  BY <1>3, RefreshStep, PollStep, DeviceStep, PostLoginStep, TotpStep, DeleteStep, GoneStep
  DEF Handler
<1>4. ASSUME NEW h \in Callers, DevicePollAnswer(h) PROVE IInv'
  BY <1>4, PollAnswerStep
<1>5. ASSUME NEW t \in Tasks, Saves(t) PROVE IInv'
  BY <1>5, PersistStep, SaveStep DEF Saves
<1>6. CASE Query
  BY <1>1, <1>6, CallStep
  DEF Query, request_login_code, request_mfa_code, list_third_party_providers,
      list_vpn_locations, CallTenant
<1>7. CASE TunnelCall
  BY <1>1, <1>7, CallStep DEF TunnelCall
<1>8. CASE Connect \/ mark_connected \/ Disconnect
  BY <1>8, TunnelStep
<1>9. CASE Restart
  BY <1>9, RestartStep
<1>10. CASE UNCHANGED vars
  <2>1. UNCHANGED <<state, tenant, api, totp, oauth, device, jar, versions, tunnel, file, pc,
                    client, snapshot, restarts, loggedOut, gone, heard, lost>>
    BY <1>10 DEF vars, machine, tasks, observers, marks
  <2>2. TypeOK' /\ TenantKnown'
    BY <2>1 DEF IInv, TypeOK, TenantKnown
  <2>3. heard' => state' = "Authenticated"
    BY <2>1 DEF IInv, OnDisk
  <2> QED BY <2>1, <2>2, <2>3, QuietStep DEF WillSave, WritesFile
<1> QED
  BY <1>2, <1>3, <1>4, <1>5, <1>6, <1>7, <1>8, <1>9, <1>10 DEF Next

\* What the machine, the jar, the file and the tasks of the daemon may be, for
\* any number of requests, tasks and tenants.
THEOREM TypeCorrect == Spec => []TypeOK
<1>1. IInv => TypeOK
  BY DEF IInv
<1> QED BY <1>1, InitInv, NextInv, PTL DEF Spec

\* Logout (service/auth.rs): a file deleted with no save past its check stays
\* gone until the next login, for any number of requests, dropped handlers,
\* listener tasks and restarts.
THEOREM LogoutIsForGood == Spec => []LogoutForgets
BY InitInv, NextInv, IInvImplies, PTL DEF Spec

\* install_cookie_persist_listener: what the jar absorbs in a session reaches
\* the disk although clients go away, unless the last save fails or overlaps.
THEOREM SessionIsOnDisk == Spec => []DiskIsCurrent
BY InitInv, NextInv, IInvImplies, PTL DEF Spec

=============================================================================
