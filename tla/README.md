# TLA+ verification of dagger-kubernetes

The supervisor (`src/cmd/api`) runs as a few replicas of one Go process. It
provisions Dagger engines as Kubernetes StatefulSets, tunnels clients to them,
ingests their telemetry, and keeps users, groups, tokens and trace metadata in a
table replicated with hashicorp/raft. This directory holds TLA+ models of its
core, the TLC configurations that check them, and TLAPS proofs. Paths below are
relative to the repository (`src/`).

## Inventory

| component | state | operations | talks to |
|---|---|---|---|
| metadata state machine (`internal/repository/fsm.go`, `fsm_snapshot.go`) | rows of users, groups, memberships, projects, tokens, traces, meta; reverse indices | one command kind per operation, snapshot, restore | every repository writes it through Raft; every service reads its local copy |
| Raft store (`raft_store.go`, `raft_*`) | log, commit and applied index, membership | apply with error mapping, clean-state barrier, join, reconcile, leave | all of the above |
| start-up (`cmd/api/main.go`) | stage of the start, secrets, password file | barrier, create or await secrets, default group, bootstrap admin | Raft store, user service |
| session leases (`service/session.go`, `session_repo.go`) | pod-local table keyed by certificate, with in-flight counts | register, touch, count, remove, reap | fleet, lifecycle, quota; register and touch replicated by the log, counts local |
| pipeline lifecycle (`service/pipeline_lifecycle.go`) | pending close timers with generations | tunnel opened, tunnel closed, timer, stale sweep | data tunnel in `handler/server.go`, leases, trace rows |
| engine fleet (`service/fleet.go`, `k8s_provider.go`) | StatefulSets, Services, pods, idle stamps | acquire, scale up, sweep, scale down, collect a version | Kubernetes API, leases, the provision handler |
| accounts and sessions (`user_service.go`, `auth_service.go`, `jwt_service.go`, `oauth*.go`) | user record with its token version, JWTs in the field | login, refresh, logout, password change, reset, role, OAuth login, revalidation | state machine |
| groups and projects (`group_service.go`, `project_service.go`, `attribution_service.go`) | rows of the state machine | membership edits, reconciliation at login, default group, find or create a project, assign it, attribute a trace | state machine, OAuth login, start-up, OTLP ingest |
| quota, tokens | rows of the state machine | admission, issue and revoke | state machine, leases |
| forwarding and relay (`leader_forward.go`, `data_relay.go`) | none of their own | forward a write or a tunnel to the leader | Raft store |
| history, engine cache, image cache, CLI distribution | mutex-guarded job state, single-flight maps | purge, garbage collection, shared download | telemetry stores, registry, S3 |
| live hub, CI step stream | client queues, cursor over a growing trace | subscribe, broadcast, advance | ingest, trace store |
| telemetry, metrics, status, configuration, UI, Helm chart | — | parsing, queries, rendering | external services |

What is hard in it: no lock is held across Kubernetes calls and several pods
sweep the same objects; the user record is read, changed and written back whole;
timers are stopped too late and fire anyway; leadership moves while a pod acts on
what it knew as leader; an apply can fail towards its caller and still commit; a
restart loses counts that only memory held. `PROJECT.json` lists each hazard at
its line with the properties that would catch it.

What makes each part correct: indices are the inverse of the rows and survive a
snapshot, deletes cascade, a finished trace stays finished (state machine); a
disconnected pipeline is failed, an active one is not (lifecycle); no engine in
use, as far as the sweeping pod knows, is collected, no limit exceeded, a quiet
version is collected (fleet); a
revoked session comes back only when a stale copy of the record is written over
it, a removed member loses access in bounded time where the provider is asked
(accounts); the pods agree on the secrets, the first admin is recoverable,
everybody comes up (start-up); the voters follow the StatefulSet (Raft store); a
quota is exceeded only by what the code cannot see, a registered lease can be
used from any pod (admission); old history goes and running traces stay
(history); an idle volume is reclaimed or reported (engine cache); one download
per pod and never a damaged one (CLI); a login leaves its user in the groups the
rules give, and a repository's traces in the group its rule names (groups and
projects); what is reported as pruned is gone (image cache); no event is lost
for good and no stream is left behind (live hub); the stages a CI job prints nest,
close and repeat no line (CI step stream).

## Modules

| module | models | size of a step |
|---|---|---|
| `MetaFSM` | every command of the state machine, the snapshot and restore | one applied command |
| `TraceStatus` | the rules for the status of a trace, abstractly; `MetaFSM` implements it | one change of a status |
| `PipelineLifecycle` | tunnel, lease counts, grace timers, stale sweep | a lock region, a channel operation or an apply |
| `EngineFleet` | acquire and sweep of one engine version against the StatefulSet controller | one API call or one read of the pod's lease store |
| `Admission` | forwarding, quota, registration and replication of leases, the relayed tunnel | a check, an apply, a log entry |
| `SessionRevocation` | the writers and readers of one user record | one read, one replicated write, one mint |
| `Revalidation` | the OAuth revalidator of one user with its shared cache entry | a pass through the cache lock, one IdP call, the writes after it |
| `SupervisorBoot` | start-up of the pods over a replicated log | one Raft call or file operation |
| `RaftMembership` | bootstrap, join loop and reconciliation of the voters | one configuration change |
| `HistoryRetention` | purges and the retention sweeper of every pod | one store call, read or apply |
| `CachePurge` | the purge of a version's engine caches and volumes | one API call, prune or controller step |
| `CLICache` | release list and artifact fetch over a shared bucket | a critical section or one remote call |
| `ImageCache` | pruning a registry mirror with a worker pool | one registry call |
| `LiveStream` | the hub, its clients' queues and pumps, broadcasts, and when the two UI pages fetch | a lock region, a channel operation, a write or a fetch |
| `GroupService` | membership edits of logins, administrators and the first start | one read of the members or one command |
| `Attribution` | the project and the group of an ingested trace | one read or one command |
| `StepStream` | the CI wrapper's polls of a growing trace and the events it prints | one call to the supervisor with the events that follow it |
| `Absent` | the value `Nil` of what is not there | |

`MC<module>` gives the constants of a module their TLC values;
`<module>_proofs` holds its theorems; `Access_proofs` those of `Admission`,
`GroupService`, `Attribution` and `Revalidation`, `Stores_proofs` those of
`HistoryRetention`, `CachePurge`, `CLICache` and `ImageCache`, and
`SupervisorBoot_proofs` also those of `RaftMembership`, `LiveStream_proofs` also those of
`StepStream`. `MCServices` is the disjoint sum of
thirteen modules that share no variables: the initial state says which one runs, and the
others rest, so one run explores each of them on its own. A definition marked
*mutant* (`ReindexKeepsOld`, `AtCapacityOffByOne`, ...) is an operation with a
plausible mistake; it is used by no specification, only to confirm that a
property notices the mistake.

**MetaFSM.** Variables are the maps of `fsmState`, rows are records with the
fields that some command or property reads; a missing key is `Nil`. An action is
one branch of `applyEntityCommand` or `applyTraceCacheCommand` together with the
whole function it calls, error returns being guards (a refused command changes
nothing). Names are compared through the constant `Lower`, so case-insensitive
uniqueness is present. The `order` in which `Restore` meets rows is arbitrary, as
Go map iteration is: `RestoredIndex` is the set of indices that any order gives.

**PipelineLifecycle.** `lease[p]` is the table of pod `p`; `tunnel[n]` is the
goroutine of connection `n` in `serveDataTunnel`, from `Get` over `IncInFlight`
and `OnTunnelOpen` to the deferred decrement and `OnTunnelClosed`. A timer is
`armed`, then `dispatched` (its callback runs and a `Stop` no longer helps), then
`firing` (past the generation check, lock released, about to write). The stale
sweep lists the running traces, reads the lease table, and marks one trace at a
time. Restart drops a pod's memory; a change of leader moves the right to write.
A registration ends in one of four ways (`issued`): applied everywhere
(`Provision`), refused by a pod that does not lead and kept in its own store
(`ProvisionElsewhere`), or reported as failed and kept locally while the command
is lost or still in the log (`ProvisionFails`). In the last case `CommitLate`
replaces the lease on every pod by one that counts no tunnel; the history variable
`zeroed` remembers where tunnels were counted then.

**EngineFleet.** `sts`, `svc`, `pods` are the Kubernetes objects, `req[r]` a
provision request inside `Acquire` and `handleEngines` on the supervisor
`served[r]`, `pin[r]` the ordinal its lease names, `sweep[s]` the sweep of one
supervisor. Every supervisor has a lease store of its own: `rows[p]` are the
leases in it, `lag[p]` those committed that it has still to apply. A lease is kept
locally or committed late when its registration fails (`Register`), reaped by each
pod for itself (`Reap`), and lost with a restart from a snapshot (`Restart`). What a goroutine read earlier (the listed
pods, the leases, a chosen ordinal) is kept in its own record, so it may be stale
when used. The version is new at first, or left at its ceiling by an earlier run.
Time is represented by two events: a pod becomes old, and the
retention period of an idle stamp elapses.

**SessionRevocation.** A request reads the record, keeps a copy, and replicates
the changed copy; sessions are minted from the copy. The history variable
`bumps` counts completed revocations and a session remembers the count and the
password of its mint. Any number of requests overlap, as the code has no lock and
no compare-and-set around them. `Stale(h)` says that the copy request `h` holds has
been overtaken (the record has another version or password by now), and `intact` of
a session or a copy that no such copy has been written since it was read.

**SupervisorBoot.** `log` is the committed log; a pod has a commit index, a state
machine that has applied a prefix, a stage in `run`, its secret and its password
file. `Committed` resolves an outstanding apply; `Deposed` reports it as
not-leader after a change of leader, whether or not the entry is in the log. The
clean-state predicate compares the two indices as `IsCleanState` does, which a
restarted leader satisfies with both at 0.

**TraceStatus.** A trace is absent, running, `success` or `failed` by its own
telemetry, or `lost` by the supervisor's guess. `MetaFSM` maps a row to these
through `Verdict` (status and failure reason) and states the refinement as
`StatusFollowsRules == Row!Spec`.

**Admission.** `leases` are all sessions so far, `known[p]` the session store of
pod `p`, `sessionLog` the committed registrations, of which `p` has applied
`sessionsAt[p]`. A request that a pod forwards is served by the pod it believes
to lead, whether or not that pod still does; the quota is checked, the engine
acquired and the lease registered on that pod's copy. A registration whose apply
fails stays on that pod only, as `handleEngines` falls back to its local store.
Restoring a snapshot moves `sessionsAt` without adding leases; `skipped`
remembers them.

**Revalidation.** `entry` is the cache entry with its state, time of check, last
good time and in-flight mark; `check[r]` is a request in `Check`, with the user
it read. `ledSince` is when the pod took over, `Nil` on a follower, and changes at
any moment (`RoleChanges`): between a check's look at its role (`LookBeforeCall`)
and the rotation of the credential (`SaveRotated`, `RotationLost`) or the recording
of the result. `Outcomes` are the ends of the providers' calls; `Record` is
`refresh` with its writes and `finish`. Writes of a pod that does not lead are not
applied.

**RaftMembership.** `voters` is the latest configuration, `byIP` the voters
recorded with the IP of a plaintext bootstrap, `moved` whether that pod has another
IP by now (a reconciliation that cannot resolve a name takes the address as
changed either way), `recon` the calls a reconciliation has left. `Change` is a membership
call: it takes effect when the leader appends it, commits if a majority of the
new configuration can be dialled, and may survive or be overruled otherwise.

**HistoryRetention.** `row` is the replicated row (status and whether it is past
`max_age`), `telemetry` what the external stores hold, `job[p]` the purge that
has `purgeMu` on pod `p`. `view[p]` are the rows as `p` has applied them: a batch or
a delete reaches the leader at once and another pod at its next `Replay`. Each pod
sweeps its own view; only the deletes of the pod that leads at that moment are
applied, and `LeaderMoves` may come between its list and its deletes. `steady` is
history: the purge listed on the leader, from rows that were all applied, and
leadership has not moved since.

**CachePurge.** `fleet`, `want`, `pod`, `pvc` are the objects of a version,
`purge` the purge under way and `result` its recorded status. The controller and
the fleet manager change the objects between any two calls of the purge.

**CLICache.** `call[r]` is the goroutine of a request; `fetching[p][v]` and
`listing[p]` are the two single-flight maps, `object` the bucket. A body is good
or damaged; a version is a number in the order of `Version.Compare`.

**ImageCache.** `tagged` is the mirror, `refs` the outcome slots the workers
fill. Deleting a digest removes every tag that points to it.

**LiveStream.** `queued` is the fill of a client's channel, `pump` its write
pump, `handler` the request that opened it, `ingest[i]` a batch's broadcasts with
the clients it still has to offer the event to while it holds the read lock. A page
fetches (`OpenPage`) before it opens its stream (`Subscribe`), fetches again when an
event's timer fires (`PageRefetch`), and polls while it shows something running
(`Poll`). `stored` is what was ingested of a topic, `seen` how much of it the page
shows, `asked` how much there was when it last began to fetch: a fetch may fail, or
be answered from an index or by a follower that lags behind. `due` is how much there
was when the last event was offered to its stream.

**GroupService.** `groupName` and `grpMembers` are the rows, `managed[u]` the
`OAuthGroupIDs` of a user; `grpCall[r]` is a login, a `SetUserGroups` or the first
start's sweep, with the members it read and not yet wrote back. An administrator's
edit is one command. Two history variables: `mapped[u]`, the groups a login put
the user in, and `disturbed`, the requests beside which anything else happened.
Names are what `group_mappings` yields; the patterns themselves are left out.

**Attribution.** `project` and `traceRow` are the rows, `attrCall[c]` a batch in
`Ingest` or an administrator in `Assign`. `RuleFor` and `MatchedBy` stand for the
patterns of `project_mappings` and of the groups.

**StepStream.** `tempo` and `loki` are what the supervisor has indexed of the
pipeline `shape`, `builder` the `StepEventBuilder`, `stream` the events printed so
far. Spans are numbered by start time. Each poll sees more of the spans and lines
than the last one, in any order; a poll is two calls, and the command may exit, or
a call fail, between them. `FlattenTrace` and `EmitTree` are recursive functions
over the spans, `BuilderAdvance` and `BuilderFinalize` the two operations of the
builder.

## Runs

| run | shows |
|---|---|
| `meta` | two users, groups and tokens, a project, a trace and a meta key, with names that differ in case: indices, memberships, snapshot, attribution, and the refinement of `TraceStatus` |
| `life_grace` | two pods, two connections of one lease, grace timers, and a restart, a change of leader or a failed registration: counts are exact but for a lease replaced by a late commit, one live timer per trace, a firing timer is the latest, every disconnect is acted on |
| `life_takeover` | two pods, no grace, the same faults: the sweep spares the tunnels its own pod counts, orphaned traces are still resolved |
| `life_failover` | *violation*: a new leader's sweep fails a trace that is active on the old leader |
| `fleet_collect` | two supervisors with their own lease stores, one request, one replica, one fault: the ceiling holds, no sweep collects a version under a lease that its own store has held since the pass began, a quiet version is collected |
| `fleet_scaledown` | *violation*: with two replicas the pinned pod is removed instead of the idle one |
| `services_safety` | thirteen components, one at a time, with their faults; see below |
| `services_liveness` | ten of them under fairness; see below |
| `revoke_overlap` | *violation*: a concurrent writer restores the old token version, or two revocations count as one |
| `boot_secret` | *violation*: a leader behind its log creates a second secret |
| `groups_stale` | *violation*, one call at a time: after an administrator deletes a group that a login managed, the next login leaves the user in another group that no longer maps |
| `reval_outage` | *violation*: a transport error of GitHub's first call deactivates the user |

| component | what never happens (`services_safety`) | what must happen (`services_liveness`) |
|---|---|---|
| CLI | a pod uploads a version twice without a failed download (`CliFetchedOnce`); success for a tarball that is not verified (`CliServesVerified`) | every request is answered (`RequestsAnswered`) |
| history | a sweep removes a running trace without a change of leader since it listed, or a list the leader made before it had applied the log (`HistGcSparesRunning`) | a finished, old trace is removed (`HistPurged`) |
| engine cache | a completed purge leaves an idle claim unreported (`PurgeReclaims`) | every purge ends and clears its flag (`RequestsAnswered`) |
| live hub | a send on a closed channel (`LiveNoSendOnClosed`) | a connected page begins a fetch after every batch announced to its stream (`LiveSignalled`), a lost one is released (`LiveReleased`) |
| revalidation | a removed member served by a pod that asks the provider beyond the interval and the grace, counted from the removal or the pod's taking over (`RevStalenessBounded`) | every request is answered (`RequestsAnswered`) |
| admission | more live sessions than the quota, the requests under way and the unseen leases explain (`AdmQuotaBounded`) | a registered lease is served from whatever pod its tunnel lands on (`AdmTunnelServed`) |
| image cache | an image reported as pruned and still there (`ImgReportTrue`) | every prune is answered (`RequestsAnswered`) |
| membership | (types only) | the voters become the pods of the StatefulSet (`VotersConverge`) |
| start-up | a secret outside the log (`SecretReplicated`), a wrong or missing password file (`RecoveryFileExact`) | every pod comes up once leadership settles (`PodsComeUp`) |
| sessions | a revoked session accepted (`RevivedOnlyByStaleWrite`), or one under another password (`OldPasswordOnlyByStaleWrite`), when no stale copy of the record was written since that session's copy was read | |
| groups | an undisturbed login that leaves the user in other groups than the rules give, or records others than the mapped ones, whatever happened before (`LoginReconciles`) | |
| attribution | a trace or a project of a repository in another group than its rule or pattern gives, while nobody edits (`AttrAgrees`) | |
| CI step stream | a stage opened or closed out of order with the parent its opening named, or twice; a line printed twice; a line of a stage that one poll closes printed after it was closed; a stage left open at the end (`StepsRenderable`) | once the command has ended, the wrapper ends with a closed stream (`RequestsAnswered`) |

`ServicesTypeOK` joins the type invariants, which hold the queue, pool and index
limits. A violation run states what a comment or a document of the repository
says; the quotation is in `PROJECT.json` under `findings`.

### Behaviours a reader of the documents might not expect

They are reachable in the models, or were met while writing them, and have no
run of their own.

- `fireGrace` releases its lock (`pipeline_lifecycle.go:127`) before it marks the
  trace failed; a tunnel that opens in between is failed although line 117 says
  "an actively-reopened trace must never be failed by a stale close timer".
- A second provision of a trace replaces its recorded version
  (`UpsertTraceProvision`).
- A lease's registration that failed may still be committed (`raft_store.go:713`,
  `server.go:866-871`): `ApplySessionRegistered` (`session.go:30-35`) then replaces
  the lease, with a count of 0, under a tunnel that is counted. From then on the
  sweep does not see that tunnel, and the next close looks like the last
  (`CommitLate`, `zeroed`).
- A version scaled up while it is being collected is deleted with its pod
  (`DeleteStatefulSet` is unconditional); two overlapping requests take the last
  place of a replica (`AcquireReuse` before `Register`).
- A pod sweeps by its own lease store. One that has not applied a lease, was
  restored from a snapshot, or does not know a lease another pod kept locally,
  scales the version down or collects it under that lease, while
  `deploy/helm/dagger-kubernetes/README.md:740` and `docs/README.md:460` say "zero
  replicas and no pinned sessions" and ADR-004 (line 21) that only idle replicas go.
  `GcSparesHeld` and `SweepSparesPinned` count the leases of the sweeping pod only.
- ADR-045 promises that "a new password is never stored while old tokens would stay
  valid". Two resets that both read version `v` both store `v + 1`, and a session
  minted under the first of the two passwords is accepted under the second
  (`OldPasswordOnlyByStaleWrite` excepts it, as the copy that was written is stale).
- RunGC and PurgeAll say "protecting running traces". A pod that listed a trace as
  finished and becomes leader, or the leader that listed before it had applied the
  log, deletes the trace although it was deleted and created again meanwhile and is
  running (`HistGcSparesRunning` excepts it).
- `docs/README.md:1301` says that `revalidate_interval` "bounds how long a removed
  member keeps access". For OIDC a follower asks nobody: it serves the replicated
  groups, dated with the time it reads them, as long as the leader does not
  revalidate the user; and a pod that takes over starts the bound anew with the date
  it wrote as a follower. `RevStalenessBounded` is about pods that ask.
- A page fetches before it opens its stream (`pipelines/index.vue:103` and `:124`,
  `[id].vue:238` and `:259`), and an `EventSource` that reconnects fetches nothing:
  a batch in between is signalled to nobody. The list is then polled only while it
  shows a running row, although ADR-044 (pipelines overview, line 100) promises that the list shows new
  pipelines without a reload. An event may also lead to a fetch that is answered by
  an index or a follower that lags (`leader_forward.go:31-41`), and no other event
  follows it.
- An admin whose creation was reported as not-leader may still be committed after
  its password file was removed (`Deposed`, `RemoveFile`).
- A lease registered on a pod that no longer leads is known to that pod only, and
  the client is answered 201; a lease older than the snapshot a pod restores is
  unknown to it. `AdmTunnelServed` names the second case, its antecedent
  (the lease is in the log) the first.
- A download answered from the bucket, or by a waiter, carries no digest
  (`CLICache`, `sha`).
- The claim of a pod that starts after the purge listed the pods is deleted under
  it; Kubernetes keeps it until the pod is gone (`CachePurge`, `"deleting"`).
- A purge of a trace and late telemetry of it leave a fresh row: nothing records
  that a trace was purged.
- The stream handler returns when its request ends without waiting for the pump
  (`handler = "gone"` while `pump = "writing"`); a client stays with the hub of
  the pod it subscribed to after leadership moves, whose stream stays open and
  silent while the new leader ingests (`LiveStream` models one hub).
- A revalidation saves the user it read before its IdP call and can undo a login
  made meanwhile; a follower revalidates from the replicated groups only.
- `LeaveCluster` never removes its own pod: its `RemoveServer` is called after
  leadership was handed over. The leader of the remaining pods removes it later.
- Over plaintext a leader that readdresses itself removes itself first and its
  Raft node stops; a scale-down that stops a majority of the voters at once
  strands the rest. `Converged` lists both and no other.
- The leader's data-plane accept loop performs the TLS handshake itself.
- Two concurrent membership edits lose one of them: the members are read and
  replaced as a whole (`MemberIDsWithout`, `WriteMembers`).
- A batch that found its project without a group assigns one over an
  administrator's choice made meanwhile, and `Assign` may write a group that was
  deleted after `requireGroup` (`AssignUpdate`).
- Of two pruned tags that share a digest the second is answered 404 and reported
  as an error: `DeleteManifest` (`registry_client.go:539`) maps 404 to
  `ErrRegistryUnreachable`, while `image_cache.go:327` says "A manifest already
  absent counts as already pruned (idempotent), not an error."
- The supervisor's log handler ignores the `start` and `limit` of a request and
  answers the oldest 1000 lines of the last day (`handler/logs.go:13-16`): later
  lines never reach the CI stream, although `supervisor_client.go:59-62` passes
  the watermark as the bound (`LogAnswers`).
- `pipeline_done` carries the status of the span that was the root when a poll
  first saw it ended: a span indexed before its parent ends the pipeline early
  (`PickRoot`, `TerminalStatus`). Discovery takes the newest trace of
  `ListTraces(1)`, which may be another run's.
- ADR-024 (lines 53-57) and `ci_steps.go:44-49` promise a node's logs before its
  `node_finished`, and `ci_steps.go:345-346` and `:373-374` that `Finalize` closes
  children before their parents. Neither holds when telemetry is indexed late.
  Lines and children indexed late are printed after their node's `node_finished`
  (such a line is `late` in the model), and a child indexed before its parent is
  opened in the root and closed without regard to that parent (`StepsRenderable`
  compares with the parent its opening named);
  lines of a span two levels below the depth limit are printed in the root; a
  late line equal to one printed at an earlier timestamp is dropped, because the
  remembered lines carry no timestamp (`AdvanceWatermark`).
- A cached leaf certificate is reused without checking that the present CA signed
  it (`ca_providers.go:96-99`). A crash between writing `node.crt` and `node.key`
  over an old pair leaves two files that do not match and are refused at every
  start, while `raft_tls.go:307-309` says the operator never has to delete the
  pod's volume.

### Bounds

State machine: two of each kind suffice for a collision, a rename onto a freed
name and a membership in two groups. The constraint `OneSide` explores accounts
with tokens and OAuth identities on one side, and projects, traces and meta rows
on the other; no command but a user's deletion touches both, and its cascades
are independent. Lifecycle: two connections give a close whose timer is
overtaken by an open and a second close; generations are bounded by the number
of connections because only a close draws one; two pods and one fault give a
restart, a change of leader, or a registration that fails with or without a change
of leader and is committed later. Fleet: one request against two sweeps on two
stores, with one fault and one replica, for the properties that hold (the proofs
cover any number of each; that the request reaches the first pod, `Entry`, only
fixes names); two replicas in `fleet_scaledown`, so that a scale-down has a pod to
choose.
Revocation: two handlers and `MaxBumps = 2`, so that a restored version can
coincide with an issued one; two sessions, one from before a revocation and one from
between two. Start-up: two pods and two faults; `Values` is large
enough for every pod to generate a fresh secret and password for each attempt.
CLI: two pods that share the bucket and two requests, an owner and a waiter or
one on each pod; one failed download. History: two pods that sweep one trace, one
fault, one change of leader, and two batches, so that a row can be listed as finished,
purged, and created again as running.
Engine cache: two ordinals, so that one claim fails and another remains. Live:
a channel of one, which is full with the first event, two batches per topic and two
concurrent broadcasts. Revalidation: two requests, an interval and a grace of one tick and a
clock long enough for both to pass after the user was removed. Admission: two
pods, two concurrent requests, a quota of one and one election or restart.
Images: two tags that may share one of two digests, two workers, one pull.
Groups: two users, three names of which one is refused, two calls that may overlap
and one refused write; `groups_stale` four calls one after the other. Attribution:
one repository with a rule and one matched by patterns, two traces, two batches at
a time, one edit or refused write. Membership: sizes one to three, two faults,
rescaling in both directions. Step stream: three spans in a chain, the middle one
internal to the engine or not, a depth limit of one, two lines of one timestamp,
so that one is indexed after the other was printed, and two polls before the last.
The liveness run uses the same instances with one fault, batch, poll or change of
the IdP less where the graph would be too large, one broadcast at a time with fetches
that answer what is stored, and two spans with one line. Runs
with symmetry check no liveness.

### Fairness

Weak fairness of a step that only the process itself has to take: goroutines run,
calls to external services end by their time-outs, tickers fire, Raft replicates,
the kubelet and the StatefulSet controller reconcile. Strong fairness in two
places: the history sweeper waits for a Go mutex, which does not starve a waiter,
and a waiting revalidation request finds the entry free again and again. Nothing
is assumed of clients: they need not disconnect, retry or send telemetry, but for
`AdmTunnelServed`, where the CLI dials until it is served (its gRPC reconnect).
Faults are bounded, which states that they cease. Deadlock is not checked where
the model may rest (all connections served, all faults spent).

## Proofs

`MetaFSM_proofs` proves, for all sets of ids, names, hashes and traces, the type
invariant, the index, membership and reason invariants, the snapshot round trip,
the action properties, and that the state machine implements `TraceStatus`
(`ImplementsTraceStatus`): the initial table maps to all-absent, `ProvisionVerdict`,
`IngestVerdict` and `MarkFailedVerdict` give the verdict after each writer of a
row, every other command leaves it, and each is then an abstract step or a
stutter. The inductive invariant `IInv` joins the types with the three index
families: an index step needs the row types, and the token index needs the
cascade of a deleted user. The snapshot theorem rests on the indices being
inverses, since only then does every order of insertion give one result. The
refinement needs `ReasonInv`, which is proved and not among the run's invariants:
without it a batch could turn a leftover reason on a row that is not failed into
a `lost` verdict. That deletes cascade (`DeletesCascade`) is proved only, too.

`SessionRevocation_proofs` proves, for any number of overlapping requests, the types
and what stands of the two promises `revoke_overlap` refutes: a revoked session is
accepted again (`RevivalNeedsStaleWrite`), or one minted under another password is
accepted (`OldPasswordNeedsStaleWrite`), only after a stale copy was written over the
record. `IInv` says of the sessions and copies that are `intact` what would hold of all
if `Get` and `Update` were one step: none is ahead of the record, at the same version
the password is the same, and a session that a revocation followed has a smaller
version than the record (`CopyInv`, `JwtInv`). A write
that is not stale keeps this, as it adds one to the version the record has; a stale one
ends it for all that was read before, and only for that.

`EngineFleet_proofs` proves the type invariant, which holds the replica ceiling, and
`GcSparesHeld`, for any number of requests, supervisors and replicas. `IInv` adds that
only a registered request is in a store, a lag or the log and that its pin does not
change (`Unregistered`, `Stored`), that what a pass remembers of its store's leases is
still in that store (`HeldKept`), and that a sweep past its retention check remembers
none (`CollectingUnheld`): the check and the deletes are separate calls, and what keeps
them consistent is that a lease that leaves a store during the pass is no longer
counted as held. Leases the sweeping pod's store lacks, or that come into it after the
pass began, are not covered; see the behaviours above.
Of scaling down, which `fleet_scaledown` shows can take a pinned replica, it proves
what does hold: a pass that has decided to scale down has seen a replica that none
of the leases held since it began is pinned to (`ScaleDownHasSpare`; a lease is
never pinned anew after a pass has seen it), only not necessarily the replica that
goes; so that with a ceiling of one replica no lease loses its own
(`SingleReplicaSpared`).

`PipelineLifecycle_proofs` proves `InFlightExact`, `PendingArmed` and
`FiringIsLatest` for any number of pods, certificates, traces and connections.
The count needs `Registered`: every connection past its lookup names a certificate
whose lease was registered, so that the first registration of a certificate, which
starts its row at 0, meets no connection that is counted. A second one, the late commit
of a registration that was reported as failed, does meet them, and is the exception
(`zeroed`), where the count stays below. A row that was reaped under a connection is not
recreated by a touch, and a restart ends the pod's connections before its log is
replayed. The timers need `Newest`: generations in
the field were handed out, and the pending one is the greatest of its trace. A
second invariant on top (`BoundInv`) gives the type invariant and
`SweepSparesLocal`. A generation is handed out by a tunnel that is done with it,
so there are never more than tunnels of the pod that are done (`GenBound`); and a
tunnel that was up when a sweep began is up or on its way out ever after, so that
once the sweep has read the leases none of the traces it has left to mark has a
tunnel of the sweeping pod with a lease (`SweepInv`), the `zeroed` ones aside.

A third invariant (`TimersFollowClose`) follows a grace timer from the closed
tunnel that armed it to the mark it makes: whatever restarts and changes of leader
come between, a timer has a tunnel of its trace that closed on its own pod, and a
sweep's worklist is of old traces. It gives `FailureJustified`: the supervisor
fails a running trace only because a tunnel of it has closed on the pod that leads,
or because it is old and the sweep is enabled. `SweepVictims` says who is harmed in the
`life_takeover` run: a trace marked by the sweep although tunnels serve it is served
by pods that do not lead, or has lost its count to a late commit. As tunnels and counts are on the leader until
the first fault (`Unmoved`), the sweep fails no served trace before one
(`SweepSparesUntilFault`). `LifecycleImplementsTraceStatus` shows that the row's
steps are those `TraceStatus` allows: one row at a time, begun from absent, never
running again after a verdict.

`LiveStream_proofs` proves `LiveNoSendOnClosed` for any number of clients and
broadcasts. A closed channel belongs to a client that left the hub (`ClosedGone`),
members have open channels (`MembersOpen`), and whom a broadcast still has to
offer the event to is a member (`SendingToMembers`): leaving needs the write
lock, which no broadcast under its read lock grants. The types, with the capacity
of a channel, need that only subscribed clients have a pump (`PumpsFollow`). That
dropping events loses no announcement is `SignalsKept`: a page that has begun no fetch
since an event was meant for it has one due, or an event that is queued or being
written; a channel that is full holds one (`LiveAssumption`: its size is not zero).

The module also proves what of `StepStream` does not depend on the walk over the
span tree, for any pipeline, log and number of polls. `StageInv` ties the
builder's record of each node to the span as it was last answered. From it: a stage that
was closed has the outcome of its span's finish record, or the command's status
and then the final flush closed it (`StagesTellTheTruth`); at the end none is open
(`StagesAllClosed`); a closed stage keeps its status and an opened one stays known
(`StagesOnlyMoveOn`). For the lines, the watermark is at or past every line of an
answer and never goes back, so that no line of an answer is fresh again after the
poll that printed from it (`LinesPrintedOnce`); that the newest line of an answer
exists is a descent on the size of a finite set, by the least counterexample.

`Stores_proofs`, for any number of pods, traces, volumes, versions, requests and
tags:

- `HistGcSparesRunning`. The candidates are listed once and deleted later. What a
  `steady` loop has left stays finished (`LoopFinished`), because only the leader's
  deletes are applied, `purgeMu` keeps its other purges out and no batch takes a final
  status back; a change of leader ends `steady` for all.
- `PurgeReclaims`. An ordinal without a pod since the purge began was not among the
  pods it listed (`Unlisted`), and once the claims are listed its claim is still to
  be deleted, failed or gone (`Accounted`).
- `CliFetchedOnce` and `CliServesVerified`. The flight table names the owner of
  every fetch and nobody else (`FlightOwned`), a waiter's owner was after the same
  version (`WaiterMatches`), and an owner that has not uploaded yet is its pod's
  first or makes up for a download that failed (`UploadDue`). That the best version
  is one of those allowed needs that a finite set of numbers has a maximum.
- `ImgReportTrue`. It needs `ResolvedStands`: between resolving a tag and deleting
  its digest the tag still has that digest, or is gone, or was pulled again. The
  types say that no more than `Workers` references are between their two calls.

`SupervisorBoot_proofs` proves the types and `SecretReplicated` for any number of
pods and faults. It needs `SetIsSecret`, that the entry a pod waits for in the
stage that sets the secret is a secret entry; the log only grows, and what `Get`
finds is in it. `RecoveryFileExact` follows a pod's file through its stages
(`PodOK`): a pod has a file only from the write on, the entry it waits for carries
the password in it, and the first admin entry of the log is the file of a pod that
is up. Of `RaftMembership` it proves the types, that whoever leads is a running
voter and reconciles alone (`ReconcilerLeads`; a leader may take itself out of the
configuration half-way, and its reconciliation ends there), and that any majority
of the voters before a step meets any majority after it, while the last voter is
never taken (`ChangesAreSafe`): each step changes one voter at most, whoever's
reconciliation it belongs to and however old its plan is. Two action properties
say what the log never loses. The admin is the first admin entry and stays it under
all faults (`AdminNeverReplaced`). The secret is the last secret entry, and the
`boot_secret` run shows that a fault can replace it; until the first fault it is never
replaced (`SecretStandsUntilFault`), because only the leader writes and it does not
once there is a secret (`Steady`).

`Access_proofs`, for any number of pods, users, groups, repositories and
concurrent requests:

- `AdmQuotaBounded`. The inductive form (`QuotaHeld`) counts, beside the sessions
  every admission saw, the requests that were let through and have not registered:
  together they are at most the quota plus the number of slots less one. A request
  that passes the check has counted the sessions it knows, and those it does not
  know are in `unseen` from then on. Losing copies, by a restored snapshot or a
  change of leader, only enlarges `unseen`.
- `LoginReconciles`. A request marked undisturbed runs alone (`Alone`), and
  `LoginsTracked` says stage by stage what its copies and the stored memberships
  are: before the edits the user's groups are the ones at the start; while the
  groups are walked, the part already walked is reconciled and the rest is not;
  then the default group is joined if none is left, and last the record with its
  list of managed groups is written.
  The stages are told apart by guards that hold only of states the invariant
  admits: who joins the default group is a login, and a name that is looked up
  again is a valid one.
- `AttrAgrees`. While nobody edits, a batch that lost the race to create finds the
  winner's project, and one that assigns has a group resolved for the repository
  of its own trace (`CallOK`, `OneRepo`).
- `RevStalenessBounded`. At most one request asks the provider (`OneAsks`), and
  where the bound applies what the cache calls good was stamped no later than the
  moment the user was dropped or the pod took over, and expires within interval and
  jitter of its stamp (`Timely`): the stamp is taken before the call, so that a slow
  answer does not lengthen the access, and what a check has learnt as a follower
  carries a stamp from before the pod led.
- Who is deactivated. For OIDC the docs' table of outcomes is right:
  on a pod that leads only a refusal of the provider deactivates a user
  (`OnlyRefusalsDeactivate`), a check that could not reach it changes nothing
  (`OidcOutageHarmless`), and a user the provider always allowed is never
  deactivated, however often the role changes (`AllowedUserStays`). The invariant is
  what an answer stands for (`Verdicts`), with what checks in flight have read
  (`Undisturbed`). The `reval_outage` run shows that for GitHub users the same fails.

The assumptions are on constants only, stated where they are declared and evaluated
by every run: bounds are natural numbers, sets that are counted are finite, and
`Nil` is none of the records or numbers it stands beside (`NilNotRow`,
`NilNotLease`, `NilNotCall`, `NilNotRev`, ...), as a nil pointer is no struct. None
assumes anything of the behaviour.

Only model-checked:

- all liveness (`DisconnectResolved`, `RunningResolved`, `IdleCollected`,
  `HistPurged`, `LiveSignalled`, `LiveReleased`, `AdmTunnelServed`,
  `VotersConverge`, `PodsComeUp`, `RequestsAnswered`), as fairness is out of the
  prover's reach;
- `StepsRenderable` and the part of `StepStream`'s types about the order of the
  nodes: the events of a poll come from a walk over a tree of any depth and from a
  sort, and what those compute needs induction over the tree, which none of the
  provers offers. What the builder keeps between polls is proved (above);
- `ServicesTypeOK`, which says of the component that runs what the theorems say of
  each component's own specification, `StepStream` excepted.

## Not modelled

Cryptography, OTLP parsing and telemetry queries, rendering, HTTP plumbing,
configuration, metrics, UI, chart and the generated Dagger SDK are data or I/O:
they keep no state that two parties change. The generated SDK and the build
pipeline make up much of the repository's lines and none of its behaviour. The
read side of the state machine (lists, filters, search) changes nothing. Tokens
are one command per call, which `MetaFSM` has. Patterns (group, project and
auto-assign mappings) are constants of the models. The Raft
autopilot is never started. Of the CI wrapper the sinks that render events, the
splitting of lines into chunks, the cap on remembered lines (beyond which the code
accepts repetitions) and the download of the CLI are left out. The certificate
authorities are cryptography and Kubernetes Secrets, whose create-or-load race the
API server's conflict answer settles.
