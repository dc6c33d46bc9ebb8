------------------------------ MODULE CLICache ------------------------------
(* Distribution of the Dagger CLI: internal/service/cli_service.go over the  *)
(* S3 cache (repository/s3_cli_cache.go) and the GitHub upstream             *)
(* (repository/cli_upstream.go), called by internal/handler/cli.go.          *)
(*                                                                           *)
(* All pods share one bucket.  A pod's memory holds a release list with a    *)
(* time to live, the artifact fetches in flight, and the metadata of what it *)
(* stored itself.  A step is one critical section of CLIService.mu or one    *)
(* call to the bucket or the upstream.  One operating system and one         *)
(* architecture are considered, so a version is a cache key.                 *)
EXTENDS Integers, FiniteSets, FiniteSetsExt, Absent

CONSTANTS
    CliPods,        \* supervisor pods
    CliRequests,    \* requests, each served once, by one pod
    CliVersions,    \* released versions, numbered in the order of Version.Compare
    CliAllowed,     \* versions that VersionResolver.IsAllowed accepts
    MaxGetFaults    \* bound: downloads from the bucket that may fail

ASSUME CliAssumption == /\ CliVersions \subseteq Nat /\ IsFiniteSet(CliVersions)
                        /\ CliAllowed \subseteq CliVersions
                        /\ MaxGetFaults \in Nat

VARIABLES
    object,     \* object[v]: the tarball stored under the key of v, or Nil
    published,  \* the versions the upstream lists
    releases,   \* releases[p]: [list, fresh], the cached release list, or Nil
    listing,    \* listing[p]: the request that owns releasesInflight, or Nil
    fetching,   \* fetching[p][v]: the request that owns inflight[v], or Nil
    metaOf,     \* metaOf[p]: the versions whose metadata the pod has recorded
    call,       \* call[r]: the goroutine that serves request r
    puts,       \* history: puts[p][v], uploads of v by p that succeeded
    getFaults   \* downloads from the bucket that have failed

bucketVars == <<object, puts, getFaults>>
listVars   == <<published, releases, listing>>
memoryVars == <<fetching, metaOf>>
cliVars    == <<bucketVars, listVars, memoryVars, call>>

Bodies    == {"good", "corrupt"}
CliErrors == {"not_found", "not_allowed", "mismatch", "unavailable", "cancelled"}

ASSUME CliNilAssumption == Nil \notin CliRequests \cup Bodies \cup {"ok"}

Call == [at: {"idle", "list", "listing", "await_list", "has", "lock", "await_fetch",
              "sums", "tarball", "put", "record", "finish", "open", "done"},
         pod: CliPods \cup {Nil}, op: {"latest", "download", Nil},
         version: CliVersions \cup {Nil},
         owner: CliRequests \cup {Nil},              \* whose flight it waits for
         list: (SUBSET CliVersions) \cup {Nil},      \* what its own List returned
         body: Bodies \cup {Nil},
         flight: CliErrors \cup {"ok", Nil},         \* how its own fetch ended
         outcome: CliErrors \cup {"ok", Nil},
         sha: BOOLEAN]                               \* the answer has a digest

CliTypeOK ==
    /\ object \in [CliVersions -> Bodies \cup {Nil}]
    /\ published \subseteq CliVersions
    /\ releases \in [CliPods -> [list: SUBSET CliVersions, fresh: BOOLEAN] \cup {Nil}]
    /\ listing \in [CliPods -> CliRequests \cup {Nil}]
    /\ fetching \in [CliPods -> [CliVersions -> CliRequests \cup {Nil}]]
    /\ metaOf \in [CliPods -> SUBSET CliVersions]
    /\ call \in [CliRequests -> Call]
    /\ puts \in [CliPods -> [CliVersions -> Nat]]
    /\ getFaults \in 0..MaxGetFaults

CliInit ==
    /\ object = [v \in CliVersions |-> Nil]
    /\ published \in SUBSET CliVersions
    /\ releases = [p \in CliPods |-> Nil]
    /\ listing = [p \in CliPods |-> Nil]
    /\ fetching = [p \in CliPods |-> [v \in CliVersions |-> Nil]]
    /\ metaOf = [p \in CliPods |-> {}]
    /\ call = [r \in CliRequests |->
                 [at |-> "idle", pod |-> Nil, op |-> Nil, version |-> Nil, owner |-> Nil,
                  list |-> Nil, body |-> Nil, flight |-> Nil, outcome |-> Nil,
                  sha |-> FALSE]]
    /\ puts = [p \in CliPods |-> [v \in CliVersions |-> 0]]
    /\ getFaults = 0

Enter(r, stage) == [call EXCEPT ![r].at = stage]
Answer(r, outcome, sha) ==
    [call EXCEPT ![r].at = "done", ![r].outcome = outcome, ![r].sha = sha]

(* ------------------------------------------------------------- handlers -- *)

(* handleCLILatest, after cliGuard.                                          *)
HandleLatest(r, p) ==
    /\ call[r].at = "idle"
    /\ call' = [call EXCEPT ![r].at = "list", ![r].pod = p, ![r].op = "latest"]
    /\ UNCHANGED <<bucketVars, listVars, memoryVars>>

(* handleCLIDownload: Open begins with EnsureCached, which refuses a version  *)
(* that is not allowed.                                                      *)
HandleDownload(r, p, v) ==
    /\ call[r].at = "idle"
    /\ call' = [call EXCEPT ![r] =
                  [@ EXCEPT !.pod = p, !.op = "download", !.version = v,
                            !.at = IF v \in CliAllowed THEN "has" ELSE "done",
                            !.outcome = IF v \in CliAllowed THEN Nil ELSE "not_allowed"]]
    /\ UNCHANGED <<bucketVars, listVars, memoryVars>>

(* EnsureCached returned: a download goes on to open the artifact.            *)
Return(r, outcome, sha) ==
    IF call[r].op = "download" /\ outcome = "ok"
      THEN Enter(r, "open")
      ELSE Answer(r, outcome, sha)

(* Open downloads the artifact once more, to stream it from a file.          *)
Open(r) ==
    /\ call[r].at = "open"
    /\ \/ object[call[r].version] # Nil
          /\ call' = Answer(r, "ok", FALSE)
          /\ UNCHANGED getFaults
       \/ object[call[r].version] = Nil
          /\ call' = Answer(r, "not_found", FALSE)
          /\ UNCHANGED getFaults
       \/ getFaults < MaxGetFaults
          /\ call' = Answer(r, "not_found", FALSE)
          /\ getFaults' = getFaults + 1
    /\ UNCHANGED <<object, puts, listVars, memoryVars>>

(* --------------------------------------------------------- release list -- *)

(* The highest allowed version of a list decides what "latest" ensures.      *)
Best(list) == Max(list \cap CliAllowed)

ResolveLatest(r, list) ==
    IF list \cap CliAllowed = {}
      THEN Answer(r, "not_found", FALSE)
      ELSE [call EXCEPT ![r].at = "has", ![r].version = Best(list), ![r].list = list]

(* The list's time to live ends.                                             *)
ReleasesExpire(p) ==
    /\ releases[p] # Nil /\ releases[p].fresh
    /\ releases' = [releases EXCEPT ![p].fresh = FALSE]
    /\ UNCHANGED <<published, listing, bucketVars, memoryVars, call>>

(* The upstream publishes a version.                                         *)
Publish(v) ==
    /\ v \notin published
    /\ published' = published \cup {v}
    /\ UNCHANGED <<releases, listing, bucketVars, memoryVars, call>>

(* listReleases: use the list while it is fresh, else join the fetch that is  *)
(* under way, else own one.                                                  *)
ListReleases(r) ==
    LET p == call[r].pod
        fresh == releases[p] # Nil /\ releases[p].fresh
    IN
    /\ call[r].at = "list"
    /\ \/ /\ fresh
          /\ call' = ResolveLatest(r, releases[p].list)
          /\ UNCHANGED listing
       \/ /\ ~fresh /\ listing[p] # Nil
          /\ call' = [call EXCEPT ![r].at = "await_list", ![r].owner = listing[p]]
          /\ UNCHANGED listing
       \/ /\ ~fresh /\ listing[p] = Nil
          /\ call' = Enter(r, "listing")
          /\ listing' = [listing EXCEPT ![p] = r]
    /\ UNCHANGED <<published, releases, bucketVars, memoryVars>>

(* upstream.List returned to the owner, which publishes the outcome.         *)
ListReturned(r) ==
    LET p == call[r].pod IN
    /\ call[r].at = "listing"
    /\ \/ /\ releases' = [releases EXCEPT ![p] = [list |-> published, fresh |-> TRUE]]
          /\ call' = [ResolveLatest(r, published) EXCEPT ![r].list = published]
       \/ /\ call' = Answer(r, "unavailable", FALSE)
          /\ UNCHANGED releases
    /\ listing' = [listing EXCEPT ![p] = Nil]
    /\ UNCHANGED <<published, bucketVars, memoryVars>>

(* A request that joined wakes with the owner's outcome, or its client left.  *)
ListAwaited(r) ==
    /\ call[r].at = "await_list"
    /\ \/ /\ call[call[r].owner].at # "listing"
          /\ call' = IF call[call[r].owner].list = Nil
                       THEN Answer(r, "unavailable", FALSE)
                       ELSE ResolveLatest(r, call[call[r].owner].list)
       \/ call' = Answer(r, "cancelled", FALSE)
    /\ UNCHANGED <<bucketVars, listVars, memoryVars>>

(* ------------------------------------------------------------- artifact -- *)

(* EnsureCached: the light check, which answers from the pod's own metadata.  *)
Has(r) ==
    LET v == call[r].version IN
    /\ call[r].at = "has"
    /\ \/ call' = Answer(r, "unavailable", FALSE)
       \/ /\ object[v] # Nil
          /\ call' = Return(r, "ok", v \in metaOf[call[r].pod])
       \/ /\ object[v] = Nil
          /\ call' = Enter(r, "lock")
    /\ UNCHANGED <<bucketVars, listVars, memoryVars>>

(* Mutant of LockAndLook: a miss fetches without looking for a flight.       *)
LockAndLookAlone(r) ==
    LET v == call[r].version IN
    /\ call[r].at = "lock" /\ object[v] = Nil
    /\ call' = Enter(r, "sums")
    /\ fetching' = [fetching EXCEPT ![call[r].pod][v] = r]
    /\ UNCHANGED <<bucketVars, listVars, metaOf>>

(* EnsureCached under the mutex: look again (a download, which may fail and   *)
(* then counts as a miss), join the fetch in flight, or own one.  A file from *)
(* the bucket has no checksum beside it.                                     *)
LockAndLook(r) ==
    LET v == call[r].version
        p == call[r].pod
    IN
    /\ call[r].at = "lock"
    /\ \/ /\ object[v] # Nil
          /\ call' = Return(r, "ok", FALSE)
          /\ UNCHANGED <<fetching, getFaults>>
       \/ /\ \/ object[v] = Nil /\ UNCHANGED getFaults
             \/ /\ object[v] # Nil /\ getFaults < MaxGetFaults
                /\ getFaults' = getFaults + 1
          /\ \/ /\ fetching[p][v] # Nil
                /\ call' = [call EXCEPT ![r].at = "await_fetch", ![r].owner = fetching[p][v]]
                /\ UNCHANGED fetching
             \/ /\ fetching[p][v] = Nil
                /\ call' = Enter(r, "sums")
                /\ fetching' = [fetching EXCEPT ![p][v] = r]
    /\ UNCHANGED <<object, puts, listVars, metaOf>>

FetchFails(r, err) == [call EXCEPT ![r].at = "finish", ![r].flight = err]

(* fetchAndCache: the checksums, then the tarball, which may be damaged.      *)
FetchChecksums(r) ==
    /\ call[r].at = "sums"
    /\ \/ call[r].version \in published /\ call' = Enter(r, "tarball")
       \/ call[r].version \notin published /\ call' = FetchFails(r, "not_found")
       \/ call' = FetchFails(r, "unavailable")
    /\ UNCHANGED <<bucketVars, listVars, memoryVars>>

FetchTarball(r) ==
    /\ call[r].at = "tarball"
    /\ \/ \E b \in Bodies : call' = [call EXCEPT ![r].at = "put", ![r].body = b]
       \/ call' = FetchFails(r, "unavailable")
    /\ UNCHANGED <<bucketVars, listVars, memoryVars>>

(* Mutant of Put: the digest is computed while uploading and not compared.    *)
PutUnverified(r) ==
    LET v == call[r].version IN
    /\ call[r].at = "put"
    /\ call' = Enter(r, "record")
    /\ object' = [object EXCEPT ![v] = call[r].body]
    /\ puts' = [puts EXCEPT ![call[r].pod][v] = @ + 1]
    /\ UNCHANGED <<getFaults, listVars, memoryVars>>

(* S3CLICache.Put verifies the digest before it uploads.                     *)
Put(r) ==
    LET v == call[r].version IN
    /\ call[r].at = "put"
    /\ \/ /\ call[r].body # "good"
          /\ call' = FetchFails(r, "mismatch")
          /\ UNCHANGED <<object, puts>>
       \/ /\ call[r].body = "good"
          /\ call' = Enter(r, "record")
          /\ object' = [object EXCEPT ![v] = call[r].body]
          /\ puts' = [puts EXCEPT ![call[r].pod][v] = @ + 1]
       \/ /\ call' = FetchFails(r, "unavailable")
          /\ UNCHANGED <<object, puts>>
    /\ UNCHANGED <<getFaults, listVars, memoryVars>>

(* recordMeta; the owner then builds its own answer from the metadata.       *)
RecordMeta(r) ==
    /\ call[r].at = "record"
    /\ metaOf' = [metaOf EXCEPT ![call[r].pod] = @ \cup {call[r].version}]
    /\ call' = [call EXCEPT ![r].at = "finish", ![r].flight = "ok"]
    /\ UNCHANGED <<bucketVars, listVars, fetching>>

(* Mutant of FinishFetch: a failed fetch returns before the flight is dropped. *)
FinishFetchEarly(r) ==
    /\ call[r].at = "finish"
    /\ fetching' = IF call[r].flight # "ok" THEN fetching
                   ELSE [fetching EXCEPT ![call[r].pod][call[r].version] = Nil]
    /\ call' = Return(r, call[r].flight, call[r].version \in metaOf[call[r].pod])
    /\ UNCHANGED <<bucketVars, listVars, metaOf>>

(* The deferred function of the owner: drop the flight and wake the waiters.  *)
FinishFetch(r) ==
    /\ call[r].at = "finish"
    /\ fetching' = [fetching EXCEPT ![call[r].pod][call[r].version] = Nil]
    /\ call' = Return(r, call[r].flight, call[r].version \in metaOf[call[r].pod])
    /\ UNCHANGED <<bucketVars, listVars, metaOf>>

(* A waiter takes the owner's error, or answers from the owner's path, which  *)
(* is empty for the bucket.  It does not watch its own context.              *)
FetchAwaited(r) ==
    LET o == call[r].owner IN
    /\ call[r].at = "await_fetch"
    /\ fetching[call[r].pod][call[r].version] # o
    /\ call' = Return(r, call[o].flight, FALSE)
    /\ UNCHANGED <<bucketVars, listVars, memoryVars>>

CliStep(r) ==
    \/ ListReleases(r) \/ ListReturned(r) \/ ListAwaited(r)
    \/ Has(r) \/ LockAndLook(r) \/ FetchChecksums(r) \/ FetchTarball(r) \/ Put(r)
    \/ RecordMeta(r) \/ FinishFetch(r) \/ FetchAwaited(r) \/ Open(r)

CliNext ==
    \/ \E r \in CliRequests :
          \/ CliStep(r)
          \/ \E p \in CliPods : HandleLatest(r, p)
          \/ \E p \in CliPods, v \in CliVersions : HandleDownload(r, p, v)
    \/ \E p \in CliPods : ReleasesExpire(p)
    \/ \E v \in CliVersions : Publish(v)

(* Calls to the bucket and the upstream end, by their time-outs if need be.   *)
CliSpec == CliInit /\ [][CliNext]_cliVars /\ \A r \in CliRequests : WF_cliVars(CliStep(r))

(* ----------------------------------------------------------- properties -- *)

(* Concurrent requests share one fetch, and whoever comes later finds what it *)
(* stored: a pod uploads a version once, plus at most once for every download *)
(* from the bucket that failed (EnsureCached then takes it for missing).      *)
CliFetchedOnce ==
    \A p \in CliPods, v \in CliVersions : puts[p][v] <= 1 + getFaults

(* Whatever order owners and waiters run in, a client is told of success only *)
(* for an allowed version whose verified tarball is in the bucket.            *)
CliServesVerified ==
    \A r \in CliRequests :
        call[r].outcome = "ok" => /\ call[r].version \in CliAllowed
                                  /\ object[call[r].version] = "good"

(* EnsureCached, listReleases: every request is answered; no waiter is left   *)
(* on a flight whose owner failed or gave up.                                *)
CliAnswered ==
    <>[](\A r \in CliRequests : call[r].at \in {"idle", "done"})
=============================================================================
