---------------------------- MODULE Revalidation ----------------------------
(* Revalidation of OAuth users: internal/service/oauth_revalidator.go, with   *)
(* the providers' Revalidate (oauth_oidc.go, oauth_github.go) and the          *)
(* membership reconciliation of oauth.go.                                     *)
(*                                                                           *)
(* One user, one pod.  The identity provider (IdP) knows the user as a member *)
(* of the mapped group ("full"), as allowed without it ("reduced") or as not  *)
(* allowed ("out").  Requests of the user share one cache entry: at most one  *)
(* asks the IdP, the others wait and look again.  A step is one pass through  *)
(* the cache lock, one call of the IdP, or the store calls that follow it.    *)
(* Time is discrete; calls take time.  The pod gains and loses leadership at  *)
(* any moment.                                                               *)
EXTENDS Integers, Absent

CONSTANTS
    RevRequests,    \* requests of the user this pod serves at a time
    Interval,       \* revalidate_interval
    Jitter,         \* the part of it the jitter adds or takes away (10%)
    Grace,          \* revalidate_grace
    FailOpen,       \* revalidate_fail_open
    MaxEntryAge,    \* age at which the sweeper drops an entry
    MaxTime, MaxCred, MaxChecks, MaxIdpChanges
        \* bounds: the clock, credentials issued, requests, changes at the IdP

ASSUME RevAssumption ==
    /\ Interval \in Nat \ {0} /\ Jitter \in 0..Interval - 1 /\ Grace \in Nat
    /\ FailOpen \in BOOLEAN
    /\ MaxEntryAge \in Nat /\ MaxTime \in Nat /\ MaxCred \in Nat \ {0}
    /\ MaxChecks \in Nat /\ MaxIdpChanges \in Nat

VARIABLES
    oauthProvider,  \* "oidc" or "github"
    ledSince,   \* when this pod became the Raft leader, Nil on a follower
    preUpgrade, \* the user first logged in before credentials were stored
    now,        \* the clock
    idp,        \* what the IdP knows of the user
    lostAt,     \* when the IdP ceased to allow the user, or Nil
    member,     \* the replicated user: [deact, cred, managed]
    granted,    \* the user is a member of the mapped group in the store
    entry,      \* the cache entry, or Nil
    check,      \* check[r]: where request r is in Check
    checks, changes \* requests and changes at the IdP so far

revVars == <<oauthProvider, ledSince, preUpgrade, now, idp, lostAt, member, granted, entry, check,
             checks, changes>>

Member == [deact: BOOLEAN, cred: 0..MaxCred, managed: BOOLEAN]
Time == 0..MaxTime
Answers == {"full", "reduced", "forbidden", "noCredential", "notLeader", "expired",
            "unreachable", "userUnreachable", "deactivated"}

RevEntry == [state: {"new", "ok", "revoked", "unavailable", "expired"}, groups: BOOLEAN,
             checkedAt: Time, lastGood: Time \cup {Nil}, expiresAt: Int, inflight: BOOLEAN,
             cred: 0..MaxCred]
CheckRow == [at: {"idle", "check", "call", "ask", "record"}, u: Member, stamp: Time,
             answer: Answers \cup {Nil}]

ASSUME NilNotRev == Nil \notin RevEntry /\ Nil \notin Time
ASSUME NilNotAnswer == Nil \notin Answers

leads == ledSince # Nil

RevTypeOK ==
    /\ oauthProvider \in {"oidc", "github"} /\ preUpgrade \in BOOLEAN
    /\ ledSince \in Time \cup {Nil}
    /\ now \in Time /\ lostAt \in Time \cup {Nil}
    /\ idp \in {"full", "reduced", "out"}
    /\ member \in Member /\ granted \in BOOLEAN
    /\ entry = Nil \/ entry \in RevEntry
    /\ checks \in 0..MaxChecks /\ changes \in 0..MaxIdpChanges
    /\ check \in [RevRequests -> CheckRow]

NoCheck == [at |-> "idle", u |-> [deact |-> FALSE, cred |-> 0, managed |-> FALSE],
            stamp |-> 0, answer |-> Nil]

RevInit ==
    /\ oauthProvider \in {"oidc", "github"} /\ preUpgrade \in BOOLEAN
    /\ ledSince \in {0, Nil}
    /\ now = 0 /\ idp = "full" /\ lostAt = Nil
    /\ member = [deact |-> FALSE, cred |-> IF preUpgrade THEN 0 ELSE 1, managed |-> TRUE]
    /\ granted = TRUE
    /\ entry = Nil
    /\ check = [r \in RevRequests |-> NoCheck]
    /\ checks = 0 /\ changes = 0

world == <<oauthProvider, ledSince, preUpgrade, now, idp, lostAt, changes>>
store == <<member, granted>>

(* --------------------------------------------------- the rest of the world *)

Tick == now < MaxTime /\ now' = now + 1
        /\ UNCHANGED <<oauthProvider, ledSince, preUpgrade, idp, lostAt, changes, store, entry,
                       check, checks>>

IdpChanges(x) ==
    /\ x # idp /\ changes < MaxIdpChanges
    /\ changes' = changes + 1
    /\ idp' = x
    /\ lostAt' = IF x = "out" THEN now ELSE Nil
    /\ UNCHANGED <<oauthProvider, ledSince, preUpgrade, now, store, entry, check, checks>>

(* An election makes this pod the leader, or another one.                    *)
RoleChanges ==
    /\ ledSince' = IF leads THEN Nil ELSE now
    /\ UNCHANGED <<oauthProvider, preUpgrade, now, idp, lostAt, changes, store, entry, check,
                   checks>>

(* completeOAuthLogin on the leader: clears the deactivation, reconciles and  *)
(* stores a fresh credential.                                                *)
OAuthLogin ==
    /\ idp # "out" /\ member.cred < MaxCred
    /\ granted' = IF idp = "full" THEN TRUE ELSE granted /\ ~member.managed
    /\ member' = [deact |-> FALSE, cred |-> member.cred + 1, managed |-> idp = "full"]
    /\ UNCHANGED <<world, entry, check, checks>>

(* On a follower the store follows what the leader's own revalidation wrote.  *)
LeaderReconciles ==
    /\ ~leads /\ member.cred # 0
    /\ granted' = (idp = "full")
    /\ member' = [member EXCEPT !.deact = @ \/ idp = "out", !.managed = (idp = "full")]
    /\ UNCHANGED <<world, entry, check, checks>>

(* sweepLoop                                                                 *)
SweepEntry ==
    /\ entry # Nil /\ ~entry.inflight /\ now - entry.checkedAt > MaxEntryAge
    /\ entry' = Nil
    /\ UNCHANGED <<world, store, check, checks>>

(* -------------------------------------------------------------- a request *)

(* loadAuthorizedGroups: the user is read, a deactivated one is refused.      *)
Arrive(r) ==
    /\ check[r].at = "idle" /\ ~member.deact
    /\ checks < MaxChecks /\ checks' = checks + 1
    /\ check' = [check EXCEPT ![r] = [NoCheck EXCEPT !.at = "check", !.u = member]]
    /\ UNCHANGED <<world, store, entry>>

Fresh(u) ==
    /\ ~(entry.state = "revoked" /\ ~u.deact)
    /\ ~(entry.state = "expired" /\ entry.cred # u.cred)
    /\ entry.state # "new" /\ now < entry.expiresAt

(* serve: last-known-good groups only within the grace period, or fail-open.  *)
Serve ==
    CASE entry.state = "ok" -> IF entry.groups THEN "full" ELSE "none"
      [] entry.state \in {"unavailable", "expired"} ->
           IF entry.groups /\ (FailOpen \/ now - entry.lastGood <= Grace)
             THEN "full" ELSE "deny"
      [] OTHER -> "deny"

(* Check's loop: create the entry, serve it while fresh, or become the one    *)
(* that refreshes it; while another one does, wait (until the client leaves). *)
CreateEntry(r) ==
    /\ check[r].at = "check" /\ entry = Nil
    /\ entry' = [state |-> "new", groups |-> FALSE, checkedAt |-> now, lastGood |-> Nil,
                 expiresAt |-> 0, inflight |-> TRUE, cred |-> check[r].u.cred]
    /\ check' = [check EXCEPT ![r].at = "call", ![r].stamp = now]
    /\ UNCHANGED <<world, store, checks>>

ServeCached(r) ==
    /\ check[r].at = "check" /\ entry # Nil /\ ~entry.inflight /\ Fresh(check[r].u)
    /\ check' = [check EXCEPT ![r] = NoCheck]
    /\ UNCHANGED <<world, store, entry, checks>>

BecomeRefresher(r) ==
    /\ check[r].at = "check" /\ entry # Nil /\ ~entry.inflight /\ ~Fresh(check[r].u)
    /\ entry' = [entry EXCEPT !.inflight = TRUE, !.cred = check[r].u.cred]
    /\ check' = [check EXCEPT ![r].at = "call", ![r].stamp = now]
    /\ UNCHANGED <<world, store, checks>>

(* refresh and Revalidate up to the first call of the IdP: what is decided    *)
(* without it.  Only the leader may rotate an OIDC credential.               *)
Decided(u) ==
    IF u.deact THEN "deactivated"
    ELSE IF u.cred = 0 THEN "noCredential"
    ELSE IF oauthProvider = "oidc" /\ ~leads THEN "notLeader"
    ELSE Nil

LookBeforeCall(r) ==
    LET a == Decided(check[r].u) IN
    /\ check[r].at = "call"
    /\ check' = [check EXCEPT ![r].at = IF a = Nil THEN "ask" ELSE "record", ![r].answer = a]
    /\ UNCHANGED <<world, store, entry, checks>>

(* What the groups the IdP shows come to.  A GitHub team list that cannot be  *)
(* read is left out when teams only serve the mapping.                       *)
Membership ==
    IF idp = "out" THEN {"forbidden"}
    ELSE IF oauthProvider = "github" THEN {idp, "reduced"} ELSE {idp}

(* What the provider's calls can come to.  GitHub's first call fetches the    *)
(* user, and any failure of it ends as ErrSessionRevoked.                    *)
Outcomes ==
    Membership \cup {"unreachable"}
       \cup (IF oauthProvider = "oidc" THEN {"expired"} ELSE {"userUnreachable"})

AskIdp(r) ==
    /\ check[r].at = "ask"
    /\ \E a \in Outcomes : check' = [check EXCEPT ![r].at = "record", ![r].answer = a]
    /\ UNCHANGED <<world, store, entry, checks>>

(* refreshingSource: the OIDC leader rotates the credential and saves the     *)
(* user it has read before.                                                  *)
Rotates(r) ==
    /\ check[r].at = "ask" /\ oauthProvider = "oidc"
    /\ check[r].u.cred \in 1..MaxCred - 1

SaveRotated(r) ==
    /\ Rotates(r) /\ leads
    /\ check' = [check EXCEPT ![r].u.cred = @ + 1]
    /\ member' = [check[r].u EXCEPT !.cred = @ + 1]
    /\ UNCHANGED <<world, granted, entry, checks>>

(* Leadership was lost meanwhile: the rotated credential is not persisted,    *)
(* and the check ends as on a follower, or, when it is the userinfo call that *)
(* wraps the error, as a transport error.                                    *)
RotationLost(r) ==
    /\ Rotates(r) /\ ~leads
    /\ \E a \in {"notLeader", "unreachable"} :
          check' = [check EXCEPT ![r].u.cred = @ + 1, ![r].at = "record", ![r].answer = a]
    /\ UNCHANGED <<world, store, entry, checks>>

(* The lifetime of a result: the interval, or a shorter grace when degraded.  *)
TTL(state) == IF state = "unavailable" /\ Grace > 0 /\ Grace < Interval THEN Grace ELSE Interval

(* Mutant of CheckedAt: the result is stamped when the answer arrives.        *)
CheckedAtAnswer(r) == now

(* Revalidation stamps its result with the time at which it began.            *)
CheckedAt(r) == check[r].stamp

(* refresh and finish for request r with IdP answer a.  Only the leader's     *)
(* writes are applied; they save the user r has read.  A reconciliation that  *)
(* has something to write fails on a follower and keeps the managed groups.  *)
State(a) ==
    CASE a \in {"full", "reduced", "noCredential"} -> "ok"
      [] a \in {"forbidden", "userUnreachable", "deactivated"} -> "revoked"
      [] a \in {"unreachable", "notLeader"} -> "unavailable"
      [] OTHER -> "expired"

Record(r) ==
    LET a == check[r].answer
        u == check[r].u
        verified == a \in {"full", "reduced"}
        revokes == State(a) = "revoked" /\ ~u.deact
        u1 == [u EXCEPT !.deact = @ \/ revokes,
                        !.managed = IF leads /\ verified THEN a = "full" ELSE @]
    IN  /\ check[r].at = "record"
        /\ granted' = IF ~leads \/ ~verified THEN granted
                      ELSE IF a = "full" THEN granted \/ ~u.managed
                      ELSE granted /\ ~u.managed
        /\ member' = IF leads /\ (verified \/ revokes) THEN u1 ELSE member
        /\ \E j \in -Jitter..Jitter :
             entry' = [entry EXCEPT
                !.state = State(a), !.inflight = FALSE,
                !.cred = IF verified THEN u.cred ELSE @,
                !.checkedAt = CheckedAt(r),
                !.expiresAt = CheckedAt(r) + TTL(State(a)) + j,
                !.groups = IF State(a) = "ok" \/ a = "notLeader" THEN granted' ELSE @,
                !.lastGood = IF State(a) = "ok" \/ a = "notLeader" THEN CheckedAt(r) ELSE @]
        /\ check' = [check EXCEPT ![r] = [NoCheck EXCEPT !.at = "check", !.u = u1]]
        /\ UNCHANGED <<world, checks>>

(* The client of a waiting request goes away.                                *)
GiveUp(r) ==
    /\ check[r].at = "check" /\ entry # Nil /\ entry.inflight
    /\ check' = [check EXCEPT ![r] = NoCheck]
    /\ UNCHANGED <<world, store, entry, checks>>

RevStep(r) ==
    \/ CreateEntry(r) \/ ServeCached(r) \/ BecomeRefresher(r)
    \/ LookBeforeCall(r) \/ AskIdp(r) \/ Record(r)

RevNext ==
    \/ Tick \/ RoleChanges \/ OAuthLogin \/ LeaderReconciles \/ SweepEntry
    \/ \E x \in {"full", "reduced", "out"} : IdpChanges(x)
    \/ \E r \in RevRequests : 
          Arrive(r) \/ RevStep(r) \/ SaveRotated(r) \/ RotationLost(r) \/ GiveUp(r)

(* Every IdP call has a time-out.  Two requests that read different           *)
(* credentials each find the other's "expired" not fresh; the one whose own   *)
(* result stands gets back to the lock first at some time.                   *)
RevSpec ==
    /\ RevInit /\ [][RevNext]_revVars
    /\ \A r \in RevRequests : WF_revVars(RevStep(r)) /\ SF_revVars(ServeCached(r))

(* ----------------------------------------------------------- properties -- *)

(* How long after the IdP has removed the user a request is still allowed.    *)
Staleness == IF Interval + Jitter > Grace THEN Interval + Jitter ELSE Grace

(* The step that answers request r from the cache, with the user's groups.    *)
Allowed(r) ==
    /\ check[r].at = "check" /\ check'[r].at = "idle"
    /\ ~entry.inflight /\ Serve # "deny"

(* From when on the pod verifies what it serves: GitHub is asked by every     *)
(* pod, an OIDC issuer by the leader only.  A follower vouches for the groups *)
(* it reads in the store, and dates them with the time it reads them; a pod   *)
(* that takes over inherits that date.                                       *)
VerifiesSince ==
    IF oauthProvider = "oidc" /\ ledSince > lostAt THEN ledSince ELSE lostAt

(* docs/README.md:1301 "revalidate_interval bounds how long a removed member  *)
(* keeps access; revalidate_fail_open: false denies once revalidate_grace     *)
(* passes an unverifiable check": for a user with a stored credential, on a   *)
(* pod that asks the IdP, whatever fails, whoever waits for whose answer,     *)
(* however long the IdP takes and however often the leader changes.  A change *)
(* of leader starts the bound anew.                                          *)
RevStalenessBounded ==
    [][\A r \in RevRequests :
         Allowed(r) /\ (oauthProvider = "oidc" => leads) /\ ~FailOpen /\ ~preUpgrade /\ idp = "out"
           => now <= VerifiesSince + Staleness]_revVars

(* No request waits for ever for another one's check: once no more arrive,    *)
(* all have been answered.                                                   *)
RevAnswered == <>[](\A r \in RevRequests : check[r].at = "idle")

(* docs/README.md:1290 "IdP unreachable (transport) | stateUnavailable | same *)
(* grace/fail policy": a check that could not reach the IdP deactivates       *)
(* nobody.                                                                   *)
UnreachableKeepsAccount ==
    [][\A r \in RevRequests :
         check[r].at = "record" /\ check[r].answer \in {"unreachable", "userUnreachable"}
           /\ check'[r].at = "check"
           => member'.deact = member.deact]_revVars
=============================================================================
