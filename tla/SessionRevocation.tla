------------------------- MODULE SessionRevocation -------------------------
(***************************************************************************)
(* Server-side revocation of session JWTs (ADR-045): the token_version of  *)
(* a user record, the requests that read, change and write the record      *)
(* back (service/user_service.go, oauth.go, oauth_revalidator.go,          *)
(* oauth_oidc.go), and the sessions minted from it (auth_service.go,       *)
(* jwt_service.go).                                                        *)
(*                                                                         *)
(* Every request works on a copy of one user's record: it reads the copy,  *)
(* computes (bcrypt, a call to the identity provider), and stores the      *)
(* WHOLE copy with kindUpdateUser, which does not compare it with the row  *)
(* it replaces.  Other requests run in between.                            *)
(***************************************************************************)
EXTENDS Naturals, FiniteSets, Absent

CONSTANTS
    Handlers,   \* requests in progress for the user
    Passwords,
    MaxBumps,   \* bound on the revocation events
    MaxSessions \* bound on the sessions minted

ASSUME RevocationAssumption ==
    /\ MaxBumps \in Nat /\ MaxSessions \in Nat /\ Passwords # {}

VARIABLES
    user,   \* the stored record, Nil once deleted
    req,    \* the request of each handler
    jwts,   \* sessions minted so far
    bumps   \* history: revocation events whose write succeeded

sessVars == <<user, req, jwts, bumps>>

(* Of the record, what decides whether a session is valid; the rest, like   *)
(* the role, is written with it.                                            *)
User == [version: Nat, password: Passwords, deactivated: BOOLEAN]

(* A session carries the version of the copy it was minted from; the rest   *)
(* is history: the hash in that copy, the revocation events completed       *)
(* before it was minted, and whether no stale copy has been written since   *)
(* that copy was read.                                                      *)
Session == [version: Nat, password: Passwords, epoch: Nat, intact: BOOLEAN]

Revoking == {"logout", "reset", "change"}
Writing  == Revoking \cup {"role", "revalidate", "oauthLogin"}
Minting  == {"login", "refresh", "oauthLogin"}

ASSUME NilNotRecord == Nil \notin User

(* A handler is idle with no copy, or works on one.                         *)
SessTypeOK ==
    /\ user \in User \cup {Nil}
    /\ req \in [Handlers -> [op: Writing \cup Minting, stage: {"idle", "write", "mint"},
                             copy: User \cup {Nil}, intact: BOOLEAN]]
    /\ \A h \in Handlers : req[h].stage # "idle" => req[h].copy # Nil
    /\ jwts \in SUBSET Session
    /\ bumps \in Nat

NoRequest == [op |-> "login", stage |-> "idle", copy |-> Nil, intact |-> TRUE]

SessInit ==
    /\ \E p \in Passwords : user = [version |-> 0, password |-> p, deactivated |-> FALSE]
    /\ req = [h \in Handlers |-> NoRequest]
    /\ jwts = {}
    /\ bumps = 0

(* identityForUser and Refresh: the claim's version against the row's, then *)
(* the deactivation flag.                                                   *)
Valid(j) == user # Nil /\ j.version = user.version /\ ~user.deactivated

-----------------------------------------------------------------------------
(* Requests.                                                                *)

Admitted(op) ==
    /\ op \in {"logout", "refresh", "revalidate"} => \E j \in jwts : Valid(j)
    /\ op \in Revoking => bumps < MaxBumps

(* users.Get (or GetByUsername, GetByOAuth) returns a copy.  login and      *)
(* change compare the password with the copy's hash.                        *)
Read(h, op) ==
    /\ req[h].stage = "idle" /\ user # Nil
    /\ Admitted(op)
    /\ req' = [req EXCEPT ![h] = [op |-> op, copy |-> user, intact |-> TRUE,
                                  stage |-> IF op \in Writing THEN "write" ELSE "mint"]]
    /\ UNCHANGED <<user, jwts, bumps>>

\* Mutation: the counter is left alone.
BumpedNot(copy) == copy

Bumped(copy) == [copy EXCEPT !.version = @ + 1]

\* Mutation: the counter is bumped in a later update, not with the new hash.
WithPasswordOnly(copy, p) == [copy EXCEPT !.password = p]

WithPassword(copy, p) == [copy EXCEPT !.version = @ + 1, !.password = p]

(* What the request makes of its copy.                                      *)
Changed(op, copy) ==
    CASE op = "logout"     -> {Bumped(copy)}
      [] op \in {"reset", "change"} -> {WithPassword(copy, p) : p \in Passwords}
      [] op = "role"       -> {copy}
      [] op = "revalidate" -> {copy, [copy EXCEPT !.deactivated = TRUE]}
      [] op = "oauthLogin" -> {[copy EXCEPT !.deactivated = FALSE]}

(* History: a copy is stale when the row has another version or password by *)
(* now.  Storing one ends the record of every session minted and every copy *)
(* read before.                                                             *)
Stale(h) ==
    req[h].copy.version # user.version \/ req[h].copy.password # user.password

SessionsAfter(h) == {[j EXCEPT !.intact = @ /\ ~Stale(h)] : j \in jwts}

RequestsAfter(h) ==
    [k \in Handlers |-> [req[k] EXCEPT !.intact = @ /\ (req[k].stage = "idle" \/ ~Stale(h))]]

(* users.Update: the copy replaces the row, unless the user is gone.        *)
Write(h) ==
    /\ req[h].stage = "write" /\ user # Nil
    /\ \E new \in Changed(req[h].op, req[h].copy) :
          /\ user' = new
          /\ req' = [RequestsAfter(h) EXCEPT
                       ![h] = IF req[h].op \in Minting THEN [@ EXCEPT !.copy = new, !.stage = "mint"]
                              ELSE NoRequest]
    /\ bumps' = IF req[h].op \in Revoking THEN bumps + 1 ELSE bumps
    /\ jwts' = SessionsAfter(h)

(* refreshingSource.Token: revalidation first stores a rotated credential,  *)
(* with the copy it has, and goes on with the same copy.                    *)
RotateCredential(h) ==
    /\ req[h].stage = "write" /\ req[h].op = "revalidate" /\ user # Nil
    /\ user' = req[h].copy
    /\ req' = RequestsAfter(h)
    /\ jwts' = SessionsAfter(h)
    /\ UNCHANGED bumps

(* IssuePair from the copy.  (bumps is read when the token is handed out.)  *)
Mint(h) ==
    /\ req[h].stage = "mint" /\ Cardinality(jwts) < MaxSessions
    /\ jwts' = jwts \cup {[version |-> req[h].copy.version, password |-> req[h].copy.password,
                           epoch |-> bumps, intact |-> req[h].intact]}
    /\ req' = [req EXCEPT ![h] = NoRequest]
    /\ UNCHANGED <<user, bumps>>

(* The update or the provider fails, or the request is denied.              *)
FailRequest(h) ==
    /\ req[h].stage # "idle"
    /\ req' = [req EXCEPT ![h] = NoRequest]
    /\ UNCHANGED <<user, jwts, bumps>>

DeleteUser ==
    /\ user # Nil
    /\ user' = Nil
    /\ UNCHANGED <<req, jwts, bumps>>

-----------------------------------------------------------------------------
SessNext ==
    \/ \E h \in Handlers :
          \/ \E op \in Writing \cup Minting : Read(h, op)
          \/ Write(h) \/ RotateCredential(h) \/ Mint(h) \/ FailRequest(h)
    \/ DeleteUser

SessSpec == SessInit /\ [][SessNext]_sessVars

-----------------------------------------------------------------------------
(* Properties.                                                              *)

(* docs/README.md: logout, password change and password reset "revoke all   *)
(* previously issued sessions of that user, cluster-wide and immediately":  *)
(* a session minted before a completed revocation is never valid again.     *)
(* Nothing in the code makes Get and Update one step, and it does not hold. *)
RevokedStaysRevoked ==
    \A j \in jwts : j.epoch < bumps => ~Valid(j)

(* What the code does ensure, however requests overlap, fail and share the  *)
(* record: a revoked session comes back only through the write of a stale   *)
(* copy, stored since that session's own record was read.  Role changes,    *)
(* revalidations and logins that overlap with no bump between the read and  *)
(* the write of one of them do no harm.                                     *)
RevivedOnlyByStaleWrite ==
    \A j \in jwts : j.epoch < bumps /\ Valid(j) => ~j.intact

(* ADR-045: "a new password is never stored while old tokens would stay     *)
(* valid": a session minted from a record with another password is not      *)
(* valid, also when the login had checked the old password before the       *)
(* change and handed its token out after it, unless a stale copy was        *)
(* written since that record was read (two resets that both read version v  *)
(* both store v + 1).                                                       *)
OldPasswordOnlyByStaleWrite ==
    \A j \in jwts : Valid(j) /\ j.password # user.password => ~j.intact
=============================================================================
