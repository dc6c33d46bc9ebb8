---------------------- MODULE SessionRevocation_proofs ----------------------
(***************************************************************************)
(* Revocation for any number of requests, sessions, passwords and           *)
(* revocation events, however the requests overlap: only the write of a    *)
(* stale copy brings a revoked session or an old password back.            *)
(***************************************************************************)
EXTENDS SessionRevocation, TLAPS

(* c is not newer than the record u, and has its password when it has its   *)
(* version.                                                                 *)
Follows(c, u) ==
    /\ c.version <= u.version
    /\ c.version = u.version => c.password = u.password

(* The copies read since the last stale write follow the record, ...        *)
CopyInv ==
    user # Nil => \A h \in Handlers :
       req[h].stage # "idle" /\ req[h].intact => Follows(req[h].copy, user)

(* ... and so do the sessions, which moreover are older than the record     *)
(* once a revocation event followed them.                                   *)
JwtInv ==
    user # Nil => \A j \in jwts :
       j.intact => Follows(j, user) /\ (j.epoch < bumps => j.version < user.version)

WriterInv == \A h \in Handlers : req[h].stage = "write" => req[h].op \in Writing

EpochInv == \A j \in jwts : j.epoch <= bumps

IInv == SessTypeOK /\ WriterInv /\ CopyInv /\ JwtInv /\ EpochInv

Request == [op: Writing \cup Minting, stage: {"idle", "write", "mint"},
            copy: User \cup {Nil}, intact: BOOLEAN]

-----------------------------------------------------------------------------
(* What a request may make of its copy: a revocation event takes the next   *)
(* version, anything else keeps version and password.                       *)
LEMMA ChangedFacts ==
    ASSUME NEW op \in Writing, NEW copy \in User, NEW new \in Changed(op, copy)
    PROVE  /\ new \in User
           /\ op \in Revoking => new.version = copy.version + 1
           /\ op \notin Revoking => new.version = copy.version /\ new.password = copy.password
<1>1. CASE op = "logout"
  BY <1>1 DEF Changed, Bumped, User, Revoking
<1>2. CASE op \in {"reset", "change"}
  <2>1. PICK p \in Passwords : new = WithPassword(copy, p)
    BY <1>2 DEF Changed
  <2>2. /\ copy.version + 1 \in Nat /\ copy.deactivated \in BOOLEAN
    BY DEF User
  <2>3. new = [version |-> copy.version + 1, password |-> p,
               deactivated |-> copy.deactivated]
    BY <2>1 DEF WithPassword, User
  <2>4. new \in User
    BY <2>2, <2>3 DEF User
  <2>. QED  BY <1>2, <2>3, <2>4 DEF Revoking
<1>3. CASE op = "role"
  BY <1>3 DEF Changed, User, Revoking
<1>4. CASE op = "revalidate"
  BY <1>4 DEF Changed, User, Revoking
<1>5. CASE op = "oauthLogin"
  BY <1>5 DEF Changed, User, Revoking
<1>. QED  BY <1>1, <1>2, <1>3, <1>4, <1>5 DEF Writing, Revoking

LEMMA IdleTyped == NoRequest \in Request /\ NoRequest.stage = "idle"
BY DEF NoRequest, Request, Writing, Minting, Revoking

LEMMA InitInv == SessInit => IInv
<1>. SUFFICES ASSUME SessInit PROVE IInv
  OBVIOUS
<1>1. user \in User
  BY DEF SessInit, User
<1>2. \A h \in Handlers : req[h] = NoRequest
  BY DEF SessInit
<1>3. SessTypeOK
  BY <1>1, <1>2, IdleTyped DEF SessInit, SessTypeOK, Request
<1>. QED  BY <1>2, <1>3, IdleTyped DEF SessInit, IInv, WriterInv, CopyInv, JwtInv, EpochInv

(* Reading hands out a copy of the current record.                          *)
LEMMA ReadInv ==
    ASSUME IInv, NEW h \in Handlers, NEW op \in Writing \cup Minting, Read(h, op)
    PROVE  IInv'
<1>. USE DEF IInv
<1>0. user \in User /\ user # Nil /\ user' = user /\ jwts' = jwts /\ bumps' = bumps
  BY DEF Read, SessTypeOK
<1>1. PICK row : row = [op |-> op, copy |-> user, intact |-> TRUE,
                        stage |-> IF op \in Writing THEN "write" ELSE "mint"]
  OBVIOUS
<1>2. /\ req' = [req EXCEPT ![h] = row]
      /\ row \in Request /\ row.copy = user /\ row.op = op
      /\ row.stage = "write" => op \in Writing
  BY <1>0, <1>1 DEF Read, Request
<1>3. req'[h] = row /\ \A k \in Handlers \ {h} : req'[k] = req[k]
  BY <1>2 DEF SessTypeOK
<1>4. SessTypeOK'
  BY <1>0, <1>2, <1>3 DEF SessTypeOK, Request
<1>5. WriterInv'
  BY <1>2, <1>3 DEF WriterInv
<1>6. Follows(user, user)
  BY <1>0 DEF Follows, User
<1>7. CopyInv'
  BY <1>0, <1>2, <1>3, <1>6 DEF CopyInv
<1>8. JwtInv' /\ EpochInv'
  BY <1>0 DEF JwtInv, EpochInv
<1>. QED  BY <1>4, <1>5, <1>7, <1>8

(* What follows a record follows its successors.                            *)
LEMMA FollowsOn ==
    ASSUME NEW u \in User, NEW new \in User, NEW c, c.version \in Nat, Follows(c, u),
           new.version >= u.version, new.version = u.version => new.password = u.password
    PROVE  Follows(c, new) /\ (new.version > u.version => c.version < new.version)
BY DEF Follows, User

(* The sessions and requests after a write: the same ones, of which the     *)
(* invariant goes on to speak only when the copy was not stale.             *)
LEMMA AfterWrite ==
    ASSUME IInv, NEW h \in Handlers, user # Nil
    PROVE  /\ SessionsAfter(h) \in SUBSET Session
           /\ \A j \in SessionsAfter(h) : \E i \in jwts :
                 /\ j.version = i.version /\ j.password = i.password /\ j.epoch = i.epoch
                 /\ j.intact => i.intact /\ ~Stale(h)
           /\ RequestsAfter(h) \in [Handlers -> Request]
           /\ \A k \in Handlers :
                 /\ RequestsAfter(h)[k].copy = req[k].copy
                 /\ RequestsAfter(h)[k].op = req[k].op
                 /\ RequestsAfter(h)[k].stage = req[k].stage
                 /\ req[k].stage # "idle" /\ RequestsAfter(h)[k].intact
                       => req[k].intact /\ ~Stale(h)
<1>. PICK s \in BOOLEAN : s = ~Stale(h)
  BY DEF Stale
<1>1. ASSUME NEW i \in jwts, NEW b \in BOOLEAN, b = (i.intact /\ s)
      PROVE  /\ [i EXCEPT !.intact = b] \in Session
             /\ [i EXCEPT !.intact = b].version = i.version
             /\ [i EXCEPT !.intact = b].password = i.password
             /\ [i EXCEPT !.intact = b].epoch = i.epoch
             /\ [i EXCEPT !.intact = b].intact = b
  BY DEF IInv, SessTypeOK, Session
<1>2. ASSUME NEW i \in jwts PROVE \E b \in BOOLEAN : b = (i.intact /\ s)
  BY DEF IInv, SessTypeOK, Session
<1>3. ASSUME NEW j \in SessionsAfter(h)
      PROVE  /\ j \in Session
             /\ \E i \in jwts :
                   /\ j.version = i.version /\ j.password = i.password /\ j.epoch = i.epoch
                   /\ j.intact => i.intact /\ ~Stale(h)
  <2>1. PICK i \in jwts : j = [i EXCEPT !.intact = i.intact /\ ~Stale(h)]
    BY DEF SessionsAfter
  <2>2. PICK b \in BOOLEAN : b = (i.intact /\ s)
    BY <1>2
  <2>3. j = [i EXCEPT !.intact = b]
    BY <2>1, <2>2
  <2>4. j.intact => i.intact /\ ~Stale(h)
    BY <2>2, <2>3, <1>1, Zenon
  <2>. QED  BY <2>2, <2>3, <2>4, <1>1
<1>4. ASSUME NEW k \in Handlers
      PROVE  /\ RequestsAfter(h)[k] \in Request
             /\ RequestsAfter(h)[k].copy = req[k].copy
             /\ RequestsAfter(h)[k].op = req[k].op
             /\ RequestsAfter(h)[k].stage = req[k].stage
             /\ req[k].stage # "idle" /\ RequestsAfter(h)[k].intact
                   => req[k].intact /\ ~Stale(h)
  <2>1. req[k] \in Request
    BY DEF IInv, SessTypeOK, Request
  <2>2. PICK t \in BOOLEAN : t = (req[k].stage = "idle")
    OBVIOUS
  <2>3. PICK b \in BOOLEAN : b = (req[k].intact /\ (t \/ s))
    BY <2>1 DEF Request
  <2>4. RequestsAfter(h)[k] = [req[k] EXCEPT !.intact = req[k].intact
                                                /\ (req[k].stage = "idle" \/ ~Stale(h))]
    BY DEF RequestsAfter
  <2>5. RequestsAfter(h)[k] = [req[k] EXCEPT !.intact = b]
    BY <2>2, <2>3, <2>4
  <2>6. /\ RequestsAfter(h)[k] \in Request
        /\ RequestsAfter(h)[k].copy = req[k].copy
        /\ RequestsAfter(h)[k].op = req[k].op
        /\ RequestsAfter(h)[k].stage = req[k].stage
        /\ RequestsAfter(h)[k].intact = b
    BY <2>1, <2>5 DEF Request
  <2>. QED  BY <2>2, <2>3, <2>6, Zenon
<1>5. RequestsAfter(h) \in [Handlers -> Request]
  BY <1>4 DEF RequestsAfter
<1>. QED  BY <1>3, <1>4, <1>5

(* The write of a copy that is not stale replaces the record by a successor *)
(* of itself; after the write of a stale one the invariant has nothing left *)
(* to say.                                                                  *)
LEMMA Overwritten ==
    ASSUME IInv, NEW h \in Handlers, user # Nil, req[h].copy \in User,
           NEW new \in User, user' = new,
           new.version >= req[h].copy.version,
           new.version = req[h].copy.version => new.password = req[h].copy.password,
           bumps' = bumps \/ (bumps' = bumps + 1 /\ new.version > req[h].copy.version),
           jwts' = SessionsAfter(h)
    PROVE  /\ jwts' \in SUBSET Session /\ bumps' \in Nat /\ JwtInv' /\ EpochInv'
           /\ \A k \in Handlers :
                 req[k].stage # "idle" /\ RequestsAfter(h)[k].intact
                    => Follows(req[k].copy, new)
<1>. USE DEF IInv
<1>0. user \in User /\ bumps \in Nat /\ jwts \in SUBSET Session
  BY DEF SessTypeOK
<1>1. ~Stale(h) => /\ new.version >= user.version
                   /\ new.version = user.version => new.password = user.password
                   /\ bumps' # bumps => new.version > user.version
  BY DEF Stale
<1>2. jwts' \in SUBSET Session /\ bumps' \in Nat
  BY <1>0, AfterWrite
<1>3. ASSUME NEW j \in jwts'
      PROVE  /\ j.epoch <= bumps'
             /\ j.intact => Follows(j, new) /\ (j.epoch < bumps' => j.version < new.version)
  <2>1. PICK i \in jwts :
          /\ j.version = i.version /\ j.password = i.password /\ j.epoch = i.epoch
          /\ j.intact => i.intact /\ ~Stale(h)
    BY <1>3, AfterWrite
  <2>2. i.version \in Nat /\ i.epoch \in Nat /\ i.epoch <= bumps
    BY <1>0 DEF Session, EpochInv
  <2>3. j.epoch <= bumps'
    BY <2>1, <2>2, <1>0
  <2>4. ASSUME j.intact
        PROVE  Follows(j, new) /\ (j.epoch < bumps' => j.version < new.version)
    <3>1. i.intact /\ ~Stale(h)
      BY <2>1, <2>4
    <3>2. Follows(i, user) /\ (i.epoch < bumps => i.version < user.version)
      BY <3>1 DEF JwtInv
    <3>3. Follows(i, new) /\ (new.version > user.version => i.version < new.version)
      BY <3>1, <3>2, <2>2, <1>0, <1>1, FollowsOn
    <3>4. user.version \in Nat /\ new.version \in Nat
      BY <1>0 DEF User
    <3>5. i.epoch < bumps' => i.version < new.version
      BY <3>1, <3>2, <3>3, <3>4, <2>2, <1>0, <1>1
    <3>. QED  BY <2>1, <3>3, <3>5 DEF Follows
  <2>. QED  BY <2>3, <2>4
<1>4. JwtInv' /\ EpochInv'
  BY <1>3 DEF JwtInv, EpochInv
<1>5. ASSUME NEW k \in Handlers, req[k].stage # "idle", RequestsAfter(h)[k].intact
      PROVE  Follows(req[k].copy, new)
  <2>1. req[k].intact /\ ~Stale(h)
    BY <1>5, AfterWrite
  <2>2. Follows(req[k].copy, user)
    BY <1>5, <2>1 DEF CopyInv
  <2>3. req[k].copy.version \in Nat
    BY <1>5, NilNotRecord DEF SessTypeOK, User
  <2>. QED  BY <2>1, <2>2, <2>3, <1>0, <1>1, FollowsOn
<1>. QED  BY <1>2, <1>4, <1>5

LEMMA WriteInv ==
    ASSUME IInv, NEW h \in Handlers, Write(h)
    PROVE  IInv'
<1>. USE DEF IInv
<1>0. /\ user # Nil /\ req[h].stage = "write" /\ req[h].op \in Writing
      /\ req[h].copy \in User /\ jwts' = SessionsAfter(h)
      /\ bumps' = IF req[h].op \in Revoking THEN bumps + 1 ELSE bumps
  BY DEF Write, SessTypeOK, WriterInv
<1>. PICK new \in Changed(req[h].op, req[h].copy) :
        /\ user' = new
        /\ req' = [RequestsAfter(h) EXCEPT
                     ![h] = IF req[h].op \in Minting THEN [@ EXCEPT !.copy = new, !.stage = "mint"]
                            ELSE NoRequest]
  BY DEF Write
<1>1. /\ new \in User /\ new # Nil
      /\ req[h].op \in Revoking => new.version = req[h].copy.version + 1
      /\ req[h].op \notin Revoking => /\ new.version = req[h].copy.version
                                      /\ new.password = req[h].copy.password
  BY <1>0, ChangedFacts, NilNotRecord
<1>2. /\ req[h].copy.version \in Nat /\ new.version \in Nat
  BY <1>0, <1>1 DEF User
<1>3. /\ jwts' \in SUBSET Session /\ bumps' \in Nat /\ JwtInv' /\ EpochInv'
      /\ \A k \in Handlers : req[k].stage # "idle" /\ RequestsAfter(h)[k].intact
            => Follows(req[k].copy, new)
  BY <1>0, <1>1, <1>2, Overwritten
<1>4. PICK R : R = RequestsAfter(h)
  OBVIOUS
<1>5. /\ R \in [Handlers -> Request]
      /\ \A k \in Handlers : R[k].copy = req[k].copy /\ R[k].op = req[k].op
                               /\ R[k].stage = req[k].stage
  BY <1>4, AfterWrite, <1>0
<1>6. PICK row : row = IF req[h].op \in Minting THEN [R[h] EXCEPT !.copy = new, !.stage = "mint"]
                       ELSE NoRequest
  OBVIOUS
<1>7. row \in Request /\ (row.stage = "idle" \/ (row.stage = "mint" /\ row.copy = new))
  BY <1>1, <1>5, <1>6, IdleTyped DEF Request
<1>8. req' = [R EXCEPT ![h] = row]
  BY <1>4, <1>6
<1>9. req' \in [Handlers -> Request] /\ req'[h] = row
        /\ \A k \in Handlers \ {h} : req'[k] = R[k]
  BY <1>5, <1>7, <1>8
<1>10. SessTypeOK'
  <2>1. \A k \in Handlers : req'[k].stage # "idle" => req'[k].copy # Nil
    BY <1>1, <1>5, <1>7, <1>9 DEF SessTypeOK
  <2>. QED  BY <2>1, <1>1, <1>3, <1>9 DEF SessTypeOK, Request
<1>11. WriterInv'
  BY <1>5, <1>7, <1>9 DEF WriterInv
<1>12. Follows(new, new)
  BY <1>2 DEF Follows
<1>13. CopyInv'
  <2>. SUFFICES ASSUME NEW k \in Handlers, req'[k].stage # "idle", req'[k].intact
                PROVE  Follows(req'[k].copy, new)
    BY DEF CopyInv
  <2>1. CASE k = h
    BY <2>1, <1>7, <1>9, <1>12
  <2>2. CASE k # h
    BY <2>2, <1>3, <1>4, <1>5, <1>9
  <2>. QED  BY <2>1, <2>2
<1>. QED  BY <1>3, <1>10, <1>11, <1>13

LEMMA RotateInv ==
    ASSUME IInv, NEW h \in Handlers, RotateCredential(h)
    PROVE  IInv'
<1>. USE DEF IInv
<1>0. /\ user # Nil /\ req[h].copy \in User /\ user' = req[h].copy
      /\ jwts' = SessionsAfter(h) /\ bumps' = bumps /\ req' = RequestsAfter(h)
  BY DEF RotateCredential, SessTypeOK
<1>1. req[h].copy.version \in Nat /\ req[h].copy # Nil
  BY <1>0, NilNotRecord DEF User
<1>2. /\ jwts' \in SUBSET Session /\ bumps' \in Nat /\ JwtInv' /\ EpochInv'
      /\ \A k \in Handlers : req[k].stage # "idle" /\ RequestsAfter(h)[k].intact
            => Follows(req[k].copy, req[h].copy)
  BY <1>0, <1>1, Overwritten
<1>3. /\ req' \in [Handlers -> Request]
      /\ \A k \in Handlers : req'[k].copy = req[k].copy /\ req'[k].op = req[k].op
                               /\ req'[k].stage = req[k].stage
  BY <1>0, AfterWrite
<1>4. SessTypeOK'
  BY <1>0, <1>1, <1>2, <1>3 DEF SessTypeOK, Request
<1>5. WriterInv' /\ CopyInv'
  BY <1>0, <1>2, <1>3 DEF WriterInv, CopyInv
<1>. QED  BY <1>2, <1>4, <1>5

LEMMA MintInv ==
    ASSUME IInv, NEW h \in Handlers, Mint(h)
    PROVE  IInv'
<1>. USE DEF IInv
<1>0. /\ req[h].stage = "mint" /\ req[h].copy \in User /\ req[h].intact \in BOOLEAN
      /\ user' = user /\ bumps' = bumps /\ bumps \in Nat /\ req' = [req EXCEPT ![h] = NoRequest]
  BY DEF Mint, SessTypeOK
<1>1. /\ req' \in [Handlers -> Request] /\ req'[h] = NoRequest
      /\ \A k \in Handlers \ {h} : req'[k] = req[k]
  BY <1>0, IdleTyped DEF SessTypeOK, Request
<1>. DEFINE n == [version |-> req[h].copy.version, password |-> req[h].copy.password,
                  epoch |-> bumps, intact |-> req[h].intact]
<1>2. jwts' = jwts \cup {n} /\ n \in Session
  BY <1>0 DEF Mint, User, Session
<1>3. SessTypeOK'
  <2>1. \A k \in Handlers : req'[k].stage # "idle" => req'[k].copy # Nil
    BY <1>1, IdleTyped DEF SessTypeOK
  <2>. HIDE DEF n
  <2>. QED  BY <2>1, <1>0, <1>1, <1>2 DEF SessTypeOK, Request
<1>4. WriterInv' /\ CopyInv'
  BY <1>0, <1>1, IdleTyped DEF WriterInv, CopyInv
<1>5. /\ n.epoch = bumps /\ ~(n.epoch < bumps) /\ n.epoch <= bumps
      /\ user # Nil /\ n.intact => Follows(n, user)
  BY <1>0 DEF CopyInv, Follows
<1>6. JwtInv' /\ EpochInv'
  <2>. HIDE DEF n
  <2>. QED  BY <1>0, <1>2, <1>5 DEF JwtInv, EpochInv
<1>. QED  BY <1>3, <1>4, <1>6

LEMMA OtherInv ==
    ASSUME IInv, \/ \E h \in Handlers : FailRequest(h)
                 \/ DeleteUser
                 \/ UNCHANGED sessVars
    PROVE  IInv'
<1>. USE DEF IInv
<1>1. ASSUME NEW h \in Handlers, FailRequest(h) PROVE IInv'
  <2>1. /\ req' \in [Handlers -> Request] /\ req'[h] = NoRequest
        /\ \A k \in Handlers \ {h} : req'[k] = req[k]
    BY <1>1, IdleTyped DEF FailRequest, SessTypeOK, Request
  <2>2. \A k \in Handlers : req'[k].stage # "idle" => req'[k].copy # Nil
    BY <2>1, IdleTyped DEF SessTypeOK
  <2>3. SessTypeOK'
    BY <1>1, <2>1, <2>2 DEF FailRequest, SessTypeOK, Request
  <2>. QED
    BY <1>1, <2>1, <2>3, IdleTyped DEF FailRequest, WriterInv, CopyInv, JwtInv, EpochInv
<1>2. CASE DeleteUser
  BY <1>2 DEF DeleteUser, SessTypeOK, WriterInv, CopyInv, JwtInv, EpochInv
<1>3. CASE UNCHANGED sessVars
  BY <1>3 DEF sessVars, SessTypeOK, WriterInv, CopyInv, JwtInv, EpochInv
<1>. QED  BY <1>1, <1>2, <1>3

LEMMA NextInv == ASSUME IInv, [SessNext]_sessVars PROVE IInv'
<1>1. ASSUME NEW h \in Handlers, NEW op \in Writing \cup Minting, Read(h, op) PROVE IInv'
  BY <1>1, ReadInv
<1>2. ASSUME NEW h \in Handlers, Write(h) PROVE IInv'
  BY <1>2, WriteInv
<1>3. ASSUME NEW h \in Handlers, RotateCredential(h) PROVE IInv'
  BY <1>3, RotateInv
<1>4. ASSUME NEW h \in Handlers, Mint(h) PROVE IInv'
  BY <1>4, MintInv
<1>. QED  BY <1>1, <1>2, <1>3, <1>4, OtherInv DEF SessNext

-----------------------------------------------------------------------------
(* The inductive invariant holds of every behaviour: the copies and the     *)
(* sessions read since the last stale write follow the record.              *)
THEOREM Inductive == SessSpec => []IInv
<1>1. IInv /\ [SessNext]_sessVars => IInv'
  BY NextInv
<1>. QED  BY <1>1, InitInv, PTL DEF SessSpec

(* The record, the copies and the sessions keep their types: the counter    *)
(* is a natural number and no request writes a partial record, whoever      *)
(* else writes.                                                             *)
THEOREM SessTypeHolds == SessSpec => []SessTypeOK
<1>1. IInv => SessTypeOK
  BY DEF IInv
<1>. QED  BY <1>1, Inductive, PTL

(* user_service.go: after a completed logout, password change or reset a    *)
(* session minted before passes identityForUser again only if a copy whose  *)
(* version or password was no longer the record's has been written back     *)
(* since that session's record was read.                                    *)
THEOREM RevivalNeedsStaleWrite == SessSpec => []RevivedOnlyByStaleWrite
<1>1. IInv => RevivedOnlyByStaleWrite
  <2>. SUFFICES ASSUME IInv, NEW j \in jwts, j.epoch < bumps, Valid(j), j.intact
                PROVE  FALSE
    BY DEF RevivedOnlyByStaleWrite
  <2>1. user \in User /\ j.version = user.version
    BY DEF IInv, SessTypeOK, Valid
  <2>2. j.version < user.version
    BY DEF IInv, JwtInv, Valid
  <2>. QED  BY <2>1, <2>2 DEF User
<1>. QED  BY <1>1, Inductive, PTL

(* setPassword: a session minted from a record with another password is     *)
(* valid, even handed out after the change to a login that had checked the  *)
(* old password before it, only after the write of a stale copy.            *)
THEOREM OldPasswordNeedsStaleWrite == SessSpec => []OldPasswordOnlyByStaleWrite
<1>1. IInv => OldPasswordOnlyByStaleWrite
  BY DEF IInv, JwtInv, OldPasswordOnlyByStaleWrite, Valid, Follows
<1>. QED  BY <1>1, Inductive, PTL
=============================================================================
