------------------------------ MODULE MetaFSM ------------------------------
(***************************************************************************)
(* The replicated metadata store: the Raft finite state machine of         *)
(* internal/repository/fsm.go and its snapshot (fsm_snapshot.go).          *)
(*                                                                         *)
(* fsmState keeps seven tables (users, groups, memberships, tokens,        *)
(* projects, traces, meta) and, beside them, the reverse indices that the  *)
(* read helpers dereference without a check.  applyCommand runs one log    *)
(* entry at a time under the write lock, so every action below is one      *)
(* entry.  A command that returns an error changes nothing: its guards are *)
(* the conjuncts of the action, and the failing case is a stuttering step. *)
(*                                                                         *)
(* A map with an absent key is a total function with the value Nil; the    *)
(* two membership maps, whose empty sets the code removes, are functions   *)
(* to sets where the empty set stands for the absent key.  Of a row, only  *)
(* the fields that another table, an index or a rule depends on are kept.  *)
(* Session commands do not touch fsmState (they go to the session sink).   *)
(***************************************************************************)
CONSTANTS
    UserIds, GroupIds, ProjectIds, TokenIds, TraceIds,   \* primary keys
    Names,          \* usernames, group names and project names, as written
    OAuthKeys,      \* the values of oauthKey(provider, oauthID)
    Hashes,         \* API token hashes
    Versions,       \* engine versions
    Reasons,        \* failure reasons of kindMarkTraceFailed
    MetaKeys, MetaValues,
    Lower(_),       \* strings.ToLower on Names
    Nil             \* the absent row, and the empty string in an id field

ASSUME LowerAssumption == \A n \in Names : Lower(n) \in Names

ASSUME NilAssumption ==
    /\ Nil \notin UserIds \cup GroupIds \cup ProjectIds \cup TokenIds
    /\ Nil \notin TraceIds \cup Names \cup OAuthKeys \cup Hashes
    /\ Nil \notin Versions \cup Reasons \cup MetaValues

VARIABLES
    users, usersByName, usersByOAuth,
    groups, groupsByName, memberships, membershipsByUser,
    tokens, tokensByHash, tokensByUser,
    projects, projectsByName,
    traces, meta

userVars    == <<users, usersByName, usersByOAuth>>
groupVars   == <<groups, groupsByName>>
memberVars  == <<memberships, membershipsByUser>>
tokenVars   == <<tokens, tokensByHash, tokensByUser>>
projectVars == <<projects, projectsByName>>
vars == <<users, usersByName, usersByOAuth, groups, groupsByName,
          memberships, membershipsByUser, tokens, tokensByHash, tokensByUser,
          projects, projectsByName, traces, meta>>

-----------------------------------------------------------------------------
(* Rows.  A status is what OTLP extraction produces ("" when the batch      *)
(* holds no root span).                                                     *)

Terminal == {"success", "failed"}
Statuses == {"", "running"} \cup Terminal

User    == [name: Names, oauth: OAuthKeys \cup {Nil}]
Group   == [name: Names]
Token   == [user: UserIds, hash: Hashes, used: BOOLEAN]
Project == [name: Names, group: GroupIds \cup {Nil}]
Trace   == [user: UserIds \cup {Nil}, group: GroupIds \cup {Nil},
            status: Statuses, reason: Reasons \cup {Nil},
            version: Versions \cup {Nil}]

ASSUME RowAssumption ==
    Nil \notin User /\ Nil \notin Group /\ Nil \notin Token /\ Nil \notin Project
      /\ Nil \notin Trace

UserTypeOK ==
    /\ users \in [UserIds -> User \cup {Nil}]
    /\ usersByName \in [Names -> UserIds \cup {Nil}]
    /\ usersByOAuth \in [OAuthKeys -> UserIds \cup {Nil}]

GroupTypeOK ==
    /\ groups \in [GroupIds -> Group \cup {Nil}]
    /\ groupsByName \in [Names -> GroupIds \cup {Nil}]

MemberTypeOK ==
    /\ memberships \in [GroupIds -> SUBSET UserIds]
    /\ membershipsByUser \in [UserIds -> SUBSET GroupIds]

TokenTypeOK ==
    /\ tokens \in [TokenIds -> Token \cup {Nil}]
    /\ tokensByHash \in [Hashes -> TokenIds \cup {Nil}]
    /\ tokensByUser \in [UserIds -> TokenIds \cup {Nil}]

ProjectTypeOK ==
    /\ projects \in [ProjectIds -> Project \cup {Nil}]
    /\ projectsByName \in [Names -> ProjectIds \cup {Nil}]

TraceTypeOK == traces \in [TraceIds -> Trace \cup {Nil}]

MetaTypeOK == meta \in [MetaKeys -> MetaValues \cup {Nil}]

TypeOK == /\ UserTypeOK /\ GroupTypeOK /\ MemberTypeOK /\ TokenTypeOK
          /\ ProjectTypeOK /\ TraceTypeOK /\ MetaTypeOK

Init ==
    /\ users = [u \in UserIds |-> Nil]
    /\ usersByName = [n \in Names |-> Nil]
    /\ usersByOAuth = [k \in OAuthKeys |-> Nil]
    /\ groups = [g \in GroupIds |-> Nil]
    /\ groupsByName = [n \in Names |-> Nil]
    /\ memberships = [g \in GroupIds |-> {}]
    /\ membershipsByUser = [u \in UserIds |-> {}]
    /\ tokens = [t \in TokenIds |-> Nil]
    /\ tokensByHash = [h \in Hashes |-> Nil]
    /\ tokensByUser = [u \in UserIds |-> Nil]
    /\ projects = [p \in ProjectIds |-> Nil]
    /\ projectsByName = [n \in Names |-> Nil]
    /\ traces = [t \in TraceIds |-> Nil]
    /\ meta = [k \in MetaKeys |-> Nil]

\* Mutation: the entry of the old key stays in the index.
ReindexKeepsOld(index, old, new, id) ==
    [k \in DOMAIN index |-> IF k = new THEN id ELSE index[k]]

(* delete(index, old) followed by index[new] = id.  With old or new = Nil   *)
(* the delete or the insert does not happen (no key of an index is Nil).    *)
Reindex(index, old, new, id) ==
    [k \in DOMAIN index |-> IF k = new THEN id
                            ELSE IF k = old THEN Nil ELSE index[k]]

-----------------------------------------------------------------------------
(* Users.                                                                   *)

CreateUser(id, name, oauth) ==
    /\ users[id] = Nil
    /\ usersByName[Lower(name)] = Nil
    /\ oauth # Nil => usersByOAuth[oauth] = Nil
    /\ users' = [users EXCEPT ![id] = [name |-> name, oauth |-> oauth]]
    /\ usersByName' = Reindex(usersByName, Nil, Lower(name), id)
    /\ usersByOAuth' = Reindex(usersByOAuth, Nil, oauth, id)
    /\ UNCHANGED <<groupVars, memberVars, tokenVars, projectVars, traces, meta>>

UpdateUser(id, name, oauth) ==
    /\ users[id] # Nil
    /\ usersByName[Lower(name)] \in {Nil, id}
    /\ oauth # Nil => usersByOAuth[oauth] \in {Nil, id}
    /\ users' = [users EXCEPT ![id] = [name |-> name, oauth |-> oauth]]
    /\ usersByName' = Reindex(usersByName, Lower(users[id].name), Lower(name), id)
    /\ usersByOAuth' = Reindex(usersByOAuth, users[id].oauth, oauth, id)
    /\ UNCHANGED <<groupVars, memberVars, tokenVars, projectVars, traces, meta>>

(* removeToken(tid), which does nothing for Nil, then storeToken(id, row)   *)
(* unless id is Nil.                                                        *)
ReplaceToken(tid, id, row) ==
    LET oldHash == IF tid = Nil THEN Nil ELSE tokens[tid].hash
        oldUser == IF tid = Nil THEN Nil ELSE tokens[tid].user
        newHash == IF id = Nil THEN Nil ELSE row.hash
        newUser == IF id = Nil THEN Nil ELSE row.user
    IN  /\ tokens' = [t \in TokenIds |-> IF t = id THEN row
                                         ELSE IF t = tid THEN Nil ELSE tokens[t]]
        /\ tokensByHash' = Reindex(tokensByHash, oldHash, newHash, id)
        /\ tokensByUser' = Reindex(tokensByUser, oldUser, newUser, id)

MembershipsWithout(id) ==
    [g \in GroupIds |-> IF g \in membershipsByUser[id] THEN memberships[g] \ {id}
                                                       ELSE memberships[g]]

TracesWithoutUser(id) ==
    [t \in TraceIds |-> IF traces[t] # Nil /\ traces[t].user = id
                        THEN [traces[t] EXCEPT !.user = Nil] ELSE traces[t]]

DeleteUser(id) ==
    /\ users[id] # Nil
    /\ ReplaceToken(tokensByUser[id], Nil, Nil)
    /\ memberships' = MembershipsWithout(id)
    /\ membershipsByUser' = [membershipsByUser EXCEPT ![id] = {}]
    /\ traces' = TracesWithoutUser(id)
    /\ users' = [users EXCEPT ![id] = Nil]
    /\ usersByName' = Reindex(usersByName, Lower(users[id].name), Nil, Nil)
    /\ usersByOAuth' = Reindex(usersByOAuth, users[id].oauth, Nil, Nil)
    /\ UNCHANGED <<groupVars, projectVars, meta>>

-----------------------------------------------------------------------------
(* Groups and memberships.                                                  *)

CreateGroup(id, name) ==
    /\ groups[id] = Nil
    /\ groupsByName[Lower(name)] = Nil
    /\ groups' = [groups EXCEPT ![id] = [name |-> name]]
    /\ groupsByName' = Reindex(groupsByName, Nil, Lower(name), id)
    /\ UNCHANGED <<userVars, memberVars, tokenVars, projectVars, traces, meta>>

UpdateGroup(id, name) ==
    /\ groups[id] # Nil
    /\ groupsByName[Lower(name)] \in {Nil, id}
    /\ groups' = [groups EXCEPT ![id] = [name |-> name]]
    /\ groupsByName' = Reindex(groupsByName, Lower(groups[id].name), Lower(name), id)
    /\ UNCHANGED <<userVars, memberVars, tokenVars, projectVars, traces, meta>>

DeleteGroup(id) ==
    /\ groups[id] # Nil
    /\ membershipsByUser' = [u \in UserIds |->
                               IF u \in memberships[id] THEN membershipsByUser[u] \ {id}
                                                        ELSE membershipsByUser[u]]
    /\ memberships' = [memberships EXCEPT ![id] = {}]
    /\ projects' = [p \in ProjectIds |->
                      IF projects[p] # Nil /\ projects[p].group = id
                      THEN [projects[p] EXCEPT !.group = Nil] ELSE projects[p]]
    /\ traces' = [t \in TraceIds |->
                    IF traces[t] # Nil /\ traces[t].group = id
                    THEN [traces[t] EXCEPT !.group = Nil] ELSE traces[t]]
    /\ groups' = [groups EXCEPT ![id] = Nil]
    /\ groupsByName' = Reindex(groupsByName, Lower(groups[id].name), Nil, Nil)
    /\ UNCHANGED <<userVars, tokenVars, projectsByName, meta>>

\* Mutation: unknown users are not rejected by the state machine.
MembersUnchecked(members) == TRUE

MembersKnown(members) == \A u \in members : users[u] # Nil

(* Old reverse edges are removed, then each new edge is added both ways.    *)
SetMembers(id, members) ==
    /\ groups[id] # Nil
    /\ MembersKnown(members)
    /\ memberships' = [memberships EXCEPT ![id] = members]
    /\ membershipsByUser' =
         [u \in UserIds |-> IF u \in members THEN membershipsByUser[u] \cup {id}
                            ELSE IF u \in memberships[id] THEN membershipsByUser[u] \ {id}
                            ELSE membershipsByUser[u]]
    /\ UNCHANGED <<userVars, groupVars, tokenVars, projectVars, traces, meta>>

-----------------------------------------------------------------------------
(* Projects.  The group id is not validated by the state machine.           *)

CreateProject(id, name, group) ==
    /\ projects[id] = Nil
    /\ projectsByName[Lower(name)] = Nil
    /\ projects' = [projects EXCEPT ![id] = [name |-> name, group |-> group]]
    /\ projectsByName' = Reindex(projectsByName, Nil, Lower(name), id)
    /\ UNCHANGED <<userVars, groupVars, memberVars, tokenVars, traces, meta>>

UpdateProject(id, name, group) ==
    /\ projects[id] # Nil
    /\ projectsByName[Lower(name)] \in {Nil, id}
    /\ projects' = [projects EXCEPT ![id] = [name |-> name, group |-> group]]
    /\ projectsByName' = Reindex(projectsByName, Lower(projects[id].name), Lower(name), id)
    /\ UNCHANGED <<userVars, groupVars, memberVars, tokenVars, traces, meta>>

DeleteProject(id) ==
    /\ projects[id] # Nil
    /\ projects' = [projects EXCEPT ![id] = Nil]
    /\ projectsByName' = Reindex(projectsByName, Lower(projects[id].name), Nil, Nil)
    /\ UNCHANGED <<userVars, groupVars, memberVars, tokenVars, traces, meta>>

-----------------------------------------------------------------------------
(* API tokens, one per user.  The id of a new token comes from newID() and  *)
(* is not in use; the hash may be (the legacy importer stores known         *)
(* plaintexts); the owner is not looked up in users.                        *)

\* Mutation: a regenerated token leaves the old row and its hash behind.
NoExistingToken(user) == Nil

ExistingToken(user) == tokensByUser[user]

UpsertToken(id, user, hash) ==
    /\ tokens[id] = Nil
    /\ tokensByHash[hash] \in {Nil, ExistingToken(user)}
    /\ ReplaceToken(ExistingToken(user), id,
                    [user |-> user, hash |-> hash, used |-> FALSE])
    /\ UNCHANGED <<userVars, groupVars, memberVars, projectVars, traces, meta>>

DeleteToken(user) ==
    /\ tokensByUser[user] # Nil
    /\ ReplaceToken(tokensByUser[user], Nil, Nil)
    /\ UNCHANGED <<userVars, groupVars, memberVars, projectVars, traces, meta>>

TouchToken(id) ==
    /\ tokens[id] # Nil
    /\ tokens' = [tokens EXCEPT ![id].used = TRUE]
    /\ UNCHANGED <<userVars, groupVars, memberVars, tokensByHash, tokensByUser,
                   projectVars, traces, meta>>

-----------------------------------------------------------------------------
(* Trace metadata and the meta key/value table.                             *)

FirstNonEmpty(old, new) == IF old = Nil THEN new ELSE old
NewNonEmpty(old, new)   == IF new = Nil THEN old ELSE new

(* user_id: first non-empty wins; version: new non-empty wins.              *)
ProvisionInto(row, user, version) ==
    [row EXCEPT !.user = FirstNonEmpty(@, user), !.version = NewNonEmpty(@, version)]

UpsertTraceProvision(id, user, version) ==
    /\ traces' = [traces EXCEPT ![id] =
         IF @ = Nil
         THEN [user |-> user, group |-> Nil, status |-> "", reason |-> Nil,
               version |-> version]
         ELSE ProvisionInto(@, user, version)]
    /\ UNCHANGED <<userVars, groupVars, memberVars, tokenVars, projectVars, meta>>

\* Mutation: any status of the batch overwrites the recorded one.
IngestStatusOverwrites(old, status) == IF status = "" THEN old ELSE status

(* A terminal status is authoritative; any other one never replaces it.     *)
IngestStatus(old, status) ==
    IF status \in Terminal \/ (status # "" /\ old \notin Terminal) THEN status ELSE old

IngestReason(old, status) == IF status \in Terminal THEN Nil ELSE old

\* Mutation: the owner of the latest batch replaces the recorded owner.
IngestReplacesOwner(row, user, group, status, version) ==
    [row EXCEPT !.user = NewNonEmpty(@, user),
                !.group = FirstNonEmpty(@, group),
                !.status = IngestStatus(@, status),
                !.reason = IngestReason(@, status),
                !.version = NewNonEmpty(@, version)]

(* The ON CONFLICT update: user_id is set on insert only.                   *)
IngestInto(row, user, group, status, version) ==
    [row EXCEPT !.group = FirstNonEmpty(@, group),
                !.status = IngestStatus(@, status),
                !.reason = IngestReason(@, status),
                !.version = NewNonEmpty(@, version)]

UpsertTraceIngest(id, user, group, status, version) ==
    /\ traces' = [traces EXCEPT ![id] =
         IF @ = Nil
         THEN [user |-> user, group |-> group, status |-> status, reason |-> Nil,
               version |-> version]
         ELSE IngestInto(@, user, group, status, version)]
    /\ UNCHANGED <<userVars, groupVars, memberVars, tokenVars, projectVars, meta>>

\* Mutation: the reason is stored as the status.
MarkTraceFailedSwapped(id, reason) ==
    /\ traces[id] # Nil
    /\ traces[id].status \notin Terminal
    /\ traces' = [traces EXCEPT ![id].status = reason, ![id].reason = reason]
    /\ UNCHANGED <<userVars, groupVars, memberVars, tokenVars, projectVars, meta>>

MarkTraceFailed(id, reason) ==
    /\ traces[id] # Nil
    /\ traces[id].status \notin Terminal
    /\ traces' = [traces EXCEPT ![id].status = "failed", ![id].reason = reason]
    /\ UNCHANGED <<userVars, groupVars, memberVars, tokenVars, projectVars, meta>>

DeleteTrace(id) ==
    /\ traces' = [traces EXCEPT ![id] = Nil]
    /\ UNCHANGED <<userVars, groupVars, memberVars, tokenVars, projectVars, meta>>

SetMeta(key, value) ==
    /\ meta' = [meta EXCEPT ![key] = value]
    /\ UNCHANGED <<userVars, groupVars, memberVars, tokenVars, projectVars, traces>>

-----------------------------------------------------------------------------
UserCommand ==
    \E id \in UserIds :
        \/ \E name \in Names, oauth \in OAuthKeys \cup {Nil} :
              CreateUser(id, name, oauth) \/ UpdateUser(id, name, oauth)
        \/ DeleteUser(id)

GroupCommand ==
    \E id \in GroupIds :
        \/ \E name \in Names : CreateGroup(id, name) \/ UpdateGroup(id, name)
        \/ DeleteGroup(id)
        \/ \E members \in SUBSET UserIds : SetMembers(id, members)

ProjectCommand ==
    \E id \in ProjectIds :
        \/ \E name \in Names, group \in GroupIds \cup {Nil} :
              CreateProject(id, name, group) \/ UpdateProject(id, name, group)
        \/ DeleteProject(id)

TokenCommand ==
    \/ \E id \in TokenIds, user \in UserIds, hash \in Hashes : UpsertToken(id, user, hash)
    \/ \E user \in UserIds : DeleteToken(user)
    \/ \E id \in TokenIds : TouchToken(id)

TraceCommand ==
    \E id \in TraceIds :
        \/ \E user \in UserIds \cup {Nil}, version \in Versions \cup {Nil} :
              \/ UpsertTraceProvision(id, user, version)
              \/ \E group \in GroupIds \cup {Nil}, status \in Statuses :
                    UpsertTraceIngest(id, user, group, status, version)
        \/ \E reason \in Reasons : MarkTraceFailed(id, reason)
        \/ DeleteTrace(id)

MetaCommand == \E key \in MetaKeys, value \in MetaValues : SetMeta(key, value)

Next == UserCommand \/ GroupCommand \/ ProjectCommand \/ TokenCommand
          \/ TraceCommand \/ MetaCommand

Spec == Init /\ [][Next]_vars

-----------------------------------------------------------------------------
(* Safety.                                                                  *)

UserIndexInv ==
    /\ \A n \in Names, u \in UserIds :
          usersByName[n] = u <=> (users[u] # Nil /\ Lower(users[u].name) = n)
    /\ \A k \in OAuthKeys, u \in UserIds :
          usersByOAuth[k] = u <=> (users[u] # Nil /\ users[u].oauth = k)

GroupIndexInv ==
    \A n \in Names, g \in GroupIds :
        groupsByName[n] = g <=> (groups[g] # Nil /\ Lower(groups[g].name) = n)

ProjectIndexInv ==
    \A n \in Names, p \in ProjectIds :
        projectsByName[n] = p <=> (projects[p] # Nil /\ Lower(projects[p].name) = n)

(* Every index entry names exactly the live row that carries its key, for   *)
(* users (by lower-cased name and by OAuth identity), groups and projects.  *)
(* readUserByUsername and its siblings dereference the row an index names   *)
(* without testing for nil, and the conflict checks of upsert* look only at *)
(* the index: a stale or missing entry is a nil dereference or two rows     *)
(* with one name.                                                           *)
RowIndexInv == UserIndexInv /\ GroupIndexInv /\ ProjectIndexInv

(* Both token indices name exactly the live token row: a user has at most   *)
(* one token and a revoked or regenerated token is not found by its hash.   *)
(* upsertToken dereferences tokens[existingID] unchecked on the strength    *)
(* of this.                                                                 *)
TokenIndexInv ==
    /\ \A h \in Hashes, t \in TokenIds :
          tokensByHash[h] = t <=> (tokens[t] # Nil /\ tokens[t].hash = h)
    /\ \A u \in UserIds, t \in TokenIds :
          tokensByUser[u] = t <=> (tokens[t] # Nil /\ tokens[t].user = u)

(* The two membership maps hold the same edges, and an edge joins a live    *)
(* group and a live user.  Quota reads one map and authorization the other. *)
MembershipInv ==
    \A g \in GroupIds, u \in UserIds :
        /\ u \in memberships[g] <=> g \in membershipsByUser[u]
        /\ u \in memberships[g] => groups[g] # Nil /\ users[u] # Nil

(* A failure reason is shown only on a failed trace.  MarkTraceFailed sets  *)
(* both fields, a terminal ingest clears the reason, and nothing takes the  *)
(* trace out of "failed" while the reason stays.                            *)
ReasonInv ==
    \A t \in TraceIds : traces[t] # Nil /\ traces[t].reason # Nil
                          => traces[t].status = "failed"

(* Snapshot writes the rows and one edge per membership; Restore inserts    *)
(* the rows one by one, in the order of the snapshot's map iteration, and   *)
(* rebuilds every index.  A key that several rows carry keeps the last one  *)
(* inserted, so the restored index is any choice of one holder per key.     *)
(* keyOf gives the key of each live row, Nil for an absent one.             *)
RestoredIndex(keyOf, Keys) ==
    LET Holders(k) == {i \in DOMAIN keyOf : keyOf[i] = k}
    IN  {f \in [Keys -> DOMAIN keyOf \cup {Nil}] :
            \A k \in Keys : IF Holders(k) = {} THEN f[k] = Nil ELSE f[k] \in Holders(k)}

NameOfUser    == [u \in UserIds |-> IF users[u] = Nil THEN Nil ELSE Lower(users[u].name)]
OAuthOfUser   == [u \in UserIds |-> IF users[u] = Nil THEN Nil ELSE users[u].oauth]
NameOfGroup   == [g \in GroupIds |-> IF groups[g] = Nil THEN Nil ELSE Lower(groups[g].name)]
NameOfProject == [p \in ProjectIds |-> IF projects[p] = Nil THEN Nil ELSE Lower(projects[p].name)]
HashOfToken   == [t \in TokenIds |-> IF tokens[t] = Nil THEN Nil ELSE tokens[t].hash]
UserOfToken   == [t \in TokenIds |-> IF tokens[t] = Nil THEN Nil ELSE tokens[t].user]

\* Mutation: edges are restored in the group -> user direction only.
RestoredMembershipsOneWay == [u \in UserIds |-> {}]

RestoredMembershipsByUser == [u \in UserIds |-> {g \in GroupIds : u \in memberships[g]}]

(* Restoring a snapshot of any reachable state, whatever the order of its   *)
(* rows, gives back exactly that state: a follower that installs a snapshot *)
(* answers every lookup as the leader does.                                 *)
SnapshotRoundTrip ==
    /\ RestoredIndex(NameOfUser, Names) = {usersByName}
    /\ RestoredIndex(OAuthOfUser, OAuthKeys) = {usersByOAuth}
    /\ RestoredIndex(NameOfGroup, Names) = {groupsByName}
    /\ RestoredIndex(NameOfProject, Names) = {projectsByName}
    /\ RestoredIndex(HashOfToken, Hashes) = {tokensByHash}
    /\ RestoredIndex(UserOfToken, UserIds) = {tokensByUser}
    /\ RestoredMembershipsByUser = membershipsByUser

(* What deleteUser and deleteGroup must take with them, the foreign keys of *)
(* the SQL schema the state machine replaced: no token, membership, index   *)
(* entry or trace owner of a deleted user, and no membership, project group *)
(* or trace group of a deleted group.                                       *)
CascadeOf(u) ==
    /\ \A t \in TokenIds : tokens'[t] # Nil => tokens'[t].user # u
    /\ \A g \in GroupIds : u \notin memberships'[g]
    /\ membershipsByUser'[u] = {}
    /\ \A n \in Names : usersByName'[n] # u
    /\ \A k \in OAuthKeys : usersByOAuth'[k] # u
    /\ \A t \in TraceIds : traces'[t] # Nil => traces'[t].user # u

GroupCascadeOf(g) ==
    /\ memberships'[g] = {}
    /\ \A u \in UserIds : g \notin membershipsByUser'[u]
    /\ \A n \in Names : groupsByName'[n] # g
    /\ \A p \in ProjectIds : projects'[p] # Nil => projects'[p].group # g
    /\ \A t \in TraceIds : traces'[t] # Nil => traces'[t].group # g

DeleteCascades ==
    [][/\ \A u \in UserIds : users[u] # Nil /\ users'[u] = Nil => CascadeOf(u)
       /\ \A g \in GroupIds : groups[g] # Nil /\ groups'[g] = Nil => GroupCascadeOf(g)]_vars

(* The verdict of a trace as module TraceStatus knows it.                   *)
Verdict(row) ==
    IF row = Nil THEN "absent"
    ELSE IF row.status \notin Terminal THEN "running"
    ELSE IF row.status = "failed" /\ row.reason # Nil THEN "lost"
    ELSE row.status

Row == INSTANCE TraceStatus
         WITH Traces <- TraceIds, verdict <- [t \in TraceIds |-> Verdict(traces[t])]

(* The state machine implements TraceStatus: whatever late or duplicated    *)
(* OTLP batch, disconnect mark or provision is applied and in whatever      *)
(* order, a finished trace never goes back to running, the supervisor's     *)
(* guess never replaces the client's own verdict, and the client's verdict  *)
(* always replaces the guess.                                               *)
StatusFollowsRules == Row!Spec

(* A trace keeps its owner and its group: they are set once and only a      *)
(* cascade from the deleted user or group (or the purge of the row) clears  *)
(* them, so a later provision or ingest cannot move a run to another user.  *)
AttributionStable ==
    [][\A t \in TraceIds :
          traces[t] # Nil /\ traces'[t] # Nil =>
             /\ traces[t].user # Nil =>
                   \/ traces'[t].user = traces[t].user
                   \/ traces'[t].user = Nil /\ users'[traces[t].user] = Nil
             /\ traces[t].group # Nil =>
                   \/ traces'[t].group = traces[t].group
                   \/ traces'[t].group = Nil /\ groups'[traces[t].group] = Nil]_vars

=============================================================================
