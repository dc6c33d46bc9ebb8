--------------------------- MODULE MetaFSM_proofs ---------------------------
(***************************************************************************)
(* Machine-checked proofs about MetaFSM, for every value of its constants. *)
(*                                                                         *)
(* The inductive invariant has one conjunct per table: the types of its    *)
(* rows and indices, and that each index is the inverse of its rows.  Each *)
(* table has a lemma of its own, whose only interesting steps are the      *)
(* commands that write that table (the Frame lemmas say which).            *)
(***************************************************************************)
EXTENDS MetaFSM, TLAPS

UsersInv    == UserTypeOK /\ UserIndexInv
GroupsInv   == GroupTypeOK /\ GroupIndexInv
MembersInv  == MemberTypeOK /\ MembershipInv
TokensInv   == TokenTypeOK /\ TokenIndexInv
ProjectsInv == ProjectTypeOK /\ ProjectIndexInv
TracesInv   == TraceTypeOK /\ ReasonInv

(* The inductive invariant of the metadata store.                          *)
IInv == /\ UsersInv /\ GroupsInv /\ MembersInv /\ TokensInv
        /\ ProjectsInv /\ TracesInv /\ MetaTypeOK

-----------------------------------------------------------------------------
(* Only user commands write the user table and its indices. *)
LEMMA FrameUsers ==
    ASSUME Next PROVE UNCHANGED userVars \/ UserCommand
BY DEF Next, GroupCommand, ProjectCommand, TokenCommand, TraceCommand,
       MetaCommand, CreateGroup, UpdateGroup, DeleteGroup, SetMembers,
       CreateProject, UpdateProject, DeleteProject, UpsertToken, DeleteToken,
       TouchToken, UpsertTraceProvision, UpsertTraceIngest, MarkTraceFailed,
       DeleteTrace, SetMeta

(* Only group commands write the group table and its index. *)
LEMMA FrameGroups ==
    ASSUME Next PROVE UNCHANGED groupVars \/ GroupCommand
BY ZenonT(40) DEF Next, UserCommand, ProjectCommand, TokenCommand, TraceCommand,
       MetaCommand, CreateUser, UpdateUser, DeleteUser, CreateProject,
       UpdateProject, DeleteProject, UpsertToken, DeleteToken, TouchToken,
       UpsertTraceProvision, UpsertTraceIngest, MarkTraceFailed, DeleteTrace,
       SetMeta

(* Only project commands and deleteGroup write the project table. *)
LEMMA FrameProjects ==
    ASSUME Next PROVE UNCHANGED projectVars \/ ProjectCommand \/ GroupCommand
BY ZenonT(40) DEF Next, UserCommand, TokenCommand, TraceCommand, MetaCommand,
       CreateUser, UpdateUser, DeleteUser, UpsertToken, DeleteToken,
       TouchToken, UpsertTraceProvision, UpsertTraceIngest, MarkTraceFailed,
       DeleteTrace, SetMeta

(* Only token commands and deleteUser write the token tables. *)
LEMMA FrameTokens ==
    ASSUME Next PROVE UNCHANGED tokenVars \/ TokenCommand \/ UserCommand
BY DEF Next, GroupCommand, ProjectCommand, TraceCommand, MetaCommand,
       CreateGroup, UpdateGroup, DeleteGroup, SetMembers, CreateProject,
       UpdateProject, DeleteProject, UpsertTraceProvision, UpsertTraceIngest,
       MarkTraceFailed, DeleteTrace, SetMeta

(* Only trace commands and the two cascades write the trace table. *)
LEMMA FrameTraces ==
    ASSUME Next PROVE UNCHANGED traces \/ TraceCommand \/ UserCommand \/ GroupCommand
BY DEF Next, ProjectCommand, TokenCommand, MetaCommand, CreateProject,
       UpdateProject, DeleteProject, UpsertToken, DeleteToken, TouchToken,
       SetMeta

(* Only user and group commands touch memberships or the rows they join. *)
LEMMA FrameMembers ==
    ASSUME Next
    PROVE  UNCHANGED <<memberVars, users, groups>> \/ UserCommand \/ GroupCommand
BY ZenonT(40) DEF Next, ProjectCommand, TokenCommand, TraceCommand, MetaCommand,
       CreateProject, UpdateProject, DeleteProject, UpsertToken, DeleteToken,
       TouchToken, UpsertTraceProvision, UpsertTraceIngest, MarkTraceFailed,
       DeleteTrace, SetMeta, userVars, groupVars

(* Only kindSetMeta writes the meta table. *)
LEMMA FrameMeta ==
    ASSUME Next PROVE UNCHANGED meta \/ MetaCommand
BY ZenonT(40) DEF Next, UserCommand, GroupCommand, ProjectCommand, TokenCommand,
       TraceCommand, CreateUser, UpdateUser, DeleteUser, CreateGroup,
       UpdateGroup, DeleteGroup, SetMembers, CreateProject, UpdateProject,
       DeleteProject, UpsertToken, DeleteToken, TouchToken,
       UpsertTraceProvision, UpsertTraceIngest, MarkTraceFailed, DeleteTrace

-----------------------------------------------------------------------------
(* Users stay the inverse of their two indices. *)
LEMMA UsersInductive ==
    ASSUME UsersInv, [Next]_vars PROVE UsersInv'
<1> USE NilAssumption, LowerAssumption, RowAssumption
<1>1. ASSUME NEW id \in UserIds, NEW name \in Names,
             NEW oauth \in OAuthKeys \cup {Nil},
             CreateUser(id, name, oauth)
      PROVE  UsersInv'
  <2>1. UserTypeOK'
    BY <1>1 DEF CreateUser, UsersInv, UserTypeOK, User, Reindex
  <2>2. UserIndexInv'
    BY <1>1, <2>1 DEF CreateUser, UsersInv, UserIndexInv, UserTypeOK, User, Reindex
  <2>3. QED BY <2>1, <2>2 DEF UsersInv
<1>2. ASSUME NEW id \in UserIds, NEW name \in Names,
             NEW oauth \in OAuthKeys \cup {Nil},
             UpdateUser(id, name, oauth)
      PROVE  UsersInv'
  <2>1. UserTypeOK'
    BY <1>2 DEF UpdateUser, UsersInv, UserTypeOK, User, Reindex
  <2>2. UserIndexInv'
    BY <1>2, <2>1 DEF UpdateUser, UsersInv, UserIndexInv, UserTypeOK, User, Reindex
  <2>3. QED BY <2>1, <2>2 DEF UsersInv
<1>3. ASSUME NEW id \in UserIds,
             DeleteUser(id)
      PROVE  UsersInv'
  <2>1. UserTypeOK'
    BY <1>3 DEF DeleteUser, UsersInv, UserTypeOK, User, Reindex
  <2>2. UserIndexInv'
    BY <1>3, <2>1 DEF DeleteUser, UsersInv, UserIndexInv, UserTypeOK, User, Reindex
  <2>3. QED BY <2>1, <2>2 DEF UsersInv
<1>4. CASE UNCHANGED userVars
  BY <1>4 DEF UsersInv, UserTypeOK, UserIndexInv, userVars
<1>5. CASE UserCommand
  BY <1>1, <1>2, <1>3, <1>5 DEF UserCommand
<1>6. QED BY <1>4, <1>5, FrameUsers DEF vars, userVars

(* Groups stay the inverse of their index. *)
LEMMA GroupsInductive ==
    ASSUME GroupsInv, [Next]_vars PROVE GroupsInv'
<1> USE NilAssumption, LowerAssumption, RowAssumption
<1>1. ASSUME NEW id \in GroupIds, NEW name \in Names,
             CreateGroup(id, name)
      PROVE  GroupsInv'
  <2>1. GroupTypeOK'
    BY <1>1 DEF CreateGroup, GroupsInv, GroupTypeOK, Group, Reindex
  <2>2. GroupIndexInv'
    BY <1>1, <2>1 DEF CreateGroup, GroupsInv, GroupIndexInv, GroupTypeOK, Group, Reindex
  <2>3. QED BY <2>1, <2>2 DEF GroupsInv
<1>2. ASSUME NEW id \in GroupIds, NEW name \in Names,
             UpdateGroup(id, name)
      PROVE  GroupsInv'
  <2>1. GroupTypeOK'
    BY <1>2 DEF UpdateGroup, GroupsInv, GroupTypeOK, Group, Reindex
  <2>2. GroupIndexInv'
    BY <1>2, <2>1 DEF UpdateGroup, GroupsInv, GroupIndexInv, GroupTypeOK, Group, Reindex
  <2>3. QED BY <2>1, <2>2 DEF GroupsInv
<1>3. ASSUME NEW id \in GroupIds,
             DeleteGroup(id)
      PROVE  GroupsInv'
  <2>1. GroupTypeOK'
    BY <1>3 DEF DeleteGroup, GroupsInv, GroupTypeOK, Group, Reindex
  <2>2. GroupIndexInv'
    BY <1>3, <2>1 DEF DeleteGroup, GroupsInv, GroupIndexInv, GroupTypeOK, Group, Reindex
  <2>3. QED BY <2>1, <2>2 DEF GroupsInv
<1>4. ASSUME NEW id \in GroupIds, NEW members \in SUBSET UserIds,
             SetMembers(id, members)
      PROVE  GroupsInv'
  <2>1. GroupTypeOK'
    BY <1>4 DEF SetMembers, GroupsInv, GroupTypeOK, groupVars
  <2>2. GroupIndexInv'
    BY <1>4, <2>1 DEF SetMembers, GroupsInv, GroupIndexInv, GroupTypeOK, groupVars
  <2>3. QED BY <2>1, <2>2 DEF GroupsInv
<1>5. CASE UNCHANGED groupVars
  BY <1>5 DEF GroupsInv, GroupTypeOK, GroupIndexInv, groupVars
<1>6. CASE GroupCommand
  BY <1>1, <1>2, <1>3, <1>4, <1>6 DEF GroupCommand
<1>7. QED BY <1>5, <1>6, FrameGroups DEF vars, groupVars

(* Projects stay the inverse of their index, under deleteGroup too. *)
LEMMA ProjectsInductive ==
    ASSUME ProjectsInv, [Next]_vars PROVE ProjectsInv'
<1> USE NilAssumption, LowerAssumption, RowAssumption
<1>1. ASSUME NEW id \in ProjectIds, NEW name \in Names,
             NEW group \in GroupIds \cup {Nil},
             CreateProject(id, name, group)
      PROVE  ProjectsInv'
  <2>1. ProjectTypeOK'
    BY <1>1 DEF CreateProject, ProjectsInv, ProjectTypeOK, Project, Reindex
  <2>2. ProjectIndexInv'
    BY <1>1, <2>1 DEF CreateProject, ProjectsInv, ProjectIndexInv, ProjectTypeOK, Project, Reindex
  <2>3. QED BY <2>1, <2>2 DEF ProjectsInv
<1>2. ASSUME NEW id \in ProjectIds, NEW name \in Names,
             NEW group \in GroupIds \cup {Nil},
             UpdateProject(id, name, group)
      PROVE  ProjectsInv'
  <2>1. ProjectTypeOK'
    BY <1>2 DEF UpdateProject, ProjectsInv, ProjectTypeOK, Project, Reindex
  <2>2. ProjectIndexInv'
    BY <1>2, <2>1 DEF UpdateProject, ProjectsInv, ProjectIndexInv, ProjectTypeOK, Project, Reindex
  <2>3. QED BY <2>1, <2>2 DEF ProjectsInv
<1>3. ASSUME NEW id \in ProjectIds,
             DeleteProject(id)
      PROVE  ProjectsInv'
  <2>1. ProjectTypeOK'
    BY <1>3 DEF DeleteProject, ProjectsInv, ProjectTypeOK, Project, Reindex
  <2>2. ProjectIndexInv'
    BY <1>3, <2>1 DEF DeleteProject, ProjectsInv, ProjectIndexInv, ProjectTypeOK, Project, Reindex
  <2>3. QED BY <2>1, <2>2 DEF ProjectsInv
<1>4. ASSUME NEW id \in GroupIds,
             DeleteGroup(id)
      PROVE  ProjectsInv'
  <2>1. ProjectTypeOK'
    BY <1>4 DEF DeleteGroup, ProjectsInv, ProjectTypeOK, Project
  <2>2. ProjectIndexInv'
    BY <1>4, <2>1 DEF DeleteGroup, ProjectsInv, ProjectIndexInv, ProjectTypeOK, Project
  <2>3. QED BY <2>1, <2>2 DEF ProjectsInv
<1>5. CASE UNCHANGED projectVars
  BY <1>5 DEF ProjectsInv, ProjectTypeOK, ProjectIndexInv, projectVars
<1>6. CASE ProjectCommand
  BY <1>1, <1>2, <1>3, <1>6 DEF ProjectCommand
<1>7. CASE GroupCommand
  BY <1>4, <1>5, <1>7 DEF GroupCommand, CreateGroup, UpdateGroup, SetMembers, projectVars
<1>8. QED BY <1>5, <1>6, <1>7, FrameProjects DEF vars, projectVars

(* removeToken drops a row and both its index entries (or does nothing).   *)
LEMMA RemoveTokenInductive ==
    ASSUME TokensInv, NEW user \in UserIds, ReplaceToken(tokensByUser[user], Nil, Nil)
    PROVE  TokensInv'
<1> USE NilAssumption, RowAssumption
<1>1. CASE tokensByUser[user] = Nil
  BY <1>1 DEF TokensInv, TokenTypeOK, TokenIndexInv, ReplaceToken, Reindex
<1>2. CASE tokensByUser[user] # Nil
  <2> DEFINE tid == tokensByUser[user]
  <2>1. tid \in TokenIds /\ tokens[tid] # Nil /\ tokens[tid] \in Token
    BY <1>2 DEF TokensInv, TokenTypeOK, TokenIndexInv
  <2>2. TokenTypeOK'
    BY <1>2, <2>1 DEF TokensInv, TokenTypeOK, Token, ReplaceToken, Reindex
  <2>3. TokenIndexInv'
    BY <1>2, <2>1 DEF TokensInv, TokenTypeOK, TokenIndexInv, Token, ReplaceToken, Reindex
  <2> QED BY <2>2, <2>3 DEF TokensInv
<1>q. QED BY <1>1, <1>2

(* upsertToken removes the user's previous token and stores the new one.    *)
LEMMA UpsertTokenInductive ==
    ASSUME TokensInv, NEW id \in TokenIds, NEW user \in UserIds, NEW hash \in Hashes,
           UpsertToken(id, user, hash)
    PROVE  TokensInv'
<1> USE NilAssumption, RowAssumption
<1> DEFINE tid == tokensByUser[user]
           row == [user |-> user, hash |-> hash, used |-> FALSE]
<1>a. row \in Token /\ row.user = user /\ row.hash = hash
  BY DEF Token
<1>b. row # Nil
  BY <1>a
<1>c. /\ tokens[id] = Nil /\ tokensByHash[hash] \in {Nil, tid}
      /\ ReplaceToken(tid, id, row)
  BY DEF UpsertToken, ExistingToken
<1> HIDE DEF row
<1>1. CASE tid = Nil
  <2>1. /\ tokens' = [t \in TokenIds |-> IF t = id THEN row ELSE tokens[t]]
        /\ tokensByHash' = [h \in Hashes |-> IF h = hash THEN id ELSE tokensByHash[h]]
        /\ tokensByUser' = [u \in UserIds |-> IF u = user THEN id ELSE tokensByUser[u]]
    BY <1>1, <1>a, <1>b, <1>c DEF TokensInv, TokenTypeOK, ReplaceToken, Reindex
  <2>2. TokenTypeOK'
    BY <2>1, <1>a, <1>b, <1>c DEF TokensInv, TokenTypeOK
  <2>3. TokenIndexInv'
    BY <1>1, <2>1, <1>a, <1>b, <1>c DEF TokensInv, TokenTypeOK, TokenIndexInv
  <2> QED BY <2>2, <2>3 DEF TokensInv
<1>2. CASE tid # Nil
  <2>1. /\ tid \in TokenIds /\ tokens[tid] # Nil /\ tokens[tid] \in Token
        /\ tokens[tid].user = user
    BY <1>2 DEF TokensInv, TokenTypeOK, TokenIndexInv
  <2>2. /\ tokens' = [t \in TokenIds |-> IF t = id THEN row
                                         ELSE IF t = tid THEN Nil ELSE tokens[t]]
        /\ tokensByHash' = [h \in Hashes |-> IF h = hash THEN id
                               ELSE IF h = tokens[tid].hash THEN Nil ELSE tokensByHash[h]]
        /\ tokensByUser' = [u \in UserIds |-> IF u = user THEN id ELSE tokensByUser[u]]
    BY <1>2, <2>1, <1>a, <1>b, <1>c DEF TokensInv, TokenTypeOK, ReplaceToken, Reindex
  <2>3. TokenTypeOK'
    BY <2>2, <1>a, <1>b, <1>c DEF TokensInv, TokenTypeOK
  <2>4. TokenIndexInv'
    BY <1>2, <2>1, <2>2, <1>a, <1>b, <1>c DEF TokensInv, TokenTypeOK, TokenIndexInv
  <2> QED BY <2>3, <2>4 DEF TokensInv
<1>q. QED BY <1>1, <1>2

(* Tokens stay the inverse of both indices, under deleteUser too. *)
LEMMA TokensInductive ==
    ASSUME TokensInv, [Next]_vars PROVE TokensInv'
<1>1. ASSUME NEW id \in TokenIds, TouchToken(id)
      PROVE  TokensInv'
  <2>1. TokenTypeOK'
    BY <1>1 DEF TouchToken, TokensInv, TokenTypeOK, Token
  <2>2. ASSUME NEW t \in TokenIds
        PROVE  /\ tokens'[t] # Nil <=> tokens[t] # Nil
               /\ tokens[t] # Nil => /\ tokens'[t].hash = tokens[t].hash
                                     /\ tokens'[t].user = tokens[t].user
    BY <1>1, <2>1, RowAssumption DEF TouchToken, TokensInv, TokenTypeOK, Token
  <2>3. TokenIndexInv'
    BY <1>1, <2>2 DEF TouchToken, TokensInv, TokenIndexInv
  <2>4. QED BY <2>1, <2>3 DEF TokensInv
<1>2. CASE UNCHANGED tokenVars
  BY <1>2 DEF TokensInv, TokenTypeOK, TokenIndexInv, tokenVars
<1>3. CASE TokenCommand
  BY <1>1, <1>3, RemoveTokenInductive, UpsertTokenInductive DEF TokenCommand, DeleteToken
<1>4. CASE UserCommand
  BY <1>2, <1>4, RemoveTokenInductive
  DEF UserCommand, CreateUser, UpdateUser, DeleteUser, tokenVars
<1>5. QED BY <1>2, <1>3, <1>4, FrameTokens DEF vars, tokenVars

(* The ON CONFLICT update of an ingest yields a trace whose reason fits. *)
LEMMA IngestIntoTrace ==
    ASSUME NEW row \in Trace, NEW user, NEW group \in GroupIds \cup {Nil},
           NEW status \in Statuses, NEW version \in Versions \cup {Nil},
           row.reason # Nil => row.status = "failed"
    PROVE  LET new == IngestInto(row, user, group, status, version)
           IN  new \in Trace /\ (new.reason # Nil => new.status = "failed")
<1>1. IngestStatus(row.status, status) \in Statuses
  BY DEF IngestStatus, Trace
<1>2. IngestReason(row.reason, status) \in Reasons \cup {Nil}
  BY DEF IngestReason, Trace
<1>3. FirstNonEmpty(row.group, group) \in GroupIds \cup {Nil}
  BY DEF FirstNonEmpty, Trace
<1>4. NewNonEmpty(row.version, version) \in Versions \cup {Nil}
  BY DEF NewNonEmpty, Trace
<1>5. IngestReason(row.reason, status) # Nil => IngestStatus(row.status, status) = "failed"
  BY DEF IngestStatus, IngestReason, Terminal, Trace
<1>6. QED BY <1>1, <1>2, <1>3, <1>4, <1>5 DEF IngestInto, Trace

(* A provision leaves the status and the reason alone. *)
LEMMA ProvisionIntoTrace ==
    ASSUME NEW row \in Trace, NEW user \in UserIds \cup {Nil},
           NEW version \in Versions \cup {Nil}
    PROVE  LET new == ProvisionInto(row, user, version)
           IN  new \in Trace /\ new.status = row.status /\ new.reason = row.reason
<1>1. FirstNonEmpty(row.user, user) \in UserIds \cup {Nil}
  BY DEF FirstNonEmpty, Trace
<1>2. NewNonEmpty(row.version, version) \in Versions \cup {Nil}
  BY DEF NewNonEmpty, Trace
<1>3. QED BY <1>1, <1>2 DEF ProvisionInto, Trace

(* upsertTraceProvision keeps the trace table well formed. *)
LEMMA ProvisionInductive ==
    ASSUME TracesInv, NEW id \in TraceIds, NEW user \in UserIds \cup {Nil},
             NEW version \in Versions \cup {Nil}, UpsertTraceProvision(id, user, version)
    PROVE  TracesInv'
<1> USE NilAssumption, RowAssumption
<1>1. traces[id] # Nil => traces[id] \in Trace
  BY DEF TracesInv, TraceTypeOK
<1>2. traces'[id] \in Trace /\ (traces'[id].reason # Nil => traces'[id].status = "failed")
  <2>1. CASE traces[id] = Nil
    BY <2>1 DEF UpsertTraceProvision, TracesInv, TraceTypeOK, Trace, Statuses
  <2>2. CASE traces[id] # Nil
    BY <2>2, <1>1, ProvisionIntoTrace DEF UpsertTraceProvision, TracesInv, TraceTypeOK, ReasonInv
  <2> QED BY <2>1, <2>2
<1>3. QED
  BY <1>2 DEF UpsertTraceProvision, TracesInv, TraceTypeOK, ReasonInv

(* upsertTraceIngest keeps the trace table well formed. *)
LEMMA IngestInductive ==
    ASSUME TracesInv, NEW id \in TraceIds, NEW user \in UserIds \cup {Nil},
             NEW version \in Versions \cup {Nil}, NEW group \in GroupIds \cup {Nil}, NEW status \in Statuses,
             UpsertTraceIngest(id, user, group, status, version)
    PROVE  TracesInv'
<1> USE NilAssumption, RowAssumption
<1>1. traces[id] # Nil => traces[id] \in Trace
  BY DEF TracesInv, TraceTypeOK
<1>2. traces'[id] \in Trace /\ (traces'[id].reason # Nil => traces'[id].status = "failed")
  <2>1. CASE traces[id] = Nil
    BY <2>1 DEF UpsertTraceIngest, TracesInv, TraceTypeOK, Trace
  <2>2. CASE traces[id] # Nil
    BY <2>2, <1>1, IngestIntoTrace DEF UpsertTraceIngest, TracesInv, TraceTypeOK, ReasonInv
  <2> QED BY <2>1, <2>2
<1>3. QED
  BY <1>2 DEF UpsertTraceIngest, TracesInv, TraceTypeOK, ReasonInv

(* markTraceFailed keeps the trace table well formed. *)
LEMMA MarkFailedInductive ==
    ASSUME TracesInv, NEW id \in TraceIds, NEW reason \in Reasons, MarkTraceFailed(id, reason)
    PROVE  TracesInv'
<1> USE NilAssumption, RowAssumption
<1>1. traces[id] # Nil => traces[id] \in Trace
  BY DEF TracesInv, TraceTypeOK
<1>2. traces'[id] \in Trace /\ traces'[id].status = "failed"
    BY <1>1 DEF MarkTraceFailed, TracesInv, TraceTypeOK, Trace, Statuses, Terminal
<1>3. QED
  BY <1>2 DEF MarkTraceFailed, TracesInv, TraceTypeOK, ReasonInv

(* A failure reason stays with a failed trace. *)
LEMMA TracesInductive ==
    ASSUME TracesInv, [Next]_vars PROVE TracesInv'
<1>1. ASSUME NEW id \in TraceIds, DeleteTrace(id)
      PROVE  TracesInv'
  BY <1>1 DEF DeleteTrace, TracesInv, TraceTypeOK, ReasonInv
<1>2. ASSUME NEW id \in UserIds, DeleteUser(id)
      PROVE  TracesInv'
  BY <1>2, RowAssumption DEF DeleteUser, TracesWithoutUser, TracesInv, TraceTypeOK, ReasonInv, Trace
<1>3. ASSUME NEW id \in GroupIds, DeleteGroup(id)
      PROVE  TracesInv'
  BY <1>3, RowAssumption DEF DeleteGroup, TracesInv, TraceTypeOK, ReasonInv, Trace
<1>4. CASE UNCHANGED traces
  BY <1>4 DEF TracesInv, TraceTypeOK, ReasonInv
<1>5. CASE TraceCommand
  BY <1>1, <1>5, ProvisionInductive, IngestInductive, MarkFailedInductive DEF TraceCommand
<1>6. CASE UserCommand
  BY <1>2, <1>4, <1>6 DEF UserCommand, CreateUser, UpdateUser
<1>7. CASE GroupCommand
  BY <1>3, <1>4, <1>7 DEF GroupCommand, CreateGroup, UpdateGroup, SetMembers
<1>8. QED BY <1>4, <1>5, <1>6, <1>7, FrameTraces DEF vars

(* The two membership maps stay each other's inverse, over live rows only. *)
LEMMA MembersInductive ==
    ASSUME MembersInv, UserTypeOK, GroupTypeOK, [Next]_vars PROVE MembersInv'
<1> USE RowAssumption
<1>1. ASSUME NEW id \in UserIds, NEW name \in Names,
             NEW oauth \in OAuthKeys \cup {Nil},
             CreateUser(id, name, oauth) \/ UpdateUser(id, name, oauth)
      PROVE  MembersInv'
  <2>1. UNCHANGED <<memberVars, groups>> /\ users'[id] # Nil
           /\ \A u \in UserIds : u # id => users'[u] = users[u]
    BY <1>1 DEF CreateUser, UpdateUser, UserTypeOK, User, groupVars
  <2>2. QED BY <2>1 DEF MembersInv, MemberTypeOK, MembershipInv, memberVars
<1>2. ASSUME NEW id \in UserIds, DeleteUser(id)
      PROVE  MembersInv'
  <2>1. MemberTypeOK'
    BY <1>2 DEF DeleteUser, MembershipsWithout, MembersInv, MemberTypeOK
  <2>2. MembershipInv'
    BY <1>2 DEF DeleteUser, MembershipsWithout, MembersInv, MemberTypeOK, MembershipInv,
                UserTypeOK, groupVars
  <2>3. QED BY <2>1, <2>2 DEF MembersInv
<1>3. ASSUME NEW id \in GroupIds, NEW name \in Names,
             CreateGroup(id, name) \/ UpdateGroup(id, name)
      PROVE  MembersInv'
  <2>1. UNCHANGED <<memberVars, users>> /\ groups'[id] # Nil
           /\ \A g \in GroupIds : g # id => groups'[g] = groups[g]
    BY <1>3 DEF CreateGroup, UpdateGroup, GroupTypeOK, Group, userVars
  <2>2. QED BY <2>1 DEF MembersInv, MemberTypeOK, MembershipInv, memberVars
<1>4. ASSUME NEW id \in GroupIds, DeleteGroup(id)
      PROVE  MembersInv'
  <2>1. MemberTypeOK'
    BY <1>4 DEF DeleteGroup, MembersInv, MemberTypeOK
  <2>2. MembershipInv'
    BY <1>4 DEF DeleteGroup, MembersInv, MemberTypeOK, MembershipInv, GroupTypeOK, userVars
  <2>3. QED BY <2>1, <2>2 DEF MembersInv
<1>5. ASSUME NEW id \in GroupIds, NEW members \in SUBSET UserIds, SetMembers(id, members)
      PROVE  MembersInv'
  <2>1. MemberTypeOK'
    BY <1>5 DEF SetMembers, MembersInv, MemberTypeOK
  <2>2. MembershipInv'
    BY <1>5 DEF SetMembers, MembersKnown, MembersInv, MemberTypeOK, MembershipInv,
                userVars, groupVars
  <2>3. QED BY <2>1, <2>2 DEF MembersInv
<1>6. CASE UNCHANGED <<memberVars, users, groups>>
  BY <1>6 DEF MembersInv, MemberTypeOK, MembershipInv, memberVars
<1>7. CASE UserCommand
  BY <1>1, <1>2, <1>7 DEF UserCommand
<1>8. CASE GroupCommand
  BY <1>3, <1>4, <1>5, <1>8 DEF GroupCommand
<1>9. QED BY <1>6, <1>7, <1>8, FrameMembers DEF vars, memberVars

(* The meta table stays well typed. *)
LEMMA MetaInductive ==
    ASSUME MetaTypeOK, [Next]_vars PROVE MetaTypeOK'
<1>1. CASE UNCHANGED meta
  BY <1>1 DEF MetaTypeOK
<1>2. CASE MetaCommand
  BY <1>2 DEF MetaCommand, SetMeta, MetaTypeOK
<1>3. QED BY <1>1, <1>2, FrameMeta DEF vars

-----------------------------------------------------------------------------
(* IInv is an inductive invariant of the metadata store. *)
THEOREM Inductive == Spec => []IInv
<1>1. Init => IInv
  BY NilAssumption, RowAssumption
  DEF Init, IInv, UsersInv, GroupsInv, MembersInv, TokensInv, ProjectsInv, TracesInv,
      UserTypeOK, GroupTypeOK, MemberTypeOK, TokenTypeOK, ProjectTypeOK, TraceTypeOK,
      MetaTypeOK, UserIndexInv, GroupIndexInv, MembershipInv, TokenIndexInv,
      ProjectIndexInv, ReasonInv
<1>2. IInv /\ [Next]_vars => IInv'
  BY UsersInductive, GroupsInductive, MembersInductive, TokensInductive,
     ProjectsInductive, TracesInductive, MetaInductive
  DEF IInv, UsersInv, GroupsInv
<1>3. QED BY <1>1, <1>2, PTL DEF Spec

(* Type correctness: every log entry leaves all tables and indices of      *)
(* fsmState well formed. *)
THEOREM TypeCorrect == Spec => []TypeOK
<1>1. IInv => TypeOK
  BY DEF IInv, TypeOK, UsersInv, GroupsInv, MembersInv, TokensInv, ProjectsInv, TracesInv
<1>2. QED BY <1>1, Inductive, PTL

(* Every index of users, groups and projects names exactly the live row    *)
(* with its key: names are unique up to case, OAuth identities are unique, *)
(* and the unchecked dereferences of the read helpers find a row. *)
THEOREM RowIndexCorrect == Spec => []RowIndexInv
<1>1. IInv => RowIndexInv
  BY DEF IInv, RowIndexInv, UsersInv, GroupsInv, ProjectsInv
<1>2. QED BY <1>1, Inductive, PTL

(* At most one token per user, found by exactly its current hash. *)
THEOREM TokenIndexCorrect == Spec => []TokenIndexInv
<1>1. IInv => TokenIndexInv
  BY DEF IInv, TokensInv
<1>2. QED BY <1>1, Inductive, PTL

(* Both membership maps hold the same edges, all between live rows. *)
THEOREM MembershipCorrect == Spec => []MembershipInv
<1>1. IInv => MembershipInv
  BY DEF IInv, MembersInv
<1>2. QED BY <1>1, Inductive, PTL

(* A failure reason appears only on a failed trace. *)
THEOREM ReasonCorrect == Spec => []ReasonInv
<1>1. IInv => ReasonInv
  BY DEF IInv, TracesInv
<1>2. QED BY <1>1, Inductive, PTL

-----------------------------------------------------------------------------
(* If an index is the inverse of its rows, restoring the rows in any order *)
(* rebuilds that index and no other. *)
LEMMA RestoreUnique ==
    ASSUME NEW Ids, NEW Keys, Nil \notin Ids, NEW keyOf \in [Ids -> Keys \cup {Nil}],
           NEW index \in [Keys -> Ids \cup {Nil}],
           \A k \in Keys, i \in Ids : index[k] = i <=> keyOf[i] = k
    PROVE  RestoredIndex(keyOf, Keys) = {index}
<1> DEFINE Holders(k) == {i \in Ids : keyOf[i] = k}
           Fits(f, k) == IF Holders(k) = {} THEN f[k] = Nil ELSE f[k] \in Holders(k)
<1>1. \A k \in Keys : Holders(k) = IF index[k] = Nil THEN {} ELSE {index[k]}
  OBVIOUS
<1>4. RestoredIndex(keyOf, Keys) =
         {f \in [Keys -> Ids \cup {Nil}] : \A k \in Keys : Fits(f, k)}
  BY DEF RestoredIndex
<1> HIDE DEF Holders
<1>2. \A k \in Keys : Fits(index, k)
  BY <1>1
<1>3. ASSUME NEW f \in [Keys -> Ids \cup {Nil}], \A k \in Keys : Fits(f, k)
      PROVE  f = index
  BY <1>1, <1>3
<1> HIDE DEF Fits
<1>5. QED BY <1>2, <1>3, <1>4

(* A follower that installs a snapshot ends in the state the snapshot was  *)
(* taken in, whatever the order of the rows. *)
THEOREM SnapshotCorrect == Spec => []SnapshotRoundTrip
<1>1. ASSUME IInv PROVE SnapshotRoundTrip
  <2>0. Nil \notin UserIds /\ Nil \notin GroupIds /\ Nil \notin ProjectIds /\ Nil \notin TokenIds
    BY NilAssumption
  <2>1. RestoredIndex(NameOfUser, Names) = {usersByName}
    <3>1. NameOfUser \in [UserIds -> Names \cup {Nil}] /\ usersByName \in [Names -> UserIds \cup {Nil}]
      BY <1>1, NilAssumption, LowerAssumption DEF NameOfUser, IInv, UsersInv, UserTypeOK, UserIndexInv, User
    <3>2. \A k \in Names, i \in UserIds : usersByName[k] = i <=> NameOfUser[i] = k
      BY <1>1, NilAssumption, LowerAssumption DEF NameOfUser, IInv, UsersInv, UserTypeOK, UserIndexInv, User
    <3>3. QED BY <2>0, <3>1, <3>2, RestoreUnique
  <2>2. RestoredIndex(OAuthOfUser, OAuthKeys) = {usersByOAuth}
    <3>1. OAuthOfUser \in [UserIds -> OAuthKeys \cup {Nil}] /\ usersByOAuth \in [OAuthKeys -> UserIds \cup {Nil}]
      BY <1>1, NilAssumption, LowerAssumption DEF OAuthOfUser, IInv, UsersInv, UserTypeOK, UserIndexInv, User
    <3>2. \A k \in OAuthKeys, i \in UserIds : usersByOAuth[k] = i <=> OAuthOfUser[i] = k
      BY <1>1, NilAssumption, LowerAssumption DEF OAuthOfUser, IInv, UsersInv, UserTypeOK, UserIndexInv, User
    <3>3. QED BY <2>0, <3>1, <3>2, RestoreUnique
  <2>3. RestoredIndex(NameOfGroup, Names) = {groupsByName}
    <3>1. NameOfGroup \in [GroupIds -> Names \cup {Nil}] /\ groupsByName \in [Names -> GroupIds \cup {Nil}]
      BY <1>1, NilAssumption, LowerAssumption DEF NameOfGroup, IInv, GroupsInv, GroupTypeOK, GroupIndexInv, Group
    <3>2. \A k \in Names, i \in GroupIds : groupsByName[k] = i <=> NameOfGroup[i] = k
      BY <1>1, NilAssumption, LowerAssumption DEF NameOfGroup, IInv, GroupsInv, GroupTypeOK, GroupIndexInv, Group
    <3>3. QED BY <2>0, <3>1, <3>2, RestoreUnique
  <2>4. RestoredIndex(NameOfProject, Names) = {projectsByName}
    <3>1. NameOfProject \in [ProjectIds -> Names \cup {Nil}] /\ projectsByName \in [Names -> ProjectIds \cup {Nil}]
      BY <1>1, NilAssumption, LowerAssumption DEF NameOfProject, IInv, ProjectsInv, ProjectTypeOK, ProjectIndexInv, Project
    <3>2. \A k \in Names, i \in ProjectIds : projectsByName[k] = i <=> NameOfProject[i] = k
      BY <1>1, NilAssumption, LowerAssumption DEF NameOfProject, IInv, ProjectsInv, ProjectTypeOK, ProjectIndexInv, Project
    <3>3. QED BY <2>0, <3>1, <3>2, RestoreUnique
  <2>5. RestoredIndex(HashOfToken, Hashes) = {tokensByHash}
    <3>1. HashOfToken \in [TokenIds -> Hashes \cup {Nil}] /\ tokensByHash \in [Hashes -> TokenIds \cup {Nil}]
      BY <1>1, NilAssumption, LowerAssumption DEF HashOfToken, IInv, TokensInv, TokenTypeOK, TokenIndexInv, Token
    <3>2. \A k \in Hashes, i \in TokenIds : tokensByHash[k] = i <=> HashOfToken[i] = k
      BY <1>1, NilAssumption, LowerAssumption DEF HashOfToken, IInv, TokensInv, TokenTypeOK, TokenIndexInv, Token
    <3>3. QED BY <2>0, <3>1, <3>2, RestoreUnique
  <2>6. RestoredIndex(UserOfToken, UserIds) = {tokensByUser}
    <3>1. UserOfToken \in [TokenIds -> UserIds \cup {Nil}] /\ tokensByUser \in [UserIds -> TokenIds \cup {Nil}]
      BY <1>1, NilAssumption, LowerAssumption DEF UserOfToken, IInv, TokensInv, TokenTypeOK, TokenIndexInv, Token
    <3>2. \A k \in UserIds, i \in TokenIds : tokensByUser[k] = i <=> UserOfToken[i] = k
      BY <1>1, NilAssumption, LowerAssumption DEF UserOfToken, IInv, TokensInv, TokenTypeOK, TokenIndexInv, Token
    <3>3. QED BY <2>0, <3>1, <3>2, RestoreUnique
  <2>7. RestoredMembershipsByUser = membershipsByUser
    BY <1>1 DEF RestoredMembershipsByUser, IInv, MembersInv, MemberTypeOK, MembershipInv
  <2>8. QED BY <2>1, <2>2, <2>3, <2>4, <2>5, <2>6, <2>7 DEF SnapshotRoundTrip
<1>2. QED BY <1>1, Inductive, PTL

-----------------------------------------------------------------------------
(* What one trace command does to the owner and the group of a row         *)
(* that exists before and after it. *)
LEMMA TraceStep ==
    ASSUME TracesInv, TraceCommand, NEW t \in TraceIds, traces[t] # Nil, traces'[t] # Nil
    PROVE  /\ traces[t].user # Nil => traces'[t].user = traces[t].user
           /\ traces[t].group # Nil => traces'[t].group = traces[t].group
<1> DEFINE Kept == /\ traces[t].user # Nil => traces'[t].user = traces[t].user
                   /\ traces[t].group # Nil => traces'[t].group = traces[t].group
<1>0. traces[t] \in Trace
  BY DEF TracesInv, TraceTypeOK
<1>1. ASSUME NEW id \in TraceIds, NEW user \in UserIds \cup {Nil},
             NEW version \in Versions \cup {Nil}, UpsertTraceProvision(id, user, version)
      PROVE  Kept
  <2>1. id = t => traces'[t] = ProvisionInto(traces[t], user, version)
    BY <1>1 DEF UpsertTraceProvision, TracesInv, TraceTypeOK
  <2>2. id # t => traces'[t] = traces[t]
    BY <1>1 DEF UpsertTraceProvision, TracesInv, TraceTypeOK
  <2>3. QED BY <1>0, <2>1, <2>2 DEF ProvisionInto, FirstNonEmpty, Trace
<1>2. ASSUME NEW id \in TraceIds, NEW user \in UserIds \cup {Nil},
             NEW version \in Versions \cup {Nil}, NEW group \in GroupIds \cup {Nil},
             NEW status \in Statuses, UpsertTraceIngest(id, user, group, status, version)
      PROVE  Kept
  <2>1. id = t => traces'[t] = IngestInto(traces[t], user, group, status, version)
    BY <1>2 DEF UpsertTraceIngest, TracesInv, TraceTypeOK
  <2>2. id # t => traces'[t] = traces[t]
    BY <1>2 DEF UpsertTraceIngest, TracesInv, TraceTypeOK
  <2>3. QED BY <1>0, <2>1, <2>2 DEF IngestInto, IngestStatus, FirstNonEmpty, Trace
<1>3. ASSUME NEW id \in TraceIds, NEW reason \in Reasons, MarkTraceFailed(id, reason)
      PROVE  Kept
  BY <1>0, <1>3 DEF MarkTraceFailed, TracesInv, TraceTypeOK, Trace, Terminal
<1>4. ASSUME NEW id \in TraceIds, DeleteTrace(id)
      PROVE  Kept
  BY <1>4 DEF DeleteTrace, TracesInv, TraceTypeOK
<1>5. QED BY <1>1, <1>2, <1>3, <1>4 DEF TraceCommand

(* What the cascades do to it. *)
LEMMA CascadeStep ==
    ASSUME TracesInv, UserCommand \/ GroupCommand, UserTypeOK, GroupTypeOK,
           NEW t \in TraceIds, traces[t] # Nil
    PROVE  /\ traces'[t] # Nil
           /\ traces'[t].status = traces[t].status /\ traces'[t].reason = traces[t].reason
           /\ \/ traces'[t].user = traces[t].user
              \/ traces'[t].user = Nil /\ users'[traces[t].user] = Nil
           /\ \/ traces'[t].group = traces[t].group
              \/ traces'[t].group = Nil /\ groups'[traces[t].group] = Nil
<1> USE RowAssumption
<1>0. traces[t] \in Trace
  BY DEF TracesInv, TraceTypeOK
<1>1. CASE UserCommand
  BY <1>0, <1>1 DEF UserCommand, CreateUser, UpdateUser, DeleteUser, TracesWithoutUser,
                    UserTypeOK, TracesInv, TraceTypeOK, Trace
<1>2. CASE GroupCommand
  BY <1>0, <1>2 DEF GroupCommand, CreateGroup, UpdateGroup, DeleteGroup, SetMembers,
                    GroupTypeOK, TracesInv, TraceTypeOK, Trace
<1>3. QED BY <1>1, <1>2

-----------------------------------------------------------------------------
(* Refinement of TraceStatus.  Allowed(a, b): a step of TraceStatus, or a  *)
(* stuttering step, takes the verdict of one trace from a to b.            *)
Allowed(a, b) ==
    \/ a = b
    \/ a = "absent" /\ b = "running"
    \/ b \in {"success", "failed"}
    \/ a = "running" /\ b = "lost"
    \/ b = "absent"

(* Provisioning creates a running trace and never changes a verdict. *)
LEMMA ProvisionVerdict ==
    ASSUME NEW id \in TraceIds, NEW user \in UserIds \cup {Nil},
           NEW version \in Versions \cup {Nil},
           TracesInv, UpsertTraceProvision(id, user, version)
    PROVE  Allowed(Verdict(traces[id]), Verdict(traces'[id]))
<1> USE RowAssumption
<1>1. CASE traces[id] = Nil
  <2>0. PICK s \in Statuses : s = ""
    BY DEF Statuses
  <2> DEFINE new == [user |-> user, group |-> Nil, status |-> s, reason |-> Nil,
                     version |-> version]
  <2>1. new \in Trace /\ new.status \notin Terminal
    <3>1. new \in Trace /\ new.status = s
      BY DEF Trace
    <3>2. s \notin Terminal
      BY <2>0 DEF Terminal
    <3>3. QED BY <3>1, <3>2
  <2>2. traces'[id] = new
    BY <1>1, <2>0 DEF UpsertTraceProvision, TracesInv, TraceTypeOK
  <2>3. Verdict(traces'[id]) = "running"
    BY <2>1, <2>2 DEF Verdict
  <2>4. QED BY <1>1, <2>3 DEF Verdict, Allowed
<1>2. CASE traces[id] # Nil
  <2>1. traces'[id] = ProvisionInto(traces[id], user, version) /\ traces[id] \in Trace
    BY <1>2 DEF UpsertTraceProvision, TracesInv, TraceTypeOK
  <2>2. traces'[id] \in Trace
    BY <2>1, ProvisionIntoTrace
  <2>3. traces'[id].status = traces[id].status /\ traces'[id].reason = traces[id].reason
    BY <2>1 DEF ProvisionInto, Trace
  <2>4. QED BY <1>2, <2>2, <2>3 DEF Verdict, Allowed
<1>3. QED BY <1>1, <1>2

(* A batch begins a trace, reports its verdict or changes nothing. *)
LEMMA IngestVerdict ==
    ASSUME NEW id \in TraceIds, NEW user \in UserIds \cup {Nil},
           NEW group \in GroupIds \cup {Nil}, NEW status \in Statuses,
           NEW version \in Versions \cup {Nil},
           TracesInv, UpsertTraceIngest(id, user, group, status, version)
    PROVE  Allowed(Verdict(traces[id]), Verdict(traces'[id]))
<1> USE RowAssumption
<1>1. CASE traces[id] = Nil
  <2> DEFINE new == [user |-> user, group |-> group, status |-> status, reason |-> Nil,
                     version |-> version]
  <2>1. new \in Trace
    BY DEF Trace
  <2>2. traces'[id] = new
    BY <1>1 DEF UpsertTraceIngest, TracesInv, TraceTypeOK
  <2>3. Verdict(traces'[id]) \in {"running", "success", "failed"}
    BY <2>1, <2>2 DEF Verdict, Terminal
  <2>4. QED BY <1>1, <2>3 DEF Verdict, Allowed
<1>2. CASE traces[id] # Nil
  <2>1. traces'[id] = IngestInto(traces[id], user, group, status, version)
           /\ traces[id] \in Trace
    BY <1>2 DEF UpsertTraceIngest, TracesInv, TraceTypeOK
  <2>2. /\ traces'[id].status = IngestStatus(traces[id].status, status)
        /\ traces'[id].reason = IngestReason(traces[id].reason, status)
    BY <2>1 DEF IngestInto, Trace
  <2>3. traces'[id] \in Trace
    BY <2>1, IngestIntoTrace DEF TracesInv, ReasonInv
  <2>4. CASE status \in Terminal
    BY <1>2, <2>2, <2>3, <2>4 DEF Verdict, Allowed, IngestStatus, IngestReason, Terminal
  <2>5. CASE status \notin Terminal
    <3>1. traces'[id].reason = traces[id].reason
      BY <2>2, <2>5 DEF IngestReason
    <3>2. \/ traces'[id].status = traces[id].status
          \/ traces[id].status \notin Terminal /\ traces'[id].status \notin Terminal
      BY <2>2, <2>5 DEF IngestStatus
    <3>3. QED BY <1>2, <2>3, <3>1, <3>2 DEF Verdict, Allowed
  <2>6. QED BY <2>4, <2>5
<1>3. QED BY <1>1, <1>2

(* Only a running trace is given up. *)
LEMMA MarkFailedVerdict ==
    ASSUME NEW id \in TraceIds, NEW reason \in Reasons, TracesInv, MarkTraceFailed(id, reason)
    PROVE  Allowed(Verdict(traces[id]), Verdict(traces'[id]))
<1> USE RowAssumption, NilAssumption
<1>1. traces[id] \in Trace /\ traces[id] # Nil /\ traces[id].status \notin Terminal
  BY DEF MarkTraceFailed, TracesInv, TraceTypeOK
<1>2. traces'[id] \in Trace /\ traces'[id].status = "failed" /\ traces'[id].reason = reason
  BY <1>1 DEF MarkTraceFailed, TracesInv, TraceTypeOK, Trace, Statuses, Terminal
<1>3. QED BY <1>1, <1>2 DEF Verdict, Allowed, Terminal

(* A change of one row that Allowed permits is a step of TraceStatus. *)
LEMMA AllowedIsRowStep ==
    ASSUME NEW id \in TraceIds, Allowed(Verdict(traces[id]), Verdict(traces'[id])),
           \A t \in TraceIds \ {id} : traces'[t] = traces[t]
    PROVE  \/ Row!Next
           \/ [t \in TraceIds |-> Verdict(traces[t])]' = [t \in TraceIds |-> Verdict(traces[t])]
<1> DEFINE V == [t \in TraceIds |-> Verdict(traces[t])]
           W == [t \in TraceIds |-> Verdict(traces'[t])]
<1>1. V' = W
  OBVIOUS
<1>2. \A t \in TraceIds \ {id} : W[t] = V[t]
  OBVIOUS
<1>3. V[id] = Verdict(traces[id]) /\ W[id] = Verdict(traces'[id])
  OBVIOUS
<1>4. DOMAIN V = TraceIds /\ DOMAIN W = TraceIds
  OBVIOUS
<1>5. V \in [TraceIds -> {Verdict(traces[t]) : t \in TraceIds}]
  OBVIOUS
<1>6. W \in [TraceIds -> {Verdict(traces'[t]) : t \in TraceIds}]
  OBVIOUS
<1> HIDE DEF V, W
<1>7. W = [V EXCEPT ![id] = W[id]]
  BY <1>2, <1>5, <1>6
<1>8. V' = [V EXCEPT ![id] = W[id]] /\ Allowed(V[id], W[id])
  BY <1>1, <1>3, <1>7
<1>9. CASE V[id] = W[id]
  <2>1. W = V
    BY <1>2, <1>5, <1>6, <1>9
  <2>2. V' = V
    BY <1>1, <2>1
  <2>3. QED BY <2>2 DEF V
<1>10. CASE V[id] = "absent" /\ W[id] = "running"
  <2>1. V[id] = "absent" /\ V' = [V EXCEPT ![id] = "running"]
    BY <1>8, <1>10
  <2>2. Row!Begin(id)
    BY <2>1 DEF V, Row!Begin
  <2>3. QED BY <2>2 DEF Row!Next
<1>11. CASE W[id] \in {"success", "failed"}
  <2>1. Row!Report(id, W[id])
    BY <1>8, <1>11 DEF V, Row!Report
  <2>2. QED BY <1>11, <2>1 DEF Row!Next, Row!Verdicts
<1>12. CASE V[id] = "running" /\ W[id] = "lost"
  <2>1. V[id] = "running" /\ V' = [V EXCEPT ![id] = "lost"]
    BY <1>8, <1>12
  <2>2. Row!GiveUp(id)
    BY <2>1 DEF V, Row!GiveUp
  <2>3. QED BY <2>2 DEF Row!Next
<1>13. CASE W[id] = "absent"
  <2>1. V' = [V EXCEPT ![id] = "absent"]
    BY <1>8, <1>13
  <2>2. Row!Purge(id)
    BY <2>1 DEF V, Row!Purge
  <2>3. QED BY <2>2 DEF Row!Next
<1>14. QED BY <1>8, <1>9, <1>10, <1>11, <1>12, <1>13 DEF Allowed

(* Every trace command is a step of TraceStatus or leaves all verdicts. *)
LEMMA TraceCommandRowStep ==
    ASSUME TracesInv, TraceCommand
    PROVE  \/ Row!Next
           \/ [t \in TraceIds |-> Verdict(traces[t])]' = [t \in TraceIds |-> Verdict(traces[t])]
<1> DEFINE OneRow == \E id \in TraceIds :
                       /\ Allowed(Verdict(traces[id]), Verdict(traces'[id]))
                       /\ \A t \in TraceIds \ {id} : traces'[t] = traces[t]
<1>1. OneRow
  <2>1. ASSUME NEW id \in TraceIds, NEW user \in UserIds \cup {Nil},
               NEW version \in Versions \cup {Nil}, UpsertTraceProvision(id, user, version)
        PROVE  OneRow
    <3>1. \A t \in TraceIds \ {id} : traces'[t] = traces[t]
      BY <2>1 DEF UpsertTraceProvision, TracesInv, TraceTypeOK
    <3>2. QED BY <2>1, <3>1, ProvisionVerdict
  <2>2. ASSUME NEW id \in TraceIds, NEW user \in UserIds \cup {Nil},
               NEW version \in Versions \cup {Nil}, NEW group \in GroupIds \cup {Nil},
               NEW status \in Statuses, UpsertTraceIngest(id, user, group, status, version)
        PROVE  OneRow
    <3>1. \A t \in TraceIds \ {id} : traces'[t] = traces[t]
      BY <2>2 DEF UpsertTraceIngest, TracesInv, TraceTypeOK
    <3>2. QED BY <2>2, <3>1, IngestVerdict
  <2>3. ASSUME NEW id \in TraceIds, NEW reason \in Reasons, MarkTraceFailed(id, reason)
        PROVE  OneRow
    <3>1. \A t \in TraceIds \ {id} : traces'[t] = traces[t]
      BY <2>3 DEF MarkTraceFailed, TracesInv, TraceTypeOK
    <3>2. QED BY <2>3, <3>1, MarkFailedVerdict
  <2>4. ASSUME NEW id \in TraceIds, DeleteTrace(id)
        PROVE  OneRow
    <3>1. traces'[id] = Nil /\ \A t \in TraceIds \ {id} : traces'[t] = traces[t]
      BY <2>4 DEF DeleteTrace, TracesInv, TraceTypeOK
    <3>2. Allowed(Verdict(traces[id]), Verdict(traces'[id]))
      BY <3>1 DEF Verdict, Allowed
    <3>3. QED BY <3>1, <3>2
  <2>5. QED BY <2>1, <2>2, <2>3, <2>4 DEF TraceCommand
<1>2. QED BY <1>1, AllowedIsRowStep

(* The cascades of a deleted user or group change no verdict. *)
LEMMA CascadeKeepsVerdicts ==
    ASSUME TracesInv, UserTypeOK, GroupTypeOK, UserCommand \/ GroupCommand,
           NEW t \in TraceIds
    PROVE  Verdict(traces'[t]) = Verdict(traces[t])
<1>1. CASE traces[t] # Nil
  BY <1>1, CascadeStep DEF Verdict
<1>2. CASE traces[t] = Nil
  <2>1. traces'[t] = Nil
    BY <1>2, RowAssumption
       DEF UserCommand, CreateUser, UpdateUser, DeleteUser, TracesWithoutUser,
           GroupCommand, CreateGroup, UpdateGroup, DeleteGroup, SetMembers,
           TracesInv, TraceTypeOK
  <2>2. QED BY <1>2, <2>1
<1>3. QED BY <1>1, <1>2

(* The replicated state machine implements TraceStatus: whatever the order *)
(* of batches, disconnect marks, provisions and purges in the log, every   *)
(* change of a row is one that the abstract specification allows.          *)
THEOREM ImplementsTraceStatus == Spec => StatusFollowsRules
<1> DEFINE V == [t \in TraceIds |-> Verdict(traces[t])]
<1>1. Init => Row!Init
  BY DEF Init, Row!Init, Verdict
<1>2. ASSUME IInv, [Next]_vars PROVE Row!Next \/ V' = V
  <2>1. CASE UNCHANGED traces
    BY <2>1
  <2>2. CASE TraceCommand
    BY <1>2, <2>2, TraceCommandRowStep DEF IInv
  <2>3. CASE UserCommand \/ GroupCommand
    BY <1>2, <2>3, CascadeKeepsVerdicts DEF IInv, UsersInv, GroupsInv
  <2>4. QED BY <1>2, <2>1, <2>2, <2>3, FrameTraces DEF vars
<1>3. IInv /\ [Next]_vars => [Row!Next]_V
  BY <1>2
<1>4. QED BY <1>1, <1>3, Inductive, PTL DEF Spec, StatusFollowsRules, Row!Spec

(* A trace keeps its owner and group until they are deleted. *)
THEOREM AttributionSticks == Spec => AttributionStable
<1> DEFINE A == \A t \in TraceIds :
                  traces[t] # Nil /\ traces'[t] # Nil =>
                    /\ traces[t].user # Nil =>
                          \/ traces'[t].user = traces[t].user
                          \/ traces'[t].user = Nil /\ users'[traces[t].user] = Nil
                    /\ traces[t].group # Nil =>
                          \/ traces'[t].group = traces[t].group
                          \/ traces'[t].group = Nil /\ groups'[traces[t].group] = Nil
<1>1. ASSUME IInv, [Next]_vars PROVE A
  <2>1. CASE UNCHANGED traces
    BY <2>1
  <2>2. CASE TraceCommand
    BY <1>1, <2>2, TraceStep DEF IInv
  <2>3. CASE UserCommand \/ GroupCommand
    BY <1>1, <2>3, CascadeStep DEF IInv, UsersInv, GroupsInv
  <2>4. QED BY <1>1, <2>1, <2>2, <2>3, FrameTraces DEF vars
<1>2. QED BY <1>1, Inductive, PTL DEF Spec, AttributionStable

(* Deleting a user or a group takes every reference to it along. *)
THEOREM DeletesCascade == Spec => DeleteCascades
<1> DEFINE A == /\ \A u \in UserIds : users[u] # Nil /\ users'[u] = Nil => CascadeOf(u)
                /\ \A g \in GroupIds : groups[g] # Nil /\ groups'[g] = Nil => GroupCascadeOf(g)
<1> USE NilAssumption, RowAssumption
<1>1. ASSUME IInv, IInv', [Next]_vars, NEW u \in UserIds, users[u] # Nil, users'[u] = Nil
      PROVE  CascadeOf(u)
  <2>1. UserCommand
    BY <1>1, FrameUsers DEF vars, userVars
  <2>2. DeleteUser(u)
    BY <1>1, <2>1 DEF UserCommand, CreateUser, UpdateUser, DeleteUser,
                      IInv, UsersInv, UserTypeOK, User
  <2>3. tokensByUser'[u] = Nil
    BY <1>1, <2>2 DEF DeleteUser, ReplaceToken, Reindex, IInv, TokensInv, TokenTypeOK,
                      TokenIndexInv
  <2>4. \A t \in TokenIds : tokens'[t] # Nil => tokens'[t].user # u
    BY <1>1, <2>3 DEF IInv, TokensInv, TokenIndexInv
  <2>5. /\ \A g \in GroupIds : u \notin memberships'[g]
        /\ membershipsByUser'[u] = {}
    BY <1>1, <2>2 DEF DeleteUser, MembershipsWithout, IInv, MembersInv, MemberTypeOK,
                      MembershipInv
  <2>6. /\ \A n \in Names : usersByName'[n] # u
        /\ \A k \in OAuthKeys : usersByOAuth'[k] # u
    BY <1>1 DEF IInv, UsersInv, UserIndexInv
  <2>7. \A t \in TraceIds : traces'[t] # Nil => traces'[t].user # u
    BY <1>1, <2>2 DEF DeleteUser, TracesWithoutUser, IInv, TracesInv, TraceTypeOK, Trace
  <2>8. QED BY <2>4, <2>5, <2>6, <2>7 DEF CascadeOf
<1>2. ASSUME IInv, IInv', [Next]_vars, NEW g \in GroupIds, groups[g] # Nil, groups'[g] = Nil
      PROVE  GroupCascadeOf(g)
  <2>1. GroupCommand
    BY <1>2, FrameGroups DEF vars, groupVars
  <2>2. DeleteGroup(g)
    BY <1>2, <2>1 DEF GroupCommand, CreateGroup, UpdateGroup, DeleteGroup, SetMembers,
                      groupVars, IInv, GroupsInv, GroupTypeOK, Group
  <2>3. /\ memberships'[g] = {}
        /\ \A u \in UserIds : g \notin membershipsByUser'[u]
    BY <1>2, <2>2 DEF DeleteGroup, IInv, MembersInv, MemberTypeOK, MembershipInv
  <2>4. \A n \in Names : groupsByName'[n] # g
    BY <1>2 DEF IInv, GroupsInv, GroupIndexInv
  <2>5. \A p \in ProjectIds : projects'[p] # Nil => projects'[p].group # g
    BY <1>2, <2>2 DEF DeleteGroup, IInv, ProjectsInv, ProjectTypeOK, Project
  <2>6. \A t \in TraceIds : traces'[t] # Nil => traces'[t].group # g
    BY <1>2, <2>2 DEF DeleteGroup, IInv, TracesInv, TraceTypeOK, Trace
  <2>7. QED BY <2>3, <2>4, <2>5, <2>6 DEF GroupCascadeOf
<1>3. IInv /\ IInv' /\ [Next]_vars => A
  BY <1>1, <1>2
<1>4. QED BY <1>3, Inductive, PTL DEF Spec, DeleteCascades
=============================================================================
