---------------------------- MODULE GroupService ----------------------------
(***************************************************************************)
(* Who is in which group.  The state machine replaces a group's members as  *)
(* a whole; the service adds or removes one user by reading the members and *)
(* replacing them.  Three callers do so while administrators edit groups:   *)
(* an OAuth login, which reconciles the memberships it manages with the     *)
(* groups the provider's names map to, an administrator who sets a user's   *)
(* groups, and the first start, which sweeps users without a group into     *)
(* "default".  Users are neither created nor deleted here; group names are  *)
(* what group_mappings makes of the provider's.                             *)
(***************************************************************************)
EXTENDS Naturals, FiniteSets, Absent

CONSTANTS
    GrpUsers,
    GrpNames,       \* group names, as mapped or as given by an administrator
    GrpInvalid,     \* names that ValidateGroupName refuses
    DefaultGroup,
    MaxGroupId,     \* bound on groups ever created
    GrpRequests,
    GrpOverlap,     \* whether calls may run beside one another
    MaxGrpCalls,    \* bound on calls of administrators and users together
    MaxGrpFaults    \* bound on writes refused with ErrNotLeader

ASSUME GrpAssumption ==
    /\ GrpInvalid \subseteq GrpNames /\ DefaultGroup \in GrpNames \ GrpInvalid
    /\ GrpOverlap \in BOOLEAN /\ MaxGroupId \in Nat \ {0} /\ MaxGrpCalls \in Nat /\ MaxGrpFaults \in Nat
    /\ Nil \notin GrpNames

VARIABLES
    groupName,      \* groupName[g]: the name of group g, Nil for none
    nextGroup,      \* the next id
    grpMembers,     \* grpMembers[g]: the users in group g
    managed,        \* managed[u]: the OAuthGroupIDs in u's stored record
    mapped,         \* mapped[u]: the groups u is in because a login put them there
    grpCall,        \* grpCall[r]: the request r serves
    disturbed,      \* requests beside which another ran, an edit was made or a write failed
    grpCalls, grpFaults

grpVars == <<groupName, nextGroup, grpMembers, managed, mapped, grpCall, disturbed, grpCalls, grpFaults>>
grpStore == <<groupName, nextGroup, grpMembers>>

GroupId == 1 .. MaxGroupId
Standing == {g \in GroupId : groupName[g] # Nil}
GroupsOf(u) == {g \in GroupId : u \in grpMembers[g]}
ByName(n) == {g \in GroupId : groupName[g] = n}
ValidNames == GrpNames \ GrpInvalid

(* A request in progress.  wanted and previous are reconcileMemberships'     *)
(* sets, add and remove what is left to do, at the group being edited, seen  *)
(* its members without the user, record the OAuthGroupIDs in the request's   *)
(* copy of the user, sweep the users bootstrapDefaultGroup has left.  base   *)
(* keeps the user's groups when the request began.                           *)
GrpCall == [op: {"login", "groups", "sweep"}, user: GrpUsers \cup {Nil},
         stage: {"ensure", "create", "refetch", "edit", "write", "fallback", "update", "next"},
         names: SUBSET GrpNames, name: GrpNames \cup {Nil},
         wanted: SUBSET GroupId, previous: SUBSET GroupId,
         add: SUBSET GroupId, remove: SUBSET GroupId, at: GroupId \cup {0}, seen: SUBSET GrpUsers,
         joining: BOOLEAN, record: SUBSET GroupId, sweep: SUBSET GrpUsers, base: SUBSET GroupId]

NewCall == [op |-> "login", user |-> Nil, stage |-> "next", names |-> {}, name |-> Nil,
            wanted |-> {}, previous |-> {}, add |-> {}, remove |-> {}, at |-> 0, seen |-> {},
            joining |-> FALSE, record |-> {}, sweep |-> {}, base |-> {}]

ASSUME NilNotCall == Nil \notin GrpCall

(* Members, copies and plans name only users and groups there are; a group   *)
(* that is gone has no members.                                              *)
GrpTypeOK ==
    /\ groupName \in [GroupId -> ValidNames \cup {Nil}] /\ nextGroup \in 1 .. MaxGroupId + 1
    /\ grpMembers \in [GroupId -> SUBSET GrpUsers]
    /\ \A g \in GroupId \ Standing : grpMembers[g] = {}
    /\ \A n \in GrpNames : Cardinality(ByName(n)) <= 1
    /\ managed \in [GrpUsers -> SUBSET GroupId] /\ mapped \in [GrpUsers -> SUBSET GroupId]
    /\ \A r \in GrpRequests : grpCall[r] # Nil => grpCall[r] \in GrpCall
    /\ disturbed \subseteq GrpRequests
    /\ grpCalls \in 0 .. MaxGrpCalls /\ grpFaults \in 0 .. MaxGrpFaults

(* An empty cluster, or one after its first start.                          *)
GrpInit ==
    /\ \/ groupName = [g \in GroupId |-> Nil] /\ nextGroup = 1
       \/ groupName = [g \in GroupId |-> IF g = 1 THEN DefaultGroup ELSE Nil] /\ nextGroup = 2
    /\ grpMembers = [g \in GroupId |-> {}]
    /\ managed = [u \in GrpUsers |-> {}] /\ mapped = [u \in GrpUsers |-> {}]
    /\ grpCall = [r \in GrpRequests |-> Nil]
    /\ disturbed = {} /\ grpCalls = 0 /\ grpFaults = 0

-----------------------------------------------------------------------------
(* Commands of the state machine (module MetaFSM).                          *)

AddGroup(n) ==
    /\ nextGroup \in GroupId
    /\ groupName' = [groupName EXCEPT ![nextGroup] = n]
    /\ nextGroup' = nextGroup + 1

Running == {r \in GrpRequests : grpCall[r] # Nil}

MayCall == GrpOverlap \/ Running = {}

(* An administrator's call, done with one command.                          *)
Edit ==
    /\ MayCall /\ grpCalls < MaxGrpCalls /\ grpCalls' = grpCalls + 1
    /\ disturbed' = disturbed \cup Running
    /\ UNCHANGED <<managed, grpCall, grpFaults>>

CreateGroup(n) ==
    /\ Edit /\ n \in ValidNames /\ ByName(n) = {}
    /\ AddGroup(n)
    /\ UNCHANGED <<grpMembers, mapped>>

UpdateGroup(g, n) ==
    /\ Edit /\ n \in ValidNames /\ g \in Standing /\ groupName[g] # n /\ ByName(n) = {}
    /\ groupName' = [groupName EXCEPT ![g] = n]
    /\ UNCHANGED <<nextGroup, grpMembers, mapped>>

DeleteGroup(g) ==
    /\ Edit /\ g \in Standing
    /\ groupName' = [groupName EXCEPT ![g] = Nil]
    /\ grpMembers' = [grpMembers EXCEPT ![g] = {}]
    /\ mapped' = [u \in GrpUsers |-> mapped[u] \ {g}]
    /\ UNCHANGED nextGroup

SetMembers(g, members) ==
    /\ Edit /\ g \in Standing
    /\ grpMembers' = [grpMembers EXCEPT ![g] = members]
    /\ mapped' = [u \in GrpUsers |-> mapped[u] \ {g}]
    /\ UNCHANGED <<groupName, nextGroup>>

-----------------------------------------------------------------------------
(* Requests.                                                                *)

BeginCall(r, c) ==
    /\ MayCall /\ grpCall[r] = Nil /\ grpCalls < MaxGrpCalls /\ grpCalls' = grpCalls + 1
    /\ grpCall' = [grpCall EXCEPT ![r] = c]
    /\ disturbed' = IF Running = {} THEN disturbed \ {r} ELSE disturbed \cup Running \cup {r}
    /\ UNCHANGED <<managed, mapped, grpFaults>>

Becomes(r, c) == grpCall' = [grpCall EXCEPT ![r] = c]

(* A write that raft refuses, because the pod no longer leads.              *)
NotLeader ==
    /\ grpFaults < MaxGrpFaults /\ grpFaults' = grpFaults + 1
    /\ disturbed' = disturbed \cup Running

(* completeOAuthLogin with the user as stored.                              *)
CompleteOAuthLogin(r, u, names) ==
    /\ BeginCall(r, [NewCall EXCEPT !.user = u, !.stage = "ensure", !.names = names,
                   !.previous = managed[u], !.record = managed[u], !.base = GroupsOf(u)])
    /\ UNCHANGED grpStore

(* SetUserGroups: every group exists, and the present ones are read.        *)
SetUserGroups(r, u, wanted) ==
    /\ wanted \subseteq Standing
    /\ BeginCall(r, [NewCall EXCEPT !.op = "groups", !.user = u, !.stage = "edit", !.base = GroupsOf(u),
                   !.wanted = wanted, !.previous = GroupsOf(u),
                   !.add = wanted \ GroupsOf(u), !.remove = GroupsOf(u) \ wanted])
    /\ UNCHANGED grpStore

(* bootstrapDefaultGroup, when there is no group at all.                    *)
BootstrapDefaultGroup(r) ==
    /\ Standing = {} /\ AddGroup(DefaultGroup)
    /\ BeginCall(r, [NewCall EXCEPT !.op = "sweep", !.wanted = {nextGroup}, !.sweep = GrpUsers])
    /\ UNCHANGED grpMembers

(* The next user of the sweep: EnsureMember for one without a group.        *)
SweepUser(r) ==
    /\ grpCall[r].stage = "next" /\ grpCall[r].sweep # {}
    /\ \E u \in grpCall[r].sweep :
         Becomes(r, IF GroupsOf(u) # {}
                    THEN [grpCall[r] EXCEPT !.sweep = @ \ {u}]
                    ELSE [grpCall[r] EXCEPT !.sweep = @ \ {u}, !.user = u, !.stage = "edit",
                                         !.add = grpCall[r].wanted])
    /\ UNCHANGED <<grpStore, managed, mapped, disturbed, grpCalls, grpFaults>>

SweepEnds(r) ==
    /\ grpCall[r].stage = "next" /\ grpCall[r].sweep = {}
    /\ Becomes(r, Nil)
    /\ UNCHANGED <<grpStore, managed, mapped, disturbed, grpCalls, grpFaults>>

(* ensureGroupByName: the group is found, the name is refused, or a group is *)
(* about to be created.                                                     *)
EnsureGroupByName(r) ==
    /\ grpCall[r].stage = "ensure"
    /\ \E n \in grpCall[r].names :
         Becomes(r, IF ByName(n) = {} /\ n \in ValidNames
                    THEN [grpCall[r] EXCEPT !.names = @ \ {n}, !.name = n, !.stage = "create"]
                    ELSE [grpCall[r] EXCEPT !.names = @ \ {n}, !.wanted = @ \cup ByName(n)])
    /\ UNCHANGED <<grpStore, managed, mapped, disturbed, grpCalls, grpFaults>>

CreateMappedGroup(r) ==
    /\ grpCall[r].stage = "create" /\ ByName(grpCall[r].name) = {}
    /\ AddGroup(grpCall[r].name)
    /\ Becomes(r, [grpCall[r] EXCEPT !.wanted = @ \cup {nextGroup}, !.name = Nil, !.stage = "ensure"])
    /\ UNCHANGED <<grpMembers, managed, mapped, disturbed, grpCalls, grpFaults>>

(* ErrConflict: the group another request has created is fetched.           *)
CreateConflict(r) ==
    /\ grpCall[r].stage = "create" /\ ByName(grpCall[r].name) # {}
    /\ Becomes(r, [grpCall[r] EXCEPT !.stage = "refetch"])
    /\ UNCHANGED <<grpStore, managed, mapped, disturbed, grpCalls, grpFaults>>

Refetch(r) ==
    /\ grpCall[r].stage = "refetch"
    /\ Becomes(r, [grpCall[r] EXCEPT !.wanted = @ \cup ByName(grpCall[r].name), !.name = Nil,
                                  !.stage = "ensure"])
    /\ UNCHANGED <<grpStore, managed, mapped, disturbed, grpCalls, grpFaults>>

(* Any other error: the name is skipped.                                    *)
CreateFails(r) ==
    /\ grpCall[r].stage = "create" /\ NotLeader
    /\ Becomes(r, [grpCall[r] EXCEPT !.name = Nil, !.stage = "ensure"])
    /\ UNCHANGED <<grpStore, managed, mapped, grpCalls>>

\* Mutation: everything the user is in that does not map is removed.
PlanAll(r) ==
    [grpCall[r] EXCEPT !.stage = "edit", !.add = grpCall[r].wanted \ grpCall[r].previous,
                    !.remove = GroupsOf(grpCall[r].user) \ grpCall[r].wanted]

(* reconcileMemberships: what is newly wanted is added, what was managed and *)
(* no longer maps is removed.                                               *)
Plan(r) ==
    [grpCall[r] EXCEPT !.stage = "edit", !.add = grpCall[r].wanted \ grpCall[r].previous,
                    !.remove = grpCall[r].previous \ grpCall[r].wanted]

Reconcile(r) ==
    /\ grpCall[r].stage = "ensure" /\ grpCall[r].names = {}
    /\ Becomes(r, Plan(r))
    /\ UNCHANGED <<grpStore, managed, mapped, disturbed, grpCalls, grpFaults>>

(* memberIDsWithout: additions come first.  A group that is gone has no      *)
(* members, and no error.  EnsureMember writes nothing for a member.        *)
MemberIDsWithout(r) ==
    /\ grpCall[r].stage = "edit"
    /\ \E g \in (IF grpCall[r].add # {} THEN grpCall[r].add ELSE grpCall[r].remove) :
         Becomes(r, IF grpCall[r].op = "sweep" /\ grpCall[r].user \in grpMembers[g]
                    THEN [grpCall[r] EXCEPT !.add = {}]
                    ELSE [grpCall[r] EXCEPT !.stage = "write", !.at = g,
                                            !.seen = grpMembers[g] \ {grpCall[r].user}])
    /\ UNCHANGED <<grpStore, managed, mapped, disturbed, grpCalls, grpFaults>>

(* addGroupMember, removeGroupMember: what was read is written back.  A      *)
(* membership is mapped when a login makes it, not when it finds it.        *)
WriteMembers(r) ==
    LET c == grpCall[r]
        adds == c.at \in c.add
        mapping == adds /\ c.op = "login" /\ ~c.joining
                     /\ (c.user \in grpMembers[c.at] => c.at \in mapped[c.user])
        members == IF adds THEN c.seen \cup {c.user} ELSE c.seen
    IN /\ c.stage = "write" /\ c.at \in Standing
       /\ grpMembers' = [grpMembers EXCEPT ![c.at] = members]
       /\ mapped' = [u \in GrpUsers |-> IF u = c.user /\ mapping THEN mapped[u] \cup {c.at}
                                        ELSE IF u = c.user \/ u \notin members
                                             THEN mapped[u] \ {c.at} ELSE mapped[u]]
       /\ Becomes(r, [c EXCEPT !.stage = "edit", !.at = 0, !.seen = {},
                               !.add = @ \ {c.at}, !.remove = @ \ {c.at}])
       /\ UNCHANGED <<groupName, nextGroup, managed, disturbed, grpCalls, grpFaults>>

(* After the edits, or the first of them that failed: a login looks at the   *)
(* user's groups and, with no join under way, has reconciled when record is  *)
(* what was wanted; a sweep goes on; SetUserGroups returns.                 *)
After(r, record) ==
    LET c == [grpCall[r] EXCEPT !.at = 0, !.seen = {}, !.add = {}, !.remove = {}]
    IN CASE c.op = "groups" -> Nil
         [] c.op = "sweep"  -> [c EXCEPT !.user = Nil, !.stage = "next"]
         [] c.joining       -> [c EXCEPT !.stage = "update"]
         [] OTHER           -> [c EXCEPT !.stage = "fallback", !.record = record]

EditsDone(r) ==
    /\ grpCall[r].stage = "edit" /\ grpCall[r].add = {} /\ grpCall[r].remove = {}
    /\ Becomes(r, After(r, grpCall[r].wanted))
    /\ UNCHANGED <<grpStore, managed, mapped, disturbed, grpCalls, grpFaults>>

(* ErrNotFound, since the group was deleted, or ErrNotLeader.               *)
GroupGone(r) ==
    /\ grpCall[r].stage = "write" /\ grpCall[r].at \notin Standing
    /\ Becomes(r, After(r, grpCall[r].record))
    /\ UNCHANGED <<grpStore, managed, mapped, disturbed, grpCalls, grpFaults>>

EditFails(r) ==
    /\ grpCall[r].stage = "write" /\ NotLeader
    /\ Becomes(r, After(r, grpCall[r].record))
    /\ UNCHANGED <<grpStore, managed, mapped, grpCalls>>

(* A user who is in no group joins the default group, if there is one.      *)
JoinGroupByName(r) ==
    /\ grpCall[r].stage = "fallback"
    /\ Becomes(r, IF GroupsOf(grpCall[r].user) # {} \/ ByName(DefaultGroup) = {}
                  THEN [grpCall[r] EXCEPT !.stage = "update"]
                  ELSE [grpCall[r] EXCEPT !.stage = "edit", !.joining = TRUE, !.add = ByName(DefaultGroup)])
    /\ UNCHANGED <<grpStore, managed, mapped, disturbed, grpCalls, grpFaults>>

(* users.Update, and the tokens are issued; or the login fails.             *)
PersistUser(r) ==
    /\ grpCall[r].stage = "update"
    /\ managed' = [managed EXCEPT ![grpCall[r].user] = grpCall[r].record]
    /\ Becomes(r, Nil)
    /\ UNCHANGED <<grpStore, mapped, disturbed, grpCalls, grpFaults>>

PersistFails(r) ==
    /\ grpCall[r].stage = "update" /\ NotLeader
    /\ Becomes(r, Nil)
    /\ UNCHANGED <<grpStore, managed, mapped, grpCalls>>

-----------------------------------------------------------------------------
GrpStep(r) ==
    /\ grpCall[r] # Nil
    /\ \/ SweepUser(r) \/ SweepEnds(r) \/ EnsureGroupByName(r) \/ CreateMappedGroup(r)
       \/ CreateConflict(r) \/ Refetch(r) \/ CreateFails(r) \/ Reconcile(r)
       \/ MemberIDsWithout(r) \/ WriteMembers(r) \/ EditsDone(r) \/ GroupGone(r) \/ EditFails(r)
       \/ JoinGroupByName(r) \/ PersistUser(r) \/ PersistFails(r)

GrpNext ==
    \/ \E n \in GrpNames : CreateGroup(n) \/ \E g \in GroupId : UpdateGroup(g, n)
    \/ \E g \in GroupId : DeleteGroup(g) \/ \E members \in SUBSET GrpUsers : SetMembers(g, members)
    \/ \E r \in GrpRequests :
          \/ GrpStep(r) \/ BootstrapDefaultGroup(r)
          \/ \E u \in GrpUsers : \/ \E names \in SUBSET GrpNames : CompleteOAuthLogin(r, u, names)
                                 \/ \E wanted \in SUBSET GroupId : SetUserGroups(r, u, wanted)

GrpSpec == GrpInit /\ [][GrpNext]_grpVars

-----------------------------------------------------------------------------
(* Properties.                                                              *)

(* A login about to be stored, that nothing disturbed.                      *)
LoggedIn(r) ==
    grpCall[r] # Nil /\ grpCall[r].op = "login" /\ grpCall[r].stage = "update" /\ r \notin disturbed

(* What reconcileMemberships and the default group come to: "Admin-managed   *)
(* memberships are never touched", newly mapped groups are joined, stale     *)
(* ones left, and who is then in no group is in the default group.          *)
Reconciled(c) ==
    LET groups == (c.base \cup (c.wanted \ c.previous)) \ (c.previous \ c.wanted)
    IN IF groups = {} THEN ByName(DefaultGroup) ELSE groups

(* A login that nothing disturbs leaves the user in exactly the groups the   *)
(* rules give, whatever edits, failed logins and lost updates came before    *)
(* it, and remembers exactly the mapped ones, as long as the groups it       *)
(* managed stand.                                                           *)
LoginReconciles ==
    \A r \in GrpRequests : LoggedIn(r) /\ grpCall[r].previous \subseteq Standing
      => GroupsOf(grpCall[r].user) = Reconciled(grpCall[r]) /\ grpCall[r].record = grpCall[r].wanted

(* completeOAuthLogin: reconciliation runs on every login "so memberships    *)
(* that no longer map are removed": after an undisturbed login the user is   *)
(* in no group by a mapping that is not among today's.                      *)
StaleMembershipsRemoved ==
    \A r \in GrpRequests : LoggedIn(r) => mapped[grpCall[r].user] \subseteq grpCall[r].wanted
=============================================================================
