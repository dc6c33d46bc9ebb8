----------------------------- MODULE Attribution -----------------------------
(***************************************************************************)
(* How a trace gets its group (attribution_service.go, project_service.go). *)
(* Every batch of spans names a repository; ingestion finds or creates its  *)
(* project, takes the group the project is assigned to or else assigns one, *)
(* by project_mappings or by the groups' patterns, and writes the trace's   *)
(* row.  Batches are ingested concurrently, on any number of connections,   *)
(* while administrators create, assign and delete projects and groups.      *)
(* Every read and every command is a step of its own.                       *)
(***************************************************************************)
EXTENDS Naturals, Absent

CONSTANTS
    AttrTraces, AttrRepos, AttrCalls,
    AttrGroupIds,   \* group ids, numbers in the order of the ids
    RuleFor,        \* RuleFor[p]: the group project_mappings names for p, Nil without a rule
    MatchedBy,      \* MatchedBy[p]: the groups whose AutoAssignPattern matches p
    MaxProjects,    \* bound on projects ever created
    MaxAttrEvents   \* bound on administrators' calls and refused writes together

NoGroup == 0

ASSUME AttrAssumption ==
    /\ AttrGroupIds \subseteq Nat \ {NoGroup}
    /\ RuleFor \in [AttrRepos -> AttrGroupIds \cup {Nil}]
    /\ MatchedBy \in [AttrRepos -> SUBSET AttrGroupIds]
    /\ MaxProjects \in Nat /\ MaxAttrEvents \in Nat
    /\ Nil \notin AttrGroupIds

VARIABLES
    standing,       \* the groups there are
    project,        \* project[i]: name and group of project i, Nil for none
    nextProject,
    traceRow,       \* traceRow[t]: project_name and group_id of t's row
    attrCall,       \* attrCall[c]: the ingestion or assignment c is running
    attrEvents

attrVars == <<standing, project, nextProject, traceRow, attrCall, attrEvents>>

ProjectId == 1 .. MaxProjects
Group == AttrGroupIds \cup {NoGroup}
AttrRow == [repo: AttrRepos, group: Group]

(* A call: id is the project found, group the trace's group so far or the    *)
(* group to assign, by whom Assign is called.                               *)
AttrCallRecord ==
    [by: {"ingest", "admin"}, trace: AttrTraces \cup {Nil}, repo: AttrRepos,
     id: ProjectId \cup {0}, group: Group,
     stage: {"lookup", "create", "refetch", "resolve", "get", "require", "update", "write"}]

ASSUME NilNotAttr == Nil \notin AttrRow /\ Nil \notin AttrCallRecord

(* Names of projects are unique, and calls hold ids and groups of their      *)
(* ranges.                                                                  *)
AttrTypeOK ==
    /\ standing \subseteq AttrGroupIds
    /\ project \in [ProjectId -> AttrRow \cup {Nil}] /\ nextProject \in 1 .. MaxProjects + 1
    /\ \A i, j \in ProjectId : project[i] # Nil /\ project[j] # Nil /\ project[i].repo = project[j].repo => i = j
    /\ traceRow \in [AttrTraces -> AttrRow \cup {Nil}]
    /\ attrCall \in [AttrCalls -> AttrCallRecord \cup {Nil}]
    /\ attrEvents \in 0 .. MaxAttrEvents

AttrInit ==
    /\ standing = AttrGroupIds
    /\ project = [i \in ProjectId |-> Nil] /\ nextProject = 1
    /\ traceRow = [t \in AttrTraces |-> Nil]
    /\ attrCall = [c \in AttrCalls |-> Nil]
    /\ attrEvents = 0

-----------------------------------------------------------------------------
Named(repo) == {i \in ProjectId : project[i] # Nil /\ project[i].repo = repo}

Goes(c, call) == attrCall' = [attrCall EXCEPT ![c] = call]

AddProject(repo, group) ==
    /\ nextProject \in ProjectId
    /\ project' = [project EXCEPT ![nextProject] = [repo |-> repo, group |-> group]]
    /\ nextProject' = nextProject + 1

Event == attrEvents < MaxAttrEvents /\ attrEvents' = attrEvents + 1

(* ------------------------------------------------------- administrators -- *)

CreateProject(repo, group) ==
    /\ Event /\ Named(repo) = {} /\ group \in standing \cup {NoGroup}
    /\ AddProject(repo, group)
    /\ UNCHANGED <<standing, traceRow, attrCall>>

DeleteProject(i) ==
    /\ Event /\ project[i] # Nil
    /\ project' = [project EXCEPT ![i] = Nil]
    /\ UNCHANGED <<standing, nextProject, traceRow, attrCall>>

Unassigned(row, g) == IF row # Nil /\ row.group = g THEN [row EXCEPT !.group = NoGroup] ELSE row

(* ON DELETE SET NULL.                                                      *)
RemoveGroup(g) ==
    /\ Event /\ g \in standing
    /\ standing' = standing \ {g}
    /\ project' = [i \in ProjectId |-> Unassigned(project[i], g)]
    /\ traceRow' = [t \in AttrTraces |-> Unassigned(traceRow[t], g)]
    /\ UNCHANGED <<nextProject, attrCall>>

HandleProjectUpdate(c, i, group) ==
    /\ Event /\ attrCall[c] = Nil /\ project[i] # Nil
    /\ Goes(c, [by |-> "admin", trace |-> Nil, repo |-> project[i].repo, id |-> i, group |-> group,
                stage |-> "get"])
    /\ UNCHANGED <<standing, project, nextProject, traceRow>>

(* --------------------------------------------------------------- Ingest -- *)

(* All batches of a trace name one repository.                              *)
Ingest(c, t, repo) ==
    /\ attrCall[c] = Nil
    /\ traceRow[t] # Nil => traceRow[t].repo = repo
    /\ \A d \in AttrCalls : attrCall[d] # Nil /\ attrCall[d].trace = t => attrCall[d].repo = repo
    /\ Goes(c, [by |-> "ingest", trace |-> t, repo |-> repo, id |-> 0, group |-> NoGroup,
                stage |-> "lookup"])
    /\ UNCHANGED <<standing, project, nextProject, traceRow, attrEvents>>

(* The project as read: one that has a group decides, another is assigned.   *)
Found(call, i) ==
    [call EXCEPT !.id = i, !.group = project[i].group,
                 !.stage = IF project[i].group # NoGroup THEN "write" ELSE "resolve"]

(* GetOrCreateByName                                                        *)
GetProjectByName(c) ==
    /\ attrCall[c].stage = "lookup"
    /\ \/ \E i \in Named(attrCall[c].repo) : Goes(c, Found(attrCall[c], i))
       \/ Named(attrCall[c].repo) = {} /\ Goes(c, [attrCall[c] EXCEPT !.stage = "create"])
    /\ UNCHANGED <<standing, project, nextProject, traceRow, attrEvents>>

CreateNamed(c) ==
    /\ attrCall[c].stage = "create" /\ Named(attrCall[c].repo) = {}
    /\ AddProject(attrCall[c].repo, NoGroup)
    /\ Goes(c, [attrCall[c] EXCEPT !.id = nextProject, !.stage = "resolve"])
    /\ UNCHANGED <<standing, traceRow, attrEvents>>

(* A conflict, or any other error, is answered by looking the name up again. *)
CreateCollides(c) ==
    /\ attrCall[c].stage = "create"
    /\ \/ Named(attrCall[c].repo) # {} /\ UNCHANGED attrEvents
       \/ Event        \* ErrNotLeader
    /\ Goes(c, [attrCall[c] EXCEPT !.stage = "refetch"])
    /\ UNCHANGED <<standing, project, nextProject, traceRow>>

\* Mutation: the collision is an error.
GetAgainNever(c) ==
    /\ attrCall[c].stage = "refetch"
    /\ Goes(c, [attrCall[c] EXCEPT !.stage = "write"])
    /\ UNCHANGED <<standing, project, nextProject, traceRow, attrEvents>>

(* The winner's project, or no project and no group.                        *)
GetAgain(c) ==
    /\ attrCall[c].stage = "refetch"
    /\ \/ \E i \in Named(attrCall[c].repo) : Goes(c, Found(attrCall[c], i))
       \/ Named(attrCall[c].repo) = {} /\ Goes(c, [attrCall[c] EXCEPT !.stage = "write"])
    /\ UNCHANGED <<standing, project, nextProject, traceRow, attrEvents>>

(* mappingAssign when a rule matches, and then never autoAssign, even when   *)
(* the rule's group is missing; autoAssign: the first group by id.          *)
Resolved(repo) ==
    LET candidates == IF RuleFor[repo] # Nil THEN {RuleFor[repo]} ELSE MatchedBy[repo]
    IN {g \in candidates \cap standing : \A h \in candidates \cap standing : g <= h}

ResolveGroup(c) ==
    /\ attrCall[c].stage = "resolve"
    /\ \/ \E g \in Resolved(attrCall[c].repo) : Goes(c, [attrCall[c] EXCEPT !.group = g, !.stage = "get"])
       \/ Resolved(attrCall[c].repo) = {} /\ Goes(c, [attrCall[c] EXCEPT !.stage = "write"])
    /\ UNCHANGED <<standing, project, nextProject, traceRow, attrEvents>>

(* --------------------------------------------------------------- Assign -- *)

(* After Assign, whether it succeeded or not: the administrator has the      *)
(* answer, the trace is attributed all the same.                            *)
Assigned(call) == IF call.by = "admin" THEN Nil ELSE [call EXCEPT !.stage = "write"]

(* projects.Get                                                             *)
AssignGet(c) ==
    /\ attrCall[c].stage = "get"
    /\ Goes(c, IF project[attrCall[c].id] # Nil THEN [attrCall[c] EXCEPT !.stage = "require"]
               ELSE Assigned(attrCall[c]))
    /\ UNCHANGED <<standing, project, nextProject, traceRow, attrEvents>>

RequireGroup(c) ==
    /\ attrCall[c].stage = "require"
    /\ Goes(c, IF attrCall[c].group \in standing \cup {NoGroup}
               THEN [attrCall[c] EXCEPT !.stage = "update"] ELSE Assigned(attrCall[c]))
    /\ UNCHANGED <<standing, project, nextProject, traceRow, attrEvents>>

(* projects.Update writes the group without another look at it.             *)
AssignUpdate(c) ==
    /\ attrCall[c].stage = "update"
    /\ \/ /\ project[attrCall[c].id] # Nil /\ UNCHANGED attrEvents
          /\ project' = [project EXCEPT ![attrCall[c].id].group = attrCall[c].group]
       \/ project[attrCall[c].id] = Nil /\ UNCHANGED <<project, attrEvents>>
       \/ Event /\ UNCHANGED project
    /\ Goes(c, Assigned(attrCall[c]))
    /\ UNCHANGED <<standing, nextProject, traceRow>>

(* UpsertIngest: the first group a row gets stays.                          *)
UpsertIngest(c) ==
    /\ attrCall[c].stage = "write"
    /\ \/ /\ UNCHANGED attrEvents
          /\ traceRow' = [traceRow EXCEPT ![attrCall[c].trace] =
                [repo |-> attrCall[c].repo,
                 group |-> IF @ # Nil /\ @.group # NoGroup THEN @.group ELSE attrCall[c].group]]
       \/ Event /\ UNCHANGED traceRow
    /\ Goes(c, Nil)
    /\ UNCHANGED <<standing, project, nextProject>>

-----------------------------------------------------------------------------
AttrStep(c) ==
    /\ attrCall[c] # Nil
    /\ \/ GetProjectByName(c) \/ CreateNamed(c) \/ CreateCollides(c) \/ GetAgain(c)
       \/ ResolveGroup(c) \/ AssignGet(c) \/ RequireGroup(c) \/ AssignUpdate(c) \/ UpsertIngest(c)

AttrNext ==
    \/ \E repo \in AttrRepos : \E g \in Group : CreateProject(repo, g)
    \/ \E i \in ProjectId : DeleteProject(i)
    \/ \E g \in AttrGroupIds : RemoveGroup(g)
    \/ \E c \in AttrCalls :
          \/ AttrStep(c)
          \/ \E t \in AttrTraces, repo \in AttrRepos : Ingest(c, t, repo)
          \/ \E i \in ProjectId, g \in Group : HandleProjectUpdate(c, i, g)

AttrSpec == AttrInit /\ [][AttrNext]_attrVars

-----------------------------------------------------------------------------
(* Properties.                                                              *)

(* While nobody edits projects or groups and no write is refused, every row   *)
(* of a repository has the group its rule names, or else the first one whose *)
(* pattern matches, and so has the repository's project if it has one:       *)
(* however many batches of however many traces look for the project, create  *)
(* it, collide, and assign it at the same time (GetOrCreateByName: "Race-    *)
(* safe").                                                                  *)
Attributed(row) ==
    LET groups == Resolved(row.repo) IN IF groups = {} THEN row.group = NoGroup ELSE row.group \in groups

AttrAgrees ==
    attrEvents = 0 =>
        /\ \A t \in AttrTraces : traceRow[t] # Nil => Attributed(traceRow[t])
        /\ \A i \in ProjectId : project[i] # Nil => project[i].group = NoGroup \/ Attributed(project[i])
=============================================================================
