----------------------------- MODULE ImageCache -----------------------------
(***************************************************************************)
(* The admin prune of a local image mirror (service/image_cache.go) through*)
(* the registry client (repository/registry_client.go).  A request lists   *)
(* what to prune, then a pool of workers resolves each reference to a      *)
(* digest and deletes that manifest, while engines keep pulling through    *)
(* the mirror.  One mirror with one repository: mirrors and repositories   *)
(* are walked one after the other and share nothing.                       *)
(*                                                                         *)
(* The mirror is external: a tag points to a digest, deleting a digest     *)
(* removes every tag that points to it, deleting one that is not there is  *)
(* answered 404.  Listing changes nothing and is left out.                 *)
(***************************************************************************)
EXTENDS Absent, Naturals, FiniteSets

CONSTANTS
    Tags, Digests,
    Workers,        \* imageCachePruneConcurrency
    MaxPulls        \* bound on images pulled during a prune

ASSUME ImageAssumption == Workers \in Nat \ {0} /\ MaxPulls \in Nat /\ Tags \cap Digests = {}

VARIABLES
    tagged,     \* tagged[t]: the digest tag t points to, Nil if the mirror has no t
    deletes,    \* the mirror allows deletes
    refs,       \* refs[x]: the outcome slot of reference x (a tag or a digest)
    pruning,    \* a request is in progress, and whether its context still runs
    repulled,   \* tags pulled since the request started
    pulls

imgVars == <<tagged, deletes, refs, pruning, repulled, pulls>>

Refs == Tags \cup Digests
NoRef == [at |-> "none", digest |-> Nil]
Slot == [at: {"none", "todo", "delete", "pruned", "error", "notfound"}, digest: Digests \cup {Nil}]

ImgTypeOK ==
    /\ tagged \in [Tags -> Digests \cup {Nil}] /\ deletes \in BOOLEAN
    /\ refs \in [Refs -> Slot] /\ pruning \in {"no", "yes", "expired"}
    /\ repulled \subseteq Tags /\ pulls \in 0 .. MaxPulls
    /\ Cardinality({x \in Refs : refs[x].at = "delete"}) <= Workers

ImgInit ==
    /\ tagged \in [Tags -> Digests \cup {Nil}] /\ deletes \in BOOLEAN
    /\ refs = [x \in Refs |-> NoRef] /\ pruning = "no"
    /\ repulled = {} /\ pulls = 0

Present == {t \in Tags : tagged[t] # Nil}

(* An engine pulls t through the mirror, which stores what upstream has.    *)
PullThrough(t, d) ==
    /\ pulls < MaxPulls /\ tagged[t] # d
    /\ tagged' = [tagged EXCEPT ![t] = d]
    /\ repulled' = repulled \cup {t} /\ pulls' = pulls + 1
    /\ UNCHANGED <<deletes, refs, pruning>>

-----------------------------------------------------------------------------
StartPrune(S) ==
    /\ pruning = "no" /\ S # {}
    /\ pruning' = "yes" /\ repulled' = {} /\ pulls' = 0
    /\ refs' = [x \in Refs |-> IF x \in S THEN [at |-> "todo", digest |-> Nil] ELSE NoRef]
    /\ UNCHANGED <<tagged, deletes>>

(* Prune: the references of the request, tags or digests.  An unknown       *)
(* mirror, an empty or malformed list and an unreachable mirror are refused *)
(* before anything is done.                                                 *)
PruneRefs == \E S \in SUBSET Refs : StartPrune(S)

(* PruneAll: ping, catalog and tags; what fails is reported and left alone. *)
PruneAllMirror == StartPrune(Present)

Busy == {x \in Refs : refs[x].at = "delete"}

Settle(x, outcome) == refs' = [refs EXCEPT ![x].at = outcome]

(* A worker takes a reference and resolves it.  A tag that is gone counts   *)
(* as pruned; any other failure is the item's error.                        *)
ResolveRef(x) ==
    /\ refs[x].at = "todo" /\ Cardinality(Busy) < Workers
    /\ \/ /\ x \in Digests /\ pruning # "no"
          /\ refs' = [refs EXCEPT ![x] = [at |-> "delete", digest |-> x]]
       \/ /\ x \in Tags /\ pruning = "yes" /\ tagged[x] # Nil
          /\ refs' = [refs EXCEPT ![x] = [at |-> "delete", digest |-> tagged[x]]]
       \/ x \in Tags /\ pruning = "yes" /\ tagged[x] = Nil /\ Settle(x, "pruned")
       \/ x \in Tags /\ Settle(x, "error")
    /\ UNCHANGED <<tagged, deletes, pruning, repulled, pulls>>

(* Mutant of DeleteOutcomes: every answer of the mirror is taken for done.  *)
DeleteOutcomesLax(x) == {"pruned"}

(* What pruneRef makes of DeleteManifest's answer when nothing is deleted:  *)
(* deletes that are disabled and failed calls are errors.  So is 404:       *)
(* DeleteManifest maps it to ErrRegistryUnreachable, never to the           *)
(* ErrManifestNotFound that pruneRef looks for.                             *)
DeleteOutcomes(x) ==
    {"error"} \cup IF pruning = "yes" /\ deletes /\ \A t \in Tags : tagged[t] # refs[x].digest
                   THEN {"notfound"} ELSE {}

DeleteManifest(x) ==
    /\ refs[x].at = "delete"
    /\ \/ /\ pruning = "yes" /\ deletes /\ \E t \in Tags : tagged[t] = refs[x].digest
          /\ tagged' = [t \in Tags |-> IF tagged[t] = refs[x].digest THEN Nil ELSE tagged[t]]
          /\ Settle(x, "pruned")
       \/ \E outcome \in DeleteOutcomes(x) : Settle(x, outcome) /\ UNCHANGED tagged
    /\ UNCHANGED <<deletes, pruning, repulled, pulls>>

(* The 30 s or 10 min budget ends: the calls left fail, each for its own    *)
(* reference, and the pool drains.                                          *)
BudgetEnds ==
    /\ pruning = "yes" /\ pruning' = "expired"
    /\ UNCHANGED <<tagged, deletes, refs, repulled, pulls>>

(* wg.Wait returns and the outcomes are reported in the order asked for.    *)
ReportPrune ==
    /\ pruning # "no" /\ \A x \in Refs : refs[x].at \notin {"todo", "delete"}
    /\ pruning' = "no" /\ refs' = [x \in Refs |-> NoRef]
    /\ repulled' = {} /\ pulls' = 0
    /\ UNCHANGED <<tagged, deletes>>

PruneStep == ReportPrune \/ \E x \in Refs : ResolveRef(x) \/ DeleteManifest(x)

ImgNext ==
    \/ PruneRefs \/ PruneAllMirror \/ PruneStep \/ BudgetEnds
    \/ \E t \in Tags, d \in Digests : PullThrough(t, d)

(* The workers run; every call to the mirror ends by the client's timeout.  *)
ImgSpec == ImgInit /\ [][ImgNext]_imgVars /\ WF_imgVars(PruneStep)

-----------------------------------------------------------------------------
(* What a prune reports as pruned is gone from the mirror, although workers *)
(* delete digests that tags share and engines pull meanwhile: such a tag    *)
(* points to something again only if it was pulled since.                   *)
ImgReportTrue ==
    \A t \in Tags : refs[t].at = "pruned" /\ t \notin repulled => tagged[t] = Nil

(* Every prune is answered: no reference and no worker is left behind.      *)
ImgEnds == []<>(pruning = "no")
=============================================================================
