----------------------------- MODULE MCMetaFSM -----------------------------
(* An instance of MetaFSM for TLC.  Names differ in case only where the      *)
(* case-insensitive uniqueness of the indices should be exercised.          *)
EXTENDS MetaFSM, TLC

MCLower(n) == IF n = "Ann" THEN "ann" ELSE n

(* Ids of one kind are interchangeable: no action orders or names them.     *)
IdSymmetry == Permutations(UserIds) \cup Permutations(GroupIds)
                \cup Permutations(TokenIds) \cup Permutations(TraceIds)
                \cup Permutations(ProjectIds) \cup Permutations(Hashes)

(* Tokens and OAuth identities meet projects, traces and the meta table in   *)
(* no command but the deletion of a user, whose cascades are independent:    *)
(* the rows of one side at a time, with users, groups and memberships.      *)
AccountsOnly ==
    /\ \A p \in ProjectIds : projects[p] = Nil
    /\ \A t \in TraceIds : traces[t] = Nil
    /\ \A k \in MetaKeys : meta[k] = Nil

TracesOnly ==
    /\ \A t \in TokenIds : tokens[t] = Nil
    /\ \A u \in UserIds : users[u] # Nil => users[u].oauth = Nil /\ users[u].name # "Ann"
    /\ \A g \in GroupIds : groups[g] # Nil => groups[g].name # "Ann"
    /\ \A p \in ProjectIds : projects[p] # Nil => projects[p].name # "Ann"
    /\ \A k \in MetaKeys : meta[k] # Nil => \A u \in UserIds : users[u] = Nil

OneSide == AccountsOnly \/ TracesOnly
=============================================================================
