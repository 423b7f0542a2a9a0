------------------------------ MODULE MCMembers ------------------------------
(***************************************************************************)
(* An instance of the permissions for TLC: two requests over two users,    *)
(* three labels of two teams, a tag, three roles and a member.             *)
(***************************************************************************)
EXTENDS Permissions, TLC

CONSTANTS north, North, south     \* labels of two teams, one in two spellings

\* Two spellings of one team, and another team.
FoldDef == [t \in Teams |-> IF t \in {north, North} THEN north ELSE t]

-----------------------------------------------------------------------------
(* Bounds. *)

Saves == {r \in Requests : T!At(r, "policy")}

\* Tags are created, or a user has a policy of his own.
Tagging == \/ \E t \in Tags : tag[t] # "none"
           \/ \E u \in Users : policy[u] # None
           \/ \E r \in Requests : T!At(r, "createTag") \/ T!At(r, "grant")
           \/ \E r \in Saves : teamChange[r].of \in Users

UsersOf(r) == IF T!At(r, "move") THEN teamChange[r].users
              ELSE IF T!At(r, "createTag") \/ T!At(r, "grant") THEN {teamChange[r].user} ELSE {}
Touched == {u \in Users : u \in gone \/ team[u] # None \/ policy[u] # None}
           \cup UNION {UsersOf(r) : r \in Requests}
           \cup ({teamChange[r].of : r \in Saves} \cap Users)

LabelsOf(r) == IF T!At(r, "move") \/ T!At(r, "rename") THEN {teamChange[r].label}
               ELSE IF T!At(r, "policy") THEN {teamChange[r].of} \cap Teams ELSE {}
Labelled == {team[u] : u \in Users} \cup {k \in Teams : policy[k] # None}
            \cup UNION {LabelsOf(r) : r \in Requests}

\* One team has a policy, one policy is being saved, and one user is removed or one team
\* renamed at a time; tags are used by one user, of one team.
FewPolicies ==
  /\ Cardinality({k \in Teams : policy[k] # None}) <= 1
  /\ Cardinality(Saves) <= 1
  /\ Cardinality(gone) + Cardinality({r \in Requests : T!At(r, "rename")}) <= 1
  /\ Tagging => gone = {} /\ Labelled \subseteq {north, None} /\ Cardinality(Touched) <= 1

\* A tree that is sound still, of places up to 2, that one request changes at a time.
SoundTree ==
  /\ Sound(Graph) /\ \A n \in Live : role[n].position <= 2
  /\ Cardinality({r \in Requests : Writes(r)}) <= 1

Bounds == IF part = "teams" THEN FewPolicies ELSE SoundTree

Symmetry == Permutations(Requests) \cup Permutations(Users) \cup Permutations(Roles)
==============================================================================
