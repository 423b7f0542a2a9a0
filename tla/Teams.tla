-------------------------------- MODULE Teams ---------------------------------
(***************************************************************************)
(* Teams and what their members may do with tags.  A team is no row but    *)
(* the label its members carry, and a policy names its team by that label, *)
(* so a rename must carry both.  Writes of labels take one advisory lock;  *)
(* writes of policies lock the policy's row, when there is one.            *)
(***************************************************************************)
EXTENDS Naturals, FiniteSets

CONSTANTS None, Users, Teams, Tags, Requests,
          Sellers,      \* the users of a role that may join a team
          Overridable,  \* the users a policy of their own may be saved for
          Fold          \* a label without its case

LabelsFold == Fold \in [Teams -> Teams]

VARIABLES team,    \* users.team
          gone,    \* the users removed
          policy,  \* tag_access_policies with their grants, by the team or user they are of
          tag,     \* the tags rows
          change   \* the requests past their first reads

vars == <<team, gone, policy, tag, change>>

\* A policy leaves open, with None, what its holder inherits.
Policy == [create: BOOLEAN \cup {None}, access: {"ALL", "LISTED", None}, tags: SUBSET Tags]

\* What a request asks, once it is past its first reads, and what it has read.  fresh: nothing
\* that decides about access was written since (history).
MoveCall == [step: {"move"}, users: SUBSET Users, label: Teams \cup {None}, fresh: BOOLEAN]
RenameCall == [step: {"rename"}, from: Teams, label: Teams, carries: BOOLEAN, fresh: BOOLEAN]
PolicyCall == [step: {"policy"}, of: Teams \cup Users, policy: Policy, fresh: BOOLEAN]
TagCall == [step: {"createTag", "grant", "failing"}, user: Users,
            policy: Teams \cup Users \cup {None}, fresh: BOOLEAN]

Call == MoveCall \cup RenameCall \cup PolicyCall \cup TagCall

NoneIsNothing ==
  /\ None \notin Teams \cup Users \cup Policy \cup Call
  /\ None \notin BOOLEAN /\ None \notin {"ALL", "LISTED"}
TeamsAreNoUsers == Teams \cap Users = {}

\* The columns hold what they can hold; a team's policy leaves nothing open.
TypeOK ==
  /\ team \in [Users -> Teams \cup {None}] /\ gone \in SUBSET Users
  /\ policy \in [Teams \cup Users -> Policy \cup {None}]
  /\ \A t \in Teams : policy[t] # None => None \notin {policy[t].create, policy[t].access}
  /\ tag \in [Tags -> {"none", "live", "retired"}]

Init ==
  /\ team = [u \in Users |-> None] /\ gone = {}
  /\ policy = [k \in Teams \cup Users |-> None]
  /\ tag = [t \in Tags |-> "none"]
  /\ change = [r \in Requests |-> None]

-----------------------------------------------------------------------------
Live == Users \ gone
LiveTags == {t \in Tags : tag[t] = "live"}
Labels == {team[u] : u \in Live} \ {None}

\* findTeamLabel: the spellings live users carry of the label.
Spellings(t) == {l \in Labels : Fold[l] = Fold[t]}

\* The policy that decides which tags u may use: his own if it says so, or his team's.
Governing(u) ==
  IF policy[u] # None /\ policy[u].access # None THEN u
  ELSE IF team[u] # None /\ policy[team[u]] # None THEN team[u] ELSE None

\* resolveTagAccess.
MayCreate(u) ==
  IF policy[u] # None /\ policy[u].create # None THEN policy[u].create
  ELSE team[u] # None /\ policy[team[u]] # None /\ policy[team[u]].create

Allowed(u) ==
  IF Governing(u) # None /\ policy[Governing(u)].access = "LISTED"
  THEN policy[Governing(u)].tags ELSE Tags

Access(u) == <<MayCreate(u), Allowed(u)>>

At(r, step) == change[r] # None /\ change[r].step = step
Done(r) == change' = [change EXCEPT ![r] = None]

\* r is done, and what decides about access is no longer what others have read.
Wrote(r) ==
  change' = [q \in Requests |-> IF q = r \/ change[q] = None THEN None
                                ELSE [change[q] EXCEPT !.fresh = FALSE]]

-----------------------------------------------------------------------------
(* Labels: every write holds the lock from its reads to its commit. *)

Relabels == {"move", "rename"}

\* Mutant: no lock.
NoLock(r) == TRUE

LockTeams(r) == \A q \in Requests \ {r} : change[q] # None => change[q].step \notin Relabels

Moves(us, l) == [step |-> "move", users |-> us, label |-> l, fresh |-> TRUE]

CheckCreateTeam(r, t, us) ==
  /\ change[r] = None /\ LockTeams(r)
  /\ Spellings(t) = {}
  /\ us # {} /\ us \subseteq Live \cap Sellers
  /\ change' = [change EXCEPT ![r] = Moves(us, t)]
  /\ UNCHANGED <<team, gone, policy, tag>>

\* Into a team there is, in the spelling it has, or out of any.
CheckAssign(r, t, us) ==
  /\ change[r] = None /\ LockTeams(r)
  /\ us # {} /\ us \subseteq Live
  /\ IF t = None THEN change' = [change EXCEPT ![r] = Moves(us, None)]
     ELSE /\ us \subseteq Sellers
          /\ \E l \in Spellings(t) : change' = [change EXCEPT ![r] = Moves(us, l)]
  /\ UNCHANGED <<team, gone, policy, tag>>

\* Mutant: a member is saved with the label as it was typed.
AsTyped(t) == {t}

\* teamFor: the spelling there is, or a new team.
TeamFor(t) == IF Spellings(t) = {} THEN {t} ELSE Spellings(t)

CheckEditMember(r, u, t) ==
  /\ change[r] = None /\ LockTeams(r)
  /\ u \in Live
  /\ \E l \in TeamFor(t) : /\ l # team[u] => u \in Sellers
                           /\ change' = [change EXCEPT ![r] = Moves({u}, l)]
  /\ UNCHANGED <<team, gone, policy, tag>>

Move(r) ==
  /\ At(r, "move")
  /\ team' = [u \in Users |-> IF u \in change[r].users THEN change[r].label ELSE team[u]]
  /\ Wrote(r)
  /\ UNCHANGED <<gone, policy, tag>>

\* Another spelling of the new name is another team, the current label itself is not.
CheckRename(r, t, new) ==
  /\ change[r] = None /\ LockTeams(r)
  /\ \E l \in Spellings(t) :
       /\ new # l
       /\ Spellings(new) \subseteq {l}
       /\ policy[new] = None
       /\ change' = [change EXCEPT ![r] = [step |-> "rename", from |-> l, label |-> new,
                                           carries |-> policy[l] # None, fresh |-> TRUE]]
  /\ UNCHANGED <<team, gone, policy, tag>>

\* The rename holds the row of the policy it carries.
Held(k) == \E r \in Requests : At(r, "rename") /\ change[r].carries /\ change[r].from = k

\* Mutant: the policy stays under the old name.
StaysBehind(from, new) == policy

Carried(from, new) == [policy EXCEPT ![new] = policy[from], ![from] = None]

\* Removed members are renamed too.  A policy saved for the new name meanwhile fails it.
Rename(r) ==
  LET c == change[r]
  IN /\ At(r, "rename")
     /\ team' = [u \in Users |-> IF team[u] = c.from THEN c.label ELSE team[u]]
     /\ IF c.carries THEN policy[c.label] = None /\ policy' = Carried(c.from, c.label)
        ELSE UNCHANGED policy
     /\ change' = [q \in Requests |->
                     IF q = r \/ change[q] = None THEN None
                     ELSE IF At(q, "grant") /\ change[q].policy = c.from /\ c.carries
                     THEN [change[q] EXCEPT !.fresh = FALSE, !.policy = c.label]
                     ELSE [change[q] EXCEPT !.fresh = FALSE]]
     /\ UNCHANGED <<gone, tag>>

\* A member is taken out of his team by an edit, or removed; neither takes the lock.
LeaveTeam(u) ==
  /\ u \in Live
  /\ team' = [team EXCEPT ![u] = None]
  /\ change' = [q \in Requests |-> IF change[q] = None THEN None
                                   ELSE [change[q] EXCEPT !.fresh = FALSE]]
  /\ UNCHANGED <<gone, policy, tag>>

RemoveUser(u) ==
  /\ u \in Live
  /\ gone' = gone \cup {u}
  /\ UNCHANGED <<team, policy, tag, change>>

-----------------------------------------------------------------------------
(* Policies and tags. *)

\* Mutant: a team's policy may leave open what a user's may.
MayBePartial(k, p) == ~(p.create = None /\ p.access = None)

\* A team's policy says everything, a user's something.
SaysEnough(k, p) ==
  IF k \in Teams THEN None \notin {p.create, p.access} ELSE ~(p.create = None /\ p.access = None)

\* The tags are checked before the transaction, and only of a list.
CheckPolicy(r, k, p) ==
  /\ change[r] = None
  /\ k \in Users => k \in Overridable \cap Live
  /\ SaysEnough(k, p)
  /\ p.tags \subseteq (IF p.access = "LISTED" THEN LiveTags ELSE {})
  /\ change' = [change EXCEPT ![r] = [step |-> "policy", of |-> k, policy |-> p, fresh |-> TRUE]]
  /\ UNCHANGED <<team, gone, policy, tag>>

SavePolicy(r) ==
  LET k == change[r].of
  IN /\ At(r, "policy")
     /\ ~Held(k)
     /\ policy' = [policy EXCEPT ![k] = change[r].policy]
     /\ Wrote(r)
     /\ UNCHANGED <<team, gone, tag>>

\* The grants go with the policy; a grant that is still to be made fails.
ResetPolicy(k) ==
  /\ policy[k] # None /\ ~Held(k)
  /\ policy' = [policy EXCEPT ![k] = None]
  /\ change' = [q \in Requests |->
                  IF change[q] = None THEN None
                  ELSE IF At(q, "grant") /\ change[q].policy = k
                  THEN [change[q] EXCEPT !.step = "failing"]
                  ELSE [change[q] EXCEPT !.fresh = FALSE]]
  /\ UNCHANGED <<team, gone, tag>>

CheckCreateTag(r, u) ==
  /\ change[r] = None
  /\ u \in Live /\ MayCreate(u)
  /\ change' = [change EXCEPT ![r] = [step |-> "createTag", user |-> u, policy |-> None,
                                      fresh |-> TRUE]]
  /\ UNCHANGED <<team, gone, policy, tag>>

\* Mutant: a policy of his own is what governs, whatever it says of tags.
OwnGoverns(u) == IF policy[u] # None THEN u
                 ELSE IF team[u] # None /\ policy[team[u]] # None THEN team[u] ELSE None

GrantedTo(u) == Governing(u)

\* grantToCreator: the list that governs its creator is to get the tag.
LoadPolicy(r) ==
  LET g == GrantedTo(change[r].user)
  IN /\ At(r, "createTag")
     /\ change' = [change EXCEPT ![r].step = "grant",
                                 ![r].fresh = TRUE,
                                 ![r].policy = IF g # None /\ policy[g].access = "LISTED"
                                               THEN g ELSE None]
     /\ UNCHANGED <<team, gone, policy, tag>>

CreateTag(r, t) ==
  LET k == change[r].policy
  IN /\ At(r, "grant") /\ tag[t] = "none"
     /\ tag' = [tag EXCEPT ![t] = "live"]
     /\ IF k = None THEN UNCHANGED policy /\ Done(r)
        ELSE /\ ~Held(k)
             /\ policy' = [policy EXCEPT ![k].tags = @ \cup {t}]
             /\ Wrote(r)
     /\ UNCHANGED <<team, gone>>

\* An administrator's tag is granted to nobody.
AdminTag(t) ==
  /\ tag[t] = "none"
  /\ tag' = [tag EXCEPT ![t] = "live"]
  /\ UNCHANGED <<team, gone, policy, change>>

\* Soft: the grants stay.
RetireTag(t) ==
  /\ tag[t] = "live"
  /\ tag' = [tag EXCEPT ![t] = "retired"]
  /\ UNCHANGED <<team, gone, policy, change>>

Fail(r) == change[r] # None /\ Done(r) /\ UNCHANGED <<team, gone, policy, tag>>

Next ==
  \/ \E r \in Requests :
       \/ \E t \in Teams, us \in SUBSET Users : CheckCreateTeam(r, t, us)
       \/ \E t \in Teams \cup {None}, us \in SUBSET Users : CheckAssign(r, t, us)
       \/ \E t \in Teams : \/ \E u \in Users : CheckEditMember(r, u, t)
                           \/ \E new \in Teams : CheckRename(r, t, new)
       \/ \E k \in Teams \cup Users, p \in Policy : CheckPolicy(r, k, p)
       \/ \E u \in Users : CheckCreateTag(r, u)
       \/ \E t \in Tags : CreateTag(r, t)
       \/ Move(r) \/ Rename(r) \/ SavePolicy(r) \/ LoadPolicy(r) \/ Fail(r)
  \/ \E u \in Users : LeaveTeam(u) \/ RemoveUser(u)
  \/ \E k \in Teams \cup Users : ResetPolicy(k)
  \/ \E t \in Tags : AdminTag(t) \/ RetireTag(t)

Spec == Init /\ [][Next]_vars

-----------------------------------------------------------------------------
(* What teams and permissions must keep. *)

\* No team is two teams by the case of a letter, whoever creates, renames, joins or edits.
OneSpelling ==
  \A u, v \in Live :
    team[u] # None /\ team[v] # None /\ Fold[team[u]] = Fold[team[v]] => team[u] = team[v]

\* No policy was saved, while r renamed a team that had none, under its old name or its new one.
NoFirstPolicy(r) ==
  change[r].carries \/ (policy[change[r].from] = None /\ policy[change[r].label] = None)

\* A rename changes nobody's access, whatever policies, labels and tags are written while it
\* runs: the policy goes with the name, and two teams are never made one.  Only a team's first
\* policy, saved meanwhile, is found by no rename.
RenameKeepsAccess ==
  [][\A r \in Requests :
       At(r, "rename") /\ change'[r] = None /\ NoFirstPolicy(r)
       => \A u \in Live : Access(u)' = Access(u)]_vars

\* The list that a tag is granted on for u to use it; None: he may use any.
ListFor(u) ==
  IF Governing(u) # None /\ policy[Governing(u)].access = "LISTED" THEN Governing(u) ELSE None

\* Whoever creates a tag may use it, unless another list governs him by then: the one that was
\* looked up may be saved again or follow its team to another name before it gets the tag.
CreatorMayUse ==
  [][\A r \in Requests, t \in Tags, u \in Users :
       /\ At(r, "grant") /\ change'[r] = None /\ change[r].user = u
       /\ change[r].fresh \/ change[r].policy = ListFor(u)
       /\ tag[t] = "none" /\ tag'[t] = "live"
       => t \in Allowed(u)']_vars

\* Only a policy that lists its tags has grants.
GrantsAreListed ==
  \A k \in Teams \cup Users : policy[k] # None /\ policy[k].tags # {} => policy[k].access = "LISTED"
==============================================================================
