------------------------------- MODULE MCWork --------------------------------
(***************************************************************************)
(* Instances of Work for TLC: two requests on one lead with one follow-up, *)
(* on two documents and two profile pictures, on an assignment rule and    *)
(* the new leads of two users, and two imports of small files.             *)
(***************************************************************************)
EXTENDS Work, TLC

\* Two agents, and a manager of the first one's team.
MCSees == [a1 |-> {"a1"}, a2 |-> {"a2"}, m |-> {"m", "a1"}]

Line(verdict, keys) == [verdict |-> verdict, keys |-> keys]

\* A file of two batches with a row that repeats the one before, and one with a refused row.
MCFiles ==
  {<<Line("plain", {"c1"}), Line("plain", {"c1", "c2"}), Line("converts", {"c2"}),
     Line("plain", {"c2"})>>,
   <<Line("refused", {"c2"}), Line("plain", {"c2"})>>}

MCEnquiries == {{"c1"}}
MCByName == <<"u1", "u2">>

-----------------------------------------------------------------------------
(* Bounds. *)

\* What the round robin meets one of at a time: somebody inactive, a first login, a setting or a
\* rule that is not as shipped.  The more of it there is, the fewer assignments are made.
Kind(step) == IF step \in {"save", "remove"} THEN "rule"
              ELSE IF step = "assign" THEN "assign" ELSE "create"
Kinds == {Kind(assigning[r].step) : r \in {q \in Writers : assigning[q].step # "idle"}}
RuleChanged == rule["x1"] # R!Rule("ACTIVE")
Unusual == Cardinality({"u1", "u2"} \ active) + Cardinality(loggedIn)
             + Cardinality({f \in DOMAIN config : config[f] # (f = "automatic")})
             + (IF RuleChanged THEN 1 ELSE 0)
Taken == created \cup ({assigning[r].lead : r \in Writers} \ {None})
RotationBounds ==
  /\ Unusual <= 1
  /\ Len(rows) <= (IF "rule" \in Kinds \/ ~config.automatic \/ RuleChanged THEN 1
                   ELSE IF Kinds \subseteq {"create"} /\ Unusual = 0
                     THEN IF \A i \in DOMAIN rows : rows[i].auto THEN 4 ELSE 3
                   ELSE 2)
  /\ Taken \ Requests # {} => Len(rows) = 4
  /\ "rule" \in Kinds => Unusual = 0 \/ RuleChanged
  /\ Len(rows) >= 2 => Cardinality(Kinds) <= 1

\* One import, and three leads, are enough to meet one that was edited, archived or deleted.
Begun == {j \in Jobs : job[j] # None}
ImportBounds ==
  (\E i \in I!Ids : I!Changed(i)) => Cardinality(Begun) <= 1 /\ Len(leads) <= 3

Bounds ==
  /\ part = "rotation" => RotationBounds
  /\ part = "imports" => ImportBounds

\* The model values that are the requests of payment records are the new leads here: no behaviour
\* has both, and one symmetry serves the two.
Symmetry == Permutations(Requests) \cup Permutations(Writers) \cup Permutations(Jobs)
==============================================================================
