------------------------------ MODULE MCScreens ------------------------------
(***************************************************************************)
(* Instances of what administrators configure for the lead screens: small  *)
(* forms, settings and categories, each part explored on its own.          *)
(***************************************************************************)
EXTENDS Screens, TLC

\* Custom fields, or more than one form and members who use one, not both.
CustomFields == \/ \E k \in Fields : field[k] # None
                \/ \E r \in Requests :
                     F!At(r, "updateField") \/ F!At(r, "removeField") \/ F!At(r, "retire") \/ F!At(r, "fill")
SeveralForms == \/ Cardinality({f \in Forms : form[f] # None}) > 1
                \/ \E u \in Members : uses[u].form # None

\* Settings of one screen at a time: each has a row of its own.
Touched(k) == \/ stored[k] # None
              \/ \E r \in Requests : setRequest[r] # None /\ setRequest[r].key = k
              \/ k = "types" /\ used # {}
OneScreen == Cardinality({k \in S!Keys : Touched(k)}) <= 1

\* A tree that is sound still, of places up to 1.
SoundTree == Sound(Graph) /\ \A n \in Existing : category[n].position <= 1

Bounds ==
  CASE part = "forms" -> ~(CustomFields /\ SeveralForms)
    [] part = "settings" -> OneScreen
    [] part = "categories" -> SoundTree

Symmetry == Permutations(Requests) \cup Permutations(Forms) \cup Permutations(Categories)
==============================================================================
