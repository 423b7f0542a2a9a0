------------------------------ MODULE MCSessions ------------------------------
(* Instances of Sessions for TLC. *)
EXTENDS Sessions, TLC

\* Two rows are opened in all: two sessions, two links, or one of each.
RowsBound == Cardinality(Issued) + Cardinality({l \in ResetLinks : link[l] # None}) <= 2

\* No definition tells requests, tokens, links or passwords apart.
Symmetry == Permutations(Requests) \cup Permutations(Tokens) \cup Permutations(ResetLinks)
            \cup Permutations(Passwords)
==============================================================================
