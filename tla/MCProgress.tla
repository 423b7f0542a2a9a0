----------------------------- MODULE MCProgress ------------------------------
(***************************************************************************)
(* What must come to an end: the requests on orders, which wait for each   *)
(* other's rows (Logistics), and the imports, which run behind the request *)
(* that started them (Imports).  They share no row that either waits for,  *)
(* so a behaviour is of one of the two.                                    *)
(***************************************************************************)
EXTENDS MCLogistics

CONSTANTS c1, c2, j1, j2, f1  \* contacts, import jobs and a New Lead form

Row(verdict, keys) == [verdict |-> verdict, keys |-> keys]

\* A file of two batches, and one with a row that is refused.
MCFiles ==
  {<<Row("plain", {c1}), Row("plain", {c1, c2}), Row("converts", {c2}), Row("plain", {c2})>>,
   <<Row("refused", {c2}), Row("plain", {c2})>>}

VARIABLES part, leads, job, run, form, disturbed

importVars == <<leads, job, run, form, disturbed>>

I == INSTANCE Imports WITH Contacts <- {c1, c2}, Files <- MCFiles, Jobs <- {j1, j2},
                           Forms <- {f1}, Enquiries <- {{c1}}, BatchSize <- 2,
                           MaxLeads <- 3, MaxChanged <- 1, MaxCandidates <- 2

ASSUME ImportConstants == I!Sizes /\ I!Inputs /\ I!NoneIsNoRow

ProgressInit ==
  /\ part \in {"orders", "imports"}
  /\ Init /\ (part = "imports" => lead = [l \in Leads |-> NoLead])
  /\ I!Init

ProgressNext ==
  \/ part = "orders" /\ Next /\ UNCHANGED <<part, importVars>>
  \/ /\ part = "imports" /\ I!Next
     /\ job'[j2] # None =>
          /\ job'[j1] # None  \* the two differ by name only
          /\ \A i \in DOMAIN leads' : ~I!Changed(i)'  \* bound: one import meets changed leads
     /\ UNCHANGED <<part, vars>>

ProgressSpec ==
  /\ ProgressInit /\ [][ProgressNext]_<<part, vars, importVars>>
  /\ Fairness /\ I!Fairness

\* Every import comes to an end, unless its process or the record of its failure is lost.
ImportEnds == I!ImportEnds
==============================================================================
