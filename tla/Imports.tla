------------------------------- MODULE Imports --------------------------------
(***************************************************************************)
(* The duplicates among the leads and the import that writes leads from a  *)
(* file.  The rows are judged when the import starts; a background run     *)
(* then writes them in batches, each looking its duplicates up before its  *)
(* transaction, and reports its progress on the job.  Any of these writes  *)
(* can fail, the process can be lost, and leads are created, copied,       *)
(* edited, archived and deleted meanwhile.                                 *)
(***************************************************************************)
EXTENDS Naturals, Sequences, FiniteSets, FiniteSetsExt

CONSTANTS Contacts,   \* the phone numbers and addresses
          Files,      \* the files that are imported, as sequences of rows
          Jobs,       \* the import_jobs rows that may come to be
          Forms,      \* the New Lead forms saved at one time
          BatchSize,
          MaxLeads,   \* bound: the leads ever created
          MaxChanged, \* bound: the leads edited, archived or deleted for good
          MaxCandidates, \* how many matches the New Lead form chooses among
          Enquiries,  \* the contacts a New Lead form or an edit carries
          None

\* A row fails its fields' validation, would arrive converted, or can be written.
FileRow == [verdict: {"refused", "converts", "plain"}, keys: SUBSET Contacts]

Sizes ==
  /\ BatchSize \in Nat \ {0} /\ MaxCandidates \in Nat \ {0}
  /\ MaxLeads \in Nat /\ MaxChanged \in Nat
Inputs == Enquiries \subseteq SUBSET Contacts /\ \A file \in Files : file \in Seq(FileRow)

VARIABLES leads,   \* the leads rows in the order of their ids' first use
          job,     \* the import_jobs rows, None: no row yet
          run,     \* the background work of a job, None: not running
          form,    \* the New Lead requests past their lookup
          disturbed  \* history: the contacts of the leads changed since they were created

vars == <<leads, job, run, form, disturbed>>

Shelves == {"never", "archived", "restored"}
Ranks == {"every", "active", "some"}

\* at orders the leads by creation; original 0: no duplicate of another.  The rest is history:
\* whether leads were created between this one's lookup and its insert, whether its contacts
\* were edited or its original deleted, whether it was ever archived, and which of the leads
\* with its contacts its original was chosen among: every one, all but the archived ones, or
\* some of them.
Lead == [keys: SUBSET Contacts, at: Nat, original: Nat, gone: BOOLEAN, late: BOOLEAN,
         shelf: Shelves, edited: BOOLEAN, orphan: BOOLEAN, ranked: Ranks]

Statuses == {"PROCESSING", "COMPLETED", "FAILED"}

\* flagged: the rows that were shown as duplicates; written is history: each row
\* committed so far with the lead it became.
Job == [file: Files, status: Statuses, imported: Nat, processed: Nat, failed: Nat,
        unwritten: SUBSET Nat, flagged: SUBSET Nat, written: SUBSET (Nat \X Nat)]

NoneIsNoRow == None \notin Job

-----------------------------------------------------------------------------
(* Which lead a new one duplicates. *)

\* Mutant: the oldest match, itself a duplicate or not.
OldestOnly(C, dup, age) == {c \in C : \A d \in C : age[c] <= age[d]}

\* pickOriginal: the oldest match that is not itself a duplicate, else the oldest.  Leads
\* of one batch have one creation time, and their random ids order them.
Originals(C, dup, age) ==
  LET P == IF C \subseteq dup THEN C ELSE C \ dup
  IN {c \in P : \A d \in P : age[c] <= age[d]}

Ids == DOMAIN leads

\* duplicateWhere: archived leads count where the setting is on when the lookup reads it.  It
\* can be saved between any two lookups.
Searched(wide) == {i \in Ids : ~leads[i].gone /\ (leads[i].shelf = "archived" => wide)}
Matches(keys, wide) == {i \in Searched(wide) : leads[i].keys \cap keys # {}}
Duplicates == {i \in Ids : leads[i].original # 0}
Age == [i \in Ids |-> leads[i].at]

\* The matches the New Lead form reads: the oldest, up to its limit, in any order among equals.
Oldest(C) ==
  {K \in SUBSET C : /\ Cardinality(K) <= MaxCandidates
                    /\ K # C => Cardinality(K) = MaxCandidates
                    /\ \A i \in K, k \in C \ K : Age[i] <= Age[k]}

\* The original among these; 0: there are none.
Found(K) == IF K = {} THEN {0} ELSE Originals(K, Duplicates, Age)

RankedAs(K, keys) ==
  IF K = Matches(keys, TRUE) THEN "every"
  ELSE IF K = Matches(keys, FALSE) THEN "active" ELSE "some"

Clock == IF leads = <<>> THEN 1 ELSE leads[Len(leads)].at + 1

New(keys, original, seen, ranked) ==
  [keys |-> keys, at |-> Clock, original |-> original, gone |-> FALSE,
   late |-> Len(leads) # seen, shelf |-> "never", edited |-> FALSE, orphan |-> FALSE,
   ranked |-> ranked]

-----------------------------------------------------------------------------
(* Judging a file. *)

Plain(file) == {i \in DOMAIN file : file[i].verdict = "plain"}

Refused(file) == Len(file) - Cardinality(Plain(file))

\* Mutant: the rows that failed their validation count as well.
SeenAny(file, i) == UNION {file[k].keys : k \in 1..(i - 1)}

\* A row is compared with the earlier rows that passed their fields' validation.
Seen(file, i) == UNION {file[k].keys : k \in {h \in 1..(i - 1) : file[h].verdict # "refused"}}

Existing(wide) == UNION {leads[i].keys : i \in Searched(wide)}

Flagged(file, wide) ==
  {i \in Plain(file) : file[i].keys \cap (Seen(file, i) \cup Existing(wide)) # {}}

-----------------------------------------------------------------------------
(* An import. *)

Written(j) == {w[1] : w \in job[j].written}
Remaining(j) == Plain(job[j].file) \ run[j].landed

\* The next batch: the first remaining rows in file order.
Batch(j) == {i \in Remaining(j) : Cardinality({k \in Remaining(j) : k < i}) < BatchSize}

\* Bound: what is under way still fits the leads table.
Reserved ==
  Cardinality({f \in Forms : form[f] # None})
  + MapThenSumSet(LAMBDA j : IF run[j] = None THEN 0
                                           ELSE Cardinality(Remaining(j)), Jobs)

StartImport(j, file) ==
  /\ job[j] = None
  /\ Len(leads) + Reserved + Cardinality(Plain(file)) <= MaxLeads
  /\ \E wide \in BOOLEAN :
       job' = [job EXCEPT ![j] =
                 [file |-> file, status |-> "PROCESSING", imported |-> 0,
                  processed |-> Refused(file), failed |-> Refused(file),
                  unwritten |-> {}, flagged |-> Flagged(file, wide), written |-> {}]]
  /\ run' = [run EXCEPT ![j] =
               [step |-> IF Plain(file) = {} THEN "complete" ELSE "lookUp",
                landed |-> {}, seen |-> 0, existing |-> <<>>, ranked |-> <<>>,
                inBatch |-> <<>>]]
  /\ UNCHANGED <<leads, form, disturbed>>

At(j, step) == run[j] # None /\ run[j].step = step
Goto(j, step) == run' = [run EXCEPT ![j].step = step]

Shares(j, i, k) == job[j].file[i].keys \cap job[j].file[k].keys # {}

\* Mutant: the rows of one batch are not compared with each other.
NoneInBatch(j, c) == [i \in Batch(j) |-> 0]

\* The earlier row of the batch that each row duplicates, given the leads c they match.
InBatch(j, c) ==
  LET of[i \in Batch(j)] ==
        LET R == {k \in Batch(j) : k < i /\ Shares(j, i, k)}
            dup == {k \in R : c[k] # 0 \/ of[k] # 0}
        IN IF c[i] # 0 \/ R = {} THEN 0
           ELSE CHOOSE k \in Originals(R, dup, [h \in R |-> h]) : TRUE
  IN of

\* The leads that each row's original is chosen among: every match.
RankedIn(j, wide) ==
  [i \in Batch(j) |-> RankedAs(Matches(job[j].file[i].keys, wide), job[j].file[i].keys)]

\* originalsFor, outside the transaction that inserts the batch.
LookUp(j) ==
  /\ At(j, "lookUp")
  /\ \E wide \in BOOLEAN, c \in [Batch(j) -> 0..Len(leads)] :
       /\ \A i \in Batch(j) : c[i] \in Found(Matches(job[j].file[i].keys, wide))
       /\ run' = [run EXCEPT ![j] = [@ EXCEPT !.step = "insert", !.seen = Len(leads),
                                              !.existing = c, !.ranked = RankedIn(j, wide),
                                              !.inBatch = InBatch(j, c)]]
  /\ UNCHANGED <<leads, job, form, disturbed>>

\* The lead a row of the batch becomes: they are inserted in file order.
IdOf(j, i) == Len(leads) + 1 + Cardinality({k \in Batch(j) : k < i})

OriginalOf(j, i) ==
  IF run[j].existing[i] # 0 THEN run[j].existing[i]
  ELSE IF run[j].inBatch[i] # 0 THEN IdOf(j, run[j].inBatch[i])
  ELSE 0

Standing(original) == original # 0 => ~leads[original].gone

\* Mutant: the count of landed rows is set once the progress has been written.
LandedLater(j) == run[j].landed

Landed(j) == run[j].landed \cup Batch(j)

InsertBatch(j) ==
  LET row == [n \in 1..Cardinality(Batch(j)) |->
                CHOOSE i \in Batch(j) : IdOf(j, i) = Len(leads) + n]
  IN /\ At(j, "insert")
     /\ \A i \in Batch(j) : Standing(run[j].existing[i])
     /\ leads' = leads \o [n \in DOMAIN row |->
                    New(job[j].file[row[n]].keys, OriginalOf(j, row[n]), run[j].seen,
                        run[j].ranked[row[n]])]
     /\ job' = [job EXCEPT ![j].written = @ \cup {<<i, IdOf(j, i)>> : i \in Batch(j)}]
     /\ run' = [run EXCEPT ![j] = [@ EXCEPT !.step = "progress", !.landed = Landed(j)]]
     /\ UNCHANGED <<form, disturbed>>

\* Mutant: the loop does not see that nothing is left.
KeepsGoing(j) == "lookUp"

NextStep(j) == IF Remaining(j) = {} THEN "complete" ELSE "lookUp"

Progress(j) ==
  LET n == Cardinality(run[j].landed)
  IN /\ At(j, "progress")
     /\ job' = [job EXCEPT ![j].imported = n,
                           ![j].processed = Refused(job[j].file) + n]
     /\ Goto(j, NextStep(j))
     /\ UNCHANGED <<leads, form, disturbed>>

\* Mutant: the run goes on after its job is settled.
StillRunning(j) == run

Ended(j) == [run EXCEPT ![j] = None]

Complete(j) ==
  /\ At(j, "complete")
  /\ job' = [job EXCEPT ![j].status = "COMPLETED",
                        ![j].imported = Cardinality(Plain(job[j].file)),
                        ![j].processed = Len(job[j].file)]
  /\ run' = Ended(j)
  /\ UNCHANGED <<leads, form, disturbed>>

\* Any await of the run throws: the batch, its progress or the completion.
RunFails(j) ==
  /\ run[j] # None /\ ~At(j, "fail")
  /\ Goto(j, "fail")
  /\ UNCHANGED <<leads, job, form, disturbed>>

RecordFailure(j) ==
  /\ At(j, "fail")
  /\ job' = [job EXCEPT ![j] =
               [@ EXCEPT !.status = "FAILED", !.imported = Cardinality(run[j].landed),
                         !.processed = Len(job[j].file),
                         !.unwritten = Remaining(j),
                         !.failed = Refused(job[j].file) + Cardinality(Remaining(j))]]
  /\ run' = Ended(j)
  /\ UNCHANGED <<leads, form, disturbed>>

\* The failure is logged and swallowed: the job is left as it is.
FailureUnrecorded(j) ==
  /\ At(j, "fail")
  /\ run' = Ended(j)
  /\ UNCHANGED <<leads, job, form, disturbed>>

-----------------------------------------------------------------------------
(* The New Lead form, the copy of a lead, and what happens to a lead later. *)

CheckCreate(f, keys) ==
  /\ form[f] = None
  /\ Len(leads) + Reserved < MaxLeads
  /\ \E wide \in BOOLEAN : \E K \in Oldest(Matches(keys, wide)) : \E original \in Found(K) :
       form' = [form EXCEPT ![f] = [keys |-> keys, original |-> original,
                                    seen |-> Len(leads), ranked |-> RankedAs(K, keys)]]
  /\ UNCHANGED <<leads, job, run, disturbed>>

\* A copy duplicates what its source duplicates, or else its source: no lookup is made.
CheckCopy(f, i) ==
  /\ form[f] = None
  /\ Len(leads) + Reserved < MaxLeads
  /\ i \in Searched(FALSE)
  /\ LET original == IF leads[i].original # 0 THEN leads[i].original ELSE i
     IN form' = [form EXCEPT ![f] = [keys |-> leads[i].keys, original |-> original,
                                     seen |-> Len(leads), ranked |-> "some"]]
  /\ UNCHANGED <<leads, job, run, disturbed>>

\* The foreign key refuses an original that is gone.
CreateLead(f) ==
  /\ form[f] # None
  /\ leads' = IF Standing(form[f].original)
              THEN Append(leads, New(form[f].keys, form[f].original, form[f].seen,
                                     form[f].ranked))
              ELSE leads
  /\ form' = [form EXCEPT ![f] = None]
  /\ UNCHANGED <<job, run, disturbed>>

\* Bound: what may be changed once it is created.
Changed(i) == leads[i].gone \/ leads[i].edited \/ leads[i].shelf # "never"
MayChange(i) ==
  /\ i \in Ids /\ ~leads[i].gone
  /\ Changed(i) \/ Cardinality({k \in Ids : Changed(k)}) < MaxChanged

\* A changed lead is found active before it is locked, and may be archived by then; so an edit
\* or a deletion may meet an archived lead.
Disturbs(keys) == disturbed' = disturbed \cup keys /\ UNCHANGED <<job, run, form>>

ArchiveLead(i) ==
  /\ MayChange(i) /\ leads[i].shelf # "archived"
  /\ leads' = [leads EXCEPT ![i].shelf = "archived"]
  /\ Disturbs(leads[i].keys)

RestoreLead(i) ==
  /\ MayChange(i) /\ leads[i].shelf = "archived"
  /\ leads' = [leads EXCEPT ![i].shelf = "restored"]
  /\ Disturbs(leads[i].keys)

\* Its contacts are written, its original is not chosen again.
EditLead(i, keys) ==
  /\ MayChange(i) /\ keys # leads[i].keys
  /\ leads' = [leads EXCEPT ![i].keys = keys, ![i].edited = TRUE]
  /\ Disturbs(leads[i].keys \cup keys)

\* Its duplicates lose their link (ON DELETE SET NULL).
DeleteLead(i) ==
  /\ MayChange(i)
  /\ leads' = [k \in Ids |->
                 IF k = i THEN [leads[k] EXCEPT !.gone = TRUE]
                 ELSE IF leads[k].original = i
                   THEN [leads[k] EXCEPT !.original = 0, !.orphan = TRUE]
                 ELSE leads[k]]
  /\ Disturbs(leads[i].keys)

\* The process is lost with every run and request in it; nothing resumes a run.
Crash ==
  /\ \E j \in Jobs : run[j] # None
  /\ run' = [j \in Jobs |-> None]
  /\ form' = [f \in Forms |-> None]
  /\ UNCHANGED <<leads, job, disturbed>>

Init ==
  /\ leads = <<>>
  /\ job = [j \in Jobs |-> None]
  /\ run = [j \in Jobs |-> None]
  /\ form = [f \in Forms |-> None]
  /\ disturbed = {}

Steps(j) ==
  \/ LookUp(j) \/ InsertBatch(j) \/ Progress(j) \/ Complete(j)
  \/ RunFails(j) \/ RecordFailure(j) \/ FailureUnrecorded(j)

Next ==
  \/ \E j \in Jobs : Steps(j) \/ \E file \in Files : StartImport(j, file)
  \/ \E f \in Forms : CreateLead(f) \/ \E keys \in Enquiries : CheckCreate(f, keys)
                        \/ \E i \in Ids : CheckCopy(f, i)
  \/ \E i \in Ids : ArchiveLead(i) \/ RestoreLead(i) \/ DeleteLead(i)
                      \/ \E keys \in Enquiries : EditLead(i, keys)
  \/ Crash

\* The event loop goes on with every run it holds.
Fairness == \A j \in Jobs : WF_vars(Steps(j))
Spec == Init /\ [][Next]_vars /\ Fairness

-----------------------------------------------------------------------------
(* What the imports and the duplicates must keep. *)

\* The rows hold what their columns can hold, and a run is at a step of its job.
TypeOK ==
  /\ leads \in Seq(Lead) /\ \A i \in Ids : leads[i].original \in {0} \cup Ids
  /\ job \in [Jobs -> Job \cup {None}]
  /\ \A j \in Jobs : run[j] # None =>
       /\ job[j] # None /\ job[j].status = "PROCESSING"
       /\ run[j].step \in {"lookUp", "insert", "progress", "complete", "fail"}
  /\ disturbed \subseteq Contacts

\* A settled job tells the truth: what it counts as imported is what was written, what
\* it reports as not imported was not, and its totals add up - so importing the
\* reported rows again writes no row twice.
ReportMatchesTable ==
  \A j \in Jobs :
    job[j] # None /\ job[j].status # "PROCESSING" =>
      /\ job[j].imported = Cardinality(Written(j))
      /\ job[j].unwritten = Plain(job[j].file) \ Written(j)
      /\ job[j].imported + job[j].failed = Len(job[j].file)
      /\ job[j].processed = Len(job[j].file)

\* Two leads that stand as they were created, the later one judged when the earlier was there.
Comparable(a, b) ==
  /\ ~leads[a].gone /\ ~leads[b].gone /\ ~leads[a].edited /\ ~leads[b].edited
  /\ leads[a].keys \cap leads[b].keys # {} /\ ~leads[b].late

Linked(b) == leads[b].original # 0 \/ leads[b].orphan

\* A lead that shares a contact with an earlier one is recorded as a duplicate, unless leads
\* were created between its lookup and its insert, or the contacts of either were edited
\* since - or the earlier one was archived when archived leads were not looked at.  Only
\* the deletion of its original ends the link.
SharedIsLinked ==
  \A a, b \in Ids :
    a < b /\ Comparable(a, b) /\ (leads[a].shelf = "never" \/ leads[b].ranked = "every")
    => Linked(b)

\* A duplicate points at an original, not at another duplicate, whenever an original older
\* than its batch was among the leads its own was chosen from - every match, or every match
\* but the archived ones.  A copy, and a form that read only some of its matches, may point
\* at a duplicate.
StarWhenMatched ==
  \A a, b \in Ids :
    /\ leads[a].at < leads[b].at /\ Comparable(a, b)
    /\ leads[a].original = 0 /\ ~leads[a].orphan
    /\ leads[b].ranked = "every" \/ (leads[b].ranked = "active" /\ leads[a].shelf = "never")
    => /\ Linked(b)
       /\ leads[b].original # 0 => leads[leads[b].original].original = 0

\* What the preview says comes true: a row shown as a duplicate is recorded as one - unless
\* the row it repeats would have converted and was refused, leads were created since, or a
\* lead with the contact was edited, archived, restored or deleted.
PreviewHolds ==
  \A j \in Jobs : job[j] # None => \A w \in job[j].written :
    LET file == job[j].file
        i == w[1]
    IN i \in job[j].flagged /\ ~leads[w[2]].late /\ file[i].keys \cap disturbed = {}
       /\ (\A k \in 1..(i - 1) : file[k].verdict = "converts" =>
             file[k].keys \cap file[i].keys = {})
       => Linked(w[2])

\* Every import comes to an end, unless its process is lost or its failure cannot be
\* written down.
ImportEnds == \A j \in Jobs : job[j] # None ~> run[j] = None
==============================================================================
