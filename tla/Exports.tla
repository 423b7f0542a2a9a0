------------------------------- MODULE Exports -------------------------------
(***************************************************************************)
(* The exports: a file is streamed while the rows it lists are read a      *)
(* batch at a time, each batch by a statement of its own that skips what   *)
(* was written so far.  Between two of them rows may enter the list, leave *)
(* it or change their place in its order.                                  *)
(*                                                                         *)
(* The export of the leads list (src/src/leads/export) and that of the     *)
(* verified orders (src/src/logistics) read the first batch before they    *)
(* answer and break the connection off when a later one fails; those of    *)
(* the reports (src/src/reports) answer first, and the framework ends a    *)
(* response it can no longer turn into an error.                           *)
(***************************************************************************)
EXTENDS Naturals, Sequences, SequencesExt, FiniteSets

CONSTANTS None,
          Rows,         \* what a list may hold
          BatchSize,    \* EXPORT_BATCH_SIZE
          MaxRows,      \* MAX_EXPORT_ROWS
          MaxChanges    \* bound: the changes of the list while one file is written

\* What a constant must be; asserted where the module is instantiated.
BatchAssumption == BatchSize \in Nat \ {0} /\ MaxRows \in Nat /\ IsFiniteSet(Rows)

VARIABLES list,     \* the rows that match, in the order of ORDER BY
          export,   \* the export under way or just over
          event,    \* the rows the audit event of the export tells, None: no event
          entered,  \* history: rows that came in or moved since the export began
          left,     \* history: rows that went or moved since then
          kept      \* history: the rows that have matched all the while

vars == <<list, export, event, entered, left, kept>>

Kinds == {"leads", "orders", "report"}

\* answered: headers are out; over: the client has the end of a file, or none.
Steps == {"reading", "ended", "cut", "refused", "aborted"}
Export == [kind: Kinds, step: Steps, answered: BOOLEAN, file: Seq(Rows)]

TypeOK ==
  /\ list \in Seq(Rows) /\ IsInjective(list)
  /\ export \in Export
  /\ event \in Nat \cup {None}
  /\ kept \subseteq ToSet(list)

Init ==
  /\ list \in {SetToSeq(S) : S \in SUBSET Rows}
  /\ \E kind \in Kinds :
       export = [kind |-> kind, step |-> "reading", answered |-> kind = "report", file |-> <<>>]
  /\ event = None
  /\ entered = 0 /\ left = 0
  /\ kept = ToSet(list)

-----------------------------------------------------------------------------
(* The list, under the export. *)

Reading == export.step = "reading"
Changes == Reading /\ entered + left < MaxChanges

Enter(r) ==
  /\ Changes /\ r \notin ToSet(list)
  /\ \E i \in 1 .. Len(list) + 1 : list' = InsertAt(list, i, r)
  /\ entered' = entered + 1
  /\ UNCHANGED <<export, event, left, kept>>

Leave(r) ==
  /\ Changes
  /\ \E k \in DOMAIN list : list[k] = r /\ list' = RemoveAt(list, k)
  /\ left' = left + 1 /\ kept' = kept \ {r}
  /\ UNCHANGED <<export, event, entered>>

\* The column the list is sorted by changes.
MovePlace(r) ==
  /\ Changes
  /\ \E k, i \in DOMAIN list :
       list[k] = r /\ i # k /\ list' = InsertAt(RemoveAt(list, k), i, r)
  /\ entered' = entered + 1 /\ left' = left + 1
  /\ UNCHANGED <<export, event, kept>>

-----------------------------------------------------------------------------
(* The export. *)

Slice(first) == SubSeq(list, first, Min({first + BatchSize - 1, Len(list)}))

\* Mutant: one row too many is skipped.
SkipsOneMore(skip) == Slice(skip + 2)

\* What findMany returns.
Page(skip) == Slice(skip + 1)

Ends(file, page) == Len(page) < BatchSize \/ Len(file) >= MaxRows

readPage ==
  LET page == Page(Len(export.file))
      file == export.file \o page
  IN /\ Reading
     /\ export' = [export EXCEPT !.file = file, !.answered = TRUE,
                                 !.step = IF Ends(file, page) THEN "ended" ELSE "reading"]
     /\ UNCHANGED <<list, event, entered, left, kept>>

\* A statement fails.
readFails ==
  /\ Reading
  /\ export' = [export EXCEPT !.step = IF ~export.answered THEN "refused"
                                       ELSE IF export.kind = "report" THEN "cut" ELSE "aborted"]
  /\ UNCHANGED <<list, event, entered, left, kept>>

\* The process ends, and the connection with it.
crash ==
  /\ Reading
  /\ export' = [export EXCEPT !.step = "aborted"]
  /\ UNCHANGED <<list, event, entered, left, kept>>

\* Only when the file is out; that the event itself fails is logged and nothing else.
recordExport ==
  /\ export.step = "ended" /\ event = None
  /\ event' = Len(export.file)
  /\ UNCHANGED <<list, export, entered, left, kept>>

Next ==
  \/ \E r \in Rows : Enter(r) \/ Leave(r) \/ MovePlace(r)
  \/ readPage \/ readFails \/ crash \/ recordExport

-----------------------------------------------------------------------------
(* Properties. *)

File == ToSet(export.file)
Repeated == Len(export.file) - Cardinality(File)
Missing == kept \ File

\* A file that ends below the limit misses at most one row, of those that matched all the while,
\* for each that left the list or moved in it, and repeats at most one for each that entered or
\* moved; nothing changing, it is the list as far as the limit.  What the audit log says was
\* exported is a file that ended, with all its rows.
ExportKeeps ==
  /\ export.step = "ended" /\ Len(export.file) < MaxRows =>
       Cardinality(Missing) <= left /\ Repeated <= entered
  /\ export.step = "ended" /\ entered + left = 0 =>
       \/ export.file = list
       \/ Len(export.file) >= MaxRows /\ IsPrefix(export.file, list)
  /\ event # None => export.step = "ended" /\ event = Len(export.file)

\* logistics-orders.service.ts:359-360: the order number is unique, so the pages never repeat or
\* skip a row.
NeverSkips ==
  export.kind = "orders" /\ export.step = "ended" /\ Len(export.file) < MaxRows =>
    Missing = {} /\ Repeated = 0
=============================================================================
