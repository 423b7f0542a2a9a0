------------------------------- MODULE Settings -------------------------------
(***************************************************************************)
(* The settings, one row of JSON per screen.  Three kinds are modelled: a  *)
(* form that is saved whole and read field by field, the duplicate         *)
(* switches with their own log, and a list (the follow-up types) that is   *)
(* read, changed and saved whole, and seeded by its first reader.  Every   *)
(* save goes through saveSetting: the row is locked, when there is one,    *)
(* and the audit event compares what it locked with what it writes.        *)
(***************************************************************************)
EXTENDS Naturals, FiniteSets, Sequences

CONSTANTS None, Requests,
          Fields, Values, Bad, Default,  \* a form: what its fields may hold, or hold wrongly
          Switches, LogLimit,            \* duplicate detection: its switches, DUPLICATE_LOG_LIMIT
          Shipped, Custom, Names,        \* follow-up types and their names
          MaxTypes                       \* MAX_FOLLOW_UP_TYPES

DefaultIsAValue == Default \in Values /\ Bad \notin Values
LimitsPositive == {LogLimit, MaxTypes} \subseteq Nat \ {0}
SeedFits == IsFiniteSet(Shipped) /\ Cardinality(Shipped) <= MaxTypes

VARIABLES stored,   \* app_settings.value by key, None: no row
          event,    \* the SETTING event the last step recorded, None when it recorded none
          used,     \* the shipped types some follow-up is of
          request   \* the requests between their statements

vars == <<stored, event, used, request>>

Keys == {"form", "duplicate", "types"}
TypeRow == [id: Shipped \cup Custom, name: Names \cup Shipped]

FormRow == [Fields -> Values \cup {Bad}]
DuplicateRow == [on: SUBSET Switches, log: Seq(SUBSET Switches)]
Ops == [do: {"read", "create", "update", "delete"}, id: Shipped \cup Custom, name: Names]

\* A save on its way: its next is the change of the list that a seed makes way for.
Call == [step: {"lock", "write", "change"}, key: Keys,
         value: FormRow \cup DuplicateRow \cup SUBSET TypeRow, next: Ops \cup {None},
         before: FormRow \cup DuplicateRow \cup (SUBSET TypeRow) \cup {None}, fresh: BOOLEAN]

NoneIsNothing ==
  /\ None \notin Shipped \cup Custom \cup Ops \cup FormRow \cup DuplicateRow \cup Call
  /\ \A types \in SUBSET TypeRow : types # None

\* A shipped type is called by its own name; every seed has new ids in the code, which nothing
\* here tells from those of the one before.
Seed == {[id |-> s, name |-> s] : s \in Shipped}

\* The rows hold what the screens store; a form may be older than its fields, or edited by hand.
TypeOK ==
  /\ stored["form"] \in FormRow \cup {None}
  /\ stored["duplicate"] # None =>
       /\ stored["duplicate"].on \in SUBSET Switches
       /\ \A i \in DOMAIN stored["duplicate"].log :
            stored["duplicate"].log[i] \in (SUBSET Switches) \ {{}}
       /\ Len(stored["duplicate"].log) <= LogLimit
  /\ stored["types"] \in (SUBSET TypeRow) \cup {None}
  /\ used \in SUBSET Shipped

Init ==
  /\ \E form \in FormRow \cup {None} :
       stored = [k \in Keys |-> IF k = "form" THEN form ELSE None]
  /\ event = None
  /\ used = {}
  /\ request = [r \in Requests |-> None]

-----------------------------------------------------------------------------
(* Reading. *)

\* Mutant: one unreadable field costs the whole screen.
AllOrNothing(form) ==
  IF form = None \/ \E f \in Fields : form[f] = Bad THEN [f \in Fields |-> Default] ELSE form

\* Every field falls back on its own.
ReadForm(form) ==
  [f \in Fields |-> IF form = None THEN Default
                    ELSE IF form[f] \in Values THEN form[f] ELSE Default]

ReadDuplicate == IF stored["duplicate"] = None THEN [on |-> {}, log |-> <<>>]
                 ELSE stored["duplicate"]

-----------------------------------------------------------------------------
(* saveSetting. *)

At(r, step) == request[r] # None /\ request[r].step = step
Set(r, c) == request' = [request EXCEPT ![r] = c]

\* What is to be written.
Saving(k, v, next) == [step |-> "lock", key |-> k, value |-> v, next |-> next,
                       before |-> None, fresh |-> TRUE]

\* Mutant: the row is read without its lock.
NobodyHolds(k, r) == FALSE

\* Somebody else holds the row k: he found one to lock.
Held(k, r) ==
  \E q \in Requests \ {r} : At(q, "write") /\ request[q].key = k /\ request[q].before # None

\* The row is locked and read, if there is a row to lock.
Lock(r) ==
  /\ At(r, "lock")
  /\ stored[request[r].key] # None => ~Held(request[r].key, r)
  /\ Set(r, [request[r] EXCEPT !.step = "write", !.before = stored[request[r].key]])
  /\ event' = None
  /\ UNCHANGED <<stored, used>>

\* An upsert waits for whoever holds the row; a save that changes nothing records nothing.
Write(r) ==
  LET c == request[r]
      k == c.key
  IN /\ At(r, "write")
     /\ ~Held(k, r)
     /\ stored' = [stored EXCEPT ![k] = c.value]
     /\ event' = IF c.before = c.value THEN None
                 ELSE [key |-> k, before |-> c.before, after |-> c.value]
     /\ request' = [q \in Requests |->
                      IF q = r THEN IF c.next = None THEN None
                                    ELSE [c EXCEPT !.step = "change", !.fresh = TRUE]
                      ELSE IF request[q] # None /\ request[q].key = k
                      THEN [request[q] EXCEPT !.fresh = FALSE] ELSE request[q]]
     /\ UNCHANGED used

Fail(r) == request[r] # None /\ Set(r, None) /\ event' = None /\ UNCHANGED <<stored, used>>

-----------------------------------------------------------------------------
(* The screens. *)

SaveForm(r, v) ==
  /\ request[r] = None
  /\ Set(r, Saving("form", v, None))
  /\ event' = None
  /\ UNCHANGED <<stored, used>>

\* Mutant: the oldest entries are kept.
KeepsOldest(entry, log) ==
  IF Len(log) < LogLimit THEN <<entry>> \o log ELSE log

\* Mutant: the log is not cut.
Uncut(entry, log) == <<entry>> \o log

\* The entry goes first, and the oldest beyond the limit.
Logged(entry, log) ==
  SubSeq(<<entry>> \o log, 1, IF Len(log) < LogLimit THEN Len(log) + 1 ELSE LogLimit)

Changes(before, on) == (before \ on) \cup (on \ before)

SaveDuplicate(r, on) ==
  LET before == ReadDuplicate
      changes == Changes(before.on, on)
  IN /\ request[r] = None
     /\ Set(r, Saving("duplicate",
                      [on |-> on, log |-> IF changes = {} THEN before.log
                                          ELSE Logged(changes, before.log)], None))
     /\ event' = None
  /\ UNCHANGED <<stored, used>>

\* Mutant: the new name is not looked for.
AnyName(types, name, id) == TRUE

NameFree(types, name, id) == \A t \in types : t.id # id => t.name # name

\* A change of the list: read alone, create, update or delete.
Changed(types, op) ==
  CASE op.do = "create" -> types \cup {[id |-> op.id, name |-> op.name]}
    [] op.do = "update" -> {t \in types : t.id # op.id}
                             \cup {[id |-> op.id, name |-> op.name]}
    [] op.do = "delete" -> {t \in types : t.id # op.id}

Ids(types) == {t.id : t \in types}

\* A shipped type that follow-ups are of is not deleted; a new type has a new id.
Accepted(types, op) ==
  CASE op.do = "create" -> /\ op.id \in Custom \ Ids(types)
                           /\ NameFree(types, op.name, None)
                           /\ Cardinality(types) < MaxTypes
    [] op.do = "update" -> op.id \in Ids(types) /\ NameFree(types, op.name, op.id)
    [] op.do = "delete" -> op.id \in Ids(types) \ used
    [] op.do = "read" -> FALSE

\* The list is read; its first reader seeds it, whatever it came for.
BeginTypes(r, op) ==
  /\ request[r] = None
  /\ IF stored["types"] = None
     THEN Set(r, Saving("types", Seed, op))
     ELSE /\ Accepted(stored["types"], op)
          /\ Set(r, Saving("types", Changed(stored["types"], op), None))
  /\ event' = None
  /\ UNCHANGED <<stored, used>>

\* After the seed, the change is made of what was seeded.
ChangeSeeded(r) ==
  LET op == request[r].next
  IN /\ At(r, "change")
     /\ IF Accepted(Seed, op) THEN Set(r, Saving("types", Changed(Seed, op), None))
        ELSE Set(r, None)
     /\ event' = None
  /\ UNCHANGED <<stored, used>>

\* A follow-up of a shipped type is created; its type is not looked up in the list.
FileActivity(s) ==
  /\ used' = used \cup {s}
  /\ event' = None
  /\ UNCHANGED <<stored, request>>

Next ==
  \/ \E r \in Requests :
       \/ \E v \in [Fields -> Values] : SaveForm(r, v)
       \/ \E on \in SUBSET Switches : SaveDuplicate(r, on)
       \/ \E op \in Ops : BeginTypes(r, op)
       \/ Lock(r) \/ Write(r) \/ ChangeSeeded(r) \/ Fail(r)
  \/ \E s \in Shipped : FileActivity(s)

Spec == Init /\ [][Next]_vars

-----------------------------------------------------------------------------
(* What the settings must keep. *)

\* Whatever is stored, a screen reads values it can show, and a field that is well stored
\* reads as it is whatever the others hold.
GoodFieldsSurvive ==
  LET form == stored["form"] IN
  \A f \in Fields : /\ ReadForm(form)[f] \in Values
                    /\ form # None /\ form[f] \in Values => ReadForm(form)[f] = form[f]

\* Requests may undo each other's changes of the list, but what is stored is always a list
\* one of them could have made: no name twice and no more types than allowed.
ListSound ==
  stored["types"] # None =>
    /\ Cardinality(stored["types"]) <= MaxTypes
    /\ \A t, u \in stored["types"] : t # u => t.id # u.id /\ t.name # u.name

\* The before-state of an event is the value its save replaced, once there was one to lock.
BeforeIsReplaced ==
  [][event' # None /\ event'.before # None => event'.before = stored[event'.key]]_vars

\* The log of the duplicate settings says first what changed last, and keeps the entries before
\* it up to the limit, when nobody saved between its read and its write.
LogTellsChange ==
  [][\A r \in Requests :
       /\ At(r, "write") /\ request[r].key = "duplicate" /\ request[r].fresh
       /\ stored'["duplicate"] # stored["duplicate"] /\ request'[r] = None
       => LET before == ReadDuplicate
              after == stored'["duplicate"]
          IN before.on # after.on =>
             /\ Head(after.log) = Changes(before.on, after.on)
             /\ \A i \in DOMAIN before.log : i < LogLimit => after.log[i + 1] = before.log[i]]_vars

\* Once there is a list, the seed is not written over it.
SeededOnce ==
  [][\A r \in Requests :
       /\ At(r, "write") /\ request[r].key = "types" /\ request[r].next # None
       /\ stored["types"] # None
       => stored'["types"] = stored["types"]]_vars
==============================================================================
