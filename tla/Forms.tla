-------------------------------- MODULE Forms ---------------------------------
(***************************************************************************)
(* The lead forms with their default, the custom fields they arrange, and  *)
(* what points at both: the members a form is assigned to and the values   *)
(* leads hold.  Every save checks first and writes in a transaction that   *)
(* locks the row it rewrites; the checks are not made again under it.      *)
(* A form arranges custom fields here; the fields every lead has are       *)
(* always known.                                                           *)
(***************************************************************************)
EXTENDS Naturals, FiniteSets

CONSTANTS None,
          Removed,    \* a row that is soft-deleted: nothing reads its columns
          Forms, Fields, Options, Leads, Members, Requests,
          MaxForms,   \* the most live forms a create accepts (MAX_FORMS)
          MaxFields   \* the most live fields a create accepts (MAX_FIELDS)

VARIABLES form,    \* lead_forms with the keys of their fields
          field,   \* lead_custom_fields with their options
          value,   \* lead_custom_field_values
          uses,    \* users.lead_form_id
          change   \* the requests past their checks

vars == <<form, field, value, uses, change>>

\* late: what the row names was removed or changed between the check of its request and
\* its write, or the request that removes it was already under way (history).
FormRow == [fields: SUBSET Fields, default: BOOLEAN, active: BOOLEAN, late: BOOLEAN]
FieldRow == [options: SUBSET Options, active: BOOLEAN]
ValueRow == [value: Options, late: BOOLEAN]

\* What a request asks, once its check has passed, and what it has read by then.
\* fresh: no other request has written since (history).
SaveCall == [step: {"see", "write"}, form: Forms \cup {None}, fields: SUBSET Fields,
             default: BOOLEAN, active: BOOLEAN, clears: SUBSET Forms, fresh: BOOLEAN]
RemoveFormCall == [step: {"removeForm"}, form: Forms, fresh: BOOLEAN]
AssignCall == [step: {"assign"}, form: Forms, member: Members, fresh: BOOLEAN]
UpdateFieldCall == [step: {"updateField"}, field: Fields, options: SUBSET Options,
                    active: BOOLEAN, fresh: BOOLEAN]
RemoveFieldCall == [step: {"removeField"}, field: Fields, fresh: BOOLEAN]
\* The field is off the rows of forms; those of waits are still locked by a save.
RetireCall == [step: {"retire"}, field: Fields, forms: SUBSET Forms, waits: SUBSET Forms,
               fresh: BOOLEAN]
FillCall == [step: {"fill"}, field: Fields, lead: Leads, value: Options, fresh: BOOLEAN]

Call == SaveCall \cup RemoveFormCall \cup AssignCall \cup UpdateFieldCall \cup RemoveFieldCall
          \cup RetireCall \cup FillCall

NoneIsNothing ==
  /\ None # Removed
  /\ {None, Removed} \cap (Forms \cup FormRow \cup FieldRow \cup ValueRow) = {}
  /\ None \notin Call
BoundsPositive == {MaxForms, MaxFields} \subseteq Nat \ {0}

\* The rows hold what their columns can hold; a value is one a field can have.
TypeOK ==
  /\ form \in [Forms -> FormRow \cup {None, Removed}]
  /\ field \in [Fields -> FieldRow \cup {None, Removed}]
  /\ value \in [Leads \X Fields -> ValueRow \cup {None}]
  /\ uses \in [Members -> [form: Forms \cup {None}, late: BOOLEAN]]
  /\ change \in [Requests -> Call \cup {None}]

Init ==
  /\ form = [f \in Forms |-> None]
  /\ field = [k \in Fields |-> None]
  /\ value = [l \in Leads \X Fields |-> None]
  /\ uses = [u \in Members |-> [form |-> None, late |-> FALSE]]
  /\ change = [r \in Requests |-> None]

-----------------------------------------------------------------------------
LiveForms == {f \in Forms : form[f] \notin {None, Removed}}
LiveFields == {k \in Fields : field[k] \notin {None, Removed}}
Defaults == {f \in LiveForms : form[f].default}

At(r, step) == change[r] # None /\ change[r].step = step
Start(r, c) == change[r] = None /\ change' = [change EXCEPT ![r] = c]

\* A removal has locked the field and taken it off the forms it saw; not committed yet.
Retiring(q, k) == At(q, "retire") /\ change[q].field = k

\* r is done; the others have read rows that are no longer there.
Wrote(r) ==
  change' = [q \in Requests |-> IF q = r \/ change[q] = None THEN None
                                ELSE [change[q] EXCEPT !.fresh = FALSE]]

-----------------------------------------------------------------------------
(* Forms. *)

\* Mutant: a save that does not say whether the form is active stores no answer.
Unsaid(f, keys, default, active) ==
  [step |-> "see", form |-> f, fields |-> keys, default |-> default, active |-> None,
   clears |-> {}, fresh |-> TRUE]

\* What a save sends, and where it is: "see" before it looks for defaults to clear.
SaveOf(f, keys, default, active) ==
  [step |-> "see", form |-> f, fields |-> keys, default |-> default, active |-> active,
   clears |-> {}, fresh |-> TRUE]

\* Mutant: a form may be saved as it is sent.
AsSent(f, default) == TRUE

\* The way to move the default is to make another form the default.
MayStopBeingDefault(f, default) == form[f].default => default

\* None stands for a form that is created.
CheckSave(r, f, keys, default, active) ==
  /\ IF f = None THEN Cardinality(LiveForms) < MaxForms
     ELSE f \in LiveForms /\ MayStopBeingDefault(f, default)
  /\ default => active
  /\ keys \subseteq LiveFields
  /\ Start(r, SaveOf(f, keys, default, active))
  /\ UNCHANGED <<form, field, value, uses>>

\* f is locked by a save that has begun.
Locked(f, r) == f # None /\ \E q \in Requests \ {r} : At(q, "write") /\ change[q].form = f

\* Mutant: no other default is cleared.
ClearsNone(f) == {}

Others(f) == Defaults \ {f}

\* The row is locked, and clearDefault sees the defaults there are.
SeeDefaults(r) ==
  LET c == change[r]
  IN /\ At(r, "see")
     /\ ~Locked(c.form, r)
     /\ change' = [change EXCEPT ![r].step = "write",
                                 ![r].clears = IF c.default THEN Others(c.form) ELSE {}]
     /\ UNCHANGED <<form, field, value, uses>>

\* r wrote the rows of n anew: a removal that waits for them deletes none.
WroteForm(r, n) ==
  change' = [q \in Requests |->
               IF q = r \/ change[q] = None THEN None
               ELSE IF At(q, "retire")
               THEN [change[q] EXCEPT !.fresh = FALSE, !.waits = @ \ {n}]
               ELSE [change[q] EXCEPT !.fresh = FALSE]]

\* What the save c writes on its form.
Rewritten(c) ==
  [fields |-> c.fields, default |-> c.default, active |-> c.active,
   late |-> \/ ~(c.fields \subseteq LiveFields)
            \/ \E q \in Requests, k \in c.fields : Retiring(q, k)]

\* It waits for the defaults it saw and for a removal that holds the rows of the form,
\* clears the defaults and writes the form whole.  A form that was removed is written too:
\* the update is by its id.
Save(r, n) ==
  LET c == change[r]
  IN /\ At(r, "write")
     /\ \A f \in c.clears : ~Locked(f, r)
     /\ \A q \in Requests : At(q, "retire") => n \notin change[q].forms
     /\ IF c.form = None THEN form[n] = None ELSE n = c.form
     /\ form' = [f \in Forms |->
                   IF f = n /\ form[f] # Removed THEN Rewritten(c)
                   ELSE IF f \in c.clears /\ form[f] # Removed
                   THEN [form[f] EXCEPT !.default = FALSE]
                   ELSE form[f]]
     /\ WroteForm(r, n)
     /\ UNCHANGED <<field, value, uses>>

\* Mutant: an assigned form may be removed.
Whoever(f) == TRUE

NobodyUses(f) == \A u \in Members : uses[u].form # f

CheckRemoveForm(r, f) ==
  /\ f \in LiveForms /\ ~form[f].default /\ NobodyUses(f)
  /\ Start(r, [step |-> "removeForm", form |-> f, fresh |-> TRUE])
  /\ UNCHANGED <<form, field, value, uses>>

RemoveForm(r) ==
  /\ At(r, "removeForm")
  /\ ~Locked(change[r].form, r)
  /\ form' = [form EXCEPT ![change[r].form] = Removed]
  /\ Wrote(r)
  /\ UNCHANGED <<field, value, uses>>

\* A member is saved with a form.
CheckAssign(r, u, f) ==
  /\ f \in LiveForms
  /\ Start(r, [step |-> "assign", form |-> f, member |-> u, fresh |-> TRUE])
  /\ UNCHANGED <<form, field, value, uses>>

Assign(r) ==
  LET f == change[r].form
  IN /\ At(r, "assign")
     /\ uses' = [uses EXCEPT ![change[r].member] =
                   [form |-> f,
                    late |-> \/ form[f] = Removed
                             \/ \E q \in Requests : At(q, "removeForm") /\ change[q].form = f]]
     /\ change' = [change EXCEPT ![r] = None]
     /\ UNCHANGED <<form, field, value>>

-----------------------------------------------------------------------------
(* Custom fields and the values of leads. *)

ValuesOf(k) == {value[<<l, k>>].value : l \in {m \in Leads : value[<<m, k>>] # None}}

CreateField(k, opts) ==
  /\ field[k] = None /\ Cardinality(LiveFields) < MaxFields
  /\ field' = [field EXCEPT ![k] = [options |-> opts, active |-> TRUE]]
  /\ UNCHANGED <<form, value, uses, change>>

\* Mutant: a field may change whatever is filed under it.
AnyOptions(k, opts) == TRUE

\* A field that holds values keeps its type (a drop-down has options, others have none)
\* and the options they are of.
Covers(k, opts) ==
  ValuesOf(k) # {} => /\ (opts = {}) = (field[k].options = {})
                      /\ opts # {} => ValuesOf(k) \subseteq opts

CheckUpdateField(r, k, opts, active) ==
  /\ k \in LiveFields /\ Covers(k, opts)
  /\ Start(r, [step |-> "updateField", field |-> k, options |-> opts, active |-> active,
               fresh |-> TRUE])
  /\ UNCHANGED <<form, field, value, uses>>

UpdateField(r) ==
  LET k == change[r].field
  IN /\ At(r, "updateField")
     /\ \A q \in Requests : ~Retiring(q, k)
     /\ field' = [field EXCEPT ![k] =
                    IF @ = Removed THEN Removed
                    ELSE [options |-> change[r].options, active |-> change[r].active]]
     /\ Wrote(r)
     /\ UNCHANGED <<form, value, uses>>

\* A field under which something is filed is refused.
CheckRemoveField(r, k) ==
  /\ k \in LiveFields /\ ValuesOf(k) = {}
  /\ Start(r, [step |-> "removeField", field |-> k, fresh |-> TRUE])
  /\ UNCHANGED <<form, field, value, uses>>

\* Mutant: the forms keep the key.
KeepsKey(keys, k) == keys

Without(keys, k) == keys \ {k}

With(k) == {f \in LiveForms : k \in form[f].fields}

\* remove locks the field and takes it off the forms that have it.  The rows of taken were
\* deleted by a save that has not committed: the statement waits for that save, and does
\* not see the rows it writes.  Nor does it see what any save commits from here on.
SweepForms(r, taken) ==
  LET k == change[r].field
  IN /\ At(r, "removeField")
     /\ \A q \in Requests : ~Retiring(q, k)
     /\ taken \subseteq {f \in With(k) : Locked(f, r)}
     /\ change' = [change EXCEPT ![r] = [step |-> "retire", field |-> k,
                                         forms |-> With(k) \ taken, waits |-> taken,
                                         fresh |-> change[r].fresh]]
     /\ UNCHANGED <<form, field, value, uses>>

\* The saves it waits for have ended: the field is removed, and off the forms no save wrote.
RemoveField(r) ==
  LET c == change[r]
  IN /\ At(r, "retire")
     /\ \A f \in c.waits : ~Locked(f, r)
     /\ field' = [field EXCEPT ![c.field] = Removed]
     /\ form' = [f \in Forms |-> IF f \in LiveForms \cap (c.forms \cup c.waits)
                                 THEN [form[f] EXCEPT !.fields = Without(@, c.field)]
                                 ELSE form[f]]
     /\ Wrote(r)
     /\ UNCHANGED <<value, uses>>

\* prepareValues: a value for an active field, of its options when it has any.
CheckFill(r, l, k, o) ==
  /\ k \in LiveFields /\ field[k].active
  /\ field[k].options = {} \/ o \in field[k].options
  /\ Start(r, [step |-> "fill", field |-> k, lead |-> l, value |-> o, fresh |-> TRUE])
  /\ UNCHANGED <<form, field, value, uses>>

\* The value is written with the lead, once no removal holds the field it refers to; the
\* check of an edit or a removal of the field that is under way did not count it.
Fill(r) ==
  LET c == change[r]
      k == c.field
  IN /\ At(r, "fill")
     /\ \A q \in Requests : ~Retiring(q, k)
     /\ value' = [value EXCEPT ![<<c.lead, k>>] =
                    [value |-> c.value,
                     late |-> ~c.fresh \/ \E q \in Requests :
                                At(q, "updateField") \/ At(q, "removeField")]]
     /\ change' = [change EXCEPT ![r] = None]
     /\ UNCHANGED <<form, field, uses>>

\* A lead is saved without the value, or deleted.
Empty(l, k) ==
  /\ value[<<l, k>>] # None
  /\ value' = [value EXCEPT ![<<l, k>>] = None]
  /\ UNCHANGED <<form, field, uses, change>>

Fail(r) ==
  /\ change[r] # None
  /\ change' = [change EXCEPT ![r] = None]
  /\ UNCHANGED <<form, field, value, uses>>

Next ==
  \/ \E r \in Requests :
       \/ \E f \in Forms \cup {None}, keys \in SUBSET Fields, d, a \in BOOLEAN :
            CheckSave(r, f, keys, d, a)
       \/ \E f \in Forms :
            \/ Save(r, f) \/ CheckRemoveForm(r, f)
            \/ \E u \in Members : CheckAssign(r, u, f)
       \/ \E k \in Fields :
            \/ \E opts \in SUBSET Options, a \in BOOLEAN : CheckUpdateField(r, k, opts, a)
            \/ CheckRemoveField(r, k)
            \/ \E l \in Leads, o \in Options : CheckFill(r, l, k, o)
       \/ \E taken \in SUBSET Forms : SweepForms(r, taken)
       \/ SeeDefaults(r) \/ RemoveForm(r) \/ Assign(r) \/ UpdateField(r) \/ RemoveField(r)
       \/ Fill(r) \/ Fail(r)
  \/ \E k \in Fields : \/ \E opts \in SUBSET Options : CreateField(k, opts)
                       \/ \E l \in Leads : Empty(l, k)

Spec == Init /\ [][Next]_vars

-----------------------------------------------------------------------------
(* What forms, fields and values must keep. *)

\* The form every lead drawer renders: exactly one, and an active one.
OneServes == \E f \in Defaults : Defaults = {f} /\ form[f].active

\* Once there is a default, a change that finds the forms as it read them leaves exactly
\* one, and an active one, whatever it edits, removes or makes the default.
DefaultKept ==
  [][\A r \in Requests :
       change[r] # None /\ change'[r] = None /\ change[r].fresh /\ OneServes
       => OneServes']_vars

\* A form arranges no removed field, unless the field went, or was being removed, while the
\* form was saved: such a form could not be saved again.
FormsKnowFields ==
  \A f \in LiveForms : form[f].late \/ form[f].fields \subseteq LiveFields

\* A value of a drop-down is one of its options and of a field that is there, unless the
\* two were saved at the same moment.
ValuesOffered ==
  \A l \in Leads, k \in Fields :
    value[<<l, k>>] # None /\ ~value[<<l, k>>].late =>
      /\ k \in LiveFields
      /\ field[k].options = {} \/ value[<<l, k>>].value \in field[k].options

\* Nobody is assigned a removed form, unless it was removed and assigned at the same moment.
AssignedFormsLive ==
  \A u \in Members : LET f == uses[u].form IN f # None /\ form[f] = Removed => uses[u].late

\* Rows are well-formed, forms name fields that exist, leads' values are among those offered, and
\* the forms members use are there.
FormsSound == TypeOK /\ FormsKnowFields /\ ValuesOffered /\ AssignedFormsLive

\* A default form never becomes no default while nothing else becomes one.
AlwaysADefault == [][Defaults # {} => Defaults' # {}]_vars
==============================================================================
