------------------------------ MODULE Documents -------------------------------
(***************************************************************************)
(* The uploaded documents and the profile pictures: a row in the database  *)
(* and an object in the file storage, which no transaction spans.  An      *)
(* upload stores the object first and takes it back if the row is refused; *)
(* a deletion removes the object first and the row after; a new picture    *)
(* replaces the key and then removes the picture it read.  Each of these   *)
(* can fail or be lost between its steps.                                  *)
(***************************************************************************)
EXTENDS Naturals, FiniteSets

CONSTANTS Users,
          Admins,     \* they edit and delete every document
          Documents,  \* the rows documents may come to hold
          Keys,       \* the keys of the objects that may come to be stored
          Requests,
          None

VARIABLES document,  \* the documents rows with their access grants, None: no row
          picture,   \* users.avatar_key
          object,    \* the storage: an object is free, stored or removed
          request,   \* the requests past their first step
          deletions, \* the DELETED events recorded of each document
          stray      \* history: the objects left behind by a failed or overtaken request

vars == <<document, picture, object, request, deletions, stray>>

Document == [key: Keys, owner: Users, access: SUBSET Users]

Request == [step: {"create", "undo", "update", "erase", "delete", "put", "setPicture",
                   "drop"},
            user: Users, key: Keys \cup {None}, old: Keys \cup {None},
            access: SUBSET Users, documents: SUBSET Documents, keys: SUBSET Keys]

NoneIsNoRow == None \notin Keys \cup Document \cup Request /\ Admins \subseteq Users

\* Rows and storage hold what they can hold, and no event is recorded of a live row.
TypeOK ==
  /\ document \in [Documents -> Document \cup {None}]
  /\ picture \in [Users -> Keys \cup {None}]
  /\ object \in [Keys -> {"free", "stored", "removed"}]
  /\ request \in [Requests -> Request \cup {None}]
  /\ deletions \in [Documents -> {0, 1}]
  /\ stray \in SUBSET Keys

Init ==
  /\ document = [d \in Documents |-> None]
  /\ picture = [u \in Users |-> None]
  /\ object = [k \in Keys |-> "free"]
  /\ request = [r \in Requests |-> None]
  /\ deletions = [d \in Documents |-> 0]
  /\ stray = {}

-----------------------------------------------------------------------------
Rows == {d \in Documents : document[d] # None}
At(r, step) == request[r] # None /\ request[r].step = step
Goto(r, step) == request' = [request EXCEPT ![r].step = step]
Done(r) == request' = [request EXCEPT ![r] = None]

Started(step, u) ==
  [step |-> step, user |-> u, key |-> None, old |-> None, access |-> {},
   documents |-> {}, keys |-> {}]

\* documentScopeWhere and documentDeletableWhere.
MaySee(u, d) == u \in Admins \/ document[d].owner = u \/ u \in document[d].access
MayEdit(u, d) == u \in Admins \/ document[d].owner = u

Store(k) == object[k] = "free" /\ object' = [object EXCEPT ![k] = "stored"]

\* Removing an object that is gone already succeeds.
Erased(S) == [k \in Keys |-> IF k \in S THEN "removed" ELSE object[k]]

-----------------------------------------------------------------------------
(* Documents. *)

Upload(r, u, k, A) ==
  /\ request[r] = None
  /\ Store(k)
  /\ request' = [request EXCEPT ![r] = [Started("create", u) EXCEPT !.key = k, !.access = A]]
  /\ UNCHANGED <<document, picture, deletions, stray>>

Create(r, d) ==
  /\ At(r, "create")
  /\ document[d] = None /\ deletions[d] = 0
  /\ document' = [document EXCEPT ![d] = [key |-> request[r].key, owner |-> request[r].user,
                                          access |-> request[r].access]]
  /\ Done(r)
  /\ UNCHANGED <<picture, object, deletions, stray>>

\* Mutant: the upload answers with the error and leaves the object.
NotUndone(r) == Done(r)

ThenUndo(r) == Goto(r, "undo")

\* The transaction fails: a selected user does not exist, or the database does not answer.
CreateFails(r) ==
  /\ At(r, "create")
  /\ ThenUndo(r)
  /\ UNCHANGED <<document, picture, object, deletions, stray>>

Undo(r) ==
  /\ At(r, "undo")
  /\ object' = Erased({request[r].key})
  /\ Done(r)
  /\ UNCHANGED <<document, picture, deletions, stray>>

\* One out of sight is not found, one in sight is refused unless it may be edited.
CheckUpdate(r, u, d, A) ==
  /\ request[r] = None
  /\ d \in Rows /\ MaySee(u, d) /\ MayEdit(u, d)
  /\ request' = [request EXCEPT ![r] =
                   [Started("update", u) EXCEPT !.documents = {d}, !.access = A]]
  /\ UNCHANGED <<document, picture, object, deletions, stray>>

\* A row that was deleted meanwhile makes the request fail.
Update(r) ==
  /\ At(r, "update")
  /\ document' = [d \in Documents |->
                    IF d \in request[r].documents \cap Rows
                    THEN [document[d] EXCEPT !.access = request[r].access]
                    ELSE document[d]]
  /\ Done(r)
  /\ UNCHANGED <<picture, object, deletions, stray>>

\* One document or a selection of them: those of it the user may delete.
CheckDelete(r, u, D) ==
  LET S == {d \in D \cap Rows : MayEdit(u, d)}
  IN /\ request[r] = None
     /\ S # {}
     /\ request' = [request EXCEPT ![r] =
                      [Started("erase", u) EXCEPT
                         !.documents = S, !.keys = {document[d].key : d \in S}]]
     /\ UNCHANGED <<document, picture, object, deletions, stray>>

\* Mutant: the rows are deleted whether or not their objects could be removed.
DeletesAnyway(r, S) == Goto(r, "delete")

ThenDelete(r, S) == IF S = request[r].keys THEN Goto(r, "delete") ELSE Done(r)

\* The objects are removed at once and independently; if one cannot be, the others are
\* and the request ends there.
Erase(r, S) ==
  /\ At(r, "erase")
  /\ S \subseteq request[r].keys
  /\ object' = Erased(S)
  /\ ThenDelete(r, S)
  /\ UNCHANGED <<document, picture, deletions, stray>>

\* Mutant: every row of the request is recorded, whether or not it is still there.
AsRequested(r) == request[r].documents

StillThere(r) == request[r].documents \cap Rows

\* The rows are locked and read again: the ones still there are deleted and recorded.
Delete(r) ==
  /\ At(r, "delete")
  /\ document' = [d \in Documents |-> IF d \in StillThere(r) THEN None ELSE document[d]]
  /\ deletions' = [d \in Documents |->
                     IF d \in StillThere(r) THEN deletions[d] + 1 ELSE deletions[d]]
  /\ Done(r)
  /\ UNCHANGED <<picture, object, stray>>

-----------------------------------------------------------------------------
(* Profile pictures. *)

ReadPicture(r, u) ==
  /\ request[r] = None
  /\ request' = [request EXCEPT ![r] = [Started("put", u) EXCEPT !.old = picture[u]]]
  /\ UNCHANGED <<document, picture, object, deletions, stray>>

PutPicture(r, k) ==
  /\ At(r, "put")
  /\ Store(k)
  /\ request' = [request EXCEPT ![r].step = "setPicture", ![r].key = k]
  /\ UNCHANGED <<document, picture, deletions, stray>>

\* The picture of another upload that was set since this one's read is not removed by
\* either of them.
SetPicture(r) ==
  LET u == request[r].user
  IN /\ At(r, "setPicture")
     /\ picture' = [picture EXCEPT ![u] = request[r].key]
     /\ IF request[r].old = None THEN Done(r) ELSE Goto(r, "drop")
     /\ stray' = IF picture[u] # request[r].old /\ picture[u] # None
                 THEN stray \cup {picture[u]} ELSE stray
     /\ UNCHANGED <<document, object, deletions>>

\* Mutant: the picture the row holds by now is removed.
HeldNow(r) == {picture[request[r].user]} \ {None}

Replaced(r) == {request[r].old}

DropPicture(r) ==
  /\ At(r, "drop")
  /\ object' = Erased(Replaced(r))
  /\ Done(r)
  /\ UNCHANGED <<document, picture, deletions, stray>>

-----------------------------------------------------------------------------
\* The object that r is still to give a row or to remove.
Owed(r) == {IF At(r, "drop") THEN request[r].old ELSE request[r].key} \ {None}

\* A statement or the storage fails, or the process is lost: nothing takes back what the
\* request has done, and what it had still to do is not done.
Fail(r) ==
  /\ request[r] # None
  /\ stray' = stray \cup Owed(r)
  /\ Done(r)
  /\ UNCHANGED <<document, picture, object, deletions>>

Next ==
  \E r \in Requests :
    \/ \E u \in Users :
         \/ \E k \in Keys, A \in SUBSET Users : Upload(r, u, k, A)
         \/ \E d \in Documents, A \in SUBSET Users : CheckUpdate(r, u, d, A)
         \/ \E D \in SUBSET Documents : CheckDelete(r, u, D)
         \/ ReadPicture(r, u)
    \/ \E d \in Documents : Create(r, d)
    \/ \E k \in Keys : PutPicture(r, k)
    \/ \E S \in SUBSET Keys : Erase(r, S)
    \/ CreateFails(r) \/ Undo(r) \/ Update(r) \/ Delete(r)
    \/ SetPicture(r) \/ DropPicture(r) \/ Fail(r)

Spec == Init /\ [][Next]_vars

-----------------------------------------------------------------------------
(* What documents and storage must keep. *)

Stored(k) == object[k] = "stored"

\* A picture that is shown can be loaded, whatever uploads ran into each other.
PictureLoads == \A u \in Users : picture[u] # None => Stored(picture[u])

InUse(k) ==
  \/ \E d \in Rows : document[d].key = k
  \/ \E u \in Users : picture[u] = k
  \/ \E r \in Requests : request[r] # None /\ k \in {request[r].key, request[r].old}

\* No bytes are left behind: a stored object belongs to a row, a picture or a request
\* under way, unless the request that should have removed it failed halfway or another
\* picture was set between its read and its write.
NoStrayObject == \A k \in Keys : Stored(k) => InUse(k) \/ k \in stray

\* Rows and storage are well-formed, every picture that is shown has its bytes, and no bytes
\* are left behind by a request that succeeded or undid itself.
DocumentsSound == TypeOK /\ PictureLoads /\ NoStrayObject

\* A deletion can be repeated until the bytes are gone: a row that is deleted has no
\* stored object any more.
GoneWithBytes ==
  [][\A d \in Rows : document'[d] = None => ~Stored(document[d].key)]_vars
==============================================================================
