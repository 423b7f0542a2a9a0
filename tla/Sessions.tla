------------------------------- MODULE Sessions -------------------------------
(***************************************************************************)
(* The sessions of the accounts: a login opens a family of refresh tokens, *)
(* each refresh replaces the presented token by a new one of its family,   *)
(* and a logout, a replayed token, a new password, a deactivation or a     *)
(* removal revokes.  Every await of a handler is a step of its own here:   *)
(* what a request has read or verified can be changed by another request   *)
(* before it writes, and a process can be lost between two steps.          *)
(***************************************************************************)
EXTENDS Naturals, FiniteSets

CONSTANTS Users,
          Passwords,
          Tokens,      \* the rows refresh_tokens may come to hold
          ResetLinks,  \* the rows password_reset_tokens may come to hold
          Requests,    \* the requests in flight at one time
          None

VARIABLES account,  \* the users rows, as far as signing in depends on them
          token,    \* the refresh_tokens rows, None: no row yet
          link,     \* the password_reset_tokens rows, None: no row yet
          call,     \* the requests past their first read, None: not started
          lost      \* history: the accounts whose last revocation a crash cut off

vars == <<account, token, link, call, lost>>

Account == [password: Passwords, active: BOOLEAN, live: BOOLEAN]

\* password and late are history: the password the session was opened with, and
\* whether the request that made the row was overtaken by a revocation.
Row == [user: Users, family: Tokens, revoked: BOOLEAN, expired: BOOLEAN,
        password: Passwords, late: BOOLEAN]

\* before is history: the links of the account there were when the request began.
Link == [user: Users, used: BOOLEAN, expired: BOOLEAN, before: SUBSET ResetLinks]

AccountSteps == {"password", "activate", "deactivate", "remove"}
Steps == {"issue", "account", "rotate", "endFamily", "createLink", "recheck",
          "revokeAll"} \cup AccountSteps

Call == [step: Steps, user: Users, token: Tokens \cup {None},
         password: Passwords \cup {None}, spent: SUBSET ResetLinks,
         before: SUBSET ResetLinks, link: ResetLinks \cup {None}, late: BOOLEAN]

ASSUME NoneIsNoRow ==
  None \notin Passwords \cup Tokens \cup ResetLinks \cup Row \cup Link \cup Call

\* The rows hold what their columns can hold, and a request what it has read.
TypeOK ==
  /\ account \in [Users -> Account]
  /\ token \in [Tokens -> Row \cup {None}]
  /\ link \in [ResetLinks -> Link \cup {None}]
  /\ call \in [Requests -> Call \cup {None}]
  /\ lost \in SUBSET Users

Init ==
  /\ account \in [Users -> [password: Passwords, active: {TRUE}, live: {TRUE}]]
  /\ token = [t \in Tokens |-> None]
  /\ link = [l \in ResetLinks |-> None]
  /\ call = [r \in Requests |-> None]
  /\ lost = {}

-----------------------------------------------------------------------------
Issued == {t \in Tokens : token[t] # None}
Family(f) == {t \in Issued : token[t].family = f}
OfUser(u) == {t \in Issued : token[t].user = u}
Live(S) == {t \in S : ~token[t].revoked}
At(r, step) == call[r] # None /\ call[r].step = step
Usable(u) == account[u].live /\ account[u].active

Started(step, u) ==
  [step |-> step, user |-> u, token |-> None, password |-> None, spent |-> {},
   before |-> {}, link |-> None, late |-> FALSE]

Goto(r, step) == call' = [call EXCEPT ![r].step = step]
Done(r) == call' = [call EXCEPT ![r] = None]

\* UPDATE ... SET revoked_at WHERE revoked_at IS NULL, over the rows S.
Revoked(S) == [t \in Tokens |-> IF t \in S THEN [token[t] EXCEPT !.revoked = TRUE]
                                           ELSE token[t]]

\* r ends, and the requests Q are past their reads when what they read is revoked.
Overtaking(r, Q) ==
  [q \in Requests |-> IF q = r THEN None
                      ELSE IF q \in Q THEN [call[q] EXCEPT !.late = TRUE]
                      ELSE call[q]]

-----------------------------------------------------------------------------
(* Signing in, refreshing and signing out. *)

\* The account is read and the password compared; the session is written afterwards.
Login(r, u) ==
  /\ call[r] = None
  /\ Usable(u)
  /\ call' = [call EXCEPT ![r] =
                [Started("issue", u) EXCEPT !.password = account[u].password]]
  /\ UNCHANGED <<account, token, link, lost>>

IssueFamily(r, t) ==
  /\ At(r, "issue")
  /\ token[t] = None
  /\ token' = [token EXCEPT ![t] =
                 [user |-> call[r].user, family |-> t, revoked |-> FALSE,
                  expired |-> FALSE, password |-> call[r].password,
                  late |-> call[r].late]]
  /\ Done(r)
  /\ UNCHANGED <<account, link, lost>>

\* Mutant: an expired token only is refused.
AcceptsRevoked(t) == "account"
\* Mutant: a revoked token is refused as an expired one is.
OnlyRefuses(t) == IF token[t].revoked THEN "refused" ELSE "account"

\* What verify makes of a presented row that has not expired.
Verdict(t) == IF token[t].revoked THEN "endFamily" ELSE "account"

\* A refresh presents a token.  An unknown or expired one is refused at once; a
\* revoked one ends its family, whether or not it has expired.
Present(r, t) ==
  /\ call[r] = None
  /\ t \in Issued
  /\ token[t].expired => token[t].revoked
  /\ call' = [call EXCEPT ![r] =
                [Started(Verdict(t), token[t].user) EXCEPT !.token = t]]
  /\ UNCHANGED <<account, token, link, lost>>

\* A token whose account is gone or disabled ends its family too.
RecheckAccount(r) ==
  /\ At(r, "account")
  /\ Goto(r, IF Usable(call[r].user) THEN "rotate" ELSE "endFamily")
  /\ UNCHANGED <<account, token, link, lost>>

\* Mutant: the presented row is left as it is.
KeepsPresented(t) == {}

Replaced(t) == {t}

\* One transaction: the replacement is created and the presented row revoked,
\* whatever has become of that row since it was verified.
Rotate(r, t) ==
  LET old == call[r].token
  IN /\ At(r, "rotate")
     /\ token[t] = None
     /\ token' = [Revoked(Replaced(old)) EXCEPT ![t] =
                    [token[old] EXCEPT !.revoked = FALSE, !.expired = FALSE,
                                       !.late = @ \/ call[r].late]]
     /\ Done(r)
     /\ UNCHANGED <<account, link, lost>>

\* A logout finds the row of the presented token, of whatever age.
Logout(r, t) ==
  /\ call[r] = None
  /\ t \in Issued
  /\ call' = [call EXCEPT ![r] =
                [Started("endFamily", token[t].user) EXCEPT !.token = t]]
  /\ UNCHANGED <<account, token, link, lost>>

RevokeFamily(r) ==
  LET S == Family(token[call[r].token].family)
  IN /\ At(r, "endFamily")
     /\ token' = Revoked(S)
     /\ call' = Overtaking(r, {q \in Requests : call[q] # None /\ call[q].token \in S})
     /\ UNCHANGED <<account, link, lost>>

-----------------------------------------------------------------------------
(* Password recovery. *)

LinksOf(u) == {l \in ResetLinks : link[l] # None /\ link[l].user = u}
UnusedLinks(u) == {l \in LinksOf(u) : ~link[l].used}

\* The transaction's first statement marks the unused links it can see, and holds
\* those rows until the transaction ends.
RequestReset(r, u) ==
  /\ call[r] = None
  /\ Usable(u)
  /\ call' = [call EXCEPT ![r] =
                [Started("createLink", u) EXCEPT !.spent = UnusedLinks(u), !.before = LinksOf(u)]]
  /\ UNCHANGED <<account, token, link, lost>>

\* Mutant: earlier links are left usable.
NoneSpent(r) == {}

SpentBy(r) == call[r].spent

CreateLink(r, l) ==
  /\ At(r, "createLink")
  /\ link[l] = None
  /\ link' = [k \in ResetLinks |->
                IF k = l THEN [user |-> call[r].user, used |-> FALSE, expired |-> FALSE,
                               before |-> call[r].before]
                ELSE IF k \in SpentBy(r) THEN [link[k] EXCEPT !.used = TRUE]
                ELSE link[k]]
  /\ Done(r)
  /\ UNCHANGED <<account, token, lost>>

Held(l) == \E r \in Requests : At(r, "createLink") /\ l \in call[r].spent

\* Mutant: the row is found and then marked, without the condition on used_at.
FoundLink(l) == link[l] # None

Spendable(l) == link[l] # None /\ ~link[l].used /\ ~link[l].expired

\* The guarded update that spends the link.
ConsumeLink(r, l) ==
  /\ call[r] = None
  /\ Spendable(l)
  /\ ~Held(l)
  /\ link' = [link EXCEPT ![l].used = TRUE]
  /\ call' = [call EXCEPT ![r] = [Started("recheck", link[l].user) EXCEPT !.link = l]]
  /\ UNCHANGED <<account, token, lost>>

\* The account is read again; a link that was spent for a disabled account stays spent.
RecheckReset(r) ==
  /\ At(r, "recheck")
  /\ IF Usable(call[r].user) THEN Goto(r, "password") ELSE Done(r)
  /\ UNCHANGED <<account, token, link, lost>>

-----------------------------------------------------------------------------
(* Changes of an account by another: password, deactivation, removal. *)

\* findLive, before the change's transaction.
ChangeAccount(r, u, step) ==
  /\ call[r] = None
  /\ account[u].live
  /\ step \in AccountSteps
  /\ call' = [call EXCEPT ![r] = Started(step, u)]
  /\ UNCHANGED <<account, token, link, lost>>

\* Mutant: the handler answers after the commit.
NoRevocation(r) == Done(r)

ThenRevoke(r) == Goto(r, "revokeAll")

\* A reset link and a colleague both set a new password: by id alone.
SetPassword(r, p) ==
  /\ At(r, "password")
  /\ account' = [account EXCEPT ![call[r].user].password = p]
  /\ ThenRevoke(r)
  /\ UNCHANGED <<token, link, lost>>

Deactivate(r) ==
  /\ At(r, "deactivate")
  /\ account' = [account EXCEPT ![call[r].user].active = FALSE]
  /\ ThenRevoke(r)
  /\ UNCHANGED <<token, link, lost>>

Activate(r) ==
  /\ At(r, "activate")
  /\ account' = [account EXCEPT ![call[r].user].active = TRUE]
  /\ Done(r)
  /\ UNCHANGED <<token, link, lost>>

\* Conditional on the row being live still: the second of two removals is a 404.
RemoveUser(r) ==
  /\ At(r, "remove")
  /\ IF account[call[r].user].live
     THEN /\ account' = [account EXCEPT ![call[r].user].live = FALSE]
          /\ ThenRevoke(r)
     ELSE UNCHANGED account /\ Done(r)
  /\ UNCHANGED <<token, link, lost>>

\* After the commit, a statement of its own.
RevokeAllForUser(r) ==
  LET u == call[r].user
  IN /\ At(r, "revokeAll")
     /\ token' = Revoked(OfUser(u))
     /\ call' = Overtaking(r, {q \in Requests : call[q] # None /\ call[q].user = u})
     /\ lost' = lost \ {u}
     /\ UNCHANGED <<account, link>>

-----------------------------------------------------------------------------
(* Time and failure. *)

ExpireToken(t) ==
  /\ t \in Issued /\ ~token[t].expired
  /\ token' = [token EXCEPT ![t].expired = TRUE]
  /\ UNCHANGED <<account, link, call, lost>>

ExpireLink(l) ==
  /\ link[l] # None /\ ~link[l].expired
  /\ link' = [link EXCEPT ![l].expired = TRUE]
  /\ UNCHANGED <<account, token, call, lost>>

\* The process or its connection is lost: a transaction rolls back, and what a
\* handler had still to do is never done.
Crash(r) ==
  /\ call[r] # None
  /\ lost' = IF At(r, "revokeAll") THEN lost \cup {call[r].user} ELSE lost
  /\ Done(r)
  /\ UNCHANGED <<account, token, link>>

Next ==
  \/ \E r \in Requests :
       \/ \E u \in Users : \/ Login(r, u)
                           \/ RequestReset(r, u)
                           \/ \E step \in AccountSteps : ChangeAccount(r, u, step)
       \/ \E t \in Tokens : IssueFamily(r, t) \/ Present(r, t) \/ Rotate(r, t) \/ Logout(r, t)
       \/ \E l \in ResetLinks : CreateLink(r, l) \/ ConsumeLink(r, l)
       \/ \E p \in Passwords : SetPassword(r, p)
       \/ RecheckAccount(r) \/ RevokeFamily(r) \/ RecheckReset(r)
       \/ Deactivate(r) \/ Activate(r) \/ RemoveUser(r) \/ RevokeAllForUser(r)
       \/ Crash(r)
  \/ \E t \in Tokens : ExpireToken(t)
  \/ \E l \in ResetLinks : ExpireLink(l)

Spec == Init /\ [][Next]_vars

-----------------------------------------------------------------------------
(* What the sessions must keep. *)

\* The account as it stands would let a session of this password in.
Stands(u, p) == Usable(u) /\ account[u].password = p

Pending(u) == \E r \in Requests : At(r, "revokeAll") /\ call[r].user = u

\* A new password, a deactivation and a removal end the account's sessions: a token
\* that can still refresh belongs to the account as it stands, unless the revocation
\* is still to run, was lost with its process, or overtook the sign-in or refresh
\* that then wrote this token.
ChangeEndsSessions ==
  \A t \in Live(Issued) :
    LET u == token[t].user
    IN Stands(u, token[t].password) \/ token[t].late \/ Pending(u) \/ u \in lost

Refreshing(r, S) == (At(r, "account") \/ At(r, "rotate")) /\ call[r].token \in S

\* A session that has ended - signed out, replayed or revoked - stays ended: no token
\* of its family can refresh again, unless a refresh that had verified one of them
\* before it ended is still to write its replacement.
EndedSessionsStay ==
  [][\A f \in Tokens :
       /\ Family(f) # {} /\ Live(Family(f)) = {}
       /\ \A r \in Requests : Refreshing(r, Family(f)) => ~call[r].late
       => Live(Family(f))' = {}]_vars

\* A session has one current token.  A second one appears only when a refresh was
\* verified against a token that another request has replaced or revoked since.
OneCurrentToken ==
  [][\A f \in Tokens :
       /\ Cardinality(Live(Family(f))) <= 1
       /\ \A r \in Requests : ~Refreshing(r, Family(f) \ Live(Family(f)))
       => Cardinality(Live(Family(f)))' <= 1]_vars

\* Two links of an account work at once only when they were asked for at the same moment:
\* neither had been issued when the other's request began.
OneLiveLink ==
  \A k, l \in ResetLinks :
    /\ k # l /\ link[k] # None /\ link[l] # None /\ link[k].user = link[l].user
    /\ ~link[k].used /\ ~link[l].used
    => k \notin link[l].before

\* A reset link sets one password: no two requests hold the same spent link.
LinkSpentOnce ==
  \A r, q \in Requests :
    r # q /\ call[r] # None /\ call[q] # None /\ call[r].link # None =>
      call[r].link # call[q].link

\* A reset link sets one password, and ends those issued before it was asked for.
LinksSpent == LinkSpentOnce /\ OneLiveLink
==============================================================================
