----------------------------- MODULE AccessProofs -----------------------------
(***************************************************************************)
(* Who is let in and what they are shown, for every number of accounts,    *)
(* tokens, links and requests, and every table of leads, staff, set of     *)
(* queries and conditions, catalogue of stages and table of routes:        *)
(*   - the sessions (Sessions): a change of an account ends its sessions,  *)
(*     an ended session stays ended, and a reset link works once;          *)
(*   - the requests and answers (Reads): a request is served within what   *)
(*     its account allowed, and an answer is of leads its reader may see;  *)
(*   - a condition of the filter builder and its denial tile the leads;    *)
(*   - an export is the list asked for;                                    *)
(*   - the funnel counts in a stage the leads that have been in it.        *)
(* Nothing of the sessions and the reads is shared but the accounts they   *)
(* are both of: the two specifications stand side by side here.            *)
(***************************************************************************)
EXTENDS Sessions, Reads, FiniteSetTheorems, FunctionTheorems, TLAPS

-----------------------------------------------------------------------------
(* Sessions. *)

\* A request that starts has the fields of a call, whatever it has read.
LEMMA StartedTyped ==
  ASSUME NEW s \in Steps, NEW u \in Users, NEW t \in Tokens \cup {None},
         NEW p \in Passwords \cup {None}, NEW S \in SUBSET ResetLinks,
         NEW B \in SUBSET ResetLinks, NEW l \in ResetLinks \cup {None}
  PROVE  /\ Started(s, u) \in Call
         /\ [Started(s, u) EXCEPT !.token = t] \in Call
         /\ [Started(s, u) EXCEPT !.password = p] \in Call
         /\ [Started(s, u) EXCEPT !.spent = S, !.before = B] \in Call
         /\ [Started(s, u) EXCEPT !.link = l] \in Call
BY DEF Started, Call

\* The calls in flight keep their type when r starts, moves on or ends.
LEMMA CallTyped ==
  ASSUME TypeOK, NEW r \in Requests
  PROVE  /\ Done(r) => call' \in [Requests -> Call \cup {None}]
         /\ \A c \in Call : call' = [call EXCEPT ![r] = c] => call' \in [Requests -> Call \cup {None}]
         /\ \A s \in Steps : call[r] # None /\ Goto(r, s) => call' \in [Requests -> Call \cup {None}]
         /\ \A Q \in SUBSET Requests :
              (\A q \in Q : call[q] # None) => Overtaking(r, Q) \in [Requests -> Call \cup {None}]
<1>1. call \in [Requests -> Call \cup {None}]
  BY DEF TypeOK
<1>2. Done(r) => call' \in [Requests -> Call \cup {None}]
  BY <1>1 DEF Done
<1>3. \A c \in Call : call' = [call EXCEPT ![r] = c] => call' \in [Requests -> Call \cup {None}]
  BY <1>1
<1>4. \A s \in Steps : call[r] # None /\ Goto(r, s) => call' \in [Requests -> Call \cup {None}]
  <2>1. \A s \in Steps : call[r] # None => [call[r] EXCEPT !.step = s] \in Call
    BY <1>1 DEF Call
  <2> QED BY <1>1, <2>1 DEF Goto
<1>5. \A Q \in SUBSET Requests :
        (\A q \in Q : call[q] # None) => Overtaking(r, Q) \in [Requests -> Call \cup {None}]
  <2>1. \A q \in Requests : call[q] # None => [call[q] EXCEPT !.late = TRUE] \in Call
    BY <1>1 DEF Call
  <2> QED BY <1>1, <2>1 DEF Overtaking
<1> QED BY <1>2, <1>3, <1>4, <1>5

\* Revoking changes no other column of a row.
LEMMA RevokedTyped ==
  ASSUME TypeOK, NEW S \in SUBSET Issued
  PROVE  Revoked(S) \in [Tokens -> Row \cup {None}]
BY DEF TypeOK, Revoked, Issued, Row

\* What a request at one of its steps holds: a refresh past its verification and a
\* family's revocation hold a row that exists, a sign-in the password it compared.
Filled(r) ==
  /\ At(r, "account") \/ At(r, "rotate") \/ At(r, "endFamily") =>
       call[r].token \in Issued /\ token[call[r].token].user = call[r].user
  /\ At(r, "issue") => call[r].password \in Passwords
  /\ call[r] # None => \A l \in call[r].spent : link[l] # None

CallsFilled == \A r \in Requests : Filled(r)

-----------------------------------------------------------------------------
\* Every step keeps the types.
LEMMA TypeStep ==
  TypeOK /\ CallsFilled /\ [Next]_vars => TypeOK'
<1> SUFFICES ASSUME TypeOK, CallsFilled, [Next]_vars PROVE TypeOK'
  OBVIOUS
<1>1. ASSUME NEW r \in Requests, NEW u \in Users, Login(r, u)
      PROVE  TypeOK'
  <2>1. [Started("issue", u) EXCEPT !.password = account[u].password] \in Call
    BY StartedTyped DEF TypeOK, Account, Steps
  <2> QED BY <1>1, <2>1, CallTyped DEF Login, TypeOK
<1>2. ASSUME NEW r \in Requests, NEW u \in Users, RequestReset(r, u)
      PROVE  TypeOK'
  <2>1. [Started("createLink", u) EXCEPT !.spent = UnusedLinks(u), !.before = LinksOf(u)] \in Call
    <3>1. UnusedLinks(u) \in SUBSET ResetLinks /\ LinksOf(u) \in SUBSET ResetLinks
      BY DEF UnusedLinks, LinksOf
    <3> QED BY <3>1, StartedTyped DEF Steps
  <2> QED BY <1>2, <2>1, CallTyped DEF RequestReset, TypeOK
<1>3. ASSUME NEW r \in Requests, NEW u \in Users, NEW s \in AccountSteps, ChangeAccount(r, u, s)
      PROVE  TypeOK'
  <2>1. Started(s, u) \in Call
    BY StartedTyped DEF Steps
  <2> QED BY <1>3, <2>1, CallTyped DEF ChangeAccount, TypeOK
<1>4. ASSUME NEW r \in Requests, NEW t \in Tokens, IssueFamily(r, t)
      PROVE  TypeOK'
  <2>1. call[r] \in Call /\ call[r].password \in Passwords
    BY <1>4 DEF IssueFamily, TypeOK, CallsFilled, Filled, At
  <2>2. [user |-> call[r].user, family |-> t, revoked |-> FALSE, expired |-> FALSE,
         password |-> call[r].password, late |-> call[r].late] \in Row
    BY <2>1 DEF Call, Row
  <2> QED BY <1>4, <2>2, CallTyped DEF IssueFamily, TypeOK
<1>5. ASSUME NEW r \in Requests, NEW t \in Tokens, Present(r, t)
      PROVE  TypeOK'
  <2>1. token[t] \in Row /\ Verdict(t) \in Steps
    BY <1>5 DEF Present, TypeOK, Issued, Verdict, Steps
  <2>2. [Started(Verdict(t), token[t].user) EXCEPT !.token = t] \in Call
    BY <2>1, StartedTyped DEF Row
  <2> QED BY <1>5, <2>2, CallTyped DEF Present, TypeOK
<1>6. ASSUME NEW r \in Requests, NEW t \in Tokens, Rotate(r, t)
      PROVE  TypeOK'
  <2> DEFINE old == call[r].token
  <2>1. call[r] \in Call /\ old \in Issued /\ token[old] \in Row
    BY <1>6 DEF Rotate, TypeOK, CallsFilled, Filled, At, Issued
  <2>2. [token[old] EXCEPT !.revoked = FALSE, !.expired = FALSE, !.late = @ \/ call[r].late] \in Row
    <3>1. (token[old].late \/ call[r].late) \in BOOLEAN
      BY <2>1 DEF Row, Call
    <3> QED BY <2>1, <3>1 DEF Row
  <2>3. Revoked({old}) \in [Tokens -> Row \cup {None}]
    BY <2>1, RevokedTyped
  <2> QED BY <1>6, <2>2, <2>3, CallTyped DEF Rotate, Replaced, TypeOK
<1>7. ASSUME NEW r \in Requests, NEW t \in Tokens, Logout(r, t)
      PROVE  TypeOK'
  <2>1. token[t] \in Row
    BY <1>7 DEF Logout, TypeOK, Issued
  <2>2. [Started("endFamily", token[t].user) EXCEPT !.token = t] \in Call
    BY <2>1, StartedTyped DEF Row, Steps
  <2> QED BY <1>7, <2>2, CallTyped DEF Logout, TypeOK
<1>8. ASSUME NEW r \in Requests, NEW l \in ResetLinks, CreateLink(r, l)
      PROVE  TypeOK'
  <2>1. call[r] \in Call /\ \A k \in call[r].spent : link[k] # None
    BY <1>8 DEF CreateLink, TypeOK, CallsFilled, Filled, At
  <2>2. link' \in [ResetLinks -> Link \cup {None}]
    <3>1. [user |-> call[r].user, used |-> FALSE, expired |-> FALSE, before |-> call[r].before] \in Link
      BY <2>1 DEF Call, Link
    <3>2. \A k \in call[r].spent : [link[k] EXCEPT !.used = TRUE] \in Link
      <4>1. link \in [ResetLinks -> Link \cup {None}]
        BY DEF TypeOK
      <4>2. call[r].spent \subseteq ResetLinks
        BY <2>1 DEF Call
      <4>3. \A k \in call[r].spent : link[k] \in Link
        BY <2>1, <4>1, <4>2
      <4> QED BY <4>3 DEF Link
    <3>3. \A k \in ResetLinks : link[k] \in Link \cup {None}
      BY DEF TypeOK
    <3>4. \A k \in ResetLinks : link'[k] \in Link \cup {None}
      BY <1>8, <3>1, <3>2, <3>3 DEF CreateLink, SpentBy
    <3> QED BY <1>8, <3>4 DEF CreateLink
  <2> QED BY <1>8, <2>2, CallTyped DEF CreateLink, TypeOK
<1>9. ASSUME NEW r \in Requests, NEW l \in ResetLinks, ConsumeLink(r, l)
      PROVE  TypeOK'
  <2>1. link[l] \in Link
    BY <1>9 DEF ConsumeLink, Spendable, TypeOK
  <2>2. [Started("recheck", link[l].user) EXCEPT !.link = l] \in Call
    BY <2>1, StartedTyped DEF Link, Steps
  <2>3. link' \in [ResetLinks -> Link \cup {None}]
    BY <1>9, <2>1 DEF ConsumeLink, TypeOK, Link
  <2> QED BY <1>9, <2>2, <2>3, CallTyped DEF ConsumeLink, TypeOK
<1>10. ASSUME NEW r \in Requests, NEW p \in Passwords, SetPassword(r, p)
      PROVE  TypeOK'
  <2>1. account' \in [Users -> Account]
    BY <1>10 DEF SetPassword, TypeOK, Account
  <2> QED BY <1>10, <2>1, CallTyped DEF SetPassword, ThenRevoke, TypeOK, At, Steps
<1>11. ASSUME NEW r \in Requests, RecheckAccount(r)
      PROVE  TypeOK'
  <2> QED BY <1>11, CallTyped DEF RecheckAccount, TypeOK, At, Steps
<1>12. ASSUME NEW r \in Requests, RevokeFamily(r)
      PROVE  TypeOK'
  <2> DEFINE S == Family(token[call[r].token].family)
  <2>1. token' \in [Tokens -> Row \cup {None}]
    BY <1>12, RevokedTyped DEF RevokeFamily, Family
  <2>2. call' \in [Requests -> Call \cup {None}]
    BY <1>12, CallTyped DEF RevokeFamily
  <2> QED BY <1>12, <2>1, <2>2 DEF RevokeFamily, TypeOK
<1>13. ASSUME NEW r \in Requests, RecheckReset(r)
      PROVE  TypeOK'
  <2> QED BY <1>13, CallTyped DEF RecheckReset, TypeOK, At, Steps, AccountSteps
<1>14. ASSUME NEW r \in Requests, Deactivate(r)
      PROVE  TypeOK'
  <2>1. account' \in [Users -> Account]
    BY <1>14 DEF Deactivate, TypeOK, Account
  <2> QED BY <1>14, <2>1, CallTyped DEF Deactivate, ThenRevoke, TypeOK, At, Steps
<1>15. ASSUME NEW r \in Requests, Activate(r)
      PROVE  TypeOK'
  <2>1. account' \in [Users -> Account]
    BY <1>15 DEF Activate, TypeOK, Account
  <2> QED BY <1>15, <2>1, CallTyped DEF Activate, TypeOK
<1>16. ASSUME NEW r \in Requests, RemoveUser(r)
      PROVE  TypeOK'
  <2>1. account' \in [Users -> Account]
    <3>1. [account EXCEPT ![call[r].user].live = FALSE] \in [Users -> Account]
      BY DEF TypeOK, Account
    <3> QED BY <1>16, <3>1 DEF RemoveUser, TypeOK
  <2>2. CASE account[call[r].user].live
    <3>1. call' \in [Requests -> Call \cup {None}]
      BY <1>16, <2>2, CallTyped DEF RemoveUser, ThenRevoke, At, Steps
    <3> QED BY <1>16, <2>1, <3>1 DEF RemoveUser, TypeOK
  <2>3. CASE ~account[call[r].user].live
    <3>1. call' \in [Requests -> Call \cup {None}]
      BY <1>16, <2>3, CallTyped DEF RemoveUser
    <3> QED BY <1>16, <2>1, <3>1 DEF RemoveUser, TypeOK
  <2> QED BY <2>2, <2>3
<1>17. ASSUME NEW r \in Requests, RevokeAllForUser(r)
      PROVE  TypeOK'
  <2>1. token' \in [Tokens -> Row \cup {None}]
    BY <1>17, RevokedTyped DEF RevokeAllForUser, OfUser
  <2>2. call' \in [Requests -> Call \cup {None}]
    BY <1>17, CallTyped DEF RevokeAllForUser
  <2> QED BY <1>17, <2>1, <2>2 DEF RevokeAllForUser, TypeOK
<1>18. ASSUME NEW r \in Requests, Crash(r)
      PROVE  TypeOK'
  <2>1. lost' \in SUBSET Users
    BY <1>18 DEF Crash, TypeOK, Call
  <2> QED BY <1>18, <2>1, CallTyped DEF Crash, TypeOK
<1>19. ASSUME NEW t \in Tokens, ExpireToken(t)
      PROVE  TypeOK'
  <2> QED BY <1>19 DEF ExpireToken, TypeOK, Issued, Row
<1>20. ASSUME NEW l \in ResetLinks, ExpireLink(l)
      PROVE  TypeOK'
  <2> QED BY <1>20 DEF ExpireLink, TypeOK, Link
<1>21. CASE UNCHANGED vars
  BY <1>21 DEF vars, TypeOK
<1> QED
  BY <1>1, <1>2, <1>3, <1>4, <1>5, <1>6, <1>7, <1>8, <1>9, <1>10, <1>11, <1>12, <1>13, <1>14, <1>15, <1>16, <1>17, <1>18, <1>19, <1>20, <1>21 DEF Next

\* What no step changes of a row: whose it is, its history, and that it is revoked.
SameRow(t) ==
  /\ token'[t].user = token[t].user
  /\ token'[t].password = token[t].password
  /\ token'[t].late = token[t].late
  /\ token[t].revoked => token'[t].revoked

\* A row, once written, stays as SameRow says; a link stays too.
LEMMA RowsKept ==
  ASSUME TypeOK, CallsFilled, [Next]_vars
  PROVE  /\ \A k \in Issued : k \in Issued' /\ SameRow(k)
         /\ \A k \in ResetLinks : link[k] # None => link'[k] # None
<1>1. ASSUME NEW r \in Requests, NEW u \in Users, Login(r, u)
      PROVE  (\A k \in Issued : k \in Issued' /\ SameRow(k))
             /\ (\A k \in ResetLinks : link[k] # None => link'[k] # None)
  BY <1>1 DEF SameRow, Login, Issued
<1>2. ASSUME NEW r \in Requests, NEW u \in Users, RequestReset(r, u)
      PROVE  (\A k \in Issued : k \in Issued' /\ SameRow(k))
             /\ (\A k \in ResetLinks : link[k] # None => link'[k] # None)
  BY <1>2 DEF SameRow, RequestReset, Issued
<1>3. ASSUME NEW r \in Requests, NEW u \in Users, NEW s \in AccountSteps, ChangeAccount(r, u, s)
      PROVE  (\A k \in Issued : k \in Issued' /\ SameRow(k))
             /\ (\A k \in ResetLinks : link[k] # None => link'[k] # None)
  BY <1>3 DEF SameRow, ChangeAccount, Issued
<1>4. ASSUME NEW r \in Requests, NEW t \in Tokens, IssueFamily(r, t)
      PROVE  (\A k \in Issued : k \in Issued' /\ SameRow(k))
             /\ (\A k \in ResetLinks : link[k] # None => link'[k] # None)
  BY <1>4 DEF SameRow, IssueFamily, Issued
<1>5. ASSUME NEW r \in Requests, NEW t \in Tokens, Present(r, t)
      PROVE  (\A k \in Issued : k \in Issued' /\ SameRow(k))
             /\ (\A k \in ResetLinks : link[k] # None => link'[k] # None)
  BY <1>5 DEF SameRow, Present, Issued
<1>6. ASSUME NEW r \in Requests, NEW t \in Tokens, Rotate(r, t)
      PROVE  (\A k \in Issued : k \in Issued' /\ SameRow(k))
             /\ (\A k \in ResetLinks : link[k] # None => link'[k] # None)
  <2>1. call[r].token \in Issued /\ token[call[r].token] \in Row
    BY <1>6 DEF SameRow, Rotate, CallsFilled, Filled, At, Issued, TypeOK
  <2>2. t \notin Issued /\ link' = link /\ token \in [Tokens -> Row \cup {None}]
    BY <1>6 DEF Rotate, Issued, TypeOK
  <2>3. \A k \in Tokens : k # t => token'[k] = IF k = call[r].token THEN [token[k] EXCEPT !.revoked = TRUE]
                                              ELSE token[k]
    BY <1>6, <2>2 DEF Rotate, Replaced, Revoked
  <2>4. ASSUME NEW k \in Issued
        PROVE  k \in Issued' /\ SameRow(k)
    <3>1. k # t /\ k \in Tokens /\ token[k] \in Row
      BY <2>2 DEF Issued
    <3>2. /\ token'[k].user = token[k].user /\ token'[k].password = token[k].password
          /\ token'[k].late = token[k].late /\ (token[k].revoked => token'[k].revoked)
          /\ token'[k] \in Row
      BY <2>3, <3>1 DEF Row
    <3> QED BY <3>1, <3>2, NoneIsNoRow DEF SameRow, Issued
  <2> QED BY <2>2, <2>4
<1>7. ASSUME NEW r \in Requests, NEW t \in Tokens, Logout(r, t)
      PROVE  (\A k \in Issued : k \in Issued' /\ SameRow(k))
             /\ (\A k \in ResetLinks : link[k] # None => link'[k] # None)
  BY <1>7 DEF SameRow, Logout, Issued
<1>8. ASSUME NEW r \in Requests, NEW l \in ResetLinks, CreateLink(r, l)
      PROVE  (\A k \in Issued : k \in Issued' /\ SameRow(k))
             /\ (\A k \in ResetLinks : link[k] # None => link'[k] # None)
  <2>1. call[r] \in Call
    BY <1>8 DEF SameRow, CreateLink, At, TypeOK
  <2>2. [user |-> call[r].user, used |-> FALSE, expired |-> FALSE, before |-> call[r].before] \in Link
    BY <2>1 DEF Link, Call
  <2> QED BY <1>8, <2>2, NoneIsNoRow DEF SameRow, CreateLink, SpentBy, Issued, Link, TypeOK
<1>9. ASSUME NEW r \in Requests, NEW l \in ResetLinks, ConsumeLink(r, l)
      PROVE  (\A k \in Issued : k \in Issued' /\ SameRow(k))
             /\ (\A k \in ResetLinks : link[k] # None => link'[k] # None)
  BY <1>9, NoneIsNoRow DEF SameRow, ConsumeLink, Spendable, Issued, Link, TypeOK
<1>10. ASSUME NEW r \in Requests, NEW p \in Passwords, SetPassword(r, p)
      PROVE  (\A k \in Issued : k \in Issued' /\ SameRow(k))
             /\ (\A k \in ResetLinks : link[k] # None => link'[k] # None)
  BY <1>10 DEF SameRow, SetPassword, Issued
<1>11. ASSUME NEW r \in Requests, RecheckAccount(r)
      PROVE  (\A k \in Issued : k \in Issued' /\ SameRow(k))
             /\ (\A k \in ResetLinks : link[k] # None => link'[k] # None)
  BY <1>11 DEF SameRow, RecheckAccount, Issued
<1>12. ASSUME NEW r \in Requests, RevokeFamily(r)
      PROVE  (\A k \in Issued : k \in Issued' /\ SameRow(k))
             /\ (\A k \in ResetLinks : link[k] # None => link'[k] # None)
  BY <1>12, NoneIsNoRow DEF SameRow, RevokeFamily, Revoked, Family, OfUser, Issued, Row, TypeOK
<1>13. ASSUME NEW r \in Requests, RecheckReset(r)
      PROVE  (\A k \in Issued : k \in Issued' /\ SameRow(k))
             /\ (\A k \in ResetLinks : link[k] # None => link'[k] # None)
  BY <1>13 DEF SameRow, RecheckReset, Issued
<1>14. ASSUME NEW r \in Requests, Deactivate(r)
      PROVE  (\A k \in Issued : k \in Issued' /\ SameRow(k))
             /\ (\A k \in ResetLinks : link[k] # None => link'[k] # None)
  BY <1>14 DEF SameRow, Deactivate, Issued
<1>15. ASSUME NEW r \in Requests, Activate(r)
      PROVE  (\A k \in Issued : k \in Issued' /\ SameRow(k))
             /\ (\A k \in ResetLinks : link[k] # None => link'[k] # None)
  BY <1>15 DEF SameRow, Activate, Issued
<1>16. ASSUME NEW r \in Requests, RemoveUser(r)
      PROVE  (\A k \in Issued : k \in Issued' /\ SameRow(k))
             /\ (\A k \in ResetLinks : link[k] # None => link'[k] # None)
  BY <1>16 DEF SameRow, RemoveUser, Issued
<1>17. ASSUME NEW r \in Requests, RevokeAllForUser(r)
      PROVE  (\A k \in Issued : k \in Issued' /\ SameRow(k))
             /\ (\A k \in ResetLinks : link[k] # None => link'[k] # None)
  BY <1>17, NoneIsNoRow DEF SameRow, RevokeAllForUser, Revoked, Family, OfUser, Issued, Row, TypeOK
<1>18. ASSUME NEW r \in Requests, Crash(r)
      PROVE  (\A k \in Issued : k \in Issued' /\ SameRow(k))
             /\ (\A k \in ResetLinks : link[k] # None => link'[k] # None)
  BY <1>18 DEF SameRow, Crash, Issued
<1>19. ASSUME NEW t \in Tokens, ExpireToken(t)
      PROVE  (\A k \in Issued : k \in Issued' /\ SameRow(k))
             /\ (\A k \in ResetLinks : link[k] # None => link'[k] # None)
  BY <1>19, NoneIsNoRow DEF SameRow, ExpireToken, Issued, Row, TypeOK
<1>20. ASSUME NEW l \in ResetLinks, ExpireLink(l)
      PROVE  (\A k \in Issued : k \in Issued' /\ SameRow(k))
             /\ (\A k \in ResetLinks : link[k] # None => link'[k] # None)
  BY <1>20, NoneIsNoRow DEF SameRow, ExpireLink, Spendable, Issued, Link, TypeOK
<1>21. CASE UNCHANGED vars
  BY <1>21 DEF SameRow, vars, Issued
<1> QED
  BY <1>1, <1>2, <1>3, <1>4, <1>5, <1>6, <1>7, <1>8, <1>9, <1>10, <1>11, <1>12, <1>13, <1>14, <1>15, <1>16, <1>17, <1>18, <1>19, <1>20, <1>21 DEF SameRow, Next

\* A request that is left alone, overtaken or ended by a step still holds what it held.
LEMMA StillFilled ==
  ASSUME TypeOK, CallsFilled, [Next]_vars, NEW q \in Requests,
         \/ call'[q] = call[q]
         \/ call'[q] = None
         \/ call[q] # None /\ call'[q] = [call[q] EXCEPT !.late = TRUE]
  PROVE  Filled(q)'
<1>1. CASE call'[q] = None
  BY <1>1 DEF Filled, At
<1>2. CASE call'[q] # None
  <2>1. call[q] # None /\ call[q] \in Call
    BY <1>2 DEF TypeOK
  <2>2. /\ call'[q].step = call[q].step /\ call'[q].token = call[q].token
        /\ call'[q].user = call[q].user /\ call'[q].password = call[q].password
        /\ call'[q].spent = call[q].spent
    BY <1>2, <2>1 DEF Call
  <2>3. Filled(q) /\ call[q].spent \subseteq ResetLinks
    BY <2>1 DEF CallsFilled, Call
  <2> QED BY <1>2, <2>1, <2>2, <2>3, RowsKept DEF Filled, At, SameRow
<1> QED BY <1>1, <1>2

\* Every step leaves the requests holding what their next step needs.
LEMMA FilledStep ==
  TypeOK /\ CallsFilled /\ [Next]_vars => CallsFilled'
<1> SUFFICES ASSUME TypeOK, CallsFilled, [Next]_vars, NEW q \in Requests PROVE Filled(q)'
  BY DEF CallsFilled

<1>1. ASSUME NEW r \in Requests, NEW u \in Users, Login(r, u)
      PROVE  Filled(q)'
  <2>1. CASE q # r
    BY <1>1, <2>1, StillFilled DEF Login, Done, Goto, TypeOK
  <2>2. CASE q = r
    <3>1. call'[r] = [Started("issue", u) EXCEPT !.password = account[u].password]
      BY <1>1 DEF Login, TypeOK
    <3>2. account[u].password \in Passwords
      BY DEF TypeOK, Account
    <3> QED BY <2>2, <3>1, <3>2 DEF Filled, At, Started
  <2> QED BY <2>1, <2>2
<1>2. ASSUME NEW r \in Requests, NEW u \in Users, RequestReset(r, u)
      PROVE  Filled(q)'
  <2>1. CASE q # r
    BY <1>2, <2>1, StillFilled DEF RequestReset, Done, Goto, TypeOK
  <2>2. CASE q = r
    <3>1. call'[r] = [Started("createLink", u) EXCEPT !.spent = UnusedLinks(u),
                                                      !.before = LinksOf(u)]
          /\ link' = link
      BY <1>2 DEF RequestReset, TypeOK
    <3>2. \A l \in UnusedLinks(u) : link[l] # None
      BY DEF UnusedLinks, LinksOf
    <3> QED BY <2>2, <3>1, <3>2 DEF Filled, At, Started
  <2> QED BY <2>1, <2>2
<1>3. ASSUME NEW r \in Requests, NEW u \in Users, NEW s \in AccountSteps, ChangeAccount(r, u, s)
      PROVE  Filled(q)'
  <2>1. CASE q # r
    BY <1>3, <2>1, StillFilled DEF ChangeAccount, Done, Goto, TypeOK
  <2>2. CASE q = r
    <3>1. call'[r] = Started(s, u)
      BY <1>3 DEF ChangeAccount, TypeOK
    <3> QED BY <2>2, <3>1 DEF Filled, At, Started, AccountSteps
  <2> QED BY <2>1, <2>2
<1>4. ASSUME NEW r \in Requests, NEW t \in Tokens, IssueFamily(r, t)
      PROVE  Filled(q)'
  BY <1>4, StillFilled DEF IssueFamily, Done, TypeOK
<1>5. ASSUME NEW r \in Requests, NEW t \in Tokens, Present(r, t)
      PROVE  Filled(q)'
  <2>1. CASE q # r
    BY <1>5, <2>1, StillFilled DEF Present, Done, Goto, TypeOK
  <2>2. CASE q = r
    <3>1. /\ call'[r] = [Started(Verdict(t), token[t].user) EXCEPT !.token = t]
          /\ t \in Issued /\ token' = token
      BY <1>5 DEF Present, TypeOK
    <3> QED BY <2>2, <3>1 DEF Filled, At, Started, Issued, Verdict
  <2> QED BY <2>1, <2>2
<1>6. ASSUME NEW r \in Requests, NEW t \in Tokens, Rotate(r, t)
      PROVE  Filled(q)'
  BY <1>6, StillFilled DEF Rotate, Done, TypeOK
<1>7. ASSUME NEW r \in Requests, NEW t \in Tokens, Logout(r, t)
      PROVE  Filled(q)'
  <2>1. CASE q # r
    BY <1>7, <2>1, StillFilled DEF Logout, Done, Goto, TypeOK
  <2>2. CASE q = r
    <3>1. /\ call'[r] = [Started("endFamily", token[t].user) EXCEPT !.token = t]
          /\ t \in Issued /\ token' = token
      BY <1>7 DEF Logout, TypeOK
    <3> QED BY <2>2, <3>1 DEF Filled, At, Started, Issued
  <2> QED BY <2>1, <2>2
<1>8. ASSUME NEW r \in Requests, NEW l \in ResetLinks, CreateLink(r, l)
      PROVE  Filled(q)'
  BY <1>8, StillFilled DEF CreateLink, Done, TypeOK
<1>9. ASSUME NEW r \in Requests, NEW l \in ResetLinks, ConsumeLink(r, l)
      PROVE  Filled(q)'
  <2>1. CASE q # r
    BY <1>9, <2>1, StillFilled DEF ConsumeLink, Done, Goto, TypeOK
  <2>2. CASE q = r
    <3>1. call'[r] = [Started("recheck", link[l].user) EXCEPT !.link = l]
      BY <1>9 DEF ConsumeLink, TypeOK
    <3> QED BY <2>2, <3>1 DEF Filled, At, Started
  <2> QED BY <2>1, <2>2
<1>10. ASSUME NEW r \in Requests, NEW p \in Passwords, SetPassword(r, p)
      PROVE  Filled(q)'
  <2>1. CASE q # r
    BY <1>10, <2>1, StillFilled DEF SetPassword, ThenRevoke, Done, Goto, TypeOK
  <2>2. CASE q = r
    <3>1. call[r] \in Call /\ call[r] # None /\ Filled(r)
      BY <1>10, NoneIsNoRow DEF SetPassword, At, CallsFilled, TypeOK
    <3>2. CASE call'[r] # None
      <4>1. call'[r] = [call[r] EXCEPT !.step = "revokeAll"]
        BY <1>10, <3>2, NoneIsNoRow DEF SetPassword, ThenRevoke, Goto, Done, TypeOK
      <4>2. token' = token /\ link' = link
        BY <1>10 DEF SetPassword
      <4> QED BY <1>10, <2>2, <3>1, <4>1, <4>2 DEF Filled, At, Call, Issued, SetPassword
    <3>3. CASE call'[r] = None
      BY <2>2, <3>3 DEF Filled, At
    <3> QED BY <3>2, <3>3
  <2> QED BY <2>1, <2>2
<1>11. ASSUME NEW r \in Requests, RecheckAccount(r)
      PROVE  Filled(q)'
  <2>1. CASE q # r
    BY <1>11, <2>1, StillFilled DEF RecheckAccount, Done, Goto, TypeOK
  <2>2. CASE q = r
    <3>1. call[r] \in Call /\ call[r] # None /\ Filled(r) /\ At(r, "account")
      BY <1>11, NoneIsNoRow DEF RecheckAccount, At, CallsFilled, TypeOK
    <3>2. \/ call'[r] = [call[r] EXCEPT !.step = "rotate"]
          \/ call'[r] = [call[r] EXCEPT !.step = "endFamily"]
      BY <1>11 DEF RecheckAccount, Goto, TypeOK
    <3>3. token' = token /\ link' = link
      BY <1>11 DEF RecheckAccount
    <3> QED BY <2>2, <3>1, <3>2, <3>3 DEF Filled, At, Call, Issued
  <2> QED BY <2>1, <2>2
<1>12. ASSUME NEW r \in Requests, RevokeFamily(r)
      PROVE  Filled(q)'
  BY <1>12, StillFilled DEF RevokeFamily, Overtaking
<1>13. ASSUME NEW r \in Requests, RecheckReset(r)
      PROVE  Filled(q)'
  <2>1. CASE q # r
    BY <1>13, <2>1, StillFilled DEF RecheckReset, ThenRevoke, Done, Goto, TypeOK
  <2>2. CASE q = r
    <3>1. call[r] \in Call /\ call[r] # None /\ Filled(r)
      BY <1>13, NoneIsNoRow DEF RecheckReset, At, CallsFilled, TypeOK
    <3>2. CASE call'[r] # None
      <4>1. call'[r] = [call[r] EXCEPT !.step = "password"]
        BY <1>13, <3>2, NoneIsNoRow DEF RecheckReset, ThenRevoke, Goto, Done, TypeOK
      <4>2. token' = token /\ link' = link
        BY <1>13 DEF RecheckReset
      <4> QED BY <1>13, <2>2, <3>1, <4>1, <4>2 DEF Filled, At, Call, Issued, RecheckReset
    <3>3. CASE call'[r] = None
      BY <2>2, <3>3 DEF Filled, At
    <3> QED BY <3>2, <3>3
  <2> QED BY <2>1, <2>2
<1>14. ASSUME NEW r \in Requests, Deactivate(r)
      PROVE  Filled(q)'
  <2>1. CASE q # r
    BY <1>14, <2>1, StillFilled DEF Deactivate, ThenRevoke, Done, Goto, TypeOK
  <2>2. CASE q = r
    <3>1. call[r] \in Call /\ call[r] # None /\ Filled(r)
      BY <1>14, NoneIsNoRow DEF Deactivate, At, CallsFilled, TypeOK
    <3>2. CASE call'[r] # None
      <4>1. call'[r] = [call[r] EXCEPT !.step = "revokeAll"]
        BY <1>14, <3>2, NoneIsNoRow DEF Deactivate, ThenRevoke, Goto, Done, TypeOK
      <4>2. token' = token /\ link' = link
        BY <1>14 DEF Deactivate
      <4> QED BY <1>14, <2>2, <3>1, <4>1, <4>2 DEF Filled, At, Call, Issued, Deactivate
    <3>3. CASE call'[r] = None
      BY <2>2, <3>3 DEF Filled, At
    <3> QED BY <3>2, <3>3
  <2> QED BY <2>1, <2>2
<1>15. ASSUME NEW r \in Requests, Activate(r)
      PROVE  Filled(q)'
  BY <1>15, StillFilled DEF Activate, Done, TypeOK
<1>16. ASSUME NEW r \in Requests, RemoveUser(r)
      PROVE  Filled(q)'
  <2>1. CASE q # r
    BY <1>16, <2>1, StillFilled DEF RemoveUser, ThenRevoke, Done, Goto, TypeOK
  <2>2. CASE q = r
    <3>1. call[r] \in Call /\ call[r] # None /\ Filled(r)
      BY <1>16, NoneIsNoRow DEF RemoveUser, At, CallsFilled, TypeOK
    <3>2. CASE call'[r] # None
      <4>1. call'[r] = [call[r] EXCEPT !.step = "revokeAll"]
        BY <1>16, <3>2, NoneIsNoRow DEF RemoveUser, ThenRevoke, Goto, Done, TypeOK
      <4>2. token' = token /\ link' = link
        BY <1>16 DEF RemoveUser
      <4> QED BY <1>16, <2>2, <3>1, <4>1, <4>2 DEF Filled, At, Call, Issued, RemoveUser
    <3>3. CASE call'[r] = None
      BY <2>2, <3>3 DEF Filled, At
    <3> QED BY <3>2, <3>3
  <2> QED BY <2>1, <2>2
<1>17. ASSUME NEW r \in Requests, RevokeAllForUser(r)
      PROVE  Filled(q)'
  BY <1>17, StillFilled DEF RevokeAllForUser, Overtaking
<1>18. ASSUME NEW r \in Requests, Crash(r)
      PROVE  Filled(q)'
  BY <1>18, StillFilled DEF Crash, Done, TypeOK
<1>19. ASSUME NEW t \in Tokens, ExpireToken(t)
      PROVE  Filled(q)'
  BY <1>19, StillFilled DEF ExpireToken
<1>20. ASSUME NEW l \in ResetLinks, ExpireLink(l)
      PROVE  Filled(q)'
  BY <1>20, StillFilled DEF ExpireLink
<1>21. CASE UNCHANGED vars
  BY <1>21, StillFilled DEF vars
<1> QED
  BY <1>1, <1>2, <1>3, <1>4, <1>5, <1>6, <1>7, <1>8, <1>9, <1>10, <1>11, <1>12, <1>13, <1>14, <1>15, <1>16, <1>17, <1>18, <1>19, <1>20, <1>21 DEF Next

-----------------------------------------------------------------------------
\* The revocation of u's sessions is still to run, or was lost with its process.
Excused(u) == Pending(u) \/ u \in lost

\* A step revokes all of u's sessions.
RevokedAll(u) == \E r \in Requests : RevokeAllForUser(r) /\ call[r].user = u

\* A sign-in past its comparison and a refresh past its verification would write a
\* token of the account as it stands, but for the excuses of ChangeEndsSessions.
CallStands(r) ==
  /\ At(r, "issue") =>
       Stands(call[r].user, call[r].password) \/ call[r].late \/ Excused(call[r].user)
  /\ At(r, "account") \/ At(r, "rotate") =>
       \/ Stands(call[r].user, token[call[r].token].password)
       \/ token[call[r].token].late \/ call[r].late \/ Excused(call[r].user)

CallsStand == \A r \in Requests : CallStands(r)

\* Revoking all of u's sessions writes no row and overtakes every request of u's.
LEMMA RevocationOvertakes ==
  ASSUME TypeOK, NEW u \in Users, RevokedAll(u)
  PROVE  /\ Issued' = Issued
         /\ \A t \in Issued : token[t].user = u => token'[t].revoked
         /\ \A q \in Requests : call'[q] # None /\ call[q].user = u => call'[q].late
<1>1. PICK r \in Requests : RevokeAllForUser(r) /\ call[r].user = u
  BY DEF RevokedAll
<1>2. \A t \in Issued : token[t] \in Row /\ [token[t] EXCEPT !.revoked = TRUE] \in Row
  BY DEF Issued, TypeOK, Row
<1>3. Issued' = Issued
  BY <1>1, <1>2, NoneIsNoRow DEF RevokeAllForUser, Revoked, OfUser, Issued
<1>4. \A t \in Issued : token[t].user = u => token'[t].revoked
  BY <1>1, <1>2 DEF RevokeAllForUser, Revoked, OfUser, Issued, Row
<1>5. \A q \in Requests : call'[q] # None /\ call[q].user = u => call'[q].late
  <2> SUFFICES ASSUME NEW q \in Requests, call'[q] # None, call[q].user = u
               PROVE  call'[q].late
    OBVIOUS
  <2>1. q # r /\ call[q] # None /\ call[q] \in Call
    BY <1>1 DEF RevokeAllForUser, Overtaking, TypeOK
  <2>2. call'[q] = [call[q] EXCEPT !.late = TRUE]
    BY <1>1, <2>1 DEF RevokeAllForUser, Overtaking
  <2> QED BY <2>1, <2>2 DEF Call
<1> QED BY <1>3, <1>4, <1>5

\* A session stands, or is excused, until a step that revokes all of the account's.
LEMMA ExcuseStep ==
  ASSUME TypeOK, [Next]_vars, NEW v \in Users, NEW w \in Passwords,
         Stands(v, w) \/ Excused(v)
  PROVE  (Stands(v, w) \/ Excused(v))' \/ RevokedAll(v)
<1> DEFINE OK == (Stands(v, w) \/ Excused(v))' \/ RevokedAll(v)
<1>a. ASSUME NEW r \in Requests, ~At(r, "revokeAll"), lost' = lost,
             \A q \in Requests \ {r} : At(q, "revokeAll") => At(q, "revokeAll")' /\ call'[q].user = call[q].user
      PROVE  Excused(v) => Excused(v)'
  BY <1>a DEF Excused, Pending

<1>1. ASSUME NEW r \in Requests, NEW u \in Users, Login(r, u)
      PROVE  OK
  <2>1. ~At(r, "revokeAll") /\ lost' = lost
    BY <1>1 DEF Login, At
  <2>2. \A q \in Requests \ {r} : At(q, "revokeAll") => At(q, "revokeAll")' /\ call'[q].user = call[q].user
    BY <1>1 DEF Login, Done, Goto, At, TypeOK
  <2>3. Stands(v, w) => Stands(v, w)'
    BY <1>1 DEF Login, Stands, Usable
  <2> QED BY <1>a, <2>1, <2>2, <2>3
<1>2. ASSUME NEW r \in Requests, NEW u \in Users, RequestReset(r, u)
      PROVE  OK
  <2>1. ~At(r, "revokeAll") /\ lost' = lost
    BY <1>2 DEF RequestReset, At
  <2>2. \A q \in Requests \ {r} : At(q, "revokeAll") => At(q, "revokeAll")' /\ call'[q].user = call[q].user
    BY <1>2 DEF RequestReset, Done, Goto, At, TypeOK
  <2>3. Stands(v, w) => Stands(v, w)'
    BY <1>2 DEF RequestReset, Stands, Usable
  <2> QED BY <1>a, <2>1, <2>2, <2>3
<1>3. ASSUME NEW r \in Requests, NEW u \in Users, NEW s \in AccountSteps, ChangeAccount(r, u, s)
      PROVE  OK
  <2>1. ~At(r, "revokeAll") /\ lost' = lost
    BY <1>3 DEF ChangeAccount, At
  <2>2. \A q \in Requests \ {r} : At(q, "revokeAll") => At(q, "revokeAll")' /\ call'[q].user = call[q].user
    BY <1>3 DEF ChangeAccount, Done, Goto, At, TypeOK
  <2>3. Stands(v, w) => Stands(v, w)'
    BY <1>3 DEF ChangeAccount, Stands, Usable
  <2> QED BY <1>a, <2>1, <2>2, <2>3
<1>4. ASSUME NEW r \in Requests, NEW t \in Tokens, IssueFamily(r, t)
      PROVE  OK
  <2>1. ~At(r, "revokeAll") /\ lost' = lost
    BY <1>4 DEF IssueFamily, At
  <2>2. \A q \in Requests \ {r} : At(q, "revokeAll") => At(q, "revokeAll")' /\ call'[q].user = call[q].user
    BY <1>4 DEF IssueFamily, Done, Goto, At, TypeOK
  <2>3. Stands(v, w) => Stands(v, w)'
    BY <1>4 DEF IssueFamily, Stands, Usable
  <2> QED BY <1>a, <2>1, <2>2, <2>3
<1>5. ASSUME NEW r \in Requests, NEW t \in Tokens, Present(r, t)
      PROVE  OK
  <2>1. ~At(r, "revokeAll") /\ lost' = lost
    BY <1>5 DEF Present, At
  <2>2. \A q \in Requests \ {r} : At(q, "revokeAll") => At(q, "revokeAll")' /\ call'[q].user = call[q].user
    BY <1>5 DEF Present, Done, Goto, At, TypeOK
  <2>3. Stands(v, w) => Stands(v, w)'
    BY <1>5 DEF Present, Stands, Usable
  <2> QED BY <1>a, <2>1, <2>2, <2>3
<1>6. ASSUME NEW r \in Requests, NEW t \in Tokens, Rotate(r, t)
      PROVE  OK
  <2>1. ~At(r, "revokeAll") /\ lost' = lost
    BY <1>6 DEF Rotate, At
  <2>2. \A q \in Requests \ {r} : At(q, "revokeAll") => At(q, "revokeAll")' /\ call'[q].user = call[q].user
    BY <1>6 DEF Rotate, Done, Goto, At, TypeOK
  <2>3. Stands(v, w) => Stands(v, w)'
    BY <1>6 DEF Rotate, Stands, Usable
  <2> QED BY <1>a, <2>1, <2>2, <2>3
<1>7. ASSUME NEW r \in Requests, NEW t \in Tokens, Logout(r, t)
      PROVE  OK
  <2>1. ~At(r, "revokeAll") /\ lost' = lost
    BY <1>7 DEF Logout, At
  <2>2. \A q \in Requests \ {r} : At(q, "revokeAll") => At(q, "revokeAll")' /\ call'[q].user = call[q].user
    BY <1>7 DEF Logout, Done, Goto, At, TypeOK
  <2>3. Stands(v, w) => Stands(v, w)'
    BY <1>7 DEF Logout, Stands, Usable
  <2> QED BY <1>a, <2>1, <2>2, <2>3
<1>8. ASSUME NEW r \in Requests, NEW l \in ResetLinks, CreateLink(r, l)
      PROVE  OK
  <2>1. ~At(r, "revokeAll") /\ lost' = lost
    BY <1>8 DEF CreateLink, At
  <2>2. \A q \in Requests \ {r} : At(q, "revokeAll") => At(q, "revokeAll")' /\ call'[q].user = call[q].user
    BY <1>8 DEF CreateLink, Done, Goto, At, TypeOK
  <2>3. Stands(v, w) => Stands(v, w)'
    BY <1>8 DEF CreateLink, Stands, Usable
  <2> QED BY <1>a, <2>1, <2>2, <2>3
<1>9. ASSUME NEW r \in Requests, NEW l \in ResetLinks, ConsumeLink(r, l)
      PROVE  OK
  <2>1. ~At(r, "revokeAll") /\ lost' = lost
    BY <1>9 DEF ConsumeLink, At
  <2>2. \A q \in Requests \ {r} : At(q, "revokeAll") => At(q, "revokeAll")' /\ call'[q].user = call[q].user
    BY <1>9 DEF ConsumeLink, Done, Goto, At, TypeOK
  <2>3. Stands(v, w) => Stands(v, w)'
    BY <1>9 DEF ConsumeLink, Stands, Usable
  <2> QED BY <1>a, <2>1, <2>2, <2>3
<1>10. ASSUME NEW r \in Requests, NEW p \in Passwords, SetPassword(r, p)
      PROVE  OK
  <2>1. ~At(r, "revokeAll") /\ lost' = lost
    BY <1>10 DEF SetPassword, At
  <2>2. \A q \in Requests \ {r} : At(q, "revokeAll") => At(q, "revokeAll")' /\ call'[q].user = call[q].user
    BY <1>10 DEF SetPassword, ThenRevoke, Done, Goto, At, TypeOK
  <2>3. CASE call[r].user = v
    <3>1. At(r, "revokeAll")' /\ call'[r].user = v
      <4>1. call[r] # None /\ call[r] \in Call
        BY <1>10 DEF SetPassword, At, TypeOK
      <4>2. call'[r] = [call[r] EXCEPT !.step = "revokeAll"]
        BY <1>10, <2>3 DEF SetPassword, ThenRevoke, Goto, TypeOK
      <4>3. call'[r] \in Call /\ call'[r].step = "revokeAll" /\ call'[r].user = v
        BY <2>3, <4>1, <4>2 DEF Call, Steps
      <4> QED BY <4>3, NoneIsNoRow DEF At
    <3> QED BY <3>1 DEF Excused, Pending
  <2>4. CASE call[r].user # v
    <3>1. Stands(v, w) => Stands(v, w)'
      BY <1>10, <2>4 DEF SetPassword, Stands, Usable, TypeOK
    <3> QED BY <1>a, <2>1, <2>2, <3>1
  <2> QED BY <2>3, <2>4
<1>11. ASSUME NEW r \in Requests, RecheckAccount(r)
      PROVE  OK
  <2>1. ~At(r, "revokeAll") /\ lost' = lost
    BY <1>11 DEF RecheckAccount, At
  <2>2. \A q \in Requests \ {r} : At(q, "revokeAll") => At(q, "revokeAll")' /\ call'[q].user = call[q].user
    BY <1>11 DEF RecheckAccount, Done, Goto, At, TypeOK
  <2>3. Stands(v, w) => Stands(v, w)'
    BY <1>11 DEF RecheckAccount, Stands, Usable
  <2> QED BY <1>a, <2>1, <2>2, <2>3
<1>12. ASSUME NEW r \in Requests, RevokeFamily(r)
      PROVE  OK
  <2>1. ~At(r, "revokeAll") /\ lost' = lost
    BY <1>12 DEF RevokeFamily, At
  <2>2. \A q \in Requests \ {r} : At(q, "revokeAll") => At(q, "revokeAll")' /\ call'[q].user = call[q].user
    BY <1>12, NoneIsNoRow DEF RevokeFamily, Overtaking, At, TypeOK, Call
  <2>3. Stands(v, w) => Stands(v, w)'
    BY <1>12 DEF RevokeFamily, Stands, Usable
  <2> QED BY <1>a, <2>1, <2>2, <2>3
<1>13. ASSUME NEW r \in Requests, RecheckReset(r)
      PROVE  OK
  <2>1. ~At(r, "revokeAll") /\ lost' = lost
    BY <1>13 DEF RecheckReset, At
  <2>2. \A q \in Requests \ {r} : At(q, "revokeAll") => At(q, "revokeAll")' /\ call'[q].user = call[q].user
    BY <1>13 DEF RecheckReset, Done, Goto, At, TypeOK
  <2>3. Stands(v, w) => Stands(v, w)'
    BY <1>13 DEF RecheckReset, Stands, Usable
  <2> QED BY <1>a, <2>1, <2>2, <2>3
<1>14. ASSUME NEW r \in Requests, Deactivate(r)
      PROVE  OK
  <2>1. ~At(r, "revokeAll") /\ lost' = lost
    BY <1>14 DEF Deactivate, At
  <2>2. \A q \in Requests \ {r} : At(q, "revokeAll") => At(q, "revokeAll")' /\ call'[q].user = call[q].user
    BY <1>14 DEF Deactivate, ThenRevoke, Done, Goto, At, TypeOK
  <2>3. CASE call[r].user = v
    <3>1. At(r, "revokeAll")' /\ call'[r].user = v
      <4>1. call[r] # None /\ call[r] \in Call
        BY <1>14 DEF Deactivate, At, TypeOK
      <4>2. call'[r] = [call[r] EXCEPT !.step = "revokeAll"]
        BY <1>14, <2>3 DEF Deactivate, ThenRevoke, Goto, TypeOK
      <4>3. call'[r] \in Call /\ call'[r].step = "revokeAll" /\ call'[r].user = v
        BY <2>3, <4>1, <4>2 DEF Call, Steps
      <4> QED BY <4>3, NoneIsNoRow DEF At
    <3> QED BY <3>1 DEF Excused, Pending
  <2>4. CASE call[r].user # v
    <3>1. Stands(v, w) => Stands(v, w)'
      BY <1>14, <2>4 DEF Deactivate, Stands, Usable, TypeOK
    <3> QED BY <1>a, <2>1, <2>2, <3>1
  <2> QED BY <2>3, <2>4
<1>15. ASSUME NEW r \in Requests, Activate(r)
      PROVE  OK
  <2>1. ~At(r, "revokeAll") /\ lost' = lost
    BY <1>15 DEF Activate, At
  <2>2. \A q \in Requests \ {r} : At(q, "revokeAll") => At(q, "revokeAll")' /\ call'[q].user = call[q].user
    BY <1>15 DEF Activate, Done, Goto, At, TypeOK
  <2>3. Stands(v, w) => Stands(v, w)'
    BY <1>15 DEF Activate, Stands, Usable, TypeOK, Account
  <2> QED BY <1>a, <2>1, <2>2, <2>3
<1>16. ASSUME NEW r \in Requests, RemoveUser(r)
      PROVE  OK
  <2>1. ~At(r, "revokeAll") /\ lost' = lost
    BY <1>16 DEF RemoveUser, At
  <2>2. \A q \in Requests \ {r} : At(q, "revokeAll") => At(q, "revokeAll")' /\ call'[q].user = call[q].user
    BY <1>16 DEF RemoveUser, ThenRevoke, Done, Goto, At, TypeOK
  <2>3. CASE call[r].user = v /\ account[v].live
    <3>1. At(r, "revokeAll")' /\ call'[r].user = v
      <4>1. call[r] # None /\ call[r] \in Call
        BY <1>16 DEF RemoveUser, At, TypeOK
      <4>2. call'[r] = [call[r] EXCEPT !.step = "revokeAll"]
        BY <1>16, <2>3 DEF RemoveUser, ThenRevoke, Goto, TypeOK
      <4>3. call'[r] \in Call /\ call'[r].step = "revokeAll" /\ call'[r].user = v
        BY <2>3, <4>1, <4>2 DEF Call, Steps
      <4> QED BY <4>3, NoneIsNoRow DEF At
    <3> QED BY <3>1 DEF Excused, Pending
  <2>4. CASE ~(call[r].user = v /\ account[v].live)
    <3>1. Stands(v, w) => Stands(v, w)'
      BY <1>16, <2>4 DEF RemoveUser, Stands, Usable, TypeOK
    <3> QED BY <1>a, <2>1, <2>2, <3>1
  <2> QED BY <2>3, <2>4
<1>17. ASSUME NEW r \in Requests, RevokeAllForUser(r)
      PROVE  OK
  <2>1. CASE call[r].user = v
    BY <1>17, <2>1 DEF RevokedAll
  <2>2. CASE call[r].user # v
    <3>1. \A q \in Requests : At(q, "revokeAll") /\ call[q].user = v =>
                               At(q, "revokeAll")' /\ call'[q].user = v
      BY <1>17, <2>2, NoneIsNoRow DEF RevokeAllForUser, Overtaking, At, TypeOK, Call
    <3>2. v \in lost => v \in lost'
      BY <1>17, <2>2 DEF RevokeAllForUser
    <3>3. Stands(v, w) => Stands(v, w)'
      BY <1>17 DEF RevokeAllForUser, Stands, Usable
    <3> QED BY <3>1, <3>2, <3>3 DEF Excused, Pending
  <2> QED BY <2>1, <2>2
<1>18. ASSUME NEW r \in Requests, Crash(r)
      PROVE  OK
  <2>1. \A q \in Requests : At(q, "revokeAll") /\ call[q].user = v =>
                             v \in lost' \/ (At(q, "revokeAll")' /\ call'[q].user = v)
    BY <1>18 DEF Crash, Done, At, TypeOK
  <2>2. v \in lost => v \in lost'
    BY <1>18 DEF Crash
  <2>3. Stands(v, w) => Stands(v, w)'
    BY <1>18 DEF Crash, Stands, Usable
  <2> QED BY <2>1, <2>2, <2>3 DEF Excused, Pending
<1>19. ASSUME NEW t \in Tokens, ExpireToken(t)
      PROVE  OK
  BY <1>19 DEF ExpireToken, Excused, Pending, At, Stands, Usable
<1>20. ASSUME NEW l \in ResetLinks, ExpireLink(l)
      PROVE  OK
  BY <1>20 DEF ExpireLink, Excused, Pending, At, Stands, Usable
<1>21. CASE UNCHANGED vars
  BY <1>21 DEF vars, Excused, Pending, At, Stands, Usable
<1> QED
  BY <1>1, <1>2, <1>3, <1>4, <1>5, <1>6, <1>7, <1>8, <1>9, <1>10, <1>11, <1>12, <1>13, <1>14, <1>15, <1>16, <1>17, <1>18, <1>19, <1>20, <1>21 DEF Next

\* What ChangeEndsSessions says of a token that nothing overtook.
TokenStands(t) == Stands(token[t].user, token[t].password) \/ Excused(token[t].user)

IInv == TypeOK /\ CallsFilled /\ ChangeEndsSessions /\ CallsStand

Writing(r) == At(r, "issue") \/ At(r, "account") \/ At(r, "rotate")

\* A request that a step leaves as it is, or overtakes, would still write a token that
\* stands or is excused.
LEMMA StillStanding ==
  ASSUME IInv, [Next]_vars, NEW q \in Requests,
         Writing(q)' => /\ call[q] # None /\ call'[q].user = call[q].user
                        /\ call'[q].token = call[q].token
                        /\ call'[q].password = call[q].password
                        /\ call[q].late => call'[q].late
                        /\ At(q, "issue")' => At(q, "issue")
                        /\ (At(q, "account") \/ At(q, "rotate"))' => At(q, "account") \/ At(q, "rotate")
  PROVE  CallStands(q)'
<1>1. CASE ~Writing(q)'
  BY <1>1 DEF Writing, CallStands
<1>2. CASE Writing(q)' /\ call'[q].late
  BY <1>2 DEF Writing, CallStands
<1>3. CASE At(q, "issue")' /\ ~call'[q].late
  <2>1. At(q, "issue") /\ ~call[q].late /\ call[q] \in Call /\ call'[q] # None
    BY <1>3 DEF Writing, IInv, TypeOK, At
  <2>2. call[q].user \in Users /\ call[q].password \in Passwords
    BY <2>1 DEF Call, IInv, CallsFilled, Filled
  <2>3. PICK v \in Users, w \in Passwords : v = call[q].user /\ w = call[q].password
    BY <2>2
  <2>4. Stands(v, w) \/ Excused(v)
    BY <2>1, <2>3 DEF IInv, CallsStand, CallStands
  <2>5. (Stands(v, w) \/ Excused(v))' \/ RevokedAll(v)
    BY <2>4, ExcuseStep DEF IInv
  <2>6. ~RevokedAll(v)
    BY <1>3, <2>1, <2>3, RevocationOvertakes DEF IInv
  <2>7. call'[q].user = v /\ call'[q].password = w
    BY <1>3, <2>3 DEF Writing
  <2> QED BY <1>3, <2>5, <2>6, <2>7 DEF CallStands, At
<1>4. CASE (At(q, "account") \/ At(q, "rotate"))' /\ ~call'[q].late
  <2>1. /\ At(q, "account") \/ At(q, "rotate")
        /\ ~call[q].late /\ call[q] \in Call /\ call'[q] # None
    BY <1>4 DEF Writing, IInv, TypeOK, At
  <2>2. call[q].user \in Users /\ call[q].token \in Issued
    BY <2>1 DEF Call, IInv, CallsFilled, Filled
  <2>3. token[call[q].token].password \in Passwords
    BY <2>2 DEF Issued, IInv, TypeOK, Row
  <2>4. PICK v \in Users, t \in Tokens, w \in Passwords :
          v = call[q].user /\ t = call[q].token /\ w = token[t].password
    BY <2>2, <2>3 DEF Issued
  <2>5. token'[t].password = w /\ token'[t].late = token[t].late
    BY <2>2, <2>4, RowsKept DEF IInv, SameRow
  <2>6. call'[q].user = v /\ call'[q].token = t
    BY <1>4, <2>4 DEF Writing
  <2>7. Stands(v, w) \/ token[t].late \/ Excused(v)
    BY <2>1, <2>4 DEF IInv, CallsStand, CallStands
  <2>8. CASE token[t].late
    BY <1>4, <2>5, <2>6, <2>8 DEF CallStands, At
  <2>9. CASE ~token[t].late
    <3>1. (Stands(v, w) \/ Excused(v))' \/ RevokedAll(v)
      BY <2>7, <2>9, ExcuseStep DEF IInv
    <3>2. ~RevokedAll(v)
      BY <1>4, <2>1, <2>4, RevocationOvertakes DEF IInv
    <3> QED BY <1>4, <2>5, <2>6, <3>1, <3>2 DEF CallStands, At
  <2> QED BY <2>8, <2>9
<1> QED BY <1>1, <1>2, <1>3, <1>4 DEF Writing

\* What a row written by r gets is what r's request stood for.
LEMMA NewRowStands ==
  ASSUME IInv, [Next]_vars, NEW r \in Requests, NEW t \in Tokens,
         IssueFamily(r, t) \/ Rotate(r, t), ~token'[t].late
  PROVE  TokenStands(t)'
<1>1. PICK v \in Users, w \in Passwords :
        /\ token'[t].user = v /\ token'[t].password = w
        /\ Stands(v, w) \/ Excused(v)
  <2>1. CASE IssueFamily(r, t)
    <3>1. /\ token'[t].user = call[r].user /\ token'[t].password = call[r].password
          /\ token'[t].late = call[r].late /\ At(r, "issue")
      BY <2>1 DEF IssueFamily, IInv, TypeOK
    <3>2. call[r].user \in Users /\ call[r].password \in Passwords
      BY <3>1 DEF IInv, CallsFilled, Filled, TypeOK, At, Call
    <3>3. Stands(call[r].user, call[r].password) \/ Excused(call[r].user)
      BY <3>1 DEF IInv, CallsStand, CallStands
    <3> QED BY <3>1, <3>2, <3>3
  <2>2. CASE Rotate(r, t)
    <3> DEFINE old == call[r].token
    <3>1. At(r, "rotate") /\ old \in Issued /\ token[old].user = call[r].user
      BY <2>2 DEF Rotate, IInv, CallsFilled, Filled
    <3>2. token[old] \in Row /\ call[r] \in Call
      BY <3>1 DEF Issued, IInv, TypeOK, At
    <3>3. token'[t] = [token[old] EXCEPT !.revoked = FALSE, !.expired = FALSE,
                                         !.late = @ \/ call[r].late]
      BY <2>2, RevokedTyped, <3>1 DEF Rotate, Replaced, Revoked
    <3>4. /\ token'[t].user = call[r].user /\ token'[t].password = token[old].password
          /\ ~token[old].late /\ ~call[r].late
      BY <3>1, <3>2, <3>3 DEF Row
    <3>5. Stands(call[r].user, token[old].password) \/ Excused(call[r].user)
      BY <3>1, <3>4 DEF IInv, CallsStand, CallStands
    <3> QED BY <3>2, <3>4, <3>5 DEF Row, Call
  <2> QED BY <2>1, <2>2
<1>2. (Stands(v, w) \/ Excused(v))' \/ RevokedAll(v)
  BY <1>1, ExcuseStep DEF IInv
<1>3. ~RevokedAll(v)
  <2>1. t \in Issued' /\ t \notin Issued
    <3>1. token[t] = None /\ t \notin Issued
      BY DEF IssueFamily, Rotate, Issued
    <3>2. CASE IssueFamily(r, t)
      <4>1. token'[t] = [user |-> call[r].user, family |-> t, revoked |-> FALSE, expired |-> FALSE,
                         password |-> call[r].password, late |-> call[r].late]
        BY <3>2 DEF IssueFamily, IInv, TypeOK
      <4>2. call[r].user \in Users /\ call[r].password \in Passwords /\ call[r].late \in BOOLEAN
        BY <3>2 DEF IssueFamily, IInv, CallsFilled, Filled, TypeOK, At, Call
      <4>3. token'[t] \in Row
        BY <4>1, <4>2 DEF Row
      <4> QED BY <3>1, <4>3, NoneIsNoRow DEF Issued
    <3>3. CASE Rotate(r, t)
      <4> DEFINE old == call[r].token
      <4>1. token[old] \in Row /\ old \in Issued /\ call[r] \in Call
        BY <3>3 DEF Rotate, IInv, CallsFilled, Filled, Issued, TypeOK, At
      <4>2. token'[t] = [token[old] EXCEPT !.revoked = FALSE, !.expired = FALSE,
                                           !.late = @ \/ call[r].late]
        BY <3>3, <4>1, RevokedTyped DEF Rotate, Replaced, Revoked, IInv
      <4>3. (token[old].late \/ call[r].late) \in BOOLEAN
        BY <4>1 DEF Row, Call
      <4>4. token'[t] \in Row
        BY <4>1, <4>2, <4>3 DEF Row
      <4> QED BY <3>1, <4>4, NoneIsNoRow DEF Issued
    <3> QED BY <3>2, <3>3
  <2> QED BY <2>1, RevocationOvertakes DEF IInv
<1>4. (Stands(v, w) \/ Excused(v))'
  BY <1>2, <1>3
<1> QED BY <1>1, <1>4 DEF TokenStands

\* A rotation writes one row that was not there, its own.
LEMMA RotateWrites ==
  ASSUME TypeOK, NEW r \in Requests, NEW k \in Tokens, Rotate(r, k),
         NEW t \in Tokens, token[t] = None, token'[t] # None, CallsFilled
  PROVE  t = k
<1>1. call[r].token \in Issued
  BY DEF Rotate, CallsFilled, Filled
<1> QED BY <1>1 DEF Rotate, Replaced, Revoked, Issued, TypeOK

\* Every step leaves each token as ChangeEndsSessions says.
LEMMA TokensStandStep ==
  IInv /\ [Next]_vars => ChangeEndsSessions'
<1> SUFFICES ASSUME IInv, [Next]_vars, NEW t \in Tokens, t \in Issued', ~token'[t].revoked,
                    ~token'[t].late
             PROVE  TokenStands(t)'
  BY DEF ChangeEndsSessions, TokenStands, Excused, Live, Issued
<1>1. CASE t \in Issued
  <2>1. SameRow(t) /\ ~token[t].revoked /\ ~token[t].late
    BY <1>1, RowsKept DEF IInv, SameRow
  <2>2. token[t].user \in Users /\ token[t].password \in Passwords
    BY <1>1 DEF Issued, IInv, TypeOK, Row
  <2>3. PICK v \in Users, w \in Passwords : v = token[t].user /\ w = token[t].password
    BY <2>2
  <2>4. Stands(v, w) \/ Excused(v)
    BY <1>1, <2>1, <2>3 DEF IInv, ChangeEndsSessions, Live, Excused
  <2>5. (Stands(v, w) \/ Excused(v))' \/ RevokedAll(v)
    BY <2>4, ExcuseStep DEF IInv
  <2>6. ~RevokedAll(v)
    BY <1>1, <2>3, RevocationOvertakes DEF IInv
  <2>7. (Stands(v, w) \/ Excused(v))' /\ token'[t].user = v /\ token'[t].password = w
    BY <2>1, <2>3, <2>5, <2>6 DEF SameRow
  <2> QED BY <2>7 DEF TokenStands
<1>2. CASE t \notin Issued
  <2>1. PICK r \in Requests : IssueFamily(r, t) \/ Rotate(r, t)
    <3>1. token'[t] # None /\ token[t] = None
      BY <1>2 DEF Issued
    <3> DEFINE Claim == \E r \in Requests : IssueFamily(r, t) \/ Rotate(r, t)
    <3>2. ASSUME NEW r \in Requests, NEW u \in Users, Login(r, u)
          PROVE  Claim
      BY <3>1, <3>2 DEF Login
    <3>3. ASSUME NEW r \in Requests, NEW u \in Users, RequestReset(r, u)
          PROVE  Claim
      BY <3>1, <3>3 DEF RequestReset
    <3>4. ASSUME NEW r \in Requests, NEW u \in Users, NEW s \in AccountSteps, ChangeAccount(r, u, s)
          PROVE  Claim
      BY <3>1, <3>4 DEF ChangeAccount
    <3>5. ASSUME NEW r \in Requests, NEW k \in Tokens, IssueFamily(r, k)
          PROVE  Claim
      BY <3>1, <3>5 DEF IssueFamily, IInv, TypeOK
    <3>6. ASSUME NEW r \in Requests, NEW k \in Tokens, Present(r, k)
          PROVE  Claim
      BY <3>1, <3>6 DEF Present
    <3>7. ASSUME NEW r \in Requests, NEW k \in Tokens, Rotate(r, k)
          PROVE  Claim
      BY <3>1, <3>7, RotateWrites DEF IInv
    <3>8. ASSUME NEW r \in Requests, NEW k \in Tokens, Logout(r, k)
          PROVE  Claim
      BY <3>1, <3>8 DEF Logout
    <3>9. ASSUME NEW r \in Requests, NEW l \in ResetLinks, CreateLink(r, l)
          PROVE  Claim
      BY <3>1, <3>9 DEF CreateLink
    <3>10. ASSUME NEW r \in Requests, NEW l \in ResetLinks, ConsumeLink(r, l)
          PROVE  Claim
      BY <3>1, <3>10 DEF ConsumeLink
    <3>11. ASSUME NEW r \in Requests, NEW p \in Passwords, SetPassword(r, p)
          PROVE  Claim
      BY <3>1, <3>11 DEF SetPassword
    <3>12. ASSUME NEW r \in Requests, RecheckAccount(r)
          PROVE  Claim
      BY <3>1, <3>12 DEF RecheckAccount
    <3>13. ASSUME NEW r \in Requests, RevokeFamily(r)
          PROVE  Claim
      BY <3>1, <3>13, NoneIsNoRow DEF RevokeFamily, Revoked, Family, OfUser, Issued
    <3>14. ASSUME NEW r \in Requests, RecheckReset(r)
          PROVE  Claim
      BY <3>1, <3>14 DEF RecheckReset
    <3>15. ASSUME NEW r \in Requests, Deactivate(r)
          PROVE  Claim
      BY <3>1, <3>15 DEF Deactivate
    <3>16. ASSUME NEW r \in Requests, Activate(r)
          PROVE  Claim
      BY <3>1, <3>16 DEF Activate
    <3>17. ASSUME NEW r \in Requests, RemoveUser(r)
          PROVE  Claim
      BY <3>1, <3>17 DEF RemoveUser
    <3>18. ASSUME NEW r \in Requests, RevokeAllForUser(r)
          PROVE  Claim
      BY <3>1, <3>18, NoneIsNoRow DEF RevokeAllForUser, Revoked, Family, OfUser, Issued
    <3>19. ASSUME NEW r \in Requests, Crash(r)
          PROVE  Claim
      BY <3>1, <3>19 DEF Crash
    <3>20. ASSUME NEW k \in Tokens, ExpireToken(k)
          PROVE  Claim
      BY <3>1, <3>20 DEF ExpireToken, Issued, IInv, TypeOK
    <3>21. ASSUME NEW l \in ResetLinks, ExpireLink(l)
          PROVE  Claim
      BY <3>1, <3>21 DEF ExpireLink
    <3>22. CASE UNCHANGED vars
      BY <3>1, <3>22 DEF vars
    <3> QED BY <3>2, <3>3, <3>4, <3>5, <3>6, <3>7, <3>8, <3>9, <3>10, <3>11, <3>12, <3>13, <3>14, <3>15, <3>16, <3>17, <3>18, <3>19, <3>20, <3>21, <3>22 DEF Next
  <2> QED BY <2>1, NewRowStands
<1> QED BY <1>1, <1>2

\* Every step leaves each request as CallStands says.
LEMMA CallsStandStep ==
  IInv /\ [Next]_vars => CallsStand'
<1> SUFFICES ASSUME IInv, [Next]_vars, NEW q \in Requests PROVE CallStands(q)'
  BY DEF CallsStand

<1>1. ASSUME NEW r \in Requests, NEW u \in Users, Login(r, u)
      PROVE  CallStands(q)'
  <2>1. CASE q # r
    BY <1>1, <2>1, StillStanding DEF Login, Done, Goto, IInv, TypeOK, Writing, At
  <2>2. CASE q = r
    <3>1. call'[r] = [Started("issue", u) EXCEPT !.password = account[u].password]
      BY <1>1 DEF Login, IInv, TypeOK
    <3>2. /\ call'[r].step = "issue" /\ call'[r].user = u
          /\ call'[r].password = account[u].password
      BY <3>1 DEF Started
    <3>3. Usable(u) /\ account' = account
      BY <1>1 DEF Login
    <3> QED BY <2>2, <3>2, <3>3 DEF CallStands, At, Stands, Usable
  <2> QED BY <2>1, <2>2
<1>2. ASSUME NEW r \in Requests, NEW u \in Users, RequestReset(r, u)
      PROVE  CallStands(q)'
  <2>1. CASE q # r
    BY <1>2, <2>1, StillStanding DEF RequestReset, Done, Goto, IInv, TypeOK, Writing, At
  <2>2. CASE q = r
    <3>1. call'[r] = [Started("createLink", u) EXCEPT !.spent = UnusedLinks(u),
                                                      !.before = LinksOf(u)]
      BY <1>2 DEF RequestReset, IInv, TypeOK
    <3>2. call'[r].step \notin {"issue", "account", "rotate"}
      BY <3>1 DEF Started, AccountSteps
    <3> QED BY <2>2, <3>2 DEF CallStands, At
  <2> QED BY <2>1, <2>2
<1>3. ASSUME NEW r \in Requests, NEW u \in Users, NEW s \in AccountSteps, ChangeAccount(r, u, s)
      PROVE  CallStands(q)'
  <2>1. CASE q # r
    BY <1>3, <2>1, StillStanding DEF ChangeAccount, Done, Goto, IInv, TypeOK, Writing, At
  <2>2. CASE q = r
    <3>1. call'[r] = Started(s, u)
      BY <1>3 DEF ChangeAccount, IInv, TypeOK
    <3>2. call'[r].step \notin {"issue", "account", "rotate"}
      BY <3>1 DEF Started, AccountSteps
    <3> QED BY <2>2, <3>2 DEF CallStands, At
  <2> QED BY <2>1, <2>2
<1>4. ASSUME NEW r \in Requests, NEW t \in Tokens, IssueFamily(r, t)
      PROVE  CallStands(q)'
  BY <1>4, StillStanding DEF IssueFamily, Done, IInv, TypeOK, Writing, At
<1>5. ASSUME NEW r \in Requests, NEW t \in Tokens, Present(r, t)
      PROVE  CallStands(q)'
  <2>1. CASE q # r
    BY <1>5, <2>1, StillStanding DEF Present, Done, Goto, IInv, TypeOK, Writing, At
  <2>2. CASE q = r
    <3>1. /\ call'[r] = [Started(Verdict(t), token[t].user) EXCEPT !.token = t]
          /\ t \in Issued /\ UNCHANGED <<account, token, lost>> /\ call[r] = None
      BY <1>5 DEF Present, IInv, TypeOK
    <3>2. /\ call'[r].step = Verdict(t) /\ call'[r].user = token[t].user
          /\ call'[r].token = t
      BY <3>1 DEF Started
    <3>3. CASE token[t].revoked
      BY <2>2, <3>2, <3>3 DEF CallStands, At, Verdict
    <3>4. CASE ~token[t].revoked
      <4>1. TokenStands(t) \/ token[t].late
        BY <3>1, <3>4 DEF IInv, ChangeEndsSessions, Live, TokenStands, Excused
      <4>2. Pending(token[t].user) => Pending(token[t].user)'
        BY <1>5, <3>1 DEF Pending, At, Present, IInv, TypeOK
      <4>3. TokenStands(t)' \/ token'[t].late
        BY <3>1, <4>1, <4>2 DEF TokenStands, Excused, Stands, Usable
      <4> QED BY <2>2, <3>1, <3>2, <3>4, <4>3 DEF CallStands, TokenStands, At, Verdict
    <3> QED BY <3>3, <3>4
  <2> QED BY <2>1, <2>2
<1>6. ASSUME NEW r \in Requests, NEW t \in Tokens, Rotate(r, t)
      PROVE  CallStands(q)'
  BY <1>6, StillStanding DEF Rotate, Done, IInv, TypeOK, Writing, At
<1>7. ASSUME NEW r \in Requests, NEW t \in Tokens, Logout(r, t)
      PROVE  CallStands(q)'
  <2>1. CASE q # r
    BY <1>7, <2>1, StillStanding DEF Logout, Done, Goto, IInv, TypeOK, Writing, At
  <2>2. CASE q = r
    <3>1. call'[r] = [Started("endFamily", token[t].user) EXCEPT !.token = t]
      BY <1>7 DEF Logout, IInv, TypeOK
    <3>2. call'[r].step \notin {"issue", "account", "rotate"}
      BY <3>1 DEF Started, AccountSteps
    <3> QED BY <2>2, <3>2 DEF CallStands, At
  <2> QED BY <2>1, <2>2
<1>8. ASSUME NEW r \in Requests, NEW l \in ResetLinks, CreateLink(r, l)
      PROVE  CallStands(q)'
  BY <1>8, StillStanding DEF CreateLink, Done, IInv, TypeOK, Writing, At
<1>9. ASSUME NEW r \in Requests, NEW l \in ResetLinks, ConsumeLink(r, l)
      PROVE  CallStands(q)'
  <2>1. CASE q # r
    BY <1>9, <2>1, StillStanding DEF ConsumeLink, Done, Goto, IInv, TypeOK, Writing, At
  <2>2. CASE q = r
    <3>1. call'[r] = [Started("recheck", link[l].user) EXCEPT !.link = l]
      BY <1>9 DEF ConsumeLink, IInv, TypeOK
    <3>2. call'[r].step \notin {"issue", "account", "rotate"}
      BY <3>1 DEF Started, AccountSteps
    <3> QED BY <2>2, <3>2 DEF CallStands, At
  <2> QED BY <2>1, <2>2
<1>10. ASSUME NEW r \in Requests, NEW p \in Passwords, SetPassword(r, p)
      PROVE  CallStands(q)'
  <2>1. CASE q # r
    BY <1>10, <2>1, StillStanding DEF SetPassword, ThenRevoke, Done, Goto, IInv, TypeOK, Writing, At
  <2>2. CASE q = r
    <3>1. call[r] \in Call /\ call[r] # None
      BY <1>10 DEF SetPassword, At, IInv, TypeOK
    <3>2. call'[r] = None \/ call'[r] = [call[r] EXCEPT !.step = "revokeAll"]
      BY <1>10 DEF SetPassword, ThenRevoke, Goto, Done, IInv, TypeOK
    <3> QED BY <2>2, <3>1, <3>2 DEF CallStands, At, Call
  <2> QED BY <2>1, <2>2
<1>11. ASSUME NEW r \in Requests, RecheckAccount(r)
      PROVE  CallStands(q)'
  <2>1. CASE q # r
    BY <1>11, <2>1, StillStanding DEF RecheckAccount, Goto, IInv, TypeOK, Writing, At
  <2>2. CASE q = r
    <3>1. call[r] \in Call /\ call[r] # None /\ At(r, "account")
      BY <1>11 DEF RecheckAccount, At, IInv, TypeOK
    <3>2. \/ call'[r] = [call[r] EXCEPT !.step = "rotate"]
          \/ call'[r] = [call[r] EXCEPT !.step = "endFamily"]
      BY <1>11 DEF RecheckAccount, Goto, IInv, TypeOK
    <3>3. /\ call'[r].user = call[r].user /\ call'[r].token = call[r].token
          /\ call'[r].password = call[r].password /\ call'[r].late = call[r].late
          /\ call'[r].step \in {"rotate", "endFamily"}
      BY <3>1, <3>2 DEF Call
    <3> QED BY <2>2, <3>1, <3>3, StillStanding DEF Writing, At
  <2> QED BY <2>1, <2>2
<1>12. ASSUME NEW r \in Requests, RevokeFamily(r)
      PROVE  CallStands(q)'
  <2>1. CASE call'[q] = None
    BY <2>1 DEF CallStands, At
  <2>2. CASE call'[q] # None
    <3>1. call[q] # None /\ call[q] \in Call
      BY <1>12, <2>2 DEF RevokeFamily, Overtaking, IInv, TypeOK
    <3>2. call'[q] = call[q] \/ call'[q] = [call[q] EXCEPT !.late = TRUE]
      BY <1>12, <2>2 DEF RevokeFamily, Overtaking
    <3> QED BY <2>2, <3>1, <3>2, StillStanding DEF Writing, At, Call
  <2> QED BY <2>1, <2>2
<1>13. ASSUME NEW r \in Requests, RecheckReset(r)
      PROVE  CallStands(q)'
  <2>1. CASE q # r
    BY <1>13, <2>1, StillStanding DEF RecheckReset, ThenRevoke, Done, Goto, IInv, TypeOK, Writing, At
  <2>2. CASE q = r
    <3>1. call[r] \in Call /\ call[r] # None
      BY <1>13 DEF RecheckReset, At, IInv, TypeOK
    <3>2. call'[r] = None \/ call'[r] = [call[r] EXCEPT !.step = "password"]
      BY <1>13 DEF RecheckReset, ThenRevoke, Goto, Done, IInv, TypeOK
    <3> QED BY <2>2, <3>1, <3>2 DEF CallStands, At, Call
  <2> QED BY <2>1, <2>2
<1>14. ASSUME NEW r \in Requests, Deactivate(r)
      PROVE  CallStands(q)'
  <2>1. CASE q # r
    BY <1>14, <2>1, StillStanding DEF Deactivate, ThenRevoke, Done, Goto, IInv, TypeOK, Writing, At
  <2>2. CASE q = r
    <3>1. call[r] \in Call /\ call[r] # None
      BY <1>14 DEF Deactivate, At, IInv, TypeOK
    <3>2. call'[r] = None \/ call'[r] = [call[r] EXCEPT !.step = "revokeAll"]
      BY <1>14 DEF Deactivate, ThenRevoke, Goto, Done, IInv, TypeOK
    <3> QED BY <2>2, <3>1, <3>2 DEF CallStands, At, Call
  <2> QED BY <2>1, <2>2
<1>15. ASSUME NEW r \in Requests, Activate(r)
      PROVE  CallStands(q)'
  BY <1>15, StillStanding DEF Activate, Done, IInv, TypeOK, Writing, At
<1>16. ASSUME NEW r \in Requests, RemoveUser(r)
      PROVE  CallStands(q)'
  <2>1. CASE q # r
    BY <1>16, <2>1, StillStanding DEF RemoveUser, ThenRevoke, Done, Goto, IInv, TypeOK, Writing, At
  <2>2. CASE q = r
    <3>1. call[r] \in Call /\ call[r] # None
      BY <1>16 DEF RemoveUser, At, IInv, TypeOK
    <3>2. call'[r] = None \/ call'[r] = [call[r] EXCEPT !.step = "revokeAll"]
      BY <1>16 DEF RemoveUser, ThenRevoke, Goto, Done, IInv, TypeOK
    <3> QED BY <2>2, <3>1, <3>2 DEF CallStands, At, Call
  <2> QED BY <2>1, <2>2
<1>17. ASSUME NEW r \in Requests, RevokeAllForUser(r)
      PROVE  CallStands(q)'
  <2>1. CASE call'[q] = None
    BY <2>1 DEF CallStands, At
  <2>2. CASE call'[q] # None
    <3>1. call[q] # None /\ call[q] \in Call
      BY <1>17, <2>2 DEF RevokeAllForUser, Overtaking, IInv, TypeOK
    <3>2. call'[q] = call[q] \/ call'[q] = [call[q] EXCEPT !.late = TRUE]
      BY <1>17, <2>2 DEF RevokeAllForUser, Overtaking
    <3> QED BY <2>2, <3>1, <3>2, StillStanding DEF Writing, At, Call
  <2> QED BY <2>1, <2>2
<1>18. ASSUME NEW r \in Requests, Crash(r)
      PROVE  CallStands(q)'
  BY <1>18, StillStanding DEF Crash, Done, IInv, TypeOK, Writing, At
<1>19. ASSUME NEW t \in Tokens, ExpireToken(t)
      PROVE  CallStands(q)'
  BY <1>19, StillStanding DEF ExpireToken, Writing, At
<1>20. ASSUME NEW l \in ResetLinks, ExpireLink(l)
      PROVE  CallStands(q)'
  BY <1>20, StillStanding DEF ExpireLink, Writing, At
<1>21. CASE UNCHANGED vars
  BY <1>21, StillStanding DEF vars, Writing, At
<1> QED
  BY <1>1, <1>2, <1>3, <1>4, <1>5, <1>6, <1>7, <1>8, <1>9, <1>10, <1>11, <1>12, <1>13, <1>14, <1>15, <1>16, <1>17, <1>18, <1>19, <1>20, <1>21 DEF Next

-----------------------------------------------------------------------------
LEMMA InitIInv == Init => IInv
<1> SUFFICES ASSUME Init PROVE IInv
  OBVIOUS
<1>1. TypeOK
  BY DEF Init, TypeOK, Account
<1>2. CallsFilled /\ ChangeEndsSessions /\ CallsStand
  BY DEF Init, CallsFilled, Filled, ChangeEndsSessions, CallsStand, CallStands, Live, Issued, At
<1> QED BY <1>1, <1>2 DEF IInv

LEMMA NextIInv == IInv /\ [Next]_vars => IInv'
BY TypeStep, FilledStep, TokensStandStep, CallsStandStep DEF IInv

\* The columns and the requests keep their types (the schema of users, refresh_tokens
\* and password_reset_tokens).
THEOREM SessionsTyped == Spec => []TypeOK
<1>1. IInv => TypeOK
  BY DEF IInv
<1> QED BY InitIInv, NextIInv, <1>1, PTL DEF Spec

\* AuthService and UsersService: after a password change, a deactivation or a removal no
\* token of the account can refresh, but for one whose writer was overtaken or a
\* revocation that is pending or was lost.
THEOREM SessionsEnd == Spec => []ChangeEndsSessions
<1>1. IInv => ChangeEndsSessions
  BY DEF IInv
<1> QED BY InitIInv, NextIInv, <1>1, PTL DEF Spec

-----------------------------------------------------------------------------
(* Sessions that have ended stay ended. *)

\* A family is named by its first row, and belongs to one account.
Rooted ==
  \A t \in Issued : token[t].family \in Issued /\ token[token[t].family].user = token[t].user

Refreshes(r) == At(r, "account") \/ At(r, "rotate")

\* A refresh that has verified its token, and that no revocation has overtaken, is of a
\* family that still has a live token: its own, or the one that replaced it.
Verified ==
  \A r \in Requests :
    Refreshes(r) /\ ~call[r].late => Live(Family(token[call[r].token].family)) # {}

\* A step that writes no token, but for its expiry.
Untouched ==
  /\ Issued' = Issued
  /\ \A t \in Issued : /\ token'[t].user = token[t].user
                       /\ token'[t].family = token[t].family
                       /\ token'[t].revoked = token[t].revoked

Touches(r) ==
  \/ RevokeFamily(r) \/ RevokeAllForUser(r)
  \/ \E t \in Tokens : IssueFamily(r, t) \/ Rotate(r, t)

\* The requests a step leaves refreshing: they were before, or one presents a live token.
StillRefreshing(r) ==
  Refreshes(r) /\ ~call[r].late /\ call'[r].token = call[r].token
Presents(r) == token' = token /\ call'[r].token \in Live(Issued)

LEMMA OthersCalls ==
  ASSUME TypeOK, NEW r \in Requests, NEW q \in Requests, q # r,
         Refreshes(q)', ~call'[q].late,
         \/ Done(r)
         \/ \E s : Goto(r, s)
         \/ \E c : call' = [call EXCEPT ![r] = c]
         \/ \E Q : (\A p \in Q : call[p] # None) /\ call' = Overtaking(r, Q)
  PROVE  StillRefreshing(q)
<1>1. call \in [Requests -> Call \cup {None}]
  BY DEF TypeOK
<1>2. CASE call'[q] = call[q]
  BY <1>2 DEF StillRefreshing, Refreshes, At
<1>3. CASE \E Q : (\A p \in Q : call[p] # None) /\ call' = Overtaking(r, Q)
  <2> PICK Q : (\A p \in Q : call[p] # None) /\ call' = Overtaking(r, Q)
    BY <1>3
  <2>1. CASE q \in Q /\ call[q] # None
    <3>1. call'[q] = [call[q] EXCEPT !.late = TRUE] /\ call[q] \in Call
      BY <1>1, <2>1 DEF Overtaking
    <3>2. call'[q].late
      BY <3>1 DEF Call
    <3> QED  BY <3>2
  <2>2. CASE q \notin Q
    <3>1. call'[q] = call[q]
      BY <2>2 DEF Overtaking
    <3> QED  BY <1>2, <3>1
  <2> QED  BY <2>1, <2>2
<1> QED  BY <1>1, <1>2, <1>3 DEF Done, Goto

LEMMA RefreshingStep ==
  ASSUME IInv, [Next]_vars, NEW q \in Requests, Refreshes(q)', ~call'[q].late
  PROVE  StillRefreshing(q) \/ Presents(q)
<1> USE DEF IInv
<1>1. call \in [Requests -> Call \cup {None}]
  BY DEF TypeOK
<1>2. ASSUME NEW r \in Requests, call[r] # None,
             NEW s, Goto(r, s), s \notin {"account", "rotate"}
      PROVE  StillRefreshing(q)
  <2>1. CASE q = r
    <3>1. call'[r] = [call[r] EXCEPT !.step = s]
      BY <1>1, <1>2 DEF Goto
    <3>2. call'[r].step = s
      BY <1>1, <1>2, <3>1 DEF Call
    <3> QED  BY <1>2, <2>1, <3>2 DEF Refreshes, At
  <2> QED  BY <1>2, <2>1, OthersCalls
<1>3. ASSUME NEW r \in Requests, Done(r)
      PROVE  StillRefreshing(q)
  <2>1. CASE q = r
    BY <1>1, <1>3, <2>1 DEF Done, Refreshes, At
  <2> QED  BY <1>3, <2>1, OthersCalls
<1>4. ASSUME NEW r \in Requests, NEW c, c.step \notin {"account", "rotate"},
             call' = [call EXCEPT ![r] = c]
      PROVE  StillRefreshing(q)
  <2>1. CASE q = r
    BY <1>1, <1>4, <2>1 DEF Refreshes, At
  <2> QED  BY <1>4, <2>1, OthersCalls
<1>5. ASSUME NEW r \in Requests, NEW Q, \A p \in Q : call[p] # None, call' = Overtaking(r, Q)
      PROVE  StillRefreshing(q)
  <2>1. CASE q = r
    BY <1>5, <2>1 DEF Overtaking, Refreshes, At
  <2> QED  BY <1>5, <2>1, OthersCalls
<1>6. CASE UNCHANGED call
  BY <1>6 DEF StillRefreshing, Refreshes, At
<1>7. ASSUME NEW r \in Requests, NEW u \in Users, Login(r, u)
      PROVE  StillRefreshing(q)
  BY <1>4, <1>7 DEF Login, Started
<1>8. ASSUME NEW r \in Requests, NEW u \in Users, RequestReset(r, u)
      PROVE  StillRefreshing(q)
  BY <1>4, <1>8 DEF RequestReset, Started
<1>9. ASSUME NEW r \in Requests, NEW u \in Users, NEW s \in AccountSteps, ChangeAccount(r, u, s)
      PROVE  StillRefreshing(q)
  BY <1>4, <1>9 DEF ChangeAccount, Started, AccountSteps
<1>10. ASSUME NEW r \in Requests, NEW t \in Tokens, Present(r, t)
      PROVE  StillRefreshing(q) \/ Presents(q)
  <2>1. CASE q = r
    <3> DEFINE c == [Started(Verdict(t), token[t].user) EXCEPT !.token = t]
    <3>1. call'[r] = c /\ token' = token /\ t \in Issued
      BY <1>1, <1>10 DEF Present
    <3>2. c.step = Verdict(t) /\ c.token = t
      BY DEF Started
    <3>3. ~token[t].revoked
      BY <2>1, <3>1, <3>2 DEF Refreshes, At, Verdict
    <3> QED  BY <2>1, <3>1, <3>2, <3>3 DEF Presents, Live
  <2> QED  BY <1>10, <2>1, OthersCalls DEF Present
<1>11. ASSUME NEW r \in Requests, NEW t \in Tokens, Logout(r, t)
      PROVE  StillRefreshing(q)
  BY <1>4, <1>11 DEF Logout, Started
<1>12. ASSUME NEW r \in Requests, NEW l \in ResetLinks, ConsumeLink(r, l)
      PROVE  StillRefreshing(q)
  BY <1>4, <1>12 DEF ConsumeLink, Started
<1>13. ASSUME NEW r \in Requests, RecheckAccount(r)
      PROVE  StillRefreshing(q)
  <2>1. CASE q = r
    <3>1. call[r] \in Call /\ Refreshes(r)
      BY <1>1, <1>13 DEF RecheckAccount, Refreshes, At
    <3>2. \E s : call'[r] = [call[r] EXCEPT !.step = s]
      BY <1>1, <1>13 DEF RecheckAccount, Goto
    <3>3. call'[r].token = call[r].token /\ call'[r].late = call[r].late
      BY <3>1, <3>2 DEF Call
    <3> QED  BY <2>1, <3>1, <3>3 DEF StillRefreshing
  <2> QED  BY <1>13, <2>1, OthersCalls DEF RecheckAccount
<1>14. ASSUME NEW r \in Requests, RevokeFamily(r) \/ RevokeAllForUser(r)
      PROVE  StillRefreshing(q)
  BY <1>5, <1>14 DEF RevokeFamily, RevokeAllForUser
<1>15. ASSUME NEW r \in Requests,
              \/ RecheckReset(r) \/ Deactivate(r) \/ Activate(r) \/ RemoveUser(r) \/ Crash(r)
              \/ \E p \in Passwords : SetPassword(r, p)
              \/ \E t \in Tokens : IssueFamily(r, t) \/ Rotate(r, t)
              \/ \E l \in ResetLinks : CreateLink(r, l)
       PROVE  StillRefreshing(q)
  BY <1>2, <1>3, <1>15
     DEF RecheckReset, Deactivate, Activate, RemoveUser, Crash, SetPassword, IssueFamily, Rotate,
         CreateLink, ThenRevoke, At
<1>16. CASE (\E t \in Tokens : ExpireToken(t)) \/ (\E l \in ResetLinks : ExpireLink(l)) \/ UNCHANGED vars
  BY <1>6, <1>16 DEF ExpireToken, ExpireLink, vars
<1> QED
  BY <1>7, <1>8, <1>9, <1>10, <1>11, <1>12, <1>13, <1>14, <1>15, <1>16 DEF Next

\* Only the writes of tokens touch them.
LEMMA UntouchedStep ==
  ASSUME IInv, [Next]_vars, ~\E r \in Requests : Touches(r)
  PROVE  Untouched
<1>1. CASE UNCHANGED token
  BY <1>1 DEF Untouched, Issued
<1>2. ASSUME NEW t \in Tokens, ExpireToken(t)
      PROVE  Untouched
  <2>1. token[t] \in Row /\ token' = [token EXCEPT ![t].expired = TRUE]
        /\ token \in [Tokens -> Row \cup {None}]
    BY <1>2 DEF ExpireToken, Issued, IInv, TypeOK
  <2>2. [token[t] EXCEPT !.expired = TRUE] \in Row
    BY <2>1 DEF Row
  <2>3. \A k \in Tokens \ {t} : token'[k] = token[k]
    BY <2>1
  <2>4. /\ token'[t] \in Row /\ token'[t].user = token[t].user
        /\ token'[t].family = token[t].family /\ token'[t].revoked = token[t].revoked
    BY <2>1, <2>2 DEF Row
  <2> QED  BY <2>1, <2>3, <2>4, NoneIsNoRow DEF Untouched, Issued
<1>3. ASSUME NEW r \in Requests, NEW u \in Users,
             \/ Login(r, u) \/ RequestReset(r, u)
             \/ \E s \in AccountSteps : ChangeAccount(r, u, s)
      PROVE  Untouched
  BY <1>1, <1>3 DEF Login, RequestReset, ChangeAccount
<1>4. ASSUME NEW r \in Requests,
             \/ \E t \in Tokens : Present(r, t) \/ Logout(r, t)
             \/ \E l \in ResetLinks : CreateLink(r, l) \/ ConsumeLink(r, l)
             \/ \E p \in Passwords : SetPassword(r, p)
             \/ RecheckAccount(r) \/ RecheckReset(r) \/ Deactivate(r) \/ Activate(r)
             \/ RemoveUser(r) \/ Crash(r)
      PROVE  Untouched
  BY <1>1, <1>4
     DEF Present, Logout, CreateLink, ConsumeLink, SetPassword, RecheckAccount, RecheckReset,
         Deactivate, Activate, RemoveUser, Crash
<1>5. CASE (\E l \in ResetLinks : ExpireLink(l)) \/ UNCHANGED vars
  BY <1>1, <1>5 DEF ExpireLink, vars
<1> QED  BY <1>2, <1>3, <1>4, <1>5 DEF Next, Touches

\* A sign-in opens a family of its own.
Opens(r, t) ==
  /\ t \notin Issued /\ Issued' = Issued \cup {t}
  /\ token'[t].family = t /\ ~token'[t].revoked
  /\ \A k \in Issued : token'[k] = token[k]

\* A refresh adds a live row to the presented one's family, and revokes only that one.
Renews(r, t) ==
  LET old == call[r].token
  IN /\ t \notin Issued /\ Issued' = Issued \cup {t} /\ old \in Issued
     /\ token'[t].family = token[old].family /\ token'[t].user = token[old].user
     /\ ~token'[t].revoked
     /\ \A k \in Issued : /\ token'[k].user = token[k].user
                          /\ token'[k].family = token[k].family
                          /\ k # old => token'[k].revoked = token[k].revoked
                          /\ token[k].revoked => token'[k].revoked

\* The rows S are revoked.
Closes(S) ==
  /\ Issued' = Issued
  /\ \A k \in Issued : /\ token'[k].user = token[k].user
                       /\ token'[k].family = token[k].family
                       /\ token'[k].revoked <=> k \in S \/ token[k].revoked

LEMMA OpensLemma ==
  ASSUME IInv, NEW r \in Requests, NEW t \in Tokens, IssueFamily(r, t)
  PROVE  Opens(r, t)
<1> DEFINE row == [user |-> call[r].user, family |-> t, revoked |-> FALSE,
                   expired |-> FALSE, password |-> call[r].password, late |-> call[r].late]
<1>1. token' = [token EXCEPT ![t] = row] /\ token[t] = None
      /\ token \in [Tokens -> Row \cup {None}]
  BY DEF IssueFamily, IInv, TypeOK
<1>2. row \in Row
  <2>1. call[r] \in Call /\ call[r].password \in Passwords
    BY DEF IssueFamily, IInv, TypeOK, CallsFilled, Filled, At
  <2> QED BY <2>1 DEF Call, Row
<1>3. row.family = t /\ ~row.revoked
  OBVIOUS
<1> HIDE DEF row
<1>4. row # None
  BY <1>2, NoneIsNoRow
<1> QED  BY <1>1, <1>3, <1>4 DEF Opens, Issued

LEMMA RevokedRows ==
  ASSUME IInv, NEW S \in SUBSET Issued, token' = Revoked(S)
  PROVE  Closes(S)
<1>1. ASSUME NEW k \in Tokens
      PROVE  /\ k \in Issued <=> k \in Issued'
             /\ k \in Issued => /\ token'[k].user = token[k].user
                                /\ token'[k].family = token[k].family
                                /\ token'[k].revoked <=> k \in S \/ token[k].revoked
  <2>1. token[k] \in Row \cup {None}
    BY DEF IInv, TypeOK
  <2>2. CASE k \in S
    <3>1. token'[k] = [token[k] EXCEPT !.revoked = TRUE] /\ token[k] \in Row
      BY <2>1, <2>2 DEF Revoked, Issued
    <3>2. /\ token'[k] \in Row /\ token'[k].user = token[k].user
          /\ token'[k].family = token[k].family /\ token'[k].revoked
      BY <3>1 DEF Row
    <3>3. token'[k] # None
      BY <3>2, NoneIsNoRow
    <3>4. token'[k].revoked \in BOOLEAN
      BY <3>2 DEF Row
    <3> QED  BY <2>2, <3>2, <3>3, <3>4 DEF Issued
  <2>3. CASE k \notin S
    <3>1. token'[k] = token[k]
      BY <2>3 DEF Revoked
    <3>2. k \in Issued => token[k].revoked \in BOOLEAN
      BY <2>1 DEF Issued, Row
    <3> QED  BY <2>3, <3>1, <3>2 DEF Issued
  <2> QED  BY <2>2, <2>3
<1> QED  BY <1>1 DEF Closes, Issued

LEMMA RenewsLemma ==
  ASSUME IInv, NEW r \in Requests, NEW t \in Tokens, Rotate(r, t)
  PROVE  Renews(r, t)
<1> DEFINE old == call[r].token
           row == [token[old] EXCEPT !.revoked = FALSE, !.expired = FALSE,
                                     !.late = @ \/ call[r].late]
<1>1. /\ token' = [Revoked({old}) EXCEPT ![t] = row] /\ token[t] = None
      /\ old \in Issued /\ token[old] \in Row /\ call[r] \in Call
      /\ token \in [Tokens -> Row \cup {None}]
  BY DEF Rotate, Replaced, IInv, TypeOK, CallsFilled, Filled, At, Issued
<1>2. row \in Row
  <2>1. (token[old].late \/ call[r].late) \in BOOLEAN
    BY <1>1 DEF Row, Call
  <2> QED BY <1>1, <2>1 DEF Row
<1>3. row.family = token[old].family /\ row.user = token[old].user /\ ~row.revoked
  BY <1>1 DEF Row
<1> HIDE DEF row
<1>4. token'[t] = row /\ row # None
  BY <1>1, <1>2, NoneIsNoRow DEF Revoked
<1>5. ASSUME NEW k \in Tokens, k # t
      PROVE  /\ k \in Issued <=> k \in Issued'
             /\ k \in Issued => /\ token'[k].user = token[k].user
                                /\ token'[k].family = token[k].family
                                /\ k # old => token'[k].revoked = token[k].revoked
                                /\ token[k].revoked => token'[k].revoked
  <2>1. CASE k = old
    <3>1. token'[k] = [token[k] EXCEPT !.revoked = TRUE] /\ token[k] \in Row
      BY <1>1, <1>5, <2>1 DEF Revoked
    <3>2. /\ token'[k] \in Row /\ token'[k].user = token[k].user
          /\ token'[k].family = token[k].family /\ token'[k].revoked
      BY <3>1 DEF Row
    <3>3. token'[k] # None
      BY <3>2, NoneIsNoRow
    <3> QED  BY <1>1, <2>1, <3>2, <3>3 DEF Issued
  <2>2. CASE k # old
    <3>1. token'[k] = token[k]
      BY <1>1, <1>5, <2>2 DEF Revoked
    <3> QED  BY <2>2, <3>1 DEF Issued
  <2> QED  BY <2>1, <2>2
<1> QED  BY <1>1, <1>3, <1>4, <1>5 DEF Renews, Issued

LEMMA RootedStep ==
  ASSUME IInv, Rooted, [Next]_vars
  PROVE  Rooted'
<1>1. CASE Untouched
  BY <1>1 DEF Untouched, Rooted
<1>2. ASSUME NEW r \in Requests, NEW t \in Tokens, IssueFamily(r, t)
      PROVE  Rooted'
  BY <1>2, OpensLemma DEF Opens, Rooted
<1>3. ASSUME NEW r \in Requests, NEW t \in Tokens, Rotate(r, t)
      PROVE  Rooted'
  BY <1>3, RenewsLemma DEF Renews, Rooted
<1>4. ASSUME NEW S \in SUBSET Issued, token' = Revoked(S)
      PROVE  Rooted'
  BY <1>4, RevokedRows DEF Closes, Rooted
<1> QED  BY <1>1, <1>2, <1>3, <1>4, UntouchedStep
         DEF Touches, RevokeFamily, RevokeAllForUser, Family, OfUser

\* A family that has a live token at the start of a step and none at its end was revoked,
\* and the requests that had verified a token of it are late.
LEMMA FamilyLives ==
  ASSUME IInv, Rooted, [Next]_vars, NEW q \in Requests, StillRefreshing(q),
         Live(Family(token[call[q].token].family)) # {}, Refreshes(q)', ~call'[q].late
  PROVE  Live(Family(token[call[q].token].family))' # {}
<1> DEFINE k == call[q].token
           f == token[k].family
<1>0. /\ k \in Issued /\ call'[q].token = k /\ call[q] # None /\ call[q].user = token[k].user
      /\ call[q] \in Call /\ ~call[q].late
  BY DEF StillRefreshing, Refreshes, IInv, TypeOK, CallsFilled, Filled, At
<1> PICK w \in Issued : token[w].family = f /\ ~token[w].revoked
  BY DEF Live, Family
<1>1. CASE Untouched
  BY <1>0, <1>1 DEF Untouched, Live, Family
<1>2. ASSUME NEW r \in Requests, NEW t \in Tokens, IssueFamily(r, t)
      PROVE  Live(Family(f))' # {}
  BY <1>0, <1>2, OpensLemma DEF Opens, Live, Family
<1>3. ASSUME NEW r \in Requests, NEW t \in Tokens, Rotate(r, t)
      PROVE  Live(Family(f))' # {}
  <2>1. Renews(r, t)
    BY <1>3, RenewsLemma
  <2>2. CASE w = call[r].token
    <3>1. t \in Issued' /\ token'[t].family = f /\ ~token'[t].revoked
      BY <2>1, <2>2 DEF Renews
    <3>2. token'[k].family = f
      BY <1>0, <2>1 DEF Renews
    <3> QED  BY <1>0, <3>1, <3>2 DEF Live, Family
  <2>3. CASE w # call[r].token
    <3>1. w \in Issued' /\ token'[w].family = f /\ ~token'[w].revoked /\ token'[k].family = f
      BY <1>0, <2>1, <2>3 DEF Renews
    <3> QED  BY <1>0, <3>1 DEF Live, Family
  <2> QED  BY <2>2, <2>3
<1>4. ASSUME NEW r \in Requests, RevokeFamily(r)
      PROVE  Live(Family(f))' # {}
  <2> DEFINE S == Family(token[call[r].token].family)
             Q == {p \in Requests : call[p] # None /\ call[p].token \in S}
  <2>1. token' = Revoked(S) /\ call' = Overtaking(r, Q)
    BY <1>4 DEF RevokeFamily
  <2>2. k \notin S
    <3>1. q # r
      BY <2>1 DEF Overtaking, Refreshes, At
    <3>2. q \in Q => call'[q] = [call[q] EXCEPT !.late = TRUE]
      BY <2>1, <3>1 DEF Overtaking
    <3>3. q \notin Q
      BY <1>0, <3>2 DEF Call
    <3> QED  BY <1>0, <3>3
  <2>3. w \notin S
    BY <1>0, <2>2 DEF Family
  <2>4. Closes(S)
    BY <2>1, RevokedRows DEF Family
  <2> QED  BY <1>0, <2>3, <2>4 DEF Closes, Live, Family
<1>5. ASSUME NEW r \in Requests, RevokeAllForUser(r)
      PROVE  Live(Family(f))' # {}
  <2> DEFINE u == call[r].user
             Q == {p \in Requests : call[p] # None /\ call[p].user = u}
  <2>1. token' = Revoked(OfUser(u)) /\ call' = Overtaking(r, Q)
    BY <1>5 DEF RevokeAllForUser
  <2>2. token[k].user # u
    <3>1. q # r
      BY <2>1 DEF Overtaking, Refreshes, At
    <3>2. q \in Q => call'[q] = [call[q] EXCEPT !.late = TRUE]
      BY <2>1, <3>1 DEF Overtaking
    <3>3. q \notin Q
      BY <1>0, <3>2 DEF Call
    <3> QED  BY <1>0, <3>3
  <2>3. token[w].user = token[k].user
    BY <1>0 DEF Rooted
  <2>4. Closes(OfUser(u)) /\ w \notin OfUser(u)
    BY <2>1, <2>2, <2>3, RevokedRows DEF OfUser
  <2> QED  BY <1>0, <2>4 DEF Closes, Live, Family
<1> QED  BY <1>1, <1>2, <1>3, <1>4, <1>5, <1>0, UntouchedStep DEF Touches

LEMMA VerifiedStep ==
  ASSUME IInv, Rooted, Verified, [Next]_vars
  PROVE  Verified'
<1> SUFFICES ASSUME NEW q \in Requests, Refreshes(q)', ~call'[q].late
             PROVE  Live(Family(token[call[q].token].family))' # {}
  BY DEF Verified
<1>1. CASE StillRefreshing(q)
  <2>1. Live(Family(token[call[q].token].family)) # {}
    BY <1>1 DEF Verified, StillRefreshing
  <2> QED  BY <1>1, <2>1, FamilyLives
<1>2. CASE Presents(q)
  <2> DEFINE k == call'[q].token
  <2>1. k \in Issued' /\ ~token'[k].revoked
    BY <1>2 DEF Presents, Live, Issued
  <2> QED  BY <2>1 DEF Live, Family
<1> QED  BY <1>1, <1>2, RefreshingStep

\* A family with no live token gets none, but from a refresh that had verified one.
LEMMA EndedStep ==
  ASSUME IInv, Rooted, Verified, [Next]_vars, NEW f \in Tokens,
         Family(f) # {}, Live(Family(f)) = {},
         \A r \in Requests : Refreshing(r, Family(f)) => ~call[r].late
  PROVE  Live(Family(f))' = {}
<1>1. ASSUME NEW k \in Issued, token[k].family = f PROVE token[k].revoked
  BY <1>1 DEF Live, Family
<1>2. CASE Untouched
  BY <1>1, <1>2 DEF Untouched, Live, Family
<1>3. ASSUME NEW r \in Requests, NEW t \in Tokens, IssueFamily(r, t)
      PROVE  Live(Family(f))' = {}
  <2>1. f \in Issued
    BY DEF Rooted, Family
  <2> QED  BY <1>1, <1>3, <2>1, OpensLemma DEF Opens, Live, Family
<1>4. ASSUME NEW r \in Requests, NEW t \in Tokens, Rotate(r, t)
      PROVE  Live(Family(f))' = {}
  <2>1. Renews(r, t)
    BY <1>4, RenewsLemma
  <2>2. token[call[r].token].family # f
    <3>1. Refreshes(r)
      BY <1>4 DEF Rotate, Refreshes
    <3>2. call[r].token \in Family(f) => Refreshing(r, Family(f))
      BY <3>1 DEF Refreshing, Refreshes
    <3>3. call[r].token \notin Family(f)
      BY <3>1, <3>2 DEF Verified, Family
    <3> QED  BY <2>1, <3>3 DEF Renews, Family
  <2> QED  BY <1>1, <2>1, <2>2 DEF Renews, Live, Family
<1>5. ASSUME NEW S \in SUBSET Issued, token' = Revoked(S)
      PROVE  Live(Family(f))' = {}
  BY <1>1, <1>5, RevokedRows DEF Closes, Live, Family
<1> QED  BY <1>2, <1>3, <1>4, <1>5, UntouchedStep
         DEF Touches, RevokeFamily, RevokeAllForUser, Family, OfUser

\* A session that has ended stays ended, unless a refresh that had verified one of its
\* tokens before it ended is still to write its replacement (rotate does not look again).
THEOREM EndedStaysEnded == Spec => EndedSessionsStay
<1> DEFINE Stays ==
      \A f \in Tokens :
        /\ Family(f) # {} /\ Live(Family(f)) = {}
        /\ \A r \in Requests : Refreshing(r, Family(f)) => ~call[r].late
        => Live(Family(f))' = {}
<1>1. Init => Rooted /\ Verified
  BY DEF Init, Rooted, Verified, Refreshes, At, Issued
<1>2. IInv /\ Rooted /\ Verified /\ [Next]_vars => Rooted' /\ Verified'
  BY RootedStep, VerifiedStep
<1>3. IInv /\ Rooted /\ Verified /\ [Next]_vars => Stays
  BY EndedStep
<1> QED  BY <1>1, <1>2, <1>3, InitIInv, NextIInv, PTL DEF Spec, EndedSessionsStay

-----------------------------------------------------------------------------
(* Reset links. *)

\* The link a request holds is spent.
LinksMarked ==
  \A r \in Requests :
    call[r] # None /\ call[r].link # None
      => /\ call[r].link \in ResetLinks
         /\ link[call[r].link] # None /\ link[call[r].link].used

\* A request holds the link it held, unless it spends one.
SameLink(r) ==
  call'[r] # None =>
    \/ call[r] # None /\ call'[r].link = call[r].link
    \/ call'[r].link = None

\* A link that is there stays there, and a spent one stays spent.
SpentStays ==
  \A l \in ResetLinks : link[l] # None => /\ link'[l] # None
                                          /\ link[l].used => link'[l].used

LEMMA SpentStaysStep ==
  ASSUME IInv, [Next]_vars
  PROVE  SpentStays
<1> USE DEF IInv
<1>1. CASE UNCHANGED link
  BY <1>1 DEF SpentStays
<1>2. ASSUME NEW r \in Requests, NEW l \in ResetLinks, CreateLink(r, l)
      PROVE  SpentStays
  <2> SUFFICES ASSUME NEW k \in ResetLinks, link[k] # None
               PROVE  link'[k] # None /\ (link[k].used => link'[k].used)
    BY DEF SpentStays
  <2>1. k # l /\ link[k] \in Link
    BY <1>2 DEF CreateLink, TypeOK
  <2>2. CASE k \in SpentBy(r)
    <3>1. link'[k] = [link[k] EXCEPT !.used = TRUE]
      BY <1>2, <2>1, <2>2 DEF CreateLink
    <3>2. link'[k] \in Link /\ link'[k].used
      BY <2>1, <3>1 DEF Link
    <3> QED  BY <3>2, NoneIsNoRow
  <2>3. CASE k \notin SpentBy(r)
    BY <1>2, <2>1, <2>3 DEF CreateLink
  <2> QED  BY <2>2, <2>3
<1>3. ASSUME NEW l \in ResetLinks, NEW b \in Link,
             link' = [link EXCEPT ![l] = b], link[l] # None, link[l].used => b.used
      PROVE  SpentStays
  BY <1>3, NoneIsNoRow DEF SpentStays, TypeOK
<1>4. ASSUME NEW r \in Requests, NEW l \in ResetLinks, ConsumeLink(r, l)
      PROVE  SpentStays
  <2>1. link[l] \in Link /\ link[l] # None /\ link' = [link EXCEPT ![l].used = TRUE]
    BY <1>4 DEF ConsumeLink, Spendable, TypeOK
  <2> DEFINE b == [link[l] EXCEPT !.used = TRUE]
  <2>2. b \in Link /\ b.used /\ link' = [link EXCEPT ![l] = b]
    BY <2>1 DEF Link
  <2> QED  BY <1>3, <2>1, <2>2
<1>5. ASSUME NEW l \in ResetLinks, ExpireLink(l)
      PROVE  SpentStays
  <2>1. link[l] \in Link /\ link[l] # None /\ link' = [link EXCEPT ![l].expired = TRUE]
    BY <1>5 DEF ExpireLink, TypeOK
  <2> DEFINE b == [link[l] EXCEPT !.expired = TRUE]
  <2>2. b \in Link /\ b.used = link[l].used /\ link' = [link EXCEPT ![l] = b]
    BY <2>1 DEF Link
  <2> QED  BY <1>3, <2>1, <2>2
<1>6. ASSUME NEW r \in Requests, NEW u \in Users,
             \/ Login(r, u) \/ RequestReset(r, u)
             \/ \E s \in AccountSteps : ChangeAccount(r, u, s)
      PROVE  SpentStays
  BY <1>1, <1>6 DEF Login, RequestReset, ChangeAccount
<1>7. ASSUME NEW r \in Requests,
             \/ \E t \in Tokens : \/ IssueFamily(r, t) \/ Present(r, t)
                                  \/ Rotate(r, t) \/ Logout(r, t)
             \/ \E p \in Passwords : SetPassword(r, p)
             \/ RecheckAccount(r) \/ RevokeFamily(r) \/ RecheckReset(r)
             \/ Deactivate(r) \/ Activate(r) \/ RemoveUser(r) \/ RevokeAllForUser(r) \/ Crash(r)
      PROVE  SpentStays
  BY <1>1, <1>7
     DEF IssueFamily, Present, Rotate, Logout, SetPassword, RecheckAccount, RevokeFamily,
         RecheckReset, Deactivate, Activate, RemoveUser, RevokeAllForUser, Crash
<1>8. CASE (\E t \in Tokens : ExpireToken(t)) \/ UNCHANGED vars
  BY <1>1, <1>8 DEF ExpireToken, vars
<1> QED  BY <1>2, <1>4, <1>5, <1>6, <1>7, <1>8 DEF Next

Spends(r) == \E l \in ResetLinks : ConsumeLink(r, l)

LEMMA SameLinkStep ==
  ASSUME IInv, [Next]_vars, NEW q \in Requests, ~Spends(q)
  PROVE  SameLink(q)
<1> USE DEF IInv
<1>1. call \in [Requests -> Call \cup {None}]
  BY DEF TypeOK
<1>2. ASSUME NEW r \in Requests, call[r] # None, NEW s, Goto(r, s)
      PROVE  SameLink(q)
  <2>1. CASE q = r
    <3>1. call'[r] = [call[r] EXCEPT !.step = s] /\ call[r] \in Call
      BY <1>1, <1>2 DEF Goto
    <3>2. call'[r].link = call[r].link
      BY <3>1 DEF Call
    <3> QED  BY <1>2, <2>1, <3>2 DEF SameLink
  <2>2. CASE q # r
    BY <1>1, <1>2, <2>2 DEF Goto, SameLink
  <2> QED  BY <2>1, <2>2
<1>3. ASSUME NEW r \in Requests, Done(r)
      PROVE  SameLink(q)
  BY <1>1, <1>3 DEF Done, SameLink
<1>4. ASSUME NEW r \in Requests, NEW c, q # r \/ c.link = None, call' = [call EXCEPT ![r] = c]
      PROVE  SameLink(q)
  BY <1>1, <1>4 DEF SameLink
<1>5. ASSUME NEW r \in Requests, NEW Q, \A p \in Q : call[p] # None, call' = Overtaking(r, Q)
      PROVE  SameLink(q)
  <2>1. CASE q # r /\ q \in Q
    <3>1. call'[q] = [call[q] EXCEPT !.late = TRUE] /\ call[q] \in Call /\ call[q] # None
      BY <1>1, <1>5, <2>1 DEF Overtaking
    <3>2. call'[q].link = call[q].link
      BY <3>1 DEF Call
    <3> QED  BY <3>1, <3>2 DEF SameLink
  <2>2. CASE q = r \/ q \notin Q
    BY <1>5, <2>2 DEF Overtaking, SameLink
  <2> QED  BY <2>1, <2>2
<1>6. CASE UNCHANGED call
  BY <1>6 DEF SameLink
<1>7. ASSUME NEW r \in Requests, NEW u \in Users,
             \/ Login(r, u) \/ RequestReset(r, u)
             \/ \E s \in AccountSteps : ChangeAccount(r, u, s)
      PROVE  SameLink(q)
  BY <1>4, <1>7 DEF Login, RequestReset, ChangeAccount, Started
<1>8. ASSUME NEW r \in Requests, NEW t \in Tokens, Present(r, t) \/ Logout(r, t)
      PROVE  SameLink(q)
  BY <1>4, <1>8 DEF Present, Logout, Started
<1>9. ASSUME NEW r \in Requests, NEW l \in ResetLinks, ConsumeLink(r, l)
      PROVE  SameLink(q)
  BY <1>4, <1>9 DEF ConsumeLink, Spends
<1>10. ASSUME NEW r \in Requests, RevokeFamily(r) \/ RevokeAllForUser(r)
       PROVE  SameLink(q)
  BY <1>5, <1>10 DEF RevokeFamily, RevokeAllForUser
<1>11. ASSUME NEW r \in Requests,
              \/ RecheckAccount(r) \/ RecheckReset(r) \/ Deactivate(r) \/ Activate(r)
              \/ RemoveUser(r) \/ Crash(r)
              \/ \E p \in Passwords : SetPassword(r, p)
              \/ \E t \in Tokens : IssueFamily(r, t) \/ Rotate(r, t)
              \/ \E l \in ResetLinks : CreateLink(r, l)
       PROVE  SameLink(q)
  BY <1>2, <1>3, <1>11
     DEF RecheckAccount, RecheckReset, Deactivate, Activate, RemoveUser, Crash, SetPassword,
         IssueFamily, Rotate, CreateLink, ThenRevoke, At
<1>12. CASE (\E t \in Tokens : ExpireToken(t)) \/ (\E l \in ResetLinks : ExpireLink(l)) \/ UNCHANGED vars
  BY <1>6, <1>12 DEF ExpireToken, ExpireLink, vars
<1> QED  BY <1>7, <1>8, <1>9, <1>10, <1>11, <1>12 DEF Next

LEMMA SpendingStep ==
  ASSUME IInv, NEW r \in Requests, NEW l \in ResetLinks, ConsumeLink(r, l)
  PROVE  /\ call'[r].link = l /\ link[l] # None /\ ~link[l].used
         /\ link'[l] # None /\ link'[l].used
         /\ \A q \in Requests \ {r} : call'[q] = call[q]
<1>1. /\ call \in [Requests -> Call \cup {None}] /\ link[l] \in Link
      /\ link' = [link EXCEPT ![l].used = TRUE] /\ link \in [ResetLinks -> Link \cup {None}]
      /\ link[l] # None /\ ~link[l].used
  BY DEF IInv, TypeOK, ConsumeLink, Spendable
<1>2. /\ call'[r].link = l
      /\ \A q \in Requests \ {r} : call'[q] = call[q]
  BY <1>1 DEF ConsumeLink, Started
<1>3. link'[l] \in Link /\ link'[l].used
  BY <1>1 DEF Link
<1> QED  BY <1>1, <1>2, <1>3, NoneIsNoRow

LEMMA MarkedStep ==
  ASSUME IInv, LinksMarked, [Next]_vars
  PROVE  LinksMarked'
<1> SUFFICES ASSUME NEW q \in Requests, call'[q] # None, call'[q].link # None
             PROVE  /\ call'[q].link \in ResetLinks
                    /\ link'[call'[q].link] # None /\ link'[call'[q].link].used
  BY DEF LinksMarked
<1>1. CASE Spends(q)
  BY <1>1, SpendingStep DEF Spends
<1>2. CASE ~Spends(q)
  BY <1>2, SameLinkStep, SpentStaysStep DEF SameLink, SpentStays, LinksMarked
<1> QED  BY <1>1, <1>2

LEMMA OnceStep ==
  ASSUME IInv, LinksMarked, LinkSpentOnce, [Next]_vars
  PROVE  LinkSpentOnce'
<1> SUFFICES ASSUME NEW p \in Requests, NEW q \in Requests, p # q, call'[p] # None,
                    call'[q] # None, call'[p].link # None
             PROVE  call'[p].link # call'[q].link
  BY DEF LinkSpentOnce
<1>1. ASSUME NEW r \in Requests, NEW s \in Requests, r # s, Spends(r), call'[s] # None
      PROVE  call'[r].link # call'[s].link
  <2> PICK l \in ResetLinks : ConsumeLink(r, l)
    BY <1>1 DEF Spends
  <2>1. call'[r].link = l /\ ~link[l].used /\ call'[s] = call[s]
    BY <1>1, SpendingStep
  <2>2. call[s].link # l
    <3>1. l # None
      BY NoneIsNoRow
    <3> QED  BY <1>1, <2>1, <3>1 DEF LinksMarked
  <2> QED  BY <2>1, <2>2
<1>2. CASE Spends(p) \/ Spends(q)
  BY <1>1, <1>2
<1>3. CASE ~Spends(p) /\ ~Spends(q)
  BY <1>3, SameLinkStep DEF SameLink, LinkSpentOnce
<1> QED  BY <1>2, <1>3

\* What an issue saw when it began: links that are there, and that it spends if they are not.
IssuesSaw ==
  \A r \in Requests : call[r] # None =>
    \A k \in call[r].before : link[k] # None /\ (link[k].used \/ k \in call[r].spent)

\* The links that were there when a link was asked for are spent.
PriorSpent ==
  \A l \in ResetLinks : link[l] # None =>
    \A k \in link[l].before : link[k] # None /\ link[k].used

\* A request saw what it saw, unless it begins.
SameIssue(r) ==
  call'[r] # None =>
    \/ call[r] # None /\ call'[r].before = call[r].before /\ call'[r].spent = call[r].spent
    \/ call'[r].before = {}

Asks(r) == \E u \in Users : RequestReset(r, u)

LEMMA SameIssueStep ==
  ASSUME IInv, [Next]_vars, NEW q \in Requests, ~Asks(q)
  PROVE  SameIssue(q)
<1> USE DEF IInv
<1>1. call \in [Requests -> Call \cup {None}]
  BY DEF TypeOK
<1>2. ASSUME NEW r \in Requests, call[r] # None, NEW s, Goto(r, s)
      PROVE  SameIssue(q)
  <2>1. CASE q = r
    <3>1. call'[r] = [call[r] EXCEPT !.step = s] /\ call[r] \in Call
      BY <1>1, <1>2 DEF Goto
    <3>2. call'[r].before = call[r].before /\ call'[r].spent = call[r].spent
      BY <3>1 DEF Call
    <3> QED  BY <1>2, <2>1, <3>2 DEF SameIssue
  <2>2. CASE q # r
    BY <1>1, <1>2, <2>2 DEF Goto, SameIssue
  <2> QED  BY <2>1, <2>2
<1>3. ASSUME NEW r \in Requests, Done(r)
      PROVE  SameIssue(q)
  BY <1>1, <1>3 DEF Done, SameIssue
<1>4. ASSUME NEW r \in Requests, NEW c, q # r \/ c.before = {}, call' = [call EXCEPT ![r] = c]
      PROVE  SameIssue(q)
  BY <1>1, <1>4 DEF SameIssue
<1>5. ASSUME NEW r \in Requests, NEW Q, \A p \in Q : call[p] # None, call' = Overtaking(r, Q)
      PROVE  SameIssue(q)
  <2>1. CASE q # r /\ q \in Q
    <3>1. call'[q] = [call[q] EXCEPT !.late = TRUE] /\ call[q] \in Call /\ call[q] # None
      BY <1>1, <1>5, <2>1 DEF Overtaking
    <3>2. call'[q].before = call[q].before /\ call'[q].spent = call[q].spent
      BY <3>1 DEF Call
    <3> QED  BY <3>1, <3>2 DEF SameIssue
  <2>2. CASE q = r \/ q \notin Q
    BY <1>5, <2>2 DEF Overtaking, SameIssue
  <2> QED  BY <2>1, <2>2
<1>6. CASE UNCHANGED call
  BY <1>6 DEF SameIssue
<1>7. ASSUME NEW r \in Requests, NEW u \in Users,
             Login(r, u) \/ \E s \in AccountSteps : ChangeAccount(r, u, s)
      PROVE  SameIssue(q)
  BY <1>4, <1>7 DEF Login, ChangeAccount, Started
<1>8. ASSUME NEW r \in Requests, NEW t \in Tokens, Present(r, t) \/ Logout(r, t)
      PROVE  SameIssue(q)
  BY <1>4, <1>8 DEF Present, Logout, Started
<1>9. ASSUME NEW r \in Requests, NEW l \in ResetLinks, ConsumeLink(r, l)
      PROVE  SameIssue(q)
  BY <1>4, <1>9 DEF ConsumeLink, Started
<1>10. ASSUME NEW r \in Requests, RevokeFamily(r) \/ RevokeAllForUser(r)
       PROVE  SameIssue(q)
  BY <1>5, <1>10 DEF RevokeFamily, RevokeAllForUser
<1>11. ASSUME NEW r \in Requests,
              \/ RecheckAccount(r) \/ RecheckReset(r) \/ Deactivate(r) \/ Activate(r)
              \/ RemoveUser(r) \/ Crash(r)
              \/ \E p \in Passwords : SetPassword(r, p)
              \/ \E t \in Tokens : IssueFamily(r, t) \/ Rotate(r, t)
              \/ \E l \in ResetLinks : CreateLink(r, l)
       PROVE  SameIssue(q)
  BY <1>2, <1>3, <1>11
     DEF RecheckAccount, RecheckReset, Deactivate, Activate, RemoveUser, Crash, SetPassword,
         IssueFamily, Rotate, CreateLink, ThenRevoke, At
<1>12. CASE (\E t \in Tokens : ExpireToken(t)) \/ (\E l \in ResetLinks : ExpireLink(l)) \/ UNCHANGED vars
  BY <1>6, <1>12 DEF ExpireToken, ExpireLink, vars
<1>13. ASSUME NEW r \in Requests, NEW u \in Users, RequestReset(r, u)
       PROVE  SameIssue(q)
  <2>1. q # r
    BY <1>13 DEF Asks
  <2> QED  BY <1>1, <1>13, <2>1 DEF RequestReset, SameIssue
<1> QED  BY <1>7, <1>8, <1>9, <1>10, <1>11, <1>12, <1>13 DEF Next

LEMMA IssuesSawStep ==
  ASSUME IInv, IssuesSaw, [Next]_vars
  PROVE  IssuesSaw'
<1> SUFFICES ASSUME NEW q \in Requests, call'[q] # None, NEW k \in call'[q].before
             PROVE  link'[k] # None /\ (link'[k].used \/ k \in call'[q].spent)
  BY DEF IssuesSaw
<1>1. ASSUME NEW u \in Users, RequestReset(q, u)
      PROVE  link'[k] # None /\ (link'[k].used \/ k \in call'[q].spent)
  <2> DEFINE of == LinksOf(u)
             unused == UnusedLinks(u)
  <2>1. call'[q] = [Started("createLink", u) EXCEPT !.spent = unused, !.before = of] /\ link' = link
    BY <1>1 DEF RequestReset, IInv, TypeOK
  <2>2. \A l \in of : link[l] # None /\ (link[l].used \/ l \in unused)
    BY DEF LinksOf, UnusedLinks
  <2> HIDE DEF of, unused
  <2>3. call'[q].before = of /\ call'[q].spent = unused
    BY <2>1 DEF Started
  <2> QED  BY <2>1, <2>2, <2>3
<1>2. CASE ~Asks(q)
  <2>1. /\ call[q] # None /\ call'[q].before = call[q].before
        /\ call'[q].spent = call[q].spent
    BY <1>2, SameIssueStep DEF SameIssue
  <2>2. k \in ResetLinks /\ link[k] # None /\ (link[k].used \/ k \in call[q].spent)
    BY <2>1 DEF IssuesSaw, IInv, TypeOK, Call
  <2> QED  BY <2>1, <2>2, SpentStaysStep DEF SpentStays
<1> QED  BY <1>1, <1>2 DEF Asks

\* The row of a link says what its request saw.
LEMMA SameBeforeStep ==
  ASSUME IInv, [Next]_vars, NEW l \in ResetLinks, link'[l] # None
  PROVE  \/ link[l] # None /\ link'[l].before = link[l].before
         \/ \E r \in Requests : CreateLink(r, l)
<1> USE DEF IInv
<1> DEFINE Claim == \/ link[l] # None /\ link'[l].before = link[l].before
                   \/ \E r \in Requests : CreateLink(r, l)
<1>1. CASE UNCHANGED link
  BY <1>1
<1>2. ASSUME NEW r \in Requests, NEW m \in ResetLinks, CreateLink(r, m), m # l
      PROVE  Claim
  <2>1. link'[l] = IF l \in SpentBy(r) THEN [link[l] EXCEPT !.used = TRUE] ELSE link[l]
    BY <1>2 DEF CreateLink
  <2>2. l \in SpentBy(r) => link[l] # None
    BY <1>2 DEF CreateLink, SpentBy, CallsFilled, Filled, At
  <2>3. link[l] # None
    BY <2>1, <2>2
  <2>4. link[l] \in Link
    BY <2>3 DEF TypeOK
  <2> QED  BY <2>1, <2>3, <2>4 DEF Link
<1>3. ASSUME NEW m \in ResetLinks, link[m] # None,
             \/ link' = [link EXCEPT ![m].used = TRUE] \/ link' = [link EXCEPT ![m].expired = TRUE]
      PROVE  Claim
  <2>1. link[m] \in Link
    BY <1>3 DEF TypeOK
  <2> QED  BY <1>3, <2>1 DEF Link, TypeOK
<1>4. ASSUME NEW r \in Requests, NEW m \in ResetLinks, ConsumeLink(r, m)
      PROVE  Claim
  BY <1>3, <1>4 DEF ConsumeLink, Spendable
<1>5. ASSUME NEW m \in ResetLinks, ExpireLink(m)
      PROVE  Claim
  BY <1>3, <1>5 DEF ExpireLink
<1>6. ASSUME NEW r \in Requests, NEW u \in Users,
             \/ Login(r, u) \/ RequestReset(r, u)
             \/ \E s \in AccountSteps : ChangeAccount(r, u, s)
      PROVE  Claim
  BY <1>1, <1>6 DEF Login, RequestReset, ChangeAccount
<1>7. ASSUME NEW r \in Requests,
             \/ \E t \in Tokens : \/ IssueFamily(r, t) \/ Present(r, t)
                                  \/ Rotate(r, t) \/ Logout(r, t)
             \/ \E p \in Passwords : SetPassword(r, p)
             \/ RecheckAccount(r) \/ RevokeFamily(r) \/ RecheckReset(r)
             \/ Deactivate(r) \/ Activate(r) \/ RemoveUser(r) \/ RevokeAllForUser(r) \/ Crash(r)
      PROVE  Claim
  BY <1>1, <1>7
     DEF IssueFamily, Present, Rotate, Logout, SetPassword, RecheckAccount, RevokeFamily,
         RecheckReset, Deactivate, Activate, RemoveUser, RevokeAllForUser, Crash
<1>8. CASE (\E t \in Tokens : ExpireToken(t)) \/ UNCHANGED vars
  BY <1>1, <1>8 DEF ExpireToken, vars
<1>9. ASSUME NEW r \in Requests, NEW m \in ResetLinks, CreateLink(r, m)
      PROVE  Claim
  BY <1>2, <1>9
<1>10. (\E r \in Requests :
          \/ \E u \in Users : \/ Login(r, u) \/ RequestReset(r, u)
                              \/ \E t \in AccountSteps : ChangeAccount(r, u, t)
          \/ \E m \in ResetLinks : CreateLink(r, m) \/ ConsumeLink(r, m)) => Claim
  BY <1>4, <1>6, <1>9
<1> QED  BY <1>5, <1>7, <1>8, <1>10 DEF Next

LEMMA PriorSpentStep ==
  ASSUME IInv, IssuesSaw, PriorSpent, [Next]_vars
  PROVE  PriorSpent'
<1> SUFFICES ASSUME NEW l \in ResetLinks, link'[l] # None, NEW k \in link'[l].before
             PROVE  link'[k] # None /\ link'[k].used
  BY DEF PriorSpent
<1> USE DEF IInv
<1>1. CASE link[l] # None /\ link'[l].before = link[l].before
  <2>1. link[l] \in Link
    BY <1>1 DEF TypeOK
  <2>2. k \in ResetLinks /\ link[k] # None /\ link[k].used
    BY <1>1, <2>1 DEF PriorSpent, Link
  <2> QED  BY <2>2, SpentStaysStep DEF SpentStays
<1>2. ASSUME NEW r \in Requests, CreateLink(r, l)
      PROVE  link'[k] # None /\ link'[k].used
  <2>1. call[r] # None /\ call[r] \in Call /\ link[l] = None
    BY <1>2 DEF CreateLink, At, TypeOK
  <2>2. link'[l].before = call[r].before
    BY <1>2 DEF CreateLink
  <2>3. k \in ResetLinks /\ link[k] # None /\ (link[k].used \/ k \in call[r].spent)
    BY <2>1, <2>2 DEF IssuesSaw, Call
  <2>4. k # l
    BY <2>1, <2>3
  <2>5. CASE k \in call[r].spent
    <3>1. link[k] \in Link /\ link'[k] = [link[k] EXCEPT !.used = TRUE]
      BY <1>2, <2>3, <2>4, <2>5 DEF CreateLink, SpentBy, TypeOK
    <3>2. link'[k] \in Link /\ link'[k].used
      BY <3>1 DEF Link
    <3> QED  BY <3>2, NoneIsNoRow
  <2>6. CASE k \notin call[r].spent
    BY <2>3, <2>6, SpentStaysStep DEF SpentStays
  <2> QED  BY <2>5, <2>6
<1> QED  BY <1>1, <1>2, SameBeforeStep

\* AuthService: a reset link sets one password, and of two links of an account that work at once
\* neither had been issued when the other was asked for.
THEOREM ResetLinksSpent == Spec => []LinksSpent
<1>1. Init => LinksMarked /\ LinkSpentOnce /\ IssuesSaw /\ PriorSpent
  BY DEF Init, LinksMarked, LinkSpentOnce, IssuesSaw, PriorSpent
<1>2. IInv /\ LinksMarked /\ LinkSpentOnce /\ [Next]_vars => LinksMarked' /\ LinkSpentOnce'
  BY MarkedStep, OnceStep
<1>3. IInv /\ IssuesSaw /\ PriorSpent /\ [Next]_vars => IssuesSaw' /\ PriorSpent'
  BY IssuesSawStep, PriorSpentStep
<1>4. LinkSpentOnce /\ PriorSpent => LinksSpent
  BY DEF PriorSpent, LinksSpent, OneLiveLink
<1> QED  BY <1>1, <1>2, <1>3, <1>4, InitIInv, NextIInv, PTL DEF Spec

-----------------------------------------------------------------------------
(* Access. *)


\* The account said then what the claims say.
Backs(a, claims) == a.active /\ a.live /\ a.role = claims.role /\ a.team = claims.team

\* What each guard has let through is explained by what the account has been.
Authenticated(r) ==
  /\ r.step \in {"arrived", "authenticate"} => r.user = Absent
  /\ r.user # Absent => r.route.roles # Public /\ \E a \in was : Backs(a, r.user)
  /\ r.user = Absent /\ r.step \in {"authorise", "handle", "served"} => r.route.roles = Public

Authorised(r) ==
  r.user # Absent /\ r.step \in {"handle", "served"} => Admits(r.route, r.user.role)

\* The first answer on the closed pipelines is the only one.
ToldOnce(r) ==
  /\ r.resolved = Absent => r.answers = {}
  /\ r.resolved # Absent =>
       /\ r.user # Absent /\ r.answers \subseteq {r.resolved}
       /\ IF Exempt(r.user.role) THEN r.resolved = {} ELSE \E a \in was : r.resolved = a.closed

SameSite(r) == r.origin = "foreign" /\ r.step \notin {"arrived", "refused"} => r.route.verb = "GET"

Explained(r) == Authenticated(r) /\ Authorised(r) /\ ToldOnce(r) /\ SameSite(r)

AccessIInv ==
  /\ RequestsTyped
  /\ request # Absent => Explained(request)
  /\ ~Over => member \in was

-----------------------------------------------------------------------------

THEOREM InitAccessIInv == AccessInit => AccessIInv
<1> SUFFICES ASSUME AccessInit PROVE AccessIInv
  OBVIOUS
<1>1. member \in Member
  BY DEF AccessInit, Member
<1> QED
  BY <1>1 DEF AccessInit, AccessIInv, RequestsTyped, Over

\* A change of the account adds to what it has been while a request is under way.
LEMMA ChangeKeeps ==
  ASSUME AccessIInv, ChangeMember
  PROVE  AccessIInv'
<1>1. PICK next \in Member : Change(next)
  <2>1. CASE \E role \in Given : Change([member EXCEPT !.role = role])
    BY <2>1 DEF AccessIInv, RequestsTyped, Member
  <2>2. CASE \E team \in Teams \cup {Absent} : Change([member EXCEPT !.team = team])
    BY <2>2 DEF AccessIInv, RequestsTyped, Member
  <2>3. CASE \E active \in BOOLEAN : Change([member EXCEPT !.active = active])
    BY <2>3 DEF AccessIInv, RequestsTyped, Member
  <2>4. CASE Change([member EXCEPT !.live = FALSE])
    BY <2>4 DEF AccessIInv, RequestsTyped, Member
  <2>5. CASE \E closed \in SUBSET Boards : Change([member EXCEPT !.closed = closed])
    BY <2>5 DEF AccessIInv, RequestsTyped, Member
  <2> QED
    BY <2>1, <2>2, <2>3, <2>4, <2>5 DEF ChangeMember
<1>2. /\ member' = next /\ request' = request /\ minting' = minting /\ cookie' = cookie
      /\ was' = IF Over THEN was ELSE was \cup {next}
  BY <1>1 DEF Change
<1>3. was \subseteq was' /\ Over' = Over
  BY <1>2 DEF Over
<1>4. RequestsTyped'
  BY <1>1, <1>2 DEF AccessIInv, RequestsTyped
<1>5. request' # Absent => Explained(request)'
  <2> SUFFICES ASSUME request # Absent PROVE Explained(request)'
    BY <1>2
  <2>1. Explained(request)
    BY DEF AccessIInv
  <2>2. Authenticated(request)'
    BY <1>2, <1>3, <2>1 DEF Explained, Authenticated
  <2>3. ToldOnce(request)'
    BY <1>2, <1>3, <2>1 DEF Explained, ToldOnce
  <2> QED
    BY <1>2, <2>1, <2>2, <2>3 DEF Explained, Authorised, SameSite
<1>6. ~Over' => member' \in was'
  BY <1>2, <1>3
<1> QED
  BY <1>4, <1>5, <1>6 DEF AccessIInv

\* Signing and losing tokens touches no request.
LEMMA TokensKeep ==
  ASSUME AccessIInv, Mint \/ SignAccessToken \/ TokenExpires
  PROVE  AccessIInv'
<1>1. UNCHANGED <<member, request, was>>
  BY DEF Mint, SignAccessToken, TokenExpires
<1>2. minting' \in Claims \cup {Absent} /\ cookie' \in Claims \cup {Absent}
  BY DEF Mint, SignAccessToken, TokenExpires, AccessIInv, RequestsTyped, Member, Claims
<1>3. RequestsTyped'
  BY <1>1, <1>2 DEF AccessIInv, RequestsTyped
<1>4. Explained(request)' <=> Explained(request)
  BY <1>1 DEF Explained, Authenticated, Authorised, ToldOnce, SameSite
<1> QED
  BY <1>1, <1>3, <1>4 DEF AccessIInv, Over

\* A request starts with nothing let through, and with the account as it is.
LEMMA SendKeeps ==
  ASSUME AccessIInv, NEW route \in Asked, NEW origin \in SentBy, Send(route, origin)
  PROVE  AccessIInv'
<1>1. /\ request' = [route |-> route, origin |-> origin, step |-> "arrived", cookie |-> cookie,
                     user |-> Absent, resolved |-> Absent, answers |-> {}]
      /\ was' = {member} /\ UNCHANGED <<member, minting, cookie>>
  BY DEF Send
<1>2. request' \in Request
  BY <1>1 DEF AccessIInv, RequestsTyped, Request, RequestSteps
<1>3. RequestsTyped'
  BY <1>1, <1>2 DEF AccessIInv, RequestsTyped
<1>4. Explained(request)'
  BY <1>1 DEF Explained, Authenticated, Authorised, ToldOnce, SameSite
<1> QED
  BY <1>1, <1>3, <1>4 DEF AccessIInv, Over

-----------------------------------------------------------------------------
(* The request on its way. *)

\* The account is what it has been, and the request keeps its route, origin and cookie.
OnItsWay(r) ==
  /\ request \in Request /\ ~Over /\ Kept
  /\ request' = r /\ r \in Request
  /\ r.route = request.route /\ r.origin = request.origin

LEMMA WayKeeps ==
  ASSUME AccessIInv, NEW r, OnItsWay(r), Explained(r)
  PROVE  AccessIInv'
<1>1. RequestsTyped'
  BY DEF AccessIInv, RequestsTyped, OnItsWay, Kept
<1>2. Explained(request)'
  BY DEF Explained, Authenticated, Authorised, ToldOnce, SameSite, OnItsWay, Kept
<1>3. member' \in was'
  BY DEF AccessIInv, OnItsWay, Kept
<1> QED
  BY <1>1, <1>2, <1>3 DEF AccessIInv

LEMMA UnderWay ==
  ASSUME AccessIInv, NEW s \in {"arrived", "authenticate", "authorise", "handle"}, Reached(s)
  PROVE  request \in Request /\ ~Over /\ member \in was /\ Explained(request)
BY DEF AccessIInv, RequestsTyped, Reached, Over

LEMMA GotoKeeps ==
  ASSUME AccessIInv, NEW s \in {"arrived", "authenticate", "authorise", "handle"}, Reached(s),
         NEW t \in RequestSteps, Goes(t), Kept,
         Explained([request EXCEPT !.step = t])
  PROVE  AccessIInv'
<1>1. request \in Request /\ ~Over
  BY UnderWay
<1>2. [request EXCEPT !.step = t] \in Request
  BY <1>1 DEF Request
<1>3. OnItsWay([request EXCEPT !.step = t])
  BY <1>1, <1>2 DEF OnItsWay, Goes, Request
<1> QED
  BY <1>3, WayKeeps

LEMMA OriginKeeps ==
  ASSUME AccessIInv, rejectForeignOrigins
  PROVE  AccessIInv'
<1> DEFINE t == IF request.route.verb = "GET" \/ request.origin # "foreign" THEN "authenticate"
                ELSE "refused"
<1>1. Reached("arrived") /\ Kept /\ Goes(t) /\ t \in RequestSteps
  BY DEF rejectForeignOrigins, RequestSteps
<1>2. request \in Request /\ Explained(request)
  BY <1>1, UnderWay
<1>3. Explained([request EXCEPT !.step = t])
  BY <1>1, <1>2 DEF Explained, Authenticated, Authorised, ToldOnce, SameSite, Request, Reached
<1> QED
  BY <1>1, <1>3, GotoKeeps

\* A token that matches is backed by the account as it is.
LEMMA AuthenticateKeeps ==
  ASSUME AccessIInv, JwtAuthGuard
  PROVE  AccessIInv'
<1>1. Reached("authenticate") /\ Kept /\ request.step = "authenticate" /\ request.user = Absent
  BY DEF JwtAuthGuard, AccessIInv, Explained, Authenticated, Reached
<1>2. request \in Request /\ ~Over /\ member \in was /\ Explained(request)
  BY <1>1, UnderWay
<1>3. CASE request.route.roles = Public
  <2>1. Goes("authorise")
    BY <1>3 DEF JwtAuthGuard, Goes
  <2>2. Explained([request EXCEPT !.step = "authorise"])
    BY <1>1, <1>2, <1>3 DEF Explained, Authenticated, Authorised, ToldOnce, SameSite, Request
  <2> QED
    BY <1>1, <2>1, <2>2, GotoKeeps DEF RequestSteps
<1>4. CASE request.route.roles # Public /\ request.cookie # Absent /\ MatchesAccount(request.cookie)
  <2> DEFINE r == [request EXCEPT !.step = "authorise", !.user = request.cookie]
  <2>1. request' = r
    BY <1>4 DEF JwtAuthGuard
  <2>2. r \in Request /\ r.step = "authorise" /\ r.user = request.cookie
        /\ r.route = request.route /\ r.origin = request.origin
        /\ r.resolved = request.resolved /\ r.answers = request.answers
    BY <1>2, <1>4 DEF Request, RequestSteps
  <2>3. Backs(member, request.cookie)
    BY <1>4 DEF MatchesAccount, Backs
  <2>4. request.resolved = Absent
    BY <1>1, <1>2 DEF Explained, ToldOnce
  <2>5. OnItsWay(r)
    BY <1>1, <1>2, <2>1, <2>2 DEF OnItsWay
  <2> HIDE DEF r
  <2>6. Explained(r)
    BY <1>1, <1>2, <1>4, <2>2, <2>3, <2>4
    DEF Explained, Authenticated, Authorised, ToldOnce, SameSite
  <2> QED
    BY <2>5, <2>6, WayKeeps
<1>5. CASE /\ request.route.roles # Public
           /\ ~(request.cookie # Absent /\ MatchesAccount(request.cookie))
  <2>1. Goes("refused")
    BY <1>5 DEF JwtAuthGuard, Goes
  <2>2. Explained([request EXCEPT !.step = "refused"])
    BY <1>1, <1>2 DEF Explained, Authenticated, Authorised, ToldOnce, SameSite, Request
  <2> QED
    BY <1>1, <2>1, <2>2, GotoKeeps DEF RequestSteps
<1> QED
  BY <1>3, <1>4, <1>5

LEMMA AuthoriseKeeps ==
  ASSUME AccessIInv, RolesGuard
  PROVE  AccessIInv'
<1> DEFINE t == IF request.route.roles = Public \/ Admits(request.route, request.user.role)
                THEN "handle" ELSE "refused"
<1>1. Reached("authorise") /\ Kept /\ Goes(t) /\ t \in RequestSteps
  BY DEF RolesGuard, RequestSteps
<1>2. request \in Request /\ Explained(request)
  BY <1>1, UnderWay
<1>3. t = "handle" /\ request.user # Absent => Admits(request.route, request.user.role)
  BY <1>2 DEF Explained, Authenticated
<1>4. Explained([request EXCEPT !.step = t])
  BY <1>1, <1>2, <1>3 DEF Explained, Authenticated, Authorised, ToldOnce, SameSite, Request, Reached
<1> QED
  BY <1>1, <1>4, GotoKeeps

\* The first question is answered from the account as it is, a later one as the first.
LEMMA ResolveKeeps ==
  ASSUME AbsentIsNoRow, AccessIInv, resolve
  PROVE  AccessIInv'
<1> DEFINE read == IF Exempt(request.user.role) THEN {} ELSE member.closed
           told == IF request.resolved = Absent THEN read ELSE request.resolved
           r == [request EXCEPT !.resolved = told, !.answers = @ \cup {told}]
<1>1. Reached("handle") /\ Kept /\ request.user # Absent /\ request' = r
  BY DEF resolve
<1>2. request \in Request /\ ~Over /\ member \in was /\ Explained(request)
  BY <1>1, UnderWay
<1>3. read \in SUBSET Boards
  BY DEF AccessIInv, RequestsTyped, Member
<1>4. told \in SUBSET Boards
  BY <1>2, <1>3 DEF Request
<1>5. told # Absent
  BY <1>4, Zenon DEF AbsentIsNoRow
<1>6. IF Exempt(request.user.role) THEN told = {} ELSE \E a \in was : told = a.closed
  BY <1>2 DEF Explained, ToldOnce
<1>7. request.answers \cup {told} = {told}
  BY <1>2 DEF Explained, ToldOnce
<1> HIDE DEF told, read
<1>8. /\ r \in Request /\ r.step = request.step /\ r.user = request.user
      /\ r.route = request.route /\ r.origin = request.origin
      /\ r.resolved = told /\ r.answers = {told}
  BY <1>2, <1>4, <1>7 DEF Request
<1>9. OnItsWay(r)
  BY <1>1, <1>2, <1>8 DEF OnItsWay
<1> HIDE DEF r
<1>10. Explained(r)
  BY <1>1, <1>2, <1>5, <1>6, <1>8 DEF Explained, Authenticated, Authorised, ToldOnce, SameSite
<1> QED
  BY <1>9, <1>10, WayKeeps

LEMMA ServeKeeps ==
  ASSUME AccessIInv, Serve
  PROVE  AccessIInv'
<1>1. Reached("handle") /\ Kept /\ Goes("served")
  BY DEF Serve
<1>2. request \in Request /\ Explained(request)
  BY <1>1, UnderWay
<1>3. Explained([request EXCEPT !.step = "served"])
  BY <1>1, <1>2 DEF Explained, Authenticated, Authorised, ToldOnce, SameSite, Request, Reached
<1> QED
  BY <1>1, <1>3, GotoKeeps DEF RequestSteps

THEOREM NextAccessIInv ==
  ASSUME AbsentIsNoRow, AccessIInv, [AccessNext]_accessVars
  PROVE  AccessIInv'
<1>1. CASE AccessNext
  BY <1>1, ChangeKeeps, TokensKeep, SendKeeps, OriginKeeps, AuthenticateKeeps, AuthoriseKeeps,
     ResolveKeeps, ServeKeeps DEF AccessNext
<1>2. CASE UNCHANGED accessVars
  BY <1>2 DEF accessVars, AccessIInv, RequestsTyped, Over, Explained, Authenticated, Authorised, ToldOnce, SameSite
<1> QED
  BY <1>1, <1>2

-----------------------------------------------------------------------------

\* A set of one element has one element.
LEMMA OneAnswer ==
  ASSUME NEW S, NEW x, S \subseteq {x}
  PROVE  Cardinality(S) <= 1
<1>1. CASE S = {}
  BY <1>1, FS_EmptySet
<1>2. CASE S = {x}
  BY <1>2, FS_Singleton
<1> QED
  BY <1>1, <1>2

LEMMA IInvServes == AccessIInv => ServedAsAllowed
<1> SUFFICES ASSUME AccessIInv, Reached("served") PROVE ServedAsAllowed
  BY DEF ServedAsAllowed
<1>1. Explained(request) /\ request.step = "served"
  BY DEF AccessIInv, Reached
<1>2. request.user # Absent =>
        \E a \in was : /\ a.active /\ a.live /\ Admits(request.route, a.role)
                       /\ a.role = request.user.role /\ a.team = request.user.team
  BY <1>1 DEF Explained, Authenticated, Authorised, Backs
<1>3. Cardinality(request.answers) <= 1
  BY <1>1, OneAnswer, FS_EmptySet DEF Explained, ToldOnce
<1>4. \A closed \in request.answers :
        IF Exempt(request.user.role) THEN closed = {} ELSE \E a \in was : closed = a.closed
  BY <1>1 DEF Explained, ToldOnce
<1>5. request.user = Absent => request.route.roles = Public
  BY <1>1 DEF Explained, Authenticated
<1>6. request.origin = "foreign" => request.route.verb = "GET"
  BY <1>1 DEF Explained, SameSite
<1> QED
  BY <1>2, <1>3, <1>4, <1>5, <1>6 DEF ServedAsAllowed

\* What is served to a member was allowed to his account at some time since he asked: no change
\* of the account, and no token signed before it, gets more than one request past it.
THEOREM RequestsServedAsAllowed ==
  ASSUME AbsentIsNoRow
  PROVE  AccessSpec => []ServedAsAllowed
<1>1. AccessInit => AccessIInv
  BY InitAccessIInv
<1>2. AccessIInv /\ [AccessNext]_accessVars => AccessIInv'
  BY NextAccessIInv
<1> QED
  BY <1>1, <1>2, IInvServes, PTL DEF AccessSpec

-----------------------------------------------------------------------------
(* Reads. *)

-----------------------------------------------------------------------------
(* The condition builder. *)

\* A negative match with its empty values is the denial of the match, whatever the column holds.
LEMMA OrEmpty ==
  ASSUME NEW spec, NEW x, NEW S, spec.required \in BOOLEAN, spec.required => x # Null
  PROVE  /\ orEmpty(spec, x, Not(Among(x, S))) = "true" <=> Among(x, S) # "true"
         /\ Not(emptyString(spec, x)) = "true" <=> emptyString(spec, x) # "true"
BY DEF orEmpty, Not, Among, Or, Sql, Unknown, emptyString

\* The negative operators deny their positive ones: of a text column,
LEMMA TextDenied ==
  ASSUME NEW spec, NEW x, NEW v, spec.required \in BOOLEAN, spec.required => x # Null
  PROVE  /\ textScalarWhere(spec, x, "isnt", v) = "true" <=> textScalarWhere(spec, x, "is", v) # "true"
         /\ textScalarWhere(spec, x, "doesntContain", v) = "true"
              <=> textScalarWhere(spec, x, "contains", v) # "true"
         /\ textScalarWhere(spec, x, "isEmpty", v) = "true"
              <=> textScalarWhere(spec, x, "isNotEmpty", v) # "true"
<1>1. /\ textScalarWhere(spec, x, "isnt", v) = orEmpty(spec, x, Not(Among(x, Matching("is", v[1]))))
      /\ textScalarWhere(spec, x, "is", v) = Among(x, Matching("is", v[1]))
      /\ textScalarWhere(spec, x, "contains", v) = Among(x, Matching("contains", v[1]))
      /\ textScalarWhere(spec, x, "doesntContain", v) =
           orEmpty(spec, x, Not(Among(x, Matching("contains", v[1]))))
      /\ textScalarWhere(spec, x, "isEmpty", v) = emptyString(spec, x)
      /\ textScalarWhere(spec, x, "isNotEmpty", v) = Not(emptyString(spec, x))
  BY DEF textScalarWhere
<1> QED BY <1>1, OrEmpty

\* of a number,
LEMMA NumericDenied ==
  ASSUME NEW spec, NEW x, NEW v, spec.required \in BOOLEAN, spec.required => x # Null
  PROVE  /\ numericScalarWhere(spec, x, "notEquals", v) = "true"
              <=> numericScalarWhere(spec, x, "equals", v) # "true"
         /\ numericScalarWhere(spec, x, "notBetween", v) = "true"
              <=> numericScalarWhere(spec, x, "between", v) # "true"
         /\ numericScalarWhere(spec, x, "isEmpty", v) = "true"
              <=> numericScalarWhere(spec, x, "isNotEmpty", v) # "true"
<1>1. /\ numericScalarWhere(spec, x, "notEquals", v) = orEmpty(spec, x, Not(Among(x, {v[1]})))
      /\ numericScalarWhere(spec, x, "equals", v) = Among(x, {v[1]})
      /\ numericScalarWhere(spec, x, "between", v) = And({Not(Below(x, v[1])), AtMost(x, v[2])})
      /\ numericScalarWhere(spec, x, "notBetween", v) =
           orEmpty(spec, x, Or({Below(x, v[1]), Not(AtMost(x, v[2]))}))
      /\ numericScalarWhere(spec, x, "isEmpty", v) = Sql(~spec.required /\ x = Null)
      /\ numericScalarWhere(spec, x, "isNotEmpty", v) = Sql(spec.required \/ x # Null)
  BY DEF numericScalarWhere
<1>2. orEmpty(spec, x, Or({Below(x, v[1]), Not(AtMost(x, v[2]))})) = "true"
        <=> And({Not(Below(x, v[1])), AtMost(x, v[2])}) # "true"
  BY DEF orEmpty, Or, And, Not, Below, AtMost, Sql, Unknown
<1>3. Sql(~spec.required /\ x = Null) = "true" <=> Sql(spec.required \/ x # Null) # "true"
  BY DEF Sql
<1> QED BY <1>1, <1>2, <1>3, OrEmpty

\* of an enumeration,
LEMMA EnumDenied ==
  ASSUME NEW spec, NEW x, NEW S, spec.required \in BOOLEAN, spec.required => x # Null
  PROVE  /\ enumScalarWhere(spec, x, "isnt", S) = "true" <=> enumScalarWhere(spec, x, "is", S) # "true"
         /\ enumScalarWhere(spec, x, "isEmpty", S) = "true"
              <=> enumScalarWhere(spec, x, "isNotEmpty", S) # "true"
<1>1. /\ enumScalarWhere(spec, x, "isnt", S) = orEmpty(spec, x, Not(Among(x, S)))
      /\ enumScalarWhere(spec, x, "is", S) = Among(x, S)
      /\ enumScalarWhere(spec, x, "isEmpty", S) = emptyString(spec, x)
      /\ enumScalarWhere(spec, x, "isNotEmpty", S) = Not(emptyString(spec, x))
  BY DEF enumScalarWhere
<1> QED BY <1>1, OrEmpty

\* of an instant,
LEMMA DateDenied ==
  ASSUME NEW spec, NEW x, NEW v, spec.required \in BOOLEAN, spec.required => x # Null
  PROVE  /\ dateScalarWhere(spec, x, "notBetween", v) = "true"
              <=> dateScalarWhere(spec, x, "between", v) # "true"
         /\ dateScalarWhere(spec, x, "isEmpty", v) = "true"
              <=> dateScalarWhere(spec, x, "isNotEmpty", v) # "true"
<1>1. /\ dateScalarWhere(spec, x, "between", v) = And({Not(Below(x, v[1])), Below(x, v[2])})
      /\ dateScalarWhere(spec, x, "notBetween", v) =
           orEmpty(spec, x, Or({Below(x, v[1]), Not(Below(x, v[2]))}))
      /\ dateScalarWhere(spec, x, "isEmpty", v) = Sql(~spec.required /\ x = Null)
      /\ dateScalarWhere(spec, x, "isNotEmpty", v) = Sql(spec.required \/ x # Null)
  BY DEF dateScalarWhere, dateComparison
<1>2. orEmpty(spec, x, Or({Below(x, v[1]), Not(Below(x, v[2]))})) = "true"
        <=> And({Not(Below(x, v[1])), Below(x, v[2])}) # "true"
  BY DEF orEmpty, Or, And, Not, Below, Sql, Unknown
<1>3. Sql(~spec.required /\ x = Null) = "true" <=> Sql(spec.required \/ x # Null) # "true"
  BY DEF Sql
<1> QED BY <1>1, <1>2, <1>3

\* of the assignees, the tags and the teams,
LEMMA JoinDenied ==
  ASSUME NEW ids, NEW S
  PROVE  /\ joinWhere(ids, "isnt", S) = "true" <=> joinWhere(ids, "is", S) # "true"
         /\ joinWhere(ids, "isEmpty", S) = "true" <=> joinWhere(ids, "isNotEmpty", S) # "true"
BY DEF joinWhere, Sql

\* of dates of another table,
LEMMA RelationDenied ==
  ASSUME NEW dates, NEW v
  PROVE  /\ relationDateWhere(dates, "notBetween", v) = "true"
              <=> relationDateWhere(dates, "between", v) # "true"
         /\ relationDateWhere(dates, "isEmpty", v) = "true"
              <=> relationDateWhere(dates, "isNotEmpty", v) # "true"
BY DEF relationDateWhere, Sql

\* of the complaints' texts,
LEMMA ComplaintsDenied ==
  ASSUME NEW texts, NEW v
  PROVE  /\ complaintsTextWhere(texts, "isnt", v) = "true"
              <=> complaintsTextWhere(texts, "is", v) # "true"
         /\ complaintsTextWhere(texts, "doesntContain", v) = "true"
              <=> complaintsTextWhere(texts, "contains", v) # "true"
         /\ complaintsTextWhere(texts, "isEmpty", v) = "true"
              <=> complaintsTextWhere(texts, "isNotEmpty", v) # "true"
BY DEF complaintsTextWhere, Sql

\* and of the engagement.
LEMMA ActivityDenied ==
  ASSUME NEW l, NEW S
  PROVE  activityWhere(l, "isnt", S) = "true" <=> activityWhere(l, "is", S) # "true"
BY DEF activityWhere, Sql

\* The kinds of the fields, as values.
LEMMA Kinds ==
  /\ DOMAIN Columns = {"name", "source", "status", "category", "actualAmount", "callAttempts",
                       "createdAt", "bookingDate"}
  /\ DOMAIN Joins = {"assignedAgent", "team", "activity", "tags", "assignedDate", "followUpDate",
                     "complaints"}
  /\ \A f \in DOMAIN Columns :
       Columns[f].required \in BOOLEAN /\ KindOf(f) \in {"text", "enum", "numeric", "date"}
  /\ KindOf("assignedAgent") = "user" /\ KindOf("team") = "team" /\ KindOf("activity") = "activity"
  /\ KindOf("tags") = "tags" /\ KindOf("assignedDate") = "date" /\ KindOf("followUpDate") = "date"
  /\ KindOf("complaints") = "text"
<1>1. DOMAIN Columns = {"name", "source", "status", "category", "actualAmount", "callAttempts",
                        "createdAt", "bookingDate"}
  BY DEF Columns
<1>2. DOMAIN Joins = {"assignedAgent", "team", "activity", "tags", "assignedDate", "followUpDate",
                      "complaints"}
  BY DEF Joins
<1>3. \A f \in DOMAIN Columns :
        /\ Columns[f].required \in BOOLEAN
        /\ Columns[f].kind \in {"text", "enum", "numeric", "date"}
  <2>1. /\ Columns["name"] = Column("text", TRUE, FALSE)
        /\ Columns["source"] = Column("text", FALSE, FALSE)
        /\ Columns["status"] = Column("enum", TRUE, FALSE)
        /\ Columns["category"] = Column("enum", FALSE, FALSE)
        /\ Columns["actualAmount"] = Column("numeric", FALSE, FALSE)
        /\ Columns["callAttempts"] = Column("numeric", TRUE, TRUE)
        /\ Columns["createdAt"] = Column("date", TRUE, FALSE)
        /\ Columns["bookingDate"] = Column("date", FALSE, FALSE)
    BY DEF Columns
  <2>3. /\ Columns["name"].required = TRUE /\ Columns["name"].kind = "text"
        /\ Columns["source"].required = FALSE /\ Columns["source"].kind = "text"
        /\ Columns["status"].required = TRUE /\ Columns["status"].kind = "enum"
        /\ Columns["category"].required = FALSE /\ Columns["category"].kind = "enum"
        /\ Columns["actualAmount"].required = FALSE /\ Columns["actualAmount"].kind = "numeric"
        /\ Columns["callAttempts"].required = TRUE /\ Columns["callAttempts"].kind = "numeric"
        /\ Columns["createdAt"].required = TRUE /\ Columns["createdAt"].kind = "date"
        /\ Columns["bookingDate"].required = FALSE /\ Columns["bookingDate"].kind = "date"
    BY <2>1 DEF Column
  <2>4. ASSUME NEW f \in DOMAIN Columns
        PROVE  Columns[f].required \in BOOLEAN /\ Columns[f].kind \in {"text", "enum", "numeric", "date"}
    <3>1. f \in {"name", "source", "status", "category", "actualAmount", "callAttempts",
                 "createdAt", "bookingDate"}
      BY <1>1
    <3>2. CASE f = "name" BY <2>3, <3>2, Zenon
    <3>3. CASE f = "source" BY <2>3, <3>3, Zenon
    <3>4. CASE f = "status" BY <2>3, <3>4, Zenon
    <3>5. CASE f = "category" BY <2>3, <3>5, Zenon
    <3>6. CASE f = "actualAmount" BY <2>3, <3>6, Zenon
    <3>7. CASE f = "callAttempts" BY <2>3, <3>7, Zenon
    <3>8. CASE f = "createdAt" BY <2>3, <3>8, Zenon
    <3>9. CASE f = "bookingDate" BY <2>3, <3>9, Zenon
    <3> QED BY <3>1, <3>2, <3>3, <3>4, <3>5, <3>6, <3>7, <3>8, <3>9
  <2> QED BY <2>4
<1>4. \A f \in DOMAIN Joins : f \notin DOMAIN Columns
  BY <1>1, <1>2
<1>5. \A f \in DOMAIN Joins : KindOf(f) = Joins[f]
  BY <1>4 DEF KindOf
<1>6. /\ Joins["assignedAgent"] = "user" /\ Joins["team"] = "team"
      /\ Joins["activity"] = "activity" /\ Joins["tags"] = "tags"
      /\ Joins["assignedDate"] = "date" /\ Joins["followUpDate"] = "date"
      /\ Joins["complaints"] = "text"
  BY DEF Joins
<1> QED BY <1>1, <1>2, <1>3, <1>5, <1>6 DEF KindOf

\* What a negative operator keeps is what the operator it denies leaves out, whatever the row.
LEMMA Denied ==
  ASSUME NEW id \in DOMAIN Pool, NEW c \in Conditions, Valid(c), c.op \in DOMAIN Denies
  PROVE  ConditionWhere(Pool[id], c) = "true"
           <=> ConditionWhere(Pool[id], [c EXCEPT !.op = Denies[c.op]]) # "true"
<1> DEFINE l == Pool[id]
           d == [c EXCEPT !.op = Denies[c.op]]
           v == c.values
           S == ValuesOf(c)
<1> SUFFICES ConditionWhere(l, c) = "true" <=> ConditionWhere(l, d) # "true"
  OBVIOUS
<1>1. d.field = c.field /\ d.op = Denies[c.op] /\ d.values = c.values /\ ValuesOf(d) = ValuesOf(c)
  BY AskedAssumption DEF ValuesOf
<1>2. c.op \in {"isnt", "doesntContain", "notEquals", "notBetween", "isEmpty"}
  BY DEF Denies
<1>3. \/ c.op = "isnt" /\ d.op = "is"
      \/ c.op = "doesntContain" /\ d.op = "contains"
      \/ c.op = "notEquals" /\ d.op = "equals"
      \/ c.op = "notBetween" /\ d.op = "between"
      \/ c.op = "isEmpty" /\ d.op = "isNotEmpty"
  BY <1>1, <1>2 DEF Denies
<1>4. c.field \in DOMAIN Columns \cup DOMAIN Joins /\ c.op \in OPERATORS_FOR[KindOf(c.field)]
  BY DEF Valid
<1>0. c.field \in DOMAIN Joins => c.field \notin DOMAIN Columns
  BY Kinds
<1>5. CASE c.field \in DOMAIN Columns
  <2> DEFINE spec == Columns[c.field]
             x == l[c.field]
  <2>1. spec.required \in BOOLEAN /\ (spec.required => x # Null)
    BY <1>5, Kinds, PoolAssumption
  <2>2. c.field \notin {"assignedAgent", "team", "tags", "activity", "assignedDate", "followUpDate",
                        "complaints"}
    BY <1>5, Kinds
  <2>3. CASE KindOf(c.field) = "text"
    <3>1. c.op \in {"isnt", "doesntContain", "isEmpty"}
      BY <1>2, <1>4, <2>3 DEF OPERATORS_FOR, Valueless
    <3>2. /\ ConditionWhere(l, c) = textScalarWhere(spec, x, c.op, v)
          /\ ConditionWhere(l, d) = textScalarWhere(spec, x, d.op, v)
      BY <1>1, <1>5, <2>2, <2>3 DEF ConditionWhere
    <3> HIDE DEF d, spec, x
    <3> QED BY <1>3, <2>1, <3>1, <3>2, TextDenied
  <2>4. CASE KindOf(c.field) = "numeric"
    <3>1. c.op \in {"notEquals", "notBetween", "isEmpty"}
      BY <1>2, <1>4, <2>4 DEF OPERATORS_FOR, Valueless
    <3>2. /\ ConditionWhere(l, c) = numericScalarWhere(spec, x, c.op, v)
          /\ ConditionWhere(l, d) = numericScalarWhere(spec, x, d.op, v)
      BY <1>1, <1>5, <2>2, <2>4 DEF ConditionWhere
    <3> HIDE DEF d, spec, x
    <3> QED BY <1>3, <2>1, <3>1, <3>2, NumericDenied
  <2>5. CASE KindOf(c.field) = "date"
    <3>1. c.op \in {"notBetween", "isEmpty"}
      BY <1>2, <1>4, <2>5 DEF OPERATORS_FOR, Valueless
    <3>2. /\ ConditionWhere(l, c) = dateScalarWhere(spec, x, c.op, v)
          /\ ConditionWhere(l, d) = dateScalarWhere(spec, x, d.op, v)
      BY <1>1, <1>5, <2>2, <2>5 DEF ConditionWhere
    <3> HIDE DEF d, spec, x
    <3> QED BY <1>3, <2>1, <3>1, <3>2, DateDenied
  <2>6. CASE KindOf(c.field) = "enum"
    <3>1. c.op \in {"isnt", "isEmpty"}
      BY <1>2, <1>4, <2>6 DEF OPERATORS_FOR, Valueless
    <3>2. /\ ConditionWhere(l, c) = enumScalarWhere(spec, x, c.op, S)
          /\ ConditionWhere(l, d) = enumScalarWhere(spec, x, d.op, S)
      BY <1>1, <1>5, <2>2, <2>6 DEF ConditionWhere
    <3> HIDE DEF d, spec, x, S
    <3> QED BY <1>3, <2>1, <3>1, <3>2, EnumDenied
  <2> QED BY <1>5, <2>3, <2>4, <2>5, <2>6, Kinds
<1>6. CASE c.field \in {"assignedAgent", "team", "tags"}
  <2>1. PICK ids : /\ ConditionWhere(l, c) = joinWhere(ids, c.op, S)
                   /\ ConditionWhere(l, d) = joinWhere(ids, d.op, S)
    <3>1. CASE c.field = "assignedAgent"
      BY <1>0, <1>1, <3>1, Kinds DEF ConditionWhere
    <3>2. CASE c.field = "team"
      BY <1>0, <1>1, <3>2, Kinds DEF ConditionWhere
    <3>3. CASE c.field = "tags"
      BY <1>0, <1>1, <3>3, Kinds DEF ConditionWhere
    <3> QED BY <1>6, <3>1, <3>2, <3>3
  <2>2. c.op \in {"isnt", "isEmpty"}
    BY <1>2, <1>4, <1>6, Kinds DEF OPERATORS_FOR, Valueless
  <2> HIDE DEF d, S
  <2> QED BY <1>3, <2>1, <2>2, JoinDenied
<1>7. CASE c.field = "activity"
  <2>1. c.op = "isnt"
    BY <1>2, <1>4, <1>7, Kinds DEF OPERATORS_FOR
  <2>2. /\ ConditionWhere(l, c) = activityWhere(l, c.op, S)
        /\ ConditionWhere(l, d) = activityWhere(l, d.op, S)
    BY <1>0, <1>1, <1>7, Kinds DEF ConditionWhere
  <2> HIDE DEF d, S
  <2> QED BY <1>3, <2>1, <2>2, ActivityDenied
<1>8. CASE c.field \in {"assignedDate", "followUpDate"}
  <2>1. PICK dates : /\ ConditionWhere(l, c) = relationDateWhere(dates, c.op, v)
                     /\ ConditionWhere(l, d) = relationDateWhere(dates, d.op, v)
    <3>1. CASE c.field = "assignedDate"
      BY <1>0, <1>1, <3>1, Kinds DEF ConditionWhere
    <3>2. CASE c.field = "followUpDate"
      BY <1>0, <1>1, <3>2, Kinds DEF ConditionWhere
    <3> QED BY <1>8, <3>1, <3>2
  <2>2. c.op \in {"notBetween", "isEmpty"}
    BY <1>2, <1>4, <1>8, Kinds DEF OPERATORS_FOR, Valueless
  <2> HIDE DEF d
  <2> QED BY <1>3, <2>1, <2>2, RelationDenied
<1>9. CASE c.field = "complaints"
  <2>1. c.op \in {"isnt", "doesntContain", "isEmpty"}
    BY <1>2, <1>4, <1>9, Kinds DEF OPERATORS_FOR, Valueless
  <2>2. PICK texts : /\ ConditionWhere(l, c) = complaintsTextWhere(texts, c.op, v)
                     /\ ConditionWhere(l, d) = complaintsTextWhere(texts, d.op, v)
    BY <1>0, <1>1, <1>9, Kinds DEF ConditionWhere
  <2> HIDE DEF d
  <2> QED BY <1>3, <2>1, <2>2, ComplaintsDenied
<1> QED BY <1>4, <1>5, <1>6, <1>7, <1>8, <1>9, Kinds

-----------------------------------------------------------------------------
(* What an answer says. *)

\* An answer tells its report, its reader and his query beside the fields it is made of.
LEMMA Saying ==
  ASSUME NEW name, NEW me, NEW q, NEW fields, Say(name, me, q, fields)
  PROVE  /\ table' = table
         /\ answer' # NoAnswer /\ answer'.report = name /\ answer'.me = me /\ answer'.query = q
         /\ DOMAIN answer' = {"report", "me", "query"} \cup DOMAIN fields
         /\ \A x \in DOMAIN fields \ {"report", "me", "query"} : answer'[x] = fields[x]
<1> DEFINE own == [report |-> name, me |-> me, query |-> q]
<1>1. answer' = Along(own, fields) /\ table' = table
  BY DEF Say
<1>2. DOMAIN own = {"report", "me", "query"}
  OBVIOUS
<1>3. own.report = name /\ own.me = me /\ own.query = q
  OBVIOUS
<1> HIDE DEF own
<1>4. DOMAIN answer' = {"report", "me", "query"} \cup DOMAIN fields
  BY <1>1, <1>2 DEF Along
<1>5. answer'.report = name /\ answer'.me = me /\ answer'.query = q
  BY <1>1, <1>2, <1>3 DEF Along
<1>6. \A x \in DOMAIN fields \ {"report", "me", "query"} : answer'[x] = fields[x]
  BY <1>1, <1>2 DEF Along
<1>7. "me" \in DOMAIN answer' /\ "me" \notin DOMAIN NoAnswer
  BY <1>4 DEF NoAnswer
<1> QED BY <1>1, <1>4, <1>5, <1>6, <1>7


\* The leads of the reader's scope.
Visible(me) == {l \in leads : leadScopeWhere(me, l, FALSE)}

\* The answers that have a row per owner.
PerOwner == {"ownership", "noActivity", "todayLeads", "teamPerformance"}

ListShown ==
  "list" \in DOMAIN answer /\ answer.report \notin FollowUpLists =>
    answer.list \subseteq Ids(Visible(answer.me))
OwnRows ==
  answer.report \in PerOwner /\ Staff[answer.me].role = "SALES_AGENT" =>
    /\ DOMAIN answer.rows \subseteq {answer.me}
    /\ answer.report = "teamPerformance" => answer.teams = <<>>
ListedLeads ==
  Is("leads") =>
    \E c \in Conditions :
      /\ Valid(c) /\ answer.query = [Query EXCEPT !.conditions = {c}]
      /\ answer.list = Ids(Base(answer.me, answer.query))

Sound == ListShown /\ OwnRows /\ ListedLeads

\* A read through buildLeadWhere stays within the scope of its reader.
LEMMA BaseVisible ==
  ASSUME NEW me, NEW q
  PROVE  Base(me, q) \subseteq Visible(me)
BY DEF Base, Visible, buildLeadWhere

\* Ids of fewer leads are fewer ids.
LEMMA IdsWithin ==
  ASSUME NEW S, NEW T, S \subseteq T
  PROVE  Ids(S) \subseteq Ids(T)
BY DEF Ids

\* An answer of another report, without a list of leads.
LEMMA NoList ==
  ASSUME NEW name, NEW me, NEW q, NEW fields, Say(name, me, q, fields),
         name \notin PerOwner \cup {"leads"},
         name \in FollowUpLists \/ "list" \notin DOMAIN fields
  PROVE  table' = table /\ Sound'
<1>1. name # "leads" /\ name \notin PerOwner
  OBVIOUS
<1>2. answer'.report = name /\ ("list" \in DOMAIN answer' => "list" \in DOMAIN fields)
  BY Saying
<1>3. ListShown'
  BY <1>2 DEF ListShown
<1>4. OwnRows' /\ ListedLeads'
  BY <1>1, <1>2 DEF OwnRows, ListedLeads, Is
<1> QED BY <1>3, <1>4, Saying DEF Sound

\* An answer of another report, with one.
LEMMA ListWithin ==
  ASSUME NEW name, NEW me, NEW q, NEW fields, Say(name, me, q, fields),
         name \notin PerOwner \cup {"leads"},
         "list" \in DOMAIN fields, NEW S, S \subseteq Visible(me), fields.list = Ids(S)
  PROVE  table' = table /\ Sound'
<1>1. name # "leads" /\ name \notin PerOwner
  OBVIOUS
<1>2. answer'.report = name /\ answer'.me = me /\ answer'.list = Ids(S) /\ table' = table
  BY Saying
<1>3. Visible(me)' = Visible(me) 
  BY <1>2 DEF Visible, leads
<1>4. answer'.list \subseteq Ids(Visible(me))
  BY <1>2, IdsWithin
<1>5. ListShown'
  <2>1. answer'.list \subseteq Ids(Visible(me)')
    BY <1>3, <1>4
  <2> QED BY <2>1, <1>2 DEF ListShown, Ids, Visible, leads
<1>6. OwnRows' /\ ListedLeads'
  BY <1>1, <1>2 DEF OwnRows, ListedLeads, Is
<1> QED BY <1>2, <1>5, <1>6 DEF Sound

\* Every handler leaves the table alone and answers with leads its reader may see.
LEMMA StatusSound ==
  ASSUME NEW me, NEW q, leadsByStatus(me, q)
  PROVE  table' = table /\ Sound'
<1>1. PICK fields : /\ Say("status", me, q, fields)
                    /\ "list" \in DOMAIN fields /\ fields.list = Ids(ByStatus(me, q))
  BY DEF leadsByStatus, Counts, Groups
<1>2. ByStatus(me, q) \subseteq Visible(me)
  BY BaseVisible DEF ByStatus
<1> QED BY <1>1, <1>2, ListWithin DEF PerOwner

LEMMA SourceSound ==
  ASSUME NEW me, NEW q, leadsBySource(me, q)
  PROVE  table' = table /\ Sound'
<1>1. PICK fields : /\ Say("source", me, q, fields)
                    /\ "list" \in DOMAIN fields /\ fields.list = Ids(BySource(me, q))
  BY DEF leadsBySource, Counts, Groups, sourceLabel
<1>2. BySource(me, q) \subseteq Visible(me)
  BY BaseVisible DEF BySource, ByStatus
<1> QED BY <1>1, <1>2, ListWithin DEF PerOwner

LEMMA LostSound ==
  ASSUME NEW me, NEW q, lostLeads(me, q)
  PROVE  table' = table /\ Sound'
<1>1. PICK fields : /\ Say("lost", me, q, fields)
                    /\ "list" \in DOMAIN fields /\ fields.list = Ids(Lost(me, q))
  BY DEF lostLeads, Counts, Groups
<1>2. Lost(me, q) \subseteq Visible(me)
  BY BaseVisible DEF Lost, ByStatus
<1> QED BY <1>1, <1>2, ListWithin DEF PerOwner

LEMMA ConvertedSound ==
  ASSUME NEW me, NEW q, convertedLeads(me, q)
  PROVE  table' = table /\ Sound'
<1>1. PICK fields : /\ Say("converted", me, q, fields)
                    /\ "list" \in DOMAIN fields /\ fields.list = Ids(Converted(me, q))
  BY DEF convertedLeads
<1>2. Converted(me, q) \subseteq Visible(me)
  BY BaseVisible DEF Converted
<1> QED BY <1>1, <1>2, ListWithin DEF PerOwner

LEMMA AgingSound ==
  ASSUME NEW me, NEW q, leadAging(me, q)
  PROVE  table' = table /\ Sound'
<1>1. PICK fields : /\ Say("aging", me, q, fields)
                    /\ "list" \in DOMAIN fields /\ fields.list = Ids(Aging(me, q))
  BY DEF leadAging, Bands
<1>2. Aging(me, q) \subseteq Visible(me)
  BY BaseVisible DEF Aging
<1> QED BY <1>1, <1>2, ListWithin DEF PerOwner

LEMMA ResponseSound ==
  ASSUME NEW me, NEW q, leadFirstResponse(me, q)
  PROVE  table' = table /\ Sound'
<1>1. PICK fields : /\ Say("firstResponse", me, q, fields)
                    /\ "list" \in DOMAIN fields /\ fields.list = Ids(FirstResponse(me, q))
  BY DEF leadFirstResponse
<1>2. FirstResponse(me, q) \subseteq Visible(me)
  BY BaseVisible DEF FirstResponse
<1> QED BY <1>1, <1>2, ListWithin DEF PerOwner

LEMMA HotSound ==
  ASSUME NEW me, NEW q, hotLeads(me, q)
  PROVE  table' = table /\ Sound'
<1>1. PICK fields : /\ Say("hotLeads", me, q, fields)
                    /\ "list" \in DOMAIN fields /\ fields.list = Ids(Base(me, [Period(q) EXCEPT !.status = HOT_LEAD_STATUSES]))
  BY DEF hotLeads
<1>2. Base(me, [Period(q) EXCEPT !.status = HOT_LEAD_STATUSES]) \subseteq Visible(me)
  BY BaseVisible
<1> QED BY <1>1, <1>2, ListWithin DEF PerOwner

LEMMA DuplicatesSound ==
  ASSUME NEW me, NEW q, duplicateEnquiries(me, q)
  PROVE  table' = table /\ Sound'
<1>1. \E fields : Say("duplicates", me, q, fields) /\ "list" \notin DOMAIN fields
  BY DEF duplicateEnquiries
<1> QED BY <1>1, NoList DEF PerOwner, FollowUpLists

LEMMA WorklistSound ==
  ASSUME NEW me, NEW q, worklist(me, q)
  PROVE  table' = table /\ Sound'
<1>1. \E fields : Say("worklist", me, q, fields) /\ "list" \notin DOMAIN fields
  BY DEF worklist
<1> QED BY <1>1, NoList DEF PerOwner, FollowUpLists

LEMMA TrackerSound ==
  ASSUME NEW me, NEW q, tracker(me, q)
  PROVE  table' = table /\ Sound'
<1>1. \E fields : Say("tracker", me, q, fields) /\ "list" \notin DOMAIN fields
  BY DEF tracker
<1> QED BY <1>1, NoList DEF PerOwner, FollowUpLists

LEMMA KpisSound ==
  ASSUME NEW me, NEW q, kpis(me, q)
  PROVE  table' = table /\ Sound'
<1>1. \E fields : Say("kpis", me, q, fields) /\ "list" \notin DOMAIN fields
  BY DEF kpis
<1> QED BY <1>1, NoList DEF PerOwner, FollowUpLists

LEMMA OverviewSound ==
  ASSUME NEW me, NEW q, overview(me, q)
  PROVE  table' = table /\ Sound'
<1>1. \E fields : Say("revenue", me, q, fields) /\ "list" \notin DOMAIN fields
  BY DEF overview
<1> QED BY <1>1, NoList DEF PerOwner, FollowUpLists

LEMMA DealsSound ==
  ASSUME NEW me, NEW q, deals(me, q)
  PROVE  table' = table /\ Sound'
<1>1. \E fields : Say("deals", me, q, fields) /\ "list" \notin DOMAIN fields
  BY DEF deals
<1> QED BY <1>1, NoList DEF PerOwner, FollowUpLists

LEMMA PipelineSound ==
  ASSUME NEW me, NEW q, salesPipeline(me, q)
  PROVE  table' = table /\ Sound'
<1>1. \E fields : Say("salesPipeline", me, q, fields) /\ "list" \notin DOMAIN fields
  BY DEF salesPipeline
<1> QED BY <1>1, NoList DEF PerOwner, FollowUpLists

LEMMA FunnelSound ==
  ASSUME NEW me, NEW q, liveFunnel(me, q)
  PROVE  table' = table /\ Sound'
<1>1. \E fields : Say("liveFunnel", me, q, fields) /\ "list" \notin DOMAIN fields
  BY DEF liveFunnel
<1> QED BY <1>1, NoList DEF PerOwner, FollowUpLists

LEMMA StagesSound ==
  ASSUME NEW me, NEW q, stageOverview(me, q)
  PROVE  table' = table /\ Sound'
<1>1. \E fields : Say("stages", me, q, fields) /\ "list" \notin DOMAIN fields
  BY DEF stageOverview
<1> QED BY <1>1, NoList DEF PerOwner, FollowUpLists

LEMMA RevenueSound ==
  ASSUME NEW me, NEW q, teamRevenue(me, q)
  PROVE  table' = table /\ Sound'
<1>1. \E fields : Say("teamRevenue", me, q, fields) /\ "list" \notin DOMAIN fields
  BY DEF teamRevenue
<1> QED BY <1>1, NoList DEF PerOwner, FollowUpLists

LEMMA LeaderboardSound ==
  ASSUME NEW me, NEW q, salesLeaderboard(me, q)
  PROVE  table' = table /\ Sound'
<1>1. \E fields : Say("leaderboard", me, q, fields) /\ "list" \notin DOMAIN fields
  BY DEF salesLeaderboard
<1> QED BY <1>1, NoList DEF PerOwner, FollowUpLists

LEMMA ConversionSound ==
  ASSUME NEW me, NEW q, leadsConversion(me, q)
  PROVE  table' = table /\ Sound'
<1>1. \E fields : Say("conversion", me, q, fields) /\ "list" \notin DOMAIN fields
  BY DEF leadsConversion
<1> QED BY <1>1, NoList DEF PerOwner, FollowUpLists

LEMMA SummarySound ==
  ASSUME NEW me, NEW q, leadSourceSummary(me, q)
  PROVE  table' = table /\ Sound'
<1>1. \E fields : Say("sourceSummary", me, q, fields) /\ "list" \notin DOMAIN fields
  BY DEF leadSourceSummary
<1> QED BY <1>1, NoList DEF PerOwner, FollowUpLists

LEMMA AttentionSound ==
  ASSUME NEW me, NEW q, leadsAttention(me, q)
  PROVE  table' = table /\ Sound'
<1>1. \E fields : Say("attention", me, q, fields) /\ "list" \notin DOMAIN fields
  BY DEF leadsAttention
<1> QED BY <1>1, NoList DEF PerOwner, FollowUpLists

LEMMA AnalyticsSound ==
  ASSUME NEW me, NEW q, callAnalytics(me, q)
  PROVE  table' = table /\ Sound'
<1>1. \E fields : Say("analytics", me, q, fields) /\ "list" \notin DOMAIN fields
  BY DEF callAnalytics
<1> QED BY <1>1, NoList DEF PerOwner, FollowUpLists

LEMMA CallRowsSound ==
  ASSUME NEW me, NEW q, callLeaderboard(me, q)
  PROVE  table' = table /\ Sound'
<1>1. \E fields : Say("callLeaderboard", me, q, fields) /\ "list" \notin DOMAIN fields
  BY DEF callLeaderboard
<1> QED BY <1>1, NoList DEF PerOwner, FollowUpLists

LEMMA CallSummarySound ==
  ASSUME NEW me, NEW q, callSummary(me, q)
  PROVE  table' = table /\ Sound'
<1>1. \E fields : Say("callSummary", me, q, fields) /\ "list" \notin DOMAIN fields
  BY DEF callSummary
<1> QED BY <1>1, NoList DEF PerOwner, FollowUpLists

LEMMA CallLogSound ==
  ASSUME NEW me, NEW q, callLog(me, q)
  PROVE  table' = table /\ Sound'
<1>1. \E fields : Say("callLog", me, q, fields) /\ "list" \notin DOMAIN fields
  BY DEF callLog
<1> QED BY <1>1, NoList DEF PerOwner, FollowUpLists

LEMMA CardsSound ==
  ASSUME NEW me, NEW byStage, NEW cards, dashboardSummary(me, byStage, cards)
  PROVE  table' = table /\ Sound'
<1>1. \E fields : Say("cards", me, Query, fields) /\ "list" \notin DOMAIN fields
  BY DEF dashboardSummary
<1> QED BY <1>1, NoList DEF PerOwner, FollowUpLists

LEMMA HistorySound ==
  ASSUME NEW me, NEW number, callHistory(me, number)
  PROVE  table' = table /\ Sound'
<1> DEFINE told(contact, calls) == [contact |-> contact, calls |-> calls]
<1>1. \E contact, calls : Say("history", me, Query, told(contact, calls))
  BY DEF callHistory
<1>2. \A contact, calls : "list" \notin DOMAIN told(contact, calls)
  OBVIOUS
<1> HIDE DEF told
<1> QED BY <1>1, <1>2, NoList DEF PerOwner, FollowUpLists

\* A report over follow-ups lists those, not leads.
LEMMA FollowUpsSound ==
  ASSUME NEW name \in FollowUpLists, NEW me, NEW q, NEW S, FollowUpReport(name, me, q, S)
  PROVE  table' = table /\ Sound'
<1>1. \E fields : Say(name, me, q, fields)
  BY DEF FollowUpReport
<1> QED BY <1>1, NoList DEF PerOwner, FollowUpLists

\* An answer with a row per owner: an agent has the only row.
LEMMA RowsShown ==
  ASSUME NEW name \in PerOwner, NEW me, NEW q, NEW fields, Say(name, me, q, fields),
         "rows" \in DOMAIN fields,
         Staff[me].role = "SALES_AGENT" => DOMAIN fields.rows \subseteq {me},
         name = "teamPerformance" =>
           /\ "teams" \in DOMAIN fields
           /\ Staff[me].role = "SALES_AGENT" => fields.teams = <<>>,
         NEW S, S \subseteq Visible(me),
         "list" \in DOMAIN fields => fields.list = Ids(S)
  PROVE  table' = table /\ Sound'
<1>1. name # "leads" /\ name \notin FollowUpLists
  BY DEF PerOwner, FollowUpLists
<1>2. /\ answer'.report = name /\ answer'.me = me /\ answer'.rows = fields.rows /\ table' = table
      /\ DOMAIN answer' = {"report", "me", "query"} \cup DOMAIN fields
      /\ "list" \in DOMAIN fields => answer'.list = fields.list
      /\ "teams" \in DOMAIN fields => answer'.teams = fields.teams
  BY Saying
<1>3. ListShown'
  <2>1. "list" \in DOMAIN answer' => answer'.list \subseteq Ids(Visible(me))
    BY <1>2, IdsWithin
  <2> QED BY <2>1, <1>2 DEF ListShown, Ids, Visible, leads
<1>4. OwnRows'
  BY <1>2 DEF OwnRows
<1>5. ListedLeads'
  BY <1>1, <1>2 DEF ListedLeads, Is
<1> QED BY <1>2, <1>3, <1>4, <1>5 DEF Sound

\* An agent has no row but his own.
LEMMA RowsForAgent ==
  ASSUME NEW me, NEW S, Staff[me].role = "SALES_AGENT"
  PROVE  RowsFor(me, S) \subseteq {me}
BY DEF RowsFor, SeesOnlySelf

LEMMA OwnershipSound ==
  ASSUME NEW me, NEW q, leadsByOwnership(me, q)
  PROVE  table' = table /\ Sound'
<1> DEFINE S == ByOwnership(me, q)
<1>1. PICK fields : /\ Say("ownership", me, q, fields)
                    /\ "list" \in DOMAIN fields /\ fields.list = Ids(S)
                    /\ "rows" \in DOMAIN fields /\ DOMAIN fields.rows = RowsFor(me, S)
  BY DEF leadsByOwnership
<1>2. S \subseteq Visible(me)
  BY BaseVisible DEF ByOwnership, ByStatus
<1> HIDE DEF S
<1> QED BY <1>1, <1>2, RowsForAgent, RowsShown DEF PerOwner

LEMMA NoActivitySound ==
  ASSUME NEW me, NEW q, noActivity(me, q)
  PROVE  table' = table /\ Sound'
<1> DEFINE S == NoActivity(me, q)
<1>1. PICK fields : /\ Say("noActivity", me, q, fields)
                    /\ "list" \in DOMAIN fields /\ fields.list = Ids(S)
                    /\ "rows" \in DOMAIN fields /\ DOMAIN fields.rows = RowsFor(me, S)
  BY DEF noActivity
<1>2. S \subseteq Visible(me)
  BY BaseVisible DEF NoActivity
<1> HIDE DEF S
<1> QED BY <1>1, <1>2, RowsForAgent, RowsShown DEF PerOwner

LEMMA TodayLeadsSound ==
  ASSUME NEW me, NEW q, todayLeads(me, q)
  PROVE  table' = table /\ Sound'
<1> DEFINE S == TodayLeads(me, q)
<1>1. PICK fields : /\ Say("todayLeads", me, q, fields)
                    /\ "list" \in DOMAIN fields /\ fields.list = Ids(S)
                    /\ "rows" \in DOMAIN fields /\ DOMAIN fields.rows = RowsFor(me, S)
  BY DEF todayLeads
<1>2. S \subseteq Visible(me)
  BY BaseVisible DEF TodayLeads
<1> HIDE DEF S
<1> QED BY <1>1, <1>2, RowsForAgent, RowsShown DEF PerOwner

LEMMA TeamPerformanceSound ==
  ASSUME NEW me, NEW q, teamPerformance(me, q)
  PROVE  table' = table /\ Sound'
<1> DEFINE teams == IF Alone(me) THEN Null ELSE TeamsInScope(me, q)
           S == ByOwnership(me, [q EXCEPT !.team = IF teams = Null THEN {} ELSE teams])
           people == People(me, q, teams, S)
           of == IF Alone(me) THEN <<>>
                 ELSE [t \in IF teams = Null THEN {Staff[u].team : u \in people} ELSE teams |->
                         Performance({l \in S : teamLeadsWhere(l, t)})]
           fields == IF teams = {} THEN [total |-> Performance({}), rows |-> <<>>, teams |-> <<>>]
                     ELSE [total |-> Performance(S),
                           rows |-> [u \in people |-> Performance(OwnedBy(S, u))], teams |-> of]
<1>1. Say("teamPerformance", me, q, fields)
  BY DEF teamPerformance
<1>2. "rows" \in DOMAIN fields /\ "teams" \in DOMAIN fields /\ "list" \notin DOMAIN fields
  OBVIOUS
<1>3. ASSUME Staff[me].role = "SALES_AGENT"
      PROVE  DOMAIN fields.rows \subseteq {me} /\ fields.teams = <<>>
  <2>1. Alone(me)
    BY <1>3 DEF Alone, SeesOnlySelf
  <2>2. people = {me} /\ of = <<>>
    BY <2>1 DEF People
  <2>3. CASE teams = {}
    BY <2>3
  <2>4. CASE teams # {}
    <3>1. fields.rows = [u \in people |-> Performance(OwnedBy(S, u))] /\ fields.teams = of
      BY <2>4
    <3> HIDE DEF fields, people, of
    <3> QED BY <2>2, <3>1
  <2> QED BY <2>3, <2>4
<1> HIDE DEF fields
<1>4. {} \subseteq Visible(me)
  OBVIOUS
<1> QED BY <1>1, <1>2, <1>3, <1>4, RowsShown DEF PerOwner

LEMMA LeadListSound ==
  ASSUME NEW me, NEW c \in Conditions, leadList(me, c)
  PROVE  table' = table /\ Sound'
<1> DEFINE q == [Query EXCEPT !.conditions = {c}]
           fields == [list |-> Ids(Base(me, q))]
<1>1. Say("leads", me, q, fields) /\ Valid(c)
  BY DEF leadList
<1>2. DOMAIN fields = {"list"} /\ fields.list = Ids(Base(me, q))
  OBVIOUS
<1>3. q = [Query EXCEPT !.conditions = {c}]
  OBVIOUS
<1> HIDE DEF q, fields
<1>4. /\ table' = table /\ answer'.report = "leads" /\ answer'.me = me /\ answer'.query = q
      /\ answer'.list = Ids(Base(me, q))
  BY <1>1, <1>2, Saying
<1>5. Ids(Base(me, q)) \subseteq Ids(Visible(me))
  BY BaseVisible, IdsWithin
<1>6. ListShown'
  BY <1>4, <1>5 DEF ListShown, Ids, Visible, leads
<1>7. OwnRows'
  BY <1>4 DEF OwnRows, PerOwner
<1>8. ListedLeads'
  <2>1. answer'.list = Ids(Base(answer.me, answer.query))'
    BY <1>4 DEF Ids, Base, leads
  <2>2. answer'.query = [Query EXCEPT !.conditions = {c}]
    BY <1>3, <1>4
  <2> QED BY <1>1, <2>1, <2>2 DEF ListedLeads
<1> QED BY <1>4, <1>6, <1>7, <1>8 DEF Sound


\* So does every step that asks a question.
LEMMA ReadsStep ==
  ASSUME NextReports \/ NextFollowUps \/ NextRevenue \/ NextCalls
  PROVE  table' = table /\ Sound'
<1>1. CASE NextReports
  <2>1. CASE \E me \in Askers, c \in Conditions : leadList(me, c)
    BY <2>1, LeadListSound
  <2>2. CASE \E me \in Askers, q \in Queries :
               \/ leadsByStatus(me, q) \/ leadsBySource(me, q) \/ leadsByOwnership(me, q)
               \/ lostLeads(me, q) \/ convertedLeads(me, q)
               \/ noActivity(me, q) \/ todayLeads(me, q)
               \/ leadAging(me, q) \/ leadFirstResponse(me, q)
               \/ duplicateEnquiries(me, q) \/ teamPerformance(me, q)
    BY <2>2, StatusSound, SourceSound, OwnershipSound, LostSound, ConvertedSound, NoActivitySound,
      TodayLeadsSound, AgingSound, ResponseSound, DuplicatesSound, TeamPerformanceSound
  <2> QED BY <1>1, <2>1, <2>2 DEF NextReports
<1>2. CASE NextFollowUps
  <2>1. \A me, q : overdueFollowUps(me, q) \/ todaysFollowUps(me, q) \/ upcomingFollowUps(me, q)
          => table' = table /\ Sound'
    BY FollowUpsSound DEF overdueFollowUps, todaysFollowUps, upcomingFollowUps, FollowUpLists
  <2>2. PICK me \in Askers, q \in Queries :
          \/ worklist(me, q) \/ tracker(me, q) \/ kpis(me, q)
          \/ overdueFollowUps(me, q) \/ todaysFollowUps(me, q) \/ upcomingFollowUps(me, q)
    BY <1>2 DEF NextFollowUps
  <2> QED BY <2>1, <2>2, WorklistSound, TrackerSound, KpisSound
<1>3. CASE NextRevenue
  <2>1. CASE \E me \in Askers : \/ dashboardSummary(me, TRUE, {s.name : s \in Stages})
                                \/ dashboardSummary(me, FALSE, {l.source : l \in leads} \ {Null, Blank})
    <3>1. PICK me, byStage, cards : dashboardSummary(me, byStage, cards)
      BY <2>1
    <3> QED BY <3>1, CardsSound
  <2>2. CASE \E me \in Askers, q \in Queries :
               \/ overview(me, q) \/ deals(me, q) \/ salesPipeline(me, q) \/ stageOverview(me, q)
               \/ liveFunnel(me, q)
               \/ teamRevenue(me, q) \/ salesLeaderboard(me, q) \/ leadsConversion(me, q)
               \/ leadSourceSummary(me, q) \/ leadsAttention(me, q) \/ hotLeads(me, q)
    BY <2>2, OverviewSound, DealsSound, PipelineSound, StagesSound, FunnelSound, RevenueSound,
      LeaderboardSound, ConversionSound, SummarySound, AttentionSound, HotSound
  <2> QED BY <1>3, <2>1, <2>2 DEF NextRevenue
<1>4. CASE NextCalls
  <2>1. CASE \E me \in Askers, q \in Queries :
               callAnalytics(me, q) \/ callLeaderboard(me, q) \/ callSummary(me, q) \/ callLog(me, q)
    BY <2>1, AnalyticsSound, CallRowsSound, CallSummarySound, CallLogSound
  <2>2. CASE \E me \in Askers, number \in {Trim[p] : p \in DOMAIN Trim} : callHistory(me, number)
    BY <2>2, HistorySound
  <2> QED BY <1>4, <2>1, <2>2 DEF NextCalls
<1> QED BY <1>1, <1>2, <1>3, <1>4

\* The table is one of the tables, and an answer keeps what its report promises.
AnswersIInv == table \in Tables /\ (answer # NoAnswer => Sound)

\* And so the invariant is kept.
LEMMA AnswersStep ==
  ASSUME AnswersIInv, [ReadsNext]_allVars
  PROVE  AnswersIInv'
<1>1. CASE NextReports \/ NextFollowUps \/ NextRevenue \/ NextCalls
  BY <1>1, ReadsStep DEF AnswersIInv
<1>2. CASE UNCHANGED readVars
  BY <1>2 DEF AnswersIInv, readVars, Sound, ListShown, OwnRows, ListedLeads, Is, Ids, Visible, Base,
    leads
<1> QED BY <1>1, <1>2 DEF ReadsNext, allVars

\* Whatever is asked, the answer is of leads its reader may see.
THEOREM AnswersSound == ReadsSpec => []AnswersIInv
<1>1. ReadsInit => AnswersIInv
  BY DEF ReadsInit, ReadInit, AnswersIInv
<1>2. AnswersIInv /\ [ReadsNext]_allVars => AnswersIInv'
  BY AnswersStep
<1> QED BY <1>1, <1>2, PTL DEF ReadsSpec

\* What the negative operator of a condition lists is what the operator it denies leaves out.
THEOREM NegationsComplete == ReadsSpec => []NegationCompletes
<1>1. AnswersIInv => NegationCompletes
  <2> SUFFICES ASSUME AnswersIInv, Is("leads"),
                      NEW c \in answer.query.conditions, c.op \in DOMAIN Denies
               PROVE  answer.list = Ids(Base(answer.me, Query))
                        \ Ids(Base(answer.me,
                                   [Query EXCEPT !.conditions = {[c EXCEPT !.op = Denies[c.op]]}]))
    BY DEF NegationCompletes
  <2> DEFINE me == answer.me
             d == [c EXCEPT !.op = Denies[c.op]]
             plain == Query
             under == [Query EXCEPT !.conditions = {c}]
             denied == [Query EXCEPT !.conditions = {d}]
  <2>1. answer # NoAnswer
    BY DEF Is, NoAnswer
  <2>2. PICK x \in Conditions : /\ Valid(x) /\ answer.query = [Query EXCEPT !.conditions = {x}]
                                /\ answer.list = Ids(Base(me, answer.query))
    BY <2>1 DEF AnswersIInv, Sound, ListedLeads
  <2>3. /\ Query.conditions = {}
        /\ {"source", "status", "agent", "tag", "pipeline", "from", "to", "unassigned", "todays",
            "overdue", "noActivity", "day", "search", "conditions"} \subseteq DOMAIN Query
    BY DEF Query, Along, NoFilter
  <2>4. x = c
    BY <2>2, <2>3
  <2>5. Valid(c) /\ c \in Conditions /\ answer.list = Ids(Base(me, under))
    BY <2>2, <2>4
  <2>6. \A l : buildLeadWhere(me, l, FALSE, under.search, under.conditions, under)
                 <=> /\ buildLeadWhere(me, l, FALSE, plain.search, plain.conditions, plain)
                     /\ ConditionWhere(l, c) = "true"
    <3>1. /\ plain.conditions = {} /\ under.conditions = {c} /\ under.search = plain.search
          /\ under.source = plain.source /\ under.status = plain.status /\ under.agent = plain.agent
          /\ under.tag = plain.tag /\ under.pipeline = plain.pipeline /\ under.from = plain.from
          /\ under.to = plain.to /\ under.unassigned = plain.unassigned /\ under.todays = plain.todays
          /\ under.overdue = plain.overdue /\ under.noActivity = plain.noActivity /\ under.day = plain.day
      BY <2>3
    <3> HIDE DEF plain, under, d
    <3>2. \A l : leadFilterWhere(l, under) <=> leadFilterWhere(l, plain)
      BY <3>1 DEF leadFilterWhere
    <3> QED BY <3>1, <3>2 DEF buildLeadWhere
  <2>7. \A l : buildLeadWhere(me, l, FALSE, denied.search, denied.conditions, denied)
                 <=> /\ buildLeadWhere(me, l, FALSE, plain.search, plain.conditions, plain)
                     /\ ConditionWhere(l, d) = "true"
    <3>1. /\ plain.conditions = {} /\ denied.conditions = {d} /\ denied.search = plain.search
          /\ denied.source = plain.source /\ denied.status = plain.status /\ denied.agent = plain.agent
          /\ denied.tag = plain.tag /\ denied.pipeline = plain.pipeline /\ denied.from = plain.from
          /\ denied.to = plain.to /\ denied.unassigned = plain.unassigned /\ denied.todays = plain.todays
          /\ denied.overdue = plain.overdue /\ denied.noActivity = plain.noActivity /\ denied.day = plain.day
      BY <2>3
    <3> HIDE DEF plain, denied, d
    <3>2. \A l : leadFilterWhere(l, denied) <=> leadFilterWhere(l, plain)
      BY <3>1 DEF leadFilterWhere
    <3> QED BY <3>1, <3>2 DEF buildLeadWhere
  <2>8. \A l \in leads : ConditionWhere(l, c) = "true" <=> ConditionWhere(l, d) # "true"
    BY <2>5, Denied, TablesAssumption DEF leads, AnswersIInv
  <2> HIDE DEF under, denied, plain, d
  <2>9. /\ Base(me, under) = {l \in Base(me, plain) : ConditionWhere(l, c) = "true"}
        /\ Base(me, denied) = {l \in Base(me, plain) : ConditionWhere(l, d) = "true"}
    BY <2>6, <2>7 DEF Base
  <2>10. \A l, m \in leads : l.id = m.id => l = m
    BY PoolAssumption, TablesAssumption DEF leads, AnswersIInv
  <2>11. Ids(Base(me, under)) = Ids(Base(me, plain)) \ Ids(Base(me, denied))
    BY <2>8, <2>9, <2>10 DEF Ids, Base
  <2> QED BY <2>5, <2>11 DEF d, plain, denied
<1> QED BY <1>1, AnswersSound, PTL

\* The lists and the reports keep within the scope of their reader.
THEOREM AnswersWithinScope == ReadsSpec => []WithinScope
<1>1. AnswersIInv => WithinScope
  <2> SUFFICES ASSUME AnswersIInv PROVE WithinScope
    OBVIOUS
  <2> DEFINE me == answer.me
  <2>1. ASSUME answer # NoAnswer, "list" \in DOMAIN answer, answer.report \notin FollowUpLists,
               NEW id \in answer.list
        PROVE  /\ ~Pool[id].archived
               /\ Staff[me].role = "SALES_AGENT" => me \in Assignees(Pool[id])
               /\ Staff[me].role = "SALES_MANAGER" =>
                    /\ Pool[id].pipeline \notin Staff[me].denied
                    /\ Assignees(Pool[id]) \cap TeamOrSelf(me) # {}
    <3>1. PICK l \in Visible(me) : l.id = id
      BY <2>1 DEF AnswersIInv, Sound, ListShown, Ids
    <3>2. \A k \in table : Pool[k].id = k
      BY PoolAssumption, TablesAssumption DEF AnswersIInv
    <3>3. l \in leads /\ leadScopeWhere(me, l, FALSE)
      BY <3>1 DEF Visible
    <3>4. l = Pool[id]
      BY <3>1, <3>2, <3>3 DEF leads
    <3> QED BY <3>3, <3>4 DEF leadScopeWhere, openPipelinesWhere, OrgWide
  <2>2. ASSUME answer.report \in PerOwner, Staff[me].role = "SALES_AGENT"
        PROVE  /\ DOMAIN answer.rows \subseteq {me}
               /\ answer.report = "teamPerformance" => answer.teams = <<>>
    <3>1. answer # NoAnswer
      BY <2>2 DEF NoAnswer, PerOwner
    <3> QED BY <2>2, <3>1 DEF AnswersIInv, Sound, OwnRows
  <2> QED BY <2>1, <2>2 DEF WithinScope, PerOwner
<1> QED BY <1>1, AnswersSound, PTL

-----------------------------------------------------------------------------
(* The export of the leads. *)

-----------------------------------------------------------------------------
(* The exports. *)

\* The rows of a list as far as the file has come, and those after it.
Passed(s, n) == {s[j] : j \in {k \in DOMAIN s : k <= n}}
Ahead(s, n) == {s[j] : j \in {k \in DOMAIN s : k > n}}

\* Insertion and removal, place by place.
LEMMA Concatenated ==
  ASSUME NEW R, NEW a \in Seq(R), NEW b \in Seq(R)
  PROVE  /\ a \o b \in Seq(R) /\ Len(a \o b) = Len(a) + Len(b)
         /\ \A j \in 1 .. Len(a) : (a \o b)[j] = a[j]
         /\ \A j \in 1 .. Len(b) : (a \o b)[Len(a) + j] = b[j]
OBVIOUS

\* What insertion and removal leave at each place, as sequences and place by place.
LEMMA Inserted ==
  ASSUME NEW R, NEW s \in Seq(R), NEW i \in 1 .. Len(s) + 1, NEW r \in R
  PROVE  /\ E!InsertAt(s, i, r) \in Seq(R) /\ Len(E!InsertAt(s, i, r)) = Len(s) + 1
         /\ \A j \in 1 .. Len(s) + 1 :
              E!InsertAt(s, i, r)[j] = IF j < i THEN s[j] ELSE IF j = i THEN r ELSE s[j - 1]
<1> DEFINE a == SubSeq(s, 1, i - 1)
           b == SubSeq(s, i, Len(s))
           c == a \o <<r>>
           t == c \o b
<1>1. /\ a \in Seq(R) /\ Len(a) = i - 1 /\ \A j \in 1 .. i - 1 : a[j] = s[j]
      /\ b \in Seq(R) /\ Len(b) = Len(s) + 1 - i
      /\ \A j \in 1 .. Len(s) + 1 - i : b[j] = s[i + j - 1]
  OBVIOUS
<1>2. E!InsertAt(s, i, r) = t
  BY DEF E!InsertAt
<1>3. <<r>> \in Seq(R) /\ Len(<<r>>) = 1 /\ <<r>>[1] = r
  OBVIOUS
<1> HIDE DEF a, b
<1>4. /\ c \in Seq(R) /\ Len(c) = i
      /\ \A j \in 1 .. i : c[j] = IF j < i THEN s[j] ELSE r
  BY <1>1, <1>3
<1> HIDE DEF c
<1>5. /\ t \in Seq(R) /\ Len(t) = Len(s) + 1
      /\ \A j \in 1 .. i : t[j] = c[j]
      /\ \A j \in 1 .. Len(b) : t[i + j] = b[j]
  BY <1>1, <1>4, Concatenated
<1> HIDE DEF t
<1>6. ASSUME NEW j \in 1 .. Len(s) + 1, j > i PROVE t[j] = s[j - 1]
  <2>1. j - i \in 1 .. Len(b) /\ i + (j - i) = j /\ i + (j - i) - 1 = j - 1
    BY <1>1, <1>6
  <2>2. t[i + (j - i)] = b[j - i]
    BY <1>5, <2>1
  <2>3. b[j - i] = s[i + (j - i) - 1]
    BY <1>1, <2>1
  <2> QED BY <2>1, <2>2, <2>3
<1>7. \A j \in 1 .. Len(s) + 1 : t[j] = IF j < i THEN s[j] ELSE IF j = i THEN r ELSE s[j - 1]
  BY <1>4, <1>5, <1>6
<1> QED BY <1>2, <1>5, <1>7

IsInsertion(s, i, r, t) ==
  /\ Len(t) = Len(s) + 1 /\ DOMAIN t = 1 .. Len(s) + 1 /\ DOMAIN s = 1 .. Len(s)
  /\ \A j \in 1 .. Len(s) + 1 : t[j] = IF j < i THEN s[j] ELSE IF j = i THEN r ELSE s[j - 1]

LEMMA InsertedAs ==
  ASSUME NEW R, NEW s \in Seq(R), NEW i \in 1 .. Len(s) + 1, NEW r \in R
  PROVE  E!InsertAt(s, i, r) \in Seq(R) /\ IsInsertion(s, i, r, E!InsertAt(s, i, r))
<1> DEFINE v == E!InsertAt(s, i, r)
<1>1. /\ v \in Seq(R) /\ Len(v) = Len(s) + 1
      /\ \A j \in 1 .. Len(s) + 1 : v[j] = IF j < i THEN s[j] ELSE IF j = i THEN r ELSE s[j - 1]
  BY Inserted
<1> HIDE DEF v
<1>2. v \in Seq(R) /\ IsInsertion(s, i, r, v)
  BY <1>1 DEF IsInsertion
<1> QED BY <1>2 DEF v

LEMMA Removed ==
  ASSUME NEW R, NEW s \in Seq(R), NEW k \in 1 .. Len(s)
  PROVE  /\ E!RemoveAt(s, k) \in Seq(R) /\ Len(E!RemoveAt(s, k)) = Len(s) - 1
         /\ \A j \in 1 .. Len(s) - 1 :
              E!RemoveAt(s, k)[j] = IF j < k THEN s[j] ELSE s[j + 1]
<1> DEFINE a == SubSeq(s, 1, k - 1)
           b == SubSeq(s, k + 1, Len(s))
<1>1. /\ a \in Seq(R) /\ Len(a) = k - 1 /\ \A j \in 1 .. k - 1 : a[j] = s[j]
      /\ b \in Seq(R) /\ Len(b) = Len(s) - k /\ \A j \in 1 .. Len(s) - k : b[j] = s[k + j]
  OBVIOUS
<1>2. E!RemoveAt(s, k) = a \o b
  BY DEF E!RemoveAt
<1> HIDE DEF a, b
<1>3. a \o b \in Seq(R) /\ Len(a \o b) = Len(s) - 1
  <2>1. Len(a) + Len(b) = Len(s) - 1
    BY <1>1
  <2>2. a \in Seq(R) /\ b \in Seq(R)
    BY <1>1
  <2>3. a \o b \in Seq(R) /\ Len(a \o b) = Len(a) + Len(b)
    BY <2>2, Concatenated
  <2> QED BY <2>1, <2>3
<1>4. \A j \in 1 .. Len(s) - 1 : (a \o b)[j] = IF j <= Len(a) THEN a[j] ELSE b[j - Len(a)]
  BY <1>1
<1>5. ASSUME NEW j \in 1 .. Len(s) - 1
      PROVE  (a \o b)[j] = IF j < k THEN s[j] ELSE s[j + 1]
  <2>1. CASE j < k
    BY <1>1, <1>4, <2>1
  <2>2. CASE ~(j < k)
    <3>1. j - Len(a) \in 1 .. Len(s) - k /\ k + (j - Len(a)) = j + 1 /\ ~(j <= Len(a)) /\ ~(j < k)
      BY <1>1, <2>2
    <3>2. (a \o b)[j] = b[j - Len(a)] /\ b[j - Len(a)] = s[k + (j - Len(a))]
      BY <1>1, <1>4, <3>1
    <3> QED BY <3>1, <3>2
  <2> QED BY <2>1, <2>2
<1> QED BY <1>2, <1>3, <1>5

IsRemoval(s, k, t) ==
  /\ Len(t) = Len(s) - 1 /\ DOMAIN t = 1 .. Len(s) - 1 /\ DOMAIN s = 1 .. Len(s)
  /\ \A j \in 1 .. Len(s) - 1 : t[j] = IF j < k THEN s[j] ELSE s[j + 1]

LEMMA RemovedAs ==
  ASSUME NEW R, NEW s \in Seq(R), NEW k \in 1 .. Len(s)
  PROVE  E!RemoveAt(s, k) \in Seq(R) /\ IsRemoval(s, k, E!RemoveAt(s, k))
<1> DEFINE v == E!RemoveAt(s, k)
<1>1. /\ v \in Seq(R) /\ Len(v) = Len(s) - 1
      /\ \A j \in 1 .. Len(s) - 1 : v[j] = IF j < k THEN s[j] ELSE s[j + 1]
  BY Removed
<1> HIDE DEF v
<1>2. v \in Seq(R) /\ IsRemoval(s, k, v)
  BY <1>1 DEF IsRemoval
<1> QED BY <1>2 DEF v

\* A change of the list carries one row at most across the place the file has come to.
LEMMA InsertShifts ==
  ASSUME NEW R, NEW s \in Seq(R), NEW i \in 1 .. Len(s) + 1, NEW r \in R, NEW n \in Nat,
         NEW t, IsInsertion(s, i, r, t)
  PROVE  /\ Passed(t, n) \subseteq Passed(s, n) \cup {r}
         /\ \E y : Ahead(t, n) \subseteq Ahead(s, n) \cup {y}
<1>1. /\ DOMAIN t = 1 .. Len(s) + 1 /\ DOMAIN s = 1 .. Len(s)
      /\ \A j \in 1 .. Len(s) + 1 : t[j] = IF j < i THEN s[j] ELSE IF j = i THEN r ELSE s[j - 1]
  BY DEF IsInsertion
<1>2. Passed(t, n) \subseteq Passed(s, n) \cup {r}
  <2> SUFFICES ASSUME NEW j \in 1 .. Len(s) + 1, j <= n PROVE t[j] \in Passed(s, n) \cup {r}
    BY <1>1 DEF Passed
  <2>1. CASE j < i
    BY <1>1, <2>1 DEF Passed
  <2>2. CASE j = i
    BY <1>1, <2>2
  <2>3. CASE j > i
    <3>1. t[j] = s[j - 1] /\ j - 1 \in 1 .. Len(s) /\ j - 1 <= n
      BY <1>1, <2>3
    <3> QED BY <1>1, <3>1 DEF Passed
  <2> QED BY <2>1, <2>2, <2>3
<1>3. Ahead(t, n) \subseteq Ahead(s, n) \cup {IF i > n THEN r ELSE s[n]}
  <2> SUFFICES ASSUME NEW j \in 1 .. Len(s) + 1, j > n
               PROVE  t[j] \in Ahead(s, n) \cup {IF i > n THEN r ELSE s[n]}
    BY <1>1 DEF Ahead
  <2>1. CASE j < i
    <3>1. t[j] = s[j] /\ j \in 1 .. Len(s)
      BY <1>1, <2>1
    <3> QED BY <1>1, <3>1 DEF Ahead
  <2>2. CASE j = i
    BY <1>1, <2>2
  <2>3. CASE j > i /\ j - 1 > n
    <3>1. t[j] = s[j - 1] /\ j - 1 \in 1 .. Len(s)
      BY <1>1, <2>3
    <3> QED BY <1>1, <2>3, <3>1 DEF Ahead
  <2>4. CASE j > i /\ j - 1 = n
    BY <1>1, <2>4
  <2> QED BY <2>1, <2>2, <2>3, <2>4
<1> QED BY <1>2, <1>3

LEMMA RemoveShifts ==
  ASSUME NEW R, NEW s \in Seq(R), NEW k \in 1 .. Len(s), NEW n \in Nat,
         NEW t, IsRemoval(s, k, t)
  PROVE  /\ \E x : Passed(t, n) \subseteq Passed(s, n) \cup {x}
         /\ Ahead(t, n) \subseteq Ahead(s, n)
<1>1. /\ DOMAIN t = 1 .. Len(s) - 1 /\ DOMAIN s = 1 .. Len(s)
      /\ \A j \in 1 .. Len(s) - 1 : t[j] = IF j < k THEN s[j] ELSE s[j + 1]
  BY DEF IsRemoval
<1>2. Passed(t, n) \subseteq Passed(s, n) \cup {s[n + 1]}
  <2> SUFFICES ASSUME NEW j \in 1 .. Len(s) - 1, j <= n
               PROVE  t[j] \in Passed(s, n) \cup {s[n + 1]}
    BY <1>1 DEF Passed
  <2>1. CASE j < k
    <3>1. t[j] = s[j] /\ j \in 1 .. Len(s)
      BY <1>1, <2>1
    <3> QED BY <1>1, <3>1 DEF Passed
  <2>2. CASE j >= k /\ j < n
    <3>1. t[j] = s[j + 1] /\ j + 1 \in 1 .. Len(s) /\ j + 1 <= n
      BY <1>1, <2>2
    <3> QED BY <1>1, <3>1 DEF Passed
  <2>3. CASE j >= k /\ j = n
    BY <1>1, <2>3
  <2> QED BY <2>1, <2>2, <2>3
<1>3. Ahead(t, n) \subseteq Ahead(s, n)
  <2> SUFFICES ASSUME NEW j \in 1 .. Len(s) - 1, j > n PROVE t[j] \in Ahead(s, n)
    BY <1>1 DEF Ahead
  <2>1. \E m \in 1 .. Len(s) : m > n /\ t[j] = s[m]
    BY <1>1
  <2> QED BY <1>1, <2>1 DEF Ahead
<1> QED BY <1>2, <1>3

IsMove(s, k, i, t) ==
  /\ Len(t) = Len(s) /\ DOMAIN t = 1 .. Len(s) /\ DOMAIN s = 1 .. Len(s)
  /\ \A j \in 1 .. Len(s) :
       t[j] = IF j = i THEN s[k]
              ELSE IF (j < i /\ j < k) \/ (j > i /\ j > k) THEN s[j]
              ELSE IF k < i THEN s[j + 1] ELSE s[j - 1]

LEMMA MovedAs ==
  ASSUME NEW R, NEW s \in Seq(R), NEW k \in 1 .. Len(s), NEW i \in 1 .. Len(s), i # k
  PROVE  /\ E!InsertAt(E!RemoveAt(s, k), i, s[k]) \in Seq(R)
         /\ IsMove(s, k, i, E!InsertAt(E!RemoveAt(s, k), i, s[k]))
<1> DEFINE u == E!RemoveAt(s, k)
           t == E!InsertAt(u, i, s[k])
<1>1. u \in Seq(R) /\ IsRemoval(s, k, u)
  BY RemovedAs
<1> HIDE DEF u
<1>2. PICK r \in R : r = s[k]
  OBVIOUS
<1>3. i \in 1 .. Len(u) + 1
  BY <1>1 DEF IsRemoval
<1>4. t \in Seq(R) /\ IsInsertion(u, i, s[k], t)
  BY <1>1, <1>2, <1>3, InsertedAs
<1> HIDE DEF t
<1>5. /\ Len(t) = Len(s) /\ DOMAIN t = 1 .. Len(s) /\ DOMAIN s = 1 .. Len(s)
      /\ \A j \in 1 .. Len(s) - 1 : u[j] = IF j < k THEN s[j] ELSE s[j + 1]
      /\ \A j \in 1 .. Len(s) : t[j] = IF j < i THEN u[j] ELSE IF j = i THEN s[k] ELSE u[j - 1]
  <2>1. /\ Len(u) = Len(s) - 1 /\ DOMAIN s = 1 .. Len(s)
        /\ \A j \in 1 .. Len(s) - 1 : u[j] = IF j < k THEN s[j] ELSE s[j + 1]
    BY <1>1 DEF IsRemoval
  <2>2. Len(u) + 1 = Len(s)
    BY <2>1
  <2>3. /\ Len(t) = Len(s) /\ DOMAIN t = 1 .. Len(s)
        /\ \A j \in 1 .. Len(s) : t[j] = IF j < i THEN u[j] ELSE IF j = i THEN s[k] ELSE u[j - 1]
    BY <1>4, <2>2 DEF IsInsertion
  <2> QED BY <2>1, <2>3
<1>6. ASSUME NEW j \in 1 .. Len(s)
      PROVE  t[j] = IF j = i THEN s[k]
                    ELSE IF (j < i /\ j < k) \/ (j > i /\ j > k) THEN s[j]
                    ELSE IF k < i THEN s[j + 1] ELSE s[j - 1]
  <2>1. CASE j < i
    <3>1. j \in 1 .. Len(s) - 1 /\ t[j] = u[j]
      BY <1>5, <2>1
    <3> QED BY <1>5, <2>1, <3>1
  <2>2. CASE j = i
    BY <1>5, <2>2
  <2>3. CASE j > i
    <3>1. j - 1 \in 1 .. Len(s) - 1 /\ t[j] = u[j - 1] /\ (j - 1) + 1 = j
      BY <1>5, <2>3
    <3>2. u[j - 1] = IF j - 1 < k THEN s[j - 1] ELSE s[j]
      BY <1>5, <3>1
    <3> QED BY <2>3, <3>1, <3>2
  <2> QED BY <2>1, <2>2, <2>3
<1>7. IsMove(s, k, i, t)
  BY <1>5, <1>6 DEF IsMove
<1> QED BY <1>4, <1>7 DEF t, u

\* At most one row comes before the end of the file, and at most one after it.
CrossesOnce(s, t, n) ==
  /\ \E x : Passed(t, n) \subseteq Passed(s, n) \cup {x}
  /\ \E y : Ahead(t, n) \subseteq Ahead(s, n) \cup {y}

LEMMA MoveShifts ==
  ASSUME NEW R, NEW s \in Seq(R), NEW k \in 1 .. Len(s), NEW i \in 1 .. Len(s), i # k,
         NEW n \in Nat, NEW t, IsMove(s, k, i, t)
  PROVE  CrossesOnce(s, t, n)
<1>2. DOMAIN s = 1 .. Len(s)
  OBVIOUS
<1>3. DOMAIN t = 1 .. Len(s)
  BY DEF IsMove
<1>4. \A j \in 1 .. Len(s) :
        t[j] = IF j = i THEN s[k]
               ELSE IF (j < i /\ j < k) \/ (j > i /\ j > k) THEN s[j]
               ELSE IF k < i THEN s[j + 1] ELSE s[j - 1]
  BY DEF IsMove
<1>5. \E x : Passed(t, n) \subseteq Passed(s, n) \cup {x}
  <2> DEFINE x == IF k < i THEN s[n + 1] ELSE s[k]
  <2> HIDE DEF x
  <2> SUFFICES ASSUME NEW j \in DOMAIN t, j <= n PROVE t[j] \in Passed(s, n) \cup {x}
    BY DEF Passed
  <2>1. t[j] = x \/ \E m \in 1 .. Len(s) : m <= n /\ t[j] = s[m]
    <3>1. j \in 1 .. Len(s)
      BY <1>3
    <3>2. CASE k < i /\ k <= j /\ j < i
      <4>1. t[j] = s[j + 1] /\ j + 1 \in 1 .. Len(s)
        BY <1>4, <3>1, <3>2
      <4>2. CASE j + 1 <= n BY <4>1, <4>2
      <4>3. CASE j + 1 = n + 1 BY <3>2, <4>1, <4>3 DEF x
      <4> QED BY <3>1, <4>2, <4>3
    <3>3. CASE i < k /\ i < j /\ j <= k
      <4>1. t[j] = s[j - 1] /\ j - 1 \in 1 .. Len(s) /\ j - 1 <= n
        BY <1>4, <3>1, <3>3
      <4> QED BY <4>1
    <3>4. CASE j = i
      <4>1. t[j] = s[k]
        BY <1>4, <3>1, <3>4
      <4>2. CASE i < k BY <4>1, <4>2 DEF x
      <4>3. CASE k < i BY <3>4, <4>1, <4>3
      <4> QED BY <4>2, <4>3
    <3>5. CASE (j < i /\ j < k) \/ (j > i /\ j > k)
      BY <1>4, <3>1, <3>5
    <3> QED BY <3>1, <3>2, <3>3, <3>4, <3>5
  <2> QED BY <2>1, <1>2 DEF Passed
<1>6. \E y : Ahead(t, n) \subseteq Ahead(s, n) \cup {y}
  <2> DEFINE y == IF k < i THEN s[k] ELSE s[n]
  <2> HIDE DEF y
  <2> SUFFICES ASSUME NEW j \in DOMAIN t, j > n PROVE t[j] \in Ahead(s, n) \cup {y}
    BY DEF Ahead
  <2>1. t[j] = y \/ \E m \in 1 .. Len(s) : m > n /\ t[j] = s[m]
    BY <1>3, <1>4 DEF y
  <2> QED BY <2>1, <1>2 DEF Ahead
<1> QED BY <1>5, <1>6 DEF CrossesOnce

\* Exports counts as this module does.
LEMMA ExportsCount ==
  /\ \A S : E!Cardinality(S) = Cardinality(S)
  /\ \A S : E!IsFiniteSet(S) <=> IsFiniteSet(S)
BY DEF E!Cardinality, Cardinality, E!IsFiniteSet, IsFiniteSet

\* A set with at most one element more.
LEMMA OneMore ==
  ASSUME NEW A, NEW B, NEW x, IsFiniteSet(B), A \subseteq B \cup {x}
  PROVE  IsFiniteSet(A) /\ Cardinality(A) \in Nat /\ Cardinality(A) <= Cardinality(B) + 1
<1>0. Cardinality(B) \in Nat
  BY FS_CardinalityType
<1>1. IsFiniteSet(B \cup {x}) /\ Cardinality(B \cup {x}) <= Cardinality(B) + 1
  BY <1>0, FS_AddElement
<1>2. IsFiniteSet(A) /\ Cardinality(A) <= Cardinality(B \cup {x})
  BY <1>1, FS_Subset
<1>3. Cardinality(A) \in Nat /\ Cardinality(B \cup {x}) \in Nat
  BY <1>1, <1>2, FS_CardinalityType
<1> QED BY <1>0, <1>1, <1>2, <1>3

-----------------------------------------------------------------------------

\* The rows of the list a file has come past and not written; those it will meet again.
Skipped == (kept \cap Passed(list, Len(export.file))) \ E!File
Again == E!File \cap Ahead(list, Len(export.file))

\* What was skipped is paid for by what left, what was written twice or is still ahead though
\* written by what entered; while nothing changes the file is the list as far as it has come.
ExportIInv ==
  /\ E!TypeOK /\ entered \in Nat /\ left \in Nat
  /\ Cardinality(Skipped) <= left
  /\ Len(export.file) - Cardinality(E!File) + Cardinality(Again) <= entered
  /\ export.step = "ended" /\ Len(export.file) < MaxRows => Len(export.file) >= Len(list)
  /\ entered + left = 0 => /\ Len(export.file) <= Len(list)
                           /\ \A j \in 1 .. Len(export.file) : export.file[j] = list[j]
  /\ event # Null => export.step = "ended" /\ event = Len(export.file)

\* The sets the invariant counts are finite.
LEMMA ExportFinite ==
  ASSUME E!TypeOK
  PROVE  /\ IsFiniteSet(ExportRows) /\ list \in Seq(ExportRows) /\ export.file \in Seq(ExportRows)
         /\ kept \subseteq ExportRows
         /\ IsFiniteSet(E!File) /\ Cardinality(E!File) \in Nat
         /\ IsFiniteSet(Skipped) /\ Cardinality(Skipped) \in Nat
         /\ IsFiniteSet(Again) /\ Cardinality(Again) \in Nat
<1>1. IsFiniteSet(ExportRows)
  BY ReadsConstants, ExportsCount DEF E!BatchAssumption
<1>2. list \in Seq(ExportRows) /\ export.file \in Seq(ExportRows)
  BY DEF E!TypeOK, E!Export
<1>3. kept \subseteq ExportRows /\ E!File \subseteq ExportRows
  BY <1>2 DEF E!TypeOK, E!ToSet, E!File
<1>4. IsFiniteSet(E!File) /\ IsFiniteSet(Skipped) /\ IsFiniteSet(Again)
  BY <1>1, <1>3, FS_Subset DEF Skipped, Again
<1> QED BY <1>1, <1>2, <1>3, <1>4, FS_CardinalityType

\* The changes of the list and the reads of the export keep the invariant.
LEMMA EnterKeeps ==
  ASSUME ExportIInv, NEW r \in ExportRows, E!Enter(r)
  PROVE  ExportIInv'
<1>0. /\ export.step = "reading" /\ r \notin E!ToSet(list)
      /\ entered' = entered + 1 /\ UNCHANGED <<export, event, left, kept>>
  BY DEF E!Enter, E!Changes, E!Reading
<1>1. PICK i \in 1 .. Len(list) + 1 : list' = E!InsertAt(list, i, r)
  BY DEF E!Enter
<1>2. E!TypeOK /\ list \in Seq(ExportRows) /\ entered \in Nat /\ left \in Nat
  BY ExportFinite DEF ExportIInv
<1>3. /\ list' \in Seq(ExportRows) /\ Len(list') = Len(list) + 1
      /\ \A j \in 1 .. Len(list) + 1 :
           list'[j] = IF j < i THEN list[j] ELSE IF j = i THEN r ELSE list[j - 1]
  <2>1. list' \in Seq(ExportRows) /\ IsInsertion(list, i, r, list')
    BY <1>1, <1>2, InsertedAs
  <2> QED BY <2>1 DEF IsInsertion
<1>4. E!IsInjective(list) /\ kept \subseteq E!ToSet(list)
  BY <1>2 DEF E!TypeOK
<1>5. DOMAIN list = 1 .. Len(list) /\ DOMAIN list' = 1 .. Len(list) + 1
  BY <1>2, <1>3
<1>6. E!IsInjective(list')
  <2> SUFFICES ASSUME NEW a \in 1 .. Len(list) + 1, NEW b \in 1 .. Len(list) + 1, list'[a] = list'[b]
               PROVE  a = b
    BY <1>5 DEF E!IsInjective
  <2>1. \A j \in 1 .. Len(list) : list[j] # r
    BY <1>0, <1>5 DEF E!ToSet
  <2>2. \A j, k \in 1 .. Len(list) : list[j] = list[k] => j = k
    BY <1>4, <1>5 DEF E!IsInjective
  <2> DEFINE old(j) == IF j < i THEN j ELSE j - 1
  <2>3. \A j \in 1 .. Len(list) + 1 : j # i => old(j) \in 1 .. Len(list) /\ list'[j] = list[old(j)]
    BY <1>3
  <2>4. list'[i] = r
    BY <1>3
  <2>5. a # i /\ b # i => old(a) = old(b)
    BY <2>2, <2>3
  <2>6. a = i <=> b = i
    BY <2>1, <2>3, <2>4
  <2> QED BY <2>5, <2>6
<1>7. E!ToSet(list) \subseteq E!ToSet(list')
  <2> SUFFICES ASSUME NEW j \in 1 .. Len(list) PROVE list[j] \in E!ToSet(list')
    BY <1>5 DEF E!ToSet
  <2>1. list[j] = list'[j] \/ list[j] = list'[j + 1]
    BY <1>3
  <2> QED BY <1>5, <2>1 DEF E!ToSet
<1>8. E!TypeOK'
  BY <1>0, <1>2, <1>3, <1>4, <1>6, <1>7 DEF E!TypeOK
<1> DEFINE n == Len(export.file)
<1>9. n \in Nat
  BY ExportFinite, <1>2
<1>10. /\ Passed(list', n) \subseteq Passed(list, n) \cup {r}
       /\ \E y : Ahead(list', n) \subseteq Ahead(list, n) \cup {y}
  <2>1. IsInsertion(list, i, r, list')
    BY <1>1, <1>2, InsertedAs
  <2> HIDE DEF n
  <2>2. list \in Seq(ExportRows) /\ n \in Nat
    BY <1>2, <1>9
  <2>3. Passed(list', n) \subseteq Passed(list, n) \cup {r}
    BY <2>1, <2>2, InsertShifts
  <2>4. \E y : Ahead(list', n) \subseteq Ahead(list, n) \cup {y}
    BY <2>1, <2>2, InsertShifts
  <2> QED BY <2>3, <2>4
<1>11. r \notin kept
  BY <1>0, <1>4
<1>12. E!File' = E!File /\ n' = n /\ kept' = kept
  BY <1>0 DEF E!File, E!ToSet
<1>13. Skipped' \subseteq Skipped
  BY <1>10, <1>11, <1>12 DEF Skipped
<1>14. PICK y : Again' \subseteq Again \cup {y}
  BY <1>10, <1>12 DEF Again
<1>15. Cardinality(Skipped') <= left
  BY <1>2, <1>13, ExportFinite, FS_Subset, FS_CardinalityType DEF ExportIInv
<1>16. Cardinality(Again') <= Cardinality(Again) + 1 /\ Cardinality(Again') \in Nat
  BY <1>2, <1>14, ExportFinite, OneMore
<1>17. n - Cardinality(E!File') + Cardinality(Again') <= entered'
  <2>1. n - Cardinality(E!File) + Cardinality(Again) <= entered
    BY <1>2 DEF ExportIInv
  <2>2. Cardinality(E!File) \in Nat /\ Cardinality(Again) \in Nat
    BY <1>2, ExportFinite
  <2>3. Cardinality(E!File') = Cardinality(E!File)
    BY <1>12
  <2>4. n \in Nat /\ entered \in Nat /\ entered' = entered + 1
    BY <1>0, <1>2, <1>9
  <2> HIDE DEF n
  <2> QED BY <1>16, <2>1, <2>2, <2>3, <2>4
<1>18. entered' + left' # 0
  BY <1>0, <1>2
<1> QED BY <1>0, <1>2, <1>8, <1>12, <1>15, <1>17, <1>18 DEF ExportIInv

LEMMA LeaveKeeps ==
  ASSUME ExportIInv, NEW r \in ExportRows, E!Leave(r)
  PROVE  ExportIInv'
<1>0. /\ export.step = "reading"
      /\ left' = left + 1 /\ kept' = kept \ {r} /\ UNCHANGED <<export, event, entered>>
  BY DEF E!Leave, E!Changes, E!Reading
<1>1. PICK k \in DOMAIN list : list[k] = r /\ list' = E!RemoveAt(list, k)
  BY DEF E!Leave
<1>2. E!TypeOK /\ list \in Seq(ExportRows) /\ entered \in Nat /\ left \in Nat
  BY ExportFinite DEF ExportIInv
<1>3. /\ list' \in Seq(ExportRows) /\ Len(list') = Len(list) - 1
      /\ DOMAIN list' = 1 .. Len(list) - 1 /\ DOMAIN list = 1 .. Len(list) /\ k \in 1 .. Len(list)
      /\ \A j \in 1 .. Len(list) - 1 : list'[j] = IF j < k THEN list[j] ELSE list[j + 1]
  <2>1. k \in 1 .. Len(list)
    BY <1>2
  <2>2. list' \in Seq(ExportRows) /\ IsRemoval(list, k, list')
    BY <1>1, <1>2, <2>1, RemovedAs
  <2> QED BY <2>1, <2>2 DEF IsRemoval
<1>4. \A a, b \in 1 .. Len(list) : list[a] = list[b] => a = b
  BY <1>2, <1>3 DEF E!TypeOK, E!IsInjective
<1>5. E!IsInjective(list')
  <2> SUFFICES ASSUME NEW a \in 1 .. Len(list) - 1, NEW b \in 1 .. Len(list) - 1, list'[a] = list'[b]
               PROVE  a = b
    BY <1>3 DEF E!IsInjective
  <2> DEFINE old(j) == IF j < k THEN j ELSE j + 1
  <2>1. \A j \in 1 .. Len(list) - 1 : old(j) \in 1 .. Len(list) /\ list'[j] = list[old(j)]
    BY <1>3
  <2>2. old(a) = old(b)
    BY <1>4, <2>1
  <2> QED BY <2>2
<1>6. kept' \subseteq E!ToSet(list')
  <2> SUFFICES ASSUME NEW x \in kept, x # r PROVE x \in E!ToSet(list')
    BY <1>0
  <2>1. PICK j \in 1 .. Len(list) : x = list[j]
    BY <1>2, <1>3 DEF E!TypeOK, E!ToSet
  <2>2. CASE j < k
    <3>1. j \in 1 .. Len(list) - 1 /\ list'[j] = x
      BY <1>3, <2>1, <2>2
    <3> QED BY <1>3, <3>1 DEF E!ToSet
  <2>3. CASE j > k
    <3>1. j - 1 \in 1 .. Len(list) - 1 /\ list'[j - 1] = list[(j - 1) + 1] /\ (j - 1) + 1 = j
      BY <1>3, <2>3
    <3> QED BY <1>3, <2>1, <3>1 DEF E!ToSet
  <2>4. j # k
    BY <1>1, <2>1
  <2> QED BY <1>3, <2>2, <2>3, <2>4
<1>7. E!TypeOK'
  BY <1>0, <1>2, <1>3, <1>5, <1>6 DEF E!TypeOK
<1> DEFINE n == Len(export.file)
<1>8. n \in Nat
  BY ExportFinite, <1>2
<1>9. /\ \E x : Passed(list', n) \subseteq Passed(list, n) \cup {x}
      /\ Ahead(list', n) \subseteq Ahead(list, n)
  <2>1. IsRemoval(list, k, list')
    BY <1>1, <1>2, <1>3, RemovedAs
  <2> HIDE DEF n
  <2>2. list \in Seq(ExportRows) /\ n \in Nat
    BY <1>2, <1>8
  <2> QED BY <1>3, <2>1, <2>2, RemoveShifts
<1>10. E!File' = E!File /\ n' = n
  BY <1>0 DEF E!File, E!ToSet
<1>11. PICK x : Skipped' \subseteq Skipped \cup {x}
  BY <1>0, <1>9, <1>10 DEF Skipped
<1>12. Again' \subseteq Again
  BY <1>9, <1>10 DEF Again
<1>13. Cardinality(Skipped') <= left'
  <2>1. Cardinality(Skipped') <= Cardinality(Skipped) + 1 /\ Cardinality(Skipped') \in Nat
    BY <1>2, <1>11, ExportFinite, OneMore
  <2>2. Cardinality(Skipped) <= left /\ Cardinality(Skipped) \in Nat
    BY <1>2, ExportFinite DEF ExportIInv
  <2> QED BY <1>0, <1>2, <2>1, <2>2
<1>14. Cardinality(Again') <= Cardinality(Again) /\ Cardinality(Again') \in Nat
  BY <1>2, <1>12, ExportFinite, FS_Subset, FS_CardinalityType
<1>15. n - Cardinality(E!File') + Cardinality(Again') <= entered'
  <2>1. n - Cardinality(E!File) + Cardinality(Again) <= entered
    BY <1>2 DEF ExportIInv
  <2>2. Cardinality(E!File) \in Nat /\ Cardinality(Again) \in Nat
    BY <1>2, ExportFinite
  <2>3. Cardinality(E!File') = Cardinality(E!File)
    BY <1>10
  <2>4. n \in Nat /\ entered \in Nat /\ entered' = entered
    BY <1>0, <1>2, <1>8
  <2> HIDE DEF n
  <2> QED BY <1>14, <2>1, <2>2, <2>3, <2>4
<1>16. entered' + left' # 0 /\ left' \in Nat
  BY <1>0, <1>2
<1> QED BY <1>0, <1>2, <1>7, <1>10, <1>13, <1>15, <1>16 DEF ExportIInv

LEMMA MoveKeeps ==
  ASSUME ExportIInv, NEW r \in ExportRows, E!MovePlace(r)
  PROVE  ExportIInv'
<1>0. /\ export.step = "reading"
      /\ entered' = entered + 1 /\ left' = left + 1 /\ UNCHANGED <<export, event, kept>>
  BY DEF E!MovePlace, E!Changes, E!Reading
<1>1. PICK k \in DOMAIN list, i \in DOMAIN list :
        list[k] = r /\ i # k /\ list' = E!InsertAt(E!RemoveAt(list, k), i, list[k])
  BY DEF E!MovePlace
<1>2. E!TypeOK /\ list \in Seq(ExportRows) /\ entered \in Nat /\ left \in Nat
  BY ExportFinite DEF ExportIInv
<1> DEFINE n == Len(export.file)
<1>3. n \in Nat /\ k \in 1 .. Len(list) /\ i \in 1 .. Len(list) /\ DOMAIN list = 1 .. Len(list)
  BY ExportFinite, <1>2
<1>4. /\ \E x : Passed(list', n) \subseteq Passed(list, n) \cup {x}
      /\ \E y : Ahead(list', n) \subseteq Ahead(list, n) \cup {y}
      /\ list' \in Seq(ExportRows) /\ Len(list') = Len(list)
      /\ \A j \in 1 .. Len(list) :
           list'[j] = IF j = i THEN list[k]
                      ELSE IF (j < i /\ j < k) \/ (j > i /\ j > k) THEN list[j]
                      ELSE IF k < i THEN list[j + 1] ELSE list[j - 1]
  <2>1. list' \in Seq(ExportRows) /\ IsMove(list, k, i, list')
    BY <1>1, <1>2, <1>3, MovedAs
  <2>2. CrossesOnce(list, list', n)
    BY <1>1, <1>2, <1>3, <2>1, MoveShifts
  <2> QED BY <2>1, <2>2 DEF IsMove, CrossesOnce
<1>5. \A a, b \in 1 .. Len(list) : list[a] = list[b] => a = b
  BY <1>2, <1>3 DEF E!TypeOK, E!IsInjective
<1> DEFINE old(j) == IF j = i THEN k
                     ELSE IF (j < i /\ j < k) \/ (j > i /\ j > k) THEN j
                     ELSE IF k < i THEN j + 1 ELSE j - 1
           new(j) == IF j = k THEN i
                     ELSE IF (j < i /\ j < k) \/ (j > i /\ j > k) THEN j
                     ELSE IF k < i THEN j - 1 ELSE j + 1
<1>6. \A j \in 1 .. Len(list) : old(j) \in 1 .. Len(list) /\ list'[j] = list[old(j)]
  <2> SUFFICES ASSUME NEW j \in 1 .. Len(list)
               PROVE  old(j) \in 1 .. Len(list) /\ list'[j] = list[old(j)]
    OBVIOUS
  <2>1. Len(list) \in Nat /\ i # k
    BY <1>1, <1>2
  <2>2. CASE j = i
    BY <1>3, <1>4, <2>2
  <2>3. CASE j # i /\ ((j < i /\ j < k) \/ (j > i /\ j > k))
    BY <1>4, <2>3
  <2>4. CASE j # i /\ ~((j < i /\ j < k) \/ (j > i /\ j > k)) /\ k < i
    <3>1. old(j) = j + 1 /\ j + 1 \in 1 .. Len(list)
      BY <1>3, <2>1, <2>4
    <3> QED BY <1>4, <2>4, <3>1
  <2>5. CASE j # i /\ ~((j < i /\ j < k) \/ (j > i /\ j > k)) /\ ~(k < i)
    <3>1. old(j) = j - 1 /\ j - 1 \in 1 .. Len(list)
      BY <1>3, <2>1, <2>5
    <3> QED BY <1>4, <2>5, <3>1
  <2> QED BY <2>2, <2>3, <2>4, <2>5
<1>7. \A j \in 1 .. Len(list) : new(j) \in 1 .. Len(list) /\ old(new(j)) = j
  <2> SUFFICES ASSUME NEW j \in 1 .. Len(list) PROVE new(j) \in 1 .. Len(list) /\ old(new(j)) = j
    OBVIOUS
  <2>1. j \in Int /\ i \in Int /\ k \in Int /\ Len(list) \in Int /\ i # k
    BY <1>1, <1>2, <1>3
  <2>2. new(j) \in 1 .. Len(list)
    BY <1>3, <2>1
  <2>3. old(new(j)) = j
    BY <2>1
  <2> QED BY <2>2, <2>3
<1>8. \A a, b \in 1 .. Len(list) : old(a) = old(b) => a = b
  <2> SUFFICES ASSUME NEW a \in 1 .. Len(list), NEW b \in 1 .. Len(list), old(a) = old(b) PROVE a = b
    OBVIOUS
  <2>1. a \in Int /\ b \in Int /\ i \in Int /\ k \in Int /\ i # k
    BY <1>1, <1>3
  <2>2. a = i => b = i
    BY <2>1
  <2>3. b = i => a = i
    BY <2>1
  <2>4. CASE k < i /\ a # i /\ b # i
    BY <2>1, <2>4
  <2>5. CASE ~(k < i) /\ a # i /\ b # i
    BY <2>1, <2>5
  <2> QED BY <2>2, <2>3, <2>4, <2>5
<1>9. DOMAIN list' = 1 .. Len(list)
  BY <1>4
<1> HIDE DEF old, new
<1>10. E!IsInjective(list')
  <2> SUFFICES ASSUME NEW a \in 1 .. Len(list), NEW b \in 1 .. Len(list), list'[a] = list'[b]
               PROVE  a = b
    BY <1>9 DEF E!IsInjective
  <2>1. list[old(a)] = list[old(b)] /\ old(a) \in 1 .. Len(list) /\ old(b) \in 1 .. Len(list)
    BY <1>6
  <2>2. old(a) = old(b)
    BY <1>5, <2>1
  <2> QED BY <1>8, <2>2
<1>11. E!ToSet(list) \subseteq E!ToSet(list')
  <2> SUFFICES ASSUME NEW j \in 1 .. Len(list) PROVE list[j] \in E!ToSet(list')
    BY <1>3 DEF E!ToSet
  <2>1. list[j] = list'[new(j)] /\ new(j) \in 1 .. Len(list)
    BY <1>6, <1>7
  <2> QED BY <1>9, <2>1 DEF E!ToSet
<1>12. E!TypeOK'
  BY <1>0, <1>2, <1>4, <1>10, <1>11 DEF E!TypeOK
<1>13. E!File' = E!File /\ n' = n
  BY <1>0 DEF E!File, E!ToSet
<1>14. PICK x : Skipped' \subseteq Skipped \cup {x}
  BY <1>0, <1>4, <1>13 DEF Skipped
<1>15. PICK y : Again' \subseteq Again \cup {y}
  BY <1>4, <1>13 DEF Again
<1>16. Cardinality(Skipped') <= left'
  <2>1. Cardinality(Skipped') <= Cardinality(Skipped) + 1 /\ Cardinality(Skipped') \in Nat
    BY <1>2, <1>14, ExportFinite, OneMore
  <2>2. Cardinality(Skipped) <= left /\ Cardinality(Skipped) \in Nat
    BY <1>2, ExportFinite DEF ExportIInv
  <2> QED BY <1>0, <1>2, <2>1, <2>2
<1>17. Cardinality(Again') <= Cardinality(Again) + 1 /\ Cardinality(Again') \in Nat
  BY <1>2, <1>15, ExportFinite, OneMore
<1>18. n - Cardinality(E!File') + Cardinality(Again') <= entered'
  <2>1. n - Cardinality(E!File) + Cardinality(Again) <= entered
    BY <1>2 DEF ExportIInv
  <2>2. Cardinality(E!File) \in Nat /\ Cardinality(Again) \in Nat
    BY <1>2, ExportFinite
  <2>3. Cardinality(E!File') = Cardinality(E!File)
    BY <1>13
  <2>4. n \in Nat /\ entered \in Nat /\ entered' = entered + 1
    BY <1>0, <1>2, <1>3
  <2> HIDE DEF n
  <2> QED BY <1>17, <2>1, <2>2, <2>3, <2>4
<1>19. entered' + left' # 0 /\ left' \in Nat /\ entered' \in Nat
  BY <1>0, <1>2
<1> QED BY <1>0, <1>2, <1>12, <1>13, <1>16, <1>18, <1>19 DEF ExportIInv

\* What a page holds, and how far it brings the file.
IsPage(s, n, page) ==
  /\ page \in Seq(ExportRows) /\ DOMAIN page = 1 .. Len(page)
  /\ Len(page) <= BatchSize /\ (Len(page) < BatchSize => n + Len(page) >= Len(s))
  /\ Len(page) # 0 => n + Len(page) <= Len(s)
  /\ \A j \in 1 .. Len(page) : page[j] = s[n + j]

\* A page is what follows the rows read.
LEMMA PageRead ==
  ASSUME NEW s \in Seq(ExportRows), s = list, NEW n \in Nat
  PROVE  IsPage(s, n, E!Page(n))
<1>0. BatchSize \in Nat \ {0}
  BY ReadsConstants DEF E!BatchAssumption
<1> DEFINE m == E!Min({n + BatchSize, Len(s)})
<1>1. m = IF n + BatchSize <= Len(s) THEN n + BatchSize ELSE Len(s)
  <2> DEFINE S == {n + BatchSize, Len(s)}
             least == IF n + BatchSize <= Len(s) THEN n + BatchSize ELSE Len(s)
  <2>1. least \in S /\ \A y \in S : least <= y
    BY <1>0
  <2>2. \A x \in S : (\A y \in S : x <= y) => x = least
    BY <1>0
  <2>3. m = CHOOSE x \in S : \A y \in S : x <= y
    BY DEF E!Min
  <2> HIDE DEF m, S, least
  <2> QED BY <2>1, <2>2, <2>3 DEF least
<1>2. (n + 1) + BatchSize - 1 = n + BatchSize
  BY <1>0
<1>3. E!Page(n) = SubSeq(s, n + 1, m)
  BY <1>2 DEF E!Page, E!Slice
<1>4. m \in Nat /\ m <= Len(s) /\ m <= n + BatchSize /\ (m < n + BatchSize => m = Len(s))
  BY <1>0, <1>1
<1> HIDE DEF m
<1> DEFINE page == SubSeq(s, n + 1, m)
<1>5. CASE m <= n
  <2>1. page = <<>>
    BY <1>4, <1>5
  <2>2. Len(<<>>) = 0 /\ DOMAIN <<>> = 1 .. 0 /\ <<>> \in Seq(ExportRows)
    OBVIOUS
  <2>3. n + 0 >= Len(s)
    BY <1>0, <1>4, <1>5
  <2> DEFINE v == E!Page(n)
  <2>4. v = <<>>
    BY <1>3, <2>1
  <2>5. v \in Seq(ExportRows) /\ Len(v) = 0 /\ DOMAIN v = 1 .. Len(v)
    BY <2>2, <2>4
  <2> HIDE DEF v
  <2>6. IsPage(s, n, v)
    BY <1>0, <2>3, <2>5 DEF IsPage
  <2> QED BY <2>6 DEF v
<1>6. CASE m > n
  <2>1. /\ page \in Seq(ExportRows) /\ Len(page) = m - n
        /\ \A j \in 1 .. m - n : page[j] = s[(n + 1) + j - 1]
    BY <1>4, <1>6
  <2>2. \A j \in 1 .. m - n : (n + 1) + j - 1 = n + j
    BY <1>4
  <2> HIDE DEF page
  <2>3. /\ Len(page) <= BatchSize /\ (Len(page) < BatchSize => n + Len(page) >= Len(s))
        /\ n + Len(page) <= Len(s) /\ DOMAIN page = 1 .. Len(page)
    BY <1>0, <1>4, <1>6, <2>1
  <2>4. \A j \in 1 .. Len(page) : page[j] = s[n + j]
    BY <2>1, <2>2
  <2> QED BY <1>3, <2>1, <2>3, <2>4 DEF IsPage, page
<1> QED BY <1>4, <1>5, <1>6

\* Reading a page keeps the invariant,
LEMMA ReadPageKeeps ==
  ASSUME ExportIInv, E!readPage
  PROVE  ExportIInv'
<1> DEFINE n == Len(export.file)
           page == E!Page(n)
           p == Len(page)
           file == export.file \o page
           rows == E!ToSet(page)
           ends == E!Ends(file, page)
<1>0. /\ export.step = "reading" /\ UNCHANGED <<list, event, entered, left, kept>>
      /\ export' = [export EXCEPT !.file = file, !.answered = TRUE,
                                  !.step = IF ends THEN "ended" ELSE "reading"]
  BY DEF E!readPage, E!Reading
<1>1. /\ E!TypeOK /\ entered \in Nat /\ left \in Nat
      /\ list \in Seq(ExportRows) /\ export.file \in Seq(ExportRows) /\ n \in Nat
      /\ BatchSize \in Nat \ {0} /\ MaxRows \in Nat
  BY ExportFinite, ReadsConstants DEF ExportIInv, E!BatchAssumption
<1>2. IsPage(list, n, page)
  BY <1>1, PageRead
<1>3. event = Null
  BY <1>0 DEF ExportIInv
<1> HIDE DEF page
<1>4. /\ file \in Seq(ExportRows) /\ Len(file) = n + p /\ p \in Nat
      /\ \A j \in 1 .. n : file[j] = export.file[j]
      /\ \A j \in 1 .. p : file[n + j] = page[j]
  BY <1>1, <1>2, Concatenated DEF IsPage
<1> HIDE DEF file
<1>5. /\ export'.file = file /\ export'.step = (IF ends THEN "ended" ELSE "reading")
      /\ export' \in E!Export
  BY <1>0, <1>1, <1>4 DEF E!TypeOK, E!Export, E!Steps
<1>6. ends => p < BatchSize \/ Len(file) >= MaxRows
  BY DEF E!Ends
<1> HIDE DEF ends
<1>7. E!TypeOK'
  BY <1>0, <1>1, <1>5 DEF E!TypeOK
<1>8. E!File' = E!File \cup rows
  <2>1. E!File' = {file[j] : j \in 1 .. n + p} /\ E!File = {export.file[j] : j \in 1 .. n}
    BY <1>1, <1>4, <1>5 DEF E!File, E!ToSet
  <2>2. rows = {page[j] : j \in 1 .. p}
    BY <1>2 DEF E!ToSet, IsPage
  <2>3. ASSUME NEW j \in 1 .. n + p PROVE file[j] \in E!File \cup rows
    <3>1. CASE j <= n
      <4>1. j \in 1 .. n
        BY <1>1, <1>4, <3>1
      <4>2. file[j] = export.file[j]
        BY <1>4, <4>1
      <4>3. export.file[j] \in E!File
        BY <2>1, <4>1
      <4> QED BY <4>2, <4>3
    <3>2. CASE j > n
      <4>1. j - n \in 1 .. p /\ n + (j - n) = j
        BY <1>1, <1>4, <3>2
      <4>2. file[n + (j - n)] = page[j - n]
        BY <1>4, <4>1
      <4> QED BY <2>2, <4>1, <4>2
    <3> QED BY <1>1, <1>4, <3>1, <3>2
  <2>4. \A j \in 1 .. n : j \in 1 .. n + p
    BY <1>1, <1>4
  <2>5. E!File \subseteq E!File'
    BY <1>4, <2>1, <2>4
  <2>6. \A j \in 1 .. p : n + j \in 1 .. n + p
    BY <1>1, <1>4
  <2>7. rows \subseteq E!File'
    BY <1>4, <2>1, <2>2, <2>6
  <2> QED BY <2>1, <2>3, <2>5, <2>7
<1>9. \A j \in 1 .. p : page[j] = list[n + j] /\ n + j \in 1 .. Len(list)
  BY <1>1, <1>2, <1>4 DEF IsPage
<1>10. DOMAIN list = 1 .. Len(list) /\ \A a, b \in 1 .. Len(list) : list[a] = list[b] => a = b
  BY <1>1 DEF E!TypeOK, E!IsInjective
<1>11. rows = {page[j] : j \in 1 .. p}
  BY <1>2 DEF E!ToSet, IsPage
<1>12. rows \subseteq Ahead(list, n) /\ rows \cap Ahead(list, n + p) = {}
  <2>1. ASSUME NEW j \in 1 .. p PROVE page[j] \in Ahead(list, n)
    <3>1. page[j] = list[n + j] /\ n + j \in DOMAIN list
      BY <1>9, <1>10
    <3>2. n + j > n
      BY <1>1, <1>4
    <3> QED BY <3>1, <3>2 DEF Ahead
  <2>2. ASSUME NEW j \in 1 .. p, NEW k \in 1 .. Len(list), k > n + p PROVE page[j] # list[k]
    <3>1. n + j # k
      BY <1>1, <1>4, <2>2
    <3> QED BY <1>9, <1>10, <3>1
  <2> QED BY <1>10, <1>11, <2>1, <2>2 DEF Ahead
<1>13. Passed(list, n + p) \subseteq Passed(list, n) \cup rows
  <2> SUFFICES ASSUME NEW k \in 1 .. Len(list), k <= n + p PROVE list[k] \in Passed(list, n) \cup rows
    BY <1>10 DEF Passed
  <2>1. CASE k <= n
    BY <1>10, <2>1 DEF Passed
  <2>2. CASE k > n
    <3>1. k - n \in 1 .. p /\ n + (k - n) = k
      BY <1>1, <1>4, <2>2
    <3> QED BY <1>9, <1>11, <3>1
  <2> QED BY <1>1, <2>1, <2>2
<1>14. Len(export'.file) = n + p
  BY <1>4, <1>5
<1>15. Skipped' \subseteq Skipped
  BY <1>0, <1>8, <1>13, <1>14 DEF Skipped
<1>16. Cardinality(Skipped') <= left
  BY <1>1, <1>15, ExportFinite, FS_Subset, FS_CardinalityType DEF ExportIInv
<1>17. IsFiniteSet(rows) /\ Cardinality(rows) = p
  <2> DEFINE f == [j \in 1 .. p |-> page[j]]
  <2>1. \A a, b \in 1 .. p : page[a] = page[b] => a = b
    BY <1>1, <1>4, <1>9, <1>10
  <2>2. f \in Bijection(1 .. p, rows)
    BY <1>11, <2>1 DEF Bijection, Injection, Surjection, IsInjective
  <2>3. ExistsBijection(1 .. p, rows)
    BY <2>2 DEF ExistsBijection
  <2> QED BY <1>4, <2>3, FS_CountingElements, FS_NatBijection
<1>18. Ahead(list, n + p) \subseteq Ahead(list, n)
  BY <1>1, <1>4, <1>10 DEF Ahead
<1> DEFINE both == E!File \cap rows
<1>19. Again' \cup both \subseteq Again /\ Again' \cap both = {}
  BY <1>0, <1>8, <1>12, <1>14, <1>18 DEF Again
<1> HIDE DEF rows
<1>20. /\ IsFiniteSet(E!File \cup rows) /\ IsFiniteSet(both)
       /\ Cardinality(E!File \cup rows) = Cardinality(E!File) + p - Cardinality(both)
       /\ Cardinality(both) \in Nat
  BY <1>1, <1>17, ExportFinite, FS_Union, FS_Intersection, FS_CardinalityType
<1>21. Cardinality(Again') + Cardinality(both) <= Cardinality(Again) /\ Cardinality(Again') \in Nat
  <2>1. IsFiniteSet(Again') /\ IsFiniteSet(Again) /\ IsFiniteSet(both) /\ IsFiniteSet(Again' \cup both)
    BY <1>1, <1>19, ExportFinite, FS_Subset
  <2>2. Cardinality(Again' \cup both) <= Cardinality(Again)
    BY <1>19, <2>1, FS_Subset
  <2>3. Cardinality(Again' \cap both) = 0
    BY <1>19, FS_EmptySet
  <2>4. /\ Cardinality(Again') \in Nat /\ Cardinality(both) \in Nat
        /\ Cardinality(Again' \cup both)
             = Cardinality(Again') + Cardinality(both) - Cardinality(Again' \cap both)
    BY <2>1, FS_Union, FS_CardinalityType
  <2> QED BY <2>2, <2>3, <2>4
<1> HIDE DEF both
<1>22. Len(export'.file) - Cardinality(E!File') + Cardinality(Again') <= entered'
  <2>1. n - Cardinality(E!File) + Cardinality(Again) <= entered
    BY DEF ExportIInv
  <2>2. Cardinality(E!File) \in Nat /\ Cardinality(Again) \in Nat
    BY <1>1, ExportFinite
  <2>3. Cardinality(E!File') = Cardinality(E!File) + p - Cardinality(both)
    BY <1>8, <1>20
  <2>4. n \in Nat /\ p \in Nat /\ entered \in Nat /\ entered' = entered
    BY <1>0, <1>1, <1>4
  <2> DEFINE had == Cardinality(E!File)
             met == Cardinality(Again)
             meets == Cardinality(Again')
             twice == Cardinality(both)
  <2>5. /\ had \in Nat /\ met \in Nat /\ meets \in Nat /\ twice \in Nat
        /\ meets + twice <= met /\ n - had + met <= entered
    BY <1>20, <1>21, <2>1, <2>2
  <2>6. Len(export'.file) - Cardinality(E!File') = (n + p) - (had + p - twice)
    BY <1>14, <2>3
  <2> HIDE DEF p, n, had, met, meets, twice
  <2>7. (n + p) - (had + p - twice) + meets <= entered
    BY <2>4, <2>5
  <2> QED BY <2>4, <2>6, <2>7 DEF meets
<1>23. export'.step = "ended" /\ Len(export'.file) < MaxRows => Len(export'.file) >= Len(list)
  <2> SUFFICES ASSUME ends, n + p < MaxRows PROVE n + p >= Len(list)
    BY <1>5, <1>14
  <2>1. p < BatchSize
    BY <1>1, <1>4, <1>6
  <2> QED BY <1>2, <2>1 DEF IsPage
<1>24. ASSUME entered + left = 0
       PROVE  n + p <= Len(list) /\ \A j \in 1 .. n + p : file[j] = list[j]
  <2>1. n <= Len(list) /\ \A j \in 1 .. n : export.file[j] = list[j]
    BY <1>24 DEF ExportIInv
  <2>2. n + p <= Len(list)
    BY <1>1, <1>2, <1>4, <2>1 DEF IsPage
  <2>3. ASSUME NEW j \in 1 .. n + p PROVE file[j] = list[j]
    <3>1. CASE j <= n
      BY <1>1, <1>4, <2>1, <3>1
    <3>2. CASE j > n
      <4>1. j - n \in 1 .. p /\ n + (j - n) = j
        BY <1>1, <1>4, <3>2
      <4> QED BY <1>4, <1>9, <4>1
    <3> QED BY <1>1, <1>4, <3>1, <3>2
  <2> QED BY <2>2, <2>3
<1> QED BY <1>0, <1>1, <1>3, <1>5, <1>7, <1>14, <1>16, <1>22, <1>23, <1>24 DEF ExportIInv

\* The steps that do not touch the file.
LEMMA FileStands ==
  ASSUME ExportIInv, export'.file = export.file, export' \in E!Export,
         UNCHANGED <<list, entered, left, kept>>,
         export'.step = "ended" => export.step = "ended",
         event' \in Nat \cup {Null},
         event' # Null => export'.step = "ended" /\ event' = Len(export'.file)
  PROVE  ExportIInv'
<1>1. E!TypeOK'
  BY DEF ExportIInv, E!TypeOK
<1>2. Skipped' = Skipped /\ Again' = Again /\ E!File' = E!File
  BY DEF Skipped, Again, E!File, E!ToSet, Passed, Ahead
<1> QED BY <1>1, <1>2 DEF ExportIInv

\* and so does every step of an export.
LEMMA ExportStep == ExportIInv /\ (E!Next \/ UNCHANGED exportVars) => ExportIInv'
<1> SUFFICES ASSUME ExportIInv, E!Next \/ UNCHANGED exportVars PROVE ExportIInv'
  OBVIOUS
<1>0. E!TypeOK /\ export \in E!Export /\ event \in Nat \cup {Null}
  BY DEF ExportIInv, E!TypeOK
<1>1. ASSUME NEW r \in ExportRows, E!Enter(r) PROVE ExportIInv'
  BY <1>1, EnterKeeps
<1>2. ASSUME NEW r \in ExportRows, E!Leave(r) PROVE ExportIInv'
  BY <1>2, LeaveKeeps
<1>3. ASSUME NEW r \in ExportRows, E!MovePlace(r) PROVE ExportIInv'
  BY <1>3, MoveKeeps
<1>4. CASE E!readPage
  BY <1>4, ReadPageKeeps
<1>5. CASE E!readFails
  <2>1. export'.file = export.file /\ export' \in E!Export /\ export'.step # "ended"
    BY <1>0, <1>5 DEF E!readFails, E!Export, E!Steps
  <2>2. UNCHANGED <<list, event, entered, left, kept>> /\ export.step = "reading"
    BY <1>5 DEF E!readFails, E!Reading
  <2>3. event = Null
    BY <2>2 DEF ExportIInv
  <2> QED BY <1>0, <2>1, <2>2, <2>3, FileStands
<1>6. CASE E!crash
  <2>1. export'.file = export.file /\ export' \in E!Export /\ export'.step # "ended"
    BY <1>0, <1>6 DEF E!crash, E!Export, E!Steps
  <2>2. UNCHANGED <<list, event, entered, left, kept>> /\ export.step = "reading"
    BY <1>6 DEF E!crash, E!Reading
  <2>3. event = Null
    BY <2>2 DEF ExportIInv
  <2> QED BY <1>0, <2>1, <2>2, <2>3, FileStands
<1>7. CASE E!recordExport
  <2>1. Len(export.file) \in Nat
    BY <1>0, ExportFinite
  <2> QED BY <1>0, <1>7, <2>1, FileStands DEF E!recordExport
<1>8. CASE UNCHANGED exportVars
  BY <1>0, <1>8, FileStands DEF exportVars, ExportIInv
<1> QED BY <1>1, <1>2, <1>3, <1>4, <1>5, <1>6, <1>7, <1>8 DEF E!Next

\* It holds before the first page,
LEMMA ExportStart == E!Init => ExportIInv
<1> SUFFICES ASSUME E!Init PROVE ExportIInv
  OBVIOUS
<1>1. PICK S \in SUBSET ExportRows : list = E!SetToSeq(S)
  BY DEF E!Init
<1>2. IsFiniteSet(S)
  BY <1>1, ReadsConstants, ExportsCount, FS_Subset DEF E!BatchAssumption
<1> DEFINE c == Cardinality(S)
<1>3. c \in Nat /\ ExistsBijection(1 .. c, S)
  BY <1>2, FS_CardinalityType
<1>4. E!Cardinality(S) = c
  BY ExportsCount
<1> HIDE DEF c
<1>5. \E f \in [1 .. c -> S] : E!IsInjective(f)
  BY <1>3 DEF ExistsBijection, Bijection, Injection, IsInjective, E!IsInjective
<1>6. list \in [1 .. c -> S] /\ E!IsInjective(list)
  BY <1>1, <1>4, <1>5 DEF E!SetToSeq
<1>7. list \in Seq(ExportRows)
  BY <1>1, <1>3, <1>6
<1>8. PICK kind \in E!Kinds :
        export = [kind |-> kind, step |-> "reading", answered |-> kind = "report", file |-> <<>>]
  BY DEF E!Init
<1>9. export \in E!Export
  BY <1>8 DEF E!Export, E!Steps
<1>10. event = Null /\ entered = 0 /\ left = 0 /\ kept = E!ToSet(list)
  BY DEF E!Init
<1>11. E!TypeOK
  BY <1>6, <1>7, <1>9, <1>10 DEF E!TypeOK
<1>12. export.file = <<>> /\ Len(export.file) = 0 /\ export.step = "reading"
  BY <1>8
<1>13. E!File = {}
  BY <1>12 DEF E!File, E!ToSet
<1>14. Skipped = {} /\ Again = {}
  <2>1. \A k \in DOMAIN list : ~(k <= 0)
    BY <1>7
  <2> QED BY <1>12, <1>13, <2>1 DEF Skipped, Again, Passed
<1>15. Cardinality({}) = 0
  BY FS_EmptySet
<1> QED BY <1>7, <1>10, <1>11, <1>12, <1>13, <1>14, <1>15 DEF ExportIInv

\* and gives the promise of an export.
LEMMA ExportKept == ASSUME ExportIInv PROVE E!TypeOK /\ E!ExportKeeps
<1>1. E!TypeOK /\ list \in Seq(ExportRows) /\ export.file \in Seq(ExportRows)
  BY ExportFinite DEF ExportIInv
<1> DEFINE n == Len(export.file)
<1>2. n \in Nat /\ Len(list) \in Nat /\ MaxRows \in Nat
  BY <1>1, ReadsConstants DEF E!BatchAssumption
<1>3. ASSUME export.step = "ended", n < MaxRows
      PROVE  E!Cardinality(E!Missing) <= left /\ E!Repeated <= entered
  <2>1. n >= Len(list)
    BY <1>3 DEF ExportIInv
  <2>2. kept \subseteq Passed(list, n)
    <3>1. \A k \in DOMAIN list : k <= n
      BY <1>1, <1>2, <2>1
    <3> QED BY <1>1, <3>1 DEF E!TypeOK, E!ToSet, Passed
  <2>3. E!Missing = Skipped
    BY <2>2 DEF E!Missing, Skipped
  <2>4. n - Cardinality(E!File) + Cardinality(Again) <= entered /\ entered \in Nat
    BY DEF ExportIInv
  <2>5. Cardinality(E!File) \in Nat /\ Cardinality(Again) \in Nat
    BY <1>1, ExportFinite
  <2>6. E!Repeated <= entered
    BY <1>2, <2>4, <2>5, ExportsCount DEF E!Repeated
  <2>7. Cardinality(Skipped) <= left
    BY DEF ExportIInv
  <2> QED BY <2>3, <2>6, <2>7, ExportsCount
<1>4. ASSUME export.step = "ended", entered + left = 0
      PROVE  export.file = list \/ (n >= MaxRows /\ E!IsPrefix(export.file, list))
  <2>1. n <= Len(list) /\ \A j \in 1 .. n : export.file[j] = list[j]
    BY <1>4 DEF ExportIInv
  <2>2. CASE n < MaxRows
    <3>1. n = Len(list)
      BY <1>2, <1>4, <2>1, <2>2 DEF ExportIInv
    <3> QED BY <1>1, <2>1, <3>1
  <2>3. CASE n >= MaxRows
    <3>1. /\ SubSeq(export.file, 1, n) \in Seq(ExportRows) /\ Len(SubSeq(export.file, 1, n)) = n
          /\ \A j \in 1 .. n : SubSeq(export.file, 1, n)[j] = export.file[j]
      BY <1>1
    <3>2. /\ SubSeq(list, 1, n) \in Seq(ExportRows) /\ Len(SubSeq(list, 1, n)) = n
          /\ \A j \in 1 .. n : SubSeq(list, 1, n)[j] = list[j]
      BY <1>1, <1>2, <2>1
    <3>3. SubSeq(export.file, 1, n) = SubSeq(list, 1, n)
      BY <2>1, <3>1, <3>2
    <3> QED BY <2>1, <2>3, <3>3 DEF E!IsPrefix
  <2> QED BY <1>2, <2>2, <2>3
<1> QED BY <1>1, <1>3, <1>4 DEF E!ExportKeeps, ExportIInv

\* An export is the list it was asked for but for as many rows as changed under it
\* (ListService.exportBatches over a list that others write).
THEOREM ExportsKeepTheList == ReadsSpec => [](part = "exports" => E!TypeOK /\ E!ExportKeeps)
<1>1. ReadsInit => ExportIInv
  BY ExportStart DEF ReadsInit
<1>2. ExportIInv /\ [ReadsNext]_allVars => ExportIInv'
  BY ExportStep DEF ReadsNext, allVars
<1>3. ExportIInv => (part = "exports" => E!TypeOK /\ E!ExportKeeps)
  BY ExportKept
<1> QED BY <1>1, <1>2, <1>3, PTL DEF ReadsSpec

\* The requests of the part that explores them.
THEOREM SeenOnlyAsAllowed == ReadsSpec => []SeenAsAllowed
<1>1. ReadsInit => AccessIInv
  BY InitAccessIInv DEF ReadsInit
<1>2. AccessIInv /\ [ReadsNext]_allVars => AccessIInv'
  <2>1. [ReadsNext]_allVars => [AccessNext]_accessVars
    BY DEF ReadsNext, allVars, accessVars
  <2> QED BY <2>1, NextAccessIInv, ReadsConstants
<1>3. AccessIInv => RequestsTyped
  BY DEF AccessIInv
<1> QED BY <1>1, <1>2, <1>3, IInvServes, AnswersWithinScope, PTL DEF ReadsSpec, SeenAsAllowed

-----------------------------------------------------------------------------
(* The sales funnel. *)

\* Induction up to a number, from the well-founded order of finite sets.
LEMMA Upward ==
  ASSUME NEW U \in Nat, NEW P, 0 \in P, \A k \in 0..U : k \in P /\ k < U => k + 1 \in P
  PROVE  0..U \subseteq P
<1> DEFINE Missed == (0..U) \ P
           Failing == {0..k : k \in Missed}
<1>1. SUFFICES ASSUME Missed # {} PROVE FALSE
  OBVIOUS
<1>2. IsFiniteSet(0..U)
  BY FS_Interval
<1>3. IsWellFoundedOn(StrictSubsetOrdering(0..U), FiniteSubsetsOf(0..U))
  BY <1>2, FS_StrictSubsetOrderingWellFounded
<1>4. Failing \subseteq FiniteSubsetsOf(0..U)
  <2>1. \A k \in Missed : 0..k \in SUBSET (0..U)
    OBVIOUS
  <2> QED BY <2>1, <1>2, FS_FiniteSubsetsOfFinite
<1>5. Failing # {}
  BY <1>1
<1>6. PICK A \in Failing : \A B \in Failing : <<B, A>> \notin StrictSubsetOrdering(0..U)
  <2> HIDE DEF Failing
  <2> QED BY <1>3, <1>4, <1>5, WFMin
<1>7. PICK k \in Missed : A = 0..k
  BY <1>6
<1>8. k \in 0..U /\ k # 0 /\ k \notin P
  BY <1>7
<1>9. k - 1 \in 0..U /\ k - 1 < U /\ (k - 1) + 1 = k
  BY <1>8
<1>10. k - 1 \notin P
  BY <1>8, <1>9
<1>11. 0..(k - 1) \in Failing
  BY <1>9, <1>10
<1>12. /\ 0..(k - 1) \in SUBSET (0..U) /\ 0..k \in SUBSET (0..U)
       /\ 0..(k - 1) \subseteq 0..k /\ 0..(k - 1) # 0..k
  <2>1. k \in 0..k /\ k \notin 0..(k - 1)
    BY <1>8
  <2> QED BY <1>8, <1>9, <2>1
<1> QED BY <1>6, <1>7, <1>11, <1>12 DEF StrictSubsetOrdering

-----------------------------------------------------------------------------
(* The names of the funnel. *)

\* The name after each event of a log g.
NextName(g, at, known, i, name) ==
  IF i \in known /\ i > at /\ g[i].from = name THEN g[i].to ELSE name
Traced(g, name, at, known, f) ==
  f = [i \in 0 .. Len(g) |-> IF i = 0 THEN name ELSE NextName(g, at, known, i, f[i - 1])]
NameNow(g, name, at, known) == (CHOOSE f : Traced(g, name, at, known, f))[Len(g)]

\* The walk of the renames is the module's.
LEMMA NameNowIs ==
  ASSUME NEW name, NEW at, NEW known
  PROVE  N!stageNameNow(name, at, known) = NameNow(log, name, at, known)
BY DEF N!stageNameNow, NameNow, Traced, NextName

\* There is a walk for every log.
LEMMA TraceExists ==
  ASSUME NEW g, Len(g) \in Nat, NEW name, NEW at, NEW known
  PROVE  \E f : Traced(g, name, at, known, f)
<1> DEFINE U == Len(g)
           Upto(n, f) == f = [i \in 0 .. n |-> IF i = 0 THEN name ELSE NextName(g, at, known, i, f[i - 1])]
           P == {n \in 0 .. U : \E f : Upto(n, f)}
<1>1. 0 \in P
  <2> DEFINE f == [i \in 0 .. 0 |-> name]
  <2>1. Upto(0, f)
    OBVIOUS
  <2> HIDE DEF Upto
  <2> QED BY <2>1
<1>2. ASSUME NEW n \in 0 .. U, n \in P, n < U PROVE n + 1 \in P
  <2>1. PICK f : Upto(n, f)
    BY <1>2
  <2> DEFINE h == [i \in 0 .. n + 1 |-> IF i <= n THEN f[i] ELSE NextName(g, at, known, i, f[i - 1])]
  <2>2. \A i \in 0 .. n : f[i] = IF i = 0 THEN name ELSE NextName(g, at, known, i, f[i - 1])
    BY <2>1
  <2>3. ASSUME NEW i \in 0 .. n + 1
        PROVE  h[i] = IF i = 0 THEN name ELSE NextName(g, at, known, i, h[i - 1])
    <3>1. CASE i = 0
      BY <2>2, <3>1
    <3>2. CASE i # 0
      <4>1. i - 1 \in 0 .. n + 1 /\ i - 1 <= n
        BY <3>2
      <4>2. h[i - 1] = f[i - 1]
        BY <4>1
      <4>3. h[i] = NextName(g, at, known, i, f[i - 1])
        <5>1. CASE i <= n
          BY <2>2, <3>2, <5>1
        <5>2. CASE ~(i <= n)
          BY <5>2
        <5> QED BY <5>1, <5>2
      <4> QED BY <3>2, <4>2, <4>3
    <3> QED BY <3>1, <3>2
  <2>4. Upto(n + 1, h)
    <3>1. h = [i \in 0 .. n + 1 |-> h[i]]
      OBVIOUS
    <3> HIDE DEF h
    <3> QED BY <2>3, <3>1
  <2> HIDE DEF Upto, h
  <2> QED BY <1>2, <2>4
<1>3. U \in P
  <2> HIDE DEF P
  <2>1. 0 .. U \subseteq P
    BY <1>1, <1>2, Upward
  <2> QED BY <2>1
<1> QED BY <1>3 DEF Traced

\* Logs that agree as far as the first goes, on what is known of them, name alike so far.
LEMMA TracesAgree ==
  ASSUME NEW g, Len(g) \in Nat, NEW h, Len(h) \in Nat, Len(g) <= Len(h),
         NEW name, NEW at, NEW known, NEW more,
         \A i \in 1 .. Len(g) : g[i] = h[i] /\ (i \in known <=> i \in more),
         NEW f, Traced(g, name, at, known, f), NEW e, Traced(h, name, at, more, e)
  PROVE  \A i \in 0 .. Len(g) : f[i] = e[i]
<1> DEFINE U == Len(g)
           P == {i \in 0 .. U : f[i] = e[i]}
<1>0. \A i \in 0 .. U :
        /\ f[i] = IF i = 0 THEN name ELSE NextName(g, at, known, i, f[i - 1])
        /\ e[i] = IF i = 0 THEN name ELSE NextName(h, at, more, i, e[i - 1])
  <2>1. \A i \in 0 .. Len(g) : f[i] = IF i = 0 THEN name ELSE NextName(g, at, known, i, f[i - 1])
    BY DEF Traced
  <2>2. \A i \in 0 .. Len(h) : e[i] = IF i = 0 THEN name ELSE NextName(h, at, more, i, e[i - 1])
    BY DEF Traced
  <2> QED BY <2>1, <2>2
<1>1. 0 \in P
  BY <1>0
<1>2. ASSUME NEW n \in 0 .. U, n \in P, n < U PROVE n + 1 \in P
  <2>1. n + 1 \in 0 .. U /\ n + 1 \in 1 .. U /\ (n + 1) - 1 = n /\ n + 1 # 0
    BY <1>2
  <2>2. f[n] = e[n]
    BY <1>2
  <2>3. f[n + 1] = NextName(g, at, known, n + 1, f[n])
    BY <1>0, <2>1
  <2>4. e[n + 1] = NextName(h, at, more, n + 1, e[n])
    BY <1>0, <2>1
  <2>5. f[n + 1] = e[n + 1]
    BY <2>1, <2>2, <2>3, <2>4 DEF NextName
  <2> QED BY <2>1, <2>5
<1>3. 0 .. U \subseteq P
  <2> HIDE DEF P
  <2> QED BY <1>1, <1>2, Upward
<1> QED BY <1>3

\* The name an event adds to a log.
LEMMA NameAfter ==
  ASSUME NEW g, Len(g) \in Nat, NEW h, Len(h) = Len(g) + 1,
         NEW name, NEW at, NEW known, NEW more,
         \A i \in 1 .. Len(g) : g[i] = h[i] /\ (i \in known <=> i \in more)
  PROVE  NameNow(h, name, at, more)
           = NextName(h, at, more, Len(g) + 1, NameNow(g, name, at, known))
<1> DEFINE f == CHOOSE x : Traced(g, name, at, known, x)
           e == CHOOSE x : Traced(h, name, at, more, x)
<1>1. Traced(g, name, at, known, f) /\ Traced(h, name, at, more, e)
  BY TraceExists
<1>2. NameNow(g, name, at, known) = f[Len(g)] /\ NameNow(h, name, at, more) = e[Len(h)]
  BY DEF NameNow
<1> HIDE DEF f, e
<1>3. f[Len(g)] = e[Len(g)]
  <2>1. Len(h) \in Nat /\ Len(g) <= Len(h)
    OBVIOUS
  <2>2. \A i \in 0 .. Len(g) : f[i] = e[i]
    BY <1>1, <2>1, TracesAgree
  <2> QED BY <2>2
<1>4. e[Len(g) + 1] = NextName(h, at, more, Len(g) + 1, e[Len(g)])
  <2>1. /\ Len(g) + 1 \in 0 .. Len(h) /\ Len(g) + 1 # 0 /\ (Len(g) + 1) - 1 = Len(g)
    OBVIOUS
  <2> QED BY <1>1, <2>1 DEF Traced
<1> QED BY <1>2, <1>3, <1>4

\* What is known alike names alike.
LEMMA NameStays ==
  ASSUME NEW g, Len(g) \in Nat, NEW name, NEW at, NEW known, NEW more,
         \A i \in 1 .. Len(g) : i \in known <=> i \in more
  PROVE  NameNow(g, name, at, known) = NameNow(g, name, at, more)
<1> DEFINE f == CHOOSE x : Traced(g, name, at, known, x)
           e == CHOOSE x : Traced(g, name, at, more, x)
<1>1. Traced(g, name, at, known, f) /\ Traced(g, name, at, more, e)
  BY TraceExists
<1>2. NameNow(g, name, at, known) = f[Len(g)] /\ NameNow(g, name, at, more) = e[Len(g)]
  BY DEF NameNow
<1> HIDE DEF f, e
<1>3. \A i \in 0 .. Len(g) : f[i] = e[i]
  BY <1>1, TracesAgree
<1> QED BY <1>2, <1>3

\* An event is named as it was until later ones come.
LEMMA NameAtFirst ==
  ASSUME NEW g, Len(g) \in Nat, NEW name, NEW at \in Nat, NEW known, at >= Len(g)
  PROVE  NameNow(g, name, at, known) = name
<1> DEFINE U == Len(g)
           f == CHOOSE x : Traced(g, name, at, known, x)
           P == {i \in 0 .. U : f[i] = name}
<1>1. Traced(g, name, at, known, f)
  BY TraceExists
<1> HIDE DEF f
<1>2. \A i \in 0 .. U : f[i] = IF i = 0 THEN name ELSE NextName(g, at, known, i, f[i - 1])
  BY <1>1 DEF Traced
<1>3. 0 \in P
  BY <1>2
<1>4. ASSUME NEW n \in 0 .. U, n \in P, n < U PROVE n + 1 \in P
  <2>1. n + 1 \in 0 .. U /\ (n + 1) - 1 = n /\ n + 1 # 0 /\ ~(n + 1 > at)
    BY <1>4
  <2>2. f[n + 1] = NextName(g, at, known, n + 1, f[n])
    BY <1>2, <2>1
  <2>3. f[n + 1] = name
    BY <1>4, <2>1, <2>2 DEF NextName
  <2> QED BY <2>1, <2>3
<1>5. 0 .. U \subseteq P
  <2> HIDE DEF P
  <2> QED BY <1>3, <1>4, Upward
<1>6. f[U] = name
  BY <1>5
<1> QED BY <1>6 DEF f, NameNow

-----------------------------------------------------------------------------
(* What the log tells of the funnel. *)

RenamesOf(g, b) == {i \in DOMAIN g : g[i].kind = "rename" /\ g[i].pipeline = b}
MovesOf(g, l) == {i \in DOMAIN g : g[i].kind = "move" /\ g[i].lead = l}
Ends(ev) == {ev.from, ev.to}
CalledNow(g, name, at, b) == NameNow(g, name, at, RenamesOf(g, b))
Logged == N!Move \cup N!Rename

\* An event renames what was called so far as its older end.
LEMMA LogGrows ==
  ASSUME NEW g \in Seq(Logged), NEW ev \in Logged, NEW b, NEW name, NEW i \in DOMAIN g
  PROVE  CalledNow(Append(g, ev), name, i, b)
           = IF ev.kind = "rename" /\ ev.pipeline = b /\ ev.from = CalledNow(g, name, i, b)
             THEN ev.to ELSE CalledNow(g, name, i, b)
<1> DEFINE h == Append(g, ev)
           n == Len(g)
<1>1. /\ Len(g) \in Nat /\ Len(h) = Len(g) + 1 /\ DOMAIN g = 1 .. n /\ DOMAIN h = 1 .. n + 1
      /\ h[n + 1] = ev /\ \A k \in 1 .. n : h[k] = g[k]
  OBVIOUS
<1>2. \A k \in 1 .. Len(g) : g[k] = h[k] /\ (k \in RenamesOf(g, b) <=> k \in RenamesOf(h, b))
  BY <1>1 DEF RenamesOf
<1>3. n + 1 \in RenamesOf(h, b) <=> ev.kind = "rename" /\ ev.pipeline = b
  BY <1>1 DEF RenamesOf
<1>4. n + 1 > i
  BY <1>1
<1> HIDE DEF h
<1>5. NameNow(h, name, i, RenamesOf(h, b))
        = NextName(h, i, RenamesOf(h, b), Len(g) + 1, NameNow(g, name, i, RenamesOf(g, b)))
  <2>1. Len(g) \in Nat /\ Len(h) = Len(g) + 1
    BY <1>1
  <2>2. \A k \in 1 .. Len(g) : g[k] = h[k] /\ (k \in RenamesOf(g, b) <=> k \in RenamesOf(h, b))
    BY <1>2
  <2> HIDE DEF n
  <2> QED BY ONLY <2>1, <2>2, NameAfter
<1> HIDE DEF n
<1>6. CalledNow(h, name, i, b)
        = IF ev.kind = "rename" /\ ev.pipeline = b /\ ev.from = CalledNow(g, name, i, b)
          THEN ev.to ELSE CalledNow(g, name, i, b)
  BY <1>1, <1>3, <1>4, <1>5 DEF CalledNow, NextName, n
<1> QED BY <1>6 DEF h

\* Its own ends are called as it says.
LEMMA LogAtFirst ==
  ASSUME NEW g \in Seq(Logged), NEW ev \in Logged, NEW b, NEW name
  PROVE  CalledNow(Append(g, ev), name, Len(g) + 1, b) = name
<1>1. Len(Append(g, ev)) \in Nat /\ Len(g) + 1 \in Nat /\ Len(g) + 1 >= Len(Append(g, ev))
  OBVIOUS
<1> QED BY <1>1, NameAtFirst DEF CalledNow

\* The moves an event adds.
LEMMA MovesGrow ==
  ASSUME NEW g \in Seq(Logged), NEW ev \in Logged, NEW l
  PROVE  /\ MovesOf(g, l) \subseteq DOMAIN g /\ DOMAIN g \subseteq DOMAIN Append(g, ev)
         /\ \A i \in DOMAIN g : Append(g, ev)[i] = g[i]
         /\ Append(g, ev)[Len(g) + 1] = ev
         /\ MovesOf(Append(g, ev), l)
              = IF ev.kind = "move" /\ ev.lead = l THEN MovesOf(g, l) \cup {Len(g) + 1}
                ELSE MovesOf(g, l)
<1> DEFINE h == Append(g, ev)
           n == Len(g)
<1>1. /\ n \in Nat /\ DOMAIN g = 1 .. n /\ DOMAIN h = 1 .. n + 1
      /\ h[n + 1] = ev /\ \A k \in 1 .. n : h[k] = g[k]
  OBVIOUS
<1>2. \A k \in 1 .. n + 1 : k \in 1 .. n \/ k = n + 1
  BY <1>1
<1>3. DOMAIN g \subseteq DOMAIN h /\ n + 1 \in DOMAIN h
  BY <1>1
<1>4. MovesOf(g, l) \subseteq DOMAIN g
  BY DEF MovesOf
<1> HIDE DEF h, n
<1>5. MovesOf(h, l) = IF ev.kind = "move" /\ ev.lead = l THEN MovesOf(g, l) \cup {n + 1} ELSE MovesOf(g, l)
  <2>1. ASSUME NEW k PROVE k \in MovesOf(h, l) <=> k \in MovesOf(g, l)
                            \/ (k = n + 1 /\ ev.kind = "move" /\ ev.lead = l)
    BY <1>1, <1>2, <1>3 DEF MovesOf
  <2> QED BY <2>1
<1> QED BY <1>1, <1>3, <1>4, <1>5 DEF h, n

\* An event that is no rename leaves every board's renames.
LEMMA RenamesStay ==
  ASSUME NEW g \in Seq(Logged), NEW ev \in Logged, NEW b, ev.kind # "rename"
  PROVE  RenamesOf(Append(g, ev), b) = RenamesOf(g, b)
<1> DEFINE h == Append(g, ev)
           n == Len(g)
<1>1. /\ n \in Nat /\ DOMAIN g = 1 .. n /\ DOMAIN h = 1 .. n + 1
      /\ h[n + 1] = ev /\ \A k \in 1 .. n : h[k] = g[k]
  OBVIOUS
<1>2. \A k \in 1 .. n + 1 : k \in 1 .. n \/ k = n + 1
  BY <1>1
<1>3. DOMAIN g \subseteq DOMAIN h
  BY <1>1
<1> HIDE DEF h, n
<1>4. RenamesOf(h, b) = RenamesOf(g, b)
  BY <1>1, <1>2, <1>3 DEF RenamesOf
<1> QED BY <1>4 DEF h

-----------------------------------------------------------------------------
(* The invariant of the funnel. *)

Standing(b) == {s \in FunnelStages : stage[s] # Null /\ stage[s].pipeline = b}
Staying == {l \in FunnelLeads \ crossed : lead[l] # Null /\ lead[l].pipeline \in settled}

FunnelTyped ==
  /\ N!TypeOK /\ Len(log) <= MaxEvents
  /\ visited \in [FunnelLeads -> SUBSET FunnelStages]
  /\ vacated \in SUBSET (FunnelBoards \X Labels)

\* The stages of a board never renamed differ in their names, and remember whose name they took.
NamesDiffer ==
  \A b \in settled : \A s, t \in Standing(b) : stage[s].name = stage[t].name => s = t
Remembered ==
  \A b \in settled : \A s \in Standing(b) : <<b, stage[s].name>> \in vacated => stage[s].reused

\* A lead is in a stage it has visited, and has moves only once it is there.
InStage ==
  \A l \in FunnelLeads : lead[l] # Null /\ lead[l].pipeline \in settled =>
    \E s \in visited[l] \cap Standing(lead[l].pipeline) : stage[s].name = lead[l].status
OnBoard ==
  \A l \in FunnelLeads \ crossed : \A s \in visited[l] :
    lead[l] # Null /\ (stage[s] # Null => stage[s].pipeline = lead[l].pipeline)
MovesKnown ==
  \A i \in DOMAIN log : log[i].kind = "move" => lead[log[i].lead] # Null

\* The present name and the moves tell the stages a lead has visited, and no others but those whose
\* name a removed stage had.
Tells(l, n) ==
  \/ n = lead[l].status
  \/ \E i \in MovesOf(log, l) : \E e \in Ends(log[i]) : n = CalledNow(log, e, i, lead[l].pipeline)
VisitsTold ==
  \A l \in Staying : \A s \in visited[l] : stage[s] # Null => Tells(l, stage[s].name)
ToldFor(l, n) ==
  \/ <<lead[l].pipeline, n>> \in vacated
  \/ \E s \in Standing(lead[l].pipeline) :
       stage[s].name = n /\ (s \in visited[l] \/ stage[s].reused)
ToldVisits ==
  \A l \in Staying : \A i \in MovesOf(log, l) : \A e \in Ends(log[i]) :
    ToldFor(l, CalledNow(log, e, i, lead[l].pipeline))

NamesOf(l, b) ==
  {lead[l].status} \cup {n \in Labels : \E i \in MovesOf(log, l) : \E e \in Ends(log[i]) : n = CalledNow(log, e, i, b)}

\* What a report has read is so while no name changes.
ReportRead ==
  report # Null /\ ~report.late =>
    /\ report.stages = Standing(report.pipeline)
    /\ \A s \in report.stages : report.names[s] = stage[s].name
    /\ report.step # "renames" => report.renames = RenamesOf(log, report.pipeline)
    /\ report.step = "done" =>
         /\ report.of = N!LeadsOn(report.pipeline)
         /\ \A n \in Labels :
              report.counts[n] = {l \in report.of : n \in NamesOf(l, report.pipeline)}

History == InStage /\ OnBoard /\ MovesKnown /\ VisitsTold /\ ToldVisits
FunnelIInv == FunnelTyped /\ NamesDiffer /\ Remembered /\ History /\ ReportRead

\* The invariant implies what the report promises.
LEMMA FunnelIsExact ==
  ASSUME FunnelIInv
  PROVE  FunnelExact
<1>1. N!TypeOK
  BY DEF FunnelIInv, FunnelTyped
<1>2. SUFFICES ASSUME N!Done, ~report.late, report.pipeline \in settled,
                      NEW s \in report.stages, NEW l \in report.of \ crossed, ~stage[s].reused
               PROVE  l \in report.counts[report.names[s]] <=> s \in visited[l]
  BY <1>1 DEF FunnelExact, N!FunnelExact
<1> DEFINE b == report.pipeline
           n == stage[s].name
<1>3. /\ report # Null /\ report.step = "done" /\ report.stages = Standing(b)
      /\ report.names[s] = n /\ report.of = N!LeadsOn(b)
      /\ \A x \in Labels : report.counts[x] = {k \in report.of : x \in NamesOf(k, b)}
  BY <1>2 DEF N!Done, FunnelIInv, ReportRead
<1>4. s \in Standing(b) /\ s \in FunnelStages /\ stage[s] # Null /\ n \in Labels
  <2>1. s \in Standing(b)
    BY <1>3
  <2>2. s \in FunnelStages /\ stage[s] # Null
    BY <2>1 DEF Standing
  <2>3. stage[s] \in N!StageRow
    BY <1>1, <2>2 DEF N!TypeOK
  <2> QED BY <2>1, <2>2, <2>3 DEF N!StageRow
<1>5. l \in Staying /\ lead[l].pipeline = b /\ l \in FunnelLeads /\ l \in report.of
  BY <1>2, <1>3 DEF N!LeadsOn, Staying
<1>6. l \in report.counts[n] <=> n \in NamesOf(l, b)
  BY <1>3, <1>4, <1>5
<1>7. ASSUME s \in visited[l] PROVE n \in NamesOf(l, b)
  BY <1>4, <1>5, <1>7 DEF FunnelIInv, History, VisitsTold, Tells, NamesOf
<1>8. ASSUME n \in NamesOf(l, b) PROVE s \in visited[l]
  <2>1. CASE n = lead[l].status
    <3>1. PICK t \in visited[l] \cap Standing(b) : stage[t].name = n
      BY <1>5, <2>1 DEF FunnelIInv, History, InStage, Staying
    <3> QED BY <1>2, <1>4, <3>1 DEF FunnelIInv, NamesDiffer
  <2>2. CASE \E i \in MovesOf(log, l) : \E e \in Ends(log[i]) : n = CalledNow(log, e, i, b)
    <3>1. ToldFor(l, n)
      BY <1>5, <2>2 DEF FunnelIInv, History, ToldVisits
    <3>2. <<b, n>> \notin vacated
      BY <1>2, <1>4 DEF FunnelIInv, Remembered
    <3>3. PICK t \in Standing(b) : stage[t].name = n /\ (t \in visited[l] \/ stage[t].reused)
      BY <1>5, <3>1, <3>2 DEF ToldFor
    <3> QED BY <1>2, <1>4, <3>3 DEF FunnelIInv, NamesDiffer
  <2> QED BY <1>8, <2>1, <2>2 DEF NamesOf
<1> QED BY <1>3, <1>6, <1>7, <1>8

-----------------------------------------------------------------------------
(* Every change keeps the invariant. *)

\* What the typed rows of the funnel are.
LEMMA FunnelTypes ==
  ASSUME FunnelTyped
  PROVE  /\ \A s \in FunnelStages : stage[s] # Null =>
              stage[s] \in N!StageRow /\ stage[s].pipeline \in FunnelBoards /\ stage[s].name \in Labels
         /\ \A l \in FunnelLeads : lead[l] # Null =>
              lead[l] \in N!LeadRow /\ lead[l].pipeline \in FunnelBoards /\ lead[l].status \in Labels
         /\ \A x \in N!StageRow \cup N!LeadRow \cup N!Report : x # Null
         /\ stage \in [FunnelStages -> N!StageRow \cup {Null}]
         /\ lead \in [FunnelLeads -> N!LeadRow \cup {Null}]
         /\ log \in Seq(Logged) /\ report \in N!Report \cup {Null}
BY ReadsConstants DEF FunnelTyped, N!TypeOK, N!StageRow, N!LeadRow, N!NoneIsNoRow, Logged

\* The invariant holds at first,
LEMMA FunnelInit ==
  ASSUME N!Init PROVE FunnelIInv
<1>1. /\ MaxEvents \in Nat /\ Shipped \in [FunnelStages -> N!StageRow \cup {Null}]
      /\ \A s, t \in {x \in FunnelStages : Shipped[x] # Null} :
           Shipped[s].pipeline = Shipped[t].pipeline /\ Shipped[s].name = Shipped[t].name => s = t
  BY ReadsConstants DEF N!ShippedAssumption
<1>2. FunnelTyped
  BY <1>1 DEF N!Init, FunnelTyped, N!TypeOK
<1>3. NamesDiffer
  BY <1>1 DEF N!Init, NamesDiffer, Standing
<1>4. Remembered
  BY DEF N!Init, Remembered
<1>5. History
  <2>1. \A l \in FunnelLeads : lead[l] = Null /\ visited[l] = {}
    BY DEF N!Init
  <2>2. log = <<>> /\ DOMAIN log = {}
    BY DEF N!Init
  <2> QED BY <2>1, <2>2 DEF History, InStage, OnBoard, MovesKnown, VisitsTold, ToldVisits, Staying
<1>6. ReportRead
  BY DEF N!Init, ReportRead
<1> QED BY <1>2, <1>3, <1>4, <1>5, <1>6 DEF FunnelIInv

\* A report that changes only in being late is still what it was.
LEMMA NamesChangeTypes ==
  ASSUME FunnelTyped, N!NamesChange
  PROVE  report' \in N!Report \cup {Null} /\ ReportRead'
<1>1. CASE report = Null
  BY <1>1 DEF N!NamesChange, ReportRead
<1>2. CASE report # Null
  <2>1. report \in N!Report
    BY <1>2 DEF FunnelTyped, N!TypeOK
  <2>2. report' = [report EXCEPT !.late = TRUE]
    BY <1>2 DEF N!NamesChange
  <2>3. report' \in N!Report /\ report'.late
    BY <2>1, <2>2 DEF N!Report
  <2> QED BY <2>3 DEF ReportRead
<1> QED BY <1>1, <1>2

\* and every change of the stages and leads keeps it: a new stage,
LEMMA createStageKeeps ==
  ASSUME FunnelIInv, NEW z \in FunnelStages, NEW b \in boards, NEW n \in Labels,
         N!createStage(z, b, n)
  PROVE  FunnelIInv'
<1> USE DEF FunnelIInv
<1>0. FunnelTyped /\ b \in FunnelBoards
  BY DEF FunnelTyped, N!TypeOK
<1>1. /\ stage[z] = Null /\ n \notin N!Taken(b) /\ \A l \in FunnelLeads : z \notin visited[l]
      /\ stage' = [stage EXCEPT ![z] = [pipeline |-> b, name |-> n, reused |-> <<b, n>> \in vacated]]
      /\ N!NamesChange
      /\ UNCHANGED <<boards, lead, log, visited, crossed, settled, vacated>>
  BY DEF N!createStage
<1>2. /\ stage'[z] = [pipeline |-> b, name |-> n, reused |-> <<b, n>> \in vacated]
      /\ stage'[z] \in N!StageRow /\ stage'[z] # Null
      /\ \A s \in FunnelStages : s # z => stage'[s] = stage[s]
  <2>1. DOMAIN stage = FunnelStages
    BY <1>0, FunnelTypes
  <2>2. [pipeline |-> b, name |-> n, reused |-> <<b, n>> \in vacated] \in N!StageRow
    BY <1>0 DEF N!StageRow
  <2> QED BY <1>0, <1>1, <2>1, <2>2, FunnelTypes
<1>3. FunnelTyped'
  <2>1. stage' \in [FunnelStages -> N!StageRow \cup {Null}]
    BY <1>0, <1>1, <1>2, FunnelTypes
  <2> QED BY <1>0, <1>1, <2>1, NamesChangeTypes DEF FunnelTyped, N!TypeOK
<1>4. \A c : \A s \in Standing(c)' :
        s \in FunnelStages /\ ((s = z /\ c = b) \/ (s # z /\ s \in Standing(c)))
  BY <1>1, <1>2 DEF Standing
<1>5. \A c : Standing(c) \subseteq Standing(c)' /\ \A s \in Standing(c) : s # z /\ stage'[s] = stage[s]
  BY <1>1, <1>2 DEF Standing
<1>6. \A s \in Standing(b) : stage[s].name # n
  BY <1>1 DEF N!Taken, N!On, Standing
<1>7. NamesDiffer'
  <2> SUFFICES ASSUME NEW c \in settled, NEW s \in Standing(c)', NEW t \in Standing(c)',
                      stage'[s].name = stage'[t].name
               PROVE  s = t
    BY <1>1 DEF NamesDiffer
  <2> QED BY <1>2, <1>4, <1>6 DEF NamesDiffer
<1>8. Remembered'
  <2> SUFFICES ASSUME NEW c \in settled, NEW s \in Standing(c)', <<c, stage'[s].name>> \in vacated
               PROVE  stage'[s].reused
    BY <1>1 DEF Remembered
  <2>1. CASE s = z
    <3> DEFINE had == <<b, n>> \in vacated
    <3>1. c = b /\ stage'[z].name = n
      BY <1>2, <1>4, <2>1
    <3>2. had
      BY <2>1, <3>1
    <3>3. stage'[z] = [pipeline |-> b, name |-> n, reused |-> had]
      BY <1>2
    <3> HIDE DEF had
    <3> QED BY <2>1, <3>2, <3>3
  <2>2. CASE s # z
    BY <1>2, <1>4, <2>2 DEF Remembered
  <2> QED BY <2>1, <2>2
<1>9. History'
  <2>1. InStage'
    BY <1>1, <1>5 DEF History, InStage
  <2>2. OnBoard' /\ MovesKnown'
    BY <1>1, <1>2, <1>0 DEF History, OnBoard, MovesKnown, FunnelTyped
  <2>3. VisitsTold'
    <3> SUFFICES ASSUME NEW l \in Staying, NEW s \in visited[l], stage'[s] # Null
                 PROVE  Tells(l, stage[s].name)'
      BY <1>1 DEF VisitsTold, Staying
    <3>1. s \in FunnelStages /\ s # z
      BY <1>0, <1>1 DEF FunnelTyped, Staying
    <3>2. Tells(l, stage[s].name)
      BY <1>2, <3>1 DEF History, VisitsTold
    <3> QED BY <1>1, <1>2, <3>1, <3>2 DEF Tells
  <2>4. ToldVisits'
    <3>1. \A l \in FunnelLeads : \A x : ToldFor(l, x) => ToldFor(l, x)'
      BY <1>1, <1>5 DEF ToldFor
    <3> QED BY <1>1, <3>1 DEF History, ToldVisits, Staying
  <2> QED BY <2>1, <2>2, <2>3, <2>4 DEF History
<1> QED BY <1>0, <1>1, <1>3, <1>7, <1>8, <1>9, NamesChangeTypes

\* a new name of a stage, which the log tells,
LEMMA renameStageKeeps ==
  ASSUME FunnelIInv, NEW z \in FunnelStages, NEW n \in Labels, N!renameStage(z, n)
  PROVE  FunnelIInv'
<1> USE DEF FunnelIInv
<1> DEFINE b == stage[z].pipeline
           old == stage[z].name
           had == <<b, n>> \in vacated
           ev == [kind |-> "rename", pipeline |-> b, from |-> old, to |-> n]
           onIt(l) == lead[l] # Null /\ lead[l].pipeline = b /\ lead[l].status = old
<1>0. FunnelTyped
  OBVIOUS
<1>1. /\ stage[z] # Null /\ n \notin N!Taken(b)
      /\ stage' = [stage EXCEPT ![z] = [stage[z] EXCEPT !.name = n, !.reused = @ \/ had]]
      /\ lead' = [l \in FunnelLeads |-> IF l \in N!LeadsOn(b) /\ lead[l].status = old
                                        THEN [lead[l] EXCEPT !.status = n] ELSE lead[l]]
      /\ Len(log) < MaxEvents /\ log' = Append(log, ev)
      /\ N!NamesChange
      /\ UNCHANGED <<boards, visited, crossed, settled, vacated>>
  BY DEF N!renameStage, N!Record
<1>2. z \in Standing(b) /\ stage[z] \in N!StageRow /\ b \in FunnelBoards /\ old \in Labels
      /\ z \in FunnelStages
  BY <1>0, <1>1, FunnelTypes DEF Standing
<1> HIDE DEF had
<1>3. /\ stage'[z] \in N!StageRow /\ stage'[z] # Null
      /\ stage'[z].pipeline = b /\ stage'[z].name = n
      /\ (had \/ stage[z].reused) => stage'[z].reused
      /\ \A s \in FunnelStages : s # z => stage'[s] = stage[s]
  <2> DEFINE row == [stage[z] EXCEPT !.name = n, !.reused = @ \/ had]
  <2>1. DOMAIN stage = FunnelStages
    BY <1>0, FunnelTypes
  <2>2. /\ row \in N!StageRow /\ row.pipeline = b /\ row.name = n
        /\ (had \/ stage[z].reused) => row.reused
    <3>1. had \in BOOLEAN
      BY DEF had
    <3> QED BY <1>2, <3>1 DEF N!StageRow
  <2> HIDE DEF row
  <2>3. stage' = [stage EXCEPT ![z] = row]
    BY <1>1 DEF row
  <2>4. stage'[z] = row /\ \A s \in FunnelStages : s # z => stage'[s] = stage[s]
    BY <2>1, <2>3
  <2> QED BY <1>0, <2>2, <2>4, FunnelTypes
<1>4. ASSUME NEW l \in FunnelLeads
      PROVE  /\ lead[l] = Null <=> lead'[l] = Null
             /\ lead[l] # Null => /\ lead'[l] \in N!LeadRow
                                  /\ lead'[l].pipeline = lead[l].pipeline
                                  /\ lead'[l].status = IF onIt(l) THEN n ELSE lead[l].status
  <2>1. lead'[l] = IF onIt(l) THEN [lead[l] EXCEPT !.status = n] ELSE lead[l]
    BY <1>1 DEF N!LeadsOn
  <2>2. CASE onIt(l)
    <3>1. lead[l] \in N!LeadRow
      BY <1>0, <2>2, FunnelTypes
    <3>2. /\ lead'[l] \in N!LeadRow /\ lead'[l].pipeline = lead[l].pipeline
          /\ lead'[l].status = n
      BY <2>1, <2>2, <3>1 DEF N!LeadRow
    <3> QED BY <1>0, <2>2, <3>2, FunnelTypes
  <2>3. CASE ~onIt(l)
    BY <1>0, <2>1, <2>3, FunnelTypes
  <2> QED BY <2>2, <2>3
<1>5. ev \in Logged /\ ev.kind = "rename" /\ ev.pipeline = b /\ ev.from = old /\ ev.to = n
  BY <1>2 DEF Logged, N!Rename
<1> HIDE DEF ev
<1>6. \A l : MovesOf(log', l) = MovesOf(log, l) /\ MovesOf(log, l) \subseteq DOMAIN log
  <2>1. log \in Seq(Logged) /\ ev.kind # "move"
    BY <1>0, <1>5, FunnelTypes
  <2> QED BY <1>1, <1>5, <2>1, MovesGrow
<1>7. \A i \in DOMAIN log : log'[i] = log[i]
  <2>1. log \in Seq(Logged)
    BY <1>0, FunnelTypes
  <2> QED BY <1>1, <1>5, <2>1, MovesGrow
<1>8. \A i \in DOMAIN log : \A e, c :
        CalledNow(log', e, i, c)
          = IF c = b /\ CalledNow(log, e, i, c) = old THEN n ELSE CalledNow(log, e, i, c)
  <2>1. log \in Seq(Logged)
    BY <1>0, FunnelTypes
  <2> QED BY <1>1, <1>5, <2>1, LogGrows
<1>9. FunnelTyped'
  <2>1. stage' \in [FunnelStages -> N!StageRow \cup {Null}]
    BY <1>0, <1>1, <1>3, FunnelTypes
  <2>2. lead' \in [FunnelLeads -> N!LeadRow \cup {Null}]
    BY <1>1, <1>4
  <2>3. log' \in Seq(N!Move \cup N!Rename) /\ Len(log') <= MaxEvents
    <3>1. log \in Seq(Logged) /\ MaxEvents \in Nat
      BY <1>0, FunnelTypes, ReadsConstants DEF N!ShippedAssumption
    <3>2. Append(log, ev) \in Seq(Logged) /\ Len(Append(log, ev)) = Len(log) + 1
      BY <1>5, <3>1
    <3> QED BY <1>1, <3>1, <3>2 DEF Logged
  <2> QED BY <1>0, <1>1, <2>1, <2>2, <2>3, NamesChangeTypes DEF FunnelTyped, N!TypeOK
<1>10. \A c : Standing(c)' = Standing(c)
  <2>1. \A s \in FunnelStages : (stage'[s] # Null <=> stage[s] # Null)
          /\ (stage[s] # Null => stage'[s].pipeline = stage[s].pipeline)
    BY <1>1, <1>3
  <2> QED BY <2>1 DEF Standing
<1>11. \A s \in Standing(b) : stage[s].name # n
  BY <1>1 DEF N!Taken, N!On, Standing
<1>12. NamesDiffer'
  <2> SUFFICES ASSUME NEW c \in settled, NEW s \in Standing(c), NEW t \in Standing(c),
                      stage'[s].name = stage'[t].name
               PROVE  s = t
    BY <1>1, <1>10 DEF NamesDiffer
  <2>1. \A x \in Standing(c) : x \in FunnelStages /\ (x = z => c = b)
    BY DEF Standing
  <2> QED BY <1>3, <1>11, <2>1 DEF NamesDiffer
<1>13. Remembered'
  <2> SUFFICES ASSUME NEW c \in settled, NEW s \in Standing(c), <<c, stage'[s].name>> \in vacated
               PROVE  stage'[s].reused
    BY <1>1, <1>10 DEF Remembered
  <2>1. CASE s = z
    <3>1. c = b
      BY <2>1 DEF Standing
    <3>2. had
      BY <1>3, <2>1, <3>1 DEF had
    <3> QED BY <1>3, <2>1, <3>2
  <2>2. CASE s # z
    BY <1>3, <2>2 DEF Remembered, Standing
  <2> QED BY <2>1, <2>2
<1>14. History'
  <2>1. InStage'
    <3> SUFFICES ASSUME NEW l \in FunnelLeads, lead'[l] # Null, lead'[l].pipeline \in settled
                 PROVE  \E s \in visited[l] \cap Standing(lead'[l].pipeline) : stage'[s].name = lead'[l].status
      BY <1>1, <1>10 DEF InStage
    <3>1. lead[l] # Null /\ lead'[l].pipeline = lead[l].pipeline
      BY <1>4
    <3>2. PICK s \in visited[l] \cap Standing(lead[l].pipeline) : stage[s].name = lead[l].status
      BY <3>1 DEF History, InStage
    <3>3. CASE onIt(l)
      <4>1. s = z
        BY <1>2, <3>1, <3>2, <3>3 DEF NamesDiffer
      <4> QED BY <1>3, <1>4, <3>1, <3>2, <3>3, <4>1
    <3>4. CASE ~onIt(l)
      <4>1. s # z /\ s \in FunnelStages
        BY <3>1, <3>2, <3>4 DEF Standing
      <4> QED BY <1>3, <1>4, <3>1, <3>2, <3>4, <4>1
    <3> QED BY <3>3, <3>4
  <2>2. OnBoard'
    <3> SUFFICES ASSUME NEW l \in FunnelLeads \ crossed, NEW s \in visited[l]
                 PROVE  lead'[l] # Null /\ (stage'[s] # Null => stage'[s].pipeline = lead'[l].pipeline)
      BY <1>1 DEF OnBoard
    <3>1. lead[l] # Null /\ (stage[s] # Null => stage[s].pipeline = lead[l].pipeline)
      BY DEF History, OnBoard
    <3>2. s \in FunnelStages
      BY <1>0 DEF FunnelTyped
    <3> QED BY <1>1, <1>3, <1>4, <3>1, <3>2
  <2>3. MovesKnown'
    <3> SUFFICES ASSUME NEW i \in DOMAIN log', log'[i].kind = "move"
                 PROVE  lead'[log'[i].lead] # Null
      BY DEF MovesKnown
    <3>1. i \in MovesOf(log', log'[i].lead)
      BY DEF MovesOf
    <3>2. i \in DOMAIN log /\ log'[i] = log[i]
      BY <1>6, <1>7, <3>1
    <3>3. lead[log[i].lead] # Null
      BY <3>2 DEF History, MovesKnown
    <3>4. log[i].lead \in FunnelLeads
      <4>1. log[i] \in Logged
        BY <1>0, <3>2, FunnelTypes
      <4> QED BY <3>2, <4>1 DEF Logged, N!Move, N!Rename
    <3> QED BY <1>4, <3>2, <3>3, <3>4
  <2>4. VisitsTold'
    <3> SUFFICES ASSUME NEW l \in Staying, NEW s \in visited[l], stage'[s] # Null
                 PROVE  Tells(l, stage[s].name)'
      BY <1>1, <1>4 DEF VisitsTold, Staying
    <3> DEFINE c == lead[l].pipeline
               m == stage[s].name
    <3>1. l \in FunnelLeads /\ lead[l] # Null /\ c \in settled /\ l \notin crossed
          /\ s \in FunnelStages /\ lead'[l].pipeline = c
      BY <1>0, <1>4 DEF FunnelTyped, Staying
    <3>2. stage[s] # Null /\ s \in Standing(c)
      <4>1. stage[s] # Null
        BY <1>1, <1>3, <3>1
      <4> QED BY <3>1, <4>1 DEF History, OnBoard, Standing
    <3>3. Tells(l, m)
      BY <3>2 DEF History, VisitsTold
    <3>4. stage'[s].name = IF c = b /\ m = old THEN n ELSE m
      <4>1. CASE s = z
        BY <1>3, <3>2, <4>1 DEF Standing
      <4>2. CASE s # z
        <5>1. ~(c = b /\ m = old)
          BY <1>2, <3>1, <3>2, <4>2 DEF NamesDiffer
        <5> QED BY <1>3, <3>1, <4>2, <5>1
      <4> QED BY <4>1, <4>2
    <3>5. lead'[l].status = IF c = b /\ lead[l].status = old THEN n ELSE lead[l].status
      BY <1>4, <3>1
    <3> HIDE DEF c, m
    <3>6. CASE m = lead[l].status
      BY <3>4, <3>5, <3>6 DEF Tells
    <3>7. CASE \E i \in MovesOf(log, l) : \E e \in Ends(log[i]) : m = CalledNow(log, e, i, c)
      <4>1. PICK i \in MovesOf(log, l) : \E e \in Ends(log[i]) : m = CalledNow(log, e, i, c)
        BY <3>7
      <4>2. PICK e \in Ends(log[i]) : m = CalledNow(log, e, i, c)
        BY <4>1
      <4>3. i \in MovesOf(log', l) /\ e \in Ends(log'[i]) /\ i \in DOMAIN log
        BY <1>6, <1>7
      <4>4. stage'[s].name = CalledNow(log', e, i, c)
        BY <1>8, <3>4, <4>2, <4>3
      <4> QED BY <3>1, <4>3, <4>4 DEF Tells
    <3> QED BY <3>3, <3>6, <3>7 DEF Tells, c
  <2>5. ToldVisits'
    <3> SUFFICES ASSUME NEW l \in Staying, NEW i \in MovesOf(log, l), NEW e \in Ends(log[i])
                 PROVE  ToldFor(l, CalledNow(log, e, i, lead[l].pipeline))'
      <4>1. Staying' = Staying
        BY <1>1, <1>4 DEF Staying
      <4>2. \A l \in Staying : MovesOf(log, l)' = MovesOf(log, l)
        BY <1>6
      <4>3. \A i \in DOMAIN log : Ends(log[i])' = Ends(log[i])
        BY <1>7 DEF Ends
      <4> QED BY <1>6, <4>1, <4>2, <4>3 DEF ToldVisits
    <3> DEFINE c == lead[l].pipeline
               m == CalledNow(log, e, i, c)
               w == CalledNow(log', e, i, c)
    <3>1. l \in FunnelLeads /\ lead[l] # Null /\ c \in settled /\ lead'[l].pipeline = c
      BY <1>4 DEF Staying
    <3>2. ToldFor(l, m)
      BY DEF History, ToldVisits
    <3>3. w = IF c = b /\ m = old THEN n ELSE m
      BY <1>6, <1>8
    <3>4. ToldFor(l, m) <=> \/ <<c, m>> \in vacated
                            \/ \E s \in Standing(c) : stage[s].name = m /\ (s \in visited[l] \/ stage[s].reused)
      BY DEF ToldFor
    <3> DEFINE told == \/ <<c, w>> \in vacated
                       \/ \E s \in Standing(c) : stage'[s].name = w /\ (s \in visited[l] \/ stage'[s].reused)
    <3>5. told => ToldFor(l, CalledNow(log, e, i, lead[l].pipeline))'
      BY <1>1, <1>6, <1>10, <3>1 DEF ToldFor
    <3> HIDE DEF m, w
    <3>6. ASSUME <<c, m>> \in vacated PROVE told
      <4>1. CASE c = b /\ m = old
        <5>1. stage[z].reused
          BY <1>2, <3>1, <3>6, <4>1 DEF Remembered
        <5> QED BY <1>2, <1>3, <3>3, <4>1, <5>1
      <4>2. CASE ~(c = b /\ m = old)
        BY <3>3, <3>6, <4>2
      <4> QED BY <4>1, <4>2
    <3>7. ASSUME NEW s \in Standing(c), stage[s].name = m, s \in visited[l] \/ stage[s].reused
          PROVE  told
      <4>1. s \in FunnelStages
        BY DEF Standing
      <4>2. CASE s = z
        <5>1. c = b
          BY <4>2 DEF Standing
        <5>2. w = n
          BY <3>3, <3>7, <4>2, <5>1
        <5> QED BY <1>3, <3>7, <4>2, <5>2
      <4>3. CASE s # z
        <5>1. ~(c = b /\ m = old)
          BY <1>2, <3>1, <3>7, <4>3 DEF NamesDiffer
        <5> QED BY <1>3, <3>3, <3>7, <4>1, <4>3, <5>1
      <4> QED BY <4>2, <4>3
    <3>8. told
      BY <3>2, <3>4, <3>6, <3>7
    <3> QED BY <3>5, <3>8
  <2> QED BY <2>1, <2>2, <2>3, <2>4, <2>5 DEF History
<1> QED BY <1>0, <1>1, <1>9, <1>12, <1>13, <1>14, NamesChangeTypes

\* the removal of a stage no lead is in,
LEMMA removeStageKeeps ==
  ASSUME FunnelIInv, NEW z \in FunnelStages, N!removeStage(z)
  PROVE  FunnelIInv'
<1> USE DEF FunnelIInv
<1> DEFINE b == stage[z].pipeline
           old == stage[z].name
<1>0. FunnelTyped
  OBVIOUS
<1>1. /\ stage[z] # Null /\ \A l \in N!LeadsOn(b) : lead[l].status # old
      /\ stage' = [stage EXCEPT ![z] = Null]
      /\ vacated' = vacated \cup {<<b, old>>}
      /\ N!NamesChange
      /\ UNCHANGED <<boards, lead, log, visited, crossed, settled>>
  BY DEF N!removeStage
<1>2. z \in Standing(b) /\ b \in FunnelBoards /\ old \in Labels
  BY <1>0, <1>1, FunnelTypes DEF Standing
<1>3. stage'[z] = Null /\ \A s \in FunnelStages : s # z => stage'[s] = stage[s]
  BY <1>0, <1>1, FunnelTypes
<1>4. FunnelTyped'
  <2>1. stage' \in [FunnelStages -> N!StageRow \cup {Null}]
    BY <1>0, <1>1, FunnelTypes
  <2> QED BY <1>0, <1>1, <1>2, <2>1, NamesChangeTypes DEF FunnelTyped, N!TypeOK
<1>5. \A c : Standing(c)' = Standing(c) \ {z} /\ \A s \in Standing(c) \ {z} : stage'[s] = stage[s]
  BY <1>3 DEF Standing
<1>6. NamesDiffer'
  BY <1>1, <1>5 DEF NamesDiffer
<1>7. Remembered'
  <2> SUFFICES ASSUME NEW c \in settled, NEW s \in Standing(c) \ {z},
                      <<c, stage[s].name>> \in vacated \cup {<<b, old>>}
               PROVE  stage[s].reused
    BY <1>1, <1>5 DEF Remembered
  <2>1. CASE <<c, stage[s].name>> \in vacated
    BY <2>1 DEF Remembered
  <2>2. CASE <<c, stage[s].name>> = <<b, old>>
    BY <1>2, <2>2 DEF NamesDiffer
  <2> QED BY <2>1, <2>2
<1>8. History'
  <2>1. InStage'
    <3> SUFFICES ASSUME NEW l \in FunnelLeads, lead[l] # Null, lead[l].pipeline \in settled
                 PROVE  \E s \in visited[l] \cap (Standing(lead[l].pipeline) \ {z}) : stage'[s].name = lead[l].status
      BY <1>1, <1>5 DEF InStage
    <3>1. PICK s \in visited[l] \cap Standing(lead[l].pipeline) : stage[s].name = lead[l].status
      BY DEF History, InStage
    <3>2. s # z
      BY <1>1, <3>1 DEF N!LeadsOn, Standing
    <3> QED BY <1>5, <3>1, <3>2
  <2>2. OnBoard' /\ MovesKnown'
    BY <1>0, <1>1, <1>3 DEF History, OnBoard, MovesKnown, FunnelTyped
  <2>3. VisitsTold'
    <3> SUFFICES ASSUME NEW l \in Staying, NEW s \in visited[l], stage'[s] # Null
                 PROVE  Tells(l, stage[s].name)'
      BY <1>1 DEF VisitsTold, Staying
    <3>1. s \in FunnelStages
      BY <1>0 DEF FunnelTyped, Staying
    <3>2. stage'[s] = stage[s]
      BY <1>3, <3>1
    <3>3. Tells(l, stage[s].name)
      BY <3>2 DEF History, VisitsTold
    <3> QED BY <1>1, <3>2, <3>3 DEF Tells
  <2>4. ToldVisits'
    <3>1. ASSUME NEW l \in FunnelLeads, NEW x, ToldFor(l, x)
          PROVE  \/ <<lead[l].pipeline, x>> \in vacated'
                 \/ \E s \in Standing(lead[l].pipeline)' :
                      stage'[s].name = x /\ (s \in visited[l] \/ stage'[s].reused)
      <4>1. CASE <<lead[l].pipeline, x>> \in vacated
        BY <1>1, <4>1
      <4>2. ASSUME NEW s \in Standing(lead[l].pipeline), stage[s].name = x,
                   s \in visited[l] \/ stage[s].reused
            PROVE  \/ <<lead[l].pipeline, x>> \in vacated'
                   \/ \E t \in Standing(lead[l].pipeline)' :
                        stage'[t].name = x /\ (t \in visited[l] \/ stage'[t].reused)
        <5>1. CASE s = z
          BY <1>1, <4>2, <5>1 DEF Standing
        <5>2. CASE s # z
          BY <1>1, <1>5, <4>2, <5>2
        <5> QED BY <5>1, <5>2
      <4> QED BY <3>1, <4>1, <4>2 DEF ToldFor
    <3>2. \A l \in FunnelLeads : \A x : ToldFor(l, x) => ToldFor(l, x)'
      BY <1>1, <3>1 DEF ToldFor
    <3> QED BY <1>1, <3>2 DEF History, ToldVisits, Staying
  <2> QED BY <2>1, <2>2, <2>3, <2>4 DEF History
<1> QED BY <1>0, <1>1, <1>4, <1>6, <1>7, <1>8, NamesChangeTypes

\* a new name of a board,
LEMMA renamePipelineKeeps ==
  ASSUME FunnelIInv, NEW b \in FunnelBoards, NEW c \in FunnelBoards, N!renamePipeline(b, c)
  PROVE  FunnelIInv'
<1> USE DEF FunnelIInv
<1> DEFINE named(x) == IF x = b THEN c ELSE x
<1>0. FunnelTyped
  OBVIOUS
<1>1. /\ boards' = (boards \ {b}) \cup {c}
      /\ stage' = [s \in FunnelStages |-> IF stage[s] = Null THEN Null
                                          ELSE [stage[s] EXCEPT !.pipeline = named(@)]]
      /\ lead' = [l \in FunnelLeads |-> IF lead[l] = Null THEN Null
                                        ELSE [lead[l] EXCEPT !.pipeline = named(@)]]
      /\ settled' = settled \ {b, c}
      /\ vacated' = {<<named(x[1]), x[2]>> : x \in vacated}
      /\ N!NamesChange
      /\ UNCHANGED <<log, visited, crossed>>
  BY DEF N!renamePipeline
<1>2. \A x \in FunnelBoards : named(x) \in FunnelBoards
  OBVIOUS
<1>3. ASSUME NEW s \in FunnelStages
      PROVE  /\ stage'[s] = Null <=> stage[s] = Null
             /\ stage[s] # Null => /\ stage'[s] \in N!StageRow
                                   /\ stage'[s].pipeline = named(stage[s].pipeline)
                                   /\ stage'[s].name = stage[s].name
                                   /\ stage'[s].reused = stage[s].reused
  <2>1. CASE stage[s] = Null
    BY <1>1, <2>1
  <2>2. CASE stage[s] # Null
    <3>1. stage[s] \in N!StageRow /\ stage'[s] = [stage[s] EXCEPT !.pipeline = named(stage[s].pipeline)]
      BY <1>0, <1>1, <2>2, FunnelTypes
    <3>2. /\ stage'[s] \in N!StageRow
          /\ stage'[s].pipeline = named(stage[s].pipeline)
          /\ stage'[s].name = stage[s].name
          /\ stage'[s].reused = stage[s].reused
      BY <1>2, <3>1 DEF N!StageRow
    <3> QED BY <1>0, <2>2, <3>2, FunnelTypes
  <2> QED BY <2>1, <2>2
<1>4. ASSUME NEW l \in FunnelLeads
      PROVE  /\ lead'[l] = Null <=> lead[l] = Null
             /\ lead[l] # Null => /\ lead'[l] \in N!LeadRow
                                  /\ lead'[l].pipeline = named(lead[l].pipeline)
                                  /\ lead'[l].status = lead[l].status
  <2>1. CASE lead[l] = Null
    BY <1>1, <2>1
  <2>2. CASE lead[l] # Null
    <3>1. lead[l] \in N!LeadRow /\ lead'[l] = [lead[l] EXCEPT !.pipeline = named(lead[l].pipeline)]
      BY <1>0, <1>1, <2>2, FunnelTypes
    <3>2. /\ lead'[l] \in N!LeadRow
          /\ lead'[l].pipeline = named(lead[l].pipeline)
          /\ lead'[l].status = lead[l].status
      BY <1>2, <3>1 DEF N!LeadRow
    <3> QED BY <1>0, <2>2, <3>2, FunnelTypes
  <2> QED BY <2>1, <2>2
<1>5. FunnelTyped'
  <2>1. stage' \in [FunnelStages -> N!StageRow \cup {Null}]
    BY <1>1, <1>3
  <2>2. lead' \in [FunnelLeads -> N!LeadRow \cup {Null}]
    BY <1>1, <1>4
  <2>3. vacated' \in SUBSET (FunnelBoards \X Labels)
    BY <1>0, <1>1, <1>2 DEF FunnelTyped
  <2> QED BY <1>0, <1>1, <2>1, <2>2, <2>3, NamesChangeTypes DEF FunnelTyped, N!TypeOK
<1>6. ASSUME NEW d \in settled'
      PROVE  /\ d \in settled
             /\ Standing(d)' = Standing(d)
             /\ \A n : <<d, n>> \in vacated' <=> <<d, n>> \in vacated
             /\ \A l \in FunnelLeads : lead'[l] # Null /\ lead'[l].pipeline = d
                                       <=> lead[l] # Null /\ lead[l].pipeline = d
  <2>1. d \in settled /\ \A x : named(x) = d <=> x = d
    BY <1>1
  <2>2. Standing(d)' = Standing(d)
    BY <1>3, <2>1 DEF Standing
  <2>3. ASSUME NEW n PROVE <<d, n>> \in vacated' <=> <<d, n>> \in vacated
    <3>1. \A x \in vacated : x = <<x[1], x[2]>>
      BY <1>0 DEF FunnelTyped
    <3>2. ASSUME <<d, n>> \in vacated' PROVE <<d, n>> \in vacated
      <4>1. PICK x \in vacated : <<d, n>> = <<named(x[1]), x[2]>>
        BY <1>1, <3>2
      <4> QED BY <2>1, <3>1, <4>1
    <3>3. ASSUME <<d, n>> \in vacated PROVE <<d, n>> \in vacated'
      BY <1>1, <2>1, <3>3
    <3> QED BY <3>2, <3>3
  <2>4. \A l \in FunnelLeads : lead'[l] # Null /\ lead'[l].pipeline = d
                               <=> lead[l] # Null /\ lead[l].pipeline = d
    BY <1>4, <2>1
  <2> QED BY <2>1, <2>2, <2>3, <2>4
<1> HIDE DEF named
<1>7. NamesDiffer'
  BY <1>3, <1>6 DEF NamesDiffer, Standing
<1>8. Remembered'
  <2> SUFFICES ASSUME NEW d \in settled', NEW s \in Standing(d)', <<d, stage'[s].name>> \in vacated'
               PROVE  stage'[s].reused
    BY DEF Remembered
  <2>1. s \in Standing(d) /\ s \in FunnelStages /\ stage[s] # Null
    BY <1>6 DEF Standing
  <2> QED BY <1>3, <1>6, <2>1 DEF Remembered
<1>9. History'
  <2>1. InStage'
    <3> SUFFICES ASSUME NEW l \in FunnelLeads, lead'[l] # Null, lead'[l].pipeline \in settled'
                 PROVE  \E s \in visited[l] \cap Standing(lead[l].pipeline)' : stage'[s].name = lead'[l].status
      BY <1>1 DEF InStage
    <3>1. lead[l] # Null /\ lead[l].pipeline = lead'[l].pipeline /\ lead[l].pipeline \in settled
      BY <1>6
    <3>2. PICK s \in visited[l] \cap Standing(lead[l].pipeline) : stage[s].name = lead[l].status
      BY <3>1 DEF History, InStage
    <3>3. s \in FunnelStages /\ stage[s] # Null /\ s \in Standing(lead[l].pipeline)'
      BY <1>6, <3>1, <3>2 DEF Standing
    <3> QED BY <1>3, <1>4, <3>1, <3>2, <3>3
  <2>2. OnBoard'
    <3> SUFFICES ASSUME NEW l \in FunnelLeads \ crossed, NEW s \in visited[l]
                 PROVE  lead'[l] # Null /\ (stage'[s] # Null => stage'[s].pipeline = lead'[l].pipeline)
      BY <1>1 DEF OnBoard
    <3>1. lead[l] # Null /\ (stage[s] # Null => stage[s].pipeline = lead[l].pipeline)
      BY DEF History, OnBoard
    <3>2. s \in FunnelStages
      BY <1>0 DEF FunnelTyped
    <3> QED BY <1>3, <1>4, <3>1, <3>2
  <2>3. MovesKnown'
    <3> SUFFICES ASSUME NEW i \in DOMAIN log, log[i].kind = "move"
                 PROVE  lead'[log[i].lead] # Null
      BY <1>1 DEF MovesKnown
    <3>1. lead[log[i].lead] # Null
      BY DEF History, MovesKnown
    <3>2. log[i].lead \in FunnelLeads
      <4>1. log[i] \in Logged
        BY <1>0, FunnelTypes
      <4> QED BY <4>1 DEF Logged, N!Move, N!Rename
    <3> QED BY <1>4, <3>1, <3>2
  <2>4. ASSUME NEW l \in Staying'
        PROVE  /\ l \in Staying /\ l \in FunnelLeads /\ lead'[l].pipeline = lead[l].pipeline
               /\ lead'[l].status = lead[l].status /\ lead[l].pipeline \in settled'
    <3>1. l \in FunnelLeads /\ l \notin crossed /\ lead'[l] # Null /\ lead'[l].pipeline \in settled'
      BY <1>1 DEF Staying
    <3>2. lead[l] # Null /\ lead[l].pipeline = lead'[l].pipeline /\ lead[l].pipeline \in settled
      BY <1>6, <3>1
    <3> QED BY <1>4, <3>1, <3>2 DEF Staying
  <2>5. VisitsTold'
    <3> SUFFICES ASSUME NEW l \in Staying', NEW s \in visited[l], stage'[s] # Null
                 PROVE  Tells(l, stage[s].name)'
      BY <1>1 DEF VisitsTold
    <3>1. s \in FunnelStages
      BY <1>0, <2>4 DEF FunnelTyped
    <3>2. stage[s] # Null /\ stage'[s].name = stage[s].name
      BY <1>3, <3>1
    <3>3. Tells(l, stage[s].name)
      BY <2>4, <3>2 DEF History, VisitsTold
    <3> QED BY <1>1, <2>4, <3>2, <3>3 DEF Tells
  <2>6. ToldVisits'
    <3> SUFFICES ASSUME NEW l \in Staying', NEW i \in MovesOf(log, l), NEW e \in Ends(log[i])
                 PROVE  ToldFor(l, CalledNow(log, e, i, lead[l].pipeline))'
      BY <1>1 DEF ToldVisits
    <3> DEFINE d == lead[l].pipeline
               n == CalledNow(log, e, i, d)
    <3>1. ToldFor(l, n)
      BY <2>4 DEF History, ToldVisits
    <3>2. /\ \A x : <<d, x>> \in vacated' <=> <<d, x>> \in vacated
          /\ Standing(d)' = Standing(d)
      BY <1>6, <2>4
    <3> DEFINE told == \/ <<d, n>> \in vacated'
                       \/ \E s \in Standing(d)' : stage'[s].name = n /\ (s \in visited[l] \/ stage'[s].reused)
    <3>3. told => ToldFor(l, CalledNow(log, e, i, lead[l].pipeline))'
      <4>1. CalledNow(log, e, i, lead[l].pipeline)' = n
        BY <1>1, <2>4
      <4>2. lead'[l].pipeline = d /\ Standing(lead[l].pipeline)' = Standing(d)'
        BY <2>4
      <4>3. visited' = visited
        BY <1>1
      <4> HIDE DEF n, d
      <4> QED BY <4>1, <4>2, <4>3 DEF ToldFor
    <3> HIDE DEF n
    <3>4. told
      <4>1. ASSUME NEW s \in Standing(d), stage[s].name = n, s \in visited[l] \/ stage[s].reused
            PROVE  told
        BY <1>3, <3>2, <4>1 DEF Standing
      <4> QED BY <3>1, <3>2, <4>1 DEF ToldFor
    <3> QED BY <3>3, <3>4
  <2> QED BY <2>1, <2>2, <2>3, <2>5, <2>6 DEF History
<1> QED BY <1>0, <1>1, <1>5, <1>7, <1>8, <1>9, NamesChangeTypes

\* a new lead,
LEMMA createLeadKeeps ==
  ASSUME FunnelIInv, ~N!Done, NEW k \in FunnelLeads, NEW z \in FunnelStages, N!createLead(k, z)
  PROVE  FunnelIInv'
<1> USE DEF FunnelIInv
<1> DEFINE b == stage[z].pipeline
           n == stage[z].name
<1>0. FunnelTyped
  OBVIOUS
<1>1. /\ lead[k] = Null /\ stage[z] # Null
      /\ lead' = [lead EXCEPT ![k] = [pipeline |-> b, status |-> n]]
      /\ visited' = [visited EXCEPT ![k] = {z}]
      /\ UNCHANGED <<boards, stage, log, report, crossed, settled, vacated>>
  BY DEF N!createLead
<1>2. z \in Standing(b) /\ b \in FunnelBoards /\ n \in Labels
  BY <1>0, <1>1, FunnelTypes DEF Standing
<1>3. /\ lead'[k] = [pipeline |-> b, status |-> n] /\ lead'[k] \in N!LeadRow /\ lead'[k] # Null
      /\ visited'[k] = {z}
      /\ \A l \in FunnelLeads : l # k => lead'[l] = lead[l] /\ visited'[l] = visited[l]
  <2>1. [pipeline |-> b, status |-> n] \in N!LeadRow
    BY <1>2 DEF N!LeadRow
  <2>2. DOMAIN lead = FunnelLeads /\ DOMAIN visited = FunnelLeads
    BY <1>0, FunnelTypes DEF FunnelTyped
  <2> QED BY <1>0, <1>1, <2>1, <2>2, FunnelTypes
<1>4. FunnelTyped'
  <2>1. lead' \in [FunnelLeads -> N!LeadRow \cup {Null}]
    BY <1>0, <1>1, <1>3, FunnelTypes
  <2> QED BY <1>0, <1>1, <2>1 DEF FunnelTyped, N!TypeOK
<1>5. \A c : Standing(c)' = Standing(c)
  BY <1>1 DEF Standing
<1>6. NamesDiffer' /\ Remembered'
  BY <1>1, <1>5 DEF NamesDiffer, Remembered
<1>7. MovesOf(log, k) = {}
  BY <1>1 DEF MovesOf, History, MovesKnown
<1>8. History'
  <2>1. InStage'
    <3> SUFFICES ASSUME NEW l \in FunnelLeads, lead'[l] # Null, lead'[l].pipeline \in settled
                 PROVE  \E s \in visited'[l] \cap Standing(lead[l].pipeline)' : stage[s].name = lead'[l].status
      BY <1>1 DEF InStage
    <3>1. CASE l = k
      BY <1>2, <1>3, <1>5, <3>1
    <3>2. CASE l # k
      BY <1>3, <1>5, <3>2 DEF History, InStage
    <3> QED BY <3>1, <3>2
  <2>2. OnBoard'
    <3> SUFFICES ASSUME NEW l \in FunnelLeads \ crossed, NEW s \in visited'[l]
                 PROVE  lead'[l] # Null /\ (stage[s] # Null => stage[s].pipeline = lead'[l].pipeline)
      BY <1>1 DEF OnBoard
    <3>1. CASE l = k
      BY <1>3, <3>1
    <3>2. CASE l # k
      BY <1>3, <3>2 DEF History, OnBoard
    <3> QED BY <3>1, <3>2
  <2>3. MovesKnown'
    BY <1>1 DEF History, MovesKnown
  <2>4. VisitsTold'
    <3> SUFFICES ASSUME NEW l \in Staying', NEW s \in visited'[l], stage[s] # Null
                 PROVE  Tells(l, stage[s].name)'
      BY <1>1 DEF VisitsTold
    <3>1. CASE l = k
      BY <1>1, <1>3, <3>1 DEF Tells
    <3>2. CASE l # k
      <4>1. l \in Staying /\ lead'[l] = lead[l] /\ visited'[l] = visited[l]
        BY <1>1, <1>3, <3>2 DEF Staying
      <4>2. Tells(l, stage[s].name)
        BY <4>1 DEF History, VisitsTold
      <4> QED BY <1>1, <4>1, <4>2 DEF Tells
    <3> QED BY <3>1, <3>2
  <2>5. ToldVisits'
    <3> SUFFICES ASSUME NEW l \in Staying', NEW i \in MovesOf(log, l), NEW e \in Ends(log[i])
                 PROVE  ToldFor(l, CalledNow(log, e, i, lead[l].pipeline))'
      BY <1>1 DEF ToldVisits
    <3>1. l # k
      BY <1>7
    <3>2. l \in Staying /\ lead'[l] = lead[l] /\ visited'[l] = visited[l]
      BY <1>1, <1>3, <3>1 DEF Staying
    <3>3. ToldFor(l, CalledNow(log, e, i, lead[l].pipeline))
      BY <3>2 DEF History, ToldVisits
    <3> QED BY <1>1, <1>5, <3>2, <3>3 DEF ToldFor
  <2> QED BY <2>1, <2>2, <2>3, <2>4, <2>5 DEF History
<1>9. ReportRead'
  BY <1>1, <1>5 DEF ReportRead, N!Done
<1> QED BY <1>4, <1>6, <1>8, <1>9

\* A move, within the board or to another.
LEMMA MoveLeadKeeps ==
  ASSUME FunnelIInv, ~N!Done, NEW k \in FunnelLeads, NEW z \in FunnelStages,
         lead[k] # Null, stage[z] # Null, N!Enter(k, z),
         UNCHANGED <<boards, stage, report, settled, vacated>>,
         \/ /\ crossed' = crossed /\ lead[k].pipeline = stage[z].pipeline
            /\ lead[k].status # stage[z].name
         \/ crossed' = crossed \cup {k}
  PROVE  FunnelIInv'
<1> USE DEF FunnelIInv
<1> DEFINE b == stage[z].pipeline
           n == stage[z].name
           old == lead[k].status
           ev == [kind |-> "move", lead |-> k, from |-> old, to |-> n]
           u == Len(log) + 1
<1>0. FunnelTyped
  OBVIOUS
<1>1. /\ lead' = [lead EXCEPT ![k] = [pipeline |-> b, status |-> n]]
      /\ visited' = [visited EXCEPT ![k] = visited[k] \cup {z}]
      /\ IF n = old THEN log' = log ELSE Len(log) < MaxEvents /\ log' = Append(log, ev)
  BY DEF N!Enter, N!Record
<1>2. z \in Standing(b) /\ b \in FunnelBoards /\ n \in Labels /\ old \in Labels
  BY <1>0, FunnelTypes DEF Standing
<1>3. /\ lead'[k] = [pipeline |-> b, status |-> n] /\ lead'[k] \in N!LeadRow /\ lead'[k] # Null
      /\ visited'[k] = visited[k] \cup {z}
      /\ \A l \in FunnelLeads : l # k => lead'[l] = lead[l] /\ visited'[l] = visited[l]
  <2>1. [pipeline |-> b, status |-> n] \in N!LeadRow
    BY <1>2 DEF N!LeadRow
  <2>2. DOMAIN lead = FunnelLeads /\ DOMAIN visited = FunnelLeads
    BY <1>0, FunnelTypes DEF FunnelTyped
  <2> QED BY <1>0, <1>1, <2>1, <2>2, FunnelTypes
<1>4. /\ ev \in Logged /\ ev.kind = "move" /\ ev.kind # "rename" /\ ev.lead = k
      /\ ev.from = old /\ ev.to = n
  BY <1>2 DEF Logged, N!Move
<1>5. log \in Seq(Logged) /\ MaxEvents \in Nat
  BY <1>0, FunnelTypes, ReadsConstants DEF N!ShippedAssumption
<1> HIDE DEF ev
<1>6. FunnelTyped'
  <2>1. lead' \in [FunnelLeads -> N!LeadRow \cup {Null}]
    BY <1>0, <1>1, <1>3, FunnelTypes
  <2>2. log' \in Seq(N!Move \cup N!Rename) /\ Len(log') <= MaxEvents
    <3>1. CASE n = old
      BY <1>0, <1>1, <3>1 DEF FunnelTyped, N!TypeOK
    <3>2. CASE n # old
      <4>1. Append(log, ev) \in Seq(Logged) /\ Len(Append(log, ev)) = Len(log) + 1
        BY <1>4, <1>5
      <4> QED BY <1>1, <1>5, <3>2, <4>1 DEF Logged
    <3> QED BY <3>1, <3>2
  <2>3. visited' \in [FunnelLeads -> SUBSET FunnelStages]
    BY <1>0, <1>1 DEF FunnelTyped
  <2> QED BY <1>0, <2>1, <2>2, <2>3 DEF FunnelTyped, N!TypeOK
<1>7. \A c : Standing(c)' = Standing(c)
  BY DEF Standing
<1>8. NamesDiffer' /\ Remembered'
  BY <1>7 DEF NamesDiffer, Remembered
<1>9. /\ \A i \in DOMAIN log : i \in DOMAIN log' /\ log'[i] = log[i]
      /\ \A c : RenamesOf(log', c) = RenamesOf(log, c)
      /\ \A i \in DOMAIN log : \A e, c : CalledNow(log', e, i, c) = CalledNow(log, e, i, c)
      /\ \A l : l # k => MovesOf(log', l) = MovesOf(log, l)
      /\ \A l : MovesOf(log, l) \subseteq DOMAIN log
  <2>1. CASE n = old
    BY <1>1, <2>1 DEF MovesOf
  <2>2. CASE n # old
    <3>1. \A c : RenamesOf(Append(log, ev), c) = RenamesOf(log, c)
      BY <1>4, <1>5, RenamesStay
    <3>2. \A i \in DOMAIN log : \A e, c : CalledNow(Append(log, ev), e, i, c) = CalledNow(log, e, i, c)
      BY <1>4, <1>5, LogGrows
    <3>3. /\ \A l : MovesOf(log, l) \subseteq DOMAIN log
          /\ DOMAIN log \subseteq DOMAIN Append(log, ev)
          /\ \A i \in DOMAIN log : Append(log, ev)[i] = log[i]
          /\ \A l : l # k => MovesOf(Append(log, ev), l) = MovesOf(log, l)
      BY <1>4, <1>5, MovesGrow
    <3> QED BY <1>1, <2>2, <3>1, <3>2, <3>3
  <2> QED BY <2>1, <2>2
<1>10. n # old => /\ MovesOf(log', k) = MovesOf(log, k) \cup {u}
                  /\ u \in DOMAIN log' /\ log'[u] = ev
                  /\ \A e, c : CalledNow(log', e, u, c) = e
  <2> SUFFICES ASSUME n # old
               PROVE  /\ MovesOf(log', k) = MovesOf(log, k) \cup {u}
                      /\ u \in DOMAIN log' /\ log'[u] = ev
                      /\ \A e, c : CalledNow(log', e, u, c) = e
    OBVIOUS
  <2>1. log' = Append(log, ev)
    BY <1>1
  <2>2. MovesOf(log', k) = MovesOf(log, k) \cup {u} /\ log'[u] = ev
    BY <1>4, <1>5, <2>1, MovesGrow
  <2>3. u \in DOMAIN log'
    BY <2>2 DEF MovesOf
  <2>4. \A e, c : CalledNow(log', e, u, c) = e
    BY <1>4, <1>5, <2>1, LogAtFirst
  <2> QED BY <2>2, <2>3, <2>4
<1> HIDE DEF u
<1>11. ASSUME NEW l \in Staying'
       PROVE  /\ l \in Staying /\ l \in FunnelLeads
              /\ lead'[l].pipeline = lead[l].pipeline
              /\ l # k => lead'[l] = lead[l] /\ visited'[l] = visited[l] /\ MovesOf(log', l) = MovesOf(log, l)
              /\ l = k => n # old /\ lead[l].pipeline = b /\ lead'[l].status = n
  <2>1. l \in FunnelLeads /\ l \notin crossed' /\ lead'[l] # Null /\ lead'[l].pipeline \in settled
    BY DEF Staying
  <2>2. CASE l = k
    <3>1. crossed' = crossed /\ lead[k].pipeline = b /\ old # n
      BY <2>1, <2>2
    <3> QED BY <1>3, <2>1, <2>2, <3>1 DEF Staying
  <2>3. CASE l # k
    BY <1>3, <1>9, <2>1, <2>3 DEF Staying
  <2> QED BY <2>2, <2>3
<1>12. History'
  <2>1. InStage'
    <3> SUFFICES ASSUME NEW l \in FunnelLeads, lead'[l] # Null, lead'[l].pipeline \in settled
                 PROVE  \E s \in visited'[l] \cap Standing(lead[l].pipeline)' : stage[s].name = lead'[l].status
      BY DEF InStage
    <3>1. CASE l = k
      BY <1>2, <1>3, <1>7, <3>1
    <3>2. CASE l # k
      BY <1>3, <1>7, <3>2 DEF History, InStage
    <3> QED BY <3>1, <3>2
  <2>2. OnBoard'
    <3> SUFFICES ASSUME NEW l \in FunnelLeads \ crossed', NEW s \in visited'[l]
                 PROVE  lead'[l] # Null /\ (stage[s] # Null => stage[s].pipeline = lead'[l].pipeline)
      BY DEF OnBoard
    <3>1. CASE l = k
      <4>1. l \in FunnelLeads \ crossed /\ lead[k].pipeline = b /\ lead'[l].pipeline = b
        BY <1>3, <3>1
      <4>2. CASE s = z
        BY <1>3, <3>1, <4>1, <4>2
      <4>3. CASE s # z
        <5>1. s \in visited[k]
          BY <1>3, <3>1, <4>3
        <5> QED BY <1>3, <3>1, <4>1, <5>1 DEF History, OnBoard
      <4> QED BY <4>2, <4>3
    <3>2. CASE l # k
      <4>1. l \in FunnelLeads \ crossed
        BY <3>2
      <4> QED BY <1>3, <3>2, <4>1 DEF History, OnBoard
    <3> QED BY <3>1, <3>2
  <2>3. MovesKnown'
    <3> SUFFICES ASSUME NEW i \in DOMAIN log', log'[i].kind = "move"
                 PROVE  lead'[log'[i].lead] # Null
      BY DEF MovesKnown
    <3> DEFINE l == log'[i].lead
    <3>1. i \in MovesOf(log', l)
      BY DEF MovesOf
    <3>2. CASE l = k
      BY <1>3, <3>2
    <3>3. CASE l # k
      <4>1. i \in DOMAIN log /\ log'[i] = log[i]
        BY <1>9, <3>1, <3>3
      <4>2. lead[l] # Null
        BY <4>1 DEF History, MovesKnown
      <4>3. l \in FunnelLeads
        <5>1. log[i] \in Logged
          BY <1>5, <4>1
        <5> QED BY <4>1, <5>1 DEF Logged, N!Move, N!Rename
      <4> QED BY <1>3, <3>3, <4>2, <4>3
    <3> QED BY <3>2, <3>3
  <2>4. VisitsTold'
    <3> SUFFICES ASSUME NEW l \in Staying', NEW s \in visited'[l], stage[s] # Null
                 PROVE  Tells(l, stage[s].name)'
      BY DEF VisitsTold
    <3> DEFINE c == lead[l].pipeline
               m == stage[s].name
               tells == \/ m = lead'[l].status
                        \/ \E i \in MovesOf(log', l) : \E e \in Ends(log'[i]) : m = CalledNow(log', e, i, c)
    <3>1. tells => Tells(l, stage[s].name)'
      BY <1>11 DEF Tells
    <3>2. ASSUME NEW i \in MovesOf(log, l), NEW e \in Ends(log[i]), m = CalledNow(log, e, i, c)
          PROVE  tells
      <4>1. i \in MovesOf(log', l)
        BY <1>9, <1>10, <1>11
      <4>2. e \in Ends(log'[i]) /\ m = CalledNow(log', e, i, c)
        BY <1>9, <3>2
      <4> QED BY <4>1, <4>2
    <3>3. s \in visited[l] => m = lead[l].status \/ tells
      <4> SUFFICES ASSUME s \in visited[l] PROVE m = lead[l].status \/ tells
        OBVIOUS
      <4>1. Tells(l, m)
        BY <1>11 DEF History, VisitsTold
      <4> HIDE DEF tells
      <4> QED BY <3>2, <4>1 DEF Tells
    <3>4. CASE l = k
      <4>1. CASE s = z
        BY <1>11, <3>1, <3>4, <4>1
      <4>2. CASE s # z
        <5>1. s \in visited[l]
          BY <1>3, <3>4, <4>2
        <5>2. CASE m = lead[l].status
          <6>1. u \in MovesOf(log', l) /\ log'[u] = ev /\ CalledNow(log', old, u, c) = old
            BY <1>10, <1>11, <3>4
          <6>2. old \in Ends(log'[u]) /\ m = CalledNow(log', old, u, c)
            BY <1>4, <3>4, <5>2, <6>1 DEF Ends
          <6> QED BY <3>1, <6>1, <6>2
        <5> HIDE DEF tells
        <5> QED BY <3>1, <3>3, <5>1, <5>2
      <4> QED BY <4>1, <4>2
    <3>5. CASE l # k
      BY <1>11, <3>1, <3>3, <3>5
    <3> QED BY <3>4, <3>5
  <2>5. ToldVisits'
    <3> SUFFICES ASSUME NEW l \in Staying', NEW i \in MovesOf(log', l), NEW e \in Ends(log'[i])
                 PROVE  ToldFor(l, CalledNow(log, e, i, lead[l].pipeline))'
      BY DEF ToldVisits, Ends
    <3> DEFINE c == lead[l].pipeline
               w == CalledNow(log', e, i, c)
               told == \/ <<c, w>> \in vacated
                       \/ \E s \in Standing(c) : stage[s].name = w /\ (s \in visited'[l] \/ stage[s].reused)
    <3>1. told => ToldFor(l, CalledNow(log, e, i, lead[l].pipeline))'
      BY <1>7, <1>11 DEF ToldFor
    <3>2. visited[l] \subseteq visited'[l]
      BY <1>3, <1>11
    <3>3. CASE i \in MovesOf(log, l)
      <4>1. e \in Ends(log[i]) /\ w = CalledNow(log, e, i, c)
        BY <1>9, <3>3
      <4>2. ToldFor(l, w)
        BY <1>11, <3>3, <4>1 DEF History, ToldVisits
      <4> HIDE DEF w
      <4>3. told
        BY <3>2, <4>2 DEF ToldFor
      <4> QED BY <3>1, <4>3
    <3>4. CASE i \notin MovesOf(log, l)
      <4>1. l = k /\ i = u /\ c = b /\ n # old
        BY <1>10, <1>11, <3>4
      <4>2. w = e /\ (e = old \/ e = n)
        BY <1>4, <1>10, <4>1 DEF Ends
      <4> HIDE DEF w
      <4>3. CASE e = n
        <5>1. z \in visited'[l]
          BY <1>3, <4>1
        <5>2. told
          BY <1>2, <4>1, <4>2, <4>3, <5>1
        <5> QED BY <3>1, <5>2
      <4>4. CASE e = old
        <5>1. PICK s \in visited[k] \cap Standing(b) : stage[s].name = old
          BY <1>11, <4>1 DEF History, InStage, Staying
        <5>2. told
          BY <3>2, <4>1, <4>2, <4>4, <5>1
        <5> QED BY <3>1, <5>2
      <4> QED BY <4>2, <4>3, <4>4
    <3> QED BY <3>3, <3>4
  <2> QED BY <2>1, <2>2, <2>3, <2>4, <2>5 DEF History
<1>13. ReportRead'
  BY <1>7, <1>9 DEF ReportRead, N!Done
<1> QED BY <1>6, <1>8, <1>12, <1>13

\* and the report, which changes nothing.
LEMMA ReadKeeps ==
  ASSUME FunnelIInv, N!Read
  PROVE  FunnelIInv'
<1> USE DEF FunnelIInv
<1>0. FunnelTyped
  OBVIOUS
<1>1. UNCHANGED <<boards, stage, lead, log, visited, crossed, settled, vacated>>
  BY DEF N!Read
<1>2. NamesDiffer' /\ Remembered' /\ \A b : Standing(b)' = Standing(b)
  BY <1>1 DEF NamesDiffer, Remembered, Standing
<1>3. History'
  BY <1>1 DEF History, InStage, OnBoard, MovesKnown, VisitsTold, ToldVisits, Staying, Tells, ToldFor, Standing
<1>4. \A b : RenamesOf(log, b) \subseteq 1 .. MaxEvents
  <2>1. log \in Seq(Logged) /\ MaxEvents \in Nat /\ Len(log) <= MaxEvents
    BY <1>0, FunnelTypes, ReadsConstants DEF N!ShippedAssumption, FunnelTyped
  <2>2. DOMAIN log = 1 .. Len(log) /\ Len(log) \in Nat
    BY <2>1
  <2>3. DOMAIN log \subseteq 1 .. MaxEvents
    BY <2>1, <2>2
  <2> QED BY <2>3 DEF RenamesOf
<1>5. /\ \A l \in FunnelLeads : \A b : \A n \in Labels :
           n \in N!stagesOf(l, RenamesOf(log, b)) <=> n \in NamesOf(l, b)
      /\ \A b : N!renames(b) = RenamesOf(log, b)
  <2>1. ASSUME NEW l \in FunnelLeads, NEW b, NEW n \in Labels
        PROVE  n \in N!stagesOf(l, RenamesOf(log, b)) <=> n \in NamesOf(l, b)
    <3>1. n \in N!stagesOf(l, RenamesOf(log, b))
            <=> \/ n = lead[l].status
                \/ \E i \in MovesOf(log, l) : n \in {CalledNow(log, log[i].from, i, b), CalledNow(log, log[i].to, i, b)}
      BY NameNowIs DEF N!stagesOf, MovesOf, CalledNow
    <3> QED BY <3>1 DEF NamesOf, Ends
  <2> QED BY <2>1 DEF N!renames, RenamesOf
<1>6. report' \in N!Report \cup {Null} /\ ReportRead'
  <2>1. ASSUME NEW b \in boards, N!readStages(b)
        PROVE  report' \in N!Report \cup {Null} /\ ReportRead'
    <3>1. /\ report' = [step |-> "renames", pipeline |-> b, stages |-> N!On(b),
                names |-> [s \in FunnelStages |-> IF s \in N!On(b) THEN stage[s].name ELSE Null],
                renames |-> {}, counts |-> [n \in Labels |-> {}], of |-> {}, late |-> FALSE]
          /\ N!On(b) = Standing(b)
      BY <2>1 DEF N!readStages, N!On, Standing
    <3>2. /\ Standing(b) \subseteq FunnelStages /\ b \in FunnelBoards
          /\ [s \in FunnelStages |-> IF s \in N!On(b) THEN stage[s].name ELSE Null]
               \in [FunnelStages -> Labels \cup {Null}]
      BY <1>0, FunnelTypes DEF Standing, N!On, FunnelTyped, N!TypeOK
    <3>3. report' \in N!Report
      BY <3>1, <3>2 DEF N!Report
    <3>4. /\ report'.stages = Standing(b) /\ report'.pipeline = b /\ report'.step = "renames"
          /\ \A s \in report'.stages : report'.names[s] = stage[s].name
      BY <3>1, <3>2
    <3>5. ReportRead'
      BY <1>1, <1>2, <3>4 DEF ReportRead
    <3> QED BY <3>3, <3>5
  <2>2. ASSUME N!readRenames
        PROVE  report' \in N!Report \cup {Null} /\ ReportRead'
    <3>1. /\ report # Null /\ report.step = "renames" /\ report \in N!Report
          /\ report' = [report EXCEPT !.step = "leads", !.renames = RenamesOf(log, report.pipeline)]
      BY <1>0, <1>5, <2>2, FunnelTypes DEF N!readRenames
    <3>2. /\ report' \in N!Report /\ report'.step = "leads"
          /\ report'.renames = RenamesOf(log, report.pipeline) /\ report'.pipeline = report.pipeline
          /\ report'.stages = report.stages /\ report'.names = report.names /\ report'.late = report.late
      BY <1>4, <3>1 DEF N!Report
    <3>3. ReportRead'
      BY <1>1, <1>2, <3>1, <3>2 DEF ReportRead
    <3> QED BY <3>2, <3>3
  <2>3. ASSUME N!progression
        PROVE  report' \in N!Report \cup {Null} /\ ReportRead'
    <3> DEFINE b == report.pipeline
               of == N!LeadsOn(b)
               counts == [n \in Labels |-> {l \in of : n \in N!stagesOf(l, report.renames)}]
    <3>1. /\ report # Null /\ report.step = "leads" /\ report \in N!Report
          /\ report' = [report EXCEPT !.step = "done", !.of = of, !.counts = counts]
      BY <1>0, <2>3, FunnelTypes DEF N!progression
    <3>2. of \subseteq FunnelLeads /\ counts \in [Labels -> SUBSET FunnelLeads]
      BY DEF N!LeadsOn
    <3> HIDE DEF counts
    <3>3. /\ report' \in N!Report /\ report'.step = "done" /\ report'.of = of /\ report'.counts = counts
          /\ report'.renames = report.renames /\ report'.pipeline = b
          /\ report'.stages = report.stages /\ report'.names = report.names /\ report'.late = report.late
      BY <3>1, <3>2 DEF N!Report
    <3>4. ASSUME ~report.late
          PROVE  \A n \in Labels : counts[n] = {l \in of : n \in NamesOf(l, b)}
      <4>1. report.renames = RenamesOf(log, b)
        BY <3>1, <3>4 DEF ReportRead
      <4> QED BY <1>5, <3>2, <4>1 DEF counts
    <3>6. ReportRead'
      <4> SUFFICES ASSUME ~report.late
                   PROVE  /\ report'.stages = Standing(report.pipeline)'
                          /\ \A s \in report'.stages : report'.names[s] = stage[s].name
                          /\ report'.renames = RenamesOf(log, b)
                          /\ report'.of = N!LeadsOn(report.pipeline)'
                          /\ \A n \in Labels : report'.counts[n] = {l \in report'.of : n \in NamesOf(l, report.pipeline)'}
        BY <1>1, <3>3 DEF ReportRead
      <4>1. /\ report.stages = Standing(b) /\ \A s \in report.stages : report.names[s] = stage[s].name
            /\ report.renames = RenamesOf(log, b)
        BY <3>1 DEF ReportRead
      <4>2. N!LeadsOn(report.pipeline)' = of /\ \A l : NamesOf(l, report.pipeline)' = NamesOf(l, b)
        BY <1>1, <3>3 DEF N!LeadsOn, NamesOf
      <4>3. Standing(report.pipeline)' = Standing(b)
        BY <1>1, <3>3 DEF Standing
      <4> QED BY <3>3, <3>4, <4>1, <4>2, <4>3
    <3> QED BY <3>3, <3>6
  <2>4. ASSUME N!answered
        PROVE  report' \in N!Report \cup {Null} /\ ReportRead'
    BY <2>4 DEF N!answered, ReportRead
  <2> QED BY <2>1, <2>2, <2>3, <2>4 DEF N!Read
<1>7. FunnelTyped'
  BY <1>0, <1>1, <1>6 DEF FunnelTyped, N!TypeOK
<1> QED BY <1>2, <1>3, <1>6, <1>7

\* So every step of the funnel keeps it.
LEMMA FunnelStep ==
  ASSUME FunnelIInv, N!Next
  PROVE  FunnelIInv'
<1>0. FunnelIInv => boards \subseteq FunnelBoards
  BY DEF FunnelIInv, FunnelTyped, N!TypeOK
<1>1. CASE N!Read
  BY <1>1, ReadKeeps
<1>2. ASSUME NEW s \in FunnelStages, NEW n \in Labels, NEW b \in boards, N!createStage(s, b, n)
      PROVE  FunnelIInv'
  BY <1>2, createStageKeeps
<1>3. ASSUME NEW s \in FunnelStages, NEW n \in Labels, N!renameStage(s, n)
      PROVE  FunnelIInv'
  BY <1>3, renameStageKeeps
<1>4. ASSUME NEW s \in FunnelStages, N!removeStage(s)
      PROVE  FunnelIInv'
  BY <1>4, removeStageKeeps
<1>5. ASSUME NEW b \in FunnelBoards, NEW c \in FunnelBoards, N!renamePipeline(b, c)
      PROVE  FunnelIInv'
  BY <1>5, renamePipelineKeeps
<1>6. ASSUME ~N!Done, NEW l \in FunnelLeads, NEW s \in FunnelStages, N!createLead(l, s)
      PROVE  FunnelIInv'
  BY <1>6, createLeadKeeps
<1>7. ASSUME ~N!Done, NEW l \in FunnelLeads, NEW s \in FunnelStages, N!moveLead(l, s)
      PROVE  FunnelIInv'
  <2>1. /\ lead[l] # Null /\ stage[s] # Null /\ N!Enter(l, s)
        /\ UNCHANGED <<boards, stage, report, settled, vacated>>
        /\ crossed' = crossed /\ lead[l].pipeline = stage[s].pipeline
        /\ lead[l].status # stage[s].name
    BY <1>7 DEF N!moveLead
  <2> QED BY <1>7, <2>1, MoveLeadKeeps
<1>8. ASSUME ~N!Done, NEW l \in FunnelLeads, NEW s \in FunnelStages, N!changePipeline(l, s)
      PROVE  FunnelIInv'
  <2>1. /\ lead[l] # Null /\ stage[s] # Null /\ N!Enter(l, s)
        /\ UNCHANGED <<boards, stage, report, settled, vacated>>
        /\ crossed' = crossed \cup {l}
    BY <1>8 DEF N!changePipeline
  <2> QED BY <1>8, <2>1, MoveLeadKeeps
<1> QED BY <1>1, <1>2, <1>3, <1>4, <1>5, <1>6, <1>7, <1>8 DEF N!Next

\* The sales funnel counts in a stage exactly the leads that have been in it.
THEOREM FunnelCountsExactly == ReadsSpec => []FunnelExact
<1>1. ReadsInit => FunnelIInv
  BY FunnelInit DEF ReadsInit
<1>2. FunnelIInv /\ [ReadsNext]_allVars => FunnelIInv'
  <2> SUFFICES ASSUME FunnelIInv, [ReadsNext]_allVars PROVE FunnelIInv'
    OBVIOUS
  <2>1. CASE N!Next
    BY <2>1, FunnelStep
  <2>2. CASE UNCHANGED funnelVars
    <3>1. UNCHANGED <<boards, stage, lead, log, report, visited, crossed, settled, vacated>>
      BY <2>2 DEF funnelVars
    <3>2. FunnelTyped'
      BY <3>1 DEF FunnelIInv, FunnelTyped, N!TypeOK
    <3>3. NamesDiffer' /\ Remembered'
      BY <3>1 DEF FunnelIInv, NamesDiffer, Remembered, Standing
    <3>4. History'
      BY <3>1 DEF FunnelIInv, History, InStage, OnBoard, MovesKnown, VisitsTold, ToldVisits, Staying,
           Tells, ToldFor, Standing
    <3>5. ReportRead'
      BY <3>1 DEF FunnelIInv, ReportRead, Standing, N!LeadsOn, NamesOf
    <3> QED BY <3>2, <3>3, <3>4, <3>5 DEF FunnelIInv
  <2> QED BY <2>1, <2>2 DEF ReadsNext, allVars, funnelVars
<1>3. FunnelIInv => FunnelExact
  BY FunnelIsExact
<1> QED BY <1>1, <1>2, <1>3, PTL DEF ReadsSpec

==============================================================================
