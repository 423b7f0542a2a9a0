------------------------------- MODULE Access -------------------------------
(***************************************************************************)
(* Every request on its way to a handler: the check of its origin, the     *)
(* guard that reads the account behind its cookie (src/src/auth), the      *)
(* guard that compares roles, and the pipelines that are closed to the     *)
(* caller (src/src/pipelines/pipeline-access.ts); meanwhile the account    *)
(* and the grants may change.                                              *)
(***************************************************************************)
EXTENDS Routes, FiniteSets

CONSTANTS Absent,
          Given,       \* the roles the member may be given
          Teams, Boards,
          Asked,       \* the routes he calls
          MaxChanges   \* bound: changes of his account and his grants

-----------------------------------------------------------------------------
(* Requests. *)

VARIABLES member,    \* the member's account, with the pipelines that are closed to him
          minting,   \* the claims of a token being signed for him, Absent: none is
          cookie,    \* the claims of his access token, Absent: none, or it has expired
          request,   \* his request under way or just answered
          changes,   \* how often his account has changed
          was        \* history: what the account has been while the request was under way

accessVars == <<member, minting, cookie, request, changes, was>>

Claims == [role : Given, team : Teams \cup {Absent}]
Member == [role : Given, team : Teams \cup {Absent}, active : BOOLEAN, live : BOOLEAN,
           closed : SUBSET Boards]
SentBy == {Absent, "app", "foreign"}
RequestSteps == {"arrived", "authenticate", "authorise", "handle", "served", "refused"}
Request == [route : Asked, origin : SentBy, step : RequestSteps, cookie : Claims \cup {Absent},
            user : Claims \cup {Absent}, resolved : (SUBSET Boards) \cup {Absent},
            answers : SUBSET SUBSET Boards]

AbsentIsNoRow == Absent \notin Claims \cup Request /\ \A closed \in SUBSET Boards : closed # Absent

RequestsTyped ==
  /\ member \in Member
  /\ minting \in Claims \cup {Absent} /\ cookie \in Claims \cup {Absent}
  /\ request \in Request \cup {Absent}
  /\ was \subseteq Member

AccessInit ==
  /\ member \in [role : Given, team : Teams, active : {TRUE}, live : {TRUE}, closed : {{}}]
  /\ minting = Absent /\ cookie = Absent /\ request = Absent /\ changes = 0
  /\ was = {member}

Over == request # Absent => request.step \in {"served", "refused"}

\* An administrator edits the account, deactivates or removes it, or changes the grants.
Change(next) ==
  /\ changes < MaxChanges /\ member.live /\ next # member
  /\ member' = next /\ changes' = changes + 1
  /\ was' = IF Over THEN was ELSE was \cup {next}
  /\ UNCHANGED <<minting, cookie, request>>

ChangeMember ==
  \/ \E role \in Given : Change([member EXCEPT !.role = role])
  \/ \E team \in Teams \cup {Absent} : Change([member EXCEPT !.team = team])
  \/ \E active \in BOOLEAN : Change([member EXCEPT !.active = active])
  \/ Change([member EXCEPT !.live = FALSE])
  \/ \E closed \in SUBSET Boards : Change([member EXCEPT !.closed = closed])

\* Login and refresh read the account, and sign what they read a few statements later.
Mint ==
  /\ minting = Absent /\ member.active /\ member.live
  /\ minting' = [role |-> member.role, team |-> member.team]
  /\ UNCHANGED <<member, cookie, request, changes, was>>

SignAccessToken ==
  /\ minting # Absent
  /\ cookie' = minting /\ minting' = Absent
  /\ UNCHANGED <<member, request, changes, was>>

TokenExpires ==
  /\ cookie # Absent
  /\ cookie' = Absent
  /\ UNCHANGED <<member, minting, request, changes, was>>

\* A page of the app, a page of another site, or no page at all.
Send(route, origin) ==
  /\ Over
  /\ request' = [route |-> route, origin |-> origin, step |-> "arrived", cookie |-> cookie,
                 user |-> Absent, resolved |-> Absent, answers |-> {}]
  /\ was' = {member}
  /\ UNCHANGED <<member, minting, cookie, changes>>

Reached(step) == request # Absent /\ request.step = step
Goes(step) == request' = [request EXCEPT !.step = step]
Kept == UNCHANGED <<member, minting, cookie, changes, was>>

rejectForeignOrigins ==
  /\ Reached("arrived") /\ Kept
  /\ Goes(IF request.route.verb = "GET" \/ request.origin # "foreign" THEN "authenticate"
          ELSE "refused")

\* Mutant: a token that has not expired is enough.
MatchesNothing(claims) == TRUE

\* The account as it is now is the one the token tells.
MatchesAccount(claims) ==
  member.active /\ member.live /\ member.role = claims.role /\ member.team = claims.team

JwtAuthGuard ==
  /\ Reached("authenticate") /\ Kept
  /\ request' =
       IF request.route.roles = Public THEN [request EXCEPT !.step = "authorise"]
       ELSE IF request.cookie # Absent /\ MatchesAccount(request.cookie)
         THEN [request EXCEPT !.step = "authorise", !.user = request.cookie]
         ELSE [request EXCEPT !.step = "refused"]

RolesGuard ==
  /\ Reached("authorise") /\ Kept
  /\ Goes(IF request.route.roles = Public \/ Admits(request.route, request.user.role) THEN "handle"
          ELSE "refused")

Exempt(role) == role = "SUPERADMIN" \/ role \in OPERATIONAL_ROLES

\* The grants are read once in a request, when a service first asks who is calling.
resolve ==
  /\ Reached("handle") /\ request.user # Absent /\ Kept
  /\ LET read == IF Exempt(request.user.role) THEN {} ELSE member.closed
         told == IF request.resolved = Absent THEN read ELSE request.resolved
     IN request' = [request EXCEPT !.resolved = told, !.answers = @ \cup {told}]

Serve == Reached("handle") /\ Kept /\ Goes("served")

AccessNext ==
  \/ ChangeMember \/ Mint \/ SignAccessToken \/ TokenExpires
  \/ \E route \in Asked, origin \in SentBy : Send(route, origin)
  \/ rejectForeignOrigins \/ JwtAuthGuard \/ RolesGuard \/ resolve \/ Serve

AccessSpec == AccessInit /\ [][AccessNext]_accessVars

-----------------------------------------------------------------------------
(* Properties. *)

\* What is served to a member, his account allowed at some time since he asked, whatever his
\* token says and whatever changed meanwhile: a deactivation, a role, a team or a grant applies
\* from the next request.  All that a request is told of the closed pipelines is one answer.
\* Another site's page changes nothing.
ServedAsAllowed ==
  Reached("served") =>
    /\ request.user # Absent =>
         /\ \E a \in was : /\ a.active /\ a.live /\ Admits(request.route, a.role)
                           /\ a.role = request.user.role /\ a.team = request.user.team
         /\ Cardinality(request.answers) <= 1
         /\ \A closed \in request.answers :
              IF Exempt(request.user.role) THEN closed = {} ELSE \E a \in was : closed = a.closed
    /\ request.user = Absent => request.route.roles = Public
    /\ request.origin = "foreign" => request.route.verb = "GET"

=============================================================================
