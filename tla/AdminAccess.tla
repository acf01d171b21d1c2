----------------------------- MODULE AdminAccess -----------------------------
(***************************************************************************)
(* Who may do what in the admin web: users, roles and bindings in the      *)
(* admin tables, the /setup page and the setup command, and the path of a  *)
(* request through Session, the cached hydrator and RequireScope to its    *)
(* handler.  All gated routes ask for one permission of platform scope, so *)
(* a role either grants it or does not, and every binding is a platform    *)
(* one: no route makes another.  Statements are steps of their own.        *)
(***************************************************************************)
EXTENDS Integers, FiniteSets

CONSTANTS
  Users,      \* emails that can have a row in admin_users
  Roles, Root,  \* roles, and the builtin one of the superadmin
  Callers,    \* requests handled at the same time
  CacheTTL,   \* ticks an entry of the hydrator's cache is good for
  Slow        \* ticks a request takes at most from Session to its handler

ASSUME AccessAssumption ==
  /\ Root \in Roles /\ CacheTTL \in Nat \ {0} /\ Slow \in Nat

VARIABLES
  status,     \* of each user: none, invited, active or disabled
  signedIn,   \* users with a session; nothing ends it when their status changes
  bindings,   \* roles each user is bound to
  granting,   \* roles that grant the permission
  cache,      \* principals kept by CachedPrincipalHydrator
  call        \* what each request is at

accessVars == <<status, signedIn, bindings, granting, cache, call>>

\* A principal: whether it has a binding of the platform, whether one of its
\* roles grants the permission, and, for the properties, how many ticks ago
\* the bindings were read.
Nobody    == [platform |-> FALSE, permitted |-> FALSE, read |-> 0]
Uncached  == [left |-> 0, who |-> Nobody]
NoCall    == [at |-> "nothing"]

AccessTypeOK ==
  /\ status \in [Users -> {"none", "invited", "active", "disabled"}]
  /\ signedIn \subseteq Users
  /\ bindings \in [Users -> SUBSET Roles] /\ granting \subseteq Roles
  /\ cache \in [Users ->
       [left : 0 .. CacheTTL,
        who  : [platform : BOOLEAN, permitted : BOOLEAN, read : Nat]]]

AccessInit ==
  /\ status = [u \in Users |-> "none"]
  /\ signedIn = {}
  /\ bindings = [u \in Users |-> {}] /\ granting = {Root}
  /\ cache = [u \in Users |-> Uncached]
  /\ call = [c \in Callers |-> NoCall]

-----------------------------------------------------------------------------
(* The admin tables.                                                       *)

\* Insert: the email is unique.
InsertUser(u, st) ==
  /\ status[u] = "none"
  /\ status' = [status EXCEPT ![u] = st]

BindRole(u, r) == bindings' = [bindings EXCEPT ![u] = @ \cup {r}]

\* SetPermissions deletes the rows of the role and inserts the new ones.
SetGrant(r, yes) ==
  granting' = IF yes THEN granting \cup {r} ELSE granting \ {r}

\* adminExists of the /setup handler counts the active users.
AdminExists == \E u \in Users : status[u] = "active"

-----------------------------------------------------------------------------
(* The first administrator: POST /setup and the setup command.             *)

Goes(c, at)    == call' = [call EXCEPT ![c].at = at]
Returns(c)     == call' = [call EXCEPT ![c] = NoCall]
CallAt(c, at)  == call[c].at = at

\* The form is valid; the count and the insert are two statements, and the
\* hash of the password is computed between them.
SetupPost(c, u) ==
  /\ CallAt(c, "nothing") /\ ~AdminExists
  /\ call' = [call EXCEPT ![c] = [at |-> "setup", user |-> u]]
  /\ UNCHANGED <<status, signedIn, bindings, granting, cache>>

\* User and binding are inserted in one transaction.
SetupCommit(c) ==
  /\ CallAt(c, "setup")
  /\ \/ InsertUser(call[c].user, "active") /\ BindRole(call[c].user, Root)
     \/ UNCHANGED <<status, bindings>>
  /\ Returns(c)
  /\ UNCHANGED <<signedIn, granting, cache>>

\* runSetup: nothing to do when the email has a user.
RunSetup(c, u) ==
  /\ CallAt(c, "nothing")
  /\ InsertUser(u, "active")
  /\ call' = [call EXCEPT ![c] = [at |-> "cli", user |-> u]]
  /\ UNCHANGED <<signedIn, bindings, granting, cache>>

\* The role is a second statement, without a transaction.  It fails: the command
\* passes the name of the role, and the column holds its UUID.
RunSetupRole(c) ==
  /\ CallAt(c, "cli")
  /\ Returns(c)
  /\ UNCHANGED <<status, signedIn, bindings, granting, cache>>

SignIn(u) ==
  /\ status[u] = "active" /\ u \notin signedIn
  /\ signedIn' = signedIn \cup {u}
  /\ UNCHANGED <<status, bindings, granting, cache, call>>

-----------------------------------------------------------------------------
(* Session, hydrator and RequireScope.                                     *)

\* A form is let through when its token is the one of the cookie.
CsrfPasses(form) == form = "same token"

\* Mutant: a hit gives the entry another TTL.
HitSlides(u) ==
  cache' = IF cache[u].left > 0 THEN [cache EXCEPT ![u].left = CacheTTL] ELSE cache

\* A hit only reads the cache.
Hit(u) == cache' = cache

\* Session finds the session of u; a hit of the cache is the principal.
Request(c, u, form) ==
  /\ CallAt(c, "nothing") /\ u \in signedIn
  /\ CsrfPasses(form)
  /\ call' = [call EXCEPT ![c] =
       [at  |-> IF cache[u].left > 0 THEN "scope?" ELSE "bindings",
        user |-> u, who |-> cache[u].who, todo |-> {}, age |-> 0]]
  /\ Hit(u)
  /\ UNCHANGED <<status, signedIn, bindings, granting>>

\* ListByUser; when it fails the principal stays without permissions.
ListByUser(c) ==
  /\ CallAt(c, "bindings")
  /\ \/ LET roles == bindings[call[c].user] IN
        call' = [call EXCEPT ![c] =
          [@ EXCEPT !.at = "roles", !.todo = roles,
                    !.who = [platform |-> roles # {}, permitted |-> FALSE,
                             read |-> 0]]]
     \/ call' = [call EXCEPT ![c].at = "scope?", ![c].who = Nobody]
  /\ UNCHANGED <<status, signedIn, bindings, granting, cache>>

\* What a principal may do with one role more; a role that fails is skipped.
WithRole(who, r, found) ==
  [who EXCEPT !.permitted = @ \/ (found /\ r \in granting)]

\* GetByID of one role after the other.
GetRole(c) ==
  /\ CallAt(c, "roles")
  /\ \E r \in call[c].todo, found \in BOOLEAN :
       call' = [call EXCEPT ![c] =
         [call[c] EXCEPT !.todo = @ \ {r}, !.who = WithRole(@, r, found)]]
  /\ UNCHANGED <<status, signedIn, bindings, granting, cache>>

Kept(who) == [left |-> CacheTTL, who |-> who]

FillCache(c) ==
  /\ CallAt(c, "roles") /\ call[c].todo = {}
  /\ cache' = [cache EXCEPT ![call[c].user] = Kept(call[c].who)]
  /\ Goes(c, "scope?")
  /\ UNCHANGED <<status, signedIn, bindings, granting>>

\* Evaluate for the platform scope: the permission, and a platform binding.
Evaluate(who) == who.permitted /\ who.platform

RequireScope(c) ==
  /\ CallAt(c, "scope?")
  /\ IF Evaluate(call[c].who) THEN Goes(c, "handle") ELSE Returns(c)
  /\ UNCHANGED <<status, signedIn, bindings, granting, cache>>

-----------------------------------------------------------------------------
(* The handlers.  The audit row is written after the change and its error  *)
(* ignored; it changes nothing here.                                       *)

Handling(c) == CallAt(c, "handle") /\ Returns(c)

\* handleUserCreate and Invite: the error of the role is ignored.
Invite(c, u, r) ==
  /\ Handling(c)
  /\ \/ InsertUser(u, "invited") /\ (BindRole(u, r) \/ UNCHANGED bindings)
     \/ status[u] # "none" /\ UNCHANGED <<status, bindings>>
  /\ UNCHANGED <<signedIn, granting, cache>>

\* handleUserStatus: nobody changes his own.
SetStatus(c, u, st) ==
  /\ Handling(c)
  /\ IF u = call[c].user \/ status[u] = "none"
     THEN UNCHANGED status
     ELSE status' = [status EXCEPT ![u] = st]
  /\ UNCHANGED <<signedIn, bindings, granting, cache>>

\* handleRolePermissions: a builtin role is protected.
SetPermissions(c, r, yes) ==
  /\ Handling(c)
  /\ IF r = Root THEN UNCHANGED granting ELSE SetGrant(r, yes)
  /\ UNCHANGED <<status, signedIn, bindings, cache>>

-----------------------------------------------------------------------------
OlderCall(q) ==
  IF "age" \in DOMAIN q THEN [q EXCEPT !.age = @ + 1, !.who.read = @ + 1] ELSE q

OlderEntry(x) ==
  IF x.left <= 1 THEN Uncached ELSE [x EXCEPT !.left = @ - 1, !.who.read = @ + 1]

\* The clock.  The deadlines of the server bound the time of a request.
AccessTick ==
  /\ \A c \in Callers : "age" \in DOMAIN call[c] => call[c].age < Slow
  /\ call'  = [c \in Callers |-> OlderCall(call[c])]
  /\ cache' = [u \in Users |-> OlderEntry(cache[u])]
  /\ UNCHANGED <<status, signedIn, bindings, granting>>

AccessNext ==
  \/ \E c \in Callers :
       \/ \E u \in Users :
            \/ SetupPost(c, u) \/ RunSetup(c, u)
            \/ \E form \in {"same token", "another token"} : Request(c, u, form)
            \/ \E r \in Roles : Invite(c, u, r)
            \/ \E st \in {"active", "disabled"} : SetStatus(c, u, st)
       \/ \E r \in Roles, yes \in BOOLEAN : SetPermissions(c, r, yes)
       \/ SetupCommit(c) \/ RunSetupRole(c) \/ ListByUser(c) \/ GetRole(c)
       \/ FillCache(c) \/ RequireScope(c)
  \/ \E u \in Users : SignIn(u)
  \/ AccessTick

AccessSpec == AccessInit /\ [][AccessNext]_accessVars

-----------------------------------------------------------------------------
(* Properties.                                                             *)

\* What a handler relies on was read from the tables no longer ago than the
\* TTL of the cache and the time of two requests: the one that read it and the
\* one that found it.  A revocation takes effect within that time though
\* nothing invalidates the cache, which is filled outside its lock.
RevocationTakesEffect ==
  \A c \in Callers : CallAt(c, "handle") => call[c].who.read < 2 * Slow + CacheTTL

=============================================================================
