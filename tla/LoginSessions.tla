---------------------------- MODULE LoginSessions ----------------------------
(***************************************************************************)
(* Logging in to the admin web: handlers_auth.go and usecase/auth with the *)
(* lockout tracker, the limiter of login requests, the session store and   *)
(* the store of OIDC states.  Trackers and stores lock per call, so a      *)
(* request is a sequence of such calls, interleaved with those of others.  *)
(* Every instant is kept as the ticks left until it, which LoginTick counts *)
(* down; hashing, cookies and pages are left out.                          *)
(***************************************************************************)
EXTENDS Integers, FiniteSets

CONSTANTS
  Emails,      \* normalised emails that are tried
  Kind,        \* of each: a "local" user, an "oidc" user, or "none"
  Requests,    \* requests handled at the same time
  Sessions,    \* bound: session ids ever drawn
  MaxFails, LockWindow, SessionTTL, StateTTL, Burst

ASSUME LoginAssumption ==
  /\ IsFiniteSet(Requests)
  /\ Kind \in [Emails -> {"local", "oidc", "none"}]
  /\ MaxFails \in Nat \ {0} /\ LockWindow \in Nat /\ SessionTTL \in Nat \ {0}
  /\ StateTTL \in Nat \ {0} /\ Burst \in Nat \ {0}

VARIABLES
  failures,   \* bucket of each email in the tracker
  tokens,     \* what the limiter has left for the one address
  active,     \* emails whose user is active
  store,      \* the session behind each id, and how long the store keeps it
  oidc,       \* ticks left to the one OIDC state, 0 if there is none
  req,        \* what each request is at
  drawn,      \* history: session ids drawn so far, none of them twice
  loggedOut,  \* history: ids that a logout deleted
  raced       \* history: of those, the ones a request had read and not yet saved

loginVars ==
  <<failures, tokens, active, store, oidc, req, drawn, loggedOut, raced>>

NoBucket  == [count |-> 0, left |-> 0]
NoSession == [expires |-> -1, until |-> -1]
Session   == [expires : -1 .. SessionTTL, until : 0 .. SessionTTL]
Waiting   == [at |-> "nothing"]

LoginTypeOK ==
  /\ failures \in [Emails -> [count : Nat, left : 0 .. LockWindow]]
  /\ tokens \in 0 .. Burst /\ oidc \in 0 .. StateTTL
  /\ active \subseteq Emails
  /\ store \in [Sessions -> Session \cup {NoSession}]
  /\ loggedOut \subseteq drawn /\ raced \subseteq loggedOut /\ drawn \subseteq Sessions

LoginInit ==
  /\ failures = [e \in Emails |-> NoBucket]
  /\ tokens = Burst /\ oidc = 0
  /\ active = Emails
  /\ store = [s \in Sessions |-> NoSession]
  /\ req = [r \in Requests |-> Waiting]
  /\ drawn = {} /\ loggedOut = {} /\ raced = {}

-----------------------------------------------------------------------------
(* The tracker.  A bucket whose window is over counts for nothing, whether *)
(* IsLockedOut has deleted it or not: here it is gone with the window.     *)

\* Mutant: the comparison that lets one failure more through.
LockedLate(b) == b.count > MaxFails

\* IsLockedOut.
Locked(b) == b.count >= MaxFails

\* RecordFailure: a window starts with its first failure.
Failed(b) == IF b.count > 0 THEN [b EXCEPT !.count = @ + 1]
                            ELSE [count |-> 1, left |-> LockWindow]

-----------------------------------------------------------------------------
(* handleLoginPOST and LoginLocal.                                         *)

At(r, at) == req[r].at = at
To(r, at) == req' = [req EXCEPT ![r].at = at]
End(r)    == req' = [req EXCEPT ![r] = Waiting]

\* Allow takes one token of the address; the limiter gains one a tick.
Allow    == tokens > 0 /\ tokens' = tokens - 1
Refilled == IF tokens < Burst THEN tokens + 1 ELSE tokens

LoginPost(r, e) ==
  /\ At(r, "nothing") /\ Allow
  /\ req' = [req EXCEPT ![r] = [at |-> "locked?", email |-> e]]
  /\ UNCHANGED <<failures, active, store, oidc, drawn, loggedOut, raced>>

\* The password that confirms a reset of a tenant: LoginLocal again, for a request
\* that passes no limiter of logins.  The session that it opens goes nowhere.
ConfirmPassword(r, e) ==
  /\ At(r, "nothing")
  /\ req' = [req EXCEPT ![r] = [at |-> "locked?", email |-> e]]
  /\ UNCHANGED <<failures, tokens, active, store, oidc, drawn, loggedOut, raced>>

IsLockedOut(r) ==
  /\ At(r, "locked?")
  /\ IF Locked(failures[req[r].email]) THEN End(r) ELSE To(r, "verify")
  /\ UNCHANGED <<failures, tokens, active, store, oidc, drawn, loggedOut, raced>>

\* GetByEmail and Verify: an unknown email fails like a wrong password; the
\* users of the identity provider are refused without being counted.
Verify(r) ==
  LET e == req[r].email IN
  /\ At(r, "verify")
  /\ \/ Kind[e] \in {"local", "none"} /\ To(r, "failed")
     \/ Kind[e] = "oidc" /\ End(r)
     \/ Kind[e] = "local" /\ e \in active /\ To(r, "success")
     \/ Kind[e] = "local" /\ e \notin active /\ End(r)
  /\ UNCHANGED <<failures, tokens, active, store, oidc, drawn, loggedOut, raced>>

RecordFailure(r) ==
  /\ At(r, "failed")
  /\ failures' = [failures EXCEPT ![req[r].email] = Failed(@)]
  /\ End(r)
  /\ UNCHANGED <<tokens, active, store, oidc, drawn, loggedOut, raced>>

RecordSuccess(r) ==
  /\ At(r, "success")
  /\ failures' = [failures EXCEPT ![req[r].email] = NoBucket]
  /\ To(r, "complete")
  /\ UNCHANGED <<tokens, active, store, oidc, drawn, loggedOut, raced>>

\* completeLogin: a session under an id drawn at random.
CompleteLogin(r) ==
  /\ At(r, "complete")
  /\ \E s \in Sessions \ drawn :
       /\ drawn' = drawn \cup {s}
       /\ store' = [store EXCEPT ![s] = [expires |-> SessionTTL, until |-> SessionTTL]]
  /\ IF "state" \in DOMAIN req[r] THEN To(r, "delete state") ELSE End(r)
  /\ UNCHANGED <<failures, tokens, active, oidc, loggedOut, raced>>

\* UpdateLastLogin, or what follows it, fails: no session, and a state of OIDC
\* is left where it is.
CompleteLoginFails(r) ==
  /\ At(r, "complete")
  /\ End(r)
  /\ UNCHANGED <<failures, tokens, active, store, oidc, drawn, loggedOut, raced>>

-----------------------------------------------------------------------------
(* OIDC: StartOIDC keeps a state; the callback loads it, exchanges its     *)
(* code, and deletes it once the login is complete.                        *)

StartOIDC(r) ==
  /\ At(r, "nothing")
  /\ oidc' = StateTTL
  /\ UNCHANGED <<failures, tokens, active, store, req, drawn, loggedOut, raced>>

LoadState(r, e) ==
  /\ At(r, "nothing") /\ Kind[e] = "oidc" /\ oidc > 0
  /\ req' = [req EXCEPT ![r] = [at |-> "exchange", email |-> e, state |-> TRUE]]
  /\ UNCHANGED <<failures, tokens, active, store, oidc, drawn, loggedOut, raced>>

\* LoginOIDC: the provider may refuse the code or the token.
LoginOIDC(r) ==
  /\ At(r, "exchange")
  /\ \/ req[r].email \in active /\ To(r, "complete")
     \/ End(r)
  /\ UNCHANGED <<failures, tokens, active, store, oidc, drawn, loggedOut, raced>>

DeleteState(r) ==
  /\ At(r, "delete state")
  /\ oidc' = 0
  /\ End(r)
  /\ UNCHANGED <<failures, tokens, active, store, drawn, loggedOut, raced>>

-----------------------------------------------------------------------------
(* Sessions: Resolve of the middleware, Logout and the reaper.             *)

\* Get of the store under its read lock; an expired entry is deleted under
\* the write lock later.
SessionGet(r, s, for) ==
  /\ At(r, "nothing") /\ store[s] # NoSession
  /\ req' = [req EXCEPT ![r] =
       [at |-> IF store[s].until = 0 THEN "delete" ELSE for,
        sid |-> s, expires |-> store[s].expires]]
  /\ UNCHANGED <<failures, tokens, active, store, oidc, drawn, loggedOut, raced>>

SessionDelete(r) ==
  /\ At(r, "delete")
  /\ store' = [store EXCEPT ![req[r].sid] = NoSession]
  /\ End(r)
  /\ UNCHANGED <<failures, tokens, active, oidc, drawn, loggedOut, raced>>

\* Resolve: the absolute end of the session is asked first, then the session
\* is saved again for a whole TTL.
Resolve(r) ==
  /\ At(r, "resolve")
  /\ To(r, IF req[r].expires < 0 THEN "delete" ELSE "save")
  /\ UNCHANGED <<failures, tokens, active, store, oidc, drawn, loggedOut, raced>>

SessionSave(r) ==
  /\ At(r, "save")
  /\ store' = [store EXCEPT ![req[r].sid] =
                 [expires |-> req[r].expires, until |-> SessionTTL]]
  /\ End(r)
  /\ UNCHANGED <<failures, tokens, active, oidc, drawn, loggedOut, raced>>

Reading(s) == {r \in Requests : req[r].at \in {"resolve", "save"} /\ req[r].sid = s}

\* Mutant: only the cookie is cleared.
ForgottenNothing(s) == store

Forgotten(s) == [store EXCEPT ![s] = NoSession]

Logout(r) ==
  /\ At(r, "logout")
  /\ LET s == req[r].sid IN
     /\ store' = Forgotten(s)
     /\ loggedOut' = loggedOut \cup {s}
     /\ raced' = IF Reading(s) # {} THEN raced \cup {s} ELSE raced
  /\ End(r)
  /\ UNCHANGED <<failures, tokens, active, oidc, drawn>>

\* Mutant: the sweep takes an entry in its last tick.
SweptEarly(s) == store[s].until \in {0, 1}

Swept(s) == store[s].until = 0

\* reapOnce also drops OIDC states that are over; LoadState does not give
\* them away either.
ReapOnce ==
  /\ \E s \in Sessions : Swept(s)
  /\ store' = [s \in Sessions |-> IF Swept(s) THEN NoSession ELSE store[s]]
  /\ UNCHANGED <<failures, tokens, active, oidc, req, drawn, loggedOut, raced>>

-----------------------------------------------------------------------------
Less(n, least) == IF n > least THEN n - 1 ELSE n

AgedBucket(b) == IF b.left = 0 THEN NoBucket ELSE [b EXCEPT !.left = @ - 1]
AgedEntry(x)  == IF x = NoSession THEN x
                 ELSE [expires |-> Less(x.expires, -1), until |-> Less(x.until, 0)]
AgedRead(q)   == IF "expires" \in DOMAIN q THEN [q EXCEPT !.expires = Less(@, -1)] ELSE q

\* The clock.
LoginTick ==
  /\ failures' = [e \in Emails |-> AgedBucket(failures[e])]
  /\ tokens' = Refilled
  /\ store' = [s \in Sessions |-> AgedEntry(store[s])]
  /\ oidc' = Less(oidc, 0)
  /\ req' = [r \in Requests |-> AgedRead(req[r])]
  /\ UNCHANGED <<active, drawn, loggedOut, raced>>

\* SetStatus of the users' administration.
Deactivate(e) ==
  /\ e \in active
  /\ active' = active \ {e}
  /\ UNCHANGED <<failures, tokens, store, oidc, req, drawn, loggedOut, raced>>

LoginNext ==
  \/ \E r \in Requests :
       \/ \E e \in Emails : LoginPost(r, e) \/ ConfirmPassword(r, e) \/ LoadState(r, e)
       \/ IsLockedOut(r) \/ Verify(r) \/ RecordFailure(r) \/ RecordSuccess(r)
       \/ CompleteLogin(r) \/ CompleteLoginFails(r) \/ StartOIDC(r) \/ LoginOIDC(r) \/ DeleteState(r)
       \/ \E s \in Sessions, for \in {"resolve", "logout"} : SessionGet(r, s, for)
       \/ SessionDelete(r) \/ Resolve(r) \/ SessionSave(r) \/ Logout(r)
  \/ ReapOnce \/ LoginTick
  \/ \E e \in Emails : Deactivate(e)

LoginSpec == LoginInit /\ [][LoginNext]_loginVars

-----------------------------------------------------------------------------
(* Properties.                                                             *)

\* In one window at most MaxFails - 1 passwords of an email are found wrong,
\* and one more for every request that passed IsLockedOut before they were
\* counted: check, verification and count are three steps.
Trying(e) == {r \in Requests : req[r].at \in {"verify", "failed"} /\ req[r].email = e}
GuessesAreBounded ==
  \A e \in Emails : failures[e].count > 0 =>
    failures[e].count + Cardinality(Trying(e)) <= MaxFails - 1 + Cardinality(Requests)

\* A session that was logged out is gone for good, unless a request had read it
\* and not yet saved it again when the logout deleted it.
LogoutHolds == \A s \in loggedOut \ raced : store[s] = NoSession

\* Until its ExpiresAt a session is only ever dropped by a logout: the stale
\* reads behind the deletions of Get and Resolve do no harm, because the store
\* never gives an entry up before the session in it is over.
LiveSessionIsKept ==
  [][\A s \in Sessions :
       store[s].expires > 0 /\ store'[s] = NoSession => s \in loggedOut']_loginVars
=============================================================================
