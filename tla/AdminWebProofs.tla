---------------------------- MODULE AdminWebProofs ----------------------------
(***************************************************************************)
(* Proofs about the admin web: LoginSessions, for any emails, requests,    *)
(* sessions and durations, and AdminAccess, for any users, roles, requests *)
(* and lifetime of a cached principal.                                     *)
(***************************************************************************)
EXTENDS LoginSessions, AdminAccess, FiniteSetTheorems, TLAPS

-----------------------------------------------------------------------------
(* LoginSessions.                                                          *)

\* What a request is at: a password, the callback of the provider, a session.
Guessing  == [at : {"locked?", "verify", "failed", "success", "complete"}, email : Emails]
Returning == [at : {"exchange", "complete", "delete state"}, email : Emails, state : {TRUE}]
Holding   == [at : {"delete", "resolve", "save", "logout"}, sid : Sessions,
              expires : -1 .. SessionTTL]

ReqState  == {Waiting} \cup Guessing \cup Returning \cup Holding

LoginTyped == LoginTypeOK /\ req \in [Requests -> ReqState]

Holds(r) == req[r] \in Holding

\* An id in the store or in the hands of a request was drawn.
HeldWasDrawn ==
  /\ \A s \in Sessions : store[s] # NoSession => s \in drawn
  /\ \A r \in Requests : Holds(r) => req[r].sid \in drawn

\* The store keeps an entry at least until its session is over.
KeptLongEnough == \A s \in Sessions : store[s].expires <= store[s].until

\* All who hold a session hold the ExpiresAt that the store has, if it has any.
OneExpiry ==
  /\ \A r \in Requests : Holds(r) /\ store[req[r].sid] # NoSession
       => req[r].expires = store[req[r].sid].expires
  /\ \A r, q \in Requests : Holds(r) /\ Holds(q) /\ req[r].sid = req[q].sid
       => req[r].expires = req[q].expires

\* A request is about to delete only what is over.
DeletesTheOver ==
  \A r \in Requests : Holds(r) /\ req[r].at = "delete" => req[r].expires <= 0

\* Nobody who could save it again holds a session that a logout deleted.
LoggedOutForGood ==
  \A s \in loggedOut \ raced : store[s] = NoSession /\ Reading(s) = {}

SessionInv ==
  /\ LoginTyped /\ HeldWasDrawn /\ KeptLongEnough /\ OneExpiry
  /\ DeletesTheOver /\ LoggedOutForGood

LoginInv == SessionInv /\ GuessesAreBounded

\* The states of a request, by where it is.
LEMMA LoginStates ==
  ASSUME LoginTyped, NEW r \in Requests
  PROVE  /\ req[r] \in ReqState
         /\ req[r].at \in {"locked?", "verify", "failed", "success"} => req[r] \in Guessing
         /\ req[r].at = "complete" => req[r] \in Guessing \cup Returning
         /\ req[r].at \in {"exchange", "delete state"} => req[r] \in Returning
         /\ req[r].at \in {"delete", "resolve", "save", "logout"} => req[r] \in Holding
<1>1. req[r] \in ReqState
  BY DEF LoginTyped
<1>2. CASE req[r] = Waiting
  BY <1>1, <1>2 DEF Waiting
<1>3. CASE req[r] \in Guessing
  BY <1>1, <1>3 DEF Guessing
<1>4. CASE req[r] \in Returning
  BY <1>1, <1>4 DEF Returning
<1>5. CASE req[r] \in Holding
  BY <1>1, <1>5 DEF Holding
<1> QED BY <1>1, <1>2, <1>3, <1>4, <1>5 DEF ReqState

LEMMA LoginFacts ==
  ASSUME LoginTyped
  PROVE  /\ failures \in [Emails -> [count : Nat, left : 0 .. LockWindow]]
         /\ tokens \in 0 .. Burst /\ oidc \in 0 .. StateTTL /\ active \subseteq Emails
         /\ store \in [Sessions -> Session \cup {NoSession}]
         /\ loggedOut \subseteq drawn /\ raced \subseteq loggedOut /\ drawn \subseteq Sessions
         /\ req \in [Requests -> ReqState]
BY DEF LoginTyped, LoginTypeOK

\* Who is at "resolve" or "save" holds a session, and nobody who waits or tries
\* to log in does.
LEMMA HoldingStates ==
  /\ \A q \in Guessing \cup Returning :
       q.at \notin {"nothing", "delete", "resolve", "save", "logout"} /\ q \notin Holding
  /\ \A q \in ReqState : q.at \in {"delete", "resolve", "save", "logout"} <=> q \in Holding
<1>1. \A q \in Guessing : q.at \in {"locked?", "verify", "failed", "success", "complete"}
  BY DEF Guessing
<1>2. \A q \in Returning : q.at \in {"exchange", "complete", "delete state"}
  BY DEF Returning
<1>3. \A q \in Holding : q.at \in {"delete", "resolve", "save", "logout"}
  BY DEF Holding
<1>4. Waiting.at = "nothing"
  BY DEF Waiting
<1> QED BY <1>1, <1>2, <1>3, <1>4 DEF ReqState

\* Waiting holds no session.
LEMMA WaitingState == Waiting \in ReqState /\ Waiting \notin Holding /\ Waiting.at = "nothing"
BY DEF ReqState, Waiting, Holding

\* A step of a request that leaves the store and the logouts alone, and lets it
\* hold no session afterwards.
LEMMA ReleaseStep ==
  ASSUME SessionInv, NEW r \in Requests, NEW q \in ReqState, q \notin Holding,
         req' = [req EXCEPT ![r] = q],
         failures' \in [Emails -> [count : Nat, left : 0 .. LockWindow]],
         tokens' \in 0 .. Burst, oidc' \in 0 .. StateTTL, active' \subseteq Emails,
         UNCHANGED <<store, drawn, loggedOut, raced>>
  PROVE  SessionInv'
<1>1. \A p \in Requests : Holds(p)' => Holds(p) /\ req'[p] = req[p]
  BY LoginFacts DEF SessionInv, Holds
<1>2. LoginTyped'
  BY LoginFacts DEF SessionInv, LoginTyped, LoginTypeOK
<1>3. HeldWasDrawn' /\ KeptLongEnough' /\ DeletesTheOver'
  BY <1>1 DEF SessionInv, HeldWasDrawn, KeptLongEnough, DeletesTheOver
<1>4. OneExpiry'
  BY <1>1 DEF SessionInv, OneExpiry
<1>5. LoggedOutForGood'
  <2>1. ASSUME NEW s \in Sessions, NEW p \in Requests, p \in Reading(s)'
        PROVE  p \in Reading(s)
    <3>1. req'[p].at \in {"resolve", "save"} /\ req'[p].sid = s
      BY <2>1 DEF Reading
    <3>2. req'[p] = req[p] \/ req'[p] = q
      BY LoginFacts DEF SessionInv
    <3>3. q.at \notin {"resolve", "save"}
      BY HoldingStates
    <3> QED BY <3>1, <3>2, <3>3 DEF Reading
  <2>2. \A s \in Sessions : Reading(s) = {} => Reading(s)' = {}
    BY <2>1 DEF Reading
  <2> QED BY <2>2, LoginFacts DEF SessionInv, LoggedOutForGood
<1> QED BY <1>2, <1>3, <1>4, <1>5 DEF SessionInv

LEMMA InitLoginInv == LoginInit => LoginInv
<1> SUFFICES ASSUME LoginInit PROVE LoginInv
  OBVIOUS
<1> USE LoginAssumption DEF LoginAssumption, LoginInit
<1>1. LoginTyped
  BY DEF LoginTyped, LoginTypeOK, ReqState, NoBucket, NoSession
<1>2. \A r \in Requests : ~Holds(r) /\ req[r].at = "nothing"
  BY WaitingState DEF Holds
<1>3. HeldWasDrawn /\ KeptLongEnough /\ OneExpiry /\ DeletesTheOver /\ LoggedOutForGood
  BY <1>2 DEF HeldWasDrawn, KeptLongEnough, OneExpiry, DeletesTheOver, LoggedOutForGood,
     NoSession
<1>4. GuessesAreBounded
  BY DEF GuessesAreBounded, NoBucket
<1> QED BY <1>1, <1>3, <1>4 DEF LoginInv, SessionInv

\* A request takes a session, or goes on with the one it holds: it has the
\* ExpiresAt of the store and of all others who hold it.
LEMMA HoldStep ==
  ASSUME SessionInv, NEW r \in Requests, NEW q \in Holding,
         req' = [req EXCEPT ![r] = q],
         q.sid \in drawn,
         store[q.sid] # NoSession => q.expires = store[q.sid].expires,
         \A p \in Requests : Holds(p) /\ req[p].sid = q.sid => req[p].expires = q.expires,
         q.at = "delete" => q.expires <= 0,
         q.at \in {"resolve", "save"} => q.sid \notin loggedOut \ raced,
         UNCHANGED <<failures, tokens, active, oidc, store, drawn, loggedOut, raced>>
  PROVE  SessionInv'
<1>1. q \in ReqState /\ \A p \in Requests : req'[p] = IF p = r THEN q ELSE req[p]
  BY LoginFacts DEF SessionInv, ReqState
<1>2. LoginTyped'
  BY <1>1, LoginFacts DEF SessionInv, LoginTyped, LoginTypeOK
<1>3. HeldWasDrawn' /\ KeptLongEnough' /\ DeletesTheOver'
  BY <1>1 DEF SessionInv, HeldWasDrawn, KeptLongEnough, DeletesTheOver, Holds
<1>4. OneExpiry'
  BY <1>1 DEF SessionInv, OneExpiry, Holds
<1>5. LoggedOutForGood'
  BY <1>1, LoginFacts DEF SessionInv, LoggedOutForGood, Reading
<1> QED BY <1>2, <1>3, <1>4, <1>5 DEF SessionInv

\* Get, and Resolve that goes on to save or to delete what it read.
LEMMA SessionReadKeeps ==
  ASSUME SessionInv, NEW r \in Requests,
         \/ \E s \in Sessions, for \in {"resolve", "logout"} : SessionGet(r, s, for)
         \/ Resolve(r)
  PROVE  SessionInv'
<1>1. ASSUME NEW s \in Sessions, NEW for \in {"resolve", "logout"}, SessionGet(r, s, for)
      PROVE  SessionInv'
  <2> DEFINE at == IF store[s].until = 0 THEN "delete" ELSE for
             q  == [at |-> at, sid |-> s, expires |-> store[s].expires]
  <2>1. store[s] # NoSession /\ req' = [req EXCEPT ![r] = q]
        /\ UNCHANGED <<failures, tokens, active, store, oidc, drawn, loggedOut, raced>>
    BY <1>1 DEF SessionGet
  <2>2. store[s] \in Session
    BY <2>1, LoginFacts DEF SessionInv
  <2>3. q \in Holding
    BY <2>2 DEF Holding, Session
  <2>4. s \in drawn /\ s \notin loggedOut \ raced
    BY <2>1 DEF SessionInv, HeldWasDrawn, LoggedOutForGood
  <2>5. \A p \in Requests : Holds(p) /\ req[p].sid = s => req[p].expires = store[s].expires
    BY <2>1 DEF SessionInv, OneExpiry
  <2>6. at = "delete" => store[s].expires <= 0
    BY <2>2 DEF SessionInv, KeptLongEnough, Session
  <2> HIDE DEF at
  <2> QED BY <2>1, <2>3, <2>4, <2>5, <2>6, HoldStep
<1>2. CASE Resolve(r)
  <2> DEFINE at == IF req[r].expires < 0 THEN "delete" ELSE "save"
             q  == [req[r] EXCEPT !.at = at]
  <2>1. req[r] \in Holding /\ req[r].at = "resolve"
    BY <1>2, LoginStates DEF SessionInv, Resolve, At
  <2>2. req' = [req EXCEPT ![r] = q]
        /\ UNCHANGED <<failures, tokens, active, store, oidc, drawn, loggedOut, raced>>
    BY <1>2 DEF Resolve, To
  <2>3. q \in Holding /\ q.sid = req[r].sid /\ q.expires = req[r].expires /\ q.at = at
    BY <2>1 DEF Holding
  <2>4. q.sid \in drawn /\ q.sid \in Sessions
    BY <2>1, <2>3 DEF SessionInv, HeldWasDrawn, Holds, Holding
  <2>5. /\ store[q.sid] # NoSession => q.expires = store[q.sid].expires
        /\ \A p \in Requests : Holds(p) /\ req[p].sid = q.sid => req[p].expires = q.expires
    BY <2>1, <2>3 DEF SessionInv, OneExpiry, Holds
  <2>6. q.at = "delete" => q.expires <= 0
    BY <2>1, <2>3 DEF Holding
  <2>7. q.sid \notin loggedOut \ raced
    <3>1. r \in Reading(req[r].sid)
      BY <2>1 DEF Reading
    <3> QED BY <2>3, <3>1 DEF SessionInv, LoggedOutForGood
  <2> HIDE DEF q
  <2> QED BY <2>2, <2>3, <2>4, <2>5, <2>6, <2>7, HoldStep
<1> QED BY <1>1, <1>2

\* Some entries are dropped, and a request that held a session may end.
LEMMA DropStep ==
  ASSUME SessionInv, NEW gone \in SUBSET Sessions,
         store' = [s \in Sessions |-> IF s \in gone THEN NoSession ELSE store[s]],
         req' = req \/ \E r \in Requests : req' = [req EXCEPT ![r] = Waiting],
         UNCHANGED <<failures, tokens, active, oidc, drawn>>,
         loggedOut' \subseteq drawn, raced' \subseteq loggedOut', loggedOut \subseteq loggedOut',
         \A s \in loggedOut' \ raced' : s \in loggedOut \ raced \/ (s \in gone /\ Reading(s) = {})
  PROVE  SessionInv'
<1>1. \A p \in Requests : req'[p] = req[p] \/ req'[p] = Waiting
  BY LoginFacts DEF SessionInv
<1>2. \A p \in Requests : Holds(p)' => Holds(p) /\ req'[p] = req[p]
  BY <1>1, WaitingState DEF Holds
<1>3. \A s \in Sessions : store'[s] # NoSession => store'[s] = store[s]
  OBVIOUS
<1>4. LoginTyped'
  <2>1. store' \in [Sessions -> Session \cup {NoSession}]
    BY LoginFacts DEF SessionInv
  <2>2. req' \in [Requests -> ReqState]
    BY LoginFacts, WaitingState DEF SessionInv
  <2> QED BY <2>1, <2>2, LoginFacts DEF SessionInv, LoginTyped, LoginTypeOK
<1>5. HeldWasDrawn'
  BY <1>2, <1>3 DEF SessionInv, HeldWasDrawn
<1>6. KeptLongEnough'
  <2>1. NoSession.expires <= NoSession.until
    BY DEF NoSession
  <2> QED BY <1>3, <2>1 DEF SessionInv, KeptLongEnough
<1>7. OneExpiry' /\ DeletesTheOver'
  <2>1. \A p \in Requests : Holds(p) => req[p].sid \in Sessions
    BY DEF Holds, Holding
  <2> QED BY <1>2, <1>3, <2>1 DEF SessionInv, OneExpiry, DeletesTheOver
<1>8. LoggedOutForGood'
  <2>1. \A s \in Sessions : Reading(s) = {} => Reading(s)' = {}
    BY <1>1, WaitingState DEF Reading
  <2> QED BY <1>3, <2>1, LoginFacts DEF SessionInv, LoggedOutForGood
<1> QED BY <1>4, <1>5, <1>6, <1>7, <1>8 DEF SessionInv

\* The deletions: of Get and of Resolve, of a logout, and of the reaper.
LEMMA SessionDropKeeps ==
  ASSUME SessionInv,
         ReapOnce \/ \E r \in Requests : SessionDelete(r) \/ Logout(r)
  PROVE  SessionInv'
<1>1. CASE ReapOnce
  <2> DEFINE gone == {s \in Sessions : Swept(s)}
  <2>1. store' = [s \in Sessions |-> IF s \in gone THEN NoSession ELSE store[s]]
    BY <1>1 DEF ReapOnce
  <2> HIDE DEF gone
  <2>2. gone \in SUBSET Sessions
    BY DEF gone
  <2>3. UNCHANGED <<failures, tokens, active, oidc, req, drawn, loggedOut, raced>>
    BY <1>1 DEF ReapOnce
  <2>4. loggedOut' \subseteq drawn /\ raced' \subseteq loggedOut' /\ loggedOut \subseteq loggedOut'
    BY <2>3, LoginFacts DEF SessionInv
  <2>5. \A s \in loggedOut' \ raced' : s \in loggedOut \ raced \/ (s \in gone /\ Reading(s) = {})
    BY <2>3
  <2> QED BY <2>1, <2>2, <2>3, <2>4, <2>5, DropStep
<1>2. ASSUME NEW r \in Requests, SessionDelete(r) \/ Logout(r)
      PROVE  SessionInv'
  <2>1. req[r] \in Holding
    BY <1>2, LoginStates DEF SessionInv, SessionDelete, Logout, At
  <2> DEFINE s == req[r].sid
  <2>2. s \in Sessions /\ s \in drawn
    BY <2>1 DEF Holding, SessionInv, HeldWasDrawn, Holds
  <2>3. store' = [store EXCEPT ![s] = NoSession] /\ req' = [req EXCEPT ![r] = Waiting]
    BY <1>2 DEF SessionDelete, Logout, Forgotten, End
  <2>4. store' = [t \in Sessions |-> IF t \in {s} THEN NoSession ELSE store[t]]
    BY <2>2, <2>3, LoginFacts DEF SessionInv
  <2>5. UNCHANGED <<failures, tokens, active, oidc, drawn>>
    BY <1>2 DEF SessionDelete, Logout
  <2>6. \/ UNCHANGED <<loggedOut, raced>>
        \/ /\ loggedOut' = loggedOut \cup {s}
           /\ raced' = IF Reading(s) # {} THEN raced \cup {s} ELSE raced
    BY <1>2 DEF SessionDelete, Logout
  <2> HIDE DEF s
  <2>7. loggedOut' \subseteq drawn /\ raced' \subseteq loggedOut' /\ loggedOut \subseteq loggedOut'
    BY <2>2, <2>6, LoginFacts DEF SessionInv
  <2>8. ASSUME NEW t \in loggedOut' \ raced'
        PROVE  t \in loggedOut \ raced \/ (t \in {s} /\ Reading(t) = {})
    <3>1. CASE t = s
      BY <2>6, <3>1
    <3>2. CASE t # s
      BY <2>6, <3>2
    <3> QED BY <3>1, <3>2
  <2>9. {s} \in SUBSET Sessions
    BY <2>2
  <2> QED BY <2>3, <2>4, <2>5, <2>7, <2>8, <2>9, DropStep
<1> QED BY <1>1, <1>2

\* Save: what was read comes back, with its ExpiresAt and a whole TTL.
LEMMA SessionSaveKeeps ==
  ASSUME SessionInv, NEW r \in Requests, SessionSave(r)
  PROVE  SessionInv'
<1>1. req[r] \in Holding /\ req[r].at = "save"
  BY LoginStates DEF SessionInv, SessionSave, At
<1> DEFINE s == req[r].sid
           x == [expires |-> req[r].expires, until |-> SessionTTL]
<1>2. s \in Sessions /\ s \in drawn /\ req[r].expires \in -1 .. SessionTTL
  BY <1>1 DEF Holding, SessionInv, HeldWasDrawn, Holds
<1>3. store' = [store EXCEPT ![s] = x] /\ req' = [req EXCEPT ![r] = Waiting]
      /\ UNCHANGED <<failures, tokens, active, oidc, drawn, loggedOut, raced>>
  BY DEF SessionSave, End
<1>4. x \in Session /\ x.expires = req[r].expires /\ x.expires <= x.until
  BY <1>2, LoginAssumption DEF Session, LoginAssumption
<1>5. \A t \in Sessions : store'[t] = IF t = s THEN x ELSE store[t]
  BY <1>2, <1>3, LoginFacts DEF SessionInv
<1> HIDE DEF x
<1>6. \A p \in Requests : req'[p] = IF p = r THEN Waiting ELSE req[p]
  BY <1>3, LoginFacts DEF SessionInv
<1>7. \A p \in Requests : Holds(p)' => Holds(p) /\ req'[p] = req[p] /\ req[p].sid \in Sessions
  BY <1>6, WaitingState DEF Holds, Holding
<1>8. LoginTyped'
  <2>1. store' \in [Sessions -> Session \cup {NoSession}]
    BY <1>3, <1>4, LoginFacts DEF SessionInv
  <2>2. req' \in [Requests -> ReqState]
    BY <1>3, LoginFacts, WaitingState DEF SessionInv
  <2> QED BY <1>3, <2>1, <2>2, LoginFacts DEF SessionInv, LoginTyped, LoginTypeOK
<1>9. HeldWasDrawn'
  BY <1>2, <1>3, <1>5, <1>7 DEF SessionInv, HeldWasDrawn
<1>10. KeptLongEnough'
  BY <1>4, <1>5 DEF SessionInv, KeptLongEnough
<1>11. OneExpiry'
  <2>1. Holds(r)
    BY <1>1 DEF Holds
  <2>2. \A p \in Requests : Holds(p) /\ req[p].sid = s => req[p].expires = x.expires
    BY <1>4, <2>1 DEF SessionInv, OneExpiry
  <2> QED BY <1>5, <1>7, <2>2 DEF SessionInv, OneExpiry
<1>12. DeletesTheOver'
  BY <1>7 DEF SessionInv, DeletesTheOver
<1>13. LoggedOutForGood'
  <2>1. r \in Reading(s)
    BY <1>1 DEF Reading
  <2>2. s \notin loggedOut \ raced
    BY <2>1 DEF SessionInv, LoggedOutForGood
  <2>3. \A t \in Sessions : Reading(t) = {} => Reading(t)' = {}
    BY <1>6, WaitingState DEF Reading
  <2> QED BY <1>3, <1>5, <2>2, <2>3, LoginFacts DEF SessionInv, LoggedOutForGood
<1> QED BY <1>8, <1>9, <1>10, <1>11, <1>12, <1>13 DEF SessionInv

\* completeLogin: a new id is in nobody's hands.
LEMMA CompleteLoginKeeps ==
  ASSUME SessionInv, NEW r \in Requests, CompleteLogin(r)
  PROVE  SessionInv'
<1> DEFINE x == [expires |-> SessionTTL, until |-> SessionTTL]
<1>1. PICK s \in Sessions \ drawn : drawn' = drawn \cup {s} /\ store' = [store EXCEPT ![s] = x]
  BY DEF CompleteLogin
<1>2. x \in Session /\ x.expires <= x.until
  BY LoginAssumption DEF Session, LoginAssumption
<1> HIDE DEF x
<1>3. UNCHANGED <<failures, tokens, active, oidc, loggedOut, raced>>
  BY DEF CompleteLogin
<1>4. PICK q \in ReqState : q \notin Holding /\ req' = [req EXCEPT ![r] = q]
  <2>1. req[r] \in Guessing \cup Returning /\ req[r].at = "complete"
    BY LoginStates DEF SessionInv, CompleteLogin, At
  <2>2. CASE "state" \in DOMAIN req[r]
    <3>1. req[r] \in Returning
      BY <2>1, <2>2 DEF Guessing
    <3> DEFINE n == [req[r] EXCEPT !.at = "delete state"]
    <3>2. n \in Returning
      BY <3>1 DEF Returning
    <3> QED BY <2>2, <3>2, HoldingStates DEF CompleteLogin, To, ReqState
  <2>3. CASE "state" \notin DOMAIN req[r]
    BY <2>3, WaitingState DEF CompleteLogin, End
  <2> QED BY <2>2, <2>3
<1>5. \A t \in Sessions : store'[t] = IF t = s THEN x ELSE store[t]
  BY <1>1, LoginFacts DEF SessionInv
<1>6. \A p \in Requests : req'[p] = IF p = r THEN q ELSE req[p]
  BY <1>4, LoginFacts DEF SessionInv
<1>7. \A p \in Requests : Holds(p)' => Holds(p) /\ req'[p] = req[p] /\ req[p].sid \in drawn
  BY <1>4, <1>6 DEF Holds, SessionInv, HeldWasDrawn
<1>8. LoginTyped'
  <2>1. store' \in [Sessions -> Session \cup {NoSession}]
    BY <1>1, <1>2, LoginFacts DEF SessionInv
  <2>2. req' \in [Requests -> ReqState]
    BY <1>4, LoginFacts DEF SessionInv
  <2> QED BY <1>1, <1>3, <2>1, <2>2, LoginFacts DEF SessionInv, LoginTyped, LoginTypeOK
<1>9. HeldWasDrawn'
  BY <1>1, <1>5, <1>7 DEF SessionInv, HeldWasDrawn
<1>10. KeptLongEnough'
  BY <1>2, <1>5 DEF SessionInv, KeptLongEnough
<1>11. OneExpiry' /\ DeletesTheOver'
  BY <1>1, <1>5, <1>7, LoginFacts DEF SessionInv, OneExpiry, DeletesTheOver
<1>12. LoggedOutForGood'
  <2>1. q.at \notin {"resolve", "save"}
    BY <1>4, HoldingStates
  <2>2. \A t \in Sessions : Reading(t) = {} => Reading(t)' = {}
    BY <1>6, <2>1 DEF Reading
  <2> QED BY <1>1, <1>3, <1>5, <2>2, LoginFacts DEF SessionInv, LoggedOutForGood
<1> QED BY <1>8, <1>9, <1>10, <1>11, <1>12 DEF SessionInv

\* What a tick does to a request and to an entry.
LEMMA Aged ==
  ASSUME LoginTyped
  PROVE  /\ \A q \in Holding : /\ AgedRead(q) \in Holding
                               /\ AgedRead(q).at = q.at /\ AgedRead(q).sid = q.sid
                               /\ AgedRead(q).expires = Less(q.expires, -1)
         /\ \A q \in ReqState \ Holding : AgedRead(q) = q
         /\ \A x \in Session : /\ AgedEntry(x) \in Session
                               /\ AgedEntry(x).expires = Less(x.expires, -1)
                               /\ AgedEntry(x).until = Less(x.until, 0)
         /\ AgedEntry(NoSession) = NoSession
         /\ NoSession \notin Session
<1> USE LoginAssumption DEF LoginAssumption
<1>1. ASSUME NEW q \in Holding
      PROVE  /\ AgedRead(q) \in Holding
             /\ AgedRead(q).at = q.at /\ AgedRead(q).sid = q.sid
             /\ AgedRead(q).expires = Less(q.expires, -1)
  <2>1. AgedRead(q) = [q EXCEPT !.expires = Less(@, -1)]
    BY DEF AgedRead, Holding
  <2>2. Less(q.expires, -1) \in -1 .. SessionTTL
    BY DEF Less, Holding
  <2> QED BY <2>1, <2>2 DEF Holding
<1>2. ASSUME NEW q \in ReqState \ Holding
      PROVE  AgedRead(q) = q
  <2>1. "expires" \notin DOMAIN q
    <3>1. CASE q = Waiting
      BY <3>1 DEF Waiting
    <3>2. CASE q \in Guessing
      BY <3>2 DEF Guessing
    <3>3. CASE q \in Returning
      BY <3>3 DEF Returning
    <3> QED BY <3>1, <3>2, <3>3 DEF ReqState
  <2> QED BY <2>1 DEF AgedRead
<1>3. NoSession \notin Session
  BY DEF NoSession, Session
<1>4. ASSUME NEW x \in Session
      PROVE  /\ AgedEntry(x) \in Session
             /\ AgedEntry(x).expires = Less(x.expires, -1)
             /\ AgedEntry(x).until = Less(x.until, 0)
  <2>1. AgedEntry(x) = [expires |-> Less(x.expires, -1), until |-> Less(x.until, 0)]
    BY <1>3 DEF AgedEntry
  <2>2. Less(x.expires, -1) \in -1 .. SessionTTL /\ Less(x.until, 0) \in 0 .. SessionTTL
    BY DEF Less, Session
  <2> QED BY <2>1, <2>2 DEF Session
<1> QED BY <1>1, <1>2, <1>3, <1>4 DEF AgedEntry

LEMMA LoginTickKeeps ==
  ASSUME SessionInv, LoginTick
  PROVE  SessionInv'
<1> USE LoginAssumption DEF LoginAssumption
<1>1. LoginTyped
  BY DEF SessionInv
<1>2. \A r \in Requests : req'[r] = AgedRead(req[r]) /\ req[r] \in ReqState
  BY <1>1, LoginFacts DEF LoginTick
<1>3. \A r \in Requests :
        /\ Holds(r)' <=> Holds(r)
        /\ req'[r].at = req[r].at
        /\ Holds(r) => /\ req'[r].sid = req[r].sid /\ req'[r].expires = Less(req[r].expires, -1)
                       /\ req[r].sid \in Sessions /\ req[r].expires \in -1 .. SessionTTL
  <2> SUFFICES ASSUME NEW r \in Requests
               PROVE  /\ Holds(r)' <=> Holds(r)
                      /\ req'[r].at = req[r].at
                      /\ Holds(r) => /\ req'[r].sid = req[r].sid
                                     /\ req'[r].expires = Less(req[r].expires, -1)
                                     /\ req[r].sid \in Sessions
                                     /\ req[r].expires \in -1 .. SessionTTL
    OBVIOUS
  <2>1. CASE Holds(r)
    <3>1. req[r].sid \in Sessions /\ req[r].expires \in -1 .. SessionTTL
      BY <2>1 DEF Holds, Holding
    <3> QED BY <1>1, <1>2, <2>1, <3>1, Aged DEF Holds
  <2>2. CASE ~Holds(r)
    BY <1>1, <1>2, <2>2, Aged DEF Holds
  <2> QED BY <2>1, <2>2
<1>4. \A s \in Sessions :
        /\ store'[s] \in Session \cup {NoSession}
        /\ store'[s] = NoSession <=> store[s] = NoSession
        /\ store[s] \in Session => /\ store'[s].expires = Less(store[s].expires, -1)
                                   /\ store'[s].until = Less(store[s].until, 0)
                                   /\ store[s].expires \in Int /\ store[s].until \in Int
  <2> SUFFICES ASSUME NEW s \in Sessions
               PROVE  /\ store'[s] \in Session \cup {NoSession}
                      /\ store'[s] = NoSession <=> store[s] = NoSession
                      /\ store[s] \in Session =>
                           /\ store'[s].expires = Less(store[s].expires, -1)
                           /\ store'[s].until = Less(store[s].until, 0)
                           /\ store[s].expires \in Int /\ store[s].until \in Int
    OBVIOUS
  <2>1. store'[s] = AgedEntry(store[s]) /\ store[s] \in Session \cup {NoSession}
    BY <1>1, LoginFacts DEF LoginTick
  <2>2. store[s] \in Session => store[s].expires \in Int /\ store[s].until \in Int
    BY DEF Session
  <2> QED BY <1>1, <2>1, <2>2, Aged
<1>5. LoginTyped'
  <2>1. store' \in [Sessions -> Session \cup {NoSession}]
    BY <1>4 DEF LoginTick
  <2>2. req' \in [Requests -> ReqState]
    <3>1. \A r \in Requests : req'[r] \in ReqState
      BY <1>1, <1>2, Aged DEF ReqState
    <3> QED BY <3>1 DEF LoginTick
  <2>3. failures' \in [Emails -> [count : Nat, left : 0 .. LockWindow]]
    <3>1. \A b \in [count : Nat, left : 0 .. LockWindow] :
            AgedBucket(b) \in [count : Nat, left : 0 .. LockWindow]
      BY DEF AgedBucket, NoBucket
    <3> QED BY <1>1, <3>1, LoginFacts DEF LoginTick
  <2>4. tokens' \in 0 .. Burst /\ oidc' \in 0 .. StateTTL
    BY <1>1, LoginFacts DEF LoginTick, Refilled, Less
  <2> QED BY <1>1, <2>1, <2>2, <2>3, <2>4, LoginFacts DEF LoginTick, LoginTyped, LoginTypeOK
<1>6. HeldWasDrawn'
  BY <1>3, <1>4 DEF LoginTick, SessionInv, HeldWasDrawn
<1>7. KeptLongEnough'
  <2> SUFFICES ASSUME NEW s \in Sessions
               PROVE  store'[s].expires <= store'[s].until
    BY DEF KeptLongEnough
  <2>1. CASE store[s] = NoSession
    BY <1>4, <2>1 DEF NoSession
  <2>2. CASE store[s] \in Session
    BY <1>4, <2>2 DEF SessionInv, KeptLongEnough, Less
  <2> QED BY <1>1, <2>1, <2>2, LoginFacts
<1>8. OneExpiry'
  <2>1. \A s \in Sessions : store[s] # NoSession => store[s] \in Session
    BY <1>1, LoginFacts
  <2> QED BY <1>3, <1>4, <2>1 DEF SessionInv, OneExpiry
<1>9. DeletesTheOver'
  BY <1>3 DEF SessionInv, DeletesTheOver, Less
<1>10. LoggedOutForGood'
  <2>1. \A s \in Sessions : Reading(s) = {} => Reading(s)' = {}
    <3> SUFFICES ASSUME NEW s \in Sessions, NEW r \in Reading(s)'
                 PROVE  r \in Reading(s)
      OBVIOUS
    <3>1. r \in Requests /\ req'[r].at \in {"resolve", "save"} /\ req'[r].sid = s
      BY DEF Reading
    <3>2. req[r].at \in {"resolve", "save"} /\ Holds(r)
      BY <1>1, <1>2, <1>3, <3>1, HoldingStates DEF Holds
    <3> QED BY <1>3, <3>1, <3>2 DEF Reading
  <2> QED BY <1>1, <1>4, <2>1, LoginFacts DEF LoginTick, SessionInv, LoggedOutForGood
<1> QED BY <1>5, <1>6, <1>7, <1>8, <1>9, <1>10 DEF SessionInv

\* The states of a login: the request holds no session in any of them.
LEMMA GuessingStates ==
  ASSUME SessionInv, NEW r \in Requests
  PROVE  /\ req[r] \in Guessing => \A at \in {"verify", "failed", "success", "complete"} :
                                     [req[r] EXCEPT !.at = at] \in Guessing
         /\ req[r] \in Returning => [req[r] EXCEPT !.at = "complete"] \in Returning
         /\ req[r] \in Guessing \cup Returning => req[r].email \in Emails
         /\ \A e \in Emails : [at |-> "locked?", email |-> e] \in Guessing
         /\ \A e \in Emails : [at |-> "exchange", email |-> e, state |-> TRUE] \in Returning
<1>1. req[r] \in Guessing => \A at \in {"verify", "failed", "success", "complete"} :
                               [req[r] EXCEPT !.at = at] \in Guessing
  BY DEF Guessing
<1>2. req[r] \in Returning => [req[r] EXCEPT !.at = "complete"] \in Returning
  BY DEF Returning
<1>3. req[r] \in Guessing \cup Returning => req[r].email \in Emails
  BY DEF Guessing, Returning
<1>4. \A e \in Emails : [at |-> "locked?", email |-> e] \in Guessing
  BY DEF Guessing
<1>5. \A e \in Emails : [at |-> "exchange", email |-> e, state |-> TRUE] \in Returning
  BY DEF Returning
<1> QED BY <1>1, <1>2, <1>3, <1>4, <1>5

\* The steps of a login and of OIDC, before a session is drawn.
LEMMA LoginKeeps ==
  ASSUME SessionInv, NEW r \in Requests,
         \/ \E e \in Emails : LoginPost(r, e) \/ ConfirmPassword(r, e) \/ LoadState(r, e)
         \/ IsLockedOut(r) \/ Verify(r) \/ RecordFailure(r) \/ RecordSuccess(r)
         \/ CompleteLoginFails(r) \/ LoginOIDC(r) \/ DeleteState(r)
  PROVE  SessionInv'
<1>1. LoginTyped
  BY DEF SessionInv
<1>2. /\ UNCHANGED <<active, store, drawn, loggedOut, raced>>
      /\ tokens' \in 0 .. Burst /\ oidc' \in 0 .. StateTTL
  <2> USE <1>1, LoginFacts, LoginAssumption DEF LoginAssumption
  <2>1. CASE \E e \in Emails : LoginPost(r, e) \/ ConfirmPassword(r, e) \/ LoadState(r, e)
    BY <2>1 DEF LoginPost, ConfirmPassword, LoadState, Allow
  <2>2. CASE IsLockedOut(r) \/ Verify(r)
    BY <2>2 DEF IsLockedOut, Verify
  <2>3. CASE RecordFailure(r) \/ RecordSuccess(r)
    BY <2>3 DEF RecordFailure, RecordSuccess
  <2>4. CASE LoginOIDC(r) \/ CompleteLoginFails(r)
    BY <2>4 DEF LoginOIDC, CompleteLoginFails
  <2>5. CASE DeleteState(r)
    <3>1. 0 \in 0 .. StateTTL
      OBVIOUS
    <3> QED BY <2>5, <3>1 DEF DeleteState
  <2> QED BY <2>1, <2>2, <2>3, <2>4, <2>5
<1>3. failures' \in [Emails -> [count : Nat, left : 0 .. LockWindow]]
  <2>1. CASE RecordFailure(r)
    <3>1. req[r].email \in Emails
      BY <1>1, <2>1, LoginStates, GuessingStates DEF RecordFailure, At
    <3>2. \A b \in [count : Nat, left : 0 .. LockWindow] :
            Failed(b) \in [count : Nat, left : 0 .. LockWindow]
      BY LoginAssumption DEF LoginAssumption, Failed
    <3> QED BY <1>1, <2>1, <3>1, <3>2, LoginFacts DEF RecordFailure
  <2>2. CASE RecordSuccess(r)
    <3>1. NoBucket \in [count : Nat, left : 0 .. LockWindow]
      BY LoginAssumption DEF LoginAssumption, NoBucket
    <3> QED BY <1>1, <2>2, <3>1, LoginFacts DEF RecordSuccess
  <2>3. CASE ~RecordFailure(r) /\ ~RecordSuccess(r)
    BY <1>1, <2>3, LoginFacts DEF LoginPost, ConfirmPassword, LoadState, IsLockedOut,
       Verify, CompleteLoginFails, LoginOIDC, DeleteState
  <2> QED BY <2>1, <2>2, <2>3
<1>4. PICK q \in ReqState : q \notin Holding /\ req' = [req EXCEPT ![r] = q]
  <2> USE <1>1, HoldingStates, WaitingState, GuessingStates, LoginStates
          DEF ReqState, At, To, End
  <2>1. CASE \E e \in Emails : LoginPost(r, e) \/ ConfirmPassword(r, e) \/ LoadState(r, e)
    BY <2>1 DEF LoginPost, ConfirmPassword, LoadState
  <2>2. CASE IsLockedOut(r) \/ Verify(r)
    BY <2>2 DEF IsLockedOut, Verify
  <2>3. CASE RecordFailure(r) \/ RecordSuccess(r)
    BY <2>3 DEF RecordFailure, RecordSuccess
  <2>4. CASE LoginOIDC(r) \/ DeleteState(r) \/ CompleteLoginFails(r)
    BY <2>4 DEF LoginOIDC, DeleteState, CompleteLoginFails
  <2> QED BY <2>1, <2>2, <2>3, <2>4
<1>5. active' \subseteq Emails
  BY <1>1, <1>2, LoginFacts
<1> QED BY <1>2, <1>3, <1>4, <1>5, ReleaseStep

LEMMA SessionStep == SessionInv /\ [LoginNext]_loginVars => SessionInv'
<1> SUFFICES ASSUME SessionInv, [LoginNext]_loginVars
             PROVE  SessionInv'
  OBVIOUS
<1>1. ASSUME UNCHANGED <<failures, tokens, store, req, drawn, loggedOut, raced>>,
             active' \subseteq Emails, oidc' \in 0 .. StateTTL
      PROVE  SessionInv'
  BY <1>1, LoginFacts DEF SessionInv, LoginTyped, LoginTypeOK, HeldWasDrawn, KeptLongEnough,
     OneExpiry, DeletesTheOver, LoggedOutForGood, Reading, Holds
<1>2. ASSUME NEW r \in Requests, StartOIDC(r)
      PROVE  SessionInv'
  BY <1>1, <1>2, LoginFacts, LoginAssumption DEF LoginAssumption, SessionInv, StartOIDC
<1>3. ASSUME NEW e \in Emails, Deactivate(e)
      PROVE  SessionInv'
  BY <1>1, <1>3, LoginFacts DEF SessionInv, Deactivate
<1>4. ASSUME NEW r \in Requests,
             \/ \E e \in Emails : LoginPost(r, e) \/ ConfirmPassword(r, e) \/ LoadState(r, e)
             \/ IsLockedOut(r) \/ Verify(r) \/ RecordFailure(r) \/ RecordSuccess(r)
             \/ CompleteLoginFails(r) \/ LoginOIDC(r) \/ DeleteState(r)
      PROVE  SessionInv'
  BY <1>4, LoginKeeps
<1>5. ASSUME NEW r \in Requests, CompleteLogin(r) \/ SessionSave(r)
      PROVE  SessionInv'
  BY <1>5, CompleteLoginKeeps, SessionSaveKeeps
<1>6. ASSUME NEW r \in Requests,
             \/ \E s \in Sessions, for \in {"resolve", "logout"} : SessionGet(r, s, for)
             \/ Resolve(r)
      PROVE  SessionInv'
  BY <1>6, SessionReadKeeps
<1>7. ASSUME ReapOnce \/ \E r \in Requests : SessionDelete(r) \/ Logout(r)
      PROVE  SessionInv'
  BY <1>7, SessionDropKeeps
<1>8. CASE LoginTick
  BY <1>8, LoginTickKeeps
<1>9. CASE UNCHANGED loginVars
  BY <1>1, <1>9, LoginFacts DEF loginVars, SessionInv
<1> QED BY <1>2, <1>3, <1>4, <1>5, <1>6, <1>7, <1>8, <1>9 DEF LoginNext

\* Every variable of the login keeps its type.
THEOREM LoginTypeCorrect == LoginSpec => []LoginTypeOK
<1>1. LoginInit => SessionInv
  BY InitLoginInv DEF LoginInv
<1>2. SessionInv => LoginTypeOK
  BY DEF SessionInv, LoginTyped
<1> QED BY <1>1, <1>2, SessionStep, PTL DEF LoginSpec

\* A session that was logged out stays away, unless a request held it between its
\* Get and its Save when the logout deleted it (cache/memory/session.go,
\* usecase/auth Resolve and Logout).
THEOREM LogoutsHold == LoginSpec => []LogoutHolds
<1>1. LoginInit => SessionInv
  BY InitLoginInv DEF LoginInv
<1>2. SessionInv => LogoutHolds
  BY DEF SessionInv, LoggedOutForGood, LogoutHolds
<1> QED BY <1>1, <1>2, SessionStep, PTL DEF LoginSpec

\* Until its ExpiresAt a session is dropped by a logout only: neither the reaper
\* nor a deletion that follows a stale read takes a live one (cache/memory/
\* session.go Get and reapOnce).
THEOREM LiveSessionsAreKept == LoginSpec => LiveSessionIsKept
<1> DEFINE StaysLive(s) == store[s].expires > 0 /\ store'[s] = NoSession => s \in loggedOut'
<1>1. LoginInit => SessionInv
  BY InitLoginInv DEF LoginInv
<1>2. SessionInv /\ [LoginNext]_loginVars => [\A s \in Sessions : StaysLive(s)]_loginVars
  <2> SUFFICES ASSUME SessionInv, LoginNext, NEW s \in Sessions,
                      store[s].expires > 0, store'[s] = NoSession
               PROVE  s \in loggedOut'
    OBVIOUS
  <2>1. /\ store[s] \in Session /\ store[s] # NoSession
        /\ store[s].expires \in Int /\ ~(store[s].expires <= 0)
    <3>1. store[s] # NoSession
      BY DEF NoSession
    <3>2. store[s] \in Session
      BY <3>1, LoginFacts DEF SessionInv
    <3>3. store[s].expires \in Int
      BY <3>2 DEF Session
    <3> QED BY <3>1, <3>2, <3>3
  <2>7. store \in [Sessions -> Session \cup {NoSession}]
    BY LoginFacts DEF SessionInv
  <2>2. ASSUME NEW r \in Requests, Logout(r)
        PROVE  s \in loggedOut'
    <3>1. s = req[r].sid
      BY <2>1, <2>2, <2>7 DEF Logout, Forgotten
    <3> QED BY <2>2, <3>1 DEF Logout
  <2>3. ASSUME NEW r \in Requests, SessionDelete(r)
        PROVE  FALSE
    <3>1. s = req[r].sid
      BY <2>1, <2>3, <2>7 DEF SessionDelete
    <3>2. Holds(r) /\ req[r].at = "delete"
      BY <2>3, LoginStates DEF SessionDelete, At, SessionInv, Holds
    <3>3. req[r].expires <= 0 /\ req[r].expires = store[s].expires
      BY <2>1, <3>1, <3>2 DEF SessionInv, DeletesTheOver, OneExpiry, Session, NoSession
    <3> QED BY <2>1, <3>3
  <2>4. ASSUME NEW r \in Requests, SessionSave(r) \/ CompleteLogin(r)
        PROVE  FALSE
    <3>1. \A n, m : [expires |-> n, until |-> SessionTTL] # NoSession
      BY LoginAssumption DEF NoSession, LoginAssumption
    <3>2. CASE SessionSave(r)
      BY <2>1, <2>7, <3>1, <3>2 DEF SessionSave
    <3>3. CASE CompleteLogin(r)
      BY <2>1, <2>7, <3>1, <3>3 DEF CompleteLogin
    <3> QED BY <2>4, <3>2, <3>3
  <2>5. CASE ReapOnce
    <3>1. store[s].until = 0
      BY <2>1, <2>5, Aged DEF ReapOnce, Swept, SessionInv
    <3> QED BY <2>1, <3>1 DEF SessionInv, KeptLongEnough
  <2>6. CASE LoginTick
    <3>1. store'[s] = AgedEntry(store[s]) /\ AgedEntry(store[s]) \in Session
      BY <2>1, <2>6, Aged DEF LoginTick, SessionInv
    <3> QED BY <3>1, Aged DEF SessionInv
  <2> QED BY <2>1, <2>2, <2>3, <2>4, <2>5, <2>6
      DEF LoginNext, LoginPost, ConfirmPassword, LoadState, IsLockedOut, Verify,
          RecordFailure, RecordSuccess, CompleteLoginFails, StartOIDC, LoginOIDC, DeleteState, SessionGet, Resolve, Deactivate
<1> QED BY <1>1, <1>2, SessionStep, PTL DEF LoginSpec, LiveSessionIsKept

\* The requests that try a password of an email are among the requests.
LEMMA TryingCounts ==
  ASSUME NEW e \in Emails
  PROVE  /\ IsFiniteSet(Trying(e)) /\ Cardinality(Trying(e)) \in Nat
         /\ Cardinality(Trying(e)) <= Cardinality(Requests) /\ Cardinality(Requests) \in Nat
<1>1. IsFiniteSet(Requests) /\ Trying(e) \subseteq Requests
  BY LoginAssumption DEF LoginAssumption, Trying
<1> QED BY <1>1, FS_Subset, FS_CardinalityType

\* A step that counts no failure keeps the bound of an email: it lets nobody new
\* try, or nobody found the email locked at a count this low.
LEMMA GuessStep ==
  ASSUME SessionInv, SessionInv', GuessesAreBounded, NEW e \in Emails,
         failures'[e].count > 0,
         \/ failures'[e].count = failures[e].count /\ Trying(e)' \subseteq Trying(e)
         \/ failures'[e].count < MaxFails
  PROVE  failures'[e].count + Cardinality(Trying(e)') <= MaxFails - 1 + Cardinality(Requests)
<1>1. failures'[e].count \in Nat /\ failures[e].count \in Nat
  BY LoginFacts DEF SessionInv, LoginTyped, LoginTypeOK
<1>2. /\ IsFiniteSet(Trying(e)) /\ Cardinality(Trying(e)) \in Nat
      /\ Cardinality(Trying(e)) <= Cardinality(Requests) /\ Cardinality(Requests) \in Nat
  BY TryingCounts
<1>3. MaxFails \in Nat \ {0} /\ IsFiniteSet(Requests) /\ Trying(e)' \subseteq Requests
  BY LoginAssumption DEF LoginAssumption, Trying
<1>4. Cardinality(Trying(e)') \in Nat /\ Cardinality(Trying(e)') <= Cardinality(Requests)
  BY <1>3, FS_Subset, FS_CardinalityType
<1>5. CASE failures'[e].count = failures[e].count /\ Trying(e)' \subseteq Trying(e)
  <2>1. Cardinality(Trying(e)') <= Cardinality(Trying(e))
    BY <1>2, <1>5, FS_Subset
  <2>2. failures[e].count + Cardinality(Trying(e)) <= MaxFails - 1 + Cardinality(Requests)
    BY <1>5 DEF GuessesAreBounded
  <2> QED BY <1>1, <1>2, <1>3, <1>4, <1>5, <2>1, <2>2
<1>6. CASE failures'[e].count < MaxFails
  BY <1>1, <1>2, <1>3, <1>4, <1>6
<1> QED BY <1>5, <1>6

\* RecordFailure: the request that counts a failure tries no more.
LEMMA FailureCounts ==
  ASSUME SessionInv, SessionInv', GuessesAreBounded, NEW r \in Requests, RecordFailure(r)
  PROVE  GuessesAreBounded'
<1>1. req[r] \in Guessing /\ req[r].at = "failed"
  BY LoginStates DEF SessionInv, RecordFailure, At
<1>2. failures' = [failures EXCEPT ![req[r].email] = Failed(@)]
      /\ req' = [req EXCEPT ![r] = Waiting]
  BY DEF RecordFailure, End
<1>3. req[r].email \in Emails
  BY <1>1, GuessingStates
<1>4. \A e \in Emails : Trying(e)' = Trying(e) \ {r}
  <2>1. \A p \in Requests : req'[p] = IF p = r THEN Waiting ELSE req[p]
    BY <1>2, LoginFacts DEF SessionInv
  <2> QED BY <2>1, WaitingState DEF Trying
<1> SUFFICES ASSUME NEW e \in Emails, failures'[e].count > 0
             PROVE  failures'[e].count + Cardinality(Trying(e)') <= MaxFails - 1 + Cardinality(Requests)
  BY DEF GuessesAreBounded
<1>5. CASE e # req[r].email
  <2>1. failures'[e] = failures[e]
    BY <1>2, <1>3, <1>5, LoginFacts DEF SessionInv
  <2> QED BY <1>4, <2>1, GuessStep
<1>6. CASE e = req[r].email
  <2> DEFINE b == failures[e]
  <2>1. failures'[e] = Failed(b) /\ b.count \in Nat
    BY <1>2, <1>3, <1>6, LoginFacts DEF SessionInv
  <2>2. r \in Trying(e)
    BY <1>1, <1>6 DEF Trying
  <2>3. /\ IsFiniteSet(Trying(e)) /\ Cardinality(Trying(e)) \in Nat
        /\ Cardinality(Trying(e)) <= Cardinality(Requests) /\ Cardinality(Requests) \in Nat
    BY TryingCounts
  <2>4. Cardinality(Trying(e)') = Cardinality(Trying(e)) - 1
    BY <1>4, <2>2, <2>3, FS_RemoveElement
  <2>5. MaxFails \in Nat \ {0}
    BY LoginAssumption DEF LoginAssumption
  <2>6. CASE b.count > 0
    <3>1. failures'[e].count = b.count + 1
      <4>1. failures[e] \in [count : Nat, left : 0 .. LockWindow]
        BY LoginFacts DEF SessionInv
      <4> QED BY <2>1, <2>6, <4>1 DEF Failed
    <3>2. b.count + Cardinality(Trying(e)) <= MaxFails - 1 + Cardinality(Requests)
      BY <2>6 DEF GuessesAreBounded
    <3> QED BY <2>1, <2>3, <2>4, <2>5, <3>1, <3>2
  <2>7. CASE ~(b.count > 0)
    <3>1. failures'[e].count = 1
      BY <2>1, <2>7 DEF Failed
    <3> QED BY <2>3, <2>4, <2>5, <3>1
  <2> QED BY <2>6, <2>7
<1> QED BY <1>5, <1>6

\* IsLockedOut lets a request try only at a count below MaxFails.
LEMMA LockedOutCounts ==
  ASSUME SessionInv, SessionInv', GuessesAreBounded, NEW r \in Requests, IsLockedOut(r)
  PROVE  GuessesAreBounded'
<1>1. req[r] \in Guessing /\ req[r].email \in Emails
  BY LoginStates, GuessingStates DEF SessionInv, IsLockedOut, At
<1>2. failures' = failures
  BY DEF IsLockedOut
<1> SUFFICES ASSUME NEW e \in Emails, failures'[e].count > 0
             PROVE  failures'[e].count + Cardinality(Trying(e)') <= MaxFails - 1 + Cardinality(Requests)
  BY DEF GuessesAreBounded
<1>3. CASE e # req[r].email \/ Locked(failures[req[r].email])
  <2>1. \A p \in Requests : p # r => req'[p] = req[p]
    BY LoginFacts DEF SessionInv, IsLockedOut, To, End
  <2>2. r \notin Trying(e)'
    <3>1. CASE Locked(failures[req[r].email])
      <4>1. req'[r] = Waiting
        BY <3>1, LoginFacts DEF SessionInv, IsLockedOut, End
      <4> QED BY <4>1, WaitingState DEF Trying
    <3>2. CASE ~Locked(failures[req[r].email])
      <4>1. req'[r] = [req[r] EXCEPT !.at = "verify"]
        BY <3>2, LoginFacts DEF SessionInv, IsLockedOut, To
      <4>2. req'[r].email = req[r].email
        BY <1>1, <4>1 DEF Guessing
      <4> QED BY <1>3, <3>2, <4>2 DEF Trying
    <3> QED BY <3>1, <3>2
  <2>3. Trying(e)' \subseteq Trying(e)
    BY <2>1, <2>2 DEF Trying
  <2> QED BY <1>2, <2>3, GuessStep
<1>4. CASE e = req[r].email /\ ~Locked(failures[req[r].email])
  <2>1. failures'[e].count < MaxFails
    <3>1. failures[e].count \in Nat /\ MaxFails \in Nat
      BY LoginFacts, LoginAssumption DEF SessionInv, LoginAssumption
    <3> QED BY <1>2, <1>4, <3>1 DEF Locked
  <2> QED BY <2>1, GuessStep
<1> QED BY <1>3, <1>4

\* No other step lets a request try, nor counts a failure.
LEMMA OthersTryLess ==
  ASSUME SessionInv, LoginNext, ~\E r \in Requests : RecordFailure(r) \/ IsLockedOut(r),
         NEW e \in Emails
  PROVE  /\ failures'[e].count = failures[e].count \/ failures'[e].count = 0
         /\ Trying(e)' \subseteq Trying(e)
<1>1. /\ failures \in [Emails -> [count : Nat, left : 0 .. LockWindow]]
      /\ req \in [Requests -> ReqState] /\ LoginTyped
  BY LoginFacts DEF SessionInv
<1>2. ASSUME NEW r \in Requests, NEW q, q.at \notin {"verify", "failed"},
             req' = [req EXCEPT ![r] = q]
      PROVE  Trying(e)' \subseteq Trying(e)
  BY <1>1, <1>2 DEF Trying
<1> USE DEF At, To, End
<1>3. ASSUME NEW r \in Requests,
             \E f \in Emails : LoginPost(r, f) \/ ConfirmPassword(r, f) \/ LoadState(r, f)
      PROVE  failures'[e] = failures[e] /\ Trying(e)' \subseteq Trying(e)
  BY <1>2, <1>3 DEF LoginPost, ConfirmPassword, LoadState
<1>4. ASSUME NEW r \in Requests, Verify(r)
      PROVE  failures'[e] = failures[e] /\ Trying(e)' \subseteq Trying(e)
  <2>1. req[r] \in Guessing /\ req[r].at = "verify"
    BY <1>1, <1>4, LoginStates DEF Verify
  <2>2. CASE req' = [req EXCEPT ![r].at = "failed"]
    <3>1. req'[r].email = req[r].email /\ \A p \in Requests : p # r => req'[p] = req[p]
      BY <1>1, <2>1, <2>2 DEF Guessing
    <3>2. Trying(e)' \subseteq Trying(e)
      BY <2>1, <3>1 DEF Trying
    <3> QED BY <1>4, <3>2 DEF Verify
  <2>3. CASE req' = [req EXCEPT ![r].at = "success"]
    <3>1. [req[r] EXCEPT !.at = "success"].at = "success"
      BY <2>1 DEF Guessing
    <3> QED BY <1>2, <1>4, <2>3, <3>1 DEF Verify
  <2>4. CASE req' = [req EXCEPT ![r] = Waiting]
    BY <1>2, <1>4, <2>4, WaitingState DEF Verify
  <2> QED BY <1>4, <2>2, <2>3, <2>4 DEF Verify
<1>5. ASSUME NEW r \in Requests, RecordSuccess(r)
      PROVE  /\ failures'[e].count = failures[e].count \/ failures'[e].count = 0
             /\ Trying(e)' \subseteq Trying(e)
  <2>1. req[r] \in Guessing
    BY <1>1, <1>5, LoginStates DEF RecordSuccess
  <2>2. [req[r] EXCEPT !.at = "complete"].at = "complete"
    BY <2>1 DEF Guessing
  <2> QED BY <1>1, <1>2, <1>5, <2>2 DEF RecordSuccess, NoBucket
<1>6. ASSUME NEW r \in Requests, CompleteLogin(r) \/ LoginOIDC(r)
      PROVE  failures'[e] = failures[e] /\ Trying(e)' \subseteq Trying(e)
  <2>1. req[r] \in Guessing \cup Returning
    BY <1>1, <1>6, LoginStates DEF CompleteLogin, LoginOIDC
  <2>2. \A at : [req[r] EXCEPT !.at = at].at = at
    BY <2>1 DEF Guessing, Returning
  <2> QED BY <1>2, <1>6, <2>2, WaitingState DEF CompleteLogin, LoginOIDC
<1>7. ASSUME NEW r \in Requests,
             \/ CompleteLoginFails(r) \/ DeleteState(r)
             \/ SessionDelete(r) \/ SessionSave(r) \/ Logout(r)
      PROVE  failures'[e] = failures[e] /\ Trying(e)' \subseteq Trying(e)
  BY <1>2, <1>7, WaitingState DEF CompleteLoginFails, DeleteState, SessionDelete, SessionSave, Logout
<1>8. ASSUME NEW r \in Requests, Resolve(r)
      PROVE  failures'[e] = failures[e] /\ Trying(e)' \subseteq Trying(e)
  <2>1. req[r] \in Holding
    BY <1>1, <1>8, LoginStates DEF Resolve
  <2>2. \A at : [req[r] EXCEPT !.at = at].at = at
    BY <2>1 DEF Holding
  <2> QED BY <1>2, <1>8, <2>2 DEF Resolve
<1>9. ASSUME NEW r \in Requests, NEW s \in Sessions, NEW for \in {"resolve", "logout"},
             SessionGet(r, s, for)
      PROVE  failures'[e] = failures[e] /\ Trying(e)' \subseteq Trying(e)
  BY <1>2, <1>9 DEF SessionGet
<1>10. ASSUME ReapOnce \/ (\E r \in Requests : StartOIDC(r)) \/ (\E f \in Emails : Deactivate(f))
       PROVE  failures'[e] = failures[e] /\ Trying(e)' \subseteq Trying(e)
  BY <1>10 DEF ReapOnce, StartOIDC, Deactivate, Trying
<1>11. CASE LoginTick
  <2>1. failures'[e] = AgedBucket(failures[e])
    BY <1>11 DEF LoginTick
  <2>2. failures'[e].count = failures[e].count \/ failures'[e].count = 0
    BY <1>1, <2>1 DEF AgedBucket, NoBucket
  <2>3. \A r \in Requests : req'[r] = req[r] \/ (req[r] \in Holding /\ req'[r] \in Holding)
    BY <1>1, <1>11, Aged DEF LoginTick
  <2>4. \A r \in Requests : req'[r].at \in {"verify", "failed"} => req'[r] = req[r]
    <3>1. \A q \in Holding : q.at \notin {"verify", "failed"}
      BY DEF Holding
    <3> QED BY <2>3, <3>1
  <2> QED BY <2>2, <2>4 DEF Trying
<1> QED BY <1>3, <1>4, <1>5, <1>6, <1>7, <1>8, <1>9, <1>10, <1>11 DEF LoginNext

LEMMA GuessInvStep == LoginInv /\ [LoginNext]_loginVars => LoginInv'
<1> SUFFICES ASSUME LoginInv, [LoginNext]_loginVars
             PROVE  LoginInv'
  OBVIOUS
<1>1. SessionInv /\ SessionInv' /\ GuessesAreBounded
  BY SessionStep DEF LoginInv
<1>2. ASSUME NEW r \in Requests, RecordFailure(r) \/ IsLockedOut(r)
      PROVE  GuessesAreBounded'
  BY <1>1, <1>2, FailureCounts, LockedOutCounts
<1>3. ASSUME LoginNext, ~\E r \in Requests : RecordFailure(r) \/ IsLockedOut(r)
      PROVE  GuessesAreBounded'
  <2> SUFFICES ASSUME NEW e \in Emails, failures'[e].count > 0
               PROVE  failures'[e].count + Cardinality(Trying(e)')
                        <= MaxFails - 1 + Cardinality(Requests)
    BY DEF GuessesAreBounded
  <2>1. failures'[e].count = failures[e].count /\ Trying(e)' \subseteq Trying(e)
    BY <1>1, <1>3, OthersTryLess
  <2> QED BY <1>1, <2>1, GuessStep
<1>4. CASE UNCHANGED loginVars
  <2>1. failures' = failures /\ req' = req
    BY <1>4 DEF loginVars
  <2>2. \A e \in Emails : Trying(e)' = Trying(e)
    BY <2>1 DEF Trying
  <2> QED BY <1>1, <2>1, <2>2 DEF LoginInv, GuessesAreBounded
<1> QED BY <1>1, <1>2, <1>3, <1>4 DEF LoginInv

\* In one window MaxFails - 1 passwords of an email can be found wrong, and one
\* more for each request that passed IsLockedOut before they were counted
\* (lockout.go, usecase/auth LoginLocal).
THEOREM GuessesBounded == LoginSpec => []GuessesAreBounded
<1>1. LoginInv => GuessesAreBounded
  BY DEF LoginInv
<1> QED BY <1>1, InitLoginInv, GuessInvStep, PTL DEF LoginSpec

-----------------------------------------------------------------------------
(* AdminAccess.                                                            *)

Principal   == [platform : BOOLEAN, permitted : BOOLEAN, read : Nat]
Registering == [at : {"setup", "cli"}, user : Users]
Signed      == [at : {"bindings", "roles", "scope?", "handle"}, user : Users,
                who : Principal, todo : SUBSET Roles, age : 0 .. Slow]

CallState   == {NoCall} \cup Registering \cup Signed

AccessTyped == AccessTypeOK /\ call \in [Callers -> CallState]

\* What the cache holds was read less than a request before it was cached; what
\* is over is gone.
CacheIsFresh ==
  \A u \in Users : IF cache[u].left = 0 THEN cache[u] = Uncached
                   ELSE cache[u].who.read + cache[u].left <= Slow + CacheTTL

\* A request read the bindings itself, or found them in the cache when it began.
Fresh(q) ==
  q \in Signed => /\ q.at = "roles" => q.who.read <= q.age
                 /\ q.who.read < Slow + CacheTTL + q.age

CallIsFresh == \A c \in Callers : Fresh(call[c])

AccessInv == AccessTyped /\ CacheIsFresh /\ CallIsFresh
\* A step of one request, which may change the tables, keeps the invariant if
\* it leaves the request in a fresh state.
LEMMA CallStep ==
  ASSUME AccessInv, NEW c \in Callers, NEW q \in CallState, Fresh(q),
         call' = [call EXCEPT ![c] = q], cache' = cache,
         status' \in [Users -> {"none", "invited", "active", "disabled"}],
         signedIn' \subseteq Users,
         bindings' \in [Users -> SUBSET Roles], granting' \subseteq Roles
  PROVE  AccessInv'
<1>1. AccessTyped'
  BY DEF AccessInv, AccessTyped, AccessTypeOK
<1>2. CacheIsFresh'
  BY DEF AccessInv, CacheIsFresh
<1>3. CallIsFresh'
  BY DEF AccessInv, AccessTyped, CallIsFresh
<1> QED BY <1>1, <1>2, <1>3 DEF AccessInv

LEMMA InitAccessInv == AccessInit => AccessInv
<1> SUFFICES ASSUME AccessInit PROVE AccessInv
  OBVIOUS
<1>1. AccessTyped
  BY AccessAssumption DEF AccessInit, AccessTyped, AccessTypeOK, AccessAssumption,
     CallState, NoCall, Uncached, Nobody
<1>2. CacheIsFresh
  BY DEF AccessInit, CacheIsFresh, Uncached
<1>3. CallIsFresh
  BY DEF AccessInit, CallIsFresh, Fresh, NoCall, Signed
<1> QED BY <1>1, <1>2, <1>3 DEF AccessInv

\* A request that returns, at any point.
LEMMA ReturnStep ==
  ASSUME AccessInv, NEW c \in Callers, Returns(c), cache' = cache,
         status' \in [Users -> {"none", "invited", "active", "disabled"}],
         signedIn' \subseteq Users,
         bindings' \in [Users -> SUBSET Roles], granting' \subseteq Roles
  PROVE  AccessInv'
<1>1. NoCall \in CallState /\ Fresh(NoCall)
  BY DEF CallState, Fresh, NoCall, Signed
<1> QED BY <1>1, CallStep DEF Returns

\* A signed request that goes on with the principal it has.
LEMMA GoesStep ==
  ASSUME AccessInv, NEW c \in Callers, call[c] \in Signed,
         NEW at \in {"scope?", "handle"}, Goes(c, at), cache' = cache,
         UNCHANGED <<status, signedIn, bindings, granting>>
  PROVE  AccessInv'
<1> DEFINE q == [call[c] EXCEPT !.at = at]
<1>1. q \in CallState /\ Fresh(q)
  BY DEF CallState, Fresh, Signed, AccessInv, CallIsFresh
<1>2. call' = [call EXCEPT ![c] = q]
  BY DEF Goes
<1> QED BY <1>1, <1>2, CallStep DEF AccessInv, AccessTyped, AccessTypeOK

\* The states in which a request has a principal.
LEMMA SignedAt ==
  ASSUME AccessInv, NEW c \in Callers,
         call[c].at \in {"bindings", "roles", "scope?", "handle"}
  PROVE  call[c] \in Signed
BY DEF AccessInv, AccessTyped, CallState, NoCall, Registering, Signed

LEMMA RegisteringAt ==
  ASSUME AccessInv, NEW c \in Callers, call[c].at \in {"setup", "cli"}
  PROVE  call[c] \in Registering
BY DEF AccessInv, AccessTyped, CallState, NoCall, Registering, Signed

\* What is cached, hit or not, was read recently enough for the next request.
LEMMA CachedPrincipal ==
  ASSUME AccessInv, NEW u \in Users
  PROVE  /\ cache[u].left \in 0 .. CacheTTL /\ cache[u].who \in Principal
         /\ cache[u].who.read \in Nat /\ cache[u].who.read < Slow + CacheTTL
<1>1. cache[u].left \in 0 .. CacheTTL /\ cache[u].who \in Principal
  BY DEF AccessInv, AccessTyped, AccessTypeOK, Principal
<1>2. cache[u].who.read \in Nat
  BY <1>1 DEF Principal
<1>3. CASE cache[u].left = 0
  <2>1. cache[u] = Uncached
    BY <1>3 DEF AccessInv, CacheIsFresh
  <2>2. cache[u].who = Nobody
    BY <2>1 DEF Uncached
  <2>3. cache[u].who.read = 0
    BY <2>2 DEF Nobody
  <2> QED BY <1>1, <1>2, <2>3, AccessAssumption DEF AccessAssumption
<1>4. CASE cache[u].left # 0
  <2>1. cache[u].who.read + cache[u].left <= Slow + CacheTTL
    BY <1>4 DEF AccessInv, CacheIsFresh
  <2> QED BY <1>1, <1>2, <1>4, <2>1, AccessAssumption DEF AccessAssumption
<1> QED BY <1>3, <1>4

\* The fields of a signed request.
LEMMA SignedFields ==
  ASSUME NEW q \in Signed
  PROVE  /\ q.user \in Users /\ q.who \in Principal /\ q.who.read \in Nat
         /\ q.todo \subseteq Roles /\ q.age \in 0 .. Slow
<1>1. q.user \in Users /\ q.who \in Principal /\ q.todo \subseteq Roles /\ q.age \in 0 .. Slow
  BY DEF Signed
<1>2. q.who.read \in Nat
  BY <1>1 DEF Principal
<1> QED BY <1>1, <1>2

LEMMA TablesTyped ==
  ASSUME AccessInv
  PROVE  /\ status \in [Users -> {"none", "invited", "active", "disabled"}]
         /\ signedIn \subseteq Users
         /\ bindings \in [Users -> SUBSET Roles] /\ granting \subseteq Roles
         /\ call \in [Callers -> CallState]
BY DEF AccessInv, AccessTyped, AccessTypeOK

LEMMA SetupPostKeeps ==
  ASSUME AccessInv, NEW c \in Callers, NEW u \in Users, SetupPost(c, u) \/ RunSetup(c, u)
  PROVE  AccessInv'
<1> DEFINE q(at) == [at |-> at, user |-> u]
<1>1. ASSUME NEW at \in {"setup", "cli"}
      PROVE  q(at) \in CallState /\ Fresh(q(at))
  BY DEF CallState, Registering, Signed, Fresh
<1>2. PICK at \in {"setup", "cli"} : call' = [call EXCEPT ![c] = q(at)]
  BY DEF SetupPost, RunSetup
<1>3. status' \in [Users -> {"none", "invited", "active", "disabled"}]
  BY TablesTyped DEF SetupPost, RunSetup, InsertUser
<1> HIDE DEF q
<1> QED BY <1>1, <1>2, <1>3, TablesTyped, CallStep DEF SetupPost, RunSetup

LEMMA SetupEndKeeps ==
  ASSUME AccessInv, NEW c \in Callers, SetupCommit(c) \/ RunSetupRole(c)
  PROVE  AccessInv'
<1>1. CASE SetupCommit(c)
  <2>1. call[c].user \in Users
    BY <1>1, RegisteringAt DEF SetupCommit, CallAt, Registering
  <2>2. /\ status' \in [Users -> {"none", "invited", "active", "disabled"}]
        /\ bindings' \in [Users -> SUBSET Roles]
    BY <1>1, <2>1, TablesTyped, AccessAssumption
       DEF SetupCommit, InsertUser, BindRole, AccessAssumption
  <2> QED BY <1>1, <2>2, TablesTyped, ReturnStep DEF SetupCommit
<1>2. CASE RunSetupRole(c)
  BY <1>2, TablesTyped, ReturnStep DEF RunSetupRole
<1> QED BY <1>1, <1>2

\* Session and the hydrator: a hit takes what was cached at most Slow + CacheTTL
\* ticks ago, a miss reads the tables.
LEMMA RequestKeeps ==
  ASSUME AccessInv, NEW c \in Callers, NEW u \in Users, NEW form, Request(c, u, form)
  PROVE  AccessInv'
<1> DEFINE at == IF cache[u].left > 0 THEN "scope?" ELSE "bindings"
           q  == [at |-> at, user |-> u, who |-> cache[u].who, todo |-> {}, age |-> 0]
<1>1. q \in Signed
  BY CachedPrincipal, AccessAssumption DEF Signed, AccessAssumption
<1>2. Fresh(q)
  BY CachedPrincipal, AccessAssumption DEF Fresh, AccessAssumption
<1>3. call' = [call EXCEPT ![c] = q] /\ cache' = cache
      /\ UNCHANGED <<status, signedIn, bindings, granting>>
  BY DEF Request, Hit
<1> HIDE DEF q
<1> QED BY <1>1, <1>2, <1>3, TablesTyped, CallStep DEF CallState

LEMMA ListByUserKeeps ==
  ASSUME AccessInv, NEW c \in Callers, ListByUser(c)
  PROVE  AccessInv'
<1>1. call[c] \in Signed
  BY SignedAt DEF ListByUser, CallAt
<1> DEFINE roles == bindings[call[c].user]
           found == [platform |-> roles # {}, permitted |-> FALSE, read |-> 0]
           read  == [call[c] EXCEPT !.at = "roles", !.todo = roles, !.who = found]
           none  == [call[c] EXCEPT !.at = "scope?", !.who = Nobody]
<1>2. /\ call' = [call EXCEPT ![c] = read] \/ call' = [call EXCEPT ![c] = none]
      /\ UNCHANGED <<status, signedIn, bindings, granting, cache>>
  BY DEF ListByUser
<1>3. roles \subseteq Roles
  BY <1>1, SignedFields, TablesTyped
<1>4. (roles # {}) \in BOOLEAN
  OBVIOUS
<1> HIDE DEF roles
<1>5. found \in Principal /\ found.read = 0
  BY <1>4 DEF Principal
<1>6. Nobody \in Principal /\ Nobody.read = 0
  BY DEF Principal, Nobody
<1> HIDE DEF found
<1>7. read \in Signed /\ read.who = found /\ read.age = call[c].age
  BY <1>1, <1>3, <1>5 DEF Signed
<1>8. none \in Signed /\ none.who = Nobody /\ none.age = call[c].age
  BY <1>1, <1>6 DEF Signed
<1> HIDE DEF read, none
<1>9. Fresh(read) /\ Fresh(none)
  BY <1>1, <1>5, <1>6, <1>7, <1>8, SignedFields, AccessAssumption DEF Fresh, AccessAssumption
<1> QED BY <1>2, <1>7, <1>8, <1>9, TablesTyped, CallStep DEF CallState

LEMMA GetRoleKeeps ==
  ASSUME AccessInv, NEW c \in Callers, GetRole(c)
  PROVE  AccessInv'
<1>1. call[c] \in Signed /\ call[c].at = "roles"
  BY SignedAt DEF GetRole, CallAt
<1>2. PICK r \in call[c].todo, found \in BOOLEAN :
        call' = [call EXCEPT ![c] =
          [call[c] EXCEPT !.todo = @ \ {r}, !.who = WithRole(@, r, found)]]
  BY DEF GetRole
<1> DEFINE p   == call[c].who
           who == WithRole(p, r, found)
           q   == [call[c] EXCEPT !.todo = @ \ {r}, !.who = who]
<1>3. call' = [call EXCEPT ![c] = q]
  BY <1>2
<1>4. p \in Principal
  BY <1>1, SignedFields
<1>5. who \in Principal /\ who.read = p.read
  <2> DEFINE may == p.permitted \/ (found /\ r \in granting)
  <2>1. who = [p EXCEPT !.permitted = may]
    BY DEF WithRole
  <2>2. may \in BOOLEAN
    OBVIOUS
  <2> HIDE DEF may
  <2> QED BY <1>4, <2>1, <2>2 DEF Principal
<1> HIDE DEF who
<1>6. q \in Signed /\ q.who = who /\ q.age = call[c].age
  BY <1>1, <1>5 DEF Signed
<1>7. Fresh(call[c])
  BY DEF AccessInv, CallIsFresh
<1>8. Fresh(q)
  BY <1>1, <1>5, <1>6, <1>7 DEF Fresh
<1> HIDE DEF q
<1> QED BY <1>3, <1>6, <1>8, TablesTyped, CallStep DEF GetRole, CallState

LEMMA RequireScopeKeeps ==
  ASSUME AccessInv, NEW c \in Callers, RequireScope(c)
  PROVE  AccessInv'
BY SignedAt, GoesStep, ReturnStep, TablesTyped DEF RequireScope, CallAt

\* FillCache: what was read up to Slow ticks ago is kept for CacheTTL.
LEMMA FillKeeps ==
  ASSUME AccessInv, NEW c \in Callers, FillCache(c)
  PROVE  AccessInv'
<1> USE AccessAssumption DEF AccessAssumption
<1>1. call[c] \in Signed /\ call[c].at = "roles"
  BY SignedAt DEF FillCache, CallAt
<1>2. /\ call[c].user \in Users /\ call[c].who \in Principal
      /\ call[c].age \in 0 .. Slow /\ call[c].who.read <= call[c].age
  BY <1>1 DEF AccessInv, CallIsFresh, Fresh, Signed
<1> DEFINE x == [left |-> CacheTTL, who |-> call[c].who]
           q == [call[c] EXCEPT !.at = "scope?"]
<1>3. cache' = [cache EXCEPT ![call[c].user] = x] /\ call' = [call EXCEPT ![c] = q]
  BY DEF FillCache, Kept, Goes
<1>4. q \in CallState /\ Fresh(q)
  BY <1>1, <1>2 DEF CallState, Signed, Fresh, AccessInv, CallIsFresh, Principal
<1>5. x \in [left : 0 .. CacheTTL,
             who  : [platform : BOOLEAN, permitted : BOOLEAN, read : Nat]]
  BY <1>2 DEF Principal
<1> HIDE DEF x, q
<1>6. AccessTyped'
  <2>1. cache' \in [Users -> [left : 0 .. CacheTTL,
             who  : [platform : BOOLEAN, permitted : BOOLEAN, read : Nat]]]
    BY <1>3, <1>5 DEF AccessInv, AccessTyped, AccessTypeOK
  <2>2. call' \in [Callers -> CallState]
    BY <1>3, <1>4, TablesTyped
  <2> QED BY <2>1, <2>2, TablesTyped DEF FillCache, AccessTyped, AccessTypeOK
<1>9. call[c].who.read \in Nat
  BY <1>1, SignedFields
<1>7. CacheIsFresh'
  <2> SUFFICES ASSUME NEW u \in Users
               PROVE  IF cache'[u].left = 0 THEN cache'[u] = Uncached
                      ELSE cache'[u].who.read + cache'[u].left <= Slow + CacheTTL
    BY DEF CacheIsFresh
  <2>1. CASE u = call[c].user
    <3>1. cache'[u] = x
      BY <1>3, <2>1 DEF AccessInv, AccessTyped, AccessTypeOK
    <3> QED BY <1>2, <1>9, <3>1 DEF x
  <2>2. CASE u # call[c].user
    <3>1. cache'[u] = cache[u]
      BY <1>3, <2>2 DEF AccessInv, AccessTyped, AccessTypeOK
    <3> QED BY <3>1 DEF AccessInv, CacheIsFresh
  <2> QED BY <2>1, <2>2
<1>8. CallIsFresh'
  BY <1>3, <1>4 DEF AccessInv, CallIsFresh, AccessTyped
<1> QED BY <1>6, <1>7, <1>8 DEF AccessInv

LEMMA HandlersKeep ==
  ASSUME AccessInv, NEW c \in Callers,
         \/ \E u \in Users, r \in Roles : Invite(c, u, r)
         \/ \E u \in Users, st \in {"active", "disabled"} : SetStatus(c, u, st)
         \/ \E r \in Roles, yes \in BOOLEAN : SetPermissions(c, r, yes)
  PROVE  AccessInv'
<1>1. ASSUME NEW u \in Users, NEW r \in Roles, Invite(c, u, r)
      PROVE  AccessInv'
  <2>1. /\ status' \in [Users -> {"none", "invited", "active", "disabled"}]
        /\ bindings' \in [Users -> SUBSET Roles]
    BY <1>1, TablesTyped DEF Invite, InsertUser, BindRole
  <2> QED BY <1>1, <2>1, TablesTyped, ReturnStep DEF Invite, Handling
<1>2. ASSUME NEW u \in Users, NEW st \in {"active", "disabled"}, SetStatus(c, u, st)
      PROVE  AccessInv'
  <2>1. status' \in [Users -> {"none", "invited", "active", "disabled"}]
    BY <1>2, TablesTyped DEF SetStatus
  <2> QED BY <1>2, <2>1, TablesTyped, ReturnStep DEF SetStatus, Handling
<1>3. ASSUME NEW r \in Roles, NEW yes \in BOOLEAN, SetPermissions(c, r, yes)
      PROVE  AccessInv'
  <2>1. granting' \subseteq Roles
    BY <1>3, TablesTyped DEF SetPermissions, SetGrant
  <2> QED BY <1>3, <2>1, TablesTyped, ReturnStep DEF SetPermissions, Handling
<1> QED BY <1>1, <1>2, <1>3

\* A tick takes one from what is left to an entry and adds one to what it and
\* every request has read.
LEMMA AccessTickKeeps ==
  ASSUME AccessInv, AccessTick
  PROVE  AccessInv'
<1> USE AccessAssumption DEF AccessAssumption
<1>1. ASSUME NEW c \in Callers
      PROVE  call'[c] \in CallState /\ Fresh(call'[c])
  <2> DEFINE q == call[c]
  <2>1. call'[c] = OlderCall(q) /\ q \in CallState /\ Fresh(q)
    BY DEF AccessTick, AccessInv, AccessTyped, CallIsFresh
  <2>2. CASE q \in Signed
    <3>1. q.age < Slow /\ q.age \in 0 .. Slow /\ q.who \in Principal
      BY <2>2 DEF AccessTick, Signed
    <3>2. call'[c] = [q EXCEPT !.age = @ + 1, !.who.read = @ + 1]
      BY <2>1, <2>2 DEF OlderCall, Signed
    <3> DEFINE n == [at |-> q.at, user |-> q.user, todo |-> q.todo, age |-> q.age + 1,
                     who |-> [platform |-> q.who.platform, permitted |-> q.who.permitted,
                              read |-> q.who.read + 1]]
    <3>3. call'[c] = n
      BY <2>2, <3>2 DEF Signed, Principal
    <3>4. n \in Signed
      BY <2>2, <3>1 DEF Signed, Principal
    <3>5. Fresh(n)
      BY <2>1, <2>2, <3>1 DEF Fresh, Signed, Principal
    <3> QED BY <3>3, <3>4, <3>5 DEF CallState
  <2>3. CASE q \notin Signed
    <3>1. "age" \notin DOMAIN q
      BY <2>1, <2>3 DEF CallState, NoCall, Registering
    <3> QED BY <2>1, <2>3, <3>1 DEF OlderCall, Fresh
  <2> QED BY <2>2, <2>3
<1>2. ASSUME NEW u \in Users
      PROVE  /\ cache'[u] \in [left : 0 .. CacheTTL,
                  who : [platform : BOOLEAN, permitted : BOOLEAN, read : Nat]]
             /\ IF cache'[u].left = 0 THEN cache'[u] = Uncached
                ELSE cache'[u].who.read + cache'[u].left <= Slow + CacheTTL
  <2> DEFINE x == cache[u]
  <2>1. /\ cache'[u] = OlderEntry(x)
        /\ x \in [left : 0 .. CacheTTL, who : Principal]
        /\ x.left # 0 => x.who.read + x.left <= Slow + CacheTTL
    BY DEF AccessTick, AccessInv, AccessTyped, AccessTypeOK, CacheIsFresh, Principal
  <2>2. CASE x.left <= 1
    BY <2>1, <2>2 DEF OlderEntry, Uncached, Nobody
  <2>3. CASE ~(x.left <= 1)
    <3> DEFINE n == [left |-> x.left - 1,
                     who |-> [platform |-> x.who.platform, permitted |-> x.who.permitted,
                              read |-> x.who.read + 1]]
    <3>1. cache'[u] = n
      BY <2>1, <2>3 DEF OlderEntry, Principal
    <3> QED BY <2>1, <2>3, <3>1 DEF Principal
  <2> QED BY <2>1, <2>2, <2>3
<1>3. AccessTyped'
  BY <1>1, <1>2 DEF AccessTick, AccessInv, AccessTyped, AccessTypeOK
<1>4. CacheIsFresh' /\ CallIsFresh'
  BY <1>1, <1>2 DEF CacheIsFresh, CallIsFresh
<1> QED BY <1>3, <1>4 DEF AccessInv

LEMMA AccessStep == AccessInv /\ [AccessNext]_accessVars => AccessInv'
<1> SUFFICES ASSUME AccessInv, [AccessNext]_accessVars
             PROVE  AccessInv'
  OBVIOUS
<1>1. ASSUME NEW c \in Callers, NEW u \in Users, SetupPost(c, u) \/ RunSetup(c, u)
      PROVE  AccessInv'
  BY <1>1, SetupPostKeeps
<1>2. ASSUME NEW c \in Callers, SetupCommit(c) \/ RunSetupRole(c)
      PROVE  AccessInv'
  BY <1>2, SetupEndKeeps
<1>3. ASSUME NEW c \in Callers, NEW u \in Users, NEW form, Request(c, u, form)
      PROVE  AccessInv'
  BY <1>3, RequestKeeps
<1>4. ASSUME NEW c \in Callers,
             ListByUser(c) \/ GetRole(c) \/ RequireScope(c) \/ FillCache(c)
      PROVE  AccessInv'
  BY <1>4, ListByUserKeeps, GetRoleKeeps, RequireScopeKeeps, FillKeeps
<1>5. ASSUME NEW c \in Callers,
             \/ \E u \in Users, r \in Roles : Invite(c, u, r)
             \/ \E u \in Users, st \in {"active", "disabled"} : SetStatus(c, u, st)
             \/ \E r \in Roles, yes \in BOOLEAN : SetPermissions(c, r, yes)
      PROVE  AccessInv'
  BY <1>5, HandlersKeep
<1>6. ASSUME NEW u \in Users, SignIn(u)
      PROVE  AccessInv'
  BY <1>6 DEF SignIn, AccessInv, AccessTyped, AccessTypeOK, CacheIsFresh, CallIsFresh
<1>7. CASE AccessTick
  BY <1>7, AccessTickKeeps
<1>8. CASE UNCHANGED accessVars
  BY <1>8 DEF accessVars, AccessInv, AccessTyped, AccessTypeOK, CacheIsFresh, CallIsFresh
<1> QED BY <1>1, <1>2, <1>3, <1>4, <1>5, <1>6, <1>7, <1>8 DEF AccessNext

\* Every variable of the admin tables, the cache and the requests keeps its type.
THEOREM AccessTypeCorrect == AccessSpec => []AccessTypeOK
<1>1. AccessInv => AccessTypeOK
  BY DEF AccessInv, AccessTyped
<1> QED BY <1>1, InitAccessInv, AccessStep, PTL DEF AccessSpec

\* A handler relies on bindings that were read no longer ago than the lifetime of
\* the cache and the time of two requests, however many requests fill the cache
\* outside its lock (middleware/session.go CachedPrincipalHydrator).
THEOREM RevocationsTakeEffect == AccessSpec => []RevocationTakesEffect
<1>1. AccessInv => RevocationTakesEffect
  <2> SUFFICES ASSUME AccessInv, NEW c \in Callers, CallAt(c, "handle")
               PROVE  call[c].who.read < 2 * Slow + CacheTTL
    BY DEF RevocationTakesEffect
  <2>1. call[c] \in Signed
    BY SignedAt DEF CallAt
  <2>2. call[c].age \in 0 .. Slow /\ call[c].who.read \in Nat
    BY <2>1 DEF Signed, Principal
  <2> QED BY <2>1, <2>2, AccessAssumption DEF AccessInv, CallIsFresh, Fresh, AccessAssumption
<1> QED BY <1>1, InitAccessInv, AccessStep, PTL DEF AccessSpec
=============================================================================
