-------------------------- MODULE AuthSessionProofs --------------------------
(***************************************************************************)
(* Proofs about AuthSession for any accounts, teams, nonces, requests in   *)
(* flight and TTLs.                                                        *)
(***************************************************************************)
EXTENDS AuthSession, FiniteSetTheorems, TLAPS

(* Past the delete the challenge of an unlock is spent; before it, it is   *)
(* known to be one of the unlock's own scope.                              *)
UnlocksSpend ==
  \A r \in Request :
    LET c == req[r] IN
    /\ at[r] = "deleteChallenge" => challenge[c.nonce] = c.scope
    /\ at[r] \in {"nearKeys", "verify", "membership"} => Spent(c.nonce, c.scope)

(* A session id is stored once, by the request that drew it.               *)
DrawnOnce ==
  /\ \A s \in Session : Told(s) => s \in drawn
  /\ \A r \in Request : at[r] = "putSession" => req[r].sid \in drawn /\ ~Told(req[r].sid)
  /\ \A r, q \in Request :
       (at[r] = "putSession" /\ at[q] = "putSession" /\ req[r].sid = req[q].sid) => r = q

(* What a stored session says of itself, and that a logout is final.       *)
StoredFaithfully ==
  /\ \A s \in Session : Told(s) => session[s].expiresAt = session[s].createdAt + SessionTTL
  /\ \A s \in Session : Told(s) \/ sessionUntil[s] = 0
  /\ \A s \in loggedOut : Told(s) /\ sessionUntil[s] = 0

(* Spent after the step.                                                   *)
SpentNext(n, scope) == challenge'[n] = scope /\ nonceUntil'[n] = 0

IInv == TypeOK /\ UnlocksSpend /\ DrawnOnce /\ StoredFaithfully /\ EverySessionSpentAChallenge

-----------------------------------------------------------------------------

LEMMA InitIInv == Init => IInv
  BY TimeAssumption
     DEF Init, IInv, TypeOK, Step, UnlockStep, LookupStep, UnlocksSpend,
         DrawnOnce, StoredFaithfully, EverySessionSpentAChallenge, Told

(* A step of one request leaves the others where they were.                *)
LEMMA OthersKept ==
  ASSUME TypeOK, NEW r \in Request, RequestStep(r), NEW q \in Request, q # r
  PROVE  at'[q] = at[q] /\ req'[q] = req[q]
  BY DEF RequestStep, TypeOK, Goto, Reply, Start, MintSession, StartUnlock, GetChallenge,
     DeleteChallenge, NearKeys, VerifySignature, CheckMembership, PutSession, StartLookup,
     GetSession, DeleteExpired, ApiKeyLookup, Handle, Fails

(* What the minting of a session draws and carries to the put.             *)
LEMMA MintType ==
  ASSUME TypeOK, NEW r \in Request, at[r] \in UnlockStep, MintSession(r)
  PROVE  /\ at' = [at EXCEPT ![r] = "putSession"]
         /\ req' \in [Request -> Unlock \cup Lookup \cup Mint \cup {NoCall}]
         /\ req'[r] \in Mint /\ req'[r].sid \notin drawn
         /\ drawn' = drawn \cup {req'[r].sid}
         /\ req'[r].nonce = req[r].nonce /\ req'[r].scope = req[r].scope
         /\ req'[r].createdAt = now
<1>1. PICK s \in Session \ drawn :
        /\ drawn' = drawn \cup {s}
        /\ at' = [at EXCEPT ![r] = "putSession"]
        /\ req' = [req EXCEPT ![r] = [acct |-> @.acct, scope |-> @.scope, nonce |-> @.nonce,
                                      sid |-> s, createdAt |-> now]]
  BY DEF MintSession
<1>2. req[r] \in Unlock /\ now \in Nat
  BY TimeAssumption DEF TypeOK
<1>3. req'[r] = [acct |-> req[r].acct, scope |-> req[r].scope, nonce |-> req[r].nonce,
                 sid |-> s, createdAt |-> now]
  BY <1>1 DEF TypeOK
<1>4. req'[r] \in Mint
  BY <1>2, <1>3 DEF Unlock, Mint
<1>5. req' \in [Request -> Unlock \cup Lookup \cup Mint \cup {NoCall}]
  BY <1>1, <1>3, <1>4 DEF TypeOK
<1>6. QED
  BY <1>1, <1>3, <1>4, <1>5

LEMMA StoredType ==
  ASSUME TypeOK, NEW m \in Mint
  PROVE  Stored(m) \in Entry
  BY TimeAssumption DEF TypeOK, Mint, Stored, Entry

(* The slot of the request that moves stays well typed.                    *)
LEMMA SlotType ==
  ASSUME TypeOK, NEW r \in Request, RequestStep(r)
  PROVE  /\ at' \in [Request -> Step]
         /\ req' \in [Request -> Unlock \cup Lookup \cup Mint \cup {NoCall}]
         /\ at'[r] \in UnlockStep => req'[r] \in Unlock
         /\ at'[r] = "putSession" => req'[r] \in Mint
         /\ at'[r] \in LookupStep \cup {"authorised"} => req'[r] \in Lookup
<1> USE DEF TypeOK, Step, UnlockStep, LookupStep, Goto, Reply, Start
<1>1. CASE StartUnlock(r) \/ StartLookup(r)
  BY <1>1 DEF StartUnlock, StartLookup
<1>2. CASE GetChallenge(r) \/ DeleteChallenge(r) \/ NearKeys(r)
  BY <1>2 DEF GetChallenge, DeleteChallenge, NearKeys
<1>3. CASE VerifySignature(r)
  BY <1>3, MintType DEF VerifySignature
<1>4. CASE CheckMembership(r)
  BY <1>4, MintType DEF CheckMembership
<1>5. CASE PutSession(r) \/ DeleteExpired(r) \/ ApiKeyLookup(r) \/ Handle(r) \/ Fails(r)
  BY <1>5 DEF PutSession, DeleteExpired, ApiKeyLookup, Handle, Fails
<1>6. CASE GetSession(r)
  BY <1>6 DEF GetSession
<1>7. QED
  BY <1>1, <1>2, <1>3, <1>4, <1>5, <1>6 DEF RequestStep

(* What each step does to the two namespaces.                              *)
Quiet(r) ==
  \/ StartUnlock(r) \/ GetChallenge(r) \/ NearKeys(r) \/ StartLookup(r) \/ GetSession(r)
  \/ ApiKeyLookup(r) \/ Handle(r) \/ Fails(r)

LEMMA StepKinds ==
  ASSUME NEW r \in Request, RequestStep(r)
  PROVE  \/ Quiet(r) \/ VerifySignature(r) \/ CheckMembership(r)
         \/ DeleteChallenge(r) \/ PutSession(r) \/ DeleteExpired(r)
  BY DEF RequestStep, Quiet

LEMMA QuietStep ==
  ASSUME TypeOK, NEW r \in Request, Quiet(r)
  PROVE  /\ UNCHANGED <<now, challenges, sessions>>
         /\ at'[r] # "putSession"
         /\ at'[r] \in {"nearKeys", "verify", "membership"} =>
               at[r] \in {"nearKeys", "verify", "membership"} /\ req'[r] = req[r]
         /\ at'[r] = "deleteChallenge" =>
               at[r] = "getChallenge" /\ req'[r] = req[r] /\ GetChallenge(r)
  BY DEF Quiet, TypeOK, Goto, Reply, Start, StartUnlock, GetChallenge, NearKeys, StartLookup,
     GetSession, ApiKeyLookup, Handle, Fails

(* The last step before the put, for a user's unlock and for a team's.     *)
LEMMA CheckStep ==
  ASSUME TypeOK, NEW r \in Request, VerifySignature(r) \/ CheckMembership(r)
  PROVE  /\ at[r] \in {"verify", "membership"}
         /\ UNCHANGED <<now, challenges, session, sessionUntil, loggedOut>>
         /\ \/ /\ UNCHANGED drawn
               /\ at'[r] = "idle" \/ (at'[r] = "membership" /\ req'[r] = req[r])
            \/ at'[r] = "putSession" /\ MintSession(r)
  BY MintType DEF VerifySignature, CheckMembership, TypeOK, Goto, Reply, UnlockStep

LEMMA PutStep ==
  ASSUME TypeOK, NEW r \in Request, PutSession(r)
  PROVE  /\ at[r] = "putSession" /\ req[r] \in Mint /\ at'[r] = "idle"
         /\ session' = [session EXCEPT ![req[r].sid] = Stored(req[r])]
         /\ sessionUntil' = [sessionUntil EXCEPT ![req[r].sid] = now + SessionTTL]
         /\ UNCHANGED <<now, challenges, drawn, loggedOut>>
  BY DEF PutSession, TypeOK, Reply

LEMMA DeleteStep ==
  ASSUME TypeOK, NEW r \in Request, DeleteChallenge(r)
  PROVE  /\ at[r] = "deleteChallenge" /\ req[r] \in Unlock
         /\ at'[r] \in {"nearKeys", "verify"} /\ req'[r] = req[r]
         /\ nonceUntil' = [nonceUntil EXCEPT ![req[r].nonce] = 0]
         /\ UNCHANGED <<now, challenge, sessions>>
  BY DEF DeleteChallenge, TypeOK, Goto, UnlockStep

LEMMA ExpireStep ==
  ASSUME TypeOK, NEW r \in Request, DeleteExpired(r)
  PROVE  /\ at'[r] = "apiKey" /\ req[r] \in Lookup
         /\ sessionUntil' = [sessionUntil EXCEPT ![req[r].sid] = 0]
         /\ UNCHANGED <<now, challenges, session, drawn, loggedOut>>
  BY DEF DeleteExpired, TypeOK, Goto, LookupStep

-----------------------------------------------------------------------------

LEMMA TablesType ==
  ASSUME TypeOK, NEW r \in Request, RequestStep(r)
  PROVE  /\ now' \in 0..MaxTime
         /\ challenge' \in [Nonce -> Scope \cup {Nil}] /\ nonceUntil' \in [Nonce -> Nat]
         /\ session' \in [Session -> Entry \cup {Nil}] /\ sessionUntil' \in [Session -> Nat]
         /\ drawn' \subseteq Session /\ loggedOut' \subseteq drawn'
<1> USE DEF challenges, sessions
<1>1. CASE Quiet(r)
  BY <1>1, QuietStep DEF TypeOK
<1>2. CASE VerifySignature(r) \/ CheckMembership(r)
  BY <1>2, CheckStep, MintType DEF TypeOK, Mint, UnlockStep
<1>3. CASE DeleteChallenge(r)
  BY <1>3, DeleteStep DEF TypeOK, Unlock
<1>4. CASE PutSession(r)
  BY <1>4, PutStep, StoredType, TimeAssumption DEF TypeOK, Mint
<1>5. CASE DeleteExpired(r)
  BY <1>5, ExpireStep DEF TypeOK, Lookup
<1>6. QED
  BY <1>1, <1>2, <1>3, <1>4, <1>5 DEF RequestStep, Quiet

LEMMA RequestTypeOK ==
  ASSUME TypeOK, NEW r \in Request, RequestStep(r)
  PROVE  TypeOK'
<1>1. \A q \in Request : /\ at'[q] \in UnlockStep => req'[q] \in Unlock
                         /\ at'[q] = "putSession" => req'[q] \in Mint
                         /\ at'[q] \in LookupStep \cup {"authorised"} => req'[q] \in Lookup
  BY SlotType, OthersKept DEF TypeOK
<1>2. QED
  BY <1>1, SlotType, TablesType DEF TypeOK

LEMMA RequestUnlocksSpend ==
  ASSUME IInv, NEW r \in Request, RequestStep(r)
  PROVE  UnlocksSpend'
<1> USE DEF IInv, challenges, sessions
<1> SUFFICES ASSUME NEW q \in Request
             PROVE  /\ at'[q] = "deleteChallenge" => challenge'[req'[q].nonce] = req'[q].scope
                    /\ at'[q] \in {"nearKeys", "verify", "membership"} =>
                         SpentNext(req'[q].nonce, req'[q].scope)
  BY DEF UnlocksSpend, Spent, SpentNext
<1>1. challenge' = challenge
  BY QuietStep, CheckStep, DeleteStep, PutStep, ExpireStep, StepKinds
<1>2. \A n \in Nonce : nonceUntil[n] = 0 => nonceUntil'[n] = 0
  BY QuietStep, CheckStep, DeleteStep, PutStep, ExpireStep, StepKinds DEF TypeOK, Unlock
<1>3. CASE q # r
  BY <1>1, <1>2, <1>3, OthersKept DEF UnlocksSpend, Spent, SpentNext, TypeOK, UnlockStep, Unlock
<1>4. CASE q = r
  <2>1. CASE Quiet(r)
    <3>1. at'[r] = "deleteChallenge" => challenge'[req'[r].nonce] = req'[r].scope
      BY <1>1, <2>1, QuietStep DEF GetChallenge, Visible, Goto, Reply, TypeOK
    <3>2. QED
      BY <1>4, <2>1, <3>1, QuietStep DEF UnlocksSpend, Spent, SpentNext
  <2>2. CASE VerifySignature(r) \/ CheckMembership(r)
    BY <1>4, <2>2, CheckStep DEF UnlocksSpend, Spent, SpentNext
  <2>3. CASE DeleteChallenge(r)
    BY <1>1, <1>4, <2>3, DeleteStep DEF UnlocksSpend, Spent, SpentNext, Unlock, TypeOK
  <2>4. CASE PutSession(r) \/ DeleteExpired(r)
    BY <1>4, <2>4, PutStep, ExpireStep
  <2>5. QED
    BY <2>1, <2>2, <2>3, <2>4, StepKinds
<1>5. QED
  BY <1>3, <1>4

LEMMA RequestDrawnOnce ==
  ASSUME IInv, NEW r \in Request, RequestStep(r)
  PROVE  DrawnOnce'
<1> USE DEF IInv, challenges, sessions
<1>1. CASE Quiet(r) \/ DeleteChallenge(r) \/ DeleteExpired(r)
  <2>1. session' = session /\ drawn' = drawn /\ at'[r] # "putSession"
    BY <1>1, QuietStep, DeleteStep, ExpireStep
  <2>2. QED
    BY <2>1, OthersKept DEF DrawnOnce, Told
<1>2. CASE VerifySignature(r) \/ CheckMembership(r)
  <2>1. CASE at'[r] # "putSession"
    BY <1>2, <2>1, CheckStep, OthersKept DEF DrawnOnce, Told
  <2>2. CASE at'[r] = "putSession"
    <3>1. /\ session' = session /\ req'[r].sid \in Session /\ req'[r].sid \notin drawn
          /\ drawn' = drawn \cup {req'[r].sid}
      BY <1>2, <2>2, CheckStep, MintType DEF UnlockStep, Mint
    <3>2. ~Told(req'[r].sid)
      BY <3>1 DEF DrawnOnce
    <3>3. QED
      BY <3>1, <3>2, OthersKept DEF DrawnOnce, Told
  <2>3. QED
    BY <2>1, <2>2
<1>3. CASE PutSession(r)
  <2>1. req[r].sid \in drawn /\ req[r].sid \in Session
    BY <1>3, PutStep DEF DrawnOnce, Mint
  <2>2. \A s \in Session : s # req[r].sid => session'[s] = session[s]
    BY <1>3, PutStep DEF TypeOK
  <2>3. \A q \in Request : at'[q] = "putSession" => q # r /\ req'[q].sid # req[r].sid
    BY <1>3, PutStep, OthersKept DEF DrawnOnce
  <2>4. \A q \in Request : at'[q] = "putSession" => req'[q].sid \in Session
    BY RequestTypeOK DEF TypeOK, Mint
  <2>5. QED
    BY <1>3, <2>1, <2>2, <2>3, <2>4, PutStep, OthersKept DEF DrawnOnce, Told
<1>4. QED
  BY <1>1, <1>2, <1>3, StepKinds

LEMMA RequestStoredFaithfully ==
  ASSUME IInv, NEW r \in Request, RequestStep(r)
  PROVE  StoredFaithfully'
<1> USE DEF IInv, challenges, sessions
<1>1. CASE Quiet(r) \/ DeleteChallenge(r) \/ VerifySignature(r) \/ CheckMembership(r)
  BY <1>1, QuietStep, DeleteStep, CheckStep DEF StoredFaithfully, Told
<1>2. CASE DeleteExpired(r)
  BY <1>2, ExpireStep DEF StoredFaithfully, Told, TypeOK, Lookup
<1>3. CASE PutSession(r)
  <2>1. req[r].sid \in Session /\ req[r].sid \notin loggedOut
    BY <1>3, PutStep DEF DrawnOnce, StoredFaithfully, Mint
  <2>2. session'[req[r].sid] = Stored(req[r]) /\ Stored(req[r]) # Nil
    BY <1>3, <2>1, PutStep, StoredType, EntryAssumption DEF TypeOK
  <2>3. \A s \in Session : s # req[r].sid => session'[s] = session[s] /\ sessionUntil'[s] = sessionUntil[s]
    BY <1>3, PutStep DEF TypeOK
  <2>4. QED
    BY <1>3, <2>1, <2>2, <2>3, PutStep DEF StoredFaithfully, Told, Stored, TypeOK
<1>4. QED
  BY <1>1, <1>2, <1>3, StepKinds

LEMMA RequestSpent ==
  ASSUME IInv, NEW r \in Request, RequestStep(r)
  PROVE  EverySessionSpentAChallenge'
<1> USE DEF IInv, challenges, sessions
<1>1. challenge' = challenge
  BY QuietStep, CheckStep, DeleteStep, PutStep, ExpireStep, StepKinds
<1>2. \A n \in Nonce : nonceUntil[n] = 0 => nonceUntil'[n] = 0
  BY QuietStep, CheckStep, DeleteStep, PutStep, ExpireStep, StepKinds DEF TypeOK, Unlock
<1>3. \A n \in Nonce, x \in Scope : Spent(n, x) => SpentNext(n, x)
  BY <1>1, <1>2 DEF Spent, SpentNext
<1>4. ASSUME NEW q \in Request, at'[q] = "putSession"
      PROVE  SpentNext(req'[q].nonce, req'[q].scope)
  <2>1. CASE q # r
    BY <1>3, <1>4, <2>1, OthersKept DEF EverySessionSpentAChallenge, TypeOK, Mint
  <2>2. CASE q = r
    <3>1. /\ at[r] \in {"verify", "membership"} /\ MintSession(r)
      BY <1>4, <2>2, QuietStep, CheckStep, DeleteStep, PutStep, ExpireStep, StepKinds
    <3>2. Spent(req[r].nonce, req[r].scope) /\ req[r] \in Unlock
      BY <3>1 DEF UnlocksSpend, TypeOK, UnlockStep
    <3>3. QED
      BY <1>3, <2>2, <3>1, <3>2, MintType DEF Unlock, UnlockStep
  <2>3. QED
    BY <2>1, <2>2
<1>5. ASSUME NEW s \in Session, session'[s] # Nil
      PROVE  SpentNext(session'[s].nonce, session'[s].scope)
  <2>1. CASE session'[s] = session[s]
    BY <1>3, <1>5, <2>1 DEF EverySessionSpentAChallenge, Told, TypeOK, Entry
  <2>2. CASE session'[s] # session[s]
    <3>1. PutSession(r)
      BY <2>2, QuietStep, CheckStep, DeleteStep, ExpireStep, StepKinds
    <3>2. session'[s] = Stored(req[r]) /\ req[r] \in Mint
      BY <2>2, <3>1, PutStep DEF TypeOK
    <3>3. Spent(req[r].nonce, req[r].scope)
      BY <3>1, PutStep DEF EverySessionSpentAChallenge
    <3>4. QED
      BY <1>3, <3>2, <3>3 DEF Stored, Mint
  <2>3. QED
    BY <2>1, <2>2
<1>6. QED
  BY <1>4, <1>5 DEF EverySessionSpentAChallenge, Told, Spent, SpentNext

LEMMA RequestIInv ==
  ASSUME IInv, NEW r \in Request, RequestStep(r)
  PROVE  IInv'
  BY RequestTypeOK, RequestUnlocksSpend, RequestDrawnOnce, RequestStoredFaithfully, RequestSpent
     DEF IInv

-----------------------------------------------------------------------------
(* The steps that are no request's.                                        *)

LEMMA TickIInv ==
  ASSUME IInv, Tick
  PROVE  IInv'
<1> USE DEF IInv, Tick, challenges, sessions
<1>1. TypeOK'
  BY TimeAssumption DEF TypeOK
<1>2. QED
  BY <1>1 DEF UnlocksSpend, DrawnOnce, StoredFaithfully, EverySessionSpentAChallenge, Told, Spent

(* A nonce is drawn once, so issuing one disturbs no unlock and no session.*)
LEMMA IssueIInv ==
  ASSUME IInv, NEW n \in Nonce, NEW scope \in Scope, IssueChallenge(n, scope)
  PROVE  IInv'
<1> USE DEF IInv, IssueChallenge, sessions
<1>1. TypeOK'
  BY TimeAssumption DEF TypeOK
<1>2. \A m \in Nonce : m # n => challenge'[m] = challenge[m] /\ nonceUntil'[m] = nonceUntil[m]
  BY DEF TypeOK
<1>3. \A x \in Scope : challenge[n] # x
  BY ScopeAssumption
<1>4. UnlocksSpend'
  BY <1>2, <1>3 DEF UnlocksSpend, Spent, TypeOK, UnlockStep, Unlock
<1>5. EverySessionSpentAChallenge'
  BY <1>2, <1>3 DEF EverySessionSpentAChallenge, Told, Spent, TypeOK, Mint, Entry
<1>6. QED
  BY <1>1, <1>4, <1>5 DEF DrawnOnce, StoredFaithfully, Told

LEMMA LogoutIInv ==
  ASSUME IInv, NEW s \in Session, Logout(s)
  PROVE  IInv'
<1> USE DEF IInv, Logout, challenges
<1>1. TypeOK'
  BY DEF TypeOK, DrawnOnce
<1>2. StoredFaithfully'
  BY DEF StoredFaithfully, Told, TypeOK
<1>3. QED
  BY <1>1, <1>2 DEF UnlocksSpend, DrawnOnce, EverySessionSpentAChallenge, Told, Spent

LEMMA NextIInv == IInv /\ [Next]_vars => IInv'
<1> SUFFICES ASSUME IInv, [Next]_vars
             PROVE  IInv'
  OBVIOUS
<1>1. CASE Next
  BY <1>1, TickIInv, IssueIInv, RequestIInv, LogoutIInv DEF Next
<1>2. CASE UNCHANGED vars
  BY <1>2 DEF IInv, vars, challenges, sessions, TypeOK, UnlocksSpend, DrawnOnce,
     StoredFaithfully, EverySessionSpentAChallenge, Told, Spent
<1>3. QED
  BY <1>1, <1>2

LEMMA Invariance == Spec => []IInv
  BY InitIInv, NextIInv, PTL DEF Spec

(* Both namespaces and every request keep their shape.                     *)
THEOREM TypeCorrect == Spec => []TypeOK
<1>1. IInv => TypeOK
  BY DEF IInv
<1>2. QED
  BY <1>1, Invariance, PTL

(* No session exists, or is about to be stored, without a challenge of its *)
(* own scope that is gone for good.                                        *)
THEOREM SessionsSpendChallenges == Spec => []EverySessionSpentAChallenge
<1>1. IInv => EverySessionSpentAChallenge
  BY DEF IInv
<1>2. QED
  BY <1>1, Invariance, PTL

-----------------------------------------------------------------------------
(* Logout and expiry.                                                      *)

AuthorisesLive ==
  \A r \in Request :
     (at[r] = "getSession" /\ at'[r] = "authorised") =>
       /\ req[r].sid \notin loggedOut
       /\ now <= session[req[r].sid].createdAt + SessionTTL

LEMMA NextAuthorisesLive == IInv /\ [Next]_vars => AuthorisesLive
<1> SUFFICES ASSUME IInv, [Next]_vars, NEW r \in Request,
                    at[r] = "getSession", at'[r] = "authorised"
             PROVE  /\ req[r].sid \notin loggedOut
                    /\ now <= session[req[r].sid].createdAt + SessionTTL
  BY DEF AuthorisesLive
<1> USE DEF IInv
<1>1. at' # at
  OBVIOUS
<1>2. PICK q \in Request : RequestStep(q)
  BY <1>1 DEF Next, vars, Tick, IssueChallenge, Logout
<1>3. q = r
  BY <1>2, OthersKept
<1>4. GetSession(r)
  BY <1>2, <1>3 DEF RequestStep, TypeOK, Goto, Reply, Start, MintSession, StartUnlock,
     GetChallenge, DeleteChallenge, NearKeys, VerifySignature, CheckMembership, PutSession,
     StartLookup, DeleteExpired, ApiKeyLookup, Handle, Fails
<1>5. req[r] \in Lookup /\ req[r].sid \in Session
  BY DEF TypeOK, LookupStep, Lookup
<1>6. now < sessionUntil[req[r].sid] /\ now <= session[req[r].sid].expiresAt
  BY <1>4 DEF GetSession, Goto, Fresh, TypeOK
<1>7. req[r].sid \notin loggedOut
  BY <1>6, TimeAssumption DEF StoredFaithfully, TypeOK
<1>8. Told(req[r].sid)
  BY <1>5, <1>6, TimeAssumption DEF StoredFaithfully, TypeOK
<1>9. QED
  BY <1>5, <1>6, <1>7, <1>8 DEF StoredFaithfully

(* A request is authorised by no session that was logged out of, and by    *)
(* none older than SessionTTL.                                             *)
THEOREM LogoutAndExpiryHold == Spec => AuthorisedOnlyLive
<1>1. IInv /\ [Next]_vars => [AuthorisesLive]_vars
  BY NextAuthorisesLive
<1>2. QED
  BY <1>1, Invariance, PTL DEF Spec, AuthorisedOnlyLive, AuthorisesLive

-----------------------------------------------------------------------------
(* How often a challenge is reused.                                        *)

Spending == {"deleteChallenge", "nearKeys", "verify", "membership", "putSession"}

(* The unlocks that found the challenge and have not ended.                *)
Holders(n) == {r \in Request : at[r] \in Spending /\ req[r].nonce = n}

(* Each of them can still make one session.  Once the challenge is spent   *)
(* their number only falls; before that no session came out of it.         *)
UsesLeft ==
  \A n \in Nonce :
    /\ IsFiniteSet(SessionsOf(n))
    /\ Cardinality(SessionsOf(n)) + Cardinality(Holders(n)) <= Cardinality(Request)

HoldersNext(n) == {r \in Request : at'[r] \in Spending /\ req'[r].nonce = n}
SessionsNext(n) == {s \in Session : session'[s] # Nil /\ session'[s].nonce = n}

(* The uses of one nonce, as the size of two sets.                         *)
Bounded(S, H) == IsFiniteSet(S) /\ Cardinality(S) + Cardinality(H) <= Cardinality(Request)

LEMMA RequestSubset ==
  ASSUME NEW H, H \subseteq Request
  PROVE  /\ IsFiniteSet(H) /\ Cardinality(H) \in Nat /\ Cardinality(Request) \in Nat
         /\ Cardinality(H) <= Cardinality(Request)
<1>1. IsFiniteSet(H) /\ Cardinality(H) <= Cardinality(Request)
  BY RequestAssumption, FS_Subset
<1>2. QED
  BY <1>1, RequestAssumption, FS_CardinalityType

LEMMA FewerHolders ==
  ASSUME NEW S, NEW H, H \subseteq Request, NEW I, I \subseteq H, Bounded(S, H)
  PROVE  Bounded(S, I)
<1>1. Cardinality(I) <= Cardinality(H) /\ Cardinality(I) \in Nat /\ Cardinality(H) \in Nat
  <2>1. IsFiniteSet(H)
    BY RequestSubset
  <2>2. Cardinality(I) <= Cardinality(H)
    BY <2>1, FS_Subset
  <2>3. QED
    BY <2>2, RequestSubset
<1>2. Cardinality(S) \in Nat /\ Cardinality(Request) \in Nat
  BY RequestSubset, FS_CardinalityType DEF Bounded
<1>3. QED
  BY <1>1, <1>2 DEF Bounded

(* An unlock that stores its session is a holder no more.                  *)
LEMMA HolderStores ==
  ASSUME NEW S, NEW H, H \subseteq Request, NEW r \in H, NEW s, Bounded(S, H)
  PROVE  Bounded(S \cup {s}, H \ {r})
<1>1. /\ Cardinality(H) \in Nat /\ IsFiniteSet(H) /\ Cardinality(Request) \in Nat
      /\ Cardinality(S) \in Nat /\ IsFiniteSet(S)
  BY RequestSubset, FS_CardinalityType DEF Bounded
<1>2. Cardinality(H \ {r}) = Cardinality(H) - 1
  BY <1>1, FS_RemoveElement
<1>3. /\ IsFiniteSet(S \cup {s}) /\ Cardinality(S \cup {s}) \in Nat
      /\ Cardinality(S \cup {s}) <= Cardinality(S) + 1
  <2>1. /\ IsFiniteSet(S \cup {s})
        /\ Cardinality(S \cup {s}) = IF s \in S THEN Cardinality(S) ELSE Cardinality(S) + 1
    BY <1>1, FS_AddElement
  <2>2. QED
    BY <1>1, <2>1, FS_CardinalityType
<1>4. QED
  BY <1>1, <1>2, <1>3 DEF Bounded

(* A challenge that can be found has made no session.                      *)
LEMMA UnspentMadeNone ==
  ASSUME IInv, NEW n \in Nonce, now < nonceUntil[n]
  PROVE  SessionsOf(n) = {}
<1>1. now \in Nat /\ nonceUntil[n] # 0
  BY TimeAssumption DEF IInv, TypeOK
<1>2. QED
  BY <1>1 DEF IInv, EverySessionSpentAChallenge, Spent, SessionsOf

(* A request becomes a holder by finding the challenge.                    *)
LEMMA HoldersStep ==
  ASSUME IInv, NEW r \in Request, RequestStep(r), NEW n \in Nonce
  PROVE  \/ HoldersNext(n) \subseteq Holders(n)
         \/ GetChallenge(r) /\ now < nonceUntil[n]
<1> USE DEF IInv
<1> SUFFICES ASSUME NEW q \in HoldersNext(n), q \notin Holders(n)
             PROVE  GetChallenge(r) /\ now < nonceUntil[n]
  OBVIOUS
<1>1. q = r
  BY OthersKept DEF Holders, HoldersNext
<1>2. at'[r] \in Spending /\ req'[r].nonce = n
  BY <1>1 DEF HoldersNext
<1>3. ~(at'[r] \in Spending \ {"deleteChallenge"})
  <2> SUFFICES ASSUME at'[r] \in Spending \ {"deleteChallenge"}
               PROVE  at[r] \in Spending /\ req'[r].nonce = req[r].nonce
    BY <1>1, <1>2 DEF Holders
  <2>1. QED
    BY QuietStep, CheckStep, MintType, DeleteStep, PutStep, ExpireStep, StepKinds
       DEF Spending, UnlockStep
<1>4. at'[r] = "deleteChallenge"
  BY <1>2, <1>3
<1>5. req'[r] = req[r] /\ GetChallenge(r)
  BY <1>4, QuietStep, CheckStep, DeleteStep, PutStep, ExpireStep, StepKinds
<1>6. QED
  BY <1>2, <1>4, <1>5 DEF GetChallenge, Visible, Reply, TypeOK

LEMMA RequestUsesLeft ==
  ASSUME IInv, UsesLeft, NEW r \in Request, RequestStep(r), NEW n \in Nonce
  PROVE  Bounded(SessionsNext(n), HoldersNext(n))
<1> USE DEF IInv, challenges, sessions
<1>1. Holders(n) \subseteq Request /\ HoldersNext(n) \subseteq Request
  BY DEF Holders, HoldersNext
<1>2. Bounded(SessionsOf(n), Holders(n))
  BY DEF UsesLeft, Bounded
<1>3. CASE PutSession(r)
  <2>1. at[r] = "putSession" /\ req[r] \in Mint /\ at'[r] = "idle" /\ ~GetChallenge(r)
    BY <1>3, PutStep DEF GetChallenge
  <2>2. HoldersNext(n) \subseteq Holders(n) \ {r}
    BY <2>1, HoldersStep DEF HoldersNext, Spending
  <2>3. \A s \in Session : s # req[r].sid => session'[s] = session[s]
    BY <1>3, PutStep DEF TypeOK
  <2>4. session'[req[r].sid] = Stored(req[r]) /\ ~Told(req[r].sid)
    BY <1>3, <2>1, PutStep DEF TypeOK, Mint, DrawnOnce
  <2>5. CASE req[r].nonce = n
    <3>1. r \in Holders(n)
      BY <2>1, <2>5 DEF Holders, Spending
    <3>2. Bounded(SessionsOf(n) \cup {req[r].sid}, Holders(n) \ {r})
      BY <1>1, <1>2, <3>1, HolderStores
    <3>3. SessionsNext(n) = SessionsOf(n) \cup {req[r].sid}
      <4>1. Stored(req[r]) # Nil /\ Stored(req[r]).nonce = n /\ req[r].sid \in Session
        BY <2>1, <2>5, StoredType, EntryAssumption DEF Stored, Mint
      <4>2. QED
        BY <2>3, <2>4, <4>1 DEF SessionsNext, SessionsOf, Told
    <3>4. Bounded(SessionsOf(n) \cup {req[r].sid}, HoldersNext(n))
      BY <1>1, <2>2, <3>2, FewerHolders
    <3>5. QED
      BY <3>3, <3>4
  <2>6. CASE req[r].nonce # n
    <3>1. Stored(req[r]).nonce # n
      BY <2>6 DEF Stored
    <3>2. SessionsNext(n) = SessionsOf(n)
      BY <2>3, <2>4, <3>1 DEF SessionsNext, SessionsOf, Told
    <3>3. QED
      BY <1>1, <1>2, <2>2, <3>2, FewerHolders
  <2>7. QED
    BY <2>5, <2>6
<1>4. CASE ~PutSession(r)
  <2>1. session' = session
    BY <1>4, QuietStep, CheckStep, DeleteStep, ExpireStep, StepKinds
  <2>2. SessionsNext(n) = SessionsOf(n)
    BY <2>1 DEF SessionsNext, SessionsOf, Told
  <2>3. CASE HoldersNext(n) \subseteq Holders(n)
    BY <1>1, <1>2, <2>2, <2>3, FewerHolders
  <2>4. CASE now < nonceUntil[n]
    <3>1. SessionsNext(n) = {}
      BY <2>2, <2>4, UnspentMadeNone
    <3>2. IsFiniteSet({}) /\ Cardinality({}) = 0
      BY FS_EmptySet
    <3>3. Cardinality(HoldersNext(n)) <= Cardinality(Request)
            /\ Cardinality(HoldersNext(n)) \in Nat
      BY <1>1, RequestSubset
    <3>4. QED
      BY <3>1, <3>2, <3>3 DEF Bounded
  <2>5. QED
    BY <2>3, <2>4, HoldersStep
<1>5. QED
  BY <1>3, <1>4

LEMMA NextUsesLeft == IInv /\ UsesLeft /\ [Next]_vars => UsesLeft'
<1> SUFFICES ASSUME IInv, UsesLeft, [Next]_vars
             PROVE  UsesLeft'
  OBVIOUS
<1>1. CASE \E r \in Request : RequestStep(r)
  <2>1. \A n \in Nonce : Bounded(SessionsNext(n), HoldersNext(n))
    BY <1>1, RequestUsesLeft
  <2>2. QED
    BY <2>1 DEF UsesLeft, Bounded, SessionsNext, SessionsOf, Told, HoldersNext, Holders
<1>2. CASE ~\E r \in Request : RequestStep(r)
  <2>1. UNCHANGED <<session, at, req>>
    BY <1>2 DEF Next, vars, Tick, IssueChallenge, Logout, sessions
  <2>2. QED
    BY <2>1 DEF UsesLeft, SessionsOf, Told, Holders
<1>3. QED
  BY <1>1, <1>2

LEMMA InitUsesLeft == Init => UsesLeft
<1> SUFFICES ASSUME Init, NEW n \in Nonce
             PROVE  Bounded(SessionsOf(n), Holders(n))
  BY DEF UsesLeft, Bounded
<1>1. SessionsOf(n) = {} /\ Holders(n) = {}
  BY DEF Init, SessionsOf, Told, Holders, Spending
<1>2. Cardinality({}) = 0 /\ IsFiniteSet({}) /\ Cardinality(Request) \in Nat
  BY FS_EmptySet, RequestSubset
<1>3. QED
  BY <1>1, <1>2 DEF Bounded

LEMMA UsesBounded ==
  ASSUME UsesLeft, NEW n \in Nonce
  PROVE  /\ IsFiniteSet(SessionsOf(n)) /\ Cardinality(SessionsOf(n)) \in Nat
         /\ Cardinality(SessionsOf(n)) <= Cardinality(Request)
<1>1. Holders(n) \subseteq Request
  BY DEF Holders
<1>2. Cardinality(Holders(n)) \in Nat /\ Cardinality(Request) \in Nat
  BY <1>1, RequestSubset
<1>3. IsFiniteSet(SessionsOf(n)) /\ Cardinality(SessionsOf(n)) \in Nat
  BY FS_CardinalityType DEF UsesLeft
<1>4. QED
  BY <1>2, <1>3 DEF UsesLeft

(* A challenge makes at most one session for each request that can be in   *)
(* flight: the delete after the read lets overlapping unlocks share it, and*)
(* stops every later one.                                                  *)
THEOREM ReplaysOverlap == Spec => []ReplayNeedsOverlap
<1>1. UsesLeft => ReplayNeedsOverlap
  BY UsesBounded DEF ReplayNeedsOverlap
<1>2. QED
  BY <1>1, InitUsesLeft, NextUsesLeft, Invariance, PTL DEF Spec

(* Requests do not overlap.                                                *)
Serial == \A r, q \in Request : r = q

(* When requests do not overlap, a challenge makes one session at most:    *)
(* the race of two unlocks is the only way to replay it.                   *)
THEOREM SerialUnlocksAreSingleUse ==
  ASSUME Serial
  PROVE  Spec => []ChallengeSingleUse
<1>1. Cardinality(Request) <= 1
  <2>1. CASE Request = {}
    BY <2>1, FS_EmptySet
  <2>2. CASE Request # {}
    <3>1. PICK r : Request = {r}
      BY <2>2 DEF Serial
    <3>2. QED
      BY <3>1, FS_Singleton
  <2>3. QED
    BY <2>1, <2>2
<1>2. UsesLeft => ChallengeSingleUse
  <2> SUFFICES ASSUME UsesLeft, NEW n \in Nonce, NEW s \in SessionsOf(n), NEW t \in SessionsOf(n)
               PROVE  s = t
    BY DEF ChallengeSingleUse
  <2>1. /\ IsFiniteSet(SessionsOf(n)) /\ Cardinality(SessionsOf(n)) \in Nat
        /\ Cardinality(SessionsOf(n)) <= 1
    BY <1>1, UsesBounded, RequestSubset
  <2>2. Cardinality(SessionsOf(n)) # 0
    BY <2>1, FS_EmptySet
  <2>3. Cardinality(SessionsOf(n)) = 1
    BY <2>1, <2>2
  <2>4. PICK x : SessionsOf(n) = {x}
    BY <2>1, <2>3, FS_Singleton
  <2>5. QED
    BY <2>4
<1>3. QED
  BY <1>2, InitUsesLeft, NextUsesLeft, Invariance, PTL DEF Spec
=============================================================================
