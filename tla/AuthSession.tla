----------------------------- MODULE AuthSession -----------------------------
(***************************************************************************)
(* Challenges and sessions of the gateway (src/gateway/src/index.ts): the  *)
(* two KV namespaces, the routes that issue and consume challenges, put    *)
(* and delete sessions, and the session lookup every other route starts    *)
(* with.  Every await is the end of an action; a KV entry is seen until    *)
(* its native TTL has passed.  Time is counted in ticks.                   *)
(***************************************************************************)
EXTENDS Naturals, FiniteSets

CONSTANTS
  Account,       \* accounts that unlock
  Team,          \* teams that issue challenges of their own
  Nonce,         \* 32-byte nonces, each drawn once
  Session,       \* session UUIDs, each drawn once
  Request,       \* requests in flight at once
  UserScope,     \* the scope of /auth/challenge, none of Team
  ChallengeTTL,  \* expirationTtl of a challenge
  SessionTTL,    \* expirationTtl of a session, and its expiresAt
  MaxTime,       \* bound on the clock
  Nil            \* no account, no scope, no nonce

Scope == Team \cup {UserScope}

ASSUME ScopeAssumption == UserScope \notin Team /\ Nil \notin Scope
ASSUME RequestAssumption == IsFiniteSet(Request)
ASSUME TimeAssumption == ChallengeTTL \in Nat /\ SessionTTL \in Nat /\ MaxTime \in Nat

VARIABLES
  now,           \* Date.now()
  challenge,     \* CHALLENGES_KV: the scope in the key of each nonce
  nonceUntil,    \* when KV drops the nonce, 0 once deleted
  session,       \* SESSIONS_KV: the stored object
  sessionUntil,  \* when KV drops the session, 0 once deleted
  drawn,         \* session UUIDs generated so far
  loggedOut,     \* sessions whose logout was answered
  at, req        \* the await each request is in, and what it carries

vars == <<now, challenge, nonceUntil, session, sessionUntil, drawn, loggedOut, at, req>>
challenges == <<challenge, nonceUntil>>
sessions == <<session, sessionUntil, drawn, loggedOut>>

(* The nonce is kept in the session object for the properties only.        *)
Entry == [acct: Account, scope: Scope, nonce: Nonce, createdAt: Nat, expiresAt: Nat]
ASSUME EntryAssumption == Nil \notin Entry

Unlock == [acct: Account, scope: Scope, nonce: Nonce]
Lookup == [sid: Session, mcp: BOOLEAN]
Mint == [acct: Account, scope: Scope, nonce: Nonce, sid: Session, createdAt: Nat]
NoCall == [none |-> Nil]

UnlockStep == {"getChallenge", "deleteChallenge", "nearKeys", "verify", "membership"}
LookupStep == {"getSession", "deleteExpired", "apiKey"}
Step == UnlockStep \cup LookupStep \cup {"idle", "putSession", "authorised"}

TypeOK ==
  /\ now \in 0..MaxTime
  /\ challenge \in [Nonce -> Scope \cup {Nil}] /\ nonceUntil \in [Nonce -> Nat]
  /\ session \in [Session -> Entry \cup {Nil}] /\ sessionUntil \in [Session -> Nat]
  /\ drawn \subseteq Session /\ loggedOut \subseteq drawn
  /\ at \in [Request -> Step]
  /\ req \in [Request -> Unlock \cup Lookup \cup Mint \cup {NoCall}]
  /\ \A r \in Request : /\ at[r] \in UnlockStep => req[r] \in Unlock
                        /\ at[r] = "putSession" => req[r] \in Mint
                        /\ at[r] \in LookupStep \cup {"authorised"} => req[r] \in Lookup

Init ==
  /\ now = 0
  /\ challenge = [n \in Nonce |-> Nil] /\ nonceUntil = [n \in Nonce |-> 0]
  /\ session = [s \in Session |-> Nil] /\ sessionUntil = [s \in Session |-> 0]
  /\ drawn = {} /\ loggedOut = {}
  /\ at = [r \in Request |-> "idle"]
  /\ req = [r \in Request |-> NoCall]

Tick == /\ now < MaxTime
        /\ now' = now + 1
        /\ UNCHANGED <<challenges, sessions, at, req>>

Goto(r, step) == at' = [at EXCEPT ![r] = step] /\ UNCHANGED req

Reply(r) == /\ at' = [at EXCEPT ![r] = "idle"]
            /\ req' = [req EXCEPT ![r] = NoCall]

Start(r, step, call) == /\ at[r] = "idle"
                        /\ at' = [at EXCEPT ![r] = step]
                        /\ req' = [req EXCEPT ![r] = call]

-----------------------------------------------------------------------------
(* /auth/challenge and /auth/team/challenge: one KV put.                   *)
IssueChallenge(n, scope) ==
  /\ challenge[n] = Nil
  /\ challenge' = [challenge EXCEPT ![n] = scope]
  /\ nonceUntil' = [nonceUntil EXCEPT ![n] = now + ChallengeTTL]
  /\ UNCHANGED <<now, sessions, at, req>>

-----------------------------------------------------------------------------
(* /auth/unlock and /auth/team/unlock.                                     *)

StartUnlock(r) ==
  /\ \E call \in Unlock : Start(r, "getChallenge", call)
  /\ UNCHANGED <<now, challenges, sessions>>

VisibleInAnyScope(n, scope) == now < nonceUntil[n]   \* mutant: no scope in the key

(* The key holds the scope, so a nonce is found under its own scope only.  *)
Visible(n, scope) == challenge[n] = scope /\ now < nonceUntil[n]

GetChallenge(r) ==
  /\ at[r] = "getChallenge"
  /\ IF Visible(req[r].nonce, req[r].scope)
       THEN Goto(r, "deleteChallenge")
       ELSE Reply(r)                                   \* CHALLENGE_NOT_FOUND
  /\ UNCHANGED <<now, challenges, sessions>>

(* Mutant: the consumed nonce is marked in place instead of deleted.       *)
DeleteChallengeMarks(r) ==
  /\ at[r] = "deleteChallenge"
  /\ challenge' = [challenge EXCEPT ![req[r].nonce] = "used"]
  /\ Goto(r, IF req[r].scope = UserScope THEN "nearKeys" ELSE "verify")
  /\ UNCHANGED <<now, nonceUntil, sessions>>

(* Mutant: the delete is left out.                                         *)
DeleteChallengeSkipped(r) ==
  /\ at[r] = "deleteChallenge"
  /\ Goto(r, IF req[r].scope = UserScope THEN "nearKeys" ELSE "verify")
  /\ UNCHANGED <<now, challenges, sessions>>

DeleteChallenge(r) ==
  /\ at[r] = "deleteChallenge"
  /\ nonceUntil' = [nonceUntil EXCEPT ![req[r].nonce] = 0]
  /\ Goto(r, IF req[r].scope = UserScope THEN "nearKeys" ELSE "verify")
  /\ UNCHANGED <<now, challenge, sessions>>

(* NEAR RPC: the key is registered; or an error, an unknown account or an  *)
(* unregistered key ends the request.                                      *)
NearKeys(r) ==
  /\ at[r] = "nearKeys"
  /\ Goto(r, "verify") \/ Reply(r)
  /\ UNCHANGED <<now, challenges, sessions>>

(* randomUUID() and the session object, up to the put that stores it.      *)
MintSession(r) ==
  \E s \in Session \ drawn :
    /\ drawn' = drawn \cup {s}
    /\ at' = [at EXCEPT ![r] = "putSession"]
    /\ req' = [req EXCEPT ![r] = [acct |-> @.acct, scope |-> @.scope, nonce |-> @.nonce,
                                  sid |-> s, createdAt |-> now]]

(* The Ed25519 check; a team unlock goes on to the membership query.       *)
VerifySignature(r) ==
  /\ at[r] = "verify"
  /\ \/ Reply(r) /\ UNCHANGED drawn                    \* INVALID_SIGNATURE
     \/ req[r].scope = UserScope /\ MintSession(r)
     \/ req[r].scope # UserScope /\ Goto(r, "membership") /\ UNCHANGED drawn
  /\ UNCHANGED <<now, challenges, session, sessionUntil, loggedOut>>

(* Membership is the team registry's; either answer is possible here.      *)
CheckMembership(r) ==
  /\ at[r] = "membership"
  /\ \/ Reply(r) /\ UNCHANGED drawn                    \* TEAM_MEMBER_REQUIRED
     \/ MintSession(r)
  /\ UNCHANGED <<now, challenges, session, sessionUntil, loggedOut>>

(* expiresAt was fixed with createdAt; KV counts its TTL from the put.     *)
Stored(m) == [acct |-> m.acct, scope |-> m.scope, nonce |-> m.nonce,
              createdAt |-> m.createdAt, expiresAt |-> m.createdAt + SessionTTL]

PutSession(r) ==
  /\ at[r] = "putSession"
  /\ session' = [session EXCEPT ![req[r].sid] = Stored(req[r])]
  /\ sessionUntil' = [sessionUntil EXCEPT ![req[r].sid] = now + SessionTTL]
  /\ Reply(r)
  /\ UNCHANGED <<now, challenges, drawn, loggedOut>>

-----------------------------------------------------------------------------
(* Using a session, and logging out of it.                                 *)

(* Clients know a session id from the answer to the unlock that made it.   *)
Told(s) == session[s] # Nil

(* Mutant: the logout deletes under another key than the put used.         *)
LogoutMisses(s) ==
  /\ Told(s)
  /\ loggedOut' = loggedOut \cup {s}
  /\ UNCHANGED <<now, challenges, session, sessionUntil, drawn, at, req>>

Logout(s) ==
  /\ Told(s)
  /\ sessionUntil' = [sessionUntil EXCEPT ![s] = 0]
  /\ loggedOut' = loggedOut \cup {s}
  /\ UNCHANGED <<now, challenges, session, drawn, at, req>>

StartLookup(r) ==
  /\ \E call \in Lookup : Told(call.sid) /\ Start(r, "getSession", call)
  /\ UNCHANGED <<now, challenges, sessions>>

Fresh(e) == now <= e.expiresAt

(* getAuthenticatedUser, and the same lookup in /mcp: what KV returns is   *)
(* used only until its own expiresAt.                                      *)
GetSession(r) ==
  LET e == session[req[r].sid]
      found == now < sessionUntil[req[r].sid]
  IN
  /\ at[r] = "getSession"
  /\ \/ found /\ Fresh(e) /\ Goto(r, "authorised")
     \/ found /\ ~Fresh(e) /\ Goto(r, IF req[r].mcp THEN "deleteExpired" ELSE "apiKey")
     \/ ~found /\ Goto(r, "apiKey")
  /\ UNCHANGED <<now, challenges, sessions>>

(* /mcp deletes the entry it found expired.                                *)
DeleteExpired(r) ==
  /\ at[r] = "deleteExpired"
  /\ sessionUntil' = [sessionUntil EXCEPT ![req[r].sid] = 0]
  /\ Goto(r, "apiKey")
  /\ UNCHANGED <<now, challenges, session, drawn, loggedOut>>

(* A session id is no user's API key: the lookup finds nobody (401).       *)
ApiKeyLookup(r) ==
  /\ at[r] = "apiKey"
  /\ Reply(r)
  /\ UNCHANGED <<now, challenges, sessions>>

(* The route the session was looked up for runs and answers.               *)
Handle(r) ==
  /\ at[r] = "authorised"
  /\ Reply(r)
  /\ UNCHANGED <<now, challenges, sessions>>

(* KV, the RPC or D1 fails without effect and the request ends in an error.*)
Fails(r) ==
  /\ at[r] # "idle"
  /\ Reply(r)
  /\ UNCHANGED <<now, challenges, sessions>>

RequestStep(r) ==
  \/ StartUnlock(r) \/ GetChallenge(r) \/ DeleteChallenge(r) \/ NearKeys(r)
  \/ VerifySignature(r) \/ CheckMembership(r) \/ PutSession(r)
  \/ StartLookup(r) \/ GetSession(r) \/ DeleteExpired(r) \/ ApiKeyLookup(r)
  \/ Handle(r) \/ Fails(r)

Next ==
  \/ Tick
  \/ \E n \in Nonce, scope \in Scope : IssueChallenge(n, scope)
  \/ \E r \in Request : RequestStep(r)
  \/ \E s \in Session : Logout(s)

Spec == Init /\ [][Next]_vars

-----------------------------------------------------------------------------
(* Properties.                                                             *)

(* A request is authorised only by a session that nobody logged out of,    *)
(* within SessionTTL of the unlock that made it: KV alone would keep it    *)
(* longer, since its TTL starts at the put.                                *)
AuthorisedOnlyLive ==
  [][\A r \in Request :
       (at[r] = "getSession" /\ at'[r] = "authorised") =>
         /\ req[r].sid \notin loggedOut
         /\ now <= session[req[r].sid].createdAt + SessionTTL]_vars

(* Every session, stored or about to be, spent a challenge that was issued *)
(* in its own scope and that no later request can read.                    *)
Spent(n, scope) == challenge[n] = scope /\ nonceUntil[n] = 0

EverySessionSpentAChallenge ==
  /\ \A s \in Session : Told(s) => Spent(session[s].nonce, session[s].scope)
  /\ \A r \in Request : at[r] = "putSession" => Spent(req[r].nonce, req[r].scope)

(* Sessions that came out of one challenge.                                *)
SessionsOf(n) == {s \in Session : Told(s) /\ session[s].nonce = n}

(* A challenge makes one session at most (docs/IDENTITY.md, 2.3:           *)
(* "Challenges MUST be single-use").                                       *)
ChallengeSingleUse ==
  \A n \in Nonce : \A s, t \in SessionsOf(n) : s = t

(* A nonce makes no more sessions than there are requests in flight at     *)
(* once: only requests that overlap the first one can reuse it.            *)
ReplayNeedsOverlap ==
  \A n \in Nonce : Cardinality(SessionsOf(n)) <= Cardinality(Request)
=============================================================================
