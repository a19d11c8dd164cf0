---------------------------- MODULE UserAccounts -----------------------------
(***************************************************************************)
(* The users table of the gateway (src/gateway/src/index.ts): registration,*)
(* API keys, plans, and the metering around vault_write.  A request awaits *)
(* one D1 statement or one agent call at a time; a statement is atomic and *)
(* awaits of different requests interleave.                                *)
(***************************************************************************)
EXTENDS Naturals, FiniteSets, FiniteSetsExt

CONSTANTS
  Account, Key,  \* NEAR accounts; random API keys, each drawn once
  Request,       \* requests in flight at once
  Op,            \* the routes in use
  Size,          \* sizes of the blobs the agent may report
  LimitOf,       \* storage_limit_bytes of each plan
  MaxStored,     \* bound on the bytes one account stores
  D1Fails,       \* whether a D1 statement may fail
  Nil

Tier == {"free", "developer", "team"}

ASSUME RequestAssumption == IsFiniteSet(Request) /\ Request # {}
ASSUME OpAssumption == Op \subseteq {"register", "generate", "subscribe", "write"}
ASSUME LimitAssumption == LimitOf \in [Tier -> Nat \ {0}]
ASSUME SizeAssumption == Size \subseteq Nat \ {0} /\ \E n \in Size : \A m \in Size : n >= m
ASSUME BoundAssumption == D1Fails \in BOOLEAN /\ MaxStored \in Nat

VARIABLES
  user,     \* the row of each account, Nil if it has none
  drawn,    \* keys generated so far
  retired,  \* keys that a rotation replaced
  stored,   \* bytes of the blobs stored for each account
  lost,     \* bytes never metered: the answer was lost, the UPDATE failed or met no row
  at, req   \* the await each request is in, and what it carries

vars == <<user, drawn, retired, stored, lost, at, req>>

Row == [key: Key, tier: Tier, used: Nat]

(* cred is the API key a request came with, Nil when a session named the   *)
(* account; tier is a subscribe's plan, size that of the blob of a write.  *)
Call == [op: Op, acct: Account \cup {Nil}, cred: Key \cup {Nil}, tier: Tier, size: Size \cup {0}]
NoCall == [op |-> Nil]

FirstStep == [register |-> "lookup", generate |-> "rotate",
              subscribe |-> "setTier", write |-> "quota"]

OwnStep == {"lookup", "insert", "rotate", "setTier", "quota", "agent", "meter"}
Step == OwnStep \cup {"idle", "keyLookup"}

ASSUME NilAssumption == Nil \notin Row /\ Nil \notin Key /\ Nil \notin Account

TypeOK ==
  /\ user \in [Account -> Row \cup {Nil}]
  /\ drawn \subseteq Key /\ retired \subseteq drawn
  /\ stored \in [Account -> Nat] /\ lost \in [Account -> Nat]
  /\ at \in [Request -> Step]
  /\ req \in [Request -> Call \cup {NoCall}]
  /\ \A r \in Request :
       /\ at[r] # "idle" => req[r] \in Call
       /\ at[r] = "keyLookup" => req[r].cred \in drawn
       /\ at[r] \in OwnStep => req[r].acct \in Account
       /\ at[r] = "meter" => req[r].size \in Size

Init ==
  /\ user = [a \in Account |-> Nil]
  /\ drawn = {} /\ retired = {}
  /\ stored = [a \in Account |-> 0] /\ lost = [a \in Account |-> 0]
  /\ at = [r \in Request |-> "idle"]
  /\ req = [r \in Request |-> NoCall]

Registered(a) == user[a] # Nil

Goto(r, step) == at' = [at EXCEPT ![r] = step] /\ UNCHANGED req

Reply(r) == /\ at' = [at EXCEPT ![r] = "idle"]
            /\ req' = [req EXCEPT ![r] = NoCall]

-----------------------------------------------------------------------------
(* Authentication, by a session or by an API key.                          *)

Accept(r) ==
  /\ at[r] = "idle"
  /\ \E c \in Call :
       /\ c.size = 0 /\ (c.op # "subscribe" => c.tier = "free")
       /\ req' = [req EXCEPT ![r] = c]
       /\ \/ /\ c.acct # Nil /\ c.cred = Nil
             /\ at' = [at EXCEPT ![r] = FirstStep[c.op]]
          \/ /\ c.acct = Nil /\ c.cred \in drawn
             /\ at' = [at EXCEPT ![r] = "keyLookup"]
  /\ UNCHANGED <<user, drawn, retired, stored, lost>>

OwnsKey(a, k) == Registered(a) /\ user[a].key = k

(* SELECT near_account_id FROM users WHERE api_key = ?; none answers 401.  *)
KeyLookup(r) ==
  /\ at[r] = "keyLookup"
  /\ \/ \E a \in Account :
          /\ OwnsKey(a, req[r].cred)
          /\ at' = [at EXCEPT ![r] = FirstStep[req[r].op]]
          /\ req' = [req EXCEPT ![r] = [op |-> @.op, acct |-> a, cred |-> @.cred,
                                        tier |-> @.tier, size |-> @.size]]
     \/ /\ \A a \in Account : ~OwnsKey(a, req[r].cred)
        /\ Reply(r)
  /\ UNCHANGED <<user, drawn, retired, stored, lost>>

-----------------------------------------------------------------------------
(* /api/register                                                           *)

(* An account with a row is answered from it.                              *)
RegisterLookup(r) ==
  /\ at[r] = "lookup"
  /\ IF Registered(req[r].acct) THEN Reply(r) ELSE Goto(r, "insert")
  /\ UNCHANGED <<user, drawn, retired, stored, lost>>

(* Mutant: INSERT OR REPLACE.                                              *)
RegisterReplaces(r) ==
  LET a == req[r].acct IN
  /\ at[r] = "insert"
  /\ \E k \in Key \ drawn :
       /\ drawn' = drawn \cup {k}
       /\ user' = [user EXCEPT ![a] = [key |-> k, tier |-> "free", used |-> 0]]
  /\ Reply(r)
  /\ UNCHANGED <<retired, stored, lost>>

(* The primary key makes the INSERT fail when another request came first.  *)
RegisterInsert(r) ==
  LET a == req[r].acct IN
  /\ at[r] = "insert"
  /\ \E k \in Key \ drawn :
       /\ drawn' = drawn \cup {k}
       /\ user' = IF Registered(a) THEN user
                  ELSE [user EXCEPT ![a] = [key |-> k, tier |-> "free", used |-> 0]]
  /\ Reply(r)
  /\ UNCHANGED <<retired, stored, lost>>

-----------------------------------------------------------------------------
(* /api/keys/generate and /api/billing/subscribe: one UPDATE each, which   *)
(* changes nothing when the account has no row.                            *)

(* Mutant: the UPDATE's WHERE clause finds no row.                         *)
RotateMisses(r) ==
  LET a == req[r].acct IN
  /\ at[r] = "rotate"
  /\ \E k \in Key \ drawn : drawn' = drawn \cup {k}
  /\ retired' = IF Registered(a) THEN retired \cup {user[a].key} ELSE retired
  /\ Reply(r)
  /\ UNCHANGED <<user, stored, lost>>

RotateKey(r) ==
  LET a == req[r].acct
      row == user[a]
  IN
  /\ at[r] = "rotate"
  /\ \E k \in Key \ drawn :
       /\ drawn' = drawn \cup {k}
       /\ IF Registered(a)
            THEN /\ user' = [user EXCEPT ![a] = [key |-> k, tier |-> row.tier, used |-> row.used]]
                 /\ retired' = retired \cup {row.key}
            ELSE UNCHANGED <<user, retired>>
  /\ Reply(r)
  /\ UNCHANGED <<stored, lost>>

SetTier(r) ==
  LET a == req[r].acct
      row == user[a]
  IN
  /\ at[r] = "setTier"
  /\ user' = IF Registered(a)
               THEN [user EXCEPT ![a] = [key |-> row.key, tier |-> req[r].tier, used |-> row.used]]
               ELSE user
  /\ Reply(r)
  /\ UNCHANGED <<drawn, retired, stored, lost>>

-----------------------------------------------------------------------------
(* tools/call vault_write: quota check, agent call, metering.              *)

FullBeyond(row) == row.used > LimitOf[row.tier]   \* mutant: off by one

Full(row) == row.used >= LimitOf[row.tier]

(* A failed read, or an account without a row, lets the write through.     *)
CheckQuota(r) ==
  LET a == req[r].acct IN
  /\ at[r] = "quota"
  /\ \/ Registered(a) /\ Full(user[a]) /\ Reply(r)     \* QUOTA_EXCEEDED
     \/ ~(Registered(a) /\ Full(user[a])) /\ Goto(r, "agent")
     \/ D1Fails /\ Goto(r, "agent")
  /\ UNCHANGED <<user, drawn, retired, stored, lost>>

ToMeter(r, n) ==
  /\ at' = [at EXCEPT ![r] = "meter"]
  /\ req' = [req EXCEPT ![r] = [op |-> @.op, acct |-> @.acct, cred |-> @.cred,
                                tier |-> @.tier, size |-> n]]

(* Mutant: an errored write is metered like any other.                     *)
AgentWriteUnchecked(r) ==
  /\ at[r] = "agent"
  /\ \E n \in Size : ToMeter(r, n)
  /\ UNCHANGED <<user, drawn, retired, stored, lost>>

(* Mutant: an answer without a size is metered.                            *)
AgentWriteSizeless(r) ==
  /\ at[r] = "agent"
  /\ ToMeter(r, 0)
  /\ UNCHANGED <<user, drawn, retired, stored, lost>>

(* handleVaultWrite: a stored blob and its size; a stored blob whose answer*)
(* is lost, or could not be read and has no size; or an error.             *)
AgentWrite(r) ==
  LET a == req[r].acct IN
  /\ at[r] = "agent"
  /\ \/ \E n \in Size :
          /\ stored[a] + n <= MaxStored
          /\ stored' = [stored EXCEPT ![a] = @ + n]
          /\ \/ ToMeter(r, n) /\ UNCHANGED lost
             \/ Reply(r) /\ lost' = [lost EXCEPT ![a] = @ + n]
     \/ Reply(r) /\ UNCHANGED <<stored, lost>>
  /\ UNCHANGED <<user, drawn, retired>>

(* SET storage_used_bytes = storage_used_bytes + ?, its errors swallowed.  *)
Meter(r) ==
  LET a == req[r].acct
      row == user[a]
      n == req[r].size
  IN
  /\ at[r] = "meter"
  /\ \/ /\ Registered(a)
        /\ user' = [user EXCEPT ![a] = [key |-> row.key, tier |-> row.tier, used |-> row.used + n]]
        /\ UNCHANGED lost
     \/ /\ ~Registered(a) \/ D1Fails
        /\ lost' = [lost EXCEPT ![a] = @ + n]
        /\ UNCHANGED user
  /\ Reply(r)
  /\ UNCHANGED <<drawn, retired, stored>>

(* D1 fails in a route that answers with the error.                        *)
StatementFails(r) ==
  /\ D1Fails
  /\ at[r] \in {"keyLookup", "lookup", "insert", "rotate", "setTier"}
  /\ Reply(r)
  /\ UNCHANGED <<user, drawn, retired, stored, lost>>

RequestStep(r) ==
  \/ Accept(r) \/ KeyLookup(r) \/ RegisterLookup(r) \/ RegisterInsert(r) \/ RotateKey(r)
  \/ SetTier(r) \/ CheckQuota(r) \/ AgentWrite(r) \/ Meter(r) \/ StatementFails(r)

Next == \E r \in Request : RequestStep(r)

Spec == Init /\ [][Next]_vars

-----------------------------------------------------------------------------
(* Properties.                                                             *)

(* Whatever requests of an account overlap, its row stays, its usage never *)
(* drops, and its key is replaced by its own rotations only: a second      *)
(* registration that lost the race must not reset them.                    *)
RowSurvives(a) ==
  Registered(a) =>
    /\ user'[a] # Nil
    /\ user'[a].used >= user[a].used
    /\ user'[a].key # user[a].key =>
         \E r \in Request : at[r] = "rotate" /\ req[r].acct = a /\ at'[r] = "idle"

RowsSurvive == [][\A a \in Account : RowSurvives(a)]_vars

(* A rotated key opens no account again, and no key opens two.             *)
RetiredKeysStayDead ==
  /\ \A a \in Account, k \in retired : ~OwnsKey(a, k)
  /\ \A a, b \in Account : (Registered(a) /\ Registered(b) /\ user[a].key = user[b].key) => a = b

(* Bytes stored for an account and not metered yet: byte i of the blob that*)
(* the request r is about to meter.                                        *)
UnmeteredBytes(a) ==
  {b \in Request \X (1..Max(Size)) :
     at[b[1]] = "meter" /\ req[b[1]].acct = a /\ b[2] <= req[b[1]].size}

(* What the row of an account says it uses.                                *)
Used(a) == IF Registered(a) THEN user[a].used ELSE 0

(* Concurrent writes lose no byte of each other's metering: what is stored *)
(* is what is metered, is about to be, or was lost with an answer or a     *)
(* failing UPDATE.                                                         *)
UsageAccountsForStorage ==
  \A a \in Account :
    stored[a] = Used(a) + Cardinality(UnmeteredBytes(a)) + lost[a]

(* The quota is checked before the size is known and before other writes   *)
(* in flight are metered; the excess is bounded by one blob per request.   *)
TopLimit == Max({LimitOf[t] : t \in Tier})

OvershootIsBounded ==
  \A a \in Account :
    Registered(a) => user[a].used < TopLimit + Cardinality(Request) * Max(Size)

(* A key the gateway answers to /api/keys/generate opens the account of    *)
(* the caller ("Issues and revokes gateway API keys scoped to user         *)
(* accounts", docs/simplified_arch.md).                                    *)
IssuedKeyWorks ==
  [][\A r \in Request :
       (at[r] = "rotate" /\ at'[r] = "idle" /\ drawn' # drawn) =>
         /\ user'[req[r].acct] # Nil
         /\ user'[req[r].acct].key \in drawn' \ drawn]_vars
=============================================================================
