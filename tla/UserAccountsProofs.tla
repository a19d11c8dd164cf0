-------------------------- MODULE UserAccountsProofs -------------------------
(***************************************************************************)
(* Proofs about UserAccounts for any accounts, keys, requests in flight,   *)
(* plan limits and blob sizes.                                             *)
(***************************************************************************)
EXTENDS UserAccounts, FiniteSetTheorems, TLAPS

(* A step of one request leaves the others where they were.                *)
LEMMA OthersKept ==
  ASSUME TypeOK, NEW r \in Request, RequestStep(r), NEW q \in Request, q # r
  PROVE  at'[q] = at[q] /\ req'[q] = req[q]
  BY DEF RequestStep, TypeOK, Goto, Reply, Accept, KeyLookup, RegisterLookup, RegisterInsert,
     RotateKey, SetTier, CheckQuota, AgentWrite, ToMeter, Meter, StatementFails

FirstSteps == {"lookup", "rotate", "setTier", "quota"}

LEMMA FirstStepType ==
  ASSUME NEW op \in Op
  PROVE  FirstStep[op] \in FirstSteps
  BY OpAssumption DEF FirstStep, FirstSteps

(* What the slot of the request that moves may hold afterwards.            *)
SlotOK(step, call) ==
  /\ step \in Step
  /\ call \in Call \cup {NoCall}
  /\ step # "idle" => call \in Call
  /\ step \in OwnStep => call.acct \in Account
  /\ step = "meter" => call.size \in Size

LEMMA AcceptSlot ==
  ASSUME TypeOK, NEW r \in Request, Accept(r)
  PROVE  /\ SlotOK(at'[r], req'[r])
         /\ at'[r] = "keyLookup" => req'[r].cred \in drawn
         /\ at' \in [Request -> Step] /\ req' \in [Request -> Call \cup {NoCall}]
         /\ at'[r] \in FirstSteps \cup {"keyLookup"}
         /\ at'[r] # "keyLookup" => req'[r].cred = Nil
<1>1. PICK c \in Call :
        /\ req' = [req EXCEPT ![r] = c]
        /\ \/ /\ c.acct # Nil /\ c.cred = Nil
              /\ at' = [at EXCEPT ![r] = FirstStep[c.op]]
           \/ /\ c.acct = Nil /\ c.cred \in drawn
              /\ at' = [at EXCEPT ![r] = "keyLookup"]
  BY DEF Accept
<1>2. c.op \in Op /\ (c.acct # Nil => c.acct \in Account)
  BY DEF Call
<1>3. req'[r] = c
  BY <1>1 DEF TypeOK
<1>4. CASE c.acct # Nil /\ c.cred = Nil /\ at' = [at EXCEPT ![r] = FirstStep[c.op]]
  <2>1. FirstStep[c.op] \in FirstSteps
    BY <1>2, FirstStepType
  <2>2. QED
    BY <1>1, <1>2, <1>3, <1>4, <2>1 DEF SlotOK, TypeOK, Step, OwnStep, FirstSteps
<1>5. CASE c.acct = Nil /\ c.cred \in drawn /\ at' = [at EXCEPT ![r] = "keyLookup"]
  BY <1>1, <1>3, <1>5 DEF SlotOK, TypeOK, Step, OwnStep, FirstSteps
<1>6. QED
  BY <1>1, <1>4, <1>5

LEMMA KeyLookupSlot ==
  ASSUME TypeOK, NEW r \in Request, KeyLookup(r)
  PROVE  /\ SlotOK(at'[r], req'[r])
         /\ at' \in [Request -> Step] /\ req' \in [Request -> Call \cup {NoCall}]
         /\ at'[r] \in FirstSteps \cup {"idle"}
<1>1. req[r] \in Call
  BY DEF TypeOK, KeyLookup
<1>2. CASE Reply(r)
  BY <1>2 DEF Reply, SlotOK, TypeOK, Step, OwnStep
<1>3. CASE ~Reply(r)
  <2>1. PICK a \in Account :
          /\ at' = [at EXCEPT ![r] = FirstStep[req[r].op]]
          /\ req' = [req EXCEPT ![r] = [op |-> @.op, acct |-> a, cred |-> @.cred,
                                        tier |-> @.tier, size |-> @.size]]
    BY <1>3 DEF KeyLookup
  <2>2. FirstStep[req[r].op] \in FirstSteps
    BY <1>1, FirstStepType DEF Call
  <2>3. req'[r] = [op |-> req[r].op, acct |-> a, cred |-> req[r].cred,
                   tier |-> req[r].tier, size |-> req[r].size]
    BY <2>1 DEF TypeOK
  <2>4. req'[r] \in Call /\ req'[r].acct \in Account
    BY <1>1, <2>3 DEF Call
  <2>5. req' \in [Request -> Call \cup {NoCall}]
    BY <2>1, <2>3, <2>4 DEF TypeOK
  <2>6. QED
    BY <2>1, <2>2, <2>4, <2>5 DEF SlotOK, TypeOK, Step, OwnStep, FirstSteps
<1>4. QED
  BY <1>2, <1>3

(* What an agent write that succeeds carries to its metering.              *)
LEMMA AgentSlot ==
  ASSUME TypeOK, NEW r \in Request, AgentWrite(r)
  PROVE  /\ SlotOK(at'[r], req'[r])
         /\ at' \in [Request -> Step] /\ req' \in [Request -> Call \cup {NoCall}]
         /\ at[r] = "agent" /\ at'[r] \in {"idle", "meter"}
         /\ at'[r] = "meter" => req'[r].acct = req[r].acct
         /\ stored' \in [Account -> Nat] /\ lost' \in [Account -> Nat]
<1>1. req[r] \in Call /\ req[r].acct \in Account /\ at[r] = "agent"
  BY DEF TypeOK, AgentWrite, OwnStep
<1>2. \/ stored' = stored
      \/ \E n \in Size : stored' = [stored EXCEPT ![req[r].acct] = @ + n]
  BY DEF AgentWrite
<1>3. \/ lost' = lost
      \/ \E n \in Size : lost' = [lost EXCEPT ![req[r].acct] = @ + n]
  BY DEF AgentWrite
<1>4. ASSUME NEW f \in [Account -> Nat], NEW n \in Size
      PROVE  [f EXCEPT ![req[r].acct] = @ + n] \in [Account -> Nat]
  <2>1. n \in Nat /\ f[req[r].acct] \in Nat
    BY <1>1, SizeAssumption
  <2>2. f[req[r].acct] + n \in Nat
    BY <2>1
  <2>3. QED
    BY <1>1, <2>2
<1>5. stored' \in [Account -> Nat] /\ lost' \in [Account -> Nat]
  BY <1>2, <1>3, <1>4 DEF TypeOK
<1>6. CASE Reply(r)
  BY <1>1, <1>5, <1>6 DEF Reply, SlotOK, TypeOK, Step, OwnStep
<1>7. CASE ~Reply(r)
  <2>1. PICK n \in Size : ToMeter(r, n)
    BY <1>7 DEF AgentWrite
  <2>2. req'[r] = [op |-> req[r].op, acct |-> req[r].acct, cred |-> req[r].cred,
                   tier |-> req[r].tier, size |-> n]
    BY <2>1 DEF ToMeter, TypeOK
  <2>3. req'[r] \in Call /\ req'[r].acct = req[r].acct /\ req'[r].size \in Size
    BY <1>1, <2>2 DEF Call
  <2>4. req' \in [Request -> Call \cup {NoCall}]
    BY <2>1, <2>2, <2>3 DEF ToMeter, TypeOK
  <2>5. QED
    BY <1>1, <1>5, <2>1, <2>3, <2>4 DEF ToMeter, SlotOK, TypeOK, Step, OwnStep
<1>8. QED
  BY <1>6, <1>7

(* The other steps of a request keep what it carries, or answer.           *)
LEMMA PlainSlot ==
  ASSUME TypeOK, NEW r \in Request,
         \/ RegisterLookup(r) \/ RegisterInsert(r) \/ RotateKey(r) \/ SetTier(r)
         \/ CheckQuota(r) \/ Meter(r) \/ StatementFails(r)
  PROVE  /\ SlotOK(at'[r], req'[r])
         /\ at' \in [Request -> Step] /\ req' \in [Request -> Call \cup {NoCall}]
         /\ at'[r] \in {"idle", "insert", "agent"}
         /\ at'[r] # "idle" => req'[r] = req[r]
<1>1. \/ Reply(r)
      \/ at[r] = "lookup" /\ Goto(r, "insert")
      \/ at[r] = "quota" /\ Goto(r, "agent")
  BY DEF RegisterLookup, RegisterInsert, RotateKey, SetTier, CheckQuota, Meter, StatementFails
<1>2. CASE Reply(r)
  BY <1>2 DEF Reply, SlotOK, TypeOK, Step, OwnStep
<1>3. CASE at[r] = "lookup" /\ Goto(r, "insert")
  BY <1>3 DEF Goto, SlotOK, TypeOK, Step, OwnStep
<1>4. CASE at[r] = "quota" /\ Goto(r, "agent")
  BY <1>4 DEF Goto, SlotOK, TypeOK, Step, OwnStep
<1>5. QED
  BY <1>1, <1>2, <1>3, <1>4

(* The row a statement writes.                                             *)
LEMMA RowType ==
  ASSUME TypeOK, NEW a \in Account, Registered(a)
  PROVE  user[a] \in Row /\ user[a].key \in Key /\ user[a].tier \in Tier /\ user[a].used \in Nat
  BY DEF TypeOK, Registered, Row

Writes(r) == RegisterInsert(r) \/ RotateKey(r) \/ SetTier(r) \/ Meter(r)

LEMMA StepKinds ==
  ASSUME NEW r \in Request, RequestStep(r)
  PROVE  \/ Accept(r) \/ KeyLookup(r) \/ RegisterLookup(r) \/ CheckQuota(r) \/ AgentWrite(r)
         \/ StatementFails(r) \/ Writes(r)
  BY DEF RequestStep, Writes

LEMMA QuietStep ==
  ASSUME NEW r \in Request,
         \/ Accept(r) \/ KeyLookup(r) \/ RegisterLookup(r) \/ CheckQuota(r) \/ AgentWrite(r)
         \/ StatementFails(r)
  PROVE  UNCHANGED <<user, drawn, retired>> /\ (UNCHANGED lost \/ AgentWrite(r))
  BY DEF Accept, KeyLookup, RegisterLookup, CheckQuota, AgentWrite, StatementFails

LEMMA InsertStep ==
  ASSUME TypeOK, NEW r \in Request, RegisterInsert(r)
  PROVE  LET a == req[r].acct IN
         /\ a \in Account /\ at[r] = "insert"
         /\ \E k \in Key \ drawn :
              /\ drawn' = drawn \cup {k}
              /\ \/ user' = user
                 \/ /\ ~Registered(a)
                    /\ user' = [user EXCEPT ![a] = [key |-> k, tier |-> "free", used |-> 0]]
         /\ UNCHANGED <<retired, stored, lost>>
  BY DEF RegisterInsert, TypeOK, OwnStep

LEMMA RotateStep ==
  ASSUME TypeOK, NEW r \in Request, RotateKey(r)
  PROVE  LET a == req[r].acct IN
         /\ a \in Account /\ at[r] = "rotate" /\ at'[r] = "idle"
         /\ \E k \in Key \ drawn :
              /\ drawn' = drawn \cup {k}
              /\ \/ UNCHANGED <<user, retired>>
                 \/ /\ Registered(a)
                    /\ user' = [user EXCEPT ![a] = [key |-> k, tier |-> user[a].tier,
                                                    used |-> user[a].used]]
                    /\ retired' = retired \cup {user[a].key}
         /\ UNCHANGED <<stored, lost>>
  BY DEF RotateKey, Reply, TypeOK, OwnStep

LEMMA TierStep ==
  ASSUME TypeOK, NEW r \in Request, SetTier(r)
  PROVE  LET a == req[r].acct IN
         /\ a \in Account /\ req[r].tier \in Tier
         /\ \/ user' = user
            \/ /\ Registered(a)
               /\ user' = [user EXCEPT ![a] = [key |-> user[a].key, tier |-> req[r].tier,
                                               used |-> user[a].used]]
         /\ UNCHANGED <<drawn, retired, stored, lost>>
  BY DEF SetTier, TypeOK, OwnStep, Call

LEMMA MeterStep ==
  ASSUME TypeOK, NEW r \in Request, Meter(r)
  PROVE  LET a == req[r].acct IN
         /\ a \in Account /\ req[r].size \in Size /\ req[r].size \in Nat /\ at[r] = "meter"
         /\ \/ user' = user /\ lost' = [lost EXCEPT ![a] = lost[a] + req[r].size]
            \/ /\ Registered(a)
               /\ user' = [user EXCEPT ![a] = [key |-> user[a].key, tier |-> user[a].tier,
                                               used |-> user[a].used + req[r].size]]
               /\ lost' = lost
         /\ UNCHANGED <<drawn, retired, stored>>
  BY SizeAssumption DEF Meter, TypeOK, OwnStep

-----------------------------------------------------------------------------
(* Types.                                                                  *)

LEMMA TablesType ==
  ASSUME TypeOK, NEW r \in Request, RequestStep(r)
  PROVE  /\ user' \in [Account -> Row \cup {Nil}]
         /\ drawn' \subseteq Key /\ drawn \subseteq drawn' /\ retired' \subseteq drawn'
              \cup {k \in Key : \E a \in Account : OwnsKey(a, k)}
         /\ stored' \in [Account -> Nat] /\ lost' \in [Account -> Nat]
<1>1. CASE RegisterInsert(r)
  <2>1. PICK k \in Key \ drawn :
          /\ drawn' = drawn \cup {k}
          /\ \/ user' = user
             \/ user' = [user EXCEPT ![req[r].acct] = [key |-> k, tier |-> "free", used |-> 0]]
    BY <1>1, InsertStep
  <2>2. [key |-> k, tier |-> "free", used |-> 0] \in Row
    BY DEF Row, Tier
  <2>3. QED
    BY <1>1, <2>1, <2>2, InsertStep DEF TypeOK
<1>2. CASE RotateKey(r)
  <2>1. PICK k \in Key \ drawn :
          /\ drawn' = drawn \cup {k}
          /\ \/ UNCHANGED <<user, retired>>
             \/ /\ Registered(req[r].acct)
                /\ user' = [user EXCEPT ![req[r].acct] =
                              [key |-> k, tier |-> user[req[r].acct].tier,
                               used |-> user[req[r].acct].used]]
                /\ retired' = retired \cup {user[req[r].acct].key}
    BY <1>2, RotateStep
  <2>2. req[r].acct \in Account
    BY <1>2, RotateStep
  <2>3. Registered(req[r].acct) =>
          /\ [key |-> k, tier |-> user[req[r].acct].tier, used |-> user[req[r].acct].used] \in Row
          /\ OwnsKey(req[r].acct, user[req[r].acct].key) /\ user[req[r].acct].key \in Key
    BY <2>2, RowType DEF Row, OwnsKey
  <2>4. QED
    BY <1>2, <2>1, <2>2, <2>3, RotateStep DEF TypeOK
<1>3. CASE SetTier(r)
  <2>1. Registered(req[r].acct) =>
          [key |-> user[req[r].acct].key, tier |-> req[r].tier,
           used |-> user[req[r].acct].used] \in Row
    BY <1>3, TierStep, RowType DEF Row
  <2>2. QED
    BY <1>3, <2>1, TierStep DEF TypeOK
<1>4. CASE Meter(r)
  <2>1. Registered(req[r].acct) =>
          [key |-> user[req[r].acct].key, tier |-> user[req[r].acct].tier,
           used |-> user[req[r].acct].used + req[r].size] \in Row
    <3>1. req[r].acct \in Account /\ req[r].size \in Nat
      BY <1>4, MeterStep
    <3>2. Registered(req[r].acct) => user[req[r].acct].used \in Nat
      BY <3>1, RowType
    <3>3. Registered(req[r].acct) => user[req[r].acct].used + req[r].size \in Nat
      BY <3>1, <3>2
    <3>4. QED
      BY <3>1, <3>3, RowType DEF Row
  <2>2. QED
    BY <1>4, <2>1, MeterStep DEF TypeOK
<1>5. CASE ~Writes(r)
  <2>1. UNCHANGED <<user, drawn, retired>>
    BY <1>5, StepKinds, QuietStep
  <2>2. stored' \in [Account -> Nat] /\ lost' \in [Account -> Nat]
    BY <1>5, StepKinds, QuietStep, AgentSlot
       DEF TypeOK, Accept, KeyLookup, RegisterLookup, CheckQuota, StatementFails
  <2>3. QED
    BY <2>1, <2>2 DEF TypeOK
<1>6. QED
  BY <1>1, <1>2, <1>3, <1>4, <1>5 DEF Writes

(* Keys in the table were drawn.                                           *)
KeysDrawn == \A a \in Account : Registered(a) => user[a].key \in drawn

IInv == TypeOK /\ KeysDrawn /\ RetiredKeysStayDead

LEMMA InitIInv == Init => IInv
  BY DEF Init, IInv, TypeOK, Step, OwnStep, KeysDrawn, RetiredKeysStayDead, OwnsKey, Registered

LEMMA SlotType ==
  ASSUME TypeOK, NEW r \in Request, RequestStep(r)
  PROVE  /\ SlotOK(at'[r], req'[r])
         /\ at'[r] = "keyLookup" => req'[r].cred \in drawn
         /\ at' \in [Request -> Step] /\ req' \in [Request -> Call \cup {NoCall}]
<1>1. CASE Accept(r)
  BY <1>1, AcceptSlot
<1>2. CASE KeyLookup(r)
  BY <1>2, KeyLookupSlot DEF FirstSteps
<1>3. CASE AgentWrite(r)
  BY <1>3, AgentSlot
<1>4. CASE \/ RegisterLookup(r) \/ RegisterInsert(r) \/ RotateKey(r) \/ SetTier(r)
           \/ CheckQuota(r) \/ Meter(r) \/ StatementFails(r)
  BY <1>4, PlainSlot
<1>5. QED
  BY <1>1, <1>2, <1>3, <1>4 DEF RequestStep

LEMMA RequestTypeOK ==
  ASSUME IInv, NEW r \in Request, RequestStep(r)
  PROVE  TypeOK'
<1> USE DEF IInv
<1>1. retired' \subseteq drawn'
  BY TablesType DEF KeysDrawn, OwnsKey
<1>2. ASSUME NEW q \in Request
      PROVE  /\ at'[q] # "idle" => req'[q] \in Call
             /\ at'[q] = "keyLookup" => req'[q].cred \in drawn'
             /\ at'[q] \in OwnStep => req'[q].acct \in Account
             /\ at'[q] = "meter" => req'[q].size \in Size
  <2>1. CASE q = r
    BY <2>1, SlotType, TablesType DEF SlotOK
  <2>2. CASE q # r
    BY <2>2, OthersKept, TablesType DEF TypeOK
  <2>3. QED
    BY <2>1, <2>2
<1>3. QED
  BY <1>1, <1>2, SlotType, TablesType DEF TypeOK

-----------------------------------------------------------------------------
(* Keys.                                                                   *)

(* How a step changes the keys in the table: not at all, or one fresh key  *)
(* for a new row, or for a row whose key is retired.                       *)
KeyStep ==
  \/ /\ UNCHANGED retired /\ drawn \subseteq drawn'
     /\ \A a \in Account : (user'[a] # Nil <=> Registered(a)) /\ user'[a].key = user[a].key
  \/ \E a \in Account, k \in Key \ drawn :
       /\ drawn' = drawn \cup {k}
       /\ user'[a] # Nil /\ user'[a].key = k
       /\ \A b \in Account : b # a => user'[b] = user[b]
       /\ \/ ~Registered(a) /\ UNCHANGED retired
          \/ Registered(a) /\ retired' = retired \cup {user[a].key}

LEMMA RequestKeyStep ==
  ASSUME TypeOK, NEW r \in Request, RequestStep(r)
  PROVE  KeyStep
<1>1. CASE RegisterInsert(r)
  <2>1. PICK k \in Key \ drawn :
          /\ drawn' = drawn \cup {k}
          /\ \/ user' = user
             \/ /\ ~Registered(req[r].acct)
                /\ user' = [user EXCEPT ![req[r].acct] = [key |-> k, tier |-> "free", used |-> 0]]
    BY <1>1, InsertStep
  <2>2. req[r].acct \in Account /\ retired' = retired
    BY <1>1, InsertStep
  <2>3. CASE user' = user
    BY <2>1, <2>2, <2>3 DEF KeyStep, Registered
  <2>4. CASE user' # user
    <3>1. user'[req[r].acct] = [key |-> k, tier |-> "free", used |-> 0]
      BY <2>1, <2>2, <2>4 DEF TypeOK
    <3>2. user'[req[r].acct] # Nil
      BY <2>2, <3>1, NilAssumption DEF Row, Tier
    <3>3. QED
      BY <2>1, <2>2, <2>4, <3>1, <3>2 DEF KeyStep, TypeOK
  <2>5. QED
    BY <2>3, <2>4
<1>2. CASE RotateKey(r)
  <2> DEFINE a == req[r].acct
  <2>1. PICK k \in Key \ drawn :
          /\ drawn' = drawn \cup {k}
          /\ \/ UNCHANGED <<user, retired>>
             \/ /\ Registered(a)
                /\ user' = [user EXCEPT ![a] = [key |-> k, tier |-> user[a].tier,
                                                used |-> user[a].used]]
                /\ retired' = retired \cup {user[a].key}
    BY <1>2, RotateStep
  <2>2. a \in Account
    BY <1>2, RotateStep
  <2>3. CASE UNCHANGED <<user, retired>>
    BY <2>1, <2>3 DEF KeyStep, Registered
  <2>4. CASE ~UNCHANGED <<user, retired>>
    <3>1. Registered(a) /\ user'[a] = [key |-> k, tier |-> user[a].tier, used |-> user[a].used]
      BY <2>1, <2>2, <2>4 DEF TypeOK
    <3>2. user'[a] \in Row
      BY <2>2, <3>1, RowType DEF Row
    <3>3. user'[a] # Nil
      BY <3>2, NilAssumption
    <3>4. QED
      BY <2>1, <2>2, <2>4, <3>1, <3>3 DEF KeyStep, TypeOK
  <2>5. QED
    BY <2>3, <2>4
<1>3. CASE SetTier(r) \/ Meter(r)
  <2> DEFINE a == req[r].acct
  <2>1. a \in Account /\ drawn' = drawn /\ retired' = retired
    BY <1>3, TierStep, MeterStep
  <2>2. \/ user' = user
        \/ /\ Registered(a)
           /\ \E t \in Tier, n \in Nat :
                user' = [user EXCEPT ![a] = [key |-> user[a].key, tier |-> t, used |-> n]]
    <3>1. CASE SetTier(r)
      BY <2>1, <3>1, TierStep, RowType
    <3>2. CASE Meter(r)
      <4>1. req[r].size \in Nat
        BY <3>2, MeterStep
      <4>2. Registered(a) => user[a].used \in Nat /\ user[a].tier \in Tier
        BY <2>1, RowType
      <4>3. Registered(a) => user[a].used + req[r].size \in Nat
        BY <4>1, <4>2
      <4>4. QED
        BY <3>2, <4>2, <4>3, MeterStep
    <3>3. QED
      BY <1>3, <3>1, <3>2
  <2>3. CASE user' = user
    BY <2>1, <2>3 DEF KeyStep, Registered
  <2>4. CASE user' # user
    <3>1. PICK t \in Tier, n \in Nat :
            user' = [user EXCEPT ![a] = [key |-> user[a].key, tier |-> t, used |-> n]]
      BY <2>2, <2>4
    <3>2. Registered(a) /\ user'[a] = [key |-> user[a].key, tier |-> t, used |-> n]
      BY <2>1, <2>2, <2>4, <3>1 DEF TypeOK
    <3>3. user'[a] \in Row
      BY <2>1, <3>2, RowType DEF Row
    <3>4. user'[a] # Nil
      BY <3>3, NilAssumption
    <3>5. user'[a].key = user[a].key
      BY <3>2
    <3>6. \A b \in Account : b # a => user'[b] = user[b]
      BY <3>1 DEF TypeOK
    <3>7. QED
      BY <2>1, <3>2, <3>4, <3>5, <3>6 DEF KeyStep, Registered
  <2>5. QED
    BY <2>3, <2>4
<1>4. CASE ~Writes(r)
  BY <1>4, StepKinds, QuietStep DEF KeyStep, Registered
<1>5. QED
  BY <1>1, <1>2, <1>3, <1>4 DEF Writes

LEMMA KeyStepKeepsKeys ==
  ASSUME IInv, KeyStep
  PROVE  KeysDrawn' /\ RetiredKeysStayDead'
<1> USE DEF IInv
<1>1. CASE /\ UNCHANGED retired /\ drawn \subseteq drawn'
           /\ \A a \in Account : (user'[a] # Nil <=> Registered(a)) /\ user'[a].key = user[a].key
  BY <1>1 DEF KeysDrawn, RetiredKeysStayDead, OwnsKey, Registered
<1>2. ASSUME NEW a \in Account, NEW k \in Key \ drawn,
             drawn' = drawn \cup {k},
             user'[a] # Nil /\ user'[a].key = k,
             \A b \in Account : b # a => user'[b] = user[b],
             \/ ~Registered(a) /\ UNCHANGED retired
             \/ Registered(a) /\ retired' = retired \cup {user[a].key}
      PROVE  KeysDrawn' /\ RetiredKeysStayDead'
  <2>1. KeysDrawn'
    BY <1>2 DEF KeysDrawn, Registered
  <2>2. k \notin retired'
    BY <1>2 DEF KeysDrawn, TypeOK
  <2>3. \A b \in Account, x \in retired' : user'[b] # Nil => user'[b].key # x
    BY <1>2, <2>2 DEF RetiredKeysStayDead, OwnsKey, Registered
  <2>4. \A b, c \in Account :
          (user'[b] # Nil /\ user'[c] # Nil /\ user'[b].key = user'[c].key) => b = c
    BY <1>2 DEF RetiredKeysStayDead, KeysDrawn, Registered
  <2>5. QED
    BY <2>1, <2>3, <2>4 DEF RetiredKeysStayDead, OwnsKey, Registered
<1>3. QED
  BY <1>1, <1>2 DEF KeyStep

LEMMA NextIInv == IInv /\ [Next]_vars => IInv'
<1> SUFFICES ASSUME IInv, [Next]_vars
             PROVE  IInv'
  OBVIOUS
<1>1. ASSUME NEW r \in Request, RequestStep(r)
      PROVE  IInv'
  BY <1>1, RequestTypeOK, RequestKeyStep, KeyStepKeepsKeys DEF IInv
<1>2. CASE UNCHANGED vars
  BY <1>2 DEF IInv, vars, TypeOK, KeysDrawn, RetiredKeysStayDead, OwnsKey, Registered
<1>3. QED
  BY <1>1, <1>2 DEF Next

LEMMA Invariance == Spec => []IInv
  BY InitIInv, NextIInv, PTL DEF Spec

(* The table and every request keep their shape.                           *)
THEOREM TypeCorrect == Spec => []TypeOK
<1>1. IInv => TypeOK
  BY DEF IInv
<1>2. QED
  BY <1>1, Invariance, PTL

(* No rotated key opens an account again, and no key opens two.            *)
THEOREM RotationRevokes == Spec => []RetiredKeysStayDead
<1>1. IInv => RetiredKeysStayDead
  BY DEF IInv
<1>2. QED
  BY <1>1, Invariance, PTL

-----------------------------------------------------------------------------
(* Rows.                                                                   *)

(* How a step changes one row: by an insert, a rotation, a plan or a blob. *)
RowStep(r, a) ==
  \/ user'[a] = user[a]
  \/ ~Registered(a) /\ user'[a].used = 0
  \/ /\ Registered(a) /\ user'[a] \in Row /\ user'[a].used = user[a].used
     /\ \/ user'[a].key = user[a].key
        \/ at[r] = "rotate" /\ req[r].acct = a /\ at'[r] = "idle"
  \/ /\ Registered(a) /\ user'[a] \in Row /\ user'[a].key = user[a].key
     /\ at[r] = "meter" /\ req[r].acct = a /\ Meter(r)
     /\ user'[a].used = user[a].used + req[r].size

LEMMA RequestRowStep ==
  ASSUME TypeOK, NEW r \in Request, RequestStep(r), NEW a \in Account
  PROVE  RowStep(r, a)
<1>1. user \in [Account -> Row \cup {Nil}]
  BY DEF TypeOK
<1>2. CASE RegisterInsert(r)
  <2>1. \/ user' = user
        \/ /\ ~Registered(req[r].acct)
           /\ \E k \in Key : user' = [user EXCEPT ![req[r].acct] =
                                        [key |-> k, tier |-> "free", used |-> 0]]
    BY <1>2, InsertStep
  <2>2. CASE user'[a] = user[a]
    BY <2>2 DEF RowStep
  <2>3. CASE user'[a] # user[a]
    <3>1. PICK k \in Key : user' = [user EXCEPT ![req[r].acct] =
                                      [key |-> k, tier |-> "free", used |-> 0]]
      BY <2>1, <2>3
    <3>2. a = req[r].acct /\ user'[a] = [key |-> k, tier |-> "free", used |-> 0]
      BY <1>1, <2>3, <3>1
    <3>3. ~Registered(a)
      BY <2>1, <2>3, <3>2
    <3>4. QED
      BY <3>2, <3>3 DEF RowStep
  <2>4. QED
    BY <2>2, <2>3
<1>3. CASE RotateKey(r)
  <2>1. at[r] = "rotate" /\ at'[r] = "idle"
    BY <1>3, RotateStep
  <2>2. \/ user' = user
        \/ /\ Registered(req[r].acct)
           /\ \E k \in Key : user' = [user EXCEPT ![req[r].acct] =
                                        [key |-> k, tier |-> user[req[r].acct].tier,
                                         used |-> user[req[r].acct].used]]
    BY <1>3, RotateStep
  <2>3. CASE user'[a] = user[a]
    BY <2>3 DEF RowStep
  <2>4. CASE user'[a] # user[a]
    <3>1. a = req[r].acct /\ Registered(a)
      BY <1>1, <2>2, <2>4
    <3>2. PICK k \in Key : user' = [user EXCEPT ![req[r].acct] =
                                      [key |-> k, tier |-> user[req[r].acct].tier,
                                       used |-> user[req[r].acct].used]]
      BY <2>2, <2>4
    <3>3. user'[a] = [key |-> k, tier |-> user[a].tier, used |-> user[a].used]
      BY <1>1, <3>1, <3>2
    <3>4. user'[a].used = user[a].used
      BY <3>3
    <3>5. user'[a] \in Row
      BY <3>1, <3>3, RowType DEF Row
    <3>6. QED
      BY <2>1, <3>1, <3>4, <3>5 DEF RowStep
  <2>5. QED
    BY <2>3, <2>4
<1>4. CASE SetTier(r)
  <2>1. \/ user' = user
        \/ /\ Registered(req[r].acct)
           /\ user' = [user EXCEPT ![req[r].acct] =
                         [key |-> user[req[r].acct].key, tier |-> req[r].tier,
                          used |-> user[req[r].acct].used]]
    BY <1>4, TierStep
  <2>2. CASE user'[a] = user[a]
    BY <2>2 DEF RowStep
  <2>3. CASE user'[a] # user[a]
    <3>1. Registered(a) /\ user'[a] = [key |-> user[a].key, tier |-> req[r].tier,
                                       used |-> user[a].used]
      BY <1>1, <2>1, <2>3
    <3>2. user'[a] \in Row
      <4>1. req[r].tier \in Tier
        BY <1>4, TierStep
      <4>2. user[a].key \in Key /\ user[a].used \in Nat
        BY <3>1, RowType
      <4>3. QED
        BY <3>1, <4>1, <4>2 DEF Row
    <3>3. QED
      BY <3>1, <3>2 DEF RowStep
  <2>4. QED
    BY <2>2, <2>3
<1>5. CASE Meter(r)
  <2>1. \/ user' = user
        \/ /\ Registered(req[r].acct)
           /\ user' = [user EXCEPT ![req[r].acct] =
                         [key |-> user[req[r].acct].key, tier |-> user[req[r].acct].tier,
                          used |-> user[req[r].acct].used + req[r].size]]
    BY <1>5, MeterStep
  <2>2. CASE user'[a] = user[a]
    BY <2>2 DEF RowStep
  <2>3. CASE user'[a] # user[a]
    <3>1. /\ Registered(a) /\ a = req[r].acct
          /\ user'[a] = [key |-> user[a].key, tier |-> user[a].tier,
                         used |-> user[a].used + req[r].size]
      BY <1>1, <2>1, <2>3
    <3>2. user[a].used + req[r].size \in Nat
      <4>1. user[a].used \in Nat /\ req[r].size \in Nat
        BY <1>5, <3>1, MeterStep, RowType
      <4>2. QED
        BY <4>1
    <3>3. user'[a] \in Row
      BY <3>1, <3>2, RowType DEF Row
    <3>4. at[r] = "meter"
      BY <1>5, MeterStep
    <3>5. QED
      BY <1>5, <3>1, <3>3, <3>4 DEF RowStep
  <2>4. QED
    BY <2>2, <2>3
<1>6. CASE ~Writes(r)
  BY <1>6, StepKinds, QuietStep DEF RowStep
<1>7. QED
  BY <1>2, <1>3, <1>4, <1>5, <1>6 DEF Writes

LEMMA RequestRowSurvives ==
  ASSUME TypeOK, NEW r \in Request, RequestStep(r), NEW a \in Account
  PROVE  RowSurvives(a)
<1> SUFFICES ASSUME Registered(a)
             PROVE  /\ user'[a] # Nil
                    /\ user'[a].used >= user[a].used
                    /\ user'[a].key # user[a].key =>
                         \E q \in Request : at[q] = "rotate" /\ req[q].acct = a /\ at'[q] = "idle"
  BY DEF RowSurvives
<1>1. user[a].used \in Nat /\ (Meter(r) => req[r].size \in Nat)
  BY RowType, MeterStep
<1>2. user[a].used >= user[a].used /\ (Meter(r) => user[a].used + req[r].size >= user[a].used)
  BY <1>1
<1>3. CASE user'[a] = user[a]
  BY <1>2, <1>3 DEF Registered
<1>4. CASE user'[a] \in Row
  BY <1>2, <1>4, RequestRowStep, NilAssumption DEF RowStep
<1>5. QED
  BY <1>3, <1>4, RequestRowStep DEF RowStep

(* Rows survive every interleaving of the account's requests.              *)
THEOREM RowsAreKept == Spec => RowsSurvive
<1>1. TypeOK /\ [Next]_vars => [\A a \in Account : RowSurvives(a)]_vars
  BY RequestRowSurvives DEF Next
<1>2. QED
  BY <1>1, TypeCorrect, PTL DEF Spec, RowsSurvive

-----------------------------------------------------------------------------
(* Quota.                                                                  *)

LEMMA MulMono ==
  ASSUME NEW s \in Nat, NEW x \in Nat, NEW y \in Nat, x <= y
  PROVE  s * x <= s * y
  OBVIOUS

LEMMA MulPred ==
  ASSUME NEW s \in Nat, NEW x \in Nat, x > 0
  PROVE  s * (x - 1) = s * x - s
  OBVIOUS

LEMMA MaxSize ==
  Max(Size) \in Nat /\ \A n \in Size : n <= Max(Size)
  BY SizeAssumption DEF Max

LEMMA MaxOfThree ==
  ASSUME NEW x \in Nat, NEW y \in Nat, NEW z \in Nat
  PROVE  \E m \in {x, y, z} : m >= x /\ m >= y /\ m >= z
<1>1. CASE x >= y /\ x >= z
  BY <1>1
<1>2. CASE y >= x /\ y >= z
  BY <1>2
<1>3. CASE z >= x /\ z >= y
  BY <1>3
<1>4. QED
  BY <1>1, <1>2, <1>3

LEMMA TopLimitBounds ==
  TopLimit \in Nat \ {0} /\ \A t \in Tier : LimitOf[t] <= TopLimit
<1> DEFINE S == {LimitOf[t] : t \in Tier}
<1>1. S \subseteq Nat \ {0} /\ LimitOf["free"] \in S /\ LimitOf["developer"] \in S
        /\ LimitOf["team"] \in S
  BY LimitAssumption DEF Tier
<1>2. S = {LimitOf["free"], LimitOf["developer"], LimitOf["team"]}
  BY DEF Tier
<1> HIDE DEF S
<1>3. \E x \in S : \A y \in S : x >= y
  <2>1. LimitOf["free"] \in Nat /\ LimitOf["developer"] \in Nat /\ LimitOf["team"] \in Nat
    BY <1>1
  <2>2. PICK m \in {LimitOf["free"], LimitOf["developer"], LimitOf["team"]} :
          m >= LimitOf["free"] /\ m >= LimitOf["developer"] /\ m >= LimitOf["team"]
    BY <2>1, MaxOfThree
  <2>3. QED
    BY <1>2, <2>2
<1>4. Max(S) \in S /\ \A y \in S : Max(S) >= y
  BY <1>3 DEF Max
<1>5. \A t \in Tier : LimitOf[t] \in S
  BY DEF S
<1>6. TopLimit = Max(S)
  BY DEF TopLimit, S
<1>7. QED
  BY <1>1, <1>4, <1>5, <1>6

(* Requests that passed the check of an account and are not metered yet.   *)
Past(a) == {r \in Request : at[r] \in {"agent", "meter"} /\ req[r].acct = a}
PastNext(a) == {r \in Request : at'[r] \in {"agent", "meter"} /\ req'[r].acct = a}

Most == TopLimit + Max(Size) * Cardinality(Request)

(* Each of them has its share of the excess left.                          *)
SharesLeft ==
  \A a \in Account :
    Registered(a) => user[a].used + Max(Size) * Cardinality(Past(a)) < Most

LEMMA PastSize ==
  ASSUME NEW P, P \subseteq Request
  PROVE  /\ IsFiniteSet(P) /\ Cardinality(P) \in Nat
         /\ Max(Size) * Cardinality(P) \in Nat
         /\ Max(Size) * Cardinality(P) <= Max(Size) * Cardinality(Request)
         /\ Cardinality(Request) \in Nat /\ Max(Size) * Cardinality(Request) \in Nat
<1>1. IsFiniteSet(P) /\ Cardinality(P) <= Cardinality(Request)
  BY FS_Subset, RequestAssumption
<1>2. Cardinality(P) \in Nat /\ Cardinality(Request) \in Nat
  BY <1>1, FS_CardinalityType, RequestAssumption
<1>3. Max(Size) * Cardinality(P) <= Max(Size) * Cardinality(Request)
  BY <1>1, <1>2, MaxSize, MulMono
<1>4. QED
  BY <1>1, <1>2, <1>3, MaxSize

LEMMA SmallerPast ==
  ASSUME NEW P, P \subseteq Request, NEW Q, Q \subseteq P
  PROVE  Max(Size) * Cardinality(Q) <= Max(Size) * Cardinality(P)
<1>1. IsFiniteSet(P) /\ Cardinality(P) \in Nat /\ Cardinality(Q) \in Nat
  BY PastSize
<1>2. Cardinality(Q) <= Cardinality(P)
  BY <1>1, FS_Subset
<1>3. QED
  BY <1>1, <1>2, MaxSize, MulMono

(* A request comes past the check of an account only through CheckQuota.   *)
LEMMA PastStep ==
  ASSUME TypeOK, NEW r \in Request, RequestStep(r), NEW a \in Account
  PROVE  \/ PastNext(a) \subseteq Past(a)
         \/ CheckQuota(r) /\ at[r] = "quota" /\ req[r].acct = a /\ at'[r] = "agent"
<1> SUFFICES ASSUME NEW q \in PastNext(a), q \notin Past(a)
             PROVE  CheckQuota(r) /\ at[r] = "quota" /\ req[r].acct = a /\ at'[r] = "agent"
  OBVIOUS
<1>1. q = r
  BY OthersKept DEF Past, PastNext
<1>2. at'[r] \in {"agent", "meter"} /\ req'[r].acct = a
  BY <1>1 DEF PastNext
<1>3. ~Accept(r) /\ ~KeyLookup(r)
  BY <1>2, AcceptSlot, KeyLookupSlot DEF FirstSteps
<1>4. ~AgentWrite(r)
  BY <1>1, <1>2, AgentSlot DEF Past
<1>5. CheckQuota(r)
  BY <1>2, <1>3, <1>4 DEF RequestStep, RegisterLookup, RegisterInsert, RotateKey, SetTier, Meter,
     StatementFails, Goto, Reply, TypeOK
<1>6. QED
  BY <1>2, <1>5, PlainSlot DEF CheckQuota

(* What the check that lets a write through has seen.                      *)
LEMMA CheckSaw ==
  ASSUME TypeOK, ~D1Fails, NEW r \in Request, CheckQuota(r), at'[r] = "agent",
         Registered(req[r].acct)
  PROVE  user[req[r].acct].used < TopLimit
<1>1. req[r].acct \in Account
  BY DEF TypeOK, CheckQuota, OwnStep
<1>2. ~Full(user[req[r].acct])
  BY DEF CheckQuota, Reply, TypeOK
<1>3. user[req[r].acct].used < LimitOf[user[req[r].acct].tier]
  BY <1>1, <1>2, RowType, LimitAssumption DEF Full
<1>4. QED
  BY <1>1, <1>3, RowType, LimitAssumption, TopLimitBounds

LEMMA RequestSharesLeft ==
  ASSUME TypeOK, ~D1Fails, SharesLeft, NEW r \in Request, RequestStep(r),
         NEW a \in Account, user'[a] # Nil
  PROVE  user'[a].used + Max(Size) * Cardinality(PastNext(a)) < Most
<1>1. /\ Past(a) \subseteq Request /\ PastNext(a) \subseteq Request
      /\ Max(Size) * Cardinality(PastNext(a)) \in Nat
      /\ Max(Size) * Cardinality(PastNext(a)) <= Max(Size) * Cardinality(Request)
      /\ Max(Size) * Cardinality(Request) \in Nat /\ Max(Size) * Cardinality(Past(a)) \in Nat
  BY PastSize DEF Past, PastNext
<1>2. user'[a] \in Row /\ user'[a].used \in Nat
  BY TablesType DEF Row
<1>3. CASE ~Registered(a)
  <2>1. user'[a].used = 0
    BY <1>3, RequestRowStep DEF RowStep, Registered
  <2>2. QED
    BY <1>1, <2>1, TopLimitBounds DEF Most
<1>4. CASE Registered(a) /\ user'[a].used = user[a].used
  <2>1. user[a].used \in Nat
    BY <1>4, RowType
  <2>2. CASE PastNext(a) \subseteq Past(a)
    <3>1. Max(Size) * Cardinality(PastNext(a)) <= Max(Size) * Cardinality(Past(a))
      BY <1>1, <2>2, SmallerPast
    <3>2. user[a].used + Max(Size) * Cardinality(Past(a)) < Most
      BY <1>4 DEF SharesLeft
    <3>3. QED
      BY <1>1, <1>4, <2>1, <3>1, <3>2, TopLimitBounds DEF Most
  <2>3. CASE ~(PastNext(a) \subseteq Past(a))
    <3>1. user[a].used < TopLimit
      BY <1>4, <2>3, PastStep, CheckSaw
    <3>2. QED
      BY <1>1, <1>4, <2>1, <3>1, TopLimitBounds DEF Most
  <2>4. QED
    BY <2>2, <2>3
<1>5. CASE Registered(a) /\ user'[a].used # user[a].used
  <2>1. /\ at[r] = "meter" /\ req[r].acct = a /\ Meter(r)
        /\ user'[a].used = user[a].used + req[r].size
    BY <1>5, RequestRowStep DEF RowStep, Registered
  <2>2. req[r].size \in Nat /\ req[r].size <= Max(Size) /\ user[a].used \in Nat
    BY <1>5, <2>1, MeterStep, MaxSize, RowType
  <2>3. r \in Past(a) /\ r \notin PastNext(a)
    <3>1. at'[r] = "idle"
      BY <2>1 DEF Meter, Reply, TypeOK
    <3>2. QED
      BY <2>1, <3>1 DEF Past, PastNext
  <2>4. PastNext(a) \subseteq Past(a) \ {r}
    BY <2>1, <2>3, PastStep DEF CheckQuota
  <2>5. IsFiniteSet(Past(a)) /\ Cardinality(Past(a)) \in Nat
    BY <1>1, PastSize
  <2>6. Cardinality(Past(a) \ {r}) = Cardinality(Past(a)) - 1 /\ Cardinality(Past(a) \ {r}) \in Nat
    BY <1>1, <2>3, <2>5, FS_RemoveElement, PastSize
  <2>7. Max(Size) * Cardinality(Past(a) \ {r}) = Max(Size) * Cardinality(Past(a)) - Max(Size)
    BY <2>5, <2>6, MulPred, MaxSize
  <2>8. Max(Size) * Cardinality(PastNext(a)) <= Max(Size) * Cardinality(Past(a) \ {r})
    BY <1>1, <2>4, SmallerPast
  <2>9. user[a].used + Max(Size) * Cardinality(Past(a)) < Most
    BY <1>5 DEF SharesLeft
  <2>10. QED
    BY <1>1, <2>1, <2>2, <2>7, <2>8, <2>9, MaxSize, TopLimitBounds DEF Most
<1>6. QED
  BY <1>3, <1>4, <1>5

LEMMA NextSharesLeft ==
  ASSUME ~D1Fails
  PROVE  TypeOK /\ SharesLeft /\ [Next]_vars => SharesLeft'
<1> SUFFICES ASSUME TypeOK, SharesLeft, [Next]_vars
             PROVE  SharesLeft'
  OBVIOUS
<1>1. ASSUME NEW r \in Request, RequestStep(r)
      PROVE  SharesLeft'
  <2>1. \A a \in Account : user'[a] # Nil =>
          user'[a].used + Max(Size) * Cardinality(PastNext(a)) < Most
    BY <1>1, RequestSharesLeft
  <2>2. \A a \in Account : PastNext(a) = {q \in Request : at'[q] \in {"agent", "meter"}
                                                          /\ req'[q].acct = a}
    BY DEF PastNext
  <2>3. QED
    BY <2>1, <2>2 DEF SharesLeft, Registered, Past, Most
<1>2. CASE UNCHANGED vars
  BY <1>2 DEF vars, SharesLeft, Registered, Past, Most
<1>3. QED
  BY <1>1, <1>2 DEF Next

(* While D1 answers, an account is metered beyond the largest limit by     *)
(* less than one blob for each request the gateway can have in flight.     *)
THEOREM OvershootBound ==
  ASSUME ~D1Fails
  PROVE  Spec => []OvershootIsBounded
<1>1. Init => SharesLeft
  BY DEF Init, SharesLeft, Registered
<1>2. TypeOK /\ SharesLeft => OvershootIsBounded
  <2> SUFFICES ASSUME TypeOK, SharesLeft, NEW a \in Account, Registered(a)
               PROVE  user[a].used < TopLimit + Cardinality(Request) * Max(Size)
    BY DEF OvershootIsBounded
  <2>1. /\ user[a].used \in Nat /\ Max(Size) * Cardinality(Past(a)) \in Nat
        /\ Cardinality(Request) \in Nat
    BY RowType, PastSize DEF Past
  <2>2. user[a].used + Max(Size) * Cardinality(Past(a)) < Most
    BY DEF SharesLeft
  <2>3. Most \in Nat
    BY <2>1, TopLimitBounds, MaxSize DEF Most
  <2>4. Most = TopLimit + Cardinality(Request) * Max(Size)
    BY <2>1, TopLimitBounds, MaxSize DEF Most
  <2>5. QED
    BY <2>1, <2>2, <2>3, <2>4
<1>3. QED
  BY <1>1, <1>2, NextSharesLeft, TypeCorrect, PTL DEF Spec

-----------------------------------------------------------------------------
(* Storage.                                                                *)

(* The bytes of one blob, and those waiting to be metered as any set of    *)
(* them.                                                                   *)
Slice(r, n) == {r} \X (1..n)
Bytes == Request \X (1..Max(Size))

LEMMA SliceSize ==
  ASSUME NEW r, NEW n \in Nat
  PROVE  IsFiniteSet(Slice(r, n)) /\ Cardinality(Slice(r, n)) = n
<1>1. IsFiniteSet({r}) /\ Cardinality({r}) = 1
  BY FS_Singleton
<1>2. IsFiniteSet(1..n) /\ Cardinality(1..n) = n
  <2>1. 1 \in Int /\ n \in Int
    OBVIOUS
  <2>2. IsFiniteSet(1..n) /\ Cardinality(1..n) = IF 1 > n THEN 0 ELSE n - 1 + 1
    BY <2>1, FS_Interval
  <2>3. QED
    BY <2>2
<1> DEFINE R == {r}
           I == 1..n
<1>3. IsFiniteSet(R) /\ Cardinality(R) = 1 /\ IsFiniteSet(I) /\ Cardinality(I) = n
  BY <1>1, <1>2
<1>4. Slice(r, n) = R \X I
  BY DEF Slice
<1> HIDE DEF R, I
<1>5. IsFiniteSet(R \X I) /\ Cardinality(R \X I) = Cardinality(R) * Cardinality(I)
  BY <1>3, FS_Product
<1>6. 1 * n = n
  OBVIOUS
<1>7. QED
  BY <1>3, <1>4, <1>5, <1>6

LEMMA BytesFinite ==
  ASSUME NEW B, B \subseteq Bytes
  PROVE  IsFiniteSet(B) /\ Cardinality(B) \in Nat
<1>1. IsFiniteSet(1..Max(Size))
  <2>1. 1 \in Int /\ Max(Size) \in Int
    BY MaxSize
  <2>2. QED
    BY <2>1, FS_Interval
<1>2. IsFiniteSet(Bytes)
  BY <1>1, RequestAssumption, FS_Product DEF Bytes
<1>3. IsFiniteSet(B)
  BY <1>2, FS_Subset
<1>4. QED
  BY <1>3, FS_CardinalityType

(* A blob that joins the bytes of others adds its size.                    *)
LEMMA SliceAdds ==
  ASSUME NEW B, B \subseteq Bytes, NEW r, NEW n \in Nat, B \cap Slice(r, n) = {}
  PROVE  Cardinality(B \cup Slice(r, n)) = Cardinality(B) + n
<1>1. IsFiniteSet(B) /\ Cardinality(B) \in Nat
  BY BytesFinite
<1>2. IsFiniteSet(Slice(r, n)) /\ Cardinality(Slice(r, n)) = n
  BY SliceSize
<1>3. Cardinality(B \cup Slice(r, n)) = Cardinality(B) + Cardinality(Slice(r, n))
                                         - Cardinality(B \cap Slice(r, n))
  BY <1>1, <1>2, FS_Union
<1>4. Cardinality(B \cap Slice(r, n)) = 0
  BY FS_EmptySet
<1>5. QED
  BY <1>1, <1>2, <1>3, <1>4

(* The bytes of an account after a step.                                   *)
BytesNext(a) ==
  {b \in Bytes : at'[b[1]] = "meter" /\ req'[b[1]].acct = a /\ b[2] <= req'[b[1]].size}

(* What others wait to meter for an account, whatever r does.              *)
OthersBytes(r, a) == {b \in UnmeteredBytes(a) : b[1] # r}

LEMMA BytesShape ==
  ASSUME NEW a \in Account
  PROVE  /\ UnmeteredBytes(a) \subseteq Bytes /\ BytesNext(a) \subseteq Bytes
         /\ \A r : OthersBytes(r, a) \subseteq Bytes
         /\ \A r, n : OthersBytes(r, a) \cap Slice(r, n) = {}
  BY DEF UnmeteredBytes, BytesNext, OthersBytes, Bytes, Slice

(* One request's own bytes are a slice when it is about to meter, none     *)
(* otherwise.                                                              *)
LEMMA BytesBefore ==
  ASSUME TypeOK, NEW r \in Request, NEW a \in Account
  PROVE  UnmeteredBytes(a) =
           IF at[r] = "meter" /\ req[r].acct = a
             THEN OthersBytes(r, a) \cup Slice(r, req[r].size)
             ELSE OthersBytes(r, a)
<1>1. CASE at[r] = "meter" /\ req[r].acct = a
  <2>1. req[r].size \in Nat /\ req[r].size <= Max(Size) /\ Max(Size) \in Nat
    BY <1>1, MaxSize, SizeAssumption DEF TypeOK
  <2>2. \A i \in 1..req[r].size : i \in 1..Max(Size) /\ i <= req[r].size
    BY <2>1
  <2>3. ASSUME NEW b \in Slice(r, req[r].size)
        PROVE  b \in UnmeteredBytes(a)
    BY <1>1, <2>2 DEF Slice, UnmeteredBytes
  <2>4. ASSUME NEW b \in UnmeteredBytes(a), b[1] = r
        PROVE  b \in Slice(r, req[r].size)
    BY <2>1, <2>4 DEF Slice, UnmeteredBytes
  <2>5. QED
    BY <1>1, <2>3, <2>4 DEF OthersBytes
<1>2. CASE ~(at[r] = "meter" /\ req[r].acct = a)
  BY <1>2 DEF OthersBytes, UnmeteredBytes
<1>3. QED
  BY <1>1, <1>2

LEMMA BytesAfter ==
  ASSUME TypeOK, NEW r \in Request, RequestStep(r), NEW a \in Account
  PROVE  BytesNext(a) =
           IF at'[r] = "meter" /\ req'[r].acct = a
             THEN OthersBytes(r, a) \cup Slice(r, req'[r].size)
             ELSE OthersBytes(r, a)
<1>1. \A b \in Bytes : b[1] # r => (b \in BytesNext(a) <=> b \in OthersBytes(r, a))
  BY OthersKept DEF BytesNext, OthersBytes, UnmeteredBytes, Bytes
<1>2. \A b \in OthersBytes(r, a) : b[1] # r /\ b \in Bytes
  BY DEF OthersBytes, UnmeteredBytes, Bytes
<1>3. CASE at'[r] = "meter" /\ req'[r].acct = a
  <2>1. req'[r].size \in Nat /\ req'[r].size <= Max(Size) /\ Max(Size) \in Nat
    BY <1>3, MaxSize, SizeAssumption, SlotType DEF SlotOK
  <2>2. \A i \in 1..req'[r].size : i \in 1..Max(Size) /\ i <= req'[r].size
    BY <2>1
  <2>3. ASSUME NEW b \in Slice(r, req'[r].size)
        PROVE  b \in BytesNext(a)
    BY <1>3, <2>2 DEF Slice, BytesNext, Bytes
  <2>4. ASSUME NEW b \in BytesNext(a), b[1] = r
        PROVE  b \in Slice(r, req'[r].size)
    BY <2>1, <2>4 DEF Slice, BytesNext, Bytes
  <2>5. \A b \in BytesNext(a) : b \in Bytes
    BY DEF BytesNext
  <2>6. QED
    BY <1>1, <1>2, <1>3, <2>3, <2>4, <2>5
<1>4. CASE ~(at'[r] = "meter" /\ req'[r].acct = a)
  <2>1. \A b \in BytesNext(a) : b[1] # r /\ b \in Bytes
    BY <1>4 DEF BytesNext
  <2>2. QED
    BY <1>1, <1>2, <1>4, <2>1
<1>5. QED
  BY <1>3, <1>4

UsedNext(a) == IF user'[a] # Nil THEN user'[a].used ELSE 0

Balanced(a) == stored[a] = Used(a) + Cardinality(UnmeteredBytes(a)) + lost[a]

LEMMA UsedType ==
  ASSUME TypeOK, NEW a \in Account
  PROVE  /\ Used(a) \in Nat /\ stored[a] \in Nat /\ lost[a] \in Nat
         /\ Cardinality(UnmeteredBytes(a)) \in Nat
         /\ \A r : Cardinality(OthersBytes(r, a)) \in Nat
<1>1. Used(a) \in Nat
  BY RowType DEF Used
<1>2. QED
  BY <1>1, BytesShape, BytesFinite DEF TypeOK

(* The size of what one request waits to meter, before and after a step.   *)
LEMMA BytesCount ==
  ASSUME TypeOK, NEW r \in Request, RequestStep(r), NEW a \in Account
  PROVE  LET others == Cardinality(OthersBytes(r, a)) IN
         /\ Cardinality(UnmeteredBytes(a)) =
              IF at[r] = "meter" /\ req[r].acct = a THEN others + req[r].size ELSE others
         /\ Cardinality(BytesNext(a)) =
              IF at'[r] = "meter" /\ req'[r].acct = a THEN others + req'[r].size ELSE others
<1>1. at[r] = "meter" => req[r].size \in Nat
  BY SizeAssumption DEF TypeOK
<1>2. at'[r] = "meter" => req'[r].size \in Nat
  BY SizeAssumption, SlotType DEF SlotOK
<1>3. OthersBytes(r, a) \subseteq Bytes
  BY BytesShape
<1>4. ASSUME NEW n \in Nat
      PROVE  Cardinality(OthersBytes(r, a) \cup Slice(r, n)) = Cardinality(OthersBytes(r, a)) + n
  BY <1>3, BytesShape, SliceAdds
<1>5. Cardinality(UnmeteredBytes(a)) =
        IF at[r] = "meter" /\ req[r].acct = a
          THEN Cardinality(OthersBytes(r, a)) + req[r].size ELSE Cardinality(OthersBytes(r, a))
  BY <1>1, <1>4, BytesBefore
<1>6. Cardinality(BytesNext(a)) =
        IF at'[r] = "meter" /\ req'[r].acct = a
          THEN Cardinality(OthersBytes(r, a)) + req'[r].size ELSE Cardinality(OthersBytes(r, a))
  BY <1>2, <1>4, BytesAfter
<1>7. QED
  BY <1>5, <1>6

(* A write that stored a blob leaves its bytes to be metered or lost.      *)
LEMMA AgentWriteBytes ==
  ASSUME TypeOK, NEW r \in Request, AgentWrite(r)
  PROVE  LET o == req[r].acct IN
         \/ UNCHANGED <<stored, lost>> /\ at'[r] = "idle"
         \/ \E n \in Size :
              /\ stored' = [stored EXCEPT ![o] = stored[o] + n]
              /\ \/ at'[r] = "meter" /\ req'[r].acct = o /\ req'[r].size = n /\ lost' = lost
                 \/ at'[r] = "idle" /\ lost' = [lost EXCEPT ![o] = lost[o] + n]
  BY DEF AgentWrite, ToMeter, Reply, TypeOK

LEMMA RequestBalanced ==
  ASSUME TypeOK, NEW r \in Request, RequestStep(r), NEW a \in Account, Balanced(a)
  PROVE  stored'[a] = UsedNext(a) + Cardinality(BytesNext(a)) + lost'[a]
<1> DEFINE others == Cardinality(OthersBytes(r, a))
<1>1. /\ Used(a) \in Nat /\ stored[a] \in Nat /\ lost[a] \in Nat /\ others \in Nat
      /\ stored[a] = Used(a) + Cardinality(UnmeteredBytes(a)) + lost[a]
  BY UsedType DEF Balanced
<1>2. Cardinality(UnmeteredBytes(a)) =
        IF at[r] = "meter" /\ req[r].acct = a THEN others + req[r].size ELSE others
  BY BytesCount
<1>3. Cardinality(BytesNext(a)) =
        IF at'[r] = "meter" /\ req'[r].acct = a THEN others + req'[r].size ELSE others
  BY BytesCount
<1> HIDE DEF others
<1>4. CASE AgentWrite(r)
  <2>1. at[r] = "agent" /\ user' = user /\ req[r].acct \in Account
    BY <1>4 DEF AgentWrite, TypeOK, OwnStep
  <2>2. UsedNext(a) = Used(a)
    BY <2>1 DEF UsedNext, Used, Registered
  <2>3. CASE UNCHANGED <<stored, lost>> /\ at'[r] = "idle"
    BY <1>1, <1>2, <1>3, <2>1, <2>2, <2>3
  <2>4. CASE \E n \in Size :
               /\ stored' = [stored EXCEPT ![req[r].acct] = stored[req[r].acct] + n]
               /\ \/ /\ at'[r] = "meter" /\ req'[r].acct = req[r].acct /\ req'[r].size = n
                     /\ lost' = lost
                  \/ /\ at'[r] = "idle"
                     /\ lost' = [lost EXCEPT ![req[r].acct] = lost[req[r].acct] + n]
    <3>1. PICK n \in Size :
               /\ stored' = [stored EXCEPT ![req[r].acct] = stored[req[r].acct] + n]
               /\ \/ /\ at'[r] = "meter" /\ req'[r].acct = req[r].acct /\ req'[r].size = n
                     /\ lost' = lost
                  \/ /\ at'[r] = "idle"
                     /\ lost' = [lost EXCEPT ![req[r].acct] = lost[req[r].acct] + n]
      BY <2>4
    <3>2. n \in Nat
      BY SizeAssumption
    <3>3. CASE a = req[r].acct
      <4>1. stored'[a] = stored[a] + n
        BY <3>1, <3>3 DEF TypeOK
      <4>2. \/ at'[r] = "meter" /\ req'[r].acct = a /\ req'[r].size = n /\ lost'[a] = lost[a]
            \/ at'[r] = "idle" /\ lost'[a] = lost[a] + n
        BY <3>1, <3>3 DEF TypeOK
      <4>3. QED
        BY <1>1, <1>2, <1>3, <2>1, <2>2, <3>2, <4>1, <4>2
    <3>4. CASE a # req[r].acct
      <4>1. stored'[a] = stored[a] /\ lost'[a] = lost[a]
        BY <3>1, <3>4 DEF TypeOK
      <4>2. ~(at'[r] = "meter" /\ req'[r].acct = a)
        BY <3>1, <3>4
      <4>3. QED
        BY <1>1, <1>2, <1>3, <2>1, <2>2, <4>1, <4>2
    <3>5. QED
      BY <3>3, <3>4
  <2>5. QED
    BY <1>4, <2>3, <2>4, AgentWriteBytes
<1>5. CASE Meter(r)
  <2>1. at[r] = "meter" /\ at'[r] = "idle" /\ req[r].size \in Nat /\ stored' = stored
    BY <1>5, MeterStep DEF Meter, Reply, TypeOK
  <2>2. CASE a # req[r].acct
    <3>1. user'[a] = user[a] /\ lost'[a] = lost[a]
      BY <1>5, <2>2, MeterStep DEF TypeOK
    <3>2. UsedNext(a) = Used(a)
      BY <3>1 DEF UsedNext, Used, Registered
    <3>3. QED
      BY <1>1, <1>2, <1>3, <2>1, <2>2, <3>1, <3>2
  <2>3. CASE a = req[r].acct
    <3>1. \/ UsedNext(a) = Used(a) /\ lost'[a] = lost[a] + req[r].size
          \/ UsedNext(a) = Used(a) + req[r].size /\ lost'[a] = lost[a]
      <4>1. CASE user' = user /\ lost' = [lost EXCEPT ![a] = lost[a] + req[r].size]
        BY <4>1 DEF UsedNext, Used, Registered, TypeOK
      <4>2. CASE /\ Registered(a) /\ lost' = lost
                 /\ user' = [user EXCEPT ![a] = [key |-> user[a].key, tier |-> user[a].tier,
                                                 used |-> user[a].used + req[r].size]]
        <5>1. user'[a] = [key |-> user[a].key, tier |-> user[a].tier,
                          used |-> user[a].used + req[r].size]
          BY <4>2 DEF TypeOK
        <5>2. user'[a] \in Row \cup {Nil} /\ user'[a].used = user[a].used + req[r].size
          BY <5>1, TablesType
        <5>3. user'[a] # Nil
          <6>1. user[a].used \in Nat /\ user[a].key \in Key /\ user[a].tier \in Tier
            BY <4>2, RowType
          <6>2. user[a].used + req[r].size \in Nat
            BY <2>1, <6>1
          <6>3. user'[a] \in Row
            BY <5>1, <6>1, <6>2 DEF Row
          <6>4. QED
            BY <6>3, NilAssumption
        <5>4. QED
          BY <4>2, <5>2, <5>3 DEF UsedNext, Used
      <4>3. QED
        BY <1>5, <2>3, <4>1, <4>2, MeterStep
    <3>2. QED
      BY <1>1, <1>2, <1>3, <2>1, <2>3, <3>1
  <2>4. QED
    BY <2>2, <2>3
<1>6. CASE ~AgentWrite(r) /\ ~Meter(r)
  <2>1. at[r] # "meter" /\ at'[r] # "meter" /\ UNCHANGED <<stored, lost>>
    <3>1. at'[r] # "meter"
      BY <1>6, AcceptSlot, KeyLookupSlot, PlainSlot DEF RequestStep, FirstSteps
    <3>2. at[r] # "meter" /\ UNCHANGED <<stored, lost>>
      BY <1>6 DEF RequestStep, Accept, KeyLookup, RegisterLookup, RegisterInsert, RotateKey,
         SetTier, CheckQuota, StatementFails
    <3>3. QED
      BY <3>1, <3>2
  <2>2. UsedNext(a) = Used(a)
    BY <1>6, RequestRowStep, NilAssumption DEF RowStep, UsedNext, Used, Registered
  <2>3. QED
    BY <1>1, <1>2, <1>3, <2>1, <2>2
<1>7. QED
  BY <1>4, <1>5, <1>6

LEMMA NextBalanced == TypeOK /\ UsageAccountsForStorage /\ [Next]_vars => UsageAccountsForStorage'
<1> SUFFICES ASSUME TypeOK, UsageAccountsForStorage, [Next]_vars
             PROVE  UsageAccountsForStorage'
  OBVIOUS
<1>1. ASSUME NEW r \in Request, RequestStep(r)
      PROVE  UsageAccountsForStorage'
  <2>1. \A a \in Account : stored'[a] = UsedNext(a) + Cardinality(BytesNext(a)) + lost'[a]
    BY <1>1, RequestBalanced DEF UsageAccountsForStorage, Balanced
  <2>2. QED
    BY <2>1 DEF UsageAccountsForStorage, UsedNext, BytesNext, Bytes, Used, UnmeteredBytes,
       Registered
<1>2. CASE UNCHANGED vars
  BY <1>2 DEF vars, UsageAccountsForStorage, Used, UnmeteredBytes, Registered
<1>3. QED
  BY <1>1, <1>2 DEF Next

(* However writes overlap, every byte stored for an account is metered,    *)
(* about to be metered, or known to be lost.                               *)
THEOREM StorageIsAccounted == Spec => []UsageAccountsForStorage
<1>1. Init => UsageAccountsForStorage
  <2> SUFFICES ASSUME Init, NEW a \in Account
               PROVE  stored[a] = Used(a) + Cardinality(UnmeteredBytes(a)) + lost[a]
    BY DEF UsageAccountsForStorage
  <2>1. UnmeteredBytes(a) = {}
    BY DEF Init, UnmeteredBytes
  <2>2. Cardinality(UnmeteredBytes(a)) = 0
    BY <2>1, FS_EmptySet
  <2>3. stored[a] = 0 /\ lost[a] = 0 /\ Used(a) = 0
    BY DEF Init, Used, Registered
  <2>4. QED
    BY <2>2, <2>3
<1>2. QED
  BY <1>1, NextBalanced, TypeCorrect, PTL DEF Spec

-----------------------------------------------------------------------------
(* Issued keys.                                                            *)

(* Who came with an API key has a row, since rows stay.                    *)
KeyCallersHaveRows ==
  \A r \in Request : at[r] \in OwnStep /\ req[r].cred # Nil => Registered(req[r].acct)

LEMMA RowsStay ==
  ASSUME TypeOK, NEW r \in Request, RequestStep(r), NEW a \in Account, Registered(a)
  PROVE  user'[a] # Nil
  BY RequestRowSurvives DEF RowSurvives

LEMMA RequestKeyCallers ==
  ASSUME TypeOK, KeyCallersHaveRows, NEW r \in Request, RequestStep(r)
  PROVE  KeyCallersHaveRows'
<1> SUFFICES ASSUME NEW q \in Request, at'[q] \in OwnStep, req'[q].cred # Nil
             PROVE  user'[req'[q].acct] # Nil
  BY DEF KeyCallersHaveRows, Registered
<1>1. req'[q].acct \in Account
  BY SlotType, OthersKept DEF SlotOK, TypeOK
<1>2. CASE q # r
  BY <1>1, <1>2, OthersKept, RowsStay DEF KeyCallersHaveRows
<1>3. CASE q = r
  <2>1. ~Accept(r)
    BY <1>3, AcceptSlot DEF OwnStep
  <2>2. CASE KeyLookup(r)
    <3>1. at'[r] # "idle"
      BY <1>3 DEF OwnStep
    <3>2. PICK a \in Account :
            /\ OwnsKey(a, req[r].cred)
            /\ req' = [req EXCEPT ![r] = [op |-> @.op, acct |-> a, cred |-> @.cred,
                                          tier |-> @.tier, size |-> @.size]]
      BY <2>2, <3>1 DEF KeyLookup, Reply, TypeOK
    <3>3. req'[r].acct = a /\ Registered(a)
      BY <3>2 DEF TypeOK, OwnsKey
    <3>4. QED
      BY <1>3, <3>3, RowsStay
  <2>3. CASE AgentWrite(r)
    <3>1. at[r] = "agent" /\ at'[r] # "idle"
      BY <1>3, <2>3 DEF AgentWrite, OwnStep
    <3>2. PICK n \in Size : ToMeter(r, n)
      BY <2>3, <3>1 DEF AgentWrite, Reply, TypeOK
    <3>3. req'[r].acct = req[r].acct /\ req'[r].cred = req[r].cred
      BY <3>2 DEF ToMeter, TypeOK
    <3>4. Registered(req[r].acct)
      BY <1>3, <3>1, <3>3 DEF KeyCallersHaveRows, OwnStep
    <3>5. QED
      BY <1>1, <1>3, <3>3, <3>4, RowsStay
  <2>4. CASE ~Accept(r) /\ ~KeyLookup(r) /\ ~AgentWrite(r)
    <3>1. at'[r] # "idle"
      BY <1>3 DEF OwnStep
    <3>2. req'[r] = req[r]
      BY <2>4, <3>1, PlainSlot DEF RequestStep
    <3>3. at[r] \in OwnStep
      BY <2>4, <3>1 DEF RequestStep, RegisterLookup, RegisterInsert, RotateKey, SetTier,
         CheckQuota, Meter, StatementFails, Reply, TypeOK, OwnStep
    <3>4. QED
      BY <1>1, <1>3, <3>2, <3>3, RowsStay DEF KeyCallersHaveRows
  <2>5. QED
    BY <2>1, <2>2, <2>3, <2>4
<1>4. QED
  BY <1>2, <1>3

(* The key that a rotation answers is the account's.                       *)
KeyHoldersRotate ==
  \A r \in Request :
    (at[r] = "rotate" /\ at'[r] = "idle" /\ drawn' # drawn /\ req[r].cred # Nil) =>
      /\ user'[req[r].acct] # Nil
      /\ user'[req[r].acct].key \in drawn' \ drawn

LEMMA NextKeyHolders == TypeOK /\ KeyCallersHaveRows /\ [Next]_vars => KeyHoldersRotate
<1> SUFFICES ASSUME TypeOK, KeyCallersHaveRows, [Next]_vars, NEW r \in Request,
                    at[r] = "rotate", at'[r] = "idle", drawn' # drawn, req[r].cred # Nil
             PROVE  /\ user'[req[r].acct] # Nil
                    /\ user'[req[r].acct].key \in drawn' \ drawn
  BY DEF KeyHoldersRotate
<1>1. PICK q \in Request : RequestStep(q)
  BY DEF Next, vars
<1>2. q = r
  BY <1>1, OthersKept
<1>3. RotateKey(r)
  BY <1>1, <1>2 DEF RequestStep, Accept, KeyLookup, RegisterLookup, RegisterInsert, SetTier,
     CheckQuota, AgentWrite, Meter, StatementFails
<1>4. req[r].acct \in Account /\ Registered(req[r].acct)
  BY DEF KeyCallersHaveRows, OwnStep, TypeOK
<1>5. PICK k \in Key \ drawn :
        /\ drawn' = drawn \cup {k}
        /\ user' = [user EXCEPT ![req[r].acct] = [key |-> k, tier |-> user[req[r].acct].tier,
                                                 used |-> user[req[r].acct].used]]
  BY <1>3, <1>4 DEF RotateKey
<1>6. user'[req[r].acct] = [key |-> k, tier |-> user[req[r].acct].tier,
                            used |-> user[req[r].acct].used]
  BY <1>4, <1>5 DEF TypeOK
<1>7. user'[req[r].acct] \in Row
  BY <1>4, <1>6, RowType DEF Row
<1>8. QED
  BY <1>5, <1>6, <1>7, NilAssumption

(* A caller that holds an API key gets a working one from                  *)
(* /api/keys/generate, whatever else goes on with its account: the keys    *)
(* that open nothing go to sessions of accounts not registered yet.        *)
THEOREM KeyHoldersGetWorkingKeys == Spec => [][KeyHoldersRotate]_vars
<1>1. Init => KeyCallersHaveRows
  BY DEF Init, KeyCallersHaveRows, OwnStep
<1>2. TypeOK /\ KeyCallersHaveRows /\ [Next]_vars => KeyCallersHaveRows'
  <2>1. ASSUME TypeOK, KeyCallersHaveRows, UNCHANGED vars
        PROVE  KeyCallersHaveRows'
    BY <2>1 DEF vars, KeyCallersHaveRows, Registered
  <2>2. QED
    BY <2>1, RequestKeyCallers DEF Next
<1>3. TypeOK /\ KeyCallersHaveRows /\ [Next]_vars => [KeyHoldersRotate]_vars
  BY NextKeyHolders
<1>4. QED
  BY <1>1, <1>2, <1>3, TypeCorrect, PTL DEF Spec
=============================================================================
