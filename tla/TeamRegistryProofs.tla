------------------------- MODULE TeamRegistryProofs -------------------------
(***************************************************************************)
(* Proofs about TeamRegistry for any accounts, teams, number of concurrent *)
(* requests and set of routes in use.                                      *)
(***************************************************************************)
EXTENDS TeamRegistry, FiniteSetTheorems, TLAPS

(* A request that was found to be its team's admin refers to a team that   *)
(* exists: without it, RosterHasTeam is not inductive.                     *)
AdminOnlyHasTeam ==
  \A r \in Request : at[r] \in AdminOnly => HasTeam(req[r].team)

IInv == TypeOK /\ RosterHasTeam /\ AdminOnlyHasTeam /\ OneCreate

(* The disjuncts of Next for one request.                                  *)
RequestStep(r) ==
  \/ Accept(r) \/ CreateLookup(r) \/ CreateInsert(r) \/ CheckAdmin(r) \/ Upsert(r)
  \/ CheckMemberExists(r) \/ Update(r) \/ CheckTargetRole(r) \/ CountAdmins(r)
  \/ Delete(r) \/ CheckMember(r) \/ ReadRoster(r) \/ StatementFails(r)

(* The steps after which no table has changed.                             *)
NoWrite(r) ==
  \/ Accept(r) \/ CreateLookup(r) \/ CheckAdmin(r) \/ CheckMemberExists(r)
  \/ CheckTargetRole(r) \/ CountAdmins(r) \/ CheckMember(r) \/ ReadRoster(r)
  \/ StatementFails(r)

-----------------------------------------------------------------------------

(* Writing one permission keeps the shape of the table.                    *)
LEMMA SetPermissionType ==
  ASSUME TypeOK, NEW t \in Team, NEW a \in Account, NEW p \in Permission \cup {"none"},
         SetPermission(t, a, p)
  PROVE  /\ member' \in [Team -> [Account -> Permission \cup {"none"}]]
         /\ member'[t][a] = p
         /\ \A u \in Team, b \in Account : <<u, b>> # <<t, a>> => member'[u][b] = member[u][b]
         /\ \A u \in Team : u # t => member'[u] = member[u]
  BY DEF TypeOK, SetPermission

LEMMA InitTypeOK == Init => TypeOK
  BY NoAccountAssumption DEF Init, TypeOK, Step, Permission

(* The statements that only read leave the tables as they are.             *)
LEMMA NoWriteKeepsTables ==
  ASSUME NEW r \in Request, NoWrite(r)
  PROVE  UNCHANGED <<creator, member>>
  BY DEF NoWrite, Accept, CreateLookup, CheckAdmin, CheckMemberExists,
         CheckTargetRole, CountAdmins, CheckMember, ReadRoster, StatementFails

(* Where each request goes: its own slot moves, within Step and Call.      *)
LEMMA SlotType ==
  ASSUME TypeOK, NEW r \in Request, RequestStep(r)
  PROVE  /\ at' \in [Request -> Step]
         /\ req' \in [Request -> Call \cup {NoCall}]
         /\ \A s \in Request : at'[s] # "idle" => req'[s] \in Call
         /\ \A s \in Request : s # r => at'[s] = at[s] /\ req'[s] = req[s]
<1> USE DEF TypeOK, Step, Goto, Reply
<1>1. CASE Accept(r)
  BY <1>1 DEF Accept, FirstStep, Call, Op
<1>2. CASE CreateLookup(r)
  BY <1>2 DEF CreateLookup
<1>3. CASE CreateInsert(r)
  BY <1>3 DEF CreateInsert
<1>4. CASE CheckAdmin(r)
  BY <1>4 DEF CheckAdmin, AfterAdminCheck
<1>5. CASE Upsert(r)
  BY <1>5 DEF Upsert
<1>6. CASE CheckMemberExists(r)
  BY <1>6 DEF CheckMemberExists
<1>7. CASE Update(r)
  BY <1>7 DEF Update
<1>8. CASE CheckTargetRole(r)
  BY <1>8 DEF CheckTargetRole
<1>9. CASE CountAdmins(r)
  BY <1>9 DEF CountAdmins
<1>10. CASE Delete(r)
  BY <1>10 DEF Delete
<1>11. CASE CheckMember(r)
  BY <1>11 DEF CheckMember
<1>12. CASE ReadRoster(r)
  BY <1>12 DEF ReadRoster
<1>13. CASE StatementFails(r)
  BY <1>13 DEF StatementFails
<1>14. QED
  BY <1>1, <1>2, <1>3, <1>4, <1>5, <1>6, <1>7, <1>8, <1>9, <1>10, <1>11, <1>12, <1>13
     DEF RequestStep

(* Which statements the requests found to be admins wait for next.         *)
LEMMA AdminOnlyStep ==
  ASSUME TypeOK, NEW r \in Request, RequestStep(r), at'[r] \in AdminOnly
  PROVE  /\ req'[r] = req[r]
         /\ at[r] \in AdminOnly \/ (at[r] = "checkAdmin" /\ CheckAdmin(r))
<1> USE DEF TypeOK, AdminOnly, Goto, Reply
<1>1. CASE Accept(r)
  BY <1>1 DEF Accept, FirstStep, Call, Op
<1>2. CASE CreateLookup(r)
  BY <1>2 DEF CreateLookup
<1>3. CASE CreateInsert(r)
  BY <1>3 DEF CreateInsert
<1>4. CASE CheckAdmin(r)
  BY <1>4 DEF CheckAdmin
<1>5. CASE Upsert(r) \/ CheckMemberExists(r) \/ Update(r)
  BY <1>5 DEF Upsert, CheckMemberExists, Update
<1>6. CASE CheckTargetRole(r) \/ CountAdmins(r) \/ Delete(r)
  BY <1>6 DEF CheckTargetRole, CountAdmins, Delete
<1>7. CASE CheckMember(r) \/ ReadRoster(r) \/ StatementFails(r)
  BY <1>7 DEF CheckMember, ReadRoster, StatementFails
<1>8. QED
  BY <1>1, <1>2, <1>3, <1>4, <1>5, <1>6, <1>7 DEF RequestStep

(* A step that is none of the four writes leaves the tables as they are.   *)
LEMMA StepKinds ==
  ASSUME NEW r \in Request, RequestStep(r)
  PROVE  NoWrite(r) \/ CreateInsert(r) \/ Upsert(r) \/ Update(r) \/ Delete(r)
  BY DEF RequestStep, NoWrite

(* What the three roster statements write, all of them for a team that the *)
(* request was found to be an admin of.                                    *)
LEMMA RosterWrite ==
  ASSUME TypeOK, NEW r \in Request, Upsert(r) \/ Update(r) \/ Delete(r)
  PROVE  /\ at[r] \in AdminOnly
         /\ req[r].team \in Team /\ req[r].target \in Account
         /\ creator' = creator
         /\ member' \in [Team -> [Account -> Permission \cup {"none"}]]
         /\ \A u \in Team : u # req[r].team => member'[u] = member[u]
<1> DEFINE c == req[r]
<1>1. at[r] \in {"upsert", "update", "delete"}
  BY DEF Upsert, Update, Delete
<1>2. c.team \in Team /\ c.target \in Account /\ c.perm \in Permission
  BY <1>1 DEF TypeOK, Call
<1>3. UNCHANGED member \/ \E p \in Permission \cup {"none"} : SetPermission(c.team, c.target, p)
  BY <1>2 DEF Upsert, Update, Delete
<1>4. CASE UNCHANGED member
  BY <1>1, <1>2, <1>4 DEF TypeOK, AdminOnly, Upsert, Update, Delete
<1>5. CASE \E p \in Permission \cup {"none"} : SetPermission(c.team, c.target, p)
  <2>1. PICK p \in Permission \cup {"none"} : SetPermission(c.team, c.target, p)
    BY <1>5
  <2>2. QED
    BY <1>1, <1>2, <2>1, SetPermissionType DEF AdminOnly, Upsert, Update, Delete
<1>6. QED
  BY <1>3, <1>4, <1>5

(* What create's batch does: the team and its founder's row, or nothing.   *)
LEMMA InsertWrite ==
  ASSUME TypeOK, NEW r \in Request, CreateInsert(r)
  PROVE  /\ at[r] = "insert" /\ req[r] \in Call
         /\ \/ UNCHANGED <<creator, member>>
               /\ at'[r] = "idle"
            \/ /\ creator[req[r].team] = NoAccount
               /\ creator' = [creator EXCEPT ![req[r].team] = req[r].acct]
               /\ SetPermission(req[r].team, req[r].acct, "admin")
               /\ at'[r] \in {"idle", "created"}
               /\ at'[r] = "created" => req'[r] = req[r]
  BY DEF CreateInsert, TypeOK, Goto, Reply, CreatorRole

-----------------------------------------------------------------------------

LEMMA StepTypeOK ==
  ASSUME TypeOK, NEW r \in Request, RequestStep(r)
  PROVE  TypeOK'
<1>1. creator' \in [Team -> Account \cup {NoAccount}]
      /\ member' \in [Team -> [Account -> Permission \cup {"none"}]]
  <2>1. CASE NoWrite(r)
    BY <2>1, NoWriteKeepsTables DEF TypeOK
  <2>2. CASE CreateInsert(r)
    BY <2>2, InsertWrite, SetPermissionType DEF TypeOK, Call, Permission
  <2>3. CASE Upsert(r) \/ Update(r) \/ Delete(r)
    BY <2>3, RosterWrite DEF TypeOK
  <2>4. QED
    BY <2>1, <2>2, <2>3, StepKinds
<1>2. QED
  BY <1>1, SlotType DEF TypeOK

(* A row that records its creator is never rewritten, and never removed.   *)
LEMMA CreatorKept ==
  ASSUME TypeOK, NEW r \in Request, RequestStep(r), NEW t \in Team, HasTeam(t)
  PROVE  creator'[t] = creator[t]
<1>1. CASE NoWrite(r)
  BY <1>1, NoWriteKeepsTables
<1>2. CASE CreateInsert(r)
  BY <1>2, InsertWrite DEF TypeOK, Call, HasTeam
<1>3. CASE Upsert(r) \/ Update(r) \/ Delete(r)
  BY <1>3, RosterWrite
<1>4. QED
  BY <1>1, <1>2, <1>3, StepKinds

LEMMA StepRosterHasTeam ==
  ASSUME IInv, NEW r \in Request, RequestStep(r)
  PROVE  RosterHasTeam'
<1> SUFFICES ASSUME NEW t \in Team, NEW a \in Account, member'[t][a] # "none"
             PROVE  HasTeam(t)'
  BY DEF RosterHasTeam
<1>1. CASE HasTeam(t)
  BY <1>1, CreatorKept DEF IInv, HasTeam
<1>2. CASE ~HasTeam(t)
  <2>1. member[t][a] = "none"
    BY <1>2 DEF IInv, RosterHasTeam
  <2>2. CASE NoWrite(r)
    BY <2>1, <2>2, NoWriteKeepsTables
  <2>3. CASE CreateInsert(r)
    <3>1. req[r].team = t
      BY <2>1, <2>3, InsertWrite, SetPermissionType DEF IInv, Call, Permission
    <3>2. QED
      BY <2>1, <2>3, <3>1, InsertWrite, NoAccountAssumption DEF IInv, TypeOK, Call, HasTeam
  <2>4. CASE Upsert(r) \/ Update(r) \/ Delete(r)
    <3>1. HasTeam(req[r].team)
      BY <2>4, RosterWrite DEF IInv, AdminOnlyHasTeam
    <3>2. QED
      BY <1>2, <2>1, <2>4, <3>1, RosterWrite DEF IInv
  <2>5. QED
    BY <2>2, <2>3, <2>4, StepKinds
<1>3. QED
  BY <1>1, <1>2

LEMMA StepAdminOnlyHasTeam ==
  ASSUME IInv, NEW r \in Request, RequestStep(r)
  PROVE  AdminOnlyHasTeam'
<1> SUFFICES ASSUME NEW s \in Request, at'[s] \in AdminOnly
             PROVE  creator'[req'[s].team] # NoAccount
  BY DEF AdminOnlyHasTeam, HasTeam, AdminOnly
<1> DEFINE t == req[s].team
<1>1. /\ req'[s] = req[s]
      /\ at[s] \in AdminOnly \/ (at[s] = "checkAdmin" /\ CheckAdmin(s))
  BY AdminOnlyStep, SlotType DEF IInv
<1>2. t \in Team
  BY <1>1 DEF IInv, TypeOK, Call, AdminOnly
<1>3. HasTeam(t)
  <2>1. CASE at[s] \in AdminOnly
    BY <2>1 DEF IInv, AdminOnlyHasTeam
  <2>2. CASE at[s] = "checkAdmin" /\ CheckAdmin(s)
    <3>1. member[t][req[s].acct] = "admin" /\ req[s].acct \in Account
      BY <2>2 DEF CheckAdmin, AdminOnly, Reply, IInv, TypeOK, Call
    <3>2. QED
      BY <1>2, <3>1 DEF IInv, RosterHasTeam
  <2>3. QED
    BY <1>1, <2>1, <2>2
<1>4. creator'[t] = creator[t]
  BY <1>2, <1>3, CreatorKept DEF IInv
<1>5. QED
  BY <1>1, <1>3, <1>4 DEF HasTeam

(* Only create's insert answers a create, and only if it wrote the team.   *)
LEMMA CreatedStep ==
  ASSUME TypeOK, NEW r \in Request, RequestStep(r), at'[r] = "created"
  PROVE  CreateInsert(r)
<1> USE DEF TypeOK, Goto, Reply
<1>1. CASE Accept(r)
  BY <1>1 DEF Accept, FirstStep, Call, Op
<1>2. CASE CreateLookup(r) \/ CheckAdmin(r) \/ Upsert(r) \/ CheckMemberExists(r)
  BY <1>2 DEF CreateLookup, CheckAdmin, AfterAdminCheck, Upsert, CheckMemberExists
<1>3. CASE Update(r) \/ CheckTargetRole(r) \/ CountAdmins(r) \/ Delete(r)
  BY <1>3 DEF Update, CheckTargetRole, CountAdmins, Delete
<1>4. CASE CheckMember(r) \/ ReadRoster(r) \/ StatementFails(r)
  BY <1>4 DEF CheckMember, ReadRoster, StatementFails
<1>5. QED
  BY <1>1, <1>2, <1>3, <1>4 DEF RequestStep

LEMMA StepOneCreate ==
  ASSUME IInv, NEW r \in Request, RequestStep(r)
  PROVE  OneCreate'
<1> USE DEF IInv
(* A slot other than r that holds a success held it before, with its team. *)
<1>1. ASSUME NEW s \in Request, s # r, at'[s] = "created"
      PROVE  /\ at[s] = "created" /\ req'[s] = req[s] /\ req[s] \in Call
             /\ creator[req[s].team] = req[s].acct
             /\ creator'[req[s].team] = req[s].acct
  <2>1. at[s] = "created" /\ req'[s] = req[s] /\ req[s] \in Call
    BY <1>1, SlotType DEF TypeOK
  <2>2. creator[req[s].team] = req[s].acct
    BY <2>1 DEF OneCreate
  <2>3. req[s].team \in Team /\ HasTeam(req[s].team)
    BY <2>1, <2>2, NoAccountAssumption DEF Call, HasTeam
  <2>4. QED
    BY <2>1, <2>2, <2>3, CreatorKept
<1>2. ASSUME at'[r] = "created"
      PROVE  /\ req'[r] = req[r] /\ req[r] \in Call
             /\ creator[req[r].team] = NoAccount
             /\ creator'[req[r].team] = req[r].acct
  BY <1>2, CreatedStep, InsertWrite DEF TypeOK, Call
<1>3. ASSUME NEW s \in Request, s # r, at'[s] = "created", at'[r] = "created"
      PROVE  req'[s].team # req'[r].team
  BY <1>1, <1>2, <1>3, NoAccountAssumption DEF Call
<1>4. QED
  BY <1>1, <1>2, <1>3 DEF OneCreate

-----------------------------------------------------------------------------

(* IInv is inductive.                                                      *)
LEMMA InitIInv == Init => IInv
  BY InitTypeOK DEF Init, IInv, RosterHasTeam, AdminOnlyHasTeam, AdminOnly, OneCreate

LEMMA NextIsRequestStep == Next <=> \E r \in Request : RequestStep(r)
  BY DEF Next, RequestStep

LEMMA NextIInv == IInv /\ [Next]_vars => IInv'
<1> SUFFICES ASSUME IInv, [Next]_vars PROVE IInv'
  OBVIOUS
<1>1. CASE Next
  <2>1. PICK r \in Request : RequestStep(r)
    BY <1>1, NextIsRequestStep
  <2>2. QED
    BY <2>1, StepTypeOK, StepRosterHasTeam, StepAdminOnlyHasTeam, StepOneCreate DEF IInv
<1>2. CASE UNCHANGED vars
  BY <1>2 DEF vars, IInv, TypeOK, RosterHasTeam, HasTeam, AdminOnlyHasTeam, OneCreate
<1>3. QED
  BY <1>1, <1>2

LEMMA Invariance == Spec => []IInv
  BY InitIInv, NextIInv, PTL DEF Spec

(* Every state of the registry is well typed.                              *)
THEOREM TypeCorrect == Spec => []TypeOK
<1>1. IInv => TypeOK
  BY DEF IInv
<1>2. QED
  BY <1>1, Invariance, PTL

(* Membership rows never outlive or precede their team.                    *)
THEOREM RosterIntegrity == Spec => []RosterHasTeam
<1>1. IInv => RosterHasTeam
  BY DEF IInv
<1>2. QED
  BY <1>1, Invariance, PTL

(* Of any number of racing creates of one team at most one is told that it *)
(* succeeded, and the team is its account's.                               *)
THEOREM CreateIsExclusive == Spec => []OneCreate
<1>1. IInv => OneCreate
  BY DEF IInv
<1>2. QED
  BY <1>1, Invariance, PTL

-----------------------------------------------------------------------------

(* A roster that changes does so by a create of a new team or by a request *)
(* that was found to be an admin of that team.                             *)
LEMMA RosterChange ==
  ASSUME TypeOK, NEW r \in Request, RequestStep(r), NEW t \in Team,
         member'[t] # member[t]
  PROVE  /\ req[r].team = t
         /\ \/ CreateInsert(r) /\ ~HasTeam(t)
            \/ (Upsert(r) \/ Update(r) \/ Delete(r)) /\ at[r] \in AdminOnly
<1>1. CASE NoWrite(r)
  BY <1>1, NoWriteKeepsTables
<1>2. CASE CreateInsert(r)
  BY <1>2, InsertWrite, SetPermissionType DEF Call, HasTeam, Permission
<1>3. CASE Upsert(r) \/ Update(r) \/ Delete(r)
  BY <1>3, RosterWrite
<1>4. QED
  BY <1>1, <1>2, <1>3, StepKinds

(* An account that enters a roster was invited into it, or founded it.     *)
LEMMA StepEntersByInvitation ==
  ASSUME TypeOK, NEW r \in Request, RequestStep(r), NEW t \in Team, NEW a \in Account,
         member[t][a] = "none", member'[t][a] # "none"
  PROVE  LET c == req[r] IN
         \/ /\ at[r] = "insert" /\ c.team = t /\ c.acct = a
            /\ ~HasTeam(t) /\ member'[t][a] = "admin"
         \/ /\ at[r] = "upsert" /\ c.team = t /\ c.target = a
            /\ member'[t][a] = c.perm
<1>1. /\ req[r].team = t
      /\ (CreateInsert(r) /\ ~HasTeam(t)) \/ Upsert(r) \/ Update(r) \/ Delete(r)
  BY RosterChange
<1>2. CASE CreateInsert(r) /\ ~HasTeam(t)
  BY <1>1, <1>2, InsertWrite, SetPermissionType DEF Call, Permission
<1>3. CASE Upsert(r)
  <2>1. /\ at[r] = "upsert" /\ req[r].target \in Account /\ req[r].perm \in Permission
        /\ SetPermission(t, req[r].target, req[r].perm)
    BY <1>1, <1>3 DEF Upsert, TypeOK, Call
  <2>2. QED
    BY <1>1, <2>1, SetPermissionType
<1>4. CASE Update(r) \/ Delete(r)
  <2>1. at[r] \in {"update", "delete"}
    BY <1>4 DEF Update, Delete
  <2>2. req[r].target \in Account /\ req[r].perm \in Permission
    BY <2>1 DEF TypeOK, Call
  <2>3. \/ UNCHANGED member
        \/ member[t][req[r].target] # "none" /\ SetPermission(t, req[r].target, req[r].perm)
        \/ SetPermission(t, req[r].target, "none")
    BY <1>1, <1>4 DEF Update, Delete
  <2>4. QED
    BY <2>2, <2>3, SetPermissionType
<1>5. QED
  BY <1>1, <1>2, <1>3, <1>4

(* Nothing a request does to an orphaned team changes its roster, and no   *)
(* request can be found to be its admin.                                   *)
LEMMA StepOrphan ==
  ASSUME IInv, NEW r \in Request, RequestStep(r), NEW t \in Team, Orphaned(t)
  PROVE  Orphaned(t)' /\ member'[t] = member[t]
<1> USE DEF IInv
<1>1. member'[t] = member[t]
  BY RosterChange DEF Orphaned, HasTeam
<1>2. HasTeam(t)' /\ ~HasAdmin(t)'
  BY <1>1, CreatorKept DEF Orphaned, HasTeam, HasAdmin, Admins
<1>3. ASSUME NEW s \in Request, at'[s] \in AdminOnly, req'[s].team = t
      PROVE  FALSE
  <2>1. req[s].team = t /\ at[s] = "checkAdmin" /\ CheckAdmin(s)
    BY <1>3, AdminOnlyStep, SlotType DEF Orphaned
  <2>2. member[t][req[s].acct] = "admin" /\ req[s].acct \in Account
    BY <1>3, <2>1 DEF CheckAdmin, AdminOnly, Reply, TypeOK, Call
  <2>3. QED
    BY <2>2 DEF Orphaned, HasAdmin, Admins
<1>4. QED
  BY <1>1, <1>2, <1>3 DEF Orphaned

(* No interleaving puts an account on a roster uninvited: in particular an *)
(* update_permission that overtakes a removal does not restore the member. *)
THEOREM InvitationOnly == Spec => EntersByInvitation
<1> DEFINE A == \A t \in Team, a \in Account :
       (member[t][a] = "none" /\ member'[t][a] # "none") =>
         \E r \in Request :
           LET c == req[r] IN
           \/ /\ at[r] = "insert" /\ c.team = t /\ c.acct = a
              /\ ~HasTeam(t) /\ member'[t][a] = "admin"
           \/ /\ at[r] = "upsert" /\ c.team = t /\ c.target = a
              /\ member'[t][a] = c.perm
<1>1. IInv /\ [Next]_vars => [A]_vars
  <2> SUFFICES ASSUME IInv, Next PROVE A
    OBVIOUS
  <2>1. PICK r \in Request : RequestStep(r)
    BY NextIsRequestStep
  <2>2. QED
    BY <2>1, StepEntersByInvitation DEF IInv
<1>2. QED
  BY <1>1, Invariance, PTL DEF Spec, EntersByInvitation

(* A team that nobody administers stays so for ever, its roster frozen.    *)
THEOREM OrphansAreFrozen == Spec => OrphanIsForever
<1>1. IInv /\ [Next]_vars => [KeepsOrphansFrozen]_vars
  <2> SUFFICES ASSUME IInv, Next PROVE KeepsOrphansFrozen
    OBVIOUS
  <2>1. PICK r \in Request : RequestStep(r)
    BY NextIsRequestStep
  <2>2. QED
    BY <2>1, StepOrphan DEF KeepsOrphansFrozen
<1>2. QED
  BY <1>1, Invariance, PTL DEF Spec, OrphanIsForever

-----------------------------------------------------------------------------
(* The last-admin guard of remove_member, with one request at a time.      *)

Serial == \A r, s \in Request : r = s

(* What the guard establishes for the DELETE: the target is no admin, or   *)
(* another admin remains.                                                  *)
DeleteLeavesAdmin ==
  \A r \in Request :
    (at[r] = "delete" /\ HasAdmin(req[r].team)) =>
      \E b \in Admins(req[r].team) : b # req[r].target

LEMMA AnotherElement ==
  ASSUME NEW S, IsFiniteSet(S), ~(Cardinality(S) <= 1), NEW x
  PROVE  \E y \in S : y # x
<1> SUFFICES ASSUME \A y \in S : y = x PROVE FALSE
  OBVIOUS
<1>1. S = {} \/ S = {x}
  OBVIOUS
<1>2. Cardinality({}) = 0 /\ Cardinality({x}) = 1
  BY FS_EmptySet, FS_Singleton
<1>3. QED
  BY <1>1, <1>2

LEMMA NextDeleteLeavesAdmin ==
  ASSUME Serial
  PROVE  IInv /\ DeleteLeavesAdmin /\ [Next]_vars => DeleteLeavesAdmin'
<1> SUFFICES ASSUME IInv, DeleteLeavesAdmin, [Next]_vars,
                    NEW r \in Request, at'[r] = "delete"
             PROVE  (HasAdmin(req[r].team) => \E b \in Admins(req[r].team) : b # req[r].target)'
  BY DEF DeleteLeavesAdmin
<1>1. CASE Next
  <2>1. RequestStep(r)
    BY <1>1, NextIsRequestStep DEF Serial
  <2>2. req'[r] = req[r] /\ at[r] \in AdminOnly
    BY <2>1, AdminOnlyStep DEF IInv, AdminOnly, TypeOK, CheckAdmin, AfterAdminCheck, Goto, Reply
  <2>3. CheckTargetRole(r) \/ CountAdmins(r)
    BY <2>1, <2>2 DEF IInv, TypeOK, RequestStep, Goto, Reply, AdminOnly, Accept, InFlight,
       CreateLookup, CreateInsert, CheckAdmin, AfterAdminCheck, Upsert, CheckMemberExists,
       Update, Delete, CheckMember, ReadRoster, StatementFails
  <2>4. UNCHANGED <<creator, member>>
    BY <2>3 DEF CheckTargetRole, CountAdmins
  <2>5. CASE CheckTargetRole(r)
    BY <2>2, <2>4, <2>5 DEF CheckTargetRole, Goto, IInv, TypeOK, HasAdmin, Admins
  <2>6. CASE CountAdmins(r)
    <3>1. ~(Cardinality(Admins(req[r].team)) <= 1)
      BY <2>6 DEF CountAdmins, Reply, Goto, IInv, TypeOK
    <3>2. IsFiniteSet(Admins(req[r].team))
      BY FS_Subset, AccountAssumption DEF Admins
    <3>3. \E b \in Admins(req[r].team) : b # req[r].target
      BY <3>1, <3>2, AnotherElement
    <3>4. QED
      BY <2>2, <2>4, <3>3 DEF Admins
  <2>7. QED
    BY <2>3, <2>5, <2>6
<1>2. CASE UNCHANGED vars
  BY <1>2 DEF vars, DeleteLeavesAdmin, HasAdmin, Admins
<1>3. QED
  BY <1>1, <1>2

(* With one request at a time, remove_member never removes the last admin: *)
(* the race of two requests is the only way around its guard.              *)
THEOREM SerialRemoveIsSafe ==
  ASSUME Serial
  PROVE  Spec => RemoveKeepsAnAdmin
<1> DEFINE A == \A r \in Request, t \in Team :
       (at[r] = "delete" /\ at'[r] # "delete" /\ req[r].team = t /\ HasAdmin(t)) =>
         HasAdmin(t)'
<1>1. Init => DeleteLeavesAdmin
  BY DEF Init, DeleteLeavesAdmin
<1>2. IInv /\ DeleteLeavesAdmin /\ [Next]_vars => DeleteLeavesAdmin'
  BY NextDeleteLeavesAdmin
<1>3. IInv /\ DeleteLeavesAdmin /\ [Next]_vars => [A]_vars
  <2> SUFFICES ASSUME IInv, DeleteLeavesAdmin, Next, NEW r \in Request, NEW t \in Team,
                      at[r] = "delete", req[r].team = t, HasAdmin(t)
               PROVE  HasAdmin(t)'
    OBVIOUS
  <2>1. RequestStep(r)
    BY NextIsRequestStep DEF Serial
  <2>2. PICK b \in Admins(t) : b # req[r].target
    BY DEF DeleteLeavesAdmin
  <2>3. NoWrite(r) \/ Delete(r)
    BY <2>1, StepKinds DEF CreateInsert, Upsert, Update
  <2>4. CASE NoWrite(r)
    BY <2>2, <2>4, NoWriteKeepsTables DEF HasAdmin, Admins
  <2>5. CASE Delete(r)
    <3>1. req[r].target \in Account /\ SetPermission(t, req[r].target, "none")
      BY <2>5 DEF Delete, IInv, TypeOK, Call
    <3>2. member'[t][b] = "admin"
      BY <2>2, <3>1, SetPermissionType DEF Admins, IInv
    <3>3. QED
      BY <2>2, <3>2 DEF HasAdmin, Admins
  <2>6. QED
    BY <2>3, <2>4, <2>5
<1>4. QED
  BY <1>1, <1>2, <1>3, Invariance, PTL DEF Spec, RemoveKeepsAnAdmin

(* With one request at a time, a request past its admin check is still an  *)
(* admin's.                                                                *)
AdminStands ==
  \A r \in Request : at[r] \in AdminOnly => req[r].acct \in Admins(req[r].team)

LEMMA NextAdminStands ==
  ASSUME Serial
  PROVE  IInv /\ AdminStands /\ [Next]_vars => AdminStands'
<1> SUFFICES ASSUME IInv, AdminStands, [Next]_vars, NEW r \in Request, at'[r] \in AdminOnly
             PROVE  (req[r].acct \in Admins(req[r].team))'
  BY DEF AdminStands
<1>1. CASE Next
  <2>1. RequestStep(r)
    BY <1>1, NextIsRequestStep DEF Serial
  <2>2. req'[r] = req[r] /\ (at[r] \in AdminOnly \/ (at[r] = "checkAdmin" /\ CheckAdmin(r)))
    BY <2>1, AdminOnlyStep DEF IInv
  <2>3. req[r].acct \in Admins(req[r].team)
    <3>1. CASE at[r] \in AdminOnly
      BY <3>1 DEF AdminStands
    <3>2. CASE at[r] = "checkAdmin" /\ CheckAdmin(r)
      BY <3>2 DEF CheckAdmin, Reply, Admins, IInv, TypeOK, AdminOnly, Call
    <3>3. QED
      BY <2>2, <3>1, <3>2
  <2>4. UNCHANGED member
    <3>1. ~(CreateInsert(r) \/ Upsert(r) \/ Update(r) \/ Delete(r))
      BY DEF CreateInsert, Upsert, Update, Delete, Reply, Goto, AdminOnly, IInv, TypeOK
    <3>2. QED
      BY <2>1, <3>1, StepKinds, NoWriteKeepsTables
  <2>5. QED
    BY <2>2, <2>3, <2>4 DEF Admins
<1>2. CASE UNCHANGED vars
  BY <1>2 DEF vars, AdminStands, Admins
<1>3. QED
  BY <1>1, <1>2

(* The admin of t gives up its own role, as the only one that had it.      *)
DemotesItself(t) ==
  \E r \in Request :
    /\ at[r] \in {"upsert", "update"} /\ req[r].team = t
    /\ Admins(t) = {req[r].acct} /\ req[r].target = req[r].acct /\ req[r].perm # "admin"

OrphanedByItself == \A t \in Team : (HasAdmin(t) /\ ~HasAdmin(t)') => DemotesItself(t)

LEMMA SerialOrphan ==
  ASSUME Serial, IInv, DeleteLeavesAdmin, AdminStands, NEW r \in Request, RequestStep(r),
         NEW t \in Team, HasAdmin(t), ~HasAdmin(t)'
  PROVE  DemotesItself(t)
<1> DEFINE c == req[r]
<1>1. ~NoWrite(r)
  BY NoWriteKeepsTables DEF HasAdmin, Admins
<1>2. ~CreateInsert(r)
  <2> SUFFICES ASSUME CreateInsert(r) PROVE FALSE
    OBVIOUS
  <2>1. req[r] \in Call /\ (UNCHANGED member \/ SetPermission(c.team, c.acct, "admin"))
    BY InsertWrite DEF IInv
  <2>2. CASE UNCHANGED member
    BY <2>2 DEF HasAdmin, Admins
  <2>3. CASE SetPermission(c.team, c.acct, "admin")
    <3>1. c.team \in Team /\ c.acct \in Account
      BY <2>1 DEF Call
    <3>2. /\ member'[c.team][c.acct] = "admin"
          /\ \A u \in Team : u # c.team => member'[u] = member[u]
      BY <2>3, <3>1, SetPermissionType DEF IInv, Permission
    <3>3. QED
      BY <3>1, <3>2 DEF HasAdmin, Admins
  <2>4. QED
    BY <2>1, <2>2, <2>3
<1>3. Upsert(r) \/ Update(r) \/ Delete(r)
  BY <1>1, <1>2, StepKinds
<1>4. t = c.team /\ at[r] \in AdminOnly /\ c.target \in Account
  BY <1>3, RosterWrite DEF IInv, HasAdmin, Admins
<1>5. c.acct \in Admins(t) /\ c.acct \in Account /\ c.perm \in Permission
  BY <1>3, <1>4 DEF AdminStands, Admins, IInv, TypeOK, Call, Upsert, Update, Delete
<1>6. ~Delete(r)
  <2> SUFFICES ASSUME Delete(r) PROVE FALSE
    OBVIOUS
  <2>1. PICK b \in Admins(t) : b # c.target
    BY <1>4 DEF DeleteLeavesAdmin, Delete
  <2>2. SetPermission(t, c.target, "none")
    BY <1>4 DEF Delete
  <2>3. member'[t][b] = "admin"
    BY <1>4, <2>1, <2>2, SetPermissionType DEF Admins, IInv
  <2>4. QED
    BY <2>1, <2>3 DEF HasAdmin, Admins
<1>7. at[r] \in {"upsert", "update"} /\ (UNCHANGED member \/ SetPermission(t, c.target, c.perm))
  BY <1>3, <1>4, <1>6 DEF Upsert, Update
<1>8. SetPermission(t, c.target, c.perm)
  BY <1>7 DEF HasAdmin, Admins
<1>9. /\ member'[t][c.target] = c.perm
      /\ \A b \in Account : b # c.target => member'[t][b] = member[t][b]
  BY <1>4, <1>5, <1>8, SetPermissionType DEF IInv
<1>10. \A b \in Admins(t) : b = c.target
  BY <1>9 DEF HasAdmin, Admins
<1>11. c.perm # "admin"
  BY <1>4, <1>9 DEF HasAdmin, Admins
<1>12. QED
  BY <1>4, <1>5, <1>7, <1>10, <1>11 DEF DemotesItself

(* With one request at a time, a team loses its last admin in one way only:*)
(* that admin demotes itself, by update_permission or by an add_member that*)
(* names it (index.ts:919-956 ask neither for another admin).              *)
THEOREM SerialOrphansAreSelfMade ==
  ASSUME Serial
  PROVE  Spec => [][OrphanedByItself]_vars
<1>1. Init => DeleteLeavesAdmin /\ AdminStands
  BY DEF Init, DeleteLeavesAdmin, AdminStands, AdminOnly
<1>2. IInv /\ DeleteLeavesAdmin /\ AdminStands /\ [Next]_vars =>
        DeleteLeavesAdmin' /\ AdminStands'
  BY NextDeleteLeavesAdmin, NextAdminStands
<1>3. IInv /\ DeleteLeavesAdmin /\ AdminStands /\ [Next]_vars => [OrphanedByItself]_vars
  BY SerialOrphan, NextIsRequestStep DEF OrphanedByItself
<1>4. QED
  BY <1>1, <1>2, <1>3, Invariance, PTL DEF Spec
=============================================================================
