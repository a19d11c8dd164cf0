---------------------------- MODULE TeamRegistry ----------------------------
(***************************************************************************)
(* The gateway's team registry: the D1 tables `teams` and `team_members`   *)
(* and the five routes of src/gateway/src/index.ts that use them.  A route *)
(* is a chain of awaited D1 statements, and the worker runs any number of  *)
(* requests at once, so each statement is one action here and the requests *)
(* interleave between them.  The account of a request is the one its       *)
(* session or API key resolved to (module AuthSession).                    *)
(***************************************************************************)
EXTENDS Naturals, FiniteSets

CONSTANTS
  Account,     \* accounts a session can belong to, or a request can name
  Team,        \* team identifiers
  Request,     \* requests the worker can have in flight at once
  Ops,         \* the routes in use: a subset of Op
  NoAccount    \* the creator of a team that has no row

Op == {"create", "add_member", "update_permission", "remove_member", "members"}

ASSUME NoAccountAssumption == NoAccount \notin Account
ASSUME OpsAssumption == Ops \subseteq Op
ASSUME AccountAssumption == IsFiniteSet(Account)

Permission == {"read", "write", "admin"}

VARIABLES
  creator,     \* teams.creator_account_id per team, NoAccount: no row
  member,      \* team_members.permission per team and account, "none": no row
  at,          \* the statement each request waits for
  req          \* what the request asks for

vars == <<creator, member, at, req>>

(* Arguments a route does not take have the fixed values of WellFormed.    *)
Call == [op: Op, acct: Account, team: Team, target: Account, perm: Permission]
NoCall == [op |-> "none"]

WellFormed(call) ==
  /\ call.op \in {"create", "members"} => call.target = call.acct
  /\ call.op \notin {"add_member", "update_permission"} => call.perm = "read"

(* "idle": no request; "created": the last answer was create's success,    *)
(* the only one that properties look back at.                              *)
Step == {"idle", "created", "lookup", "insert", "checkAdmin", "upsert",
         "checkTarget", "update", "countAdmins", "delete", "checkMember",
         "readRoster"}

InFlight(r) == at[r] \notin {"idle", "created"}

TypeOK ==
  /\ creator \in [Team -> Account \cup {NoAccount}]
  /\ member \in [Team -> [Account -> Permission \cup {"none"}]]
  /\ at \in [Request -> Step]
  /\ req \in [Request -> Call \cup {NoCall}]
  /\ \A r \in Request : at[r] # "idle" => req[r] \in Call

Admins(t) == {a \in Account : member[t][a] = "admin"}

Init ==
  /\ creator = [t \in Team |-> NoAccount]
  /\ member = [t \in Team |-> [a \in Account |-> "none"]]
  /\ at = [r \in Request |-> "idle"]
  /\ req = [r \in Request |-> NoCall]

-----------------------------------------------------------------------------
(* How a request moves: to its next statement, or to its answer.           *)

Goto(r, step) ==
  /\ at' = [at EXCEPT ![r] = step]
  /\ UNCHANGED req

Reply(r) ==
  /\ at' = [at EXCEPT ![r] = "idle"]
  /\ req' = [req EXCEPT ![r] = NoCall]

FirstStep ==
  [create |-> "lookup", members |-> "checkMember", add_member |-> "checkAdmin",
   update_permission |-> "checkAdmin", remove_member |-> "checkAdmin"]

SetPermission(t, a, p) == member' = [member EXCEPT ![t][a] = p]

(* A request arrives, authenticated and with well-formed arguments.        *)
Accept(r) ==
  /\ ~InFlight(r)
  /\ \E call \in Call :
       /\ call.op \in Ops /\ WellFormed(call)
       /\ req' = [req EXCEPT ![r] = call]
       /\ at' = [at EXCEPT ![r] = FirstStep[call.op]]
  /\ UNCHANGED <<creator, member>>

-----------------------------------------------------------------------------
(* /api/team/create: SELECT, then both INSERTs in one atomic batch.        *)

CreateLookup(r) ==
  /\ at[r] = "lookup"
  /\ IF creator[req[r].team] # NoAccount
       THEN Reply(r)                                       \* TEAM_EXISTS
       ELSE Goto(r, "insert")
  /\ UNCHANGED <<creator, member>>

(* The role the creator's own row is inserted with.                        *)
CreatorRoleCapitalised == "Admin"        \* mutant: the agent's spelling
CreatorRole == "admin"

(* Mutant: INSERT OR REPLACE, so the second of two creates wins as well.   *)
CreateInsertReplaces(r) ==
  LET c == req[r] IN
  /\ at[r] = "insert"
  /\ creator' = [creator EXCEPT ![c.team] = c.acct]
  /\ SetPermission(c.team, c.acct, "admin")
  /\ Goto(r, "created")

(* The primary key of `teams` rejects the whole batch when another create  *)
(* of the same team came first.                                            *)
CreateInsert(r) ==
  LET c == req[r] IN
  /\ at[r] = "insert"
  /\ \/ /\ creator[c.team] # NoAccount
        /\ Reply(r)                                        \* DB_ERROR
        /\ UNCHANGED <<creator, member>>
     \/ /\ creator[c.team] = NoAccount
        /\ creator' = [creator EXCEPT ![c.team] = c.acct]
        /\ SetPermission(c.team, c.acct, CreatorRole)
        /\ Goto(r, "created") \/ Reply(r)                  \* result lost

-----------------------------------------------------------------------------
(* The three routes that change a roster start with the requester's role.  *)

AfterAdminCheck(op) ==
  IF op = "add_member" THEN "upsert" ELSE "checkTarget"

CheckAdmin(r) ==
  LET c == req[r] IN
  /\ at[r] = "checkAdmin"
  /\ IF member[c.team][c.acct] = "admin"
       THEN Goto(r, AfterAdminCheck(c.op))
       ELSE Reply(r)                                       \* FORBIDDEN
  /\ UNCHANGED <<creator, member>>

(* add_member: INSERT ... ON CONFLICT DO UPDATE SET permission.            *)
Upsert(r) ==
  LET c == req[r] IN
  /\ at[r] = "upsert"
  /\ SetPermission(c.team, c.target, c.perm)
  /\ Reply(r)
  /\ UNCHANGED creator

(* update_permission: the member must have a row.                          *)
CheckMemberExists(r) ==
  LET c == req[r] IN
  /\ at[r] = "checkTarget"
  /\ c.op = "update_permission"
  /\ IF member[c.team][c.target] = "none"
       THEN Reply(r)                                       \* MEMBER_NOT_FOUND
       ELSE Goto(r, "update")
  /\ UNCHANGED <<creator, member>>

(* Mutant: INSERT OR REPLACE in place of the UPDATE.                       *)
UpdateReplaces(r) ==
  LET c == req[r] IN
  /\ at[r] = "update"
  /\ SetPermission(c.team, c.target, c.perm)
  /\ Reply(r)
  /\ UNCHANGED creator

(* UPDATE ... WHERE: no row is written for a member that is gone by now.   *)
Update(r) ==
  LET c == req[r] IN
  /\ at[r] = "update"
  /\ IF member[c.team][c.target] = "none"
       THEN UNCHANGED member
       ELSE SetPermission(c.team, c.target, c.perm)
  /\ Reply(r)
  /\ UNCHANGED creator

(* remove_member: only the removal of an admin counts the admins first.    *)
CheckTargetRole(r) ==
  LET c == req[r] IN
  /\ at[r] = "checkTarget"
  /\ c.op = "remove_member"
  /\ Goto(r, IF member[c.team][c.target] = "admin" THEN "countAdmins" ELSE "delete")
  /\ UNCHANGED <<creator, member>>

CountAdmins(r) ==
  /\ at[r] = "countAdmins"
  /\ IF Cardinality(Admins(req[r].team)) <= 1
       THEN Reply(r)                                       \* LAST_ADMIN
       ELSE Goto(r, "delete")
  /\ UNCHANGED <<creator, member>>

Delete(r) ==
  LET c == req[r] IN
  /\ at[r] = "delete"
  /\ SetPermission(c.team, c.target, "none")
  /\ Reply(r)
  /\ UNCHANGED creator

-----------------------------------------------------------------------------
(* /api/team/members: only a member may read the roster.                   *)

CheckMember(r) ==
  LET c == req[r] IN
  /\ at[r] = "checkMember"
  /\ IF member[c.team][c.acct] # "none"
       THEN Goto(r, "readRoster")
       ELSE Reply(r)                                       \* FORBIDDEN
  /\ UNCHANGED <<creator, member>>

ReadRoster(r) ==
  /\ at[r] = "readRoster"
  /\ Reply(r)
  /\ UNCHANGED <<creator, member>>

(* Any statement may fail without effect; the route then answers 500.      *)
StatementFails(r) ==
  /\ InFlight(r)
  /\ Reply(r)
  /\ UNCHANGED <<creator, member>>

Next ==
  \E r \in Request :
    \/ Accept(r)
    \/ CreateLookup(r)
    \/ CreateInsert(r)
    \/ CheckAdmin(r)
    \/ Upsert(r)
    \/ CheckMemberExists(r)
    \/ Update(r)
    \/ CheckTargetRole(r)
    \/ CountAdmins(r)
    \/ Delete(r)
    \/ CheckMember(r)
    \/ ReadRoster(r)
    \/ StatementFails(r)

Spec == Init /\ [][Next]_vars

-----------------------------------------------------------------------------
(* Properties.                                                             *)

HasTeam(t) == creator[t] # NoAccount
HasAdmin(t) == Admins(t) # {}

(* Statements a request reaches only after it was found to be an admin.    *)
AdminOnly == {"upsert", "checkTarget", "update", "countAdmins", "delete"}

(* Nobody administers the team, and no request that was found to be an     *)
(* admin of it is still in flight.                                         *)
Orphaned(t) ==
  /\ HasTeam(t)
  /\ ~HasAdmin(t)
  /\ ~\E r \in Request : at[r] \in AdminOnly /\ req[r].team = t

(* A membership row always belongs to an existing team, whatever creates   *)
(* and roster changes overlap (schema.sql's FOREIGN KEY of team_members).  *)
RosterHasTeam ==
  \A t \in Team, a \in Account : member[t][a] # "none" => HasTeam(t)

(* Racing creates of one team: of all the requests told that they created  *)
(* it there is only one, and the team is recorded as its account's.        *)
OneCreate ==
  \A r, s \in Request :
    /\ at[r] = "created" => creator[req[r].team] = req[r].acct
    /\ (at[r] = "created" /\ at[s] = "created" /\ req[r].team = req[s].team) => r = s

(* An account enters a roster only as the creator of a new team, or by an  *)
(* add_member that names it and carries the permission it gets: an update  *)
(* that overtakes a removal does not bring the removed member back.        *)
EntersByInvitation ==
  [][\A t \in Team, a \in Account :
       (member[t][a] = "none" /\ member'[t][a] # "none") =>
         \E r \in Request :
           LET c == req[r] IN
           \/ /\ at[r] = "insert" /\ c.team = t /\ c.acct = a
              /\ ~HasTeam(t) /\ member'[t][a] = "admin"
           \/ /\ at[r] = "upsert" /\ c.team = t /\ c.target = a
              /\ member'[t][a] = c.perm]_vars

KeepsOrphansFrozen ==
  \A t \in Team : Orphaned(t) => /\ Orphaned(t)'
                                 /\ member'[t] = member[t]

(* An orphaned team is frozen: its roster never changes again and nobody   *)
(* can ever administer it, which is what remove_member's guard is there to *)
(* prevent.                                                                *)
OrphanIsForever == [][KeepsOrphansFrozen]_vars

(* remove_member never takes the last admin of a team away (the comment    *)
(* "Don't orphan the team: refuse to remove the only remaining admin").    *)
RemoveKeepsAnAdmin ==
  [][\A r \in Request, t \in Team :
       (at[r] = "delete" /\ at'[r] # "delete" /\ req[r].team = t /\ HasAdmin(t)) =>
         HasAdmin(t)']_vars

(* A team that exists has an admin.                                        *)
TeamHasAdmin == \A t \in Team : HasTeam(t) => HasAdmin(t)
=============================================================================
