------------------------------ MODULE AgentCall ------------------------------
(***************************************************************************)
(* One tools/call of POST /mcp, from the session that was found for it to  *)
(* the answer: the gateway's tenant and team checks, the routing, the tool *)
(* handlers and the capability token (src/gateway/src), then the agent's   *)
(* middleware, body parsing and handlers (src/agent/src).  Calls share     *)
(* nothing but the clock and the D1 tables, so one call is followed while  *)
(* time passes and other requests change the roster between its awaits.    *)
(***************************************************************************)
EXTENDS Integers

CONSTANTS
  Caller,    \* the account of the session
  Other,     \* any other account
  Absent,    \* an argument that is missing
  Empty,     \* the empty string
  Calls,     \* the calls made: a subset of Request
  Setups,    \* the deployments: a subset of Conf
  TTL,       \* TOKEN_TTL_MS of a capability token
  Leeway,    \* DEFAULT_LEEWAY_MS of the verifier
  MaxTime    \* bound on the clock

VARIABLES
  conf,      \* how the two services are deployed
  now,       \* the gateway's Date.now()
  row,       \* the caller's permission in team_members
  at,        \* the await the call is in
  req,       \* the tool and its arguments
  entitled,  \* the caller has had a permission the tool needs during the call
  dest,      \* agentBaseUrl: the caller's own agent or the configured one
  token,     \* X-Aegis-Capability of the request to the agent
  got,       \* when the agent received the request, by the gateway's clock
  verdict,   \* what the agent made of it
  lost,      \* what did not get through: nothing, the fetch or the answer's body
  answer     \* the answer of /mcp

vars == <<conf, now, row, at, req, entitled, dest, token, got, verdict, lost, answer>>
world == <<conf, now, row>>
call == <<req, entitled, dest, token, got, verdict, lost, answer>>

Permission == {"none", "read", "write", "admin"}

SubjectTool == {"vault_write", "vault_read", "zdr_check"}
TeamTool == {"team_vault_write", "team_vault_read", "team_add", "team_remove", "team_update_permission"}
Tool == SubjectTool \cup TeamTool \cup {"agent_health", "unknown"}

(* The arguments that decide which way a call goes; rest is every other    *)
(* one: not of the type the handler asks for, refused by the agent's       *)
(* validators, or fit.                                                     *)
Request == [tool: Tool, near: {Caller, Other, Absent, Empty},
            team: {Absent, Empty, "team"}, rest: {"untyped", "invalid", "fit"}]

(* signs: the gateway has a signing key.  binds: the agent has its public  *)
(* key.  bearer: both have the same API key.  routed: the caller's users   *)
(* row names an agent.  skew: how far the agent's clock is ahead.          *)
Conf == [signs: BOOLEAN, binds: BOOLEAN, bearer: BOOLEAN, routed: BOOLEAN, skew: Int]

ASSUME NameAssumption == /\ Caller # Other /\ Absent # Empty
                         /\ Absent \notin {Caller, Other} /\ Empty \notin {Caller, Other}
ASSUME CallAssumption == Calls \subseteq Request /\ Calls # {} /\ Setups \subseteq Conf
ASSUME TimeAssumption == TTL \in Nat /\ Leeway \in Nat /\ MaxTime \in Nat

Token == [sub: {Caller, Other}, iat: Nat]
NoToken == [sub |-> Empty]

Refusal == {"unauthorized", "token", "fields", "subject", "invalid"}
Step == {"idle", "membership", "permission", "route", "health", "attest", "quota",
         "teamCheck", "send", "sent", "acting", "replying", "meter", "audit", "answered"}

(* What the agent makes of a request it accepted: its work; an error; and, *)
(* of a skill, a firewall block, or an error whose text quotes a firewall  *)
(* code, as LlmProviderError and ConfigParseError repeat foreign text.     *)
Work(tool) == {"done", "failed"} \cup IF tool = "zdr_check" THEN {"blocked", "quoting"} ELSE {}

TypeOK ==
  /\ conf \in Setups /\ now \in 0..MaxTime /\ row \in Permission
  /\ at \in Step /\ req \in Calls /\ entitled \in BOOLEAN
  /\ dest \in {"own", "configured"} /\ token \in Token \cup {NoToken} /\ got \in 0..MaxTime
  /\ verdict \in Refusal \cup {"none", "accepted"} \cup Work(req.tool)
  /\ lost \in {"nothing", "fetch", "body"}
  /\ answer \in {"none", "ok", "okNoData", "blocked", "refused", "toolError", "error"}

NoCall == CHOOSE r \in Calls : TRUE   \* what req holds between calls: any

Init ==
  /\ conf \in Setups /\ now = 0 /\ row \in Permission
  /\ at = "idle" /\ req = NoCall /\ entitled = FALSE /\ dest = "configured"
  /\ token = NoToken /\ got = 0 /\ verdict = "none" /\ lost = "nothing" /\ answer = "none"

Goto(step) == at' = step /\ UNCHANGED call

Answer(a) == /\ at' = "answered" /\ answer' = a
             /\ UNCHANGED <<req, entitled, dest, token, got, verdict, lost>>

-----------------------------------------------------------------------------
(* What goes on around the call.                                           *)

Tick == now < MaxTime /\ now' = now + 1 /\ UNCHANGED <<conf, row, at, call>>

Needed(tool) ==
  CASE tool = "team_vault_write" -> {"write", "admin"}
    [] tool = "team_vault_read" -> {"read", "write", "admin"}
    [] OTHER -> {"admin"}

(* The /api/team routes, in other requests.                                *)
RosterChanges ==
  \E p \in Permission :
    /\ row' = p
    /\ entitled' = (at # "idle" /\ (entitled \/ p \in Needed(req.tool)))
    /\ UNCHANGED <<conf, now, at, req, dest, token, got, verdict, lost, answer>>

-----------------------------------------------------------------------------
(* The gateway, up to the tool.                                            *)

(* Mutant: only the tools that write are checked.                          *)
SameTenantOnWrite(r) == r.tool = "vault_write" => r.near \in {Absent, Empty, Caller}

SameTenant(r) == r.near \in {Absent, Empty, Caller}

Start ==
  \E r \in Calls :
    /\ at = "idle"
    /\ req' = r /\ entitled' = (row \in Needed(r.tool))
    /\ IF SameTenant(r)
         THEN /\ at' = IF r.team = "team" THEN "membership" ELSE "route"
              /\ answer' = "none"
         ELSE at' = "answered" /\ answer' = "refused"
    /\ UNCHANGED <<world, dest, token, got, verdict, lost>>

(* The invocation is over; the next call finds none of its state.          *)
Forget ==
  /\ at = "answered"
  /\ at' = "idle" /\ req' = NoCall /\ entitled' = FALSE /\ dest' = "configured"
  /\ token' = NoToken /\ got' = 0 /\ verdict' = "none" /\ lost' = "nothing" /\ answer' = "none"
  /\ UNCHANGED world

CheckMembership ==
  /\ at = "membership"
  /\ IF row # "none" THEN Goto("permission") ELSE Answer("refused")
  /\ UNCHANGED world

(* The permission is stored in the context, where no later code reads it.  *)
GetPermission == at = "permission" /\ Goto("route") /\ UNCHANGED world

AfterRoute ==
  CASE req.tool = "agent_health" -> "health"
    [] req.tool = "vault_write" -> "quota"
    [] req.tool \in TeamTool /\ req.team # Absent -> "teamCheck"
    [] OTHER -> "send"

(* A failed SELECT leaves the configured agent in place.                   *)
Route ==
  /\ at = "route"
  /\ IF req.tool = "unknown"
       THEN Answer("refused")
       ELSE /\ at' = AfterRoute
            /\ dest' \in {"configured"} \cup IF conf.routed THEN {"own"} ELSE {}
            /\ UNCHANGED <<req, entitled, token, got, verdict, lost, answer>>
  /\ UNCHANGED world

(* The quota is UserAccounts' business: exceeded, or met or unreadable.    *)
CheckQuota == at = "quota" /\ (Goto("send") \/ Answer("refused")) /\ UNCHANGED world

(* The row of team_members this check reads: none for an empty team id.    *)
PermissionNow == IF req.team = "team" THEN row ELSE "none"

(* Mutant: the check is skipped for a team id that is falsy.               *)
CheckTeamTruthy ==
  /\ at = "teamCheck"
  /\ IF req.team = Empty \/ PermissionNow \in Needed(req.tool) THEN Goto("send") ELSE Answer("refused")
  /\ UNCHANGED world

CheckTeam ==
  /\ at = "teamCheck"
  /\ IF PermissionNow \in Needed(req.tool) THEN Goto("send") ELSE Answer("refused")
  /\ UNCHANGED world

(* A D1 error in a team check ends the request.                            *)
StatementFails ==
  /\ at \in {"membership", "permission", "teamCheck"}
  /\ Answer("error")
  /\ UNCHANGED world

(* /health and then /attest, both without authentication.                  *)
AskHealth ==
  /\ at \in {"health", "attest"}
  /\ \/ at = "health" /\ (Goto("attest") \/ Answer("toolError"))
     \/ at = "attest" /\ Answer("ok")
  /\ UNCHANGED world

-----------------------------------------------------------------------------
(* The tool handlers and callShadeAgent.                                   *)

(* Mutant: the account and the team are taken as they come.                *)
WellTypedRest(r) == r.rest # "untyped"

WellTyped(r) == /\ r.rest # "untyped"
                /\ IF r.tool \in SubjectTool THEN r.near # Absent ELSE r.team # Absent

(* handleVaultWrite, handleVaultRead and handleZdrCheck pass nearAccountId *)
(* as the subject of the token, the team handlers pass none.               *)
Subject(r) == IF r.tool \in SubjectTool THEN r.near ELSE Empty

Mint(subject) == IF subject # Empty /\ conf.signs THEN [sub |-> subject, iat |-> now] ELSE NoToken

Send ==
  /\ at = "send"
  /\ IF WellTyped(req)
       THEN /\ at' = "sent" /\ token' = Mint(Subject(req))
            /\ UNCHANGED <<req, entitled, dest, got, verdict, lost, answer>>
       ELSE Answer("toolError")                       \* INVALID_ARGS
  /\ UNCHANGED world

(* The fetch rejects: the request or the answer did not get through.       *)
FetchFails ==
  /\ at \in {"sent", "acting", "replying"} /\ lost = "nothing"
  /\ at' = "answered" /\ lost' = "fetch" /\ answer' = "toolError"
  /\ UNCHANGED <<world, req, entitled, dest, token, got, verdict>>

(* The status arrives and the body does not, or is not JSON: what          *)
(* callShadeAgent puts in its place has neither data nor an error code.    *)
BodyLost ==
  /\ at = "replying" /\ lost = "nothing" /\ lost' = "body"
  /\ UNCHANGED <<world, at, req, entitled, dest, token, got, verdict, answer>>

-----------------------------------------------------------------------------
(* The agent.                                                              *)

(* The body each handler sends, and the fields its DTO requires.           *)
Sends(tool) ==
  CASE tool = "vault_write" -> {"nearAccountId", "entryType", "identifier", "plaintext", "epochs"}
    [] tool = "vault_read" -> {"nearAccountId", "entryType", "identifier", "blobId", "expectedSha256"}
    [] tool = "zdr_check" -> {"nearAccountId", "blobId", "expectedSha256", "userInput"}
    [] tool = "team_vault_write" -> {"teamId", "slug", "content", "metadata"}
    [] tool = "team_vault_read" -> {"teamId", "slug"}
    [] tool = "team_remove" -> {"teamId", "accountId"}
    [] OTHER -> {"teamId", "accountId", "permission"}

Requires(tool) ==
  CASE tool = "vault_write" -> {"nearAccountId", "entryType", "identifier", "plaintext"}
    [] tool = "vault_read" -> {"nearAccountId", "entryType", "identifier", "blobId", "expectedSha256"}
    [] tool = "zdr_check" -> {"nearAccountId", "blobId", "expectedSha256", "userInput"}
    [] tool = "team_vault_write" -> {"teamId", "slug", "content", "requestingAccountId"}
    [] tool = "team_vault_read" -> {"teamId", "slug", "blobId", "expectedSha256", "requestingAccountId"}
    [] tool = "team_remove" -> {"teamId", "memberAccountId"}
    [] OTHER -> {"teamId", "memberAccountId", "permission"}

Expired == now + conf.skew > token.iat + TTL + Leeway
NotYetValid == token.iat > now + conf.skew + Leeway

(* Mutant: the leeway is subtracted where it is to be added.               *)
VerifiesStrictly == token # NoToken /\ now + conf.skew <= token.iat + TTL - Leeway /\ ~NotYetValid

(* Mutant: only the start of the token's life is checked.                  *)
VerifiesForever == token # NoToken /\ ~NotYetValid

Verifies == token # NoToken /\ ~Expired /\ ~NotYetValid

(* What the validators refuse: an empty account, or another argument.      *)
Invalid(r) == r.near = Empty \/ r.rest = "invalid"

(* require_api_key, the Json extractor, enforce_capability_subject and the *)
(* validators, in this order.                                              *)
Judged ==
  CASE ~conf.bearer -> "unauthorized"
    [] conf.bearer /\ conf.binds /\ ~Verifies -> "token"
    [] OTHER -> IF ~(Requires(req.tool) \subseteq Sends(req.tool)) THEN "fields"
                ELSE IF conf.binds /\ token.sub # req.near THEN "subject"
                ELSE IF Invalid(req) THEN "invalid"
                ELSE "accepted"

Receive ==
  /\ at = "sent"
  /\ verdict' = Judged /\ got' = now
  /\ at' = IF Judged = "accepted" THEN "acting" ELSE "replying"
  /\ UNCHANGED <<world, req, entitled, dest, token, lost, answer>>

(* encrypt_and_publish, download_and_decrypt or execute_skill.             *)
Act ==
  /\ at = "acting"
  /\ at' = "replying" /\ verdict' \in Work(req.tool)
  /\ UNCHANGED <<world, req, entitled, dest, token, got, lost, answer>>

Metered == {"vault_write", "team_vault_write"}

(* Mutant: the body is taken whatever the status of the response.          *)
AgentAnswersUnchecked ==
  /\ at = "replying"
  /\ CASE lost = "body" -> Answer("okNoData")
       [] lost # "body" /\ req.tool \in Metered -> Goto("meter")
       [] OTHER -> Answer("ok")
  /\ UNCHANGED world

(* An error status is thrown by callShadeAgent and caught by the handler;  *)
(* handleZdrCheck takes one whose message holds a firewall code for a      *)
(* block, which is no error.  A success without a body stays a success,    *)
(* and has no size to meter.                                               *)
AgentAnswers ==
  /\ at = "replying"
  /\ CASE verdict = "done" /\ lost = "body" -> Answer("okNoData")
       [] verdict = "done" /\ lost # "body" /\ req.tool \in Metered -> Goto("meter")
       [] verdict = "done" /\ lost # "body" /\ req.tool \notin Metered -> Answer("ok")
       [] verdict \in {"blocked", "quoting"} /\ lost # "body" -> Goto("audit")
       [] OTHER -> Answer("toolError")
  /\ UNCHANGED world

(* The storage counter, best effort.                                       *)
Meter == at = "meter" /\ Answer("ok") /\ UNCHANGED world

(* The row of firewall_audit_logs, best effort, and zdrBlocked: true.      *)
AuditBlock == at = "audit" /\ Answer("blocked") /\ UNCHANGED world

-----------------------------------------------------------------------------

CallStep == \/ CheckMembership \/ GetPermission \/ Route \/ CheckQuota \/ CheckTeam \/ AskHealth
            \/ Send \/ Receive \/ Act \/ AgentAnswers \/ Meter \/ AuditBlock

Next == Tick \/ RosterChanges \/ Start \/ Forget \/ CallStep \/ StatementFails \/ FetchFails \/ BodyLost

Spec == Init /\ [][Next]_vars

-----------------------------------------------------------------------------
(* Properties.                                                             *)

Accepted == verdict \in {"accepted", "done", "failed", "blocked", "quoting"}
Skewed == conf.skew > Leeway \/ conf.skew < -Leeway

(* Whatever the arguments say or leave out, and whether or not tokens are  *)
(* in use, the agent derives keys for nobody but the session's account.    *)
ActsForItsCaller == Accepted => req.tool \in SubjectTool /\ req.near = Caller

(* A request leaves for a team's endpoint only if its account had a        *)
(* permission the tool needs at some moment of this very call, however the *)
(* roster changed between the two checks and the fetch.                    *)
ForwardedWithPermission ==
  at \in {"sent", "acting", "replying"} /\ req.tool \in TeamTool => entitled

(* With keys on both sides and clocks within the leeway of each other, no  *)
(* request of a session is turned away for its token unless it was on its  *)
(* way for longer than the token lives.                                    *)
PromptTokenAccepted ==
  verdict = "token" /\ conf.signs /\ ~Skewed /\ Subject(req) # Empty => got - token.iat > TTL

(* And an agent that verifies tokens acts on none that has been on its way *)
(* for longer than the token's life and the leeway of either clock.        *)
LateTokenRefused ==
  Accepted /\ conf.binds /\ ~Skewed => got - token.iat <= TTL + 2 * Leeway

(* The caller is told the truth.  Success is answered only for what the    *)
(* agent did, and as data only when its answer was read; a block only when *)
(* the firewall blocked the skill or an error quotes its codes.  What was  *)
(* done is answered otherwise, and a block is taken for another failure,   *)
(* only if the fetch failed or the body was lost.                          *)
AnswerIsTrue ==
  /\ answer \in {"ok", "okNoData"} => verdict = "done" \/ req.tool = "agent_health"
  /\ answer = "blocked" => verdict \in {"blocked", "quoting"}
  /\ at = "answered" /\ lost = "nothing" =>
       /\ verdict = "done" => answer = "ok"
       /\ verdict = "blocked" => answer = "blocked"

(* The catalogue (tools.ts:122) offers the team tools to members with the  *)
(* permission: what passed the team checks is not refused for the form of  *)
(* the request the gateway itself made.                                    *)
TeamToolsServed == req.tool \in TeamTool => verdict \notin {"token", "fields"}
=============================================================================
