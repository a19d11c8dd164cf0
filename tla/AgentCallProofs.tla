--------------------------- MODULE AgentCallProofs ---------------------------
(***************************************************************************)
(* Proofs about AgentCall for any calls, deployments, clocks that run as   *)
(* long as they may, token life and leeway.                                *)
(***************************************************************************)
EXTENDS AgentCall, TLAPS

(* The awaits of the gateway before the fetch, and those around the agent. *)
Before == {"idle", "membership", "permission", "route", "health", "attest", "quota", "teamCheck", "send"}
Away == {"sent", "acting", "replying"}

(* What has been checked by the time a call is at each of its awaits: the  *)
(* caller is checked before anything else, a tool is known where its       *)
(* handler runs, and what is metered is what the agent did.                *)
Progress ==
  /\ at \in Before => token = NoToken /\ verdict = "none"
  /\ at # "answered" => answer = "none" /\ lost # "fetch"
  /\ lost = "body" => at \in {"replying", "answered"}
  /\ at \in Before \cup Away \cup {"meter", "audit"} => at = "idle" \/ SameTenant(req)
  /\ at \in {"health", "attest"} => req.tool = "agent_health"
  /\ at = "quota" => req.tool = "vault_write"
  /\ at = "teamCheck" => req.tool \in TeamTool
  /\ at \in {"send"} \cup Away => req.tool \in SubjectTool \cup TeamTool
  /\ at \in Away => WellTyped(req)
  /\ at = "sent" => verdict = "none"
  /\ at = "acting" => verdict = "accepted"
  /\ at = "replying" => verdict \in Refusal \cup Work(req.tool)
  /\ at = "meter" => verdict = "done"
  /\ at = "audit" => verdict \in {"blocked", "quoting"}

(* A team's tool waits for its fetch only with its permission, or without  *)
(* the team id that Send asks for.                                         *)
Permitted ==
  /\ at # "idle" /\ row \in Needed(req.tool) => entitled
  /\ req.tool \in TeamTool /\ at = "send" => entitled \/ req.team = Absent
  /\ req.tool \in TeamTool /\ at \in Away => entitled

(* The token of a request that was sent, and when the agent got it.        *)
Minted ==
  /\ token # NoToken => /\ token.sub = Caller /\ req.near = Caller /\ conf.signs
                        /\ token.iat \in Nat /\ token.iat <= now
  /\ at \in Away /\ conf.signs /\ Subject(req) # Empty => token # NoToken
  /\ verdict # "none" => got <= now /\ (token # NoToken => token.iat <= got)

(* What the agent's verdict says of the token and of the account.          *)
Ruled ==
  /\ verdict = "token" /\ conf.signs /\ Subject(req) # Empty =>
       /\ token # NoToken
       /\ \/ got + conf.skew > token.iat + TTL + Leeway
          \/ token.iat > got + conf.skew + Leeway
  /\ Accepted /\ conf.binds => /\ token # NoToken
                               /\ got + conf.skew <= token.iat + TTL + Leeway

IInv == TypeOK /\ Progress /\ Permitted /\ Minted /\ Ruled /\ ActsForItsCaller /\ AnswerIsTrue

-----------------------------------------------------------------------------

LEMMA NoCallIsCall == NoCall \in Calls
  BY CallAssumption DEF NoCall

(* No call has been made, sent or answered.                                *)
LEMMA InitIInv == Init => IInv
<1> SUFFICES ASSUME Init PROVE IInv
  OBVIOUS
<1>1. TypeOK
  <2>1. req \in Calls /\ entitled \in BOOLEAN
    BY NoCallIsCall DEF Init
  <2>2. now \in 0..MaxTime /\ got \in 0..MaxTime
    BY TimeAssumption DEF Init
  <2>3. QED
    BY <2>1, <2>2 DEF Init, TypeOK, Step
<1>2. Progress /\ Permitted
  BY DEF Init, Progress, Before, Away, Permitted
<1>3. Minted /\ Ruled /\ ActsForItsCaller /\ AnswerIsTrue
  BY DEF Init, Minted, Ruled, Accepted, ActsForItsCaller, AnswerIsTrue, Away
<1>4. QED
  BY <1>1, <1>2, <1>3 DEF IInv

(* The steps of the gateway before the fetch leave the token and the       *)
(* verdict empty, and end in another await before it or in an answer.      *)
GatewayStep ==
  Start \/ Forget \/ CheckMembership \/ GetPermission \/ Route \/ CheckQuota \/ CheckTeam
  \/ StatementFails \/ AskHealth

LEMMA GatewayStays ==
  ASSUME IInv, GatewayStep
  PROVE  /\ at \in Before \cup {"answered"} /\ at' \in Before \cup {"answered"}
         /\ token' = NoToken /\ verdict' = "none" /\ UNCHANGED world
  BY DEF GatewayStep, Start, Forget, CheckMembership, GetPermission, Route, AfterRoute, CheckQuota, CheckTeam,
         StatementFails, AskHealth, Goto, Answer, IInv, Progress, Before, Away, world, call

LEMMA GatewayType == ASSUME IInv, GatewayStep PROVE TypeOK'
<1> USE DEF IInv, TypeOK, Step, Goto, Answer, world, call
<1>1. CASE Start
  BY <1>1, GatewayStays DEF Start
<1>2. CASE Forget
  <2>1. req' \in Calls /\ entitled' \in BOOLEAN
    BY <1>2, NoCallIsCall DEF Forget
  <2>2. got' \in 0..MaxTime
    BY <1>2, TimeAssumption DEF Forget
  <2>3. QED
    BY <1>2, <2>1, <2>2 DEF Forget
<1>3. CASE CheckMembership \/ GetPermission \/ CheckQuota \/ CheckTeam
  BY <1>3 DEF CheckMembership, GetPermission, CheckQuota, CheckTeam
<1>4. CASE Route
  BY <1>4 DEF Route, AfterRoute
<1>5. CASE StatementFails \/ AskHealth
  BY <1>5 DEF StatementFails, AskHealth
<1>6. QED
  BY <1>1, <1>2, <1>3, <1>4, <1>5 DEF GatewayStep

LEMMA GatewayProgress == ASSUME IInv, GatewayStep PROVE Progress'
<1> USE GatewayStays DEF IInv, Progress, Before, Away, Goto, Answer, world, call
<1>1. CASE Start
  BY <1>1 DEF Start
<1>2. CASE Forget
  BY <1>2 DEF Forget
<1>3. CASE CheckMembership \/ GetPermission
  BY <1>3 DEF CheckMembership, GetPermission, SameTenant
<1>4. CASE Route
  BY <1>4, CallAssumption DEF Route, AfterRoute, SubjectTool, TeamTool, Tool, Request, TypeOK, SameTenant
<1>5. CASE CheckQuota \/ CheckTeam
  BY <1>5 DEF CheckQuota, CheckTeam, SameTenant, SubjectTool
<1>6. CASE StatementFails \/ AskHealth
  BY <1>6 DEF StatementFails, AskHealth, SameTenant
<1>7. QED
  BY <1>1, <1>2, <1>3, <1>4, <1>5, <1>6 DEF GatewayStep

LEMMA GatewayPermitted == ASSUME IInv, GatewayStep PROVE Permitted'
<1> USE DEF IInv, Permitted, Away, Goto, Answer, world, call
<1>1. CASE Start \/ Forget
  BY <1>1 DEF Start, Forget
<1>2. CASE CheckMembership \/ GetPermission \/ StatementFails \/ AskHealth
  BY <1>2 DEF CheckMembership, GetPermission, StatementFails, AskHealth
<1>3. CASE Route
  BY <1>3 DEF Route, AfterRoute, TeamTool
<1>4. CASE CheckQuota
  BY <1>4 DEF CheckQuota, Progress, TeamTool
<1>5. CASE CheckTeam
  BY <1>5 DEF CheckTeam, PermissionNow, Needed
<1>6. QED
  BY <1>1, <1>2, <1>3, <1>4, <1>5 DEF GatewayStep

(* With no token and no verdict there is nothing they could be wrong about.*)
LEMMA GatewayKeepsIInv == ASSUME IInv, GatewayStep PROVE IInv'
<1>1. Minted' /\ Ruled' /\ ActsForItsCaller'
  BY GatewayStays DEF Minted, Ruled, ActsForItsCaller, Accepted, Before, Away
<1>2. AnswerIsTrue'
  <2>1. CASE AskHealth \/ Start
    BY <2>1, GatewayStays DEF AskHealth, Start, Goto, Answer, call, AnswerIsTrue, IInv, Progress
  <2>2. CASE ~(AskHealth \/ Start)
    BY <2>2, GatewayStays DEF GatewayStep, Forget, CheckMembership, GetPermission, Route, CheckQuota, CheckTeam,
         StatementFails, Goto, Answer, call, AnswerIsTrue, IInv, Progress, Before
  <2>3. QED
    BY <2>1, <2>2
<1>3. QED
  BY <1>1, <1>2, GatewayType, GatewayProgress, GatewayPermitted DEF IInv

-----------------------------------------------------------------------------

(* Time only passes: what was minted before now stays so.                  *)
LEMMA TickKeepsIInv == ASSUME IInv, Tick PROVE IInv'
<1> USE DEF Tick, IInv, call
<1>1. TypeOK'
  BY TimeAssumption DEF TypeOK
<1>2. Progress' /\ Permitted' /\ ActsForItsCaller' /\ AnswerIsTrue'
  BY DEF Progress, Permitted, ActsForItsCaller, Accepted, AnswerIsTrue, SameTenant, WellTyped
<1>3. Minted' /\ Ruled'
  BY TimeAssumption DEF TypeOK, Minted, Ruled, Accepted, Subject
<1>4. QED
  BY <1>1, <1>2, <1>3

(* A change of the roster takes no entitlement of this call away.          *)
LEMMA RosterChangesKeepsIInv == ASSUME IInv, RosterChanges PROVE IInv'
<1> USE DEF RosterChanges, IInv
<1>1. TypeOK'
  BY DEF TypeOK
<1>2. Permitted'
  BY DEF Permitted, Away, Needed
<1>3. Progress' /\ ActsForItsCaller' /\ AnswerIsTrue'
  BY DEF Progress, ActsForItsCaller, Accepted, AnswerIsTrue, SameTenant, WellTyped
<1>4. Minted' /\ Ruled'
  BY DEF Minted, Ruled, Accepted, Subject
<1>5. QED
  BY <1>1, <1>2, <1>3, <1>4

(* Of a request with an account to name, the account is the caller: the    *)
(* tenant check left nothing else, and WellTyped asks for one.             *)
LEMMA SendKeepsIInv == ASSUME IInv, Send PROVE IInv'
<1> USE DEF Send, IInv, Answer, world
<1>1. TypeOK'
  BY DEF TypeOK, Step, Mint, Subject, Token, Progress, Before, SameTenant, WellTyped, NoToken
<1>2. Progress'
  BY DEF Progress, Before, Away, SameTenant, WellTyped
<1>3. Permitted'
  BY DEF Permitted, Away, WellTyped, SubjectTool, TeamTool
<1>4. Minted'
  <2>1. Subject(req) # Empty /\ WellTyped(req) => Subject(req) = Caller /\ req.near = Caller
    BY DEF Subject, WellTyped, Progress, Before, SameTenant
  <2>2. QED
    BY <2>1, NameAssumption, TimeAssumption DEF Mint, NoToken, Minted, Progress, Before, Away, TypeOK, Subject
<1>5. Ruled' /\ ActsForItsCaller' /\ AnswerIsTrue'
  BY DEF Progress, Before, Ruled, Accepted, ActsForItsCaller, AnswerIsTrue
<1>6. QED
  BY <1>1, <1>2, <1>3, <1>4, <1>5

LEMMA LossKeepsIInv == ASSUME IInv, FetchFails \/ BodyLost PROVE IInv'
<1> USE DEF FetchFails, BodyLost, IInv, world
<1>1. TypeOK'
  BY DEF TypeOK, Step
<1>2. Progress' /\ Permitted' /\ AnswerIsTrue'
  BY DEF Progress, Before, Away, Permitted, AnswerIsTrue
<1>3. Minted' /\ Ruled' /\ ActsForItsCaller'
  BY DEF Minted, Ruled, Accepted, ActsForItsCaller, Subject, Away
<1>4. QED
  BY <1>1, <1>2, <1>3

(* No tool of a team sends what its endpoint requires.                     *)
LEMMA TeamFieldsMissing ==
  ASSUME NEW tool \in TeamTool
  PROVE  ~(Requires(tool) \subseteq Sends(tool))
<1>1. tool = "team_vault_write" \/ tool = "team_vault_read" => "requestingAccountId" \in Requires(tool) \ Sends(tool)
  BY DEF Requires, Sends
<1>2. tool \notin {"team_vault_write", "team_vault_read"} => "memberAccountId" \in Requires(tool) \ Sends(tool)
  BY DEF Requires, Sends, TeamTool
<1>3. QED
  BY <1>1, <1>2

LEMMA ReceiveKeepsIInv == ASSUME IInv, Receive PROVE IInv'
<1> USE DEF Receive, IInv, world
<1>1. Judged \in Refusal \cup {"accepted"}
  BY DEF Judged, Refusal
<1>2. TypeOK'
  BY <1>1 DEF TypeOK, Step, Refusal
<1>3. Progress' /\ Permitted'
  BY <1>1 DEF Progress, Before, Away, Permitted, SameTenant, WellTyped, Refusal
<1>4. Minted'
  BY DEF Minted, Away, Subject, TypeOK
<1>5. Ruled'
  <2>1. Judged = "token" => conf.binds /\ ~Verifies
    BY DEF Judged
  <2>2. Judged = "accepted" /\ conf.binds => Verifies
    BY DEF Judged
  <2>3. conf.skew \in Int /\ now \in Nat /\ (token # NoToken => token.iat \in Nat)
    BY CallAssumption, TimeAssumption DEF TypeOK, Conf, Minted
  <2>4. QED
    BY <2>1, <2>2, <2>3, <1>1, TimeAssumption
       DEF Ruled, Accepted, Verifies, Expired, NotYetValid, Minted, Away, Subject, Refusal
<1>6. ActsForItsCaller'
  <2>1. SUFFICES ASSUME Judged = "accepted" PROVE req.tool \in SubjectTool /\ req.near = Caller
    BY <1>1 DEF ActsForItsCaller, Accepted, Refusal
  <2>2. req.tool \in SubjectTool
    BY <2>1, TeamFieldsMissing DEF Judged, Progress, Away
  <2>3. req.near \in {Absent, Empty, Caller} /\ req.near # Absent
    BY <2>2 DEF Progress, Away, SameTenant, WellTyped
  <2>4. req.near # Empty
    BY <2>1 DEF Judged, Invalid
  <2>5. QED
    BY <2>2, <2>3, <2>4
<1>7. AnswerIsTrue'
  BY <1>1 DEF AnswerIsTrue, Progress, Away
<1>8. QED
  BY <1>2, <1>3, <1>4, <1>5, <1>6, <1>7

(* The agent's work changes neither whom it is for nor when it was asked.  *)
LEMMA ActKeepsIInv == ASSUME IInv, Act PROVE IInv'
<1> USE DEF Act, IInv, world
<1>1. TypeOK'
  BY DEF TypeOK, Step
<1>2. Progress' /\ Permitted' /\ AnswerIsTrue'
  BY DEF Progress, Before, Away, Permitted, AnswerIsTrue, SameTenant, WellTyped
<1>3. Minted' /\ Ruled' /\ ActsForItsCaller'
  BY DEF Progress, Minted, Ruled, Accepted, ActsForItsCaller, Subject, Away, Work
<1>4. QED
  BY <1>1, <1>2, <1>3

LEMMA AgentAnswersKeepsIInv == ASSUME IInv, AgentAnswers \/ Meter \/ AuditBlock PROVE IInv'
<1> USE DEF AgentAnswers, Meter, AuditBlock, IInv, world, Goto, Answer, call
<1>1. TypeOK'
  BY DEF TypeOK, Step
<1>2. Progress'
  BY DEF Progress, Before, Away, SameTenant, Work, Refusal
<1>3. Permitted' /\ AnswerIsTrue'
  BY DEF Progress, Away, Permitted, AnswerIsTrue
<1>4. Minted' /\ Ruled' /\ ActsForItsCaller'
  BY DEF Minted, Ruled, Accepted, ActsForItsCaller, Subject, Away
<1>5. QED
  BY <1>1, <1>2, <1>3, <1>4

-----------------------------------------------------------------------------

LEMMA NextIInv == IInv /\ [Next]_vars => IInv'
<1> SUFFICES ASSUME IInv, [Next]_vars PROVE IInv'
  OBVIOUS
<1>1. CASE GatewayStep
  BY <1>1, GatewayKeepsIInv
<1>2. CASE Tick \/ RosterChanges
  BY <1>2, TickKeepsIInv, RosterChangesKeepsIInv
<1>3. CASE Send \/ FetchFails \/ BodyLost
  BY <1>3, SendKeepsIInv, LossKeepsIInv
<1>4. CASE Receive \/ Act \/ AgentAnswers \/ Meter \/ AuditBlock
  BY <1>4, ReceiveKeepsIInv, ActKeepsIInv, AgentAnswersKeepsIInv
<1>5. CASE UNCHANGED vars
  BY <1>5 DEF vars, IInv, TypeOK, Progress, SameTenant, WellTyped, Permitted, Minted, Subject, Ruled, Accepted,
              ActsForItsCaller, AnswerIsTrue
<1>6. QED
  BY <1>1, <1>2, <1>3, <1>4, <1>5 DEF Next, CallStep, GatewayStep

LEMMA Invariance == Spec => []IInv
  BY InitIInv, NextIInv, PTL DEF Spec

(* Every state of a call is well typed.                                    *)
THEOREM TypeCorrect == Spec => []TypeOK
<1>1. IInv => TypeOK
  BY DEF IInv
<1>2. QED
  BY <1>1, Invariance, PTL

(* For any arguments and any deployment, with tokens or without, the agent *)
(* accepts requests in the name of the session's own account only.         *)
THEOREM TenantIsolation == Spec => []ActsForItsCaller
<1>1. IInv => ActsForItsCaller
  BY DEF IInv
<1>2. QED
  BY <1>1, Invariance, PTL

(* However often the roster changes between the gateway's checks and its   *)
(* fetch, a team's request leaves only for an account that had the needed  *)
(* permission during the call.                                             *)
THEOREM TeamCallsArePermitted == Spec => []ForwardedWithPermission
<1>1. IInv => ForwardedWithPermission
  BY DEF IInv, Permitted, Away, ForwardedWithPermission
<1>2. QED
  BY <1>1, Invariance, PTL

LEMMA SkewIsInteger == IInv => conf.skew \in Int /\ got \in Nat /\ (token # NoToken => token.iat \in Nat)
  BY CallAssumption, TimeAssumption DEF IInv, TypeOK, Conf, Minted

(* For every token life, leeway and skew within it: a refusal of a token   *)
(* means that the request took longer than the token lives.                *)
THEOREM PromptCallsPass == Spec => []PromptTokenAccepted
<1>1. IInv => PromptTokenAccepted
  <2>1. SUFFICES ASSUME IInv, verdict = "token", conf.signs, ~Skewed, Subject(req) # Empty
                 PROVE  got - token.iat > TTL
    BY DEF PromptTokenAccepted
  <2>2. /\ token # NoToken /\ token.iat <= got
        /\ \/ got + conf.skew > token.iat + TTL + Leeway
           \/ token.iat > got + conf.skew + Leeway
    BY <2>1 DEF IInv, Ruled, Minted
  <2>3. conf.skew <= Leeway /\ -Leeway <= conf.skew
    BY <2>1, SkewIsInteger, TimeAssumption DEF Skewed
  <2>4. QED
    BY <2>1, <2>2, <2>3, SkewIsInteger, TimeAssumption
<1>2. QED
  BY <1>1, Invariance, PTL

(* And what is accepted was not on its way for longer than the token's     *)
(* life and twice the leeway.                                              *)
THEOREM LateCallsFail == Spec => []LateTokenRefused
<1>1. IInv => LateTokenRefused
  <2>1. SUFFICES ASSUME IInv, Accepted, conf.binds, ~Skewed
                 PROVE  got - token.iat <= TTL + 2 * Leeway
    BY DEF LateTokenRefused
  <2>2. token # NoToken /\ got + conf.skew <= token.iat + TTL + Leeway
    BY <2>1 DEF IInv, Ruled
  <2>3. -Leeway <= conf.skew
    BY <2>1, SkewIsInteger, TimeAssumption DEF Skewed
  <2>4. QED
    BY <2>1, <2>2, <2>3, SkewIsInteger, TimeAssumption
<1>2. QED
  BY <1>1, Invariance, PTL

(* No answer claims what the agent did not do, and only a lost fetch or    *)
(* body hides what it did or that its firewall blocked it.                 *)
THEOREM AnswersAreTrue == Spec => []AnswerIsTrue
<1>1. IInv => AnswerIsTrue
  BY DEF IInv
<1>2. QED
  BY <1>1, Invariance, PTL

-----------------------------------------------------------------------------
(* The forms the gateway and the agent agree on, and those they do not.    *)

(* A team tool was neither accepted by the agent nor answered with success.*)
TeamToolsFail == req.tool \in TeamTool => ~Accepted /\ answer \notin {"ok", "okNoData", "blocked"}

(* No tool of a team is ever served, in any deployment: the run that shows *)
(* one refused is no accident of its instance.                             *)
THEOREM TeamToolsNeverSucceed == Spec => []TeamToolsFail
<1>1. IInv => TeamToolsFail
  <2>1. TeamTool \cap (SubjectTool \cup {"agent_health"}) = {}
    BY DEF TeamTool, SubjectTool
  <2>2. QED
    BY <2>1 DEF IInv, TeamToolsFail, ActsForItsCaller, AnswerIsTrue, Accepted
<1>2. QED
  BY <1>1, Invariance, PTL

(* The agent has no fault to find with a subject tool's form.              *)
FormsAgree == req.tool \in SubjectTool => verdict \notin {"fields", "subject"}

LEMMA SubjectFieldsSent ==
  ASSUME NEW tool \in SubjectTool
  PROVE  Requires(tool) \subseteq Sends(tool)
  BY DEF SubjectTool, Requires, Sends

LEMMA ReceiveAgrees == ASSUME IInv, Receive PROVE FormsAgree'
<1> SUFFICES ASSUME req.tool \in SubjectTool PROVE Judged \notin {"fields", "subject"}
  BY DEF FormsAgree, Receive
<1>1. Requires(req.tool) \subseteq Sends(req.tool)
  BY SubjectFieldsSent
<1>2. conf.binds /\ Verifies => token.sub = req.near
  BY DEF Verifies, IInv, Minted
<1>3. QED
  BY <1>1, <1>2 DEF Judged

LEMMA NextFormsAgree == IInv /\ FormsAgree /\ [Next]_vars => FormsAgree'
<1> SUFFICES ASSUME IInv, FormsAgree, [Next]_vars PROVE FormsAgree'
  OBVIOUS
<1>1. CASE GatewayStep
  BY <1>1, GatewayStays DEF FormsAgree
<1>2. CASE Receive
  BY <1>2, ReceiveAgrees
<1>3. CASE Act
  BY <1>3 DEF Act, FormsAgree, Work
<1>4. CASE Tick \/ RosterChanges \/ Send \/ FetchFails \/ BodyLost \/ AgentAnswers \/ Meter \/ AuditBlock \/ UNCHANGED vars
  <2>1. UNCHANGED <<req, verdict>>
    BY <1>4 DEF Tick, RosterChanges, Send, FetchFails, BodyLost, AgentAnswers, Meter, AuditBlock, vars, call, Goto, Answer
  <2>2. QED
    BY <2>1 DEF FormsAgree
<1>5. QED
  BY <1>1, <1>2, <1>3, <1>4 DEF Next, CallStep, GatewayStep

(* A tool that acts for its account is never refused for a field its       *)
(* handler leaves out, nor for a token that names somebody else: what      *)
(* handlers.ts sends is what the agent's DTOs and its check of the         *)
(* capability subject ask for.                                             *)
THEOREM SubjectToolsAreUnderstood == Spec => []FormsAgree
<1>1. Init => FormsAgree
  BY DEF Init, FormsAgree
<1>2. QED
  BY <1>1, NextFormsAgree, Invariance, PTL DEF Spec
=============================================================================
