------------------------------- MODULE SkillRun -------------------------------
(***************************************************************************)
(* The execution of a skill, from the console to the model provider and    *)
(* back: the hook useSkillExecutor under the controls of SkillConsole.tsx, *)
(* handleZdrCheck of the gateway, and execute_skill of the agent with the  *)
(* firewall (EgressFirewall) every payload passes.  A run lives on behind  *)
(* the gateway whatever the console does meanwhile.  Whether a stored      *)
(* configuration decrypts is the business of VaultStore: here it may.      *)
(***************************************************************************)
EXTENDS EgressFirewall, FiniteSets

CONSTANTS
  Run,     \* executions, numbered in the order they start
  Skill,   \* the skills that can be asked for
  Stored,  \* the configuration behind each
  Typed,   \* the prompts users type in the console
  Posted,  \* the prompts other clients send
  Nil      \* no run, nothing sent

(* What a skill's blob id leads to.  One that does not parse, as those the *)
(* console's own form saves, may hold any text.                            *)
Config == [parses: BOOLEAN, url: Url, model: Text, system: Text]

ASSUME SkillAssumption == Stored \in [Skill -> Config]
ASSUME PromptAssumption == Typed \cup Posted \subseteq Text /\ <<>> \notin Typed
ASSUME RunAssumption == Run \subseteq Nat /\ Nil \notin Run

VARIABLES
  open,     \* the console is the tab shown
  prompt,   \* its text area
  status,   \* ExecutorStatus
  lock,     \* inFlightRef
  of,       \* the run whose answer status shows, Nil for the client's own scan
  client,   \* what each run is to the console
  at,       \* where the run is behind the console
  job,      \* its prompt and skill, until the agent has answered
  outcome,  \* what the agent answered, as the gateway will classify it
  sent,     \* what a provider was sent by it
  logs      \* runs with a row in firewall_audit_logs

vars == <<open, prompt, status, lock, of, client, at, job, outcome, sent, logs>>
hook == <<open, prompt, status, lock, of, client>>
server == <<at, job, outcome, sent, logs>>

Status == {"idle", "zdr-blocked", "executing", "completed", "error"}
Stage == {"none", "agent", "firewall", "provider", "classify", "audit", "answered", "over"}
Outcome == {"none", "output", "failed", "barred", "marked"}   \* the last two: blocked
Job == [prompt: Typed \cup Posted, skill: Skill]
Payload == [url: Url, texts: SUBSET Text, zdr: {"store: false", "anthropic headers", "data_retention: none"}]

TypeOK ==
  /\ open \in BOOLEAN /\ prompt \in Typed \cup {<<>>} /\ status \in Status /\ lock \in BOOLEAN
  /\ of \in Run \cup {Nil} /\ client \in [Run -> {"none", "waiting", "aborted", "left"}]
  /\ at \in [Run -> Stage] /\ job \in [Run -> Job \cup {Nil}]
  /\ outcome \in [Run -> Outcome] /\ sent \in [Run -> Payload \cup {Nil}] /\ logs \subseteq Run
  /\ \A r \in Run : at[r] \in {"agent", "firewall", "provider"} => job[r] \in Job

Init ==
  /\ open = TRUE /\ prompt = <<>> /\ status = "idle" /\ lock = FALSE /\ of = Nil
  /\ client = [r \in Run |-> "none"] /\ at = [r \in Run |-> "none"]
  /\ job = [r \in Run |-> Nil] /\ outcome = [r \in Run |-> "none"]
  /\ sent = [r \in Run |-> Nil] /\ logs = {}

Show(s, r) == status' = s /\ of' = r

-----------------------------------------------------------------------------
(* The console.                                                            *)

(* handlePromptChange; the text area is disabled while executing.          *)
Type(text) ==
  /\ open /\ status # "executing" /\ text # prompt
  /\ prompt' = text
  /\ CASE detectZdrViolation(text) -> Show("zdr-blocked", Nil)
       [] ~detectZdrViolation(text) /\ status = "zdr-blocked" -> Show("idle", Nil)
       [] OTHER -> UNCHANGED <<status, of>>
  /\ UNCHANGED <<open, lock, client, server>>

(* Mutant: an empty prompt can be executed.                                *)
CanExecuteEmpty == open /\ status \notin {"zdr-blocked", "executing"}

CanExecute == open /\ ~Blank(prompt) /\ status \notin {"zdr-blocked", "executing"}

NextRun(r) == at[r] = "none" /\ \A s \in Run : s < r => at[s] # "none"

(* execute, up to the call.                                                *)
Execute(r, skill) ==
  /\ CanExecute /\ NextRun(r)
  /\ ~lock /\ ~detectZdrViolation(prompt)
  /\ lock' = TRUE /\ Show("executing", Nil)
  /\ client' = [client EXCEPT ![r] = "waiting"]
  /\ at' = [at EXCEPT ![r] = "agent"]
  /\ job' = [job EXCEPT ![r] = [prompt |-> prompt, skill |-> skill]]
  /\ UNCHANGED <<open, prompt, outcome, sent, logs>>

(* Any other client of the MCP endpoint calls zdr_check: nothing stops its *)
(* prompt on the way, and no console waits.                                *)
CallDirectly(r, text, skill) ==
  /\ NextRun(r)
  /\ at' = [at EXCEPT ![r] = "agent"]
  /\ job' = [job EXCEPT ![r] = [prompt |-> text, skill |-> skill]]
  /\ UNCHANGED <<hook, outcome, sent, logs>>

(* Mutant: the output can be cleared at any time.                          *)
ClearableAlways == open

(* Clear Output; and the dismissal of the banner, which shows a marker.    *)
Clearable ==
  /\ open
  /\ \/ status \in {"completed", "error"}
     \/ status = "zdr-blocked" /\ \A r \in Run : r = of => outcome[r] = "marked"

Abort == client' = [r \in Run |-> IF client[r] = "waiting" THEN "aborted" ELSE client[r]]

Reset ==
  /\ Clearable
  /\ Abort /\ lock' = FALSE /\ prompt' = <<>> /\ Show("idle", Nil)
  /\ UNCHANGED <<open, server>>

(* Another tab unmounts the console: the fetch is aborted, and the state   *)
(* and refs are gone.                                                      *)
Leave ==
  /\ open /\ open' = FALSE
  /\ prompt' = <<>> /\ lock' = FALSE /\ Show("idle", Nil)
  /\ client' = [r \in Run |-> IF client[r] \in {"waiting", "aborted"} THEN "left" ELSE client[r]]
  /\ UNCHANGED server

Return == ~open /\ open' = TRUE /\ UNCHANGED <<prompt, status, lock, of, client, server>>

(* The answer, or the loss of it, reaches execute: an aborted one shows    *)
(* nothing, but every one runs into its finally.                           *)
Settle(r, shown) ==
  /\ client[r] \in {"waiting", "aborted"}
  /\ client' = [client EXCEPT ![r] = "none"]
  /\ lock' = FALSE
  /\ IF client[r] = "waiting" THEN Show(shown, r) ELSE UNCHANGED <<status, of>>
  /\ UNCHANGED <<open, prompt>>

ShownFor(o) == CASE o = "output" -> "completed" [] o = "failed" -> "error" [] OTHER -> "zdr-blocked"

Answered(r) ==
  /\ at[r] = "answered" /\ at' = [at EXCEPT ![r] = "over"]
  /\ Settle(r, ShownFor(outcome[r]))
  /\ UNCHANGED <<job, outcome, sent, logs>>

(* A fetch on the way rejects, the console's or, answered as an error, the *)
(* gateway's; the run goes on behind it.                                   *)
ConnectionLost(r) == Settle(r, "error") /\ UNCHANGED server

-----------------------------------------------------------------------------
(* The agent.                                                              *)

Go(r, stage) == at' = [at EXCEPT ![r] = stage]

(* The agent answers, and forgets what it was asked.                       *)
Finish(r, o) ==
  Go(r, "classify") /\ outcome' = [outcome EXCEPT ![r] = o] /\ job' = [job EXCEPT ![r] = Nil]

(* An error message that repeats one of these texts: the gateway looks for *)
(* the firewall's codes anywhere in it, and takes it for a block.          *)
Repeating(texts) ==
  {"failed"} \cup IF \E text \in texts : Quotes(text) THEN {"barred", "marked"} ELSE {}

(* Mutant: a configuration that does not parse is not answered.            *)
ReadConfigParsed(r) ==
  /\ at[r] = "agent" /\ Stored[job[r].skill].parses
  /\ Go(r, "firewall") \/ Go(r, "over")
  /\ UNCHANGED <<hook, job, outcome, sent, logs>>

(* The gateway's checks, the validators, the download and the parse, whose *)
(* error repeats the value it does not expect.                             *)
ReadConfig(r) ==
  /\ at[r] = "agent"
  /\ LET config == Stored[job[r].skill]
     IN \/ config.parses /\ Go(r, "firewall") /\ UNCHANGED <<job, outcome>>
        \/ Finish(r, "failed")
        \/ ~config.parses /\ \E o \in Repeating({config.model, config.system}) : Finish(r, o)
  /\ UNCHANGED <<hook, sent, logs>>

(* The strings of the payload: the model, the system message unless it is  *)
(* blank, and the user message.                                            *)
Texts(j) ==
  LET config == Stored[j.skill]
  IN {config.model, j.prompt} \cup IF Blank(config.system) THEN {} ELSE {config.system}

(* Mutant: of the payload the user message alone is scanned.               *)
UserText(j) == {j.prompt}

Scanned(j) == Texts(j)

(* transform_outbound_payload: the destination, then every string.         *)
Judged ==
  [j \in Job |-> IF ~verify_destination(Stored[j.skill].url) THEN "barred"
                 ELSE IF \E text \in Scanned(j) : scan_sensitive_keywords(text) THEN "marked"
                 ELSE "passed"]

Outbound(j) == [url |-> Stored[j.skill].url, texts |-> Texts(j), zdr |-> Injected(Stored[j.skill].url)]

(* The injection, and the request: the texts go out as they were written.  *)
Dispatch(r) ==
  /\ at[r] = "firewall"
  /\ IF Judged[job[r]] = "passed"
       THEN /\ Go(r, "provider") /\ UNCHANGED <<job, outcome>>
            /\ sent' = [sent EXCEPT ![r] = Outbound(job[r])]
       ELSE Finish(r, Judged[job[r]]) /\ UNCHANGED sent
  /\ UNCHANGED <<hook, logs>>

(* The completion; an error status, whose text may repeat what was sent; a *)
(* redirect or the timeout.                                                *)
ProviderAnswers(r) ==
  /\ at[r] = "provider"
  /\ \E o \in {"output"} \cup Repeating(Texts(job[r])) : Finish(r, o)
  /\ UNCHANGED <<hook, sent, logs>>

-----------------------------------------------------------------------------
(* handleZdrCheck, after the call.                                         *)

(* Mutant: every failure is classified as a block.                         *)
ClassifyAny(r) ==
  /\ at[r] = "classify"
  /\ Go(r, IF outcome[r] # "output" THEN "audit" ELSE "answered")
  /\ UNCHANGED <<hook, job, outcome, sent, logs>>

Classify(r) ==
  /\ at[r] = "classify"
  /\ Go(r, IF outcome[r] \in {"barred", "marked"} THEN "audit" ELSE "answered")
  /\ UNCHANGED <<hook, job, outcome, sent, logs>>

(* Best effort: a failed INSERT is ignored.                                *)
Audit(r) ==
  /\ at[r] = "audit"
  /\ logs' \in {logs, logs \cup {r}} /\ Go(r, "answered")
  /\ UNCHANGED <<hook, job, outcome, sent>>

-----------------------------------------------------------------------------

RunStep(r) == ReadConfig(r) \/ Dispatch(r) \/ ProviderAnswers(r) \/ Classify(r) \/ Audit(r) \/ Answered(r)

UserActs == \/ \E text \in Typed : Type(text)
            \/ \E r \in Run, skill \in Skill : Execute(r, skill)
            \/ Reset \/ Leave \/ Return

OtherClients == \E r \in Run, text \in Posted, skill \in Skill : CallDirectly(r, text, skill)

Next == UserActs \/ OtherClients \/ \E r \in Run : RunStep(r) \/ ConnectionLost(r)

(* Awaits settle: the agent's client times out after 30 seconds, and the   *)
(* Worker answers.  Nothing is owed to a failure or by the user.           *)
Fairness == \A r \in Run : WF_vars(RunStep(r))

Spec == Init /\ [][Next]_vars /\ Fairness

-----------------------------------------------------------------------------
(* Properties.                                                             *)

(* No text that spells a marker to its reader leaves for a provider, in    *)
(* whatever characters it is written, be it typed, sent by another client  *)
(* or stored in the configuration.  The texts leave as they were written,  *)
(* and the scan reads a normalised copy.                                   *)
EgressIsClean ==
  \A r \in Run : sent[r] # Nil => \A text \in sent[r].texts : ~Spells(text)

(* What leaves goes to a provider over TLS and carries the instruction     *)
(* that this provider understands (FIREWALL.md:39-41).  The destination is *)
(* verified by one chain of conditions, and the instruction chosen by      *)
(* another that takes the rest for Vertex AI.                              *)
ProvidersKeepNothing ==
  \A r \in Run : sent[r] # Nil =>
    /\ sent[r].url.scheme = "https" /\ sent[r].url.host \in DOMAIN Understood
    /\ sent[r].zdr = Understood[sent[r].url.host]

(* A block the user is shown, or finds in the audit log, is of a run that  *)
(* sent nothing, unless its texts quote the firewall's codes: then a       *)
(* provider's error that repeats them is taken for a block.                *)
BlockMeansUnsent ==
  \A r \in Run : r \in logs \/ (status = "zdr-blocked" /\ of = r)
    => sent[r] = Nil \/ \E text \in sent[r].texts : Quotes(text)

(* Without that exception: the audit log names no run that sent something. *)
LoggedMeansUnsent == \A r \in logs : sent[r] = Nil

(* The lock is held exactly while the console shows an execution, which is *)
(* exactly while one of its runs is awaited, and only one is.              *)
LockIsExecution ==
  /\ lock <=> status = "executing"
  /\ lock <=> \E r \in Run : client[r] = "waiting"
  /\ \A r, s \in Run : client[r] = "waiting" /\ client[s] = "waiting" => r = s

(* The console does not execute for ever, and neither does a run, whether  *)
(* or not anyone waits for it.                                             *)
ExecutionEnds ==
  /\ status = "executing" ~> status # "executing"
  /\ \A r \in Run : at[r] = "agent" ~> at[r] \in {"answered", "over"}

(* useSkillExecutor.ts:35 says that leaving the console during a run       *)
(* leaves no zombie LLM request: no provider is sent the payload of a run  *)
(* whose console is gone.                                                  *)
NoZombieRequests == [][\A r \in Run : client[r] = "left" => sent'[r] = sent[r]]_vars
=============================================================================
