--------------------------- MODULE DashboardProofs ---------------------------
(***************************************************************************)
(* Proofs about the dashboard: its skill console with the runs behind it   *)
(* (SkillRun) and the firewall they pass (EgressFirewall), for any number  *)
(* of runs, any stored configurations and prompts of any length; and       *)
(* signing in to it (SignIn), for any number of tabs, accounts and tokens. *)
(* The two share no state.                                                 *)
(***************************************************************************)
EXTENDS SkillRun, SignIn, TLAPS

-----------------------------------------------------------------------------
(***************************************************************************)
(* The firewall, for texts of any length.                                  *)
(***************************************************************************)

(* The words of a marker, which are no joints and not unseen.              *)
LEMMA MarkerWords ==
  ASSUME NEW m \in SENSITIVE_MARKERS
  PROVE  /\ Len(m) \in {1, 2} /\ m[1] \in Word
         /\ Len(m) = 2 => m[2] \in Word
  BY DEF SENSITIVE_MARKERS, Word

(* A text without anything suspicious shows every word and joint that is   *)
(* kept as itself.                                                         *)
LEMMA KeptAsShown ==
  ASSUME NEW text \in Text, ~Suspicious(text), NEW k \in DOMAIN text, text[k].shows # "zeroWidth"
  PROVE  k \in Kept(text) /\ Nfkc(text[k]) = text[k].shows /\ text[k].shows # "control"
<1>1. k \in Kept(text)
  BY DEF Kept
<1>2. Nfkc(text[k]) \notin {"nonAscii", "control"}
  BY <1>1 DEF Suspicious
<1>3. QED
  BY <1>1, <1>2 DEF Nfkc

(* What the scan lets pass spells no marker to any reader.                 *)
LEMMA ScanIsSound ==
  ASSUME NEW text \in Text, ~scan_sensitive_keywords(text)
  PROVE  ~Spells(text)
<1> SUFFICES ASSUME Spells(text) PROVE FALSE
  OBVIOUS
<1>1. ~Suspicious(text) /\ \A m \in SENSITIVE_MARKERS : ~Contains(text, m)
  BY DEF scan_sensitive_keywords
<1>2. PICK m \in SENSITIVE_MARKERS, i \in DOMAIN text :
        /\ text[i].shows = m[1]
        /\ Len(m) = 2 => \E j \in i + 1 .. Len(text) :
             /\ text[j].shows = m[2]
             /\ \A k \in i + 1 .. j - 1 : text[k].shows \in Joint \cup Unseen
             /\ \E k \in i + 1 .. j - 1 : text[k].shows \in Joint
  BY DEF Spells
<1>3. DOMAIN text = 1 .. Len(text) /\ Len(text) \in Nat
  BY DEF Text
<1>4. "zeroWidth" \notin Word \cup Joint /\ "control" \notin Word \cup Joint
  BY DEF Word, Joint
<1>5. i \in Kept(text) /\ Nfkc(text[i]) = m[1]
  BY <1>1, <1>2, <1>4, MarkerWords, KeptAsShown
<1>6. CASE Len(m) = 2
  <2>1. PICK j \in i + 1 .. Len(text) :
          /\ text[j].shows = m[2]
          /\ \A k \in i + 1 .. j - 1 : text[k].shows \in Joint \cup Unseen
          /\ \E k \in i + 1 .. j - 1 : text[k].shows \in Joint
    BY <1>2, <1>6
  <2>2. i < j /\ j \in DOMAIN text
    BY <1>3
  <2>3. j \in Kept(text) /\ Nfkc(text[j]) = m[2]
    BY <1>1, <1>4, <1>6, <2>1, <2>2, MarkerWords, KeptAsShown
  <2>4. \A k \in Kept(text) : i < k /\ k < j => Nfkc(text[k]) \in Joint
    <3> TAKE k \in Kept(text)
    <3> HAVE i < k /\ k < j
    <3>1. k \in DOMAIN text /\ text[k].shows # "zeroWidth" /\ k \in i + 1 .. j - 1
      BY <1>3 DEF Kept
    <3>2. Nfkc(text[k]) = text[k].shows /\ text[k].shows # "control"
      BY <1>1, <3>1, KeptAsShown
    <3>3. text[k].shows \in Joint \cup Unseen
      BY <2>1, <3>1
    <3>4. QED
      BY <3>1, <3>2, <3>3 DEF Unseen
  <2>5. \E k \in Kept(text) : i < k /\ k < j
    <3>1. PICK k \in i + 1 .. j - 1 : text[k].shows \in Joint
      BY <2>1
    <3>2. k \in DOMAIN text /\ i < k /\ k < j
      BY <1>3, <2>2
    <3>3. QED
      BY <1>4, <3>1, <3>2 DEF Kept
  <2>6. Between(text, i, j) # {} /\ Between(text, i, j) \subseteq Joint
    BY <2>4, <2>5 DEF Between
  <2>7. Contains(text, m)
    BY <1>5, <2>2, <2>3, <2>6 DEF Contains
  <2>8. QED
    BY <1>1, <2>7
<1>7. CASE Len(m) = 1
  <2>1. Contains(text, m)
    BY <1>5, <1>7 DEF Contains
  <2>2. QED
    BY <1>1, <2>1
<1>8. QED
  BY <1>6, <1>7, MarkerWords

(* A destination that is let through is a provider's, over TLS, and gets   *)
(* the instruction this provider understands.                              *)
LEMMA InstructionFitsProvider ==
  ASSUME NEW u \in Url, verify_destination(u)
  PROVE  /\ u.scheme = "https" /\ u.host \in DOMAIN Understood
         /\ Injected(u) = Understood[u.host]
<1>1. CASE u = Endpoint("openai")
  BY <1>1 DEF Endpoint, Injected, Understood
<1>2. CASE u = Endpoint("anthropic")
  BY <1>2 DEF Endpoint, Injected, Understood
<1>3. CASE u.scheme = "https" /\ u.host = "vertex"
  <2>1. u # Endpoint("openai") /\ u # Endpoint("anthropic")
    BY <1>3 DEF Endpoint
  <2>2. QED
    BY <1>3, <2>1 DEF Injected, Understood
<1>4. QED
  BY <1>1, <1>2, <1>3 DEF verify_destination

-----------------------------------------------------------------------------
(***************************************************************************)
(* The console and its runs.                                               *)
(***************************************************************************)

Blocked(r) == outcome[r] \in {"barred", "marked"}
Unsent(r) == sent[r] = Nil \/ \E text \in sent[r].texts : Quotes(text)

(* Nothing is sent before the firewall passed it, an outcome is there once *)
(* a run is classified, and a block is the outcome of what was not sent.   *)
Staged(r) ==
  /\ at[r] \in {"none", "agent", "firewall"} => outcome[r] = "none" /\ sent[r] = Nil
  /\ at[r] = "provider" => outcome[r] = "none" /\ sent[r].texts = Texts(job[r])
  /\ at[r] \in {"classify", "answered"} => outcome[r] # "none"
  /\ at[r] = "audit" => Blocked(r)
  /\ Blocked(r) => Unsent(r)

(* What the log and the console call a block is one.                       *)
Shown(r) == r \in logs \/ (status = "zdr-blocked" /\ of = r) => Blocked(r)

RunsStaged == \A r \in Run : Staged(r) /\ Shown(r)

(* The output can be cleared only when no run is awaited, so no run is     *)
(* ever aborted by a reset: an aborted one would free the lock of the next.*)
NoneAborted == \A r \in Run : client[r] # "aborted"

Clean == EgressIsClean /\ ProvidersKeepNothing

IInv == TypeOK /\ Clean /\ RunsStaged /\ LockIsExecution /\ NoneAborted

-----------------------------------------------------------------------------

LEMMA InitIInv == Init => IInv
<1> SUFFICES ASSUME Init PROVE IInv
  OBVIOUS
<1>1. TypeOK
  BY DEF Init, TypeOK, Status, Stage, Outcome
<1>2. Clean /\ RunsStaged
  BY RunAssumption DEF Init, Clean, EgressIsClean, ProvidersKeepNothing, RunsStaged, Staged, Shown, Blocked, Unsent
<1>3. LockIsExecution /\ NoneAborted
  BY DEF Init, LockIsExecution, NoneAborted
<1>4. QED
  BY <1>1, <1>2, <1>3 DEF IInv

LEMMA HookKept ==
  ASSUME IInv, UNCHANGED hook
  PROVE  LockIsExecution' /\ NoneAborted'
  BY DEF IInv, hook, LockIsExecution, NoneAborted

(* What the user does touches no run behind the console, except that       *)
(* Execute starts one, as another client's call does.                      *)
LEMMA TypeKeepsIInv == ASSUME IInv, NEW text \in Typed, Type(text) PROVE IInv'
<1> USE DEF IInv, Type, Show, server
<1>1. TypeOK'
  BY DEF TypeOK, Status
<1>2. Clean'
  BY DEF Clean, EgressIsClean, ProvidersKeepNothing
<1>3. RunsStaged'
  BY RunAssumption DEF RunsStaged, Staged, Shown, Blocked, Unsent, Texts
<1>4. LockIsExecution' /\ NoneAborted'
  BY DEF LockIsExecution, NoneAborted
<1>5. QED
  BY <1>1, <1>2, <1>3, <1>4

LEMMA ExecuteKeepsIInv == ASSUME IInv, NEW r \in Run, NEW skill \in Skill, Execute(r, skill) PROVE IInv'
<1> USE DEF IInv, Execute, Show, NextRun
<1>1. prompt \in Typed
  BY DEF TypeOK, CanExecute, Blank
<1>2. TypeOK'
  BY <1>1 DEF TypeOK, CanExecute, Status, Stage, Job
<1>3. Clean'
  BY DEF Clean, EgressIsClean, ProvidersKeepNothing
<1>4. RunsStaged'
  BY DEF TypeOK, RunsStaged, Staged, Shown, Blocked, Unsent, Texts
<1>5. LockIsExecution' /\ NoneAborted'
  BY DEF TypeOK, LockIsExecution, NoneAborted, CanExecute
<1>6. QED
  BY <1>2, <1>3, <1>4, <1>5

LEMMA CallDirectlyKeepsIInv ==
  ASSUME IInv, NEW r \in Run, NEW text \in Posted, NEW skill \in Skill, CallDirectly(r, text, skill)
  PROVE  IInv'
<1> USE DEF IInv, CallDirectly, NextRun
<1>1. TypeOK'
  BY DEF TypeOK, hook, Stage, Job
<1>2. Clean'
  BY DEF Clean, EgressIsClean, ProvidersKeepNothing
<1>3. RunsStaged'
  BY DEF TypeOK, hook, RunsStaged, Staged, Shown, Blocked, Unsent, Texts
<1>4. QED
  BY <1>1, <1>2, <1>3, HookKept

LEMMA ResetKeepsIInv == ASSUME IInv, Reset PROVE IInv'
<1> USE DEF IInv, Reset, Show, server
<1>1. \A r \in Run : client[r] # "waiting"
  BY DEF Clearable, LockIsExecution
<1>2. client' = client
  BY <1>1 DEF Abort, TypeOK
<1>3. TypeOK'
  BY <1>2 DEF TypeOK, Status
<1>4. Clean'
  BY DEF Clean, EgressIsClean, ProvidersKeepNothing
<1>5. RunsStaged'
  BY DEF RunsStaged, Staged, Shown, Blocked, Unsent, Texts
<1>6. LockIsExecution' /\ NoneAborted'
  BY <1>1, <1>2 DEF LockIsExecution, NoneAborted
<1>7. QED
  BY <1>3, <1>4, <1>5, <1>6

LEMMA LeaveKeepsIInv == ASSUME IInv, Leave \/ Return PROVE IInv'
<1> USE DEF IInv, Leave, Return, Show, server
<1>1. TypeOK'
  BY DEF TypeOK, Status
<1>2. Clean'
  BY DEF Clean, EgressIsClean, ProvidersKeepNothing
<1>3. RunsStaged'
  BY DEF RunsStaged, Staged, Shown, Blocked, Unsent, Texts
<1>4. LockIsExecution' /\ NoneAborted'
  BY DEF TypeOK, LockIsExecution, NoneAborted
<1>5. QED
  BY <1>1, <1>2, <1>3, <1>4

-----------------------------------------------------------------------------
(* The finally of execute frees the lock of the run that held it, since it *)
(* is the only one awaited.                                                *)

LEMMA SettleLock ==
  ASSUME IInv, NEW r \in Run, NEW shown \in Status \ {"executing"}, Settle(r, shown)
  PROVE  /\ LockIsExecution' /\ NoneAborted'
         /\ client' \in [Run -> {"none", "waiting", "aborted", "left"}]
         /\ status' = shown /\ of' = r /\ lock' = FALSE /\ UNCHANGED <<open, prompt>>
<1>1. client[r] = "waiting"
  BY DEF IInv, NoneAborted, Settle
<1>2. client' = [client EXCEPT ![r] = "none"] /\ client' \in [Run -> {"none", "waiting", "aborted", "left"}]
  BY DEF Settle, IInv, TypeOK
<1>3. status' = shown /\ of' = r /\ lock' = FALSE /\ UNCHANGED <<open, prompt>>
  BY <1>1 DEF Settle, Show
<1>4. \A s \in Run : client'[s] \notin {"waiting", "aborted"}
  BY <1>1, <1>2 DEF IInv, TypeOK, LockIsExecution, NoneAborted
<1>5. QED
  BY <1>2, <1>3, <1>4 DEF LockIsExecution, NoneAborted

LEMMA AnsweredKeepsIInv == ASSUME IInv, NEW r \in Run, Answered(r) PROVE IInv'
<1>1. ShownFor(outcome[r]) \in Status \ {"executing"}
  BY DEF ShownFor, Status
<1>2. Settle(r, ShownFor(outcome[r])) /\ at[r] = "answered" /\ at' = [at EXCEPT ![r] = "over"]
      /\ UNCHANGED <<job, outcome, sent, logs>>
  BY DEF Answered
<1>3. LockIsExecution' /\ NoneAborted' /\ status' = ShownFor(outcome[r]) /\ of' = r
  BY <1>1, <1>2, SettleLock
<1>4. TypeOK'
  BY <1>1, <1>2, SettleLock DEF IInv, TypeOK, Stage
<1>5. Clean'
  BY <1>2 DEF IInv, Clean, EgressIsClean, ProvidersKeepNothing
<1>6. RunsStaged'
  <2>1. ShownFor(outcome[r]) = "zdr-blocked" => Blocked(r)
    BY <1>2 DEF IInv, TypeOK, Outcome, RunsStaged, Staged, ShownFor, Blocked
  <2>2. QED
    BY <1>2, <1>3, <2>1 DEF IInv, TypeOK, RunsStaged, Staged, Shown, Blocked, Unsent, Texts
<1>7. QED
  BY <1>3, <1>4, <1>5, <1>6 DEF IInv

LEMMA ConnectionLostKeepsIInv == ASSUME IInv, NEW r \in Run, ConnectionLost(r) PROVE IInv'
<1>1. Settle(r, "error") /\ UNCHANGED server /\ "error" \in Status \ {"executing"}
  BY DEF ConnectionLost, Status
<1>2. LockIsExecution' /\ NoneAborted' /\ status' = "error"
  BY <1>1, SettleLock
<1>3. TypeOK'
  BY <1>1, SettleLock DEF IInv, TypeOK, server
<1>4. Clean' /\ RunsStaged'
  BY <1>1, <1>2 DEF IInv, server, Clean, EgressIsClean, ProvidersKeepNothing, RunsStaged, Staged, Shown, Blocked, Unsent, Texts
<1>5. QED
  BY <1>2, <1>3, <1>4 DEF IInv

-----------------------------------------------------------------------------
(* Behind the console.                                                     *)

LEMMA ReadConfigKeepsIInv == ASSUME IInv, NEW r \in Run, ReadConfig(r) PROVE IInv'
<1>1. at[r] = "agent" /\ UNCHANGED <<hook, sent, logs>>
  BY DEF ReadConfig
<1>2. Clean'
  BY <1>1 DEF IInv, Clean, EgressIsClean, ProvidersKeepNothing
<1>3. CASE Go(r, "firewall") /\ UNCHANGED <<job, outcome>>
  <2>1. TypeOK' /\ RunsStaged'
    BY <1>1, <1>3 DEF IInv, TypeOK, hook, Go, Stage, RunsStaged, Staged, Shown, Blocked, Unsent, Texts
  <2>2. QED
    BY <1>1, <1>2, <2>1, HookKept DEF IInv
<1>4. CASE \E o \in {"failed", "barred", "marked"} : Finish(r, o)
  <2>1. PICK o \in {"failed", "barred", "marked"} :
          /\ at' = [at EXCEPT ![r] = "classify"] /\ outcome' = [outcome EXCEPT ![r] = o]
          /\ job' = [job EXCEPT ![r] = Nil]
    BY <1>4 DEF Finish, Go
  <2>2. TypeOK'
    BY <1>1, <2>1 DEF IInv, TypeOK, hook, Stage, Outcome
  <2>3. RunsStaged'
    BY <1>1, <2>1 DEF IInv, TypeOK, hook, RunsStaged, Staged, Shown, Blocked, Unsent
  <2>4. QED
    BY <1>1, <1>2, <2>2, <2>3, HookKept DEF IInv
<1>5. QED
  BY <1>3, <1>4 DEF ReadConfig, Repeating

(* The firewall is the only way to a provider.                             *)
LEMMA JudgedPassed ==
  ASSUME NEW j \in Job, Judged[j] = "passed"
  PROVE  /\ Outbound(j) \in Payload
         /\ \A text \in Outbound(j).texts : ~Spells(text)
         /\ Outbound(j).url.scheme = "https" /\ Outbound(j).url.host \in DOMAIN Understood
         /\ Outbound(j).zdr = Understood[Outbound(j).url.host]
<1> DEFINE config == Stored[j.skill]
<1>1. config \in Config /\ config.url \in Url /\ j.prompt \in Text
  BY SkillAssumption, PromptAssumption DEF Job, Config
<1>2. Texts(j) \subseteq Text
  BY <1>1 DEF Texts, Config
<1>3. verify_destination(config.url) /\ \A text \in Texts(j) : ~scan_sensitive_keywords(text)
  BY DEF Judged, Scanned
<1>4. /\ Outbound(j).url = config.url /\ Outbound(j).texts = Texts(j)
      /\ Outbound(j).zdr = Injected(config.url)
      /\ Outbound(j) = [url |-> config.url, texts |-> Texts(j), zdr |-> Injected(config.url)]
  BY DEF Outbound
<1>5. \A text \in Texts(j) : ~Spells(text)
  BY <1>2, <1>3, ScanIsSound
<1>6. /\ config.url.scheme = "https" /\ config.url.host \in DOMAIN Understood
      /\ Injected(config.url) = Understood[config.url.host]
  BY <1>1, <1>3, InstructionFitsProvider
<1>7. Injected(config.url) \in {"store: false", "anthropic headers", "data_retention: none"}
  BY DEF Injected
<1>8. Outbound(j) \in Payload
  BY <1>1, <1>2, <1>4, <1>7 DEF Payload
<1>9. QED
  BY <1>4, <1>5, <1>6, <1>8

LEMMA DispatchKeepsIInv == ASSUME IInv, NEW r \in Run, Dispatch(r) PROVE IInv'
<1> DEFINE payload == Outbound(job[r])
<1>1. at[r] = "firewall" /\ UNCHANGED <<hook, logs>> /\ job[r] \in Job
  BY DEF Dispatch, IInv, TypeOK
<1>2. CASE Judged[job[r]] = "passed"
  <2>1. at' = [at EXCEPT ![r] = "provider"] /\ job' = job /\ outcome' = outcome /\ sent' = [sent EXCEPT ![r] = payload]
    BY <1>2 DEF Dispatch, Go
  <2>2. payload \in Payload
    BY <1>1, <1>2, JudgedPassed
  <2>3. TypeOK'
    BY <1>1, <2>1, <2>2 DEF IInv, TypeOK, hook, Stage
  <2>4. Clean'
    <3>1. /\ \A text \in payload.texts : ~Spells(text)
          /\ payload.url.scheme = "https" /\ payload.url.host \in DOMAIN Understood
          /\ payload.zdr = Understood[payload.url.host]
      BY <1>1, <1>2, JudgedPassed
    <3>2. sent'[r] = payload /\ \A s \in Run : s # r => sent'[s] = sent[s]
      BY <2>1 DEF IInv, TypeOK
    <3>3. QED
      BY <3>1, <3>2 DEF IInv, Clean, EgressIsClean, ProvidersKeepNothing
  <2>5. RunsStaged'
    <3>1. sent'[r].texts = Texts(job'[r])
      BY <1>1, <2>1 DEF IInv, TypeOK, Outbound
    <3>2. \A s \in Run : s # r => sent'[s] = sent[s] /\ at'[s] = at[s]
      BY <2>1 DEF IInv, TypeOK
    <3>3. at'[r] = "provider" /\ outcome[r] = "none"
      BY <1>1, <2>1 DEF IInv, TypeOK, RunsStaged, Staged
    <3>4. QED
      BY <1>1, <2>1, <3>1, <3>2, <3>3 DEF IInv, hook, RunsStaged, Staged, Shown, Blocked, Unsent, Texts
  <2>6. QED
    BY <1>1, <2>3, <2>4, <2>5, HookKept DEF IInv
<1>3. CASE Judged[job[r]] # "passed"
  <2>1. /\ at' = [at EXCEPT ![r] = "classify"] /\ outcome' = [outcome EXCEPT ![r] = Judged[job[r]]]
        /\ job' = [job EXCEPT ![r] = Nil] /\ sent' = sent /\ Judged[job[r]] \in {"barred", "marked"}
    BY <1>1, <1>3 DEF Dispatch, Go, Finish, Judged
  <2>2. TypeOK'
    BY <1>1, <2>1 DEF IInv, TypeOK, hook, Stage, Outcome
  <2>3. Clean'
    BY <2>1 DEF IInv, Clean, EgressIsClean, ProvidersKeepNothing
  <2>4. RunsStaged'
    BY <1>1, <2>1 DEF IInv, TypeOK, hook, RunsStaged, Staged, Shown, Blocked, Unsent, Texts
  <2>5. QED
    BY <1>1, <2>2, <2>3, <2>4, HookKept DEF IInv
<1>4. QED
  BY <1>2, <1>3

(* Only a provider that was sent the codes can quote them.                 *)
LEMMA ProviderAnswersKeepsIInv == ASSUME IInv, NEW r \in Run, ProviderAnswers(r) PROVE IInv'
<1>1. PICK o \in {"output"} \cup Repeating(Texts(job[r])) :
        /\ at' = [at EXCEPT ![r] = "classify"] /\ outcome' = [outcome EXCEPT ![r] = o]
        /\ job' = [job EXCEPT ![r] = Nil]
  BY DEF ProviderAnswers, Finish, Go
<1>2. at[r] = "provider" /\ UNCHANGED <<hook, sent, logs>>
  BY DEF ProviderAnswers
<1>3. /\ o \in {"output", "failed", "barred", "marked"}
      /\ o \in {"barred", "marked"} => \E text \in Texts(job[r]) : Quotes(text)
  BY DEF Repeating
<1>4. TypeOK'
  BY <1>1, <1>2, <1>3 DEF IInv, TypeOK, hook, Stage, Outcome
<1>5. Clean'
  BY <1>2 DEF IInv, Clean, EgressIsClean, ProvidersKeepNothing
<1>6. RunsStaged'
  BY <1>1, <1>2, <1>3 DEF IInv, TypeOK, hook, RunsStaged, Staged, Shown, Blocked, Unsent
<1>7. QED
  BY <1>2, <1>4, <1>5, <1>6, HookKept DEF IInv

LEMMA ClassifyKeepsIInv == ASSUME IInv, NEW r \in Run, Classify(r) PROVE IInv'
<1> USE DEF IInv, Classify, Go
<1>1. TypeOK'
  BY DEF TypeOK, hook, Stage
<1>2. Clean'
  BY DEF Clean, EgressIsClean, ProvidersKeepNothing
<1>3. RunsStaged'
  BY DEF TypeOK, hook, RunsStaged, Staged, Shown, Blocked, Unsent, Texts
<1>4. QED
  BY <1>1, <1>2, <1>3, HookKept

LEMMA AuditKeepsIInv == ASSUME IInv, NEW r \in Run, Audit(r) PROVE IInv'
<1> USE DEF IInv, Audit, Go
<1>1. TypeOK'
  BY DEF TypeOK, hook, Stage
<1>2. Clean'
  BY DEF Clean, EgressIsClean, ProvidersKeepNothing
<1>3. RunsStaged'
  BY DEF TypeOK, hook, RunsStaged, Staged, Shown, Blocked, Unsent, Texts
<1>4. QED
  BY <1>1, <1>2, <1>3, HookKept

-----------------------------------------------------------------------------

LEMMA NextIInv == IInv /\ [Next]_vars => IInv'
<1> SUFFICES ASSUME IInv, [Next]_vars PROVE IInv'
  OBVIOUS
<1>1. CASE UserActs
  BY <1>1, TypeKeepsIInv, ExecuteKeepsIInv, ResetKeepsIInv, LeaveKeepsIInv DEF UserActs
<1>2. ASSUME NEW r \in Run, RunStep(r) \/ ConnectionLost(r) PROVE IInv'
  BY <1>2, ReadConfigKeepsIInv, DispatchKeepsIInv, ProviderAnswersKeepsIInv, ClassifyKeepsIInv,
     AuditKeepsIInv, AnsweredKeepsIInv, ConnectionLostKeepsIInv DEF RunStep
<1>3. CASE UNCHANGED vars
  BY <1>3 DEF vars, hook, server, IInv, TypeOK, Clean, EgressIsClean, ProvidersKeepNothing, RunsStaged, Staged, Shown, Blocked, Unsent, Texts,
              LockIsExecution, NoneAborted
<1>4. CASE OtherClients
  BY <1>4, CallDirectlyKeepsIInv DEF OtherClients
<1>5. QED
  BY <1>1, <1>2, <1>3, <1>4 DEF Next

LEMMA Invariance == Spec => []IInv
  BY InitIInv, NextIInv, PTL DEF Spec

(* Every state of the console and of the runs behind it is well typed.     *)
THEOREM TypeCorrect == Spec => []TypeOK
<1>1. IInv => TypeOK
  BY DEF IInv
<1>2. QED
  BY <1>1, Invariance, PTL

(* Whatever is stored, typed or sent by other clients, of any length, and  *)
(* however runs overlap, no text that reaches a provider spells a marker   *)
(* to its reader, in whatever characters it is written.                    *)
THEOREM EgressPassesTheFirewall == Spec => []EgressIsClean
<1>1. IInv => EgressIsClean
  BY DEF IInv, Clean
<1>2. QED
  BY <1>1, Invariance, PTL

(* What reaches a provider went to one of the three over TLS, with the     *)
(* instruction that this one understands, whatever URL is stored.          *)
THEOREM ProvidersAreInstructed == Spec => []ProvidersKeepNothing
<1>1. IInv => ProvidersKeepNothing
  BY DEF IInv, Clean
<1>2. QED
  BY <1>1, Invariance, PTL

(* A run shown or logged as blocked sent nothing, unless its texts quote   *)
(* the codes the gateway looks for.                                        *)
THEOREM BlocksAreTrue == Spec => []BlockMeansUnsent
<1>1. IInv => BlockMeansUnsent
  BY DEF IInv, RunsStaged, Staged, Shown, Unsent, BlockMeansUnsent
<1>2. QED
  BY <1>1, Invariance, PTL

(* One execution at a time, for any number of clicks, resets and late      *)
(* answers.                                                                *)
THEOREM ExecutionsAreExclusive == Spec => []LockIsExecution
<1>1. IInv => LockIsExecution
  BY DEF IInv
<1>2. QED
  BY <1>1, Invariance, PTL

-----------------------------------------------------------------------------
(***************************************************************************)
(* Signing in.                                                             *)
(***************************************************************************)

(* Whatever is used as a token was drawn for an account that signed.       *)
Owned ==
  /\ stored # None => owner[stored] \in Account
  /\ \A t \in Tab : carried[t] # None => owner[carried[t]] \in Account
  /\ \A t \in Tab : session[t] # None => owner[session[t].token] \in Account

(* What a page in one of its awaits knows; the token in localStorage is    *)
(* never removed again.                                                    *)
PagesStaged ==
  \A t \in Tab :
    /\ page[t] \in Dash => session[t] # None
    /\ session[t] # None => stored # None
    /\ page[t] \in {"checking", "registering"} => carried[t] # None
    /\ page[t] = "unlock" => signer[t] \in Account

(* Once another tab has replaced a page's token it is never stored again:  *)
(* while it is stored, all calls of the page have carried it.              *)
OneToken ==
  \A t \in Tab :
    session[t] # None /\ stored = session[t].token =>
      /\ carried[t] \in {None, stored}
      /\ keyOf[t] \in {None, owner[stored]}

SIInv == SITypeOK /\ Owned /\ PagesStaged /\ OneToken /\ SignedByItsAccount

LEMMA InitSIInv == SIInit => SIInv
  BY DEF SIInit, SIInv, SITypeOK, Gate, Owned, PagesStaged, OneToken, SignedByItsAccount, Dash

(* The steps of a page up to the unlock and the clicks of the dashboard    *)
(* change neither tokens nor sessions nor the key that is shown.           *)
Leisure(t) ==
  \/ LoadSelector(t) \/ Connect(t) \/ OpenModal(t) \/ Pick(t) \/ TimeOut(t) \/ GetChallenge(t)
  \/ Sign(t) \/ Provision(t) \/ EnterWorkspace(t) \/ Lock(t)

LEMMA LeisureTypes ==
  ASSUME SITypeOK, NEW t \in Tab, Leisure(t)
  PROVE  /\ SITypeOK'
         /\ UNCHANGED <<stored, gateway, dashboard>>
         /\ \A u \in Tab \ {t} : page'[u] = page[u] /\ signer'[u] = signer[u]
         /\ page'[t] = "unlock" => signer'[t] \in Account \/ (page'[t] = page[t] /\ signer'[t] = signer[t])
         /\ page'[t] \in Dash => page[t] \in Dash
         /\ page'[t] \notin {"checking", "registering"} \/ page'[t] = page[t]
<1> USE DEF SITypeOK, From, Goto, Forget, Gate, Dash, gateway, selector, signing, dashboard
<1>1. CASE LoadSelector(t)
  <2>0. /\ page' = [page EXCEPT ![t] = "restoring"] \/ page' = [page EXCEPT ![t] = "idle"]
        /\ loaded' = [loaded EXCEPT ![t] = TRUE] \/ loaded' = loaded
        /\ account' = [account EXCEPT ![t] = wallet] \/ account' = account
    BY <1>1 DEF LoadSelector
  <2>1. page' \in [Tab -> Gate \cup Dash] /\ loaded' \in [Tab -> BOOLEAN]
        /\ account' \in [Tab -> Account \cup {None}]
    BY <2>0
  <2>2. UNCHANGED <<wallet, stored, owner, users, modal, as, signer, session, carried, keyOf>>
    BY <1>1 DEF LoadSelector
  <2>3. page'[t] \in {"restoring", "idle"} /\ \A u \in Tab \ {t} : page'[u] = page[u]
    BY <1>1 DEF LoadSelector
  <2>4. SITypeOK'
    BY <2>1, <2>2
  <2>5. QED
    BY <2>2, <2>3, <2>4
<1>2. CASE Connect(t) \/ TimeOut(t) \/ Provision(t) \/ EnterWorkspace(t) \/ Lock(t)
  BY <1>2 DEF Connect, TimeOut, Provision, EnterWorkspace, Lock
<1>3. CASE OpenModal(t)
  BY <1>3 DEF OpenModal
<1>4. CASE Pick(t)
  <2>1. /\ wallet' \in Account \cup {None} /\ account' \in [Tab -> Account \cup {None}]
        /\ modal' \in [Tab -> BOOLEAN]
    BY <1>4 DEF Pick
  <2>2. UNCHANGED <<stored, owner, users, loaded, signer, session, carried, keyOf>>
    BY <1>4 DEF Pick
  <2>3. CASE page' = page /\ as' = as
    BY <2>1, <2>2, <2>3
  <2>4. CASE \E a \in Account : as' = [as EXCEPT ![t] = a] /\ page' = [page EXCEPT ![t] = "challenge"]
    <3>1. as' \in [Tab -> Account \cup {None}] /\ page' \in [Tab -> Gate \cup Dash]
      BY <2>4
    <3>2. page'[t] = "challenge" /\ \A u \in Tab \ {t} : page'[u] = page[u]
      BY <2>4
    <3>3. QED
      BY <2>1, <2>2, <3>1, <3>2
  <2>5. QED
    BY <1>4, <2>3, <2>4 DEF Pick
<1>5. CASE GetChallenge(t)
  BY <1>5 DEF GetChallenge
<1>6. CASE Sign(t)
  BY <1>6 DEF Sign
<1>7. QED
  BY <1>1, <1>2, <1>3, <1>4, <1>5, <1>6 DEF Leisure

LEMMA LeisureKeepsSIInv ==
  ASSUME SIInv, NEW t \in Tab, Leisure(t)
  PROVE  SIInv'
<1> USE DEF SIInv
<1>1. SITypeOK' /\ UNCHANGED <<stored, owner, session, carried, keyOf>>
  BY LeisureTypes DEF gateway, dashboard
<1>2. PagesStaged'
  BY <1>1, LeisureTypes DEF PagesStaged
<1>3. Owned' /\ OneToken' /\ SignedByItsAccount'
  BY <1>1 DEF Owned, OneToken, SignedByItsAccount
<1>4. QED
  BY <1>1, <1>2, <1>3

LEMMA SetSessionTypes ==
  ASSUME SITypeOK, NEW t \in Tab, NEW s \in Session \cup {None}, NEW step \in Gate \cup Dash,
         SetSession(t, s, step)
  PROVE  /\ page' \in [Tab -> Gate \cup Dash] /\ session' \in [Tab -> Session \cup {None}]
         /\ carried' \in [Tab -> Token \cup {None}] /\ keyOf' \in [Tab -> Account \cup {None}]
         /\ page'[t] = step /\ session'[t] = s /\ keyOf'[t] = None
         /\ carried'[t] = None
         /\ \A u \in Tab \ {t} : /\ page'[u] = page[u] /\ session'[u] = session[u]
                                 /\ carried'[u] = carried[u] /\ keyOf'[u] = keyOf[u]
  BY DEF SITypeOK, SetSession, Goto

(* The session a page takes for the stored token.                          *)
LEMMA RestoredType ==
  ASSUME SITypeOK, NEW t \in Tab, Restorable(t)
  PROVE  LET s == [account |-> account[t], token |-> stored, restored |-> TRUE]
         IN s \in Session /\ s # None
<1>1. account[t] \in Account /\ stored \in Token
  BY DEF SITypeOK, Restorable
<1>2. [account |-> account[t], token |-> stored, restored |-> TRUE] \in Session
  BY <1>1 DEF Session
<1>3. QED
  BY <1>2, NoneAssumption

LEMMA RestoreKeepsSIInv ==
  ASSUME SIInv, NEW t \in Tab, Restore(t)
  PROVE  SIInv'
<1> USE DEF SIInv
<1>1. CASE ~Restorable(t)
  <2>1. SITypeOK' /\ UNCHANGED <<stored, owner, signer, session, carried, keyOf>>
    BY <1>1 DEF Restore, SITypeOK, Goto, Gate, gateway, selector, signing, dashboard
  <2>2. PagesStaged'
    BY <1>1, <2>1 DEF Restore, PagesStaged, SITypeOK, Goto, Dash
  <2>3. QED
    BY <2>1, <2>2 DEF Owned, OneToken, SignedByItsAccount
<1>2. CASE Restorable(t)
  <2> DEFINE s == [account |-> account[t], token |-> stored, restored |-> TRUE]
  <2>1. s \in Session /\ s # None /\ stored \in Token /\ SetSession(t, s, "mounting")
    BY <1>2, RestoredType DEF Restore, Restorable, SITypeOK
  <2>2. UNCHANGED <<wallet, stored, owner, users, loaded, account, modal, as, signer>>
    BY DEF Restore, gateway, selector, signing
  <2> HIDE DEF s
  <2>3. /\ page' \in [Tab -> Gate \cup Dash] /\ session' \in [Tab -> Session \cup {None}]
        /\ carried' \in [Tab -> Token \cup {None}] /\ keyOf' \in [Tab -> Account \cup {None}]
        /\ page'[t] = "mounting" /\ session'[t] = s /\ keyOf'[t] = None
        /\ carried'[t] = None
        /\ \A u \in Tab \ {t} : /\ page'[u] = page[u] /\ session'[u] = session[u]
                                /\ carried'[u] = carried[u] /\ keyOf'[u] = keyOf[u]
    BY <2>1, SetSessionTypes DEF Dash
  <2>4. s.token = stored /\ s.restored = TRUE
    BY DEF s
  <2>5. SITypeOK'
    BY <2>2, <2>3 DEF SITypeOK
  <2>6. Owned'
    BY <2>1, <2>2, <2>3, <2>4, NoneAssumption DEF Owned
  <2>7. PagesStaged'
    BY <2>1, <2>2, <2>3, <2>4, NoneAssumption DEF PagesStaged, Dash
  <2>8. OneToken'
    BY <2>2, <2>3, <2>4 DEF OneToken
  <2>9. SignedByItsAccount'
    BY <2>2, <2>3, <2>4 DEF SignedByItsAccount
  <2>10. QED
    BY <2>5, <2>6, <2>7, <2>8, <2>9
<1>3. QED
  BY <1>1, <1>2

(* A page without a session is in no trouble.                              *)
LEMMA DropKeepsSIInv ==
  ASSUME SIInv, NEW t \in Tab, Reload(t) \/ SignedOut(t)
  PROVE  SIInv'
<1> USE DEF SIInv
<1>1. PICK step \in {"loading", "restoring"} : SetSession(t, None, step)
  BY DEF Reload, SignedOut
<1>2. /\ page' \in [Tab -> Gate \cup Dash] /\ session' \in [Tab -> Session \cup {None}]
      /\ carried' \in [Tab -> Token \cup {None}] /\ keyOf' \in [Tab -> Account \cup {None}]
      /\ page'[t] = step /\ session'[t] = None /\ keyOf'[t] = None /\ carried'[t] = None
      /\ \A u \in Tab \ {t} : /\ page'[u] = page[u] /\ session'[u] = session[u]
                              /\ carried'[u] = carried[u] /\ keyOf'[u] = keyOf[u]
  BY <1>1, SetSessionTypes DEF Gate
<1>3. /\ UNCHANGED <<stored, owner, users>>
      /\ wallet' \in Account \cup {None} /\ account' \in [Tab -> Account \cup {None}]
      /\ loaded' \in [Tab -> BOOLEAN] /\ modal' \in [Tab -> BOOLEAN]
      /\ as' \in [Tab -> Account \cup {None}] /\ signer' \in [Tab -> Account \cup {None}]
      /\ \A u \in Tab \ {t} : signer'[u] = signer[u]
  BY DEF Reload, SignedOut, Forget, SITypeOK, gateway, signing
<1>4. SITypeOK'
  BY <1>2, <1>3 DEF SITypeOK
<1>5. Owned' /\ OneToken' /\ SignedByItsAccount'
  BY <1>2, <1>3 DEF Owned, OneToken, SignedByItsAccount
<1>6. PagesStaged'
  BY <1>2, <1>3 DEF PagesStaged, Dash
<1>7. QED
  BY <1>4, <1>5, <1>6

(* A fresh token is nobody's: no page, call or store holds it.             *)
LEMMA FreshIsUnused ==
  ASSUME SIInv, owner[Fresh] = None
  PROVE  /\ Fresh \in Token /\ stored # Fresh
         /\ \A u \in Tab : carried[u] # Fresh
         /\ \A u \in Tab : session[u] # None => session[u].token # Fresh
<1>1. Fresh \in Token
  <2>1. CASE \E k \in Token : owner[k] = None
    BY <2>1 DEF Fresh
  <2>2. CASE ~\E k \in Token : owner[k] = None
    BY <2>2, TokenAssumption DEF Fresh
  <2>3. QED
    BY <2>1, <2>2
<1>2. Fresh # None /\ None \notin Account
  BY <1>1, NoneAssumption
<1> HIDE DEF Fresh
<1>3. QED
  BY <1>1, <1>2 DEF SIInv, Owned

LEMMA UnlockKeepsSIInv ==
  ASSUME SIInv, NEW t \in Tab, Unlock(t)
  PROVE  SIInv'
<1> USE DEF SIInv
<1>1. /\ UNCHANGED <<wallet, users, loaded, account, modal>>
      /\ as' \in [Tab -> Account \cup {None}] /\ signer' \in [Tab -> Account \cup {None}]
      /\ \A u \in Tab \ {t} : signer'[u] = signer[u]
  BY DEF Unlock, Forget, SITypeOK, selector
<1>2. CASE Goto(t, "idle") /\ UNCHANGED <<owner, stored, dashboard>>
  <2>1. SITypeOK' /\ UNCHANGED <<owner, stored, session, carried, keyOf>>
    BY <1>1, <1>2 DEF SITypeOK, Goto, Gate, dashboard
  <2>2. PagesStaged'
    BY <1>1, <1>2, <2>1 DEF PagesStaged, Goto, Dash, SITypeOK
  <2>3. QED
    BY <2>1, <2>2 DEF Owned, OneToken, SignedByItsAccount
<1>3. CASE ~(Goto(t, "idle") /\ UNCHANGED <<owner, stored, dashboard>>)
  <2>1. /\ owner[Fresh] = None /\ as[t] = signer[t] /\ signer[t] \in Account
        /\ owner' = [owner EXCEPT ![Fresh] = signer[t]]
        /\ \/ /\ stored' = Fresh
              /\ SetSession(t, [account |-> as[t], token |-> Fresh, restored |-> FALSE], "mounting")
           \/ Goto(t, "idle") /\ UNCHANGED <<stored, dashboard>>
    BY <1>3 DEF PagesStaged, Unlock, Unlocks, SignedInAs, From
  <2> DEFINE k == Fresh
             s == [account |-> as[t], token |-> k, restored |-> FALSE]
  <2>2. /\ k \in Token /\ stored # k
        /\ \A u \in Tab : carried[u] # k
        /\ \A u \in Tab : session[u] # None => session[u].token # k
    BY <2>1, FreshIsUnused
  <2>3. /\ owner'[k] = signer[t] /\ owner' \in [Token -> Account \cup {None}]
        /\ \A l : l # k /\ l \in Token => owner'[l] = owner[l]
    BY <2>1, <2>2 DEF SITypeOK
  <2>4. /\ stored # None => stored \in Token /\ owner'[stored] = owner[stored]
        /\ \A u \in Tab : carried[u] # None => owner'[carried[u]] = owner[carried[u]]
        /\ \A u \in Tab : session[u] # None => owner'[session[u].token] = owner[session[u].token]
    BY <2>2, <2>3 DEF SITypeOK, Session
  <2>5. k # None /\ s \in Session /\ s # None /\ s.token = k /\ s.account = signer[t] /\ ~s.restored
    <3>1. s \in Session
      BY <2>1, <2>2 DEF Session
    <3>2. s # None /\ k # None
      BY <3>1, <2>2, NoneAssumption
    <3>3. QED
      BY <3>1, <3>2, <2>1
  <2>6. CASE Goto(t, "idle") /\ UNCHANGED <<stored, dashboard>>
    <3>1. SITypeOK' /\ UNCHANGED <<stored, session, carried, keyOf>>
      BY <1>1, <2>3, <2>6 DEF SITypeOK, Goto, Gate, dashboard
    <3>2. PagesStaged'
      BY <1>1, <2>6, <3>1 DEF PagesStaged, Goto, Dash, SITypeOK
    <3>3. Owned'
      BY <2>4, <3>1 DEF Owned
    <3>4. OneToken' /\ SignedByItsAccount'
      BY <2>4, <3>1 DEF OneToken, SignedByItsAccount, PagesStaged
    <3>5. QED
      BY <3>1, <3>2, <3>3, <3>4
  <2>7. CASE stored' = k /\ SetSession(t, s, "mounting")
    <3> HIDE DEF k, s
    <3>1. /\ page' \in [Tab -> Gate \cup Dash] /\ session' \in [Tab -> Session \cup {None}]
          /\ carried' \in [Tab -> Token \cup {None}] /\ keyOf' \in [Tab -> Account \cup {None}]
          /\ page'[t] = "mounting" /\ session'[t] = s /\ keyOf'[t] = None /\ carried'[t] = None
          /\ \A u \in Tab \ {t} : /\ page'[u] = page[u] /\ session'[u] = session[u]
                                  /\ carried'[u] = carried[u] /\ keyOf'[u] = keyOf[u]
      BY <2>5, <2>7, SetSessionTypes DEF Dash
    <3>2. SITypeOK'
      BY <1>1, <2>2, <2>3, <2>7, <3>1 DEF SITypeOK
    <3>3. Owned'
      BY <2>1, <2>3, <2>4, <2>5, <2>7, <3>1 DEF Owned
    <3>4. PagesStaged'
      BY <1>1, <2>5, <2>7, <3>1 DEF PagesStaged, Dash
    <3>5. OneToken'
      BY <2>2, <2>5, <2>7, <3>1 DEF OneToken
    <3>6. SignedByItsAccount'
      BY <2>3, <2>4, <2>5, <3>1 DEF SignedByItsAccount
    <3>7. QED
      BY <3>2, <3>3, <3>4, <3>5, <3>6
  <2>8. QED
    BY <2>1, <2>6, <2>7
<1>4. QED
  BY <1>2, <1>3

(* The account of the call a page awaits.                                  *)
LEMMA CallerType ==
  ASSUME SIInv, NEW t \in Tab, page[t] \in {"checking", "registering"}
  PROVE  /\ Caller(t) \in Account /\ session[t] # None
         /\ stored = session[t].token => Caller(t) = owner[stored]
  BY DEF SIInv, Owned, PagesStaged, OneToken, Caller, Dash

LEMMA AnsweredKeepsSIInv ==
  ASSUME SIInv, NEW t \in Tab, CheckProfile(t) \/ Registered(t)
  PROVE  SIInv'
<1> USE DEF SIInv
<1>1. /\ Caller(t) \in Account /\ session[t] # None
      /\ stored = session[t].token => Caller(t) = owner[stored]
  BY CallerType DEF CheckProfile, Registered, From
<1> HIDE DEF Caller
<1>2. /\ UNCHANGED <<wallet, stored, owner, loaded, account, modal, as, signer, session>>
      /\ carried' = [carried EXCEPT ![t] = None]
      /\ keyOf' = keyOf \/ keyOf' = [keyOf EXCEPT ![t] = Caller(t)]
      /\ users' \subseteq Account
      /\ page[t] \in Dash /\ \E step \in {"open", "wizard", "provisioned"} : page' = [page EXCEPT ![t] = step]
  BY <1>1 DEF CheckProfile, Registered, SITypeOK, From, Goto, Dash, gateway, selector, signing
<1>3. SITypeOK'
  BY <1>1, <1>2 DEF SITypeOK, Dash
<1>4. Owned' /\ SignedByItsAccount'
  BY <1>2 DEF Owned, SignedByItsAccount, SITypeOK
<1>5. PagesStaged'
  BY <1>2 DEF PagesStaged, SITypeOK, Dash
<1>6. OneToken'
  BY <1>1, <1>2 DEF OneToken, SITypeOK
<1>7. QED
  BY <1>3, <1>4, <1>5, <1>6

(* A call carries the token that is stored when it is sent.                *)
LEMMA SentKeepsSIInv ==
  ASSUME SIInv, NEW t \in Tab, Mounted(t) \/ Allocated(t)
  PROVE  SIInv'
<1> USE DEF SIInv
<1>1. /\ UNCHANGED <<wallet, stored, owner, users, loaded, account, modal, as, signer, session, keyOf>>
      /\ carried' = [carried EXCEPT ![t] = stored]
      /\ \E step \in {"checking", "registering"} : page' = [page EXCEPT ![t] = step]
      /\ session[t] # None /\ stored # None
  BY DEF Mounted, Allocated, PagesStaged, From, Goto, Dash, gateway, selector, signing
<1>2. SITypeOK'
  BY <1>1 DEF SITypeOK, Dash
<1>3. Owned' /\ OneToken' /\ SignedByItsAccount'
  BY <1>1 DEF Owned, OneToken, SignedByItsAccount, SITypeOK
<1>4. PagesStaged'
  BY <1>1 DEF PagesStaged, SITypeOK
<1>5. QED
  BY <1>2, <1>3, <1>4

LEMMA NextSIInv == SIInv /\ [SINext]_SIvars => SIInv'
<1> SUFFICES ASSUME SIInv, [SINext]_SIvars PROVE SIInv'
  OBVIOUS
<1>1. CASE SINext
  <2>1. PICK t \in Tab : \/ Leisure(t) \/ Restore(t) \/ Unlock(t) \/ Reload(t) \/ SignedOut(t)
                         \/ CheckProfile(t) \/ Registered(t) \/ Mounted(t) \/ Allocated(t)
    BY <1>1 DEF SINext, PageStep, Leisure
  <2>2. QED
    BY <2>1, LeisureKeepsSIInv, RestoreKeepsSIInv, UnlockKeepsSIInv, DropKeepsSIInv,
       AnsweredKeepsSIInv, SentKeepsSIInv
<1>2. CASE UNCHANGED SIvars
  BY <1>2 DEF SIvars, SIInv, SITypeOK, Owned, PagesStaged, OneToken, SignedByItsAccount
<1>3. QED
  BY <1>1, <1>2

LEMMA SIInvariance == SISpec => []SIInv
  BY InitSIInv, NextSIInv, PTL DEF SISpec

(* Every tab's page, session and calls are well typed, for any number of   *)
(* tabs, accounts and tokens; the account a reply is for is always known.  *)
THEOREM SignInTypeCorrect == SISpec => []SITypeOK
<1>1. SIInv => SITypeOK
  BY DEF SIInv
<1>2. QED
  BY <1>1, SIInvariance, PTL

(* A session made by connecting holds a token its own account signed for,  *)
(* however the wallet's account changes between the awaits.                *)
THEOREM SessionsAreSigned == SISpec => []SignedByItsAccount
<1>1. SIInv => SignedByItsAccount
  BY DEF SIInv
<1>2. QED
  BY <1>1, SIInvariance, PTL

(* A page whose own token is the stored one shows its account's API key,   *)
(* whatever the other tabs did before and whenever its calls are answered. *)
THEOREM PagesShowTheirKeys == SISpec => []ShowsItsOwnKey
<1>1. SIInv => ShowsItsOwnKey
  BY DEF SIInv, OneToken, ShowsItsOwnKey
<1>2. QED
  BY <1>1, SIInvariance, PTL
=============================================================================
