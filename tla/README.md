# AI passports: TLA+ verification

Specifications, TLC models and TLAPS proofs for the AI passports repository
(`src/`): a Cloudflare worker (`gateway/`), an agent that runs in a trusted
execution environment (`agent/`), and a dashboard (`frontend/`). Paths and
line numbers below refer to `src/`.

## 1. The system

A user owns a *vault* of wiki pages and skills. The agent encrypts an entry
and stores the ciphertext (a *blob*) on Walrus; the gateway keeps the
*pointer* to it (blob id and SHA-256 of the plaintext) in the D1 table
`pointers`. Users sign in with a NEAR key. Teams share a vault under roles.

| Component | State | Operations | Talks to |
|---|---|---|---|
| Challenges and sessions (`gateway/src/index.ts:515-850`) | `CHALLENGES_KV`, `SESSIONS_KV` | issue a nonce, unlock (personal and team), log out, look a session up | KV, the NEAR RPC, D1 (team membership) |
| Team registry (`index.ts:850-1018`, `schema.sql`) | `teams`, `team_members` | create, add, update, remove, list members | D1 |
| Users, keys, plans, metering (`index.ts:405-440`, `1180-1290`) | `users` | register, rotate the API key, subscribe, check the quota, meter a write | D1, the agent |
| Pointers (`index.ts:1020-1180`) | `pointers` | set, get, list, remove | D1 |
| Agent service (`main.rs`) | `AppState`: secret, keys, key manager | start up, authenticate, validate, serve | gateway, Walrus, LLM providers |
| MCP endpoint (`index.ts:240-505`, `dispatcher.ts`, `tools.ts`) | none of its own | authenticate, check tenant and team, route a tool call, mint a capability | all of the above, the agent |
| Capability tokens (`capability.ts`, `capability.rs`) | none; TTL 120 s, leeway 5 s | mint, verify | gateway to agent |
| Vault writer and reader (`vault_writer.rs`, `vault_reader.rs`) | blobs on Walrus | encrypt and publish, download, decrypt and compare | Walrus |
| Master secret (`key_derivation.rs`) | a file, or the sealed key | create, load, derive keys | disk |
| Skill execution and firewall (`skill_executor.rs`, `zdr_firewall.rs`) | none | decrypt a skill, check the egress, call the LLM | reader, LLM providers |
| Team vault (`team_handlers.ts`, `team_key_manager.rs`, `main.rs:704-947`) | cached team keys | create, members, write, read | gateway, Walrus |
| Wiki and skill hooks (`frontend/src/hooks`) | React state, locks, abort controllers | list, select, save, delete, execute, reset | pointers, MCP |
| Wallet and sign-in (`wallet.ts`, `AuthGate`, `App.tsx`, `Dashboard`) | React state, the wallet selector, the token in `localStorage` | restore, connect, sign, unlock, check the profile, register, lock | wallet, gateway |

What makes it hard:

* every gateway route is a chain of awaited statements, and a worker runs any
  number of requests at once; D1 statements are atomic, routes are not;
* any call may fail, before or after it took effect, and clients go away
  between the calls of a chain (upload, then point);
* KV entries expire on their own clock, next to an `expiresAt` in the value;
* Walrus is not trusted: it may lose blobs or serve other bytes;
* writer and readers derive the same key independently;
* the dashboard's operations overlap, abort each other and share one state;
* tabs share `localStorage`, and the wallet may change its account meanwhile;
* what a client gave up goes on behind the gateway: an aborted fetch stops
  neither the agent nor the model provider;
* gateway and agent judge a capability token by two clocks;
* the agent may be killed at any step, also while it makes the secret that
  everything else is derived from.

What each component has to guarantee is in section 3, next to the module that
says it. `PROJECT.json` lists every component and every hazard at its line.

## 2. Layout

| Module | Models | Model-checked by | Proved in |
|---|---|---|---|
| `TeamRegistry` | the five `/api/team` routes | `MCTeamRegistry` | `TeamRegistryProofs` |
| `AuthSession` | challenges, unlocks, sessions | `MCAuthSession` | `AuthSessionProofs` |
| `UserAccounts` | registration, keys, plans, metering | `MCUserAccounts` | `UserAccountsProofs` |
| `VaultRegister` | what the vault promises its clients | through `VaultStore` | through `VaultStoreProofs` |
| `VaultStore` | write, point, look up, read, execute, remove | `MCVaultStore` | `VaultStoreProofs` |
| `WikiEditor` | the dashboard's wiki hook under its buttons | `MCWikiEditor` | `WikiEditorProofs` |
| `AgentCall` | one tool call, through the gateway and the agent | `MCAgentCall` | `AgentCallProofs` |
| `EgressFirewall` | the firewall's destinations, scan and injection, and the console's scan, as operators | through `SkillRun` | `DashboardProofs` |
| `SkillRun` | skill executions: console and other clients, gateway, agent, provider | `MCSkillRun` | `DashboardProofs` |
| `MasterSecret` | the agent's start, crashes and the team vault's lock and keys | `MCMasterSecret` | `MasterSecretProofs` |
| `SignIn` | `App`, `AuthGate`, the wallet and `Dashboard` in several tabs | `MCSignIn` | `DashboardProofs` |

The gateway's modules share one shape. `at[r]` is the await request `r` is in and
`req[r]` what its handler holds in local variables; one action is the code
from one await to the next, so it contains at most one effect on shared
state. The early returns are the `Reply` branches. `Accept` (or `StartX`) is the
arrival of a well-formed request; rejected bodies change nothing and are left
out. `StatementFails`, `Fails` and `CallFails` are the error paths. Where a
call can take effect and its answer be lost, the action has both outcomes.

Definitions marked "Mutant" are faulty variants of the definition they
precede. No specification uses them; they show that the property they are
paired with in `PROJECT.json` would notice that fault.

`SkillRun` and `SignIn` are both of the dashboard and share a module of proofs;
the names of `SignIn` that would collide there have the prefix `SI` (`SIInit`, `SISpec`, `SITypeOK`).

The components meet in few places, and each module says what it assumes of
the others. A request's account in `TeamRegistry` and `UserAccounts` is the
one `AuthSession` authorised (or the owner of an API key, which `UserAccounts`
looks up itself). The membership query of a team unlock may answer either way
in `AuthSession`. `UserAccounts` sees a vault write as a size or an error, and
`VaultStore` says what was stored. `WikiEditor` sees each page as the text its
pointer leads to, which is what `VaultRegister` promises, and leaves the blobs
and the other clients to `VaultStore`. `AgentCall` follows one call: calls share
only the clock and the tables, so the other requests are `RosterChanges`, a
stand-in for the whole of `TeamRegistry`, and the quota may answer either way
as `UserAccounts` explains. `SkillRun` lets a configuration decrypt or not,
which `VaultStore` decides; the gateway's own checks are those of `AgentCall`.
`MasterSecret` has the agent's side of what `VaultStore` takes for granted, that
writer and reader derive from one secret. `SignIn` sees the gateway as tokens
with the account that signed for them and a set of registered accounts, which
`AuthSession` and `UserAccounts` model.

## 3. Modules and properties

### TeamRegistry

State: `creator` and `member`, the two tables. `CreateInsert` is the atomic
batch of two INSERTs, which the primary key of `teams` rejects as a whole
when another create came first. `remove_member` awaits three statements
(target's role, count of admins, DELETE) and `update_permission` two.

* `RosterHasTeam` (proved, not in a run): a membership row always has its team.
* `OneCreate`: of racing creates of a team one is answered success, and the
  team is that account's.
* `EntersByInvitation`: an account enters a roster as the creator of a new
  team or by an `add_member` that names it; an UPDATE that overtakes a
  removal does not bring the member back.
* `OrphanIsForever` (proved, not in a run): once a team has no admin and no
  admitted request is in flight, its roster never changes again. This is the
  price of the two disagreements below.
* `RemoveKeepsAnAdmin` (refuted): two removals overlap, each counts two
  admins, both delete.
* `TeamHasAdmin` (refuted): the only admin demotes itself, by
  `update_permission` or by adding itself with a lower permission.

### AuthSession

State: the two KV namespaces as an entry per nonce and per session id with the
time until which KV shows it (`nonceUntil`, `sessionUntil`; 0 once deleted),
and a clock. `loggedOut` and the nonce inside a session record are history
kept for properties. KV is taken to be consistent: a read sees every
completed put and delete. Cloudflare promises that only within a location, so
the properties hold under that assumption and the violation does not need more.

* `EverySessionSpentAChallenge`: each session spent a challenge that was
  issued in its own scope (a team's, or the personal one) and that nobody can
  read again, whatever failed after the delete.
* `ReplayNeedsOverlap`: one nonce makes at most as many sessions as there are
  requests in flight at once.
* `AuthorisedOnlyLive`: a lookup authorises only a session that is not logged
  out and is within its lifetime. KV alone would keep it longer, since its TTL
  counts from the put and `expiresAt` from before it.
* `ChallengeSingleUse` (refuted): the challenge is read (`index.ts:547`) and
  deleted (`index.ts:551`) in two awaits, and two unlocks that overlap both
  read it; `docs/IDENTITY.md:91` says challenges are single-use.

### UserAccounts

State: the `users` rows (key, plan, metered bytes), and as history the keys
drawn and retired, the bytes stored and the bytes that were never metered.
Registration is a SELECT and an INSERT that the primary key guards; the key
rotation and the plan change are one UPDATE each, which does nothing for an
account without a row. `vault_write` checks the quota before the agent call,
meters after it, and lets the write through when the check itself fails.

* `RowsSurvive`: overlapping registrations never reset a row; usage never
  drops; a key changes only by a rotation of its account.
* `RetiredKeysStayDead`: a rotated key opens no account again, and no key
  opens two.
* `UsageAccountsForStorage`: stored bytes are metered, about to be, or lost
  with an answer or a failing UPDATE; concurrent meterings lose nothing.
* `OvershootIsBounded`: while D1 answers, usage exceeds the limit by less
  than one largest blob per request in flight.
* `IssuedKeyWorks` (refuted): an account that signed in but never registered
  is answered a key that no row holds.

### VaultStore and VaultRegister

`VaultStore` has the blobs (`walrus`: what was encrypted, under which key),
the `pointers` table, and clients that run chains of calls: `save` (upload,
set the pointer), `write` (the MCP tool alone), `open` (look up, fetch),
`read` (fetch with a pair an earlier write returned), `remove`, and `execute` (a skill). Encryption is
modelled by what it guarantees: decrypting succeeds exactly with the key the
blob was made with. With `WalrusFaithful = FALSE` a download returns the bytes
of any blob, or garbage. A SHA-256 stands for its plaintext. The route that sets a
pointer takes any blob id and hash from its client; the clients modelled send
those their upload was answered.

`VaultRegister` is the promise: each slot (account, entry type, identifier) is
a register with a current text, last writer wins; only a text published in the
slot becomes current; a read returns the version it asked for, or an error.

* `PointersResolve`: every pointer, in the table or in a client's hands, names
  a stored blob which decrypts under the slot's own key to the text of its
  hash. A save that stops half-way leaves the old entry readable.
* `ImplementsRegister`: `VaultStore` implements `VaultRegister`. The mapping
  takes the hash in the pointer as the value of a slot, the texts encrypted
  under its key as published, and a request in its fetch as asking.
* `StoredEntriesDecrypt` (violated, with Walrus faithful): a skill is written
  under the key of its identifier (`vault_writer.rs:143`) and executed with a
  key derived from its blob id (`skill_executor.rs:155`), so its decryption
  fails.

### WikiEditor

State: `state` is the record of `useState` in `useWiki.ts` (`saved` and
`pointer` also carry the page they belong to), `saving` is `savingRef`, `page`
is what the gateway's pointers lead to, and `call` the operations in flight,
each with the call it awaits and the local variables it will use. The actions
are the clicks that `WikiPanel.tsx` enables in a state, the gateway serving a
call, and the code that runs when an answer arrives. `abortRef` is not a
variable: each select and save aborts the controller of the previous one, so
it is that of the only one not aborted. A fetch that has the signal
(`vaultRead`, `vaultWrite`) rejects at the abort; the pointer calls do not have
it, and the operation looks at the signal when they are answered. Listings and
deletions are never aborted, and all operations share one `status`.

* `OneSave`: one save at a time, and the lock is held exactly during it. The
  disabled button does not ensure this: a deletion or listing answered during
  a save makes the panel idle, and an aborted save can still be setting its
  pointer when the next one is clicked.
* `EditorOwnsVersions`: the pointer and the saved text of an open editor are of
  the page it shows. Answers of operations that were overtaken stay out.
* `Settles`: when the user stops, the panel does not stay busy and the lock is
  free.
* `SavedIsPersisted` (refuted): an idle editor's `savedContent` is what its
  pointer leads to. A deletion is clicked, another page is selected (the
  sidebar is not disabled), its pointer is found, and the deletion's answer
  sets the status to idle: the page appears empty, and editable, until the
  plaintext arrives and replaces what was typed. The same assignment closes a
  draft that was started meanwhile (`isNewPage: false`).

### AgentCall

State: the two deployments' keys and the skew of their clocks (`conf`), the
caller's roster row, the await of the call (`at`), its tool and arguments
(`req`), the route (`dest`), the capability (`token`), what the agent made of
the request (`verdict`), what did not get through (`lost`: the fetch, or the
body of its answer) and what the caller was told (`answer`). `entitled` and
`got` are history. An argument is the caller's account, another one, missing or
empty where code tells these apart; all others are of the wrong type, refused
by the agent's validators, or fit. A handler's body and the DTO it meets are
sets of field names (`Sends`, `Requires`). A token cannot be forged, and is
checked in the order of the code: signature, expiry, issue date, subject.

* `ActsForItsCaller`: whatever the arguments say or leave out, and whether or
  not tokens are in use, the agent acts for nobody but the session's account.
* `ForwardedWithPermission`: a team request leaves only if its account had a
  permission the tool needs at some moment of this call; three checks read
  the roster, which other requests change between them.
* `PromptTokenAccepted`, `LateTokenRefused`: with clocks within the leeway, a
  token is turned away only if it travelled for longer than its life, and none
  is accepted beyond its life and twice the leeway.
* `AnswerIsTrue`: success is answered only for what the agent did, and as data
  only when its answer was read; a block only when the firewall blocked the
  skill or an error quotes its codes. What was done is answered otherwise, and a
  block is taken for another failure, only if the fetch failed or the body was
  lost. `handleZdrCheck` answers a block as a result and not as an error
  (`zdrBlocked: true`, `AuditBlock`), which it finds in the text of the error, so
  a provider's or a parser's error that quotes the codes is answered the same
  ("quoting"). `callShadeAgent` keeps a success whose body it cannot read
  (`BodyLost`): the caller is told success without blob id or text, and a write
  is not metered (`okNoData`).
* `TeamToolsServed` (violated): the agent refuses every team tool for the form
  of the request (section 6).

### SkillRun

`EgressFirewall` has no state. A text is a sequence of glyphs: what a reader
takes each for (a word, a blank or underscore, or nothing, being unseen), and
whether it is written in ASCII, in characters that NFKC maps to ASCII, or in
foreign look-alikes. The stages of `scan_sensitive_keywords` are operators on
these (`Kept`, `Nfkc`, `Suspicious`, `Between`, `Contains`), and so is the
console's plain search (`detectZdrViolation`). What a reader sees in a text is
said without them (`Spells`). Words are glyphs, so a marker inside a longer word
and one split by a letter are not told apart from other words, and neither
scan minds case. A URL is its scheme, its host, where its path stands to the
listed one, and whether it is spelled as in the list; `Understood` is the
instruction that `FIREWALL.md:39-41` has for each provider.

`SkillRun`'s state: the console (`prompt`, `status`, `lock` for `inFlightRef`,
whose answer is shown), and each run behind it: its stage, its prompt and skill
until the agent has answered, the agent's answer, what a provider was `sent`,
the audit `logs`. Clear Output and leaving the tab abort the fetch; the run goes
on. Other MCP clients call `zdr_check` with any prompt (`CallDirectly`), which no
console has looked at. What the console's own form saves lacks fields which the
agent's struct requires and does not parse, and the parser's error may repeat
what it found. So may the agent's error for a blob id, which counts here as
such a configuration when it quotes a code.

* `EgressIsClean`: no text that spells a marker to its reader leaves for a
  provider, in whatever characters, be it typed, sent by another client or
  stored. The scan reads a normalised copy, and the text goes out as it was
  written: that the scan refuses all that a reader would recognise is a fact
  about its stages (`ScanIsSound`), and that it sees every string about the run.
* `ProvidersKeepNothing`: what leaves goes to one of the three providers over
  TLS, with the instruction that this one understands. The destination is
  verified by one chain of conditions and the instruction chosen by another,
  whose last branch takes what is left for Vertex AI.
* `BlockMeansUnsent`: a block that is shown or logged is of a run that sent
  nothing. The exception is a text quoting the firewall's codes, which a
  provider's error message may repeat: the gateway looks for them anywhere
  in the message (`dispatcher.ts:301-303`).
* `LoggedMeansUnsent` (refuted): the same of the audit log, without the exception.
* `LockIsExecution`: the lock is the execution shown, and one run at most is
  awaited. `reset` aborts and frees the lock, and the `finally` of the aborted
  run would free it once more, under the next run; the hook does not prevent
  this, but the console offers `reset` only when nothing is executing.
* `ExecutionEnds`: neither the console nor a run behind it executes for ever.
* `NoZombieRequests` (refuted): section 6.

### MasterSecret

State: `sealed` (the environment), the agent's progress (`at`, `key`), the two
files, the key cache, the queue at the manager's mutex, and the key each blob
was encrypted with. Writing the secret is seven steps, since `fs::write`
truncates a file before it fills it and `main` may be killed between any two.
A crash loses memory and keeps the files: the process dies, not the machine
(the code calls no fsync, so nothing is claimed for a power failure), and one
process runs on a `.secret` directory, as in `agent/docker-compose.yml`.

* `FileIsWhole`: the secret's file is absent or whole, wherever writing it was
  cut off. `load_master_secret` checks no more than its length.
* `BlobsOutliveRestarts`: every blob was encrypted under the secret the agent
  serves with, across any restarts.
* `ReadsOwnTeam`: a team's entry decrypts exactly under its own team, whatever
  the cache holds.
* `LockIsPassedOn`: a request that waits for the key manager gets it and is
  answered, unless the agent goes down; a call to Walrus runs under the lock
  and may fail.

### SignIn

State: what tabs share (the wallet's account and the token in `localStorage`),
the gateway's tokens and users, and per tab the page and what its chain of
awaits holds. `page` merges what the code keeps apart only to show it: an error
and the idle state of `AuthGate`, a failed onboarding and the wizard. A token
that expired is a refused call, which any call may be.

* `SignedByItsAccount`: a session that was not restored holds a token its own
  account signed for, whatever account was connected while `handleConnect`
  waited. A restored one need not (section 6).
* `ShowsItsOwnKey`: a page whose token is its own account's displays no other
  account's API key, while no other tab has signed in over it. Every call of
  the page carries the token stored when it is sent.
* `NothingHangs`: no await lasts for ever; only the wallet's signature prompt
  and the user's clicks are waited for without a limit.


## 4. Runs

| Run | Instance | What it shows |
|---|---|---|
| `team_registry` | 3 accounts, 1 team, 2 requests, all routes | every pair of overlapping routes, the types and two properties |
| `auth_session` | 1 account, 1 team, 2 nonces, 3 sessions, 2 requests, TTLs of 1, clock to 2 | unlocks, logouts, lookups and expiry overlap |
| `user_accounts` | 2 accounts, 3 keys, 2 requests, blobs of 1, 2 bytes stored at most, D1 may fail | registrations, rotations, plans and writes overlap |
| `user_accounts_quota` | 1 account, 3 requests, blobs of 1 and 2, limits 1 and 2, D1 answers | three writers pass the quota check together |
| `vault_store` | 1 account, 1 identifier, both entry types, 2 texts, 3 blobs, 2 clients, Walrus unfaithful | saves, reads and removals overlap, any call fails, any bytes are served |
| `vault_store_skill` | 1 text, 1 blob, 1 client, Walrus faithful | a saved skill does not execute (violated) |
| `wiki_editor` | 2 pages, the empty and another text, 3 operations at once, 5 clicks | clicks overtake answers; the types, two invariants and coming to rest |
| `agent_call` | every tool with every mix of arguments; both signing keys present or missing; a wrong API key; skews from -2 to 2; TTL and leeway 1; clock to 4 | what reaches the agent, for whom, with which token, and what the caller is told |
| `agent_call_teams` | the team tools with fit arguments, clock to 2 | the agent refuses them all (violated) |
| `skill_run` | 2 runs, 6 skills, 3 prompts typed and 2 sent by other clients | typing, clearing and leaving while runs go on, over texts that neither, one or both scans refuse |
| `master_secret` | 3 secrets, 2 teams, 2 blobs, 2 requests | crashes at every step, restarts, two teams at one lock |
| `sign_in` | 2 tabs, 2 accounts, 2 tokens | accounts change and tabs overtake each other while calls fail |

Further configurations refute a property and are run by hand, with
`tlc -config X.cfg M`:

| Configuration | Module | Refutes |
|---|---|---|
| `TeamRegistryRemoveRace.cfg` (2 requests: create, add, remove) | `MCTeamRegistry` | `RemoveKeepsAnAdmin` |
| `TeamRegistryDemotion.cfg` (1 request) | `MCTeamRegistry` | `TeamHasAdmin` |
| `AuthSessionReplay.cfg` (1 nonce, 2 requests) | `MCAuthSession` | `ChallengeSingleUse` |
| `UserAccountsIssuedKey.cfg` (1 request) | `MCUserAccounts` | `IssuedKeyWorks` |
| `WikiEditorSaved.cfg` (2 operations, 3 clicks) | `MCWikiEditor` | `SavedIsPersisted` |
| `SkillRunZombie.cfg` (2 runs, 1 skill) | `MCSkillRun` | `NoZombieRequests` |
| `SkillRunEcho.cfg` (2 runs, 1 skill) | `MCSkillRun` | `LoggedMeansUnsent` |

Bounds. Two requests suffice for the races of this code, which are all between
one statement of a route and one of another; the quota run has three because
its bound grows with their number. Three accounts are a requester, another
admin and a third party; roster rows of different teams do not interact.
Three sessions are one more than two requests can mint from one nonce without
a replay. The clock reaches the tick after both TTLs. Two texts and three
blobs let a slot be written, overwritten and written again under another
type. Three operations are a save or a select, one that it aborted and a
deletion or listing; five clicks are enough to open a page, edit it, save
it, leave it during the save and try to save again. `AgentCall` has skews
below, at and above the leeway either way, and its clock passes the last moment
a token is accepted. The six skills are one for each provider, one of them
quoting a code and one with the words of a marker apart, one whose system prompt
spells a marker in fullwidth letters around a zero-width space, one whose URL
continues a listed one, and one that does not parse. Of the prompts one has the
words of a marker apart, one has a marker that both scans know, which the
console stops and another client sends, and one has a tab in a marker, which
only the agent finds. The theorem covers all other texts. Two runs are an
abandoned one and the next. Three secrets let a start fail twice before one is kept. Two tabs
and two tokens are a sign-in and one that overtakes it. `MaxClicks`,
`MaxStored` (bytes per account), `MaxTime` and the finite sets of keys, nonces,
sessions, blobs, tokens, secrets and runs are the only bounds on growth. Deadlock
is checked in every run but `wiki_editor`: the user there may stop clicking
(and does, after `MaxClicks`), while elsewhere a new request, a retype, a
restart or a reload always remains possible.

Symmetry is used for sets of model values that no definition singles out;
`AuthSession` does not permute its account, team and scope, and a run with a
liveness property uses none.

Fairness. All of it is weak, of the steps that follow once an await settles,
and never of the user or of the success of a call.

* `WikiEditor`, per operation: a browser's fetch settles, with an answer or an
  error, and the code after it then runs to the next await.
* `SkillRun`, per run: the agent's client to the providers times out after 30
  seconds, and the Worker answers. `ConnectionLost` is owed to nobody.
* `MasterSecret`, per request: a tokio mutex is passed on in the order of
  arrival, and the clients to Walrus have timeouts. A restart is not owed, and
  neither is that there is no crash.
* `SignIn`, per tab: requests, imports and timers settle. The fetches of
  `AuthGate` have no timeout of their own, so this is the browser's.

The gateway's modules and `AgentCall` claim no liveness and assume no
fairness: a worker's request may stop for ever at any await.

## 5. Proofs

All theorems hold for any accounts, teams, keys, blobs, texts, nonces,
sessions, tokens, tabs, runs and numbers of requests in flight, under the
modules' named assumptions: `Nil` (or `None`) is no value of its sets, requests
and accounts are finite sets where they are counted, limits and sizes are
positive, and no identifier is a blob id. Blob ids are made by Walrus from the
ciphertext, so nobody can name an entry after the blob it will be in.

Each module of proofs has one inductive invariant `IInv` (`SIInv` for `SignIn`),
a lemma per action that keeps it, and `Invariance`, which the theorems cite.
What a theorem needs beyond it is an invariant of its own, proved from `IInv`
in the same way.

* `TeamRegistryProofs`: `TypeCorrect`, `RosterIntegrity`,
  `CreateIsExclusive`, `InvitationOnly`, `OrphansAreFrozen`. The inductive
  invariant adds that a request past its admin check names an existing team
  (`AdminOnlyHasTeam`): without it an `add_member` could insert a row for a
  team that has none. `SerialRemoveIsSafe` proves `RemoveKeepsAnAdmin` when
  requests do not overlap: the guard is right and only the race defeats it.
  Its invariant is what the count establishes for the DELETE that follows.
  `SerialOrphansAreSelfMade` says what is left then: a team loses its last
  admin only when that admin demotes itself. A requester's admission stands
  until its own write, since nobody else's write comes between
  (`AdminStands`). `TeamHasAdmin` has these two causes and no third.
* `AuthSessionProofs`: `TypeCorrect`, `SessionsSpendChallenges`,
  `LogoutAndExpiryHold`. The invariant follows a challenge through an unlock
  (`UnlocksSpend`), says a session id is stored once, by the request that
  drew it (`DrawnOnce`), and that a stored session keeps its lifetime and a
  logout is final (`StoredFaithfully`). `ReplaysOverlap` bounds a replay: the
  sessions made from a nonce, and the requests that still hold what they read
  of it, are never more than there are requests (`UsesLeft`). Once the nonce is
  deleted nobody new can hold it, and each holder makes one session.
  `SerialUnlocksAreSingleUse` is the case of one request: `ChallengeSingleUse`
  holds when requests do not overlap.
* `UserAccountsProofs`: `TypeCorrect`, `RotationRevokes`, `RowsAreKept`,
  `OvershootBound`. Keys in the table were drawn (`KeysDrawn`), so a fresh
  one differs from all of them and from all retired ones. The overshoot bound
  assumes that D1 answers (`~D1Fails`) and rests on a budget: each request past the
  quota check holds back one largest blob, and usage plus what is held back
  stays below the bound (`SharesLeft`). `StorageIsAccounted` is about a sum over
  the requests in flight, which is stated as the number of bytes in a set
  (`UnmeteredBytes`), so that a step adds or takes away one request's slice of it.
  `KeyHoldersGetWorkingKeys` bounds what `IssuedKeyWorks` refutes: a caller
  with an API key has a row (`KeyCallersHaveRows`) and is answered a key that
  opens it, so the keys that open nothing go to sessions of accounts that have
  not registered.
* `VaultStoreProofs`: `TypeCorrect`, `PointersAlwaysResolve` and
  `StoreImplementsRegister`. Blobs never change once stored, so a pointer that
  resolves keeps resolving (`ResolvesForEver`); a request in flight has no
  answer yet (`Unanswered`). The refinement maps each action to a register
  step or a stutter. `SkillsNeverRun` says that the violation of
  `StoredEntriesDecrypt` is no accident of its instance: no execution ever
  decrypts, whatever is served. `ReadsDecrypt` says that executions are the only
  exception: with Walrus faithful, no other request is answered
  `DecryptionFailed`, whatever overlaps with it.
* `WikiEditorProofs`: `TypeCorrect`, `SavesAreExclusive` (`OneSave`) and
  `EditorShowsItsPage` (`EditorOwnsVersions`), for any number of pages, texts,
  operations and clicks. The invariant adds that an operation awaits only
  calls of its kind and that a fetch with the signal is never an aborted one
  (`JobsOK`), that at most one select or save is not aborted (`OneLive`, which
  is what `abortRef` maintains), and that the page being loaded is the
  selected one unless the editor was closed (`LoadsSelected`).
* `AgentCallProofs`: `TypeCorrect`, `TenantIsolation`, `TeamCallsArePermitted`,
  `PromptCallsPass`, `LateCallsFail`, `AnswersAreTrue`, for any token life,
  leeway and skew. The invariant says how far a call's state is determined by
  its await (`Progress`), that a team call past its check was entitled
  (`Permitted`), that a token names the subject its handler passed and was
  minted before now (`Minted`), and what each verdict implies of the token and
  the moment it was judged (`Ruled`). The two windows are arithmetic from
  `Ruled`. A call's answer is read off its verdict and what was lost with it.
  `TeamToolsNeverSucceed` and `SubjectToolsAreUnderstood` compare the
  two sides of the wire: no team tool is served in any deployment, and the
  tools that act for their account are never refused for a field or a subject.
* `DashboardProofs`, of `SkillRun`: `TypeCorrect`, `EgressPassesTheFirewall`
  (`EgressIsClean`), `ProvidersAreInstructed` (`ProvidersKeepNothing`),
  `BlocksAreTrue`, `ExecutionsAreExclusive`, for texts of any length. The first
  rests on `ScanIsSound`: whatever a reader sees as a marker either has a
  character that is rejected or is found after the normalisation. The second
  rests on `InstructionFitsProvider`, about the two chains of conditions. Neither
  can be had from the scan's own terms, since the properties are stated without
  them. The invariant adds what a run has
  sent and been answered at each stage (`RunsStaged`), and that no run is ever
  aborted by a reset (`NoneAborted`), which is why no lock is freed twice.
* `DashboardProofs`, of `SignIn`: `SignInTypeCorrect`, `SessionsAreSigned`
  (`SignedByItsAccount`) and `PagesShowTheirKeys` (`ShowsItsOwnKey`). The
  invariant says that tokens in use were drawn for an account (`Owned`), and
  what a page knows in each await (`PagesStaged`). `ShowsItsOwnKey` is about
  the present, while the key was fetched with the token stored then.
  `OneToken` connects them: a token that another tab has replaced is never
  stored again, so while a page's token is stored, all its calls carried it.
* `MasterSecretProofs`: `TypeCorrect`, `SecretIsWrittenWhole`,
  `RestartsKeepBlobs`, `TeamsAreSeparate`. The invariant says that an agent
  past loading serves with the sealed key or with what the file holds, and
  that the temporary file holds all of the key when it is renamed (`Rooted`),
  that blobs are under that secret (`Encrypted`), and that the cache and the
  lock belong to this life of the process (`Managed`).

Only model-checked: liveness (`Settles`, `ExecutionEnds`, `LockIsPassedOn`,
`NothingHangs`), which is outside TLAPS. Every other property of a passing run is
a theorem. That a property is violated or refuted is TLC's to show; the
theorems say when it holds all the same (`SerialRemoveIsSafe`,
`SerialOrphansAreSelfMade`, `SerialUnlocksAreSingleUse`, `ReplaysOverlap`,
`KeyHoldersGetWorkingKeys`, `ReadsDecrypt`) or that it never does (`SkillsNeverRun`,
`TeamToolsNeverSucceed`).

## 6. Where the code and its documents disagree

Two violation runs show one each, listed with its quotation in `PROJECT.json`:

* `StoredEntriesDecrypt`: a skill is written under one key and executed under
  another.
* `TeamToolsServed`: `tools.ts:122` offers the team tools to members with the
  permission. The team handlers send no `requestingAccountId`, and no `blobId`
  and `expectedSha256` for a read, where the DTOs of `main.rs:139-160` require
  them, and `accountId` where they require `memberAccountId`; and they pass no
  subject, so with capability binding they send no token at all.

The configurations run by hand show these:

* `RemoveKeepsAnAdmin`, `TeamHasAdmin`: `index.ts:976`, "Don't orphan the
  team", guards removals one at a time, and demotions not at all.
* `ChallengeSingleUse`: `docs/IDENTITY.md:91` says challenges are single-use.
* `IssuedKeyWorks`: `docs/simplified_arch.md:53` has the gateway issue "API keys
  scoped to user accounts"; an account without a row gets one no row holds.
* `SavedIsPersisted`: `useWiki.ts:25` calls `savedContent` the "last persisted
  content".
* `NoZombieRequests`: `useSkillExecutor.ts:33-35` says of the abort on leaving
  that there are "no zombie LLM requests". The abort ends the fetch to the gateway; the
  gateway's call to the agent and the agent's to the provider take no notice.

These need no run:

* A success of the agent whose body cannot be read is answered as success, with
  no blob id and unmetered (`dispatcher.ts:75`; `okNoData` in `AgentCall`). The
  blob is stored, and nobody knows its id.
* An admin demoted between its check and its write still changes the roster
  (`index.ts:919`), as any route of the registry acts on what it read before.
* In two tabs, a sign-in in one changes the token the other sends from then
  on: `registerUser` (`Dashboard/index.tsx:73`) then shows the other account's key
  under the first one's name. `ShowsItsOwnKey` is about pages whose own token is
  still the stored one.
* A provider's error text is cut at byte 512 (`skill_executor.rs:214`), which
  panics inside a longer character: the connection ends without an answer,
  which is `Finish(r, "failed")` to `SkillRun`.
* `docs/SYNC.md:20` lets a write succeed only after its pointer is set; the
  gateway answers `vault_write` before (`dispatcher.ts:180`) and leaves the
  pointer to the client.
* `docs/IDENTITY.md:92` names the error of a replay `CHALLENGE_ALREADY_USED`;
  the gateway answers `CHALLENGE_NOT_FOUND`, since it keeps nothing of a
  consumed challenge.
* `frontend/src/api/types.ts:13` says "No gateway session required"; the
  dashboard unlocks one and sends its token with every call.
* A wallet selector that failed to load is kept as a rejected promise
  (`wallet.ts:39`), so Connect fails until the page is reloaded.
* Lock Vault leaves the token in `localStorage`. When the account signed in
  next is only connected, a reload pairs it with the older token
  (`AuthGate/index.tsx:22-33`), and a sign-out that the wallet refuses opens the
  dashboard again at once.

## 7. Not modelled

* Request parsing and validation beyond what decides a call's way, CORS and
  rate limiting, formatting, rendering, unmounting other than the console's,
  and React's batching of state updates: they keep no state of their own.
* The signature, encryption and hash algorithms: their guarantees are used.
  NFKC and Unicode's classes are in `EgressFirewall` by their effect on a glyph.
* `TeamsPanel`, `McpSetupPanel`, `BillingPanel`, `LogsPanel` and the list state
  of `useSkills`: they show what the routes answer and update it after a
  click. The updates `TeamsPanel` makes to its own list are what would be
  worth modelling next, composed with `TeamRegistry`.
* The agent's team membership handlers and the key manager's member grants
  (`team_key_manager.rs:146-263`): no request the gateway makes reaches the
  former with the fields they require, and they answer without doing anything;
  the latter are called by tests only.
* The listing of audit logs, `initialize`, `ping` and `tools/list`, which read
  and change nothing, and the agent's HTTP plumbing.
