---------------------------- MODULE MasterSecret ----------------------------
(***************************************************************************)
(* The master secret of the agent (src/agent/src): how load_master_secret  *)
(* finds or makes it, step by step with the file system, crashes and       *)
(* restarts; the keys derived from it; and the team vault, whose requests  *)
(* queue for the one TeamKeyManager.  One process runs on a .secret        *)
(* directory at a time.                                                    *)
(***************************************************************************)
EXTENDS Naturals, Sequences

CONSTANTS
  Secret,   \* 32-byte values, each drawn once
  Team,     \* teams with entries
  Blob,     \* Walrus blobs, each stored once
  Request,  \* requests at the agent at once
  Nil       \* no secret, no file, no blob

ASSUME NilAssumption == Nil \notin Secret \cup {"short", "zeros"} /\ Secret \cap {"short", "zeros"} = {}

VARIABLES
  sealed,   \* TEE_SEALED_KEY: a key, Nil when missing or malformed; or TEE_SIMULATION
  at,       \* how far main is, "serving" once it listens
  key,      \* AppState.master_secret
  tmp,      \* the content of master_secret.bin.tmp
  file,     \* the content of master_secret.bin
  drawn,    \* secrets drawn so far
  cache,    \* team_dek_cache
  queue,    \* requests at the Mutex of the TeamKeyManager: the first holds it
  pc, req,  \* the await each team request is in, and what it asks for
  blob      \* the key each stored blob is encrypted with

vars == <<sealed, at, key, tmp, file, drawn, cache, queue, pc, req, blob>>
disk == <<tmp, file, drawn>>
manager == <<cache, queue, pc, req>>

(* What a write of the secret leaves of a file: nothing, zeros, or all.    *)
Content == Secret \cup {Nil, "short", "zeros"}
Dek == (Secret \cup {"zeros"}) \X Team
Call == [op: {"write", "read"}, team: Team, blob: Blob]
WriteSteps == <<"open", "zero", "chmod", "reopen", "fill", "rename", "config">>

TypeOK ==
  /\ sealed \in Secret \cup {Nil, "simulation"}
  /\ at \in {"down", "load", "serving"} \cup {WriteSteps[i] : i \in 1..7}
  /\ key \in Secret \cup {Nil, "zeros"} /\ tmp \in Content /\ file \in Content /\ drawn \subseteq Secret
  /\ cache \in [Team -> Dek \cup {Nil}] /\ queue \in Seq(Request)
  /\ pc \in [Request -> {"idle", "queued", "walrus", "ok", "failed"}]
  /\ req \in [Request -> Call \cup {Nil}] /\ blob \in [Blob -> Dek \cup {Nil}]

Idle == /\ cache' = [t \in Team |-> Nil] /\ queue' = <<>>
        /\ pc' = [r \in Request |-> "idle"] /\ req' = [r \in Request |-> Nil]

Init ==
  /\ sealed \in {Nil, "simulation"} \cup Secret
  /\ at = "down" /\ key = Nil /\ tmp = Nil /\ file = Nil
  /\ drawn = {sealed} \cap Secret /\ blob = [b \in Blob |-> Nil]
  /\ cache = [t \in Team |-> Nil] /\ queue = <<>>
  /\ pc = [r \in Request |-> "idle"] /\ req = [r \in Request |-> Nil]

-----------------------------------------------------------------------------
(* main, up to the listener.                                               *)

Start == at = "down" /\ at' = "load" /\ UNCHANGED <<sealed, key, disk, manager, blob>>

(* process::exit, a panic or a kill: memory is gone, the disk stays.       *)
Crash ==
  /\ at # "down" /\ at' = "down" /\ key' = Nil
  /\ Idle
  /\ UNCHANGED <<sealed, disk, blob>>

(* In production a missing or malformed key ends the process.              *)
LoadSealed ==
  /\ at = "load" /\ sealed # "simulation"
  /\ IF sealed = Nil THEN at' = "down" /\ UNCHANGED key ELSE at' = "config" /\ key' = sealed
  /\ UNCHANGED <<sealed, disk, manager, blob>>

(* Only the length of the file is checked.                                 *)
LoadFile ==
  /\ at = "load" /\ sealed = "simulation" /\ file # Nil
  /\ IF file = "short" THEN at' = "down" /\ UNCHANGED key ELSE at' = "config" /\ key' = file
  /\ UNCHANGED <<sealed, disk, manager, blob>>

Draw ==
  /\ at = "load" /\ sealed = "simulation" /\ file = Nil
  /\ \E s \in Secret \ drawn : key' = s /\ drawn' = drawn \cup {s}
  /\ at' = "open"
  /\ UNCHANGED <<sealed, tmp, file, manager, blob>>

(* Mutant: the secret is written in place.                                 *)
SaveInPlace(step) ==
  /\ tmp' = tmp
  /\ file' = CASE step \in {"open", "reopen"} -> "short" [] step = "zero" -> "zeros"
               [] step = "fill" -> key [] OTHER -> file

(* Mutant: the renaming is forgotten.                                      *)
SaveUnrenamed(step) ==
  /\ file' = file
  /\ tmp' = CASE step \in {"open", "reopen"} -> "short" [] step = "zero" -> "zeros"
              [] step = "fill" -> key [] OTHER -> tmp

(* fs::write truncates the file before it fills it.                        *)
Save(step) ==
  CASE step \in {"open", "reopen"} -> tmp' = "short" /\ UNCHANGED file
    [] step = "zero" -> tmp' = "zeros" /\ UNCHANGED file
    [] step = "fill" -> tmp' = key /\ UNCHANGED file
    [] step = "rename" -> file' = tmp /\ tmp' = Nil
    [] OTHER -> UNCHANGED <<tmp, file>>

WriteSecret ==
  \E i \in 1..6 :
    /\ at = WriteSteps[i]
    /\ at' = WriteSteps[i + 1]
    /\ Save(WriteSteps[i])
    /\ UNCHANGED <<sealed, key, drawn, manager, blob>>

(* The API key and the capability key; without them main exits.            *)
Configure ==
  /\ at = "config"
  /\ \/ at' = "serving" /\ UNCHANGED key
     \/ at' = "down" /\ key' = Nil
  /\ UNCHANGED <<sealed, disk, manager, blob>>

-----------------------------------------------------------------------------
(* The team vault.                                                         *)

(* Mutant: the team id does not enter the key.                             *)
TeamDekShared(master, team) == master

(* HKDF twice: derive_team_master_secret, then generate_team_dek.          *)
TeamDek(master, team) == <<master, team>>

(* Mutant: the cache holds one key, of whichever team came first.          *)
CachedForAny(team) ==
  IF \E t \in Team : cache[t] # Nil THEN cache[CHOOSE t \in Team : cache[t] # Nil] ELSE TeamDek(key, team)

(* get_or_generate_team_dek: what it returns, and the cache after it.      *)
Cached(team) == IF cache[team] # Nil THEN cache[team] ELSE TeamDek(key, team)

Remember(team) == cache' = [cache EXCEPT ![team] = Cached(team)]

(* The handler locks the manager, in the order of arrival.                 *)
Accept(r, c) ==
  /\ at = "serving" /\ pc[r] \in {"idle", "ok", "failed"}
  /\ req' = [req EXCEPT ![r] = c] /\ pc' = [pc EXCEPT ![r] = "queued"]
  /\ queue' = Append(queue, r)
  /\ UNCHANGED <<sealed, at, key, disk, cache, blob>>

(* Holding it, a write derives the key and encrypts; a read asks Walrus.   *)
Locked(r) ==
  /\ pc[r] = "queued" /\ Head(queue) = r
  /\ pc' = [pc EXCEPT ![r] = "walrus"]
  /\ IF req[r].op = "write" THEN Remember(req[r].team) ELSE UNCHANGED cache
  /\ UNCHANGED <<sealed, at, key, disk, queue, req, blob>>

(* Mutant: the guard is leaked when the call to Walrus fails.              *)
ReleaseOnSuccess(r, result) ==
  /\ pc' = [pc EXCEPT ![r] = result]
  /\ queue' = IF result = "ok" THEN Tail(queue) ELSE queue

Release(r, result) == pc' = [pc EXCEPT ![r] = result] /\ queue' = Tail(queue)

(* The upload, answered or not; an error or the timeout ends it.           *)
Upload(r) ==
  /\ pc[r] = "walrus" /\ req[r].op = "write"
  /\ \/ /\ blob[req[r].blob] = Nil
        /\ blob' = [blob EXCEPT ![req[r].blob] = Cached(req[r].team)]
        /\ \E result \in {"ok", "failed"} : Release(r, result)
     \/ Release(r, "failed") /\ UNCHANGED blob
  /\ UNCHANGED <<sealed, at, key, disk, cache, req>>

(* The download, then the key, the decryption and the hash.                *)
Decrypts(r) == blob[req[r].blob] = Cached(req[r].team)

Download(r) ==
  /\ pc[r] = "walrus" /\ req[r].op = "read"
  /\ \/ /\ blob[req[r].blob] # Nil /\ Remember(req[r].team)
        /\ Release(r, IF Decrypts(r) THEN "ok" ELSE "failed")
     \/ Release(r, "failed") /\ UNCHANGED cache
  /\ UNCHANGED <<sealed, at, key, disk, req, blob>>

-----------------------------------------------------------------------------

Serve(r) == Locked(r) \/ Upload(r) \/ Download(r)

Next == \/ Start \/ Crash \/ LoadSealed \/ LoadFile \/ Draw \/ WriteSecret \/ Configure
        \/ \E r \in Request : Serve(r) \/ \E c \in Call : Accept(r, c)

(* The runtime runs the task that holds the lock, and the clients to       *)
(* Walrus have timeouts.                                                   *)
Fairness == \A r \in Request : WF_vars(Serve(r))

Spec == Init /\ [][Next]_vars /\ Fairness

-----------------------------------------------------------------------------
(* Properties.                                                             *)

(* Wherever writing it was cut off, the file holds a whole secret or does  *)
(* not exist: no start ends in InvalidLength or takes zeros for a key.     *)
FileIsWhole == file \in Secret \cup {Nil}

(* Every blob there is was encrypted under the secret the agent serves     *)
(* with, so no crash or restart makes an entry unreadable.                 *)
BlobsOutliveRestarts ==
  at = "serving" => \A b \in Blob : blob[b] # Nil => blob[b][1] = key

(* A team's entry is read exactly under that team's id: a key is never     *)
(* taken from the cache for another team, or from another life.            *)
ReadsOwnTeam ==
  \A r \in Request :
    pc[r] \in {"walrus", "ok"} /\ req[r].op = "read" /\ blob[req[r].blob] # Nil
      => (Decrypts(r) <=> blob[req[r].blob][2] = req[r].team)

(* However many requests queue for the manager, each gets it and is        *)
(* answered, unless the agent goes down.                                   *)
LockIsPassedOn == \A r \in Request : pc[r] = "queued" ~> pc[r] # "queued" /\ pc[r] # "walrus"
=============================================================================
