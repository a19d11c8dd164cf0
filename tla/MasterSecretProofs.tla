-------------------------- MODULE MasterSecretProofs -------------------------
(***************************************************************************)
(* Proofs about MasterSecret for any secrets, teams, blobs and number of   *)
(* requests that queue for the manager.                                    *)
(***************************************************************************)
EXTENDS MasterSecret, SequenceTheorems, TLAPS

Writing == {"open", "zero", "chmod", "reopen", "fill", "rename"}

(* What every start of this deployment finds: the sealed key, or the file. *)
Root == IF sealed = "simulation" THEN file ELSE sealed

(* A secret is written only where there is none, its key is in memory      *)
(* until the file exists, and the renaming finds it complete; an agent     *)
(* that came this far has the root for its key.                            *)
Rooted ==
  /\ at \in Writing => sealed = "simulation" /\ file = Nil /\ key \in Secret
  /\ at = "rename" => tmp = key
  /\ at \in {"config", "serving"} => key = Root /\ Root \in Secret

(* A stored blob was encrypted under the root.                             *)
Encrypted == \A b \in Blob : blob[b] # Nil => blob[b] \in Dek /\ Root \in Secret /\ blob[b][1] = Root

(* Only a serving agent has requests and cached keys, the cached ones are  *)
(* those that deriving them again would give, and what waits is queued,    *)
(* with the holder of the lock first.                                      *)
Managed ==
  /\ at # "serving" => \A t \in Team : cache[t] = Nil
  /\ at # "serving" => \A r \in Request : pc[r] = "idle"
  /\ \A t \in Team : cache[t] # Nil => cache[t] = TeamDek(key, t)
  /\ \A r \in Request :
       /\ pc[r] # "idle" => req[r] \in Call
       /\ pc[r] = "queued" => \E i \in 1..Len(queue) : queue[i] = r
       /\ pc[r] = "walrus" => queue # <<>> /\ Head(queue) = r

IInv == TypeOK /\ FileIsWhole /\ Rooted /\ Encrypted /\ Managed

-----------------------------------------------------------------------------

LEMMA WriteStep ==
  /\ WriteSteps[1] = "open" /\ WriteSteps[2] = "zero" /\ WriteSteps[3] = "chmod" /\ WriteSteps[4] = "reopen"
  /\ WriteSteps[5] = "fill" /\ WriteSteps[6] = "rename" /\ WriteSteps[7] = "config"
  BY DEF WriteSteps

LEMMA WriteStepSet == {WriteSteps[i] : i \in 1..7} = Writing \cup {"config"}
  BY WriteStep DEF Writing

LEMMA InitIInv == Init => IInv
<1> SUFFICES ASSUME Init PROVE IInv
  OBVIOUS
<1>1. TypeOK
  BY DEF Init, TypeOK, Content
<1>2. FileIsWhole /\ Rooted /\ Encrypted /\ Managed
  BY DEF Init, FileIsWhole, Rooted, Writing, Encrypted, Managed
<1>3. QED
  BY <1>1, <1>2 DEF IInv

-----------------------------------------------------------------------------
(* Before the listener: no request is there, and no blob changes.          *)

LEMMA StartKeepsIInv == ASSUME IInv, Start PROVE IInv'
<1> USE DEF IInv, Start, disk, manager
<1>1. TypeOK'
  BY DEF TypeOK
<1>2. FileIsWhole' /\ Rooted' /\ Encrypted'
  BY DEF FileIsWhole, Rooted, Encrypted, Root, Writing
<1>3. Managed'
  BY DEF Managed, TeamDek
<1>4. QED
  BY <1>1, <1>2, <1>3

LEMMA CrashKeepsIInv == ASSUME IInv, Crash PROVE IInv'
<1> USE DEF IInv, Crash, Idle, disk
<1>1. TypeOK'
  <2>1. queue' \in Seq(Request)
    OBVIOUS
  <2>2. QED
    BY <2>1 DEF TypeOK
<1>2. FileIsWhole' /\ Rooted' /\ Encrypted'
  BY DEF FileIsWhole, Rooted, Encrypted, Root, Writing
<1>3. Managed'
  BY DEF Managed
<1>4. QED
  BY <1>1, <1>2, <1>3

LEMMA LoadKeepsIInv == ASSUME IInv, LoadSealed \/ LoadFile PROVE IInv'
<1> USE DEF IInv, LoadSealed, LoadFile, disk, manager
<1>1. TypeOK'
  BY WriteStepSet DEF TypeOK, FileIsWhole
<1>2. FileIsWhole' /\ Encrypted'
  BY DEF FileIsWhole, Encrypted, Root
<1>3. Rooted'
  BY DEF TypeOK, FileIsWhole, Rooted, Root, Writing
<1>4. Managed'
  BY DEF Managed
<1>5. QED
  BY <1>1, <1>2, <1>3, <1>4

LEMMA DrawKeepsIInv == ASSUME IInv, Draw PROVE IInv'
<1> USE DEF IInv, Draw, manager
<1>1. TypeOK'
  BY WriteStepSet DEF TypeOK, Writing
<1>2. FileIsWhole' /\ Encrypted' /\ Rooted'
  BY DEF FileIsWhole, Encrypted, Rooted, Root, Writing
<1>3. Managed'
  BY DEF Managed
<1>4. QED
  BY <1>1, <1>2, <1>3

(* While the secret is written there is no file, so no blob.               *)
LEMMA WriteSecretKeepsIInv == ASSUME IInv, WriteSecret PROVE IInv'
<1>1. PICK i \in 1..6 : at = WriteSteps[i] /\ at' = WriteSteps[i + 1] /\ Save(WriteSteps[i])
  BY DEF WriteSecret
<1>2. UNCHANGED <<sealed, key, drawn, manager, blob>>
  BY DEF WriteSecret
<1>3. at \in Writing /\ at' \in Writing \cup {"config"} /\ Save(at)
  BY <1>1, WriteStep DEF Writing
<1>4. at' = "config" <=> at = "rename"
  BY <1>1, WriteStep
<1>5. at' = "rename" <=> at = "fill"
  BY <1>1, WriteStep
<1>6. sealed = "simulation" /\ file = Nil /\ key \in Secret /\ Root = Nil
  BY <1>3 DEF IInv, Rooted, Root
<1>7. IF at = "rename" THEN file' = key /\ tmp' = Nil
      ELSE file' = Nil /\ tmp' \in {tmp, key, "short", "zeros"} /\ (at = "fill" => tmp' = key)
  BY <1>3, <1>6 DEF Save, Writing, IInv, Rooted
<1>8. TypeOK'
  BY <1>2, <1>3, <1>6, <1>7, WriteStepSet DEF IInv, TypeOK, manager, Content
<1>9. FileIsWhole' /\ Rooted'
  BY <1>2, <1>3, <1>4, <1>5, <1>6, <1>7 DEF FileIsWhole, Rooted, Root, Writing
<1>10. Encrypted'
  BY <1>2, <1>6, NilAssumption DEF IInv, Encrypted
<1>11. Managed'
  BY <1>2, <1>3 DEF IInv, Managed, manager, Writing
<1>12. QED
  BY <1>8, <1>9, <1>10, <1>11 DEF IInv

LEMMA ConfigureKeepsIInv == ASSUME IInv, Configure PROVE IInv'
<1> USE DEF IInv, Configure, disk, manager
<1>1. TypeOK'
  BY DEF TypeOK
<1>2. FileIsWhole' /\ Encrypted' /\ Rooted'
  BY DEF FileIsWhole, Encrypted, Rooted, Root, Writing
<1>3. Managed'
  BY DEF Managed, TeamDek
<1>4. QED
  BY <1>1, <1>2, <1>3

-----------------------------------------------------------------------------
(* The team vault.                                                         *)

(* A key from the cache is the key derived anew.                           *)
LEMMA CachedIsDerived ==
  ASSUME IInv, NEW t \in Team
  PROVE  Cached(t) = TeamDek(key, t)
  BY DEF IInv, Managed, Cached

(* What is neither the disk nor the key keeps the first three parts.       *)
LEMMA RootKept ==
  ASSUME IInv, UNCHANGED <<sealed, at, key, disk>>
  PROVE  FileIsWhole' /\ Rooted' /\ Root' = Root
  BY DEF IInv, disk, FileIsWhole, Rooted, Root

LEMMA RememberType ==
  ASSUME IInv, at = "serving", NEW t \in Team, Remember(t)
  PROVE  /\ cache' \in [Team -> Dek \cup {Nil}]
         /\ \A u \in Team : cache'[u] # Nil => cache'[u] = TeamDek(key, u)
<1>1. key \in Secret /\ TeamDek(key, t) \in Dek
  BY DEF IInv, Rooted, Dek, TeamDek
<1>2. cache' = [cache EXCEPT ![t] = TeamDek(key, t)]
  BY CachedIsDerived DEF Remember
<1>3. QED
  BY <1>1, <1>2 DEF IInv, TypeOK, Managed

LEMMA AcceptKeepsIInv == ASSUME IInv, NEW r \in Request, NEW c \in Call, Accept(r, c) PROVE IInv'
<1>1. /\ at = "serving" /\ pc[r] \notin {"queued", "walrus"}
      /\ req' = [req EXCEPT ![r] = c] /\ pc' = [pc EXCEPT ![r] = "queued"] /\ queue' = Append(queue, r)
      /\ UNCHANGED <<sealed, at, key, disk, cache, blob>>
  BY DEF Accept
<1>2. /\ queue' \in Seq(Request) /\ Len(queue') = Len(queue) + 1 /\ queue'[Len(queue) + 1] = r
      /\ \A i \in 1..Len(queue) : queue'[i] = queue[i]
      /\ queue # <<>> => queue' # <<>> /\ Head(queue') = Head(queue)
  BY <1>1 DEF IInv, TypeOK
<1>3. TypeOK'
  BY <1>1, <1>2 DEF IInv, TypeOK, disk
<1>4. Managed'
  <2>1. ASSUME NEW s \in Request
        PROVE  /\ pc'[s] # "idle" => req'[s] \in Call
               /\ pc'[s] = "queued" => \E i \in 1..Len(queue') : queue'[i] = s
               /\ pc'[s] = "walrus" => queue' # <<>> /\ Head(queue') = s
    <3>1. CASE s = r
      <4>1. Len(queue) + 1 \in 1..Len(queue')
        BY <1>2 DEF IInv, TypeOK
      <4>2. QED
        BY <1>1, <1>2, <3>1, <4>1 DEF IInv, TypeOK
    <3>2. CASE s # r
      <4>1. pc'[s] = pc[s] /\ req'[s] = req[s]
        BY <1>1, <3>2 DEF IInv, TypeOK
      <4>2. 1..Len(queue) \subseteq 1..Len(queue')
        BY <1>2 DEF IInv, TypeOK
      <4>3. QED
        BY <1>2, <4>1, <4>2 DEF IInv, Managed
    <3>3. QED
      BY <3>1, <3>2
  <2>2. QED
    BY <1>1, <2>1 DEF IInv, Managed
<1>5. Encrypted'
  BY <1>1, RootKept DEF IInv, Encrypted
<1>6. QED
  BY <1>1, <1>3, <1>4, <1>5, RootKept DEF IInv

(* The one that is first in the queue takes the lock.                      *)
LEMMA LockedKeepsIInv == ASSUME IInv, NEW r \in Request, Locked(r) PROVE IInv'
<1>1. /\ pc[r] = "queued" /\ Head(queue) = r /\ pc' = [pc EXCEPT ![r] = "walrus"]
      /\ UNCHANGED <<sealed, at, key, disk, queue, req, blob>>
  BY DEF Locked
<1>2. at = "serving" /\ req[r] \in Call /\ req[r].team \in Team /\ queue # <<>>
  BY <1>1 DEF IInv, TypeOK, Managed, Call
<1>3. /\ cache' \in [Team -> Dek \cup {Nil}]
      /\ \A t \in Team : cache'[t] # Nil => cache'[t] = TeamDek(key, t)
  <2>1. CASE req[r].op = "write"
    BY <1>2, <2>1, RememberType DEF Locked
  <2>2. CASE req[r].op # "write"
    BY <2>2 DEF Locked, IInv, TypeOK, Managed
  <2>3. QED
    BY <2>1, <2>2
<1>4. TypeOK'
  BY <1>1, <1>3 DEF IInv, TypeOK, disk
<1>5. Managed'
  BY <1>1, <1>2, <1>3 DEF IInv, TypeOK, Managed
<1>6. Encrypted'
  BY <1>1, RootKept DEF IInv, Encrypted
<1>7. QED
  BY <1>1, <1>4, <1>5, <1>6, RootKept DEF IInv

(* Releasing it, the holder leaves the queue and everyone else stays in it.*)
LEMMA ReleaseQueue ==
  ASSUME IInv, NEW r \in Request, pc[r] = "walrus", NEW result \in {"ok", "failed"}, Release(r, result),
         req' = req
  PROVE  /\ queue' \in Seq(Request) /\ pc' \in [Request -> {"idle", "queued", "walrus", "ok", "failed"}]
         /\ \A s \in Request :
              /\ pc'[s] # "idle" => req'[s] \in Call
              /\ pc'[s] = "queued" => \E i \in 1..Len(queue') : queue'[i] = s
              /\ pc'[s] = "walrus" => queue' # <<>> /\ Head(queue') = s
<1>1. queue \in Seq(Request) /\ queue # <<>> /\ Head(queue) = r /\ queue' = Tail(queue)
  BY DEF IInv, TypeOK, Managed, Release
<1>2. /\ queue' \in Seq(Request) /\ Len(queue') = Len(queue) - 1 /\ queue[1] = r
      /\ \A i \in 1..Len(queue') : queue'[i] = queue[i + 1]
  BY <1>1
<1>3. pc' = [pc EXCEPT ![r] = result]
  BY DEF Release
<1>4. ASSUME NEW s \in Request
      PROVE  /\ pc'[s] # "idle" => req'[s] \in Call
             /\ pc'[s] = "queued" => \E i \in 1..Len(queue') : queue'[i] = s
             /\ pc'[s] = "walrus" => queue' # <<>> /\ Head(queue') = s
  <2>1. CASE s = r
    BY <1>3, <2>1 DEF IInv, TypeOK, Managed
  <2>2. CASE s # r
    <3>1. pc'[s] = pc[s] /\ pc[s] # "walrus"
      BY <1>1, <1>3, <2>2 DEF IInv, TypeOK, Managed
    <3>2. ASSUME pc[s] = "queued" PROVE \E i \in 1..Len(queue') : queue'[i] = s
      <4>1. PICK i \in 1..Len(queue) : queue[i] = s
        BY <3>2 DEF IInv, Managed
      <4>2. i # 1 /\ i - 1 \in 1..Len(queue')
        BY <1>1, <1>2, <2>2, <4>1
      <4>3. QED
        BY <1>2, <4>1, <4>2
    <3>3. QED
      BY <3>1, <3>2 DEF IInv, Managed
  <2>3. QED
    BY <2>1, <2>2
<1>5. QED
  BY <1>2, <1>3, <1>4 DEF IInv, TypeOK

LEMMA UploadKeepsIInv == ASSUME IInv, NEW r \in Request, Upload(r) PROVE IInv'
<1>1. pc[r] = "walrus" /\ req' = req /\ UNCHANGED <<sealed, at, key, disk, cache>>
  BY DEF Upload
<1>2. at = "serving" /\ req[r].team \in Team /\ req[r].blob \in Blob
  BY <1>1 DEF IInv, TypeOK, Managed, Call
<1>3. PICK result \in {"ok", "failed"} : Release(r, result)
  BY DEF Upload
<1>4. \/ blob' = [blob EXCEPT ![req[r].blob] = TeamDek(key, req[r].team)]
      \/ blob' = blob
  BY <1>2, CachedIsDerived DEF Upload
<1>5. TeamDek(key, req[r].team) \in Dek /\ TeamDek(key, req[r].team)[1] = Root /\ Root \in Secret
  BY <1>2 DEF IInv, Rooted, Dek, TeamDek
<1>6. TypeOK'
  <2>1. blob' \in [Blob -> Dek \cup {Nil}]
    BY <1>4, <1>5 DEF IInv, TypeOK
  <2>2. QED
    BY <1>1, <1>3, <2>1, ReleaseQueue DEF IInv, TypeOK, disk
<1>7. Encrypted'
  BY <1>1, <1>4, <1>5, RootKept DEF IInv, TypeOK, Encrypted
<1>8. Managed'
  BY <1>1, <1>2, <1>3, ReleaseQueue DEF IInv, Managed
<1>9. QED
  BY <1>1, <1>6, <1>7, <1>8, RootKept DEF IInv

LEMMA DownloadKeepsIInv == ASSUME IInv, NEW r \in Request, Download(r) PROVE IInv'
<1>1. pc[r] = "walrus" /\ UNCHANGED <<sealed, at, key, disk, req, blob>>
  BY DEF Download
<1>2. at = "serving" /\ req[r].team \in Team
  BY <1>1 DEF IInv, TypeOK, Managed, Call
<1>3. PICK result \in {"ok", "failed"} : Release(r, result)
  BY DEF Download
<1>4. /\ cache' \in [Team -> Dek \cup {Nil}]
      /\ \A t \in Team : cache'[t] # Nil => cache'[t] = TeamDek(key, t)
  <2>1. CASE Remember(req[r].team)
    BY <1>2, <2>1, RememberType
  <2>2. CASE cache' = cache
    BY <2>2 DEF IInv, TypeOK, Managed
  <2>3. QED
    BY <2>1, <2>2 DEF Download
<1>5. TypeOK'
  BY <1>1, <1>3, <1>4, ReleaseQueue DEF IInv, TypeOK, disk
<1>6. Encrypted'
  BY <1>1, RootKept DEF IInv, Encrypted
<1>7. Managed'
  BY <1>1, <1>2, <1>3, <1>4, ReleaseQueue DEF IInv, Managed
<1>8. QED
  BY <1>1, <1>5, <1>6, <1>7, RootKept DEF IInv

-----------------------------------------------------------------------------

LEMMA NextIInv == IInv /\ [Next]_vars => IInv'
<1> SUFFICES ASSUME IInv, [Next]_vars PROVE IInv'
  OBVIOUS
<1>1. CASE Start \/ Crash \/ LoadSealed \/ LoadFile \/ Draw \/ WriteSecret \/ Configure
  BY <1>1, StartKeepsIInv, CrashKeepsIInv, LoadKeepsIInv, DrawKeepsIInv, WriteSecretKeepsIInv, ConfigureKeepsIInv
<1>2. ASSUME NEW r \in Request, Serve(r) \/ \E c \in Call : Accept(r, c) PROVE IInv'
  BY <1>2, AcceptKeepsIInv, LockedKeepsIInv, UploadKeepsIInv, DownloadKeepsIInv DEF Serve
<1>3. CASE UNCHANGED vars
  BY <1>3 DEF vars, IInv, TypeOK, FileIsWhole, Rooted, Root, Encrypted, Managed, TeamDek
<1>4. QED
  BY <1>1, <1>2, <1>3 DEF Next

LEMMA Invariance == Spec => []IInv
  BY InitIInv, NextIInv, PTL DEF Spec

(* Every state of the agent is well typed.                                 *)
THEOREM TypeCorrect == Spec => []TypeOK
<1>1. IInv => TypeOK
  BY DEF IInv
<1>2. QED
  BY <1>1, Invariance, PTL

(* A crash at any step of writing the secret leaves a whole file or none.  *)
THEOREM SecretIsWrittenWhole == Spec => []FileIsWhole
<1>1. IInv => FileIsWhole
  BY DEF IInv
<1>2. QED
  BY <1>1, Invariance, PTL

(* After any number of crashes and restarts the agent serves with the      *)
(* secret that every stored blob was encrypted under.                      *)
THEOREM RestartsKeepBlobs == Spec => []BlobsOutliveRestarts
<1>1. IInv => BlobsOutliveRestarts
  BY DEF IInv, Encrypted, Rooted, BlobsOutliveRestarts
<1>2. QED
  BY <1>1, Invariance, PTL

(* However requests of different teams queue, a read decrypts exactly what *)
(* was written under its own team.                                         *)
THEOREM TeamsAreSeparate == Spec => []ReadsOwnTeam
<1>1. IInv => ReadsOwnTeam
  <2>1. SUFFICES ASSUME IInv, NEW r \in Request, pc[r] \in {"walrus", "ok"}, blob[req[r].blob] # Nil
                 PROVE  Decrypts(r) <=> blob[req[r].blob][2] = req[r].team
    BY DEF ReadsOwnTeam
  <2>2. at = "serving" /\ req[r].team \in Team /\ req[r].blob \in Blob
    BY <2>1 DEF IInv, Managed, Call
  <2>3. Cached(req[r].team) = <<key, req[r].team>>
    BY <2>1, <2>2, CachedIsDerived DEF TeamDek
  <2>4. blob[req[r].blob] \in Dek /\ blob[req[r].blob][1] = key
    BY <2>1, <2>2 DEF IInv, Encrypted, Rooted
  <2>5. QED
    BY <2>3, <2>4 DEF Decrypts, Dek
<1>2. QED
  BY <1>1, Invariance, PTL
=============================================================================
