----------------------------- MODULE VaultStore ------------------------------
(***************************************************************************)
(* Storing, pointing at, reading and executing vault entries.  A blob is   *)
(* encrypted by the TEE agent (vault_writer.rs), stored on Walrus, pointed *)
(* at from the D1 table pointers (index.ts, /api/pointers), and read back  *)
(* through the agent (vault_reader.rs).  The dashboard's hooks (useWiki.ts,*)
(* useSkills.ts) chain these calls; MCP clients call vault_write and       *)
(* vault_read directly.  Requests interleave, and may stop between calls.  *)
(***************************************************************************)
EXTENDS Naturals

CONSTANTS
  Account, Ident,  \* NEAR accounts; slugs and skill ids
  Text,            \* plaintexts; a SHA-256 stands for its text
  Blob,            \* Walrus blob ids, fresh for each upload (random IV)
  Request,         \* requests in flight at once
  Op,              \* the operations in use
  WalrusFaithful,  \* whether the aggregator serves what was stored
  Nil

EntryType == {"wiki", "skill"}
AllOp == {"save", "write", "remove", "open", "read", "execute"}

ASSUME OpAssumption == Op \subseteq AllOp
ASSUME WalrusAssumption == WalrusFaithful \in BOOLEAN
ASSUME IdentAssumption == Ident \cap Blob = {}

(* An entry's owner, type and identifier: the key of its pointer.          *)
Slot == [acct: Account, type: EntryType, id: Ident]

(* derive_dek: account as salt, type and identifier as info; skill         *)
(* execution passes a blob id as the identifier.                           *)
Dek == [acct: Account, type: EntryType, id: Ident \cup Blob]
Envelope == [dek: Dek, text: Text]
Pointer == [blob: Blob, sha: Text]

VARIABLES
  walrus,    \* the envelope stored under each blob id, Nil if none
  pointer,   \* the pointers table, Nil where there is no row
  at, req,   \* the call each request awaits, and what it carries
  answer     \* what each request was last answered

vars == <<walrus, pointer, at, req, answer>>

Job == [op: Op, slot: Slot, text: Text]
Fetch == [op: Op, slot: Slot, blob: Blob, sha: Text]
NoJob == [op |-> Nil]

Step == {"idle", "upload", "setPointer", "removePointer", "getPointer", "fetch"}
Failure == {"error", "DecryptionFailed", "IntegrityMismatch"}
Done == {"none", "saved", "removed", "stored", "executed"}

ASSUME NilAssumption ==
  /\ Nil \notin Envelope /\ Nil \notin Pointer /\ Nil \notin Op /\ Nil \notin Text
  /\ Nil \notin [slot: Slot, text: Text]

Read(t) == [text |-> t]
Answers == {Read(t) : t \in Text} \cup {[is |-> x] : x \in Failure \cup Done}

TypeOK ==
  /\ walrus \in [Blob -> Envelope \cup {Nil}]
  /\ pointer \in [Slot -> Pointer \cup {Nil}]
  /\ at \in [Request -> Step]
  /\ req \in [Request -> Job \cup Fetch \cup {NoJob}]
  /\ answer \in [Request -> Answers]
  /\ \A r \in Request :
       /\ at[r] \in {"upload", "removePointer", "getPointer"} => req[r] \in Job
       /\ at[r] \in {"setPointer", "fetch"} => req[r] \in Fetch

Init ==
  /\ walrus = [b \in Blob |-> Nil]
  /\ pointer = [s \in Slot |-> Nil]
  /\ at = [r \in Request |-> "idle"]
  /\ req = [r \in Request |-> NoJob]
  /\ answer = [r \in Request |-> [is |-> "none"]]

Answer(r, a) == /\ at' = [at EXCEPT ![r] = "idle"]
                /\ req' = [req EXCEPT ![r] = NoJob]
                /\ answer' = [answer EXCEPT ![r] = a]

Fail(r, why) == Answer(r, [is |-> why])

(* Mutant: a page is opened with the pointer last seen.                    *)
FirstStepCached == [save |-> "upload", write |-> "upload", remove |-> "removePointer",
                      open |-> "fetch", execute |-> "getPointer"]

FirstStep == [save |-> "upload", write |-> "upload", remove |-> "removePointer",
              open |-> "getPointer", execute |-> "getPointer"]

(* A vault_read names the slot and the pair its own vault_write returned,  *)
(* so it starts with the download; everything else starts from a slot.     *)
Accept(r) ==
  /\ at[r] = "idle"
  /\ answer' = [answer EXCEPT ![r] = [is |-> "none"]]
  /\ \/ \E j \in Job :
          /\ j.op # "read" /\ (j.op = "execute" => j.slot.type = "skill")
          /\ at' = [at EXCEPT ![r] = FirstStep[j.op]]
          /\ req' = [req EXCEPT ![r] = j]
     \/ \E b \in Blob :
          /\ "read" \in Op /\ walrus[b] # Nil
          /\ at' = [at EXCEPT ![r] = "fetch"]
          /\ req' = [req EXCEPT ![r] = [op |-> "read", slot |-> walrus[b].dek, blob |-> b,
                                        sha |-> walrus[b].text]]
  /\ UNCHANGED <<walrus, pointer>>

-----------------------------------------------------------------------------
(* Writing.                                                                *)

(* Mutant: the entry type is left out of the key.                          *)
DekUntyped(slot) == [slot EXCEPT !.type = "wiki"]

DekOf(slot) == slot

(* encrypt_and_publish: the blob is stored, and the answer may be lost.    *)
Upload(r) ==
  /\ at[r] = "upload"
  /\ \E b \in Blob :
       /\ walrus[b] = Nil
       /\ walrus' = [walrus EXCEPT ![b] = [dek |-> DekOf(req[r].slot), text |-> req[r].text]]
       /\ \/ /\ req[r].op = "save"
             /\ at' = [at EXCEPT ![r] = "setPointer"]
             /\ req' = [req EXCEPT ![r] = [op |-> @.op, slot |-> @.slot, blob |-> b, sha |-> @.text]]
             /\ UNCHANGED answer
          \/ req[r].op = "write" /\ Answer(r, [is |-> "stored"])
          \/ Fail(r, "error")
  /\ UNCHANGED pointer

(* Mutant: the upsert keeps the hash of the row it finds.                  *)
SetPointerKeepsHash(r) ==
  LET s == req[r].slot
      sha == IF pointer[s] = Nil THEN req[r].sha ELSE pointer[s].sha
  IN
  /\ at[r] = "setPointer"
  /\ pointer' = [pointer EXCEPT ![s] = [blob |-> req[r].blob, sha |-> sha]]
  /\ Answer(r, [is |-> "saved"])
  /\ UNCHANGED walrus

(* /api/pointers/set: one upsert, whose answer may be lost too.  The route *)
(* takes any blob id and hash; these clients send those they were answered.*)
SetPointer(r) ==
  /\ at[r] = "setPointer"
  /\ pointer' = [pointer EXCEPT ![req[r].slot] = [blob |-> req[r].blob, sha |-> req[r].sha]]
  /\ Answer(r, [is |-> "saved"]) \/ Fail(r, "error")
  /\ UNCHANGED walrus

(* /api/pointers/remove; the blob stays on Walrus.                         *)
RemovePointer(r) ==
  /\ at[r] = "removePointer"
  /\ pointer' = [pointer EXCEPT ![req[r].slot] = Nil]
  /\ Answer(r, [is |-> "removed"]) \/ Fail(r, "error")
  /\ UNCHANGED walrus

-----------------------------------------------------------------------------
(* Reading and executing.                                                  *)

GetPointer(r) ==
  LET p == pointer[req[r].slot] IN
  /\ at[r] = "getPointer"
  /\ IF p = Nil
       THEN Fail(r, "error")
       ELSE /\ at' = [at EXCEPT ![r] = "fetch"]
            /\ req' = [req EXCEPT ![r] = [op |-> @.op, slot |-> @.slot, blob |-> p.blob,
                                          sha |-> p.sha]]
            /\ UNCHANGED answer
  /\ UNCHANGED <<walrus, pointer>>

(* execute_skill derives the key with the blob id as identifier.           *)
ReadDek(j) ==
  IF j.op = "execute" THEN [acct |-> j.slot.acct, type |-> "skill", id |-> j.blob]
                      ELSE DekOf(j.slot)

(* The bytes the aggregator serves for a blob id; not those stored under   *)
(* it, if it is not faithful, nor any stored at all (Nil).                 *)
Served(b) ==
  IF WalrusFaithful THEN {walrus[b]} ELSE {walrus[c] : c \in Blob} \cup {Nil}

Decrypts(e, dek) == e # Nil /\ e.dek = dek

(* Mutant: the hash of the plaintext is not compared.                      *)
DecryptUnchecked(r) ==
  LET j == req[r] IN
  /\ at[r] = "fetch"
  /\ \E e \in Served(j.blob) :
       \/ Decrypts(e, ReadDek(j)) /\ j.op # "execute" /\ Answer(r, Read(e.text))
       \/ Decrypts(e, ReadDek(j)) /\ j.op = "execute" /\ Answer(r, [is |-> "executed"])
       \/ ~Decrypts(e, ReadDek(j)) /\ Fail(r, "DecryptionFailed")
  /\ UNCHANGED <<walrus, pointer>>

(* download_and_decrypt: the tag fails for any other key or other bytes,   *)
(* then the plaintext is compared with the hash of the pointer.            *)
DownloadAndDecrypt(r) ==
  LET j == req[r] IN
  /\ at[r] = "fetch"
  /\ \E e \in Served(j.blob) :
       \/ ~Decrypts(e, ReadDek(j)) /\ Fail(r, "DecryptionFailed")
       \/ Decrypts(e, ReadDek(j)) /\ e.text # j.sha /\ Fail(r, "IntegrityMismatch")
       \/ /\ Decrypts(e, ReadDek(j)) /\ e.text = j.sha
          /\ Answer(r, IF j.op = "execute" THEN [is |-> "executed"] ELSE Read(e.text))
  /\ UNCHANGED <<walrus, pointer>>

(* A call fails without effect, the blob expired, or the client went away. *)
CallFails(r) ==
  /\ at[r] # "idle"
  /\ Fail(r, "error")
  /\ UNCHANGED <<walrus, pointer>>

RequestStep(r) ==
  \/ Accept(r) \/ Upload(r) \/ SetPointer(r) \/ RemovePointer(r) \/ GetPointer(r)
  \/ DownloadAndDecrypt(r) \/ CallFails(r)

Next == \E r \in Request : RequestStep(r)

Spec == Init /\ [][Next]_vars

-----------------------------------------------------------------------------
(* Properties.                                                             *)

(* Every pointer, and every one a request is about to set or has fetched,  *)
(* names a stored blob that decrypts under the slot's own key to the text  *)
(* of its hash: a save that fails half-way leaves the old entry readable.  *)
Resolves(s, p) == /\ walrus[p.blob] # Nil
                  /\ walrus[p.blob].dek = s /\ walrus[p.blob].text = p.sha

PointersResolve ==
  /\ \A s \in Slot : pointer[s] # Nil => Resolves(s, pointer[s])
  /\ \A r \in Request : at[r] \in {"setPointer", "fetch"} => Resolves(req[r].slot, req[r])

(* The slots are last-writer-wins registers, and a read returns exactly    *)
(* the version it asked for, whatever bytes Walrus serves.                 *)
ReadText(a) == IF \E t \in Text : a = Read(t) THEN a.text ELSE Nil

Register == INSTANCE VaultRegister WITH
  value <- [s \in Slot |-> IF pointer[s] = Nil THEN Nil ELSE pointer[s].sha],
  published <- [s \in Slot |-> {walrus[b].text : b \in {c \in Blob : walrus[c] # Nil /\ walrus[c].dek = s}}],
  asked <- [r \in Request |-> IF at[r] = "fetch" /\ req[r].op # "execute"
                                THEN [slot |-> req[r].slot, text |-> req[r].sha] ELSE Nil],
  answer <- [r \in Request |-> ReadText(answer[r])]

ImplementsRegister == Register!Spec

(* What was stored can be decrypted while Walrus serves it: reads and      *)
(* executions fail for other reasons only ("Executes a stored skill        *)
(* through the ZDR egress firewall in the TEE", api/gateway.ts).           *)
StoredEntriesDecrypt == \A r \in Request : answer[r] # [is |-> "DecryptionFailed"]
=============================================================================
