--------------------------- MODULE VaultStoreProofs --------------------------
(***************************************************************************)
(* Proofs about VaultStore for any accounts, identifiers, texts, blobs and *)
(* requests in flight: its types, that every pointer resolves, and that it *)
(* implements VaultRegister.                                               *)
(***************************************************************************)
EXTENDS VaultStore, TLAPS

Requests == Job \cup Fetch \cup {NoJob}

LEMMA OthersKept ==
  ASSUME TypeOK, NEW r \in Request, RequestStep(r), NEW q \in Request, q # r
  PROVE  at'[q] = at[q] /\ req'[q] = req[q] /\ answer'[q] = answer[q]
  BY DEF RequestStep, TypeOK, Answer, Fail, Accept, Upload, SetPointer, RemovePointer, GetPointer,
     DownloadAndDecrypt, CallFails

(* A step that ends a request.                                             *)
LEMMA AnswerType ==
  ASSUME TypeOK, NEW r \in Request, NEW a \in Answers, Answer(r, a)
  PROVE  /\ at' \in [Request -> Step] /\ req' \in [Request -> Requests]
         /\ answer' \in [Request -> Answers]
         /\ at'[r] = "idle" /\ answer'[r] = a
  BY DEF Answer, TypeOK, Step, Requests

LEMMA FailType ==
  ASSUME TypeOK, NEW r \in Request, NEW why \in Failure, Fail(r, why)
  PROVE  /\ at' \in [Request -> Step] /\ req' \in [Request -> Requests]
         /\ answer' \in [Request -> Answers]
         /\ at'[r] = "idle" /\ answer'[r] = [is |-> why]
<1>1. [is |-> why] \in Answers
  BY DEF Answers
<1>2. QED
  BY <1>1, AnswerType DEF Fail

(* What the slot of the request that moves holds afterwards.               *)
SlotOK(r) ==
  /\ at' \in [Request -> Step] /\ req' \in [Request -> Requests]
  /\ answer' \in [Request -> Answers]
  /\ at'[r] \in {"upload", "removePointer", "getPointer"} => req'[r] \in Job
  /\ at'[r] \in {"setPointer", "fetch"} => req'[r] \in Fetch

LEMMA FinishedSlot ==
  ASSUME TypeOK, NEW r \in Request,
         \/ \E a \in Answers : Answer(r, a)
         \/ \E why \in Failure : Fail(r, why)
  PROVE  SlotOK(r) /\ at'[r] = "idle"
  BY AnswerType, FailType DEF SlotOK

(* Walrus holds what it was given: the key is one of a slot, so that a     *)
(* vault_read names the slot its own write did.                            *)
Stored == \A b \in Blob : walrus[b] # Nil => walrus[b].dek \in Slot

(* A request in flight has been answered nothing yet.                      *)
Unanswered == \A r \in Request : at[r] # "idle" => answer[r] = [is |-> "none"]

IInv == TypeOK /\ Stored /\ Unanswered /\ PointersResolve

LEMMA InitIInv == Init => IInv
  BY DEF Init, IInv, TypeOK, Stored, Unanswered, PointersResolve, Step, Answers, Done, Failure

-----------------------------------------------------------------------------
(* What each step does.                                                    *)

LEMMA FirstSteps ==
  ASSUME NEW op \in Op, op # "read"
  PROVE  FirstStep[op] \in {"upload", "removePointer", "getPointer"}
  BY OpAssumption DEF AllOp, FirstStep

LEMMA AcceptStep ==
  ASSUME TypeOK, Stored, NEW r \in Request, Accept(r)
  PROVE  /\ at[r] = "idle" /\ UNCHANGED <<walrus, pointer>> /\ SlotOK(r)
         /\ answer'[r] = [is |-> "none"]
         /\ \/ at'[r] \in {"upload", "removePointer", "getPointer"}
            \/ \E b \in Blob :
                 /\ walrus[b] # Nil /\ at'[r] = "fetch"
                 /\ req'[r] = [op |-> "read", slot |-> walrus[b].dek, blob |-> b,
                               sha |-> walrus[b].text]
<1>1. [is |-> "none"] \in Answers
  BY DEF Answers, Done
<1>2. answer' = [answer EXCEPT ![r] = [is |-> "none"]] /\ at[r] = "idle"
      /\ UNCHANGED <<walrus, pointer>>
  BY DEF Accept
<1>3. answer' \in [Request -> Answers] /\ answer'[r] = [is |-> "none"]
  BY <1>1, <1>2 DEF TypeOK
<1>4. ASSUME NEW j \in Job, j.op # "read",
             at' = [at EXCEPT ![r] = FirstStep[j.op]], req' = [req EXCEPT ![r] = j]
      PROVE  SlotOK(r) /\ at'[r] \in {"upload", "removePointer", "getPointer"}
  <2>1. FirstStep[j.op] \in {"upload", "removePointer", "getPointer"}
    BY <1>4, FirstSteps DEF Job
  <2>2. QED
    BY <1>3, <1>4, <2>1 DEF SlotOK, TypeOK, Step, Requests
<1>5. ASSUME NEW b \in Blob, "read" \in Op, walrus[b] # Nil,
             at' = [at EXCEPT ![r] = "fetch"],
             req' = [req EXCEPT ![r] = [op |-> "read", slot |-> walrus[b].dek, blob |-> b,
                                        sha |-> walrus[b].text]]
      PROVE  /\ SlotOK(r) /\ at'[r] = "fetch"
             /\ req'[r] = [op |-> "read", slot |-> walrus[b].dek, blob |-> b,
                           sha |-> walrus[b].text]
  <2>1. walrus[b].dek \in Slot /\ walrus[b].text \in Text
    BY <1>5 DEF TypeOK, Envelope, Stored
  <2>2. [op |-> "read", slot |-> walrus[b].dek, blob |-> b, sha |-> walrus[b].text] \in Fetch
    BY <1>5, <2>1 DEF Fetch
  <2>3. QED
    BY <1>3, <1>5, <2>2 DEF SlotOK, TypeOK, Step, Requests
<1>6. QED
  BY <1>2, <1>3, <1>4, <1>5 DEF Accept

LEMMA UploadStep ==
  ASSUME TypeOK, NEW r \in Request, Upload(r)
  PROVE  /\ at[r] = "upload" /\ req[r] \in Job /\ UNCHANGED pointer /\ SlotOK(r)
         /\ \E b \in Blob :
              /\ walrus[b] = Nil
              /\ walrus' = [walrus EXCEPT ![b] = [dek |-> req[r].slot, text |-> req[r].text]]
              /\ \/ at'[r] = "idle" /\ (answer'[r] = [is |-> "stored"] \/ answer'[r] = [is |-> "error"])
                 \/ /\ at'[r] = "setPointer" /\ answer' = answer
                    /\ req'[r] = [op |-> req[r].op, slot |-> req[r].slot, blob |-> b,
                                  sha |-> req[r].text]
<1>1. at[r] = "upload" /\ req[r] \in Job /\ UNCHANGED pointer
  BY DEF Upload, TypeOK
<1>2. PICK b \in Blob :
        /\ walrus[b] = Nil
        /\ walrus' = [walrus EXCEPT ![b] = [dek |-> req[r].slot, text |-> req[r].text]]
        /\ \/ /\ at' = [at EXCEPT ![r] = "setPointer"]
              /\ req' = [req EXCEPT ![r] = [op |-> @.op, slot |-> @.slot, blob |-> b, sha |-> @.text]]
              /\ UNCHANGED answer
           \/ Answer(r, [is |-> "stored"])
           \/ Fail(r, "error")
  BY DEF Upload, DekOf
<1>3. [is |-> "stored"] \in Answers /\ "error" \in Failure
  BY DEF Answers, Done, Failure
<1>4. CASE Answer(r, [is |-> "stored"]) \/ Fail(r, "error")
  BY <1>1, <1>2, <1>3, <1>4, FinishedSlot, AnswerType, FailType
<1>5. CASE /\ at' = [at EXCEPT ![r] = "setPointer"]
           /\ req' = [req EXCEPT ![r] = [op |-> @.op, slot |-> @.slot, blob |-> b, sha |-> @.text]]
           /\ UNCHANGED answer
  <2>1. req'[r] = [op |-> req[r].op, slot |-> req[r].slot, blob |-> b, sha |-> req[r].text]
    BY <1>5 DEF TypeOK
  <2>2. req'[r] \in Fetch
    BY <1>1, <2>1 DEF Job, Fetch
  <2>3. req' \in [Request -> Requests]
    BY <1>5, <2>1, <2>2 DEF TypeOK, Requests
  <2>4. SlotOK(r) /\ at'[r] = "setPointer"
    BY <1>5, <2>2, <2>3 DEF SlotOK, TypeOK, Step
  <2>5. QED
    BY <1>1, <1>2, <1>5, <2>1, <2>4
<1>6. QED
  BY <1>2, <1>4, <1>5

LEMMA SetPointerStep ==
  ASSUME TypeOK, NEW r \in Request, SetPointer(r)
  PROVE  /\ at[r] = "setPointer" /\ req[r] \in Fetch /\ UNCHANGED walrus /\ SlotOK(r)
         /\ pointer' = [pointer EXCEPT ![req[r].slot] = [blob |-> req[r].blob, sha |-> req[r].sha]]
         /\ at'[r] = "idle" /\ (answer'[r] = [is |-> "saved"] \/ answer'[r] = [is |-> "error"])
<1>1. [is |-> "saved"] \in Answers /\ "error" \in Failure
  BY DEF Answers, Done, Failure
<1>2. QED
  BY <1>1, FinishedSlot, AnswerType, FailType DEF SetPointer, TypeOK

LEMMA RemovePointerStep ==
  ASSUME TypeOK, NEW r \in Request, RemovePointer(r)
  PROVE  /\ at[r] = "removePointer" /\ req[r] \in Job /\ UNCHANGED walrus /\ SlotOK(r)
         /\ pointer' = [pointer EXCEPT ![req[r].slot] = Nil]
         /\ at'[r] = "idle" /\ (answer'[r] = [is |-> "removed"] \/ answer'[r] = [is |-> "error"])
<1>1. [is |-> "removed"] \in Answers /\ "error" \in Failure
  BY DEF Answers, Done, Failure
<1>2. QED
  BY <1>1, FinishedSlot, AnswerType, FailType DEF RemovePointer, TypeOK

LEMMA GetPointerStep ==
  ASSUME TypeOK, NEW r \in Request, GetPointer(r)
  PROVE  /\ at[r] = "getPointer" /\ req[r] \in Job /\ UNCHANGED <<walrus, pointer>> /\ SlotOK(r)
         /\ \/ at'[r] = "idle" /\ answer'[r] = [is |-> "error"]
            \/ /\ pointer[req[r].slot] # Nil /\ at'[r] = "fetch" /\ answer' = answer
               /\ req'[r] = [op |-> req[r].op, slot |-> req[r].slot,
                             blob |-> pointer[req[r].slot].blob, sha |-> pointer[req[r].slot].sha]
<1> DEFINE p == pointer[req[r].slot]
<1>1. at[r] = "getPointer" /\ req[r] \in Job /\ UNCHANGED <<walrus, pointer>>
  BY DEF GetPointer, TypeOK
<1>2. "error" \in Failure
  BY DEF Failure
<1>3. CASE p = Nil
  BY <1>1, <1>2, <1>3, FinishedSlot, FailType DEF GetPointer
<1>4. CASE p # Nil
  <2>1. /\ at' = [at EXCEPT ![r] = "fetch"] /\ UNCHANGED answer
        /\ req' = [req EXCEPT ![r] = [op |-> @.op, slot |-> @.slot, blob |-> p.blob, sha |-> p.sha]]
    BY <1>4 DEF GetPointer
  <2>2. req'[r] = [op |-> req[r].op, slot |-> req[r].slot, blob |-> p.blob, sha |-> p.sha]
    BY <2>1 DEF TypeOK
  <2>3. req[r].slot \in Slot /\ req[r].op \in Op
    BY <1>1 DEF Job
  <2>4. p \in Pointer
    BY <1>4, <2>3 DEF TypeOK
  <2>5. req'[r] \in Fetch
    BY <2>2, <2>3, <2>4 DEF Fetch, Pointer
  <2>6. req' \in [Request -> Requests]
    BY <2>1, <2>2, <2>5 DEF TypeOK, Requests
  <2>7. SlotOK(r) /\ at'[r] = "fetch"
    BY <2>1, <2>5, <2>6 DEF SlotOK, TypeOK, Step
  <2>8. QED
    BY <1>1, <1>4, <2>1, <2>2, <2>7
<1>5. QED
  BY <1>3, <1>4

(* A download ends in a failure, an execution, or the text of the hash.    *)
LEMMA FetchStep ==
  ASSUME TypeOK, NEW r \in Request, DownloadAndDecrypt(r)
  PROVE  /\ at[r] = "fetch" /\ req[r] \in Fetch /\ UNCHANGED <<walrus, pointer>> /\ SlotOK(r)
         /\ at'[r] = "idle"
         /\ \/ \E why \in Failure : answer'[r] = [is |-> why]
            \/ req[r].op = "execute" /\ answer'[r] = [is |-> "executed"]
            \/ req[r].op # "execute" /\ answer'[r] = Read(req[r].sha)
<1>1. at[r] = "fetch" /\ req[r] \in Fetch /\ UNCHANGED <<walrus, pointer>>
  BY DEF DownloadAndDecrypt, TypeOK
<1>2. \/ Fail(r, "DecryptionFailed") \/ Fail(r, "IntegrityMismatch")
      \/ Answer(r, IF req[r].op = "execute" THEN [is |-> "executed"] ELSE Read(req[r].sha))
  BY DEF DownloadAndDecrypt
<1>3. /\ "DecryptionFailed" \in Failure /\ "IntegrityMismatch" \in Failure
      /\ [is |-> "executed"] \in Answers /\ Read(req[r].sha) \in Answers
  BY <1>1 DEF Failure, Answers, Done, Fetch
<1>4. CASE Fail(r, "DecryptionFailed") \/ Fail(r, "IntegrityMismatch")
  BY <1>1, <1>3, <1>4, FinishedSlot, FailType
<1>5. CASE Answer(r, IF req[r].op = "execute" THEN [is |-> "executed"] ELSE Read(req[r].sha))
  <2>1. CASE req[r].op = "execute"
    BY <1>1, <1>3, <1>5, <2>1, FinishedSlot, AnswerType
  <2>2. CASE req[r].op # "execute"
    BY <1>1, <1>3, <1>5, <2>2, FinishedSlot, AnswerType
  <2>3. QED
    BY <2>1, <2>2
<1>6. QED
  BY <1>2, <1>4, <1>5

LEMMA FailStep ==
  ASSUME TypeOK, NEW r \in Request, CallFails(r)
  PROVE  /\ UNCHANGED <<walrus, pointer>> /\ SlotOK(r)
         /\ at'[r] = "idle" /\ answer'[r] = [is |-> "error"]
<1>1. "error" \in Failure
  BY DEF Failure
<1>2. QED
  BY <1>1, FinishedSlot, FailType DEF CallFails

-----------------------------------------------------------------------------
(* The invariant.                                                          *)

(* Blob ids are fresh: walrus is only added to.                            *)
LEMMA WalrusGrows ==
  ASSUME TypeOK, NEW r \in Request, RequestStep(r)
  PROVE  /\ walrus' \in [Blob -> Envelope \cup {Nil}]
         /\ \A b \in Blob : walrus[b] # Nil => walrus'[b] = walrus[b]
         /\ Stored => Stored'
<1>1. CASE Upload(r)
  <2>1. PICK b \in Blob :
          /\ walrus[b] = Nil
          /\ walrus' = [walrus EXCEPT ![b] = [dek |-> req[r].slot, text |-> req[r].text]]
    BY <1>1, UploadStep
  <2>2. req[r].slot \in Slot /\ req[r].text \in Text
    BY <1>1, UploadStep DEF Job
  <2>3. Slot \subseteq Dek
    BY DEF Slot, Dek
  <2>4. [dek |-> req[r].slot, text |-> req[r].text] \in Envelope
    BY <2>2, <2>3 DEF Envelope
  <2>5. QED
    BY <2>1, <2>2, <2>4 DEF TypeOK, Stored
<1>2. CASE ~Upload(r)
  <2>1. UNCHANGED walrus
    BY <1>2 DEF RequestStep, Accept, SetPointer, RemovePointer, GetPointer, DownloadAndDecrypt, CallFails
  <2>2. QED
    BY <2>1 DEF TypeOK, Stored
<1>3. QED
  BY <1>1, <1>2

LEMMA SlotKept ==
  ASSUME TypeOK, Stored, NEW r \in Request, RequestStep(r)
  PROVE  SlotOK(r)
  BY AcceptStep, UploadStep, SetPointerStep, RemovePointerStep, GetPointerStep, FetchStep, FailStep
     DEF RequestStep

LEMMA PointerKept ==
  ASSUME TypeOK, NEW r \in Request, RequestStep(r)
  PROVE  \/ UNCHANGED pointer
         \/ pointer' = [pointer EXCEPT ![req[r].slot] = Nil]
         \/ /\ at[r] = "setPointer" /\ req[r] \in Fetch
            /\ pointer' = [pointer EXCEPT ![req[r].slot] = [blob |-> req[r].blob, sha |-> req[r].sha]]
  BY UploadStep, SetPointerStep, RemovePointerStep, GetPointerStep, FetchStep, FailStep
     DEF RequestStep, Accept

LEMMA TypeKept ==
  ASSUME TypeOK, Stored, NEW r \in Request, RequestStep(r)
  PROVE  TypeOK'
<1>1. pointer' \in [Slot -> Pointer \cup {Nil}]
  <2>1. CASE at[r] = "setPointer" /\ req[r] \in Fetch
             /\ pointer' = [pointer EXCEPT ![req[r].slot] = [blob |-> req[r].blob, sha |-> req[r].sha]]
    <3>1. [blob |-> req[r].blob, sha |-> req[r].sha] \in Pointer
      BY <2>1 DEF Fetch, Pointer
    <3>2. QED
      BY <2>1, <3>1 DEF TypeOK
  <2>2. QED
    BY <2>1, PointerKept DEF TypeOK
<1>2. SlotOK(r)
  BY SlotKept
<1>3. \A q \in Request :
        /\ at'[q] \in {"upload", "removePointer", "getPointer"} => req'[q] \in Job
        /\ at'[q] \in {"setPointer", "fetch"} => req'[q] \in Fetch
  BY <1>2, OthersKept DEF SlotOK, TypeOK
<1>4. QED
  BY <1>1, <1>2, <1>3, WalrusGrows DEF TypeOK, SlotOK, Requests

LEMMA UnansweredKept ==
  ASSUME TypeOK, Stored, Unanswered, NEW r \in Request, RequestStep(r)
  PROVE  Unanswered'
<1>1. at'[r] # "idle" => answer'[r] = [is |-> "none"]
  <2>1. CASE Accept(r)
    BY <2>1, AcceptStep
  <2>2. CASE Upload(r)
    BY <2>2, UploadStep DEF Unanswered
  <2>3. CASE SetPointer(r)
    BY <2>3, SetPointerStep
  <2>4. CASE RemovePointer(r)
    BY <2>4, RemovePointerStep
  <2>5. CASE GetPointer(r)
    BY <2>5, GetPointerStep DEF Unanswered
  <2>6. CASE DownloadAndDecrypt(r)
    BY <2>6, FetchStep
  <2>7. CASE CallFails(r)
    BY <2>7, FailStep
  <2>8. QED
    BY <2>1, <2>2, <2>3, <2>4, <2>5, <2>6, <2>7 DEF RequestStep
<1>2. QED
  BY <1>1, OthersKept DEF Unanswered

(* What resolves keeps resolving.                                          *)
LEMMA ResolvesForEver ==
  ASSUME TypeOK, NEW r \in Request, RequestStep(r), NEW s, NEW p, p.blob \in Blob, Resolves(s, p)
  PROVE  Resolves(s, p)'
  BY WalrusGrows DEF Resolves

LEMMA PointersKept ==
  ASSUME IInv, NEW r \in Request, RequestStep(r)
  PROVE  PointersResolve'
<1> USE DEF IInv
<1>1. ASSUME NEW s \in Slot, pointer'[s] # Nil
      PROVE  Resolves(s, pointer[s])' 
  <2>1. CASE pointer'[s] = pointer[s]
    <3>1. pointer[s].blob \in Blob /\ Resolves(s, pointer[s])
      BY <1>1, <2>1 DEF TypeOK, Pointer, PointersResolve
    <3>2. QED
      BY <2>1, <3>1, WalrusGrows DEF Resolves
  <2>2. CASE pointer'[s] # pointer[s]
    <3>1. /\ at[r] = "setPointer" /\ req[r] \in Fetch /\ s = req[r].slot
          /\ pointer'[s] = [blob |-> req[r].blob, sha |-> req[r].sha]
      BY <1>1, <2>2, PointerKept DEF TypeOK
    <3>2. Resolves(req[r].slot, req[r]) /\ req[r].blob \in Blob
      BY <3>1 DEF PointersResolve, Fetch
    <3>3. pointer'[s].blob = req[r].blob /\ pointer'[s].sha = req[r].sha
      BY <3>1
    <3>4. QED
      BY <3>1, <3>2, <3>3, WalrusGrows DEF Resolves
  <2>3. QED
    BY <2>1, <2>2
<1>2. ASSUME NEW q \in Request, at'[q] \in {"setPointer", "fetch"}
      PROVE  Resolves(req[q].slot, req[q])'
  <2>1. CASE q # r
    <3>1. at'[q] = at[q] /\ req'[q] = req[q]
      BY <2>1, OthersKept
    <3>2. Resolves(req[q].slot, req[q]) /\ req[q].blob \in Blob
      BY <1>2, <3>1 DEF PointersResolve, TypeOK, Fetch
    <3>3. QED
      BY <3>1, <3>2, WalrusGrows DEF Resolves
  <2>2. CASE q = r
    <3>1. CASE Accept(r)
      <4>1. PICK b \in Blob :
              /\ walrus[b] # Nil
              /\ req'[r] = [op |-> "read", slot |-> walrus[b].dek, blob |-> b, sha |-> walrus[b].text]
        BY <1>2, <2>2, <3>1, AcceptStep
      <4>2. req'[r].blob = b /\ req'[r].slot = walrus[b].dek /\ req'[r].sha = walrus[b].text
        BY <4>1
      <4>3. QED
        BY <2>2, <4>1, <4>2, WalrusGrows DEF Resolves
    <3>2. CASE Upload(r)
      <4>1. PICK b \in Blob :
              /\ walrus' = [walrus EXCEPT ![b] = [dek |-> req[r].slot, text |-> req[r].text]]
              /\ req'[r] = [op |-> req[r].op, slot |-> req[r].slot, blob |-> b, sha |-> req[r].text]
        BY <1>2, <2>2, <3>2, UploadStep
      <4>2. req'[r].blob = b /\ req'[r].slot = req[r].slot /\ req'[r].sha = req[r].text
        BY <4>1
      <4>3. walrus'[b] = [dek |-> req[r].slot, text |-> req[r].text]
        BY <4>1 DEF TypeOK
      <4>4. walrus'[b] # Nil
        BY <4>3, WalrusGrows, NilAssumption, UploadStep, <3>2 DEF Envelope, Job, Slot, Dek
      <4>5. QED
        BY <2>2, <4>2, <4>3, <4>4 DEF Resolves
    <3>3. CASE GetPointer(r)
      <4> DEFINE s == req[r].slot
      <4>1. /\ pointer[s] # Nil /\ s \in Slot
            /\ req'[r] = [op |-> req[r].op, slot |-> s, blob |-> pointer[s].blob, sha |-> pointer[s].sha]
        BY <1>2, <2>2, <3>3, GetPointerStep DEF Job
      <4>2. Resolves(s, pointer[s]) /\ pointer[s].blob \in Blob
        BY <4>1 DEF PointersResolve, TypeOK, Pointer
      <4>3. req'[r].slot = s /\ req'[r].blob = pointer[s].blob /\ req'[r].sha = pointer[s].sha
        BY <4>1
      <4>4. QED
        BY <2>2, <4>2, <4>3, WalrusGrows DEF Resolves
    <3>4. QED
      BY <1>2, <2>2, <3>1, <3>2, <3>3, SetPointerStep, RemovePointerStep, FetchStep, FailStep
         DEF RequestStep
  <2>3. QED
    BY <2>1, <2>2
<1>3. QED
  BY <1>1, <1>2 DEF PointersResolve

LEMMA NextIInv == IInv /\ [Next]_vars => IInv'
<1>1. ASSUME IInv, NEW r \in Request, RequestStep(r)
      PROVE  IInv'
  BY <1>1, TypeKept, UnansweredKept, PointersKept, WalrusGrows DEF IInv
<1>2. ASSUME IInv, UNCHANGED vars
      PROVE  IInv'
  BY <1>2 DEF IInv, vars, TypeOK, Stored, Unanswered, PointersResolve, Resolves
<1>3. QED
  BY <1>1, <1>2 DEF Next

LEMMA Invariance == Spec => []IInv
  BY InitIInv, NextIInv, PTL DEF Spec

(* Every request carries what its step needs, whatever was answered.       *)
THEOREM TypeCorrect == Spec => []TypeOK
<1>1. IInv => TypeOK
  BY DEF IInv
<1>2. QED
  BY <1>1, Invariance, PTL

(* No interleaving, failure or abandoned save leaves a pointer to a blob   *)
(* that is missing, is another slot's or is not the text of its hash.      *)
THEOREM PointersAlwaysResolve == Spec => []PointersResolve
<1>1. IInv => PointersResolve
  BY DEF IInv
<1>2. QED
  BY <1>1, Invariance, PTL

-----------------------------------------------------------------------------
(* The refinement.                                                         *)

(* The register's variables, as VaultStore instantiates them.              *)
Value == [s \in Slot |-> IF pointer[s] = Nil THEN Nil ELSE pointer[s].sha]
Published ==
  [s \in Slot |-> {walrus[b].text : b \in {c \in Blob : walrus[c] # Nil /\ walrus[c].dek = s}}]
Asked == [r \in Request |-> IF at[r] = "fetch" /\ req[r].op # "execute"
                              THEN [slot |-> req[r].slot, text |-> req[r].sha] ELSE Nil]
Answered == [r \in Request |-> ReadText(answer[r])]

LEMMA ReadTexts ==
  /\ \A t \in Text : ReadText(Read(t)) = t
  /\ \A x \in Failure \cup Done : ReadText([is |-> x]) = Nil
<1>1. ASSUME NEW t \in Text
      PROVE  ReadText(Read(t)) = t
  BY DEF ReadText, Read
<1>2. ASSUME NEW x \in Failure \cup Done
      PROVE  ReadText([is |-> x]) = Nil
  <2>1. ASSUME NEW t \in Text
        PROVE  [is |-> x] # [text |-> t]
    <3>1. "is" \in DOMAIN [is |-> x] /\ "is" \notin DOMAIN [text |-> t]
      OBVIOUS
    <3>2. QED
      BY <3>1
  <2>2. QED
    BY <2>1 DEF ReadText, Read
<1>3. QED
  BY <1>1, <1>2

LEMMA ReadNothing ==
  /\ ReadText([is |-> "none"]) = Nil /\ ReadText([is |-> "stored"]) = Nil
  /\ ReadText([is |-> "saved"]) = Nil /\ ReadText([is |-> "removed"]) = Nil
  /\ ReadText([is |-> "executed"]) = Nil
  /\ \A why \in Failure : ReadText([is |-> why]) = Nil
  BY ReadTexts DEF Failure, Done

(* Only the request that moves asks for or is answered anything.           *)
LEMMA OneMoves ==
  ASSUME TypeOK, NEW r \in Request, RequestStep(r)
  PROVE  /\ Asked' = [Asked EXCEPT ![r] = Asked'[r]]
         /\ Answered' = [Answered EXCEPT ![r] = Answered'[r]]
  BY OthersKept DEF Asked, Answered

LEMMA NothingMoves ==
  ASSUME TypeOK, NEW r \in Request, RequestStep(r), Asked'[r] = Asked[r], Answered'[r] = Answered[r]
  PROVE  UNCHANGED <<Asked, Answered>>
<1>1. Asked' = [Asked EXCEPT ![r] = Asked[r]] /\ Answered' = [Answered EXCEPT ![r] = Answered[r]]
  BY OneMoves
<1>2. [Asked EXCEPT ![r] = Asked[r]] = Asked /\ [Answered EXCEPT ![r] = Answered[r]] = Answered
  BY DEF Asked, Answered
<1>3. QED
  BY <1>1, <1>2

LEMMA ValueKept == UNCHANGED pointer => UNCHANGED Value
  BY DEF Value

LEMMA PublishedKept == UNCHANGED walrus => UNCHANGED Published
  BY DEF Published

(* Nothing has been answered to a request in flight, and nothing is asked  *)
(* for by one that does not download.                                      *)
LEMMA Pending ==
  ASSUME Unanswered, NEW r \in Request
  PROVE  /\ at[r] # "idle" => Answered[r] = Nil
         /\ at[r] # "fetch" => Asked[r] = Nil
  BY ReadNothing DEF Unanswered, Asked, Answered

LEMMA AcceptMaps ==
  ASSUME IInv, NEW r \in Request, Accept(r)
  PROVE  Register!Next
<1> USE DEF IInv
<1>1. /\ at[r] = "idle" /\ Answered'[r] = Nil /\ UNCHANGED <<Value, Published>>
      /\ RequestStep(r)
  BY AcceptStep, ReadNothing, ValueKept, PublishedKept DEF Answered, RequestStep
<1>2. CASE at'[r] \in {"upload", "removePointer", "getPointer"}
  <2>1. Asked'[r] = Nil
    BY <1>2 DEF Asked
  <2>2. Register!Drop(r)
    BY <1>1, <2>1, OneMoves DEF Register!Drop, Value, Published, Asked, Answered
  <2>3. QED
    BY <2>2 DEF Register!Next
<1>3. ASSUME NEW b \in Blob, walrus[b] # Nil, at'[r] = "fetch",
             req'[r] = [op |-> "read", slot |-> walrus[b].dek, blob |-> b, sha |-> walrus[b].text]
      PROVE  Register!Next
  <2>1. PICK s \in Slot, t \in Text : s = walrus[b].dek /\ t = walrus[b].text
    BY <1>3 DEF TypeOK, Stored, Envelope
  <2>2. req'[r].op = "read" /\ req'[r].slot = s /\ req'[r].sha = t
    BY <1>3, <2>1
  <2>3. Asked'[r] = [slot |-> s, text |-> t]
    BY <1>3, <2>2 DEF Asked
  <2>4. t \in Published[s]
    BY <1>3, <2>1 DEF Published
  <2>5. Register!LookAt(r, s, t)
    BY <1>1, <2>3, <2>4, OneMoves DEF Register!LookAt, Value, Published, Asked, Answered
  <2>6. QED
    BY <2>1, <2>5 DEF Register!Next
<1>4. QED
  BY <1>2, <1>3, AcceptStep

LEMMA UploadMaps ==
  ASSUME IInv, NEW r \in Request, Upload(r)
  PROVE  Register!Next
<1> USE DEF IInv
<1>0. PICK s \in Slot, t \in Text : s = req[r].slot /\ t = req[r].text
  BY UploadStep DEF Job
<1>1. at[r] = "upload" /\ UNCHANGED Value /\ RequestStep(r)
  BY UploadStep, ValueKept DEF RequestStep
<1>2. Asked'[r] = Nil /\ Answered'[r] = Nil
  BY <1>1, UploadStep, Pending, ReadNothing DEF Asked, Answered, Failure
<1>3. Asked[r] = Nil /\ Answered[r] = Nil
  BY <1>1, Pending
<1>4. UNCHANGED <<Asked, Answered>>
  BY <1>1, <1>2, <1>3, NothingMoves
<1>5. PICK b \in Blob : walrus[b] = Nil /\ walrus' = [walrus EXCEPT ![b] = [dek |-> s, text |-> t]]
  BY <1>0, UploadStep
<1>6. walrus'[b] # Nil /\ walrus'[b].dek = s /\ walrus'[b].text = t
  <2>1. [dek |-> s, text |-> t] \in Envelope
    BY <1>1 DEF Envelope, Slot, Dek
  <2>2. QED
    BY <1>5, <2>1, NilAssumption DEF TypeOK
<1>7. \A c \in Blob : c # b => walrus'[c] = walrus[c]
  BY <1>5 DEF TypeOK
<1>8. \A z \in Slot : z # s => Published'[z] = Published[z]
  BY <1>5, <1>6, <1>7 DEF Published
<1>9. Published'[s] = Published[s] \cup {t}
  <2>1. \A x : x \in Published'[s] <=> x = t \/ x \in Published[s]
    BY <1>1, <1>5, <1>6, <1>7 DEF Published
  <2>2. QED
    BY <2>1
<1>10. Published' = [Published EXCEPT ![s] = @ \cup {t}]
  BY <1>1, <1>8, <1>9 DEF Published
<1>11. Register!Publish(s, t)
  BY <1>1, <1>4, <1>10 DEF Register!Publish, Value, Published, Asked, Answered
<1>12. QED
  BY <1>1, <1>11 DEF Register!Next

(* A call that ends without a text, having asked for none.                 *)
LEMMA EndsSilently ==
  ASSUME IInv, NEW r \in Request, RequestStep(r), at[r] \notin {"idle", "fetch"},
         at'[r] = "idle", ReadText(answer'[r]) = Nil
  PROVE  UNCHANGED <<Asked, Answered>>
<1>1. Asked[r] = Nil /\ Answered[r] = Nil
  BY Pending DEF IInv
<1>2. Asked'[r] = Nil /\ Answered'[r] = Nil
  BY DEF Asked, Answered
<1>3. QED
  BY <1>1, <1>2, NothingMoves DEF IInv

LEMMA SetPointerMaps ==
  ASSUME IInv, NEW r \in Request, SetPointer(r)
  PROVE  Register!Next
<1> USE DEF IInv
<1>0. PICK s \in Slot, t \in Text : s = req[r].slot /\ t = req[r].sha
  BY SetPointerStep DEF Fetch
<1>1. /\ at[r] = "setPointer" /\ UNCHANGED Published
      /\ RequestStep(r) /\ req[r].blob \in Blob
  BY SetPointerStep, PublishedKept DEF Fetch, RequestStep
<1>2. UNCHANGED <<Asked, Answered>>
  BY <1>1, SetPointerStep, ReadNothing, EndsSilently DEF Failure
<1>3. t \in Published[s]
  BY <1>0, <1>1 DEF PointersResolve, Resolves, Published
<1>4. pointer' = [pointer EXCEPT ![s] = [blob |-> req[r].blob, sha |-> t]]
  BY <1>0, SetPointerStep
<1>5. pointer'[s] # Nil /\ pointer'[s].sha = t
  <2>1. [blob |-> req[r].blob, sha |-> t] \in Pointer
    BY <1>1 DEF Pointer
  <2>2. QED
    BY <1>1, <1>4, <2>1, NilAssumption DEF TypeOK
<1>6. Value' = [Value EXCEPT ![s] = t]
  BY <1>1, <1>4, <1>5 DEF Value, TypeOK
<1>7. Register!Write(s, t)
  BY <1>1, <1>2, <1>3, <1>6 DEF Register!Write, Value, Published, Asked, Answered
<1>8. QED
  BY <1>1, <1>7 DEF Register!Next

LEMMA RemovePointerMaps ==
  ASSUME IInv, NEW r \in Request, RemovePointer(r)
  PROVE  Register!Next
<1> USE DEF IInv
<1>0. PICK s \in Slot : s = req[r].slot
  BY RemovePointerStep DEF Job
<1>1. at[r] = "removePointer" /\ UNCHANGED Published /\ RequestStep(r)
  BY RemovePointerStep, PublishedKept DEF Job, RequestStep
<1>2. UNCHANGED <<Asked, Answered>>
  BY <1>1, RemovePointerStep, ReadNothing, EndsSilently DEF Failure
<1>3. Value' = [Value EXCEPT ![s] = Nil]
  BY <1>0, <1>1, RemovePointerStep DEF Value, TypeOK
<1>4. Register!Clear(s)
  BY <1>1, <1>2, <1>3 DEF Register!Clear, Value, Published, Asked, Answered
<1>5. QED
  BY <1>1, <1>4 DEF Register!Next

LEMMA GetPointerMaps ==
  ASSUME IInv, NEW r \in Request, GetPointer(r)
  PROVE  Register!Next \/ UNCHANGED <<Value, Published, Asked, Answered>>
<1> USE DEF IInv
<1>0. PICK s \in Slot : s = req[r].slot
  BY GetPointerStep DEF Job
<1>1. /\ at[r] = "getPointer" /\ UNCHANGED <<Value, Published>> /\ RequestStep(r)
  BY GetPointerStep, ValueKept, PublishedKept DEF Job, RequestStep
<1>2. CASE at'[r] = "idle"
  BY <1>1, <1>2, GetPointerStep, ReadNothing, EndsSilently DEF Failure
<1>3. CASE at'[r] = "fetch"
  <2>1. /\ pointer[s] # Nil /\ answer' = answer
        /\ req'[r] = [op |-> req[r].op, slot |-> s, blob |-> pointer[s].blob, sha |-> pointer[s].sha]
    BY <1>0, <1>3, GetPointerStep
  <2>2. req'[r].op = req[r].op /\ req'[r].slot = s /\ req'[r].sha = pointer[s].sha
    BY <2>1
  <2>3. UNCHANGED Answered
    BY <2>1 DEF Answered
  <2>4. CASE req[r].op = "execute"
    <3>1. Asked'[r] = Nil /\ Asked[r] = Nil
      BY <1>1, <1>3, <2>2, <2>4 DEF Asked
    <3>2. UNCHANGED Asked
      BY <1>1, <3>1, OneMoves DEF Asked
    <3>3. QED
      BY <1>1, <2>3, <3>2
  <2>5. CASE req[r].op # "execute"
    <3>1. Value[s] = pointer[s].sha /\ Value[s] # Nil
      BY <1>1, <2>1, NilAssumption DEF Value, TypeOK, Pointer
    <3>2. Asked'[r] = [slot |-> s, text |-> Value[s]]
      BY <1>3, <2>2, <2>5, <3>1 DEF Asked
    <3>3. Register!Look(r, s)
      <4>1. Asked' = [Asked EXCEPT ![r] = Asked'[r]]
        BY <1>1, OneMoves
      <4>2. Asked' = [Asked EXCEPT ![r] = [slot |-> s, text |-> Value[s]]]
        BY <3>2, <4>1
      <4>3. QED
        BY <1>1, <2>3, <3>1, <4>2 DEF Register!Look, Value, Published, Asked, Answered
    <3>4. QED
      BY <1>1, <3>3 DEF Register!Next
  <2>6. QED
    BY <2>4, <2>5
<1>4. QED
  BY <1>2, <1>3, GetPointerStep

(* Ending a request with no text drops what it asked for.                  *)
LEMMA EndMaps ==
  ASSUME IInv, NEW r \in Request, RequestStep(r), UNCHANGED <<walrus, pointer>>,
         at'[r] = "idle", ReadText(answer'[r]) = Nil
  PROVE  Register!Next
<1>1. Asked'[r] = Nil /\ Answered'[r] = Nil
  BY DEF Asked, Answered
<1>2. Register!Drop(r)
  BY <1>1, OneMoves, ValueKept, PublishedKept
     DEF IInv, Register!Drop, Value, Published, Asked, Answered
<1>3. QED
  BY <1>2 DEF Register!Next

LEMMA FetchMaps ==
  ASSUME IInv, NEW r \in Request, DownloadAndDecrypt(r)
  PROVE  Register!Next
<1> USE DEF IInv
<1>1. /\ at[r] = "fetch" /\ req[r] \in Fetch /\ UNCHANGED <<walrus, pointer>> /\ RequestStep(r)
      /\ at'[r] = "idle"
  BY FetchStep DEF RequestStep
<1>2. CASE req[r].op # "execute" /\ answer'[r] = Read(req[r].sha)
  <2>1. Asked[r] = [slot |-> req[r].slot, text |-> req[r].sha] /\ Asked'[r] = Nil
    BY <1>1, <1>2 DEF Asked
  <2>2. [slot |-> req[r].slot, text |-> req[r].sha] \in [slot: Slot, text: Text]
    BY <1>1 DEF Fetch
  <2>3. Asked[r] # Nil /\ Asked[r].text = req[r].sha
    BY <2>1, <2>2, NilAssumption
  <2>4. Answered'[r] = req[r].sha
    BY <1>1, <1>2, ReadTexts DEF Answered, Fetch
  <2>5. Register!Return(r)
    BY <1>1, <2>1, <2>3, <2>4, OneMoves, ValueKept, PublishedKept
       DEF Register!Return, Value, Published, Asked, Answered
  <2>6. QED
    BY <2>5 DEF Register!Next
<1>3. CASE \/ \E why \in Failure : answer'[r] = [is |-> why]
           \/ answer'[r] = [is |-> "executed"]
  BY <1>1, <1>3, ReadNothing, EndMaps
<1>4. QED
  BY <1>2, <1>3, FetchStep

LEMMA FailMaps ==
  ASSUME IInv, NEW r \in Request, CallFails(r)
  PROVE  Register!Next
<1>1. RequestStep(r) /\ UNCHANGED <<walrus, pointer>> /\ at'[r] = "idle" /\ "error" \in Failure
      /\ answer'[r] = [is |-> "error"]
  BY FailStep DEF RequestStep, Failure, IInv
<1>2. QED
  BY <1>1, ReadNothing, EndMaps

(* Writes, pointers and reads together are last-writer-wins registers: a   *)
(* read returns exactly the version it asked for or an error, whatever     *)
(* bytes the aggregator serves and whatever fails in between.              *)
THEOREM StoreImplementsRegister == Spec => ImplementsRegister
<1>1. Init => Register!Init
  <2> SUFFICES ASSUME Init
               PROVE  Register!Init
    OBVIOUS
  <2>2. Value = [s \in Slot |-> Nil] /\ Asked = [r \in Request |-> Nil]
    BY DEF Init, Value, Asked
  <2>3. Published = [s \in Slot |-> {}]
    BY DEF Init, Published
  <2>4. Answered = [r \in Request |-> Nil]
    BY ReadNothing DEF Init, Answered
  <2>5. QED
    BY <2>2, <2>3, <2>4 DEF Register!Init, Value, Published, Asked, Answered
<1>2. IInv /\ [Next]_vars => [Register!Next]_(Register!vars)
  <2>1. ASSUME IInv, NEW r \in Request, RequestStep(r)
        PROVE  Register!Next \/ UNCHANGED <<Value, Published, Asked, Answered>>
    BY <2>1, AcceptMaps, UploadMaps, SetPointerMaps, RemovePointerMaps, GetPointerMaps, FetchMaps,
       FailMaps DEF RequestStep
  <2>2. ASSUME UNCHANGED vars
        PROVE  UNCHANGED <<Value, Published, Asked, Answered>>
    BY <2>2 DEF vars, Value, Published, Asked, Answered
  <2>3. UNCHANGED <<Value, Published, Asked, Answered>> => UNCHANGED Register!vars
    BY DEF Register!vars, Value, Published, Asked, Answered
  <2>4. QED
    BY <2>1, <2>2, <2>3 DEF Next
<1>3. QED
  BY <1>1, <1>2, Invariance, PTL DEF Spec, ImplementsRegister, Register!Spec

-----------------------------------------------------------------------------
(* Which entries decrypt.                                                  *)

(* The executor asks for a key with the blob id in the place of the        *)
(* identifier, and no slot has that key.                                   *)
LEMMA ExecutionsFail ==
  ASSUME IInv, NEW r \in Request, DownloadAndDecrypt(r), req[r].op = "execute"
  PROVE  answer'[r] = [is |-> "DecryptionFailed"]
<1>1. req[r] \in Fetch /\ req[r].blob \in Blob
  BY DEF DownloadAndDecrypt, IInv, TypeOK, Fetch
<1>2. ASSUME NEW e \in Served(req[r].blob)
      PROVE  ~Decrypts(e, ReadDek(req[r]))
  <2> SUFFICES ASSUME e # Nil, e.dek = ReadDek(req[r]) PROVE FALSE
    BY DEF Decrypts
  <2>1. \E b \in Blob : e = walrus[b]
    BY <1>1 DEF Served
  <2>2. e.dek \in Slot
    BY <2>1 DEF IInv, Stored
  <2>3. e.dek.id \in Ident
    BY <2>2 DEF Slot
  <2>4. ReadDek(req[r]).id = req[r].blob
    BY DEF ReadDek
  <2>5. QED
    BY <1>1, <2>3, <2>4, IdentAssumption
<1>3. Fail(r, "DecryptionFailed")
  BY <1>2 DEF DownloadAndDecrypt
<1>4. QED
  BY <1>3, FailType DEF Failure, IInv

(* An answer other than a text is known by its word.                       *)
LEMMA WordsDiffer ==
  ASSUME NEW x, NEW y, [is |-> x] = [is |-> y]
  PROVE  x = y
<1>1. [is |-> x].is = [is |-> y].is
  OBVIOUS
<1>2. QED
  BY <1>1

(* Only a download answers anything else.                                  *)
LEMMA PlainAnswers ==
  ASSUME TypeOK, Stored, NEW r \in Request, RequestStep(r), ~DownloadAndDecrypt(r)
  PROVE  \/ answer'[r] = answer[r]
         \/ \E w \in {"none", "stored", "saved", "removed", "error"} : answer'[r] = [is |-> w]
<1>1. CASE Accept(r)
  BY <1>1, AcceptStep
<1>2. CASE Upload(r)
  <2>1. \/ answer'[r] = [is |-> "stored"] \/ answer'[r] = [is |-> "error"]
        \/ answer' = answer
    BY <1>2, UploadStep
  <2>2. QED
    BY <2>1
<1>3. CASE SetPointer(r)
  BY <1>3, SetPointerStep
<1>4. CASE RemovePointer(r)
  BY <1>4, RemovePointerStep
<1>5. CASE GetPointer(r)
  BY <1>5, GetPointerStep
<1>6. CASE CallFails(r)
  BY <1>6, FailStep
<1>7. QED
  BY <1>1, <1>2, <1>3, <1>4, <1>5, <1>6 DEF RequestStep

(* No request was answered that its skill ran.                             *)
NothingExecuted == \A r \in Request : answer[r] # [is |-> "executed"]

LEMMA RequestNothingExecuted ==
  ASSUME IInv, NothingExecuted, NEW r \in Request, RequestStep(r)
  PROVE  NothingExecuted'
<1> USE DEF IInv
<1>1. answer'[r] # [is |-> "executed"]
  <2>1. CASE ~DownloadAndDecrypt(r)
    BY <2>1, PlainAnswers, WordsDiffer DEF NothingExecuted
  <2>2. CASE DownloadAndDecrypt(r)
    <3>1. CASE req[r].op = "execute"
      BY <2>2, <3>1, ExecutionsFail
    <3>2. CASE req[r].op # "execute"
      <4>1. \/ \E why \in Failure : answer'[r] = [is |-> why]
            \/ answer'[r] = Read(req[r].sha)
        BY <2>2, <3>2, FetchStep
      <4>2. Read(req[r].sha) # [is |-> "executed"]
        <5>1. DOMAIN Read(req[r].sha) = {"text"} /\ DOMAIN [is |-> "executed"] = {"is"}
          BY DEF Read
        <5>2. QED
          BY <5>1
      <4>3. \A why \in Failure : [is |-> why] # [is |-> "executed"]
        BY DEF Failure
      <4>4. QED
        BY <4>1, <4>2, <4>3
    <3>3. QED
      BY <3>1, <3>2
  <2>3. QED
    BY <2>1, <2>2
<1>2. QED
  BY <1>1, OthersKept DEF NothingExecuted

(* No skill is ever executed: what the gateway writes for one, no execution*)
(* decrypts, whatever the aggregator serves.  The run that shows it fail   *)
(* once is no accident of its instance.                                    *)
THEOREM SkillsNeverRun == Spec => []NothingExecuted
<1>1. Init => NothingExecuted
  BY DEF Init, NothingExecuted
<1>2. IInv /\ NothingExecuted /\ [Next]_vars => NothingExecuted'
  <2>1. ASSUME NothingExecuted, UNCHANGED vars PROVE NothingExecuted'
    BY <2>1 DEF vars, NothingExecuted
  <2>2. QED
    BY <2>1, RequestNothingExecuted DEF Next
<1>3. QED
  BY <1>1, <1>2, Invariance, PTL DEF Spec

(* What a read with a faithful aggregator is answered.                     *)
LEMMA ReadsSucceed ==
  ASSUME IInv, WalrusFaithful, NEW r \in Request, DownloadAndDecrypt(r), req[r].op # "execute"
  PROVE  answer'[r] = Read(req[r].sha)
<1>1. req[r] \in Fetch /\ Resolves(req[r].slot, req[r])
  BY DEF DownloadAndDecrypt, IInv, TypeOK, Fetch, PointersResolve
<1>2. /\ Served(req[r].blob) = {walrus[req[r].blob]}
      /\ Decrypts(walrus[req[r].blob], ReadDek(req[r])) /\ walrus[req[r].blob].text = req[r].sha
  BY <1>1 DEF Served, Decrypts, ReadDek, DekOf, Resolves
<1>3. Answer(r, Read(req[r].sha))
  BY <1>1, <1>2 DEF DownloadAndDecrypt
<1>4. QED
  BY <1>3 DEF Answer, IInv, TypeOK

(* A request that is answered DecryptionFailed was an execution.           *)
OnlyExecutionsFail ==
  \A r \in Request :
    at[r] # "idle" /\ at'[r] = "idle" /\ answer'[r] = [is |-> "DecryptionFailed"] =>
      req[r].op = "execute"

LEMMA RequestDecrypts ==
  ASSUME IInv, WalrusFaithful, NEW r \in Request, RequestStep(r), at[r] # "idle",
         at'[r] = "idle", req[r].op # "execute"
  PROVE  answer'[r] # [is |-> "DecryptionFailed"]
<1> USE DEF IInv
<1>1. CASE ~DownloadAndDecrypt(r)
  <2>1. answer[r] = [is |-> "none"]
    BY DEF Unanswered
  <2>2. QED
    BY <1>1, <2>1, PlainAnswers, WordsDiffer
<1>2. CASE DownloadAndDecrypt(r)
  <2>1. answer'[r] = Read(req[r].sha)
    BY <1>2, ReadsSucceed
  <2>2. DOMAIN Read(req[r].sha) = {"text"} /\ DOMAIN [is |-> "DecryptionFailed"] = {"is"}
    BY DEF Read
  <2>3. QED
    BY <2>1, <2>2
<1>3. QED
  BY <1>1, <1>2

(* Execution is the only exception to StoredEntriesDecrypt: everything else*)
(* that reads an entry decrypts it, as long as Walrus serves what it       *)
(* stored, however saves, removals and failures interleave with the read.  *)
THEOREM ReadsDecrypt ==
  ASSUME WalrusFaithful
  PROVE  Spec => [][OnlyExecutionsFail]_vars
<1>1. IInv /\ [Next]_vars => [OnlyExecutionsFail]_vars
  <2> SUFFICES ASSUME IInv, Next, NEW r \in Request, at[r] # "idle", at'[r] = "idle",
                      req[r].op # "execute"
               PROVE  answer'[r] # [is |-> "DecryptionFailed"]
    BY DEF OnlyExecutionsFail
  <2>1. PICK q \in Request : RequestStep(q)
    BY DEF Next
  <2>2. q = r
    BY <2>1, OthersKept DEF IInv
  <2>3. QED
    BY <2>1, <2>2, RequestDecrypts
<1>2. QED
  BY <1>1, Invariance, PTL DEF Spec
=============================================================================
