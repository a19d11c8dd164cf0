--------------------------- MODULE WikiEditorProofs --------------------------
(***************************************************************************)
(* Proofs about WikiEditor for any pages, texts, operations in flight and  *)
(* clicks.                                                                 *)
(***************************************************************************)
EXTENDS WikiEditor, TLAPS

SaveStep == {"write", "setPointer", "pointerSet"}
SelectStep == {"getPointer", "gotPointer", "read"}

(* An operation awaits only calls of its own kind and knows its page; the  *)
(* fetches that have the signal do not outlive an abort.                   *)
JobOK(job) ==
  /\ job.kind = "save" => job.at \in SaveStep /\ job.slug \in Slug
  /\ job.kind = "select" => job.at \in SelectStep /\ job.slug \in Slug
  /\ job.kind \notin {"save", "select"} => job.at \notin SaveStep \cup SelectStep
  /\ job.kind = "delete" => job.slug \in Slug
  /\ job.at \in {"read", "write"} => ~job.aborted

JobsOK == \A c \in Call : JobOK(call[c])

(* A select or a save that nothing aborted.                                *)
Live(c) == call[c].kind \in {"select", "save"} /\ ~call[c].aborted

(* abortRef: at most one.                                                  *)
OneLive == \A c, d \in Call : Live(c) /\ Live(d) => c = d

(* The page that is being loaded is the selected one, unless it was deleted*)
(* meanwhile, which closes the editor.                                     *)
LoadsSelected ==
  \A c \in Call : (call[c].kind = "select" /\ ~call[c].aborted) =>
    /\ ~state.isNew
    /\ state.selected \in {Nil, call[c].slug}

IInv == TypeOK /\ JobsOK /\ OneSave /\ OneLive /\ LoadsSelected /\ EditorOwnsVersions

LEMMA InitIInv == Init => IInv
<1> SUFFICES ASSUME Init PROVE IInv
  OBVIOUS
<1>1. PICK c \in Call :
        call = [d \in Call |-> IF d = c THEN NewJob("list", "list", Nil, Empty) ELSE NoJob]
  BY DEF Init
<1>2. NewJob("list", "list", Nil, Empty) \in Job
  BY TextAssumption DEF NewJob, Job, Await
<1>3. TypeOK
  <2>1. state \in State
    BY TextAssumption DEF Init, State, Status
  <2>2. call \in [Call -> Job \cup {NoJob}]
    BY <1>1, <1>2
  <2>3. page \in [Slug -> Text \cup {Nil}] /\ saving \in BOOLEAN
    BY DEF Init
  <2>4. clicks \in 0..MaxClicks
    BY ClicksAssumption DEF Init
  <2>5. QED
    BY <2>1, <2>2, <2>3, <2>4 DEF TypeOK
<1>4. \A d \in Call : call[d].kind \in {"list", "none"} /\ call[d].at \in {"list", "none"}
  BY <1>1 DEF NewJob, NoJob
<1>5. JobsOK /\ OneLive /\ LoadsSelected
  BY <1>4 DEF JobsOK, JobOK, OneLive, Live, LoadsSelected, SaveStep, SelectStep
<1>6. OneSave
  BY <1>4 DEF Init, OneSave, Kind
<1>7. EditorOwnsVersions
  BY DEF Init, EditorOwnsVersions, EditorOpen
<1>8. QED
  BY <1>3, <1>5, <1>6, <1>7 DEF IInv

-----------------------------------------------------------------------------
(* What a step does to the operations in flight.                           *)

Jobs == Job \cup {NoJob}

LEMMA AbortEffect ==
  ASSUME NEW job \in Jobs, JobOK(job)
  PROVE  /\ AfterAbort(job) \in Jobs /\ JobOK(AfterAbort(job))
         /\ AfterAbort(job) = NoJob \/ AfterAbort(job).kind = job.kind
         /\ ~(AfterAbort(job).kind \in {"select", "save"} /\ ~AfterAbort(job).aborted)
         /\ job.kind = "save" => (AfterAbort(job).kind = "save" <=> job.at # "write")
<1>1. CASE ~Abortable(job)
  BY <1>1 DEF AfterAbort, Abortable
<1>2. CASE Abortable(job) /\ job.at \in {"read", "write"}
  BY <1>2 DEF AfterAbort, Jobs, NoJob, JobOK, SaveStep, SelectStep
<1>3. CASE Abortable(job) /\ job.at \notin {"read", "write"}
  <2>1. AfterAbort(job) = [job EXCEPT !.aborted = TRUE] /\ job \in Job
    BY <1>3 DEF AfterAbort, Jobs, NoJob, Abortable
  <2>2. AfterAbort(job) = [kind |-> job.kind, at |-> job.at, slug |-> job.slug, text |-> job.text,
                           found |-> job.found, aborted |-> TRUE]
    BY <2>1 DEF Job
  <2>3. QED
    BY <1>3, <2>1, <2>2 DEF Jobs, Job, JobOK
<1>4. QED
  BY <1>1, <1>2, <1>3

(* How operation c goes on, or ends.                                       *)
Moves(c) ==
  /\ call' \in [Call -> Jobs]
  /\ \A d \in Call : d # c => call'[d] = call[d]
  /\ JobOK(call'[c])
  /\ \/ call'[c] = NoJob /\ saving' = (saving /\ call[c].kind # "save")
     \/ /\ call'[c].kind = call[c].kind /\ call'[c].slug = call[c].slug
        /\ call'[c].aborted = call[c].aborted /\ saving' = saving

LEMMA EndMoves ==
  ASSUME TypeOK, NEW c \in Call, End(c), Unlock(c) \/ (saving' = saving /\ call[c].kind # "save")
  PROVE  Moves(c) /\ call'[c] = NoJob
<1>1. saving' = (saving /\ call[c].kind # "save")
  BY DEF Unlock, Kind, TypeOK
<1>2. QED
  BY <1>1 DEF TypeOK, End, Continue, Moves, Jobs, JobOK, NoJob, SaveStep, SelectStep

LEMMA GoesOn ==
  ASSUME TypeOK, NEW c \in Call, NEW job \in Job, Continue(c, job), JobOK(job), saving' = saving,
         job.kind = call[c].kind, job.slug = call[c].slug, job.aborted = call[c].aborted
  PROVE  Moves(c) /\ call'[c] = job
  BY DEF TypeOK, Continue, Moves, Jobs

LEMMA RunningType ==
  ASSUME TypeOK, JobsOK, NEW c \in Call, call[c].at # "none"
  PROVE  call[c] \in Job /\ JobOK(call[c])
  BY DEF TypeOK, JobsOK, NoJob

LEMMA CallMoves ==
  ASSUME TypeOK, JobsOK, NEW c \in Call, CallStep(c)
  PROVE  Moves(c)
<1>1. CASE ServeList(c)
  <2>1. call[c] \in Job /\ JobOK(call[c])
    BY <1>1, RunningType DEF ServeList
  <2>2. PICK job : job = [call[c] EXCEPT !.at = "listed", !.found = {s \in Slug : page[s] # Nil}]
    OBVIOUS
  <2>3. /\ job \in Job /\ JobOK(job)
        /\ job.kind = call[c].kind /\ job.slug = call[c].slug /\ job.aborted = call[c].aborted
    BY <1>1, <2>1, <2>2 DEF ServeList, Job, JobOK, SaveStep, SelectStep, Await
  <2>4. QED
    BY <1>1, <2>2, <2>3, GoesOn DEF ServeList
<1>2. CASE ServeGetPointer(c)
  <2>1. call[c] \in Job /\ JobOK(call[c])
    BY <1>2, RunningType DEF ServeGetPointer
  <2>2. PICK job : job = [call[c] EXCEPT !.at = "gotPointer", !.text = page[call[c].slug]]
    OBVIOUS
  <2>3. call[c].kind = "select" /\ page[call[c].slug] \in Text
    BY <1>2, <2>1 DEF ServeGetPointer, Job, JobOK, SaveStep, SelectStep, TypeOK
  <2>4. /\ job \in Job /\ JobOK(job)
        /\ job.kind = call[c].kind /\ job.slug = call[c].slug /\ job.aborted = call[c].aborted
    BY <2>1, <2>2, <2>3 DEF Job, JobOK, SelectStep, Await
  <2>5. QED
    BY <1>2, <2>2, <2>4, GoesOn DEF ServeGetPointer
<1>3. CASE ServeSetPointer(c) \/ BlobWritten(c)
  <2>1. call[c] \in Job /\ JobOK(call[c])
    BY <1>3, RunningType DEF ServeSetPointer, BlobWritten
  <2>2. PICK at \in {"setPointer", "pointerSet"} :
          Continue(c, [call[c] EXCEPT !.at = at]) /\ saving' = saving
    BY <1>3 DEF ServeSetPointer, BlobWritten
  <2>3. PICK job : job = [call[c] EXCEPT !.at = at]
    OBVIOUS
  <2>4. call[c].kind = "save"
    BY <1>3, <2>1 DEF ServeSetPointer, BlobWritten, Job, JobOK, SaveStep, SelectStep
  <2>5. /\ job \in Job /\ JobOK(job)
        /\ job.kind = call[c].kind /\ job.slug = call[c].slug /\ job.aborted = call[c].aborted
    BY <2>1, <2>2, <2>3, <2>4 DEF Job, JobOK, SaveStep, Await
  <2>6. QED
    BY <2>2, <2>3, <2>5, GoesOn
<1>4. CASE ServeRemove(c)
  <2>1. call[c] \in Job /\ JobOK(call[c])
    BY <1>4, RunningType DEF ServeRemove
  <2>2. PICK job : job = [call[c] EXCEPT !.at = "removed"]
    OBVIOUS
  <2>3. /\ job \in Job /\ JobOK(job)
        /\ job.kind = call[c].kind /\ job.slug = call[c].slug /\ job.aborted = call[c].aborted
    BY <1>4, <2>1, <2>2 DEF ServeRemove, Job, JobOK, SaveStep, SelectStep, Await
  <2>4. QED
    BY <1>4, <2>2, <2>3, GoesOn DEF ServeRemove
<1>5. CASE PointerFound(c)
  <2>1. call[c] \in Job /\ JobOK(call[c])
    BY <1>5, RunningType DEF PointerFound
  <2>2. call[c].kind = "select"
    BY <1>5, <2>1 DEF PointerFound, Job, JobOK, SaveStep, SelectStep
  <2>3. CASE call[c].aborted
    BY <1>5, <2>2, <2>3, EndMoves DEF PointerFound
  <2>4. CASE ~call[c].aborted
    <3>1. PICK job : job = [call[c] EXCEPT !.at = "read"]
      OBVIOUS
    <3>2. /\ job \in Job /\ JobOK(job)
          /\ job.kind = call[c].kind /\ job.slug = call[c].slug /\ job.aborted = call[c].aborted
      BY <2>1, <2>2, <2>4, <3>1 DEF Job, JobOK, SelectStep, Await
    <3>3. QED
      BY <1>5, <2>4, <3>1, <3>2, GoesOn DEF PointerFound
  <2>5. QED
    BY <2>3, <2>4
<1>6. CASE SlugsListed(c) \/ PlaintextRead(c) \/ PageRemoved(c)
  <2>1. call[c].kind # "save"
    BY <1>6, RunningType DEF SlugsListed, PlaintextRead, PageRemoved, JobOK, SaveStep
  <2>2. QED
    BY <1>6, <2>1, EndMoves DEF SlugsListed, PlaintextRead, PageRemoved
<1>7. CASE PointerCommitted(c) \/ CallFails(c)
  BY <1>7, EndMoves DEF PointerCommitted, CallFails
<1>8. QED
  BY <1>1, <1>2, <1>3, <1>4, <1>5, <1>6, <1>7 DEF CallStep

-----------------------------------------------------------------------------
(* What clicks do to the operations in flight.                             *)

NothingLive(D) == \A d \in Call \ D : ~(call'[d].kind \in {"select", "save"} /\ ~call'[d].aborted)

AbortedBut(D) == \A d \in Call \ D : call'[d] = AfterAbort(call[d])

LEMMA AbortAll ==
  ASSUME TypeOK, JobsOK, OneSave, NEW D \in SUBSET Call, AbortedBut(D), saving' = LockAfterAbort,
         \A d \in D : call'[d].kind # "save" /\ call[d].kind # "save"
  PROVE  NothingLive(D) /\ OneSave'
<1>1. \A d \in Call \ D :
        /\ AfterAbort(call[d]) = call'[d]
        /\ ~(call'[d].kind \in {"select", "save"} /\ ~call'[d].aborted)
        /\ call'[d] = NoJob \/ call'[d].kind = call[d].kind
        /\ call[d].kind = "save" => (call'[d].kind = "save" <=> call[d].at # "write")
  BY AbortEffect DEF TypeOK, JobsOK, Jobs, AbortedBut
<1>2. NothingLive(D)
  BY <1>1 DEF NothingLive
<1>3. \A d \in Call : call'[d].kind = "save" <=> call[d].kind = "save" /\ call[d].at # "write"
  BY <1>1 DEF NoJob
<1>4. Kind("save")' = {d \in Kind("save") : call[d].at # "write"}
  BY <1>3 DEF Kind
<1>5. QED
  BY <1>2, <1>4 DEF OneSave, LockAfterAbort

LEMMA AbortTypes ==
  ASSUME TypeOK, JobsOK, NEW job \in Job, JobOK(job), AbortAndStart(job)
  PROVE  /\ call' \in [Call -> Jobs] /\ JobsOK'
         /\ \E c \in Free : call'[c] = job /\ AbortedBut({c})
<1>1. PICK c \in Free : call' = [d \in Call |-> IF d = c THEN job ELSE AfterAbort(call[d])]
  BY DEF AbortAndStart
<1>2. \A d \in Call : AfterAbort(call[d]) \in Jobs /\ JobOK(AfterAbort(call[d]))
  BY AbortEffect DEF TypeOK, JobsOK, Jobs
<1>3. QED
  BY <1>1, <1>2 DEF Jobs, JobsOK, AbortedBut, Free

LEMMA NewJobType ==
  ASSUME NEW s \in Slug, NEW t \in Text
  PROVE  /\ NewJob("select", "getPointer", s, t) \in Job /\ JobOK(NewJob("select", "getPointer", s, t))
         /\ NewJob("save", "write", s, t) \in Job /\ JobOK(NewJob("save", "write", s, t))
         /\ NewJob("delete", "remove", s, t) \in Job /\ JobOK(NewJob("delete", "remove", s, t))
  BY DEF NewJob, Job, JobOK, SaveStep, SelectStep, Await

-----------------------------------------------------------------------------
(* IInv is inductive.                                                      *)

LEMMA ClickType ==
  ASSUME TypeOK, Click
  PROVE  clicks' \in 0..MaxClicks
  BY ClicksAssumption DEF TypeOK, Click

LEMMA SelectIInv ==
  ASSUME IInv, NEW s \in Slug, SelectPage(s)
  PROVE  IInv'
<1> USE DEF IInv
<1> DEFINE job == NewJob("select", "getPointer", s, Empty)
<1>1. job \in Job /\ JobOK(job) /\ job.kind = "select" /\ job.slug = s
  BY NewJobType, TextAssumption DEF NewJob
<1>2. AbortAndStart(job) /\ saving' = LockAfterAbort
  BY DEF SelectPage
<1> HIDE DEF job
<1>3. PICK c \in Free : call'[c] = job /\ AbortedBut({c})
  BY <1>1, <1>2, AbortTypes
<1>4. c \in Call /\ call[c].kind = "none"
  BY DEF Free, Running, NoJob
<1>5. NothingLive({c}) /\ OneSave'
  BY <1>1, <1>2, <1>3, <1>4, AbortAll
<1>6. call' \in [Call -> Jobs] /\ JobsOK'
  BY <1>1, <1>2, AbortTypes
<1>7. /\ state'.selected = s /\ ~state'.isNew /\ state'.saved = Blank /\ state'.pointer = Blank
      /\ state' \in State
  BY TextAssumption DEF SelectPage, TypeOK, State, Status
<1>8. TypeOK'
  BY <1>6, <1>7, ClickType DEF SelectPage, TypeOK, LockAfterAbort, Jobs
<1>9. OneLive' /\ LoadsSelected'
  BY <1>1, <1>3, <1>4, <1>5, <1>7 DEF OneLive, Live, LoadsSelected, NothingLive
<1>10. EditorOwnsVersions'
  BY <1>7 DEF EditorOwnsVersions
<1>11. QED
  BY <1>5, <1>6, <1>8, <1>9, <1>10

LEMMA NewPageIInv ==
  ASSUME IInv, StartNewPage
  PROVE  IInv'
<1> USE DEF IInv
<1>1. call' = [c \in Call |-> AfterAbort(call[c])] /\ saving' = LockAfterAbort
  BY DEF StartNewPage
<1>2. NothingLive({}) /\ OneSave'
  BY <1>1, AbortAll DEF AbortedBut
<1>3. \A c \in Call : AfterAbort(call[c]) \in Jobs /\ JobOK(AfterAbort(call[c]))
  BY AbortEffect DEF TypeOK, JobsOK, Jobs
<1>4. call' \in [Call -> Jobs] /\ JobsOK'
  BY <1>1, <1>3 DEF JobsOK
<1>5. state'.saved = Blank /\ state'.pointer = Blank /\ state' \in State
  BY TextAssumption DEF StartNewPage, TypeOK, State, Status
<1>6. TypeOK'
  BY <1>4, <1>5, ClickType DEF StartNewPage, TypeOK, LockAfterAbort, Jobs
<1>7. OneLive' /\ LoadsSelected'
  BY <1>2 DEF OneLive, Live, LoadsSelected, NothingLive
<1>8. EditorOwnsVersions'
  BY <1>5 DEF EditorOwnsVersions
<1>9. QED
  BY <1>2, <1>4, <1>6, <1>7, <1>8

(* Steps that neither touch operations nor what the editor shows.          *)
LEMMA QuietIInv ==
  ASSUME IInv, TypeOK', UNCHANGED <<saving, call>>,
         state'.selected = state.selected, state'.isNew = state.isNew,
         state'.saved = state.saved, state'.pointer = state.pointer
  PROVE  IInv'
<1> USE DEF IInv
<1>1. JobsOK' /\ OneSave' /\ OneLive'
  BY DEF JobsOK, OneSave, Kind, OneLive, Live
<1>2. LoadsSelected' /\ EditorOwnsVersions'
  BY DEF LoadsSelected, EditorOwnsVersions, EditorOpen
<1>3. QED
  BY <1>1, <1>2

LEMMA ContentIInv ==
  ASSUME IInv, NEW t \in Text, SetContent(t)
  PROVE  IInv'
<1>1. /\ TypeOK' /\ state'.selected = state.selected /\ state'.isNew = state.isNew
      /\ state'.saved = state.saved /\ state'.pointer = state.pointer
  BY ClickType DEF IInv, SetContent, TypeOK, State
<1>2. QED
  BY <1>1, QuietIInv DEF SetContent

LEMMA SaveIInv ==
  ASSUME IInv, NEW s \in Slug, SavePage(s)
  PROVE  IInv'
<1> USE DEF IInv
<1>1. CASE saving
  <2>1. UNCHANGED <<page, state, saving, call>> /\ clicks' \in 0..MaxClicks
    BY <1>1, ClickType DEF SavePage
  <2>2. TypeOK'
    BY <2>1 DEF TypeOK
  <2>3. QED
    BY <2>1, <2>2, QuietIInv
<1>2. CASE ~saving
  <2> DEFINE job == NewJob("save", "write", s, state.content)
  <2>1. job \in Job /\ JobOK(job) /\ job.kind = "save"
    BY NewJobType DEF NewJob, TypeOK, State
  <2>2. AbortAndStart(job) /\ saving' = TRUE
    BY <1>2 DEF SavePage
  <2> HIDE DEF job
  <2>3. PICK c \in Free : call'[c] = job /\ AbortedBut({c})
    BY <2>1, <2>2, AbortTypes
  <2>4. c \in Call /\ \A d \in Call : call[d].kind # "save"
    BY <1>2 DEF Free, OneSave, Kind
  <2>5. \A d \in Call \ {c} : /\ call'[d].kind # "save"
                             /\ ~(call'[d].kind \in {"select", "save"} /\ ~call'[d].aborted)
    BY <2>3, <2>4, AbortEffect DEF AbortedBut, TypeOK, JobsOK, Jobs, NoJob
  <2>6. Kind("save")' = {c}
    BY <2>1, <2>3, <2>4, <2>5 DEF Kind
  <2>7. OneSave'
    BY <2>2, <2>6 DEF OneSave
  <2>8. call' \in [Call -> Jobs] /\ JobsOK'
    BY <2>1, <2>2, AbortTypes
  <2>9. /\ state'.selected = state.selected /\ state'.isNew = state.isNew
        /\ state'.saved = state.saved /\ state'.pointer = state.pointer
        /\ state' \in State
    BY <1>2 DEF SavePage, TypeOK, State, Status
  <2>10. TypeOK'
    BY <1>2, <2>2, <2>8, <2>9, ClickType DEF SavePage, TypeOK, Jobs
  <2>11. OneLive' /\ LoadsSelected'
    BY <2>1, <2>3, <2>5 DEF OneLive, Live, LoadsSelected
  <2>12. EditorOwnsVersions'
    BY <2>9 DEF EditorOwnsVersions, EditorOpen
  <2>13. QED
    BY <2>7, <2>8, <2>10, <2>11, <2>12
<1>3. QED
  BY <1>1, <1>2

LEMMA DeleteIInv ==
  ASSUME IInv, DeletePage
  PROVE  IInv'
<1> USE DEF IInv
<1>1. state.selected \in Slug
  BY DEF DeletePage, TypeOK, State
<1> DEFINE job == NewJob("delete", "remove", state.selected, Empty)
<1>2. job \in Job /\ JobOK(job) /\ job.kind = "delete"
  BY <1>1, NewJobType, TextAssumption DEF NewJob
<1>3. PICK c \in Free : call' = [call EXCEPT ![c] = job]
  BY DEF DeletePage
<1> HIDE DEF job
<1>4. c \in Call /\ call[c].kind = "none" /\ call'[c] = job
      /\ \A d \in Call : d # c => call'[d] = call[d]
  BY <1>3 DEF Free, Running, NoJob, TypeOK
<1>5. call' \in [Call -> Jobs] /\ JobsOK'
  BY <1>2, <1>3, <1>4 DEF TypeOK, Jobs, JobsOK
<1>6. Kind("save")' = Kind("save")
  BY <1>2, <1>4 DEF Kind
<1>7. OneSave'
  BY <1>6 DEF OneSave, DeletePage
<1>8. /\ state'.selected = state.selected /\ state'.isNew = state.isNew
      /\ state'.saved = state.saved /\ state'.pointer = state.pointer
      /\ state' \in State
  BY DEF DeletePage, TypeOK, State, Status
<1>9. TypeOK'
  BY <1>5, <1>8, ClickType DEF DeletePage, TypeOK, Jobs
<1>10. OneLive' /\ LoadsSelected'
  BY <1>2, <1>4, <1>8 DEF OneLive, Live, LoadsSelected
<1>11. EditorOwnsVersions'
  BY <1>8 DEF EditorOwnsVersions, EditorOpen
<1>12. QED
  BY <1>5, <1>7, <1>9, <1>10, <1>11

(* Steps of an operation: what they do to the page and to the state, ...   *)
LEMMA CallTypes ==
  ASSUME TypeOK, JobsOK, NEW c \in Call, CallStep(c)
  PROVE  TypeOK'
<1>1. call' \in [Call -> Jobs] /\ saving' \in BOOLEAN
  BY CallMoves DEF Moves, TypeOK
<1>2. clicks' \in 0..MaxClicks
  BY DEF TypeOK, CallStep, ServeList, ServeGetPointer, ServeSetPointer, ServeRemove, SlugsListed,
     PointerFound, PlaintextRead, BlobWritten, PointerCommitted, PageRemoved, CallFails
<1>3. call[c] \in Job /\ JobOK(call[c])
  BY RunningType DEF TypeOK, JobsOK, CallStep, ServeList, ServeGetPointer, ServeSetPointer,
     ServeRemove, SlugsListed, PointerFound, PlaintextRead, BlobWritten, PointerCommitted,
     PageRemoved, CallFails, Running
<1>4. page' \in [Slug -> Text \cup {Nil}]
  BY <1>3 DEF TypeOK, Job, CallStep, ServeList, ServeGetPointer, ServeSetPointer, ServeRemove,
     SlugsListed, PointerFound, PlaintextRead, BlobWritten, PointerCommitted, PageRemoved, CallFails
<1>5. state' \in State
  <2>1. CASE ServeList(c) \/ ServeGetPointer(c) \/ ServeSetPointer(c) \/ ServeRemove(c)
    BY <2>1 DEF TypeOK, ServeList, ServeGetPointer, ServeSetPointer, ServeRemove
  <2>2. CASE SlugsListed(c)
    BY <1>3, <2>2 DEF SlugsListed, TypeOK, State, Status, Job
  <2>3. CASE PointerFound(c) \/ PlaintextRead(c) \/ PointerCommitted(c)
    <3>1. call[c].slug \in Slug /\ call[c].text \in Text /\ VersionOf(call[c]) \in Version
      BY <1>3, <2>3 DEF PointerFound, PlaintextRead, PointerCommitted, Job, JobOK, SaveStep,
         SelectStep, VersionOf, Version
    <3>2. CASE state' = state
      BY <3>2 DEF TypeOK
    <3>3. CASE PointerFound(c) /\ ~call[c].aborted
      BY <3>1, <3>3 DEF PointerFound, TypeOK, State, Status
    <3>4. CASE PlaintextRead(c)
      BY <3>1, <3>4 DEF PlaintextRead, TypeOK, State, Status
    <3>5. CASE PointerCommitted(c) /\ ~call[c].aborted
      <4>1. PICK s \in Slug, v \in Version :
              state' = [state EXCEPT !.status = "idle", !.selected = s, !.isNew = FALSE,
                                     !.pointer = v, !.saved = v, !.slugs = @ \cup {s}]
        BY <3>1, <3>5 DEF PointerCommitted
      <4>2. state.slugs \cup {s} \subseteq Slug
        BY DEF TypeOK, State
      <4>3. QED
        BY <4>1, <4>2 DEF TypeOK, State, Status
    <3>6. QED
      BY <2>3, <3>2, <3>3, <3>4, <3>5 DEF PointerFound, PointerCommitted
  <2>4. CASE BlobWritten(c) \/ CallFails(c)
    BY <2>4 DEF BlobWritten, CallFails, TypeOK, State, Status
  <2>5. CASE PageRemoved(c)
    <3>1. PICK ss \in SUBSET Slug, sel \in Slug \cup {Nil}, t \in Text,
               v \in Version \cup {Blank}, p \in Version \cup {Blank} :
            state' = [state EXCEPT !.status = "idle", !.slugs = ss, !.isNew = FALSE,
                                   !.selected = sel, !.content = t, !.saved = v, !.pointer = p]
      <4>1. state.slugs \ {call[c].slug} \in SUBSET Slug
        BY DEF TypeOK, State
      <4>2. CASE state.selected = call[c].slug
        BY <2>5, <4>1, <4>2, TextAssumption DEF PageRemoved
      <4>3. CASE state.selected # call[c].slug
        <5>1. /\ state.selected \in Slug \cup {Nil} /\ state.content \in Text
              /\ state.saved \in Version \cup {Blank} /\ state.pointer \in Version \cup {Blank}
          BY DEF TypeOK, State
        <5>2. state' = [state EXCEPT !.status = "idle", !.slugs = @ \ {call[c].slug}, !.isNew = FALSE,
                  !.selected = @, !.content = @, !.saved = @, !.pointer = @]
          BY <2>5, <4>3 DEF PageRemoved
        <5>3. QED
          BY <4>1, <5>1, <5>2
      <4>4. QED
        BY <4>2, <4>3
    <3>2. "idle" \in Status
      BY DEF Status
    <3>3. QED
      BY <3>1, <3>2 DEF TypeOK, State
  <2>6. QED
    BY <2>1, <2>2, <2>3, <2>4, <2>5 DEF CallStep
<1>6. QED
  BY <1>1, <1>2, <1>4, <1>5 DEF TypeOK, Jobs

(* ... and to what the editor takes for the versions of its page.          *)
SameEditor ==
  /\ state'.selected = state.selected /\ state'.isNew = state.isNew
  /\ state'.saved = state.saved /\ state'.pointer = state.pointer

LoadsVersion(c) ==
  /\ Live(c) /\ call[c].kind = "select"
  /\ state'.selected = state.selected /\ state'.isNew = state.isNew
  /\ state'.saved \in {state.saved, VersionOf(call[c])}
  /\ state'.pointer \in {state.pointer, VersionOf(call[c])}

SavesVersion(c) ==
  /\ Live(c) /\ call[c].kind = "save" /\ call'[c] = NoJob
  /\ state'.selected = call[c].slug /\ ~state'.isNew
  /\ state'.saved = VersionOf(call[c]) /\ state'.pointer = VersionOf(call[c])

ClosesEditor ==
  /\ ~state'.isNew
  /\ \/ state'.selected = Nil
     \/ /\ state'.selected = state.selected
        /\ state'.saved = state.saved /\ state'.pointer = state.pointer

LEMMA EditorStep ==
  ASSUME TypeOK, JobsOK, NEW c \in Call, CallStep(c)
  PROVE  SameEditor \/ LoadsVersion(c) \/ SavesVersion(c) \/ ClosesEditor
<1>1. CASE \/ ServeList(c) \/ ServeGetPointer(c) \/ ServeSetPointer(c) \/ ServeRemove(c)
           \/ SlugsListed(c) \/ BlobWritten(c) \/ CallFails(c)
  BY <1>1 DEF ServeList, ServeGetPointer, ServeSetPointer, ServeRemove, SlugsListed, BlobWritten,
     CallFails, SameEditor, TypeOK, State
<1>2. CASE PointerFound(c) \/ PlaintextRead(c)
  <2>1. call[c].kind = "select" /\ (PlaintextRead(c) => ~call[c].aborted)
    BY <1>2, RunningType DEF PointerFound, PlaintextRead, JobOK, SaveStep, SelectStep, Job
  <2>2. CASE call[c].aborted
    BY <1>2, <2>1, <2>2 DEF PointerFound, SameEditor
  <2>3. CASE ~call[c].aborted
    BY <1>2, <2>1, <2>3 DEF PointerFound, PlaintextRead, LoadsVersion, Live, TypeOK, State
  <2>4. QED
    BY <2>2, <2>3
<1>3. CASE PointerCommitted(c)
  <2>1. call[c].kind = "save"
    BY <1>3, RunningType DEF PointerCommitted, JobOK, SaveStep, SelectStep, Job
  <2>2. CASE call[c].aborted
    BY <1>3, <2>2 DEF PointerCommitted, SameEditor
  <2>3. CASE ~call[c].aborted
    <3>1. call'[c] = NoJob
      BY <1>3 DEF PointerCommitted, End, Continue, TypeOK
    <3>2. QED
      BY <1>3, <2>1, <2>3, <3>1 DEF PointerCommitted, SavesVersion, Live, TypeOK, State
  <2>4. QED
    BY <2>2, <2>3
<1>4. CASE PageRemoved(c)
  BY <1>4 DEF PageRemoved, ClosesEditor, TypeOK, State
<1>5. QED
  BY <1>1, <1>2, <1>3, <1>4 DEF CallStep

LEMMA CallIInv ==
  ASSUME IInv, NEW c \in Call, CallStep(c)
  PROVE  IInv'
<1> USE DEF IInv
<1>1. Moves(c)
  BY CallMoves
<1>2. TypeOK'
  BY CallTypes
<1>3. JobsOK'
  BY <1>1 DEF Moves, JobsOK
<1>4. OneSave'
  <2>1. CASE call'[c] = NoJob /\ saving' = (saving /\ call[c].kind # "save")
    <3>1. Kind("save")' = Kind("save") \ {c}
      BY <1>1, <2>1 DEF Moves, Kind, NoJob
    <3>2. QED
      BY <2>1, <3>1 DEF OneSave, Kind
  <2>2. CASE call'[c].kind = call[c].kind /\ saving' = saving
    <3>1. Kind("save")' = Kind("save")
      BY <1>1, <2>2 DEF Moves, Kind
    <3>2. QED
      BY <2>2, <3>1 DEF OneSave
  <2>3. QED
    BY <1>1, <2>1, <2>2 DEF Moves
<1>5. \A d \in Call : Live(d)' => Live(d) /\ call'[d].kind = call[d].kind /\ call'[d].slug = call[d].slug
  BY <1>1 DEF Moves, Live, NoJob
<1>6. OneLive'
  BY <1>5 DEF OneLive
<1>7. LoadsSelected' /\ EditorOwnsVersions'
  <2>1. CASE SameEditor
    BY <1>5, <2>1 DEF SameEditor, LoadsSelected, EditorOwnsVersions, EditorOpen, Live
  <2>2. CASE LoadsVersion(c)
    BY <1>5, <2>2 DEF LoadsVersion, LoadsSelected, EditorOwnsVersions, EditorOpen, Live, VersionOf
  <2>3. CASE SavesVersion(c)
    <3>1. \A d \in Call : ~Live(d)'
      BY <1>5, <2>3 DEF SavesVersion, OneLive, Live, NoJob
    <3>2. QED
      BY <2>3, <3>1 DEF SavesVersion, LoadsSelected, EditorOwnsVersions, Live, VersionOf
  <2>4. CASE ClosesEditor
    BY <1>5, <2>4 DEF ClosesEditor, LoadsSelected, EditorOwnsVersions, EditorOpen, Live
  <2>5. QED
    BY <2>1, <2>2, <2>3, <2>4, EditorStep
<1>8. QED
  BY <1>2, <1>3, <1>4, <1>6, <1>7

LEMMA NextIInv == IInv /\ [Next]_vars => IInv'
<1> SUFFICES ASSUME IInv, [Next]_vars PROVE IInv'
  OBVIOUS
<1>1. CASE UserActs
  BY <1>1, SelectIInv, NewPageIInv, ContentIInv, SaveIInv, DeleteIInv DEF UserActs
<1>2. CASE \E c \in Call : CallStep(c)
  BY <1>2, CallIInv
<1>3. CASE UNCHANGED vars
  <2>1. TypeOK'
    BY <1>3 DEF IInv, TypeOK, vars
  <2>2. QED
    BY <1>3, <2>1, QuietIInv DEF vars
<1>4. QED
  BY <1>1, <1>2, <1>3 DEF Next

LEMMA Invariance == Spec => []IInv
  BY InitIInv, NextIInv, PTL DEF Spec

-----------------------------------------------------------------------------
(* The theorems.                                                           *)

(* The hook's state and its operations have the types of useWiki.ts.       *)
THEOREM TypeCorrect == Spec => []TypeOK
<1>1. IInv => TypeOK
  BY DEF IInv
<1>2. QED
  BY <1>1, Invariance, PTL

(* savingRef keeps saves apart whatever overlaps: the lock is held exactly *)
(* while a save runs, aborted or not, and there is one save at most.       *)
THEOREM SavesAreExclusive == Spec => []OneSave
<1>1. IInv => OneSave
  BY DEF IInv
<1>2. QED
  BY <1>1, Invariance, PTL

(* No late answer gives the open editor another page's pointer or text.    *)
THEOREM EditorShowsItsPage == Spec => []EditorOwnsVersions
<1>1. IInv => EditorOwnsVersions
  BY DEF IInv
<1>2. QED
  BY <1>1, Invariance, PTL
=============================================================================
