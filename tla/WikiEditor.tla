----------------------------- MODULE WikiEditor ------------------------------
(***************************************************************************)
(* The dashboard's wiki editor: the hook useWiki.ts, driven through the    *)
(* buttons of WikiPanel.tsx, against the pages the gateway points at.      *)
(* JavaScript runs one callback at a time: an action is a click, or the    *)
(* code from the answer of one awaited call to the next call.  Calls in    *)
(* flight overlap, and each is served and answered separately.             *)
(***************************************************************************)
EXTENDS Naturals, FiniteSets

CONSTANTS
  Slug,       \* pages of the user
  Text,       \* what a page can hold
  Empty,      \* the empty text
  Call,       \* operations in flight at once (a bound)
  MaxClicks,  \* bound on what the user does
  Nil

ASSUME TextAssumption == Empty \in Text
ASSUME NilAssumption == Nil \notin Slug
ASSUME ClicksAssumption == MaxClicks \in Nat

VARIABLES
  page,    \* the text each page's pointer leads to, Nil if it has none
  state,   \* the hook's React state
  saving,  \* savingRef
  call,    \* the operations in flight
  clicks   \* what the user did so far

vars == <<page, state, saving, call, clicks>>

Status == {"idle", "fetching-slugs", "fetching-pointer", "decrypting-tee",
           "saving-walrus", "committing-near", "deleting", "error"}

(* A text and the page it belongs to, for savedContent and pointer; the    *)
(* page of a saved text is kept for the properties only.                   *)
Version == [slug: Slug, text: Text]
VersionOf(job) == [slug |-> job.slug, text |-> job.text]
Blank == [slug |-> Nil, text |-> Empty]

State == [status: Status, slugs: SUBSET Slug, selected: Slug \cup {Nil}, content: Text,
          saved: Version \cup {Blank}, pointer: Version \cup {Blank}, isNew: BOOLEAN]

(* An operation and the call it awaits, or the answer that is on its way.  *)
Await == {"list", "listed", "getPointer", "gotPointer", "read",
          "write", "setPointer", "pointerSet", "remove", "removed"}
Job == [kind: {"list", "select", "save", "delete"}, at: Await, slug: Slug \cup {Nil},
        text: Text, found: SUBSET Slug, aborted: BOOLEAN]
NoJob == [kind |-> "none", at |-> "none"]

Running(c) == call[c] # NoJob
Kind(k) == {c \in Call : call[c].kind = k}
Free == {c \in Call : ~Running(c)}

TypeOK ==
  /\ page \in [Slug -> Text \cup {Nil}]
  /\ state \in State
  /\ saving \in BOOLEAN
  /\ call \in [Call -> Job \cup {NoJob}]
  /\ clicks \in 0..MaxClicks

NewJob(kind, at, slug, text) ==
  [kind |-> kind, at |-> at, slug |-> slug, text |-> text, found |-> {}, aborted |-> FALSE]

(* The panel is mounted, and its effect lists the slugs.                   *)
Init ==
  /\ page \in [Slug -> (Text \ {Empty}) \cup {Nil}]
  /\ state = [status |-> "fetching-slugs", slugs |-> {}, selected |-> Nil, content |-> Empty,
              saved |-> Blank, pointer |-> Blank, isNew |-> FALSE]
  /\ saving = FALSE
  /\ \E c \in Call :
       call = [d \in Call |-> IF d = c THEN NewJob("list", "list", Nil, Empty) ELSE NoJob]
  /\ clicks = 0

-----------------------------------------------------------------------------
(* Clicks.                                                                 *)

Click == /\ clicks < MaxClicks
         /\ clicks' = clicks + 1

Busy == state.status \notin {"idle", "error"}
EditorOpen == state.isNew \/ state.selected # Nil

(* abort() of the controller in abortRef, which is that of the select or   *)
(* save not aborted before.  A fetch that has the signal rejects at once,  *)
(* and a save then frees the lock; other calls go on, and the operation    *)
(* notices when they are answered.                                         *)
Abortable(job) == job.kind \in {"select", "save"}

AfterAbort(job) ==
  IF ~Abortable(job) THEN job
  ELSE IF job.at \in {"read", "write"} THEN NoJob
  ELSE [job EXCEPT !.aborted = TRUE]

(* Aborts what runs, and starts job, if any, as a call of its own.         *)
AbortAndStart(job) ==
  \E c \in Free :
    call' = [d \in Call |-> IF d = c THEN job ELSE AfterAbort(call[d])]

LockAfterAbort == saving /\ ~\E c \in Kind("save") : call[c].at = "write"

SelectPage(s) ==
  /\ Click
  /\ s \in state.slugs /\ state.status # "fetching-slugs"
  /\ AbortAndStart(NewJob("select", "getPointer", s, Empty))
  /\ saving' = LockAfterAbort
  /\ state' = [state EXCEPT !.status = "fetching-pointer", !.selected = s, !.isNew = FALSE,
                            !.content = Empty, !.saved = Blank, !.pointer = Blank]
  /\ UNCHANGED page

StartNewPage ==
  /\ Click
  /\ call' = [c \in Call |-> AfterAbort(call[c])]
  /\ saving' = LockAfterAbort
  /\ state' = [state EXCEPT !.status = "idle", !.selected = Nil, !.isNew = TRUE,
                            !.content = Empty, !.saved = Blank, !.pointer = Blank]
  /\ UNCHANGED page

(* The text area is there unless the page is being loaded.                 *)
SetContent(t) ==
  /\ Click
  /\ EditorOpen /\ state.status \notin {"fetching-pointer", "decrypting-tee"}
  /\ t # state.content
  /\ state' = [state EXCEPT !.content = t]
  /\ UNCHANGED <<page, saving, call>>

(* The slug a click on Save names, if the button is enabled.               *)
CanSave(s) ==
  /\ EditorOpen /\ ~Busy
  /\ ~state.isNew => s = state.selected /\ state.content # state.saved.text

(* Mutant: no lock, only the button that is disabled while busy.           *)
SavePageUnlocked(s) ==
  /\ Click
  /\ CanSave(s)
  /\ saving' = TRUE
  /\ AbortAndStart(NewJob("save", "write", s, state.content))
  /\ state' = [state EXCEPT !.status = "saving-walrus"]
  /\ UNCHANGED page

(* Mutant: the status is set before the lock is tried.                     *)
SavePageShowsFirst(s) ==
  /\ Click
  /\ CanSave(s)
  /\ state' = [state EXCEPT !.status = "saving-walrus"]
  /\ IF saving
       THEN UNCHANGED <<page, saving, call>>
       ELSE /\ saving' = TRUE
            /\ AbortAndStart(NewJob("save", "write", s, state.content))
            /\ UNCHANGED page

SavePage(s) ==
  /\ Click
  /\ CanSave(s)
  /\ IF saving
       THEN UNCHANGED <<page, state, saving, call>>
       ELSE /\ saving' = TRUE
            /\ AbortAndStart(NewJob("save", "write", s, state.content))
            /\ state' = [state EXCEPT !.status = "saving-walrus"]
            /\ UNCHANGED page

DeletePage ==
  /\ Click
  /\ ~state.isNew /\ state.selected # Nil /\ ~Busy
  /\ \E c \in Free : call' = [call EXCEPT ![c] = NewJob("delete", "remove", state.selected, Empty)]
  /\ state' = [state EXCEPT !.status = "deleting"]
  /\ UNCHANGED <<page, saving>>

UserActs ==
  \/ \E s \in Slug : SelectPage(s) \/ SavePage(s)
  \/ \E t \in Text : SetContent(t)
  \/ StartNewPage \/ DeletePage

-----------------------------------------------------------------------------
(* How an operation goes on, and how it ends.                              *)

Continue(c, job) == call' = [call EXCEPT ![c] = job]
End(c) == Continue(c, NoJob)
Unlock(c) == saving' = (saving /\ c \notin Kind("save"))

(* The gateway serves a call; its answer is then on its way.               *)

ServeList(c) ==
  /\ call[c].at = "list"
  /\ Continue(c, [call[c] EXCEPT !.at = "listed", !.found = {s \in Slug : page[s] # Nil}])
  /\ UNCHANGED <<page, state, saving, clicks>>

(* Mutant: a page without a pointer is answered like any other.            *)
ServeGetPointerNull(c) ==
  /\ call[c].at = "getPointer"
  /\ Continue(c, [call[c] EXCEPT !.at = "gotPointer", !.text = page[call[c].slug]])
  /\ UNCHANGED <<page, state, saving, clicks>>

ServeGetPointer(c) ==
  LET s == call[c].slug IN
  /\ call[c].at = "getPointer"
  /\ page[s] # Nil
  /\ Continue(c, [call[c] EXCEPT !.at = "gotPointer", !.text = page[s]])
  /\ UNCHANGED <<page, state, saving, clicks>>

ServeSetPointer(c) ==
  /\ call[c].at = "setPointer"
  /\ page' = [page EXCEPT ![call[c].slug] = call[c].text]
  /\ Continue(c, [call[c] EXCEPT !.at = "pointerSet"])
  /\ UNCHANGED <<state, saving, clicks>>

ServeRemove(c) ==
  /\ call[c].at = "remove"
  /\ page' = [page EXCEPT ![call[c].slug] = Nil]
  /\ Continue(c, [call[c] EXCEPT !.at = "removed"])
  /\ UNCHANGED <<state, saving, clicks>>

-----------------------------------------------------------------------------
(* Answers.  An operation that was aborted leaves the state alone.         *)

SlugsListed(c) ==
  /\ call[c].at = "listed"
  /\ state' = [state EXCEPT !.status = "idle", !.slugs = call[c].found]
  /\ End(c)
  /\ UNCHANGED <<page, saving, clicks>>

(* Mutant: the signal is not looked at after the lookup.                   *)
PointerFoundUnchecked(c) ==
  /\ call[c].at = "gotPointer"
  /\ state' = [state EXCEPT !.status = "decrypting-tee", !.pointer = VersionOf(call[c])]
  /\ Continue(c, [call[c] EXCEPT !.at = "read"])
  /\ UNCHANGED <<page, saving, clicks>>

PointerFound(c) ==
  /\ call[c].at = "gotPointer"
  /\ IF call[c].aborted
       THEN End(c) /\ UNCHANGED state
       ELSE /\ state' = [state EXCEPT !.status = "decrypting-tee", !.pointer = VersionOf(call[c])]
            /\ Continue(c, [call[c] EXCEPT !.at = "read"])
  /\ UNCHANGED <<page, saving, clicks>>

PlaintextRead(c) ==
  /\ call[c].at = "read"
  /\ state' = [state EXCEPT !.status = "idle", !.content = call[c].text, !.saved = VersionOf(call[c])]
  /\ End(c)
  /\ UNCHANGED <<page, saving, clicks>>

BlobWritten(c) ==
  /\ call[c].at = "write"
  /\ state' = [state EXCEPT !.status = "committing-near"]
  /\ Continue(c, [call[c] EXCEPT !.at = "setPointer"])
  /\ UNCHANGED <<page, saving, clicks>>

PointerCommitted(c) ==
  LET s == call[c].slug IN
  /\ call[c].at = "pointerSet"
  /\ IF call[c].aborted
       THEN UNCHANGED state
       ELSE state' = [state EXCEPT !.status = "idle", !.selected = s, !.isNew = FALSE,
                         !.pointer = VersionOf(call[c]), !.saved = VersionOf(call[c]),
                         !.slugs = @ \cup {s}]
  /\ Unlock(c) /\ End(c)
  /\ UNCHANGED <<page, clicks>>

(* The deleted page's content is cleared if it is still the selected one.  *)
PageRemoved(c) ==
  LET s == call[c].slug
      clear == state.selected = s
  IN
  /\ call[c].at = "removed"
  /\ state' = [state EXCEPT !.status = "idle", !.slugs = @ \ {s}, !.isNew = FALSE,
                  !.selected = IF clear THEN Nil ELSE @, !.content = IF clear THEN Empty ELSE @,
                  !.saved = IF clear THEN Blank ELSE @, !.pointer = IF clear THEN Blank ELSE @]
  /\ End(c)
  /\ UNCHANGED <<page, saving, clicks>>

(* A call fails, finds no pointer, or its answer is lost.                  *)
CallFails(c) ==
  /\ Running(c)
  /\ state' = IF call[c].aborted THEN state ELSE [state EXCEPT !.status = "error"]
  /\ Unlock(c) /\ End(c)
  /\ UNCHANGED <<page, clicks>>

CallStep(c) ==
  \/ ServeList(c) \/ ServeGetPointer(c) \/ ServeSetPointer(c) \/ ServeRemove(c)
  \/ SlugsListed(c) \/ PointerFound(c) \/ PlaintextRead(c) \/ BlobWritten(c)
  \/ PointerCommitted(c) \/ PageRemoved(c) \/ CallFails(c)

Next == UserActs \/ \E c \in Call : CallStep(c)

(* Every fetch settles, by an answer or by an error.                       *)
Fairness == \A c \in Call : WF_vars(CallStep(c))

Spec == Init /\ [][Next]_vars /\ Fairness

-----------------------------------------------------------------------------
(* Properties.                                                             *)

(* One save at a time, although a listing or a deletion that is answered   *)
(* meanwhile makes the panel idle and its button enabled (NEW-03 in        *)
(* useWiki.ts), and an aborted save may still be setting its pointer.      *)
OneSave ==
  /\ \A c, d \in Kind("save") : c = d
  /\ saving <=> Kind("save") # {}

(* What the open editor takes for the pointer and the persisted text of    *)
(* its page is of that page; a new page has neither.  Late answers of      *)
(* aborted operations do not reach the page selected after them.           *)
EditorOwnsVersions ==
  EditorOpen => \A v \in {state.pointer, state.saved} : v = Blank \/ v.slug = state.selected

(* When the user stops, the panel does not stay busy, and the lock is free *)
(* for the next save, whatever was aborted, failed or answered late.       *)
Settles == <>[](~Busy /\ ~saving)

(* An idle editor's savedContent is what the pointer it shows leads to     *)
(* ("Last persisted content (diff detection)", useWiki.ts).                *)
SavedIsPersisted ==
  (state.status = "idle" /\ state.selected # Nil /\ state.pointer # Blank) =>
    state.saved = state.pointer
=============================================================================
