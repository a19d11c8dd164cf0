---------------------------- MODULE VaultRegister ----------------------------
(***************************************************************************)
(* What the vault promises its clients, whatever is stored where: each     *)
(* slot is a register with a current text, last writer wins, and a reader  *)
(* gets either the version it asked for or an error.  VaultStore           *)
(* implements it.                                                          *)
(***************************************************************************)

CONSTANTS Slot, Text, Request, Nil

VARIABLES
  value,      \* the current text of each slot, Nil when there is none
  published,  \* every text ever written to each slot
  asked,      \* the version a request waits for, Nil when none
  answer      \* the text a request was last answered, Nil when none

vars == <<value, published, asked, answer>>

Version == [slot: Slot, text: Text]

TypeOK ==
  /\ value \in [Slot -> Text \cup {Nil}]
  /\ published \in [Slot -> SUBSET Text]
  /\ asked \in [Request -> Version \cup {Nil}]
  /\ answer \in [Request -> Text \cup {Nil}]

Init ==
  /\ value = [s \in Slot |-> Nil]
  /\ published = [s \in Slot |-> {}]
  /\ asked = [r \in Request |-> Nil]
  /\ answer = [r \in Request |-> Nil]

(* A text is stored; nobody reads it as the slot's current one yet.        *)
Publish(s, t) ==
  /\ published' = [published EXCEPT ![s] = @ \cup {t}]
  /\ UNCHANGED <<value, asked, answer>>

(* Only a text published in the slot becomes its current one.              *)
Write(s, t) ==
  /\ t \in published[s]
  /\ value' = [value EXCEPT ![s] = t]
  /\ UNCHANGED <<published, asked, answer>>

Clear(s) ==
  /\ value' = [value EXCEPT ![s] = Nil]
  /\ UNCHANGED <<published, asked, answer>>

(* A reader asks for the slot's current version, ...                       *)
Look(r, s) ==
  /\ value[s] # Nil
  /\ asked' = [asked EXCEPT ![r] = [slot |-> s, text |-> value[s]]]
  /\ UNCHANGED <<value, published, answer>>

(* ... or for one it has seen the identity of.                             *)
LookAt(r, s, t) ==
  /\ t \in published[s]
  /\ asked' = [asked EXCEPT ![r] = [slot |-> s, text |-> t]]
  /\ answer' = [answer EXCEPT ![r] = Nil]
  /\ UNCHANGED <<value, published>>

Return(r) ==
  /\ asked[r] # Nil
  /\ answer' = [answer EXCEPT ![r] = asked[r].text]
  /\ asked' = [asked EXCEPT ![r] = Nil]
  /\ UNCHANGED <<value, published>>

(* A read fails, or a request begins something else.                       *)
Drop(r) ==
  /\ asked' = [asked EXCEPT ![r] = Nil]
  /\ answer' = [answer EXCEPT ![r] = Nil]
  /\ UNCHANGED <<value, published>>

Next ==
  \/ \E s \in Slot, t \in Text : Publish(s, t) \/ Write(s, t)
  \/ \E s \in Slot : Clear(s)
  \/ \E r \in Request, s \in Slot : Look(r, s)
  \/ \E r \in Request, s \in Slot, t \in Text : LookAt(r, s, t)
  \/ \E r \in Request : Return(r) \/ Drop(r)

Spec == Init /\ [][Next]_vars
=============================================================================
