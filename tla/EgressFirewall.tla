---------------------------- MODULE EgressFirewall ----------------------------
(***************************************************************************)
(* The egress firewall of the agent (zdr_firewall.rs) as operators: which  *)
(* destinations it lets a payload go to, which texts it refuses, and what  *)
(* it adds to a payload; and the console's own scan (types.ts).            *)
(***************************************************************************)
EXTENDS Naturals, Sequences

(* A text is a sequence of glyphs.  A glyph is what a reader takes it for, *)
(* a word or what stands between words, and the characters that show it:   *)
(* plain ASCII, "wide" ones that NFKC turns into it (fullwidth letters, a  *)
(* no-break space), or "foreign" ones that it leaves as they are (look-    *)
(* alikes of other alphabets).  "code" stands for one of the firewall's    *)
(* error codes, "other" for any other word; case matters to no scan.       *)
Word == {"PRIVATE", "SECRET", "API", "KEY", "MNEMONIC", "PASSPHRASE", "SEED", "PHRASE", "AUTH",
         "TOKEN", "PASSWORD", "BEARER", "WALLET", "code", "other"}
Joint == {"_", "space", "tab"}            \* tab: also the line breaks
Unseen == {"zeroWidth", "control"}
Glyph == [shows: Word \cup Joint \cup Unseen, as: {"ascii", "wide", "foreign"}]
Text == Seq(Glyph)

Plain(shown) == [shows |-> shown, as |-> "ascii"]

(* A marker is its word, or its two words.                                 *)
SENSITIVE_MARKERS ==
  {<<"PRIVATE", "KEY">>, <<"SECRET", "KEY">>, <<"API", "KEY">>, <<"SEED", "PHRASE">>,
   <<"SECRET", "TOKEN">>, <<"AUTH", "TOKEN">>, <<"WALLET", "SECRET">>,
   <<"MNEMONIC">>, <<"PASSPHRASE">>, <<"PASSWORD">>, <<"BEARER">>}

ZDR_MARKERS ==
  SENSITIVE_MARKERS \ {<<"AUTH", "TOKEN">>, <<"WALLET", "SECRET">>, <<"BEARER">>}

Blank(text) == \A i \in DOMAIN text : text[i].shows \in {"space", "tab"}

Quotes(text) == \E i \in DOMAIN text : text[i] = Plain("code")

-----------------------------------------------------------------------------
(* The scans.                                                              *)

(* The console looks for the marker as it is spelled in the list.          *)
Spelling(m) ==
  IF Len(m) = 1 THEN <<Plain(m[1])>> ELSE <<Plain(m[1]), Plain("_"), Plain(m[2])>>

detectZdrViolation(text) ==
  \E m \in ZDR_MARKERS : \E i \in 0 .. Len(text) - Len(Spelling(m)) :
    \A k \in DOMAIN Spelling(m) : text[i + k] = Spelling(m)[k]

(* 1: zero-width characters are dropped.                                   *)
Kept(text) == {i \in DOMAIN text : text[i].shows # "zeroWidth"}

(* 2: NFKC.                                                                *)
Nfkc(glyph) == IF glyph.as = "foreign" THEN "nonAscii" ELSE glyph.shows

(* 3 and 4: what is refused as it stands.                                  *)
Suspicious(text) == \E i \in Kept(text) : Nfkc(text[i]) \in {"nonAscii", "control"}

Between(text, i, j) == {Nfkc(text[k]) : k \in {k \in Kept(text) : i < k /\ k < j}}

(* Mutant: blanks are not collapsed, so only one space or underscore is    *)
(* found between the words of a marker.                                    *)
ContainsVerbatim(text, m) ==
  \E i \in Kept(text) :
    /\ Nfkc(text[i]) = m[1]
    /\ Len(m) = 2 => /\ i + 2 \in Kept(text) /\ Nfkc(text[i + 2]) = m[2]
                     /\ Between(text, i, i + 2) \in {{"_"}, {"space"}}

(* 4 and 5: every run of blanks and underscores is collapsed to one space, *)
(* and the markers are looked for with a space for their underscore.       *)
Contains(text, m) ==
  \E i \in Kept(text) :
    /\ Nfkc(text[i]) = m[1]
    /\ Len(m) = 2 => \E j \in Kept(text) : /\ i < j /\ Nfkc(text[j]) = m[2]
                                           /\ Between(text, i, j) # {}
                                           /\ Between(text, i, j) \subseteq Joint

scan_sensitive_keywords(text) ==   \* TRUE: refused
  Suspicious(text) \/ \E m \in SENSITIVE_MARKERS : Contains(text, m)

-----------------------------------------------------------------------------
(* The destinations.                                                       *)

(* A URL by its host; its path: the one the list names, one that continues *)
(* it, or another; and whether it is written character for character as in *)
(* the list or in another way that parses to the same.                     *)
Host == {"openai", "anthropic", "vertex", "elsewhere"}
Url == [scheme: {"https", "http"}, host: Host, path: {"listed", "below", "other"},
        written: {"exactly", "otherwise"}]

Endpoint(h) == [scheme |-> "https", host |-> h, path |-> "listed", written |-> "exactly"]

(* Mutant: a URL that starts with a listed one is taken for it.            *)
verify_by_prefix(u) ==
  u.scheme = "https" /\ u.host \in {"openai", "anthropic", "vertex"} /\ u.path \in {"listed", "below"}

(* OpenAI and Anthropic to the letter, Vertex AI by what the URL parses to.*)
verify_destination(u) ==
  \/ u \in {Endpoint("openai"), Endpoint("anthropic")}
  \/ u.scheme = "https" /\ u.host = "vertex" /\ u.path \in {"listed", "below"}

(* The instruction to keep nothing that is added to the payload.           *)
Injected(u) ==
  CASE u = Endpoint("openai") -> "store: false"
    [] u = Endpoint("anthropic") -> "anthropic headers"
    [] OTHER -> "data_retention: none"

-----------------------------------------------------------------------------
(* What the firewall is for, said of readers and providers.                *)

(* A text spells a marker to whoever reads it: the words one after the     *)
(* other with blanks or underscores between them, in any characters that   *)
(* look like theirs, and whatever cannot be seen among them.               *)
Spells(text) ==
  \E m \in SENSITIVE_MARKERS, i \in DOMAIN text :
    /\ text[i].shows = m[1]
    /\ Len(m) = 2 => \E j \in i + 1 .. Len(text) :
         /\ text[j].shows = m[2]
         /\ \A k \in i + 1 .. j - 1 : text[k].shows \in Joint \cup Unseen
         /\ \E k \in i + 1 .. j - 1 : text[k].shows \in Joint

(* The instruction each provider understands.                              *)
Understood == [openai |-> "store: false", anthropic |-> "anthropic headers",
               vertex |-> "data_retention: none"]
=============================================================================
