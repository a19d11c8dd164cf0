----------------------------- MODULE MCSkillRun ------------------------------
(* Instances of SkillRun for TLC.                                          *)
EXTENDS SkillRun

Write(words) == [i \in DOMAIN words |-> Plain(words[i])]

(* Words of a marker without a joint of theirs; a marker both scans know;  *)
(* one with a tab, which the console does not; and one only the agent has, *)
(* in fullwidth letters, split by a zero-width space.                      *)
Apart == Write(<<"PRIVATE", "space", "other", "space", "KEY">>)
Known == Write(<<"other", "space", "PRIVATE", "_", "KEY">>)
Tabbed == Write(<<"PRIVATE", "tab", "space", "KEY">>)
Split == <<[shows |-> "AUTH", as |-> "wide"], [shows |-> "zeroWidth", as |-> "foreign"],
           Plain("_"), [shows |-> "TOKEN", as |-> "wide"]>>

TypedPrompts == {Apart, Known, Tabbed}
PostedPrompts == {Apart, Known}

Skilled(u, text) == [parses |-> TRUE, url |-> u, model |-> Write(<<"other">>), system |-> text]
Below(h) == [Endpoint(h) EXCEPT !.path = "below", !.written = "otherwise"]

(* A skill for each provider, one of them quoting a firewall code, and one *)
(* for each way a configuration can fail its run.                          *)
AllSkills ==
  [openai |-> Skilled(Endpoint("openai"), Write(<<"space">>)),
   anthropic |-> Skilled(Endpoint("anthropic"), Write(<<"code">>)),
   vertex |-> Skilled(Below("vertex"), Apart),
   marked |-> Skilled(Endpoint("openai"), Split),
   astray |-> Skilled(Below("openai"), Apart),
   broken |-> [Skilled(Endpoint("openai"), Write(<<"code">>)) EXCEPT !.parses = FALSE]]
OneSkill == [openai |-> AllSkills.openai]
QuotingSkill == [anthropic |-> AllSkills.anthropic]
OnePrompt == {Apart}
=============================================================================
