---------------------------- MODULE MCAgentCall -----------------------------
(* Instances of AgentCall for TLC.                                         *)
EXTENDS AgentCall

(* Every mix of arguments; every pairing of the two keys; a wrong API     *)
(* key; clocks apart by less than the leeway, by exactly it and by more.   *)
AllCalls == {r \in Request : r.rest = "fit" \/ (r.near = Caller /\ r.team # Empty)}
AllSetups ==
  [signs: BOOLEAN, binds: BOOLEAN, bearer: {TRUE}, routed: {TRUE}, skew: {0}]
  \cup [signs: {TRUE}, binds: {TRUE}, bearer: {TRUE}, routed: {FALSE}, skew: -2..2]
  \cup [signs: {FALSE}, binds: {FALSE}, bearer: {FALSE}, routed: {FALSE}, skew: {0}]

TeamCalls == [tool: TeamTool, near: {Absent}, team: {"team"}, rest: {"fit"}]
=============================================================================
