---------------------------- MODULE MCWikiEditor -----------------------------
(* Instances of WikiEditor for TLC.                                        *)
EXTENDS WikiEditor, TLC
=============================================================================
