---- MODULE MCCorpusReplay ----
(* The corpus is finite: only the constants it never reaches are bounded. *)
EXTENDS CorpusReplay

MCMechanisms == {"ANONYMOUS", "PLAIN", "anonymous"}
====
