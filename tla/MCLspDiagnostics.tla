-------------------------- MODULE MCLspDiagnostics --------------------------
(* The diagnostics for TLC: a library and two documents that import it, so *)
(* that one change can ask for three analyses at once.                     *)
EXTENDS LspDiagnostics

CONSTANT Library

MCSources == [d \in Docs |-> {d, Library}]

\* The first and the third text are faulty.
MCErrors(texts) == {d \in DOMAIN texts : texts[d] % 2 = 1}
=============================================================================
