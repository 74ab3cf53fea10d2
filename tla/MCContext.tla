----------------------------- MODULE MCContext -----------------------------
(***************************************************************************)
(* Beside the log and its requests, what the tools read off a request: the *)
(* revision of a file the model was last shown.                            *)
(***************************************************************************)
EXTENDS Context

File == INSTANCE ObservedFile

\* Every history of up to four steps on a file.
ASSUME ObservedFileKeepsContract ==
  File!NoLostUpdate(4) /\ File!RefusalsDidNothing(3) /\ File!NeverStuck(4)
=============================================================================
