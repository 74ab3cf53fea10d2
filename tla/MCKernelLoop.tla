---------------------------- MODULE MCKernelLoop ----------------------------
(***************************************************************************)
(* Model values for the kernel loop: a tool table with one tool of each    *)
(* kind the effects of a tool can declare.                                 *)
(***************************************************************************)
EXTENDS KernelRefinement, StreamGuards

CONSTANTS read, fetch, write

Adapters == INSTANCE ProviderStreams

\* The streams the loop reads are guarded ones.
ASSUME GuardsKeepContract ==
  HeldUntilStop(5) /\ AllOrNothing(5) /\ EndingsAreHonest

\* The streams the guards read come from one of the three adapters.
ASSUME AdaptersKeepContract ==
  /\ Adapters!ChatKeepsContract(3) /\ Adapters!MessagesKeepContract(4)
  /\ Adapters!ResponsesKeepContract(3) /\ Adapters!BreaksReleaseNothing(2)
==============================================================================
