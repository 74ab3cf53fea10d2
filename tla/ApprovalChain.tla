---------------------------- MODULE ApprovalChain ----------------------------
(***************************************************************************)
(* The approval policies of a session's extensions, composed into one      *)
(* chain (packages/runtime/src/compose.ts: composeApprovalChain).  A       *)
(* policy's vote on a call is one value; the policies vote in load order.  *)
(* The chain's verdict names the policy it is due to by its place, 0 for   *)
(* none.                                                                   *)
(***************************************************************************)
EXTENDS Naturals, SequencesExt

PolicyVotes == {"deny", "allow", "ask", "abstain", "throw"}
Votes(n) == [1..n -> PolicyVotes]

\* A policy that throws asks: it speaks, never silently.
Action(vote) == IF vote = "throw" THEN "ask" ELSE vote

\* place ??= i
OrElse(place, i) == IF place = 0 THEN i ELSE place

Silence == [verdict |-> "none", deniedBy |-> 0, allowedBy |-> 0, speaker |-> 0]

\* One round of the loop over the policies.
Hear(votes, heard, i) ==
  LET said == Action(votes[i]) IN
  IF said = "abstain" THEN heard
  ELSE [heard EXCEPT
          !.speaker = OrElse(@, i),
          !.deniedBy = IF said = "deny" THEN OrElse(@, i) ELSE @,
          !.allowedBy = IF said = "allow" THEN OrElse(@, i) ELSE @,
          !.verdict = CASE said = "allow" -> "allow"
                        [] said = "ask" /\ @ = "none" -> "ask"
                        [] OTHER -> @]

\* decide: what the loop ends with, read in the code's order.
ChainVerdict(votes) ==
  LET heard == FoldLeftDomain(LAMBDA h, i : Hear(votes, h, i), Silence, votes)
  IN CASE heard.deniedBy # 0 -> [action |-> "deny", by |-> heard.deniedBy]
       [] heard.deniedBy = 0 /\ heard.allowedBy # 0 ->
            [action |-> "allow", by |-> heard.allowedBy]
       [] OTHER ->
            IF heard.verdict = "none" /\ heard.speaker # 0
            THEN [action |-> "allow", by |-> heard.speaker]
            ELSE [action |-> "ask", by |-> heard.speaker]

-----------------------------------------------------------------------------
(***************************************************************************)
(* What the chain promises, over every sequence of at most `n' votes.      *)
(***************************************************************************)

Cast(votes, actions) ==
  {i \in DOMAIN votes : Action(votes[i]) \in actions}
FirstOf(places) ==
  IF places = {} THEN 0 ELSE CHOOSE i \in places : \A j \in places : i <= j

\* deny > allow > ask: any denial wins, then any allow, whatever the order of
\* the load, and each is due to the first policy that gave it.  A chain in
\* which nobody speaks asks, in nobody's name.
DenyAllowAsk(n) ==
  \A len \in 1..n : \A votes \in Votes(len) :
    LET deny == Cast(votes, {"deny"})
        allow == Cast(votes, {"allow"})
    IN ChainVerdict(votes) =
         IF deny # {} THEN [action |-> "deny", by |-> FirstOf(deny)]
         ELSE IF allow # {} THEN [action |-> "allow", by |-> FirstOf(allow)]
         ELSE [action |-> "ask", by |-> FirstOf(Cast(votes, {"ask"}))]

\* A policy loaded in addition, at any place, lifts no denial and drops no
\* allow to a question; that it may turn a question into an allow is what the
\* don't-ask-again extension is for.
DenialStands(n) ==
  \A len \in 1..n : \A votes \in Votes(len) : \A vote \in PolicyVotes :
    \A place \in 1..(len + 1) :
      LET before == ChainVerdict(votes).action
          after == ChainVerdict(InsertAt(votes, place, vote)).action
      IN /\ before = "deny" => after = "deny"
         /\ before = "allow" => after \in {"allow", "deny"}
==============================================================================
