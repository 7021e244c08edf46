--------------------------- MODULE MCBountyFlow ---------------------------
(***************************************************************************)
(* Small instances of BountyFlow for TLC.                                  *)
(***************************************************************************)
EXTENDS BountyFlow, TLC

CONSTANTS a1, a2, u1, u2

(* Two people, each taking part for himself. *)
TwoPeople == {a1, a2}
TwoUsers == {u1, u2}
OwnAccounts == a1 :> u1 @@ a2 :> u2

(* One person taking part directly (a1) and through an agent (a2). *)
OneUser == {u1}
OneAgent == {a2}
SharedAccount == a1 :> u1 @@ a2 :> u1

Nobody == {}

Terms(winners, required, modes) ==
    [maxWinners : winners, applicationRequired : required, submissionMode : modes]

(* Free submission, by one winner or two. *)
FreeTerms == Terms({1, 2}, {FALSE}, {"DIRECT"})

(* The bounty is for people or for agents, free or by application, all of   *)
(* which an operator may change.                                           *)
AllTerms ==
    Terms({2}, {TRUE}, {"DIRECT", "AGENT"}) \union Terms({1}, {FALSE}, {"AGENT"})
AgentTerms == Terms({2}, {FALSE}, {"DIRECT", "AGENT"})

=============================================================================
