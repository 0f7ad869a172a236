----------------------------- MODULE MCSettlement -----------------------------
(***************************************************************************)
(* One evaluation account whose firm has another active account, two       *)
(* hours of evidence, two keeper keys that the guardian rotates, an        *)
(* integrity hold and every kind of lie.                                   *)
(***************************************************************************)
EXTENDS ChallengeProperties

MCEpochs == {1, 2}
MCOtherFills == <<1, 2>>
MCPhase == [c \in Challenges |-> "Phase1"]
MCTradeCount == [c \in Challenges |-> <<2, 1>>]
MCTradePnl == [c \in Challenges |-> <<1, -1>>]
MCMintTimes == {0, 3}
MCWithdrawalWindow == [t \in Tiers |-> 1]
MCSuppCounts == {1}
MCLies ==
    {"Transition", "Input", "Provenance", "Split", "Unbound", "Unstepped", "Padding", "Genesis",
     "Result", "Detached"}
MCCycleLies == [n \in Cycles |-> {}]
=============================================================================
