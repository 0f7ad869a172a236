----------------------------- MODULE MCWithdrawal -----------------------------
(***************************************************************************)
(* One funded account over two profitable hours: it may withdraw all or    *)
(* part of its profit in up to two cycles, the second of which may be      *)
(* false in every way, and settle in between; or it joins after the roots  *)
(* and lives on supplemental evidence.                                     *)
(***************************************************************************)
EXTENDS ChallengeProperties

MCEpochs == 1..2
MCOtherFills == <<1, 1>>
MCPhase == [c \in Challenges |-> "Funded"]
MCTradeCount == [c \in Challenges |-> <<1, 1>>]
MCTradePnl == [c \in Challenges |-> <<2, 1>>]
MCMintTimes == {0, 3}
MCWithdrawalWindow == [t \in Tiers |-> 1]
MCSuppCounts == {1}
MCNoLies == [n \in Cycles |-> {}]
MCFirstLies == [n \in Cycles |-> IF n = 0 THEN {"Input"} ELSE {}]
MCLaterLies ==
    [n \in Cycles |->
        IF n = 0 THEN {}
        ELSE {"Transition", "Input", "Provenance", "Split", "Unbound", "Unstepped", "Padding",
              "Genesis", "Detached"}]
=============================================================================
