------------------------------ MODULE MCDispute ------------------------------
(***************************************************************************)
(* One funded account of unlimited duration that may be settled, disputed, *)
(* faulted, slashed for and paid, in every order.                          *)
(***************************************************************************)
EXTENDS DisputePayout

MCEpochs == {1}
MCOtherFills == <<1>>
MCPhase == [c \in Challenges |-> "Funded"]
MCTradeCount == [c \in Challenges |-> <<0>>]
MCTradePnl == [c \in Challenges |-> <<0>>]
MCMintTimes == {1}
MCWithdrawalWindow == [t \in Tiers |-> 1]
MCTradingPeriod == [c \in Challenges |-> 0]
MCCycleLies == [n \in Cycles |-> {}]
=============================================================================
