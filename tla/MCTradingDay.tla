---------------------------- MODULE MCTradingDay ----------------------------
(* Instances of TradingDay for TLC. *)
EXTENDS TradingDay

MCUnderlying == <<"SPY", "QQQ">>

MCOneUnderlying == <<"SPY">>
=============================================================================
