---------------------------- MODULE MCMarketFeed ----------------------------
(***************************************************************************)
(* MarketFeed for TLC: quotes are asked for live first, then delayed.      *)
(***************************************************************************)
EXTENDS MarketFeed

MCTypes == <<1, 3>>

=============================================================================
