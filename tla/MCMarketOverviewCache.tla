----------------------- MODULE MCMarketOverviewCache -----------------------
(* A small instance of MarketOverviewCache for TLC. *)
EXTENDS MarketOverviewCache

\* It opens, closes, waits for its draw and ends while the cache is in use.
SmallRows ==
  {[status |-> "scheduled", opens |-> 1, closes |-> 2, grace |-> Null, delay |-> 0, after |-> 3]}
============================================================================
