---------------------------- MODULE MCTradeFeed ----------------------------
\* Instances of LiveTrades for TLC.
EXTENDS LiveTrades

Spec == FeedSpec /\ FeedFairness
============================================================================
