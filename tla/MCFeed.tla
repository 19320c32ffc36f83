------------------------------- MODULE MCFeed -------------------------------
(* TLC instance of Feed with its history.                                  *)
EXTENDS FeedHistory, TLC

CONSTANTS s1, s2, bid, ask

MCSymbol == {s1, s2}
MCLevel == {bid, ask}
MCSymmetry == Permutations(MCSymbol) \cup Permutations(MCLevel)
=============================================================================
