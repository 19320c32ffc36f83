----------------------------- MODULE MCThrottle -----------------------------
(* TLC instance of Throttle: one tick is about a second, scaled down.      *)
EXTENDS Throttle

(* Used up, and two different amounts of free quota: moving between the    *)
(* last two is a change of the header that leaves the quota open.          *)
MCLimitStatus == {0, 1, 2}

(* No reset time, one that passes early in the run and one late.           *)
MCResetTimestamp == {0, 3, 6}
=============================================================================
