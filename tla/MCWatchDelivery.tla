--------------------------- MODULE MCWatchDelivery ---------------------------
(* Model values for WatchDelivery. *)
EXTENDS WatchDelivery

CONSTANTS w1, w2, k1, k2

OneWatch == {w1}
BothWatches == {w1, w2}
OneKey == {k1}
BothKeys == {k1, k2}
W1K12 == OneWatch \X BothKeys
W12K1 == BothWatches \X OneKey
W1K1 == OneWatch \X OneKey
Nobody == {}
=============================================================================
