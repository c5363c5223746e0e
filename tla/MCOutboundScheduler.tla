------------------------- MODULE MCOutboundScheduler -------------------------
(* Model values for OutboundScheduler: watched identities, whose updates are *)
(* sequenced, and plain ones, whose updates are not.                         *)
EXTENDS OutboundScheduler

CONSTANTS w1, w2, p1

OneOfEach == {w1, p1}
TwoWatched == {w1, w2}
PlainOnly == {p1}
JustW == {w1}
NoPlain == {}
=============================================================================
