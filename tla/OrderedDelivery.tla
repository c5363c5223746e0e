--------------------------- MODULE OrderedDelivery ---------------------------
(***************************************************************************)
(* What the outbound half of a control session promises, without its       *)
(* queue: sequence numbers are issued one after the other, and the peer    *)
(* sees every one of them, in order and exactly once, until the session    *)
(* ends.  Frames may be issued after the end; none of them is delivered.   *)
(***************************************************************************)
EXTENDS Integers

VARIABLES
  issued,     \* the last sequence allocated to a frame
  delivered,  \* the last sequence the peer was sent
  ended       \* no sequenced frame reaches the peer any more

vars == <<issued, delivered, ended>>

Init ==
  /\ issued \in Nat
  /\ delivered \in 0 .. issued
  /\ ended = FALSE

Issue ==
  /\ issued' = issued + 1
  /\ UNCHANGED <<delivered, ended>>

Deliver ==
  /\ ~ended
  /\ delivered < issued
  /\ delivered' = delivered + 1
  /\ ended' \in BOOLEAN
  /\ UNCHANGED issued

End ==
  /\ ended' = TRUE
  /\ UNCHANGED <<issued, delivered>>

Next == Issue \/ Deliver \/ End

Spec == Init /\ [][Next]_vars
=============================================================================
