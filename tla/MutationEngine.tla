---------------------------- MODULE MutationEngine ----------------------------
(***************************************************************************)
(* What a server's operation engine promises whoever submits to it, without *)
(* its stores, tickets and gates: numbers are never used again, an end is   *)
(* final, only what has ended is let go before the process is, and a key is *)
(* not accepted while an operation of its own may still write.  Operations  *)
(* implements it, and OperationRegistry's client talks to one.              *)
(***************************************************************************)
EXTENDS Naturals, Sequences

CONSTANTS
  Keys,    \* idempotency keys
  Shared   \* those of them that stand for the keys of any other session

VARIABLES
  log,     \* the key of every operation accepted so far
  live,    \* the operations that may still write
  kept     \* the operations that can be reported

vars == <<log, live, kept>>

Init == log = <<>> /\ live = {} /\ kept = {}

(* What has ended may be let go to make room. *)
Accept(k) ==
  LET o == Len(log) + 1 IN
  /\ k \in Shared \/ \A p \in live : log[p] # k
  /\ log' = Append(log, k)
  /\ live' = live \cup {o}
  /\ \E gone \in SUBSET (kept \ live) : kept' = (kept \ gone) \cup {o}

End(o) ==
  /\ live' = live \ {o}
  /\ UNCHANGED <<log, kept>>

Forget(gone) ==
  /\ kept' = kept \ gone
  /\ UNCHANGED <<log, live>>

(* Another process takes over and knows of nothing. *)
Replace ==
  /\ live' = {} /\ kept' = {}
  /\ UNCHANGED log

Next ==
  \/ \E o \in live : End(o)
  \/ \E gone \in SUBSET (kept \ live) : Forget(gone)
  \/ Replace
  \/ \E k \in Keys : Accept(k)

Spec == Init /\ [][Next]_vars
=============================================================================
