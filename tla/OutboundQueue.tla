---------------------------- MODULE OutboundQueue ----------------------------
(***************************************************************************)
(* The queue of the outbound scheduler of one control session, as pure     *)
(* operators on a sequence of entries (crates/k10s-server/src/outbound.rs).*)
(* OutboundScheduler makes a state machine of it; WatchDelivery puts the   *)
(* same operators between the watch forwarders and the client.             *)
(*                                                                         *)
(* An entry is [priority, identity, seq, msg]: `identity' is the P2        *)
(* coalescing identity (`NoIdentity' for P0/P1 entries), `seq' the         *)
(* connection sequence the scheduler orders by, 0 standing for Rust's      *)
(* `None' (sequences start at 1).  Of a message the queue only knows `wire',*)
(* the sequence inside the encoded frame.                                  *)
(***************************************************************************)
EXTENDS Integers, Sequences, FiniteSets

CONSTANTS
  Capacity,      \* the queue bound, `capacity.max(1)' in Scheduler::new
  Reserve,       \* slots resource P2 may never take, `reserve.min(capacity)'
  Identities,    \* P2Identity::Resource values: (subscription, resource) pairs
  NoIdentity,    \* the `None' of p2_identity
  Barrier        \* P2Identity::RecoveryBarrier

ASSUME QueueAssumption ==
  /\ Capacity \in Nat \ {0}
  /\ Reserve \in 0 .. Capacity
  /\ IsFiniteSet(Identities)
  /\ NoIdentity \notin Identities
  /\ Barrier \notin Identities
  /\ Barrier # NoIdentity

Priorities == {"P0", "P1", "P2"}

EntryOf(p, id, s, m) == [priority |-> p, identity |-> id, seq |-> s, msg |-> m]

(* Mutant: the bound is tested after it has been passed. *)
FullTooLate(q) == Len(q) > Capacity
Full(q) == Len(q) = Capacity

(* The slots that hold coalescible resource payloads.  The recovery barrier *)
(* is P2 too but is not counted against the P2 partition.                   *)
ResourceSlots(q) == {i \in DOMAIN q : q[i].identity \in Identities}

Holds(q, id) == \E i \in DOMAIN q : q[i].identity = id

(* Mutant: the partition takes one slot of the reserve. *)
PartitionFullTooLate(q) == Full(q) \/ Cardinality(ResourceSlots(q)) > Capacity - Reserve

(* A new resource payload is refused when the queue is full or its          *)
(* partition is: the last Reserve slots stay with reliable traffic.         *)
PartitionFull(q) ==
  \/ Full(q)
  \/ Cardinality(ResourceSlots(q)) >= Capacity - Reserve

(* Mutant: a sequenced slot keeps the payload its frame was built for. *)
CoalesceUnsequenced(q, id, m) ==
  [i \in DOMAIN q |-> IF q[i].identity = id /\ q[i].seq = 0 THEN [q[i] EXCEPT !.msg = m] ELSE q[i]]

(* Replace the payload queued under id, keeping its slot.  The caller       *)
(* rebuilds the message around the sequence the slot already owns.          *)
Coalesce(q, id, m) ==
  [i \in DOMAIN q |->
     IF q[i].identity = id THEN [q[i] EXCEPT !.msg = [m EXCEPT !.wire = q[i].seq]]
                           ELSE q[i]]

Unsequenced(q, p) == {i \in DOMAIN q : q[i].priority = p /\ q[i].seq = 0}
Sequenced(q) == {i \in DOMAIN q : q[i].seq # 0}

FirstOf(S) == CHOOSE i \in S : \A j \in S : i <= j
LeastSequence(q) == CHOOSE i \in Sequenced(q) : \A j \in Sequenced(q) : q[i].seq <= q[j].seq

(* Mutant: strict priority also among sequenced entries. *)
NextSlotByClass(q) ==
  LET P(p) == {i \in DOMAIN q : q[i].priority = p}
  IN IF P("P0") # {} THEN FirstOf(P("P0"))
     ELSE IF P("P1") # {} THEN FirstOf(P("P1"))
     ELSE FirstOf(P("P2"))

(* The entry `recv' takes: unsequenced P0, then unsequenced P1, then the    *)
(* sequenced entry with the least sequence whatever its class, then FIFO.   *)
NextSlot(q) ==
  IF Unsequenced(q, "P0") # {} THEN FirstOf(Unsequenced(q, "P0"))
  ELSE IF Unsequenced(q, "P1") # {} THEN FirstOf(Unsequenced(q, "P1"))
  ELSE IF Sequenced(q) # {} THEN LeastSequence(q)
  ELSE 1

Without(q, i) == [j \in 1 .. Len(q) - 1 |-> IF j < i THEN q[j] ELSE q[j + 1]]
=============================================================================
