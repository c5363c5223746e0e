----------------------- MODULE OutboundSchedulerProofs -----------------------
(***************************************************************************)
(* Proofs about OutboundScheduler, for every capacity, reserve, set of     *)
(* identities and sequence bound.                                          *)
(***************************************************************************)
EXTENDS OutboundScheduler, FiniteSetTheorems, WellFoundedInduction, TLAPS

---------------------------------------------------------------------------
(* The queue operators. *)

(* Appending an entry: the length, the new last element and the old ones. *)
LEMMA AppendFacts ==
  ASSUME NEW S, NEW q \in Seq(S), NEW e \in S
  PROVE  /\ Append(q, e) \in Seq(S)
         /\ Len(Append(q, e)) = Len(q) + 1
         /\ DOMAIN Append(q, e) = 1 .. Len(q) + 1
         /\ Append(q, e)[Len(q) + 1] = e
         /\ \A i \in DOMAIN q : Append(q, e)[i] = q[i]
  OBVIOUS

(* Taking entry i out of the queue shifts the later ones down by one. *)
LEMMA WithoutFacts ==
  ASSUME NEW S, NEW q \in Seq(S), NEW i \in DOMAIN q
  PROVE  /\ Without(q, i) \in Seq(S)
         /\ Len(Without(q, i)) = Len(q) - 1
         /\ DOMAIN Without(q, i) = 1 .. Len(q) - 1
         /\ \A j \in 1 .. Len(q) - 1 :
              Without(q, i)[j] = IF j < i THEN q[j] ELSE q[j + 1]
<1> DEFINE n == Len(q) - 1
<1>1. n \in Nat /\ i \in 1 .. Len(q)
  OBVIOUS
<1>2. \A j \in 1 .. n : (IF j < i THEN q[j] ELSE q[j + 1]) \in S
  BY <1>1
<1>3. Without(q, i) \in [1 .. n -> S]
  BY <1>2 DEF Without
<1>4. Without(q, i) \in Seq(S) /\ Len(Without(q, i)) = n
  BY <1>1, <1>3
<1>. QED
  BY <1>1, <1>3, <1>4 DEF Without

(* Coalescing keeps the length and touches the payload of one identity only. *)
LEMMA CoalesceFacts ==
  ASSUME NEW S, NEW q \in Seq(S), NEW id, NEW m
  PROVE  /\ DOMAIN Coalesce(q, id, m) = DOMAIN q
         /\ \A i \in DOMAIN q :
              Coalesce(q, id, m)[i] =
                IF q[i].identity = id
                THEN [q[i] EXCEPT !.msg = [m EXCEPT !.wire = q[i].seq]] ELSE q[i]
  BY DEF Coalesce

(* A non-empty set of naturals has a least element. *)
LEMMA LeastNatural ==
  ASSUME NEW T, T \subseteq Nat, T # {}
  PROVE  \E x \in T : \A y \in T : x <= y
<1> DEFINE R == OpToRel(<, Nat)
<1>1. PICK x \in T : \A y \in T : ~ (<<y, x>> \in R)
  <2>1. IsWellFoundedOn(R, Nat)
    BY NatLessThanWellFounded
  <2> HIDE DEF R
  <2>. QED
    BY <2>1, WFMin
<1>2. \A y \in T : x <= y
  <2> SUFFICES ASSUME NEW y \in T, ~ (x <= y)
               PROVE  FALSE
    OBVIOUS
  <2>1. y < x /\ y \in Nat /\ x \in Nat
    OBVIOUS
  <2>2. <<y, x>> \in R
    BY <2>1 DEF OpToRel
  <2>. QED
    BY <1>1, <2>2
<1>. QED
  BY <1>2

(* A non-empty set of positions has a first one. *)
LEMMA FirstOfFacts ==
  ASSUME NEW n \in Nat, NEW S \in SUBSET (1 .. n), S # {}
  PROVE  FirstOf(S) \in S /\ \A j \in S : FirstOf(S) <= j
<1>1. S \subseteq Nat
  OBVIOUS
<1>2. \E i \in S : \A j \in S : i <= j
  BY <1>1, LeastNatural
<1>. QED
  BY <1>2 DEF FirstOf

(* Some sequenced entry has the least sequence. *)
LEMMA LeastSequenceFacts ==
  ASSUME NEW q, \A i \in DOMAIN q : q[i].seq \in Nat, Sequenced(q) # {}
  PROVE  /\ LeastSequence(q) \in Sequenced(q)
         /\ \A j \in Sequenced(q) : q[LeastSequence(q)].seq <= q[j].seq
<1> DEFINE T == {q[i].seq : i \in Sequenced(q)}
<1>1. T \subseteq Nat /\ T # {}
  BY DEF Sequenced
<1>2. PICK x \in T : \A y \in T : x <= y
  BY <1>1, LeastNatural
<1>3. PICK i \in Sequenced(q) : q[i].seq = x
  OBVIOUS
<1>4. \A j \in Sequenced(q) : q[i].seq <= q[j].seq
  BY <1>2, <1>3
<1>. QED
  BY <1>3, <1>4 DEF LeastSequence

---------------------------------------------------------------------------
(* Type correctness. *)

(* The entries the actions put in the queue are entries. *)
LEMMA EntryTypes ==
  /\ \A p \in {"P0", "P1"} : ControlEntry(p) \in Entry
  /\ CloseEntry \in Entry
  /\ \A w \in 1 .. MaxSequence : ReplayEntry(w) \in Entry
  /\ \A p \in {"P0", "P1"}, w \in 1 .. MaxSequence : EntryOf(p, NoIdentity, w, Frame(w)) \in Entry
  /\ \A w \in 1 .. MaxSequence : EntryOf("P2", Barrier, w, Frame(w)) \in Entry
  /\ \A id \in Identities, r \in 0 .. MaxRev, w \in 0 .. MaxSequence :
       EntryOf("P2", id, w, Update(id, r, w)) \in Entry
  BY SchedulerAssumption
     DEF ControlEntry, CloseEntry, ReplayEntry, EntryOf, Entry, Frame, CloseFrame, Update,
         Msg, Priorities

(* What a well-typed entry and a well-typed message have as fields. *)
LEMMA EntryFields ==
  ASSUME NEW e \in Entry
  PROVE  /\ e.priority \in Priorities
         /\ e.identity \in Identities \cup {NoIdentity, Barrier}
         /\ e.seq \in 0 .. MaxSequence /\ e.seq \in Nat
         /\ e.msg \in Msg
         /\ e.msg.wire \in 0 .. MaxSequence /\ e.msg.wire \in Nat
         /\ e.msg.rev \in 0 .. MaxRev
         /\ e.msg.id \in Identities \cup {NoIdentity}
         /\ \A m \in Msg : [e EXCEPT !.msg = m] \in Entry
  BY SchedulerAssumption DEF Entry, Msg

(* Under TypeOK every position of the queue holds an entry. *)
LEMMA QueueEntries ==
  ASSUME TypeOK
  PROVE  /\ Len(queue) \in Nat /\ DOMAIN queue = 1 .. Len(queue)
         /\ \A i \in DOMAIN queue : queue[i] \in Entry
  BY DEF TypeOK

(* The position recv selects is a position of the queue. *)
LEMMA NextSlotInQueue ==
  ASSUME TypeOK, queue # <<>>
  PROVE  NextSlot(queue) \in DOMAIN queue
<1>1. DOMAIN queue = 1 .. Len(queue) /\ Len(queue) \in Nat \ {0}
  BY DEF TypeOK
<1>2. \A p : Unsequenced(queue, p) \in SUBSET (1 .. Len(queue))
  BY <1>1 DEF Unsequenced
<1>3. CASE Unsequenced(queue, "P0") # {}
  BY <1>1, <1>2, <1>3, FirstOfFacts DEF NextSlot
<1>4. CASE Unsequenced(queue, "P0") = {} /\ Unsequenced(queue, "P1") # {}
  BY <1>1, <1>2, <1>4, FirstOfFacts DEF NextSlot
<1>5. CASE /\ Unsequenced(queue, "P0") = {} /\ Unsequenced(queue, "P1") = {}
           /\ Sequenced(queue) # {}
  <2>1. \A i \in DOMAIN queue : queue[i].seq \in Nat
    BY QueueEntries, EntryFields
  <2>2. LeastSequence(queue) \in Sequenced(queue)
    BY <1>5, <2>1, LeastSequenceFacts
  <2>. QED
    BY <1>5, <2>2 DEF NextSlot, Sequenced
<1>6. CASE /\ Unsequenced(queue, "P0") = {} /\ Unsequenced(queue, "P1") = {}
           /\ Sequenced(queue) = {}
  BY <1>1, <1>6 DEF NextSlot
<1>. QED
  BY <1>3, <1>4, <1>5, <1>6

(* A freshly claimed session, with its replay queued, is well typed. *)
LEMMA TypeInit == Init => TypeOK
<1> SUFFICES ASSUME Init PROVE TypeOK
  OBVIOUS
<1>1. PICK last \in 0 .. MaxStart, cursor \in Nat :
        /\ cursor \in 0 .. last
        /\ last - cursor <= Capacity - 1
        /\ counter = last
        /\ delivered = cursor
        /\ queue = [i \in 1 .. (last - cursor) + 1 |->
                      IF i = 1 THEN ControlEntry("P0") ELSE ReplayEntry(cursor + (i - 1))]
  BY DEF Init
<1> DEFINE n == (last - cursor) + 1
<1>2. n \in Nat /\ n <= Capacity /\ last <= MaxSequence /\ last \in Nat /\ cursor \in Nat
  BY <1>1, QueueAssumption, SchedulerAssumption
<1>3. \A i \in 1 .. n :
        (IF i = 1 THEN ControlEntry("P0") ELSE ReplayEntry(cursor + (i - 1))) \in Entry
  <2> SUFFICES ASSUME NEW i \in 1 .. n, i # 1
               PROVE  ReplayEntry(cursor + (i - 1)) \in Entry
    BY EntryTypes
  <2>1. cursor + (i - 1) \in 1 .. MaxSequence
    BY <1>2, SchedulerAssumption
  <2>. QED
    BY <2>1, EntryTypes
<1>4. queue \in [1 .. n -> Entry]
  BY <1>1, <1>3
<1>5. queue \in Seq(Entry) /\ Len(queue) = n
  BY <1>2, <1>4
<1>6. item \in Msg
  BY SchedulerAssumption DEF Init, NoMsg, Msg
<1>7. Len(queue) <= Capacity /\ counter \in 0 .. MaxSequence /\ delivered \in 0 .. MaxSequence
  BY <1>1, <1>2, <1>5, SchedulerAssumption
<1>8. [id \in Identities |-> 0] \in [Identities -> 0 .. MaxRev]
  BY SchedulerAssumption
<1>. QED
  BY <1>5, <1>6, <1>7, <1>8 DEF Init, TypeOK

(* Every enqueue, notification and writer step keeps the types and the bound. *)
LEMMA TypeStep == TypeOK /\ [Next]_vars => TypeOK'
<1> SUFFICES ASSUME TypeOK, [Next]_vars PROVE TypeOK'
  OBVIOUS
<1> USE DEF TypeOK, Push, writerVars, sharedVars
<1>1. ASSUME NEW e \in Entry, ~Full(queue), queue' = Append(queue, e)
      PROVE  queue' \in Seq(Entry) /\ Len(queue') <= Capacity
  BY <1>1, QueueAssumption DEF Full
<1>2. ASSUME NEW p \in {"P0", "P1"}, Enqueue(p) PROVE TypeOK'
  BY <1>1, <1>2, EntryTypes DEF Enqueue
<1>3. CASE EnqueueClose
  BY <1>1, <1>3, EntryTypes DEF EnqueueClose
<1>4. ASSUME counter < MaxSequence
      PROVE  counter + 1 \in 1 .. MaxSequence
  BY <1>4, SchedulerAssumption
<1>5. ASSUME NEW p \in {"P0", "P1"}, EnqueueSequenced(p) PROVE TypeOK'
  BY <1>1, <1>4, <1>5, EntryTypes DEF EnqueueSequenced
<1>6. ASSUME NEW id \in Identities, accepted[id] < MaxRev,
             accepted' = [accepted EXCEPT ![id] = @ + 1]
      PROVE  accepted' \in [Identities -> 0 .. MaxRev] /\ accepted[id] + 1 \in 0 .. MaxRev
  BY <1>6, SchedulerAssumption
<1>7. ASSUME NEW id \in Identities, CoalesceP2(id) PROVE TypeOK'
  <2> DEFINE m == Update(id, accepted[id] + 1, 0)
  <2>1. \A w \in 0 .. MaxSequence : [m EXCEPT !.wire = w] \in Msg
    BY <1>6, <1>7, SchedulerAssumption DEF CoalesceP2, Update, Msg
  <2>2. \A i \in DOMAIN queue :
          (IF queue[i].identity = id
           THEN [queue[i] EXCEPT !.msg = [m EXCEPT !.wire = queue[i].seq]] ELSE queue[i]) \in Entry
    BY <2>1, QueueEntries, EntryFields
  <2>3. queue' \in Seq(Entry) /\ Len(queue') = Len(queue)
    BY <1>7, <2>2 DEF CoalesceP2, Coalesce
  <2>. QED
    BY <1>6, <1>7, <2>3 DEF CoalesceP2
<1>8. ASSUME NEW id \in Plain, EnqueueP2(id) PROVE TypeOK'
  <2>1. id \in Identities /\ 0 \in 0 .. MaxSequence
    BY SchedulerAssumption
  <2>2. accepted' \in [Identities -> 0 .. MaxRev] /\ accepted[id] + 1 \in 0 .. MaxRev
    BY <1>6, <1>8, <2>1 DEF EnqueueP2
  <2>3. EntryOf("P2", id, 0, Update(id, accepted[id] + 1, 0)) \in Entry
    BY <2>1, <2>2, EntryTypes
  <2>4. queue' \in Seq(Entry) /\ Len(queue') <= Capacity
    BY <1>1, <1>8, <2>3 DEF EnqueueP2, PartitionFull
  <2>. QED
    BY <1>8, <2>2, <2>4 DEF EnqueueP2
<1>9. ASSUME NEW id \in Watched, EnqueueP2Sequenced(id) PROVE TypeOK'
  <2>1. id \in Identities
    BY DEF Watched
  <2>2. accepted' \in [Identities -> 0 .. MaxRev] /\ accepted[id] + 1 \in 0 .. MaxRev
    BY <1>6, <1>9, <2>1 DEF EnqueueP2Sequenced
  <2>3. counter' \in 1 .. MaxSequence /\ counter' = counter + 1
    BY <1>4, <1>9 DEF EnqueueP2Sequenced
  <2>4. EntryOf("P2", id, counter + 1, Update(id, accepted[id] + 1, counter + 1)) \in Entry
    BY <2>1, <2>2, <2>3, EntryTypes
  <2>5. queue' \in Seq(Entry) /\ Len(queue') <= Capacity
    BY <1>1, <1>9, <2>4 DEF EnqueueP2Sequenced, PartitionFull
  <2>. QED
    BY <1>9, <2>2, <2>3, <2>5 DEF EnqueueP2Sequenced
<1>10. CASE EnqueueBarrier
  BY <1>1, <1>4, <1>10, EntryTypes DEF EnqueueBarrier
<1>11. CASE OverloadClose
  BY <1>11, EntryTypes, QueueAssumption DEF OverloadClose
<1>12. CASE Close \/ NotifyOne \/ NotifyWaiters \/ Arm \/ Await \/ SendFail \/ CancelWriter
  BY <1>12 DEF Close, NotifyOne, NotifyWaiters, Arm, Await, SendFail, CancelWriter
<1>13. CASE Scan
  <2>1. CASE queue # <<>>
    <3>1. NextSlot(queue) \in DOMAIN queue
      BY <2>1, NextSlotInQueue
    <3>2. queue[NextSlot(queue)].msg \in Msg
      BY <3>1, QueueEntries, EntryFields
    <3>3. Without(queue, NextSlot(queue)) \in Seq(Entry)
          /\ Len(Without(queue, NextSlot(queue))) <= Capacity
      BY <3>1, WithoutFacts, QueueAssumption
    <3>. QED
      BY <1>13, <2>1, <3>2, <3>3 DEF Scan
  <2>2. CASE queue = <<>>
    BY <1>13, <2>2 DEF Scan
  <2>. QED
    BY <2>1, <2>2
<1>14. CASE SendOk
  <2>1. NoMsg \in Msg
    BY SchedulerAssumption DEF NoMsg, Msg
  <2>2. delivered' \in 0 .. MaxSequence /\ shown' \in [Identities -> 0 .. MaxRev]
    BY <1>14 DEF SendOk, Msg
  <2>. QED
    BY <1>14, <2>1, <2>2 DEF SendOk
<1>15. CASE UNCHANGED vars
  BY <1>15 DEF vars
<1>. QED
  BY <1>2, <1>3, <1>5, <1>7, <1>8, <1>9, <1>10, <1>11, <1>12, <1>13, <1>14, <1>15
     DEF Next, EnqueueControl

(* Every reachable state is well typed and the queue is within its capacity. *)
THEOREM TypeCorrect == Spec => []TypeOK
  BY TypeInit, TypeStep, PTL DEF Spec
---------------------------------------------------------------------------
(* The sequence accounting is inductive. *)

Accounting == SequencesAccounted /\ EntryShape /\ ReplayFirst /\ ItemShape /\ ShedMeansClose

outsideQueue == <<pc, item, wireClosed, shed, delivered>>

(* A control frame, a Close or an unsequenced payload disturbs nothing. *)
LEMMA PushPlain ==
  ASSUME TypeOK, Accounting, NEW e \in Entry, e.seq = 0, e.msg.wire = 0,
         queue' = Append(queue, e), UNCHANGED <<counter, outsideQueue>>
  PROVE  Accounting'
<1> DEFINE n == Len(queue)
<1>1. /\ n \in Nat /\ DOMAIN queue = 1 .. n /\ DOMAIN queue' = 1 .. n + 1
      /\ queue'[n + 1] = e /\ \A i \in 1 .. n : queue'[i] = queue[i]
  BY QueueEntries, AppendFacts DEF TypeOK
<1> HIDE DEF n
<1>2. QueuedWires' = QueuedWires
  BY <1>1 DEF QueuedWires
<1>3. SequencesAccounted'
  BY <1>1, <1>2 DEF SequencesAccounted, Accounting, outsideQueue, Taken
<1>4. EntryShape'
  BY <1>1, SchedulerAssumption DEF EntryShape, Accounting, Replayed, TypeOK
<1>5. ReplayFirst'
  BY <1>1 DEF ReplayFirst, Accounting, Replayed
<1>6. ItemShape'
  BY DEF ItemShape, Accounting, outsideQueue, Taken
<1>7. ShedMeansClose'
  <2>1. queue # <<>> => queue' # <<>> /\ queue'[1] = queue[1]
    BY AppendFacts, QueueEntries DEF TypeOK
  <2>. QED
    BY <2>1 DEF ShedMeansClose, Accounting, outsideQueue
<1>. QED
  BY <1>3, <1>4, <1>5, <1>6, <1>7 DEF Accounting

(* A sequenced frame carries the sequence allocated with it: the queued      *)
(* interval grows by one at its upper end.                                   *)
LEMMA PushSequenced ==
  ASSUME TypeOK, Accounting, NEW e \in Entry, e.seq = counter + 1, e.msg.wire = counter + 1,
         e.msg.kind = "frame",
         queue' = Append(queue, e), counter' = counter + 1, UNCHANGED outsideQueue
  PROVE  Accounting'
<1> DEFINE n == Len(queue)
<1>1. /\ n \in Nat /\ DOMAIN queue = 1 .. n /\ DOMAIN queue' = 1 .. n + 1
      /\ queue'[n + 1] = e /\ \A i \in 1 .. n : queue'[i] = queue[i]
  BY QueueEntries, AppendFacts DEF TypeOK
<1> HIDE DEF n
<1>2. counter \in Nat /\ counter + 1 # 0 /\ delivered \in Nat /\ item.wire \in Nat
  BY SchedulerAssumption DEF TypeOK, Msg
<1>3. QueuedWires' = QueuedWires \cup {counter + 1}
  BY <1>1, <1>2 DEF QueuedWires
<1>4. SequencesAccounted'
  <2> SUFFICES ASSUME ~shed
               PROVE  /\ item.wire \in {0, delivered + 1}
                      /\ QueuedWires' = Taken + 1 .. counter + 1
                      /\ \A i, j \in DOMAIN queue' :
                           queue'[i].msg.wire # 0 /\ queue'[i].msg.wire = queue'[j].msg.wire => i = j
    BY DEF SequencesAccounted, outsideQueue, Taken
  <2>1. QueuedWires = Taken + 1 .. counter /\ Taken <= counter /\ Taken \in Nat
    BY <1>2 DEF Accounting, SequencesAccounted, ItemShape, Taken
  <2>2. QueuedWires' = Taken + 1 .. counter + 1
    BY <1>2, <1>3, <2>1
  <2>3. \A i \in 1 .. n : queue[i].msg.wire # counter + 1
    <3> SUFFICES ASSUME NEW i \in 1 .. n, queue[i].msg.wire = counter + 1 PROVE FALSE
      OBVIOUS
    <3>1. counter + 1 \in QueuedWires
      BY <1>1, <1>2 DEF QueuedWires
    <3>. QED
      BY <1>2, <2>1, <3>1
  <2>. QED
    BY <1>1, <2>2, <2>3 DEF Accounting, SequencesAccounted
<1>5. EntryShape'
  <2>1. \A i \in 1 .. n : queue[i].msg.wire \in Nat
    BY <1>1, QueueEntries, EntryFields
  <2>. QED
    BY <1>1, <1>2, <2>1 DEF EntryShape, Accounting, Replayed
<1>6. ReplayFirst'
  <2>1. \A i \in 1 .. n : queue[i].msg.wire < counter + 1
    BY <1>1, <1>2, QueueEntries, EntryFields DEF Accounting, EntryShape
  <2>. QED
    BY <1>1, <1>2, <2>1 DEF ReplayFirst, Accounting, Replayed
<1>7. ItemShape'
  BY <1>2 DEF ItemShape, Accounting, outsideQueue, Taken
<1>8. ShedMeansClose'
  <2>1. queue # <<>> => queue' # <<>> /\ queue'[1] = queue[1]
    BY AppendFacts, QueueEntries DEF TypeOK
  <2>. QED
    BY <2>1 DEF ShedMeansClose, Accounting, outsideQueue
<1>. QED
  BY <1>4, <1>5, <1>6, <1>7, <1>8 DEF Accounting
(* Coalescing rewrites a payload around the sequence its slot already has.   *)
LEMMA CoalesceKeeps ==
  ASSUME TypeOK, Accounting, NEW id \in Identities, NEW m \in Msg, m.kind = "frame",
         queue' = Coalesce(queue, id, m), UNCHANGED <<counter, outsideQueue>>
  PROVE  Accounting'
<1> DEFINE n == Len(queue)
<1>1. /\ n \in Nat /\ DOMAIN queue = 1 .. n /\ DOMAIN queue' = 1 .. n
      /\ \A i \in 1 .. n : queue[i] \in Entry
  BY QueueEntries DEF Coalesce
<1> HIDE DEF n
<1>2. \A i \in 1 .. n : /\ queue'[i].seq = queue[i].seq
                        /\ queue'[i].priority = queue[i].priority
                        /\ queue'[i].identity = queue[i].identity
                        /\ queue'[i].msg.wire = queue[i].msg.wire
                        /\ queue'[i].msg.kind = "close" => queue[i].msg.kind = "close"
  <2> SUFFICES ASSUME NEW i \in 1 .. n, queue[i].identity = id
               PROVE  /\ queue'[i].seq = queue[i].seq
                      /\ queue'[i].priority = queue[i].priority
                      /\ queue'[i].identity = queue[i].identity
                      /\ queue'[i].msg.wire = queue[i].msg.wire
                      /\ queue'[i].msg.kind = "close" => queue[i].msg.kind = "close"
    BY <1>1 DEF Coalesce
  <2>1. queue'[i] = [queue[i] EXCEPT !.msg = [m EXCEPT !.wire = queue[i].seq]]
    BY <1>1 DEF Coalesce
  <2>2. queue[i].seq = queue[i].msg.wire
    BY <1>1, QueueAssumption DEF Accounting, EntryShape, Replayed
  <2>. QED
    BY <1>1, <2>1, <2>2 DEF Entry, Msg
<1>3. QueuedWires' = QueuedWires
  BY <1>1, <1>2 DEF QueuedWires
<1>4. SequencesAccounted'
  BY <1>1, <1>2, <1>3 DEF SequencesAccounted, Accounting, outsideQueue, Taken
<1>5. EntryShape' /\ ReplayFirst'
  BY <1>1, <1>2 DEF EntryShape, ReplayFirst, Accounting, Replayed
<1>6. ItemShape'
  BY DEF ItemShape, Accounting, outsideQueue, Taken
<1>7. ShedMeansClose'
  <2>1. queue # <<>> /\ queue[1] = CloseEntry => queue' # <<>> /\ queue'[1] = queue[1]
    BY <1>1, QueueAssumption DEF Coalesce, CloseEntry, EntryOf
  <2>. QED
    BY <2>1 DEF ShedMeansClose, Accounting, outsideQueue
<1>. QED
  BY <1>4, <1>5, <1>6, <1>7 DEF Accounting

(* overload_close leaves one unsequenced Close.                              *)
LEMMA ShedKeeps ==
  ASSUME TypeOK, Accounting, OverloadClose
  PROVE  Accounting'
<1>1. /\ DOMAIN queue' = 1 .. 1 /\ queue'[1] = CloseEntry /\ queue' # <<>> /\ shed'
      /\ UNCHANGED <<counter, pc, item, wireClosed, delivered>>
  BY DEF OverloadClose, writerVars
<1>2. CloseEntry.seq = 0 /\ CloseEntry.msg.wire = 0 /\ CloseEntry.identity = NoIdentity
  BY DEF CloseEntry, EntryOf, CloseFrame
<1>3. counter \in Nat
  BY SchedulerAssumption DEF TypeOK
<1>4. EntryShape' /\ ReplayFirst'
  BY <1>1, <1>2, <1>3 DEF EntryShape, ReplayFirst, Replayed
<1>5. ItemShape'
  BY <1>1 DEF ItemShape, Accounting, Taken
<1>. QED
  BY <1>1, <1>4, <1>5 DEF Accounting, SequencesAccounted, ShedMeansClose

(* The entry recv takes carries no sequence or the one after Taken, and the  *)
(* first entry when that is a Close frame.                                   *)
LEMMA NextSlotFacts ==
  ASSUME TypeOK, Accounting, queue # <<>>
  PROVE  LET k == NextSlot(queue) IN
           /\ k \in DOMAIN queue
           /\ ~shed /\ queue[k].msg.wire # 0 =>
                \A j \in DOMAIN queue :
                  queue[j].msg.wire # 0 => queue[k].msg.wire <= queue[j].msg.wire
           /\ queue[1] = CloseEntry => k = 1
<1> DEFINE n == Len(queue)
           k == NextSlot(queue)
<1>1. /\ n \in Nat \ {0} /\ DOMAIN queue = 1 .. n
      /\ \A i \in 1 .. n : queue[i].seq \in Nat /\ queue[i].msg.wire \in Nat
  BY QueueEntries, EntryFields DEF TypeOK
<1>2. k \in 1 .. n
  BY <1>1, NextSlotInQueue
<1>3. \A p : Unsequenced(queue, p) \in SUBSET (1 .. n)
  BY <1>1 DEF Unsequenced
<1>4. queue[1] = CloseEntry => k = 1
  <2> SUFFICES ASSUME queue[1] = CloseEntry PROVE k = 1
    OBVIOUS
  <2>1. 1 \in Unsequenced(queue, "P0")
    BY <1>1 DEF Unsequenced, CloseEntry, EntryOf
  <2>2. k \in Unsequenced(queue, "P0") /\ k <= 1
    BY <1>1, <1>3, <2>1, FirstOfFacts DEF NextSlot
  <2>. QED
    BY <1>1, <1>2, <2>2
<1>5. ASSUME ~shed, queue[k].msg.wire # 0, NEW j \in 1 .. n, queue[j].msg.wire # 0
      PROVE  queue[k].msg.wire <= queue[j].msg.wire
  <2>1. CASE Unsequenced(queue, "P0") # {}
    <3>1. k \in Unsequenced(queue, "P0")
      BY <1>1, <1>3, <2>1, FirstOfFacts DEF NextSlot
    <3>. QED
      BY <1>1, <1>5, <3>1 DEF Unsequenced, Accounting, EntryShape, Replayed
  <2>2. CASE Unsequenced(queue, "P0") = {} /\ Unsequenced(queue, "P1") # {}
    <3>1. k \in Unsequenced(queue, "P1") /\ \A i \in Unsequenced(queue, "P1") : k <= i
      BY <1>1, <1>3, <2>2, FirstOfFacts DEF NextSlot
    <3>2. Replayed(queue[k])
      BY <1>5, <3>1 DEF Unsequenced, Replayed
    <3>3. CASE queue[j].seq # 0
      BY <1>1, <1>2, <3>2, <3>3 DEF Accounting, EntryShape, ReplayFirst
    <3>4. CASE queue[j].seq = 0
      <4>1. Replayed(queue[j])
        BY <1>5, <3>4 DEF Replayed
      <4>2. j \in Unsequenced(queue, "P1")
        BY <1>1, <3>4, <4>1 DEF Unsequenced, Accounting, EntryShape
      <4>3. k <= j
        BY <3>1, <4>2
      <4>. QED
        BY <1>1, <1>2, <3>2, <4>1, <4>3 DEF Accounting, ReplayFirst
    <3>. QED
      BY <3>3, <3>4
  <2>3. CASE Unsequenced(queue, "P0") = {} /\ Unsequenced(queue, "P1") = {}
    <3>1. \A i \in 1 .. n : queue[i].msg.wire # 0 => queue[i].seq = queue[i].msg.wire /\ i \in Sequenced(queue)
      BY <1>1, <2>3 DEF Unsequenced, Sequenced, Accounting, EntryShape, Replayed
    <3>2. \A i \in Sequenced(queue) : queue[k].seq <= queue[i].seq
      BY <1>1, <1>2, <1>5, <2>3, <3>1, LeastSequenceFacts DEF NextSlot
    <3>. QED
      BY <1>2, <1>5, <3>1, <3>2
  <2>. QED
    BY <2>1, <2>2, <2>3
<1>. QED
  BY <1>1, <1>2, <1>4, <1>5

(* The writer's scan moves the sequence after Taken from queue to writer.    *)
LEMMA ScanKeeps ==
  ASSUME TypeOK, Accounting, Scan
  PROVE  Accounting'
<1>1. CASE queue = <<>>
  BY <1>1 DEF Scan, sharedVars, Accounting, SequencesAccounted, EntryShape, ReplayFirst,
              ItemShape, ShedMeansClose, QueuedWires, Taken, Replayed
<1>2. CASE queue # <<>>
  <2> DEFINE n == Len(queue)
             k == NextSlot(queue)
  <2>1. /\ n \in Nat \ {0} /\ DOMAIN queue = 1 .. n /\ queue \in Seq(Entry)
        /\ \A i \in 1 .. n : queue[i] \in Entry /\ queue[i].msg.wire \in Nat
    BY <1>2, QueueEntries, EntryFields DEF TypeOK
  <2>2. /\ k \in 1 .. n
        /\ ~shed /\ queue[k].msg.wire # 0 =>
             \A j \in 1 .. n : queue[j].msg.wire # 0 => queue[k].msg.wire <= queue[j].msg.wire
        /\ queue[1] = CloseEntry => k = 1
    BY <1>2, <2>1, NextSlotFacts
  <2>3. /\ pc = "armed" /\ item = NoMsg /\ item' = queue[k].msg /\ pc' = "sending"
        /\ queue' = Without(queue, k)
        /\ UNCHANGED <<counter, shed, wireClosed, delivered>>
    BY <1>2 DEF Scan, sharedVars, Accounting, ItemShape
  <2>4. /\ DOMAIN queue' = 1 .. n - 1
        /\ \A j \in 1 .. n - 1 : queue'[j] = IF j < k THEN queue[j] ELSE queue[j + 1]
    BY <2>1, <2>2, <2>3, WithoutFacts
  <2> HIDE DEF n, k
  <2> DEFINE src(j) == IF j < k THEN j ELSE j + 1
  <2>5. \A j \in 1 .. n - 1 : queue'[j] = queue[src(j)] /\ src(j) \in 1 .. n /\ src(j) # k
    BY <2>1, <2>2, <2>4
  <2>6. \A i, j \in 1 .. n - 1 : (src(i) = src(j) => i = j) /\ (i < j => src(i) < src(j))
    BY <2>1, <2>2
  <2>7. \A i \in 1 .. n : i # k => \E j \in 1 .. n - 1 : src(j) = i
    <3> SUFFICES ASSUME NEW i \in 1 .. n, i # k
                 PROVE  \E j \in 1 .. n - 1 : src(j) = i
      OBVIOUS
    <3>1. CASE i < k
      BY <2>1, <2>2, <3>1
    <3>2. CASE i > k
      <4>1. i - 1 \in 1 .. n - 1 /\ src(i - 1) = i
        BY <2>1, <2>2, <3>2
      <4>. QED
        BY <4>1
    <3>. QED
      BY <2>1, <2>2, <3>1, <3>2
  <2> HIDE DEF src
  <2>8. EntryShape' /\ ReplayFirst'
    <3>1. EntryShape'
      BY <2>1, <2>3, <2>4, <2>5 DEF Accounting, EntryShape, Replayed
    <3>2. ASSUME NEW i \in 1 .. n - 1, NEW j \in 1 .. n - 1, Replayed(queue'[i])
          PROVE  /\ Replayed(queue'[j]) /\ i < j => queue'[i].msg.wire < queue'[j].msg.wire
                 /\ queue'[j].seq # 0 => queue'[i].msg.wire < queue'[j].seq
      <4>1. /\ queue'[i] = queue[src(i)] /\ queue'[j] = queue[src(j)]
            /\ src(i) \in DOMAIN queue /\ src(j) \in DOMAIN queue
        BY <2>1, <2>5
      <4>2. Replayed(queue[src(i)]) /\ (i < j => src(i) < src(j))
        BY <2>6, <3>2, <4>1
      <4>. QED
        BY <4>1, <4>2 DEF Accounting, ReplayFirst
    <3>3. ReplayFirst'
      BY <2>4, <3>2 DEF ReplayFirst, Replayed
    <3>. QED
      BY <3>1, <3>3
  <2>9. /\ NoMsg.wire = 0 /\ delivered \in Nat /\ counter \in Nat /\ Taken = delivered
        /\ queue[k].msg.wire \in Nat /\ queue[k].msg.wire <= counter
    BY <2>1, <2>2, <2>3, SchedulerAssumption DEF NoMsg, Taken, TypeOK, Accounting, EntryShape
  <2>10. ~shed => /\ queue[k].msg.wire \in {0, delivered + 1}
                  /\ queue[k].msg.wire = 0 => QueuedWires' = QueuedWires
                  /\ queue[k].msg.wire # 0 => QueuedWires' = QueuedWires \ {queue[k].msg.wire}
    <3> SUFFICES ASSUME ~shed
                 PROVE  /\ queue[k].msg.wire \in {0, delivered + 1}
                        /\ queue[k].msg.wire = 0 => QueuedWires' = QueuedWires
                        /\ queue[k].msg.wire # 0 => QueuedWires' = QueuedWires \ {queue[k].msg.wire}
      OBVIOUS
    <3>1. QueuedWires = delivered + 1 .. counter
      BY <2>9 DEF Accounting, SequencesAccounted
    <3>2. \A i, j \in 1 .. n :
            queue[i].msg.wire # 0 /\ queue[i].msg.wire = queue[j].msg.wire => i = j
      BY <2>1 DEF Accounting, SequencesAccounted
    <3>3. QueuedWires' = {queue'[i].msg.wire : i \in {j \in 1 .. n - 1 : queue'[j].msg.wire # 0}}
      BY <2>4 DEF QueuedWires
    <3>4. QueuedWires = {queue[i].msg.wire : i \in {j \in 1 .. n : queue[j].msg.wire # 0}}
      BY <2>1 DEF QueuedWires
    <3>5. queue[k].msg.wire # 0 => queue[k].msg.wire = delivered + 1
      <4> SUFFICES ASSUME queue[k].msg.wire # 0 PROVE queue[k].msg.wire = delivered + 1
        OBVIOUS
      <4>1. queue[k].msg.wire \in delivered + 1 .. counter
        BY <2>2, <3>1, <3>4
      <4>2. delivered + 1 \in QueuedWires
        BY <2>9, <3>1, <4>1
      <4>3. PICK j \in 1 .. n : queue[j].msg.wire = delivered + 1
        BY <3>4, <4>2
      <4>4. queue[k].msg.wire <= delivered + 1
        BY <2>2, <2>9, <4>3
      <4>. QED
        BY <2>9, <4>1, <4>4
    <3>6. QueuedWires' \subseteq QueuedWires
      BY <2>5, <3>3, <3>4
    <3>7. \A x \in QueuedWires : x # queue[k].msg.wire => x \in QueuedWires'
      BY <2>5, <2>7, <3>3, <3>4
    <3>8. queue[k].msg.wire # 0 => queue[k].msg.wire \notin QueuedWires'
      BY <2>2, <2>5, <3>2, <3>3
    <3>9. queue[k].msg.wire = 0 => queue[k].msg.wire \notin QueuedWires
      BY <2>9, <3>1
    <3>. QED
      BY <3>5, <3>6, <3>7, <3>8, <3>9
  <2>11. SequencesAccounted'
    <3> SUFFICES ASSUME ~shed
                 PROVE  /\ item'.wire \in {0, delivered + 1}
                        /\ QueuedWires' = Taken' + 1 .. counter
                        /\ \A i, j \in DOMAIN queue' :
                             queue'[i].msg.wire # 0 /\ queue'[i].msg.wire = queue'[j].msg.wire => i = j
      BY <2>3 DEF SequencesAccounted
    <3>1. QueuedWires = delivered + 1 .. counter
      BY <2>9 DEF Accounting, SequencesAccounted
    <3>2. QueuedWires' = Taken' + 1 .. counter
      <4>1. CASE queue[k].msg.wire = 0
        <5>1. Taken' = delivered
          BY <2>3, <4>1 DEF Taken
        <5>. QED
          BY <2>10, <3>1, <4>1, <5>1
      <4>2. CASE queue[k].msg.wire # 0
        <5>1. Taken' = delivered + 1 /\ queue[k].msg.wire = delivered + 1
          BY <2>3, <2>10, <4>2 DEF Taken
        <5>2. (delivered + 1 .. counter) \ {delivered + 1} = (delivered + 1) + 1 .. counter
          BY <2>9
        <5>. QED
          BY <2>10, <3>1, <4>2, <5>1, <5>2
      <4>. QED
        BY <4>1, <4>2
    <3>3. \A i, j \in 1 .. n - 1 :
            queue'[i].msg.wire # 0 /\ queue'[i].msg.wire = queue'[j].msg.wire => i = j
      BY <2>1, <2>5, <2>6 DEF Accounting, SequencesAccounted
    <3>. QED
      BY <2>3, <2>4, <2>10, <3>2, <3>3
  <2>12. ItemShape'
    <3>1. item'.kind = "close" => item'.wire = 0
      BY <2>1, <2>2, <2>3 DEF Accounting, EntryShape
    <3>2. item'.wire # 0 /\ ~wireClosed => item'.wire = delivered + 1
      <4>1. CASE ~shed
        BY <2>3, <2>10, <4>1
      <4>2. CASE shed /\ ~wireClosed
        <5>1. queue[1] = CloseEntry
          BY <2>3, <4>2 DEF Accounting, ShedMeansClose, NoMsg
        <5>. QED
          BY <2>2, <2>3, <5>1 DEF CloseEntry, EntryOf, CloseFrame
      <4>. QED
        BY <4>1, <4>2
    <3>3. Taken' = (IF queue[k].msg.wire # 0 THEN queue[k].msg.wire ELSE delivered)
      BY <2>3 DEF Taken
    <3>4. Taken' <= counter
      BY <2>9, <3>3 DEF Accounting, ItemShape
    <3>. QED
      BY <2>3, <3>1, <3>2, <3>4 DEF ItemShape
  <2>13. ShedMeansClose'
    <3>1. queue[1] = CloseEntry => item'.kind = "close"
      BY <2>2, <2>3 DEF CloseEntry, EntryOf, CloseFrame
    <3>. QED
      BY <2>3, <3>1 DEF ShedMeansClose, Accounting, NoMsg
  <2>. QED
    BY <2>8, <2>11, <2>12, <2>13 DEF Accounting
<1>. QED
  BY <1>1, <1>2

(* The Welcome and the replayed frames satisfy the accounting. *)
LEMMA AccountingInit == Init => Accounting
<1> SUFFICES ASSUME Init PROVE Accounting
  OBVIOUS
<1>1. PICK last \in 0 .. MaxStart, cursor \in Nat :
        /\ cursor \in 0 .. last
        /\ counter = last
        /\ delivered = cursor
        /\ queue = [i \in 1 .. (last - cursor) + 1 |->
                      IF i = 1 THEN ControlEntry("P0") ELSE ReplayEntry(cursor + (i - 1))]
  BY DEF Init
<1>2. last \in Nat /\ cursor \in Nat /\ cursor <= last
  BY <1>1, SchedulerAssumption
<1> DEFINE n == (last - cursor) + 1
<1>3. DOMAIN queue = 1 .. n /\ n \in Nat
  BY <1>1, <1>2
<1>11. \A i \in 1 .. n :
         queue[i] = IF i = 1 THEN ControlEntry("P0") ELSE ReplayEntry(cursor + (i - 1))
  BY <1>1
<1>12. \A i \in 1 .. n :
         /\ queue[i].seq = 0
         /\ queue[i].identity = NoIdentity
         /\ queue[i].msg.kind = "frame"
         /\ queue[i].msg.wire = IF i = 1 THEN 0 ELSE cursor + (i - 1)
         /\ i # 1 => queue[i].priority = "P1"
  <2>1. /\ ControlEntry("P0").seq = 0 /\ ControlEntry("P0").identity = NoIdentity
        /\ ControlEntry("P0").msg.kind = "frame" /\ ControlEntry("P0").msg.wire = 0
    BY DEF ControlEntry, EntryOf, Frame
  <2>2. \A w : /\ ReplayEntry(w).seq = 0 /\ ReplayEntry(w).identity = NoIdentity
              /\ ReplayEntry(w).msg.kind = "frame" /\ ReplayEntry(w).msg.wire = w
              /\ ReplayEntry(w).priority = "P1"
    BY DEF ReplayEntry, EntryOf, Frame
  <2>. QED
    BY <1>11, <2>1, <2>2
<1>4. item = NoMsg /\ item.wire = 0 /\ item.kind = "none" /\ Taken = cursor /\ pc = "idle" /\ ~shed
  BY <1>1 DEF Init, NoMsg, Taken
<1> HIDE DEF n
<1>10. \A i \in 1 .. n :
         /\ i \in Nat
         /\ i = 1 => queue[i].msg.wire = 0
         /\ i # 1 => /\ queue[i].msg.wire = (cursor + i) - 1
                     /\ (cursor + i) - 1 \in Nat /\ (cursor + i) - 1 >= cursor + 1
                     /\ (cursor + i) - 1 <= last
  BY <1>2, <1>3, <1>12 DEF n
<1>5. EntryShape
  <2>1. \A i \in 1 .. n : Replayed(queue[i]) => i # 1
    BY <1>10 DEF Replayed
  <2>2. \A i \in 1 .. n : queue[i].msg.wire <= last
    BY <1>2, <1>10
  <2>3. counter = last
    BY <1>1
  <2>. QED
    BY <1>3, <1>12, <2>1, <2>2, <2>3 DEF EntryShape
<1>6. ReplayFirst
  <2> SUFFICES ASSUME NEW i \in 1 .. n, NEW j \in 1 .. n, Replayed(queue[i]), Replayed(queue[j]), i < j
               PROVE  queue[i].msg.wire < queue[j].msg.wire
    BY <1>3, <1>12 DEF ReplayFirst
  <2>1. i # 1 /\ j # 1
    BY <1>10 DEF Replayed
  <2>. QED
    BY <1>2, <1>10, <2>1
<1>7. QueuedWires = cursor + 1 .. last
  <2>1. QueuedWires \subseteq cursor + 1 .. last
    <3> SUFFICES ASSUME NEW i \in 1 .. n, queue[i].msg.wire # 0
                 PROVE  queue[i].msg.wire \in cursor + 1 .. last
      BY <1>3 DEF QueuedWires
    <3>. QED
      BY <1>2, <1>10
  <2>2. ASSUME NEW x \in cursor + 1 .. last PROVE x \in QueuedWires
    <3> DEFINE i == (x - cursor) + 1
    <3>1. i \in 1 .. n /\ i # 1 /\ (cursor + i) - 1 = x /\ x # 0
      BY <1>2 DEF n
    <3>2. queue[i].msg.wire = x
      BY <1>10, <3>1
    <3>. QED
      BY <1>3, <3>1, <3>2 DEF QueuedWires
  <2>. QED
    BY <2>1, <2>2
<1>8. SequencesAccounted
  <2>1. \A i, j \in 1 .. n :
          queue[i].msg.wire # 0 /\ queue[i].msg.wire = queue[j].msg.wire => i = j
    <3> SUFFICES ASSUME NEW i \in 1 .. n, NEW j \in 1 .. n, queue[i].msg.wire # 0,
                        queue[i].msg.wire = queue[j].msg.wire
                 PROVE  i = j
      OBVIOUS
    <3>1. i # 1 /\ j # 1
      BY <1>10
    <3>. QED
      BY <1>2, <1>10, <3>1
  <2>2. counter = last /\ delivered = cursor
    BY <1>1
  <2>. QED
    BY <1>3, <1>4, <1>7, <2>1, <2>2 DEF SequencesAccounted
<1>9. ItemShape /\ ShedMeansClose
  BY <1>1, <1>2, <1>4 DEF ItemShape, ShedMeansClose
<1>. QED
  BY <1>5, <1>6, <1>8, <1>9 DEF Accounting

(* Every step keeps the accounting and what it rests on. *)
LEMMA AccountingStep == TypeOK /\ Accounting /\ [Next]_vars => Accounting'
<1> SUFFICES ASSUME TypeOK, Accounting, [Next]_vars PROVE Accounting'
  OBVIOUS
<1> USE DEF Push, writerVars, sharedVars, outsideQueue
<1>1. ASSUME NEW p \in {"P0", "P1"}, Enqueue(p) PROVE Accounting'
  <2>1. ControlEntry(p) \in Entry /\ ControlEntry(p).seq = 0 /\ ControlEntry(p).msg.wire = 0
    BY EntryTypes DEF ControlEntry, EntryOf, Frame
  <2>. QED
    BY <1>1, <2>1, PushPlain DEF Enqueue
<1>2. CASE EnqueueClose
  <2>1. CloseEntry \in Entry /\ CloseEntry.seq = 0 /\ CloseEntry.msg.wire = 0
    BY EntryTypes DEF CloseEntry, EntryOf, CloseFrame
  <2>. QED
    BY <1>2, <2>1, PushPlain DEF EnqueueClose
<1>3. counter < MaxSequence => counter + 1 \in 1 .. MaxSequence
  BY SchedulerAssumption DEF TypeOK
<1>4. ASSUME NEW p \in {"P0", "P1"}, EnqueueSequenced(p) PROVE Accounting'
  <2> DEFINE e == EntryOf(p, NoIdentity, counter + 1, Frame(counter + 1))
  <2>1. /\ e \in Entry /\ e.seq = counter + 1 /\ e.msg.wire = counter + 1
        /\ e.msg.kind = "frame"
    BY <1>3, <1>4, EntryTypes DEF EntryOf, Frame, EnqueueSequenced
  <2> HIDE DEF e
  <2>. QED
    BY <1>4, <2>1, PushSequenced DEF EnqueueSequenced, e
<1>5. ASSUME NEW id \in Identities, CoalesceP2(id) PROVE Accounting'
  <2> DEFINE m == Update(id, accepted[id] + 1, 0)
  <2>1. m \in Msg /\ m.kind = "frame"
    BY <1>5, SchedulerAssumption DEF CoalesceP2, Update, Msg, TypeOK
  <2> HIDE DEF m
  <2>. QED
    BY <1>5, <2>1, CoalesceKeeps DEF CoalesceP2, m
<1>6. ASSUME NEW id \in Plain, EnqueueP2(id) PROVE Accounting'
  <2> DEFINE e == EntryOf("P2", id, 0, Update(id, accepted[id] + 1, 0))
  <2>1. id \in Identities /\ accepted[id] + 1 \in 0 .. MaxRev /\ 0 \in 0 .. MaxSequence
    BY <1>6, SchedulerAssumption DEF EnqueueP2, TypeOK
  <2>2. e \in Entry /\ e.seq = 0 /\ e.msg.wire = 0
    BY <2>1, EntryTypes DEF EntryOf, Update
  <2> HIDE DEF e
  <2>. QED
    BY <1>6, <2>2, PushPlain DEF EnqueueP2, e
<1>7. ASSUME NEW id \in Watched, EnqueueP2Sequenced(id) PROVE Accounting'
  <2> DEFINE e == EntryOf("P2", id, counter + 1, Update(id, accepted[id] + 1, counter + 1))
  <2>1. /\ id \in Identities /\ accepted[id] + 1 \in 0 .. MaxRev
        /\ counter + 1 \in 0 .. MaxSequence
    BY <1>3, <1>7, SchedulerAssumption DEF EnqueueP2Sequenced, TypeOK, Watched
  <2>2. /\ e \in Entry /\ e.seq = counter + 1 /\ e.msg.wire = counter + 1
        /\ e.msg.kind = "frame"
    BY <2>1, EntryTypes DEF EntryOf, Update
  <2> HIDE DEF e
  <2>. QED
    BY <1>7, <2>2, PushSequenced DEF EnqueueP2Sequenced, e
<1>8. CASE EnqueueBarrier
  <2> DEFINE e == EntryOf("P2", Barrier, counter + 1, Frame(counter + 1))
  <2>1. /\ e \in Entry /\ e.seq = counter + 1 /\ e.msg.wire = counter + 1
        /\ e.msg.kind = "frame"
    BY <1>3, <1>8, EntryTypes DEF EntryOf, Frame, EnqueueBarrier
  <2> HIDE DEF e
  <2>. QED
    BY <1>8, <2>1, PushSequenced DEF EnqueueBarrier, e
<1>9. CASE OverloadClose
  BY <1>9, ShedKeeps
<1>10. ASSUME UNCHANGED <<queue, counter, item, wireClosed, shed, delivered>>,
              \/ pc' = pc
              \/ pc' = "stopped"
              \/ pc # "stopped" /\ item = NoMsg
       PROVE  Accounting'
  <2>1. SequencesAccounted' /\ EntryShape' /\ ReplayFirst'
    BY <1>10 DEF Accounting, SequencesAccounted, EntryShape, ReplayFirst, QueuedWires, Taken, Replayed
  <2>2. ItemShape'
    BY <1>10 DEF Accounting, ItemShape, Taken, NoMsg
  <2>3. ShedMeansClose'
    BY <1>10 DEF Accounting, ShedMeansClose
  <2>. QED
    BY <2>1, <2>2, <2>3 DEF Accounting
<1>11. CASE Close \/ NotifyOne \/ NotifyWaiters \/ SendFail \/ CancelWriter \/ UNCHANGED vars
  BY <1>10, <1>11 DEF Close, NotifyOne, NotifyWaiters, SendFail, CancelWriter, vars
<1>12. CASE Arm \/ Await
  <2>1. pc # "stopped" /\ item = NoMsg
    BY <1>12 DEF Arm, Await, Accounting, ItemShape
  <2>. QED
    BY <1>10, <1>12, <2>1 DEF Arm, Await
<1>13. CASE Scan
  BY <1>13, ScanKeeps
<1>14. CASE SendOk
  <2>1. /\ pc' = "idle" /\ item' = NoMsg /\ item'.wire = 0 /\ item'.kind = "none" /\ delivered' = Taken
        /\ pc = "sending" /\ wireClosed' = (item.kind = "close")
        /\ UNCHANGED <<queue, counter, shed>> /\ Taken' = Taken
    BY <1>14 DEF SendOk, NoMsg, Taken
  <2>2. SequencesAccounted'
    BY <2>1 DEF Accounting, SequencesAccounted, QueuedWires
  <2>3. EntryShape' /\ ReplayFirst'
    BY <2>1 DEF Accounting, EntryShape, ReplayFirst, Replayed
  <2>4. ItemShape'
    BY <2>1 DEF Accounting, ItemShape
  <2>5. ShedMeansClose'
    <3> SUFFICES ASSUME shed PROVE wireClosed' \/ (queue # <<>> /\ queue[1] = CloseEntry)
      BY <2>1 DEF ShedMeansClose
    <3>1. ~wireClosed
      BY <1>14 DEF SendOk
    <3>2. CASE item.kind = "close"
      BY <2>1, <3>2
    <3>3. CASE queue # <<>> /\ queue[1] = CloseEntry
      BY <3>3
    <3>. QED
      BY <2>1, <3>1, <3>2, <3>3 DEF Accounting, ShedMeansClose
  <2>. QED
    BY <2>2, <2>3, <2>4, <2>5 DEF Accounting
<1>. QED
  BY <1>1, <1>2, <1>4, <1>5, <1>6, <1>7, <1>8, <1>9, <1>11, <1>12, <1>13, <1>14
     DEF Next, EnqueueControl

(* Until an overload sheds the queue, the sequences allocated and not yet    *)
(* taken by the writer are exactly the queued ones, each once.               *)
THEOREM SequencesAreAccounted == Spec => [](IInv /\ SequencesAccounted)
<1>1. Init => IInv
  BY TypeInit, AccountingInit DEF IInv, Accounting
<1>2. IInv /\ [Next]_vars => IInv'
  BY TypeStep, AccountingStep DEF IInv, Accounting
<1>3. IInv => SequencesAccounted
  BY DEF IInv
<1>. QED
  BY <1>1, <1>2, <1>3, PTL DEF Spec

---------------------------------------------------------------------------
(* The writer's wakeups. *)

(* A push owes a notification, a close owes notify_waiters; only the writer  *)
(* itself, awake, consumes what is stored.                                   *)
LEMMA WakeupStep == NoLostWakeup /\ TypeOK /\ [Next]_vars => NoLostWakeup'
<1> SUFFICES ASSUME NoLostWakeup, TypeOK, [Next]_vars PROVE NoLostWakeup'
  OBVIOUS
<1> USE DEF NoLostWakeup, Push, writerVars, sharedVars
<1>1. CASE EnqueueControl \/ EnqueueClose \/ EnqueueBarrier \/ OverloadClose
  BY <1>1 DEF EnqueueControl, Enqueue, EnqueueClose, EnqueueBarrier, OverloadClose
<1>2. ASSUME NEW p \in {"P0", "P1"}, EnqueueSequenced(p) PROVE NoLostWakeup'
  BY <1>2 DEF EnqueueSequenced
<1>3. ASSUME NEW id \in Identities, CoalesceP2(id) PROVE NoLostWakeup'
  <2>1. queue # <<>>
    BY <1>3 DEF CoalesceP2, Holds
  <2>. QED
    BY <1>3, <2>1 DEF CoalesceP2
<1>4. ASSUME NEW id \in Plain, EnqueueP2(id) PROVE NoLostWakeup'
  BY <1>4 DEF EnqueueP2
<1>5. ASSUME NEW id \in Watched, EnqueueP2Sequenced(id) PROVE NoLostWakeup'
  BY <1>5 DEF EnqueueP2Sequenced
<1>6. CASE Close \/ NotifyOne \/ NotifyWaiters
  BY <1>6 DEF Close, NotifyOne, NotifyWaiters, TypeOK
<1>7. CASE Scan
  BY <1>7 DEF Scan
<1>8. CASE Arm \/ Await \/ SendOk \/ SendFail \/ CancelWriter
  BY <1>8 DEF Arm, Await, SendOk, SendFail, CancelWriter
<1>9. CASE UNCHANGED vars
  BY <1>9 DEF vars
<1>. QED
  BY <1>1, <1>2, <1>3, <1>4, <1>5, <1>6, <1>7, <1>8, <1>9 DEF Next

(* The writer never sleeps on a queued frame or on a closed scheduler        *)
(* without the notification that wakes it stored or owed.                    *)
THEOREM NoWakeupIsLost == Spec => []NoLostWakeup
<1>1. Init => NoLostWakeup
  BY DEF Init, NoLostWakeup
<1>. QED
  BY <1>1, WakeupStep, TypeCorrect, PTL DEF Spec

---------------------------------------------------------------------------
(* The scheduler and its writer implement the ordered log. *)

(* Allocating a sequence issues it, sending a frame with one delivers it,    *)
(* shedding the queue, stopping and writing a Close end the log, and every   *)
(* other step is a stutter.                                                  *)
LEMMA LogStep == IInv /\ IInv' /\ [Next]_vars => [Log!Next]_(Log!vars)
<1> SUFFICES ASSUME IInv, IInv', [Next]_vars PROVE [Log!Next]_(Log!vars)
  OBVIOUS
<1> USE DEF Push, writerVars, sharedVars
<1>1. ASSUME UNCHANGED <<pc, item, wireClosed, shed, delivered>>,
             counter' \in {counter, counter + 1}
      PROVE  [Log!Next]_(Log!vars)
  BY <1>1 DEF Log!Next, Log!Issue, Log!vars, Ended
<1>2. CASE EnqueueControl \/ EnqueueClose \/ EnqueueBarrier \/ Close \/ NotifyOne \/ NotifyWaiters
  BY <1>1, <1>2 DEF EnqueueControl, Enqueue, EnqueueClose, EnqueueBarrier, Close, NotifyOne,
                    NotifyWaiters
<1>3. ASSUME NEW p \in {"P0", "P1"}, EnqueueSequenced(p) PROVE [Log!Next]_(Log!vars)
  BY <1>1, <1>3 DEF EnqueueSequenced
<1>4. ASSUME NEW id, CoalesceP2(id) \/ EnqueueP2(id) \/ EnqueueP2Sequenced(id)
      PROVE  [Log!Next]_(Log!vars)
  BY <1>1, <1>4 DEF CoalesceP2, EnqueueP2, EnqueueP2Sequenced
<1>5. ASSUME Ended \/ Ended', Ended => Ended', UNCHANGED <<counter, delivered>>
      PROVE  [Log!Next]_(Log!vars)
  <2>1. Ended \in BOOLEAN /\ Ended' \in BOOLEAN
    BY DEF Ended, IInv, TypeOK
  <2>2. Ended'
    BY <1>5
  <2>3. Ended' = TRUE
    BY <2>1, <2>2
  <2>. QED
    BY <1>5, <2>3 DEF Log!Next, Log!End
<1>6. ASSUME ~Ended, ~Ended', UNCHANGED <<counter, delivered>>
      PROVE  [Log!Next]_(Log!vars)
  <2>1. Ended \in BOOLEAN /\ Ended' \in BOOLEAN
    BY DEF Ended, IInv, TypeOK
  <2>. QED
    BY <1>6, <2>1 DEF Log!vars
<1>7. ASSUME Ended => Ended', UNCHANGED <<counter, delivered>>
      PROVE  [Log!Next]_(Log!vars)
  BY <1>5, <1>6, <1>7
<1>8. CASE OverloadClose
  <2>1. Ended => Ended'
    BY <1>8 DEF OverloadClose, Ended
  <2>. QED
    BY <1>7, <1>8, <2>1 DEF OverloadClose
<1>9. CASE Arm \/ Await
  <2>1. Ended => Ended'
    BY <1>9 DEF Arm, Await, Ended
  <2>. QED
    BY <1>7, <1>9, <2>1 DEF Arm, Await
<1>10. CASE Scan
  <2>1. item = NoMsg /\ ~wireClosed' = ~wireClosed /\ shed' = shed /\ pc = "armed"
    BY <1>10 DEF Scan, IInv, ItemShape
  <2>2. ASSUME shed, ~wireClosed, queue # <<>> PROVE item'.wire = 0
    <3>1. queue[1] = CloseEntry
      BY <2>1, <2>2 DEF IInv, ShedMeansClose, NoMsg
    <3>2. NextSlot(queue) = 1
      BY <2>2, <3>1, NextSlotFacts DEF IInv, Accounting
    <3>. QED
      BY <1>10, <2>2, <3>1, <3>2 DEF Scan, CloseEntry, EntryOf, CloseFrame
  <2>3. Ended => Ended'
    <3>1. CASE wireClosed
      BY <1>10, <3>1 DEF Scan, Ended
    <3>2. CASE ~wireClosed /\ shed /\ queue # <<>>
      BY <2>1, <2>2, <3>2 DEF Ended
    <3>3. CASE queue = <<>>
      BY <1>10, <3>3 DEF Scan, Ended
    <3>4. CASE ~wireClosed /\ ~shed
      BY <2>1, <3>4 DEF Ended
    <3>. QED
      BY <3>1, <3>2, <3>3, <3>4
  <2>. QED
    BY <1>7, <1>10, <2>3 DEF Scan
<1>11. CASE SendOk
  <2>1. /\ ~wireClosed /\ pc = "sending" /\ pc' = "idle" /\ item'.wire = 0
        /\ wireClosed' = (item.kind = "close") /\ UNCHANGED <<counter, shed>>
        /\ delivered' = IF item.wire # 0 THEN item.wire ELSE delivered
    BY <1>11 DEF SendOk, NoMsg
  <2>2. CASE item.wire = 0
    <3>1. Ended => Ended'
      BY <2>1, <2>2 DEF Ended
    <3>. QED
      BY <1>7, <2>1, <2>2, <3>1
  <2>3. CASE item.wire # 0
    <3>1. delivered' = delivered + 1 /\ delivered < counter
      <4>1. item.wire = delivered + 1 /\ item.wire <= counter
        BY <2>1, <2>3 DEF IInv, ItemShape, Taken
      <4>2. delivered \in Nat /\ counter \in Nat
        BY SchedulerAssumption DEF IInv, TypeOK
      <4>. QED
        BY <2>1, <2>3, <4>1, <4>2
    <3>2. ~Ended /\ Ended' \in BOOLEAN
      BY <2>1, <2>3 DEF Ended, IInv, TypeOK
    <3>. QED
      BY <2>1, <3>1, <3>2 DEF Log!Next, Log!Deliver
  <2>. QED
    BY <2>2, <2>3
<1>12. CASE SendFail \/ CancelWriter
  <2>1. Ended'
    BY <1>12 DEF SendFail, CancelWriter, Ended
  <2>. QED
    BY <1>7, <1>12, <2>1 DEF SendFail, CancelWriter
<1>13. CASE UNCHANGED vars
  BY <1>13 DEF vars, Log!vars, Ended
<1>. QED
  BY <1>2, <1>3, <1>4, <1>8, <1>9, <1>10, <1>11, <1>12, <1>13 DEF Next

(* What the peer is sent is the allocated sequences, in order, none missing  *)
(* and none repeated, up to the end of the session.                          *)
THEOREM SchedulerImplementsLog == Spec => ImplementsOrderedDelivery
<1>1. Init => Log!Init
  <2> SUFFICES ASSUME Init PROVE Log!Init
    OBVIOUS
  <2>1. PICK last \in 0 .. MaxStart : \E cursor \in 0 .. last : counter = last /\ delivered = cursor
    BY DEF Init
  <2>2. counter \in Nat /\ delivered \in 0 .. counter
    BY <2>1, SchedulerAssumption
  <2>3. Ended = FALSE
    BY DEF Init, Ended
  <2>. QED
    BY <2>2, <2>3 DEF Log!Init
<1>2. Spec => []IInv
  BY SequencesAreAccounted, PTL
<1>. QED
  BY <1>1, <1>2, LogStep, PTL DEF ImplementsOrderedDelivery, Log!Spec, Spec

---------------------------------------------------------------------------
(* The reliable reserve. *)

(* The resource slots of a queue are finitely many. *)
LEMMA SlotsFinite ==
  ASSUME NEW q, NEW n \in Nat, DOMAIN q = 1 .. n
  PROVE  /\ IsFiniteSet(ResourceSlots(q))
         /\ Cardinality(ResourceSlots(q)) \in Nat
<1>1. ResourceSlots(q) \in SUBSET (1 .. n)
  BY DEF ResourceSlots
<1>2. IsFiniteSet(1 .. n)
  BY FS_Interval
<1>3. IsFiniteSet(ResourceSlots(q))
  BY <1>1, <1>2, FS_Subset
<1>. QED
  BY <1>3, FS_CardinalityType

(* Control, sequenced control, barrier and Close entries take no resource slot. *)
LEMMA PushReliable ==
  ASSUME TypeOK, ReserveHeld, NEW e \in Entry, e.identity \notin Identities,
         queue' = Append(queue, e)
  PROVE  ReserveHeld'
<1>1. Len(queue) \in Nat /\ DOMAIN queue = 1 .. Len(queue) /\ queue \in Seq(Entry)
  BY QueueEntries DEF TypeOK
<1>2. /\ DOMAIN queue' = 1 .. Len(queue) + 1 /\ queue'[Len(queue) + 1] = e
      /\ \A i \in 1 .. Len(queue) : queue'[i] = queue[i]
  BY <1>1, AppendFacts
<1>3. ResourceSlots(queue)' = ResourceSlots(queue)
  BY <1>1, <1>2 DEF ResourceSlots
<1>. QED
  BY <1>3 DEF ReserveHeld

(* A new resource payload takes one slot, and only outside the reserve. *)
LEMMA PushResource ==
  ASSUME TypeOK, NEW e \in Entry, e.identity \in Identities, ~PartitionFull(queue),
         queue' = Append(queue, e)
  PROVE  ReserveHeld'
<1>1. Len(queue) \in Nat /\ DOMAIN queue = 1 .. Len(queue) /\ queue \in Seq(Entry)
  BY QueueEntries DEF TypeOK
<1>2. /\ DOMAIN queue' = 1 .. Len(queue) + 1 /\ queue'[Len(queue) + 1] = e
      /\ \A i \in 1 .. Len(queue) : queue'[i] = queue[i]
  BY <1>1, AppendFacts
<1>3. ResourceSlots(queue)' = ResourceSlots(queue) \cup {Len(queue) + 1}
  BY <1>1, <1>2 DEF ResourceSlots
<1>4. IsFiniteSet(ResourceSlots(queue)) /\ Len(queue) + 1 \notin ResourceSlots(queue)
      /\ Cardinality(ResourceSlots(queue)) \in Nat
  <2>1. IsFiniteSet(ResourceSlots(queue)) /\ Cardinality(ResourceSlots(queue)) \in Nat
    BY <1>1, SlotsFinite
  <2>. QED
    BY <1>1, <2>1 DEF ResourceSlots
<1>5. Cardinality(ResourceSlots(queue) \cup {Len(queue) + 1}) = Cardinality(ResourceSlots(queue)) + 1
  BY <1>4, FS_AddElement
<1>6. Cardinality(ResourceSlots(queue)) < Capacity - Reserve
  BY <1>4, QueueAssumption DEF PartitionFull
<1>. QED
  BY <1>3, <1>4, <1>5, <1>6, QueueAssumption DEF ReserveHeld

(* Taking an entry never adds a resource slot. *)
LEMMA TakeKeepsReserve ==
  ASSUME TypeOK, ReserveHeld, NEW k \in DOMAIN queue, queue' = Without(queue, k)
  PROVE  ReserveHeld'
<1> DEFINE n == Len(queue)
           S == ResourceSlots(queue)
           T == ResourceSlots(queue')
           f == [j \in T |-> IF j < k THEN j ELSE j + 1]
<1>1. n \in Nat /\ k \in 1 .. n /\ DOMAIN queue = 1 .. n /\ queue \in Seq(Entry)
  BY QueueEntries DEF TypeOK
<1>2. /\ DOMAIN queue' = 1 .. n - 1
      /\ \A j \in 1 .. n - 1 : queue'[j] = IF j < k THEN queue[j] ELSE queue[j + 1]
  BY <1>1, WithoutFacts
<1>3. /\ IsFiniteSet(S) /\ Cardinality(S) \in Nat
      /\ Cardinality(S) <= Capacity - Reserve
  BY <1>1, SlotsFinite DEF ReserveHeld
<1>4. IsFiniteSet(T) /\ Cardinality(T) \in Nat
  <2>1. CASE n = 0
    BY <1>1, <2>1
  <2>2. CASE n # 0
    BY <1>1, <1>2, <2>2, SlotsFinite
  <2>. QED
    BY <2>1, <2>2
<1>5. T \subseteq 1 .. n - 1
  BY <1>2 DEF ResourceSlots
<1>6. \A j \in T : (IF j < k THEN j ELSE j + 1) \in S
  <2> SUFFICES ASSUME NEW j \in T PROVE (IF j < k THEN j ELSE j + 1) \in S
    OBVIOUS
  <2>1. j \in 1 .. n - 1 /\ queue'[j].identity \in Identities
    BY <1>2 DEF ResourceSlots
  <2>2. CASE j < k
    BY <1>1, <1>2, <2>1, <2>2 DEF ResourceSlots
  <2>3. CASE ~(j < k)
    BY <1>1, <1>2, <2>1, <2>3 DEF ResourceSlots
  <2>. QED
    BY <2>2, <2>3
<1>7. f \in [T -> S]
  BY <1>6
<1>8. \A i, j \in T : f[i] = f[j] => i = j
  BY <1>1, <1>5
<1>9. Cardinality(T) <= Cardinality(S)
  <2> HIDE DEF f, S, T
  <2>1. ~(Cardinality(S) < Cardinality(T))
    BY <1>3, <1>4, <1>7, <1>8, FS_PigeonHole
  <2>. QED
    BY <1>3, <1>4, <2>1
<1>10. T = ResourceSlots(queue)'
  BY DEF ResourceSlots
<1>. QED
  BY <1>3, <1>4, <1>9, <1>10, QueueAssumption DEF ReserveHeld

(* A queue without resource identities holds the reserve. *)
LEMMA NoSlots ==
  ASSUME ResourceSlots(queue) = {}
  PROVE  ReserveHeld
  BY FS_EmptySet, QueueAssumption DEF ReserveHeld

(* No step takes a resource slot out of the reserve. *)
LEMMA ReserveStep == ReserveHeld /\ TypeOK /\ [Next]_vars => ReserveHeld'
<1> SUFFICES ASSUME ReserveHeld, TypeOK, [Next]_vars PROVE ReserveHeld'
  OBVIOUS
<1> USE DEF Push, writerVars, sharedVars
<1>1. NoIdentity \notin Identities /\ Barrier \notin Identities
  BY QueueAssumption
<1>2. ASSUME NEW p \in {"P0", "P1"}, Enqueue(p) PROVE ReserveHeld'
  <2>1. ControlEntry(p) \in Entry /\ ControlEntry(p).identity = NoIdentity
    BY EntryTypes DEF ControlEntry, EntryOf
  <2>. QED
    BY <1>1, <1>2, <2>1, PushReliable DEF Enqueue
<1>3. CASE EnqueueClose
  <2>1. CloseEntry \in Entry /\ CloseEntry.identity = NoIdentity
    BY EntryTypes DEF CloseEntry, EntryOf
  <2>. QED
    BY <1>1, <1>3, <2>1, PushReliable DEF EnqueueClose
<1>4. counter < MaxSequence => counter + 1 \in 1 .. MaxSequence /\ counter + 1 \in 0 .. MaxSequence
  BY SchedulerAssumption DEF TypeOK
<1>5. ASSUME NEW p \in {"P0", "P1"}, EnqueueSequenced(p) PROVE ReserveHeld'
  <2> DEFINE e == EntryOf(p, NoIdentity, counter + 1, Frame(counter + 1))
  <2>1. e \in Entry /\ e.identity = NoIdentity /\ queue' = Append(queue, e)
    BY <1>4, <1>5, EntryTypes DEF EntryOf, EnqueueSequenced
  <2> HIDE DEF e
  <2>. QED
    BY <1>1, <2>1, PushReliable
<1>6. ASSUME NEW id \in Identities, CoalesceP2(id) PROVE ReserveHeld'
  <2>1. ResourceSlots(queue)' = ResourceSlots(queue)
    BY <1>6 DEF CoalesceP2, Coalesce, ResourceSlots
  <2>. QED
    BY <2>1 DEF ReserveHeld
<1>7. ASSUME NEW id \in Plain, EnqueueP2(id) PROVE ReserveHeld'
  <2> DEFINE e == EntryOf("P2", id, 0, Update(id, accepted[id] + 1, 0))
  <2>1. id \in Identities /\ accepted[id] + 1 \in 0 .. MaxRev /\ 0 \in 0 .. MaxSequence
    BY <1>7, SchedulerAssumption DEF EnqueueP2, TypeOK
  <2>2. e \in Entry /\ e.identity = id /\ queue' = Append(queue, e) /\ ~PartitionFull(queue)
    BY <1>7, <2>1, EntryTypes DEF EntryOf, EnqueueP2
  <2> HIDE DEF e
  <2>. QED
    BY <2>1, <2>2, PushResource
<1>8. ASSUME NEW id \in Watched, EnqueueP2Sequenced(id) PROVE ReserveHeld'
  <2> DEFINE e == EntryOf("P2", id, counter + 1, Update(id, accepted[id] + 1, counter + 1))
  <2>1. /\ id \in Identities /\ accepted[id] + 1 \in 0 .. MaxRev
        /\ counter + 1 \in 0 .. MaxSequence
    BY <1>4, <1>8, SchedulerAssumption DEF EnqueueP2Sequenced, TypeOK, Watched
  <2>2. e \in Entry /\ e.identity = id /\ queue' = Append(queue, e) /\ ~PartitionFull(queue)
    BY <1>8, <2>1, EntryTypes DEF EntryOf, EnqueueP2Sequenced
  <2> HIDE DEF e
  <2>. QED
    BY <2>1, <2>2, PushResource
<1>9. CASE EnqueueBarrier
  <2> DEFINE e == EntryOf("P2", Barrier, counter + 1, Frame(counter + 1))
  <2>1. e \in Entry /\ e.identity = Barrier /\ queue' = Append(queue, e)
    BY <1>4, <1>9, EntryTypes DEF EntryOf, EnqueueBarrier
  <2> HIDE DEF e
  <2>. QED
    BY <1>1, <2>1, PushReliable
<1>10. CASE OverloadClose
  <2>1. DOMAIN queue' = {1} /\ queue'[1].identity = NoIdentity
    BY <1>10 DEF OverloadClose, CloseEntry, EntryOf
  <2>2. ResourceSlots(queue)' = {}
    BY <1>1, <2>1 DEF ResourceSlots
  <2>3. Cardinality(ResourceSlots(queue))' = 0
    BY <2>2, FS_EmptySet
  <2>. QED
    BY <2>3, QueueAssumption DEF ReserveHeld
<1>11. CASE Scan
  <2>1. CASE queue # <<>>
    <3>1. NextSlot(queue) \in DOMAIN queue /\ queue' = Without(queue, NextSlot(queue))
      BY <1>11, <2>1, NextSlotInQueue DEF Scan
    <3>. QED
      BY <3>1, TakeKeepsReserve
  <2>2. CASE queue = <<>>
    BY <1>11, <2>2 DEF Scan, ReserveHeld
  <2>. QED
    BY <2>1, <2>2
<1>12. CASE UNCHANGED queue
  BY <1>12 DEF ReserveHeld
<1>. QED
  BY <1>2, <1>3, <1>5, <1>6, <1>7, <1>8, <1>9, <1>10, <1>11, <1>12
     DEF Next, EnqueueControl, Close, NotifyOne, NotifyWaiters, Arm, Await, SendOk, SendFail,
         CancelWriter, vars

(* Resource payloads never take the last Reserve slots of the queue. *)
THEOREM ReserveIsHeld == Spec => []ReserveHeld
<1>1. Init => ReserveHeld
  <2> SUFFICES ASSUME Init PROVE ReserveHeld
    OBVIOUS
  <2>1. \A i \in DOMAIN queue : queue[i].identity = NoIdentity
    BY DEF Init, ControlEntry, ReplayEntry, EntryOf
  <2>2. ResourceSlots(queue) = {}
    BY <2>1, QueueAssumption DEF ResourceSlots
  <2>. QED
    BY <2>2, NoSlots
<1>. QED
  BY <1>1, ReserveStep, TypeCorrect, PTL DEF Spec

---------------------------------------------------------------------------
(* The newest update. *)

(* An identity has one slot, and the slot its newest update; what has no      *)
(* identity carries no update.                                                *)
SlotsNewest(q, newest) ==
  /\ \A i \in DOMAIN q :
       IF q[i].identity \in Identities
       THEN q[i].msg.id = q[i].identity /\ q[i].msg.rev = newest[q[i].identity]
       ELSE q[i].msg.id = NoIdentity
  /\ \A i, j \in DOMAIN q :
       q[i].identity \in Identities /\ q[i].identity = q[j].identity => i = j

(* Without a slot, its newest update is being written or was sent. *)
SentNewest(id) ==
  \/ item.id = id /\ item.rev = accepted[id]
  \/ item.id # id /\ shown[id] = accepted[id]

NewestInv ==
  /\ SlotsNewest(queue, accepted)
  /\ ~shed => \A id \in Identities : Holds(queue, id) \/ SentNewest(id)

(* The property of the runs follows. *)
LEMMA NewestFollows == NewestInv => NewestKept
BY DEF NewestInv, NewestKept, SlotsNewest, SentNewest, Holds

(* An entry without an identity changes no update. *)
LEMMA NewestPushOther ==
  ASSUME TypeOK, NewestInv, NEW e \in Entry, e.identity \notin Identities, e.msg.id = NoIdentity,
         queue' = Append(queue, e), UNCHANGED <<accepted, shown, item, shed>>
  PROVE  NewestInv'
<1>1. Len(queue) \in Nat /\ DOMAIN queue = 1 .. Len(queue) /\ queue \in Seq(Entry)
  BY QueueEntries DEF TypeOK
<1>2. /\ DOMAIN queue' = 1 .. Len(queue) + 1 /\ queue'[Len(queue) + 1] = e
      /\ \A i \in 1 .. Len(queue) : queue'[i] = queue[i]
  BY <1>1, AppendFacts
<1>3. SlotsNewest(queue', accepted')
  BY <1>1, <1>2 DEF NewestInv, SlotsNewest
<1>4. \A id \in Identities : Holds(queue, id) => Holds(queue', id)
  BY <1>1, <1>2 DEF Holds
<1>. QED
  BY <1>3, <1>4 DEF NewestInv, SentNewest, SlotsNewest, Holds

(* A new slot holds the newest update. *)
LEMMA NewestPushUpdate ==
  ASSUME TypeOK, NewestInv, NEW id \in Identities, NEW e \in Entry, e.identity = id,
         e.msg.id = id, e.msg.rev = accepted[id] + 1, ~Holds(queue, id),
         accepted' = [accepted EXCEPT ![id] = @ + 1],
         queue' = Append(queue, e), UNCHANGED <<shown, item, shed>>
  PROVE  NewestInv'
<1>1. Len(queue) \in Nat /\ DOMAIN queue = 1 .. Len(queue) /\ queue \in Seq(Entry)
  BY QueueEntries DEF TypeOK
<1>2. /\ DOMAIN queue' = 1 .. Len(queue) + 1 /\ queue'[Len(queue) + 1] = e
      /\ \A i \in 1 .. Len(queue) : queue'[i] = queue[i]
  BY <1>1, AppendFacts
<1>3. /\ accepted'[id] = accepted[id] + 1
      /\ \A x \in Identities : x # id => accepted'[x] = accepted[x]
  BY DEF TypeOK
<1>4. \A i \in DOMAIN queue : queue[i].identity # id
  BY DEF Holds
<1>5. SlotsNewest(queue', accepted')
  BY <1>1, <1>2, <1>3, <1>4 DEF NewestInv, SlotsNewest
<1>6. \A x \in Identities : Holds(queue, x) \/ x = id => Holds(queue', x)
  BY <1>1, <1>2 DEF Holds
<1>7. \A x \in Identities : x # id /\ SentNewest(x) => SentNewest(x)'
  BY <1>3 DEF SentNewest
<1>. QED
  BY <1>5, <1>6, <1>7 DEF NewestInv, SlotsNewest, Holds

(* The slot of an identity takes its next update. *)
LEMMA NewestCoalesce ==
  ASSUME TypeOK, NewestInv, NEW id \in Identities, CoalesceP2(id)
  PROVE  NewestInv'
<1>1. /\ Holds(queue, id) /\ accepted' = [accepted EXCEPT ![id] = @ + 1]
      /\ queue' = Coalesce(queue, id, Update(id, accepted[id] + 1, 0))
      /\ UNCHANGED <<shown, item, shed>>
  BY DEF CoalesceP2, writerVars
<1>2. /\ accepted'[id] = accepted[id] + 1
      /\ \A x \in Identities : x # id => accepted'[x] = accepted[x]
  BY <1>1 DEF TypeOK
<1>3. /\ DOMAIN queue' = DOMAIN queue
      /\ \A i \in DOMAIN queue :
           queue'[i] = IF queue[i].identity = id
                       THEN [queue[i] EXCEPT !.msg =
                               [Update(id, accepted[id] + 1, 0) EXCEPT !.wire = queue[i].seq]]
                       ELSE queue[i]
  BY <1>1 DEF Coalesce
<1>4. ASSUME NEW i \in DOMAIN queue
      PROVE  /\ queue'[i].identity = queue[i].identity
             /\ queue[i].identity = id =>
                  queue'[i].msg.id = id /\ queue'[i].msg.rev = accepted[id] + 1
             /\ queue[i].identity # id => queue'[i].msg = queue[i].msg
  <2>1. queue[i] \in Entry
    BY QueueEntries
  <2>. QED
    BY <1>3, <2>1 DEF Entry, Update
<1>5. SlotsNewest(queue', accepted')
  BY <1>2, <1>3, <1>4 DEF NewestInv, SlotsNewest
<1>6. \A x \in Identities : Holds(queue, x) => Holds(queue', x)
  BY <1>3, <1>4 DEF Holds
<1>7. \A x \in Identities : x # id /\ SentNewest(x) => SentNewest(x)'
  BY <1>1, <1>2 DEF SentNewest
<1>. QED
  BY <1>1, <1>5, <1>6, <1>7 DEF NewestInv, SlotsNewest, Holds

(* The writer takes an update out of its slot. *)
LEMMA NewestTake ==
  ASSUME IInv, NewestInv, Scan, queue # <<>>
  PROVE  NewestInv'
<1> DEFINE k == NextSlot(queue)
<1>1. /\ k \in DOMAIN queue /\ item' = queue[k].msg /\ queue' = Without(queue, k)
      /\ UNCHANGED <<accepted, shown, shed>> /\ item = NoMsg
  BY NextSlotInQueue DEF Scan, IInv, ItemShape, sharedVars
<1> HIDE DEF k
<1>2. Len(queue) \in Nat /\ DOMAIN queue = 1 .. Len(queue) /\ queue \in Seq(Entry)
  BY QueueEntries DEF IInv, TypeOK
<1>3. /\ DOMAIN queue' = 1 .. Len(queue) - 1
      /\ \A j \in 1 .. Len(queue) - 1 : queue'[j] = IF j < k THEN queue[j] ELSE queue[j + 1]
  BY <1>1, <1>2, WithoutFacts
<1>4. \A j \in 1 .. Len(queue) - 1 :
        LET i == IF j < k THEN j ELSE j + 1 IN i \in DOMAIN queue /\ i # k /\ queue'[j] = queue[i]
  BY <1>1, <1>2, <1>3
<1>5. \A i \in DOMAIN queue : i # k => \E j \in 1 .. Len(queue) - 1 : queue'[j] = queue[i]
  <2> SUFFICES ASSUME NEW i \in DOMAIN queue, i # k
               PROVE  \E j \in 1 .. Len(queue) - 1 : queue'[j] = queue[i]
    OBVIOUS
  <2>1. CASE i < k
    BY <1>1, <1>2, <1>3, <2>1
  <2>2. CASE i > k
    <3>1. i - 1 \in 1 .. Len(queue) - 1 /\ ~(i - 1 < k) /\ (i - 1) + 1 = i
      BY <1>1, <1>2, <2>2
    <3>2. queue'[i - 1] = queue[i]
      BY <1>3, <3>1
    <3>. QED
      BY <3>1, <3>2
  <2>. QED
    BY <1>1, <1>2, <2>1, <2>2
<1>6. SlotsNewest(queue', accepted')
  <2>1. \A j \in DOMAIN queue' : \E i \in DOMAIN queue : queue'[j] = queue[i]
    BY <1>3, <1>4
  <2>2. \A j \in DOMAIN queue' :
          IF queue'[j].identity \in Identities
          THEN queue'[j].msg.id = queue'[j].identity
                 /\ queue'[j].msg.rev = accepted'[queue'[j].identity]
          ELSE queue'[j].msg.id = NoIdentity
    BY <1>1, <2>1 DEF NewestInv, SlotsNewest
  <2>3. ASSUME NEW i \in DOMAIN queue', NEW j \in DOMAIN queue',
               queue'[i].identity \in Identities, queue'[i].identity = queue'[j].identity
        PROVE  i = j
    <3>1. (IF i < k THEN i ELSE i + 1) = (IF j < k THEN j ELSE j + 1)
      BY <1>3, <1>4, <2>3 DEF NewestInv, SlotsNewest
    <3>. QED
      BY <1>1, <1>2, <1>3, <3>1
  <2>. QED
    BY <2>2, <2>3 DEF SlotsNewest
<1>7. ASSUME ~shed, NEW id \in Identities PROVE Holds(queue', id) \/ SentNewest(id)'
  <2>1. CASE queue[k].identity = id
    <3>1. item'.id = id /\ item'.rev = accepted'[id]
      BY <1>1, <2>1 DEF NewestInv, SlotsNewest
    <3>. QED
      BY <3>1 DEF SentNewest
  <2>2. CASE queue[k].identity # id
    <3>1. item'.id # id
      BY <1>1, <2>2, QueueAssumption DEF NewestInv, SlotsNewest
    <3>2. CASE Holds(queue, id)
      <4>1. PICK i \in DOMAIN queue : queue[i].identity = id
        BY <3>2 DEF Holds
      <4>2. i # k
        BY <2>2, <4>1
      <4>. QED
        BY <1>3, <1>5, <4>1, <4>2 DEF Holds
    <3>3. CASE ~Holds(queue, id)
      <4>1. item.id # id
        BY <1>1, QueueAssumption DEF NoMsg
      <4>. QED
        BY <1>1, <1>7, <3>1, <3>3, <4>1 DEF NewestInv, SentNewest
    <3>. QED
      BY <3>2, <3>3
  <2>. QED
    BY <2>1, <2>2
<1>. QED
  BY <1>1, <1>6, <1>7 DEF NewestInv, SlotsNewest, SentNewest, Holds

(* Each step keeps the newest update of every identity in one of its places. *)
LEMMA NewestStep == IInv /\ NewestInv /\ [Next]_vars => NewestInv'
<1> SUFFICES ASSUME IInv, NewestInv, [Next]_vars PROVE NewestInv'
  OBVIOUS
<1> USE DEF Push, writerVars, sharedVars
<1>1. TypeOK /\ NoIdentity \notin Identities /\ Barrier \notin Identities
  BY QueueAssumption DEF IInv
<1>2. counter < MaxSequence => counter + 1 \in 1 .. MaxSequence /\ counter + 1 \in 0 .. MaxSequence
  BY <1>1, SchedulerAssumption DEF TypeOK
<1>3. ASSUME NEW p \in {"P0", "P1"}, Enqueue(p) PROVE NewestInv'
  <2>1. /\ ControlEntry(p) \in Entry /\ ControlEntry(p).identity = NoIdentity
        /\ ControlEntry(p).msg.id = NoIdentity
    BY EntryTypes DEF ControlEntry, EntryOf, Frame
  <2>. QED
    BY <1>1, <1>3, <2>1, NewestPushOther DEF Enqueue
<1>4. CASE EnqueueClose
  <2>1. CloseEntry \in Entry /\ CloseEntry.identity = NoIdentity /\ CloseEntry.msg.id = NoIdentity
    BY EntryTypes DEF CloseEntry, EntryOf, CloseFrame
  <2>. QED
    BY <1>1, <1>4, <2>1, NewestPushOther DEF EnqueueClose
<1>5. ASSUME NEW p \in {"P0", "P1"}, EnqueueSequenced(p) PROVE NewestInv'
  <2> DEFINE e == EntryOf(p, NoIdentity, counter + 1, Frame(counter + 1))
  <2>1. /\ e \in Entry /\ e.identity = NoIdentity /\ e.msg.id = NoIdentity
        /\ queue' = Append(queue, e) /\ UNCHANGED <<accepted, shown, item, shed>>
    BY <1>2, <1>5, EntryTypes DEF EntryOf, Frame, EnqueueSequenced
  <2> HIDE DEF e
  <2>. QED
    BY <1>1, <2>1, NewestPushOther
<1>6. ASSUME NEW id \in Identities, CoalesceP2(id) PROVE NewestInv'
  BY <1>1, <1>6, NewestCoalesce
<1>7. ASSUME NEW id \in Plain, EnqueueP2(id) PROVE NewestInv'
  <2> DEFINE e == EntryOf("P2", id, 0, Update(id, accepted[id] + 1, 0))
  <2>1. id \in Identities /\ accepted[id] + 1 \in 0 .. MaxRev /\ 0 \in 0 .. MaxSequence
    BY <1>1, <1>7, SchedulerAssumption DEF EnqueueP2, TypeOK
  <2>2. /\ e \in Entry /\ e.identity = id /\ e.msg.id = id /\ e.msg.rev = accepted[id] + 1
        /\ queue' = Append(queue, e) /\ ~Holds(queue, id)
        /\ accepted' = [accepted EXCEPT ![id] = @ + 1] /\ UNCHANGED <<shown, item, shed>>
    BY <1>7, <2>1, EntryTypes DEF EntryOf, Update, EnqueueP2
  <2> HIDE DEF e
  <2>. QED
    BY <1>1, <2>1, <2>2, NewestPushUpdate
<1>8. ASSUME NEW id \in Watched, EnqueueP2Sequenced(id) PROVE NewestInv'
  <2> DEFINE e == EntryOf("P2", id, counter + 1, Update(id, accepted[id] + 1, counter + 1))
  <2>1. /\ id \in Identities /\ accepted[id] + 1 \in 0 .. MaxRev
        /\ counter + 1 \in 0 .. MaxSequence
    BY <1>1, <1>2, <1>8, SchedulerAssumption DEF EnqueueP2Sequenced, TypeOK, Watched
  <2>2. /\ e \in Entry /\ e.identity = id /\ e.msg.id = id /\ e.msg.rev = accepted[id] + 1
        /\ queue' = Append(queue, e) /\ ~Holds(queue, id)
        /\ accepted' = [accepted EXCEPT ![id] = @ + 1] /\ UNCHANGED <<shown, item, shed>>
    BY <1>8, <2>1, EntryTypes DEF EntryOf, Update, EnqueueP2Sequenced
  <2> HIDE DEF e
  <2>. QED
    BY <1>1, <2>1, <2>2, NewestPushUpdate
<1>9. CASE EnqueueBarrier
  <2> DEFINE e == EntryOf("P2", Barrier, counter + 1, Frame(counter + 1))
  <2>1. /\ e \in Entry /\ e.identity = Barrier /\ e.msg.id = NoIdentity
        /\ queue' = Append(queue, e) /\ UNCHANGED <<accepted, shown, item, shed>>
    BY <1>2, <1>9, EntryTypes DEF EntryOf, Frame, EnqueueBarrier
  <2> HIDE DEF e
  <2>. QED
    BY <1>1, <2>1, NewestPushOther
<1>10. CASE OverloadClose
  <2>1. /\ DOMAIN queue' = {1} /\ queue'[1].identity = NoIdentity
        /\ queue'[1].msg.id = NoIdentity /\ shed'
    BY <1>10 DEF OverloadClose, CloseEntry, EntryOf, CloseFrame
  <2>. QED
    BY <1>1, <2>1 DEF NewestInv, SlotsNewest
<1>11. CASE Scan
  <2>1. CASE queue = <<>>
    BY <1>11, <2>1 DEF Scan, NewestInv, SlotsNewest, SentNewest, Holds
  <2>. QED
    BY <1>11, <2>1, NewestTake
<1>12. CASE SendOk
  <2>1. /\ UNCHANGED <<queue, accepted, shed>> /\ item' = NoMsg
        /\ shown' = IF item.id \in Identities THEN [shown EXCEPT ![item.id] = item.rev] ELSE shown
    BY <1>12 DEF SendOk
  <2>2. ASSUME NEW id \in Identities, SentNewest(id) PROVE SentNewest(id)'
    <3>1. item'.id # id
      BY <1>1, <2>1 DEF NoMsg
    <3>2. shown'[id] = IF item.id = id THEN item.rev ELSE shown[id]
      BY <1>1, <2>1 DEF TypeOK
    <3>. QED
      BY <2>1, <2>2, <3>1, <3>2 DEF SentNewest
  <2>. QED
    BY <2>1, <2>2 DEF NewestInv, SlotsNewest, Holds
<1>13. CASE UNCHANGED <<queue, accepted, shown, item, shed>>
  BY <1>13 DEF NewestInv, SlotsNewest, SentNewest, Holds
<1>. QED
  BY <1>3, <1>4, <1>5, <1>6, <1>7, <1>8, <1>9, <1>10, <1>11, <1>12, <1>13
     DEF Next, EnqueueControl, Close, NotifyOne, NotifyWaiters, Arm, Await, SendFail,
         CancelWriter, vars

(* Coalescing keeps the newest: until an overload sheds the queue, the last   *)
(* update admitted for an identity is in its one slot, being written, or the  *)
(* last one the peer was sent (outbound.rs, enqueue_p2 and its kin).          *)
THEOREM NewestIsKept == Spec => []NewestKept
<1>1. Init => NewestInv
  <2> SUFFICES ASSUME Init PROVE NewestInv
    OBVIOUS
  <2>1. \A i \in DOMAIN queue : queue[i].identity = NoIdentity /\ queue[i].msg.id = NoIdentity
    BY DEF Init, ControlEntry, ReplayEntry, EntryOf, Frame
  <2>2. SlotsNewest(queue, accepted)
    BY <2>1, QueueAssumption DEF SlotsNewest
  <2>. QED
    BY <2>2, QueueAssumption DEF Init, NewestInv, SentNewest, NoMsg
<1>. QED
  BY <1>1, NewestStep, NewestFollows, SequencesAreAccounted, PTL DEF Spec
=============================================================================
