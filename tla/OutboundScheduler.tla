-------------------------- MODULE OutboundScheduler --------------------------
(***************************************************************************)
(* The outbound half of one control session after its Welcome: the bounded *)
(* Scheduler shared by the session's tasks (crates/k10s-server/src/        *)
(* outbound.rs), the connection's sequence counter, and the single writer  *)
(* task that drains it to the socket (control.rs, serve_socket).           *)
(*                                                                         *)
(* Every enqueue runs under the scheduler's mutex and is one action; a     *)
(* refused enqueue changes nothing and is a stutter.  The writer's loop is *)
(* cut where another task can run: creating the Notified future, scanning  *)
(* the queue under the mutex, waiting, and awaiting the socket.            *)
(***************************************************************************)
EXTENDS OutboundQueue

CONSTANTS
  Plain,        \* identities offered through enqueue_p2, without a sequence
  MaxSequence,  \* where allocate_sequence gives up (u64::MAX in the code)
  MaxStart,     \* bound on the journal watermark a session starts from
  MaxRev        \* bound on the updates accepted per identity

ASSUME SchedulerAssumption ==
  /\ Plain \subseteq Identities
  /\ MaxSequence \in Nat
  /\ MaxStart \in 0 .. MaxSequence
  /\ MaxRev \in Nat

VARIABLES
  queue,      \* State.queue
  closed,     \* State.closed
  counter,    \* last_sent_sequence, the session's AtomicU64
  owed,       \* notifications tasks have yet to send after unlocking
  permit,     \* the stored permit of tokio's Notify
  pc,         \* where the writer task is
  woken,      \* notify_waiters reached the Notified future the writer holds
  item,       \* the message recv returned and the writer is sending
  wireClosed, \* a Close frame has been written: every later send fails
  shed,       \* overload_close has thrown the queue away
  delivered,  \* last connection sequence the peer was sent
  accepted,   \* per identity, the last update the scheduler admitted
  shown       \* per identity, the last update the peer was sent

vars == <<queue, closed, counter, owed, permit, pc, woken, item, wireClosed, shed,
          delivered, accepted, shown>>

Watched == Identities \ Plain

(* A message: `wire' is the sequence inside the encoded frame, 0 for none.  *)
Msg == [kind : {"none", "frame", "close"},
        id   : Identities \cup {NoIdentity},
        rev  : 0 .. MaxRev,
        wire : 0 .. MaxSequence]

NoMsg == [kind |-> "none", id |-> NoIdentity, rev |-> 0, wire |-> 0]
Frame(w) == [kind |-> "frame", id |-> NoIdentity, rev |-> 0, wire |-> w]
CloseFrame == [kind |-> "close", id |-> NoIdentity, rev |-> 0, wire |-> 0]
Update(id, r, w) == [kind |-> "frame", id |-> id, rev |-> r, wire |-> w]

(* Control frames (Welcome, Pong, errors, notices) carry no sequence.       *)
ControlEntry(p) == EntryOf(p, NoIdentity, 0, Frame(0))
CloseEntry == EntryOf("P0", NoIdentity, 0, CloseFrame)
(* A replayed frame keeps the sequence in its text but queues as plain P1.  *)
ReplayEntry(w) == EntryOf("P1", NoIdentity, 0, Frame(w))

(* The session has just been claimed: Welcome, then the journal's frames    *)
(* after the client's cursor.  claim_with_profile refuses a replay longer   *)
(* than the queue leaves room for behind the Welcome.                       *)
Init ==
  /\ \E last \in 0 .. MaxStart : \E cursor \in 0 .. last :
       /\ last - cursor <= Capacity - 1
       /\ counter = last
       /\ delivered = cursor
       /\ queue = [i \in 1 .. (last - cursor) + 1 |->
                     IF i = 1 THEN ControlEntry("P0") ELSE ReplayEntry(cursor + (i - 1))]
  /\ closed = FALSE
  /\ owed = {"one"}
  /\ permit = FALSE
  /\ pc = "idle"
  /\ woken = FALSE
  /\ item = NoMsg
  /\ wireClosed = FALSE
  /\ shed = FALSE
  /\ accepted = [id \in Identities |-> 0]
  /\ shown = [id \in Identities |-> 0]

---------------------------------------------------------------------------
(* Enqueues: any task of the session. *)

(* Mutant: the writer is not told. *)
PushQuietly(e) == queue' = Append(queue, e) /\ UNCHANGED owed

Push(e) ==
  /\ queue' = Append(queue, e)
  /\ owed' = owed \cup {"one"}

writerVars == <<permit, pc, woken, item, wireClosed, delivered, shown>>

(* enqueue: an unsequenced P0 or P1 control frame. *)
Enqueue(p) ==
  /\ ~closed /\ ~Full(queue)
  /\ Push(ControlEntry(p))
  /\ UNCHANGED <<closed, counter, shed, accepted, writerVars>>

(* close_and_join and the takeover arm queue a Close behind the rest. *)
EnqueueClose ==
  /\ ~closed /\ ~Full(queue)
  /\ Push(CloseEntry)
  /\ UNCHANGED <<closed, counter, shed, accepted, writerVars>>

(* enqueue_sequenced (P1) and enqueue_p0_sequenced (P0): the sequence is    *)
(* allocated inside the scheduler's lock.                                   *)
EnqueueSequenced(p) ==
  /\ ~closed /\ ~Full(queue)
  /\ counter < MaxSequence
  /\ counter' = counter + 1
  /\ Push(EntryOf(p, NoIdentity, counter + 1, Frame(counter + 1)))
  /\ UNCHANGED <<closed, shed, accepted, writerVars>>

(* enqueue_p2 and enqueue_p2_sequenced when the identity is already queued: *)
(* the payload is replaced, slot and sequence stay, nobody is notified.     *)
CoalesceP2(id) ==
  /\ ~closed /\ Holds(queue, id)
  /\ accepted[id] < MaxRev
  /\ accepted' = [accepted EXCEPT ![id] = @ + 1]
  /\ queue' = Coalesce(queue, id, Update(id, accepted[id] + 1, 0))
  /\ UNCHANGED <<closed, counter, owed, shed, writerVars>>

(* enqueue_p2: a new slot without a sequence. *)
EnqueueP2(id) ==
  /\ ~closed /\ ~Holds(queue, id) /\ ~PartitionFull(queue)
  /\ accepted[id] < MaxRev
  /\ accepted' = [accepted EXCEPT ![id] = @ + 1]
  /\ Push(EntryOf("P2", id, 0, Update(id, accepted[id] + 1, 0)))
  /\ UNCHANGED <<closed, counter, shed, writerVars>>

(* enqueue_p2_sequenced: a new slot takes the next connection sequence. *)
EnqueueP2Sequenced(id) ==
  /\ ~closed /\ ~Holds(queue, id) /\ ~PartitionFull(queue)
  /\ counter < MaxSequence
  /\ counter' = counter + 1
  /\ accepted[id] < MaxRev
  /\ accepted' = [accepted EXCEPT ![id] = @ + 1]
  /\ Push(EntryOf("P2", id, counter + 1, Update(id, accepted[id] + 1, counter + 1)))
  /\ UNCHANGED <<closed, shed, writerVars>>

(* enqueue_p2_barrier: reuse the queued barrier, or append one. *)
EnqueueBarrier ==
  /\ ~closed /\ ~Holds(queue, Barrier) /\ ~Full(queue)
  /\ counter < MaxSequence
  /\ counter' = counter + 1
  /\ Push(EntryOf("P2", Barrier, counter + 1, Frame(counter + 1)))
  /\ UNCHANGED <<closed, shed, accepted, writerVars>>

(* overload_close: discard everything queued and leave one Close, even on a *)
(* closed scheduler.                                                        *)
OverloadClose ==
  /\ queue' = <<CloseEntry>>
  /\ owed' = owed \cup {"one"}
  /\ shed' = TRUE
  /\ UNCHANGED <<closed, counter, accepted, writerVars>>

(* Mutant: the waiters are not notified. *)
CloseQuietly ==
  /\ closed' = TRUE
  /\ UNCHANGED <<owed, queue, counter, shed, accepted, writerVars>>

(* close: the flag is set under the lock, the waiters are notified after it. *)
Close ==
  /\ closed' = TRUE
  /\ owed' = owed \cup {"waiters"}
  /\ UNCHANGED <<queue, counter, shed, accepted, writerVars>>

(* notify_one, called once the lock is released: tokio stores a permit the   *)
(* next await takes.  Several tasks may owe the call, so one may stay owed.  *)
NotifyOne ==
  /\ "one" \in owed
  /\ owed' \in {owed, owed \ {"one"}}
  /\ permit' = TRUE
  /\ UNCHANGED <<queue, closed, counter, pc, woken, item, wireClosed, shed, delivered,
                 accepted, shown>>

(* notify_waiters stores nothing: it completes the Notified future that      *)
(* exists now, if there is one.                                              *)
NotifyWaiters ==
  /\ "waiters" \in owed
  /\ owed' = owed \ {"waiters"}
  /\ woken' = (woken \/ pc \in {"armed", "awaiting"})
  /\ UNCHANGED <<queue, closed, counter, permit, pc, item, wireClosed, shed, delivered,
                 accepted, shown>>

---------------------------------------------------------------------------
(* The writer task. *)

sharedVars == <<closed, counter, owed, shed, accepted>>

(* recv creates its Notified future before it takes the lock. *)
Arm ==
  /\ pc = "idle"
  /\ pc' = "armed"
  /\ UNCHANGED <<sharedVars, queue, permit, woken, item, wireClosed, delivered, shown>>

(* The scan under the lock: take the next entry and drop the future, or end  *)
(* on a closed empty queue, or go to wait.                                   *)
Scan ==
  /\ pc = "armed"
  /\ \/ /\ queue # <<>>
        /\ item' = queue[NextSlot(queue)].msg
        /\ queue' = Without(queue, NextSlot(queue))
        /\ pc' = "sending"
        /\ woken' = FALSE
     \/ /\ queue = <<>>
        /\ pc' = IF closed THEN "stopped" ELSE "awaiting"
        /\ UNCHANGED <<item, queue, woken>>
  /\ UNCHANGED <<sharedVars, permit, wireClosed, delivered, shown>>

(* notified.await, completed by notify_waiters or by taking the permit. *)
Await ==
  /\ pc = "awaiting"
  /\ woken \/ permit
  /\ pc' = "idle"
  /\ permit' = (permit /\ woken)
  /\ woken' = FALSE
  /\ UNCHANGED <<sharedVars, queue, item, wireClosed, delivered, shown>>

SendOk ==
  /\ pc = "sending"
  /\ ~wireClosed
  /\ pc' = "idle"
  /\ item' = NoMsg
  /\ wireClosed' = (item.kind = "close")
  /\ delivered' = IF item.wire # 0 THEN item.wire ELSE delivered
  /\ shown' = IF item.id \in Identities THEN [shown EXCEPT ![item.id] = item.rev] ELSE shown
  /\ UNCHANGED <<sharedVars, queue, permit, woken>>

(* Mutant: a failed send loses its frame and the writer goes on. *)
SendFailSkips ==
  /\ pc = "sending"
  /\ pc' = "idle"
  /\ item' = NoMsg
  /\ UNCHANGED <<sharedVars, queue, permit, woken, wireClosed, delivered, shown>>

(* The peer is gone, or a Close was already written. *)
SendFail ==
  /\ pc = "sending"
  /\ pc' = "stopped"
  /\ UNCHANGED <<sharedVars, queue, permit, woken, item, wireClosed, delivered, shown>>

(* finish_writer's flush timeout, after close: child.cancel(). *)
CancelWriter ==
  /\ closed /\ pc # "stopped"
  /\ pc' = "stopped"
  /\ UNCHANGED <<sharedVars, queue, permit, woken, item, wireClosed, delivered, shown>>

Send == SendOk \/ SendFail

EnqueueControl == \E p \in {"P0", "P1"} : Enqueue(p)

Next ==
  \/ EnqueueControl
  \/ EnqueueClose
  \/ \E p \in {"P0", "P1"} : EnqueueSequenced(p)
  \/ \E id \in Identities : CoalesceP2(id)
  \/ \E id \in Plain : EnqueueP2(id)
  \/ \E id \in Watched : EnqueueP2Sequenced(id)
  \/ EnqueueBarrier
  \/ OverloadClose
  \/ Close
  \/ NotifyOne
  \/ NotifyWaiters
  \/ Arm
  \/ Scan
  \/ Await
  \/ SendOk
  \/ SendFail
  \/ CancelWriter

Spec == Init /\ [][Next]_vars

(* The writer is a spawned task that is polled while it can run; a task that *)
(* has released the lock goes on to notify; and the peer's socket eventually *)
(* accepts or refuses a frame.                                               *)
Fairness ==
  /\ WF_vars(Arm) /\ WF_vars(Scan) /\ WF_vars(Await) /\ WF_vars(Send)
  /\ WF_vars(NotifyOne) /\ WF_vars(NotifyWaiters)

FairSpec == Spec /\ Fairness

---------------------------------------------------------------------------
(* Properties *)

Entry == [priority : Priorities, identity : Identities \cup {NoIdentity, Barrier},
          seq : 0 .. MaxSequence, msg : Msg]

(* The shape of every variable; the queue never exceeds its capacity. *)
TypeOK ==
  /\ queue \in Seq(Entry)
  /\ Len(queue) <= Capacity
  /\ closed \in BOOLEAN
  /\ counter \in 0 .. MaxSequence
  /\ owed \subseteq {"one", "waiters"}
  /\ permit \in BOOLEAN
  /\ pc \in {"idle", "armed", "awaiting", "sending", "stopped"}
  /\ woken \in BOOLEAN
  /\ item \in Msg
  /\ wireClosed \in BOOLEAN
  /\ shed \in BOOLEAN
  /\ delivered \in 0 .. MaxSequence
  /\ accepted \in [Identities -> 0 .. MaxRev]
  /\ shown \in [Identities -> 0 .. MaxRev]

(* The sequences inside the queued frames. *)
QueuedWires == {queue[i].msg.wire : i \in {j \in DOMAIN queue : queue[j].msg.wire # 0}}

(* The last sequence the writer has taken out of the queue. *)
Taken == IF item.wire # 0 THEN item.wire ELSE delivered

(* Whatever the forwarders, the replay and the coalescing do, the sequences  *)
(* allocated and not yet taken by the writer are exactly the queued ones:    *)
(* none is skipped, lost or repeated until an overload sheds the queue.      *)
SequencesAccounted ==
  ~shed => /\ item.wire \in {0, delivered + 1}
           /\ QueuedWires = Taken + 1 .. counter
           /\ \A i, j \in DOMAIN queue :
                queue[i].msg.wire # 0 /\ queue[i].msg.wire = queue[j].msg.wire => i = j

(* Coalescible resource payloads never take the reliable reserve, so a burst *)
(* of deltas alone cannot make a control frame overload the session.         *)
ReserveHeld == Cardinality(ResourceSlots(queue)) <= Capacity - Reserve

(* The newest update admitted for an identity is queued, being written, or   *)
(* was the last one the peer was sent: coalescing never keeps the older one. *)
NewestKept ==
  ~shed => \A id \in Identities :
    \/ \E i \in DOMAIN queue : queue[i].identity = id /\ queue[i].msg.rev = accepted[id]
    \/ /\ ~Holds(queue, id)
       /\ \/ item.id = id /\ item.rev = accepted[id]
          \/ item.id # id /\ shown[id] = accepted[id]

(* The writer never sleeps on a queued frame or on a closed scheduler unless *)
(* the notification that ends its sleep is stored or still owed to it.       *)
NoLostWakeup ==
  pc = "awaiting" =>
    /\ queue # <<>> => woken \/ permit \/ "one" \in owed
    /\ closed => woken \/ permit \/ "waiters" \in owed

(* No sequenced frame reaches the peer any more. *)
Ended == wireClosed \/ pc = "stopped" \/ (shed /\ item.wire = 0)

---------------------------------------------------------------------------
(* What the proofs need beside SequencesAccounted. *)

Replayed(e) == e.seq = 0 /\ e.msg.wire # 0

(* Only a replayed frame carries a sequence the queue does not order by, and *)
(* replayed frames are plain P1.  A Close carries none.                      *)
EntryShape ==
  \A i \in DOMAIN queue :
    /\ queue[i].seq # 0 => queue[i].msg.wire = queue[i].seq
    /\ Replayed(queue[i]) => queue[i].priority = "P1"
    /\ Replayed(queue[i]) => queue[i].identity = NoIdentity
    /\ queue[i].msg.wire <= counter
    /\ queue[i].msg.kind = "close" => queue[i].msg.wire = 0

(* Replayed frames are queued in order and before any sequenced frame's turn. *)
ReplayFirst ==
  \A i, j \in DOMAIN queue :
    Replayed(queue[i]) =>
      /\ Replayed(queue[j]) /\ i < j => queue[i].msg.wire < queue[j].msg.wire
      /\ queue[j].seq # 0 => queue[i].msg.wire < queue[j].seq

(* The writer holds a message exactly while it sends it; a stopped writer    *)
(* drops it.                                                                 *)
ItemShape ==
  /\ pc \in {"idle", "armed", "awaiting"} => item = NoMsg
  /\ item.kind = "close" => item.wire = 0
  /\ item.wire # 0 /\ ~wireClosed /\ pc # "stopped" => item.wire = delivered + 1
  /\ Taken <= counter

(* A shed session has only its Close to say, after the frame being written.  *)
ShedMeansClose ==
  shed => \/ wireClosed
          \/ pc = "stopped"
          \/ item.kind = "close"
          \/ queue # <<>> /\ queue[1] = CloseEntry

IInv ==
  /\ TypeOK
  /\ SequencesAccounted
  /\ EntryShape
  /\ ReplayFirst
  /\ ItemShape
  /\ ShedMeansClose

---------------------------------------------------------------------------
(* The queue implements the ordered log: what the peer is sent is the issued *)
(* sequences in order, none missing, up to the end of the session.           *)
Log == INSTANCE OrderedDelivery WITH issued <- counter, ended <- Ended
ImplementsOrderedDelivery == Log!Spec

(* Once the session closes its scheduler the writer drains what is queued    *)
(* and returns, without the flush timeout having to cancel it.               *)
CloseDrains == closed ~> pc = "stopped"

(* If control traffic pauses, every allocated sequence is eventually sent:   *)
(* sequenced frames wait behind unsequenced P0 and P1 and behind nothing     *)
(* else.                                                                     *)
SequencedDelivered ==
  <>[][~EnqueueControl]_vars => []<>(delivered = counter \/ Ended)

(* What is queued leaves the session, while it lasts and when it ends. *)
QueueDrains == CloseDrains /\ SequencedDelivered
=============================================================================
