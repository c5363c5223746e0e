------------------------- MODULE SessionResumeProofs -------------------------
(***************************************************************************)
(* Proofs about SessionResume, for every set of clients, every budget of   *)
(* the store and every capacity.                                           *)
(***************************************************************************)
EXTENDS SessionResume, FiniteSetTheorems, SequenceTheorems, TLAPS

---------------------------------------------------------------------------
(* The store's operators. *)

ConnectionType ==
  [session : Numbers, gen : Nat, main : {"live", "leaving", "draining"}, taken : BOOLEAN,
   queue : Seq(FrameType), counter : Sequences, writer : {"idle", "sending", "sent", "stopped"},
   item : FrameType, wire : Seq(FrameType), up : BOOLEAN,
   snap : {"none", "wanted", "begun", "sent"}]

SessionType ==
  [journal : Seq(FrameType), last : Sequences, gen : Nat, holder : Numbers]

ClientType ==
  [phase : {"lost", "connecting", "ready", "failed"}, connection : Numbers, session : Numbers,
   instance : Nat, cursor : Sequences, by : Numbers, assembling : BOOLEAN, gap : BOOLEAN]

(* TypeOK in named parts. *)
StoreOK ==
  /\ Known \subseteq 1 .. Len(connections)
  /\ Cardinality(Known) <= MaxSessions
  /\ \A s \in Known : sessions[s] \in SessionType /\ Len(sessions[s].journal) <= MaxEntries
OrderOK ==
  /\ older \subseteq Known \X Known
  /\ \A a, b \in Known : <<a, b>> \in older <=> a # b /\ <<b, a>> \notin older
ConnectionsOK == Len(connections) <= MaxConnections /\ connections \in Seq(ConnectionType)
ClientsOK == clients \in [Clients -> ClientType]

(* The named parts are the type invariant. *)
LEMMA TypeParts ==
  TypeOK <=> StoreOK /\ OrderOK /\ ConnectionsOK /\ ClientsOK /\ instance \in 1 .. MaxRestarts + 1
  BY DEF TypeOK, StoreOK, OrderOK, ConnectionsOK, ClientsOK, SessionType, ConnectionType, ClientType

(* A client that reads a connection reads an existing one. *)
Attached ==
  \A c \in Clients : clients[c].phase \in {"connecting", "ready"} => clients[c].connection \in Connections

(* The constants are numbers. *)
LEMMA Bounds ==
  /\ MaxSequence \in Nat /\ MaxConnections \in Nat /\ MaxRestarts \in Nat
  /\ MaxEntries \in Nat /\ MaxEntries > 0 /\ MaxSessions \in Nat /\ MaxSessions > 0
  /\ Sequences \subseteq Nat /\ Numbers \subseteq Nat /\ 0 \in Sequences /\ 0 \in Numbers
  BY ResumeAssumption DEF Sequences, Numbers

(* The frames the actions make are frames. *)
LEMMA FrameTypes ==
  /\ NoFrame \in FrameType
  /\ \A t \in Numbers : /\ Frame("fresh", 0, t) \in FrameType
                        /\ Frame("resumed", 0, t) \in FrameType
                        /\ Frame("close", 0, t) \in FrameType
  /\ \A t \in Numbers, n \in Sequences, kind \in {"update", "begin", "end"} :
       Frame(kind, n, t) \in FrameType
  BY Bounds DEF Frame, NoFrame, FrameType

(* The tail of a journal after a cursor is a sequence of its frames. *)
LEMMA AfterType ==
  ASSUME NEW journal \in Seq(FrameType), NEW cursor
  PROVE  After(journal, cursor) \in Seq(FrameType)
<1> DEFINE later == {i \in DOMAIN journal : journal[i].seq > cursor}
<1> DEFINE n == Cardinality(later)
<1>0. Len(journal) \in Nat
  OBVIOUS
<1>1. IsFiniteSet(1 .. Len(journal)) /\ Cardinality(1 .. Len(journal)) = Len(journal)
  BY <1>0, FS_Interval
<1>2. n \in Nat /\ n <= Len(journal)
  <2>1. later \subseteq 1 .. Len(journal)
    OBVIOUS
  <2>. QED
    BY <1>0, <1>1, <2>1, FS_Subset, FS_CardinalityType
<1> HIDE DEF n
<1>3. SubSeq(journal, Len(journal) - n + 1, Len(journal)) \in Seq(FrameType)
  BY <1>2
<1>. QED
  BY <1>3 DEF After, n

(* A set of session ids grows by one when a new id is added. *)
LEMMA KnownFinite ==
  ASSUME NEW n \in Nat, NEW S \in SUBSET (1 .. n)
  PROVE  IsFiniteSet(S) /\ Cardinality(S) \in Nat
<1>1. IsFiniteSet(1 .. n)
  BY FS_Interval
<1>. QED
  BY <1>1, FS_Subset, FS_CardinalityType

(* Recording keeps the ids, the leases and the types of the store. *)
LEMMA RecordedFacts ==
  ASSUME StoreOK, NEW s, NEW gen, NEW frame \in FrameType
  PROVE  /\ DOMAIN Recorded(s, gen, frame) = Known
         /\ \A x \in Known :
              LET new == Recorded(s, gen, frame)[x] IN
              /\ new \in SessionType /\ Len(new.journal) <= MaxEntries
              /\ new.gen = sessions[x].gen /\ new.holder = sessions[x].holder
<1> DEFINE j == Append(sessions[s].journal, frame)
<1> DEFINE kept == IF Len(j) > MaxEntries THEN Tail(j) ELSE j
<1>1. CASE s \in Known /\ sessions[s].gen = gen /\ frame.seq > sessions[s].last
  <2>1. sessions[s] \in SessionType /\ Len(sessions[s].journal) <= MaxEntries
    BY <1>1 DEF StoreOK
  <2>2. sessions[s].journal \in Seq(FrameType)
    BY <2>1 DEF SessionType
  <2>3. j \in Seq(FrameType) /\ Len(j) = Len(sessions[s].journal) + 1 /\ j # <<>>
    BY <2>2
  <2>4. Tail(j) \in Seq(FrameType) /\ Len(Tail(j)) = Len(j) - 1
    BY <2>3
  <2>5. kept \in Seq(FrameType) /\ Len(kept) <= MaxEntries
    <3>1. CASE Len(j) > MaxEntries
      BY <2>1, <2>2, <2>3, <2>4, <3>1, Bounds
    <3>2. CASE ~ (Len(j) > MaxEntries)
      BY <2>2, <2>3, <3>2, Bounds
    <3>. QED
      BY <3>1, <3>2
  <2>6. frame.seq \in Sequences
    BY DEF FrameType
  <2> HIDE DEF kept
  <2>7. Recorded(s, gen, frame) = [sessions EXCEPT ![s].journal = kept, ![s].last = frame.seq]
    BY <1>1 DEF Recorded, kept
  <2> DEFINE new == [sessions[s] EXCEPT !.journal = kept, !.last = frame.seq]
  <2>8. new \in SessionType /\ new.journal = kept /\ new.gen = sessions[s].gen
        /\ new.holder = sessions[s].holder
    BY <2>1, <2>5, <2>6 DEF SessionType
  <2>9. \A x \in Known :
          [sessions EXCEPT ![s].journal = kept, ![s].last = frame.seq][x]
            = IF x = s THEN new ELSE sessions[x]
    BY <1>1 DEF Known
  <2> HIDE DEF new
  <2>10. DOMAIN Recorded(s, gen, frame) = Known
    BY <2>7 DEF Known
  <2>11. \A x \in Known : Recorded(s, gen, frame)[x] = IF x = s THEN new ELSE sessions[x]
    BY <2>7, <2>9
  <2>. QED
    BY <2>5, <2>8, <2>10, <2>11 DEF StoreOK
<1>2. CASE ~ (s \in Known /\ sessions[s].gen = gen /\ frame.seq > sessions[s].last)
  <2>1. Recorded(s, gen, frame) = sessions
    BY <1>2 DEF Recorded
  <2>. QED
    BY <2>1 DEF StoreOK, Known
<1>. QED
  BY <1>1, <1>2

(* A relation that orders a set. *)
Orders(R, S) ==
  /\ R \subseteq S \X S
  /\ \A a, b \in S : <<a, b>> \in R <=> a # b /\ <<b, a>> \notin R

(* The order of last activity, restricted, orders what is left. *)
LEMMA AmongOrders ==
  ASSUME OrderOK, NEW S \in SUBSET Known
  PROVE  Orders(Among(S), S)
<1>1. \A p \in Among(S) : p \in S \X S
  <2> SUFFICES ASSUME NEW p \in Among(S)
               PROVE  p \in S \X S
    OBVIOUS
  <2>1. p \in Known \X Known /\ p[1] \in S /\ p[2] \in S
    BY DEF Among, OrderOK
  <2>. QED
    BY <2>1
<1>2. \A a, b \in S : <<a, b>> \in Among(S) <=> <<a, b>> \in older
  BY DEF Among
<1>. QED
  BY <1>1, <1>2 DEF Orders, OrderOK

(* The id touched last is the youngest. *)
LEMMA YoungestOrders ==
  ASSUME NEW R, NEW S, Orders(R, S), NEW t, t \notin S
  PROVE  Orders(R \cup (S \X {t}), S \cup {t})
<1> DEFINE Q == R \cup (S \X {t})
<1>1. Q \subseteq (S \cup {t}) \X (S \cup {t})
  BY DEF Orders
<1>2. \A a, b \in S \cup {t} : <<a, b>> \in Q <=> a # b /\ <<b, a>> \notin Q
  <2> SUFFICES ASSUME NEW a \in S \cup {t}, NEW b \in S \cup {t}
               PROVE  <<a, b>> \in Q <=> a # b /\ <<b, a>> \notin Q
    OBVIOUS
  <2>1. \A x \in S : <<x, t>> \in Q /\ <<t, x>> \notin Q /\ <<x, t>> \notin R
    BY DEF Orders
  <2>2. <<t, t>> \notin Q
    BY DEF Orders
  <2>3. \A x, y \in S : <<x, y>> \in Q <=> <<x, y>> \in R
    OBVIOUS
  <2>4. CASE a \in S /\ b \in S
    BY <2>3, <2>4 DEF Orders
  <2>5. CASE a = t \/ b = t
    BY <2>1, <2>2, <2>5
  <2>. QED
    BY <2>4, <2>5
<1>. QED
  BY <1>1, <1>2 DEF Orders

(* Touching a session leaves its order in place. *)
LEMMA TouchOrders ==
  ASSUME OrderOK, NEW s \in Known
  PROVE  Orders(Touch(s), Known)
<1>1. Orders(Among(Known \ {s}), Known \ {s})
  BY AmongOrders
<1>2. Orders(Touch(s), (Known \ {s}) \cup {s})
  BY <1>1, YoungestOrders DEF Touch
<1>3. (Known \ {s}) \cup {s} = Known
  OBVIOUS
<1>. QED
  BY <1>2, <1>3

---------------------------------------------------------------------------
(* The invariant. *)

(* A connection's session was created by it or by an earlier connection;     *)
(* the holder of a known session's lease is a connection of the session with *)
(* its generation; no connection has a later generation than its session;    *)
(* and no two connections of one session have the same.                      *)
LeaseInv ==
  /\ \A t \in Connections : connections[t].session \in Connections
  /\ \A s \in Known : sessions[s].holder # 0 =>
       /\ sessions[s].holder \in Connections
       /\ connections[sessions[s].holder].session = s
       /\ connections[sessions[s].holder].gen = sessions[s].gen
  /\ \A t \in Connections : connections[t].session \in Known =>
       connections[t].gen <= sessions[connections[t].session].gen
  /\ \A t, u \in Connections :
       connections[t].session = connections[u].session /\ connections[t].gen = connections[u].gen
         => t = u

IInv == TypeOK /\ Attached /\ LeaseInv /\ LeaseHeld

(* The types of one connection, one session and one client. *)
LEMMA ConnectionFields ==
  ASSUME ConnectionsOK, NEW t \in Connections
  PROVE  /\ connections[t] \in ConnectionType
         /\ Len(connections) \in Nat /\ Connections = 1 .. Len(connections)
         /\ t \in Nat /\ t \in Numbers
         /\ \A r \in ConnectionType :
              /\ [connections EXCEPT ![t] = r] \in Seq(ConnectionType)
              /\ Len([connections EXCEPT ![t] = r]) = Len(connections)
              /\ DOMAIN [connections EXCEPT ![t] = r] = Connections
              /\ \A u \in Connections :
                   [connections EXCEPT ![t] = r][u] = IF u = t THEN r ELSE connections[u]
  BY Bounds DEF ConnectionsOK, Connections, Numbers

(* What keeps the connections' sessions and generations, the leases of the   *)
(* store, and makes no connection live again keeps the lease invariant.      *)
LEMMA KeptLeases ==
  ASSUME LeaseInv, LeaseHeld, DOMAIN connections' = Connections, DOMAIN sessions' = Known,
         \A t \in Connections :
           /\ connections'[t].session = connections[t].session
           /\ connections'[t].gen = connections[t].gen
           /\ connections'[t].main = "live" /\ ~connections'[t].taken =>
                connections[t].main = "live" /\ ~connections[t].taken,
         \A s \in Known : sessions'[s].gen = sessions[s].gen /\ sessions'[s].holder = sessions[s].holder
  PROVE  LeaseInv' /\ LeaseHeld'
<1>1. (Connections)' = Connections /\ (Known)' = Known
  BY DEF Connections, Known
<1>2. LeaseInv'
  BY <1>1 DEF LeaseInv
<1>3. LeaseHeld'
  <2> SUFFICES ASSUME NEW t \in Connections, connections'[t].main = "live", ~connections'[t].taken
               PROVE  Current(t)' /\ sessions'[connections'[t].session].holder = t
    BY <1>1 DEF LeaseHeld
  <2>1. Current(t) /\ sessions[connections[t].session].holder = t
    BY DEF LeaseHeld
  <2>. QED
    BY <1>1, <2>1 DEF Current
<1>. QED
  BY <1>2, <1>3

(* The connections keep their number, so a client's connection stays one.    *)
LEMMA KeptAttached ==
  ASSUME Attached, UNCHANGED clients, Connections \subseteq (Connections)'
  PROVE  Attached'
  BY DEF Attached

(* A task's step on its own connection that leaves the store alone. *)
LEMMA UpdateKeeps ==
  ASSUME IInv, NEW t \in Connections, NEW r \in ConnectionType,
         r.session = connections[t].session, r.gen = connections[t].gen,
         r.main = "live" /\ ~r.taken => connections[t].main = "live" /\ ~connections[t].taken,
         Update(t, r), UNCHANGED <<sessions, older, clients, instance>>
  PROVE  IInv'
<1>1. ConnectionsOK /\ StoreOK /\ OrderOK /\ ClientsOK /\ instance \in 1 .. MaxRestarts + 1
  BY TypeParts DEF IInv
<1>2. /\ connections' \in Seq(ConnectionType)
      /\ Len(connections') = Len(connections) /\ DOMAIN connections' = Connections
      /\ \A u \in Connections : connections'[u] = IF u = t THEN r ELSE connections[u]
  BY <1>1, ConnectionFields DEF Update
<1>3. ConnectionsOK' /\ StoreOK' /\ OrderOK' /\ ClientsOK' /\ (instance \in 1 .. MaxRestarts + 1)'
  BY <1>1, <1>2 DEF ConnectionsOK, StoreOK, OrderOK, ClientsOK, Known
<1>4. LeaseInv' /\ LeaseHeld'
  BY <1>2, KeptLeases DEF IInv, Known
<1>5. Attached'
  BY <1>2, KeptAttached DEF IInv, Connections
<1>6. TypeOK'
  BY <1>3, TypeParts, PTL
<1>. QED
  BY <1>4, <1>5, <1>6 DEF IInv

(* What IInv says of one connection. *)
LEMMA OneConnection ==
  ASSUME IInv, NEW t \in Connections
  PROVE  /\ connections[t] \in ConnectionType
         /\ t \in Numbers /\ t # 0
         /\ connections[t].queue \in Seq(FrameType) /\ connections[t].wire \in Seq(FrameType)
         /\ connections[t].item \in FrameType
         /\ connections[t].counter \in Sequences
  BY TypeParts, ConnectionFields DEF IInv, ConnectionType, ConnectionsOK, Connections

---------------------------------------------------------------------------
(* The connection's tasks. *)

(* A live connection queues a sequenced frame. *)
LEMMA IssueStep ==
  ASSUME IInv, NEW t \in Connections, Issue(t)
  PROVE  IInv'
<1> DEFINE k == connections[t]
<1>1. PICK step \in {[kind |-> "update", from |-> k.snap, to |-> k.snap],
                     [kind |-> "begin", from |-> "wanted", to |-> "begun"],
                     [kind |-> "end", from |-> "begun", to |-> "sent"]} :
        Update(t, [k EXCEPT !.snap = step.to, !.counter = @ + 1,
                     !.queue = Append(@, Frame(step.kind, k.counter + 1, t))])
  BY DEF Issue
<1>2. k \in ConnectionType /\ t \in Numbers /\ k.queue \in Seq(FrameType) /\ k.counter \in Sequences
  BY OneConnection
<1>3. k.counter + 1 \in Sequences
  BY <1>2, Bounds DEF Issue, Sequences
<1>4. step.kind \in {"update", "begin", "end"} /\ step.to \in {"none", "wanted", "begun", "sent"}
  BY <1>2 DEF ConnectionType
<1>5. Append(k.queue, Frame(step.kind, k.counter + 1, t)) \in Seq(FrameType)
  BY <1>2, <1>3, <1>4, FrameTypes
<1> DEFINE r == [k EXCEPT !.snap = step.to, !.counter = @ + 1,
                   !.queue = Append(@, Frame(step.kind, k.counter + 1, t))]
<1>6. r \in ConnectionType /\ r.session = k.session /\ r.gen = k.gen /\ r.main = k.main
      /\ r.taken = k.taken
  BY <1>2, <1>3, <1>4, <1>5 DEF ConnectionType
<1>. QED
  BY <1>1, <1>6, UpdateKeeps DEF Issue

(* A full queue is replaced by its Close. *)
LEMMA OverloadStep ==
  ASSUME IInv, NEW t \in Connections, Overload(t)
  PROVE  IInv'
<1> DEFINE r == [connections[t] EXCEPT !.queue = <<Frame("close", 0, t)>>, !.main = "leaving"]
<1>1. connections[t] \in ConnectionType /\ <<Frame("close", 0, t)>> \in Seq(FrameType)
  BY OneConnection, FrameTypes
<1>2. r \in ConnectionType /\ r.session = connections[t].session /\ r.gen = connections[t].gen
      /\ r.main = "leaving"
  BY <1>1 DEF ConnectionType
<1>. QED
  BY <1>2, UpdateKeeps DEF Overload

(* A frame put ahead of a queue leaves it a queue of frames.                 *)
LEMMA AheadType ==
  ASSUME NEW q \in Seq(FrameType), NEW f \in FrameType
  PROVE  Ahead(q, f) \in Seq(FrameType)
<1> DEFINE first(n) == SubSeq(q, 1, n) \o <<f>>
<1>1. <<f>> \in Seq(FrameType)
  OBVIOUS
<1>2. ASSUME NEW n \in {0, 1}, n <= Len(q)
      PROVE  first(n) \o SubSeq(q, n + 1, Len(q)) \in Seq(FrameType)
  <2>1. SubSeq(q, 1, n) \in Seq(FrameType)
    BY <1>2
  <2>2. SubSeq(q, n + 1, Len(q)) \in Seq(FrameType)
    BY <1>2
  <2>. QED
    BY <1>1, <2>1, <2>2
<1>3. CASE q # <<>> /\ Head(q).kind \in {"fresh", "resumed"}
  <2>1. 1 <= Len(q)
    BY <1>3
  <2>. QED
    BY <1>2, <1>3, <2>1 DEF Ahead
<1>4. CASE ~(q # <<>> /\ Head(q).kind \in {"fresh", "resumed"})
  <2>1. 0 <= Len(q)
    OBVIOUS
  <2>. QED
    BY <1>2, <1>4, <2>1 DEF Ahead
<1>. QED
  BY <1>3, <1>4

(* A connection is told of its takeover: it is no longer live. *)
LEMMA TakenOverStep ==
  ASSUME IInv, NEW t \in Connections, TakenOver(t)
  PROVE  IInv'
<1> DEFINE k == connections[t]
<1> DEFINE r == [k EXCEPT !.queue = Ahead(@, Frame("close", 0, t)), !.main = "leaving"]
<1>1. k \in ConnectionType /\ k.queue \in Seq(FrameType) /\ Frame("close", 0, t) \in FrameType
  BY OneConnection, FrameTypes
<1>2. Ahead(k.queue, Frame("close", 0, t)) \in Seq(FrameType)
  BY <1>1, AheadType
<1>3. r \in ConnectionType /\ r.session = k.session /\ r.gen = k.gen /\ r.main = "leaving"
  BY <1>1, <1>2 DEF ConnectionType
<1>. QED
  BY <1>3, UpdateKeeps DEF TakenOver

(* A connection leaves by itself. *)
LEMMA LeaveStep ==
  ASSUME IInv, NEW t \in Connections, Leave(t)
  PROVE  IInv'
<1> DEFINE r == [connections[t] EXCEPT !.main = "leaving"]
<1>1. r \in ConnectionType /\ r.session = connections[t].session /\ r.gen = connections[t].gen
      /\ r.main = "leaving"
  BY OneConnection DEF ConnectionType
<1>. QED
  BY <1>1, UpdateKeeps DEF Leave

(* The writer takes a frame. *)
LEMMA TakeStep ==
  ASSUME IInv, NEW t \in Connections, Take(t)
  PROVE  IInv'
<1> DEFINE k == connections[t]
<1> DEFINE r == [k EXCEPT !.queue = Tail(@)]
<1> DEFINE q == [k EXCEPT !.queue = Tail(@), !.item = Head(k.queue), !.writer = "sending"]
<1>1. k \in ConnectionType /\ k.queue \in Seq(FrameType) /\ k.queue # <<>>
  BY OneConnection DEF Take
<1>2. Tail(k.queue) \in Seq(FrameType) /\ Head(k.queue) \in FrameType
  BY <1>1
<1>3. r \in ConnectionType /\ r.session = k.session /\ r.gen = k.gen /\ r.main = k.main
      /\ r.taken = k.taken
  BY <1>1, <1>2 DEF ConnectionType
<1>4. q \in ConnectionType /\ q.session = k.session /\ q.gen = k.gen /\ q.main = k.main
      /\ q.taken = k.taken
  BY <1>1, <1>2 DEF ConnectionType
<1>5. Update(t, r) \/ Update(t, q)
  BY DEF Take
<1>. QED
  BY <1>3, <1>4, <1>5, UpdateKeeps DEF Take

(* The writer sends the frame in its hand. *)
LEMMA TransmitStep ==
  ASSUME IInv, NEW t \in Connections, Transmit(t)
  PROVE  IInv'
<1> DEFINE k == connections[t]
<1> DEFINE r == [k EXCEPT !.wire = Append(@, k.item), !.writer = "sent"]
<1>1. k \in ConnectionType /\ Append(k.wire, k.item) \in Seq(FrameType)
  BY OneConnection
<1>2. r \in ConnectionType /\ r.session = k.session /\ r.gen = k.gen /\ r.main = k.main
      /\ r.taken = k.taken
  BY <1>1 DEF ConnectionType
<1>. QED
  BY <1>2, UpdateKeeps DEF Transmit

(* The writer ends. *)
LEMMA StopWriterStep ==
  ASSUME IInv, NEW t \in Connections, StopWriter(t)
  PROVE  IInv'
<1> DEFINE k == connections[t]
<1> DEFINE r == [k EXCEPT !.writer = "stopped", !.item = NoFrame, !.queue = <<>>]
<1>1. k \in ConnectionType /\ NoFrame \in FrameType /\ <<>> \in Seq(FrameType)
  BY OneConnection, FrameTypes
<1>2. r \in ConnectionType /\ r.session = k.session /\ r.gen = k.gen /\ r.main = k.main
      /\ r.taken = k.taken
  BY <1>1 DEF ConnectionType
<1>. QED
  BY <1>2, UpdateKeeps DEF StopWriter

(* The lease is released by its holder only. *)
LEMMA ReleaseStep ==
  ASSUME IInv, NEW t \in Connections, Release(t)
  PROVE  IInv'
<1> DEFINE k == connections[t]
<1> DEFINE r == [k EXCEPT !.main = "draining"]
<1> USE DEF IInv
<1>1. ConnectionsOK /\ StoreOK /\ OrderOK /\ ClientsOK /\ instance \in 1 .. MaxRestarts + 1
  BY TypeParts
<1>2. k \in ConnectionType /\ r \in ConnectionType /\ r.session = k.session /\ r.gen = k.gen
      /\ r.main = "draining"
  BY OneConnection DEF ConnectionType
<1>3. /\ connections' \in Seq(ConnectionType)
      /\ Len(connections') = Len(connections) /\ DOMAIN connections' = Connections
      /\ \A u \in Connections : connections'[u] = IF u = t THEN r ELSE connections[u]
  BY <1>1, <1>2, ConnectionFields DEF Release, Update
<1>4. Attached' /\ ConnectionsOK' /\ ClientsOK' /\ (instance \in 1 .. MaxRestarts + 1)'
  BY <1>1, <1>3, KeptAttached DEF ConnectionsOK, ClientsOK, Release, Connections
<1> HIDE DEF r
<1>5. CASE ~ (k.session \in Known /\ sessions[k.session].gen = k.gen)
  <2>1. sessions' = sessions /\ older' = older
    BY <1>5 DEF Release, Released
  <2>2. StoreOK' /\ OrderOK'
    BY <1>1, <1>3, <2>1 DEF StoreOK, OrderOK, Known
  <2>3. LeaseInv' /\ LeaseHeld'
    BY <1>2, <1>3, <2>1, KeptLeases DEF Known
  <2>4. TypeOK'
    BY <1>4, <2>2, TypeParts, PTL
  <2>. QED
    BY <1>4, <2>3, <2>4
<1>6. CASE k.session \in Known /\ sessions[k.session].gen = k.gen
  <2> DEFINE s == k.session
  <2>1. sessions' = [sessions EXCEPT ![s].holder = 0]
    BY <1>6 DEF Release, Released
  <2>2. DOMAIN sessions' = Known
    BY <2>1 DEF Known
  <2>3. \A x \in Known :
          /\ sessions'[x] \in SessionType /\ sessions'[x].journal = sessions[x].journal
          /\ sessions'[x].gen = sessions[x].gen
          /\ sessions'[x].holder = IF x = s THEN 0 ELSE sessions[x].holder
    BY <1>1, <2>1, Bounds DEF StoreOK, SessionType, Known
  <2>4. StoreOK'
    BY <1>1, <1>3, <2>2, <2>3 DEF StoreOK, Known
  <2>5. older' = older \/ older' = Touch(s)
    BY DEF Release
  <2>6. Orders(older', Known)
    BY <1>1, <1>6, <2>5, TouchOrders DEF Orders, OrderOK
  <2>7. OrderOK'
    BY <2>2, <2>6 DEF OrderOK, Orders, Known
  <2>8. TypeOK'
    BY <1>4, <2>4, <2>7, TypeParts, PTL
  <2>9. LeaseInv'
    <3>1. (Connections)' = Connections /\ (Known)' = Known
      BY <1>3, <2>2 DEF Connections, Known
    <3>2. \A u \in Connections : connections'[u].session = connections[u].session
                            /\ connections'[u].gen = connections[u].gen
      BY <1>2, <1>3
    <3>3. \A u \in Connections : connections'[u].session \in Connections
      BY <3>2 DEF LeaseInv
    <3>4. ASSUME NEW x \in Known, sessions'[x].holder # 0
          PROVE  /\ sessions'[x].holder \in Connections
                 /\ connections'[sessions'[x].holder].session = x
                 /\ connections'[sessions'[x].holder].gen = sessions'[x].gen
      <4>1. sessions'[x].holder = sessions[x].holder /\ sessions'[x].gen = sessions[x].gen
        BY <2>3, <3>4
      <4>. QED
        BY <3>2, <3>4, <4>1 DEF LeaseInv
    <3>5. ASSUME NEW u \in Connections, connections'[u].session \in Known
          PROVE  connections'[u].gen <= sessions'[connections'[u].session].gen
      BY <2>3, <3>2, <3>5 DEF LeaseInv
    <3>6. ASSUME NEW u \in Connections, NEW v \in Connections,
                 connections'[u].session = connections'[v].session,
                 connections'[u].gen = connections'[v].gen
          PROVE  u = v
      BY <3>2, <3>6 DEF LeaseInv
    <3>. QED
      BY <3>1, <3>3, <3>4, <3>5, <3>6 DEF LeaseInv
  <2>10. LeaseHeld'
    <3> SUFFICES ASSUME NEW u \in Connections, connections'[u].main = "live", ~connections'[u].taken
                 PROVE  Current(u)' /\ sessions'[connections'[u].session].holder = u
      BY <1>3 DEF LeaseHeld, Connections
    <3>1. u # t /\ connections'[u] = connections[u]
      BY <1>2, <1>3
    <3>2. Current(u) /\ sessions[connections[u].session].holder = u
      BY <3>1 DEF LeaseHeld
    <3>3. connections[u].session # s
      BY <1>6, <3>1, <3>2 DEF LeaseInv, Current
    <3>. QED
      BY <2>2, <2>3, <3>1, <3>2, <3>3 DEF Current, Known
  <2>. QED
    BY <1>4, <2>8, <2>9, <2>10
<1>. QED
  BY <1>5, <1>6

(* A frame is journaled for the lease that sent it. *)
LEMMA RecordStep ==
  ASSUME IInv, NEW t \in Connections, Record(t)
  PROVE  IInv'
<1> DEFINE k == connections[t]
<1> DEFINE r == [k EXCEPT !.item = NoFrame,
                   !.writer = IF k.item.kind = "close" THEN "stopped" ELSE "idle"]
<1> USE DEF IInv
<1>1. ConnectionsOK /\ StoreOK /\ OrderOK /\ ClientsOK /\ instance \in 1 .. MaxRestarts + 1
  BY TypeParts
<1>2. k \in ConnectionType /\ k.item \in FrameType /\ r \in ConnectionType /\ r.session = k.session
      /\ r.gen = k.gen /\ r.main = k.main /\ r.taken = k.taken
  BY OneConnection, FrameTypes DEF ConnectionType
<1> HIDE DEF r
<1>3. /\ connections' \in Seq(ConnectionType)
      /\ Len(connections') = Len(connections) /\ DOMAIN connections' = Connections
      /\ \A u \in Connections : connections'[u] = IF u = t THEN r ELSE connections[u]
  BY <1>1, <1>2, ConnectionFields DEF Record, Update, r
<1>4. Attached' /\ ConnectionsOK' /\ ClientsOK' /\ (instance \in 1 .. MaxRestarts + 1)'
  BY <1>1, <1>3, KeptAttached DEF ConnectionsOK, ClientsOK, Record, Connections
<1>5. sessions' = sessions \/ sessions' = Recorded(k.session, k.gen, k.item)
  BY DEF Record
<1>6. /\ DOMAIN sessions' = Known
      /\ \A x \in Known :
           /\ sessions'[x] \in SessionType /\ Len(sessions'[x].journal) <= MaxEntries
           /\ sessions'[x].gen = sessions[x].gen /\ sessions'[x].holder = sessions[x].holder
  BY <1>1, <1>2, <1>5, RecordedFacts DEF StoreOK, Known
<1>7. StoreOK'
  BY <1>1, <1>3, <1>6 DEF StoreOK, Known
<1>8. older' = older \/ (k.session \in Known /\ older' = Touch(k.session))
  BY DEF Record, Current
<1>9. Orders(older', Known)
  BY <1>1, <1>8, TouchOrders DEF Orders, OrderOK
<1>10. OrderOK'
  BY <1>6, <1>9 DEF OrderOK, Orders, Known
<1>11. TypeOK'
  BY <1>4, <1>7, <1>10, TypeParts, PTL
<1>12. LeaseInv' /\ LeaseHeld'
  BY <1>2, <1>3, <1>6, KeptLeases
<1>. QED
  BY <1>4, <1>11, <1>12

---------------------------------------------------------------------------
(* The store's own steps. *)

(* A journal entry ages out: the holder of the session is the same. *)
LEMMA AgeStep ==
  ASSUME IInv, NEW s \in Known, Age(s)
  PROVE  IInv'
<1> USE DEF IInv
<1>1. ConnectionsOK /\ StoreOK /\ OrderOK /\ ClientsOK /\ instance \in 1 .. MaxRestarts + 1
  BY TypeParts
<1> DEFINE j == sessions[s].journal
<1>2. sessions[s] \in SessionType /\ j \in Seq(FrameType) /\ j # <<>> /\ Len(j) <= MaxEntries
  BY <1>1 DEF StoreOK, SessionType, Age
<1>3. Tail(j) \in Seq(FrameType) /\ Len(Tail(j)) <= MaxEntries
  <2>1. Tail(j) \in Seq(FrameType) /\ Len(Tail(j)) = Len(j) - 1
    BY <1>2
  <2>2. Len(j) \in Nat
    BY <1>2
  <2>. QED
    BY <1>2, <2>1, <2>2, Bounds
<1>4. /\ DOMAIN sessions' = Known
      /\ \A x \in Known :
           /\ sessions'[x] \in SessionType /\ Len(sessions'[x].journal) <= MaxEntries
           /\ sessions'[x].gen = sessions[x].gen /\ sessions'[x].holder = sessions[x].holder
  BY <1>1, <1>2, <1>3 DEF StoreOK, SessionType, Known, Age
<1>5. StoreOK' /\ OrderOK' /\ ConnectionsOK' /\ ClientsOK' /\ (instance \in 1 .. MaxRestarts + 1)'
  BY <1>1, <1>4 DEF StoreOK, OrderOK, ConnectionsOK, ClientsOK, Known, Age
<1>6. TypeOK'
  BY <1>5, TypeParts, PTL
<1>7. LeaseInv' /\ LeaseHeld'
  BY <1>4, KeptLeases DEF Age, Connections
<1>8. Attached'
  BY KeptAttached DEF Age, Connections
<1>. QED
  BY <1>6, <1>7, <1>8

(* Only a session nobody holds is forgotten. *)
LEMMA PruneStep ==
  ASSUME IInv, NEW s \in Known, Prune(s)
  PROVE  IInv'
<1> USE DEF IInv
<1> DEFINE rest == Known \ {s}
<1>1. ConnectionsOK /\ StoreOK /\ OrderOK /\ ClientsOK /\ instance \in 1 .. MaxRestarts + 1
  BY TypeParts
<1>2. DOMAIN sessions' = rest /\ \A x \in rest : sessions'[x] = sessions[x]
  BY DEF Prune
<1>3. connections' = connections /\ clients' = clients /\ instance' = instance
  BY DEF Prune
<1>4. StoreOK'
  <2>1. Len(connections) \in Nat /\ Known \in SUBSET (1 .. Len(connections))
    BY <1>1 DEF StoreOK, ConnectionsOK
  <2>2. IsFiniteSet(Known) /\ Cardinality(Known) \in Nat
    BY <2>1, KnownFinite
  <2>3. Cardinality(rest) <= Cardinality(Known) /\ Cardinality(rest) \in Nat
    BY <2>2, FS_Subset, FS_CardinalityType
  <2>4. Cardinality(rest) <= MaxSessions
    BY <1>1, <2>2, <2>3, Bounds DEF StoreOK
  <2>. QED
    BY <1>1, <1>2, <1>3, <2>4 DEF StoreOK, Known
<1>5. Orders(older', rest)
  BY <1>1, AmongOrders DEF Prune
<1>6. OrderOK'
  BY <1>2, <1>5 DEF OrderOK, Orders, Known
<1>7. TypeOK'
  <2>1. ConnectionsOK' /\ ClientsOK' /\ (instance \in 1 .. MaxRestarts + 1)'
    BY <1>1, <1>3 DEF ConnectionsOK, ClientsOK
  <2>. QED
    BY <1>4, <1>6, <2>1, TypeParts, PTL
<1>8. Attached'
  BY <1>3, KeptAttached DEF Connections
<1>9. LeaseInv'
  BY <1>2, <1>3 DEF LeaseInv, Connections, Known
<1>10. LeaseHeld'
  <2> SUFFICES ASSUME NEW t \in Connections, connections[t].main = "live", ~connections[t].taken
               PROVE  Current(t)' /\ sessions'[connections'[t].session].holder = t
    BY <1>3 DEF LeaseHeld, Connections
  <2>1. Current(t) /\ sessions[connections[t].session].holder = t
    BY DEF LeaseHeld
  <2>2. t # 0
    BY OneConnection
  <2>3. connections[t].session # s
    BY <2>1, <2>2 DEF Prune, Idlest, Leased
  <2>. QED
    BY <1>2, <1>3, <2>1, <2>3 DEF Current, Known
<1>. QED
  BY <1>7, <1>8, <1>9, <1>10

---------------------------------------------------------------------------
(* The client. *)

(* A step of a client on the connection it reads leaves the store and every  *)
(* lease alone.                                                              *)
LEMMA ClientKeeps ==
  ASSUME IInv, NEW t \in Connections, NEW r \in ConnectionType,
         r.session = connections[t].session, r.gen = connections[t].gen,
         r.main = connections[t].main, r.taken = connections[t].taken,
         NEW c \in Clients, NEW m \in ClientType,
         m.phase \in {"connecting", "ready"} => m.connection \in Connections,
         clients' = [clients EXCEPT ![c] = m], connections' = [connections EXCEPT ![t] = r],
         UNCHANGED <<sessions, older, instance>>
  PROVE  IInv'
<1>1. ConnectionsOK /\ StoreOK /\ OrderOK /\ ClientsOK /\ instance \in 1 .. MaxRestarts + 1
  BY TypeParts DEF IInv
<1>2. /\ connections' \in Seq(ConnectionType)
      /\ Len(connections') = Len(connections) /\ DOMAIN connections' = Connections
      /\ \A u \in Connections : connections'[u] = IF u = t THEN r ELSE connections[u]
  BY <1>1, ConnectionFields
<1>3. clients' \in [Clients -> ClientType] /\ \A d \in Clients : clients'[d] = IF d = c THEN m ELSE clients[d]
  BY <1>1 DEF ClientsOK
<1>4. ConnectionsOK' /\ StoreOK' /\ OrderOK' /\ ClientsOK' /\ (instance \in 1 .. MaxRestarts + 1)'
  BY <1>1, <1>2, <1>3 DEF ConnectionsOK, StoreOK, OrderOK, ClientsOK, Known
<1>5. LeaseInv' /\ LeaseHeld'
  BY <1>2, KeptLeases DEF IInv, Known
<1>6. Attached'
  BY <1>2, <1>3 DEF IInv, Attached, Connections
<1>7. TypeOK'
  BY <1>4, TypeParts, PTL
<1>. QED
  BY <1>5, <1>6, <1>7 DEF IInv

(* A detached connection in the form ClientKeeps takes. *)
LEMMA DetachedFacts ==
  ASSUME IInv, NEW t \in Connections
  PROVE  /\ Detached(t) = [connections EXCEPT ![t] = [connections[t] EXCEPT !.up = FALSE, !.wire = <<>>]]
         /\ [connections[t] EXCEPT !.up = FALSE, !.wire = <<>>] \in ConnectionType
<1>1. connections[t] \in ConnectionType /\ <<>> \in Seq(FrameType)
  BY OneConnection
<1>2. [connections[t] EXCEPT !.up = FALSE, !.wire = <<>>] \in ConnectionType
  BY <1>1 DEF ConnectionType
<1>. QED
  BY <1>2 DEF Detached, Connections

(* A client loses its transport. *)
LEMMA LoseStep ==
  ASSUME IInv, NEW c \in Clients, Lose(c)
  PROVE  IInv'
<1> DEFINE t == clients[c].connection
<1> DEFINE r == [connections[t] EXCEPT !.up = FALSE, !.wire = <<>>]
<1> DEFINE m == [clients[c] EXCEPT !.phase = "lost", !.assembling = FALSE]
<1>1. t \in Connections
  BY DEF IInv, Attached, Lose
<1>2. clients[c] \in ClientType
  BY TypeParts DEF IInv, ClientsOK
<1>3. m \in ClientType /\ m.phase = "lost"
  BY <1>2 DEF ClientType
<1>4. r \in ConnectionType /\ connections' = [connections EXCEPT ![t] = r]
  BY <1>1, DetachedFacts DEF Lose
<1>5. /\ r.session = connections[t].session /\ r.gen = connections[t].gen
      /\ r.main = connections[t].main /\ r.taken = connections[t].taken
  BY <1>1, OneConnection DEF ConnectionType
<1>6. clients' = [clients EXCEPT ![c] = m]
  BY DEF Lose
<1>7. UNCHANGED <<sessions, older, instance>>
  BY DEF Lose
<1> HIDE DEF t, r, m
<1>. QED
  BY <1>1, <1>3, <1>4, <1>5, <1>6, <1>7, ClientKeeps

(* What applying a frame makes of a client is a client. *)
LEMMA ApplyTypes ==
  ASSUME NEW m \in ClientType, NEW k \in ConnectionType, NEW f \in FrameType, instance \in Nat
  PROVE  /\ ApplyWelcome(m, k, f) \in ClientType /\ ApplySequenced(m, f) \in ClientType
         /\ [m EXCEPT !.gap = @ \/ f.seq > m.cursor + 1] \in ClientType
         /\ ApplyWelcome(m, k, f).connection = m.connection
         /\ ApplySequenced(m, f).connection = m.connection
<1>1. f.seq \in Sequences /\ f.by \in Numbers /\ k.session \in Numbers
  BY DEF FrameType, ConnectionType
<1>2. (f.kind = "begin") \in BOOLEAN /\ m.assembling \in BOOLEAN /\ m.gap \in BOOLEAN
  BY DEF ClientType
<1>3. ApplyWelcome(m, k, f) \in ClientType /\ ApplyWelcome(m, k, f).connection = m.connection
  <2>1. CASE f.kind = "fresh"
    BY <1>1, <2>1, Bounds DEF ApplyWelcome, ClientType
  <2>2. CASE f.kind # "fresh"
    BY <1>1, <2>2, Bounds DEF ApplyWelcome, ClientType
  <2>. QED
    BY <2>1, <2>2
<1>4. ApplySequenced(m, f) \in ClientType /\ ApplySequenced(m, f).connection = m.connection
  <2>1. CASE f.kind = "end" /\ ~m.assembling
    BY <2>1 DEF ApplySequenced, ClientType
  <2>2. CASE ~ (f.kind = "end" /\ ~m.assembling) /\ f.kind = "update"
    BY <1>1, <1>2, <2>2 DEF ApplySequenced, ClientType
  <2>3. CASE ~ (f.kind = "end" /\ ~m.assembling) /\ f.kind # "update"
    BY <1>1, <1>2, <2>3 DEF ApplySequenced, ClientType
  <2>. QED
    BY <2>1, <2>2, <2>3
<1>5. [m EXCEPT !.gap = @ \/ f.seq > m.cursor + 1] \in ClientType
  BY <1>2 DEF ClientType
<1>. QED
  BY <1>3, <1>4, <1>5

(* A client takes the next frame off its wire. *)
LEMMA ReceiveStep ==
  ASSUME IInv, NEW c \in Clients, Receive(c)
  PROVE  IInv'
<1> DEFINE m == clients[c]
<1> DEFINE t == m.connection
<1> DEFINE k == connections[t]
<1> DEFINE f == Head(k.wire)
<1>1. t \in Connections
  BY DEF IInv, Attached, Receive
<1>2. m \in ClientType /\ clients \in [Clients -> ClientType] /\ instance \in Nat
  BY TypeParts, Bounds DEF IInv, ClientsOK
<1>3. k \in ConnectionType /\ k.wire \in Seq(FrameType) /\ k.wire # <<>>
  BY <1>1, OneConnection DEF Receive
<1>4. f \in FrameType /\ Tail(k.wire) \in Seq(FrameType)
  BY <1>3
<1>5. UNCHANGED <<sessions, older, instance>>
  BY DEF Receive
<1>6. CASE /\ f.kind \in {"fresh", "resumed"}
           /\ clients' = [clients EXCEPT ![c] = ApplyWelcome(m, k, f)]
           /\ connections' = [connections EXCEPT ![t].wire = Tail(@),
                                ![t].snap = IF Listing THEN "wanted" ELSE @]
  <2> DEFINE r == [k EXCEPT !.wire = Tail(@), !.snap = IF Listing THEN "wanted" ELSE @]
  <2>1. /\ r \in ConnectionType /\ r.session = k.session /\ r.gen = k.gen
        /\ r.main = k.main /\ r.taken = k.taken
    BY <1>3, <1>4 DEF ConnectionType
  <2>2. connections' = [connections EXCEPT ![t] = r]
    BY <1>1, <1>6 DEF Connections
  <2>3. ApplyWelcome(m, k, f) \in ClientType /\ ApplyWelcome(m, k, f).connection = t
    BY <1>2, <1>3, <1>4, ApplyTypes
  <2> HIDE DEF m, t, k, f, r
  <2>. QED
    BY <1>1, <1>5, <1>6, <2>1, <2>2, <2>3, ClientKeeps DEF k
<1>7. CASE /\ f.kind = "close"
           /\ clients' = [clients EXCEPT ![c].phase = "lost", ![c].assembling = FALSE]
           /\ connections' = Detached(t)
  <2> DEFINE r == [k EXCEPT !.up = FALSE, !.wire = <<>>]
  <2> DEFINE n == [m EXCEPT !.phase = "lost", !.assembling = FALSE]
  <2>1. /\ r \in ConnectionType /\ connections' = [connections EXCEPT ![t] = r]
    BY <1>1, <1>7, DetachedFacts
  <2>2. r.session = k.session /\ r.gen = k.gen /\ r.main = k.main /\ r.taken = k.taken
    BY <1>3 DEF ConnectionType
  <2>3. n \in ClientType /\ n.phase = "lost"
    BY <1>2 DEF ClientType
  <2>4. clients' = [clients EXCEPT ![c] = n]
    BY <1>2, <1>7
  <2> HIDE DEF m, t, k, f, r, n
  <2>. QED
    BY <1>1, <1>5, <2>1, <2>2, <2>3, <2>4, ClientKeeps DEF k
<1>8. CASE /\ f.seq # 0
           /\ clients' = [clients EXCEPT ![c] =
                IF f.seq = m.cursor + 1 THEN ApplySequenced(m, f)
                ELSE [m EXCEPT !.gap = @ \/ f.seq > m.cursor + 1]]
           /\ connections' = [connections EXCEPT ![t].wire = Tail(@)]
  <2> DEFINE r == [k EXCEPT !.wire = Tail(@)]
  <2> DEFINE n == IF f.seq = m.cursor + 1 THEN ApplySequenced(m, f)
                  ELSE [m EXCEPT !.gap = @ \/ f.seq > m.cursor + 1]
  <2>1. /\ r \in ConnectionType /\ r.session = k.session /\ r.gen = k.gen
        /\ r.main = k.main /\ r.taken = k.taken
    BY <1>3, <1>4 DEF ConnectionType
  <2>2. connections' = [connections EXCEPT ![t] = r]
    BY <1>1, <1>8 DEF Connections
  <2>3. n \in ClientType /\ n.connection = t
    <3>1. CASE f.seq = m.cursor + 1
      BY <1>2, <1>3, <1>4, <3>1, ApplyTypes
    <3>2. CASE f.seq # m.cursor + 1
      <4>1. [m EXCEPT !.gap = @ \/ f.seq > m.cursor + 1].connection = t
        BY <1>2 DEF ClientType
      <4>. QED
        BY <1>2, <1>3, <1>4, <3>2, <4>1, ApplyTypes
    <3>. QED
      BY <3>1, <3>2
  <2>4. clients' = [clients EXCEPT ![c] = n]
    BY <1>8
  <2> HIDE DEF m, t, k, f, r, n
  <2>. QED
    BY <1>1, <1>5, <2>1, <2>2, <2>3, <2>4, ClientKeeps DEF k
<1>. QED
  BY <1>6, <1>7, <1>8 DEF Receive

---------------------------------------------------------------------------
(* Claims and restarts. *)

(* The claimed connection joins the sequence of connections, and the client  *)
(* reads it.                                                                 *)
LEMMA Joined ==
  ASSUME IInv, Len(connections) < MaxConnections,
         NEW old \in Seq(ConnectionType), Len(old) = Len(connections),
         NEW k \in ConnectionType, connections' = Append(old, k),
         NEW c \in Clients, Attach(c, Len(connections) + 1), UNCHANGED instance
  PROVE  /\ ConnectionsOK' /\ ClientsOK' /\ Attached' /\ (instance \in 1 .. MaxRestarts + 1)'
         /\ Len(connections') = Len(connections) + 1
         /\ (Connections)' = Connections \cup {Len(connections) + 1}
         /\ \A u \in Connections : connections'[u] = old[u]
         /\ connections'[Len(connections) + 1] = k
<1> DEFINE t == Len(connections) + 1
<1>1. ConnectionsOK /\ ClientsOK /\ Attached /\ instance \in 1 .. MaxRestarts + 1
  BY TypeParts DEF IInv
<1>2. Len(connections) \in Nat /\ Connections = 1 .. Len(connections)
  BY <1>1 DEF ConnectionsOK, Connections
<1>3. connections' \in Seq(ConnectionType) /\ Len(connections') = t /\ connections'[t] = k
      /\ \A u \in 1 .. Len(connections) : connections'[u] = old[u]
  BY <1>2
<1>4. (Connections)' = 1 .. t
  BY <1>3 DEF Connections
<1>5. t \in Numbers
  BY <1>2, Bounds DEF Numbers
<1>6. ClientsOK' /\ \A d \in Clients : clients'[d] =
        IF d = c THEN [clients[c] EXCEPT !.phase = "connecting", !.connection = t] ELSE clients[d]
  <2>1. clients[c] \in ClientType
    BY <1>1 DEF ClientsOK
  <2>2. [clients[c] EXCEPT !.phase = "connecting", !.connection = t] \in ClientType
    BY <1>5, <2>1 DEF ClientType
  <2>3. clients' = [clients EXCEPT ![c] = [clients[c] EXCEPT !.phase = "connecting", !.connection = t]]
    BY <1>1 DEF Attach, ClientsOK
  <2>. QED
    BY <1>1, <2>2, <2>3 DEF ClientsOK
<1>7. Attached'
  <2> SUFFICES ASSUME NEW d \in Clients, clients'[d].phase \in {"connecting", "ready"}
               PROVE  clients'[d].connection \in 1 .. t
    BY <1>4 DEF Attached
  <2>1. CASE d = c
    <3>1. clients[c] \in ClientType
      BY <1>1 DEF ClientsOK
    <3>2. clients'[d].connection = t
      BY <1>6, <2>1, <3>1 DEF ClientType
    <3>. QED
      BY <1>2, <3>2
  <2>2. CASE d # c
    BY <1>1, <1>2, <1>6, <2>2 DEF Attached
  <2>. QED
    BY <2>1, <2>2
<1>8. ConnectionsOK'
  BY <1>2, <1>3, Bounds DEF ConnectionsOK
<1>. QED
  BY <1>1, <1>2, <1>3, <1>4, <1>6, <1>7, <1>8

(* A resumed session passes to the new connection, and its holder is told. *)
LEMMA ClaimResumedStep ==
  ASSUME IInv, NEW c \in Clients, Len(connections) < MaxConnections, ClaimResumed(c),
         UNCHANGED instance
  PROVE  IInv'
<1> DEFINE t == Len(connections) + 1
<1> DEFINE s == clients[c].session
<1> DEFINE old == sessions[s]
<1> DEFINE queue == <<Frame("resumed", 0, t)>> \o After(old.journal, clients[c].cursor)
<1> DEFINE k == Connection(s, old.gen + 1, queue, ResumePoint(s))
<1> DEFINE before == [i \in Connections |->
                        IF i = old.holder THEN [connections[i] EXCEPT !.taken = TRUE] ELSE connections[i]]
<1> USE DEF IInv
<1>1. ConnectionsOK /\ StoreOK /\ OrderOK /\ ClientsOK
  BY TypeParts
<1>2. s \in Known /\ old \in SessionType /\ old.gen \in Nat /\ old.journal \in Seq(FrameType)
      /\ old.last \in Sequences /\ Len(old.journal) <= MaxEntries
  BY <1>1 DEF ClaimResumed, Resumable, StoreOK, SessionType
<1>3. Len(connections) \in Nat /\ Connections = 1 .. Len(connections) /\ s \in Connections
      /\ t \in Numbers /\ t \notin Connections /\ s \in Numbers /\ t # 0
  <2>1. Len(connections) \in Nat /\ Connections = 1 .. Len(connections)
    BY <1>1 DEF ConnectionsOK, Connections
  <2>2. s \in Connections
    BY <1>1, <1>2, <2>1 DEF StoreOK
  <2> HIDE DEF s
  <2>. QED
    BY <2>1, <2>2, Bounds DEF Numbers
<1>4. before \in Seq(ConnectionType) /\ Len(before) = Len(connections)
      /\ \A u \in Connections :
           /\ before[u].session = connections[u].session /\ before[u].gen = connections[u].gen
           /\ before[u].main = connections[u].main
           /\ before[u].taken = IF u = old.holder THEN TRUE ELSE connections[u].taken
  <2>1. \A u \in Connections :
          /\ before[u] \in ConnectionType
          /\ before[u].session = connections[u].session /\ before[u].gen = connections[u].gen
          /\ before[u].main = connections[u].main
          /\ before[u].taken = IF u = old.holder THEN TRUE ELSE connections[u].taken
    <3> SUFFICES ASSUME NEW u \in Connections
                 PROVE  /\ before[u] \in ConnectionType
                        /\ before[u].session = connections[u].session
                        /\ before[u].gen = connections[u].gen
                        /\ before[u].main = connections[u].main
                        /\ before[u].taken = IF u = old.holder THEN TRUE ELSE connections[u].taken
      OBVIOUS
    <3>1. connections[u] \in ConnectionType
      BY OneConnection
    <3>2. CASE u = old.holder
      <4>1. before[u] = [connections[u] EXCEPT !.taken = TRUE]
        BY <3>2
      <4> HIDE DEF before
      <4>. QED
        BY <3>1, <3>2, <4>1 DEF ConnectionType
    <3>3. CASE u # old.holder
      BY <3>1, <3>3
    <3>. QED
      BY <3>2, <3>3
  <2>2. before \in [1 .. Len(connections) -> ConnectionType]
    BY <1>3, <2>1
  <2>. QED
    BY <1>3, <2>1, <2>2
<1>5. queue \in Seq(FrameType)
  BY <1>2, <1>3, AfterType, FrameTypes
<1>6. k \in ConnectionType /\ k.session = s /\ k.gen = old.gen + 1 /\ ~k.taken
  BY <1>2, <1>3, <1>5, FrameTypes DEF Connection, ConnectionType, ResumePoint
<1>7. connections' = Append(before, k) /\ Attach(c, t)
  BY DEF ClaimResumed
<1> HIDE DEF before, k, queue
<1>8. /\ ConnectionsOK' /\ ClientsOK' /\ Attached' /\ (instance \in 1 .. MaxRestarts + 1)'
      /\ Len(connections') = t /\ (Connections)' = Connections \cup {t}
      /\ \A u \in Connections : connections'[u] = before[u]
      /\ connections'[t] = k
  BY <1>4, <1>6, <1>7, Joined
<1>9. /\ DOMAIN sessions' = Known
      /\ \A x \in Known : x # s => sessions'[x] = sessions[x]
      /\ sessions'[s] \in SessionType /\ sessions'[s].journal = old.journal
      /\ sessions'[s].gen = old.gen + 1 /\ sessions'[s].holder = t
  <2>1. sessions' = [sessions EXCEPT ![s] = [old EXCEPT !.gen = @ + 1, !.holder = t]]
    <3>1. sessions' = [sessions EXCEPT ![s].gen = @ + 1, ![s].holder = t]
      BY DEF ClaimResumed
    <3>. QED
      BY <1>2, <3>1 DEF Known
  <2>2. [old EXCEPT !.gen = @ + 1, !.holder = t] \in SessionType
    <3>1. old.gen + 1 \in Nat
      BY <1>2
    <3> DEFINE g == old.gen + 1
    <3> HIDE DEF old, t, g
    <3>2. [old EXCEPT !.gen = g, !.holder = t] \in SessionType
      BY <1>2, <1>3, <3>1 DEF SessionType, g
    <3>. QED
      BY <3>2 DEF g
  <2>3. /\ [old EXCEPT !.gen = @ + 1, !.holder = t].journal = old.journal
        /\ [old EXCEPT !.gen = @ + 1, !.holder = t].gen = old.gen + 1
        /\ [old EXCEPT !.gen = @ + 1, !.holder = t].holder = t
    BY <1>2 DEF SessionType
  <2>. QED
    BY <1>2, <2>1, <2>2, <2>3 DEF Known
<1>10. StoreOK'
  <2>1. Known \subseteq 1 .. t
    BY <1>1, <1>3 DEF StoreOK
  <2>. QED
    BY <1>1, <1>2, <1>8, <1>9, <2>1 DEF StoreOK, Known
<1>11. OrderOK'
  <2>1. Orders(older', Known)
    BY <1>1, <1>2, TouchOrders DEF ClaimResumed
  <2>. QED
    BY <1>9, <2>1 DEF OrderOK, Orders, Known
<1>12. TypeOK'
  BY <1>8, <1>10, <1>11, TypeParts, PTL
<1> HIDE DEF s, t
<1>13. \A u \in Connections : connections[u].gen \in Nat
  BY OneConnection DEF ConnectionType
<1>14. LeaseInv'
  <2>1. \A u \in (Connections)' : connections'[u].session \in (Connections)'
    <3>1. \A u \in Connections : connections'[u].session = connections[u].session
      BY <1>4, <1>8
    <3>2. connections'[t].session = s
      BY <1>6, <1>8
    <3>. QED
      BY <1>3, <1>8, <3>1, <3>2 DEF LeaseInv
  <2>2. \A x \in (Known)' : sessions'[x].holder # 0 =>
          /\ sessions'[x].holder \in (Connections)'
          /\ connections'[sessions'[x].holder].session = x
          /\ connections'[sessions'[x].holder].gen = sessions'[x].gen
    <3> SUFFICES ASSUME NEW x \in Known, sessions'[x].holder # 0
                 PROVE  /\ sessions'[x].holder \in (Connections)'
                        /\ connections'[sessions'[x].holder].session = x
                        /\ connections'[sessions'[x].holder].gen = sessions'[x].gen
      BY <1>9 DEF Known
    <3>1. CASE x = s
      BY <1>6, <1>8, <1>9, <3>1
    <3>2. CASE x # s
      <4> DEFINE h == sessions[x].holder
      <4>1. h # 0 /\ h \in Connections /\ connections[h].session = x
            /\ connections[h].gen = sessions[x].gen /\ sessions'[x] = sessions[x]
        BY <1>9, <3>2 DEF LeaseInv
      <4>2. connections'[h].session = connections[h].session /\ connections'[h].gen = connections[h].gen
        BY <1>4, <1>8, <4>1
      <4>. QED
        BY <1>8, <4>1, <4>2
    <3>. QED
      BY <3>1, <3>2
  <2>3. \A u \in (Connections)' : connections'[u].session \in (Known)' =>
          connections'[u].gen <= sessions'[connections'[u].session].gen
    <3> SUFFICES ASSUME NEW u \in (Connections)', connections'[u].session \in Known
                 PROVE  connections'[u].gen <= sessions'[connections'[u].session].gen
      BY <1>9 DEF Known
    <3>1. CASE u = t
      BY <1>2, <1>6, <1>8, <1>9, <3>1
    <3>2. CASE u # t
      <4>1. u \in Connections /\ connections'[u].session = connections[u].session
            /\ connections'[u].gen = connections[u].gen
        BY <1>4, <1>8, <3>2
      <4>2. connections[u].gen <= sessions[connections[u].session].gen
        BY <4>1 DEF LeaseInv
      <4>3. CASE connections[u].session = s
        BY <1>2, <1>9, <1>13, <4>1, <4>2, <4>3
      <4>4. CASE connections[u].session # s
        BY <1>9, <4>1, <4>2, <4>4
      <4>. QED
        BY <4>3, <4>4
    <3>. QED
      BY <3>1, <3>2
  <2>4. \A u \in Connections : connections[u].session = s => connections[u].gen # old.gen + 1
    <3> SUFFICES ASSUME NEW u \in Connections, connections[u].session = s
                 PROVE  connections[u].gen # old.gen + 1
      OBVIOUS
    <3>1. connections[u].gen <= old.gen
      BY <1>2 DEF LeaseInv
    <3>. QED
      BY <1>2, <1>13, <3>1
  <2>5. \A u, v \in (Connections)' :
          connections'[u].session = connections'[v].session /\ connections'[u].gen = connections'[v].gen
            => u = v
    <3>1. \A u \in Connections : connections'[u].session = connections[u].session
                                 /\ connections'[u].gen = connections[u].gen
      BY <1>4, <1>8
    <3>2. connections'[t].session = s /\ connections'[t].gen = old.gen + 1
      BY <1>6, <1>8
    <3>. QED
      BY <1>8, <2>4, <3>1, <3>2 DEF LeaseInv
  <2>. QED
    BY <2>1, <2>2, <2>3, <2>5 DEF LeaseInv
<1>15. LeaseHeld'
  <2> SUFFICES ASSUME NEW u \in (Connections)', connections'[u].main = "live", ~connections'[u].taken
               PROVE  Current(u)' /\ sessions'[connections'[u].session].holder = u
    BY DEF LeaseHeld
  <2>1. CASE u = t
    BY <1>2, <1>6, <1>8, <1>9, <2>1 DEF Current, Known
  <2>2. CASE u # t
    <3>1. u \in Connections /\ connections[u].main = "live" /\ ~connections[u].taken /\ u # old.holder
          /\ connections'[u].session = connections[u].session /\ connections'[u].gen = connections[u].gen
      BY <1>4, <1>8, <2>2
    <3>2. Current(u) /\ sessions[connections[u].session].holder = u
      BY <3>1 DEF LeaseHeld
    <3>3. connections[u].session # s
      BY <3>1, <3>2
    <3>. QED
      BY <1>9, <3>1, <3>2, <3>3 DEF Current, Known
  <2>. QED
    BY <2>1, <2>2
<1>. QED
  BY <1>8, <1>12, <1>14, <1>15

(* A new session takes the place of one that nobody holds. *)
LEMMA ClaimFreshStep ==
  ASSUME IInv, NEW c \in Clients, Len(connections) < MaxConnections, ClaimFresh(c),
         UNCHANGED instance
  PROVE  IInv'
<1> DEFINE t == Len(connections) + 1
<1> DEFINE kept == Known \ Evicted
<1> DEFINE k == Connection(t, 1, <<Frame("fresh", 0, t)>>, 0)
<1> USE DEF IInv
<1>1. ConnectionsOK /\ StoreOK /\ OrderOK /\ ClientsOK
  BY TypeParts
<1>2. Len(connections) \in Nat /\ Connections = 1 .. Len(connections)
  BY <1>1 DEF ConnectionsOK, Connections
<1>3. t \in Numbers /\ t # 0 /\ t \notin Connections /\ Connections \cup {t} = 1 .. t
  BY <1>2, Bounds DEF Numbers
<1>4. Known \subseteq Connections
  BY <1>1, <1>2 DEF StoreOK
<1>5. k \in ConnectionType /\ k.session = t /\ k.gen = 1
  <2>1. <<Frame("fresh", 0, t)>> \in Seq(FrameType) /\ <<>> \in Seq(FrameType) /\ NoFrame \in FrameType
    BY <1>3, FrameTypes
  <2> HIDE DEF t
  <2>. QED
    BY <1>3, <2>1, Bounds DEF Connection, ConnectionType
<1>6. connections' = Append(connections, k) /\ Attach(c, t)
  BY DEF ClaimFresh
<1> HIDE DEF k
<1>7. /\ ConnectionsOK' /\ ClientsOK' /\ Attached' /\ (instance \in 1 .. MaxRestarts + 1)'
      /\ Len(connections') = t /\ (Connections)' = Connections \cup {t}
      /\ \A u \in Connections : connections'[u] = connections[u]
      /\ connections'[t] = k
  <2>1. connections \in Seq(ConnectionType)
    BY <1>1 DEF ConnectionsOK
  <2>. QED
    BY <1>5, <1>6, <2>1, Joined
<1> HIDE DEF t
<1>8. /\ (Known)' = kept \cup {t}
      /\ \A x \in kept : sessions'[x] = sessions[x] /\ x # t
      /\ sessions'[t] = Session(t)
  BY <1>3, <1>4 DEF ClaimFresh, Known, t
<1>9. Session(t) \in SessionType /\ Session(t).journal = <<>> /\ Session(t).gen = 1
      /\ Session(t).holder = t
  BY <1>3, Bounds DEF Session, SessionType
<1>10. Cardinality(kept \cup {t}) <= MaxSessions
  <2>1. IsFiniteSet(Known) /\ Cardinality(Known) \in Nat
    BY <1>2, <1>4, KnownFinite
  <2>2. IsFiniteSet(kept) /\ Cardinality(kept) \in Nat /\ Cardinality(kept) <= Cardinality(Known)
        /\ (Cardinality(kept) = Cardinality(Known) => kept = Known)
    BY <2>1, FS_Subset, FS_CardinalityType
  <2>3. Cardinality(kept \cup {t}) <= Cardinality(kept) + 1 /\ Cardinality(kept \cup {t}) \in Nat
    <3>1. /\ IsFiniteSet(kept \cup {t})
          /\ Cardinality(kept \cup {t})
               = IF t \in kept THEN Cardinality(kept) ELSE Cardinality(kept) + 1
      BY <2>2, FS_AddElement
    <3>2. Cardinality(kept \cup {t}) \in Nat
      BY <3>1, FS_CardinalityType
    <3> HIDE DEF kept
    <3>. QED
      BY <2>2, <3>1, <3>2
  <2>4. Cardinality(Known) <= MaxSessions
    BY <1>1 DEF StoreOK
  <2>5. CASE Cardinality(Known) < MaxSessions
    BY <2>1, <2>2, <2>3, <2>5, Bounds
  <2>6. CASE ~ (Cardinality(Known) < MaxSessions)
    <3>1. Evicted = Idlest /\ Idlest # {} /\ Idlest \subseteq Known
      BY <2>6 DEF ClaimFresh, HasRoom, Evicted, Idlest
    <3>2. kept # Known
      BY <3>1
    <3>. QED
      BY <2>1, <2>2, <2>3, <2>4, <3>2, Bounds
  <2>. QED
    BY <2>5, <2>6
<1>11. StoreOK'
  <2>1. kept \cup {t} \subseteq 1 .. t
    BY <1>3, <1>4
  <2>2. \A x \in kept \cup {t} : sessions'[x] \in SessionType /\ Len(sessions'[x].journal) <= MaxEntries
    BY <1>1, <1>8, <1>9, Bounds DEF StoreOK
  <2>. QED
    BY <1>7, <1>8, <1>10, <2>1, <2>2 DEF StoreOK
<1>12. OrderOK'
  <2>1. Orders(Among(kept), kept) /\ t \notin kept
    BY <1>1, <1>8, AmongOrders
  <2>2. Orders(older', kept \cup {t})
    BY <2>1, YoungestOrders DEF ClaimFresh, t
  <2>. QED
    BY <1>8, <2>2 DEF OrderOK, Orders
<1>13. TypeOK'
  BY <1>7, <1>11, <1>12, TypeParts, PTL
<1> HIDE DEF kept
<1>14. kept \subseteq Known
  BY DEF kept
<1>15. LeaseInv'
  <2>1. \A u \in (Connections)' : connections'[u].session \in (Connections)'
    BY <1>5, <1>7 DEF LeaseInv
  <2>2. \A x \in (Known)' : sessions'[x].holder # 0 =>
          /\ sessions'[x].holder \in (Connections)'
          /\ connections'[sessions'[x].holder].session = x
          /\ connections'[sessions'[x].holder].gen = sessions'[x].gen
    <3> SUFFICES ASSUME NEW x \in kept \cup {t}, sessions'[x].holder # 0
                 PROVE  /\ sessions'[x].holder \in (Connections)'
                        /\ connections'[sessions'[x].holder].session = x
                        /\ connections'[sessions'[x].holder].gen = sessions'[x].gen
      BY <1>8
    <3>1. CASE x = t
      BY <1>5, <1>7, <1>8, <1>9, <3>1
    <3>2. CASE x # t
      <4>1. x \in Known /\ sessions'[x] = sessions[x]
        BY <1>8, <1>14, <3>2
      <4>. QED
        BY <1>7, <4>1 DEF LeaseInv
    <3>. QED
      BY <3>1, <3>2
  <2>3. \A u \in (Connections)' : connections'[u].session \in (Known)' =>
          connections'[u].gen <= sessions'[connections'[u].session].gen
    <3> SUFFICES ASSUME NEW u \in Connections \cup {t}, connections'[u].session \in kept \cup {t}
                 PROVE  connections'[u].gen <= sessions'[connections'[u].session].gen
      BY <1>7, <1>8
    <3>1. CASE u = t
      BY <1>5, <1>7, <1>8, <1>9, <3>1
    <3>2. CASE u # t
      <4>1. u \in Connections /\ connections'[u] = connections[u] /\ connections[u].session \in Connections
        BY <1>7, <3>2 DEF LeaseInv
      <4>2. connections[u].session \in kept
        BY <1>3, <4>1
      <4>. QED
        BY <1>8, <1>14, <4>1, <4>2 DEF LeaseInv
    <3>. QED
      BY <3>1, <3>2
  <2>4. \A u, v \in (Connections)' :
          connections'[u].session = connections'[v].session /\ connections'[u].gen = connections'[v].gen
            => u = v
    <3>1. \A u \in Connections : connections[u].session # t
      BY <1>3 DEF LeaseInv
    <3>. QED
      BY <1>5, <1>7, <3>1 DEF LeaseInv
  <2>. QED
    BY <2>1, <2>2, <2>3, <2>4 DEF LeaseInv
<1>16. LeaseHeld'
  <2> SUFFICES ASSUME NEW u \in (Connections)', connections'[u].main = "live", ~connections'[u].taken
               PROVE  Current(u)' /\ sessions'[connections'[u].session].holder = u
    BY DEF LeaseHeld
  <2>1. CASE u = t
    BY <1>5, <1>7, <1>8, <1>9, <2>1 DEF Current
  <2>2. CASE u # t
    <3>1. u \in Connections /\ connections'[u] = connections[u] /\ u # 0
      BY <1>2, <1>7, <2>2
    <3>2. Current(u) /\ sessions[connections[u].session].holder = u
      BY <3>1 DEF LeaseHeld
    <3>3. connections[u].session \in kept
      BY <3>1, <3>2 DEF Current, kept, Evicted, Idlest, Leased
    <3>. QED
      BY <1>8, <3>1, <3>2, <3>3 DEF Current
  <2>. QED
    BY <2>1, <2>2
<1>. QED
  BY <1>7, <1>13, <1>15, <1>16

(* A hello claims a session, known or fresh. *)
LEMMA ClaimStep ==
  ASSUME IInv, NEW c \in Clients, Claim(c)
  PROVE  IInv'
  BY ClaimResumedStep, ClaimFreshStep DEF Claim

(* A restart empties the store and ends every connection. *)
LEMMA RestartStep ==
  ASSUME IInv, Restart
  PROVE  IInv'
<1> USE DEF IInv
<1>1. ConnectionsOK /\ ClientsOK /\ instance \in 1 .. MaxRestarts + 1
  BY TypeParts
<1>2. Len(connections) \in Nat /\ Connections = 1 .. Len(connections)
  BY <1>1 DEF ConnectionsOK, Connections
<1>3. \A t \in Connections :
        /\ connections'[t] \in ConnectionType
        /\ connections'[t].session = connections[t].session
        /\ connections'[t].gen = connections[t].gen
        /\ connections'[t].main = "draining"
  <2> SUFFICES ASSUME NEW t \in Connections
               PROVE  /\ connections'[t] \in ConnectionType
                      /\ connections'[t].session = connections[t].session
                      /\ connections'[t].gen = connections[t].gen
                      /\ connections'[t].main = "draining"
    OBVIOUS
  <2>1. connections'[t] = [connections[t] EXCEPT !.main = "draining", !.queue = <<>>,
                             !.writer = "stopped", !.item = NoFrame, !.wire = <<>>, !.up = FALSE]
    BY DEF Restart
  <2>2. connections[t] \in ConnectionType /\ <<>> \in Seq(FrameType) /\ NoFrame \in FrameType
    BY OneConnection, FrameTypes
  <2>3. PICK k \in ConnectionType, none \in Seq(FrameType), nothing \in FrameType :
          /\ k = connections[t] /\ none = <<>> /\ nothing = NoFrame
    BY <2>2
  <2>4. connections'[t] = [k EXCEPT !.main = "draining", !.queue = none, !.writer = "stopped",
                             !.item = nothing, !.wire = none, !.up = FALSE]
    BY <2>1, <2>3
  <2>5. /\ [k EXCEPT !.main = "draining", !.queue = none, !.writer = "stopped",
              !.item = nothing, !.wire = none, !.up = FALSE] \in ConnectionType
        /\ k.session = connections[t].session /\ k.gen = connections[t].gen
    BY <2>3 DEF ConnectionType
  <2>6. connections'[t] \in ConnectionType
    BY <2>4, <2>5
  <2>. QED
    BY <2>3, <2>4, <2>6 DEF ConnectionType
<1>4. DOMAIN connections' = 1 .. Len(connections) /\ connections' \in Seq(ConnectionType)
      /\ Len(connections') = Len(connections)
  <2>1. connections' = [t \in Connections |-> connections'[t]]
    BY DEF Restart
  <2>2. connections' \in [1 .. Len(connections) -> ConnectionType]
    BY <1>2, <1>3, <2>1
  <2>. QED
    BY <1>2, <2>2
<1>5. ConnectionsOK'
  BY <1>1, <1>4 DEF ConnectionsOK
<1>6. ClientsOK' /\ \A c \in Clients : clients'[c].phase \notin {"connecting", "ready"}
  <2> DEFINE m(c) == IF clients[c].phase \in {"connecting", "ready"}
                     THEN [clients[c] EXCEPT !.phase = "lost", !.assembling = FALSE] ELSE clients[c]
  <2>1. \A c \in Clients : m(c) \in ClientType /\ m(c).phase \notin {"connecting", "ready"}
    BY <1>1 DEF ClientsOK, ClientType
  <2>2. clients' = [c \in Clients |-> m(c)]
    BY DEF Restart
  <2> HIDE DEF m
  <2>. QED
    BY <2>1, <2>2 DEF ClientsOK
<1>7. (Known)' = {} /\ older' = {} /\ instance' = instance + 1 /\ instance <= MaxRestarts
  <2>1. sessions' = <<>> /\ older' = {} /\ instance' = instance + 1 /\ instance <= MaxRestarts
    BY DEF Restart
  <2>. QED
    BY <2>1 DEF Known
<1>8. StoreOK' /\ OrderOK'
  BY <1>7, FS_EmptySet, Bounds DEF StoreOK, OrderOK
<1>9. (instance \in 1 .. MaxRestarts + 1)'
  BY <1>1, <1>7, Bounds
<1>10. TypeOK'
  BY <1>5, <1>6, <1>8, <1>9, TypeParts, PTL
<1>11. (Connections)' = Connections
  BY <1>2, <1>4 DEF Connections
<1>12. LeaseInv' /\ LeaseHeld'
  BY <1>3, <1>7, <1>11 DEF LeaseInv, LeaseHeld
<1>13. Attached'
  BY <1>6 DEF Attached
<1>. QED
  BY <1>10, <1>12, <1>13

---------------------------------------------------------------------------
(* The theorems. *)

(* Nothing is claimed at first. *)
LEMMA InvInit == Init => IInv
<1> SUFFICES ASSUME Init PROVE IInv
  OBVIOUS
<1>1. Known = {} /\ Connections = {} /\ Len(connections) = 0
  BY DEF Init, Known, Connections
<1>2. Client \in ClientType
  BY Bounds DEF Client, ClientType
<1>3. ClientsOK /\ \A c \in Clients : clients[c].phase = "lost"
  BY <1>2 DEF Init, ClientsOK, Client
<1>4. StoreOK /\ OrderOK /\ ConnectionsOK /\ instance \in 1 .. MaxRestarts + 1
  BY <1>1, FS_EmptySet, Bounds DEF Init, StoreOK, OrderOK, ConnectionsOK
<1>5. TypeOK
  BY <1>3, <1>4, TypeParts
<1>6. Attached /\ LeaseInv /\ LeaseHeld
  BY <1>1, <1>3 DEF Attached, LeaseInv, LeaseHeld
<1>. QED
  BY <1>5, <1>6 DEF IInv

(* One step per action. *)
LEMMA InvStep == IInv /\ [Next]_vars => IInv'
<1> SUFFICES ASSUME IInv, [Next]_vars PROVE IInv'
  OBVIOUS
<1>1. CASE \E s \in Known : Age(s) \/ Prune(s)
  BY <1>1, AgeStep, PruneStep
<1>2. CASE \E c \in Clients : Claim(c) \/ Lose(c) \/ Receive(c)
  BY <1>2, ClaimStep, LoseStep, ReceiveStep
<1>3. CASE \E t \in Connections : Serve(t)
  BY <1>3, IssueStep, OverloadStep, TakenOverStep, LeaveStep, ReleaseStep, TakeStep, TransmitStep,
     RecordStep, StopWriterStep DEF Serve
<1>4. CASE Restart
  BY <1>4, RestartStep
<1>5. CASE UNCHANGED vars
  <2>1. UNCHANGED <<sessions, older, connections, clients, instance>>
    BY <1>5 DEF vars
  <2>2. TypeOK'
    BY <2>1 DEF IInv, TypeOK, Known
  <2>3. Attached' /\ LeaseInv' /\ LeaseHeld'
    BY <2>1 DEF IInv, Attached, LeaseInv, LeaseHeld, Current, Known, Connections
  <2>. QED
    BY <2>2, <2>3 DEF IInv
<1>. QED
  BY <1>1, <1>2, <1>3, <1>4, <1>5 DEF Next

(* The store, every connection and every client keep their types, the store  *)
(* and each journal their budgets, and the sessions stay in an order of      *)
(* last activity, so the one make_room evicts is well defined.               *)
THEOREM ResumeTypeCorrect == Spec => []TypeOK
<1>1. IInv => TypeOK
  BY DEF IInv
<1>. QED
  BY <1>1, InvInit, InvStep, PTL DEF Spec

(* A connection that was not told it lost its lease holds it: no eviction,   *)
(* no expiry, no late teardown of an older connection takes it away.         *)
THEOREM LeaseIsHeld == Spec => []LeaseHeld
<1>1. IInv => LeaseHeld
  BY DEF IInv
<1>. QED
  BY <1>1, InvInit, InvStep, PTL DEF Spec

---------------------------------------------------------------------------
(* What is on its way to a client. *)

IsWelcome(f) == f.kind \in {"fresh", "resumed"}

(* The frame the writer is about to send, and everything on its way. *)
Sending(k) == IF k.writer = "sending" THEN <<k.item>> ELSE <<>>
Sent(k) == k.wire \o Sending(k)
Stream(k) == Sent(k) \o k.queue

(* What the client will be sent: a writer that lost its lease drops the rest. *)
Audible(k, current) == IF current THEN Stream(k) ELSE Sent(k)

(* A stream has no hole after e: a sequence beyond the next one comes behind *)
(* its predecessor.                                                          *)
Dense(T, e) ==
  \A j \in DOMAIN T : T[j].seq > e + 1 => \E i \in 1 .. j - 1 : T[i].seq = T[j].seq - 1

(* It brings the sequence n, unless that was reached. *)
Reaches(T, e, n) == n > e => \E i \in DOMAIN T : T[i].seq = n

(* Nothing sequenced comes before the Welcome, and there is one only. *)
Opens(T) ==
  \A j \in DOMAIN T : (T[j].seq # 0 => IsWelcome(T[1])) /\ (IsWelcome(T[j]) => j = 1)

(* R is T with the frame f put behind the n-th. *)
Inserted(R, T, f, n) ==
  /\ Len(R) = Len(T) + 1
  /\ \A i \in 1 .. Len(R) : R[i] = IF i <= n THEN T[i] ELSE IF i = n + 1 THEN f ELSE T[i - 1]

(* The sequences of frames are numbers. *)
LEMMA FrameFields ==
  ASSUME NEW f \in FrameType
  PROVE  f.seq \in Nat /\ f.by \in Numbers
  BY Bounds DEF FrameType

(* A frame that follows the last one it needs goes to the end. *)
LEMMA DenseAppend ==
  ASSUME NEW T \in Seq(FrameType), NEW f \in FrameType, NEW e \in Nat, Dense(T, e),
         f.seq > e + 1 => \E i \in DOMAIN T : T[i].seq = f.seq - 1
  PROVE  Dense(Append(T, f), e)
<1> DEFINE R == Append(T, f)
<1>1. Len(T) \in Nat /\ DOMAIN T = 1 .. Len(T) /\ DOMAIN R = 1 .. Len(T) + 1 /\ R[Len(T) + 1] = f
      /\ \A i \in DOMAIN T : R[i] = T[i]
  OBVIOUS
<1> HIDE DEF R
<1>2. ASSUME NEW j \in DOMAIN R, R[j].seq > e + 1
      PROVE  \E i \in 1 .. j - 1 : R[i].seq = R[j].seq - 1
  <2>1. CASE j = Len(T) + 1
    <3>1. PICK i \in DOMAIN T : T[i].seq = f.seq - 1
      BY <1>1, <1>2, <2>1
    <3>. QED
      BY <1>1, <2>1, <3>1
  <2>2. CASE j # Len(T) + 1
    <3>1. j \in DOMAIN T /\ R[j] = T[j]
      BY <1>1, <2>2
    <3>2. PICK i \in 1 .. j - 1 : T[i].seq = T[j].seq - 1
      BY <1>2, <3>1 DEF Dense
    <3>. QED
      BY <1>1, <3>1, <3>2
  <2>. QED
    BY <2>1, <2>2
<1>3. Dense(R, e)
  BY <1>2 DEF Dense
<1>. QED
  BY <1>3 DEF R

(* What is sent of a dense stream before it is cut is dense. *)
LEMMA DensePrefix ==
  ASSUME NEW A \in Seq(FrameType), NEW B \in Seq(FrameType), NEW e \in Nat, Dense(A \o B, e)
  PROVE  Dense(A, e)
<1> DEFINE T == A \o B
<1>1. /\ Len(A) \in Nat /\ DOMAIN A = 1 .. Len(A) /\ DOMAIN A \subseteq DOMAIN T
      /\ \A i \in DOMAIN A : T[i] = A[i]
  OBVIOUS
<1> HIDE DEF T
<1>2. ASSUME NEW j \in DOMAIN A, A[j].seq > e + 1
      PROVE  \E i \in 1 .. j - 1 : A[i].seq = A[j].seq - 1
  <2>1. PICK i \in 1 .. j - 1 : T[i].seq = T[j].seq - 1
    BY <1>1, <1>2 DEF Dense, T
  <2>. QED
    BY <1>1, <2>1
<1>. QED
  BY <1>2 DEF Dense

(* The first frame of a dense stream is not beyond the next one; once it is  *)
(* taken, and e advanced to it, the rest is dense, and brings what the whole *)
(* brought.                                                                  *)
LEMMA DenseTail ==
  ASSUME NEW T \in Seq(FrameType), T # <<>>, NEW e \in Nat, Dense(T, e)
  PROVE  /\ T[1].seq <= e + 1
         /\ \A d \in Nat : d >= e /\ T[1].seq <= d => Dense(Tail(T), d)
         /\ \A d, n \in Nat : d >= e /\ T[1].seq <= d /\ Reaches(T, e, n) => Reaches(Tail(T), d, n)
<1> DEFINE R == Tail(T)
<1>1. /\ Len(T) \in Nat /\ Len(T) >= 1 /\ DOMAIN T = 1 .. Len(T) /\ DOMAIN R = 1 .. Len(T) - 1
      /\ \A i \in DOMAIN R : R[i] = T[i + 1]
  OBVIOUS
<1>2. \A i \in DOMAIN T : T[i].seq \in Nat
  BY FrameFields
<1> HIDE DEF R
<1>3. T[1].seq <= e + 1
  BY <1>1, <1>2 DEF Dense
<1>4. ASSUME NEW d \in Nat, d >= e, T[1].seq <= d, NEW j \in DOMAIN R, R[j].seq > d + 1
      PROVE  \E i \in 1 .. j - 1 : R[i].seq = R[j].seq - 1
  <2>1. j + 1 \in DOMAIN T /\ R[j] = T[j + 1]
    BY <1>1
  <2>2. T[j + 1].seq > e + 1
    BY <1>2, <1>4, <2>1
  <2>3. PICK i \in 1 .. (j + 1) - 1 : T[i].seq = T[j + 1].seq - 1
    BY <2>1, <2>2 DEF Dense
  <2>4. i # 1
    BY <1>2, <1>4, <2>1, <2>3
  <2>5. i - 1 \in 1 .. j - 1 /\ i - 1 \in DOMAIN R /\ R[i - 1] = T[i]
    BY <1>1, <2>3, <2>4
  <2>. QED
    BY <2>1, <2>3, <2>5
<1>5. ASSUME NEW d \in Nat, NEW n \in Nat, d >= e, T[1].seq <= d, Reaches(T, e, n), n > d
      PROVE  \E i \in DOMAIN R : R[i].seq = n
  <2>1. PICK i \in DOMAIN T : T[i].seq = n
    BY <1>5 DEF Reaches
  <2>2. i # 1
    BY <1>5, <2>1
  <2>3. i - 1 \in DOMAIN R /\ R[i - 1] = T[i]
    BY <1>1, <2>2
  <2>. QED
    BY <2>1, <2>3
<1>6. \A d \in Nat : d >= e /\ T[1].seq <= d => Dense(R, d)
  BY <1>4 DEF Dense
<1>7. \A d, n \in Nat : d >= e /\ T[1].seq <= d /\ Reaches(T, e, n) => Reaches(R, d, n)
  BY <1>5 DEF Reaches
<1>. QED
  BY <1>3, <1>6, <1>7 DEF R

(* An unsequenced frame between the others leaves a stream dense. *)
LEMMA DenseInsert ==
  ASSUME NEW T \in Seq(FrameType), NEW R \in Seq(FrameType), NEW f \in FrameType,
         NEW n \in 0 .. Len(T), Inserted(R, T, f, n), f.seq = 0, NEW e \in Nat, Dense(T, e)
  PROVE  Dense(R, e)
<1>0. DOMAIN T = 1 .. Len(T) /\ DOMAIN R = 1 .. Len(R) /\ Len(T) \in Nat /\ Len(R) = Len(T) + 1
  BY DEF Inserted
<1>1. /\ Len(T) \in Nat /\ DOMAIN T = 1 .. Len(T) /\ DOMAIN R = 1 .. Len(T) + 1
      /\ \A i \in DOMAIN R : R[i] = IF i <= n THEN T[i] ELSE IF i = n + 1 THEN f ELSE T[i - 1]
  BY <1>0 DEF Inserted
<1>2. ASSUME NEW j \in DOMAIN R, R[j].seq > e + 1
      PROVE  \E i \in 1 .. j - 1 : R[i].seq = R[j].seq - 1
  <2>1. CASE j <= n
    <3>1. j \in DOMAIN T /\ R[j] = T[j]
      BY <1>1, <2>1
    <3>2. PICK i \in 1 .. j - 1 : T[i].seq = T[j].seq - 1
      BY <1>2, <3>1 DEF Dense
    <3>. QED
      BY <1>1, <2>1, <3>1, <3>2
  <2>2. CASE j = n + 1
    BY <1>1, <1>2, <2>2
  <2>3. CASE j > n + 1
    <3>1. j - 1 \in DOMAIN T /\ R[j] = T[j - 1]
      BY <1>1, <2>3
    <3>2. PICK i \in 1 .. (j - 1) - 1 : T[i].seq = T[j - 1].seq - 1
      BY <1>2, <3>1 DEF Dense
    <3> j \in Nat /\ i \in Nat
      BY <1>1, <3>1, <3>2
    <3>3. CASE i <= n
      <4>1. i \in 1 .. Len(T) + 1 /\ i \in 1 .. j - 1
        BY <1>0, <2>3, <3>2, <3>3
      <4>2. R[i] = T[i]
        BY <1>1, <3>3, <4>1
      <4>. QED
        BY <3>1, <3>2, <4>1, <4>2
    <3>4. CASE i > n
      <4>1. i + 1 \in 1 .. j - 1 /\ i + 1 \in DOMAIN R
        BY <1>1, <3>2, <3>4
      <4>2. R[i + 1] = T[i]
        <5>1. (i + 1) - 1 = i /\ ~(i + 1 <= n) /\ i + 1 # n + 1
          BY <3>4
        <5>. QED
          BY <1>1, <4>1, <5>1
      <4>. QED
        BY <3>1, <3>2, <4>1, <4>2
    <3>. QED
      BY <3>2, <3>3, <3>4
  <2>. QED
    BY <1>1, <2>1, <2>2, <2>3
<1>. QED
  BY <1>2 DEF Dense

(* No Welcome comes behind the first frame. *)
LEMMA OpensAppend ==
  ASSUME NEW T \in Seq(FrameType), NEW f \in FrameType, Opens(T), ~IsWelcome(f),
         f.seq # 0 => T # <<>> /\ IsWelcome(T[1])
  PROVE  Opens(Append(T, f))
<1> DEFINE R == Append(T, f)
<1>1. Len(T) \in Nat /\ DOMAIN T = 1 .. Len(T) /\ DOMAIN R = 1 .. Len(T) + 1 /\ R[Len(T) + 1] = f
      /\ \A i \in DOMAIN T : R[i] = T[i]
  OBVIOUS
<1> HIDE DEF R
<1>2. T # <<>> => 1 \in DOMAIN T
  BY <1>1
<1>3. ASSUME NEW j \in DOMAIN R
      PROVE  (R[j].seq # 0 => IsWelcome(R[1])) /\ (IsWelcome(R[j]) => j = 1)
  <2>1. CASE j \in DOMAIN T
    BY <1>1, <2>1 DEF Opens
  <2>2. CASE j = Len(T) + 1
    BY <1>1, <1>2, <2>2
  <2>. QED
    BY <1>1, <2>1, <2>2
<1>4. Opens(R)
  BY <1>3 DEF Opens
<1>. QED
  BY <1>4 DEF R

(* A stream that is cut still opens with its Welcome. *)
LEMMA OpensPrefix ==
  ASSUME NEW A \in Seq(FrameType), NEW B \in Seq(FrameType), Opens(A \o B)
  PROVE  Opens(A)
<1> DEFINE T == A \o B
<1>1. /\ Len(A) \in Nat /\ DOMAIN A = 1 .. Len(A) /\ DOMAIN A \subseteq DOMAIN T
      /\ \A i \in DOMAIN A : T[i] = A[i]
  OBVIOUS
<1> HIDE DEF T
<1>2. Opens(T)
  BY DEF T
<1>3. \A j \in DOMAIN A : 1 \in DOMAIN A
  BY <1>1
<1>. QED
  BY <1>1, <1>2, <1>3 DEF Opens

(* Nor does a Close change what a stream opens with, unless it comes first   *)
(* where there is no Welcome.                                                *)
LEMMA OpensInsert ==
  ASSUME NEW T \in Seq(FrameType), NEW R \in Seq(FrameType), NEW f \in FrameType,
         NEW n \in 0 .. Len(T), Inserted(R, T, f, n), f.seq = 0, ~IsWelcome(f), Opens(T),
         n = 0 => T = <<>> \/ ~IsWelcome(T[1])
  PROVE  Opens(R)
<1>0. DOMAIN T = 1 .. Len(T) /\ DOMAIN R = 1 .. Len(R) /\ Len(T) \in Nat /\ Len(R) = Len(T) + 1
  BY DEF Inserted
<1>1. /\ Len(T) \in Nat /\ DOMAIN T = 1 .. Len(T) /\ DOMAIN R = 1 .. Len(T) + 1
      /\ \A i \in DOMAIN R : R[i] = IF i <= n THEN T[i] ELSE IF i = n + 1 THEN f ELSE T[i - 1]
  BY <1>0 DEF Inserted
<1>2. ASSUME NEW j \in DOMAIN R
      PROVE  (R[j].seq # 0 => IsWelcome(R[1])) /\ (IsWelcome(R[j]) => j = 1)
  <2>1. CASE j <= n
    <3>1. j \in DOMAIN T /\ 1 \in DOMAIN R /\ R[j] = T[j] /\ R[1] = T[1]
      BY <1>1, <2>1
    <3>. QED
      BY <3>1 DEF Opens
  <2>2. CASE j = n + 1
    BY <1>1, <2>2
  <2>3. CASE j > n + 1
    <3>1. j - 1 \in DOMAIN T /\ R[j] = T[j - 1] /\ j \in Nat
      BY <1>1, <2>3
    <3>2. CASE n = 0
      <4>1. 1 \in DOMAIN T /\ T # <<>> /\ ~IsWelcome(T[1])
        BY <1>1, <3>1, <3>2
      <4>2. T[j - 1].seq = 0 /\ (IsWelcome(T[j - 1]) => j - 1 = 1)
        BY <3>1, <4>1 DEF Opens
      <4>. QED
        BY <3>1, <4>1, <4>2
    <3>3. CASE n # 0
      <4>1. R[1] = T[1] /\ j - 1 # 1
        BY <1>1, <2>3, <3>1, <3>3
      <4>. QED
        BY <3>1, <4>1 DEF Opens
    <3>. QED
      BY <3>2, <3>3
  <2>. QED
    BY <1>1, <2>1, <2>2, <2>3
<1>. QED
  BY <1>2 DEF Opens

(* A sequenced frame is dropped from behind the Welcome only. *)
LEMMA OpensDrop ==
  ASSUME NEW T \in Seq(FrameType), NEW R \in Seq(FrameType), NEW f \in FrameType,
         NEW n \in 0 .. Len(T), Inserted(R, T, f, n), f.seq # 0, ~IsWelcome(f), Opens(R)
  PROVE  Opens(T) /\ T # <<>> /\ IsWelcome(T[1])
<1>0. DOMAIN T = 1 .. Len(T) /\ DOMAIN R = 1 .. Len(R) /\ Len(T) \in Nat /\ Len(R) = Len(T) + 1
  BY DEF Inserted
<1>1. /\ Len(T) \in Nat /\ DOMAIN T = 1 .. Len(T) /\ DOMAIN R = 1 .. Len(T) + 1
      /\ \A i \in DOMAIN R : R[i] = IF i <= n THEN T[i] ELSE IF i = n + 1 THEN f ELSE T[i - 1]
  BY <1>0 DEF Inserted
<1>2. n + 1 \in DOMAIN R /\ R[n + 1] = f /\ 1 \in DOMAIN R
  BY <1>1
<1>3. IsWelcome(R[1])
  BY <1>2 DEF Opens
<1>4. n # 0
  BY <1>2, <1>3
<1>5. 1 \in DOMAIN T /\ R[1] = T[1]
  BY <1>1, <1>2, <1>4
<1>6. ASSUME NEW j \in DOMAIN T
      PROVE  (T[j].seq # 0 => IsWelcome(T[1])) /\ (IsWelcome(T[j]) => j = 1)
  <2>1. CASE j <= n
    <3>1. j \in DOMAIN R /\ R[j] = T[j]
      BY <1>1, <2>1
    <3>. QED
      BY <1>3, <1>5, <3>1 DEF Opens
  <2>2. CASE j > n
    <3>1. j + 1 \in DOMAIN R /\ R[j + 1] = T[j] /\ j + 1 # 1
      BY <1>1, <2>2
    <3>. QED
      BY <1>3, <1>5, <3>1 DEF Opens
  <2>. QED
    BY <1>1, <2>1, <2>2
<1>. QED
  BY <1>3, <1>5, <1>6 DEF Opens

(* The Close goes behind the Welcome or to the front. *)
LEMMA AheadInserts ==
  ASSUME NEW q \in Seq(FrameType), NEW f \in FrameType, Len(q) # Capacity
  PROVE  \E n \in 0 .. Len(q) :
           Inserted(Ahead(q, f), q, f, n) /\ (n = 0 => q = <<>> \/ ~IsWelcome(q[1]))
<1>1. ASSUME NEW n \in {0, 1}, n <= Len(q)
      PROVE  Inserted((SubSeq(q, 1, n) \o <<f>>) \o SubSeq(q, n + 1, Len(q)), q, f, n)
  <2> DEFINE A == SubSeq(q, 1, n)
  <2> DEFINE B == SubSeq(q, n + 1, Len(q))
  <2>1. A \in Seq(FrameType) /\ Len(A) = n /\ \A i \in 1 .. n : A[i] = q[i]
    BY <1>1
  <2>2. B \in Seq(FrameType) /\ Len(B) = Len(q) - n /\ \A i \in 1 .. Len(q) - n : B[i] = q[i + n]
    BY <1>1
  <2> HIDE DEF A, B
  <2>3. A \o <<f>> \in Seq(FrameType) /\ Len(A \o <<f>>) = n + 1
        /\ \A i \in 1 .. n + 1 : (A \o <<f>>)[i] = IF i <= n THEN q[i] ELSE f
    BY <2>1
  <2> DEFINE C == A \o <<f>>
  <2> HIDE DEF C
  <2>4. C \o B \in Seq(FrameType) /\ Len(C \o B) = Len(q) + 1
        /\ \A i \in 1 .. Len(q) + 1 : (C \o B)[i] = IF i <= n + 1 THEN C[i] ELSE B[i - (n + 1)]
    BY <1>1, <2>2, <2>3 DEF C
  <2> DEFINE D == C \o B
  <2> HIDE DEF D
  <2>5. ASSUME NEW i \in 1 .. Len(q) + 1
        PROVE  D[i] = IF i <= n THEN q[i] ELSE IF i = n + 1 THEN f ELSE q[i - 1]
    <3>0. n \in Nat /\ i \in Nat /\ i >= 1
      BY <1>1
    <3>1. D[i] = IF i <= n + 1 THEN C[i] ELSE B[i - (n + 1)]
      BY <2>4 DEF D
    <3>2. CASE i <= n
      BY <2>3, <3>0, <3>1, <3>2 DEF C
    <3>3. CASE i = n + 1
      BY <2>3, <3>0, <3>1, <3>3 DEF C
    <3>4. CASE i > n + 1
      <4>1. i - (n + 1) \in 1 .. Len(q) - n
        BY <1>1, <3>4
      <4>2. B[i - (n + 1)] = q[(i - (n + 1)) + n]
        BY <2>2, <4>1
      <4>3. (i - (n + 1)) + n = i - 1
        BY <3>0
      <4>. QED
        BY <3>0, <3>1, <3>4, <4>2, <4>3
    <3>. QED
      BY <3>0, <3>2, <3>3, <3>4
  <2>6. Inserted(D, q, f, n)
    BY <2>4, <2>5 DEF Inserted, D
  <2>. QED
    BY <2>6 DEF A, B, C, D
<1>2. CASE q # <<>> /\ IsWelcome(q[1])
  <2>1. 1 <= Len(q) /\ Head(q) = q[1]
    BY <1>2
  <2>2. Ahead(q, f) = (SubSeq(q, 1, 1) \o <<f>>) \o SubSeq(q, 1 + 1, Len(q))
    BY <1>2, <2>1 DEF Ahead, IsWelcome
  <2>. QED
    BY <1>1, <2>1, <2>2
<1>3. CASE ~(q # <<>> /\ IsWelcome(q[1]))
  <2>1. Ahead(q, f) = (SubSeq(q, 1, 0) \o <<f>>) \o SubSeq(q, 0 + 1, Len(q))
    <3>1. ~(q # <<>> /\ Head(q).kind \in {"fresh", "resumed"})
      BY <1>3 DEF IsWelcome
    <3>. QED
      BY <3>1, Zenon DEF Ahead
  <2>2. Inserted(Ahead(q, f), q, f, 0)
    BY <1>1, <2>1
  <2>. QED
    BY <1>3, <2>2
<1>. QED
  BY <1>2, <1>3

(* ... and so it does in the stream. *)
LEMMA PrefixInserts ==
  ASSUME NEW P \in Seq(FrameType), NEW T \in Seq(FrameType), NEW R \in Seq(FrameType),
         NEW f, NEW n \in 0 .. Len(T), Inserted(R, T, f, n)
  PROVE  Inserted(P \o R, P \o T, f, Len(P) + n) /\ Len(P) + n \in 0 .. Len(P \o T)
<1>1. /\ Len(P) \in Nat /\ Len(T) \in Nat /\ Len(R) = Len(T) + 1
      /\ \A i \in 1 .. Len(R) : R[i] = IF i <= n THEN T[i] ELSE IF i = n + 1 THEN f ELSE T[i - 1]
  BY DEF Inserted
<1>2. Len(P \o R) = Len(P) + Len(R) /\ Len(P \o T) = Len(P) + Len(T)
      /\ (\A i \in 1 .. Len(P) + Len(R) : (P \o R)[i] = IF i <= Len(P) THEN P[i] ELSE R[i - Len(P)])
      /\ (\A i \in 1 .. Len(P) + Len(T) : (P \o T)[i] = IF i <= Len(P) THEN P[i] ELSE T[i - Len(P)])
  OBVIOUS
<1> DEFINE X == P \o R
<1> DEFINE Y == P \o T
<1> HIDE DEF X, Y
<1>3. PICK p \in Nat, a \in Nat : p = Len(P) /\ a = p + n
  BY <1>1
<1>4. ASSUME NEW i \in 1 .. Len(P) + Len(R)
      PROVE  X[i] = IF i <= a THEN Y[i] ELSE IF i = a + 1 THEN f ELSE Y[i - 1]
  <2>0. i \in Nat /\ a \in Nat
    BY <1>1
  <2>1. ASSUME i <= p
        PROVE  i <= a /\ X[i] = Y[i]
    BY <1>1, <1>2, <1>3, <2>1 DEF X, Y
  <2>2. ASSUME i > p, i <= a
        PROVE  X[i] = Y[i]
    <3>1. i - p \in 1 .. Len(R) /\ i - p <= n /\ X[i] = R[i - p] /\ Y[i] = T[i - p]
      BY <1>1, <1>2, <1>3, <2>2 DEF X, Y
    <3>. QED
      BY <1>1, <3>1
  <2>3. ASSUME i = a + 1
        PROVE  X[i] = f
    <3>1. n + 1 \in 1 .. Len(R) /\ X[i] = R[n + 1]
      <4>1. i - p = n + 1 /\ i > p
        BY <1>1, <1>3, <2>3
      <4>2. X[i] = R[i - p]
        BY <1>1, <1>2, <1>3, <4>1 DEF X
      <4>. QED
        BY <1>1, <4>1, <4>2
    <3>. QED
      BY <1>1, <3>1
  <2>4. ASSUME i > a + 1
        PROVE  X[i] = Y[i - 1]
    <3>1. i - p \in 1 .. Len(R) /\ i - p > n + 1 /\ (i - 1) - p = (i - p) - 1
      BY <1>1, <1>3, <2>4
    <3>2. X[i] = R[i - p]
      BY <1>1, <1>2, <1>3, <2>4 DEF X
    <3>3. Y[i - 1] = T[(i - 1) - p]
      BY <1>1, <1>2, <1>3, <2>4 DEF Y
    <3>4. R[i - p] = T[(i - p) - 1]
      BY <1>1, <3>1
    <3>. QED
      BY <3>1, <3>2, <3>3, <3>4
  <2>5. i <= p \/ (i > p /\ i <= a) \/ i = a + 1 \/ i > a + 1
    BY <1>3, <2>0
  <2>6. i = a + 1 \/ i > a + 1 => ~(i <= a)
    BY ONLY <2>0
  <2>7. i > a + 1 => i # a + 1
    BY ONLY <2>0
  <2>. QED
    BY <2>1, <2>2, <2>3, <2>4, <2>5, <2>6, <2>7
<1>5. Len(X) = Len(P) + Len(R) /\ Len(X) = Len(Y) + 1
  BY <1>1, <1>2 DEF X, Y
<1>6. Inserted(X, Y, f, a)
  BY <1>4, <1>5 DEF Inserted
<1>7. Len(P) + n \in 0 .. Len(P \o T)
  BY <1>1, <1>2
<1>. QED
  BY <1>3, <1>6, <1>7 DEF X, Y

---------------------------------------------------------------------------
(* What every client that reads a connection can rely on. *)

Reads(c) == clients[c].phase \in {"connecting", "ready"}

(* The connection still queues frames for a writer. *)
Serving(k) == k.main = "live" /\ k.writer # "stopped"

(* The sequence the stream continues: a session the connection created       *)
(* starts over.                                                              *)
Expected(m, k) == IF m.phase = "connecting" /\ k.session = m.connection THEN 0 ELSE m.cursor

(* The stream k sends has no hole behind what the client m applied and, as   *)
(* long as k queues frames, ends with the last one; the Welcome comes first, *)
(* and only once.                                                            *)
InStep(m, k, current) ==
  /\ Dense(Audible(k, current), Expected(m, k))
  /\ current /\ Serving(k) => Reaches(Audible(k, current), Expected(m, k), k.counter)
  /\ m.phase = "ready" => \A i \in DOMAIN Stream(k) : ~IsWelcome(Stream(k)[i])
  /\ m.phase = "connecting" =>
       Opens(Stream(k)) /\ (Serving(k) => Stream(k) # <<>> /\ IsWelcome(Stream(k)[1]))

(* The frames a connection has queued, in hand and on the wire. *)
Entries(T) == {T[i] : i \in DOMAIN T}
Within(k) == Entries(k.wire) \cup {k.item} \cup Entries(k.queue)

(* A Welcome has no sequence, and says whether the session is new. *)
Plain(f, t, s) ==
  /\ IsWelcome(f) => f.seq = 0
  /\ f.kind = "fresh" => s = t
  /\ f.kind = "resumed" => s # t

FramesPlain ==
  \A t \in Connections : \A f \in Within(connections[t]) : Plain(f, t, connections[t].session)

(* No two clients read one connection. *)
ReadersApart ==
  \A c, d \in Clients :
    Reads(c) /\ Reads(d) /\ clients[c].connection = clients[d].connection => c = d

ReadersInStep ==
  \A c \in Clients : Reads(c) =>
    InStep(clients[c], connections[clients[c].connection], Current(clients[c].connection))

GapInv == FramesPlain /\ ReadersApart /\ ReadersInStep /\ NoGap

(* The types of what a connection sends. *)
LEMMA StreamTypes ==
  ASSUME NEW k \in ConnectionType
  PROVE  /\ k.wire \in Seq(FrameType) /\ k.queue \in Seq(FrameType) /\ k.item \in FrameType
         /\ Sending(k) \in Seq(FrameType) /\ Sent(k) \in Seq(FrameType)
         /\ Stream(k) \in Seq(FrameType) /\ k.counter \in Nat
         /\ \A current \in BOOLEAN : Audible(k, current) \in Seq(FrameType)
<1>1. k.wire \in Seq(FrameType) /\ k.queue \in Seq(FrameType) /\ k.item \in FrameType
      /\ k.counter \in Nat
  BY Bounds DEF ConnectionType
<1>2. Sending(k) \in Seq(FrameType)
  BY <1>1 DEF Sending
<1>3. Sent(k) \in Seq(FrameType)
  BY <1>1, <1>2 DEF Sent
<1>4. Stream(k) \in Seq(FrameType)
  BY <1>1, <1>3 DEF Stream
<1>. QED
  BY <1>1, <1>2, <1>3, <1>4 DEF Audible

(* The sequence a client expects is a number. *)
LEMMA ExpectedType ==
  ASSUME NEW m \in ClientType, NEW k
  PROVE  Expected(m, k) \in Nat /\ m.cursor \in Nat
  BY Bounds DEF Expected, ClientType

(* What a frame more or less makes of the frames of a sequence. *)
LEMMA EntriesFacts ==
  /\ Entries(<<>>) = {}
  /\ \A f : Entries(<<f>>) = {f}
  /\ \A T \in Seq(FrameType), f \in FrameType : Entries(Append(T, f)) = Entries(T) \cup {f}
  /\ \A T \in Seq(FrameType) : T # <<>> =>
       Head(T) = T[1] /\ Head(T) \in Entries(T) /\ Entries(Tail(T)) \subseteq Entries(T)
  /\ \A T \in Seq(FrameType) : Entries(T) \subseteq FrameType
<1>1. Entries(<<>>) = {} /\ \A f : Entries(<<f>>) = {f}
  BY DEF Entries
<1>2. ASSUME NEW T \in Seq(FrameType), NEW f \in FrameType
      PROVE  Entries(Append(T, f)) = Entries(T) \cup {f}
  <2> DEFINE R == Append(T, f)
  <2>1. Len(T) \in Nat /\ DOMAIN T = 1 .. Len(T) /\ DOMAIN R = 1 .. Len(T) + 1
        /\ R[Len(T) + 1] = f /\ \A i \in DOMAIN T : R[i] = T[i]
    OBVIOUS
  <2> HIDE DEF R
  <2>2. DOMAIN R = DOMAIN T \cup {Len(T) + 1}
    BY <2>1
  <2>3. Entries(R) = Entries(T) \cup {f}
    BY <2>1, <2>2 DEF Entries
  <2>. QED
    BY <2>3 DEF R
<1>3. ASSUME NEW T \in Seq(FrameType), T # <<>>
      PROVE  Head(T) = T[1] /\ Head(T) \in Entries(T) /\ Entries(Tail(T)) \subseteq Entries(T)
  <2>1. Len(T) \in Nat /\ Len(T) >= 1 /\ DOMAIN T = 1 .. Len(T) /\ Head(T) = T[1]
        /\ DOMAIN Tail(T) = 1 .. Len(T) - 1 /\ \A i \in DOMAIN Tail(T) : Tail(T)[i] = T[i + 1]
    BY <1>3
  <2> DEFINE R == Tail(T)
  <2> HIDE DEF R
  <2>2. \A i \in DOMAIN R : i + 1 \in DOMAIN T /\ R[i] = T[i + 1]
    BY <2>1 DEF R
  <2>3. Entries(R) \subseteq Entries(T)
    BY <2>2 DEF Entries
  <2>. QED
    BY <2>1, <2>3 DEF R, Entries
<1>4. \A T \in Seq(FrameType) : Entries(T) \subseteq FrameType
  BY DEF Entries
<1>. QED
  BY <1>1, <1>2, <1>3, <1>4

(* A writer that loses its lease sends less. *)
LEMMA InStepShrinks ==
  ASSUME NEW m \in ClientType, NEW k \in ConnectionType, InStep(m, k, TRUE)
  PROVE  InStep(m, k, FALSE)
<1>1. Dense(Sent(k) \o k.queue, Expected(m, k))
  BY DEF InStep, Audible, Stream
<1>2. Dense(Sent(k), Expected(m, k))
  BY <1>1, StreamTypes, ExpectedType, DensePrefix
<1>. QED
  BY <1>2 DEF InStep, Audible

(* What is the same for the client. *)
LEMMA InStepSame ==
  ASSUME NEW m, NEW k, NEW r, NEW current \in BOOLEAN,
         Audible(r, current) = Audible(k, current), Stream(r) = Stream(k),
         r.counter = k.counter, r.session = k.session, Serving(r) => Serving(k),
         InStep(m, k, current)
  PROVE  InStep(m, r, current)
<1>1. Expected(m, r) = Expected(m, k)
  BY DEF Expected
<1>. QED
  BY <1>1 DEF InStep

(* A task's step on its connection keeps every reader in step when it keeps  *)
(* the one that reads it.                                                    *)
LEMMA TaskKeepsGap ==
  ASSUME IInv, GapInv, NEW t \in Connections, NEW r \in ConnectionType,
         r.session = connections[t].session, r.gen = connections[t].gen,
         Update(t, r), UNCHANGED clients,
         DOMAIN sessions' = Known, \A x \in Known : sessions'[x].gen = sessions[x].gen,
         \A f \in Within(r) : Plain(f, t, r.session),
         \A m \in ClientType : m.connection = t /\ InStep(m, connections[t], Current(t))
                                 => InStep(m, r, Current(t))
  PROVE  GapInv'
<1>1. DOMAIN connections' = Connections
      /\ \A u \in Connections : connections'[u] = IF u = t THEN r ELSE connections[u]
  BY TypeParts, ConnectionFields DEF IInv, Update
<1>2. (Connections)' = Connections /\ (Known)' = Known
  BY <1>1 DEF Connections, Known
<1>3. \A u \in Connections : Current(u)' <=> Current(u)
  BY <1>1, <1>2 DEF Current
<1>4. FramesPlain'
  BY <1>1, <1>2 DEF GapInv, FramesPlain
<1>5. ReadersApart' /\ NoGap'
  BY DEF GapInv, ReadersApart, NoGap, Reads
<1>6. ReadersInStep'
  <2> SUFFICES ASSUME NEW c \in Clients, Reads(c)
               PROVE  InStep(clients[c], connections'[clients[c].connection], Current(clients[c].connection)')
    BY DEF ReadersInStep, Reads
  <2> DEFINE u == clients[c].connection
  <2>1. u \in Connections /\ clients[c] \in ClientType
    BY TypeParts DEF IInv, Attached, Reads, ClientsOK
  <2>2. InStep(clients[c], connections[u], Current(u))
    BY DEF GapInv, ReadersInStep
  <2>3. Current(u)' = Current(u)
    <3>1. Current(u) \in BOOLEAN /\ Current(u)' \in BOOLEAN
      BY DEF Current
    <3>. QED
      BY <1>3, <2>1, <3>1
  <2>4. InStep(clients[c], connections'[u], Current(u))
    BY <1>1, <2>1, <2>2
  <2>. QED
    BY <2>3, <2>4
<1>. QED
  BY <1>4, <1>5, <1>6 DEF GapInv

---------------------------------------------------------------------------
(* The connection's tasks keep its reader in step. *)

(* Concatenation is associative, and an end is appended to the end. *)
LEMMA Concatenation ==
  /\ \A A, B \in Seq(FrameType), f \in FrameType : A \o Append(B, f) = Append(A \o B, f)
  /\ \A A \in Seq(FrameType), f \in FrameType :
       A \o <<f>> = Append(A, f) /\ A \o <<>> = A /\ <<>> \o A = A
  /\ \A A \in Seq(FrameType), B \in Seq(FrameType) : B # <<>> =>
       (A \o <<Head(B)>>) \o Tail(B) = A \o B
  /\ \A A \in Seq(FrameType) : A # <<>> =>
       \A B \in Seq(FrameType) : A \o B # <<>> /\ (A \o B)[1] = A[1] /\ Tail(A \o B) = Tail(A) \o B
<1>1. \A A, B \in Seq(FrameType), f \in FrameType : A \o Append(B, f) = Append(A \o B, f)
  OBVIOUS
<1>2. \A A \in Seq(FrameType), f \in FrameType :
        A \o <<f>> = Append(A, f) /\ A \o <<>> = A /\ <<>> \o A = A
  OBVIOUS
<1>3. ASSUME NEW A \in Seq(FrameType), NEW B \in Seq(FrameType), B # <<>>
      PROVE  (A \o <<Head(B)>>) \o Tail(B) = A \o B
  <2>1. Head(B) \in FrameType /\ Tail(B) \in Seq(FrameType) /\ <<Head(B)>> \in Seq(FrameType)
    BY <1>3, HeadTailProperties
  <2>2. (A \o <<Head(B)>>) \o Tail(B) = A \o (<<Head(B)>> \o Tail(B))
    BY <2>1, ConcatAssociative
  <2>3. <<Head(B)>> \o Tail(B) = B
    BY <1>3
  <2>. QED
    BY <2>2, <2>3
<1>4. ASSUME NEW A \in Seq(FrameType), A # <<>>, NEW B \in Seq(FrameType)
      PROVE  A \o B # <<>> /\ (A \o B)[1] = A[1] /\ Tail(A \o B) = Tail(A) \o B
  <2>1. A \o B # <<>> /\ (A \o B)[1] = A[1]
    BY <1>4
  <2>2. Tail(A \o B) = Tail(A) \o B
    BY <1>4
  <2>. QED
    BY <2>1, <2>2
<1>. QED
  BY <1>1, <1>2, <1>3, <1>4

(* A queue that grows by a frame makes its stream grow by it. *)
LEMMA StreamAppend ==
  ASSUME NEW k \in ConnectionType, NEW r \in ConnectionType, NEW f \in FrameType,
         r.wire = k.wire, r.item = k.item, r.writer = k.writer, r.queue = Append(k.queue, f)
  PROVE  Sent(r) = Sent(k) /\ Stream(r) = Append(Stream(k), f)
<1>1. Sent(r) = Sent(k)
  BY DEF Sent, Sending
<1>2. Sent(k) \o Append(k.queue, f) = Append(Sent(k) \o k.queue, f)
  <2>1. Sent(k) \in Seq(FrameType) /\ k.queue \in Seq(FrameType)
    BY StreamTypes
  <2>. QED
    BY <2>1, Concatenation, Zenon
<1>. QED
  BY <1>1, <1>2 DEF Stream

(* The next sequence follows all that were sent. *)
LEMMA InStepIssue ==
  ASSUME NEW m \in ClientType, NEW k \in ConnectionType, NEW r \in ConnectionType,
         NEW current \in BOOLEAN, InStep(m, k, current), Serving(k),
         NEW f \in FrameType, f.seq = k.counter + 1, ~IsWelcome(f),
         r.wire = k.wire, r.item = k.item, r.writer = k.writer, r.queue = Append(k.queue, f),
         r.counter = k.counter + 1, r.session = k.session
  PROVE  InStep(m, r, current)
<1> DEFINE e == Expected(m, k)
<1>1. Expected(m, r) = e /\ e \in Nat
  BY ExpectedType DEF Expected
<1>2. k.counter \in Nat /\ Stream(k) \in Seq(FrameType)
  BY StreamTypes
<1>3. Sent(r) = Sent(k) /\ Stream(r) = Append(Stream(k), f)
  BY StreamAppend
<1> DEFINE T == Stream(k)
<1> DEFINE R == Append(T, f)
<1>4. /\ DOMAIN T \subseteq DOMAIN R /\ DOMAIN R = 1 .. Len(T) + 1 /\ R # <<>> /\ Len(T) \in Nat
      /\ R[Len(T) + 1] = f /\ \A i \in DOMAIN T : R[i] = T[i]
  BY <1>2
<1>5. Len(T) + 1 \in DOMAIN R
  BY <1>4
<1>6. DOMAIN R = DOMAIN T \cup {Len(T) + 1}
  BY <1>2, <1>4
<1>7. T # <<>> => 1 \in DOMAIN T
  BY <1>2
<1> HIDE DEF e, T, R
<1>8. Dense(Audible(r, current), e) /\ (current => Reaches(Audible(r, current), e, r.counter))
  <2>1. CASE current
    <3>1. Dense(T, e) /\ Reaches(T, e, k.counter)
      BY <2>1 DEF InStep, Audible, e, T
    <3>2. f.seq > e + 1 => \E i \in DOMAIN T : T[i].seq = f.seq - 1
      <4> SUFFICES ASSUME f.seq > e + 1
                   PROVE  \E i \in DOMAIN T : T[i].seq = f.seq - 1
        OBVIOUS
      <4>1. k.counter > e /\ f.seq - 1 = k.counter
        BY <1>1, <1>2
      <4>. QED
        BY <3>1, <4>1 DEF Reaches
    <3>3. Dense(R, e)
      BY <1>1, <1>2, <3>1, <3>2, DenseAppend DEF R, T
    <3>4. Reaches(R, e, r.counter)
      BY <1>4, <1>5 DEF Reaches
    <3>. QED
      BY <1>3, <2>1, <3>3, <3>4 DEF Audible, R, T
  <2>2. CASE ~current
    BY <1>3, <2>2 DEF InStep, Audible, e
  <2>. QED
    BY <2>1, <2>2
<1>9. m.phase = "ready" => \A i \in DOMAIN R : ~IsWelcome(R[i])
  BY <1>4, <1>6 DEF InStep, T
<1>10. m.phase = "connecting" => Opens(R) /\ R # <<>> /\ IsWelcome(R[1])
  <2> SUFFICES ASSUME m.phase = "connecting"
               PROVE  Opens(R) /\ R # <<>> /\ IsWelcome(R[1])
    OBVIOUS
  <2>1. Opens(T) /\ T # <<>> /\ IsWelcome(T[1])
    BY DEF InStep, T
  <2>2. Opens(R)
    BY <1>2, <2>1, OpensAppend DEF R, T
  <2>. QED
    BY <1>4, <1>7, <2>1, <2>2
<1>. QED
  BY <1>1, <1>3, <1>8, <1>9, <1>10 DEF InStep, R, T

(* A stream cut after A, with a Close behind it or not, when no more frames  *)
(* are queued.                                                               *)
LEMMA InStepCut ==
  ASSUME NEW m \in ClientType, NEW k \in ConnectionType, NEW r \in ConnectionType,
         NEW current \in BOOLEAN, InStep(m, k, current), ~Serving(r), r.session = k.session,
         NEW A \in Seq(FrameType), NEW B \in Seq(FrameType),
         Sent(k) = A \o B, Sent(r) = A, NEW f \in FrameType, f.seq = 0, ~IsWelcome(f),
         r.queue = <<>> \/ r.queue = <<f>>
  PROVE  InStep(m, r, current)
<1> DEFINE e == Expected(m, k)
<1>1. Expected(m, r) = e /\ e \in Nat
  BY ExpectedType DEF Expected
<1>2. k.queue \in Seq(FrameType) /\ Sent(k) \in Seq(FrameType)
  BY StreamTypes
<1> DEFINE R == Append(A, f)
<1>3. Stream(r) = A \/ Stream(r) = R
  <2>1. A \o <<>> = A /\ A \o <<f>> = R
    BY Concatenation
  <2>. QED
    BY <2>1 DEF Stream
<1>4. Audible(r, current) = A \/ Audible(r, current) = R
  BY <1>3 DEF Audible
<1>5. R \in Seq(FrameType) /\ \A i \in DOMAIN R : i \in DOMAIN A \/ R[i] = f
  OBVIOUS
<1>6. \A i \in DOMAIN A : R[i] = A[i]
  OBVIOUS
<1>7. Stream(k) = (A \o B) \o k.queue
  BY DEF Stream
<1>8. /\ A \o B \in Seq(FrameType) /\ DOMAIN A \subseteq DOMAIN Stream(k)
      /\ \A i \in DOMAIN A : Stream(k)[i] = A[i]
  <2>1. A \o B \in Seq(FrameType) /\ \A i \in DOMAIN A : i \in DOMAIN (A \o B) /\ (A \o B)[i] = A[i]
    OBVIOUS
  <2> DEFINE C == A \o B
  <2> HIDE DEF C
  <2>0. C \in Seq(FrameType)
    BY <2>1 DEF C
  <2>2. \A i \in DOMAIN C : i \in DOMAIN (C \o k.queue) /\ (C \o k.queue)[i] = C[i]
    BY <1>2, <2>0
  <2>. QED
    BY <1>7, <2>1, <2>2 DEF C
<1> HIDE DEF e, R
<1>9. Dense(A, e)
  <2>1. Dense(A \o B, e)
    <3>1. CASE current
      <4>1. Dense((A \o B) \o k.queue, e)
        BY <1>7, <3>1 DEF InStep, Audible, e
      <4>. QED
        BY <1>1, <1>2, <1>8, <4>1, DensePrefix
    <3>2. CASE ~current
      BY <3>2 DEF InStep, Audible, e
    <3>. QED
      BY <3>1, <3>2
  <2>. QED
    BY <1>1, <2>1, DensePrefix
<1>10. Dense(R, e)
  BY <1>1, <1>9, DenseAppend DEF R
<1>11. m.phase = "ready" => \A i \in DOMAIN Stream(r) : ~IsWelcome(Stream(r)[i])
  <2> SUFFICES ASSUME m.phase = "ready", NEW i \in DOMAIN Stream(r)
               PROVE  ~IsWelcome(Stream(r)[i])
    OBVIOUS
  <2>1. \A u \in DOMAIN A : ~IsWelcome(A[u])
    BY <1>8 DEF InStep
  <2>. QED
    BY <1>3, <1>5, <1>6, <2>1
<1>12. m.phase = "connecting" => Opens(Stream(r))
  <2> SUFFICES ASSUME m.phase = "connecting" PROVE Opens(Stream(r))
    OBVIOUS
  <2>1. Opens((A \o B) \o k.queue)
    BY <1>7 DEF InStep
  <2>2. Opens(A \o B)
    BY <1>2, <1>8, <2>1, OpensPrefix
  <2>3. Opens(A)
    BY <2>2, OpensPrefix
  <2>4. Opens(R)
    BY <2>3, OpensAppend DEF R
  <2>. QED
    BY <1>3, <2>3, <2>4
<1>. QED
  BY <1>1, <1>4, <1>9, <1>10, <1>11, <1>12 DEF InStep, Serving

(* A Close that overtakes the queue. *)
LEMMA InStepAhead ==
  ASSUME NEW m \in ClientType, NEW k \in ConnectionType, NEW r \in ConnectionType,
         NEW current \in BOOLEAN, InStep(m, k, current), ~Serving(r), r.session = k.session,
         r.wire = k.wire, r.item = k.item, r.writer = k.writer,
         NEW f \in FrameType, f.seq = 0, ~IsWelcome(f), r.queue = Ahead(k.queue, f),
         Len(k.queue) # Capacity
  PROVE  InStep(m, r, current)
<1> DEFINE e == Expected(m, k)
<1>1. Expected(m, r) = e /\ e \in Nat
  BY ExpectedType DEF Expected
<1>2. k.queue \in Seq(FrameType) /\ Sent(k) \in Seq(FrameType) /\ Stream(k) \in Seq(FrameType)
      /\ r.queue \in Seq(FrameType) /\ Stream(r) \in Seq(FrameType)
  BY StreamTypes
<1>3. Sent(r) = Sent(k)
  BY DEF Sent, Sending
<1> DEFINE P == Sent(k)
<1> DEFINE q == k.queue
<1> HIDE DEF P, q
<1>4. PICK i \in 0 .. Len(q) : Inserted(r.queue, q, f, i) /\ (i = 0 => q = <<>> \/ ~IsWelcome(q[1]))
  BY <1>2, AheadInserts DEF q
<1> DEFINE n == Len(P) + i
<1>5. Inserted(Stream(r), Stream(k), f, n) /\ n \in 0 .. Len(Stream(k))
  <2>1. Inserted(P \o r.queue, P \o q, f, n) /\ n \in 0 .. Len(P \o q)
    BY <1>2, <1>4, PrefixInserts DEF P, q
  <2>. QED
    BY <1>3, <2>1 DEF Stream, P, q
<1>6. n = 0 => Stream(k) = <<>> \/ ~IsWelcome(Stream(k)[1])
  <2> SUFFICES ASSUME n = 0 PROVE Stream(k) = <<>> \/ ~IsWelcome(Stream(k)[1])
    OBVIOUS
  <2>1. i = 0 /\ Len(P) = 0 /\ P = <<>>
    BY <1>2 DEF P
  <2>2. Stream(k) = q
    BY <1>2, <2>1, Concatenation DEF Stream, P, q
  <2>. QED
    BY <1>4, <2>1, <2>2
<1> HIDE DEF n, e
<1>7. Dense(Audible(r, current), e)
  <2>1. CASE current
    <3>1. Dense(Stream(k), e)
      BY <2>1 DEF InStep, Audible, e
    <3>2. Dense(Stream(r), e)
      BY <1>1, <1>2, <1>5, <3>1, DenseInsert
    <3>. QED
      BY <2>1, <3>2 DEF Audible
  <2>2. CASE ~current
    BY <1>3, <2>2 DEF InStep, Audible, e
  <2>. QED
    BY <2>1, <2>2
<1>8. m.phase = "connecting" => Opens(Stream(r))
  BY <1>2, <1>5, <1>6, OpensInsert DEF InStep
<1>9. m.phase = "ready" => \A j \in DOMAIN Stream(r) : ~IsWelcome(Stream(r)[j])
  <2> DEFINE R == Stream(r)
  <2> DEFINE T == Stream(k)
  <2> HIDE DEF R, T
  <2> SUFFICES ASSUME m.phase = "ready", NEW j \in DOMAIN R PROVE ~IsWelcome(R[j])
    BY DEF R
  <2>1. /\ R \in Seq(FrameType) /\ T \in Seq(FrameType) /\ Len(R) = Len(T) + 1
        /\ R[j] = IF j <= n THEN T[j] ELSE IF j = n + 1 THEN f ELSE T[j - 1]
    BY <1>2, <1>5 DEF Inserted, R, T
  <2>2. \A u \in 1 .. Len(T) : ~IsWelcome(T[u])
    BY <2>1 DEF InStep, T
  <2>3. j \in 1 .. Len(T) + 1 /\ n \in 0 .. Len(T)
    BY <1>5, <2>1 DEF T
  <2>4. CASE j <= n
    BY <2>1, <2>2, <2>3, <2>4
  <2>5. CASE j = n + 1
    BY <2>1, <2>3, <2>5
  <2>6. CASE j > n + 1
    <3>1. j - 1 \in 1 .. Len(T)
      BY <2>1, <2>3, <2>6
    <3>. QED
      BY <2>1, <2>2, <2>3, <2>6, <3>1
  <2>. QED
    BY <2>3, <2>4, <2>5, <2>6
<1>. QED
  BY <1>1, <1>7, <1>8, <1>9 DEF InStep, Serving

---------------------------------------------------------------------------
(* What each task makes of its connection, in the fields a stream is made of. *)

(* The connection of the task, before and after its step. *)
Steps(t, r) ==
  /\ Update(t, r)
  /\ r.session = connections[t].session /\ r.gen = connections[t].gen

(* Frames are queued, taken and dropped; nothing else changes the stream. *)
Wired(k, r) == r.wire = k.wire /\ r.item = k.item /\ r.writer = k.writer

(* Issue appends the sequence after the last one allocated. *)
LEMMA IssueShape ==
  ASSUME IInv, NEW t \in Connections, Issue(t)
  PROVE  \E r \in ConnectionType, f \in FrameType :
           LET k == connections[t] IN
           /\ Steps(t, r) /\ Wired(k, r) /\ Serving(k) /\ Serving(r) /\ Len(k.queue) < Capacity
           /\ f.seq = k.counter + 1 /\ f.by = t /\ f.kind \in {"update", "begin", "end"}
           /\ r.queue = Append(k.queue, f) /\ r.counter = k.counter + 1
<1> DEFINE k == connections[t]
<1>1. PICK step \in {[kind |-> "update", from |-> k.snap, to |-> k.snap],
                     [kind |-> "begin", from |-> "wanted", to |-> "begun"],
                     [kind |-> "end", from |-> "begun", to |-> "sent"]} :
        Update(t, [k EXCEPT !.snap = step.to, !.counter = @ + 1,
                     !.queue = Append(@, Frame(step.kind, k.counter + 1, t))])
  BY DEF Issue
<1>2. k \in ConnectionType /\ k.counter \in Nat /\ k.counter + 1 \in Sequences /\ t \in Numbers
  BY OneConnection, Bounds DEF Issue, Sequences
<1>3. step.kind \in {"update", "begin", "end"}
      /\ step.to \in {"none", "wanted", "begun", "sent"}
  BY <1>1, <1>2 DEF ConnectionType
<1> DEFINE f == Frame(step.kind, k.counter + 1, t)
<1>4. f \in FrameType /\ f.seq = k.counter + 1 /\ f.by = t /\ f.kind = step.kind
  BY <1>2, <1>3, FrameTypes DEF Frame
<1> HIDE DEF f
<1> DEFINE r == [k EXCEPT !.snap = step.to, !.counter = @ + 1, !.queue = Append(@, f)]
<1>5. /\ r \in ConnectionType /\ r.session = k.session /\ r.gen = k.gen /\ r.main = k.main
      /\ r.wire = k.wire /\ r.item = k.item /\ r.writer = k.writer
      /\ r.queue = Append(k.queue, f) /\ r.counter = k.counter + 1
  <2>1. Append(k.queue, f) \in Seq(FrameType)
    BY <1>2, <1>4 DEF ConnectionType
  <2>. QED
    BY <1>2, <1>3, <2>1 DEF ConnectionType
<1>6. Update(t, r)
  BY <1>1 DEF f
<1>7. Serving(k) /\ Len(k.queue) < Capacity
  BY DEF Issue, Serving
<1> HIDE DEF r, k
<1>. QED
  BY <1>3, <1>4, <1>5, <1>6, <1>7 DEF Steps, Wired, Serving, k

(* An overloaded connection keeps nothing queued but the Close. *)
LEMMA OverloadShape ==
  ASSUME IInv, NEW t \in Connections, Overload(t)
  PROVE  \E r \in ConnectionType, f \in FrameType :
           LET k == connections[t] IN
           /\ Steps(t, r) /\ Wired(k, r) /\ r.main = "leaving"
           /\ f = Frame("close", 0, t) /\ r.queue = <<f>> /\ r.counter = k.counter
<1> DEFINE k == connections[t]
<1> DEFINE f == Frame("close", 0, t)
<1> DEFINE r == [k EXCEPT !.queue = <<f>>, !.main = "leaving"]
<1>1. k \in ConnectionType /\ f \in FrameType /\ <<f>> \in Seq(FrameType)
  BY OneConnection, FrameTypes
<1> HIDE DEF f
<1>2. /\ r \in ConnectionType /\ r.session = k.session /\ r.gen = k.gen /\ r.main = "leaving"
      /\ r.wire = k.wire /\ r.item = k.item /\ r.writer = k.writer
      /\ r.queue = <<f>> /\ r.counter = k.counter
  BY <1>1 DEF ConnectionType
<1>3. Update(t, r)
  BY DEF Overload, f
<1> HIDE DEF r, k
<1>. QED
  BY <1>1, <1>2, <1>3 DEF Steps, Wired, k, f

(* A takeover puts a Close ahead of the queue. *)
LEMMA TakenOverShape ==
  ASSUME IInv, NEW t \in Connections, TakenOver(t)
  PROVE  \E r \in ConnectionType, f \in FrameType :
           LET k == connections[t] IN
           /\ Steps(t, r) /\ Wired(k, r) /\ r.main = "leaving"
           /\ f = Frame("close", 0, t) /\ r.queue = Ahead(k.queue, f) /\ r.counter = k.counter
<1> DEFINE k == connections[t]
<1> DEFINE f == Frame("close", 0, t)
<1> DEFINE q == Ahead(k.queue, f)
<1> DEFINE r == [k EXCEPT !.queue = q, !.main = "leaving"]
<1>1. k \in ConnectionType /\ f \in FrameType /\ k.queue \in Seq(FrameType)
  BY OneConnection, FrameTypes
<1> HIDE DEF f
<1>2. q \in Seq(FrameType)
  BY <1>1, AheadType
<1> HIDE DEF q
<1>3. /\ r \in ConnectionType /\ r.session = k.session /\ r.gen = k.gen /\ r.main = "leaving"
      /\ r.wire = k.wire /\ r.item = k.item /\ r.writer = k.writer
      /\ r.queue = q /\ r.counter = k.counter
  BY <1>1, <1>2 DEF ConnectionType
<1>4. Update(t, r)
  BY DEF TakenOver, f, q
<1> HIDE DEF r, k
<1>. QED
  BY <1>1, <1>3, <1>4 DEF Steps, Wired, k, f, q

(* The loop ends, or the lease is released. *)
LEMMA MainShape ==
  ASSUME IInv, NEW t \in Connections, Leave(t) \/ Release(t)
  PROVE  \E r \in ConnectionType :
           LET k == connections[t] IN
           /\ Steps(t, r) /\ Wired(k, r) /\ r.main # "live" /\ r.queue = k.queue
           /\ r.counter = k.counter
<1> DEFINE k == connections[t]
<1>1. k \in ConnectionType
  BY OneConnection
<1>2. PICK x \in {"leaving", "draining"} : Update(t, [k EXCEPT !.main = x])
  BY DEF Leave, Release
<1> DEFINE r == [k EXCEPT !.main = x]
<1>3. /\ r \in ConnectionType /\ r.session = k.session /\ r.gen = k.gen /\ r.main = x
      /\ r.wire = k.wire /\ r.item = k.item /\ r.writer = k.writer
      /\ r.queue = k.queue /\ r.counter = k.counter
  BY <1>1 DEF ConnectionType
<1>4. Update(t, r)
  BY <1>2
<1> HIDE DEF r, k
<1>. QED
  BY <1>3, <1>4 DEF Steps, Wired, k

(* Take passes the head of the queue to the writer, or drops it. *)
LEMMA TakeShape ==
  ASSUME IInv, NEW t \in Connections, Take(t)
  PROVE  \E r \in ConnectionType :
           LET k == connections[t]
               h == Head(k.queue) IN
           /\ Steps(t, r) /\ k.writer = "idle" /\ k.queue # <<>> /\ r.wire = k.wire
           /\ r.queue = Tail(k.queue) /\ r.counter = k.counter /\ r.main = k.main
           /\ \/ h.seq # 0 /\ ~Current(t) /\ r.writer = "idle" /\ r.item = k.item
              \/ (h.seq = 0 \/ Current(t)) /\ r.writer = "sending" /\ r.item = h
<1> DEFINE k == connections[t]
<1> DEFINE h == Head(k.queue)
<1>1. k \in ConnectionType /\ k.queue \in Seq(FrameType) /\ k.queue # <<>> /\ k.writer = "idle"
  BY OneConnection DEF Take
<1>2. h \in FrameType /\ Tail(k.queue) \in Seq(FrameType)
  BY <1>1
<1>3. CASE h.seq # 0 /\ ~Current(t) /\ Update(t, [k EXCEPT !.queue = Tail(@)])
  <2> DEFINE r == [k EXCEPT !.queue = Tail(@)]
  <2>1. /\ r \in ConnectionType /\ r.session = k.session /\ r.gen = k.gen /\ r.main = k.main
        /\ r.wire = k.wire /\ r.item = k.item /\ r.writer = "idle"
        /\ r.queue = Tail(k.queue) /\ r.counter = k.counter
    BY <1>1, <1>2 DEF ConnectionType
  <2>2. Update(t, r)
    BY <1>3
  <2> HIDE DEF r, k, h
  <2>. QED
    BY <1>1, <1>3, <2>1, <2>2 DEF Steps, k, h
<1>4. CASE /\ h.seq = 0 \/ Current(t)
           /\ Update(t, [k EXCEPT !.queue = Tail(@), !.item = h, !.writer = "sending"])
  <2> DEFINE r == [k EXCEPT !.queue = Tail(@), !.item = h, !.writer = "sending"]
  <2>1. /\ r \in ConnectionType /\ r.session = k.session /\ r.gen = k.gen /\ r.main = k.main
        /\ r.wire = k.wire /\ r.item = h /\ r.writer = "sending"
        /\ r.queue = Tail(k.queue) /\ r.counter = k.counter
    <3> HIDE DEF h
    <3>. QED
      BY <1>1, <1>2 DEF ConnectionType
  <2>2. Update(t, r)
    BY <1>4
  <2> HIDE DEF r, k, h
  <2>. QED
    BY <1>1, <1>4, <2>1, <2>2 DEF Steps, k, h
<1>. QED
  BY <1>3, <1>4 DEF Take

(* Transmit puts the frame in hand on the wire. *)
LEMMA TransmitShape ==
  ASSUME IInv, NEW t \in Connections, Transmit(t)
  PROVE  \E r \in ConnectionType :
           LET k == connections[t] IN
           /\ Steps(t, r) /\ k.writer = "sending" /\ r.writer = "sent"
           /\ r.wire = Append(k.wire, k.item) /\ r.item = k.item
           /\ r.queue = k.queue /\ r.counter = k.counter /\ r.main = k.main
<1> DEFINE k == connections[t]
<1> DEFINE w == Append(k.wire, k.item)
<1> DEFINE r == [k EXCEPT !.wire = w, !.writer = "sent"]
<1>1. k \in ConnectionType /\ w \in Seq(FrameType)
  BY OneConnection
<1> HIDE DEF w
<1>2. /\ r \in ConnectionType /\ r.session = k.session /\ r.gen = k.gen /\ r.main = k.main
      /\ r.wire = w /\ r.item = k.item /\ r.writer = "sent"
      /\ r.queue = k.queue /\ r.counter = k.counter
  BY <1>1 DEF ConnectionType
<1>3. Update(t, r) /\ k.writer = "sending"
  BY DEF Transmit, w
<1> HIDE DEF r, k
<1>. QED
  BY <1>2, <1>3 DEF Steps, k, w

(* Record lets go of the frame in hand. *)
LEMMA RecordShape ==
  ASSUME IInv, NEW t \in Connections, Record(t)
  PROVE  \E r \in ConnectionType :
           LET k == connections[t] IN
           /\ Steps(t, r) /\ k.writer = "sent" /\ r.writer \in {"idle", "stopped"}
           /\ r.wire = k.wire /\ r.item = NoFrame
           /\ r.queue = k.queue /\ r.counter = k.counter /\ r.main = k.main
<1> DEFINE k == connections[t]
<1>1. k \in ConnectionType /\ NoFrame \in FrameType
  BY OneConnection, FrameTypes
<1>2. PICK x \in {"idle", "stopped"} : Update(t, [k EXCEPT !.item = NoFrame, !.writer = x])
  BY DEF Record
<1> DEFINE r == [k EXCEPT !.item = NoFrame, !.writer = x]
<1>3. /\ r \in ConnectionType /\ r.session = k.session /\ r.gen = k.gen /\ r.main = k.main
      /\ r.wire = k.wire /\ r.item = NoFrame /\ r.writer = x
      /\ r.queue = k.queue /\ r.counter = k.counter
  BY <1>1 DEF ConnectionType
<1>4. Update(t, r) /\ k.writer = "sent"
  BY <1>2 DEF Record
<1> HIDE DEF r, k
<1>. QED
  BY <1>3, <1>4 DEF Steps, k

(* A stopped writer has nothing in hand, and nothing is queued for it. *)
LEMMA StopWriterShape ==
  ASSUME IInv, NEW t \in Connections, StopWriter(t)
  PROVE  \E r \in ConnectionType :
           LET k == connections[t] IN
           /\ Steps(t, r) /\ r.writer = "stopped" /\ r.wire = k.wire /\ r.item = NoFrame
           /\ r.queue = <<>> /\ r.counter = k.counter
<1> DEFINE k == connections[t]
<1> DEFINE r == [k EXCEPT !.writer = "stopped", !.item = NoFrame, !.queue = <<>>]
<1>1. k \in ConnectionType /\ NoFrame \in FrameType /\ <<>> \in Seq(FrameType)
  BY OneConnection, FrameTypes
<1>2. /\ r \in ConnectionType /\ r.session = k.session /\ r.gen = k.gen /\ r.writer = "stopped"
      /\ r.wire = k.wire /\ r.item = NoFrame /\ r.queue = <<>> /\ r.counter = k.counter
  BY <1>1 DEF ConnectionType
<1>3. Update(t, r)
  BY DEF StopWriter
<1> HIDE DEF r, k
<1>. QED
  BY <1>2, <1>3 DEF Steps, k

---------------------------------------------------------------------------
(* No task of a connection brings its reader out of step. *)

(* The tasks leave every session's generation alone, and every client. *)
LEMMA TaskStore ==
  ASSUME IInv, NEW t \in Connections, Serve(t)
  PROVE  /\ UNCHANGED clients /\ DOMAIN sessions' = Known
         /\ \A x \in Known : sessions'[x].gen = sessions[x].gen
<1>1. StoreOK
  BY TypeParts DEF IInv
<1>2. CASE Release(t)
  <2>1. \A x \in Known : sessions[x] \in SessionType
    BY <1>1 DEF StoreOK
  <2>. QED
    BY <1>2, <2>1 DEF Release, Released, Known, SessionType
<1>3. CASE Record(t)
  <2>1. connections[t].item \in FrameType
    BY OneConnection
  <2>2. sessions' = sessions
        \/ sessions' = Recorded(connections[t].session, connections[t].gen, connections[t].item)
    BY <1>3 DEF Record
  <2>. QED
    BY <1>1, <1>3, <2>1, <2>2, RecordedFacts DEF Record, Known
<1>4. CASE ~Release(t) /\ ~Record(t)
  <2>1. UNCHANGED <<sessions, clients>>
    BY <1>4 DEF Serve, Issue, Overload, TakenOver, Leave, Take, Transmit, StopWriter
  <2>. QED
    BY <2>1 DEF Known
<1>. QED
  BY <1>2, <1>3, <1>4 DEF Release, Record

(* A task's step that brings no Welcome, and keeps the one reader in step. *)
LEMMA TaskGap ==
  ASSUME IInv, GapInv, NEW t \in Connections, Serve(t), NEW r \in ConnectionType, Steps(t, r),
         NEW f, ~IsWelcome(f), Within(r) \subseteq Within(connections[t]) \cup {f},
         \A m \in ClientType : InStep(m, connections[t], Current(t)) => InStep(m, r, Current(t))
  PROVE  GapInv'
<1>1. \A g \in Within(r) : Plain(g, t, r.session)
  BY DEF GapInv, FramesPlain, Plain, IsWelcome, Steps
<1>. QED
  BY <1>1, TaskStore, TaskKeepsGap DEF Steps

(* The frames other than a Welcome that the actions make. *)
LEMMA NoWelcome ==
  /\ ~IsWelcome(NoFrame) /\ NoFrame.seq = 0
  /\ \A t : ~IsWelcome(Frame("close", 0, t)) /\ Frame("close", 0, t).seq = 0
  BY DEF IsWelcome, NoFrame, Frame

(* Whether a connection has its lease is true or false. *)
LEMMA CurrentBoolean == \A t : Current(t) \in BOOLEAN
  BY DEF Current

(* The frame that is issued follows the last one on the stream. *)
LEMMA IssueGap ==
  ASSUME IInv, GapInv, NEW t \in Connections, Issue(t)
  PROVE  GapInv'
<1> DEFINE k == connections[t]
<1>1. PICK r \in ConnectionType, f \in FrameType :
        /\ Steps(t, r) /\ Wired(k, r) /\ Serving(k) /\ Serving(r) /\ Len(k.queue) < Capacity
        /\ f.seq = k.counter + 1 /\ f.by = t /\ f.kind \in {"update", "begin", "end"}
        /\ r.queue = Append(k.queue, f) /\ r.counter = k.counter + 1
  BY IssueShape
<1>2. k \in ConnectionType /\ ~IsWelcome(f)
  BY <1>1, OneConnection DEF IsWelcome
<1>3. Within(r) \subseteq Within(k) \cup {f}
  BY <1>1, <1>2, StreamTypes, EntriesFacts DEF Within, Wired
<1>4. \A m \in ClientType : InStep(m, k, Current(t)) => InStep(m, r, Current(t))
  BY <1>1, <1>2, CurrentBoolean, InStepIssue DEF Wired, Steps
<1>. QED
  BY <1>1, <1>2, <1>3, <1>4, TaskGap DEF Serve

(* What is dropped for the Close is an end of the stream. *)
LEMMA OverloadGap ==
  ASSUME IInv, GapInv, NEW t \in Connections, Overload(t)
  PROVE  GapInv'
<1> DEFINE k == connections[t]
<1>1. PICK r \in ConnectionType, f \in FrameType :
        /\ Steps(t, r) /\ Wired(k, r) /\ r.main = "leaving"
        /\ f = Frame("close", 0, t) /\ r.queue = <<f>> /\ r.counter = k.counter
  BY OverloadShape
<1>2. k \in ConnectionType /\ ~IsWelcome(f) /\ f.seq = 0 /\ ~Serving(r)
  BY <1>1, OneConnection, NoWelcome DEF Serving
<1>3. Within(r) \subseteq Within(k) \cup {f}
  BY <1>1, <1>2, StreamTypes, EntriesFacts DEF Within, Wired
<1>4. Sent(r) = Sent(k) /\ Sent(k) \in Seq(FrameType) /\ <<>> \in Seq(FrameType)
      /\ Sent(k) = Sent(k) \o <<>>
  BY <1>1, <1>2, StreamTypes, Concatenation DEF Sent, Sending, Wired
<1>5. \A m \in ClientType : InStep(m, k, Current(t)) => InStep(m, r, Current(t))
  BY <1>1, <1>2, <1>4, CurrentBoolean, InStepCut DEF Steps
<1>. QED
  BY <1>1, <1>2, <1>3, <1>5, TaskGap DEF Serve

(* What an insertion adds to the frames of a sequence. *)
LEMMA InsertedEntries ==
  ASSUME NEW T \in Seq(FrameType), NEW R \in Seq(FrameType), NEW f, NEW n \in 0 .. Len(T),
         Inserted(R, T, f, n)
  PROVE  Entries(R) \subseteq Entries(T) \cup {f}
<1>1. Len(T) \in Nat /\ DOMAIN T = 1 .. Len(T) /\ DOMAIN R = 1 .. Len(T) + 1
      /\ \A i \in DOMAIN R : R[i] = IF i <= n THEN T[i] ELSE IF i = n + 1 THEN f ELSE T[i - 1]
  <2>1. Len(T) \in Nat /\ DOMAIN T = 1 .. Len(T) /\ DOMAIN R = 1 .. Len(R) /\ Len(R) = Len(T) + 1
    BY DEF Inserted
  <2>. QED
    BY <2>1 DEF Inserted
<1>2. ASSUME NEW i \in DOMAIN R
      PROVE  R[i] \in Entries(T) \cup {f}
  <2>1. CASE i <= n
    <3>1. i \in DOMAIN T
      BY <1>1, <2>1
    <3>. QED
      BY <1>1, <2>1, <3>1 DEF Entries
  <2>2. CASE ~(i <= n) /\ i = n + 1
    BY <1>1, <2>2
  <2>3. CASE ~(i <= n) /\ i # n + 1
    <3>1. i - 1 \in DOMAIN T
      BY <1>1, <2>3
    <3>. QED
      BY <1>1, <2>3, <3>1 DEF Entries
  <2>. QED
    BY <2>1, <2>2, <2>3
<1>. QED
  BY <1>2 DEF Entries

(* A Close among the frames leaves their sequences dense. *)
LEMMA TakenOverGap ==
  ASSUME IInv, GapInv, NEW t \in Connections, TakenOver(t)
  PROVE  GapInv'
<1> DEFINE k == connections[t]
<1>1. PICK r \in ConnectionType, f \in FrameType :
        /\ Steps(t, r) /\ Wired(k, r) /\ r.main = "leaving"
        /\ f = Frame("close", 0, t) /\ r.queue = Ahead(k.queue, f) /\ r.counter = k.counter
  BY TakenOverShape
<1>2. k \in ConnectionType /\ ~IsWelcome(f) /\ f.seq = 0 /\ ~Serving(r) /\ k.queue \in Seq(FrameType)
      /\ r.queue \in Seq(FrameType)
  BY <1>1, OneConnection, NoWelcome, StreamTypes DEF Serving
<1>3. CASE Len(k.queue) = Capacity
  <2>1. r.queue = k.queue
    BY <1>1, <1>3 DEF Ahead
  <2>2. Sent(r) = Sent(k) /\ Stream(r) = Stream(k) /\ Within(r) = Within(k)
    BY <1>1, <2>1 DEF Sent, Sending, Stream, Within, Wired
  <2>3. \A m \in ClientType : InStep(m, k, Current(t)) => InStep(m, r, Current(t))
    BY <1>1, <1>2, <2>2, CurrentBoolean, InStepSame DEF Steps, Audible
  <2>. QED
    BY <1>1, <1>2, <2>2, <2>3, TaskGap DEF Serve
<1>4. CASE Len(k.queue) # Capacity
  <2>1. Entries(r.queue) \subseteq Entries(k.queue) \cup {f}
    BY <1>1, <1>2, <1>4, AheadInserts, InsertedEntries
  <2>2. Within(r) \subseteq Within(k) \cup {f}
    BY <1>1, <2>1 DEF Within, Wired
  <2>3. \A m \in ClientType : InStep(m, k, Current(t)) => InStep(m, r, Current(t))
    BY <1>1, <1>2, <1>4, CurrentBoolean, InStepAhead DEF Steps, Wired
  <2>. QED
    BY <1>1, <1>2, <2>2, <2>3, TaskGap DEF Serve
<1>. QED
  BY <1>3, <1>4

(* A loop that ends, ends the promise to queue what follows. *)
LEMMA MainGap ==
  ASSUME IInv, GapInv, NEW t \in Connections, Leave(t) \/ Release(t)
  PROVE  GapInv'
<1> DEFINE k == connections[t]
<1>1. PICK r \in ConnectionType :
        /\ Steps(t, r) /\ Wired(k, r) /\ r.main # "live" /\ r.queue = k.queue
        /\ r.counter = k.counter
  BY MainShape
<1>2. Sent(r) = Sent(k) /\ Stream(r) = Stream(k) /\ Within(r) = Within(k) /\ ~Serving(r)
  BY <1>1 DEF Sent, Sending, Stream, Within, Wired, Serving
<1>3. \A m \in ClientType : InStep(m, k, Current(t)) => InStep(m, r, Current(t))
  BY <1>1, <1>2, CurrentBoolean, InStepSame DEF Steps, Audible
<1>. QED
  BY <1>1, <1>2, <1>3, NoWelcome, TaskGap DEF Serve

(* The frame in hand was on the stream already. *)
LEMMA TransmitGap ==
  ASSUME IInv, GapInv, NEW t \in Connections, Transmit(t)
  PROVE  GapInv'
<1> DEFINE k == connections[t]
<1>1. PICK r \in ConnectionType :
        /\ Steps(t, r) /\ k.writer = "sending" /\ r.writer = "sent"
        /\ r.wire = Append(k.wire, k.item) /\ r.item = k.item
        /\ r.queue = k.queue /\ r.counter = k.counter /\ r.main = k.main
  BY TransmitShape
<1>2. k \in ConnectionType /\ k.wire \in Seq(FrameType) /\ k.item \in FrameType
  BY OneConnection
<1>3. Sent(r) = Sent(k) /\ Stream(r) = Stream(k)
  <2>1. Sent(k) = Append(k.wire, k.item)
    BY <1>1, <1>2, Concatenation DEF Sent, Sending
  <2>2. Append(k.wire, k.item) \in Seq(FrameType)
    BY <1>2
  <2>3. Sent(r) = Append(k.wire, k.item)
    BY <1>1, <2>2, Concatenation DEF Sent, Sending
  <2>. QED
    BY <1>1, <2>1, <2>3 DEF Stream
<1>4. Within(r) \subseteq Within(k) \cup {NoFrame} /\ (Serving(r) => Serving(k))
  BY <1>1, <1>2, EntriesFacts DEF Within, Serving
<1>5. \A m \in ClientType : InStep(m, k, Current(t)) => InStep(m, r, Current(t))
  BY <1>1, <1>3, <1>4, CurrentBoolean, InStepSame DEF Steps, Audible
<1>. QED
  BY <1>1, <1>4, <1>5, NoWelcome, TaskGap DEF Serve

(* A frame that was transmitted is no longer in hand, but on the wire. *)
LEMMA RecordGap ==
  ASSUME IInv, GapInv, NEW t \in Connections, Record(t)
  PROVE  GapInv'
<1> DEFINE k == connections[t]
<1>1. PICK r \in ConnectionType :
        /\ Steps(t, r) /\ k.writer = "sent" /\ r.writer \in {"idle", "stopped"}
        /\ r.wire = k.wire /\ r.item = NoFrame
        /\ r.queue = k.queue /\ r.counter = k.counter /\ r.main = k.main
  BY RecordShape
<1>2. Sent(r) = Sent(k) /\ Stream(r) = Stream(k) /\ Within(r) \subseteq Within(k) \cup {NoFrame}
      /\ (Serving(r) => Serving(k))
  BY <1>1 DEF Sent, Sending, Stream, Within, Serving
<1>3. \A m \in ClientType : InStep(m, k, Current(t)) => InStep(m, r, Current(t))
  BY <1>1, <1>2, CurrentBoolean, InStepSame DEF Steps, Audible
<1>. QED
  BY <1>1, <1>2, <1>3, NoWelcome, TaskGap DEF Serve

(* A writer that stops cuts the stream behind the wire. *)
LEMMA StopWriterGap ==
  ASSUME IInv, GapInv, NEW t \in Connections, StopWriter(t)
  PROVE  GapInv'
<1> DEFINE k == connections[t]
<1>1. PICK r \in ConnectionType :
        /\ Steps(t, r) /\ r.writer = "stopped" /\ r.wire = k.wire /\ r.item = NoFrame
        /\ r.queue = <<>> /\ r.counter = k.counter
  BY StopWriterShape
<1>2. k \in ConnectionType /\ k.wire \in Seq(FrameType) /\ Sending(k) \in Seq(FrameType)
      /\ NoFrame \in FrameType
  BY OneConnection, StreamTypes, FrameTypes
<1>3. Within(r) \subseteq Within(k) \cup {NoFrame} /\ ~Serving(r)
  BY <1>1, EntriesFacts DEF Within, Serving
<1>4. Sent(k) = k.wire \o Sending(k) /\ Sent(r) = k.wire
  <2>1. k.wire \o <<>> = k.wire
    BY <1>2, Concatenation
  <2>. QED
    BY <1>1, <2>1 DEF Sent, Sending
<1>5. \A m \in ClientType : InStep(m, k, Current(t)) => InStep(m, r, Current(t))
  <2> SUFFICES ASSUME NEW m \in ClientType, InStep(m, k, Current(t)) PROVE InStep(m, r, Current(t))
    OBVIOUS
  <2>1. r.session = k.session /\ Current(t) \in BOOLEAN /\ NoFrame.seq = 0 /\ ~IsWelcome(NoFrame)
        /\ r.queue = <<>>
    BY <1>1, CurrentBoolean, NoWelcome DEF Steps
  <2> DEFINE A == k.wire
  <2> DEFINE B == Sending(k)
  <2>2. A \in Seq(FrameType) /\ B \in Seq(FrameType) /\ Sent(k) = A \o B /\ Sent(r) = A
    BY <1>2, <1>4
  <2> HIDE DEF k, A, B
  <2>. QED
    BY <1>2, <1>3, <2>1, <2>2, InStepCut
<1>. QED
  BY <1>1, <1>3, <1>5, NoWelcome, TaskGap DEF Serve

(* A writer that lost its lease drops a sequenced frame from behind the      *)
(* Welcome.                                                                  *)
LEMMA InStepDrop ==
  ASSUME NEW m \in ClientType, NEW k \in ConnectionType, NEW r \in ConnectionType,
         InStep(m, k, FALSE), k.queue # <<>>, Head(k.queue).seq # 0, ~IsWelcome(Head(k.queue)),
         r.queue = Tail(k.queue), Sent(r) = Sent(k), r.session = k.session,
         Serving(r) => Serving(k)
  PROVE  InStep(m, r, FALSE)
<1> DEFINE q == k.queue
<1> DEFINE P == Sent(k)
<1>1. P \in Seq(FrameType) /\ q \in Seq(FrameType) /\ Tail(q) \in Seq(FrameType)
      /\ Head(q) \in FrameType /\ Stream(r) \in Seq(FrameType) /\ Stream(k) \in Seq(FrameType)
  BY StreamTypes
<1>2. Inserted(q, Tail(q), Head(q), 0) /\ 0 \in 0 .. Len(Tail(q))
  <2>1. Len(q) \in Nat /\ Len(q) >= 1 /\ Head(q) = q[1] /\ Len(Tail(q)) = Len(q) - 1
        /\ \A i \in 1 .. Len(q) - 1 : Tail(q)[i] = q[i + 1]
    BY <1>1
  <2> DEFINE R == Tail(q)
  <2> HIDE DEF R, q
  <2>2. ASSUME NEW i \in 1 .. Len(q)
        PROVE  q[i] = IF i <= 0 THEN R[i] ELSE IF i = 0 + 1 THEN Head(q) ELSE R[i - 1]
    <3>1. CASE i = 1
      BY <2>1, <3>1
    <3>2. CASE i # 1
      <4>1. i - 1 \in 1 .. Len(q) - 1 /\ (i - 1) + 1 = i
        BY <2>1, <3>2
      <4>. QED
        BY <2>1, <3>2, <4>1 DEF R
    <3>. QED
      BY <3>1, <3>2
  <2>. QED
    BY <2>1, <2>2 DEF Inserted, R
<1> DEFINE n == Len(P) + 0
<1>3. Inserted(Stream(k), Stream(r), Head(q), n) /\ n \in 0 .. Len(Stream(r))
  <2>1. Inserted(P \o q, P \o Tail(q), Head(q), n) /\ n \in 0 .. Len(P \o Tail(q))
    BY <1>1, <1>2, PrefixInserts
  <2>. QED
    BY <2>1 DEF Stream
<1> HIDE DEF n, q, P
<1>4. Expected(m, r) = Expected(m, k) /\ Audible(r, FALSE) = Audible(k, FALSE)
  BY DEF Expected, Audible
<1>5. m.phase = "connecting" => Opens(Stream(r)) /\ Stream(r) # <<>> /\ IsWelcome(Stream(r)[1])
  BY <1>1, <1>3, OpensDrop DEF InStep, q
<1>6. m.phase = "ready" => \A i \in DOMAIN Stream(r) : ~IsWelcome(Stream(r)[i])
  <2> DEFINE R == Stream(k)
  <2> DEFINE T == Stream(r)
  <2> HIDE DEF R, T
  <2> SUFFICES ASSUME m.phase = "ready", NEW i \in DOMAIN T PROVE ~IsWelcome(T[i])
    BY DEF T
  <2>1. /\ R \in Seq(FrameType) /\ T \in Seq(FrameType) /\ Len(R) = Len(T) + 1
        /\ \A u \in 1 .. Len(R) : R[u] = IF u <= n THEN T[u] ELSE IF u = n + 1 THEN Head(q) ELSE T[u - 1]
    BY <1>1, <1>3 DEF Inserted, R, T
  <2>2. \A u \in 1 .. Len(R) : ~IsWelcome(R[u])
    <3>1. \A u \in DOMAIN R : ~IsWelcome(R[u])
      BY DEF InStep, R
    <3>2. DOMAIN R = 1 .. Len(R)
      BY <2>1
    <3>. QED
      BY <3>1, <3>2
  <2>3. i \in 1 .. Len(T) /\ n \in 0 .. Len(T) /\ Len(T) \in Nat
    BY <1>3, <2>1 DEF T
  <2>4. CASE i <= n
    <3>1. i \in 1 .. Len(R) /\ R[i] = T[i]
      BY <2>1, <2>3, <2>4
    <3>. QED
      BY <2>2, <3>1
  <2>5. CASE i > n
    <3>1. i + 1 \in 1 .. Len(R) /\ (i + 1) - 1 = i /\ ~(i + 1 <= n) /\ i + 1 # n + 1
      BY <2>1, <2>3, <2>5
    <3>2. R[i + 1] = T[i]
      BY <2>1, <3>1
    <3>. QED
      BY <2>2, <3>1, <3>2
  <2>. QED
    BY <2>3, <2>4, <2>5
<1>. QED
  BY <1>4, <1>5, <1>6 DEF InStep

(* What the writer takes stays on the stream; what it drops was not audible. *)
LEMMA TakeGap ==
  ASSUME IInv, GapInv, NEW t \in Connections, Take(t)
  PROVE  GapInv'
<1> DEFINE k == connections[t]
<1> DEFINE h == Head(k.queue)
<1>1. PICK r \in ConnectionType :
        /\ Steps(t, r) /\ k.writer = "idle" /\ k.queue # <<>> /\ r.wire = k.wire
        /\ r.queue = Tail(k.queue) /\ r.counter = k.counter /\ r.main = k.main
        /\ \/ h.seq # 0 /\ ~Current(t) /\ r.writer = "idle" /\ r.item = k.item
           \/ (h.seq = 0 \/ Current(t)) /\ r.writer = "sending" /\ r.item = h
  BY TakeShape
<1>2. k \in ConnectionType /\ k.queue \in Seq(FrameType) /\ k.wire \in Seq(FrameType)
      /\ h \in FrameType /\ Tail(k.queue) \in Seq(FrameType)
  BY <1>1, OneConnection
<1>3. h \in Within(k) /\ Entries(Tail(k.queue)) \subseteq Entries(k.queue)
  BY <1>1, <1>2, EntriesFacts DEF Within
<1>4. Within(r) \subseteq Within(k) \cup {NoFrame}
  BY <1>1, <1>3 DEF Within
<1>5. Sent(k) = k.wire /\ Stream(k) = k.wire \o k.queue
  <2>1. k.wire \o <<>> = k.wire
    BY <1>2, Concatenation
  <2>. QED
    BY <1>1, <2>1 DEF Sent, Sending, Stream
<1>6. Serving(r) => Serving(k)
  BY <1>1 DEF Serving
<1>7. ASSUME NEW m \in ClientType, InStep(m, k, Current(t))
      PROVE  InStep(m, r, Current(t))
  <2>1. CASE h.seq # 0 /\ ~Current(t) /\ r.writer = "idle"
    <3>1. ~IsWelcome(h)
      BY <1>3, <2>1 DEF GapInv, FramesPlain, Plain
    <3>2. Sent(r) = Sent(k)
      BY <1>1, <2>1 DEF Sent, Sending
    <3>3. InStep(m, k, FALSE) /\ r.session = k.session
      BY <1>1, <1>7, <2>1 DEF InStep, Audible, Steps
    <3> HIDE DEF k, h
    <3>4. InStep(m, r, FALSE)
      BY <1>1, <1>2, <1>6, <2>1, <3>1, <3>2, <3>3, InStepDrop DEF h
    <3>. QED
      BY <2>1, <3>4 DEF InStep, Audible
  <2>2. CASE (h.seq = 0 \/ Current(t)) /\ r.writer = "sending" /\ r.item = h
    <3>1. Sent(r) = Append(k.wire, h) /\ Stream(r) = Stream(k)
      <4>1. Sent(r) = k.wire \o <<h>>
        BY <1>1, <2>2 DEF Sent, Sending
      <4>2. (k.wire \o <<h>>) \o Tail(k.queue) = k.wire \o k.queue /\ k.wire \o <<h>> = Append(k.wire, h)
        BY <1>1, <1>2, Concatenation
      <4>. QED
        BY <1>1, <1>5, <4>1, <4>2 DEF Stream
    <3>2. CASE Current(t)
      <4>1. Audible(r, Current(t)) = Audible(k, Current(t)) /\ r.session = k.session
        BY <1>1, <3>1, <3>2 DEF Audible, Steps
      <4> HIDE DEF k, h
      <4>. QED
        BY <1>1, <1>6, <1>7, <3>1, <4>1, CurrentBoolean, InStepSame
    <3>3. CASE ~Current(t)
      <4> DEFINE e == Expected(m, k)
      <4>1. e \in Nat /\ Expected(m, r) = e
        BY <1>1, ExpectedType DEF Expected, Steps
      <4>2. Dense(k.wire, e)
        BY <1>5, <1>7, <3>3 DEF InStep, Audible
      <4>3. h.seq = 0
        BY <2>2, <3>3
      <4> HIDE DEF e, h, k
      <4>4. Dense(Append(k.wire, h), e)
        BY <1>2, <4>1, <4>2, <4>3, DenseAppend
      <4>5. Audible(r, Current(t)) = Append(k.wire, h)
        BY <3>1, <3>3 DEF Audible
      <4>. QED
        BY <1>6, <1>7, <3>1, <3>3, <4>1, <4>4, <4>5 DEF InStep
    <3>. QED
      BY <3>2, <3>3
  <2>. QED
    BY <1>1, <2>1, <2>2
<1>. QED
  BY <1>1, <1>4, <1>7, NoWelcome, TaskGap DEF Serve

---------------------------------------------------------------------------
(* The clients keep in step. *)

(* A client's own step. *)
LEMMA ReaderGap ==
  ASSUME IInv, GapInv, NEW c \in Clients, Reads(c), NEW t, t = clients[c].connection,
         NEW r \in ConnectionType, r.session = connections[t].session, r.gen = connections[t].gen,
         connections' = [connections EXCEPT ![t] = r], Within(r) \subseteq Within(connections[t]),
         NEW m \in ClientType, m.connection = t, ~m.gap, clients' = [clients EXCEPT ![c] = m],
         UNCHANGED sessions,
         m.phase \in {"connecting", "ready"} => InStep(m, r, Current(t))
  PROVE  GapInv'
<1>0. t \in Connections /\ ClientsOK
  BY TypeParts DEF IInv, Attached, Reads
<1>1. DOMAIN connections' = Connections
      /\ \A u \in Connections : connections'[u] = IF u = t THEN r ELSE connections[u]
  BY <1>0, TypeParts, ConnectionFields DEF IInv
<1>2. (Connections)' = Connections /\ (Known)' = Known
  BY <1>1 DEF Connections, Known
<1>3. \A u \in Connections : Current(u)' <=> Current(u)
  BY <1>1, <1>2 DEF Current
<1>4. FramesPlain'
  BY <1>1, <1>2 DEF GapInv, FramesPlain
<1>5. \A d \in Clients : clients'[d] = IF d = c THEN m ELSE clients[d]
  BY <1>0 DEF ClientsOK
<1>6. ReadersApart' /\ NoGap'
  BY <1>5 DEF GapInv, ReadersApart, NoGap, Reads
<1>7. ReadersInStep'
  <2> SUFFICES ASSUME NEW d \in Clients, clients'[d].phase \in {"connecting", "ready"},
                      NEW u, u = clients'[d].connection
               PROVE  InStep(clients'[d], connections'[u], Current(u)')
    BY DEF ReadersInStep, Reads, Current
  <2>1. u \in Connections /\ (d = c => u = t) /\ (d # c => Reads(d) /\ u = clients[d].connection)
    BY <1>0, <1>5 DEF IInv, Attached, Reads
  <2>2. Current(u)' = Current(u)
    <3>1. Current(u) \in BOOLEAN /\ Current(u)' \in BOOLEAN
      BY DEF Current
    <3>. QED
      BY <1>3, <2>1, <3>1
  <2>3. InStep(clients'[d], connections'[u], Current(u))
    <3>1. CASE d = c
      BY <1>1, <1>5, <2>1, <3>1
    <3>2. CASE d # c
      <4>1. u # t
        BY <2>1, <3>2 DEF GapInv, ReadersApart
      <4>2. InStep(clients[d], connections[u], Current(u))
        BY <2>1, <3>2 DEF GapInv, ReadersInStep
      <4>. QED
        BY <1>1, <1>5, <2>1, <3>2, <4>1, <4>2
    <3>. QED
      BY <3>1, <3>2
  <2>. QED
    BY <2>2, <2>3
<1>. QED
  BY <1>4, <1>6, <1>7 DEF GapInv

(* A client that lost its transport reads nothing. *)
LEMMA LoseGap ==
  ASSUME IInv, GapInv, NEW c \in Clients, Lose(c)
  PROVE  GapInv'
<1> DEFINE t == clients[c].connection
<1> DEFINE k == connections[t]
<1> DEFINE r == [k EXCEPT !.up = FALSE, !.wire = <<>>]
<1> DEFINE m == [clients[c] EXCEPT !.phase = "lost", !.assembling = FALSE]
<1>1. Reads(c) /\ t \in Connections /\ clients[c] \in ClientType
  BY TypeParts DEF IInv, Attached, Lose, Reads, ClientsOK
<1>2. k \in ConnectionType /\ r \in ConnectionType /\ connections' = [connections EXCEPT ![t] = r]
  BY <1>1, OneConnection, DetachedFacts DEF Lose
<1>3. r.session = k.session /\ r.gen = k.gen /\ r.wire = <<>> /\ r.item = k.item /\ r.queue = k.queue
  BY <1>2 DEF ConnectionType
<1>4. m \in ClientType /\ m.connection = t /\ m.gap = clients[c].gap /\ m.phase = "lost"
  BY <1>1 DEF ClientType
<1>5. clients' = [clients EXCEPT ![c] = m] /\ UNCHANGED sessions /\ ~clients[c].gap
  BY DEF Lose, GapInv, NoGap
<1> HIDE DEF r, m
<1>6. Within(r) \subseteq Within(k)
  BY <1>3, EntriesFacts DEF Within
<1>. QED
  BY <1>1, <1>2, <1>3, <1>4, <1>5, <1>6, ReaderGap

(* The wire, taken by one frame. *)
LEMMA WireTail ==
  ASSUME NEW k \in ConnectionType, NEW r \in ConnectionType, k.wire # <<>>,
         r.wire = Tail(k.wire), r.item = k.item, r.writer = k.writer, r.queue = k.queue
  PROVE  /\ Stream(k) # <<>> /\ Stream(k)[1] = Head(k.wire) /\ Stream(r) = Tail(Stream(k))
         /\ Within(r) \subseteq Within(k) /\ Head(k.wire) \in Within(k) /\ Head(k.wire) \in FrameType
         /\ \A current \in BOOLEAN :
              /\ Audible(k, current) \in Seq(FrameType) /\ Audible(k, current) # <<>>
              /\ Audible(k, current)[1] = Head(k.wire)
              /\ Audible(r, current) = Tail(Audible(k, current))
<1>1. k.wire \in Seq(FrameType) /\ Sending(k) \in Seq(FrameType) /\ k.queue \in Seq(FrameType)
      /\ Sent(k) \in Seq(FrameType) /\ Head(k.wire) = k.wire[1] /\ Head(k.wire) \in FrameType
  BY StreamTypes
<1>2. Sending(r) = Sending(k)
  BY DEF Sending
<1>3. Sent(k) # <<>> /\ Sent(k)[1] = Head(k.wire) /\ Sent(r) = Tail(Sent(k))
  <2>1. (k.wire \o Sending(k)) # <<>> /\ (k.wire \o Sending(k))[1] = k.wire[1]
        /\ Tail(k.wire \o Sending(k)) = Tail(k.wire) \o Sending(k)
    BY <1>1, Concatenation
  <2>. QED
    BY <1>1, <1>2, <2>1 DEF Sent
<1>4. Stream(k) # <<>> /\ Stream(k)[1] = Head(k.wire) /\ Stream(r) = Tail(Stream(k))
  <2>1. (Sent(k) \o k.queue) # <<>> /\ (Sent(k) \o k.queue)[1] = Sent(k)[1]
        /\ Tail(Sent(k) \o k.queue) = Tail(Sent(k)) \o k.queue
    BY <1>1, <1>3, Concatenation
  <2>. QED
    BY <1>3, <2>1 DEF Stream
<1>5. Within(r) \subseteq Within(k) /\ Head(k.wire) \in Within(k)
  BY <1>1, EntriesFacts DEF Within
<1>. QED
  BY <1>1, <1>3, <1>4, <1>5, StreamTypes DEF Audible

(* What a tail holds. *)
LEMMA TailEntries ==
  ASSUME NEW T \in Seq(FrameType), T # <<>>
  PROVE  /\ 1 \in DOMAIN T /\ DOMAIN Tail(T) = 1 .. Len(T) - 1 /\ Len(T) \in Nat
         /\ \A i \in DOMAIN Tail(T) : i + 1 \in DOMAIN T /\ i + 1 # 1 /\ Tail(T)[i] = T[i + 1]
<1>1. Len(T) \in Nat /\ Len(T) >= 1 /\ DOMAIN T = 1 .. Len(T) /\ DOMAIN Tail(T) = 1 .. Len(T) - 1
      /\ \A i \in 1 .. Len(T) - 1 : Tail(T)[i] = T[i + 1]
  OBVIOUS
<1>2. \A i \in 1 .. Len(T) - 1 : i + 1 \in 1 .. Len(T) /\ i + 1 # 1
  BY <1>1
<1>. QED
  BY <1>1, <1>2

(* The Welcome starts a fresh session over, and leaves a resumed one's cursor. *)
LEMMA InStepWelcome ==
  ASSUME NEW m \in ClientType, NEW k \in ConnectionType, NEW r \in ConnectionType,
         NEW current \in BOOLEAN, m.phase \in {"connecting", "ready"}, InStep(m, k, current),
         NEW f, IsWelcome(f), Plain(f, m.connection, k.session),
         Stream(k) # <<>>, Stream(k)[1] = f, Stream(r) = Tail(Stream(k)),
         Audible(k, current) # <<>>, Audible(k, current)[1] = f,
         Audible(r, current) = Tail(Audible(k, current)),
         r.counter = k.counter, r.session = k.session, Serving(r) => Serving(k),
         NEW n \in ClientType, n.phase = "ready", n.cursor = IF f.kind = "fresh" THEN 0 ELSE m.cursor
  PROVE  InStep(n, r, current)
<1> DEFINE e == Expected(m, k)
<1>1. Stream(k) \in Seq(FrameType) /\ Audible(k, current) \in Seq(FrameType) /\ k.counter \in Nat
  BY StreamTypes
<1>2. m.phase = "connecting"
  BY <1>1, TailEntries DEF InStep
<1>3. Expected(n, r) = e /\ e \in Nat /\ f.seq = 0
  BY <1>2, ExpectedType DEF Expected, Plain, IsWelcome
<1> HIDE DEF e
<1>4. Dense(Audible(k, current), e)
      /\ (current /\ Serving(k) => Reaches(Audible(k, current), e, k.counter))
  BY DEF InStep, e
<1>5. Dense(Audible(r, current), e)
      /\ (current /\ Serving(k) => Reaches(Audible(r, current), e, k.counter))
  <2>1. e >= e /\ Audible(k, current)[1].seq <= e
    BY <1>3
  <2>. QED
    BY <1>1, <1>3, <1>4, <2>1, DenseTail
<1>6. \A i \in DOMAIN Stream(r) : ~IsWelcome(Stream(r)[i])
  <2>1. \A i \in DOMAIN Stream(k) : IsWelcome(Stream(k)[i]) => i = 1
    BY <1>2 DEF InStep, Opens
  <2>. QED
    BY <1>1, <2>1, TailEntries
<1>. QED
  BY <1>3, <1>5, <1>6 DEF InStep

(* A sequenced frame is the next one or an earlier one. *)
LEMMA InStepNext ==
  ASSUME NEW m \in ClientType, NEW k \in ConnectionType, NEW r \in ConnectionType,
         NEW current \in BOOLEAN, m.phase \in {"connecting", "ready"}, InStep(m, k, current),
         NEW f \in FrameType, ~IsWelcome(f), f.seq # 0,
         Stream(k) # <<>>, Stream(k)[1] = f, Stream(r) = Tail(Stream(k)),
         Audible(k, current) # <<>>, Audible(k, current)[1] = f,
         Audible(r, current) = Tail(Audible(k, current)),
         r.counter = k.counter, r.session = k.session, Serving(r) => Serving(k)
  PROVE  /\ m.phase = "ready" /\ f.seq <= m.cursor + 1
         /\ \A n \in ClientType :
              /\ n.phase = "ready"
              /\ n.cursor = IF f.seq = m.cursor + 1 THEN f.seq ELSE m.cursor
              => InStep(n, r, current)
<1>1. Stream(k) \in Seq(FrameType) /\ Audible(k, current) \in Seq(FrameType) /\ k.counter \in Nat
      /\ f.seq \in Nat /\ m.cursor \in Nat
  BY StreamTypes, FrameFields, ExpectedType
<1>2. m.phase = "ready" /\ Expected(m, k) = m.cursor
  BY <1>1, TailEntries DEF InStep, Opens, Expected
<1>3. Dense(Audible(k, current), m.cursor)
      /\ (current /\ Serving(k) => Reaches(Audible(k, current), m.cursor, k.counter))
  BY <1>2 DEF InStep
<1>4. f.seq <= m.cursor + 1
  BY <1>1, <1>3, DenseTail
<1>5. ASSUME NEW n \in ClientType, n.phase = "ready",
             n.cursor = IF f.seq = m.cursor + 1 THEN f.seq ELSE m.cursor
      PROVE  InStep(n, r, current)
  <2>1. n.cursor >= m.cursor /\ f.seq <= n.cursor /\ n.cursor \in Nat /\ Expected(n, r) = n.cursor
    BY <1>1, <1>4, <1>5 DEF Expected
  <2>2. Dense(Audible(r, current), n.cursor)
        /\ (current /\ Serving(k) => Reaches(Audible(r, current), n.cursor, k.counter))
    BY <1>1, <1>3, <2>1, DenseTail
  <2>3. \A i \in DOMAIN Stream(r) : ~IsWelcome(Stream(r)[i])
    <3>1. \A i \in DOMAIN Stream(k) : ~IsWelcome(Stream(k)[i])
      BY <1>2 DEF InStep
    <3>. QED
      BY <1>1, <3>1, TailEntries
  <2>. QED
    BY <1>5, <2>1, <2>2, <2>3 DEF InStep
<1>. QED
  BY <1>2, <1>4, <1>5

(* The next frame on the wire is the Welcome, a Close, or in sequence. *)
LEMMA ReceiveGap ==
  ASSUME IInv, GapInv, NEW c \in Clients, Receive(c)
  PROVE  GapInv'
<1> DEFINE m == clients[c]
<1> DEFINE t == m.connection
<1> DEFINE k == connections[t]
<1> DEFINE f == Head(k.wire)
<1>1. Reads(c) /\ t \in Connections /\ m \in ClientType /\ k.wire # <<>> /\ ~m.gap
      /\ instance \in Nat /\ m.phase \in {"connecting", "ready"}
  BY TypeParts, Bounds DEF IInv, Attached, Receive, Reads, ClientsOK, GapInv, NoGap
<1>2. k \in ConnectionType /\ k.wire \in Seq(FrameType) /\ f \in FrameType
      /\ Tail(k.wire) \in Seq(FrameType) /\ UNCHANGED sessions
  <2>1. k \in ConnectionType /\ k.wire \in Seq(FrameType)
    BY <1>1, OneConnection
  <2>2. \A w \in Seq(FrameType) : w # <<>> => Head(w) \in FrameType /\ Tail(w) \in Seq(FrameType)
    OBVIOUS
  <2>3. UNCHANGED sessions
    BY DEF Receive
  <2>. QED
    BY <1>1, <2>1, <2>2, <2>3
<1>3. InStep(m, k, Current(t)) /\ Current(t) \in BOOLEAN
  BY <1>1, CurrentBoolean DEF GapInv, ReadersInStep
<1>4. f \in Within(k)
  BY <1>1, <1>2, EntriesFacts DEF Within
<1>5. Plain(f, t, k.session)
  BY <1>1, <1>4 DEF GapInv, FramesPlain
<1>6. CASE /\ f.kind \in {"fresh", "resumed"}
           /\ clients' = [clients EXCEPT ![c] = ApplyWelcome(m, k, f)]
           /\ connections' = [connections EXCEPT ![t].wire = Tail(@),
                                ![t].snap = IF Listing THEN "wanted" ELSE @]
  <2> DEFINE r == [k EXCEPT !.wire = Tail(@), !.snap = IF Listing THEN "wanted" ELSE @]
  <2> DEFINE n == ApplyWelcome(m, k, f)
  <2>1. /\ r \in ConnectionType /\ r.session = k.session /\ r.gen = k.gen /\ r.main = k.main
        /\ r.counter = k.counter /\ r.wire = Tail(k.wire) /\ r.item = k.item /\ r.writer = k.writer
        /\ r.queue = k.queue
    BY <1>2 DEF ConnectionType
  <2>2. connections' = [connections EXCEPT ![t] = r]
    BY <1>1, <1>6 DEF Connections
  <2>3. n \in ClientType
    BY <1>1, <1>2, ApplyTypes
  <2>4. n.connection = t /\ n.gap = m.gap /\ n.phase = "ready"
        /\ n.cursor = IF f.kind = "fresh" THEN 0 ELSE m.cursor
    BY <1>1 DEF ApplyWelcome, ClientType
  <2>5. IsWelcome(f) /\ (Serving(r) => Serving(k)) /\ clients' = [clients EXCEPT ![c] = n]
    BY <1>6, <2>1 DEF IsWelcome, Serving
  <2> HIDE DEF r, n, f, k
  <2>6. /\ Stream(k) # <<>> /\ Stream(k)[1] = f /\ Stream(r) = Tail(Stream(k))
        /\ Within(r) \subseteq Within(k) /\ Audible(k, Current(t)) # <<>>
        /\ Audible(k, Current(t))[1] = f /\ Audible(r, Current(t)) = Tail(Audible(k, Current(t)))
    BY <1>1, <1>2, <1>3, <2>1, WireTail DEF f
  <2>7. InStep(n, r, Current(t))
    BY <1>1, <1>2, <1>3, <1>5, <2>1, <2>3, <2>4, <2>5, <2>6, InStepWelcome
  <2>. QED
    BY <1>1, <1>2, <2>1, <2>2, <2>3, <2>4, <2>5, <2>6, <2>7, ReaderGap DEF k
<1>7. CASE /\ f.kind = "close"
           /\ clients' = [clients EXCEPT ![c].phase = "lost", ![c].assembling = FALSE]
           /\ connections' = Detached(t)
  <2> DEFINE r == [k EXCEPT !.up = FALSE, !.wire = <<>>]
  <2> DEFINE n == [m EXCEPT !.phase = "lost", !.assembling = FALSE]
  <2>1. /\ r \in ConnectionType /\ connections' = [connections EXCEPT ![t] = r]
    BY <1>1, <1>7, DetachedFacts
  <2>2. r.session = k.session /\ r.gen = k.gen /\ r.wire = <<>> /\ r.item = k.item
        /\ r.queue = k.queue
    BY <1>2 DEF ConnectionType
  <2>3. n \in ClientType /\ n.phase = "lost" /\ n.connection = t /\ n.gap = m.gap
    BY <1>1 DEF ClientType
  <2>4. clients' = [clients EXCEPT ![c] = n]
    BY <1>1, <1>7
  <2>5. Within(r) \subseteq Within(k)
    BY <2>2, EntriesFacts DEF Within
  <2> HIDE DEF r, n
  <2>. QED
    BY <1>1, <1>2, <2>1, <2>2, <2>3, <2>4, <2>5, ReaderGap
<1>8. CASE /\ f.seq # 0
           /\ clients' = [clients EXCEPT ![c] =
                IF f.seq = m.cursor + 1 THEN ApplySequenced(m, f)
                ELSE [m EXCEPT !.gap = @ \/ f.seq > m.cursor + 1]]
           /\ connections' = [connections EXCEPT ![t].wire = Tail(@)]
  <2> DEFINE r == [k EXCEPT !.wire = Tail(@)]
  <2> DEFINE n == IF f.seq = m.cursor + 1 THEN ApplySequenced(m, f)
                  ELSE [m EXCEPT !.gap = @ \/ f.seq > m.cursor + 1]
  <2>1. /\ r \in ConnectionType /\ r.session = k.session /\ r.gen = k.gen /\ r.main = k.main
        /\ r.counter = k.counter /\ r.wire = Tail(k.wire) /\ r.item = k.item /\ r.writer = k.writer
        /\ r.queue = k.queue
    BY <1>2 DEF ConnectionType
  <2>2. connections' = [connections EXCEPT ![t] = r] /\ clients' = [clients EXCEPT ![c] = n]
    BY <1>1, <1>8 DEF Connections
  <2>3. ~IsWelcome(f) /\ (Serving(r) => Serving(k))
    BY <1>5, <1>8, <2>1 DEF Plain, Serving
  <2> HIDE DEF r, n, f, k
  <2>4. /\ Stream(k) # <<>> /\ Stream(k)[1] = f /\ Stream(r) = Tail(Stream(k))
        /\ Within(r) \subseteq Within(k) /\ Audible(k, Current(t)) # <<>>
        /\ Audible(k, Current(t))[1] = f /\ Audible(r, Current(t)) = Tail(Audible(k, Current(t)))
    BY <1>1, <1>2, <1>3, <2>1, WireTail DEF f
  <2>5. /\ m.phase = "ready" /\ f.seq <= m.cursor + 1
        /\ \A x \in ClientType :
             /\ x.phase = "ready"
             /\ x.cursor = IF f.seq = m.cursor + 1 THEN f.seq ELSE m.cursor
             => InStep(x, r, Current(t))
    BY <1>1, <1>2, <1>3, <1>8, <2>1, <2>3, <2>4, InStepNext
  <2>6. f.seq \in Nat /\ m.cursor \in Nat
    BY <1>1, <1>2, FrameFields, ExpectedType
  <2>7. /\ n \in ClientType /\ n.connection = t /\ ~n.gap
        /\ n.phase = "failed" \/
             (n.phase = "ready" /\ n.cursor = IF f.seq = m.cursor + 1 THEN f.seq ELSE m.cursor)
    <3>1. CASE f.seq = m.cursor + 1
      <4>1. n = ApplySequenced(m, f) /\ n \in ClientType /\ n.connection = m.connection
        BY <1>1, <1>2, <3>1, ApplyTypes DEF n
      <4>2. CASE f.kind = "end" /\ ~m.assembling
        <5>1. n = [m EXCEPT !.phase = "failed"]
          BY <4>1, <4>2 DEF ApplySequenced
        <5>. QED
          BY <1>1, <4>1, <5>1 DEF ClientType
      <4>3. CASE ~(f.kind = "end" /\ ~m.assembling)
        <5>1. PICK a : n = [m EXCEPT !.cursor = f.seq, !.by = f.by, !.assembling = a]
          BY <4>1, <4>3 DEF ApplySequenced
        <5>2. n.phase = m.phase /\ n.cursor = f.seq /\ n.gap = m.gap
          BY <1>1, <5>1 DEF ClientType
        <5>. QED
          BY <1>1, <2>5, <3>1, <4>1, <5>2
      <4>. QED
        BY <4>2, <4>3
    <3>2. CASE f.seq # m.cursor + 1
      <4>1. n = [m EXCEPT !.gap = @ \/ f.seq > m.cursor + 1] /\ n \in ClientType
        BY <1>1, <1>2, <3>2, ApplyTypes DEF n
      <4>2. ~(f.seq > m.cursor + 1)
        BY <2>5, <2>6
      <4> DEFINE g == m.gap \/ f.seq > m.cursor + 1
      <4>3. ~g
        BY <1>1, <4>2
      <4>4. n = [m EXCEPT !.gap = g]
        BY <4>1
      <4> HIDE DEF g
      <4>5. n.phase = m.phase /\ n.cursor = m.cursor /\ n.gap = g /\ n.connection = t
        BY <1>1, <4>4 DEF ClientType
      <4>. QED
        BY <2>5, <3>2, <4>1, <4>3, <4>5
    <3>. QED
      BY <3>1, <3>2
  <2>. QED
    BY <1>1, <1>2, <2>1, <2>2, <2>4, <2>5, <2>7, ReaderGap DEF k
<1>. QED
  BY <1>6, <1>7, <1>8 DEF Receive

---------------------------------------------------------------------------
(* The store's steps, and the connections they leave alone. *)

(* The same connection, but for what it was told of a takeover. *)
Alike(k, r) ==
  /\ Wired(k, r) /\ r.queue = k.queue /\ r.counter = k.counter /\ r.main = k.main
  /\ r.session = k.session /\ r.gen = k.gen

(* What is recorded is one frame more at most, and one frame less. *)
LEMMA RecordedJournal ==
  ASSUME StoreOK, NEW s, NEW gen, NEW frame \in FrameType
  PROVE  \A x \in Known :
           LET old == sessions[x]
               new == Recorded(s, gen, frame)[x] IN
           \/ /\ ~(x = s /\ old.gen = gen /\ frame.seq > old.last)
              /\ new.journal = old.journal /\ new.last = old.last
           \/ /\ x = s /\ old.gen = gen /\ frame.seq > old.last /\ new.last = frame.seq
              /\ \/ new.journal = Append(old.journal, frame)
                 \/ new.journal = Tail(Append(old.journal, frame))
<1>1. CASE s \in Known /\ sessions[s].gen = gen /\ frame.seq > sessions[s].last
  <2> DEFINE j == Append(sessions[s].journal, frame)
  <2> DEFINE kept == IF Len(j) > MaxEntries THEN Tail(j) ELSE j
  <2>1. kept = j \/ kept = Tail(j)
    OBVIOUS
  <2> HIDE DEF kept
  <2>2. Recorded(s, gen, frame) = [sessions EXCEPT ![s].journal = kept, ![s].last = frame.seq]
    BY <1>1 DEF Recorded, kept
  <2>3. sessions[s] \in SessionType
    BY <1>1 DEF StoreOK
  <2> DEFINE new == [sessions[s] EXCEPT !.journal = kept, !.last = frame.seq]
  <2>4. new.journal = kept /\ new.last = frame.seq
    BY <2>3 DEF SessionType
  <2>5. \A x \in Known : Recorded(s, gen, frame)[x] = IF x = s THEN new ELSE sessions[x]
    BY <1>1, <2>2 DEF Known
  <2> HIDE DEF new
  <2>. QED
    BY <1>1, <2>1, <2>4, <2>5
<1>2. CASE ~(s \in Known /\ sessions[s].gen = gen /\ frame.seq > sessions[s].last)
  <2>1. Recorded(s, gen, frame) = sessions
    BY <1>2 DEF Recorded
  <2>. QED
    BY <1>2, <2>1
<1>. QED
  BY <1>1, <1>2

(* The claimed connection joins, and its client attaches to it. *)
Claimed(c, t, k) ==
  /\ t \notin Connections /\ t \in Numbers /\ t # 0 /\ (Connections)' = Connections \cup {t}
  /\ \A u \in Connections : Alike(connections[u], connections'[u])
  /\ connections'[t] = k /\ k.gen = sessions'[k.session].gen /\ k.session \in (Known)'
  /\ k.wire = <<>> /\ k.item = NoFrame /\ k.writer = "idle" /\ k.main = "live"
  /\ clients[c].phase = "lost"
  /\ \A d \in Clients : clients'[d] =
       IF d = c THEN [clients[c] EXCEPT !.phase = "connecting", !.connection = t] ELSE clients[d]

(* The attached client, and no other, connects. *)
LEMMA Attaches ==
  ASSUME IInv, NEW c \in Clients, NEW t \in Numbers, Attach(c, t)
  PROVE  /\ \A d \in Clients : clients'[d] =
              IF d = c THEN [clients[c] EXCEPT !.phase = "connecting", !.connection = t]
              ELSE clients[d]
         /\ [clients[c] EXCEPT !.phase = "connecting", !.connection = t] \in ClientType
<1>1. clients \in [Clients -> ClientType] /\ clients[c] \in ClientType
  BY TypeParts DEF IInv, ClientsOK
<1>2. clients' = [clients EXCEPT ![c] = [clients[c] EXCEPT !.phase = "connecting", !.connection = t]]
  BY <1>1 DEF Attach
<1>3. [clients[c] EXCEPT !.phase = "connecting", !.connection = t] \in ClientType
  BY <1>1 DEF ClientType
<1>. QED
  BY <1>1, <1>2, <1>3

(* A resumed session: its journal and last sequence stay, its generation is next. *)
LEMMA ClaimResumedShape ==
  ASSUME IInv, NEW c \in Clients, clients[c].phase = "lost", Len(connections) < MaxConnections,
         ClaimResumed(c)
  PROVE  \E t \in Numbers, k \in ConnectionType :
           LET s == clients[c].session
               old == sessions[s] IN
           /\ Claimed(c, t, k) /\ s \in Known /\ k.session = s /\ k.counter = old.last
           /\ k.queue = <<Frame("resumed", 0, t)>> \o After(old.journal, clients[c].cursor)
           /\ Replayable(old, clients[c].cursor)
           /\ DOMAIN sessions' = Known /\ \A x \in Known : x # s => sessions'[x] = sessions[x]
           /\ sessions'[s].journal = old.journal /\ sessions'[s].last = old.last
           /\ sessions'[s].gen = old.gen + 1
<1> DEFINE t == Len(connections) + 1
<1> DEFINE s == clients[c].session
<1> DEFINE old == sessions[s]
<1> DEFINE queue == <<Frame("resumed", 0, t)>> \o After(old.journal, clients[c].cursor)
<1> DEFINE k == Connection(s, old.gen + 1, queue, ResumePoint(s))
<1> DEFINE before == [i \in Connections |->
                        IF i = old.holder THEN [connections[i] EXCEPT !.taken = TRUE] ELSE connections[i]]
<1>1. ConnectionsOK /\ StoreOK
  BY TypeParts DEF IInv
<1>2. s \in Known /\ old \in SessionType /\ old.gen \in Nat /\ old.journal \in Seq(FrameType)
      /\ old.last \in Sequences
  BY <1>1 DEF ClaimResumed, Resumable, StoreOK, SessionType
<1>3. Len(connections) \in Nat /\ Connections = 1 .. Len(connections) /\ s \in Connections
      /\ t \in Numbers /\ t \notin Connections /\ s \in Numbers /\ t # 0
  <2>1. Len(connections) \in Nat /\ Connections = 1 .. Len(connections)
    BY <1>1 DEF ConnectionsOK, Connections
  <2>2. s \in Connections
    BY <1>1, <1>2, <2>1 DEF StoreOK
  <2> HIDE DEF s
  <2>. QED
    BY <2>1, <2>2, Bounds DEF Numbers
<1>4. \A u \in Connections : Alike(connections[u], before[u])
  <2> SUFFICES ASSUME NEW u \in Connections PROVE Alike(connections[u], before[u])
    OBVIOUS
  <2>1. connections[u] \in ConnectionType
    BY OneConnection
  <2>2. Alike(connections[u], [connections[u] EXCEPT !.taken = TRUE])
        /\ Alike(connections[u], connections[u])
    BY <2>1 DEF Alike, Wired, ConnectionType
  <2>. QED
    BY <2>2
<1>5. queue \in Seq(FrameType)
  BY <1>2, <1>3, AfterType, FrameTypes
<1>6. k \in ConnectionType /\ k.session = s /\ k.gen = old.gen + 1 /\ k.counter = old.last
      /\ k.queue = queue /\ k.wire = <<>> /\ k.item = NoFrame /\ k.writer = "idle" /\ k.main = "live"
  BY <1>2, <1>3, <1>5, FrameTypes DEF Connection, ConnectionType, ResumePoint
<1>7. connections' = Append(before, k) /\ Attach(c, t)
  BY DEF ClaimResumed
<1>8. DOMAIN before = 1 .. Len(connections) /\ before \in Seq(ConnectionType)
  <2>1. \A u \in Connections : before[u] \in ConnectionType
    <3> SUFFICES ASSUME NEW u \in Connections PROVE before[u] \in ConnectionType
      OBVIOUS
    <3>1. connections[u] \in ConnectionType
      BY OneConnection
    <3>2. [connections[u] EXCEPT !.taken = TRUE] \in ConnectionType
      BY <3>1 DEF ConnectionType
    <3>. QED
      BY <3>1, <3>2
  <2>2. before \in [1 .. Len(connections) -> ConnectionType]
    BY <1>3, <2>1
  <2>. QED
    BY <1>3, <2>2
<1> HIDE DEF before, k, queue
<1>9. (Connections)' = Connections \cup {t} /\ connections'[t] = k
      /\ \A u \in Connections : connections'[u] = before[u]
  <2>1. Len(before) = Len(connections)
    BY <1>3, <1>8
  <2>2. Len(connections') = t /\ DOMAIN connections' = 1 .. t /\ connections'[t] = k
        /\ \A u \in 1 .. Len(connections) : connections'[u] = before[u]
    BY <1>3, <1>6, <1>7, <1>8, <2>1
  <2>. QED
    BY <1>3, <2>2 DEF Connections
<1>10. /\ DOMAIN sessions' = Known
       /\ \A x \in Known : x # s => sessions'[x] = sessions[x]
       /\ sessions'[s].journal = old.journal /\ sessions'[s].last = old.last
       /\ sessions'[s].gen = old.gen + 1
  <2>1. sessions' = [sessions EXCEPT ![s] = [old EXCEPT !.gen = @ + 1, !.holder = t]]
    <3>1. sessions' = [sessions EXCEPT ![s].gen = @ + 1, ![s].holder = t]
      BY DEF ClaimResumed
    <3>. QED
      BY <1>2, <3>1 DEF Known
  <2>2. /\ [old EXCEPT !.gen = @ + 1, !.holder = t].journal = old.journal
        /\ [old EXCEPT !.gen = @ + 1, !.holder = t].last = old.last
        /\ [old EXCEPT !.gen = @ + 1, !.holder = t].gen = old.gen + 1
    BY <1>2 DEF SessionType
  <2>. QED
    BY <1>2, <2>1, <2>2 DEF Known
<1>11. Replayable(old, clients[c].cursor)
  BY DEF ClaimResumed, Resumable
<1> HIDE DEF t, s
<1>12. Claimed(c, t, k)
  BY <1>2, <1>3, <1>4, <1>6, <1>7, <1>9, <1>10, Attaches DEF Claimed, Known
<1>. QED
  BY <1>2, <1>3, <1>6, <1>10, <1>11, <1>12 DEF queue, s

(* A fresh session: an id no connection had, an empty journal. *)
LEMMA ClaimFreshShape ==
  ASSUME IInv, NEW c \in Clients, clients[c].phase = "lost", Len(connections) < MaxConnections,
         ClaimFresh(c)
  PROVE  \E t \in Numbers, k \in ConnectionType :
           /\ Claimed(c, t, k) /\ k.session = t /\ k.counter = 0 /\ k.gen = 1
           /\ k.queue = <<Frame("fresh", 0, t)>>
           /\ (Known)' \subseteq Known \cup {t} /\ t \notin Known
           /\ \A x \in (Known)' : x # t => sessions'[x] = sessions[x]
           /\ sessions'[t] = Session(t)
<1> DEFINE t == Len(connections) + 1
<1> DEFINE k == Connection(t, 1, <<Frame("fresh", 0, t)>>, 0)
<1>1. ConnectionsOK /\ StoreOK
  BY TypeParts DEF IInv
<1>2. Len(connections) \in Nat /\ Connections = 1 .. Len(connections)
  BY <1>1 DEF ConnectionsOK, Connections
<1>3. t \in Numbers /\ t # 0 /\ t \notin Connections
  BY <1>2, Bounds DEF Numbers
<1>4. Known \subseteq Connections
  BY <1>1, <1>2 DEF StoreOK
<1>5. k \in ConnectionType /\ k.session = t /\ k.gen = 1 /\ k.counter = 0
      /\ k.queue = <<Frame("fresh", 0, t)>> /\ k.wire = <<>> /\ k.item = NoFrame
      /\ k.writer = "idle" /\ k.main = "live"
  <2>1. <<Frame("fresh", 0, t)>> \in Seq(FrameType) /\ <<>> \in Seq(FrameType) /\ NoFrame \in FrameType
    BY <1>3, FrameTypes
  <2> HIDE DEF t
  <2>. QED
    BY <1>3, <2>1, Bounds DEF Connection, ConnectionType
<1>6. connections' = Append(connections, k) /\ Attach(c, t)
  BY DEF ClaimFresh
<1>7. \A u \in Connections : Alike(connections[u], connections[u])
  BY DEF Alike, Wired
<1> HIDE DEF k
<1>8. (Connections)' = Connections \cup {t} /\ connections'[t] = k
      /\ \A u \in Connections : connections'[u] = connections[u]
  <2>1. connections \in Seq(ConnectionType)
    BY <1>1 DEF ConnectionsOK
  <2>2. Len(connections') = t /\ DOMAIN connections' = 1 .. t /\ connections'[t] = k
        /\ \A u \in 1 .. Len(connections) : connections'[u] = connections[u]
    BY <1>2, <1>5, <1>6, <2>1
  <2>. QED
    BY <1>2, <2>2 DEF Connections
<1> HIDE DEF t
<1>9. /\ (Known)' = (Known \ Evicted) \cup {t} /\ t \notin Known
      /\ \A x \in (Known)' : x # t => sessions'[x] = sessions[x]
      /\ sessions'[t] = Session(t)
  BY <1>3, <1>4 DEF ClaimFresh, Known, t
<1>10. Claimed(c, t, k)
  <2>1. \A u \in Connections : Alike(connections[u], connections'[u])
    BY <1>7, <1>8
  <2>2. k.gen = sessions'[k.session].gen /\ k.session \in (Known)'
    BY <1>5, <1>9 DEF Session
  <2>3. \A d \in Clients : clients'[d] =
          IF d = c THEN [clients[c] EXCEPT !.phase = "connecting", !.connection = t] ELSE clients[d]
    BY <1>3, <1>6, Attaches
  <2>. QED
    BY <1>3, <1>5, <1>8, <2>1, <2>2, <2>3 DEF Claimed
<1>. QED
  BY <1>3, <1>5, <1>9, <1>10

(* A sequence means nothing to a Welcome: none is journaled. *)
JournalPlain ==
  \A s \in Known : \A i \in DOMAIN sessions[s].journal : ~IsWelcome(sessions[s].journal[i])

(* Connections that lose their lease or keep it. *)
LEMMA AlikeGap ==
  ASSUME NEW k \in ConnectionType, NEW r, Alike(k, r), NEW m \in ClientType,
         NEW current \in BOOLEAN, NEW now \in BOOLEAN, now => current, InStep(m, k, current)
  PROVE  InStep(m, r, now)
<1>1. InStep(m, k, now)
  BY InStepShrinks
<1>2. Audible(r, now) = Audible(k, now) /\ Stream(r) = Stream(k) /\ (Serving(r) => Serving(k))
      /\ r.counter = k.counter /\ r.session = k.session
  BY DEF Alike, Wired, Audible, Stream, Sent, Sending, Serving
<1>. QED
  BY <1>1, <1>2, InStepSame

(* What every reader is left with. *)
LEMMA ReadersNext ==
  ASSUME \A c \in Clients : clients'[c].phase \in {"connecting", "ready"} =>
           \A u : u = clients'[c].connection => InStep(clients'[c], connections'[u], Current(u)')
  PROVE  ReadersInStep'
BY DEF ReadersInStep, Reads, Current

(* Steps of the store. *)
LEMMA StoreGap ==
  ASSUME IInv, GapInv, UNCHANGED <<connections, clients>>,
         \A u \in Connections : Current(u)' => Current(u)
  PROVE  GapInv'
<1>1. (Connections)' = Connections
  BY DEF Connections
<1>2. FramesPlain' /\ ReadersApart' /\ NoGap'
  BY <1>1 DEF GapInv, FramesPlain, ReadersApart, NoGap, Reads
<1>3. ReadersInStep'
  <2> SUFFICES ASSUME NEW c \in Clients, clients'[c].phase \in {"connecting", "ready"},
                      NEW u, u = clients'[c].connection
               PROVE  InStep(clients'[c], connections'[u], Current(u)')
    BY ReadersNext
  <2>0. Reads(c) /\ u = clients[c].connection
    BY DEF Reads
  <2>1. u \in Connections /\ clients[c] \in ClientType
    BY <2>0, TypeParts DEF IInv, Attached, Reads, ClientsOK
  <2>2. InStep(clients[c], connections[u], Current(u)) /\ connections[u] \in ConnectionType
    BY <2>0, <2>1, OneConnection DEF GapInv, ReadersInStep
  <2>3. Current(u) \in BOOLEAN /\ Current(u)' \in BOOLEAN /\ (Current(u)' => Current(u))
    BY <2>1 DEF Current
  <2>4. Alike(connections[u], connections[u])
    BY DEF Alike, Wired
  <2>5. InStep(clients[c], connections[u], Current(u)')
    BY <2>1, <2>2, <2>3, <2>4, AlikeGap
  <2>. QED
    BY <2>5
<1>. QED
  BY <1>2, <1>3 DEF GapInv

(* A shorter journal changes no lease. *)
LEMMA AgeGap ==
  ASSUME IInv, GapInv, NEW s \in Known, Age(s)
  PROVE  GapInv'
<1>1. \A x \in Known : sessions[x] \in SessionType
  BY TypeParts DEF IInv, StoreOK
<1>2. DOMAIN sessions' = Known /\ \A x \in Known : sessions'[x].gen = sessions[x].gen
  BY <1>1 DEF Age, Known, SessionType
<1>3. \A u \in Connections : Current(u)' => Current(u)
  BY <1>2 DEF Age, Current, Known
<1>. QED
  BY <1>3, StoreGap DEF Age

(* A session that is pruned takes the lease of its connections with it. *)
LEMMA PruneGap ==
  ASSUME IInv, GapInv, NEW s \in Known, Prune(s)
  PROVE  GapInv'
<1>1. \A u \in Connections : Current(u)' => Current(u)
  BY DEF Prune, Current, Known
<1>. QED
  BY <1>1, StoreGap DEF Prune

(* A client that attaches to a new connection is in step with it. *)
Starts(t, k, cursor) ==
  /\ \A f \in Within(k) : Plain(f, t, k.session)
  /\ \A m \in ClientType :
       m.phase = "connecting" /\ m.connection = t /\ m.cursor = cursor => InStep(m, k, TRUE)

(* A claim. *)
LEMMA ClaimedGap ==
  ASSUME IInv, GapInv, NEW c \in Clients, NEW t \in Numbers, NEW k \in ConnectionType,
         Claimed(c, t, k), \A u \in Connections : Current(u)' => Current(u),
         Starts(t, k, clients[c].cursor)
  PROVE  GapInv'
<1> DEFINE n == [clients[c] EXCEPT !.phase = "connecting", !.connection = t]
<1>1. clients[c] \in ClientType /\ ~clients[c].gap
  BY TypeParts DEF IInv, ClientsOK, GapInv, NoGap
<1>2. n \in ClientType /\ n.phase = "connecting" /\ n.connection = t /\ n.cursor = clients[c].cursor
      /\ ~n.gap
  BY <1>1 DEF ClientType
<1>3. \A d \in Clients : clients'[d] = IF d = c THEN n ELSE clients[d]
  BY DEF Claimed
<1> HIDE DEF n
<1>4. \A d \in Clients : Reads(d) => clients[d].connection \in Connections /\ d # c
  BY DEF IInv, Attached, Reads, Claimed
<1>5. t \notin Connections /\ (Connections)' = Connections \cup {t} /\ connections'[t] = k
      /\ \A u \in Connections : Alike(connections[u], connections'[u])
  BY DEF Claimed
<1>6. NoGap'
  BY <1>2, <1>3 DEF GapInv, NoGap
<1>7. ReadersApart'
  <2> SUFFICES ASSUME NEW d \in Clients, NEW e \in Clients,
                      clients'[d].phase \in {"connecting", "ready"},
                      clients'[e].phase \in {"connecting", "ready"},
                      clients'[d].connection = clients'[e].connection
               PROVE  d = e
    BY DEF ReadersApart, Reads
  <2>. QED
    BY <1>2, <1>3, <1>4, <1>5 DEF GapInv, ReadersApart, Reads
<1>8. FramesPlain'
  <2> SUFFICES ASSUME NEW u \in (Connections)', NEW f \in Within(connections'[u])
               PROVE  Plain(f, u, connections'[u].session)
    BY DEF FramesPlain
  <2>1. CASE u = t
    BY <1>5, <2>1 DEF Starts
  <2>2. CASE u # t
    <3>1. u \in Connections /\ Alike(connections[u], connections'[u])
      BY <1>5, <2>2
    <3>2. f \in Within(connections[u]) /\ connections'[u].session = connections[u].session
      BY <3>1 DEF Alike, Wired, Within
    <3>. QED
      BY <3>1, <3>2 DEF GapInv, FramesPlain
  <2>. QED
    BY <2>1, <2>2
<1>9. ReadersInStep'
  <2> SUFFICES ASSUME NEW d \in Clients, clients'[d].phase \in {"connecting", "ready"},
                      NEW u, u = clients'[d].connection
               PROVE  InStep(clients'[d], connections'[u], Current(u)')
    BY DEF ReadersInStep, Reads, Current
  <2>1. CASE d = c
    <3>1. u = t /\ clients'[d] = n
      BY <1>2, <1>3, <2>1
    <3>2. Current(u)' = TRUE
      BY <1>5, <3>1 DEF Current, Claimed
    <3>. QED
      BY <1>2, <1>5, <3>1, <3>2 DEF Starts
  <2>2. CASE d # c
    <3>1. clients'[d] = clients[d] /\ Reads(d) /\ u = clients[d].connection /\ u \in Connections
          /\ clients[d] \in ClientType
      BY <1>3, <1>4, <2>2, TypeParts DEF Reads, IInv, ClientsOK
    <3>2. InStep(clients[d], connections[u], Current(u)) /\ connections[u] \in ConnectionType
      BY <3>1, OneConnection DEF GapInv, ReadersInStep
    <3>3. Current(u) \in BOOLEAN /\ Current(u)' \in BOOLEAN /\ (Current(u)' => Current(u))
      BY <3>1 DEF Current
    <3>. QED
      BY <1>5, <3>1, <3>2, <3>3, AlikeGap
  <2>. QED
    BY <2>1, <2>2
<1>. QED
  BY <1>6, <1>7, <1>8, <1>9 DEF GapInv

(* A fresh session's connection has its Welcome queued, and nothing else. *)
LEMMA ClaimFreshGap ==
  ASSUME IInv, GapInv, NEW c \in Clients, clients[c].phase = "lost",
         Len(connections) < MaxConnections, ClaimFresh(c)
  PROVE  GapInv'
<1>1. PICK t \in Numbers, k \in ConnectionType :
        /\ Claimed(c, t, k) /\ k.session = t /\ k.counter = 0 /\ k.gen = 1
        /\ k.queue = <<Frame("fresh", 0, t)>>
        /\ (Known)' \subseteq Known \cup {t} /\ t \notin Known
        /\ \A x \in (Known)' : x # t => sessions'[x] = sessions[x]
        /\ sessions'[t] = Session(t)
  BY ClaimFreshShape
<1>2. \A u \in Connections : Current(u)' => Current(u)
  <2> SUFFICES ASSUME NEW u \in Connections, Current(u)' PROVE Current(u)
    OBVIOUS
  <2>1. connections[u].session \in Connections /\ t \notin Connections
        /\ Alike(connections[u], connections'[u])
    BY <1>1 DEF IInv, LeaseInv, Claimed
  <2>. QED
    BY <1>1, <2>1 DEF Current, Alike
<1> DEFINE f == Frame("fresh", 0, t)
<1>3. f \in FrameType /\ f.seq = 0 /\ f.kind = "fresh" /\ IsWelcome(f)
  BY FrameTypes DEF Frame, IsWelcome
<1> HIDE DEF f
<1>4. k.wire = <<>> /\ k.item = NoFrame /\ k.writer = "idle" /\ k.queue = <<f>>
  BY <1>1 DEF Claimed, f
<1>5. \A g \in Within(k) : Plain(g, t, k.session)
  <2>1. Within(k) = {NoFrame, f}
    BY <1>4, EntriesFacts DEF Within
  <2>. QED
    BY <1>1, <1>3, <2>1 DEF Plain, NoFrame, Frame, IsWelcome
<1>6. Stream(k) = <<f>>
  <2>1. <<>> \o <<>> = <<>> /\ <<>> \o <<f>> = <<f>>
    BY <1>3
  <2>. QED
    BY <1>4, <2>1 DEF Stream, Sent, Sending
<1>7. ASSUME NEW m \in ClientType, m.phase = "connecting", m.connection = t
      PROVE  InStep(m, k, TRUE)
  <2>1. Expected(m, k) = 0
    BY <1>1, <1>7 DEF Expected
  <2>2. Dense(<<f>>, 0) /\ Reaches(<<f>>, 0, 0) /\ Opens(<<f>>) /\ <<f>> # <<>> /\ IsWelcome(<<f>>[1])
    BY <1>3 DEF Dense, Reaches, Opens
  <2>. QED
    BY <1>1, <1>6, <1>7, <2>1, <2>2 DEF InStep, Audible
<1>8. Starts(t, k, clients[c].cursor)
  BY <1>5, <1>7 DEF Starts
<1>9. Claimed(c, t, k) /\ t \in Numbers /\ k \in ConnectionType
  BY <1>1
<1>. QED
  BY <1>2, <1>8, <1>9, ClaimedGap

(* A tail of a journal holds what the journal does. *)
LEMMA AfterEntries ==
  ASSUME NEW journal \in Seq(FrameType), NEW cursor
  PROVE  Entries(After(journal, cursor)) \subseteq Entries(journal)
<1> DEFINE later == {i \in DOMAIN journal : journal[i].seq > cursor}
<1> DEFINE n == Cardinality(later)
<1>1. Len(journal) \in Nat /\ DOMAIN journal = 1 .. Len(journal)
  OBVIOUS
<1>2. n \in Nat /\ n <= Len(journal)
  <2>1. IsFiniteSet(1 .. Len(journal)) /\ Cardinality(1 .. Len(journal)) = Len(journal)
    BY <1>1, FS_Interval
  <2>2. later \subseteq 1 .. Len(journal)
    BY <1>1
  <2>. QED
    BY <1>1, <2>1, <2>2, FS_Subset, FS_CardinalityType
<1> HIDE DEF n
<1> DEFINE R == SubSeq(journal, Len(journal) - n + 1, Len(journal))
<1>3. DOMAIN R = 1 .. n /\ \A i \in 1 .. n : R[i] = journal[(Len(journal) - n) + i]
  BY <1>1, <1>2
<1>4. \A i \in 1 .. n : (Len(journal) - n) + i \in DOMAIN journal
  BY <1>1, <1>2
<1>5. After(journal, cursor) = R
  BY DEF After, n
<1> HIDE DEF R
<1>. QED
  BY <1>3, <1>4, <1>5 DEF Entries

(* A resumed session's connection has its Welcome queued, then everything    *)
(* the client missed.                                                        *)
LEMMA ClaimResumedGap ==
  ASSUME IInv, GapInv, JournalPlain, NEW c \in Clients, clients[c].phase = "lost",
         Len(connections) < MaxConnections, ClaimResumed(c)
  PROVE  GapInv'
<1> DEFINE s == clients[c].session
<1> DEFINE old == sessions[s]
<1> DEFINE replay == After(old.journal, clients[c].cursor)
<1>1. PICK t \in Numbers, k \in ConnectionType :
        /\ Claimed(c, t, k) /\ s \in Known /\ k.session = s /\ k.counter = old.last
        /\ k.queue = <<Frame("resumed", 0, t)>> \o replay
        /\ Replayable(old, clients[c].cursor)
        /\ DOMAIN sessions' = Known /\ \A x \in Known : x # s => sessions'[x] = sessions[x]
        /\ sessions'[s].journal = old.journal /\ sessions'[s].last = old.last
        /\ sessions'[s].gen = old.gen + 1
  BY ClaimResumedShape
<1>2. StoreOK /\ old \in SessionType /\ old.journal \in Seq(FrameType) /\ old.gen \in Nat
      /\ old.last \in Nat /\ clients[c].cursor \in Nat
  BY <1>1, TypeParts, Bounds DEF IInv, StoreOK, SessionType, ClientsOK, ClientType
<1>3. t \notin Connections /\ s \in Connections
  <2>1. Known \subseteq Connections
    BY <1>2, TypeParts DEF StoreOK, IInv, ConnectionsOK, Connections
  <2>2. t \notin Connections
    BY <1>1 DEF Claimed
  <2>. QED
    BY <1>1, <2>1, <2>2
<1>4. \A u \in Connections : Current(u)' => Current(u)
  <2> SUFFICES ASSUME NEW u \in Connections, Current(u)' PROVE Current(u)
    OBVIOUS
  <2>1. Alike(connections[u], connections'[u]) /\ connections[u] \in ConnectionType
    BY <1>1, OneConnection DEF Claimed
  <2>2. connections[u].session \in Known /\ sessions'[connections[u].session].gen = connections[u].gen
    BY <1>1, <2>1 DEF Current, Alike, Known
  <2>3. connections[u].session = s => connections[u].gen <= old.gen
    BY <1>1 DEF IInv, LeaseInv
  <2>4. connections[u].session # s
    <3>1. connections[u].gen \in Nat
      BY <2>1 DEF ConnectionType
    <3>2. connections[u].session = s => connections[u].gen = old.gen + 1
      BY <1>1, <2>2
    <3> HIDE DEF s, old
    <3>. QED
      BY <1>2, <2>3, <3>1, <3>2
  <2>. QED
    BY <1>1, <2>2, <2>4 DEF Current
<1> DEFINE f == Frame("resumed", 0, t)
<1>5. f \in FrameType /\ f.seq = 0 /\ f.kind = "resumed" /\ IsWelcome(f)
  BY FrameTypes DEF Frame, IsWelcome
<1>6. replay \in Seq(FrameType) /\ Entries(replay) \subseteq Entries(old.journal)
      /\ \A i \in DOMAIN replay : replay[i].seq = clients[c].cursor + i
      /\ Len(replay) = old.last - clients[c].cursor
  BY <1>1, <1>2, AfterType, AfterEntries DEF Replayable
<1>16. Len(replay) = old.last - clients[c].cursor
  BY <1>1 DEF Replayable
<1>7. \A i \in DOMAIN replay : ~IsWelcome(replay[i])
  <2>1. \A g \in Entries(old.journal) : ~IsWelcome(g)
    BY <1>1 DEF JournalPlain, Entries
  <2> HIDE DEF replay
  <2>. QED
    BY <1>6, <2>1 DEF Entries
<1> HIDE DEF f, replay
<1> DEFINE T == <<f>> \o replay
<1>8. /\ T \in Seq(FrameType) /\ Len(replay) \in Nat /\ DOMAIN T = 1 .. Len(replay) + 1
      /\ T[1] = f /\ \A i \in 1 .. Len(replay) : T[i + 1] = replay[i]
  BY <1>5, <1>6
<1>9. \A j \in DOMAIN T : j # 1 => j - 1 \in DOMAIN replay /\ T[j] = replay[j - 1]
  <2> SUFFICES ASSUME NEW j \in 1 .. Len(replay) + 1, j # 1
               PROVE  j - 1 \in DOMAIN replay /\ T[j] = replay[j - 1]
    BY <1>8
  <2>1. j - 1 \in 1 .. Len(replay) /\ (j - 1) + 1 = j
    BY <1>8
  <2>2. j - 1 \in DOMAIN replay
    BY <1>6, <2>1
  <2>. QED
    BY <1>8, <2>1, <2>2
<1>10. k.wire = <<>> /\ k.item = NoFrame /\ k.writer = "idle" /\ k.queue = T
  BY <1>1 DEF Claimed, f
<1> HIDE DEF T
<1>11. Stream(k) = T
  <2>1. <<>> \o <<>> = <<>> /\ <<>> \o T = T
    BY <1>8
  <2>. QED
    BY <1>10, <2>1 DEF Stream, Sent, Sending
<1>12. \A g \in Within(k) : Plain(g, t, k.session)
  <2>1. \A g \in Within(k) : g = NoFrame \/ g = f \/ ~IsWelcome(g)
    BY <1>7, <1>8, <1>9, <1>10, EntriesFacts DEF Within, Entries
  <2>2. Plain(NoFrame, t, k.session) /\ Plain(f, t, k.session)
    BY <1>1, <1>3, <1>5 DEF Plain, NoFrame, Frame, IsWelcome
  <2>. QED
    BY <2>1, <2>2 DEF Plain, IsWelcome
<1>13. ASSUME NEW m \in ClientType, m.phase = "connecting", m.connection = t,
              m.cursor = clients[c].cursor
       PROVE  InStep(m, k, TRUE)
  <2> DEFINE e == clients[c].cursor
  <2>1. Expected(m, k) = e
    BY <1>1, <1>3, <1>13 DEF Expected
  <2>2. Dense(T, e)
    <3> SUFFICES ASSUME NEW j \in DOMAIN T, T[j].seq > e + 1
                 PROVE  \E i \in 1 .. j - 1 : T[i].seq = T[j].seq - 1
      BY DEF Dense
    <3>1. j # 1
      BY <1>2, <1>5, <1>8
    <3>2. j \in 1 .. Len(replay) + 1 /\ j - 1 \in DOMAIN replay /\ T[j].seq = e + (j - 1)
      BY <1>6, <1>8, <1>9, <3>1
    <3>3. j - 1 # 1 /\ j - 1 \in DOMAIN T /\ j - 1 \in 1 .. j - 1
      BY <1>2, <1>8, <3>1, <3>2
    <3>4. T[j - 1].seq = e + ((j - 1) - 1)
      BY <1>6, <1>9, <3>3
    <3>. QED
      BY <1>2, <3>2, <3>3, <3>4
  <2>3. Reaches(T, e, k.counter)
    <3> SUFFICES ASSUME old.last > e PROVE \E i \in DOMAIN T : T[i].seq = old.last
      BY <1>1 DEF Reaches
    <3>0. old.last - e > 0
      BY <1>2
    <3>1. Len(replay) + 1 \in DOMAIN T /\ Len(replay) + 1 # 1
      <4>1. Len(replay) > 0
        <5>1. Len(replay) = old.last - e
          BY <1>16
        <5>. QED
          BY <1>2, <3>0, <5>1
      <4>2. Len(replay) + 1 \in 1 .. Len(replay) + 1 /\ Len(replay) + 1 # 1
        BY <1>8, <4>1
      <4>. QED
        BY <1>8, <4>2
    <3>2. T[Len(replay) + 1].seq = e + ((Len(replay) + 1) - 1)
      BY <1>6, <1>9, <3>1
    <3>3. Len(replay) = old.last - e /\ Len(replay) \in Nat
      BY <1>8, <1>16
    <3>4. e + ((Len(replay) + 1) - 1) = old.last
      BY <1>2, <3>3
    <3>. QED
      BY <3>1, <3>2, <3>4
  <2>4. Opens(T) /\ T # <<>> /\ IsWelcome(T[1])
    BY <1>5, <1>7, <1>8, <1>9 DEF Opens
  <2>. QED
    BY <1>11, <1>13, <2>1, <2>2, <2>3, <2>4 DEF InStep, Audible
<1>14. Starts(t, k, clients[c].cursor)
  BY <1>12, <1>13 DEF Starts
<1>15. Claimed(c, t, k) /\ t \in Numbers /\ k \in ConnectionType
  BY <1>1
<1>. QED
  BY <1>4, <1>14, <1>15, ClaimedGap

(* No step journals a Welcome: only sequenced frames are recorded. *)
LEMMA JournalPlainKept ==
  ASSUME IInv, GapInv, JournalPlain, [Next]_vars
  PROVE  JournalPlain'
<1> DEFINE Bare(j) == \A f \in Entries(j) : ~IsWelcome(f)
<1>1. \A x \in Known : sessions[x] \in SessionType /\ sessions[x].journal \in Seq(FrameType)
                       /\ Bare(sessions[x].journal)
  BY TypeParts DEF IInv, StoreOK, SessionType, JournalPlain, Entries
<1>2. SUFFICES \A x \in (Known)' : Bare(sessions'[x].journal)
  BY DEF JournalPlain, Entries
<1>3. CASE UNCHANGED sessions
  BY <1>1, <1>3 DEF Known
<1>4. ASSUME NEW s \in Known, Age(s) PROVE \A x \in (Known)' : Bare(sessions'[x].journal)
  <2>1. sessions' = [sessions EXCEPT ![s].journal = Tail(sessions[s].journal)]
        /\ sessions[s].journal # <<>>
    BY <1>4 DEF Age
  <2>2. (Known)' = Known /\ \A x \in Known :
          sessions'[x].journal = IF x = s THEN Tail(sessions[s].journal) ELSE sessions[x].journal
    BY <1>1, <2>1 DEF Known, SessionType
  <2>3. Entries(Tail(sessions[s].journal)) \subseteq Entries(sessions[s].journal)
    BY <1>1, <2>1, EntriesFacts
  <2>. QED
    BY <1>1, <2>2, <2>3
<1>5. ASSUME NEW s \in Known, Prune(s) PROVE \A x \in (Known)' : Bare(sessions'[x].journal)
  BY <1>1, <1>5 DEF Prune, Known
<1>6. ASSUME NEW c \in Clients, Claim(c) PROVE \A x \in (Known)' : Bare(sessions'[x].journal)
  <2>1. clients[c].phase = "lost" /\ Len(connections) < MaxConnections
    BY <1>6 DEF Claim
  <2>2. CASE ClaimResumed(c)
    <3> DEFINE s == clients[c].session
    <3>1. s \in Known /\ DOMAIN sessions' = Known /\ sessions'[s].journal = sessions[s].journal
          /\ \A x \in Known : x # s => sessions'[x] = sessions[x]
      BY <2>1, <2>2, ClaimResumedShape
    <3>. QED
      BY <1>1, <3>1 DEF Known
  <2>3. CASE ClaimFresh(c)
    <3>1. PICK t \in Numbers : /\ (Known)' \subseteq Known \cup {t}
                               /\ \A x \in (Known)' : x # t => sessions'[x] = sessions[x]
                               /\ sessions'[t] = Session(t)
      BY <2>1, <2>3, ClaimFreshShape
    <3>2. Session(t).journal = <<>>
      BY DEF Session
    <3>. QED
      BY <1>1, <3>1, <3>2, EntriesFacts
  <2>. QED
    BY <1>6, <2>2, <2>3 DEF Claim
<1>7. ASSUME NEW t \in Connections, Release(t) PROVE \A x \in (Known)' : Bare(sessions'[x].journal)
  <2>1. (Known)' = Known /\ \A x \in Known : sessions'[x].journal = sessions[x].journal
    BY <1>1, <1>7 DEF Release, Released, Known, SessionType
  <2>. QED
    BY <1>1, <2>1
<1>8. ASSUME NEW t \in Connections, Record(t) PROVE \A x \in (Known)' : Bare(sessions'[x].journal)
  <2> DEFINE k == connections[t]
  <2>1. k.item \in FrameType /\ Plain(k.item, t, k.session)
    BY OneConnection DEF GapInv, FramesPlain, Within
  <2>2. CASE k.item.seq = 0
    BY <1>3, <1>8, <2>2 DEF Record
  <2>3. CASE k.item.seq # 0
    <3>1. ~IsWelcome(k.item) /\ sessions' = Recorded(k.session, k.gen, k.item)
      BY <1>8, <2>1, <2>3 DEF Plain, Record
    <3>2. StoreOK /\ (Known)' = Known
      BY <2>1, <3>1, RecordedFacts, TypeParts DEF IInv, Known
    <3>3. \A x \in Known : \/ sessions'[x].journal = sessions[x].journal
                           \/ sessions'[x].journal = Append(sessions[x].journal, k.item)
                           \/ sessions'[x].journal = Tail(Append(sessions[x].journal, k.item))
      BY <2>1, <3>1, <3>2, RecordedJournal
    <3> HIDE DEF k
    <3>4. \A x \in Known : Bare(Append(sessions[x].journal, k.item))
      BY <1>1, <2>1, <3>1, EntriesFacts
    <3>5. \A x \in Known : Bare(Tail(Append(sessions[x].journal, k.item)))
      <4> SUFFICES ASSUME NEW x \in Known PROVE Bare(Tail(Append(sessions[x].journal, k.item)))
        OBVIOUS
      <4> DEFINE j == Append(sessions[x].journal, k.item)
      <4>1. j \in Seq(FrameType) /\ j # <<>>
        BY <1>1, <2>1
      <4> HIDE DEF j
      <4>2. Entries(Tail(j)) \subseteq Entries(j)
        BY <4>1, EntriesFacts
      <4>. QED
        BY <3>4, <4>2 DEF j
    <3>. QED
      BY <1>1, <3>2, <3>3, <3>4, <3>5
  <2>. QED
    BY <2>2, <2>3
<1>9. CASE Restart
  <2>1. sessions' = <<>>
    BY <1>9 DEF Restart
  <2>2. (Known)' = {}
    BY <2>1 DEF Known
  <2>. QED
    BY <2>2
<1>10. ASSUME NEW t \in Connections, Serve(t), ~Release(t), ~Record(t) PROVE UNCHANGED sessions
  BY <1>10 DEF Serve, Issue, Overload, TakenOver, Leave, Take, Transmit, StopWriter
<1>11. ASSUME NEW c \in Clients, Lose(c) \/ Receive(c) PROVE UNCHANGED sessions
  BY <1>11 DEF Lose, Receive
<1>12. CASE UNCHANGED vars
  BY <1>3, <1>12 DEF vars
<1>. QED
  BY <1>3, <1>4, <1>5, <1>6, <1>7, <1>8, <1>9, <1>10, <1>11, <1>12 DEF Next

(* A restart leaves nobody reading. *)
LEMMA RestartGap ==
  ASSUME IInv, GapInv, Restart
  PROVE  GapInv'
<1>1. \A c \in Clients : clients[c] \in ClientType
  BY TypeParts DEF IInv, ClientsOK
<1>2. \A c \in Clients : clients'[c].phase \notin {"connecting", "ready"} /\ clients'[c].gap = clients[c].gap
  BY <1>1 DEF Restart, ClientType
<1>3. NoGap' /\ ReadersApart' /\ ReadersInStep'
  BY <1>2 DEF GapInv, NoGap, ReadersApart, ReadersInStep, Reads
<1>4. (Connections)' = Connections
  BY DEF Restart, Connections
<1>5. FramesPlain'
  <2> SUFFICES ASSUME NEW t \in Connections, NEW f \in Within(connections'[t])
               PROVE  Plain(f, t, connections'[t].session)
    BY <1>4 DEF FramesPlain
  <2>1. connections[t] \in ConnectionType
    BY OneConnection
  <2>2. connections'[t].wire = <<>> /\ connections'[t].queue = <<>> /\ connections'[t].item = NoFrame
    BY <2>1 DEF Restart, ConnectionType
  <2>3. f = NoFrame
    BY <2>2, EntriesFacts DEF Within
  <2>. QED
    BY <2>3 DEF Plain, NoFrame, Frame, IsWelcome
<1>. QED
  BY <1>3, <1>5 DEF GapInv

(* One step per action. *)
LEMMA GapStep ==
  ASSUME IInv, GapInv, JournalPlain, [Next]_vars
  PROVE  GapInv'
<1>1. CASE \E s \in Known : Age(s) \/ Prune(s)
  BY <1>1, AgeGap, PruneGap
<1>2. CASE \E c \in Clients : Claim(c) \/ Lose(c) \/ Receive(c)
  BY <1>2, ClaimResumedGap, ClaimFreshGap, LoseGap, ReceiveGap DEF Claim
<1>3. CASE \E t \in Connections : Serve(t)
  BY <1>3, IssueGap, OverloadGap, TakenOverGap, MainGap, TakeGap, TransmitGap, RecordGap,
     StopWriterGap DEF Serve
<1>4. CASE Restart
  BY <1>4, RestartGap
<1>5. CASE UNCHANGED vars
  <2>1. \A u \in Connections : Current(u)' => Current(u)
    BY <1>5 DEF vars, Current, Known
  <2>. QED
    BY <1>5, <2>1, StoreGap DEF vars
<1>. QED
  BY <1>1, <1>2, <1>3, <1>4, <1>5 DEF Next

(* No connection, no reader, no journal. *)
LEMMA GapInit == Init => GapInv /\ JournalPlain
<1> SUFFICES ASSUME Init PROVE GapInv /\ JournalPlain
  OBVIOUS
<1>1. Known = {} /\ Connections = {}
  BY DEF Init, Known, Connections
<1>2. \A c \in Clients : clients[c].phase = "lost" /\ ~clients[c].gap
  BY DEF Init, Client
<1>. QED
  BY <1>1, <1>2 DEF GapInv, JournalPlain, FramesPlain, ReadersApart, ReadersInStep, NoGap, Reads

(* Whatever is lost, taken over, replayed or still in a writer's hands, no   *)
(* client is ever sent a frame past the one that follows its cursor.         *)
THEOREM NothingIsSkipped == Spec => []NoGap
<1>1. IInv /\ GapInv /\ JournalPlain /\ [Next]_vars => IInv' /\ GapInv' /\ JournalPlain'
  BY InvStep, GapStep, JournalPlainKept
<1>2. GapInv => NoGap
  BY DEF GapInv
<1>. QED
  BY <1>1, <1>2, InvInit, GapInit, PTL DEF Spec

---------------------------------------------------------------------------
(* What is still to be recorded. *)

(* The frame in the writer's hands and what is queued behind it. *)
Held(k) == IF k.writer \in {"sending", "sent"} THEN <<k.item>> ELSE <<>>
Feed(k) == Held(k) \o k.queue

(* The journal is an unbroken run of sequences that ends with the last one. *)
Whole(s) ==
  \A i \in DOMAIN s.journal :
    s.journal[i].seq = s.last - Len(s.journal) + i /\ s.journal[i].seq # 0

(* The frame f of connection t, whose record is k, means what the session s  *)
(* has recorded under its sequence.                                          *)
OneFrame(f, t, k, s) ==
  /\ f.seq <= k.counter
  /\ f.seq > s.last => f.by = t
  /\ f.seq # 0 => \A e \in Entries(s.journal) : e.seq = f.seq => e.by = f.by

(* A connection that has the lease of s feeds the journal without a hole.    *)
Settled(k, s, t) ==
  /\ k.writer # "stopped" =>
       /\ Dense(Feed(k), s.last)
       /\ k.main = "live" => Reaches(Feed(k), s.last, k.counter)
  /\ k.counter >= s.last
  /\ \A f \in Within(k) : OneFrame(f, t, k, s)

JournalsWhole == \A s \in Known : Whole(sessions[s])

HoldersSettled ==
  \A t \in Connections :
    Current(t) => Settled(connections[t], sessions[connections[t].session], t)

(* The sessions a client can name or is about to be told. *)
Owns(c) ==
  ({clients[c].session} \ {0})
    \cup (IF Reads(c) THEN {connections[clients[c].connection].session} ELSE {})

(* A client that reads a connection reads the one that has the lease, and    *)
(* expects the sequences of the session it named, unless that was refused.   *)
Follows(m, k, current) ==
  /\ k.session \in Known => current
  /\ m.phase = "ready" => k.session = m.session
  /\ m.phase = "connecting" => (k.session = m.session <=> k.session # m.connection)

Owned ==
  /\ \A c, d \in Clients : c # d => Owns(c) \cap Owns(d) = {}
  /\ \A c \in Clients : Owns(c) \subseteq Connections
  /\ \A c \in Clients : Reads(c) =>
       Follows(clients[c], connections[clients[c].connection], Current(clients[c].connection))

(* The client m applied the frame that its session recorded at its cursor,   *)
(* or that the holder of the lease will record.                              *)
Agrees(m) ==
  m.session \in Known =>
    /\ \A e \in Entries(sessions[m.session].journal) : e.seq = m.cursor => e.by = m.by
    /\ m.cursor > sessions[m.session].last =>
         \A t \in Connections : connections[t].session = m.session /\ Current(t) =>
           m.by = t /\ m.cursor <= connections[t].counter

CursorsAgree == \A c \in Clients : Agrees(clients[c])

JournalInv == JournalsWhole /\ HoldersSettled /\ Owned /\ CursorsAgree

(* The types of a session and its journal. *)
LEMMA SessionTypes ==
  ASSUME IInv, NEW s \in Known
  PROVE  /\ sessions[s] \in SessionType /\ sessions[s].journal \in Seq(FrameType)
         /\ sessions[s].last \in Nat /\ sessions[s].gen \in Nat /\ s \in Connections /\ s # 0
<1>1. StoreOK /\ ConnectionsOK
  BY TypeParts DEF IInv
<1>2. s \in Connections
  BY <1>1 DEF StoreOK, ConnectionsOK, Connections
<1>3. s # 0
  BY <1>2, OneConnection
<1>. QED
  BY <1>1, <1>2, <1>3, Bounds DEF StoreOK, SessionType

(* The entries of a journal without holes: none is beyond the last sequence, *)
(* and no two have the same one.                                             *)
LEMMA WholeEntries ==
  ASSUME NEW s, s.journal \in Seq(FrameType), s.last \in Nat, Whole(s)
  PROVE  /\ \A e \in Entries(s.journal) : e.seq <= s.last /\ e.seq # 0
         /\ \A e, f \in Entries(s.journal) : e.seq = f.seq => e = f
<1> DEFINE j == s.journal
<1>1. Len(j) \in Nat /\ DOMAIN j = 1 .. Len(j)
  OBVIOUS
<1>2. \A i \in 1 .. Len(j) : j[i].seq = s.last - Len(j) + i /\ j[i].seq # 0
  BY <1>1 DEF Whole
<1>3. \A i, h \in 1 .. Len(j) : j[i].seq = j[h].seq => i = h
  BY <1>1, <1>2
<1>4. \A i \in 1 .. Len(j) : j[i].seq <= s.last
  BY <1>1, <1>2
<1> HIDE DEF j
<1>5. Entries(s.journal) = {j[i] : i \in 1 .. Len(j)}
  BY <1>1 DEF Entries, j
<1>6. ASSUME NEW e \in Entries(s.journal), NEW f \in Entries(s.journal), e.seq = f.seq
      PROVE  e = f
  <2>1. PICK i \in 1 .. Len(j), h \in 1 .. Len(j) : e = j[i] /\ f = j[h]
    BY <1>5
  <2>. QED
    BY <1>3, <1>6, <2>1
<1>. QED
  BY <1>2, <1>4, <1>5, <1>6

(* A journal that loses its oldest entry stays whole ... *)
LEMMA WholeTail ==
  ASSUME NEW s, NEW r, s.journal \in Seq(FrameType), s.journal # <<>>, s.last \in Nat, Whole(s),
         r.journal = Tail(s.journal), r.last = s.last
  PROVE  Whole(r)
<1> DEFINE j == s.journal
<1>1. Len(j) \in Nat /\ Len(j) >= 1 /\ DOMAIN j = 1 .. Len(j) /\ Len(Tail(j)) = Len(j) - 1
      /\ DOMAIN Tail(j) = 1 .. Len(j) - 1 /\ \A i \in DOMAIN Tail(j) : Tail(j)[i] = j[i + 1]
  OBVIOUS
<1>2. \A i \in 1 .. Len(j) : j[i].seq = s.last - Len(j) + i /\ j[i].seq # 0
  BY <1>1 DEF Whole
<1> DEFINE T == Tail(j)
<1> HIDE DEF T, j
<1>3. \A i \in DOMAIN T : T[i].seq = s.last - Len(j) + (i + 1) /\ T[i].seq # 0
  BY <1>1, <1>2 DEF T
<1>5. Len(T) = Len(j) - 1 /\ DOMAIN T \subseteq Nat /\ Len(j) \in Nat
  BY <1>1 DEF T
<1>4. \A i \in DOMAIN T : T[i].seq = s.last - Len(T) + i /\ T[i].seq # 0
  <2> SUFFICES ASSUME NEW i \in DOMAIN T PROVE T[i].seq = s.last - Len(T) + i /\ T[i].seq # 0
    OBVIOUS
  <2>2. i \in Nat /\ s.last \in Nat /\ Len(j) \in Nat
    BY <1>5
  <2>3. \A a, b, n \in Nat : a - b + (n + 1) = a - (b - 1) + n
    OBVIOUS
  <2>1. s.last - Len(j) + (i + 1) = s.last - (Len(j) - 1) + i
    BY <2>2, <2>3
  <2>. QED
    BY <1>3, <1>5, <2>1
<1>. QED
  BY <1>4 DEF Whole, T, j

(* ... and so does one that records the next sequence. *)
LEMMA WholeAppend ==
  ASSUME NEW s, NEW r, s.journal \in Seq(FrameType), s.last \in Nat, Whole(s),
         NEW f \in FrameType, f.seq = s.last + 1,
         r.journal = Append(s.journal, f), r.last = f.seq
  PROVE  Whole(r)
<1> DEFINE j == s.journal
<1> DEFINE T == Append(j, f)
<1>1. Len(j) \in Nat /\ DOMAIN j = 1 .. Len(j) /\ Len(T) = Len(j) + 1
      /\ DOMAIN T = 1 .. Len(j) + 1 /\ T[Len(j) + 1] = f /\ \A i \in DOMAIN j : T[i] = j[i]
  OBVIOUS
<1>2. \A i \in 1 .. Len(j) : j[i].seq = s.last - Len(j) + i /\ j[i].seq # 0
  BY <1>1 DEF Whole
<1> HIDE DEF T, j
<1>3. \A i \in DOMAIN T : T[i].seq = (s.last + 1) - Len(T) + i /\ T[i].seq # 0
  <2> SUFFICES ASSUME NEW i \in DOMAIN T
               PROVE  T[i].seq = (s.last + 1) - Len(T) + i /\ T[i].seq # 0
    OBVIOUS
  <2>1. CASE i = Len(j) + 1
    BY <1>1, <2>1
  <2>2. CASE i # Len(j) + 1
    <3>1. i \in 1 .. Len(j) /\ T[i] = j[i]
      BY <1>1, <2>2
    <3>2. T[i].seq = s.last - Len(j) + i /\ T[i].seq # 0
      BY <1>2, <3>1
    <3>3. s.last - Len(j) + i = (s.last + 1) - Len(T) + i
      <4>1. \A last, n, x \in Nat : last - n + x = (last + 1) - (n + 1) + x
        OBVIOUS
      <4>2. s.last \in Nat /\ Len(j) \in Nat /\ i \in Nat /\ Len(T) = Len(j) + 1
        BY <1>1, <3>1
      <4>. QED
        BY ONLY <4>1, <4>2
    <3>. QED
      BY <3>2, <3>3
  <2>. QED
    BY <2>1, <2>2
<1>. QED
  BY <1>3 DEF Whole, T, j

(* Two connections that have the lease of one session are one. *)
LEMMA OneHolder ==
  ASSUME IInv, NEW t \in Connections, NEW u \in Connections, Current(t), Current(u),
         connections[t].session = connections[u].session
  PROVE  t = u
  BY DEF IInv, LeaseInv, Current

(* Settled says nothing of a session but its journal and its last sequence.  *)
LEMMA SettledSame ==
  ASSUME NEW k, NEW s, NEW z, NEW t, z.last = s.last, z.journal = s.journal, Settled(k, s, t)
  PROVE  Settled(k, z, t)
  BY DEF Settled, OneFrame

(* The entries that the task of t adds to the journal of its session. *)
Adds(t, s, z) ==
  /\ z.last >= s.last
  /\ \A e \in Entries(z.journal) : e \in Entries(s.journal) \/ (e.seq > s.last /\ e.by = t)

(* A task's step on its connection keeps the journals sound when it keeps    *)
(* the one it feeds.                                                         *)
LEMMA TaskKeepsJournal ==
  ASSUME IInv, JournalInv, NEW t \in Connections, NEW r \in ConnectionType, Steps(t, r),
         UNCHANGED clients, DOMAIN sessions' = Known, r.counter >= connections[t].counter,
         \A x \in Known :
           /\ sessions'[x].gen = sessions[x].gen
           /\ Whole(sessions'[x])
           /\ sessions'[x].last \in Nat
           /\ x # connections[t].session \/ ~Current(t) =>
                sessions'[x].journal = sessions[x].journal /\ sessions'[x].last = sessions[x].last,
         Current(t) =>
           /\ Settled(r, sessions'[connections[t].session], t)
           /\ Adds(t, sessions[connections[t].session], sessions'[connections[t].session])
  PROVE  JournalInv'
<1> DEFINE k == connections[t]
<1>1. DOMAIN connections' = Connections
      /\ \A u \in Connections : connections'[u] = IF u = t THEN r ELSE connections[u]
  BY TypeParts, ConnectionFields DEF IInv, Steps, Update
<1>2. (Connections)' = Connections /\ (Known)' = Known
  BY <1>1 DEF Connections, Known
<1>3. \A u \in Connections : /\ Current(u)' <=> Current(u)
                             /\ connections'[u].session = connections[u].session
  BY <1>1, <1>2 DEF Current, Steps
<1>4. JournalsWhole'
  BY <1>2 DEF JournalsWhole
<1>5. HoldersSettled'
  <2> SUFFICES ASSUME NEW u \in Connections, Current(u)
               PROVE  Settled(connections'[u], sessions'[connections'[u].session], u)
    BY <1>2, <1>3 DEF HoldersSettled
  <2> DEFINE s == connections[u].session
  <2>1. s \in Known /\ connections'[u].session = s
    BY <1>3 DEF Current
  <2>2. CASE u = t
    BY <1>1, <2>1, <2>2
  <2>3. CASE u # t
    <3>1. s # k.session \/ ~Current(t)
      BY <2>3, OneHolder
    <3>2. Settled(connections[u], sessions[s], u)
      BY DEF JournalInv, HoldersSettled
    <3>3. Settled(connections[u], sessions'[s], u)
      BY <2>1, <3>1, <3>2, SettledSame
    <3>. QED
      BY <1>1, <2>1, <2>3, <3>3
  <2>. QED
    BY <2>2, <2>3
<1>6. Owned'
  <2>1. \A c \in Clients : (Reads(c)' <=> Reads(c)) /\ clients'[c] = clients[c]
    BY DEF Reads
  <2>2. \A c \in Clients : Reads(c) => clients[c].connection \in Connections
    BY DEF IInv, Attached, Reads
  <2>3. \A c \in Clients : (Owns(c))' = Owns(c)
    BY <1>3, <2>1, <2>2 DEF Owns
  <2>4. ASSUME NEW c \in Clients, Reads(c)
        PROVE  Follows(clients[c], connections[clients[c].connection], Current(clients[c].connection))'
    <3> DEFINE u == clients[c].connection
    <3>1. Follows(clients[c], connections[u], Current(u)) /\ u \in Connections
      BY <2>2, <2>4 DEF JournalInv, Owned
    <3>2. connections'[u].session = connections[u].session /\ (Current(u)' <=> Current(u))
      BY <1>3, <3>1
    <3>. QED
      BY <1>2, <3>1, <3>2 DEF Follows
  <2>. QED
    BY <1>2, <2>1, <2>3, <2>4 DEF JournalInv, Owned
<1>7. CursorsAgree'
  <2> SUFFICES ASSUME NEW c \in Clients, NEW m, m = clients[c], m.session \in Known
               PROVE  /\ \A e \in Entries(sessions'[m.session].journal) : e.seq = m.cursor => e.by = m.by
                      /\ m.cursor > sessions'[m.session].last =>
                           \A u \in Connections : connections'[u].session = m.session /\ Current(u) =>
                             m.by = u /\ m.cursor <= connections'[u].counter
    BY <1>2, <1>3 DEF CursorsAgree, Agrees
  <2> DEFINE s == m.session
  <2>1. /\ \A e \in Entries(sessions[s].journal) : e.seq = m.cursor => e.by = m.by
        /\ m.cursor > sessions[s].last =>
             \A u \in Connections : connections[u].session = s /\ Current(u) =>
               m.by = u /\ m.cursor <= connections[u].counter
    BY DEF JournalInv, CursorsAgree, Agrees
  <2>2. m.cursor \in Nat /\ sessions[s].last \in Nat /\ sessions'[s].last \in Nat
    BY SessionTypes, TypeParts, Bounds DEF IInv, ClientsOK, ClientType
  <2>3. \A u \in Connections : connections'[u].counter \in Nat /\ connections[u].counter \in Nat
                               /\ connections'[u].counter >= connections[u].counter
    <3> SUFFICES ASSUME NEW u \in Connections
                 PROVE  connections'[u].counter \in Nat /\ connections[u].counter \in Nat
                        /\ connections'[u].counter >= connections[u].counter
      OBVIOUS
    <3>1. connections[u].counter \in Nat /\ r.counter \in Nat
      BY OneConnection, Bounds DEF ConnectionType
    <3>2. CASE u = t
      BY <1>1, <3>1, <3>2
    <3>3. CASE u # t
      BY <1>1, <3>1, <3>3
    <3>. QED
      BY <3>2, <3>3
  <2>4. sessions'[s].last >= sessions[s].last /\
        \A e \in Entries(sessions'[s].journal) :
          e \in Entries(sessions[s].journal)
            \/ (e.seq > sessions[s].last /\ Current(t) /\ k.session = s /\ e.by = t)
    <3>1. CASE s # k.session \/ ~Current(t)
      BY <2>2, <3>1
    <3>2. CASE s = k.session /\ Current(t)
      BY <3>2 DEF Adds
    <3>. QED
      BY <3>1, <3>2
  <2>5. ASSUME NEW e \in Entries(sessions'[s].journal), e.seq = m.cursor PROVE e.by = m.by
    <3>1. CASE e \in Entries(sessions[s].journal)
      BY <2>1, <2>5, <3>1
    <3>2. CASE e.seq > sessions[s].last /\ Current(t) /\ k.session = s /\ e.by = t
      BY <2>1, <2>5, <3>2
    <3>. QED
      BY <2>4, <3>1, <3>2
  <2>6. ASSUME m.cursor > sessions'[s].last, NEW u \in Connections,
               connections'[u].session = s, Current(u)
        PROVE  m.by = u /\ m.cursor <= connections'[u].counter
    <3>1. m.cursor > sessions[s].last
      BY <2>2, <2>4, <2>6
    <3>2. m.by = u /\ m.cursor <= connections[u].counter
      BY <1>3, <2>1, <2>6, <3>1
    <3>. QED
      BY <2>2, <2>3, <3>2
  <2>. QED
    BY <2>5, <2>6
<1>. QED
  BY <1>4, <1>5, <1>6, <1>7 DEF JournalInv

(* The types of what is still to be recorded. *)
LEMMA FeedTypes ==
  ASSUME NEW k \in ConnectionType
  PROVE  Held(k) \in Seq(FrameType) /\ Feed(k) \in Seq(FrameType)
<1>1. k.queue \in Seq(FrameType) /\ k.item \in FrameType
  BY StreamTypes
<1>2. Held(k) \in Seq(FrameType)
  BY <1>1 DEF Held
<1>. QED
  BY <1>1, <1>2 DEF Feed

(* The step leaves every journal and every generation alone. *)
JournalsKept ==
  /\ DOMAIN sessions' = Known
  /\ \A x \in Known : /\ sessions'[x].gen = sessions[x].gen
                      /\ sessions'[x].journal = sessions[x].journal
                      /\ sessions'[x].last = sessions[x].last

(* A task that leaves the journals alone. *)
LEMMA TaskJournal ==
  ASSUME IInv, JournalInv, NEW t \in Connections, NEW r \in ConnectionType, Steps(t, r),
         JournalsKept, UNCHANGED clients, r.counter >= connections[t].counter,
         \A s \in SessionType :
           Current(t) /\ Whole(s) /\ Settled(connections[t], s, t) => Settled(r, s, t)
  PROVE  JournalInv'
<1>1. \A x \in Known : /\ Whole(sessions[x]) /\ sessions[x].last \in Nat
                       /\ sessions[x].last >= sessions[x].last
  BY SessionTypes DEF JournalInv, JournalsWhole
<1>2. \A x \in Known : Whole(sessions'[x]) /\ sessions'[x].last \in Nat
  BY <1>1 DEF Whole, JournalsKept
<1>3. ASSUME Current(t)
      PROVE  /\ Settled(r, sessions'[connections[t].session], t)
             /\ Adds(t, sessions[connections[t].session], sessions'[connections[t].session])
  <2> DEFINE s == connections[t].session
  <2>1. s \in Known
    BY <1>3 DEF Current
  <2>2. Settled(connections[t], sessions[s], t)
    BY <1>3 DEF JournalInv, HoldersSettled
  <2>3. Settled(r, sessions[s], t)
    BY <1>1, <1>3, <2>1, <2>2, SessionTypes
  <2>4. Settled(r, sessions'[s], t)
    BY <2>1, <2>3, SettledSame DEF JournalsKept
  <2>5. Adds(t, sessions[s], sessions'[s])
    BY <1>1, <2>1 DEF Adds, JournalsKept
  <2>. QED
    BY <2>4, <2>5
<1>. QED
  BY <1>2, <1>3, TaskKeepsJournal DEF JournalsKept

(* What stays settled: a connection with no frame that was not there, but    *)
(* for unsequenced ones, that feeds no more than it did.                     *)
LEMMA SettledStays ==
  ASSUME NEW k \in ConnectionType, NEW r \in ConnectionType, NEW s \in SessionType, NEW t,
         Settled(k, s, t), r.counter = k.counter,
         \A f \in Within(r) : f \in Within(k) \/ f.seq = 0,
         r.writer # "stopped" => k.writer # "stopped" /\ Dense(Feed(r), s.last),
         r.writer # "stopped" /\ r.main = "live" => k.main = "live" /\ Feed(r) = Feed(k)
  PROVE  Settled(r, s, t)
<1>1. \A f \in Within(r) : OneFrame(f, t, r, s)
  <2> SUFFICES ASSUME NEW f \in Within(r) PROVE OneFrame(f, t, r, s)
    OBVIOUS
  <2>1. CASE f \in Within(k)
    BY <2>1 DEF Settled, OneFrame
  <2>2. CASE f.seq = 0
    <3>1. r.counter \in Nat /\ s.last \in Nat
      BY Bounds DEF ConnectionType, SessionType
    <3>. QED
      BY <2>2, <3>1 DEF OneFrame
  <2>. QED
    BY <2>1, <2>2
<1>. QED
  BY <1>1 DEF Settled

(* The sequence that is issued is a new one, and the next to be recorded. *)
LEMMA IssueJournal ==
  ASSUME IInv, JournalInv, NEW t \in Connections, Issue(t)
  PROVE  JournalInv'
<1> DEFINE k == connections[t]
<1>1. PICK r \in ConnectionType, f \in FrameType :
        /\ Steps(t, r) /\ Wired(k, r) /\ Serving(k) /\ Serving(r) /\ Len(k.queue) < Capacity
        /\ f.seq = k.counter + 1 /\ f.by = t /\ f.kind \in {"update", "begin", "end"}
        /\ r.queue = Append(k.queue, f) /\ r.counter = k.counter + 1
  BY IssueShape
<1>2. k \in ConnectionType /\ k.counter \in Nat /\ k.queue \in Seq(FrameType)
      /\ Held(k) \in Seq(FrameType) /\ Feed(k) \in Seq(FrameType)
  BY OneConnection, StreamTypes, FeedTypes
<1>3. Feed(r) = Append(Feed(k), f)
  <2>1. Held(r) = Held(k)
    BY <1>1 DEF Held, Wired
  <2>2. Held(k) \o Append(k.queue, f) = Append(Held(k) \o k.queue, f)
    <3>1. \A A, B \in Seq(FrameType), e \in FrameType : A \o Append(B, e) = Append(A \o B, e)
      BY Concatenation
    <3>. QED
      BY <1>2, <3>1
  <2>. QED
    BY <1>1, <2>1, <2>2 DEF Feed
<1>4. Within(r) \subseteq Within(k) \cup {f}
  BY <1>1, <1>2, EntriesFacts DEF Within, Wired
<1>5. ASSUME NEW s \in SessionType, Current(t), Settled(k, s, t), Whole(s)
      PROVE  Settled(r, s, t)
  <2>1. s.last \in Nat /\ s.journal \in Seq(FrameType)
    BY Bounds DEF SessionType
  <2>2. Dense(Feed(k), s.last) /\ Reaches(Feed(k), s.last, k.counter) /\ k.counter >= s.last
    BY <1>1, <1>5 DEF Settled, Serving
  <2>3. Dense(Feed(r), s.last)
    <3>1. f.seq > s.last + 1 => \E i \in DOMAIN Feed(k) : Feed(k)[i].seq = f.seq - 1
      BY <1>1, <1>2, <2>1, <2>2 DEF Reaches
    <3>. QED
      BY <1>2, <1>3, <2>1, <2>2, <3>1, DenseAppend
  <2>4. Reaches(Feed(r), s.last, r.counter)
    <3> DEFINE T == Feed(k)
    <3>1. Len(T) + 1 \in DOMAIN Append(T, f) /\ Append(T, f)[Len(T) + 1] = f
      BY <1>2
    <3>. QED
      BY <1>1, <1>3, <3>1 DEF Reaches
  <2>5. \A e \in Entries(s.journal) : e.seq # f.seq
    <3>1. \A e \in Entries(s.journal) : e.seq <= s.last /\ e.seq \in Nat
      BY <1>5, <2>1, WholeEntries, EntriesFacts, FrameFields
    <3>. QED
      BY <1>1, <1>2, <2>1, <2>2, <3>1
  <2>6. \A g \in Within(r) : OneFrame(g, t, r, s)
    <3> SUFFICES ASSUME NEW g \in Within(r) PROVE OneFrame(g, t, r, s)
      OBVIOUS
    <3>1. CASE g = f
      BY <1>1, <1>2, <2>5, <3>1 DEF OneFrame
    <3>2. CASE g # f
      <4>1. OneFrame(g, t, k, s) /\ g \in Within(k)
        BY <1>4, <1>5, <3>2 DEF Settled
      <4>2. g.seq \in Nat
        BY <1>2, <4>1, StreamTypes, EntriesFacts, FrameFields DEF Within
      <4>. QED
        BY <1>1, <1>2, <4>1, <4>2 DEF OneFrame
    <3>. QED
      BY <3>1, <3>2
  <2>. QED
    BY <1>1, <1>2, <2>1, <2>2, <2>3, <2>4, <2>6 DEF Settled
<1>6. JournalsKept /\ UNCHANGED clients /\ r.counter >= k.counter
  BY <1>1, <1>2 DEF Issue, JournalsKept, Known
<1>. QED
  BY <1>1, <1>5, <1>6, TaskJournal

(* A task that leaves the journals alone, and allocates nothing. *)
LEMMA TaskSettles ==
  ASSUME IInv, JournalInv, NEW t \in Connections, NEW r \in ConnectionType, Steps(t, r),
         JournalsKept, UNCHANGED clients, r.counter = connections[t].counter,
         Current(t) =>
           /\ \A f \in Within(r) : f \in Within(connections[t]) \/ f.seq = 0
           /\ r.writer # "stopped" =>
                connections[t].writer # "stopped" /\
                \A e \in Nat : Dense(Feed(connections[t]), e) => Dense(Feed(r), e)
           /\ r.writer # "stopped" /\ r.main = "live" =>
                connections[t].main = "live" /\ Feed(r) = Feed(connections[t])
  PROVE  JournalInv'
<1> DEFINE k == connections[t]
<1>1. k \in ConnectionType /\ r.counter >= k.counter
  BY OneConnection, StreamTypes
<1>2. ASSUME NEW s \in SessionType, Current(t), Settled(k, s, t)
      PROVE  Settled(r, s, t)
  <2>1. s.last \in Nat
    BY Bounds DEF SessionType
  <2>2. r.writer # "stopped" => k.writer # "stopped" /\ Dense(Feed(r), s.last)
    BY <1>2, <2>1 DEF Settled
  <2>. QED
    BY <1>1, <1>2, <2>2, SettledStays
<1>. QED
  BY <1>1, <1>2, TaskJournal

(* The actions of a task that leave the store alone. *)
LEMMA TasksKeepJournals ==
  ASSUME NEW t, Overload(t) \/ TakenOver(t) \/ Leave(t) \/ Take(t) \/ Transmit(t) \/ StopWriter(t)
  PROVE  JournalsKept /\ UNCHANGED clients
  BY DEF Overload, TakenOver, Leave, Take, Transmit, StopWriter, JournalsKept, Known

(* What is dropped for the Close will not be recorded. *)
LEMMA OverloadJournal ==
  ASSUME IInv, JournalInv, NEW t \in Connections, Overload(t)
  PROVE  JournalInv'
<1> DEFINE k == connections[t]
<1>1. PICK r \in ConnectionType, f \in FrameType :
        /\ Steps(t, r) /\ Wired(k, r) /\ r.main = "leaving"
        /\ f = Frame("close", 0, t) /\ r.queue = <<f>> /\ r.counter = k.counter
  BY OverloadShape
<1>2. k \in ConnectionType /\ f.seq = 0 /\ Held(k) \in Seq(FrameType) /\ k.queue \in Seq(FrameType)
  BY <1>1, OneConnection, NoWelcome, FeedTypes, StreamTypes
<1>3. Within(r) \subseteq Within(k) \cup {f}
  BY <1>1, <1>2, StreamTypes, EntriesFacts DEF Within, Wired
<1>4. ASSUME NEW e \in Nat, Dense(Feed(k), e) PROVE Dense(Feed(r), e)
  <2>1. Held(r) = Held(k) /\ Held(k) \o <<f>> = Append(Held(k), f)
    BY <1>1, <1>2, Concatenation DEF Held, Wired
  <2>2. Dense(Held(k), e)
    BY <1>2, <1>4, DensePrefix DEF Feed
  <2>3. ~(f.seq > e + 1)
    BY <1>2
  <2>4. Dense(Append(Held(k), f), e)
    BY <1>2, <2>2, <2>3, DenseAppend
  <2>. QED
    BY <1>1, <2>1, <2>4 DEF Feed
<1>5. r.writer = k.writer
  BY <1>1 DEF Wired
<1>. QED
  BY <1>1, <1>2, <1>3, <1>4, <1>5, TasksKeepJournals, TaskSettles

(* A Close among the frames leaves the rest to be recorded. *)
LEMMA TakenOverJournal ==
  ASSUME IInv, JournalInv, NEW t \in Connections, TakenOver(t)
  PROVE  JournalInv'
<1> DEFINE k == connections[t]
<1>1. PICK r \in ConnectionType, f \in FrameType :
        /\ Steps(t, r) /\ Wired(k, r) /\ r.main = "leaving"
        /\ f = Frame("close", 0, t) /\ r.queue = Ahead(k.queue, f) /\ r.counter = k.counter
  BY TakenOverShape
<1>2. k \in ConnectionType /\ f.seq = 0 /\ k.queue \in Seq(FrameType) /\ r.queue \in Seq(FrameType)
      /\ Held(k) \in Seq(FrameType) /\ Feed(k) \in Seq(FrameType) /\ Feed(r) \in Seq(FrameType)
      /\ Held(r) = Held(k)
  BY <1>1, OneConnection, NoWelcome, FeedTypes, StreamTypes DEF Held, Wired
<1>3. Entries(r.queue) \subseteq Entries(k.queue) \cup {f}
      /\ \A e \in Nat : Dense(Feed(k), e) => Dense(Feed(r), e)
  <2>1. CASE Len(k.queue) = Capacity
    <3>1. r.queue = k.queue
      BY <1>1, <2>1 DEF Ahead
    <3>. QED
      BY <1>2, <3>1 DEF Feed
  <2>2. CASE Len(k.queue) # Capacity
    <3>1. PICK n \in 0 .. Len(k.queue) : Inserted(r.queue, k.queue, f, n)
      BY <1>1, <1>2, <2>2, AheadInserts
    <3>2. Entries(r.queue) \subseteq Entries(k.queue) \cup {f}
      BY <1>2, <3>1, InsertedEntries
    <3>3. Inserted(Feed(r), Feed(k), f, Len(Held(k)) + n) /\ Len(Held(k)) + n \in 0 .. Len(Feed(k))
      BY <1>2, <3>1, PrefixInserts DEF Feed
    <3>. QED
      BY <1>2, <3>2, <3>3, DenseInsert
  <2>. QED
    BY <2>1, <2>2
<1>4. Within(r) \subseteq Within(k) \cup {f} /\ r.writer = k.writer
  BY <1>1, <1>3 DEF Within, Wired
<1>. QED
  BY <1>1, <1>2, <1>3, <1>4, TasksKeepJournals, TaskSettles

(* The loop's end leaves what is queued to be recorded. *)
LEMMA MainJournal ==
  ASSUME IInv, JournalInv, NEW t \in Connections, Leave(t) \/ Release(t)
  PROVE  JournalInv'
<1> DEFINE k == connections[t]
<1>1. PICK r \in ConnectionType :
        /\ Steps(t, r) /\ Wired(k, r) /\ r.main # "live" /\ r.queue = k.queue
        /\ r.counter = k.counter
  BY MainShape
<1>2. Within(r) = Within(k) /\ Feed(r) = Feed(k) /\ r.writer = k.writer
  BY <1>1 DEF Within, Feed, Held, Wired
<1>3. JournalsKept /\ UNCHANGED clients
  <2>1. CASE Leave(t)
    BY <2>1, TasksKeepJournals
  <2>2. CASE Release(t)
    <3>1. \A x \in Known : sessions[x] \in SessionType
      BY SessionTypes
    <3>2. DOMAIN sessions' = Known /\ \A x \in Known :
            /\ sessions'[x].gen = sessions[x].gen /\ sessions'[x].journal = sessions[x].journal
            /\ sessions'[x].last = sessions[x].last
      BY <2>2, <3>1 DEF Release, Released, Known, SessionType
    <3>. QED
      BY <2>2, <3>2 DEF JournalsKept, Release
  <2>. QED
    BY <2>1, <2>2
<1>. QED
  BY <1>1, <1>2, <1>3, TaskSettles

(* The frame taken is the next to be recorded. *)
LEMMA TakeJournal ==
  ASSUME IInv, JournalInv, NEW t \in Connections, Take(t)
  PROVE  JournalInv'
<1> DEFINE k == connections[t]
<1> DEFINE h == Head(k.queue)
<1>1. PICK r \in ConnectionType :
        /\ Steps(t, r) /\ k.writer = "idle" /\ k.queue # <<>> /\ r.wire = k.wire
        /\ r.queue = Tail(k.queue) /\ r.counter = k.counter /\ r.main = k.main
        /\ \/ h.seq # 0 /\ ~Current(t) /\ r.writer = "idle" /\ r.item = k.item
           \/ (h.seq = 0 \/ Current(t)) /\ r.writer = "sending" /\ r.item = h
  BY TakeShape
<1>2. k.queue \in Seq(FrameType) /\ h \in Entries(k.queue) /\ Entries(Tail(k.queue)) \subseteq Entries(k.queue)
  BY <1>1, OneConnection, EntriesFacts
<1>3. ASSUME Current(t) PROVE Feed(r) = Feed(k) /\ Within(r) \subseteq Within(k)
  <2>1. r.writer = "sending" /\ r.item = h
    BY <1>1, <1>3
  <2>2. <<>> \o k.queue = k.queue /\ <<Head(k.queue)>> \o Tail(k.queue) = k.queue
    BY <1>1, <1>2
  <2>. QED
    BY <1>1, <1>2, <2>1, <2>2 DEF Feed, Held, Within
<1>4. k.writer # "stopped"
  BY <1>1
<1>. QED
  BY <1>1, <1>3, <1>4, TasksKeepJournals, TaskSettles

(* A frame that is transmitted is still to be recorded. *)
LEMMA TransmitJournal ==
  ASSUME IInv, JournalInv, NEW t \in Connections, Transmit(t)
  PROVE  JournalInv'
<1> DEFINE k == connections[t]
<1>1. PICK r \in ConnectionType :
        /\ Steps(t, r) /\ k.writer = "sending" /\ r.writer = "sent"
        /\ r.wire = Append(k.wire, k.item) /\ r.item = k.item
        /\ r.queue = k.queue /\ r.counter = k.counter /\ r.main = k.main
  BY TransmitShape
<1>2. Feed(r) = Feed(k)
  BY <1>1 DEF Feed, Held
<1>3. Within(r) \subseteq Within(k)
  <2>1. k.wire \in Seq(FrameType) /\ k.item \in FrameType
    BY OneConnection
  <2>2. Entries(r.wire) = Entries(k.wire) \cup {k.item}
    BY <1>1, <2>1, EntriesFacts
  <2>. QED
    BY <1>1, <2>2 DEF Within
<1>. QED
  BY <1>1, <1>2, <1>3, TasksKeepJournals, TaskSettles

(* A writer that stopped records nothing. *)
LEMMA StopWriterJournal ==
  ASSUME IInv, JournalInv, NEW t \in Connections, StopWriter(t)
  PROVE  JournalInv'
<1> DEFINE k == connections[t]
<1>1. PICK r \in ConnectionType :
        /\ Steps(t, r) /\ r.writer = "stopped" /\ r.wire = k.wire /\ r.item = NoFrame
        /\ r.queue = <<>> /\ r.counter = k.counter
  BY StopWriterShape
<1>2. \A f \in Within(r) : f \in Within(k) \/ f.seq = 0
  BY <1>1, EntriesFacts, NoWelcome DEF Within
<1>. QED
  BY <1>1, <1>2, TasksKeepJournals, TaskSettles

(* The frame in hand is recorded, or was before. *)
LEMMA RecordSettles ==
  ASSUME NEW k \in ConnectionType, NEW r \in ConnectionType, NEW s \in SessionType, NEW z, NEW t,
         Settled(k, s, t), k.writer = "sent", r.wire = k.wire, r.item = NoFrame,
         r.writer \in {"idle", "stopped"}, r.queue = k.queue, r.counter = k.counter, r.main = k.main,
         \/ z.last = s.last /\ k.item.seq <= s.last
         \/ z.last = k.item.seq /\ k.item.seq > s.last,
         \A e \in Entries(z.journal) :
           e \in Entries(s.journal) \/ (e = k.item /\ k.item.seq > s.last)
  PROVE  Settled(r, z, t) /\ k.item.seq <= s.last + 1
<1> DEFINE T == Feed(k)
<1>1. k.item \in FrameType /\ k.item.seq \in Nat /\ k.queue \in Seq(FrameType) /\ k.counter \in Nat
      /\ s.last \in Nat
  BY StreamTypes, FrameFields, Bounds DEF SessionType
<1>2. T \in Seq(FrameType) /\ T # <<>> /\ T[1] = k.item /\ Feed(r) = Tail(T)
  <2>1. T = <<k.item>> \o k.queue /\ Feed(r) = <<>> \o k.queue
    BY DEF Feed, Held
  <2>2. <<>> \o k.queue = k.queue
    BY <1>1
  <2> DEFINE q == k.queue
  <2>3. <<k.item>> \o q \in Seq(FrameType) /\ <<k.item>> \o q # <<>> /\ (<<k.item>> \o q)[1] = k.item
        /\ Tail(<<k.item>> \o q) = q
    BY <1>1
  <2>. QED
    BY <2>1, <2>2, <2>3
<1> HIDE DEF T
<1>3. Dense(T, s.last) /\ (k.main = "live" => Reaches(T, s.last, k.counter))
  BY DEF Settled, T
<1>4. z.last \in Nat /\ z.last >= s.last /\ T[1].seq <= z.last
  BY <1>1, <1>2
<1>5. Dense(Tail(T), z.last) /\ (k.main = "live" => Reaches(Tail(T), z.last, k.counter))
      /\ T[1].seq <= s.last + 1
  BY <1>1, <1>2, <1>3, <1>4, DenseTail
<1>6. OneFrame(k.item, t, k, s) /\ k.counter >= s.last
  BY DEF Settled, Within
<1>7. r.counter >= z.last
  BY <1>1, <1>6 DEF OneFrame
<1>8. \A f \in Within(r) : OneFrame(f, t, r, z)
  <2> SUFFICES ASSUME NEW f \in Within(r) PROVE OneFrame(f, t, r, z)
    OBVIOUS
  <2>1. f \in Within(k) \/ f = NoFrame
    BY DEF Within
  <2>2. CASE f = NoFrame
    BY <1>1, <1>4, <2>2, NoWelcome DEF OneFrame
  <2>3. CASE f \in Within(k)
    <3>1. OneFrame(f, t, k, s) /\ f.seq \in Nat
      BY <1>1, <2>3, StreamTypes, EntriesFacts, FrameFields DEF Settled, Within
    <3>2. f.seq > z.last => f.by = t
      BY <1>1, <1>4, <3>1 DEF OneFrame
    <3>3. ASSUME NEW e \in Entries(z.journal), f.seq # 0, e.seq = f.seq PROVE e.by = f.by
      <4>1. CASE e \in Entries(s.journal)
        BY <3>1, <3>3, <4>1 DEF OneFrame
      <4>2. CASE e = k.item /\ k.item.seq > s.last
        BY <1>6, <3>1, <3>3, <4>2 DEF OneFrame
      <4>. QED
        BY <4>1, <4>2
    <3>. QED
      BY <3>1, <3>2, <3>3 DEF OneFrame
  <2>. QED
    BY <2>1, <2>2, <2>3
<1>. QED
  BY <1>2, <1>5, <1>7, <1>8 DEF Settled

(* What is journaled is the sequence after the last one. *)
LEMMA RecordJournal ==
  ASSUME IInv, JournalInv, NEW t \in Connections, Record(t)
  PROVE  JournalInv'
<1> DEFINE k == connections[t]
<1> DEFINE id == k.session
<1> DEFINE f == k.item
<1>1. PICK r \in ConnectionType :
        /\ Steps(t, r) /\ k.writer = "sent" /\ r.writer \in {"idle", "stopped"}
        /\ r.wire = k.wire /\ r.item = NoFrame
        /\ r.queue = k.queue /\ r.counter = k.counter /\ r.main = k.main
  BY RecordShape
<1>2. k \in ConnectionType /\ f \in FrameType /\ f.seq \in Nat /\ k.counter \in Nat
  BY OneConnection, StreamTypes, FrameFields
<1>3. UNCHANGED clients /\ r.counter >= k.counter
  BY <1>1, <1>2 DEF Record
<1>4. CASE f.seq = 0
  <2>1. JournalsKept
    BY <1>4 DEF Record, JournalsKept, Known
  <2>2. ASSUME NEW s \in SessionType, Settled(k, s, t) PROVE Settled(r, s, t)
    <3>1. f.seq <= s.last
      <4>1. s.last \in Nat
        BY Bounds DEF SessionType
      <4> HIDE DEF f
      <4>. QED
        BY <1>4, <4>1
    <3>. QED
      BY <1>1, <1>2, <2>2, <3>1, RecordSettles
  <2>. QED
    BY <1>1, <1>3, <2>1, <2>2, TaskJournal
<1>5. CASE f.seq # 0
  <2>1. sessions' = Recorded(id, k.gen, f) /\ StoreOK
    BY <1>5, TypeParts DEF Record, IInv
  <2>2. DOMAIN sessions' = Known /\ \A x \in Known : sessions'[x].gen = sessions[x].gen
                                                     /\ sessions'[x].last \in Nat
    <3>1. DOMAIN sessions' = Known /\ \A x \in Known : sessions'[x].gen = sessions[x].gen
                                                       /\ sessions'[x] \in SessionType
      BY <1>2, <2>1, RecordedFacts
    <3>2. \A z \in SessionType : z.last \in Nat
      BY Bounds DEF SessionType
    <3>. QED
      BY <3>1, <3>2
  <2>3. \A x \in Known :
          \/ /\ ~(x = id /\ sessions[x].gen = k.gen /\ f.seq > sessions[x].last)
             /\ sessions'[x].journal = sessions[x].journal /\ sessions'[x].last = sessions[x].last
          \/ /\ x = id /\ sessions[x].gen = k.gen /\ f.seq > sessions[x].last
             /\ sessions'[x].last = f.seq
             /\ \/ sessions'[x].journal = Append(sessions[x].journal, f)
                \/ sessions'[x].journal = Tail(Append(sessions[x].journal, f))
    <3>1. PICK s, gen, g : s = id /\ gen = k.gen /\ g = f
      OBVIOUS
    <3>2. sessions' = Recorded(s, gen, g) /\ StoreOK /\ g \in FrameType
      BY <1>2, <2>1, <3>1
    <3>3. \A x \in Known :
            LET old == sessions[x]
                new == sessions'[x] IN
            \/ /\ ~(x = s /\ old.gen = gen /\ g.seq > old.last)
               /\ new.journal = old.journal /\ new.last = old.last
            \/ /\ x = s /\ old.gen = gen /\ g.seq > old.last /\ new.last = g.seq
               /\ \/ new.journal = Append(old.journal, g)
                  \/ new.journal = Tail(Append(old.journal, g))
      BY ONLY <3>2, RecordedJournal
    <3>. QED
      BY ONLY <3>1, <3>3
  <2>4. Current(t) <=> id \in Known /\ sessions[id].gen = k.gen
    BY DEF Current
  <2>5. ASSUME NEW x \in Known, x # id \/ ~Current(t)
        PROVE  sessions'[x].journal = sessions[x].journal /\ sessions'[x].last = sessions[x].last
    BY <2>3, <2>4, <2>5
  <2>6. ASSUME Current(t)
        PROVE  /\ Settled(r, sessions'[id], t) /\ Adds(t, sessions[id], sessions'[id])
               /\ Whole(sessions'[id])
    <3> DEFINE s == sessions[id]
    <3> DEFINE z == sessions'[id]
    <3>1. id \in Known /\ sessions[id].gen = k.gen
      BY <2>4, <2>6
    <3>2. s \in SessionType /\ s.journal \in Seq(FrameType) /\ s.last \in Nat /\ Whole(s)
          /\ Settled(k, s, t)
      BY <2>6, <3>1, SessionTypes DEF JournalInv, JournalsWhole, HoldersSettled
    <3>3. CASE f.seq <= s.last /\ z.journal = s.journal /\ z.last = s.last
      <4>1. Settled(r, z, t)
        BY <1>1, <1>2, <3>2, <3>3, RecordSettles
      <4>2. Whole(z)
        BY <3>2, <3>3 DEF Whole
      <4>3. Adds(t, s, z)
        BY <3>2, <3>3 DEF Adds
      <4>. QED
        BY <4>1, <4>2, <4>3
    <3>4. CASE f.seq > s.last /\ z.last = f.seq /\ z.journal \in {Append(s.journal, f), Tail(Append(s.journal, f))}
      <4> DEFINE j == Append(s.journal, f)
      <4>1. j \in Seq(FrameType) /\ j # <<>> /\ Entries(j) = Entries(s.journal) \cup {f}
        BY <1>2, <3>2, EntriesFacts
      <4> HIDE DEF j
      <4>2. Entries(z.journal) \subseteq Entries(s.journal) \cup {f}
        BY <3>4, <4>1, EntriesFacts DEF j
      <4>3. Settled(r, z, t) /\ f.seq <= s.last + 1
        BY <1>1, <1>2, <3>2, <3>4, <4>2, RecordSettles
      <4>4. f.seq = s.last + 1
        <5>1. \A a, b \in Nat : a > b /\ a <= b + 1 => a = b + 1
          OBVIOUS
        <5>2. f.seq \in Nat /\ s.last \in Nat /\ f.seq > s.last /\ f.seq <= s.last + 1
          BY <1>2, <3>2, <3>4, <4>3
        <5> HIDE DEF f, s
        <5>. QED
          BY <5>1, <5>2
      <4> DEFINE w == [journal |-> j, last |-> f.seq]
      <4>5. Whole(w)
        BY <1>2, <3>2, <4>4, WholeAppend DEF j
      <4>6. Whole(z)
        <5>1. CASE z.journal = j
          BY <3>4, <4>5, <5>1 DEF Whole
        <5>2. CASE z.journal = Tail(j)
          <6>1. w.journal = j /\ w.last = f.seq /\ f.seq \in Nat
            BY <1>2
          <6> HIDE DEF w
          <6>2. z.journal = Tail(w.journal) /\ z.last = w.last
            BY <3>4, <5>2, <6>1
          <6>. QED
            BY <4>1, <4>5, <6>1, <6>2, WholeTail
        <5>. QED
          BY <3>4, <5>1, <5>2 DEF j
      <4>7. f.by = t
        BY <3>2, <3>4 DEF Settled, Within, OneFrame
      <4>8. Adds(t, s, z)
        <5>1. f.seq \in Nat /\ s.last \in Nat /\ f.seq > s.last /\ z.last = f.seq
          BY <1>2, <3>2, <3>4
        <5> HIDE DEF f, s, z
        <5>2. z.last >= s.last
          BY <5>1
        <5>3. \A e \in Entries(z.journal) :
                e \in Entries(s.journal) \/ (e.seq > s.last /\ e.by = t)
          <6> TAKE e \in Entries(z.journal)
          <6>1. e \in Entries(s.journal) \/ e = f
            BY <4>2
          <6>. QED
            BY <4>7, <5>1, <6>1
        <5>. QED
          BY <5>2, <5>3 DEF Adds
      <4>. QED
        BY <4>3, <4>6, <4>8
    <3>5. CASE f.seq > s.last
      <4>1. z.last = f.seq /\ z.journal \in {Append(s.journal, f), Tail(Append(s.journal, f))}
        BY <2>3, <3>1, <3>5
      <4>. QED
        BY <3>4, <3>5, <4>1
    <3>6. CASE ~(f.seq > s.last)
      <4>1. z.journal = s.journal /\ z.last = s.last
        BY <2>3, <3>1, <3>6
      <4>2. f.seq <= s.last
        <5>1. \A a, b \in Nat : ~(a > b) => a <= b
          OBVIOUS
        <5> HIDE DEF f, s
        <5>. QED
          BY <1>2, <3>2, <3>6, <5>1
      <4>. QED
        BY <3>3, <4>1, <4>2
    <3>. QED
      BY <3>5, <3>6
  <2>7. \A x \in Known : Whole(sessions'[x])
    <3> SUFFICES ASSUME NEW x \in Known PROVE Whole(sessions'[x])
      OBVIOUS
    <3>1. Whole(sessions[x])
      BY DEF JournalInv, JournalsWhole
    <3>2. CASE x = id /\ Current(t)
      BY <2>6, <3>2
    <3>3. CASE x # id \/ ~Current(t)
      BY <2>5, <3>1, <3>3 DEF Whole
    <3>. QED
      BY <3>2, <3>3
  <2>. QED
    BY <1>1, <1>3, <2>2, <2>5, <2>6, <2>7, TaskKeepsJournal
<1>. QED
  BY <1>4, <1>5

---------------------------------------------------------------------------
(* The store's steps, the readers' and the restart. *)

(* A journal that forgets leaves its holder settled. *)
LEMMA SettledForgets ==
  ASSUME NEW k, NEW s, NEW z, NEW t, z.last = s.last,
         Entries(z.journal) \subseteq Entries(s.journal), Settled(k, s, t)
  PROVE  Settled(k, z, t)
  BY DEF Settled, OneFrame

(* Sessions are forgotten, and the oldest entries of journals. *)
LEMMA StoreForgets ==
  ASSUME IInv, JournalInv, UNCHANGED <<connections, clients>>, (Known)' \subseteq Known,
         \A x \in (Known)' :
           /\ sessions'[x].gen = sessions[x].gen /\ sessions'[x].last = sessions[x].last
           /\ Entries(sessions'[x].journal) \subseteq Entries(sessions[x].journal)
           /\ Whole(sessions'[x])
  PROVE  JournalInv'
<1>1. (Connections)' = Connections
      /\ \A u \in Connections : Current(u)' <=> Current(u) /\ connections[u].session \in (Known)'
  BY DEF Connections, Current
<1>2. JournalsWhole'
  BY DEF JournalsWhole
<1>3. HoldersSettled'
  <2> SUFFICES ASSUME NEW u \in Connections, Current(u)'
               PROVE  Settled(connections[u], sessions'[connections[u].session], u)
    BY <1>1 DEF HoldersSettled
  <2>1. Current(u) /\ connections[u].session \in (Known)'
    BY <1>1
  <2>2. Settled(connections[u], sessions[connections[u].session], u)
    BY <2>1 DEF JournalInv, HoldersSettled
  <2>. QED
    BY <2>1, <2>2, SettledForgets
<1>4. Owned'
  <2>1. \A c \in Clients : (Owns(c))' = Owns(c)
    BY DEF Owns, Reads
  <2>2. ASSUME NEW c \in Clients, Reads(c), NEW u, u = clients[c].connection
        PROVE  Follows(clients[c], connections[u], Current(u))'
    <3>1. Follows(clients[c], connections[u], Current(u)) /\ u \in Connections
      BY <2>2 DEF JournalInv, Owned, IInv, Attached, Reads
    <3>. QED
      BY <1>1, <3>1 DEF Follows
  <2>. QED
    BY <1>1, <2>1, <2>2 DEF JournalInv, Owned, Reads
<1>5. CursorsAgree'
  <2> SUFFICES ASSUME NEW c \in Clients, NEW m, m = clients[c], m.session \in (Known)'
               PROVE  /\ \A e \in Entries(sessions'[m.session].journal) : e.seq = m.cursor => e.by = m.by
                      /\ m.cursor > sessions'[m.session].last =>
                           \A u \in Connections : connections[u].session = m.session /\ Current(u)' =>
                             m.by = u /\ m.cursor <= connections[u].counter
    BY <1>1 DEF CursorsAgree, Agrees
  <2>1. /\ \A e \in Entries(sessions[m.session].journal) : e.seq = m.cursor => e.by = m.by
        /\ m.cursor > sessions[m.session].last =>
             \A u \in Connections : connections[u].session = m.session /\ Current(u) =>
               m.by = u /\ m.cursor <= connections[u].counter
    BY DEF JournalInv, CursorsAgree, Agrees
  <2>. QED
    BY <1>1, <2>1
<1>. QED
  BY <1>2, <1>3, <1>4, <1>5 DEF JournalInv

(* An entry ages out. *)
LEMMA AgeJournal ==
  ASSUME IInv, JournalInv, NEW s \in Known, Age(s)
  PROVE  JournalInv'
<1>1. \A x \in Known : sessions[x] \in SessionType /\ sessions[x].journal \in Seq(FrameType)
                       /\ sessions[x].last \in Nat /\ Whole(sessions[x])
  BY SessionTypes DEF JournalInv, JournalsWhole
<1>2. sessions' = [sessions EXCEPT ![s].journal = Tail(sessions[s].journal)]
      /\ sessions[s].journal # <<>> /\ UNCHANGED <<connections, clients>>
  BY DEF Age
<1>3. (Known)' = Known /\ \A x \in Known :
        /\ sessions'[x].gen = sessions[x].gen /\ sessions'[x].last = sessions[x].last
        /\ sessions'[x].journal = IF x = s THEN Tail(sessions[s].journal) ELSE sessions[x].journal
  BY <1>1, <1>2 DEF Known, SessionType
<1>4. ASSUME NEW x \in Known
      PROVE  /\ Entries(sessions'[x].journal) \subseteq Entries(sessions[x].journal)
             /\ Whole(sessions'[x])
  <2>1. CASE x = s
    <3>1. sessions'[x].journal = Tail(sessions[x].journal) /\ sessions[x].journal # <<>>
          /\ sessions'[x].last = sessions[x].last
      BY <1>2, <1>3, <2>1
    <3>. QED
      BY <1>1, <3>1, EntriesFacts, WholeTail
  <2>2. CASE x # s
    BY <1>1, <1>3, <2>2 DEF Whole
  <2>. QED
    BY <2>1, <2>2
<1>. QED
  BY <1>2, <1>3, <1>4, StoreForgets

(* An idle session is forgotten. *)
LEMMA PruneJournal ==
  ASSUME IInv, JournalInv, NEW s \in Known, Prune(s)
  PROVE  JournalInv'
<1>1. (Known)' = Known \ {s} /\ \A x \in Known \ {s} : sessions'[x] = sessions[x]
  BY DEF Prune, Known
<1>. QED
  BY <1>1, StoreForgets DEF Prune, JournalInv, JournalsWhole

(* After a restart there is no journal, no lease and no reader. *)
LEMMA RestartJournal ==
  ASSUME IInv, JournalInv, Restart
  PROVE  JournalInv'
<1>1. (Known)' = {} /\ (Connections)' = Connections
  <2>1. sessions' = <<>> /\ DOMAIN connections' = Connections
    BY DEF Restart
  <2>. QED
    BY <2>1 DEF Known, Connections
<1>2. \A c \in Clients : clients'[c].phase \notin {"connecting", "ready"}
                         /\ clients'[c].session = clients[c].session
  <2>1. \A c \in Clients : clients[c] \in ClientType
    BY TypeParts DEF IInv, ClientsOK
  <2>. QED
    BY <2>1 DEF Restart, ClientType
<1>3. \A c \in Clients : (Owns(c))' \subseteq Owns(c) /\ ~Reads(c)'
  BY <1>2 DEF Owns, Reads
<1>4. Owned'
  BY <1>1, <1>3 DEF JournalInv, Owned
<1>. QED
  BY <1>1, <1>4 DEF JournalInv, JournalsWhole, HoldersSettled, CursorsAgree, Agrees, Current

(* A client's step on the connection it reads: what is on the wire is        *)
(* applied or lost, and the client is told the session it has, or keeps its. *)
LEMMA ReaderJournal ==
  ASSUME IInv, JournalInv, NEW c \in Clients, Reads(c), NEW t, t = clients[c].connection,
         NEW r \in ConnectionType, r.session = connections[t].session, r.gen = connections[t].gen,
         Held(r) = Held(connections[t]), r.queue = connections[t].queue, r.item = connections[t].item,
         r.writer = connections[t].writer,
         r.main = connections[t].main, r.counter = connections[t].counter,
         Within(r) \subseteq Within(connections[t]),
         connections' = [connections EXCEPT ![t] = r],
         NEW m \in ClientType, m.connection = t, clients' = [clients EXCEPT ![c] = m],
         UNCHANGED sessions, m.session \in {clients[c].session, r.session},
         m.phase \in {"connecting", "ready"} => Follows(m, r, Current(t)),
         Agrees(m)
  PROVE  JournalInv'
<1>1. t \in Connections /\ \A d \in Clients : clients'[d] = IF d = c THEN m ELSE clients[d]
  BY TypeParts DEF IInv, Attached, Reads, ClientsOK
<1>2. DOMAIN connections' = Connections
      /\ \A u \in Connections : connections'[u] = IF u = t THEN r ELSE connections[u]
  BY <1>1, TypeParts, ConnectionFields DEF IInv
<1>3. (Connections)' = Connections /\ (Known)' = Known
  BY <1>2 DEF Connections, Known
<1>4. \A u \in Connections : /\ connections'[u].session = connections[u].session
                             /\ connections'[u].counter = connections[u].counter
                             /\ Current(u)' <=> Current(u)
  <2>1. \A u \in Connections : /\ connections'[u].session = connections[u].session
                               /\ connections'[u].gen = connections[u].gen
                               /\ connections'[u].counter = connections[u].counter
    BY <1>2
  <2>. QED
    BY <1>3, <2>1 DEF Current
<1>5. JournalsWhole'
  BY <1>3 DEF JournalInv, JournalsWhole
<1>6. HoldersSettled'
  <2> SUFFICES ASSUME NEW u \in Connections, Current(u)
               PROVE  Settled(connections'[u], sessions[connections[u].session], u)
    BY <1>3, <1>4 DEF HoldersSettled
  <2>1. Settled(connections[u], sessions[connections[u].session], u)
    BY DEF JournalInv, HoldersSettled
  <2>2. CASE u = t
    <3>1. Feed(r) = Feed(connections[t])
      BY DEF Feed
    <3>2. Settled(r, sessions[connections[t].session], t)
      BY <2>1, <2>2, <3>1 DEF Settled, OneFrame
    <3>. QED
      BY <1>2, <2>2, <3>2
  <2>3. CASE u # t
    BY <1>2, <2>1, <2>3
  <2>. QED
    BY <2>2, <2>3
<1>7. \A d \in Clients : d # c => (Reads(d)' <=> Reads(d)) /\ (Owns(d))' = Owns(d)
  <2> SUFFICES ASSUME NEW d \in Clients, d # c PROVE (Reads(d)' <=> Reads(d)) /\ (Owns(d))' = Owns(d)
    OBVIOUS
  <2>1. clients'[d] = clients[d] /\ (Reads(d) => clients[d].connection \in Connections)
    BY <1>1 DEF IInv, Attached, Reads
  <2>. QED
    BY <1>4, <2>1 DEF Owns, Reads
<1>8. (Owns(c))' \subseteq Owns(c)
  <2>1. clients'[c] = m /\ connections'[t].session = r.session
    BY <1>1, <1>2
  <2>. QED
    BY <2>1 DEF Owns, Reads
<1>9. Owned'
  <2>1. ASSUME NEW d \in Clients, Reads(d)', NEW u, u = clients'[d].connection
        PROVE  u \in Connections /\ Follows(clients'[d], connections'[u], Current(u)')
    <3>1. CASE d = c
      <4>1. clients'[d] = m /\ u = t /\ connections'[u] = r /\ m.phase \in {"connecting", "ready"}
        BY <1>1, <1>2, <2>1, <3>1 DEF Reads
      <4>2. Current(u)' <=> Current(t)
        BY <1>1, <1>4, <4>1
      <4>3. Follows(m, r, Current(t))
        BY <4>1
      <4>. QED
        BY <1>1, <4>1, <4>2, <4>3 DEF Follows
    <3>2. CASE d # c
      <4>1. clients'[d] = clients[d] /\ Reads(d) /\ u = clients[d].connection /\ u \in Connections
        BY <1>1, <2>1, <3>2 DEF Reads, IInv, Attached
      <4>2. Follows(clients[d], connections[u], Current(u)) /\ (Current(u)' <=> Current(u))
            /\ connections'[u].session = connections[u].session
        BY <1>4, <4>1 DEF JournalInv, Owned
      <4>. QED
        BY <4>1, <4>2 DEF Follows
    <3>. QED
      BY <3>1, <3>2
  <2>3. \A d \in Clients : (Owns(d))' \subseteq Owns(d)
    BY <1>7, <1>8
  <2>4. (\A d, e \in Clients : d # e => (Owns(d))' \cap (Owns(e))' = {})
        /\ \A d \in Clients : (Owns(d))' \subseteq Connections
    BY <2>3 DEF JournalInv, Owned
  <2>5. ASSUME NEW d \in Clients, Reads(d)', NEW u, u = clients'[d].connection
        PROVE  /\ connections'[u].session \in (Known)' => Current(u)'
               /\ clients'[d].phase = "ready" => connections'[u].session = clients'[d].session
               /\ clients'[d].phase = "connecting" =>
                    (connections'[u].session = clients'[d].session
                       <=> connections'[u].session # clients'[d].connection)
    BY <1>3, <2>1, <2>5 DEF Follows
  <2>. QED
    BY <1>3, <2>4, <2>5 DEF Owned, Follows
<1>10. CursorsAgree'
  <2>1. \A d \in Clients : Agrees(clients'[d])
    BY <1>1 DEF JournalInv, CursorsAgree
  <2>2. ASSUME NEW d \in Clients, NEW n, n = clients'[d], n.session \in Known
        PROVE  /\ \A e \in Entries(sessions[n.session].journal) : e.seq = n.cursor => e.by = n.by
               /\ n.cursor > sessions[n.session].last =>
                    \A u \in Connections : connections'[u].session = n.session /\ Current(u)' =>
                      n.by = u /\ n.cursor <= connections'[u].counter
    BY <1>4, <2>1, <2>2 DEF Agrees
  <2>. QED
    BY <1>3, <2>2 DEF CursorsAgree, Agrees
<1>. QED
  BY <1>5, <1>6, <1>9, <1>10 DEF JournalInv

(* A client that loses its transport keeps what it applied. *)
LEMMA LostJournal ==
  ASSUME IInv, JournalInv, NEW c \in Clients, Reads(c),
         clients' = [clients EXCEPT ![c].phase = "lost", ![c].assembling = FALSE],
         connections' = Detached(clients[c].connection), UNCHANGED sessions
  PROVE  JournalInv'
<1> DEFINE t == clients[c].connection
<1> DEFINE k == connections[t]
<1> DEFINE r == [k EXCEPT !.up = FALSE, !.wire = <<>>]
<1> DEFINE m == [clients[c] EXCEPT !.phase = "lost", !.assembling = FALSE]
<1>1. t \in Connections /\ clients[c] \in ClientType
  BY TypeParts DEF IInv, Attached, Reads, ClientsOK
<1>2. connections' = [connections EXCEPT ![t] = r] /\ r \in ConnectionType
  BY <1>1, DetachedFacts
<1>3. k \in ConnectionType
  BY <1>1, OneConnection
<1>4. /\ r.session = k.session /\ r.gen = k.gen /\ r.queue = k.queue /\ r.item = k.item
      /\ r.writer = k.writer /\ r.main = k.main /\ r.counter = k.counter /\ r.wire = <<>>
  BY <1>3 DEF ConnectionType
<1>5. /\ m \in ClientType /\ m.connection = t /\ m.phase = "lost" /\ m.session = clients[c].session
      /\ m.cursor = clients[c].cursor /\ m.by = clients[c].by
  BY <1>1 DEF ClientType
<1>6. clients' = [clients EXCEPT ![c] = m]
  BY <1>1
<1> HIDE DEF r, m
<1>7. Held(r) = Held(k) /\ Within(r) \subseteq Within(k)
  BY <1>4, EntriesFacts DEF Held, Within
<1>8. Agrees(m)
  BY <1>5 DEF JournalInv, CursorsAgree, Agrees
<1>9. (m.phase \in {"connecting", "ready"} => Follows(m, r, Current(t)))
      /\ m.session \in {clients[c].session, r.session}
  BY <1>5
<1> HIDE DEF k
<1>10. /\ connections' = [connections EXCEPT ![t] = r] /\ r.session = connections[t].session
       /\ r.gen = connections[t].gen /\ Held(r) = Held(connections[t])
       /\ r.queue = connections[t].queue /\ r.item = connections[t].item
       /\ r.writer = connections[t].writer /\ r.main = connections[t].main
       /\ r.counter = connections[t].counter /\ Within(r) \subseteq Within(connections[t])
  BY <1>2, <1>4, <1>7 DEF k
<1>. QED
  BY <1>2, <1>5, <1>6, <1>8, <1>9, <1>10, ReaderJournal

(* What a ready client applies under the next sequence is what its session   *)
(* recorded, or what the holder of the lease will record.                    *)
LEMMA AppliedAgrees ==
  ASSUME IInv, JournalInv, NEW c \in Clients, Reads(c), NEW m, m = clients[c], m.phase = "ready",
         NEW k, k = connections[m.connection], NEW f \in Within(k), f.seq # 0,
         NEW n, n.session = m.session, n.cursor = f.seq, n.by = f.by
  PROVE  Agrees(n)
<1>1. m.connection \in Connections
  BY DEF IInv, Attached, Reads
<1>2. Follows(m, k, Current(m.connection))
  BY DEF JournalInv, Owned
<1> SUFFICES ASSUME m.session \in Known PROVE Agrees(n)
  BY DEF Agrees
<1>3. k.session = m.session /\ Current(m.connection)
  BY <1>2 DEF Follows
<1>4. OneFrame(f, m.connection, k, sessions[m.session])
  BY <1>1, <1>3 DEF JournalInv, HoldersSettled, Settled
<1>5. \A u \in Connections : connections[u].session = m.session /\ Current(u) => u = m.connection
  BY <1>1, <1>3, OneHolder
<1>. QED
  BY <1>4, <1>5 DEF Agrees, OneFrame

(* What a client is welcomed to. *)
LEMMA WelcomeAgrees ==
  ASSUME IInv, JournalInv, NEW c \in Clients, Reads(c), NEW m, m = clients[c], m.phase = "connecting",
         NEW k, k = connections[m.connection], NEW f, f.kind \in {"fresh", "resumed"},
         Plain(f, m.connection, k.session),
         NEW n, n.session = k.session, n.cursor = IF f.kind = "fresh" THEN 0 ELSE m.cursor,
         n.by = IF f.kind = "fresh" THEN 0 ELSE m.by
  PROVE  Agrees(n)
<1>1. CASE f.kind = "fresh"
  <2> SUFFICES ASSUME n.session \in Known PROVE Agrees(n)
    BY DEF Agrees
  <2>1. /\ sessions[n.session].journal \in Seq(FrameType) /\ sessions[n.session].last \in Nat
        /\ Whole(sessions[n.session])
    BY SessionTypes DEF JournalInv, JournalsWhole
  <2>2. \A e \in Entries(sessions[n.session].journal) : e.seq # 0
    BY <2>1, WholeEntries
  <2>3. ~(0 > sessions[n.session].last)
    BY <2>1
  <2>. QED
    BY <1>1, <2>2, <2>3 DEF Agrees
<1>2. CASE f.kind = "resumed"
  <2>1. Follows(m, k, Current(m.connection))
    BY DEF JournalInv, Owned
  <2>2. n.session = m.session
    BY <1>2, <2>1 DEF Plain, Follows
  <2>. QED
    BY <1>2, <2>2 DEF JournalInv, CursorsAgree, Agrees
<1>. QED
  BY <1>1, <1>2

(* The next frame on the wire. *)
LEMMA ReceiveJournal ==
  ASSUME IInv, GapInv, JournalInv, NEW c \in Clients, Receive(c)
  PROVE  JournalInv'
<1> DEFINE m == clients[c]
<1> DEFINE t == m.connection
<1> DEFINE k == connections[t]
<1> DEFINE f == Head(k.wire)
<1>1. Reads(c) /\ t \in Connections /\ m \in ClientType /\ k.wire # <<>>
      /\ instance \in Nat /\ m.phase \in {"connecting", "ready"} /\ UNCHANGED sessions
  BY TypeParts, Bounds DEF IInv, Attached, Receive, Reads, ClientsOK
<1>2. k \in ConnectionType /\ k.wire \in Seq(FrameType) /\ f \in FrameType
      /\ Tail(k.wire) \in Seq(FrameType)
  BY <1>1, OneConnection
<1>3. f \in Within(k) /\ Plain(f, t, k.session)
  <2>1. f \in Within(k)
    BY <1>1, <1>2, EntriesFacts DEF Within
  <2>. QED
    BY <1>1, <2>1 DEF GapInv, FramesPlain
<1>4. InStep(m, k, Current(t)) /\ Follows(m, k, Current(t)) /\ Agrees(m)
  BY <1>1 DEF GapInv, ReadersInStep, JournalInv, Owned, CursorsAgree
<1>5. Stream(k) \in Seq(FrameType) /\ Stream(k) # <<>> /\ Stream(k)[1] = f /\ 1 \in DOMAIN Stream(k)
  <2> DEFINE r == [k EXCEPT !.wire = Tail(@)]
  <2>1. r \in ConnectionType /\ r.wire = Tail(k.wire) /\ r.item = k.item /\ r.writer = k.writer
        /\ r.queue = k.queue
    BY <1>2 DEF ConnectionType
  <2> HIDE DEF r, k
  <2>2. Stream(k) # <<>> /\ Stream(k)[1] = f
    BY <1>1, <1>2, <2>1, WireTail
  <2>3. Stream(k) \in Seq(FrameType)
    BY <1>2, StreamTypes
  <2>. QED
    BY <2>2, <2>3
<1> DEFINE Shorter(r) ==
      /\ r \in ConnectionType /\ r.session = k.session /\ r.gen = k.gen /\ r.queue = k.queue
      /\ r.item = k.item /\ r.writer = k.writer /\ r.main = k.main /\ r.counter = k.counter
      /\ r.wire = Tail(k.wire)
<1>6. \A r : Shorter(r) => Held(r) = Held(k) /\ Within(r) \subseteq Within(k)
  BY <1>1, <1>2, EntriesFacts DEF Held, Within
<1>7. CASE /\ f.kind \in {"fresh", "resumed"}
           /\ clients' = [clients EXCEPT ![c] = ApplyWelcome(m, k, f)]
           /\ connections' = [connections EXCEPT ![t].wire = Tail(@),
                                ![t].snap = IF Listing THEN "wanted" ELSE @]
  <2> DEFINE r == [k EXCEPT !.wire = Tail(@), !.snap = IF Listing THEN "wanted" ELSE @]
  <2> DEFINE n == ApplyWelcome(m, k, f)
  <2>1. Shorter(r)
    BY <1>2 DEF ConnectionType
  <2>2. connections' = [connections EXCEPT ![t] = r]
    BY <1>1, <1>7 DEF Connections
  <2>3. n \in ClientType
    BY <1>1, <1>2, ApplyTypes
  <2>4. n.connection = t /\ n.phase = "ready" /\ n.session = k.session
        /\ n.cursor = (IF f.kind = "fresh" THEN 0 ELSE m.cursor)
        /\ n.by = (IF f.kind = "fresh" THEN 0 ELSE m.by)
    BY <1>1 DEF ApplyWelcome, ClientType
  <2>5. m.phase = "connecting"
    BY <1>1, <1>4, <1>5, <1>7 DEF InStep, IsWelcome
  <2>6. clients' = [clients EXCEPT ![c] = n]
    BY <1>7
  <2> HIDE DEF n, r
  <2>7. Agrees(n)
    <3>1. Reads(c) /\ f.kind \in {"fresh", "resumed"} /\ Plain(f, m.connection, k.session)
      BY <1>1, <1>3, <1>7
    <3>2. /\ n.session = k.session
          /\ n.cursor = (IF f.kind = "fresh" THEN 0 ELSE m.cursor)
          /\ n.by = (IF f.kind = "fresh" THEN 0 ELSE m.by)
      BY <2>4
    <3> HIDE DEF f
    <3>. QED
      BY <2>5, <3>1, <3>2, WelcomeAgrees
  <2>8. Follows(n, r, Current(t)) /\ n.session \in {m.session, r.session}
    BY <1>4, <2>1, <2>4 DEF Follows
  <2>. QED
    BY <1>1, <1>6, <2>1, <2>2, <2>3, <2>4, <2>6, <2>7, <2>8, ReaderJournal
<1>8. CASE /\ f.kind = "close"
           /\ clients' = [clients EXCEPT ![c].phase = "lost", ![c].assembling = FALSE]
           /\ connections' = Detached(t)
  BY <1>1, <1>8, LostJournal
<1>9. CASE /\ f.seq # 0
           /\ clients' = [clients EXCEPT ![c] =
                IF f.seq = m.cursor + 1 THEN ApplySequenced(m, f)
                ELSE [m EXCEPT !.gap = @ \/ f.seq > m.cursor + 1]]
           /\ connections' = [connections EXCEPT ![t].wire = Tail(@)]
  <2> DEFINE r == [k EXCEPT !.wire = Tail(@)]
  <2>1. Shorter(r)
    BY <1>2 DEF ConnectionType
  <2>2. connections' = [connections EXCEPT ![t] = r]
    BY <1>1, <1>9 DEF Connections
  <2>3. m.phase = "ready"
    BY <1>1, <1>3, <1>4, <1>5, <1>9 DEF InStep, Opens, Plain
  <2>4. \A n : n.session = m.session /\ n.phase \in {"ready", "failed"} => Follows(n, r, Current(t))
    BY <1>4, <2>1, <2>3 DEF Follows
  <2> HIDE DEF r
  <2>5. CASE f.seq = m.cursor + 1
    <3> DEFINE n == ApplySequenced(m, f)
    <3>1. n \in ClientType /\ n.connection = t
      BY <1>1, <1>2, ApplyTypes
    <3>2. n.session = m.session /\ n.phase \in {"ready", "failed"}
          /\ ((n.cursor = m.cursor /\ n.by = m.by) \/ (n.cursor = f.seq /\ n.by = f.by))
      BY <1>1, <2>3 DEF ApplySequenced, ClientType
    <3>3. clients' = [clients EXCEPT ![c] = n]
      BY <1>9, <2>5
    <3> HIDE DEF n
    <3>4. Agrees(n)
      <4>1. CASE n.cursor = m.cursor /\ n.by = m.by
        BY <1>4, <3>2, <4>1 DEF Agrees
      <4>2. CASE n.cursor = f.seq /\ n.by = f.by
        BY <1>1, <1>3, <1>9, <2>3, <3>2, <4>2, AppliedAgrees
      <4>. QED
        BY <3>2, <4>1, <4>2
    <3>. QED
      BY <1>1, <1>6, <2>1, <2>2, <2>4, <3>1, <3>2, <3>3, <3>4, ReaderJournal
  <2>6. CASE f.seq # m.cursor + 1
    <3> DEFINE n == [m EXCEPT !.gap = @ \/ f.seq > m.cursor + 1]
    <3>1. n \in ClientType
      BY <1>1, <1>2, ApplyTypes
    <3>2. n.session = m.session /\ n.phase = m.phase /\ n.connection = t /\ n.cursor = m.cursor
          /\ n.by = m.by
      BY <1>1 DEF ClientType
    <3>3. clients' = [clients EXCEPT ![c] = n]
      BY <1>9, <2>6
    <3> HIDE DEF n
    <3>4. Agrees(n)
      BY <1>4, <3>2 DEF Agrees
    <3>. QED
      BY <1>1, <1>6, <2>1, <2>2, <2>3, <2>4, <3>1, <3>2, <3>3, <3>4, ReaderJournal
  <2>. QED
    BY <2>5, <2>6
<1>. QED
  BY <1>7, <1>8, <1>9 DEF Receive

(* What a claim makes of the store: the session of the connection it adds is *)
(* that connection's own, or the one its client named, whose journal reaches *)
(* the client's cursor.                                                      *)
Stores(c, t, k) ==
  /\ \A x \in (Known)' : x # t => x \in Known /\ sessions'[x].journal = sessions[x].journal
                                  /\ sessions'[x].last = sessions[x].last
  /\ \A x \in (Known)' : x # k.session => sessions'[x].gen = sessions[x].gen
  /\ \A x \in (Known)' : Whole(sessions'[x])
  /\ \/ k.session = t
     \/ /\ k.session = clients[c].session /\ k.session \in Known
        /\ clients[c].cursor <= sessions[k.session].last
  /\ Settled(k, sessions'[k.session], t)

(* A claim. *)
LEMMA ClaimedJournal ==
  ASSUME IInv, JournalInv, NEW c \in Clients, NEW t \in Numbers, NEW k \in ConnectionType,
         Claimed(c, t, k), \A u \in Connections : Current(u)' => Current(u), Stores(c, t, k)
  PROVE  JournalInv'
<1> DEFINE n == [clients[c] EXCEPT !.phase = "connecting", !.connection = t]
<1>1. n.phase = "connecting" /\ n.connection = t /\ n.session = clients[c].session
      /\ n.cursor = clients[c].cursor /\ n.by = clients[c].by
  <2>1. clients[c] \in ClientType
    BY TypeParts DEF IInv, ClientsOK
  <2>. QED
    BY <2>1 DEF ClientType
<1>2. \A d \in Clients : clients'[d] = IF d = c THEN n ELSE clients[d]
  BY DEF Claimed
<1> HIDE DEF n
<1>3. \A d \in Clients : Reads(d) => clients[d].connection \in Connections /\ d # c
  BY DEF IInv, Attached, Reads, Claimed
<1>4. t \notin Connections /\ t # 0 /\ (Connections)' = Connections \cup {t} /\ connections'[t] = k
      /\ \A u \in Connections : Alike(connections[u], connections'[u])
  BY DEF Claimed
<1>5. \A u \in Connections : connections'[u].session = connections[u].session
                             /\ connections'[u].counter = connections[u].counter
                             /\ connections'[u].gen = connections[u].gen
                             /\ connections[u].session \in Connections
  BY <1>4 DEF Alike, IInv, LeaseInv
<1>6. \A d \in Clients : /\ clients[d].session = 0 \/ clients[d].session \in Owns(d)
                         /\ Owns(d) \subseteq Connections
                         /\ clients[d].session # t
  BY <1>4 DEF JournalInv, Owned, Owns
<1>7. JournalsWhole'
  BY DEF Stores, JournalsWhole
<1>8. HoldersSettled'
  <2> SUFFICES ASSUME NEW u \in (Connections)', Current(u)'
               PROVE  Settled(connections'[u], sessions'[connections'[u].session], u)
    BY DEF HoldersSettled
  <2>1. CASE u = t
    BY <1>4, <2>1 DEF Stores
  <2>2. CASE u # t
    <3> DEFINE s == connections[u].session
    <3>1. u \in Connections /\ Current(u) /\ connections'[u].session = s /\ s # t /\ s \in (Known)'
      BY <1>4, <1>5, <2>2 DEF Current
    <3>2. Settled(connections[u], sessions[s], u)
      BY <3>1 DEF JournalInv, HoldersSettled
    <3>3. Settled(connections[u], sessions'[s], u)
      BY <3>1, <3>2, SettledSame DEF Stores
    <3>4. Alike(connections[u], connections'[u])
      BY <1>4, <3>1
    <3>5. Settled(connections'[u], sessions'[s], u)
      BY <3>3, <3>4 DEF Settled, OneFrame, Feed, Held, Within, Alike, Wired
    <3>. QED
      BY <3>1, <3>5
  <2>. QED
    BY <2>1, <2>2
<1>9. Owned'
  <2>1. \A d \in Clients : d # c => (Owns(d))' = Owns(d)
    BY <1>2, <1>3, <1>5 DEF Owns, Reads
  <2>2. (Owns(c))' \subseteq Owns(c) \cup {t}
    <3>1. (Owns(c))' = ({clients[c].session} \ {0}) \cup {k.session}
      BY <1>1, <1>2, <1>4 DEF Owns, Reads
    <3>2. k.session = t \/ (k.session = clients[c].session /\ k.session # 0)
      BY SessionTypes DEF Stores
    <3>. QED
      BY <3>1, <3>2 DEF Owns
  <2>3. \A d, e \in Clients : d # e => (Owns(d))' \cap (Owns(e))' = {}
    BY <1>4, <1>6, <2>1, <2>2 DEF JournalInv, Owned
  <2>4. \A d \in Clients : (Owns(d))' \subseteq (Connections)'
    BY <1>4, <1>6, <2>1, <2>2
  <2>5. ASSUME NEW d \in Clients, Reads(d)', NEW u, u = clients'[d].connection
        PROVE  /\ connections'[u].session \in (Known)' => Current(u)'
               /\ clients'[d].phase = "ready" => connections'[u].session = clients'[d].session
               /\ clients'[d].phase = "connecting" =>
                    (connections'[u].session = clients'[d].session
                       <=> connections'[u].session # clients'[d].connection)
    <3>1. CASE d = c
      <4>1. u = t /\ clients'[d] = n /\ connections'[u] = k
        BY <1>1, <1>2, <1>4, <2>5, <3>1
      <4>2. Current(u)'
        BY <4>1 DEF Claimed, Current
      <4>3. k.session = n.session <=> k.session # t
        BY <1>1, <1>6 DEF Stores
      <4>. QED
        BY <1>1, <4>1, <4>2, <4>3
    <3>2. CASE d # c
      <4>1. clients'[d] = clients[d] /\ Reads(d) /\ u = clients[d].connection /\ u \in Connections
        BY <1>2, <1>3, <2>5, <3>2 DEF Reads
      <4>2. Follows(clients[d], connections[u], Current(u))
            /\ connections'[u].session = connections[u].session
            /\ connections[u].session \in Connections
        BY <1>5, <4>1 DEF JournalInv, Owned
      <4>3. connections[u].session # k.session
        <5>1. connections[u].session \in Owns(d) /\ Owns(c) \cap Owns(d) = {}
          BY <3>2, <4>1 DEF Owns, JournalInv, Owned
        <5>2. k.session = t \/ k.session \in Owns(c)
          BY SessionTypes DEF Stores, Owns
        <5>. QED
          BY <1>4, <4>2, <5>1, <5>2
      <4>4. connections'[u].session \in (Known)' => Current(u)'
        <5> SUFFICES ASSUME connections[u].session \in (Known)' PROVE Current(u)'
          BY <4>2
        <5>1. connections[u].session \in Known /\ connections[u].session # t
          BY <1>4, <4>2 DEF Stores
        <5>2. sessions'[connections[u].session].gen = sessions[connections[u].session].gen
          BY <4>3 DEF Stores
        <5>3. Current(u)
          BY <4>2, <5>1 DEF Follows
        <5>. QED
          BY <1>5, <4>1, <5>2, <5>3 DEF Current
      <4>. QED
        BY <4>1, <4>2, <4>4 DEF Follows
    <3>. QED
      BY <3>1, <3>2
  <2>. QED
    BY <2>3, <2>4, <2>5 DEF Owned, Follows
<1>10. CursorsAgree'
  <2>1. ASSUME NEW d \in Clients, NEW m, m = clients'[d], m.session \in (Known)'
        PROVE  /\ \A e \in Entries(sessions'[m.session].journal) : e.seq = m.cursor => e.by = m.by
               /\ m.cursor > sessions'[m.session].last =>
                    \A u \in (Connections)' : connections'[u].session = m.session /\ Current(u)' =>
                      m.by = u /\ m.cursor <= connections'[u].counter
    <3> DEFINE s == m.session
    <3>1. s = clients[d].session /\ m.cursor = clients[d].cursor /\ m.by = clients[d].by
      BY <1>1, <1>2, <2>1
    <3>2. s # t /\ s \in Known /\ sessions'[s].journal = sessions[s].journal
          /\ sessions'[s].last = sessions[s].last /\ s # 0 /\ s \in Owns(d)
      BY <1>6, <2>1, <3>1, SessionTypes DEF Stores, Owns
    <3>3. Agrees(clients[d])
      BY DEF JournalInv, CursorsAgree
    <3>4. ASSUME m.cursor > sessions[s].last, NEW u \in (Connections)',
                 connections'[u].session = s, Current(u)'
          PROVE  m.by = u /\ m.cursor <= connections'[u].counter
      <4>1. CASE u = t
        <5>1. k.session = s /\ k.session = clients[c].session /\ clients[c].cursor <= sessions[s].last
          BY <1>4, <3>2, <3>4, <4>1 DEF Stores
        <5>2. s \in Owns(c)
          BY <3>2, <5>1 DEF Owns
        <5>3. d = c
          BY <3>2, <5>2 DEF JournalInv, Owned
        <5>4. clients[c].cursor \in Nat /\ sessions[s].last \in Nat
          BY <3>2, SessionTypes, TypeParts, Bounds DEF IInv, ClientsOK, ClientType
        <5>. QED
          BY <3>1, <3>4, <5>1, <5>3, <5>4
      <4>2. CASE u # t
        <5>1. u \in Connections /\ Current(u) /\ connections[u].session = s
              /\ connections'[u].counter = connections[u].counter
          BY <1>4, <1>5, <3>4, <4>2
        <5>. QED
          BY <3>1, <3>2, <3>3, <3>4, <5>1 DEF Agrees
      <4>. QED
        BY <4>1, <4>2
    <3>. QED
      BY <3>1, <3>2, <3>3, <3>4 DEF Agrees
  <2>. QED
    BY <2>1 DEF CursorsAgree, Agrees
<1>. QED
  BY <1>7, <1>8, <1>9, <1>10 DEF JournalInv

(* A connection that has nothing to say but what its session's journal holds *)
(* has nothing left to record.                                               *)
LEMMA ReplaySettles ==
  ASSUME NEW k \in ConnectionType, NEW s, s.journal \in Seq(FrameType), s.last \in Nat, Whole(s),
         NEW t, k.counter = s.last, k.wire = <<>>, k.item = NoFrame, k.writer = "idle",
         \A f \in Entries(k.queue) : f.seq = 0 \/ f \in Entries(s.journal)
  PROVE  Settled(k, s, t)
<1>1. /\ \A e \in Entries(s.journal) : e.seq <= s.last
      /\ \A e, f \in Entries(s.journal) : e.seq = f.seq => e = f
  BY WholeEntries
<1>2. k.queue \in Seq(FrameType) /\ Entries(k.queue) \subseteq FrameType
  BY EntriesFacts DEF ConnectionType
<1>3. \A f \in Entries(k.queue) : f.seq <= s.last /\ f.seq \in Nat
  <2>1. \A f \in Entries(k.queue) : f.seq \in Nat
    BY <1>2, Bounds DEF FrameType
  <2>2. 0 <= s.last
    OBVIOUS
  <2>. QED
    BY <1>1, <2>1, <2>2
<1>4. Feed(k) = k.queue
  <2>1. Held(k) = <<>>
    BY DEF Held
  <2>2. <<>> \o k.queue = k.queue
    BY <1>2
  <2>. QED
    BY <2>1, <2>2 DEF Feed
<1>5. Dense(k.queue, s.last)
  <2> SUFFICES ASSUME NEW j \in DOMAIN k.queue, k.queue[j].seq > s.last + 1 PROVE FALSE
    BY DEF Dense
  <2>1. k.queue[j].seq <= s.last /\ k.queue[j].seq \in Nat
    BY <1>3 DEF Entries
  <2>. QED
    BY <2>1
<1>6. Reaches(k.queue, s.last, k.counter)
  BY DEF Reaches
<1>7. Within(k) = {NoFrame} \cup Entries(k.queue)
  BY EntriesFacts DEF Within
<1>8. OneFrame(NoFrame, t, k, s)
  BY DEF OneFrame, NoFrame, Frame
<1>9. ASSUME NEW f \in Entries(k.queue) PROVE OneFrame(f, t, k, s)
  <2>1. f.seq <= s.last /\ f.seq \in Nat
    BY <1>3
  <2>2. f.seq # 0 => \A e \in Entries(s.journal) : e.seq = f.seq => e.by = f.by
    BY <1>1
  <2>. QED
    BY <2>1, <2>2 DEF OneFrame
<1>. QED
  BY <1>4, <1>5, <1>6, <1>7, <1>8, <1>9 DEF Settled

(* A fresh session has an empty journal. *)
LEMMA ClaimFreshJournal ==
  ASSUME IInv, JournalInv, NEW c \in Clients, clients[c].phase = "lost",
         Len(connections) < MaxConnections, ClaimFresh(c)
  PROVE  JournalInv'
<1>1. PICK t \in Numbers, k \in ConnectionType :
        /\ Claimed(c, t, k) /\ k.session = t /\ k.counter = 0 /\ k.gen = 1
        /\ k.queue = <<Frame("fresh", 0, t)>>
        /\ (Known)' \subseteq Known \cup {t} /\ t \notin Known
        /\ \A x \in (Known)' : x # t => sessions'[x] = sessions[x]
        /\ sessions'[t] = Session(t)
  BY ClaimFreshShape
<1>2. \A u \in Connections : Current(u)' => Current(u)
  <2> SUFFICES ASSUME NEW u \in Connections, Current(u)' PROVE Current(u)
    OBVIOUS
  <2>1. connections[u].session \in Connections /\ t \notin Connections
        /\ Alike(connections[u], connections'[u])
    BY <1>1 DEF IInv, LeaseInv, Claimed
  <2>. QED
    BY <1>1, <2>1 DEF Current, Alike
<1>3. Session(t).journal = <<>> /\ Session(t).last = 0 /\ <<>> \in Seq(FrameType)
  BY DEF Session
<1>4. Whole(Session(t))
  BY <1>3 DEF Whole
<1>5. Settled(k, Session(t), t)
  <2>1. \A f \in Entries(k.queue) : f.seq = 0
    BY <1>1, EntriesFacts DEF Frame
  <2>2. k.wire = <<>> /\ k.item = NoFrame /\ k.writer = "idle" /\ k.counter = Session(t).last
    BY <1>1, <1>3 DEF Claimed
  <2> DEFINE z == Session(t)
  <2>3. k \in ConnectionType /\ z.journal \in Seq(FrameType) /\ z.last \in Nat /\ Whole(z)
        /\ k.counter = z.last
    BY <1>1, <1>3, <1>4, <2>2
  <2> HIDE DEF z
  <2>4. Settled(k, z, t)
    BY <2>1, <2>2, <2>3, ReplaySettles
  <2>. QED
    BY <2>4 DEF z
<1>6. Stores(c, t, k)
  <2>1. \A x \in Known : Whole(sessions[x])
    BY DEF JournalInv, JournalsWhole
  <2>. QED
    BY <1>1, <1>4, <1>5, <2>1 DEF Stores
<1>7. Claimed(c, t, k) /\ t \in Numbers /\ k \in ConnectionType
  BY <1>1
<1>. QED
  BY <1>2, <1>6, <1>7, ClaimedJournal

(* A resumed session's replay comes from its journal. *)
LEMMA ClaimResumedJournal ==
  ASSUME IInv, JournalInv, NEW c \in Clients, clients[c].phase = "lost",
         Len(connections) < MaxConnections, ClaimResumed(c)
  PROVE  JournalInv'
<1> DEFINE s == clients[c].session
<1> DEFINE old == sessions[s]
<1> DEFINE replay == After(old.journal, clients[c].cursor)
<1>1. PICK t \in Numbers, k \in ConnectionType :
        /\ Claimed(c, t, k) /\ s \in Known /\ k.session = s /\ k.counter = old.last
        /\ k.queue = <<Frame("resumed", 0, t)>> \o replay
        /\ Replayable(old, clients[c].cursor)
        /\ DOMAIN sessions' = Known /\ \A x \in Known : x # s => sessions'[x] = sessions[x]
        /\ sessions'[s].journal = old.journal /\ sessions'[s].last = old.last
        /\ sessions'[s].gen = old.gen + 1
  BY ClaimResumedShape
<1>2. old.journal \in Seq(FrameType) /\ old.gen \in Nat /\ old.last \in Nat /\ s \in Connections
      /\ Whole(old)
  BY <1>1, SessionTypes DEF JournalInv, JournalsWhole
<1>3. \A u \in Connections : Current(u)' => Current(u)
  <2> SUFFICES ASSUME NEW u \in Connections, Current(u)' PROVE Current(u)
    OBVIOUS
  <2>1. Alike(connections[u], connections'[u]) /\ connections[u] \in ConnectionType
    BY <1>1, OneConnection DEF Claimed
  <2>2. connections[u].session \in Known /\ sessions'[connections[u].session].gen = connections[u].gen
    BY <1>1, <2>1 DEF Current, Alike, Known
  <2>3. connections[u].session = s => connections[u].gen <= old.gen
    BY <1>1 DEF IInv, LeaseInv
  <2>4. connections[u].session # s
    <3>1. connections[u].gen \in Nat
      BY <2>1 DEF ConnectionType
    <3>2. connections[u].session = s => connections[u].gen = old.gen + 1
      BY <1>1, <2>2
    <3> HIDE DEF s, old
    <3>. QED
      BY <1>2, <2>3, <3>1, <3>2
  <2>. QED
    BY <1>1, <2>2, <2>4 DEF Current
<1>4. sessions'[s].journal \in Seq(FrameType) /\ sessions'[s].last \in Nat /\ Whole(sessions'[s])
  BY <1>1, <1>2 DEF Whole
<1>5. Settled(k, sessions'[s], t)
  <2>1. replay \in Seq(FrameType) /\ Entries(replay) \subseteq Entries(old.journal)
    BY <1>2, AfterType, AfterEntries
  <2> DEFINE f == Frame("resumed", 0, t)
  <2>2. f.seq = 0 /\ k.queue = <<f>> \o replay
    BY <1>1 DEF Frame
  <2> HIDE DEF f, replay
  <2>3. \A g \in Entries(k.queue) : g = f \/ g \in Entries(replay)
    <3> SUFFICES ASSUME NEW i \in DOMAIN (<<f>> \o replay)
                 PROVE  (<<f>> \o replay)[i] = f \/ (<<f>> \o replay)[i] \in Entries(replay)
      BY <2>2 DEF Entries
    <3>1. CASE i = 1
      BY <2>1, <3>1
    <3>2. CASE i # 1
      <4>1. i - 1 \in DOMAIN replay /\ (<<f>> \o replay)[i] = replay[i - 1]
        BY <2>1, <3>2
      <4>. QED
        BY <4>1 DEF Entries
    <3>. QED
      BY <3>1, <3>2
  <2>4. \A g \in Entries(k.queue) : g.seq = 0 \/ g \in Entries(sessions'[s].journal)
    BY <1>1, <2>1, <2>2, <2>3
  <2>5. k.wire = <<>> /\ k.item = NoFrame /\ k.writer = "idle" /\ k.counter = sessions'[s].last
    BY <1>1 DEF Claimed
  <2>. QED
    BY <1>1, <1>4, <2>4, <2>5, ReplaySettles
<1>6. Stores(c, t, k)
  <2>1. \A x \in Known : Whole(sessions[x])
    BY DEF JournalInv, JournalsWhole
  <2>2. clients[c].cursor <= old.last
    BY <1>1 DEF Replayable
  <2>3. (Known)' = Known
    BY <1>1 DEF Known
  <2> HIDE DEF s
  <2>. QED
    BY <1>1, <1>4, <1>5, <2>1, <2>2, <2>3 DEF Stores, s
<1>7. Claimed(c, t, k) /\ t \in Numbers /\ k \in ConnectionType
  BY <1>1
<1>. QED
  BY <1>3, <1>6, <1>7, ClaimedJournal

(* One step per action. *)
LEMMA JournalStep ==
  ASSUME IInv, GapInv, JournalInv, [Next]_vars
  PROVE  JournalInv'
<1>1. CASE \E s \in Known : Age(s) \/ Prune(s)
  BY <1>1, AgeJournal, PruneJournal
<1>2. ASSUME NEW c \in Clients, Claim(c) PROVE JournalInv'
  BY <1>2, ClaimFreshJournal, ClaimResumedJournal DEF Claim
<1>3. ASSUME NEW c \in Clients, Lose(c) PROVE JournalInv'
  BY <1>3, LostJournal DEF Lose, Reads
<1>4. ASSUME NEW c \in Clients, Receive(c) PROVE JournalInv'
  BY <1>4, ReceiveJournal
<1>5. CASE \E t \in Connections : Serve(t)
  BY <1>5, IssueJournal, OverloadJournal, TakenOverJournal, MainJournal, TakeJournal,
     TransmitJournal, RecordJournal, StopWriterJournal DEF Serve
<1>6. CASE Restart
  BY <1>6, RestartJournal
<1>7. CASE UNCHANGED vars
  <2>1. UNCHANGED <<connections, clients>> /\ (Known)' = Known /\ sessions' = sessions
    BY <1>7 DEF vars, Known
  <2>2. \A x \in Known : Whole(sessions[x])
    BY DEF JournalInv, JournalsWhole
  <2>. QED
    BY <2>1, <2>2, StoreForgets
<1>. QED
  BY <1>1, <1>2, <1>3, <1>4, <1>5, <1>6, <1>7 DEF Next

(* No connection, no session. *)
LEMMA JournalInit == Init => JournalInv
<1> SUFFICES ASSUME Init PROVE JournalInv
  OBVIOUS
<1>1. Known = {} /\ Connections = {}
  BY DEF Init, Known, Connections
<1>2. \A c \in Clients : clients[c].phase = "lost" /\ clients[c].session = 0
  BY DEF Init, Client
<1>3. \A c \in Clients : Owns(c) = {} /\ ~Reads(c)
  BY <1>2 DEF Owns, Reads
<1>. QED
  BY <1>1, <1>3 DEF JournalInv, JournalsWhole, HoldersSettled, Owned, CursorsAgree, Agrees

(* The invariant says what a replay needs. *)
LEMMA JournalsAreSound ==
  ASSUME JournalInv
  PROVE  JournalSound
<1>1. JournalUnbroken
  BY DEF JournalInv, JournalsWhole, Whole, JournalUnbroken
<1>2. JournalAgrees
  BY DEF JournalInv, CursorsAgree, Agrees, Entries, JournalAgrees
<1>. QED
  BY <1>1, <1>2 DEF JournalSound

(* The journal of a session is always an unbroken run of sequences up to the *)
(* last one recorded, and under a client's cursor it holds the very frame    *)
(* that client applied: a resume replays exactly what the client misses.     *)
THEOREM JournalsStaySound == Spec => []JournalSound
<1>1. IInv /\ GapInv /\ JournalPlain /\ JournalInv /\ [Next]_vars
        => IInv' /\ GapInv' /\ JournalPlain' /\ JournalInv'
  BY InvStep, GapStep, JournalPlainKept, JournalStep
<1>2. JournalInv => JournalSound
  BY JournalsAreSound
<1>. QED
  BY <1>1, <1>2, InvInit, GapInit, JournalInit, PTL DEF Spec

---------------------------------------------------------------------------
(* The clients' places in their sessions: SessionResume implements           *)
(* ResumedStreams.                                                           *)

(* A client names no session later than its connection; and the connection   *)
(* it reads was claimed in the process that opened the session it continues. *)
PlaceInv ==
  /\ \A t \in Connections : connections[t].session <= t
  /\ \A c \in Clients : Reads(c) =>
       LET m == clients[c]
       IN /\ m.session <= m.connection
          /\ m.phase = "ready" \/ connections[m.connection].session # m.connection
               => m.instance = instance

(* Nobody reads more, and no connection changes its session.                 *)
LEMMA PlacesKept ==
  ASSUME IInv, PlaceInv, UNCHANGED instance, DOMAIN connections' = Connections,
         \A t \in Connections : connections'[t].session = connections[t].session,
         \A c \in Clients : Reads(c)' =>
           /\ Reads(c) /\ clients'[c].phase = clients[c].phase
           /\ clients'[c].connection = clients[c].connection
           /\ clients'[c].session = clients[c].session
           /\ clients'[c].instance = clients[c].instance
  PROVE  PlaceInv'
<1>1. (Connections)' = Connections
  BY DEF Connections
<1>2. \A t \in Connections : connections'[t].session <= t
  BY DEF PlaceInv
<1>3. ASSUME NEW c \in Clients, Reads(c)'
      PROVE  /\ clients'[c].session <= clients'[c].connection
             /\ clients'[c].phase = "ready"
                  \/ connections'[clients'[c].connection].session # clients'[c].connection
                  => clients'[c].instance = instance'
  <2>1. Reads(c) /\ clients[c].connection \in Connections
    BY <1>3 DEF IInv, Attached, Reads
  <2>2. connections'[clients[c].connection].session = connections[clients[c].connection].session
    BY <2>1
  <2>. QED
    BY <1>3, <2>1, <2>2 DEF PlaceInv
<1>. QED
  BY <1>1, <1>2, <1>3 DEF PlaceInv

(* Nobody moves. *)
LEMMA NobodyMoves ==
  ASSUME \A c \in Clients :
           /\ clients'[c].session = clients[c].session /\ clients'[c].cursor = clients[c].cursor
           /\ clients'[c].instance = clients[c].instance
  PROVE  Places' = Places
BY DEF Places

(* A connection's tasks move no client. *)
LEMMA TaskPlaces ==
  ASSUME IInv, PlaceInv, NEW t \in Connections, Serve(t)
  PROVE  PlaceInv' /\ UNCHANGED <<clients, instance>>
<1>1. UNCHANGED <<clients, instance>>
  BY DEF Serve, Issue, Overload, TakenOver, Leave, Release, Take, Transmit, Record, StopWriter
<1>2. \E r \in ConnectionType : Steps(t, r)
  BY IssueShape, OverloadShape, TakenOverShape, MainShape, TakeShape, TransmitShape, RecordShape,
     StopWriterShape DEF Serve
<1>3. PICK r \in ConnectionType : Steps(t, r)
  BY <1>2
<1>4. DOMAIN connections' = Connections
      /\ \A u \in Connections : connections'[u].session = connections[u].session
  BY <1>3 DEF Steps, Update, Connections
<1>. QED
  BY <1>1, <1>4, PlacesKept DEF Reads

(* A lost transport costs a client nothing of its place. *)
LEMMA LosePlaces ==
  ASSUME IInv, PlaceInv, NEW c \in Clients, Lose(c)
  PROVE  PlaceInv' /\ Places' = Places /\ GivenUp' = GivenUp /\ UNCHANGED instance
<1>1. clients \in [Clients -> ClientType] /\ clients[c].connection \in Connections
  BY TypeParts DEF IInv, ClientsOK, Attached, Lose
<1>2. clients[c] \in ClientType
  BY <1>1
<1>3. PICK n : n = [clients[c] EXCEPT !.phase = "lost", !.assembling = FALSE]
  OBVIOUS
<1>4. n.phase = "lost" /\ n.session = clients[c].session /\ n.cursor = clients[c].cursor
      /\ n.instance = clients[c].instance
  BY <1>2, <1>3 DEF ClientType
<1>5. \A d \in Clients : clients'[d] = IF d = c THEN n ELSE clients[d]
  BY <1>1, <1>3 DEF Lose
<1>6. DOMAIN connections' = Connections
      /\ \A u \in Connections : connections'[u].session = connections[u].session
  <2>1. connections[clients[c].connection] \in ConnectionType
    BY <1>1, OneConnection
  <2>2. PICK r : r = [connections[clients[c].connection] EXCEPT !.up = FALSE, !.wire = <<>>]
    OBVIOUS
  <2>3. r.session = connections[clients[c].connection].session
    BY <2>1, <2>2 DEF ConnectionType
  <2>4. connections' = [connections EXCEPT ![clients[c].connection] = r]
    BY <1>1, <2>2 DEF Lose, Detached, Connections
  <2>. QED
    BY <1>1, <2>3, <2>4 DEF Connections
<1>7. UNCHANGED instance /\ clients[c].phase # "failed"
  BY DEF Lose
<1>8. Places' = Places
  BY <1>4, <1>5, NobodyMoves
<1>9. GivenUp' = GivenUp
  BY <1>4, <1>5, <1>7 DEF GivenUp
<1>10. PlaceInv'
  BY <1>4, <1>5, <1>6, <1>7, PlacesKept DEF Reads
<1>. QED
  BY <1>7, <1>8, <1>9, <1>10

(* A claim moves no client: it keeps its place until it is welcomed. *)
LEMMA ClaimPlaces ==
  ASSUME IInv, JournalInv, PlaceInv, NEW c \in Clients, Claim(c)
  PROVE  PlaceInv' /\ Places' = Places /\ GivenUp' = GivenUp /\ UNCHANGED instance
<1>1. Len(connections) \in Nat /\ Connections = 1 .. Len(connections)
      /\ clients \in [Clients -> ClientType]
  BY TypeParts DEF IInv, ConnectionsOK, ClientsOK, Connections
<1>2. PICK t : t = Len(connections) + 1
  OBVIOUS
<1>3. clients[c] \in ClientType /\ clients[c].phase = "lost" /\ UNCHANGED instance
  BY <1>1 DEF Claim
<1>4. PICK n : n = [clients[c] EXCEPT !.phase = "connecting", !.connection = t]
  OBVIOUS
<1>5. n.phase = "connecting" /\ n.connection = t /\ n.session = clients[c].session
      /\ n.cursor = clients[c].cursor /\ n.instance = clients[c].instance
  BY <1>3, <1>4 DEF ClientType
<1>6. \A d \in Clients : clients'[d] = IF d = c THEN n ELSE clients[d]
  <2>1. Attach(c, t)
    BY <1>2 DEF Claim, ClaimResumed, ClaimFresh
  <2>. QED
    BY <1>1, <1>4, <2>1 DEF Attach
<1>7. clients[c].session <= t
  <2>1. clients[c].session \in Connections \cup {0}
    BY DEF JournalInv, Owned, Owns
  <2>. QED
    BY <1>1, <1>2, <2>1
<1>8. PICK k : /\ Claimed(c, t, k)
               /\ k.session = t \/ (k.session = clients[c].session /\ clients[c].instance = instance)
  <2>1. CASE ClaimFresh(c)
    <3>1. PICK u \in Numbers, k \in ConnectionType : Claimed(c, u, k) /\ k.session = u
      BY <1>3, <2>1, ClaimFreshShape DEF Claim
    <3>2. u = t
      <4>1. u = clients'[c].connection
        BY <1>3, <3>1 DEF Claimed, ClientType
      <4>. QED
        BY <1>5, <1>6, <4>1
    <3>. QED
      BY <3>1, <3>2
  <2>2. CASE ClaimResumed(c)
    <3>1. PICK u \in Numbers, k \in ConnectionType :
            Claimed(c, u, k) /\ k.session = clients[c].session
      BY <1>3, <2>2, ClaimResumedShape DEF Claim
    <3>2. u = t
      <4>1. u = clients'[c].connection
        BY <1>3, <3>1 DEF Claimed, ClientType
      <4>. QED
        BY <1>5, <1>6, <4>1
    <3>3. clients[c].instance = instance
      BY <2>2 DEF ClaimResumed, Resumable
    <3>. QED
      BY <3>1, <3>2, <3>3
  <2>. QED
    BY <2>1, <2>2 DEF Claim
<1>9. /\ (Connections)' = Connections \cup {t} /\ connections'[t] = k
      /\ \A u \in Connections : connections'[u].session = connections[u].session
  BY <1>8 DEF Claimed, Alike
<1>10. \A u \in (Connections)' : connections'[u].session <= u
  <2>1. \A u \in Connections : connections'[u].session <= u
    BY <1>9 DEF PlaceInv
  <2>2. k.session <= t
    BY <1>1, <1>2, <1>7, <1>8
  <2>. QED
    BY <1>9, <2>1, <2>2
<1>11. ASSUME NEW d \in Clients, Reads(d)'
       PROVE  /\ clients'[d].session <= clients'[d].connection
              /\ clients'[d].phase = "ready"
                   \/ connections'[clients'[d].connection].session # clients'[d].connection
                   => clients'[d].instance = instance'
  <2>1. CASE d = c
    BY <1>3, <1>5, <1>6, <1>7, <1>8, <1>9, <2>1
  <2>2. CASE d # c
    <3>1. clients'[d] = clients[d] /\ Reads(d)
      BY <1>6, <1>11, <2>2 DEF Reads
    <3>2. clients[d].connection \in Connections
      BY <3>1 DEF IInv, Attached, Reads
    <3>3. connections'[clients[d].connection].session = connections[clients[d].connection].session
      BY <1>9, <3>2
    <3>. QED
      BY <1>3, <3>1, <3>3 DEF PlaceInv
  <2>. QED
    BY <2>1, <2>2
<1>12. PlaceInv'
  BY <1>10, <1>11 DEF PlaceInv
<1>13. Places' = Places
  BY <1>5, <1>6, NobodyMoves
<1>14. GivenUp' = GivenUp
  BY <1>3, <1>5, <1>6 DEF GivenUp
<1>. QED
  BY <1>3, <1>12, <1>13, <1>14

(* The next frame on a client's wire heads its stream, and what the client   *)
(* reads of it depends on whether it was welcomed.                           *)
LEMMA HeadOfStream ==
  ASSUME IInv, GapInv, JournalInv, NEW c \in Clients, Receive(c),
         NEW t, t = clients[c].connection, NEW f, f = Head(connections[t].wire)
  PROVE  /\ t \in Connections /\ connections[t] \in ConnectionType /\ f \in FrameType
         /\ clients[c] \in ClientType /\ Reads(c)
         /\ Plain(f, t, connections[t].session)
         /\ Follows(clients[c], connections[t], Current(t))
         /\ IsWelcome(f) => clients[c].phase = "connecting"
         /\ f.seq # 0 => clients[c].phase = "ready"
<1>1. t \in Connections /\ Reads(c) /\ clients[c] \in ClientType
  BY TypeParts DEF IInv, ClientsOK, Attached, Receive, Reads
<1>2. connections[t] \in ConnectionType /\ connections[t].wire \in Seq(FrameType)
      /\ connections[t].wire # <<>>
  BY <1>1, OneConnection DEF Receive
<1>3. f \in FrameType
  BY <1>2
<1>4. Plain(f, t, connections[t].session)
  <2>1. f \in Within(connections[t])
    BY <1>2, EntriesFacts DEF Within
  <2>. QED
    BY <1>1, <2>1 DEF GapInv, FramesPlain
<1>5. Follows(clients[c], connections[t], Current(t))
  BY <1>1 DEF JournalInv, Owned
<1>6. InStep(clients[c], connections[t], Current(t)) /\ Current(t) \in BOOLEAN
  BY <1>1, CurrentBoolean DEF GapInv, ReadersInStep
<1>7. Stream(connections[t]) \in Seq(FrameType) /\ Stream(connections[t]) # <<>>
      /\ Stream(connections[t])[1] = f
  <2>1. PICK r : r = [connections[t] EXCEPT !.wire = Tail(@)]
    OBVIOUS
  <2>2. /\ r \in ConnectionType /\ r.wire = Tail(connections[t].wire)
        /\ r.item = connections[t].item /\ r.writer = connections[t].writer
        /\ r.queue = connections[t].queue
    <3>1. Tail(connections[t].wire) \in Seq(FrameType)
      BY <1>2
    <3>. QED
      BY <1>2, <2>1, <3>1 DEF ConnectionType
  <2>3. Stream(connections[t]) # <<>> /\ Stream(connections[t])[1] = f
    BY <1>2, <2>2, WireTail
  <2>. QED
    BY <1>2, <2>3, StreamTypes
<1>8. IsWelcome(f) => clients[c].phase = "connecting"
  <2>1. clients[c].phase = "ready" => ~IsWelcome(Stream(connections[t])[1])
    BY <1>6, <1>7 DEF InStep
  <2>. QED
    BY <1>1, <1>7, <2>1 DEF Reads
<1>9. f.seq # 0 => clients[c].phase = "ready"
  <2>1. clients[c].phase = "connecting" => Opens(Stream(connections[t]))
    BY <1>6 DEF InStep
  <2>2. f.seq # 0 => ~IsWelcome(f)
    BY <1>4 DEF Plain
  <2>3. 1 \in DOMAIN Stream(connections[t])
    BY <1>7
  <2>. QED
    BY <1>1, <1>7, <2>1, <2>2, <2>3 DEF Reads, Opens
<1>. QED
  BY <1>1, <1>2, <1>3, <1>4, <1>5, <1>8, <1>9

(* A Welcome opens a later session, or confirms the one the client is in. *)
LEMMA WelcomePlaces ==
  ASSUME IInv, GapInv, JournalInv, PlaceInv, NEW c \in Clients, Receive(c),
         NEW t, t = clients[c].connection, NEW f, f = Head(connections[t].wire), IsWelcome(f),
         clients' = [clients EXCEPT ![c] = ApplyWelcome(clients[c], connections[t], f)],
         connections' = [connections EXCEPT ![t].wire = Tail(@),
                           ![t].snap = IF Listing THEN "wanted" ELSE @]
  PROVE  PlaceInv' /\ [Followed!Next]_(Followed!vars)
<1> DEFINE m == clients[c]
<1> DEFINE k == connections[t]
<1>1. /\ t \in Connections /\ k \in ConnectionType /\ m \in ClientType /\ Reads(c)
      /\ Plain(f, t, k.session) /\ Follows(m, k, Current(t)) /\ m.phase = "connecting"
  BY HeadOfStream
<1>2. clients \in [Clients -> ClientType] /\ t \in Nat /\ t \in Numbers /\ t # 0
      /\ m.session \in Nat /\ k.session \in Numbers
  BY <1>1, TypeParts, OneConnection, Bounds DEF IInv, ClientsOK, ClientType, ConnectionType
<1>3. PICK n : n = ApplyWelcome(m, k, f)
  OBVIOUS
<1>4. /\ n.phase = "ready" /\ n.connection = t /\ n.session = k.session /\ n.instance = instance
      /\ n.cursor = IF f.kind = "fresh" THEN 0 ELSE m.cursor
  BY <1>1, <1>3 DEF ApplyWelcome, ClientType
<1>5. UNCHANGED instance /\ \A d \in Clients : clients'[d] = IF d = c THEN n ELSE clients[d]
  BY <1>2, <1>3 DEF Receive
<1>6. DOMAIN connections' = Connections
      /\ \A u \in Connections : connections'[u].session = connections[u].session
  <2>1. PICK r : r = [k EXCEPT !.wire = Tail(@), !.snap = IF Listing THEN "wanted" ELSE @]
    OBVIOUS
  <2>2. r.session = k.session
    BY <1>1, <2>1 DEF ConnectionType
  <2>3. connections' = [connections EXCEPT ![t] = r]
    BY <1>1, <2>1 DEF Connections
  <2> HIDE DEF k
  <2>. QED
    BY <1>1, <2>2, <2>3 DEF Connections, k
<1>7. GivenUp' = GivenUp /\ c \notin GivenUp
  BY <1>1, <1>4, <1>5 DEF GivenUp
<1>8. PlaceInv'
  <2>1. (Connections)' = Connections
    BY <1>6 DEF Connections
  <2>2. \A u \in Connections : connections'[u].session <= u
    BY <1>6 DEF PlaceInv
  <2>3. ASSUME NEW d \in Clients, Reads(d)'
        PROVE  /\ clients'[d].session <= clients'[d].connection
               /\ clients'[d].phase = "ready"
                    \/ connections'[clients'[d].connection].session # clients'[d].connection
                    => clients'[d].instance = instance'
    <3>1. CASE d = c
      <4>1. k.session <= t
        BY <1>1 DEF PlaceInv
      <4>. QED
        BY <1>4, <1>5, <3>1, <4>1
    <3>2. CASE d # c
      <4>1. clients'[d] = clients[d] /\ Reads(d)
        BY <1>5, <2>3, <3>2 DEF Reads
      <4>2. clients[d].connection \in Connections
        BY <4>1 DEF IInv, Attached, Reads
      <4>3. connections'[clients[d].connection].session = connections[clients[d].connection].session
        BY <1>6, <4>2
      <4>. QED
        BY <1>5, <4>1, <4>3 DEF PlaceInv
    <3>. QED
      BY <3>1, <3>2
  <2>. QED
    BY <2>1, <2>2, <2>3 DEF PlaceInv
<1>9. CASE f.kind = "fresh"
  <2>1. k.session = t /\ n.cursor = 0
    BY <1>1, <1>4, <1>9 DEF Plain
  <2>2. m.session < t
    <3>1. m.session # t
      BY <1>1, <2>1 DEF Follows
    <3>2. m.session <= t
      BY <1>1 DEF PlaceInv
    <3> HIDE DEF m
    <3>. QED
      BY <1>2, <3>1, <3>2
  <2>3. ASSUME NEW d \in Clients \ {c} PROVE clients[d].session # t
    <3>1. t \in Owns(c)
      BY <1>1, <2>1 DEF Owns
    <3>2. Owns(c) \cap Owns(d) = {}
      BY DEF JournalInv, Owned
    <3>3. clients[d].session = t => t \in Owns(d)
      BY <1>2 DEF Owns
    <3>. QED
      BY <3>1, <3>2, <3>3
  <2>4. Places' = [Places EXCEPT ![c] = Followed!Place(t, 0, instance)]
    BY <1>4, <1>5, <2>1 DEF Places, Followed!Place
  <2>5. Places[c].stream = m.session /\ \A d \in Clients \ {c} : Places[d].stream # t
    BY <2>3 DEF Places
  <2>6. Followed!Open(c)
    <3>1. t > Places[c].stream
      BY <1>2, <2>2, <2>5
    <3>. QED
      BY <1>2, <1>5, <1>7, <2>4, <2>5, <3>1 DEF Followed!Open
  <2>. QED
    BY <1>7, <1>8, <2>6 DEF Followed!Next
<1>10. CASE f.kind # "fresh"
  <2>1. k.session # t /\ n.cursor = m.cursor
    BY <1>1, <1>4, <1>10 DEF Plain, IsWelcome
  <2>2. k.session = m.session
    BY <1>1, <2>1 DEF Follows
  <2>3. m.instance = instance
    BY <1>1, <2>1 DEF PlaceInv
  <2>4. Places' = Places
    BY <1>4, <1>5, <2>1, <2>2, <2>3, NobodyMoves
  <2>. QED
    BY <1>5, <1>7, <1>8, <2>4 DEF Followed!vars
<1>. QED
  BY <1>9, <1>10

(* A sequenced frame moves the client one on, or not at all. *)
LEMMA FramePlaces ==
  ASSUME IInv, GapInv, JournalInv, PlaceInv, NEW c \in Clients, Receive(c),
         NEW t, t = clients[c].connection, NEW f, f = Head(connections[t].wire), f.seq # 0,
         clients' = [clients EXCEPT ![c] =
           IF f.seq = clients[c].cursor + 1 THEN ApplySequenced(clients[c], f)
           ELSE [clients[c] EXCEPT !.gap = @ \/ f.seq > clients[c].cursor + 1]],
         connections' = [connections EXCEPT ![t].wire = Tail(@)]
  PROVE  PlaceInv' /\ [Followed!Next]_(Followed!vars)
<1> DEFINE m == clients[c]
<1> DEFINE k == connections[t]
<1>1. /\ t \in Connections /\ k \in ConnectionType /\ m \in ClientType /\ Reads(c)
      /\ Follows(m, k, Current(t)) /\ m.phase = "ready"
  BY HeadOfStream
<1>2. clients \in [Clients -> ClientType]
  BY TypeParts DEF IInv, ClientsOK
<1>3. m.session # 0 /\ m.instance = instance /\ c \notin GivenUp
  <2>1. k.session = m.session
    BY <1>1 DEF Follows
  <2>2. k.session \in Connections
    BY <1>1 DEF IInv, LeaseInv
  <2>3. m.session # 0
    BY <2>1, <2>2, OneConnection
  <2>4. m.instance = instance
    BY <1>1 DEF PlaceInv
  <2>. QED
    BY <1>1, <2>3, <2>4 DEF GivenUp
<1>4. PICK n : n = IF f.seq = m.cursor + 1 THEN ApplySequenced(m, f)
                   ELSE [m EXCEPT !.gap = @ \/ f.seq > m.cursor + 1]
  OBVIOUS
<1>5. UNCHANGED instance /\ \A d \in Clients : clients'[d] = IF d = c THEN n ELSE clients[d]
  BY <1>2, <1>4 DEF Receive
<1>6. /\ n.connection = t /\ n.session = m.session /\ n.instance = m.instance
      /\ \/ n.phase = "ready" /\ n.cursor \in {m.cursor, m.cursor + 1}
         \/ n.phase = "failed" /\ n.cursor = m.cursor
  <2>1. CASE f.seq = m.cursor + 1 /\ f.kind = "end" /\ ~m.assembling
    <3>1. n = [m EXCEPT !.phase = "failed"]
      BY <1>4, <2>1 DEF ApplySequenced
    <3>. QED
      BY <1>1, <3>1 DEF ClientType
  <2>2. CASE f.seq = m.cursor + 1 /\ ~(f.kind = "end" /\ ~m.assembling)
    <3>1. PICK a : n = [m EXCEPT !.cursor = f.seq, !.by = f.by, !.assembling = a]
      BY <1>4, <2>2 DEF ApplySequenced
    <3>2. /\ n.phase = m.phase /\ n.connection = m.connection /\ n.session = m.session
          /\ n.instance = m.instance /\ n.cursor = f.seq
      BY <1>1, <3>1 DEF ClientType
    <3>. QED
      BY <1>1, <2>2, <3>2
  <2>3. CASE f.seq # m.cursor + 1
    <3>1. PICK g : n = [m EXCEPT !.gap = g]
      BY <1>4, <2>3
    <3>. QED
      BY <1>1, <3>1 DEF ClientType
  <2>. QED
    BY <2>1, <2>2, <2>3
<1>7. DOMAIN connections' = Connections
      /\ \A u \in Connections : connections'[u].session = connections[u].session
  <2>1. PICK r : r = [k EXCEPT !.wire = Tail(@)]
    OBVIOUS
  <2>2. r.session = k.session
    BY <1>1, <2>1 DEF ConnectionType
  <2>3. connections' = [connections EXCEPT ![t] = r]
    BY <1>1, <2>1 DEF Connections
  <2> HIDE DEF k
  <2>. QED
    BY <1>1, <2>2, <2>3 DEF Connections, k
<1> HIDE DEF m, k
<1>8. m = clients[c]
  BY DEF m
<1>9. PlaceInv'
  BY <1>1, <1>5, <1>6, <1>7, <1>8, PlacesKept DEF Reads
<1>10. CASE n.phase = "failed"
  <2>1. Places' = Places
    BY <1>5, <1>6, <1>8, <1>10, NobodyMoves
  <2>2. GivenUp' = GivenUp \cup {c}
    BY <1>5, <1>10 DEF GivenUp
  <2>3. Followed!Quit(c)
    BY <1>5, <2>1, <2>2 DEF Followed!Quit
  <2>. QED
    BY <1>3, <1>9, <2>3 DEF Followed!Next
<1>11. CASE n.phase = "ready" /\ n.cursor = m.cursor
  <2>1. Places' = Places
    BY <1>5, <1>6, <1>8, <1>11, NobodyMoves
  <2>2. GivenUp' = GivenUp
    BY <1>1, <1>5, <1>8, <1>11 DEF GivenUp
  <2>. QED
    BY <1>5, <1>9, <2>1, <2>2 DEF Followed!vars
<1>12. CASE n.phase = "ready" /\ n.cursor = m.cursor + 1
  <2>1. Places[c].stream # 0 /\ Places[c].process = instance
    BY <1>3, <1>8 DEF Places
  <2>2. Places' = [Places EXCEPT ![c].position = @ + 1]
    <3>1. PICK p : p = [stream |-> m.session, position |-> m.cursor, process |-> m.instance]
      OBVIOUS
    <3>2. PICK q : q = [p EXCEPT !.position = @ + 1]
      OBVIOUS
    <3>3. q = [stream |-> n.session, position |-> n.cursor, process |-> n.instance]
      BY ONLY <3>1, <3>2, <1>6, <1>12
    <3>4. Places[c] = p
      BY ONLY <3>1, <1>8, c \in Clients DEF Places
    <3>5. \A d \in Clients : Places'[d] = IF d = c THEN q ELSE Places[d]
      BY ONLY <3>3, <1>5 DEF Places
    <3>6. DOMAIN Places = Clients /\ Places' = [d \in Clients |-> Places'[d]]
          /\ Places = [d \in Clients |-> Places[d]]
      BY ONLY TRUE DEF Places
    <3>. QED
      BY ONLY <3>2, <3>4, <3>5, <3>6, c \in Clients
  <2>3. GivenUp' = GivenUp
    BY <1>1, <1>5, <1>8, <1>12 DEF GivenUp
  <2>4. Followed!Read(c)
    BY <1>5, <2>1, <2>2, <2>3 DEF Followed!Read
  <2>. QED
    BY <1>3, <1>9, <2>4 DEF Followed!Next
<1>. QED
  BY <1>6, <1>10, <1>11, <1>12

(* The three kinds of frame. *)
LEMMA ReceivePlaces ==
  ASSUME IInv, GapInv, JournalInv, PlaceInv, NEW c \in Clients, Receive(c)
  PROVE  PlaceInv' /\ [Followed!Next]_(Followed!vars)
<1>1. CASE Lose(c)
  BY <1>1, LosePlaces DEF Followed!vars
<1>2. CASE ~Lose(c)
  BY <1>2, WelcomePlaces, FramePlaces DEF Receive, Lose, IsWelcome
<1>. QED
  BY <1>1, <1>2

(* Another process takes over: everybody stays in place, and nobody reads. *)
LEMMA RestartPlaces ==
  ASSUME IInv, PlaceInv, Restart
  PROVE  PlaceInv' /\ [Followed!Next]_(Followed!vars)
<1>1. \A c \in Clients : clients[c] \in ClientType
  BY TypeParts DEF IInv, ClientsOK
<1>2. \A c \in Clients : /\ ~Reads(c)' /\ clients'[c].session = clients[c].session
                         /\ clients'[c].cursor = clients[c].cursor
                         /\ clients'[c].instance = clients[c].instance
                         /\ clients'[c].phase = "failed" <=> clients[c].phase = "failed"
  BY <1>1 DEF Restart, ClientType, Reads
<1>3. (Connections)' = Connections
      /\ \A u \in Connections : connections'[u].session = connections[u].session
  <2>1. ASSUME NEW u \in Connections PROVE connections'[u].session = connections[u].session
    <3>1. connections[u] \in ConnectionType
      BY OneConnection
    <3>. QED
      BY <3>1 DEF Restart, ConnectionType
  <2>2. DOMAIN connections' = Connections
    BY DEF Restart
  <2>. QED
    BY <2>1, <2>2 DEF Connections
<1>4. PlaceInv'
  BY <1>2, <1>3 DEF PlaceInv
<1>5. Places' = Places
  BY <1>2, NobodyMoves
<1>6. GivenUp' = GivenUp
  BY <1>2 DEF GivenUp
<1>7. Followed!Replace
  BY <1>5, <1>6 DEF Restart, Followed!Replace
<1>. QED
  BY <1>4, <1>7 DEF Followed!Next

(* Every step keeps the invariant, and is one of the stream's or none. *)
LEMMA PlaceStep ==
  ASSUME IInv, GapInv, JournalInv, PlaceInv, [Next]_vars
  PROVE  PlaceInv' /\ [Followed!Next]_(Followed!vars)
<1>1. ASSUME UNCHANGED <<connections, clients, instance>>
      PROVE  PlaceInv' /\ [Followed!Next]_(Followed!vars)
  <2>1. PlaceInv'
    BY <1>1, PlacesKept DEF Reads, Connections
  <2>2. Places' = Places /\ GivenUp' = GivenUp
    BY <1>1 DEF Places, GivenUp
  <2>. QED
    BY <1>1, <2>1, <2>2 DEF Followed!vars
<1>2. CASE \E s \in Known : Age(s) \/ Prune(s)
  BY <1>1, <1>2 DEF Age, Prune
<1>3. ASSUME NEW c \in Clients, Claim(c) PROVE PlaceInv' /\ [Followed!Next]_(Followed!vars)
  BY <1>3, ClaimPlaces DEF Followed!vars
<1>4. ASSUME NEW c \in Clients, Lose(c) PROVE PlaceInv' /\ [Followed!Next]_(Followed!vars)
  BY <1>4, LosePlaces DEF Followed!vars
<1>5. ASSUME NEW c \in Clients, Receive(c) PROVE PlaceInv' /\ [Followed!Next]_(Followed!vars)
  BY <1>5, ReceivePlaces
<1>6. ASSUME NEW t \in Connections, Serve(t) PROVE PlaceInv' /\ [Followed!Next]_(Followed!vars)
  <2>1. PlaceInv' /\ UNCHANGED <<clients, instance>>
    BY <1>6, TaskPlaces
  <2>2. Places' = Places /\ GivenUp' = GivenUp
    BY <2>1 DEF Places, GivenUp
  <2>. QED
    BY <2>1, <2>2 DEF Followed!vars
<1>7. CASE Restart
  BY <1>7, RestartPlaces
<1>8. CASE UNCHANGED vars
  BY <1>1, <1>8 DEF vars
<1>. QED
  BY <1>2, <1>3, <1>4, <1>5, <1>6, <1>7, <1>8 DEF Next

(* Nobody reads anything yet. *)
LEMMA PlaceInit == Init => PlaceInv /\ Followed!Init
<1> SUFFICES ASSUME Init PROVE PlaceInv /\ Followed!Init
  OBVIOUS
<1>1. PlaceInv
  BY DEF Init, PlaceInv, Connections, Reads, Client
<1>2. Places = [c \in Clients |-> Followed!Place(0, 0, 0)]
  BY DEF Init, Places, Client, Followed!Place
<1>3. GivenUp = {}
  BY DEF Init, GivenUp, Client
<1>. QED
  BY <1>1, <1>2, <1>3 DEF Init, Followed!Init

(* A client and the server, with all their connections, takeovers, evictions *)
(* and restarts, do no more to the client's place than ResumedStreams says:  *)
(* it reads a session's frames once and in order, or starts over in a later  *)
(* session of its own.                                                       *)
THEOREM ResumeImplementsStreams == Spec => ImplementsResumedStreams
<1>1. IInv /\ GapInv /\ JournalPlain /\ JournalInv /\ PlaceInv /\ [Next]_vars
        => /\ IInv' /\ GapInv' /\ JournalPlain' /\ JournalInv' /\ PlaceInv'
           /\ [Followed!Next]_(Followed!vars)
  BY InvStep, GapStep, JournalPlainKept, JournalStep, PlaceStep
<1>. QED
  BY <1>1, InvInit, GapInit, JournalInit, PlaceInit, PTL
     DEF Spec, ImplementsResumedStreams, Followed!Spec
=============================================================================
