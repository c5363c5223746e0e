----------------------------- MODULE ClientProofs -----------------------------
(*****************************************************************************)
(* Proofs about what reaches a client and what it keeps: the lists on their  *)
(* way from the cluster to its windows (WatchDelivery), and the edits in     *)
(* these windows (Workspace).                                                *)
(*****************************************************************************)
EXTENDS WatchDelivery, Workspace, FiniteSetTheorems, TLAPS

---------------------------------------------------------------------------
(* A list on its way: the pages of a snapshot *)

(* The constants of a session's lists. *)
LEMMA ListBounds ==
  /\ MaxRevision \in Nat /\ MaxForwarders \in Nat /\ Capacity \in Nat \ {0}
  /\ ChannelCapacity \in Nat \ {0} /\ WireCapacity \in Nat /\ RowsPerChunk \in Nat \ {0}
  /\ Identities = Watches \X Keys /\ NoKey \notin Keys
  /\ IsFiniteSet(Keys) /\ Cardinality(Keys) \in Nat /\ IsFiniteSet(Watches)
BY DeliveryAssumption, QueueAssumption, FS_CardinalityType

(* A finite set put into a sequence: every element is there. *)
LEMMA Enumerates ==
  ASSUME NEW S, IsFiniteSet(S)
  PROVE  /\ Cardinality(S) \in Nat
         /\ SetToSeq(S) \in [1 .. Cardinality(S) -> S]
         /\ \A x \in S : \E j \in 1 .. Cardinality(S) : SetToSeq(S)[j] = x
<1> DEFINE n == Cardinality(S)
<1>1. n \in Nat
  BY FS_CardinalityType
<1>2. ExistsBijection(1 .. n, S)
  <2>1. PICK m \in Nat : ExistsBijection(1 .. m, S)
    BY FS_NatBijection
  <2>2. m = n
    BY <2>1, FS_CountingElements
  <2>. QED
    BY <2>1, <2>2
<1>3. \E f \in [1 .. n -> S] : IsInjective(f)
  BY <1>2 DEF ExistsBijection, Bijection, Injection
<1>4. SetToSeq(S) \in [1 .. n -> S] /\ IsInjective(SetToSeq(S))
  BY <1>3 DEF SetToSeq
<1>5. SetToSeq(S) \in Injection(1 .. n, S)
  BY <1>4 DEF Injection
<1>6. Cardinality(1 .. n) = n
  BY <1>1, FS_Interval
<1>7. SetToSeq(S) \in Surjection(1 .. n, S)
  BY <1>1, <1>5, <1>6, FS_Injection
<1>. QED
  BY <1>1, <1>4, <1>7 DEF Surjection

(* Any sequence of all elements of a finite set names each of them. *)
LEMMA Permutes ==
  ASSUME NEW S, IsFiniteSet(S), NEW s \in SetToSeqs(S)
  PROVE  /\ s \in [1 .. Cardinality(S) -> S] /\ Cardinality(S) \in Nat
         /\ \A x \in S : \E j \in 1 .. Cardinality(S) : s[j] = x
<1> DEFINE n == Cardinality(S)
<1>1. n \in Nat
  BY FS_CardinalityType
<1>2. s \in [1 .. n -> S] /\ \A i, j \in 1 .. n : i # j => s[i] # s[j]
  BY DEF SetToSeqs
<1>3. s \in Injection(1 .. n, S)
  BY <1>2 DEF Injection, IsInjective
<1>4. Cardinality(1 .. n) = n
  BY <1>1, FS_Interval
<1>5. s \in Surjection(1 .. n, S)
  BY <1>1, <1>3, <1>4, FS_Injection
<1>. QED
  BY <1>1, <1>2, <1>5 DEF Surjection

(* Rounding up. *)
LEMMA RoundsUp ==
  ASSUME NEW n \in Nat, NEW r \in Nat \ {0}
  PROVE  /\ (n + r - 1) \div r \in Nat /\ (n + r - 1) \div r <= n
         /\ \A j \in 1 .. n : (j - 1) \div r \in Nat /\ (j - 1) \div r < (n + r - 1) \div r
<1> DEFINE q == (n + r - 1) \div r
<1>1. q \in Int /\ r * q <= n + r - 1 /\ n + r - 1 < r * q + r
  OBVIOUS
<1>2. q >= 0
  OBVIOUS
<1>3. q <= n
  OBVIOUS
<1>4. ASSUME NEW j \in 1 .. n PROVE (j - 1) \div r \in Nat /\ (j - 1) \div r < q
  OBVIOUS
<1>. QED
  BY <1>1, <1>2, <1>3, <1>4

ListType == [rev : 0 .. MaxRevision, rows : Rows]
AssemblyType == [total : PageIndex, got : PageIndex, rev : 0 .. MaxRevision, rows : Rows]

(* A row that changed or went has a key. *)
Whole(e) == e.kind \in {"changed", "gone"} => e.key \in Keys
ChanType == {e \in EventType : Whole(e)}

ForwarderType ==
  [watch : Watches, gen : Nat, pc : {"recv", "permit", "page", "done"}, chan : Seq(ChanType),
   lagged : BOOLEAN, event : EventType, page : PageIndex, cancelled : BOOLEAN]

SlotType ==
  [priority : Priorities, identity : Identities \cup {NoIdentity, Barrier}, seq : {1},
   msg : FrameType]

(* Only a delta has a resource's identity, its own. *)
SlotSound(q) ==
  /\ q.identity \in Identities =>
       q.msg.kind \in {"changed", "gone"} /\ q.identity = <<q.msg.watch, q.msg.key>>
  /\ q.identity = Barrier <=> q.msg.kind = "resync"

(* The assembly of the first n pages of the snapshot e. *)
Part(e, n) ==
  [total |-> Pages(e), got |-> n, rev |-> IF n = 0 THEN 0 ELSE e.rev,
   rows |-> [k \in Keys |->
     IF \E j \in DOMAIN Present(e) : Present(e)[j] = k /\ (j - 1) \div RowsPerChunk < n
     THEN e.rows[k] ELSE 0]]

(* What the client has of the list w after the frame m, and when it can take *)
(* that frame.                                                               *)
Assembled(a, m, w) ==
  IF m.kind = "resync" THEN NoAssembly
  ELSE IF m.watch # w THEN a
  ELSE IF m.kind = "begin" THEN [NoAssembly EXCEPT !.total = m.page]
  ELSE IF m.kind = "chunk" /\ a # NoAssembly
  THEN [a EXCEPT !.got = @ + 1, !.rev = m.rev,
                 !.rows = [k \in Keys |-> IF m.rows[k] # 0 THEN m.rows[k] ELSE @[k]]]
  ELSE IF m.kind = "end" THEN NoAssembly
  ELSE a

Accepts(a, m, w) ==
  m.watch = w =>
    /\ m.kind = "chunk" /\ a # NoAssembly => m.page = a.got /\ a.got < a.total
    /\ m.kind = "end" => a # NoAssembly /\ a.got = a.total

Newer(l, key, rev, value) ==
  IF l.rev # 0 /\ rev > l.rev THEN [rev |-> rev, rows |-> [l.rows EXCEPT ![key] = value]] ELSE l

Listed(l, a, m, w) ==
  IF m.kind = "resync" THEN NoList
  ELSE IF m.watch # w THEN l
  ELSE IF m.kind = "end" THEN [rev |-> a.rev, rows |-> a.rows]
  ELSE IF m.kind \in {"changed", "gone"}
  THEN Newer(l, m.key, m.rev, IF m.kind = "changed" THEN m.rev ELSE 0)
  ELSE l

(* What a list becomes by an event that the publisher sends. *)
Published(l, e) ==
  IF e.kind = "snapshot" THEN [rev |-> e.rev, rows |-> e.rows]
  ELSE Newer(l, e.key, e.rev, IF e.kind = "changed" THEN e.rev ELSE 0)

(* The frames on their way to the client. *)
Messages(q) == [i \in DOMAIN q |-> q[i].msg]
Flight(wi, q) == wi \o Messages(q)
Outgoing == Flight(wire, queue)

(* st are the assemblies of w from one frame of T to the next, ls its lists. *)
Assembles(st, T, w) ==
  /\ st \in [0 .. Len(T) -> AssemblyType]
  /\ \A i \in 1 .. Len(T) : Accepts(st[i - 1], T[i], w) /\ st[i] = Assembled(st[i - 1], T[i], w)

Lists(ls, st, T, w) ==
  /\ ls \in [0 .. Len(T) -> ListType]
  /\ \A i \in 1 .. Len(T) : ls[i] = Listed(ls[i - 1], st[i - 1], T[i], w)

(* R is T and one frame more. *)
Pushed(R, T, m) ==
  /\ R \in Seq(FrameType) /\ Len(R) = Len(T) + 1 /\ R[Len(T) + 1] = m
  /\ \A i \in 1 .. Len(T) : R[i] = T[i]

(* The rows of nothing. *)
LEMMA NothingTypes ==
  /\ NoRows \in Rows /\ NoList \in ListType /\ NoAssembly \in AssemblyType
  /\ NoEvent \in ChanType /\ NoEvent \in EventType
BY ListBounds DEF NoRows, Rows, NoList, ListType, NoAssembly, AssemblyType, NoEvent, Event, ChanType,
   EventType, Whole, PageIndex

(* A snapshot has one page at least, and one for each key at most. *)
LEMMA PagesBounded ==
  ASSUME NEW e \in EventType
  PROVE  Pages(e) \in PageIndex /\ Pages(e) # 0 /\ Pages(e) \in Nat
<1> DEFINE S == {k \in Keys : e.rows[k] # 0}
<1> DEFINE n == Cardinality(S)
<1> DEFINE full == (n + RowsPerChunk - 1) \div RowsPerChunk
<1>1. IsFiniteSet(S) /\ n \in Nat /\ n <= Cardinality(Keys)
  BY ListBounds, FS_Subset, FS_CardinalityType
<1>2. Len(Present(e)) = n
  <2>1. Present(e) \in [1 .. n -> S]
    BY <1>1, Enumerates DEF Present
  <2> HIDE DEF n, S
  <2>. QED
    BY <1>1, <2>1
<1>3. full \in Nat /\ full <= n
  BY <1>1, ListBounds, RoundsUp
<1>4. Pages(e) = IF full = 0 THEN 1 ELSE full
  BY <1>2 DEF Pages
<1> HIDE DEF full, n
<1>. QED
  BY <1>1, <1>3, <1>4, ListBounds DEF PageIndex

(* A page that is not the last one has a next one. *)
LEMMA NextPage ==
  ASSUME NEW e \in EventType, NEW n \in PageIndex, n + 1 < Pages(e)
  PROVE  n + 1 \in PageIndex
<1>1. Cardinality(Keys) \in Nat
  BY ListBounds
<1>2. Pages(e) \in PageIndex
  BY PagesBounded
<1> DEFINE count == Pages(e)
<1> HIDE DEF count
<1>3. n \in 0 .. Cardinality(Keys) + 1 /\ count \in 0 .. Cardinality(Keys) + 1 /\ n + 1 < count
  BY <1>2 DEF PageIndex, count
<1>4. n + 1 \in 0 .. Cardinality(Keys) + 1
  BY ONLY <1>1, <1>3
<1>. QED
  BY <1>4 DEF PageIndex

(* The rows of the pages. *)
LEMMA PartTypes ==
  ASSUME NEW e \in EventType, NEW n \in PageIndex
  PROVE  Part(e, n) \in AssemblyType /\ Part(e, n) # NoAssembly
<1>1. Pages(e) \in PageIndex /\ Pages(e) # 0
  BY PagesBounded
<1>2. e.rev \in 0 .. MaxRevision /\ e.rows \in Rows
  BY DEF EventType
<1>. QED
  BY <1>1, <1>2, ListBounds DEF Part, AssemblyType, Rows, NoAssembly

(* A page added to an assembly, field by field. *)
LEMMA PageAdded ==
  ASSUME NEW a \in AssemblyType, NEW rev, NEW more
  PROVE  [a EXCEPT !.got = @ + 1, !.rev = rev,
            !.rows = [k \in Keys |-> IF more[k] # 0 THEN more[k] ELSE @[k]]]
         = [total |-> a.total, got |-> a.got + 1, rev |-> rev,
            rows |-> [k \in Keys |-> IF more[k] # 0 THEN more[k] ELSE a.rows[k]]]
<1>1. \A n, x : [a EXCEPT !.got = n, !.rev = rev, !.rows = x]
                  = [total |-> a.total, got |-> n, rev |-> rev, rows |-> x]
  <2> TAKE n, x
  <2> DEFINE b == [a EXCEPT !.got = n, !.rev = rev, !.rows = x]
  <2>1. b = [a EXCEPT !.got = n, !.rev = rev, !.rows = x]
    OBVIOUS
  <2> HIDE DEF b
  <2>2. b = [total |-> a.total, got |-> n, rev |-> rev, rows |-> x]
    BY <2>1 DEF AssemblyType
  <2>. QED
    BY <2>1, <2>2
<1>. QED
  BY <1>1

(* Each page adds its rows ... *)
LEMMA PartGrows ==
  ASSUME NEW e \in EventType, NEW n \in Nat, n < Pages(e), NEW w, NEW m,
         m = FrameOf("chunk", w, PageOf(e, n), n)
  PROVE  Part(e, n + 1) = Assembled(Part(e, n), m, w) /\ Accepts(Part(e, n), m, w)
<1> DEFINE S == {k \in Keys : e.rows[k] # 0}
<1> DEFINE N == Cardinality(S)
<1>1. Present(e) \in [1 .. N -> S] /\ N \in Nat
  <2>1. IsFiniteSet(S)
    BY ListBounds, FS_Subset
  <2>. QED
    BY <2>1, Enumerates DEF Present
<1> DEFINE At(k, i) == \E j \in DOMAIN Present(e) : Present(e)[j] = k
    /\ (j - 1) \div RowsPerChunk = i
<1> DEFINE Below(k, i) == \E j \in DOMAIN Present(e) : Present(e)[j] = k
    /\ (j - 1) \div RowsPerChunk < i
<1>2. \A k : Below(k, n + 1) <=> Below(k, n) \/ At(k, n)
  <2>1. \A j \in DOMAIN Present(e) : (j - 1) \div RowsPerChunk \in Nat
    <3> SUFFICES ASSUME NEW j \in 1 .. N PROVE (j - 1) \div RowsPerChunk \in Nat
      BY <1>1
    <3>. QED
      BY <1>1, ListBounds, RoundsUp
  <2>2. \A d \in Nat : d < n + 1 <=> d < n \/ d = n
    OBVIOUS
  <2>. QED
    BY <2>1, <2>2
<1>3. \A k \in Keys : Below(k, n) \/ At(k, n) => e.rows[k] # 0
  BY <1>1
<1>4. e.rev \in Nat /\ e.rows \in [Keys -> Nat] /\ e.rows = [k \in Keys |-> e.rows[k]]
  BY ListBounds DEF EventType, Rows
<1>5. /\ m.kind = "chunk" /\ m.watch = w /\ m.page = n /\ m.rev = e.rev
      /\ m.rows = [k \in Keys |-> IF At(k, n) THEN e.rows[k] ELSE 0]
  BY DEF FrameOf, PageOf, EventType
<1> DEFINE a == Part(e, n)
<1>6. /\ a.total = Pages(e) /\ a.got = n
      /\ a.rows = [k \in Keys |-> IF Below(k, n) THEN e.rows[k] ELSE 0]
  BY DEF Part
<1>7. a # NoAssembly
  BY <1>6 DEF NoAssembly
<1>8. Part(e, n + 1) = [total |-> Pages(e), got |-> n + 1, rev |-> e.rev,
                        rows |-> [k \in Keys |-> IF Below(k, n + 1) THEN e.rows[k] ELSE 0]]
  BY DEF Part
<1>9. Assembled(a, m, w) = [total |-> Pages(e), got |-> n + 1, rev |-> e.rev,
                            rows |-> [k \in Keys |-> IF m.rows[k] # 0 THEN m.rows[k] ELSE a.rows[k]]]
  <2>1. Assembled(a, m, w) =
          [a EXCEPT !.got = @ + 1, !.rev = m.rev,
                    !.rows = [k \in Keys |-> IF m.rows[k] # 0 THEN m.rows[k] ELSE @[k]]]
    BY <1>5, <1>7 DEF Assembled
  <2>2. a \in AssemblyType
    <3>1. n \in PageIndex
      BY PagesBounded, ListBounds DEF PageIndex
    <3>. QED
      BY <3>1, PartTypes
  <2> HIDE DEF a
  <2>3. Assembled(a, m, w) = [total |-> a.total, got |-> a.got + 1, rev |-> m.rev,
                              rows |-> [k \in Keys |-> IF m.rows[k] # 0 THEN m.rows[k] ELSE a.rows[k]]]
    <3>1. \A r, x : [a EXCEPT !.got = @ + 1, !.rev = r,
                        !.rows = [k \in Keys |-> IF x[k] # 0 THEN x[k] ELSE @[k]]]
                     = [total |-> a.total, got |-> a.got + 1, rev |-> r,
                        rows |-> [k \in Keys |-> IF x[k] # 0 THEN x[k] ELSE a.rows[k]]]
      BY <2>2, PageAdded
    <3>. QED
      BY <2>1, <3>1
  <2>. QED
    BY <1>5, <1>6, <2>3
<1> HIDE DEF At, Below, a
<1>10. \A k \in Keys : (IF m.rows[k] # 0 THEN m.rows[k] ELSE a.rows[k])
                         = IF Below(k, n + 1) THEN e.rows[k] ELSE 0
  BY <1>2, <1>3, <1>5, <1>6
<1>11. Part(e, n + 1) = Assembled(a, m, w)
  BY <1>8, <1>9, <1>10
<1>12. Accepts(a, m, w)
  BY <1>5, <1>6 DEF Accepts
<1>. QED
  BY <1>11, <1>12 DEF a

(* ... and the last one completes them. *)
LEMMA PartComplete ==
  ASSUME NEW e \in EventType
  PROVE  Part(e, Pages(e)).rows = e.rows /\ Part(e, Pages(e)).rev = e.rev
<1> DEFINE S == {k \in Keys : e.rows[k] # 0}
<1> DEFINE N == Cardinality(S)
<1>1. /\ Present(e) \in [1 .. N -> S] /\ N \in Nat
      /\ \A k \in S : \E j \in 1 .. N : Present(e)[j] = k
  <2>1. IsFiniteSet(S)
    BY ListBounds, FS_Subset
  <2>. QED
    BY <2>1, Enumerates DEF Present
<1>2. \A j \in 1 .. N : (j - 1) \div RowsPerChunk < Pages(e)
  <2>1. Len(Present(e)) = N
    BY <1>1
  <2> DEFINE full == (N + RowsPerChunk - 1) \div RowsPerChunk
  <2>2. Pages(e) = IF full = 0 THEN 1 ELSE full
    BY <2>1 DEF Pages
  <2>3. full \in Nat /\ \A j \in 1 .. N : (j - 1) \div RowsPerChunk \in Nat
                                         /\ (j - 1) \div RowsPerChunk < full
    BY <1>1, ListBounds, RoundsUp
  <2> HIDE DEF full, N
  <2>. QED
    BY <2>2, <2>3
<1>3. \A k \in Keys : e.rows[k] # 0 =>
        \E j \in DOMAIN Present(e) : Present(e)[j] = k /\ (j - 1) \div RowsPerChunk < Pages(e)
  BY <1>1, <1>2
<1>4. e.rows = [k \in Keys |-> e.rows[k]]
  BY DEF EventType, Rows
<1>5. Pages(e) # 0
  BY PagesBounded
<1>. QED
  BY <1>3, <1>4, <1>5 DEF Part

(* What the client makes of a frame has its types. *)
LEMMA AssembledTypes ==
  ASSUME NEW a \in AssemblyType, NEW m \in FrameType, NEW w, Accepts(a, m, w)
  PROVE  Assembled(a, m, w) \in AssemblyType
<1>1. m.page \in PageIndex /\ m.rev \in 0 .. MaxRevision /\ m.rows \in Rows
  BY DEF FrameType
<1>2. [NoAssembly EXCEPT !.total = m.page] \in AssemblyType
  BY <1>1, NothingTypes DEF AssemblyType
<1>3. CASE m.watch = w /\ m.kind = "chunk" /\ a # NoAssembly
  <2>1. a.got + 1 \in PageIndex
    BY <1>3, ListBounds DEF Accepts, AssemblyType, PageIndex
  <2>2. [k \in Keys |-> IF m.rows[k] # 0 THEN m.rows[k] ELSE a.rows[k]] \in Rows
    BY <1>1 DEF Rows, AssemblyType
  <2>. QED
    BY <1>1, <1>3, <2>1, <2>2, NothingTypes DEF Assembled, AssemblyType
<1>. QED
  BY <1>2, <1>3, NothingTypes DEF Assembled

(* So have the lists. *)
LEMMA NewerTypes ==
  ASSUME NEW l \in ListType, NEW key, NEW rev \in 0 .. MaxRevision, NEW value \in 0 .. MaxRevision
  PROVE  Newer(l, key, rev, value) \in ListType
BY DEF Newer, ListType, Rows

(* The list after a frame is a list. *)
LEMMA ListedTypes ==
  ASSUME NEW l \in ListType, NEW a \in AssemblyType, NEW m \in FrameType, NEW w
  PROVE  Listed(l, a, m, w) \in ListType
<1>1. m.rev \in 0 .. MaxRevision /\ 0 \in 0 .. MaxRevision
  BY ListBounds DEF FrameType
<1>2. Newer(l, m.key, m.rev, IF m.kind = "changed" THEN m.rev ELSE 0) \in ListType
  BY <1>1, NewerTypes
<1>3. [rev |-> a.rev, rows |-> a.rows] \in ListType
  BY DEF AssemblyType, ListType
<1>. QED
  BY <1>2, <1>3, NothingTypes DEF Listed

(* The list after an event of the publisher is a list. *)
LEMMA PublishedTypes ==
  ASSUME NEW l \in ListType, NEW e \in EventType
  PROVE  Published(l, e) \in ListType
<1>1. e.rev \in 0 .. MaxRevision /\ 0 \in 0 .. MaxRevision /\ e.rows \in Rows
  BY ListBounds DEF EventType
<1>2. Newer(l, e.key, e.rev, IF e.kind = "changed" THEN e.rev ELSE 0) \in ListType
  BY <1>1, NewerTypes
<1>. QED
  BY <1>1, <1>2 DEF Published, ListType

(* One frame more. *)
LEMMA AssemblesOn ==
  ASSUME NEW T \in Seq(FrameType), NEW R, NEW m \in FrameType, Pushed(R, T, m), NEW w, NEW st,
         Assembles(st, T, w), Accepts(st[Len(T)], m, w)
  PROVE  \E tt : /\ Assembles(tt, R, w) /\ tt[0] = st[0]
                 /\ tt[Len(R)] = Assembled(st[Len(T)], m, w)
                 /\ \A i \in 0 .. Len(T) : tt[i] = st[i]
<1> DEFINE n == Len(T)
<1> DEFINE a == Assembled(st[n], m, w)
<1> DEFINE tt == [i \in 0 .. n + 1 |-> IF i <= n THEN st[i] ELSE a]
<1>1. n \in Nat /\ Len(R) = n + 1 /\ R[n + 1] = m /\ \A i \in 1 .. n : R[i] = T[i]
  BY DEF Pushed
<1>2. st \in [0 .. n -> AssemblyType] /\ st[n] \in AssemblyType
  BY <1>1 DEF Assembles
<1>3. a \in AssemblyType
  BY <1>2, AssembledTypes
<1> HIDE DEF a, n
<1>4. tt \in [0 .. n + 1 -> AssemblyType] /\ \A i \in 0 .. n : tt[i] = st[i]
  BY <1>1, <1>2, <1>3
<1>5. tt[n + 1] = a
  BY <1>1
<1> HIDE DEF tt
<1>6. ASSUME NEW i \in 1 .. n + 1
      PROVE  Accepts(tt[i - 1], R[i], w) /\ tt[i] = Assembled(tt[i - 1], R[i], w)
  <2>1. CASE i = n + 1
    <3>1. i - 1 = n /\ tt[i - 1] = st[n]
      BY <1>1, <1>4, <2>1
    <3>. QED
      BY <1>1, <1>5, <2>1, <3>1 DEF a, n
  <2>2. CASE i # n + 1
    <3>1. i \in 1 .. n /\ i \in 0 .. n /\ i - 1 \in 0 .. n
      BY <1>1, <2>2
    <3>2. tt[i] = st[i] /\ tt[i - 1] = st[i - 1] /\ R[i] = T[i]
      BY <1>1, <1>4, <3>1
    <3>. QED
      BY <3>1, <3>2 DEF Assembles, n
  <2>. QED
    BY <2>1, <2>2
<1>7. Assembles(tt, R, w)
  BY <1>1, <1>4, <1>6 DEF Assembles
<1>8. tt[0] = st[0]
  BY <1>1, <1>4
<1>. QED
  BY <1>1, <1>4, <1>5, <1>7, <1>8 DEF a, n

(* The lists of w for one frame more. *)
LEMMA ListsOn ==
  ASSUME NEW T \in Seq(FrameType), NEW R, NEW m \in FrameType, Pushed(R, T, m), NEW w, NEW st, NEW tt,
         Assembles(st, T, w), \A i \in 0 .. Len(T) : tt[i] = st[i], NEW ls, Lists(ls, st, T, w)
  PROVE  \E kk : /\ Lists(kk, tt, R, w) /\ kk[0] = ls[0]
                 /\ kk[Len(R)] = Listed(ls[Len(T)], st[Len(T)], m, w)
<1> DEFINE n == Len(T)
<1> DEFINE l == Listed(ls[n], st[n], m, w)
<1> DEFINE kk == [i \in 0 .. n + 1 |-> IF i <= n THEN ls[i] ELSE l]
<1>1. n \in Nat /\ Len(R) = n + 1 /\ R[n + 1] = m /\ \A i \in 1 .. n : R[i] = T[i]
  BY DEF Pushed
<1>2. ls \in [0 .. n -> ListType] /\ ls[n] \in ListType /\ st[n] \in AssemblyType
  BY <1>1 DEF Assembles, Lists
<1>3. l \in ListType
  BY <1>2, ListedTypes
<1> HIDE DEF l, n
<1>4. kk \in [0 .. n + 1 -> ListType] /\ \A i \in 0 .. n : kk[i] = ls[i]
  BY <1>1, <1>2, <1>3
<1>5. kk[n + 1] = l
  BY <1>1
<1> HIDE DEF kk
<1>6. ASSUME NEW i \in 1 .. n + 1
      PROVE  kk[i] = Listed(kk[i - 1], tt[i - 1], R[i], w)
  <2>1. CASE i = n + 1
    <3>1. i - 1 = n /\ kk[i - 1] = ls[n] /\ tt[i - 1] = st[n]
      BY <1>1, <1>4, <2>1 DEF n
    <3>. QED
      BY <1>1, <1>5, <2>1, <3>1 DEF l, n
  <2>2. CASE i # n + 1
    <3>1. i \in 1 .. n /\ i \in 0 .. n /\ i - 1 \in 0 .. n
      BY <1>1, <2>2
    <3>2. kk[i] = ls[i] /\ kk[i - 1] = ls[i - 1] /\ R[i] = T[i] /\ tt[i - 1] = st[i - 1]
      BY <1>1, <1>4, <3>1 DEF n
    <3>. QED
      BY <3>1, <3>2 DEF Lists, n
  <2>. QED
    BY <2>1, <2>2
<1>7. Lists(kk, tt, R, w)
  BY <1>1, <1>4, <1>6 DEF Lists
<1>8. kk[0] = ls[0]
  BY <1>1, <1>4
<1>. QED
  BY <1>1, <1>5, <1>7, <1>8 DEF l, n

(* One frame less: the client takes the first. *)
LEMMA AssemblesTail ==
  ASSUME NEW T \in Seq(FrameType), T # <<>>, NEW w, NEW st, Assembles(st, T, w)
  PROVE  /\ Accepts(st[0], Head(T), w)
         /\ \E tt : /\ Assembles(tt, Tail(T), w) /\ tt[0] = Assembled(st[0], Head(T), w)
                    /\ tt[Len(Tail(T))] = st[Len(T)]
                    /\ \A i \in 0 .. Len(Tail(T)) : tt[i] = st[i + 1]
<1> DEFINE n == Len(T)
<1> DEFINE R == Tail(T)
<1> DEFINE tt == [i \in 0 .. n - 1 |-> st[i + 1]]
<1>1. n \in Nat /\ n # 0 /\ Len(R) = n - 1 /\ \A i \in 1 .. n - 1 : R[i] = T[i + 1]
  OBVIOUS
<1>2. T[1] = Head(T) /\ 1 \in 1 .. n
  BY <1>1
<1> HIDE DEF n, R
<1>3. st \in [0 .. n -> AssemblyType]
  BY DEF Assembles, n
<1>4. tt \in [0 .. n - 1 -> AssemblyType] /\ tt[0] = st[1] /\ tt[n - 1] = st[n]
  BY <1>1, <1>3
<1>5. \A i \in 0 .. n - 1 : tt[i] = st[i + 1]
  OBVIOUS
<1> HIDE DEF tt
<1>6. Accepts(st[0], Head(T), w) /\ st[1] = Assembled(st[0], Head(T), w)
  <2>1. 1 - 1 = 0
    OBVIOUS
  <2>. QED
    BY <1>2, <2>1 DEF Assembles, n
<1>7. ASSUME NEW i \in 1 .. n - 1
      PROVE  Accepts(tt[i - 1], R[i], w) /\ tt[i] = Assembled(tt[i - 1], R[i], w)
  <2>1. i + 1 \in 1 .. n /\ (i + 1) - 1 = i /\ i - 1 \in 0 .. n - 1 /\ i \in 0 .. n - 1
        /\ (i - 1) + 1 = i
    BY <1>1
  <2>2. tt[i] = st[i + 1] /\ tt[i - 1] = st[i] /\ R[i] = T[i + 1]
    BY <1>1, <1>5, <2>1
  <2>3. Accepts(st[(i + 1) - 1], T[i + 1], w)
        /\ st[i + 1] = Assembled(st[(i + 1) - 1], T[i + 1], w)
    BY <2>1 DEF Assembles, n
  <2>. QED
    BY <2>1, <2>2, <2>3
<1>8. Assembles(tt, R, w)
  BY <1>1, <1>4, <1>7 DEF Assembles
<1>. QED
  BY <1>1, <1>4, <1>5, <1>6, <1>8 DEF n, R

(* The lists of w without the first frame. *)
LEMMA ListsTail ==
  ASSUME NEW T \in Seq(FrameType), T # <<>>, NEW w, NEW st, NEW tt,
         \A i \in 0 .. Len(Tail(T)) : tt[i] = st[i + 1], NEW ls, Lists(ls, st, T, w)
  PROVE  \E kk : /\ Lists(kk, tt, Tail(T), w) /\ kk[0] = Listed(ls[0], st[0], Head(T), w)
                 /\ kk[Len(Tail(T))] = ls[Len(T)]
<1> DEFINE n == Len(T)
<1> DEFINE R == Tail(T)
<1> DEFINE kk == [i \in 0 .. n - 1 |-> ls[i + 1]]
<1>1. n \in Nat /\ n # 0 /\ Len(R) = n - 1 /\ \A i \in 1 .. n - 1 : R[i] = T[i + 1]
  OBVIOUS
<1>2. T[1] = Head(T) /\ 1 \in 1 .. n
  BY <1>1
<1>0. \A i \in 0 .. n - 1 : tt[i] = st[i + 1]
  BY <1>1
<1> HIDE DEF n, R
<1>3. ls \in [0 .. n -> ListType]
  BY DEF Lists, n
<1>4. kk \in [0 .. n - 1 -> ListType] /\ kk[0] = ls[1] /\ kk[n - 1] = ls[n]
  BY <1>1, <1>3
<1>5. \A i \in 0 .. n - 1 : kk[i] = ls[i + 1]
  OBVIOUS
<1> HIDE DEF kk
<1>6. ls[1] = Listed(ls[0], st[0], Head(T), w)
  <2>1. 1 - 1 = 0
    OBVIOUS
  <2>. QED
    BY <1>2, <2>1 DEF Lists, n
<1>7. ASSUME NEW i \in 1 .. n - 1
      PROVE  kk[i] = Listed(kk[i - 1], tt[i - 1], R[i], w)
  <2>1. i + 1 \in 1 .. n /\ (i + 1) - 1 = i /\ i - 1 \in 0 .. n - 1 /\ i \in 0 .. n - 1
        /\ (i - 1) + 1 = i
    BY <1>1
  <2>2. kk[i] = ls[i + 1] /\ kk[i - 1] = ls[i] /\ R[i] = T[i + 1] /\ tt[i - 1] = st[i]
    BY <1>0, <1>1, <1>5, <2>1
  <2>3. ls[i + 1] = Listed(ls[(i + 1) - 1], st[(i + 1) - 1], T[i + 1], w)
    BY <2>1 DEF Lists, n
  <2>. QED
    BY <2>1, <2>2, <2>3
<1>8. Lists(kk, tt, R, w)
  BY <1>1, <1>4, <1>7 DEF Lists
<1>. QED
  BY <1>1, <1>4, <1>6, <1>8 DEF n, R

(* From the assembly a0 and the list l0 the frames T lead to a and l; once a *)
(* delta was coalesced (mg), what the lists become is left open.             *)
Runs(T, w, a0, l0, a, l, mg) ==
  /\ a \in AssemblyType /\ l \in ListType
  /\ \E st : /\ Assembles(st, T, w) /\ st[0] = a0 /\ st[Len(T)] = a
             /\ mg \/ \E ls : Lists(ls, st, T, w) /\ ls[0] = l0 /\ ls[Len(T)] = l

(* With no frame on its way the client has what there is. *)
LEMMA RunsEmpty ==
  ASSUME NEW w, NEW a \in AssemblyType, NEW l \in ListType, NEW mg \in BOOLEAN
  PROVE  Runs(<<>>, w, a, l, a, l, mg)
<1> DEFINE st == [i \in 0 .. 0 |-> a]
<1> DEFINE ls == [i \in 0 .. 0 |-> l]
<1>1. Len(<<>>) = 0 /\ 1 .. 0 = {}
  OBVIOUS
<1>2. Assembles(st, <<>>, w)
  BY <1>1 DEF Assembles
<1>3. Lists(ls, st, <<>>, w)
  BY <1>1 DEF Lists
<1>4. st[0] = a /\ ls[0] = l
  OBVIOUS
<1> HIDE DEF st, ls
<1>. QED
  BY <1>1, <1>2, <1>3, <1>4 DEF Runs

(* ... and nothing else. *)
LEMMA RunsNothing ==
  ASSUME NEW T, T = <<>>, NEW w, NEW a0, NEW l0, NEW a, NEW l, NEW mg, ~mg, Runs(T, w, a0, l0, a, l, mg)
  PROVE  a = a0 /\ l = l0
<1>1. Len(T) = 0
  OBVIOUS
<1>. QED
  BY <1>1 DEF Runs

(* A frame that the client can take is put behind the others. *)
LEMMA RunsOn ==
  ASSUME NEW T \in Seq(FrameType), NEW R, NEW m \in FrameType, Pushed(R, T, m), NEW w,
         NEW a0, NEW l0, NEW a, NEW l, NEW mg, Runs(T, w, a0, l0, a, l, mg), Accepts(a, m, w)
  PROVE  Runs(R, w, a0, l0, Assembled(a, m, w), Listed(l, a, m, w), mg)
<1>1. PICK st : /\ Assembles(st, T, w) /\ st[0] = a0 /\ st[Len(T)] = a
                /\ mg \/ \E ls : Lists(ls, st, T, w) /\ ls[0] = l0 /\ ls[Len(T)] = l
  BY DEF Runs
<1>2. PICK tt : /\ Assembles(tt, R, w) /\ tt[0] = st[0]
                /\ tt[Len(R)] = Assembled(st[Len(T)], m, w)
                /\ \A i \in 0 .. Len(T) : tt[i] = st[i]
  BY <1>1, AssemblesOn
<1>3. a \in AssemblyType /\ l \in ListType
  BY DEF Runs
<1>4. Assembled(a, m, w) \in AssemblyType /\ Listed(l, a, m, w) \in ListType
  BY <1>3, AssembledTypes, ListedTypes
<1>5. CASE mg
  BY <1>1, <1>2, <1>4, <1>5 DEF Runs
<1>6. CASE ~mg
  <2>1. PICK ls : Lists(ls, st, T, w) /\ ls[0] = l0 /\ ls[Len(T)] = l
    BY <1>1, <1>6
  <2>2. PICK kk : /\ Lists(kk, tt, R, w) /\ kk[0] = ls[0]
                  /\ kk[Len(R)] = Listed(ls[Len(T)], st[Len(T)], m, w)
    BY <1>1, <1>2, <2>1, ListsOn
  <2>3. kk[0] = l0 /\ kk[Len(R)] = Listed(l, a, m, w)
    BY <1>1, <2>1, <2>2
  <2>4. tt[0] = a0 /\ tt[Len(R)] = Assembled(a, m, w)
    BY <1>1, <1>2
  <2>. QED
    BY <1>2, <1>4, <2>2, <2>3, <2>4 DEF Runs
<1>. QED
  BY <1>5, <1>6

(* The client takes the first frame, and can. *)
LEMMA RunsTail ==
  ASSUME NEW T \in Seq(FrameType), T # <<>>, NEW w,
         NEW a0, NEW l0, NEW a, NEW l, NEW mg, Runs(T, w, a0, l0, a, l, mg)
  PROVE  /\ Accepts(a0, Head(T), w)
         /\ Runs(Tail(T), w, Assembled(a0, Head(T), w), Listed(l0, a0, Head(T), w), a, l, mg)
<1>1. PICK st : /\ Assembles(st, T, w) /\ st[0] = a0 /\ st[Len(T)] = a
                /\ mg \/ \E ls : Lists(ls, st, T, w) /\ ls[0] = l0 /\ ls[Len(T)] = l
  BY DEF Runs
<1>2. Accepts(st[0], Head(T), w)
  BY <1>1, AssemblesTail
<1>3. PICK tt : /\ Assembles(tt, Tail(T), w) /\ tt[0] = Assembled(st[0], Head(T), w)
                /\ tt[Len(Tail(T))] = st[Len(T)]
                /\ \A i \in 0 .. Len(Tail(T)) : tt[i] = st[i + 1]
  BY <1>1, AssemblesTail
<1>4. a \in AssemblyType /\ l \in ListType
  BY DEF Runs
<1>5. tt[0] = Assembled(a0, Head(T), w) /\ tt[Len(Tail(T))] = a
  BY <1>1, <1>3
<1>6. CASE mg
  BY <1>1, <1>2, <1>3, <1>4, <1>5, <1>6 DEF Runs
<1>7. CASE ~mg
  <2>1. PICK ls : Lists(ls, st, T, w) /\ ls[0] = l0 /\ ls[Len(T)] = l
    BY <1>1, <1>7
  <2>2. PICK kk : /\ Lists(kk, tt, Tail(T), w) /\ kk[0] = Listed(ls[0], st[0], Head(T), w)
                  /\ kk[Len(Tail(T))] = ls[Len(T)]
    BY <1>1, <1>3, <2>1, ListsTail
  <2>3. kk[0] = Listed(l0, a0, Head(T), w) /\ kk[Len(Tail(T))] = l
    BY <1>1, <2>1, <2>2
  <2>. QED
    BY <1>1, <1>2, <1>3, <1>4, <1>5, <2>2, <2>3 DEF Runs
<1>. QED
  BY <1>6, <1>7

(* Deltas do not touch an assembly: the payload of a queued one may change. *)
Alike(R, T) ==
  /\ Len(R) = Len(T)
  /\ \A i \in 1 .. Len(T) :
       R[i] = T[i] \/ (R[i].kind \in {"changed", "gone"} /\ T[i].kind \in {"changed", "gone"})

(* Merging deltas leaves the assemblies as they were. *)
LEMMA RunsMerged ==
  ASSUME NEW T \in Seq(FrameType), NEW R, Alike(R, T), NEW w,
         NEW a0, NEW l0, NEW a, NEW l, NEW mg, Runs(T, w, a0, l0, a, l, mg)
  PROVE  Runs(R, w, a0, l0, a, l, TRUE)
<1>1. PICK st : Assembles(st, T, w) /\ st[0] = a0 /\ st[Len(T)] = a
  BY DEF Runs
<1>2. ASSUME NEW i \in 1 .. Len(T)
      PROVE  Accepts(st[i - 1], R[i], w) /\ st[i] = Assembled(st[i - 1], R[i], w)
  <2>1. Accepts(st[i - 1], T[i], w) /\ st[i] = Assembled(st[i - 1], T[i], w)
    BY <1>1 DEF Assembles
  <2>2. CASE R[i] = T[i]
    BY <2>1, <2>2
  <2>3. CASE R[i].kind \in {"changed", "gone"} /\ T[i].kind \in {"changed", "gone"}
    <3>1. st[i] = st[i - 1]
      BY <2>1, <2>3 DEF Assembled
    <3>. QED
      BY <2>3, <3>1 DEF Assembled, Accepts
  <2>. QED
    BY <2>2, <2>3 DEF Alike
<1>3. Assembles(st, R, w)
  BY <1>1, <1>2 DEF Assembles, Alike
<1>4. Len(R) = Len(T)
  BY DEF Alike
<1>. QED
  BY <1>1, <1>3, <1>4 DEF Runs

(* Frames of other subscriptions leave a list that was never filled empty. *)
LEMMA RunsCold ==
  ASSUME NEW T \in Seq(FrameType), NEW w, \A i \in 1 .. Len(T) : T[i].watch # w,
         NEW a0, NEW l0, NEW a, NEW l, NEW mg, Runs(T, w, a0, l0, a, l, mg)
  PROVE  Runs(T, w, a0, NoList, a, NoList, mg)
<1>1. PICK st : Assembles(st, T, w) /\ st[0] = a0 /\ st[Len(T)] = a
  BY DEF Runs
<1> DEFINE n == Len(T)
<1> DEFINE ls == [i \in 0 .. n |-> NoList]
<1>2. n \in Nat
  OBVIOUS
<1>3. ls \in [0 .. n -> ListType] /\ ls[0] = NoList /\ ls[n] = NoList
  BY <1>2, NothingTypes
<1>4. ASSUME NEW i \in 1 .. n PROVE ls[i] = Listed(ls[i - 1], st[i - 1], T[i], w)
  <2>1. ls[i] = NoList /\ ls[i - 1] = NoList
    BY <1>2
  <2>2. T[i].watch # w
    OBVIOUS
  <2> HIDE DEF ls
  <2>. QED
    BY <2>1, <2>2 DEF Listed
<1> HIDE DEF ls
<1>5. Lists(ls, st, T, w)
  BY <1>3, <1>4 DEF Lists
<1>6. a \in AssemblyType
  BY DEF Runs
<1>. QED
  BY <1>1, <1>3, <1>5, <1>6, NothingTypes DEF Runs

---------------------------------------------------------------------------
(* A list on its way: the events of a forwarder *)

(* What the next event of g is applied to, where l is what the frames sent  *)
(* so far leave.                                                            *)
Base(g, l) ==
  IF g.pc \in {"permit", "page"} THEN [rev |-> g.event.rev, rows |-> g.event.rows] ELSE l

(* A list of a running selection is not older than the last cut. *)
Reaches(v, target, rev, served) ==
  v.rows = target /\ v.rev <= rev /\ (served => v.rev # 0)

(* The events that g holds make target of l, or g knows that it lost some. *)
Delivers(g, l, target, rev, served) ==
  \/ g.lagged
  \/ \E ev \in [0 .. Len(g.chan) -> ListType] :
       /\ ev[0] = Base(g, l)
       /\ \A i \in 1 .. Len(g.chan) : ev[i] = Published(ev[i - 1], g.chan[i])
       /\ Reaches(ev[Len(g.chan)], target, rev, served)

(* A forwarder that still holds the same events, of a later revision. *)
LEMMA DeliversSame ==
  ASSUME NEW g, NEW l, NEW h, NEW k, NEW target, NEW rev \in Nat, NEW more \in Nat, rev <= more,
         NEW served, h.chan = g.chan, h.lagged = g.lagged, Base(h, k) = Base(g, l),
         g.chan \in Seq(ChanType), Delivers(g, l, target, rev, served)
  PROVE  Delivers(h, k, target, more, served)
<1>1. CASE g.lagged
  BY <1>1 DEF Delivers
<1>2. CASE ~g.lagged
  <2>1. PICK ev \in [0 .. Len(g.chan) -> ListType] :
          /\ ev[0] = Base(g, l)
          /\ \A i \in 1 .. Len(g.chan) : ev[i] = Published(ev[i - 1], g.chan[i])
          /\ Reaches(ev[Len(g.chan)], target, rev, served)
    BY <1>2 DEF Delivers
  <2>2. Len(g.chan) \in 0 .. Len(g.chan)
    OBVIOUS
  <2>3. ev[Len(g.chan)].rev \in 0 .. MaxRevision
    BY <2>1, <2>2 DEF ListType
  <2>4. Reaches(ev[Len(g.chan)], target, more, served)
    BY <2>1, <2>3, ListBounds DEF Reaches
  <2>. QED
    BY <2>1, <2>4 DEF Delivers
<1>. QED
  BY <1>1, <1>2

(* The publisher sends one event more. *)
LEMMA DeliversOffer ==
  ASSUME NEW g \in ForwarderType, NEW l, NEW target, NEW rev, NEW served, NEW e \in ChanType,
         NEW goal, NEW more, NEW serves, Delivers(g, l, target, rev, served),
         \A v \in ListType : Reaches(v, target, rev, served) => Reaches(Published(v, e), goal, more, serves)
  PROVE  Delivers(Offer(g, e), l, goal, more, serves)
<1> DEFINE n == Len(g.chan)
<1> DEFINE h == Offer(g, e)
<1>1. g.chan \in Seq(ChanType) /\ n \in Nat /\ g.lagged \in BOOLEAN
  BY DEF ForwarderType
<1>2. CASE n = ChannelCapacity \/ g.lagged
  <2>1. h.lagged
    BY <1>2 DEF Offer, ForwarderType
  <2>. QED
    BY <2>1 DEF Delivers
<1>3. CASE n # ChannelCapacity /\ ~g.lagged
  <2>1. h = [g EXCEPT !.chan = Append(@, e)]
    BY <1>3 DEF Offer
  <2>2. h.chan = Append(g.chan, e) /\ h.pc = g.pc /\ h.event = g.event /\ h.lagged = g.lagged
    BY <2>1 DEF ForwarderType
  <2>3. PICK ev \in [0 .. n -> ListType] :
          /\ ev[0] = Base(g, l)
          /\ \A i \in 1 .. n : ev[i] = Published(ev[i - 1], g.chan[i])
          /\ Reaches(ev[n], target, rev, served)
    BY <1>3 DEF Delivers
  <2>4. Base(h, l) = Base(g, l)
    BY <2>2 DEF Base
  <2> HIDE DEF h
  <2>5. Len(h.chan) = n + 1 /\ h.chan[n + 1] = e /\ \A i \in 1 .. n : h.chan[i] = g.chan[i]
    BY <1>1, <2>2
  <2> HIDE DEF n
  <2> DEFINE p == Published(ev[n], e)
  <2> DEFINE ew == [i \in 0 .. n + 1 |-> IF i <= n THEN ev[i] ELSE p]
  <2>6. ev[n] \in ListType
    BY <1>1
  <2>7. p \in ListType /\ Reaches(p, goal, more, serves)
    BY <2>3, <2>6, PublishedTypes DEF ChanType
  <2>10. p = Published(ev[n], e)
    OBVIOUS
  <2> HIDE DEF p
  <2>8. ew \in [0 .. n + 1 -> ListType] /\ ew[n + 1] = p /\ \A i \in 0 .. n : ew[i] = ev[i]
    BY <1>1, <2>7
  <2> HIDE DEF ew
  <2>9. ASSUME NEW i \in 1 .. n + 1 PROVE ew[i] = Published(ew[i - 1], h.chan[i])
    <3>1. CASE i = n + 1
      <4>1. i - 1 = n /\ n \in 0 .. n
        BY <1>1, <3>1
      <4>. QED
        BY <2>5, <2>8, <2>10, <3>1, <4>1
    <3>2. CASE i # n + 1
      <4>1. i \in 1 .. n /\ i \in 0 .. n /\ i - 1 \in 0 .. n
        BY <1>1, <3>2
      <4>. QED
        BY <2>3, <2>5, <2>8, <4>1
    <3>. QED
      BY <3>1, <3>2
  <2>11. ew[0] = Base(h, l)
    BY <1>1, <2>3, <2>4, <2>8
  <2>12. Delivers(h, l, goal, more, serves)
    BY <2>5, <2>7, <2>8, <2>9, <2>11 DEF Delivers
  <2>. QED
    BY <2>12 DEF h
<1>. QED
  BY <1>2, <1>3

(* A whole cut, to a forwarder that waits for its first event. *)
LEMMA DeliversFirst ==
  ASSUME NEW g \in ForwarderType, g.chan = <<>>, NEW l \in ListType, g.pc = "recv",
         NEW e \in ChanType, e.kind = "snapshot", NEW served, e.rev # 0
  PROVE  Delivers(Offer(g, e), l, e.rows, e.rev, served)
<1> DEFINE h == Offer(g, e)
<1> DEFINE p == [rev |-> e.rev, rows |-> e.rows]
<1> DEFINE ev == [i \in 0 .. 1 |-> IF i = 0 THEN l ELSE p]
<1>1. h = [g EXCEPT !.chan = Append(@, e)]
  BY ListBounds DEF Offer
<1>2. h.chan = <<e>> /\ h.pc = "recv"
  BY <1>1 DEF ForwarderType
<1>3. p \in ListType /\ e.rev \in Nat
  BY ListBounds DEF ChanType, EventType, ListType
<1>4. p = Published(l, e) /\ p.rev = e.rev /\ p.rows = e.rows
  BY DEF Published
<1> HIDE DEF h, p
<1>5. ev \in [0 .. 1 -> ListType] /\ ev[0] = l /\ ev[1] = p
  BY <1>3
<1> HIDE DEF ev
<1>6. Len(h.chan) = 1 /\ h.chan[1] = e
  BY <1>2
<1>7. Base(h, l) = l
  BY <1>2 DEF Base
<1>8. Reaches(ev[1], e.rows, e.rev, served)
  BY <1>3, <1>4, <1>5 DEF Reaches
<1>9. \A i \in 1 .. 1 : ev[i] = Published(ev[i - 1], h.chan[i])
  <2> SUFFICES ev[1] = Published(ev[1 - 1], h.chan[1])
    OBVIOUS
  <2>1. 1 - 1 = 0
    OBVIOUS
  <2>. QED
    BY <1>4, <1>5, <1>6, <2>1
<1>10. Delivers(h, l, e.rows, e.rev, served)
  BY <1>5, <1>6, <1>7, <1>8, <1>9 DEF Delivers
<1>. QED
  BY <1>10 DEF h

(* The forwarder takes its next event. *)
LEMMA DeliversTake ==
  ASSUME NEW g \in ForwarderType, ~g.lagged, g.chan # <<>>, NEW l, NEW target, NEW rev, NEW served,
         Delivers(g, l, target, rev, served),
         NEW h, NEW k, h.chan = Tail(g.chan), Base(h, k) = Published(Base(g, l), Head(g.chan))
  PROVE  Delivers(h, k, target, rev, served)
<1> DEFINE n == Len(g.chan)
<1>1. g.chan \in Seq(ChanType) /\ n \in Nat /\ n # 0 /\ Head(g.chan) = g.chan[1]
  BY DEF ForwarderType
<1>2. Len(h.chan) = n - 1 /\ \A i \in 1 .. n - 1 : h.chan[i] = g.chan[i + 1]
  BY <1>1
<1>3. PICK ev \in [0 .. n -> ListType] :
        /\ ev[0] = Base(g, l)
        /\ \A i \in 1 .. n : ev[i] = Published(ev[i - 1], g.chan[i])
        /\ Reaches(ev[n], target, rev, served)
  BY DEF Delivers
<1> HIDE DEF n
<1> DEFINE ew == [i \in 0 .. n - 1 |-> ev[i + 1]]
<1>4. ew \in [0 .. n - 1 -> ListType] /\ ew[0] = ev[1] /\ ew[n - 1] = ev[n]
  BY <1>1
<1>5. \A i \in 0 .. n - 1 : ew[i] = ev[i + 1]
  OBVIOUS
<1> HIDE DEF ew
<1>6. ev[1] = Published(ev[0], g.chan[1])
  <2>1. 1 - 1 = 0 /\ 1 \in 1 .. n
    BY <1>1
  <2>. QED
    BY <1>3, <2>1
<1>7. ASSUME NEW i \in 1 .. n - 1 PROVE ew[i] = Published(ew[i - 1], h.chan[i])
  <2>0. n \in Nat /\ i \in 1 .. n - 1
    BY <1>1
  <2>1. i + 1 \in 1 .. n /\ (i + 1) - 1 = i /\ i - 1 \in 0 .. n - 1 /\ i \in 0 .. n - 1
        /\ (i - 1) + 1 = i
    BY ONLY <2>0
  <2>2. ew[i] = ev[i + 1] /\ ew[i - 1] = ev[i] /\ h.chan[i] = g.chan[i + 1]
    BY <1>2, <1>5, <2>1
  <2>3. ev[i + 1] = Published(ev[(i + 1) - 1], g.chan[i + 1])
    BY <1>3, <2>1
  <2>. QED
    BY <2>1, <2>2, <2>3
<1>8. ew[0] = Base(h, k)
  BY <1>1, <1>3, <1>4, <1>6
<1>. QED
  BY <1>2, <1>3, <1>4, <1>7, <1>8 DEF Delivers

---------------------------------------------------------------------------
(* A list on its way: the queue and the wire *)

LEMMA FlightTypes ==
  ASSUME NEW wi \in Seq(FrameType), NEW q \in Seq(SlotType)
  PROVE  /\ Flight(wi, q) \in Seq(FrameType) /\ Len(Flight(wi, q)) = Len(wi) + Len(q)
         /\ \A i \in 1 .. Len(wi) : Flight(wi, q)[i] = wi[i]
         /\ \A i \in 1 .. Len(q) : Flight(wi, q)[Len(wi) + i] = q[i].msg
<1>0. \A s \in SlotType : s.msg \in FrameType
  BY DEF SlotType
<1>1. \A i \in 1 .. Len(q) : q[i] \in SlotType /\ q[i].msg \in FrameType
  BY <1>0
<1>2. Messages(q) \in Seq(FrameType) /\ Len(Messages(q)) = Len(q)
      /\ \A i \in 1 .. Len(q) : Messages(q)[i] = q[i].msg
  BY <1>1 DEF Messages
<1>. QED
  BY <1>2 DEF Flight

(* Whatever is queued behind everything else. *)
LEMMA FlightPushed ==
  ASSUME NEW wi \in Seq(FrameType), NEW q \in Seq(SlotType), NEW s \in SlotType
  PROVE  Pushed(Flight(wi, Append(q, s)), Flight(wi, q), s.msg)
<1> DEFINE r == Append(q, s)
<1>1. r \in Seq(SlotType) /\ Len(r) = Len(q) + 1 /\ r[Len(q) + 1] = s
      /\ \A i \in 1 .. Len(q) : r[i] = q[i]
  OBVIOUS
<1> HIDE DEF r
<1>2. /\ Flight(wi, q) \in Seq(FrameType) /\ Len(Flight(wi, q)) = Len(wi) + Len(q)
      /\ \A i \in 1 .. Len(wi) : Flight(wi, q)[i] = wi[i]
      /\ \A i \in 1 .. Len(q) : Flight(wi, q)[Len(wi) + i] = q[i].msg
  BY FlightTypes
<1>3. /\ Flight(wi, r) \in Seq(FrameType) /\ Len(Flight(wi, r)) = Len(wi) + Len(r)
      /\ \A i \in 1 .. Len(wi) : Flight(wi, r)[i] = wi[i]
      /\ \A i \in 1 .. Len(r) : Flight(wi, r)[Len(wi) + i] = r[i].msg
  BY <1>1, FlightTypes
<1>4. ASSUME NEW i \in 1 .. Len(Flight(wi, q)) PROVE Flight(wi, r)[i] = Flight(wi, q)[i]
  <2>1. CASE i <= Len(wi)
    BY <1>2, <1>3, <2>1
  <2>2. CASE i > Len(wi)
    <3> DEFINE d == i - Len(wi)
    <3>1. d \in 1 .. Len(q) /\ Len(wi) + d = i /\ d \in 1 .. Len(r)
      BY <1>1, <1>2, <2>2
    <3> HIDE DEF d
    <3>2. Flight(wi, q)[i] = q[d].msg
      BY <1>2, <3>1
    <3>3. Flight(wi, r)[i] = r[d].msg
      BY <1>3, <3>1
    <3>4. r[d] = q[d]
      BY <1>1, <3>1
    <3>. QED
      BY <3>2, <3>3, <3>4
  <2>. QED
    BY <1>2, <2>1, <2>2
<1>5. Flight(wi, r)[Len(Flight(wi, q)) + 1] = s.msg
  <2>1. Len(q) + 1 \in 1 .. Len(r) /\ Len(Flight(wi, q)) + 1 = Len(wi) + (Len(q) + 1)
    BY <1>1, <1>2
  <2>. QED
    BY <1>1, <1>3, <2>1
<1>6. Len(Flight(wi, r)) = Len(Flight(wi, q)) + 1
  BY <1>1, <1>2, <1>3
<1>. QED
  BY <1>3, <1>4, <1>5, <1>6 DEF Pushed, r

(* The writer moves a frame from the queue to the wire. *)
LEMMA FlightWritten ==
  ASSUME NEW wi \in Seq(FrameType), NEW q \in Seq(SlotType), q # <<>>
  PROVE  Flight(Append(wi, Head(q).msg), Tail(q)) = Flight(wi, q)
<1> DEFINE v == Append(wi, Head(q).msg)
<1> DEFINE r == Tail(q)
<1>0. Head(q) \in SlotType /\ Head(q) = q[1]
  OBVIOUS
<1>1. v \in Seq(FrameType) /\ Len(v) = Len(wi) + 1 /\ v[Len(wi) + 1] = q[1].msg
      /\ \A i \in 1 .. Len(wi) : v[i] = wi[i]
  BY <1>0 DEF SlotType
<1>2. r \in Seq(SlotType) /\ Len(r) = Len(q) - 1 /\ \A i \in 1 .. Len(q) - 1 : r[i] = q[i + 1]
      /\ Len(q) \in Nat \ {0}
  OBVIOUS
<1> HIDE DEF v, r
<1>3. /\ Flight(wi, q) \in Seq(FrameType) /\ Len(Flight(wi, q)) = Len(wi) + Len(q)
      /\ \A i \in 1 .. Len(wi) : Flight(wi, q)[i] = wi[i]
      /\ \A i \in 1 .. Len(q) : Flight(wi, q)[Len(wi) + i] = q[i].msg
  BY FlightTypes
<1>4. /\ Flight(v, r) \in Seq(FrameType) /\ Len(Flight(v, r)) = Len(v) + Len(r)
      /\ \A i \in 1 .. Len(v) : Flight(v, r)[i] = v[i]
      /\ \A i \in 1 .. Len(r) : Flight(v, r)[Len(v) + i] = r[i].msg
  BY <1>1, <1>2, FlightTypes
<1>5. Len(Flight(v, r)) = Len(Flight(wi, q)) /\ Len(wi) \in Nat
  BY <1>1, <1>2, <1>3, <1>4
<1>6. ASSUME NEW i \in 1 .. Len(Flight(wi, q)) PROVE Flight(v, r)[i] = Flight(wi, q)[i]
  <2>1. CASE i <= Len(wi)
    <3>1. i \in 1 .. Len(wi) /\ i \in 1 .. Len(v)
      BY <1>1, <1>5, <2>1
    <3>. QED
      BY <1>1, <1>3, <1>4, <3>1
  <2>2. CASE i = Len(wi) + 1
    <3>1. i \in 1 .. Len(v) /\ 1 \in 1 .. Len(q)
      BY <1>1, <1>2, <1>5, <2>2
    <3>. QED
      BY <1>1, <1>3, <1>4, <2>2, <3>1
  <2>3. CASE i > Len(wi) + 1
    <3> DEFINE d == i - Len(v)
    <3>1. d \in 1 .. Len(r) /\ d + 1 \in 1 .. Len(q) /\ d \in 1 .. Len(q) - 1
          /\ Len(v) + d = i /\ Len(wi) + (d + 1) = i
      BY <1>1, <1>2, <1>3, <1>5, <2>3
    <3> HIDE DEF d
    <3>2. Flight(wi, q)[i] = q[d + 1].msg
      BY <1>3, <3>1
    <3>3. Flight(v, r)[i] = r[d].msg
      BY <1>4, <3>1
    <3>4. r[d] = q[d + 1]
      BY <1>2, <3>1
    <3>. QED
      BY <3>2, <3>3, <3>4
  <2>. QED
    BY <1>5, <2>1, <2>2, <2>3
<1>7. Flight(v, r) = Flight(wi, q)
  BY <1>3, <1>4, <1>5, <1>6
<1>. QED
  BY <1>7 DEF v, r

(* The client takes the first frame of the wire. *)
LEMMA FlightTaken ==
  ASSUME NEW wi \in Seq(FrameType), NEW q \in Seq(SlotType), wi # <<>>
  PROVE  /\ Flight(wi, q) # <<>> /\ Head(Flight(wi, q)) = Head(wi)
         /\ Flight(Tail(wi), q) = Tail(Flight(wi, q))
<1>0. \A s \in SlotType : s.msg \in FrameType
  BY DEF SlotType
<1>1. Messages(q) \in Seq(FrameType)
  BY <1>0 DEF Messages
<1>. QED
  BY <1>1 DEF Flight

(* A delta takes the place of an older one. *)
LEMMA FlightMerged ==
  ASSUME NEW wi \in Seq(FrameType), NEW q \in Seq(SlotType), NEW r \in Seq(SlotType), Len(r) = Len(q),
         \A i \in 1 .. Len(q) : r[i].msg = q[i].msg
            \/ (r[i].msg.kind \in {"changed", "gone"} /\ q[i].msg.kind \in {"changed", "gone"})
  PROVE  Alike(Flight(wi, r), Flight(wi, q))
<1>1. /\ Flight(wi, q) \in Seq(FrameType) /\ Len(Flight(wi, q)) = Len(wi) + Len(q)
      /\ \A i \in 1 .. Len(wi) : Flight(wi, q)[i] = wi[i]
      /\ \A i \in 1 .. Len(q) : Flight(wi, q)[Len(wi) + i] = q[i].msg
  BY FlightTypes
<1>2. /\ Flight(wi, r) \in Seq(FrameType) /\ Len(Flight(wi, r)) = Len(wi) + Len(r)
      /\ \A i \in 1 .. Len(wi) : Flight(wi, r)[i] = wi[i]
      /\ \A i \in 1 .. Len(r) : Flight(wi, r)[Len(wi) + i] = r[i].msg
  BY FlightTypes
<1>3. ASSUME NEW i \in 1 .. Len(Flight(wi, q))
      PROVE  Flight(wi, r)[i] = Flight(wi, q)[i]
               \/ (Flight(wi, r)[i].kind \in {"changed", "gone"}
                    /\ Flight(wi, q)[i].kind \in {"changed", "gone"})
  <2>1. CASE i <= Len(wi)
    BY <1>1, <1>2, <2>1
  <2>2. CASE i > Len(wi)
    <3> DEFINE d == i - Len(wi)
    <3>1. d \in 1 .. Len(q) /\ d \in 1 .. Len(r) /\ Len(wi) + d = i
      BY <1>1, <2>2
    <3> HIDE DEF d
    <3>2. Flight(wi, q)[i] = q[d].msg /\ Flight(wi, r)[i] = r[d].msg
      BY <1>1, <1>2, <3>1
    <3>. QED
      BY <3>1, <3>2
  <2>. QED
    BY <1>1, <2>1, <2>2
<1>. QED
  BY <1>1, <1>2, <1>3 DEF Alike

---------------------------------------------------------------------------
(* A list on its way: what every state of a session satisfies *)

RequestType == [op : {"subscribe", "unsubscribe"}, watch : Watches]

BackendOK ==
  /\ revision \in 0 .. MaxRevision
  /\ rows \in [Watches -> Rows]
  /\ listed \subseteq warm /\ warm \subseteq Watches

ForwardersOK ==
  /\ forwarders \in Seq(ForwarderType) /\ Len(forwarders) <= MaxForwarders
  /\ \A f \in Ids : Len(forwarders[f].chan) <= ChannelCapacity /\ forwarders[f].watch \in warm

QueueOK ==
  /\ queue \in Seq(SlotType) /\ Len(queue) <= Capacity
  /\ \A i \in DOMAIN queue : SlotSound(queue[i])

ClientOK ==
  /\ wire \in Seq(FrameType) /\ Len(wire) <= WireCapacity
  /\ live \subseteq Watches
  /\ lists \in [Watches -> ListType]
  /\ assembly \in [Watches -> AssemblyType]
  /\ over \in BOOLEAN /\ broken = FALSE /\ merged \in BOOLEAN

(* The registry, and the forwarders that ended; one ended for each recovery *)
(* generation.                                                              *)
Ended == {f \in Ids : forwarders[f].pc = "done"}

RegistryOK ==
  /\ active \in [Watches -> Nat]
  /\ \A w \in Watches : active[w] # 0 => active[w] \in Ids /\ forwarders[active[w]].watch = w
  /\ ActiveIsRunning
  /\ finished \subseteq Ended
  /\ generation \in Nat /\ generation <= Cardinality(Ended)
  /\ \A f \in Ids : forwarders[f].gen <= generation

(* The holder of the snapshot permit, and what it has left to send. *)
PermitOK ==
  /\ \A f \in Ids : forwarders[f].pc = "page" => forwarders[f].page < Pages(forwarders[f].event)
  /\ \A f, g \in Ids : forwarders[f].pc = "page" /\ forwarders[g].pc = "page" => f = g

(* Of a selection that never ran nothing is on its way. *)
Cold ==
  \A w \in Watches \ warm :
    /\ rows[w] = NoRows /\ lists[w] = NoList
    /\ \A i \in 1 .. Len(Outgoing) : Outgoing[i].watch # w

(* The unsubscribes follow the windows: a closed one's is still on its way  *)
(* or served, after every subscribe.                                        *)
Asks(i, op, w) == requests[i].op = op /\ requests[i].watch = w

RequestsOK ==
  /\ requests \in Seq(RequestType)
  /\ \A w \in live : \A i \in DOMAIN requests : ~Asks(i, "unsubscribe", w)
  /\ \A w \in Watches \ live :
       /\ active[w] # 0 => \E i \in DOMAIN requests : Asks(i, "unsubscribe", w)
       /\ \A i \in DOMAIN requests : Asks(i, "subscribe", w) =>
            \E j \in DOMAIN requests : j > i /\ Asks(j, "unsubscribe", w)

(* What the frames on their way leave of w: the assembly a is what the      *)
(* permit's holder completes, and from the list l the window catches up.    *)
Mid(w, a) ==
  \A f \in Ids :
    forwarders[f].watch = w /\ forwarders[f].pc = "page" /\ ~Cancelled(f) =>
      a = Part(forwarders[f].event, forwarders[f].page)

Wanted(w) == \E i \in DOMAIN requests : Asks(i, "subscribe", w)
Resyncing == \E i \in 1 .. Len(Outgoing) : Outgoing[i].kind = "resync"

Following(w) ==
  /\ active[w] \in Ids /\ forwarders[active[w]].watch = w
  /\ ~Cancelled(active[w]) /\ forwarders[active[w]].pc # "done"

Follows(w, l) ==
  Following(w) /\ Delivers(forwarders[active[w]], l, rows[w], revision, w \in listed)

Caught(w, l) == Wanted(w) \/ Resyncing \/ Follows(w, l)

Flows(w) ==
  \E a \in AssemblyType, l \in ListType :
    /\ Runs(Outgoing, w, assembly[w], lists[w], a, l, merged)
    /\ Mid(w, a)
    /\ merged \/ Caught(w, l)

StreamsFlow == ~over => \A w \in live : Flows(w)

DeliveryInv ==
  /\ BackendOK /\ ForwardersOK /\ QueueOK /\ ClientOK /\ RegistryOK /\ PermitOK /\ Cold
       /\ RequestsOK
  /\ StreamsFlow

(* One forwarder. *)
LEMMA OneForwarder ==
  ASSUME NEW f \in Ids, ForwardersOK
  PROVE  /\ forwarders[f] \in ForwarderType /\ f \in Nat \ {0} /\ f \in 1 .. Len(forwarders)
         /\ forwarders[f].chan \in Seq(ChanType) /\ forwarders[f].watch \in Watches
         /\ forwarders[f].event \in EventType /\ forwarders[f].gen \in Nat
         /\ forwarders[f].lagged \in BOOLEAN /\ forwarders[f].cancelled \in BOOLEAN
         /\ forwarders[f].page \in PageIndex
<1>1. forwarders[f] \in ForwarderType /\ f \in Nat \ {0} /\ f \in 1 .. Len(forwarders)
  BY DEF ForwardersOK, Ids
<1>. QED
  BY <1>1 DEF ForwarderType

(* The frames on their way: the wire's, then the queue's. *)
LEMMA OutgoingTypes ==
  ASSUME QueueOK, ClientOK
  PROVE  /\ Outgoing \in Seq(FrameType) /\ Len(Outgoing) = Len(wire) + Len(queue)
         /\ \A i \in 1 .. Len(wire) : Outgoing[i] = wire[i]
         /\ \A i \in 1 .. Len(queue) : Outgoing[Len(wire) + i] = queue[i].msg
BY FlightTypes DEF Outgoing, QueueOK, ClientOK

(* A frame that says nothing of w changes nothing of w. *)
LEMMA OtherFrame ==
  ASSUME NEW m, NEW w, m.watch # w, m.kind # "resync", NEW a, NEW l
  PROVE  Accepts(a, m, w) /\ Assembled(a, m, w) = a /\ Listed(l, a, m, w) = l
BY DEF Accepts, Assembled, Listed

(* A queued barrier is a frame on its way. *)
LEMMA BarrierQueued ==
  ASSUME QueueOK, ClientOK, Holds(queue, Barrier)
  PROVE  Resyncing
<1>1. PICK i \in DOMAIN queue : queue[i].identity = Barrier
  BY DEF Holds
<1>2. i \in 1 .. Len(queue) /\ queue[i].msg.kind = "resync"
  BY <1>1 DEF QueueOK, SlotSound
<1>4. Len(wire) \in Nat /\ Len(queue) \in Nat
  BY DEF ClientOK, QueueOK
<1>5. Outgoing[Len(wire) + i] = queue[i].msg /\ Len(Outgoing) = Len(wire) + Len(queue)
  BY <1>2, OutgoingTypes
<1>3. Outgoing[Len(wire) + i].kind = "resync" /\ Len(wire) + i \in 1 .. Len(Outgoing)
  BY <1>2, <1>4, <1>5
<1>. QED
  BY <1>3 DEF Resyncing

(* One frame more in the queue. *)
LEMMA QueuePushed ==
  ASSUME QueueOK, ClientOK, Len(queue) < Capacity, NEW s \in SlotType, SlotSound(s),
         queue' = Append(queue, s), wire' = wire
  PROVE  QueueOK' /\ Pushed(Outgoing', Outgoing, s.msg)
<1>1. QueueOK'
  <2>1. queue' \in Seq(SlotType) /\ Len(queue') = Len(queue) + 1
        /\ \A i \in DOMAIN queue' : queue'[i] = s \/ (i \in DOMAIN queue /\ queue'[i] = queue[i])
    BY DEF QueueOK
  <2>2. Len(queue') <= Capacity
    BY <2>1, ListBounds DEF QueueOK
  <2>3. \A i \in DOMAIN queue' : SlotSound(queue'[i])
    BY <2>1 DEF QueueOK
  <2>. QED
    BY <2>1, <2>2, <2>3 DEF QueueOK
<1>2. Outgoing' = Flight(wire, Append(queue, s))
  BY DEF Outgoing
<1>3. wire \in Seq(FrameType) /\ queue \in Seq(SlotType)
  BY DEF QueueOK, ClientOK
<1>. QED
  BY <1>1, <1>2, <1>3, FlightPushed DEF Outgoing

(* A reliable frame's slot. *)
LEMMA ReliableSlot ==
  ASSUME NEW m \in FrameType, m.kind # "resync"
  PROVE  EntryOf("P1", NoIdentity, 1, m) \in SlotType
         /\ SlotSound(EntryOf("P1", NoIdentity, 1, m))
         /\ EntryOf("P1", NoIdentity, 1, m).msg = m
BY QueueAssumption DEF EntryOf, SlotType, SlotSound, Priorities

(* Admission of one frame: it is queued, or the session is over. *)
LEMMA AdmitsOne ==
  ASSUME QueueOK, ClientOK, NEW m \in FrameType, m.kind # "resync", wire' = wire, Admit(<<m>>)
  PROVE  /\ QueueOK' /\ over' \in BOOLEAN
         /\ \/ over' = TRUE /\ Outgoing' = Outgoing
            \/ over' = over /\ Pushed(Outgoing', Outgoing, m)
<1> DEFINE s == EntryOf("P1", NoIdentity, 1, m)
<1>1. Len(<<m>>) = 1 /\ DOMAIN <<m>> = 1 .. 1 /\ <<m>>[1] = m
  OBVIOUS
<1>2. CASE Len(queue) + 1 > Capacity
  <2>1. over' = TRUE /\ queue' = queue
    BY <1>1, <1>2 DEF Admit
  <2>. QED
    BY <2>1 DEF QueueOK, Outgoing
<1>3. CASE ~(Len(queue) + 1 > Capacity)
  <2>1. over' = over /\ queue' = queue \o [i \in 1 .. 1 |-> EntryOf("P1", NoIdentity, 1, <<m>>[i])]
    BY <1>1, <1>3 DEF Admit
  <2>2. s \in SlotType /\ SlotSound(s) /\ s.msg = m
    BY ReliableSlot
  <2>3. [i \in 1 .. 1 |-> EntryOf("P1", NoIdentity, 1, <<m>>[i])] = <<s>>
    <3>1. \A i \in 1 .. 1 : EntryOf("P1", NoIdentity, 1, <<m>>[i]) = s
      BY <1>1
    <3> HIDE DEF s
    <3>. QED
      BY <3>1
  <2> HIDE DEF s
  <2>4. queue' = Append(queue, s)
    BY <2>1, <2>2, <2>3 DEF QueueOK
  <2>5. Len(queue) < Capacity
    BY <1>3, ListBounds DEF QueueOK
  <2>6. QueueOK' /\ Pushed(Outgoing', Outgoing, m)
    BY <2>2, <2>4, <2>5, QueuePushed
  <2>. QED
    BY <2>1, <2>6 DEF ClientOK
<1>. QED
  BY <1>2, <1>3

(* Admission of two frames at once. *)
LEMMA AdmitsTwo ==
  ASSUME QueueOK, ClientOK, NEW m \in FrameType, m.kind # "resync", NEW n \in FrameType,
         n.kind # "resync", wire' = wire, Admit(<<m, n>>)
  PROVE  /\ QueueOK' /\ over' \in BOOLEAN
         /\ \/ over' = TRUE /\ Outgoing' = Outgoing
            \/ over' = over /\ \E R : Pushed(R, Outgoing, m) /\ Pushed(Outgoing', R, n)
<1> DEFINE s == EntryOf("P1", NoIdentity, 1, m)
<1> DEFINE t == EntryOf("P1", NoIdentity, 1, n)
<1>1. Len(<<m, n>>) = 2 /\ DOMAIN <<m, n>> = 1 .. 2 /\ <<m, n>>[1] = m /\ <<m, n>>[2] = n
  OBVIOUS
<1>2. CASE Len(queue) + 2 > Capacity
  <2>1. over' = TRUE /\ queue' = queue
    BY <1>1, <1>2 DEF Admit
  <2>. QED
    BY <2>1 DEF QueueOK, Outgoing
<1>3. CASE ~(Len(queue) + 2 > Capacity)
  <2>1. over' = over /\ queue' = queue \o [i \in 1 .. 2 |-> EntryOf("P1", NoIdentity, 1, <<m, n>>[i])]
    BY <1>1, <1>3 DEF Admit
  <2>2. s \in SlotType /\ SlotSound(s) /\ s.msg = m /\ t \in SlotType /\ SlotSound(t) /\ t.msg = n
    BY ReliableSlot
  <2>3. [i \in 1 .. 2 |-> EntryOf("P1", NoIdentity, 1, <<m, n>>[i])] = <<s, t>>
    <3>1. EntryOf("P1", NoIdentity, 1, <<m, n>>[1]) = s
          /\ EntryOf("P1", NoIdentity, 1, <<m, n>>[2]) = t
      BY <1>1
    <3>2. 1 .. 2 = {1, 2}
      OBVIOUS
    <3> HIDE DEF s, t
    <3>. QED
      BY <3>1, <3>2
  <2> HIDE DEF s, t
  <2> DEFINE q == Append(queue, s)
  <2>4. queue' = Append(q, t)
    BY <2>1, <2>2, <2>3 DEF QueueOK
  <2>5. q \in Seq(SlotType) /\ Len(q) = Len(queue) + 1 /\ Len(queue) \in Nat
        /\ \A i \in DOMAIN q : q[i] = s \/ (i \in DOMAIN queue /\ q[i] = queue[i])
    BY <2>2 DEF QueueOK
  <2>6. wire \in Seq(FrameType) /\ queue \in Seq(SlotType)
    BY DEF QueueOK, ClientOK
  <2>7. Pushed(Flight(wire, q), Outgoing, m)
    BY <2>2, <2>6, FlightPushed DEF Outgoing
  <2> HIDE DEF q
  <2>8. Pushed(Flight(wire, Append(q, t)), Flight(wire, q), n)
    BY <2>2, <2>5, <2>6, FlightPushed
  <2>9. Outgoing' = Flight(wire, Append(q, t))
    BY <2>4 DEF Outgoing
  <2>10. QueueOK'
    <3>1. queue' \in Seq(SlotType) /\ Len(queue') = Len(queue) + 2
          /\ \A i \in DOMAIN queue' : queue'[i] = t \/ (i \in DOMAIN q /\ queue'[i] = q[i])
      BY <2>2, <2>4, <2>5
    <3>2. Len(queue') <= Capacity
      BY <1>3, <2>5, <3>1, ListBounds
    <3>3. \A i \in DOMAIN queue' : SlotSound(queue'[i])
      BY <2>2, <2>5, <3>1 DEF QueueOK
    <3>. QED
      BY <3>1, <3>2, <3>3 DEF QueueOK
  <2>. QED
    BY <2>1, <2>7, <2>8, <2>9, <2>10 DEF ClientOK
<1>. QED
  BY <1>2, <1>3

---------------------------------------------------------------------------
(* A list on its way: steps of the streams *)

(* Nothing was sent and nothing was read. *)
LEMMA FlowStays ==
  ASSUME NEW w \in Watches, Flows(w), Outgoing' = Outgoing,
         assembly'[w] = assembly[w], lists'[w] = lists[w], merged' = merged,
         \A a \in AssemblyType : Mid(w, a) => Mid(w, a)',
         \A l \in ListType : Caught(w, l) => Caught(w, l)'
  PROVE  Flows(w)'
<1>1. PICK a \in AssemblyType, l \in ListType :
        /\ Runs(Outgoing, w, assembly[w], lists[w], a, l, merged)
        /\ Mid(w, a) /\ (merged \/ Caught(w, l))
  BY DEF Flows
<1>2. Runs(Outgoing', w, assembly'[w], lists'[w], a, l, merged')
  BY <1>1
<1>3. Mid(w, a)' /\ (merged' \/ Caught(w, l)')
  BY <1>1
<1>. QED
  BY <1>2, <1>3 DEF Flows

(* A frame was queued. *)
LEMMA FlowGrows ==
  ASSUME NEW w \in Watches, Flows(w), Outgoing \in Seq(FrameType), NEW m \in FrameType,
         Pushed(Outgoing', Outgoing, m),
         assembly'[w] = assembly[w], lists'[w] = lists[w], merged' = merged,
         \A a \in AssemblyType : Mid(w, a) => Accepts(a, m, w) /\ Mid(w, Assembled(a, m, w))',
         \A a \in AssemblyType, l \in ListType :
            Mid(w, a) /\ Caught(w, l) => Caught(w, Listed(l, a, m, w))'
  PROVE  Flows(w)'
<1>1. PICK a \in AssemblyType, l \in ListType :
        /\ Runs(Outgoing, w, assembly[w], lists[w], a, l, merged)
        /\ Mid(w, a) /\ (merged \/ Caught(w, l))
  BY DEF Flows
<1> DEFINE b == Assembled(a, m, w)
<1> DEFINE k == Listed(l, a, m, w)
<1>2. Accepts(a, m, w) /\ Mid(w, b)' /\ (merged' \/ Caught(w, k)')
  BY <1>1
<1>3. Runs(Outgoing', w, assembly[w], lists[w], b, k, merged)
  BY <1>1, <1>2, RunsOn
<1>4. b \in AssemblyType /\ k \in ListType
  BY <1>3 DEF Runs
<1> HIDE DEF b, k
<1>5. Runs(Outgoing', w, assembly'[w], lists'[w], b, k, merged')
  BY <1>3
<1>. QED
  BY <1>2, <1>4, <1>5 DEF Flows

(* Two frames were queued at once. *)
LEMMA FlowGrowsTwice ==
  ASSUME NEW w \in Watches, Flows(w), Outgoing \in Seq(FrameType),
         NEW m \in FrameType, NEW n \in FrameType, NEW R,
         Pushed(R, Outgoing, m), Pushed(Outgoing', R, n),
         assembly'[w] = assembly[w], lists'[w] = lists[w], merged' = merged,
         \A a \in AssemblyType : Mid(w, a) =>
            /\ Accepts(a, m, w) /\ Accepts(Assembled(a, m, w), n, w)
            /\ Mid(w, Assembled(Assembled(a, m, w), n, w))',
         \A a \in AssemblyType, l \in ListType :
            Mid(w, a) /\ Caught(w, l) =>
              Caught(w, Listed(Listed(l, a, m, w), Assembled(a, m, w), n, w))'
  PROVE  Flows(w)'
<1>1. PICK a \in AssemblyType, l \in ListType :
        /\ Runs(Outgoing, w, assembly[w], lists[w], a, l, merged)
        /\ Mid(w, a) /\ (merged \/ Caught(w, l))
  BY DEF Flows
<1> DEFINE b == Assembled(a, m, w)
<1> DEFINE k == Listed(l, a, m, w)
<1> DEFINE c == Assembled(b, n, w)
<1> DEFINE j == Listed(k, b, n, w)
<1>2. Accepts(a, m, w) /\ Accepts(b, n, w) /\ Mid(w, c)' /\ (merged' \/ Caught(w, j)')
  BY <1>1
<1>3. Runs(R, w, assembly[w], lists[w], b, k, merged)
  BY <1>1, <1>2, RunsOn
<1>4. R \in Seq(FrameType)
  BY DEF Pushed
<1>5. Runs(Outgoing', w, assembly[w], lists[w], c, j, merged)
  BY <1>2, <1>3, <1>4, RunsOn
<1>6. c \in AssemblyType /\ j \in ListType
  BY <1>5 DEF Runs
<1> HIDE DEF b, k, c, j
<1>7. Runs(Outgoing', w, assembly'[w], lists'[w], c, j, merged')
  BY <1>5
<1>. QED
  BY <1>2, <1>6, <1>7 DEF Flows

(* The client read a frame. *)
LEMMA FlowShrinks ==
  ASSUME NEW w \in Watches, Flows(w), Outgoing \in Seq(FrameType), Outgoing # <<>>,
         Outgoing' = Tail(Outgoing),
         assembly'[w] = Assembled(assembly[w], Head(Outgoing), w),
         lists'[w] = Listed(lists[w], assembly[w], Head(Outgoing), w), merged' = merged,
         \A a \in AssemblyType : Mid(w, a) => Mid(w, a)',
         \A l \in ListType : Caught(w, l) => Caught(w, l)'
  PROVE  Flows(w)'
<1>1. PICK a \in AssemblyType, l \in ListType :
        /\ Runs(Outgoing, w, assembly[w], lists[w], a, l, merged)
        /\ Mid(w, a) /\ (merged \/ Caught(w, l))
  BY DEF Flows
<1>2. Runs(Tail(Outgoing), w, Assembled(assembly[w], Head(Outgoing), w),
           Listed(lists[w], assembly[w], Head(Outgoing), w), a, l, merged)
  BY <1>1, RunsTail
<1>3. Runs(Outgoing', w, assembly'[w], lists'[w], a, l, merged')
  BY <1>2
<1>4. Mid(w, a)' /\ (merged' \/ Caught(w, l)')
  BY <1>1
<1>. QED
  BY <1>3, <1>4 DEF Flows

(* What the client can read, it can take. *)
LEMMA FlowAccepts ==
  ASSUME NEW w \in Watches, Flows(w), Outgoing \in Seq(FrameType), Outgoing # <<>>
  PROVE  Accepts(assembly[w], Head(Outgoing), w)
<1>1. PICK a \in AssemblyType, l \in ListType :
        Runs(Outgoing, w, assembly[w], lists[w], a, l, merged)
  BY DEF Flows
<1>. QED
  BY <1>1, RunsTail

(* The permit's holder is as it was. *)
LEMMA MidKept ==
  ASSUME NEW w, ForwardersOK,
         \A f \in Ids' : forwarders'[f].watch = w /\ forwarders'[f].pc = "page"
         /\ ~Cancelled(f)' =>
            /\ f \in Ids /\ forwarders[f].watch = w /\ forwarders[f].pc = "page" /\ ~Cancelled(f)
            /\ forwarders'[f].event = forwarders[f].event
                 /\ forwarders'[f].page = forwarders[f].page
  PROVE  \A a \in AssemblyType : Mid(w, a) => Mid(w, a)'
BY DEF Mid

(* Two forwarders that differ in what is still to be received. *)
Kin(h, g) ==
  h.watch = g.watch /\ h.gen = g.gen /\ h.pc = g.pc /\ h.event = g.event /\ h.page = g.page
    /\ h.cancelled = g.cancelled

(* An event offered to a receiver changes what it has to receive, no more. *)
LEMMA OfferShape ==
  ASSUME NEW g \in ForwarderType, NEW e \in ChanType, Len(g.chan) <= ChannelCapacity
  PROVE  /\ Offer(g, e) \in ForwarderType /\ Kin(Offer(g, e), g)
         /\ Len(Offer(g, e).chan) <= ChannelCapacity
<1>1. g.chan \in Seq(ChanType) /\ Len(g.chan) \in Nat /\ ChannelCapacity \in Nat \ {0}
  BY ListBounds DEF ForwarderType
<1>2. CASE Len(g.chan) = ChannelCapacity
  <2> DEFINE c == Append(Tail(g.chan), e)
  <2> DEFINE h == [g EXCEPT !.chan = c, !.lagged = TRUE]
  <2>1. g.chan # <<>>
    BY <1>1, <1>2
  <2>2. Tail(g.chan) \in Seq(ChanType) /\ Len(Tail(g.chan)) = Len(g.chan) - 1
    BY <1>1, <2>1
  <2>3. c \in Seq(ChanType) /\ Len(c) <= ChannelCapacity
    BY <1>1, <1>2, <2>2
  <2>4. Offer(g, e) = h
    BY <1>2 DEF Offer
  <2> HIDE DEF c
  <2>5. h \in ForwarderType /\ Kin(h, g) /\ h.chan = c
    BY <2>3 DEF ForwarderType, Kin
  <2> HIDE DEF h
  <2>. QED
    BY <2>3, <2>4, <2>5
<1>3. CASE Len(g.chan) # ChannelCapacity
  <2> DEFINE c == Append(g.chan, e)
  <2> DEFINE h == [g EXCEPT !.chan = c]
  <2>1. c \in Seq(ChanType) /\ Len(c) = Len(g.chan) + 1
    BY <1>1
  <2>2. Len(c) <= ChannelCapacity
    BY <1>1, <1>3, <2>1
  <2>4. Offer(g, e) = h
    BY <1>3 DEF Offer
  <2> HIDE DEF c
  <2>5. h \in ForwarderType /\ Kin(h, g) /\ h.chan = c
    BY <2>1 DEF ForwarderType, Kin
  <2> HIDE DEF h
  <2>. QED
    BY <2>2, <2>4, <2>5
<1>. QED
  BY <1>2, <1>3

(* An event reaches the live receivers of its selection, and no other. *)
LEMMA BroadcastShape ==
  ASSUME NEW fs \in Seq(ForwarderType), \A f \in DOMAIN fs : Len(fs[f].chan) <= ChannelCapacity,
         NEW w, NEW e \in ChanType, NEW F, F = Broadcast(fs, w, e)
  PROVE  /\ F \in Seq(ForwarderType) /\ Len(F) = Len(fs) /\ DOMAIN F = DOMAIN fs
         /\ \A f \in DOMAIN fs :
              /\ Kin(F[f], fs[f]) /\ Len(F[f].chan) <= ChannelCapacity
              /\ fs[f].watch = w /\ fs[f].pc # "done" => F[f] = Offer(fs[f], e)
              /\ fs[f].watch # w => F[f] = fs[f]
<1>1. DOMAIN fs = 1 .. Len(fs) /\ Len(fs) \in Nat
  OBVIOUS
<1>2. DOMAIN F = 1 .. Len(fs)
  BY <1>1 DEF Broadcast
<1>3. ASSUME NEW f \in DOMAIN fs
      PROVE  /\ F[f] \in ForwarderType /\ Kin(F[f], fs[f]) /\ Len(F[f].chan) <= ChannelCapacity
             /\ fs[f].watch = w /\ fs[f].pc # "done" => F[f] = Offer(fs[f], e)
             /\ fs[f].watch # w => F[f] = fs[f]
  <2>1. F[f] = IF fs[f].watch = w /\ fs[f].pc # "done" THEN Offer(fs[f], e) ELSE fs[f]
    BY DEF Broadcast
  <2>2. fs[f] \in ForwarderType
    OBVIOUS
  <2>3. /\ Offer(fs[f], e) \in ForwarderType /\ Kin(Offer(fs[f], e), fs[f])
        /\ Len(Offer(fs[f], e).chan) <= ChannelCapacity
    BY <2>2, OfferShape
  <2>4. Kin(fs[f], fs[f])
    BY DEF Kin
  <2>. QED
    BY <2>1, <2>2, <2>3, <2>4
<1>4. F = [f \in 1 .. Len(fs) |-> F[f]]
  BY <1>1 DEF Broadcast
<1>5. F \in Seq(ForwarderType)
  BY <1>1, <1>3, <1>4
<1>. QED
  BY <1>1, <1>2, <1>3, <1>5

---------------------------------------------------------------------------
(* A list on its way: steps of the forwarders *)

(* Only what forwarders have still to receive differs. *)
LEMMA KinKeeps ==
  ASSUME ForwardersOK, RegistryOK, PermitOK, forwarders' \in Seq(ForwarderType),
         Len(forwarders') = Len(forwarders), warm \subseteq warm',
         \A f \in Ids : Kin(forwarders'[f], forwarders[f])
                          /\ Len(forwarders'[f].chan) <= ChannelCapacity,
         active' = active, finished' = finished, generation' = generation
  PROVE  /\ ForwardersOK' /\ RegistryOK' /\ PermitOK' /\ Ids' = Ids
         /\ \A f \in Ids : Cancelled(f)' <=> Cancelled(f)
         /\ \A w \in Watches, a \in AssemblyType : Mid(w, a) => Mid(w, a)'
         /\ \A w \in Watches : Following(w) => Following(w)'
<1>1. Ids' = Ids
  <2>1. Ids = 1 .. Len(forwarders)
    BY DEF Ids, ForwardersOK
  <2>2. Ids' = 1 .. Len(forwarders')
    BY DEF Ids
  <2>. QED
    BY <2>1, <2>2
<1>2. \A f \in Ids : /\ forwarders'[f].watch = forwarders[f].watch /\ forwarders'[f].gen = forwarders[f].gen
                     /\ forwarders'[f].pc = forwarders[f].pc
                          /\ forwarders'[f].event = forwarders[f].event
                     /\ forwarders'[f].page = forwarders[f].page
                     /\ forwarders'[f].cancelled = forwarders[f].cancelled
  BY DEF Kin
<1>3. ForwardersOK'
  BY <1>1, <1>2 DEF ForwardersOK
<1>4. Ended' = Ended
  BY <1>1, <1>2 DEF Ended
<1>5. RegistryOK'
  <2>1. \A w \in Watches : active'[w] # 0 => active'[w] \in Ids'
        /\ forwarders'[active'[w]].watch = w
    BY <1>1, <1>2 DEF RegistryOK
  <2>2. ActiveIsRunning'
    BY <1>1, <1>2 DEF RegistryOK, ActiveIsRunning
  <2>3. \A f \in Ids' : forwarders'[f].gen <= generation'
    BY <1>1, <1>2 DEF RegistryOK
  <2>. QED
    BY <1>4, <2>1, <2>2, <2>3 DEF RegistryOK
<1>6. PermitOK'
  BY <1>1, <1>2 DEF PermitOK
<1>7. \A f \in Ids : Cancelled(f)' <=> Cancelled(f)
  BY <1>1, <1>2 DEF Cancelled
<1>8. \A w \in Watches, a \in AssemblyType : Mid(w, a) => Mid(w, a)'
  BY <1>1, <1>2, <1>7 DEF Mid
<1>9. \A w \in Watches : Following(w) => Following(w)'
  BY <1>1, <1>2, <1>7 DEF Following
<1>. QED
  BY <1>1, <1>3, <1>5, <1>6, <1>7, <1>8, <1>9

(* One forwarder moves on; when it demands a resync, into the next generation. *)
LEMMA MoveKeeps ==
  ASSUME ForwardersOK, RegistryOK, PermitOK, NEW f \in Ids, forwarders[f].pc # "done",
         NEW g \in ForwarderType, forwarders' = [forwarders EXCEPT ![f] = g],
         Len(g.chan) <= ChannelCapacity, g.watch = forwarders[f].watch, g.gen = forwarders[f].gen,
         g.cancelled = forwarders[f].cancelled,
         g.pc = "page" => g.page < Pages(g.event)
         /\ \A h \in Ids : forwarders[h].pc = "page" => h = f,
         active' = active, warm' = warm, finished' = IF g.pc = "done" THEN finished \cup {f} ELSE finished,
         generation' = generation \/ (generation' = generation + 1 /\ g.pc = "done")
  PROVE  /\ ForwardersOK' /\ RegistryOK' /\ PermitOK' /\ Ids' = Ids
         /\ forwarders'[f] = g /\ \A h \in Ids : h # f => forwarders'[h] = forwarders[h]
<1>1. /\ forwarders' \in Seq(ForwarderType) /\ Len(forwarders') = Len(forwarders)
      /\ Ids' = Ids /\ forwarders'[f] = g
           /\ \A h \in Ids : h # f => forwarders'[h] = forwarders[h]
  BY DEF ForwardersOK, Ids
<1>2. ForwardersOK'
  BY <1>1 DEF ForwardersOK
<1>3. RegistryOK'
  <2>1. \A w \in Watches : active'[w] # 0 => active'[w] \in Ids'
        /\ forwarders'[active'[w]].watch = w
    BY <1>1 DEF RegistryOK
  <2>2. ActiveIsRunning'
    BY <1>1 DEF RegistryOK, ActiveIsRunning
  <2>3. \A h \in Ids' : forwarders'[h].gen <= generation'
    <3>1. \A h \in Ids' : forwarders'[h].gen = forwarders[h].gen
      BY <1>1
    <3>2. \A h \in Ids : forwarders[h].gen \in Nat
      BY OneForwarder
    <3>. QED
      BY <1>1, <3>1, <3>2 DEF RegistryOK
  <2>4. Ended' = IF g.pc = "done" THEN Ended \cup {f} ELSE Ended
    BY <1>1 DEF Ended
  <2>5. f \notin Ended
    BY DEF Ended
  <2>6. IsFiniteSet(Ended) /\ Cardinality(Ended) \in Nat
    <3>1. IsFiniteSet(Ids)
      <4>1. Ids = 1 .. Len(forwarders) /\ Len(forwarders) \in Nat
        BY DEF Ids, ForwardersOK
      <4>. QED
        BY <4>1, FS_Interval
    <3>. QED
      BY <3>1, FS_Subset, FS_CardinalityType DEF Ended
  <2>7. Cardinality(Ended \cup {f}) = Cardinality(Ended) + 1
    BY <2>5, <2>6, FS_AddElement
  <2>8. generation' \in Nat /\ generation' <= Cardinality(Ended')
    BY <2>4, <2>6, <2>7 DEF RegistryOK
  <2>9. finished' \subseteq Ended'
    BY <2>4 DEF RegistryOK
  <2>. QED
    BY <2>1, <2>2, <2>3, <2>8, <2>9 DEF RegistryOK
<1>4. PermitOK'
  BY <1>1 DEF PermitOK
<1>. QED
  BY <1>1, <1>2, <1>3, <1>4

(* One event is published to everyone who listens to w. *)
LEMMA PublishKeeps ==
  ASSUME DeliveryInv, NEW w \in Watches, NEW e \in ChanType,
         forwarders' = Broadcast(forwarders, w, e), revision' = revision + 1, warm' = warm,
         \A u \in Watches : u # w => rows'[u] = rows[u] /\ (u \in listed' <=> u \in listed),
         \A v \in ListType : Reaches(v, rows[w], revision, w \in listed) =>
            Reaches(Published(v, e), rows'[w], revision', w \in listed'),
         UNCHANGED <<sessionVars, clientVars>>
  PROVE  ForwardersOK' /\ QueueOK' /\ ClientOK' /\ RegistryOK' /\ PermitOK' /\ RequestsOK'
         /\ StreamsFlow'
<1>1. /\ active' = active /\ finished' = finished /\ generation' = generation /\ queue' = queue
      /\ wire' = wire /\ over' = over /\ merged' = merged /\ requests' = requests /\ live' = live
      /\ lists' = lists /\ assembly' = assembly /\ broken' = broken
  BY DEF sessionVars, clientVars
<1>2. /\ forwarders' \in Seq(ForwarderType) /\ Len(forwarders') = Len(forwarders)
      /\ \A f \in Ids :
           /\ Kin(forwarders'[f], forwarders[f]) /\ Len(forwarders'[f].chan) <= ChannelCapacity
           /\ forwarders[f].watch = w /\ forwarders[f].pc # "done" =>
                forwarders'[f] = Offer(forwarders[f], e)
           /\ forwarders[f].watch # w => forwarders'[f] = forwarders[f]
  <2> DEFINE F == Broadcast(forwarders, w, e)
  <2>1. forwarders \in Seq(ForwarderType)
        /\ \A f \in DOMAIN forwarders : Len(forwarders[f].chan) <= ChannelCapacity
    BY DEF DeliveryInv, ForwardersOK, Ids
  <2>2. /\ F \in Seq(ForwarderType) /\ Len(F) = Len(forwarders)
        /\ \A f \in DOMAIN forwarders :
             /\ Kin(F[f], forwarders[f]) /\ Len(F[f].chan) <= ChannelCapacity
             /\ forwarders[f].watch = w
                  /\ forwarders[f].pc # "done" => F[f] = Offer(forwarders[f], e)
             /\ forwarders[f].watch # w => F[f] = forwarders[f]
    BY <2>1, BroadcastShape
  <2> HIDE DEF F
  <2>3. forwarders' = F
    BY DEF F
  <2>. QED
    BY <2>2, <2>3 DEF Ids
<1>3. ForwardersOK /\ RegistryOK /\ PermitOK /\ QueueOK /\ ClientOK /\ RequestsOK /\ BackendOK
  BY DEF DeliveryInv
<1>4. /\ ForwardersOK' /\ RegistryOK' /\ PermitOK' /\ Ids' = Ids
      /\ \A u \in Watches, a \in AssemblyType : Mid(u, a) => Mid(u, a)'
      /\ \A u \in Watches : Following(u) => Following(u)'
  <2>1. \A f \in Ids : Kin(forwarders'[f], forwarders[f])
        /\ Len(forwarders'[f].chan) <= ChannelCapacity
    BY <1>2
  <2>. QED
    BY <1>1, <1>2, <1>3, <2>1, KinKeeps
<1>5. QueueOK' /\ ClientOK' /\ Outgoing' = Outgoing
  BY <1>1, <1>3 DEF QueueOK, ClientOK, Outgoing
<1>6. RequestsOK'
  BY <1>1, <1>3 DEF RequestsOK, Asks
<1>7. revision \in Nat /\ revision' \in Nat /\ revision <= revision'
  BY <1>3, ListBounds DEF BackendOK
<1>8. ASSUME NEW u \in Watches, NEW l \in ListType, Follows(u, l) PROVE Follows(u, l)'
  <2> DEFINE f == active[u]
  <2>1. Following(u) /\ f \in Ids /\ forwarders[f].watch = u /\ forwarders[f].pc # "done"
    BY <1>8 DEF Follows, Following
  <2>2. Delivers(forwarders[f], l, rows[u], revision, u \in listed)
    BY <1>8 DEF Follows
  <2>3. forwarders[f] \in ForwarderType /\ forwarders[f].chan \in Seq(ChanType)
    BY <1>3, <2>1, OneForwarder
  <2> DEFINE g == forwarders[f]
  <2> DEFINE h == forwarders'[f]
  <2>4. Delivers(h, l, rows'[u], revision', u \in listed')
    <3>1. CASE u = w
      <4>1. h = Offer(g, e)
        BY <1>2, <2>1, <3>1
      <4>2. Delivers(g, l, rows[w], revision, w \in listed) /\ g \in ForwarderType
        BY <2>2, <2>3, <3>1
      <4> HIDE DEF g, h
      <4>3. Delivers(Offer(g, e), l, rows'[w], revision', w \in listed')
        BY <4>2, DeliversOffer
      <4>. QED
        BY <3>1, <4>1, <4>3
    <3>2. CASE u # w
      <4>1. h = g /\ rows'[u] = rows[u] /\ (u \in listed' <=> u \in listed)
        BY <1>2, <2>1, <3>2
      <4>2. Delivers(g, l, rows[u], revision, u \in listed) /\ g.chan \in Seq(ChanType)
        BY <2>2, <2>3
      <4> HIDE DEF g, h
      <4>3. Delivers(g, l, rows[u], revision', u \in listed)
        BY <1>7, <4>2, DeliversSame
      <4>. QED
        BY <4>1, <4>3 DEF Delivers, Reaches
    <3>. QED
      BY <3>1, <3>2
  <2>5. Following(u)'
    BY <1>4, <2>1
  <2>. QED
    BY <1>1, <2>4, <2>5 DEF Follows
<1>9. StreamsFlow'
  <2> SUFFICES ASSUME ~over', NEW u \in live' PROVE Flows(u)'
    BY DEF StreamsFlow
  <2>1. ~over /\ u \in live /\ u \in Watches /\ Flows(u)
    BY <1>1, <1>3 DEF DeliveryInv, StreamsFlow, ClientOK
  <2>2. \A l \in ListType : Caught(u, l) => Caught(u, l)'
    BY <1>1, <1>5, <1>8, <2>1 DEF Caught, Wanted, Resyncing, Asks
  <2>3. \A a \in AssemblyType : Mid(u, a) => Mid(u, a)'
    BY <1>4, <2>1
  <2>. QED
    BY <1>1, <1>5, <2>1, <2>2, <2>3, FlowStays
<1>. QED
  BY <1>4, <1>5, <1>6, <1>9

(* Selections that never ran stay cold. *)
LEMMA ColdKept ==
  ASSUME Cold, warm' = warm, lists' = lists, Outgoing' = Outgoing,
         \A w \in Watches \ warm : rows'[w] = rows[w]
  PROVE  Cold'
BY DEF Cold

(* One more revision. *)
LEMMA RevisionStep ==
  ASSUME BackendOK, NextRevision
  PROVE  revision' = revision + 1 /\ revision' \in 0 .. MaxRevision /\ revision' # 0
         /\ 0 \in 0 .. MaxRevision
BY ListBounds DEF BackendOK, NextRevision

(* A relist preserves the invariant. *)
LEMMA ApplyListKeeps ==
  ASSUME DeliveryInv, NEW w \in Watches, ApplyList(w)
  PROVE  DeliveryInv'
<1>1. /\ w \in warm /\ NextRevision /\ listed' = listed \cup {w} /\ warm' = warm
      /\ forwarders' = Broadcast(forwarders, w, Event("snapshot", NoKey, revision', rows'[w]))
      /\ UNCHANGED <<sessionVars, clientVars>>
  BY DEF ApplyList
<1>2. BackendOK /\ Cold /\ ClientOK
  BY DEF DeliveryInv
<1>3. PICK present \in SUBSET Keys :
        rows' = [rows EXCEPT ![w] = [k \in Keys |-> IF k \in present THEN revision' ELSE 0]]
  BY DEF ApplyList
<1>4. revision' = revision + 1 /\ revision' \in 0 .. MaxRevision /\ revision' # 0
      /\ 0 \in 0 .. MaxRevision
  BY <1>1, <1>2, RevisionStep
<1> DEFINE cut == [k \in Keys |-> IF k \in present THEN revision' ELSE 0]
<1>5. cut \in Rows
  BY <1>4 DEF Rows
<1>6. rows' \in [Watches -> Rows] /\ rows'[w] = cut
      /\ \A u \in Watches : u # w => rows'[u] = rows[u]
  <2>1. rows' = [rows EXCEPT ![w] = cut] /\ rows \in [Watches -> Rows]
    BY <1>2, <1>3 DEF BackendOK
  <2> HIDE DEF cut
  <2>. QED
    BY <1>5, <2>1
<1> DEFINE e == Event("snapshot", NoKey, revision', rows'[w])
<1>7. e \in ChanType /\ e.kind = "snapshot" /\ e.rev = revision' /\ e.rows = rows'[w]
  <2>1. rows'[w] \in Rows
    BY <1>5, <1>6
  <2>. QED
    BY <1>4, <2>1 DEF Event, ChanType, EventType, Whole
<1> HIDE DEF cut
<1>8. forwarders' = Broadcast(forwarders, w, e)
  BY <1>1
<1> HIDE DEF e
<1>9. BackendOK'
  BY <1>1, <1>2, <1>4, <1>6 DEF BackendOK
<1>10. \A v \in ListType : Reaches(Published(v, e), rows'[w], revision', w \in listed')
  BY <1>4, <1>7, ListBounds DEF Reaches, Published
<1>11. ForwardersOK' /\ QueueOK' /\ ClientOK' /\ RegistryOK' /\ PermitOK' /\ RequestsOK'
       /\ StreamsFlow'
  BY <1>1, <1>4, <1>6, <1>7, <1>8, <1>10, PublishKeeps
<1>12. Cold'
  <2>1. Outgoing' = Outgoing /\ lists' = lists
    BY <1>1 DEF sessionVars, clientVars, Outgoing
  <2>. QED
    BY <1>1, <1>2, <1>6, <2>1, ColdKept
<1>. QED
  BY <1>9, <1>11, <1>12 DEF DeliveryInv

(* The delta k of w, with the value it leaves in the row. *)
LEMMA DeltaKeeps ==
  ASSUME DeliveryInv, NEW w \in Watches, NEW k \in Keys, w \in listed, NextRevision,
         NEW kind \in {"changed", "gone"},
         rows' = [rows EXCEPT ![w][k] = IF kind = "changed" THEN revision' ELSE 0],
         forwarders' = Broadcast(forwarders, w, Event(kind, k, revision', NoRows)),
         UNCHANGED <<warm, listed, sessionVars, clientVars>>
  PROVE  DeliveryInv'
<1>1. warm' = warm /\ listed' = listed /\ UNCHANGED <<sessionVars, clientVars>>
  OBVIOUS
<1>2. BackendOK /\ Cold /\ ClientOK /\ w \in warm
  BY DEF DeliveryInv, BackendOK
<1>4. revision' = revision + 1 /\ revision' \in 0 .. MaxRevision /\ revision' # 0
      /\ 0 \in 0 .. MaxRevision
  BY <1>2, RevisionStep
<1> DEFINE value == IF kind = "changed" THEN revision' ELSE 0
<1>5. value \in 0 .. MaxRevision
  BY <1>4
<1>6. rows' = [rows EXCEPT ![w][k] = value]
  OBVIOUS
<1> HIDE DEF value
<1>7. /\ rows' \in [Watches -> Rows] /\ rows'[w] = [rows[w] EXCEPT ![k] = value]
      /\ \A u \in Watches : u # w => rows'[u] = rows[u]
  <2>1. rows \in [Watches -> Rows] /\ rows[w] \in Rows
    BY <1>2 DEF BackendOK
  <2> DEFINE cut == [rows[w] EXCEPT ![k] = value]
  <2>2. cut \in Rows
    BY <1>5, <2>1 DEF Rows
  <2>3. rows' = [rows EXCEPT ![w] = cut]
    BY <1>6, <2>1
  <2> HIDE DEF cut
  <2>4. rows' \in [Watches -> Rows] /\ rows'[w] = cut
        /\ \A u \in Watches : u # w => rows'[u] = rows[u]
    BY <2>1, <2>2, <2>3
  <2>. QED
    BY <2>4 DEF cut
<1> DEFINE e == Event(kind, k, revision', NoRows)
<1>8. e \in ChanType /\ e.kind = kind /\ e.rev = revision' /\ e.key = k
  BY <1>4, NothingTypes DEF Event, ChanType, EventType, Whole
<1>9. forwarders' = Broadcast(forwarders, w, e)
  OBVIOUS
<1> HIDE DEF e
<1>10. BackendOK'
  BY <1>1, <1>2, <1>4, <1>7 DEF BackendOK
<1>11. ASSUME NEW v \in ListType, Reaches(v, rows[w], revision, w \in listed)
       PROVE  Reaches(Published(v, e), rows'[w], revision', w \in listed')
  <2>1. v.rows = rows[w] /\ v.rev <= revision /\ v.rev # 0 /\ v.rev \in Nat /\ revision \in Nat
    BY <1>2, <1>11, ListBounds DEF Reaches, ListType, BackendOK
  <2>2. revision' > v.rev /\ revision' \in Nat
    BY <1>4, <2>1
  <2>3. value = IF e.kind = "changed" THEN e.rev ELSE 0
    BY <1>8 DEF value
  <2>4. Published(v, e) = Newer(v, k, revision', value)
    BY <1>8, <2>3 DEF Published
  <2>5. Newer(v, k, revision', value) = [rev |-> revision', rows |-> [v.rows EXCEPT ![k] = value]]
    BY <2>1, <2>2 DEF Newer
  <2> DEFINE p == Published(v, e)
  <2>6. p = [rev |-> revision', rows |-> [v.rows EXCEPT ![k] = value]]
    BY <2>4, <2>5
  <2>7. [v.rows EXCEPT ![k] = value] = rows'[w]
    BY <1>7, <2>1
  <2> HIDE DEF p
  <2>8. p.rev = revision' /\ p.rows = rows'[w]
    BY <2>6, <2>7
  <2>9. Reaches(p, rows'[w], revision', w \in listed')
    BY <1>4, <2>2, <2>8 DEF Reaches
  <2>. QED
    BY <2>9 DEF p
<1>12. ForwardersOK' /\ QueueOK' /\ ClientOK' /\ RegistryOK' /\ PermitOK' /\ RequestsOK'
       /\ StreamsFlow'
  BY <1>1, <1>4, <1>7, <1>8, <1>9, <1>11, PublishKeeps
<1>13. Cold'
  <2>1. Outgoing' = Outgoing /\ lists' = lists
    BY <1>1 DEF sessionVars, clientVars, Outgoing
  <2>. QED
    BY <1>1, <1>2, <1>7, <2>1, ColdKept
<1>. QED
  BY <1>10, <1>12, <1>13 DEF DeliveryInv

(* A changed or deleted resource preserves the invariant. *)
LEMMA ApplyDeltaKeeps ==
  ASSUME DeliveryInv, NEW w \in Watches, NEW k \in Keys, ApplyUpsert(w, k) \/ ApplyDelete(w, k)
  PROVE  DeliveryInv'
<1>1. CASE ApplyUpsert(w, k)
  <2>1. rows' = [rows EXCEPT ![w][k] = IF "changed" = "changed" THEN revision' ELSE 0]
    BY <1>1 DEF ApplyUpsert
  <2>2. /\ w \in listed /\ NextRevision /\ UNCHANGED <<warm, listed, sessionVars, clientVars>>
        /\ forwarders' = Broadcast(forwarders, w, Event("changed", k, revision', NoRows))
    BY <1>1 DEF ApplyUpsert
  <2>. QED
    BY <2>1, <2>2, DeltaKeeps
<1>2. CASE ApplyDelete(w, k)
  <2>1. rows' = [rows EXCEPT ![w][k] = IF "gone" = "changed" THEN revision' ELSE 0]
    BY <1>2 DEF ApplyDelete
  <2>2. /\ w \in listed /\ NextRevision /\ UNCHANGED <<warm, listed, sessionVars, clientVars>>
        /\ forwarders' = Broadcast(forwarders, w, Event("gone", k, revision', NoRows))
    BY <1>2 DEF ApplyDelete
  <2>. QED
    BY <2>1, <2>2, DeltaKeeps
<1>. QED
  BY <1>1, <1>2

(* A forwarder that was not told to stop is the registered one. *)
LEMMA RunsActive ==
  ASSUME ForwardersOK, RegistryOK, NEW f \in Ids, forwarders[f].pc # "done", ~Cancelled(f)
  PROVE  /\ active[forwarders[f].watch] = f /\ forwarders[f].gen = generation
         /\ ~forwarders[f].cancelled /\ forwarders[f].watch \in Watches
<1>1. ~forwarders[f].cancelled /\ ~(forwarders[f].gen < generation)
  BY DEF Cancelled
<1>2. active[forwarders[f].watch] = f
  BY <1>1 DEF RegistryOK, ActiveIsRunning
<1>3. forwarders[f].gen = generation
  BY <1>1, OneForwarder DEF RegistryOK
<1>. QED
  BY <1>1, <1>2, <1>3, OneForwarder

(* What the backend and the client have, when only the session moves. *)
LEMMA SessionMoves ==
  ASSUME DeliveryInv, UNCHANGED <<backendVars, clientVars, active, wire>>,
         over' \in BOOLEAN, merged' \in BOOLEAN
  PROVE  /\ BackendOK' /\ ClientOK' /\ RequestsOK'
         /\ revision' = revision /\ rows' = rows /\ warm' = warm /\ listed' = listed
         /\ requests' = requests /\ live' = live /\ lists' = lists /\ assembly' = assembly
         /\ active' = active /\ wire' = wire
         /\ BackendOK /\ ForwardersOK /\ QueueOK /\ ClientOK /\ RegistryOK /\ PermitOK /\ Cold
<1>1. /\ revision' = revision /\ rows' = rows /\ warm' = warm /\ listed' = listed
      /\ requests' = requests /\ live' = live /\ lists' = lists /\ assembly' = assembly
      /\ active' = active /\ wire' = wire /\ broken' = broken
  BY DEF backendVars, clientVars
<1>2. BackendOK'
  BY <1>1 DEF BackendOK, DeliveryInv
<1>3. ClientOK'
  BY <1>1 DEF ClientOK, DeliveryInv
<1>4. RequestsOK'
  BY <1>1 DEF RequestsOK, DeliveryInv, Asks
<1>. QED
  BY <1>1, <1>2, <1>3, <1>4 DEF DeliveryInv

(* A frame of a running selection is none of a cold one's. *)
LEMMA ColdPushed ==
  ASSUME Cold, warm' = warm, rows' = rows, lists' = lists, NEW m, NEW T \in Seq(FrameType),
         T = Outgoing, Pushed(Outgoing', T, m), m.watch \in warm
  PROVE  Cold'
<1> SUFFICES ASSUME NEW w \in Watches \ warm, NEW i \in 1 .. Len(Outgoing')
             PROVE  Outgoing'[i].watch # w
  BY DEF Cold
<1>1. Len(T) \in Nat /\ Len(Outgoing') = Len(T) + 1
  BY DEF Pushed
<1>2. CASE i = Len(T) + 1
  BY <1>2 DEF Pushed
<1>3. CASE i # Len(T) + 1
  <2>1. i \in 1 .. Len(T)
    BY <1>1, <1>3
  <2>2. Outgoing'[i] = T[i]
    BY <2>1 DEF Pushed
  <2>. QED
    BY <2>1, <2>2 DEF Cold
<1>. QED
  BY <1>2, <1>3

(* ... nor are two. *)
LEMMA ColdPushedTwice ==
  ASSUME Cold, warm' = warm, rows' = rows, lists' = lists, NEW m, NEW n, NEW R, NEW T \in Seq(FrameType),
         T = Outgoing, Pushed(R, T, m), Pushed(Outgoing', R, n),
         m.watch \in warm, n.watch \in warm
  PROVE  Cold'
<1> SUFFICES ASSUME NEW w \in Watches \ warm, NEW i \in 1 .. Len(Outgoing')
             PROVE  Outgoing'[i].watch # w
  BY DEF Cold
<1>1. Len(T) \in Nat /\ Len(R) = Len(T) + 1 /\ Len(Outgoing') = Len(T) + 2
  BY DEF Pushed
<1>2. CASE i = Len(R) + 1
  BY <1>2 DEF Pushed
<1>3. CASE i = Len(T) + 1
  <2>1. i \in 1 .. Len(R)
    BY <1>1, <1>3
  <2>. QED
    BY <1>1, <1>3, <2>1 DEF Pushed
<1>4. CASE i # Len(T) + 1 /\ i # Len(R) + 1
  <2>1. i \in 1 .. Len(T) /\ i \in 1 .. Len(R)
    BY <1>1, <1>4
  <2>2. Outgoing'[i] = T[i]
    BY <2>1 DEF Pushed
  <2>. QED
    BY <2>1, <2>2 DEF Cold
<1>. QED
  BY <1>2, <1>3, <1>4

(* The frames that the session sends. *)
LEMMA FrameTypes ==
  ASSUME NEW kind \in {"subscribed", "begin", "chunk", "end", "changed", "gone", "resync"},
         NEW w \in Watches, NEW e \in EventType, NEW page \in PageIndex
  PROVE  /\ FrameOf(kind, w, e, page) \in FrameType
         /\ FrameOf(kind, w, e, page).kind = kind /\ FrameOf(kind, w, e, page).watch = w
         /\ FrameOf(kind, w, e, page).page = page /\ FrameOf(kind, w, e, page).rev = e.rev
         /\ FrameOf(kind, w, e, page).key = e.key
BY DEF FrameOf, FrameType, EventType

(* A page of a snapshot is an event of its revision. *)
LEMMA PageOfTypes ==
  ASSUME NEW e \in EventType, NEW i
  PROVE  PageOf(e, i) \in EventType /\ PageOf(e, i).rev = e.rev
<1> DEFINE cut == [k \in Keys |->
       IF \E j \in DOMAIN Present(e) : Present(e)[j] = k /\ (j - 1) \div RowsPerChunk = i
       THEN e.rows[k] ELSE 0]
<1>1. cut \in Rows
  BY ListBounds DEF EventType, Rows
<1>2. PageOf(e, i) = [e EXCEPT !.rows = cut]
  BY DEF PageOf
<1> HIDE DEF cut
<1>. QED
  BY <1>1, <1>2 DEF EventType

(* No page yet. *)
LEMMA PartNone ==
  ASSUME NEW e \in EventType
  PROVE  Part(e, 0) = [NoAssembly EXCEPT !.total = Pages(e)]
<1> DEFINE S == {k \in Keys : e.rows[k] # 0}
<1>1. \A j \in DOMAIN Present(e) : ~((j - 1) \div RowsPerChunk < 0)
  <2>1. IsFiniteSet(S)
    BY ListBounds, FS_Subset
  <2>2. Present(e) \in [1 .. Cardinality(S) -> S] /\ Cardinality(S) \in Nat
    BY <2>1, Enumerates DEF Present
  <2> DEFINE n == Cardinality(S)
  <2>3. \A j \in 1 .. n : (j - 1) \div RowsPerChunk \in Nat
    BY <2>2, ListBounds, RoundsUp
  <2>4. \A d \in Nat : ~(d < 0)
    OBVIOUS
  <2>5. DOMAIN Present(e) = 1 .. n
    BY <2>2
  <2> HIDE DEF n
  <2>. QED
    BY <2>3, <2>4, <2>5
<1>2. Part(e, 0).rows = NoRows
  BY <1>1 DEF Part, NoRows
<1>3. Part(e, 0) = [total |-> Pages(e), got |-> 0, rev |-> 0, rows |-> NoRows]
  BY <1>2 DEF Part
<1> DEFINE b == [NoAssembly EXCEPT !.total = Pages(e)]
<1>4. b = [total |-> Pages(e), got |-> 0, rev |-> 0, rows |-> NoRows]
  <2> DEFINE a == NoAssembly
  <2>1. a \in AssemblyType /\ a.got = 0 /\ a.rev = 0 /\ a.rows = NoRows
    BY NothingTypes DEF NoAssembly
  <2>2. b = [a EXCEPT !.total = Pages(e)]
    OBVIOUS
  <2> HIDE DEF a, b
  <2>. QED
    BY <2>1, <2>2 DEF AssemblyType
<1>. QED
  BY <1>3, <1>4

(* A forwarder that returns. *)
LEMMA EndedShape ==
  ASSUME NEW g \in ForwarderType, NEW h,
         h = [g EXCEPT !.pc = "done", !.chan = <<>>, !.lagged = FALSE, !.event = NoEvent, !.page = 0]
  PROVE  /\ h \in ForwarderType /\ h.pc = "done" /\ h.chan = <<>> /\ h.watch = g.watch
         /\ h.gen = g.gen /\ h.cancelled = g.cancelled
<1>1. NoEvent \in EventType /\ 0 \in PageIndex /\ <<>> \in Seq(ChanType)
  BY NothingTypes, ListBounds DEF PageIndex
<1>. QED
  BY <1>1 DEF ForwarderType

(* The registered forwarder of u is not the one that moved. *)
LEMMA FollowsOther ==
  ASSUME NEW u \in Watches, NEW l, NEW f \in Ids, Follows(u, l), active[u] # f, Ids' = Ids,
         \A h \in Ids : h # f => forwarders'[h] = forwarders[h],
         active' = active, generation' = generation, rows' = rows, revision' = revision, listed' = listed
  PROVE  Follows(u, l)'
<1>1. active[u] \in Ids /\ forwarders'[active[u]] = forwarders[active[u]]
  BY DEF Follows, Following
<1>2. Following(u)'
  BY <1>1 DEF Follows, Following, Cancelled
<1>. QED
  BY <1>1, <1>2 DEF Follows

(* A cancelled forwarder that returns preserves the invariant. *)
LEMMA StopKeeps ==
  ASSUME DeliveryInv, NEW f \in Ids, Stop(f)
  PROVE  DeliveryInv'
<1> DEFINE g == [forwarders[f] EXCEPT !.pc = "done", !.chan = <<>>, !.lagged = FALSE,
                   !.event = NoEvent, !.page = 0]
<1>1. /\ forwarders' = [forwarders EXCEPT ![f] = g] /\ finished' = finished \cup {f}
      /\ forwarders[f].pc # "done" /\ Cancelled(f) /\ generation' = generation /\ queue' = queue
      /\ over' = over /\ merged' = merged /\ UNCHANGED <<backendVars, clientVars, active, wire>>
  BY DEF Stop, Finish, Set
<1>2. over \in BOOLEAN /\ merged \in BOOLEAN
  BY DEF DeliveryInv, ClientOK
<1>3. /\ BackendOK' /\ ClientOK' /\ RequestsOK'
      /\ revision' = revision /\ rows' = rows /\ warm' = warm /\ listed' = listed
      /\ requests' = requests /\ live' = live /\ lists' = lists /\ assembly' = assembly
      /\ active' = active /\ wire' = wire
      /\ BackendOK /\ ForwardersOK /\ QueueOK /\ ClientOK /\ RegistryOK /\ PermitOK /\ Cold
  BY <1>1, <1>2, SessionMoves
<1>4. forwarders[f] \in ForwarderType
  BY <1>3, OneForwarder
<1>5. /\ g \in ForwarderType /\ g.pc = "done" /\ g.chan = <<>> /\ g.watch = forwarders[f].watch
      /\ g.gen = forwarders[f].gen /\ g.cancelled = forwarders[f].cancelled
  BY <1>4, EndedShape
<1> HIDE DEF g
<1>6. Len(g.chan) <= ChannelCapacity
  BY <1>5, ListBounds
<1>7. /\ ForwardersOK' /\ RegistryOK' /\ PermitOK' /\ Ids' = Ids
      /\ forwarders'[f] = g /\ \A h \in Ids : h # f => forwarders'[h] = forwarders[h]
  BY <1>1, <1>3, <1>5, <1>6, MoveKeeps
<1>8. QueueOK' /\ Outgoing' = Outgoing
  BY <1>1, <1>3 DEF QueueOK, Outgoing
<1>9. Cold'
  BY <1>3, <1>8, ColdKept
<1>10. StreamsFlow'
  <2> SUFFICES ASSUME ~over', NEW u \in live' PROVE Flows(u)'
    BY DEF StreamsFlow
  <2>1. ~over /\ u \in Watches /\ Flows(u)
    BY <1>1, <1>3 DEF DeliveryInv, StreamsFlow, ClientOK
  <2>2. \A a \in AssemblyType : Mid(u, a) => Mid(u, a)'
    BY <1>1, <1>5, <1>7 DEF Mid, Cancelled
  <2>3. ASSUME NEW l \in ListType, Caught(u, l) PROVE Caught(u, l)'
    <3>1. CASE Follows(u, l)
      <4>1. active[u] # f
        BY <1>1, <3>1 DEF Follows, Following
      <4>. QED
        BY <1>1, <1>3, <1>7, <2>1, <3>1, <4>1, FollowsOther DEF Caught
    <3>. QED
      BY <1>3, <1>8, <2>3, <3>1 DEF Caught, Wanted, Resyncing, Asks
  <2>. QED
    BY <1>1, <1>3, <1>8, <2>1, <2>2, <2>3, FlowStays
<1>. QED
  BY <1>3, <1>7, <1>8, <1>9, <1>10 DEF DeliveryInv

(* A lost delta: the generation ends, and a barrier is on its way. *)
LEMMA DemandKeeps ==
  ASSUME DeliveryInv, NEW f \in Ids, forwarders[f].pc = "recv", ~Cancelled(f), DemandResync(f),
         UNCHANGED <<backendVars, active, wire, merged, clientVars>>
  PROVE  DeliveryInv'
<1> DEFINE g == [forwarders[f] EXCEPT !.pc = "done", !.chan = <<>>, !.lagged = FALSE,
                   !.event = NoEvent, !.page = 0]
<1> DEFINE s == EntryOf("P2", Barrier, 1, FrameOf("resync", forwarders[f].watch, NoEvent, 0))
<1>1. over \in BOOLEAN /\ merged \in BOOLEAN /\ ForwardersOK /\ RegistryOK
  BY DEF DeliveryInv, ClientOK
<1>2. forwarders[f].gen = generation /\ forwarders[f].watch \in Watches
      /\ forwarders[f] \in ForwarderType
  BY <1>1, RunsActive, OneForwarder
<1>3. /\ forwarders' = [forwarders EXCEPT ![f] = g] /\ finished' = finished \cup {f}
      /\ generation' = generation + 1
      /\ \/ Holds(queue, Barrier) /\ queue' = queue /\ over' = over
         \/ over' = TRUE /\ queue' = queue
         \/ ~Full(queue) /\ queue' = Append(queue, s) /\ over' = over
  BY <1>2 DEF DemandResync, Finish, Set
<1>4. over' \in BOOLEAN /\ merged' \in BOOLEAN
  BY <1>1, <1>3
<1>5. /\ BackendOK' /\ ClientOK' /\ RequestsOK'
      /\ revision' = revision /\ rows' = rows /\ warm' = warm /\ listed' = listed
      /\ requests' = requests /\ live' = live /\ lists' = lists /\ assembly' = assembly
      /\ active' = active /\ wire' = wire
      /\ BackendOK /\ ForwardersOK /\ QueueOK /\ ClientOK /\ RegistryOK /\ PermitOK /\ Cold
  BY <1>4, SessionMoves
<1>6. /\ g \in ForwarderType /\ g.pc = "done" /\ g.chan = <<>> /\ g.watch = forwarders[f].watch
      /\ g.gen = forwarders[f].gen /\ g.cancelled = forwarders[f].cancelled
  BY <1>2, EndedShape
<1> HIDE DEF g
<1>7. Len(g.chan) <= ChannelCapacity
  BY <1>6, ListBounds
<1>8. /\ ForwardersOK' /\ RegistryOK' /\ PermitOK' /\ Ids' = Ids
      /\ forwarders'[f] = g /\ \A h \in Ids : h # f => forwarders'[h] = forwarders[h]
  BY <1>3, <1>5, <1>6, <1>7, MoveKeeps
<1> DEFINE m == FrameOf("resync", forwarders[f].watch, NoEvent, 0)
<1>9. m \in FrameType /\ m.kind = "resync" /\ m.watch = forwarders[f].watch
  BY <1>2, NothingTypes, ListBounds, FrameTypes DEF PageIndex
<1>10. s \in SlotType /\ SlotSound(s) /\ s.msg = m
  <2>1. s = EntryOf("P2", Barrier, 1, m)
    OBVIOUS
  <2> HIDE DEF m, s
  <2>. QED
    BY <1>9, <2>1, QueueAssumption DEF EntryOf, SlotType, SlotSound, Priorities
<1> HIDE DEF m, s
<1>11. Outgoing \in Seq(FrameType)
  BY <1>5, OutgoingTypes
<1>12. \/ Outgoing' = Outgoing /\ QueueOK' /\ (over' = TRUE \/ Resyncing)
            /\ (over' = TRUE \/ over' = over)
       \/ Pushed(Outgoing', Outgoing, m) /\ QueueOK' /\ over' = over
  <2>1. CASE queue' = queue /\ (over' = TRUE \/ (Holds(queue, Barrier) /\ over' = over))
    BY <1>5, <2>1, BarrierQueued DEF QueueOK, Outgoing
  <2>2. CASE ~Full(queue) /\ queue' = Append(queue, s) /\ over' = over
    <3>1. Len(queue) < Capacity
      BY <1>5, <2>2, ListBounds DEF QueueOK, Full
    <3>. QED
      BY <1>5, <1>10, <2>2, <3>1, QueuePushed
  <2>. QED
    BY <1>3, <2>1, <2>2
<1>13. Cold'
  <2>1. CASE Outgoing' = Outgoing
    BY <1>5, <2>1, ColdKept
  <2>2. CASE Pushed(Outgoing', Outgoing, m)
    <3>1. m.watch \in warm
      BY <1>5, <1>9 DEF ForwardersOK
    <3>. QED
      BY <1>5, <1>11, <2>2, <3>1, ColdPushed
  <2>. QED
    BY <1>12, <2>1, <2>2
<1>14. \A h \in Ids' : Cancelled(h)'
  <2>1. ASSUME NEW h \in Ids PROVE forwarders'[h].gen < generation'
    <3>1. forwarders'[h].gen = forwarders[h].gen /\ forwarders[h].gen \in Nat
      BY <1>5, <1>6, <1>8, OneForwarder
    <3>2. forwarders[h].gen <= generation /\ generation \in Nat
      BY <1>5 DEF RegistryOK
    <3>. QED
      BY <1>3, <3>1, <3>2
  <2>. QED
    BY <1>8, <2>1 DEF Cancelled
<1>15. \A u, a : Mid(u, a)'
  BY <1>14 DEF Mid
<1>16. StreamsFlow'
  <2> SUFFICES ASSUME ~over', NEW u \in live' PROVE Flows(u)'
    BY DEF StreamsFlow
  <2>1. ~over /\ u \in Watches /\ Flows(u)
    BY <1>3, <1>5 DEF DeliveryInv, StreamsFlow, ClientOK
  <2>2. CASE Outgoing' = Outgoing
    <3>1. Resyncing'
      <4>1. CASE Resyncing
        BY <2>2, <4>1 DEF Resyncing
      <4>2. CASE Pushed(Outgoing', Outgoing, m)
        <5>1. Len(Outgoing) + 1 = Len(Outgoing) /\ Len(Outgoing) \in Nat
          BY <1>11, <2>2, <4>2 DEF Pushed
        <5>. QED
          BY <5>1
      <4>. QED
        BY <1>12, <4>1, <4>2
    <3>2. \A l \in ListType : Caught(u, l) => Caught(u, l)'
      BY <3>1 DEF Caught
    <3>. QED
      BY <1>5, <1>15, <2>1, <2>2, <3>2, FlowStays
  <2>3. CASE Pushed(Outgoing', Outgoing, m)
    <3>1. Resyncing'
      <4>1. Len(Outgoing) + 1 \in 1 .. Len(Outgoing') /\ Outgoing'[Len(Outgoing) + 1] = m
        BY <1>11, <2>3 DEF Pushed
      <4>. QED
        BY <1>9, <4>1 DEF Resyncing
    <3>2. \A l : Caught(u, l)'
      BY <3>1 DEF Caught
    <3>3. \A a : Accepts(a, m, u)
      BY <1>9 DEF Accepts
    <3>. QED
      BY <1>5, <1>9, <1>11, <1>15, <2>1, <2>3, <3>2, <3>3, FlowGrows
  <2>. QED
    BY <1>12, <2>2, <2>3
<1>. QED
  BY <1>5, <1>8, <1>12, <1>13, <1>16 DEF DeliveryInv

(* A receiver that fell behind its channel preserves the invariant. *)
LEMMA LagKeeps ==
  ASSUME DeliveryInv, NEW f \in Ids, Lag(f)
  PROVE  DeliveryInv'
BY DemandKeeps DEF Lag

(* What the registered forwarder of its subscription still delivers, when it *)
(* moves from forwarders[f] to g.                                            *)
LEMMA FollowsMoved ==
  ASSUME ForwardersOK, RegistryOK, NEW f \in Ids, forwarders[f].pc # "done", ~Cancelled(f),
         NEW g, forwarders'[f] = g, Ids' = Ids, g.pc # "done",
         g.watch = forwarders[f].watch, g.gen = forwarders[f].gen, g.cancelled = forwarders[f].cancelled,
         \A h \in Ids : h # f => forwarders'[h] = forwarders[h],
         active' = active, generation' = generation, rows' = rows, revision' = revision, listed' = listed,
         NEW u \in Watches, NEW l, NEW k, u # forwarders[f].watch => k = l,
         Delivers(forwarders[f], l, rows[u], revision, u \in listed) =>
           Delivers(g, k, rows[u], revision, u \in listed),
         Follows(u, l)
  PROVE  Follows(u, k)'
<1>1. active[forwarders[f].watch] = f
  BY RunsActive
<1>2. CASE active[u] # f
  <2>1. u # forwarders[f].watch
    BY <1>1, <1>2
  <2>. QED
    BY <1>2, <2>1, FollowsOther
<1>3. CASE active[u] = f
  <2>1. Delivers(g, k, rows[u], revision, u \in listed)
    BY <1>3 DEF Follows
  <2>2. Following(u)'
    BY <1>3 DEF Follows, Following, Cancelled
  <2>. QED
    BY <1>3, <2>1, <2>2 DEF Follows
<1>. QED
  BY <1>2, <1>3

(* A forwarder that takes a snapshot preserves the invariant. *)
LEMMA TakeKeeps ==
  ASSUME DeliveryInv, NEW f \in Ids, TakeSnapshot(f)
  PROVE  DeliveryInv'
<1> DEFINE e == Head(forwarders[f].chan)
<1> DEFINE c == Tail(forwarders[f].chan)
<1> DEFINE g == [forwarders[f] EXCEPT !.chan = c, !.event = e, !.pc = "permit"]
<1>1. /\ forwarders' = [forwarders EXCEPT ![f] = g] /\ finished' = finished
      /\ forwarders[f].pc = "recv" /\ ~Cancelled(f) /\ ~forwarders[f].lagged
           /\ forwarders[f].chan # <<>>
      /\ e.kind = "snapshot" /\ generation' = generation /\ queue' = queue
      /\ over' = over /\ merged' = merged /\ UNCHANGED <<backendVars, clientVars, active, wire>>
  BY DEF TakeSnapshot, Receives, Set, sessionVars
<1>2. over \in BOOLEAN /\ merged \in BOOLEAN
  BY DEF DeliveryInv, ClientOK
<1>3. /\ BackendOK' /\ ClientOK' /\ RequestsOK'
      /\ revision' = revision /\ rows' = rows /\ warm' = warm /\ listed' = listed
      /\ requests' = requests /\ live' = live /\ lists' = lists /\ assembly' = assembly
      /\ active' = active /\ wire' = wire
      /\ BackendOK /\ ForwardersOK /\ QueueOK /\ ClientOK /\ RegistryOK /\ PermitOK /\ Cold
  BY <1>1, <1>2, SessionMoves
<1>4. forwarders[f] \in ForwarderType /\ forwarders[f].chan \in Seq(ChanType)
      /\ Len(forwarders[f].chan) <= ChannelCapacity
  BY <1>3, OneForwarder DEF ForwardersOK
<1>5. e \in ChanType /\ e \in EventType /\ c \in Seq(ChanType) /\ Len(c) <= ChannelCapacity
  <2>1. e \in ChanType /\ c \in Seq(ChanType) /\ Len(c) = Len(forwarders[f].chan) - 1
        /\ Len(forwarders[f].chan) \in Nat
    BY <1>1, <1>4
  <2>2. Len(c) <= ChannelCapacity
    BY <1>4, <2>1, ListBounds
  <2>. QED
    BY <2>1, <2>2 DEF ChanType
<1>6. e = Head(forwarders[f].chan) /\ c = Tail(forwarders[f].chan)
  OBVIOUS
<1> HIDE DEF e, c
<1>7. /\ g \in ForwarderType /\ g.pc = "permit" /\ g.chan = c /\ g.watch = forwarders[f].watch
      /\ g.gen = forwarders[f].gen /\ g.cancelled = forwarders[f].cancelled /\ g.event = e
  BY <1>4, <1>5 DEF ForwarderType
<1> HIDE DEF g
<1>8. /\ ForwardersOK' /\ RegistryOK' /\ PermitOK' /\ Ids' = Ids
      /\ forwarders'[f] = g /\ \A h \in Ids : h # f => forwarders'[h] = forwarders[h]
  BY <1>1, <1>3, <1>5, <1>7, MoveKeeps
<1>9. QueueOK' /\ Outgoing' = Outgoing
  BY <1>1, <1>3 DEF QueueOK, Outgoing
<1>10. Cold'
  BY <1>3, <1>9, ColdKept
<1>11. StreamsFlow'
  <2> SUFFICES ASSUME ~over', NEW u \in live' PROVE Flows(u)'
    BY DEF StreamsFlow
  <2>1. ~over /\ u \in Watches /\ Flows(u)
    BY <1>1, <1>3 DEF DeliveryInv, StreamsFlow, ClientOK
  <2>2. \A a \in AssemblyType : Mid(u, a) => Mid(u, a)'
    BY <1>1, <1>7, <1>8 DEF Mid, Cancelled
  <2>3. ASSUME NEW l \in ListType, Caught(u, l) PROVE Caught(u, l)'
    <3>1. CASE Follows(u, l)
      <4>1. Base(g, l) = Published(Base(forwarders[f], l), Head(forwarders[f].chan))
        BY <1>1, <1>6, <1>7 DEF Base, Published
      <4>2. ASSUME Delivers(forwarders[f], l, rows[u], revision, u \in listed)
            PROVE  Delivers(g, l, rows[u], revision, u \in listed)
        BY <1>1, <1>4, <1>6, <1>7, <4>1, <4>2, DeliversTake
      <4>3. Follows(u, l)'
        BY <1>1, <1>3, <1>7, <1>8, <2>1, <3>1, <4>2, FollowsMoved
      <4>. QED
        BY <4>3 DEF Caught
    <3>. QED
      BY <1>3, <1>9, <2>3, <3>1 DEF Caught, Wanted, Resyncing, Asks
  <2>. QED
    BY <1>1, <1>3, <1>9, <2>1, <2>2, <2>3, FlowStays
<1>. QED
  BY <1>3, <1>8, <1>9, <1>10, <1>11 DEF DeliveryInv

(* A snapshot that begins preserves the invariant. *)
LEMMA BeginKeeps ==
  ASSUME DeliveryInv, NEW f \in Ids, BeginSnapshot(f)
  PROVE  DeliveryInv'
<1> DEFINE v == forwarders[f].watch
<1> DEFINE e == forwarders[f].event
<1> DEFINE g == [forwarders[f] EXCEPT !.pc = "page", !.page = 0]
<1>0. PICK m : m = FrameOf("begin", v, [NoEvent EXCEPT !.rev = e.rev], Pages(e))
  OBVIOUS
<1>1. /\ forwarders' = [forwarders EXCEPT ![f] = g] /\ finished' = finished
      /\ forwarders[f].pc = "permit" /\ ~Cancelled(f) /\ generation' = generation
      /\ \A h \in Ids : forwarders[h].pc # "page"
      /\ Admit(<<m>>) /\ merged' = merged /\ UNCHANGED <<backendVars, clientVars, active, wire>>
  BY <1>0 DEF BeginSnapshot, Set
<1>2. QueueOK /\ ClientOK /\ ForwardersOK /\ wire' = wire
  BY <1>1 DEF DeliveryInv
<1>3. forwarders[f] \in ForwarderType /\ v \in Watches /\ e \in EventType
      /\ Len(forwarders[f].chan) <= ChannelCapacity
  BY <1>2, OneForwarder DEF ForwardersOK
<1>4. m \in FrameType /\ m.kind = "begin" /\ m.watch = v /\ m.page = Pages(e)
  <2>1. [NoEvent EXCEPT !.rev = e.rev] \in EventType
    <3>1. e.rev \in 0 .. MaxRevision
      BY <1>3 DEF EventType
    <3> DEFINE n == NoEvent
    <3>2. n \in EventType
      BY NothingTypes
    <3> HIDE DEF n, e
    <3>3. [n EXCEPT !.rev = e.rev] \in EventType
      BY <3>1, <3>2 DEF EventType
    <3>. QED
      BY <3>3 DEF n
  <2>2. Pages(e) \in PageIndex
    BY <1>3, PagesBounded
  <2> HIDE DEF e, v
  <2>. QED
    BY <1>0, <1>3, <2>1, <2>2, FrameTypes
<1>5. /\ g \in ForwarderType /\ g.pc = "page" /\ g.chan = forwarders[f].chan /\ g.watch = v
      /\ g.gen = forwarders[f].gen /\ g.cancelled = forwarders[f].cancelled /\ g.event = e
      /\ g.page = 0 /\ g.lagged = forwarders[f].lagged
  <2>1. 0 \in PageIndex
    BY ListBounds DEF PageIndex
  <2>. QED
    BY <1>3, <2>1 DEF ForwarderType
<1>6. g.page < Pages(g.event)
  BY <1>3, <1>5, PagesBounded
<1> HIDE DEF g
<1>7. /\ QueueOK' /\ over' \in BOOLEAN
      /\ \/ over' = TRUE /\ Outgoing' = Outgoing
         \/ over' = over /\ Pushed(Outgoing', Outgoing, m)
  BY <1>1, <1>2, <1>4, AdmitsOne
<1>8. merged' \in BOOLEAN
  BY <1>1, <1>2 DEF ClientOK
<1>9. /\ BackendOK' /\ ClientOK' /\ RequestsOK'
      /\ revision' = revision /\ rows' = rows /\ warm' = warm /\ listed' = listed
      /\ requests' = requests /\ live' = live /\ lists' = lists /\ assembly' = assembly
      /\ active' = active /\ wire' = wire
      /\ BackendOK /\ ForwardersOK /\ QueueOK /\ ClientOK /\ RegistryOK /\ PermitOK /\ Cold
  BY <1>1, <1>7, <1>8, SessionMoves
<1>10. /\ ForwardersOK' /\ RegistryOK' /\ PermitOK' /\ Ids' = Ids
       /\ forwarders'[f] = g /\ \A h \in Ids : h # f => forwarders'[h] = forwarders[h]
  BY <1>1, <1>3, <1>5, <1>6, <1>9, MoveKeeps
<1>11. Outgoing \in Seq(FrameType)
  BY <1>9, OutgoingTypes
<1>12. Cold'
  <2>1. CASE Outgoing' = Outgoing
    BY <1>9, <2>1, ColdKept
  <2>2. CASE Pushed(Outgoing', Outgoing, m)
    <3>1. m.watch \in warm
      BY <1>4, <1>9 DEF ForwardersOK
    <3>. QED
      BY <1>9, <1>11, <2>2, <3>1, ColdPushed
  <2>. QED
    BY <1>7, <2>1, <2>2
<1>13. StreamsFlow'
  <2> SUFFICES ASSUME ~over', NEW u \in live' PROVE Flows(u)'
    BY DEF StreamsFlow
  <2>1. ~over /\ u \in Watches /\ Flows(u) /\ Pushed(Outgoing', Outgoing, m)
    BY <1>7, <1>9 DEF DeliveryInv, StreamsFlow, ClientOK
  <2>2. \A h \in Ids' : forwarders'[h].pc = "page" => h = f
    BY <1>1, <1>10
  <2>3. ASSUME NEW a \in AssemblyType
        PROVE  Accepts(a, m, u) /\ Mid(u, Assembled(a, m, u))'
    <3>1. Accepts(a, m, u)
      BY <1>4 DEF Accepts
    <3>2. CASE u = v
      <4>1. Assembled(a, m, u) = [NoAssembly EXCEPT !.total = Pages(e)]
        BY <1>4, <3>2 DEF Assembled
      <4>2. Assembled(a, m, u) = Part(e, 0)
        BY <1>3, <4>1, PartNone
      <4>. QED
        BY <1>5, <1>10, <2>2, <3>1, <4>2 DEF Mid
    <3>3. CASE u # v
      BY <1>5, <1>10, <2>2, <3>1, <3>3 DEF Mid
    <3>. QED
      BY <3>2, <3>3
  <2>4. ASSUME NEW a \in AssemblyType, NEW l \in ListType, Caught(u, l)
        PROVE  Caught(u, Listed(l, a, m, u))'
    <3>1. Listed(l, a, m, u) = l
      BY <1>4 DEF Listed
    <3>2. Resyncing => Resyncing'
      BY <1>11, <2>1 DEF Resyncing, Pushed
    <3>3. Wanted(u) => Wanted(u)'
      BY <1>9 DEF Wanted, Asks
    <3>4. CASE Follows(u, l)
      <4>1. Base(g, l) = Base(forwarders[f], l)
        BY <1>1, <1>5 DEF Base
      <4>2. forwarders[f].chan \in Seq(ChanType) /\ revision \in Nat
        BY <1>9, OneForwarder, ListBounds DEF BackendOK
      <4>3. ASSUME Delivers(forwarders[f], l, rows[u], revision, u \in listed)
            PROVE  Delivers(g, l, rows[u], revision, u \in listed)
        BY <1>5, <4>1, <4>2, <4>3, DeliversSame
      <4>4. Follows(u, l)'
        BY <1>1, <1>5, <1>9, <1>10, <2>1, <3>4, <4>3, FollowsMoved
      <4>. QED
        BY <3>1, <4>4 DEF Caught
    <3>. QED
      BY <2>4, <3>1, <3>2, <3>3, <3>4 DEF Caught
  <2>. QED
    BY <1>1, <1>4, <1>9, <1>11, <2>1, <2>3, <2>4, FlowGrows
<1>. QED
  BY <1>7, <1>9, <1>10, <1>12, <1>13 DEF DeliveryInv

(* A frame on its way stays on its way. *)
LEMMA StaysWanted ==
  ASSUME NEW T \in Seq(FrameType), T = Outgoing, NEW m, Pushed(Outgoing', T, m), requests' = requests, NEW u
  PROVE  (Resyncing => Resyncing') /\ (Wanted(u) => Wanted(u)')
BY DEF Resyncing, Pushed, Wanted, Asks

(* What SendPage has in common on both of its paths. *)
LEMMA PageFrame ==
  ASSUME ForwardersOK, PermitOK, NEW f \in Ids, forwarders[f].pc = "page", NEW m,
         m = FrameOf("chunk", forwarders[f].watch,
                     PageOf(forwarders[f].event, forwarders[f].page), forwarders[f].page)
  PROVE  /\ m \in FrameType /\ m.kind = "chunk" /\ m.watch = forwarders[f].watch
         /\ Assembled(Part(forwarders[f].event, forwarders[f].page), m, m.watch)
              = Part(forwarders[f].event, forwarders[f].page + 1)
         /\ Accepts(Part(forwarders[f].event, forwarders[f].page), m, m.watch)
         /\ forwarders[f].page \in Nat
         /\ \A h \in Ids : forwarders[h].pc = "page" => h = f
<1> DEFINE e == forwarders[f].event
<1> DEFINE n == forwarders[f].page
<1>1. e \in EventType /\ n \in PageIndex /\ n \in Nat /\ forwarders[f].watch \in Watches
  BY OneForwarder, ListBounds DEF PageIndex
<1>2. n < Pages(e)
  BY DEF PermitOK
<1>3. m \in FrameType /\ m.kind = "chunk" /\ m.watch = forwarders[f].watch
  <2>1. PageOf(e, n) \in EventType
    BY <1>1, PageOfTypes
  <2> HIDE DEF e, n
  <2>2. m = FrameOf("chunk", forwarders[f].watch, PageOf(e, n), n)
    BY DEF e, n
  <2>. QED
    BY <1>1, <2>1, <2>2, FrameTypes
<1>4. Part(e, n + 1) = Assembled(Part(e, n), m, m.watch) /\ Accepts(Part(e, n), m, m.watch)
  <2>1. m = FrameOf("chunk", m.watch, PageOf(e, n), n)
    BY <1>3
  <2> HIDE DEF e, n
  <2>. QED
    BY <1>1, <1>2, <2>1, PartGrows
<1>5. \A h \in Ids : forwarders[h].pc = "page" => h = f
  BY DEF PermitOK
<1>. QED
  BY <1>1, <1>3, <1>4, <1>5

(* The next page, but not the last. *)
LEMMA PageKeeps ==
  ASSUME DeliveryInv, NEW f \in Ids, forwarders[f].pc = "page", ~Cancelled(f), NEW m,
         m = FrameOf("chunk", forwarders[f].watch,
                     PageOf(forwarders[f].event, forwarders[f].page), forwarders[f].page),
         forwarders[f].page + 1 < Pages(forwarders[f].event), Admit(<<m>>),
         Set(f, [forwarders[f] EXCEPT !.page = @ + 1]),
         UNCHANGED <<backendVars, generation, active, finished, wire, merged, clientVars>>
  PROVE  DeliveryInv'
<1> DEFINE v == forwarders[f].watch
<1> DEFINE e == forwarders[f].event
<1> DEFINE n == forwarders[f].page
<1> DEFINE g == [forwarders[f] EXCEPT !.page = n + 1]
<1>1. forwarders' = [forwarders EXCEPT ![f] = g]
  BY DEF Set
<1>2. QueueOK /\ ClientOK /\ ForwardersOK /\ PermitOK /\ wire' = wire
  BY DEF DeliveryInv
<1>3. forwarders[f] \in ForwarderType /\ v \in Watches /\ e \in EventType /\ n \in PageIndex
      /\ Len(forwarders[f].chan) <= ChannelCapacity
  BY <1>2, OneForwarder DEF ForwardersOK
<1>4. /\ m \in FrameType /\ m.kind = "chunk" /\ m.watch = v
      /\ Assembled(Part(e, n), m, m.watch) = Part(e, n + 1) /\ Accepts(Part(e, n), m, m.watch)
      /\ n \in Nat /\ \A h \in Ids : forwarders[h].pc = "page" => h = f
  BY <1>2, PageFrame
<1>5. /\ g \in ForwarderType /\ g.pc = "page" /\ g.chan = forwarders[f].chan /\ g.watch = v
      /\ g.gen = forwarders[f].gen /\ g.cancelled = forwarders[f].cancelled /\ g.event = e
      /\ g.page = n + 1 /\ g.lagged = forwarders[f].lagged
  <2>1. n + 1 \in PageIndex
    BY <1>3, NextPage
  <2> HIDE DEF n
  <2>. QED
    BY <1>3, <2>1 DEF ForwarderType
<1> HIDE DEF g
<1>7. /\ QueueOK' /\ over' \in BOOLEAN
      /\ \/ over' = TRUE /\ Outgoing' = Outgoing
         \/ over' = over /\ Pushed(Outgoing', Outgoing, m)
  BY <1>2, <1>4, AdmitsOne
<1>8. merged' \in BOOLEAN
  BY <1>2 DEF ClientOK
<1>9. /\ BackendOK' /\ ClientOK' /\ RequestsOK'
      /\ revision' = revision /\ rows' = rows /\ warm' = warm /\ listed' = listed
      /\ requests' = requests /\ live' = live /\ lists' = lists /\ assembly' = assembly
      /\ active' = active /\ wire' = wire
      /\ BackendOK /\ ForwardersOK /\ QueueOK /\ ClientOK /\ RegistryOK /\ PermitOK /\ Cold
  BY <1>7, <1>8, SessionMoves
<1>10. /\ ForwardersOK' /\ RegistryOK' /\ PermitOK' /\ Ids' = Ids
       /\ forwarders'[f] = g /\ \A h \in Ids : h # f => forwarders'[h] = forwarders[h]
  BY <1>1, <1>3, <1>4, <1>5, <1>9, MoveKeeps
<1>11. Outgoing \in Seq(FrameType)
  BY <1>9, OutgoingTypes
<1>12. Cold'
  <2>1. CASE Outgoing' = Outgoing
    BY <1>9, <2>1, ColdKept
  <2>2. CASE Pushed(Outgoing', Outgoing, m)
    <3>1. m.watch \in warm
      BY <1>4, <1>9 DEF ForwardersOK
    <3>. QED
      BY <1>9, <1>11, <2>2, <3>1, ColdPushed
  <2>. QED
    BY <1>7, <2>1, <2>2
<1>13. StreamsFlow'
  <2> SUFFICES ASSUME ~over', NEW u \in live' PROVE Flows(u)'
    BY DEF StreamsFlow
  <2>1. ~over /\ u \in Watches /\ Flows(u) /\ Pushed(Outgoing', Outgoing, m)
    BY <1>7, <1>9 DEF DeliveryInv, StreamsFlow, ClientOK
  <2>2. \A h \in Ids' : forwarders'[h].pc = "page" => h = f
    BY <1>4, <1>5, <1>10
  <2>3. ASSUME NEW a \in AssemblyType, Mid(u, a)
        PROVE  Accepts(a, m, u) /\ Mid(u, Assembled(a, m, u))'
    <3>2. CASE u = v
      <4>1. a = Part(e, n)
        BY <2>3, <3>2 DEF Mid
      <4>2. Assembled(a, m, u) = Part(e, n + 1) /\ Accepts(a, m, u)
        BY <1>4, <3>2, <4>1
      <4>. QED
        BY <1>5, <1>10, <2>2, <4>2 DEF Mid
    <3>3. CASE u # v
      <4>1. Accepts(a, m, u)
        BY <1>4, <3>3 DEF Accepts
      <4>. QED
        BY <1>5, <1>10, <2>2, <3>3, <4>1 DEF Mid
    <3>. QED
      BY <3>2, <3>3
  <2>4. ASSUME NEW a \in AssemblyType, NEW l \in ListType, Caught(u, l)
        PROVE  Caught(u, Listed(l, a, m, u))'
    <3>1. Listed(l, a, m, u) = l
      BY <1>4 DEF Listed
    <3>2. (Resyncing => Resyncing') /\ (Wanted(u) => Wanted(u)')
      BY <1>9, <1>11, <2>1, StaysWanted
    <3>4. CASE Follows(u, l)
      <4>1. Base(g, l) = Base(forwarders[f], l)
        BY <1>5 DEF Base
      <4>2. forwarders[f].chan \in Seq(ChanType) /\ revision \in Nat
        BY <1>9, OneForwarder, ListBounds DEF BackendOK
      <4>3. ASSUME Delivers(forwarders[f], l, rows[u], revision, u \in listed)
            PROVE  Delivers(g, l, rows[u], revision, u \in listed)
        BY <1>5, <4>1, <4>2, <4>3, DeliversSame
      <4>4. Follows(u, l)'
        BY <1>5, <1>9, <1>10, <2>1, <3>4, <4>3, FollowsMoved
      <4>. QED
        BY <3>1, <4>4 DEF Caught
    <3>. QED
      BY <2>4, <3>1, <3>2, <3>4 DEF Caught
  <2>. QED
    BY <1>4, <1>9, <1>11, <2>1, <2>3, <2>4, FlowGrows
<1>. QED
  BY <1>7, <1>9, <1>10, <1>12, <1>13 DEF DeliveryInv

(* The last page and the end of the snapshot: the window has the whole cut. *)
LEMMA LastPageKeeps ==
  ASSUME DeliveryInv, NEW f \in Ids, forwarders[f].pc = "page", ~Cancelled(f), NEW m, NEW n,
         m = FrameOf("chunk", forwarders[f].watch,
                     PageOf(forwarders[f].event, forwarders[f].page), forwarders[f].page),
         n = FrameOf("end", forwarders[f].watch, NoEvent, 0),
         forwarders[f].page + 1 = Pages(forwarders[f].event), Admit(<<m, n>>),
         Set(f, [forwarders[f] EXCEPT !.pc = "recv", !.event = NoEvent, !.page = 0]),
         UNCHANGED <<backendVars, generation, active, finished, wire, merged, clientVars>>
  PROVE  DeliveryInv'
<1> DEFINE v == forwarders[f].watch
<1> DEFINE e == forwarders[f].event
<1> DEFINE g == [forwarders[f] EXCEPT !.pc = "recv", !.event = NoEvent, !.page = 0]
<1>1. forwarders' = [forwarders EXCEPT ![f] = g]
  BY DEF Set
<1>2. QueueOK /\ ClientOK /\ ForwardersOK /\ PermitOK /\ wire' = wire
  BY DEF DeliveryInv
<1>3. forwarders[f] \in ForwarderType /\ v \in Watches /\ e \in EventType
      /\ Len(forwarders[f].chan) <= ChannelCapacity
  BY <1>2, OneForwarder DEF ForwardersOK
<1>4. /\ m \in FrameType /\ m.kind = "chunk" /\ m.watch = v
      /\ Assembled(Part(e, forwarders[f].page), m, m.watch) = Part(e, Pages(e))
      /\ Accepts(Part(e, forwarders[f].page), m, m.watch)
      /\ \A h \in Ids : forwarders[h].pc = "page" => h = f
  <2>1. /\ Assembled(Part(e, forwarders[f].page), m, m.watch) = Part(e, forwarders[f].page + 1)
        /\ m \in FrameType /\ m.kind = "chunk" /\ m.watch = v
        /\ Accepts(Part(e, forwarders[f].page), m, m.watch)
        /\ \A h \in Ids : forwarders[h].pc = "page" => h = f
    BY <1>2, PageFrame
  <2>. QED
    BY <2>1
<1>5. n \in FrameType /\ n.kind = "end" /\ n.watch = v
  <2>1. NoEvent \in EventType /\ 0 \in PageIndex
    BY NothingTypes, ListBounds DEF PageIndex
  <2>. QED
    BY <1>3, <2>1, FrameTypes
<1>6. /\ Part(e, Pages(e)) # NoAssembly /\ Part(e, Pages(e)).got = Part(e, Pages(e)).total
      /\ Part(e, Pages(e)).rows = e.rows /\ Part(e, Pages(e)).rev = e.rev
  <2>1. Pages(e) \in PageIndex
    BY <1>3, PagesBounded
  <2>2. Part(e, Pages(e)) # NoAssembly
    BY <1>3, <2>1, PartTypes
  <2>3. Part(e, Pages(e)).rows = e.rows /\ Part(e, Pages(e)).rev = e.rev
    BY <1>3, PartComplete
  <2>. QED
    BY <2>2, <2>3 DEF Part
<1>7. /\ g \in ForwarderType /\ g.pc = "recv" /\ g.chan = forwarders[f].chan /\ g.watch = v
      /\ g.gen = forwarders[f].gen /\ g.cancelled = forwarders[f].cancelled
      /\ g.lagged = forwarders[f].lagged
  <2>1. 0 \in PageIndex /\ NoEvent \in EventType
    BY NothingTypes, ListBounds DEF PageIndex
  <2>. QED
    BY <1>3, <2>1 DEF ForwarderType
<1> HIDE DEF g
<1>8. /\ QueueOK' /\ over' \in BOOLEAN
      /\ \/ over' = TRUE /\ Outgoing' = Outgoing
         \/ over' = over /\ \E R : Pushed(R, Outgoing, m) /\ Pushed(Outgoing', R, n)
  BY <1>2, <1>4, <1>5, AdmitsTwo
<1>9. merged' \in BOOLEAN
  BY <1>2 DEF ClientOK
<1>10. /\ BackendOK' /\ ClientOK' /\ RequestsOK'
      /\ revision' = revision /\ rows' = rows /\ warm' = warm /\ listed' = listed
      /\ requests' = requests /\ live' = live /\ lists' = lists /\ assembly' = assembly
      /\ active' = active /\ wire' = wire
      /\ BackendOK /\ ForwardersOK /\ QueueOK /\ ClientOK /\ RegistryOK /\ PermitOK /\ Cold
  BY <1>8, <1>9, SessionMoves
<1>11. /\ ForwardersOK' /\ RegistryOK' /\ PermitOK' /\ Ids' = Ids
       /\ forwarders'[f] = g /\ \A h \in Ids : h # f => forwarders'[h] = forwarders[h]
  BY <1>1, <1>3, <1>7, <1>10, MoveKeeps
<1>12. Outgoing \in Seq(FrameType)
  BY <1>10, OutgoingTypes
<1>13. Cold'
  <2>1. CASE Outgoing' = Outgoing
    BY <1>10, <2>1, ColdKept
  <2>2. ASSUME NEW R, Pushed(R, Outgoing, m) /\ Pushed(Outgoing', R, n) PROVE Cold'
    <3>1. m.watch \in warm /\ n.watch \in warm
      BY <1>4, <1>5, <1>10 DEF ForwardersOK
    <3>. QED
      BY <1>10, <1>12, <2>2, <3>1, ColdPushedTwice
  <2>. QED
    BY <1>8, <2>1, <2>2
<1>14. StreamsFlow'
  <2> SUFFICES ASSUME ~over', NEW u \in live' PROVE Flows(u)'
    BY DEF StreamsFlow
  <2>1. ~over /\ u \in Watches /\ Flows(u)
    BY <1>8, <1>10 DEF DeliveryInv, StreamsFlow, ClientOK
  <2>2. PICK R : Pushed(R, Outgoing, m) /\ Pushed(Outgoing', R, n)
    BY <1>8
  <2>3. \A h \in Ids' : forwarders'[h].pc # "page"
    BY <1>4, <1>7, <1>11
  <2>4. \A a : Mid(u, a)'
    BY <2>3 DEF Mid
  <2>5. ASSUME NEW a \in AssemblyType, Mid(u, a)
        PROVE  /\ Accepts(a, m, u) /\ Accepts(Assembled(a, m, u), n, u)
               /\ u = v => Assembled(a, m, u) = Part(e, Pages(e))
    <3>1. CASE u = v
      <4>1. a = Part(e, forwarders[f].page)
        BY <2>5, <3>1 DEF Mid
      <4>2. Assembled(a, m, u) = Part(e, Pages(e)) /\ Accepts(a, m, u)
        BY <1>4, <3>1, <4>1
      <4>. QED
        BY <1>5, <1>6, <4>2 DEF Accepts
    <3>2. CASE u # v
      BY <1>4, <1>5, <3>2 DEF Accepts
    <3>. QED
      BY <3>1, <3>2
  <2>6. ASSUME NEW a \in AssemblyType, NEW l \in ListType, Mid(u, a), Caught(u, l)
        PROVE  Caught(u, Listed(Listed(l, a, m, u), Assembled(a, m, u), n, u))'
    <3>0. PICK k : k = Listed(Listed(l, a, m, u), Assembled(a, m, u), n, u)
      OBVIOUS
    <3>1. Listed(l, a, m, u) = l
      BY <1>4 DEF Listed
    <3>2. u # v => k = l
      BY <1>5, <3>0, <3>1 DEF Listed
    <3>3. u = v => k = [rev |-> e.rev, rows |-> e.rows]
      <4>1. u = v => Listed(l, Assembled(a, m, u), n, u)
                       = [rev |-> Assembled(a, m, u).rev, rows |-> Assembled(a, m, u).rows]
        BY <1>5 DEF Listed
      <4>. QED
        BY <1>6, <2>5, <2>6, <3>0, <3>1, <4>1
    <3>4. (Resyncing => Resyncing') /\ (Wanted(u) => Wanted(u)')
      <4>1. ASSUME Resyncing PROVE Resyncing'
        <5>1. PICK i \in 1 .. Len(Outgoing) : Outgoing[i].kind = "resync"
          BY <4>1 DEF Resyncing
        <5>2. i \in 1 .. Len(R) /\ R[i] = Outgoing[i]
          BY <1>12, <2>2, <5>1 DEF Pushed
        <5>3. i \in 1 .. Len(Outgoing') /\ Outgoing'[i] = R[i]
          BY <2>2, <5>2 DEF Pushed
        <5>. QED
          BY <5>1, <5>2, <5>3 DEF Resyncing
      <4>. QED
        BY <1>10, <4>1 DEF Wanted, Asks
    <3>5. CASE Follows(u, l)
      <4>1. u = v => Base(g, k) = Base(forwarders[f], l)
        BY <1>7, <3>3 DEF Base
      <4>2. forwarders[f].chan \in Seq(ChanType) /\ revision \in Nat
        BY <1>10, OneForwarder, ListBounds DEF BackendOK
      <4>3. CASE u = v
        <5>1. ASSUME Delivers(forwarders[f], l, rows[u], revision, u \in listed)
              PROVE  Delivers(g, k, rows[u], revision, u \in listed)
          BY <1>7, <4>1, <4>2, <4>3, <5>1, DeliversSame
        <5>2. Follows(u, k)'
          BY <1>7, <1>10, <1>11, <2>1, <3>5, <4>3, <5>1, FollowsMoved
        <5>. QED
          BY <3>0, <5>2 DEF Caught
      <4>4. CASE u # v
        <5>1. active[u] # f
          BY <3>5, <4>4 DEF Follows, Following
        <5>2. Follows(u, l)'
          BY <1>10, <1>11, <2>1, <3>5, <5>1, FollowsOther
        <5>. QED
          BY <3>0, <3>2, <4>4, <5>2 DEF Caught
      <4>. QED
        BY <4>3, <4>4
    <3>. QED
      BY <2>6, <3>0, <3>4, <3>5 DEF Caught
  <2>. QED
    BY <1>4, <1>5, <1>10, <1>12, <2>1, <2>2, <2>4, <2>5, <2>6, FlowGrowsTwice
<1>. QED
  BY <1>8, <1>10, <1>11, <1>13, <1>14 DEF DeliveryInv

(* A page that is queued preserves the invariant. *)
LEMMA SendPageKeeps ==
  ASSUME DeliveryInv, NEW f \in Ids, SendPage(f)
  PROVE  DeliveryInv'
<1> DEFINE g == forwarders[f]
<1>1. PICK m : m = FrameOf("chunk", g.watch, PageOf(g.event, g.page), g.page)
  OBVIOUS
<1>2. PICK n : n = FrameOf("end", g.watch, NoEvent, 0)
  OBVIOUS
<1>3. /\ g.pc = "page" /\ ~Cancelled(f)
      /\ UNCHANGED <<backendVars, generation, active, finished, wire, merged, clientVars>>
      /\ \/ /\ g.page + 1 < Pages(g.event) /\ Admit(<<m>>) /\ Set(f, [g EXCEPT !.page = @ + 1])
         \/ /\ g.page + 1 = Pages(g.event) /\ Admit(<<m, n>>)
            /\ Set(f, [g EXCEPT !.pc = "recv", !.event = NoEvent, !.page = 0])
  BY <1>1, <1>2 DEF SendPage, QueuePage
<1>4. CASE g.page + 1 < Pages(g.event) /\ Admit(<<m>>) /\ Set(f, [g EXCEPT !.page = @ + 1])
  BY <1>1, <1>3, <1>4, PageKeeps
<1>5. CASE /\ g.page + 1 = Pages(g.event) /\ Admit(<<m, n>>)
           /\ Set(f, [g EXCEPT !.pc = "recv", !.event = NoEvent, !.page = 0])
  BY <1>1, <1>2, <1>3, <1>5, LastPageKeeps
<1>. QED
  BY <1>3, <1>4, <1>5

(* Taking a delta off the channel. *)
LEMMA DeltaTaken ==
  ASSUME NEW g \in ForwarderType, g.chan # <<>>, Len(g.chan) <= ChannelCapacity, NEW h,
         h = [g EXCEPT !.chan = Tail(@)]
  PROVE  /\ h \in ForwarderType /\ h.chan = Tail(g.chan) /\ Len(h.chan) <= ChannelCapacity
         /\ h.pc = g.pc /\ h.watch = g.watch /\ h.gen = g.gen /\ h.cancelled = g.cancelled
         /\ h.lagged = g.lagged /\ h.event = g.event /\ h.page = g.page
         /\ Head(g.chan) \in ChanType /\ Head(g.chan) \in EventType
<1> DEFINE c == Tail(g.chan)
<1>1. g.chan \in Seq(ChanType)
  BY DEF ForwarderType
<1>2. c \in Seq(ChanType) /\ Len(c) = Len(g.chan) - 1 /\ Len(g.chan) \in Nat
      /\ Head(g.chan) \in ChanType
  BY <1>1
<1>3. Len(c) <= ChannelCapacity
  BY <1>2, ListBounds
<1>4. h = [g EXCEPT !.chan = c] /\ c = Tail(g.chan)
  OBVIOUS
<1> HIDE DEF c
<1>5. h \in ForwarderType /\ h.chan = c
      /\ h.pc = g.pc /\ h.watch = g.watch /\ h.gen = g.gen /\ h.cancelled = g.cancelled
      /\ h.lagged = g.lagged /\ h.event = g.event /\ h.page = g.page
  BY <1>2, <1>4 DEF ForwarderType
<1>. QED
  BY <1>2, <1>3, <1>4, <1>5 DEF ChanType

(* A queued delta was replaced. *)
LEMMA FlowMerges ==
  ASSUME NEW w \in Watches, Flows(w), Outgoing \in Seq(FrameType), Alike(Outgoing', Outgoing),
         assembly'[w] = assembly[w], lists'[w] = lists[w], merged' = TRUE,
         \A a \in AssemblyType : Mid(w, a) => Mid(w, a)'
  PROVE  Flows(w)'
<1>1. PICK a \in AssemblyType, l \in ListType :
        Runs(Outgoing, w, assembly[w], lists[w], a, l, merged) /\ Mid(w, a)
  BY DEF Flows
<1>2. Runs(Outgoing', w, assembly[w], lists[w], a, l, TRUE)
  BY <1>1, RunsMerged
<1>3. Runs(Outgoing', w, assembly'[w], lists'[w], a, l, merged') /\ Mid(w, a)'
  BY <1>1, <1>2
<1>. QED
  BY <1>3 DEF Flows

(* The slots after a payload was replaced. *)
LEMMA CoalescedSlots ==
  ASSUME QueueOK, NEW m \in FrameType, m.kind \in {"changed", "gone"}, NEW id \in Identities,
         id = <<m.watch, m.key>>, NEW r, r = Coalesce(queue, id, m)
  PROVE  /\ r \in Seq(SlotType) /\ Len(r) = Len(queue) /\ \A i \in DOMAIN r : SlotSound(r[i])
         /\ \A i \in 1 .. Len(queue) :
              /\ r[i].msg.watch = queue[i].msg.watch
              /\ \/ r[i].msg = queue[i].msg
                 \/ r[i].msg.kind \in {"changed", "gone"}
                      /\ queue[i].msg.kind \in {"changed", "gone"}
<1> DEFINE o == [m EXCEPT !.wire = 1]
<1>1. o \in FrameType /\ o.kind = m.kind /\ o.watch = m.watch /\ o.key = m.key
  BY DEF FrameType
<1> HIDE DEF o
<1>2. queue \in Seq(SlotType) /\ Len(queue) \in Nat /\ DOMAIN queue = 1 .. Len(queue)
      /\ \A i \in 1 .. Len(queue) : SlotSound(queue[i])
  BY DEF QueueOK
<1>3. id # Barrier
  BY QueueAssumption
<1>4. ASSUME NEW i \in 1 .. Len(queue)
      PROVE  /\ r[i] \in SlotType /\ SlotSound(r[i]) /\ r[i].msg.watch = queue[i].msg.watch
             /\ \/ r[i].msg = queue[i].msg
                \/ r[i].msg.kind \in {"changed", "gone"}
                     /\ queue[i].msg.kind \in {"changed", "gone"}
  <2> DEFINE s == queue[i]
  <2>1. s \in SlotType /\ SlotSound(s)
    BY <1>2
  <2>2. r[i] = IF s.identity = id THEN [s EXCEPT !.msg = [m EXCEPT !.wire = s.seq]] ELSE s
    BY <1>2 DEF Coalesce
  <2> HIDE DEF s
  <2>3. s.seq = 1
    BY <2>1 DEF SlotType
  <2>4. CASE s.identity = id
    <3>1. r[i] = [s EXCEPT !.msg = o]
      BY <2>2, <2>3, <2>4 DEF o
    <3>2. r[i] \in SlotType /\ r[i].identity = id /\ r[i].msg = o
      BY <1>1, <2>1, <2>4, <3>1 DEF SlotType
    <3>3. s.msg.kind \in {"changed", "gone"} /\ id = <<s.msg.watch, s.msg.key>>
      BY <2>1, <2>4 DEF SlotSound
    <3>4. s.msg.watch = m.watch
      BY <3>3
    <3>. QED
      BY <1>1, <1>3, <3>2, <3>3, <3>4 DEF SlotSound, s
  <2>5. CASE s.identity # id
    BY <2>1, <2>2, <2>5 DEF s
  <2>. QED
    BY <2>4, <2>5
<1>5. r = [i \in 1 .. Len(queue) |-> r[i]]
  BY <1>2 DEF Coalesce
<1>6. r \in Seq(SlotType) /\ Len(r) = Len(queue) /\ DOMAIN r = 1 .. Len(queue)
  <2> DEFINE n == Len(queue)
  <2>1. n \in Nat /\ r = [i \in 1 .. n |-> r[i]] /\ \A i \in 1 .. n : r[i] \in SlotType
    BY <1>2, <1>4, <1>5
  <2> HIDE DEF n
  <2>2. r \in [1 .. n -> SlotType]
    BY ONLY <2>1
  <2>3. r \in Seq(SlotType)
    BY ONLY <2>1, <2>2
  <2>4. DOMAIN r = 1 .. n
    BY <2>2
  <2>5. Len(r) = n
    BY <2>1, <2>3, <2>4
  <2>. QED
    BY <2>3, <2>4, <2>5 DEF n
<1>. QED
  BY <1>4, <1>6

(* A delta coalesced, queued or dropped preserves the invariant. *)
LEMMA ForwardDeltaKeeps ==
  ASSUME DeliveryInv, NEW f \in Ids, ForwardDelta(f)
  PROVE  DeliveryInv'
<1> DEFINE v == forwarders[f].watch
<1> DEFINE g == [forwarders[f] EXCEPT !.chan = Tail(@)]
<1>1. PICK e : e = Head(forwarders[f].chan)
  OBVIOUS
<1>2. PICK m : m = FrameOf(e.kind, v, e, 0)
  OBVIOUS
<1>3. PICK id : id = <<v, e.key>>
  OBVIOUS
<1>4. /\ forwarders[f].pc = "recv" /\ ~Cancelled(f) /\ ~forwarders[f].lagged
           /\ forwarders[f].chan # <<>>
      /\ e.kind \in {"changed", "gone"} /\ UNCHANGED <<backendVars, active, wire, clientVars>>
      /\ \/ /\ Holds(queue, id) /\ queue' = Coalesce(queue, id, m) /\ merged' = TRUE
            /\ forwarders' = [forwarders EXCEPT ![f] = g]
                 /\ UNCHANGED <<generation, finished, over>>
         \/ /\ ~PartitionFull(queue) /\ queue' = Append(queue, EntryOf("P2", id, 1, m))
            /\ forwarders' = [forwarders EXCEPT ![f] = g]
            /\ UNCHANGED <<generation, finished, over, merged>>
         \/ DemandResync(f) /\ UNCHANGED merged
  BY <1>1, <1>2, <1>3 DEF ForwardDelta, Receives, Set
<1>5. CASE DemandResync(f) /\ UNCHANGED merged
  BY <1>4, <1>5, DemandKeeps
<1>6. CASE ~(DemandResync(f) /\ UNCHANGED merged)
  <2>1. QueueOK /\ ClientOK /\ ForwardersOK /\ RegistryOK
    BY DEF DeliveryInv
  <2>2. forwarders[f] \in ForwarderType /\ v \in Watches
        /\ Len(forwarders[f].chan) <= ChannelCapacity
    BY <2>1, OneForwarder DEF ForwardersOK
  <2>3. /\ g \in ForwarderType /\ g.chan = Tail(forwarders[f].chan)
             /\ Len(g.chan) <= ChannelCapacity
        /\ g.pc = "recv" /\ g.watch = v /\ g.gen = forwarders[f].gen
        /\ g.cancelled = forwarders[f].cancelled /\ g.lagged = forwarders[f].lagged
        /\ e \in ChanType /\ e \in EventType
    BY <1>1, <1>4, <2>2, DeltaTaken
  <2> HIDE DEF g
  <2>4. m \in FrameType /\ m.kind = e.kind /\ m.watch = v /\ m.key = e.key /\ m.rev = e.rev
    <3>1. 0 \in PageIndex
      BY ListBounds DEF PageIndex
    <3>. QED
      BY <1>2, <1>4, <2>2, <2>3, <3>1, FrameTypes
  <2>5. id \in Identities /\ id = <<m.watch, m.key>> /\ id # Barrier
    BY <1>3, <1>4, <2>2, <2>3, <2>4, ListBounds, QueueAssumption DEF ChanType, Whole
  <2>6. over' = over /\ over' \in BOOLEAN /\ merged' \in BOOLEAN
    BY <1>4, <1>6, <2>1 DEF ClientOK
  <2>7. /\ BackendOK' /\ ClientOK' /\ RequestsOK'
        /\ revision' = revision /\ rows' = rows /\ warm' = warm /\ listed' = listed
        /\ requests' = requests /\ live' = live /\ lists' = lists /\ assembly' = assembly
        /\ active' = active /\ wire' = wire
        /\ BackendOK /\ ForwardersOK /\ QueueOK /\ ClientOK /\ RegistryOK /\ PermitOK /\ Cold
    BY <1>4, <2>6, SessionMoves
  <2>8. /\ ForwardersOK' /\ RegistryOK' /\ PermitOK' /\ Ids' = Ids
        /\ forwarders'[f] = g /\ \A h \in Ids : h # f => forwarders'[h] = forwarders[h]
    BY <1>4, <1>6, <2>3, <2>7, MoveKeeps
  <2>9. Outgoing \in Seq(FrameType)
    BY <2>7, OutgoingTypes
  <2>10. \A u \in Watches, a \in AssemblyType : Mid(u, a) => Mid(u, a)'
    BY <1>4, <1>6, <2>3, <2>8 DEF Mid, Cancelled
  <2>11. CASE queue' = Coalesce(queue, id, m) /\ merged' = TRUE
    <3> DEFINE r == Coalesce(queue, id, m)
    <3>1. /\ r \in Seq(SlotType) /\ Len(r) = Len(queue) /\ \A i \in DOMAIN r : SlotSound(r[i])
          /\ \A i \in 1 .. Len(queue) :
               /\ r[i].msg.watch = queue[i].msg.watch
               /\ \/ r[i].msg = queue[i].msg
                  \/ r[i].msg.kind \in {"changed", "gone"}
                       /\ queue[i].msg.kind \in {"changed", "gone"}
      BY <1>4, <2>4, <2>5, <2>7, CoalescedSlots
    <3> HIDE DEF r
    <3>2. queue' = r /\ wire' = wire
      BY <2>7, <2>11 DEF r
    <3>3. QueueOK'
      BY <2>7, <3>1, <3>2 DEF QueueOK
    <3>4. wire \in Seq(FrameType) /\ queue \in Seq(SlotType)
      BY <2>7 DEF QueueOK, ClientOK
    <3>5. Outgoing' = Flight(wire, r) /\ Outgoing = Flight(wire, queue)
      BY <3>2 DEF Outgoing
    <3>6. Alike(Outgoing', Outgoing)
      BY <3>1, <3>4, <3>5, FlightMerged
    <3>7. Cold'
      <4>1. ASSUME NEW i \in 1 .. Len(Outgoing') PROVE Outgoing'[i].watch = Outgoing[i].watch
                   /\ i \in 1 .. Len(Outgoing)
        <5>1. /\ Len(Outgoing) = Len(wire) + Len(queue) /\ Len(Outgoing') = Len(wire) + Len(queue)
              /\ \A j \in 1 .. Len(wire) : Outgoing[j] = wire[j] /\ Outgoing'[j] = wire[j]
              /\ \A j \in 1 .. Len(queue) : Outgoing[Len(wire) + j] = queue[j].msg
                                             /\ Outgoing'[Len(wire) + j] = r[j].msg
              /\ Len(wire) \in Nat /\ Len(queue) \in Nat
          <6>1. /\ Len(Outgoing) = Len(wire) + Len(queue)
                     /\ \A j \in 1 .. Len(wire) : Outgoing[j] = wire[j]
                /\ \A j \in 1 .. Len(queue) : Outgoing[Len(wire) + j] = queue[j].msg
            BY <3>4, <3>5, FlightTypes
          <6>2. /\ Len(Flight(wire, r)) = Len(wire) + Len(r)
                /\ \A j \in 1 .. Len(wire) : Flight(wire, r)[j] = wire[j]
                /\ \A j \in 1 .. Len(r) : Flight(wire, r)[Len(wire) + j] = r[j].msg
            BY <3>1, <3>4, FlightTypes
          <6>3. Len(wire) \in Nat /\ Len(queue) \in Nat
            BY <3>4
          <6>. QED
            BY <3>1, <3>5, <6>1, <6>2, <6>3
        <5>2. CASE i <= Len(wire)
          BY <5>1, <5>2
        <5>3. CASE i > Len(wire)
          <6> DEFINE d == i - Len(wire)
          <6>1. d \in 1 .. Len(queue) /\ Len(wire) + d = i
            BY <5>1, <5>3
          <6> HIDE DEF d
          <6>2. Outgoing[i] = queue[d].msg /\ Outgoing'[i] = r[d].msg
            BY <5>1, <6>1
          <6>. QED
            BY <3>1, <5>1, <6>1, <6>2
        <5>. QED
          BY <5>1, <5>2, <5>3
      <4>. QED
        BY <2>7, <4>1 DEF Cold
    <3>8. StreamsFlow'
      <4> SUFFICES ASSUME ~over', NEW u \in live' PROVE Flows(u)'
        BY DEF StreamsFlow
      <4>1. ~over /\ u \in Watches /\ Flows(u)
        BY <2>6, <2>7 DEF DeliveryInv, StreamsFlow, ClientOK
      <4>. QED
        BY <2>7, <2>9, <2>10, <2>11, <3>6, <4>1, FlowMerges
    <3>. QED
      BY <2>7, <2>8, <3>3, <3>7, <3>8 DEF DeliveryInv
  <2>12. CASE ~PartitionFull(queue) /\ queue' = Append(queue, EntryOf("P2", id, 1, m))
         /\ merged' = merged
    <3> DEFINE s == EntryOf("P2", id, 1, m)
    <3>1. s \in SlotType /\ SlotSound(s) /\ s.msg = m
      BY <1>4, <2>4, <2>5 DEF EntryOf, SlotType, SlotSound, Priorities
    <3>2. Len(queue) < Capacity
      BY <2>7, <2>12, ListBounds DEF PartitionFull, Full, QueueOK
    <3>3. queue' = Append(queue, s)
      BY <2>12
    <3> HIDE DEF s
    <3>4. QueueOK' /\ Pushed(Outgoing', Outgoing, m)
      BY <2>7, <3>1, <3>2, <3>3, QueuePushed
    <3>5. Cold'
      <4>1. m.watch \in warm
        BY <2>4, <2>7 DEF ForwardersOK
      <4>. QED
        BY <2>7, <2>9, <3>4, <4>1, ColdPushed
    <3>6. StreamsFlow'
      <4> SUFFICES ASSUME ~over', NEW u \in live' PROVE Flows(u)'
        BY DEF StreamsFlow
      <4>1. ~over /\ u \in Watches /\ Flows(u)
        BY <2>6, <2>7 DEF DeliveryInv, StreamsFlow, ClientOK
      <4>2. \A a : Accepts(a, m, u) /\ Assembled(a, m, u) = a
        BY <1>4, <2>4 DEF Accepts, Assembled
      <4>3. ASSUME NEW a \in AssemblyType, Mid(u, a)
            PROVE  Accepts(a, m, u) /\ Mid(u, Assembled(a, m, u))'
        <5>1. Assembled(a, m, u) = a /\ Mid(u, a)'
          BY <2>10, <4>1, <4>2, <4>3
        <5>. QED
          BY <4>2, <5>1
      <4>4. ASSUME NEW a \in AssemblyType, NEW l \in ListType, Caught(u, l)
            PROVE  Caught(u, Listed(l, a, m, u))'
        <5>0. PICK k : k = Listed(l, a, m, u)
          OBVIOUS
        <5>1. u # v => k = l
          BY <1>4, <2>4, <5>0 DEF Listed
        <5>2. u = v => k = Published(l, e)
          BY <1>4, <2>4, <5>0 DEF Listed, Published
        <5>3. (Resyncing => Resyncing') /\ (Wanted(u) => Wanted(u)')
          BY <2>7, <2>9, <3>4, StaysWanted
        <5>4. CASE Follows(u, l) /\ u = v
          <6>1. Base(g, k) = Published(Base(forwarders[f], l), Head(forwarders[f].chan))
            BY <1>1, <1>4, <2>3, <5>2, <5>4 DEF Base
          <6>2. ASSUME Delivers(forwarders[f], l, rows[u], revision, u \in listed)
                PROVE  Delivers(g, k, rows[u], revision, u \in listed)
            BY <1>4, <2>2, <2>3, <6>1, <6>2, DeliversTake
          <6>3. Follows(u, k)'
            BY <1>4, <1>6, <2>3, <2>7, <2>8, <4>1, <5>4, <6>2, FollowsMoved
          <6>. QED
            BY <5>0, <6>3 DEF Caught
        <5>5. CASE Follows(u, l) /\ u # v
          <6>1. active[u] # f
            BY <5>5 DEF Follows, Following
          <6>2. Follows(u, l)'
            BY <1>4, <1>6, <2>7, <2>8, <4>1, <5>5, <6>1, FollowsOther
          <6>. QED
            BY <5>0, <5>1, <5>5, <6>2 DEF Caught
        <5>. QED
          BY <4>4, <5>0, <5>3, <5>4, <5>5 DEF Caught
      <4>. QED
        BY <2>4, <2>7, <2>9, <2>12, <3>4, <4>1, <4>3, <4>4, FlowGrows
    <3>. QED
      BY <2>7, <2>8, <3>4, <3>5, <3>6 DEF DeliveryInv
  <2>. QED
    BY <1>4, <1>6, <2>11, <2>12
<1>. QED
  BY <1>5, <1>6

(* A forwarder that unregisters itself preserves the invariant. *)
LEMMA ReapKeeps ==
  ASSUME DeliveryInv, NEW f \in Ids, Reap(f)
  PROVE  DeliveryInv'
<1> DEFINE w == forwarders[f].watch
<1>1. /\ f \in finished /\ finished' = finished \ {f}
      /\ active' = [active EXCEPT ![w] = IF @ = f THEN 0 ELSE @]
      /\ revision' = revision /\ rows' = rows /\ warm' = warm /\ listed' = listed
      /\ forwarders' = forwarders /\ generation' = generation /\ queue' = queue /\ wire' = wire
      /\ over' = over /\ merged' = merged /\ requests' = requests /\ live' = live
      /\ lists' = lists /\ assembly' = assembly /\ broken' = broken
  BY DEF Reap, backendVars, clientVars
<1>2. BackendOK /\ ForwardersOK /\ QueueOK /\ ClientOK /\ RegistryOK /\ PermitOK /\ Cold
      /\ RequestsOK
  BY DEF DeliveryInv
<1>3. w \in Watches /\ forwarders[f].pc = "done"
  BY <1>1, <1>2, OneForwarder DEF RegistryOK, Ended
<1>4. /\ active' \in [Watches -> Nat]
      /\ \A u \in Watches : active'[u] = active[u] \/ (active[u] = f /\ active'[u] = 0)
  BY <1>1, <1>2, <1>3 DEF RegistryOK
<1>5. BackendOK' /\ ForwardersOK' /\ QueueOK' /\ ClientOK' /\ PermitOK' /\ Cold'
  <2>1. BackendOK' /\ QueueOK' /\ ClientOK'
    BY <1>1, <1>2 DEF BackendOK, QueueOK, ClientOK
  <2>2. ForwardersOK' /\ PermitOK'
    BY <1>1, <1>2 DEF ForwardersOK, PermitOK, Ids
  <2>3. Cold'
    BY <1>1, <1>2 DEF Cold, Outgoing
  <2>. QED
    BY <2>1, <2>2, <2>3
<1>6. RegistryOK'
  <2>1. Ended' = Ended /\ Ids' = Ids
    BY <1>1 DEF Ended, Ids
  <2>2. ActiveIsRunning'
    <3> SUFFICES ASSUME NEW g \in Ids, forwarders[g].pc # "done", ~forwarders[g].cancelled
                 PROVE  active'[forwarders[g].watch] = g
      BY <1>1, <2>1 DEF ActiveIsRunning
    <3>1. active[forwarders[g].watch] = g /\ g # f /\ forwarders[g].watch \in Watches
      BY <1>2, <1>3, OneForwarder DEF RegistryOK, ActiveIsRunning
    <3>. QED
      BY <1>4, <3>1
  <2>3. \A u \in Watches : active'[u] # 0 => active'[u] \in Ids'
        /\ forwarders'[active'[u]].watch = u
    BY <1>1, <1>2, <1>4, <2>1 DEF RegistryOK
  <2>. QED
    BY <1>1, <1>2, <1>4, <2>1, <2>2, <2>3 DEF RegistryOK
<1>7. RequestsOK'
  BY <1>1, <1>2, <1>4 DEF RequestsOK, Asks
<1>8. StreamsFlow'
  <2> SUFFICES ASSUME ~over', NEW u \in live' PROVE Flows(u)'
    BY DEF StreamsFlow
  <2>1. ~over /\ u \in Watches /\ Flows(u) /\ Outgoing' = Outgoing
    BY <1>1, <1>2 DEF DeliveryInv, StreamsFlow, ClientOK, Outgoing
  <2>2. \A a \in AssemblyType : Mid(u, a) => Mid(u, a)'
    BY <1>1 DEF Mid, Cancelled, Ids
  <2>3. ASSUME NEW l \in ListType, Caught(u, l) PROVE Caught(u, l)'
    <3>1. CASE Follows(u, l)
      <4>1. active[u] # f
        BY <1>3, <3>1 DEF Follows, Following
      <4>2. active'[u] = active[u]
        BY <1>4, <2>1, <4>1
      <4>3. Follows(u, l)'
        BY <1>1, <3>1, <4>2 DEF Follows, Following, Cancelled, Ids
      <4>. QED
        BY <4>3 DEF Caught
    <3>. QED
      BY <1>1, <2>1, <2>3, <3>1 DEF Caught, Wanted, Resyncing, Asks
  <2>. QED
    BY <1>1, <2>1, <2>2, <2>3, FlowStays
<1>. QED
  BY <1>5, <1>6, <1>7, <1>8 DEF DeliveryInv

(* Only frames move: the forwarders and the registry stay. *)
LEMMA FrameMoves ==
  ASSUME DeliveryInv, UNCHANGED <<backendVars, forwarders, generation, active, finished>>
  PROVE  /\ BackendOK' /\ ForwardersOK' /\ RegistryOK' /\ PermitOK'
         /\ revision' = revision /\ rows' = rows /\ warm' = warm /\ listed' = listed
         /\ active' = active /\ forwarders' = forwarders /\ generation' = generation
         /\ \A u \in Watches, a \in AssemblyType : Mid(u, a) => Mid(u, a)'
         /\ \A u \in Watches, l \in ListType : Follows(u, l) => Follows(u, l)'
         /\ BackendOK /\ ForwardersOK /\ QueueOK /\ ClientOK /\ RegistryOK /\ PermitOK /\ Cold
              /\ RequestsOK
<1>1. /\ BackendOK /\ ForwardersOK /\ QueueOK /\ ClientOK /\ RegistryOK /\ PermitOK /\ Cold
           /\ RequestsOK
      /\ revision' = revision /\ rows' = rows /\ warm' = warm /\ listed' = listed
      /\ forwarders' = forwarders /\ generation' = generation /\ active' = active
      /\ finished' = finished
  BY DEF DeliveryInv, backendVars
<1>2. BackendOK' /\ ForwardersOK' /\ PermitOK'
  BY <1>1 DEF BackendOK, ForwardersOK, PermitOK, Ids
<1>3. RegistryOK'
  BY <1>1 DEF RegistryOK, Ended, Ids, ActiveIsRunning
<1>4. \A u \in Watches, a \in AssemblyType : Mid(u, a) => Mid(u, a)'
  BY <1>1 DEF Mid, Cancelled, Ids
<1>5. \A u \in Watches, l \in ListType : Follows(u, l) => Follows(u, l)'
  BY <1>1 DEF Follows, Following, Cancelled, Ids
<1>. QED
  BY <1>1, <1>2, <1>3, <1>4, <1>5

(* A frame that is written preserves the invariant. *)
LEMMA WriteKeeps ==
  ASSUME DeliveryInv, Write
  PROVE  DeliveryInv'
<1>1. /\ queue # <<>> /\ Len(wire) < WireCapacity /\ wire' = Append(wire, Head(queue).msg)
      /\ queue' = Tail(queue) /\ over' = over /\ merged' = merged /\ requests' = requests
      /\ live' = live /\ lists' = lists /\ assembly' = assembly /\ broken' = broken
      /\ UNCHANGED <<backendVars, forwarders, generation, active, finished>>
  BY DEF Write, clientVars
<1>2. /\ BackendOK' /\ ForwardersOK' /\ RegistryOK' /\ PermitOK'
      /\ revision' = revision /\ rows' = rows /\ warm' = warm /\ listed' = listed
      /\ active' = active
      /\ \A u \in Watches, a \in AssemblyType : Mid(u, a) => Mid(u, a)'
      /\ \A u \in Watches, l \in ListType : Follows(u, l) => Follows(u, l)'
      /\ BackendOK /\ ForwardersOK /\ QueueOK /\ ClientOK /\ RegistryOK /\ PermitOK /\ Cold
           /\ RequestsOK
  BY <1>1, FrameMoves
<1>3. QueueOK'
  <2>1. queue \in Seq(SlotType) /\ Len(queue) <= Capacity
        /\ \A i \in DOMAIN queue : SlotSound(queue[i])
    BY <1>2 DEF QueueOK
  <2>2. queue' \in Seq(SlotType) /\ Len(queue') = Len(queue) - 1 /\ Len(queue) \in Nat
        /\ \A i \in DOMAIN queue' : i + 1 \in DOMAIN queue /\ queue'[i] = queue[i + 1]
    BY <1>1, <2>1
  <2>3. Len(queue') <= Capacity
    BY <2>1, <2>2, ListBounds
  <2>. QED
    BY <2>1, <2>2, <2>3 DEF QueueOK
<1>4. Outgoing' = Outgoing
  <2>1. wire \in Seq(FrameType) /\ queue \in Seq(SlotType)
    BY <1>2 DEF QueueOK, ClientOK
  <2>. QED
    BY <1>1, <2>1, FlightWritten DEF Outgoing
<1>5. ClientOK'
  <2>1. wire' \in Seq(FrameType) /\ Len(wire') <= WireCapacity
    <3>0. \A s \in SlotType : s.msg \in FrameType
      BY DEF SlotType
    <3>1. Head(queue) \in SlotType
      BY <1>1, <1>2 DEF QueueOK
    <3>2. wire \in Seq(FrameType) /\ Len(wire) \in Nat
      BY <1>2 DEF ClientOK
    <3>. QED
      BY <1>1, <3>0, <3>1, <3>2, ListBounds
  <2>. QED
    BY <1>1, <1>2, <2>1 DEF ClientOK
<1>6. RequestsOK'
  BY <1>1, <1>2 DEF RequestsOK, Asks
<1>7. Cold'
  BY <1>1, <1>2, <1>4, ColdKept
<1>8. StreamsFlow'
  <2> SUFFICES ASSUME ~over', NEW u \in live' PROVE Flows(u)'
    BY DEF StreamsFlow
  <2>1. ~over /\ u \in Watches /\ Flows(u)
    BY <1>1, <1>2 DEF DeliveryInv, StreamsFlow, ClientOK
  <2>2. \A l \in ListType : Caught(u, l) => Caught(u, l)'
    BY <1>1, <1>2, <1>4, <2>1 DEF Caught, Wanted, Resyncing, Asks
  <2>. QED
    BY <1>1, <1>2, <1>4, <2>1, <2>2, FlowStays
<1>. QED
  BY <1>2, <1>3, <1>5, <1>6, <1>7, <1>8 DEF DeliveryInv

(* The requests after the first was served. *)
LEMMA RequestServed ==
  ASSUME requests \in Seq(RequestType), requests # <<>>, requests' = Tail(requests)
  PROVE  /\ requests' \in Seq(RequestType) /\ 1 \in DOMAIN requests
              /\ Head(requests) = requests[1]
         /\ Head(requests).watch \in Watches
         /\ \A i \in DOMAIN requests' : i + 1 \in DOMAIN requests
              /\ requests'[i] = requests[i + 1] /\ i \in Nat
         /\ \A i \in DOMAIN requests : i = 1 \/ (i - 1 \in DOMAIN requests' /\ requests'[i - 1] = requests[i])
         /\ \A i \in DOMAIN requests : i \in Nat
<1>1. requests[1] \in RequestType /\ Head(requests) = requests[1] /\ 1 \in DOMAIN requests
  OBVIOUS
<1>2. requests[1].watch \in Watches
  BY <1>1 DEF RequestType
<1>. QED
  BY <1>1, <1>2

(* A closed window's subscription: what the server has left of it. *)
LEMMA RequestsServed ==
  ASSUME RequestsOK, requests # <<>>, requests' = Tail(requests), live' = live,
         \A u \in Watches : active'[u] # 0 /\ active[u] = 0 => requests[1].op = "subscribe"
         /\ requests[1].watch = u,
         requests[1].op = "unsubscribe" => active'[requests[1].watch] = 0,
         live \subseteq Watches
  PROVE  RequestsOK'
<1>1. /\ requests' \in Seq(RequestType) /\ 1 \in DOMAIN requests
      /\ \A i \in DOMAIN requests' : i + 1 \in DOMAIN requests
           /\ requests'[i] = requests[i + 1] /\ i \in Nat
      /\ \A i \in DOMAIN requests : i = 1 \/ (i - 1 \in DOMAIN requests' /\ requests'[i - 1] = requests[i])
      /\ \A i \in DOMAIN requests : i \in Nat
  BY RequestServed DEF RequestsOK
<1>2. ASSUME NEW u \in live', NEW i \in DOMAIN requests' PROVE ~Asks(i, "unsubscribe", u)'
  BY <1>1 DEF RequestsOK, Asks
<1>3. ASSUME NEW u \in Watches \ live', active'[u] # 0
      PROVE  \E i \in DOMAIN requests' : Asks(i, "unsubscribe", u)'
  <2>1. PICK j \in DOMAIN requests : j # 1 /\ Asks(j, "unsubscribe", u)
    <3>1. CASE active[u] = 0
      <4>1. Asks(1, "subscribe", u)
        BY <1>3, <3>1 DEF Asks
      <4>2. PICK j \in DOMAIN requests : j > 1 /\ Asks(j, "unsubscribe", u)
        BY <1>1, <4>1 DEF RequestsOK
      <4>3. j # 1
        BY <4>2
      <4>. QED
        BY <4>2, <4>3
    <3>2. CASE active[u] # 0
      <4>1. PICK j \in DOMAIN requests : Asks(j, "unsubscribe", u)
        BY <3>2 DEF RequestsOK
      <4>2. j # 1
        BY <1>3, <4>1 DEF Asks
      <4>. QED
        BY <4>1, <4>2
    <3>. QED
      BY <3>1, <3>2
  <2>2. j - 1 \in DOMAIN requests' /\ requests'[j - 1] = requests[j]
    BY <1>1, <2>1
  <2>3. Asks(j - 1, "unsubscribe", u)'
    BY <2>1, <2>2 DEF Asks
  <2>. QED
    BY <2>2, <2>3
<1>4. ASSUME NEW u \in Watches \ live', NEW i \in DOMAIN requests', Asks(i, "subscribe", u)'
      PROVE  \E j \in DOMAIN requests' : j > i /\ Asks(j, "unsubscribe", u)'
  <2>1. i + 1 \in DOMAIN requests /\ Asks(i + 1, "subscribe", u) /\ i \in Nat
    BY <1>1, <1>4 DEF Asks
  <2>2. PICK j \in DOMAIN requests : j > i + 1 /\ Asks(j, "unsubscribe", u)
    BY <2>1 DEF RequestsOK
  <2>3. j \in Nat /\ j # 1 /\ j - 1 > i
    BY <1>1, <2>1, <2>2
  <2>4. j - 1 \in DOMAIN requests' /\ requests'[j - 1] = requests[j]
    BY <1>1, <2>3
  <2>. QED
    BY <2>2, <2>3, <2>4 DEF Asks
<1>. QED
  BY <1>1, <1>2, <1>3, <1>4 DEF RequestsOK

(* One forwarder, h, is told to stop. *)
Told(h) ==
  [g \in Ids |-> IF g = h THEN [forwarders[g] EXCEPT !.cancelled = TRUE] ELSE forwarders[g]]

(* Only the told forwarder differs, in its token. *)
LEMMA CancelShape ==
  ASSUME ForwardersOK, NEW h, NEW F, F = Told(h)
  PROVE  /\ F \in Seq(ForwarderType) /\ Len(F) = Len(forwarders) /\ DOMAIN F = Ids
         /\ \A g \in Ids :
              /\ g # h => F[g] = forwarders[g]
              /\ F[g].cancelled <=> (g = h \/ forwarders[g].cancelled)
              /\ F[g].watch = forwarders[g].watch /\ F[g].gen = forwarders[g].gen
              /\ F[g].pc = forwarders[g].pc /\ F[g].event = forwarders[g].event
              /\ F[g].page = forwarders[g].page /\ F[g].chan = forwarders[g].chan
<1>1. Ids = 1 .. Len(forwarders) /\ Len(forwarders) \in Nat
  BY DEF ForwardersOK, Ids
<1>2. ASSUME NEW g \in Ids
      PROVE  /\ F[g] \in ForwarderType
             /\ g # h => F[g] = forwarders[g]
             /\ F[g].cancelled <=> (g = h \/ forwarders[g].cancelled)
             /\ F[g].watch = forwarders[g].watch /\ F[g].gen = forwarders[g].gen
             /\ F[g].pc = forwarders[g].pc /\ F[g].event = forwarders[g].event
             /\ F[g].page = forwarders[g].page /\ F[g].chan = forwarders[g].chan
  <2> DEFINE r == forwarders[g]
  <2>1. r \in ForwarderType
    BY OneForwarder
  <2>2. F[g] = IF g = h THEN [r EXCEPT !.cancelled = TRUE] ELSE r
    BY DEF Told
  <2> HIDE DEF r
  <2>3. CASE g = h
    <3>1. F[g] = [r EXCEPT !.cancelled = TRUE]
      BY <2>2, <2>3
    <3>2. /\ F[g] \in ForwarderType /\ F[g].cancelled = TRUE
          /\ F[g].watch = r.watch /\ F[g].gen = r.gen /\ F[g].pc = r.pc /\ F[g].event = r.event
          /\ F[g].page = r.page /\ F[g].chan = r.chan
      BY <2>1, <3>1 DEF ForwarderType
    <3>. QED
      BY <2>3, <3>2 DEF r
  <2>4. CASE g # h
    BY <2>1, <2>2, <2>4 DEF r
  <2>. QED
    BY <2>3, <2>4
<1>3. F = [g \in 1 .. Len(forwarders) |-> F[g]]
  BY <1>1 DEF Told
<1>4. F \in Seq(ForwarderType) /\ Len(F) = Len(forwarders) /\ DOMAIN F = Ids
  <2> DEFINE n == Len(forwarders)
  <2>1. n \in Nat /\ F = [g \in 1 .. n |-> F[g]] /\ \A g \in 1 .. n : F[g] \in ForwarderType
    BY <1>1, <1>2, <1>3
  <2> HIDE DEF n
  <2>2. F \in [1 .. n -> ForwarderType]
    BY <2>1
  <2>3. n \in Nat
    BY <2>1
  <2>4. F \in Seq(ForwarderType) /\ Len(F) = n /\ DOMAIN F = 1 .. n
    BY ONLY <2>2, <2>3
  <2>. QED
    BY <1>1, <2>4 DEF n
<1>. QED
  BY <1>2, <1>4

(* An unsubscribe that is served preserves the invariant. *)
LEMMA HandleUnsubscribeKeeps ==
  ASSUME DeliveryInv, HandleUnsubscribe
  PROVE  DeliveryInv'
<1>1. PICK w : w = Head(requests).watch
  OBVIOUS
<1>2. PICK h : h = active[w]
  OBVIOUS
<1>3. PICK F : F = Told(h)
  OBVIOUS
<1>4. /\ requests # <<>> /\ Head(requests).op = "unsubscribe" /\ requests' = Tail(requests)
      /\ forwarders' = F /\ active' = [active EXCEPT ![w] = 0]
      /\ revision' = revision /\ rows' = rows /\ warm' = warm /\ listed' = listed
      /\ generation' = generation /\ finished' = finished /\ queue' = queue /\ wire' = wire
      /\ over' = over /\ merged' = merged /\ live' = live /\ lists' = lists
           /\ assembly' = assembly
      /\ broken' = broken
  BY <1>1, <1>2, <1>3 DEF HandleUnsubscribe, backendVars, Told
<1>5. BackendOK /\ ForwardersOK /\ QueueOK /\ ClientOK /\ RegistryOK /\ PermitOK /\ Cold
      /\ RequestsOK
  BY DEF DeliveryInv
<1>6. /\ F \in Seq(ForwarderType) /\ Len(F) = Len(forwarders) /\ DOMAIN F = Ids
      /\ \A g \in Ids :
           /\ g # h => F[g] = forwarders[g]
           /\ F[g].cancelled <=> (g = h \/ forwarders[g].cancelled)
           /\ F[g].watch = forwarders[g].watch /\ F[g].gen = forwarders[g].gen
           /\ F[g].pc = forwarders[g].pc /\ F[g].event = forwarders[g].event
           /\ F[g].page = forwarders[g].page /\ F[g].chan = forwarders[g].chan
  BY <1>3, <1>5, CancelShape
<1>7. /\ w \in Watches /\ 1 \in DOMAIN requests /\ requests[1].op = "unsubscribe"
           /\ requests[1].watch = w
      /\ w \notin live
      /\ \A i \in DOMAIN requests : i = 1 \/ (i - 1 \in DOMAIN requests' /\ requests'[i - 1] = requests[i])
  <2>1. /\ 1 \in DOMAIN requests /\ Head(requests) = requests[1]
             /\ Head(requests).watch \in Watches
        /\ \A i \in DOMAIN requests : i = 1 \/ (i - 1 \in DOMAIN requests' /\ requests'[i - 1] = requests[i])
    BY <1>4, <1>5, RequestServed DEF RequestsOK
  <2>2. Asks(1, "unsubscribe", w)
    BY <1>1, <1>4, <2>1 DEF Asks
  <2>. QED
    BY <1>1, <1>4, <1>5, <2>1, <2>2 DEF RequestsOK
<1>8. /\ active' \in [Watches -> Nat] /\ active'[w] = 0
      /\ \A u \in Watches : u # w => active'[u] = active[u]
  BY <1>4, <1>5, <1>7 DEF RegistryOK
<1>9. Ids' = Ids
  BY <1>4, <1>6 DEF Ids
<1>10. BackendOK' /\ QueueOK' /\ ClientOK' /\ Outgoing' = Outgoing /\ Cold'
  <2>1. BackendOK' /\ QueueOK' /\ ClientOK' /\ Outgoing' = Outgoing
    BY <1>4, <1>5 DEF BackendOK, QueueOK, ClientOK, Outgoing
  <2>. QED
    BY <1>4, <1>5, <2>1, ColdKept
<1>11. ForwardersOK' /\ PermitOK'
  <2>1. ForwardersOK'
    <3>1. forwarders' \in Seq(ForwarderType) /\ Len(forwarders') = Len(forwarders)
      BY <1>4, <1>6
    <3>2. \A g \in Ids : forwarders'[g].chan = forwarders[g].chan
                      /\ forwarders'[g].watch = forwarders[g].watch
      BY <1>4, <1>6
    <3>. QED
      BY <1>4, <1>5, <1>9, <3>1, <3>2 DEF ForwardersOK
  <2>2. PermitOK'
    <3>1. \A g \in Ids : /\ forwarders'[g].pc = forwarders[g].pc
                         /\ forwarders'[g].event = forwarders[g].event
                         /\ forwarders'[g].page = forwarders[g].page
      BY <1>4, <1>6
    <3>. QED
      BY <1>5, <1>9, <3>1 DEF PermitOK
  <2>. QED
    BY <2>1, <2>2
<1>12. RegistryOK'
  <2>1. Ended' = Ended
    BY <1>4, <1>6, <1>9 DEF Ended
  <2>2. ActiveIsRunning'
    <3> SUFFICES ASSUME NEW g \in Ids, F[g].pc # "done", ~F[g].cancelled
                 PROVE  active'[F[g].watch] = g
      BY <1>4, <1>9 DEF ActiveIsRunning
    <3>1. g # h /\ forwarders[g].pc # "done" /\ ~forwarders[g].cancelled
          /\ F[g].watch = forwarders[g].watch
      BY <1>6
    <3>2. active[forwarders[g].watch] = g /\ forwarders[g].watch \in Watches
      BY <1>5, <3>1, OneForwarder DEF RegistryOK, ActiveIsRunning
    <3>3. forwarders[g].watch # w
      BY <1>2, <3>1, <3>2
    <3>. QED
      BY <1>8, <3>1, <3>2, <3>3
  <2>3. \A u \in Watches : active'[u] # 0 => active'[u] \in Ids'
        /\ forwarders'[active'[u]].watch = u
    BY <1>4, <1>5, <1>6, <1>8, <1>9 DEF RegistryOK
  <2>4. \A g \in Ids' : forwarders'[g].gen <= generation'
    BY <1>4, <1>5, <1>6, <1>9 DEF RegistryOK
  <2>. QED
    BY <1>4, <1>5, <1>8, <2>1, <2>2, <2>3, <2>4 DEF RegistryOK
<1>13. RequestsOK'
  BY <1>4, <1>5, <1>7, <1>8, RequestsServed DEF ClientOK
<1>14. StreamsFlow'
  <2> SUFFICES ASSUME ~over', NEW u \in live' PROVE Flows(u)'
    BY DEF StreamsFlow
  <2>1. ~over /\ u \in Watches /\ Flows(u) /\ u # w
    BY <1>4, <1>5, <1>7 DEF DeliveryInv, StreamsFlow, ClientOK
  <2>2. \A a \in AssemblyType : Mid(u, a) => Mid(u, a)'
    BY <1>4, <1>6, <1>9 DEF Mid, Cancelled
  <2>3. ASSUME NEW l \in ListType, Caught(u, l) PROVE Caught(u, l)'
    <3>1. CASE Follows(u, l)
      <4>1. active[u] \in Ids /\ forwarders[active[u]].watch = u /\ active'[u] = active[u]
        BY <1>8, <2>1, <3>1 DEF Follows, Following
      <4>2. active[u] # h
        <5>1. h = 0 \/ forwarders[h].watch = w
          BY <1>2, <1>5, <1>7 DEF RegistryOK
        <5>2. active[u] # 0
          BY <1>5, <4>1, OneForwarder
        <5>. QED
          BY <2>1, <4>1, <5>1, <5>2
      <4>3. forwarders'[active[u]] = forwarders[active[u]]
        BY <1>4, <1>6, <4>1, <4>2
      <4>4. Follows(u, l)'
        BY <1>4, <1>9, <3>1, <4>1, <4>3 DEF Follows, Following, Cancelled
      <4>. QED
        BY <4>4 DEF Caught
    <3>2. CASE Wanted(u)
      <4>1. PICK i \in DOMAIN requests : Asks(i, "subscribe", u)
        BY <3>2 DEF Wanted
      <4>2. i - 1 \in DOMAIN requests' /\ requests'[i - 1] = requests[i]
        BY <1>7, <4>1 DEF Asks
      <4>3. Wanted(u)'
        BY <4>1, <4>2 DEF Wanted, Asks
      <4>. QED
        BY <4>3 DEF Caught
    <3>. QED
      BY <1>10, <2>3, <3>1, <3>2 DEF Caught, Resyncing
  <2>. QED
    BY <1>4, <1>10, <2>1, <2>2, <2>3, FlowStays
<1>. QED
  BY <1>10, <1>11, <1>12, <1>13, <1>14 DEF DeliveryInv

(* A window that is closed preserves the invariant. *)
LEMMA UnsubscribeKeeps ==
  ASSUME DeliveryInv, NEW w \in Watches, Unsubscribe(w)
  PROVE  DeliveryInv'
<1>1. PICK r : r = [op |-> "unsubscribe", watch |-> w]
  OBVIOUS
<1>2. /\ live' = live \ {w} /\ requests' = Append(requests, r)
      /\ lists' = [lists EXCEPT ![w] = NoList] /\ assembly' = [assembly EXCEPT ![w] = NoAssembly]
      /\ queue' = queue /\ wire' = wire /\ over' = over /\ merged' = merged /\ broken' = broken
      /\ UNCHANGED <<backendVars, forwarders, generation, active, finished>>
  BY <1>1 DEF Unsubscribe, serverVars
<1>3. /\ BackendOK' /\ ForwardersOK' /\ RegistryOK' /\ PermitOK'
      /\ revision' = revision /\ rows' = rows /\ warm' = warm /\ listed' = listed
      /\ active' = active
      /\ \A u \in Watches, a \in AssemblyType : Mid(u, a) => Mid(u, a)'
      /\ \A u \in Watches, l \in ListType : Follows(u, l) => Follows(u, l)'
      /\ BackendOK /\ ForwardersOK /\ QueueOK /\ ClientOK /\ RegistryOK /\ PermitOK /\ Cold
           /\ RequestsOK
  BY <1>2, FrameMoves
<1>4. QueueOK' /\ Outgoing' = Outgoing
  BY <1>2, <1>3 DEF QueueOK, Outgoing
<1>5. /\ lists' \in [Watches -> ListType] /\ assembly' \in [Watches -> AssemblyType]
      /\ lists'[w] = NoList /\ \A u \in Watches : u # w => lists'[u] = lists[u]
           /\ assembly'[u] = assembly[u]
  BY <1>2, <1>3, NothingTypes DEF ClientOK
<1>6. ClientOK'
  BY <1>2, <1>3, <1>5 DEF ClientOK
<1>7. /\ requests' \in Seq(RequestType) /\ Len(requests) \in Nat
      /\ DOMAIN requests = 1 .. Len(requests) /\ DOMAIN requests' = 1 .. Len(requests) + 1
      /\ requests'[Len(requests) + 1] = r
      /\ \A i \in DOMAIN requests : i \in DOMAIN requests' /\ requests'[i] = requests[i]
  <2>1. r \in RequestType
    BY <1>1 DEF RequestType
  <2>. QED
    BY <1>2, <1>3, <2>1 DEF RequestsOK
<1> DEFINE n == Len(requests) + 1
<1>8. /\ n \in DOMAIN requests' /\ requests'[n] = r /\ n \in Nat
      /\ \A i \in DOMAIN requests' : i = n \/ (i \in DOMAIN requests /\ i < n /\ requests'[i] = requests[i])
  BY <1>7
<1> HIDE DEF n
<1>9. RequestsOK'
  <2>1. ASSUME NEW u \in live', NEW i \in DOMAIN requests' PROVE ~Asks(i, "unsubscribe", u)'
    BY <1>1, <1>2, <1>3, <1>8 DEF RequestsOK, Asks
  <2>2. ASSUME NEW u \in Watches \ live', active'[u] # 0
        PROVE  \E i \in DOMAIN requests' : Asks(i, "unsubscribe", u)'
    <3>1. CASE u = w
      BY <1>1, <1>8, <3>1 DEF Asks
    <3>2. CASE u # w
      <4>1. PICK i \in DOMAIN requests : Asks(i, "unsubscribe", u)
        BY <1>2, <1>3, <2>2, <3>2 DEF RequestsOK
      <4>. QED
        BY <1>7, <4>1 DEF Asks
    <3>. QED
      BY <3>1, <3>2
  <2>3. ASSUME NEW u \in Watches \ live', NEW i \in DOMAIN requests', Asks(i, "subscribe", u)'
        PROVE  \E j \in DOMAIN requests' : j > i /\ Asks(j, "unsubscribe", u)'
    <3>1. i \in DOMAIN requests /\ i < n /\ requests'[i] = requests[i] /\ i \in Nat
      BY <1>1, <1>7, <1>8, <2>3 DEF Asks
    <3>2. CASE u = w
      <4>1. n > i /\ requests'[n].op = "unsubscribe" /\ requests'[n].watch = u
        BY <1>1, <1>8, <3>1, <3>2
      <4>. QED
        BY <1>8, <4>1 DEF Asks
    <3>3. CASE u # w
      <4>1. Asks(i, "subscribe", u) /\ u \notin live
        BY <1>2, <2>3, <3>1, <3>3 DEF Asks
      <4>2. PICK j \in DOMAIN requests : j > i /\ Asks(j, "unsubscribe", u)
        BY <1>3, <3>1, <4>1 DEF RequestsOK
      <4>. QED
        BY <1>7, <4>2 DEF Asks
    <3>. QED
      BY <3>2, <3>3
  <2>. QED
    BY <1>7, <2>1, <2>2, <2>3 DEF RequestsOK
<1>10. Cold'
  BY <1>2, <1>3, <1>4, <1>5 DEF Cold
<1>11. StreamsFlow'
  <2> SUFFICES ASSUME ~over', NEW u \in live' PROVE Flows(u)'
    BY DEF StreamsFlow
  <2>1. ~over /\ u \in Watches /\ Flows(u) /\ u # w
    BY <1>2, <1>3 DEF DeliveryInv, StreamsFlow, ClientOK
  <2>2. Wanted(u) => Wanted(u)'
    BY <1>7 DEF Wanted, Asks
  <2>3. \A l \in ListType : Caught(u, l) => Caught(u, l)'
    BY <1>3, <1>4, <2>1, <2>2 DEF Caught, Resyncing
  <2>. QED
    BY <1>2, <1>3, <1>4, <1>5, <2>1, <2>3, FlowStays
<1>. QED
  BY <1>3, <1>4, <1>6, <1>9, <1>10, <1>11 DEF DeliveryInv

(* The client reads a frame. *)
LEMMA FrameRead ==
  ASSUME QueueOK, ClientOK, wire # <<>>, wire' = Tail(wire), queue' = queue
  PROVE  /\ Head(wire) \in FrameType /\ Outgoing \in Seq(FrameType) /\ Outgoing # <<>>
         /\ Head(Outgoing) = Head(wire) /\ Outgoing' = Tail(Outgoing)
         /\ wire' \in Seq(FrameType) /\ Len(wire') <= WireCapacity
         /\ 1 \in 1 .. Len(Outgoing) /\ Outgoing[1] = Head(wire)
         /\ \A i \in 1 .. Len(Outgoing') :
              i + 1 \in 1 .. Len(Outgoing) /\ Outgoing'[i] = Outgoing[i + 1]
         /\ \A i \in 1 .. Len(Outgoing) :
              i = 1 \/ (i - 1 \in 1 .. Len(Outgoing') /\ Outgoing'[i - 1] = Outgoing[i])
<1>1. wire \in Seq(FrameType) /\ queue \in Seq(SlotType) /\ Len(wire) <= WireCapacity
  BY DEF QueueOK, ClientOK
<1>2. /\ Outgoing # <<>> /\ Head(Outgoing) = Head(wire)
      /\ Flight(Tail(wire), queue) = Tail(Outgoing)
  BY <1>1, FlightTaken DEF Outgoing
<1>3. Outgoing \in Seq(FrameType) /\ Outgoing' = Tail(Outgoing)
  BY <1>1, <1>2, FlightTypes DEF Outgoing
<1>4. Head(wire) \in FrameType /\ wire' \in Seq(FrameType) /\ Len(wire') <= WireCapacity
  BY <1>1, ListBounds
<1> DEFINE T == Outgoing
<1>5. /\ T \in Seq(FrameType) /\ T # <<>>
  BY <1>2, <1>3
<1> HIDE DEF T
<1>6. /\ 1 \in 1 .. Len(T) /\ T[1] = Head(T)
      /\ \A i \in 1 .. Len(Tail(T)) : i + 1 \in 1 .. Len(T) /\ Tail(T)[i] = T[i + 1]
      /\ \A i \in 1 .. Len(T) : i = 1 \/ (i - 1 \in 1 .. Len(Tail(T)) /\ Tail(T)[i - 1] = T[i])
  BY <1>5
<1>. QED
  BY <1>2, <1>3, <1>4, <1>6 DEF T

(* What a frame of a live list makes of it, and of no other. *)
LEMMA FrameApplied ==
  ASSUME ClientOK, Apply, NEW m \in FrameType, m = Head(wire),
         NEW w \in Watches, w = m.watch, w \in live => Accepts(assembly[w], m, w)
  PROVE  /\ broken' = broken
         /\ lists' = IF w \in live THEN [lists EXCEPT ![w] = Listed(lists[w], assembly[w], m, w)]
                     ELSE lists
         /\ assembly' = IF w \in live THEN [assembly EXCEPT ![w] = Assembled(assembly[w], m, w)]
                        ELSE assembly
<1>1. /\ m.kind # "resync"
      /\ m.kind \in {"subscribed", "begin", "chunk", "end", "changed", "gone"}
      /\ lists \in [Watches -> ListType] /\ assembly \in [Watches -> AssemblyType]
  BY DEF Apply, FrameType, ClientOK
<1>2. CASE w \notin live
  BY <1>2 DEF Apply
<1>3. CASE w \in live /\ m.kind = "subscribed"
  <2>1. UNCHANGED <<lists, assembly, broken>>
    BY <1>3 DEF Apply
  <2>2. Assembled(assembly[w], m, w) = assembly[w]
        /\ Listed(lists[w], assembly[w], m, w) = lists[w]
    BY <1>3 DEF Assembled, Listed
  <2>. QED
    BY <1>1, <1>3, <2>1, <2>2
<1>4. CASE w \in live /\ m.kind = "begin"
  <2>1. ApplyBegin(m)
    BY <1>4 DEF Apply
  <2>2. /\ Assembled(assembly[w], m, w) = [NoAssembly EXCEPT !.total = m.page]
        /\ Listed(lists[w], assembly[w], m, w) = lists[w]
    BY <1>4 DEF Assembled, Listed
  <2>. QED
    BY <1>1, <1>4, <2>1, <2>2 DEF ApplyBegin
<1>5. CASE w \in live /\ m.kind = "chunk"
  <2>1. ApplyChunk(m)
    BY <1>5 DEF Apply
  <2>2. Listed(lists[w], assembly[w], m, w) = lists[w]
    BY <1>5 DEF Listed
  <2>3. CASE assembly[w] = NoAssembly
    <3>1. Assembled(assembly[w], m, w) = assembly[w]
      BY <1>5, <2>3 DEF Assembled
    <3>2. UNCHANGED <<lists, assembly, broken>>
      BY <2>1, <2>3 DEF ApplyChunk
    <3>. QED
      BY <1>1, <1>5, <2>2, <3>1, <3>2
  <2>4. CASE assembly[w] # NoAssembly
    <3> DEFINE a == assembly[w]
    <3>1. m.page = a.got /\ a.got < a.total
      BY <1>5, <2>4 DEF Accepts
    <3>2. a \in AssemblyType
      BY <1>1
    <3>3. ~(a.got >= a.total)
      BY <3>1, <3>2, ListBounds DEF AssemblyType, PageIndex
    <3>4. PICK b : b = [a EXCEPT !.got = @ + 1, !.rev = m.rev,
                  !.rows = [k \in Keys |-> IF m.rows[k] # 0 THEN m.rows[k] ELSE @[k]]]
      OBVIOUS
    <3>5. assembly' = [assembly EXCEPT ![w] = b] /\ lists' = lists /\ broken' = broken
      BY <2>1, <2>4, <3>1, <3>3, <3>4 DEF ApplyChunk
    <3>6. Assembled(a, m, w) = b
      BY <1>5, <2>4, <3>4 DEF Assembled
    <3>. QED
      BY <1>1, <1>5, <2>2, <3>5, <3>6
  <2>. QED
    BY <2>3, <2>4
<1>6. CASE w \in live /\ m.kind = "end"
  <2>1. ApplyEnd(m)
    BY <1>6 DEF Apply
  <2>2. assembly[w] # NoAssembly /\ assembly[w].got = assembly[w].total
    BY <1>6 DEF Accepts
  <2>3. /\ Assembled(assembly[w], m, w) = NoAssembly
        /\ Listed(lists[w], assembly[w], m, w) = [rev |-> assembly[w].rev, rows |-> assembly[w].rows]
    BY <1>6 DEF Assembled, Listed
  <2>. QED
    BY <1>6, <2>1, <2>2, <2>3 DEF ApplyEnd
<1>7. CASE w \in live /\ m.kind \in {"changed", "gone"}
  <2>1. ApplyDelta(m)
    BY <1>7 DEF Apply
  <2>2. /\ Assembled(assembly[w], m, w) = assembly[w]
        /\ Listed(lists[w], assembly[w], m, w) =
             Newer(lists[w], m.key, m.rev, IF m.kind = "changed" THEN m.rev ELSE 0)
    BY <1>7 DEF Assembled, Listed
  <2>3. UNCHANGED <<assembly, broken>>
    BY <2>1 DEF ApplyDelta
  <2>4. lists' = [lists EXCEPT ![w] = Newer(lists[w], m.key, m.rev, IF m.kind = "changed" THEN m.rev ELSE 0)]
    <3>1. CASE lists[w].rev # 0 /\ m.rev > lists[w].rev
      BY <2>1, <3>1 DEF ApplyDelta, Newer
    <3>2. CASE ~(lists[w].rev # 0 /\ m.rev > lists[w].rev)
      BY <1>1, <2>1, <3>2 DEF ApplyDelta, Newer
    <3>. QED
      BY <3>1, <3>2
  <2>5. assembly' = [assembly EXCEPT ![w] = assembly[w]]
    BY <1>1, <2>3
  <2>6. lists' = [lists EXCEPT ![w] = Listed(lists[w], assembly[w], m, w)]
    BY <2>2, <2>4
  <2>7. assembly' = [assembly EXCEPT ![w] = Assembled(assembly[w], m, w)]
    BY <2>2, <2>5
  <2>. QED
    BY <1>7, <2>3, <2>6, <2>7
<1>. QED
  BY <1>1, <1>2, <1>3, <1>4, <1>5, <1>6, <1>7

(* A frame that the client applies preserves the invariant. *)
LEMMA ApplyKeeps ==
  ASSUME DeliveryInv, Apply
  PROVE  DeliveryInv'
<1>1. PICK m : m = Head(wire)
  OBVIOUS
<1>2. /\ ~over /\ wire # <<>> /\ m.kind # "resync" /\ wire' = Tail(wire) /\ queue' = queue
      /\ over' = over /\ merged' = merged /\ requests' = requests /\ live' = live
      /\ UNCHANGED <<backendVars, forwarders, generation, active, finished>>
  BY <1>1 DEF Apply, Running, serverVars
<1>3. /\ BackendOK' /\ ForwardersOK' /\ RegistryOK' /\ PermitOK'
      /\ revision' = revision /\ rows' = rows /\ warm' = warm /\ listed' = listed
      /\ active' = active
      /\ \A u \in Watches, a \in AssemblyType : Mid(u, a) => Mid(u, a)'
      /\ \A u \in Watches, l \in ListType : Follows(u, l) => Follows(u, l)'
      /\ BackendOK /\ ForwardersOK /\ QueueOK /\ ClientOK /\ RegistryOK /\ PermitOK /\ Cold
           /\ RequestsOK
  BY <1>2, FrameMoves
<1>4. /\ m \in FrameType /\ Outgoing \in Seq(FrameType) /\ Outgoing # <<>>
      /\ Head(Outgoing) = m /\ Outgoing' = Tail(Outgoing)
      /\ wire' \in Seq(FrameType) /\ Len(wire') <= WireCapacity
      /\ 1 \in 1 .. Len(Outgoing) /\ Outgoing[1] = m
      /\ \A i \in 1 .. Len(Outgoing') :
           i + 1 \in 1 .. Len(Outgoing) /\ Outgoing'[i] = Outgoing[i + 1]
      /\ \A i \in 1 .. Len(Outgoing) :
           i = 1 \/ (i - 1 \in 1 .. Len(Outgoing') /\ Outgoing'[i - 1] = Outgoing[i])
  BY <1>1, <1>2, <1>3, FrameRead
<1>5. PICK w \in Watches : w = m.watch
  BY <1>4 DEF FrameType
<1>6. ASSUME NEW u \in live PROVE u \in Watches /\ Flows(u) /\ Accepts(assembly[u], m, u)
  BY <1>2, <1>3, <1>4, FlowAccepts DEF DeliveryInv, StreamsFlow, ClientOK
<1>7. /\ broken' = broken
      /\ lists' = IF w \in live THEN [lists EXCEPT ![w] = Listed(lists[w], assembly[w], m, w)]
                  ELSE lists
      /\ assembly' = IF w \in live THEN [assembly EXCEPT ![w] = Assembled(assembly[w], m, w)]
                     ELSE assembly
  BY <1>1, <1>3, <1>4, <1>5, <1>6, FrameApplied
<1>8. lists \in [Watches -> ListType] /\ assembly \in [Watches -> AssemblyType]
  BY <1>3 DEF ClientOK
<1>9. lists' \in [Watches -> ListType] /\ assembly' \in [Watches -> AssemblyType]
  <2>1. CASE w \in live
    <3>1. Accepts(assembly[w], m, w) /\ lists[w] \in ListType /\ assembly[w] \in AssemblyType
      BY <1>6, <1>8, <2>1
    <3>2. Listed(lists[w], assembly[w], m, w) \in ListType
          /\ Assembled(assembly[w], m, w) \in AssemblyType
      BY <1>4, <3>1, AssembledTypes, ListedTypes
    <3>. QED
      BY <1>7, <1>8, <2>1, <3>2
  <2>. QED
    BY <1>7, <1>8, <2>1
<1>10. ASSUME NEW u \in live
       PROVE  assembly'[u] = Assembled(assembly[u], m, u)
              /\ lists'[u] = Listed(lists[u], assembly[u], m, u)
  <2>0. u \in Watches
    BY <1>6
  <2>1. CASE u = w
    BY <1>7, <1>8, <2>0, <2>1
  <2>2. CASE u # w
    <3>1. assembly'[u] = assembly[u] /\ lists'[u] = lists[u]
      BY <1>7, <1>8, <2>0, <2>2
    <3>. QED
      BY <1>2, <1>5, <2>2, <3>1, OtherFrame
  <2>. QED
    BY <2>1, <2>2
<1>11. QueueOK' /\ ClientOK' /\ RequestsOK'
  <2>1. QueueOK' /\ ClientOK'
    BY <1>2, <1>3, <1>4, <1>7, <1>9 DEF QueueOK, ClientOK
  <2>2. RequestsOK'
    BY <1>2, <1>3 DEF RequestsOK, Asks
  <2>. QED
    BY <2>1, <2>2
<1>12. Cold'
  <2> SUFFICES ASSUME NEW u \in Watches \ warm
               PROVE  /\ rows[u] = NoRows /\ lists'[u] = NoList
                      /\ \A i \in 1 .. Len(Outgoing') : Outgoing'[i].watch # u
    BY <1>3 DEF Cold
  <2>1. rows[u] = NoRows /\ lists[u] = NoList
        /\ \A i \in 1 .. Len(Outgoing) : Outgoing[i].watch # u
    BY <1>3 DEF Cold
  <2>2. u # w
    BY <1>4, <1>5, <2>1
  <2>3. lists'[u] = lists[u]
    BY <1>7, <1>8, <2>2
  <2>. QED
    BY <1>4, <2>1, <2>3
<1>13. StreamsFlow'
  <2> SUFFICES ASSUME NEW u \in live' PROVE Flows(u)'
    BY DEF StreamsFlow
  <2>1. u \in live /\ u \in Watches /\ Flows(u)
    BY <1>2, <1>6
  <2>2. Resyncing => Resyncing'
    BY <1>2, <1>4 DEF Resyncing
  <2>3. Wanted(u) => Wanted(u)'
    BY <1>2 DEF Wanted, Asks
  <2>4. \A l \in ListType : Caught(u, l) => Caught(u, l)'
    BY <1>3, <2>1, <2>2, <2>3 DEF Caught
  <2>5. \A a \in AssemblyType : Mid(u, a) => Mid(u, a)'
    BY <1>3, <2>1
  <2>6. /\ assembly'[u] = Assembled(assembly[u], Head(Outgoing), u)
        /\ lists'[u] = Listed(lists[u], assembly[u], Head(Outgoing), u)
    BY <1>4, <1>10, <2>1
  <2>. QED
    BY <1>2, <1>4, <2>1, <2>4, <2>5, <2>6, FlowShrinks
<1>. QED
  BY <1>3, <1>11, <1>12, <1>13 DEF DeliveryInv

(* A recovery barrier that the client obeys preserves the invariant. *)
LEMMA RebuildKeeps ==
  ASSUME DeliveryInv, Rebuild
  PROVE  DeliveryInv'
<1>1. PICK m : m = Head(wire)
  OBVIOUS
<1>2. /\ ~over /\ wire # <<>> /\ m.kind = "resync" /\ wire' = Tail(wire) /\ queue' = queue
      /\ over' = over /\ merged' = merged /\ live' = live /\ broken' = broken
      /\ lists' = [u \in Watches |-> NoList] /\ assembly' = [u \in Watches |-> NoAssembly]
      /\ UNCHANGED <<backendVars, forwarders, generation, active, finished>>
  BY <1>1 DEF Rebuild, Running, serverVars
<1>3. /\ BackendOK' /\ ForwardersOK' /\ RegistryOK' /\ PermitOK'
      /\ revision' = revision /\ rows' = rows /\ warm' = warm /\ listed' = listed
      /\ active' = active
      /\ \A u \in Watches, a \in AssemblyType : Mid(u, a) => Mid(u, a)'
      /\ \A u \in Watches, l \in ListType : Follows(u, l) => Follows(u, l)'
      /\ BackendOK /\ ForwardersOK /\ QueueOK /\ ClientOK /\ RegistryOK /\ PermitOK /\ Cold
           /\ RequestsOK
  BY <1>2, FrameMoves
<1>4. /\ m \in FrameType /\ Outgoing \in Seq(FrameType) /\ Outgoing # <<>>
      /\ Head(Outgoing) = m /\ Outgoing' = Tail(Outgoing)
      /\ wire' \in Seq(FrameType) /\ Len(wire') <= WireCapacity
      /\ \A i \in 1 .. Len(Outgoing') :
           i + 1 \in 1 .. Len(Outgoing) /\ Outgoing'[i] = Outgoing[i + 1]
  BY <1>1, <1>2, <1>3, FrameRead
<1>5. QueueOK' /\ ClientOK' /\ Cold'
  <2>1. lists' \in [Watches -> ListType] /\ assembly' \in [Watches -> AssemblyType]
    BY <1>2, NothingTypes
  <2>2. QueueOK' /\ ClientOK'
    BY <1>2, <1>3, <1>4, <2>1 DEF QueueOK, ClientOK
  <2>. QED
    BY <1>2, <1>3, <1>4, <2>2 DEF Cold
<1>6. PICK s \in SetToSeqs(live) :
        requests' = requests \o [i \in DOMAIN s |-> [op |-> "subscribe", watch |-> s[i]]]
  BY DEF Rebuild
<1>7. PICK n : n = Cardinality(live)
  OBVIOUS
<1>8. /\ n \in Nat /\ s \in [1 .. n -> live] /\ live \subseteq Watches
      /\ \A u \in live : \E j \in 1 .. n : s[j] = u
  <2>1. live \subseteq Watches /\ IsFiniteSet(live)
    BY <1>3, ListBounds, FS_Subset DEF ClientOK
  <2>2. /\ s \in [1 .. Cardinality(live) -> live] /\ Cardinality(live) \in Nat
        /\ \A u \in live : \E j \in 1 .. Cardinality(live) : s[j] = u
    BY <1>6, <2>1, Permutes
  <2>. QED
    BY <1>7, <2>1, <2>2
<1> DEFINE q == [i \in 1 .. n |-> [op |-> "subscribe", watch |-> s[i]]]
<1>9. /\ q \in Seq(RequestType) /\ Len(q) = n /\ requests' = requests \o q
      /\ \A i \in 1 .. n : q[i].op = "subscribe" /\ q[i].watch \in live
      /\ \A u \in live : \E j \in 1 .. n : q[j].watch = u
  <2>1. \A i \in 1 .. n : q[i] \in RequestType
    BY <1>8 DEF RequestType
  <2>2. \A i \in 1 .. n : q[i].op = "subscribe" /\ q[i].watch = s[i]
    OBVIOUS
  <2>3. requests' = requests \o q
    BY <1>6, <1>8
  <2>4. q \in [1 .. n -> RequestType]
    BY <2>1
  <2> HIDE DEF q
  <2>5. n \in Nat
    BY <1>8
  <2>6. q \in Seq(RequestType) /\ Len(q) = n
    BY ONLY <2>4, <2>5
  <2>7. \A i \in 1 .. n : s[i] \in live
    BY <1>8
  <2>8. \A i \in 1 .. n : q[i].op = "subscribe" /\ q[i].watch \in live
    BY <2>2, <2>7
  <2>9. \A u \in live : \E j \in 1 .. n : q[j].watch = u
    BY <1>8, <2>2
  <2>. QED
    BY <2>3, <2>6, <2>8, <2>9
<1> HIDE DEF q
<1>10. /\ requests' \in Seq(RequestType) /\ Len(requests) \in Nat
       /\ \A i \in DOMAIN requests : i \in DOMAIN requests' /\ requests'[i] = requests[i]
       /\ \A j \in 1 .. n : Len(requests) + j \in DOMAIN requests'
            /\ requests'[Len(requests) + j] = q[j]
       /\ \A i \in DOMAIN requests' :
            i \in DOMAIN requests \/ (i - Len(requests) \in 1 .. n /\ requests'[i] = q[i - Len(requests)])
  <2>1. requests \in Seq(RequestType)
    BY <1>3 DEF RequestsOK
  <2>2. n \in Nat /\ requests' = requests \o q /\ q \in Seq(RequestType) /\ Len(q) = n
    BY <1>8, <1>9
  <2>. QED
    BY ONLY <2>1, <2>2
<1>11. RequestsOK'
  <2>1. ASSUME NEW u \in live, NEW i \in DOMAIN requests' PROVE ~Asks(i, "unsubscribe", u)'
    BY <1>3, <1>9, <1>10 DEF RequestsOK, Asks
  <2>2. ASSUME NEW u \in Watches \ live, active[u] # 0
        PROVE  \E i \in DOMAIN requests' : Asks(i, "unsubscribe", u)'
    <3>1. PICK i \in DOMAIN requests : Asks(i, "unsubscribe", u)
      BY <1>3, <2>2 DEF RequestsOK
    <3>. QED
      BY <1>10, <3>1 DEF Asks
  <2>3. ASSUME NEW u \in Watches \ live, NEW i \in DOMAIN requests', Asks(i, "subscribe", u)'
        PROVE  \E j \in DOMAIN requests' : j > i /\ Asks(j, "unsubscribe", u)'
    <3>1. i \in DOMAIN requests /\ requests'[i] = requests[i]
      BY <1>9, <1>10, <2>3 DEF Asks
    <3>2. PICK j \in DOMAIN requests : j > i /\ Asks(j, "unsubscribe", u)
      BY <1>3, <2>3, <3>1 DEF RequestsOK, Asks
    <3>. QED
      BY <1>10, <3>2 DEF Asks
  <2>. QED
    BY <1>2, <1>3, <1>10, <2>1, <2>2, <2>3 DEF RequestsOK
<1>12. StreamsFlow'
  <2> SUFFICES ASSUME NEW u \in live' PROVE Flows(u)'
    BY DEF StreamsFlow
  <2>1. ~over /\ u \in live /\ u \in Watches /\ Flows(u)
    BY <1>2, <1>3 DEF DeliveryInv, StreamsFlow, ClientOK
  <2>2. Wanted(u)'
    <3>1. PICK j \in 1 .. n : q[j].watch = u
      BY <1>9, <2>1
    <3>2. Len(requests) + j \in DOMAIN requests' /\ requests'[Len(requests) + j] = q[j]
      BY <1>10
    <3>3. PICK i \in DOMAIN requests' : requests'[i] = q[j]
      BY <3>2
    <3>4. requests'[i].op = "subscribe" /\ requests'[i].watch = u
      BY <1>9, <3>1, <3>3
    <3>. QED
      BY <3>4 DEF Wanted, Asks
  <2>4. \A l \in ListType : Caught(u, l) => Caught(u, l)'
    BY <2>2 DEF Caught
  <2>5. \A a \in AssemblyType : Mid(u, a) => Mid(u, a)'
    BY <1>3, <2>1
  <2>6. /\ assembly'[u] = Assembled(assembly[u], Head(Outgoing), u)
        /\ lists'[u] = Listed(lists[u], assembly[u], Head(Outgoing), u)
    BY <1>2, <1>4, <2>1 DEF Assembled, Listed
  <2>. QED
    BY <1>2, <1>4, <2>1, <2>4, <2>5, <2>6, FlowShrinks
<1>. QED
  BY <1>3, <1>5, <1>11, <1>12 DEF DeliveryInv

(* A forwarder that waits for its first event. *)
LEMMA NewForwarder ==
  ASSUME generation \in Nat, NEW w \in Watches, NEW f, f = Forwarder(w)
  PROVE  /\ f \in ForwarderType /\ f.watch = w /\ f.gen = generation /\ f.pc = "recv"
         /\ f.chan = <<>> /\ Len(f.chan) <= ChannelCapacity /\ ~f.cancelled
<1>1. NoEvent \in EventType /\ 0 \in PageIndex /\ 0 <= ChannelCapacity
  BY NothingTypes, ListBounds DEF PageIndex
<1>2. <<>> \in Seq(ChanType) /\ Len(<<>>) = 0
  OBVIOUS
<1>. QED
  BY <1>1, <1>2 DEF Forwarder, ForwarderType

(* A selection without its first list has an empty one to deliver. *)
LEMMA DeliversNothing ==
  ASSUME NEW g, g.chan = <<>>, g.pc = "recv", NEW l \in ListType, NEW rev, l.rev <= rev, NEW served, ~served
  PROVE  Delivers(g, l, l.rows, rev, served)
<1> DEFINE ev == [i \in 0 .. 0 |-> l]
<1>1. ev \in [0 .. 0 -> ListType] /\ ev[0] = l
  OBVIOUS
<1> HIDE DEF ev
<1>2. Len(g.chan) = 0 /\ 1 .. 0 = {}
  OBVIOUS
<1>3. Base(g, l) = l
  BY DEF Base
<1>. QED
  BY <1>1, <1>2, <1>3 DEF Delivers, Reaches

(* A forwarder more, the registered one of its subscription. *)
LEMMA JoinKeeps ==
  ASSUME ForwardersOK, RegistryOK, PermitOK, Len(forwarders) < MaxForwarders, NEW w \in Watches,
         NEW n, n = Len(forwarders) + 1,
         forwarders' \in Seq(ForwarderType), Len(forwarders') = n,
         \A g \in Ids :
            /\ forwarders'[g].watch = forwarders[g].watch
                 /\ forwarders'[g].gen = forwarders[g].gen
            /\ forwarders'[g].pc = forwarders[g].pc /\ forwarders'[g].event = forwarders[g].event
            /\ forwarders'[g].page = forwarders[g].page
            /\ forwarders'[g].cancelled <=> (g = active[w] \/ forwarders[g].cancelled)
            /\ Len(forwarders'[g].chan) <= ChannelCapacity,
         forwarders'[n].watch = w, forwarders'[n].gen = generation, forwarders'[n].pc = "recv",
         ~forwarders'[n].cancelled, Len(forwarders'[n].chan) <= ChannelCapacity,
         warm' = warm \cup {w}, active' = [active EXCEPT ![w] = n],
         finished' = finished, generation' = generation
  PROVE  /\ ForwardersOK' /\ RegistryOK' /\ PermitOK' /\ n \in Nat \ {0} /\ n \notin Ids
              /\ n \in Ids'
         /\ Ids' = Ids \cup {n}
         /\ active'[w] = n /\ \A u \in Watches : u # w => active'[u] = active[u]
         /\ \A u \in Watches, a \in AssemblyType : Mid(u, a) => Mid(u, a)'
<1>1. /\ Ids = 1 .. Len(forwarders) /\ Len(forwarders) \in Nat /\ Ids' = 1 .. n
      /\ n \in Nat \ {0} /\ n \notin Ids /\ n \in Ids' /\ Ids' = Ids \cup {n}
           /\ n <= MaxForwarders
  <2>1. Ids = 1 .. Len(forwarders) /\ Len(forwarders) \in Nat
    BY DEF Ids, ForwardersOK
  <2>2. Ids' = 1 .. n
    BY DEF Ids
  <2>. QED
    BY <2>1, <2>2, ListBounds
<1>2. ForwardersOK'
  <2>1. \A g \in Ids' : Len(forwarders'[g].chan) <= ChannelCapacity
        /\ forwarders'[g].watch \in warm'
    BY <1>1 DEF ForwardersOK
  <2>. QED
    BY <1>1, <2>1 DEF ForwardersOK
<1>3. /\ active' \in [Watches -> Nat] /\ active'[w] = n
      /\ \A u \in Watches : u # w => active'[u] = active[u]
  BY <1>1 DEF RegistryOK
<1>4. RegistryOK'
  <2>1. \A u \in Watches : active'[u] # 0 => active'[u] \in Ids'
        /\ forwarders'[active'[u]].watch = u
    BY <1>1, <1>3 DEF RegistryOK
  <2>2. ActiveIsRunning'
    <3> SUFFICES ASSUME NEW g \in Ids', forwarders'[g].pc # "done", ~forwarders'[g].cancelled
                 PROVE  active'[forwarders'[g].watch] = g
      BY DEF ActiveIsRunning
    <3>1. CASE g = n
      BY <1>3, <3>1
    <3>2. CASE g # n
      <4>1. g \in Ids /\ g # active[w] /\ forwarders[g].pc # "done" /\ ~forwarders[g].cancelled
            /\ forwarders'[g].watch = forwarders[g].watch
        BY <1>1, <3>2
      <4>2. active[forwarders[g].watch] = g /\ forwarders[g].watch \in Watches
        BY <4>1, OneForwarder DEF RegistryOK, ActiveIsRunning
      <4>3. forwarders[g].watch # w
        BY <4>1, <4>2
      <4>. QED
        BY <1>3, <4>1, <4>2, <4>3
    <3>. QED
      BY <3>1, <3>2
  <2>3. Ended' = Ended
    BY <1>1 DEF Ended
  <2>4. \A g \in Ids' : forwarders'[g].gen <= generation'
    BY <1>1 DEF RegistryOK
  <2>. QED
    BY <1>3, <2>1, <2>2, <2>3, <2>4 DEF RegistryOK
<1>5. PermitOK'
  <2>1. ASSUME NEW g \in Ids', forwarders'[g].pc = "page"
        PROVE  /\ g \in Ids /\ forwarders[g].pc = "page"
                    /\ forwarders'[g].page = forwarders[g].page
               /\ forwarders'[g].event = forwarders[g].event
    BY <1>1, <2>1
  <2>. QED
    BY <2>1 DEF PermitOK
<1>6. \A u \in Watches, a \in AssemblyType : Mid(u, a) => Mid(u, a)'
  BY <1>1 DEF Mid, Cancelled
<1>. QED
  BY <1>1, <1>2, <1>3, <1>4, <1>5, <1>6

(* What a subscription leaves of the forwarders. *)
LEMMA JoinShape ==
  ASSUME BackendOK, ForwardersOK, RegistryOK, Len(forwarders) < MaxForwarders, NEW w \in Watches,
         NEW n, n = Len(forwarders) + 1,
         \/ w \in warm /\ WarmJoin(Told(active[w]), Forwarder(w), w)
         \/ w \notin warm /\ ColdJoin(Told(active[w]), Forwarder(w)),
         rows' = rows
  PROVE  /\ forwarders' \in Seq(ForwarderType) /\ Len(forwarders') = n
         /\ \A g \in Ids :
              /\ forwarders'[g].watch = forwarders[g].watch
                   /\ forwarders'[g].gen = forwarders[g].gen
              /\ forwarders'[g].pc = forwarders[g].pc
                   /\ forwarders'[g].event = forwarders[g].event
              /\ forwarders'[g].page = forwarders[g].page
              /\ forwarders'[g].cancelled <=> (g = active[w] \/ forwarders[g].cancelled)
              /\ Len(forwarders'[g].chan) <= ChannelCapacity
              /\ forwarders[g].watch # w => forwarders'[g] = forwarders[g]
         /\ forwarders'[n].watch = w /\ forwarders'[n].gen = generation
              /\ forwarders'[n].pc = "recv"
         /\ ~forwarders'[n].cancelled /\ Len(forwarders'[n].chan) <= ChannelCapacity
         /\ revision' \in 0 .. MaxRevision /\ revision <= revision' /\ revision \in Nat
              /\ revision' \in Nat
         /\ w \in warm => \A l \in ListType : Delivers(forwarders'[n], l, rows[w], revision', w \in listed)
         /\ w \notin warm => forwarders'[n].chan = <<>>
<1>1. PICK h : h = active[w]
  OBVIOUS
<1>2. PICK R : R = Told(h)
  OBVIOUS
<1>3. /\ R \in Seq(ForwarderType) /\ Len(R) = Len(forwarders) /\ DOMAIN R = Ids
      /\ \A g \in Ids :
           /\ g # h => R[g] = forwarders[g]
           /\ R[g].cancelled <=> (g = h \/ forwarders[g].cancelled)
           /\ R[g].watch = forwarders[g].watch /\ R[g].gen = forwarders[g].gen
           /\ R[g].pc = forwarders[g].pc /\ R[g].event = forwarders[g].event
           /\ R[g].page = forwarders[g].page /\ R[g].chan = forwarders[g].chan
  BY <1>2, CancelShape
<1>4. PICK f : f = Forwarder(w)
  OBVIOUS
<1>5. /\ f \in ForwarderType /\ f.watch = w /\ f.gen = generation /\ f.pc = "recv"
      /\ f.chan = <<>> /\ Len(f.chan) <= ChannelCapacity /\ ~f.cancelled
  BY <1>4, NewForwarder DEF RegistryOK
<1>6. PICK P : P = Append(R, f)
  OBVIOUS
<1>7. /\ P \in Seq(ForwarderType) /\ Len(P) = n /\ DOMAIN P = 1 .. n /\ P[n] = f /\ n \in Nat
      /\ n \in 1 .. n
      /\ \A g \in Ids : P[g] = R[g] /\ g \in 1 .. n
      /\ \A g \in 1 .. n : g = n \/ g \in Ids
  <2>1. Ids = 1 .. Len(forwarders) /\ Len(forwarders) \in Nat
    BY DEF Ids, ForwardersOK
  <2>. QED
    BY <1>3, <1>5, <1>6, <2>1
<1>8. \A g \in Ids : forwarders[g].watch # w => g # h
  <2>1. h = 0 \/ (h \in Ids /\ forwarders[h].watch = w)
    BY <1>1 DEF RegistryOK
  <2>2. \A g \in Ids : g # 0
    BY OneForwarder
  <2>. QED
    BY <2>1, <2>2
<1>9. \A g \in 1 .. n : Len(P[g].chan) <= ChannelCapacity
  <2>1. \A g \in Ids : P[g].chan = forwarders[g].chan
                    /\ Len(forwarders[g].chan) <= ChannelCapacity
    BY <1>3, <1>7 DEF ForwardersOK
  <2>2. Len(P[n].chan) <= ChannelCapacity
    BY <1>5, <1>7
  <2>. QED
    BY <1>7, <2>1, <2>2
<1>10. revision \in 0 .. MaxRevision /\ revision \in Nat
  BY ListBounds DEF BackendOK
<1>11. CASE w \notin warm
  <2>1. forwarders' = P /\ revision' = revision
    BY <1>1, <1>2, <1>4, <1>6, <1>11 DEF ColdJoin
  <2>2. \A g \in Ids : Len(P[g].chan) <= ChannelCapacity
    BY <1>7, <1>9
  <2>. QED
    BY <1>1, <1>3, <1>5, <1>7, <1>8, <1>10, <1>11, <2>1, <2>2
<1>12. CASE w \in warm
  <2>1. PICK e : e = Event("snapshot", NoKey, revision', rows[w])
    OBVIOUS
  <2>2. NextRevision /\ forwarders' = Broadcast(P, w, e)
    BY <1>1, <1>2, <1>4, <1>6, <1>12, <2>1 DEF WarmJoin, CurrentRows
  <2>3. revision' = revision + 1 /\ revision' \in 0 .. MaxRevision /\ revision' # 0
    BY <2>2, RevisionStep
  <2>4. e \in ChanType /\ e.kind = "snapshot" /\ e.rev = revision' /\ e.rows = rows[w]
    <3>1. rows[w] \in Rows
      BY DEF BackendOK
    <3>. QED
      BY <2>1, <2>3, <3>1 DEF Event, ChanType, EventType, Whole
  <2>5. PICK F : F = Broadcast(P, w, e)
    OBVIOUS
  <2>6. /\ F \in Seq(ForwarderType) /\ Len(F) = Len(P) /\ DOMAIN F = DOMAIN P
        /\ \A g \in DOMAIN P :
             /\ Kin(F[g], P[g]) /\ Len(F[g].chan) <= ChannelCapacity
             /\ P[g].watch = w /\ P[g].pc # "done" => F[g] = Offer(P[g], e)
             /\ P[g].watch # w => F[g] = P[g]
    BY <1>7, <1>9, <2>4, <2>5, BroadcastShape
  <2>7. forwarders' = F
    BY <2>2, <2>5
  <2>8. ASSUME NEW g \in Ids
        PROVE  /\ F[g].watch = forwarders[g].watch /\ F[g].gen = forwarders[g].gen
               /\ F[g].pc = forwarders[g].pc /\ F[g].event = forwarders[g].event
               /\ F[g].page = forwarders[g].page
               /\ F[g].cancelled <=> (g = active[w] \/ forwarders[g].cancelled)
               /\ Len(F[g].chan) <= ChannelCapacity
               /\ forwarders[g].watch # w => F[g] = forwarders[g]
    <3>1. P[g] = R[g] /\ g \in DOMAIN P
      BY <1>7
    <3>2. Kin(F[g], R[g]) /\ Len(F[g].chan) <= ChannelCapacity /\ (R[g].watch # w => F[g] = R[g])
      BY <2>6, <3>1
    <3>. QED
      BY <1>1, <1>3, <1>8, <3>2 DEF Kin
  <2>9. Kin(F[n], f) /\ Len(F[n].chan) <= ChannelCapacity /\ F[n] = Offer(f, e)
    BY <1>5, <1>7, <2>6
  <2>10. ASSUME NEW l \in ListType PROVE Delivers(F[n], l, rows[w], revision', w \in listed)
    <3>1. Delivers(Offer(f, e), l, e.rows, e.rev, w \in listed)
      BY <1>5, <2>3, <2>4, DeliversFirst
    <3>. QED
      BY <2>4, <2>9, <3>1
  <2>11. revision <= revision' /\ revision' \in Nat
    BY <1>10, <2>3
  <2>12. F[n].watch = w /\ F[n].gen = generation /\ F[n].pc = "recv" /\ ~F[n].cancelled
    BY <1>5, <2>9 DEF Kin
  <2>. QED
    BY <1>7, <1>10, <1>12, <2>3, <2>6, <2>7, <2>8, <2>9, <2>10, <2>11, <2>12
<1>. QED
  BY <1>11, <1>12

(* A subscription, warm or cold, preserves the invariant. *)
LEMMA SubscribeKeeps ==
  ASSUME DeliveryInv, Subscribe
  PROVE  DeliveryInv'
<1>1. PICK w : w = Head(requests).watch
  OBVIOUS
<1>2. PICK n : n = Len(forwarders) + 1
  OBVIOUS
<1>3. PICK m : m = FrameOf("subscribed", w, NoEvent, 0)
  OBVIOUS
<1>4. /\ ~over /\ requests # <<>> /\ Head(requests).op = "subscribe" /\ requests' = Tail(requests)
      /\ Len(forwarders) < MaxForwarders /\ warm' = warm \cup {w}
      /\ active' = [active EXCEPT ![w] = n] /\ Admit(<<m>>)
      /\ rows' = rows /\ listed' = listed /\ generation' = generation /\ finished' = finished
      /\ wire' = wire /\ live' = live /\ lists' = lists /\ assembly' = assembly
      /\ broken' = broken /\ merged' = merged
      /\ \/ w \in warm /\ WarmJoin(Told(active[w]), Forwarder(w), w)
         \/ w \notin warm /\ ColdJoin(Told(active[w]), Forwarder(w))
  BY <1>1, <1>2, <1>3 DEF Subscribe, Running, Told
<1>5. BackendOK /\ ForwardersOK /\ QueueOK /\ ClientOK /\ RegistryOK /\ PermitOK /\ Cold
      /\ RequestsOK
  BY DEF DeliveryInv
<1>6. /\ w \in Watches /\ 1 \in DOMAIN requests /\ requests[1].op = "subscribe"
           /\ requests[1].watch = w
      /\ \A i \in DOMAIN requests : i = 1 \/ (i - 1 \in DOMAIN requests' /\ requests'[i - 1] = requests[i])
  <2>1. /\ 1 \in DOMAIN requests /\ Head(requests) = requests[1]
             /\ Head(requests).watch \in Watches
        /\ \A i \in DOMAIN requests : i = 1 \/ (i - 1 \in DOMAIN requests' /\ requests'[i - 1] = requests[i])
    BY <1>4, <1>5, RequestServed DEF RequestsOK
  <2>. QED
    BY <1>1, <1>4, <2>1
<1>7. /\ forwarders' \in Seq(ForwarderType) /\ Len(forwarders') = n
      /\ \A g \in Ids :
           /\ forwarders'[g].watch = forwarders[g].watch /\ forwarders'[g].gen = forwarders[g].gen
           /\ forwarders'[g].pc = forwarders[g].pc /\ forwarders'[g].event = forwarders[g].event
           /\ forwarders'[g].page = forwarders[g].page
           /\ forwarders'[g].cancelled <=> (g = active[w] \/ forwarders[g].cancelled)
           /\ Len(forwarders'[g].chan) <= ChannelCapacity
           /\ forwarders[g].watch # w => forwarders'[g] = forwarders[g]
      /\ forwarders'[n].watch = w /\ forwarders'[n].gen = generation /\ forwarders'[n].pc = "recv"
      /\ ~forwarders'[n].cancelled /\ Len(forwarders'[n].chan) <= ChannelCapacity
      /\ revision' \in 0 .. MaxRevision /\ revision <= revision' /\ revision \in Nat
           /\ revision' \in Nat
      /\ w \in warm => \A l \in ListType : Delivers(forwarders'[n], l, rows[w], revision', w \in listed)
      /\ w \notin warm => forwarders'[n].chan = <<>>
  BY <1>2, <1>4, <1>5, <1>6, JoinShape
<1>8. /\ ForwardersOK' /\ RegistryOK' /\ PermitOK' /\ n \in Nat \ {0} /\ n \notin Ids
           /\ n \in Ids'
      /\ Ids' = Ids \cup {n}
      /\ active'[w] = n /\ \A u \in Watches : u # w => active'[u] = active[u]
      /\ \A u \in Watches, a \in AssemblyType : Mid(u, a) => Mid(u, a)'
  <2>1. \A g \in Ids :
           /\ forwarders'[g].watch = forwarders[g].watch /\ forwarders'[g].gen = forwarders[g].gen
           /\ forwarders'[g].pc = forwarders[g].pc /\ forwarders'[g].event = forwarders[g].event
           /\ forwarders'[g].page = forwarders[g].page
           /\ forwarders'[g].cancelled <=> (g = active[w] \/ forwarders[g].cancelled)
           /\ Len(forwarders'[g].chan) <= ChannelCapacity
    BY <1>7
  <2>2. /\ forwarders' \in Seq(ForwarderType) /\ Len(forwarders') = n
        /\ forwarders'[n].watch = w /\ forwarders'[n].gen = generation
             /\ forwarders'[n].pc = "recv"
        /\ ~forwarders'[n].cancelled /\ Len(forwarders'[n].chan) <= ChannelCapacity
    BY <1>7
  <2>3. /\ Len(forwarders) < MaxForwarders /\ w \in Watches /\ warm' = warm \cup {w}
        /\ active' = [active EXCEPT ![w] = n] /\ finished' = finished /\ generation' = generation
    BY <1>4, <1>6
  <2>. QED
    BY <1>2, <1>5, <2>1, <2>2, <2>3, JoinKeeps
<1>9. m \in FrameType /\ m.kind = "subscribed" /\ m.watch = w
  BY <1>3, <1>6, NothingTypes, ListBounds, FrameTypes DEF PageIndex
<1>10. /\ QueueOK' /\ over' \in BOOLEAN /\ Outgoing \in Seq(FrameType)
       /\ \/ over' = TRUE /\ Outgoing' = Outgoing
          \/ over' = over /\ Pushed(Outgoing', Outgoing, m)
  BY <1>4, <1>5, <1>9, AdmitsOne, OutgoingTypes
<1>11. BackendOK' /\ ClientOK'
  BY <1>4, <1>5, <1>6, <1>7, <1>10 DEF BackendOK, ClientOK
<1>12. Cold'
  <2> SUFFICES ASSUME NEW u \in Watches \ warm'
               PROVE  /\ rows[u] = NoRows /\ lists[u] = NoList
                      /\ \A i \in 1 .. Len(Outgoing') : Outgoing'[i].watch # u
    BY <1>4 DEF Cold
  <2>1. /\ u # w /\ rows[u] = NoRows /\ lists[u] = NoList
        /\ \A i \in 1 .. Len(Outgoing) : Outgoing[i].watch # u
    BY <1>4, <1>5 DEF Cold
  <2>2. CASE Outgoing' = Outgoing
    BY <2>1, <2>2
  <2>3. CASE Pushed(Outgoing', Outgoing, m)
    <3>1. \A i \in 1 .. Len(Outgoing') :
            Outgoing'[i] = m \/ (i \in 1 .. Len(Outgoing) /\ Outgoing'[i] = Outgoing[i])
      BY <1>10, <2>3 DEF Pushed
    <3>. QED
      BY <1>9, <2>1, <3>1
  <2>. QED
    BY <1>10, <2>2, <2>3
<1>13. RequestsOK'
  <2>1. \A u \in Watches : active'[u] # 0 /\ active[u] = 0 => requests[1].op = "subscribe"
        /\ requests[1].watch = u
    BY <1>6, <1>8
  <2>2. requests[1].op # "unsubscribe"
    BY <1>6
  <2>3. live \subseteq Watches
    BY <1>5 DEF ClientOK
  <2>. QED
    BY <1>4, <1>5, <2>1, <2>2, <2>3, RequestsServed
<1>14. \A u, a, l : Accepts(a, m, u) /\ Assembled(a, m, u) = a /\ Listed(l, a, m, u) = l
  BY <1>9 DEF Accepts, Assembled, Listed
<1>15. StreamsFlow'
  <2> SUFFICES ASSUME ~over', NEW u \in live' PROVE Flows(u)'
    BY DEF StreamsFlow
  <2>1. ~over /\ u \in Watches /\ Flows(u) /\ Pushed(Outgoing', Outgoing, m)
    BY <1>4, <1>5, <1>10 DEF DeliveryInv, StreamsFlow, ClientOK
  <2>2. \A a \in AssemblyType : Mid(u, a) => Accepts(a, m, u) /\ Mid(u, Assembled(a, m, u))'
    BY <1>8, <1>14, <2>1
  <2>3. CASE u # w
    <3>1. ASSUME NEW l \in ListType, Caught(u, l) PROVE Caught(u, l)'
      <4>1. CASE Follows(u, l)
        <5>1. Following(u) /\ active[u] \in Ids /\ forwarders[active[u]].watch = u
              /\ Delivers(forwarders[active[u]], l, rows[u], revision, u \in listed)
          BY <4>1 DEF Follows, Following
        <5>2. active'[u] = active[u] /\ forwarders'[active[u]] = forwarders[active[u]]
          BY <1>7, <1>8, <2>1, <2>3, <5>1
        <5>3. Following(u)'
          BY <1>4, <1>8, <5>1, <5>2 DEF Following, Cancelled
        <5>4. forwarders[active[u]].chan \in Seq(ChanType)
          BY <1>5, <5>1, OneForwarder
        <5>5. Delivers(forwarders[active[u]], l, rows[u], revision', u \in listed)
          BY <1>7, <5>1, <5>4, DeliversSame
        <5>6. Follows(u, l)'
          BY <1>4, <5>2, <5>3, <5>5 DEF Follows
        <5>. QED
          BY <5>6 DEF Caught
      <4>2. CASE Wanted(u)
        <5>1. PICK i \in DOMAIN requests : Asks(i, "subscribe", u)
          BY <4>2 DEF Wanted
        <5>2. i - 1 \in DOMAIN requests' /\ requests'[i - 1] = requests[i]
          BY <1>6, <2>3, <5>1 DEF Asks
        <5>3. Wanted(u)'
          BY <5>1, <5>2 DEF Wanted, Asks
        <5>. QED
          BY <5>3 DEF Caught
      <4>3. CASE Resyncing
        <5>1. Resyncing'
          BY <1>10, <2>1, <4>3 DEF Resyncing, Pushed
        <5>. QED
          BY <5>1 DEF Caught
      <4>. QED
        BY <3>1, <4>1, <4>2, <4>3 DEF Caught
    <3>2. \A a \in AssemblyType, l \in ListType : Mid(u, a)
          /\ Caught(u, l) => Caught(u, Listed(l, a, m, u))'
      BY <1>14, <3>1
    <3>. QED
      BY <1>4, <1>9, <1>10, <2>1, <2>2, <3>2, FlowGrows
  <2>4. CASE u = w
    <3>1. Following(w)'
      <4>1. ~Cancelled(n)'
        BY <1>4, <1>5, <1>7 DEF Cancelled, RegistryOK
      <4>. QED
        BY <1>7, <1>8, <4>1 DEF Following
    <3>2. CASE w \in warm
      <4>1. ASSUME NEW l \in ListType PROVE Caught(w, l)'
        <5>1. Delivers(forwarders'[n], l, rows[w], revision', w \in listed)
          BY <1>7, <3>2
        <5>2. Follows(w, l)'
          BY <1>4, <1>8, <3>1, <5>1 DEF Follows
        <5>. QED
          BY <5>2 DEF Caught
      <4>2. \A a \in AssemblyType, l \in ListType : Mid(u, a)
            /\ Caught(u, l) => Caught(u, Listed(l, a, m, u))'
        BY <1>14, <2>4, <4>1
      <4>. QED
        BY <1>4, <1>9, <1>10, <2>1, <2>2, <4>2, FlowGrows
    <3>3. CASE w \notin warm
      <4>1. /\ rows[w] = NoRows /\ lists[w] = NoList /\ w \notin listed
            /\ \A i \in 1 .. Len(Outgoing) : Outgoing[i].watch # w
        BY <1>5, <1>6, <3>3 DEF Cold, BackendOK
      <4>2. PICK a \in AssemblyType, l \in ListType :
              Runs(Outgoing, w, assembly[w], lists[w], a, l, merged) /\ Mid(w, a)
        BY <2>1, <2>4 DEF Flows
      <4>3. Runs(Outgoing, w, assembly[w], NoList, a, NoList, merged)
        BY <1>10, <4>1, <4>2, RunsCold
      <4>4. Runs(Outgoing', w, assembly[w], NoList, a, NoList, merged)
        <5>1. Runs(Outgoing', w, assembly[w], NoList, Assembled(a, m, w), Listed(NoList, a, m, w), merged)
          BY <1>9, <1>10, <1>14, <2>1, <4>3, RunsOn
        <5>2. Assembled(a, m, w) = a /\ Listed(NoList, a, m, w) = NoList
          BY <1>14
        <5>. QED
          BY <5>1, <5>2
      <4>5. Delivers(forwarders'[n], NoList, rows[w], revision', w \in listed)
        <5>1. NoList \in ListType /\ NoList.rev <= revision' /\ NoList.rows = rows[w]
          BY <1>7, <4>1, NothingTypes DEF NoList
        <5>2. ~(w \in listed)
          BY <4>1
        <5>3. forwarders'[n].chan = <<>> /\ forwarders'[n].pc = "recv"
          BY <1>7, <3>3
        <5>4. Delivers(forwarders'[n], NoList, NoList.rows, revision', w \in listed)
          BY <5>1, <5>2, <5>3, DeliversNothing
        <5>. QED
          BY <5>1, <5>4
      <4>6. Caught(w, NoList)'
        <5>1. Follows(w, NoList)'
          BY <1>4, <1>8, <3>1, <4>5 DEF Follows
        <5>. QED
          BY <5>1 DEF Caught
      <4>7. Mid(w, a)'
        BY <1>6, <1>8, <4>2
      <4>8. assembly' = assembly /\ lists'[w] = NoList /\ merged' = merged /\ NoList \in ListType
        BY <1>4, <4>1, NothingTypes
      <4>9. Runs(Outgoing', w, assembly'[w], lists'[w], a, NoList, merged')
        BY <4>4, <4>8
      <4>10. Flows(w)'
        BY <4>6, <4>7, <4>8, <4>9 DEF Flows
      <4>. QED
        BY <2>4, <4>10
    <3>. QED
      BY <3>2, <3>3
  <2>. QED
    BY <2>3, <2>4
<1>. QED
  BY <1>8, <1>10, <1>11, <1>12, <1>13, <1>15 DEF DeliveryInv

(* A session that opens. *)
LEMMA OpeningFlows ==
  ASSUME Init
  PROVE  DeliveryInv
<1>1. /\ revision = 0 /\ rows = [w \in Watches |-> NoRows] /\ warm = {} /\ listed = {}
      /\ forwarders = <<>> /\ generation = 0 /\ active = [w \in Watches |-> 0] /\ finished = {}
      /\ queue = <<>> /\ wire = <<>> /\ live = Watches
      /\ lists = [w \in Watches |-> NoList] /\ assembly = [w \in Watches |-> NoAssembly]
      /\ over = FALSE /\ broken = FALSE /\ merged = FALSE
  BY DEF Init, Opening
<1>2. PICK s \in SetToSeqs(Watches) : requests = [i \in DOMAIN s |-> [op |-> "subscribe", watch |-> s[i]]]
  BY DEF Init, Opening
<1>3. PICK n : n = Cardinality(Watches)
  OBVIOUS
<1>4. /\ n \in Nat /\ s \in [1 .. n -> Watches]
      /\ \A u \in Watches : \E j \in 1 .. n : s[j] = u
  BY <1>2, <1>3, Permutes, ListBounds
<1>5. /\ requests \in Seq(RequestType) /\ DOMAIN requests = 1 .. n
      /\ \A i \in 1 .. n : requests[i].op = "subscribe" /\ requests[i].watch = s[i]
  <2>1. requests = [i \in 1 .. n |-> [op |-> "subscribe", watch |-> s[i]]]
    BY <1>2, <1>4
  <2>2. \A i \in 1 .. n : requests[i].op = "subscribe" /\ requests[i].watch = s[i]
        /\ requests[i] \in RequestType
    BY <1>4, <2>1 DEF RequestType
  <2>3. requests \in [1 .. n -> RequestType]
    BY <2>1, <2>2
  <2>4. requests \in Seq(RequestType)
    BY <1>4, <2>3
  <2>. QED
    BY <2>1, <2>2, <2>4
<1>6. Len(<<>>) = 0 /\ DOMAIN <<>> = {} /\ 1 .. 0 = {}
  OBVIOUS
<1>7. Ids = {} /\ Ended = {}
  BY <1>1, <1>6 DEF Ids, Ended
<1>8. Outgoing = <<>>
  <2>1. Messages(<<>>) = <<>>
    BY <1>6 DEF Messages
  <2>. QED
    BY <1>1, <2>1 DEF Outgoing, Flight
<1>9. BackendOK /\ ForwardersOK /\ QueueOK /\ ClientOK
  <2>1. BackendOK
    BY <1>1, NothingTypes, ListBounds DEF BackendOK
  <2>2. ForwardersOK
    BY <1>1, <1>6, <1>7, ListBounds DEF ForwardersOK
  <2>3. QueueOK
    BY <1>1, <1>6, ListBounds DEF QueueOK
  <2>4. ClientOK
    <3>1. lists \in [Watches -> ListType] /\ assembly \in [Watches -> AssemblyType]
      BY <1>1, NothingTypes
    <3>2. wire \in Seq(FrameType) /\ Len(wire) <= WireCapacity
      BY <1>1, <1>6, ListBounds
    <3>. QED
      BY <1>1, <3>1, <3>2 DEF ClientOK
  <2>. QED
    BY <2>1, <2>2, <2>3, <2>4
<1>10. RegistryOK
  <2>1. Cardinality(Ended) = 0
    BY <1>7, FS_EmptySet
  <2>. QED
    BY <1>1, <1>7, <2>1 DEF RegistryOK, ActiveIsRunning
<1>11. PermitOK /\ Cold
  BY <1>1, <1>6, <1>7, <1>8 DEF PermitOK, Cold
<1>12. RequestsOK
  BY <1>1, <1>5 DEF RequestsOK, Asks
<1>13. StreamsFlow
  <2> SUFFICES ASSUME NEW u \in Watches PROVE Flows(u)
    BY <1>1 DEF StreamsFlow
  <2>1. Runs(Outgoing, u, assembly[u], lists[u], NoAssembly, NoList, merged)
    BY <1>1, <1>8, NothingTypes, RunsEmpty
  <2>2. Mid(u, NoAssembly)
    BY <1>7 DEF Mid
  <2>3. Wanted(u)
    BY <1>4, <1>5 DEF Wanted, Asks
  <2>. QED
    BY <2>1, <2>2, <2>3, NothingTypes DEF Flows, Caught
<1>. QED
  BY <1>9, <1>10, <1>11, <1>12, <1>13 DEF DeliveryInv

(* So does every step. *)
LEMMA DeliveryStep ==
  ASSUME DeliveryInv, [Next]_vars
  PROVE  DeliveryInv'
<1>1. CASE UNCHANGED vars
  <2>1. /\ UNCHANGED <<backendVars, forwarders, generation, active, finished>>
        /\ queue' = queue /\ wire' = wire /\ over' = over /\ merged' = merged
             /\ requests' = requests
        /\ live' = live /\ lists' = lists /\ assembly' = assembly /\ broken' = broken
    BY <1>1 DEF vars, backendVars
  <2>2. /\ BackendOK' /\ ForwardersOK' /\ RegistryOK' /\ PermitOK'
        /\ revision' = revision /\ rows' = rows /\ warm' = warm /\ active' = active
        /\ \A u \in Watches, a \in AssemblyType : Mid(u, a) => Mid(u, a)'
        /\ \A u \in Watches, l \in ListType : Follows(u, l) => Follows(u, l)'
        /\ QueueOK /\ ClientOK /\ Cold /\ RequestsOK
    BY <2>1, FrameMoves
  <2>3. QueueOK' /\ ClientOK' /\ Outgoing' = Outgoing
    BY <2>1, <2>2 DEF QueueOK, ClientOK, Outgoing
  <2>4. Cold' /\ RequestsOK'
    BY <2>1, <2>2, <2>3 DEF Cold, RequestsOK, Asks
  <2>5. StreamsFlow'
    <3> SUFFICES ASSUME ~over', NEW u \in live' PROVE Flows(u)'
      BY DEF StreamsFlow
    <3>1. u \in Watches /\ Flows(u)
      BY <2>1, <2>2 DEF DeliveryInv, StreamsFlow, ClientOK
    <3>2. \A l \in ListType : Caught(u, l) => Caught(u, l)'
      BY <2>1, <2>2, <2>3, <3>1 DEF Caught, Resyncing, Wanted, Asks
    <3>. QED
      BY <2>1, <2>2, <2>3, <3>1, <3>2, FlowStays
  <2>. QED
    BY <2>2, <2>3, <2>4, <2>5 DEF DeliveryInv
<1>2. CASE \E w \in Watches : ApplyList(w) \/ Unsubscribe(w)
  BY <1>2, ApplyListKeeps, UnsubscribeKeeps
<1>3. CASE \E w \in Watches, k \in Keys : ApplyUpsert(w, k) \/ ApplyDelete(w, k)
  BY <1>3, ApplyDeltaKeeps
<1>4. CASE Subscribe
  BY <1>4, SubscribeKeeps
<1>5. CASE HandleUnsubscribe
  BY <1>5, HandleUnsubscribeKeeps
<1>6. ASSUME NEW f \in Ids, Forward(f) PROVE DeliveryInv'
  <2>1. CASE Reap(f) \/ Stop(f) \/ Lag(f)
    BY <2>1, ReapKeeps, StopKeeps, LagKeeps
  <2>2. CASE TakeSnapshot(f) \/ BeginSnapshot(f) \/ SendPage(f)
    BY <2>2, TakeKeeps, BeginKeeps, SendPageKeeps
  <2>3. CASE ForwardDelta(f)
    BY <2>3, ForwardDeltaKeeps
  <2>. QED
    BY <1>6, <2>1, <2>2, <2>3 DEF Forward
<1>7. CASE Write \/ Apply \/ Rebuild
  BY <1>7, WriteKeeps, ApplyKeeps, RebuildKeeps
<1>. QED
  BY <1>1, <1>2, <1>3, <1>4, <1>5, <1>6, <1>7 DEF Next

(* What the invariant says of the shape of every variable. *)
LEMMA DeliveryTypes ==
  ASSUME DeliveryInv
  PROVE  TypeOK
<1>1. BackendOK /\ ForwardersOK /\ QueueOK /\ ClientOK /\ RegistryOK /\ RequestsOK
  BY DEF DeliveryInv
<1>2. Ids = 1 .. Len(forwarders) /\ Len(forwarders) \in Nat /\ Len(forwarders) <= MaxForwarders
  BY <1>1 DEF ForwardersOK, Ids
<1>3. generation \in 0 .. MaxForwarders
  <2>1. IsFiniteSet(Ids) /\ Cardinality(Ids) = Len(forwarders)
    <3>1. PICK n \in Nat : n = Len(forwarders)
      BY <1>2
    <3>2. IsFiniteSet(1 .. n) /\ Cardinality(1 .. n) = n
      BY FS_Interval
    <3>. QED
      BY <1>2, <3>1, <3>2
  <2>2. Cardinality(Ended) \in Nat /\ Cardinality(Ended) <= Cardinality(Ids)
    BY <2>1, FS_Subset, FS_CardinalityType DEF Ended
  <2>. QED
    BY <1>1, <1>2, <2>1, <2>2, ListBounds DEF RegistryOK
<1>4. active \in [Watches -> 0 .. MaxForwarders]
  <2>1. active \in [Watches -> Nat] /\ \A w \in Watches : active[w] # 0 => active[w] \in Ids
    BY <1>1 DEF RegistryOK
  <2>2. \A w \in Watches : active[w] \in 0 .. MaxForwarders
    BY <1>2, <2>1, ListBounds
  <2>. QED
    BY <2>1, <2>2
<1>5. ASSUME NEW f \in Ids
      PROVE  /\ forwarders[f].watch \in Watches
             /\ forwarders[f].gen \in 0 .. generation
             /\ forwarders[f].pc \in {"recv", "permit", "page", "done"}
             /\ forwarders[f].page \in PageIndex
             /\ forwarders[f].chan \in Seq(EventType)
                  /\ Len(forwarders[f].chan) <= ChannelCapacity
             /\ forwarders[f].event \in EventType
             /\ forwarders[f].lagged \in BOOLEAN /\ forwarders[f].cancelled \in BOOLEAN
  <2>1. /\ forwarders[f] \in ForwarderType /\ forwarders[f].chan \in Seq(ChanType)
        /\ forwarders[f].watch \in Watches /\ forwarders[f].event \in EventType
        /\ forwarders[f].gen \in Nat /\ forwarders[f].page \in PageIndex
        /\ forwarders[f].lagged \in BOOLEAN /\ forwarders[f].cancelled \in BOOLEAN
    BY <1>1, OneForwarder
  <2>2. forwarders[f].pc \in {"recv", "permit", "page", "done"}
    BY <2>1 DEF ForwarderType
  <2>3. forwarders[f].gen <= generation /\ Len(forwarders[f].chan) <= ChannelCapacity
    BY <1>1 DEF RegistryOK, ForwardersOK
  <2>4. generation \in Nat
    BY <1>1 DEF RegistryOK
  <2>5. ChanType \subseteq EventType
    BY DEF ChanType
  <2>. QED
    BY <2>1, <2>2, <2>3, <2>4, <2>5
<1>6. finished \subseteq Ids
  BY <1>1 DEF RegistryOK, Ended
<1>7. \A i \in DOMAIN queue :
        queue[i].identity \in Identities \cup {NoIdentity, Barrier} /\ queue[i].msg \in FrameType
  <2>1. \A i \in DOMAIN queue : queue[i] \in SlotType
    BY <1>1 DEF QueueOK
  <2>2. \A s \in SlotType : s.identity \in Identities \cup {NoIdentity, Barrier}
        /\ s.msg \in FrameType
    BY DEF SlotType
  <2>. QED
    BY <2>1, <2>2
<1>8. requests \in Seq([op : {"subscribe", "unsubscribe"}, watch : Watches])
  BY <1>1 DEF RequestsOK, RequestType
<1>9. /\ lists \in [Watches -> [rev : 0 .. MaxRevision, rows : Rows]]
      /\ assembly \in [Watches -> [total : PageIndex, got : PageIndex, rev : 0 .. MaxRevision,
                                   rows : Rows]]
  BY <1>1 DEF ClientOK, ListType, AssemblyType
<1>10. /\ revision \in 0 .. MaxRevision /\ rows \in [Watches -> Rows]
       /\ listed \subseteq warm /\ warm \subseteq Watches
       /\ Len(queue) <= Capacity /\ wire \in Seq(FrameType) /\ Len(wire) <= WireCapacity
       /\ live \subseteq Watches /\ over \in BOOLEAN /\ broken \in BOOLEAN /\ merged \in BOOLEAN
  BY <1>1 DEF BackendOK, QueueOK, ClientOK
<1>. QED
  BY <1>2, <1>3, <1>4, <1>5, <1>6, <1>7, <1>8, <1>9, <1>10 DEF TypeOK

(* What it says of a session at rest. *)
LEMMA DeliveryRests ==
  ASSUME DeliveryInv
  PROVE  SubscriptionsConsistent /\ ConvergesUnlessMerged
<1>1. ForwardersOK /\ QueueOK /\ ClientOK /\ RegistryOK /\ RequestsOK /\ StreamsFlow
  BY DEF DeliveryInv
<1>2. DOMAIN <<>> = {} /\ Len(<<>>) = 0 /\ 1 .. 0 = {}
  OBVIOUS
<1>3. NoOrphan
  <2> SUFFICES ASSUME Quiescent, NEW f \in Ids, Waiting(f) PROVE forwarders[f].watch \in live
    BY DEF NoOrphan
  <2>1. /\ requests = <<>> /\ forwarders[f].pc # "done" /\ ~Cancelled(f)
    BY DEF Quiescent, Waiting
  <2>2. active[forwarders[f].watch] = f /\ forwarders[f].watch \in Watches
    BY <1>1, <2>1, RunsActive
  <2>3. f # 0
    BY <1>1, OneForwarder
  <2>. QED
    BY <1>1, <1>2, <2>1, <2>2, <2>3 DEF RequestsOK
<1>4. ConvergesUnlessMerged
  <2> SUFFICES ASSUME Running, Quiescent, ~merged, NEW w \in live PROVE lists[w].rows = rows[w]
    BY DEF ConvergesUnlessMerged, UpToDate
  <2>1. /\ ~over /\ requests = <<>> /\ queue = <<>> /\ wire = <<>> /\ merged = FALSE
             /\ w \in Watches
    BY <1>1 DEF Running, Quiescent, ClientOK
  <2>2. Outgoing = <<>>
    <3>1. Messages(<<>>) = <<>>
      BY <1>2 DEF Messages
    <3>. QED
      BY <2>1, <3>1 DEF Outgoing, Flight
  <2>3. PICK a \in AssemblyType, l \in ListType :
          Runs(Outgoing, w, assembly[w], lists[w], a, l, merged) /\ Caught(w, l)
    BY <1>1, <2>1 DEF StreamsFlow, Flows
  <2>4. l = lists[w]
    BY <2>1, <2>2, <2>3, RunsNothing
  <2>5. ~Wanted(w) /\ ~Resyncing
    BY <1>2, <2>1, <2>2 DEF Wanted, Resyncing
  <2>6. Follows(w, l)
    BY <2>3, <2>5 DEF Caught
  <2> DEFINE f == active[w]
  <2>7. /\ f \in Ids /\ forwarders[f].pc # "done"
        /\ Delivers(forwarders[f], l, rows[w], revision, w \in listed)
    BY <2>6 DEF Follows, Following
  <2>8. forwarders[f].pc = "recv" /\ forwarders[f].chan = <<>> /\ ~forwarders[f].lagged
    BY <2>7 DEF Quiescent, Waiting
  <2>9. Base(forwarders[f], l) = l
    BY <2>8 DEF Base
  <2>10. PICK ev \in [0 .. 0 -> ListType] : ev[0] = l
              /\ Reaches(ev[0], rows[w], revision, w \in listed)
    BY <1>2, <2>7, <2>8, <2>9 DEF Delivers
  <2>. QED
    BY <2>4, <2>10 DEF Reaches
<1>. QED
  BY <1>1, <1>3, <1>4 DEF SubscriptionsConsistent, RegistryOK

(* The invariant holds always. *)
LEMMA SessionsFlow == Spec => []DeliveryInv
<1>1. Init => DeliveryInv
  BY OpeningFlows
<1>2. DeliveryInv /\ [Next]_vars => DeliveryInv'
  BY DeliveryStep
<1>. QED
  BY <1>1, <1>2, PTL DEF Spec

(* Every variable keeps its shape, and the queue, the wire and each receiver *)
(* keep their bounds.                                                        *)
THEOREM DeliveryTypeCorrect == Spec => []TypeOK
<1>1. DeliveryInv => TypeOK
  BY DeliveryTypes
<1>. QED
  BY <1>1, SessionsFlow, PTL

(* The registry names the forwarder of each subscription that still runs, so *)
(* an unsubscribe reaches it; at rest none waits for a closed window.        *)
THEOREM SubscriptionsStayConsistent == Spec => []SubscriptionsConsistent
<1>1. DeliveryInv => SubscriptionsConsistent
  BY DeliveryRests
<1>. QED
  BY <1>1, SessionsFlow, PTL

(* Whatever cancels, replaces or overtakes a snapshot, the client never      *)
(* meets a chunk out of order or the end of one it has not got.              *)
THEOREM SnapshotsAlwaysReassemble == Spec => []SnapshotsReassemble
<1>1. DeliveryInv => SnapshotsReassemble
  BY DEF DeliveryInv, ClientOK, SnapshotsReassemble
<1>. QED
  BY <1>1, SessionsFlow, PTL

(* Once everything is at rest, each list that no coalesced delta touched is  *)
(* the cluster's.                                                            *)
THEOREM ListsConverge == Spec => []ConvergesUnlessMerged
<1>1. DeliveryInv => ConvergesUnlessMerged
  BY DeliveryRests
<1>. QED
  BY <1>1, SessionsFlow, PTL

---------------------------------------------------------------------------
(* The windows of the workspace *)

(* The windows after a command: well-formed, and none above the counter. *)
WindowsOK(ws, next) ==
  /\ ws \in [WindowIds -> Window] /\ next \in 1..(MaxWindows + 1)
  /\ \A w \in WindowIds : w >= next => ws[w] = NoWindow

(* The part of the invariant about edits, over the variables it reads. *)
Owned(ws, owner) ==
  /\ owner \in [Resources -> WindowIds \cup {0}]
  /\ \A r \in Resources, w \in WindowIds : owner[r] = w <=> ws[w].dirty /\ ws[w].shows = r

ParkedOK(ws, p) ==
  /\ p \in [for : Navigation, blockers : SUBSET WindowIds]
  /\ p # NotParked => p.blockers = BlockersOf(p.for, ws) /\ p.blockers # {}

LateOK(ws, sw, l) ==
  /\ sw \in Switch /\ l \subseteq WindowIds
  /\ sw # NoSwitch => DirtyIn(ws) \subseteq l

(* What is left: the places and the flags. *)
PlacesOK ==
  /\ {place, selected, serverAt} \subseteq Places
  /\ layouts \in [Places -> Layout \cup {NoLayout}]
  /\ {failedSwitch, bootstrap} \subseteq Places \cup {NoPlace}
  /\ {linked, dead} \subseteq BOOLEAN

(* The invariant of the runs, taken apart by what the actions change. *)
LEMMA SoundParts ==
  WorkspaceSound <=>
    WindowsOK(windows, nextId) /\ Owned(windows, yamlOwner) /\ ParkedOK(windows, parked)
      /\ LateOK(windows, switching, late) /\ PlacesOK
BY DEF WorkspaceSound, WorkspaceTypeOK, EditsAccounted, OwnersEdit, ParkedIsBlocked, LateEdits,
       WindowsOK, Owned, ParkedOK, LateOK, PlacesOK, NavigationWaits

(* The same of the next state. *)
LEMMA SoundPartsNext ==
  WorkspaceSound' <=>
    WindowsOK(windows', nextId') /\ Owned(windows', yamlOwner') /\ ParkedOK(windows', parked')
      /\ LateOK(windows', switching', late') /\ PlacesOK'
BY DEF WorkspaceSound, WorkspaceTypeOK, EditsAccounted, OwnersEdit, ParkedIsBlocked, LateEdits,
       WindowsOK, Owned, ParkedOK, LateOK, PlacesOK, NavigationWaits, DirtyIn, BlockersOf

(* The constants' shapes, once. *)
LEMMA Shapes ==
  /\ 1 \in WindowIds /\ 0 \notin WindowIds /\ WindowIds \subseteq Nat
  /\ NoWindow \in Window /\ ListWindow \in Window
  /\ ~NoWindow.dirty /\ ~ListWindow.dirty
  /\ NoWindow.shows = NoResource /\ ListWindow.shows = NoResource
  /\ NoSwitch \in Switch
  /\ \A to \in Places : Asked(to) \in Switch /\ Asked(to) # NoSwitch
<1>1. 1 \in WindowIds /\ 0 \notin WindowIds /\ WindowIds \subseteq Nat
  BY WorkspaceAssumption DEF WindowIds
<1>2. NoWindow \in Window /\ ~NoWindow.dirty /\ NoWindow.shows = NoResource
  BY DEF NoWindow, Window
<1>3. ListWindow \in Window /\ ~ListWindow.dirty /\ ListWindow.shows = NoResource
  BY <1>2 DEF ListWindow, NoWindow, Window
<1>4. NoSwitch \in Switch
  BY DEF NoSwitch, Switch
<1>5. ASSUME NEW to \in Places PROVE Asked(to) \in Switch /\ Asked(to) # NoSwitch
  <2>1. Asked(to).to = to /\ NoSwitch.to = NoPlace
    BY DEF Asked, NoSwitch
  <2> QED BY <2>1, WorkspaceAssumption DEF Asked, Switch
<1> QED BY <1>1, <1>2, <1>3, <1>4, <1>5

(* A navigation is one of three, each with what it needs. *)
LEMMA Navigations ==
  /\ \A w \in WindowIds : Close(w) \in Navigation /\ Close(w).window = w /\ Close(w).kind = "close"
  /\ \A w \in WindowIds, row \in Resources \cup {NoResource} :
       Show(w, row) \in Navigation /\ Show(w, row).window = w /\ Show(w, row).kind = "show"
  /\ \A to \in Places : SwitchTo(to) \in Navigation /\ SwitchTo(to).kind = "switch"
  /\ \A n \in Navigation :
       /\ n.row \in Resources \cup {NoResource}
       /\ n.kind = "switch" => n.to \in Places
       /\ n.kind # "switch" => n.window \in WindowIds
BY DEF Navigation, Close, Show, SwitchTo

(* What a snapshot counts fits the layouts. *)
LEMMA SnapshotFits == ASSUME WindowsOK(windows, nextId) PROVE Snapshot \in Layout
<1> DEFINE L == {w \in WindowIds : windows[w].kind = "list"}
<1>1. IsFiniteSet(WindowIds) /\ Cardinality(WindowIds) = MaxWindows
  BY FS_Interval, WorkspaceAssumption DEF WindowIds
<1>2. IsFiniteSet(L) /\ Cardinality(L) <= MaxWindows
  BY <1>1, FS_Subset
<1>3. Cardinality(L) \in Nat
  BY <1>2, FS_CardinalityType
<1> QED BY <1>2, <1>3, WorkspaceAssumption DEF Snapshot, Layout, WindowsOK

(* Windows brought back have no edit, and none above the counter. *)
LEMMA RestoredFits ==
  ASSUME NEW layout \in Layout
  PROVE  /\ WindowsOK(Restored(layout), Max({layout.lists + 1, layout.next}))
         /\ \A w \in WindowIds : ~Restored(layout)[w].dirty
<1>1. layout.lists \in 0..MaxWindows /\ layout.next \in 1..(MaxWindows + 1)
  BY DEF Layout
<1>2. Max({layout.lists + 1, layout.next}) =
        IF layout.next <= layout.lists + 1 THEN layout.lists + 1 ELSE layout.next
  <2> DEFINE S == {layout.lists + 1, layout.next}
             m == IF layout.next <= layout.lists + 1 THEN layout.lists + 1 ELSE layout.next
  <2>1. m \in S /\ \A y \in S : m >= y
    BY <1>1, WorkspaceAssumption
  <2>2. ASSUME NEW x \in S, \A y \in S : x >= y PROVE x = m
    BY <2>1, <2>2, <1>1, WorkspaceAssumption
  <2>3. Max(S) = CHOOSE x \in S : \A y \in S : x >= y
    BY DEF Max
  <2> QED BY <2>1, <2>2, <2>3
<1>3. Restored(layout) \in [WindowIds -> Window]
  BY Shapes DEF Restored
<1>4. \A w \in WindowIds : w > layout.lists => Restored(layout)[w] = NoWindow
  BY <1>1, WorkspaceAssumption DEF Restored, WindowIds
<1>5. \A w \in WindowIds : ~Restored(layout)[w].dirty
  BY Shapes DEF Restored
<1>6. Max({layout.lists + 1, layout.next}) \in 1..(MaxWindows + 1)
        /\ Max({layout.lists + 1, layout.next}) > layout.lists
  BY <1>1, <1>2, WorkspaceAssumption
<1>7. ASSUME NEW w \in WindowIds, w >= Max({layout.lists + 1, layout.next})
      PROVE  Restored(layout)[w] = NoWindow
  BY <1>1, <1>4, <1>6, <1>7, Shapes
<1> QED BY <1>3, <1>5, <1>6, <1>7 DEF WindowsOK

---------------------------------------------------------------------------
(* What the commands do to windows and owners. *)

(* A discard ends one edit and frees what it owned. *)
LEMMA Cleaning ==
  ASSUME WindowsOK(windows, nextId), Owned(windows, yamlOwner), NEW w \in WindowIds
  PROVE  /\ WindowsOK(Clean(w), nextId) /\ Owned(Clean(w), Released(w))
         /\ DirtyIn(Clean(w)) = DirtyIn(windows) \ {w}
<1>1. windows \in [WindowIds -> Window] /\ windows[w] \in Window
  BY DEF WindowsOK
<1>2. Clean(w) \in [WindowIds -> Window]
  BY <1>1 DEF Clean, Window
<1>3. \A v \in WindowIds :
        /\ Clean(w)[v].shows = windows[v].shows
        /\ Clean(w)[v].dirty <=> windows[v].dirty /\ v # w
  BY <1>1 DEF Clean, Window
<1>4. \A v \in WindowIds : v # w => Clean(w)[v] = windows[v]
  BY <1>1 DEF Clean
<1>5. windows[w] = NoWindow => Clean(w)[w] = NoWindow
  <2>1. \A x \in Window : ~x.dirty => [x EXCEPT !.dirty = FALSE] = x
    BY DEF Window
  <2> QED BY <1>1, <2>1, Shapes DEF Clean
<1>6. WindowsOK(Clean(w), nextId)
  BY <1>2, <1>4, <1>5 DEF WindowsOK
<1>7. Owned(Clean(w), Released(w))
  <2>1. CASE windows[w].dirty /\ windows[w].shows \in Resources
    <3>1. Released(w) \in [Resources -> WindowIds \cup {0}]
      BY <2>1 DEF Released, Owned
    <3>2. \A r \in Resources : Released(w)[r] = IF r = windows[w].shows THEN 0 ELSE yamlOwner[r]
      BY <2>1 DEF Released, Owned
    <3>3. \A v \in WindowIds : windows[v].dirty /\ windows[v].shows = windows[w].shows => v = w
      BY <2>1 DEF Owned
    <3> QED BY <1>3, <2>1, <3>1, <3>2, <3>3, Shapes DEF Owned
  <2>2. CASE windows[w].dirty /\ windows[w].shows \notin Resources
    <3>1. Released(w) = yamlOwner
      BY <2>2 DEF Released, Owned
    <3> QED BY <1>3, <2>2, <3>1 DEF Owned
  <2>3. CASE ~windows[w].dirty
    <3>1. Released(w) = yamlOwner
      BY <2>3 DEF Released
    <3> QED BY <1>3, <2>3, <3>1 DEF Owned
  <2> QED BY <2>1, <2>2, <2>3
<1>8. DirtyIn(Clean(w)) = DirtyIn(windows) \ {w}
  BY <1>3 DEF DirtyIn
<1> QED BY <1>6, <1>7, <1>8

(* A navigation from an unedited window changes no edit. *)
LEMMA Navigating ==
  ASSUME NEW ws, NEW owner, NEW next, WindowsOK(ws, next), Owned(ws, owner),
         NEW n \in Navigation, n.window \in WindowIds, n.window < next, ~ws[n.window].dirty
  PROVE  /\ WindowsOK(Navigated(n, ws), next) /\ Owned(Navigated(n, ws), owner)
         /\ DirtyIn(Navigated(n, ws)) = DirtyIn(ws)
         /\ \A w \in WindowIds : w # n.window => Navigated(n, ws)[w] = ws[w]
<1>1. ws \in [WindowIds -> Window] /\ ws[n.window] \in Window
  BY DEF WindowsOK
<1> DEFINE x == IF n.kind = "close" THEN NoWindow
                ELSE [ws[n.window] EXCEPT !.shows = n.row, !.dirty = FALSE]
<1>2. x \in Window /\ ~x.dirty
  <2>1. CASE n.kind = "close"
    BY <2>1, Shapes
  <2>2. CASE n.kind # "close"
    BY <1>1, <2>2, Navigations DEF Window
  <2> QED BY <2>1, <2>2
<1>3. Navigated(n, ws) = [ws EXCEPT ![n.window] = x]
  BY DEF Navigated
<1>4. /\ Navigated(n, ws) \in [WindowIds -> Window]
      /\ Navigated(n, ws)[n.window] = x
      /\ \A w \in WindowIds : w # n.window => Navigated(n, ws)[w] = ws[w]
  <2> HIDE DEF x
  <2> QED BY <1>1, <1>2, <1>3
<1> HIDE DEF x
<1>5. \A w \in WindowIds : Navigated(n, ws)[w].dirty <=> ws[w].dirty
  BY <1>2, <1>4
<1>6. WindowsOK(Navigated(n, ws), next)
  BY <1>4, Shapes DEF WindowsOK
<1>7. Owned(Navigated(n, ws), owner)
  <2>1. \A r \in Resources, w \in WindowIds :
          ws[w].dirty /\ ws[w].shows = r
            <=> Navigated(n, ws)[w].dirty /\ Navigated(n, ws)[w].shows = r
    BY <1>4, <1>5
  <2> QED BY <2>1 DEF Owned
<1> QED BY <1>4, <1>5, <1>6, <1>7 DEF DirtyIn

(* A command that opens a window puts it where none was. *)
LEMMA OpeningAWindow ==
  ASSUME WindowsOK(windows, nextId), Owned(windows, yamlOwner), NEW x \in Window, ~x.dirty,
         nextId <= MaxWindows
  PROVE  LET ws == [windows EXCEPT ![nextId] = x]
         IN /\ WindowsOK(ws, nextId + 1) /\ Owned(ws, yamlOwner)
            /\ DirtyIn(ws) = DirtyIn(windows)
            /\ \A w \in WindowIds : windows[w].dirty => ws[w] = windows[w]
<1> DEFINE ws == [windows EXCEPT ![nextId] = x]
<1>1. windows \in [WindowIds -> Window] /\ nextId \in WindowIds /\ nextId \in 1..(MaxWindows + 1)
  BY WorkspaceAssumption DEF WindowsOK, WindowIds
<1>2. windows[nextId] = NoWindow
  BY <1>1, Shapes DEF WindowsOK
<1>3. /\ ws \in [WindowIds -> Window] /\ ws[nextId] = x
      /\ \A w \in WindowIds : w # nextId => ws[w] = windows[w]
  BY <1>1
<1> HIDE DEF ws
<1>4. \A w \in WindowIds : ws[w].dirty <=> windows[w].dirty
  BY <1>2, <1>3, Shapes
<1>5. \A w \in WindowIds : windows[w].dirty => ws[w] = windows[w]
  BY <1>2, <1>3, Shapes
<1>6. nextId + 1 \in 1..(MaxWindows + 1)
  BY <1>1, WorkspaceAssumption DEF WindowIds
<1>7. \A w \in WindowIds : w >= nextId + 1 => ws[w] = NoWindow
  BY <1>1, <1>3, Shapes DEF WindowsOK
<1>8. WindowsOK(ws, nextId + 1)
  BY <1>3, <1>6, <1>7 DEF WindowsOK
<1>9. Owned(ws, yamlOwner)
  <2>1. \A r \in Resources, w \in WindowIds :
          windows[w].dirty /\ windows[w].shows = r <=> ws[w].dirty /\ ws[w].shows = r
    BY <1>4, <1>5
  <2> QED BY <2>1 DEF Owned
<1>10. DirtyIn(ws) = DirtyIn(windows)
  BY <1>4 DEF DirtyIn
<1> QED BY <1>5, <1>8, <1>9, <1>10 DEF ws

(* An edit that begins takes a resource nobody owns. *)
LEMMA Editing ==
  ASSUME WindowsOK(windows, nextId), Owned(windows, yamlOwner), NEW w \in WindowIds,
         windows[w].shows # NoResource, ~windows[w].dirty,
         yamlOwner[windows[w].shows] \in {0, w}
  PROVE  LET ws == [windows EXCEPT ![w].dirty = TRUE]
         IN /\ WindowsOK(ws, nextId)
            /\ Owned(ws, [yamlOwner EXCEPT ![windows[w].shows] = w])
            /\ DirtyIn(ws) = DirtyIn(windows) \cup {w}
            /\ \A v \in WindowIds : windows[v].dirty => ws[v] = windows[v]
<1> DEFINE ws == [windows EXCEPT ![w].dirty = TRUE]
           row == windows[w].shows
           owner == [yamlOwner EXCEPT ![row] = w]
<1>1. windows \in [WindowIds -> Window] /\ windows[w] \in Window /\ row \in Resources
  BY DEF WindowsOK, Window
<1>2. /\ ws \in [WindowIds -> Window]
      /\ ws[w].dirty /\ ws[w].shows = row
      /\ \A v \in WindowIds : v # w => ws[v] = windows[v]
  BY <1>1 DEF Window
<1>3. windows[w] # NoWindow
  BY Shapes
<1>4. owner \in [Resources -> WindowIds \cup {0}] /\ owner[row] = w
        /\ \A r \in Resources : r # row => owner[r] = yamlOwner[r]
  BY <1>1 DEF Owned
<1>5. \A v \in WindowIds : windows[v].dirty => windows[v].shows # row
  BY <1>1, Shapes DEF Owned
<1> HIDE DEF ws, row, owner
<1>6. WindowsOK(ws, nextId)
  BY <1>2, <1>3 DEF WindowsOK
<1>7. Owned(ws, owner)
  <2> SUFFICES ASSUME NEW r \in Resources, NEW v \in WindowIds
               PROVE  owner[r] = v <=> ws[v].dirty /\ ws[v].shows = r
    BY <1>4 DEF Owned
  <2>1. CASE v = w
    <3>1. yamlOwner[r] = w <=> windows[w].dirty /\ windows[w].shows = r
      BY DEF Owned
    <3> QED BY <1>2, <1>4, <2>1, <3>1
  <2>2. CASE v # w
    <3>1. yamlOwner[r] = v <=> windows[v].dirty /\ windows[v].shows = r
      BY DEF Owned
    <3> QED BY <1>2, <1>4, <1>5, <2>2, <3>1
  <2> QED BY <2>1, <2>2
<1>8. DirtyIn(ws) = DirtyIn(windows) \cup {w}
  BY <1>2 DEF DirtyIn
<1>9. \A v \in WindowIds : windows[v].dirty => ws[v] = windows[v]
  BY <1>2
<1> QED BY <1>6, <1>7, <1>8, <1>9 DEF ws, owner, row

---------------------------------------------------------------------------
(* What the application does. *)

(* A request abandoned on its way leaves the server at one of its contexts. *)
LEMMA Abandoning ==
  ASSUME PlacesOK, switching \in Switch, Abandoned PROVE serverAt' \in Places
<1>1. serverAt \in Places
  BY DEF PlacesOK
<1>2. CASE switching = NoSwitch
  <2>1. switching.to = NoPlace
    BY <1>2 DEF NoSwitch
  <2> QED BY <1>1, <2>1 DEF Abandoned
<1>3. CASE switching # NoSwitch
  <2>1. switching.to \in Places
    BY <1>3 DEF Switch
  <2> QED BY <1>1, <2>1 DEF Abandoned
<1> QED BY <1>2, <1>3

(* A staged switch asks, waits, fails or is not needed; a request goes out    *)
(* only over windows without edits.                                           *)
LEMMA Staging ==
  ASSUME PlacesOK, ParkedOK(windows, parked), LateOK(windows, switching, late),
         NEW ws, NEW waiting \in BOOLEAN, NEW to \in Places, NEW explicit \in BOOLEAN,
         DirtyIn(ws) \subseteq DirtyIn(windows), DirtyIn(ws) \subseteq WindowIds,
         waiting => ws = windows,
         Stage(ws, waiting, to, explicit)
  PROVE  /\ ParkedOK(ws, parked') /\ LateOK(ws, switching', late')
         /\ failedSwitch' \in Places \cup {NoPlace} /\ serverAt' \in Places /\ dead' \in BOOLEAN
<1> DEFINE suppressed == failedSwitch = to /\ selected # to
           goes == switching.to # to /\ ~Served(to) /\ (suppressed => explicit)
<1>1. /\ failedSwitch' = IF suppressed /\ explicit /\ switching.to # to THEN NoPlace ELSE failedSwitch
      /\ IF goes /\ Guards(ws) = {} /\ linked
         THEN switching' = Asked(to) /\ late' = {} /\ Abandoned
         ELSE UNCHANGED <<switching, late, serverAt>>
      /\ dead' = (goes /\ Guards(ws) = {} /\ ~linked)
      /\ IF goes /\ Guards(ws) # {} /\ ~waiting
         THEN Park(SwitchTo(to), ws)
         ELSE parked' = IF waiting THEN parked ELSE NotParked
  BY DEF Stage
<1> HIDE DEF suppressed, goes
<1>2. LateOK(ws, switching', late') /\ serverAt' \in Places
  <2>1. CASE goes /\ Guards(ws) = {} /\ linked
    <3>1. switching' = Asked(to) /\ late' = {} /\ Abandoned
      BY <1>1, <2>1
    <3>2. serverAt' \in Places
      BY <3>1, Abandoning DEF LateOK
    <3> QED BY <2>1, <3>1, <3>2, Shapes DEF LateOK, Guards
  <2>2. CASE ~(goes /\ Guards(ws) = {} /\ linked)
    BY <1>1, <2>2 DEF LateOK, PlacesOK
  <2> QED BY <2>1, <2>2
<1>3. ParkedOK(ws, parked')
  <2>1. CASE goes /\ Guards(ws) # {} /\ ~waiting
    <3>1. parked' = [for |-> SwitchTo(to), blockers |-> BlockersOf(SwitchTo(to), ws)]
      BY <1>1, <2>1 DEF Park
    <3>2. SwitchTo(to) \in Navigation /\ SwitchTo(to).kind = "switch"
      BY Navigations
    <3>3. BlockersOf(SwitchTo(to), ws) = DirtyIn(ws)
      BY <3>2 DEF BlockersOf
    <3> QED BY <2>1, <3>1, <3>2, <3>3 DEF ParkedOK, Guards
  <2>2. CASE ~(goes /\ Guards(ws) # {} /\ ~waiting) /\ waiting
    BY <1>1, <2>2
  <2>3. CASE ~(goes /\ Guards(ws) # {} /\ ~waiting) /\ ~waiting
    <3>1. parked' = NotParked
      BY <1>1, <2>3
    <3>2. Close(1) \in Navigation
      BY Shapes, Navigations
    <3> QED BY <3>1, <3>2 DEF ParkedOK, NotParked
  <2> QED BY <2>1, <2>2, <2>3
<1>4. failedSwitch' \in Places \cup {NoPlace}
  BY <1>1 DEF PlacesOK
<1>5. dead' \in BOOLEAN
  BY <1>1
<1> QED BY <1>2, <1>3, <1>4, <1>5

(* A commit leaves well-formed windows without edits, unless it is held back. *)
LEMMA Committing ==
  ASSUME PlacesOK, WindowsOK(windows, nextId), Owned(windows, yamlOwner),
         ParkedOK(windows, parked), NEW to \in Places, CommitLayout(to)
  PROVE  /\ WindowsOK(windows', nextId') /\ Owned(windows', yamlOwner')
         /\ ParkedOK(windows', parked')
         /\ DirtyIn(windows') \subseteq DirtyIn(windows)
         /\ layouts' \in [Places -> Layout \cup {NoLayout}] /\ place' \in Places
<1> DEFINE saved == IF place # to THEN [layouts EXCEPT ![place] = Snapshot] ELSE layouts
           layout == saved[to]
<1>1. saved \in [Places -> Layout \cup {NoLayout}]
  BY SnapshotFits DEF PlacesOK
<1>2. layouts' = saved
  BY DEF CommitLayout
<1>3. CASE NavigationWaits
  BY <1>1, <1>2, <1>3 DEF CommitLayout, workspaceVars, PlacesOK
<1>4. CASE ~NavigationWaits
  <2>1. /\ IF layout # NoLayout
           THEN windows' = Restored(layout) /\ nextId' = Max({layout.lists + 1, layout.next})
           ELSE /\ windows' = [w \in WindowIds |->
                                 IF windows[w].kind = "list" THEN ListWindow ELSE NoWindow]
                /\ UNCHANGED nextId
        /\ yamlOwner' = [r \in Resources |-> 0]
        /\ place' = to /\ UNCHANGED parked
    BY <1>4 DEF CommitLayout
  <2>2. WindowsOK(windows', nextId') /\ \A w \in WindowIds : ~windows'[w].dirty
    <3>1. CASE layout # NoLayout
      <4>1. layout \in Layout
        BY <1>1, <3>1
      <4> HIDE DEF layout
      <4> QED BY <2>1, <3>1, <4>1, RestoredFits
    <3>2. CASE layout = NoLayout
      <4>1. \A w \in WindowIds : w >= nextId => windows[w].kind # "list"
        <5>1. NoWindow.kind # "list"
          BY DEF NoWindow
        <5> QED BY <5>1 DEF WindowsOK
      <4>2. windows' = [w \in WindowIds |-> IF windows[w].kind = "list" THEN ListWindow ELSE NoWindow]
              /\ nextId' = nextId
        BY <2>1, <3>2
      <4>3. windows' \in [WindowIds -> Window] /\ \A w \in WindowIds : ~windows'[w].dirty
        BY <4>2, Shapes
      <4> QED BY <4>1, <4>2, <4>3 DEF WindowsOK
    <3> QED BY <3>1, <3>2
  <2>3. Owned(windows', yamlOwner')
    BY <2>1, <2>2, Shapes DEF Owned
  <2>4. ParkedOK(windows', parked')
    BY <1>4, <2>1 DEF ParkedOK, NavigationWaits
  <2>5. DirtyIn(windows') \subseteq DirtyIn(windows)
    BY <2>2 DEF DirtyIn
  <2> QED BY <1>1, <1>2, <2>1, <2>2, <2>3, <2>4, <2>5
<1> QED BY <1>3, <1>4

---------------------------------------------------------------------------
(* The invariant, and what a step may do to an edit. *)

(* The step that EditsSurvive allows. *)
EditsKept ==
  \A w \in WindowIds :
    windows[w].dirty /\ windows'[w] # windows[w] =>
      \/ windows'[w] = [windows[w] EXCEPT !.dirty = FALSE]
      \/ parked.blockers = {w}
      \/ w \in late /\ switching # NoSwitch
      \/ bootstrap # NoPlace /\ bootstrap' = NoPlace

(* The first windows show nothing. *)
LEMMA WorkspaceStarts == WorkspaceInit => WorkspaceSound
<1> SUFFICES ASSUME WorkspaceInit PROVE WorkspaceSound
  OBVIOUS
<1>1. WindowsOK(windows, nextId)
  BY Shapes, WorkspaceAssumption DEF WorkspaceInit, WindowsOK, WindowIds
<1>2. \A w \in WindowIds : ~windows[w].dirty
  BY Shapes DEF WorkspaceInit
<1>3. Owned(windows, yamlOwner)
  BY <1>2, Shapes DEF WorkspaceInit, Owned
<1>4. Close(1) \in Navigation
  BY Shapes, Navigations
<1>5. ParkedOK(windows, parked)
  BY <1>4 DEF WorkspaceInit, ParkedOK, NotParked
<1>6. LateOK(windows, switching, late)
  BY Shapes DEF WorkspaceInit, LateOK
<1>7. PlacesOK
  BY WorkspaceAssumption DEF WorkspaceInit, PlacesOK
<1> QED BY <1>1, <1>3, <1>5, <1>6, <1>7, SoundParts

(* One command of the user. *)
LEMMA CommandStep ==
  ASSUME WorkspaceSound, UserCommand
  PROVE  WorkspaceSound' /\ EditsKept
<1>1. /\ WindowsOK(windows, nextId) /\ Owned(windows, yamlOwner) /\ ParkedOK(windows, parked)
      /\ LateOK(windows, switching, late) /\ PlacesOK
  BY SoundParts
<1>2. ASSUME NEW x \in Window, ~x.dirty, Open(x) PROVE WorkspaceSound' /\ EditsKept
  <2>1. /\ ~NavigationWaits /\ nextId <= MaxWindows
        /\ windows' = [windows EXCEPT ![nextId] = x] /\ nextId' = nextId + 1
        /\ UNCHANGED <<yamlOwner, parked, place, serverAt, linked>>
        /\ UNCHANGED <<layouts, selected, switching, failedSwitch, bootstrap, dead, late>>
    BY <1>2 DEF Open, appVars
  <2>2. /\ WindowsOK(windows', nextId') /\ Owned(windows', yamlOwner')
        /\ DirtyIn(windows') = DirtyIn(windows)
        /\ \A w \in WindowIds : windows[w].dirty => windows'[w] = windows[w]
    BY <1>1, <1>2, <2>1, OpeningAWindow
  <2>3. ParkedOK(windows', parked') /\ LateOK(windows', switching', late') /\ PlacesOK'
    BY <1>1, <2>1, <2>2 DEF ParkedOK, LateOK, PlacesOK, NavigationWaits
  <2> QED BY <2>2, <2>3, SoundPartsNext DEF EditsKept
<1>3. CASE OpenList
  BY <1>2, <1>3, Shapes DEF OpenList
<1>4. ASSUME NEW r \in Resources, OpenDetail(r) PROVE WorkspaceSound' /\ EditsKept
  <2>1. [kind |-> "detail", shows |-> r, dirty |-> FALSE] \in Window
    BY DEF Window
  <2> QED BY <1>2, <1>4, <2>1 DEF OpenDetail
<1>5. ASSUME NEW n \in Navigation, n.window \in WindowIds, n.kind \in {"show", "close"},
             Navigate(n)
      PROVE  WorkspaceSound' /\ EditsKept
  <2>1. /\ ~NavigationWaits /\ windows[n.window].kind # "none"
        /\ UNCHANGED <<nextId, place, serverAt, linked>>
        /\ UNCHANGED <<layouts, selected, switching, failedSwitch, bootstrap, dead, late>>
    BY <1>5 DEF Navigate, Navigates, appVars
  <2>2. PlacesOK'
    BY <1>1, <2>1 DEF PlacesOK
  <2>3. BlockersOf(n, windows) = DirtyIn(windows) \cap {n.window}
    BY <1>5 DEF BlockersOf
  <2>4. CASE BlockersOf(n, windows) # {}
    <3>1. parked' = [for |-> n, blockers |-> BlockersOf(n, windows)]
            /\ UNCHANGED <<windows, yamlOwner>>
      BY <1>5, <2>4 DEF Navigate, Navigates, Park
    <3>2. ParkedOK(windows', parked')
      BY <2>3, <2>4, <3>1, <1>5 DEF ParkedOK
    <3>3. /\ WindowsOK(windows', nextId') /\ Owned(windows', yamlOwner')
          /\ LateOK(windows', switching', late')
      BY <1>1, <2>1, <3>1
    <3> QED BY <2>2, <3>1, <3>2, <3>3, SoundPartsNext DEF EditsKept
  <2>5. CASE BlockersOf(n, windows) = {}
    <3>1. /\ windows' = Navigated(n, windows)
          /\ yamlOwner' = IF n.kind = "close" THEN Disowned(n.window) ELSE yamlOwner
          /\ UNCHANGED parked
      BY <1>5, <2>5 DEF Navigate, Navigates
    <3>2. ~windows[n.window].dirty
      BY <1>5, <2>3, <2>5 DEF DirtyIn
    <3>3. n.window < nextId
      <4>1. NoWindow.kind = "none"
        BY DEF NoWindow
      <4>2. n.window \in Nat /\ nextId \in Nat
        BY <1>1, <1>5, Shapes, WorkspaceAssumption DEF WindowsOK, WindowIds
      <4> QED BY <1>1, <1>5, <2>1, <4>1, <4>2 DEF WindowsOK
    <3>4. /\ WindowsOK(windows', nextId) /\ Owned(windows', yamlOwner)
          /\ DirtyIn(windows') = DirtyIn(windows)
          /\ \A w \in WindowIds : w # n.window => windows'[w] = windows[w]
      BY <1>1, <1>5, <3>1, <3>2, <3>3, Navigating
    <3>5. yamlOwner' = yamlOwner
      <4>1. \A r \in Resources : yamlOwner[r] # n.window
        BY <1>1, <1>5, <3>2 DEF Owned
      <4>2. Disowned(n.window) = yamlOwner
        BY <1>1, <4>1 DEF Disowned, Owned
      <4> QED BY <3>1, <4>2
    <3>6. ParkedOK(windows', parked') /\ LateOK(windows', switching', late')
      BY <1>1, <2>1, <3>1, <3>4 DEF ParkedOK, LateOK, NavigationWaits
    <3>7. EditsKept
      BY <3>2, <3>4 DEF EditsKept
    <3> QED BY <2>1, <2>2, <3>4, <3>5, <3>6, <3>7, SoundPartsNext
  <2> QED BY <2>4, <2>5
<1>6. ASSUME NEW w \in WindowIds, Navigate(Close(w)) PROVE WorkspaceSound' /\ EditsKept
  <2>1. Close(w) \in Navigation /\ Close(w).window = w /\ Close(w).kind = "close"
    BY Navigations
  <2> QED BY <1>5, <1>6, <2>1
<1>7. ASSUME NEW w \in WindowIds, NEW row \in Resources \cup {NoResource}, Navigate(Show(w, row))
      PROVE  WorkspaceSound' /\ EditsKept
  <2>1. Show(w, row) \in Navigation /\ Show(w, row).window = w /\ Show(w, row).kind = "show"
    BY Navigations
  <2> QED BY <1>5, <1>7, <2>1
<1>8. ASSUME NEW w \in WindowIds, BeginYamlEdit(w) PROVE WorkspaceSound' /\ EditsKept
  <2>1. /\ ~NavigationWaits /\ windows[w].shows # NoResource /\ ~windows[w].dirty
        /\ yamlOwner[windows[w].shows] \in {0, w}
        /\ windows' = [windows EXCEPT ![w].dirty = TRUE]
        /\ yamlOwner' = [yamlOwner EXCEPT ![windows[w].shows] = w]
        /\ late' = IF switching = NoSwitch THEN late ELSE late \cup {w}
        /\ UNCHANGED <<nextId, parked, place, layouts, selected, switching, failedSwitch,
                       bootstrap, dead, serverAt, linked>>
    BY <1>8 DEF BeginYamlEdit
  <2>2. /\ WindowsOK(windows', nextId') /\ Owned(windows', yamlOwner')
        /\ DirtyIn(windows') = DirtyIn(windows) \cup {w}
        /\ \A v \in WindowIds : windows[v].dirty => windows'[v] = windows[v]
    BY <1>1, <2>1, Editing
  <2>3. ParkedOK(windows', parked') /\ LateOK(windows', switching', late') /\ PlacesOK'
    BY <1>1, <2>1, <2>2 DEF ParkedOK, LateOK, PlacesOK, NavigationWaits
  <2> QED BY <2>2, <2>3, SoundPartsNext DEF EditsKept
<1>9. ASSUME NEW w \in WindowIds, DiscardYaml(w) PROVE WorkspaceSound' /\ EditsKept
  <2>1. /\ ~NavigationWaits /\ windows' = Clean(w) /\ yamlOwner' = Released(w)
        /\ late' = late \ {w}
        /\ UNCHANGED <<nextId, parked, place, layouts, selected, switching, failedSwitch,
                       bootstrap, dead, serverAt, linked>>
    BY <1>9 DEF DiscardYaml
  <2>2. /\ WindowsOK(windows', nextId') /\ Owned(windows', yamlOwner')
        /\ DirtyIn(windows') = DirtyIn(windows) \ {w}
    BY <1>1, <2>1, Cleaning
  <2>3. ParkedOK(windows', parked') /\ LateOK(windows', switching', late') /\ PlacesOK'
    BY <1>1, <2>1, <2>2 DEF ParkedOK, LateOK, PlacesOK, NavigationWaits
  <2>4. EditsKept
    BY <1>1, <2>1 DEF EditsKept, Clean, WindowsOK
  <2> QED BY <2>2, <2>3, <2>4, SoundPartsNext
<1>10. CASE Cancel
  <2>1. /\ parked' = NotParked
        /\ UNCHANGED <<windows, nextId, yamlOwner, place, serverAt, linked>>
        /\ UNCHANGED <<layouts, selected, switching, failedSwitch, bootstrap, dead, late>>
    BY <1>10 DEF Cancel, appVars
  <2>2. Close(1) \in Navigation
    BY Shapes, Navigations
  <2>3. ParkedOK(windows', parked')
    BY <2>1, <2>2 DEF ParkedOK, NotParked
  <2>4. PlacesOK'
    BY <1>1, <2>1 DEF PlacesOK
  <2>5. /\ WindowsOK(windows', nextId') /\ Owned(windows', yamlOwner')
        /\ LateOK(windows', switching', late') /\ EditsKept
    BY <1>1, <2>1 DEF EditsKept
  <2> QED BY <2>3, <2>4, <2>5, SoundPartsNext
<1>11. ASSUME NEW w \in WindowIds, Resolve(w) PROVE WorkspaceSound' /\ EditsKept
  <2> DEFINE n == parked.for
             left == parked.blockers \ {w}
  <2>1. /\ NavigationWaits /\ UNCHANGED <<nextId, place, layouts, selected, bootstrap, linked>>
        /\ n \in Navigation /\ parked.blockers = BlockersOf(n, windows) /\ parked.blockers # {}
    BY <1>1, <1>11 DEF Resolve, ParkedOK, NavigationWaits
  <2>2. /\ WindowsOK(Clean(w), nextId) /\ Owned(Clean(w), Released(w))
        /\ DirtyIn(Clean(w)) = DirtyIn(windows) \ {w}
    BY <1>1, Cleaning
  <2>3. \A v \in WindowIds : v # w => Clean(w)[v] = windows[v]
    BY <1>1 DEF Clean, WindowsOK
  <2>4. Clean(w)[w] = [windows[w] EXCEPT !.dirty = FALSE]
    BY <1>1 DEF Clean, WindowsOK
  <2>5. CASE /\ left # {} /\ parked' = [parked EXCEPT !.blockers = left]
             /\ windows' = Clean(w) /\ yamlOwner' = Released(w) /\ late' = late \ {w}
             /\ UNCHANGED <<switching, failedSwitch, dead, serverAt>>
    <3>1. parked'.for = n /\ parked'.blockers = left
            /\ parked' \in [for : Navigation, blockers : SUBSET WindowIds]
      BY <1>1, <2>5 DEF ParkedOK
    <3>2. BlockersOf(n, windows') = left
      BY <2>1, <2>2, <2>5 DEF BlockersOf
    <3>3. ParkedOK(windows', parked')
      BY <2>5, <3>1, <3>2 DEF ParkedOK
    <3>4. LateOK(windows', switching', late') /\ PlacesOK'
      BY <1>1, <2>1, <2>2, <2>5 DEF LateOK, PlacesOK
    <3>5. EditsKept
      BY <2>3, <2>4, <2>5 DEF EditsKept
    <3> QED BY <2>1, <2>2, <2>5, <3>3, <3>4, <3>5, SoundPartsNext
  <2>6. CASE /\ left = {} /\ n.kind = "switch"
             /\ windows' = Clean(w) /\ yamlOwner' = Released(w)
             /\ Stage(Clean(w), FALSE, n.to, TRUE)
    <3>1. CASE n.to \in Places
      <4>1. DirtyIn(Clean(w)) \subseteq DirtyIn(windows) /\ DirtyIn(Clean(w)) \subseteq WindowIds
        BY <2>2 DEF DirtyIn
      <4>2. /\ ParkedOK(windows', parked') /\ LateOK(windows', switching', late')
            /\ failedSwitch' \in Places \cup {NoPlace} /\ serverAt' \in Places
            /\ dead' \in BOOLEAN
        BY <1>1, <2>6, <3>1, <4>1, Staging
      <4>3. PlacesOK'
        BY <1>1, <2>1, <4>2 DEF PlacesOK
      <4>4. EditsKept
        BY <2>3, <2>4, <2>6 DEF EditsKept
      <4> QED BY <2>1, <2>2, <2>6, <4>2, <4>3, <4>4, SoundPartsNext
    <3> QED BY <2>1, <2>6, <3>1, Navigations
  <2>7. CASE /\ left = {} /\ n.kind # "switch" /\ parked' = NotParked
             /\ windows' = Navigated(n, Clean(w)) /\ yamlOwner' = Released(w)
             /\ late' = late \ {w}
             /\ UNCHANGED <<switching, failedSwitch, dead, serverAt>>
    <3>1. parked.blockers = {w} /\ n.window = w /\ w \in DirtyIn(windows)
      BY <2>1, <2>7 DEF BlockersOf
    <3>2. w < nextId
      <4>1. windows[w] # NoWindow
        BY <3>1, Shapes DEF DirtyIn
      <4>2. w \in Nat /\ nextId \in Nat
        BY <1>1, Shapes, WorkspaceAssumption DEF WindowsOK
      <4> QED BY <1>1, <4>1, <4>2 DEF WindowsOK
    <3>3. ~Clean(w)[w].dirty
      BY <2>2 DEF DirtyIn
    <3>4. /\ WindowsOK(windows', nextId) /\ Owned(windows', yamlOwner')
          /\ DirtyIn(windows') = DirtyIn(Clean(w))
          /\ \A v \in WindowIds : v # w => windows'[v] = Clean(w)[v]
      BY <2>1, <2>2, <2>7, <3>1, <3>2, <3>3, Navigating
    <3>5. Close(1) \in Navigation
      BY Shapes, Navigations
    <3>6. ParkedOK(windows', parked')
      BY <2>7, <3>5 DEF ParkedOK, NotParked
    <3>7. LateOK(windows', switching', late') /\ PlacesOK'
      BY <1>1, <2>1, <2>2, <2>7, <3>4 DEF LateOK, PlacesOK
    <3>8. EditsKept
      BY <2>3, <3>1, <3>4 DEF EditsKept
    <3> QED BY <2>1, <3>4, <3>6, <3>7, <3>8, SoundPartsNext
  <2> QED BY <1>11, <2>5, <2>6, <2>7 DEF Resolve
<1> QED BY <1>3, <1>4, <1>6, <1>7, <1>8, <1>9, <1>10, <1>11 DEF UserCommand

(* A staged switch over the windows as they are. *)
LEMMA PickStep ==
  ASSUME WorkspaceSound, NEW to \in Places, NEW explicit \in BOOLEAN,
         Stage(windows, NavigationWaits, to, explicit),
         UNCHANGED <<windows, nextId, yamlOwner, place, layouts, selected, bootstrap, linked>>
  PROVE  WorkspaceSound' /\ EditsKept
<1>1. /\ WindowsOK(windows, nextId) /\ Owned(windows, yamlOwner) /\ ParkedOK(windows, parked)
      /\ LateOK(windows, switching, late) /\ PlacesOK
  BY SoundParts
<1>2. DirtyIn(windows) \subseteq WindowIds /\ NavigationWaits \in BOOLEAN
  BY DEF DirtyIn, NavigationWaits
<1>3. /\ ParkedOK(windows, parked') /\ LateOK(windows, switching', late')
      /\ failedSwitch' \in Places \cup {NoPlace} /\ serverAt' \in Places /\ dead' \in BOOLEAN
  BY <1>1, <1>2, Staging
<1>4. PlacesOK'
  BY <1>1, <1>3 DEF PlacesOK
<1>5. /\ WindowsOK(windows', nextId') /\ Owned(windows', yamlOwner')
      /\ ParkedOK(windows', parked') /\ LateOK(windows', switching', late')
  BY <1>1, <1>3
<1> QED BY <1>4, <1>5, SoundPartsNext DEF EditsKept

(* The switches, their answers and the transport. *)
LEMMA SwitchStep ==
  ASSUME WorkspaceSound,
         \/ Reconcile \/ (\E to \in Places : Pick(to) \/ ServerMoves(to))
         \/ SwitchConfirmed \/ SwitchRefused \/ ServerConfirms \/ ServerRefuses
         \/ Bootstrapped \/ AskBootstrap \/ TransportLost \/ Reconnected
  PROVE  WorkspaceSound' /\ EditsKept
<1>1. /\ WindowsOK(windows, nextId) /\ Owned(windows, yamlOwner) /\ ParkedOK(windows, parked)
      /\ LateOK(windows, switching, late) /\ PlacesOK
  BY SoundParts
<1>2. ASSUME UNCHANGED workspaceVars, LateOK(windows, switching', late'), PlacesOK'
      PROVE  WorkspaceSound' /\ EditsKept
  <2>1. UNCHANGED <<windows, nextId, yamlOwner, parked>>
    BY <1>2 DEF workspaceVars
  <2>2. /\ WindowsOK(windows', nextId') /\ Owned(windows', yamlOwner')
        /\ ParkedOK(windows', parked') /\ LateOK(windows', switching', late')
    BY <1>1, <1>2, <2>1
  <2> QED BY <1>2, <2>1, <2>2, SoundPartsNext DEF EditsKept
<1>3. LateOK(windows, NoSwitch, {})
  BY Shapes DEF LateOK
<1>4. Abandoned => serverAt' \in Places
  BY <1>1, Abandoning DEF LateOK
<1>5. CASE Reconcile
  BY <1>1, <1>5, PickStep DEF Reconcile, PlacesOK
<1>6. ASSUME NEW to \in Places, Pick(to) PROVE WorkspaceSound' /\ EditsKept
  BY <1>6, PickStep DEF Pick
<1>7. ASSUME NEW to \in Places, ServerMoves(to) PROVE WorkspaceSound' /\ EditsKept
  BY <1>1, <1>2, <1>7 DEF ServerMoves, workspaceVars, appVars, PlacesOK
<1>8. CASE SwitchConfirmed
  <2>1. /\ switching.answer = "ok" /\ switching \in Switch
        /\ selected' = switching.to /\ failedSwitch' = NoPlace
        /\ switching' = NoSwitch /\ late' = {} /\ CommitLayout(switching.to)
        /\ UNCHANGED <<bootstrap, dead, serverAt, linked>>
    BY <1>1, <1>8 DEF SwitchConfirmed, LateOK
  <2>2. switching # NoSwitch
    BY <2>1 DEF NoSwitch
  <2>3. switching.to \in Places
    BY <2>1, <2>2 DEF Switch
  <2>4. /\ WindowsOK(windows', nextId') /\ Owned(windows', yamlOwner')
        /\ ParkedOK(windows', parked')
        /\ layouts' \in [Places -> Layout \cup {NoLayout}] /\ place' \in Places
    BY <1>1, <2>1, <2>3, Committing
  <2>5. LateOK(windows', switching', late')
    BY <2>1, Shapes DEF LateOK
  <2>6. PlacesOK'
    BY <1>1, <2>1, <2>3, <2>4 DEF PlacesOK
  <2>7. EditsKept
    BY <1>1, <2>2 DEF EditsKept, LateOK, DirtyIn
  <2> QED BY <2>4, <2>5, <2>6, <2>7, SoundPartsNext
<1>9. CASE SwitchRefused
  <2>1. switching # NoSwitch
    BY <1>9 DEF SwitchRefused, NoSwitch
  <2>2. switching.to \in Places
    BY <1>1, <2>1 DEF LateOK, Switch
  <2>3. /\ UNCHANGED workspaceVars /\ switching' = NoSwitch /\ late' = {}
        /\ failedSwitch' = switching.to
        /\ UNCHANGED <<layouts, selected, bootstrap, dead, serverAt, linked>>
    BY <1>9 DEF SwitchRefused
  <2>4. PlacesOK'
    BY <1>1, <2>2, <2>3 DEF PlacesOK, workspaceVars
  <2> QED BY <1>2, <1>3, <2>3, <2>4
<1>10. CASE Bootstrapped
  <2>1. /\ bootstrap \in Places /\ selected' = bootstrap /\ bootstrap' = NoPlace
        /\ switching' = NoSwitch /\ late' = {} /\ serverAt' \in Places
        /\ UNCHANGED <<failedSwitch, dead, linked>>
    BY <1>1, <1>4, <1>10 DEF Bootstrapped, PlacesOK
  <2>2. /\ WindowsOK(windows', nextId') /\ Owned(windows', yamlOwner')
        /\ ParkedOK(windows', parked')
        /\ layouts' \in [Places -> Layout \cup {NoLayout}] /\ place' \in Places
    <3>1. CASE place # bootstrap
      BY <1>1, <1>10, <2>1, <3>1, Committing DEF Bootstrapped
    <3>2. CASE place = bootstrap
      BY <1>1, <1>10, <3>2 DEF Bootstrapped, workspaceVars, PlacesOK
    <3> QED BY <3>1, <3>2
  <2>3. LateOK(windows', switching', late')
    BY <2>1, Shapes DEF LateOK
  <2>4. PlacesOK'
    BY <1>1, <2>1, <2>2 DEF PlacesOK
  <2>5. EditsKept
    BY <1>10, <2>1 DEF EditsKept, Bootstrapped
  <2> QED BY <2>2, <2>3, <2>4, <2>5, SoundPartsNext
<1>11. CASE AskBootstrap
  BY <1>1, <1>2, <1>11 DEF AskBootstrap, workspaceVars, PlacesOK
<1>12. CASE Reconnected
  BY <1>1, <1>2, <1>12 DEF Reconnected, workspaceVars, PlacesOK
<1>13. CASE TransportLost
  BY <1>1, <1>2, <1>3, <1>4, <1>13 DEF TransportLost, workspaceVars, PlacesOK
<1>14. ASSUME NEW x \in {"ok", "refused"}, switching.to # NoPlace,
              switching' = [switching EXCEPT !.answer = x], UNCHANGED late
       PROVE  LateOK(windows, switching', late')
  <2>1. switching # NoSwitch
    BY <1>14 DEF NoSwitch
  <2>2. switching \in [to : Places, answer : {"none", "ok", "refused"}]
    BY <1>1, <2>1 DEF LateOK, Switch
  <2>3. switching' \in Switch
    BY <1>14, <2>2 DEF Switch
  <2> QED BY <1>1, <1>14, <2>1, <2>3 DEF LateOK
<1>15. CASE ServerConfirms
  <2>1. switching.to \in Places
    <3>1. switching # NoSwitch
      BY <1>15 DEF ServerConfirms, NoSwitch
    <3> QED BY <1>1, <3>1 DEF LateOK, Switch
  <2>2. PlacesOK'
    BY <1>1, <1>15, <2>1 DEF ServerConfirms, workspaceVars, PlacesOK
  <2>3. LateOK(windows, switching', late')
    BY <1>14, <1>15 DEF ServerConfirms
  <2> QED BY <1>2, <1>15, <2>2, <2>3 DEF ServerConfirms
<1>16. CASE ServerRefuses
  BY <1>1, <1>2, <1>14, <1>16 DEF ServerRefuses, workspaceVars, PlacesOK
<1> QED BY <1>5, <1>6, <1>7, <1>8, <1>9, <1>10, <1>11, <1>12, <1>13, <1>15, <1>16

(* A step of the client, or none. *)
LEMMA ShellStep ==
  ASSUME WorkspaceSound, [WorkspaceNext]_shellVars
  PROVE  WorkspaceSound' /\ (EditsKept \/ UNCHANGED shellVars)
<1>1. CASE WorkspaceNext
  BY <1>1, CommandStep, SwitchStep DEF WorkspaceNext
<1>2. CASE UNCHANGED shellVars
  <2>1. UNCHANGED <<windows, nextId, yamlOwner, parked, place, layouts, selected, switching,
                    failedSwitch, bootstrap, dead, late, serverAt, linked>>
    BY <1>2 DEF shellVars, workspaceVars, appVars
  <2>2. PlacesOK' <=> PlacesOK
    BY <2>1 DEF PlacesOK
  <2> QED BY <1>2, <2>1, <2>2, SoundParts, SoundPartsNext
<1> QED BY <1>1, <1>2

(* The bookkeeping of unsaved edits is never off, whatever the user, the      *)
(* server and the transport do: the owner of a resource is the window that    *)
(* edits it, a parked navigation waits for the edits that block it, and an    *)
(* edit under way together with a switch began after the request.             *)
THEOREM WorkspaceStaysSound == WorkspaceSpec => []WorkspaceSound
<1>1. WorkspaceInit => WorkspaceSound
  BY WorkspaceStarts
<1>2. WorkspaceSound /\ [WorkspaceNext]_shellVars => WorkspaceSound'
  BY ShellStep
<1> QED BY <1>1, <1>2, PTL DEF WorkspaceSpec

(* No unsaved edit is lost to a close, a selection or a switch without its    *)
(* own discard, but for the two commits that EditsSurvive names.              *)
THEOREM EditsAreKept == WorkspaceSpec => EditsSurvive
<1>1. WorkspaceSound /\ [WorkspaceNext]_shellVars => [EditsKept]_shellVars
  BY ShellStep
<1> QED BY <1>1, WorkspaceStaysSound, PTL DEF WorkspaceSpec, EditsSurvive, EditsKept
==============================================================================
