---------------------------- MODULE RegistryProofs ----------------------------
(***************************************************************************)
(* Proofs about OperationRegistry: what a client knows of its operations   *)
(* and when it submits one again, for every set of submissions and targets *)
(* and however often the transport and the process are lost.               *)
(***************************************************************************)
EXTENDS OperationRegistry, FiniteSetTheorems, TLAPS

---------------------------------------------------------------------------
(* What a client knows of the operations: requests, frames and views *)

StatusRequests == [kind : {"status"}, in : Nat, ids : SUBSET Nat]
CommandRequests == [kind : {"command"}, in : Nat, key : Submissions]
ReadRequests == [kind : {"read"}, in : Nat, target : MutationTargets, keys : SUBSET Submissions]
ClientRequests == StatusRequests \cup CommandRequests \cup ReadRequests

(* What a status query is answered. *)
Reports == UNION {[O -> {"running", "ended"}] : O \in SUBSET Nat}

UpdateFrames == [kind : {"update", "resent"}, op : Nat, st : {"running", "ended"}]
ResyncFrames == [kind : {"resync"}]
StatusAnswers == [kind : {"answer"}, to : StatusRequests, result : Reports]
CommandAnswers == [kind : {"answer"}, to : CommandRequests, result : Nat]
ReadAnswers == [kind : {"answer"}, to : ReadRequests, result : BOOLEAN]
AnswerFrames == StatusAnswers \cup CommandAnswers \cup ReadAnswers
Frames == UpdateFrames \cup ResyncFrames \cup AnswerFrames

EngineEntries == [key : Submissions \cup {Elsewhere}, st : {"running", "ended", "lost"}]
Views == [1 .. MaxAccepted -> {"none", "running", "ended", "unknown"}]

RegistryShapes ==
  /\ process \in 1 .. MaxInstances
  /\ engine \in Seq(EngineEntries) /\ Len(engine) <= MaxAccepted /\ held \subseteq Accepted
  /\ inbound \in Seq(ClientRequests) /\ working \subseteq ClientRequests
  /\ line \in Seq(Frames)
  /\ views \in Views /\ submitted \in [Submissions -> Nat]
  /\ unverified \subseteq Submissions /\ pending \subseteq ClientRequests /\ rebuilds \in Nat

(* The process retains what runs in it. *)
EngineHeld ==
  /\ \A o \in held : engine[o].st # "lost"
  /\ \A o \in Accepted : engine[o].st = "running" => o \in held

(* A request of generation g or an earlier one, about what has been accepted. *)
RequestSound(E, g, r) ==
  /\ r.in <= g
  /\ r.kind = "status" => r.ids \subseteq DOMAIN E
  /\ r.kind = "read" => \A k \in r.keys : TargetOf[k] = r.target

(* Nothing on its way to the client says more of an operation than is so: *)
(* what was asked for and is not reported has not run since.              *)
UpdateSound(E, f) == f.op \in DOMAIN E /\ (f.st = "ended" => E[f.op].st = "ended")
ReportSound(E, r, known) ==
  /\ \A o \in DOMAIN known : o \in DOMAIN E /\ (known[o] = "ended" => E[o].st = "ended")
  /\ \A o \in r.ids \ DOMAIN known : E[o].st # "running"
AcceptanceSound(E, r, op) == op # 0 => op \in DOMAIN E /\ E[op].key = r.key
FrameSound(E, g, f) ==
  /\ f.kind \in {"update", "resent"} => UpdateSound(E, f)
  /\ f.kind = "answer" =>
       /\ RequestSound(E, g, f.to)
       /\ f.to.kind = "status" => ReportSound(E, f.to, f.result)
       /\ f.to.kind = "command" => AcceptanceSound(E, f.to, f.result)

TrafficSound ==
  /\ \A i \in DOMAIN inbound : RequestSound(engine, rebuilds, inbound[i])
  /\ \A r \in working : RequestSound(engine, rebuilds, r)
  /\ \A i \in DOMAIN line : FrameSound(engine, rebuilds, line[i])

(* What the client believes of what it submitted. *)
ViewsSound ==
  /\ \A o \in DOMAIN views :
       /\ views[o] # "none" => o \in Accepted
       /\ views[o] = "ended" => engine[o].st = "ended"
  /\ \A k \in Submissions : submitted[k] # 0 =>
       /\ submitted[k] \in Accepted /\ engine[submitted[k]].key = k
       /\ views[submitted[k]] # "none"
  /\ \A k \in unverified : submitted[k] # 0

(* Requests that await an answer are of the current generation, one of them *)
(* a status query, and a command under way submits what was not submitted.  *)
PendingSound ==
  /\ \A r \in pending : r.in = rebuilds /\ RequestSound(engine, rebuilds, r)
  /\ \A r \in pending : r.kind = "command" => submitted[r.key] = 0
  /\ \A r, q \in pending : r.kind = "status" /\ q.kind = "status" => r = q
  /\ \A r, q \in pending : r.kind = "read" /\ q.kind = "read" /\ r.keys \cap q.keys # {} => r = q

Current(r, g) == r.in = g

(* The status query comes before every other request of its generation, and *)
(* so does its answer.                                                       *)
LeadsRequests(r) ==
  /\ \E i \in DOMAIN inbound :
       inbound[i] = r /\ \A j \in 1 .. i - 1 : ~Current(inbound[j], rebuilds)
  /\ \A q \in working : ~Current(q, rebuilds)
  /\ \A i \in DOMAIN line : line[i].kind = "answer" => ~Current(line[i].to, rebuilds)
LeadsAnswers(r) ==
  \E i \in DOMAIN line :
    /\ line[i].kind = "answer" /\ line[i].to = r
    /\ \A j \in 1 .. i - 1 : line[j].kind = "answer" => ~Current(line[j].to, rebuilds)
StatusLeads == \A r \in pending : r.kind = "status" => LeadsRequests(r) \/ LeadsAnswers(r)

(* So it names every submission that may still run when it is applied, *)
StatusNamesAll ==
  \A r \in pending : r.kind = "status" =>
    \A k \in Submissions :
      submitted[k] # 0 /\ engine[submitted[k]].st = "running" => submitted[k] \in r.ids

(* and none of them is taken for unknown, but one that has ended. *)
UnknownIsOver ==
  \A k \in Submissions :
    submitted[k] # 0 /\ views[submitted[k]] = "unknown" => engine[submitted[k]].st # "running"

(* One that is lost is guarded until its target has been read. *)
LostIsGuarded ==
  \A k \in Submissions :
    submitted[k] # 0 /\ views[submitted[k]] = "unknown" /\ engine[submitted[k]].st = "lost"
      => k \in unverified \/ submitted[k] \in witnessed

RegistryInv ==
  /\ RegistryShapes /\ EngineHeld /\ TrafficSound /\ ViewsSound /\ PendingSound
  /\ StatusLeads /\ StatusNamesAll /\ UnknownIsOver /\ LostIsGuarded

---------------------------------------------------------------------------
(* Sequences *)

(* The items of a sequence, *)
LEMMA ItemsOf ==
  ASSUME NEW S, NEW s \in Seq(S)
  PROVE  /\ Len(s) \in Nat /\ DOMAIN s = 1 .. Len(s)
         /\ \A i \in 1 .. Len(s) : s[i] \in S
  OBVIOUS

(* of its tail, *)
LEMMA TailItems ==
  ASSUME NEW S, NEW s \in Seq(S), s # <<>>
  PROVE  /\ Head(s) = s[1] /\ s[1] \in S /\ 1 \in DOMAIN s
         /\ Tail(s) \in Seq(S) /\ Len(Tail(s)) = Len(s) - 1
         /\ DOMAIN Tail(s) = 1 .. Len(s) - 1
         /\ \A i \in DOMAIN Tail(s) : i + 1 \in DOMAIN s /\ Tail(s)[i] = s[i + 1]
  OBVIOUS

(* with one more at its end, *)
LEMMA AppendItems ==
  ASSUME NEW S, NEW s \in Seq(S), NEW e \in S
  PROVE  /\ Append(s, e) \in Seq(S) /\ Len(Append(s, e)) = Len(s) + 1
         /\ DOMAIN Append(s, e) = 1 .. Len(s) + 1
         /\ \A i \in DOMAIN s : Append(s, e)[i] = s[i]
         /\ Append(s, e)[Len(s) + 1] = e
  OBVIOUS

(* or at some place, *)
Inserted(r, s, i, e) ==
  /\ DOMAIN r = 1 .. Len(s) + 1
  /\ \A j \in 1 .. i - 1 : r[j] = s[j]
  /\ r[i] = e
  /\ \A j \in i + 1 .. Len(s) + 1 : r[j] = s[j - 1]

LEMMA InsertItems ==
  ASSUME NEW S, NEW s \in Seq(S), NEW e \in S, NEW i \in 1 .. Len(s) + 1
  PROVE  InsertAt(s, i, e) \in Seq(S) /\ Inserted(InsertAt(s, i, e), s, i, e)
<1> DEFINE a == SubSeq(s, 1, i - 1)
           b == SubSeq(s, i, Len(s))
<1>1. Len(s) \in Nat /\ i \in Nat /\ i >= 1 /\ i <= Len(s) + 1
  OBVIOUS
<1>2. a \in Seq(S) /\ Len(a) = i - 1 /\ \A j \in 1 .. i - 1 : a[j] = s[j]
  BY <1>1
<1>3. b \in Seq(S) /\ Len(b) = Len(s) + 1 - i /\ \A j \in 1 .. Len(b) : b[j] = s[j + i - 1]
  BY <1>1
<1>4. InsertAt(s, i, e) = a \o <<e>> \o b
  BY DEF InsertAt
<1> HIDE DEF a, b
<1>5. PICK c \in Seq(S) : c = a \o <<e>>
  <2>1. <<e>> \in Seq(S)
    OBVIOUS
  <2>2. a \o <<e>> \in Seq(S)
    BY <1>2, <2>1
  <2>. QED
    BY <2>2
<1>6. Len(c) = i /\ c[i] = e /\ \A j \in 1 .. i - 1 : c[j] = s[j]
  BY <1>1, <1>2, <1>5
<1>7. PICK d \in Seq(S) : d = c \o b
  <2>1. c \o b \in Seq(S)
    BY <1>3
  <2>. QED
    BY <2>1
<1>8. /\ Len(d) = Len(s) + 1 /\ \A j \in 1 .. i : d[j] = c[j]
      /\ \A j \in i + 1 .. Len(s) + 1 : d[j] = b[j - i]
  BY <1>1, <1>3, <1>6, <1>7
<1>9. \A j \in i + 1 .. Len(s) + 1 : b[j - i] = s[j - 1]
  <2> SUFFICES ASSUME NEW j \in i + 1 .. Len(s) + 1 PROVE b[j - i] = s[j - 1]
    OBVIOUS
  <2>1. j - i \in 1 .. Len(b) /\ (j - i) + i - 1 = j - 1
    BY <1>1, <1>3
  <2>. QED
    BY <1>3, <2>1
<1>10. InsertAt(s, i, e) = d
  BY <1>4, <1>5, <1>7
<1>11. DOMAIN d = 1 .. Len(s) + 1
  BY <1>8
<1>12. /\ \A j \in 1 .. i - 1 : d[j] = s[j]
       /\ d[i] = e
       /\ \A j \in i + 1 .. Len(s) + 1 : d[j] = s[j - 1]
  BY <1>1, <1>6, <1>8, <1>9
<1>13. Inserted(d, s, i, e)
  BY <1>11, <1>12 DEF Inserted
<1>. QED
  BY ONLY <1>7, <1>10, <1>13

(* and of two in a row. *)
LEMMA JoinedItems ==
  ASSUME NEW S, NEW s \in Seq(S), NEW u \in Seq(S)
  PROVE  /\ s \o u \in Seq(S) /\ DOMAIN (s \o u) = 1 .. Len(s) + Len(u)
         /\ \A i \in 1 .. Len(s) : (s \o u)[i] = s[i]
         /\ \A i \in Len(s) + 1 .. Len(s) + Len(u) : (s \o u)[i] = u[i - Len(s)]
  OBVIOUS

(* The elements of a finite set, in some order. *)
LEMMA SetToSeqItems ==
  ASSUME NEW S, IsFiniteSet(S)
  PROVE  /\ SetToSeq(S) \in Seq(S)
         /\ \A i \in DOMAIN SetToSeq(S) : SetToSeq(S)[i] \in S
<1> DEFINE n == Cardinality(S)
<1>1. n \in Nat
  BY FS_CardinalityType
<1>2. \E f \in [1 .. n -> S] : IsInjective(f)
  <2>1. PICK f : f \in Bijection(1 .. n, S)
    BY FS_CardinalityType DEF ExistsBijection
  <2>. QED
    BY <2>1 DEF Bijection, Injection, IsInjective
<1>3. SetToSeq(S) \in [1 .. n -> S]
  BY <1>2 DEF SetToSeq
<1>. QED
  BY <1>1, <1>3

(* A single element is in its only order. *)
LEMMA SingletonToSeq ==
  ASSUME NEW e
  PROVE  SetToSeq({e}) = <<e>>
<1>1. Cardinality({e}) = 1
  BY FS_Singleton
<1>2. [i \in 1 .. 1 |-> e] \in [1 .. 1 -> {e}] /\ IsInjective([i \in 1 .. 1 |-> e])
  BY DEF IsInjective
<1>3. SetToSeq({e}) \in [1 .. 1 -> {e}]
  BY <1>1, <1>2 DEF SetToSeq
<1>. QED
  BY <1>3

(* Every number of a finite set has its rank. *)
LEMMA InOrderItems ==
  ASSUME NEW S \in SUBSET Nat, IsFiniteSet(S)
  PROVE  InOrder(S) \in [1 .. Cardinality(S) -> S] /\ Cardinality(S) \in Nat
<1> DEFINE Upto(x) == {y \in S : y <= x}
           rank == [x \in S |-> Cardinality(Upto(x))]
           n == Cardinality(S)
<1>1. n \in Nat
  BY FS_CardinalityType
<1>2. \A x \in S : IsFiniteSet(Upto(x)) /\ Cardinality(Upto(x)) \in 1 .. n
  <2> SUFFICES ASSUME NEW x \in S
               PROVE  IsFiniteSet(Upto(x)) /\ Cardinality(Upto(x)) \in 1 .. n
    OBVIOUS
  <2>1. PICK U : U = Upto(x)
    OBVIOUS
  <2>2. U \subseteq S /\ x \in U
    BY <2>1
  <2>3. IsFiniteSet(U) /\ Cardinality(U) <= n /\ Cardinality(U) \in Nat
    BY <2>2, FS_Subset, FS_CardinalityType
  <2>4. Cardinality(U) # 0
    BY <2>2, <2>3, FS_EmptySet
  <2>. QED
    BY <1>1, <2>1, <2>3, <2>4
<1>3. \A x, y \in S : x < y => Cardinality(Upto(x)) < Cardinality(Upto(y))
  <2> SUFFICES ASSUME NEW x \in S, NEW y \in S, x < y
               PROVE  Cardinality(Upto(x)) < Cardinality(Upto(y))
    OBVIOUS
  <2>1. PICK U : U = Upto(x)
    OBVIOUS
  <2>2. PICK V : V = Upto(y)
    OBVIOUS
  <2>3. U \subseteq V /\ y \in V /\ y \notin U
    <3>1. S \subseteq Nat
      OBVIOUS
    <3>2. x \in Nat /\ y \in Nat
      BY <3>1
    <3>3. \A z \in S : z <= x => z <= y
      BY <3>1, <3>2
    <3>4. U \subseteq V
      BY <2>1, <2>2, <3>3
    <3>5. y \in V /\ y \notin U
      BY <2>1, <2>2, <3>2
    <3>. QED
      BY <3>4, <3>5
  <2>4. IsFiniteSet(V) /\ IsFiniteSet(U)
    BY <1>2, <2>1, <2>2
  <2>5. Cardinality(U) < Cardinality(V)
    <3>1. Cardinality(U) <= Cardinality(V) /\ Cardinality(U) # Cardinality(V)
      BY <2>3, <2>4, FS_Subset
    <3>. QED
      BY <3>1, <2>4, FS_CardinalityType
  <2>. QED
    BY <2>1, <2>2, <2>5
<1>4. rank \in Injection(S, 1 .. n)
  <2>1. rank \in [S -> 1 .. n]
    <3> HIDE DEF Upto
    <3>. QED
      BY <1>2
  <2>2. \A x, y \in S : rank[x] = rank[y] => x = y
    <3> SUFFICES ASSUME NEW x \in S, NEW y \in S, rank[x] = rank[y], x # y PROVE FALSE
      OBVIOUS
    <3>1. Cardinality(Upto(x)) = Cardinality(Upto(y))
      OBVIOUS
    <3>2. Cardinality(Upto(x)) \in Nat /\ Cardinality(Upto(y)) \in Nat
      BY <1>2
    <3>3. x < y \/ y < x
      OBVIOUS
    <3> HIDE DEF Upto, rank
    <3>. QED
      BY <1>3, <3>1, <3>2, <3>3
  <2>3. PICK T : T = 1 .. n
    OBVIOUS
  <2> HIDE DEF rank, n
  <2>4. rank \in Injection(S, T)
    BY <2>1, <2>2, <2>3 DEF Injection, IsInjective
  <2>. QED
    BY <2>3, <2>4
<1>5. PICK T : T = 1 .. n
  OBVIOUS
<1>6. IsFiniteSet(T) /\ Cardinality(T) = n
  <2>1. IsFiniteSet(1 .. n) /\ Cardinality(1 .. n) = IF 1 > n THEN 0 ELSE n - 1 + 1
    BY <1>1, FS_Interval
  <2>. QED
    BY <1>1, <1>5, <2>1
<1>7. rank \in Surjection(S, T)
  <2> HIDE DEF rank
  <2>. QED
    BY <1>4, <1>5, <1>6, FS_Injection
<1>8. \A i \in 1 .. n : \E x \in S : Cardinality(Upto(x)) = i
  BY <1>5, <1>7 DEF Surjection
<1>. QED
  BY <1>1, <1>8 DEF InOrder

---------------------------------------------------------------------------
(* Kinds *)

(* What a request is, by its kind, *)
LEMMA RequestKinds ==
  /\ \A r \in ClientRequests : r.in \in Nat
  /\ \A r \in ClientRequests : r.kind = "status" => r \in StatusRequests /\ r.ids \in SUBSET Nat
  /\ \A r \in ClientRequests : r.kind = "command" => r \in CommandRequests /\ r.key \in Submissions
  /\ \A r \in ClientRequests :
       r.kind = "read" => r \in ReadRequests /\ r.target \in MutationTargets /\ r.keys \in SUBSET Submissions
  /\ \A r \in ClientRequests : r.kind \in {"status", "command", "read"}
  BY DEF ClientRequests, StatusRequests, CommandRequests, ReadRequests

(* and what the constructors make. *)
LEMMA RequestsMade ==
  /\ \A g \in Nat, O \in SUBSET Nat :
       /\ Status(g, O) \in StatusRequests /\ Status(g, O) \in ClientRequests
       /\ Status(g, O).kind = "status" /\ Status(g, O).in = g /\ Status(g, O).ids = O
  /\ \A g \in Nat, k \in Submissions :
       /\ Mutation(g, k) \in ClientRequests
       /\ Mutation(g, k).kind = "command" /\ Mutation(g, k).in = g /\ Mutation(g, k).key = k
  /\ \A g \in Nat, t \in MutationTargets, K \in SUBSET Submissions :
       /\ Detail(g, t, K) \in ClientRequests
       /\ Detail(g, t, K).kind = "read" /\ Detail(g, t, K).in = g
       /\ Detail(g, t, K).target = t /\ Detail(g, t, K).keys = K
  BY DEF ClientRequests, StatusRequests, CommandRequests, ReadRequests, Status, Mutation, Detail

(* The same of frames. *)
LEMMA FrameKinds ==
  /\ \A f \in Frames : f.kind \in {"update", "resent", "resync", "answer"}
  /\ \A f \in Frames : f.kind \in {"update", "resent"} =>
       f \in UpdateFrames /\ f.op \in Nat /\ f.st \in {"running", "ended"}
  /\ \A f \in Frames : f.kind = "answer" => f \in AnswerFrames /\ f.to \in ClientRequests
  /\ \A f \in Frames : f.kind = "answer" /\ f.to.kind = "status" => f.result \in Reports
  /\ \A f \in Frames : f.kind = "answer" /\ f.to.kind = "command" => f.result \in Nat
  /\ \A f \in Frames : f.kind = "answer" /\ f.to.kind = "read" => f.result \in BOOLEAN
<1>1. \A f \in Frames :
        \/ f \in UpdateFrames /\ f.kind \in {"update", "resent"} /\ f.op \in Nat /\ f.st \in {"running", "ended"}
        \/ f \in ResyncFrames /\ f.kind = "resync"
        \/ f \in StatusAnswers /\ f.kind = "answer" /\ f.to \in StatusRequests /\ f.result \in Reports
        \/ f \in CommandAnswers /\ f.kind = "answer" /\ f.to \in CommandRequests /\ f.result \in Nat
        \/ f \in ReadAnswers /\ f.kind = "answer" /\ f.to \in ReadRequests /\ f.result \in BOOLEAN
  BY DEF Frames, UpdateFrames, ResyncFrames, AnswerFrames, StatusAnswers, CommandAnswers, ReadAnswers
<1>2. /\ \A r \in StatusRequests : r \in ClientRequests /\ r.kind = "status"
      /\ \A r \in CommandRequests : r \in ClientRequests /\ r.kind = "command"
      /\ \A r \in ReadRequests : r \in ClientRequests /\ r.kind = "read"
  BY DEF ClientRequests, StatusRequests, CommandRequests, ReadRequests
<1>. QED
  BY <1>1, <1>2 DEF AnswerFrames

LEMMA FramesMade ==
  /\ Resync \in Frames /\ Resync.kind = "resync"
  /\ \A o \in Nat, st \in {"running", "ended"} :
       /\ Changed(o, st) \in Frames
       /\ Changed(o, st).kind = "update" /\ Changed(o, st).op = o /\ Changed(o, st).st = st
  /\ \A r \in StatusRequests, known \in Reports : Answer(r, known) \in Frames
  /\ \A r \in CommandRequests, op \in Nat : Answer(r, op) \in Frames
  /\ \A r \in ReadRequests, found \in BOOLEAN : Answer(r, found) \in Frames
  /\ \A r, x : Answer(r, x).kind = "answer" /\ Answer(r, x).to = r /\ Answer(r, x).result = x
<1>1. Resync \in ResyncFrames /\ Resync.kind = "resync"
  BY DEF Resync, ResyncFrames
<1>2. \A o \in Nat, st \in {"running", "ended"} :
        /\ Changed(o, st) \in UpdateFrames
        /\ Changed(o, st).kind = "update" /\ Changed(o, st).op = o /\ Changed(o, st).st = st
  BY DEF Changed, UpdateFrames
<1>3. /\ \A r \in StatusRequests, known \in Reports : Answer(r, known) \in StatusAnswers
      /\ \A r \in CommandRequests, op \in Nat : Answer(r, op) \in CommandAnswers
      /\ \A r \in ReadRequests, found \in BOOLEAN : Answer(r, found) \in ReadAnswers
  BY DEF Answer, StatusAnswers, CommandAnswers, ReadAnswers
<1>4. \A r, x : Answer(r, x).kind = "answer" /\ Answer(r, x).to = r /\ Answer(r, x).result = x
  BY DEF Answer
<1>. QED
  BY <1>1, <1>2, <1>3, <1>4 DEF Frames, AnswerFrames

(* The operations of the engine. *)
LEMMA EngineFacts ==
  ASSUME RegistryShapes
  PROVE  /\ Len(engine) \in Nat /\ Accepted = 1 .. Len(engine) /\ Len(engine) <= MaxAccepted
         /\ Accepted \subseteq 1 .. MaxAccepted /\ Accepted \subseteq Nat
         /\ \A o \in Accepted : /\ engine[o] \in EngineEntries
                                /\ engine[o].key \in Submissions \cup {Elsewhere}
                                /\ engine[o].st \in {"running", "ended", "lost"}
         /\ held \subseteq Accepted /\ MaxAccepted \in Nat
<1>1. /\ Len(engine) \in Nat /\ DOMAIN engine = 1 .. Len(engine)
      /\ \A o \in 1 .. Len(engine) : engine[o] \in EngineEntries
  BY ItemsOf DEF RegistryShapes
<1>. QED
  BY <1>1, RegistryAssumption DEF RegistryShapes, Accepted, EngineEntries

---------------------------------------------------------------------------
(* What was sound remains so *)

(* Operations are added; none changes its key or starts to run again. *)
EngineGrows(E, F) ==
  \A o \in DOMAIN E :
    /\ o \in DOMAIN F /\ F[o].key = E[o].key
    /\ E[o].st = "ended" => F[o].st = "ended"
    /\ F[o].st = "running" => E[o].st = "running"

(* Requests and frames stay sound as operations are added and end. *)
LEMMA RequestStaysSound ==
  ASSUME NEW E, NEW F, EngineGrows(E, F), NEW g \in Nat, NEW h \in Nat, g <= h,
         NEW r \in ClientRequests, RequestSound(E, g, r)
  PROVE  RequestSound(F, h, r)
<1>1. r.in \in Nat /\ r.in <= g
  BY RequestKinds DEF RequestSound
<1>2. DOMAIN E \subseteq DOMAIN F
  BY DEF EngineGrows
<1>. QED
  BY <1>1, <1>2 DEF RequestSound

LEMMA FrameStaysSound ==
  ASSUME NEW E, NEW F, EngineGrows(E, F), NEW g \in Nat, NEW h \in Nat, g <= h,
         NEW f \in Frames, FrameSound(E, g, f)
  PROVE  FrameSound(F, h, f)
<1>1. CASE f.kind \in {"update", "resent"}
  BY <1>1 DEF FrameSound, UpdateSound, EngineGrows
<1>2. CASE f.kind = "answer"
  <2>1. f.to \in ClientRequests /\ RequestSound(E, g, f.to)
    BY <1>2, FrameKinds DEF FrameSound
  <2>2. RequestSound(F, h, f.to)
    BY <2>1, RequestStaysSound
  <2>3. ASSUME f.to.kind = "status" PROVE ReportSound(F, f.to, f.result)
    <3>1. ReportSound(E, f.to, f.result) /\ f.to.ids \subseteq DOMAIN E
      BY <1>2, <2>1, <2>3 DEF FrameSound, RequestSound
    <3>. QED
      BY <3>1 DEF ReportSound, EngineGrows
  <2>4. ASSUME f.to.kind = "command" PROVE AcceptanceSound(F, f.to, f.result)
    BY <1>2, <2>4 DEF FrameSound, AcceptanceSound, EngineGrows
  <2>. QED
    BY <1>2, <2>2, <2>3, <2>4 DEF FrameSound
<1>. QED
  BY <1>1, <1>2 DEF FrameSound

(* All traffic at once. *)
LEMMA TrafficStaysSound ==
  ASSUME RegistryShapes, TrafficSound, NEW F, EngineGrows(engine, F), NEW h \in Nat, rebuilds <= h
  PROVE  /\ \A i \in DOMAIN inbound : RequestSound(F, h, inbound[i])
         /\ \A r \in working : RequestSound(F, h, r)
         /\ \A i \in DOMAIN line : FrameSound(F, h, line[i])
<1>1. rebuilds \in Nat
  BY DEF RegistryShapes
<1>2. ASSUME NEW i \in DOMAIN inbound PROVE RequestSound(F, h, inbound[i])
  <2>1. inbound[i] \in ClientRequests
    BY ItemsOf DEF RegistryShapes
  <2>. QED
    BY <1>1, <2>1, RequestStaysSound DEF TrafficSound
<1>3. ASSUME NEW r \in working PROVE RequestSound(F, h, r)
  BY <1>1, RequestStaysSound DEF TrafficSound, RegistryShapes
<1>4. ASSUME NEW i \in DOMAIN line PROVE FrameSound(F, h, line[i])
  <2>1. line[i] \in Frames
    BY ItemsOf DEF RegistryShapes
  <2>. QED
    BY <1>1, <2>1, FrameStaysSound DEF TrafficSound
<1>. QED
  BY <1>2, <1>3, <1>4

LEMMA EngineSame == EngineGrows(engine, engine)
  BY DEF EngineGrows

---------------------------------------------------------------------------
(* The server's steps *)

(* Frames stay in their places, up to the last answer. *)
AnswersStay ==
  \A p \in DOMAIN line :
    line[p].kind = "answer" => p \in DOMAIN line' /\ \A j \in 1 .. p : line'[j] = line[j]

(* An answer that comes first stays first. *)
LEMMA AnswersStillLead ==
  ASSUME NEW r, LeadsAnswers(r), AnswersStay, rebuilds' = rebuilds, RegistryShapes
  PROVE  LeadsAnswers(r)'
<1>1. PICK i \in DOMAIN line :
        /\ line[i].kind = "answer" /\ line[i].to = r
        /\ \A j \in 1 .. i - 1 : line[j].kind = "answer" => ~Current(line[j].to, rebuilds)
  BY DEF LeadsAnswers
<1>2. i \in Nat /\ i >= 1
  BY ItemsOf DEF RegistryShapes
<1>3. i \in DOMAIN line' /\ \A j \in 1 .. i : line'[j] = line[j]
  BY <1>1 DEF AnswersStay
<1>4. line'[i] = line[i] /\ \A j \in 1 .. i - 1 : line'[j] = line[j]
  BY <1>2, <1>3
<1>5. \A j \in 1 .. i - 1 : line'[j].kind = "answer" => ~Current(line'[j].to, rebuilds')
  BY <1>1, <1>4
<1>. QED
  BY <1>1, <1>3, <1>4, <1>5 DEF LeadsAnswers

(* A request that comes first stays first, where nothing new is of its generation. *)
LEMMA RequestsStillLead ==
  ASSUME NEW r, LeadsRequests(r), rebuilds' = rebuilds, RegistryShapes,
         \A i \in DOMAIN inbound : i \in DOMAIN inbound' /\ inbound'[i] = inbound[i],
         \A q \in working' : q \in working \/ ~Current(q, rebuilds),
         \A i \in DOMAIN line' : line'[i].kind = "answer" =>
           \/ \E j \in DOMAIN line : line'[i] = line[j]
           \/ ~Current(line'[i].to, rebuilds)
  PROVE  LeadsRequests(r)'
<1>1. PICK i \in DOMAIN inbound :
        inbound[i] = r /\ \A j \in 1 .. i - 1 : ~Current(inbound[j], rebuilds)
  BY DEF LeadsRequests
<1>2. i \in Nat /\ DOMAIN inbound = 1 .. Len(inbound)
  BY ItemsOf DEF RegistryShapes
<1>3. \A j \in 1 .. i - 1 : j \in DOMAIN inbound
  BY <1>2, ItemsOf DEF RegistryShapes
<1>4. \A j \in 1 .. i - 1 : ~Current(inbound'[j], rebuilds')
  BY <1>1, <1>3
<1>5. \A q \in working' : ~Current(q, rebuilds')
  BY DEF LeadsRequests
<1>6. \A j \in DOMAIN line' : line'[j].kind = "answer" => ~Current(line'[j].to, rebuilds')
  BY DEF LeadsRequests
<1>. QED
  BY <1>1, <1>4, <1>5, <1>6 DEF LeadsRequests

(* What a step of the server that loses no operation has to keep. *)
LEMMA BackendKeeps ==
  ASSUME RegistryInv, EngineGrows(engine, engine'), UNCHANGED clientSide,
         \A o \in Accepted : engine'[o].st = "lost" => engine[o].st = "lost",
         RegistryShapes', EngineHeld', TrafficSound', StatusLeads'
  PROVE  RegistryInv'
<1>1. /\ UNCHANGED <<views, submitted, unverified, pending, asking, rebuilds, witnessed>>
      /\ ViewsSound /\ PendingSound /\ StatusNamesAll /\ UnknownIsOver /\ LostIsGuarded
      /\ RegistryShapes
  BY DEF clientSide, RegistryInv
<1>2. Accepted = DOMAIN engine /\ Accepted' = DOMAIN engine'
  BY DEF Accepted
<1>3. ViewsSound'
  BY <1>1, <1>2 DEF ViewsSound, EngineGrows
<1>4. PendingSound'
  <2>1. rebuilds \in Nat /\ rebuilds <= rebuilds /\ pending \subseteq ClientRequests
    BY <1>1 DEF RegistryShapes
  <2>2. \A r \in pending : RequestSound(engine', rebuilds, r)
    BY <1>1, <2>1, RequestStaysSound DEF PendingSound
  <2>. QED
    BY <1>1, <2>2 DEF PendingSound
<1>5. \A k \in Submissions : submitted[k] # 0 => submitted[k] \in DOMAIN engine
  BY <1>1, <1>2 DEF ViewsSound
<1>6. StatusNamesAll'
  BY <1>1, <1>5 DEF StatusNamesAll, EngineGrows
<1>7. UnknownIsOver'
  BY <1>1, <1>5 DEF UnknownIsOver, EngineGrows
<1>8. LostIsGuarded'
  BY <1>1, <1>2, <1>5 DEF LostIsGuarded
<1>. QED
  BY <1>3, <1>4, <1>6, <1>7, <1>8 DEF RegistryInv

(* An answer is put behind every answer, on what the session streams. *)
LEMMA InsertedBehind ==
  ASSUME RegistryShapes, NEW s \in Seq(Frames), NEW a \in Frames, NEW i \in 1 .. Len(s) + 1,
         Len(line) <= Len(s), \A j \in DOMAIN line : s[j] = line[j],
         \A j \in Reliable : j < i, line' = InsertAt(s, i, a)
  PROVE  /\ line' \in Seq(Frames) /\ i \in DOMAIN line' /\ line'[i] = a
         /\ \A j \in DOMAIN line' : j = i \/ \E p \in DOMAIN s : line'[j] = s[p]
         /\ AnswersStay
<1>1. /\ line' \in Seq(Frames) /\ DOMAIN line' = 1 .. Len(s) + 1
      /\ \A j \in 1 .. i - 1 : line'[j] = s[j]
      /\ line'[i] = a
      /\ \A j \in i + 1 .. Len(s) + 1 : line'[j] = s[j - 1]
  <2>1. PICK r : r = InsertAt(s, i, a)
    OBVIOUS
  <2>2. r \in Seq(Frames) /\ Inserted(r, s, i, a)
    BY ONLY <2>1, s \in Seq(Frames), a \in Frames, i \in 1 .. Len(s) + 1, InsertItems
  <2>. QED
    BY <2>1, <2>2 DEF Inserted
<1>2. /\ Len(s) \in Nat /\ DOMAIN s = 1 .. Len(s)
      /\ Len(line) \in Nat /\ DOMAIN line = 1 .. Len(line)
  BY ItemsOf DEF RegistryShapes
<1>3. \A j \in DOMAIN line' : j = i \/ \E p \in DOMAIN s : line'[j] = s[p]
  <2> SUFFICES ASSUME NEW j \in DOMAIN line', j # i PROVE \E p \in DOMAIN s : line'[j] = s[p]
    OBVIOUS
  <2>1. CASE j < i
    <3>1. j \in 1 .. i - 1 /\ j \in DOMAIN s
      BY <1>1, <1>2, <2>1
    <3>. QED
      BY <1>1, <3>1
  <2>2. CASE j > i
    <3>1. j \in i + 1 .. Len(s) + 1 /\ j - 1 \in DOMAIN s
      BY <1>1, <1>2, <2>2
    <3>. QED
      BY <1>1, <3>1
  <2>. QED
    BY <1>1, <1>2, <2>1, <2>2
<1>4. AnswersStay
  <2> SUFFICES ASSUME NEW p \in DOMAIN line, line[p].kind = "answer"
               PROVE  p \in DOMAIN line' /\ \A j \in 1 .. p : line'[j] = line[j]
    BY DEF AnswersStay
  <2>1. p < i
    BY DEF Reliable
  <2>2. p \in DOMAIN line' /\ \A j \in 1 .. p : j \in 1 .. i - 1 /\ j \in DOMAIN line
    BY <1>1, <1>2, <2>1
  <2>. QED
    BY <1>1, <2>2
<1>. QED
  BY <1>1, <1>3, <1>4

(* A response goes behind every answer that is on its way. *)
LEMMA RespondFacts ==
  ASSUME RegistryShapes, NEW a \in Frames, Respond(a)
  PROVE  /\ line' \in Seq(Frames) /\ AnswersStay
         /\ \E i \in DOMAIN line' :
              /\ line'[i] = a
              /\ \A j \in DOMAIN line' : j = i \/ \E p \in DOMAIN line : line'[j] = line[p]
<1>1. PICK i \in 1 .. Len(line) + 1 : (\A j \in Reliable : j < i) /\ line' = InsertAt(line, i, a)
  BY DEF Respond
<1>2. line \in Seq(Frames) /\ Len(line) <= Len(line)
  BY ItemsOf DEF RegistryShapes
<1>. QED
  BY <1>1, <1>2, InsertedBehind

(* The session's forwarder lags, streams or has no session left. *)
LEMMA StreamedFacts ==
  ASSUME RegistryShapes, NEW u \in Frames, Streamed(line, u)
  PROVE  /\ line' \in Seq(Frames) /\ AnswersStay
         /\ \A i \in DOMAIN line' :
              (i \in DOMAIN line /\ line'[i] = line[i]) \/ line'[i] = u \/ line'[i] = Resync
<1>1. \/ line' = line
      \/ \E e \in {u, Resync} : line' = Append(line, e)
  BY DEF Streamed
<1>2. line \in Seq(Frames) /\ Resync \in Frames /\ DOMAIN line = 1 .. Len(line) /\ Len(line) \in Nat
  BY FramesMade, ItemsOf DEF RegistryShapes
<1>3. CASE line' = line
  BY <1>2, <1>3 DEF AnswersStay
<1>4. ASSUME NEW e \in {u, Resync}, line' = Append(line, e)
      PROVE  /\ line' \in Seq(Frames) /\ AnswersStay
             /\ \A i \in DOMAIN line' :
                  (i \in DOMAIN line /\ line'[i] = line[i]) \/ line'[i] = u \/ line'[i] = Resync
  <2>1. e \in Frames
    BY <1>2
  <2>2. /\ line' \in Seq(Frames) /\ DOMAIN line' = 1 .. Len(line) + 1
        /\ \A i \in DOMAIN line : line'[i] = line[i]
        /\ line'[Len(line) + 1] = e
    BY <1>2, <1>4, <2>1, AppendItems
  <2>3. \A i \in DOMAIN line' : i \in DOMAIN line \/ i = Len(line) + 1
    BY <1>2, <2>2
  <2>4. \A p \in DOMAIN line : p \in DOMAIN line' /\ \A j \in 1 .. p : j \in DOMAIN line
    BY <1>2, <2>2
  <2>. QED
    BY <2>2, <2>3, <2>4 DEF AnswersStay
<1>. QED
  BY <1>1, <1>3, <1>4

(* An operation is added. *)
LEMMA AcceptFacts ==
  ASSUME RegistryShapes, EngineHeld, NEW k \in Submissions \cup {Elsewhere}, AcceptNew(k)
  PROVE  /\ engine' \in Seq(EngineEntries) /\ Len(engine') <= MaxAccepted
         /\ Accepted' = Accepted \cup {Len(engine) + 1} /\ held' \subseteq Accepted'
         /\ engine'[Len(engine) + 1].key = k
         /\ EngineGrows(engine, engine') /\ EngineHeld'
         /\ \A o \in Accepted : engine'[o] = engine[o]
         /\ Len(engine) + 1 \in Nat \ {0}
<1> DEFINE e == [key |-> k, st |-> "running"]
<1>1. e \in EngineEntries /\ e.key = k /\ e.st = "running"
  BY DEF EngineEntries
<1>2. /\ Len(engine) < MaxAccepted /\ engine' = Append(engine, e)
      /\ held' = held \cup {Len(engine) + 1}
  BY DEF AcceptNew
<1> HIDE DEF e
<1>3. /\ engine' \in Seq(EngineEntries) /\ Len(engine') = Len(engine) + 1
      /\ DOMAIN engine' = 1 .. Len(engine) + 1
      /\ \A o \in DOMAIN engine : engine'[o] = engine[o]
      /\ engine'[Len(engine) + 1] = e
  BY <1>1, <1>2, AppendItems DEF RegistryShapes
<1>4. Len(engine) \in Nat /\ Accepted = 1 .. Len(engine) /\ held \subseteq Accepted /\ MaxAccepted \in Nat
  BY EngineFacts
<1>5. Accepted' = Accepted \cup {Len(engine) + 1}
  BY <1>3, <1>4 DEF Accepted
<1>6. EngineGrows(engine, engine')
  BY <1>3, <1>4, <1>5 DEF EngineGrows, Accepted
<1>7. EngineHeld'
  BY <1>1, <1>2, <1>3, <1>4, <1>5 DEF EngineHeld, Accepted
<1>. QED
  BY <1>1, <1>2, <1>3, <1>4, <1>5, <1>6, <1>7 DEF Accepted

(* The status query and its answer stay first while the server responds. *)
LEMMA StatusStillLeads ==
  ASSUME RegistryInv, AnswersStay, UNCHANGED <<pending, rebuilds>>,
         \A i \in DOMAIN inbound : i \in DOMAIN inbound' /\ inbound'[i] = inbound[i],
         \A q \in working' : q \in working \/ ~Current(q, rebuilds),
         \A i \in DOMAIN line' : line'[i].kind = "answer" =>
           (\E j \in DOMAIN line : line'[i] = line[j]) \/ line'[i].to \in working
  PROVE  StatusLeads'
<1> SUFFICES ASSUME NEW r \in pending, r.kind = "status"
             PROVE  LeadsRequests(r)' \/ LeadsAnswers(r)'
  BY DEF StatusLeads
<1>1. RegistryShapes /\ StatusLeads
  BY DEF RegistryInv
<1>2. CASE LeadsRequests(r)
  <2>1. \A q \in working : ~Current(q, rebuilds)
    BY <1>2 DEF LeadsRequests
  <2>. QED
    BY <1>1, <1>2, <2>1, RequestsStillLead
<1>3. CASE LeadsAnswers(r)
  BY <1>1, <1>3, AnswersStillLead
<1>. QED
  BY <1>1, <1>2, <1>3 DEF StatusLeads

(* Traffic is sound when each part of it was, or is new and sound. *)
LEMMA TrafficStillSound ==
  ASSUME RegistryInv, EngineGrows(engine, engine'), rebuilds' = rebuilds,
         \A i \in DOMAIN inbound' : \E j \in DOMAIN inbound : inbound'[i] = inbound[j],
         \A q \in working' : q \in working \/ \E j \in DOMAIN inbound : q = inbound[j],
         \A i \in DOMAIN line' :
           (\E j \in DOMAIN line : line'[i] = line[j]) \/ FrameSound(engine', rebuilds, line'[i])
  PROVE  TrafficSound'
<1>1. RegistryShapes /\ TrafficSound /\ rebuilds \in Nat /\ rebuilds <= rebuilds
  BY DEF RegistryInv, RegistryShapes
<1>2. /\ \A i \in DOMAIN inbound : RequestSound(engine', rebuilds, inbound[i])
      /\ \A r \in working : RequestSound(engine', rebuilds, r)
      /\ \A i \in DOMAIN line : FrameSound(engine', rebuilds, line[i])
  BY <1>1, TrafficStaysSound
<1>. QED
  BY <1>2 DEF TrafficSound

(* An operation that changed, or a gap in what is streamed of it. *)
LEMMA StreamedKeeps ==
  ASSUME RegistryInv, NEW o \in Accepted', NEW st \in {"running", "ended"},
         Streamed(line, Changed(o, st)), st = "ended" => engine'[o].st = "ended",
         EngineGrows(engine, engine'),
         \A x \in Accepted : engine'[x].st = "lost" => engine[x].st = "lost",
         UNCHANGED <<process, inbound, working, up, clientSide>>,
         engine' \in Seq(EngineEntries), Len(engine') <= MaxAccepted, held' \subseteq Accepted',
         EngineHeld'
  PROVE  RegistryInv'
<1> DEFINE u == Changed(o, st)
<1>1. RegistryShapes
  BY DEF RegistryInv
<1>2. UNCHANGED <<views, submitted, unverified, pending, asking, rebuilds, witnessed>>
  BY DEF clientSide
<1>3. o \in Nat
  BY ItemsOf DEF Accepted
<1>4. u \in Frames /\ u.kind = "update" /\ u.op = o /\ u.st = st
  BY <1>3, FramesMade
<1>5. Resync \in Frames /\ Resync.kind = "resync"
  BY FramesMade
<1>6. FrameSound(engine', rebuilds, u) /\ FrameSound(engine', rebuilds, Resync)
  BY <1>4, <1>5 DEF FrameSound, UpdateSound, Accepted
<1>7. /\ line' \in Seq(Frames) /\ AnswersStay
      /\ \A i \in DOMAIN line' :
           (i \in DOMAIN line /\ line'[i] = line[i]) \/ line'[i] = u \/ line'[i] = Resync
  BY <1>1, <1>4, StreamedFacts
<1> HIDE DEF u
<1>8. RegistryShapes'
  BY <1>1, <1>2, <1>7 DEF RegistryShapes
<1>9. TrafficSound'
  BY <1>2, <1>6, <1>7, TrafficStillSound
<1>10. StatusLeads'
  BY <1>2, <1>4, <1>5, <1>7, StatusStillLeads
<1>. QED
  BY <1>8, <1>9, <1>10, BackendKeeps

(* One lemma for each step of the server. *)
LEMMA OtherAcceptedKeeps == RegistryInv /\ OtherAccepted => RegistryInv'
<1> SUFFICES ASSUME RegistryInv, OtherAccepted PROVE RegistryInv'
  OBVIOUS
<1>1. /\ RegistryShapes /\ EngineHeld /\ AcceptNew(Elsewhere)
      /\ Streamed(line, Changed(Len(engine) + 1, "running"))
      /\ UNCHANGED <<process, inbound, working, up, clientSide>>
  BY DEF OtherAccepted, RegistryInv
<1>2. Elsewhere \in Submissions \cup {Elsewhere}
  OBVIOUS
<1>3. /\ engine' \in Seq(EngineEntries) /\ Len(engine') <= MaxAccepted
      /\ Accepted' = Accepted \cup {Len(engine) + 1} /\ held' \subseteq Accepted'
      /\ EngineGrows(engine, engine') /\ EngineHeld'
      /\ \A o \in Accepted : engine'[o] = engine[o]
  BY <1>1, <1>2, AcceptFacts
<1>. QED
  BY <1>1, <1>3, StreamedKeeps

LEMMA EndsKeeps == ASSUME NEW o \in held, RegistryInv, Ends(o) PROVE RegistryInv'
<1>1. /\ RegistryShapes /\ EngineHeld /\ engine[o].st = "running"
      /\ engine' = [engine EXCEPT ![o].st = "ended"]
      /\ Streamed(line, Changed(o, "ended"))
      /\ UNCHANGED <<process, held, inbound, working, up, clientSide>>
  BY DEF Ends, RegistryInv
<1>2. /\ Len(engine) \in Nat /\ Accepted = 1 .. Len(engine)
      /\ \A x \in Accepted : engine[x] \in EngineEntries
      /\ held \subseteq Accepted /\ Len(engine) <= MaxAccepted
  BY <1>1, EngineFacts
<1>3. PICK e \in EngineEntries : e = engine[o]
  BY <1>2
<1>4. PICK f : f = [e EXCEPT !.st = "ended"]
  OBVIOUS
<1>5. f \in EngineEntries /\ f.key = e.key /\ f.st = "ended"
  BY <1>4 DEF EngineEntries
<1>6. engine' = [engine EXCEPT ![o] = f]
  BY <1>1, <1>3, <1>4
<1>7. engine \in Seq(EngineEntries)
  BY <1>1 DEF RegistryShapes
<1>8. /\ engine' \in Seq(EngineEntries) /\ Len(engine') = Len(engine) /\ DOMAIN engine' = DOMAIN engine
      /\ \A x \in DOMAIN engine : engine'[x] = IF x = o THEN f ELSE engine[x]
  BY <1>2, <1>5, <1>6, <1>7
<1>9. Accepted' = Accepted /\ o \in Accepted'
  BY <1>2, <1>8 DEF Accepted
<1>10. EngineGrows(engine, engine')
  BY <1>1, <1>3, <1>5, <1>8 DEF EngineGrows
<1>11. \A x \in Accepted : engine'[x].st = "lost" => engine[x].st = "lost"
  BY <1>5, <1>8 DEF Accepted
<1>12. EngineHeld'
  BY <1>1, <1>2, <1>5, <1>8, <1>9 DEF EngineHeld, Accepted
<1>13. engine'[o].st = "ended" /\ held' \subseteq Accepted'
  BY <1>1, <1>2, <1>5, <1>8, <1>9 DEF Accepted
<1>. QED
  BY <1>1, <1>2, <1>8, <1>9, <1>10, <1>11, <1>12, <1>13, StreamedKeeps

LEMMA ForgetsKeeps == ASSUME NEW o \in held, RegistryInv, Forgets(o) PROVE RegistryInv'
<1>1. /\ RegistryShapes /\ EngineHeld /\ TrafficSound /\ StatusLeads
      /\ engine[o].st = "ended" /\ held' = held \ {o}
      /\ UNCHANGED <<process, engine, inbound, working, up, line, clientSide>>
      /\ UNCHANGED <<views, submitted, unverified, pending, asking, rebuilds, witnessed>>
  BY DEF Forgets, RegistryInv, clientSide
<1>2. RegistryShapes' /\ EngineHeld' /\ TrafficSound'
  BY <1>1 DEF RegistryShapes, EngineHeld, TrafficSound, Accepted
<1>3. StatusLeads'
  BY <1>1 DEF StatusLeads, LeadsRequests, LeadsAnswers
<1>. QED
  BY <1>1, <1>2, <1>3, EngineSame, BackendKeeps

(* A request that waited for the cluster is answered. *)
LEMMA AnswerKeeps ==
  ASSUME RegistryInv, NEW request \in working, NEW a \in Frames,
         a.kind = "answer", a.to = request, FrameSound(engine', rebuilds, a),
         working' = working \ {request}, line' \in Seq(Frames), AnswersStay,
         \A i \in DOMAIN line' :
           \/ line'[i] = a \/ \E p \in DOMAIN line : line'[i] = line[p]
           \/ line'[i].kind = "update" /\ FrameSound(engine', rebuilds, line'[i]),
         EngineGrows(engine, engine'),
         \A x \in Accepted : engine'[x].st = "lost" => engine[x].st = "lost",
         UNCHANGED <<process, inbound, up, clientSide>>,
         engine' \in Seq(EngineEntries), Len(engine') <= MaxAccepted, held' \subseteq Accepted',
         EngineHeld'
  PROVE  RegistryInv'
<1>1. /\ RegistryShapes
      /\ UNCHANGED <<views, submitted, unverified, pending, asking, rebuilds, witnessed>>
  BY DEF RegistryInv, clientSide
<1>2. RegistryShapes'
  BY <1>1 DEF RegistryShapes
<1>3. TrafficSound'
  BY <1>1, TrafficStillSound
<1>4. StatusLeads'
  BY <1>1, StatusStillLeads
<1>. QED
  BY <1>2, <1>3, <1>4, BackendKeeps

(* A request task works on a sound request. *)
LEMMA WorkingSound ==
  ASSUME RegistryInv, NEW request \in working
  PROVE  request \in ClientRequests /\ RequestSound(engine, rebuilds, request)
  BY DEF RegistryInv, RegistryShapes, TrafficSound

(* A sound answer to a request under way, on what was already there. *)
LEMMA RespondKeeps ==
  ASSUME RegistryInv, NEW request \in working, NEW result, Answer(request, result) \in Frames,
         FrameSound(engine, rebuilds, Answer(request, result)),
         Respond(Answer(request, result)), working' = working \ {request},
         UNCHANGED <<process, engine, held, inbound, up, clientSide>>
  PROVE  RegistryInv'
<1> DEFINE a == Answer(request, result)
<1>1. a \in Frames /\ a.kind = "answer" /\ a.to = request /\ FrameSound(engine', rebuilds, a)
  BY FramesMade
<1>2. RegistryShapes /\ EngineHeld /\ Respond(a)
  BY DEF RegistryInv
<1> HIDE DEF a
<1>3. /\ line' \in Seq(Frames) /\ AnswersStay
      /\ \A i \in DOMAIN line' : line'[i] = a \/ \E p \in DOMAIN line : line'[i] = line[p]
  BY <1>1, <1>2, RespondFacts
<1>4. EngineGrows(engine, engine') /\ \A x \in Accepted : engine'[x].st = "lost" => engine[x].st = "lost"
  BY EngineSame
<1>5. /\ engine' \in Seq(EngineEntries) /\ Len(engine') <= MaxAccepted /\ held' \subseteq Accepted'
      /\ EngineHeld'
  BY <1>2 DEF RegistryShapes, EngineHeld, Accepted
<1>. QED
  BY <1>1, <1>3, <1>4, <1>5, AnswerKeeps

(* Commands and reads are answered. *)
LEMMA CommandAnsweredKeeps ==
  ASSUME NEW request \in working, RegistryInv, CommandAnswered(request) PROVE RegistryInv'
<1>1. /\ request.kind = "command" /\ working' = working \ {request}
      /\ UNCHANGED <<process, engine, held, inbound, up, clientSide>>
      /\ \/ \E o \in held : engine[o].key = request.key /\ Respond(Answer(request, o))
         \/ Respond(Answer(request, 0))
  BY DEF CommandAnswered
<1>2. request \in CommandRequests /\ RequestSound(engine, rebuilds, request)
  BY <1>1, WorkingSound, RequestKinds
<1>3. held \subseteq Accepted /\ Accepted \subseteq Nat /\ Accepted = DOMAIN engine
  BY EngineFacts DEF RegistryInv, Accepted
<1>4. ASSUME NEW op \in Nat, Respond(Answer(request, op)),
             op # 0 => op \in DOMAIN engine /\ engine[op].key = request.key
      PROVE  RegistryInv'
  <2>1. /\ Answer(request, op) \in Frames /\ Answer(request, op).kind = "answer"
        /\ Answer(request, op).to = request /\ Answer(request, op).result = op
    BY <1>2, FramesMade
  <2>2. FrameSound(engine, rebuilds, Answer(request, op))
    BY <1>1, <1>2, <1>4, <2>1 DEF FrameSound, AcceptanceSound
  <2>. QED
    BY <1>1, <1>4, <2>1, <2>2, RespondKeeps
<1>. QED
  BY <1>1, <1>3, <1>4

LEMMA ReadAnsweredKeeps ==
  ASSUME NEW request \in working, RegistryInv, ReadAnswered(request) PROVE RegistryInv'
<1>1. /\ request.kind = "read" /\ working' = working \ {request}
      /\ UNCHANGED <<process, engine, held, inbound, up, clientSide>>
  BY DEF ReadAnswered
<1>2. PICK found \in BOOLEAN : Respond(Answer(request, found))
  BY DEF ReadAnswered
<1>3. request \in ReadRequests /\ RequestSound(engine, rebuilds, request)
  BY <1>1, WorkingSound, RequestKinds
<1>4. /\ Answer(request, found) \in Frames /\ Answer(request, found).kind = "answer"
      /\ Answer(request, found).to = request
  BY <1>3, FramesMade
<1>5. FrameSound(engine, rebuilds, Answer(request, found))
  BY <1>1, <1>3, <1>4 DEF FrameSound
<1>. QED
  BY <1>1, <1>2, <1>4, <1>5, RespondKeeps

LEMMA CommandAcceptedKeeps ==
  ASSUME NEW request \in working, RegistryInv, CommandAccepted(request) PROVE RegistryInv'
<1> DEFINE op == Len(engine) + 1
           u == Changed(op, "running")
           a == Answer(request, op)
<1>1. /\ request.kind = "command" /\ working' = working \ {request} /\ AcceptNew(request.key)
      /\ UNCHANGED <<process, inbound, up, clientSide>>
      /\ \E i \in 1 .. Len(line) + 2 :
           (\A j \in Reliable : j < i) /\ line' = InsertAt(Append(line, u), i, a)
  BY DEF CommandAccepted
<1>2. /\ RegistryShapes /\ EngineHeld /\ request \in CommandRequests /\ request.key \in Submissions
      /\ RequestSound(engine, rebuilds, request) /\ request \in ClientRequests
  BY <1>1, WorkingSound, RequestKinds DEF RegistryInv
<1>3. /\ engine' \in Seq(EngineEntries) /\ Len(engine') <= MaxAccepted
      /\ Accepted' = Accepted \cup {op} /\ held' \subseteq Accepted'
      /\ engine'[op].key = request.key
      /\ EngineGrows(engine, engine') /\ EngineHeld'
      /\ \A o \in Accepted : engine'[o] = engine[o]
      /\ op \in Nat
  BY <1>1, <1>2, AcceptFacts
<1> HIDE DEF op
<1>4. u \in Frames /\ u.kind = "update" /\ u.op = op /\ u.st = "running"
  BY <1>3, FramesMade
<1>5. a \in Frames /\ a.kind = "answer" /\ a.to = request /\ a.result = op
  BY <1>2, <1>3, FramesMade
<1>6. op \in DOMAIN engine'
  BY <1>3 DEF Accepted
<1>7. FrameSound(engine', rebuilds, u)
  BY <1>4, <1>6 DEF FrameSound, UpdateSound
<1>8. FrameSound(engine', rebuilds, a)
  <2>1. RequestSound(engine', rebuilds, request)
    <3>1. rebuilds \in Nat /\ rebuilds <= rebuilds
      BY <1>2 DEF RegistryShapes
    <3>. QED
      BY <1>2, <1>3, <3>1, RequestStaysSound
  <2>. QED
    BY <1>1, <1>3, <1>5, <1>6, <2>1 DEF FrameSound, AcceptanceSound
<1> HIDE DEF u, a
<1>9. PICK s \in Seq(Frames) :
        /\ s = Append(line, u) /\ Len(s) = Len(line) + 1 /\ DOMAIN s = 1 .. Len(line) + 1
        /\ \A j \in DOMAIN line : s[j] = line[j]
        /\ s[Len(line) + 1] = u
  <2>1. line \in Seq(Frames)
    BY <1>2 DEF RegistryShapes
  <2>2. /\ Append(line, u) \in Seq(Frames) /\ Len(Append(line, u)) = Len(line) + 1
        /\ DOMAIN Append(line, u) = 1 .. Len(line) + 1
        /\ \A j \in DOMAIN line : Append(line, u)[j] = line[j]
        /\ Append(line, u)[Len(line) + 1] = u
    BY <1>4, <2>1, AppendItems
  <2>. QED
    BY <2>2
<1>10. Len(line) \in Nat /\ DOMAIN line = 1 .. Len(line)
  BY <1>2, ItemsOf DEF RegistryShapes
<1>11. PICK i \in 1 .. Len(line) + 2 :
         (\A j \in Reliable : j < i) /\ line' = InsertAt(Append(line, u), i, a)
  BY <1>1
<1>12. i \in 1 .. Len(s) + 1 /\ Len(line) <= Len(s)
  BY <1>9, <1>10
<1>13. /\ line' \in Seq(Frames) /\ line'[i] = a /\ AnswersStay
       /\ \A j \in DOMAIN line' : j = i \/ \E p \in DOMAIN s : line'[j] = s[p]
  <2>1. RegistryShapes /\ a \in Frames
    BY <1>2, <1>5
  <2>2. line' = InsertAt(s, i, a) /\ \A j \in Reliable : j < i
    BY <1>9, <1>11
  <2>3. \A j \in DOMAIN line : s[j] = line[j]
    BY <1>9
  <2>. QED
    BY <1>12, <2>1, <2>2, <2>3, InsertedBehind
<1>14. \A p \in DOMAIN s : s[p] = u \/ (p \in DOMAIN line /\ s[p] = line[p])
  BY <1>9, <1>10
<1>15. \A j \in DOMAIN line' :
         \/ line'[j] = a \/ \E p \in DOMAIN line : line'[j] = line[p]
         \/ line'[j].kind = "update" /\ FrameSound(engine', rebuilds, line'[j])
  BY <1>4, <1>7, <1>13, <1>14
<1>. QED
  BY <1>1, <1>3, <1>5, <1>8, <1>13, <1>15, AnswerKeeps

(* What a status query is told of the operations that are held. *)
LEMMA ReportFacts ==
  ASSUME RegistryShapes, EngineHeld, NEW request \in StatusRequests,
         RequestSound(engine, rebuilds, request)
  PROVE  LET known == [o \in request.ids \cap held |-> engine[o].st]
         IN known \in Reports /\ FrameSound(engine, rebuilds, Answer(request, known))
<1> DEFINE K == request.ids \cap held
           known == [o \in K |-> engine[o].st]
<1>1. /\ held \subseteq Accepted /\ Accepted \subseteq Nat /\ Accepted = DOMAIN engine
      /\ \A o \in Accepted : engine[o].st \in {"running", "ended", "lost"}
  BY EngineFacts DEF Accepted
<1>2. request.ids \subseteq DOMAIN engine /\ request.kind = "status"
  BY DEF RequestSound, StatusRequests
<1>3. K \in SUBSET Nat /\ \A o \in K : engine[o].st \in {"running", "ended"}
  BY <1>1 DEF EngineHeld
<1>4. known \in [K -> {"running", "ended"}]
  BY <1>3
<1>5. known \in Reports
  BY <1>3, <1>4 DEF Reports
<1>6. DOMAIN known = K /\ \A o \in K : known[o] = engine[o].st
  OBVIOUS
<1> HIDE DEF known
<1>7. ReportSound(engine, request, known)
  BY <1>1, <1>2, <1>6 DEF ReportSound, EngineHeld
<1>8. /\ Answer(request, known).kind = "answer" /\ Answer(request, known).to = request
      /\ Answer(request, known).result = known
  BY FramesMade
<1>9. FrameSound(engine, rebuilds, Answer(request, known))
  BY <1>2, <1>7, <1>8 DEF FrameSound
<1>. QED
  BY <1>5, <1>9 DEF known

(* A request leaves the front of the queue for the cluster or for an answer: *)
(* the status query is answered before anything of its generation is begun.  *)
LEMMA DispatchKeeps == RegistryInv /\ Dispatch => RegistryInv'
<1> SUFFICES ASSUME RegistryInv, Dispatch PROVE RegistryInv'
  OBVIOUS
<1> DEFINE request == Head(inbound)
           known == [o \in request.ids \cap held |-> engine[o].st]
           a == Answer(request, known)
<1>1. /\ RegistryShapes /\ EngineHeld /\ TrafficSound /\ StatusLeads
      /\ inbound # <<>> /\ inbound' = Tail(inbound)
      /\ UNCHANGED <<process, engine, held, up, clientSide>>
      /\ UNCHANGED <<views, submitted, unverified, pending, asking, rebuilds, witnessed>>
  BY DEF RegistryInv, Dispatch, clientSide
<1>2. /\ request.kind = "status" => Respond(a) /\ UNCHANGED working
      /\ request.kind # "status" => working' = working \cup {request} /\ UNCHANGED line
  BY DEF Dispatch
<1>3. /\ request = inbound[1] /\ inbound[1] \in ClientRequests /\ 1 \in DOMAIN inbound
      /\ inbound' \in Seq(ClientRequests) /\ DOMAIN inbound' = 1 .. Len(inbound) - 1
      /\ \A i \in DOMAIN inbound' : i + 1 \in DOMAIN inbound /\ inbound'[i] = inbound[i + 1]
  BY <1>1, TailItems DEF RegistryShapes
<1>4. Len(inbound) \in Nat /\ DOMAIN inbound = 1 .. Len(inbound)
  BY <1>1, ItemsOf DEF RegistryShapes
<1>5. RequestSound(engine, rebuilds, request)
  BY <1>1, <1>3 DEF TrafficSound
<1> HIDE DEF request
<1>6. EngineGrows(engine, engine')
  BY <1>1, EngineSame
<1>7. /\ line' \in Seq(Frames) /\ AnswersStay
      /\ request.kind = "status" =>
           \E p \in DOMAIN line' :
             /\ line'[p].kind = "answer" /\ line'[p].to = request
             /\ FrameSound(engine, rebuilds, line'[p])
             /\ \A j \in DOMAIN line' : j = p \/ \E x \in DOMAIN line : line'[j] = line[x]
      /\ request.kind # "status" => line' = line
  <2>1. CASE request.kind = "status"
    <3>1. request \in StatusRequests
      BY <1>3, <2>1, RequestKinds
    <3>2. known \in Reports /\ FrameSound(engine, rebuilds, a)
      BY <1>1, <1>5, <3>1, ReportFacts
    <3> HIDE DEF known
    <3>3. a \in Frames /\ a.kind = "answer" /\ a.to = request
      BY <3>1, <3>2, FramesMade
    <3>4. Respond(a)
      BY <1>2, <2>1
    <3> HIDE DEF a
    <3>. QED
      BY <1>1, <2>1, <3>2, <3>3, <3>4, RespondFacts
  <2>2. CASE request.kind # "status"
    BY <1>1, <1>2, <2>2 DEF AnswersStay, RegistryShapes
  <2>. QED
    BY <2>1, <2>2
<1>8. RegistryShapes' /\ EngineHeld'
  BY <1>1, <1>2, <1>3, <1>7 DEF RegistryShapes, EngineHeld, Accepted
<1>9. TrafficSound'
  BY <1>1, <1>2, <1>3, <1>6, <1>7, TrafficStillSound
<1>10. StatusLeads'
  <2> SUFFICES ASSUME NEW r \in pending, r.kind = "status"
               PROVE  LeadsRequests(r)' \/ LeadsAnswers(r)'
    BY <1>1 DEF StatusLeads
  <2>1. CASE LeadsAnswers(r)
    BY <1>1, <1>7, <2>1, AnswersStillLead
  <2>2. CASE LeadsRequests(r)
    <3>1. PICK i \in DOMAIN inbound :
            inbound[i] = r /\ \A j \in 1 .. i - 1 : ~Current(inbound[j], rebuilds)
      BY <2>2 DEF LeadsRequests
    <3>2. /\ \A q \in working : ~Current(q, rebuilds)
          /\ \A x \in DOMAIN line : line[x].kind = "answer" => ~Current(line[x].to, rebuilds)
      BY <2>2 DEF LeadsRequests
    <3>3. CASE i = 1
      <4>1. request = r
        BY <1>3, <3>1, <3>3
      <4>2. PICK p \in DOMAIN line' :
              /\ line'[p].kind = "answer" /\ line'[p].to = r
              /\ \A j \in DOMAIN line' : j = p \/ \E x \in DOMAIN line : line'[j] = line[x]
        BY <1>7, <4>1
      <4>3. p \in Nat /\ \A j \in 1 .. p - 1 : j \in DOMAIN line' /\ j # p
        BY <1>7, ItemsOf
      <4>4. \A j \in 1 .. p - 1 : line'[j].kind = "answer" => ~Current(line'[j].to, rebuilds')
        BY <1>1, <3>2, <4>2, <4>3
      <4>. QED
        BY <4>2, <4>4 DEF LeadsAnswers
    <3>4. CASE i # 1
      <4>1. i - 1 \in DOMAIN inbound' /\ 1 \in 1 .. i - 1
        BY <1>3, <1>4, <3>1, <3>4
      <4>2. ~Current(request, rebuilds)
        BY <1>3, <3>1, <4>1
      <4>3. inbound'[i - 1] = r
        BY <1>3, <1>4, <3>1, <4>1
      <4>4. \A j \in 1 .. (i - 1) - 1 : j + 1 \in 1 .. i - 1 /\ j \in DOMAIN inbound'
        BY <1>3, <1>4, <4>1
      <4>5. \A j \in 1 .. (i - 1) - 1 : ~Current(inbound'[j], rebuilds')
        BY <1>1, <1>3, <3>1, <4>4
      <4>6. \A q \in working' : ~Current(q, rebuilds')
        BY <1>1, <1>2, <3>2, <4>2
      <4>7. \A x \in DOMAIN line' : line'[x].kind = "answer" => ~Current(line'[x].to, rebuilds')
        BY <1>1, <1>7, <3>2, <4>2
      <4>. QED
        BY <4>1, <4>3, <4>5, <4>6, <4>7 DEF LeadsRequests
    <3>. QED
      BY <3>3, <3>4
  <2>. QED
    BY <1>1, <2>1, <2>2 DEF StatusLeads
<1>. QED
  BY <1>1, <1>6, <1>8, <1>9, <1>10, BackendKeeps

---------------------------------------------------------------------------
(* The transport *)

(* Nothing is asked of a session that is gone. *)
LEMMA CutKeeps ==
  ASSUME RegistryInv, EngineGrows(engine, engine'), CutOff, Invalidated, UNCHANGED rebuilds,
         \A o \in Accepted : engine'[o].st = "lost" => engine[o].st \in {"lost", "running"},
         RegistryShapes', EngineHeld',
         \A i \in DOMAIN line' : \E j \in DOMAIN line : line'[i] = line[j]
  PROVE  RegistryInv'
<1>1. /\ UNCHANGED <<views, submitted, unverified, asking, rebuilds, witnessed>>
      /\ pending' = {} /\ inbound' = <<>> /\ working' = {}
      /\ ViewsSound /\ UnknownIsOver /\ LostIsGuarded /\ RegistryShapes
  BY DEF RegistryInv, CutOff, Invalidated
<1>2. DOMAIN inbound' = {}
  BY <1>1
<1>3. TrafficSound'
  BY <1>1, <1>2, TrafficStillSound
<1>4. Accepted = DOMAIN engine /\ Accepted' = DOMAIN engine'
  BY DEF Accepted
<1>5. ViewsSound'
  BY <1>1, <1>4 DEF ViewsSound, EngineGrows
<1>6. PendingSound' /\ StatusLeads' /\ StatusNamesAll'
  BY <1>1 DEF PendingSound, StatusLeads, StatusNamesAll
<1>7. \A k \in Submissions : submitted[k] # 0 => submitted[k] \in DOMAIN engine
  BY <1>1, <1>4 DEF ViewsSound
<1>8. UnknownIsOver'
  BY <1>1, <1>7 DEF UnknownIsOver, EngineGrows
<1>9. LostIsGuarded'
  BY <1>1, <1>4, <1>7 DEF LostIsGuarded, UnknownIsOver
<1>. QED
  BY <1>3, <1>5, <1>6, <1>8, <1>9 DEF RegistryInv

(* The transport is lost, alone or with the process. *)
LEMMA DisconnectKeeps == RegistryInv /\ Disconnect => RegistryInv'
<1> SUFFICES ASSUME RegistryInv, Disconnect PROVE RegistryInv'
  OBVIOUS
<1>1. /\ RegistryShapes /\ EngineHeld /\ CutOff /\ Invalidated
      /\ UNCHANGED <<process, engine, held, line, rebuilds>>
  BY DEF RegistryInv, Disconnect
<1>2. /\ UNCHANGED <<views, submitted, unverified>>
      /\ pending' = {} /\ inbound' = <<>> /\ working' = {}
  BY <1>1 DEF CutOff, Invalidated
<1>3. RegistryShapes' /\ EngineHeld'
  BY <1>1, <1>2 DEF RegistryShapes, EngineHeld, Accepted
<1>. QED
  BY <1>1, <1>3, EngineSame, CutKeeps

(* What ran in the process is lost with it, and with all it had sent. *)
LEMMA ProcessReplacedKeeps == RegistryInv /\ ProcessReplaced => RegistryInv'
<1> SUFFICES ASSUME RegistryInv, ProcessReplaced PROVE RegistryInv'
  OBVIOUS
<1>1. /\ RegistryShapes /\ EngineHeld /\ CutOff /\ Invalidated
      /\ process < MaxInstances /\ process' = process + 1
      /\ engine' = [o \in Accepted |->
           IF engine[o].st = "running" THEN [engine[o] EXCEPT !.st = "lost"] ELSE engine[o]]
      /\ held' = {} /\ line' = <<>> /\ UNCHANGED rebuilds
  BY DEF RegistryInv, ProcessReplaced
<1>2. /\ UNCHANGED <<views, submitted, unverified>>
      /\ pending' = {} /\ inbound' = <<>> /\ working' = {}
  BY <1>1 DEF CutOff, Invalidated
<1>3. /\ Len(engine) \in Nat /\ Accepted = 1 .. Len(engine) /\ Len(engine) <= MaxAccepted
      /\ \A o \in Accepted : engine[o] \in EngineEntries
  BY <1>1, EngineFacts
<1>4. \A o \in Accepted :
        /\ engine'[o] \in EngineEntries /\ engine'[o].key = engine[o].key
        /\ engine[o].st = "running" => engine'[o].st = "lost"
        /\ engine[o].st # "running" => engine'[o] = engine[o]
  <2> SUFFICES ASSUME NEW o \in Accepted
               PROVE  /\ engine'[o] \in EngineEntries /\ engine'[o].key = engine[o].key
                      /\ engine[o].st = "running" => engine'[o].st = "lost"
                      /\ engine[o].st # "running" => engine'[o] = engine[o]
    OBVIOUS
  <2>1. PICK e \in EngineEntries : e = engine[o]
    BY <1>3
  <2>2. engine'[o] = IF e.st = "running" THEN [e EXCEPT !.st = "lost"] ELSE e
    BY <1>1, <2>1
  <2>. QED
    BY <2>1, <2>2 DEF EngineEntries
<1>5. engine' \in Seq(EngineEntries) /\ Len(engine') = Len(engine) /\ Accepted' = Accepted
  <2>1. engine' \in [1 .. Len(engine) -> EngineEntries]
    BY <1>1, <1>3, <1>4
  <2>2. engine' \in Seq(EngineEntries) /\ Len(engine') = Len(engine) /\ DOMAIN engine' = 1 .. Len(engine)
    BY <1>3, <2>1
  <2>. QED
    BY <1>3, <2>2 DEF Accepted
<1>6. EngineGrows(engine, engine')
  BY <1>4, <1>5 DEF EngineGrows, Accepted
<1>7. \A o \in Accepted : engine'[o].st = "lost" => engine[o].st \in {"lost", "running"}
  BY <1>4
<1>8. EngineHeld'
  BY <1>1, <1>4, <1>5, <1>3 DEF EngineHeld, EngineEntries
<1>9. process' \in 1 .. MaxInstances
  BY <1>1, RegistryAssumption DEF RegistryShapes
<1>10. RegistryShapes'
  BY <1>1, <1>2, <1>3, <1>5, <1>9 DEF RegistryShapes
<1>11. DOMAIN line' = {}
  BY <1>1
<1>. QED
  BY <1>1, <1>6, <1>7, <1>8, <1>10, <1>11, CutKeeps

---------------------------------------------------------------------------
(* Requests the client makes *)

(* The keys a read of t is begun for. *)
Wanting(open, V, U, t) ==
  {k \in U : /\ TargetOf[k] = t /\ submitted[k] # 0 /\ V[submitted[k]] = "unknown"
             /\ \A r \in open : k \notin r.keys}

(* The reads asked for are sound, and no key waits on two of them. *)
LEMMA TargetReadsFacts ==
  ASSUME RegistryShapes, NEW open, NEW V, NEW U \in SUBSET Submissions, NEW g \in Nat
  PROVE  /\ IsFiniteSet(TargetReads(open, V, U, g)) /\ TargetReads(open, V, U, g) \subseteq ClientRequests
         /\ \A r \in TargetReads(open, V, U, g) :
              /\ r.kind = "read" /\ r.in = g
              /\ \A k \in r.keys : TargetOf[k] = r.target /\ \A q \in open : k \notin q.keys
         /\ \A r, q \in TargetReads(open, V, U, g) : r.keys \cap q.keys # {} => r = q
<1> DEFINE read(t) == Detail(g, t, Wanting(open, V, U, t))
           T == {t \in MutationTargets : Wanting(open, V, U, t) # {}}
           reads == {read(t) : t \in T}
<1>1. TargetReads(open, V, U, g) = reads
  BY DEF TargetReads, Wanting
<1>2. ASSUME NEW t \in MutationTargets
      PROVE  /\ read(t) \in ClientRequests /\ read(t).kind = "read" /\ read(t).in = g
             /\ read(t).target = t /\ read(t).keys = Wanting(open, V, U, t)
             /\ \A k \in read(t).keys : TargetOf[k] = t /\ \A q \in open : k \notin q.keys
  <2>1. Wanting(open, V, U, t) \in SUBSET Submissions
    BY DEF Wanting
  <2>2. /\ read(t) \in ClientRequests /\ read(t).kind = "read" /\ read(t).in = g
        /\ read(t).target = t /\ read(t).keys = Wanting(open, V, U, t)
    BY <2>1, RequestsMade
  <2>. QED
    BY <2>2 DEF Wanting
<1>3. IsFiniteSet(reads)
  <2>1. IsFiniteSet(T)
    BY FS_Subset, RegistryAssumption
  <2>2. [t \in T |-> read(t)] \in Surjection(T, reads)
    BY DEF Surjection
  <2> HIDE DEF T, reads, read
  <2>. QED
    BY <2>1, <2>2, FS_Surjection
<1> HIDE DEF read
<1>4. \A t \in T : t \in MutationTargets
  OBVIOUS
<1>5. /\ reads \subseteq ClientRequests
      /\ \A r \in reads :
           /\ r.kind = "read" /\ r.in = g
           /\ \A k \in r.keys : TargetOf[k] = r.target /\ \A q \in open : k \notin q.keys
  BY <1>2, <1>4
<1>6. \A r, q \in reads : r.keys \cap q.keys # {} => r = q
  <2> SUFFICES ASSUME NEW s \in T, NEW t \in T, read(s).keys \cap read(t).keys # {}
               PROVE  s = t
    OBVIOUS
  <2>1. PICK k : k \in read(s).keys /\ k \in read(t).keys
    OBVIOUS
  <2>. QED
    BY <1>2, <1>4, <2>1
<1>. QED
  BY <1>1, <1>3, <1>5, <1>6

(* The requests of a rebuild, the status query first. *)
LEMMA AsksFacts ==
  ASSUME NEW status, NEW reads, IsFiniteSet(reads),
         reads \subseteq ClientRequests, status \subseteq ClientRequests,
         \A r \in reads : r.kind = "read", \A r \in status : r.kind = "status",
         status = {} \/ \E r : status = {r}
  PROVE  /\ Asks(status \cup reads) \in Seq(ClientRequests)
         /\ \A i \in DOMAIN Asks(status \cup reads) : Asks(status \cup reads)[i] \in status \cup reads
         /\ \A r \in status : 1 \in DOMAIN Asks(status \cup reads) /\ Asks(status \cup reads)[1] = r
<1> DEFINE all == status \cup reads
<1>1. {r \in all : r.kind = "status"} = status /\ {r \in all : r.kind # "status"} = reads
  OBVIOUS
<1>2. Asks(all) = SetToSeq(status) \o SetToSeq(reads)
  <2> HIDE DEF all
  <2>. QED
    BY <1>1 DEF Asks
<1>3. IsFiniteSet(status)
  BY FS_EmptySet, FS_Singleton
<1>4. /\ SetToSeq(reads) \in Seq(reads) /\ \A i \in DOMAIN SetToSeq(reads) : SetToSeq(reads)[i] \in reads
      /\ SetToSeq(status) \in Seq(status) /\ \A i \in DOMAIN SetToSeq(status) : SetToSeq(status)[i] \in status
  BY <1>3, SetToSeqItems
<1>5. PICK a : a = SetToSeq(status)
  OBVIOUS
<1>6. PICK b : b = SetToSeq(reads)
  OBVIOUS
<1>7. /\ a \in Seq(ClientRequests) /\ b \in Seq(ClientRequests)
      /\ \A i \in DOMAIN a : a[i] \in status
      /\ \A i \in DOMAIN b : b[i] \in reads
  BY <1>4, <1>5, <1>6
<1>8. /\ Len(a) \in Nat /\ DOMAIN a = 1 .. Len(a) /\ Len(b) \in Nat /\ DOMAIN b = 1 .. Len(b)
  BY <1>7, ItemsOf
<1>9. /\ a \o b \in Seq(ClientRequests) /\ DOMAIN (a \o b) = 1 .. Len(a) + Len(b)
      /\ \A i \in 1 .. Len(a) : (a \o b)[i] = a[i]
      /\ \A i \in Len(a) + 1 .. Len(a) + Len(b) : (a \o b)[i] = b[i - Len(a)]
  BY <1>7, JoinedItems
<1>10. \A i \in DOMAIN (a \o b) : (a \o b)[i] \in all
  <2> SUFFICES ASSUME NEW i \in 1 .. Len(a) + Len(b) PROVE (a \o b)[i] \in all
    BY <1>9
  <2>1. CASE i <= Len(a)
    BY <1>7, <1>8, <1>9, <2>1
  <2>2. CASE i > Len(a)
    <3>1. i \in Len(a) + 1 .. Len(a) + Len(b) /\ i - Len(a) \in DOMAIN b
      BY <1>8, <2>2
    <3>. QED
      BY <1>7, <1>9, <3>1
  <2>. QED
    BY <1>8, <2>1, <2>2
<1>11. \A r \in status : 1 \in DOMAIN (a \o b) /\ (a \o b)[1] = r
  <2> SUFFICES ASSUME NEW r \in status PROVE 1 \in DOMAIN (a \o b) /\ (a \o b)[1] = r
    OBVIOUS
  <2>1. a = <<r>>
    <3>1. status = {r}
      OBVIOUS
    <3>. QED
      BY <1>5, <3>1, SingletonToSeq
  <2>2. Len(a) = 1 /\ a[1] = r
    BY <2>1
  <2>. QED
    BY <1>8, <1>9, <2>2
<1>. QED
  BY <1>2, <1>5, <1>6, <1>9, <1>10, <1>11

(* A status query names what exists. *)
LEMMA NonterminalFacts ==
  ASSUME RegistryShapes, ViewsSound
  PROVE  Nonterminal \subseteq Accepted /\ Nonterminal \in SUBSET Nat /\ Accepted = DOMAIN engine
<1>1. DOMAIN views = 1 .. MaxAccepted
  BY DEF RegistryShapes, Views
<1>. QED
  BY <1>1, EngineFacts DEF Nonterminal, ViewsSound, Accepted

(* What is asked for when all server state is rebuilt. *)
LEMMA RebuiltFacts ==
  ASSUME RegistryInv, NEW sent, Rebuilt(sent)
  PROVE  /\ rebuilds' = rebuilds + 1 /\ rebuilds' \in Nat
         /\ UNCHANGED <<views, submitted, unverified, witnessed>>
         /\ pending' \subseteq ClientRequests
         /\ \E asks \in Seq(ClientRequests) :
              /\ inbound' = sent \o asks
              /\ \A i \in DOMAIN asks : asks[i] \in pending'
              /\ \A r \in pending' : r.kind = "status" => 1 \in DOMAIN asks /\ asks[1] = r
         /\ \A r \in pending' : r.kind = "status" => r.ids = Nonterminal
         /\ \A r \in pending' : r.in = rebuilds' /\ RequestSound(engine, rebuilds', r)
         /\ \A r \in pending' : r.kind # "command"
         /\ \A r, q \in pending' : r.kind = "status" /\ q.kind = "status" => r = q
         /\ \A r, q \in pending' :
              r.kind = "read" /\ q.kind = "read" /\ r.keys \cap q.keys # {} => r = q
<1> DEFINE g == rebuilds + 1
           status == IF Nonterminal = {} THEN {} ELSE {Status(g, Nonterminal)}
           reads == TargetReads({}, views, unverified, g)
<1>1. RegistryShapes /\ ViewsSound /\ g \in Nat /\ unverified \in SUBSET Submissions
  BY DEF RegistryInv, RegistryShapes
<1>2. /\ rebuilds' = g /\ pending' = status \cup reads /\ inbound' = sent \o Asks(status \cup reads)
      /\ UNCHANGED <<views, submitted, unverified, witnessed>>
  BY DEF Rebuilt
<1>3. Nonterminal \in SUBSET Nat /\ Nonterminal \subseteq DOMAIN engine
  BY <1>1, NonterminalFacts
<1> HIDE DEF g
<1>4. /\ IsFiniteSet(reads) /\ reads \subseteq ClientRequests
      /\ \A r \in reads : r.kind = "read" /\ r.in = g /\ \A k \in r.keys : TargetOf[k] = r.target
      /\ \A r, q \in reads : r.keys \cap q.keys # {} => r = q
  <2>1. PICK none : none = {}
    OBVIOUS
  <2>2. reads = TargetReads(none, views, unverified, g)
    BY <2>1
  <2>3. PICK R : R = TargetReads(none, views, unverified, g)
    OBVIOUS
  <2>4. /\ IsFiniteSet(R) /\ R \subseteq ClientRequests
        /\ \A r \in R :
             /\ r.kind = "read" /\ r.in = g
             /\ \A k \in r.keys : TargetOf[k] = r.target /\ \A q \in none : k \notin q.keys
        /\ \A r, q \in R : r.keys \cap q.keys # {} => r = q
    BY <1>1, <2>3, TargetReadsFacts
  <2> HIDE DEF reads
  <2>. QED
    BY <2>2, <2>3, <2>4
<1> HIDE DEF reads
<1>5. /\ status \subseteq ClientRequests
      /\ \A r \in status : r.kind = "status" /\ r.in = g /\ r.ids = Nonterminal
      /\ \A r, q \in status : r = q
      /\ status = {} \/ \E r : status = {r}
  <2>1. CASE Nonterminal = {}
    BY <2>1
  <2>2. CASE Nonterminal # {}
    <3>1. PICK r : r = Status(g, Nonterminal)
      OBVIOUS
    <3>2. r \in ClientRequests /\ r.kind = "status" /\ r.in = g /\ r.ids = Nonterminal
      <4>1. \A h \in Nat, O \in SUBSET Nat :
              /\ Status(h, O) \in ClientRequests
              /\ Status(h, O).kind = "status" /\ Status(h, O).in = h /\ Status(h, O).ids = O
        BY RequestsMade
      <4>2. g \in Nat /\ Nonterminal \in SUBSET Nat
        BY <1>1, <1>3
      <4>. QED
        BY <3>1, <4>1, <4>2
    <3>3. status = {r}
      BY <2>2, <3>1
    <3> HIDE DEF status
    <3>. QED
      BY <3>2, <3>3
  <2>. QED
    BY <2>1, <2>2
<1> HIDE DEF status
<1>6. /\ Asks(status \cup reads) \in Seq(ClientRequests)
      /\ \A i \in DOMAIN Asks(status \cup reads) : Asks(status \cup reads)[i] \in status \cup reads
      /\ \A r \in status : 1 \in DOMAIN Asks(status \cup reads) /\ Asks(status \cup reads)[1] = r
  <2>1. /\ IsFiniteSet(reads) /\ reads \subseteq ClientRequests
        /\ \A r \in reads : r.kind = "read"
    BY <1>4
  <2>2. /\ status \subseteq ClientRequests /\ \A r \in status : r.kind = "status"
        /\ status = {} \/ \E r : status = {r}
    BY <1>5
  <2>. QED
    BY <2>1, <2>2, AsksFacts
<1>7. \A r \in pending' : r.kind = "status" => r \in status
  BY <1>2, <1>4
<1>8. \A r \in pending' : r.kind # "status" => r \in reads
  BY <1>2, <1>5
<1>9. \A r \in pending' : r.in = g
  BY <1>2, <1>4, <1>5
<1>10. \A r \in pending' : RequestSound(engine, g, r)
  <2> SUFFICES ASSUME NEW r \in pending' PROVE RequestSound(engine, g, r)
    OBVIOUS
  <2>1. r.in <= g
    BY <1>1, <1>9
  <2>2. r.kind = "status" => r.ids \subseteq DOMAIN engine
    BY <1>3, <1>5, <1>7
  <2>3. r.kind = "read" => \A k \in r.keys : TargetOf[k] = r.target
    BY <1>4, <1>8
  <2>. QED
    BY <2>1, <2>2, <2>3 DEF RequestSound
<1>11. \E asks \in Seq(ClientRequests) :
         /\ inbound' = sent \o asks
         /\ \A i \in DOMAIN asks : asks[i] \in pending'
         /\ \A r \in pending' : r.kind = "status" => 1 \in DOMAIN asks /\ asks[1] = r
  BY <1>2, <1>6, <1>7
<1>. QED
  <2>1. rebuilds' = rebuilds + 1 /\ rebuilds' \in Nat
    BY <1>1, <1>2 DEF g
  <2>2. \A r \in pending' : r.kind # "command"
    BY <1>4, <1>5, <1>7, <1>8
  <2>3. \A r, q \in pending' : r.kind = "status" /\ q.kind = "status" => r = q
    BY <1>5, <1>7
  <2>4. \A r, q \in pending' :
          r.kind = "read" /\ q.kind = "read" /\ r.keys \cap q.keys # {} => r = q
    BY <1>4, <1>8
  <2>5. \A r \in pending' : r.in = rebuilds' /\ RequestSound(engine, rebuilds', r)
    BY <1>2, <1>9, <1>10
  <2>6. \A r \in pending' : r.kind = "status" => r.ids = Nonterminal
    BY <1>5, <1>7
  <2>. QED
    BY <1>2, <1>4, <1>5, <1>11, <2>1, <2>2, <2>3, <2>4, <2>5, <2>6

(* A new generation of requests: what is still under way is older. *)
LEMMA RebuiltKeeps ==
  ASSUME RegistryInv, NEW sent \in Seq(ClientRequests), Rebuilt(sent),
         \A i \in DOMAIN sent : RequestSound(engine, rebuilds, sent[i]),
         UNCHANGED <<process, engine, held, working>>,
         line' \in Seq(Frames), \A i \in DOMAIN line' : FrameSound(engine, rebuilds, line'[i])
  PROVE  RegistryInv'
<1>1. /\ RegistryShapes /\ EngineHeld /\ TrafficSound /\ ViewsSound
      /\ UnknownIsOver /\ LostIsGuarded
      /\ rebuilds \in Nat /\ rebuilds <= rebuilds + 1
  BY DEF RegistryInv, RegistryShapes
<1>2. /\ rebuilds' = rebuilds + 1 /\ rebuilds' \in Nat
      /\ UNCHANGED <<views, submitted, unverified, witnessed>>
      /\ pending' \subseteq ClientRequests
      /\ \A r \in pending' : r.kind = "status" => r.ids = Nonterminal
      /\ \A r \in pending' : r.in = rebuilds' /\ RequestSound(engine, rebuilds', r)
      /\ \A r \in pending' : r.kind # "command"
      /\ \A r, q \in pending' : r.kind = "status" /\ q.kind = "status" => r = q
      /\ \A r, q \in pending' : r.kind = "read" /\ q.kind = "read" /\ r.keys \cap q.keys # {} => r = q
  BY RebuiltFacts
<1>3. PICK asks \in Seq(ClientRequests) :
        /\ inbound' = sent \o asks
        /\ \A i \in DOMAIN asks : asks[i] \in pending'
        /\ \A r \in pending' : r.kind = "status" => 1 \in DOMAIN asks /\ asks[1] = r
  BY RebuiltFacts
<1>4. /\ Len(sent) \in Nat /\ DOMAIN sent = 1 .. Len(sent)
      /\ \A i \in 1 .. Len(sent) : sent[i] \in ClientRequests
      /\ Len(asks) \in Nat /\ DOMAIN asks = 1 .. Len(asks)
  BY ItemsOf
<1>5. /\ inbound' \in Seq(ClientRequests) /\ DOMAIN inbound' = 1 .. Len(sent) + Len(asks)
      /\ \A i \in 1 .. Len(sent) : inbound'[i] = sent[i]
      /\ \A i \in Len(sent) + 1 .. Len(sent) + Len(asks) : inbound'[i] = asks[i - Len(sent)]
  BY <1>3, JoinedItems
<1>6. RegistryShapes' /\ EngineHeld'
  BY <1>1, <1>2, <1>5 DEF RegistryShapes, EngineHeld, Accepted
<1>7. TrafficSound'
  <2>1. \A i \in DOMAIN inbound' : RequestSound(engine, rebuilds', inbound'[i])
    <3> SUFFICES ASSUME NEW i \in DOMAIN inbound' PROVE RequestSound(engine, rebuilds', inbound'[i])
      OBVIOUS
    <3>1. CASE i <= Len(sent)
      <4>1. i \in 1 .. Len(sent) /\ inbound'[i] = sent[i] /\ sent[i] \in ClientRequests
        BY <1>4, <1>5, <3>1
      <4>. QED
        BY <1>1, <1>2, <1>4, <4>1, EngineSame, RequestStaysSound
    <3>2. CASE i > Len(sent)
      <4>1. /\ i \in Len(sent) + 1 .. Len(sent) + Len(asks) /\ i - Len(sent) \in DOMAIN asks
            /\ inbound'[i] = asks[i - Len(sent)]
        BY <1>4, <1>5, <3>2
      <4>. QED
        BY <1>2, <1>3, <4>1
    <3>. QED
      BY <1>4, <1>5, <3>1, <3>2
  <2>2. \A r \in working : RequestSound(engine, rebuilds', r)
    BY <1>1, <1>2, EngineSame, TrafficStaysSound
  <2>3. \A i \in DOMAIN line' : FrameSound(engine, rebuilds', line'[i])
    <3> SUFFICES ASSUME NEW i \in DOMAIN line' PROVE FrameSound(engine, rebuilds', line'[i])
      OBVIOUS
    <3>1. line'[i] \in Frames
      BY ItemsOf
    <3>. QED
      BY <1>1, <1>2, <3>1, EngineSame, FrameStaysSound
  <2>. QED
    BY <2>1, <2>2, <2>3 DEF TrafficSound
<1>8. ViewsSound' /\ UnknownIsOver' /\ LostIsGuarded'
  BY <1>1, <1>2 DEF ViewsSound, UnknownIsOver, LostIsGuarded, Accepted
<1>9. PendingSound'
  BY <1>2 DEF PendingSound
<1>10. StatusLeads'
  <2> SUFFICES ASSUME NEW r \in pending', r.kind = "status" PROVE LeadsRequests(r)'
    BY DEF StatusLeads
  <2>1. 1 \in DOMAIN asks /\ asks[1] = r
    BY <1>3
  <2>2. Len(sent) + 1 \in DOMAIN inbound' /\ inbound'[Len(sent) + 1] = r
    <3>1. Len(sent) + 1 \in Len(sent) + 1 .. Len(sent) + Len(asks) /\ (Len(sent) + 1) - Len(sent) = 1
      BY <1>4, <2>1
    <3>2. Len(sent) + 1 \in DOMAIN inbound'
      BY <1>4, <1>5, <3>1
    <3>. QED
      BY <1>5, <2>1, <3>1, <3>2
  <2>3. \A x \in ClientRequests : RequestSound(engine, rebuilds, x) => ~Current(x, rebuilds')
    <3> SUFFICES ASSUME NEW x \in ClientRequests, RequestSound(engine, rebuilds, x)
                 PROVE  ~Current(x, rebuilds')
      OBVIOUS
    <3>1. x.in \in Nat /\ x.in <= rebuilds
      BY RequestKinds DEF RequestSound
    <3>. QED
      BY <1>1, <1>2, <3>1 DEF Current
  <2>4. \A j \in 1 .. (Len(sent) + 1) - 1 : ~Current(inbound'[j], rebuilds')
    <3> SUFFICES ASSUME NEW j \in 1 .. (Len(sent) + 1) - 1 PROVE ~Current(inbound'[j], rebuilds')
      OBVIOUS
    <3>1. j \in 1 .. Len(sent)
      BY <1>4
    <3>. QED
      BY <1>4, <1>5, <2>3, <3>1
  <2>5. \A q \in working' : ~Current(q, rebuilds')
    BY <1>1, <2>3 DEF TrafficSound, RegistryShapes
  <2>6. \A i \in DOMAIN line' : line'[i].kind = "answer" => ~Current(line'[i].to, rebuilds')
    <3> SUFFICES ASSUME NEW i \in DOMAIN line', line'[i].kind = "answer"
                 PROVE  ~Current(line'[i].to, rebuilds')
      OBVIOUS
    <3>1. line'[i] \in Frames
      BY ItemsOf
    <3>2. line'[i].to \in ClientRequests /\ RequestSound(engine, rebuilds, line'[i].to)
      BY <3>1, FrameKinds DEF FrameSound
    <3>. QED
      BY <2>3, <3>2
  <2>. QED
    BY <2>2, <2>4, <2>5, <2>6 DEF LeadsRequests
<1>11. StatusNamesAll'
  <2> SUFFICES ASSUME NEW k \in Submissions, submitted[k] # 0, engine[submitted[k]].st = "running"
               PROVE  submitted[k] \in Nonterminal
    BY <1>2 DEF StatusNamesAll
  <2>1. submitted[k] \in Accepted /\ views[submitted[k]] # "none"
    BY <1>1 DEF ViewsSound
  <2>2. submitted[k] \in DOMAIN views
    BY <1>1, <2>1, EngineFacts DEF RegistryShapes, Views
  <2>3. views[submitted[k]] \in {"none", "running", "ended", "unknown"}
    BY <1>1, <2>2 DEF RegistryShapes, Views
  <2>4. views[submitted[k]] # "ended" /\ views[submitted[k]] # "unknown"
    BY <1>1, <2>2 DEF ViewsSound, UnknownIsOver
  <2>. QED
    BY <2>1, <2>2, <2>3, <2>4 DEF Nonterminal
<1>. QED
  BY <1>6, <1>7, <1>8, <1>9, <1>10, <1>11 DEF RegistryInv

(* Frames that are sent again say what they said. *)
LEMMA ResentFacts ==
  ASSUME RegistryShapes, TrafficSound, NEW n \in 0 .. Len(line)
  PROVE  /\ Resent(n) \in Seq(Frames)
         /\ \A i \in DOMAIN Resent(n) : FrameSound(engine, rebuilds, Resent(n)[i])
<1> DEFINE S == {i \in 1 .. n : line[i].kind \in {"update", "resent"}}
           sent == InOrder(S)
           f == [i \in DOMAIN sent |-> [line[sent[i]] EXCEPT !.kind = "resent"]]
<1>1. /\ Len(line) \in Nat /\ DOMAIN line = 1 .. Len(line) /\ n \in Nat /\ n <= Len(line)
      /\ \A i \in 1 .. Len(line) : line[i] \in Frames
  BY ItemsOf DEF RegistryShapes
<1>2. S \in SUBSET Nat /\ S \subseteq DOMAIN line /\ S \subseteq 1 .. n
  BY <1>1
<1>3. IsFiniteSet(S)
  <2> HIDE DEF S
  <2>1. IsFiniteSet(1 .. n)
    BY <1>1, FS_Interval
  <2>. QED
    BY <1>2, <2>1, FS_Subset
<1>4. Resent(n) = f
  BY DEF Resent
<1>5. sent \in [1 .. Cardinality(S) -> S] /\ Cardinality(S) \in Nat
  <2> HIDE DEF S
  <2>. QED
    BY <1>2, <1>3, InOrderItems
<1>6. \A x \in S : /\ line[x] \in UpdateFrames
                   /\ UpdateSound(engine, line[x])
  <2> SUFFICES ASSUME NEW x \in S PROVE line[x] \in UpdateFrames /\ UpdateSound(engine, line[x])
    OBVIOUS
  <2>1. line[x] \in Frames /\ line[x].kind \in {"update", "resent"} /\ x \in DOMAIN line
    BY <1>1, <1>2
  <2>. QED
    BY <2>1, FrameKinds DEF TrafficSound, FrameSound
<1> HIDE DEF S, sent
<1>7. \A i \in 1 .. Cardinality(S) :
        f[i] \in UpdateFrames /\ f[i].kind = "resent" /\ UpdateSound(engine, f[i])
  <2> SUFFICES ASSUME NEW i \in 1 .. Cardinality(S)
               PROVE  f[i] \in UpdateFrames /\ f[i].kind = "resent" /\ UpdateSound(engine, f[i])
    OBVIOUS
  <2>1. sent[i] \in S /\ i \in DOMAIN sent
    BY <1>5
  <2>2. PICK u \in UpdateFrames : u = line[sent[i]] /\ UpdateSound(engine, u)
    BY <1>6, <2>1
  <2>3. f[i] = [u EXCEPT !.kind = "resent"]
    BY <2>1, <2>2
  <2>4. PICK v : v = f[i]
    OBVIOUS
  <2>5. v \in UpdateFrames /\ v.kind = "resent" /\ v.op = u.op /\ v.st = u.st
    BY <2>2, <2>3, <2>4 DEF UpdateFrames
  <2>6. UpdateSound(engine, v)
    BY <2>2, <2>5 DEF UpdateSound
  <2> HIDE DEF f
  <2>. QED
    BY <2>4, <2>5, <2>6
<1>8. DOMAIN f = 1 .. Cardinality(S) /\ f \in [1 .. Cardinality(S) -> UpdateFrames]
  BY <1>5, <1>7
<1> HIDE DEF f
<1>9. f \in Seq(UpdateFrames)
  BY ONLY <1>5, <1>8
<1>10. f \in Seq(Frames)
  <2>1. UpdateFrames \subseteq Frames
    BY DEF Frames
  <2>. QED
    BY <1>9, <2>1
<1>11. \A i \in DOMAIN f : FrameSound(engine, rebuilds, f[i])
  BY <1>7, <1>8 DEF FrameSound
<1>. QED
  BY <1>4, <1>10, <1>11

(* A session that begins is told what runs. *)
LEMMA LiveCutFacts ==
  ASSUME RegistryShapes
  PROVE  LET cut == [i \in DOMAIN LiveCut |-> Changed(LiveCut[i], "running")]
         IN cut \in Seq(Frames) /\ \A i \in DOMAIN cut : FrameSound(engine, rebuilds, cut[i])
<1> DEFINE S == {o \in held : engine[o].st = "running"}
           cut == [i \in DOMAIN LiveCut |-> Changed(LiveCut[i], "running")]
<1>1. /\ S \subseteq Accepted /\ S \in SUBSET Nat /\ Accepted = 1 .. Len(engine) /\ Len(engine) \in Nat
      /\ Accepted = DOMAIN engine
  BY EngineFacts DEF Accepted
<1>2. IsFiniteSet(S)
  <2> HIDE DEF S
  <2>1. IsFiniteSet(1 .. Len(engine))
    BY <1>1, FS_Interval
  <2>. QED
    BY <1>1, <2>1, FS_Subset
<1>3. LiveCut = InOrder(S)
  BY DEF LiveCut
<1> HIDE DEF S
<1>4. LiveCut \in [1 .. Cardinality(S) -> S] /\ Cardinality(S) \in Nat
  BY <1>1, <1>2, <1>3, InOrderItems
<1>5. \A i \in 1 .. Cardinality(S) :
        cut[i] \in Frames /\ cut[i].kind = "update" /\ UpdateSound(engine, cut[i])
  <2> SUFFICES ASSUME NEW i \in 1 .. Cardinality(S)
               PROVE  cut[i] \in Frames /\ cut[i].kind = "update" /\ UpdateSound(engine, cut[i])
    OBVIOUS
  <2>1. LiveCut[i] \in S /\ i \in DOMAIN LiveCut
    BY <1>4
  <2>2. LiveCut[i] \in Nat /\ LiveCut[i] \in DOMAIN engine
    BY <1>1, <2>1
  <2>3. PICK u : u = Changed(LiveCut[i], "running")
    OBVIOUS
  <2>4. cut[i] = u
    BY <2>1, <2>3
  <2>5. u \in Frames /\ u.kind = "update" /\ u.op = LiveCut[i] /\ u.st = "running"
    BY <2>2, <2>3, FramesMade
  <2> HIDE DEF cut
  <2>. QED
    BY <2>2, <2>4, <2>5 DEF UpdateSound
<1>6. DOMAIN cut = 1 .. Cardinality(S) /\ cut \in [1 .. Cardinality(S) -> Frames]
  BY <1>4, <1>5
<1> HIDE DEF cut
<1>7. cut \in Seq(Frames)
  BY ONLY <1>4, <1>6
<1>8. \A i \in DOMAIN cut : FrameSound(engine, rebuilds, cut[i])
  BY <1>5, <1>6 DEF FrameSound
<1>. QED
  BY <1>7, <1>8 DEF cut

(* A welcome. *)
LEMMA ReconnectKeeps == RegistryInv /\ Reconnect => RegistryInv'
<1> SUFFICES ASSUME RegistryInv, Reconnect PROVE RegistryInv'
  OBVIOUS
<1> DEFINE cut == [i \in DOMAIN LiveCut |-> Changed(LiveCut[i], "running")]
<1>1. /\ RegistryShapes /\ TrafficSound /\ Rebuilt(<<>>)
      /\ UNCHANGED <<process, engine, held, working>>
  BY DEF RegistryInv, Reconnect
<1>2. PICK n \in 0 .. Len(line) : line' = Resent(n) \o cut
  BY DEF Reconnect
<1>3. cut \in Seq(Frames) /\ \A i \in DOMAIN cut : FrameSound(engine, rebuilds, cut[i])
  BY <1>1, LiveCutFacts
<1> HIDE DEF cut
<1>4. Resent(n) \in Seq(Frames) /\ \A i \in DOMAIN Resent(n) : FrameSound(engine, rebuilds, Resent(n)[i])
  BY <1>1, ResentFacts
<1>5. PICK s \in Seq(Frames) : s = Resent(n)
  BY <1>4
<1>6. /\ line' \in Seq(Frames) /\ DOMAIN line' = 1 .. Len(s) + Len(cut)
      /\ \A i \in 1 .. Len(s) : line'[i] = s[i]
      /\ \A i \in Len(s) + 1 .. Len(s) + Len(cut) : line'[i] = cut[i - Len(s)]
  BY <1>2, <1>3, <1>5, JoinedItems
<1>7. /\ Len(s) \in Nat /\ DOMAIN s = 1 .. Len(s)
      /\ Len(cut) \in Nat /\ DOMAIN cut = 1 .. Len(cut)
  BY <1>3, ItemsOf
<1>8. \A i \in DOMAIN line' : FrameSound(engine, rebuilds, line'[i])
  <2> SUFFICES ASSUME NEW i \in DOMAIN line' PROVE FrameSound(engine, rebuilds, line'[i])
    OBVIOUS
  <2>1. CASE i <= Len(s)
    <3>1. i \in 1 .. Len(s)
      BY <1>6, <1>7, <2>1
    <3>. QED
      BY <1>4, <1>5, <1>6, <1>7, <3>1
  <2>2. CASE i > Len(s)
    <3>1. i \in Len(s) + 1 .. Len(s) + Len(cut) /\ i - Len(s) \in DOMAIN cut
      BY <1>6, <1>7, <2>2
    <3>. QED
      BY <1>3, <1>6, <3>1
  <2>. QED
    BY <1>6, <1>7, <2>1, <2>2
<1>9. <<>> \in Seq(ClientRequests) /\ DOMAIN <<>> = {}
  OBVIOUS
<1>10. PICK none \in Seq(ClientRequests) : none = <<>> /\ DOMAIN none = {}
  BY <1>9
<1>. QED
  BY <1>1, <1>6, <1>8, <1>10, RebuiltKeeps

(* What is left of the line when its head is taken. *)
LEMMA TakeFacts ==
  ASSUME RegistryInv, Takes
  PROVE  /\ Head(line) = line[1] /\ line[1] \in Frames /\ 1 \in DOMAIN line
         /\ FrameSound(engine, rebuilds, line[1])
         /\ line' \in Seq(Frames) /\ DOMAIN line' = 1 .. Len(line) - 1 /\ Len(line) \in Nat
         /\ \A i \in DOMAIN line' : i + 1 \in DOMAIN line /\ line'[i] = line[i + 1]
         /\ \A i \in DOMAIN line' : FrameSound(engine, rebuilds, line'[i])
<1>1. line \in Seq(Frames) /\ line # <<>> /\ line' = Tail(line) /\ TrafficSound
  BY DEF RegistryInv, RegistryShapes, Takes
<1>2. /\ Head(line) = line[1] /\ line[1] \in Frames /\ 1 \in DOMAIN line
      /\ line' \in Seq(Frames) /\ DOMAIN line' = 1 .. Len(line) - 1
      /\ \A i \in DOMAIN line' : i + 1 \in DOMAIN line /\ line'[i] = line[i + 1]
  BY <1>1, TailItems
<1>3. Len(line) \in Nat
  BY <1>1, ItemsOf
<1>. QED
  BY <1>1, <1>2, <1>3 DEF TrafficSound

(* A demand for a resync is answered with a rebuild. *)
LEMMA ApplyResyncKeeps == RegistryInv /\ ApplyResync => RegistryInv'
<1> SUFFICES ASSUME RegistryInv, ApplyResync PROVE RegistryInv'
  OBVIOUS
<1>1. /\ RegistryShapes /\ TrafficSound /\ Takes
      /\ UNCHANGED <<process, engine, held, working>>
  BY DEF RegistryInv, ApplyResync
<1>2. PICK n \in 0 .. Len(inbound) : Rebuilt(SubSeq(inbound, 1, n))
  BY DEF ApplyResync
<1>3. PICK sent : sent = SubSeq(inbound, 1, n)
  OBVIOUS
<1>4. inbound \in Seq(ClientRequests) /\ Len(inbound) \in Nat /\ DOMAIN inbound = 1 .. Len(inbound)
  BY <1>1, ItemsOf DEF RegistryShapes
<1>5. /\ sent \in Seq(ClientRequests)
      /\ \A i \in DOMAIN sent : i \in DOMAIN inbound /\ sent[i] = inbound[i]
  BY <1>3, <1>4
<1>6. \A i \in DOMAIN sent : RequestSound(engine, rebuilds, sent[i])
  BY <1>1, <1>5 DEF TrafficSound
<1>. QED
  BY <1>1, <1>2, <1>3, <1>5, <1>6, TakeFacts, RebuiltKeeps

(* The first answer of the generation is the status query's: while that is  *)
(* under way, no other is applied.                                          *)
LEMMA TakeStillLeads ==
  ASSUME RegistryInv, Takes, NEW r \in pending, r.kind = "status",
         ~(Head(line).kind = "answer" /\ Head(line).to = r),
         UNCHANGED <<working, rebuilds>>,
         \A i \in DOMAIN inbound : i \in DOMAIN inbound' /\ inbound'[i] = inbound[i]
  PROVE  /\ Head(line).kind = "answer" => Head(line).to \notin pending
         /\ LeadsRequests(r)' \/ LeadsAnswers(r)'
<1>1. /\ Head(line) = line[1] /\ 1 \in DOMAIN line
      /\ line' \in Seq(Frames) /\ DOMAIN line' = 1 .. Len(line) - 1 /\ Len(line) \in Nat
      /\ \A i \in DOMAIN line' : i + 1 \in DOMAIN line /\ line'[i] = line[i + 1]
  BY TakeFacts
<1>2. /\ RegistryShapes /\ PendingSound /\ rebuilds' = rebuilds /\ working' = working
      /\ line \in Seq(Frames) /\ DOMAIN line = 1 .. Len(line)
  BY ItemsOf DEF RegistryInv, RegistryShapes
<1>3. \A q \in pending : Current(q, rebuilds)
  BY <1>2 DEF PendingSound, Current
<1>4. CASE LeadsRequests(r)
  <2>1. \A i \in DOMAIN line' : line'[i].kind = "answer" =>
          \/ \E j \in DOMAIN line : line'[i] = line[j]
          \/ ~Current(line'[i].to, rebuilds)
    BY <1>1
  <2>2. \A q \in working' : q \in working \/ ~Current(q, rebuilds)
    BY <1>2
  <2>3. LeadsRequests(r)'
    BY <1>2, <1>4, <2>1, <2>2, RequestsStillLead
  <2>4. Head(line).kind = "answer" => ~Current(Head(line).to, rebuilds)
    BY <1>1, <1>4 DEF LeadsRequests
  <2>. QED
    BY <1>3, <2>3, <2>4
<1>5. CASE LeadsAnswers(r)
  <2>1. PICK i \in DOMAIN line :
          /\ line[i].kind = "answer" /\ line[i].to = r
          /\ \A j \in 1 .. i - 1 : line[j].kind = "answer" => ~Current(line[j].to, rebuilds)
    BY <1>5 DEF LeadsAnswers
  <2>2. i # 1
    BY <1>1, <2>1
  <2>3. i \in Nat /\ i > 1 /\ 1 \in 1 .. i - 1 /\ i - 1 \in DOMAIN line' /\ (i - 1) + 1 = i
    BY <1>1, <1>2, <2>1, <2>2
  <2>4. line'[i - 1] = line[i]
    BY <1>1, <2>3
  <2>5. ASSUME NEW j \in 1 .. (i - 1) - 1, line'[j].kind = "answer"
        PROVE  ~Current(line'[j].to, rebuilds')
    <3>1. j + 1 \in 1 .. i - 1 /\ j \in 1 .. Len(line) - 1
      <4>1. i <= Len(line) /\ i \in Nat /\ Len(line) \in Nat
        BY <1>1, <1>2, <2>3
      <4>2. PICK n \in Nat : n = Len(line)
        BY <4>1
      <4>3. i <= n /\ i \in Nat
        BY <4>1, <4>2
      <4>4. j + 1 \in 1 .. i - 1 /\ j \in 1 .. n - 1
        BY ONLY <4>2, <4>3, j \in 1 .. (i - 1) - 1
      <4>. QED
        BY <4>2, <4>4
    <3>2. line'[j] = line[j + 1]
      BY <1>1, <3>1
    <3>. QED
      BY <1>2, <2>1, <2>5, <3>1, <3>2
  <2>6. LeadsAnswers(r)'
    BY <2>1, <2>3, <2>4, <2>5 DEF LeadsAnswers
  <2>7. Head(line).kind = "answer" => ~Current(Head(line).to, rebuilds)
    BY <1>1, <2>1, <2>3
  <2>. QED
    BY <1>3, <2>6, <2>7
<1>6. LeadsRequests(r) \/ LeadsAnswers(r)
  BY DEF RegistryInv, StatusLeads
<1>. QED
  BY <1>4, <1>5, <1>6

(* What a step of the client has to keep. *)
LEMMA ProjectionKeeps ==
  ASSUME RegistryInv, UNCHANGED <<process, engine, held, working, rebuilds>>,
         inbound' \in Seq(ClientRequests), line' \in Seq(Frames),
         \A i \in DOMAIN inbound' :
           \/ \E j \in DOMAIN inbound : inbound'[i] = inbound[j]
           \/ RequestSound(engine, rebuilds, inbound'[i]),
         \A i \in DOMAIN line' : FrameSound(engine, rebuilds, line'[i]),
         views' \in Views, submitted' \in [Submissions -> Nat],
         unverified' \subseteq Submissions, pending' \subseteq ClientRequests,
         ViewsSound', PendingSound', StatusLeads', StatusNamesAll', UnknownIsOver', LostIsGuarded'
  PROVE  RegistryInv'
<1>1. RegistryShapes' /\ EngineHeld' /\ TrafficSound'
  BY DEF RegistryInv, RegistryShapes, EngineHeld, TrafficSound, Accepted
<1>. QED
  BY <1>1 DEF RegistryInv

(* A new command asks for what was not submitted. *)
LEMMA SubmitKeeps == ASSUME NEW k \in Submissions, RegistryInv, Submit(k) PROVE RegistryInv'
<1> DEFINE m == Mutation(rebuilds, k)
<1>1. /\ submitted[k] = 0 /\ pending' = pending \cup {m} /\ inbound' = Append(inbound, m)
      /\ UNCHANGED <<process, engine, held, working, line, views, submitted, unverified,
                     rebuilds, witnessed>>
      /\ RegistryShapes /\ EngineHeld /\ TrafficSound /\ ViewsSound /\ PendingSound
      /\ StatusLeads /\ StatusNamesAll /\ UnknownIsOver /\ LostIsGuarded
  BY DEF RegistryInv, Submit
<1>2. rebuilds \in Nat /\ inbound \in Seq(ClientRequests) /\ pending \subseteq ClientRequests
  BY <1>1 DEF RegistryShapes
<1>3. m \in ClientRequests /\ m.kind = "command" /\ m.in = rebuilds /\ m.key = k
  <2>1. \A g \in Nat, j \in Submissions :
          /\ Mutation(g, j) \in ClientRequests
          /\ Mutation(g, j).kind = "command" /\ Mutation(g, j).in = g /\ Mutation(g, j).key = j
    BY RequestsMade
  <2>. QED
    BY <1>2, <2>1
<1> HIDE DEF m
<1>4. RequestSound(engine, rebuilds, m)
  BY <1>2, <1>3 DEF RequestSound
<1>5. /\ inbound' \in Seq(ClientRequests) /\ DOMAIN inbound' = 1 .. Len(inbound) + 1
      /\ \A i \in DOMAIN inbound : inbound'[i] = inbound[i]
      /\ inbound'[Len(inbound) + 1] = m
  BY <1>1, <1>2, <1>3, AppendItems
<1>6. Len(inbound) \in Nat /\ DOMAIN inbound = 1 .. Len(inbound)
  BY <1>2, ItemsOf
<1>7. \A i \in DOMAIN inbound' :
        (\E j \in DOMAIN inbound : inbound'[i] = inbound[j]) \/ RequestSound(engine, rebuilds, inbound'[i])
  <2>1. \A i \in DOMAIN inbound' : i \in DOMAIN inbound \/ i = Len(inbound) + 1
    BY <1>5, <1>6
  <2>. QED
    BY <1>4, <1>5, <2>1
<1>8. ViewsSound' /\ UnknownIsOver' /\ LostIsGuarded'
  BY <1>1 DEF ViewsSound, UnknownIsOver, LostIsGuarded, Accepted
<1>9. PendingSound'
  BY <1>1, <1>3, <1>4 DEF PendingSound
<1>10. \A r \in pending' : r.kind = "status" => r \in pending
  BY <1>1, <1>3
<1>11. StatusNamesAll'
  BY <1>1, <1>10 DEF StatusNamesAll
<1>12. StatusLeads'
  <2> SUFFICES ASSUME NEW r \in pending, r.kind = "status"
               PROVE  LeadsRequests(r)' \/ LeadsAnswers(r)'
    BY <1>10 DEF StatusLeads
  <2>1. CASE LeadsRequests(r)
    <3>1. \A i \in DOMAIN inbound : i \in DOMAIN inbound' /\ inbound'[i] = inbound[i]
      BY <1>5, <1>6
    <3>2. \A i \in DOMAIN line' : line'[i].kind = "answer" =>
            \/ \E j \in DOMAIN line : line'[i] = line[j]
            \/ ~Current(line'[i].to, rebuilds)
      BY <1>1
    <3>. QED
      BY <1>1, <2>1, <3>1, <3>2, RequestsStillLead
  <2>2. CASE LeadsAnswers(r)
    <3>1. AnswersStay
      <4>1. line \in Seq(Frames) /\ DOMAIN line = 1 .. Len(line)
        BY <1>1, ItemsOf DEF RegistryShapes
      <4>. QED
        BY <1>1 DEF AnswersStay
    <3>. QED
      BY <1>1, <2>2, <3>1, AnswersStillLead
  <2>. QED
    BY <1>1, <2>1, <2>2 DEF StatusLeads
<1>13. /\ line' \in Seq(Frames) /\ views' \in Views /\ submitted' \in [Submissions -> Nat]
       /\ unverified' \subseteq Submissions /\ pending' \subseteq ClientRequests
       /\ \A i \in DOMAIN line' : FrameSound(engine, rebuilds, line'[i])
  BY <1>1, <1>2, <1>3 DEF RegistryShapes, TrafficSound
<1>. QED
  BY <1>1, <1>5, <1>7, <1>8, <1>9, <1>11, <1>12, <1>13, ProjectionKeeps

(* The query stays first in a step that asks for nothing but reads. *)
LEMMA StatusStillFirst ==
  ASSUME RegistryInv, Takes, UNCHANGED <<working, rebuilds>>,
         \A i \in DOMAIN inbound : i \in DOMAIN inbound' /\ inbound'[i] = inbound[i],
         \A r \in pending' : r.kind = "status" =>
           r \in pending /\ ~(Head(line).kind = "answer" /\ Head(line).to = r)
  PROVE  StatusLeads'
<1> SUFFICES ASSUME NEW r \in pending', r.kind = "status"
             PROVE  LeadsRequests(r)' \/ LeadsAnswers(r)'
  BY DEF StatusLeads
<1>. QED
  BY TakeStillLeads

(* An answer that is awaited is the status query's, or none is under way. *)
LEMMA NoStatusUnderWay ==
  ASSUME RegistryInv, Takes, Head(line).kind = "answer", Head(line).to \in pending,
         UNCHANGED <<working, rebuilds>>,
         \A i \in DOMAIN inbound : i \in DOMAIN inbound' /\ inbound'[i] = inbound[i]
  PROVE  \A r \in pending : r.kind = "status" => Head(line).to = r
<1> SUFFICES ASSUME NEW r \in pending, r.kind = "status", Head(line).to # r PROVE FALSE
  OBVIOUS
<1>. QED
  BY TakeStillLeads

(* The frames the client applies. *)
LEMMA ApplyStrayKeeps == RegistryInv /\ ApplyStray => RegistryInv'
<1> SUFFICES ASSUME RegistryInv, ApplyStray PROVE RegistryInv'
  OBVIOUS
<1>1. /\ Takes /\ Head(line).kind = "answer" /\ Head(line).to \notin pending
      /\ UNCHANGED <<process, engine, held, inbound, working, up, disruptions, misled,
                     views, submitted, unverified, pending, asking, rebuilds, witnessed>>
  BY DEF ApplyStray, serverSide, clientSide
<1>2. /\ RegistryShapes /\ EngineHeld /\ TrafficSound /\ ViewsSound /\ PendingSound
      /\ StatusLeads /\ StatusNamesAll /\ UnknownIsOver /\ LostIsGuarded
  BY DEF RegistryInv
<1>3. StatusLeads'
  BY <1>1, StatusStillFirst
<1>4. /\ ViewsSound' /\ PendingSound' /\ StatusNamesAll' /\ UnknownIsOver' /\ LostIsGuarded'
  BY <1>1, <1>2 DEF ViewsSound, PendingSound, StatusNamesAll, UnknownIsOver, LostIsGuarded, Accepted
<1>5. /\ line' \in Seq(Frames) /\ \A i \in DOMAIN line' : FrameSound(engine, rebuilds, line'[i])
  BY <1>1, TakeFacts
<1>6. /\ views' \in Views /\ submitted' \in [Submissions -> Nat] /\ unverified' \subseteq Submissions
      /\ pending' \subseteq ClientRequests /\ inbound' \in Seq(ClientRequests)
      /\ \A i \in DOMAIN inbound' : \E j \in DOMAIN inbound : inbound'[i] = inbound[j]
  BY <1>1, <1>2 DEF RegistryShapes
<1>. QED
  BY <1>1, <1>3, <1>4, <1>5, <1>6, ProjectionKeeps

LEMMA ApplyUpdateKeeps == RegistryInv /\ ApplyUpdate => RegistryInv'
<1> SUFFICES ASSUME RegistryInv, ApplyUpdate PROVE RegistryInv'
  OBVIOUS
<1>1. /\ Takes /\ Head(line).kind \in {"update", "resent"}
      /\ views' = [views EXCEPT ![Head(line).op] = Head(line).st]
      /\ UNCHANGED <<process, engine, held, inbound, working, up, disruptions, misled,
                     submitted, unverified, pending, asking, rebuilds, witnessed>>
  BY DEF ApplyUpdate, serverSide
<1>2. /\ RegistryShapes /\ EngineHeld /\ TrafficSound /\ ViewsSound /\ PendingSound
      /\ StatusLeads /\ StatusNamesAll /\ UnknownIsOver /\ LostIsGuarded
  BY DEF RegistryInv
<1>3. PICK f \in Frames : f = Head(line) /\ FrameSound(engine, rebuilds, f)
  BY <1>1, TakeFacts
<1>4. PICK o, st : o = f.op /\ st = f.st
  OBVIOUS
<1>5. /\ o \in Accepted /\ o \in Nat /\ st \in {"running", "ended"}
      /\ st = "ended" => engine[o].st = "ended"
  BY <1>1, <1>3, <1>4, FrameKinds DEF FrameSound, UpdateSound, Accepted
<1>6. DOMAIN views = 1 .. MaxAccepted /\ o \in DOMAIN views /\ views \in Views
  BY <1>2, <1>5, EngineFacts DEF RegistryShapes, Views
<1>7. /\ views' \in Views /\ DOMAIN views' = DOMAIN views /\ views'[o] = st
      /\ \A p \in DOMAIN views : p # o => views'[p] = views[p]
  BY <1>1, <1>3, <1>4, <1>5, <1>6 DEF Views
<1>8. \A k \in Submissions : submitted[k] # 0 => submitted[k] \in Accepted /\ submitted[k] \in DOMAIN views
  BY <1>2, <1>6, EngineFacts DEF ViewsSound
<1>9. ViewsSound'
  BY <1>1, <1>2, <1>5, <1>6, <1>7, <1>8 DEF ViewsSound, Accepted
<1>10. UnknownIsOver' /\ LostIsGuarded'
  BY <1>1, <1>2, <1>5, <1>7, <1>8 DEF UnknownIsOver, LostIsGuarded
<1>11. PendingSound' /\ StatusNamesAll'
  BY <1>1, <1>2 DEF PendingSound, StatusNamesAll
<1>12. StatusLeads'
  BY <1>1, StatusStillFirst
<1>13. /\ line' \in Seq(Frames) /\ \A i \in DOMAIN line' : FrameSound(engine, rebuilds, line'[i])
  BY <1>1, TakeFacts
<1>14. /\ submitted' \in [Submissions -> Nat] /\ unverified' \subseteq Submissions
       /\ pending' \subseteq ClientRequests /\ inbound' \in Seq(ClientRequests)
       /\ \A i \in DOMAIN inbound' : \E j \in DOMAIN inbound : inbound'[i] = inbound[j]
  BY <1>1, <1>2 DEF RegistryShapes
<1>. QED
  BY <1>1, <1>7, <1>9, <1>10, <1>11, <1>12, <1>13, <1>14, ProjectionKeeps

(* What an awaited answer says. *)
LEMMA AnswerFacts ==
  ASSUME RegistryInv, NEW kind, TakesAnswer(kind)
  PROVE  /\ Takes /\ Head(line).kind = "answer" /\ Head(line).to \in pending
         /\ Head(line).to \in ClientRequests /\ Head(line).to.kind = kind
         /\ Head(line).to.in = rebuilds /\ RequestSound(engine, rebuilds, Head(line).to)
         /\ kind = "status" => /\ ReportSound(engine, Head(line).to, Head(line).result)
                               /\ Head(line).result \in Reports
         /\ kind = "command" => /\ AcceptanceSound(engine, Head(line).to, Head(line).result)
                                /\ Head(line).result \in Nat
<1>1. /\ Takes /\ Head(line).kind = "answer" /\ Head(line).to \in pending /\ Head(line).to.kind = kind
      /\ PendingSound /\ pending \subseteq ClientRequests
  BY DEF TakesAnswer, RegistryInv, RegistryShapes
<1>2. PICK f \in Frames : f = Head(line) /\ FrameSound(engine, rebuilds, f)
  BY <1>1, TakeFacts
<1>3. /\ kind = "status" => ReportSound(engine, f.to, f.result) /\ f.result \in Reports
      /\ kind = "command" => AcceptanceSound(engine, f.to, f.result) /\ f.result \in Nat
  BY <1>1, <1>2, FrameKinds DEF FrameSound
<1>. QED
  BY <1>1, <1>2, <1>3 DEF PendingSound

(* A command that was accepted is the only one of its key. *)
LEMMA ApplyAcceptedKeeps == RegistryInv /\ ApplyAccepted => RegistryInv'
<1> SUFFICES ASSUME RegistryInv, ApplyAccepted PROVE RegistryInv'
  OBVIOUS
<1>1. PICK request, op : request = Head(line).to /\ op = Head(line).result
  OBVIOUS
<1>2. PICK k : k = request.key
  OBVIOUS
<1>3. /\ TakesAnswer("command")
      /\ pending' = pending \ {request}
      /\ op = 0 => UNCHANGED <<views, submitted, unverified>>
      /\ op # 0 => /\ submitted' = [submitted EXCEPT ![k] = IF submitted[k] = 0 THEN op ELSE submitted[k]]
                   /\ unverified' = unverified \ {k}
                   /\ views' = [views EXCEPT ![op] = IF views[op] \in {"none", "unknown"}
                                                    THEN "running" ELSE views[op]]
      /\ UNCHANGED <<process, engine, held, inbound, working, up, disruptions, misled,
                     asking, rebuilds, witnessed>>
  BY <1>1, <1>2 DEF ApplyAccepted, serverSide
<1>4. /\ RegistryShapes /\ EngineHeld /\ TrafficSound /\ ViewsSound /\ PendingSound
      /\ StatusLeads /\ StatusNamesAll /\ UnknownIsOver /\ LostIsGuarded
  BY DEF RegistryInv
<1>5. /\ Takes /\ Head(line).kind = "answer" /\ request \in pending
      /\ request \in ClientRequests /\ request.kind = "command" /\ request.in = rebuilds
      /\ AcceptanceSound(engine, request, op) /\ op \in Nat
  BY <1>1, <1>3, AnswerFacts
<1>6. \A r \in pending : r.kind # "status"
  <2>1. \A r \in pending : r.kind = "status" => request = r
    BY <1>1, <1>3, <1>5, NoStatusUnderWay
  <2>. QED
    BY <1>5, <2>1
<1>7. StatusLeads' /\ StatusNamesAll'
  BY <1>3, <1>6 DEF StatusLeads, StatusNamesAll
<1>8. k \in Submissions /\ submitted[k] = 0
  BY <1>2, <1>4, <1>5, RequestKinds DEF PendingSound
<1>9. /\ DOMAIN views = 1 .. MaxAccepted /\ views \in Views /\ submitted \in [Submissions -> Nat]
      /\ unverified \subseteq Submissions /\ pending \subseteq ClientRequests
  BY <1>4 DEF RegistryShapes, Views
<1>10. /\ views' \in Views /\ submitted' \in [Submissions -> Nat] /\ unverified' \subseteq Submissions
       /\ ViewsSound' /\ PendingSound' /\ UnknownIsOver' /\ LostIsGuarded'
  <2>1. CASE op = 0
    <3>1. UNCHANGED <<views, submitted, unverified, engine, rebuilds, witnessed>>
      BY <1>3, <2>1
    <3>. QED
      BY <1>3, <1>4, <1>9, <3>1 DEF ViewsSound, PendingSound, UnknownIsOver, LostIsGuarded, Accepted
  <2>2. CASE op # 0
    <3>1. op \in Accepted /\ engine[op].key = k /\ op \in DOMAIN views
      <4>1. op \in DOMAIN engine /\ engine[op].key = k
        BY <1>2, <1>5, <2>2 DEF AcceptanceSound
      <4>. QED
        BY <1>4, <1>9, <4>1, EngineFacts DEF Accepted
    <3>2. /\ submitted' \in [Submissions -> Nat] /\ submitted'[k] = op
          /\ \A j \in Submissions : j # k => submitted'[j] = submitted[j]
      BY <1>3, <1>5, <1>8, <1>9, <2>2
    <3>3. views[op] \in {"none", "running", "ended", "unknown"}
      BY <1>9, <3>1 DEF Views
    <3>4. /\ views' \in Views /\ DOMAIN views' = DOMAIN views
          /\ \A p \in DOMAIN views : p # op => views'[p] = views[p]
          /\ views'[op] \in {"running", "ended"}
          /\ views'[op] = "ended" => views[op] = "ended"
      <4>1. PICK v : v = IF views[op] \in {"none", "unknown"} THEN "running" ELSE views[op]
        OBVIOUS
      <4>2. v \in {"running", "ended"} /\ (v = "ended" => views[op] = "ended")
        BY <3>3, <4>1
      <4>3. views' = [views EXCEPT ![op] = v]
        BY <1>3, <2>2, <4>1
      <4>. QED
        BY <1>9, <3>1, <4>2, <4>3 DEF Views
    <3>5. \A j \in Submissions : submitted[j] # 0 =>
            /\ submitted[j] \in Accepted /\ engine[submitted[j]].key = j
            /\ j # k /\ submitted[j] # op /\ submitted[j] \in DOMAIN views
            /\ submitted'[j] = submitted[j] /\ views'[submitted[j]] = views[submitted[j]]
      <4> SUFFICES ASSUME NEW j \in Submissions, submitted[j] # 0
                   PROVE  /\ submitted[j] \in Accepted /\ engine[submitted[j]].key = j
                          /\ j # k /\ submitted[j] # op /\ submitted[j] \in DOMAIN views
                          /\ submitted'[j] = submitted[j] /\ views'[submitted[j]] = views[submitted[j]]
        OBVIOUS
      <4>1. submitted[j] \in Accepted /\ engine[submitted[j]].key = j /\ j # k
        BY <1>4, <1>8 DEF ViewsSound
      <4>2. submitted[j] # op /\ submitted[j] \in DOMAIN views
        BY <1>4, <1>9, <3>1, <4>1, EngineFacts
      <4>. QED
        BY <3>2, <3>4, <4>1, <4>2
    <3>6. \A j \in Submissions : submitted'[j] # 0 => j = k \/ submitted[j] # 0
      BY <3>2
    <3>7. unverified' \subseteq unverified /\ \A j \in unverified : j # k => j \in unverified'
      BY <1>3, <2>2
    <3>8. ViewsSound'
      <4>1. \A o \in DOMAIN views' : /\ views'[o] # "none" => o \in Accepted
                                     /\ views'[o] = "ended" => engine[o].st = "ended"
        BY <1>4, <3>1, <3>4 DEF ViewsSound
      <4>2. \A j \in Submissions : submitted'[j] # 0 =>
              /\ submitted'[j] \in Accepted /\ engine[submitted'[j]].key = j
              /\ views'[submitted'[j]] # "none"
        <5> SUFFICES ASSUME NEW j \in Submissions, submitted'[j] # 0
                     PROVE  /\ submitted'[j] \in Accepted /\ engine[submitted'[j]].key = j
                            /\ views'[submitted'[j]] # "none"
          OBVIOUS
        <5>1. CASE j = k
          BY <3>1, <3>2, <3>4, <5>1
        <5>2. CASE j # k
          BY <1>4, <3>5, <3>6, <5>2 DEF ViewsSound
        <5>. QED
          BY <5>1, <5>2
      <4>3. \A j \in unverified' : submitted'[j] # 0
        <5> SUFFICES ASSUME NEW j \in unverified' PROVE submitted'[j] # 0
          OBVIOUS
        <5>1. j \in Submissions /\ submitted[j] # 0
          BY <1>4, <1>9, <3>7 DEF ViewsSound
        <5>. QED
          BY <3>5, <5>1
      <4>. QED
        BY <1>3, <4>1, <4>2, <4>3 DEF ViewsSound, Accepted
    <3>9. \A r \in pending' : r.kind = "command" => submitted'[r.key] = 0
      <4> SUFFICES ASSUME NEW r \in pending', r.kind = "command" PROVE submitted'[r.key] = 0
        OBVIOUS
      <4>1. r \in pending /\ r # request /\ r \in CommandRequests /\ request \in CommandRequests
        BY <1>3, <1>5, <1>9, RequestKinds
      <4>2. r.in = rebuilds /\ submitted[r.key] = 0 /\ r.key \in Submissions
        BY <1>4, <4>1, <1>9, RequestKinds DEF PendingSound
      <4>3. r.key # k
        BY <1>2, <1>5, <4>1, <4>2 DEF CommandRequests
      <4>. QED
        BY <3>2, <4>2, <4>3
    <3>10. PendingSound'
      <4>1. /\ \A r \in pending' : r \in pending
            /\ engine' = engine /\ rebuilds' = rebuilds
        BY <1>3
      <4>. QED
        BY <1>4, <3>9, <4>1 DEF PendingSound
    <3>11. UnknownIsOver'
      <4> SUFFICES ASSUME NEW j \in Submissions, submitted'[j] # 0, views'[submitted'[j]] = "unknown"
                   PROVE  engine[submitted'[j]].st # "running"
        BY <1>3 DEF UnknownIsOver
      <4>1. j # k
        BY <3>2, <3>4
      <4>. QED
        BY <1>4, <3>5, <3>6, <4>1 DEF UnknownIsOver
    <3>12. LostIsGuarded'
      <4> SUFFICES ASSUME NEW j \in Submissions, submitted'[j] # 0,
                          views'[submitted'[j]] = "unknown", engine[submitted'[j]].st = "lost"
                   PROVE  j \in unverified' \/ submitted'[j] \in witnessed
        BY <1>3 DEF LostIsGuarded
      <4>1. j # k
        BY <3>2, <3>4
      <4>. QED
        BY <1>4, <3>5, <3>6, <3>7, <4>1 DEF LostIsGuarded
    <3>. QED
      BY <1>9, <3>2, <3>4, <3>7, <3>8, <3>10, <3>11, <3>12
  <2>. QED
    BY <2>1, <2>2
<1>11. /\ line' \in Seq(Frames) /\ \A i \in DOMAIN line' : FrameSound(engine, rebuilds, line'[i])
  BY <1>5, TakeFacts
<1>12. /\ pending' \subseteq ClientRequests /\ inbound' \in Seq(ClientRequests)
       /\ \A i \in DOMAIN inbound' : \E j \in DOMAIN inbound : inbound'[i] = inbound[j]
  BY <1>3, <1>4 DEF RegistryShapes
<1>. QED
  BY <1>3, <1>7, <1>10, <1>11, <1>12, ProjectionKeeps

(* A read that found its target has seen what was lost with the process. *)
LEMMA ApplyReadKeeps == RegistryInv /\ ApplyRead => RegistryInv'
<1> SUFFICES ASSUME RegistryInv, ApplyRead PROVE RegistryInv'
  OBVIOUS
<1>1. PICK request, found : request = Head(line).to /\ found = Head(line).result
  OBVIOUS
<1>2. PICK seen : seen = {o \in Accepted : /\ engine[o].st = "lost"
                                           /\ engine[o].key \in Submissions
                                           /\ TargetOf[engine[o].key] = request.target}
  OBVIOUS
<1>3. /\ TakesAnswer("read")
      /\ pending' = pending \ {request}
      /\ unverified' = IF found THEN unverified \ request.keys ELSE unverified
      /\ witnessed' = IF found THEN witnessed \cup seen ELSE witnessed
      /\ UNCHANGED <<process, engine, held, inbound, working, up, disruptions, misled,
                     views, submitted, asking, rebuilds>>
  BY <1>1, <1>2 DEF ApplyRead, Opens, serverSide
<1>4. /\ RegistryShapes /\ EngineHeld /\ TrafficSound /\ ViewsSound /\ PendingSound
      /\ StatusLeads /\ StatusNamesAll /\ UnknownIsOver /\ LostIsGuarded
  BY DEF RegistryInv
<1>5. /\ Takes /\ Head(line).kind = "answer" /\ request \in pending
      /\ request \in ClientRequests /\ request.kind = "read"
      /\ RequestSound(engine, rebuilds, request)
  BY <1>1, <1>3, AnswerFacts
<1>6. StatusLeads' /\ StatusNamesAll'
  <2>1. \A r \in pending : r.kind = "status" => request = r
    BY <1>1, <1>3, <1>5, NoStatusUnderWay
  <2>2. \A r \in pending' : r.kind # "status"
    BY <1>3, <1>5, <2>1
  <2>. QED
    BY <2>2 DEF StatusLeads, StatusNamesAll
<1>7. unverified' \subseteq unverified /\ witnessed \subseteq witnessed'
  BY <1>3
<1>8. ViewsSound' /\ PendingSound' /\ UnknownIsOver'
  <2>1. \A r \in pending' : r \in pending
    BY <1>3
  <2>. QED
    BY <1>3, <1>4, <1>7, <2>1 DEF ViewsSound, PendingSound, UnknownIsOver, Accepted
<1>9. LostIsGuarded'
  <2> SUFFICES ASSUME NEW k \in Submissions, submitted[k] # 0,
                      views[submitted[k]] = "unknown", engine[submitted[k]].st = "lost"
               PROVE  k \in unverified' \/ submitted[k] \in witnessed'
    BY <1>3 DEF LostIsGuarded
  <2>1. k \in unverified \/ submitted[k] \in witnessed
    BY <1>4 DEF LostIsGuarded
  <2>2. ASSUME k \in unverified, k \notin unverified' PROVE submitted[k] \in witnessed'
    <3>1. found /\ k \in request.keys
      BY <1>3, <2>2
    <3>2. TargetOf[k] = request.target
      BY <1>5, <3>1 DEF RequestSound
    <3>3. submitted[k] \in Accepted /\ engine[submitted[k]].key = k
      BY <1>4 DEF ViewsSound
    <3>4. submitted[k] \in seen
      BY <1>2, <3>2, <3>3
    <3>. QED
      BY <1>3, <3>1, <3>4
  <2>. QED
    BY <1>7, <2>1, <2>2
<1>10. /\ line' \in Seq(Frames) /\ \A i \in DOMAIN line' : FrameSound(engine, rebuilds, line'[i])
  BY <1>5, TakeFacts
<1>11. /\ views' \in Views /\ submitted' \in [Submissions -> Nat] /\ unverified' \subseteq Submissions
       /\ pending' \subseteq ClientRequests /\ inbound' \in Seq(ClientRequests)
       /\ \A i \in DOMAIN inbound' : \E j \in DOMAIN inbound : inbound'[i] = inbound[j]
  BY <1>3, <1>4, <1>7 DEF RegistryShapes
<1>. QED
  BY <1>3, <1>6, <1>8, <1>9, <1>10, <1>11, ProjectionKeeps

(* What the status query named and its answer does not is over. *)
LEMMA ApplyStatusKeeps == RegistryInv /\ ApplyStatus => RegistryInv'
<1> SUFFICES ASSUME RegistryInv, ApplyStatus PROVE RegistryInv'
  OBVIOUS
<1>1. PICK request, known : request = Head(line).to /\ known = Head(line).result
  OBVIOUS
<1>2. PICK missing : missing = Nonterminal \ DOMAIN known
  OBVIOUS
<1>3. PICK open : open = DetailReads
  OBVIOUS
<1>4. PICK U : U = unverified \cup {k \in Submissions : submitted[k] \in missing}
  OBVIOUS
<1>5. PICK V : V = [o \in DOMAIN views |-> IF o \in DOMAIN known THEN known[o]
                                          ELSE IF o \in missing THEN "unknown" ELSE views[o]]
  OBVIOUS
<1>6. PICK reads : reads = TargetReads(open, V, U, rebuilds)
  OBVIOUS
<1>7. /\ TakesAnswer("status")
      /\ views' = V /\ unverified' = U
      /\ pending' = (pending \ {request}) \cup reads
      /\ inbound' = inbound \o SetToSeq(reads)
      /\ UNCHANGED <<process, engine, held, working, submitted, rebuilds, witnessed>>
  BY <1>1, <1>2, <1>3, <1>4, <1>5, <1>6 DEF ApplyStatus, Guarded
<1>8. /\ RegistryShapes /\ EngineHeld /\ TrafficSound /\ ViewsSound /\ PendingSound
      /\ StatusLeads /\ StatusNamesAll /\ UnknownIsOver /\ LostIsGuarded
  BY DEF RegistryInv
<1>9. /\ Takes /\ Head(line).kind = "answer" /\ request \in pending
      /\ request \in ClientRequests /\ request.kind = "status"
      /\ ReportSound(engine, request, known) /\ known \in Reports
  BY <1>1, <1>7, AnswerFacts
<1>10. /\ DOMAIN views = 1 .. MaxAccepted /\ views \in Views /\ submitted \in [Submissions -> Nat]
       /\ unverified \subseteq Submissions /\ pending \subseteq ClientRequests
       /\ inbound \in Seq(ClientRequests) /\ rebuilds \in Nat
  BY <1>8 DEF RegistryShapes, Views
<1>11. U \in SUBSET Submissions
  BY <1>4, <1>10
<1>12. /\ IsFiniteSet(reads) /\ reads \subseteq ClientRequests
       /\ \A r \in reads : /\ r.kind = "read" /\ r.in = rebuilds
                           /\ \A k \in r.keys : TargetOf[k] = r.target /\ \A q \in open : k \notin q.keys
       /\ \A r, q \in reads : r.keys \cap q.keys # {} => r = q
  <2>1. /\ IsFiniteSet(TargetReads(open, V, U, rebuilds))
        /\ TargetReads(open, V, U, rebuilds) \subseteq ClientRequests
        /\ \A r \in TargetReads(open, V, U, rebuilds) :
             /\ r.kind = "read" /\ r.in = rebuilds
             /\ \A k \in r.keys : TargetOf[k] = r.target /\ \A q \in open : k \notin q.keys
        /\ \A r, q \in TargetReads(open, V, U, rebuilds) : r.keys \cap q.keys # {} => r = q
    BY <1>8, <1>10, <1>11, TargetReadsFacts
  <2>. QED
    BY <1>6, <2>1
<1>13. \A r \in reads : RequestSound(engine, rebuilds, r)
  BY <1>10, <1>12 DEF RequestSound
<1>14. /\ inbound' \in Seq(ClientRequests)
       /\ \A i \in DOMAIN inbound : i \in DOMAIN inbound' /\ inbound'[i] = inbound[i]
       /\ \A i \in DOMAIN inbound' : (\E j \in DOMAIN inbound : inbound'[i] = inbound[j])
                                     \/ RequestSound(engine, rebuilds, inbound'[i])
  <2>1. PICK s : s = SetToSeq(reads)
    OBVIOUS
  <2>2. s \in Seq(reads) /\ \A i \in DOMAIN s : s[i] \in reads
    BY <1>12, <2>1, SetToSeqItems
  <2>3. s \in Seq(ClientRequests) /\ inbound' = inbound \o s
    BY <1>7, <1>12, <2>1, <2>2
  <2>4. /\ inbound' \in Seq(ClientRequests) /\ DOMAIN inbound' = 1 .. Len(inbound) + Len(s)
        /\ \A i \in 1 .. Len(inbound) : inbound'[i] = inbound[i]
        /\ \A i \in Len(inbound) + 1 .. Len(inbound) + Len(s) : inbound'[i] = s[i - Len(inbound)]
    BY <1>10, <2>3, JoinedItems
  <2>5. /\ Len(inbound) \in Nat /\ DOMAIN inbound = 1 .. Len(inbound)
        /\ Len(s) \in Nat /\ DOMAIN s = 1 .. Len(s)
    BY <1>10, <2>3, ItemsOf
  <2>6. ASSUME NEW i \in DOMAIN inbound'
        PROVE  (\E j \in DOMAIN inbound : inbound'[i] = inbound[j])
               \/ RequestSound(engine, rebuilds, inbound'[i])
    <3>1. CASE i <= Len(inbound)
      <4>1. i \in 1 .. Len(inbound)
        BY <2>4, <2>5, <3>1
      <4>. QED
        BY <2>4, <2>5, <4>1
    <3>2. CASE i > Len(inbound)
      <4>1. i \in Len(inbound) + 1 .. Len(inbound) + Len(s) /\ i - Len(inbound) \in DOMAIN s
        BY <2>4, <2>5, <3>2
      <4>. QED
        BY <1>13, <2>2, <2>4, <4>1
    <3>. QED
      BY <2>4, <2>5, <3>1, <3>2
  <2>7. \A i \in DOMAIN inbound : i \in DOMAIN inbound' /\ inbound'[i] = inbound[i]
    BY <2>4, <2>5
  <2>. QED
    BY <2>4, <2>6, <2>7
<1>15. \A r \in pending' : r.kind # "status"
  <2>1. \A r \in pending : r.kind = "status" => request = r
    BY <1>1, <1>7, <1>9, <1>14, NoStatusUnderWay
  <2>. QED
    BY <1>7, <1>12, <2>1
<1>16. StatusLeads' /\ StatusNamesAll'
  BY <1>15 DEF StatusLeads, StatusNamesAll
<1>17. \A o \in DOMAIN known : known[o] \in {"running", "ended"} /\ o \in Accepted
                               /\ (known[o] = "ended" => engine[o].st = "ended")
  BY <1>9 DEF Reports, ReportSound, Accepted
<1>18. \A o \in missing : /\ o \in DOMAIN views /\ o \notin DOMAIN known
                          /\ views[o] = "running" /\ o \in Accepted /\ o # 0
  BY <1>2, <1>8, <1>10 DEF Nonterminal, ViewsSound
<1>19. V \in Views /\ DOMAIN V = DOMAIN views
  <2>1. \A o \in 1 .. MaxAccepted :
          (IF o \in DOMAIN known THEN known[o] ELSE IF o \in missing THEN "unknown" ELSE views[o])
            \in {"none", "running", "ended", "unknown"}
    BY <1>10, <1>17 DEF Views
  <2>. QED
    BY <1>5, <1>10, <2>1 DEF Views
<1>20. \A o \in DOMAIN views :
         \/ o \in DOMAIN known /\ V[o] = known[o]
         \/ o \in missing /\ V[o] = "unknown"
         \/ o \notin missing /\ V[o] = views[o]
  BY <1>5
<1>21. ViewsSound'
  <2>1. \A o \in DOMAIN V : V[o] # "none" => o \in Accepted
    BY <1>8, <1>17, <1>18, <1>19, <1>20 DEF ViewsSound
  <2>2. \A o \in DOMAIN V : V[o] = "ended" => engine[o].st = "ended"
    BY <1>8, <1>17, <1>19, <1>20 DEF ViewsSound
  <2>3. \A k \in Submissions : submitted[k] # 0 =>
          /\ submitted[k] \in Accepted /\ engine[submitted[k]].key = k
          /\ V[submitted[k]] # "none"
    <3> SUFFICES ASSUME NEW k \in Submissions, submitted[k] # 0
                 PROVE  /\ submitted[k] \in Accepted /\ engine[submitted[k]].key = k
                        /\ V[submitted[k]] # "none"
      OBVIOUS
    <3>1. /\ submitted[k] \in Accepted /\ engine[submitted[k]].key = k
          /\ views[submitted[k]] # "none" /\ submitted[k] \in DOMAIN views
      BY <1>8, <1>10, EngineFacts DEF ViewsSound
    <3>2. V[submitted[k]] # "none"
      BY <1>17, <1>20, <3>1
    <3>. QED
      BY <3>1, <3>2
  <2>4. \A k \in U : submitted[k] # 0
    BY <1>4, <1>8, <1>18 DEF ViewsSound
  <2>. QED
    BY <1>7, <2>1, <2>2, <2>3, <2>4 DEF ViewsSound, Accepted
<1>22. PendingSound'
  <2>1. \A r \in pending' : r \in pending \/ r \in reads
    BY <1>7
  <2>2. \A r \in pending' : r.in = rebuilds /\ RequestSound(engine, rebuilds, r)
    BY <1>8, <1>12, <1>13, <2>1 DEF PendingSound
  <2>3. \A r \in pending' : r.kind = "command" => submitted[r.key] = 0
    BY <1>8, <1>12, <2>1 DEF PendingSound
  <2>4. ASSUME NEW r \in pending', NEW q \in pending', r.kind = "read", q.kind = "read",
               r.keys \cap q.keys # {}
        PROVE  r = q
    <3>1. r \in open \/ r \in reads
      BY <1>3, <2>1, <2>4 DEF DetailReads
    <3>2. q \in open \/ q \in reads
      BY <1>3, <2>1, <2>4 DEF DetailReads
    <3>3. CASE r \in open /\ q \in open
      BY <1>3, <1>8, <2>4, <3>3 DEF DetailReads, PendingSound
    <3>4. CASE r \in reads /\ q \in reads
      BY <1>12, <2>4, <3>4
    <3>5. CASE r \in open /\ q \in reads
      BY <1>12, <2>4, <3>5
    <3>6. CASE r \in reads /\ q \in open
      BY <1>12, <2>4, <3>6
    <3>. QED
      BY <3>1, <3>2, <3>3, <3>4, <3>5, <3>6
  <2>5. engine' = engine /\ rebuilds' = rebuilds /\ submitted' = submitted
    BY <1>7
  <2>. QED
    BY <1>15, <2>2, <2>3, <2>4, <2>5 DEF PendingSound
<1>23. ASSUME NEW k \in Submissions, submitted[k] # 0, V[submitted[k]] = "unknown"
       PROVE  /\ submitted[k] \in missing \/ views[submitted[k]] = "unknown"
              /\ engine[submitted[k]].st # "running"
  <2>1. /\ submitted[k] \in Accepted /\ submitted[k] \in DOMAIN views
    BY <1>8, <1>10, <1>23, EngineFacts DEF ViewsSound
  <2>2. submitted[k] \in missing \/ views[submitted[k]] = "unknown"
    BY <1>17, <1>20, <1>23, <2>1
  <2>3. CASE submitted[k] \in missing
    <3>1. engine[submitted[k]].st = "running" => submitted[k] \in request.ids
      BY <1>8, <1>9, <1>23 DEF StatusNamesAll
    <3>. QED
      BY <1>9, <1>18, <2>2, <2>3, <3>1 DEF ReportSound
  <2>4. CASE views[submitted[k]] = "unknown"
    BY <1>8, <1>23, <2>2, <2>4 DEF UnknownIsOver
  <2>. QED
    BY <2>2, <2>3, <2>4
<1>24. UnknownIsOver'
  BY <1>7, <1>23 DEF UnknownIsOver
<1>25. LostIsGuarded'
  <2> SUFFICES ASSUME NEW k \in Submissions, submitted[k] # 0,
                      V[submitted[k]] = "unknown", engine[submitted[k]].st = "lost"
               PROVE  k \in U \/ submitted[k] \in witnessed
    BY <1>7 DEF LostIsGuarded
  <2>. QED
    BY <1>4, <1>8, <1>23 DEF LostIsGuarded
<1>26. /\ line' \in Seq(Frames) /\ \A i \in DOMAIN line' : FrameSound(engine, rebuilds, line'[i])
  BY <1>9, TakeFacts
<1>27. /\ views' \in Views /\ submitted' \in [Submissions -> Nat] /\ unverified' \subseteq Submissions
       /\ pending' \subseteq ClientRequests
  BY <1>7, <1>10, <1>11, <1>12, <1>19
<1>. QED
  BY <1>7, <1>14, <1>16, <1>21, <1>22, <1>24, <1>25, <1>26, <1>27, ProjectionKeeps

---------------------------------------------------------------------------
(* The theorems *)

(* The invariant holds at first, and each step keeps it. *)
LEMMA RegistryStarts == RegistryInit => RegistryInv
<1> SUFFICES ASSUME RegistryInit PROVE RegistryInv
  OBVIOUS
<1>1. /\ process = 1 /\ engine = <<>> /\ held = {} /\ inbound = <<>> /\ working = {} /\ line = <<>>
      /\ views = [o \in 1 .. MaxAccepted |-> "none"] /\ submitted = [k \in Submissions |-> 0]
      /\ unverified = {} /\ pending = {} /\ rebuilds = 0
  BY DEF RegistryInit
<1>2. RegistryShapes
  <2>1. process \in 1 .. MaxInstances /\ MaxAccepted \in Nat
    BY <1>1, RegistryAssumption
  <2>2. /\ engine \in Seq(EngineEntries) /\ Len(engine) = 0
        /\ inbound \in Seq(ClientRequests) /\ line \in Seq(Frames)
    BY <1>1
  <2>. QED
    BY <1>1, <2>1, <2>2 DEF RegistryShapes, Views
<1>3. EngineHeld /\ TrafficSound
  BY <1>1 DEF EngineHeld, TrafficSound, Accepted
<1>4. ViewsSound /\ UnknownIsOver /\ LostIsGuarded
  BY <1>1 DEF ViewsSound, UnknownIsOver, LostIsGuarded
<1>5. PendingSound /\ StatusLeads /\ StatusNamesAll
  BY <1>1 DEF PendingSound, StatusLeads, StatusNamesAll
<1>. QED
  BY <1>2, <1>3, <1>4, <1>5 DEF RegistryInv

LEMMA RegistryKeeps == RegistryInv /\ [RegistryNext]_recordVars => RegistryInv'
<1> SUFFICES ASSUME RegistryInv, [RegistryNext]_recordVars PROVE RegistryInv'
  OBVIOUS
<1>1. CASE ServerStep
  <2>1. CASE OtherAccepted
    BY <2>1, OtherAcceptedKeeps
  <2>2. CASE Dispatch
    BY <2>2, DispatchKeeps
  <2>3. CASE \E o \in held : Ends(o) \/ Forgets(o)
    BY <2>3, EndsKeeps, ForgetsKeeps
  <2>4. CASE \E r \in working : CommandAnswered(r) \/ CommandAccepted(r) \/ ReadAnswered(r)
    BY <2>4, CommandAnsweredKeeps, CommandAcceptedKeeps, ReadAnsweredKeeps
  <2>5. CASE Disconnect
    BY <2>5, DisconnectKeeps
  <2>6. CASE ProcessReplaced
    BY <2>6, ProcessReplacedKeeps
  <2>. QED
    BY <1>1, <2>1, <2>2, <2>3, <2>4, <2>5, <2>6 DEF ServerStep
<1>2. CASE ClientApplies
  <2>. QED
    BY <1>2, ApplyUpdateKeeps, ApplyResyncKeeps, ApplyStrayKeeps, ApplyAcceptedKeeps,
       ApplyStatusKeeps, ApplyReadKeeps DEF ClientApplies
<1>3. CASE Reconnect
  BY <1>3, ReconnectKeeps
<1>4. CASE \E k \in Submissions : Submit(k)
  BY <1>4, SubmitKeeps
<1>5. CASE UNCHANGED recordVars
  <2>1. UNCHANGED <<process, engine, held, inbound, working, line,
                    views, submitted, unverified, pending, rebuilds, witnessed>>
    BY <1>5 DEF recordVars, serverSide, clientSide
  <2>2. RegistryShapes' /\ EngineHeld' /\ TrafficSound' /\ ViewsSound'
    BY <2>1 DEF RegistryInv, RegistryShapes, EngineHeld, TrafficSound, ViewsSound, Accepted
  <2>3. PendingSound' /\ StatusNamesAll' /\ UnknownIsOver' /\ LostIsGuarded'
    BY <2>1 DEF RegistryInv, PendingSound, StatusNamesAll, UnknownIsOver, LostIsGuarded
  <2>4. StatusLeads'
    BY <2>1 DEF RegistryInv, StatusLeads, LeadsRequests, LeadsAnswers
  <2>. QED
    BY <2>2, <2>3, <2>4 DEF RegistryInv
<1>. QED
  BY <1>1, <1>2, <1>3, <1>4, <1>5 DEF RegistryNext

LEMMA RegistryInvHolds == RegistrySpec => []RegistryInv
<1>1. RegistryInit => RegistryInv
  BY RegistryStarts
<1>2. RegistryInv /\ [RegistryNext]_recordVars => RegistryInv'
  BY RegistryKeeps
<1>. QED
  BY <1>1, <1>2, PTL DEF RegistrySpec

(* The client's records of operations keep their types (state.rs, *)
(* OperationClientState): a view is of an operation that exists,  *)
(* an unverified key was submitted, and no key waits on two reads. *)
THEOREM RegistryTypeCorrect == RegistrySpec => []RegistryTypeOK
<1>1. RegistryInv => RegistryTypeOK
  <2> SUFFICES ASSUME RegistryInv PROVE RegistryTypeOK
    OBVIOUS
  <2>1. RegistryShapes /\ ViewsSound /\ PendingSound
    BY DEF RegistryInv
  <2>2. process \in 1 .. MaxInstances /\ held \subseteq Accepted
    BY <2>1 DEF RegistryShapes
  <2>3. views \in [1 .. MaxAccepted -> {"none", "running", "ended", "unknown"}]
    BY <2>1 DEF RegistryShapes, Views
  <2>4. \A o \in DOMAIN views : views[o] # "none" => o \in Accepted
    BY <2>1 DEF ViewsSound
  <2>5. submitted \in [Submissions -> {0} \cup Accepted]
    <3>1. submitted \in [Submissions -> Nat] /\ \A k \in Submissions : submitted[k] \in {0} \cup Accepted
      BY <2>1 DEF RegistryShapes, ViewsSound
    <3>. QED
      BY <3>1
  <2>6. unverified \subseteq {k \in Submissions : submitted[k] # 0}
    BY <2>1 DEF RegistryShapes, ViewsSound
  <2>7. \A r, q \in DetailReads : r.keys \cap q.keys # {} => r = q
    BY <2>1 DEF PendingSound, DetailReads
  <2>. QED
    BY <2>2, <2>3, <2>4, <2>5, <2>6, <2>7 DEF RegistryTypeOK
<1>. QED
  BY <1>1, RegistryInvHolds, PTL

(* A submission whose operation was lost with its process is offered again   *)
(* (retry_eligibility) only once its target has been read from a process     *)
(* that replaced it: whatever updates were missed, however often the client  *)
(* reconnects and however answers overtake what was sent before them.        *)
THEOREM RetriesAreInformed == RegistrySpec => []RetryIsInformed
<1>1. RegistryInv => RetryIsInformed
  <2> SUFFICES ASSUME RegistryInv, NEW k \in Submissions, submitted[k] # 0,
                      engine[submitted[k]].st = "lost", Eligible(k)
               PROVE  submitted[k] \in witnessed
    BY DEF RetryIsInformed
  <2>1. RegistryShapes /\ ViewsSound /\ LostIsGuarded
    BY DEF RegistryInv
  <2>2. submitted[k] \in Accepted /\ views[submitted[k]] # "none"
    BY <2>1 DEF ViewsSound
  <2>3. submitted[k] \in DOMAIN views /\ views[submitted[k]] \in {"none", "running", "ended", "unknown"}
    BY <2>1, <2>2, EngineFacts DEF RegistryShapes, Views
  <2>4. views[submitted[k]] # "ended"
    BY <2>1, <2>3 DEF ViewsSound
  <2>5. views[submitted[k]] # "running" /\ (views[submitted[k]] = "unknown" => k \notin unverified)
    BY <2>2 DEF Eligible
  <2>6. views[submitted[k]] = "unknown" /\ k \notin unverified
    BY <2>2, <2>3, <2>4, <2>5
  <2>. QED
    BY <2>1, <2>6 DEF LostIsGuarded
<1>. QED
  BY <1>1, RegistryInvHolds, PTL

---------------------------------------------------------------------------
(* The server implements MutationEngine. *)

LEMMA ServerRests ==
  ASSUME engine' = engine, held' = held
  PROVE  [Server!Next]_(Server!vars)
BY DEF Server!vars, EngineKeys, StillRunning, Accepted

(* A key is accepted as the next operation's. *)
LEMMA ServerAccepts ==
  ASSUME RegistryInv, NEW k \in Submissions \cup {Elsewhere}, AcceptNew(k),
         k = Elsewhere \/ \A o \in held : engine[o].key = k => engine[o].st = "ended"
  PROVE  Server!Next
<1>1. engine \in Seq(EngineEntries) /\ held \subseteq Accepted /\ EngineHeld
  BY DEF RegistryInv, RegistryShapes
<1>2. PICK o : o = Len(engine) + 1
  OBVIOUS
<1>3. PICK entry : entry = [key |-> k, st |-> "running"]
  OBVIOUS
<1>4. entry \in EngineEntries /\ entry.key = k /\ entry.st = "running"
  BY <1>3 DEF EngineEntries
<1>5. Len(engine) \in Nat /\ Accepted = 1 .. Len(engine)
  BY <1>1 DEF Accepted
<1>6. engine' = Append(engine, entry) /\ held' = held \cup {o}
  BY <1>2, <1>3 DEF AcceptNew
<1>7. /\ Accepted' = (1 .. Len(engine)) \cup {o}
      /\ engine'[o] = entry /\ \A p \in 1 .. Len(engine) : engine'[p] = engine[p]
  BY <1>1, <1>2, <1>4, <1>5, <1>6 DEF Accepted
<1>8. StillRunning' = StillRunning \cup {o}
  BY <1>4, <1>5, <1>7 DEF StillRunning
<1>9. EngineKeys \in Seq(Submissions \cup {Elsewhere}) /\ Len(EngineKeys) = Len(engine)
  <2>1. ASSUME NEW p \in 1 .. Len(engine)
        PROVE  engine[p].key \in Submissions \cup {Elsewhere}
    <3>1. engine[p] \in EngineEntries
      BY <1>1, <2>1
    <3>. QED
      BY <3>1 DEF EngineEntries
  <2>. QED
    BY <1>5, <2>1 DEF EngineKeys
<1>10. EngineKeys' = Append(EngineKeys, k)
  <2>1. /\ DOMAIN EngineKeys' = (1 .. Len(engine)) \cup {o}
        /\ EngineKeys'[o] = k
        /\ \A p \in 1 .. Len(engine) : EngineKeys'[p] = EngineKeys[p]
    BY <1>4, <1>5, <1>7 DEF EngineKeys
  <2>2. /\ DOMAIN Append(EngineKeys, k) = (1 .. Len(engine)) \cup {o}
        /\ Append(EngineKeys, k)[o] = k
        /\ \A p \in 1 .. Len(engine) : Append(EngineKeys, k)[p] = EngineKeys[p]
    BY <1>2, <1>5, <1>9
  <2>3. EngineKeys' = [p \in (1 .. Len(engine)) \cup {o} |-> EngineKeys'[p]]
    BY <2>1 DEF EngineKeys
  <2>4. Append(EngineKeys, k) = [p \in (1 .. Len(engine)) \cup {o} |-> Append(EngineKeys, k)[p]]
    <3>1. Append(EngineKeys, k) \in Seq(Submissions \cup {Elsewhere})
      BY <1>9
    <3>2. \A s \in Seq(Submissions \cup {Elsewhere}) : s = [p \in DOMAIN s |-> s[p]]
      OBVIOUS
    <3>. QED
      BY <2>2, <3>1, <3>2
  <2>. QED
    BY <2>1, <2>2, <2>3, <2>4
<1>11. ASSUME k # Elsewhere, NEW p \in StillRunning
       PROVE  EngineKeys[p] # k
  BY <1>1, <1>11 DEF StillRunning, EngineKeys, EngineHeld
<1>12. held' = (held \ {}) \cup {o} /\ {} \in SUBSET (held \ StillRunning)
  BY <1>6
<1>13. o = Len(EngineKeys) + 1
  BY <1>2, <1>9
<1>14. Server!Accept(k)
  BY <1>8, <1>10, <1>11, <1>12, <1>13 DEF Server!Accept
<1>. QED
  BY <1>14 DEF Server!Next

LEMMA ServerEnds ==
  ASSUME RegistryInv, NEW o \in held, Ends(o)
  PROVE  Server!Next
<1>1. engine \in Seq(EngineEntries) /\ o \in Accepted /\ engine[o].st = "running" /\ held' = held
      /\ engine' = [engine EXCEPT ![o].st = "ended"]
  BY DEF Ends, RegistryInv, RegistryShapes
<1>2. engine[o] \in EngineEntries /\ engine'[o] = [engine[o] EXCEPT !.st = "ended"]
  BY <1>1 DEF Accepted
<1>3. /\ Accepted' = Accepted
      /\ engine'[o].key = engine[o].key /\ engine'[o].st = "ended"
      /\ \A p \in Accepted : p # o => engine'[p] = engine[p]
  BY <1>1, <1>2 DEF Accepted, EngineEntries
<1>4. EngineKeys' = EngineKeys
  BY <1>3 DEF EngineKeys
<1>5. o \in StillRunning /\ StillRunning' = StillRunning \ {o}
  BY <1>1, <1>3 DEF StillRunning
<1>6. Server!End(o)
  BY <1>1, <1>4, <1>5 DEF Server!End
<1>. QED
  BY <1>5, <1>6 DEF Server!Next

LEMMA ServerForgets ==
  ASSUME RegistryInv, NEW o \in held, Forgets(o)
  PROVE  Server!Next
<1>1. engine' = engine /\ held' = held \ {o} /\ {o} \in SUBSET (held \ StillRunning)
  BY DEF Forgets, StillRunning
<1>2. EngineKeys' = EngineKeys /\ StillRunning' = StillRunning
  BY <1>1 DEF EngineKeys, StillRunning, Accepted
<1>3. Server!Forget({o})
  BY <1>1, <1>2 DEF Server!Forget
<1>. QED
  BY <1>1, <1>3 DEF Server!Next

LEMMA ServerReplaced ==
  ASSUME RegistryInv, ProcessReplaced
  PROVE  Server!Next
<1>1. engine \in Seq(EngineEntries) /\ held' = {}
      /\ engine' = [o \in Accepted |->
           IF engine[o].st = "running" THEN [engine[o] EXCEPT !.st = "lost"] ELSE engine[o]]
  BY DEF ProcessReplaced, RegistryInv, RegistryShapes
<1>2. Accepted' = Accepted
  BY <1>1 DEF Accepted
<1>3. ASSUME NEW o \in Accepted
      PROVE  engine'[o].key = engine[o].key /\ engine'[o].st # "running"
  <2>1. engine[o] \in EngineEntries
    BY <1>1 DEF Accepted
  <2>. QED
    BY <1>1, <2>1 DEF EngineEntries
<1>4. EngineKeys' = EngineKeys /\ StillRunning' = {}
  BY <1>2, <1>3 DEF EngineKeys, StillRunning
<1>. QED
  BY <1>1, <1>4 DEF Server!Next, Server!Replace

LEMMA ServerSteps == RegistryInv /\ [RegistryNext]_recordVars => [Server!Next]_(Server!vars)
<1> SUFFICES ASSUME RegistryInv, [RegistryNext]_recordVars PROVE [Server!Next]_(Server!vars)
  OBVIOUS
<1>1. CASE ServerStep
  <2>1. CASE OtherAccepted
    BY <2>1, ServerAccepts DEF OtherAccepted
  <2>2. CASE Dispatch
    BY <2>2, ServerRests DEF Dispatch
  <2>3. CASE \E o \in held : Ends(o) \/ Forgets(o)
    BY <2>3, ServerEnds, ServerForgets
  <2>4. ASSUME NEW r \in working, CommandAccepted(r)
        PROVE  Server!Next
    <3>1. r \in ClientRequests /\ r.kind = "command"
      BY <2>4 DEF CommandAccepted, RegistryInv, RegistryShapes
    <3>2. r.key \in Submissions
      BY <3>1 DEF ClientRequests, StatusRequests, CommandRequests, ReadRequests
    <3>. QED
      BY <2>4, <3>2, ServerAccepts DEF CommandAccepted
  <2>5. ASSUME NEW r \in working, CommandAnswered(r) \/ ReadAnswered(r)
        PROVE  [Server!Next]_(Server!vars)
    BY <2>5, ServerRests DEF CommandAnswered, ReadAnswered
  <2>6. CASE Disconnect
    BY <2>6, ServerRests DEF Disconnect
  <2>7. CASE ProcessReplaced
    BY <2>7, ServerReplaced
  <2>. QED
    BY <1>1, <2>1, <2>2, <2>3, <2>4, <2>5, <2>6, <2>7 DEF ServerStep
<1>2. CASE ClientApplies
  <2>1. engine' = engine /\ held' = held
    BY <1>2 DEF ClientApplies, ApplyUpdate, ApplyResync, ApplyStray, ApplyAccepted, ApplyStatus,
       ApplyRead, serverSide
  <2>. QED
    BY <2>1, ServerRests
<1>3. CASE Reconnect
  BY <1>3, ServerRests DEF Reconnect
<1>4. CASE \E k \in Submissions : Submit(k)
  BY <1>4, ServerRests DEF Submit
<1>5. CASE UNCHANGED recordVars
  BY <1>5, ServerRests DEF recordVars, serverSide
<1>. QED
  BY <1>1, <1>2, <1>3, <1>4, <1>5 DEF RegistryNext

(* What the client's registry is proved against is the engine that Operations *)
(* implements, over any number of its processes: what it knows of its server  *)
(* is no more than MutationEngine says (control.rs, operation/mod.rs).        *)
THEOREM RegistryServerIsAnEngine == RegistrySpec => ServerIsAnEngine
<1>1. RegistryInit => Server!Init
  <2> SUFFICES ASSUME RegistryInit PROVE Server!Init
    OBVIOUS
  <2>1. engine = <<>> /\ held = {}
    BY DEF RegistryInit
  <2>2. EngineKeys = <<>> /\ StillRunning = {}
    BY <2>1 DEF EngineKeys, StillRunning, Accepted
  <2>. QED
    BY <2>1, <2>2 DEF Server!Init
<1>. QED
  BY <1>1, ServerSteps, RegistryInvHolds, PTL DEF RegistrySpec, ServerIsAnEngine, Server!Spec
=============================================================================
