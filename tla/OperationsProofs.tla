--------------------------- MODULE OperationsProofs ---------------------------
(***************************************************************************)
(* Proofs about background operations: Operations, for every set of keys,  *)
(* fingerprints and targets, every number of requests and every capacity   *)
(* of the stores.                                                          *)
(***************************************************************************)
EXTENDS Operations, FiniteSetTheorems, WellFoundedInduction, TLAPS

---------------------------------------------------------------------------
(* The inductive invariant. *)

(* A live operation that was not refreshed has its target's scope, alone.    *)
GateInv ==
  /\ \A o \in Retained :
       operations[o].state \in {"pending", "running"} =>
         operations[o].scope = ScopeOf[accepted[o].print]
  /\ \A o, p \in Live :
       operations[o].scope = operations[p].scope /\ operations[o].scope # NoScope => o = p
  /\ \A o \in writes : o \in Retained /\ operations[o].state = "running"

(* An operation keeps its key until it fails or the key is forgotten, and a   *)
(* later operation has the same key only then; a live one has neither.        *)
KeyInv ==
  /\ KeysNameTheirOperation
  /\ \A o \in DOMAIN accepted : ~accepted[o].failed /\ ~accepted[o].forgotten =>
       accepted[o].key \in DOMAIN keys /\ keys[accepted[o].key].operation = o
  /\ \A o, p \in DOMAIN accepted :
       o < p /\ accepted[o].key = accepted[p].key /\ ~accepted[o].failed => accepted[o].forgotten
  /\ \A o \in Live : ~accepted[o].forgotten /\ ~accepted[o].failed

(* The ticket of a submission was issued and is gone. *)
TicketInv ==
  /\ \A r \in Requests : requests[r] # Idle => requests[r].ticket <= issued
  /\ \A o \in DOMAIN accepted :
       /\ accepted[o].ticket <= issued
       /\ accepted[o].submitted => accepted[o].ticket \notin DOMAIN tickets
  /\ TicketsSingleUse

(* TypeOK in named parts. *)
Record == [state : States, scope : Scopes \cup {NoScope}]

HistoryOK == accepted \in Seq(Entry) /\ Len(accepted) <= MaxOperations
OperationsOK ==
  /\ Retained \subseteq DOMAIN accepted
  /\ operations \in [Retained -> Record]
  /\ Cardinality(Retained) <= OperationCapacity
KeysOK ==
  /\ DOMAIN keys \subseteq Keys
  /\ keys \in [DOMAIN keys -> [operation : DOMAIN accepted, print : Fingerprints]]
  /\ Cardinality(DOMAIN keys) <= KeyCapacity
TicketsOK ==
  /\ issued \in 0 .. MaxTickets
  /\ DOMAIN tickets \subseteq 1 .. issued
  /\ tickets \in [DOMAIN tickets -> Applies]
  /\ Cardinality(DOMAIN tickets) <= TicketCapacity
RequestsOK == requests \in [Requests -> {Idle} \cup Reads]
WritesOK == writes \subseteq DOMAIN accepted
FeedOK ==
  /\ DOMAIN feed.told \subseteq DOMAIN accepted
  /\ feed \in [open : BOOLEAN, backlog : 0 .. ChannelCapacity, lagged : BOOLEAN,
               told : [DOMAIN feed.told -> States]]

IInv ==
  /\ HistoryOK /\ OperationsOK /\ KeysOK /\ TicketsOK /\ RequestsOK /\ WritesOK /\ FeedOK
  /\ IsFiniteSet(DOMAIN keys)
  /\ GateInv /\ KeyInv /\ TicketInv /\ SessionKnowsLive

(* The named parts are the type invariant. *)
LEMMA TypeParts ==
  TypeOK <=> /\ HistoryOK /\ OperationsOK /\ KeysOK /\ TicketsOK /\ RequestsOK /\ WritesOK
             /\ FeedOK
  BY DEF TypeOK, HistoryOK, OperationsOK, KeysOK, TicketsOK, RequestsOK, WritesOK, FeedOK, Record

(* The constants are numbers, and a cut of the registry fits the channel. *)
LEMMA Bounds ==
  /\ OperationCapacity \in Nat /\ OperationCapacity > 0 /\ KeyCapacity \in Nat /\ KeyCapacity > 0
  /\ TicketCapacity \in Nat /\ TicketCapacity > 0
  /\ MaxOperations \in Nat /\ MaxTickets \in Nat /\ EventHeadroom \in Nat
  /\ ChannelCapacity \in Nat /\ ChannelCapacity >= OperationCapacity
  BY OperationsAssumption DEF ChannelCapacity

---------------------------------------------------------------------------
(* Sets of numbers and what is dropped from them. *)

LEMMA Least ==
  ASSUME NEW S \in SUBSET Nat, S # {}
  PROVE  \E n \in S : \A m \in S : n <= m
<1>1. PICK n \in S : \A m \in S : ~ (<<m, n>> \in OpToRel(<, Nat))
  BY NatLessThanWellFounded, WFMin, Zenon
<1>2. \A m \in S : ~ (m < n)
  BY <1>1, Zenon DEF OpToRel
<1>. QED
  BY <1>2

(* A set that loses an element has room for another one. *)
LEMMA Replaced ==
  ASSUME NEW S, IsFiniteSet(S), NEW E \in SUBSET S, NEW x, NEW n \in Nat,
         Cardinality(S) <= n, Cardinality(S) < n \/ E # {}
  PROVE  IsFiniteSet((S \ E) \cup {x}) /\ Cardinality((S \ E) \cup {x}) <= n
<1>1. S \ E \in SUBSET S
  OBVIOUS
<1>2. IsFiniteSet(S \ E) /\ Cardinality(S \ E) <= Cardinality(S)
      /\ (Cardinality(S) = Cardinality(S \ E) => S = S \ E)
  BY <1>1, FS_Subset
<1>3. Cardinality(S) \in Nat /\ Cardinality(S \ E) \in Nat
  BY <1>2, FS_CardinalityType
<1>4. Cardinality(S \ E) < n
  <2>1. CASE Cardinality(S) < n
    BY <1>2, <1>3, <2>1
  <2>2. CASE E # {}
    <3>1. S # S \ E
      BY <2>2
    <3>. QED
      BY <1>2, <1>3, <3>1
  <2>. QED
    BY <2>1, <2>2
<1>5. IsFiniteSet((S \ E) \cup {x})
      /\ (Cardinality((S \ E) \cup {x}) = Cardinality(S \ E)
          \/ Cardinality((S \ E) \cup {x}) = Cardinality(S \ E) + 1)
  BY <1>2, FS_AddElement
<1>. QED
  BY <1>3, <1>4, <1>5

(* What is evicted is terminal, and something is when the registry is full.   *)
LEMMA EvictedFacts ==
  ASSUME HistoryOK, OperationsOK
  PROVE  /\ IsFiniteSet(Retained)
         /\ Evicted \subseteq Retained \ Live
         /\ HasRoom => Cardinality(Retained) < OperationCapacity \/ Evicted # {}
<1>1. Retained \subseteq 1 .. Len(accepted) /\ Len(accepted) \in Nat
  BY DEF HistoryOK, OperationsOK
<1>2. IsFiniteSet(Retained)
  <2>1. IsFiniteSet(1 .. Len(accepted))
    BY <1>1, FS_Interval
  <2>. QED
    BY <1>1, <2>1, FS_Subset
<1>3. Evicted \subseteq Retained \ Live
  BY DEF Evicted, Oldest
<1>4. ASSUME HasRoom, ~ (Cardinality(Retained) < OperationCapacity)
      PROVE  Evicted # {}
  <2>1. Retained \ Live # {}
    BY <1>4 DEF HasRoom, Live
  <2>2. Retained \ Live \in SUBSET Nat
    <3>1. \A o \in Retained : o \in Nat
      BY <1>1
    <3>. QED
      BY <3>1
  <2>3. \E n \in Retained \ Live : \A m \in Retained \ Live : n <= m
    BY <2>1, <2>2, Least
  <2>. QED
    BY <1>4, <2>3 DEF Evicted, Oldest
<1>. QED
  BY <1>2, <1>3, <1>4

(* The same for keys: what is forgotten is the key of no live operation.      *)
LEMMA ForgottenFacts ==
  ASSUME HistoryOK, KeysOK
  PROVE  /\ ForgottenKeys \subseteq SpentKeys
         /\ SpentKeys \subseteq DOMAIN keys
         /\ HasKeyRoom => Cardinality(DOMAIN keys) < KeyCapacity \/ ForgottenKeys # {}
<1>1. \A k \in DOMAIN keys : keys[k].operation \in Nat
  BY DEF HistoryOK, KeysOK
<1>2. ForgottenKeys \subseteq SpentKeys /\ SpentKeys \subseteq DOMAIN keys
  BY DEF ForgottenKeys, SpentKeys
<1>3. ASSUME HasKeyRoom, ~ (Cardinality(DOMAIN keys) < KeyCapacity)
      PROVE  ForgottenKeys # {}
  <2> DEFINE N == {keys[k].operation : k \in SpentKeys}
  <2>1. N # {}
    BY <1>3 DEF HasKeyRoom
  <2>2. N \in SUBSET Nat
    BY <1>1, <1>2
  <2> HIDE DEF N
  <2>3. PICK n \in N : \A m \in N : n <= m
    BY <2>1, <2>2, Least
  <2>4. \E k \in SpentKeys : \A j \in SpentKeys : keys[k].operation <= keys[j].operation
    BY <2>3 DEF N
  <2>. QED
    BY <1>3, <2>4 DEF ForgottenKeys
<1>. QED
  BY <1>2, <1>3

(* Forgetting keys changes nothing else in the history. *)
LEMMA ForgetFacts ==
  ASSUME HistoryOK, NEW K
  PROVE  /\ Forget(K) \in Seq(Entry) /\ Len(Forget(K)) = Len(accepted)
         /\ DOMAIN Forget(K) = DOMAIN accepted
         /\ \A o \in DOMAIN accepted :
              /\ Forget(K)[o].key = accepted[o].key /\ Forget(K)[o].print = accepted[o].print
              /\ Forget(K)[o].ticket = accepted[o].ticket
              /\ Forget(K)[o].submitted = accepted[o].submitted
              /\ Forget(K)[o].failed = accepted[o].failed
              /\ Forget(K)[o].forgotten <=>
                   accepted[o].forgotten \/ \E k \in K : keys[k].operation = o
<1>1. Len(accepted) \in Nat /\ DOMAIN accepted = 1 .. Len(accepted)
      /\ \A o \in DOMAIN accepted : accepted[o] \in Entry
  BY DEF HistoryOK
<1>2. ASSUME NEW o \in DOMAIN accepted
      PROVE  /\ Forget(K)[o] = [accepted[o] EXCEPT !.forgotten =
                                  accepted[o].forgotten \/ \E k \in K : keys[k].operation = o]
             /\ Forget(K)[o] \in Entry
  <2> DEFINE b == accepted[o].forgotten \/ \E k \in K : keys[k].operation = o
  <2>1. b \in BOOLEAN
    OBVIOUS
  <2>2. Forget(K)[o] = [accepted[o] EXCEPT !.forgotten = b]
    BY DEF Forget
  <2> HIDE DEF b
  <2>3. [accepted[o] EXCEPT !.forgotten = b] \in Entry
    BY <1>1, <2>1 DEF Entry
  <2>. QED
    BY <2>2, <2>3 DEF b
<1>3. DOMAIN Forget(K) = 1 .. Len(accepted)
  BY <1>1 DEF Forget
<1>4. Forget(K) \in [1 .. Len(accepted) -> Entry]
  <2>1. Forget(K) = [o \in 1 .. Len(accepted) |-> Forget(K)[o]]
    BY <1>1, Zenon DEF Forget
  <2>. QED
    BY <1>1, <1>2, <2>1
<1>5. Forget(K) \in Seq(Entry) /\ Len(Forget(K)) = Len(accepted)
  BY <1>1, <1>3, <1>4
<1>6. ASSUME NEW o \in DOMAIN accepted
      PROVE  /\ Forget(K)[o].key = accepted[o].key /\ Forget(K)[o].print = accepted[o].print
             /\ Forget(K)[o].ticket = accepted[o].ticket
             /\ Forget(K)[o].submitted = accepted[o].submitted
             /\ Forget(K)[o].failed = accepted[o].failed
             /\ Forget(K)[o].forgotten <=>
                  accepted[o].forgotten \/ \E k \in K : keys[k].operation = o
  <2>1. accepted[o] \in Entry
    BY <1>1
  <2> DEFINE b == accepted[o].forgotten \/ \E k \in K : keys[k].operation = o
  <2>2. Forget(K)[o] = [accepted[o] EXCEPT !.forgotten = b]
    BY <1>2
  <2>3. b \in BOOLEAN
    OBVIOUS
  <2> HIDE DEF b
  <2>4. Forget(K)[o].forgotten = b
    BY <2>1, <2>2 DEF Entry
  <2>5. /\ Forget(K)[o].key = accepted[o].key /\ Forget(K)[o].print = accepted[o].print
        /\ Forget(K)[o].ticket = accepted[o].ticket
        /\ Forget(K)[o].submitted = accepted[o].submitted
        /\ Forget(K)[o].failed = accepted[o].failed
    BY <2>1, <2>2 DEF Entry
  <2>. QED
    BY <2>4, <2>5 DEF b
<1>. QED
  BY <1>1, <1>3, <1>5, <1>6

(* What the receiver knows after one more operation's events. *)
Heard(new, o, last) ==
  /\ new \in [open : BOOLEAN, backlog : 0 .. ChannelCapacity, lagged : BOOLEAN,
              told : [DOMAIN new.told -> States]]
  /\ new.open = feed.open
  /\ feed.open =>
       /\ DOMAIN new.told = DOMAIN feed.told \cup {o}
       /\ new.told[o] = last
       /\ \A p \in DOMAIN feed.told : p # o => new.told[p] = feed.told[p]
       /\ feed.lagged => new.lagged
  /\ ~feed.open => new = feed

LEMMA EmittedFacts ==
  ASSUME FeedOK, NEW o, NEW states \in Seq(States), states # <<>>
  PROVE  Heard(Emitted(o, states), o, states[Len(states)])
<1>1. feed \in [open : BOOLEAN, backlog : 0 .. ChannelCapacity, lagged : BOOLEAN,
                told : [DOMAIN feed.told -> States]]
  BY DEF FeedOK
<1>2. CASE ~feed.open
  BY <1>1, <1>2 DEF Emitted, Heard
<1>3. CASE feed.open
  <2> DEFINE sent == feed.backlog + Len(states)
  <2> DEFINE b == IF sent <= ChannelCapacity THEN sent ELSE ChannelCapacity
  <2> DEFINE l == feed.lagged \/ sent > ChannelCapacity
  <2> DEFINE last == states[Len(states)]
  <2> DEFINE told == [p \in DOMAIN feed.told \cup {o} |-> IF p = o THEN last ELSE feed.told[p]]
  <2>1. last \in States /\ sent \in Nat
    BY <1>1, Bounds
  <2>2. b \in 0 .. ChannelCapacity /\ l \in BOOLEAN
    BY <2>1, Bounds
  <2>3. told \in [DOMAIN told -> States]
    BY <1>1, <2>1
  <2>4. Emitted(o, states) = [feed EXCEPT !.backlog = b, !.lagged = l, !.told = told]
    BY <1>1, <1>3 DEF Emitted
  <2>5. DOMAIN told = DOMAIN feed.told \cup {o} /\ told[o] = last
        /\ \A p \in DOMAIN feed.told : p # o => told[p] = feed.told[p]
    OBVIOUS
  <2>6. feed.lagged => l
    OBVIOUS
  <2> HIDE DEF b, l, told, last
  <2>7. Emitted(o, states) = [open |-> feed.open, backlog |-> b, lagged |-> l, told |-> told]
    BY <1>1, <2>4
  <2>. QED
    BY <1>1, <1>3, <2>2, <2>3, <2>5, <2>6, <2>7 DEF last, Heard
<1>. QED
  BY <1>1, <1>2, <1>3
---------------------------------------------------------------------------
(* One lemma per kind of step. *)

(* What the history looks like to the other parts. *)
LEMMA HistoryFacts ==
  ASSUME HistoryOK
  PROVE  /\ Len(accepted) \in Nat /\ DOMAIN accepted = 1 .. Len(accepted)
         /\ \A o \in DOMAIN accepted :
              /\ o \in Nat
              /\ accepted[o] \in Entry
              /\ ScopeOf[accepted[o].print] \in Scopes
              /\ ScopeOf[accepted[o].print] # NoScope
<1>1. Len(accepted) \in Nat /\ DOMAIN accepted = 1 .. Len(accepted)
      /\ \A o \in DOMAIN accepted : accepted[o] \in Entry
  BY DEF HistoryOK
<1>2. \A o \in DOMAIN accepted : accepted[o].print \in Fingerprints
  BY <1>1 DEF Entry
<1>3. \A f \in Fingerprints : ScopeOf[f] \in Scopes /\ ScopeOf[f] # NoScope
  BY OperationsAssumption
<1>. QED
  BY <1>1, <1>2, <1>3

(* Terminal operations go: expired, or evicted for one that is then refused.  *)
LEMMA DropStep ==
  ASSUME IInv, NEW E \in SUBSET (Retained \ Live),
         operations' = Only(operations, Retained \ E),
         UNCHANGED <<keys, tickets, issued, writes, feed, accepted>>,
         RequestsOK', \A r \in Requests : requests'[r] # Idle => requests'[r].ticket <= issued
  PROVE  IInv'
<1>1. /\ HistoryOK /\ OperationsOK /\ KeysOK /\ TicketsOK /\ WritesOK /\ FeedOK
      /\ GateInv /\ KeyInv /\ TicketInv /\ SessionKnowsLive /\ IsFiniteSet(DOMAIN keys)
  BY DEF IInv
<1>2. /\ Retained' = Retained \ E
      /\ \A o \in Retained' : operations'[o] = operations[o]
  BY DEF Only, Retained
<1>3. Live' = Live
  BY <1>2 DEF Live
<1>4. HistoryOK' /\ KeysOK' /\ TicketsOK' /\ WritesOK' /\ FeedOK' /\ IsFiniteSet(DOMAIN keys)'
  BY <1>1 DEF HistoryOK, KeysOK, TicketsOK, WritesOK, FeedOK
<1>5. OperationsOK'
  <2>1. Retained' \in SUBSET Retained
    BY <1>2
  <2>2. IsFiniteSet(Retained)
    BY <1>1, EvictedFacts
  <2>3. Cardinality(Retained') <= Cardinality(Retained) /\ IsFiniteSet(Retained')
    BY <2>1, <2>2, FS_Subset
  <2>4. Cardinality(Retained') \in Nat /\ Cardinality(Retained) \in Nat
    BY <2>2, <2>3, FS_CardinalityType
  <2>5. Cardinality(Retained') <= OperationCapacity
    BY <1>1, <2>3, <2>4, Bounds DEF OperationsOK
  <2>6. operations' \in [Retained' -> Record]
    BY <1>1, <1>2, <2>1 DEF OperationsOK, Only
  <2>7. Retained' \subseteq DOMAIN accepted'
    BY <1>1, <2>1 DEF OperationsOK
  <2>. QED
    BY <2>5, <2>6, <2>7 DEF OperationsOK, Retained, Record
<1>6. GateInv'
  <2>1. \A o \in writes : o \in Live
    BY <1>1 DEF GateInv, Live, Terminal
  <2>2. Live \subseteq Retained' /\ Retained' \subseteq Retained
    BY <1>2 DEF Live
  <2>3. \A o \in Retained' : o \in Retained /\ operations'[o] = operations[o]
    BY <1>2
  <2>4. \A o \in Live' : o \in Retained' /\ operations'[o] = operations[o]
    BY <1>2, <1>3, <2>2
  <2>5. \A o \in Retained' :
          operations'[o].state \in {"pending", "running"} =>
            operations'[o].scope = ScopeOf[accepted'[o].print]
    BY <1>1, <2>3 DEF GateInv
  <2>6. ASSUME NEW o \in Live', NEW p \in Live',
               operations'[o].scope = operations'[p].scope, operations'[o].scope # NoScope
        PROVE  o = p
    <3>1. /\ o \in Live /\ p \in Live
          /\ operations[o].scope = operations[p].scope /\ operations[o].scope # NoScope
      BY <1>3, <2>4, <2>6
    <3>. QED
      BY <1>1, <3>1 DEF GateInv
  <2>7. \A o \in writes' : o \in Retained' /\ operations'[o].state = "running"
    BY <1>1, <1>3, <2>1, <2>4 DEF GateInv
  <2>. QED
    BY <2>5, <2>6, <2>7 DEF GateInv
<1>7. KeyInv'
  BY <1>1, <1>3 DEF KeyInv, KeysNameTheirOperation
<1>8. TicketInv'
  BY <1>1 DEF TicketInv, TicketsSingleUse
<1>9. SessionKnowsLive'
  BY <1>1, <1>2, <1>3 DEF SessionKnowsLive, Live
<1>. QED
  BY <1>4, <1>5, <1>6, <1>7, <1>8, <1>9 DEF IInv

(* expire: an operation whose time is over goes. *)
LEMMA ExpireOperationStep ==
  ASSUME IInv, NEW o \in Retained, ExpireOperation(o)
  PROVE  IInv'
<1>1. {o} \in SUBSET (Retained \ Live)
  BY DEF ExpireOperation
<1>2. RequestsOK' /\ \A r \in Requests : requests'[r] # Idle => requests'[r].ticket <= issued
  BY DEF ExpireOperation, IInv, RequestsOK, TicketInv
<1>3. /\ operations' = Only(operations, Retained \ {o})
      /\ UNCHANGED <<keys, tickets, issued, writes, feed, accepted>>
  BY DEF ExpireOperation
<1>. QED
  BY <1>1, <1>2, <1>3, DropStep

(* A request that ends. *)
LEMMA IdleFacts ==
  ASSUME IInv, NEW r \in Requests, Become(r, Idle)
  PROVE  RequestsOK' /\ \A q \in Requests : requests'[q] # Idle => requests'[q].ticket <= issued
<1>1. RequestsOK /\ TicketInv
  BY DEF IInv
<1>2. requests' \in [Requests -> {Idle} \cup Reads]
      /\ \A q \in Requests : requests'[q] = IF q = r THEN Idle ELSE requests[q]
  BY <1>1 DEF Become, RequestsOK
<1>. QED
  BY <1>1, <1>2 DEF RequestsOK, TicketInv

(* A command is replayed or refused. *)
LEMMA TurnAwayStep ==
  ASSUME IInv, NEW r \in Requests, TurnAway(r)
  PROVE  IInv'
<1>1. RequestsOK' /\ \A q \in Requests : requests'[q] # Idle => requests'[q].ticket <= issued
  BY IdleFacts DEF TurnAway
<1>2. UNCHANGED <<keys, tickets, issued, writes, feed, accepted>>
  BY DEF TurnAway
<1>3. HistoryOK /\ OperationsOK
  BY DEF IInv
<1>4. CASE operations' = Only(operations, Retained \ Evicted)
  <2>1. Evicted \in SUBSET (Retained \ Live)
    BY <1>3, EvictedFacts
  <2>. QED
    BY <1>1, <1>2, <1>4, <2>1, DropStep
<1>5. CASE operations' = operations
  <2>1. operations = Only(operations, Retained \ {}) /\ {} \in SUBSET (Retained \ Live)
    BY <1>3 DEF Only, OperationsOK
  <2>. QED
    BY <1>1, <1>2, <1>5, <2>1, DropStep
<1>. QED
  BY <1>4, <1>5 DEF TurnAway

(* A command ends before its acceptance. *)
LEMMA AbandonStep ==
  ASSUME IInv, NEW r \in Requests, Abandon(r)
  PROVE  IInv'
<1>1. RequestsOK' /\ \A q \in Requests : requests'[q] # Idle => requests'[q].ticket <= issued
  BY IdleFacts DEF Abandon
<1>2. OperationsOK
  BY DEF IInv
<1>3. operations' = Only(operations, Retained \ {}) /\ {} \in SUBSET (Retained \ Live)
      /\ UNCHANGED <<keys, tickets, issued, writes, feed, accepted>>
  BY <1>2 DEF Only, OperationsOK, Abandon
<1>. QED
  BY <1>1, <1>3, DropStep

(* A command goes on to its reads, with a ticket that was issued. *)
LEMMA BeginStep ==
  ASSUME IInv, NEW r \in Requests, NEW k \in Keys, NEW f \in Fingerprints, NEW t \in 0 .. issued,
         Begin(r, k, f, t)
  PROVE  IInv'
<1>1. OperationsOK /\ RequestsOK /\ TicketsOK /\ TicketInv
  BY DEF IInv
<1>2. Reading(k, f, t) \in Reads /\ Reading(k, f, t).ticket <= issued
  BY <1>1, Bounds DEF Reading, Reads, TicketsOK
<1>3. requests' \in [Requests -> {Idle} \cup Reads]
      /\ \A q \in Requests : requests'[q] = IF q = r THEN Reading(k, f, t) ELSE requests[q]
  BY <1>1, <1>2 DEF Begin, Become, RequestsOK
<1>4. RequestsOK' /\ \A q \in Requests : requests'[q] # Idle => requests'[q].ticket <= issued
  BY <1>1, <1>2, <1>3 DEF RequestsOK, TicketInv
<1>5. operations' = Only(operations, Retained \ {}) /\ {} \in SUBSET (Retained \ Live)
      /\ UNCHANGED <<keys, tickets, issued, writes, feed, accepted>>
  BY <1>1 DEF Only, OperationsOK, Begin
<1>. QED
  BY <1>4, <1>5, DropStep

(* A key whose time is over goes; no other key names its operation. *)
LEMMA ExpireKeyStep ==
  ASSUME IInv, NEW k \in DOMAIN keys, ExpireKey(k)
  PROVE  IInv'
<1>1. /\ HistoryOK /\ OperationsOK /\ KeysOK /\ TicketsOK /\ RequestsOK /\ WritesOK /\ FeedOK
      /\ GateInv /\ KeyInv /\ TicketInv /\ SessionKnowsLive /\ IsFiniteSet(DOMAIN keys)
  BY DEF IInv
<1>2. /\ k \in SpentKeys /\ keys' = Only(keys, DOMAIN keys \ {k}) /\ accepted' = Forget({k})
      /\ UNCHANGED <<operations, tickets, issued, requests, writes, feed>>
  BY DEF ExpireKey
<1>3. /\ DOMAIN keys' = DOMAIN keys \ {k}
      /\ \A j \in DOMAIN keys' : keys'[j] = keys[j]
  BY <1>2 DEF Only
<1>4. /\ accepted' \in Seq(Entry) /\ Len(accepted') = Len(accepted)
      /\ DOMAIN accepted' = DOMAIN accepted
      /\ \A o \in DOMAIN accepted :
           /\ accepted'[o].key = accepted[o].key /\ accepted'[o].print = accepted[o].print
           /\ accepted'[o].ticket = accepted[o].ticket
           /\ accepted'[o].submitted = accepted[o].submitted
           /\ accepted'[o].failed = accepted[o].failed
           /\ accepted'[o].forgotten <=> accepted[o].forgotten \/ keys[k].operation = o
  BY <1>1, <1>2, ForgetFacts
<1>5. /\ Retained' = Retained /\ Live' = Live /\ Retained \subseteq DOMAIN accepted
      /\ Live \subseteq Retained
  BY <1>1, <1>2 DEF Retained, Live, OperationsOK
<1>6. HistoryOK' /\ OperationsOK' /\ TicketsOK' /\ RequestsOK' /\ WritesOK' /\ FeedOK'
  <2>1. HistoryOK'
    BY <1>1, <1>4 DEF HistoryOK
  <2>2. OperationsOK'
    BY <1>1, <1>2, <1>4 DEF OperationsOK, Retained
  <2>3. TicketsOK' /\ RequestsOK' /\ WritesOK'
    BY <1>1, <1>2, <1>4 DEF TicketsOK, RequestsOK, WritesOK
  <2>4. FeedOK'
    BY <1>1, <1>2, <1>4 DEF FeedOK
  <2>. QED
    BY <2>1, <2>2, <2>3, <2>4
<1>7. KeysOK' /\ IsFiniteSet(DOMAIN keys)'
  <2>1. DOMAIN keys' \in SUBSET DOMAIN keys
    BY <1>3
  <2>2. Cardinality(DOMAIN keys') <= Cardinality(DOMAIN keys) /\ IsFiniteSet(DOMAIN keys')
    BY <1>1, <2>1, FS_Subset
  <2>3. Cardinality(DOMAIN keys') \in Nat /\ Cardinality(DOMAIN keys) \in Nat
    BY <1>1, <2>2, FS_CardinalityType
  <2>4. Cardinality(DOMAIN keys') <= KeyCapacity
    BY <1>1, <2>2, <2>3, Bounds DEF KeysOK
  <2>5. keys' \in [DOMAIN keys' -> [operation : DOMAIN accepted', print : Fingerprints]]
    BY <1>1, <1>2, <1>3, <1>4 DEF KeysOK, Only
  <2>. QED
    BY <1>1, <2>1, <2>2, <2>4, <2>5 DEF KeysOK
<1>8. GateInv'
  BY <1>1, <1>2, <1>4, <1>5 DEF GateInv
<1>9. \A o \in Live : keys[k].operation # o
  BY <1>2 DEF SpentKeys
<1>10. KeyInv'
  <2>1. KeysNameTheirOperation'
    <3>1. ASSUME NEW j \in DOMAIN keys'
          PROVE  /\ accepted'[keys'[j].operation].key = j
                 /\ accepted'[keys'[j].operation].print = keys'[j].print
                 /\ ~accepted'[keys'[j].operation].failed
                 /\ ~accepted'[keys'[j].operation].forgotten
      <4>1. j \in DOMAIN keys /\ j # k /\ keys'[j] = keys[j] /\ keys[j].operation \in DOMAIN accepted
            /\ keys[k].operation \in DOMAIN accepted
        BY <1>1, <1>3 DEF KeysOK
      <4>2. accepted[keys[j].operation].key = j /\ accepted[keys[k].operation].key = k
        BY <1>1, <4>1 DEF KeyInv, KeysNameTheirOperation
      <4>3. keys[j].operation # keys[k].operation
        BY <4>1, <4>2
      <4>. QED
        BY <1>1, <1>4, <4>1, <4>3 DEF KeyInv, KeysNameTheirOperation
    <3>. QED
      BY <3>1 DEF KeysNameTheirOperation
  <2>2. ASSUME NEW o \in DOMAIN accepted', ~accepted'[o].failed, ~accepted'[o].forgotten
        PROVE  accepted'[o].key \in DOMAIN keys' /\ keys'[accepted'[o].key].operation = o
    <3>1. o \in DOMAIN accepted /\ ~accepted[o].failed /\ ~accepted[o].forgotten
          /\ keys[k].operation # o /\ accepted'[o].key = accepted[o].key
      BY <1>4, <2>2
    <3>2. accepted[o].key \in DOMAIN keys /\ keys[accepted[o].key].operation = o
      BY <1>1, <3>1 DEF KeyInv
    <3>. QED
      BY <1>3, <3>1, <3>2
  <2>3. \A o, p \in DOMAIN accepted' :
          o < p /\ accepted'[o].key = accepted'[p].key /\ ~accepted'[o].failed
            => accepted'[o].forgotten
    BY <1>1, <1>4 DEF KeyInv
  <2>4. \A o \in Live' : ~accepted'[o].forgotten /\ ~accepted'[o].failed
    BY <1>1, <1>4, <1>5, <1>9 DEF KeyInv
  <2>. QED
    BY <2>1, <2>2, <2>3, <2>4 DEF KeyInv
<1>11. TicketInv'
  <2>1. \A r \in Requests : requests'[r] # Idle => requests'[r].ticket <= issued'
    BY <1>1, <1>2 DEF TicketInv
  <2>2. ASSUME NEW o \in DOMAIN accepted'
        PROVE  /\ accepted'[o].ticket <= issued'
               /\ accepted'[o].submitted => accepted'[o].ticket \notin DOMAIN tickets'
    BY <1>1, <1>2, <1>4 DEF TicketInv
  <2>3. TicketsSingleUse'
    BY <1>1, <1>4 DEF TicketInv, TicketsSingleUse
  <2>. QED
    BY <2>1, <2>2, <2>3 DEF TicketInv
<1>12. SessionKnowsLive'
  BY <1>1, <1>2, <1>5 DEF SessionKnowsLive
<1>. QED
  BY <1>6, <1>7, <1>8, <1>10, <1>11, <1>12 DEF IInv

(* A step that touches the tickets only, not below what was issued.           *)
LEMMA TicketStep ==
  ASSUME IInv, TicketsOK', issued' \in Nat, issued' >= issued,
         \A t \in DOMAIN tickets' : t \in DOMAIN tickets \/ t > issued,
         UNCHANGED <<operations, keys, requests, writes, feed, accepted>>
  PROVE  IInv'
<1>1. /\ HistoryOK /\ OperationsOK /\ KeysOK /\ TicketsOK /\ RequestsOK /\ WritesOK /\ FeedOK
      /\ GateInv /\ KeyInv /\ TicketInv /\ SessionKnowsLive /\ IsFiniteSet(DOMAIN keys)
  BY DEF IInv
<1>2. HistoryOK' /\ OperationsOK' /\ KeysOK' /\ RequestsOK' /\ WritesOK' /\ FeedOK'
      /\ IsFiniteSet(DOMAIN keys)'
  BY <1>1 DEF HistoryOK, OperationsOK, KeysOK, RequestsOK, WritesOK, FeedOK, Retained
<1>3. Retained' = Retained /\ Live' = Live
  BY DEF Retained, Live
<1>4. GateInv' /\ KeyInv' /\ SessionKnowsLive'
  BY <1>1, <1>3 DEF GateInv, KeyInv, KeysNameTheirOperation, SessionKnowsLive
<1>5. TicketInv'
  <2>1. issued \in Nat /\ \A o \in DOMAIN accepted : accepted[o].ticket \in Nat
    BY <1>1, HistoryFacts, Bounds DEF Entry, TicketsOK
  <2>2. \A r \in Requests : requests[r] # Idle => requests[r].ticket \in Nat
    BY <1>1, Bounds DEF RequestsOK, Reads
  <2>3. \A r \in Requests : requests'[r] # Idle => requests'[r].ticket <= issued'
    BY <1>1, <2>1, <2>2 DEF TicketInv
  <2>4. \A o \in DOMAIN accepted' :
          /\ accepted'[o].ticket <= issued'
          /\ accepted'[o].submitted => accepted'[o].ticket \notin DOMAIN tickets'
    BY <1>1, <2>1 DEF TicketInv
  <2>5. TicketsSingleUse'
    BY <1>1 DEF TicketInv, TicketsSingleUse
  <2>. QED
    BY <2>3, <2>4, <2>5 DEF TicketInv
<1>. QED
  BY <1>2, <1>4, <1>5 DEF IInv

(* The store of tickets keeps to its capacity. *)
LEMMA TicketsFinite ==
  ASSUME TicketsOK
  PROVE  /\ issued \in Nat /\ DOMAIN tickets \in SUBSET Nat
         /\ IsFiniteSet(DOMAIN tickets)
         /\ ~(Cardinality(DOMAIN tickets) < TicketCapacity) => Oldest(DOMAIN tickets) # {}
<1>1. issued \in Nat /\ DOMAIN tickets \in SUBSET (1 .. issued)
  BY Bounds DEF TicketsOK
<1>2. IsFiniteSet(1 .. issued)
  BY <1>1, FS_Interval
<1>3. IsFiniteSet(DOMAIN tickets)
  BY <1>1, <1>2, FS_Subset
<1>4. DOMAIN tickets \in SUBSET Nat
  BY <1>1
<1>5. ASSUME ~(Cardinality(DOMAIN tickets) < TicketCapacity)
      PROVE  Oldest(DOMAIN tickets) # {}
  <2>1. DOMAIN tickets # {}
    <3>1. Cardinality({}) = 0
      BY FS_EmptySet
    <3>. QED
      BY <1>5, <3>1, Bounds
  <2>2. \E n \in DOMAIN tickets : \A m \in DOMAIN tickets : n <= m
    BY <1>4, <2>1, Least
  <2>. QED
    BY <2>2 DEF Oldest
<1>. QED
  BY <1>1, <1>3, <1>4, <1>5

(* A new ticket is above all that were issued. *)
LEMMA IssueTicketStep ==
  ASSUME IInv, NEW f \in Applies, IssueTicket(f)
  PROVE  IInv'
<1>1. TicketsOK
  BY DEF IInv
<1>2. issued \in Nat /\ issued < MaxTickets /\ issued' = issued + 1
      /\ UNCHANGED <<operations, keys, requests, writes, feed, accepted>>
  BY <1>1, TicketsFinite DEF IssueTicket
<1> DEFINE lost == IF Cardinality(DOMAIN tickets) < TicketCapacity THEN {}
                   ELSE Oldest(DOMAIN tickets)
<1> DEFINE rest == DOMAIN tickets \ lost
<1>3. tickets' = [t \in rest \cup {issued'} |-> IF t = issued' THEN f ELSE tickets[t]]
  <2>1. rest = IF Cardinality(DOMAIN tickets) < TicketCapacity THEN DOMAIN tickets
               ELSE DOMAIN tickets \ Oldest(DOMAIN tickets)
    OBVIOUS
  <2> HIDE DEF rest
  <2>. QED
    BY <2>1 DEF IssueTicket
<1>4. lost \in SUBSET DOMAIN tickets
      /\ (Cardinality(DOMAIN tickets) < TicketCapacity \/ lost # {})
  BY <1>1, TicketsFinite DEF Oldest
<1> HIDE DEF lost
<1>5. Cardinality(DOMAIN tickets) <= TicketCapacity /\ TicketCapacity \in Nat
      /\ IsFiniteSet(DOMAIN tickets)
  BY <1>1, TicketsFinite, Bounds DEF TicketsOK
<1>6. Cardinality(rest \cup {issued'}) <= TicketCapacity
  BY <1>4, <1>5, Replaced
<1>7. DOMAIN tickets' = rest \cup {issued'} /\ rest \subseteq DOMAIN tickets
  BY <1>3
<1>8. DOMAIN tickets' \subseteq 1 .. issued'
  BY <1>1, <1>2, <1>7, TicketsFinite DEF TicketsOK
<1>9. tickets' \in [DOMAIN tickets' -> Applies]
  BY <1>1, <1>3, <1>7 DEF TicketsOK
<1>10. issued' \in 0 .. MaxTickets
  BY <1>2, Bounds
<1>11. TicketsOK'
  BY <1>6, <1>7, <1>8, <1>9, <1>10 DEF TicketsOK
<1>12. \A t \in DOMAIN tickets' : t \in DOMAIN tickets \/ t > issued
  BY <1>2, <1>7
<1>13. issued' \in Nat /\ issued' >= issued
  BY <1>2
<1>. QED
  BY <1>2, <1>11, <1>12, <1>13, TicketStep

(* A store of tickets from which one is taken.                                *)
LEMMA TakenFacts ==
  ASSUME TicketsOK, NEW t, issued' = issued, tickets' = Taken(t)
  PROVE  TicketsOK' /\ DOMAIN tickets' = DOMAIN tickets \ {t}
<1>1. DOMAIN tickets' = DOMAIN tickets \ {t} /\ DOMAIN tickets' \in SUBSET DOMAIN tickets
  BY DEF Taken, Only
<1>2. tickets' \in [DOMAIN tickets' -> Applies]
  BY <1>1 DEF Taken, Only, TicketsOK
<1>3. Cardinality(DOMAIN tickets') <= Cardinality(DOMAIN tickets) /\ IsFiniteSet(DOMAIN tickets')
      /\ IsFiniteSet(DOMAIN tickets)
  BY <1>1, TicketsFinite, FS_Subset
<1>4. Cardinality(DOMAIN tickets') \in Nat /\ Cardinality(DOMAIN tickets) \in Nat
  BY <1>3, FS_CardinalityType
<1>5. Cardinality(DOMAIN tickets') <= TicketCapacity
  BY <1>3, <1>4, Bounds DEF TicketsOK
<1>. QED
  BY <1>1, <1>2, <1>5 DEF TicketsOK

(* A ticket whose time is over goes. *)
LEMMA ExpireTicketStep ==
  ASSUME IInv, NEW t \in DOMAIN tickets, ExpireTicket(t)
  PROVE  IInv'
<1>1. TicketsOK /\ tickets' = Taken(t)
      /\ UNCHANGED <<operations, keys, issued, requests, writes, feed, accepted>>
  BY DEF IInv, ExpireTicket
<1>2. TicketsOK' /\ DOMAIN tickets' = DOMAIN tickets \ {t}
  BY <1>1, TakenFacts
<1>3. issued' \in Nat /\ issued' >= issued
  BY <1>1, TicketsFinite
<1>. QED
  BY <1>1, <1>2, <1>3, TicketStep

(* A detail read clears the scope of an operation of unknown outcome only. *)
LEMMA RefreshStep ==
  ASSUME IInv, NEW s \in Scopes, Refresh(s)
  PROVE  IInv'
<1>1. /\ HistoryOK /\ OperationsOK /\ KeysOK /\ TicketsOK /\ RequestsOK /\ WritesOK /\ FeedOK
      /\ GateInv /\ KeyInv /\ TicketInv /\ SessionKnowsLive /\ IsFiniteSet(DOMAIN keys)
  BY DEF IInv
<1>2. UNCHANGED <<keys, tickets, issued, requests, writes, feed, accepted>>
  BY DEF Refresh
<1>3. \A o \in Retained : operations[o] \in Record
  BY <1>1 DEF OperationsOK
<1>4. DOMAIN operations' = Retained
  BY DEF Refresh
<1>5. ASSUME NEW o \in Retained
      PROVE  /\ operations'[o] \in Record /\ operations'[o].state = operations[o].state
             /\ \/ operations'[o].scope = operations[o].scope
                \/ operations[o].state = "unknown" /\ operations'[o].scope = NoScope
  <2>1. CASE operations[o] = [state |-> "unknown", scope |-> s]
    <3>1. operations'[o] = [operations[o] EXCEPT !.scope = NoScope]
      BY <2>1 DEF Refresh
    <3>. QED
      BY <1>3, <2>1, <3>1 DEF Record
  <2>2. CASE operations[o] # [state |-> "unknown", scope |-> s]
    <3>1. operations'[o] = operations[o]
      BY <2>2 DEF Refresh
    <3>. QED
      BY <1>3, <3>1
  <2>. QED
    BY <2>1, <2>2
<1>6. Retained' = Retained /\ Live' = Live
  BY <1>4, <1>5 DEF Retained, Live
<1>7. HistoryOK' /\ KeysOK' /\ TicketsOK' /\ RequestsOK' /\ WritesOK' /\ FeedOK'
      /\ IsFiniteSet(DOMAIN keys)'
  BY <1>1, <1>2 DEF HistoryOK, KeysOK, TicketsOK, RequestsOK, WritesOK, FeedOK
<1>8. OperationsOK'
  <2>1. operations' \in [Retained' -> Record']
    <3>1. operations' = [o \in Retained |-> operations'[o]]
      BY DEF Refresh
    <3>. QED
      BY <1>5, <1>6, <3>1 DEF Record
  <2>. QED
    BY <1>1, <1>2, <1>6, <2>1 DEF OperationsOK
<1>9. GateInv'
  <2>1. \A o \in Retained' :
          operations'[o].state \in {"pending", "running"} =>
            operations'[o].scope = ScopeOf[accepted'[o].print]
    BY <1>1, <1>2, <1>5, <1>6 DEF GateInv
  <2>2. ASSUME NEW o \in Live', NEW p \in Live',
               operations'[o].scope = operations'[p].scope, operations'[o].scope # NoScope
        PROVE  o = p
    <3>1. o \in Live /\ p \in Live /\ o \in Retained /\ p \in Retained
      BY <1>6, <2>2 DEF Live
    <3>2. operations[o].scope = operations[p].scope /\ operations[o].scope # NoScope
      BY <1>5, <2>2, <3>1
    <3>. QED
      BY <1>1, <3>1, <3>2 DEF GateInv
  <2>3. \A o \in writes' : o \in Retained' /\ operations'[o].state = "running"
    BY <1>1, <1>2, <1>5, <1>6 DEF GateInv
  <2>. QED
    BY <2>1, <2>2, <2>3 DEF GateInv
<1>10. KeyInv' /\ TicketInv'
  BY <1>1, <1>2, <1>6 DEF KeyInv, KeysNameTheirOperation, TicketInv, TicketsSingleUse
<1>11. SessionKnowsLive'
  <2>1. \A o \in Live : operations'[o].state = operations[o].state
    BY <1>5 DEF Live
  <2>. QED
    BY <1>1, <1>2, <1>6, <2>1 DEF SessionKnowsLive
<1>. QED
  BY <1>7, <1>8, <1>9, <1>10, <1>11 DEF IInv

(* A step of the session. *)
LEMMA FeedStep ==
  ASSUME IInv, FeedOK', SessionKnowsLive',
         UNCHANGED <<operations, keys, tickets, issued, requests, writes, accepted>>
  PROVE  IInv'
<1>1. /\ HistoryOK /\ OperationsOK /\ KeysOK /\ TicketsOK /\ RequestsOK /\ WritesOK
      /\ GateInv /\ KeyInv /\ TicketInv /\ IsFiniteSet(DOMAIN keys)
  BY DEF IInv
<1>2. Retained' = Retained /\ Live' = Live
  BY DEF Retained, Live
<1>3. HistoryOK' /\ OperationsOK' /\ KeysOK' /\ TicketsOK' /\ RequestsOK' /\ WritesOK'
      /\ IsFiniteSet(DOMAIN keys)'
  BY <1>1, <1>2 DEF HistoryOK, OperationsOK, KeysOK, TicketsOK, RequestsOK, WritesOK, Record
<1>4. GateInv'
  BY <1>1, <1>2 DEF GateInv
<1>5. KeyInv' /\ TicketInv'
  BY <1>1, <1>2 DEF KeyInv, KeysNameTheirOperation, TicketInv, TicketsSingleUse
<1>. QED
  BY <1>3, <1>4, <1>5 DEF IInv

(* A new session is told of the live operations, which fit its channel. *)
LEMMA SubscribeStep ==
  ASSUME IInv, Subscribe
  PROVE  IInv'
<1>1. HistoryOK /\ OperationsOK /\ FeedOK
  BY DEF IInv
<1>2. /\ feed' = [open |-> TRUE, backlog |-> Cardinality(Live), lagged |-> FALSE,
                  told |-> [o \in Live |-> operations[o].state]]
      /\ UNCHANGED <<operations, keys, tickets, issued, requests, writes, accepted>>
  BY DEF Subscribe, Cut
<1>3. Cardinality(Live) \in 0 .. ChannelCapacity
  <2>1. Live \in SUBSET Retained /\ IsFiniteSet(Retained)
    BY <1>1, EvictedFacts DEF Live
  <2>2. Cardinality(Live) <= Cardinality(Retained) /\ IsFiniteSet(Live)
    BY <2>1, FS_Subset
  <2>3. Cardinality(Live) \in Nat /\ Cardinality(Retained) \in Nat
    BY <2>1, <2>2, FS_CardinalityType
  <2>4. Cardinality(Retained) <= OperationCapacity
    BY <1>1 DEF OperationsOK
  <2>. QED
    BY <2>2, <2>3, <2>4, Bounds
<1>4. Live \subseteq DOMAIN accepted /\ Live \subseteq Retained
  BY <1>1 DEF Live, OperationsOK
<1>5. [o \in Live |-> operations[o].state] \in [Live -> States]
  BY <1>1, <1>4 DEF OperationsOK, Record
<1>6. feed'.told = [o \in Live |-> operations[o].state] /\ DOMAIN feed'.told = Live
      /\ feed'.open
  BY <1>2
<1>7. FeedOK'
  BY <1>2, <1>3, <1>4, <1>5, <1>6 DEF FeedOK
<1>8. SessionKnowsLive'
  <2>1. Live' = Live
    BY <1>2 DEF Live, Retained
  <2>2. \A o \in Live : feed'.told[o] = operations'[o].state
    BY <1>2, <1>6
  <2>. QED
    BY <1>6, <2>1, <2>2 DEF SessionKnowsLive
<1>. QED
  BY <1>2, <1>7, <1>8, FeedStep

(* Taking an event changes nothing the session was told. *)
LEMMA HearStep ==
  ASSUME IInv, Hear
  PROVE  IInv'
<1>1. FeedOK /\ SessionKnowsLive
  BY DEF IInv
<1>2. /\ feed.backlog > 0 /\ feed' = [feed EXCEPT !.backlog = feed.backlog - 1]
      /\ UNCHANGED <<operations, keys, tickets, issued, requests, writes, accepted>>
  BY DEF Hear
<1>3. feed \in [open : BOOLEAN, backlog : 0 .. ChannelCapacity, lagged : BOOLEAN,
                told : [DOMAIN feed.told -> States]]
  BY <1>1 DEF FeedOK
<1>4. feed.backlog - 1 \in 0 .. ChannelCapacity
  BY <1>2, <1>3, Bounds
<1>5. feed'.told = feed.told /\ feed'.open = feed.open /\ feed'.lagged = feed.lagged
  BY <1>2, <1>3
<1>6. feed' \in [open : BOOLEAN, backlog : 0 .. ChannelCapacity, lagged : BOOLEAN,
                 told : [DOMAIN feed.told -> States]]
  BY <1>2, <1>3, <1>4
<1>7. FeedOK'
  BY <1>1, <1>2, <1>5, <1>6 DEF FeedOK
<1>8. SessionKnowsLive'
  <2>1. Live' = Live
    BY <1>2 DEF Live, Retained
  <2>. QED
    BY <1>1, <1>2, <1>5, <2>1 DEF SessionKnowsLive
<1>. QED
  BY <1>2, <1>7, <1>8, FeedStep

(* A session that ends is owed nothing. *)
LEMMA UnsubscribeStep ==
  ASSUME IInv, Unsubscribe
  PROVE  IInv'
<1>1. feed' = Closed
      /\ UNCHANGED <<operations, keys, tickets, issued, requests, writes, accepted>>
  BY DEF Unsubscribe
<1>2. FeedOK'
  BY <1>1, Bounds DEF FeedOK, Closed
<1>3. SessionKnowsLive'
  BY <1>1 DEF SessionKnowsLive, Closed
<1>. QED
  BY <1>1, <1>2, <1>3, FeedStep

(* A task reports: a failed operation is over and loses its key. *)
LEMMA FinishStep ==
  ASSUME IInv, NEW o \in writes, NEW to \in {"succeeded", "failed", "unknown"}, Finish(o, to)
  PROVE  IInv'
<1>1. /\ HistoryOK /\ OperationsOK /\ KeysOK /\ TicketsOK /\ RequestsOK /\ WritesOK /\ FeedOK
      /\ GateInv /\ KeyInv /\ TicketInv /\ SessionKnowsLive /\ IsFiniteSet(DOMAIN keys)
  BY DEF IInv
<1>2. /\ o \in Retained /\ operations[o].state = "running" /\ o \in DOMAIN accepted
      /\ Retained \subseteq DOMAIN accepted
      /\ \A p \in Retained : operations[p] \in Record
  BY <1>1 DEF GateInv, OperationsOK
<1>3. /\ operations' = [operations EXCEPT ![o].state = to]
      /\ keys' = IF to = "failed"
                 THEN Only(keys, {k \in DOMAIN keys : keys[k].operation # o}) ELSE keys
      /\ feed' = Emitted(o, <<to>>)
  <2>1. Allowed(operations[o].state, to)
    BY <1>2 DEF Allowed
  <2>. QED
    BY <1>2, <2>1 DEF Finish, Transition
<1>4. /\ writes' = writes \ {o} /\ UNCHANGED <<tickets, issued, requests>>
      /\ accepted' = [accepted EXCEPT ![o].failed = (to = "failed")]
  BY DEF Finish
<1>5. /\ DOMAIN operations' = Retained
      /\ operations'[o] = [operations[o] EXCEPT !.state = to]
      /\ \A p \in Retained : p # o => operations'[p] = operations[p]
  BY <1>2, <1>3 DEF Retained
<1>6. /\ to \in States
      /\ operations'[o] \in Record /\ operations'[o].state = to
      /\ operations'[o].scope = operations[o].scope
  BY <1>2, <1>5 DEF Record, States, Terminal
<1>7. /\ Retained' = Retained /\ Live' \subseteq Live /\ Live \subseteq Retained
      /\ \A p \in Live : p # o => p \in Live'
      /\ o \in Live' => to = "unknown"
      /\ o \notin Live' => to \in Terminal
  BY <1>2, <1>5, <1>6 DEF Live, Retained, Terminal
<1> DEFINE broken == to = "failed"
<1>8. broken \in BOOLEAN
  OBVIOUS
<1>9. accepted' = [accepted EXCEPT ![o].failed = broken]
  BY <1>4
<1> HIDE DEF broken
<1>10. /\ DOMAIN accepted' = DOMAIN accepted /\ Len(accepted') = Len(accepted)
       /\ \A p \in DOMAIN accepted : accepted[p] \in Entry
       /\ accepted'[o] = [accepted[o] EXCEPT !.failed = broken]
       /\ \A p \in DOMAIN accepted : p # o => accepted'[p] = accepted[p]
  BY <1>1, <1>2, <1>9 DEF HistoryOK
<1>11. /\ accepted'[o] \in Entry /\ accepted'[o].failed = broken
       /\ accepted'[o].key = accepted[o].key /\ accepted'[o].print = accepted[o].print
       /\ accepted'[o].ticket = accepted[o].ticket
       /\ accepted'[o].submitted = accepted[o].submitted
       /\ accepted'[o].forgotten = accepted[o].forgotten
  BY <1>2, <1>8, <1>10 DEF Entry
<1>12. \A p \in DOMAIN accepted :
         /\ accepted'[p] \in Entry
         /\ accepted'[p].key = accepted[p].key /\ accepted'[p].print = accepted[p].print
         /\ accepted'[p].ticket = accepted[p].ticket
         /\ accepted'[p].submitted = accepted[p].submitted
         /\ accepted'[p].forgotten = accepted[p].forgotten
  BY <1>10, <1>11
<1>13. HistoryOK'
  <2>1. accepted' = [accepted EXCEPT ![o] = accepted'[o]]
    BY <1>2, <1>9, <1>10
  <2>2. accepted' \in Seq(Entry)
    BY <1>1, <1>2, <1>11, <2>1 DEF HistoryOK
  <2>. QED
    BY <1>1, <1>10, <2>2 DEF HistoryOK
<1>14. OperationsOK'
  <2>1. \A p \in Retained : operations'[p] \in Record
    BY <1>2, <1>5, <1>6
  <2>2. operations' \in [Retained' -> Record']
    <3>1. operations' = [p \in Retained |-> operations'[p]]
      BY <1>3, <1>5
    <3>. QED
      BY <1>7, <2>1, <3>1 DEF Record
  <2>. QED
    BY <1>1, <1>7, <1>10, <2>2 DEF OperationsOK
<1>15. accepted[o].failed = FALSE \/ accepted[o].failed = TRUE
  BY <1>2, <1>10 DEF Entry
<1>16. /\ DOMAIN keys' \in SUBSET DOMAIN keys
       /\ \A k \in DOMAIN keys' : keys'[k] = keys[k] /\ (broken => keys[k].operation # o)
       /\ \A k \in DOMAIN keys : ~broken \/ keys[k].operation # o => k \in DOMAIN keys'
       /\ keys' = [k \in DOMAIN keys' |-> keys'[k]]
  <2>1. CASE to = "failed"
    <3>1. keys' = Only(keys, {k \in DOMAIN keys : keys[k].operation # o})
      BY <1>3, <2>1
    <3>. QED
      BY <2>1, <3>1 DEF Only, broken
  <2>2. CASE to # "failed"
    <3>1. keys' = keys
      BY <1>3, <2>2
    <3>2. keys = [k \in DOMAIN keys |-> keys[k]]
      BY <1>1 DEF KeysOK
    <3>. QED
      BY <2>2, <3>1, <3>2 DEF broken
  <2>. QED
    BY <2>1, <2>2
<1>17. KeysOK' /\ IsFiniteSet(DOMAIN keys)'
  <2>1. Cardinality(DOMAIN keys') <= Cardinality(DOMAIN keys) /\ IsFiniteSet(DOMAIN keys')
    BY <1>1, <1>16, FS_Subset
  <2>2. Cardinality(DOMAIN keys') \in Nat /\ Cardinality(DOMAIN keys) \in Nat
    BY <1>1, <2>1, FS_CardinalityType
  <2>3. Cardinality(DOMAIN keys') <= KeyCapacity
    BY <1>1, <2>1, <2>2, Bounds DEF KeysOK
  <2>4. keys' \in [DOMAIN keys' -> [operation : DOMAIN accepted', print : Fingerprints]]
    BY <1>1, <1>10, <1>16 DEF KeysOK
  <2>. QED
    BY <1>1, <1>16, <2>1, <2>3, <2>4 DEF KeysOK
<1>18. TicketsOK' /\ RequestsOK' /\ WritesOK'
  BY <1>1, <1>4, <1>10 DEF TicketsOK, RequestsOK, WritesOK
<1>19. Heard(feed', o, to)
  <2>1. <<to>> \in Seq(States) /\ <<to>> # <<>> /\ <<to>>[Len(<<to>>)] = to
    BY <1>6
  <2>. QED
    BY <1>1, <1>3, <2>1, EmittedFacts
<1>20. FeedOK'
  <2>1. DOMAIN feed'.told \subseteq DOMAIN accepted'
    BY <1>1, <1>2, <1>10, <1>19 DEF FeedOK, Heard
  <2>. QED
    BY <1>19, <2>1 DEF FeedOK, Heard
<1>21. GateInv'
  <2>1. ASSUME NEW p \in Retained', operations'[p].state \in {"pending", "running"}
        PROVE  operations'[p].scope = ScopeOf[accepted'[p].print]
    <3>1. p \in Retained /\ p # o /\ p \in DOMAIN accepted
      BY <1>2, <1>6, <1>7, <2>1
    <3>. QED
      BY <1>1, <1>5, <1>12, <2>1, <3>1 DEF GateInv
  <2>2. ASSUME NEW p \in Live', NEW q \in Live',
               operations'[p].scope = operations'[q].scope, operations'[p].scope # NoScope
        PROVE  p = q
    <3>1. p \in Live /\ q \in Live /\ p \in Retained /\ q \in Retained
      BY <1>7, <2>2
    <3>2. operations[p].scope = operations[q].scope /\ operations[p].scope # NoScope
      BY <1>5, <1>6, <2>2, <3>1
    <3>. QED
      BY <1>1, <3>1, <3>2 DEF GateInv
  <2>3. \A p \in writes' : p \in Retained' /\ operations'[p].state = "running"
    BY <1>1, <1>4, <1>5, <1>7 DEF GateInv
  <2>. QED
    BY <2>1, <2>2, <2>3 DEF GateInv
<1>22. KeyInv'
  <2>1. ASSUME NEW k \in DOMAIN keys'
        PROVE  /\ accepted'[keys'[k].operation].key = k
               /\ accepted'[keys'[k].operation].print = keys'[k].print
               /\ ~accepted'[keys'[k].operation].failed
               /\ ~accepted'[keys'[k].operation].forgotten
    <3>1. /\ k \in DOMAIN keys /\ keys'[k] = keys[k] /\ keys[k].operation \in DOMAIN accepted
          /\ broken => keys[k].operation # o
      BY <1>1, <1>16 DEF KeysOK
    <3>2. /\ accepted[keys[k].operation].key = k /\ accepted[keys[k].operation].print = keys[k].print
          /\ ~accepted[keys[k].operation].failed /\ ~accepted[keys[k].operation].forgotten
      BY <1>1, <3>1 DEF KeyInv, KeysNameTheirOperation
    <3>3. ~accepted'[keys[k].operation].failed
      BY <1>10, <1>11, <3>1, <3>2
    <3>. QED
      BY <1>12, <3>1, <3>2, <3>3
  <2>2. KeysNameTheirOperation'
    BY <2>1 DEF KeysNameTheirOperation
  <2>3. \A p \in DOMAIN accepted : ~accepted'[p].failed => ~accepted[p].failed
    <3>1. o \in Live
      BY <1>2 DEF Live, Terminal
    <3>. QED
      BY <1>1, <1>10, <3>1 DEF KeyInv
  <2>4. ASSUME NEW p \in DOMAIN accepted', ~accepted'[p].failed, ~accepted'[p].forgotten
        PROVE  accepted'[p].key \in DOMAIN keys' /\ keys'[accepted'[p].key].operation = p
    <3>1. p \in DOMAIN accepted /\ ~accepted[p].failed /\ ~accepted[p].forgotten
          /\ accepted'[p].key = accepted[p].key
      BY <1>10, <1>12, <2>3, <2>4
    <3>2. accepted[p].key \in DOMAIN keys /\ keys[accepted[p].key].operation = p
      BY <1>1, <3>1 DEF KeyInv
    <3>3. ~broken \/ p # o
      BY <1>8, <1>11, <2>4
    <3>. QED
      BY <1>16, <3>1, <3>2, <3>3
  <2>5. \A p, q \in DOMAIN accepted' :
          p < q /\ accepted'[p].key = accepted'[q].key /\ ~accepted'[p].failed
            => accepted'[p].forgotten
    BY <1>1, <1>10, <1>12, <2>3 DEF KeyInv
  <2>6. ASSUME NEW p \in Live'
        PROVE  ~accepted'[p].forgotten /\ ~accepted'[p].failed
    <3>1. p \in Live /\ p \in DOMAIN accepted /\ ~accepted[p].forgotten /\ ~accepted[p].failed
      BY <1>1, <1>2, <1>7 DEF KeyInv
    <3>2. p = o => ~broken
      BY <1>7 DEF broken
    <3>. QED
      BY <1>10, <1>11, <1>12, <3>1, <3>2
  <2>. QED
    BY <2>2, <2>4, <2>5, <2>6 DEF KeyInv
<1>23. TicketInv'
  <2>1. \A r \in Requests : requests'[r] # Idle => requests'[r].ticket <= issued'
    BY <1>1, <1>4 DEF TicketInv
  <2>2. ASSUME NEW p \in DOMAIN accepted'
        PROVE  /\ accepted'[p].ticket <= issued'
               /\ accepted'[p].submitted => accepted'[p].ticket \notin DOMAIN tickets'
    BY <1>1, <1>4, <1>10, <1>12 DEF TicketInv
  <2>3. TicketsSingleUse'
    BY <1>1, <1>10, <1>12 DEF TicketInv, TicketsSingleUse
  <2>. QED
    BY <2>1, <2>2, <2>3 DEF TicketInv
<1>24. SessionKnowsLive'
  <2>1. SUFFICES ASSUME feed'.open, ~feed'.lagged
                 PROVE  /\ Live' \subseteq DOMAIN feed'.told
                        /\ \A p \in DOMAIN feed'.told :
                             /\ p \in Live' => feed'.told[p] = operations'[p].state
                             /\ p \notin Live' => feed'.told[p] \in Terminal
    BY DEF SessionKnowsLive
  <2>2. feed.open /\ ~feed.lagged
    BY <1>19, <2>1 DEF Heard
  <2>3. /\ Live \subseteq DOMAIN feed.told
        /\ \A p \in DOMAIN feed.told :
             /\ p \in Live => feed.told[p] = operations[p].state
             /\ p \notin Live => feed.told[p] \in Terminal
    BY <1>1, <2>2 DEF SessionKnowsLive
  <2>4. ASSUME NEW p \in DOMAIN feed'.told, p # o
        PROVE  /\ p \in Live' => feed'.told[p] = operations'[p].state
               /\ p \notin Live' => feed'.told[p] \in Terminal
    <3>1. p \in DOMAIN feed.told /\ feed'.told[p] = feed.told[p]
      BY <1>19, <2>2, <2>4 DEF Heard
    <3>2. p \in Live' <=> p \in Live
      BY <1>7, <2>4
    <3>3. p \in Live => operations'[p] = operations[p]
      BY <1>5, <1>7, <2>4
    <3>. QED
      BY <2>3, <3>1, <3>2, <3>3
  <2>5. /\ o \in Live' => feed'.told[o] = operations'[o].state
        /\ o \notin Live' => feed'.told[o] \in Terminal
    BY <1>6, <1>7, <1>19, <2>2 DEF Heard
  <2>6. Live' \subseteq DOMAIN feed'.told
    BY <1>7, <1>19, <2>2, <2>3 DEF Heard
  <2>. QED
    BY <2>4, <2>5, <2>6
<1>. QED
  BY <1>13, <1>14, <1>17, <1>18, <1>20, <1>21, <1>22, <1>23, <1>24 DEF IInv

(* One request's record while it reads. *)
LEMMA ReadingFacts ==
  ASSUME RequestsOK, NEW r \in Requests, requests[r] # Idle
  PROVE  /\ requests[r].key \in Keys /\ requests[r].print \in Fingerprints
         /\ requests[r].ticket \in 0 .. MaxTickets
         /\ ScopeOf[requests[r].print] \in Scopes /\ ScopeOf[requests[r].print] # NoScope
<1>1. requests[r] \in Reads
  BY DEF RequestsOK
<1>2. requests[r].print \in Fingerprints
  BY <1>1 DEF Reads
<1>. QED
  BY <1>1, <1>2, OperationsAssumption DEF Reads

(* A command is accepted: nobody live has its scope, no key its key, and what *)
(* makes room for it is over.                                                *)
LEMMA AcceptStep ==
  ASSUME IInv, NEW r \in Requests, Accept(r)
  PROVE  IInv'
<1> DEFINE q == requests[r]
<1> DEFINE o == Len(accepted) + 1
<1> DEFINE submits == q.ticket = NoTicket \/ q.ticket \in DOMAIN tickets
<1> DEFINE state == IF submits THEN "running" ELSE "pending"
<1> DEFINE scope == ScopeOf[q.print]
<1> DEFINE record == [state |-> state, scope |-> scope]
<1> DEFINE entry == [key |-> q.key, print |-> q.print, ticket |-> q.ticket,
                     submitted |-> submits, failed |-> FALSE, forgotten |-> FALSE]
<1> DEFINE news == IF submits THEN <<"pending", "running">> ELSE <<"pending">>
<1> DEFINE old == Forget(ForgottenKeys)
<1>1. /\ HistoryOK /\ OperationsOK /\ KeysOK /\ TicketsOK /\ RequestsOK /\ WritesOK /\ FeedOK
      /\ GateInv /\ KeyInv /\ TicketInv /\ SessionKnowsLive /\ IsFiniteSet(DOMAIN keys)
  BY DEF IInv
<1>2. /\ q # Idle /\ q.key \notin DOMAIN keys /\ ~Gated(scope) /\ HasRoom /\ HasKeyRoom
      /\ o <= MaxOperations
      /\ operations' = [p \in (Retained \ Evicted) \cup {o} |->
           IF p = o THEN record ELSE operations[p]]
      /\ keys' = [k \in (DOMAIN keys \ ForgottenKeys) \cup {q.key} |->
           IF k = q.key THEN [operation |-> o, print |-> q.print] ELSE keys[k]]
      /\ accepted' = Append(old, entry)
      /\ tickets' = Taken(q.ticket)
      /\ writes' = IF submits THEN writes \cup {o} ELSE writes
      /\ feed' = Emitted(o, news)
      /\ Become(r, Idle)
      /\ issued' = issued
  BY DEF Accept, Admitted
<1>3. /\ q.key \in Keys /\ q.print \in Fingerprints /\ q.ticket \in 0 .. MaxTickets
      /\ scope \in Scopes /\ scope # NoScope
  BY <1>1, <1>2, ReadingFacts
<1>4. submits \in BOOLEAN
  OBVIOUS
<1>5. /\ state \in {"pending", "running"} /\ state \in States /\ state \notin Terminal
      /\ submits => state = "running"
      /\ news \in Seq(States) /\ news # <<>> /\ news[Len(news)] = state
  <2>0. "pending" \in States /\ "running" \in States
    BY DEF States
  <2>1. CASE submits
    <3>1. state = "running" /\ news = <<"pending", "running">>
      BY <2>1
    <3>. HIDE DEF state, news
    <3>2. news \in Seq(States) /\ Len(news) = 2 /\ news[2] = "running"
      BY <2>0, <3>1
    <3>. QED
      BY <2>0, <3>1, <3>2 DEF Terminal
  <2>2. CASE ~submits
    <3>1. state = "pending" /\ news = <<"pending">>
      BY <2>2
    <3>. HIDE DEF state, news
    <3>2. news \in Seq(States) /\ Len(news) = 1 /\ news[1] = "pending"
      BY <2>0, <3>1
    <3>. QED
      BY <2>0, <2>2, <3>1, <3>2 DEF Terminal
  <2>. QED
    BY <2>1, <2>2
<1>6. submits => q.ticket = NoTicket \/ q.ticket \in DOMAIN tickets
  OBVIOUS
<1>7. /\ Len(accepted) \in Nat /\ DOMAIN accepted = 1 .. Len(accepted)
      /\ o \in Nat /\ o \notin DOMAIN accepted /\ \A p \in DOMAIN accepted : p < o
  BY <1>1, HistoryFacts
<1>8. /\ old \in Seq(Entry) /\ Len(old) = Len(accepted) /\ DOMAIN old = DOMAIN accepted
      /\ \A p \in DOMAIN accepted :
           /\ old[p].key = accepted[p].key /\ old[p].print = accepted[p].print
           /\ old[p].ticket = accepted[p].ticket /\ old[p].submitted = accepted[p].submitted
           /\ old[p].failed = accepted[p].failed
           /\ old[p].forgotten <=>
                accepted[p].forgotten \/ \E k \in ForgottenKeys : keys[k].operation = p
  BY <1>1, ForgetFacts
<1>9. /\ ForgottenKeys \subseteq SpentKeys /\ SpentKeys \subseteq DOMAIN keys
      /\ Cardinality(DOMAIN keys) < KeyCapacity \/ ForgottenKeys # {}
      /\ IsFiniteSet(Retained) /\ Evicted \subseteq Retained \ Live
      /\ Cardinality(Retained) < OperationCapacity \/ Evicted # {}
  BY <1>1, <1>2, ForgottenFacts, EvictedFacts
<1>10. /\ record.state = state /\ record.scope = scope /\ record \in Record
  <2> HIDE DEF state, scope
  <2>. QED
    BY <1>3, <1>5 DEF Record
<1>11. /\ entry \in Entry /\ entry.key = q.key /\ entry.print = q.print
       /\ entry.ticket = q.ticket /\ entry.submitted = submits
       /\ ~entry.failed /\ ~entry.forgotten
  <2> HIDE DEF submits, q
  <2>. QED
    BY <1>3, <1>4 DEF Entry
<1> HIDE DEF submits, state, record, entry, news, old, scope, o, q
<1>12. /\ Len(accepted') = o /\ DOMAIN accepted' = DOMAIN accepted \cup {o}
       /\ accepted' \in Seq(Entry) /\ accepted'[o] = entry
       /\ \A p \in DOMAIN accepted : accepted'[p] = old[p]
  <2>1. accepted' \in Seq(Entry) /\ Len(accepted') = Len(old) + 1
        /\ accepted'[Len(old) + 1] = entry /\ \A p \in 1 .. Len(old) : accepted'[p] = old[p]
    BY <1>2, <1>8, <1>11
  <2>2. Len(old) + 1 = o
    BY <1>8 DEF o
  <2>3. DOMAIN accepted' = 1 .. o
    BY <2>1, <2>2
  <2>4. 1 .. o = (1 .. Len(accepted)) \cup {o}
    BY <1>7 DEF o
  <2>. QED
    BY <1>7, <1>8, <2>1, <2>2, <2>3, <2>4
<1>13. /\ Retained' = (Retained \ Evicted) \cup {o} /\ Retained \subseteq DOMAIN accepted
       /\ o \notin Retained
       /\ operations'[o] = record
       /\ \A p \in Retained \ Evicted : operations'[p] = operations[p]
  BY <1>1, <1>2, <1>7 DEF OperationsOK, Retained
<1>14. /\ Live' = Live \cup {o} /\ o \notin Live /\ Live \subseteq Retained \ Evicted
  <2>1. Live \subseteq Retained \ Evicted
    BY <1>9 DEF Live
  <2>2. o \in Live'
    BY <1>5, <1>10, <1>13 DEF Live
  <2>3. \A p \in Retained \ Evicted : p \in Live' <=> p \in Live
    BY <1>13 DEF Live
  <2>4. Live' \subseteq Retained' /\ Live \subseteq Retained
    BY DEF Live
  <2>. QED
    BY <1>13, <2>1, <2>2, <2>3, <2>4
<1>15. HistoryOK'
  BY <1>2, <1>12 DEF HistoryOK
<1>16. OperationsOK'
  <2>1. Cardinality(Retained') <= OperationCapacity
    <3>1. Evicted \in SUBSET Retained
      BY <1>9
    <3>2. Cardinality(Retained) <= OperationCapacity /\ OperationCapacity \in Nat
      BY <1>1, Bounds DEF OperationsOK
    <3>. QED
      BY <1>9, <1>13, <3>1, <3>2, Replaced
  <2>2. \A p \in Retained' : operations'[p] \in Record
    BY <1>1, <1>10, <1>13 DEF OperationsOK
  <2>3. operations' \in [Retained' -> Record']
    <3>1. operations' = [p \in Retained' |-> operations'[p]]
      BY <1>2, <1>13
    <3>. QED
      BY <2>2, <3>1 DEF Record
  <2>. QED
    BY <1>12, <1>13, <2>1, <2>3 DEF OperationsOK
<1>17. /\ DOMAIN keys' = (DOMAIN keys \ ForgottenKeys) \cup {q.key}
       /\ keys'[q.key] = [operation |-> o, print |-> q.print]
       /\ \A k \in DOMAIN keys \ ForgottenKeys : k # q.key /\ keys'[k] = keys[k]
       /\ keys' = [k \in DOMAIN keys' |-> keys'[k]]
  BY <1>2
<1>18. KeysOK' /\ IsFiniteSet(DOMAIN keys)'
  <2>1. Cardinality(DOMAIN keys') <= KeyCapacity /\ IsFiniteSet(DOMAIN keys')
    <3>1. ForgottenKeys \in SUBSET DOMAIN keys
      BY <1>9
    <3>2. Cardinality(DOMAIN keys) <= KeyCapacity /\ KeyCapacity \in Nat
      BY <1>1, Bounds DEF KeysOK
    <3> DEFINE D == (DOMAIN keys \ ForgottenKeys) \cup {q.key}
    <3>3. Cardinality(D) <= KeyCapacity /\ IsFiniteSet(D)
      BY <1>1, <1>9, <3>1, <3>2, Replaced
    <3>. HIDE DEF D
    <3>4. DOMAIN keys' = D
      BY <1>17 DEF D
    <3>. QED
      BY <3>3, <3>4
  <2>2. DOMAIN keys' \subseteq Keys
    BY <1>1, <1>3, <1>17 DEF KeysOK
  <2>3. \A k \in DOMAIN keys' : keys'[k] \in [operation : DOMAIN accepted', print : Fingerprints]
    BY <1>1, <1>3, <1>12, <1>17 DEF KeysOK
  <2>4. keys' \in [DOMAIN keys' -> [operation : DOMAIN accepted', print : Fingerprints]]
    BY <1>17, <2>3
  <2>. QED
    BY <2>1, <2>2, <2>4 DEF KeysOK
<1>19. TicketsOK' /\ DOMAIN tickets' = DOMAIN tickets \ {q.ticket}
  BY <1>1, <1>2, TakenFacts
<1>20. RequestsOK' /\ \A w \in Requests : requests'[w] # Idle => requests'[w].ticket <= issued
  BY <1>2, IdleFacts
<1>21. WritesOK'
  BY <1>1, <1>2, <1>12 DEF WritesOK
<1>22. Heard(feed', o, state)
  BY <1>1, <1>2, <1>5, EmittedFacts
<1>23. FeedOK'
  <2>1. DOMAIN feed'.told \subseteq DOMAIN accepted'
    BY <1>1, <1>12, <1>22 DEF FeedOK, Heard
  <2>. QED
    BY <1>22, <2>1 DEF FeedOK, Heard
<1>24. \A p \in DOMAIN accepted :
         /\ accepted'[p].key = accepted[p].key /\ accepted'[p].print = accepted[p].print
         /\ accepted'[p].ticket = accepted[p].ticket
         /\ accepted'[p].submitted = accepted[p].submitted
         /\ accepted'[p].failed = accepted[p].failed
         /\ accepted'[p].forgotten <=>
              accepted[p].forgotten \/ \E k \in ForgottenKeys : keys[k].operation = p
  BY <1>8, <1>12
<1>25. GateInv'
  <2>1. ASSUME NEW p \in Retained', operations'[p].state \in {"pending", "running"}
        PROVE  operations'[p].scope = ScopeOf[accepted'[p].print]
    <3>1. CASE p = o
      BY <1>10, <1>11, <1>12, <1>13, <3>1 DEF scope
    <3>2. CASE p # o
      <4>1. p \in Retained \ Evicted /\ p \in DOMAIN accepted
        BY <1>13, <2>1, <3>2
      <4>. QED
        BY <1>1, <1>13, <1>24, <2>1, <4>1 DEF GateInv
    <3>. QED
      BY <3>1, <3>2
  <2>2. \A p \in Live : operations'[p] = operations[p] /\ operations'[p].scope # scope
    <3>1. \A p \in Live : operations[p].scope # scope
      BY <1>2 DEF Gated
    <3>. QED
      BY <1>13, <1>14, <3>1
  <2>3. ASSUME NEW p \in Live', NEW w \in Live',
               operations'[p].scope = operations'[w].scope, operations'[p].scope # NoScope
        PROVE  p = w
    <3>1. CASE p = o
      BY <1>10, <1>13, <1>14, <2>2, <2>3, <3>1
    <3>2. CASE w = o
      BY <1>10, <1>13, <1>14, <2>2, <2>3, <3>2
    <3>3. CASE p # o /\ w # o
      <4>1. p \in Live /\ w \in Live
        BY <1>14, <2>3, <3>3
      <4>. QED
        BY <1>1, <2>2, <2>3, <4>1 DEF GateInv
    <3>. QED
      BY <3>1, <3>2, <3>3
  <2>4. ASSUME NEW p \in writes'
        PROVE  p \in Retained' /\ operations'[p].state = "running"
    <3>1. CASE p \in writes
      <4>1. p \in Live /\ operations[p].state = "running"
        BY <1>1, <3>1 DEF GateInv, Live, Terminal
      <4>. QED
        BY <1>13, <1>14, <2>2, <4>1
    <3>2. CASE p \notin writes
      <4>1. p = o /\ submits
        BY <1>2, <2>4, <3>2
      <4>. QED
        BY <1>5, <1>10, <1>13, <4>1
    <3>. QED
      BY <3>1, <3>2
  <2>. QED
    BY <2>1, <2>3, <2>4 DEF GateInv
<1>26. KeyInv'
  <2>1. ASSUME NEW k \in DOMAIN keys'
        PROVE  /\ accepted'[keys'[k].operation].key = k
               /\ accepted'[keys'[k].operation].print = keys'[k].print
               /\ ~accepted'[keys'[k].operation].failed
               /\ ~accepted'[keys'[k].operation].forgotten
    <3>1. CASE k = q.key
      BY <1>11, <1>12, <1>17, <3>1
    <3>2. CASE k # q.key
      <4>1. k \in DOMAIN keys \ ForgottenKeys /\ keys'[k] = keys[k]
            /\ keys[k].operation \in DOMAIN accepted
        BY <1>1, <1>17, <3>2 DEF KeysOK
      <4>2. \A j \in DOMAIN keys : accepted[keys[j].operation].key = j
        BY <1>1 DEF KeyInv, KeysNameTheirOperation
      <4>3. \A j \in ForgottenKeys : keys[j].operation # keys[k].operation
        BY <1>9, <4>1, <4>2
      <4>. QED
        BY <1>1, <1>24, <4>1, <4>3 DEF KeyInv, KeysNameTheirOperation
    <3>. QED
      BY <3>1, <3>2
  <2>2. KeysNameTheirOperation'
    BY <2>1 DEF KeysNameTheirOperation
  <2>3. ASSUME NEW p \in DOMAIN accepted', ~accepted'[p].failed, ~accepted'[p].forgotten
        PROVE  accepted'[p].key \in DOMAIN keys' /\ keys'[accepted'[p].key].operation = p
    <3>1. CASE p = o
      BY <1>11, <1>12, <1>17, <3>1
    <3>2. CASE p # o
      <4>1. p \in DOMAIN accepted
        BY <1>12, <3>2
      <4>2. ~accepted[p].failed /\ ~accepted[p].forgotten /\ accepted'[p].key = accepted[p].key
            /\ \A k \in ForgottenKeys : keys[k].operation # p
        BY <1>24, <2>3, <4>1
      <4>3. accepted[p].key \in DOMAIN keys /\ keys[accepted[p].key].operation = p
        BY <1>1, <4>1, <4>2 DEF KeyInv
      <4>. QED
        BY <1>17, <4>2, <4>3
    <3>. QED
      BY <3>1, <3>2
  <2>4. ASSUME NEW p \in DOMAIN accepted', NEW w \in DOMAIN accepted',
               p < w, accepted'[p].key = accepted'[w].key, ~accepted'[p].failed
        PROVE  accepted'[p].forgotten
    <3>1. p \in DOMAIN accepted
      BY <1>7, <1>12, <2>4
    <3>2. CASE w \in DOMAIN accepted
      BY <1>1, <1>24, <2>4, <3>1, <3>2 DEF KeyInv
    <3>3. CASE w = o
      <4>1. accepted[p].key = q.key /\ ~accepted[p].failed
        BY <1>11, <1>12, <1>24, <2>4, <3>1, <3>3
      <4>2. accepted[p].forgotten
        BY <1>1, <1>2, <3>1, <4>1 DEF KeyInv
      <4>. QED
        BY <1>24, <3>1, <4>2
    <3>. QED
      BY <1>12, <3>2, <3>3
  <2>5. ASSUME NEW p \in Live'
        PROVE  ~accepted'[p].forgotten /\ ~accepted'[p].failed
    <3>1. CASE p = o
      BY <1>11, <1>12, <3>1
    <3>2. CASE p # o
      <4>1. p \in Live /\ p \in DOMAIN accepted
        BY <1>13, <1>14, <2>5, <3>2
      <4>2. \A k \in ForgottenKeys : keys[k].operation # p
        BY <1>9, <4>1 DEF SpentKeys
      <4>. QED
        BY <1>1, <1>24, <4>1, <4>2 DEF KeyInv
    <3>. QED
      BY <3>1, <3>2
  <2>. QED
    BY <2>2, <2>3, <2>4, <2>5 DEF KeyInv
<1>27. TicketInv'
  <2>1. q.ticket <= issued /\ issued \in Nat
    BY <1>1, <1>2, TicketsFinite DEF TicketInv, q
  <2>2. \A w \in Requests : requests'[w] # Idle => requests'[w].ticket <= issued'
    BY <1>2, <1>20
  <2>3. ASSUME NEW p \in DOMAIN accepted'
        PROVE  /\ accepted'[p].ticket <= issued'
               /\ accepted'[p].submitted => accepted'[p].ticket \notin DOMAIN tickets'
    <3>1. CASE p = o
      BY <1>2, <1>11, <1>12, <1>19, <2>1, <3>1
    <3>2. CASE p # o
      <4>1. p \in DOMAIN accepted
        BY <1>12, <3>2
      <4>. QED
        BY <1>1, <1>2, <1>19, <1>24, <4>1 DEF TicketInv
    <3>. QED
      BY <3>1, <3>2
  <2>4. \A p \in DOMAIN accepted :
          accepted[p].submitted /\ submits /\ q.ticket # NoTicket => accepted[p].ticket # q.ticket
    BY <1>1, <1>6 DEF TicketInv
  <2>5. ASSUME NEW p \in DOMAIN accepted', NEW w \in DOMAIN accepted',
               accepted'[p].submitted, accepted'[w].submitted,
               accepted'[p].ticket # NoTicket, accepted'[p].ticket = accepted'[w].ticket
        PROVE  p = w
    <3>1. CASE p \in DOMAIN accepted /\ w \in DOMAIN accepted
      BY <1>1, <1>24, <2>5, <3>1 DEF TicketInv, TicketsSingleUse
    <3>2. CASE p \in DOMAIN accepted /\ w = o
      BY <1>11, <1>12, <1>24, <2>4, <2>5, <3>2
    <3>3. CASE p = o /\ w \in DOMAIN accepted
      BY <1>11, <1>12, <1>24, <2>4, <2>5, <3>3
    <3>. QED
      BY <1>12, <3>1, <3>2, <3>3
  <2>6. TicketsSingleUse'
    BY <2>5 DEF TicketsSingleUse
  <2>. QED
    BY <2>2, <2>3, <2>6 DEF TicketInv
<1>28. SessionKnowsLive'
  <2>1. SUFFICES ASSUME feed'.open, ~feed'.lagged
                 PROVE  /\ Live' \subseteq DOMAIN feed'.told
                        /\ \A p \in DOMAIN feed'.told :
                             /\ p \in Live' => feed'.told[p] = operations'[p].state
                             /\ p \notin Live' => feed'.told[p] \in Terminal
    BY DEF SessionKnowsLive
  <2>2. feed.open /\ ~feed.lagged
    BY <1>22, <2>1 DEF Heard
  <2>3. /\ Live \subseteq DOMAIN feed.told
        /\ \A p \in DOMAIN feed.told :
             /\ p \in Live => feed.told[p] = operations[p].state
             /\ p \notin Live => feed.told[p] \in Terminal
    BY <1>1, <2>2 DEF SessionKnowsLive
  <2>4. ASSUME NEW p \in DOMAIN feed'.told, p # o
        PROVE  /\ p \in Live' => feed'.told[p] = operations'[p].state
               /\ p \notin Live' => feed'.told[p] \in Terminal
    <3>1. p \in DOMAIN feed.told /\ feed'.told[p] = feed.told[p]
      BY <1>22, <2>2, <2>4 DEF Heard
    <3>2. p \in Live' <=> p \in Live
      BY <1>14, <2>4
    <3>3. p \in Live => operations'[p] = operations[p]
      BY <1>13, <1>14
    <3>. QED
      BY <2>3, <3>1, <3>2, <3>3
  <2>5. o \in Live' /\ feed'.told[o] = operations'[o].state
    BY <1>10, <1>13, <1>14, <1>22, <2>2 DEF Heard
  <2>6. Live' \subseteq DOMAIN feed'.told
    BY <1>14, <1>22, <2>2, <2>3 DEF Heard
  <2>. QED
    BY <2>4, <2>5, <2>6
<1>. QED
  BY <1>15, <1>16, <1>18, <1>19, <1>20, <1>21, <1>23, <1>25, <1>26, <1>27, <1>28 DEF IInv

---------------------------------------------------------------------------
(* The engine starts empty. *)
LEMMA InvInit ==
  ASSUME Init
  PROVE  IInv
<1>1. /\ operations = <<>> /\ keys = [k \in {} |-> <<>>] /\ tickets = [t \in {} |-> <<>>]
      /\ issued = 0 /\ requests = [r \in Requests |-> Idle] /\ writes = {}
      /\ feed = Closed /\ accepted = <<>>
  BY DEF Init
<1>2. Cardinality({}) = 0 /\ IsFiniteSet({})
  BY FS_EmptySet
<1>3. Retained = {} /\ Live = {} /\ DOMAIN keys = {} /\ DOMAIN tickets = {}
      /\ DOMAIN accepted = {}
  BY <1>1 DEF Retained, Live
<1>4. HistoryOK
  <2>1. accepted \in Seq(Entry) /\ Len(accepted) = 0
    BY <1>1
  <2>. QED
    BY <2>1, Bounds DEF HistoryOK
<1>5. OperationsOK /\ WritesOK
  BY <1>1, <1>2, <1>3, Bounds DEF OperationsOK, WritesOK, Retained
<1>6. KeysOK /\ IsFiniteSet(DOMAIN keys)
  BY <1>1, <1>2, <1>3, Bounds DEF KeysOK
<1>7. TicketsOK
  BY <1>1, <1>2, <1>3, Bounds DEF TicketsOK
<1>8. RequestsOK
  BY <1>1 DEF RequestsOK
<1>9. FeedOK /\ SessionKnowsLive
  BY <1>1, Bounds DEF FeedOK, SessionKnowsLive, Closed
<1>10. GateInv /\ KeyInv
  BY <1>1, <1>3 DEF GateInv, KeyInv, KeysNameTheirOperation
<1>11. TicketInv
  BY <1>1, <1>3 DEF TicketInv, TicketsSingleUse
<1>. QED
  BY <1>4, <1>5, <1>6, <1>7, <1>8, <1>9, <1>10, <1>11 DEF IInv

(* One step per action. *)
LEMMA InvStep ==
  ASSUME IInv, [Next]_vars
  PROVE  IInv'
<1>1. ASSUME NEW o \in Retained, ExpireOperation(o)
      PROVE  IInv'
  BY <1>1, ExpireOperationStep
<1>2. ASSUME NEW k \in DOMAIN keys, ExpireKey(k)
      PROVE  IInv'
  BY <1>2, ExpireKeyStep
<1>3. ASSUME NEW f \in Applies, IssueTicket(f)
      PROVE  IInv'
  BY <1>3, IssueTicketStep
<1>4. ASSUME NEW t \in DOMAIN tickets, ExpireTicket(t)
      PROVE  IInv'
  BY <1>4, ExpireTicketStep
<1>5. ASSUME NEW r \in Requests, Command(r)
      PROVE  IInv'
  <2>1. ASSUME NEW k \in Keys, NEW f \in Fingerprints, NEW t \in 0 .. issued, Begin(r, k, f, t)
        PROVE  IInv'
    BY <2>1, BeginStep
  <2>2. CASE Abandon(r)
    BY <2>2, AbandonStep
  <2>3. CASE TurnAway(r)
    BY <2>3, TurnAwayStep
  <2>4. CASE Accept(r)
    BY <2>4, AcceptStep
  <2>. QED
    BY <1>5, <2>1, <2>2, <2>3, <2>4 DEF Command
<1>6. ASSUME NEW o \in writes, Answers(o)
      PROVE  IInv'
  BY <1>6, FinishStep DEF Answers
<1>7. ASSUME NEW s \in Scopes, Refresh(s)
      PROVE  IInv'
  BY <1>7, RefreshStep
<1>8. CASE Subscribe \/ Hear \/ Unsubscribe
  BY <1>8, SubscribeStep, HearStep, UnsubscribeStep
<1>9. CASE UNCHANGED vars
  <2>1. UNCHANGED <<operations, keys, tickets, issued, requests, writes, feed, accepted>>
    BY <1>9 DEF vars
  <2>2. FeedOK' /\ SessionKnowsLive'
    BY <2>1 DEF IInv, FeedOK, SessionKnowsLive, Live, Retained
  <2>. QED
    BY <2>1, <2>2, FeedStep
<1>. QED
  BY <1>1, <1>2, <1>3, <1>4, <1>5, <1>6, <1>7, <1>8, <1>9 DEF Next

(* The inductive invariant holds of every behaviour of the engine, its        *)
(* tickets and its session.                                                  *)
THEOREM Invariance == Spec => []IInv
  BY InvInit, InvStep, PTL DEF Spec

(* Every variable keeps its shape and every store its capacity. *)
THEOREM OperationsTypeCorrect == Spec => []TypeOK
<1>1. IInv => TypeOK
  BY TypeParts DEF IInv
<1>. QED
  BY Invariance, <1>1, PTL

(* At most one submission per object awaits the API server (state.rs, the    *)
(* target gate), because a live operation keeps its object's scope until its *)
(* outcome is known, and only what is terminal is evicted or expires.        *)
THEOREM OneWriteInFlight == Spec => []OneWritePerTarget
<1>1. ASSUME IInv
      PROVE  OneWritePerTarget
  <2>1. HistoryOK /\ OperationsOK /\ GateInv /\ WritesOK
    BY <1>1 DEF IInv
  <2>2. ASSUME NEW o \in writes
        PROVE  /\ o \in Retained /\ o \in Live /\ operations[o].state = "running"
               /\ operations[o].scope = ScopeOf[accepted[o].print]
               /\ operations[o].scope # NoScope
    <3>1. o \in Retained /\ operations[o].state = "running" /\ o \in DOMAIN accepted
      BY <2>1 DEF GateInv, WritesOK
    <3>2. operations[o].scope = ScopeOf[accepted[o].print]
      BY <2>1, <3>1 DEF GateInv
    <3>. QED
      BY <2>1, <3>1, <3>2, HistoryFacts DEF Live, Terminal
  <2>3. ASSUME NEW o \in writes, NEW p \in writes,
               ScopeOf[accepted[o].print] = ScopeOf[accepted[p].print]
        PROVE  o = p
    <3>1. o \in Live /\ p \in Live /\ operations[o].scope = operations[p].scope
          /\ operations[o].scope # NoScope
      BY <2>2, <2>3
    <3>. QED
      BY <2>1, <3>1 DEF GateInv
  <2>. QED
    BY <2>2, <2>3 DEF OneWritePerTarget
<1>. QED
  BY Invariance, <1>1, PTL

(* A key runs its command once, until the key of an operation that is over   *)
(* is forgotten.                                                             *)
THEOREM CommandsRunOnce == Spec => []KeyRunsOnce
<1>1. IInv => KeyRunsOnce
  BY DEF IInv, KeyInv, KeyRunsOnce, MayHaveChanged, OperationsOK, Live
<1>. QED
  BY Invariance, <1>1, PTL

(* A known key answers with the operation it was accepted for.               *)
THEOREM KeysAreFaithful == Spec => []KeysNameTheirOperation
<1>1. IInv => KeysNameTheirOperation
  BY DEF IInv, KeyInv
<1>. QED
  BY Invariance, <1>1, PTL

(* Idempotency keys are sound: one run, and answers from that run.           *)
THEOREM KeysAreSound == Spec => []KeysSound
BY CommandsRunOnce, KeysAreFaithful, PTL DEF KeysSound

(* No two submissions rest on one validation ticket.                         *)
THEOREM TicketAuthorizesOneWrite == Spec => []TicketsSingleUse
<1>1. IInv => TicketsSingleUse
  BY DEF IInv, TicketInv
<1>. QED
  BY Invariance, <1>1, PTL

(* A session that did not lag is told of every live operation and of its end. *)
THEOREM SessionIsTold == Spec => []SessionKnowsLive
<1>1. IInv => SessionKnowsLive
  BY DEF IInv
<1>. QED
  BY Invariance, <1>1, PTL

---------------------------------------------------------------------------
(* The engine implements MutationEngine. *)

LEMMA SameKeys ==
  ASSUME DOMAIN accepted' = DOMAIN accepted,
         \A o \in DOMAIN accepted : accepted'[o].key = accepted[o].key
  PROVE  AcceptedKeys' = AcceptedKeys
BY DEF AcceptedKeys

(* What has ended is let go. *)
LEMMA EngineForgets ==
  ASSUME AcceptedKeys' = AcceptedKeys, NEW E \in SUBSET (Retained \ Live),
         Retained' = Retained \ E, Live' = Live
  PROVE  Engine!Next
BY DEF Engine!Next, Engine!Forget

LEMMA EngineEnds ==
  ASSUME AcceptedKeys' = AcceptedKeys, Retained' = Retained, NEW o \in Live, Live' = Live \ {o}
  PROVE  Engine!Next
BY DEF Engine!Next, Engine!End

LEMMA EngineRests ==
  ASSUME AcceptedKeys' = AcceptedKeys, Retained' = Retained, Live' = Live
  PROVE  [Engine!Next]_(Engine!vars)
BY DEF Engine!vars

(* Some operations that have ended are let go, the others keep their state.   *)
LEMMA EngineDrops ==
  ASSUME NEW E \in SUBSET (Retained \ Live), accepted' = accepted,
         operations' = Only(operations, Retained \ E)
  PROVE  Engine!Next
<1>1. /\ Retained' = Retained \ E
      /\ \A o \in Retained \ E : operations'[o] = operations[o]
  BY DEF Only, Retained
<1>2. Live' = Live
  BY <1>1 DEF Live
<1>3. AcceptedKeys' = AcceptedKeys
  BY DEF AcceptedKeys
<1>. QED
  BY <1>1, <1>2, <1>3, EngineForgets

LEMMA EngineFinishes ==
  ASSUME IInv, NEW o \in writes, NEW to \in {"succeeded", "failed", "unknown"}, Finish(o, to)
  PROVE  [Engine!Next]_(Engine!vars)
<1>1. HistoryOK /\ OperationsOK /\ GateInv
  BY DEF IInv
<1>2. o \in Retained /\ operations[o].state = "running" /\ o \in DOMAIN accepted
  BY <1>1 DEF GateInv, OperationsOK
<1>3. operations' = [operations EXCEPT ![o].state = to]
      /\ accepted' = [accepted EXCEPT ![o].failed = (to = "failed")]
  <2>1. Allowed(operations[o].state, to)
    BY <1>2 DEF Allowed
  <2>. QED
    BY <1>2, <2>1 DEF Finish, Transition
<1>4. /\ Retained' = Retained
      /\ operations'[o].state = to
      /\ \A p \in Retained : p # o => operations'[p] = operations[p]
  <2>1. operations[o] \in Record
    BY <1>1, <1>2 DEF OperationsOK
  <2>2. operations'[o] = [operations[o] EXCEPT !.state = to]
    BY <1>2, <1>3 DEF Retained
  <2>. QED
    BY <1>2, <1>3, <2>1, <2>2 DEF Retained, Record
<1>5. o \in Live /\ Live' = IF to = "unknown" THEN Live ELSE Live \ {o}
  BY <1>2, <1>4 DEF Live, Terminal
<1>6. accepted'[o].key = accepted[o].key
  <2>1. accepted'[o] = [accepted[o] EXCEPT !.failed = (to = "failed")]
    BY <1>2, <1>3
  <2>2. accepted[o] \in Entry
    BY <1>1, <1>2, HistoryFacts
  <2>. QED
    BY <2>1, <2>2 DEF Entry
<1>7. AcceptedKeys' = AcceptedKeys
  <2>1. /\ DOMAIN accepted' = DOMAIN accepted
        /\ \A p \in DOMAIN accepted : p # o => accepted'[p] = accepted[p]
    BY <1>3
  <2>. QED
    BY <1>6, <2>1, SameKeys
<1>. QED
  BY <1>4, <1>5, <1>7, EngineEnds, EngineRests

LEMMA EngineRefreshes ==
  ASSUME IInv, NEW s \in Scopes, Refresh(s)
  PROVE  [Engine!Next]_(Engine!vars)
<1>1. OperationsOK /\ accepted' = accepted
  BY DEF IInv, Refresh
<1>2. \A o \in Retained : operations[o] \in Record
  BY <1>1 DEF OperationsOK
<1>3. Retained' = Retained
  BY DEF Refresh, Retained
<1>4. ASSUME NEW o \in Retained
      PROVE  operations'[o].state = operations[o].state
  <2>1. CASE operations[o] = [state |-> "unknown", scope |-> s]
    <3>1. operations'[o] = [operations[o] EXCEPT !.scope = NoScope]
      BY <2>1 DEF Refresh
    <3>. QED
      BY <1>2, <3>1 DEF Record
  <2>2. CASE operations[o] # [state |-> "unknown", scope |-> s]
    BY <2>2 DEF Refresh
  <2>. QED
    BY <2>1, <2>2
<1>5. Live' = Live
  BY <1>3, <1>4 DEF Live
<1>6. AcceptedKeys' = AcceptedKeys
  BY <1>1 DEF AcceptedKeys
<1>. QED
  BY <1>3, <1>5, <1>6, EngineRests

(* An operation that may still write has its key in the store, so its key is  *)
(* not admitted; and the room that is made is that of ended operations.       *)
LEMMA EngineAccepts ==
  ASSUME IInv, NEW r \in Requests, Accept(r)
  PROVE  Engine!Next
<1> DEFINE key == requests[r].key
<1> DEFINE o == Len(accepted) + 1
<1>1. HistoryOK /\ OperationsOK /\ KeyInv /\ requests[r] \in Reads
  <2>1. requests[r] \in {Idle} \cup Reads
    BY DEF IInv, RequestsOK
  <2>. QED
    BY <2>1 DEF IInv, Accept
<1>2. Len(accepted) \in Nat /\ DOMAIN accepted = 1 .. Len(accepted) /\ accepted \in Seq(Entry)
  BY <1>1, HistoryFacts DEF HistoryOK
<1>3. /\ key \notin DOMAIN keys
      /\ DOMAIN operations' = (Retained \ Evicted) \cup {o}
      /\ operations'[o].state \in {"running", "pending"}
      /\ \A p \in Retained \ Evicted : p # o => operations'[p] = operations[p]
  BY DEF Accept, Admitted
<1>4. PICK entry : accepted' = Append(Forget(ForgottenKeys), entry) /\ entry.key = key
  BY DEF Accept
<1>5. /\ Len(Forget(ForgottenKeys)) = Len(accepted)
      /\ Forget(ForgottenKeys) \in Seq(Entry)
      /\ \A p \in DOMAIN accepted : Forget(ForgottenKeys)[p].key = accepted[p].key
  BY <1>1, ForgetFacts
<1>6. key \in Keys
  BY <1>1 DEF Reads
<1> HIDE DEF key, o
<1>7. /\ DOMAIN accepted' = (1 .. Len(accepted)) \cup {o}
      /\ accepted'[o] = entry
      /\ \A p \in DOMAIN accepted : accepted'[p] = Forget(ForgottenKeys)[p]
  BY <1>2, <1>4, <1>5 DEF o
<1>8. o \notin DOMAIN accepted /\ o \notin Retained
  <2>1. o \notin DOMAIN accepted
    BY <1>2 DEF o
  <2>. QED
    BY <1>1, <2>1 DEF OperationsOK
<1>9. Evicted \in SUBSET (Retained \ Live)
  BY <1>1, EvictedFacts
<1>10. Retained' = (Retained \ Evicted) \cup {o} /\ Live' = Live \cup {o}
  <2>1. Retained' = (Retained \ Evicted) \cup {o}
    BY <1>3 DEF Retained
  <2>2. o \in Live'
    BY <1>3, <2>1 DEF Live, Terminal
  <2>3. \A p \in Retained \ Evicted : p \in Live' <=> p \in Live
    BY <1>3, <1>8, <2>1 DEF Live
  <2>. QED
    BY <1>9, <2>1, <2>2, <2>3 DEF Live
<1>11. ASSUME NEW p \in Live
       PROVE  AcceptedKeys[p] # key
  <2>1. p \in DOMAIN accepted /\ ~accepted[p].forgotten /\ ~accepted[p].failed
    BY <1>1 DEF KeyInv, Live, OperationsOK
  <2>2. accepted[p].key \in DOMAIN keys
    BY <1>1, <2>1 DEF KeyInv
  <2>. QED
    BY <1>3, <2>1, <2>2 DEF AcceptedKeys
<1>12. AcceptedKeys \in Seq(Keys) /\ Len(AcceptedKeys) = Len(accepted)
  <2>1. \A p \in DOMAIN accepted : accepted[p].key \in Keys
    BY <1>1, HistoryFacts DEF Entry
  <2>. QED
    BY <1>2, <2>1 DEF AcceptedKeys
<1>13. AcceptedKeys' = Append(AcceptedKeys, key)
  <2>1. DOMAIN AcceptedKeys' = (1 .. Len(accepted)) \cup {o}
        /\ AcceptedKeys'[o] = key
        /\ \A p \in 1 .. Len(accepted) : AcceptedKeys'[p] = AcceptedKeys[p]
    BY <1>2, <1>4, <1>5, <1>7 DEF AcceptedKeys
  <2>2. DOMAIN Append(AcceptedKeys, key) = (1 .. Len(accepted)) \cup {o}
        /\ Append(AcceptedKeys, key)[o] = key
        /\ \A p \in 1 .. Len(accepted) : Append(AcceptedKeys, key)[p] = AcceptedKeys[p]
    BY <1>2, <1>6, <1>12 DEF o
  <2>3. AcceptedKeys' = [p \in (1 .. Len(accepted)) \cup {o} |-> AcceptedKeys'[p]]
    BY <2>1 DEF AcceptedKeys
  <2>4. Append(AcceptedKeys, key) = [p \in (1 .. Len(accepted)) \cup {o} |-> Append(AcceptedKeys, key)[p]]
    <3>1. Append(AcceptedKeys, key) \in Seq(Keys)
      BY <1>6, <1>12
    <3>2. \A s \in Seq(Keys) : s = [p \in DOMAIN s |-> s[p]]
      OBVIOUS
    <3>. QED
      BY <2>2, <3>1, <3>2
  <2>. QED
    BY <2>1, <2>2, <2>3, <2>4
<1>14. o = Len(AcceptedKeys) + 1
  BY <1>12 DEF o
<1>15. Engine!Accept(key)
  BY <1>9, <1>10, <1>11, <1>13, <1>14 DEF Engine!Accept
<1>. QED
  BY <1>6, <1>15 DEF Engine!Next

LEMMA EngineSteps == IInv /\ [Next]_vars => [Engine!Next]_(Engine!vars)
<1> SUFFICES ASSUME IInv, [Next]_vars
             PROVE  [Engine!Next]_(Engine!vars)
  OBVIOUS
<1>0. OperationsOK /\ HistoryOK
  BY DEF IInv
<1>1. ASSUME UNCHANGED <<operations, accepted>>
      PROVE  [Engine!Next]_(Engine!vars)
  BY <1>1, EngineRests DEF Live, Retained, AcceptedKeys
<1>2. ASSUME NEW o \in Retained, ExpireOperation(o)
      PROVE  Engine!Next
  <2>1. {o} \in SUBSET (Retained \ Live)
    BY <1>2 DEF ExpireOperation
  <2>. QED
    BY <1>2, <2>1, EngineDrops DEF ExpireOperation
<1>3. ASSUME NEW k \in DOMAIN keys, ExpireKey(k)
      PROVE  [Engine!Next]_(Engine!vars)
  <2>1. operations' = operations /\ accepted' = Forget({k})
    BY <1>3 DEF ExpireKey
  <2>2. AcceptedKeys' = AcceptedKeys
    <3>1. DOMAIN accepted' = DOMAIN accepted
          /\ \A o \in DOMAIN accepted : accepted'[o].key = accepted[o].key
      BY <1>0, <2>1, ForgetFacts
    <3>. QED
      BY <3>1, SameKeys
  <2>. QED
    BY <2>1, <2>2, EngineRests DEF Live, Retained
<1>4. ASSUME NEW f \in Applies, IssueTicket(f)
      PROVE  [Engine!Next]_(Engine!vars)
  BY <1>1, <1>4 DEF IssueTicket
<1>5. ASSUME NEW t \in DOMAIN tickets, ExpireTicket(t)
      PROVE  [Engine!Next]_(Engine!vars)
  BY <1>1, <1>5 DEF ExpireTicket
<1>6. ASSUME NEW r \in Requests, Command(r)
      PROVE  [Engine!Next]_(Engine!vars)
  <2>1. ASSUME NEW k \in Keys, NEW f \in Fingerprints, NEW t \in 0 .. issued, Begin(r, k, f, t)
        PROVE  [Engine!Next]_(Engine!vars)
    BY <1>1, <2>1 DEF Begin
  <2>2. CASE Abandon(r)
    BY <1>1, <2>2 DEF Abandon
  <2>3. CASE TurnAway(r)
    <3>1. Evicted \in SUBSET (Retained \ Live)
      BY <1>0, EvictedFacts
    <3>2. CASE operations' = operations
      BY <1>1, <2>3, <3>2 DEF TurnAway
    <3>3. CASE operations' = Only(operations, Retained \ Evicted)
      BY <2>3, <3>1, <3>3, EngineDrops DEF TurnAway
    <3>. QED
      BY <2>3, <3>2, <3>3 DEF TurnAway
  <2>4. CASE Accept(r)
    BY <2>4, EngineAccepts
  <2>. QED
    BY <1>6, <2>1, <2>2, <2>3, <2>4 DEF Command
<1>7. ASSUME NEW o \in writes, Answers(o)
      PROVE  [Engine!Next]_(Engine!vars)
  BY <1>7, EngineFinishes DEF Answers
<1>8. ASSUME NEW s \in Scopes, Refresh(s)
      PROVE  [Engine!Next]_(Engine!vars)
  BY <1>8, EngineRefreshes
<1>9. CASE Subscribe \/ Hear \/ Unsubscribe
  BY <1>1, <1>9 DEF Subscribe, Hear, Unsubscribe
<1>10. CASE UNCHANGED vars
  BY <1>1, <1>10 DEF vars
<1>. QED
  BY <1>2, <1>3, <1>4, <1>5, <1>6, <1>7, <1>8, <1>9, <1>10 DEF Next

(* The engine, its keys and its gate keep what a client relies on: an         *)
(* operation that may still write can be reported, and its key names it to    *)
(* every retry; an end is final and a number never names another operation    *)
(* (operation/mod.rs accept_scoped, make_room, transition).                   *)
THEOREM OperationsImplementEngine == Spec => ImplementsEngine
<1>1. Init => Engine!Init
  <2> SUFFICES ASSUME Init PROVE Engine!Init
    OBVIOUS
  <2>1. operations = <<>> /\ accepted = <<>>
    BY DEF Init
  <2>2. AcceptedKeys = <<>> /\ Retained = {}
    BY <2>1 DEF AcceptedKeys, Retained
  <2>3. Live = {}
    BY <2>2 DEF Live
  <2>. QED
    BY <2>2, <2>3 DEF Engine!Init
<1>. QED
  BY <1>1, EngineSteps, Invariance, PTL DEF Spec, ImplementsEngine, Engine!Spec
=============================================================================
