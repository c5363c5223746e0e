------------------------------ MODULE Operations ------------------------------
(***************************************************************************)
(* Mutations of the cluster: the operation engine with its idempotency     *)
(* keys and target gate (crates/k10s-backend/src/operation/), the commands *)
(* that go through it (kube/mutate.rs, kube/create.rs), the single-use     *)
(* tickets of a YAML apply (validation/ticket.rs), the detail reads that   *)
(* reopen a gate (kube/mod.rs), and one session subscribed to the          *)
(* engine's events.                                                        *)
(*                                                                         *)
(* The n-th accepted operation has number n: ids are never reused, and the *)
(* order in which operations and their keys were inserted is the order of  *)
(* these numbers.  A fingerprint names what a command does to which exact  *)
(* object; ScopeOf is the object's coalescing key.  Whatever has outlived  *)
(* its time to live may go at any time: every reader expires first.        *)
(***************************************************************************)
EXTENDS Integers, Sequences, FiniteSets

CONSTANTS
  Keys,               \* idempotency keys
  Fingerprints,       \* what a command asks for
  Scopes,             \* target objects
  ScopeOf,            \* the target of a fingerprint
  Applies,            \* the fingerprints of YAML applies, which need a ticket
  Requests,           \* request tasks
  NoScope,            \* the cleared scope
  OperationCapacity,  \* DEFAULT_OPERATION_CAPACITY
  KeyCapacity,        \* DEFAULT_IDEMPOTENCY_CAPACITY
  TicketCapacity,     \* TICKET_CAPACITY
  EventHeadroom,      \* EVENT_CAPACITY
  MaxOperations,      \* bound on accepted operations
  MaxTickets          \* bound on issued tickets

ASSUME OperationsAssumption ==
  /\ NoScope \notin Scopes
  /\ ScopeOf \in [Fingerprints -> Scopes]
  /\ Applies \subseteq Fingerprints
  /\ OperationCapacity \in Nat \ {0}
  /\ KeyCapacity \in Nat \ {0}
  /\ TicketCapacity \in Nat \ {0}
  /\ EventHeadroom \in Nat
  /\ MaxOperations \in Nat
  /\ MaxTickets \in Nat

VARIABLES
  operations,  \* Inner.operations, a function on the retained operations
  keys,        \* the idempotency store, a function on the retained keys
  tickets,     \* the ticket store: the apply each live ticket authorizes
  issued,      \* number of tickets issued
  requests,    \* what each request task is doing
  writes,      \* operations whose spawned task awaits the API server
  feed,        \* the session's receiver
  accepted     \* history: how each operation was accepted and what became of it

vars == <<operations, keys, tickets, issued, requests, writes, feed, accepted>>

Terminal == {"succeeded", "failed"}
States == Terminal \cup {"pending", "running", "unknown"}

Retained == DOMAIN operations
Live == {o \in Retained : operations[o].state \notin Terminal}

NoTicket == 0
Idle == [at |-> "idle"]
Reading(k, f, t) == [at |-> "reading", key |-> k, print |-> f, ticket |-> t]

(* backlog: events the receiver has not taken; lagged: it lost some; told:    *)
(* what the events sent to it say in the end of each operation.               *)
Closed == [open |-> FALSE, backlog |-> 0, lagged |-> FALSE, told |-> <<>>]

Init ==
  /\ operations = <<>>
  /\ keys = [k \in {} |-> <<>>]
  /\ tickets = [t \in {} |-> <<>>]
  /\ issued = 0
  /\ requests = [r \in Requests |-> Idle]
  /\ writes = {}
  /\ feed = Closed
  /\ accepted = <<>>

---------------------------------------------------------------------------
(* The engine. *)

Only(f, S) == [x \in S |-> f[x]]
Oldest(S) == {o \in S : \A p \in S : o <= p}

(* Mutant: an operation that runs or whose outcome is unknown opens the gate. *)
GatedByPending(s) == \E o \in Live : operations[o] = [state |-> "pending", scope |-> s]

(* The target gate: a nonterminal operation has the scope. *)
Gated(s) == \E o \in Live : operations[o].scope = s

(* Mutant: nothing is evicted. *)
EvictedNone == {}

(* Mutant: whatever is oldest is evicted, whether it has ended or not. *)
EvictedOldest ==
  IF Cardinality(Retained) < OperationCapacity THEN {} ELSE Oldest(Retained)

(* make_room evicts the oldest terminal operation of a full registry. *)
Evicted ==
  IF Cardinality(Retained) < OperationCapacity THEN {} ELSE Oldest(Retained \ Live)

HasRoom == Cardinality(Retained) < OperationCapacity \/ Retained # Live

(* The idempotency store evicts the oldest key of an operation not live. *)
SpentKeys == {k \in DOMAIN keys : keys[k].operation \notin Live}

ForgottenKeys ==
  IF Cardinality(DOMAIN keys) < KeyCapacity THEN {}
  ELSE {k \in SpentKeys : \A j \in SpentKeys : keys[k].operation <= keys[j].operation}

HasKeyRoom == Cardinality(DOMAIN keys) < KeyCapacity \/ SpentKeys # {}

Forget(K) ==
  [o \in DOMAIN accepted |->
     [accepted[o] EXCEPT !.forgotten = @ \/ \E k \in K : keys[k].operation = o]]

(* The broadcast channel holds a whole initial cut and some headroom; when it *)
(* is full its oldest event is lost.                                          *)
ChannelCapacity == OperationCapacity + EventHeadroom

Emitted(o, states) ==
  IF ~feed.open THEN feed
  ELSE LET sent == feed.backlog + Len(states) IN
    [feed EXCEPT !.backlog = IF sent <= ChannelCapacity THEN sent ELSE ChannelCapacity,
                 !.lagged = @ \/ sent > ChannelCapacity,
                 !.told = [p \in DOMAIN @ \cup {o} |->
                             IF p = o THEN states[Len(states)] ELSE @[p]]]

Allowed(from, to) ==
  \/ from = "running" /\ to \in {"succeeded", "failed", "unknown"}
  \/ from = "unknown" /\ to \in {"succeeded", "failed"}

(* Mutant: the key of a failed submission stays. *)
TransitionKeepingKey(o, to) ==
  IF o \in Retained /\ Allowed(operations[o].state, to)
  THEN /\ operations' = [operations EXCEPT ![o].state = to]
       /\ keys' = keys
       /\ feed' = Emitted(o, <<to>>)
  ELSE UNCHANGED <<operations, keys, feed>>

(* transition, for the results the spawned task reports. *)
Transition(o, to) ==
  IF o \in Retained /\ Allowed(operations[o].state, to)
  THEN /\ operations' = [operations EXCEPT ![o].state = to]
       /\ keys' = IF to = "failed"
                  THEN Only(keys, {k \in DOMAIN keys : keys[k].operation # o}) ELSE keys
       /\ feed' = Emitted(o, <<to>>)
  ELSE UNCHANGED <<operations, keys, feed>>

(* An operation outlives its key, whose time began no later. *)
ExpireOperation(o) ==
  /\ o \in Retained \ Live
  /\ \A k \in DOMAIN keys : keys[k].operation # o
  /\ operations' = Only(operations, Retained \ {o})
  /\ UNCHANGED <<keys, tickets, issued, requests, writes, feed, accepted>>

ExpireKey(k) ==
  /\ k \in SpentKeys
  /\ keys' = Only(keys, DOMAIN keys \ {k})
  /\ accepted' = Forget({k})
  /\ UNCHANGED <<operations, tickets, issued, requests, writes, feed>>

---------------------------------------------------------------------------
(* Tickets. *)

(* A dry run passed.  The store drops its oldest ticket when it is full. *)
IssueTicket(f) ==
  /\ issued < MaxTickets
  /\ issued' = issued + 1
  /\ tickets' = LET kept == IF Cardinality(DOMAIN tickets) < TicketCapacity THEN DOMAIN tickets
                            ELSE DOMAIN tickets \ Oldest(DOMAIN tickets)
                IN [t \in kept \cup {issued'} |-> IF t = issued' THEN f ELSE tickets[t]]
  /\ UNCHANGED <<operations, keys, requests, writes, feed, accepted>>

(* Mutant: the ticket is looked at and left. *)
Inspected(t) == tickets

(* take *)
Taken(t) == Only(tickets, DOMAIN tickets \ {t})

ExpireTicket(t) ==
  /\ t \in Oldest(DOMAIN tickets)
  /\ tickets' = Taken(t)
  /\ UNCHANGED <<operations, keys, issued, requests, writes, feed, accepted>>

---------------------------------------------------------------------------
(* Commands. *)

Become(r, what) == requests' = [requests EXCEPT ![r] = what]

(* A command whose key is known is answered at once, with its operation or a *)
(* conflict; another one goes on to read its target, an apply only when its  *)
(* ticket is live and is for this very buffer and object.                    *)
Begin(r, k, f, t) ==
  /\ requests[r] = Idle
  /\ k \notin DOMAIN keys
  /\ IF f \in Applies THEN t \in DOMAIN tickets /\ tickets[t] = f ELSE t = NoTicket
  /\ Become(r, Reading(k, f, t))
  /\ UNCHANGED <<operations, keys, tickets, issued, writes, feed, accepted>>

(* The read fails, the command is not supported, or its deadline passes. *)
Abandon(r) ==
  /\ requests[r] # Idle
  /\ Become(r, Idle)
  /\ UNCHANGED <<operations, keys, tickets, issued, writes, feed, accepted>>

(* Mutant: the key is looked up before the reads only. *)
AdmittedUnchecked(q) == ~Gated(ScopeOf[q.print]) /\ HasRoom

(* accept_scoped looks the key up again, then asks the gate, then makes room  *)
(* for the operation and then for its key.                                    *)
Admitted(q) == q.key \notin DOMAIN keys /\ ~Gated(ScopeOf[q.print]) /\ HasRoom

(* Replayed or refused; an operation may have been evicted in vain. *)
TurnAway(r) ==
  /\ requests[r] # Idle
  /\ ~(Admitted(requests[r]) /\ HasKeyRoom)
  /\ operations' = IF Admitted(requests[r]) THEN Only(operations, Retained \ Evicted)
                   ELSE operations
  /\ Become(r, Idle)
  /\ UNCHANGED <<keys, tickets, issued, writes, feed, accepted>>

(* Nothing is awaited from the acceptance to the spawned write.  The ticket   *)
(* of an apply is taken after the acceptance: when it is gone, the request    *)
(* fails and the operation stays as it was accepted.                          *)
Accept(r) ==
  LET q == requests[r]
      o == Len(accepted) + 1
      submits == q.ticket = NoTicket \/ q.ticket \in DOMAIN tickets
      state == IF submits THEN "running" ELSE "pending"
  IN /\ q # Idle /\ Admitted(q) /\ HasKeyRoom
     /\ o <= MaxOperations
     /\ operations' = [p \in (Retained \ Evicted) \cup {o} |->
          IF p = o THEN [state |-> state, scope |-> ScopeOf[q.print]] ELSE operations[p]]
     /\ keys' = [k \in (DOMAIN keys \ ForgottenKeys) \cup {q.key} |->
          IF k = q.key THEN [operation |-> o, print |-> q.print] ELSE keys[k]]
     /\ accepted' = Append(Forget(ForgottenKeys),
          [key |-> q.key, print |-> q.print, ticket |-> q.ticket, submitted |-> submits,
           failed |-> FALSE, forgotten |-> FALSE])
     /\ tickets' = Taken(q.ticket)
     /\ writes' = IF submits THEN writes \cup {o} ELSE writes
     /\ feed' = Emitted(o, IF submits THEN <<"pending", "running">> ELSE <<"pending">>)
     /\ Become(r, Idle)
     /\ UNCHANGED issued

(* The spawned task ends: the API server accepted the write, rejected it, or  *)
(* the transport ended first and nobody knows.                                *)
Finish(o, result) ==
  /\ o \in writes
  /\ writes' = writes \ {o}
  /\ Transition(o, result)
  /\ accepted' = [accepted EXCEPT ![o].failed = result = "failed"]
  /\ UNCHANGED <<tickets, issued, requests>>

(* A detail read of the object completes, or finds it gone: refresh_scope. *)
Refresh(s) ==
  /\ \E o \in Retained : operations[o] = [state |-> "unknown", scope |-> s]
  /\ operations' = [o \in Retained |->
       IF operations[o] = [state |-> "unknown", scope |-> s]
       THEN [operations[o] EXCEPT !.scope = NoScope] ELSE operations[o]]
  /\ UNCHANGED <<keys, tickets, issued, requests, writes, feed, accepted>>

---------------------------------------------------------------------------
(* The session. *)

(* Mutant: a new receiver is told of later changes only. *)
NoCut == {}

(* The operations a new receiver is told of first. *)
Cut == Live

Subscribe ==
  /\ ~feed.open
  /\ feed' = [open |-> TRUE, backlog |-> Cardinality(Cut), lagged |-> FALSE,
               told |-> [o \in Cut |-> operations[o].state]]
  /\ UNCHANGED <<operations, keys, tickets, issued, requests, writes, accepted>>

(* The forwarder takes the next event. *)
Hear ==
  /\ feed.backlog > 0
  /\ feed' = [feed EXCEPT !.backlog = @ - 1]
  /\ UNCHANGED <<operations, keys, tickets, issued, requests, writes, accepted>>

(* The session ends. *)
Unsubscribe ==
  /\ feed.open
  /\ feed' = Closed
  /\ UNCHANGED <<operations, keys, tickets, issued, requests, writes, accepted>>

---------------------------------------------------------------------------
Command(r) ==
  \/ \E k \in Keys, f \in Fingerprints, t \in 0 .. issued : Begin(r, k, f, t)
  \/ Abandon(r) \/ TurnAway(r) \/ Accept(r)

Answers(o) == \E result \in {"succeeded", "failed", "unknown"} : Finish(o, result)

Next ==
  \/ \E o \in Retained : ExpireOperation(o)
  \/ \E k \in DOMAIN keys : ExpireKey(k)
  \/ \E f \in Applies : IssueTicket(f)
  \/ \E t \in DOMAIN tickets : ExpireTicket(t)
  \/ \E r \in Requests : Command(r)
  \/ \E o \in writes : Answers(o)
  \/ \E s \in Scopes : Refresh(s)
  \/ Subscribe \/ Hear \/ Unsubscribe

Spec == Init /\ [][Next]_vars

(* The API server answers or its connection breaks; whoever wants to retry a  *)
(* write of unknown outcome reads its target until the read succeeds.         *)
Fairness ==
  /\ \A o \in 1 .. MaxOperations : WF_vars(o \in writes /\ Answers(o))
  /\ \A s \in Scopes : WF_vars(Refresh(s))

FairSpec == Spec /\ Fairness

---------------------------------------------------------------------------
(* Properties *)

Numbers == 1 .. MaxOperations
Entry == [key : Keys, print : Fingerprints, ticket : 0 .. MaxTickets, submitted : BOOLEAN,
          failed : BOOLEAN, forgotten : BOOLEAN]
Reads == [at : {"reading"}, key : Keys, print : Fingerprints, ticket : 0 .. MaxTickets]

(* The shape of every variable; each store keeps to its capacity and what it *)
(* holds has a history.                                                      *)
TypeOK ==
  /\ accepted \in Seq(Entry)
  /\ Len(accepted) <= MaxOperations
  /\ Retained \subseteq DOMAIN accepted
  /\ operations \in [Retained -> [state : States, scope : Scopes \cup {NoScope}]]
  /\ Cardinality(Retained) <= OperationCapacity
  /\ DOMAIN keys \subseteq Keys
  /\ keys \in [DOMAIN keys -> [operation : DOMAIN accepted, print : Fingerprints]]
  /\ Cardinality(DOMAIN keys) <= KeyCapacity
  /\ issued \in 0 .. MaxTickets
  /\ DOMAIN tickets \subseteq 1 .. issued
  /\ tickets \in [DOMAIN tickets -> Applies]
  /\ Cardinality(DOMAIN tickets) <= TicketCapacity
  /\ requests \in [Requests -> {Idle} \cup Reads]
  /\ writes \subseteq DOMAIN accepted
  /\ DOMAIN feed.told \subseteq DOMAIN accepted
  /\ feed \in [open : BOOLEAN, backlog : 0 .. ChannelCapacity, lagged : BOOLEAN,
               told : [DOMAIN feed.told -> States]]

(* A submission awaits the API server only while the registry says so, and    *)
(* never two on one target: no pressure on the stores, no expiry and no       *)
(* unknown outcome in between lets a second write overtake the first.         *)
OneWritePerTarget ==
  \A o \in writes :
    /\ o \in Retained /\ operations[o].state = "running"
    /\ \A p \in writes : ScopeOf[accepted[o].print] = ScopeOf[accepted[p].print] => o = p

(* Of the operations accepted with one key at most one may have changed the   *)
(* cluster, however requests with that key overlap, until the key of one that *)
(* is over is forgotten; the key of a live one is not.                        *)
MayHaveChanged(o) == accepted[o].submitted /\ ~accepted[o].failed

KeyRunsOnce ==
  \A o \in DOMAIN accepted :
    /\ o \in Live => ~accepted[o].forgotten
    /\ \A p \in DOMAIN accepted :
         /\ o < p /\ accepted[o].key = accepted[p].key
         /\ MayHaveChanged(o) /\ MayHaveChanged(p)
         => accepted[o].forgotten

(* A key still known answers with the operation it was accepted for, and a    *)
(* submission known to have failed leaves no key, so it can be retried.       *)
KeysNameTheirOperation ==
  \A k \in DOMAIN keys :
    LET a == accepted[keys[k].operation] IN
      a.key = k /\ a.print = keys[k].print /\ ~a.failed /\ ~a.forgotten

(* Idempotency: one run for a key, and every later request with it answered   *)
(* from that run.                                                             *)
KeysSound == KeyRunsOnce /\ KeysNameTheirOperation

(* A validation ticket authorizes one write, although it is inspected before  *)
(* the reads of the target and two applies may hold it at once.               *)
TicketsSingleUse ==
  \A o, p \in DOMAIN accepted :
    /\ accepted[o].submitted /\ accepted[p].submitted
    /\ accepted[o].ticket # NoTicket /\ accepted[o].ticket = accepted[p].ticket
    => o = p

(* Unless it lagged, a session is told of every live operation, those older   *)
(* than itself too, and no operation it was told of ends without its being    *)
(* told.                                                                      *)
SessionKnowsLive ==
  feed.open /\ ~feed.lagged =>
    /\ Live \subseteq DOMAIN feed.told
    /\ \A o \in DOMAIN feed.told :
         IF o \in Live THEN feed.told[o] = operations[o].state ELSE feed.told[o] \in Terminal

(* What the stores, the gate and the expiries come to for a client: the       *)
(* engine never lets an operation go that may still write, and never accepts  *)
(* a key again beside it.                                                     *)
AcceptedKeys == [o \in DOMAIN accepted |-> accepted[o].key]

Engine == INSTANCE MutationEngine WITH
            log <- AcceptedKeys, live <- Live, kept <- Retained, Shared <- {}

ImplementsEngine == Engine!Spec

(* docs/superpowers/specs/2026-08-21-k10s-runtime-architecture-design.md:282  *)
(* "Progress and terminal state are delivered over the control socket": an    *)
(* accepted operation gets past its acceptance.                               *)
AcceptedIsSettled ==
  \A o \in Numbers :
    o \in DOMAIN accepted ~> (o \notin Retained \/ operations[o].state \in Terminal \cup {"unknown"})
=============================================================================
