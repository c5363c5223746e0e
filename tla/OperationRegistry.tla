--------------------------- MODULE OperationRegistry ---------------------------
(***************************************************************************)
(* What a client knows of the background operations (k10s-ui,              *)
(* client/state.rs): the views it retains, the idempotency records of what *)
(* it submitted, and the gate that keeps an operation the backend has      *)
(* forgotten from being submitted again before its target has been read.   *)
(* Against a server whose sessions stream the updates of every operation   *)
(* (control.rs), lag, lose their transport, and die with their process.    *)
(*                                                                         *)
(* Of the engine it keeps what MutationEngine says: no key is accepted     *)
(* again while its operation runs, and only ended ones are forgotten.  The *)
(* client's retention bounds are not met.                                  *)
(***************************************************************************)
EXTENDS Naturals, Sequences, SequencesExt, FiniteSets

CONSTANTS
  Submissions,    \* idempotency keys
  MutationTargets,\* exact mutation targets
  TargetOf,       \* the target of a submission
  Elsewhere,      \* the key of any other session's operation
  MaxAccepted,    \* bound on accepted operations
  MaxInstances,   \* bound on server processes
  MaxDisruptions  \* bound on lost transports and lagged updates

ASSUME RegistryAssumption ==
  /\ IsFiniteSet(MutationTargets) /\ TargetOf \in [Submissions -> MutationTargets]
  /\ Elsewhere \notin Submissions
  /\ MaxAccepted \in Nat /\ MaxInstances \in Nat \ {0} /\ MaxDisruptions \in Nat

VARIABLES
  process,    \* the running server process
  engine,     \* history: every operation accepted
  held,       \* the operations the process retains
  inbound,    \* client frames not yet dispatched
  working,    \* request tasks that await the cluster
  line,       \* frames on their way to the client
  up,         \* the transport
  disruptions,
  views,      \* operations: what the client retains of each
  submitted,  \* submitted_keys, 0 for none
  unverified, \* unverified_unknown_keys
  pending,    \* pending, with target_refreshes as its reads
  asking,     \* operation_refresh
  rebuilds,   \* rebuilds so far: the generation of request ids
  witnessed,  \* history: lost operations whose target was read afterwards
  misled      \* history: operations replayed to the client as running, once over

serverSide == <<process, engine, held, inbound, working, up, disruptions, misled>>
clientSide == <<views, submitted, unverified, pending, asking, rebuilds, witnessed>>
recordVars == <<serverSide, line, clientSide>>

NotAsking == [kind |-> "none"]
Status(g, ids) == [kind |-> "status", in |-> g, ids |-> ids]
Mutation(g, k) == [kind |-> "command", in |-> g, key |-> k]
Detail(g, t, K) == [kind |-> "read", in |-> g, target |-> t, keys |-> K]
Changed(o, st) == [kind |-> "update", op |-> o, st |-> st]
Resync == [kind |-> "resync"]
Answer(request, result) == [kind |-> "answer", to |-> request, result |-> result]

Accepted == DOMAIN engine

RegistryInit ==
  /\ process = 1 /\ engine = <<>> /\ held = {}
  /\ inbound = <<>> /\ working = {} /\ line = <<>>
  /\ up = TRUE /\ disruptions = 0
  /\ views = [o \in 1..MaxAccepted |-> "none"]
  /\ submitted = [k \in Submissions |-> 0]
  /\ unverified = {} /\ pending = {} /\ asking = NotAsking
  /\ rebuilds = 0 /\ witnessed = {} /\ misled = {}

---------------------------------------------------------------------------
(* The server *)

(* A response overtakes the sequenced frames that have not been sent yet, *)
(* however many that are, but no other response and no resent frame.     *)
Reliable == {i \in DOMAIN line : line[i].kind \in {"answer", "resent"}}

Respond(answer) ==
  \E i \in 1..(Len(line) + 1) :
    /\ \A j \in Reliable : j < i
    /\ line' = InsertAt(line, i, answer)

(* An update reaches the forwarder of the session, or is what it lagged by. *)
Streamed(frames, update) ==
  \/ ~up /\ line' = frames /\ UNCHANGED disruptions
  \/ up /\ line' = Append(frames, update) /\ UNCHANGED disruptions
  \/ /\ up /\ disruptions < MaxDisruptions
     /\ line' = Append(frames, Resync)
     /\ disruptions' = disruptions + 1

AcceptNew(k) ==
  /\ Len(engine) < MaxAccepted
  /\ engine' = Append(engine, [key |-> k, st |-> "running"])
  /\ held' = held \cup {Len(engine) + 1}

(* Another session's operation. *)
OtherAccepted ==
  /\ AcceptNew(Elsewhere)
  /\ Streamed(line, Changed(Len(engine) + 1, "running"))
  /\ UNCHANGED <<process, misled, inbound, working, up, clientSide>>

Ends(o) ==
  /\ o \in held /\ engine[o].st = "running"
  /\ engine' = [engine EXCEPT ![o].st = "ended"]
  /\ Streamed(line, Changed(o, "ended"))
  /\ UNCHANGED <<process, misled, held, inbound, working, up, clientSide>>

Forgets(o) ==
  /\ o \in held /\ engine[o].st = "ended"
  /\ held' = held \ {o}
  /\ UNCHANGED <<process, misled, engine, inbound, working, up, disruptions, line, clientSide>>

(* Requests are dispatched in order; a status query is answered at its first *)
(* poll, the others wait for the cluster.                                    *)
Dispatch ==
  /\ inbound # <<>>
  /\ inbound' = Tail(inbound)
  /\ LET request == Head(inbound)
     IN IF request.kind = "status"
        THEN /\ Respond(Answer(request, [o \in request.ids \cap held |-> engine[o].st]))
             /\ UNCHANGED working
        ELSE working' = working \cup {request} /\ UNCHANGED line
  /\ UNCHANGED <<process, misled, engine, held, up, disruptions, clientSide>>

CommandAnswered(request) ==
  /\ request \in working /\ request.kind = "command"
  /\ working' = working \ {request}
  /\ \/ \E o \in held :
          /\ engine[o].key = request.key
          /\ Respond(Answer(request, o))
          /\ misled' = misled \cup {p \in {o} : engine[o].st = "ended"}
     \/ Respond(Answer(request, 0)) /\ UNCHANGED misled
  /\ UNCHANGED <<process, engine, held, inbound, up, disruptions, clientSide>>

(* An operation that failed, or whose key was forgotten, leaves its key. *)
CommandAccepted(request) ==
  /\ request \in working /\ request.kind = "command"
  /\ \A o \in held : engine[o].key = request.key => engine[o].st = "ended"
  /\ working' = working \ {request}
  /\ AcceptNew(request.key)
  /\ \E i \in 1..(Len(line) + 2) :
       /\ \A j \in Reliable : j < i
       /\ LET op == Len(engine) + 1
              frames == Append(line, Changed(op, "running"))
          IN line' = InsertAt(frames, i, Answer(request, op))
  /\ UNCHANGED <<process, misled, inbound, up, disruptions, clientSide>>

ReadAnswered(request) ==
  /\ request \in working /\ request.kind = "read"
  /\ working' = working \ {request}
  /\ \E found \in BOOLEAN : Respond(Answer(request, found))
  /\ UNCHANGED <<process, misled, engine, held, inbound, up, disruptions, clientSide>>

(* The transport *)

CutOff == up' = FALSE /\ inbound' = <<>> /\ working' = {}

(* invalidate_server_state *)
Invalidated == pending' = {} /\ UNCHANGED <<views, submitted, unverified, asking, witnessed>>

Disconnect ==
  /\ up /\ disruptions < MaxDisruptions
  /\ disruptions' = disruptions + 1
  /\ CutOff /\ Invalidated
  /\ UNCHANGED <<process, misled, engine, held, line, rebuilds>>

ProcessReplaced ==
  /\ process < MaxInstances
  /\ process' = process + 1
  /\ engine' = [o \in Accepted |->
       IF engine[o].st = "running" THEN [engine[o] EXCEPT !.st = "lost"] ELSE engine[o]]
  /\ held' = {}
  /\ line' = <<>>
  /\ CutOff /\ Invalidated
  /\ UNCHANGED <<disruptions, rebuilds, misled>>

---------------------------------------------------------------------------
(* The client *)

Nonterminal == {o \in DOMAIN views : views[o] = "running"}

DetailReads == {r \in pending : r.kind = "read"}

(* retry_eligibility says Eligible *)
Eligible(k) ==
  \/ submitted[k] = 0
  \/ /\ views[submitted[k]] \notin {"none", "running"}
     /\ views[submitted[k]] = "unknown" => k \notin unverified
  \/ views[submitted[k]] = "none"

(* queue_unverified_target_refreshes: a read for each target of keys that no *)
(* read under way was begun for.                                             *)
TargetReads(open, V, U, g) ==
  LET wanting(t) ==
        {k \in U : /\ TargetOf[k] = t /\ submitted[k] # 0 /\ V[submitted[k]] = "unknown"
                   /\ \A r \in open : k \notin r.keys}
  IN {Detail(g, t, wanting(t)) : t \in {u \in MutationTargets : wanting(u) # {}}}

Asks(requests) == SetToSeq({r \in requests : r.kind = "status"})
                  \o SetToSeq({r \in requests : r.kind # "status"})

(* rebuild_server_state *)
Rebuilt(sent) ==
  LET g == rebuilds + 1
      status == IF Nonterminal = {} THEN {} ELSE {Status(g, Nonterminal)}
      requests == status \cup TargetReads({}, views, unverified, g)
  IN /\ rebuilds' = g
     /\ pending' = requests
     /\ inbound' = sent \o Asks(requests)
     /\ asking' = IF status = {} THEN asking ELSE Status(g, Nonterminal)
     /\ UNCHANGED <<views, submitted, unverified, witnessed>>

(* The numbers of S, in ascending order. *)
InOrder(S) == [i \in 1..Cardinality(S) |-> CHOOSE x \in S : Cardinality({y \in S : y <= x}) = i]

(* A welcome: frames the old transport had sent may be sent again, the live *)
(* operations follow, and all server state is asked for again.               *)
Resent(n) ==
  LET sent == InOrder({i \in 1..n : line[i].kind \in {"update", "resent"}})
  IN [i \in DOMAIN sent |-> [line[sent[i]] EXCEPT !.kind = "resent"]]

LiveCut == InOrder({o \in held : engine[o].st = "running"})

Reconnect ==
  /\ ~up /\ up' = TRUE
  /\ \E n \in 0..Len(line) :
       /\ line' = Resent(n) \o [i \in DOMAIN LiveCut |-> Changed(LiveCut[i], "running")]
       /\ misled' = misled \cup {o \in Accepted : /\ engine[o].st # "running"
                                               /\ \E i \in DOMAIN Resent(n) :
                                                    Resent(n)[i].op = o /\ Resent(n)[i].st = "running"}
  /\ Rebuilt(<<>>)
  /\ UNCHANGED <<process, engine, held, working, disruptions>>

(* A dialog submits, again after its transport or its command has failed: one *)
(* that was accepted is over.                                                 *)
Submit(k) ==
  /\ up /\ submitted[k] = 0
  /\ \A r \in pending : r.kind = "command" => r.key # k
  /\ pending' = pending \cup {Mutation(rebuilds, k)}
  /\ inbound' = Append(inbound, Mutation(rebuilds, k))
  /\ UNCHANGED <<process, misled, engine, held, working, up, disruptions, line,
                 views, submitted, unverified, asking, rebuilds, witnessed>>

Takes == up /\ line # <<>> /\ line' = Tail(line)

ApplyUpdate ==
  /\ Takes /\ Head(line).kind \in {"update", "resent"}
  /\ views' = [views EXCEPT ![Head(line).op] = Head(line).st]
  /\ UNCHANGED <<serverSide, submitted, unverified, pending, asking, rebuilds, witnessed>>

(* Mutant: a demand for a resync is left to the watches. *)
ApplyResyncQuietly ==
  /\ Takes /\ Head(line).kind = "resync"
  /\ UNCHANGED <<serverSide, clientSide>>

(* Frames not yet sent are cleared with the requests they carry. *)
ApplyResync ==
  /\ Takes /\ Head(line).kind = "resync"
  /\ \E n \in 0..Len(inbound) : Rebuilt(SubSeq(inbound, 1, n))
  /\ UNCHANGED <<process, misled, engine, held, working, up, disruptions>>

TakesAnswer(kind) ==
  /\ Takes /\ Head(line).kind = "answer"
  /\ Head(line).to \in pending /\ Head(line).to.kind = kind

(* UnknownResponse *)
ApplyStray ==
  /\ Takes /\ Head(line).kind = "answer" /\ Head(line).to \notin pending
  /\ UNCHANGED <<serverSide, clientSide>>

ApplyAccepted ==
  LET k == Head(line).to.key
      op == Head(line).result
  IN /\ TakesAnswer("command")
     /\ pending' = pending \ {Head(line).to}
     /\ IF op = 0
        THEN UNCHANGED <<views, submitted, unverified>>
        ELSE /\ submitted' = [submitted EXCEPT ![k] = IF @ = 0 THEN op ELSE @]
             /\ unverified' = unverified \ {k}
             /\ views' = [views EXCEPT ![op] = IF @ \in {"none", "unknown"} THEN "running" ELSE @]
     /\ UNCHANGED <<serverSide, asking, rebuilds, witnessed>>

(* Mutant: keys of operations that turn out unknown are not guarded. *)
GuardedNone(missing) == unverified

Guarded(missing) == unverified \cup {k \in Submissions : submitted[k] \in missing}

(* merge_operation_status *)
ApplyStatus ==
  LET request == Head(line).to
      known == Head(line).result
      missing == Nonterminal \ DOMAIN known
      merged == [o \in DOMAIN views |->
                   IF o \in DOMAIN known THEN known[o]
                   ELSE IF o \in missing THEN "unknown" ELSE views[o]]
      left == pending \ {request}
      reads == TargetReads(DetailReads, merged, Guarded(missing), rebuilds)
  IN /\ TakesAnswer("status")
     /\ views' = merged
     /\ unverified' = Guarded(missing)
     /\ pending' = left \cup reads
     /\ inbound' = inbound \o SetToSeq(reads)
     /\ asking' = IF asking = request THEN NotAsking ELSE asking
     /\ UNCHANGED <<process, misled, engine, held, working, up, disruptions,
                    submitted, rebuilds, witnessed>>

(* Mutant: a read that failed opens the gate too. *)
OpensAnyway(found) == TRUE

Opens(found) == found

ApplyRead ==
  LET request == Head(line).to
      found == Head(line).result
  IN /\ TakesAnswer("read")
     /\ pending' = pending \ {request}
     /\ unverified' = IF Opens(found) THEN unverified \ request.keys ELSE unverified
     /\ witnessed' = IF found
                     THEN witnessed \cup {o \in Accepted : /\ engine[o].st = "lost"
                                                           /\ engine[o].key \in Submissions
                                                           /\ TargetOf[engine[o].key] = request.target}
                     ELSE witnessed
     /\ UNCHANGED <<serverSide, views, submitted, asking, rebuilds>>

---------------------------------------------------------------------------
ServerStep ==
  \/ OtherAccepted \/ Dispatch
  \/ \E o \in held : Ends(o) \/ Forgets(o)
  \/ \E r \in working : CommandAnswered(r) \/ CommandAccepted(r) \/ ReadAnswered(r)
  \/ Disconnect \/ ProcessReplaced

ClientApplies ==
  ApplyUpdate \/ ApplyResync \/ ApplyStray \/ ApplyAccepted \/ ApplyStatus \/ ApplyRead

RegistryNext ==
  \/ ServerStep \/ ClientApplies \/ Reconnect
  \/ \E k \in Submissions : Submit(k)

(* Frames arrive, nobody retries fast enough to keep updates back with the   *)
(* answers, requests are served, writes come back (request timeouts), and a  *)
(* lost transport is retried.                                                *)
RegistryFairness ==
  /\ WF_recordVars(Dispatch) /\ WF_recordVars(ClientApplies)
  /\ SF_recordVars(ApplyUpdate \/ ApplyResync) /\ WF_recordVars(Reconnect)
  /\ WF_recordVars(\E o \in held : Ends(o))
  /\ WF_recordVars(\E r \in working :
                       CommandAnswered(r) \/ CommandAccepted(r) \/ ReadAnswered(r))

RegistrySpec == RegistryInit /\ [][RegistryNext]_recordVars /\ RegistryFairness

---------------------------------------------------------------------------
RegistryTypeOK ==
  /\ process \in 1..MaxInstances /\ held \subseteq Accepted
  /\ views \in [1..MaxAccepted -> {"none", "running", "ended", "unknown"}]
  /\ \A o \in DOMAIN views : views[o] # "none" => o \in Accepted
  /\ submitted \in [Submissions -> {0} \cup Accepted]
  /\ unverified \subseteq {k \in Submissions : submitted[k] # 0}
  /\ \A r, q \in DetailReads : r.keys \cap q.keys # {} => r = q

(* A submission whose operation was lost with its process may be repeated    *)
(* only once the target has been read from the process that replaced it      *)
(* ("the replacement backend cannot deduplicate a key it never observed").   *)
RetryIsInformed ==
  \A k \in Submissions :
    up /\ submitted[k] # 0 /\ engine[submitted[k]].st = "lost" /\ Eligible(k)
      => submitted[k] \in witnessed

(* The server the client talks to is an engine and the processes after it,   *)
(* whose restarts no client is told of.                                       *)
EngineKeys == [o \in Accepted |-> engine[o].key]
StillRunning == {o \in Accepted : engine[o].st = "running"}

Server == INSTANCE MutationEngine WITH
            Keys <- Submissions \cup {Elsewhere}, Shared <- {Elsewhere},
            log <- EngineKeys, live <- StillRunning, kept <- held

ServerIsAnEngine == Server!Spec

(* "Views survive transport loss so dialogs and status surfaces stay      *)
(* truthful": whatever updates were lost, a submission whose operation is *)
(* over does not look pending for good.  Not so if the answer to a retry, *)
(* or a frame of the lost transport, said so once it was over: neither is *)
(* compared with what the client knows, and nothing need follow it.       *)
ViewsSettleUnlessMisled ==
  <>[](\A k \in Submissions :
         submitted[k] # 0 /\ engine[submitted[k]].st # "running" /\ submitted[k] \notin misled
           => views[submitted[k]] # "running")
=============================================================================
