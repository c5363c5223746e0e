---------------------------- MODULE WatchDelivery ----------------------------
(***************************************************************************)
(* A resource list on its way from the cluster to a window: the selection  *)
(* publisher and its broadcast channel (k10s-backend, runtime), the        *)
(* session's watch forwarders and their recovery generations (k10s-server, *)
(* control.rs), the bounded queue they share (OutboundQueue), the wire,    *)
(* and the client's retained list (k10s-ui, client/state.rs).              *)
(*                                                                         *)
(* A task runs alone from one suspension point to the next: both programs  *)
(* that embed the server run it on a current-thread runtime, and queueing  *)
(* a frame never suspends.  Every frame here is sequenced, so the queue is *)
(* taken in FIFO order (SequencesAccounted of OutboundScheduler) and its   *)
(* entries carry a constant sequence.  Each watch selects its own rows.    *)
(***************************************************************************)
EXTENDS OutboundQueue, SequencesExt

CONSTANTS
  Watches,          \* the client's resource subscriptions
  Keys,             \* resource identities of a selection
  NoKey,
  RowsPerChunk,     \* ServerConfig.snapshot_rows_per_chunk
  ChannelCapacity,  \* WATCH_CAPACITY, the bound of a broadcast receiver
  WireCapacity,     \* bound on frames in flight to the client
  MaxRevision,      \* bound on published revisions
  MaxForwarders,    \* bound on the subscriptions one session serves
  Unsubscribes      \* watches whose window the user may close

ASSUME DeliveryAssumption ==
  /\ Identities = Watches \X Keys
  /\ NoKey \notin Keys
  /\ IsFiniteSet(Watches) /\ IsFiniteSet(Keys)
  /\ RowsPerChunk \in Nat \ {0}
  /\ ChannelCapacity \in Nat \ {0}
  /\ WireCapacity \in Nat \ {0}
  /\ MaxRevision \in Nat
  /\ MaxForwarders \in Nat
  /\ Unsubscribes \subseteq Watches

VARIABLES
  revision,    \* RevisionCounter, shared by every selection
  rows,        \* SummaryCache of each selection: key -> revision of its row, 0 absent
  warm,        \* selections that are running
  listed,      \* selections whose first list has been applied
  forwarders,  \* the session's stream_backend_events tasks; the index is task_id
  generation,  \* WatchRecovery.generation
  active,      \* watch_subscriptions: watch -> task_id, 0 for none
  finished,    \* forwarder_done messages not yet received
  queue,       \* the session's outbound scheduler
  wire,        \* frames written and not yet read
  requests,    \* client frames sent and not yet served
  live,        \* live_subscriptions
  lists,       \* resource_lists: the retained view, revision 0 for none
  assembly,    \* snapshot_assemblies, total 0 for none
  over,        \* the session was closed as overloaded
  broken,      \* the client met a protocol error, which the app treats as terminal
  merged       \* some delta was coalesced into a queued one

vars == <<revision, rows, warm, listed, forwarders, generation, active, finished, queue, wire,
          requests, live, lists, assembly, over, broken, merged>>

backendVars == <<revision, rows, warm, listed>>
sessionVars == <<generation, active, finished, queue, wire, over, merged>>
clientVars == <<requests, live, lists, assembly, broken>>

---------------------------------------------------------------------------
(* Events, frames, forwarders *)

NoRows == [k \in Keys |-> 0]
NoList == [rev |-> 0, rows |-> NoRows]
NoAssembly == [total |-> 0, got |-> 0, rev |-> 0, rows |-> NoRows]

Event(kind, k, r, view) == [kind |-> kind, key |-> k, rev |-> r, rows |-> view]
NoEvent == Event("none", NoKey, 0, NoRows)

(* `page' is total_chunks of a snapshotBegin and chunk_index of a chunk. *)
FrameOf(kind, w, e, page) ==
  [kind |-> kind, watch |-> w, key |-> e.key, rev |-> e.rev, rows |-> e.rows, page |-> page,
   wire |-> 1]

Forwarder(w) ==
  [watch |-> w, gen |-> generation, pc |-> "recv", chan |-> <<>>, lagged |-> FALSE,
   event |-> NoEvent, page |-> 0, cancelled |-> FALSE]

Ids == DOMAIN forwarders

(* Its own token, or the token of its recovery generation. *)
Cancelled(f) == forwarders[f].cancelled \/ forwarders[f].gen < generation

(* Mutant: the oldest event is lost and nobody learns of it. *)
OfferSilently(f, e) ==
  [f EXCEPT !.chan = Append(IF Len(f.chan) = ChannelCapacity THEN Tail(@) ELSE @, e)]

(* tokio broadcast: a full receiver loses its oldest event and learns of it. *)
Offer(f, e) ==
  IF Len(f.chan) = ChannelCapacity
  THEN [f EXCEPT !.chan = Append(Tail(@), e), !.lagged = TRUE]
  ELSE [f EXCEPT !.chan = Append(@, e)]

(* A receiver lives until its forwarder returns. *)
Broadcast(fs, w, e) ==
  [f \in DOMAIN fs |-> IF fs[f].watch = w /\ fs[f].pc # "done" THEN Offer(fs[f], e) ELSE fs[f]]

(* stream_snapshot: pages of RowsPerChunk rows, one empty page for no rows. *)
Present(e) == SetToSeq({k \in Keys : e.rows[k] # 0})
Pages(e) ==
  LET full == (Len(Present(e)) + RowsPerChunk - 1) \div RowsPerChunk
  IN IF full = 0 THEN 1 ELSE full
PageOf(e, i) ==
  [e EXCEPT !.rows = [k \in Keys |->
     IF \E j \in DOMAIN Present(e) : Present(e)[j] = k /\ (j - 1) \div RowsPerChunk = i
     THEN e.rows[k] ELSE 0]]

Running == ~over /\ ~broken

---------------------------------------------------------------------------
(* A session whose client asks for these lists as soon as it is connected. *)
Opening(asked) ==
  /\ revision = 0
  /\ rows = [w \in Watches |-> NoRows]
  /\ warm = {}
  /\ listed = {}
  /\ forwarders = <<>>
  /\ generation = 0
  /\ active = [w \in Watches |-> 0]
  /\ finished = {}
  /\ queue = <<>>
  /\ wire = <<>>
  /\ requests \in {[i \in DOMAIN s |-> [op |-> "subscribe", watch |-> s[i]]] : s \in SetToSeqs(asked)}
  /\ live = asked
  /\ lists = [w \in Watches |-> NoList]
  /\ assembly = [w \in Watches |-> NoAssembly]
  /\ over = FALSE
  /\ broken = FALSE
  /\ merged = FALSE

Init == Opening(Watches)

---------------------------------------------------------------------------
(* The publisher: each broadcast takes one revision under publish_order. *)

NextRevision ==
  /\ Running
  /\ revision < MaxRevision
  /\ revision' = revision + 1

(* A relist replaces the cache and publishes the whole cut. *)
ApplyList(w) ==
  /\ w \in warm
  /\ NextRevision
  /\ \E present \in SUBSET Keys :
       rows' = [rows EXCEPT ![w] = [k \in Keys |-> IF k \in present THEN revision' ELSE 0]]
  /\ listed' = listed \cup {w}
  /\ forwarders' = Broadcast(forwarders, w, Event("snapshot", NoKey, revision', rows'[w]))
  /\ UNCHANGED <<warm, sessionVars, clientVars>>

ApplyUpsert(w, k) ==
  /\ w \in listed
  /\ NextRevision
  /\ rows' = [rows EXCEPT ![w][k] = revision']
  /\ forwarders' = Broadcast(forwarders, w, Event("changed", k, revision', NoRows))
  /\ UNCHANGED <<warm, listed, sessionVars, clientVars>>

ApplyDelete(w, k) ==
  /\ w \in listed
  /\ NextRevision
  /\ rows' = [rows EXCEPT ![w][k] = 0]
  /\ forwarders' = Broadcast(forwarders, w, Event("gone", k, revision', NoRows))
  /\ UNCHANGED <<warm, listed, sessionVars, clientVars>>

---------------------------------------------------------------------------
(* The session's main loop. *)

(* Mutant: one free slot is taken for enough. *)
AdmitUnchecked(frames) ==
  IF Full(queue)
  THEN over' = TRUE /\ UNCHANGED queue
  ELSE /\ queue' = queue \o [i \in DOMAIN frames |-> EntryOf("P1", NoIdentity, 1, frames[i])]
       /\ UNCHANGED over

(* Admission of sequenced P1 frames, in one go; a full queue is an overload  *)
(* and closes the session.                                                   *)
Admit(frames) ==
  IF Len(queue) + Len(frames) > Capacity
  THEN over' = TRUE /\ UNCHANGED queue
  ELSE /\ queue' = queue \o [i \in DOMAIN frames |-> EntryOf("P1", NoIdentity, 1, frames[i])]
       /\ UNCHANGED over

CurrentRows(w) == Event("snapshot", NoKey, revision', rows[w])

(* Mutant: the snapshot is published before the receiver is registered. *)
WarmJoinLate(fs, f, w) ==
  /\ NextRevision
  /\ forwarders' = Append(Broadcast(fs, w, CurrentRows(w)), f)

(* A warm join registers first, then publish_current broadcasts the cache to *)
(* every receiver of the selection.                                          *)
WarmJoin(fs, f, w) ==
  /\ NextRevision
  /\ forwarders' = Broadcast(Append(fs, f), w, CurrentRows(w))

(* A cold join starts the supervisor, whose first list will publish. *)
ColdJoin(fs, f) ==
  /\ forwarders' = Append(fs, f)
  /\ UNCHANGED revision

(* Subscribe, from ClusterWatches::subscribe to the spawn: the handler       *)
(* replaces the subscription's previous forwarder, joins the current         *)
(* generation and queues Subscribed.                                         *)
Subscribe ==
  /\ Running
  /\ requests # <<>> /\ Head(requests).op = "subscribe"
  /\ Len(forwarders) < MaxForwarders
  /\ LET w == Head(requests).watch
         f == Len(forwarders) + 1
         replaced == [g \in Ids |-> IF g = active[w] THEN [forwarders[g] EXCEPT !.cancelled = TRUE]
                                                     ELSE forwarders[g]]
     IN /\ \/ w \in warm /\ WarmJoin(replaced, Forwarder(w), w)
           \/ w \notin warm /\ ColdJoin(replaced, Forwarder(w))
        /\ warm' = warm \cup {w}
        /\ active' = [active EXCEPT ![w] = f]
        /\ Admit(<<FrameOf("subscribed", w, NoEvent, 0)>>)
  /\ requests' = Tail(requests)
  /\ UNCHANGED <<rows, listed, generation, finished, wire, live, lists, assembly, broken, merged>>

(* Mutant: the entry is removed, its forwarder is not told. *)
HandleUnsubscribeQuietly ==
  /\ Running
  /\ requests # <<>> /\ Head(requests).op = "unsubscribe"
  /\ active' = [active EXCEPT ![Head(requests).watch] = 0]
  /\ requests' = Tail(requests)
  /\ UNCHANGED <<backendVars, forwarders, generation, finished, queue, wire, over, merged, live,
                 lists, assembly, broken>>

HandleUnsubscribe ==
  /\ Running
  /\ requests # <<>> /\ Head(requests).op = "unsubscribe"
  /\ LET w == Head(requests).watch IN
       /\ forwarders' = [g \in Ids |->
            IF g = active[w] THEN [forwarders[g] EXCEPT !.cancelled = TRUE] ELSE forwarders[g]]
       /\ active' = [active EXCEPT ![w] = 0]
  /\ requests' = Tail(requests)
  /\ UNCHANGED <<backendVars, generation, finished, queue, wire, over, merged, live, lists,
                 assembly, broken>>

(* Mutant: whatever is registered for the subscription is removed. *)
ReapAny(f) ==
  /\ Running
  /\ f \in finished
  /\ finished' = finished \ {f}
  /\ active' = [active EXCEPT ![forwarders[f].watch] = 0]
  /\ UNCHANGED <<backendVars, forwarders, generation, queue, wire, over, merged, clientVars>>

(* forwarder_done: a finished task only unregisters itself, never the        *)
(* forwarder that replaced it.                                               *)
Reap(f) ==
  /\ Running
  /\ f \in finished
  /\ finished' = finished \ {f}
  /\ LET w == forwarders[f].watch IN
       active' = [active EXCEPT ![w] = IF @ = f THEN 0 ELSE @]
  /\ UNCHANGED <<backendVars, forwarders, generation, queue, wire, over, merged, clientVars>>

---------------------------------------------------------------------------
(* The forwarders, one action from each suspension point to the next. *)

Set(f, g) == forwarders' = [forwarders EXCEPT ![f] = g]

Finish(f) ==
  /\ Set(f, [forwarders[f] EXCEPT !.pc = "done", !.chan = <<>>, !.lagged = FALSE,
                !.event = NoEvent, !.page = 0])
  /\ finished' = finished \cup {f}

(* Mutant: only the generation's token is watched. *)
StopGeneration(f) ==
  /\ Running
  /\ forwarders[f].pc # "done"
  /\ forwarders[f].gen < generation
  /\ Finish(f)
  /\ UNCHANGED <<backendVars, generation, active, queue, wire, over, merged, clientVars>>

(* The biased selects, and the checks of stream_snapshot after each yield,   *)
(* prefer the two cancellation tokens.                                       *)
Stop(f) ==
  /\ Running
  /\ forwarders[f].pc # "done"
  /\ Cancelled(f)
  /\ Finish(f)
  /\ UNCHANGED <<backendVars, generation, active, queue, wire, over, merged, clientVars>>

(* demand_resync: the first demand of the current generation cancels every   *)
(* forwarder of the generation and queues the recovery barrier, or finds one *)
(* queued; then the forwarder returns.                                       *)
DemandResync(f) ==
  /\ IF forwarders[f].gen = generation
     THEN /\ generation' = generation + 1
          /\ IF Holds(queue, Barrier) THEN UNCHANGED <<queue, over>>
             ELSE IF Full(queue) THEN over' = TRUE /\ UNCHANGED queue
             ELSE /\ queue' = Append(queue, EntryOf("P2", Barrier, 1,
                                  FrameOf("resync", forwarders[f].watch, NoEvent, 0)))
                  /\ UNCHANGED over
     ELSE UNCHANGED <<generation, queue, over>>
  /\ Finish(f)

(* The receiver fell behind the channel. *)
Lag(f) ==
  /\ Running
  /\ forwarders[f].pc = "recv" /\ ~Cancelled(f)
  /\ forwarders[f].lagged
  /\ DemandResync(f)
  /\ UNCHANGED <<backendVars, active, wire, merged, clientVars>>

Receives(f) ==
  /\ Running
  /\ forwarders[f].pc = "recv" /\ ~Cancelled(f)
  /\ ~forwarders[f].lagged /\ forwarders[f].chan # <<>>

(* A snapshot first waits for the session's only snapshot permit ... *)
TakeSnapshot(f) ==
  /\ Receives(f)
  /\ LET e == Head(forwarders[f].chan) IN
       /\ e.kind = "snapshot"
       /\ Set(f, [forwarders[f] EXCEPT !.chan = Tail(@), !.event = e, !.pc = "permit"])
  /\ UNCHANGED <<backendVars, sessionVars, clientVars>>

(* ... then queues its begin ... *)
BeginSnapshot(f) ==
  /\ Running
  /\ forwarders[f].pc = "permit" /\ ~Cancelled(f)
  /\ \A g \in Ids : forwarders[g].pc # "page"
  /\ LET e == forwarders[f].event IN
       Admit(<<FrameOf("begin", forwarders[f].watch, [NoEvent EXCEPT !.rev = e.rev], Pages(e))>>)
  /\ Set(f, [forwarders[f] EXCEPT !.pc = "page", !.page = 0])
  /\ UNCHANGED <<backendVars, generation, active, finished, wire, merged, clientVars>>

(* What stream_snapshot queues between two yields: a chunk, the end with the *)
(* last one.                                                                 *)
QueuePage(f) ==
  /\ LET g == forwarders[f]
         chunk == FrameOf("chunk", g.watch, PageOf(g.event, g.page), g.page)
     IN \/ /\ g.page + 1 < Pages(g.event)
           /\ Admit(<<chunk>>)
           /\ Set(f, [g EXCEPT !.page = @ + 1])
        \/ /\ g.page + 1 = Pages(g.event)
           /\ Admit(<<chunk, FrameOf("end", g.watch, NoEvent, 0)>>)
           /\ Set(f, [g EXCEPT !.pc = "recv", !.event = NoEvent, !.page = 0])
  /\ UNCHANGED <<backendVars, generation, active, finished, wire, merged, clientVars>>

(* Mutant: a snapshot once begun is streamed to its end. *)
SendPageRegardless(f) == Running /\ forwarders[f].pc = "page" /\ QueuePage(f)

(* ... and its pages, if it is still wanted after the yield. *)
SendPage(f) ==
  /\ Running
  /\ forwarders[f].pc = "page" /\ ~Cancelled(f)
  /\ QueuePage(f)

(* Mutant: a dropped delta is not reported. *)
ForwardDeltaLossy(f) ==
  /\ Receives(f)
  /\ LET g == forwarders[f]
         e == Head(g.chan)
         id == <<g.watch, e.key>>
         m == FrameOf(e.kind, g.watch, e, 0)
     IN /\ e.kind \in {"changed", "gone"}
        /\ queue' = IF Holds(queue, id) THEN Coalesce(queue, id, m)
                    ELSE IF PartitionFull(queue) THEN queue
                    ELSE Append(queue, EntryOf("P2", id, 1, m))
        /\ merged' = (merged \/ Holds(queue, id))
        /\ Set(f, [g EXCEPT !.chan = Tail(@)])
  /\ UNCHANGED <<backendVars, generation, active, finished, wire, over, clientVars>>

(* enqueue_delta: coalesce, admit, or drop and demand a resync. *)
ForwardDelta(f) ==
  /\ Receives(f)
  /\ LET g == forwarders[f]
         e == Head(g.chan)
         id == <<g.watch, e.key>>
         m == FrameOf(e.kind, g.watch, e, 0)
     IN /\ e.kind \in {"changed", "gone"}
        /\ \/ /\ Holds(queue, id)
              /\ queue' = Coalesce(queue, id, m)
              /\ merged' = TRUE
              /\ Set(f, [g EXCEPT !.chan = Tail(@)])
              /\ UNCHANGED <<generation, finished, over>>
           \/ /\ ~Holds(queue, id) /\ ~PartitionFull(queue)
              /\ queue' = Append(queue, EntryOf("P2", id, 1, m))
              /\ Set(f, [g EXCEPT !.chan = Tail(@)])
              /\ UNCHANGED <<generation, finished, over, merged>>
           \/ /\ ~Holds(queue, id) /\ PartitionFull(queue)
              /\ DemandResync(f)
              /\ UNCHANGED merged
  /\ UNCHANGED <<backendVars, active, wire, clientVars>>

(* The writer task. *)
Write ==
  /\ Running
  /\ queue # <<>> /\ Len(wire) < WireCapacity
  /\ wire' = Append(wire, Head(queue).msg)
  /\ queue' = Tail(queue)
  /\ UNCHANGED <<backendVars, forwarders, generation, active, finished, over, merged, clientVars>>

---------------------------------------------------------------------------
(* The client. *)

serverVars == <<backendVars, forwarders, generation, active, finished, queue, over, merged>>

Protocol == broken' = TRUE /\ UNCHANGED <<lists, assembly>>

(* apply_changed, apply_gone: strictly newer than the list's revision, or    *)
(* ignored.                                                                  *)
ApplyDelta(m) ==
  LET list == lists[m.watch] IN
    /\ lists' = IF list.rev # 0 /\ m.rev > list.rev
                THEN [lists EXCEPT ![m.watch] =
                        [rev |-> m.rev,
                         rows |-> [list.rows EXCEPT ![m.key] = IF m.kind = "changed" THEN m.rev ELSE 0]]]
                ELSE lists
    /\ UNCHANGED <<assembly, broken>>

ApplyBegin(m) ==
  /\ assembly' = [assembly EXCEPT ![m.watch] = [NoAssembly EXCEPT !.total = m.page]]
  /\ UNCHANGED <<lists, broken>>

ApplyChunk(m) ==
  LET a == assembly[m.watch] IN
  \/ /\ a = NoAssembly
     /\ UNCHANGED <<lists, assembly, broken>>
  \/ /\ a # NoAssembly /\ m.page = a.got /\ a.got < a.total
     /\ assembly' = [assembly EXCEPT ![m.watch] =
          [a EXCEPT !.got = @ + 1, !.rev = m.rev,
             !.rows = [k \in Keys |-> IF m.rows[k] # 0 THEN m.rows[k] ELSE @[k]]]]
     /\ UNCHANGED <<lists, broken>>
  \/ /\ a # NoAssembly /\ (m.page # a.got \/ a.got >= a.total)
     /\ Protocol

ApplyEnd(m) ==
  LET a == assembly[m.watch] IN
  \/ /\ a # NoAssembly /\ a.got = a.total
     /\ lists' = [lists EXCEPT ![m.watch] = [rev |-> a.rev, rows |-> a.rows]]
     /\ assembly' = [assembly EXCEPT ![m.watch] = NoAssembly]
     /\ UNCHANGED broken
  \/ /\ a = NoAssembly \/ a.got # a.total
     /\ Protocol

(* ClientState::apply_at on the next frame.  Frames of forgotten             *)
(* subscriptions are ignored.                                                *)
Apply ==
  /\ Running
  /\ wire # <<>> /\ Head(wire).kind # "resync"
  /\ wire' = Tail(wire)
  /\ LET m == Head(wire) IN
       CASE m.watch \notin live \/ m.kind = "subscribed" -> UNCHANGED <<lists, assembly, broken>>
         [] m.watch \in live /\ m.kind = "begin" -> ApplyBegin(m)
         [] m.watch \in live /\ m.kind = "chunk" -> ApplyChunk(m)
         [] m.watch \in live /\ m.kind = "end" -> ApplyEnd(m)
         [] m.watch \in live /\ m.kind \in {"changed", "gone"} -> ApplyDelta(m)
  /\ UNCHANGED <<serverVars, requests, live>>

(* ResyncRequired: rebuild_server_state drops every projection and           *)
(* resubscribes everything still wanted, in the map's order.                 *)
Rebuild ==
  /\ Running
  /\ wire # <<>> /\ Head(wire).kind = "resync"
  /\ wire' = Tail(wire)
  /\ lists' = [w \in Watches |-> NoList]
  /\ assembly' = [w \in Watches |-> NoAssembly]
  /\ \E s \in SetToSeqs(live) :
       requests' = requests \o [i \in DOMAIN s |-> [op |-> "subscribe", watch |-> s[i]]]
  /\ UNCHANGED <<serverVars, live, broken>>

(* A window is closed: the subscription is forgotten at once. *)
Unsubscribe(w) ==
  /\ Running
  /\ w \in live \cap Unsubscribes
  /\ live' = live \ {w}
  /\ requests' = Append(requests, [op |-> "unsubscribe", watch |-> w])
  /\ lists' = [lists EXCEPT ![w] = NoList]
  /\ assembly' = [assembly EXCEPT ![w] = NoAssembly]
  /\ UNCHANGED <<serverVars, wire, broken>>

---------------------------------------------------------------------------
Forward(f) ==
  \/ Reap(f) \/ Stop(f) \/ Lag(f) \/ TakeSnapshot(f) \/ BeginSnapshot(f) \/ SendPage(f)
  \/ ForwardDelta(f)

Client == Apply \/ Rebuild

Next ==
  \/ \E w \in Watches : ApplyList(w) \/ Unsubscribe(w)
  \/ \E w \in Watches, k \in Keys : ApplyUpsert(w, k) \/ ApplyDelete(w, k)
  \/ Subscribe
  \/ HandleUnsubscribe
  \/ \E f \in Ids : Forward(f)
  \/ Write
  \/ Apply
  \/ Rebuild

Spec == Init /\ [][Next]_vars

(* The runtime polls every task that can run; the client polls its inbox;    *)
(* the supervisor retries a selection's first list until the cluster answers *)
(* it; nothing obliges the cluster to change after that.                     *)
FirstList(w) == w \notin listed /\ ApplyList(w)

Fairness ==
  /\ \A w \in Watches : WF_vars(FirstList(w))
  /\ WF_vars(Subscribe) /\ WF_vars(HandleUnsubscribe) /\ WF_vars(Write) /\ WF_vars(Client)
  /\ \A f \in 1 .. MaxForwarders : WF_vars(f \in Ids /\ Forward(f))

FairSpec == Spec /\ Fairness

---------------------------------------------------------------------------
(* Properties *)

Rows == [Keys -> 0 .. MaxRevision]
PageIndex == 0 .. Cardinality(Keys) + 1
EventType == [kind : {"none", "snapshot", "changed", "gone"}, key : Keys \cup {NoKey},
              rev : 0 .. MaxRevision, rows : Rows]
FrameType == [kind : {"subscribed", "begin", "chunk", "end", "changed", "gone", "resync"},
              watch : Watches, key : Keys \cup {NoKey}, rev : 0 .. MaxRevision, rows : Rows,
              page : PageIndex, wire : {1}]

(* The shape of every variable; the queue, the wire and every receiver stay  *)
(* within their bounds.                                                      *)
TypeOK ==
  /\ revision \in 0 .. MaxRevision
  /\ rows \in [Watches -> Rows]
  /\ listed \subseteq warm /\ warm \subseteq Watches
  /\ Len(forwarders) <= MaxForwarders
  /\ \A f \in Ids :
       /\ forwarders[f].watch \in Watches
       /\ forwarders[f].gen \in 0 .. generation
       /\ forwarders[f].pc \in {"recv", "permit", "page", "done"}
       /\ forwarders[f].page \in PageIndex
       /\ forwarders[f].chan \in Seq(EventType) /\ Len(forwarders[f].chan) <= ChannelCapacity
       /\ forwarders[f].event \in EventType
       /\ forwarders[f].lagged \in BOOLEAN /\ forwarders[f].cancelled \in BOOLEAN
  /\ generation \in 0 .. MaxForwarders
  /\ active \in [Watches -> 0 .. MaxForwarders]
  /\ finished \subseteq Ids
  /\ Len(queue) <= Capacity
  /\ \A i \in DOMAIN queue :
       queue[i].identity \in Identities \cup {NoIdentity, Barrier} /\ queue[i].msg \in FrameType
  /\ wire \in Seq(FrameType) /\ Len(wire) <= WireCapacity
  /\ requests \in Seq([op : {"subscribe", "unsubscribe"}, watch : Watches])
  /\ live \subseteq Watches
  /\ lists \in [Watches -> [rev : 0 .. MaxRevision, rows : Rows]]
  /\ assembly \in [Watches -> [total : PageIndex, got : PageIndex, rev : 0 .. MaxRevision,
                               rows : Rows]]
  /\ over \in BOOLEAN /\ broken \in BOOLEAN /\ merged \in BOOLEAN

(* A forwarder with nothing to do but wait for its next event. *)
Waiting(f) ==
  /\ forwarders[f].pc = "recv" /\ ~Cancelled(f)
  /\ forwarders[f].chan = <<>> /\ ~forwarders[f].lagged

Quiescent ==
  /\ requests = <<>> /\ queue = <<>> /\ wire = <<>>
  /\ \A f \in Ids : forwarders[f].pc = "done" \/ Waiting(f)

UpToDate == \A w \in live : lists[w].rows = rows[w]

(* Dropped deltas, lagging receivers, recovery generations, barriers and     *)
(* replaced subscriptions never leave a list behind: once everything is at   *)
(* rest every list is the cluster's, unless a delta was coalesced.           *)
ConvergesUnlessMerged == Running /\ Quiescent /\ ~merged => UpToDate

(* A running forwarder whose own token is live is the registered one of its  *)
(* subscription, so an unsubscribe reaches it.                               *)
ActiveIsRunning ==
  \A f \in Ids :
    forwarders[f].pc # "done" /\ ~forwarders[f].cancelled =>
      active[forwarders[f].watch] = f

(* After the client has unsubscribed and the server served it, no forwarder  *)
(* of the forgotten subscription keeps waiting for events.                   *)
NoOrphan ==
  Quiescent => \A f \in Ids : Waiting(f) => forwarders[f].watch \in live

(* The registry of a session's subscriptions agrees with the forwarders that *)
(* run, at every moment and once everything is at rest.                      *)
SubscriptionsConsistent == ActiveIsRunning /\ NoOrphan

(* Whatever cancels a snapshot half way, replaces its forwarder or lets      *)
(* another one take the permit, the client never meets a chunk out of order  *)
(* or the end of a snapshot it lacks a page of: the app gives up on either.  *)
SnapshotsReassemble == ~broken

(* The bounds of this model stop the publisher or the session. *)
Exhausted == revision = MaxRevision \/ Len(forwarders) = MaxForwarders

(* Every disturbance is worked off: the session comes to rest, ends as       *)
(* overloaded or is abandoned by the client.                                 *)
ComesToRest == <>[](Quiescent \/ ~Running \/ Exhausted)

(* A window waiting for its first list, or for the list a recovery barrier   *)
(* took from it, gets one: warm joins publish, dropped snapshots are asked   *)
(* for again, and no request is forgotten.                                   *)
ListArrives ==
  \A w \in Watches :
    w \in live /\ lists[w].rev = 0
      ~> w \notin live \/ lists[w].rev # 0 \/ ~Running \/ Exhausted

(* What a session owes to a client that goes on reading. *)
ListsServed == ComesToRest /\ ListArrives

(* docs/superpowers/specs/2026-08-21-k10s-runtime-architecture-design.md:453 *)
(* "P2 events for the same resource identity may coalesce to the latest      *)
(* state, but any loss of a contiguous revision must be detectable and lead  *)
(* to resync": at rest, every list is the cluster's.                         *)
NoSilentLoss == Running /\ Quiescent => UpToDate

(* crates/k10s-backend/src/runtime/supervisor.rs:105-108 "a receiver can     *)
(* never observe a newer delta followed by an older snapshot": the revision  *)
(* of a list only falls when the list is forgotten.                          *)
ListsNeverRegress ==
  [][\A w \in Watches : lists'[w].rev # 0 => lists'[w].rev >= lists[w].rev]_vars
=============================================================================
