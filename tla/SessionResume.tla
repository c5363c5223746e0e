---------------------------- MODULE SessionResume ----------------------------
(***************************************************************************)
(* Reconnecting a control session: the server's resume store and its       *)
(* leases (crates/k10s-server/src/resume.rs), the claim, takeover and      *)
(* teardown of a connection and its journaling writer (control.rs), and    *)
(* the client that reconnects with the cursor of the last frame it applied *)
(* (crates/k10s-ui/src/client/state.rs).                                   *)
(*                                                                         *)
(* The k-th claim creates connection k, and a session is named by the      *)
(* connection that created it, as its uuid is never reused.  Of the        *)
(* session's traffic the model keeps what resuming can tell apart: the     *)
(* begin and end of a list snapshot, and any other sequenced frame.        *)
(***************************************************************************)
EXTENDS Integers, Sequences, FiniteSets

CONSTANTS
  Clients,
  Listing,         \* whether the client has a list open
  MaxSessions,     \* resume_max_sessions
  MaxEntries,      \* resume_max_journal_entries
  Capacity,        \* outbound_queue_capacity
  MaxSequence,     \* bound on the sequences of one session
  MaxConnections,  \* bound on claimed connections
  MaxRestarts      \* bound on server restarts

ASSUME ResumeAssumption ==
  /\ IsFiniteSet(Clients)
  /\ Listing \in BOOLEAN
  /\ MaxSessions \in Nat \ {0}
  /\ MaxEntries \in Nat \ {0}
  /\ Capacity \in Nat \ {0}
  /\ MaxSequence \in Nat
  /\ MaxConnections \in Nat
  /\ MaxRestarts \in Nat

VARIABLES
  sessions,     \* ResumeState.sessions, a function on the known session ids
  older,        \* the order of last_activity: pairs of session ids, the older first
  connections,  \* one record for each claimed connection
  clients,      \* ClientState of each client
  instance      \* the server process, kernel.server_instance_id

vars == <<sessions, older, connections, clients, instance>>

Known == DOMAIN sessions
Connections == DOMAIN connections

(* `by' is the connection that allocated the sequence: two frames of one     *)
(* session with the same sequence are the same frame when it is the same.    *)
Frame(kind, seq, by) == [kind |-> kind, seq |-> seq, by |-> by]
NoFrame == Frame("none", 0, 0)

Session(t) == [journal |-> <<>>, last |-> 0, gen |-> 1, holder |-> t]

(* main: the connection's loop and teardown; writer: its writer task; taken: *)
(* takeover_rx has fired; up: the client still reads this connection; snap:  *)
(* the list the client asked for on it.                                      *)
Connection(s, gen, queue, counter) ==
  [session |-> s, gen |-> gen, main |-> "live", taken |-> FALSE, queue |-> queue,
   counter |-> counter, writer |-> "idle", item |-> NoFrame, wire |-> <<>>, up |-> TRUE,
   snap |-> "none"]

Client == [phase |-> "lost", connection |-> 0, session |-> 0, instance |-> 0, cursor |-> 0,
           by |-> 0, assembling |-> FALSE, gap |-> FALSE]

Init ==
  /\ sessions = <<>>
  /\ older = {}
  /\ connections = <<>>
  /\ clients = [c \in Clients |-> Client]
  /\ instance = 1

---------------------------------------------------------------------------
(* The store. *)

Among(S) == {p \in older : p[1] \in S /\ p[2] \in S}
Touch(s) == Among(Known \ {s}) \cup ((Known \ {s}) \X {s})

(* The frames after the cursor are a tail of the journal, as its sequences   *)
(* increase.                                                                 *)
After(journal, cursor) ==
  LET later == {i \in DOMAIN journal : journal[i].seq > cursor}
  IN SubSeq(journal, Len(journal) - Cardinality(later) + 1, Len(journal))

(* Mutant: a gap in front of the first retained frame is not noticed. *)
ReplayableTail(session, cursor) == cursor <= session.last

(* replay_from: every frame after the cursor, up to the last one issued, is  *)
(* still in the journal.                                                     *)
Replayable(session, cursor) ==
  LET replay == After(session.journal, cursor) IN
    /\ cursor <= session.last
    /\ Len(replay) = session.last - cursor
    /\ \A i \in DOMAIN replay : replay[i].seq = cursor + i

Leased(s) == sessions[s].holder # 0

(* The least recently active session without a lease, if there is one.       *)
Idlest == {s \in Known : ~Leased(s) /\ \A x \in Known : <<x, s>> \in older => Leased(x)}

(* make_room evicts it, and fails when there is none.                        *)
HasRoom == Cardinality(Known) < MaxSessions \/ Idlest # {}

(* Mutant: a full store takes another session. *)
EvictedNone == {}

Evicted == IF Cardinality(Known) < MaxSessions THEN {} ELSE Idlest

(* Mutant: frames of an older lease are recorded too. *)
RecordedAnyLease(s, gen, frame) ==
  IF s \in Known /\ frame.seq > sessions[s].last
  THEN LET j == Append(sessions[s].journal, frame)
       IN [sessions EXCEPT ![s].journal = IF Len(j) > MaxEntries THEN Tail(j) ELSE j,
                           ![s].last = frame.seq]
  ELSE sessions

(* record_frame: for the lease that sent it, once, within the entry budget. *)
Recorded(s, gen, frame) ==
  IF s \in Known /\ sessions[s].gen = gen /\ frame.seq > sessions[s].last
  THEN LET j == Append(sessions[s].journal, frame)
       IN [sessions EXCEPT ![s].journal = IF Len(j) > MaxEntries THEN Tail(j) ELSE j,
                           ![s].last = frame.seq]
  ELSE sessions

(* Mutant: whoever ends clears the lease. *)
ReleasedByAny(s, gen) ==
  IF s \in Known THEN [sessions EXCEPT ![s].holder = 0] ELSE sessions

(* Mutant: the lease of a connection that ended is kept. *)
ReleasedNever(s, gen) == sessions

(* release_lease: never the lease of a successor. *)
Released(s, gen) ==
  IF s \in Known /\ sessions[s].gen = gen THEN [sessions EXCEPT ![s].holder = 0] ELSE sessions

(* Journal entries age out, oldest first ... *)
Age(s) ==
  /\ sessions[s].journal # <<>>
  /\ sessions' = [sessions EXCEPT ![s].journal = Tail(@)]
  /\ UNCHANGED <<older, connections, clients, instance>>

(* ... and so do sessions nobody holds. *)
Prune(s) ==
  /\ s \in Idlest
  /\ sessions' = [x \in Known \ {s} |-> sessions[x]]
  /\ older' = Among(Known \ {s})
  /\ UNCHANGED <<connections, clients, instance>>

---------------------------------------------------------------------------
(* A connection is claimed. *)

(* claim_with_profile resumes when the client's instance, session and cursor *)
(* allow it and the replay fits the queue behind the Welcome.                *)
Resumable(c) ==
  LET m == clients[c] IN
    /\ m.session \in Known /\ m.instance = instance /\ m.cursor # 0
    /\ Replayable(sessions[m.session], m.cursor)
    /\ Len(After(sessions[m.session].journal, m.cursor)) <= Capacity - 1

(* Mutant: the sequences go on after the last one the old connection         *)
(* allocated, sent or not.                                                   *)
ResumePointIssued(s) ==
  IF Leased(s) THEN connections[sessions[s].holder].counter ELSE sessions[s].last

(* A resumed connection's sequences go on after the last one journaled. *)
ResumePoint(s) == sessions[s].last

Attach(c, t) == clients' = [clients EXCEPT ![c].phase = "connecting", ![c].connection = t]

ClaimResumed(c) ==
  LET t == Len(connections) + 1
      s == clients[c].session
      old == sessions[s]
  IN /\ Resumable(c)
     /\ sessions' = [sessions EXCEPT ![s].gen = @ + 1, ![s].holder = t]
     /\ older' = Touch(s)
     /\ connections' = Append(
          [i \in Connections |-> IF i = old.holder THEN [connections[i] EXCEPT !.taken = TRUE]
                                                   ELSE connections[i]],
          Connection(s, old.gen + 1,
                     <<Frame("resumed", 0, t)>> \o After(old.journal, clients[c].cursor),
                     ResumePoint(s)))
     /\ Attach(c, t)

ClaimFresh(c) ==
  LET t == Len(connections) + 1 IN
     /\ ~Resumable(c)
     /\ HasRoom
     /\ sessions' = [s \in (Known \ Evicted) \cup {t} |->
                       IF s = t THEN Session(t) ELSE sessions[s]]
     /\ older' = Among(Known \ Evicted) \cup ((Known \ Evicted) \X {t})
     /\ connections' = Append(connections, Connection(t, 1, <<Frame("fresh", 0, t)>>, 0))
     /\ Attach(c, t)

(* A client that lost its transport reconnects; refused for want of room it  *)
(* stays where it is and tries again.                                        *)
Claim(c) ==
  /\ clients[c].phase = "lost"
  /\ Len(connections) < MaxConnections
  /\ ClaimResumed(c) \/ ClaimFresh(c)
  /\ UNCHANGED instance

---------------------------------------------------------------------------
(* The connection's tasks. *)

Update(t, r) == connections' = [connections EXCEPT ![t] = r]

(* A sequenced frame of the operations forwarder or of a watch forwarder;    *)
(* what is queued for a writer that is gone reaches nobody.                  *)
Issue(t) ==
  LET k == connections[t] IN
  /\ k.main = "live" /\ k.writer # "stopped" /\ Len(k.queue) < Capacity
  /\ k.counter < MaxSequence
  /\ \E step \in {[kind |-> "update", from |-> k.snap, to |-> k.snap],
                  [kind |-> "begin", from |-> "wanted", to |-> "begun"],
                  [kind |-> "end", from |-> "begun", to |-> "sent"]} :
       /\ k.snap = step.from
       /\ Update(t, [k EXCEPT !.snap = step.to, !.counter = @ + 1,
                       !.queue = Append(@, Frame(step.kind, k.counter + 1, t))])
  /\ UNCHANGED <<sessions, older, clients, instance>>

(* overload_close, then the loop ends. *)
Overload(t) ==
  /\ connections[t].main = "live" /\ Len(connections[t].queue) = Capacity
  /\ Update(t, [connections[t] EXCEPT !.queue = <<Frame("close", 0, t)>>, !.main = "leaving"])
  /\ UNCHANGED <<sessions, older, clients, instance>>

(* An unsequenced P0 frame is taken before any frame but an earlier one of   *)
(* its kind, here the Welcome; a full queue refuses it.                      *)
Ahead(q, f) ==
  LET n == IF q # <<>> /\ Head(q).kind \in {"fresh", "resumed"} THEN 1 ELSE 0
  IN IF Len(q) = Capacity THEN q ELSE SubSeq(q, 1, n) \o <<f>> \o SubSeq(q, n + 1, Len(q))

(* The takeover arm: a Close overtakes what is queued, and the loop ends. *)
TakenOver(t) ==
  /\ connections[t].main = "live" /\ connections[t].taken
  /\ Update(t, [connections[t] EXCEPT !.queue = Ahead(@, Frame("close", 0, t)), !.main = "leaving"])
  /\ UNCHANGED <<sessions, older, clients, instance>>

(* The loop ends: the socket did, or the server drains. *)
Leave(t) ==
  /\ connections[t].main = "live"
  /\ Update(t, [connections[t] EXCEPT !.main = "leaving"])
  /\ UNCHANGED <<sessions, older, clients, instance>>

(* The forwarders are joined, the lease released and the scheduler closed;   *)
(* only then is the writer given its time to flush.                          *)
Release(t) ==
  LET k == connections[t] IN
  /\ k.main = "leaving"
  /\ Update(t, [k EXCEPT !.main = "draining"])
  /\ sessions' = Released(k.session, k.gen)
  /\ older' = IF sessions' # sessions THEN Touch(k.session) ELSE older
  /\ UNCHANGED <<clients, instance>>

Current(t) ==
  /\ connections[t].session \in Known
  /\ sessions[connections[t].session].gen = connections[t].gen

(* The writer takes a frame; a sequenced one of a lost lease is dropped. *)
Take(t) ==
  LET k == connections[t] IN
  /\ k.writer = "idle" /\ k.queue # <<>>
  /\ \/ /\ Head(k.queue).seq # 0 /\ ~Current(t)
        /\ Update(t, [k EXCEPT !.queue = Tail(@)])
     \/ /\ Head(k.queue).seq = 0 \/ Current(t)
        /\ Update(t, [k EXCEPT !.queue = Tail(@), !.item = Head(k.queue), !.writer = "sending"])
  /\ UNCHANGED <<sessions, older, clients, instance>>

(* The frame's bytes leave while the send is still being awaited ... *)
Transmit(t) ==
  LET k == connections[t] IN
  /\ k.writer = "sending" /\ k.up
  /\ Update(t, [k EXCEPT !.wire = Append(@, k.item), !.writer = "sent"])
  /\ UNCHANGED <<sessions, older, clients, instance>>

(* ... and when it completes the frame is journaled.  A Close ends the sink. *)
Record(t) ==
  LET k == connections[t] IN
  /\ k.writer = "sent"
  /\ sessions' = IF k.item.seq = 0 THEN sessions ELSE Recorded(k.session, k.gen, k.item)
  /\ older' = IF k.item.seq # 0 /\ Current(t) THEN Touch(k.session) ELSE older
  /\ Update(t, [k EXCEPT !.item = NoFrame,
                  !.writer = IF k.item.kind = "close" THEN "stopped" ELSE "idle"])
  /\ UNCHANGED <<clients, instance>>

(* The send fails, the flush times out, or the closed queue is empty. *)
StopWriter(t) ==
  LET k == connections[t] IN
  /\ \/ k.writer \in {"sending", "sent"} /\ ~k.up
     \/ k.writer # "stopped" /\ k.main = "draining"
  /\ Update(t, [k EXCEPT !.writer = "stopped", !.item = NoFrame, !.queue = <<>>])
  /\ UNCHANGED <<sessions, older, clients, instance>>

---------------------------------------------------------------------------
(* The client. *)

Detached(t) == [connections EXCEPT ![t].up = FALSE, ![t].wire = <<>>]

(* transport_lost: every projection goes, cursor and session stay. *)
Lose(c) ==
  /\ clients[c].phase \in {"connecting", "ready"}
  /\ clients' = [clients EXCEPT ![c].phase = "lost", ![c].assembling = FALSE]
  /\ connections' = Detached(clients[c].connection)
  /\ UNCHANGED <<sessions, older, instance>>

(* Welcome: a fresh session forgets the cursor; either way everything is     *)
(* rebuilt and the lists are asked for again.                                *)
ApplyWelcome(m, k, f) ==
  [m EXCEPT !.phase = "ready", !.session = k.session, !.instance = instance,
     !.cursor = IF f.kind = "fresh" THEN 0 ELSE @, !.by = IF f.kind = "fresh" THEN 0 ELSE @,
     !.assembling = FALSE]

(* A frame in sequence; the end of a snapshot without a beginning is a       *)
(* protocol error, which the app gives up on.                                *)
ApplySequenced(m, f) ==
  IF f.kind = "end" /\ ~m.assembling THEN [m EXCEPT !.phase = "failed"]
  ELSE [m EXCEPT !.cursor = f.seq, !.by = f.by,
          !.assembling = IF f.kind = "update" THEN @ ELSE f.kind = "begin"]

(* apply_at on the next frame.  A sequence below the expected one is only    *)
(* acknowledged again, one above it is a gap.                                *)
Receive(c) ==
  LET m == clients[c]
      k == connections[m.connection]
      f == Head(k.wire)
  IN /\ m.phase \in {"connecting", "ready"}
     /\ k.wire # <<>>
     /\ \/ /\ f.kind \in {"fresh", "resumed"}
           /\ clients' = [clients EXCEPT ![c] = ApplyWelcome(m, k, f)]
           /\ connections' = [connections EXCEPT ![m.connection].wire = Tail(@),
                                                 ![m.connection].snap = IF Listing THEN "wanted" ELSE @]
        \/ /\ f.kind = "close"
           /\ clients' = [clients EXCEPT ![c].phase = "lost", ![c].assembling = FALSE]
           /\ connections' = Detached(m.connection)
        \/ /\ f.seq # 0
           /\ clients' = [clients EXCEPT ![c] =
                IF f.seq = m.cursor + 1 THEN ApplySequenced(m, f)
                ELSE [m EXCEPT !.gap = @ \/ f.seq > m.cursor + 1]]
           /\ connections' = [connections EXCEPT ![m.connection].wire = Tail(@)]
     /\ UNCHANGED <<sessions, older, instance>>

(* The server process is restarted: the store is gone and every socket with  *)
(* it.                                                                       *)
Restart ==
  /\ instance <= MaxRestarts
  /\ instance' = instance + 1
  /\ sessions' = <<>>
  /\ older' = {}
  /\ connections' = [t \in Connections |->
       [connections[t] EXCEPT !.main = "draining", !.queue = <<>>, !.writer = "stopped",
          !.item = NoFrame, !.wire = <<>>, !.up = FALSE]]
  /\ clients' = [c \in Clients |->
       IF clients[c].phase \in {"connecting", "ready"}
       THEN [clients[c] EXCEPT !.phase = "lost", !.assembling = FALSE] ELSE clients[c]]

---------------------------------------------------------------------------
Serve(t) ==
  \/ Issue(t) \/ Overload(t) \/ TakenOver(t) \/ Leave(t) \/ Release(t)
  \/ Take(t) \/ Transmit(t) \/ Record(t) \/ StopWriter(t)

Next ==
  \/ \E s \in Known : Age(s) \/ Prune(s)
  \/ \E c \in Clients : Claim(c) \/ Lose(c) \/ Receive(c)
  \/ \E t \in Connections : Serve(t)
  \/ Restart

Spec == Init /\ [][Next]_vars

(* Tasks that can run are polled; a dead socket is noticed by either end; a  *)
(* client that lost its transport retries when its backoff is over.          *)
ServerGone(c) ==
  LET t == clients[c].connection IN
    t # 0 /\ connections[t].main = "draining" /\ connections[t].writer = "stopped"

Ending(t) ==
  \/ (~connections[t].up /\ Leave(t)) \/ TakenOver(t) \/ Release(t)

Writing(t) == Take(t) \/ Transmit(t) \/ Record(t) \/ StopWriter(t)

Fairness ==
  /\ \A c \in Clients : WF_vars(Claim(c)) /\ WF_vars(Receive(c)) /\ WF_vars(ServerGone(c) /\ Lose(c))
  /\ \A t \in 1 .. MaxConnections :
       WF_vars(t \in Connections /\ Ending(t)) /\ WF_vars(t \in Connections /\ Writing(t))

FairSpec == Spec /\ Fairness

---------------------------------------------------------------------------
(* Properties *)

Sequences == 0 .. MaxSequence
Numbers == 0 .. MaxConnections
FrameType == [kind : {"none", "fresh", "resumed", "update", "begin", "end", "close"},
              seq : Sequences, by : Numbers]

(* The shape of every variable; the store and every journal keep to their    *)
(* budgets.                                                                  *)
TypeOK ==
  /\ Known \subseteq 1 .. Len(connections)
  /\ Cardinality(Known) <= MaxSessions
  /\ \A s \in Known :
       /\ sessions[s] \in [journal : Seq(FrameType), last : Sequences, gen : Nat, holder : Numbers]
       /\ Len(sessions[s].journal) <= MaxEntries
  /\ older \subseteq Known \X Known
  /\ \A a, b \in Known : <<a, b>> \in older <=> a # b /\ <<b, a>> \notin older
  /\ Len(connections) <= MaxConnections
  /\ connections \in Seq([session : Numbers, gen : Nat,
       main : {"live", "leaving", "draining"}, taken : BOOLEAN, queue : Seq(FrameType),
       counter : Sequences, writer : {"idle", "sending", "sent", "stopped"}, item : FrameType,
       wire : Seq(FrameType), up : BOOLEAN, snap : {"none", "wanted", "begun", "sent"}])
  /\ clients \in [Clients -> [phase : {"lost", "connecting", "ready", "failed"},
       connection : Numbers, session : Numbers, instance : Nat, cursor : Sequences, by : Numbers,
       assembling : BOOLEAN, gap : BOOLEAN]]
  /\ instance \in 1 .. MaxRestarts + 1

(* Whatever is lost, taken over or still in a writer's hands, the frames a   *)
(* client is sent follow its cursor without a hole.                          *)
NoGap == \A c \in Clients : ~clients[c].gap

(* A sequence means one frame: what the journal would replay at a client's   *)
(* cursor is the very frame the client applied there.                        *)
JournalAgrees ==
  \A c \in Clients : clients[c].session \in Known =>
    \A i \in DOMAIN sessions[clients[c].session].journal :
      LET e == sessions[clients[c].session].journal[i]
      IN e.seq = clients[c].cursor => e.by = clients[c].by

(* The journal is an unbroken run that ends with the last frame recorded, so *)
(* a replay is complete or refused.                                          *)
JournalUnbroken ==
  \A s \in Known : LET j == sessions[s].journal IN
    \A i \in DOMAIN j : j[i].seq = sessions[s].last - Len(j) + i

(* What a resume replays is exactly what the client is missing. *)
JournalSound == JournalAgrees /\ JournalUnbroken

(* A connection that was not told it lost its lease has it: its session is   *)
(* neither evicted nor expired, and nobody else's frames are journaled in    *)
(* it.                                                                       *)
LeaseHeld ==
  \A t \in Connections : connections[t].main = "live" /\ ~connections[t].taken =>
    /\ Current(t)
    /\ sessions[connections[t].session].holder = t

(* Where each client is in the stream it reads, and who gave up. *)
Places ==
  [c \in Clients |-> [stream |-> clients[c].session, position |-> clients[c].cursor,
                      process |-> clients[c].instance]]
GivenUp == {c \in Clients : clients[c].phase = "failed"}

Followed == INSTANCE ResumedStreams
  WITH Readers <- Clients, Streams <- Numbers, place <- Places, process <- instance, quit <- GivenUp

(* Whatever is lost, taken over, evicted or restarted between a client and   *)
(* the server, the client reads a session's frames once and in order, or it  *)
(* starts over in a later session of its own.                                *)
ImplementsResumedStreams == Followed!Spec

(* resume.rs:3-6 "The journal is a pure optimization ... Nothing in this     *)
(* module may ever become a correctness dependency for clients": resuming    *)
(* never makes a client give up.                                             *)
ResumeIsHarmless == \A c \in Clients : clients[c].phase # "failed"

Exhausted == Len(connections) = MaxConnections

(* A client that lost its transport is welcomed again, although dead         *)
(* connections still hold leases and the store is full.                      *)
Reconnects ==
  \A c \in Clients :
    clients[c].phase = "lost" ~> clients[c].phase \in {"ready", "failed"} \/ Exhausted
=============================================================================
