---------------------------- MODULE ServerLifecycle ----------------------------
(***************************************************************************)
(* The life of the sockets a server accepts, and the end of the server:    *)
(* admission and its connection budgets, the control session around its    *)
(* requests, the log socket, and the shutdown that drains all of them      *)
(* (k10s-server: lifecycle.rs, control.rs, streams.rs).                    *)
(*                                                                         *)
(* A step is what a task does between two awaits, on the current-thread    *)
(* runtime of the shipped programs.  A deadline may pass at any time; a    *)
(* send whose peer does not read never ends.  What a request asks is left  *)
(* out, and with it the mutation gate, which closes as `drain' is fired    *)
(* and lets nothing but a bootstrap request pass.                          *)
(***************************************************************************)
EXTENDS Naturals, FiniteSets

CONSTANTS
  Sessions,         \* control sockets
  Streams,          \* log sockets
  RequestIds,
  Slots,            \* bound on the request tasks of a session, of any id
  RequestCapacity,  \* outbound_queue_capacity, which also bounds `requests'
  UnauthSlots,      \* max_unauthenticated_connections
  AuthSlots,        \* max_authenticated_connections
  StreamSlots,      \* max_stream_connections
  NoTask            \* no task in a slot, no slot for an id

ASSUME LifecycleAssumption ==
  /\ Sessions \cap Streams = {} /\ NoTask \notin Slots
  /\ NoTask \notin [id : RequestIds, cancelled : BOOLEAN, reused : BOOLEAN, deaf : BOOLEAN]
  /\ RequestCapacity \in Nat \ {0}
  /\ {UnauthSlots, AuthSlots, StreamSlots} \subseteq Nat

VARIABLES
  readiness,    \* Readiness
  startup,      \* the task that announces readiness after startup_readiness_delay
  barrier,      \* AdmissionState.closed
  signals,      \* the cancelled tokens of DrainSignals
  coordinator,  \* the graceful-shutdown future
  phase,        \* the task of every socket, "none" for no socket
  permits,      \* the semaphore permits it holds
  noticed,      \* sessions in their drain window
  requests,     \* per session: the task whose token an id names
  tasks,        \* per session: its running request tasks
  doomed        \* sessions aborted but not yet dropped

socketVars == <<phase, permits, noticed, requests, tasks, doomed>>
serverVars == <<readiness, startup, barrier, signals, coordinator>>
lifecycleVars == <<serverVars, socketVars>>

Sockets == Sessions \cup Streams

Phases == {"none", "pending", "hello", "refusing", "subscribing", "serving",
           "leaving", "flushing", "redeeming", "sending", "streaming", "parting"}

(* `reused': dispatched under the id of a task that was still running.        *)
(* `deaf': a context switch, or a start, stop or list of port forwards.  It   *)
(* awaits the locks of their manager outside any select on its token, for     *)
(* good when these are in a circle (PortForwards).                            *)
RequestTask ==
  [id : RequestIds, cancelled : BOOLEAN, reused : BOOLEAN, deaf : BOOLEAN]

LifecycleInit ==
  /\ readiness = "starting" /\ startup = "waiting"
  /\ barrier = FALSE /\ signals = {}
  /\ coordinator = "serving"
  /\ phase = [x \in Sockets |-> "none"]
  /\ permits = [x \in Sockets |-> {}]
  /\ noticed = {} /\ doomed = {}
  /\ requests = [s \in Sessions |-> [id \in RequestIds |-> NoTask]]
  /\ tasks = [s \in Sessions |-> [n \in Slots |-> NoTask]]

---------------------------------------------------------------------------
(* Admission *)

Holders(permit) == {x \in Sockets : permit \in permits[x]}

(* Admission.live, whose guards are in the upgrade callback and then in the   *)
(* socket's task; and the tasks that TaskTracker counts.                      *)
Live == {x \in Sockets : phase[x] # "none"}
Tracked == {x \in Live : phase[x] # "pending"}

(* Mutant: admission looks at the published readiness only. *)
AdmitsReady == readiness = "ready"

Admits == ~barrier /\ readiness = "ready"

UpgradeSession(s) ==
  /\ phase[s] = "none" /\ Admits
  /\ Cardinality(Holders("unauthenticated")) < UnauthSlots
  /\ phase' = [phase EXCEPT ![s] = "pending"]
  /\ permits' = [permits EXCEPT ![s] = {"unauthenticated"}]

UpgradeStream(l) ==
  /\ phase[l] = "none" /\ Admits
  /\ Cardinality(Holders("stream")) < StreamSlots
  /\ Cardinality(Holders("unauthenticated")) < UnauthSlots
  /\ phase' = [phase EXCEPT ![l] = "pending"]
  /\ permits' = [permits EXCEPT ![l] = {"unauthenticated", "stream"}]

Upgrade(x) ==
  /\ UpgradeSession(x) \/ UpgradeStream(x)
  /\ UNCHANGED <<noticed, requests, tasks, doomed>>

(* A socket's task is over: what it owned is dropped. *)
Gone(x) ==
  /\ phase' = [phase EXCEPT ![x] = "none"]
  /\ permits' = [permits EXCEPT ![x] = {}]
  /\ noticed' = noticed \ {x} /\ doomed' = doomed \ {x}
  /\ requests' = [s \in Sessions |-> IF s = x THEN [id \in RequestIds |-> NoTask] ELSE requests[s]]
  /\ tasks' = [s \in Sessions |-> IF s = x THEN [n \in Slots |-> NoTask] ELSE tasks[s]]

Turn(x, from, next) ==
  /\ phase[x] = from /\ x \notin doomed
  /\ phase' = [phase EXCEPT ![x] = next]
  /\ UNCHANGED <<permits, noticed, requests, tasks, doomed>>

(* The upgrade completes and its callback spawns the task, or it fails. *)
Converts(x) ==
  \/ Turn(x, "pending", IF x \in Streams /\ signals # {} THEN "parting" ELSE "hello")
  \/ phase[x] = "pending" /\ Gone(x)

---------------------------------------------------------------------------
(* Control sessions *)

(* No valid first frame, no authentication, no free slot, or a signal. *)
HelloFails(s) == s \in Sessions /\ Turn(s, "hello", "refusing")

(* Authenticated; claimed, or refused by the resume store. *)
Authenticates(s) ==
  /\ s \in Sessions /\ phase[s] = "hello" /\ s \notin doomed
  /\ signals = {}
  /\ Cardinality(Holders("authenticated")) < AuthSlots
  /\ permits' = [permits EXCEPT ![s] = {"authenticated"}]
  /\ \E next \in {"subscribing", "refusing"} : phase' = [phase EXCEPT ![s] = next]
  /\ UNCHANGED <<noticed, requests, tasks, doomed>>

(* The loop awaits kernel.subscribe, for itself or for a Subscribe frame. *)
Subscribed(s) == Turn(s, "subscribing", "serving")

Serving(s) == phase[s] = "serving" /\ s \notin doomed

(* The loop's select is biased: it reads a frame when no signal is unseen. *)
Reads(s) == Serving(s) /\ "force" \notin signals /\ ("drain" \in signals => s \in noticed)

Notices(s) ==
  /\ Serving(s) /\ signals = {"drain"} /\ s \notin noticed
  /\ noticed' = noticed \cup {s}
  /\ UNCHANGED <<phase, permits, requests, tasks, doomed>>

(* Mutant: a request does not register its token. *)
DispatchUnregistered(s, id) ==
  \E n \in Slots, deaf \in BOOLEAN :
    /\ tasks[s][n] = NoTask
    /\ tasks' = [tasks EXCEPT ![s][n] =
                   [id |-> id, cancelled |-> FALSE, reused |-> FALSE, deaf |-> deaf]]
    /\ UNCHANGED requests

(* A request that the gate lets pass.  Its id may still name a running task,  *)
(* which is cancelled; it is `reused' too when an older one survives.         *)
Dispatches(s, id) ==
  \E n \in Slots, deaf \in BOOLEAN :
    LET before == {m \in Slots : tasks[s][m] # NoTask /\ tasks[s][m].id = id}
    IN /\ tasks[s][n] = NoTask
       /\ tasks' = [tasks EXCEPT ![s] =
            [m \in Slots |->
               CASE m = n -> [id |-> id, cancelled |-> FALSE, reused |-> before # {},
                              deaf |-> deaf]
                 [] m = requests[s][id] -> [@[m] EXCEPT !.cancelled = TRUE]
                 [] OTHER -> @[m]]]
       /\ requests' = [requests EXCEPT ![s][id] = n]

RequestArrives(s, id) ==
  /\ Reads(s)
  /\ Cardinality({i \in RequestIds : requests[s][i] # NoTask}) < RequestCapacity
  /\ Dispatches(s, id)
  /\ UNCHANGED <<phase, permits, noticed, doomed>>

CancelArrives(s, id) ==
  /\ Reads(s) /\ requests[s][id] # NoTask
  /\ tasks' = [tasks EXCEPT ![s][requests[s][id]].cancelled = TRUE]
  /\ UNCHANGED <<phase, permits, noticed, requests, doomed>>

SubscribeArrives(s) == Reads(s) /\ Turn(s, "serving", "subscribing")

(* A task ends with its answer and forgets its id, whatever that names by now. *)
RequestEnds(s, n) ==
  /\ tasks[s][n] # NoTask
  /\ tasks' = [tasks EXCEPT ![s][n] = NoTask]
  /\ requests' = [requests EXCEPT ![s][tasks[s][n].id] = NoTask]
  /\ UNCHANGED <<phase, permits, noticed, doomed>>

(* What the scheduler must let happen of that: the token wins its select. *)
CancelSeen(s, n) ==
  /\ phase[s] = "leaving"
  /\ tasks[s][n] # NoTask /\ tasks[s][n].cancelled /\ ~tasks[s][n].deaf
  /\ RequestEnds(s, n)


CancelsRequests(s) ==
  tasks' = [tasks EXCEPT ![s] =
    [n \in Slots |-> IF \E id \in RequestIds : requests[s][id] = n
                     THEN [@[n] EXCEPT !.cancelled = TRUE] ELSE @[n]]]

(* The loop ends: takeover, overload, a lost peer, the window or the force.   *)
SessionLeaves(s) ==
  /\ Serving(s)
  /\ phase' = [phase EXCEPT ![s] = "leaving"]
  /\ CancelsRequests(s)
  /\ UNCHANGED <<permits, noticed, requests, doomed>>

(* What the scheduler must let happen of that: the window and the force. *)
SessionMustLeave(s) == (s \in noticed \/ "force" \in signals) /\ SessionLeaves(s)

RequestsJoined(s) ==
  /\ phase[s] = "leaving" /\ s \notin doomed
  /\ \A n \in Slots : tasks[s][n] = NoTask
  /\ phase' = [phase EXCEPT ![s] = "flushing"]
  /\ permits' = [permits EXCEPT ![s] = {}]
  /\ UNCHANGED <<noticed, requests, tasks, doomed>>

(* finish_writer: two flush windows, then the writer is aborted. *)
WriterJoined(s) ==
  /\ phase[s] \in {"refusing", "flushing"} /\ s \notin doomed
  /\ Gone(s)

AbortSeen(s) == s \in doomed /\ Gone(s)

---------------------------------------------------------------------------
(* Log sockets: nothing but the loop observes the signals. *)

StreamHello(l) ==
  \/ Turn(l, "hello", "parting")
  \/ phase[l] = "hello" /\ Gone(l)
  \/ /\ phase[l] = "hello"
     /\ permits' = [permits EXCEPT ![l] = @ \ {"unauthenticated"}]
     /\ \E next \in {"redeeming", "parting"} : phase' = [phase EXCEPT ![l] = next]
     /\ UNCHANGED <<noticed, requests, tasks, doomed>>

(* The ticket is redeemed or not; the answer is a send. *)
Redeems(l) == \E next \in {"sending", "parting"} : Turn(l, "redeeming", next)

(* One turn of the loop: a signal, a chunk, a violation, or an overload, whose *)
(* farewell is bounded by graceful_flush_timeout.                             *)
StreamForced(l) == "force" \in signals /\ phase[l] = "streaming" /\ Gone(l)
StreamDrained(l) == signals = {"drain"} /\ Turn(l, "streaming", "parting")
StreamServes(l) ==
  /\ signals = {}
  /\ \/ \E next \in {"sending", "parting", "flushing"} : Turn(l, "streaming", next)
     \/ phase[l] = "streaming" /\ Gone(l)

(* A send ends when the peer reads, and fails when the peer is gone. *)
PeerReads(l) == Turn(l, "sending", "streaming") \/ (phase[l] = "parting" /\ Gone(l))
PeerLost(l) == phase[l] \in {"sending", "parting"} /\ Gone(l)
FarewellEnds(l) == phase[l] = "flushing" /\ Gone(l)

---------------------------------------------------------------------------
(* Start and shutdown *)

(* The startup task's select takes either branch when both are ready: it may *)
(* publish Ready after the barrier has closed.                                *)
StartupEnds ==
  /\ startup = "waiting" /\ startup' = "done"
  /\ \/ readiness' = "ready"
     \/ barrier /\ UNCHANGED readiness
  /\ UNCHANGED <<barrier, signals, coordinator>>

ShutdownBegins ==
  /\ coordinator = "serving" /\ coordinator' = "closing"
  /\ readiness' = "draining" /\ barrier' = TRUE
  /\ signals' = signals \cup {"drain"}
  /\ UNCHANGED <<startup, socketVars>>

(* The port forwards are joined, which has no deadline, and the probes' grace *)
(* is over.                                                                   *)
ForwardsJoined ==
  /\ coordinator = "closing" /\ coordinator' = "draining"
  /\ UNCHANGED <<readiness, startup, barrier, signals, socketVars>>

(* Mutant: only the tracker is asked, and it cannot see a pending upgrade. *)
TrackerIsEmpty == Tracked = {}

Drained == Tracked = {} /\ Live = {}

DrainCompletes ==
  /\ coordinator = "draining" /\ Drained
  /\ coordinator' = "drained"
  /\ UNCHANGED <<readiness, startup, barrier, signals, socketVars>>

DrainExpires ==
  /\ coordinator = "draining" /\ coordinator' = "unwinding"
  /\ signals' = signals \cup {"force"}
  /\ UNCHANGED <<readiness, startup, barrier, socketVars>>

(* abort_all: the sessions' handles are tracked, those of the streams are not. *)
Aborts == doomed' = doomed \cup (Tracked \cap Sessions)

UnwindEnds ==
  /\ coordinator = "unwinding" /\ coordinator' = "aborting"
  /\ Aborts
  /\ UNCHANGED <<readiness, startup, barrier, signals, phase, permits, noticed, requests, tasks>>

AbortsAgain ==
  /\ coordinator = "aborting" /\ Aborts
  /\ UNCHANGED <<readiness, startup, barrier, signals, coordinator,
                 phase, permits, noticed, requests, tasks>>

(* Mutant: the sweep goes on until nothing is left. *)
AbortsUntilGone ==
  /\ coordinator = "aborting" /\ Drained
  /\ coordinator' = "forceClosed"
  /\ UNCHANGED <<readiness, startup, barrier, signals, socketVars>>

(* Everything is gone, or the second window is over. *)
AbortEnds ==
  /\ coordinator = "aborting" /\ coordinator' = "forceClosed"
  /\ UNCHANGED <<readiness, startup, barrier, signals, socketVars>>

---------------------------------------------------------------------------
SessionTurn(s) == Converts(s) \/ HelloFails(s) \/ SessionMustLeave(s) \/ Notices(s)
  \/ (\E n \in Slots : CancelSeen(s, n)) \/ RequestsJoined(s)
  \/ WriterJoined(s) \/ AbortSeen(s)

StreamTurn(l) == Converts(l) \/ StreamHello(l) \/ StreamForced(l) \/ StreamDrained(l)
  \/ FarewellEnds(l)

SocketStep ==
  /\ \/ \E x \in Sockets : Upgrade(x)
     \/ \E s \in Sessions :
          \/ SessionTurn(s) \/ Authenticates(s) \/ Subscribed(s)
          \/ SubscribeArrives(s) \/ SessionLeaves(s)
          \/ \E id \in RequestIds : RequestArrives(s, id) \/ CancelArrives(s, id)
          \/ \E n \in Slots : RequestEnds(s, n)
     \/ \E l \in Streams :
          StreamTurn(l) \/ Redeems(l) \/ StreamServes(l) \/ PeerReads(l) \/ PeerLost(l)
  /\ UNCHANGED serverVars

(* What follows the join of the port forwards measures against deadlines. *)
DrainStep == DrainCompletes \/ DrainExpires \/ UnwindEnds \/ AbortsAgain \/ AbortEnds

ShutdownStep == ForwardsJoined \/ DrainStep

LifecycleNext ==
  SocketStep \/ ShutdownStep \/ ShutdownBegins \/ (StartupEnds /\ UNCHANGED socketVars)

(* The drain's and the sockets' own deadlines pass and what can run is polled; *)
(* a request whose select sees its token ends.  Nothing obliges a peer to      *)
(* read, the kernel to answer, the port forwards to be joined, or a request    *)
(* that is not cancelled, or is deaf to it, to end.                            *)
LifecycleFairness ==
  /\ WF_lifecycleVars(DrainStep)
  /\ \A s \in Sessions : WF_lifecycleVars(SessionTurn(s) /\ UNCHANGED serverVars)
  /\ \A l \in Streams : WF_lifecycleVars(StreamTurn(l) /\ UNCHANGED serverVars)

LifecycleSpec == LifecycleInit /\ [][LifecycleNext]_lifecycleVars /\ LifecycleFairness

---------------------------------------------------------------------------
LifecycleTypeOK ==
  /\ readiness \in {"starting", "ready", "draining"}
  /\ startup \in {"waiting", "done"} /\ barrier \in BOOLEAN
  /\ signals \in {{}, {"drain"}, {"drain", "force"}}
  /\ coordinator \in {"serving", "closing", "draining", "unwinding", "aborting",
                      "drained", "forceClosed"}
  /\ phase \in [Sockets -> Phases]
  /\ permits \in [Sockets -> SUBSET {"unauthenticated", "authenticated", "stream"}]
  /\ noticed \subseteq Sessions /\ doomed \subseteq Sessions
  /\ requests \in [Sessions -> [RequestIds -> Slots \cup {NoTask}]]
  /\ tasks \in [Sessions -> [Slots -> RequestTask \cup {NoTask}]]

(* Once the server reports that it drained, no socket lives, and none that   *)
(* was being upgraded meanwhile comes to life (Admission's comment).          *)
DrainVerdictSound == coordinator = "drained" => Live = {}

(* CancelRequest and the end of a session reach every request task: its id    *)
(* names its token for as long as it runs, unless the client used the id of a *)
(* request that was still running.                                            *)
RequestsReachable ==
  \A s \in Sessions, n \in Slots :
    tasks[s][n] # NoTask =>
      \/ tasks[s][n].cancelled \/ tasks[s][n].reused
      \/ requests[s][tasks[s][n].id] = n

LifecycleConsistent == DrainVerdictSound /\ RequestsReachable

(* Waits for its peer, or for the kernel to redeem its ticket: it watches no  *)
(* signal, and its task's handle was never tracked.                           *)
Unattended(x) == x \in Streams /\ phase[x] \in {"redeeming", "sending", "parting"}

(* Runs on in a session that leaves: its id lost its token to another task,   *)
(* or it waits for the manager of the port forwards.                          *)
Unreached(task) == task # NoTask /\ (task.deaf \/ (task.reused /\ ~task.cancelled))

=============================================================================
