----------------------------- MODULE PortForwards -----------------------------
(***************************************************************************)
(* The port-forward manager (k10s-server, port_forward.rs): starts, stops, *)
(* failing sessions and the gate of a context switch, over three kinds of  *)
(* lock: the manager's state, the publication gate and each session's own. *)
(*                                                                         *)
(* A step of a task lasts from one await to the next; a lock taken before  *)
(* an await is held over it.  Waiting for a free lock may suspend too (the *)
(* locks are tokio's, which yield when a task's budget is spent and hand a *)
(* released lock to the longest waiter), so each acquisition is a step.    *)
(***************************************************************************)
EXTENDS Naturals, FiniteSets

CONSTANTS
  Forwards,        \* start requests, each with the session it may create
  StopRequests,
  Transition,      \* the task of the context switch
  Nobody,
  Targets,         \* requested targets
  KeyOf,           \* what a target resolves to: the canonical target key
  ForwardContexts,
  FirstContext,    \* the context current when the server starts
  MaxForwards,     \* MAX_SESSIONS
  MaxTransitions   \* bound on the context switches

ASSUME ForwardAssumption ==
  /\ IsFiniteSet(Forwards)
  /\ Forwards \cap StopRequests = {}
  /\ Transition \notin Forwards \cup StopRequests
  /\ Nobody \notin Forwards \cup StopRequests \cup {Transition}
  /\ Targets # {} /\ FirstContext \in ForwardContexts
  /\ MaxForwards \in Nat \ {0} /\ MaxTransitions \in Nat

VARIABLES
  forwards,   \* SessionInner, by the request that created it
  tasks,      \* where each task stands
  committed,  \* ManagerState.current_context
  switches,   \* context switches begun (bounded)
  stateLock,  \* who holds the manager's state
  gate,       \* who holds the publication gate
  inner,      \* who holds each session
  revision,   \* the last revision a start allocated (PublicationClock)
  drafts      \* the revision whose event a start has not sent yet, 0 for none

locks == <<stateLock, gate, inner>>
clockVars == <<revision, drafts>>
forwardVars == <<forwards, tasks, committed, switches, locks, clockVars>>

Tasks == Forwards \cup StopRequests \cup {Transition}

(* `keyed': target_key is set; `loop': the accept loop runs; `handle': its    *)
(* JoinHandle is in accept_task; `pump': a connection is being copied.        *)
Forward ==
  [st : {"none", "Starting", "Active", "Stopping", "Stopped", "Failed"}, target : Targets,
   context : ForwardContexts, listed : BOOLEAN, keyed : BOOLEAN, cancelled : BOOLEAN,
   loop : BOOLEAN, handle : BOOLEAN, pump : BOOLEAN]
NoForward ==
  [st |-> "none", target |-> CHOOSE t \in Targets : TRUE, context |-> FirstContext,
   listed |-> FALSE, keyed |-> FALSE, cancelled |-> FALSE, loop |-> FALSE, handle |-> FALSE,
   pump |-> FALSE]

(* `abandoned': over like "done", but its row is left as it was. *)
StartPcs ==
  {"idle", "entering", "matching", "announcing", "resolving", "resolved", "checking", "binding",
   "activating", "failing", "drafting", "sending", "discarding", "dropping", "abandoned"}
EndPcs ==
  {"stopping", "announcing stop", "joining", "announcing end", "marking", "announcing mark",
   "announcing drain", "done"}

(* `at': the session a task works on; `seen': the epoch it observed is still  *)
(* the manager's; `took': it holds the accept loop's handle.                  *)
TaskState ==
  [pc : StartPcs \cup EndPcs, at : Tasks, seen : BOOLEAN, took : BOOLEAN, todo : SUBSET Forwards,
   joins : SUBSET [id : Forwards, took : BOOLEAN], to : ForwardContexts]
Task(w) == [pc |-> "idle", at |-> w, seen |-> FALSE, took |-> FALSE,
            todo |-> {}, joins |-> {}, to |-> FirstContext]

ForwardInit ==
  /\ forwards = [i \in Forwards |-> NoForward]
  /\ tasks = [w \in Tasks |-> Task(w)]
  /\ committed = FirstContext
  /\ switches = 0
  /\ stateLock = Nobody /\ gate = Nobody /\ inner = [i \in Forwards |-> Nobody]
  /\ revision = 0 /\ drafts = [w \in Forwards |-> 0]

Terminal == {"Stopped", "Failed"}
Listed == {i \in Forwards : forwards[i].listed}
Open(i) == forwards[i].st \notin Terminal

Goto(w, pc) == tasks' = [tasks EXCEPT ![w].pc = pc]
Done(w) == tasks' = [tasks EXCEPT ![w] = [Task(w) EXCEPT !.pc = "done"]]

(* Sessions whose retention is over, or that exceed the count bound. *)
Prunable == {gone \in SUBSET {i \in Listed : ~Open(i)} :
               Cardinality({i \in Listed : ~Open(i)} \ gone) <= MaxForwards}
Without(gone) == [i \in Forwards |-> IF i \in gone THEN [forwards[i] EXCEPT !.listed = FALSE]
                                                   ELSE forwards[i]]

NoneHeld == \A i \in Listed : inner[i] = Nobody

(* A revision is allocated, and later its event is sent. *)
Draft(w) == revision' = revision + 1 /\ drafts' = [drafts EXCEPT ![w] = revision + 1]
Sent(w) == revision' = revision /\ drafts' = [drafts EXCEPT ![w] = 0]

---------------------------------------------------------------------------
(* start_owned *)

Call(w, target, context) ==
  /\ tasks[w].pc = "idle"
  /\ forwards' = [forwards EXCEPT ![w] = [@ EXCEPT !.target = target, !.context = context]]
  /\ Goto(w, "entering")
  /\ UNCHANGED <<committed, switches, locks, clockVars>>

Enter(w) ==
  /\ tasks[w].pc = "entering" /\ stateLock = Nobody
  /\ \/ /\ forwards[w].context # committed
        /\ Done(w)
        /\ UNCHANGED stateLock
     \/ /\ forwards[w].context = committed
        /\ stateLock' = w
        /\ Goto(w, "matching")
  /\ UNCHANGED <<forwards, committed, switches, gate, inner, clockVars>>

(* An open session for the same request is focused instead. *)
Match(w) ==
  /\ tasks[w].pc = "matching" /\ NoneHeld
  /\ \/ /\ \E i \in Listed : Open(i) /\ forwards[i].target = forwards[w].target
        /\ stateLock' = Nobody
        /\ Done(w)
        /\ UNCHANGED forwards
     \/ /\ \A i \in Listed : Open(i) => forwards[i].target # forwards[w].target
        /\ \E gone \in Prunable : forwards' = Without(gone)
        /\ Goto(w, "announcing")
        /\ UNCHANGED stateLock
  /\ UNCHANGED <<committed, switches, gate, inner, clockVars>>

Announce(w) ==
  /\ tasks[w].pc = "announcing" /\ gate = Nobody
  /\ forwards' = [forwards EXCEPT ![w] = [@ EXCEPT !.st = "Starting", !.listed = TRUE]]
  /\ tasks' = [tasks EXCEPT ![w] = [@ EXCEPT !.pc = "resolving", !.seen = TRUE]]
  /\ stateLock' = Nobody
  /\ UNCHANGED <<committed, switches, gate, inner, clockVars>>

Resolve(w) ==
  /\ tasks[w].pc = "resolving"
  /\ \/ forwards[w].cancelled /\ Done(w)
     \/ Goto(w, "resolved")
     \/ Goto(w, "failing")
  /\ UNCHANGED <<forwards, committed, switches, locks, clockVars>>

(* The request is cancelled while it waits; a session it created goes with it, *)
(* at once if the start still holds the state.                                 *)
CancelStart(w) ==
  /\ \/ /\ tasks[w].pc = "entering"
        /\ Done(w)
        /\ UNCHANGED <<forwards, stateLock>>
     \/ /\ tasks[w].pc \in {"resolving", "resolved"}
        /\ forwards' = [forwards EXCEPT ![w].cancelled = TRUE]
        /\ Goto(w, "discarding")
        /\ UNCHANGED stateLock
     \/ /\ tasks[w].pc = "binding"
        /\ forwards' = [forwards EXCEPT ![w] = [@ EXCEPT !.listed = FALSE, !.cancelled = TRUE]]
        /\ stateLock' = Nobody
        /\ Done(w)
  /\ UNCHANGED <<committed, switches, gate, inner, clockVars>>

(* discard_start *)
DiscardLocks(w) ==
  /\ tasks[w].pc = "discarding" /\ stateLock = Nobody
  /\ stateLock' = w
  /\ Goto(w, "dropping")
  /\ UNCHANGED <<forwards, committed, switches, gate, inner, clockVars>>

(* Mutant: the row of a discarded start is left to retention. *)
DiscardForgets(w) ==
  /\ tasks[w].pc = "dropping" /\ inner[w] = Nobody
  /\ stateLock' = Nobody
  /\ Done(w)
  /\ UNCHANGED <<forwards, committed, switches, gate, inner, clockVars>>

Discard(w) ==
  /\ tasks[w].pc = "dropping" /\ inner[w] = Nobody
  /\ forwards' = [forwards EXCEPT ![w].listed = @ /\ forwards[w].st # "Starting"]
  /\ stateLock' = Nobody
  /\ Done(w)
  /\ UNCHANGED <<committed, switches, gate, inner, clockVars>>

Recheck(w) ==
  /\ tasks[w].pc = "resolved" /\ stateLock = Nobody
  /\ stateLock' = w
  /\ Goto(w, "checking")
  /\ UNCHANGED <<forwards, committed, switches, gate, inner, clockVars>>

(* Either dimension mismatching means a switch came in between. *)
SameEpoch(w) == tasks[w].seen /\ forwards[w].context = committed

(* Mutant: only the requested target is compared, which Match did before. *)
SameRequestTaken(w) ==
  \E i \in Listed : Open(i) /\ forwards[i].keyed /\ forwards[i].target = forwards[w].target

(* find_key_in_state *)
KeyTaken(w) ==
  \E i \in Listed : /\ Open(i) /\ forwards[i].keyed
                    /\ KeyOf[forwards[i].target] = KeyOf[forwards[w].target]

(* Mutant: the bound is tested after it has been passed. *)
TooManyLate(w) == Cardinality({i \in Listed \ {w} : Open(i)}) > MaxForwards

TooMany(w) == Cardinality({i \in Listed \ {w} : Open(i)}) >= MaxForwards

(* With the state held: the epoch, the canonical duplicate, the bound and the *)
(* bind, which needs no await.  A failed bind takes the row with it; a bound   *)
(* address that cannot be read ends the start and leaves the row.              *)
Check(w) ==
  /\ tasks[w].pc = "checking" /\ NoneHeld
  /\ \E gone \in Prunable :
       \/ /\ ~SameEpoch(w)
          /\ forwards' = Without(gone)
          /\ stateLock' = Nobody
          /\ Goto(w, "failing")
       \/ /\ SameEpoch(w)
          /\ forwards' = Without(gone \cup {w})
          /\ stateLock' = Nobody
          /\ Done(w)
       \/ /\ SameEpoch(w) /\ ~KeyTaken(w) /\ ~TooMany(w)
          /\ forwards' = Without(gone)
          /\ \/ forwards[w].cancelled /\ stateLock' = Nobody /\ Done(w)
             \/ ~forwards[w].cancelled /\ stateLock' = Nobody /\ Goto(w, "abandoned")
             \/ ~forwards[w].cancelled /\ UNCHANGED stateLock /\ Goto(w, "binding")
  /\ UNCHANGED <<committed, switches, gate, inner, clockVars>>

(* The listener has its address; its Active revision is allocated under the gate. *)
AwaitGate(w) ==
  /\ tasks[w].pc = "binding" /\ gate = Nobody
  /\ gate' = w
  /\ Draft(w)
  /\ Goto(w, "activating")
  /\ UNCHANGED <<forwards, committed, switches, stateLock, inner>>

(* Mutant: Active is published without a last look at the session. *)
StillStartingUnchecked(w) == TRUE

StillStarting(w) == forwards[w].st = "Starting" /\ ~forwards[w].cancelled

Activate(w) ==
  /\ tasks[w].pc = "activating" /\ inner[w] = Nobody
  /\ forwards' = IF StillStarting(w)
                 THEN [forwards EXCEPT ![w] = [@ EXCEPT !.st = "Active", !.keyed = TRUE,
                                                        !.loop = TRUE, !.handle = TRUE]]
                 ELSE forwards
  /\ Sent(w)
  /\ gate' = Nobody /\ stateLock' = Nobody
  /\ Done(w)
  /\ UNCHANGED <<committed, switches, inner>>

(* fail_start: the session, then the gate, then the state to send the event. *)
FailStart(w) ==
  /\ tasks[w].pc = "failing" /\ inner[w] = Nobody
  /\ \/ /\ forwards[w].st # "Starting"
        /\ Done(w)
        /\ UNCHANGED <<forwards, inner>>
     \/ /\ forwards[w].st = "Starting"
        /\ forwards' = [forwards EXCEPT ![w].st = "Failed"]
        /\ inner' = [inner EXCEPT ![w] = w]
        /\ Goto(w, "drafting")
  /\ UNCHANGED <<committed, switches, stateLock, gate, clockVars>>

(* Mutant: the gate is left before the event is sent. *)
DraftLeavesGate(w) == Nobody

GateOfDraft(w) == w

DraftFailure(w) ==
  /\ tasks[w].pc = "drafting" /\ gate = Nobody
  /\ gate' = GateOfDraft(w)
  /\ Draft(w)
  /\ inner' = [inner EXCEPT ![w] = Nobody]
  /\ Goto(w, "sending")
  /\ UNCHANGED <<forwards, committed, switches, stateLock>>

SendFailure(w) ==
  /\ tasks[w].pc = "sending" /\ stateLock = Nobody
  /\ gate' = IF gate = w THEN Nobody ELSE gate
  /\ Sent(w)
  /\ Done(w)
  /\ UNCHANGED <<forwards, committed, switches, stateLock, inner>>

---------------------------------------------------------------------------
(* Ending a session: Stop, a failing session's finalizer, the transition *)

(* Mutant: the token is not cancelled. *)
CancelForgotten(f) == [f EXCEPT !.handle = FALSE]

(* Mutant: the handle is left for others to join too. *)
CancelKeepsHandle(f) == [f EXCEPT !.cancelled = TRUE]

(* Cancel the session and take over its accept loop. *)
Cancel(f) == [f EXCEPT !.cancelled = TRUE, !.handle = FALSE]

Ending(f) == [Cancel(f) EXCEPT !.st = "Stopping"]

(* Revision and event under the gate, while the session is held. *)
PublishHeld(w, from, to) ==
  /\ tasks[w].pc = from /\ gate = Nobody
  /\ inner' = [inner EXCEPT ![tasks[w].at] = Nobody]
  /\ Goto(w, to)
  /\ UNCHANGED <<forwards, committed, switches, stateLock, gate, clockVars>>

(* join_session_tasks *)
Joined(i, took) == (took => ~forwards[i].loop) /\ ~forwards[i].pump

(* stop_owned: a look into the map, *)
AskStop(s, i) ==
  /\ tasks[s].pc = "idle" /\ stateLock = Nobody
  /\ forwards[i].st # "none"
  /\ IF forwards[i].listed
     THEN tasks' = [tasks EXCEPT ![s] = [@ EXCEPT !.pc = "stopping", !.at = i]]
     ELSE Done(s)
  /\ UNCHANGED <<forwards, committed, switches, locks, clockVars>>

(* then the session alone. *)
Stop(s) ==
  LET i == tasks[s].at
  IN /\ tasks[s].pc = "stopping" /\ inner[i] = Nobody
     /\ IF forwards[i].st \in {"Starting", "Active"}
        THEN /\ forwards' = [forwards EXCEPT ![i] = Ending(@)]
             /\ inner' = [inner EXCEPT ![i] = s]
             /\ tasks' = [tasks EXCEPT ![s] = [@ EXCEPT !.pc = "announcing stop",
                                                     !.took = forwards[i].handle]]
        ELSE Done(s) /\ UNCHANGED <<forwards, inner>>
     /\ UNCHANGED <<committed, switches, stateLock, gate, clockVars>>

AnnounceStop(s) == PublishHeld(s, "announcing stop", "joining")

(* Stop and the finalizer finish alike, in Stopped or in Failed. *)
Verdict(w) == IF w \in StopRequests THEN "Stopped" ELSE "Failed"

Finish(w) ==
  LET i == tasks[w].at
  IN /\ tasks[w].pc = "joining" /\ Joined(i, tasks[w].took) /\ inner[i] = Nobody
     /\ IF forwards[i].st = "Stopping"
        THEN /\ forwards' = [forwards EXCEPT ![i].st = Verdict(w)]
             /\ inner' = [inner EXCEPT ![i] = w]
             /\ Goto(w, "announcing end")
        ELSE Done(w) /\ UNCHANGED <<forwards, inner>>
     /\ UNCHANGED <<committed, switches, stateLock, gate, clockVars>>

AnnounceEnd(w) == w # Transition /\ PublishHeld(w, "announcing end", "done")

(* record_open_failure, at the threshold: the pump that saw the failure ends, *)
(* and a finalizer runs under the id of the request, which is over.           *)
OpenFails(i) ==
  /\ forwards[i].pump /\ inner[i] = Nobody /\ forwards[i].st = "Active"
  /\ forwards' = [forwards EXCEPT ![i] = [Ending(@) EXCEPT !.pump = FALSE]]
  /\ tasks' = [tasks EXCEPT ![i] = [Task(i) EXCEPT !.pc = "joining", !.took = forwards[i].handle]]
  /\ UNCHANGED <<committed, switches, locks, clockVars>>

---------------------------------------------------------------------------
(* The accept loop and its connections *)

Accept(i) ==
  /\ forwards[i].loop /\ ~forwards[i].pump /\ inner[i] = Nobody
  /\ forwards' = [forwards EXCEPT ![i].pump = TRUE]
  /\ UNCHANGED <<tasks, committed, switches, locks, clockVars>>

(* On cancellation, or on an error of the listener. *)
LoopEnds(i) ==
  /\ forwards[i].loop
  /\ forwards' = [forwards EXCEPT ![i].loop = FALSE]
  /\ UNCHANGED <<tasks, committed, switches, locks, clockVars>>

PumpEnds(i) ==
  /\ forwards[i].pump /\ inner[i] = Nobody
  /\ forwards' = [forwards EXCEPT ![i].pump = FALSE]
  /\ UNCHANGED <<tasks, committed, switches, locks, clockVars>>

---------------------------------------------------------------------------
(* transition_context: the state is held from the epoch to the commit *)

BeginTransition(to) ==
  /\ tasks[Transition].pc = "idle" /\ stateLock = Nobody /\ switches < MaxTransitions
  /\ stateLock' = Transition
  /\ switches' = switches + 1
  /\ tasks' = [w \in Tasks |->
       IF w = Transition
       THEN [Task(w) EXCEPT !.pc = "marking", !.todo = Listed, !.to = to]
       ELSE [tasks[w] EXCEPT !.seen = FALSE]]
  /\ UNCHANGED <<forwards, committed, gate, inner, clockVars>>

(* Stopping is set before the gate is awaited; *)
MarkSession(i) ==
  LET t == tasks[Transition]
  IN /\ t.pc = "marking" /\ i \in t.todo /\ inner[i] = Nobody
     /\ IF Open(i)
        THEN /\ forwards' = [forwards EXCEPT ![i].st = "Stopping"]
             /\ inner' = [inner EXCEPT ![i] = Transition]
             /\ tasks' = [tasks EXCEPT ![Transition] =
                  [t EXCEPT !.pc = "announcing mark", !.at = i, !.todo = t.todo \ {i}]]
        ELSE /\ tasks' = [tasks EXCEPT ![Transition] = [t EXCEPT !.todo = t.todo \ {i}]]
             /\ UNCHANGED <<forwards, inner>>
     /\ UNCHANGED <<committed, switches, stateLock, gate, clockVars>>

(* only with the gate is the session cancelled and its accept loop taken over. *)
AnnounceMark ==
  LET t == tasks[Transition]
      i == t.at
  IN /\ t.pc = "announcing mark" /\ gate = Nobody
     /\ forwards' = [forwards EXCEPT ![i] = Cancel(@)]
     /\ inner' = [inner EXCEPT ![i] = Nobody]
     /\ tasks' = [tasks EXCEPT ![Transition] =
          [t EXCEPT !.pc = "marking",
                    !.joins = t.joins \cup {[id |-> i, took |-> forwards[i].handle]}]]
     /\ UNCHANGED <<committed, switches, stateLock, gate, clockVars>>

Drain(j) ==
  LET t == tasks[Transition]
      next == [t EXCEPT !.at = j.id, !.joins = t.joins \ {j}]
  IN /\ t.pc = "marking" /\ t.todo = {} /\ j \in t.joins
     /\ Joined(j.id, j.took) /\ inner[j.id] = Nobody
     /\ IF forwards[j.id].st = "Stopping"
        THEN /\ forwards' = [forwards EXCEPT ![j.id].st = "Stopped"]
             /\ inner' = [inner EXCEPT ![j.id] = Transition]
             /\ tasks' = [tasks EXCEPT ![Transition] = [next EXCEPT !.pc = "announcing drain"]]
        ELSE /\ tasks' = [tasks EXCEPT ![Transition] = next]
             /\ UNCHANGED <<forwards, inner>>
     /\ UNCHANGED <<committed, switches, stateLock, gate, clockVars>>

AnnounceDrain == PublishHeld(Transition, "announcing drain", "marking")

(* The backend's switch commits or fails; the gate opens either way. *)
Commit(ok) ==
  /\ tasks[Transition].pc = "marking"
  /\ tasks[Transition].todo = {} /\ tasks[Transition].joins = {}
  /\ committed' = IF ok THEN tasks[Transition].to ELSE committed
  /\ stateLock' = Nobody
  /\ tasks' = [tasks EXCEPT ![Transition] = Task(Transition)]
  /\ UNCHANGED <<forwards, switches, gate, inner, clockVars>>

---------------------------------------------------------------------------
StartStep(w) ==
  \/ Enter(w) \/ Match(w) \/ Announce(w) \/ Resolve(w) \/ DiscardLocks(w) \/ Discard(w)
  \/ Recheck(w) \/ Check(w) \/ AwaitGate(w) \/ Activate(w)
  \/ FailStart(w) \/ DraftFailure(w) \/ SendFailure(w)

EndStep(w) == Finish(w) \/ AnnounceEnd(w)

StopStep(s) == Stop(s) \/ AnnounceStop(s) \/ EndStep(s)

TransitionStep ==
  \/ \E i \in Forwards : MarkSession(i)
  \/ AnnounceMark
  \/ \E j \in tasks[Transition].joins : Drain(j)
  \/ AnnounceDrain
  \/ \E ok \in BOOLEAN : Commit(ok)

ForwardNext ==
  \/ \E w \in Forwards, t \in Targets, c \in ForwardContexts : Call(w, t, c)
  \/ \E w \in Forwards : StartStep(w) \/ CancelStart(w) \/ EndStep(w)
  \/ \E s \in StopRequests, i \in Forwards : AskStop(s, i)
  \/ \E s \in StopRequests : StopStep(s)
  \/ \E i \in Forwards : OpenFails(i) \/ Accept(i) \/ LoopEnds(i) \/ PumpEnds(i)
  \/ \E to \in ForwardContexts : BeginTransition(to)
  \/ TransitionStep

(* Ready tasks get their turn, and the cluster answers or closes what it is *)
(* asked; clients and connections may stop coming.  The select of an accept *)
(* loop picks at random, so a cancelled one ends under load too.            *)
ForwardFairness ==
  /\ \A w \in Forwards : WF_forwardVars(StartStep(w) \/ EndStep(w))
  /\ \A s \in StopRequests : WF_forwardVars(StopStep(s))
  /\ \A i \in Forwards :
       /\ WF_forwardVars(forwards[i].cancelled /\ LoopEnds(i))
       /\ WF_forwardVars(forwards[i].cancelled /\ PumpEnds(i))
  /\ WF_forwardVars(TransitionStep)

ForwardSpec == ForwardInit /\ [][ForwardNext]_forwardVars /\ ForwardFairness

---------------------------------------------------------------------------
ForwardTypeOK ==
  /\ forwards \in [Forwards -> Forward]
  /\ \A i \in Forwards : forwards[i].handle => forwards[i].keyed /\ ~forwards[i].cancelled
  /\ tasks \in [Tasks -> TaskState]
  /\ committed \in ForwardContexts
  /\ {stateLock, gate} \subseteq Tasks \cup {Nobody}
  /\ inner \in [Forwards -> Tasks \cup {Nobody}]
  /\ revision \in Nat /\ drafts \in [Forwards -> Nat]

(* The transition has set i to Stopping and waits for the gate. *)
BeingMarked(i) == tasks[Transition].pc = "announcing mark" /\ tasks[Transition].at = i

(* A listener that will accept another connection belongs to a listed session  *)
(* which is Active, or which the transition is marking and has not cancelled   *)
(* yet; but for a transition under way, its context is the committed one; and  *)
(* there is one per canonical target.                                          *)
ListenersBelong ==
  \A i \in Forwards :
    forwards[i].loop /\ ~forwards[i].cancelled
      => /\ forwards[i].listed
         /\ \/ forwards[i].st = "Active"
            \/ forwards[i].st = "Stopping" /\ BeingMarked(i)
         /\ stateLock # Transition => forwards[i].context = committed
         /\ \A j \in Forwards \ {i} :
              forwards[j].loop /\ ~forwards[j].cancelled
                => KeyOf[forwards[j].target] # KeyOf[forwards[i].target]

(* No more than MAX_SESSIONS open sessions have or had a listener. *)
ForwardsBounded ==
  Cardinality({i \in Listed : Open(i) /\ forwards[i].keyed}) <= MaxForwards

(* A start that is over leaves no row that says Starting, but for the exit    *)
(* that cannot read its listener's address: that row has no listener, and is   *)
(* left for a stop or a switch to end.                                         *)
NoOrphanStart ==
  \A i \in Forwards :
    forwards[i].listed /\ forwards[i].st = "Starting"
      => /\ tasks[i].pc # "done"
         /\ tasks[i].pc = "abandoned"
              => ~forwards[i].loop /\ ~forwards[i].keyed /\ ~forwards[i].cancelled

(* A session ends for good: nothing, however late, changes its verdict. *)
VerdictsStand ==
  \A i \in Forwards : forwards[i].st \in Terminal => forwards'[i].st = forwards[i].st

(* No event is sent before that of an earlier revision. *)
SendsInOrder ==
  \A w \in Forwards :
    drafts[w] # 0 /\ drafts'[w] = 0
      => \A v \in Forwards : drafts[v] # 0 => drafts[w] <= drafts[v]

(* What subscribers see of the sessions: events in the order of their       *)
(* revisions (PublicationClock's comment), and no verdict taken back.       *)
PublicationsOrdered == [][VerdictsStand /\ SendsInOrder]_forwardVars

(* What the holder of a lock, or of several, waits for. *)
HoldersAwaited(w) ==
  CASE tasks[w].pc \in {"entering", "resolved", "discarding", "sending"} -> {stateLock}
    [] tasks[w].pc \in {"announcing", "binding", "drafting", "announcing stop",
                        "announcing end", "announcing mark", "announcing drain"} -> {gate}
    [] tasks[w].pc \in {"dropping", "activating", "failing", "stopping"} -> {inner[tasks[w].at]}
    [] tasks[w].pc \in {"matching", "checking"} -> {inner[i] : i \in Listed}
    [] tasks[w].pc = "marking" ->
         {inner[i] : i \in IF tasks[w].todo # {} THEN tasks[w].todo
                           ELSE {j.id : j \in tasks[w].joins}}
    [] OTHER -> {}

Holders == ({stateLock, gate} \cup {inner[i] : i \in Forwards}) \ {Nobody}

(* Tasks that wait for each other in a circle. *)
LockCycle ==
  \E S \in SUBSET Holders : S # {} /\ \A w \in S : HoldersAwaited(w) \cap S # {}

(* The locks a task needs next are free, and what it joins has ended. *)
GoesOn(w) ==
  LET t == tasks[w] IN
  CASE t.pc = "joining" -> Joined(t.at, t.took) /\ inner[t.at] = Nobody
    [] t.pc \in {"matching", "checking"} -> NoneHeld
    [] t.pc = "marking" /\ t.todo = {} ->
         t.joins = {} \/ \E j \in t.joins : Joined(j.id, j.took) /\ inner[j.id] = Nobody
    [] t.pc \in {"idle", "resolving", "done", "abandoned"} -> t.pc = "resolving"
    [] OTHER -> Nobody \in HoldersAwaited(w)

(* The loop and the connection of a session that is cancelled come to an end. *)
WindsUp(i) ==
  forwards[i].cancelled /\ (forwards[i].loop \/ (forwards[i].pump /\ inner[i] = Nobody))

Resting == \A w \in Tasks : tasks[w].pc \in {"idle", "done", "abandoned"}

(* Whenever nothing goes on although not everything is over, tasks wait for *)
(* each other's locks in a circle: no start, stop, finalizer or switch ever *)
(* waits for a lock whose holder waits for anything but a lock.             *)
HangsAreCircles ==
  (\A w \in Tasks : ~GoesOn(w)) /\ (\A i \in Forwards : ~WindsUp(i)) /\ ~Resting => LockCycle

(* However starts, stops, failures and a switch interleave over the three  *)
(* kinds of lock.                                                          *)
ForwardsConsistent == ListenersBelong /\ ForwardsBounded /\ NoOrphanStart /\ HangsAreCircles

(* A start request is answered, if only with an error ("the manager-owned *)
(* task either rolls back before publication or returns the committed     *)
(* Active snapshot").                                                     *)
StartsAnswered ==
  \A w \in Forwards : tasks[w].pc = "entering" ~> tasks[w].pc \in {"done", "abandoned"}

(* Nothing but such a circle keeps a start, a stop, a finalizer or the gate *)
(* of a switch from ending (calls are bounded, so all of them end).         *)
OnlyLockCyclesHang == <>[](Resting \/ LockCycle)
=============================================================================
