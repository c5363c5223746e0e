----------------------------- MODULE ForwardProofs -----------------------------
(* Proofs about PortForwards: that listeners belong to listed sessions of the *)
(* committed context, one per endpoint and within the bound, that events      *)
(* leave in the order of their revisions, and that what hangs, hangs in a     *)
(* circle of locks, for every number of requests; and about ForwardFeed: that *)
(* a client is never shown what was not published.                            *)
EXTENDS MCForwarding, FiniteSetTheorems, TLAPS

---------------------------------------------------------------------------
(* The inductive invariant *)

LockPcs ==
  {"matching", "announcing", "dropping", "checking", "binding", "activating", "marking",
   "announcing mark", "announcing drain"}
GatePcs == {"activating", "sending"}
SessionPcs ==
  {"stopping", "announcing stop", "joining", "announcing end", "announcing mark",
   "announcing drain"}
BoundPcs == {"binding", "activating"}
MarkPcs == {"marking", "announcing mark", "announcing drain"}
EarlyPcs == {"idle", "entering", "matching", "announcing"}
OpenPcs ==
  {"resolving", "resolved", "checking", "binding", "activating", "failing", "discarding",
   "dropping", "abandoned"}

(* Who holds the manager's state and the gate, by where the tasks stand, and *)
(* an allocated revision is sent under the gate it was allocated under.      *)
LocksHeld ==
  /\ \A w \in Tasks : tasks[w].pc \in LockPcs => stateLock = w
  /\ \A w \in Tasks : tasks[w].pc \in GatePcs => gate = w
  /\ \A w \in Tasks : tasks[w].pc \in SessionPcs => tasks[w].at \in Forwards
  /\ \A w \in Forwards : tasks[w].at = w
  /\ \A w \in Forwards : drafts[w] # 0 => gate = w

(* What a session f can be while the task of its request is at pc. *)
Sound(f, pc) ==
  /\ f.st = "Active" => f.listed /\ f.keyed /\ ~f.cancelled /\ pc \notin StartPcs
  /\ f.handle => f.keyed /\ ~f.cancelled
  /\ f.listed => f.st # "none"
  /\ pc \in StartPcs => ~f.loop /\ ~f.keyed
  /\ pc \in EarlyPcs => f.st = "none" /\ ~f.cancelled
  /\ f.st = "Starting" =>
       (pc = "done" /\ ~f.listed) \/ (pc \in OpenPcs /\ f.listed)
  /\ f.listed /\ f.st = "Starting" /\ f.cancelled => pc \in {"discarding", "dropping"}

SessionsSound == \A i \in Forwards : Sound(forwards[i], tasks[i].pc)

(* What Check found still holds when the listener becomes Active. *)
CheckedStill ==
  \A w \in Forwards :
    tasks[w].pc \in BoundPcs =>
      forwards[w].context = committed /\ ~KeyTaken(w) /\ ~TooMany(w)

IsActive(i) == forwards[i].st = "Active"

ActivesApart ==
  /\ \A i \in Forwards : IsActive(i) /\ stateLock # Transition => forwards[i].context = committed
  /\ \A i, j \in Forwards :
       IsActive(i) /\ IsActive(j) /\ i # j => KeyOf[forwards[i].target] # KeyOf[forwards[j].target]

LiveStates == {"none", "Starting", "Active"}

(* The transition comes to every Active session before it commits, and only to *)
(* sessions that began; the one it marks is Stopping or over.                  *)
MarkReachesAll ==
  /\ tasks[Transition].pc \in MarkPcs =>
       \A i \in Forwards : IsActive(i) => i \in tasks[Transition].todo
  /\ \A i \in tasks[Transition].todo : forwards[i].st # "none"
  /\ \A i \in Forwards : BeingMarked(i) => forwards[i].st \notin LiveStates

ForwardInv ==
  /\ ForwardTypeOK /\ LocksHeld /\ SessionsSound
  /\ CheckedStill /\ ActivesApart /\ MarkReachesAll /\ ForwardsBounded

---------------------------------------------------------------------------
(* Steps that open nothing: no session is listed, keyed or made Active *)

(* Session i is no more than it was. *)
NoMore(i) ==
  /\ forwards'[i].listed /\ forwards'[i].st \notin Terminal
       => /\ forwards[i].listed /\ forwards[i].st \notin Terminal
          /\ forwards'[i].target = forwards[i].target
          /\ forwards'[i].context = forwards[i].context
  /\ forwards'[i].keyed => forwards[i].keyed
  /\ forwards'[i].st = "Active" => forwards[i].st = "Active"
  /\ forwards'[i].st = "none" => forwards[i].st = "none"
  /\ forwards'[i].st = "Starting" => forwards[i].st = "Starting"

(* A request is past its check only if it was, for what it was. *)
NoNewBind(i) ==
  tasks'[i].pc \in BoundPcs =>
    /\ tasks[i].pc \in BoundPcs
    /\ forwards'[i].target = forwards[i].target
    /\ forwards'[i].context = forwards[i].context

OpenOthers(w) == {i \in Listed \ {w} : Open(i)}
KeyedOpen == {i \in Listed : Open(i) /\ forwards[i].keyed}

LEMMA ForwardSetsFinite ==
  ASSUME NEW S \in SUBSET Forwards
  PROVE  IsFiniteSet(S) /\ Cardinality(S) \in Nat
  BY ForwardAssumption, FS_Subset, FS_CardinalityType

LEMMA FewerForwards ==
  ASSUME NEW S \in SUBSET Forwards, NEW T \in SUBSET S
  PROVE  Cardinality(T) <= Cardinality(S)
  BY ForwardSetsFinite, FS_Subset

(* What Check found of w still holds. *)
LEMMA StillFree ==
  ASSUME NEW w \in Forwards, \A i \in Forwards : NoMore(i),
         forwards'[w].target = forwards[w].target,
         ~KeyTaken(w), ~TooMany(w)
  PROVE  ~KeyTaken(w)' /\ ~TooMany(w)'
<1>1. ~KeyTaken(w)'
  BY DEF KeyTaken, Listed, Open, NoMore
<1>2. ~TooMany(w)'
  <2>1. OpenOthers(w)' \subseteq OpenOthers(w)
    BY DEF OpenOthers, Listed, Open, NoMore
  <2>2. OpenOthers(w) \subseteq Forwards
    BY DEF OpenOthers, Listed
  <2>3. PICK S : S = OpenOthers(w)'
    OBVIOUS
  <2>4. /\ Cardinality(S) <= Cardinality(OpenOthers(w))
        /\ Cardinality(S) \in Nat /\ Cardinality(OpenOthers(w)) \in Nat
    BY <2>1, <2>2, <2>3, FewerForwards, ForwardSetsFinite
  <2>5. ~(Cardinality(OpenOthers(w)) >= MaxForwards)
    BY DEF TooMany, OpenOthers
  <2>6. ~(Cardinality(OpenOthers(w)') >= MaxForwards)
    BY <2>3, <2>4, <2>5, ForwardAssumption
  <2> QED
    BY <2>6 DEF TooMany, OpenOthers
<1> QED
  BY <1>1, <1>2

LEMMA CalmChecked ==
  ASSUME ForwardInv, committed' = committed,
         \A i \in Forwards : NoMore(i) /\ NoNewBind(i)
  PROVE  CheckedStill'
<1> SUFFICES ASSUME NEW w \in Forwards, tasks'[w].pc \in BoundPcs
             PROVE  forwards'[w].context = committed /\ ~KeyTaken(w)' /\ ~TooMany(w)'
  BY DEF CheckedStill
<1>1. /\ tasks[w].pc \in BoundPcs
      /\ forwards'[w].target = forwards[w].target
      /\ forwards'[w].context = forwards[w].context
  BY DEF NoNewBind
<1>2. forwards[w].context = committed /\ ~KeyTaken(w) /\ ~TooMany(w)
  BY <1>1 DEF ForwardInv, CheckedStill
<1> QED
  BY <1>1, <1>2, StillFree

(* No session becomes open and keyed. *)
LEMMA BoundedIf ==
  ASSUME ForwardInv, KeyedOpen' \subseteq KeyedOpen
  PROVE  ForwardsBounded'
<1>2. KeyedOpen \subseteq Forwards
  BY DEF KeyedOpen, Listed
<1>3. PICK S : S = KeyedOpen'
  OBVIOUS
<1>4. /\ Cardinality(S) <= Cardinality(KeyedOpen)
      /\ Cardinality(S) \in Nat /\ Cardinality(KeyedOpen) \in Nat
  BY <1>2, <1>3, FewerForwards, ForwardSetsFinite
<1>5. Cardinality(KeyedOpen) <= MaxForwards
  BY DEF ForwardInv, ForwardsBounded, KeyedOpen
<1>6. Cardinality(KeyedOpen') <= MaxForwards
  BY <1>3, <1>4, <1>5, ForwardAssumption
<1> QED
  BY <1>6 DEF ForwardsBounded, KeyedOpen

LEMMA CalmBounded ==
  ASSUME ForwardInv, \A i \in Forwards : NoMore(i)
  PROVE  ForwardsBounded'
<1>1. KeyedOpen' \subseteq KeyedOpen
  BY DEF KeyedOpen, Listed, Open, NoMore
<1> QED
  BY <1>1, BoundedIf

LEMMA CalmActives ==
  ASSUME ForwardInv, SessionsSound', committed' = committed,
         stateLock = Transition => stateLock' = Transition,
         \A i \in Forwards : NoMore(i)
  PROVE  ActivesApart'
<1>1. \A i \in Forwards :
        IsActive(i)' => /\ IsActive(i)
                        /\ forwards'[i].target = forwards[i].target
                        /\ forwards'[i].context = forwards[i].context
  BY DEF SessionsSound, Sound, IsActive, NoMore, Terminal
<1> QED
  BY <1>1 DEF ForwardInv, ActivesApart

(* The transition's own step takes out of its list only what is not Active. *)
LEMMA CalmMarks ==
  ASSUME ForwardInv, \A i \in Forwards : NoMore(i),
         tasks'[Transition].pc \in MarkPcs => tasks[Transition].pc \in MarkPcs,
         \A i \in tasks[Transition].todo :
           i \in tasks'[Transition].todo \/ forwards'[i].st # "Active",
         tasks[Transition].todo \subseteq Forwards,
         tasks'[Transition].todo \subseteq tasks[Transition].todo,
         \A i \in Forwards : BeingMarked(i)' => BeingMarked(i) \/ forwards'[i].st = "Stopping"
  PROVE  MarkReachesAll'
  BY DEF ForwardInv, MarkReachesAll, IsActive, NoMore, LiveStates

LEMMA CalmKeeps ==
  ASSUME ForwardInv, ForwardTypeOK', LocksHeld', SessionsSound', committed' = committed,
         stateLock = Transition => stateLock' = Transition,
         \A i \in Forwards : NoMore(i) /\ NoNewBind(i),
         tasks'[Transition].pc \in MarkPcs => tasks[Transition].pc \in MarkPcs,
         \A i \in tasks[Transition].todo :
           i \in tasks'[Transition].todo \/ forwards'[i].st # "Active",
         tasks[Transition].todo \subseteq Forwards,
         tasks'[Transition].todo \subseteq tasks[Transition].todo,
         \A i \in Forwards : BeingMarked(i)' => BeingMarked(i) \/ forwards'[i].st = "Stopping"
  PROVE  ForwardInv'
<1>1. CheckedStill' /\ ActivesApart' /\ MarkReachesAll' /\ ForwardsBounded'
  BY CalmChecked, CalmActives, CalmMarks, CalmBounded
<1> QED
  BY <1>1 DEF ForwardInv

---------------------------------------------------------------------------
(* One task moves *)

LEMMA TaskKinds ==
  /\ Forwards \subseteq Tasks /\ StopRequests \subseteq Tasks /\ Transition \in Tasks
  /\ Nobody \notin Tasks /\ Transition \notin Forwards /\ Transition \notin StopRequests
  /\ \A s \in StopRequests : s \notin Forwards
  BY ForwardAssumption DEF Tasks

LEMMA LocksKeep ==
  ASSUME ForwardTypeOK, LocksHeld, NEW w \in Tasks, NEW r \in TaskState,
         tasks' = [tasks EXCEPT ![w] = r],
         stateLock' = stateLock \/ stateLock \in {Nobody, w},
         gate' = gate \/ gate \in {Nobody, w},
         r.pc \in LockPcs => stateLock' = w,
         r.pc \in GatePcs => gate' = w,
         r.pc \in SessionPcs => r.at \in Forwards,
         w \in Forwards => r.at = w,
         \A v \in Forwards :
           drafts'[v] # 0 => \/ drafts[v] # 0 /\ (v # w \/ gate' = gate)
                             \/ v = w /\ gate' = w
  PROVE  LocksHeld'
<1>1. \A v \in Tasks : tasks'[v] = IF v = w THEN r ELSE tasks[v]
  BY DEF ForwardTypeOK
<1>2. \A v \in Tasks : tasks'[v].pc \in LockPcs => stateLock' = v
  BY <1>1, TaskKinds DEF LocksHeld
<1>3. \A v \in Tasks : tasks'[v].pc \in GatePcs => gate' = v
  BY <1>1, TaskKinds DEF LocksHeld
<1>4. \A v \in Forwards : drafts'[v] # 0 => gate' = v
  BY TaskKinds DEF LocksHeld
<1> QED
  BY <1>1, <1>2, <1>3, <1>4, TaskKinds DEF LocksHeld

(* A task only moves on, or is over. *)
LEMMA GotoMoves ==
  ASSUME ForwardTypeOK, NEW w \in Tasks, NEW pc \in StartPcs \cup EndPcs, Goto(w, pc)
  PROVE  \E r \in TaskState :
           /\ tasks' = [tasks EXCEPT ![w] = r]
           /\ r.pc = pc /\ r.at = tasks[w].at /\ r.todo = tasks[w].todo
<1>1. tasks[w] \in TaskState
  BY DEF ForwardTypeOK
<1>2. PICK r : r = [tasks[w] EXCEPT !.pc = pc]
  OBVIOUS
<1>3. r \in TaskState /\ r.pc = pc /\ r.at = tasks[w].at /\ r.todo = tasks[w].todo
  BY <1>1, <1>2 DEF TaskState
<1>4. tasks' = [tasks EXCEPT ![w] = r]
  BY <1>2 DEF Goto
<1> QED
  BY <1>3, <1>4

LEMMA FreshTask ==
  ASSUME NEW w \in Tasks
  PROVE  /\ Task(w) \in TaskState /\ Task(w).pc = "idle" /\ Task(w).at = w /\ Task(w).todo = {}
<1>1. {} \in SUBSET Forwards /\ {} \in SUBSET [id : Forwards, took : BOOLEAN]
  OBVIOUS
<1>2. FirstContext \in ForwardContexts /\ "idle" \in StartPcs \cup EndPcs
  BY ForwardAssumption DEF StartPcs
<1> QED
  BY <1>1, <1>2 DEF Task, TaskState

LEMMA DoneMoves ==
  ASSUME NEW w \in Tasks, Done(w)
  PROVE  \E r \in TaskState :
           tasks' = [tasks EXCEPT ![w] = r] /\ r.pc = "done" /\ r.at = w /\ r.todo = {}
<1>1. PICK t \in TaskState : t = Task(w) /\ t.at = w /\ t.todo = {}
  BY FreshTask
<1>2. PICK r : r = [t EXCEPT !.pc = "done"]
  OBVIOUS
<1>3. r \in TaskState /\ r.pc = "done" /\ r.at = w /\ r.todo = {}
  BY <1>1, <1>2 DEF TaskState, EndPcs
<1>4. tasks' = [tasks EXCEPT ![w] = r]
  BY <1>1, <1>2 DEF Done
<1> QED
  BY <1>3, <1>4

(* How a step in which task w moves to r may treat the locks and revisions. *)
Orderly(w, r) ==
  /\ tasks' = [tasks EXCEPT ![w] = r]
  /\ stateLock' = stateLock \/ (stateLock \in {Nobody, w} /\ stateLock' \in {Nobody, w})
  /\ gate' = gate \/ (gate \in {Nobody, w} /\ gate' \in {Nobody, w})
  /\ inner' \in [Forwards -> Tasks \cup {Nobody}]
  /\ revision' \in Nat /\ drafts' \in [Forwards -> Nat]
  /\ \A v \in Forwards :
       drafts'[v] # 0 => \/ drafts[v] # 0 /\ (v # w \/ gate' = gate)
                         \/ v = w /\ gate' = w
  /\ r.pc \in LockPcs => stateLock' = w
  /\ r.pc \in GatePcs => gate' = w
  /\ r.pc \in SessionPcs => r.at \in Forwards
  /\ w \in Forwards => r.at = w
  /\ committed' = committed

LEMMA StepTypes ==
  ASSUME ForwardInv, NEW w \in Tasks, NEW r \in TaskState, Orderly(w, r),
         forwards' \in [Forwards -> Forward],
         \A i \in Forwards : Sound(forwards'[i], IF i = w THEN r.pc ELSE tasks[i].pc)
  PROVE  /\ ForwardTypeOK' /\ LocksHeld' /\ SessionsSound'
         /\ \A v \in Tasks : tasks'[v] = IF v = w THEN r ELSE tasks[v]
<1>1. \A v \in Tasks : tasks'[v] = IF v = w THEN r ELSE tasks[v]
  BY DEF Orderly, ForwardInv, ForwardTypeOK
<1>2. SessionsSound'
  BY <1>1, TaskKinds DEF SessionsSound
<1>3. ForwardTypeOK'
  <2>1. \A i \in Forwards :
          forwards'[i].handle => forwards'[i].keyed /\ ~forwards'[i].cancelled
    BY <1>2 DEF SessionsSound, Sound
  <2>2. tasks' \in [Tasks -> TaskState]
    BY DEF Orderly, ForwardInv, ForwardTypeOK
  <2>3. stateLock' \in Tasks \cup {Nobody} /\ gate' \in Tasks \cup {Nobody}
    BY DEF Orderly, ForwardInv, ForwardTypeOK
  <2>4. committed' \in ForwardContexts
    BY DEF Orderly, ForwardInv, ForwardTypeOK
  <2>5. inner' \in [Forwards -> Tasks \cup {Nobody}] /\ revision' \in Nat
        /\ drafts' \in [Forwards -> Nat]
    BY DEF Orderly
  <2> QED
    BY <2>1, <2>2, <2>3, <2>4, <2>5 DEF ForwardTypeOK
<1>4. LocksHeld'
  BY LocksKeep DEF Orderly, ForwardInv
<1> QED
  BY <1>1, <1>2, <1>3, <1>4

(* A step that opens nothing keeps the invariant. *)
LEMMA StepKeeps ==
  ASSUME ForwardInv, NEW w \in Tasks, NEW r \in TaskState, Orderly(w, r),
         forwards' \in [Forwards -> Forward],
         stateLock = Transition => stateLock' = Transition,
         \A i \in Forwards : NoMore(i),
         \A i \in Forwards : Sound(forwards'[i], IF i = w THEN r.pc ELSE tasks[i].pc),
         \A i \in Forwards :
           \/ i = w /\ r.pc \notin BoundPcs
           \/ /\ forwards'[i].target = forwards[i].target
              /\ forwards'[i].context = forwards[i].context,
         r.pc \in BoundPcs => tasks[w].pc \in BoundPcs,
         w = Transition /\ r.pc \in MarkPcs => tasks[w].pc \in MarkPcs,
         \A j \in tasks[w].todo :
           w = Transition => j \in r.todo \/ forwards'[j].st # "Active",
         w = Transition => r.todo \subseteq tasks[w].todo,
         w = Transition /\ r.pc = "announcing mark" => forwards'[r.at].st = "Stopping"
  PROVE  ForwardInv'
<1>1. /\ ForwardTypeOK' /\ LocksHeld' /\ SessionsSound'
      /\ \A v \in Tasks : tasks'[v] = IF v = w THEN r ELSE tasks[v]
  BY StepTypes
<1>5. \A i \in Forwards : NoNewBind(i)
  BY <1>1, TaskKinds DEF NoNewBind
<1>6. /\ tasks'[Transition].pc \in MarkPcs => tasks[Transition].pc \in MarkPcs
      /\ \A i \in tasks[Transition].todo :
           i \in tasks'[Transition].todo \/ forwards'[i].st # "Active"
      /\ tasks'[Transition].todo \subseteq tasks[Transition].todo
      /\ tasks[Transition].todo \subseteq Forwards
  BY <1>1, TaskKinds DEF ForwardInv, ForwardTypeOK, TaskState
<1>7. \A i \in Forwards : BeingMarked(i)' => BeingMarked(i) \/ forwards'[i].st = "Stopping"
  BY <1>1, TaskKinds DEF BeingMarked
<1> QED
  BY <1>1, <1>5, <1>6, <1>7, CalmKeeps DEF Orderly

(* A step in which task w moves to r, and session i becomes f, which is no more *)
(* than the session was.                                                        *)
OneMoves(w, r, i, f) ==
  /\ Orderly(w, r)
  /\ forwards' = [forwards EXCEPT ![i] = f]
  /\ f.target = forwards[i].target /\ f.context = forwards[i].context
  /\ f.listed => forwards[i].listed
  /\ f.keyed => forwards[i].keyed
  /\ f.st \notin Terminal => forwards[i].st \notin Terminal
  /\ f.st = "Active" => forwards[i].st = "Active"
  /\ f.st = "none" => forwards[i].st = "none"
  /\ f.st = "Starting" => forwards[i].st = "Starting"
  /\ stateLock = Transition => stateLock' = Transition
  /\ i = w => Sound(f, r.pc)
  /\ i # w => Sound(f, tasks[i].pc)
  /\ w \in Forwards /\ w # i => Sound(forwards[w], r.pc)
  /\ r.pc \in BoundPcs => tasks[w].pc \in BoundPcs
  /\ w = Transition /\ r.pc \in MarkPcs => tasks[w].pc \in MarkPcs
  /\ \A j \in tasks[w].todo :
       w = Transition => j \in r.todo \/ forwards'[j].st # "Active"
  /\ w = Transition => r.todo \subseteq tasks[w].todo
  /\ w = Transition /\ r.pc = "announcing mark" => r.at = i /\ f.st = "Stopping"

LEMMA OneKeeps ==
  ASSUME ForwardInv, NEW w \in Tasks, NEW r \in TaskState, NEW i \in Forwards, NEW f \in Forward,
         OneMoves(w, r, i, f)
  PROVE  ForwardInv'
<1> USE DEF OneMoves
<1>1. forwards' \in [Forwards -> Forward]
  BY DEF ForwardInv, ForwardTypeOK
<1>2. \A j \in Forwards : forwards'[j] = IF j = i THEN f ELSE forwards[j]
  BY DEF ForwardInv, ForwardTypeOK
<1>3. \A j \in Forwards : NoMore(j)
  BY <1>2 DEF NoMore
<1>4. \A j \in Forwards : Sound(forwards'[j], IF j = w THEN r.pc ELSE tasks[j].pc)
  BY <1>2 DEF ForwardInv, SessionsSound
<1>5. \A j \in Forwards : forwards'[j].target = forwards[j].target
                        /\ forwards'[j].context = forwards[j].context
  BY <1>2
<1>6. w = Transition /\ r.pc = "announcing mark" => forwards'[r.at].st = "Stopping"
  BY <1>2
<1> QED
  BY <1>1, <1>3, <1>4, <1>5, <1>6, StepKeeps

(* Only the task moves. *)
LEMMA TaskKeeps ==
  ASSUME ForwardInv, NEW w \in Tasks, NEW r \in TaskState, Orderly(w, r),
         forwards' = forwards,
         stateLock = Transition => stateLock' = Transition,
         w \in Forwards => Sound(forwards[w], r.pc),
         r.pc \in BoundPcs => tasks[w].pc \in BoundPcs,
         w = Transition /\ r.pc \in MarkPcs => tasks[w].pc \in MarkPcs,
         \A j \in tasks[w].todo :
           w = Transition => j \in r.todo \/ forwards[j].st # "Active",
         w = Transition => r.todo \subseteq tasks[w].todo /\ r.pc # "announcing mark"
  PROVE  ForwardInv'
<1>1. forwards' \in [Forwards -> Forward]
  BY DEF ForwardInv, ForwardTypeOK
<1>2. \A j \in Forwards : NoMore(j)
  BY DEF NoMore
<1>3. \A j \in Forwards : Sound(forwards'[j], IF j = w THEN r.pc ELSE tasks[j].pc)
  BY DEF ForwardInv, SessionsSound
<1> QED
  BY <1>1, <1>2, <1>3, StepKeeps

(* A step that leaves the gate and the revisions alone. *)
LEMMA OrderlyIf ==
  ASSUME ForwardInv, NEW w \in Tasks, NEW r \in TaskState,
         tasks' = [tasks EXCEPT ![w] = r], UNCHANGED <<committed, gate, clockVars>>,
         stateLock' = stateLock \/ (stateLock \in {Nobody, w} /\ stateLock' \in {Nobody, w}),
         inner' \in [Forwards -> Tasks \cup {Nobody}],
         r.pc \in LockPcs => stateLock' = w,
         r.pc \in GatePcs => gate = w,
         r.pc \in SessionPcs => r.at \in Forwards,
         w \in Forwards => r.at = w
  PROVE  Orderly(w, r)
  BY DEF Orderly, clockVars, ForwardInv, ForwardTypeOK

LEMMA InnerTypes ==
  ASSUME ForwardInv
  PROVE  /\ inner \in [Forwards -> Tasks \cup {Nobody}]
         /\ \A i, w \in Tasks \cup {Nobody} :
              [inner EXCEPT ![i] = w] \in [Forwards -> Tasks \cup {Nobody}]
  BY DEF ForwardInv, ForwardTypeOK

LEMMA StartAt ==
  ASSUME ForwardInv, NEW w \in Forwards
  PROVE  /\ w \in Tasks /\ tasks[w].at = w /\ w # Transition
         /\ forwards[w] \in Forward /\ tasks[w] \in TaskState
         /\ Sound(forwards[w], tasks[w].pc)
  BY TaskKinds DEF ForwardInv, LocksHeld, SessionsSound, ForwardTypeOK

LEMMA LockHolder ==
  ASSUME ForwardInv, NEW w \in Tasks
  PROVE  /\ tasks[w].pc \in LockPcs => stateLock = w
         /\ tasks[w].pc \in GatePcs => gate = w
         /\ tasks[w].pc \in SessionPcs => tasks[w].at \in Forwards
  BY DEF ForwardInv, LocksHeld

---------------------------------------------------------------------------
(* The steps of a start *)

LEMMA CallKeeps ==
  ASSUME ForwardInv, NEW w \in Forwards, NEW t \in Targets, NEW c \in ForwardContexts,
         Call(w, t, c)
  PROVE  ForwardInv'
<1>1. PICK r \in TaskState :
        tasks' = [tasks EXCEPT ![w] = r] /\ r.pc = "entering" /\ r.at = tasks[w].at
  BY StartAt, GotoMoves DEF Call, StartPcs, ForwardInv
<1>2. PICK f : f = [forwards[w] EXCEPT !.target = t, !.context = c]
  OBVIOUS
<1> forwards[w] \in Forward
  BY StartAt
<1>3. f \in Forward /\ f.st = forwards[w].st /\ f.listed = forwards[w].listed
      /\ f.keyed = forwards[w].keyed /\ f.cancelled = forwards[w].cancelled
      /\ f.loop = forwards[w].loop /\ f.handle = forwards[w].handle
  BY <1>2 DEF Forward
<1>4. forwards' = [forwards EXCEPT ![w] = f]
  BY <1>2 DEF Call
<1>5. Orderly(w, r)
  BY <1>1, StartAt, InnerTypes, OrderlyIf DEF Call, locks, LockPcs, GatePcs, SessionPcs
<1>6. forwards' \in [Forwards -> Forward]
      /\ \A i \in Forwards : forwards'[i] = IF i = w THEN f ELSE forwards[i]
  BY <1>3, <1>4 DEF ForwardInv, ForwardTypeOK
<1>7. tasks[w].pc = "idle"
  BY DEF Call
<1>8. Sound(f, "entering")
  BY <1>3, <1>7, StartAt DEF Sound, EarlyPcs, StartPcs, OpenPcs
<1>9. \A i \in Forwards : Sound(forwards'[i], IF i = w THEN r.pc ELSE tasks[i].pc)
  BY <1>1, <1>6, <1>8 DEF ForwardInv, SessionsSound
<1>10. \A i \in Forwards : NoMore(i)
  <2>1. ~f.listed /\ f.st = "none"
    BY <1>3, <1>7, StartAt DEF Sound, EarlyPcs
  <2> QED
    BY <1>3, <1>6, <2>1 DEF NoMore
<1>11. stateLock' = stateLock /\ w # Transition /\ r.pc \notin BoundPcs
  BY <1>1, StartAt DEF Call, locks, BoundPcs
<1> QED
  BY <1>1, <1>5, <1>6, <1>9, <1>10, <1>11, StartAt, StepKeeps

(* A start goes from one place to another and changes no session. *)
LEMMA StartGoes ==
  ASSUME ForwardInv, NEW w \in Forwards, NEW pc \in StartPcs \cup {"done"},
         IF pc = "done" THEN Done(w) ELSE Goto(w, pc),
         UNCHANGED <<forwards, committed, gate, inner, clockVars>>,
         stateLock' = stateLock \/ (stateLock \in {Nobody, w} /\ stateLock' \in {Nobody, w}),
         pc \in LockPcs => stateLock' = w,
         pc \in GatePcs => gate = w,
         Sound(forwards[w], pc),
         pc \in BoundPcs => tasks[w].pc \in BoundPcs
  PROVE  ForwardInv'
<1>1. PICK r \in TaskState :
        tasks' = [tasks EXCEPT ![w] = r] /\ r.pc = pc /\ r.at = w
  <2>1. w \in Tasks /\ ForwardTypeOK /\ tasks[w].at = w
    BY StartAt DEF ForwardInv
  <2>2. CASE pc = "done"
    BY <2>1, <2>2, DoneMoves
  <2>3. CASE pc # "done"
    <3>1. pc \in StartPcs \cup EndPcs /\ Goto(w, pc)
      BY <2>3
    <3> QED
      BY <2>1, <3>1, GotoMoves
  <2> QED
    BY <2>2, <2>3
<1>2. Orderly(w, r)
  BY <1>1, StartAt, InnerTypes, OrderlyIf DEF SessionPcs, StartPcs
<1>3. stateLock = Transition => stateLock' = Transition
  BY StartAt, TaskKinds
<1> QED
  BY <1>1, <1>2, <1>3, StartAt, TaskKeeps

LEMMA EnterKeeps ==
  ASSUME ForwardInv, NEW w \in Forwards, Enter(w)
  PROVE  ForwardInv'
<1>1. tasks[w].pc = "entering" /\ Sound(forwards[w], "entering")
  BY StartAt DEF Enter
<1>2. Sound(forwards[w], "done") /\ Sound(forwards[w], "matching")
  BY <1>1 DEF Sound, StartPcs, EarlyPcs, OpenPcs
<1>3. CASE Done(w) /\ UNCHANGED stateLock
  BY <1>2, <1>3, StartGoes DEF Enter, LockPcs, GatePcs, BoundPcs
<1>4. CASE stateLock' = w /\ Goto(w, "matching")
  BY <1>2, <1>4, StartGoes DEF Enter, LockPcs, GatePcs, BoundPcs, StartPcs
<1> QED
  BY <1>3, <1>4 DEF Enter

LEMMA ResolveKeeps ==
  ASSUME ForwardInv, NEW w \in Forwards, Resolve(w)
  PROVE  ForwardInv'
<1>1. tasks[w].pc = "resolving" /\ Sound(forwards[w], "resolving")
  BY StartAt DEF Resolve
<1>2. /\ forwards[w].cancelled => Sound(forwards[w], "done")
      /\ Sound(forwards[w], "resolved") /\ Sound(forwards[w], "failing")
  BY <1>1 DEF Sound, StartPcs, EarlyPcs, OpenPcs
<1>3. CASE forwards[w].cancelled /\ Done(w)
  BY <1>2, <1>3, StartGoes DEF Resolve, LockPcs, GatePcs, BoundPcs, locks
<1>4. CASE Goto(w, "resolved")
  BY <1>2, <1>4, StartGoes DEF Resolve, LockPcs, GatePcs, BoundPcs, StartPcs, locks
<1>5. CASE Goto(w, "failing")
  BY <1>2, <1>5, StartGoes DEF Resolve, LockPcs, GatePcs, BoundPcs, StartPcs, locks
<1> QED
  BY <1>3, <1>4, <1>5 DEF Resolve

LEMMA LockingKeeps ==
  ASSUME ForwardInv, NEW w \in Forwards, DiscardLocks(w) \/ Recheck(w)
  PROVE  ForwardInv'
<1>1. CASE DiscardLocks(w)
  <2>1. tasks[w].pc = "discarding" /\ Sound(forwards[w], "discarding")
    BY <1>1, StartAt DEF DiscardLocks
  <2>2. Sound(forwards[w], "dropping")
    BY <2>1 DEF Sound, StartPcs, EarlyPcs, OpenPcs
  <2> QED
    BY <1>1, <2>2, StartGoes DEF DiscardLocks, LockPcs, GatePcs, BoundPcs, StartPcs
<1>2. CASE Recheck(w)
  <2>1. tasks[w].pc = "resolved" /\ Sound(forwards[w], "resolved")
    BY <1>2, StartAt DEF Recheck
  <2>2. Sound(forwards[w], "checking")
    BY <2>1 DEF Sound, StartPcs, EarlyPcs, OpenPcs
  <2> QED
    BY <1>2, <2>2, StartGoes DEF Recheck, LockPcs, GatePcs, BoundPcs, StartPcs
<1> QED
  BY <1>1, <1>2

(* A start goes on, or is over, and changes its own session to f. *)
LEMMA StartChanges ==
  ASSUME ForwardInv, NEW w \in Forwards, NEW pc \in StartPcs \cup {"done"},
         IF pc = "done" THEN Done(w) ELSE Goto(w, pc),
         NEW f \in Forward, forwards' = [forwards EXCEPT ![w] = f],
         f.target = forwards[w].target, f.context = forwards[w].context,
         f.listed => forwards[w].listed, f.keyed => forwards[w].keyed,
         f.st \notin Terminal => forwards[w].st \notin Terminal,
         f.st = "Active" => forwards[w].st = "Active",
         f.st = "none" => forwards[w].st = "none",
         f.st = "Starting" => forwards[w].st = "Starting",
         UNCHANGED <<committed, gate, clockVars>>,
         inner' \in [Forwards -> Tasks \cup {Nobody}],
         stateLock' = stateLock \/ (stateLock \in {Nobody, w} /\ stateLock' \in {Nobody, w}),
         pc \notin LockPcs \cup GatePcs,
         Sound(f, pc)
  PROVE  ForwardInv'
<1>1. PICK r \in TaskState :
        tasks' = [tasks EXCEPT ![w] = r] /\ r.pc = pc /\ r.at = w
  <2>1. w \in Tasks /\ ForwardTypeOK /\ tasks[w].at = w
    BY StartAt DEF ForwardInv
  <2>2. CASE pc = "done"
    BY <2>1, <2>2, DoneMoves
  <2>3. CASE pc # "done"
    <3>1. pc \in StartPcs \cup EndPcs /\ Goto(w, pc)
      BY <2>3
    <3> QED
      BY <2>1, <3>1, GotoMoves
  <2> QED
    BY <2>2, <2>3
<1>2. Orderly(w, r)
  BY <1>1, StartAt, OrderlyIf DEF SessionPcs, StartPcs
<1>3. stateLock = Transition => stateLock' = Transition
  BY StartAt, TaskKinds
<1>4. w \in Tasks /\ w # Transition /\ r.pc \notin BoundPcs
  BY <1>1, StartAt DEF LockPcs, BoundPcs
<1>5. OneMoves(w, r, w, f)
  BY <1>1, <1>2, <1>3, <1>4 DEF OneMoves
<1> QED
  BY <1>4, <1>5, OneKeeps

LEMMA CancelKeeps ==
  ASSUME ForwardInv, NEW w \in Forwards, CancelStart(w)
  PROVE  ForwardInv'
<1> /\ forwards[w] \in Forward /\ Sound(forwards[w], tasks[w].pc)
    /\ inner \in [Forwards -> Tasks \cup {Nobody}]
  BY StartAt, InnerTypes
<1>1. CASE tasks[w].pc = "entering" /\ Done(w) /\ UNCHANGED <<forwards, stateLock>>
  <2>1. Sound(forwards[w], "done")
    BY <1>1 DEF Sound, StartPcs, EarlyPcs, OpenPcs
  <2> QED
    BY <1>1, <2>1, StartGoes DEF CancelStart, LockPcs, GatePcs, BoundPcs
<1>2. CASE /\ tasks[w].pc \in {"resolving", "resolved"}
           /\ forwards' = [forwards EXCEPT ![w].cancelled = TRUE]
           /\ Goto(w, "discarding") /\ UNCHANGED stateLock
  <2>1. PICK f : f = [forwards[w] EXCEPT !.cancelled = TRUE]
    OBVIOUS
  <2>2. f \in Forward /\ f.st = forwards[w].st /\ f.listed = forwards[w].listed
        /\ f.keyed = forwards[w].keyed /\ f.cancelled /\ f.target = forwards[w].target
        /\ f.context = forwards[w].context
        /\ f.loop = forwards[w].loop /\ f.handle = forwards[w].handle
    BY <2>1 DEF Forward
  <2>3. Sound(f, "discarding")
    BY <1>2, <2>2 DEF Sound, StartPcs, EarlyPcs, OpenPcs
  <2>4. forwards' = [forwards EXCEPT ![w] = f]
    BY <1>2, <2>1
  <2> QED
    BY <1>2, <2>2, <2>3, <2>4, StartChanges DEF CancelStart, LockPcs, GatePcs, StartPcs
<1>3. CASE /\ tasks[w].pc = "binding"
           /\ forwards' = [forwards EXCEPT ![w] = [@ EXCEPT !.listed = FALSE, !.cancelled = TRUE]]
           /\ stateLock' = Nobody /\ Done(w)
  <2>1. PICK f : f = [forwards[w] EXCEPT !.listed = FALSE, !.cancelled = TRUE]
    OBVIOUS
  <2>2. f \in Forward /\ f.st = forwards[w].st /\ ~f.listed /\ f.cancelled
        /\ f.keyed = forwards[w].keyed
        /\ f.target = forwards[w].target /\ f.context = forwards[w].context
        /\ f.loop = forwards[w].loop /\ f.handle = forwards[w].handle
    BY <2>1 DEF Forward
  <2>3. Sound(f, "done")
    BY <1>3, <2>2 DEF Sound, StartPcs, EarlyPcs, OpenPcs
  <2>4. forwards' = [forwards EXCEPT ![w] = f]
    BY <1>3, <2>1
  <2>5. stateLock = w
    BY <1>3, StartAt, LockHolder DEF LockPcs
  <2> QED
    BY <1>3, <2>2, <2>3, <2>4, <2>5, StartChanges DEF CancelStart, LockPcs, GatePcs
<1> QED
  BY <1>1, <1>2, <1>3 DEF CancelStart

LEMMA DiscardKeeps ==
  ASSUME ForwardInv, NEW w \in Forwards, Discard(w)
  PROVE  ForwardInv'
<1> /\ forwards[w] \in Forward /\ Sound(forwards[w], "dropping")
    /\ inner \in [Forwards -> Tasks \cup {Nobody}] /\ w \in Tasks
    /\ stateLock = w
  <2>1. tasks[w].pc = "dropping" /\ tasks[w].pc \in LockPcs
    BY DEF Discard, LockPcs
  <2>2. w \in Tasks /\ forwards[w] \in Forward /\ Sound(forwards[w], "dropping")
    BY <2>1, StartAt
  <2>3. stateLock = w
    BY <2>1, <2>2, LockHolder
  <2> QED
    BY <2>2, <2>3, InnerTypes
<1>1. PICK f : f = [forwards[w] EXCEPT !.listed = @ /\ forwards[w].st # "Starting"]
  OBVIOUS
<1>2. f \in Forward /\ f.st = forwards[w].st
      /\ f.listed = (forwards[w].listed /\ forwards[w].st # "Starting")
      /\ f.keyed = forwards[w].keyed /\ f.cancelled = forwards[w].cancelled
      /\ f.target = forwards[w].target /\ f.context = forwards[w].context
      /\ f.loop = forwards[w].loop /\ f.handle = forwards[w].handle
  BY <1>1 DEF Forward
<1>3. Sound(f, "done")
  BY <1>2 DEF Sound, StartPcs, EarlyPcs, OpenPcs
<1>4. forwards' = [forwards EXCEPT ![w] = f]
  BY <1>1 DEF Discard
<1> QED
  BY <1>2, <1>3, <1>4, StartChanges DEF Discard, LockPcs, GatePcs

LEMMA FailKeeps ==
  ASSUME ForwardInv, NEW w \in Forwards, FailStart(w)
  PROVE  ForwardInv'
<1> /\ forwards[w] \in Forward /\ Sound(forwards[w], "failing")
    /\ inner \in [Forwards -> Tasks \cup {Nobody}] /\ w \in Tasks
  BY StartAt, InnerTypes DEF FailStart
<1>1. CASE forwards[w].st # "Starting" /\ Done(w) /\ UNCHANGED <<forwards, inner>>
  <2>1. Sound(forwards[w], "done")
    BY <1>1 DEF Sound, StartPcs, EarlyPcs, OpenPcs
  <2> QED
    BY <1>1, <2>1, StartGoes DEF FailStart, LockPcs, GatePcs, BoundPcs
<1>2. CASE /\ forwards[w].st = "Starting"
           /\ forwards' = [forwards EXCEPT ![w].st = "Failed"]
           /\ inner' = [inner EXCEPT ![w] = w]
           /\ Goto(w, "drafting")
  <2>1. PICK f : f = [forwards[w] EXCEPT !.st = "Failed"]
    OBVIOUS
  <2>2. f \in Forward /\ f.st = "Failed" /\ f.listed = forwards[w].listed
        /\ f.keyed = forwards[w].keyed /\ f.cancelled = forwards[w].cancelled
        /\ f.target = forwards[w].target /\ f.context = forwards[w].context
        /\ f.loop = forwards[w].loop /\ f.handle = forwards[w].handle
    BY <2>1 DEF Forward
  <2>3. Sound(f, "drafting")
    BY <1>2, <2>2 DEF Sound, StartPcs, EarlyPcs, OpenPcs
  <2>4. forwards' = [forwards EXCEPT ![w] = f]
    BY <1>2, <2>1
  <2>5. inner' \in [Forwards -> Tasks \cup {Nobody}]
    BY <1>2
  <2> QED
    BY <1>2, <2>2, <2>3, <2>4, <2>5, StartChanges
       DEF FailStart, LockPcs, GatePcs, StartPcs, Terminal
<1> QED
  BY <1>1, <1>2 DEF FailStart

(* What leaves the list is over, or is the start that looks. *)
LEMMA WithoutEffect ==
  ASSUME ForwardInv, NEW G, forwards' = Without(G)
  PROVE  /\ forwards' \in [Forwards -> Forward]
         /\ \A i \in Forwards :
              /\ forwards'[i].listed <=> forwards[i].listed /\ i \notin G
              /\ forwards'[i].st = forwards[i].st /\ forwards'[i].keyed = forwards[i].keyed
              /\ forwards'[i].cancelled = forwards[i].cancelled
              /\ forwards'[i].target = forwards[i].target
              /\ forwards'[i].context = forwards[i].context
              /\ forwards'[i].loop = forwards[i].loop
              /\ forwards'[i].handle = forwards[i].handle
              /\ forwards'[i].pump = forwards[i].pump
<1> DEFINE o(f) == [f EXCEPT !.listed = FALSE]
<1>1. ASSUME NEW f \in Forward
      PROVE  /\ o(f) \in Forward /\ ~o(f).listed /\ o(f).st = f.st /\ o(f).keyed = f.keyed
             /\ o(f).cancelled = f.cancelled /\ o(f).target = f.target
             /\ o(f).context = f.context /\ o(f).loop = f.loop /\ o(f).handle = f.handle
             /\ o(f).pump = f.pump
  BY DEF Forward
<1>2. forwards' = [i \in Forwards |-> IF i \in G THEN o(forwards[i]) ELSE forwards[i]]
  BY DEF Without
<1> HIDE DEF o
<1>3. \A i \in Forwards : forwards[i] \in Forward
  BY DEF ForwardInv, ForwardTypeOK
<1>4. \A i \in Forwards : i \in G => forwards'[i] = o(forwards[i])
  BY <1>2
<1>5. \A i \in Forwards : i \notin G => forwards'[i] = forwards[i]
  BY <1>2
<1>6. forwards' \in [Forwards -> Forward]
  BY <1>1, <1>2, <1>3
<1>7. ASSUME NEW i \in Forwards
      PROVE  /\ forwards'[i].listed <=> forwards[i].listed /\ i \notin G
             /\ forwards'[i].st = forwards[i].st /\ forwards'[i].keyed = forwards[i].keyed
             /\ forwards'[i].cancelled = forwards[i].cancelled
             /\ forwards'[i].target = forwards[i].target
             /\ forwards'[i].context = forwards[i].context
             /\ forwards'[i].loop = forwards[i].loop
             /\ forwards'[i].handle = forwards[i].handle
             /\ forwards'[i].pump = forwards[i].pump
  <2>1. CASE i \in G
    BY <1>1, <1>3, <1>4, <2>1
  <2>2. CASE i \notin G
    BY <1>5, <2>2
  <2> QED
    BY <2>1, <2>2
<1> QED
  BY <1>6, <1>7

(* Pruning: the start w goes on, or leaves with its own row. *)
LEMMA PruneOpensNothing ==
  ASSUME ForwardInv, NEW w \in Forwards, NEW G, forwards' = Without(G),
         \A i \in G : i = w \/ (i \in Forwards /\ ~Open(i))
  PROVE  /\ forwards' \in [Forwards -> Forward]
         /\ \A i \in Forwards :
              /\ NoMore(i)
              /\ forwards'[i].target = forwards[i].target
              /\ forwards'[i].context = forwards[i].context
         /\ \A i \in Forwards \ {w} : Sound(forwards'[i], tasks[i].pc)
<1>1. \A i \in Forwards : NoMore(i)
  BY WithoutEffect DEF NoMore
<1>2. ASSUME NEW i \in Forwards \ {w}
      PROVE  Sound(forwards'[i], tasks[i].pc)
  <2>1. Sound(forwards[i], tasks[i].pc)
    BY DEF ForwardInv, SessionsSound
  <2>2. i \in G => forwards[i].st \in Terminal
    BY DEF Open
  <2> QED
    BY <2>1, <2>2, WithoutEffect DEF Sound, Terminal
<1> QED
  BY <1>1, <1>2, WithoutEffect

LEMMA PruneKeeps ==
  ASSUME ForwardInv, NEW w \in Forwards, NEW G, forwards' = Without(G),
         \A i \in G : i = w \/ (i \in Forwards /\ ~Open(i)),
         NEW pc \in StartPcs \cup {"done"},
         IF pc = "done" THEN Done(w) ELSE Goto(w, pc),
         UNCHANGED <<committed, gate, inner, clockVars>>,
         stateLock = w, stateLock' \in {Nobody, w},
         pc \in LockPcs => stateLock' = w,
         pc \notin GatePcs \cup BoundPcs,
         Sound(forwards'[w], pc)
  PROVE  ForwardInv'
<1>1. PICK r \in TaskState :
        tasks' = [tasks EXCEPT ![w] = r] /\ r.pc = pc /\ r.at = w
  <2>1. w \in Tasks /\ ForwardTypeOK /\ tasks[w].at = w
    BY StartAt DEF ForwardInv
  <2>2. CASE pc = "done"
    BY <2>1, <2>2, DoneMoves
  <2>3. CASE pc # "done"
    <3>1. pc \in StartPcs \cup EndPcs /\ Goto(w, pc)
      BY <2>3
    <3> QED
      BY <2>1, <3>1, GotoMoves
  <2> QED
    BY <2>2, <2>3
<1>2. Orderly(w, r)
  BY <1>1, StartAt, InnerTypes, OrderlyIf DEF SessionPcs, StartPcs
<1>3. \A i \in Forwards : Sound(forwards'[i], IF i = w THEN r.pc ELSE tasks[i].pc)
  BY <1>1, PruneOpensNothing
<1>4. w \in Tasks /\ w # Transition /\ r.pc \notin BoundPcs
      /\ (stateLock = Transition => stateLock' = Transition)
  BY <1>1, StartAt
<1>5. /\ forwards' \in [Forwards -> Forward]
      /\ \A i \in Forwards :
           NoMore(i) /\ forwards'[i].target = forwards[i].target
           /\ forwards'[i].context = forwards[i].context
  BY PruneOpensNothing
<1> QED
  BY <1>2, <1>3, <1>4, <1>5, StepKeeps

LEMMA MatchKeeps ==
  ASSUME ForwardInv, NEW w \in Forwards, Match(w)
  PROVE  ForwardInv'
<1> w \in Tasks /\ Sound(forwards[w], "matching") /\ stateLock = w
  BY StartAt, LockHolder DEF Match, LockPcs
<1>1. CASE stateLock' = Nobody /\ Done(w) /\ UNCHANGED forwards
  <2>1. Sound(forwards[w], "done")
    BY DEF Sound, StartPcs, EarlyPcs, OpenPcs
  <2> QED
    BY <1>1, <2>1, StartGoes DEF Match, LockPcs, GatePcs, BoundPcs
<1>2. ASSUME NEW gone \in Prunable, forwards' = Without(gone), Goto(w, "announcing"),
             UNCHANGED stateLock
      PROVE  ForwardInv'
  <2>1. \A i \in gone : i \in Forwards /\ ~Open(i)
    BY DEF Prunable, Listed
  <2>2. Sound(forwards'[w], "announcing")
    BY <1>2, WithoutEffect DEF Sound, StartPcs, EarlyPcs, OpenPcs
  <2> QED
    BY <1>2, <2>1, <2>2, PruneKeeps DEF Match, LockPcs, GatePcs, BoundPcs, StartPcs
<1> QED
  BY <1>1, <1>2 DEF Match

(* The listener may be bound: what Check found holds as the start goes on. *)
LEMMA BindKeeps ==
  ASSUME ForwardInv, NEW w \in Forwards, NEW gone \in Prunable,
         forwards' = Without(gone), tasks[w].pc = "checking", Goto(w, "binding"),
         SameEpoch(w), ~KeyTaken(w), ~TooMany(w), ~forwards[w].cancelled,
         UNCHANGED <<committed, locks, clockVars>>
  PROVE  ForwardInv'
<1> /\ w \in Tasks /\ w # Transition /\ Sound(forwards[w], "checking") /\ stateLock = w
    /\ tasks[w].at = w
  BY StartAt, LockHolder DEF LockPcs
<1>1. \A i \in gone : i \in Forwards /\ ~Open(i)
  BY DEF Prunable, Listed
<1>2. PICK r \in TaskState :
        tasks' = [tasks EXCEPT ![w] = r] /\ r.pc = "binding" /\ r.at = w
  BY GotoMoves DEF ForwardInv, StartPcs
<1>3. Orderly(w, r)
  BY <1>2, InnerTypes, OrderlyIf DEF locks, LockPcs, GatePcs, SessionPcs
<1>4. Sound(forwards'[w], "binding")
  BY WithoutEffect, <1>1 DEF Sound, StartPcs, EarlyPcs, OpenPcs, Open, Terminal
<1>5. \A i \in Forwards : Sound(forwards'[i], IF i = w THEN r.pc ELSE tasks[i].pc)
  BY <1>1, <1>2, <1>4, PruneOpensNothing
<1>6. /\ ForwardTypeOK' /\ LocksHeld' /\ SessionsSound'
      /\ \A v \in Tasks : tasks'[v] = IF v = w THEN r ELSE tasks[v]
  BY <1>1, <1>3, <1>5, PruneOpensNothing, StepTypes
<1>7. \A v \in Tasks \ {w} : tasks'[v].pc \notin BoundPcs
  BY <1>6, LockHolder DEF LockPcs, BoundPcs
<1>8. CheckedStill'
  <2>1. forwards'[w].context = committed /\ ~KeyTaken(w)' /\ ~TooMany(w)'
    BY <1>1, PruneOpensNothing, StillFree DEF SameEpoch
  <2> QED
    BY <1>7, <2>1, TaskKinds DEF CheckedStill
<1>9. ActivesApart' /\ ForwardsBounded'
  BY <1>1, <1>6, PruneOpensNothing, CalmActives, CalmBounded DEF locks
<1>10. MarkReachesAll'
  <2>1. tasks'[Transition] = tasks[Transition] /\ tasks[Transition].todo \subseteq Forwards
    BY <1>6, TaskKinds DEF ForwardInv, ForwardTypeOK, TaskState
  <2> QED
    BY <1>1, <2>1, PruneOpensNothing, CalmMarks DEF BeingMarked
<1> QED
  BY <1>6, <1>8, <1>9, <1>10 DEF ForwardInv

LEMMA CheckKeeps ==
  ASSUME ForwardInv, NEW w \in Forwards, Check(w)
  PROVE  ForwardInv'
<1> w \in Tasks /\ Sound(forwards[w], "checking") /\ stateLock = w /\ tasks[w].pc = "checking"
  BY StartAt, LockHolder DEF Check, LockPcs
<1>1. PICK gone \in Prunable :
        \/ /\ forwards' = Without(gone) /\ stateLock' = Nobody /\ Goto(w, "failing")
        \/ /\ forwards' = Without(gone \cup {w}) /\ stateLock' = Nobody /\ Done(w)
        \/ /\ SameEpoch(w) /\ ~KeyTaken(w) /\ ~TooMany(w) /\ forwards' = Without(gone)
           /\ \/ forwards[w].cancelled /\ stateLock' = Nobody /\ Done(w)
              \/ ~forwards[w].cancelled /\ stateLock' = Nobody /\ Goto(w, "abandoned")
              \/ ~forwards[w].cancelled /\ UNCHANGED stateLock /\ Goto(w, "binding")
  BY DEF Check
<1>2. \A i \in gone : i \in Forwards /\ ~Open(i)
  BY DEF Prunable, Listed
<1>3. CASE forwards' = Without(gone) /\ stateLock' = Nobody /\ Goto(w, "failing")
  <2>1. Sound(forwards'[w], "failing")
    BY <1>2, <1>3, WithoutEffect DEF Sound, StartPcs, EarlyPcs, OpenPcs, Open, Terminal
  <2> QED
    BY <1>2, <1>3, <2>1, PruneKeeps DEF Check, LockPcs, GatePcs, BoundPcs, StartPcs
<1>4. CASE forwards' = Without(gone \cup {w}) /\ stateLock' = Nobody /\ Done(w)
  <2> PICK G : G = gone \cup {w}
    OBVIOUS
  <2>1. forwards' = Without(G) /\ w \in G
    BY <1>4
  <2>2. \A i \in G : i = w \/ (i \in Forwards /\ ~Open(i))
    BY <1>2
  <2>3. Sound(forwards'[w], "done")
    <3>1. /\ ~forwards'[w].listed /\ forwards'[w].st = forwards[w].st
          /\ forwards'[w].loop = forwards[w].loop /\ forwards'[w].handle = forwards[w].handle
      BY <2>1, WithoutEffect
    <3>2. ~forwards[w].loop /\ ~forwards[w].handle /\ forwards[w].st # "Active"
      BY DEF Sound, StartPcs
    <3> QED
      BY <3>1, <3>2 DEF Sound, StartPcs, EarlyPcs
  <2>4. UNCHANGED <<committed, gate, inner, clockVars>> /\ stateLock' \in {Nobody, w}
    BY <1>4 DEF Check
  <2>5. "done" \notin LockPcs \cup GatePcs \cup BoundPcs
    BY DEF LockPcs, GatePcs, BoundPcs
  <2> QED
    BY <1>4, <2>1, <2>2, <2>3, <2>4, <2>5, PruneKeeps
<1>5. CASE forwards' = Without(gone) /\ forwards[w].cancelled /\ stateLock' = Nobody /\ Done(w)
  <2>1. Sound(forwards'[w], "done")
    BY <1>2, <1>5, WithoutEffect DEF Sound, StartPcs, EarlyPcs, OpenPcs
  <2> QED
    BY <1>2, <1>5, <2>1, PruneKeeps DEF Check, LockPcs, GatePcs, BoundPcs
<1>6. CASE /\ SameEpoch(w) /\ ~KeyTaken(w) /\ ~TooMany(w) /\ forwards' = Without(gone)
           /\ ~forwards[w].cancelled /\ UNCHANGED stateLock /\ Goto(w, "binding")
  BY <1>6, BindKeeps DEF Check, locks
<1>7. CASE /\ forwards' = Without(gone) /\ ~forwards[w].cancelled
           /\ stateLock' = Nobody /\ Goto(w, "abandoned")
  <2>1. Sound(forwards'[w], "abandoned")
    BY <1>2, <1>7, WithoutEffect DEF Sound, StartPcs, EarlyPcs, OpenPcs, Open, Terminal
  <2> QED
    BY <1>2, <1>7, <2>1, PruneKeeps DEF Check, LockPcs, GatePcs, BoundPcs, StartPcs
<1> QED
  BY <1>1, <1>3, <1>4, <1>5, <1>6, <1>7

LEMMA AnnounceKeeps ==
  ASSUME ForwardInv, NEW w \in Forwards, Announce(w)
  PROVE  ForwardInv'
<1> /\ w \in Tasks /\ w # Transition /\ forwards[w] \in Forward /\ tasks[w] \in TaskState
    /\ tasks[w].pc = "announcing" /\ tasks[w].at = w
    /\ Sound(forwards[w], "announcing") /\ stateLock = w
  BY StartAt, LockHolder DEF Announce, LockPcs
<1>1. PICK f : f = [forwards[w] EXCEPT !.st = "Starting", !.listed = TRUE]
  OBVIOUS
<1>2. f \in Forward /\ f.st = "Starting" /\ f.listed
      /\ f.keyed = forwards[w].keyed /\ f.cancelled = forwards[w].cancelled
      /\ f.loop = forwards[w].loop /\ f.handle = forwards[w].handle
  BY <1>1 DEF Forward
<1>3. PICK r : r = [tasks[w] EXCEPT !.pc = "resolving", !.seen = TRUE]
  OBVIOUS
<1>4. r \in TaskState /\ r.pc = "resolving" /\ r.at = w
  BY <1>3 DEF TaskState, StartPcs
<1>5. tasks' = [tasks EXCEPT ![w] = r] /\ forwards' = [forwards EXCEPT ![w] = f]
  BY <1>1, <1>3 DEF Announce
<1>6. Orderly(w, r)
  BY <1>4, <1>5, InnerTypes, OrderlyIf DEF Announce, LockPcs, GatePcs, SessionPcs
<1>7. /\ forwards' \in [Forwards -> Forward]
      /\ \A i \in Forwards : forwards'[i] = IF i = w THEN f ELSE forwards[i]
  BY <1>2, <1>5 DEF ForwardInv, ForwardTypeOK
<1>8. Sound(f, "resolving")
  BY <1>2 DEF Sound, StartPcs, EarlyPcs, OpenPcs
<1>9. \A i \in Forwards : Sound(forwards'[i], IF i = w THEN r.pc ELSE tasks[i].pc)
  BY <1>4, <1>7, <1>8 DEF ForwardInv, SessionsSound
<1>10. /\ ForwardTypeOK' /\ LocksHeld' /\ SessionsSound'
       /\ \A v \in Tasks : tasks'[v] = IF v = w THEN r ELSE tasks[v]
  BY <1>4, <1>6, <1>7, <1>9, StepTypes
<1>11. CheckedStill'
  <2>1. \A v \in Forwards : tasks'[v].pc \notin BoundPcs
    BY <1>4, <1>10, LockHolder, TaskKinds DEF LockPcs, BoundPcs
  <2> QED
    BY <2>1 DEF CheckedStill
<1>12. \A i \in Forwards :
         IsActive(i)' => IsActive(i) /\ forwards'[i] = forwards[i]
  BY <1>2, <1>7 DEF IsActive
<1>13. ActivesApart'
  BY <1>12 DEF ForwardInv, ActivesApart, Announce
<1>14. MarkReachesAll'
  <2>1. \A i \in Forwards : forwards'[i].st = "none" => forwards[i].st = "none"
    BY <1>2, <1>7
  <2>2. tasks'[Transition] = tasks[Transition] /\ tasks[Transition].todo \subseteq Forwards
    BY <1>10, TaskKinds DEF ForwardInv, ForwardTypeOK, TaskState
  <2>3. tasks[Transition].pc \notin MarkPcs
    BY LockHolder, TaskKinds DEF MarkPcs, LockPcs
  <2> QED
    BY <2>1, <2>2, <2>3 DEF ForwardInv, MarkReachesAll, BeingMarked, MarkPcs
<1>15. ForwardsBounded'
  <2>1. ~f.keyed
    BY <1>2 DEF Sound, StartPcs
  <2>2. KeyedOpen' \subseteq KeyedOpen
    BY <1>7, <2>1 DEF KeyedOpen, Listed, Open
  <2> QED
    BY <2>2, BoundedIf
<1> QED
  BY <1>10, <1>11, <1>13, <1>14, <1>15 DEF ForwardInv

(* The gate is free, so no revision waits for its event. *)
LEMMA GateFree ==
  ASSUME ForwardInv, gate = Nobody
  PROVE  \A v \in Forwards : drafts[v] = 0
  BY TaskKinds DEF ForwardInv, LocksHeld

LEMMA ClockTypes ==
  ASSUME ForwardInv, NEW w \in Forwards
  PROVE  /\ Draft(w) => /\ revision' \in Nat /\ drafts' \in [Forwards -> Nat]
                        /\ \A v \in Forwards \ {w} : drafts'[v] = drafts[v]
         /\ Sent(w) => /\ revision' \in Nat /\ drafts' \in [Forwards -> Nat]
                       /\ drafts'[w] = 0
                       /\ \A v \in Forwards \ {w} : drafts'[v] = drafts[v]
  BY DEF Draft, Sent, ForwardInv, ForwardTypeOK

LEMMA AwaitGateKeeps ==
  ASSUME ForwardInv, NEW w \in Forwards, AwaitGate(w)
  PROVE  ForwardInv'
<1> /\ w \in Tasks /\ w # Transition /\ forwards[w] \in Forward
    /\ tasks[w].pc = "binding" /\ tasks[w].at = w
    /\ Sound(forwards[w], "binding") /\ stateLock = w
  BY StartAt, LockHolder DEF AwaitGate, LockPcs
<1> /\ gate = Nobody /\ gate' = w /\ Draft(w) /\ Goto(w, "activating")
    /\ UNCHANGED <<forwards, stateLock>>
  BY DEF AwaitGate
<1>1. PICK r \in TaskState :
        tasks' = [tasks EXCEPT ![w] = r] /\ r.pc = "activating" /\ r.at = w
  BY GotoMoves DEF ForwardInv, StartPcs
<1>2. Orderly(w, r)
  <2>1. \A v \in Forwards : drafts'[v] # 0 => v = w
    BY GateFree, ClockTypes
  <2> QED
    BY <1>1, <2>1, ClockTypes, InnerTypes
       DEF Orderly, AwaitGate, LockPcs, GatePcs, SessionPcs
<1>3. Sound(forwards[w], "activating")
  BY DEF Sound, StartPcs, EarlyPcs, OpenPcs
<1> QED
  BY <1>1, <1>2, <1>3, TaskKeeps DEF BoundPcs, AwaitGate

(* The session becomes Active: its check still holds, and the state is held. *)
LEMMA ActivatingKeeps ==
  ASSUME ForwardInv, NEW w \in Forwards, Activate(w), StillStarting(w),
         NEW r \in TaskState, r.pc = "done", Orderly(w, r)
  PROVE  ForwardInv'
<1> /\ w \in Tasks /\ w # Transition /\ forwards[w] \in Forward
    /\ tasks[w].pc = "activating" /\ Sound(forwards[w], "activating") /\ stateLock = w
  BY StartAt, LockHolder DEF Activate, LockPcs
<1>1. PICK f : f = [forwards[w] EXCEPT !.st = "Active", !.keyed = TRUE, !.loop = TRUE,
                                       !.handle = TRUE]
  OBVIOUS
<1>2. f \in Forward /\ f.st = "Active" /\ f.keyed /\ f.listed = forwards[w].listed
      /\ f.cancelled = forwards[w].cancelled
      /\ f.target = forwards[w].target /\ f.context = forwards[w].context
  BY <1>1 DEF Forward
<1>3. forwards' = [forwards EXCEPT ![w] = f]
  BY <1>1 DEF Activate
<1>4. /\ forwards' \in [Forwards -> Forward]
      /\ \A i \in Forwards : forwards'[i] = IF i = w THEN f ELSE forwards[i]
  BY <1>2, <1>3 DEF ForwardInv, ForwardTypeOK
<1>5. Sound(f, "done")
  BY <1>2 DEF Sound, StartPcs, EarlyPcs, OpenPcs, StillStarting
<1>6. \A i \in Forwards : Sound(forwards'[i], IF i = w THEN r.pc ELSE tasks[i].pc)
  BY <1>4, <1>5 DEF ForwardInv, SessionsSound
<1>7. /\ ForwardTypeOK' /\ LocksHeld' /\ SessionsSound'
      /\ \A v \in Tasks : tasks'[v] = IF v = w THEN r ELSE tasks[v]
  BY <1>4, <1>6, StepTypes
<1>8. CheckedStill'
  <2>1. \A v \in Forwards : tasks'[v].pc \notin BoundPcs
    BY <1>7, LockHolder, TaskKinds DEF LockPcs, BoundPcs
  <2> QED
    BY <2>1 DEF CheckedStill
<1>9. forwards[w].context = committed /\ ~KeyTaken(w) /\ ~TooMany(w)
  BY DEF ForwardInv, CheckedStill, BoundPcs
<1>10. ActivesApart'
  <2>1. \A i \in Forwards : IsActive(i)' => i = w \/ IsActive(i)
    BY <1>4 DEF IsActive
  <2>2. \A i \in Forwards : IsActive(i) => forwards[i].context = committed
    BY DEF ForwardInv, ActivesApart
  <2>3. \A i \in Forwards :
          forwards'[i].context = forwards[i].context /\ forwards'[i].target = forwards[i].target
    BY <1>2, <1>4
  <2>4. \A i \in Forwards : IsActive(i) => KeyOf[forwards[i].target] # KeyOf[forwards[w].target]
    BY <1>9 DEF KeyTaken, Listed, Open, IsActive, ForwardInv, SessionsSound, Sound, Terminal
  <2>5. committed' = committed
    BY DEF Activate
  <2>6. \A i \in Forwards : IsActive(i)' => forwards'[i].context = committed'
    BY <1>9, <2>1, <2>2, <2>3, <2>5
  <2>7. \A i, j \in Forwards :
          IsActive(i)' /\ IsActive(j)' /\ i # j
            => KeyOf[forwards'[i].target] # KeyOf[forwards'[j].target]
    BY <2>1, <2>3, <2>4 DEF ForwardInv, ActivesApart
  <2> QED
    BY <2>6, <2>7 DEF ActivesApart
<1>11. MarkReachesAll'
  <2>1. \A i \in Forwards : forwards'[i].st = "none" => forwards[i].st = "none"
    BY <1>2, <1>4
  <2>2. tasks'[Transition] = tasks[Transition] /\ tasks[Transition].todo \subseteq Forwards
    BY <1>7, TaskKinds DEF ForwardInv, ForwardTypeOK, TaskState
  <2>3. tasks[Transition].pc \notin MarkPcs
    BY LockHolder, TaskKinds DEF MarkPcs, LockPcs
  <2> QED
    BY <2>1, <2>2, <2>3 DEF ForwardInv, MarkReachesAll, BeingMarked, MarkPcs
<1>12. ForwardsBounded'
  <2>1. KeyedOpen' \subseteq OpenOthers(w) \cup {w}
    BY <1>4 DEF KeyedOpen, OpenOthers, Listed, Open
  <2>2. OpenOthers(w) \in SUBSET Forwards /\ w \notin OpenOthers(w)
    BY DEF OpenOthers, Listed
  <2>3. IsFiniteSet(OpenOthers(w)) /\ Cardinality(OpenOthers(w)) \in Nat
    BY <2>2, ForwardSetsFinite
  <2>4. Cardinality(OpenOthers(w) \cup {w}) = Cardinality(OpenOthers(w)) + 1
    BY <2>2, <2>3, FS_AddElement
  <2>5. PICK S : S = KeyedOpen'
    OBVIOUS
  <2>6. Cardinality(S) <= Cardinality(OpenOthers(w) \cup {w}) /\ Cardinality(S) \in Nat
    BY <2>1, <2>2, <2>5, FewerForwards, ForwardSetsFinite
  <2>7. ~(Cardinality(OpenOthers(w)) >= MaxForwards)
    BY <1>9 DEF TooMany, OpenOthers
  <2>8. Cardinality(KeyedOpen') <= MaxForwards
    BY <2>3, <2>4, <2>5, <2>6, <2>7, ForwardAssumption
  <2> QED
    BY <2>8 DEF ForwardsBounded, KeyedOpen
<1> QED
  BY <1>7, <1>8, <1>10, <1>11, <1>12 DEF ForwardInv

LEMMA ActivateKeeps ==
  ASSUME ForwardInv, NEW w \in Forwards, Activate(w)
  PROVE  ForwardInv'
<1> /\ w \in Tasks /\ w # Transition /\ tasks[w].pc = "activating"
    /\ Sound(forwards[w], "activating") /\ stateLock = w /\ gate = w
  BY StartAt, LockHolder DEF Activate, LockPcs, GatePcs
<1>1. PICK r \in TaskState :
        tasks' = [tasks EXCEPT ![w] = r] /\ r.pc = "done" /\ r.at = w
  BY DoneMoves DEF Activate
<1>2. Orderly(w, r)
  <2>1. \A v \in Forwards : drafts'[v] # 0 => drafts[v] # 0 /\ v # w
    BY ClockTypes DEF Activate
  <2> QED
    BY <1>1, <2>1, ClockTypes, InnerTypes DEF Orderly, Activate, LockPcs, GatePcs, SessionPcs
<1>3. CASE StillStarting(w)
  BY <1>1, <1>2, <1>3, ActivatingKeeps
<1>4. CASE ~StillStarting(w)
  <2>1. Sound(forwards[w], "done")
    BY <1>4 DEF Sound, StartPcs, EarlyPcs, OpenPcs, StillStarting
  <2>2. forwards' = forwards
    BY <1>4 DEF Activate
  <2> QED
    BY <1>1, <1>2, <2>1, <2>2, TaskKeeps DEF BoundPcs
<1> QED
  BY <1>3, <1>4

LEMMA FailurePublished ==
  ASSUME ForwardInv, NEW w \in Forwards, DraftFailure(w) \/ SendFailure(w)
  PROVE  ForwardInv'
<1> w \in Tasks /\ w # Transition /\ tasks[w].at = w /\ Sound(forwards[w], tasks[w].pc)
  BY StartAt
<1>1. CASE DraftFailure(w)
  <2>1. PICK r \in TaskState :
          tasks' = [tasks EXCEPT ![w] = r] /\ r.pc = "sending" /\ r.at = w
    BY <1>1, GotoMoves DEF DraftFailure, ForwardInv, StartPcs
  <2>2. Orderly(w, r)
    <3>1. \A v \in Forwards : drafts'[v] # 0 => v = w
      BY <1>1, GateFree, ClockTypes DEF DraftFailure
    <3>2. inner' \in [Forwards -> Tasks \cup {Nobody}]
      BY <1>1, InnerTypes DEF DraftFailure
    <3> QED
      BY <1>1, <2>1, <3>1, <3>2, ClockTypes
         DEF Orderly, DraftFailure, GateOfDraft, LockPcs, GatePcs, SessionPcs
  <2>3. Sound(forwards[w], "sending")
    BY <1>1 DEF DraftFailure, Sound, StartPcs, EarlyPcs, OpenPcs
  <2> QED
    BY <1>1, <2>1, <2>2, <2>3, TaskKeeps DEF DraftFailure, BoundPcs
<1>2. CASE SendFailure(w)
  <2>0. gate = w
    BY <1>2, LockHolder DEF SendFailure, GatePcs
  <2>1. PICK r \in TaskState :
          tasks' = [tasks EXCEPT ![w] = r] /\ r.pc = "done" /\ r.at = w
    BY <1>2, DoneMoves DEF SendFailure
  <2>2. Orderly(w, r)
    <3>1. \A v \in Forwards : drafts'[v] # 0 => drafts[v] # 0 /\ v # w
      BY <1>2, ClockTypes DEF SendFailure
    <3> QED
      BY <1>2, <2>0, <2>1, <3>1, ClockTypes, InnerTypes
         DEF Orderly, SendFailure, LockPcs, GatePcs, SessionPcs
  <2>3. Sound(forwards[w], "done")
    BY <1>2 DEF SendFailure, Sound, StartPcs, EarlyPcs, OpenPcs
  <2> QED
    BY <1>2, <2>1, <2>2, <2>3, TaskKeeps DEF SendFailure, BoundPcs
<1> QED
  BY <1>1, <1>2

---------------------------------------------------------------------------
(* Ending a session *)

LEMMA EndingFields ==
  ASSUME NEW f \in Forward
  PROVE  /\ Ending(f) \in Forward /\ Ending(f).st = "Stopping" /\ Ending(f).cancelled
         /\ ~Ending(f).handle /\ Ending(f).listed = f.listed /\ Ending(f).keyed = f.keyed
         /\ Ending(f).loop = f.loop /\ Ending(f).target = f.target
         /\ Ending(f).context = f.context
  BY DEF Ending, Cancel, Forward

LEMMA CancelFields ==
  ASSUME NEW f \in Forward
  PROVE  /\ Cancel(f) \in Forward /\ Cancel(f).st = f.st /\ Cancel(f).cancelled
         /\ ~Cancel(f).handle /\ Cancel(f).listed = f.listed /\ Cancel(f).keyed = f.keyed
         /\ Cancel(f).loop = f.loop /\ Cancel(f).target = f.target
         /\ Cancel(f).context = f.context
  BY DEF Cancel, Forward

LEMMA EndedSound ==
  ASSUME NEW f \in Forward, NEW pc, Sound(f, pc), f.st # "none"
  PROVE  Sound(Ending(f), pc)
  BY EndingFields DEF Sound, StartPcs, EarlyPcs

(* Session i ends, by a stop. *)
LEMMA EndingKeeps ==
  ASSUME ForwardInv, NEW w \in Tasks, NEW r \in TaskState, Orderly(w, r),
         NEW i \in Forwards, forwards' = [forwards EXCEPT ![i] = Ending(@)],
         forwards[i].st # "none", Open(i), w \notin Forwards, w # Transition,
         stateLock' = stateLock, r.pc \notin BoundPcs
  PROVE  ForwardInv'
<1>1. forwards[i] \in Forward /\ Sound(forwards[i], tasks[i].pc)
  BY StartAt
<1>2. PICK f \in Forward : f = Ending(forwards[i])
  BY <1>1, EndingFields
<1>3. /\ f.st = "Stopping" /\ f.listed = forwards[i].listed /\ f.keyed = forwards[i].keyed
      /\ f.target = forwards[i].target /\ f.context = forwards[i].context
  BY <1>1, <1>2, EndingFields
<1>4. Sound(f, tasks[i].pc)
  BY <1>1, <1>2, EndedSound
<1>5. forwards' = [forwards EXCEPT ![i] = f]
  BY <1>2
<1>7. /\ i = w => Sound(f, r.pc)
      /\ i # w => Sound(f, tasks[i].pc)
  BY <1>4
<1>8. f.st # "Active" /\ f.st # "none" /\ (f.st \notin Terminal => forwards[i].st \notin Terminal)
  BY <1>3 DEF Open
<1>10. /\ stateLock = Transition => stateLock' = Transition
       /\ w \in Forwards /\ w # i => Sound(forwards[w], r.pc)
       /\ r.pc \in BoundPcs => tasks[w].pc \in BoundPcs
  OBVIOUS
<1>11. /\ f.listed => forwards[i].listed
       /\ f.keyed => forwards[i].keyed
       /\ f.st = "Active" => forwards[i].st = "Active"
  BY <1>3
<1>12. OneMoves(w, r, i, f)
  BY <1>3, <1>5, <1>7, <1>8, <1>10, <1>11 DEF OneMoves
<1> QED
  BY <1>12, OneKeeps

(* Session i has its verdict, by the task w. *)
LEMMA VerdictKeeps ==
  ASSUME ForwardInv, NEW w \in Tasks, NEW r \in TaskState, Orderly(w, r),
         NEW i \in Forwards, NEW st \in Terminal,
         forwards' = [forwards EXCEPT ![i] = [@ EXCEPT !.st = st]],
         forwards[i].st = "Stopping", stateLock' = stateLock,
         w \in Forwards => w = i /\ tasks[i].pc = "joining" /\ r.pc = "announcing end",
         w = Transition /\ r.pc \in MarkPcs => tasks[w].pc \in MarkPcs,
         \A j \in tasks[w].todo : w = Transition => j \in r.todo,
         w = Transition => r.todo \subseteq tasks[w].todo /\ r.pc # "announcing mark",
         r.pc \notin BoundPcs
  PROVE  ForwardInv'
<1> forwards[i] \in Forward /\ Sound(forwards[i], tasks[i].pc)
  BY StartAt
<1>2. PICK f : f = [forwards[i] EXCEPT !.st = st]
  OBVIOUS
<1>3. /\ f \in Forward /\ f.st = st /\ f.listed = forwards[i].listed
      /\ f.keyed = forwards[i].keyed /\ f.cancelled = forwards[i].cancelled
      /\ f.target = forwards[i].target /\ f.context = forwards[i].context
      /\ f.loop = forwards[i].loop /\ f.handle = forwards[i].handle
  BY <1>2 DEF Forward, Terminal
<1>4. Sound(f, tasks[i].pc)
  BY <1>3 DEF Sound, Terminal, StartPcs, EarlyPcs
<1>5. tasks[i].pc = "joining" => Sound(f, "announcing end")
  BY <1>3, <1>4 DEF Sound, Terminal, StartPcs, EarlyPcs, OpenPcs
<1>6. forwards' = [forwards EXCEPT ![i] = f]
  BY <1>2
<1>7. /\ i = w => Sound(f, r.pc)
      /\ i # w => Sound(f, tasks[i].pc)
  BY <1>4, <1>5
<1>8. f.st # "Active" /\ f.st # "none" /\ forwards[i].st \notin Terminal
  BY <1>3 DEF Terminal
<1>9. \A j \in tasks[w].todo :
        w = Transition => j \in r.todo \/ forwards'[j].st # "Active"
  OBVIOUS
<1>10. /\ stateLock = Transition => stateLock' = Transition
       /\ w \in Forwards /\ w # i => Sound(forwards[w], r.pc)
       /\ r.pc \in BoundPcs => tasks[w].pc \in BoundPcs
  OBVIOUS
<1>11. /\ f.listed => forwards[i].listed
       /\ f.keyed => forwards[i].keyed
       /\ f.st = "Active" => forwards[i].st = "Active"
       /\ f.st # "Starting"
  BY <1>3, <1>8 DEF Terminal
<1>12. OneMoves(w, r, i, f)
  BY <1>3, <1>6, <1>7, <1>8, <1>9, <1>10, <1>11 DEF OneMoves
<1> QED
  BY <1>3, <1>12, OneKeeps

(* A task that ends sessions goes on and changes none. *)
LEMMA EndGoes ==
  ASSUME ForwardInv, NEW w \in Tasks, NEW pc \in EndPcs, Goto(w, pc), forwards' = forwards,
         UNCHANGED <<committed, stateLock, gate, clockVars>>,
         inner' \in [Forwards -> Tasks \cup {Nobody}],
         pc \in LockPcs => stateLock = w,
         pc \in SessionPcs => tasks[w].at \in Forwards,
         w \in Forwards => Sound(forwards[w], pc),
         w = Transition /\ pc \in MarkPcs => tasks[w].pc \in MarkPcs,
         w = Transition => pc # "announcing mark"
  PROVE  ForwardInv'
<1>1. PICK r \in TaskState :
        tasks' = [tasks EXCEPT ![w] = r] /\ r.pc = pc /\ r.at = tasks[w].at
        /\ r.todo = tasks[w].todo
  <2>1. pc \in StartPcs \cup EndPcs /\ ForwardTypeOK /\ w \in Tasks /\ Goto(w, pc)
    BY DEF ForwardInv
  <2> QED
    BY ONLY <2>1, GotoMoves
<1>2. pc \notin GatePcs \cup BoundPcs
  BY DEF GatePcs, BoundPcs, EndPcs
<1>3. Orderly(w, r)
  BY <1>1, <1>2, StartAt, OrderlyIf
<1> QED
  BY <1>1, <1>2, <1>3, TaskKeeps

LEMMA PublishedKeeps ==
  ASSUME ForwardInv,
         \/ \E s \in StopRequests : AnnounceStop(s)
         \/ \E w \in Forwards \cup StopRequests : AnnounceEnd(w)
         \/ AnnounceDrain
  PROVE  ForwardInv'
<1> USE DEF PublishHeld
<1>1. ASSUME NEW s \in StopRequests, AnnounceStop(s) PROVE ForwardInv'
  <2>1. s \in Tasks /\ s \notin Forwards /\ s # Transition
    BY TaskKinds
  <2>2. tasks[s].at \in Forwards
    BY <1>1, <2>1, LockHolder DEF AnnounceStop, SessionPcs
  <2>3. inner' \in [Forwards -> Tasks \cup {Nobody}]
    BY <1>1, InnerTypes DEF AnnounceStop
  <2> QED
    BY <1>1, <2>1, <2>2, <2>3, EndGoes DEF AnnounceStop, EndPcs, LockPcs, MarkPcs
<1>2. ASSUME NEW w \in Forwards \cup StopRequests, AnnounceEnd(w) PROVE ForwardInv'
  <2>1. w \in Tasks /\ w # Transition
    BY TaskKinds
  <2>2. w \in Forwards => Sound(forwards[w], "done")
    <3>1. w \in Forwards => Sound(forwards[w], "announcing end")
      BY <1>2, StartAt DEF AnnounceEnd
    <3> QED
      BY <3>1 DEF Sound, StartPcs, EarlyPcs, OpenPcs
  <2>3. inner' \in [Forwards -> Tasks \cup {Nobody}]
    BY <1>2, InnerTypes DEF AnnounceEnd
  <2> QED
    BY <1>2, <2>1, <2>2, <2>3, EndGoes DEF AnnounceEnd, EndPcs, LockPcs, SessionPcs, MarkPcs
<1>3. ASSUME AnnounceDrain PROVE ForwardInv'
  <2>1. Transition \in Tasks /\ Transition \notin Forwards
    BY TaskKinds
  <2>2. stateLock = Transition /\ tasks[Transition].pc \in MarkPcs
    BY <1>3, <2>1, LockHolder DEF AnnounceDrain, LockPcs, MarkPcs
  <2>3. inner' \in [Forwards -> Tasks \cup {Nobody}]
    BY <1>3, InnerTypes DEF AnnounceDrain
  <2> QED
    BY <1>3, <2>1, <2>2, <2>3, EndGoes DEF AnnounceDrain, EndPcs, LockPcs, SessionPcs
<1> QED
  BY <1>1, <1>2, <1>3

LEMMA AskStopKeeps ==
  ASSUME ForwardInv, NEW s \in StopRequests, NEW i \in Forwards, AskStop(s, i)
  PROVE  ForwardInv'
<1> s \in Tasks /\ s \notin Forwards /\ s # Transition /\ tasks[s] \in TaskState
  BY TaskKinds DEF ForwardInv, ForwardTypeOK
<1>1. \E r \in TaskState :
        /\ tasks' = [tasks EXCEPT ![s] = r]
        /\ (r.pc = "stopping" /\ r.at = i) \/ r.pc = "done"
  <2>1. CASE forwards[i].listed
    <3>1. PICK r : r = [tasks[s] EXCEPT !.pc = "stopping", !.at = i]
      OBVIOUS
    <3>2. r \in TaskState /\ r.pc = "stopping" /\ r.at = i
      BY <3>1, TaskKinds DEF TaskState, EndPcs
    <3> QED
      BY <2>1, <3>1, <3>2 DEF AskStop
  <2>2. CASE ~forwards[i].listed
    BY <2>2, DoneMoves DEF AskStop
  <2> QED
    BY <2>1, <2>2
<1>2. PICK r \in TaskState :
        /\ tasks' = [tasks EXCEPT ![s] = r]
        /\ (r.pc = "stopping" /\ r.at = i) \/ r.pc = "done"
  BY <1>1
<1>3. Orderly(s, r)
  BY <1>2, InnerTypes, OrderlyIf DEF AskStop, locks, LockPcs, GatePcs, SessionPcs
<1> QED
  BY <1>2, <1>3, TaskKeeps DEF AskStop, locks, BoundPcs

LEMMA StopKeeps ==
  ASSUME ForwardInv, NEW s \in StopRequests, Stop(s)
  PROVE  ForwardInv'
<1> s \in Tasks /\ s \notin Forwards /\ s # Transition /\ tasks[s] \in TaskState
  BY TaskKinds DEF ForwardInv, ForwardTypeOK
<1>1. PICK i \in Forwards : i = tasks[s].at
  BY LockHolder DEF Stop, SessionPcs
<1>2. CASE forwards[i].st \in {"Starting", "Active"}
  <2>1. PICK r : r = [tasks[s] EXCEPT !.pc = "announcing stop", !.took = forwards[i].handle]
    OBVIOUS
  <2>2. forwards[i].handle \in BOOLEAN
    BY StartAt DEF Forward
  <2>3. r \in TaskState /\ r.pc = "announcing stop" /\ r.at = i
    BY <1>1, <2>1, <2>2 DEF TaskState, EndPcs
  <2>4. /\ tasks' = [tasks EXCEPT ![s] = r] /\ forwards' = [forwards EXCEPT ![i] = Ending(@)]
        /\ inner' = [inner EXCEPT ![i] = s]
    BY <1>1, <1>2, <2>1 DEF Stop
  <2>5. inner' \in [Forwards -> Tasks \cup {Nobody}]
    BY <2>4, InnerTypes
  <2>6. Orderly(s, r)
    BY <2>3, <2>4, <2>5, OrderlyIf DEF Stop, LockPcs, GatePcs, SessionPcs
  <2> QED
    BY <1>2, <2>3, <2>4, <2>6, EndingKeeps DEF Stop, Open, Terminal, BoundPcs
<1>3. CASE forwards[i].st \notin {"Starting", "Active"}
  <2>1. PICK r \in TaskState : tasks' = [tasks EXCEPT ![s] = r] /\ r.pc = "done"
    BY <1>1, <1>3, DoneMoves DEF Stop
  <2>2. Orderly(s, r)
    BY <1>1, <1>3, <2>1, InnerTypes, OrderlyIf DEF Stop, LockPcs, GatePcs, SessionPcs
  <2> QED
    BY <1>1, <1>3, <2>1, <2>2, TaskKeeps DEF Stop, BoundPcs
<1> QED
  BY <1>2, <1>3

LEMMA FinishKeeps ==
  ASSUME ForwardInv, NEW w \in Forwards \cup StopRequests, Finish(w)
  PROVE  ForwardInv'
<1> w \in Tasks /\ w # Transition /\ tasks[w] \in TaskState
  BY TaskKinds DEF ForwardInv, ForwardTypeOK
<1>1. PICK i \in Forwards : i = tasks[w].at
  BY LockHolder DEF Finish, SessionPcs
<1>2. w \in Forwards => w = i
  BY <1>1, StartAt
<1>3. CASE forwards[i].st = "Stopping"
  <2>1. PICK r \in TaskState :
          tasks' = [tasks EXCEPT ![w] = r] /\ r.pc = "announcing end" /\ r.at = i
    <3>1. PICK pc \in StartPcs \cup EndPcs : pc = "announcing end"
      BY DEF EndPcs
    <3>2. Goto(w, pc) /\ ForwardTypeOK
      BY <1>1, <1>3, <3>1 DEF Finish, ForwardInv
    <3>3. PICK r \in TaskState :
            tasks' = [tasks EXCEPT ![w] = r] /\ r.pc = pc /\ r.at = tasks[w].at
      BY <3>2, GotoMoves
    <3> QED
      BY <1>1, <3>1, <3>3
  <2>2. PICK st \in Terminal : st = Verdict(w)
    BY DEF Verdict, Terminal
  <2>3. forwards' = [forwards EXCEPT ![i] = [@ EXCEPT !.st = st]]
        /\ inner' = [inner EXCEPT ![i] = w]
    BY <1>1, <1>3, <2>2 DEF Finish
  <2>4. inner' \in [Forwards -> Tasks \cup {Nobody}]
    BY <2>3, InnerTypes
  <2>5. Orderly(w, r)
    BY <1>2, <2>1, <2>4, OrderlyIf DEF Finish, LockPcs, GatePcs, SessionPcs
  <2> QED
    BY <1>1, <1>2, <1>3, <2>1, <2>3, <2>5, VerdictKeeps DEF Finish, BoundPcs
<1>4. CASE forwards[i].st # "Stopping"
  <2>1. PICK r \in TaskState : tasks' = [tasks EXCEPT ![w] = r] /\ r.pc = "done" /\ r.at = w
    BY <1>1, <1>4, DoneMoves DEF Finish
  <2>2. Orderly(w, r)
    <3>1. forwards' = forwards /\ inner' = inner
      BY <1>1, <1>4 DEF Finish
    <3>2. r.pc \notin LockPcs \cup GatePcs \cup SessionPcs
      BY <2>1 DEF LockPcs, GatePcs, SessionPcs
    <3> QED
      BY <2>1, <3>1, <3>2, InnerTypes, OrderlyIf DEF Finish
  <2>3. w \in Forwards => Sound(forwards[w], "done")
    <3>1. w \in Forwards => Sound(forwards[w], "joining")
      BY StartAt DEF Finish
    <3> QED
      BY <3>1 DEF Sound, StartPcs, EarlyPcs, OpenPcs
  <2> QED
    BY <1>1, <1>4, <2>1, <2>2, <2>3, TaskKeeps DEF Finish, BoundPcs
<1> QED
  BY <1>3, <1>4

---------------------------------------------------------------------------
(* The accept loop, its connections, and their failures *)

(* Only session i changes, and it only loses its loop, its connection or its life. *)
LEMMA OpenFailsKeeps ==
  ASSUME ForwardInv, NEW i \in Forwards, OpenFails(i)
  PROVE  ForwardInv'
<1> /\ i \in Tasks /\ i # Transition /\ forwards[i] \in Forward
    /\ Sound(forwards[i], tasks[i].pc) /\ forwards[i].st = "Active"
  BY StartAt DEF OpenFails
<1>1. PICK g \in Forward : g = Ending(forwards[i])
  BY EndingFields
<1>2. PICK f : f = [g EXCEPT !.pump = FALSE]
  OBVIOUS
<1>3. f \in Forward /\ f.st = g.st /\ f.listed = g.listed /\ f.keyed = g.keyed
      /\ f.cancelled = g.cancelled /\ f.target = g.target /\ f.context = g.context
      /\ f.loop = g.loop /\ f.handle = g.handle
  BY <1>2 DEF Forward
<1>4. /\ f.st = "Stopping" /\ f.listed = forwards[i].listed /\ f.keyed = forwards[i].keyed
      /\ f.cancelled /\ ~f.handle
      /\ f.target = forwards[i].target /\ f.context = forwards[i].context
  BY <1>1, <1>3, EndingFields
<1>5. Sound(f, "joining")
  BY <1>4 DEF Sound, StartPcs, EarlyPcs, OpenPcs
<1>6. forwards' = [forwards EXCEPT ![i] = f]
  BY <1>1, <1>2 DEF OpenFails
<1>7. PICK t \in TaskState : t = Task(i) /\ t.at = i
  BY FreshTask
<1>8. PICK r : r = [t EXCEPT !.pc = "joining", !.took = forwards[i].handle]
  OBVIOUS
<1>9. r \in TaskState /\ r.pc = "joining" /\ r.at = i
  <2>1. forwards[i].handle \in BOOLEAN
    BY DEF Forward
  <2> QED
    BY <1>7, <1>8, <2>1 DEF TaskState, EndPcs
<1>10. tasks' = [tasks EXCEPT ![i] = r]
  BY <1>7, <1>8 DEF OpenFails
<1>11. Orderly(i, r)
  BY <1>9, <1>10, InnerTypes, OrderlyIf DEF OpenFails, locks, LockPcs, GatePcs, SessionPcs
<1>12. OneMoves(i, r, i, f)
  BY <1>4, <1>5, <1>6, <1>9, <1>11 DEF OneMoves, OpenFails, locks, BoundPcs, Terminal
<1> QED
  BY <1>3, <1>9, <1>12, OneKeeps

(* A step of a session's own loop or connection moves no task. *)
LEMMA LoopChanges ==
  ASSUME ForwardInv, NEW i \in Forwards, NEW f \in Forward,
         forwards' = [forwards EXCEPT ![i] = f],
         UNCHANGED <<tasks, committed, switches, locks, clockVars>>,
         f.target = forwards[i].target, f.context = forwards[i].context,
         f.listed = forwards[i].listed, f.keyed = forwards[i].keyed, f.st = forwards[i].st,
         f.cancelled = forwards[i].cancelled, f.handle = forwards[i].handle,
         f.loop => forwards[i].loop
  PROVE  ForwardInv'
<1> /\ i \in Tasks /\ i # Transition /\ Sound(forwards[i], tasks[i].pc)
    /\ tasks[i] \in TaskState /\ tasks[i].at = i
  BY StartAt
<1>1. Sound(f, tasks[i].pc)
  BY DEF Sound
<1>2. tasks' = [tasks EXCEPT ![i] = tasks[i]]
  BY DEF ForwardInv, ForwardTypeOK
<1>3. PICK r \in TaskState : r = tasks[i]
  OBVIOUS
<1>4. Orderly(i, r)
  BY <1>2, <1>3, LockHolder, InnerTypes, OrderlyIf DEF locks
<1>5. OneMoves(i, r, i, f)
  BY <1>1, <1>3, <1>4 DEF OneMoves, locks
<1> QED
  BY <1>5, OneKeeps

LEMMA LoopKeeps ==
  ASSUME ForwardInv, NEW i \in Forwards, Accept(i) \/ LoopEnds(i) \/ PumpEnds(i)
  PROVE  ForwardInv'
<1> forwards[i] \in Forward
  BY StartAt
<1>1. ASSUME NEW b \in BOOLEAN, forwards' = [forwards EXCEPT ![i].pump = b]
      PROVE  \E f \in Forward :
               /\ forwards' = [forwards EXCEPT ![i] = f]
               /\ f.target = forwards[i].target /\ f.context = forwards[i].context
               /\ f.listed = forwards[i].listed /\ f.keyed = forwards[i].keyed
               /\ f.st = forwards[i].st /\ f.cancelled = forwards[i].cancelled
               /\ f.handle = forwards[i].handle /\ f.loop = forwards[i].loop
  <2>1. PICK f : f = [forwards[i] EXCEPT !.pump = b]
    OBVIOUS
  <2>2. f \in Forward
        /\ f.target = forwards[i].target /\ f.context = forwards[i].context
        /\ f.listed = forwards[i].listed /\ f.keyed = forwards[i].keyed
        /\ f.st = forwards[i].st /\ f.cancelled = forwards[i].cancelled
        /\ f.handle = forwards[i].handle /\ f.loop = forwards[i].loop
    BY <2>1 DEF Forward
  <2>3. forwards' = [forwards EXCEPT ![i] = f]
    BY <1>1, <2>1
  <2> QED
    BY <2>2, <2>3
<1>2. CASE Accept(i) \/ PumpEnds(i)
  <2>1. PICK f \in Forward :
               /\ forwards' = [forwards EXCEPT ![i] = f]
               /\ f.target = forwards[i].target /\ f.context = forwards[i].context
               /\ f.listed = forwards[i].listed /\ f.keyed = forwards[i].keyed
               /\ f.st = forwards[i].st /\ f.cancelled = forwards[i].cancelled
               /\ f.handle = forwards[i].handle /\ f.loop = forwards[i].loop
    BY <1>1, <1>2 DEF Accept, PumpEnds
  <2> QED
    BY <1>2, <2>1, LoopChanges DEF Accept, PumpEnds
<1>3. CASE LoopEnds(i)
  <2>1. PICK f : f = [forwards[i] EXCEPT !.loop = FALSE]
    OBVIOUS
  <2>2. f \in Forward /\ ~f.loop
        /\ f.target = forwards[i].target /\ f.context = forwards[i].context
        /\ f.listed = forwards[i].listed /\ f.keyed = forwards[i].keyed
        /\ f.st = forwards[i].st /\ f.cancelled = forwards[i].cancelled
        /\ f.handle = forwards[i].handle
    BY <2>1 DEF Forward
  <2>3. forwards' = [forwards EXCEPT ![i] = f]
    BY <1>3, <2>1 DEF LoopEnds
  <2> QED
    BY <1>3, <2>2, <2>3, LoopChanges DEF LoopEnds
<1> QED
  BY <1>2, <1>3

---------------------------------------------------------------------------
(* The gate of a context switch *)

LEMMA BeginKeeps ==
  ASSUME ForwardInv, NEW to \in ForwardContexts, BeginTransition(to)
  PROVE  ForwardInv'
<1> DEFINE o(t) == [t EXCEPT !.seen = FALSE]
<1>1. ASSUME NEW t \in TaskState
      PROVE  o(t) \in TaskState /\ o(t).pc = t.pc /\ o(t).at = t.at /\ o(t).todo = t.todo
  BY DEF TaskState
<1>2. PICK t \in TaskState : t = Task(Transition)
  BY FreshTask, TaskKinds
<1>3. PICK b : b = [t EXCEPT !.pc = "marking", !.todo = Listed, !.to = to]
  OBVIOUS
<1>4. b \in TaskState /\ b.pc = "marking" /\ b.todo = Listed
  <2>1. Listed \in SUBSET Forwards
    BY DEF Listed
  <2> QED
    BY <1>2, <1>3, <2>1 DEF TaskState, EndPcs
<1>5. tasks' = [w \in Tasks |-> IF w = Transition THEN b ELSE o(tasks[w])]
  BY <1>2, <1>3 DEF BeginTransition
<1> HIDE DEF o
<1>6. \A w \in Tasks : tasks[w] \in TaskState
  BY DEF ForwardInv, ForwardTypeOK
<1>7. /\ tasks' \in [Tasks -> TaskState] /\ tasks'[Transition] = b
      /\ \A w \in Tasks \ {Transition} :
           tasks'[w].pc = tasks[w].pc /\ tasks'[w].at = tasks[w].at
  BY <1>1, <1>4, <1>5, <1>6, TaskKinds
<1>8. /\ stateLock = Nobody /\ stateLock' = Transition
      /\ UNCHANGED <<forwards, committed, gate, inner, revision, drafts>>
  BY DEF BeginTransition, clockVars
<1>9. ForwardTypeOK'
  BY <1>7, <1>8, TaskKinds DEF ForwardInv, ForwardTypeOK
<1>10. \A w \in Tasks : tasks[w].pc \notin LockPcs
  BY <1>8, LockHolder, TaskKinds
<1>11. LocksHeld'
  BY <1>4, <1>7, <1>8, <1>10, TaskKinds DEF ForwardInv, LocksHeld, GatePcs, SessionPcs
<1>12. SessionsSound'
  BY <1>7, <1>8, TaskKinds DEF ForwardInv, SessionsSound
<1>13. \A i \in Forwards : NoMore(i) /\ NoNewBind(i)
  BY <1>7, <1>8, TaskKinds DEF NoMore, NoNewBind
<1>14. CheckedStill' /\ ActivesApart' /\ ForwardsBounded'
  BY <1>8, <1>12, <1>13, CalmChecked, CalmActives, CalmBounded
<1>15. MarkReachesAll'
  BY <1>4, <1>7, <1>8
     DEF MarkReachesAll, BeingMarked, IsActive, Listed, ForwardInv, SessionsSound, Sound
<1> QED
  BY <1>9, <1>11, <1>12, <1>14, <1>15 DEF ForwardInv

LEMMA MarkKeeps ==
  ASSUME ForwardInv, NEW i \in Forwards, MarkSession(i)
  PROVE  ForwardInv'
<1> /\ Transition \in Tasks /\ Transition \notin Forwards /\ tasks[Transition] \in TaskState
    /\ tasks[Transition].pc = "marking" /\ stateLock = Transition
  BY TaskKinds, LockHolder DEF ForwardInv, ForwardTypeOK, MarkSession, LockPcs
<1> PICK t \in TaskState : t = tasks[Transition]
  OBVIOUS
<1>1. CASE Open(i)
  <2>1. forwards[i] \in Forward /\ Sound(forwards[i], tasks[i].pc)
    BY StartAt
  <2>2. PICK f : f = [forwards[i] EXCEPT !.st = "Stopping"]
    OBVIOUS
  <2>3. /\ f \in Forward /\ f.st = "Stopping" /\ f.listed = forwards[i].listed
        /\ f.keyed = forwards[i].keyed /\ f.cancelled = forwards[i].cancelled
        /\ f.target = forwards[i].target /\ f.context = forwards[i].context
        /\ f.loop = forwards[i].loop /\ f.handle = forwards[i].handle
    BY <2>1, <2>2 DEF Forward
  <2>4. PICK r : r = [t EXCEPT !.pc = "announcing mark", !.at = i, !.todo = t.todo \ {i}]
    OBVIOUS
  <2>5. r \in TaskState /\ r.pc = "announcing mark" /\ r.at = i /\ r.todo = t.todo \ {i}
    BY <2>4, TaskKinds DEF TaskState, EndPcs
  <2>6. /\ tasks' = [tasks EXCEPT ![Transition] = r]
        /\ forwards' = [forwards EXCEPT ![i] = f]
        /\ inner' = [inner EXCEPT ![i] = Transition]
    BY <1>1, <2>2, <2>4 DEF MarkSession
  <2>7. inner' \in [Forwards -> Tasks \cup {Nobody}]
    BY <2>6, InnerTypes
  <2>8. Orderly(Transition, r)
    BY <2>5, <2>6, <2>7, OrderlyIf DEF MarkSession, LockPcs, GatePcs, SessionPcs
  <2>9. forwards[i].st # "none" /\ forwards[i].st \notin Terminal
    BY <1>1 DEF MarkSession, ForwardInv, MarkReachesAll, Open
  <2>10. Sound(f, tasks[i].pc)
    BY <2>1, <2>3, <2>9 DEF Sound, StartPcs, EarlyPcs
  <2>11. \A j \in t.todo : j \in r.todo \/ forwards'[j].st # "Active"
    BY <2>3, <2>5, <2>6 DEF ForwardInv, ForwardTypeOK
  <2>12. OneMoves(Transition, r, i, f)
    BY <2>3, <2>5, <2>6, <2>8, <2>9, <2>10, <2>11
       DEF OneMoves, MarkSession, MarkPcs, BoundPcs
  <2> QED
    BY <2>3, <2>5, <2>12, OneKeeps
<1>2. CASE ~Open(i)
  <2>1. PICK r : r = [t EXCEPT !.todo = @ \ {i}]
    OBVIOUS
  <2>2. r \in TaskState /\ r.pc = "marking" /\ r.todo = t.todo \ {i}
    BY <2>1 DEF TaskState
  <2>3. tasks' = [tasks EXCEPT ![Transition] = r] /\ forwards' = forwards /\ inner' = inner
    BY <1>2, <2>1 DEF MarkSession
  <2>4. Orderly(Transition, r)
    BY <2>2, <2>3, InnerTypes, OrderlyIf DEF MarkSession, LockPcs, GatePcs, SessionPcs
  <2>5. forwards[i].st # "Active"
    BY <1>2 DEF Open, Terminal
  <2> QED
    BY <2>2, <2>3, <2>4, <2>5, TaskKeeps DEF MarkSession, MarkPcs, BoundPcs
<1> QED
  BY <1>1, <1>2

(* With the gate, the session is cancelled and stays as it is otherwise. *)
LEMMA AnnounceMarkKeeps ==
  ASSUME ForwardInv, AnnounceMark
  PROVE  ForwardInv'
<1> /\ Transition \in Tasks /\ Transition \notin Forwards /\ tasks[Transition] \in TaskState
    /\ tasks[Transition].pc = "announcing mark" /\ stateLock = Transition
  BY TaskKinds, LockHolder DEF ForwardInv, ForwardTypeOK, AnnounceMark, LockPcs
<1> PICK t \in TaskState : t = tasks[Transition]
  OBVIOUS
<1>1. PICK i \in Forwards : i = t.at
  BY LockHolder DEF SessionPcs
<1>2. forwards[i] \in Forward /\ Sound(forwards[i], tasks[i].pc)
  BY StartAt
<1>3. PICK f \in Forward : f = Cancel(forwards[i])
  BY <1>2, CancelFields
<1>4. /\ f.st = forwards[i].st /\ f.cancelled /\ ~f.handle
      /\ f.listed = forwards[i].listed /\ f.keyed = forwards[i].keyed
      /\ f.target = forwards[i].target /\ f.context = forwards[i].context
      /\ f.loop = forwards[i].loop
  BY <1>2, <1>3, CancelFields
<1>5. [id |-> i, took |-> forwards[i].handle] \in [id : Forwards, took : BOOLEAN]
  BY <1>2 DEF Forward
<1>6. PICK r : r = [t EXCEPT !.pc = "marking",
                      !.joins = t.joins \cup {[id |-> i, took |-> forwards[i].handle]}]
  OBVIOUS
<1>7. r \in TaskState /\ r.pc = "marking" /\ r.todo = t.todo
  BY <1>5, <1>6 DEF TaskState, EndPcs
<1>8. /\ tasks' = [tasks EXCEPT ![Transition] = r]
      /\ forwards' = [forwards EXCEPT ![i] = f]
      /\ inner' = [inner EXCEPT ![i] = Nobody]
  BY <1>1, <1>3, <1>6 DEF AnnounceMark
<1>9. inner' \in [Forwards -> Tasks \cup {Nobody}]
  BY <1>8, InnerTypes
<1>10. Orderly(Transition, r)
  BY <1>7, <1>8, <1>9, OrderlyIf DEF AnnounceMark, LockPcs, GatePcs, SessionPcs
<1>11. forwards[i].st \notin LiveStates
  BY <1>1 DEF ForwardInv, MarkReachesAll, BeingMarked
<1>12. Sound(f, tasks[i].pc)
  BY <1>2, <1>4, <1>11 DEF Sound, StartPcs, EarlyPcs, LiveStates
<1>13. OneMoves(Transition, r, i, f)
  BY <1>4, <1>7, <1>8, <1>10, <1>12 DEF OneMoves, AnnounceMark, MarkPcs, BoundPcs
<1> QED
  BY <1>7, <1>13, OneKeeps

LEMMA DrainKeeps ==
  ASSUME ForwardInv, NEW j \in tasks[Transition].joins, Drain(j)
  PROVE  ForwardInv'
<1> /\ Transition \in Tasks /\ Transition \notin Forwards /\ tasks[Transition] \in TaskState
    /\ tasks[Transition].pc = "marking" /\ stateLock = Transition
  BY TaskKinds, LockHolder DEF ForwardInv, ForwardTypeOK, Drain, LockPcs
<1> PICK t \in TaskState : t = tasks[Transition]
  OBVIOUS
<1>1. j \in [id : Forwards, took : BOOLEAN] /\ j.id \in Forwards
  BY DEF TaskState
<1>2. PICK i \in Forwards : i = j.id
  BY <1>1
<1>3. PICK next : next = [tasks[Transition] EXCEPT !.at = j.id,
                                                   !.joins = tasks[Transition].joins \ {j}]
  OBVIOUS
<1>4. next \in TaskState /\ next.pc = "marking" /\ next.todo = t.todo /\ next.at = i
  BY <1>1, <1>2, <1>3, TaskKinds DEF TaskState
<1>5. CASE forwards[i].st = "Stopping"
  <2>1. PICK r : r = [next EXCEPT !.pc = "announcing drain"]
    OBVIOUS
  <2>2. r \in TaskState /\ r.pc = "announcing drain" /\ r.todo = t.todo /\ r.at = i
    BY <1>4, <2>1 DEF TaskState, EndPcs
  <2>3. tasks' = [tasks EXCEPT ![Transition] = r]
    BY <1>2, <1>3, <1>5, <2>1 DEF Drain
  <2>4. /\ forwards' = [forwards EXCEPT ![i] = [@ EXCEPT !.st = "Stopped"]]
        /\ inner' = [inner EXCEPT ![i] = Transition]
    BY <1>2, <1>5 DEF Drain
  <2>5. inner' \in [Forwards -> Tasks \cup {Nobody}]
    BY <2>4, InnerTypes
  <2>6. Orderly(Transition, r)
    BY <2>2, <2>3, <2>5, OrderlyIf DEF Drain, LockPcs, GatePcs, SessionPcs
  <2>7. "Stopped" \in Terminal
    BY DEF Terminal
  <2> QED
    BY <1>5, <2>2, <2>4, <2>6, <2>7, VerdictKeeps DEF Drain, MarkPcs, BoundPcs
<1>6. CASE forwards[i].st # "Stopping"
  <2>1. tasks' = [tasks EXCEPT ![Transition] = next] /\ forwards' = forwards /\ inner' = inner
    BY <1>2, <1>3, <1>6 DEF Drain
  <2>2. Orderly(Transition, next)
    BY <1>4, <2>1, InnerTypes, OrderlyIf DEF Drain, LockPcs, GatePcs, SessionPcs
  <2> QED
    BY <1>4, <2>1, <2>2, TaskKeeps DEF Drain, MarkPcs, BoundPcs
<1> QED
  BY <1>5, <1>6

(* No session is Active any more when the context changes. *)
LEMMA CommitKeeps ==
  ASSUME ForwardInv, NEW ok \in BOOLEAN, Commit(ok)
  PROVE  ForwardInv'
<1> /\ Transition \in Tasks /\ Transition \notin Forwards /\ tasks[Transition] \in TaskState
    /\ tasks[Transition].pc = "marking" /\ tasks[Transition].todo = {}
    /\ stateLock = Transition
  BY TaskKinds, LockHolder DEF ForwardInv, ForwardTypeOK, Commit, LockPcs
<1>1. PICK t \in TaskState : t = Task(Transition) /\ t.pc = "idle" /\ t.at = Transition /\ t.todo = {}
  BY FreshTask
<1>2. /\ tasks' = [tasks EXCEPT ![Transition] = t] /\ stateLock' = Nobody
      /\ committed' = IF ok THEN tasks[Transition].to ELSE committed
      /\ UNCHANGED <<forwards, gate, inner, revision, drafts>>
  BY <1>1 DEF Commit, clockVars
<1>3. \A w \in Tasks : tasks'[w] = IF w = Transition THEN t ELSE tasks[w]
  BY <1>2 DEF ForwardInv, ForwardTypeOK
<1>4. ForwardTypeOK'
  <2>1. committed' \in ForwardContexts
    BY <1>2 DEF ForwardInv, ForwardTypeOK, TaskState
  <2> QED
    BY <1>2, <2>1 DEF ForwardInv, ForwardTypeOK
<1>5. \A w \in Tasks \ {Transition} : tasks[w].pc \notin LockPcs
  BY LockHolder
<1>6. LocksHeld'
  <2>1. t.pc \notin LockPcs \cup GatePcs \cup SessionPcs
    BY <1>1 DEF LockPcs, GatePcs, SessionPcs
  <2>2. \A w \in Tasks : tasks'[w].pc \notin LockPcs
    BY <1>3, <1>5, <2>1
  <2>3. \A w \in Tasks : tasks'[w].pc \in GatePcs => gate' = w
    BY <1>2, <1>3, <2>1, LockHolder
  <2>4. \A w \in Tasks : tasks'[w].pc \in SessionPcs => tasks'[w].at \in Forwards
    BY <1>3, <2>1, LockHolder
  <2>5. \A w \in Forwards : tasks'[w].at = w
    BY <1>3, StartAt
  <2>6. \A w \in Forwards : drafts'[w] # 0 => gate' = w
    BY <1>2 DEF ForwardInv, LocksHeld
  <2> QED
    BY <2>2, <2>3, <2>4, <2>5, <2>6 DEF LocksHeld
<1>7. SessionsSound'
  BY <1>2, <1>3, TaskKinds DEF ForwardInv, SessionsSound
<1>8. CheckedStill'
  BY <1>3, <1>5, TaskKinds DEF CheckedStill, LockPcs, BoundPcs
<1>9. \A i \in Forwards : ~IsActive(i)
  BY DEF ForwardInv, MarkReachesAll, MarkPcs
<1>10. ActivesApart'
  BY <1>2, <1>9 DEF ActivesApart, IsActive
<1>11. MarkReachesAll'
  BY <1>1, <1>3 DEF MarkReachesAll, BeingMarked, MarkPcs
<1>12. ForwardsBounded'
  <2>1. KeyedOpen' = KeyedOpen
    BY <1>2 DEF KeyedOpen, Listed, Open
  <2> QED
    BY <2>1, BoundedIf
<1> QED
  BY <1>4, <1>6, <1>7, <1>8, <1>10, <1>11, <1>12 DEF ForwardInv

---------------------------------------------------------------------------
(* The invariant *)

LEMMA ForwardInitially == ForwardInit => ForwardInv
<1> SUFFICES ASSUME ForwardInit PROVE ForwardInv
  OBVIOUS
<1>1. NoForward \in Forward /\ NoForward.st = "none" /\ ~NoForward.listed /\ ~NoForward.keyed
      /\ ~NoForward.cancelled /\ ~NoForward.loop /\ ~NoForward.handle
  BY ForwardAssumption DEF NoForward, Forward
<1>2. \A i \in Forwards : forwards[i] = NoForward
  BY DEF ForwardInit
<1>3. \A w \in Tasks :
        tasks[w] \in TaskState /\ tasks[w].pc = "idle" /\ tasks[w].at = w /\ tasks[w].todo = {}
  BY FreshTask DEF ForwardInit
<1>4. ForwardTypeOK
  <2>1. forwards \in [Forwards -> Forward] /\ tasks \in [Tasks -> TaskState]
    BY <1>1, <1>3 DEF ForwardInit
  <2>2. \A i \in Forwards : forwards[i].handle => forwards[i].keyed /\ ~forwards[i].cancelled
    BY <1>1, <1>2
  <2> QED
    BY <2>1, <2>2, ForwardAssumption DEF ForwardTypeOK, ForwardInit
<1>5. LocksHeld
  BY <1>3, TaskKinds DEF LocksHeld, LockPcs, GatePcs, SessionPcs, ForwardInit
<1>6. SessionsSound
  <2>1. Sound(NoForward, "idle")
    BY <1>1 DEF Sound, StartPcs, EarlyPcs, OpenPcs
  <2> QED
    BY <1>2, <1>3, <2>1, TaskKinds DEF SessionsSound
<1>7. CheckedStill /\ MarkReachesAll
  BY <1>3, TaskKinds DEF CheckedStill, MarkReachesAll, BeingMarked, BoundPcs, MarkPcs
<1>8. ActivesApart
  BY <1>1, <1>2 DEF ActivesApart, IsActive
<1>9. ForwardsBounded
  <2>1. KeyedOpen = {}
    BY <1>1, <1>2 DEF KeyedOpen, Listed
  <2>2. Cardinality(KeyedOpen) = 0
    BY <2>1, FS_EmptySet
  <2>3. 0 <= MaxForwards
    BY ForwardAssumption
  <2> QED
    BY <2>2, <2>3 DEF ForwardsBounded, KeyedOpen
<1> QED
  BY <1>4, <1>5, <1>6, <1>7, <1>8, <1>9 DEF ForwardInv

LEMMA ForwardStutters ==
  ASSUME ForwardInv, UNCHANGED forwardVars
  PROVE  ForwardInv'
<1>1. UNCHANGED <<forwards, tasks, committed, stateLock, gate, inner, revision, drafts>>
  BY DEF forwardVars, locks, clockVars
<1>2. \A i \in Forwards : NoMore(i) /\ NoNewBind(i)
  BY <1>1 DEF NoMore, NoNewBind
<1>3. ForwardTypeOK' /\ LocksHeld' /\ SessionsSound'
  BY <1>1 DEF ForwardInv, ForwardTypeOK, LocksHeld, SessionsSound
<1>4. tasks[Transition].todo \subseteq Forwards
  BY TaskKinds DEF ForwardInv, ForwardTypeOK, TaskState
<1>5. \A i \in Forwards : BeingMarked(i)' => BeingMarked(i)
  BY <1>1 DEF BeingMarked
<1> QED
  BY <1>1, <1>2, <1>3, <1>4, <1>5, CalmKeeps

LEMMA ForwardInductive == ForwardInv /\ [ForwardNext]_forwardVars => ForwardInv'
<1> SUFFICES ASSUME ForwardInv, [ForwardNext]_forwardVars PROVE ForwardInv'
  OBVIOUS
<1>1. ASSUME NEW w \in Forwards, NEW t \in Targets, NEW c \in ForwardContexts, Call(w, t, c)
      PROVE  ForwardInv'
  BY <1>1, CallKeeps
<1>2. ASSUME NEW w \in Forwards, StartStep(w) PROVE ForwardInv'
  BY <1>2, EnterKeeps, MatchKeeps, AnnounceKeeps, ResolveKeeps, LockingKeeps, DiscardKeeps,
     CheckKeeps, AwaitGateKeeps, ActivateKeeps, FailKeeps, FailurePublished DEF StartStep
<1>3. ASSUME NEW w \in Forwards, CancelStart(w) PROVE ForwardInv'
  BY <1>3, CancelKeeps
<1>4. ASSUME NEW w \in Forwards \cup StopRequests, EndStep(w) PROVE ForwardInv'
  BY <1>4, FinishKeeps, PublishedKeeps DEF EndStep
<1>5. ASSUME NEW s \in StopRequests, NEW i \in Forwards, AskStop(s, i) PROVE ForwardInv'
  BY <1>5, AskStopKeeps
<1>6. ASSUME NEW s \in StopRequests, StopStep(s) PROVE ForwardInv'
  BY <1>4, <1>6, StopKeeps, PublishedKeeps DEF StopStep
<1>7. ASSUME NEW i \in Forwards, OpenFails(i) \/ Accept(i) \/ LoopEnds(i) \/ PumpEnds(i)
      PROVE  ForwardInv'
  BY <1>7, OpenFailsKeeps, LoopKeeps
<1>8. ASSUME NEW to \in ForwardContexts, BeginTransition(to) PROVE ForwardInv'
  BY <1>8, BeginKeeps
<1>9. ASSUME TransitionStep PROVE ForwardInv'
  BY <1>9, MarkKeeps, AnnounceMarkKeeps, PublishedKeeps, DrainKeeps, CommitKeeps
     DEF TransitionStep
<1> QED
  BY <1>1, <1>2, <1>3, <1>4, <1>5, <1>6, <1>7, <1>8, <1>9, ForwardStutters DEF ForwardNext

LEMMA ForwardInvHolds == ForwardSpec => []ForwardInv
  BY ForwardInitially, ForwardInductive, PTL DEF ForwardSpec

(* Sessions, tasks and locks keep their types, and the handle of an accept loop *)
(* is only there while its session is not cancelled: who cancels a session      *)
(* takes the handle (port_forward.rs, SessionInner).                            *)
THEOREM ForwardTypeCorrect == ForwardSpec => []ForwardTypeOK
<1>1. ForwardInv => ForwardTypeOK
  BY DEF ForwardInv
<1> QED
  BY <1>1, ForwardInvHolds, PTL

---------------------------------------------------------------------------
(* What subscribers see *)

(* Only session i changes, and it had no verdict or keeps its state. *)
LEMMA OneVerdictStands ==
  ASSUME ForwardInv, NEW i \in Forwards, NEW f, forwards' = [forwards EXCEPT ![i] = f],
         forwards[i].st \notin Terminal \/ f.st = forwards[i].st
  PROVE  VerdictsStand
  BY DEF VerdictsStand, ForwardInv, ForwardTypeOK

LEMMA StateKept ==
  ASSUME NEW f \in Forward
  PROVE  /\ [f EXCEPT !.cancelled = TRUE].st = f.st
         /\ \A b : [f EXCEPT !.listed = b].st = f.st
         /\ [f EXCEPT !.listed = FALSE, !.cancelled = TRUE].st = f.st
         /\ \A b : [f EXCEPT !.pump = b].st = f.st
         /\ [f EXCEPT !.loop = FALSE].st = f.st
  BY DEF Forward

LEMMA StartsKeepVerdicts ==
  ASSUME ForwardInv, NEW w \in Forwards,
         \/ \E t \in Targets, c \in ForwardContexts : Call(w, t, c)
         \/ StartStep(w) \/ CancelStart(w)
  PROVE  VerdictsStand
<1> forwards[w] \in Forward /\ Sound(forwards[w], tasks[w].pc)
  BY StartAt
<1>1. CASE forwards' = forwards
  BY <1>1 DEF VerdictsStand
<1>2. ASSUME NEW G, forwards' = Without(G) PROVE VerdictsStand
  BY <1>2, WithoutEffect DEF VerdictsStand
<1>3. ASSUME NEW f, forwards' = [forwards EXCEPT ![w] = f], f.st = forwards[w].st
      PROVE  VerdictsStand
  BY <1>3, OneVerdictStands
<1>4. ASSUME NEW f, forwards' = [forwards EXCEPT ![w] = f], forwards[w].st \notin Terminal
      PROVE  VerdictsStand
  BY <1>4, OneVerdictStands
<1>5. ASSUME NEW t \in Targets, NEW c \in ForwardContexts, Call(w, t, c) PROVE VerdictsStand
  <2>1. PICK f : f = [forwards[w] EXCEPT !.target = t, !.context = c]
    OBVIOUS
  <2>2. forwards' = [forwards EXCEPT ![w] = f]
    BY <1>5, <2>1 DEF Call
  <2>3. f.st = forwards[w].st
    BY <2>1 DEF Forward
  <2> QED
    BY <1>3, <2>2, <2>3
<1>6. CASE CancelStart(w)
  <2>1. \/ forwards' = forwards
        \/ forwards' = [forwards EXCEPT ![w] = [forwards[w] EXCEPT !.cancelled = TRUE]]
        \/ forwards' = [forwards EXCEPT ![w] =
                          [forwards[w] EXCEPT !.listed = FALSE, !.cancelled = TRUE]]
    BY <1>6 DEF CancelStart
  <2> QED
    BY <1>1, <1>3, <2>1, StateKept
<1>7. CASE Enter(w) \/ Resolve(w) \/ DiscardLocks(w) \/ Recheck(w) \/ DraftFailure(w) \/ SendFailure(w)
  BY <1>1, <1>7 DEF Enter, Resolve, DiscardLocks, Recheck, DraftFailure, SendFailure
<1>8. CASE Match(w) \/ Check(w)
  BY <1>1, <1>2, <1>8 DEF Match, Check
<1>9. CASE Announce(w)
  <2>1. forwards[w].st \notin Terminal
    BY <1>9 DEF Announce, Sound, EarlyPcs, Terminal
  <2> QED
    BY <1>4, <1>9, <2>1 DEF Announce
<1>10. CASE Discard(w)
  <2>1. PICK b : forwards' = [forwards EXCEPT ![w] = [forwards[w] EXCEPT !.listed = b]]
    BY <1>10 DEF Discard
  <2> QED
    BY <1>3, <2>1, StateKept
<1>11. CASE AwaitGate(w)
  BY <1>1, <1>11 DEF AwaitGate
<1>12. CASE Activate(w)
  <2>1. CASE StillStarting(w)
    <3>1. forwards[w].st \notin Terminal
      BY <2>1 DEF StillStarting, Terminal
    <3>2. PICK f : f = [forwards[w] EXCEPT !.st = "Active", !.keyed = TRUE, !.loop = TRUE,
                                           !.handle = TRUE]
      OBVIOUS
    <3>3. forwards' = [forwards EXCEPT ![w] = f]
      BY <1>12, <2>1, <3>2 DEF Activate
    <3> QED
      BY <1>4, <3>1, <3>3
  <2>2. CASE ~StillStarting(w)
    BY <1>1, <1>12, <2>2 DEF Activate
  <2> QED
    BY <2>1, <2>2
<1>13. CASE FailStart(w)
  <2>1. CASE forwards[w].st = "Starting"
    <3>1. forwards[w].st \notin Terminal
      BY <2>1 DEF Terminal
    <3>2. forwards' = [forwards EXCEPT ![w] = [forwards[w] EXCEPT !.st = "Failed"]]
      BY <1>13, <2>1 DEF FailStart
    <3> QED
      BY <1>4, <3>1, <3>2
  <2>2. CASE forwards[w].st # "Starting"
    BY <1>1, <1>13, <2>2 DEF FailStart
  <2> QED
    BY <2>1, <2>2
<1> QED
  BY <1>5, <1>6, <1>7, <1>8, <1>9, <1>10, <1>11, <1>12, <1>13 DEF StartStep

LEMMA EndsKeepVerdicts ==
  ASSUME ForwardInv,
         \/ \E w \in Forwards \cup StopRequests : EndStep(w)
         \/ \E s \in StopRequests : StopStep(s)
         \/ TransitionStep
  PROVE  VerdictsStand
<1>1. CASE forwards' = forwards
  BY <1>1 DEF VerdictsStand
<1>2. ASSUME NEW i \in Forwards, NEW f, forwards' = [forwards EXCEPT ![i] = f],
             forwards[i].st \notin Terminal
      PROVE  VerdictsStand
  BY <1>2, OneVerdictStands
<1>3. ASSUME NEW s \in StopRequests, Stop(s) PROVE VerdictsStand
  <2>1. PICK i \in Forwards : i = tasks[s].at
    BY <1>3, LockHolder, TaskKinds DEF Stop, SessionPcs
  <2>2. CASE forwards[i].st \in {"Starting", "Active"}
    BY <1>2, <1>3, <2>1, <2>2 DEF Stop, Terminal
  <2>3. CASE forwards[i].st \notin {"Starting", "Active"}
    BY <1>1, <1>3, <2>1, <2>3 DEF Stop
  <2> QED
    BY <2>2, <2>3
<1>4. ASSUME NEW w \in Forwards \cup StopRequests, Finish(w) PROVE VerdictsStand
  <2>1. PICK i \in Forwards : i = tasks[w].at
    BY <1>4, LockHolder, TaskKinds DEF Finish, SessionPcs
  <2>2. CASE forwards[i].st = "Stopping"
    <3>1. forwards' = [forwards EXCEPT ![i] = [forwards[i] EXCEPT !.st = Verdict(w)]]
      BY <1>4, <2>1, <2>2 DEF Finish
    <3> QED
      BY <1>2, <2>2, <3>1 DEF Terminal
  <2>3. CASE forwards[i].st # "Stopping"
    BY <1>1, <1>4, <2>1, <2>3 DEF Finish
  <2> QED
    BY <2>2, <2>3
<1>5. ASSUME NEW i \in Forwards, MarkSession(i) PROVE VerdictsStand
  <2>1. CASE Open(i)
    BY <1>2, <1>5, <2>1 DEF MarkSession, Open
  <2>2. CASE ~Open(i)
    BY <1>1, <1>5, <2>2 DEF MarkSession
  <2> QED
    BY <2>1, <2>2
<1>6. ASSUME NEW j \in tasks[Transition].joins, Drain(j) PROVE VerdictsStand
  <2>1. PICK i \in Forwards : i = j.id
    BY <1>6, TaskKinds DEF ForwardInv, ForwardTypeOK, TaskState
  <2>2. CASE forwards[i].st = "Stopping"
    <3>1. forwards' = [forwards EXCEPT ![i] = [forwards[i] EXCEPT !.st = "Stopped"]]
      BY <1>6, <2>1, <2>2 DEF Drain
    <3> QED
      BY <1>2, <2>2, <3>1 DEF Terminal
  <2>3. CASE forwards[i].st # "Stopping"
    BY <1>1, <1>6, <2>1, <2>3 DEF Drain
  <2> QED
    BY <2>2, <2>3
<1>7. ASSUME NEW w, AnnounceStop(w) \/ AnnounceEnd(w) PROVE VerdictsStand
  BY <1>1, <1>7 DEF AnnounceStop, AnnounceEnd, PublishHeld
<1>8. CASE AnnounceDrain \/ \E ok \in BOOLEAN : Commit(ok)
  BY <1>1, <1>8 DEF AnnounceDrain, PublishHeld, Commit
<1>9. CASE AnnounceMark
  <2>1. PICK i \in Forwards : i = tasks[Transition].at
    BY <1>9, LockHolder, TaskKinds DEF AnnounceMark, SessionPcs
  <2>2. forwards' = [forwards EXCEPT ![i] = Cancel(forwards[i])]
    BY <1>9, <2>1 DEF AnnounceMark
  <2>3. Cancel(forwards[i]).st = forwards[i].st
    BY StartAt, CancelFields
  <2> QED
    BY <2>2, <2>3, OneVerdictStands
<1> QED
  BY <1>3, <1>4, <1>5, <1>6, <1>7, <1>8, <1>9 DEF EndStep, StopStep, TransitionStep

LEMMA LoopsKeepVerdicts ==
  ASSUME ForwardInv, NEW i \in Forwards, OpenFails(i) \/ Accept(i) \/ LoopEnds(i) \/ PumpEnds(i)
  PROVE  VerdictsStand
<1> forwards[i] \in Forward
  BY StartAt
<1>1. CASE OpenFails(i)
  <2>1. forwards[i].st \notin Terminal
    BY <1>1 DEF OpenFails, Terminal
  <2> QED
    BY <1>1, <2>1, OneVerdictStands DEF OpenFails
<1>2. CASE Accept(i) \/ LoopEnds(i) \/ PumpEnds(i)
  <2>1. \/ \E b : forwards' = [forwards EXCEPT ![i] = [forwards[i] EXCEPT !.pump = b]]
        \/ forwards' = [forwards EXCEPT ![i] = [forwards[i] EXCEPT !.loop = FALSE]]
    BY <1>2 DEF Accept, LoopEnds, PumpEnds
  <2> QED
    BY <2>1, StateKept, OneVerdictStands
<1> QED
  BY <1>1, <1>2

(* A revision waits for its event only under the gate. *)
LEMMA GateOrdersEvents ==
  ASSUME ForwardInv
  PROVE  SendsInOrder
<1>1. \A v, w \in Forwards : drafts[v] # 0 /\ drafts[w] # 0 => v = w
  BY DEF ForwardInv, LocksHeld
<1>2. \A w \in Forwards : drafts[w] \in Nat
  BY DEF ForwardInv, ForwardTypeOK
<1> QED
  BY <1>1, <1>2 DEF SendsInOrder

(* Events leave in the order of their revisions, and a session that has ended *)
(* stays ended, whichever of its tasks comes late (port_forward.rs).          *)
THEOREM PublicationsStayOrdered == ForwardSpec => PublicationsOrdered
<1>1. ForwardInv /\ [ForwardNext]_forwardVars => [VerdictsStand /\ SendsInOrder]_forwardVars
  <2> SUFFICES ASSUME ForwardInv, ForwardNext PROVE VerdictsStand /\ SendsInOrder
    OBVIOUS
  <2>1. CASE \E to \in ForwardContexts : BeginTransition(to)
    BY <2>1, GateOrdersEvents DEF BeginTransition, VerdictsStand
  <2>2. CASE \E s \in StopRequests, i \in Forwards : AskStop(s, i)
    BY <2>2, GateOrdersEvents DEF AskStop, VerdictsStand
  <2> QED
    BY <2>1, <2>2, StartsKeepVerdicts, EndsKeepVerdicts, LoopsKeepVerdicts, GateOrdersEvents
       DEF ForwardNext
<1> QED
  BY <1>1, ForwardInvHolds, PTL DEF ForwardSpec, PublicationsOrdered

---------------------------------------------------------------------------
(* What a task that holds a lock waits for *)

InnerPcs ==
  {"drafting", "announcing stop", "announcing end", "announcing mark", "announcing drain"}

(* Where the task of a request, of a stop or of the switch can stand. *)
PcsOf(w) ==
  IF w \in Forwards THEN StartPcs \cup {"joining", "announcing end", "done"}
  ELSE IF w = Transition THEN {"idle", "marking", "announcing mark", "announcing drain"}
  ELSE {"idle", "stopping", "announcing stop", "joining", "announcing end", "done"}

(* Who holds a lock is about to give it back, *)
HoldersKnown ==
  /\ stateLock # Nobody => tasks[stateLock].pc \in LockPcs
  /\ gate # Nobody => tasks[gate].pc \in GatePcs
  /\ \A i \in Forwards : inner[i] # Nobody => tasks[inner[i]].pc \in InnerPcs /\ tasks[inner[i]].at = i

(* and what is joined was cancelled before. *)
JoinedEnd ==
  /\ \A w \in Tasks : tasks[w].pc \in {"announcing stop", "joining"} => forwards[tasks[w].at].cancelled
  /\ \A j \in tasks[Transition].joins : forwards[j.id].cancelled

HoldersInv == (\A w \in Tasks : tasks[w].pc \in PcsOf(w)) /\ HoldersKnown /\ JoinedEnd

CancelledStay == \A i \in Forwards : forwards[i].cancelled => forwards'[i].cancelled

(* No step takes a cancellation back. *)
LEMMA CancellationStands ==
  ASSUME ForwardInv, ForwardNext
  PROVE  CancelledStay
<1> forwards \in [Forwards -> Forward]
  BY DEF ForwardInv, ForwardTypeOK
<1>1. ASSUME forwards' = forwards PROVE CancelledStay
  BY <1>1 DEF CancelledStay
<1>2. ASSUME NEW G, forwards' = Without(G) PROVE CancelledStay
  BY <1>2, WithoutEffect DEF CancelledStay
<1>3. ASSUME NEW i, NEW f, forwards' = [forwards EXCEPT ![i] = f],
             i \in Forwards /\ forwards[i].cancelled => f.cancelled
      PROVE  CancelledStay
  BY <1>3 DEF CancelledStay
<1>4. ASSUME NEW w \in Forwards, NEW t \in Targets, NEW c \in ForwardContexts, Call(w, t, c)
      PROVE  CancelledStay
  <2>1. PICK f : f = [forwards[w] EXCEPT !.target = t, !.context = c]
    OBVIOUS
  <2>2. f.cancelled = forwards[w].cancelled /\ forwards' = [forwards EXCEPT ![w] = f]
    BY <1>4, <2>1 DEF Call, Forward
  <2> QED
    BY <1>3, <2>2
<1>5. ASSUME NEW w \in Forwards, CancelStart(w) PROVE CancelledStay
  <2>1. CASE forwards' = [forwards EXCEPT ![w].cancelled = TRUE]
    BY <2>1 DEF CancelledStay, Forward
  <2>2. CASE forwards' = [forwards EXCEPT ![w] = [@ EXCEPT !.listed = FALSE, !.cancelled = TRUE]]
    BY <2>2 DEF CancelledStay, Forward
  <2> QED
    BY <1>1, <1>5, <2>1, <2>2 DEF CancelStart
<1>6. ASSUME NEW w \in Forwards, StartStep(w) PROVE CancelledStay
  <2>1. CASE \/ Enter(w) \/ Resolve(w) \/ DiscardLocks(w) \/ Recheck(w) \/ AwaitGate(w)
             \/ DraftFailure(w) \/ SendFailure(w)
    BY <1>1, <2>1 DEF Enter, Resolve, DiscardLocks, Recheck, AwaitGate, DraftFailure, SendFailure
  <2>2. CASE Match(w) \/ Check(w)
    BY <1>1, <1>2, <2>2 DEF Match, Check
  <2>3. CASE Announce(w)
    <3>1. forwards' = [forwards EXCEPT ![w] = [@ EXCEPT !.st = "Starting", !.listed = TRUE]]
      BY <2>3 DEF Announce
    <3> QED
      BY <3>1 DEF CancelledStay, Forward
  <2>4. CASE Discard(w)
    <3>1. PICK b : forwards' = [forwards EXCEPT ![w].listed = b]
      BY <2>4 DEF Discard
    <3> QED
      BY <3>1 DEF CancelledStay, Forward
  <2>5. CASE Activate(w)
    <3>1. CASE forwards' = [forwards EXCEPT ![w] = [@ EXCEPT !.st = "Active", !.keyed = TRUE,
                                                           !.loop = TRUE, !.handle = TRUE]]
      BY <3>1 DEF CancelledStay, Forward
    <3> QED
      BY <1>1, <2>5, <3>1 DEF Activate
  <2>6. CASE FailStart(w)
    <3>1. CASE forwards' = [forwards EXCEPT ![w].st = "Failed"]
      BY <3>1 DEF CancelledStay, Forward
    <3> QED
      BY <1>1, <2>6, <3>1 DEF FailStart
  <2> QED
    BY <1>6, <2>1, <2>2, <2>3, <2>4, <2>5, <2>6 DEF StartStep
<1>7. ASSUME NEW i, forwards' = [forwards EXCEPT ![i] = Ending(@)] PROVE CancelledStay
  <2>1. i \in Forwards => Ending(forwards[i]).cancelled
    BY EndingFields
  <2>2. forwards' = [forwards EXCEPT ![i] = Ending(forwards[i])]
    BY <1>7
  <2> QED
    BY <1>3, <2>1, <2>2
<1>8. ASSUME NEW i, NEW st, forwards' = [forwards EXCEPT ![i].st = st] PROVE CancelledStay
  BY <1>8 DEF CancelledStay, Forward
<1>9. ASSUME NEW w, EndStep(w) PROVE CancelledStay
  BY <1>1, <1>8, <1>9 DEF EndStep, Finish, AnnounceEnd, PublishHeld
<1>10. ASSUME NEW s, StopStep(s) PROVE CancelledStay
  BY <1>1, <1>7, <1>9, <1>10 DEF StopStep, Stop, AnnounceStop, PublishHeld
<1>11. ASSUME NEW s, NEW i, AskStop(s, i) PROVE CancelledStay
  BY <1>1, <1>11 DEF AskStop
<1>12. ASSUME NEW i \in Forwards, OpenFails(i) PROVE CancelledStay
  <2>1. PICK e : e = Ending(forwards[i])
    OBVIOUS
  <2>2. PICK f : f = [e EXCEPT !.pump = FALSE]
    OBVIOUS
  <2>3. e.cancelled /\ e \in Forward
    BY <2>1, EndingFields
  <2>4. f.cancelled
    BY <2>2, <2>3 DEF Forward
  <2>5. forwards' = [forwards EXCEPT ![i] = f]
    BY <1>12, <2>1, <2>2 DEF OpenFails
  <2> QED
    BY <1>3, <2>4, <2>5
<1>13. ASSUME NEW i \in Forwards, Accept(i) \/ LoopEnds(i) \/ PumpEnds(i) PROVE CancelledStay
  <2>1. PICK b : \/ forwards' = [forwards EXCEPT ![i].pump = b]
                 \/ forwards' = [forwards EXCEPT ![i].loop = b]
    BY <1>13 DEF Accept, LoopEnds, PumpEnds
  <2>2. CASE forwards' = [forwards EXCEPT ![i].pump = b]
    BY <2>2 DEF CancelledStay, Forward
  <2>3. CASE forwards' = [forwards EXCEPT ![i].loop = b]
    BY <2>3 DEF CancelledStay, Forward
  <2> QED
    BY <2>1, <2>2, <2>3
<1>14. ASSUME NEW to, BeginTransition(to) PROVE CancelledStay
  BY <1>1, <1>14 DEF BeginTransition
<1>15. CASE TransitionStep
  <2>1. ASSUME NEW i \in Forwards, MarkSession(i) PROVE CancelledStay
    BY <1>1, <1>8, <2>1 DEF MarkSession
  <2>2. CASE AnnounceMark
    <3>1. PICK i \in Forwards : i = tasks[Transition].at
      BY <2>2, LockHolder, TaskKinds DEF AnnounceMark, SessionPcs
    <3>2. PICK f : f = Cancel(forwards[i])
      OBVIOUS
    <3>3. f.cancelled /\ forwards' = [forwards EXCEPT ![i] = f]
      BY <2>2, <3>1, <3>2, CancelFields DEF AnnounceMark
    <3> QED
      BY <1>3, <3>3
  <2>3. ASSUME NEW j, Drain(j) PROVE CancelledStay
    BY <1>1, <1>8, <2>3 DEF Drain
  <2>4. ASSUME NEW ok, Commit(ok) PROVE CancelledStay
    BY <1>1, <2>4 DEF Commit
  <2>5. CASE AnnounceDrain
    BY <1>1, <2>5 DEF AnnounceDrain, PublishHeld
  <2> QED
    BY ONLY <1>15, <2>1, <2>2, <2>3, <2>4, <2>5 DEF TransitionStep
<1> QED
  BY <1>4, <1>5, <1>6, <1>9, <1>10, <1>11, <1>12, <1>13, <1>14, <1>15 DEF ForwardNext

(* Task w, at r after the step, takes and gives back locks of its own only, *)
TakesOwn(w, r) ==
  /\ stateLock' \in {stateLock, Nobody, w} /\ (stateLock' = w => r.pc \in LockPcs)
  /\ gate' \in {gate, Nobody, w} /\ (gate' = w => r.pc \in GatePcs)
  /\ \A i \in Forwards : /\ inner'[i] \in {inner[i], Nobody, w}
                         /\ inner'[i] = w => r.pc \in InnerPcs /\ r.at = i

(* and joins what was cancelled. *)
JoinsEnding(w, r) ==
  /\ r.pc \in {"announcing stop", "joining"} => forwards'[r.at].cancelled
  /\ w = Transition => \A j \in r.joins : forwards'[j.id].cancelled

LEMMA HoldersKeep ==
  ASSUME ForwardInv, HoldersInv, CancelledStay, NEW w \in Tasks, NEW r \in TaskState,
         tasks' = [tasks EXCEPT ![w] = r], r.pc \in PcsOf(w),
         TakesOwn(w, r), JoinsEnding(w, r)
  PROVE  HoldersInv'
<1>1. /\ tasks \in [Tasks -> TaskState] /\ {stateLock, gate} \subseteq Tasks \cup {Nobody}
      /\ inner \in [Forwards -> Tasks \cup {Nobody}]
  BY DEF ForwardInv, ForwardTypeOK
<1>2. \A v \in Tasks : tasks'[v] = IF v = w THEN r ELSE tasks[v]
  BY <1>1
<1>3. \A v \in Tasks : tasks'[v].pc \in PcsOf(v)
  BY <1>2 DEF HoldersInv
<1>4. HoldersKnown'
  <2>1. stateLock' # Nobody => tasks'[stateLock'].pc \in LockPcs
    BY <1>1, <1>2 DEF HoldersInv, HoldersKnown, TakesOwn
  <2>2. gate' # Nobody => tasks'[gate'].pc \in GatePcs
    BY <1>1, <1>2 DEF HoldersInv, HoldersKnown, TakesOwn
  <2>3. ASSUME NEW i \in Forwards, inner'[i] # Nobody
        PROVE  tasks'[inner'[i]].pc \in InnerPcs /\ tasks'[inner'[i]].at = i
    <3>1. CASE inner'[i] = w
      BY <1>2, <3>1 DEF TakesOwn
    <3>2. CASE inner'[i] # w
      <4>1. inner'[i] = inner[i] /\ inner[i] \in Tasks
        BY <1>1, <2>3, <3>2 DEF TakesOwn
      <4>2. tasks[inner[i]].pc \in InnerPcs /\ tasks[inner[i]].at = i
        BY <2>3, <4>1 DEF HoldersInv, HoldersKnown
      <4>3. tasks'[inner[i]] = tasks[inner[i]]
        BY <1>2, <3>2, <4>1
      <4> QED
        BY <4>1, <4>2, <4>3
    <3> QED
      BY <3>1, <3>2
  <2> QED
    BY <2>1, <2>2, <2>3 DEF HoldersKnown
<1>5. JoinedEnd'
  <2>1. ASSUME NEW v \in Tasks, tasks'[v].pc \in {"announcing stop", "joining"}
        PROVE  forwards'[tasks'[v].at].cancelled
    <3>1. CASE v = w
      BY <1>2, <2>1, <3>1 DEF JoinsEnding
    <3>2. CASE v # w
      <4>1. tasks'[v] = tasks[v] /\ tasks[v].at \in Forwards
        BY <1>2, <2>1, <3>2 DEF ForwardInv, LocksHeld, SessionPcs
      <4>2. forwards[tasks[v].at].cancelled
        BY <2>1, <4>1 DEF HoldersInv, JoinedEnd
      <4> QED
        BY <4>1, <4>2 DEF CancelledStay
    <3> QED
      BY <3>1, <3>2
  <2>2. ASSUME NEW j \in tasks'[Transition].joins PROVE forwards'[j.id].cancelled
    <3>1. CASE w = Transition
      BY <1>2, <2>2, <3>1 DEF JoinsEnding
    <3>2. CASE w # Transition
      <4>1. tasks'[Transition] = tasks[Transition] /\ tasks[Transition] \in TaskState
        BY <1>1, <1>2, <3>2, TaskKinds
      <4>2. j \in tasks[Transition].joins
        BY <2>2, <4>1
      <4>4. tasks[Transition].joins \in SUBSET [id : Forwards, took : BOOLEAN]
        BY <4>1 DEF TaskState
      <4>5. j.id \in Forwards
        BY <4>2, <4>4
      <4>3. forwards[j.id].cancelled
        BY <4>2 DEF HoldersInv, JoinedEnd
      <4> QED
        BY <4>3, <4>5 DEF CancelledStay
    <3> QED
      BY <3>1, <3>2
  <2> QED
    BY <2>1, <2>2 DEF JoinedEnd
<1> QED
  BY <1>3, <1>4, <1>5 DEF HoldersInv

(* What task w can hold, by where it stands. *)
LEMMA HeldBy ==
  ASSUME ForwardInv, HoldersInv, NEW w \in Tasks
  PROVE  /\ stateLock = w => tasks[w].pc \in LockPcs
         /\ gate = w => tasks[w].pc \in GatePcs
         /\ \A i \in Forwards : inner[i] = w => tasks[w].pc \in InnerPcs /\ tasks[w].at = i
         /\ tasks[w].pc \in PcsOf(w) /\ tasks[w] \in TaskState
  BY TaskKinds DEF HoldersInv, HoldersKnown, ForwardInv, ForwardTypeOK

(* The task of a request goes on to pc, and holds no session. *)
LEMMA StartHolds ==
  ASSUME ForwardInv, HoldersInv, CancelledStay, NEW w \in Forwards,
         NEW pc \in StartPcs \cup {"done"}, NEW r \in TaskState,
         tasks' = [tasks EXCEPT ![w] = r], r.pc = pc,
         tasks[w].pc \notin InnerPcs, UNCHANGED inner,
         stateLock' \in {stateLock, Nobody, w}, stateLock' = w => pc \in LockPcs,
         gate' \in {gate, Nobody, w}, gate' = w => pc \in GatePcs
  PROVE  HoldersInv'
<1>1. w \in Tasks /\ w # Transition /\ \A i \in Forwards : inner[i] # w
  BY HeldBy, TaskKinds
<1>2. r.pc \in PcsOf(w) /\ r.pc \notin {"announcing stop", "joining"}
  BY DEF PcsOf, StartPcs
<1>3. TakesOwn(w, r)
  BY <1>1 DEF TakesOwn
<1>4. JoinsEnding(w, r)
  BY <1>1, <1>2 DEF JoinsEnding
<1> QED
  BY <1>1, <1>2, <1>3, <1>4, HoldersKeep

(* Goto and Done, as steps of the task of a request. *)
LEMMA StartTo ==
  ASSUME ForwardInv, HoldersInv, CancelledStay, NEW w \in Forwards,
         NEW pc \in StartPcs \cup {"done"}, IF pc = "done" THEN Done(w) ELSE Goto(w, pc),
         tasks[w].pc \notin InnerPcs, UNCHANGED inner,
         stateLock' \in {stateLock, Nobody, w}, stateLock' = w => pc \in LockPcs,
         gate' \in {gate, Nobody, w}, gate' = w => pc \in GatePcs
  PROVE  HoldersInv'
<1>1. w \in Tasks /\ ForwardTypeOK
  BY TaskKinds DEF ForwardInv
<1>2. \E r \in TaskState : tasks' = [tasks EXCEPT ![w] = r] /\ r.pc = pc
  <2>1. CASE pc = "done"
    BY <1>1, <2>1, DoneMoves
  <2>2. CASE pc # "done"
    <3>1. pc \in StartPcs \cup EndPcs /\ Goto(w, pc)
      BY <2>2
    <3> QED
      BY <1>1, <3>1, GotoMoves
  <2> QED
    BY <2>1, <2>2
<1> QED
  BY <1>2, StartHolds

(* A task moves on, and takes or gives back no lock but a session's. *)
LEMMA EndHolds ==
  ASSUME ForwardInv, HoldersInv, CancelledStay, NEW w \in Tasks, NEW r \in TaskState,
         tasks' = [tasks EXCEPT ![w] = r], r.pc \in PcsOf(w), UNCHANGED <<stateLock, gate>>,
         stateLock = w => r.pc \in LockPcs, gate # w,
         \/ UNCHANGED inner /\ \A i \in Forwards : inner[i] # w
         \/ \E i \in Forwards : /\ inner' = [inner EXCEPT ![i] = w]
                                /\ r.pc \in InnerPcs /\ r.at = i
                                /\ \A k \in Forwards : inner[k] # w
         \/ \E i \in Forwards : /\ inner' = [inner EXCEPT ![i] = Nobody]
                                /\ \A k \in Forwards \ {i} : inner[k] # w,
         r.pc \in {"announcing stop", "joining"} => forwards'[r.at].cancelled,
         w = Transition => \A j \in r.joins : forwards'[j.id].cancelled
  PROVE  HoldersInv'
<1>1. w # Nobody
  BY TaskKinds
<1>2. ASSUME NEW k \in Forwards
      PROVE  inner'[k] \in {inner[k], Nobody, w} /\ (inner'[k] = w => r.pc \in InnerPcs /\ r.at = k)
  <2>1. CASE UNCHANGED inner /\ \A i \in Forwards : inner[i] # w
    BY <2>1
  <2>2. ASSUME NEW i \in Forwards, inner' = [inner EXCEPT ![i] = w], r.pc \in InnerPcs, r.at = i,
               \A v \in Forwards : inner[v] # w
        PROVE  inner'[k] \in {inner[k], Nobody, w} /\ (inner'[k] = w => r.pc \in InnerPcs /\ r.at = k)
    BY <2>2, InnerTypes
  <2>3. ASSUME NEW i \in Forwards, inner' = [inner EXCEPT ![i] = Nobody],
               \A v \in Forwards \ {i} : inner[v] # w
        PROVE  inner'[k] \in {inner[k], Nobody, w} /\ (inner'[k] = w => r.pc \in InnerPcs /\ r.at = k)
    BY <1>1, <2>3, InnerTypes
  <2> QED
    BY <2>1, <2>2, <2>3
<1>3. TakesOwn(w, r)
  BY <1>2 DEF TakesOwn
<1>4. JoinsEnding(w, r)
  BY DEF JoinsEnding
<1> QED
  BY <1>3, <1>4, HoldersKeep

(* A task that is over, and one that is not at a step under a lock, hold none. *)
LEMMA HoldsNone ==
  ASSUME ForwardInv, HoldersInv, NEW w \in Tasks,
         tasks[w].pc \notin LockPcs \cup GatePcs \cup InnerPcs
  PROVE  stateLock # w /\ gate # w /\ \A i \in Forwards : inner[i] # w
  BY HeldBy

(* fail_start, which goes from the session to the gate. *)
LEMMA FailureHolds ==
  ASSUME ForwardInv, HoldersInv, CancelledStay, NEW w \in Forwards,
         (FailStart(w) /\ forwards[w].st = "Starting") \/ DraftFailure(w)
  PROVE  HoldersInv'
<1>1. w \in Tasks /\ w # Transition /\ ForwardTypeOK /\ w # Nobody /\ tasks[w].at = w
  BY TaskKinds, StartAt DEF ForwardInv
<1>2. /\ stateLock = w => tasks[w].pc \in LockPcs
      /\ gate = w => tasks[w].pc \in GatePcs
      /\ \A i \in Forwards : inner[i] = w => tasks[w].pc \in InnerPcs /\ tasks[w].at = i
  BY ONLY <1>1, HeldBy, ForwardInv, HoldersInv
<1>3. CASE FailStart(w) /\ forwards[w].st = "Starting"
  <2>1. PICK r \in TaskState : tasks' = [tasks EXCEPT ![w] = r] /\ r.pc = "drafting" /\ r.at = w
    BY <1>1, <1>3, GotoMoves DEF FailStart, StartPcs
  <2>2. tasks[w].pc = "failing" /\ inner' = [inner EXCEPT ![w] = w] /\ UNCHANGED <<stateLock, gate>>
    BY <1>3 DEF FailStart
  <2>3. stateLock # w /\ gate # w /\ \A i \in Forwards : inner[i] # w
    BY <1>1, <2>2, HoldsNone DEF LockPcs, GatePcs, InnerPcs
  <2>4. r.pc \in PcsOf(w) /\ r.pc \in InnerPcs
    BY <2>1 DEF PcsOf, StartPcs, InnerPcs
  <2> QED
    BY <1>1, <2>1, <2>2, <2>3, <2>4, EndHolds
<1>4. CASE DraftFailure(w)
  <2>1. PICK r \in TaskState : tasks' = [tasks EXCEPT ![w] = r] /\ r.pc = "sending" /\ r.at = w
    BY <1>1, <1>4, GotoMoves DEF DraftFailure, StartPcs
  <2>2. /\ tasks[w].pc = "drafting" /\ gate' = w /\ UNCHANGED stateLock
        /\ inner' = [inner EXCEPT ![w] = Nobody]
    BY <1>4 DEF DraftFailure, GateOfDraft
  <2>3. stateLock # w
    BY <1>2, <2>2 DEF LockPcs
  <2>4. r.pc \in PcsOf(w) /\ r.pc \in GatePcs
    BY <2>1 DEF PcsOf, StartPcs, GatePcs
  <2>5. \A i \in Forwards : inner'[i] \in {inner[i], Nobody, w} /\ inner'[i] # w
    BY <1>1, <1>2, <2>2, InnerTypes
  <2>6. TakesOwn(w, r)
    BY <2>2, <2>3, <2>4, <2>5 DEF TakesOwn
  <2>7. JoinsEnding(w, r)
    BY <1>1, <2>1 DEF JoinsEnding
  <2> QED
    BY <1>1, <2>1, <2>4, <2>6, <2>7, HoldersKeep
<1> QED
  BY <1>3, <1>4

(* A request's steps. *)
LEMMA StartsHold ==
  ASSUME ForwardInv, HoldersInv, CancelledStay, NEW w \in Forwards,
         \/ \E t \in Targets, c \in ForwardContexts : Call(w, t, c)
         \/ StartStep(w) \/ CancelStart(w)
  PROVE  HoldersInv'
<1> USE DEF StartPcs, LockPcs, GatePcs, InnerPcs
<1>1. w \in Tasks /\ w # Transition /\ ForwardTypeOK /\ w # Nobody
  BY TaskKinds DEF ForwardInv
<1>2. /\ stateLock = w => tasks[w].pc \in LockPcs
      /\ gate = w => tasks[w].pc \in GatePcs
      /\ tasks[w] \in TaskState /\ tasks[w].at = w
      /\ \A i \in Forwards : inner[i] = w => tasks[w].pc \in InnerPcs /\ i = w
  <2>1. tasks[w] \in TaskState /\ tasks[w].at = w
    BY StartAt
  <2>2. /\ stateLock = w => tasks[w].pc \in LockPcs
        /\ gate = w => tasks[w].pc \in GatePcs
        /\ \A i \in Forwards : inner[i] = w => tasks[w].pc \in InnerPcs /\ tasks[w].at = i
    BY ONLY <1>1, HeldBy, ForwardInv, HoldersInv
  <2> QED
    BY <2>1, <2>2
<1>3. ASSUME NEW t \in Targets, NEW c \in ForwardContexts, Call(w, t, c) PROVE HoldersInv'
  BY <1>2, <1>3, StartTo DEF Call, locks
<1>4. CASE Enter(w)
  <2>1. tasks[w].pc = "entering" /\ UNCHANGED <<gate, inner>>
    BY <1>4 DEF Enter
  <2>2. CASE Done(w) /\ UNCHANGED stateLock
    BY <1>2, <2>1, <2>2, StartTo
  <2>3. CASE Goto(w, "matching") /\ stateLock' = w
    BY <1>2, <2>1, <2>3, StartTo
  <2> QED
    BY <1>4, <2>2, <2>3 DEF Enter
<1>5. CASE Match(w)
  <2>1. tasks[w].pc = "matching" /\ UNCHANGED <<gate, inner>>
    BY <1>5 DEF Match
  <2>2. CASE Done(w) /\ stateLock' = Nobody
    BY <1>1, <1>2, <2>1, <2>2, StartTo
  <2>3. CASE Goto(w, "announcing") /\ UNCHANGED stateLock
    BY <1>2, <2>1, <2>3, StartTo
  <2> QED
    BY <1>5, <2>2, <2>3 DEF Match
<1>6. CASE Announce(w)
  <2>1. PICK r : r = [tasks[w] EXCEPT !.pc = "resolving", !.seen = TRUE]
    OBVIOUS
  <2>2. r \in TaskState /\ r.pc = "resolving" /\ tasks' = [tasks EXCEPT ![w] = r]
    BY <1>2, <1>6, <2>1 DEF TaskState, Announce
  <2> QED
    BY <1>1, <1>2, <1>6, <2>2, StartHolds DEF Announce
<1>7. CASE Resolve(w)
  BY <1>2, <1>7, StartTo DEF Resolve, locks
<1>8. CASE CancelStart(w)
  <2>1. UNCHANGED <<gate, inner>>
    BY <1>8 DEF CancelStart
  <2>2. CASE tasks[w].pc = "entering" /\ Done(w) /\ UNCHANGED stateLock
    BY <1>2, <2>1, <2>2, StartTo
  <2>3. CASE /\ tasks[w].pc \in {"resolving", "resolved"} /\ Goto(w, "discarding")
             /\ UNCHANGED stateLock
    BY <1>2, <2>1, <2>3, StartTo
  <2>4. CASE tasks[w].pc = "binding" /\ Done(w) /\ stateLock' = Nobody
    BY <1>1, <1>2, <2>1, <2>4, StartTo
  <2> QED
    BY <1>8, <2>2, <2>3, <2>4 DEF CancelStart
<1>9. CASE DiscardLocks(w) \/ Recheck(w)
  BY <1>2, <1>9, StartTo DEF DiscardLocks, Recheck
<1>10. CASE Discard(w)
  BY <1>1, <1>2, <1>10, StartTo DEF Discard
<1>11. CASE Check(w)
  BY <1>1, <1>2, <1>11, StartTo DEF Check
<1>12. CASE AwaitGate(w)
  BY <1>2, <1>12, StartTo DEF AwaitGate
<1>13. CASE Activate(w)
  BY <1>1, <1>2, <1>13, StartTo DEF Activate
<1>14. CASE FailStart(w) /\ forwards[w].st # "Starting"
  BY <1>2, <1>14, StartTo DEF FailStart
<1>15. CASE (FailStart(w) /\ forwards[w].st = "Starting") \/ DraftFailure(w)
  BY <1>15, FailureHolds
<1>17. CASE SendFailure(w)
  BY <1>2, <1>17, StartTo DEF SendFailure
<1> QED
  BY <1>3, <1>4, <1>5, <1>6, <1>7, <1>8, <1>9, <1>10, <1>11, <1>12, <1>13, <1>14, <1>15, <1>17
  DEF StartStep


---------------------------------------------------------------------------
(* The same, for what ends a session *)

(* When it has published, it holds nothing but the manager's state. *)
LEMMA PublishHolds ==
  ASSUME ForwardInv, HoldersInv, CancelledStay, NEW w \in Tasks, NEW from, NEW to,
         PublishHeld(w, from, to), from \in InnerPcs,
         \/ w \in StopRequests /\ from = "announcing stop" /\ to = "joining"
         \/ w \in StopRequests \cup Forwards /\ from = "announcing end" /\ to = "done"
         \/ w = Transition /\ from = "announcing drain" /\ to = "marking"
  PROVE  HoldersInv'
<1>1. /\ tasks[w].pc = from /\ UNCHANGED <<forwards, stateLock, gate>> /\ gate = Nobody
      /\ inner' = [inner EXCEPT ![tasks[w].at] = Nobody] /\ Goto(w, to)
  BY DEF PublishHeld
<1>2. /\ stateLock = w => tasks[w].pc \in LockPcs
      /\ \A i \in Forwards : inner[i] = w => tasks[w].at = i
      /\ tasks[w].pc \in PcsOf(w) /\ tasks[w] \in TaskState
  BY HeldBy
<1>3. PICK r : r = [tasks[w] EXCEPT !.pc = to]
  OBVIOUS
<1>4. /\ r \in TaskState /\ r.pc = to /\ r.at = tasks[w].at /\ r.joins = tasks[w].joins
      /\ tasks' = [tasks EXCEPT ![w] = r]
  <2>1. to \in StartPcs \cup EndPcs
    BY DEF EndPcs
  <2> QED
    BY <1>1, <1>2, <1>3, <2>1 DEF TaskState, Goto
<1>5. r.pc \in PcsOf(w)
  BY <1>4, TaskKinds DEF PcsOf
<1>6. stateLock = w => r.pc \in LockPcs
  <2>1. w = Transition => r.pc \in LockPcs
    BY <1>4, TaskKinds DEF LockPcs
  <2>2. w # Transition => from \notin LockPcs
    BY DEF LockPcs
  <2> QED
    BY <1>1, <1>2, <2>1, <2>2
<1>7. gate # w
  BY <1>1, TaskKinds
<1>8. tasks[w].at \in Forwards => \A k \in Forwards \ {tasks[w].at} : inner[k] # w
  BY <1>2
<1>9. r.pc \in {"announcing stop", "joining"} => forwards'[r.at].cancelled
  BY <1>1, <1>4 DEF HoldersInv, JoinedEnd
<1>10. w = Transition => \A j \in r.joins : forwards'[j.id].cancelled
  BY <1>1, <1>4 DEF HoldersInv, JoinedEnd
<1>11. CASE tasks[w].at \in Forwards
  BY <1>1, <1>4, <1>5, <1>6, <1>7, <1>8, <1>9, <1>10, <1>11, EndHolds
<1>12. CASE tasks[w].at \notin Forwards
  <2>1. UNCHANGED inner
    BY <1>1, <1>12, InnerTypes
  <2>2. \A i \in Forwards : inner[i] # w
    BY <1>2, <1>12
  <2> QED
    BY <1>1, <1>4, <1>5, <1>6, <1>7, <1>9, <1>10, <2>1, <2>2, EndHolds
<1> QED
  BY <1>11, <1>12

LEMMA EndsHold ==
  ASSUME ForwardInv, HoldersInv, CancelledStay, NEW w \in Forwards \cup StopRequests, EndStep(w)
  PROVE  HoldersInv'
<1>1. w \in Tasks /\ w # Transition /\ ForwardTypeOK
  BY TaskKinds DEF ForwardInv
<1>2. CASE AnnounceEnd(w)
  BY <1>1, <1>2, PublishHolds DEF AnnounceEnd, InnerPcs
<1>3. CASE Finish(w)
  <2>1. tasks[w].pc = "joining" /\ UNCHANGED <<stateLock, gate>>
    BY <1>3 DEF Finish
  <2>2. stateLock # w /\ gate # w /\ \A i \in Forwards : inner[i] # w
    BY <1>1, <2>1, HoldsNone DEF LockPcs, GatePcs, InnerPcs
  <2>3. CASE Done(w) /\ UNCHANGED inner
    <3>1. PICK r \in TaskState : tasks' = [tasks EXCEPT ![w] = r] /\ r.pc = "done"
      BY <1>1, <2>3, DoneMoves
    <3>2. r.pc \in PcsOf(w)
      BY <1>1, <3>1 DEF PcsOf
    <3> QED
      BY <1>1, <2>1, <2>2, <2>3, <3>1, <3>2, EndHolds
  <2>4. CASE Goto(w, "announcing end") /\ inner' = [inner EXCEPT ![tasks[w].at] = w]
    <3>1. PICK r \in TaskState :
            tasks' = [tasks EXCEPT ![w] = r] /\ r.pc = "announcing end" /\ r.at = tasks[w].at
      <4>1. PICK pc \in StartPcs \cup EndPcs : pc = "announcing end"
        BY DEF EndPcs
      <4>2. Goto(w, pc)
        BY <2>4, <4>1
      <4>3. PICK r \in TaskState : tasks' = [tasks EXCEPT ![w] = r] /\ r.pc = pc /\ r.at = tasks[w].at
        BY ONLY <1>1, <4>2, GotoMoves
      <4> QED
        BY ONLY <4>1, <4>3
    <3>2. r.pc \in PcsOf(w) /\ r.pc \in InnerPcs
      BY <1>1, <3>1 DEF PcsOf, InnerPcs
    <3>3. tasks[w].at \in Forwards
      BY <1>1, <2>1 DEF ForwardInv, LocksHeld, SessionPcs
    <3> QED
      BY <1>1, <2>1, <2>2, <2>4, <3>1, <3>2, <3>3, EndHolds
  <2> QED
    BY <1>3, <2>3, <2>4 DEF Finish
<1> QED
  BY <1>2, <1>3 DEF EndStep

LEMMA StopsHold ==
  ASSUME ForwardInv, HoldersInv, CancelledStay, NEW s \in StopRequests,
         StopStep(s) \/ \E i \in Forwards : AskStop(s, i)
  PROVE  HoldersInv'
<1>1. s \in Tasks /\ s # Transition /\ s \notin Forwards /\ ForwardTypeOK /\ tasks[s] \in TaskState
  BY TaskKinds DEF ForwardInv, ForwardTypeOK
<1>2. CASE EndStep(s)
  BY <1>2, EndsHold
<1>3. CASE AnnounceStop(s)
  BY <1>1, <1>3, PublishHolds DEF AnnounceStop, InnerPcs
<1>4. ASSUME Done(s), UNCHANGED <<locks>>, tasks[s].pc \in {"idle", "stopping"} PROVE HoldersInv'
  <2>1. PICK r \in TaskState : tasks' = [tasks EXCEPT ![s] = r] /\ r.pc = "done"
    BY <1>1, <1>4, DoneMoves
  <2>2. r.pc \in PcsOf(s)
    BY <1>1, <2>1 DEF PcsOf
  <2>3. stateLock # s /\ gate # s /\ \A i \in Forwards : inner[i] # s
    BY <1>1, <1>4, HoldsNone DEF LockPcs, GatePcs, InnerPcs
  <2>4. UNCHANGED <<stateLock, gate>> /\ UNCHANGED inner
    BY <1>4 DEF locks
  <2> QED
    BY <1>1, <2>1, <2>2, <2>3, <2>4, EndHolds
<1>5. ASSUME NEW i \in Forwards, AskStop(s, i) PROVE HoldersInv'
  <2>1. CASE ~forwards[i].listed
    BY <1>4, <1>5, <2>1 DEF AskStop
  <2>2. CASE forwards[i].listed
    <3>1. PICK r : r = [tasks[s] EXCEPT !.pc = "stopping", !.at = i]
      OBVIOUS
    <3>2. r \in TaskState /\ r.pc = "stopping"
      BY <1>1, <3>1, TaskKinds DEF TaskState, EndPcs
    <3>3. tasks' = [tasks EXCEPT ![s] = r] /\ UNCHANGED <<stateLock, gate>> /\ UNCHANGED inner
      BY <1>5, <2>2, <3>1 DEF AskStop, locks
    <3>4. r.pc \in PcsOf(s)
      BY <1>1, <3>2 DEF PcsOf
    <3>5. stateLock # s /\ gate # s /\ \A k \in Forwards : inner[k] # s
      BY <1>1, <1>5, HoldsNone DEF AskStop, LockPcs, GatePcs, InnerPcs
    <3> QED
      BY <1>1, <3>2, <3>3, <3>4, <3>5, EndHolds
  <2> QED
    BY <2>1, <2>2
<1>6. CASE Stop(s)
  <2>1. tasks[s].pc = "stopping" /\ UNCHANGED <<stateLock, gate>>
    BY <1>6 DEF Stop
  <2>2. CASE Done(s) /\ UNCHANGED inner
    BY <1>4, <2>1, <2>2 DEF locks
  <2>3. CASE /\ forwards' = [forwards EXCEPT ![tasks[s].at] = Ending(@)]
             /\ inner' = [inner EXCEPT ![tasks[s].at] = s]
             /\ tasks' = [tasks EXCEPT ![s] = [@ EXCEPT !.pc = "announcing stop",
                                                     !.took = forwards[tasks[s].at].handle]]
    <3>1. PICK i \in Forwards : i = tasks[s].at
      BY <1>1, <2>1 DEF ForwardInv, LocksHeld, SessionPcs
    <3>2. forwards[i] \in Forward /\ forwards \in [Forwards -> Forward]
      BY <1>1 DEF ForwardTypeOK
    <3>3. PICK r : r = [tasks[s] EXCEPT !.pc = "announcing stop", !.took = forwards[i].handle]
      OBVIOUS
    <3>4. r \in TaskState /\ r.pc = "announcing stop" /\ r.at = i
      BY <1>1, <3>1, <3>2, <3>3 DEF TaskState, EndPcs, Forward
    <3>5. tasks' = [tasks EXCEPT ![s] = r]
      BY <2>3, <3>1, <3>3
    <3>6. forwards'[i].cancelled
      BY <2>3, <3>1, <3>2, EndingFields
    <3>7. r.pc \in PcsOf(s) /\ r.pc \in InnerPcs
      BY <1>1, <3>4 DEF PcsOf, InnerPcs
    <3>8. stateLock # s /\ gate # s /\ \A k \in Forwards : inner[k] # s
      BY <1>1, <2>1, HoldsNone DEF LockPcs, GatePcs, InnerPcs
    <3>9. inner' = [inner EXCEPT ![i] = s]
      BY <2>3, <3>1
    <3> QED
      BY <1>1, <2>1, <3>4, <3>5, <3>6, <3>7, <3>8, <3>9, EndHolds
  <2> QED
    BY <1>6, <2>2, <2>3 DEF Stop
<1> QED
  BY <1>2, <1>3, <1>5, <1>6 DEF StopStep


LEMMA LoopHolds ==
  ASSUME ForwardInv, HoldersInv, CancelledStay, UNCHANGED <<tasks, locks>>
  PROVE  HoldersInv'
<1>1. \A w \in Tasks : tasks'[w].pc \in PcsOf(w)
  BY DEF HoldersInv
<1>2. HoldersKnown'
  BY DEF HoldersInv, HoldersKnown, locks
<1>3. ASSUME NEW w \in Tasks, tasks'[w].pc \in {"announcing stop", "joining"}
      PROVE  forwards'[tasks'[w].at].cancelled
  <2>1. tasks[w].at \in Forwards
    BY <1>3 DEF ForwardInv, LocksHeld, SessionPcs
  <2> QED
    BY <1>3, <2>1 DEF HoldersInv, JoinedEnd, CancelledStay
<1>4. ASSUME NEW j \in tasks'[Transition].joins PROVE forwards'[j.id].cancelled
  <2>1. tasks[Transition].joins \in SUBSET [id : Forwards, took : BOOLEAN]
    BY TaskKinds DEF ForwardInv, ForwardTypeOK, TaskState
  <2>2. j \in tasks[Transition].joins /\ j.id \in Forwards
    BY <1>4, <2>1
  <2> QED
    BY <2>2 DEF HoldersInv, JoinedEnd, CancelledStay
<1> QED
  BY <1>1, <1>2, <1>3, <1>4 DEF HoldersInv, JoinedEnd

LEMMA OpenFailsHolds ==
  ASSUME ForwardInv, HoldersInv, CancelledStay, NEW i \in Forwards, OpenFails(i)
  PROVE  HoldersInv'
<1>1. /\ i \in Tasks /\ i # Transition /\ tasks[i].at = i /\ Sound(forwards[i], tasks[i].pc)
      /\ forwards[i] \in Forward
  BY StartAt
<1>2. inner[i] = Nobody /\ forwards[i].st = "Active" /\ UNCHANGED locks
  BY DEF OpenFails
<1>3. /\ stateLock = i => tasks[i].pc \in LockPcs
      /\ gate = i => tasks[i].pc \in GatePcs
      /\ \A k \in Forwards : inner[k] = i => tasks[i].at = k
      /\ tasks[i].pc \in PcsOf(i)
  BY ONLY <1>1, HeldBy, ForwardInv, HoldersInv
<1>4. tasks[i].pc \notin StartPcs
  BY <1>1, <1>2 DEF Sound
<1>5. stateLock # i /\ gate # i /\ \A k \in Forwards : inner[k] # i
  BY <1>1, <1>2, <1>3, <1>4, TaskKinds DEF PcsOf, LockPcs, GatePcs, StartPcs
<1>6. PICK t \in TaskState : t = Task(i) /\ t.at = i
  BY <1>1, FreshTask
<1>7. PICK r : r = [t EXCEPT !.pc = "joining", !.took = forwards[i].handle]
  OBVIOUS
<1>8. r \in TaskState /\ r.pc = "joining" /\ r.at = i
  BY <1>1, <1>6, <1>7 DEF TaskState, EndPcs, Forward
<1>9. tasks' = [tasks EXCEPT ![i] = r]
  BY <1>6, <1>7 DEF OpenFails
<1>10. forwards'[i].cancelled
  <2>1. PICK e : e = Ending(forwards[i])
    OBVIOUS
  <2>2. PICK f : f = [e EXCEPT !.pump = FALSE]
    OBVIOUS
  <2>3. e.cancelled /\ e \in Forward
    BY <1>1, <2>1, EndingFields
  <2>4. f.cancelled
    BY <2>2, <2>3 DEF Forward
  <2>5. forwards' = [forwards EXCEPT ![i] = f] /\ forwards \in [Forwards -> Forward]
    BY <2>1, <2>2 DEF OpenFails, ForwardInv, ForwardTypeOK
  <2> QED
    BY <2>4, <2>5
<1>11. r.pc \in PcsOf(i)
  BY <1>8 DEF PcsOf
<1>12. UNCHANGED <<stateLock, gate>> /\ UNCHANGED inner
  BY <1>2 DEF locks
<1> QED
  BY <1>1, <1>5, <1>8, <1>9, <1>10, <1>11, <1>12, EndHolds

(* The switch begins: it alone takes the manager's state, and joins nothing yet. *)
LEMMA BeginHolds ==
  ASSUME ForwardInv, HoldersInv, NEW to \in ForwardContexts, BeginTransition(to)
  PROVE  HoldersInv'
<1>1. /\ tasks \in [Tasks -> TaskState] /\ Transition \in Tasks /\ Transition # Nobody
      /\ {gate} \subseteq Tasks \cup {Nobody} /\ inner \in [Forwards -> Tasks \cup {Nobody}]
  BY TaskKinds DEF ForwardInv, ForwardTypeOK
<1>2. PICK t \in TaskState : t = Task(Transition) /\ t.joins = {} /\ tasks[Transition].pc = "idle"
  <2>1. Task(Transition).joins = {}
    BY DEF Task
  <2> QED
    BY <1>1, <2>1, FreshTask DEF BeginTransition
<1>3. PICK r : r = [t EXCEPT !.pc = "marking", !.todo = Listed, !.to = to]
  OBVIOUS
<1>4. r.pc = "marking" /\ r.joins = {}
  BY <1>2, <1>3 DEF TaskState
<1>5. tasks'[Transition] = r
  BY <1>1, <1>2, <1>3 DEF BeginTransition
<1>6. \A w \in Tasks \ {Transition} :
        /\ tasks'[w].pc = tasks[w].pc /\ tasks'[w].at = tasks[w].at
        /\ tasks'[w].joins = tasks[w].joins
  <2>1. ASSUME NEW w \in Tasks, w # Transition
        PROVE  /\ tasks'[w].pc = tasks[w].pc /\ tasks'[w].at = tasks[w].at
               /\ tasks'[w].joins = tasks[w].joins
    <3>1. tasks[w] \in TaskState /\ tasks'[w] = [tasks[w] EXCEPT !.seen = FALSE]
      BY <1>1, <2>1 DEF BeginTransition
    <3> QED
      BY <3>1 DEF TaskState
  <2> QED
    BY <2>1
<1>7. stateLock' = Transition /\ UNCHANGED <<gate, forwards>> /\ UNCHANGED inner
  BY DEF BeginTransition
<1>8. \A w \in Tasks : tasks'[w].pc \in PcsOf(w)
  BY <1>4, <1>5, <1>6, TaskKinds DEF HoldersInv, PcsOf
<1>9. HoldersKnown'
  <2>1. tasks'[stateLock'].pc \in LockPcs
    BY <1>4, <1>5, <1>7 DEF LockPcs
  <2>2. gate # Transition /\ \A i \in Forwards : inner[i] # Transition
    BY <1>1, <1>2, HoldersInv DEF HoldersInv, HoldersKnown, GatePcs, InnerPcs
  <2>3. gate' # Nobody => tasks'[gate'].pc \in GatePcs
    BY <1>1, <1>6, <1>7, <2>2 DEF HoldersInv, HoldersKnown
  <2>4. \A i \in Forwards :
          inner'[i] # Nobody => tasks'[inner'[i]].pc \in InnerPcs /\ tasks'[inner'[i]].at = i
    BY <1>1, <1>6, <1>7, <2>2 DEF HoldersInv, HoldersKnown
  <2> QED
    BY <2>1, <2>3, <2>4 DEF HoldersKnown
<1>10. JoinedEnd'
  BY <1>4, <1>5, <1>6, <1>7 DEF HoldersInv, JoinedEnd
<1> QED
  BY <1>8, <1>9, <1>10 DEF HoldersInv

(* The task of the switch comes to r, and holds the session k or none. *)
LEMMA SwitchHolds ==
  ASSUME ForwardInv, HoldersInv, CancelledStay, NEW r \in TaskState,
         tasks[Transition].pc = "marking",
         tasks' = [tasks EXCEPT ![Transition] = r], UNCHANGED gate,
         \/ /\ r.pc = "marking" /\ UNCHANGED <<inner, stateLock>>
         \/ /\ r.pc \in {"announcing mark", "announcing drain"} /\ UNCHANGED stateLock
            /\ r.at \in Forwards /\ inner' = [inner EXCEPT ![r.at] = Transition]
         \/ /\ r.pc = "idle" /\ stateLock' = Nobody /\ UNCHANGED inner,
         \A j \in r.joins : forwards'[j.id].cancelled
  PROVE  HoldersInv'
<1>1. Transition \in Tasks /\ Transition # Nobody
  BY TaskKinds
<1>2. gate # Transition /\ \A k \in Forwards : inner[k] # Transition
  BY <1>1, HeldBy DEF GatePcs, InnerPcs
<1>3. r.pc \in PcsOf(Transition) /\ r.pc \notin {"announcing stop", "joining"}
  BY TaskKinds DEF PcsOf
<1>4. TakesOwn(Transition, r)
  <2>1. /\ stateLock' \in {stateLock, Nobody, Transition}
        /\ stateLock' = Transition => r.pc \in LockPcs
    BY <1>1 DEF LockPcs
  <2>2. gate' \in {gate, Nobody, Transition} /\ gate' # Transition
    BY <1>2
  <2>3. \A k \in Forwards : /\ inner'[k] \in {inner[k], Nobody, Transition}
                            /\ inner'[k] = Transition => r.pc \in InnerPcs /\ r.at = k
    BY <1>2, InnerTypes DEF InnerPcs
  <2> QED
    BY <2>1, <2>2, <2>3 DEF TakesOwn
<1>5. JoinsEnding(Transition, r)
  BY <1>3 DEF JoinsEnding
<1> QED
  BY <1>1, <1>3, <1>4, <1>5, HoldersKeep

LEMMA TransitionHolds ==
  ASSUME ForwardInv, HoldersInv, CancelledStay, TransitionStep
  PROVE  HoldersInv'
<1>1. PICK t \in TaskState : t = tasks[Transition] /\ \A j \in t.joins : forwards[j.id].cancelled
  BY TaskKinds DEF ForwardInv, ForwardTypeOK, HoldersInv, JoinedEnd
<1>2. /\ t.joins \in SUBSET [id : Forwards, took : BOOLEAN]
      /\ t.todo \in SUBSET Forwards
  BY <1>1 DEF TaskState
<1>3. \A j \in t.joins : j.id \in Forwards /\ forwards'[j.id].cancelled
  <2>1. \A j \in t.joins : j.id \in Forwards
    BY <1>2
  <2> QED
    BY <1>1, <2>1 DEF CancelledStay
<1>4. forwards \in [Forwards -> Forward]
  BY DEF ForwardInv, ForwardTypeOK
<1>5. CASE AnnounceDrain
  BY <1>5, TaskKinds, PublishHolds DEF AnnounceDrain, InnerPcs
<1>6. ASSUME NEW i \in Forwards, MarkSession(i) PROVE HoldersInv'
  <2>1. t.pc = "marking" /\ UNCHANGED <<stateLock, gate>>
    BY <1>1, <1>6 DEF MarkSession
  <2>2. CASE ~Open(i)
    <3>1. PICK r : r = [t EXCEPT !.todo = t.todo \ {i}]
      OBVIOUS
    <3>2. r \in TaskState /\ r.pc = "marking" /\ r.joins = t.joins
      BY <1>2, <2>1, <3>1 DEF TaskState
    <3>3. tasks' = [tasks EXCEPT ![Transition] = r] /\ UNCHANGED inner
      BY <1>1, <1>6, <2>2, <3>1 DEF MarkSession
    <3> QED
      BY <1>1, <1>3, <2>1, <3>2, <3>3, SwitchHolds
  <2>3. CASE Open(i)
    <3>1. PICK r : r = [t EXCEPT !.pc = "announcing mark", !.at = i, !.todo = t.todo \ {i}]
      OBVIOUS
    <3>2. r \in TaskState /\ r.pc = "announcing mark" /\ r.at = i /\ r.joins = t.joins
      <4>1. "announcing mark" \in StartPcs \cup EndPcs /\ i \in Tasks
        BY TaskKinds DEF EndPcs
      <4>2. t.todo \ {i} \in SUBSET Forwards
        BY <1>2
      <4> QED
        BY <3>1, <4>1, <4>2 DEF TaskState
    <3>3. tasks' = [tasks EXCEPT ![Transition] = r] /\ inner' = [inner EXCEPT ![i] = Transition]
      BY <1>1, <1>6, <2>3, <3>1 DEF MarkSession
    <3> QED
      BY <1>1, <1>3, <2>1, <3>2, <3>3, SwitchHolds
  <2> QED
    BY <2>2, <2>3
<1>7. ASSUME NEW j \in t.joins, Drain(j) PROVE HoldersInv'
  <2>1. t.pc = "marking" /\ UNCHANGED <<stateLock, gate>> /\ j.id \in Forwards
    BY <1>1, <1>3, <1>7 DEF Drain
  <2>2. PICK next : next = [t EXCEPT !.at = j.id, !.joins = t.joins \ {j}]
    OBVIOUS
  <2>3. next \in TaskState /\ next.pc = "marking" /\ next.at = j.id /\ next.joins \subseteq t.joins
    <3>1. j.id \in Tasks /\ t.joins \ {j} \in SUBSET [id : Forwards, took : BOOLEAN]
      BY <1>2, <2>1, TaskKinds
    <3> QED
      BY <2>1, <2>2, <3>1 DEF TaskState
  <2>4. CASE forwards[j.id].st # "Stopping"
    <3>1. tasks' = [tasks EXCEPT ![Transition] = next] /\ UNCHANGED inner
      BY <1>1, <1>7, <2>2, <2>4 DEF Drain
    <3> QED
      BY <1>1, <1>3, <2>1, <2>3, <3>1, SwitchHolds
  <2>5. CASE forwards[j.id].st = "Stopping"
    <3>1. PICK r : r = [next EXCEPT !.pc = "announcing drain"]
      OBVIOUS
    <3>2. r \in TaskState /\ r.pc = "announcing drain" /\ r.at = j.id /\ r.joins \subseteq t.joins
      BY <2>3, <3>1 DEF TaskState, EndPcs
    <3>3. /\ tasks' = [tasks EXCEPT ![Transition] = r]
          /\ inner' = [inner EXCEPT ![r.at] = Transition]
      BY <1>1, <1>7, <2>2, <2>5, <3>1, <3>2 DEF Drain
    <3> QED
      BY <1>1, <1>3, <2>1, <3>2, <3>3, SwitchHolds
  <2> QED
    BY <2>4, <2>5
<1>8. ASSUME NEW ok, Commit(ok) PROVE HoldersInv'
  <2>1. PICK r \in TaskState : r = Task(Transition) /\ r.pc = "idle" /\ r.joins = {}
    <3>1. Task(Transition).joins = {}
      BY DEF Task
    <3> QED
      BY <3>1, TaskKinds, FreshTask
  <2> QED
    BY <1>1, <1>8, <2>1, SwitchHolds DEF Commit
<1>9. CASE AnnounceMark
  <2>1. /\ t.pc = "announcing mark" /\ UNCHANGED <<stateLock, gate>> /\ gate = Nobody
        /\ stateLock = Transition
    BY <1>1, <1>9, LockHolder, TaskKinds DEF AnnounceMark, LockPcs
  <2>2. PICK i \in Forwards : i = t.at
    BY <1>1, <2>1, LockHolder, TaskKinds DEF SessionPcs
  <2>3. PICK j : j = [id |-> i, took |-> forwards[i].handle]
    OBVIOUS
  <2>4. j \in [id : Forwards, took : BOOLEAN] /\ j.id = i
    <3>1. forwards[i].handle \in BOOLEAN
      BY <1>4 DEF Forward
    <3> QED
      BY <2>3, <3>1
  <2>5. PICK r : r = [t EXCEPT !.pc = "marking", !.joins = t.joins \cup {j}]
    OBVIOUS
  <2>6. r \in TaskState /\ r.pc = "marking" /\ r.joins = t.joins \cup {j}
    <3>1. "marking" \in StartPcs \cup EndPcs
      BY DEF EndPcs
    <3>2. t.joins \cup {j} \in SUBSET [id : Forwards, took : BOOLEAN]
      BY <1>2, <2>4
    <3> QED
      BY <2>5, <3>1, <3>2 DEF TaskState
  <2>7. /\ tasks' = [tasks EXCEPT ![Transition] = r]
        /\ inner' = [inner EXCEPT ![i] = Nobody]
        /\ forwards' = [forwards EXCEPT ![i] = Cancel(forwards[i])]
    BY <1>1, <1>9, <2>2, <2>3, <2>5 DEF AnnounceMark
  <2>8. forwards'[i].cancelled
    BY <1>4, <2>7, CancelFields
  <2>9. \A k \in r.joins : forwards'[k.id].cancelled
    BY <1>3, <2>4, <2>6, <2>8
  <2>10. \A k \in Forwards \ {i} : inner[k] # Transition
    BY <1>1, <2>2, HeldBy, TaskKinds
  <2>11. r.pc \in PcsOf(Transition) /\ r.pc \in LockPcs /\ gate # Transition
    BY <2>1, <2>6, TaskKinds DEF PcsOf, LockPcs
  <2> QED
    BY <2>1, <2>6, <2>7, <2>9, <2>10, <2>11, TaskKinds, EndHolds
<1> QED
  BY <1>1, <1>5, <1>6, <1>7, <1>8, <1>9 DEF TransitionStep

LEMMA HoldersInitially == ForwardInit => HoldersInv
<1> SUFFICES ASSUME ForwardInit PROVE HoldersInv
  OBVIOUS
<1>1. \A w \in Tasks : tasks[w].pc = "idle" /\ tasks[w].joins = {}
  BY DEF ForwardInit, Task
<1>2. \A w \in Tasks : "idle" \in PcsOf(w)
  BY DEF PcsOf, StartPcs
<1>3. stateLock = Nobody /\ gate = Nobody /\ \A i \in Forwards : inner[i] = Nobody
  BY DEF ForwardInit
<1> QED
  BY <1>1, <1>2, <1>3, TaskKinds DEF HoldersInv, HoldersKnown, JoinedEnd

LEMMA HoldersInductive == ForwardInv /\ HoldersInv /\ [ForwardNext]_forwardVars => HoldersInv'
<1> SUFFICES ASSUME ForwardInv, HoldersInv, [ForwardNext]_forwardVars PROVE HoldersInv'
  OBVIOUS
<1>1. CASE UNCHANGED forwardVars
  <2>1. CancelledStay /\ UNCHANGED <<tasks, locks>>
    BY <1>1 DEF CancelledStay, forwardVars
  <2> QED
    BY <2>1, LoopHolds
<1>2. CASE ForwardNext
  <2>1. CancelledStay
    BY <1>2, CancellationStands
  <2>2. ASSUME NEW w \in Forwards,
               \/ \E t \in Targets, c \in ForwardContexts : Call(w, t, c)
               \/ StartStep(w) \/ CancelStart(w)
        PROVE  HoldersInv'
    BY <2>1, <2>2, StartsHold
  <2>3. ASSUME NEW w \in Forwards, EndStep(w) PROVE HoldersInv'
    BY <2>1, <2>3, EndsHold
  <2>4. ASSUME NEW s \in StopRequests, StopStep(s) \/ \E i \in Forwards : AskStop(s, i)
        PROVE  HoldersInv'
    BY <2>1, <2>4, StopsHold
  <2>5. ASSUME NEW i \in Forwards, OpenFails(i) PROVE HoldersInv'
    BY <2>1, <2>5, OpenFailsHolds
  <2>6. ASSUME NEW i \in Forwards, Accept(i) \/ LoopEnds(i) \/ PumpEnds(i) PROVE HoldersInv'
    BY <2>1, <2>6, LoopHolds DEF Accept, LoopEnds, PumpEnds
  <2>7. ASSUME NEW to \in ForwardContexts, BeginTransition(to) PROVE HoldersInv'
    BY <2>7, BeginHolds
  <2>8. CASE TransitionStep
    BY <2>1, <2>8, TransitionHolds
  <2> QED
    BY <1>2, <2>2, <2>3, <2>4, <2>5, <2>6, <2>7, <2>8 DEF ForwardNext
<1> QED
  BY <1>1, <1>2

(* A task that has begun, is not over and does not go on waits for a lock someone holds: *)
(* what it joins is cancelled, and ends unless its session is held.                      *)
LEMMA AwaitsHeld ==
  ASSUME ForwardInv, HoldersInv, NEW w \in Tasks, ~GoesOn(w),
         tasks[w].pc \notin {"idle", "done", "abandoned"}, \A i \in Forwards : ~WindsUp(i)
  PROVE  /\ Holders # {}
         /\ tasks[w].pc # "joining" => HoldersAwaited(w) \cap Holders # {}
<1>1. /\ {stateLock, gate} \subseteq Tasks \cup {Nobody}
      /\ tasks[w] \in TaskState /\ tasks[w].pc \in PcsOf(w)
      /\ forwards \in [Forwards -> Forward]
  BY DEF ForwardInv, ForwardTypeOK, HoldersInv
<1>2. \A i \in Forwards : inner[i] # Nobody => inner[i] \in Holders
  BY DEF Holders
<1>3. ASSUME NEW i \in Forwards, NEW took \in BOOLEAN, forwards[i].cancelled,
             ~(Joined(i, took) /\ inner[i] = Nobody)
      PROVE  inner[i] # Nobody
  BY <1>1, <1>3 DEF Joined, WindsUp, Forward
<1>4. tasks[w].pc # "resolving"
  BY DEF GoesOn
<1>5. CASE tasks[w].pc = "joining"
  <2>1. tasks[w].at \in Forwards /\ forwards[tasks[w].at].cancelled /\ tasks[w].took \in BOOLEAN
    BY <1>1, <1>5 DEF ForwardInv, LocksHeld, SessionPcs, HoldersInv, JoinedEnd, TaskState
  <2>2. ~(Joined(tasks[w].at, tasks[w].took) /\ inner[tasks[w].at] = Nobody)
    BY <1>5 DEF GoesOn
  <2>3. inner[tasks[w].at] # Nobody
    BY <1>3, <2>1, <2>2
  <2> QED
    BY <1>2, <1>5, <2>1, <2>3
<1>6. CASE tasks[w].pc \in {"matching", "checking"}
  <2>1. PICK i \in Listed : inner[i] # Nobody
    BY <1>6 DEF GoesOn, NoneHeld
  <2>2. inner[i] \in HoldersAwaited(w)
    BY <1>6, <2>1 DEF HoldersAwaited
  <2> QED
    BY <1>2, <2>1, <2>2 DEF Listed
<1>7. CASE tasks[w].pc = "marking" /\ tasks[w].todo = {}
  <2>1. w = Transition
    BY <1>1, <1>7 DEF PcsOf, StartPcs
  <2>2. PICK j \in tasks[w].joins : ~(Joined(j.id, j.took) /\ inner[j.id] = Nobody)
    BY <1>7 DEF GoesOn
  <2>3. tasks[w].joins \in SUBSET [id : Forwards, took : BOOLEAN]
    BY <1>1 DEF TaskState
  <2>4. j.id \in Forwards /\ j.took \in BOOLEAN
    BY <2>2, <2>3
  <2>5. forwards[j.id].cancelled
    BY <2>1, <2>2 DEF HoldersInv, JoinedEnd
  <2>6. inner[j.id] # Nobody
    BY <1>3, <2>2, <2>4, <2>5
  <2>7. inner[j.id] \in HoldersAwaited(w)
    BY <1>7, <2>2 DEF HoldersAwaited
  <2> QED
    BY <1>2, <2>4, <2>6, <2>7
<1>8. CASE tasks[w].pc = "marking" /\ tasks[w].todo # {}
  <2>1. Nobody \notin HoldersAwaited(w)
    BY <1>8 DEF GoesOn
  <2>2. HoldersAwaited(w) = {inner[i] : i \in tasks[w].todo}
    BY <1>8 DEF HoldersAwaited
  <2>3. PICK i \in tasks[w].todo : TRUE
    BY <1>8
  <2>4. i \in Forwards
    BY <1>1, <2>3 DEF TaskState
  <2> QED
    BY <1>2, <2>1, <2>2, <2>3, <2>4
<1>9. CASE tasks[w].pc \in {"dropping", "activating", "failing", "stopping"}
  <2>1. tasks[w].at \in Forwards
    BY <1>1, <1>9, StartAt DEF ForwardInv, LocksHeld, SessionPcs, PcsOf
  <2>2. HoldersAwaited(w) = {inner[tasks[w].at]}
    BY <1>9 DEF HoldersAwaited
  <2>3. Nobody \notin HoldersAwaited(w)
    BY <1>9 DEF GoesOn
  <2> QED
    BY <1>2, <1>9, <2>1, <2>2, <2>3
<1>10. CASE tasks[w].pc \in {"entering", "resolved", "discarding", "sending"}
  <2>1. HoldersAwaited(w) = {stateLock}
    BY <1>10 DEF HoldersAwaited
  <2>2. Nobody \notin HoldersAwaited(w)
    BY <1>10 DEF GoesOn
  <2> QED
    BY <2>1, <2>2 DEF Holders
<1>11. CASE tasks[w].pc \in {"announcing", "binding", "drafting", "announcing stop",
                             "announcing end", "announcing mark", "announcing drain"}
  <2>1. HoldersAwaited(w) = {gate}
    BY <1>11 DEF HoldersAwaited
  <2>2. Nobody \notin HoldersAwaited(w)
    BY <1>11 DEF GoesOn
  <2> QED
    BY <2>1, <2>2 DEF Holders
<1>12. tasks[w].pc \in StartPcs \cup EndPcs
  BY <1>1 DEF TaskState
<1> QED
  BY <1>4, <1>5, <1>6, <1>7, <1>8, <1>9, <1>10, <1>11, <1>12 DEF StartPcs, EndPcs

(* Where a holder stands it waits for a lock: one that is not free, if it does not go on. *)
LEMMA HolderWaits ==
  ASSUME ForwardInv, HoldersInv, NEW w \in Holders, ~GoesOn(w),
         \A i \in Forwards : ~WindsUp(i)
  PROVE  HoldersAwaited(w) \cap Holders # {}
<1>1. w \in Tasks /\ tasks[w].pc \in LockPcs \cup GatePcs \cup InnerPcs /\ tasks[w].pc \in PcsOf(w)
  BY DEF ForwardInv, ForwardTypeOK, Holders, HoldersInv, HoldersKnown
<1> QED
  BY <1>1, AwaitsHeld DEF LockPcs, GatePcs, InnerPcs

LEMMA HoldersInvHolds == ForwardSpec => []HoldersInv
  BY ForwardInvHolds, HoldersInitially, HoldersInductive, PTL DEF ForwardSpec

(* Whenever nothing goes on although a start, a stop, a finalizer or a switch *)
(* is under way, tasks wait for each other's locks in a circle: no lock is    *)
(* ever kept for a join, an answer of the cluster or a client                 *)
(* (port_forward.rs, its three kinds of lock).                                *)
THEOREM HangsOnlyInCircles == ForwardSpec => []HangsAreCircles
<1>1. ForwardInv /\ HoldersInv => HangsAreCircles
  <2> SUFFICES ASSUME ForwardInv, HoldersInv, \A w \in Tasks : ~GoesOn(w),
                      \A i \in Forwards : ~WindsUp(i), ~Resting
               PROVE  LockCycle
    BY DEF HangsAreCircles
  <2>1. PICK w \in Tasks : tasks[w].pc \notin {"idle", "done", "abandoned"}
    BY DEF Resting
  <2>2. Holders # {}
    BY <2>1, AwaitsHeld
  <2>3. \A v \in Holders : v \in Tasks
    BY DEF ForwardInv, ForwardTypeOK, Holders
  <2>4. \A v \in Holders : HoldersAwaited(v) \cap Holders # {}
    BY <2>3, HolderWaits
  <2> QED
    BY <2>2, <2>4 DEF LockCycle
<1> QED
  BY <1>1, HoldersInvHolds, ForwardInvHolds, PTL

---------------------------------------------------------------------------
(* The listeners that accept *)

Live(i) == forwards[i].loop /\ ~forwards[i].cancelled

(* A live listener is that of an Active session, or of the one the transition *)
(* marks: no session became Active at its endpoint since.                     *)
LiveApart ==
  \A i \in Forwards :
    Live(i) => /\ forwards[i].listed
               /\ \/ IsActive(i)
                  \/ /\ forwards[i].st = "Stopping" /\ BeingMarked(i)
                     /\ \A j \in Forwards \ {i} :
                          IsActive(j) => KeyOf[forwards[j].target] # KeyOf[forwards[i].target]

(* No listener becomes live, no session Active, and the transition does not turn *)
(* from a session whose listener is live.                                        *)
LEMMA LivesStay ==
  ASSUME LiveApart,
         \A k \in Forwards :
           Live(k)' => /\ Live(k) /\ forwards'[k].st = forwards[k].st
                       /\ forwards'[k].listed = forwards[k].listed
                       /\ forwards'[k].target = forwards[k].target,
         \A k \in Forwards :
           IsActive(k)' => IsActive(k) /\ forwards'[k].target = forwards[k].target,
         \A k \in Forwards : BeingMarked(k) /\ Live(k)' => BeingMarked(k)'
  PROVE  LiveApart'
  BY DEF LiveApart, IsActive

(* Session i, whose listener is not live after the step, becomes f. *)
LEMMA OneLiveLess ==
  ASSUME ForwardInv, LiveApart, NEW i \in Forwards, NEW f,
         forwards' = [forwards EXCEPT ![i] = f], ~(f.loop /\ ~f.cancelled),
         f.st = "Active" => forwards[i].st = "Active" /\ f.target = forwards[i].target,
         \A k \in Forwards : k = i \/ (BeingMarked(k) => BeingMarked(k)')
  PROVE  LiveApart'
<1>1. \A k \in Forwards : forwards'[k] = IF k = i THEN f ELSE forwards[k]
  BY DEF ForwardInv, ForwardTypeOK
<1> QED
  BY <1>1, LivesStay DEF Live, IsActive

(* Only the transition's own steps change where it stands. *)
LEMMA SwitchStands ==
  ASSUME ForwardInv, NEW w \in Forwards \cup StopRequests,
         \/ \E t \in Targets, c \in ForwardContexts : Call(w, t, c)
         \/ StartStep(w) \/ CancelStart(w) \/ EndStep(w) \/ StopStep(w)
         \/ \E i \in Forwards : AskStop(w, i)
         \/ OpenFails(w)
  PROVE  tasks'[Transition] = tasks[Transition]
<1>1. w # Transition /\ tasks \in [Tasks -> TaskState] /\ Transition \in Tasks
  BY TaskKinds DEF ForwardInv, ForwardTypeOK
<1>2. ASSUME NEW r, tasks' = [tasks EXCEPT ![w] = r]
      PROVE  tasks'[Transition] = tasks[Transition]
  BY <1>1, <1>2
<1>3. ASSUME NEW pc, Goto(w, pc) PROVE tasks'[Transition] = tasks[Transition]
  BY <1>1, <1>3 DEF Goto
<1>4. ASSUME Done(w) PROVE tasks'[Transition] = tasks[Transition]
  BY <1>2, <1>4 DEF Done
<1>5. CASE (\E t \in Targets, c \in ForwardContexts : Call(w, t, c)) \/ CancelStart(w)
  BY <1>3, <1>4, <1>5 DEF Call, CancelStart
<1>6. CASE StartStep(w)
  <2>1. CASE Announce(w)
    BY <1>2, <2>1 DEF Announce
  <2>2. CASE ~Announce(w)
    BY <1>3, <1>4, <1>6, <2>2
       DEF StartStep, Enter, Match, Resolve, DiscardLocks, Discard, Recheck, Check, AwaitGate,
           Activate, FailStart, DraftFailure, SendFailure
  <2> QED
    BY <2>1, <2>2
<1>7. CASE EndStep(w)
  BY <1>3, <1>4, <1>7 DEF EndStep, Finish, AnnounceEnd, PublishHeld
<1>8. CASE Stop(w) \/ AnnounceStop(w) \/ \E i \in Forwards : AskStop(w, i)
  BY <1>2, <1>3, <1>4, <1>8 DEF Stop, AnnounceStop, PublishHeld, AskStop
<1>9. CASE OpenFails(w)
  BY <1>2, <1>9 DEF OpenFails
<1> QED
  BY <1>5, <1>6, <1>7, <1>8, <1>9 DEF StopStep

(* A start has no listener before Activate, and then no session is being marked. *)
LEMMA StartsKeepLive ==
  ASSUME ForwardInv, LiveApart, NEW w \in Forwards,
         \/ \E t \in Targets, c \in ForwardContexts : Call(w, t, c)
         \/ StartStep(w) \/ CancelStart(w)
  PROVE  LiveApart'
<1> /\ forwards[w] \in Forward /\ forwards \in [Forwards -> Forward]
    /\ w \in Tasks /\ Sound(forwards[w], tasks[w].pc)
  BY StartAt DEF ForwardInv, ForwardTypeOK
<1>1. tasks'[Transition] = tasks[Transition]
  BY SwitchStands
<1>2. \A k \in Forwards : BeingMarked(k) => BeingMarked(k)'
  BY <1>1 DEF BeingMarked
<1>3. ASSUME forwards' = forwards PROVE LiveApart'
  BY <1>2, <1>3, LivesStay DEF Live, IsActive
<1>4. ASSUME NEW f, forwards' = [forwards EXCEPT ![w] = f], ~f.loop, f.st # "Active"
      PROVE  LiveApart'
  BY <1>2, <1>4, OneLiveLess
<1>5. tasks[w].pc \in StartPcs => ~forwards[w].loop /\ forwards[w].st # "Active"
  BY DEF Sound
<1>6. ASSUME NEW t \in Targets, NEW c \in ForwardContexts, Call(w, t, c) PROVE LiveApart'
  <2>1. PICK f : f = [forwards[w] EXCEPT !.target = t, !.context = c]
    OBVIOUS
  <2>2. ~f.loop /\ f.st # "Active"
    BY <1>5, <1>6, <2>1 DEF Call, StartPcs, Forward
  <2> QED
    BY <1>4, <1>6, <2>1, <2>2 DEF Call
<1>7. CASE CancelStart(w)
  <2>1. CASE forwards' = [forwards EXCEPT ![w].cancelled = TRUE]
             /\ tasks[w].pc \in {"resolving", "resolved"}
    <3>1. PICK f : f = [forwards[w] EXCEPT !.cancelled = TRUE]
      OBVIOUS
    <3>2. ~f.loop /\ f.st # "Active"
      BY <1>5, <2>1, <3>1 DEF StartPcs, Forward
    <3> QED
      BY <1>4, <2>1, <3>1, <3>2
  <2>2. CASE /\ forwards' = [forwards EXCEPT ![w] = [@ EXCEPT !.listed = FALSE, !.cancelled = TRUE]]
             /\ tasks[w].pc = "binding"
    <3>1. PICK f : f = [forwards[w] EXCEPT !.listed = FALSE, !.cancelled = TRUE]
      OBVIOUS
    <3>2. ~f.loop /\ f.st # "Active"
      BY <1>5, <2>2, <3>1 DEF StartPcs, Forward
    <3> QED
      BY <1>4, <2>2, <3>1, <3>2
  <2> QED
    BY <1>3, <1>7, <2>1, <2>2 DEF CancelStart
<1>8. CASE \/ Enter(w) \/ Resolve(w) \/ DiscardLocks(w) \/ Recheck(w) \/ AwaitGate(w)
           \/ DraftFailure(w) \/ SendFailure(w)
  BY <1>3, <1>8 DEF Enter, Resolve, DiscardLocks, Recheck, AwaitGate, DraftFailure, SendFailure
<1>9. CASE Match(w) \/ Check(w)
  <2>1. ASSUME NEW G, forwards' = Without(G), \A i \in G : i = w \/ (i \in Forwards /\ ~Open(i)),
               tasks[w].pc \in StartPcs
        PROVE  LiveApart'
    <3>1. \A k \in Forwards : Live(k) => k \notin G
      BY <1>5, <2>1 DEF LiveApart, Live, IsActive, Open, Terminal
    <3>2. \A k \in Forwards :
            /\ forwards'[k].st = forwards[k].st /\ forwards'[k].target = forwards[k].target
            /\ forwards'[k].loop = forwards[k].loop
            /\ forwards'[k].cancelled = forwards[k].cancelled
            /\ forwards'[k].listed <=> forwards[k].listed /\ k \notin G
      BY <2>1, WithoutEffect
    <3>3. \A k \in Forwards : forwards[k].listed \in BOOLEAN /\ forwards'[k].listed \in BOOLEAN
      BY <2>1, WithoutEffect DEF Forward
    <3>4. \A k \in Forwards : Live(k)' => Live(k) /\ forwards'[k].listed = forwards[k].listed
      BY <3>1, <3>2, <3>3 DEF Live
    <3> QED
      BY <1>2, <3>2, <3>4, LivesStay DEF IsActive
  <2>2. \A gone \in Prunable : \A i \in gone : i \in Forwards /\ ~Open(i)
    BY DEF Prunable, Listed
  <2>3. tasks[w].pc \in StartPcs
    BY <1>9 DEF Match, Check, StartPcs
  <2>4. \/ forwards' = forwards
        \/ \E gone \in Prunable : forwards' = Without(gone) \/ forwards' = Without(gone \cup {w})
    BY <1>9 DEF Match, Check
  <2>5. ASSUME NEW gone \in Prunable, forwards' = Without(gone \cup {w}) PROVE LiveApart'
    <3>1. \A i \in gone \cup {w} : i = w \/ (i \in Forwards /\ ~Open(i))
      BY <2>2
    <3> QED
      BY <2>1, <2>3, <2>5, <3>1
  <2>6. ASSUME NEW gone \in Prunable, forwards' = Without(gone) PROVE LiveApart'
    BY <2>1, <2>2, <2>3, <2>6
  <2> QED
    BY <1>3, <2>4, <2>5, <2>6
<1>10. CASE Announce(w)
  <2>1. PICK f : f = [forwards[w] EXCEPT !.st = "Starting", !.listed = TRUE]
    OBVIOUS
  <2>2. ~f.loop /\ f.st # "Active"
    BY <1>5, <1>10, <2>1 DEF Announce, StartPcs, Forward
  <2> QED
    BY <1>4, <1>10, <2>1, <2>2 DEF Announce
<1>11. CASE Discard(w)
  <2>1. PICK b : forwards' = [forwards EXCEPT ![w] = [forwards[w] EXCEPT !.listed = b]]
    BY <1>11 DEF Discard
  <2>2. PICK f : f = [forwards[w] EXCEPT !.listed = b]
    OBVIOUS
  <2>3. ~f.loop /\ f.st # "Active"
    BY <1>5, <1>11, <2>2 DEF Discard, StartPcs, Forward
  <2> QED
    BY <1>4, <2>1, <2>2, <2>3
<1>12. CASE FailStart(w)
  <2>1. CASE forwards[w].st = "Starting"
    <3>1. PICK f : f = [forwards[w] EXCEPT !.st = "Failed"]
      OBVIOUS
    <3>2. ~f.loop /\ f.st # "Active"
      BY <1>5, <1>12, <3>1 DEF FailStart, StartPcs, Forward
    <3> QED
      BY <1>4, <1>12, <2>1, <3>1, <3>2 DEF FailStart
  <2>2. CASE forwards[w].st # "Starting"
    BY <1>3, <1>12, <2>2 DEF FailStart
  <2> QED
    BY <2>1, <2>2
<1>13. CASE Activate(w)
  <2>1. CASE ~StillStarting(w)
    BY <1>3, <1>13, <2>1 DEF Activate
  <2>2. CASE StillStarting(w)
    <3>1. stateLock = w /\ w # Transition
      BY <1>13, LockHolder, StartAt DEF Activate, LockPcs
    <3>2. \A k \in Forwards : ~BeingMarked(k)
      BY <3>1, LockHolder, TaskKinds DEF BeingMarked, LockPcs
    <3>3. PICK f : f = [forwards[w] EXCEPT !.st = "Active", !.keyed = TRUE, !.loop = TRUE,
                                           !.handle = TRUE]
      OBVIOUS
    <3>4. f.st = "Active" /\ f.listed = forwards[w].listed
      BY <3>3 DEF Forward
    <3>5. \A k \in Forwards : forwards'[k] = IF k = w THEN f ELSE forwards[k]
      BY <1>13, <2>2, <3>3 DEF Activate
    <3>6. forwards[w].listed
      BY <1>13, <2>2 DEF Activate, Sound, StillStarting
    <3> QED
      BY <3>2, <3>4, <3>5, <3>6 DEF LiveApart, Live, IsActive
  <2> QED
    BY <2>1, <2>2
<1> QED
  BY <1>6, <1>7, <1>8, <1>9, <1>10, <1>11, <1>12, <1>13 DEF StartStep

(* What a stop, a finalizer or a failing connection ends, it has cancelled. *)
LEMMA EndsKeepLive ==
  ASSUME ForwardInv, HoldersInv, LiveApart, NEW w \in Forwards \cup StopRequests,
         \/ EndStep(w) \/ StopStep(w) \/ \E i \in Forwards : AskStop(w, i)
         \/ w \in Forwards /\ OpenFails(w)
  PROVE  LiveApart'
<1> forwards \in [Forwards -> Forward] /\ w \in Tasks
  BY TaskKinds DEF ForwardInv, ForwardTypeOK
<1>1. tasks'[Transition] = tasks[Transition]
  BY SwitchStands
<1>2. \A k \in Forwards : BeingMarked(k) => BeingMarked(k)'
  BY <1>1 DEF BeingMarked
<1>3. ASSUME forwards' = forwards PROVE LiveApart'
  BY <1>2, <1>3, LivesStay DEF Live, IsActive
<1>4. ASSUME NEW i \in Forwards, NEW f, forwards' = [forwards EXCEPT ![i] = f], f.cancelled,
             f.st # "Active"
      PROVE  LiveApart'
  BY <1>2, <1>4, OneLiveLess
<1>5. CASE Finish(w)
  <2>1. PICK i \in Forwards : i = tasks[w].at
    BY <1>5, LockHolder DEF Finish, SessionPcs
  <2>2. forwards[i].cancelled
    BY <1>5, <2>1 DEF Finish, HoldersInv, JoinedEnd
  <2>3. PICK f : f = [forwards[i] EXCEPT !.st = Verdict(w)]
    OBVIOUS
  <2>4. f.cancelled /\ f.st # "Active"
    BY <2>2, <2>3 DEF Forward, Verdict
  <2>5. forwards' = forwards \/ forwards' = [forwards EXCEPT ![i] = f]
    BY <1>5, <2>1, <2>3 DEF Finish
  <2> QED
    BY <1>3, <1>4, <2>4, <2>5
<1>6. CASE Stop(w)
  <2>1. PICK i \in Forwards : i = tasks[w].at
    BY <1>6, LockHolder DEF Stop, SessionPcs
  <2>2. PICK f : f = Ending(forwards[i])
    OBVIOUS
  <2>3. f.cancelled /\ f.st # "Active"
    BY <2>2, EndingFields
  <2>4. forwards' = forwards \/ forwards' = [forwards EXCEPT ![i] = f]
    BY <1>6, <2>1, <2>2 DEF Stop
  <2> QED
    BY <1>3, <1>4, <2>3, <2>4
<1>7. CASE AnnounceEnd(w) \/ AnnounceStop(w) \/ \E i \in Forwards : AskStop(w, i)
  BY <1>3, <1>7 DEF AnnounceEnd, AnnounceStop, PublishHeld, AskStop
<1>8. CASE w \in Forwards /\ OpenFails(w)
  <2>1. PICK e : e = Ending(forwards[w])
    OBVIOUS
  <2>2. e \in Forward /\ e.cancelled /\ e.st = "Stopping"
    BY <1>8, <2>1, EndingFields
  <2>3. PICK f : f = [e EXCEPT !.pump = FALSE]
    OBVIOUS
  <2>4. f.cancelled /\ f.st # "Active"
    BY <2>2, <2>3 DEF Forward
  <2>5. forwards' = [forwards EXCEPT ![w] = f]
    BY <1>8, <2>1, <2>3 DEF OpenFails
  <2> QED
    BY <1>4, <1>8, <2>4, <2>5
<1> QED
  BY <1>5, <1>6, <1>7, <1>8 DEF EndStep, StopStep

LEMMA LoopsKeepLive ==
  ASSUME ForwardInv, LiveApart, NEW i \in Forwards, Accept(i) \/ LoopEnds(i) \/ PumpEnds(i)
  PROVE  LiveApart'
<1> forwards \in [Forwards -> Forward] /\ UNCHANGED tasks
  BY DEF ForwardInv, ForwardTypeOK, Accept, LoopEnds, PumpEnds
<1>1. \A k \in Forwards : BeingMarked(k) => BeingMarked(k)'
  BY DEF BeingMarked
<1>2. PICK b \in BOOLEAN : \/ forwards' = [forwards EXCEPT ![i].pump = b]
                           \/ forwards' = [forwards EXCEPT ![i].loop = FALSE]
  BY DEF Accept, LoopEnds, PumpEnds
<1>3. \A k \in Forwards :
        /\ forwards'[k].st = forwards[k].st /\ forwards'[k].listed = forwards[k].listed
        /\ forwards'[k].target = forwards[k].target
        /\ forwards'[k].cancelled = forwards[k].cancelled
        /\ forwards'[k].loop => forwards[k].loop
  BY <1>2 DEF Forward
<1> QED
  BY <1>1, <1>3, LivesStay DEF Live, IsActive

(* The session that is marked keeps its listener until it is cancelled with the *)
(* gate; what is drained was cancelled.                                         *)
LEMMA SwitchKeepsLive ==
  ASSUME ForwardInv, HoldersInv, LiveApart,
         TransitionStep \/ \E to \in ForwardContexts : BeginTransition(to)
  PROVE  LiveApart'
<1> forwards \in [Forwards -> Forward] /\ Transition \in Tasks /\ tasks[Transition] \in TaskState
  BY TaskKinds DEF ForwardInv, ForwardTypeOK
<1>1. ASSUME forwards' = forwards, tasks[Transition].pc # "announcing mark" PROVE LiveApart'
  BY <1>1, LivesStay DEF Live, IsActive, BeingMarked
<1>2. ASSUME NEW to \in ForwardContexts, BeginTransition(to) PROVE LiveApart'
  BY <1>1, <1>2 DEF BeginTransition
<1>3. ASSUME NEW i \in Forwards, MarkSession(i) PROVE LiveApart'
  <2>1. tasks[Transition].pc = "marking"
    BY <1>3 DEF MarkSession
  <2>2. CASE ~Open(i)
    BY <1>1, <1>3, <2>1, <2>2 DEF MarkSession
  <2>3. CASE Open(i)
    <3>1. PICK f : f = [forwards[i] EXCEPT !.st = "Stopping"]
      OBVIOUS
    <3>2. /\ f.st = "Stopping" /\ f.listed = forwards[i].listed /\ f.loop = forwards[i].loop
          /\ f.cancelled = forwards[i].cancelled /\ f.target = forwards[i].target
      BY <3>1 DEF Forward
    <3>3. \A k \in Forwards : forwards'[k] = IF k = i THEN f ELSE forwards[k]
      BY <1>3, <2>3, <3>1 DEF MarkSession
    <3>4. BeingMarked(i)'
      <4>1. PICK r : r = [tasks[Transition] EXCEPT !.pc = "announcing mark", !.at = i,
                                                   !.todo = tasks[Transition].todo \ {i}]
        OBVIOUS
      <4>2. tasks' = [tasks EXCEPT ![Transition] = r]
        BY <1>3, <2>3, <4>1 DEF MarkSession
      <4>3. tasks'[Transition] = r /\ r.pc = "announcing mark" /\ r.at = i
        BY <4>1, <4>2 DEF TaskState, ForwardInv, ForwardTypeOK
      <4> QED
        BY <4>3 DEF BeingMarked
    <3>5. \A k \in Forwards : Live(k) => IsActive(k) /\ forwards[k].listed
      BY <2>1 DEF LiveApart, BeingMarked
    <3>6. ASSUME NEW k \in Forwards, Live(k)'
          PROVE  /\ forwards'[k].listed
                 /\ \/ IsActive(k)'
                    \/ /\ k = i /\ forwards'[k].st = "Stopping"
                       /\ \A j \in Forwards \ {k} :
                            IsActive(j)' => KeyOf[forwards'[j].target] # KeyOf[forwards'[k].target]
      <4>1. Live(k) /\ IsActive(k) /\ forwards[k].listed
        BY <3>2, <3>3, <3>5, <3>6 DEF Live
      <4>2. \A j \in Forwards \ {k} :
              IsActive(j) => KeyOf[forwards[j].target] # KeyOf[forwards[k].target]
        BY <4>1 DEF ForwardInv, ActivesApart
      <4> QED
        BY <3>2, <3>3, <4>1, <4>2 DEF IsActive
    <3> QED
      BY <3>4, <3>6 DEF LiveApart
  <2> QED
    BY <2>2, <2>3
<1>4. CASE AnnounceMark
  <2>1. PICK i \in Forwards : i = tasks[Transition].at
    BY <1>4, LockHolder DEF AnnounceMark, SessionPcs
  <2>2. PICK f : f = Cancel(forwards[i])
    OBVIOUS
  <2>3. f.cancelled /\ f.st = forwards[i].st /\ f.target = forwards[i].target
    BY <2>2, CancelFields
  <2>4. forwards' = [forwards EXCEPT ![i] = f]
    BY <1>4, <2>1, <2>2 DEF AnnounceMark
  <2>5. \A k \in Forwards : k = i \/ (BeingMarked(k) => BeingMarked(k)')
    BY <2>1 DEF BeingMarked
  <2> QED
    BY <2>3, <2>4, <2>5, OneLiveLess
<1>5. ASSUME NEW j \in tasks[Transition].joins, Drain(j) PROVE LiveApart'
  <2>1. tasks[Transition].pc = "marking"
    BY <1>5 DEF Drain
  <2>2. PICK i \in Forwards : i = j.id
    BY DEF TaskState
  <2>3. PICK f : f = [forwards[i] EXCEPT !.st = "Stopped"]
    OBVIOUS
  <2>4. f.cancelled /\ f.st # "Active"
    BY <2>2, <2>3 DEF Forward, HoldersInv, JoinedEnd
  <2>5. forwards' = forwards \/ forwards' = [forwards EXCEPT ![i] = f]
    BY <1>5, <2>2, <2>3 DEF Drain
  <2>6. \A k \in Forwards : ~BeingMarked(k)
    BY <2>1 DEF BeingMarked
  <2> QED
    BY <1>1, <2>1, <2>4, <2>5, <2>6, OneLiveLess
<1>6. CASE AnnounceDrain \/ \E ok \in BOOLEAN : Commit(ok)
  BY <1>1, <1>6 DEF AnnounceDrain, PublishHeld, Commit
<1> QED
  BY <1>2, <1>3, <1>4, <1>5, <1>6 DEF TransitionStep

LEMMA LivesInductive ==
  ForwardInv /\ HoldersInv /\ LiveApart /\ [ForwardNext]_forwardVars => LiveApart'
<1> SUFFICES ASSUME ForwardInv, HoldersInv, LiveApart, [ForwardNext]_forwardVars
             PROVE  LiveApart'
  OBVIOUS
<1>1. CASE UNCHANGED forwardVars
  <2>1. UNCHANGED <<forwards, tasks>>
    BY <1>1 DEF forwardVars
  <2> QED
    BY <2>1, LivesStay DEF Live, IsActive, BeingMarked
<1>2. CASE ForwardNext
  <2>1. ASSUME NEW w \in Forwards,
               \/ \E t \in Targets, c \in ForwardContexts : Call(w, t, c)
               \/ StartStep(w) \/ CancelStart(w)
        PROVE  LiveApart'
    BY <2>1, StartsKeepLive
  <2>2. ASSUME NEW w \in Forwards, EndStep(w) \/ OpenFails(w) PROVE LiveApart'
    BY <2>2, EndsKeepLive
  <2>3. ASSUME NEW s \in StopRequests, StopStep(s) \/ \E i \in Forwards : AskStop(s, i)
        PROVE  LiveApart'
    BY <2>3, EndsKeepLive
  <2>4. ASSUME NEW i \in Forwards, Accept(i) \/ LoopEnds(i) \/ PumpEnds(i) PROVE LiveApart'
    BY <2>4, LoopsKeepLive
  <2> QED
    BY <1>2, <2>1, <2>2, <2>3, <2>4, SwitchKeepsLive DEF ForwardNext
<1> QED
  BY <1>1, <1>2

LEMMA LivesInitially == ForwardInit => LiveApart
<1> SUFFICES ASSUME ForwardInit, NEW i \in Forwards PROVE ~Live(i)
  BY DEF LiveApart
<1> QED
  BY DEF ForwardInit, NoForward, Live

(* However starts, stops, failures and switches interleave over the manager's   *)
(* locks: a listener that accepts belongs to a listed session of the committed  *)
(* context which is Active, or which the transition marks and cancels once it   *)
(* has the gate, alone on its endpoint and within MAX_SESSIONS; a start that is *)
(* over leaves a row that says Starting at one of its exits only, and then      *)
(* without a listener; and what hangs, hangs in a circle of locks               *)
(* (port_forward.rs).                                                           *)
THEOREM ForwardsStayConsistent == ForwardSpec => []ForwardsConsistent
<1>1. ForwardInv /\ LiveApart /\ HangsAreCircles => ForwardsConsistent
  <2> SUFFICES ASSUME ForwardInv, LiveApart, HangsAreCircles PROVE ForwardsConsistent
    OBVIOUS
  <2>1. ASSUME NEW i \in Forwards, Live(i)
        PROVE  /\ forwards[i].listed /\ (IsActive(i) \/ (forwards[i].st = "Stopping" /\ BeingMarked(i)))
               /\ stateLock # Transition => forwards[i].context = committed
    <3>1. BeingMarked(i) => stateLock = Transition
      BY LockHolder, TaskKinds DEF BeingMarked, LockPcs
    <3> QED
      BY <2>1, <3>1 DEF LiveApart, ForwardInv, ActivesApart
  <2>2. ASSUME NEW i \in Forwards, NEW j \in Forwards \ {i}, Live(i), Live(j)
        PROVE  KeyOf[forwards[j].target] # KeyOf[forwards[i].target]
    <3>1. CASE IsActive(i) /\ IsActive(j)
      BY <3>1 DEF ForwardInv, ActivesApart
    <3>2. CASE ~IsActive(i)
      <4>1. BeingMarked(i)
        BY <2>2, <3>2 DEF LiveApart
      <4>2. ~BeingMarked(j)
        BY <4>1 DEF BeingMarked
      <4>3. IsActive(j)
        BY <2>2, <4>2 DEF LiveApart
      <4> QED
        BY <2>2, <3>2, <4>3 DEF LiveApart
    <3>3. CASE ~IsActive(j)
      <4>1. BeingMarked(j)
        BY <2>2, <3>3 DEF LiveApart
      <4>2. ~BeingMarked(i)
        BY <4>1 DEF BeingMarked
      <4>3. IsActive(i)
        BY <2>2, <4>2 DEF LiveApart
      <4> QED
        BY <2>2, <3>3, <4>3 DEF LiveApart
    <3> QED
      BY <3>1, <3>2, <3>3
  <2>3. ListenersBelong
    BY <2>1, <2>2 DEF ListenersBelong, Live, IsActive
  <2>4. NoOrphanStart
    BY DEF NoOrphanStart, ForwardInv, SessionsSound, Sound, OpenPcs, StartPcs
  <2> QED
    BY <2>3, <2>4 DEF ForwardsConsistent, ForwardInv
<1>2. ForwardSpec => []LiveApart
  BY ForwardInvHolds, HoldersInvHolds, LivesInitially, LivesInductive, PTL DEF ForwardSpec
<1> QED
  BY <1>1, <1>2, ForwardInvHolds, HangsOnlyInCircles, PTL

---------------------------------------------------------------------------
(* The port-forward feed: what is in flight was published *)

RowStates == {"none", "Active", "ended", "gone"}
FeedRows == [rev : Nat, st : RowStates]
FeedEvents == [id : Rows, row : FeedRows]
FeedLists == [rev : Nat, rows : [Rows -> FeedRows]]
EventSlots == [key : {<<"row", i>> : i \in Rows}, message : FeedEvents]
ListSlots == [key : {ListKey}, message : FeedLists]
FeedReads ==
  [pc : {"idle", "based", "reading"}, rev : Nat, todo : SUBSET Rows, rows : [Rows -> FeedRows]]
SlotKeys == {<<"row", i>> : i \in Rows} \cup {ListKey}

FeedShapes ==
  /\ published \in [Rows -> FeedRows] /\ view \in [Rows -> FeedRows]
  /\ clock \in Nat /\ feed \in Nat /\ listed \in Nat
  /\ channel \in Seq(FeedEvents) /\ stream \in Seq(EventSlots \cup ListSlots)
  /\ list \in FeedReads /\ answers \subseteq FeedEvents

(* The row is p, as the manager shows it, but for its expiry, or an older one. *)
ShownAs(p, row) ==
  /\ row.rev <= p.rev
  /\ row.rev = p.rev => row.st = p.st \/ p.st = "gone"

RowsShown(P, rows) == \A i \in Rows : ShownAs(P[i], rows[i])
EventShown(P, event) == ShownAs(P[event.id], event.row)
ListShown(P, c, l) == l.rev <= c /\ RowsShown(P, l.rows)
SlotShown(P, c, slot) ==
  IF IsEvent(slot) THEN EventShown(P, slot.message) ELSE ListShown(P, c, slot.message)

(* Every row on its way to the client, and of those it shows, was published. *)
FeedTruthful ==
  /\ RowsShown(published, view) /\ ListShown(published, clock, list)
  /\ \A k \in DOMAIN channel : EventShown(published, channel[k])
  /\ \A k \in DOMAIN stream : SlotShown(published, clock, stream[k])
  /\ \A a \in answers : EventShown(published, a)

FeedBounded ==
  /\ clock <= MaxPublications
  /\ \A i \in Rows : published[i].rev <= clock
  /\ \A i \in Rows : published[i].rev = 0 => published[i].st = "none"
  /\ listed <= feed /\ feed <= clock
  /\ Len(channel) <= clock

(* One slot for each key. *)
SlotsApart == \A j, k \in DOMAIN stream : stream[j].key = stream[k].key => j = k

FeedInv == FeedShapes /\ FeedTruthful /\ FeedBounded /\ SlotsApart

---------------------------------------------------------------------------
(* What an element of a sequence over S is *)
LEMMA ElementsOf ==
  ASSUME NEW S, NEW s \in Seq(S)
  PROVE  /\ Len(s) \in Nat /\ DOMAIN s = 1 .. Len(s)
         /\ \A k \in 1 .. Len(s) : s[k] \in S
  OBVIOUS

LEMMA RestOf ==
  ASSUME NEW S, NEW s \in Seq(S), s # <<>>
  PROVE  /\ Head(s) = s[1] /\ s[1] \in S /\ 1 \in DOMAIN s /\ Tail(s) \in Seq(S)
         /\ Len(Tail(s)) = Len(s) - 1
         /\ \A k \in DOMAIN Tail(s) : k + 1 \in DOMAIN s /\ Tail(s)[k] = s[k + 1]
  OBVIOUS

LEMMA AddedTo ==
  ASSUME NEW S, NEW s \in Seq(S), NEW e \in S
  PROVE  /\ Append(s, e) \in Seq(S) /\ Len(Append(s, e)) = Len(s) + 1
         /\ \A k \in DOMAIN Append(s, e) :
              (k = Len(s) + 1 /\ Append(s, e)[k] = e) \/ (k \in DOMAIN s /\ Append(s, e)[k] = s[k])
  OBVIOUS

(* The two kinds of slots are told apart by their keys. *)
LEMMA SlotKinds ==
  /\ \A s \in EventSlots : IsEvent(s) /\ s.key \in SlotKeys /\ s.message \in FeedEvents
  /\ \A s \in ListSlots : ~IsEvent(s) /\ s.key \in SlotKeys /\ s.message \in FeedLists
<1>1. \A i \in Rows : <<"row", i>> # <<"list">>
  OBVIOUS
<1>. QED
  BY <1>1 DEF EventSlots, ListSlots, IsEvent, ListKey, SlotKeys

LEMMA NoRowType == NoRow \in FeedRows /\ NoRow.rev = 0 /\ NoRow.st = "none"
  BY DEF NoRow, FeedRows, RowStates

LEMMA NoListType ==
  /\ NoList \in FeedReads /\ NoList.rev = 0 /\ NoList.pc = "idle"
  /\ \A i \in Rows : NoList.rows[i] = NoRow
<1>1. [i \in Rows |-> NoRow] \in [Rows -> FeedRows]
  BY NoRowType
<1>. QED
  BY <1>1 DEF NoList, FeedReads

(* Coalescing keeps one slot a key, and puts no slot but the new one. *)
LEMMA CoalescedFacts ==
  ASSUME FeedShapes, SlotsApart, NEW e \in EventSlots \cup ListSlots,
         stream' = Coalesced(e.key, e.message)
  PROVE  /\ stream' \in Seq(EventSlots \cup ListSlots) /\ SlotsApart'
         /\ \A k \in DOMAIN stream' : stream'[k] = e \/ (k \in DOMAIN stream /\ stream'[k] = stream[k])
<1> DEFINE Slots == EventSlots \cup ListSlots
<1>1. /\ Len(stream) \in Nat /\ DOMAIN stream = 1 .. Len(stream)
      /\ \A k \in 1 .. Len(stream) : stream[k] \in Slots
  BY ElementsOf DEF FeedShapes
<1>2. e = [key |-> e.key, message |-> e.message]
  BY DEF EventSlots, ListSlots
<1>3. CASE \E k \in DOMAIN stream : stream[k].key = e.key
  <2> DEFINE n == Len(stream)
             F == [k \in 1 .. n |-> IF stream[k].key = e.key THEN e ELSE stream[k]]
  <2>1. stream' = F
    BY <1>1, <1>2, <1>3 DEF Coalesced
  <2>2. F \in [1 .. n -> Slots]
    BY <1>1
  <2>3. F \in Seq(Slots)
    <3> HIDE DEF F, Slots, n
    <3>1. n \in Nat
      BY <1>1 DEF n
    <3>. QED
      BY ONLY <2>2, <3>1
  <2>4. \A k \in 1 .. n : F[k] = e \/ F[k] = stream[k]
    OBVIOUS
  <2>5. \A k \in 1 .. n : F[k].key = stream[k].key
    OBVIOUS
  <2>6. DOMAIN F = 1 .. n
    OBVIOUS
  <2>7. SlotsApart'
    BY <1>1, <2>1, <2>5, <2>6 DEF SlotsApart
  <2>. QED
    BY <1>1, <2>1, <2>3, <2>4, <2>6, <2>7
<1>4. CASE ~\E k \in DOMAIN stream : stream[k].key = e.key
  <2>1. stream' = Append(stream, e)
    BY <1>2, <1>4 DEF Coalesced
  <2>2. stream \in Seq(Slots)
    BY DEF FeedShapes
  <2>3. /\ stream' \in Seq(Slots)
        /\ \A k \in DOMAIN stream' :
             (k = Len(stream) + 1 /\ stream'[k] = e) \/ (k \in DOMAIN stream /\ stream'[k] = stream[k])
    BY <2>1, <2>2, AddedTo
  <2>4. SlotsApart'
    BY <1>4, <2>3 DEF SlotsApart
  <2>. QED
    BY <2>3, <2>4
<1>. QED
  BY <1>3, <1>4

(* There is a slot for each row and one for the list. *)
LEMMA StreamBounded ==
  ASSUME FeedShapes, SlotsApart
  PROVE  Len(stream) <= Cardinality(Rows) + 1
<1> DEFINE n == Len(stream)
           f == [k \in 1 .. n |-> stream[k].key]
           g == [i \in Rows |-> <<"row", i>>]
           K == {<<"row", i>> : i \in Rows}
<1>1. /\ n \in Nat /\ DOMAIN stream = 1 .. n
      /\ \A k \in 1 .. n : stream[k] \in EventSlots \cup ListSlots
  BY ElementsOf DEF FeedShapes
<1>2. f \in [1 .. n -> SlotKeys]
  BY <1>1, SlotKinds
<1>3. \A j, k \in 1 .. n : f[j] = f[k] => j = k
  BY <1>1 DEF SlotsApart
<1>4. IsFiniteSet(Rows) /\ Cardinality(Rows) \in Nat
  BY FeedAssumption, FS_CardinalityType
<1>5. IsFiniteSet(K) /\ Cardinality(K) \in Nat /\ Cardinality(K) <= Cardinality(Rows)
  <2>1. g \in Surjection(Rows, K)
    BY DEF Surjection
  <2>2. IsFiniteSet(K) /\ Cardinality(K) <= Cardinality(Rows)
    BY <1>4, <2>1, FS_Surjection
  <2>. QED
    BY <2>2, FS_CardinalityType
<1>6. ListKey \notin K
  BY DEF ListKey
<1>7. IsFiniteSet(SlotKeys) /\ Cardinality(SlotKeys) = Cardinality(K) + 1
  BY <1>5, <1>6, FS_AddElement DEF SlotKeys
<1>8. IsFiniteSet(1 .. n) /\ Cardinality(1 .. n) = n
  <2>1. IsFiniteSet(1 .. n) /\ Cardinality(1 .. n) = IF 1 > n THEN 0 ELSE n - 1 + 1
    BY <1>1, FS_Interval
  <2>. QED
    BY <1>1, <2>1
<1>9. PICK S : S = 1 .. n
  OBVIOUS
<1>10. ~(Cardinality(SlotKeys) < Cardinality(S))
  <2>1. f \in [S -> SlotKeys] /\ \A j, k \in S : f[j] = f[k] => j = k
    BY <1>2, <1>3, <1>9
  <2>2. IsFiniteSet(S)
    BY <1>8, <1>9
  <2> HIDE DEF f
  <2>. QED
    BY <1>7, <2>1, <2>2, FS_PigeonHole
<1>11. Cardinality(S) = n
  BY <1>8, <1>9
<1>. QED
  BY <1>1, <1>4, <1>5, <1>7, <1>10, <1>11

---------------------------------------------------------------------------
(* Rows are replaced by later ones, or expire. *)
RowsGrow(P, Q) ==
  \A i \in Rows :
    \/ Q[i] = P[i]
    \/ Q[i].rev > P[i].rev
    \/ Q[i].rev = P[i].rev /\ Q[i].st = "gone"

(* What was shown is shown still. *)
LEMMA RowsStillShown ==
  ASSUME NEW P \in [Rows -> FeedRows], NEW Q \in [Rows -> FeedRows], RowsGrow(P, Q),
         NEW rows \in [Rows -> FeedRows], RowsShown(P, rows)
  PROVE  RowsShown(Q, rows)
<1> SUFFICES ASSUME NEW i \in Rows PROVE ShownAs(Q[i], rows[i])
  BY DEF RowsShown
<1>1. /\ P[i].rev \in Nat /\ Q[i].rev \in Nat /\ rows[i].rev \in Nat
      /\ ShownAs(P[i], rows[i])
  BY DEF FeedRows, RowsShown
<1>. QED
  BY <1>1 DEF ShownAs, RowsGrow

LEMMA EventStillShown ==
  ASSUME NEW P \in [Rows -> FeedRows], NEW Q \in [Rows -> FeedRows], RowsGrow(P, Q),
         NEW event \in FeedEvents, EventShown(P, event)
  PROVE  EventShown(Q, event)
<1>1. event.id \in Rows /\ event.row.rev \in Nat
  BY DEF FeedEvents, FeedRows
<1>2. P[event.id].rev \in Nat /\ Q[event.id].rev \in Nat
  BY <1>1 DEF FeedRows
<1>. QED
  BY <1>1, <1>2 DEF EventShown, ShownAs, RowsGrow

LEMMA SlotStillShown ==
  ASSUME NEW P \in [Rows -> FeedRows], NEW Q \in [Rows -> FeedRows], RowsGrow(P, Q),
         NEW c \in Nat, NEW d \in Nat, c <= d,
         NEW slot \in EventSlots \cup ListSlots, SlotShown(P, c, slot)
  PROVE  SlotShown(Q, d, slot)
<1>1. CASE slot \in EventSlots
  BY <1>1, SlotKinds, EventStillShown DEF SlotShown
<1>2. CASE slot \in ListSlots
  <2>1. ~IsEvent(slot) /\ slot.message \in FeedLists
    BY <1>2, SlotKinds
  <2>2. slot.message.rev \in Nat /\ slot.message.rows \in [Rows -> FeedRows]
    BY <2>1 DEF FeedLists
  <2>3. slot.message.rev <= c /\ RowsShown(P, slot.message.rows)
    BY <2>1 DEF SlotShown, ListShown
  <2>4. RowsShown(Q, slot.message.rows)
    BY <2>2, <2>3, RowsStillShown
  <2>. QED
    BY <2>1, <2>2, <2>3, <2>4 DEF SlotShown, ListShown
<1>. QED
  BY <1>1, <1>2

(* Nothing that is in flight or shown is disturbed by newer rows. *)
LEMMA TruthSurvives ==
  ASSUME FeedShapes, FeedTruthful, NEW Q \in [Rows -> FeedRows], RowsGrow(published, Q),
         NEW c \in Nat, clock <= c
  PROVE  /\ RowsShown(Q, view) /\ ListShown(Q, c, list)
         /\ \A k \in DOMAIN channel : EventShown(Q, channel[k])
         /\ \A k \in DOMAIN stream : SlotShown(Q, c, stream[k])
         /\ \A a \in answers : EventShown(Q, a)
<1>1. /\ published \in [Rows -> FeedRows] /\ view \in [Rows -> FeedRows] /\ clock \in Nat
      /\ list.rev \in Nat /\ list.rows \in [Rows -> FeedRows]
  BY DEF FeedShapes, FeedReads
<1>2. RowsShown(Q, view)
  BY <1>1, RowsStillShown DEF FeedTruthful
<1>3. ListShown(Q, c, list)
  BY <1>1, RowsStillShown DEF FeedTruthful, ListShown
<1>4. \A k \in DOMAIN channel : EventShown(Q, channel[k])
  <2> SUFFICES ASSUME NEW k \in DOMAIN channel PROVE EventShown(Q, channel[k])
    OBVIOUS
  <2>1. channel[k] \in FeedEvents
    BY ElementsOf DEF FeedShapes
  <2>. QED
    BY <1>1, <2>1, EventStillShown DEF FeedTruthful
<1>5. \A k \in DOMAIN stream : SlotShown(Q, c, stream[k])
  <2> SUFFICES ASSUME NEW k \in DOMAIN stream PROVE SlotShown(Q, c, stream[k])
    OBVIOUS
  <2>1. stream[k] \in EventSlots \cup ListSlots
    BY ElementsOf DEF FeedShapes
  <2>. QED
    BY <1>1, <2>1, SlotStillShown DEF FeedTruthful
<1>6. \A a \in answers : EventShown(Q, a)
  BY <1>1, EventStillShown DEF FeedTruthful, FeedShapes
<1>. QED
  BY <1>2, <1>3, <1>4, <1>5, <1>6

(* The manager publishes a row. *)
LEMMA PublishKeepsFeed ==
  ASSUME FeedInv, NEW i \in Rows, NEW st \in {"Active", "ended"}, PublishRow(i, st)
  PROVE  FeedInv'
<1> DEFINE row == [rev |-> clock + 1, st |-> st]
           event == [id |-> i, row |-> row]
<1>1. /\ clock \in Nat /\ clock < MaxPublications /\ clock' = clock + 1
      /\ published' = [published EXCEPT ![i] = row]
      /\ channel' = Append(channel, event)
      /\ answers' \in {answers, answers \cup {event}}
      /\ UNCHANGED <<list, stream, view, feed, listed>>
  BY DEF PublishRow, FeedInv, FeedShapes, viewVars
<1>2. row \in FeedRows /\ event \in FeedEvents /\ row.rev = clock + 1 /\ row.st = st
  BY <1>1 DEF FeedRows, FeedEvents, RowStates
<1>3. event.id = i /\ event.row = row
  OBVIOUS
<1> HIDE DEF row, event
<1>4. published \in [Rows -> FeedRows] /\ \A j \in Rows : published[j].rev \in Nat
  BY DEF FeedInv, FeedShapes, FeedRows
<1>5. published' \in [Rows -> FeedRows] /\ clock' \in Nat
  BY <1>1, <1>2, <1>4
<1>6. \A j \in Rows : published'[j] = IF j = i THEN row ELSE published[j]
  BY <1>1, <1>4
<1>7. RowsGrow(published, published')
  <2>1. published'[i].rev > published[i].rev
    BY <1>1, <1>2, <1>4, <1>6 DEF FeedInv, FeedBounded
  <2>. QED
    BY <1>6, <2>1 DEF RowsGrow
<1>8. EventShown(published', event)
  <2>1. published'[i] = row
    BY <1>6
  <2>. QED
    BY <1>1, <1>2, <1>3, <2>1 DEF EventShown, ShownAs
<1>9. FeedShapes /\ FeedTruthful /\ FeedBounded /\ SlotsApart
  BY DEF FeedInv
<1>10. channel \in Seq(FeedEvents) /\ answers \subseteq FeedEvents
  BY <1>9 DEF FeedShapes
<1>11. /\ channel' \in Seq(FeedEvents) /\ Len(channel') = Len(channel) + 1
       /\ \A k \in DOMAIN channel' :
            (k = Len(channel) + 1 /\ channel'[k] = event)
            \/ (k \in DOMAIN channel /\ channel'[k] = channel[k])
  BY <1>1, <1>2, <1>10, AddedTo
<1>12. FeedShapes'
  BY <1>1, <1>2, <1>5, <1>9, <1>11 DEF FeedShapes
<1>13. FeedTruthful'
  <2>1. /\ RowsShown(published', view) /\ ListShown(published', clock', list)
        /\ \A k \in DOMAIN channel : EventShown(published', channel[k])
        /\ \A k \in DOMAIN stream : SlotShown(published', clock', stream[k])
        /\ \A a \in answers : EventShown(published', a)
    <3>1. clock <= clock' /\ clock' \in Nat
      BY <1>1
    <3>. QED
      BY <1>5, <1>7, <1>9, <3>1, TruthSurvives
  <2>2. \A k \in DOMAIN channel' : EventShown(published', channel'[k])
    BY <1>8, <1>11, <2>1
  <2>3. \A a \in answers' : EventShown(published', a)
    BY <1>1, <1>8, <2>1
  <2>. QED
    BY <1>1, <2>1, <2>2, <2>3 DEF FeedTruthful
<1>14. FeedBounded'
  <2>1. Len(channel) \in Nat /\ feed \in Nat /\ listed \in Nat
    BY <1>9, <1>10 DEF FeedShapes
  <2>2. /\ \A j \in Rows : published[j].rev <= clock
        /\ \A j \in Rows : published[j].rev = 0 => published[j].st = "none"
        /\ listed <= feed /\ feed <= clock /\ Len(channel) <= clock
    BY <1>9 DEF FeedBounded
  <2>3. \A j \in Rows : published'[j].rev <= clock'
    BY <1>1, <1>2, <1>4, <1>6, <2>2
  <2>4. \A j \in Rows : published'[j].rev = 0 => published'[j].st = "none"
    BY <1>1, <1>2, <1>6, <2>2
  <2>5. clock' <= MaxPublications
    BY <1>1, FeedAssumption
  <2>. QED
    BY <1>1, <1>11, <2>1, <2>2, <2>3, <2>4, <2>5 DEF FeedBounded
<1>15. SlotsApart'
  BY <1>1, <1>9 DEF SlotsApart
<1>. QED
  BY <1>12, <1>13, <1>14, <1>15 DEF FeedInv

(* A step of the forwarder or of the client, which publishes nothing. *)
LEMMA QuietKeepsFeed ==
  ASSUME FeedInv, UNCHANGED serverVars, FeedShapes', SlotsApart',
         RowsShown(published, view'), ListShown(published, clock, list'),
         \A k \in DOMAIN channel' : EventShown(published, channel'[k]),
         \A k \in DOMAIN stream' : SlotShown(published, clock, stream'[k]),
         answers' \subseteq answers,
         listed' <= feed', feed' <= clock, Len(channel') <= clock
  PROVE  FeedInv'
<1>1. FeedTruthful'
  BY DEF FeedTruthful, FeedInv, serverVars
<1>2. FeedBounded'
  BY DEF FeedBounded, FeedInv, serverVars
<1>. QED
  BY <1>1, <1>2 DEF FeedInv

(* The forwarder puts a slot on the stream. *)
LEMMA SlotKeepsFeed ==
  ASSUME FeedInv, NEW e \in EventSlots \cup ListSlots, SlotShown(published, clock, e),
         stream' = Coalesced(e.key, e.message),
         list' \in FeedReads, ListShown(published, clock, list'),
         channel' \in Seq(FeedEvents), Len(channel') <= clock,
         \A k \in DOMAIN channel' : EventShown(published, channel'[k]),
         UNCHANGED <<serverVars, answers, viewVars>>
  PROVE  FeedInv'
<1>1. /\ FeedShapes /\ FeedTruthful /\ FeedBounded /\ SlotsApart
      /\ UNCHANGED <<published, clock, answers, view, feed, listed>>
  BY DEF FeedInv, serverVars, viewVars
<1>2. /\ stream' \in Seq(EventSlots \cup ListSlots) /\ SlotsApart'
      /\ \A k \in DOMAIN stream' : stream'[k] = e \/ (k \in DOMAIN stream /\ stream'[k] = stream[k])
  BY <1>1, CoalescedFacts
<1>3. FeedShapes'
  BY <1>1, <1>2 DEF FeedShapes
<1>4. \A k \in DOMAIN stream' : SlotShown(published, clock, stream'[k])
  BY <1>1, <1>2 DEF FeedTruthful
<1>5. RowsShown(published, view')
  BY <1>1 DEF FeedTruthful
<1>6. listed' <= feed' /\ feed' <= clock
  BY <1>1 DEF FeedBounded
<1>. QED
  BY <1>1, <1>2, <1>3, <1>4, <1>5, <1>6, QuietKeepsFeed

(* The head of the channel is coalesced into its slot. *)
LEMMA ForwardEventKeepsFeed == FeedInv /\ ForwardEvent => FeedInv'
<1> SUFFICES ASSUME FeedInv, ForwardEvent PROVE FeedInv'
  OBVIOUS
<1>1. /\ channel # <<>> /\ channel \in Seq(FeedEvents) /\ list \in FeedReads
      /\ stream' = Coalesced(<<"row", Head(channel).id>>, Head(channel))
      /\ channel' = Tail(channel)
      /\ list' = list /\ UNCHANGED <<serverVars, answers, viewVars>>
  BY DEF ForwardEvent, FeedInv, FeedShapes
<1>2. /\ Head(channel) = channel[1] /\ channel[1] \in FeedEvents /\ 1 \in DOMAIN channel
      /\ channel' \in Seq(FeedEvents) /\ Len(channel') = Len(channel) - 1
      /\ \A k \in DOMAIN channel' : k + 1 \in DOMAIN channel /\ channel'[k] = channel[k + 1]
  BY <1>1, RestOf
<1> DEFINE e == [key |-> <<"row", Head(channel).id>>, message |-> Head(channel)]
<1>3. e \in EventSlots
  BY <1>2 DEF EventSlots, FeedEvents
<1>4. e.key = <<"row", Head(channel).id>> /\ e.message = Head(channel)
  OBVIOUS
<1> HIDE DEF e
<1>5. EventShown(published, Head(channel))
  BY <1>2 DEF FeedInv, FeedTruthful
<1>6. SlotShown(published, clock, e)
  BY <1>3, <1>4, <1>5, SlotKinds DEF SlotShown
<1>7. Len(channel') <= clock
  BY <1>1, <1>2, ElementsOf DEF FeedInv, FeedBounded, FeedShapes
<1>8. \A k \in DOMAIN channel' : EventShown(published, channel'[k])
  BY <1>2 DEF FeedInv, FeedTruthful
<1>9. ListShown(published, clock, list')
  BY <1>1 DEF FeedInv, FeedTruthful
<1>. QED
  BY <1>1, <1>2, <1>3, <1>4, <1>6, <1>7, <1>8, <1>9, SlotKeepsFeed

(* The finished list is coalesced into its slot. *)
LEMMA SendListKeepsFeed == FeedInv /\ SendList => FeedInv'
<1> SUFFICES ASSUME FeedInv, SendList PROVE FeedInv'
  OBVIOUS
<1>1. /\ list \in FeedReads /\ channel \in Seq(FeedEvents)
      /\ stream' = Coalesced(ListKey, [rev |-> list.rev, rows |-> list.rows])
      /\ list' = NoList /\ channel' = channel
      /\ UNCHANGED <<serverVars, answers, viewVars>>
  BY DEF SendList, FeedInv, FeedShapes
<1> DEFINE m == [rev |-> list.rev, rows |-> list.rows]
           e == [key |-> ListKey, message |-> m]
<1>2. e \in ListSlots /\ e.key = ListKey /\ e.message = m /\ m.rev = list.rev /\ m.rows = list.rows
  BY <1>1 DEF ListSlots, FeedLists, FeedReads
<1>3. stream' = Coalesced(e.key, e.message)
  BY <1>1
<1> HIDE DEF e, m
<1>4. ListShown(published, clock, m)
  BY <1>2 DEF FeedInv, FeedTruthful, ListShown
<1>5. SlotShown(published, clock, e)
  BY <1>2, <1>4, SlotKinds DEF SlotShown
<1>6. ListShown(published, clock, list')
  <2>1. clock \in Nat /\ \A i \in Rows : published[i] \in FeedRows
    BY DEF FeedInv, FeedShapes
  <2>2. \A i \in Rows : published[i].rev \in Nat
    BY <2>1 DEF FeedRows
  <2>3. \A i \in Rows : published[i].rev = 0 => published[i].st = "none"
    BY DEF FeedInv, FeedBounded
  <2>4. list'.rev = 0 /\ \A i \in Rows : list'.rows[i] = NoRow
    BY <1>1, NoListType
  <2>5. \A i \in Rows : ShownAs(published[i], list'.rows[i])
    BY <2>2, <2>3, <2>4, NoRowType DEF ShownAs
  <2>. QED
    BY <2>1, <2>4, <2>5 DEF ListShown, RowsShown
<1>7. list' \in FeedReads
  BY <1>1, NoListType
<1>8. Len(channel') <= clock /\ \A k \in DOMAIN channel' : EventShown(published, channel'[k])
  BY <1>1 DEF FeedInv, FeedBounded, FeedTruthful
<1>. QED
  BY <1>1, <1>2, <1>3, <1>5, <1>6, <1>7, <1>8, SlotKeepsFeed

(* A list is begun from the last revision, or has another row read into it. *)
LEMMA ReadKeepsFeed ==
  ASSUME FeedInv, list' \in FeedReads, ListShown(published, clock, list'),
         UNCHANGED <<serverVars, channel, stream, answers, viewVars>>
  PROVE  FeedInv'
<1>1. /\ FeedShapes /\ FeedTruthful /\ FeedBounded /\ SlotsApart
      /\ UNCHANGED <<published, clock, channel, stream, answers, view, feed, listed>>
  BY DEF FeedInv, serverVars, viewVars
<1>2. FeedShapes' /\ SlotsApart'
  BY <1>1 DEF FeedShapes, SlotsApart
<1>. QED
  BY <1>1, <1>2, QuietKeepsFeed DEF FeedTruthful, FeedBounded

LEMMA BeginListKeepsFeed == FeedInv /\ BeginList => FeedInv'
<1> SUFFICES ASSUME FeedInv, BeginList PROVE FeedInv'
  OBVIOUS
<1>1. clock \in Nat /\ published \in [Rows -> FeedRows]
  BY DEF FeedInv, FeedShapes
<1>2. PICK r \in FeedReads : r = NoList
  BY NoListType
<1>3. list' = [r EXCEPT !.pc = "based", !.rev = clock]
  BY <1>2 DEF BeginList
<1>4. list' \in FeedReads /\ list'.rev = clock /\ list'.rows = r.rows
  BY <1>1, <1>2, <1>3 DEF FeedReads
<1>5. \A i \in Rows : ShownAs(published[i], NoRow)
  BY <1>1, NoRowType DEF ShownAs, FeedInv, FeedBounded, FeedRows
<1>6. ListShown(published, clock, list')
  BY <1>1, <1>2, <1>4, <1>5, NoListType DEF ListShown, RowsShown
<1>. QED
  BY <1>4, <1>6, ReadKeepsFeed DEF BeginList

LEMMA ReadRowKeepsFeed == ASSUME NEW i \in Rows, FeedInv, ReadRow(i) PROVE FeedInv'
<1>1. clock \in Nat /\ published \in [Rows -> FeedRows] /\ list \in FeedReads
  BY DEF FeedInv, FeedShapes
<1>2. published[i] \in FeedRows /\ published[i].rev \in Nat /\ published[i].rev <= clock
  BY <1>1 DEF FeedRows, FeedInv, FeedBounded
<1>3. PICK n \in Nat : n = IF published[i].rev > list.rev THEN published[i].rev ELSE list.rev
  BY <1>1, <1>2 DEF FeedReads
<1>4. list' = [list EXCEPT !.todo = @ \ {i}, !.rows[i] = published[i], !.rev = n]
  BY <1>3 DEF ReadRow
<1>5. /\ list' \in FeedReads /\ list'.rev = n
      /\ list'.rows = [list.rows EXCEPT ![i] = published[i]]
  BY <1>1, <1>2, <1>4 DEF FeedReads
<1>6. list.rev <= clock /\ RowsShown(published, list.rows)
  BY DEF FeedInv, FeedTruthful, ListShown
<1>7. list.rows \in [Rows -> FeedRows] /\ list.rev \in Nat
  BY <1>1 DEF FeedReads
<1>8. ShownAs(published[i], published[i])
  BY <1>2 DEF ShownAs
<1>9. RowsShown(published, list'.rows)
  BY <1>5, <1>6, <1>7, <1>8 DEF RowsShown
<1>10. n <= clock
  BY <1>2, <1>3, <1>6
<1>. QED
  BY <1>5, <1>9, <1>10, ReadKeepsFeed DEF ReadRow, ListShown

(* Ended rows expire: nothing that is on its way becomes untrue. *)
LEMMA LockListKeepsFeed == FeedInv /\ LockList => FeedInv'
<1> SUFFICES ASSUME FeedInv, LockList PROVE FeedInv'
  OBVIOUS
<1>1. /\ FeedShapes /\ FeedTruthful /\ FeedBounded /\ SlotsApart
      /\ UNCHANGED <<clock, channel, stream, answers, view, feed, listed>>
  BY DEF FeedInv, LockList, viewVars
<1>2. /\ clock \in Nat /\ list \in FeedReads
      /\ published \in [Rows -> FeedRows] /\ \A i \in Rows : published[i].rev \in Nat
  BY <1>1 DEF FeedShapes, FeedRows
<1>3. PICK gone \in SUBSET {i \in Rows : published[i].st = "ended"} :
        published' = [i \in Rows |-> IF i \in gone THEN [published[i] EXCEPT !.st = "gone"]
                                     ELSE published[i]]
  BY DEF LockList
<1>4. \A i \in Rows :
        /\ published'[i] \in FeedRows /\ published'[i].rev = published[i].rev
        /\ i \in gone => published'[i].st = "gone" /\ published[i].st = "ended"
        /\ i \notin gone => published'[i] = published[i]
  <2> SUFFICES ASSUME NEW i \in Rows
               PROVE  /\ published'[i] \in FeedRows /\ published'[i].rev = published[i].rev
                      /\ i \in gone => published'[i].st = "gone" /\ published[i].st = "ended"
                      /\ i \notin gone => published'[i] = published[i]
    OBVIOUS
  <2>1. PICK row \in FeedRows : row = published[i]
    BY <1>2
  <2>2. CASE i \in gone
    <3>1. published'[i] = [row EXCEPT !.st = "gone"]
      BY <1>3, <2>1, <2>2
    <3>. QED
      BY <1>3, <2>1, <2>2, <3>1 DEF FeedRows, RowStates
  <2>3. CASE i \notin gone
    BY <1>2, <1>3, <2>3
  <2>. QED
    BY <2>2, <2>3
<1>5. published' \in [Rows -> FeedRows]
  BY <1>3, <1>4
<1>6. RowsGrow(published, published')
  BY <1>4 DEF RowsGrow
<1>7. clock <= clock
  BY <1>2
<1>8. /\ RowsShown(published', view) /\ ListShown(published', clock, list)
      /\ \A k \in DOMAIN channel : EventShown(published', channel[k])
      /\ \A k \in DOMAIN stream : SlotShown(published', clock, stream[k])
      /\ \A a \in answers : EventShown(published', a)
  BY <1>1, <1>2, <1>5, <1>6, <1>7, TruthSurvives
<1>9. list' \in FeedReads /\ list'.rev = list.rev /\ list'.rows = list.rows
  <2>1. PICK T \in SUBSET Rows : T = {i \in Rows : published'[i].st \in {"Active", "ended"}}
    OBVIOUS
  <2>2. list' = [list EXCEPT !.pc = "reading", !.todo = T]
    BY <2>1 DEF LockList
  <2>. QED
    BY <1>2, <2>2 DEF FeedReads
<1>10. FeedShapes'
  BY <1>1, <1>5, <1>9 DEF FeedShapes
<1>11. FeedTruthful'
  BY <1>1, <1>8, <1>9 DEF FeedTruthful, ListShown
<1>12. FeedBounded'
  <2>1. \A i \in Rows : published'[i].rev <= clock
    BY <1>1, <1>4 DEF FeedBounded
  <2>2. \A i \in Rows : published'[i].rev = 0 => published'[i].st = "none"
    BY <1>1, <1>4 DEF FeedBounded
  <2>. QED
    BY <1>1, <2>1, <2>2 DEF FeedBounded
<1>13. SlotsApart'
  BY <1>1 DEF SlotsApart
<1>. QED
  BY <1>10, <1>11, <1>12, <1>13 DEF FeedInv

(* The client applies an answer to a request. *)
LEMMA ApplyAnswerKeepsFeed == ASSUME NEW a, FeedInv, ApplyAnswer(a) PROVE FeedInv'
<1>1. /\ FeedShapes /\ FeedTruthful /\ FeedBounded /\ SlotsApart
      /\ UNCHANGED <<serverVars, published, clock, channel, list, stream, listed>>
      /\ a \in answers /\ answers' = answers \ {a}
  BY DEF FeedInv, ApplyAnswer, serverVars
<1>2. a \in FeedEvents /\ a.id \in Rows /\ a.row \in FeedRows /\ a.row.rev \in Nat
  BY <1>1 DEF FeedShapes, FeedEvents, FeedRows
<1>3. view \in [Rows -> FeedRows] /\ clock \in Nat /\ feed \in Nat /\ listed \in Nat
  BY <1>1 DEF FeedShapes
<1>4. a.row.rev <= published[a.id].rev /\ ShownAs(published[a.id], a.row)
  BY <1>1 DEF FeedTruthful, EventShown, ShownAs
<1>5. a.row.rev <= clock
  <2>1. published[a.id].rev \in Nat /\ published[a.id].rev <= clock
    BY <1>1, <1>2 DEF FeedBounded, FeedShapes, FeedRows
  <2>. QED
    BY <1>2, <1>3, <1>4, <2>1
<1>6. view' = view \/ view' = [view EXCEPT ![a.id] = a.row]
  BY DEF ApplyAnswer
<1>7. feed' = IF feed > a.row.rev THEN feed ELSE a.row.rev
  BY DEF ApplyAnswer, Larger
<1>8. feed' \in Nat /\ listed' <= feed' /\ feed' <= clock
  BY <1>1, <1>2, <1>3, <1>5, <1>7 DEF FeedBounded
<1>9. view' \in [Rows -> FeedRows]
  BY <1>2, <1>3, <1>6
<1>10. RowsShown(published, view')
  BY <1>1, <1>2, <1>3, <1>4, <1>6 DEF RowsShown, FeedTruthful
<1>11. FeedShapes' /\ SlotsApart'
  BY <1>1, <1>8, <1>9 DEF FeedShapes, SlotsApart
<1>. QED
  BY <1>1, <1>8, <1>10, <1>11, QuietKeepsFeed DEF FeedTruthful, FeedBounded

(* The client takes the head of the stream. *)
LEMMA TakeKeepsFeed ==
  ASSUME FeedInv, stream # <<>>, stream' = Tail(stream),
         UNCHANGED <<serverVars, channel, list, answers>>,
         view' \in [Rows -> FeedRows], feed' \in Nat, listed' \in Nat,
         RowsShown(published, view'), listed' <= feed', feed' <= clock
  PROVE  FeedInv'
<1>1. /\ FeedShapes /\ FeedTruthful /\ FeedBounded /\ SlotsApart
      /\ UNCHANGED <<published, clock, channel, list, answers>>
  BY DEF FeedInv, serverVars
<1>2. stream \in Seq(EventSlots \cup ListSlots)
  BY <1>1 DEF FeedShapes
<1>3. /\ stream' \in Seq(EventSlots \cup ListSlots)
      /\ \A k \in DOMAIN stream' : k + 1 \in DOMAIN stream /\ stream'[k] = stream[k + 1]
  BY <1>2, RestOf
<1>4. FeedShapes'
  BY <1>1, <1>3 DEF FeedShapes
<1>5. SlotsApart'
  <2> SUFFICES ASSUME NEW j \in DOMAIN stream', NEW k \in DOMAIN stream',
                      stream'[j].key = stream'[k].key
               PROVE  j = k
    BY DEF SlotsApart
  <2>1. j + 1 = k + 1
    BY <1>1, <1>3 DEF SlotsApart
  <2>2. j \in Nat /\ k \in Nat
    BY <1>3, ElementsOf
  <2>. QED
    BY <2>1, <2>2
<1>6. \A k \in DOMAIN stream' : SlotShown(published, clock, stream'[k])
  BY <1>1, <1>3 DEF FeedTruthful
<1>. QED
  BY <1>1, <1>4, <1>5, <1>6, QuietKeepsFeed DEF FeedTruthful, FeedBounded

LEMMA HeadOfStream ==
  ASSUME FeedInv, stream # <<>>
  PROVE  /\ Head(stream) \in EventSlots \cup ListSlots
         /\ SlotShown(published, clock, Head(stream))
  BY RestOf DEF FeedInv, FeedShapes, FeedTruthful

LEMMA ApplyEventKeepsFeed == FeedInv /\ ApplyEvent => FeedInv'
<1> SUFFICES ASSUME FeedInv, ApplyEvent PROVE FeedInv'
  OBVIOUS
<1> DEFINE event == Head(stream).message
<1>1. /\ stream # <<>> /\ IsEvent(Head(stream)) /\ stream' = Tail(stream)
      /\ UNCHANGED <<serverVars, channel, list, answers>>
      /\ \/ event.row.rev <= feed /\ UNCHANGED <<view, feed, listed>>
         \/ /\ ~(event.row.rev <= feed)
            /\ view' = view \/ view' = [view EXCEPT ![event.id] = event.row]
            /\ feed' = event.row.rev /\ listed' = listed
  BY DEF ApplyEvent, Ignored, viewVars
<1>2. event \in FeedEvents /\ EventShown(published, event)
  BY <1>1, HeadOfStream, SlotKinds DEF SlotShown
<1> HIDE DEF event
<1>3. event.id \in Rows /\ event.row \in FeedRows /\ event.row.rev \in Nat
  BY <1>2 DEF FeedEvents, FeedRows
<1>4. /\ view \in [Rows -> FeedRows] /\ clock \in Nat /\ feed \in Nat /\ listed \in Nat
      /\ published[event.id].rev \in Nat /\ published[event.id].rev <= clock
      /\ listed <= feed /\ feed <= clock /\ RowsShown(published, view)
  BY <1>3 DEF FeedInv, FeedShapes, FeedBounded, FeedTruthful, FeedRows
<1>5. event.row.rev <= clock
  BY <1>2, <1>3, <1>4 DEF EventShown, ShownAs
<1>6. view' \in [Rows -> FeedRows] /\ feed' \in Nat /\ listed' \in Nat
  BY <1>1, <1>3, <1>4
<1>7. RowsShown(published, view')
  BY <1>1, <1>2, <1>3, <1>4 DEF RowsShown, EventShown
<1>8. listed' <= feed' /\ feed' <= clock
  BY <1>1, <1>3, <1>4, <1>5
<1>. QED
  BY <1>1, <1>6, <1>7, <1>8, TakeKeepsFeed

LEMMA ApplyListKeepsFeed == FeedInv /\ ApplyList => FeedInv'
<1> SUFFICES ASSUME FeedInv, ApplyList PROVE FeedInv'
  OBVIOUS
<1> DEFINE l == Head(stream).message
<1>1. /\ stream # <<>> /\ ~IsEvent(Head(stream)) /\ stream' = Tail(stream)
      /\ UNCHANGED <<serverVars, channel, list, answers>>
      /\ \/ UNCHANGED <<view, feed, listed>>
         \/ view' = Merged(l) /\ feed' = l.rev /\ listed' = l.rev
  BY DEF ApplyList, viewVars
<1>2. l \in FeedLists /\ ListShown(published, clock, l)
  BY <1>1, HeadOfStream, SlotKinds DEF SlotShown
<1> HIDE DEF l
<1>3. l.rev \in Nat /\ l.rows \in [Rows -> FeedRows] /\ l.rev <= clock /\ RowsShown(published, l.rows)
  BY <1>2 DEF FeedLists, ListShown
<1>4. /\ view \in [Rows -> FeedRows] /\ clock \in Nat /\ feed \in Nat /\ listed \in Nat
      /\ listed <= feed /\ feed <= clock /\ RowsShown(published, view)
  BY DEF FeedInv, FeedShapes, FeedBounded, FeedTruthful
<1>5. CASE UNCHANGED <<view, feed, listed>>
  BY <1>1, <1>4, <1>5, TakeKeepsFeed
<1>6. CASE view' = Merged(l) /\ feed' = l.rev /\ listed' = l.rev
  <2>1. DOMAIN view' = Rows /\ view' = [i \in Rows |-> view'[i]]
    BY <1>6 DEF Merged
  <2>2. \A i \in Rows : view'[i] = view[i] \/ view'[i] = l.rows[i]
    BY <1>6 DEF Merged
  <2>3. view' \in [Rows -> FeedRows]
    BY <1>3, <1>4, <2>1, <2>2
  <2>4. RowsShown(published, view')
    BY <1>3, <1>4, <2>2 DEF RowsShown
  <2>5. listed' <= feed' /\ feed' <= clock
    BY <1>3, <1>6
  <2>. QED
    BY <1>1, <1>3, <1>6, <2>3, <2>4, <2>5, TakeKeepsFeed
<1>. QED
  BY <1>1, <1>5, <1>6

LEMMA FeedInitInv == FeedInit => FeedInv
<1> SUFFICES ASSUME FeedInit PROVE FeedInv
  OBVIOUS
<1>1. [i \in Rows |-> NoRow] \in [Rows -> FeedRows]
  BY NoRowType
<1>2. FeedShapes
  BY <1>1, NoListType DEF FeedInit, FeedShapes
<1>3. \A i \in Rows : ShownAs(NoRow, NoRow)
  BY NoRowType DEF ShownAs
<1>4. RowsShown(published, view) /\ ListShown(published, clock, list)
  BY <1>3, NoListType DEF FeedInit, RowsShown, ListShown
<1>5. DOMAIN channel = {} /\ DOMAIN stream = {} /\ Len(channel) = 0
  BY DEF FeedInit
<1>6. FeedTruthful /\ SlotsApart
  BY <1>4, <1>5 DEF FeedTruthful, SlotsApart, FeedInit
<1>7. FeedBounded
  BY <1>5, NoRowType, FeedAssumption DEF FeedBounded, FeedInit
<1>. QED
  BY <1>2, <1>6, <1>7 DEF FeedInv

LEMMA FeedNextInv == FeedInv /\ [FeedNext]_feedVars => FeedInv'
<1> SUFFICES ASSUME FeedInv, [FeedNext]_feedVars PROVE FeedInv'
  OBVIOUS
<1>1. ASSUME NEW i \in Rows, StartRow(i) \/ EndRow(i) PROVE FeedInv'
  BY <1>1, PublishKeepsFeed DEF StartRow, EndRow
<1>2. CASE ForwardEvent
  BY <1>2, ForwardEventKeepsFeed
<1>3. CASE ForwarderStep
  BY <1>3, BeginListKeepsFeed, LockListKeepsFeed, SendListKeepsFeed, ReadRowKeepsFeed
     DEF ForwarderStep
<1>4. CASE \E a \in answers : ApplyAnswer(a)
  BY <1>4, ApplyAnswerKeepsFeed
<1>5. CASE ApplyEvent
  BY <1>5, ApplyEventKeepsFeed
<1>6. CASE ApplyList
  BY <1>6, ApplyListKeepsFeed
<1>7. CASE UNCHANGED feedVars
  <2>1. UNCHANGED <<published, clock, channel, list, stream, answers, view, feed, listed>>
    BY <1>7 DEF feedVars, serverVars, viewVars
  <2>. QED
    BY <2>1 DEF FeedInv, FeedShapes, FeedTruthful, FeedBounded, SlotsApart
<1>. QED
  BY <1>1, <1>2, <1>3, <1>4, <1>5, <1>6, <1>7 DEF FeedNext

LEMMA FeedInvHolds == FeedSpec => []FeedInv
  BY FeedInitInv, FeedNextInv, PTL DEF FeedSpec

LEMMA FeedInvTypes == FeedInv => FeedTypeOK
<1> SUFFICES ASSUME FeedInv PROVE FeedTypeOK
  OBVIOUS
<1>1. /\ FeedShapes /\ FeedTruthful /\ FeedBounded /\ SlotsApart
      /\ clock \in Nat /\ feed \in Nat /\ listed \in Nat
      /\ Len(channel) \in Nat /\ MaxPublications \in Nat
  BY ElementsOf, FeedAssumption DEF FeedInv, FeedShapes
<1>2. \A i \in Rows : published[i].rev \in Nat /\ view[i].rev \in Nat
  BY <1>1 DEF FeedShapes, FeedRows
<1>3. \A i \in Rows : published[i].rev <= clock /\ view[i].rev <= published[i].rev
  BY <1>1 DEF FeedBounded, FeedTruthful, RowsShown, ShownAs
<1>4. \A i \in Rows : published[i].rev \in 0 .. clock /\ view[i].rev \in 0 .. clock
  BY <1>1, <1>2, <1>3
<1>5. clock \in 0 .. MaxPublications /\ feed \in 0 .. clock /\ listed \in 0 .. feed
  BY <1>1 DEF FeedBounded
<1>6. Len(channel) <= MaxPublications
  BY <1>1 DEF FeedBounded
<1>. QED
  BY <1>1, <1>4, <1>5, <1>6, StreamBounded DEF FeedTypeOK

(* Revisions are bounded by the manager's clock, a list never names one the   *)
(* feed has not reached, and the subscription's stream holds one slot for     *)
(* each row and one for the list (control.rs, client/state.rs).               *)
THEOREM FeedTypeCorrect == FeedSpec => []FeedTypeOK
  BY FeedInvTypes, FeedInvHolds, PTL

(* Whatever overtakes what - an answer the stream, an event the list it is   *)
(* read into, a list the events coalesced behind it - the client shows, and  *)
(* is on the way to be shown, no row newer than the manager's, and under the *)
(* manager's revision none but its own, if it has not expired since          *)
(* (apply_session, apply_session_event, apply_port_forward_list).            *)
THEOREM FeedStaysTruthful == FeedSpec => []FeedTruthful
  BY FeedInvHolds, PTL DEF FeedInv

(* A row the client goes on showing never goes back to an earlier revision,  *)
(* whichever of an answer, an event and a list comes last.                   *)
THEOREM ShownRowsAdvance == FeedSpec => RowsAdvance
<1> DEFINE Advance ==
      \A i \in Rows : view[i] # NoRow /\ view'[i] # NoRow => view'[i].rev >= view[i].rev
<1>1. FeedInv /\ [FeedNext]_feedVars => [Advance]_feedVars
  <2> SUFFICES ASSUME FeedInv, FeedNext PROVE Advance
    OBVIOUS
  <2>1. view \in [Rows -> FeedRows] /\ \A i \in Rows : view[i].rev \in Nat
    BY DEF FeedInv, FeedShapes, FeedRows
  <2>2. CASE view' = view
    BY <2>1, <2>2
  <2>3. ASSUME NEW a \in answers, ApplyAnswer(a) PROVE Advance
    <3>1. a.id \in Rows /\ a.row \in FeedRows /\ a.row.rev \in Nat
      BY DEF FeedInv, FeedShapes, FeedEvents, FeedRows
    <3>2. view' = view \/ (AnswerNewer(a.id, a.row) /\ view' = [view EXCEPT ![a.id] = a.row])
      BY <2>3 DEF ApplyAnswer
    <3>. QED
      BY <2>1, <3>1, <3>2 DEF AnswerNewer
  <2>4. CASE ApplyEvent
    <3> DEFINE event == Head(stream).message
    <3>1. /\ stream # <<>> /\ IsEvent(Head(stream))
          /\ \/ view' = view
             \/ /\ event.row.rev > view[event.id].rev
                /\ view' = [view EXCEPT ![event.id] = event.row]
      BY <2>4 DEF ApplyEvent, viewVars
    <3>2. event \in FeedEvents
      BY <3>1, HeadOfStream, SlotKinds
    <3> HIDE DEF event
    <3>3. event.id \in Rows /\ event.row.rev \in Nat
      BY <3>2 DEF FeedEvents, FeedRows
    <3>. QED
      BY <2>1, <3>1, <3>3
  <2>5. CASE ApplyList
    <3> DEFINE l == Head(stream).message
    <3>1. /\ stream # <<>> /\ ~IsEvent(Head(stream))
          /\ view' = view \/ view' = Merged(l)
      BY <2>5 DEF ApplyList, viewVars
    <3>2. l \in FeedLists
      BY <3>1, HeadOfStream, SlotKinds
    <3> HIDE DEF l
    <3>3. l.rev \in Nat /\ \A i \in Rows : l.rows[i].rev \in Nat
      BY <3>2 DEF FeedLists, FeedRows
    <3>4. ASSUME NEW i \in Rows, view' = Merged(l), view[i] # NoRow, view'[i] # NoRow
          PROVE  view'[i].rev >= view[i].rev
      <4>1. view'[i] = IF view[i].rev > (IF l.rows[i] = NoRow THEN l.rev ELSE l.rows[i].rev)
                       THEN view[i] ELSE l.rows[i]
        BY <3>4 DEF Merged
      <4>2. CASE view'[i] = view[i]
        BY <2>1, <4>2
      <4>3. CASE l.rows[i] # NoRow /\ ~(view[i].rev > l.rows[i].rev) /\ view'[i] = l.rows[i]
        BY <2>1, <3>3, <4>3
      <4>. QED
        BY <3>4, <4>1, <4>2, <4>3
    <3>. QED
      BY <2>1, <3>1, <3>4
  <2>6. \/ view' = view \/ ApplyEvent \/ ApplyList
        \/ \E a \in answers : ApplyAnswer(a)
    BY DEF FeedNext, StartRow, EndRow, PublishRow, ForwardEvent, ForwarderStep, BeginList,
           LockList, ReadRow, SendList, viewVars
  <2>. QED
    BY <2>2, <2>3, <2>4, <2>5, <2>6
<1>. QED
  BY <1>1, FeedInvHolds, PTL DEF FeedSpec, RowsAdvance

---------------------------------------------------------------------------
(* The two side by side *)

LEMMA ForwardingStep ==
  [MCNext]_<<focus, forwardVars, feedVars>> => [ForwardNext]_forwardVars /\ [FeedNext]_feedVars
<1> SUFFICES ASSUME MCNext PROVE [ForwardNext]_forwardVars /\ [FeedNext]_feedVars
  OBVIOUS
<1>1. CASE ForwardNext /\ UNCHANGED feedVars
  BY <1>1
<1>2. CASE FeedNext /\ UNCHANGED forwardVars
  BY <1>2
<1>. QED
  BY <1>1, <1>2 DEF MCNext

(* The manager's sessions and the rows a client is shown of them keep their   *)
(* types in every behaviour that MCForwarding's run explores.                 *)
THEOREM ForwardingTypeCorrect == MCSpec => []ForwardingTypeOK
<1>1. MCInit => ForwardInit /\ FeedInit
  BY DEF MCInit
<1>2. MCSpec => ForwardSpec
  BY <1>1, ForwardingStep, PTL DEF MCSpec, ForwardSpec
<1>3. MCSpec => []FeedInv
  BY <1>1, ForwardingStep, FeedInitInv, FeedNextInv, PTL DEF MCSpec
<1>4. ForwardTypeOK /\ FeedTypeOK => ForwardingTypeOK
  BY DEF ForwardingTypeOK
<1>. QED
  BY <1>2, <1>3, <1>4, FeedInvTypes, ForwardTypeCorrect, PTL
=============================================================================
