---------------------------- MODULE ClusterRuntime ----------------------------
(***************************************************************************)
(* What runs against one cluster on behalf of the sessions: the registry   *)
(* of supervised watch selections with their linger monitors, and the      *)
(* registry of metrics collectors (k10s-backend, runtime/cluster.rs).      *)
(*                                                                         *)
(* Every step is one critical section of a registry lock or one turn of a  *)
(* task between two of them, which is finer than the current-thread        *)
(* runtime interleaves: the module's claims rest on the locks alone.       *)
(* A time span (the linger window, the poll cadence) is a nondeterministic *)
(* step that may happen whenever the span could have passed.               *)
(***************************************************************************)
EXTENDS Naturals, FiniteSets

CONSTANTS
  Clusters,       \* kubeconfig contexts
  Selectors,      \* WatchSelector values
  ContextOf,      \* the context of a selector
  Subscribers,    \* holders of a selection's broadcast receiver
  Consumers,      \* metrics queries
  MaxSelections,  \* bound on the selections ever started
  MaxCollectors   \* bound on the collectors ever started

ASSUME ClusterAssumption ==
  /\ IsFiniteSet(Subscribers) /\ IsFiniteSet(Consumers)
  /\ Selectors # {} /\ ContextOf \in [Selectors -> Clusters]
  /\ MaxSelections \in Nat
  /\ MaxCollectors \in Nat

VARIABLES
  selections,  \* Shared.selections: the id registered for a selector, 0 for none
  runs,        \* every selection ever started, by id
  receivers,   \* the selection each subscriber listens to, 0 for none
  collectors,  \* MetricsShared.collectors: the id registered for a context, 0 for none
  polls,       \* every collector ever started, by id
  consumers,   \* the collector whose first cut each consumer awaits, 0 for none
  retired      \* history: the selections an explicit retirement removed

clusterVars == <<selections, runs, receivers, collectors, polls, consumers, retired>>
watchVars == <<selections, runs, receivers, retired>>
metricsVars == <<collectors, polls, consumers>>

RunIds == 1..MaxSelections
PollIds == 1..MaxCollectors

(* `doomed': removed by retire_context, whose token is cancelled after the    *)
(* lock is released.  `fresh': the last join is younger than the linger.      *)
(* `empty': the monitor's empty_since, "counting" until the linger has passed.*)
Run ==
  [selector : Selectors, task : {"none", "running", "done"},
   monitor : {"none", "watching", "removing", "cancelling", "done"},
   empty : {"unset", "counting", "lingered"},
   fresh : BOOLEAN, doomed : BOOLEAN, cancelled : BOOLEAN]
Unstarted ==
  [selector |-> CHOOSE s \in Selectors : TRUE, task |-> "none", monitor |-> "none",
   empty |-> "unset", fresh |-> FALSE, doomed |-> FALSE, cancelled |-> FALSE]
Started(sel) ==
  [selector |-> sel, task |-> "running", monitor |-> "watching",
   empty |-> "unset", fresh |-> TRUE, doomed |-> FALSE, cancelled |-> FALSE]

Poll ==
  [context : Clusters, pc : {"none", "starting", "polling", "holding", "leaving", "done"},
   cut : BOOLEAN, fresh : BOOLEAN, doomed : BOOLEAN, cancelled : BOOLEAN]
Idle == [context |-> CHOOSE c \in Clusters : TRUE, pc |-> "none", cut |-> FALSE,
         fresh |-> FALSE, doomed |-> FALSE, cancelled |-> FALSE]
Spawned(c) == [context |-> c, pc |-> "starting", cut |-> FALSE,
               fresh |-> TRUE, doomed |-> FALSE, cancelled |-> FALSE]

ClusterInit ==
  /\ selections = [sel \in Selectors |-> 0]
  /\ runs = [i \in RunIds |-> Unstarted]
  /\ receivers = [s \in Subscribers |-> 0]
  /\ collectors = [c \in Clusters |-> 0]
  /\ polls = [i \in PollIds |-> Idle]
  /\ consumers = [k \in Consumers |-> 0]
  /\ retired = {}

---------------------------------------------------------------------------
(* Selections *)

Listening(i) == {s \in Subscribers : receivers[s] = i}
Registered(i) == selections[runs[i].selector] = i

(* The next id of the process-wide counter. *)
NextRun(i) ==
  /\ runs[i].task = "none"
  /\ \A j \in RunIds : runs[j].task = "none" => i <= j

(* subscribe, on a registered selection: the join restarts the linger window. *)
JoinWarm(s, sel) ==
  /\ receivers[s] = 0
  /\ selections[sel] # 0
  /\ receivers' = [receivers EXCEPT ![s] = selections[sel]]
  /\ runs' = [runs EXCEPT ![selections[sel]].fresh = TRUE]
  /\ UNCHANGED <<selections, retired, metricsVars>>

(* subscribe, on a selector nobody serves: registration, task and monitor. *)
StartCold(s, sel) ==
  /\ receivers[s] = 0
  /\ selections[sel] = 0
  /\ \E i \in RunIds :
       /\ NextRun(i)
       /\ selections' = [selections EXCEPT ![sel] = i]
       /\ runs' = [runs EXCEPT ![i] = Started(sel)]
       /\ receivers' = [receivers EXCEPT ![s] = i]
  /\ UNCHANGED <<retired, metricsVars>>

Subscribe(s, sel) == JoinWarm(s, sel) \/ StartCold(s, sel)

(* The subscriber drops its receiver. *)
Depart(s) ==
  /\ receivers[s] # 0
  /\ receivers' = [receivers EXCEPT ![s] = 0]
  /\ UNCHANGED <<selections, runs, retired, metricsVars>>

(* The channel closes once the handle, the task and the monitor are gone, and *)
(* the subscriber's loop ends. *)
SeeClosed(s) ==
  LET i == receivers[s]
  IN /\ i # 0
     /\ ~Registered(i) /\ runs[i].task = "done" /\ runs[i].monitor = "done"
     /\ Depart(s)

(* retire_context under the lock: every selection of the context at once. *)
RetireSelections(c) ==
  LET victims == {selections[sel] : sel \in {t \in Selectors : ContextOf[t] = c}} \ {0}
  IN /\ selections' = [sel \in Selectors |-> IF ContextOf[sel] = c THEN 0 ELSE selections[sel]]
     /\ runs' = [i \in RunIds |-> IF i \in victims THEN [runs[i] EXCEPT !.doomed = TRUE]
                                                   ELSE runs[i]]
     /\ retired' = retired \cup victims

(* retire_context after the lock: the victims' tokens. *)
CancelDoomed(i) ==
  /\ runs[i].doomed
  /\ runs' = [runs EXCEPT ![i] = [@ EXCEPT !.doomed = FALSE, !.cancelled = TRUE]]
  /\ UNCHANGED <<selections, receivers, retired, metricsVars>>

(* run_selection returns only for its token. *)
TaskEnds(i) ==
  /\ runs[i].task = "running" /\ runs[i].cancelled
  /\ runs' = [runs EXCEPT ![i].task = "done"]
  /\ UNCHANGED <<selections, receivers, retired, metricsVars>>

(* spawn_linger_monitor: its select prefers the token over the timer. *)
MonitorEnds(i) ==
  /\ runs[i].monitor = "watching" /\ runs[i].cancelled
  /\ runs' = [runs EXCEPT ![i].monitor = "done"]
  /\ UNCHANGED <<selections, receivers, retired, metricsVars>>

(* One sample of the receiver count: any subscriber resets empty_since, the *)
(* first empty sample sets it, and a full linger later the removal is tried. *)
MonitorSamples(i) ==
  /\ runs[i].monitor = "watching" /\ ~runs[i].cancelled
  /\ \/ /\ Listening(i) # {}
        /\ runs' = [runs EXCEPT ![i].empty = "unset"]
     \/ /\ Listening(i) = {} /\ runs[i].empty = "unset"
        /\ runs' = [runs EXCEPT ![i].empty = "counting"]
     \/ /\ Listening(i) = {} /\ runs[i].empty = "lingered"
        /\ runs' = [runs EXCEPT ![i].monitor = "removing"]
  /\ UNCHANGED <<selections, receivers, retired, metricsVars>>

(* A linger passes since the first empty sample, *)
EmptyLasts(i) ==
  /\ runs[i].empty = "counting"
  /\ runs' = [runs EXCEPT ![i].empty = "lingered"]
  /\ UNCHANGED <<selections, receivers, retired, metricsVars>>

(* or since the last join. *)
JoinAges(i) ==
  /\ runs[i].fresh
  /\ runs' = [runs EXCEPT ![i].fresh = FALSE]
  /\ UNCHANGED <<selections, receivers, retired, metricsVars>>

(* Mutant: the removal trusts the monitor's own samples. *)
RemovableUnseen(i) == Registered(i)

(* Mutant: the entry found is taken to be this monitor's. *)
RemovableAnyId(i) ==
  /\ selections[runs[i].selector] # 0
  /\ Listening(selections[runs[i].selector]) = {}
  /\ ~runs[selections[runs[i].selector]].fresh

(* remove_if_current_and_empty: still this registration, no receiver, and no *)
(* join within the linger. *)
Removable(i) == Registered(i) /\ Listening(i) = {} /\ ~runs[i].fresh

(* Mutant: a refused removal ends the monitor. *)
MonitorGivesUp(i) ==
  /\ runs[i].monitor = "removing"
  /\ selections' = IF Removable(i) THEN [selections EXCEPT ![runs[i].selector] = 0] ELSE selections
  /\ runs' = [runs EXCEPT ![i].monitor = IF Removable(i) THEN "cancelling" ELSE "done"]
  /\ UNCHANGED <<receivers, retired, metricsVars>>

MonitorRemoves(i) ==
  /\ runs[i].monitor = "removing"
  /\ IF Removable(i)
     THEN /\ selections' = [selections EXCEPT ![runs[i].selector] = 0]
          /\ runs' = [runs EXCEPT ![i].monitor = "cancelling"]
     ELSE /\ runs' = [runs EXCEPT ![i] = [@ EXCEPT !.monitor = "watching", !.empty = "unset"]]
          /\ UNCHANGED selections
  /\ UNCHANGED <<receivers, retired, metricsVars>>

(* After the removal, outside the lock. *)
MonitorCancels(i) ==
  /\ runs[i].monitor = "cancelling"
  /\ runs' = [runs EXCEPT ![i] = [@ EXCEPT !.monitor = "done", !.cancelled = TRUE]]
  /\ UNCHANGED <<selections, receivers, retired, metricsVars>>

---------------------------------------------------------------------------
(* Metrics collectors *)

NextPoll(i) ==
  /\ polls[i].pc = "none"
  /\ \A j \in PollIds : polls[j].pc = "none" => i <= j

(* collect_for_consumer, warm: touch, and await the first cut if there is none. *)
TouchCollector(k, c) ==
  /\ consumers[k] = 0
  /\ collectors[c] # 0
  /\ polls' = [polls EXCEPT ![collectors[c]].fresh = TRUE]
  /\ consumers' = [consumers EXCEPT ![k] = IF polls[collectors[c]].cut THEN 0 ELSE collectors[c]]
  /\ UNCHANGED <<collectors, watchVars>>

(* collect_for_consumer, cold: registration, then the poll task. *)
StartCollector(k, c) ==
  /\ consumers[k] = 0
  /\ collectors[c] = 0
  /\ \E i \in PollIds :
       /\ NextPoll(i)
       /\ collectors' = [collectors EXCEPT ![c] = i]
       /\ polls' = [polls EXCEPT ![i] = Spawned(c)]
       /\ consumers' = [consumers EXCEPT ![k] = i]
  /\ UNCHANGED watchVars

Collect(k, c) == TouchCollector(k, c) \/ StartCollector(k, c)

(* wait_for_first_cut: a cut, or None when the poll task is gone without one. *)
Answered(k) ==
  LET i == consumers[k]
  IN /\ i # 0
     /\ polls[i].cut \/ polls[i].pc = "done"
     /\ consumers' = [consumers EXCEPT ![k] = 0]
     /\ UNCHANGED <<collectors, polls, watchVars>>

(* A consumer's request is cancelled: it drops its receiver. *)
Abandon(k) ==
  /\ consumers[k] # 0
  /\ consumers' = [consumers EXCEPT ![k] = 0]
  /\ UNCHANGED <<collectors, polls, watchVars>>

(* The poll task's first turn. *)
PollBegins(i) ==
  /\ polls[i].pc = "starting"
  /\ polls' = [polls EXCEPT ![i].pc = IF polls[i].cancelled THEN "leaving" ELSE "polling"]
  /\ UNCHANGED <<collectors, consumers, watchVars>>

Reached(i) == collectors[polls[i].context] = i \/ \E k \in Consumers : consumers[k] = i

(* One cycle: the cut is sent unless no receiver is left. *)
PollEnds(i) ==
  /\ polls[i].pc = "polling"
  /\ polls' = [polls EXCEPT ![i] = IF Reached(i) THEN [@ EXCEPT !.pc = "holding", !.cut = TRUE]
                                  ELSE [@ EXCEPT !.pc = "leaving"]]
  /\ UNCHANGED <<collectors, consumers, watchVars>>

(* The cadence ends with another cycle, or the collector was idle for a linger *)
(* or retired. *)
HoldEnds(i) ==
  /\ polls[i].pc = "holding"
  /\ polls' = [polls EXCEPT ![i].pc = IF polls[i].fresh /\ ~polls[i].cancelled
                                      THEN "polling" ELSE "leaving"]
  /\ UNCHANGED <<collectors, consumers, watchVars>>

TouchAges(i) ==
  /\ polls[i].fresh
  /\ polls[i].pc # "none"
  /\ polls' = [polls EXCEPT ![i].fresh = FALSE]
  /\ UNCHANGED <<collectors, consumers, watchVars>>

(* Mutant: a dying poll task removes whatever is registered for its context. *)
ForgetAny(i) == [collectors EXCEPT ![polls[i].context] = 0]

(* Mutant: the entry is released as if it were counted. *)
ForgetCounts(i) == [collectors EXCEPT ![polls[i].context] = @ - 1]

(* remove_if_current *)
Forget(i) ==
  IF collectors[polls[i].context] = i
  THEN [collectors EXCEPT ![polls[i].context] = 0]
  ELSE collectors

PollLeaves(i) ==
  /\ polls[i].pc = "leaving"
  /\ collectors' = Forget(i)
  /\ polls' = [polls EXCEPT ![i].pc = "done"]
  /\ UNCHANGED <<consumers, watchVars>>

(* retire_context under the lock, *)
RetireCollector(c) ==
  /\ collectors' = [collectors EXCEPT ![c] = 0]
  /\ polls' = IF collectors[c] = 0 THEN polls
              ELSE [polls EXCEPT ![collectors[c]].doomed = TRUE]

(* and after it. *)
CancelCollector(i) ==
  /\ polls[i].doomed
  /\ polls' = [polls EXCEPT ![i] = [@ EXCEPT !.doomed = FALSE, !.cancelled = TRUE]]
  /\ UNCHANGED <<collectors, consumers, watchVars>>

(* Both retirements, as context_switch and the auth observer call them. *)
RetireContext(c) ==
  /\ RetireSelections(c)
  /\ RetireCollector(c)
  /\ UNCHANGED <<receivers, consumers>>

---------------------------------------------------------------------------
MonitorStep(i) ==
  \/ MonitorEnds(i) \/ MonitorSamples(i) \/ EmptyLasts(i)
  \/ MonitorRemoves(i) \/ MonitorCancels(i)

PollStep(i) == PollBegins(i) \/ PollEnds(i) \/ HoldEnds(i) \/ PollLeaves(i)

(* What the registries and their tasks do by themselves. *)
ClusterStep ==
  \/ \E i \in RunIds : MonitorStep(i) \/ JoinAges(i) \/ TaskEnds(i) \/ CancelDoomed(i)
  \/ \E i \in PollIds : PollStep(i) \/ TouchAges(i) \/ CancelCollector(i)
  \/ \E s \in Subscribers : SeeClosed(s)
  \/ \E k \in Consumers : Answered(k)

(* With any caller. *)
ClusterNext ==
  \/ ClusterStep
  \/ \E s \in Subscribers, sel \in Selectors : Subscribe(s, sel)
  \/ \E s \in Subscribers : Depart(s)
  \/ \E k \in Consumers, c \in Clusters : Collect(k, c)
  \/ \E k \in Consumers : Abandon(k)
  \/ \E c \in Clusters : RetireContext(c)

(* Tasks that are ready get their turn and timers fire; callers may stop. *)
ClusterFairness ==
  /\ \A i \in RunIds :
       /\ WF_clusterVars(MonitorStep(i)) /\ WF_clusterVars(JoinAges(i))
       /\ WF_clusterVars(TaskEnds(i)) /\ WF_clusterVars(CancelDoomed(i))
  /\ \A i \in PollIds :
       /\ WF_clusterVars(PollStep(i)) /\ WF_clusterVars(TouchAges(i))
       /\ WF_clusterVars(CancelCollector(i))

ClusterSpec == ClusterInit /\ [][ClusterNext]_clusterVars /\ ClusterFairness

---------------------------------------------------------------------------
ClusterTypeOK ==
  /\ selections \in [Selectors -> RunIds \cup {0}]
  /\ runs \in [RunIds -> Run]
  /\ receivers \in [Subscribers -> RunIds \cup {0}]
  /\ collectors \in [Clusters -> PollIds \cup {0}]
  /\ polls \in [PollIds -> Poll]
  /\ consumers \in [Consumers -> PollIds \cup {0}]
  /\ retired \subseteq RunIds

(* A selection whose task will go on is the one registered for its selector: *)
(* whatever the monitors, retirements and late joins do, no watch runs that  *)
(* nothing can find and end, and no selector is watched twice.               *)
NoLostSelection ==
  \A i \in RunIds :
    runs[i].task = "running" /\ ~runs[i].cancelled /\ ~runs[i].doomed
      /\ runs[i].monitor # "cancelling"
      => Registered(i)

(* A subscriber is never left on a dying selection: unless its context was    *)
(* retired under it, the selection it listens to is registered and running    *)
(* (the claim of remove_if_current_and_empty's comment).                      *)
SubscribersServed ==
  \A s \in Subscribers :
    receivers[s] # 0 /\ receivers[s] \notin retired
      => /\ Registered(receivers[s])
         /\ runs[receivers[s]].task = "running"
         /\ ~runs[receivers[s]].cancelled

(* The same for collectors: one that will poll again is the registered one,   *)
(* and a consumer waits for nothing only if its collector was retired.        *)
NoLostCollector ==
  /\ \A i \in PollIds :
       polls[i].pc \in {"starting", "polling", "holding"}
         /\ ~polls[i].cancelled /\ ~polls[i].doomed
         => collectors[polls[i].context] = i
  /\ \A k \in Consumers :
       consumers[k] # 0 /\ polls[consumers[k]].pc \in {"leaving", "done"}
         => polls[consumers[k]].cut \/ polls[consumers[k]].cancelled

(* What is registered and what runs agree, for watches and for collectors. *)
ClusterServes == NoLostSelection /\ SubscribersServed /\ NoLostCollector

(* A watch that nobody wants ends, and so does a collector nobody asked for   *)
(* within a linger: as long as it runs, somebody keeps coming back to it.     *)
WindsDown ==
  /\ \A i \in RunIds : []<>(runs[i].task # "running" \/ Listening(i) # {})
  /\ \A i \in PollIds : []<>(polls[i].pc \in {"none", "done"} \/ polls[i].fresh)
=============================================================================
