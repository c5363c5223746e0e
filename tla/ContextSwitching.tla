--------------------------- MODULE ContextSwitching ---------------------------
(***************************************************************************)
(* Which cluster the program talks to: the registry of kubeconfig contexts *)
(* (runtime/context.rs), the adapter's shared clients, catalog discovery,  *)
(* switch and refresh transactions (kube/mod.rs) and the observer of       *)
(* credential failures (kube/auth_observer.rs).  Of the selections and     *)
(* collectors it keeps which contexts have some: ClusterRuntime is what    *)
(* they do in between.                                                     *)
(*                                                                         *)
(* The adapter runs on a current-thread runtime and its locks are never    *)
(* held across a suspension, so one action is one turn of a task.          *)
(* A captured generation is kept as a flag, whether it is still the        *)
(* registry's (or the active flight's): a bump clears every such flag.     *)
(***************************************************************************)
EXTENDS Naturals, FiniteSets, Sequences

CONSTANTS
  Contexts,   \* kubeconfig contexts
  Watchers,   \* the slots of resource_watch requests
  Queries,    \* the slots of resource_metrics requests
  Order,      \* the contexts in kubeconfig order
  Configured, \* the context the kubeconfig marks as current
  NoContext,
  Switcher    \* the caller that holds switch_lock

ASSUME SwitchingAssumption ==
  /\ Order \in Seq(Contexts)
  /\ \A c \in Contexts : \E i \in DOMAIN Order : Order[i] = c
  /\ IsFiniteSet(Watchers) /\ IsFiniteSet(Queries)
  /\ Configured \in Contexts
  /\ NoContext \notin Contexts
  /\ Switcher \notin Watchers \cup Queries
  /\ Watchers \cap Queries = {}

VARIABLES
  availability,  \* ContextInfo.availability
  current,       \* the context carrying is_current, NoContext for none
  shared,        \* contexts with a shared client
  catalogs,      \* contexts with a fresh cached catalog
  flights,       \* CatalogFlights.active: waiters 0 for none
  callers,       \* watch requests, metrics requests and the switch, between two turns
  refresh,       \* the Bootstrap query that holds refresh_lock
  watched,       \* contexts with a registered selection
  polled         \* contexts with a registered collector

registryVars == <<availability, current>>
adapterVars == <<shared, catalogs, flights>>
contextUse == <<watched, polled>>
switchingVars == <<registryVars, adapterVars, callers, refresh, contextUse>>

Callers == Watchers \cup Queries \cup {Switcher}

Flight == [waiters : Nat, outcome : {"none", "ok", "failed"}]
NoFlight == [waiters |-> 0, outcome |-> "none"]

(* `seen': the registry generation this task captured is still the registry's. *)
(* `mine': the flight it waits for is still the active one.                    *)
(* `probed': the generation captured before a client's build.                  *)
Caller ==
  [pc : {"idle", "queued", "connecting", "waiting", "listed", "verifying", "prepared"},
   context : Contexts \cup {NoContext}, next : {"none", "flight", "attach", "verify"},
   seen : BOOLEAN, probed : BOOLEAN, mine : BOOLEAN,
   outcome : {"none", "ok", "failed"}, previous : Contexts \cup {NoContext}]
Free == [pc |-> "idle", context |-> NoContext, next |-> "none", seen |-> FALSE,
         probed |-> FALSE, mine |-> FALSE, outcome |-> "none", previous |-> NoContext]

Refresh ==
  [pc : {"idle", "choosing", "queued", "building"},
   stage : {"none", "retry", "current", "others"}, todo : SUBSET Contexts,
   context : Contexts \cup {NoContext}, seen : BOOLEAN, probed : BOOLEAN]
NoRefresh == [pc |-> "idle", stage |-> "none", todo |-> {}, context |-> NoContext,
              seen |-> FALSE, probed |-> FALSE]

SwitchingInit ==
  /\ availability = [c \in Contexts |-> "Unknown"]
  /\ current = Configured
  /\ shared = {}
  /\ catalogs = {}
  /\ flights = [c \in Contexts |-> NoFlight]
  /\ callers = [w \in Callers |-> Free]
  /\ refresh = NoRefresh
  /\ watched = {} /\ polled = {}

Usable(c) == availability[c] # "Unavailable"

(* The context of a set that the kubeconfig lists first. *)
FirstOf(cs) ==
  Order[CHOOSE i \in DOMAIN Order :
          Order[i] \in cs /\ \A j \in DOMAIN Order : Order[j] \in cs => i <= j]

---------------------------------------------------------------------------
(* The registry *)

(* Mutant: the marker stays where it is. *)
FallbackKeeps(av, cur) == cur

(* choose_available_fallback: keep an available current context, else the *)
(* first available one in kubeconfig order, else none.                    *)
Fallback(av, cur) ==
  IF cur # NoContext /\ av[cur] = "Available" THEN cur
  ELSE LET usable == {c \in Contexts : av[c] = "Available"}
       IN IF usable = {} THEN NoContext ELSE FirstOf(usable)

(* Every bump of the generation outdates what tasks captured before it. *)
Outdate(ws) == [w \in Callers |-> [ws[w] EXCEPT !.seen = FALSE, !.probed = FALSE]]
OutdateRefresh(r) == [r EXCEPT !.seen = FALSE, !.probed = FALSE]

(* mark_available or mark_unavailable on a current generation, then the fallback. *)
Mark(c, verdict) ==
  LET av == [availability EXCEPT ![c] = verdict]
  IN /\ availability' = av
     /\ current' = Fallback(av, current)

---------------------------------------------------------------------------
(* The shared catalog discovery *)

WaitersOf(c) == {w \in Callers : callers[w].context = c /\ callers[w].mine}

WithoutFlight(c) ==
  [w \in Callers |-> IF w \in WaitersOf(c) THEN [callers[w] EXCEPT !.mine = FALSE]
                     ELSE callers[w]]

Waiting(w, c, outcome) ==
  [callers EXCEPT ![w] = [@ EXCEPT !.pc = "waiting", !.context = c, !.next = "none",
                                   !.probed = FALSE, !.mine = TRUE, !.outcome = outcome]]

JoinFlight(w, c) ==
  /\ flights[c].waiters > 0
  /\ flights' = [flights EXCEPT ![c].waiters = @ + 1]
  /\ callers' = Waiting(w, c, flights[c].outcome)

OpenFlight(w, c) ==
  /\ flights[c].waiters = 0
  /\ flights' = [flights EXCEPT ![c] = [waiters |-> 1, outcome |-> "none"]]
  /\ callers' = Waiting(w, c, "none")

(* The shared future resolves, for everyone who holds it. *)
FlightResolves(c, outcome) ==
  /\ flights[c].waiters > 0 /\ flights[c].outcome = "none"
  /\ flights' = [flights EXCEPT ![c].outcome = outcome]
  /\ callers' = [w \in Callers |->
       IF w \in WaitersOf(c) THEN [callers[w] EXCEPT !.outcome = outcome] ELSE callers[w]]
  /\ UNCHANGED <<contextUse, registryVars, shared, catalogs, refresh>>

(* Mutant: the guard leaves whatever discovery is active. *)
DropAnyWaiter(w) ==
  LET c == callers[w].context
  IN IF flights[c].waiters > 0 THEN [flights EXCEPT ![c].waiters = @ - 1] ELSE flights

(* Mutant: the guard does not look which discovery is active. *)
DropUnguarded(w) == [flights EXCEPT ![callers[w].context].waiters = @ - 1]

(* CatalogWaiter::drop: the last waiter of the generation takes the flight along. *)
DropWaiter(w) ==
  LET c == callers[w].context
  IN IF callers[w].mine THEN [flights EXCEPT ![c].waiters = @ - 1] ELSE flights

(* What an awoken waiter does under the flights lock, before going on with the *)
(* result: the generation's first one publishes the catalog and retires it.    *)
Publish(w) ==
  LET c == callers[w].context
  IN IF callers[w].mine
     THEN /\ flights' = [flights EXCEPT ![c] = NoFlight]
          /\ catalogs' = IF callers[w].outcome = "ok" THEN catalogs \cup {c} ELSE catalogs
     ELSE UNCHANGED <<flights, catalogs>>

(* The catalog's time to live passes. *)
CatalogExpires(c) ==
  /\ c \in catalogs
  /\ catalogs' = catalogs \ {c}
  /\ UNCHANGED <<contextUse, registryVars, shared, flights, callers, refresh>>

---------------------------------------------------------------------------
(* Requests that need a client *)

(* ClientBuildLocks: one build of a context at a time. *)
Building(c) ==
  \/ \E w \in Callers : callers[w].pc = "connecting" /\ callers[w].context = c
  \/ refresh.pc = "building" /\ refresh.context = c

(* cluster_client_for_probe without a cached client: its turn at the build lock, *)
(* then a second look at the clients and the generation before the build.        *)
Queue(w, c, next) ==
  callers' = [callers EXCEPT ![w] = [@ EXCEPT !.pc = "queued", !.context = c, !.next = next]]

BeginBuild(w) ==
  LET c == callers[w].context
  IN /\ callers[w].pc = "queued" /\ ~Building(c) /\ c \notin shared
     /\ callers' = [callers EXCEPT ![w] = [@ EXCEPT !.pc = "connecting", !.probed = TRUE]]
     /\ UNCHANGED <<contextUse, registryVars, adapterVars, refresh>>

(* With its client at hand a request goes on to a discovery (only a ForceLive *)
(* one overlooks a catalog cached meanwhile), to its subscription, or to the  *)
(* verification of its Pod.                                                   *)
GoOn(w, c, next) ==
  \/ /\ next = "flight"
     /\ \/ JoinFlight(w, c)
        \/ /\ flights[c].waiters = 0 /\ c \in catalogs /\ w # Switcher
           /\ callers' = [callers EXCEPT ![w] = [Free EXCEPT !.pc = "listed", !.context = c]]
           /\ UNCHANGED flights
        \/ /\ c \notin catalogs \/ w = Switcher
           /\ OpenFlight(w, c)
     /\ UNCHANGED contextUse
  \/ /\ next = "attach"
     /\ watched' = watched \cup {c}
     /\ callers' = [callers EXCEPT ![w] = Free]
     /\ UNCHANGED <<flights, polled>>
  \/ /\ next = "verify"
     /\ callers' = [callers EXCEPT ![w] = [Free EXCEPT !.pc = "verifying", !.context = c]]
     /\ UNCHANGED <<contextUse, flights>>

(* Either the client is there, or the request queues for its construction. *)
WithClient(w, c, next) ==
  \/ c \in shared /\ GoOn(w, c, next)
  \/ c \notin shared /\ Queue(w, c, next) /\ UNCHANGED <<contextUse, flights>>

(* The build succeeds, *)
Built(w) ==
  LET c == callers[w].context
  IN /\ \/ callers[w].pc = "connecting"
        \/ callers[w].pc = "queued" /\ ~Building(c) /\ c \in shared
     /\ shared' = shared \cup {c}
     /\ GoOn(w, c, callers[w].next)
     /\ UNCHANGED <<registryVars, catalogs, refresh>>

(* or fails in the credential plugin, which counts if the generation is still   *)
(* current (a build that fails otherwise ends the request: Dropped).            *)
PluginFails(w) ==
  /\ callers[w].pc = "connecting"
  /\ IF callers[w].probed
     THEN /\ Mark(callers[w].context, "Unavailable")
          /\ callers' = [Outdate(callers) EXCEPT ![w] = Free]
          /\ refresh' = OutdateRefresh(refresh)
     ELSE /\ callers' = [callers EXCEPT ![w] = Free]
          /\ UNCHANGED <<registryVars, refresh>>
  /\ UNCHANGED <<contextUse, adapterVars>>

(* resource_watch asks for the catalog (resolve_catalog, UseFreshCache). *)
AskWatch(s, c) ==
  /\ callers[s].pc = "idle" /\ Usable(c)
  /\ \/ /\ c \in catalogs
        /\ callers' = [callers EXCEPT ![s] = [Free EXCEPT !.pc = "listed", !.context = c]]
        /\ UNCHANGED <<contextUse, flights>>
     \/ c \notin catalogs /\ JoinFlight(s, c) /\ UNCHANGED contextUse
     \/ c \notin catalogs /\ flights[c].waiters = 0 /\ WithClient(s, c, "flight")
  /\ UNCHANGED <<registryVars, shared, catalogs, refresh>>

(* real_watch_source and ClusterWatches::subscribe, once the type is known. *)
Engage(s) ==
  LET c == callers[s].context
  IN /\ callers[s].pc = "listed"
     /\ Usable(c)
     /\ WithClient(s, c, "attach")
     /\ UNCHANGED <<registryVars, shared, catalogs, refresh>>

(* resource_metrics: a client, the Pod's identity, *)
AskMetrics(k, c) ==
  /\ callers[k].pc = "idle" /\ Usable(c)
  /\ WithClient(k, c, "verify")
  /\ UNCHANGED <<registryVars, shared, catalogs, refresh>>

(* and the collector. *)
Verified(k) ==
  /\ callers[k].pc = "verifying"
  /\ polled' = polled \cup {callers[k].context}
  /\ callers' = [callers EXCEPT ![k] = Free]
  /\ UNCHANGED <<registryVars, adapterVars, refresh, watched>>

(* A waiter of a resolved discovery takes its turn; a watch request goes on. *)
Awake(s) ==
  /\ callers[s].pc = "waiting" /\ callers[s].outcome # "none"
  /\ Publish(s)
  /\ LET rest == IF callers[s].mine THEN WithoutFlight(callers[s].context) ELSE callers
     IN callers' = [rest EXCEPT ![s] = IF callers[s].outcome = "ok"
                      THEN [Free EXCEPT !.pc = "listed", !.context = callers[s].context]
                      ELSE Free]
  /\ UNCHANGED <<contextUse, registryVars, shared, refresh>>

(* A request fails, or is dropped at a suspension point: its deadline passed or *)
(* CancelRequest.                                                               *)
Dropped(w) ==
  /\ callers[w].pc # "idle"
  /\ flights' = IF callers[w].pc = "waiting" THEN DropWaiter(w) ELSE flights
  /\ callers' = [callers EXCEPT ![w] = Free]
  /\ UNCHANGED <<contextUse, registryVars, shared, catalogs, refresh>>

(* The last user of a context's watches or metrics has been gone for a linger. *)
Lapse(c) ==
  /\ \/ c \in watched /\ watched' = watched \ {c} /\ UNCHANGED polled
     \/ c \in polled /\ polled' = polled \ {c} /\ UNCHANGED watched
  /\ UNCHANGED <<registryVars, adapterVars, callers, refresh>>

(* Both retirements, as context_switch and the auth observer call them. *)
RetireUse(c) ==
  /\ watched' = watched \ {c}
  /\ polled' = polled \ {c}

---------------------------------------------------------------------------
(* context_switch: prepare, validate the destination live, commit, retire *)

PrepareSwitch(to) ==
  /\ callers[Switcher].pc = "idle"
  /\ Usable(to)
  /\ callers' = [callers EXCEPT ![Switcher] =
       [Free EXCEPT !.pc = "prepared", !.context = to, !.previous = current, !.seen = TRUE]]
  /\ UNCHANGED <<contextUse, registryVars, adapterVars, refresh>>

(* resolve_catalog, ForceLive *)
Validate ==
  LET to == callers[Switcher].context
  IN /\ callers[Switcher].pc = "prepared" /\ Usable(to)
     /\ \/ JoinFlight(Switcher, to) /\ UNCHANGED contextUse
        \/ flights[to].waiters = 0 /\ WithClient(Switcher, to, "flight")
     /\ UNCHANGED <<registryVars, shared, catalogs, refresh>>

(* Mutant: commit_switch compares no generation. *)
CommitsUnchecked == Usable(callers[Switcher].context)

(* commit_switch: nothing moved in the registry since the switch was prepared. *)
Commits == callers[Switcher].seen /\ Usable(callers[Switcher].context)

(* The discovery succeeded: commit, then retire what is replaced. *)
SwitchEnds ==
  LET to == callers[Switcher].context
      old == callers[Switcher].previous
      rest == IF callers[Switcher].mine THEN WithoutFlight(to) ELSE callers
  IN /\ callers[Switcher].pc = "waiting" /\ callers[Switcher].outcome # "none"
     /\ flights' = IF callers[Switcher].mine THEN [flights EXCEPT ![to] = NoFlight] ELSE flights
     /\ LET published == IF callers[Switcher].mine /\ callers[Switcher].outcome = "ok"
                         THEN catalogs \cup {to} ELSE catalogs
        IN IF callers[Switcher].outcome = "ok" /\ Commits
           THEN /\ availability' = [availability EXCEPT ![to] = "Available"]
                /\ current' = to
                /\ callers' = [Outdate(rest) EXCEPT ![Switcher] = Free]
                /\ refresh' = OutdateRefresh(refresh)
                /\ IF old \notin {NoContext, to}
                   THEN RetireUse(old) /\ catalogs' = published \ {old}
                   ELSE UNCHANGED contextUse /\ catalogs' = published
           ELSE /\ catalogs' = published
                /\ callers' = [rest EXCEPT ![Switcher] = Free]
                /\ UNCHANGED <<contextUse, registryVars, refresh>>
     /\ UNCHANGED shared

---------------------------------------------------------------------------
(* refresh_context_availability: the Bootstrap query *)

Having(status) == {c \in Contexts : availability[c] = status}

StartRefresh ==
  /\ refresh.pc = "idle"
  /\ refresh' = [NoRefresh EXCEPT !.pc = "choosing", !.stage = "retry",
                                  !.todo = Having("Unavailable")]
  /\ UNCHANGED <<contextUse, registryVars, adapterVars, callers>>

(* A probe is over, with the generation it had captured. *)
ProbeOver(r) == [NoRefresh EXCEPT !.pc = "choosing", !.stage = r.stage, !.todo = r.todo]

(* A probe succeeds: the context is marked if the generation held, and a last *)
(* probe that is marked ends the refresh.                                     *)
ProbeSucceeds(c, r) ==
  IF r.seen
  THEN /\ Mark(c, "Available")
       /\ callers' = Outdate(callers)
       /\ refresh' = IF r.stage = "others" THEN NoRefresh
                     ELSE ProbeOver(r)
  ELSE /\ refresh' = ProbeOver(r)
       /\ UNCHANGED <<registryVars, callers>>

(* The stage's next context in kubeconfig order.  A disabled one loses its client first; the *)
(* others answer from a cached client at once.                                *)
ProbeNext ==
  LET c == FirstOf(refresh.todo)
      r == [refresh EXCEPT !.todo = @ \ {c}, !.context = c, !.seen = TRUE]
  IN /\ refresh.pc = "choosing" /\ refresh.todo # {}
     /\ shared' = IF refresh.stage = "retry" THEN shared \ {c} ELSE shared
     /\ IF refresh.stage # "retry" /\ ~Usable(c)
        THEN refresh' = ProbeOver(r) /\ UNCHANGED <<registryVars, callers>>
        ELSE IF c \in shared'
        THEN ProbeSucceeds(c, r)
        ELSE refresh' = [r EXCEPT !.pc = "queued"] /\ UNCHANGED <<registryVars, callers>>
     /\ UNCHANGED <<contextUse, catalogs, flights>>

ProbeBuilds ==
  /\ refresh.pc = "queued" /\ ~Building(refresh.context)
  /\ IF refresh.context \in shared
     THEN ProbeSucceeds(refresh.context, refresh)
     ELSE /\ refresh' = [refresh EXCEPT !.pc = "building", !.probed = TRUE]
          /\ UNCHANGED <<registryVars, callers>>
  /\ UNCHANGED <<contextUse, adapterVars>>

ProbeBuilt ==
  /\ refresh.pc = "building"
  /\ shared' = shared \cup {refresh.context}
  /\ ProbeSucceeds(refresh.context, refresh)
  /\ UNCHANGED <<contextUse, catalogs, flights>>

(* The plugin fails, or the client cannot be built for another reason. *)
ProbeFails ==
  /\ refresh.pc = "building"
  /\ \/ /\ refresh.probed
        /\ Mark(refresh.context, "Unavailable")
        /\ callers' = Outdate(callers)
        /\ refresh' = ProbeOver(refresh)
     \/ /\ refresh' = ProbeOver(refresh)
        /\ UNCHANGED <<registryVars, callers>>
  /\ UNCHANGED <<contextUse, adapterVars>>

(* The stages: disabled contexts, an unknown current one, and, while the current *)
(* one is not available, every unknown one.                                      *)
NextStage ==
  /\ refresh.pc = "choosing" /\ refresh.todo = {}
  /\ refresh' =
       IF refresh.stage = "retry"
       THEN [refresh EXCEPT !.stage = "current",
               !.todo = IF current # NoContext /\ availability[current] = "Unknown"
                        THEN {current} ELSE {}]
       ELSE IF refresh.stage = "current"
               /\ (current = NoContext \/ availability[current] # "Available")
       THEN [refresh EXCEPT !.stage = "others", !.todo = Having("Unknown")]
       ELSE NoRefresh
  /\ UNCHANGED <<contextUse, registryVars, adapterVars, callers>>

RefreshDropped ==
  /\ refresh.pc # "idle"
  /\ refresh' = NoRefresh
  /\ UNCHANGED <<contextUse, registryVars, adapterVars, callers>>

---------------------------------------------------------------------------
(* The auth observer *)

CredentialFails(c) ==
  /\ c \in shared /\ Usable(c)
  /\ Mark(c, "Unavailable")
  /\ callers' = Outdate(callers)
  /\ refresh' = OutdateRefresh(refresh)
  /\ RetireUse(c)
  /\ shared' = shared \ {c}
  /\ UNCHANGED <<catalogs, flights>>

---------------------------------------------------------------------------
CallerStep(w) == BeginBuild(w) \/ Built(w) \/ PluginFails(w) \/ Dropped(w)

SwitchStep == (\E c \in Contexts : PrepareSwitch(c)) \/ Validate \/ SwitchEnds

RefreshStep ==
  \/ StartRefresh \/ ProbeNext \/ ProbeBuilds \/ ProbeBuilt \/ ProbeFails \/ NextStage
  \/ RefreshDropped

SwitchingNext ==
  \/ \E s \in Watchers, c \in Contexts : AskWatch(s, c)
  \/ \E s \in Watchers : Engage(s) \/ Awake(s)
  \/ \E k \in Queries, c \in Contexts : AskMetrics(k, c)
  \/ \E k \in Queries : Verified(k)
  \/ \E w \in Callers : CallerStep(w)
  \/ \E c \in Contexts, outcome \in {"ok", "failed"} : FlightResolves(c, outcome)
  \/ \E c \in Contexts : CatalogExpires(c) \/ CredentialFails(c) \/ Lapse(c)
  \/ SwitchStep
  \/ RefreshStep

SwitchingSpec == SwitchingInit /\ [][SwitchingNext]_switchingVars

---------------------------------------------------------------------------
SwitchingTypeOK ==
  /\ availability \in [Contexts -> {"Unknown", "Available", "Unavailable"}]
  /\ current \in Contexts \cup {NoContext}
  /\ {shared, catalogs, watched, polled} \subseteq SUBSET Contexts
  /\ flights \in [Contexts -> Flight]
  /\ callers \in [Callers -> Caller]
  /\ refresh \in Refresh

(* The context every window defaults to is never one that cannot serve a     *)
(* request, however switches, refreshes and credential failures interleave.  *)
CurrentIsUsable == current # NoContext => Usable(current)

(* A catalog discovery is active exactly for those who still wait for it: a  *)
(* dropped request never takes a discovery of others along, nor leaves one   *)
(* that nobody awaits (CatalogWaiter).                                       *)
FlightsHaveWaiters ==
  \A c \in Contexts :
    flights[c].waiters = Cardinality(WaitersOf(c))

(* The registry's two promises to requests that come and go. *)
SwitchingConsistent == CurrentIsUsable /\ FlightsHaveWaiters

(* When a switch replaces the current context, nothing of the replaced one    *)
(* stays registered, although what it replaces was noted before the discovery *)
(* of the destination.                                                        *)
SwitchRetiresReplaced ==
  [][ callers[Switcher].pc = "waiting" /\ callers'[Switcher].pc = "idle"
        /\ current' \notin {current, NoContext}
        /\ current # NoContext
      => current \notin watched' \cup polled' \cup catalogs' ]_switchingVars
=============================================================================
