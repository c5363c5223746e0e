----------------------------- MODULE ClusterProofs -----------------------------
(* Proofs about ContextSwitching - the marker of the current context, the     *)
(* waiters of catalog discoveries and what a switch retires, for every number *)
(* of contexts and requests - and about ClusterRuntime: what the registries   *)
(* of watches and metrics collectors say and what runs agree, for every       *)
(* number of selectors, subscribers and consumers.                            *)
EXTENDS ContextSwitching, ClusterRuntime, FiniteSetTheorems, WellFoundedInduction, TLAPS

---------------------------------------------------------------------------
(* The inductive invariant *)

(* A request that is under way names its context, and only one that waits for *)
(* a discovery counts among its waiters.                                      *)
CallersOK ==
  /\ callers \in [Callers -> Caller]
  /\ \A w \in Callers : callers[w].pc # "idle" => callers[w].context \in Contexts
  /\ \A w \in Callers : callers[w].mine => callers[w].pc = "waiting"

FlightsOK == flights \in [Contexts -> Flight] /\ FlightsHaveWaiters

RegistryOK ==
  /\ availability \in [Contexts -> {"Unknown", "Available", "Unavailable"}]
  /\ current \in Contexts \cup {NoContext}
  /\ CurrentIsUsable

UseOK ==
  shared \subseteq Contexts /\ catalogs \subseteq Contexts /\ watched \subseteq Contexts
  /\ polled \subseteq Contexts

RefreshOK ==
  /\ refresh \in Refresh
  /\ refresh.pc \in {"queued", "building"} => refresh.context \in Contexts

(* What a switch noted as current still is, as long as its generation holds. *)
SwitchNoted == callers[Switcher].seen => callers[Switcher].previous = current

SwitchingInv ==
  CallersOK /\ FlightsOK /\ RegistryOK /\ UseOK /\ RefreshOK /\ SwitchNoted

---------------------------------------------------------------------------
(* The kubeconfig order *)

LEMMA LeastNumber ==
  ASSUME NEW S \in SUBSET Nat, S # {}
  PROVE  \E n \in S : \A m \in S : n <= m
<1>1. PICK n \in S : \A m \in S : ~ (<<m, n>> \in OpToRel(<, Nat))
  BY NatLessThanWellFounded, WFMin, Zenon
<1>2. \A m \in S : ~ (m < n)
  BY <1>1, Zenon DEF OpToRel
<1> QED
  BY <1>2

(* Some context of a set comes first. *)
LEMMA FirstOfIn ==
  ASSUME NEW cs \in SUBSET Contexts, cs # {}
  PROVE  FirstOf(cs) \in cs
<1> DEFINE S == {i \in DOMAIN Order : Order[i] \in cs}
<1>1. S \in SUBSET Nat /\ S # {}
  BY SwitchingAssumption
<1>2. \E i \in S : \A j \in S : i <= j
  BY <1>1, LeastNumber
<1>3. \E i \in DOMAIN Order :
        Order[i] \in cs /\ \A j \in DOMAIN Order : Order[j] \in cs => i <= j
  BY <1>2
<1> QED
  BY <1>3 DEF FirstOf

---------------------------------------------------------------------------
(* The registry *)

(* A mark keeps the current context usable. *)
LEMMA MarkKeeps ==
  ASSUME RegistryOK, NEW c \in Contexts, NEW verdict \in {"Available", "Unavailable"},
         Mark(c, verdict)
  PROVE  RegistryOK'
<1> DEFINE av == [availability EXCEPT ![c] = verdict]
           usable == {d \in Contexts : av[d] = "Available"}
<1>1. availability' = av /\ av \in [Contexts -> {"Unknown", "Available", "Unavailable"}]
  BY DEF Mark, RegistryOK
<1>2. current' = IF current # NoContext /\ av[current] = "Available" THEN current
                 ELSE IF usable = {} THEN NoContext ELSE FirstOf(usable)
  BY DEF Mark, Fallback
<1>3. usable # {} => FirstOf(usable) \in usable
  BY FirstOfIn
<1> HIDE DEF av
<1>4. current' = NoContext \/ (current' \in Contexts /\ av[current'] = "Available")
  BY <1>2, <1>3 DEF RegistryOK
<1> QED
  BY <1>1, <1>4 DEF RegistryOK, CurrentIsUsable, Usable

---------------------------------------------------------------------------
(* Callers and flights *)

LEMMA CallersFinite == IsFiniteSet(Callers)
  BY SwitchingAssumption, FS_Union, FS_Singleton DEF Callers

LEMMA WaitersFinite ==
  ASSUME NEW c
  PROVE  IsFiniteSet(WaitersOf(c)) /\ Cardinality(WaitersOf(c)) \in Nat
<1>1. WaitersOf(c) \subseteq Callers
  BY DEF WaitersOf
<1> QED
  BY <1>1, CallersFinite, FS_Subset, FS_CardinalityType

(* Free is a caller with nothing under way. *)
LEMMA FreeCaller == Free \in Caller /\ Free.pc = "idle" /\ ~Free.mine /\ ~Free.seen
  BY DEF Free, Caller

LEMMA SwitcherCalls == Switcher \in Callers
  BY DEF Callers

(* One caller moves to a state that is in order. *)
LEMMA OneCaller ==
  ASSUME CallersOK, NEW w \in Callers, NEW r \in Caller,
         callers' = [callers EXCEPT ![w] = r],
         r.pc # "idle" => r.context \in Contexts,
         r.mine => r.pc = "waiting"
  PROVE  CallersOK'
  BY DEF CallersOK

(* Nobody joins or leaves a discovery. *)
LEMMA SameWaiters ==
  ASSUME FlightsOK, flights' = flights,
         \A w \in Callers : callers'[w].mine = callers[w].mine,
         \A w \in Callers : callers[w].mine => callers'[w].context = callers[w].context
  PROVE  FlightsOK'
<1>1. \A c : WaitersOf(c)' = WaitersOf(c)
  BY DEF WaitersOf
<1> QED
  BY <1>1 DEF FlightsOK, FlightsHaveWaiters

(* One caller joins the discovery of a context, or opens it. *)
LEMMA OneJoins ==
  ASSUME CallersOK, FlightsOK, NEW w \in Callers, NEW c \in Contexts, NEW r \in Caller,
         callers' = [callers EXCEPT ![w] = r],
         ~callers[w].mine, r.mine, r.context = c,
         flights' \in [Contexts -> Flight],
         \A d \in Contexts \ {c} : flights'[d] = flights[d],
         flights'[c].waiters = flights[c].waiters + 1
  PROVE  FlightsOK'
<1>1. WaitersOf(c)' = WaitersOf(c) \cup {w} /\ w \notin WaitersOf(c)
  BY DEF WaitersOf, CallersOK
<1>2. \A d \in Contexts \ {c} : WaitersOf(d)' = WaitersOf(d)
  BY DEF WaitersOf, CallersOK
<1>3. Cardinality(WaitersOf(c) \cup {w}) = Cardinality(WaitersOf(c)) + 1
  BY <1>1, WaitersFinite, FS_AddElement
<1> QED
  BY <1>1, <1>2, <1>3 DEF FlightsOK, FlightsHaveWaiters

(* One caller leaves the discovery it waits for. *)
LEMMA OneLeaves ==
  ASSUME CallersOK, FlightsOK, NEW w \in Callers, callers[w].mine,
         NEW c \in Contexts, callers[w].context = c,
         callers' = [callers EXCEPT ![w] = Free],
         flights' = [flights EXCEPT ![c].waiters = @ - 1]
  PROVE  FlightsOK'
<1>2. WaitersOf(c)' = WaitersOf(c) \ {w} /\ w \in WaitersOf(c)
  <2>1. w \in WaitersOf(c)
    BY DEF WaitersOf
  <2>2. callers'[w] = Free /\ \A v \in Callers \ {w} : callers'[v] = callers[v]
    BY DEF CallersOK
  <2> QED
    BY <2>1, <2>2, FreeCaller DEF WaitersOf
<1>3. \A d \in Contexts \ {c} : WaitersOf(d)' = WaitersOf(d)
  BY FreeCaller DEF WaitersOf, CallersOK
<1>4. /\ Cardinality(WaitersOf(c) \ {w}) = Cardinality(WaitersOf(c)) - 1
      /\ Cardinality(WaitersOf(c) \ {w}) \in Nat
  BY <1>2, WaitersFinite, FS_RemoveElement, FS_CardinalityType
<1>5. flights' = [flights EXCEPT ![c] = [flights[c] EXCEPT !.waiters = flights[c].waiters - 1]]
  OBVIOUS
<1>6. /\ flights[c].waiters = Cardinality(WaitersOf(c))
      /\ flights[c].waiters - 1 \in Nat
  BY <1>4 DEF FlightsOK, FlightsHaveWaiters
<1>7. [flights[c] EXCEPT !.waiters = flights[c].waiters - 1] \in Flight
  BY <1>6 DEF Flight, FlightsOK
<1>8. flights' \in [Contexts -> Flight]
  BY <1>5, <1>7 DEF FlightsOK
<1>9. flights'[c].waiters = flights[c].waiters - 1
  BY <1>5 DEF FlightsOK, Flight
<1>10. \A d \in Contexts \ {c} : flights'[d] = flights[d]
  BY <1>5 DEF FlightsOK
<1>11. flights'[c].waiters = Cardinality(WaitersOf(c)')
  BY <1>2, <1>4, <1>6, <1>9
<1> QED
  BY <1>3, <1>8, <1>10, <1>11 DEF FlightsOK, FlightsHaveWaiters

(* The first waiter that takes its turn retires the discovery for everyone. *)
LEMMA AllLeave ==
  ASSUME CallersOK, FlightsOK, NEW c \in Contexts,
         flights' = [flights EXCEPT ![c] = NoFlight],
         \A w \in Callers : callers'[w].mine => callers[w].mine /\ w \notin WaitersOf(c),
         \A w \in Callers : callers[w].mine /\ w \notin WaitersOf(c) =>
           callers'[w].mine /\ callers'[w].context = callers[w].context
  PROVE  FlightsOK'
<1>1. WaitersOf(c)' = {}
  BY DEF WaitersOf
<1>2. \A d \in Contexts \ {c} : WaitersOf(d)' = WaitersOf(d)
  BY DEF WaitersOf
<1>3. NoFlight \in Flight /\ NoFlight.waiters = 0
  BY DEF NoFlight, Flight
<1>4. Cardinality(WaitersOf(c)') = 0
  BY <1>1, FS_EmptySet
<1>5. /\ flights' \in [Contexts -> Flight] /\ flights'[c] = NoFlight
      /\ \A d \in Contexts \ {c} : flights'[d] = flights[d]
  BY <1>3 DEF FlightsOK
<1>6. flights'[c].waiters = Cardinality(WaitersOf(c))'
  BY <1>3, <1>4, <1>5
<1>7. \A d \in Contexts \ {c} : flights'[d].waiters = Cardinality(WaitersOf(d))'
  BY <1>2, <1>5 DEF FlightsOK, FlightsHaveWaiters
<1> QED
  BY <1>5, <1>6, <1>7 DEF FlightsOK, FlightsHaveWaiters

---------------------------------------------------------------------------
(* What a request's turn does *)

(* A step does not let the switch forget that its generation is outdated. *)
SwitcherKept ==
  callers'[Switcher].seen =>
    callers[Switcher].seen /\ callers'[Switcher].previous = callers[Switcher].previous

RequestsOK == CallersOK /\ FlightsOK /\ UseOK

LEMMA ListedCaller ==
  ASSUME NEW c \in Contexts, NEW pc \in {"listed", "verifying"}, NEW s,
         s = [Free EXCEPT !.pc = pc, !.context = c]
  PROVE  s \in Caller /\ s.context = c /\ ~s.mine /\ ~s.seen
  BY DEF Caller, Free

(* A caller that waits for no discovery moves to a state in which it does not. *)
LEMMA OneMoves ==
  ASSUME CallersOK, FlightsOK, NEW w \in Callers, NEW r \in Caller,
         callers' = [callers EXCEPT ![w] = r], flights' = flights,
         r.pc # "idle" => r.context \in Contexts,
         ~r.mine, ~callers[w].mine,
         r.seen => r.seen = callers[w].seen /\ r.previous = callers[w].previous
  PROVE  CallersOK' /\ FlightsOK' /\ SwitcherKept
<1>1. CallersOK'
  BY OneCaller
<1>2. FlightsOK'
  <2>1. callers[w].mine = FALSE /\ r.mine = FALSE
    BY DEF CallersOK, Caller
  <2>2. \A v \in Callers : callers'[v].mine = callers[v].mine
    BY <2>1 DEF CallersOK
  <2>3. \A v \in Callers : callers[v].mine => callers'[v].context = callers[v].context
    BY DEF CallersOK
  <2> QED
    BY <2>2, <2>3, SameWaiters
<1>3. SwitcherKept
  BY SwitcherCalls DEF SwitcherKept, CallersOK
<1> QED
  BY <1>1, <1>2, <1>3

LEMMA JoinKeeps ==
  ASSUME CallersOK, FlightsOK, NEW w \in Callers, NEW c \in Contexts, ~callers[w].mine,
         JoinFlight(w, c) \/ OpenFlight(w, c)
  PROVE  CallersOK' /\ FlightsOK' /\ SwitcherKept
<1>1. flights[c] \in Flight /\ callers[w] \in Caller
  BY DEF FlightsOK, CallersOK
<1>2. PICK outcome \in {"none", "ok", "failed"} : callers' = Waiting(w, c, outcome)
  BY <1>1 DEF JoinFlight, OpenFlight, Flight
<1> DEFINE r == [callers[w] EXCEPT !.pc = "waiting", !.context = c, !.next = "none",
                              !.probed = FALSE, !.mine = TRUE, !.outcome = outcome]
<1>3. PICK s : s = r
  OBVIOUS
<1>4. /\ s \in Caller /\ s.pc = "waiting" /\ s.context = c /\ s.mine
      /\ s.seen = callers[w].seen /\ s.previous = callers[w].previous
  BY <1>1, <1>3 DEF Caller
<1>5. callers' = [callers EXCEPT ![w] = s]
  BY <1>2, <1>3 DEF Waiting
<1> HIDE DEF r
<1>6. /\ flights' \in [Contexts -> Flight]
      /\ \A d \in Contexts \ {c} : flights'[d] = flights[d]
      /\ flights'[c].waiters = flights[c].waiters + 1
  <2>1. CASE JoinFlight(w, c)
    <3>1. flights' = [flights EXCEPT ![c] = [flights[c] EXCEPT !.waiters = flights[c].waiters + 1]]
      BY <2>1 DEF JoinFlight
    <3>2. /\ [flights[c] EXCEPT !.waiters = flights[c].waiters + 1] \in Flight
          /\ [flights[c] EXCEPT !.waiters = flights[c].waiters + 1].waiters = flights[c].waiters + 1
      BY <1>1 DEF Flight
    <3> QED
      BY <3>1, <3>2 DEF FlightsOK
  <2>2. CASE OpenFlight(w, c)
    BY <2>2 DEF OpenFlight, FlightsOK, Flight
  <2> QED
    BY <2>1, <2>2
<1>7. CallersOK'
  BY <1>4, <1>5, OneCaller
<1>8. FlightsOK'
  BY <1>4, <1>5, <1>6, OneJoins
<1>9. SwitcherKept
  BY <1>4, <1>5, SwitcherCalls DEF SwitcherKept, CallersOK
<1> QED
  BY <1>7, <1>8, <1>9

(* Going on with a client. *)
LEMMA GoOnKeeps ==
  ASSUME RequestsOK, NEW w \in Callers, NEW c \in Contexts, NEW next,
         ~callers[w].mine, GoOn(w, c, next)
  PROVE  /\ CallersOK' /\ FlightsOK' /\ SwitcherKept
         /\ watched' \subseteq Contexts /\ polled' = polled
<1> USE DEF RequestsOK
<1>1. CASE JoinFlight(w, c) /\ UNCHANGED contextUse
  BY <1>1, JoinKeeps DEF UseOK, contextUse
<1>2. CASE OpenFlight(w, c) /\ UNCHANGED contextUse
  BY <1>2, JoinKeeps DEF UseOK, contextUse
<1>3. ASSUME NEW pc \in {"listed", "verifying"},
             callers' = [callers EXCEPT ![w] = [Free EXCEPT !.pc = pc, !.context = c]],
             UNCHANGED <<flights, contextUse>>
      PROVE  /\ CallersOK' /\ FlightsOK' /\ SwitcherKept
             /\ watched' \subseteq Contexts /\ polled' = polled
  <2>1. PICK s : s = [Free EXCEPT !.pc = pc, !.context = c]
    OBVIOUS
  <2>2. s \in Caller /\ s.context = c /\ ~s.mine /\ ~s.seen
    BY <2>1, ListedCaller
  <2>3. callers' = [callers EXCEPT ![w] = s] /\ flights' = flights
    BY <1>3, <2>1
  <2>4. CallersOK' /\ FlightsOK' /\ SwitcherKept
    BY <2>2, <2>3, OneMoves
  <2> QED
    BY <1>3, <2>4 DEF UseOK, contextUse
<1>4. CASE /\ watched' = watched \cup {c} /\ callers' = [callers EXCEPT ![w] = Free]
           /\ UNCHANGED <<flights, polled>>
  <2>1. CallersOK' /\ FlightsOK' /\ SwitcherKept
    BY <1>4, FreeCaller, OneMoves
  <2> QED
    BY <1>4, <2>1 DEF UseOK
<1>5. \/ JoinFlight(w, c) /\ UNCHANGED contextUse
      \/ OpenFlight(w, c) /\ UNCHANGED contextUse
      \/ \E pc \in {"listed", "verifying"} :
           /\ callers' = [callers EXCEPT ![w] = [Free EXCEPT !.pc = pc, !.context = c]]
           /\ UNCHANGED <<flights, contextUse>>
      \/ /\ watched' = watched \cup {c} /\ callers' = [callers EXCEPT ![w] = Free]
         /\ UNCHANGED <<flights, polled>>
  BY DEF GoOn
<1> QED
  BY <1>1, <1>2, <1>3, <1>4, <1>5

(* Asking for a client. *)
LEMMA WithClientKeeps ==
  ASSUME RequestsOK, NEW w \in Callers, NEW c \in Contexts,
         NEW next \in {"flight", "attach", "verify"},
         ~callers[w].mine, WithClient(w, c, next)
  PROVE  /\ CallersOK' /\ FlightsOK' /\ SwitcherKept
         /\ watched' \subseteq Contexts /\ polled' = polled
<1>1. CASE c \in shared /\ GoOn(w, c, next)
  BY <1>1, GoOnKeeps
<1>2. CASE Queue(w, c, next) /\ UNCHANGED <<contextUse, flights>>
  <2>1. PICK s : s = [callers[w] EXCEPT !.pc = "queued", !.context = c, !.next = next]
    OBVIOUS
  <2>2. /\ s \in Caller /\ s.context = c /\ ~s.mine
        /\ s.seen = callers[w].seen /\ s.previous = callers[w].previous
    <3>1. callers[w] \in Caller
      BY DEF RequestsOK, CallersOK
    <3> QED
      BY <2>1, <3>1 DEF Caller
  <2>3. callers' = [callers EXCEPT ![w] = s] /\ flights' = flights
    BY <1>2, <2>1 DEF Queue
  <2>4. CallersOK' /\ FlightsOK' /\ SwitcherKept
    BY <2>2, <2>3, OneMoves DEF RequestsOK
  <2> QED
    BY <1>2, <2>4 DEF RequestsOK, UseOK, contextUse
<1> QED
  BY <1>1, <1>2 DEF WithClient

(* A waiter w takes its turn: it goes on without its discovery, and the first *)
(* one of a discovery retires it for the others.                              *)
LEMMA OneSettles ==
  ASSUME CallersOK, FlightsOK, NEW w \in Callers, NEW c \in Contexts, callers[w].context = c,
         callers' \in [Callers -> Caller],
         flights' = IF callers[w].mine THEN [flights EXCEPT ![c] = NoFlight] ELSE flights,
         ~callers'[w].mine,
         callers'[w].pc # "idle" => callers'[w].context \in Contexts,
         \A v \in Callers \ {w} :
           /\ callers'[v].pc = callers[v].pc /\ callers'[v].context = callers[v].context
           /\ callers'[v].mine <=>
                callers[v].mine /\ ~(callers[w].mine /\ v \in WaitersOf(c))
  PROVE  CallersOK' /\ FlightsOK'
<1>1. CallersOK'
  BY DEF CallersOK
<1>2. CASE callers[w].mine
  <2>1. w \in WaitersOf(c)
    BY <1>2 DEF WaitersOf
  <2>2. \A v \in Callers : callers'[v].mine => callers[v].mine /\ v \notin WaitersOf(c)
    BY <1>2
  <2>3. \A v \in Callers : callers[v].mine /\ v \notin WaitersOf(c) =>
          callers'[v].mine /\ callers'[v].context = callers[v].context
    BY <2>1
  <2>4. flights' = [flights EXCEPT ![c] = NoFlight]
    BY <1>2
  <2> QED
    BY <1>1, <2>2, <2>3, <2>4, AllLeave
<1>3. CASE ~callers[w].mine
  <2>1. \A v \in Callers : callers[v].mine \in BOOLEAN /\ callers'[v].mine \in BOOLEAN
    BY DEF CallersOK, Caller
  <2>2. \A v \in Callers : callers'[v].mine = callers[v].mine
    BY <1>3, <2>1
  <2>3. \A v \in Callers : callers[v].mine => callers'[v].context = callers[v].context
    BY <1>3
  <2> QED
    BY <1>1, <1>3, <2>2, <2>3, SameWaiters
<1> QED
  BY <1>2, <1>3

(* Retiring a discovery takes it from its waiters and leaves the rest alone. *)
LEMMA WithoutFlightEffect ==
  ASSUME CallersOK, NEW c
  PROVE  /\ WithoutFlight(c) \in [Callers -> Caller]
         /\ \A v \in Callers :
              /\ WithoutFlight(c)[v].pc = callers[v].pc
              /\ WithoutFlight(c)[v].context = callers[v].context
              /\ WithoutFlight(c)[v].seen = callers[v].seen
              /\ WithoutFlight(c)[v].previous = callers[v].previous
              /\ WithoutFlight(c)[v].mine <=> callers[v].mine /\ v \notin WaitersOf(c)
<1> DEFINE o(r) == [r EXCEPT !.mine = FALSE]
<1>1. ASSUME NEW r \in Caller
      PROVE  /\ o(r) \in Caller /\ o(r).pc = r.pc /\ o(r).context = r.context
             /\ o(r).seen = r.seen /\ o(r).previous = r.previous /\ ~o(r).mine
  BY DEF Caller
<1>2. WithoutFlight(c) =
        [v \in Callers |-> IF v \in WaitersOf(c) THEN o(callers[v]) ELSE callers[v]]
  BY DEF WithoutFlight
<1> HIDE DEF o
<1> QED
  BY <1>1, <1>2 DEF CallersOK

(* A bump of the generation outdates every captured one and nothing else.     *)
LEMMA OutdateEffect ==
  ASSUME NEW ws \in [Callers -> Caller]
  PROVE  /\ Outdate(ws) \in [Callers -> Caller]
         /\ \A w \in Callers :
              /\ Outdate(ws)[w].pc = ws[w].pc
              /\ Outdate(ws)[w].context = ws[w].context
              /\ Outdate(ws)[w].mine = ws[w].mine
              /\ ~Outdate(ws)[w].seen
<1> DEFINE o(r) == [r EXCEPT !.seen = FALSE, !.probed = FALSE]
<1>1. ASSUME NEW r \in Caller
      PROVE  /\ o(r) \in Caller /\ o(r).pc = r.pc /\ o(r).context = r.context
             /\ o(r).mine = r.mine /\ ~o(r).seen
  BY DEF Caller
<1>2. Outdate(ws) = [w \in Callers |-> o(ws[w])]
  BY DEF Outdate
<1> HIDE DEF o
<1> QED
  BY <1>1, <1>2

(* The same for the refresh. *)
LEMMA OutdateRefreshKeeps ==
  ASSUME RefreshOK, refresh' = OutdateRefresh(refresh)
  PROVE  RefreshOK'
  BY DEF RefreshOK, OutdateRefresh, Refresh

(* What a bump leaves of the callers. *)
LEMMA OutdatedCallers ==
  ASSUME CallersOK, FlightsOK, flights' = flights, callers' = Outdate(callers)
  PROVE  /\ CallersOK' /\ FlightsOK' /\ ~callers'[Switcher].seen
         /\ callers'[Switcher].pc = callers[Switcher].pc
<1>1. /\ callers' \in [Callers -> Caller]
      /\ \A w \in Callers : /\ callers'[w].pc = callers[w].pc
                            /\ callers'[w].context = callers[w].context
                            /\ callers'[w].mine = callers[w].mine
                            /\ ~callers'[w].seen
  BY OutdateEffect DEF CallersOK
<1>2. CallersOK'
  BY <1>1 DEF CallersOK
<1>3. FlightsOK'
  BY <1>1, SameWaiters
<1> QED
  BY <1>1, <1>2, <1>3, SwitcherCalls

(* A step that bumps no generation. *)
LEMMA QuietStep ==
  ASSUME SwitchingInv, CallersOK', FlightsOK', UseOK', RefreshOK', SwitcherKept,
         UNCHANGED registryVars
  PROVE  SwitchingInv'
<1>1. RegistryOK'
  BY DEF SwitchingInv, RegistryOK, registryVars, CurrentIsUsable, Usable
<1>2. SwitchNoted'
  BY DEF SwitchingInv, SwitchNoted, SwitcherKept, registryVars
<1> QED
  BY <1>1, <1>2 DEF SwitchingInv

(* A step that bumps it. *)
LEMMA BumpStep ==
  ASSUME SwitchingInv, CallersOK', FlightsOK', UseOK', RefreshOK', RegistryOK',
         ~callers'[Switcher].seen
  PROVE  SwitchingInv'
  BY DEF SwitchingInv, SwitchNoted

---------------------------------------------------------------------------
(* Every action keeps the invariant *)

LEMMA AskWatchKeeps ==
  ASSUME SwitchingInv, NEW s \in Watchers, NEW c \in Contexts, AskWatch(s, c)
  PROVE  SwitchingInv'
<1> USE DEF SwitchingInv
<1>1. s \in Callers /\ ~callers[s].mine
  BY DEF AskWatch, CallersOK, Callers
<1>2. UNCHANGED <<registryVars, shared, catalogs, refresh>>
  BY DEF AskWatch
<1>3. /\ CallersOK' /\ FlightsOK' /\ SwitcherKept
      /\ watched' \subseteq Contexts /\ polled' = polled
  <2>1. CASE /\ callers' = [callers EXCEPT ![s] = [Free EXCEPT !.pc = "listed", !.context = c]]
             /\ UNCHANGED <<contextUse, flights>>
    <3>1. PICK r : r = [Free EXCEPT !.pc = "listed", !.context = c]
      OBVIOUS
    <3>2. r \in Caller /\ r.context = c /\ ~r.mine /\ ~r.seen
      BY <3>1, ListedCaller
    <3>3. callers' = [callers EXCEPT ![s] = r] /\ flights' = flights
      BY <2>1, <3>1
    <3>4. CallersOK' /\ FlightsOK' /\ SwitcherKept
      BY <1>1, <3>2, <3>3, OneMoves
    <3> QED
      BY <2>1, <3>4 DEF UseOK, contextUse
  <2>2. CASE JoinFlight(s, c) /\ UNCHANGED contextUse
    BY <1>1, <2>2, JoinKeeps DEF UseOK, contextUse
  <2>3. CASE WithClient(s, c, "flight")
    BY <1>1, <2>3, WithClientKeeps DEF RequestsOK
  <2> QED
    BY <2>1, <2>2, <2>3 DEF AskWatch
<1>4. UseOK'
  BY <1>2, <1>3 DEF UseOK
<1>5. RefreshOK'
  BY <1>2 DEF RefreshOK
<1> QED
  BY <1>2, <1>3, <1>4, <1>5, QuietStep

LEMMA ClientKeeps ==
  ASSUME SwitchingInv, NEW w \in Callers, NEW c \in Contexts,
         NEW next \in {"flight", "attach", "verify"}, ~callers[w].mine,
         WithClient(w, c, next), UNCHANGED <<registryVars, shared, catalogs, refresh>>
  PROVE  SwitchingInv'
<1> USE DEF SwitchingInv
<1>1. /\ CallersOK' /\ FlightsOK' /\ SwitcherKept
      /\ watched' \subseteq Contexts /\ polled' = polled
  BY WithClientKeeps DEF RequestsOK
<1>2. UseOK' /\ RefreshOK'
  BY <1>1 DEF UseOK, RefreshOK
<1> QED
  BY <1>1, <1>2, QuietStep

LEMMA EngageKeeps ==
  ASSUME SwitchingInv, NEW s \in Watchers, Engage(s)
  PROVE  SwitchingInv'
<1>1. s \in Callers /\ ~callers[s].mine /\ callers[s].context \in Contexts
  BY DEF Engage, SwitchingInv, CallersOK, Callers
<1>2. PICK c \in Contexts : c = callers[s].context
  BY <1>1
<1> QED
  BY <1>1, <1>2, ClientKeeps DEF Engage

LEMMA AskMetricsKeeps ==
  ASSUME SwitchingInv, NEW k \in Queries, NEW c \in Contexts, AskMetrics(k, c)
  PROVE  SwitchingInv'
<1>1. k \in Callers /\ ~callers[k].mine
  BY DEF AskMetrics, SwitchingInv, CallersOK, Callers
<1> QED
  BY <1>1, ClientKeeps DEF AskMetrics

LEMMA VerifiedKeeps ==
  ASSUME SwitchingInv, NEW k \in Queries, Verified(k)
  PROVE  SwitchingInv'
<1> USE DEF SwitchingInv
<1>1. k \in Callers /\ ~callers[k].mine /\ callers[k].context \in Contexts
  BY DEF Verified, CallersOK, Callers
<1>2. CallersOK' /\ FlightsOK' /\ SwitcherKept
  BY <1>1, FreeCaller, OneMoves DEF Verified, adapterVars
<1>3. UseOK' /\ RefreshOK'
  BY <1>1 DEF Verified, UseOK, RefreshOK, adapterVars
<1>4. UNCHANGED registryVars
  BY DEF Verified
<1> QED
  BY <1>2, <1>3, <1>4, QuietStep

LEMMA BeginBuildKeeps ==
  ASSUME SwitchingInv, NEW w \in Callers, BeginBuild(w)
  PROVE  SwitchingInv'
<1> USE DEF SwitchingInv
<1>1. ~callers[w].mine /\ callers[w].context \in Contexts /\ callers[w] \in Caller
  BY DEF BeginBuild, CallersOK
<1>2. PICK r : r = [callers[w] EXCEPT !.pc = "connecting", !.probed = TRUE]
  OBVIOUS
<1>3. /\ r \in Caller /\ r.context = callers[w].context /\ ~r.mine
      /\ r.seen = callers[w].seen /\ r.previous = callers[w].previous
  BY <1>1, <1>2 DEF Caller
<1>4. callers' = [callers EXCEPT ![w] = r] /\ flights' = flights
  BY <1>2 DEF BeginBuild, adapterVars
<1>5. CallersOK' /\ FlightsOK' /\ SwitcherKept
  BY <1>1, <1>3, <1>4, OneMoves
<1>6. UseOK' /\ RefreshOK' /\ UNCHANGED registryVars
  BY DEF BeginBuild, UseOK, RefreshOK, adapterVars, contextUse
<1> QED
  BY <1>5, <1>6, QuietStep

LEMMA BuiltKeeps ==
  ASSUME SwitchingInv, NEW w \in Callers, Built(w)
  PROVE  SwitchingInv'
<1> USE DEF SwitchingInv
<1>1. ~callers[w].mine /\ callers[w].context \in Contexts
  BY DEF Built, CallersOK
<1>2. PICK c \in Contexts : c = callers[w].context
  BY <1>1
<1>3. GoOn(w, c, callers[w].next)
  BY <1>2 DEF Built
<1>4. /\ CallersOK' /\ FlightsOK' /\ SwitcherKept
      /\ watched' \subseteq Contexts /\ polled' = polled
  BY <1>1, <1>3, GoOnKeeps DEF RequestsOK
<1>5. UseOK' /\ RefreshOK' /\ UNCHANGED registryVars
  BY <1>1, <1>4 DEF Built, UseOK, RefreshOK
<1> QED
  BY <1>4, <1>5, QuietStep

LEMMA AwakeKeeps ==
  ASSUME SwitchingInv, NEW s \in Watchers, Awake(s)
  PROVE  SwitchingInv'
<1> USE DEF SwitchingInv
<1>1. s \in Callers /\ callers[s].context \in Contexts /\ s # Switcher
  BY SwitchingAssumption DEF Awake, CallersOK, Callers
<1>2. PICK c \in Contexts : c = callers[s].context
  BY <1>1
<1>3. PICK r : r = IF callers[s].outcome = "ok" THEN [Free EXCEPT !.pc = "listed", !.context = c]
                   ELSE Free
  OBVIOUS
<1>4. r \in Caller /\ ~r.mine /\ (r.pc # "idle" => r.context \in Contexts)
  BY <1>3, FreeCaller, ListedCaller
<1> DEFINE rest == IF callers[s].mine THEN WithoutFlight(c) ELSE callers
<1>5. callers' = [rest EXCEPT ![s] = r]
  BY <1>2, <1>3 DEF Awake
<1>6. /\ rest \in [Callers -> Caller]
      /\ \A v \in Callers :
           /\ rest[v].pc = callers[v].pc /\ rest[v].context = callers[v].context
           /\ rest[v].seen = callers[v].seen /\ rest[v].previous = callers[v].previous
           /\ rest[v].mine <=> callers[v].mine /\ ~(callers[s].mine /\ v \in WaitersOf(c))
  BY WithoutFlightEffect DEF CallersOK
<1> HIDE DEF rest
<1>7. /\ callers' \in [Callers -> Caller]
      /\ callers'[s] = r
      /\ \A v \in Callers \ {s} : callers'[v] = rest[v]
  BY <1>1, <1>4, <1>5, <1>6
<1>8. flights' = IF callers[s].mine THEN [flights EXCEPT ![c] = NoFlight] ELSE flights
  BY <1>2 DEF Awake, Publish
<1>9. CallersOK' /\ FlightsOK'
  BY <1>1, <1>2, <1>4, <1>6, <1>7, <1>8, OneSettles
<1>10. SwitcherKept
  BY <1>1, <1>6, <1>7, SwitcherCalls DEF SwitcherKept
<1>11. UseOK' /\ RefreshOK' /\ UNCHANGED registryVars
  BY <1>1 DEF Awake, Publish, UseOK, RefreshOK, contextUse
<1> QED
  BY <1>9, <1>10, <1>11, QuietStep

LEMMA DroppedKeeps ==
  ASSUME SwitchingInv, NEW w \in Callers, Dropped(w)
  PROVE  SwitchingInv'
<1> USE DEF SwitchingInv
<1>1. callers' = [callers EXCEPT ![w] = Free]
  BY DEF Dropped
<1>2. CallersOK' /\ FlightsOK' /\ SwitcherKept
  <2>1. CASE callers[w].mine
    <3>1. PICK c \in Contexts : c = callers[w].context
      BY <2>1 DEF CallersOK
    <3>2. flights' = [flights EXCEPT ![c].waiters = @ - 1]
      BY <2>1, <3>1 DEF Dropped, DropWaiter, CallersOK
    <3>3. FlightsOK'
      BY <1>1, <2>1, <3>1, <3>2, OneLeaves
    <3>4. CallersOK'
      BY <1>1, FreeCaller, OneCaller
    <3>5. SwitcherKept
      BY <1>1, FreeCaller, SwitcherCalls DEF SwitcherKept, CallersOK
    <3> QED
      BY <3>3, <3>4, <3>5
  <2>2. CASE ~callers[w].mine
    <3>1. flights' = flights
      BY <2>2 DEF Dropped, DropWaiter
    <3> QED
      BY <1>1, <2>2, <3>1, FreeCaller, OneMoves
  <2> QED
    BY <2>1, <2>2
<1>3. UseOK' /\ RefreshOK' /\ UNCHANGED registryVars
  BY DEF Dropped, UseOK, RefreshOK, contextUse
<1> QED
  BY <1>2, <1>3, QuietStep

LEMMA FlightResolvesKeeps ==
  ASSUME SwitchingInv, NEW c \in Contexts, NEW outcome \in {"ok", "failed"},
         FlightResolves(c, outcome)
  PROVE  SwitchingInv'
<1> USE DEF SwitchingInv
<1>1. callers' = [w \in Callers |->
        IF w \in WaitersOf(c) THEN [callers[w] EXCEPT !.outcome = outcome] ELSE callers[w]]
  BY DEF FlightResolves
<1>2. \A r \in Caller :
        /\ [r EXCEPT !.outcome = outcome] \in Caller
        /\ [r EXCEPT !.outcome = outcome].pc = r.pc
        /\ [r EXCEPT !.outcome = outcome].context = r.context
        /\ [r EXCEPT !.outcome = outcome].mine = r.mine
        /\ [r EXCEPT !.outcome = outcome].seen = r.seen
        /\ [r EXCEPT !.outcome = outcome].previous = r.previous
  BY DEF Caller
<1>3. \A w \in Callers :
        /\ callers'[w] \in Caller
        /\ callers'[w].pc = callers[w].pc /\ callers'[w].context = callers[w].context
        /\ callers'[w].mine = callers[w].mine /\ callers'[w].seen = callers[w].seen
        /\ callers'[w].previous = callers[w].previous
  BY <1>1, <1>2 DEF CallersOK
<1>4. CallersOK' /\ SwitcherKept
  BY <1>1, <1>3, SwitcherCalls DEF CallersOK, SwitcherKept
<1>5. FlightsOK'
  <2>1. \A d : WaitersOf(d)' = WaitersOf(d)
    BY <1>3 DEF WaitersOf
  <2>2. \A f \in Flight : /\ [f EXCEPT !.outcome = outcome] \in Flight
                          /\ [f EXCEPT !.outcome = outcome].waiters = f.waiters
    BY DEF Flight
  <2>3. flights' = [flights EXCEPT ![c] = [flights[c] EXCEPT !.outcome = outcome]]
    BY DEF FlightResolves
  <2> QED
    BY <2>1, <2>2, <2>3 DEF FlightsOK, FlightsHaveWaiters
<1>6. UseOK' /\ RefreshOK' /\ UNCHANGED registryVars
  BY DEF FlightResolves, UseOK, RefreshOK, contextUse
<1> QED
  BY <1>4, <1>5, <1>6, QuietStep

LEMMA IdleKeeps ==
  ASSUME SwitchingInv, NEW c \in Contexts, CatalogExpires(c) \/ Lapse(c)
  PROVE  SwitchingInv'
<1> USE DEF SwitchingInv
<1>1. UNCHANGED <<callers, flights, refresh, registryVars>>
  BY DEF CatalogExpires, Lapse, adapterVars
<1>2. CallersOK' /\ FlightsOK' /\ SwitcherKept /\ RefreshOK'
  BY <1>1 DEF CallersOK, FlightsOK, FlightsHaveWaiters, WaitersOf, SwitcherKept, RefreshOK
<1>3. UseOK'
  BY DEF CatalogExpires, Lapse, adapterVars, contextUse, UseOK
<1> QED
  BY <1>1, <1>2, <1>3, QuietStep

LEMMA PrepareSwitchKeeps ==
  ASSUME SwitchingInv, NEW to \in Contexts, PrepareSwitch(to)
  PROVE  SwitchingInv'
<1> USE DEF SwitchingInv
<1>1. PICK r : r = [Free EXCEPT !.pc = "prepared", !.context = to, !.previous = current, !.seen = TRUE]
  OBVIOUS
<1>2. r \in Caller /\ r.context = to /\ ~r.mine /\ r.previous = current /\ r.pc = "prepared"
  BY <1>1 DEF Free, Caller, RegistryOK
<1>3. callers' = [callers EXCEPT ![Switcher] = r]
  BY <1>1 DEF PrepareSwitch
<1>4. UNCHANGED <<flights, registryVars, refresh>> /\ ~callers[Switcher].mine
  BY SwitcherCalls DEF PrepareSwitch, adapterVars, CallersOK
<1>5. CallersOK'
  BY <1>2, <1>3, SwitcherCalls, OneCaller
<1>6. FlightsOK'
  <2>1. callers[Switcher].mine = FALSE /\ r.mine = FALSE
    BY <1>2, <1>4, SwitcherCalls DEF CallersOK, Caller
  <2>2. /\ \A v \in Callers : callers'[v].mine = callers[v].mine
        /\ \A v \in Callers : callers[v].mine => callers'[v].context = callers[v].context
    BY <1>3, <2>1 DEF CallersOK
  <2> QED
    BY <1>4, <2>2, SameWaiters
<1>7. UseOK' /\ RefreshOK'
  BY <1>4 DEF PrepareSwitch, UseOK, RefreshOK, adapterVars, contextUse
<1>8. SwitchNoted'
  BY <1>2, <1>3, <1>4, SwitcherCalls DEF SwitchNoted, CallersOK, registryVars
<1>9. RegistryOK'
  BY <1>4 DEF RegistryOK, CurrentIsUsable, Usable, registryVars
<1> QED
  BY <1>5, <1>6, <1>7, <1>8, <1>9

LEMMA ValidateKeeps ==
  ASSUME SwitchingInv, Validate
  PROVE  SwitchingInv'
<1> USE DEF SwitchingInv
<1>1. /\ Switcher \in Callers /\ ~callers[Switcher].mine
      /\ callers[Switcher].context \in Contexts
  BY SwitcherCalls DEF Validate, CallersOK
<1>2. PICK c \in Contexts : c = callers[Switcher].context
  BY <1>1
<1>3. UNCHANGED <<registryVars, shared, catalogs, refresh>>
  BY DEF Validate
<1>4. CASE JoinFlight(Switcher, c) /\ UNCHANGED contextUse
  <2>1. CallersOK' /\ FlightsOK' /\ SwitcherKept
    BY <1>1, <1>4, JoinKeeps
  <2>2. UseOK' /\ RefreshOK'
    BY <1>3, <1>4 DEF UseOK, RefreshOK, contextUse
  <2> QED
    BY <1>3, <2>1, <2>2, QuietStep
<1>5. CASE WithClient(Switcher, c, "flight")
  BY <1>1, <1>3, <1>5, ClientKeeps
<1> QED
  BY <1>2, <1>4, <1>5 DEF Validate

(* The end of a switch, committed or not. *)
LEMMA SwitchEndsKeeps ==
  ASSUME SwitchingInv, SwitchEnds
  PROVE  SwitchingInv'
<1> USE DEF SwitchingInv
<1> DEFINE w == Switcher
<1>1. w \in Callers /\ callers[w].context \in Contexts
  BY SwitcherCalls DEF SwitchEnds, CallersOK
<1>2. PICK c \in Contexts : c = callers[w].context
  BY <1>1
<1> DEFINE rest == IF callers[w].mine THEN WithoutFlight(c) ELSE callers
<1>3. /\ rest \in [Callers -> Caller]
      /\ \A v \in Callers :
           /\ rest[v].pc = callers[v].pc /\ rest[v].context = callers[v].context
           /\ rest[v].mine <=> callers[v].mine /\ ~(callers[w].mine /\ v \in WaitersOf(c))
  BY WithoutFlightEffect DEF CallersOK
<1>4. \/ callers' = [Outdate(rest) EXCEPT ![w] = Free]
      \/ callers' = [rest EXCEPT ![w] = Free]
  BY <1>2 DEF SwitchEnds
<1>5. flights' = IF callers[w].mine THEN [flights EXCEPT ![c] = NoFlight] ELSE flights
  BY <1>2 DEF SwitchEnds
<1> HIDE DEF rest
<1>6. /\ callers' \in [Callers -> Caller]
      /\ callers'[w] = Free
      /\ \A v \in Callers \ {w} :
           /\ callers'[v].pc = callers[v].pc /\ callers'[v].context = callers[v].context
           /\ callers'[v].mine <=>
                callers[v].mine /\ ~(callers[w].mine /\ v \in WaitersOf(c))
  <2>1. CASE callers' = [Outdate(rest) EXCEPT ![w] = Free]
    BY <1>1, <1>3, <2>1, OutdateEffect, FreeCaller
  <2>2. CASE callers' = [rest EXCEPT ![w] = Free]
    BY <1>1, <1>3, <2>2, FreeCaller
  <2> QED
    BY <1>4, <2>1, <2>2
<1>7. CallersOK' /\ FlightsOK'
  BY <1>1, <1>2, <1>5, <1>6, FreeCaller, OneSettles
<1>8. ~callers'[Switcher].seen
  BY <1>6, FreeCaller
<1>9. UseOK'
  BY <1>1 DEF SwitchEnds, UseOK, RetireUse, contextUse
<1>10. RefreshOK'
  BY OutdateRefreshKeeps DEF SwitchEnds, RefreshOK
<1>11. RegistryOK'
  BY <1>1 DEF SwitchEnds, RegistryOK, CurrentIsUsable, Usable, registryVars
<1> QED
  BY <1>7, <1>8, <1>9, <1>10, <1>11, BumpStep

LEMMA PluginFailsKeeps ==
  ASSUME SwitchingInv, NEW w \in Callers, PluginFails(w)
  PROVE  SwitchingInv'
<1> USE DEF SwitchingInv
<1>1. ~callers[w].mine /\ callers[w].context \in Contexts
  BY DEF PluginFails, CallersOK
<1>2. flights' = flights /\ UseOK'
  BY DEF PluginFails, adapterVars, contextUse, UseOK
<1>3. CASE callers[w].probed
  <2>1. RegistryOK'
    BY <1>1, <1>3, MarkKeeps DEF PluginFails
  <2>2. callers' = [Outdate(callers) EXCEPT ![w] = Free] /\ refresh' = OutdateRefresh(refresh)
    BY <1>3 DEF PluginFails
  <2>3. /\ callers' \in [Callers -> Caller] /\ callers'[w] = Free
        /\ \A v \in Callers \ {w} : /\ callers'[v].pc = callers[v].pc
                                     /\ callers'[v].context = callers[v].context
                                     /\ callers'[v].mine = callers[v].mine
                                     /\ ~callers'[v].seen
    BY <2>2, OutdateEffect, FreeCaller DEF CallersOK
  <2>4. CallersOK' /\ ~callers'[Switcher].seen
    BY <2>3, FreeCaller, SwitcherCalls DEF CallersOK
  <2>5. FlightsOK'
    <3>1. callers[w].mine = FALSE /\ Free.mine = FALSE
      BY <1>1, FreeCaller DEF CallersOK, Caller
    <3>2. \A v \in Callers : callers'[v].mine = callers[v].mine
      BY <2>3, <3>1
    <3>3. \A v \in Callers : callers[v].mine => callers'[v].context = callers[v].context
      BY <1>1, <2>3
    <3> QED
      BY <1>2, <3>2, <3>3, SameWaiters
  <2> QED
    BY <1>2, <2>1, <2>2, <2>4, <2>5, OutdateRefreshKeeps, BumpStep
<1>4. CASE ~callers[w].probed
  <2>1. callers' = [callers EXCEPT ![w] = Free] /\ UNCHANGED <<registryVars, refresh>>
    BY <1>4 DEF PluginFails
  <2>2. CallersOK' /\ FlightsOK' /\ SwitcherKept
    BY <1>1, <1>2, <2>1, FreeCaller, OneMoves
  <2>3. RefreshOK'
    BY <2>1 DEF RefreshOK
  <2> QED
    BY <1>2, <2>1, <2>2, <2>3, QuietStep
<1> QED
  BY <1>3, <1>4

LEMMA CredentialFailsKeeps ==
  ASSUME SwitchingInv, NEW c \in Contexts, CredentialFails(c)
  PROVE  SwitchingInv'
<1> USE DEF SwitchingInv
<1>1. RegistryOK'
  BY MarkKeeps DEF CredentialFails
<1>2. CallersOK' /\ FlightsOK' /\ ~callers'[Switcher].seen
  BY OutdatedCallers DEF CredentialFails
<1>3. UseOK'
  BY DEF CredentialFails, RetireUse, UseOK
<1>4. RefreshOK'
  BY OutdateRefreshKeeps DEF CredentialFails
<1> QED
  BY <1>1, <1>2, <1>3, <1>4, BumpStep

---------------------------------------------------------------------------
(* The refresh *)

(* A probe that succeeds marks its context only on a current generation.      *)
LEMMA ProbeSucceedsKeeps ==
  ASSUME SwitchingInv, NEW c \in Contexts, NEW r \in Refresh, ProbeSucceeds(c, r),
         UseOK', flights' = flights
  PROVE  SwitchingInv'
<1> USE DEF SwitchingInv
<1>1. ProbeOver(r) \in Refresh /\ NoRefresh \in Refresh
      /\ ProbeOver(r).pc = "choosing" /\ NoRefresh.pc = "idle"
  BY DEF ProbeOver, NoRefresh, Refresh
<1>2. RefreshOK'
  BY <1>1 DEF ProbeSucceeds, RefreshOK
<1>3. CASE r.seen
  <2>1. RegistryOK'
    BY <1>3, MarkKeeps DEF ProbeSucceeds
  <2>2. CallersOK' /\ FlightsOK' /\ ~callers'[Switcher].seen
    BY <1>3, OutdatedCallers DEF ProbeSucceeds
  <2> QED
    BY <1>2, <2>1, <2>2, BumpStep
<1>4. CASE ~r.seen
  <2>1. UNCHANGED <<registryVars, callers>>
    BY <1>4 DEF ProbeSucceeds
  <2>2. CallersOK' /\ FlightsOK' /\ SwitcherKept
    BY <2>1 DEF CallersOK, FlightsOK, FlightsHaveWaiters, WaitersOf, SwitcherKept
  <2> QED
    BY <1>2, <2>1, <2>2, QuietStep
<1> QED
  BY <1>3, <1>4

(* A step of the refresh that touches nothing else but cached clients.        *)
LEMMA RefreshMoves ==
  ASSUME SwitchingInv, RefreshOK', UseOK', UNCHANGED <<registryVars, flights, callers>>
  PROVE  SwitchingInv'
<1> USE DEF SwitchingInv
<1>1. CallersOK' /\ FlightsOK' /\ SwitcherKept
  BY DEF CallersOK, FlightsOK, FlightsHaveWaiters, WaitersOf, SwitcherKept
<1> QED
  BY <1>1, QuietStep

LEMMA ProbeNextKeeps ==
  ASSUME SwitchingInv, ProbeNext
  PROVE  SwitchingInv'
<1> DEFINE first == FirstOf(refresh.todo)
<1>1. first \in Contexts
  BY FirstOfIn DEF ProbeNext, SwitchingInv, RefreshOK, Refresh
<1>2. PICK c \in Contexts : c = FirstOf(refresh.todo)
  BY <1>1
<1>3. PICK r : r = [refresh EXCEPT !.todo = @ \ {c}, !.context = c, !.seen = TRUE]
  OBVIOUS
<1>4. refresh \in Refresh
  BY DEF SwitchingInv, RefreshOK
<1>5. r \in Refresh /\ r.context = c
  BY <1>3, <1>4 DEF Refresh
<1>6. UseOK' /\ flights' = flights
  BY DEF ProbeNext, SwitchingInv, UseOK, contextUse
<1>7. CASE ProbeSucceeds(c, r)
  BY <1>5, <1>6, <1>7, ProbeSucceedsKeeps
<1>8. CASE /\ refresh' = ProbeOver(r) \/ refresh' = [r EXCEPT !.pc = "queued"]
           /\ UNCHANGED <<registryVars, callers>>
  <2>1. RefreshOK'
    <3>1. CASE refresh' = ProbeOver(r)
      BY <1>5, <3>1 DEF RefreshOK, Refresh, ProbeOver, NoRefresh
    <3>2. CASE refresh' = [r EXCEPT !.pc = "queued"]
      BY <1>5, <3>2 DEF RefreshOK, Refresh
    <3> QED
      BY <1>8, <3>1, <3>2
  <2> QED
    BY <1>6, <1>8, <2>1, RefreshMoves
<1> QED
  BY <1>2, <1>3, <1>7, <1>8 DEF ProbeNext

LEMMA ProbeBuildsKeeps ==
  ASSUME SwitchingInv, ProbeBuilds
  PROVE  SwitchingInv'
<1>1. refresh \in Refresh /\ refresh.context \in Contexts
  BY DEF ProbeBuilds, SwitchingInv, RefreshOK
<1>2. UseOK' /\ flights' = flights
  BY DEF ProbeBuilds, SwitchingInv, UseOK, contextUse, adapterVars
<1>3. CASE ProbeSucceeds(refresh.context, refresh)
  <2>1. PICK c \in Contexts, r \in Refresh : c = refresh.context /\ r = refresh
    BY <1>1
  <2> QED
    BY <1>2, <1>3, <2>1, ProbeSucceedsKeeps
<1>4. CASE /\ refresh' = [refresh EXCEPT !.pc = "building", !.probed = TRUE]
           /\ UNCHANGED <<registryVars, callers>>
  <2>1. RefreshOK'
    BY <1>1, <1>4 DEF RefreshOK, Refresh
  <2> QED
    BY <1>2, <1>4, <2>1, RefreshMoves
<1> QED
  BY <1>3, <1>4 DEF ProbeBuilds

LEMMA ProbeBuiltKeeps ==
  ASSUME SwitchingInv, ProbeBuilt
  PROVE  SwitchingInv'
<1>1. refresh \in Refresh /\ refresh.context \in Contexts
  BY DEF ProbeBuilt, SwitchingInv, RefreshOK
<1>2. UseOK' /\ flights' = flights
  BY <1>1 DEF ProbeBuilt, SwitchingInv, UseOK, contextUse
<1>3. PICK c \in Contexts, r \in Refresh : c = refresh.context /\ r = refresh
  BY <1>1
<1> QED
  BY <1>2, <1>3, ProbeSucceedsKeeps DEF ProbeBuilt

LEMMA ProbeFailsKeeps ==
  ASSUME SwitchingInv, ProbeFails
  PROVE  SwitchingInv'
<1> USE DEF SwitchingInv
<1>1. refresh \in Refresh /\ refresh.context \in Contexts
  BY DEF ProbeFails, RefreshOK
<1>2. UseOK' /\ flights' = flights
  BY DEF ProbeFails, UseOK, contextUse, adapterVars
<1>3. RefreshOK'
  BY <1>1 DEF ProbeFails, ProbeOver, NoRefresh, RefreshOK, Refresh
<1>4. CASE Mark(refresh.context, "Unavailable") /\ callers' = Outdate(callers)
  <2>1. RegistryOK'
    <3>1. PICK c \in Contexts : c = refresh.context
      BY <1>1
    <3> QED
      BY <1>4, <3>1, MarkKeeps
  <2>2. CallersOK' /\ FlightsOK' /\ ~callers'[Switcher].seen
    BY <1>2, <1>4, OutdatedCallers
  <2> QED
    BY <1>2, <1>3, <2>1, <2>2, BumpStep
<1>5. CASE UNCHANGED <<registryVars, callers>>
  BY <1>2, <1>3, <1>5, RefreshMoves
<1> QED
  BY <1>4, <1>5 DEF ProbeFails

(* Beginning, going on to another stage, being dropped. *)
LEMMA StagesKeep ==
  ASSUME SwitchingInv, StartRefresh \/ NextStage \/ RefreshDropped
  PROVE  SwitchingInv'
<1>1. UNCHANGED <<registryVars, flights, callers>> /\ UseOK'
  BY DEF StartRefresh, NextStage, RefreshDropped, SwitchingInv, UseOK, contextUse, adapterVars
<1>2. \A status : Having(status) \in SUBSET Contexts
  BY DEF Having
<1>3. {} \in SUBSET Contexts /\ (current # NoContext => {current} \in SUBSET Contexts)
  BY DEF SwitchingInv, RegistryOK
<1>4. refresh \in Refresh
  BY DEF SwitchingInv, RefreshOK
<1>5. RefreshOK'
  <2>1. CASE StartRefresh
    BY <1>2, <2>1 DEF StartRefresh, NoRefresh, RefreshOK, Refresh
  <2>2. CASE NextStage
    <3>1. CASE refresh.stage = "retry"
      BY <1>3, <1>4, <2>2, <3>1 DEF NextStage, RefreshOK, Refresh
    <3>2. CASE refresh.stage # "retry"
      BY <1>2, <1>4, <2>2, <3>2 DEF NextStage, NoRefresh, RefreshOK, Refresh
    <3> QED
      BY <3>1, <3>2
  <2>3. CASE RefreshDropped
    BY <2>3 DEF RefreshDropped, NoRefresh, RefreshOK, Refresh
  <2> QED
    BY <2>1, <2>2, <2>3
<1> QED
  BY <1>1, <1>5, RefreshMoves

---------------------------------------------------------------------------
(* The theorems *)

LEMMA SwitchingStarts == SwitchingInit => SwitchingInv
<1> SUFFICES ASSUME SwitchingInit PROVE SwitchingInv
  OBVIOUS
<1>1. CallersOK /\ SwitchNoted
  BY FreeCaller, SwitcherCalls DEF SwitchingInit, CallersOK, SwitchNoted
<1>2. FlightsOK
  <2>1. \A c : WaitersOf(c) = {}
    BY FreeCaller DEF SwitchingInit, WaitersOf
  <2>2. NoFlight \in Flight /\ NoFlight.waiters = 0
    BY DEF NoFlight, Flight
  <2> QED
    BY <2>1, <2>2, FS_EmptySet DEF SwitchingInit, FlightsOK, FlightsHaveWaiters
<1>3. RegistryOK
  BY SwitchingAssumption DEF SwitchingInit, RegistryOK, CurrentIsUsable, Usable
<1>4. UseOK
  BY DEF SwitchingInit, UseOK
<1>5. RefreshOK
  BY DEF SwitchingInit, RefreshOK, NoRefresh, Refresh
<1> QED
  BY <1>1, <1>2, <1>3, <1>4, <1>5 DEF SwitchingInv

LEMMA SwitchingInductive == SwitchingInv /\ [SwitchingNext]_switchingVars => SwitchingInv'
<1> SUFFICES ASSUME SwitchingInv, [SwitchingNext]_switchingVars
             PROVE  SwitchingInv'
  OBVIOUS
<1>1. ASSUME NEW s \in Watchers, Engage(s) \/ Awake(s) \/ \E c \in Contexts : AskWatch(s, c)
      PROVE  SwitchingInv'
  BY <1>1, EngageKeeps, AwakeKeeps, AskWatchKeeps
<1>2. ASSUME NEW k \in Queries, Verified(k) \/ \E c \in Contexts : AskMetrics(k, c)
      PROVE  SwitchingInv'
  BY <1>2, VerifiedKeeps, AskMetricsKeeps
<1>3. ASSUME NEW w \in Callers, CallerStep(w)
      PROVE  SwitchingInv'
  BY <1>3, BeginBuildKeeps, BuiltKeeps, PluginFailsKeeps, DroppedKeeps DEF CallerStep
<1>4. ASSUME NEW c \in Contexts,
             \/ CatalogExpires(c) \/ CredentialFails(c) \/ Lapse(c)
             \/ \E outcome \in {"ok", "failed"} : FlightResolves(c, outcome)
      PROVE  SwitchingInv'
  BY <1>4, IdleKeeps, CredentialFailsKeeps, FlightResolvesKeeps
<1>5. CASE SwitchStep
  BY <1>5, PrepareSwitchKeeps, ValidateKeeps, SwitchEndsKeeps DEF SwitchStep
<1>6. CASE RefreshStep
  BY <1>6, StagesKeep, ProbeNextKeeps, ProbeBuildsKeeps, ProbeBuiltKeeps, ProbeFailsKeeps
     DEF RefreshStep
<1>7. CASE UNCHANGED switchingVars
  BY <1>7 DEF switchingVars, registryVars, adapterVars, contextUse, SwitchingInv, CallersOK,
     FlightsOK, FlightsHaveWaiters, WaitersOf, RegistryOK, CurrentIsUsable, Usable, UseOK,
     RefreshOK, SwitchNoted
<1> QED
  BY <1>1, <1>2, <1>3, <1>4, <1>5, <1>6, <1>7 DEF SwitchingNext

LEMMA SwitchingInvHolds == SwitchingSpec => []SwitchingInv
  BY SwitchingStarts, SwitchingInductive, PTL DEF SwitchingSpec

(* The registry, the shared clients, the discoveries and every request are in *)
(* one of their states (runtime/context.rs, kube/mod.rs).                     *)
THEOREM SwitchingTypeCorrect == SwitchingSpec => []SwitchingTypeOK
<1>1. SwitchingInv => SwitchingTypeOK
  BY DEF SwitchingInv, SwitchingTypeOK, CallersOK, FlightsOK, RegistryOK, UseOK, RefreshOK
<1> QED
  BY <1>1, SwitchingInvHolds, PTL

(* The current context can serve requests, and a discovery is active exactly  *)
(* for those who wait for it, whatever is switched, refreshed or cancelled.   *)
THEOREM SwitchingStaysConsistent == SwitchingSpec => []SwitchingConsistent
<1>1. SwitchingInv => SwitchingConsistent
  BY DEF SwitchingInv, SwitchingConsistent, FlightsOK, RegistryOK
<1> QED
  BY <1>1, SwitchingInvHolds, PTL

(* A switch leaves nothing registered of the context it replaces, although it *)
(* noted that context before it awaited the discovery of the destination.     *)
THEOREM SwitchesRetire == SwitchingSpec => SwitchRetiresReplaced
<1> DEFINE Retires ==
      callers[Switcher].pc = "waiting" /\ callers'[Switcher].pc = "idle"
        /\ current' \notin {current, NoContext} /\ current # NoContext
      => current \notin watched' \cup polled' \cup catalogs'
<1>1. SwitchingInv /\ [SwitchingNext]_switchingVars => [Retires]_switchingVars
  <2> SUFFICES ASSUME SwitchingInv, SwitchingNext,
                      callers[Switcher].pc = "waiting", callers'[Switcher].pc = "idle",
                      current' \notin {current, NoContext}, current # NoContext
               PROVE  current \notin watched' \cup polled' \cup catalogs'
    OBVIOUS
  <2>1. SwitchEnds
    <3>1. callers' # Outdate(callers)
      BY OutdateEffect, SwitcherCalls DEF SwitchingInv, CallersOK
    <3>2. ~(\E w \in Callers : callers[w].pc # "waiting" /\
             callers' = [Outdate(callers) EXCEPT ![w] = Free])
      BY OutdateEffect, SwitcherCalls DEF SwitchingInv, CallersOK
    <3>3. ~UNCHANGED registryVars
      BY DEF registryVars
    <3> QED
      BY <3>1, <3>2, <3>3 DEF SwitchingNext, AskWatch, Engage, Awake, AskMetrics, Verified,
         CallerStep, BeginBuild, Built, PluginFails, Dropped, FlightResolves, CatalogExpires,
         CredentialFails, Lapse, SwitchStep, PrepareSwitch, Validate, RefreshStep, StartRefresh,
         ProbeNext, ProbeBuilds, ProbeBuilt, ProbeFails, NextStage, RefreshDropped, ProbeSucceeds
  <2>2. /\ callers[Switcher].seen /\ current' = callers[Switcher].context
        /\ callers[Switcher].previous \notin {NoContext, callers[Switcher].context} =>
             RetireUse(callers[Switcher].previous)
             /\ callers[Switcher].previous \notin catalogs'
    BY <2>1 DEF SwitchEnds, Commits, registryVars
  <2>3. callers[Switcher].previous = current
    BY <2>2 DEF SwitchingInv, SwitchNoted
  <2> QED
    BY <2>2, <2>3 DEF RetireUse
<1> QED
  BY <1>1, SwitchingInvHolds, PTL DEF SwitchingSpec, SwitchRetiresReplaced

---------------------------------------------------------------------------
(* The inductive invariant *)

(* A selection that will go on: nothing has ended it or is about to. *)
GoesOn(i) ==
  /\ runs[i].task = "running"
  /\ ~runs[i].cancelled /\ ~runs[i].doomed
  /\ runs[i].monitor # "cancelling"

(* What is registered goes on under its own selector, and nobody retired it. *)
RegisteredGoesOn ==
  \A sel \in Selectors :
    selections[sel] # 0 =>
      /\ runs[selections[sel]].selector = sel
      /\ GoesOn(selections[sel])
      /\ selections[sel] \notin retired

(* What goes on is registered. *)
GoingOnIsRegistered == \A i \in RunIds : GoesOn(i) => Registered(i)

(* A subscriber listens to a registered selection or to a retired one. *)
ListensToRegistered ==
  \A s \in Subscribers :
    receivers[s] # 0 /\ receivers[s] \notin retired => Registered(receivers[s])

(* A retired selection has been started. *)
RetiredStarted == \A i \in retired : runs[i].task # "none"

WatchInv ==
  RegisteredGoesOn /\ GoingOnIsRegistered /\ ListensToRegistered /\ RetiredStarted

(* A registered collector was started for its context and not retired. *)
RegisteredCollects ==
  \A c \in Clusters :
    collectors[c] # 0 =>
      /\ polls[collectors[c]].context = c
      /\ polls[collectors[c]].pc \notin {"none", "done"}
      /\ ~polls[collectors[c]].doomed /\ ~polls[collectors[c]].cancelled

(* A collector that will poll again is registered. *)
CollectingIsRegistered ==
  \A i \in PollIds :
    polls[i].pc \in {"starting", "polling", "holding"}
      /\ ~polls[i].cancelled /\ ~polls[i].doomed
      => collectors[polls[i].context] = i

(* A collector between two polls has a cut. *)
HoldersHaveCut == \A i \in PollIds : polls[i].pc = "holding" => polls[i].cut

(* A collector that leaves without a cut was retired, or nobody can reach it. *)
LeavingIsKnown ==
  \A i \in PollIds :
    polls[i].pc \in {"leaving", "done"} =>
      \/ polls[i].cut
      \/ polls[i].cancelled
      \/ ~Reached(i)

PollInv ==
  RegisteredCollects /\ CollectingIsRegistered /\ HoldersHaveCut /\ LeavingIsKnown

ClusterInv == ClusterTypeOK /\ WatchInv /\ PollInv

---------------------------------------------------------------------------
(* Types *)

LEMMA InitTypes == ClusterInit => ClusterTypeOK
<1> SUFFICES ASSUME ClusterInit PROVE ClusterTypeOK
  OBVIOUS
<1>1. Unstarted \in Run
  BY ClusterAssumption DEF Unstarted, Run
<1>2. Clusters # {}
  BY ClusterAssumption
<1>3. Idle \in Poll
  BY <1>2 DEF Idle, Poll
<1> QED
  BY <1>1, <1>3 DEF ClusterInit, ClusterTypeOK

(* What a step may write into a selection's or a collector's entry. *)
LEMMA RunFields ==
  ASSUME NEW r \in Run
  PROVE  /\ \A v \in {"none", "running", "done"} : [r EXCEPT !.task = v] \in Run
         /\ \A v \in {"none", "watching", "removing", "cancelling", "done"} :
              [r EXCEPT !.monitor = v] \in Run
         /\ \A v \in {"unset", "counting", "lingered"} : [r EXCEPT !.empty = v] \in Run
         /\ \A v \in BOOLEAN : [r EXCEPT !.fresh = v] \in Run
         /\ [r EXCEPT !.doomed = TRUE] \in Run
         /\ [r EXCEPT !.doomed = FALSE, !.cancelled = TRUE] \in Run
         /\ [r EXCEPT !.monitor = "watching", !.empty = "unset"] \in Run
         /\ [r EXCEPT !.monitor = "done", !.cancelled = TRUE] \in Run
<1>1. \A v \in {"none", "running", "done"} : [r EXCEPT !.task = v] \in Run
  BY DEF Run
<1>2. \A v \in {"none", "watching", "removing", "cancelling", "done"} :
        [r EXCEPT !.monitor = v] \in Run
  BY DEF Run
<1>3. \A v \in {"unset", "counting", "lingered"} : [r EXCEPT !.empty = v] \in Run
  BY DEF Run
<1>4. \A v \in BOOLEAN : [r EXCEPT !.fresh = v] \in Run
  BY DEF Run
<1>5. [r EXCEPT !.doomed = TRUE] \in Run
  BY DEF Run
<1>6. [r EXCEPT !.doomed = FALSE, !.cancelled = TRUE] \in Run
  BY DEF Run
<1>7. [r EXCEPT !.monitor = "watching", !.empty = "unset"] \in Run
  BY DEF Run
<1>8. [r EXCEPT !.monitor = "done", !.cancelled = TRUE] \in Run
  BY DEF Run
<1> QED
  BY <1>1, <1>2, <1>3, <1>4, <1>5, <1>6, <1>7, <1>8

LEMMA PollFields ==
  ASSUME NEW r \in Poll
  PROVE  /\ \A v \in {"leaving", "polling", "done"} : [r EXCEPT !.pc = v] \in Poll
         /\ \A v \in {"leaving", "holding"}, w \in BOOLEAN :
              [r EXCEPT !.pc = v, !.cut = w] \in Poll
         /\ \A v \in BOOLEAN : [r EXCEPT !.fresh = v] \in Poll
         /\ [r EXCEPT !.doomed = TRUE] \in Poll
         /\ [r EXCEPT !.doomed = FALSE, !.cancelled = TRUE] \in Poll
<1>1. \A v \in {"leaving", "polling", "done"} : [r EXCEPT !.pc = v] \in Poll
  BY DEF Poll
<1>2. \A v \in {"leaving", "holding"}, w \in BOOLEAN :
        [r EXCEPT !.pc = v, !.cut = w] \in Poll
  BY DEF Poll
<1>3. \A v \in BOOLEAN : [r EXCEPT !.fresh = v] \in Poll
  BY DEF Poll
<1>4. [r EXCEPT !.doomed = TRUE] \in Poll
  BY DEF Poll
<1>5. [r EXCEPT !.doomed = FALSE, !.cancelled = TRUE] \in Poll
  BY DEF Poll
<1> QED
  BY <1>1, <1>2, <1>3, <1>4, <1>5

(* A step of the selections keeps their types. *)
LEMMA WatchTypes ==
  ASSUME ClusterTypeOK,
         \/ \E i \in RunIds : MonitorStep(i) \/ JoinAges(i) \/ TaskEnds(i) \/ CancelDoomed(i)
         \/ \E s \in Subscribers : SeeClosed(s) \/ Depart(s)
         \/ \E s \in Subscribers, sel \in Selectors : Subscribe(s, sel)
  PROVE  ClusterTypeOK'
<1>1. ASSUME NEW i \in RunIds,
             MonitorStep(i) \/ JoinAges(i) \/ TaskEnds(i) \/ CancelDoomed(i)
      PROVE  ClusterTypeOK'
  <2>1. CASE MonitorEnds(i)
    BY <2>1, RunFields DEF MonitorEnds, ClusterTypeOK, metricsVars
  <2>2. CASE MonitorSamples(i)
    <3>1. \/ \E e \in {"unset", "counting", "lingered"} : runs' = [runs EXCEPT ![i].empty = e]
          \/ runs' = [runs EXCEPT ![i].monitor = "removing"]
      BY <2>2 DEF MonitorSamples
    <3>2. CASE runs' = [runs EXCEPT ![i].monitor = "removing"]
      <4>1. [runs[i] EXCEPT !.monitor = "removing"] \in Run
        BY RunFields DEF ClusterTypeOK
      <4> QED
        BY <3>2, <4>1, <2>2 DEF MonitorSamples, ClusterTypeOK, metricsVars
    <3>3. ASSUME NEW e \in {"unset", "counting", "lingered"}, runs' = [runs EXCEPT ![i].empty = e]
          PROVE  ClusterTypeOK'
      <4>1. [runs[i] EXCEPT !.empty = e] \in Run
        BY RunFields DEF ClusterTypeOK
      <4> QED
        BY <3>3, <4>1, <2>2 DEF MonitorSamples, ClusterTypeOK, metricsVars
    <3> QED
      BY <3>1, <3>2, <3>3 DEF MonitorSamples, ClusterTypeOK, metricsVars
  <2>3. CASE EmptyLasts(i)
    BY <2>3, RunFields DEF EmptyLasts, ClusterTypeOK, metricsVars
  <2>4. CASE MonitorRemoves(i)
    <3>1. selections' \in [Selectors -> RunIds \cup {0}]
      BY <2>4 DEF MonitorRemoves, ClusterTypeOK
    <3>2. /\ [runs[i] EXCEPT !.monitor = "cancelling"] \in Run
          /\ [runs[i] EXCEPT !.monitor = "watching", !.empty = "unset"] \in Run
      BY RunFields DEF ClusterTypeOK
    <3>3. runs' \in [RunIds -> Run]
      BY <2>4, <3>2 DEF MonitorRemoves, ClusterTypeOK
    <3> QED
      BY <2>4, <3>1, <3>3 DEF MonitorRemoves, ClusterTypeOK, metricsVars
  <2>5. CASE MonitorCancels(i)
    BY <2>5, RunFields DEF MonitorCancels, ClusterTypeOK, metricsVars
  <2>6. CASE JoinAges(i)
    BY <2>6, RunFields DEF JoinAges, ClusterTypeOK, metricsVars
  <2>7. CASE TaskEnds(i)
    BY <2>7, RunFields DEF TaskEnds, ClusterTypeOK, metricsVars
  <2>8. CASE CancelDoomed(i)
    BY <2>8, RunFields DEF CancelDoomed, ClusterTypeOK, metricsVars
  <2> QED
    BY <1>1, <2>1, <2>2, <2>3, <2>4, <2>5, <2>6, <2>7, <2>8 DEF MonitorStep
<1>2. ASSUME NEW s \in Subscribers, SeeClosed(s) \/ Depart(s)
      PROVE  ClusterTypeOK'
  BY <1>2, RunFields DEF SeeClosed, Depart, ClusterTypeOK, metricsVars
<1>3. ASSUME NEW s \in Subscribers, NEW sel \in Selectors, Subscribe(s, sel)
      PROVE  ClusterTypeOK'
  <2>1. CASE JoinWarm(s, sel)
    BY <2>1, RunFields DEF JoinWarm, ClusterTypeOK, metricsVars
  <2>2. CASE StartCold(s, sel)
    <3>1. Started(sel) \in Run
      BY DEF Started, Run
    <3>2. PICK i \in RunIds :
            /\ selections' = [selections EXCEPT ![sel] = i]
            /\ runs' = [runs EXCEPT ![i] = Started(sel)]
            /\ receivers' = [receivers EXCEPT ![s] = i]
      BY <2>2 DEF StartCold
    <3> QED
      BY <2>2, <3>1, <3>2 DEF StartCold, ClusterTypeOK, metricsVars
  <2> QED
    BY <1>3, <2>1, <2>2 DEF Subscribe
<1> QED
  BY <1>1, <1>2, <1>3

(* A step of the collectors keeps theirs. *)
LEMMA PollTypes ==
  ASSUME ClusterTypeOK,
         \/ \E i \in PollIds : PollStep(i) \/ TouchAges(i) \/ CancelCollector(i)
         \/ \E k \in Consumers : Answered(k) \/ Abandon(k)
         \/ \E k \in Consumers, c \in Clusters : Collect(k, c)
  PROVE  ClusterTypeOK'
<1>1. ASSUME NEW i \in PollIds, PollStep(i) \/ TouchAges(i) \/ CancelCollector(i)
      PROVE  ClusterTypeOK'
  <2>1. CASE PollBegins(i)
    BY <2>1, PollFields DEF PollBegins, ClusterTypeOK, watchVars
  <2>2. CASE PollEnds(i)
    <3>1. (polls[i].cut \/ Reached(i)) \in BOOLEAN
      OBVIOUS
    <3> QED
      BY <2>2, <3>1, PollFields DEF PollEnds, ClusterTypeOK, watchVars
  <2>3. CASE HoldEnds(i)
    BY <2>3, PollFields DEF HoldEnds, ClusterTypeOK, watchVars
  <2>4. CASE PollLeaves(i)
    BY <2>4, PollFields DEF PollLeaves, Forget, ClusterTypeOK, watchVars
  <2>5. CASE TouchAges(i)
    BY <2>5, PollFields DEF TouchAges, ClusterTypeOK, watchVars
  <2>6. CASE CancelCollector(i)
    BY <2>6, PollFields DEF CancelCollector, ClusterTypeOK, watchVars
  <2> QED
    BY <1>1, <2>1, <2>2, <2>3, <2>4, <2>5, <2>6 DEF PollStep
<1>2. ASSUME NEW k \in Consumers, Answered(k) \/ Abandon(k)
      PROVE  ClusterTypeOK'
  BY <1>2, PollFields DEF Answered, Abandon, ClusterTypeOK, watchVars
<1>3. ASSUME NEW k \in Consumers, NEW c \in Clusters, Collect(k, c)
      PROVE  ClusterTypeOK'
  <2>1. CASE TouchCollector(k, c)
    BY <2>1, PollFields DEF TouchCollector, ClusterTypeOK, watchVars
  <2>2. CASE StartCollector(k, c)
    <3>1. Spawned(c) \in Poll
      BY DEF Spawned, Poll
    <3>2. PICK i \in PollIds :
            /\ collectors' = [collectors EXCEPT ![c] = i]
            /\ polls' = [polls EXCEPT ![i] = Spawned(c)]
            /\ consumers' = [consumers EXCEPT ![k] = i]
      BY <2>2 DEF StartCollector
    <3> QED
      BY <2>2, <3>1, <3>2 DEF StartCollector, ClusterTypeOK, watchVars
  <2> QED
    BY <1>3, <2>1, <2>2 DEF Collect
<1> QED
  BY <1>1, <1>2, <1>3

(* So does a retirement. *)
LEMMA RetireTypes ==
  ASSUME ClusterTypeOK, NEW c \in Clusters, RetireContext(c)
  PROVE  ClusterTypeOK'
<1> DEFINE victims == {selections[sel] : sel \in {t \in Selectors : ContextOf[t] = c}} \ {0}
<1>1. victims \subseteq RunIds
  BY DEF ClusterTypeOK
<1>2. /\ selections' = [sel \in Selectors |-> IF ContextOf[sel] = c THEN 0 ELSE selections[sel]]
      /\ runs' = [i \in RunIds |-> IF i \in victims THEN [runs[i] EXCEPT !.doomed = TRUE]
                                                    ELSE runs[i]]
      /\ retired' = retired \cup victims
      /\ receivers' = receivers /\ consumers' = consumers
  BY DEF RetireContext, RetireSelections
<1> HIDE DEF victims
<1>3. collectors' \in [Clusters -> PollIds \cup {0}]
  BY PollFields DEF RetireContext, RetireCollector, ClusterTypeOK
<1>4. polls' \in [PollIds ->
       Poll]
  <2>1. CASE collectors[c] = 0
    BY <2>1, PollFields DEF RetireContext, RetireCollector, ClusterTypeOK
  <2>2. CASE collectors[c] # 0
    BY <2>2, PollFields DEF RetireContext, RetireCollector, ClusterTypeOK
  <2> QED
    BY <2>1, <2>2
<1>5. runs' \in [RunIds ->
       Run]
  <2> SUFFICES ASSUME NEW i \in RunIds
               PROVE  runs'[i] \in
                 Run
    BY <1>2
  <2>1. CASE i \in victims
    BY <1>2, <2>1, RunFields DEF ClusterTypeOK
  <2>2. CASE i \notin victims
    BY <1>2, <2>2 DEF ClusterTypeOK
  <2> QED
    BY <2>1, <2>2
<1> QED
  BY <1>1, <1>2, <1>3, <1>4, <1>5 DEF ClusterTypeOK

---------------------------------------------------------------------------
(* The invariant of the selections *)

LEMMA WatchInit == ClusterInit => WatchInv
  BY DEF ClusterInit, WatchInv, RegisteredGoesOn, GoingOnIsRegistered, ListensToRegistered,
         RetiredStarted, GoesOn, Unstarted

(* Steps that leave alone what the invariant reads. *)
LEMMA WatchUnchanged == WatchInv /\ UNCHANGED watchVars => WatchInv'
  BY DEF WatchInv, watchVars, RegisteredGoesOn, GoingOnIsRegistered, ListensToRegistered,
         RetiredStarted, GoesOn, Registered

(* A step that changes one entry in a way that does not let it go on less.   *)
LEMMA EntryTouched ==
  ASSUME ClusterTypeOK, WatchInv, NEW i \in RunIds,
         runs' \in [RunIds -> Run],
         receivers' \in [Subscribers -> RunIds \cup {0}],
         \A j \in RunIds \ {i} : runs'[j] = runs[j],
         runs'[i].selector = runs[i].selector,
         runs'[i].task # "none" \/ runs[i].task = "none",
         GoesOn(i)' <=> GoesOn(i),
         UNCHANGED <<selections, retired>>,
         \A s \in Subscribers : receivers'[s] \in {0, receivers[s]} \/ Registered(receivers'[s])
  PROVE  WatchInv'
<1> USE DEF ClusterTypeOK, WatchInv
<1>1. \A j \in RunIds : runs'[j].selector = runs[j].selector
  OBVIOUS
<1>2. \A j \in RunIds : GoesOn(j)' <=> GoesOn(j)
  BY DEF GoesOn
<1>3. \A j \in RunIds : Registered(j)' <=> Registered(j)
  BY <1>1 DEF Registered
<1>4. RegisteredGoesOn'
  BY <1>1, <1>2 DEF RegisteredGoesOn
<1>5. GoingOnIsRegistered'
  BY <1>2, <1>3 DEF GoingOnIsRegistered
<1>6. ListensToRegistered'
  <2> SUFFICES ASSUME NEW s \in Subscribers, receivers'[s] # 0, receivers'[s] \notin retired
               PROVE  Registered(receivers[s])'
    BY DEF ListensToRegistered
  <2>1. Registered(receivers'[s])
    BY DEF ListensToRegistered
  <2> QED
    BY <2>1, <1>1 DEF Registered
<1>7. RetiredStarted'
  BY DEF RetiredStarted
<1> QED
  BY <1>4, <1>5, <1>6, <1>7

(* Monitors, timers and tasks. *)
LEMMA WatchTasksKeep ==
  ASSUME ClusterTypeOK, ClusterTypeOK', WatchInv, NEW i \in RunIds,
         MonitorStep(i) \/ JoinAges(i) \/ TaskEnds(i) \/ CancelDoomed(i)
  PROVE  WatchInv'
<1> DEFINE Touched == /\ \A j \in RunIds \ {i} : runs'[j] = runs[j]
                      /\ runs'[i].selector = runs[i].selector
                      /\ runs'[i].task # "none" \/ runs[i].task = "none"
                      /\ GoesOn(i)' <=> GoesOn(i)
                      /\ UNCHANGED <<selections, retired, receivers>>
<1>1. Touched => WatchInv'
  BY EntryTouched DEF ClusterTypeOK
<1>2. CASE MonitorEnds(i)
  <2>1. ~GoesOn(i) /\ ~GoesOn(i)'
    BY <1>2 DEF MonitorEnds, ClusterTypeOK, Run, GoesOn
  <2> QED
    BY <1>1, <1>2, <2>1 DEF MonitorEnds, ClusterTypeOK, Run
<1>3. CASE MonitorSamples(i)
  BY <1>1, <1>3 DEF MonitorSamples, ClusterTypeOK, Run, GoesOn
<1>4. CASE EmptyLasts(i)
  BY <1>1, <1>4 DEF EmptyLasts, ClusterTypeOK, Run, GoesOn
<1>5. CASE MonitorRemoves(i)
  <2>1. CASE Removable(i)
    <3>1. /\ selections' = [selections EXCEPT ![runs[i].selector] = 0]
          /\ runs' = [runs EXCEPT ![i].monitor = "cancelling"]
          /\ UNCHANGED <<receivers, retired>>
      BY <1>5, <2>1 DEF MonitorRemoves
    <3>2. selections[runs[i].selector] = i /\ runs[i].selector \in Selectors
      BY <2>1 DEF Removable, Registered, ClusterTypeOK, Run
    <3>3. /\ \A j \in RunIds : runs'[j].selector = runs[j].selector /\ runs'[j].task = runs[j].task
          /\ \A j \in RunIds \ {i} : runs'[j] = runs[j]
          /\ ~GoesOn(i)'
      BY <3>1 DEF ClusterTypeOK, Run, GoesOn
    <3>4. \A j \in RunIds \ {i} : Registered(j)' <=> Registered(j)
      BY <3>1, <3>2, <3>3 DEF Registered, ClusterTypeOK, RunIds, Run
    <3>5. RegisteredGoesOn'
      <4> SUFFICES ASSUME NEW sel \in Selectors, selections'[sel] # 0
                   PROVE  /\ runs'[selections[sel]].selector = sel
                          /\ GoesOn(selections[sel])'
                          /\ selections[sel] \notin retired
                          /\ selections'[sel] = selections[sel]
        BY <3>1 DEF RegisteredGoesOn
      <4>1. sel # runs[i].selector /\ selections'[sel] = selections[sel]
        BY <3>1 DEF ClusterTypeOK
      <4>2. selections[sel] # 0 /\ selections[sel] # i /\ selections[sel] \in RunIds
        BY <4>1 DEF WatchInv, RegisteredGoesOn, ClusterTypeOK
      <4> QED
        BY <4>1, <4>2, <3>3 DEF WatchInv, RegisteredGoesOn, GoesOn
    <3>6. GoingOnIsRegistered'
      BY <3>3, <3>4 DEF WatchInv, GoingOnIsRegistered, GoesOn
    <3>7. ListensToRegistered'
      BY <2>1, <3>1, <3>4 DEF WatchInv, ListensToRegistered, Removable, Listening, ClusterTypeOK
    <3>8. RetiredStarted'
      BY <3>1, <3>3 DEF WatchInv, RetiredStarted, ClusterTypeOK
    <3> QED
      BY <3>5, <3>6, <3>7, <3>8 DEF WatchInv
  <2>2. CASE ~Removable(i)
    <3>1. /\ runs' = [runs EXCEPT ![i] = [@ EXCEPT !.monitor = "watching", !.empty = "unset"]]
          /\ runs[i].monitor = "removing"
          /\ UNCHANGED <<selections, retired, receivers>>
      BY <1>5, <2>2 DEF MonitorRemoves
    <3>2. Touched
      BY <3>1 DEF ClusterTypeOK, Run, GoesOn
    <3> QED
      BY <1>1, <3>2
  <2> QED
    BY <2>1, <2>2
<1>6. CASE MonitorCancels(i)
  BY <1>1, <1>6 DEF MonitorCancels, ClusterTypeOK, Run, GoesOn
<1>7. CASE JoinAges(i)
  BY <1>1, <1>7 DEF JoinAges, ClusterTypeOK, Run, GoesOn
<1>8. CASE TaskEnds(i)
  BY <1>1, <1>8 DEF TaskEnds, ClusterTypeOK, Run, GoesOn
<1>9. CASE CancelDoomed(i)
  BY <1>1, <1>9 DEF CancelDoomed, ClusterTypeOK, Run, GoesOn
<1> QED
  BY <1>2, <1>3, <1>4, <1>5, <1>6, <1>7, <1>8, <1>9 DEF MonitorStep

(* Subscribers that come and go. *)
LEMMA SubscribersKeep ==
  ASSUME ClusterTypeOK, ClusterTypeOK', WatchInv, NEW s \in Subscribers,
         SeeClosed(s) \/ Depart(s) \/ \E sel \in Selectors : Subscribe(s, sel)
  PROVE  WatchInv'
<1>1. CASE SeeClosed(s) \/ Depart(s)
  <2>1. /\ receivers' = [receivers EXCEPT ![s] = 0]
        /\ UNCHANGED <<selections, runs, retired>>
    BY <1>1 DEF SeeClosed, Depart
  <2>2. /\ RegisteredGoesOn' /\ GoingOnIsRegistered' /\ RetiredStarted'
    BY <2>1 DEF WatchInv, RegisteredGoesOn, GoingOnIsRegistered, RetiredStarted, GoesOn, Registered
  <2>3. ListensToRegistered'
    BY <2>1 DEF WatchInv, ListensToRegistered, Registered, ClusterTypeOK
  <2> QED
    BY <2>2, <2>3 DEF WatchInv
<1>2. ASSUME NEW sel \in Selectors, JoinWarm(s, sel)
      PROVE  WatchInv'
  <2>1. selections[sel] \in RunIds /\ Registered(selections[sel])
    BY <1>2 DEF JoinWarm, ClusterTypeOK, WatchInv, RegisteredGoesOn, Registered
  <2>2. /\ runs' = [runs EXCEPT ![selections[sel]].fresh = TRUE]
        /\ receivers' = [receivers EXCEPT ![s] = selections[sel]]
        /\ UNCHANGED <<selections, retired>>
    BY <1>2 DEF JoinWarm
  <2>3. /\ \A j \in RunIds \ {selections[sel]} : runs'[j] = runs[j]
        /\ runs'[selections[sel]].selector = runs[selections[sel]].selector
        /\ runs'[selections[sel]].task = runs[selections[sel]].task
        /\ GoesOn(selections[sel])' <=> GoesOn(selections[sel])
    BY <2>1, <2>2 DEF ClusterTypeOK, Run, GoesOn
  <2>4. \A x \in Subscribers :
          receivers'[x] \in {0, receivers[x]} \/ Registered(receivers'[x])
    BY <2>1, <2>2 DEF ClusterTypeOK
  <2> QED
    BY <2>1, <2>2, <2>3, <2>4, EntryTouched DEF ClusterTypeOK
<1>3. ASSUME NEW sel \in Selectors, StartCold(s, sel)
      PROVE  WatchInv'
  <2>1. PICK i \in RunIds :
          /\ NextRun(i)
          /\ selections' = [selections EXCEPT ![sel] = i]
          /\ runs' = [runs EXCEPT ![i] = Started(sel)]
          /\ receivers' = [receivers EXCEPT ![s] = i]
    BY <1>3 DEF StartCold
  <2>2. retired' = retired /\ selections[sel] = 0 /\ runs[i].task = "none"
    BY <1>3, <2>1 DEF StartCold, NextRun
  <2>3. i \notin retired /\ \A t \in Selectors : selections[t] # i
    BY <2>2 DEF WatchInv, RetiredStarted, RegisteredGoesOn, GoesOn, RunIds
  <2>4. /\ runs'[i].selector = sel /\ GoesOn(i)'
        /\ \A j \in RunIds \ {i} : runs'[j] = runs[j]
    BY <2>1 DEF Started, GoesOn, ClusterTypeOK
  <2>5. i # 0 /\ \A t \in Selectors \ {sel} : selections'[t] = selections[t]
    BY <2>1 DEF ClusterTypeOK, RunIds
  <2>6. selections'[sel] = i
    BY <2>1 DEF ClusterTypeOK
  <2>7. \A j \in RunIds \ {i} : Registered(j) => Registered(j)'
    BY <2>2, <2>4, <2>5 DEF Registered, ClusterTypeOK, Run, RunIds
  <2>8. RegisteredGoesOn'
    <3> SUFFICES ASSUME NEW t \in Selectors, selections'[t] # 0, t # sel
                 PROVE  /\ runs'[selections[t]].selector = t
                        /\ GoesOn(selections[t])'
                        /\ selections[t] \notin retired
      BY <2>2, <2>3, <2>4, <2>5, <2>6 DEF RegisteredGoesOn, GoesOn
    <3>1. selections[t] \in RunIds \ {i}
      BY <2>3, <2>5 DEF ClusterTypeOK
    <3> QED
      BY <3>1, <2>4, <2>5 DEF WatchInv, RegisteredGoesOn, GoesOn
  <2>9. GoingOnIsRegistered'
    BY <2>4, <2>6, <2>7 DEF WatchInv, GoingOnIsRegistered, GoesOn, Registered
  <2>10. ListensToRegistered'
    <3> SUFFICES ASSUME NEW x \in Subscribers, receivers'[x] # 0, receivers'[x] \notin retired
                 PROVE  Registered(receivers[x])'
      BY <2>2 DEF ListensToRegistered
    <3>1. CASE x = s
      BY <3>1, <2>1, <2>4, <2>6 DEF Registered, ClusterTypeOK
    <3>2. CASE x # s
      <4>1. receivers'[x] = receivers[x] /\ receivers[x] \in RunIds
        BY <3>2, <2>1 DEF ClusterTypeOK
      <4>2. Registered(receivers[x])
        BY <4>1 DEF WatchInv, ListensToRegistered
      <4>3. receivers[x] # i
        BY <4>1, <4>2, <2>3 DEF Registered, ClusterTypeOK, Run
      <4> QED
        BY <4>1, <4>2, <4>3, <2>7 DEF Registered
    <3> QED
      BY <3>1, <3>2
  <2>11. RetiredStarted'
    BY <2>2, <2>3, <2>4 DEF WatchInv, RetiredStarted, ClusterTypeOK
  <2> QED
    BY <2>8, <2>9, <2>10, <2>11 DEF WatchInv
<1> QED
  BY <1>1, <1>2, <1>3 DEF Subscribe

(* A retirement removes and dooms every selection of its context. *)
LEMMA RetireKeepsWatches ==
  ASSUME ClusterTypeOK, ClusterTypeOK', WatchInv, NEW c \in Clusters, RetireContext(c)
  PROVE  WatchInv'
<1> DEFINE victims == {selections[sel] : sel \in {t \in Selectors : ContextOf[t] = c}} \ {0}
<1>1. /\ selections' = [sel \in Selectors |-> IF ContextOf[sel] = c THEN 0 ELSE selections[sel]]
      /\ runs' = [i \in RunIds |-> IF i \in victims THEN [runs[i] EXCEPT !.doomed = TRUE]
                                                    ELSE runs[i]]
      /\ retired' = retired \cup victims
      /\ receivers' = receivers
  BY DEF RetireContext, RetireSelections
<1>2. \A i \in RunIds : i \in victims <=> Registered(i) /\ ContextOf[runs[i].selector] = c
  <2> SUFFICES ASSUME NEW i \in RunIds
               PROVE  i \in victims <=> Registered(i) /\ ContextOf[runs[i].selector] = c
    OBVIOUS
  <2>1. i # 0 /\ runs[i].selector \in Selectors
    BY DEF RunIds, ClusterTypeOK, Run
  <2>2. ASSUME NEW t \in Selectors, ContextOf[t] = c, selections[t] = i
        PROVE  Registered(i) /\ ContextOf[runs[i].selector] = c
    BY <2>1, <2>2 DEF WatchInv, RegisteredGoesOn, Registered
  <2>3. ASSUME Registered(i), ContextOf[runs[i].selector] = c
        PROVE  i \in victims
    BY <2>1, <2>3 DEF Registered
  <2> QED
    BY <2>2, <2>3
<1>3. victims \subseteq RunIds
  BY DEF ClusterTypeOK
<1> HIDE DEF victims
<1>4. \A i \in victims : ~GoesOn(i)' /\ runs'[i].selector = runs[i].selector
                                    /\ runs'[i].task = runs[i].task
  BY <1>1, <1>3 DEF GoesOn, ClusterTypeOK, Run
<1>5. \A i \in RunIds \ victims : runs'[i] = runs[i]
  BY <1>1
<1>6. \A i \in RunIds \ victims : Registered(i) => Registered(i)'
  BY <1>1, <1>2, <1>5 DEF Registered, ClusterTypeOK, Run
<1>7. RegisteredGoesOn'
  <2> SUFFICES ASSUME NEW sel \in Selectors, selections'[sel] # 0
               PROVE  /\ runs'[selections[sel]].selector = sel
                      /\ GoesOn(selections[sel])'
                      /\ selections[sel] \notin retired'
                      /\ selections'[sel] = selections[sel]
    BY <1>1 DEF RegisteredGoesOn
  <2>1. ContextOf[sel] # c /\ selections'[sel] = selections[sel]
    BY <1>1
  <2>2. selections[sel] \in RunIds \ victims
    BY <1>2, <2>1 DEF WatchInv, RegisteredGoesOn, ClusterTypeOK
  <2> QED
    BY <1>1, <1>5, <2>1, <2>2 DEF WatchInv, RegisteredGoesOn, GoesOn
<1>8. GoingOnIsRegistered'
  BY <1>4, <1>5, <1>6 DEF WatchInv, GoingOnIsRegistered, GoesOn
<1>9. ListensToRegistered'
  BY <1>1, <1>6 DEF WatchInv, ListensToRegistered, ClusterTypeOK
<1>10. RetiredStarted'
  <2>1. \A i \in victims : runs[i].task # "none"
    BY <1>2, <1>3 DEF WatchInv, RegisteredGoesOn, Registered, GoesOn, ClusterTypeOK, Run, RunIds
  <2> QED
    BY <1>1, <1>3, <1>4, <1>5, <2>1 DEF WatchInv, RetiredStarted, ClusterTypeOK
<1> QED
  BY <1>7, <1>8, <1>9, <1>10 DEF WatchInv

---------------------------------------------------------------------------
(* The invariant of the collectors *)

LEMMA PollInit == ClusterInit => PollInv
  BY DEF ClusterInit, PollInv, RegisteredCollects, CollectingIsRegistered, HoldersHaveCut,
         LeavingIsKnown, Idle

(* Steps that leave alone what the invariant reads. *)
LEMMA PollUnchanged == PollInv /\ UNCHANGED metricsVars => PollInv'
  BY DEF PollInv, metricsVars, RegisteredCollects, CollectingIsRegistered, HoldersHaveCut,
         LeavingIsKnown, Reached

(* What a step of a collector that stays registered does to its entry. *)
LEMMA PollEffect ==
  ASSUME ClusterTypeOK, PollInv, NEW i \in PollIds,
         \/ PollBegins(i) \/ PollEnds(i) \/ HoldEnds(i)
         \/ TouchAges(i) \/ CancelCollector(i)
  PROVE  /\ UNCHANGED <<collectors, consumers>>
         /\ \A j \in PollIds \ {i} : polls'[j] = polls[j]
         /\ polls'[i].context = polls[i].context
         /\ polls'[i].cancelled => polls[i].cancelled \/ polls[i].doomed
         /\ polls'[i].doomed => polls[i].doomed
         /\ polls'[i].pc \in {"none", "done"} => polls[i].pc = polls'[i].pc
         /\ polls'[i].pc \in {"starting", "polling", "holding"}
               /\ ~polls'[i].cancelled /\ ~polls'[i].doomed
             => /\ polls[i].pc \in {"starting", "polling", "holding"}
                /\ ~polls[i].cancelled /\ ~polls[i].doomed
         /\ polls'[i].pc = "holding" => polls'[i].cut
         /\ polls'[i].pc \in {"leaving", "done"} =>
               polls'[i].cut \/ polls'[i].cancelled \/ ~Reached(i)
<1> DEFINE Effect(r) ==
      /\ r.context = polls[i].context
      /\ r.cancelled => polls[i].cancelled \/ polls[i].doomed
      /\ r.doomed => polls[i].doomed
      /\ r.pc \in {"none", "done"} => polls[i].pc = r.pc
      /\ r.pc \in {"starting", "polling", "holding"} /\ ~r.cancelled /\ ~r.doomed
          => /\ polls[i].pc \in {"starting", "polling", "holding"}
             /\ ~polls[i].cancelled /\ ~polls[i].doomed
      /\ r.pc = "holding" => r.cut
      /\ r.pc \in {"leaving", "done"} => r.cut \/ r.cancelled \/ ~Reached(i)
<1>1. polls[i] \in Poll /\ polls \in [PollIds -> Poll]
  BY DEF ClusterTypeOK
<1>2. /\ polls[i].pc = "holding" => polls[i].cut
      /\ polls[i].pc \in {"leaving", "done"} =>
           polls[i].cut \/ polls[i].cancelled \/ ~Reached(i)
  BY DEF PollInv, HoldersHaveCut, LeavingIsKnown
<1>3. CASE PollBegins(i)
  <2>1. PICK v \in {"leaving", "polling"} :
          /\ polls' = [polls EXCEPT ![i] = [polls[i] EXCEPT !.pc = v]]
          /\ v = "leaving" => polls[i].cancelled
    BY <1>3 DEF PollBegins
  <2>2. Effect([polls[i] EXCEPT !.pc = v])
    BY <1>1, <1>3, <2>1 DEF Poll, PollBegins
  <2> QED
    BY <1>1, <1>3, <2>1, <2>2 DEF PollBegins, watchVars
<1>4. CASE PollEnds(i)
  <2>1. CASE Reached(i)
    <3>1. Effect([polls[i] EXCEPT !.pc = "holding", !.cut = TRUE])
      BY <1>1, <1>4 DEF Poll, PollEnds
    <3> QED
      BY <1>1, <1>4, <2>1, <3>1 DEF PollEnds
  <2>2. CASE ~Reached(i)
    <3>1. Effect([polls[i] EXCEPT !.pc = "leaving"])
      BY <1>1, <2>2 DEF Poll
    <3> QED
      BY <1>1, <1>4, <2>2, <3>1 DEF PollEnds
  <2> QED
    BY <2>1, <2>2
<1>5. CASE HoldEnds(i)
  <2>1. PICK v \in {"leaving", "polling"} :
          polls' = [polls EXCEPT ![i] = [polls[i] EXCEPT !.pc = v]]
    BY <1>5 DEF HoldEnds
  <2>2. Effect([polls[i] EXCEPT !.pc = v])
    BY <1>1, <1>2, <1>5 DEF Poll, HoldEnds
  <2> QED
    BY <1>1, <1>5, <2>1, <2>2 DEF HoldEnds
<1>6. CASE TouchAges(i)
  <2>1. Effect([polls[i] EXCEPT !.fresh = FALSE])
    BY <1>1, <1>2 DEF Poll
  <2> QED
    BY <1>1, <1>6, <2>1 DEF TouchAges
<1>7. CASE CancelCollector(i)
  <2>1. Effect([polls[i] EXCEPT !.doomed = FALSE, !.cancelled = TRUE])
    BY <1>1, <1>2, <1>7 DEF Poll, CancelCollector
  <2> QED
    BY <1>1, <1>7, <2>1 DEF CancelCollector
<1> QED
  BY <1>3, <1>4, <1>5, <1>6, <1>7

(* Consumers that come and go, and polls that age and end. *)
LEMMA PollsKeep ==
  ASSUME ClusterTypeOK, ClusterTypeOK', PollInv, NEW i \in PollIds,
         PollStep(i) \/ TouchAges(i) \/ CancelCollector(i)
  PROVE  PollInv'
<1>1. CASE PollLeaves(i)
  <2>1. /\ polls' = [polls EXCEPT ![i].pc = "done"]
        /\ polls[i].pc = "leaving"
        /\ consumers' = consumers
        /\ collectors' = Forget(i)
    BY <1>1 DEF PollLeaves
  <2>2. /\ \A j \in PollIds \ {i} : polls'[j] = polls[j]
        /\ \A j \in PollIds : polls'[j].context = polls[j].context
        /\ polls'[i].pc = "done" /\ polls'[i].cut = polls[i].cut
        /\ polls'[i].cancelled = polls[i].cancelled
    BY <2>1 DEF ClusterTypeOK, Poll
  <2>3. \A c \in Clusters : collectors[c] = i => polls[i].context = c
    BY DEF PollInv, RegisteredCollects, PollIds
  <2>4. \A c \in Clusters : collectors'[c] = IF collectors[c] = i THEN 0 ELSE collectors[c]
    BY <2>1, <2>3 DEF Forget, ClusterTypeOK
  <2>5. \A j \in PollIds : polls[j].context \in Clusters /\ j # 0
    BY DEF ClusterTypeOK, Poll, PollIds
  <2>6. \A j \in PollIds : Reached(j)' => Reached(j)
    BY <2>1, <2>2, <2>4, <2>5 DEF Reached
  <2>7. RegisteredCollects'
    <3> SUFFICES ASSUME NEW c \in Clusters, collectors'[c] # 0
                 PROVE  /\ polls'[collectors[c]].context = c
                        /\ polls'[collectors[c]].pc \notin {"none", "done"}
                        /\ ~polls'[collectors[c]].doomed /\ ~polls'[collectors[c]].cancelled
                        /\ collectors'[c] = collectors[c]
      BY DEF RegisteredCollects
    <3>1. collectors[c] # i /\ collectors'[c] = collectors[c] /\ collectors[c] \in PollIds
      BY <2>4 DEF ClusterTypeOK
    <3> QED
      BY <2>2, <3>1 DEF PollInv, RegisteredCollects
  <2>8. CollectingIsRegistered'
    BY <2>2, <2>4, <2>5 DEF PollInv, CollectingIsRegistered
  <2>9. HoldersHaveCut' /\ LeavingIsKnown'
    BY <2>1, <2>2, <2>6 DEF PollInv, HoldersHaveCut, LeavingIsKnown
  <2> QED
    BY <2>7, <2>8, <2>9 DEF PollInv
<1>2. CASE ~PollLeaves(i)
  <2>1. \/ PollBegins(i) \/ PollEnds(i) \/ HoldEnds(i)
        \/ TouchAges(i) \/ CancelCollector(i)
    BY <1>2 DEF PollStep
  <2>2. /\ UNCHANGED <<collectors, consumers>>
        /\ \A j \in PollIds \ {i} : polls'[j] = polls[j]
        /\ polls'[i].context = polls[i].context
        /\ polls'[i].cancelled => polls[i].cancelled \/ polls[i].doomed
        /\ polls'[i].doomed => polls[i].doomed
        /\ polls'[i].pc \in {"none", "done"} => polls[i].pc = polls'[i].pc
        /\ polls'[i].pc \in {"starting", "polling", "holding"}
              /\ ~polls'[i].cancelled /\ ~polls'[i].doomed
            => /\ polls[i].pc \in {"starting", "polling", "holding"}
               /\ ~polls[i].cancelled /\ ~polls[i].doomed
        /\ polls'[i].pc = "holding" => polls'[i].cut
        /\ polls'[i].pc \in {"leaving", "done"} =>
              polls'[i].cut \/ polls'[i].cancelled \/ ~Reached(i)
    BY <2>1, PollEffect
  <2>3. \A j \in PollIds : Reached(j)' <=> Reached(j)
    BY <2>2 DEF Reached
  <2>4. RegisteredCollects'
    <3>1. \A c \in Clusters : collectors[c] # 0 => collectors[c] \in PollIds
      BY DEF ClusterTypeOK
    <3> QED
      BY <2>2, <3>1 DEF PollInv, RegisteredCollects
  <2>5. CollectingIsRegistered'
    BY <2>2 DEF PollInv, CollectingIsRegistered
  <2>6. HoldersHaveCut' /\ LeavingIsKnown'
    BY <2>2, <2>3 DEF PollInv, HoldersHaveCut, LeavingIsKnown
  <2> QED
    BY <2>4, <2>5, <2>6 DEF PollInv
<1> QED
  BY <1>1, <1>2

LEMMA ConsumersKeep ==
  ASSUME ClusterTypeOK, ClusterTypeOK', PollInv, NEW k \in Consumers,
         Answered(k) \/ Abandon(k) \/ \E c \in Clusters : Collect(k, c)
  PROVE  PollInv'
<1>1. CASE Answered(k) \/ Abandon(k)
  <2>1. /\ consumers' = [consumers EXCEPT ![k] = 0]
        /\ UNCHANGED <<collectors, polls>>
    BY <1>1 DEF Answered, Abandon
  <2>2. \A j \in PollIds : Reached(j)' => Reached(j)
    BY <2>1 DEF Reached, ClusterTypeOK, PollIds
  <2>3. RegisteredCollects' /\ CollectingIsRegistered' /\ HoldersHaveCut'
    BY <2>1 DEF PollInv, RegisteredCollects, CollectingIsRegistered, HoldersHaveCut
  <2>4. LeavingIsKnown'
    BY <2>1, <2>2 DEF PollInv, LeavingIsKnown
  <2> QED
    BY <2>3, <2>4 DEF PollInv
<1>2. ASSUME NEW c \in Clusters, TouchCollector(k, c)
      PROVE  PollInv'
  <2> DEFINE i == collectors[c]
  <2>1. /\ i \in PollIds /\ polls[i].context = c
        /\ polls[i].pc \notin {"none", "done"}
        /\ ~polls[i].doomed /\ ~polls[i].cancelled
    BY <1>2 DEF TouchCollector, PollInv, RegisteredCollects, ClusterTypeOK
  <2>2. /\ polls' = [polls EXCEPT ![i].fresh = TRUE]
        /\ consumers' = [consumers EXCEPT ![k] = IF polls[i].cut THEN 0 ELSE i]
        /\ collectors' = collectors
    BY <1>2 DEF TouchCollector
  <2> HIDE DEF i
  <2>3. /\ \A j \in PollIds \ {i} : polls'[j] = polls[j]
        /\ \A j \in PollIds : /\ polls'[j].context = polls[j].context
                              /\ polls'[j].pc = polls[j].pc
                              /\ polls'[j].cut = polls[j].cut
                              /\ polls'[j].doomed = polls[j].doomed
                              /\ polls'[j].cancelled = polls[j].cancelled
    BY <2>1, <2>2 DEF ClusterTypeOK, Poll
  <2>4. \A j \in PollIds : Reached(j)' => Reached(j)
    BY <2>1, <2>2, <2>3 DEF Reached, ClusterTypeOK, i, PollIds
  <2>5. RegisteredCollects'
    <3>1. \A d \in Clusters : collectors[d] # 0 => collectors[d] \in PollIds
      BY DEF ClusterTypeOK
    <3> QED
      BY <2>2, <2>3, <3>1 DEF PollInv, RegisteredCollects
  <2>6. CollectingIsRegistered' /\ HoldersHaveCut'
    BY <2>2, <2>3 DEF PollInv, CollectingIsRegistered, HoldersHaveCut
  <2>7. LeavingIsKnown'
    BY <2>2, <2>3, <2>4 DEF PollInv, LeavingIsKnown
  <2> QED
    BY <2>5, <2>6, <2>7 DEF PollInv
<1>3. ASSUME NEW c \in Clusters, StartCollector(k, c)
      PROVE  PollInv'
  <2>1. PICK i \in PollIds :
          /\ NextPoll(i)
          /\ collectors' = [collectors EXCEPT ![c] = i]
          /\ polls' = [polls EXCEPT ![i] = Spawned(c)]
          /\ consumers' = [consumers EXCEPT ![k] = i]
    BY <1>3 DEF StartCollector
  <2>2. collectors[c] = 0 /\ polls[i].pc = "none" /\ i # 0
    BY <1>3, <2>1 DEF StartCollector, NextPoll, PollIds
  <2>3. /\ \A j \in PollIds \ {i} : polls'[j] = polls[j]
        /\ polls'[i] = Spawned(c)
        /\ \A d \in Clusters : collectors'[d] = IF d = c THEN i ELSE collectors[d]
        /\ \A d \in Clusters : collectors[d] # i
    BY <2>1, <2>2 DEF ClusterTypeOK, PollInv, RegisteredCollects
  <2>4. /\ polls'[i].context = c /\ polls'[i].pc = "starting"
        /\ ~polls'[i].doomed /\ ~polls'[i].cancelled
    BY <2>3 DEF Spawned
  <2>5. \A j \in PollIds \ {i} : polls[j].context \in Clusters /\ j # 0
    BY DEF ClusterTypeOK, Poll, PollIds
  <2>6. \A j \in PollIds \ {i} : Reached(j)' => Reached(j)
    BY <2>1, <2>3, <2>5 DEF Reached, ClusterTypeOK
  <2>7. RegisteredCollects'
    <3>1. \A d \in Clusters : collectors[d] # 0 => collectors[d] \in PollIds
      BY DEF ClusterTypeOK
    <3> QED
      BY <2>3, <2>4, <3>1 DEF PollInv, RegisteredCollects
  <2>8. CollectingIsRegistered'
    BY <2>2, <2>3, <2>4, <2>5 DEF PollInv, CollectingIsRegistered
  <2>9. HoldersHaveCut'
    BY <2>3, <2>4 DEF PollInv, HoldersHaveCut
  <2>10. LeavingIsKnown'
    BY <2>3, <2>4, <2>6 DEF PollInv, LeavingIsKnown
  <2> QED
    BY <2>7, <2>8, <2>9, <2>10 DEF PollInv
<1> QED
  BY <1>1, <1>2, <1>3 DEF Collect

LEMMA RetireKeepsPolls ==
  ASSUME ClusterTypeOK, ClusterTypeOK', PollInv, NEW c \in Clusters, RetireContext(c)
  PROVE  PollInv'
<1> DEFINE i == collectors[c]
<1>1. /\ consumers' = consumers
      /\ \A d \in Clusters : collectors'[d] = IF d = c THEN 0 ELSE collectors[d]
      /\ polls' = IF i = 0 THEN polls ELSE [polls EXCEPT ![i].doomed = TRUE]
  BY DEF RetireContext, RetireCollector, ClusterTypeOK
<1>2. i # 0 => i \in PollIds /\ polls[i].context = c
  BY DEF PollInv, RegisteredCollects, ClusterTypeOK
<1>3. \A d \in Clusters \ {c} : collectors[d] # 0 => collectors[d] # i /\ collectors[d] \in PollIds
  BY <1>2 DEF PollInv, RegisteredCollects, ClusterTypeOK
<1>4. \A j \in PollIds : /\ polls'[j].context = polls[j].context
                         /\ polls'[j].pc = polls[j].pc
                         /\ polls'[j].cut = polls[j].cut
                         /\ polls'[j].cancelled = polls[j].cancelled
                         /\ j # i => polls'[j] = polls[j]
                         /\ j = i => polls'[j].doomed
                         /\ polls[j].context \in Clusters /\ j # 0
  BY <1>1, <1>2 DEF ClusterTypeOK, Poll, PollIds
<1> HIDE DEF i
<1>5. \A j \in PollIds : Reached(j)' => Reached(j)
  BY <1>1, <1>4 DEF Reached
<1>6. RegisteredCollects'
  BY <1>1, <1>3, <1>4 DEF PollInv, RegisteredCollects
<1>7. CollectingIsRegistered'
  <2>1. \A j \in PollIds \ {i} : polls[j].context = c => collectors[c] # j
    BY DEF i
  <2> QED
    BY <1>1, <1>4, <2>1 DEF PollInv, CollectingIsRegistered
<1>8. HoldersHaveCut' /\ LeavingIsKnown'
  BY <1>4, <1>5 DEF PollInv, HoldersHaveCut, LeavingIsKnown
<1> QED
  BY <1>6, <1>7, <1>8 DEF PollInv

---------------------------------------------------------------------------
(* The theorems *)

LEMMA ClusterInductive == ClusterInv /\ [ClusterNext]_clusterVars => ClusterInv'
<1> SUFFICES ASSUME ClusterTypeOK, WatchInv, PollInv, [ClusterNext]_clusterVars
             PROVE  ClusterInv'
  BY DEF ClusterInv
<1>1. ASSUME NEW i \in RunIds,
             MonitorStep(i) \/ JoinAges(i) \/ TaskEnds(i) \/ CancelDoomed(i)
      PROVE  ClusterInv'
  <2>1. ClusterTypeOK'
    BY <1>1, WatchTypes
  <2>2. UNCHANGED metricsVars
    BY <1>1 DEF MonitorStep, MonitorEnds, MonitorSamples, EmptyLasts, MonitorRemoves,
                MonitorCancels, JoinAges, TaskEnds, CancelDoomed, metricsVars
  <2> QED
    BY <1>1, <2>1, <2>2, WatchTasksKeep, PollUnchanged DEF ClusterInv
<1>2. ASSUME NEW s \in Subscribers,
             SeeClosed(s) \/ Depart(s) \/ \E sel \in Selectors : Subscribe(s, sel)
      PROVE  ClusterInv'
  <2>1. ClusterTypeOK'
    BY <1>2, WatchTypes
  <2>2. UNCHANGED metricsVars
    BY <1>2 DEF SeeClosed, Depart, Subscribe, JoinWarm, StartCold, metricsVars
  <2> QED
    BY <1>2, <2>1, <2>2, SubscribersKeep, PollUnchanged DEF ClusterInv
<1>3. ASSUME NEW i \in PollIds, PollStep(i) \/ TouchAges(i) \/ CancelCollector(i)
      PROVE  ClusterInv'
  <2>1. ClusterTypeOK'
    BY <1>3, PollTypes
  <2>2. UNCHANGED watchVars
    BY <1>3 DEF PollStep, PollBegins, PollEnds, HoldEnds, PollLeaves, TouchAges, CancelCollector,
                watchVars
  <2> QED
    BY <1>3, <2>1, <2>2, PollsKeep, WatchUnchanged DEF ClusterInv
<1>4. ASSUME NEW k \in Consumers,
             Answered(k) \/ Abandon(k) \/ \E c \in Clusters : Collect(k, c)
      PROVE  ClusterInv'
  <2>1. ClusterTypeOK'
    BY <1>4, PollTypes
  <2>2. UNCHANGED watchVars
    BY <1>4 DEF Answered, Abandon, Collect, TouchCollector, StartCollector, watchVars
  <2> QED
    BY <1>4, <2>1, <2>2, ConsumersKeep, WatchUnchanged DEF ClusterInv
<1>5. ASSUME NEW c \in Clusters, RetireContext(c)
      PROVE  ClusterInv'
  BY <1>5, RetireTypes, RetireKeepsWatches, RetireKeepsPolls DEF ClusterInv
<1>6. CASE UNCHANGED clusterVars
  <2>1. ClusterTypeOK'
    BY <1>6 DEF clusterVars, ClusterTypeOK
  <2> QED
    BY <1>6, <2>1, WatchUnchanged, PollUnchanged DEF clusterVars, watchVars, metricsVars, ClusterInv
<1> QED
  BY <1>1, <1>2, <1>3, <1>4, <1>5, <1>6 DEF ClusterNext, ClusterStep

LEMMA ClusterInvHolds == ClusterSpec => []ClusterInv
<1>1. ClusterInit => ClusterInv
  BY InitTypes, WatchInit, PollInit DEF ClusterInv
<1> QED
  BY <1>1, ClusterInductive, PTL DEF ClusterSpec

(* Every entry of both registries refers to a selection or collector that was *)
(* started (runtime/cluster.rs).                                              *)
THEOREM ClusterTypeCorrect == ClusterSpec => []ClusterTypeOK
<1>1. ClusterInv => ClusterTypeOK
  BY DEF ClusterInv
<1> QED
  BY <1>1, ClusterInvHolds, PTL

(* Nobody is left on a dying selection or collector, and nothing runs that the *)
(* registries cannot find: remove_if_current_and_empty and remove_if_current   *)
(* decide under the lock under which others join.                              *)
THEOREM ClusterAlwaysServes == ClusterSpec => []ClusterServes
<1>1. ClusterInv => ClusterServes
  <2> SUFFICES ASSUME ClusterTypeOK, WatchInv, PollInv PROVE ClusterServes
    BY DEF ClusterInv
  <2>1. NoLostSelection
    BY DEF NoLostSelection, WatchInv, GoingOnIsRegistered, GoesOn
  <2>2. SubscribersServed
    <3> SUFFICES ASSUME NEW s \in Subscribers, receivers[s] # 0, receivers[s] \notin retired
                 PROVE  /\ Registered(receivers[s])
                        /\ GoesOn(receivers[s])
      BY DEF SubscribersServed, GoesOn
    <3>1. Registered(receivers[s]) /\ receivers[s] \in RunIds
      BY DEF WatchInv, ListensToRegistered, ClusterTypeOK
    <3> QED
      BY <3>1 DEF WatchInv, RegisteredGoesOn, Registered, ClusterTypeOK, Run
  <2>3. NoLostCollector
    BY DEF NoLostCollector, PollInv, CollectingIsRegistered, LeavingIsKnown, Reached, ClusterTypeOK
  <2> QED
    BY <2>1, <2>2, <2>3 DEF ClusterServes
<1> QED
  BY <1>1, ClusterInvHolds, PTL
=============================================================================
