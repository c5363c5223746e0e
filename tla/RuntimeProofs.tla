----------------------------- MODULE RuntimeProofs -----------------------------
(* Proofs about the life of a server's sockets and its end (ServerLifecycle), *)
(* and about MCRuntime, which puts it together with what lives on beside the  *)
(* connections.                                                               *)
EXTENDS MCRuntime, ClusterProofs, RegistryProofs

---------------------------------------------------------------------------
(* The inductive invariant *)

(* The barrier and the first signal come with the end of service and stay. *)
Closing == (coordinator # "serving" <=> barrier) /\ (signals = {} <=> ~barrier)

(* An id names a running task of that id. *)
NamesOwn(names, running) ==
  \A id \in RequestIds : names[id] # NoTask =>
    running[names[id]] # NoTask /\ running[names[id]].id = id

(* Of several tasks of one id only the last is without a mark: each but the  *)
(* first was dispatched as a reuse, each but the last was cancelled with it,  *)
(* or had lost its name to the end of another.                                *)
OneUnmarked(running) ==
  \A n, m \in Slots :
    n # m /\ running[n] # NoTask /\ running[m] # NoTask /\ running[n].id = running[m].id
      => running[n].cancelled \/ running[n].reused

Reachable(names, running) ==
  \A n \in Slots : running[n] # NoTask =>
    running[n].cancelled \/ running[n].reused \/ names[running[n].id] = n

TableOK(names, running) ==
  /\ names \in [RequestIds -> Slots \cup {NoTask}]
  /\ running \in [Slots -> RequestTask \cup {NoTask}]
  /\ NamesOwn(names, running) /\ OneUnmarked(running) /\ Reachable(names, running)

LifecycleInv ==
  LifecycleTypeOK /\ Closing /\ DrainVerdictSound /\ \A s \in Sessions : TableOK(requests[s], tasks[s])

---------------------------------------------------------------------------
(* The table of the requests of one session *)

(* What a cancel does to a task. *)
LEMMA CancelledTask ==
  \A t \in RequestTask :
    /\ [t EXCEPT !.cancelled = TRUE] \in RequestTask
    /\ [t EXCEPT !.cancelled = TRUE].id = t.id
    /\ [t EXCEPT !.cancelled = TRUE].cancelled
    /\ [t EXCEPT !.cancelled = TRUE].reused = t.reused
BY DEF RequestTask

(* A task is not the mark of an empty slot. *)
LEMMA TasksAreTasks == NoTask \notin RequestTask /\ NoTask \notin Slots
BY LifecycleAssumption DEF RequestTask

(* A session begins and ends without requests. *)
LEMMA TableEmpty == TableOK([id \in RequestIds |-> NoTask], [n \in Slots |-> NoTask])
BY DEF TableOK, NamesOwn, OneUnmarked, Reachable

(* A task that comes in takes its id, and cancels the one that had it. *)
LEMMA TableDispatch ==
  ASSUME NEW names, NEW running, TableOK(names, running), NEW n \in Slots, running[n] = NoTask,
         NEW id \in RequestIds, NEW new \in RequestTask, new.id = id,
         new.reused <=> \E m \in Slots : running[m] # NoTask /\ running[m].id = id,
         NEW after,
         after = [m \in Slots |->
                    CASE m = n -> new
                      [] m = names[id] -> [running[m] EXCEPT !.cancelled = TRUE]
                      [] OTHER -> running[m]]
  PROVE  TableOK([names EXCEPT ![id] = n], after)
<1> DEFINE named == [names EXCEPT ![id] = n]
<1>1. /\ names \in [RequestIds -> Slots \cup {NoTask}]
      /\ running \in [Slots -> RequestTask \cup {NoTask}]
      /\ NamesOwn(names, running) /\ OneUnmarked(running) /\ Reachable(names, running)
  BY DEF TableOK
<1>2. new \in RequestTask /\ new.id = id /\ new # NoTask
        /\ (new.reused <=> \E m \in Slots : running[m] # NoTask /\ running[m].id = id)
  BY TasksAreTasks
<1>3. names[id] # n
  BY <1>1, TasksAreTasks DEF NamesOwn
<1>4. after[n] = new
  BY <1>3
<1>5. ASSUME NEW m \in Slots, m # n
      PROVE  /\ after[m] \in RequestTask \cup {NoTask}
             /\ after[m] = NoTask <=> running[m] = NoTask
             /\ running[m] # NoTask =>
                  /\ after[m].id = running[m].id /\ after[m].reused = running[m].reused
                  /\ running[m].cancelled => after[m].cancelled
                  /\ m = names[id] => after[m].cancelled
  <2>1. CASE m = names[id]
    <3>1. after[m] = [running[m] EXCEPT !.cancelled = TRUE]
      BY <1>5, <2>1
    <3>2. running[m] \in RequestTask
      BY <1>1, <2>1, TasksAreTasks DEF NamesOwn
    <3> QED BY <2>1, <3>1, <3>2, CancelledTask, TasksAreTasks
  <2>2. CASE m # names[id]
    <3>1. after[m] = running[m]
      BY <1>5, <2>2
    <3> QED BY <1>1, <2>2, <3>1
  <2> QED BY <2>1, <2>2
<1>6. /\ named \in [RequestIds -> Slots \cup {NoTask}] /\ named[id] = n
      /\ \A i \in RequestIds : i # id => named[i] = names[i]
  BY <1>1
<1>7. after \in [Slots -> RequestTask \cup {NoTask}]
  <2>1. ASSUME NEW m \in Slots PROVE after[m] \in RequestTask \cup {NoTask}
    <3>1. CASE m = n
      BY <1>2, <1>4, <3>1
    <3>2. CASE m # n
      BY <1>5, <3>2
    <3> QED BY <3>1, <3>2
  <2>2. after = [m \in Slots |-> after[m]]
    OBVIOUS
  <2> HIDE DEF named
  <2> QED BY <2>1, <2>2
<1> HIDE DEF named
<1>8. NamesOwn(named, after)
  <2> SUFFICES ASSUME NEW i \in RequestIds, named[i] # NoTask
               PROVE  after[named[i]] # NoTask /\ after[named[i]].id = i
    BY DEF NamesOwn
  <2>1. CASE i = id
    BY <1>2, <1>4, <1>6, <2>1
  <2>2. CASE i # id
    <3>1. /\ named[i] = names[i] /\ names[i] \in Slots
          /\ running[names[i]] # NoTask /\ running[names[i]].id = i
      BY <1>1, <1>6, <2>2 DEF NamesOwn
    <3>2. names[i] # n
      BY <3>1
    <3> QED BY <1>5, <3>1, <3>2
  <2> QED BY <2>1, <2>2
<1>9. OneUnmarked(after)
  <2> SUFFICES ASSUME NEW k \in Slots, NEW m \in Slots, k # m, after[k] # NoTask,
                      after[m] # NoTask, after[k].id = after[m].id
               PROVE  after[k].cancelled \/ after[k].reused
    BY DEF OneUnmarked
  <2>1. CASE k = n
    <3>1. running[m] # NoTask /\ running[m].id = id
      <4>1. m # n /\ running[m] # NoTask /\ after[m].id = running[m].id
        BY <1>5, <2>1
      <4>2. after[k].id = id
        BY ONLY <1>2, <1>4, <2>1
      <4>. QED
        BY <4>1, <4>2
    <3> QED BY <1>2, <1>4, <2>1, <3>1
  <2>2. CASE m = n
    <3>1. running[k] # NoTask /\ running[k].id = id
      <4>1. k # n /\ running[k] # NoTask /\ after[k].id = running[k].id
        BY <1>5, <2>2
      <4>2. after[m].id = id
        BY ONLY <1>2, <1>4, <2>2
      <4>. QED
        BY <4>1, <4>2
    <3>2. running[k].cancelled \/ running[k].reused \/ names[id] = k
      BY <1>1, <3>1 DEF Reachable
    <3> QED BY <1>5, <2>2, <3>1, <3>2
  <2>3. CASE k # n /\ m # n
    <3>1. running[k].cancelled \/ running[k].reused
      BY <1>1, <1>5, <2>3 DEF OneUnmarked
    <3> QED BY <1>5, <2>3, <3>1
  <2> QED BY <2>1, <2>2, <2>3
<1>10. Reachable(named, after)
  <2> SUFFICES ASSUME NEW k \in Slots, after[k] # NoTask
               PROVE  after[k].cancelled \/ after[k].reused \/ named[after[k].id] = k
    BY DEF Reachable
  <2>1. CASE k = n
    BY <1>2, <1>4, <1>6, <2>1
  <2>2. CASE k # n
    <3>1. running[k] # NoTask /\ running[k] \in RequestTask /\ after[k].id = running[k].id
      BY <1>1, <1>5, <2>2
    <3>2. running[k].cancelled \/ running[k].reused \/ names[running[k].id] = k
      BY <1>1, <3>1 DEF Reachable
    <3>3. running[k].id \in RequestIds
      BY <3>1 DEF RequestTask
    <3> QED BY <1>5, <1>6, <2>2, <3>1, <3>2, <3>3
  <2> QED BY <2>1, <2>2
<1> QED BY <1>6, <1>7, <1>8, <1>9, <1>10 DEF TableOK, named

(* Cancels keep the table: ids and reuses stay, no name moves. *)
LEMMA TableCancel ==
  ASSUME NEW names, NEW running, TableOK(names, running), NEW after,
         after \in [Slots -> RequestTask \cup {NoTask}],
         \A m \in Slots :
           /\ after[m] = NoTask <=> running[m] = NoTask
           /\ running[m] # NoTask =>
                /\ after[m].id = running[m].id /\ after[m].reused = running[m].reused
                /\ running[m].cancelled => after[m].cancelled
  PROVE  TableOK(names, after)
<1>1. NamesOwn(names, after)
  BY DEF TableOK, NamesOwn
<1>2. OneUnmarked(after)
  BY DEF TableOK, OneUnmarked
<1>3. Reachable(names, after)
  BY DEF TableOK, Reachable
<1> QED BY <1>1, <1>2, <1>3 DEF TableOK

(* The end of a task frees its id, whatever that names: another task that    *)
(* loses its name so carries a mark.                                          *)
LEMMA TableEnd ==
  ASSUME NEW names, NEW running, TableOK(names, running), NEW n \in Slots, running[n] # NoTask
  PROVE  TableOK([names EXCEPT ![running[n].id] = NoTask], [running EXCEPT ![n] = NoTask])
<1> DEFINE id == running[n].id
           named == [names EXCEPT ![id] = NoTask]
           after == [running EXCEPT ![n] = NoTask]
<1>1. /\ names \in [RequestIds -> Slots \cup {NoTask}]
      /\ running \in [Slots -> RequestTask \cup {NoTask}]
      /\ NamesOwn(names, running) /\ OneUnmarked(running) /\ Reachable(names, running)
  BY DEF TableOK
<1>2. id \in RequestIds
  BY <1>1 DEF RequestTask
<1> HIDE DEF id
<1>3. /\ named \in [RequestIds -> Slots \cup {NoTask}] /\ named[id] = NoTask
      /\ \A i \in RequestIds : i # id => named[i] = names[i]
  BY <1>1, <1>2
<1>4. /\ after \in [Slots -> RequestTask \cup {NoTask}] /\ after[n] = NoTask
      /\ \A m \in Slots : m # n => after[m] = running[m]
  BY <1>1
<1> HIDE DEF named, after
<1>5. NamesOwn(named, after)
  BY <1>1, <1>3, <1>4 DEF NamesOwn, id
<1>6. OneUnmarked(after)
  BY <1>1, <1>4 DEF OneUnmarked
<1>7. Reachable(named, after)
  <2> SUFFICES ASSUME NEW k \in Slots, after[k] # NoTask
               PROVE  after[k].cancelled \/ after[k].reused \/ named[after[k].id] = k
    BY DEF Reachable
  <2>1. k # n /\ after[k] = running[k] /\ running[k].id \in RequestIds
    BY <1>1, <1>4 DEF RequestTask
  <2>2. running[k].id = id => running[k].cancelled \/ running[k].reused
    BY <1>1, <2>1 DEF OneUnmarked, id
  <2> QED BY <1>1, <1>3, <2>1, <2>2 DEF Reachable
<1> QED BY <1>3, <1>4, <1>5, <1>6, <1>7 DEF TableOK, named, after, id

---------------------------------------------------------------------------
(* The sockets *)

(* What a step of one socket must keep.  Once the server has drained, none    *)
(* may come to life.                                                          *)
LEMMA SocketChange ==
  ASSUME LifecycleInv, UNCHANGED serverVars,
         phase' \in [Sockets -> Phases],
         permits' \in [Sockets -> SUBSET {"unauthenticated", "authenticated", "stream"}],
         noticed' \subseteq Sessions, doomed' \subseteq Sessions,
         requests' \in [Sessions -> [RequestIds -> Slots \cup {NoTask}]],
         tasks' \in [Sessions -> [Slots -> RequestTask \cup {NoTask}]],
         \A s \in Sessions : TableOK(requests'[s], tasks'[s]),
         barrier => \A x \in Sockets : phase[x] = "none" => phase'[x] = "none"
  PROVE  LifecycleInv'
<1>1. UNCHANGED <<readiness, startup, barrier, signals, coordinator>>
  BY DEF serverVars
<1>2. LifecycleTypeOK'
  BY <1>1 DEF LifecycleInv, LifecycleTypeOK
<1>3. Closing'
  BY <1>1 DEF LifecycleInv, Closing
<1>4. DrainVerdictSound'
  BY <1>1 DEF LifecycleInv, Closing, DrainVerdictSound, Live
<1>5. (\A s \in Sessions : TableOK(requests[s], tasks[s]))'
  BY DEF TableOK, NamesOwn, OneUnmarked, Reachable, RequestTask
<1> QED BY <1>2, <1>3, <1>4, <1>5 DEF LifecycleInv

(* A step that only moves one live socket to another phase. *)
LEMMA PhaseChange ==
  ASSUME LifecycleInv, UNCHANGED serverVars, NEW x \in Sockets, NEW next \in Phases,
         phase[x] # "none" \/ ~barrier,
         phase' = [phase EXCEPT ![x] = next],
         permits' \in [Sockets -> SUBSET {"unauthenticated", "authenticated", "stream"}],
         noticed' \subseteq Sessions, UNCHANGED <<requests, tasks, doomed>>
  PROVE  LifecycleInv'
<1>1. LifecycleTypeOK /\ \A s \in Sessions : TableOK(requests[s], tasks[s])
  BY DEF LifecycleInv
<1>2. /\ phase' \in [Sockets -> Phases] /\ doomed' \subseteq Sessions
      /\ requests' \in [Sessions -> [RequestIds -> Slots \cup {NoTask}]]
      /\ tasks' \in [Sessions -> [Slots -> RequestTask \cup {NoTask}]]
  BY <1>1 DEF LifecycleTypeOK
<1>3. \A s \in Sessions : TableOK(requests'[s], tasks'[s])
  BY <1>1
<1>4. barrier => \A y \in Sockets : phase[y] = "none" => phase'[y] = "none"
  BY <1>1 DEF LifecycleTypeOK
<1> QED BY <1>2, <1>3, <1>4, SocketChange

(* The end of a socket's task. *)
LEMMA GoneKeeps ==
  ASSUME LifecycleInv, UNCHANGED serverVars, NEW x \in Sockets, Gone(x)
  PROVE  LifecycleInv'
<1>1. LifecycleTypeOK /\ \A s \in Sessions : TableOK(requests[s], tasks[s])
  BY DEF LifecycleInv
<1>2. "none" \in Phases
  BY DEF Phases
<1>3. /\ phase' \in [Sockets -> Phases]
      /\ permits' \in [Sockets -> SUBSET {"unauthenticated", "authenticated", "stream"}]
      /\ noticed' \subseteq Sessions /\ doomed' \subseteq Sessions
      /\ \A y \in Sockets : phase[y] = "none" => phase'[y] = "none"
  BY <1>1, <1>2 DEF LifecycleTypeOK, Gone
<1>4. /\ requests' \in [Sessions -> [RequestIds -> Slots \cup {NoTask}]]
      /\ tasks' \in [Sessions -> [Slots -> RequestTask \cup {NoTask}]]
  BY <1>1 DEF LifecycleTypeOK, Gone
<1>5. ASSUME NEW s \in Sessions PROVE TableOK(requests'[s], tasks'[s])
  <2>1. CASE s = x
    <3>1. requests'[s] = [id \in RequestIds |-> NoTask] /\ tasks'[s] = [n \in Slots |-> NoTask]
      BY <2>1 DEF Gone
    <3> QED BY <3>1, TableEmpty
  <2>2. CASE s # x
    <3>1. requests'[s] = requests[s] /\ tasks'[s] = tasks[s]
      BY <2>2 DEF Gone
    <3> QED BY <1>1, <3>1
  <2> QED BY <2>1, <2>2
<1> QED BY <1>3, <1>4, <1>5, SocketChange

(* A turn that needs nothing but its phase. *)
LEMMA TurnKeeps ==
  ASSUME LifecycleInv, UNCHANGED serverVars, NEW x \in Sockets, NEW from, from # "none",
         NEW next \in Phases, Turn(x, from, next)
  PROVE  LifecycleInv'
<1>1. LifecycleTypeOK
  BY DEF LifecycleInv
<1>2. permits' \in [Sockets -> SUBSET {"unauthenticated", "authenticated", "stream"}]
        /\ noticed' \subseteq Sessions
  BY <1>1 DEF Turn, LifecycleTypeOK
<1> QED BY <1>2, PhaseChange DEF Turn

(* A step that changes the table of one session. *)
LEMMA TableChange ==
  ASSUME LifecycleInv, UNCHANGED serverVars, NEW s \in Sessions,
         NEW names, NEW running, TableOK(names, running),
         requests' = [requests EXCEPT ![s] = names],
         tasks' = [tasks EXCEPT ![s] = running],
         phase' \in [Sockets -> Phases],
         \A x \in Sockets : phase[x] = "none" => phase'[x] = "none",
         UNCHANGED <<permits, noticed, doomed>>
  PROVE  LifecycleInv'
<1>1. LifecycleTypeOK /\ \A z \in Sessions : TableOK(requests[z], tasks[z])
  BY DEF LifecycleInv
<1>2. /\ names \in [RequestIds -> Slots \cup {NoTask}]
      /\ running \in [Slots -> RequestTask \cup {NoTask}]
  BY DEF TableOK
<1>3. /\ requests' \in [Sessions -> [RequestIds -> Slots \cup {NoTask}]]
      /\ tasks' \in [Sessions -> [Slots -> RequestTask \cup {NoTask}]]
  BY <1>1, <1>2 DEF LifecycleTypeOK
<1>4. ASSUME NEW z \in Sessions PROVE TableOK(requests'[z], tasks'[z])
  <2>1. CASE z = s
    <3>1. requests'[z] = names /\ tasks'[z] = running
      BY <1>1, <2>1 DEF LifecycleTypeOK
    <3> QED BY <3>1
  <2>2. CASE z # s
    <3>1. requests'[z] = requests[z] /\ tasks'[z] = tasks[z]
      BY <1>1, <2>2 DEF LifecycleTypeOK
    <3> QED BY <1>1, <3>1
  <2> QED BY <2>1, <2>2
<1>5. /\ permits' \in [Sockets -> SUBSET {"unauthenticated", "authenticated", "stream"}]
      /\ noticed' \subseteq Sessions /\ doomed' \subseteq Sessions
  BY <1>1 DEF LifecycleTypeOK
<1> QED BY <1>3, <1>4, <1>5, SocketChange

(* One step of a session's requests. *)
LEMMA RequestsKeep ==
  ASSUME LifecycleInv, UNCHANGED serverVars, NEW s \in Sessions,
         \/ \E id \in RequestIds : RequestArrives(s, id) \/ CancelArrives(s, id)
         \/ \E n \in Slots : RequestEnds(s, n) \/ CancelSeen(s, n)
         \/ SessionLeaves(s)
  PROVE  LifecycleInv'
<1>1. LifecycleTypeOK /\ TableOK(requests[s], tasks[s])
  BY DEF LifecycleInv
<1>2. /\ requests \in [Sessions -> [RequestIds -> Slots \cup {NoTask}]]
      /\ tasks \in [Sessions -> [Slots -> RequestTask \cup {NoTask}]]
      /\ phase \in [Sockets -> Phases]
      /\ requests[s] \in [RequestIds -> Slots \cup {NoTask}]
      /\ tasks[s] \in [Slots -> RequestTask \cup {NoTask}]
  BY <1>1 DEF LifecycleTypeOK
<1>3. ASSUME NEW id \in RequestIds, RequestArrives(s, id) PROVE LifecycleInv'
  <2>1. PICK n \in Slots, deaf \in BOOLEAN :
          /\ tasks[s][n] = NoTask
          /\ tasks' = [tasks EXCEPT ![s] =
               [m \in Slots |->
                  CASE m = n -> [id |-> id, cancelled |-> FALSE,
                                 reused |-> {k \in Slots : tasks[s][k] # NoTask /\ tasks[s][k].id = id} # {},
                                 deaf |-> deaf]
                    [] m = requests[s][id] -> [tasks[s][m] EXCEPT !.cancelled = TRUE]
                    [] OTHER -> tasks[s][m]]]
          /\ requests' = [requests EXCEPT ![s][id] = n]
    BY <1>2, <1>3 DEF RequestArrives, Dispatches
  <2> DEFINE new == [id |-> id, cancelled |-> FALSE,
                     reused |-> {k \in Slots : tasks[s][k] # NoTask /\ tasks[s][k].id = id} # {},
                     deaf |-> deaf]
             after == [m \in Slots |->
                         CASE m = n -> new
                           [] m = requests[s][id] -> [tasks[s][m] EXCEPT !.cancelled = TRUE]
                           [] OTHER -> tasks[s][m]]
  <2>2. /\ new \in RequestTask /\ new.id = id
        /\ new.reused <=> \E m \in Slots : tasks[s][m] # NoTask /\ tasks[s][m].id = id
    BY DEF RequestTask
  <2>3. tasks' = [tasks EXCEPT ![s] = after]
    BY <2>1
  <2> HIDE DEF new
  <2>4. after = [m \in Slots |->
                   CASE m = n -> new
                     [] m = requests[s][id] -> [tasks[s][m] EXCEPT !.cancelled = TRUE]
                     [] OTHER -> tasks[s][m]]
    OBVIOUS
  <2> HIDE DEF after
  <2>5. TableOK([requests[s] EXCEPT ![id] = n], after)
    <3> DEFINE names == requests[s]
               running == tasks[s]
    <3>1. /\ TableOK(names, running) /\ n \in Slots /\ running[n] = NoTask /\ id \in RequestIds
          /\ new \in RequestTask /\ new.id = id
          /\ new.reused <=> \E m \in Slots : running[m] # NoTask /\ running[m].id = id
          /\ after = [m \in Slots |-> CASE m = n -> new
                                       [] m = names[id] -> [running[m] EXCEPT !.cancelled = TRUE]
                                       [] OTHER -> running[m]]
      BY <1>1, <2>1, <2>2, <2>4
    <3> HIDE DEF names, running
    <3>2. TableOK([names EXCEPT ![id] = n], after)
      BY ONLY <3>1, TableDispatch
    <3> QED BY <3>2 DEF names
  <2>6. requests' = [requests EXCEPT ![s] = [requests[s] EXCEPT ![id] = n]]
    BY <1>2, <2>1
  <2>7. UNCHANGED <<phase, permits, noticed, doomed>>
    BY <1>3 DEF RequestArrives
  <2> QED BY <1>2, <2>3, <2>5, <2>6, <2>7, TableChange
<1>4. ASSUME NEW id \in RequestIds, CancelArrives(s, id) PROVE LifecycleInv'
  <2> DEFINE n == requests[s][id]
             after == [tasks[s] EXCEPT ![n] = [tasks[s][n] EXCEPT !.cancelled = TRUE]]
  <2>1. n \in Slots /\ tasks[s][n] \in RequestTask
    BY <1>1, <1>2, <1>4 DEF CancelArrives, TableOK, NamesOwn
  <2>2. tasks' = [tasks EXCEPT ![s] = after] /\ UNCHANGED <<requests, phase, permits, noticed, doomed>>
    BY <1>2, <1>4 DEF CancelArrives
  <2>3. TableOK(requests[s], after)
    <3>1. /\ after \in [Slots -> RequestTask \cup {NoTask}]
          /\ after[n] = [tasks[s][n] EXCEPT !.cancelled = TRUE]
          /\ \A m \in Slots : m # n => after[m] = tasks[s][m]
      BY <1>2, <2>1, CancelledTask
    <3> HIDE DEF n, after
    <3>2. ASSUME NEW m \in Slots
          PROVE  /\ after[m] = NoTask <=> tasks[s][m] = NoTask
                 /\ tasks[s][m] # NoTask =>
                      /\ after[m].id = tasks[s][m].id /\ after[m].reused = tasks[s][m].reused
                      /\ tasks[s][m].cancelled => after[m].cancelled
      <4>1. CASE m = n
        BY <2>1, <3>1, <4>1, CancelledTask, TasksAreTasks
      <4>2. CASE m # n
        BY <3>1, <4>2
      <4> QED BY <4>1, <4>2
    <3> QED BY <1>1, <3>1, <3>2, TableCancel
  <2> HIDE DEF after
  <2>4. requests' = [requests EXCEPT ![s] = requests[s]]
    BY <1>2, <2>2
  <2> QED BY <1>2, <2>2, <2>3, <2>4, TableChange
<1>5. ASSUME NEW n \in Slots, RequestEnds(s, n) PROVE LifecycleInv'
  <2>1. /\ tasks[s][n] # NoTask
        /\ tasks' = [tasks EXCEPT ![s] = [tasks[s] EXCEPT ![n] = NoTask]]
        /\ requests' = [requests EXCEPT ![s] = [requests[s] EXCEPT ![tasks[s][n].id] = NoTask]]
        /\ UNCHANGED <<phase, permits, noticed, doomed>>
    BY <1>2, <1>5 DEF RequestEnds
  <2>2. TableOK([requests[s] EXCEPT ![tasks[s][n].id] = NoTask], [tasks[s] EXCEPT ![n] = NoTask])
    BY <1>1, <2>1, TableEnd
  <2> QED BY <1>2, <2>1, <2>2, TableChange
<1>6. ASSUME SessionLeaves(s) PROVE LifecycleInv'
  <2> DEFINE after == [n \in Slots |-> IF \E id \in RequestIds : requests[s][id] = n
                                       THEN [tasks[s][n] EXCEPT !.cancelled = TRUE]
                                       ELSE tasks[s][n]]
  <2>1. /\ tasks' = [tasks EXCEPT ![s] = after]
        /\ phase' = [phase EXCEPT ![s] = "leaving"] /\ phase[s] = "serving"
        /\ UNCHANGED <<requests, permits, noticed, doomed>>
    BY <1>2, <1>6 DEF SessionLeaves, CancelsRequests, Serving
  <2>2. ASSUME NEW m \in Slots
        PROVE  /\ after[m] \in RequestTask \cup {NoTask}
               /\ after[m] = NoTask <=> tasks[s][m] = NoTask
               /\ tasks[s][m] # NoTask =>
                    /\ after[m].id = tasks[s][m].id /\ after[m].reused = tasks[s][m].reused
                    /\ tasks[s][m].cancelled => after[m].cancelled
    <3>1. CASE \E id \in RequestIds : requests[s][id] = m
      <4>1. tasks[s][m] \in RequestTask
        BY <1>1, <1>2, <3>1, TasksAreTasks DEF TableOK, NamesOwn
      <4>2. after[m] = [tasks[s][m] EXCEPT !.cancelled = TRUE]
        BY <3>1
      <4> QED BY <4>1, <4>2, CancelledTask, TasksAreTasks
    <3>2. CASE ~\E id \in RequestIds : requests[s][id] = m
      <4>1. after[m] = tasks[s][m]
        BY <3>2
      <4> QED BY <1>2, <4>1
    <3> QED BY <3>1, <3>2
  <2>3. after \in [Slots -> RequestTask \cup {NoTask}]
    BY <2>2
  <2> HIDE DEF after
  <2>4. TableOK(requests[s], after)
    BY <1>1, <2>2, <2>3, TableCancel
  <2>5. requests' = [requests EXCEPT ![s] = requests[s]]
    BY <1>2, <2>1
  <2>6. phase' \in [Sockets -> Phases] /\ \A x \in Sockets : phase[x] = "none" => phase'[x] = "none"
    BY <1>2, <2>1 DEF Phases, Sockets
  <2> QED BY <2>1, <2>4, <2>5, <2>6, TableChange
<1> QED BY <1>3, <1>4, <1>5, <1>6 DEF CancelSeen

(* Each step of a control or log socket. *)
LEMMA SocketsKeep == ASSUME LifecycleInv, SocketStep PROVE LifecycleInv'
<1> USE DEF Phases
<1>1. LifecycleTypeOK /\ Closing /\ UNCHANGED serverVars
  BY DEF LifecycleInv, SocketStep
<1>2. /\ phase \in [Sockets -> Phases]
      /\ permits \in [Sockets -> SUBSET {"unauthenticated", "authenticated", "stream"}]
      /\ noticed \subseteq Sessions
      /\ Sessions \subseteq Sockets /\ Streams \subseteq Sockets
  BY <1>1 DEF LifecycleTypeOK, Sockets
<1>3. ASSUME NEW x \in Sockets, Upgrade(x) PROVE LifecycleInv'
  <2>1. /\ ~barrier /\ phase' = [phase EXCEPT ![x] = "pending"]
        /\ permits' \in [Sockets -> SUBSET {"unauthenticated", "authenticated", "stream"}]
        /\ UNCHANGED <<noticed, requests, tasks, doomed>>
    BY <1>2, <1>3 DEF Upgrade, UpgradeSession, UpgradeStream, Admits
  <2> QED BY <1>1, <1>2, <2>1, PhaseChange
<1>4. ASSUME NEW x \in Sockets, Converts(x) PROVE LifecycleInv'
  BY <1>1, <1>4, GoneKeeps, TurnKeeps DEF Converts
<1>5. ASSUME NEW s \in Sessions, SessionTurn(s) PROVE LifecycleInv'
  <2>1. CASE HelloFails(s)
    BY <1>1, <1>2, <2>1, TurnKeeps DEF HelloFails
  <2>2. CASE Notices(s)
    <3>1. /\ phase[s] # "none" /\ phase' = [phase EXCEPT ![s] = phase[s]]
          /\ phase[s] \in Phases
      BY <1>2, <2>2 DEF Notices, Serving
    <3>2. /\ permits' \in [Sockets -> SUBSET {"unauthenticated", "authenticated", "stream"}]
          /\ noticed' \subseteq Sessions /\ UNCHANGED <<requests, tasks, doomed>>
      BY <1>2, <2>2 DEF Notices
    <3>3. s \in Sockets
      BY <1>2
    <3> QED BY <1>1, <3>1, <3>2, <3>3, PhaseChange
  <2>3. CASE RequestsJoined(s)
    <3>1. /\ phase[s] # "none" /\ phase' = [phase EXCEPT ![s] = "flushing"]
          /\ permits' \in [Sockets -> SUBSET {"unauthenticated", "authenticated", "stream"}]
          /\ UNCHANGED <<noticed, requests, tasks, doomed>>
      BY <1>2, <2>3 DEF RequestsJoined
    <3> QED BY <1>1, <1>2, <3>1, PhaseChange
  <2>4. CASE WriterJoined(s) \/ AbortSeen(s)
    BY <1>1, <1>2, <2>4, GoneKeeps DEF WriterJoined, AbortSeen
  <2>5. CASE SessionMustLeave(s) \/ \E n \in Slots : CancelSeen(s, n)
    BY <1>1, <2>5, RequestsKeep DEF SessionMustLeave
  <2> QED BY <1>2, <1>4, <1>5, <2>1, <2>2, <2>3, <2>4, <2>5 DEF SessionTurn
<1>6. ASSUME NEW s \in Sessions, Authenticates(s) PROVE LifecycleInv'
  <2>1. PICK next \in {"subscribing", "refusing"} : phase' = [phase EXCEPT ![s] = next]
    BY <1>6 DEF Authenticates
  <2>2. /\ phase[s] # "none"
        /\ permits' \in [Sockets -> SUBSET {"unauthenticated", "authenticated", "stream"}]
        /\ UNCHANGED <<noticed, requests, tasks, doomed>>
    BY <1>2, <1>6 DEF Authenticates
  <2> QED BY <1>1, <1>2, <2>1, <2>2, PhaseChange
<1>7. ASSUME NEW s \in Sessions, Subscribed(s) \/ SubscribeArrives(s) PROVE LifecycleInv'
  BY <1>1, <1>2, <1>7, TurnKeeps DEF Subscribed, SubscribeArrives
<1>8. ASSUME NEW s \in Sessions,
             \/ SessionLeaves(s)
             \/ \E id \in RequestIds : RequestArrives(s, id) \/ CancelArrives(s, id)
             \/ \E n \in Slots : RequestEnds(s, n)
      PROVE  LifecycleInv'
  BY <1>1, <1>8, RequestsKeep
<1>9. ASSUME NEW l \in Streams, StreamHello(l) PROVE LifecycleInv'
  <2>1. CASE Turn(l, "hello", "parting") \/ Gone(l)
    BY <1>1, <1>2, <2>1, GoneKeeps, TurnKeeps
  <2>2. CASE /\ phase[l] = "hello"
             /\ permits' = [permits EXCEPT ![l] = @ \ {"unauthenticated"}]
             /\ \E next \in {"redeeming", "parting"} : phase' = [phase EXCEPT ![l] = next]
             /\ UNCHANGED <<noticed, requests, tasks, doomed>>
    <3>1. PICK next \in {"redeeming", "parting"} : phase' = [phase EXCEPT ![l] = next]
      BY <2>2
    <3>2. permits' \in [Sockets -> SUBSET {"unauthenticated", "authenticated", "stream"}]
      BY <1>2, <2>2
    <3> QED BY <1>1, <1>2, <2>2, <3>1, <3>2, PhaseChange
  <2> QED BY <1>9, <2>1, <2>2 DEF StreamHello
<1>10. ASSUME NEW l \in Streams,
              StreamForced(l) \/ StreamDrained(l) \/ FarewellEnds(l) \/ PeerReads(l) \/ PeerLost(l)
       PROVE  LifecycleInv'
  BY <1>1, <1>2, <1>10, GoneKeeps, TurnKeeps
     DEF StreamForced, StreamDrained, FarewellEnds, PeerReads, PeerLost
<1>11. ASSUME NEW l \in Streams, Redeems(l) \/ StreamServes(l) PROVE LifecycleInv'
  <2>1. CASE Gone(l)
    BY <1>1, <1>2, <2>1, GoneKeeps
  <2>2. ASSUME NEW next \in Phases, Turn(l, "redeeming", next) \/ Turn(l, "streaming", next)
        PROVE  LifecycleInv'
    BY <1>1, <1>2, <2>2, TurnKeeps
  <2> QED BY <1>11, <2>1, <2>2 DEF Redeems, StreamServes
<1> QED BY <1>2, <1>3, <1>4, <1>5, <1>6, <1>7, <1>8, <1>9, <1>10, <1>11 DEF SocketStep, StreamTurn

---------------------------------------------------------------------------
(* The server *)

(* The tables and the sockets do not notice the coordinator's steps. *)
LEMMA ServerChange ==
  ASSUME LifecycleInv, UNCHANGED <<phase, permits, noticed, requests, tasks>>,
         doomed' \subseteq Sessions,
         readiness' \in {"starting", "ready", "draining"}, startup' \in {"waiting", "done"},
         barrier' \in BOOLEAN, signals' \in {{}, {"drain"}, {"drain", "force"}},
         coordinator' \in {"serving", "closing", "draining", "unwinding", "aborting",
                           "drained", "forceClosed"},
         Closing', coordinator' = "drained" => coordinator = "drained" \/ Live = {}
  PROVE  LifecycleInv'
<1>1. LifecycleTypeOK'
  BY DEF LifecycleInv, LifecycleTypeOK
<1>2. DrainVerdictSound'
  BY DEF LifecycleInv, DrainVerdictSound, Live
<1>3. (\A s \in Sessions : TableOK(requests[s], tasks[s]))'
  BY DEF LifecycleInv, TableOK, NamesOwn, OneUnmarked, Reachable, RequestTask
<1> QED BY <1>1, <1>2, <1>3 DEF LifecycleInv

(* The end of service, and what follows it. *)
LEMMA ServerKeeps ==
  ASSUME LifecycleInv, ShutdownStep \/ ShutdownBegins \/ (StartupEnds /\ UNCHANGED socketVars)
  PROVE  LifecycleInv'
<1>1. LifecycleTypeOK /\ Closing
  BY DEF LifecycleInv
<1>2. UNCHANGED <<phase, permits, noticed, requests, tasks>>
  BY DEF ShutdownStep, DrainStep, ShutdownBegins, socketVars, ForwardsJoined, DrainCompletes,
         DrainExpires, UnwindEnds, AbortsAgain, AbortEnds
<1>3. doomed' \subseteq Sessions
  BY <1>1 DEF LifecycleTypeOK, ShutdownStep, DrainStep, ShutdownBegins, socketVars, ForwardsJoined,
         DrainCompletes, DrainExpires, UnwindEnds, AbortsAgain, AbortEnds, Aborts
<1>4. CASE ShutdownStep
  <2>1. UNCHANGED <<readiness, startup, barrier>>
    BY <1>4 DEF ShutdownStep, DrainStep, ForwardsJoined, DrainCompletes, DrainExpires, UnwindEnds,
           AbortsAgain, AbortEnds
  <2>2. coordinator # "serving" /\ coordinator' # "serving" /\ barrier /\ signals # {}
    BY <1>1, <1>4 DEF Closing, ShutdownStep, DrainStep, ForwardsJoined, DrainCompletes,
           DrainExpires, UnwindEnds, AbortsAgain, AbortEnds
  <2>3. /\ coordinator' \in {"serving", "closing", "draining", "unwinding", "aborting",
                             "drained", "forceClosed"}
        /\ coordinator' = "drained" => coordinator = "drained" \/ Live = {}
    BY <1>4 DEF ShutdownStep, DrainStep, ForwardsJoined, DrainCompletes, DrainExpires, UnwindEnds,
           AbortsAgain, AbortEnds, Drained
  <2>4. signals' = signals \/ signals' = signals \cup {"force"}
    BY <1>4 DEF ShutdownStep, DrainStep, ForwardsJoined, DrainCompletes, DrainExpires, UnwindEnds,
           AbortsAgain, AbortEnds
  <2>5. signals' \in {{}, {"drain"}, {"drain", "force"}} /\ signals' # {}
    BY <1>1, <2>2, <2>4 DEF LifecycleTypeOK
  <2>6. Closing'
    BY <2>1, <2>2, <2>5 DEF Closing
  <2> QED BY <1>1, <1>2, <1>3, <2>1, <2>3, <2>5, <2>6, ServerChange DEF LifecycleTypeOK
<1>5. CASE ShutdownBegins
  <2>1. /\ coordinator' = "closing" /\ readiness' = "draining" /\ barrier' = TRUE
        /\ signals' = {"drain"} /\ startup' = startup
    BY <1>1, <1>5 DEF ShutdownBegins, Closing, LifecycleTypeOK
  <2>2. Closing'
    BY <2>1 DEF Closing
  <2> QED BY <1>1, <1>2, <1>3, <2>1, <2>2, ServerChange DEF LifecycleTypeOK
<1>6. CASE StartupEnds
  <2>1. /\ startup' = "done" /\ readiness' \in {"ready", readiness}
        /\ UNCHANGED <<barrier, signals, coordinator>>
    BY <1>6 DEF StartupEnds
  <2>2. Closing'
    BY <1>1, <2>1 DEF Closing
  <2> QED BY <1>1, <1>2, <1>3, <2>1, <2>2, ServerChange DEF LifecycleTypeOK
<1> QED BY <1>4, <1>5, <1>6

(* The server starts without sockets. *)
LEMMA LifecycleStarts == LifecycleInit => LifecycleInv
<1> SUFFICES ASSUME LifecycleInit PROVE LifecycleInv
  OBVIOUS
<1>1. LifecycleTypeOK
  BY DEF LifecycleInit, LifecycleTypeOK, Phases
<1>2. Closing /\ DrainVerdictSound
  BY DEF LifecycleInit, Closing, DrainVerdictSound
<1>3. \A s \in Sessions : TableOK(requests[s], tasks[s])
  BY TableEmpty DEF LifecycleInit
<1> QED BY <1>1, <1>2, <1>3 DEF LifecycleInv

(* The invariant of the runs is the part that its clients may rely on. *)
LEMMA LifecycleFollows == LifecycleInv => LifecycleConsistent
BY DEF LifecycleInv, LifecycleConsistent, RequestsReachable, TableOK, Reachable

(* LifecycleInv is an invariant. *)
LEMMA LifecycleHolds == LifecycleSpec => []LifecycleInv
<1>1. LifecycleInv /\ [LifecycleNext]_lifecycleVars => LifecycleInv'
  <2> SUFFICES ASSUME LifecycleInv, [LifecycleNext]_lifecycleVars PROVE LifecycleInv'
    OBVIOUS
  <2>1. CASE LifecycleNext
    BY <2>1, SocketsKeep, ServerKeeps DEF LifecycleNext
  <2>2. CASE UNCHANGED lifecycleVars
    <3>1. UNCHANGED <<serverVars, phase, permits, noticed, requests, tasks, doomed>>
      BY <2>2 DEF lifecycleVars, socketVars
    <3> QED BY <3>1, SocketChange DEF LifecycleInv, LifecycleTypeOK
  <2> QED BY <2>1, <2>2
<1> QED BY <1>1, LifecycleStarts, PTL DEF LifecycleSpec

(* The server and its sockets are always in one of their states. *)
THEOREM LifecycleTypeCorrect == LifecycleSpec => []LifecycleTypeOK
BY LifecycleHolds, PTL DEF LifecycleInv

(* A server that reports itself drained has no socket, and gets none from an  *)
(* upgrade that was under way; and a cancel or the end of a session reaches   *)
(* every request task whose id was not used again (lifecycle.rs, control.rs). *)
THEOREM LifecycleStaysConsistent == LifecycleSpec => []LifecycleConsistent
BY LifecycleHolds, LifecycleFollows, PTL

---------------------------------------------------------------------------
(* The composition *)

LEMMA RuntimeStep ==
  [MCNext]_<<focus, switchingVars, clusterVars, recordVars, lifecycleVars>>
    => /\ [SwitchingNext]_switchingVars /\ [ClusterNext]_clusterVars
       /\ [RegistryNext]_recordVars /\ [LifecycleNext]_lifecycleVars
<1> SUFFICES ASSUME MCNext
             PROVE  /\ [SwitchingNext]_switchingVars /\ [ClusterNext]_clusterVars
                    /\ [RegistryNext]_recordVars /\ [LifecycleNext]_lifecycleVars
  OBVIOUS
<1>1. CASE SwitchingNext /\ UNCHANGED <<clusterVars, recordVars, lifecycleVars>>
  BY <1>1
<1>2. CASE ClusterNext /\ UNCHANGED <<switchingVars, recordVars, lifecycleVars>>
  BY <1>2
<1>3. CASE RegistryNext /\ UNCHANGED <<switchingVars, clusterVars, lifecycleVars>>
  BY <1>3
<1>4. CASE LifecycleNext /\ UNCHANGED <<switchingVars, clusterVars, recordVars>>
  BY <1>4
<1>. QED
  BY <1>1, <1>2, <1>3, <1>4 DEF MCNext

(* Every behaviour that MCRuntime's run explores is a behaviour of each of    *)
(* the four components, fair where theirs are: their theorems hold of it, and *)
(* what one does leaves the others where their own specifications allow.      *)
THEOREM RuntimeComposes == MCSpec => SwitchingSpec /\ ClusterSpec /\ RegistrySpec /\ LifecycleSpec
<1>1. MCInit => SwitchingInit /\ ClusterInit /\ RegistryInit /\ LifecycleInit
  BY DEF MCInit
<1>. QED
  BY <1>1, RuntimeStep, PTL DEF MCSpec, SwitchingSpec, ClusterSpec, RegistrySpec, LifecycleSpec

(* The registry of contexts, the cluster's selections and collectors, the     *)
(* client's views and the server's sockets keep their types side by side.     *)
THEOREM RuntimeTypeCorrect == MCSpec => []RuntimeTypeOK
<1>1. SwitchingTypeOK /\ ClusterTypeOK /\ RegistryTypeOK /\ LifecycleTypeOK => RuntimeTypeOK
  BY DEF RuntimeTypeOK
<1>. QED
  BY <1>1, RuntimeComposes, SwitchingTypeCorrect, ClusterTypeCorrect, RegistryTypeCorrect,
     LifecycleTypeCorrect, PTL
=============================================================================
