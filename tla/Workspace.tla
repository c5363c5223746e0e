------------------------------ MODULE Workspace ------------------------------
(***************************************************************************)
(* The client's windows and the context they show (k10s-ui): the command-  *)
(* driven workspace with its guards of unsaved YAML (workspace/), and the  *)
(* application around it, which asks the server to switch the context and  *)
(* commits the switch when the answer comes (app.rs, ui/mod.rs).           *)
(*                                                                         *)
(* Of a window it keeps what a navigation can destroy: the resource its    *)
(* detail shows and whether that detail is being edited.  Geometry, focus  *)
(* order and the settings of a view are data.  A list window stands for    *)
(* any window with an integrated detail.                                   *)
(***************************************************************************)
EXTENDS Naturals, FiniteSets, FiniteSetsExt

CONSTANTS
  Places,      \* kubeconfig contexts
  Home,        \* the context the first bootstrap found
  Resources,   \* identities of rows of the context Home
  NoPlace, NoResource,
  MaxWindows   \* bound on the window ids

ASSUME WorkspaceAssumption ==
  /\ Home \in Places /\ NoPlace \notin Places
  /\ NoResource \notin Resources
  /\ MaxWindows \in Nat \ {0}

VARIABLES
  windows,    \* the windows, by id
  nextId,
  yamlOwner,  \* yaml_owner, 0 for none
  parked,     \* pending: the navigation that waits for its blockers
  place,      \* context
  layouts,    \* workspace_layouts
  selected,   \* local_ui.selected_context
  switching,  \* pending_switch and how far its answer is
  failedSwitch,
  bootstrap,  \* the answer to a bootstrap query, on its way
  serverAt,   \* the server's current context
  linked,     \* the transport
  dead,       \* a terminal failure
  late        \* history: windows whose edit began with a switch under way

workspaceVars == <<windows, nextId, yamlOwner, parked, place>>
appVars == <<layouts, selected, switching, failedSwitch, bootstrap, dead, late>>
shellVars == <<workspaceVars, appVars, serverAt, linked>>

WindowIds == 1..MaxWindows

Window == [kind : {"none", "list", "detail"}, shows : Resources \cup {NoResource}, dirty : BOOLEAN]
NoWindow == [kind |-> "none", shows |-> NoResource, dirty |-> FALSE]
ListWindow == [NoWindow EXCEPT !.kind = "list"]

Show(w, row) == [kind |-> "show", window |-> w, row |-> row, to |-> NoPlace]
Close(w) == [kind |-> "close", window |-> w, row |-> NoResource, to |-> NoPlace]
SwitchTo(to) == [kind |-> "switch", window |-> 0, row |-> NoResource, to |-> to]

Navigation ==
  {Show(w, row) : w \in WindowIds, row \in Resources \cup {NoResource}}
    \cup {Close(w) : w \in WindowIds} \cup {SwitchTo(to) : to \in Places}

NotParked == [for |-> Close(1), blockers |-> {}]

NoSwitch == [to |-> NoPlace, answer |-> "none"]
Switch == [to : Places, answer : {"none", "ok", "refused"}] \cup {NoSwitch}
Asked(to) == [to |-> to, answer |-> "none"]

(* What a snapshot keeps of the windows: no dedicated detail, no selection. *)
Layout == [lists : 0..MaxWindows, next : 1..(MaxWindows + 1)]
NoLayout == [lists |-> 0, next |-> 0]

WorkspaceInit ==
  /\ windows = [w \in WindowIds |-> IF w = 1 THEN ListWindow ELSE NoWindow]
  /\ nextId = 2
  /\ yamlOwner = [r \in Resources |-> 0]
  /\ parked = NotParked
  /\ place = Home /\ selected = Home /\ serverAt = Home
  /\ layouts = [c \in Places |-> NoLayout]
  /\ switching = NoSwitch /\ failedSwitch = NoPlace
  /\ bootstrap = NoPlace /\ linked = TRUE /\ dead = FALSE /\ late = {}

---------------------------------------------------------------------------
(* The workspace *)

NavigationWaits == parked # NotParked

DirtyIn(ws) == {w \in WindowIds : ws[w].dirty}

(* blockers_for, context_switch_blockers *)
BlockersOf(n, ws) == IF n.kind = "switch" THEN DirtyIn(ws) ELSE DirtyIn(ws) \cap {n.window}

Disowned(w) == [r \in Resources |-> IF yamlOwner[r] = w THEN 0 ELSE yamlOwner[r]]

(* A window comes up with the next id. *)
Open(window) ==
  /\ ~NavigationWaits /\ nextId <= MaxWindows
  /\ windows' = [windows EXCEPT ![nextId] = window]
  /\ nextId' = nextId + 1
  /\ UNCHANGED <<yamlOwner, parked, place, appVars, serverAt, linked>>

OpenList == Open(ListWindow)

OpenDetail(row) == place = Home /\ Open([kind |-> "detail", shows |-> row, dirty |-> FALSE])

(* What a navigation does to the windows once nothing blocks it. *)
Navigated(n, ws) ==
  [ws EXCEPT ![n.window] =
     IF n.kind = "close" THEN NoWindow ELSE [ws[n.window] EXCEPT !.shows = n.row, !.dirty = FALSE]]

(* block *)
Park(n, ws) == parked' = [for |-> n, blockers |-> BlockersOf(n, ws)]

(* Mutant: only closing a window looks at its blockers. *)
NavigatesUnguarded(n) ==
  /\ windows[n.window].kind # "none"
  /\ n.kind = "show" =>
       windows[n.window].kind = "list" /\ windows[n.window].shows # n.row
  /\ IF n.kind = "close" /\ BlockersOf(n, windows) # {}
     THEN Park(n, windows) /\ UNCHANGED <<windows, yamlOwner>>
     ELSE /\ windows' = Navigated(n, windows)
          /\ yamlOwner' = IF n.kind = "close" THEN Disowned(n.window) ELSE yamlOwner
          /\ UNCHANGED parked

(* select_row, clear_selection, set_namespace_scope, close_window *)
Navigates(n) ==
  /\ windows[n.window].kind # "none"
  /\ n.kind = "show" =>
       windows[n.window].kind = "list" /\ windows[n.window].shows # n.row
  /\ IF BlockersOf(n, windows) # {}
     THEN Park(n, windows) /\ UNCHANGED <<windows, yamlOwner>>
     ELSE /\ windows' = Navigated(n, windows)
          /\ yamlOwner' = IF n.kind = "close" THEN Disowned(n.window) ELSE yamlOwner
          /\ UNCHANGED parked

Navigate(n) ==
  /\ ~NavigationWaits
  /\ n.row # NoResource => place = Home
  /\ Navigates(n)
  /\ UNCHANGED <<nextId, place, appVars, serverAt, linked>>

(* begin_yaml_edit: refused while another window owns the resource. *)
BeginYamlEdit(w) ==
  LET row == windows[w].shows
  IN /\ ~NavigationWaits /\ row # NoResource /\ ~windows[w].dirty
     /\ yamlOwner[row] \in {0, w}
     /\ windows' = [windows EXCEPT ![w].dirty = TRUE]
     /\ yamlOwner' = [yamlOwner EXCEPT ![row] = w]
     /\ late' = IF switching = NoSwitch THEN late ELSE late \cup {w}
     /\ UNCHANGED <<nextId, parked, place, layouts, selected, switching, failedSwitch, bootstrap,
                    dead, serverAt, linked>>

(* discard_yaml *)
Clean(w) == [windows EXCEPT ![w].dirty = FALSE]

(* Mutant: the discard leaves the resource with its editor. *)
ReleasedLater(w) == yamlOwner

Released(w) == IF windows[w].dirty THEN [yamlOwner EXCEPT ![windows[w].shows] = 0] ELSE yamlOwner

DiscardYaml(w) ==
  /\ ~NavigationWaits /\ windows[w].dirty
  /\ windows' = Clean(w) /\ yamlOwner' = Released(w)
  /\ late' = late \ {w}
  /\ UNCHANGED <<nextId, parked, place, layouts, selected, switching, failedSwitch, bootstrap,
                 dead, serverAt, linked>>

---------------------------------------------------------------------------
(* Switches *)

(* The server may have done what a request abandoned on its way asked for. *)
Abandoned == IF switching.answer = "none" /\ switching.to # NoPlace
             THEN serverAt' \in {serverAt, switching.to} ELSE UNCHANGED serverAt

(* Mutant: a selected context needs no further request. *)
ServedIfSelected(to) == selected = to

Served(to) == selected = to /\ place = to

(* Mutant: an edit does not keep the request back. *)
GuardsIgnored(ws) == {}

Guards(ws) == DirtyIn(ws)

(* stage_context_switch, over windows ws and a workspace that is `waiting'. *)
Stage(ws, waiting, to, explicit) ==
  LET suppressed == failedSwitch = to /\ selected # to
      goes == /\ switching.to # to /\ ~Served(to)
              /\ suppressed => explicit
  IN /\ failedSwitch' = IF suppressed /\ explicit /\ switching.to # to THEN NoPlace ELSE failedSwitch
     /\ IF goes /\ Guards(ws) = {} /\ linked
        THEN switching' = Asked(to) /\ late' = {} /\ Abandoned
        ELSE UNCHANGED <<switching, late, serverAt>>
     /\ dead' = (goes /\ Guards(ws) = {} /\ ~linked)
     /\ IF goes /\ Guards(ws) # {} /\ ~waiting
        THEN Park(SwitchTo(to), ws)
        ELSE parked' = IF waiting THEN parked ELSE NotParked

(* The user picks a context: the list is empty while there is no transport. *)
Pick(to) ==
  /\ linked
  /\ Stage(windows, NavigationWaits, to, TRUE)
  /\ UNCHANGED <<windows, nextId, yamlOwner, place, layouts, selected, bootstrap, linked>>

(* A frame drawn while the windows lag the selected context. *)
Reconcile ==
  /\ place # selected
  /\ Stage(windows, NavigationWaits, selected, FALSE)
  /\ UNCHANGED <<windows, nextId, yamlOwner, place, layouts, selected, bootstrap, linked>>

(* resolve: the last blocker's release executes the navigation. *)
Cancel ==
  /\ NavigationWaits /\ parked' = NotParked
  /\ UNCHANGED <<windows, nextId, yamlOwner, place, appVars, serverAt, linked>>

Resolve(w) ==
  LET n == parked.for
      left == parked.blockers \ {w}
  IN /\ NavigationWaits
     /\ UNCHANGED <<nextId, place, layouts, selected, bootstrap, linked>>
     /\ \/ /\ left # {}
           /\ parked' = [parked EXCEPT !.blockers = left]
           /\ windows' = Clean(w) /\ yamlOwner' = Released(w) /\ late' = late \ {w}
           /\ UNCHANGED <<switching, failedSwitch, dead, serverAt>>
        \/ /\ left = {} /\ n.kind = "switch"
           /\ windows' = Clean(w) /\ yamlOwner' = Released(w)
           /\ Stage(Clean(w), FALSE, n.to, TRUE)
        \/ /\ left = {} /\ n.kind # "switch"
           /\ parked' = NotParked
           /\ windows' = Navigated(n, Clean(w)) /\ yamlOwner' = Released(w)
           /\ late' = late \ {w}
           /\ UNCHANGED <<switching, failedSwitch, dead, serverAt>>

(* snapshot *)
Snapshot ==
  [lists |-> Cardinality({w \in WindowIds : windows[w].kind = "list"}), next |-> nextId]

(* from_snapshot: ids are dealt anew, and go on above both counters. *)
Restored(layout) ==
  [w \in WindowIds |-> IF w <= layout.lists THEN ListWindow ELSE NoWindow]

(* commit_context_layout: the layout left is saved and the one entered comes  *)
(* back, unless a navigation waits, which holds both commands back.           *)
CommitLayout(to) ==
  LET saved == IF place # to THEN [layouts EXCEPT ![place] = Snapshot] ELSE layouts
      layout == saved[to]
  IN /\ layouts' = saved
     /\ IF NavigationWaits
        THEN UNCHANGED workspaceVars
        ELSE /\ IF layout # NoLayout
                THEN /\ windows' = Restored(layout)
                     /\ nextId' = Max({layout.lists + 1, layout.next})
                ELSE /\ windows' = [w \in WindowIds |->
                                      IF windows[w].kind = "list" THEN ListWindow ELSE NoWindow]
                     /\ UNCHANGED nextId
             /\ yamlOwner' = [r \in Resources |-> 0]
             /\ place' = to /\ UNCHANGED parked

(* finish_context_switch *)
SwitchConfirmed ==
  /\ switching.answer = "ok"
  /\ selected' = switching.to /\ failedSwitch' = NoPlace
  /\ switching' = NoSwitch /\ late' = {}
  /\ CommitLayout(switching.to)
  /\ UNCHANGED <<bootstrap, dead, serverAt, linked>>

SwitchRefused ==
  /\ switching.answer = "refused"
  /\ failedSwitch' = switching.to /\ switching' = NoSwitch /\ late' = {}
  /\ UNCHANGED <<workspaceVars, layouts, selected, bootstrap, dead, serverAt, linked>>

(* The bootstrap answer: the server's current context outranks the selection. *)
Bootstrapped ==
  /\ bootstrap # NoPlace
  /\ selected' = bootstrap /\ bootstrap' = NoPlace
  /\ switching' = NoSwitch /\ late' = {} /\ Abandoned
  /\ IF place # bootstrap THEN CommitLayout(bootstrap) ELSE UNCHANGED <<workspaceVars, layouts>>
  /\ UNCHANGED <<failedSwitch, dead, linked>>

AskBootstrap ==
  /\ linked /\ bootstrap = NoPlace
  /\ bootstrap' = serverAt
  /\ UNCHANGED <<workspaceVars, layouts, selected, switching, failedSwitch, dead, late,
                 serverAt, linked>>

(* transient_loss *)
TransportLost ==
  /\ linked /\ linked' = FALSE
  /\ switching' = NoSwitch /\ failedSwitch' = NoPlace /\ bootstrap' = NoPlace /\ late' = {}
  /\ Abandoned
  /\ UNCHANGED <<workspaceVars, layouts, selected, dead>>

Reconnected ==
  /\ ~linked /\ linked' = TRUE
  /\ bootstrap' = serverAt
  /\ UNCHANGED <<workspaceVars, layouts, selected, switching, failedSwitch, dead, late, serverAt>>

---------------------------------------------------------------------------
(* The server *)

ServerConfirms ==
  /\ switching.to # NoPlace /\ switching.answer = "none"
  /\ switching' = [switching EXCEPT !.answer = "ok"]
  /\ serverAt' = switching.to
  /\ UNCHANGED <<workspaceVars, layouts, selected, failedSwitch, bootstrap, dead, late, linked>>

ServerRefuses ==
  /\ switching.to # NoPlace /\ switching.answer = "none"
  /\ switching' = [switching EXCEPT !.answer = "refused"]
  /\ UNCHANGED <<workspaceVars, layouts, selected, failedSwitch, bootstrap, dead, late, linked,
                 serverAt>>

(* Another session switches, or a credential fails. *)
ServerMoves(to) ==
  /\ to # serverAt /\ serverAt' = to
  /\ UNCHANGED <<workspaceVars, appVars, linked>>

---------------------------------------------------------------------------
UserCommand ==
  \/ OpenList
  \/ \E r \in Resources : OpenDetail(r)
  \/ \E w \in WindowIds :
       \/ Navigate(Close(w)) \/ BeginYamlEdit(w) \/ DiscardYaml(w) \/ Resolve(w)
       \/ \E row \in Resources \cup {NoResource} : Navigate(Show(w, row))
  \/ Cancel

WorkspaceNext ==
  /\ ~dead
  /\ \/ UserCommand \/ Reconcile
     \/ \E to \in Places : Pick(to) \/ ServerMoves(to)
     \/ SwitchConfirmed \/ SwitchRefused \/ ServerConfirms \/ ServerRefuses
     \/ Bootstrapped \/ AskBootstrap \/ TransportLost \/ Reconnected

(* Frames are drawn and answers come; a context that can be shown is           *)
(* confirmed in the end, and nobody picks another each time before it is.      *)
WorkspaceFairness ==
  /\ WF_shellVars(~dead /\ Reconcile) /\ WF_shellVars(~dead /\ Reconnected)
  /\ WF_shellVars(~dead /\ Bootstrapped)
  /\ SF_shellVars(~dead /\ ServerConfirms) /\ SF_shellVars(~dead /\ SwitchConfirmed)
  /\ WF_shellVars(~dead /\ (ServerConfirms \/ ServerRefuses))
  /\ WF_shellVars(~dead /\ SwitchRefused)

WorkspaceSpec == WorkspaceInit /\ [][WorkspaceNext]_shellVars /\ WorkspaceFairness

---------------------------------------------------------------------------
(* Who owns the writable YAML of a resource is the window that edits it. *)
OwnersEdit ==
  \A r \in Resources, w \in WindowIds :
    yamlOwner[r] = w <=> windows[w].dirty /\ windows[w].shows = r

(* A parked navigation waits for edits, and for all of its own: the release   *)
(* of the last one lets it execute without blocking again.                    *)
ParkedIsBlocked ==
  NavigationWaits => parked.blockers = BlockersOf(parked.for, windows) /\ parked.blockers # {}

WorkspaceTypeOK ==
  /\ windows \in [WindowIds -> Window] /\ nextId \in 1..(MaxWindows + 1)
  /\ yamlOwner \in [Resources -> WindowIds \cup {0}]
  /\ parked \in [for : Navigation, blockers : SUBSET WindowIds]
  /\ {place, selected, serverAt} \subseteq Places
  /\ layouts \in [Places -> Layout \cup {NoLayout}]
  /\ switching \in Switch
  /\ {failedSwitch, bootstrap} \subseteq Places \cup {NoPlace}
  /\ {linked, dead} \subseteq BOOLEAN /\ late \subseteq WindowIds
  /\ \A w \in WindowIds : w >= nextId => windows[w] = NoWindow

(* A request goes out when nothing is edited: what is while it is under way   *)
(* began since.                                                               *)
LateEdits == switching # NoSwitch => DirtyIn(windows) \subseteq late

(* The bookkeeping of edits and of the navigation that waits for them. *)
EditsAccounted == OwnersEdit /\ ParkedIsBlocked /\ LateEdits

WorkspaceSound == WorkspaceTypeOK /\ EditsAccounted

(* "Dirty YAML cannot be lost by closing, changing selection, or switching    *)
(* context without confirmation": an edit ends by its own discard.  Not so    *)
(* when it began while a switch was under way, nor when the server itself     *)
(* has moved: then the commit takes it along.                                 *)
EditsSurvive ==
  [][\A w \in WindowIds :
       windows[w].dirty /\ windows'[w] # windows[w] =>
         \/ windows'[w] = [windows[w] EXCEPT !.dirty = FALSE]
         \/ parked.blockers = {w}
         \/ w \in late /\ switching # NoSwitch
         \/ bootstrap # NoPlace /\ bootstrap' = NoPlace]_shellVars

(* The windows come to show the selected context: a confirmed switch that a   *)
(* waiting navigation held back is made good, unless one waits again.         *)
ContextsSettle == []<>(place = selected \/ NavigationWaits \/ dead)

(* What a user may count on: the edits and the context of the windows. *)
WorkspaceServes == EditsSurvive /\ ContextsSettle
=============================================================================
