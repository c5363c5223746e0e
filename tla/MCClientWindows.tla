--------------------------- MODULE MCClientWindows ---------------------------
(* What one client has open: WatchDelivery's lists on their way to it, and    *)
(* Workspace's windows.  They share no state, so the run explores each by     *)
(* itself (focus); a client whose windows are explored has asked for no list. *)
EXTENDS MCWatchDelivery, Workspace

CONSTANTS here, there, pod

VARIABLE focus

MCInit ==
  /\ focus \in {"lists", "windows"}
  /\ WorkspaceInit
  /\ IF focus = "lists" THEN Init ELSE Opening({})

(* Windows are opened in one context, and the server's current one moves by   *)
(* itself only while the client is away.                                      *)
FewMoves ==
  /\ nextId' > nextId => place' = Home
  /\ serverAt' # serverAt /\ UNCHANGED <<workspaceVars, appVars>> => ~linked

MCNext ==
  /\ UNCHANGED focus
  /\ \/ focus = "lists" /\ Next /\ UNCHANGED shellVars
     \/ focus = "windows" /\ WorkspaceNext /\ FewMoves /\ UNCHANGED vars

MCSpec ==
  MCInit /\ [][MCNext]_<<focus, vars, shellVars>> /\ Fairness /\ WorkspaceFairness
=============================================================================
