----------------------------- MODULE MCForwarding -----------------------------
(* PortForwards, with one and with three endpoints, and ForwardFeed.  They     *)
(* share no state, so a run explores each by itself (focus).                   *)
EXTENDS MCForwards, ForwardFeed

VARIABLE focus

(* One start and one stop of each row, of which the first row's stop is *)
(* asked for.                                                           *)
OneStopAnswered ==
  /\ published'[second] # NoRow => published'[first] # NoRow
  /\ \A a \in answers' : a.id = first /\ a.row.st = "ended"

MCInit == focus \in {"endpoint", "bound", "feed"} /\ ForwardInit /\ FeedInit

MCNext ==
  /\ UNCHANGED focus
  /\ \/ focus = "endpoint" /\ ForwardNext /\ ForOneEndpoint /\ UNCHANGED feedVars
     \/ focus = "bound" /\ ForwardNext /\ ForThreeEndpoints /\ UNCHANGED feedVars
     \/ focus = "feed" /\ FeedNext /\ OneStopAnswered /\ UNCHANGED forwardVars

(* Only the feed has a step that is due from the start. *)
MCSpec ==
  /\ MCInit /\ [][MCNext]_<<focus, forwardVars, feedVars>>
  /\ ForwardFairness
  /\ focus = "feed" => FeedFairness

(* The types of both. *)
ForwardingTypeOK == ForwardTypeOK /\ FeedTypeOK
=============================================================================
