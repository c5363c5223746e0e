------------------------------ MODULE MCForwards ------------------------------
(* Model values for PortForwards: a name and a number of one Service port, *)
(* and two other endpoints.                                                *)
EXTENDS PortForwards

CONSTANTS first, second, third

FourTargets == {"named", "number", "second", "third"}
Endpoint == [t \in FourTargets |-> IF t = "second" THEN 2 ELSE IF t = "third" THEN 3 ELSE 1]

(* Two requests for one endpoint, against stops, failures and a switch; *)
(* connections come to one of them.                                     *)
ForOneEndpoint ==
  /\ tasks'[third] = tasks[third] /\ ~forwards'[second].pump
  /\ \A w \in {first, second} :
       tasks'[w].pc = "idle" \/ forwards'[w].target \in {"named", "number"}

(* or three requests for three endpoints, under a bound of two. *)
Own == [w \in Forwards |-> IF w = first THEN "named" ELSE IF w = second THEN "second" ELSE "third"]
ForThreeEndpoints ==
  /\ \A w \in Forwards : tasks'[w].pc = "idle" \/ forwards'[w].target = Own[w]
  /\ \A w \in Forwards : forwards'[w].context = FirstContext /\ ~forwards'[w].pump
  /\ tasks'[Transition] = tasks[Transition]
=============================================================================
