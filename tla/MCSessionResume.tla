--------------------------- MODULE MCSessionResume ---------------------------
(* The three traffics that one run of SessionResume explores, each by itself:  *)
(* a journal that overflows between two connections, lists that are cut, and   *)
(* a server that restarts under the third connection.                          *)
EXTENDS SessionResume

VARIABLE focus

Issued(t, n, kinds) ==
  /\ connections'[t].counter <= n
  /\ \A i \in DOMAIN connections'[t].queue :
       connections'[t].queue[i].kind \in kinds \cup {"fresh", "resumed", "close"}

MCInit == focus \in {"journal", "lists", "reconnect"} /\ Init

MCNext ==
  /\ UNCHANGED focus
  /\ Next
  /\ \/ /\ focus = "journal"
        /\ Len(connections') <= 2 /\ UNCHANGED instance
        /\ \A t \in DOMAIN connections' : Issued(t, 3, {"update"})
     \/ /\ focus = "lists"
        /\ Len(connections') <= 2 /\ UNCHANGED instance
        /\ \A t \in DOMAIN connections' : Issued(t, 3, {"begin", "end"})
     \/ /\ focus = "reconnect"
        /\ \A t \in DOMAIN connections' : Issued(t, 1, {"update"})
        /\ \A t \in Connections \ {1} : connections'[t].counter = connections[t].counter

MCSpec == MCInit /\ [][MCNext]_<<focus, vars>> /\ Fairness
=============================================================================
