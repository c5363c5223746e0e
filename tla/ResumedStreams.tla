---------------------------- MODULE ResumedStreams ----------------------------
(***************************************************************************)
(* What reconnecting promises a client, without connections, leases or a   *)
(* journal: it reads one stream at a time, every update of it once and in  *)
(* order however many transports it loses.  It leaves a stream for a later *)
(* one that is its own, read from the beginning, and never comes back; and *)
(* a stream is not continued by a process that did not open it.            *)
(***************************************************************************)
EXTENDS Naturals

CONSTANTS
  Readers,
  Streams   \* the numbers of the streams, in the order they are opened

VARIABLES
  place,    \* the stream, position and server process of each reader
  process,  \* the server process that runs
  quit      \* the readers that gave up

vars == <<place, process, quit>>

Place(stream, position, by) == [stream |-> stream, position |-> position, process |-> by]

Init ==
  /\ place = [c \in Readers |-> Place(0, 0, 0)]
  /\ process = 1
  /\ quit = {}

Read(c) ==
  /\ place[c].stream # 0 /\ place[c].process = process
  /\ place' = [place EXCEPT ![c].position = @ + 1]
  /\ UNCHANGED <<process, quit>>

Open(c) ==
  /\ \E s \in Streams :
       /\ s > place[c].stream
       /\ \A d \in Readers \ {c} : place[d].stream # s
       /\ place' = [place EXCEPT ![c] = Place(s, 0, process)]
  /\ UNCHANGED <<process, quit>>

Quit(c) ==
  /\ quit' = quit \cup {c}
  /\ UNCHANGED <<place, process>>

Replace ==
  /\ process' = process + 1
  /\ UNCHANGED <<place, quit>>

Next ==
  \/ \E c \in Readers \ quit : Read(c) \/ Open(c) \/ Quit(c)
  \/ Replace

Spec == Init /\ [][Next]_vars
=============================================================================
