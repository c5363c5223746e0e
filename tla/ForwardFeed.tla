------------------------------ MODULE ForwardFeed ------------------------------
(***************************************************************************)
(* How the rows of the port-forward manager reach one client: events and   *)
(* periodic authoritative lists over the subscription's coalescing slots   *)
(* (control.rs), answers to start and stop requests beside them, and the   *)
(* client's merge of the three (k10s-ui, client/state.rs).                 *)
(*                                                                         *)
(* Of the manager it keeps what PortForwards shows of it: revisions leave  *)
(* in order, a row's verdict is final, and a list is read row by row with  *)
(* the manager's state held, which keeps starts out but no stop.           *)
(***************************************************************************)
EXTENDS Naturals, FiniteSets, Sequences

CONSTANTS
  Rows,           \* session ids
  MaxPublications \* bound on the revisions

ASSUME FeedAssumption == IsFiniteSet(Rows) /\ MaxPublications \in Nat

VARIABLES
  published,  \* the manager's rows
  clock,      \* the last revision allocated
  channel,    \* events the subscription's forwarder has not received
  list,       \* list_snapshot, as the forwarder is running it
  stream,     \* the subscription's slots in the outbound queue
  answers,    \* answers to start and stop requests under way
  view,       \* port_forward_sessions
  feed,       \* port_forward_feed_revision
  listed      \* port_forward_list_revision

serverVars == <<published, clock>>
viewVars == <<view, feed, listed>>
feedVars == <<serverVars, channel, list, stream, answers, viewVars>>

NoRow == [rev |-> 0, st |-> "none"]
NoList == [pc |-> "idle", rev |-> 0, todo |-> {}, rows |-> [i \in Rows |-> NoRow]]

FeedInit ==
  /\ published = [i \in Rows |-> NoRow]
  /\ clock = 0
  /\ channel = <<>>
  /\ list = NoList
  /\ stream = <<>>
  /\ answers = {}
  /\ view = [i \in Rows |-> NoRow]
  /\ feed = 0 /\ listed = 0

---------------------------------------------------------------------------
(* The manager *)

(* A revision and its event; a request that asked for the change is answered. *)
PublishRow(i, st) ==
  LET row == [rev |-> clock + 1, st |-> st]
  IN /\ clock < MaxPublications
     /\ clock' = clock + 1
     /\ published' = [published EXCEPT ![i] = row]
     /\ channel' = Append(channel, [id |-> i, row |-> row])
     /\ answers' \in {answers, answers \cup {[id |-> i, row |-> row]}}
     /\ UNCHANGED <<list, stream, viewVars>>

StartRow(i) == published[i] = NoRow /\ list.pc # "reading" /\ PublishRow(i, "Active")

EndRow(i) == published[i].st = "Active" /\ PublishRow(i, "ended")

---------------------------------------------------------------------------
(* The subscription's forwarder *)

(* enqueue_delta: a payload still queued under the key is replaced in its slot. *)
Coalesced(key, message) ==
  IF \E k \in DOMAIN stream : stream[k].key = key
  THEN [k \in DOMAIN stream |-> IF stream[k].key = key THEN [key |-> key, message |-> message]
                                ELSE stream[k]]
  ELSE Append(stream, [key |-> key, message |-> message])

ListKey == <<"list">>

ForwardEvent ==
  /\ list.pc = "idle" /\ channel # <<>>
  /\ stream' = Coalesced(<<"row", Head(channel).id>>, Head(channel))
  /\ channel' = Tail(channel)
  /\ UNCHANGED <<serverVars, list, answers, viewVars>>

(* The reconciliation tick: the baseline is read first, *)
BeginList ==
  /\ list.pc = "idle"
  /\ list' = [NoList EXCEPT !.pc = "based", !.rev = clock]
  /\ UNCHANGED <<serverVars, channel, stream, answers, viewVars>>

(* then, with the state held, expired rows go *)
LockList ==
  /\ list.pc = "based"
  /\ \E gone \in SUBSET {i \in Rows : published[i].st = "ended"} :
       published' = [i \in Rows |-> IF i \in gone THEN [published[i] EXCEPT !.st = "gone"]
                                    ELSE published[i]]
  /\ list' = [list EXCEPT !.pc = "reading",
                          !.todo = {i \in Rows : published'[i].st \in {"Active", "ended"}}]
  /\ UNCHANGED <<clock, channel, stream, answers, viewVars>>

(* and the rest is read, each row under its own lock. *)
ReadRow(i) ==
  /\ list.pc = "reading" /\ i \in list.todo
  /\ list' = [list EXCEPT !.todo = @ \ {i}, !.rows[i] = published[i],
                          !.rev = IF published[i].rev > @ THEN published[i].rev ELSE @]
  /\ UNCHANGED <<serverVars, channel, stream, answers, viewVars>>

SendList ==
  /\ list.pc = "reading" /\ list.todo = {}
  /\ stream' = Coalesced(ListKey, [rev |-> list.rev, rows |-> list.rows])
  /\ list' = NoList
  /\ UNCHANGED <<serverVars, channel, answers, viewVars>>

---------------------------------------------------------------------------
(* The client *)

Larger(m, n) == IF m > n THEN m ELSE n

AnswerNewer(i, row) == row.rev > IF view[i] = NoRow THEN listed ELSE view[i].rev

(* apply_session *)
ApplyAnswer(a) ==
  /\ a \in answers
  /\ answers' = answers \ {a}
  /\ view' = IF AnswerNewer(a.id, a.row) THEN [view EXCEPT ![a.id] = a.row] ELSE view
  /\ feed' = Larger(feed, a.row.rev)
  /\ UNCHANGED <<serverVars, channel, list, stream, listed>>

(* apply_session_event: "covered by an equal/newer list or event" *)
Ignored(event) == event.row.rev <= feed

IsEvent(slot) == slot.key # ListKey

ApplyEvent ==
  LET event == Head(stream).message
  IN /\ stream # <<>> /\ IsEvent(Head(stream))
     /\ stream' = Tail(stream)
     /\ IF Ignored(event)
        THEN UNCHANGED viewVars
        ELSE /\ view' = IF event.row.rev > view[event.id].rev
                        THEN [view EXCEPT ![event.id] = event.row] ELSE view
             /\ feed' = event.row.rev
             /\ UNCHANGED listed
     /\ UNCHANGED <<serverVars, channel, list, answers>>

(* Mutant: a list at the feed's own revision is ignored too. *)
StaleUnlessNewer(l) == l.rev <= feed

Stale(l) == l.rev < feed

(* Mutant: a list replaces every row it names. *)
ListReplacesAll(l) == l.rows

(* Rows the list omits go, rows it names are replaced, unless they are newer. *)
Merged(l) ==
  [i \in Rows |-> IF view[i].rev > (IF l.rows[i] = NoRow THEN l.rev ELSE l.rows[i].rev)
                  THEN view[i] ELSE l.rows[i]]

(* apply_port_forward_list *)
ApplyList ==
  LET l == Head(stream).message
  IN /\ stream # <<>> /\ ~IsEvent(Head(stream))
     /\ stream' = Tail(stream)
     /\ IF Stale(l)
        THEN UNCHANGED viewVars
        ELSE view' = Merged(l) /\ feed' = l.rev /\ listed' = l.rev
     /\ UNCHANGED <<serverVars, channel, list, answers>>

---------------------------------------------------------------------------
ForwarderStep ==
  \/ BeginList \/ LockList \/ SendList
  \/ \E i \in Rows : ReadRow(i)

FeedNext ==
  \/ \E i \in Rows : StartRow(i) \/ EndRow(i)
  \/ ForwardEvent \/ ForwarderStep
  \/ \E a \in answers : ApplyAnswer(a)
  \/ ApplyEvent \/ ApplyList

(* The interval of the forwarder's select ticks on, and frames arrive. *)
FeedFairness ==
  /\ SF_feedVars(ForwardEvent) /\ WF_feedVars(ForwarderStep)
  /\ WF_feedVars(ApplyEvent \/ ApplyList)
  /\ WF_feedVars(\E a \in answers : ApplyAnswer(a))

FeedSpec == FeedInit /\ [][FeedNext]_feedVars /\ FeedFairness

---------------------------------------------------------------------------
FeedTypeOK ==
  /\ clock \in 0..MaxPublications
  /\ \A i \in Rows : published[i].rev \in 0..clock /\ view[i].rev \in 0..clock
  /\ feed \in 0..clock /\ listed \in 0..feed
  /\ Len(stream) <= Cardinality(Rows) + 1
  /\ Len(channel) <= MaxPublications

(* A row the client shows never goes back to an earlier revision. *)
RowsAdvance ==
  [][\A i \in Rows : view[i] # NoRow /\ view'[i] # NoRow => view'[i].rev >= view[i].rev]_feedVars

(* When the manager has come to rest, so does the client, on the same rows:  *)
(* whatever a coalesced slot, a list read in pieces or a late answer made it *)
(* overlook, a later list repairs.                                           *)
FeedConverges ==
  <>[](\A i \in Rows : IF published[i].st \in {"Active", "ended"}
                       THEN view[i] = published[i] ELSE view[i] = NoRow)
=============================================================================
