-------------------------------- MODULE Mux --------------------------------
(***************************************************************************)
(* One bot's update stream, fanned out to the views of the units.  The      *)
(* dispatcher hands each message to the first view that accepts it; a view  *)
(* keeps a bounded backlog, from which its pump feeds the unit, and drops   *)
(* its oldest message when the unit has stopped reading.                    *)
(***************************************************************************)
EXTENDS Integers, Sequences, FiniteSets, SequencesExt

CONSTANTS
  Views,        \* the views that may be made: numbers, the order they match in
  Backlog,      \* the capacity of a view's queue
  LastMessage   \* bound: the length of the stream

MuxAssumption ==
  /\ Views \subseteq Nat /\ IsFiniteSet(Views)
  /\ Backlog \in Nat \ {0} /\ LastMessage \in Nat

VARIABLES
  accepts,    \* for each message of the stream, the views whose match accepts it
  taken,      \* how many messages the dispatcher took from the stream
  routing,    \* the message and the view that accepted it, between match and push
  dispatch,   \* the dispatcher
  muxClosed,  \* whether Close was called
  view,       \* each view: its state, its queue and its pump
  dropped,    \* the count Dropped reports
  given       \* history: the messages each unit was given, in order

muxVars == <<accepts, taken, routing, dispatch, muxClosed, view, dropped, given>>

Idle == [message |-> 0, view |-> 0]
Free == 0   \* the pump holds no message
Unmade == [state |-> "none", queue |-> <<>>, pump |-> "none", held |-> Free]

View == [state : {"none", "open", "closed"}, queue : Seq(1..LastMessage),
         pump : {"none", "running", "ended"}, held : 0..LastMessage]

TypeOK ==
  /\ accepts \in [1..LastMessage -> SUBSET Views] /\ taken \in 0..LastMessage
  /\ routing \in [message : 0..LastMessage, view : Views \cup {0}]
  /\ dispatch \in {"new", "running", "ended"} /\ muxClosed \in BOOLEAN
  /\ view \in [Views -> View]
  /\ dropped \in 0..LastMessage /\ given \in [Views -> Seq(1..LastMessage)]
  \* the backlog is bounded
  /\ \A v \in Views : Len(view[v].queue) <= Backlog

Init ==
  /\ accepts \in [1..LastMessage -> SUBSET Views]
  /\ taken = 0 /\ routing = Idle /\ dispatch = "new" /\ muxClosed = FALSE
  /\ view = [v \in Views |-> Unmade] /\ dropped = 0 /\ given = [v \in Views |-> <<>>]

-----------------------------------------------------------------------------
\* View: made before or after Start, in order.  Behind Close it is closed at once.
MakeView(v) ==
  /\ view[v].state = "none" /\ \A u \in Views : u < v => view[u].state # "none"
  /\ view' = [view EXCEPT ![v].state = IF muxClosed THEN "closed" ELSE "open"]
  /\ UNCHANGED <<accepts, taken, routing, dispatch, muxClosed, dropped, given>>

\* Updates: the unit starts to read, once.
Read(v) ==
  /\ ~muxClosed /\ view[v].state = "open" /\ view[v].pump = "none"
  /\ view' = [view EXCEPT ![v].pump = "running"]
  /\ UNCHANGED <<accepts, taken, routing, dispatch, muxClosed, dropped, given>>

Start ==
  /\ dispatch = "new" /\ ~muxClosed
  /\ dispatch' = "running"
  /\ UNCHANGED <<accepts, taken, routing, muxClosed, view, dropped, given>>

\* route: the first view that is open and accepts; a message nobody accepts is counted.
Match ==
  /\ dispatch = "running" /\ routing = Idle /\ taken < LastMessage
  /\ LET m == taken + 1
         open == {v \in accepts[m] : view[v].state = "open"}
     IN /\ taken' = m
        /\ IF open = {} THEN dropped' = dropped + 1 /\ UNCHANGED routing
           ELSE /\ routing' = [message |-> m, view |-> CHOOSE v \in open : \A u \in open : v <= u]
                /\ UNCHANGED dropped
  /\ UNCHANGED <<accepts, dispatch, muxClosed, view, given>>

\* A mutant of Pushed: a queue that is full grows.
PushedAnyway(q, m) == Append(q, m)

\* queue.push: the backlog with one more message, the oldest dropped when it is full.
Pushed(q, m) == IF Len(q) >= Backlog THEN Append(Tail(q), m) ELSE Append(q, m)
Loses(v) == view[v].state = "closed" \/ Len(view[v].queue) >= Backlog

\* A mutant of Push: only the messages that nobody matched are counted.
PushUncounted ==
  /\ routing # Idle /\ routing' = Idle
  /\ LET v == routing.view
     IN view' = IF view[v].state = "closed" THEN view
                ELSE [view EXCEPT ![v].queue = Pushed(@, routing.message)]
  /\ UNCHANGED <<accepts, taken, dispatch, muxClosed, dropped, given>>

\* push: a closed queue takes nothing, a full one loses its oldest message; both count.
Push ==
  /\ routing # Idle /\ routing' = Idle
  /\ LET v == routing.view
     IN /\ view' = IF view[v].state = "closed" THEN view
                   ELSE [view EXCEPT ![v].queue = Pushed(@, routing.message)]
        /\ dropped' = IF Loses(v) THEN dropped + 1 ELSE dropped
  /\ UNCHANGED <<accepts, taken, dispatch, muxClosed, given>>

-----------------------------------------------------------------------------
\* The pump: it takes the oldest message, and holds it until the unit has room for it.
Pop(v) ==
  /\ view[v].pump = "running" /\ view[v].held = Free /\ view[v].queue # <<>>
  /\ view' = [view EXCEPT ![v].held = Head(view[v].queue), ![v].queue = Tail(@)]
  /\ UNCHANGED <<accepts, taken, routing, dispatch, muxClosed, dropped, given>>

Give(v) ==
  /\ view[v].pump = "running" /\ view[v].held # Free
  /\ given' = [given EXCEPT ![v] = Append(@, view[v].held)]
  /\ view' = [view EXCEPT ![v].held = Free]
  /\ UNCHANGED <<accepts, taken, routing, dispatch, muxClosed, dropped>>

\* The pump ends with a message in its hands, on a close or on its context, or behind a
\* close with none left to take.
PumpEnds(v) ==
  /\ view[v].pump = "running"
  /\ view[v].held = Free => view[v].state = "closed" /\ view[v].queue = <<>>
  /\ view' = [view EXCEPT ![v].pump = "ended"]
  /\ UNCHANGED <<accepts, taken, routing, dispatch, muxClosed, dropped, given>>

\* A view is closed by its unit, or by closeViews.
CloseView(v) ==
  /\ view[v].state = "open"
  /\ view' = [view EXCEPT ![v].state = "closed"]
  /\ UNCHANGED <<accepts, taken, routing, dispatch, muxClosed, dropped, given>>

Close ==
  /\ ~muxClosed /\ muxClosed' = TRUE
  /\ UNCHANGED <<accepts, taken, routing, dispatch, view, dropped, given>>

\* The dispatcher ends, on Close, on its context or with the stream: then the views it
\* knows are closed (one by one: CloseView).
DispatchEnds ==
  /\ dispatch = "running" /\ routing = Idle
  /\ dispatch' = "ended"
  /\ UNCHANGED <<accepts, taken, routing, muxClosed, view, dropped, given>>

Next ==
  \/ Start \/ Match \/ Push \/ Close \/ DispatchEnds
  \/ \E v \in Views : MakeView(v) \/ Read(v) \/ Pop(v) \/ Give(v) \/ PumpEnds(v) \/ CloseView(v)

Spec == Init /\ [][Next]_muxVars

-----------------------------------------------------------------------------
\* "Dropped reports how many inbound messages were lost": while no view has been closed,
\* every message taken from the stream was given to a unit, waits for it, or is counted;
\* a unit is given its messages once and in the order they came, and never those that
\* only another's match accepts.
Held(v) == IF view[v].held = Free THEN <<>> ELSE <<view[v].held>>
Line(v) == given[v] \o Held(v) \o view[v].queue
Waiting == IF routing = Idle THEN 0 ELSE 1
NothingSilentlyLost ==
  /\ \A v \in Views : /\ \A i, j \in DOMAIN Line(v) : i < j => Line(v)[i] < Line(v)[j]
                      /\ \A i \in DOMAIN Line(v) : v \in accepts[Line(v)[i]]
  /\ \A u, v \in Views : u # v => ToSet(Line(u)) \cap ToSet(Line(v)) = {}
  /\ (\A v \in Views : view[v].state # "closed")
       => taken = dropped + Waiting + Cardinality(UNION {ToSet(Line(v)) : v \in Views})

\* Why it holds: the dispatcher works on the last message taken, which is later than all that
\* wait, and for a view that accepts it; and no message counts twice as lost.
Lined == UNION {ToSet(Line(v)) : v \in Views}
MuxInv ==
  /\ TypeOK /\ NothingSilentlyLost
  /\ Lined \subseteq 1..taken /\ dropped + Waiting <= taken
  /\ routing # Idle =>
       /\ routing.message = taken /\ taken \in (1..LastMessage) \ Lined
       /\ routing.view \in accepts[taken] /\ view[routing.view].state # "none"

=============================================================================
