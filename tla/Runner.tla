------------------------------- MODULE Runner -------------------------------
(***************************************************************************)
(* One process of the household: start, which launches a pump for every     *)
(* unit and then the stream that feeds them; the turns the pumps dispatch,  *)
(* which may finish, panic or hang; a member who is enrolled meanwhile and  *)
(* gets a unit of their own; and the shutdown, which a Stop, a cancelled    *)
(* context or the end of the stream may begin at any moment of all that.    *)
(*                                                                         *)
(* A turn is a token: which message it answers does not matter here, only   *)
(* whether its reply still finds its view open.  A turn of the enrolment    *)
(* pump is a tutorial, at whose end the new member's unit is launched.      *)
(***************************************************************************)
EXTENDS FiniteSets

CONSTANTS
  Units,   \* the units built before start
  Late,    \* the unit of the member who is enrolled while the process runs
  Turns,   \* the turns that may be dispatched
  None

Enrol == "enrol"
Backstop == "backstop"
Pumps == Units \cup {Late, Enrol, Backstop}
\* The pumps start launches: the units, then enrolment and the backstop.
First == Units \cup {Enrol, Backstop}

ASSUME RunnerAssumption ==
  /\ IsFiniteSet(Units) /\ IsFiniteSet(Turns)
  /\ Late \notin Units /\ {Enrol, Backstop} \cap (Units \cup {Late}) = {}
  /\ None \notin Pumps

VARIABLES
  at,        \* where start is
  launching, \* the pump it is launching
  returned,  \* what start returned
  view,      \* each pump's view of the bot's stream
  pump,      \* each pump's goroutine
  crashed,   \* the pumps that have a panic to read from panicCh
  clock,     \* the reminder clocks that run
  health,    \* the tracker's records
  turn,      \* each turn
  of,        \* the pump that dispatched it
  stream,    \* the underlying stream and the mux's dispatcher
  muxClosed, allDone, stopping, launched,
  down,      \* where shutdown is
  waitFor,   \* whether shutdown has pumps to wait for, and saw them end
  expired,   \* the drain's context is done
  turnsCut,  \* turnCtx is cancelled
  locked,    \* the sessions are locked
  unclean,   \* stopErr is set
  stopCalled, cancelled

vars == <<at, launching, returned, view, pump, crashed, clock, health, turn, of, stream, muxClosed,
          allDone, stopping, launched, down, waitFor, expired, turnsCut, locked, unclean,
          stopCalled, cancelled>>
starting == <<at, launching, returned, launched>>
units == <<view, pump, crashed, clock, health, turn, of>>
stop == <<stopping, down, waitFor, expired, turnsCut, locked, unclean>>
calls == <<stopCalled, cancelled>>

Ended == {"spoke", "refused", "cut", "panicked"}
Alive(t) == turn[t] \in {"running", "hanging"}
Active == {p \in Pumps : pump[p] \notin {"none", "exited"}}

TypeOK ==
  /\ at \in {"new", "launching", "opened", "counted", "ready", "logging", "serving",
          "signalled", "aborting", "waiting", "returned"}
  /\ launching \in Pumps \cup {None}
  /\ returned \in {"nothing", "nil", "context", "error", "refused"}
  /\ view \in [Pumps -> {"none", "open", "closed", "idle", "shut"}]
  /\ pump \in [Pumps -> {"none", "checking", "selecting", "sleeping", "exited"}]
  /\ crashed \subseteq Units \cup {Late} /\ clock \subseteq Units \cup {Late}
  /\ health \in [Units \cup {Late} -> {"notEnrolled", "unknown", "starting", "ready", "failed", "stopped"}]
  /\ turn \in [Turns -> Ended \cup {"none", "running", "hanging"}]
  /\ of \in [Turns -> Pumps \cup {None}]
  /\ stream \in {"off", "on", "failing", "broken", "ended"}
  /\ {muxClosed, allDone, stopping, launched, expired, turnsCut, locked, unclean, stopCalled, cancelled}
       \subseteq BOOLEAN
  /\ down \in {"no", "intake", "clocks", "pumps", "pumpsCut", "turns", "turnsCut", "mux", "closing",
               "sessions", "done"}
  /\ waitFor \in {"nothing", "pumps", "wedged"}
  \* allDone says that every pump is gone, but for one that is launched behind it
  /\ allDone => Active \subseteq {Late}

Init ==
  /\ at = "new" /\ launching = None /\ returned = "nothing" /\ launched = FALSE
  /\ view = [p \in Pumps |-> IF p \in Units THEN "open" ELSE "none"]
  /\ pump = [p \in Pumps |-> "none"] /\ crashed = {} /\ clock = {}
  /\ health = [u \in Units \cup {Late} |-> IF u = Late THEN "notEnrolled" ELSE "unknown"]
  /\ turn = [t \in Turns |-> "none"] /\ of = [t \in Turns |-> None]
  /\ stream = "off" /\ muxClosed = FALSE /\ allDone = FALSE
  /\ stopping = FALSE /\ down = "no" /\ waitFor = "nothing"
  /\ expired = FALSE /\ turnsCut = FALSE /\ locked = FALSE /\ unclean = FALSE
  /\ stopCalled = FALSE /\ cancelled = FALSE

-----------------------------------------------------------------------------
\* start: a runner starts once, and not after a stop.
Start ==
  /\ at = "new"
  /\ IF stopping THEN at' = "returned" /\ returned' = "refused"
                 ELSE at' = "launching" /\ UNCHANGED returned
  /\ UNCHANGED <<launching, launched, units, stream, muxClosed, allDone, stop, calls>>

\* A launch that fails sends start to abortStart, which first looks whether a stop is
\* already in progress.
Abort == at' = "aborting" /\ launching' = None

\* launch, launchEnrol, launchBackstop: the view is made where there is none, and its
\* updates are opened.  A closed mux or view refuses.  A view made behind the end of the
\* stream is idle: nothing will feed it, and only the mux's Close shuts it.
Made(p) == IF view[p] # "none" THEN view[p]
           ELSE IF muxClosed THEN "shut"
           ELSE IF stream \in {"broken", "ended"} THEN "idle" ELSE "open"
IsOpen(v) == v \in {"open", "idle"}
Open(p) ==
  /\ at = "launching" /\ p \in First /\ pump[p] = "none"
  /\ p = Enrol => \A u \in Units : pump[u] # "none"
  /\ p = Backstop => \A q \in First \ {Backstop} : pump[q] # "none"
  /\ view' = [view EXCEPT ![p] = Made(p)]
  /\ IF muxClosed \/ ~IsOpen(Made(p)) THEN Abort
                                      ELSE at' = "opened" /\ launching' = p
  /\ UNCHANGED <<returned, launched, pump, crashed, clock, health, turn, of, stream, muxClosed, allDone,
                 stop, calls>>

\* What the tracker records of a unit; it has no record of enrolment and the backstop.
Recorded(p, state) == IF p \in Units \cup {Late} THEN [health EXCEPT ![p] = state] ELSE health

\* The pump is counted and its goroutine begins: a unit is starting, and then ready.
Counted(p) ==
  /\ pump' = [pump EXCEPT ![p] = IF p = Backstop THEN "selecting" ELSE "checking"]
  /\ health' = Recorded(p, "ready")

\* A mutant of Launch: nobody asks whether a stop has begun.
LaunchRegardless ==
  /\ at = "opened"
  /\ Counted(launching) /\ at' = "counted" /\ UNCHANGED launching
  /\ UNCHANGED <<returned, launched, view, crashed, clock, turn, of, stream, muxClosed, allDone, stop, calls>>

Launch ==
  /\ at = "opened"
  /\ IF stopping THEN Abort /\ UNCHANGED <<pump, health>>
                 ELSE Counted(launching) /\ at' = "counted" /\ UNCHANGED launching
  /\ UNCHANGED <<returned, launched, view, crashed, clock, turn, of, stream, muxClosed, allDone, stop, calls>>

\* A mutant of WithClock: the clock begins whatever has happened since.
WithClockRegardless(p) == clock' = IF p \in {Enrol, Backstop} THEN clock ELSE clock \cup {p}

\* launchClock: a unit's clock begins, unless a stop has.
WithClock(p) == clock' = IF p \in {Enrol, Backstop} \/ stopping THEN clock ELSE clock \cup {p}

LaunchClock ==
  /\ at = "counted"
  /\ WithClock(launching)
  /\ at' = "launching" /\ launching' = None
  /\ UNCHANGED <<returned, launched, view, pump, crashed, health, turn, of, stream, muxClosed, allDone,
                 stop, calls>>

\* Everything is launched.  No pump left means that none will ever say so.
Launched ==
  /\ at = "launching" /\ \A p \in First : pump[p] # "none"
  /\ launched' = TRUE /\ at' = "ready"
  /\ allDone' = (allDone \/ Active = {})
  /\ UNCHANGED <<launching, returned, units, stream, muxClosed, stop, calls>>

\* mux.Start: the stream is opened and dispatched, unless the mux is closed or the
\* transport refuses.
StartMux ==
  /\ at = "ready"
  /\ \/ ~muxClosed /\ stream' = "on" /\ at' = "logging" /\ UNCHANGED launching
     \/ muxClosed /\ Abort /\ UNCHANGED stream
     \/ ~muxClosed /\ stream = "off" /\ stream' = "broken" /\ Abort
  /\ UNCHANGED <<returned, launched, units, muxClosed, allDone, stop, calls>>

\* start logs what it serves and then waits; of what has happened by then it takes
\* either.
Serve ==
  /\ at = "logging"
  /\ \/ cancelled /\ at' = "signalled"
     \/ (cancelled => allDone \/ down = "done") /\ at' = "serving"
  /\ UNCHANGED <<launching, returned, launched, units, stream, muxClosed, allDone, stop, calls>>

-----------------------------------------------------------------------------
\* shutdown is called: the first call begins it, every call waits for its end.
Begin == IF down = "no" THEN /\ stopping' = TRUE /\ down' = "intake"
                             /\ waitFor' = IF at # "new" /\ Active # {} THEN "pumps" ELSE "nothing"
                        ELSE UNCHANGED <<stopping, down, waitFor>>

\* Stop is called, before start or at any time after.
Stop ==
  /\ ~stopCalled /\ stopCalled' = TRUE
  /\ Begin
  /\ UNCHANGED <<starting, units, stream, muxClosed, allDone, expired, turnsCut, locked, unclean, cancelled>>

\* start's context is cancelled, by a signal, which wakes a start that waits.
Cancel ==
  /\ ~cancelled /\ at # "new" /\ cancelled' = TRUE
  /\ at' = IF at = "serving" /\ ~allDone /\ down # "done" THEN "signalled" ELSE at
  /\ UNCHANGED <<launching, returned, launched, units, stream, muxClosed, allDone, stop, stopCalled>>

\* The end of start: its own shutdown, and what it will return after it.
Ends(r) == at' = "waiting" /\ returned' = r /\ Begin
           /\ UNCHANGED <<launching, launched, units, stream, muxClosed, allDone, expired, turnsCut, locked,
                          unclean, calls>>

\* A mutant of AbortStart: a launch that was refused is an error, whoever refused it.
AbortStartAnyway == at = "aborting" /\ Ends("error")

AbortStart == at = "aborting" /\ Ends(IF stopping THEN "nil" ELSE "error")
EndCancelled == at = "signalled" /\ Ends("context")
EndStream == at = "serving" /\ allDone /\ Ends(IF stopping THEN "nil" ELSE "error")
EndStopped == at = "serving" /\ down = "done" /\ Ends("nil")
Return ==
  /\ at = "waiting" /\ down = "done" /\ at' = "returned"
  /\ UNCHANGED <<launching, returned, launched, units, stream, muxClosed, allDone, stop, calls>>

-----------------------------------------------------------------------------
\* A mutant of Exits: the first pump that is gone speaks for all.
ExitsForAll(p) ==
  /\ pump' = [pump EXCEPT ![p] = "exited"]
  /\ health' = Recorded(p, "stopped")
  /\ allDone' = (allDone \/ launched \/ stopping)

\* A mutant of Exits: a stop in progress does not make the count final.
ExitsUnlessLaunching(p) ==
  /\ pump' = [pump EXCEPT ![p] = "exited"]
  /\ health' = Recorded(p, "stopped")
  /\ allDone' = (allDone \/ (Active = {p} /\ launched))

\* workerDone: the pump is gone.  The last of them says so, once every pump is
\* launched or none will be any more.
Exits(p) ==
  /\ pump' = [pump EXCEPT ![p] = "exited"]
  /\ health' = Recorded(p, "stopped")
  /\ allDone' = (allDone \/ (Active = {p} /\ (launched \/ stopping)))

\* The drain signal: shutdown has closed the channel the pumps watch.
Draining == down \notin {"no", "intake"}
pumpFrame == <<starting, view, clock, of, stream, muxClosed, stop, calls>>

\* A pump looks for the drain and for a panic before it takes a message ...
PumpChecks(p) ==
  /\ pump[p] = "checking" /\ ~Draining /\ p \notin crashed
  /\ pump' = [pump EXCEPT ![p] = "selecting"]
  /\ UNCHANGED <<pumpFrame, crashed, health, turn, allDone>>

\* ... and ends on the drain, or when its view gives it nothing more.
PumpEnds(p) ==
  /\ \/ pump[p] \in {"checking", "selecting", "sleeping"} /\ Draining
     \/ pump[p] = "selecting" /\ (~IsOpen(view[p]) \/ (cancelled /\ stream # "off"))
  /\ Exits(p)
  /\ UNCHANGED <<pumpFrame, crashed, turn>>

\* A view that was made while the stream was dispatched may hold messages.
Fed(p) == view[p] \in {"open", "closed"} /\ stream # "off"

\* A message is taken, and what answers it begins on a goroutine that turnWg counts.
Begins(p, t) ==
  /\ pump[p] = "selecting" /\ Fed(p) /\ turn[t] = "none"
  /\ turn' = [turn EXCEPT ![t] = "running"] /\ of' = [of EXCEPT ![t] = p]
  /\ pump' = [pump EXCEPT ![p] = "checking"]
  /\ UNCHANGED <<starting, view, clock, stream, muxClosed, stop, calls, crashed, health, allDone>>

\* A unit's pump dispatches a turn.
Dispatch(p, t) == p \in Units \cup {Late} /\ Begins(p, t)

\* A stranger's code enrols them, and their tutorial begins; what else the enrolment pump
\* is sent is a code that is refused, or an answer for a tutorial, and begins nothing.
StartTutorial(t) == Begins(Enrol, t)

\* restartAfterPanic: intake pauses for the unit's back-off, and begins again.
Pause(p) ==
  /\ pump[p] \in {"checking", "selecting"} /\ p \in crashed
  /\ pump' = [pump EXCEPT ![p] = "sleeping"] /\ crashed' = crashed \ {p}
  /\ UNCHANGED <<pumpFrame, health, turn, allDone>>

\* A mutant of Resume: the record is left as the panic left it.
ResumeFailed(p) ==
  /\ pump[p] = "sleeping"
  /\ pump' = [pump EXCEPT ![p] = "checking"]
  /\ UNCHANGED <<pumpFrame, crashed, health, turn, allDone>>

Resume(p) ==
  /\ pump[p] = "sleeping"
  /\ pump' = [pump EXCEPT ![p] = "checking"] /\ health' = Recorded(p, "ready")
  /\ UNCHANGED <<pumpFrame, crashed, turn, allDone>>

-----------------------------------------------------------------------------
turnFrame == <<starting, view, of, stream, muxClosed, allDone, stop, calls>>

\* A turn sends its reply through its view, which refuses when it or the mux is closed.
Reply(t) ==
  /\ turn[t] = "running" /\ of[t] # Enrol
  /\ turn' = [turn EXCEPT ![t] = IF ~IsOpen(view[of[t]]) \/ muxClosed THEN "refused" ELSE "spoke"]
  /\ UNCHANGED <<turnFrame, pump, crashed, clock, health>>

\* A turn whose context is cancelled ends at its next step.
CutShort(t) ==
  /\ turn[t] = "running" /\ of[t] # Enrol /\ turnsCut
  /\ turn' = [turn EXCEPT ![t] = "cut"]
  /\ UNCHANGED <<turnFrame, pump, crashed, clock, health>>

\* A turn that hangs answers to no cancellation.
Hang(t) ==
  /\ turn[t] = "running" /\ of[t] # Enrol
  /\ turn' = [turn EXCEPT ![t] = "hanging"]
  /\ UNCHANGED <<turnFrame, pump, crashed, clock, health>>

\* A panic ends the turn alone; its pump is told, unless it is told already.
Panic(t) ==
  /\ turn[t] = "running" /\ of[t] # Enrol
  /\ turn' = [turn EXCEPT ![t] = "panicked"]
  /\ crashed' = crashed \cup {of[t]}
  /\ health' = Recorded(of[t], "failed")
  /\ UNCHANGED <<turnFrame, pump, clock>>

\* The tutorial is over, or was cut or panicked: the member's unit is built and its
\* updates are opened, all of it on the tutorial's goroutine.
Enrolled(t) ==
  /\ turn[t] = "running" /\ of[t] = Enrol /\ view[Late] = "none"
  /\ view' = [view EXCEPT ![Late] = Made(Late)]
  /\ health' = Recorded(Late, "starting")
  /\ UNCHANGED <<starting, pump, crashed, clock, turn, of, stream, muxClosed, allDone, stop, calls>>

\* Its launch is refused by a stop or a closed view, and the turn is over either way.
LaunchLate(t) ==
  /\ turn[t] = "running" /\ of[t] = Enrol /\ view[Late] # "none"
  /\ turn' = [turn EXCEPT ![t] = "spoke"]
  /\ IF pump[Late] = "none" /\ IsOpen(view[Late]) /\ ~muxClosed /\ ~stopping
     THEN Counted(Late) /\ WithClock(Late)
     ELSE UNCHANGED <<pump, health, clock>>
  /\ UNCHANGED <<turnFrame, crashed>>

\* A clock returns when it sees the cancellation.
ClockEnds(p) ==
  /\ p \in clock /\ Draining
  /\ clock' = clock \ {p}
  /\ UNCHANGED <<starting, view, pump, crashed, health, turn, of, stream, muxClosed, allDone, stop, calls>>

-----------------------------------------------------------------------------
\* The transport's stream ends under the dispatcher, or start's context does.
StreamEnds ==
  /\ stream = "on" /\ stream' = "failing"
  /\ UNCHANGED <<starting, units, muxClosed, allDone, stop, calls>>

\* The dispatcher ends, and closes every view that was made by then.
DispatchEnds ==
  /\ \/ stream = "failing" /\ stream' = "broken"
     \/ stream = "on" /\ (cancelled \/ muxClosed) /\ stream' = "ended"
  /\ view' = [p \in Pumps |-> IF view[p] = "open" THEN "closed" ELSE view[p]]
  /\ UNCHANGED <<starting, pump, crashed, clock, health, turn, of, muxClosed, allDone, stop, calls>>

-----------------------------------------------------------------------------
\* The steps of shutdown, in their order.
downFrame == <<starting, view, pump, crashed, clock, turn, of, stream, allDone, stopping, calls>>
Down(from, to) == down = from /\ down' = to

\* Intake stops, and the clocks with it; the clocks are waited for.
StopIntake ==
  /\ Down("intake", "clocks")
  /\ UNCHANGED <<downFrame, health, muxClosed, waitFor, expired, turnsCut, locked, unclean>>
ClocksDone ==
  /\ Down("clocks", "pumps") /\ clock = {}
  /\ UNCHANGED <<downFrame, health, muxClosed, waitFor, expired, turnsCut, locked, unclean>>

\* A mutant of PumpsDone: the mux is closed before the turns are waited for.
PumpsDoneTurnsNot ==
  /\ waitFor = "pumps" => allDone
  /\ Down("pumps", "mux") \/ Down("pumpsCut", "mux")
  /\ UNCHANGED <<downFrame, health, muxClosed, waitFor, expired, turnsCut, locked, unclean>>

\* The pumps are waited for, then the turns, which are a closed set by then.
PumpsDone ==
  /\ waitFor = "pumps" => allDone
  /\ Down("pumps", "turns") \/ Down("pumpsCut", "turns")
  /\ UNCHANGED <<downFrame, health, muxClosed, waitFor, expired, turnsCut, locked, unclean>>
TurnsDone ==
  /\ \A t \in Turns : ~Alive(t)
  /\ Down("turns", "mux") \/ Down("turnsCut", "mux")
  /\ UNCHANGED <<downFrame, health, muxClosed, waitFor, expired, turnsCut, locked, unclean>>

\* The context of the shutdown is done: what is still waited for is cancelled, and
\* given one last grace.
Expire ==
  /\ down \in {"pumps", "turns"} /\ ~expired /\ expired' = TRUE
  /\ UNCHANGED <<downFrame, down, health, muxClosed, waitFor, turnsCut, locked, unclean>>
ExpireOnHang == (\E t \in Turns : turn[t] = "hanging") /\ Expire
OutOfTime ==
  /\ expired
  /\ (Down("pumps", "pumpsCut") /\ waitFor = "pumps") \/ Down("turns", "turnsCut")
  /\ unclean' = TRUE /\ turnsCut' = TRUE
  /\ UNCHANGED <<downFrame, health, muxClosed, waitFor, expired, locked>>
Abandon ==
  /\ \/ Down("pumpsCut", "mux") /\ waitFor' = "wedged"
     \/ Down("turnsCut", "mux") /\ UNCHANGED waitFor
  /\ UNCHANGED <<downFrame, health, muxClosed, expired, turnsCut, locked, unclean>>

\* Only now is the mux closed: it and its views refuse from here on.
CloseMux ==
  /\ Down("mux", "closing") /\ muxClosed' = TRUE
  /\ view' = [p \in Pumps |-> CASE view[p] = "open" -> "closed" [] view[p] = "idle" -> "shut"
                                 [] OTHER -> view[p]]
  /\ UNCHANGED <<starting, pump, crashed, clock, turn, of, stream, allDone, stopping, calls, health, waitFor,
                 expired, turnsCut, locked, unclean>>
MuxClosed ==
  /\ Down("closing", "sessions") /\ stream \in {"off", "broken", "ended"}
  /\ UNCHANGED <<downFrame, health, muxClosed, waitFor, expired, turnsCut, locked, unclean>>

\* Every live record says so: who is not enrolled still is not.
AllStopped == [u \in Units \cup {Late} |-> IF health[u] = "notEnrolled" THEN "notEnrolled" ELSE "stopped"]

\* The turns' context is cancelled, the sessions are locked and the records say so.
Stopped ==
  /\ Down("sessions", "done")
  /\ turnsCut' = TRUE /\ locked' = TRUE /\ health' = AllStopped
  /\ UNCHANGED <<downFrame, muxClosed, waitFor, expired, unclean>>

-----------------------------------------------------------------------------
StartStep == (\E p \in First : Open(p)) \/ Launch \/ LaunchClock \/ Launched \/ StartMux \/ Serve
             \/ AbortStart \/ EndCancelled \/ EndStream \/ EndStopped \/ Return
DownStep == StopIntake \/ ClocksDone \/ PumpsDone \/ TurnsDone \/ OutOfTime \/ Abandon \/ CloseMux
            \/ MuxClosed \/ Stopped
PumpStep(p) == PumpChecks(p) \/ PumpEnds(p) \/ Pause(p) \/ Resume(p)
TurnStep(t) == Reply(t) \/ CutShort(t) \/ Panic(t) \/ Enrolled(t) \/ LaunchLate(t)

Next ==
  \/ Start \/ StartStep \/ Stop \/ Cancel \/ StreamEnds \/ DispatchEnds \/ DownStep \/ Expire
  \/ \E p \in Pumps : PumpStep(p) \/ ClockEnds(p) \/ (\E t \in Turns : Dispatch(p, t))
  \/ \E t \in Turns : TurnStep(t) \/ Hang(t) \/ StartTutorial(t)

\* The goroutines run.  A turn that does not hang ends; the drain's context is only
\* relied on to be done when one hangs.
Fairness ==
  /\ WF_vars(StartStep) /\ WF_vars(DownStep) /\ WF_vars(DispatchEnds)
  /\ \A p \in Pumps : WF_vars(PumpStep(p)) /\ WF_vars(ClockEnds(p))
  /\ \A t \in Turns : WF_vars(TurnStep(t))
  /\ WF_vars(ExpireOnHang)

Spec == Init /\ [][Next]_vars /\ Fairness

-----------------------------------------------------------------------------
\* A drain with time left loses no reply: a view refuses a turn's reply only when the
\* stream broke, start's context was cancelled or the drain ran out of time.
RepliesAreDelivered ==
  \A t \in Turns : turn[t] = "refused" => expired \/ cancelled \/ stream = "broken"

\* The same of a start whose context is cancelled, which "drains exactly as Stop does".
RepliesSurviveASignal ==
  \A t \in Turns : turn[t] = "refused" => expired \/ stream = "broken"

\* A signal may end every other pump before the unit of a member who was just enrolled
\* is counted: the drain does not wait for that one.
Latecomer(t) == cancelled /\ of[t] = Late

\* The sessions are locked when no turn is left that could need its key, unless the
\* drain gave up on it.
LockedAfterTheTurns ==
  locked /\ ~unclean => \A t \in Turns : Alive(t) => Latecomer(t)

\* While the turns are waited for no other begins, and once the clocks have been waited
\* for no reminder fires.
WaitsForAClosedSet ==
  [][/\ down \in {"turns", "turnsCut"}
          => \A t \in Turns : turn[t] = "none" => turn'[t] = "none" \/ Latecomer(t)'
     /\ down \notin {"no", "intake", "clocks"} => clock' = {}]_vars

\* start reports an error only when the transport gave one or the stream broke; a stop
\* that lands anywhere in it is a clean stop.  A signal that lands while start logs may
\* be read as the end of the stream it brings about.
StopIsNoError == returned = "error" => stream = "broken" \/ cancelled

\* What a stop promises: the replies under way go out, then the keys go, and it is no failure.
StopKeepsItsWord == RepliesAreDelivered /\ LockedAfterTheTurns /\ StopIsNoError

\* A stop that is called returns, and start with it, without the drain's context having
\* to run out unless a turn hangs.  The end of the stream ends the process too, unless the
\* unit of a member who was enrolled behind it still waits for messages nobody sends.
ProcessEnds ==
  /\ stopCalled /\ at # "new" ~> down = "done" /\ at = "returned"
  /\ stream = "broken" ~> at = "returned" \/ Late \in Active

\* A unit whose turn panicked takes messages again, and its record says so.
PanickedUnitServes ==
  \A p \in Units : p \in crashed ~> (pump[p] = "selecting" /\ health[p] = "ready") \/ pump[p] = "exited"

=============================================================================
