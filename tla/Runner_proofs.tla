--------------------------- MODULE Runner_proofs ---------------------------
(***************************************************************************)
(* Safety of one process, for any units, turns and order of events: what a  *)
(* stop promises, and that what shutdown waits for is a closed set.         *)
(*                                                                         *)
(* RunnerInv is the inductive invariant.  The promise is about the end of a *)
(* shutdown; that it is kept needs who may be left at each of its steps: a  *)
(* pump goes for a reason, the last of them to go speaks for all, and only  *)
(* a member who is enrolled behind it can still be answered.                *)
(***************************************************************************)
EXTENDS Runner, TLAPS

\* The last steps of a shutdown, behind its waits.
Behind == {"mux", "closing", "sessions", "done"}
SomeClosed == \E q \in Pumps : view[q] = "closed"

\* start launches before it serves, and a stop that has begun is on its way.
PlacesFit ==
  /\ at \in {"opened", "counted"} => launching \in First /\ view[launching] # "none"
  /\ at \in {"new", "launching", "opened", "counted"} => ~launched
  /\ at \in {"new", "launching", "opened", "counted", "ready"} => stream = "off"
  /\ at = "new" => Active = {} /\ \A t \in Turns : turn[t] = "none"
  /\ stopping <=> down # "no"
  /\ muxClosed <=> down \in Behind \ {"mux"}
  /\ locked => down = "done"
  /\ down \notin {"no", "intake", "clocks"} => clock = {}
  /\ at = "aborting" => stopping \/ cancelled \/ stream = "broken"

\* Who dispatched a turn, and that whoever runs has a view.
PumpsFit ==
  /\ \A p \in Pumps : pump[p] # "none" => view[p] # "none"
  /\ \A t \in Turns : turn[t] # "none" => of[t] \in Units \cup {Late, Enrol} /\ view[of[t]] # "none"

\* Nothing is left open beside a view that was closed: the stream is over, or the mux.
ViewsFit ==
  /\ \A p \in Pumps : view[p] = "shut" => muxClosed
  /\ SomeClosed => /\ \A p \in Pumps : view[p] # "open"
                   /\ muxClosed \/ stream \in {"broken", "ended"}
  /\ stream = "ended" => cancelled \/ muxClosed

\* A pump goes for a reason, and the last of them says so for all, but for one that is
\* launched behind it, to whom nobody sends anything unless a signal came.
ExitsFit ==
  /\ \A p \in Pumps : pump[p] = "exited" => stopping \/ cancelled \/ SomeClosed
  /\ allDone => (launched \/ stopping) /\ (stopping \/ cancelled \/ SomeClosed)
  /\ allDone /\ Late \in Active => cancelled \/ view[Late] \in {"idle", "shut"}

\* What shutdown waited for, and what it gave up.
WaitsFit ==
  /\ stopping /\ waitFor = "nothing" => Active = {}
  /\ down = "no" => waitFor = "nothing"
  /\ waitFor = "wedged" => unclean /\ down \in Behind
  /\ down \in {"pumpsCut", "turnsCut"} => unclean
  /\ unclean => expired
  /\ down \in {"turns", "turnsCut"} \/ (down \in Behind /\ ~unclean)
       => allDone \/ waitFor = "nothing"
  /\ down \in Behind /\ ~unclean => \A t \in Turns : Alive(t) => Latecomer(t)

RunnerInv ==
  /\ TypeOK /\ PlacesFit /\ PumpsFit /\ ViewsFit /\ ExitsFit /\ WaitsFit
  /\ RepliesAreDelivered /\ StopIsNoError
  \* so that the keys outlive the turns
  /\ LockedAfterTheTurns

-----------------------------------------------------------------------------
\* The pumps' names are different.
LEMMA Names ==
  /\ {Late, Enrol, Backstop} \subseteq Pumps /\ First \subseteq Pumps /\ Units \subseteq Pumps
  /\ Enrol = "enrol" /\ Backstop = "backstop" /\ Late \notin {Enrol, Backstop} /\ Late \notin First
  /\ Enrol \notin Units /\ Backstop \notin Units /\ None \notin Pumps /\ Backstop \in First
BY RunnerAssumption DEF Pumps, First, Enrol, Backstop

\* start, until it waits, and its return.
LEMMA StartKeeps ==
  ASSUME RunnerInv,
         \/ Start \/ Launch \/ LaunchClock \/ Launched \/ StartMux \/ Serve \/ Return
         \/ \E p \in First : Open(p)
  PROVE  RunnerInv'
<1> USE Names DEF RunnerInv, TypeOK, PlacesFit, PumpsFit, ViewsFit, ExitsFit, WaitsFit,
        RepliesAreDelivered, StopIsNoError, LockedAfterTheTurns, Behind, SomeClosed, Active, Alive,
        Latecomer, Ended, First, Pumps, starting, units, stop, calls
<1>1. CASE Start
  BY <1>1 DEF Start
<1>2. ASSUME NEW p \in First, Open(p) PROVE RunnerInv'
  <2>1. TypeOK'
    BY <1>2 DEF Open, Made, IsOpen, Abort
  <2>2. PlacesFit'
    BY <1>2 DEF Open, Made, IsOpen, Abort
  <2>3. PumpsFit'
    BY <1>2 DEF Open, Made, IsOpen, Abort
  <2>4. ViewsFit'
    BY <1>2 DEF Open, Made, IsOpen, Abort
  <2>5. ExitsFit'
    <3>1. \A q \in Pumps : view[q] = "closed" => view'[q] = "closed"
      <4>1. view' = [view EXCEPT ![p] = Made(p)]
        BY <1>2 DEF Open
      <4>2. view[p] = "closed" => Made(p) = "closed"
        BY ONLY DEF Made
      <4> QED
        BY <4>1, <4>2
    <3>2. UNCHANGED <<pump, stopping, cancelled, launched, allDone>> /\ view'[Late] = view[Late]
      BY <1>2 DEF Open
    <3> QED
      BY <3>1, <3>2
  <2>6. WaitsFit'
    BY <1>2 DEF Open, Made, IsOpen, Abort
  <2>7. RepliesAreDelivered'
    BY <1>2 DEF Open, Made, IsOpen, Abort
  <2>8. StopIsNoError'
    BY <1>2 DEF Open, Made, IsOpen, Abort
  <2>9. LockedAfterTheTurns'
    BY <1>2 DEF Open, Made, IsOpen, Abort
  <2> QED
    BY <2>1, <2>2, <2>3, <2>4, <2>5, <2>6, <2>7, <2>8, <2>9
<1>3. CASE Launch
  BY <1>3 DEF Launch, Abort, Counted, Recorded
<1>4. CASE LaunchClock
  BY <1>4 DEF LaunchClock, WithClock
<1>5. CASE Launched
  BY <1>5 DEF Launched
<1>6. CASE StartMux
  <2>1. CASE ~muxClosed /\ stream' = "on" /\ at' = "logging" /\ UNCHANGED launching
    BY <1>6, <2>1 DEF StartMux
  <2>2. CASE muxClosed /\ Abort /\ UNCHANGED stream
    BY <1>6, <2>2 DEF StartMux, Abort
  <2>3. CASE ~muxClosed /\ stream = "off" /\ stream' = "broken" /\ Abort
    BY <1>6, <2>3 DEF StartMux, Abort
  <2> QED
    BY <1>6, <2>1, <2>2, <2>3 DEF StartMux
<1>7. CASE Serve
  BY <1>7 DEF Serve
<1>8. CASE Return
  BY <1>8 DEF Return
<1> QED
  BY <1>1, <1>2, <1>3, <1>4, <1>5, <1>6, <1>7, <1>8

\* Whatever begins a shutdown.
LEMMA StopsKeep ==
  ASSUME RunnerInv,
         Stop \/ Cancel \/ AbortStart \/ EndCancelled \/ EndStream \/ EndStopped
  PROVE  RunnerInv'
<1> USE Names DEF RunnerInv, TypeOK, PlacesFit, PumpsFit, ViewsFit, ExitsFit, WaitsFit,
        RepliesAreDelivered, StopIsNoError, LockedAfterTheTurns, Behind, SomeClosed, Active, Alive,
        Latecomer, Ended, First, Pumps, starting, units, stop, calls
<1>1. CASE Stop
  <2>1. TypeOK'
    <3>1. /\ stopping' \in BOOLEAN /\ down' \in {down, "intake"}
          /\ waitFor' \in {waitFor, "nothing", "pumps"}
      BY <1>1 DEF Stop, Begin
    <3>2. UNCHANGED <<at, returned>>
      BY <1>1 DEF Stop, Begin
    <3> QED
      BY <1>1, <3>1, <3>2 DEF Stop
  <2>2. PlacesFit'
    BY <1>1 DEF Stop, Begin
  <2>3. PumpsFit'
    BY <1>1 DEF Stop, Begin
  <2>4. ViewsFit'
    BY <1>1 DEF Stop, Begin
  <2>5. ExitsFit'
    BY <1>1 DEF Stop, Begin
  <2>6. WaitsFit'
    BY <1>1 DEF Stop, Begin
  <2>7. RepliesAreDelivered'
    BY <1>1 DEF Stop, Begin
  <2>8. StopIsNoError'
    BY <1>1 DEF Stop, Begin
  <2>9. LockedAfterTheTurns'
    BY <1>1 DEF Stop, Begin
  <2> QED
    BY <2>1, <2>2, <2>3, <2>4, <2>5, <2>6, <2>7, <2>8, <2>9
<1>2. CASE Cancel
  BY <1>2 DEF Cancel
<1>3. CASE AbortStart
  <2>1. TypeOK'
    <3>1. /\ stopping' \in BOOLEAN /\ down' \in {down, "intake"}
          /\ waitFor' \in {waitFor, "nothing", "pumps"}
      BY <1>3 DEF AbortStart, Ends, Begin
    <3>2. at' = "waiting" /\ returned' \in {"nil", "error"}
      BY <1>3 DEF AbortStart, Ends, Begin
    <3> QED
      BY <1>3, <3>1, <3>2 DEF AbortStart, Ends
  <2>2. PlacesFit'
    BY <1>3 DEF AbortStart, Ends, Begin
  <2>3. PumpsFit'
    BY <1>3 DEF AbortStart, Ends, Begin
  <2>4. ViewsFit'
    BY <1>3 DEF AbortStart, Ends, Begin
  <2>5. ExitsFit'
    BY <1>3 DEF AbortStart, Ends, Begin
  <2>6. WaitsFit'
    BY <1>3 DEF AbortStart, Ends, Begin
  <2>7. RepliesAreDelivered'
    BY <1>3 DEF AbortStart, Ends, Begin
  <2>8. StopIsNoError'
    BY <1>3 DEF AbortStart, Ends, Begin
  <2>9. LockedAfterTheTurns'
    BY <1>3 DEF AbortStart, Ends, Begin
  <2> QED
    BY <2>1, <2>2, <2>3, <2>4, <2>5, <2>6, <2>7, <2>8, <2>9
<1>4. CASE EndCancelled
  <2>1. TypeOK'
    <3>1. /\ stopping' \in BOOLEAN /\ down' \in {down, "intake"}
          /\ waitFor' \in {waitFor, "nothing", "pumps"}
      BY <1>4 DEF EndCancelled, Ends, Begin
    <3>2. at' = "waiting" /\ returned' = "context"
      BY <1>4 DEF EndCancelled, Ends, Begin
    <3> QED
      BY <1>4, <3>1, <3>2 DEF EndCancelled, Ends
  <2>2. PlacesFit'
    BY <1>4 DEF EndCancelled, Ends, Begin
  <2>3. PumpsFit'
    BY <1>4 DEF EndCancelled, Ends, Begin
  <2>4. ViewsFit'
    BY <1>4 DEF EndCancelled, Ends, Begin
  <2>5. ExitsFit'
    BY <1>4 DEF EndCancelled, Ends, Begin
  <2>6. WaitsFit'
    BY <1>4 DEF EndCancelled, Ends, Begin
  <2>7. RepliesAreDelivered'
    BY <1>4 DEF EndCancelled, Ends, Begin
  <2>8. StopIsNoError'
    BY <1>4 DEF EndCancelled, Ends, Begin
  <2>9. LockedAfterTheTurns'
    BY <1>4 DEF EndCancelled, Ends, Begin
  <2> QED
    BY <2>1, <2>2, <2>3, <2>4, <2>5, <2>6, <2>7, <2>8, <2>9
<1>5. CASE EndStream
  <2>1. TypeOK'
    <3>1. /\ stopping' \in BOOLEAN /\ down' \in {down, "intake"}
          /\ waitFor' \in {waitFor, "nothing", "pumps"}
      BY <1>5 DEF EndStream, Ends, Begin
    <3>2. at' = "waiting" /\ returned' \in {"nil", "error"}
      BY <1>5 DEF EndStream, Ends, Begin
    <3> QED
      BY <1>5, <3>1, <3>2 DEF EndStream, Ends
  <2>2. PlacesFit'
    BY <1>5 DEF EndStream, Ends, Begin
  <2>3. PumpsFit'
    BY <1>5 DEF EndStream, Ends, Begin
  <2>4. ViewsFit'
    BY <1>5 DEF EndStream, Ends, Begin
  <2>5. ExitsFit'
    BY <1>5 DEF EndStream, Ends, Begin
  <2>6. WaitsFit'
    BY <1>5 DEF EndStream, Ends, Begin
  <2>7. RepliesAreDelivered'
    BY <1>5 DEF EndStream, Ends, Begin
  <2>8. StopIsNoError'
    BY <1>5 DEF EndStream, Ends, Begin
  <2>9. LockedAfterTheTurns'
    BY <1>5 DEF EndStream, Ends, Begin
  <2> QED
    BY <2>1, <2>2, <2>3, <2>4, <2>5, <2>6, <2>7, <2>8, <2>9
<1>6. CASE EndStopped
  BY <1>6 DEF EndStopped, Ends, Begin
<1> QED
  BY <1>1, <1>2, <1>3, <1>4, <1>5, <1>6

\* The pumps and the clocks.
LEMMA PumpsKeep ==
  ASSUME RunnerInv,
         \/ \E p \in Pumps : PumpStep(p) \/ ClockEnds(p) \/ \E t \in Turns : Dispatch(p, t)
         \/ \E t \in Turns : StartTutorial(t)
  PROVE  RunnerInv'
<1> USE Names DEF RunnerInv, TypeOK, PlacesFit, PumpsFit, ViewsFit, ExitsFit, WaitsFit,
        RepliesAreDelivered, StopIsNoError, LockedAfterTheTurns, Behind, SomeClosed, Active, Alive,
        Latecomer, Ended, First, Pumps, starting, units, stop, calls
<1>1. ASSUME NEW p \in Pumps, PumpChecks(p) PROVE RunnerInv'
  BY <1>1 DEF PumpChecks, pumpFrame, Draining
<1>2. ASSUME NEW p \in Pumps, PumpEnds(p) PROVE RunnerInv'
  BY <1>2 DEF PumpEnds, pumpFrame, Draining, Exits, Recorded, IsOpen
<1>3. ASSUME NEW p \in Pumps, NEW t \in Turns, Dispatch(p, t) PROVE RunnerInv'
  BY <1>3 DEF Dispatch, Begins, Fed
<1>4. ASSUME NEW t \in Turns, StartTutorial(t) PROVE RunnerInv'
  BY <1>4 DEF StartTutorial, Begins, Fed
<1>5. ASSUME NEW p \in Pumps, Pause(p) PROVE RunnerInv'
  BY <1>5 DEF Pause, pumpFrame
<1>6. ASSUME NEW p \in Pumps, Resume(p) PROVE RunnerInv'
  BY <1>6 DEF Resume, pumpFrame, Recorded
<1>7. ASSUME NEW p \in Pumps, ClockEnds(p) PROVE RunnerInv'
  BY <1>7 DEF ClockEnds, Draining
<1> QED
  BY <1>1, <1>2, <1>3, <1>4, <1>5, <1>6, <1>7 DEF PumpStep

\* The turns, the tutorial's among them.
LEMMA TurnsKeep ==
  ASSUME RunnerInv,
         \E t \in Turns : TurnStep(t) \/ Hang(t)
  PROVE  RunnerInv'
<1> USE Names DEF RunnerInv, TypeOK, PlacesFit, PumpsFit, ViewsFit, ExitsFit, WaitsFit,
        RepliesAreDelivered, StopIsNoError, LockedAfterTheTurns, Behind, SomeClosed, Active, Alive,
        Latecomer, Ended, First, Pumps, starting, units, stop, calls
<1>1. ASSUME NEW t \in Turns, Reply(t) PROVE RunnerInv'
  BY <1>1 DEF Reply, turnFrame, IsOpen
<1>2. ASSUME NEW t \in Turns, CutShort(t) PROVE RunnerInv'
  BY <1>2 DEF CutShort, turnFrame
<1>3. ASSUME NEW t \in Turns, Hang(t) PROVE RunnerInv'
  BY <1>3 DEF Hang, turnFrame
<1>4. ASSUME NEW t \in Turns, Panic(t) PROVE RunnerInv'
  BY <1>4 DEF Panic, turnFrame, Recorded
<1>5. ASSUME NEW t \in Turns, Enrolled(t) PROVE RunnerInv'
  BY <1>5 DEF Enrolled, Made, Recorded
<1>6. ASSUME NEW t \in Turns, LaunchLate(t) PROVE RunnerInv'
  <2>1. TypeOK'
    BY <1>6 DEF LaunchLate, turnFrame, Counted, WithClock, Recorded, IsOpen
  <2>2. PlacesFit'
    <3>1. CASE stopping
      BY <1>6, <3>1 DEF LaunchLate, turnFrame
    <3>2. CASE ~stopping
      <4>1. UNCHANGED <<at, launching, view, launched, stopping, down, muxClosed, locked, cancelled, stream>>
        BY <1>6 DEF LaunchLate, turnFrame
      <4>2. at # "new"
        BY <1>6 DEF LaunchLate
      <4> QED
        BY <3>2, <4>1, <4>2
    <3> QED
      BY <3>1, <3>2
  <2>3. PumpsFit'
    BY <1>6 DEF LaunchLate, turnFrame, Counted, WithClock, Recorded, IsOpen
  <2>4. ViewsFit'
    BY <1>6 DEF LaunchLate, turnFrame, Counted, WithClock, Recorded, IsOpen
  <2>5. ExitsFit'
    BY <1>6 DEF LaunchLate, turnFrame, Counted, WithClock, Recorded, IsOpen
  <2>6. WaitsFit'
    BY <1>6 DEF LaunchLate, turnFrame, Counted, WithClock, Recorded, IsOpen
  <2>7. RepliesAreDelivered'
    BY <1>6 DEF LaunchLate, turnFrame, Counted, WithClock, Recorded, IsOpen
  <2>8. StopIsNoError'
    BY <1>6 DEF LaunchLate, turnFrame, Counted, WithClock, Recorded, IsOpen
  <2>9. LockedAfterTheTurns'
    BY <1>6 DEF LaunchLate, turnFrame, Counted, WithClock, Recorded, IsOpen
  <2> QED
    BY <2>1, <2>2, <2>3, <2>4, <2>5, <2>6, <2>7, <2>8, <2>9
<1> QED
  BY <1>1, <1>2, <1>3, <1>4, <1>5, <1>6 DEF TurnStep

\* The end of the stream, and the steps of shutdown.
LEMMA ShutdownKeeps ==
  ASSUME RunnerInv,
         StreamEnds \/ DispatchEnds \/ DownStep \/ Expire
  PROVE  RunnerInv'
<1> USE Names DEF RunnerInv, TypeOK, PlacesFit, PumpsFit, ViewsFit, ExitsFit, WaitsFit,
        RepliesAreDelivered, StopIsNoError, LockedAfterTheTurns, Behind, SomeClosed, Active, Alive,
        Latecomer, Ended, First, Pumps, starting, units, stop, calls
<1>1. CASE StreamEnds
  BY <1>1 DEF StreamEnds
<1>2. CASE DispatchEnds
  BY <1>2 DEF DispatchEnds
<1>3. CASE StopIntake
  BY <1>3 DEF StopIntake, downFrame, Down
<1>4. CASE ClocksDone
  BY <1>4 DEF ClocksDone, downFrame, Down
<1>5. CASE PumpsDone
  BY <1>5 DEF PumpsDone, downFrame, Down
<1>6. CASE TurnsDone
  BY <1>6 DEF TurnsDone, downFrame, Down
<1>7. CASE Expire
  BY <1>7 DEF Expire, downFrame
<1>8. CASE OutOfTime
  BY <1>8 DEF OutOfTime, downFrame, Down
<1>9. CASE Abandon
  BY <1>9 DEF Abandon, downFrame, Down
<1>10. CASE CloseMux
  BY <1>10 DEF CloseMux, Down
<1>11. CASE MuxClosed
  BY <1>11 DEF MuxClosed, downFrame, Down
<1>12. CASE Stopped
  BY <1>12 DEF Stopped, downFrame, Down, AllStopped
<1> QED
  BY <1>1, <1>2, <1>3, <1>4, <1>5, <1>6, <1>7, <1>8, <1>9, <1>10, <1>11, <1>12 DEF DownStep

LEMMA RunnerInit == Init => RunnerInv
<1> SUFFICES ASSUME Init PROVE RunnerInv
  OBVIOUS
<1>1. TypeOK
  BY Names DEF Init, TypeOK, Active, Ended
<1>2. Active = {} /\ ~SomeClosed
  BY Names DEF Init, Active, SomeClosed
<1> QED
  BY <1>1, <1>2, Names DEF Init, RunnerInv, PlacesFit, PumpsFit, ViewsFit, ExitsFit, WaitsFit,
     RepliesAreDelivered, StopIsNoError, LockedAfterTheTurns, Behind, Alive

\* A shutdown goes on, and a turn begins only where a pump is about to take a message.
LEMMA OnlyForward ==
  ASSUME TypeOK, [Next]_vars
  PROVE  /\ down \notin {"no", "intake", "clocks"} => down' \notin {"no", "intake", "clocks"}
         /\ \A t \in Turns : turn[t] = "none" =>
              \/ turn'[t] = "none"
              \/ \E p \in Pumps : Begins(p, t)
<1>1. CASE UNCHANGED vars
  BY <1>1 DEF vars
<1>2. CASE StartStep \/ Start \/ Stop \/ Cancel
  BY <1>2 DEF StartStep, Start, Open, Launch, LaunchClock, Launched, StartMux, Serve, AbortStart,
     EndCancelled, EndStream, EndStopped, Return, Stop, Cancel, Ends, Begin, units, stop
<1>3. CASE StreamEnds \/ DispatchEnds \/ DownStep \/ Expire
  BY <1>3 DEF StreamEnds, DispatchEnds, DownStep, StopIntake, ClocksDone, PumpsDone, TurnsDone, Expire,
     OutOfTime, Abandon, CloseMux, MuxClosed, Stopped, downFrame, Down, units, stop
<1>4. ASSUME NEW p \in Pumps, PumpStep(p) \/ ClockEnds(p) PROVE UNCHANGED <<down, turn>>
  BY <1>4 DEF PumpStep, PumpChecks, PumpEnds, Pause, Resume, ClockEnds, pumpFrame, stop
<1>5. ASSUME NEW p \in Pumps, NEW s \in Turns, Begins(p, s)
      PROVE  down' = down /\ \A t \in Turns : t # s => turn'[t] = turn[t]
  BY <1>5 DEF Begins, stop, TypeOK
<1>6. ASSUME NEW s \in Turns, TurnStep(s) \/ Hang(s)
      PROVE  down' = down /\ \A t \in Turns : turn[t] = "none" => turn'[t] = turn[t]
  BY <1>6 DEF TurnStep, Hang, Reply, CutShort, Panic, Enrolled, LaunchLate, turnFrame, stop,
     TypeOK
<1> QED
  BY <1>1, <1>2, <1>3, <1>4, <1>5, <1>6, Names DEF Next, Dispatch, StartTutorial

LEMMA RunnerNext == RunnerInv /\ [Next]_vars => RunnerInv'
<1> SUFFICES ASSUME RunnerInv, [Next]_vars PROVE RunnerInv'
  OBVIOUS
<1>1. CASE UNCHANGED vars
  BY <1>1 DEF vars, RunnerInv, TypeOK, PlacesFit, PumpsFit, ViewsFit, ExitsFit, WaitsFit,
     RepliesAreDelivered, StopIsNoError, LockedAfterTheTurns, SomeClosed, Active, Alive, Latecomer
<1>2. CASE Next
  BY <1>2, StartKeeps, StopsKeep, PumpsKeep, TurnsKeep, ShutdownKeeps DEF Next, StartStep
<1> QED
  BY <1>1, <1>2

-----------------------------------------------------------------------------
\* Every reachable state satisfies the inductive invariant, for any units and turns.
THEOREM RunnerInvariant == Spec => []RunnerInv
BY RunnerInit, RunnerNext, PTL DEF Spec

\* The process's types, and that no pump but a latecomer's is left when all are said to be gone.
THEOREM RunnerTypesHold == Spec => []TypeOK
<1>1. RunnerInv => TypeOK
  BY DEF RunnerInv
<1> QED
  BY <1>1, RunnerInvariant, PTL

\* What a stop promises, wherever it lands (runner.go): a drain with time left loses no reply, the
\* sessions are locked behind the turns, and a clean stop is no error.
THEOREM AStopKeepsItsWord == Spec => []StopKeepsItsWord
<1>1. RunnerInv => StopKeepsItsWord
  BY DEF RunnerInv, StopKeepsItsWord
<1> QED
  BY <1>1, RunnerInvariant, PTL

\* While shutdown waits for the turns no other begins, and no clock runs behind the wait for them.
THEOREM TheTurnsAreAClosedSet == Spec => WaitsForAClosedSet
<1> DEFINE Closed ==
      /\ down \in {"turns", "turnsCut"}
           => \A t \in Turns : turn[t] = "none" => turn'[t] = "none" \/ Latecomer(t)'
      /\ down \notin {"no", "intake", "clocks"} => clock' = {}
<1>1. RunnerInv /\ [Next]_vars => [Closed]_vars
  <2> SUFFICES ASSUME RunnerInv, [Next]_vars PROVE Closed \/ UNCHANGED vars
    OBVIOUS
  <2>1. RunnerInv'
    BY RunnerNext
  <2>2. down \notin {"no", "intake", "clocks"} => clock' = {}
    BY <2>1, OnlyForward DEF RunnerInv, PlacesFit
  <2>3. ASSUME down \in {"turns", "turnsCut"}, NEW t \in Turns, NEW p \in Pumps, Begins(p, t)
        PROVE  Latecomer(t)'
    <3>1. p \in Active /\ Fed(p) /\ of'[t] = p /\ cancelled' = cancelled
      BY <2>3 DEF Begins, Active, RunnerInv, TypeOK, calls
    <3>2. p = Late /\ allDone
      BY <2>3, <3>1 DEF RunnerInv, TypeOK, WaitsFit, PlacesFit
    <3> QED
      BY <3>1, <3>2 DEF RunnerInv, ExitsFit, Fed, Latecomer
  <2> QED
    BY <2>2, <2>3, OnlyForward DEF RunnerInv
<1> QED
  BY <1>1, RunnerInvariant, PTL DEF Spec, WaitsForAClosedSet

=============================================================================
