------------------------------ MODULE Reminders ------------------------------
(***************************************************************************)
(* One unit's reminders: the store in memory, the file it is saved to, and  *)
(* the clock that claims what is due and sends it.  The unit's turns set    *)
(* and cancel reminders while the clock is sending; a save may fail, the    *)
(* process may stop or be killed anywhere, and a node that is off misses    *)
(* occurrences.                                                             *)
(*                                                                         *)
(* Time is a natural number and a day lasts DayLength of it.  A reminder is *)
(* named by the Add that made it, its text, its chat and its code are left  *)
(* out, and the store is a function rather than a list sorted by due time:  *)
(* reminders due at the same moment are taken in any order.                 *)
(***************************************************************************)
EXTENDS Integers, FiniteSets

CONSTANTS
  Ids,        \* the reminders that may be set
  DayLength,  \* the length of the household's day
  Periods,    \* how often a reminder may repeat: a day or a week
  MaxPerDay,  \* Options.MaxPerDay
  MaxStored,  \* Options.MaxStored
  CatchUp,    \* Options.CatchUp, in whole moments
  MaxTime,    \* bound: the last moment
  LastOff,    \* bound: the moment by which a node that is off is on again
  LastDue,    \* bound: the latest first occurrence
  MaxFaults,  \* bound: saves that fail
  MaxStops    \* bound: times the process stops or is killed

ASSUME RemindersAssumption ==
  /\ IsFiniteSet(Ids)
  /\ DayLength \in Nat \ {0} /\ Periods \subseteq Nat \ {0}
  /\ MaxPerDay \in Int \ {0} /\ MaxStored \in Nat \ {0} /\ CatchUp \in Nat
  /\ MaxTime \in Nat /\ LastOff \in Nat /\ LastDue \in Nat /\ MaxFaults \in Nat /\ MaxStops \in Nat

VARIABLES
  now,      \* the time
  up,       \* the process runs
  store,    \* Store.data: what the running process holds
  file,     \* the contents of the store's file
  outbox,   \* the fires of the clock's pass that are still to be sent
  told,     \* what the member was last told about each reminder
  claimed,  \* history: every fire that was handed over to be sent
  faults,   \* how many saves have failed
  stops     \* how often the process has stopped

vars == <<now, up, store, file, outbox, told, claimed, faults, stops>>

Once == 0

\* A reminder that repeats every so often, or once, and is due next at next.
Reminder == [every : Periods \cup {Once}, next : Nat]
Absent == [every |-> Once, next |-> -1]

\* contents: the reminders, and the day's ledger of unprompted messages.
Contents == [items : [Ids -> Reminder \cup {Absent}], day : Nat, count : Nat]
Empty == [items |-> [i \in Ids |-> Absent], day |-> 0, count |-> 0]

\* A claimed occurrence, and the day it was claimed on.
Fires == [id : Ids, due : Nat, day : Nat]

Answers == {"nothing", "set", "notSet", "cancelled", "notCancelled"}

Held(c) == {i \in Ids : c.items[i] # Absent}
Day(t) == t \div DayLength

TypeOK ==
  /\ now \in 0..MaxTime /\ up \in BOOLEAN
  /\ store \in Contents /\ Cardinality(Held(store)) <= MaxStored
  /\ file \in Contents /\ Cardinality(Held(file)) <= MaxStored
  /\ outbox \subseteq Fires /\ claimed \subseteq Fires
  /\ told \in [Ids -> Answers]
  /\ faults \in 0..MaxFaults /\ stops \in 0..MaxStops

Init ==
  /\ now = 0 /\ up = TRUE
  /\ store = Empty /\ file = Empty
  /\ outbox = {} /\ claimed = {}
  /\ told = [i \in Ids |-> "nothing"]
  /\ faults = 0 /\ stops = 0

-----------------------------------------------------------------------------
\* save: the file becomes the store's new contents; or it fails, and stays.
Saved == file' = store' /\ UNCHANGED faults
SaveFails == faults < MaxFaults /\ faults' = faults + 1 /\ UNCHANGED file

\* A mutant of Add: the bound is tested once the reminder is in.
AddOneMore(i, every, first) ==
  /\ up /\ told[i] = "nothing" /\ first > now /\ first <= LastDue
  /\ Cardinality(Held(store)) <= MaxStored
  /\ store' = [store EXCEPT !.items[i] = [every |-> every, next |-> first]]
  /\ \/ Saved /\ told' = [told EXCEPT ![i] = "set"]
     \/ SaveFails /\ told' = [told EXCEPT ![i] = "notSet"]
  /\ UNCHANGED <<now, up, outbox, claimed, stops>>

\* A turn sets a reminder, whose first occurrence New has put in the future.  The
\* member is told that it was set, or that it was not; the store keeps it either way.
Add(i, every, first) ==
  /\ up /\ told[i] = "nothing" /\ first > now /\ first <= LastDue
  /\ every # Once => first <= now + every
  /\ Cardinality(Held(store)) < MaxStored
  /\ store' = [store EXCEPT !.items[i] = [every |-> every, next |-> first]]
  /\ \/ Saved /\ told' = [told EXCEPT ![i] = "set"]
     \/ SaveFails /\ told' = [told EXCEPT ![i] = "notSet"]
  /\ UNCHANGED <<now, up, outbox, claimed, stops>>

\* A mutant of Cancel: the error of the save is dropped.
CancelUnsaved(i) ==
  /\ up /\ i \in Held(store)
  /\ store' = [store EXCEPT !.items[i] = Absent]
  /\ Saved \/ SaveFails
  /\ told' = [told EXCEPT ![i] = "cancelled"]
  /\ UNCHANGED <<now, up, outbox, claimed, stops>>

\* A turn cancels a reminder the store holds.  It is gone from the store even when
\* the member is told that it could not be cancelled.
Cancel(i) ==
  /\ up /\ i \in Held(store)
  /\ store' = [store EXCEPT !.items[i] = Absent]
  /\ \/ Saved /\ told' = [told EXCEPT ![i] = "cancelled"]
     \/ SaveFails /\ told' = [told EXCEPT ![i] = "notCancelled"]
  /\ UNCHANGED <<now, up, outbox, claimed, stops>>

-----------------------------------------------------------------------------
\* advance: the most recent occurrence, and with it the next one.  A one-off has the
\* one occurrence it was set for.
Latest(r) ==
  IF r.every = Once THEN r.next
                    ELSE r.next + ((now - r.next) \div r.every) * r.every
Advanced(r) == [r EXCEPT !.next = Latest(r) + r.every]

Due == {i \in Held(store) : store.items[i].next <= now}
Repeating(i) == store.items[i].every # Once

\* A repeating occurrence that is too old to be worth delivering.
Stale(i) == Repeating(i) /\ now - Latest(store.items[i]) > CatchUp

\* What the day's cap has left, by the ledger of a new or of the same day.
Spent == IF store.day = Day(now) THEN store.count ELSE 0
Room == MaxPerDay - Spent

\* A mutant of Fitting: the list is not kept in the order of the due times.
FittingInAnyOrder(F) ==
  /\ F \subseteq {i \in Due : ~Stale(i)}
  /\ Cardinality(F) <= Room \/ F = {}
  /\ Cardinality(F) = Room \/ F = {i \in Due : ~Stale(i)} \/ Room < 0

\* F is what the cap lets through: as many as it has room for, in the order of the
\* list, which is sorted by the stored next occurrence.
Fitting(F) ==
  LET deliverable == {i \in Due : ~Stale(i)}
  IN  /\ F \subseteq deliverable
      /\ F # {} => Cardinality(F) <= Room
      /\ F # deliverable => Cardinality(F) >= Room
      /\ \A i \in F, j \in deliverable \ F : store.items[i].next <= store.items[j].next

\* The store once the occurrences in F are claimed: every repeating reminder that was
\* due moves on, sent or not; a one-off is done if it is in F, and held if it is not.
Claimed(F) ==
  [items |-> [i \in Ids |-> CASE i \in Due /\ Repeating(i) -> Advanced(store.items[i])
                              [] i \in F /\ ~Repeating(i) -> Absent
                              [] OTHER -> store.items[i]],
   day |-> Day(now), count |-> Spent + Cardinality(F)]

FiresOf(F) == {[id |-> i, due |-> Latest(store.items[i]), day |-> Day(now)] : i \in F}

\* A mutant of Claim: fires are handed over although their claim could not be saved.
ClaimAnyway(F) ==
  /\ store' = Claimed(F) /\ outbox' = FiresOf(F) /\ claimed' = claimed \cup FiresOf(F)
  /\ Saved \/ SaveFails

\* The claim is saved before its fires are handed over.  When it cannot be saved none
\* is handed over, but the store has moved on.
Claim(F) ==
  /\ store' = Claimed(F)
  /\ \/ Saved /\ outbox' = FiresOf(F) /\ claimed' = claimed \cup FiresOf(F)
     \/ SaveFails /\ UNCHANGED <<outbox, claimed>>

\* Store.Due, at the start of one of the clock's passes: the last one's fires are all
\* sent by then.  A pass that changes no reminder saves nothing, not even the ledger.
Pass ==
  /\ up /\ outbox = {}
  /\ \E F \in SUBSET Ids :
       /\ Fitting(F)
       /\ IF F # {} \/ (\E i \in Due : Repeating(i))
            THEN Claim(F)
            ELSE /\ store' = Claimed(F)
                 /\ UNCHANGED <<file, outbox, claimed, faults>>
  /\ UNCHANGED <<now, up, told, stops>>

\* The clock sends one of the pass's fires.  One that cannot be sent is lost.
Send(f) ==
  /\ up /\ f \in outbox
  /\ outbox' = outbox \ {f}
  /\ UNCHANGED <<now, up, store, file, told, claimed, faults, stops>>

-----------------------------------------------------------------------------
\* The process is killed, or drains: what it held in memory is gone, with the rest
\* of the pass.
Stop ==
  /\ up /\ stops < MaxStops
  /\ up' = FALSE /\ stops' = stops + 1
  /\ store' = Empty /\ outbox' = {}
  /\ UNCHANGED <<now, file, told, claimed, faults>>

\* A mutant of Start: the day's ledger starts anew with the process.
StartUncounted ==
  /\ ~up
  /\ up' = TRUE /\ store' = [file EXCEPT !.count = 0]
  /\ UNCHANGED <<now, file, outbox, told, claimed, faults, stops>>

\* Open: the next process reads the file.
Start ==
  /\ ~up
  /\ up' = TRUE /\ store' = file
  /\ UNCHANGED <<now, file, outbox, told, claimed, faults, stops>>

\* A pass would claim something, or move a routine on.
PassDue == \E i \in Due : Repeating(i) \/ Room > 0

\* A moment of this model is hours and the clock's ticker is half a minute: while the
\* process runs, time does not leave a pass behind that has something to do.
Tick ==
  /\ now < MaxTime
  /\ IF up THEN ~PassDue ELSE now < LastOff
  /\ now' = now + 1
  /\ UNCHANGED <<up, store, file, outbox, told, claimed, faults, stops>>

Next ==
  \/ \E i \in Ids, every \in Periods \cup {Once}, first \in 1..LastDue :
       Add(i, every, first)
  \/ \E i \in Ids : Cancel(i)
  \/ Pass
  \/ \E f \in outbox : Send(f)
  \/ Stop \/ Start \/ Tick

\* Time passes, the ticker fires, a send returns, and a node that was stopped is
\* started again; nobody need set or cancel anything.
Fairness ==
  WF_vars(Tick) /\ WF_vars(Pass) /\ WF_vars(\E f \in outbox : Send(f)) /\ WF_vars(Start)

Spec == Init /\ [][Next]_vars /\ Fairness

-----------------------------------------------------------------------------
ClaimedOn(d) == {f \in claimed : f.day = d}

\* A unit hands over no more than MaxPerDay unprompted messages a day, however often
\* it crashes, restarts or fails to save, and none at all if the cap is negative.
WithinDailyCap ==
  \A f \in claimed : Cardinality(ClaimedOn(f.day)) <= MaxPerDay

\* No occurrence is handed over twice, nor an older one after a newer one: a crash, a
\* failed save or a clock that was off loses a message rather than repeating it.
NeverTwice ==
  [][\A f \in outbox' \ outbox, g \in claimed : g.id = f.id => g.due < f.due]_vars

\* A reminder that the member was told is cancelled is never claimed again, by this
\* process or by a later one.
CancelledStaysCancelled ==
  \A i \in Ids : told[i] = "cancelled" => i \notin Held(store) \cup Held(file)

HandedOver(i) == \E f \in claimed : f.id = i

\* A one-off that the member was told is set is a promise to a person: until it is
\* handed over or cancelled, the file holds it (clock.go: a claim that could not be
\* saved "has not happened").
OneOffIsOwed ==
  \A i \in Ids :
    told[i] = "set" /\ ~HandedOver(i) => i \in Held(file)

\* A one-off is delivered however late it is, ahead of what became due after it, even
\* if the node was off or the cap was spent: no household of repeating reminders
\* starves it.  (Provided no save fails.)
OneOffGoesOut ==
  \A i \in Ids :
    i \in Held(file) /\ file.items[i].every = Once
      ~> HandedOver(i) \/ told[i] = "cancelled" \/ faults > 0
=============================================================================
