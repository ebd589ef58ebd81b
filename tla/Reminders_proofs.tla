-------------------------- MODULE Reminders_proofs --------------------------
(***************************************************************************)
(* Safety of a unit's reminders, for any number of them, any cap, any length *)
(* of the day and any pattern of failed saves, stops and restarts: the       *)
(* types, the bound on the store, the day's cap, that no occurrence goes out *)
(* twice, and that a cancelled reminder stays cancelled.                     *)
(*                                                                         *)
(* RemindersInv is the inductive invariant.  The cap survives a restart      *)
(* because the ledger of the file, and that of a running process, covers     *)
(* every claim of its day and no claim is of a later day; an occurrence does *)
(* not return because a reminder that is held is due later than anything     *)
(* that was claimed for it.                                                  *)
(***************************************************************************)
EXTENDS Reminders, FiniteSetTheorems, TLAPS

\* The ledger counts the claims of its day, and the days after it have none.
LedgerCovers(c) ==
  /\ c.day <= Day(now)
  /\ \A d \in Nat : d = c.day => Cardinality(ClaimedOn(d)) <= c.count
  /\ \A d \in Nat : d > c.day => ClaimedOn(d) = {}

\* What was claimed for a reminder that is held lies before its next occurrence; a
\* one-off that is held was never claimed.
NextIsLater(c) ==
  \A i \in Held(c), f \in claimed :
    f.id = i => c.items[i].every # Once /\ f.due < c.items[i].next

\* A reminder nobody has set is nowhere.
NotYetSet ==
  \A i \in Ids : told[i] = "nothing" =>
    i \notin Held(store) \cup Held(file) /\ \A f \in claimed : f.id # i

RemindersInv ==
  /\ TypeOK /\ IsFiniteSet(claimed)
  /\ WithinDailyCap /\ CancelledStaysCancelled
  /\ up => LedgerCovers(store)
  /\ LedgerCovers(file)
  /\ NextIsLater(store) /\ NextIsLater(file) /\ NotYetSet

-----------------------------------------------------------------------------
\* A later moment is on no earlier day.
LEMMA DayIsMonotone ==
  \A t \in Nat : Day(t) \in Nat /\ Day(t) <= Day(t + 1)
<1> SUFFICES ASSUME NEW t \in Nat PROVE Day(t) \in Nat /\ Day(t) <= Day(t + 1)
  OBVIOUS
<1> QED
  BY RemindersAssumption, SMTT(60) DEF Day

\* The most recent occurrence of a reminder that is due is not before its next one.
LEMMA LatestIsLate ==
  ASSUME NEW r \in Reminder, now \in Nat, r.next <= now
  PROVE  /\ Latest(r) \in Nat /\ r.next <= Latest(r)
         /\ r.every # Once => Advanced(r) \in Reminder /\ Latest(r) < Advanced(r).next
<1>1. r.next \in Nat /\ r.every \in Periods \cup {Once}
  BY DEF Reminder
<1>2. CASE r.every = Once
  BY <1>1, <1>2 DEF Latest
<1>3. CASE r.every # Once
  <2>1. r.every \in Periods
    BY <1>1, <1>3
  <2>2. r.every \in Nat \ {0}
    BY <2>1, RemindersAssumption
  <2>3. now - r.next \in Nat
    BY <1>1
  <2> DEFINE q == (now - r.next) \div r.every
  <2>4. q \in Nat
    BY <2>2, <2>3, SMTT(60)
  <2>5. q * r.every \in Nat
    <3> HIDE DEF q
    <3> QED BY <2>2, <2>4, SMTT(60)
  <2>6. Latest(r) = r.next + q * r.every
    BY <1>3 DEF Latest
  <2> HIDE DEF q
  <2>7. Latest(r) \in Nat /\ r.next <= Latest(r)
    BY <1>1, <2>5, <2>6
  <2>8. Advanced(r) = [every |-> r.every, next |-> Latest(r) + r.every]
    BY DEF Advanced, Reminder
  <2> HIDE DEF Latest
  <2>9. Latest(r) + r.every \in Nat /\ Latest(r) < Latest(r) + r.every
    BY <2>2, <2>7
  <2> QED
    BY <1>1, <2>7, <2>8, <2>9 DEF Reminder
<1> QED
  BY <1>2, <1>3

\* The reminders held are some of the finitely many there are.
LEMMA HeldIsFinite ==
  ASSUME NEW c PROVE IsFiniteSet(Held(c))
<1> Held(c) \in SUBSET Ids
  BY DEF Held
<1> QED
  BY FS_Subset, RemindersAssumption

\* Holding fewer reminders keeps within the bound on the store.
LEMMA FewerAreHeld ==
  ASSUME NEW c, NEW d, Held(c) \subseteq Held(d), Cardinality(Held(d)) <= MaxStored
  PROVE  Cardinality(Held(c)) <= MaxStored
<1>1. IsFiniteSet(Held(c)) /\ IsFiniteSet(Held(d))
  BY HeldIsFinite
<1>2. /\ Cardinality(Held(c)) \in Nat /\ Cardinality(Held(d)) \in Nat
      /\ Cardinality(Held(c)) <= Cardinality(Held(d))
  BY <1>1, FS_CardinalityType, FS_Subset
<1> QED
  BY <1>2, RemindersAssumption

\* A pass hands over no more fires than it has reminders to send.
LEMMA FiresAreFew ==
  ASSUME NEW F \in SUBSET Ids
  PROVE  /\ IsFiniteSet(F) /\ Cardinality(F) \in Nat
         /\ IsFiniteSet(FiresOf(F)) /\ Cardinality(FiresOf(F)) <= Cardinality(F)
         /\ Cardinality(FiresOf(F)) \in Nat
<1>1. IsFiniteSet(F)
  BY FS_Subset, RemindersAssumption
<1> DEFINE fire == [i \in F |-> [id |-> i, due |-> Latest(store.items[i]), day |-> Day(now)]]
<1>2. fire \in Surjection(F, FiresOf(F))
  <2> HIDE DEF Latest, Day
  <2> QED BY DEF Surjection, FiresOf
<1> HIDE DEF fire
<1> QED
  BY <1>1, <1>2, FS_Surjection, FS_CardinalityType

-----------------------------------------------------------------------------
LEMMA NothingIsHeldAtFirst ==
  Empty \in Contents /\ Held(Empty) = {} /\ Cardinality(Held(Empty)) <= MaxStored
<1>1. Empty \in Contents
  BY DEF Empty, Contents
<1>2. Held(Empty) = {}
  BY DEF Empty, Held
<1> QED
  BY <1>1, <1>2, FS_EmptySet, RemindersAssumption

LEMMA InitInv == Init => RemindersInv
<1> SUFFICES ASSUME Init PROVE RemindersInv
  OBVIOUS
<1>1. TypeOK
  BY NothingIsHeldAtFirst, RemindersAssumption DEF Init, TypeOK, Fires, Answers
<1>2. IsFiniteSet(claimed) /\ \A d : ClaimedOn(d) = {}
  BY FS_EmptySet DEF Init, ClaimedOn
<1>3. LedgerCovers(Empty)
  <2>1. 0 <= Day(now)
    BY DayIsMonotone DEF Init
  <2> QED
    BY <1>2, <2>1, FS_EmptySet DEF LedgerCovers, Empty
<1>4. NextIsLater(store) /\ NextIsLater(file) /\ NotYetSet
  BY NothingIsHeldAtFirst DEF Init, NextIsLater, NotYetSet
<1>5. WithinDailyCap /\ CancelledStaysCancelled
  BY DEF Init, WithinDailyCap, CancelledStaysCancelled
<1> QED
  BY <1>1, <1>2, <1>3, <1>4, <1>5 DEF Init, RemindersInv

\* Neither the days of the claims nor their numbers change with the reminders.
LEMMA ClaimsStay ==
  ASSUME now' = now, claimed' = claimed
  PROVE  Day(now)' = Day(now) /\ \A d : ClaimedOn(d)' = ClaimedOn(d)
BY DEF Day, ClaimedOn

LEMMA AddInv ==
  ASSUME RemindersInv, NEW i \in Ids, NEW every \in Periods \cup {Once},
         NEW first \in 1..LastDue, Add(i, every, first)
  PROVE  RemindersInv'
<1> DEFINE r == [every |-> every, next |-> first]
<1>1. r \in Reminder /\ r # Absent
  <2>1. first \in Nat /\ first # -1
    BY RemindersAssumption
  <2> QED
    BY <2>1 DEF Reminder, Absent
<1> HIDE DEF r
<1>2. /\ store \in Contents /\ file \in Contents
      /\ store' = [store EXCEPT !.items[i] = r]
      /\ file' = store' \/ file' = file
      /\ now' = now /\ up /\ up' = up /\ outbox' = outbox /\ claimed' = claimed
      /\ stops' = stops /\ faults' \in 0..MaxFaults
      /\ told[i] = "nothing" /\ told' \in [Ids -> Answers]
      /\ told'[i] \in {"set", "notSet"} /\ \A j \in Ids \ {i} : told'[j] = told[j]
  BY RemindersAssumption DEF RemindersInv, TypeOK, Add, Saved, SaveFails, Answers, r
<1>3. /\ store' \in Contents
      /\ store'.items[i] = r /\ \A j \in Ids \ {i} : store'.items[j] = store.items[j]
      /\ store'.day = store.day /\ store'.count = store.count
  BY <1>1, <1>2 DEF Contents
<1>4. Held(store') = Held(store) \cup {i}
  BY <1>1, <1>3 DEF Held
<1>5. Cardinality(Held(store')) <= MaxStored
  <2>1. Cardinality(Held(store)) < MaxStored /\ Cardinality(Held(store)) \in Nat
    BY HeldIsFinite, FS_CardinalityType DEF Add
  <2>2. Cardinality(Held(store')) \in {Cardinality(Held(store)), Cardinality(Held(store)) + 1}
    BY <1>4, HeldIsFinite, FS_AddElement
  <2> QED
    BY <2>1, <2>2, RemindersAssumption
<1>6. TypeOK'
  BY <1>2, <1>3, <1>5 DEF RemindersInv, TypeOK
<1>7. LedgerCovers(store)' /\ LedgerCovers(file)'
  BY <1>2, <1>3, ClaimsStay DEF RemindersInv, LedgerCovers
<1>8. \A f \in claimed : f.id # i
  BY <1>2 DEF RemindersInv, NotYetSet
<1>9. NextIsLater(store)' /\ NextIsLater(file)'
  <2>1. \A j \in Held(store'), f \in claimed' :
          f.id = j => store'.items[j].every # Once /\ f.due < store'.items[j].next
    BY <1>2, <1>3, <1>4, <1>8 DEF RemindersInv, NextIsLater, Held
  <2> QED
    BY <1>2, <2>1 DEF RemindersInv, NextIsLater
<1>10. NotYetSet'
  BY <1>2, <1>4 DEF RemindersInv, NotYetSet
<1>11. CancelledStaysCancelled'
  BY <1>2, <1>4 DEF RemindersInv, CancelledStaysCancelled
<1>12. WithinDailyCap' /\ IsFiniteSet(claimed')
  BY <1>2 DEF RemindersInv, WithinDailyCap, ClaimedOn
<1> QED
  BY <1>6, <1>7, <1>9, <1>10, <1>11, <1>12 DEF RemindersInv

LEMMA CancelInv ==
  ASSUME RemindersInv, NEW i \in Ids, Cancel(i) PROVE RemindersInv'
<1>1. /\ store \in Contents /\ file \in Contents
      /\ store' = [store EXCEPT !.items[i] = Absent] /\ i \in Held(store)
      /\ file' = store' \/ file' = file
      /\ now' = now /\ up /\ up' = up /\ outbox' = outbox /\ claimed' = claimed
      /\ stops' = stops /\ faults' \in 0..MaxFaults
      /\ told' \in [Ids -> Answers] /\ told'[i] # "nothing"
      /\ told'[i] = "cancelled" => file' = store'
      /\ \A j \in Ids \ {i} : told'[j] = told[j]
  BY RemindersAssumption DEF RemindersInv, TypeOK, Cancel, Saved, SaveFails, Answers
<1>2. /\ store' \in Contents
      /\ store'.items[i] = Absent /\ \A j \in Ids \ {i} : store'.items[j] = store.items[j]
      /\ store'.day = store.day /\ store'.count = store.count
  BY <1>1 DEF Contents
<1>3. Held(store') = Held(store) \ {i}
  BY <1>2 DEF Held
<1>4. Cardinality(Held(store')) <= MaxStored
  BY <1>3, FewerAreHeld DEF RemindersInv, TypeOK
<1>5. TypeOK'
  BY <1>1, <1>2, <1>4 DEF RemindersInv, TypeOK
<1>6. LedgerCovers(store)' /\ LedgerCovers(file)'
  BY <1>1, <1>2, ClaimsStay DEF RemindersInv, LedgerCovers
<1>7. NextIsLater(store)' /\ NextIsLater(file)'
  <2>1. \A j \in Held(store'), f \in claimed' :
          f.id = j => store'.items[j].every # Once /\ f.due < store'.items[j].next
    BY <1>1, <1>2, <1>3 DEF RemindersInv, NextIsLater, Held
  <2> QED
    BY <1>1, <2>1 DEF RemindersInv, NextIsLater
<1>8. NotYetSet'
  BY <1>1, <1>3 DEF RemindersInv, NotYetSet
<1>9. CancelledStaysCancelled'
  BY <1>1, <1>3 DEF RemindersInv, CancelledStaysCancelled
<1>10. WithinDailyCap' /\ IsFiniteSet(claimed')
  BY <1>1 DEF RemindersInv, WithinDailyCap, ClaimedOn
<1> QED
  BY <1>5, <1>6, <1>7, <1>8, <1>9, <1>10 DEF RemindersInv

-----------------------------------------------------------------------------
\* What the pass leaves of the reminders: those it neither sent nor moved on, as they
\* were, and those that repeat and were due, each at its next occurrence.
LEMMA ClaimedKeeps ==
  ASSUME now \in Nat, store \in Contents, NEW F \in SUBSET Ids, F \subseteq Due
  PROVE  /\ Claimed(F) \in Contents
         /\ Claimed(F).day = Day(now) /\ Claimed(F).count = Spent + Cardinality(F)
         /\ Held(Claimed(F)) \subseteq Held(store)
         /\ \A i \in Held(Claimed(F)) :
              \/ i \notin F /\ Claimed(F).items[i] = store.items[i]
              \/ i \in Due /\ Repeating(i) /\ Claimed(F).items[i] = Advanced(store.items[i])
<1> DEFINE c == Claimed(F)
<1>1. store.items \in [Ids -> Reminder \cup {Absent}] /\ store.day \in Nat /\ store.count \in Nat
  BY DEF Contents
<1>2. \A i \in Ids : i \notin Held(store) => store.items[i] = Absent
  BY DEF Held
<1>3. \A i \in Due : i \in Ids /\ i \in Held(store) /\ store.items[i] \in Reminder
  BY <1>1 DEF Due, Held
<1>4. \A i \in Due : Repeating(i) => Advanced(store.items[i]) \in Reminder
  BY <1>3, LatestIsLate DEF Due, Repeating
<1>5. /\ c.day = Day(now) /\ c.count = Spent + Cardinality(F)
      /\ c.items = [i \in Ids |->
           CASE i \in Due /\ Repeating(i) -> Advanced(store.items[i])
             [] i \in F /\ ~Repeating(i) -> Absent
             [] OTHER -> store.items[i]]
  BY DEF Claimed
<1>6. \A i \in Ids :
        /\ i \in Due /\ Repeating(i) => c.items[i] = Advanced(store.items[i])
        /\ i \in F /\ ~Repeating(i) => c.items[i] = Absent
        /\ i \notin F /\ ~(i \in Due /\ Repeating(i)) => c.items[i] = store.items[i]
  <2> HIDE DEF c
  <2> QED BY <1>5
<1>7. c = [items |-> c.items, day |-> Day(now), count |-> Spent + Cardinality(F)]
  BY DEF Claimed
<1>8. Spent + Cardinality(F) \in Nat /\ Day(now) \in Nat
  <2>1. Spent \in Nat
    BY <1>1 DEF Spent
  <2>2. Cardinality(F) \in Nat
    BY FiresAreFew
  <2> QED
    BY <2>1, <2>2, DayIsMonotone
<1>9. c.items \in [Ids -> Reminder \cup {Absent}]
  <2>1. \A i \in Ids : c.items[i] \in Reminder \cup {Absent}
    <3> HIDE DEF c
    <3> QED BY <1>1, <1>4, <1>6
  <2>2. c.items = [i \in Ids |-> c.items[i]]
    <3> HIDE DEF c
    <3> QED BY <1>5
  <2> HIDE DEF c
  <2> QED BY <2>1, <2>2
<1> HIDE DEF c
<1>10. c \in Contents
  BY <1>7, <1>8, <1>9 DEF Contents
<1>11. Held(c) \subseteq Held(store)
  BY <1>2, <1>3, <1>6 DEF Held
<1>12. \A i \in Held(c) :
         \/ i \notin F /\ c.items[i] = store.items[i]
         \/ i \in Due /\ Repeating(i) /\ c.items[i] = Advanced(store.items[i])
  BY <1>6 DEF Held
<1> QED
  BY <1>5, <1>10, <1>11, <1>12 DEF c

\* A fire of the pass is for the latest occurrence of a reminder that was held and due.
LEMMA FiresAreDue ==
  ASSUME now \in Nat, store \in Contents, NEW F \in SUBSET Ids, F \subseteq Due
  PROVE  /\ FiresOf(F) \subseteq Fires
         /\ \A f \in FiresOf(F) :
              /\ f.id \in F /\ f.id \in Held(store) /\ f.day = Day(now)
              /\ f.due = Latest(store.items[f.id]) /\ f.due \in Nat
              /\ store.items[f.id].next \in Nat /\ store.items[f.id].next <= f.due
<1> SUFFICES ASSUME NEW f \in FiresOf(F)
             PROVE  /\ f \in Fires
                    /\ f.id \in F /\ f.id \in Held(store) /\ f.day = Day(now)
                    /\ f.due = Latest(store.items[f.id]) /\ f.due \in Nat
                    /\ store.items[f.id].next \in Nat /\ store.items[f.id].next <= f.due
  OBVIOUS
<1>1. PICK i \in F : f = [id |-> i, due |-> Latest(store.items[i]), day |-> Day(now)]
  BY DEF FiresOf
<1>2. i \in Ids /\ i \in Held(store) /\ store.items[i] \in Reminder /\ store.items[i].next <= now
  BY DEF Due, Held, Contents
<1>3. Latest(store.items[i]) \in Nat /\ store.items[i].next <= Latest(store.items[i])
  BY <1>2, LatestIsLate
<1>4. Day(now) \in Nat /\ store.items[i].next \in Nat
  BY <1>2, DayIsMonotone DEF Reminder
<1> QED
  BY <1>1, <1>2, <1>3, <1>4 DEF Fires

\* Two finite sets together have no more elements than each on its own.
LEMMA UnionIsFew ==
  ASSUME NEW A, NEW B, IsFiniteSet(A), IsFiniteSet(B)
  PROVE  /\ IsFiniteSet(A \cup B) /\ Cardinality(A \cup B) \in Nat
         /\ Cardinality(A \cup B) <= Cardinality(A) + Cardinality(B)
<1> DEFINE m == Cardinality(A)
           n == Cardinality(B)
<1>1. m \in Nat /\ n \in Nat /\ ExistsBijection(1..m, A) /\ ExistsBijection(1..n, B)
  BY FS_CardinalityType
<1> HIDE DEF m, n
<1>2. PICK f \in Bijection(1..m, A) : TRUE
  BY <1>1 DEF ExistsBijection
<1>3. PICK g \in Bijection(1..n, B) : TRUE
  BY <1>1 DEF ExistsBijection
<1>4. f \in [1..m -> A] /\ \A a \in A : \E k \in 1..m : f[k] = a
  BY <1>2 DEF Bijection, Surjection
<1>5. g \in [1..n -> B] /\ \A b \in B : \E k \in 1..n : g[k] = b
  BY <1>3 DEF Bijection, Surjection
<1> DEFINE h == [k \in 1..(m + n) |-> IF k <= m THEN f[k] ELSE g[k - m]]
<1>6. h \in [1..(m + n) -> A \cup B]
  BY <1>1, <1>4, <1>5
<1>7. \A a \in A : \E k \in 1..(m + n) : h[k] = a
  <2> TAKE a \in A
  <2>1. PICK k \in 1..m : f[k] = a
    BY <1>4
  <2>2. k \in 1..(m + n) /\ h[k] = a
    BY <1>1, <2>1
  <2> QED BY <2>2
<1>8. \A b \in B : \E k \in 1..(m + n) : h[k] = b
  <2> TAKE b \in B
  <2>1. PICK k \in 1..n : g[k] = b
    BY <1>5
  <2>2. k + m \in 1..(m + n) /\ ~(k + m <= m) /\ (k + m) - m = k
    BY <1>1
  <2>3. h[k + m] = b
    BY <2>1, <2>2
  <2> QED BY <2>2, <2>3
<1> HIDE DEF h
<1>9. ExistsSurjection(1..(m + n), A \cup B) /\ m + n \in Nat
  BY <1>1, <1>6, <1>7, <1>8 DEF ExistsSurjection, Surjection
<1> QED
  BY <1>9, FS_NatSurjection, FS_SurjCardinalityBound, FS_CardinalityType DEF m, n

\* The ledger, when a pass reads it, covers what was claimed today.
LEMMA SpentCoversToday ==
  ASSUME RemindersInv, up
  PROVE  Spent \in Nat /\ Cardinality(ClaimedOn(Day(now))) <= Spent
<1>1. store.day \in Nat /\ store.count \in Nat /\ Day(now) \in Nat /\ store.day <= Day(now)
  BY DayIsMonotone, RemindersAssumption DEF RemindersInv, TypeOK, Contents, LedgerCovers
<1>2. CASE store.day = Day(now)
  <2>1. Spent = store.count
    BY <1>2 DEF Spent
  <2> QED
    BY <1>1, <1>2, <2>1 DEF RemindersInv, LedgerCovers
<1>3. CASE store.day # Day(now)
  <2>1. ClaimedOn(Day(now)) = {} /\ Spent = 0
    BY <1>1, <1>3 DEF RemindersInv, LedgerCovers, Spent
  <2> QED
    BY <2>1, FS_EmptySet
<1> QED
  BY <1>2, <1>3

\* The claims of a day are finitely many.
LEMMA ClaimsAreFinite ==
  ASSUME RemindersInv, NEW d
  PROVE  IsFiniteSet(ClaimedOn(d)) /\ Cardinality(ClaimedOn(d)) \in Nat
<1> ClaimedOn(d) \in SUBSET claimed
  BY DEF ClaimedOn
<1> QED
  BY FS_Subset, FS_CardinalityType DEF RemindersInv

LEMMA PassInv == ASSUME RemindersInv, Pass PROVE RemindersInv'
<1>1. PICK F \in SUBSET Ids :
        /\ Fitting(F)
        /\ IF F # {} \/ (\E i \in Due : Repeating(i))
             THEN Claim(F)
             ELSE store' = Claimed(F) /\ UNCHANGED <<file, outbox, claimed, faults>>
  BY DEF Pass
<1>2. /\ now \in 0..MaxTime /\ now \in Nat /\ store \in Contents /\ file \in Contents
      /\ up /\ up' = up /\ now' = now /\ told' = told /\ stops' = stops
      /\ store' = Claimed(F) /\ faults' \in 0..MaxFaults
  BY <1>1, RemindersAssumption
     DEF RemindersInv, TypeOK, Pass, Claim, Saved, SaveFails
<1>3. \/ /\ file' = store' /\ outbox' = FiresOf(F) /\ claimed' = claimed \cup FiresOf(F)
      \/ file' = file /\ outbox' = outbox /\ claimed' = claimed
  BY <1>1 DEF Claim, Saved, SaveFails
<1>4. F \subseteq Due /\ (F # {} => Cardinality(F) <= Room)
  BY <1>1 DEF Fitting
<1>5. /\ store' \in Contents
      /\ store'.day = Day(now) /\ store'.count = Spent + Cardinality(F)
      /\ Held(store') \subseteq Held(store)
      /\ \A i \in Held(store') :
           \/ i \notin F /\ store'.items[i] = store.items[i]
           \/ i \in Due /\ Repeating(i) /\ store'.items[i] = Advanced(store.items[i])
  BY <1>2, <1>4, ClaimedKeeps
<1>6. /\ FiresOf(F) \subseteq Fires
      /\ \A f \in FiresOf(F) :
           /\ f.id \in F /\ f.id \in Held(store) /\ f.day = Day(now)
           /\ f.due = Latest(store.items[f.id]) /\ f.due \in Nat
  BY <1>2, <1>4, FiresAreDue
<1>7. IsFiniteSet(claimed) /\ IsFiniteSet(FiresOf(F))
  BY FiresAreFew DEF RemindersInv
<1>8. TypeOK'
  <2>1. Cardinality(Held(store')) <= MaxStored
    BY <1>5, FewerAreHeld DEF RemindersInv, TypeOK
  <2> QED
    BY <1>2, <1>3, <1>5, <1>6, <2>1 DEF RemindersInv, TypeOK
<1>9. IsFiniteSet(claimed')
  BY <1>3, <1>7, UnionIsFew
<1>10. CancelledStaysCancelled'
  BY <1>2, <1>3, <1>5 DEF RemindersInv, CancelledStaysCancelled
<1>11. NotYetSet'
  BY <1>2, <1>3, <1>5, <1>6 DEF RemindersInv, NotYetSet
<1>12. Day(now)' = Day(now) /\ Day(now) \in Nat
  BY <1>2, DayIsMonotone DEF Day
<1>13. \A d : d # Day(now) => ClaimedOn(d)' = ClaimedOn(d)
  BY <1>3, <1>6 DEF ClaimedOn
<1>14. \A d : d = Day(now) => ClaimedOn(d)' \in {ClaimedOn(d), ClaimedOn(d) \cup FiresOf(F)}
  BY <1>3, <1>6 DEF ClaimedOn
<1>15. \A d : d = Day(now) => Cardinality(ClaimedOn(d)') <= Spent + Cardinality(F)
  <2> SUFFICES ASSUME NEW d, d = Day(now)
               PROVE  Cardinality(ClaimedOn(d)') <= Spent + Cardinality(F)
    OBVIOUS
  <2>1. /\ Spent \in Nat /\ Cardinality(ClaimedOn(d)) <= Spent
        /\ Cardinality(ClaimedOn(d)) \in Nat /\ IsFiniteSet(ClaimedOn(d))
    BY <1>2, SpentCoversToday, ClaimsAreFinite
  <2>2. /\ Cardinality(F) \in Nat /\ Cardinality(FiresOf(F)) \in Nat
        /\ Cardinality(FiresOf(F)) <= Cardinality(F)
    BY FiresAreFew
  <2>3. /\ Cardinality(ClaimedOn(d) \cup FiresOf(F)) \in Nat
        /\ Cardinality(ClaimedOn(d) \cup FiresOf(F))
             <= Cardinality(ClaimedOn(d)) + Cardinality(FiresOf(F))
    BY <1>7, <2>1, UnionIsFew
  <2>4. CASE ClaimedOn(d)' = ClaimedOn(d)
    BY <2>1, <2>2, <2>4
  <2>5. CASE ClaimedOn(d)' = ClaimedOn(d) \cup FiresOf(F)
    BY <2>1, <2>2, <2>3, <2>5
  <2> QED
    BY <1>14, <2>4, <2>5
<1>16. LedgerCovers(store)' /\ LedgerCovers(file)'
  <2>1. \A d \in Nat : d > Day(now) => ClaimedOn(d)' = {}
    <3> TAKE d \in Nat
    <3> HAVE d > Day(now)
    <3>1. d # Day(now) /\ store.day \in Nat /\ store.day <= Day(now)
      BY <1>2, <1>12 DEF RemindersInv, LedgerCovers, Contents
    <3>2. d > store.day
      BY <1>12, <3>1
    <3> QED
      BY <1>2, <1>13, <3>1, <3>2 DEF RemindersInv, LedgerCovers
  <2>2. LedgerCovers(store)'
    BY <1>5, <1>12, <1>15, <2>1 DEF LedgerCovers
  <2>3. CASE file' = store'
    BY <2>2, <2>3 DEF LedgerCovers
  <2>4. CASE file' = file /\ claimed' = claimed
    BY <1>2, <2>2, <2>4, ClaimsStay DEF RemindersInv, LedgerCovers
  <2> QED
    BY <1>3, <2>2, <2>3, <2>4
<1>17. WithinDailyCap'
  <2> SUFFICES ASSUME NEW f \in claimed'
               PROVE  Cardinality(ClaimedOn(f.day)') <= MaxPerDay
    BY DEF WithinDailyCap
  <2>1. CASE claimed' = claimed
    BY <1>2, <2>1, ClaimsStay DEF RemindersInv, WithinDailyCap
  <2>2. CASE claimed' # claimed
    <3>1. F # {}
      BY <1>3, <2>2 DEF FiresOf
    <3>2. Spent \in Nat /\ Cardinality(F) \in Nat /\ Spent + Cardinality(F) <= MaxPerDay
      BY <1>2, <1>4, <3>1, SpentCoversToday, FiresAreFew, RemindersAssumption DEF Room
    <3>3. CASE f.day = Day(now)
      <4>1. Cardinality(ClaimedOn(f.day)') <= Spent + Cardinality(F)
        BY <1>15, <3>3
      <4>2. IsFiniteSet(ClaimedOn(f.day)')
        <5>1. ClaimedOn(f.day)' \in SUBSET claimed'
          BY DEF ClaimedOn
        <5> QED
          BY <1>9, <5>1, FS_Subset
      <4>3. Cardinality(ClaimedOn(f.day)') \in Nat
        BY <4>2, FS_CardinalityType
      <4> QED
        BY <3>2, <4>1, <4>3, RemindersAssumption
    <3>4. CASE f.day # Day(now)
      BY <1>3, <1>6, <1>13, <3>4 DEF RemindersInv, WithinDailyCap
    <3> QED
      BY <3>3, <3>4
  <2> QED
    BY <2>1, <2>2
<1>18. NextIsLater(store)' /\ NextIsLater(file)'
  <2>1. \A i \in Held(store'), f \in claimed \cup FiresOf(F) :
          f.id = i => store'.items[i].every # Once /\ f.due < store'.items[i].next
    <3> SUFFICES ASSUME NEW i \in Held(store'), NEW f \in claimed \cup FiresOf(F), f.id = i
                 PROVE  store'.items[i].every # Once /\ f.due < store'.items[i].next
      OBVIOUS
    <3>1. i \in Held(store) /\ store.items[i] \in Reminder /\ f.due \in Nat
      BY <1>2, <1>5, <1>6 DEF RemindersInv, TypeOK, Contents, Held, Fires
    <3>2. f \in claimed =>
            store.items[i].every # Once /\ f.due < store.items[i].next
      BY <3>1 DEF RemindersInv, NextIsLater
    <3>3. f \in FiresOf(F) => i \in F /\ f.due = Latest(store.items[i])
      BY <1>6
    <3>4. CASE i \notin F /\ store'.items[i] = store.items[i]
      BY <3>2, <3>3, <3>4
    <3>5. CASE i \in Due /\ Repeating(i) /\ store'.items[i] = Advanced(store.items[i])
      <4>1. store.items[i].next <= now /\ store.items[i].every # Once
        BY <3>5 DEF Due, Repeating
      <4>2. /\ Latest(store.items[i]) \in Nat
            /\ store.items[i].next <= Latest(store.items[i])
            /\ Advanced(store.items[i]) \in Reminder
            /\ Latest(store.items[i]) < Advanced(store.items[i]).next
        BY <1>2, <3>1, <4>1, LatestIsLate
      <4>3. Advanced(store.items[i]).every = store.items[i].every
        BY <3>1 DEF Advanced, Reminder
      <4>4. f.due <= Latest(store.items[i])
        BY <3>1, <3>2, <3>3, <4>2 DEF Reminder
      <4> QED
        BY <3>1, <3>5, <4>1, <4>2, <4>3, <4>4 DEF Reminder
    <3> QED
      BY <1>5, <3>4, <3>5
  <2>2. NextIsLater(store)'
    BY <1>3, <2>1 DEF NextIsLater
  <2>3. CASE file' = store'
    BY <2>2, <2>3 DEF NextIsLater
  <2>4. CASE file' = file /\ claimed' = claimed
    <3>1. NextIsLater(file)
      BY DEF RemindersInv
    <3> QED
      BY <2>2, <2>4, <3>1 DEF NextIsLater
  <2> QED
    BY <1>3, <2>2, <2>3, <2>4
<1> QED
  BY <1>8, <1>9, <1>10, <1>11, <1>16, <1>17, <1>18 DEF RemindersInv

-----------------------------------------------------------------------------
LEMMA SendInv == ASSUME RemindersInv, NEW f \in outbox, Send(f) PROVE RemindersInv'
<1>1. /\ outbox' \subseteq outbox
      /\ UNCHANGED <<now, up, store, file, told, claimed, faults, stops>>
  BY DEF Send
<1>2. TypeOK' /\ IsFiniteSet(claimed')
  BY <1>1 DEF RemindersInv, TypeOK
<1>3. LedgerCovers(file)' /\ (up' => LedgerCovers(store)')
  BY <1>1, ClaimsStay DEF RemindersInv, LedgerCovers
<1>4. NextIsLater(store)' /\ NextIsLater(file)' /\ NotYetSet'
  BY <1>1 DEF RemindersInv, NextIsLater, NotYetSet
<1>5. WithinDailyCap' /\ CancelledStaysCancelled'
  BY <1>1, ClaimsStay DEF RemindersInv, WithinDailyCap, CancelledStaysCancelled
<1> QED
  BY <1>2, <1>3, <1>4, <1>5 DEF RemindersInv

LEMMA StopInv == ASSUME RemindersInv, Stop PROVE RemindersInv'
<1>1. /\ up' = FALSE /\ store' = Empty /\ outbox' = {} /\ stops' \in 0..MaxStops
      /\ UNCHANGED <<now, file, told, claimed, faults>>
  BY RemindersAssumption DEF RemindersInv, TypeOK, Stop
<1>2. Held(store') = {}
  BY <1>1, NothingIsHeldAtFirst
<1>3. TypeOK' /\ IsFiniteSet(claimed')
  BY <1>1, NothingIsHeldAtFirst DEF RemindersInv, TypeOK
<1>4. LedgerCovers(file)' /\ ~up'
  BY <1>1, ClaimsStay DEF RemindersInv, LedgerCovers
<1>5. NextIsLater(store)' /\ NextIsLater(file)' /\ NotYetSet'
  BY <1>1, <1>2 DEF RemindersInv, NextIsLater, NotYetSet
<1>6. WithinDailyCap' /\ CancelledStaysCancelled'
  BY <1>1, <1>2, ClaimsStay DEF RemindersInv, WithinDailyCap, CancelledStaysCancelled
<1> QED
  BY <1>3, <1>4, <1>5, <1>6 DEF RemindersInv

LEMMA StartInv == ASSUME RemindersInv, Start PROVE RemindersInv'
<1>1. /\ up' = TRUE /\ store' = file
      /\ UNCHANGED <<now, file, outbox, told, claimed, faults, stops>>
  BY DEF Start
<1>2. TypeOK' /\ IsFiniteSet(claimed')
  BY <1>1 DEF RemindersInv, TypeOK
<1>3. LedgerCovers(file)' /\ LedgerCovers(store)'
  BY <1>1, ClaimsStay DEF RemindersInv, LedgerCovers
<1>4. NextIsLater(store)' /\ NextIsLater(file)' /\ NotYetSet'
  BY <1>1 DEF RemindersInv, NextIsLater, NotYetSet
<1>5. WithinDailyCap' /\ CancelledStaysCancelled'
  BY <1>1, ClaimsStay DEF RemindersInv, WithinDailyCap, CancelledStaysCancelled
<1> QED
  BY <1>2, <1>3, <1>4, <1>5 DEF RemindersInv

\* The ledger of an earlier day still covers the claims when a new day begins.
LEMMA TickInv == ASSUME RemindersInv, Tick PROVE RemindersInv'
<1>1. /\ now \in Nat /\ now' = now + 1 /\ now' \in 0..MaxTime
      /\ UNCHANGED <<up, store, file, outbox, told, claimed, faults, stops>>
  BY RemindersAssumption DEF RemindersInv, TypeOK, Tick
<1>2. TypeOK' /\ IsFiniteSet(claimed')
  BY <1>1 DEF RemindersInv, TypeOK
<1>3. Day(now) \in Nat /\ Day(now)' \in Nat /\ Day(now) <= Day(now)'
  BY <1>1, DayIsMonotone
<1>4. \A d : ClaimedOn(d)' = ClaimedOn(d)
  BY <1>1 DEF ClaimedOn
<1>5. store.day \in Nat /\ file.day \in Nat
  BY DEF RemindersInv, TypeOK, Contents
<1>6. LedgerCovers(file)' /\ (up' => LedgerCovers(store)')
  BY <1>1, <1>3, <1>4, <1>5 DEF RemindersInv, LedgerCovers
<1>7. NextIsLater(store)' /\ NextIsLater(file)' /\ NotYetSet'
  BY <1>1 DEF RemindersInv, NextIsLater, NotYetSet
<1>8. WithinDailyCap' /\ CancelledStaysCancelled'
  BY <1>1, <1>4 DEF RemindersInv, WithinDailyCap, CancelledStaysCancelled
<1> QED
  BY <1>2, <1>6, <1>7, <1>8 DEF RemindersInv

\* A step that changes nothing keeps the invariant.
LEMMA StutterInv == ASSUME RemindersInv, UNCHANGED vars PROVE RemindersInv'
<1>1. UNCHANGED <<now, up, store, file, outbox, told, claimed, faults, stops>>
  BY DEF vars
<1>2. TypeOK' /\ IsFiniteSet(claimed')
  BY <1>1 DEF RemindersInv, TypeOK
<1>3. LedgerCovers(file)' /\ (up' => LedgerCovers(store)')
  BY <1>1, ClaimsStay DEF RemindersInv, LedgerCovers
<1>4. NextIsLater(store)' /\ NextIsLater(file)' /\ NotYetSet'
  BY <1>1 DEF RemindersInv, NextIsLater, NotYetSet
<1>5. WithinDailyCap' /\ CancelledStaysCancelled'
  BY <1>1, ClaimsStay DEF RemindersInv, WithinDailyCap, CancelledStaysCancelled
<1> QED
  BY <1>2, <1>3, <1>4, <1>5 DEF RemindersInv

\* The inductive invariant of the store, its file and its clock (internal/remind).
THEOREM RemindersInvariant == Spec => []RemindersInv
<1>1. Init => RemindersInv
  BY InitInv
<1>2. RemindersInv /\ [Next]_vars => RemindersInv'
  BY AddInv, CancelInv, PassInv, SendInv, StopInv, StartInv, TickInv, StutterInv DEF Next
<1> QED
  BY <1>1, <1>2, PTL DEF Spec

\* The store and its file never hold more reminders than Options.MaxStored (Add's
\* bound), and all of the store's values are of their types.
THEOREM RemindersTypesHold == Spec => []TypeOK
<1>1. RemindersInv => TypeOK
  BY DEF RemindersInv
<1> QED
  BY <1>1, RemindersInvariant, PTL

\* A unit hands over at most Options.MaxPerDay unprompted messages on any day, across
\* crashes, restarts and failed saves (Due's ledger).
THEOREM TheDailyCapHolds == Spec => []WithinDailyCap
<1>1. RemindersInv => WithinDailyCap
  BY DEF RemindersInv
<1> QED
  BY <1>1, RemindersInvariant, PTL

\* A reminder the member was told is cancelled is in no store and no file again, so no
\* pass of this process or of a later one can claim it (cancelReminder, Store.Cancel).
THEOREM CancelledReminderStays == Spec => []CancelledStaysCancelled
<1>1. RemindersInv => CancelledStaysCancelled
  BY DEF RemindersInv
<1> QED
  BY <1>1, RemindersInvariant, PTL

\* No occurrence of a reminder is handed over twice, nor after a later one of the same
\* reminder: Due claims before the clock sends, and a claim moves the reminder on.
THEOREM NoOccurrenceTwice == Spec => NeverTwice
<1> DEFINE NewIsLater ==
      \A f \in outbox' \ outbox, g \in claimed : g.id = f.id => g.due < f.due
<1>1. RemindersInv /\ [Next]_vars => [NewIsLater]_vars
  <2> SUFFICES ASSUME RemindersInv, [Next]_vars, NEW f \in outbox' \ outbox,
                      NEW g \in claimed, g.id = f.id
               PROVE  g.due < f.due
    OBVIOUS
  <2>1. Pass
    BY DEF Next, vars, Add, Cancel, Send, Stop, Start, Tick
  <2>2. PICK F \in SUBSET Ids : Fitting(F) /\ f \in FiresOf(F)
    BY <2>1 DEF Pass, Claim
  <2>3. now \in Nat /\ store \in Contents /\ F \subseteq Due /\ g.due \in Nat
    BY <2>2, RemindersAssumption DEF RemindersInv, TypeOK, Fitting, Fires
  <2>4. /\ f.id \in Held(store) /\ f.due \in Nat
        /\ store.items[f.id].next \in Nat /\ store.items[f.id].next <= f.due
    BY <2>2, <2>3, FiresAreDue
  <2>5. g.due < store.items[f.id].next
    BY <2>4 DEF RemindersInv, NextIsLater
  <2> QED
    BY <2>3, <2>4, <2>5
<1>2. []RemindersInv /\ [][Next]_vars => [][NewIsLater]_vars
  BY <1>1, PTL
<1>3. [][NewIsLater]_vars => NeverTwice
  BY PTL DEF NeverTwice
<1> QED
  BY <1>2, <1>3, RemindersInvariant, PTL DEF Spec
=============================================================================
