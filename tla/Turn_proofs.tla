---------------------------- MODULE Turn_proofs ----------------------------
(***************************************************************************)
(* Safety of a conversation's turns, for any number of messages, any queue  *)
(* and history limit and any completions.  TurnInv is the inductive         *)
(* invariant: to the properties it adds what a message was told at each     *)
(* stage of its turn, which is what makes its last word an answer and a     *)
(* forgotten conversation a confessed one.                                  *)
(***************************************************************************)
EXTENDS Turn, TLAPS, FiniteSetTheorems

\* Before its turn has spoken a message was told at most that it waits.
Unspoken(m) ==
  at[m] \in {"unsent", "knocking", "queued", "admitting", "admitted", "forgot"}
     => told[m] \subseteq {"waiting"}

\* A turn that cleared the ring is past that step, and spoke of it before the next.
Confessed(m) ==
  m \in cleared => /\ at[m] \in {"forgot", "begun", "answered", "asking", "done"}
                   /\ at[m] \in {"begun", "answered", "asking"} => "reset" \in told[m]

\* A follow-up begins behind the reply, if there is one.
SpokeFirst(m) == at[m] = "asking" /\ plan[m].reply => "reply" \in told[m]

TurnInv ==
  /\ TypeOK /\ OneTurnAtATime /\ HistoryWasSaid /\ HistoryIsRecent
  /\ ForgettingIsTold /\ EveryMessageIsAnswered
  /\ \A m \in Msgs : Unspoken(m) /\ Confessed(m) /\ SpokeFirst(m)

-----------------------------------------------------------------------------
\* A record that is added joins the newest ones; the ring keeps its type and its limit.
LEMMA AddedToRing ==
  ASSUME TypeOK, NEW m \in Msgs, NEW reply \in BOOLEAN
  PROVE  LET new == [msg |-> m, reply |-> reply, on |-> boundary]
         IN /\ Added(m, reply) \in Seq(Record) /\ Len(Added(m, reply)) <= HistoryLimit
            /\ \A i \in 1..Len(Added(m, reply)) :
                 \/ Added(m, reply)[i] = new
                 \/ \E j \in 1..Len(ring) : Added(m, reply)[i] = ring[j]
<1> DEFINE new == [msg |-> m, reply |-> reply, on |-> boundary]
           longer == Append(ring, new)
<1>1. /\ ring \in Seq(Record) /\ Len(ring) \in Nat /\ Len(ring) <= HistoryLimit
      /\ HistoryLimit \in Nat \ {0}
  BY TurnAssumption DEF TypeOK
<1>2. new \in Record
  BY DEF TypeOK, Record
<1>3. /\ longer \in Seq(Record) /\ Len(longer) = Len(ring) + 1
      /\ \A i \in 1..Len(longer) : longer[i] = new \/ \E j \in 1..Len(ring) : longer[i] = ring[j]
  BY <1>1, <1>2
<1>4. /\ Tail(longer) \in Seq(Record) /\ Len(Tail(longer)) = Len(ring)
      /\ \A i \in 1..Len(Tail(longer)) : Tail(longer)[i] = longer[i + 1] /\ i + 1 \in 1..Len(longer)
  BY <1>1, <1>3
<1>5. Added(m, reply) = IF Len(longer) > HistoryLimit THEN Tail(longer) ELSE longer
  BY DEF Added
<1> HIDE DEF longer, new
<1>6. CASE Len(longer) > HistoryLimit
  <2>1. Added(m, reply) = Tail(longer)
    BY <1>5, <1>6
  <2>2. Len(Added(m, reply)) <= HistoryLimit
    BY <1>1, <1>4, <2>1
  <2>3. ASSUME NEW i \in 1..Len(Tail(longer))
        PROVE  Tail(longer)[i] = new \/ \E j \in 1..Len(ring) : Tail(longer)[i] = ring[j]
    BY <1>3, <1>4
  <2> QED
    BY <1>4, <2>1, <2>2, <2>3 DEF new
<1>7. CASE ~(Len(longer) > HistoryLimit)
  <2>1. Added(m, reply) = longer
    BY <1>5, <1>7
  <2>2. Len(Added(m, reply)) <= HistoryLimit
    BY <1>1, <1>3, <1>7, <2>1
  <2> QED
    BY <1>3, <2>1, <2>2 DEF new
<1> QED
  BY <1>6, <1>7

\* What a message's own goroutine does, and what nobody's does.
Act(m) == Overhear(m) \/ Enter(m) \/ QueueNotice(m) \/ TurnStep(m) \/ Asked(m) \/ AskedNothing(m)
Beside == Pass \/ Cut \/ Kill

\* The part of the type a single message's step reaches through its own entries.
OwnTypes ==
  /\ at \in [Msgs -> Stages] /\ plan \in [Msgs -> Completion]
  /\ told \in [Msgs -> SUBSET Words]
  /\ result \in [Msgs -> {"none", "nil", "error", "killed"}]

\* A step of one message's goroutine changes no other message's entries, takes back
\* nothing it told, and leaves the boundary and the conversation alone.
OwnStep(m) ==
  /\ \A x \in Msgs : x # m => /\ at'[x] = at[x] /\ plan'[x] = plan[x]
                              /\ told'[x] = told[x] /\ result'[x] = result[x]
  /\ told[m] \subseteq told'[m]
  /\ UNCHANGED <<kind, cut, boundary>>
  /\ faults' \in 0..MaxFaults

LEMMA PartsAreWords ==
  ASSUME NEW c \in Completion
  PROVE  Parts(c) \subseteq Words /\ Parts(c) \cap Answers # {} /\ (c.reply => "reply" \in Parts(c))
BY DEF Parts, Completion, Words, Answers

LEMMA StageNames ==
  /\ {"unsent", "knocking", "queued", "asking", "done"} \cup TurnStages \subseteq Stages
  /\ {"admitting", "admitted", "forgot", "begun", "answered"} = TurnStages
  /\ {"reply", "reminder", "noAnswer", "dropped", "locked", "refusal", "question",
      "waiting", "onlyOne", "reset", "nothing"} = Words
BY DEF Stages, TurnStages, Words, Answers

LEMMA OwnSteps ==
  ASSUME TypeOK, NEW m \in Msgs, Act(m)
  PROVE  OwnTypes' /\ OwnStep(m)
<1>1. /\ OwnTypes /\ faults \in 0..MaxFaults /\ MaxFaults \in Nat /\ NoPlan \in Completion
      /\ Completions \subseteq Completion
  BY TurnAssumption DEF TypeOK, OwnTypes, NoPlan, Completion
<1>2. plan[m] \in Completion /\ Parts(plan[m]) \subseteq Words
  BY <1>1, PartsAreWords DEF OwnTypes
<1> USE <1>1, StageNames DEF OwnTypes, OwnStep, Goes, Ends, Says, Fails, Unheard, Quiet, LastWord, world
<1>3. CASE Overhear(m)
  BY <1>3 DEF Overhear
<1>4. CASE Enter(m)
  BY <1>4 DEF Enter
<1>5. CASE QueueNotice(m)
  BY <1>5 DEF QueueNotice
<1>6. CASE Drop(m)
  BY <1>6 DEF Drop
<1>7. CASE Queue(m)
  BY <1>7 DEF Queue
<1>8. CASE Admit(m)
  BY <1>8 DEF Admit
<1>9. CASE Admitted(m)
  BY <1>9 DEF Admitted
<1>10. CASE GiveUp(m)
  BY <1>10 DEF GiveUp
<1>11. CASE Locked(m)
  BY <1>11 DEF Locked
<1>12. CASE Reset(m)
  BY <1>12 DEF Reset
<1>13. CASE ResetNotice(m)
  BY <1>13 DEF ResetNotice
<1>14. CASE Refused(m)
  BY <1>14 DEF Refused
<1>15. CASE Complete(m)
  BY <1>15 DEF Complete
<1>16. CASE Abandon(m)
  BY <1>16 DEF Abandon
<1>17. CASE Reply(m)
  <2>1. PICK words \in SUBSET Words :
          \/ Says(m, words) /\ (Ends(m, "nil") \/ Goes(m, "asking"))
          \/ Unheard /\ Ends(m, "error")
    BY ONLY <1>2, <1>17 DEF Reply, Follow
  <2>2. UNCHANGED world
    BY ONLY <1>17 DEF Reply
  <2>3. CASE Says(m, words) /\ Ends(m, "nil")
    BY <2>2, <2>3
  <2>4. CASE Says(m, words) /\ Goes(m, "asking")
    BY <2>2, <2>4
  <2>5. CASE Unheard /\ Ends(m, "error")
    BY <2>2, <2>5
  <2> QED
    BY ONLY <2>1, <2>3, <2>4, <2>5
<1>18. CASE ReplyNothing(m)
  BY <1>18 DEF ReplyNothing, Follow
<1>19. CASE Asked(m)
  BY <1>19 DEF Asked, SaysInVain
<1>20. CASE AskedNothing(m)
  BY <1>20 DEF AskedNothing, SaysInVain
<1> QED
  BY ONLY Act(m), <1>3, <1>4, <1>5, <1>6, <1>7, <1>8, <1>9, <1>10, <1>11, <1>12, <1>13, <1>14,
     <1>15, <1>16, <1>17, <1>18, <1>19, <1>20 DEF Act, TurnStep

LEMMA TurnInitInv == Init => TurnInv
<1> SUFFICES ASSUME Init PROVE TurnInv
  OBVIOUS
<1>1. NoPlan \in Completion
  BY DEF NoPlan, Completion
<1>2. Cardinality({}) = 0
  BY FS_EmptySet
<1>3. TypeOK
  <2>1. /\ at \in [Msgs -> Stages] /\ plan \in [Msgs -> Completion]
        /\ told \in [Msgs -> SUBSET Words]
        /\ result \in [Msgs -> {"none", "nil", "error", "killed"}]
    BY <1>1 DEF Init, Stages
  <2>2. Cardinality(waiters) <= QueueLimit /\ waiters \subseteq Msgs
    BY <1>2, TurnAssumption DEF Init
  <2>3. ring \in Seq(Record) /\ Len(ring) <= HistoryLimit
    BY TurnAssumption DEF Init
  <2>4. /\ slot \in Msgs \cup {Nobody} /\ kind \in Kinds /\ cleared \subseteq Msgs
        /\ boundary \in 1..LastBoundary /\ since \in 0..boundary /\ cut \in BOOLEAN
        /\ faults \in 0..MaxFaults
    <3>1. slot = Nobody /\ kind \in Kinds /\ cleared = {} /\ cut = FALSE
      BY DEF Init
    <3>2. boundary = 1 /\ since = 0 /\ faults = 0 /\ LastBoundary \in Nat \ {0} /\ MaxFaults \in Nat
      BY TurnAssumption DEF Init
    <3>3. boundary \in 1..LastBoundary /\ since \in 0..boundary /\ faults \in 0..MaxFaults
      BY ONLY <3>2
    <3> QED
      BY ONLY <3>1, <3>3
  <2> QED
    BY <2>1, <2>2, <2>3, <2>4 DEF TypeOK
<1>4. OneTurnAtATime /\ HistoryWasSaid /\ HistoryIsRecent /\ ForgettingIsTold /\ EveryMessageIsAnswered
  BY DEF Init, OneTurnAtATime, HistoryWasSaid, HistoryIsRecent, ForgettingIsTold,
     EveryMessageIsAnswered, TurnStages
<1>5. \A m \in Msgs : Unspoken(m) /\ Confessed(m) /\ SpokeFirst(m)
  BY DEF Init, Unspoken, Confessed, SpokeFirst, NoPlan
<1> QED
  BY <1>3, <1>4, <1>5 DEF TurnInv

-----------------------------------------------------------------------------
\* The waiters stay within the limit of the queue: one is counted only below it.
LEMMA WaitersStep ==
  ASSUME TypeOK, NEW m \in Msgs, Act(m)
  PROVE  waiters' \subseteq Msgs /\ Cardinality(waiters') <= QueueLimit
<1>1. /\ waiters \subseteq Msgs /\ IsFiniteSet(waiters) /\ Cardinality(waiters) \in Nat
      /\ Cardinality(waiters) <= QueueLimit /\ QueueLimit \in Nat
  BY TurnAssumption, FS_Subset, FS_CardinalityType DEF TypeOK
<1>2. \/ waiters' = waiters \/ waiters' = waiters \ {m}
      \/ waiters' = waiters \cup {m} /\ Cardinality(waiters) < QueueLimit
  BY DEF Act, TurnStep, Overhear, Enter, QueueNotice, Drop, Queue, Admit, Admitted, GiveUp, Locked,
     Reset, ResetNotice, Refused, Complete, Abandon, Reply, ReplyNothing, Asked, AskedNothing
<1>3. CASE waiters' = waiters
  BY <1>1, <1>3
<1>4. CASE waiters' = waiters \ {m}
  <2>1. Cardinality(waiters \ {m}) <= Cardinality(waiters) /\ Cardinality(waiters \ {m}) \in Nat
    BY <1>1, FS_Subset, FS_CardinalityType
  <2> QED
    BY <1>1, <1>4, <2>1
<1>5. CASE waiters' = waiters \cup {m} /\ Cardinality(waiters) < QueueLimit
  <2>1. Cardinality(waiters \cup {m}) <= Cardinality(waiters) + 1
    BY <1>1, FS_AddElement
  <2> QED
    BY <1>1, <1>5, <2>1, FS_AddElement
<1> QED
  BY ONLY <1>2, <1>3, <1>4, <1>5

\* The slot: it is taken when it is free, and given up by the turn that holds it.
LEMMA SlotStep ==
  ASSUME TypeOK, OneTurnAtATime, NEW m \in Msgs, Act(m)
  PROVE  OneTurnAtATime' /\ slot' \in Msgs \cup {Nobody}
<1> DEFINE kept == slot' = slot \/ (slot = Nobody /\ slot' = m) \/ (slot = m /\ slot' = Nobody)
           mine == at'[m] \in TurnStages => slot' = m
<1>1. /\ at \in [Msgs -> Stages] /\ slot \in Msgs \cup {Nobody} /\ Nobody \notin Msgs
      /\ at[m] \in TurnStages => slot = m
  BY TurnAssumption DEF TypeOK, OneTurnAtATime
<1>2. SUFFICES kept /\ mine
  BY <1>1, <1>2, OwnSteps DEF OwnStep, OneTurnAtATime
<1> USE <1>1 DEF TurnStages, Goes, Ends, Released, LastWord
<1>3. CASE Overhear(m)
  BY <1>3 DEF Overhear
<1>4. CASE Enter(m)
  BY <1>4 DEF Enter
<1>5. CASE QueueNotice(m)
  BY <1>5 DEF QueueNotice
<1>6. CASE Drop(m)
  BY <1>6 DEF Drop
<1>7. CASE Queue(m)
  BY <1>7 DEF Queue
<1>8. CASE Admit(m)
  BY <1>8 DEF Admit
<1>9. CASE Admitted(m)
  BY <1>9 DEF Admitted
<1>10. CASE GiveUp(m)
  BY <1>10 DEF GiveUp
<1>11. CASE Locked(m)
  BY <1>11 DEF Locked
<1>12. CASE Reset(m)
  BY <1>12 DEF Reset
<1>13. CASE ResetNotice(m)
  BY <1>13 DEF ResetNotice
<1>14. CASE Refused(m)
  BY <1>14 DEF Refused
<1>15. CASE Complete(m)
  BY <1>15 DEF Complete
<1>16. CASE Abandon(m)
  BY <1>16 DEF Abandon
<1>17. CASE Reply(m)
  BY <1>17 DEF Reply, Follow
<1>18. CASE ReplyNothing(m)
  BY <1>18 DEF ReplyNothing, Follow
<1>19. CASE Asked(m)
  BY <1>19 DEF Asked, SaysInVain
<1>20. CASE AskedNothing(m)
  BY <1>20 DEF AskedNothing, SaysInVain
<1> QED
  BY ONLY Act(m), <1>3, <1>4, <1>5, <1>6, <1>7, <1>8, <1>9, <1>10, <1>11, <1>12,
     <1>13, <1>14, <1>15, <1>16, <1>17, <1>18, <1>19, <1>20 DEF Act, TurnStep

\* The ring: a record is added for what is overheard or for a reply that was sent, and
\* a reset empties it.
LEMMA RingStep ==
  ASSUME TypeOK, HistoryWasSaid, HistoryIsRecent, NEW m \in Msgs, Act(m)
  PROVE  /\ ring' \in Seq(Record) /\ Len(ring') <= HistoryLimit /\ since' \in 0..boundary'
         /\ HistoryWasSaid' /\ HistoryIsRecent'
<1>1. /\ ring \in Seq(Record) /\ Len(ring) <= HistoryLimit /\ HistoryLimit \in Nat
      /\ boundary \in Nat /\ since \in 0..boundary /\ boundary' = boundary
      /\ \A x \in Msgs : told[x] \subseteq told'[x]
  BY TurnAssumption, OwnSteps DEF TypeOK, OwnStep
<1>2. \/ ring' = ring /\ since' = since
      \/ ring' = ring /\ since' = boundary /\ (since = boundary \/ ring = <<>>)
      \/ ring' = <<>> /\ since' = boundary
      \/ ring' = Added(m, FALSE) /\ since' = since
      \/ ring' = Added(m, TRUE) /\ since' = since /\ "reply" \in told'[m]
  <2>1. CASE Reset(m)
    <3>1. CASE since < boundary /\ ring # <<>>
      BY ONLY <2>1, <3>1 DEF Reset
    <3>2. CASE ~(since < boundary /\ ring # <<>>)
      <4>1. ring' = ring /\ since' = boundary
        BY ONLY <2>1, <3>2 DEF Reset
      <4>2. since = boundary \/ ring = <<>>
        BY ONLY <1>1, <3>2
      <4> QED
        BY ONLY <4>1, <4>2
    <3> QED
      BY ONLY <3>1, <3>2
  <2>2. CASE Reply(m)
    <3>1. plan[m] \in Completion /\ told \in [Msgs -> SUBSET Words]
      BY DEF TypeOK
    <3>2. plan[m].reply => "reply" \in Parts(plan[m])
      BY <3>1, PartsAreWords
    <3> QED
      BY <2>2, <3>1, <3>2 DEF Reply, Says
  <2>3. CASE Overhear(m)
    BY <2>3 DEF Overhear
  <2>4. CASE ~Reset(m) /\ ~Reply(m) /\ ~Overhear(m)
    BY <2>4 DEF Act, TurnStep, Enter, QueueNotice, Drop, Queue, Admit, Admitted, GiveUp, Locked,
       ResetNotice, Refused, Complete, Abandon, ReplyNothing, Asked, AskedNothing
  <2> QED
    BY <2>1, <2>2, <2>3, <2>4
<1>3. CASE ring' = ring /\ since' \in {since, boundary} /\ (since' = since \/ since = boundary \/ ring = <<>>)
  <2>1. ASSUME NEW i \in 1..Len(ring) PROVE ring[i].msg \in Msgs
    <3>1. ring[i] \in Record
      BY <1>1
    <3> QED
      BY <3>1 DEF Record
  <2>2. HistoryWasSaid'
    <3>1. ring' = ring
      BY ONLY <1>3
    <3>2. ASSUME NEW i \in 1..Len(ring'), ring'[i].reply
          PROVE  "reply" \in told'[ring'[i].msg]
      <4>1. "reply" \in told[ring[i].msg]
        BY <3>1, <3>2 DEF HistoryWasSaid
      <4> QED
        BY <1>1, <2>1, <3>1, <4>1
    <3> QED
      BY ONLY <3>2 DEF HistoryWasSaid
  <2>3. CASE since' = since
    BY <1>1, <1>3, <2>2, <2>3 DEF HistoryIsRecent
  <2>4. CASE since = boundary
    BY <1>1, <1>3, <2>2, <2>4 DEF HistoryIsRecent
  <2>5. CASE ring = <<>>
    <3>1. Len(ring') = 0
      BY <1>3, <2>5
    <3> QED
      BY <1>1, <1>3, <2>2, <3>1 DEF HistoryIsRecent
  <2> QED
    BY <1>3, <2>3, <2>4, <2>5
<1>4. CASE ring' = <<>> /\ since' = boundary
  BY <1>1, <1>4 DEF HistoryWasSaid, HistoryIsRecent
<1>5. ASSUME NEW reply \in BOOLEAN, ring' = Added(m, reply), since' = since,
             reply => "reply" \in told'[m]
      PROVE  /\ ring' \in Seq(Record) /\ Len(ring') <= HistoryLimit /\ since' \in 0..boundary'
             /\ HistoryWasSaid' /\ HistoryIsRecent'
  <2> DEFINE new == [msg |-> m, reply |-> reply, on |-> boundary]
  <2>1. /\ ring' \in Seq(Record) /\ Len(ring') <= HistoryLimit
        /\ \A i \in 1..Len(ring') : ring'[i] = new \/ \E j \in 1..Len(ring) : ring'[i] = ring[j]
    BY <1>5, AddedToRing
  <2>2. ASSUME NEW i \in 1..Len(ring'), ring'[i].reply
        PROVE  "reply" \in told'[ring'[i].msg]
    <3>1. CASE ring'[i] = new
      BY <1>5, <2>2, <3>1
    <3>2. ASSUME NEW j \in 1..Len(ring), ring'[i] = ring[j]
          PROVE  "reply" \in told'[ring'[i].msg]
      <4>1. ring[j] \in Record
        BY <1>1, <3>2
      <4>2. "reply" \in told[ring[j].msg] /\ ring[j].msg \in Msgs
        BY <2>2, <3>2, <4>1 DEF HistoryWasSaid, Record
      <4> QED
        BY <1>1, <3>2, <4>2
    <3> QED
      BY <2>1, <3>1, <3>2
  <2>3. ASSUME NEW i \in 1..Len(ring')
        PROVE  ring'[i].on >= since'
    <3>1. CASE ring'[i] = new
      BY <1>1, <1>5, <3>1
    <3>2. ASSUME NEW j \in 1..Len(ring), ring'[i] = ring[j]
          PROVE  ring'[i].on >= since'
      BY <1>5, <3>2 DEF HistoryIsRecent
    <3> QED
      BY <2>1, <3>1, <3>2
  <2> QED
    BY <1>1, <1>5, <2>1, <2>2, <2>3 DEF HistoryWasSaid, HistoryIsRecent
<1> QED
  BY <1>1, <1>2, <1>3, <1>4, <1>5

-----------------------------------------------------------------------------
\* What holds of a message that was handled: its answer.
AnsweredIfNil(m) ==
  result[m] = "nil" /\ ~(kind = "group" /\ m \in Overheard)
    => told[m] \cap (Answers \cup {"nothing"}) # {}

\* What holds of a message whose turn cleared the ring.
ForgotAloud(m) == m \in cleared /\ told[m] \ {"waiting"} # {} => "reset" \in told[m]

LEMMA AnswersAreAnswers ==
  {"reply", "reminder", "noAnswer", "dropped", "locked", "refusal", "question"} = Answers
BY DEF Answers

\* A step of a message's own goroutine keeps what its words amount to.
LEMMA WordsStep ==
  ASSUME TypeOK, NEW m \in Msgs, Act(m),
         Unspoken(m), Confessed(m), SpokeFirst(m), AnsweredIfNil(m), ForgotAloud(m)
  PROVE  /\ cleared' \subseteq Msgs /\ cleared' \in {cleared, cleared \cup {m}}
         /\ (Unspoken(m) /\ Confessed(m) /\ SpokeFirst(m) /\ AnsweredIfNil(m) /\ ForgotAloud(m))'
<1>1. /\ at \in [Msgs -> Stages] /\ told \in [Msgs -> SUBSET Words] /\ cleared \subseteq Msgs
      /\ result \in [Msgs -> {"none", "nil", "error", "killed"}]
      /\ plan \in [Msgs -> Completion]
  BY DEF TypeOK
<1>2. /\ Parts(plan[m]) \cap Answers # {} /\ (plan[m].reply => "reply" \in Parts(plan[m]))
      /\ NoPlan.reply = FALSE
  BY <1>1, PartsAreWords DEF NoPlan
<1> USE <1>1, <1>2, AnswersAreAnswers DEF Unspoken, Confessed, SpokeFirst, AnsweredIfNil, ForgotAloud,
    Goes, Ends, Says, Fails, Unheard, Quiet, LastWord, world
<1>3. CASE Overhear(m)
  BY <1>3 DEF Overhear
<1>4. CASE Enter(m)
  BY <1>4 DEF Enter
<1>5. CASE QueueNotice(m)
  BY <1>5 DEF QueueNotice
<1>6. CASE Drop(m)
  BY <1>6 DEF Drop
<1>7. CASE Queue(m)
  BY <1>7 DEF Queue
<1>8. CASE Admit(m)
  BY <1>8 DEF Admit
<1>9. CASE Admitted(m)
  BY <1>9 DEF Admitted
<1>10. CASE GiveUp(m)
  BY <1>10 DEF GiveUp
<1>11. CASE Locked(m)
  BY <1>11 DEF Locked
<1>12. CASE Reset(m)
  BY <1>12 DEF Reset
<1>13. CASE ResetNotice(m)
  BY <1>13 DEF ResetNotice
<1>14. CASE Refused(m)
  BY <1>14 DEF Refused
<1>15. CASE Complete(m)
  BY <1>15 DEF Complete
<1>16. CASE Abandon(m)
  BY <1>16 DEF Abandon
<1>17. CASE Reply(m)
  <2>1. /\ at[m] = "answered" /\ UNCHANGED <<cleared, world>>
        /\ \/ Says(m, Parts(plan[m])) /\ (Ends(m, "nil") \/ Goes(m, "asking"))
           \/ Unheard /\ Ends(m, "error")
    BY ONLY <1>17 DEF Reply, Follow
  <2>2. CASE Says(m, Parts(plan[m])) /\ Ends(m, "nil")
    BY <2>1, <2>2
  <2>3. CASE Says(m, Parts(plan[m])) /\ Goes(m, "asking")
    BY <2>1, <2>3
  <2>4. CASE Unheard /\ Ends(m, "error")
    BY <2>1, <2>4
  <2> QED
    BY ONLY <2>1, <2>2, <2>3, <2>4
<1>18. CASE ReplyNothing(m)
  BY <1>18 DEF ReplyNothing, Follow, Speaks
<1>19. CASE Asked(m)
  BY <1>19 DEF Asked, SaysInVain
<1>20. CASE AskedNothing(m)
  BY <1>20 DEF AskedNothing, SaysInVain
<1> QED
  BY ONLY Act(m), <1>3, <1>4, <1>5, <1>6, <1>7, <1>8, <1>9, <1>10, <1>11, <1>12,
     <1>13, <1>14, <1>15, <1>16, <1>17, <1>18, <1>19, <1>20 DEF Act, TurnStep

\* Every step of a message's goroutine preserves the invariant.
LEMMA OwnStepInv ==
  ASSUME TurnInv, NEW m \in Msgs, Act(m)
  PROVE  TurnInv'
<1>1. /\ TypeOK /\ OneTurnAtATime /\ HistoryWasSaid /\ HistoryIsRecent
      /\ \A x \in Msgs : /\ Unspoken(x) /\ Confessed(x) /\ SpokeFirst(x)
                         /\ AnsweredIfNil(x) /\ ForgotAloud(x)
  BY DEF TurnInv, EveryMessageIsAnswered, ForgettingIsTold, AnsweredIfNil, ForgotAloud
<1>2. OwnTypes' /\ OwnStep(m)
  BY <1>1, OwnSteps
<1>3. /\ cleared' \subseteq Msgs /\ cleared' \in {cleared, cleared \cup {m}}
      /\ (Unspoken(m) /\ Confessed(m) /\ SpokeFirst(m) /\ AnsweredIfNil(m) /\ ForgotAloud(m))'
  BY <1>1, WordsStep
<1>4. TypeOK'
  <2>1. kind \in Kinds /\ boundary \in 1..LastBoundary /\ cut \in BOOLEAN
    BY <1>1 DEF TypeOK
  <2> QED
    BY <1>1, <1>2, <1>3, <2>1, WaitersStep, SlotStep, RingStep DEF TypeOK, OwnTypes, OwnStep
<1>5. ASSUME NEW x \in Msgs, x # m
      PROVE  (Unspoken(x) /\ Confessed(x) /\ SpokeFirst(x) /\ AnsweredIfNil(x) /\ ForgotAloud(x))'
  BY <1>1, <1>2, <1>3, <1>5 DEF OwnStep, Unspoken, Confessed, SpokeFirst, AnsweredIfNil, ForgotAloud
<1>6. \A x \in Msgs : /\ Unspoken(x)' /\ Confessed(x)' /\ SpokeFirst(x)'
                      /\ AnsweredIfNil(x)' /\ ForgotAloud(x)'
  BY <1>3, <1>5
<1>7. ForgettingIsTold' /\ EveryMessageIsAnswered'
  BY <1>3, <1>6 DEF EveryMessageIsAnswered, ForgettingIsTold, AnsweredIfNil, ForgotAloud
<1> QED
  BY <1>1, <1>4, <1>6, <1>7, SlotStep, RingStep DEF TurnInv

\* So does what happens beside the turns: a boundary, a cancelled context, a killed process.
LEMMA BesideInv ==
  ASSUME TurnInv, Beside
  PROVE  TurnInv'
<1>1. TypeOK
  BY DEF TurnInv
<1>2. CASE Pass \/ Cut
  <2>1. TypeOK'
    <3>1. CASE Pass
      BY <1>1, <3>1, TurnAssumption DEF TypeOK, Pass
    <3>2. CASE Cut
      BY <1>1, <3>2, TurnAssumption DEF TypeOK, Cut
    <3> QED
      BY <1>2, <3>1, <3>2
  <2> QED
    BY <1>2, <2>1 DEF TurnInv, Pass, Cut, OneTurnAtATime, HistoryWasSaid, HistoryIsRecent,
       ForgettingIsTold, EveryMessageIsAnswered, Unspoken, Confessed, SpokeFirst
<1>3. CASE Kill
  <2>1. /\ OwnTypes' /\ slot' \in Msgs \cup {Nobody}
        /\ kind' \in Kinds /\ cleared' \subseteq Msgs /\ cut' \in BOOLEAN
    BY <1>1, <1>3, StageNames DEF TypeOK, OwnTypes, Kill, NoPlan, Completion
  <2>2. boundary' \in 1..LastBoundary /\ since' \in 0..boundary' /\ faults' \in 0..MaxFaults
    BY <1>1, <1>3, TurnAssumption DEF TypeOK, Kill
  <2>3. /\ waiters' \subseteq Msgs /\ Cardinality(waiters') <= QueueLimit
    BY <1>3, FS_EmptySet, TurnAssumption DEF Kill
  <2>4. ring' \in Seq(Record) /\ Len(ring') <= HistoryLimit
    BY <1>3, TurnAssumption DEF Kill
  <2>5. TypeOK'
    BY <2>1, <2>2, <2>3, <2>4 DEF TypeOK, OwnTypes
  <2>6. HistoryWasSaid' /\ HistoryIsRecent'
    BY <1>3 DEF Kill, HistoryWasSaid, HistoryIsRecent
  <2>7. OneTurnAtATime'
    BY <1>3 DEF Kill, OneTurnAtATime, TurnStages
  <2>8. ForgettingIsTold' /\ EveryMessageIsAnswered'
    BY <1>1, <1>3 DEF TurnInv, Kill, ForgettingIsTold, EveryMessageIsAnswered
  <2>9. \A m \in Msgs : Unspoken(m)' /\ Confessed(m)' /\ SpokeFirst(m)'
    BY <1>1, <1>3 DEF TurnInv, Kill, Unspoken, Confessed, SpokeFirst
  <2> QED
    BY <2>5, <2>6, <2>7, <2>8, <2>9 DEF TurnInv
<1> QED
  BY <1>2, <1>3 DEF Beside

LEMMA TurnNextInv == TurnInv /\ [Next]_vars => TurnInv'
<1>1. ASSUME TurnInv, UNCHANGED vars PROVE TurnInv'
  BY <1>1 DEF vars, TurnInv, TypeOK, OneTurnAtATime, HistoryWasSaid, HistoryIsRecent,
     ForgettingIsTold, EveryMessageIsAnswered, Unspoken, Confessed, SpokeFirst
<1>2. Next => Beside \/ \E m \in Msgs : Act(m)
  BY DEF Next, Beside, Act
<1> QED
  BY <1>1, <1>2, OwnStepInv, BesideInv

-----------------------------------------------------------------------------
\* The invariant of every behaviour of a conversation (assistant.Handle).
THEOREM TurnInvariant == Spec => []TurnInv
  BY TurnInitInv, TurnNextInv, PTL DEF Spec

\* At most one turn of a conversation is between its admission and its reply: a turn
\* releases only the slot it holds, however often it does (assistant.go releaseOnce).
THEOREM TurnsAreSerial == Spec => []OneTurnAtATime
<1>1. TurnInv => OneTurnAtATime
  BY DEF TurnInv
<1> QED
  BY <1>1, TurnInvariant, PTL

\* Every message that Handle returned nil for was answered, or its follow-up tried to.
THEOREM MessagesAreAnswered == Spec => []EveryMessageIsAnswered
<1>1. TurnInv => EveryMessageIsAnswered
  BY DEF TurnInv
<1> QED
  BY <1>1, TurnInvariant, PTL

\* The history holds replies that were sent, and after a reset nothing from before it.
THEOREM HistoryIsTrue == Spec => []HistoryIsHonest
<1>1. TurnInv => HistoryIsHonest
  BY DEF TurnInv, HistoryIsHonest
<1> QED
  BY <1>1, TurnInvariant, PTL

\* A turn that forgot the conversation speaks of that before it says anything else.
THEOREM ForgettingIsConfessed == Spec => []ForgettingIsTold
<1>1. TurnInv => ForgettingIsTold
  BY DEF TurnInv
<1> QED
  BY <1>1, TurnInvariant, PTL

\* The types hold, the bound of the queue and of the ring among them.
THEOREM TurnTypes == Spec => []TypeOK
<1>1. TurnInv => TypeOK
  BY DEF TurnInv
<1> QED
  BY <1>1, TurnInvariant, PTL

=============================================================================
