-------------------------------- MODULE Turn --------------------------------
(***************************************************************************)
(* One conversation's unit: the slot that lets one turn run at a time, the  *)
(* bounded queue behind it, the steps of a turn from the session check to   *)
(* the reply, the follow-up question that runs outside the slot, and the    *)
(* ring of recent turns with its scheduled reset.                          *)
(*                                                                         *)
(* Every message is handled by a goroutine of its own.  A send may fail,    *)
(* the context may be cut under any turn (the end of a drain), the key may  *)
(* be locked and unlocked, and the process may be killed.  A completion is  *)
(* what the turn does with it: whether it has words, a note about reminders *)
(* or a second proposal, and a question for the member.                    *)
(***************************************************************************)
EXTENDS Integers, FiniteSets, Sequences

CONSTANTS
  Msgs,          \* the messages of the conversation
  Kinds,         \* the conversations: a member's "direct" chat, the "group" chat
  Overheard,     \* the messages that are not addressed to the node
  QueueLimit,    \* Options.QueueLimit
  HistoryLimit,  \* Options.HistoryLimit
  Completions,   \* the completions a model may give
  LastBoundary,  \* bound: the scheduled resets that pass
  MaxFaults      \* bound: sends that fail, cancelled contexts and killed processes

Nobody == "nobody"
Completion == [reply : BOOLEAN, note : {"none", "reminder", "onlyOne"},
               question : {"none", "remember", "publish"}]

ASSUME TurnAssumption ==
  /\ IsFiniteSet(Msgs) /\ Nobody \notin Msgs /\ Overheard \subseteq Msgs /\ Kinds \subseteq {"direct", "group"}
  /\ Completions \subseteq Completion
  /\ QueueLimit \in Nat /\ HistoryLimit \in Nat \ {0}
  /\ LastBoundary \in Nat \ {0} /\ MaxFaults \in Nat

VARIABLES
  kind,      \* the conversation: a member's own, or the household's group chat
  at,        \* where each message's goroutine is
  slot,      \* the message whose turn holds the slot
  waiters,   \* the messages the waiters counter counts
  plan,      \* the completion a turn acts on
  told,      \* what the member was told in answer to each message
  result,    \* what Handle returned
  ring,      \* the history ring
  since,     \* the boundary the ring was last reset to
  boundary,  \* the latest boundary that has passed
  cleared,   \* history: the turns that cleared the ring
  cut,       \* the context of the turns is cancelled
  faults     \* how many faults there were

vars == <<kind, at, slot, waiters, plan, told, result, ring, since, boundary, cleared,
          cut, faults>>
world == <<kind, cut, boundary>>

NoPlan == [reply |-> FALSE, note |-> "none", question |-> "none"]

\* The stages of a turn, which hold the slot.
TurnStages == {"admitting", "admitted", "forgot", "begun", "answered"}
Stages == TurnStages \cup {"unsent", "knocking", "queued", "asking", "done"}

\* What answers a message, and what is said besides.
Answers == {"reply", "reminder", "noAnswer", "dropped", "locked", "refusal", "question"}
Words == Answers \cup {"waiting", "onlyOne", "reset", "nothing"}

\* A record of the ring: a message, whether it was answered, and when it was added.
Record == [msg : Msgs, reply : BOOLEAN, on : 1..LastBoundary]

TypeOK ==
  /\ at \in [Msgs -> Stages] /\ slot \in Msgs \cup {Nobody}
  /\ waiters \subseteq Msgs /\ kind \in Kinds
  /\ Cardinality(waiters) <= QueueLimit
  /\ plan \in [Msgs -> Completion] /\ told \in [Msgs -> SUBSET Words]
  /\ result \in [Msgs -> {"none", "nil", "error", "killed"}]
  /\ ring \in Seq(Record) /\ Len(ring) <= HistoryLimit
  /\ boundary \in 1..LastBoundary /\ since \in 0..boundary
  /\ cleared \subseteq Msgs
  /\ cut \in BOOLEAN
  /\ faults \in 0..MaxFaults

Init ==
  /\ at = [m \in Msgs |-> "unsent"] /\ slot = Nobody
  /\ waiters = {} /\ kind \in Kinds
  /\ plan = [m \in Msgs |-> NoPlan] /\ told = [m \in Msgs |-> {}]
  /\ result = [m \in Msgs |-> "none"]
  /\ ring = <<>> /\ since = 0 /\ boundary = 1 /\ cleared = {}
  /\ cut = FALSE
  /\ faults = 0

-----------------------------------------------------------------------------
\* A send to the conversation: the words arrive, or the send fails.
Says(m, words) == told' = [told EXCEPT ![m] = @ \cup words] /\ UNCHANGED faults
Fails == \/ cut /\ UNCHANGED faults
         \/ ~cut /\ faults < MaxFaults /\ faults' = faults + 1
Unheard == Fails /\ UNCHANGED told
Quiet == UNCHANGED <<told, faults>>

\* The goroutine goes on to a stage, or ends: Handle returns.
Goes(m, stage) == at' = [at EXCEPT ![m] = stage] /\ UNCHANGED <<result, plan>>
Ends(m, r) == /\ at' = [at EXCEPT ![m] = "done"] /\ result' = [result EXCEPT ![m] = r]
              /\ plan' = [plan EXCEPT ![m] = NoPlan]
\* A mutant of Released: the second release of a turn takes the slot from another.
ReleasedTwice(m) == slot' = Nobody

\* The turn's slot is released, the first time this is called.
Released(m) == slot' = IF slot = m THEN Nobody ELSE slot

\* A turn's last word: Handle returns what the send returned.
LastWord(m, words) ==
  /\ \/ Says(m, words) /\ Ends(m, "nil")
     \/ Unheard /\ Ends(m, "error")
  /\ Released(m)

\* The ring with one more record, the oldest evicted when it is full.
Added(m, reply) ==
  LET longer == Append(ring, [msg |-> m, reply |-> reply, on |-> boundary])
  IN IF Len(longer) > HistoryLimit THEN Tail(longer) ELSE longer

-----------------------------------------------------------------------------
\* A message of the group chat the node was not asked: it is only remembered.
Overhear(m) ==
  /\ at[m] = "unsent" /\ kind = "group" /\ m \in Overheard
  /\ ring' = Added(m, FALSE)
  /\ Ends(m, "nil")
  /\ UNCHANGED <<slot, waiters, told, since, cleared, faults, world>>

\* A message for the node: the slot is free, and taken; or it is not.
Enter(m) ==
  /\ at[m] = "unsent" /\ (kind = "group" => m \notin Overheard)
  /\ IF slot = Nobody THEN slot' = m /\ Goes(m, "admitted")
                      ELSE UNCHANGED slot /\ Goes(m, "knocking")
  /\ UNCHANGED <<waiters, told, ring, since, cleared, faults, world>>

\* The queue is full: the message is dropped, and its sender is told.
Drop(m) ==
  /\ at[m] = "knocking" /\ Cardinality(waiters) >= QueueLimit
  /\ LastWord(m, {"dropped"})
  /\ UNCHANGED <<waiters, ring, since, cleared, world>>

\* A mutant of Queue: one more waits than the limit allows.
QueueOneMore(m) ==
  /\ at[m] = "knocking" /\ Cardinality(waiters) <= QueueLimit
  /\ waiters' = waiters \cup {m}
  /\ Goes(m, "queued")
  /\ UNCHANGED <<slot, told, ring, since, cleared, faults, world>>

Queue(m) ==
  /\ at[m] = "knocking" /\ Cardinality(waiters) < QueueLimit
  /\ waiters' = waiters \cup {m}
  /\ Goes(m, "queued")
  /\ UNCHANGED <<slot, told, ring, since, cleared, faults, world>>

\* The wait has been long: the member is told once.  A notice that fails is only
\* logged, and leaves things as they would be without it.
QueueNotice(m) ==
  /\ at[m] = "queued" /\ "waiting" \notin told[m]
  /\ Says(m, {"waiting"})
  /\ UNCHANGED <<at, slot, waiters, plan, result, ring, since, cleared, world>>

\* A waiter gets the slot; it is counted until admit returns.
Admit(m) ==
  /\ at[m] = "queued" /\ slot = Nobody
  /\ slot' = m
  /\ Goes(m, "admitting")
  /\ UNCHANGED <<waiters, told, ring, since, cleared, faults, world>>

Admitted(m) ==
  /\ at[m] = "admitting"
  /\ waiters' = waiters \ {m}
  /\ Goes(m, "admitted")
  /\ UNCHANGED <<slot, told, ring, since, cleared, faults, world>>

GiveUp(m) ==
  /\ at[m] = "queued" /\ cut
  /\ waiters' = waiters \ {m}
  /\ Ends(m, "error")
  /\ UNCHANGED <<slot, told, ring, since, cleared, faults, world>>

-----------------------------------------------------------------------------
\* The conversation needs the member's key, and the session, which is locked and
\* unlocked beside the turn, does not hold it.
Locked(m) ==
  /\ at[m] = "admitted" /\ kind = "direct"
  /\ LastWord(m, {"locked"})
  /\ UNCHANGED <<waiters, ring, since, cleared, world>>

\* A mutant of Reset: the boundary is adopted and the ring is left as it is.
ResetKeeps(m) ==
  /\ at[m] = "admitted"
  /\ since' = boundary
  /\ IF since < boundary /\ ring # <<>>
     THEN cleared' = cleared \cup {m} /\ Goes(m, "forgot")
     ELSE UNCHANGED cleared /\ Goes(m, "begun")
  /\ UNCHANGED <<slot, waiters, told, ring, faults, world>>

\* The scheduled reset: a boundary that has passed is adopted, and what was said
\* before this turn is forgotten.
Reset(m) ==
  /\ at[m] = "admitted"
  /\ since' = boundary
  /\ IF since < boundary /\ ring # <<>>
     THEN ring' = <<>> /\ cleared' = cleared \cup {m} /\ Goes(m, "forgot")
     ELSE UNCHANGED <<ring, cleared>> /\ Goes(m, "begun")
  /\ UNCHANGED <<slot, waiters, told, faults, world>>

\* A mutant of ResetNotice: its failure is only logged.
ResetNoticeOptional(m) ==
  /\ at[m] = "forgot"
  /\ Says(m, {"reset"}) \/ Unheard
  /\ Goes(m, "begun")
  /\ UNCHANGED <<slot, waiters, ring, since, cleared, world>>

\* The member is told what was forgotten, or the turn fails.
ResetNotice(m) ==
  /\ at[m] = "forgot"
  /\ \/ Says(m, {"reset"}) /\ Goes(m, "begun") /\ UNCHANGED slot
     \/ Unheard /\ Ends(m, "error") /\ Released(m)
  /\ UNCHANGED <<waiters, ring, since, cleared, world>>

\* The memory is searched, the prompt assembled and the router asked.  The router fails,
\* or the model declines, and one notice says which; a turn that was cut ends here.
Refused(m) ==
  /\ at[m] = "begun"
  /\ \/ LastWord(m, {"refusal"})
     \/ cut /\ Ends(m, "error") /\ Released(m) /\ Quiet
  /\ UNCHANGED <<waiters, ring, since, cleared, world>>

\* A completion: its reminders are set and cancelled before anything is said.
Complete(m) ==
  /\ at[m] = "begun"
  /\ \E c \in Completions : plan' = [plan EXCEPT ![m] = c]
  /\ at' = [at EXCEPT ![m] = "answered"] /\ UNCHANGED result
  /\ UNCHANGED <<slot, waiters, told, ring, since, cleared, faults, world>>

-----------------------------------------------------------------------------
\* A mutant of Parts: a second proposal that was dropped counts as an answer.
PartsAsTheyAre(c) == (IF c.reply THEN {"reply"} ELSE {})
                     \cup (IF c.note = "none" THEN {} ELSE {c.note})

\* The message that carries the reply, and what it says.
Speaks(c) == c.reply \/ c.note # "none"
Parts(c) == (IF c.reply THEN {"reply"} ELSE {})
            \cup (IF c.note = "none" THEN {} ELSE {c.note})
            \cup (IF c.reply \/ c.note = "reminder" THEN {} ELSE {"noAnswer"})

\* A turn that was cut says nothing.
Abandon(m) ==
  /\ at[m] = "answered" /\ cut
  /\ Ends(m, "error") /\ Released(m)
  /\ UNCHANGED <<waiters, told, ring, since, cleared, faults, world>>

\* A mutant of Follow: the deferred release is the only one.
FollowInTheSlot(m) ==
  IF plan[m].question = "none" THEN Ends(m, "nil") /\ Released(m)
                               ELSE Goes(m, "asking") /\ UNCHANGED slot

\* The slot is released before the question, which waits on the member.
Follow(m) ==
  IF plan[m].question = "none" THEN Ends(m, "nil") /\ Released(m)
                               ELSE Goes(m, "asking") /\ Released(m)

\* A mutant of Reply: the turn is recorded before it is sent.
ReplyRecordedFirst(m) ==
  /\ at[m] = "answered" /\ ~cut /\ Speaks(plan[m])
  /\ ring' = IF plan[m].reply THEN Added(m, TRUE) ELSE ring
  /\ \/ Says(m, Parts(plan[m])) /\ Follow(m)
     \/ Unheard /\ Ends(m, "error") /\ Released(m)
  /\ UNCHANGED <<waiters, since, cleared, world>>

\* The reply goes out, and is recorded only then; a reply that cannot be sent ends the
\* turn, its question with it.
Reply(m) ==
  /\ at[m] = "answered" /\ ~cut /\ Speaks(plan[m])
  /\ \/ /\ Says(m, Parts(plan[m])) /\ Follow(m)
        /\ ring' = IF plan[m].reply THEN Added(m, TRUE) ELSE ring
     \/ Unheard /\ Ends(m, "error") /\ Released(m) /\ UNCHANGED ring
  /\ UNCHANGED <<waiters, since, cleared, world>>

\* The model gave nothing to say: the member is told so, unless a question follows.
ReplyNothing(m) ==
  /\ at[m] = "answered" /\ ~cut /\ ~Speaks(plan[m])
  /\ IF plan[m].question = "none" THEN LastWord(m, {"noAnswer"}) ELSE Follow(m) /\ Quiet
  /\ UNCHANGED <<waiters, ring, since, cleared, world>>

\* A send of the follow-up fails: that is logged, and Handle returns nil all the same.
SaysInVain(m) ==
  Fails /\ told' = [told EXCEPT ![m] = @ \cup {"nothing"}]

\* The capture engine asks its question, or speaks for the failure; what it cannot
\* deliver it has tried to.
Asked(m) ==
  /\ at[m] = "asking"
  /\ Says(m, {"question"}) \/ SaysInVain(m)
  /\ Ends(m, "nil") /\ Released(m)
  /\ UNCHANGED <<waiters, ring, since, cleared, world>>

\* The engine asks nothing: the title is known or the turn has had its question, or a
\* publication failed before it spoke.  Without a reply the member is told something.
AskedNothing(m) ==
  /\ at[m] = "asking"
  /\ IF plan[m].reply THEN Quiet
     ELSE Says(m, {"noAnswer"}) \/ SaysInVain(m)
  /\ Ends(m, "nil") /\ Released(m)
  /\ UNCHANGED <<waiters, ring, since, cleared, world>>

-----------------------------------------------------------------------------
\* A scheduled boundary passes.
Pass ==
  /\ boundary < LastBoundary /\ boundary' = boundary + 1
  /\ UNCHANGED <<kind, at, slot, waiters, plan, told, result, ring, since, cleared, cut, faults>>

\* The drain's grace is over: the context of every turn is cancelled.
Cut ==
  /\ ~cut /\ cut' = TRUE
  /\ faults < MaxFaults /\ faults' = faults + 1
  /\ UNCHANGED <<kind, at, slot, waiters, plan, told, result, ring, since, boundary, cleared>>

\* The process ends, and a new one has no turns and no history.
Kill ==
  /\ faults < MaxFaults /\ faults' = faults + 1
  /\ at' = [m \in Msgs |-> IF at[m] = "unsent" THEN "unsent" ELSE "done"]
  /\ result' = [m \in Msgs |-> IF at[m] \in {"unsent", "done"} THEN result[m] ELSE "killed"]
  /\ slot' = Nobody /\ waiters' = {} /\ ring' = <<>> /\ since' = 0 /\ cut' = FALSE
  /\ plan' = [m \in Msgs |-> NoPlan]
  /\ UNCHANGED <<kind, told, cleared, boundary>>

TurnStep(m) ==
  \/ Drop(m) \/ Queue(m) \/ Admit(m) \/ Admitted(m) \/ GiveUp(m)
  \/ Locked(m) \/ Reset(m) \/ ResetNotice(m) \/ Refused(m) \/ Complete(m)
  \/ Abandon(m) \/ Reply(m) \/ ReplyNothing(m)

Next ==
  \/ \E m \in Msgs : \/ Overhear(m) \/ Enter(m) \/ QueueNotice(m) \/ TurnStep(m)
                      \/ Asked(m) \/ AskedNothing(m)
  \/ Pass \/ Cut \/ Kill

\* The router and the transport return, in time or with an error; the member need
\* never answer a question, and the node need not be cut or killed.
Fairness == \A m \in Msgs : WF_vars(TurnStep(m))

Spec == Init /\ [][Next]_vars /\ Fairness

-----------------------------------------------------------------------------
\* At most one turn is between its admission and its reply, and it holds the slot,
\* although a turn releases it early for its question and again when it returns.
OneTurnAtATime == \A m \in Msgs : at[m] \in TurnStages => slot = m

\* Whoever wrote to the node and whose turn did not fail got an answer, or the
\* follow-up tried to give them one; a notice that they wait, that something was
\* forgotten or that only one proposal was kept is none.
EveryMessageIsAnswered ==
  \A m \in Msgs : result[m] = "nil" /\ ~(kind = "group" /\ m \in Overheard)
                     => told[m] \cap (Answers \cup {"nothing"}) # {}

\* The history the model is shown holds only replies the member was sent.
HistoryWasSaid ==
  \A i \in 1..Len(ring) : ring[i].reply => "reply" \in told[ring[i].msg]

\* Once the ring has been reset to a boundary, it holds nothing from before it.
HistoryIsRecent == \A i \in 1..Len(ring) : ring[i].on >= since

\* What a turn may quote: replies that were sent, in the conversation as it stands now.
HistoryIsHonest == HistoryWasSaid /\ HistoryIsRecent

\* A turn that forgot the conversation says so before it says anything else.
ForgettingIsTold ==
  \A m \in cleared : told[m] \ {"waiting"} # {} => "reset" \in told[m]

\* A message that has arrived gets its turn and its reply whether or not the members
\* ever answer the questions of earlier turns.
NobodyWaitsForATap ==
  \A m \in Msgs : at[m] \notin {"unsent", "asking", "done"} ~> at[m] \in {"asking", "done"}

=============================================================================
