------------------------------ MODULE Capture ------------------------------
(***************************************************************************)
(* The capture engine: what becomes of a note the model proposes to keep    *)
(* (Offer) and of a member's request to publish one of theirs               *)
(* (OfferPromotion).  Every call runs on a goroutine of its own after its   *)
(* turn has given up the turn slot, so several calls of one conversation,   *)
(* later turns, taps, timeouts and the shutdown interleave with it.         *)
(*                                                                         *)
(* A conversation is a member (their direct chat, which writes to the       *)
(* member's private space) or Household (the group chat and the chats with  *)
(* kenward itself, which write to the shared space); a space is named by    *)
(* the conversation that writes to it.  An entry is named by the call that  *)
(* created it.  Note texts are abstracted to their normalised titles.       *)
(***************************************************************************)
EXTENDS Ask, Naturals, FiniteSets

CONSTANTS
  Members,        \* the household's members
  Household,      \* the group conversation, and the shared space
  Conversations,  \* the conversations this engine serves
  Sharing,        \* the members whose scope knows a shared space
  SaveFirst,      \* the members whose engine has PrivateWriteSave
  Titles,         \* normalised titles
  None,           \* no title, conversation or call
  MaxProposals,   \* Options.MaxProposalsPerTurn
  DeclineWindow,  \* Options.DeclineWindow
  MaxTurns,       \* bound: turns begun per conversation and process
  MaxCrashes,     \* bound: times the process is killed and started again
  Misfiles        \* whether the store may file an entry in another space

Spaces == Members \cup {Household}
Targets == {"personal", "shared", "unsure", "publish"}
Buttons == {"personal", "shared", "decline", "publish", "cancel", "undo"}

ASSUME CaptureAssumption ==
  /\ Household \notin Members /\ Conversations \subseteq Spaces
  /\ Users = Members /\ Choices = Buttons
  /\ Sharing \subseteq Members /\ SaveFirst \subseteq Members
  /\ None \notin Titles \cup Spaces \cup Calls
  /\ MaxProposals \in Nat \ {0} /\ DeclineWindow \in Nat \ {0}
  /\ MaxTurns \in Nat /\ MaxCrashes \in Nat /\ Misfiles \in BOOLEAN

VARIABLES
  turn,      \* scopeState.turn
  offered,   \* scopeState.offered: this turn's proposals, per speaker
  declines,  \* scopeState.declines: the calls whose titles were refused
  job,       \* what each call was asked to do, and the turn it was charged to
  pc,        \* the step each call takes next
  dest,      \* the space its write goes to
  notice,    \* the message it sends last
  verdict,   \* Outcome.Kind, once the call knows it
  entries,   \* lore: the live entries of each space
  said,      \* the notices that reached the chat, per call
  lost,      \* history: failed attempts to tell the member of a write, per call
  crashes    \* how often the process was killed

engineVars == <<turn, offered, declines>>
callVars == <<job, dest, notice, verdict>>
chatVars == <<said, lost>>
captureVars == <<engineVars, callVars, pc, entries, chatVars, crashes>>
vars == <<askVars, captureVars>>

Jobs == [conv : Conversations, speaker : Members, title : Titles \cup {None},
         target : Targets, turn : 0..MaxTurns, source : Calls \cup {None}]
NoJob == [conv |-> None, speaker |-> None, title |-> None,
          target |-> "none", turn |-> 0, source |-> None]

Steps == {"idle", "offering", "asking", "putting", "announcing", "announced",
          "deleting", "striking", "publishing", "sharing", "speaking", "done", "dead"}
Verdicts == {"none", "duplicate", "limited", "saved", "declined", "timedOut",
             "undone", "failed", "forgotten"}
Notices == {"none", "saveFailed", "askFailed", "storeRefused", "wrongSpace", "saved",
            "savedNoUndo", "undoFailed", "removed", "published", "publishFailed"}

TypeOK ==
  /\ AskTypeOK
  /\ turn \in [Conversations -> 0..MaxTurns]
  /\ offered \in [Conversations -> [Members -> Nat]]
  /\ declines \in [Conversations -> SUBSET Calls]
  /\ job \in [Calls -> Jobs \cup {NoJob}]
  /\ pc \in [Calls -> Steps]
  /\ dest \in [Calls -> Spaces \cup {None}]
  /\ notice \in [Calls -> Notices]
  /\ verdict \in [Calls -> Verdicts]
  /\ entries \in [Spaces -> SUBSET Calls]
  /\ said \in [Calls -> SUBSET Notices]
  /\ lost \in [Calls -> Nat]
  /\ crashes \in 0..MaxCrashes

Init ==
  /\ AskInit
  /\ turn = [k \in Conversations |-> 0]
  /\ offered = [k \in Conversations |-> [m \in Members |-> 0]]
  /\ declines = [k \in Conversations |-> {}]
  /\ job = [o \in Calls |-> NoJob]
  /\ pc = [o \in Calls |-> "idle"]
  /\ dest = [o \in Calls |-> None]
  /\ notice = [o \in Calls |-> "none"]
  /\ verdict = [o \in Calls |-> "none"]
  /\ entries = [s \in Spaces |-> {}]
  /\ said = [o \in Calls |-> {}]
  /\ lost = [o \in Calls |-> 0]
  /\ crashes = 0

-----------------------------------------------------------------------------
\* Scope.AllowsPrivateCapture: the conversation has a private space to write to.
AllowsPrivate(k) == k \in Members

Speakers(k) == IF AllowsPrivate(k) THEN {k} ELSE Members

\* sharedSpace succeeds: a group writes there, a direct scope may know of it.
HasShared(k) == ~AllowsPrivate(k) \/ k \in Sharing

\* writesPrivateDirectly: the one shape that is written without being asked about.
WritesDirectly(o) ==
  /\ job[o].target = "personal"
  /\ AllowsPrivate(job[o].conv)
  /\ job[o].conv \in SaveFirst

\* question: outside a direct scope every target collapses to the shared one, and
\* a direct scope that knows no shared space offers no button for it.
Collapsed(k, g) == IF AllowsPrivate(k) THEN g ELSE "shared"
CanAsk(o) == job[o].target = "shared" => HasShared(job[o].conv)
Keyboard(o) ==
  {"decline"}
    \cup (IF job[o].target \in {"personal", "unsure"} THEN {"personal"} ELSE {})
    \cup (IF job[o].target \in {"shared", "unsure"} /\ HasShared(job[o].conv)
            THEN {"shared"} ELSE {})

\* recentlyDeclined: this speaker refused this title fewer than a window ago.  A
\* decline carries the turn its proposal was charged to.
RecentlyDeclined(k, u, t) ==
  \E d \in declines[k] :
    /\ job[d].title = t /\ job[d].speaker = u
    /\ turn[k] - job[d].turn < DeclineWindow

\* recordDecline
Refused(o) == declines' = [declines EXCEPT ![job[o].conv] = @ \cup {o}]

\* Mutants of Refund: the refund of a late failure credits the turn it arrives in, with
\* and without a floor.
RefundAnyTurn(o) ==
  LET k == job[o].conv  u == job[o].speaker
  IN  offered' = IF offered[k][u] > 0 THEN [offered EXCEPT ![k][u] = @ - 1] ELSE offered
RefundBlindly(o) ==
  offered' = [offered EXCEPT ![job[o].conv][job[o].speaker] = @ - 1]

\* refundOffer: only while the turn that was charged is still the current one.
Refund(o) ==
  LET k == job[o].conv  u == job[o].speaker
  IN  offered' = IF turn[k] = job[o].turn /\ offered[k][u] > 0
                   THEN [offered EXCEPT ![k][u] = @ - 1]
                   ELSE offered

Goto(o, step) == pc' = [pc EXCEPT ![o] = step]
Verdict(o, v) == verdict' = [verdict EXCEPT ![o] = v]

\* The call ends with outcome v, saying nothing more.
Finish(o, v) == Goto(o, "done") /\ Verdict(o, v) /\ UNCHANGED notice

\* The call ends with outcome v once it has tried to send one last message.
Tell(o, v, n) ==
  /\ Goto(o, "speaking") /\ Verdict(o, v)
  /\ notice' = [notice EXCEPT ![o] = n]

\* The answer is the asked member's own tap; anything else counts as no answer.
AnsweredBy(o) == result[o].kind = "tap" /\ result[o].user = job[o].speaker
Answered(o, c) == AnsweredBy(o) /\ result[o].choice = c

-----------------------------------------------------------------------------
\* BeginTurn, with the token of a new turn: a fresh budget for every speaker, and
\* the declines that have aged out are forgotten.
BeginTurn(k) ==
  /\ turn[k] < MaxTurns
  /\ turn' = [turn EXCEPT ![k] = @ + 1]
  /\ offered' = [offered EXCEPT ![k] = [m \in Members |-> 0]]
  /\ declines' = [declines EXCEPT ![k] =
                    {d \in @ : turn[k] + 1 - job[d].turn < DeclineWindow}]
  /\ UNCHANGED <<askVars, callVars, pc, entries, chatVars, crashes>>

\* A call is made for speaker u of conversation k.
Called(o, k, u, t, g, e) ==
  /\ pc[o] = "idle" /\ turn[k] > 0 /\ u \in Speakers(k)
  /\ job' = [job EXCEPT ![o] = [conv |-> k, speaker |-> u, title |-> t,
                               target |-> g, turn |-> turn[k], source |-> e]]

\* Offer, up to the unlock: a title refused lately is dropped without touching the
\* budget, a spent budget drops it too, and otherwise the budget is charged.
Offer(o, k, u, t, g) ==
  /\ Called(o, k, u, t, Collapsed(k, g), None)
  /\ \/ /\ RecentlyDeclined(k, u, t)
        /\ Finish(o, "duplicate")
        /\ UNCHANGED offered
     \/ /\ ~RecentlyDeclined(k, u, t) /\ offered[k][u] >= MaxProposals
        /\ Finish(o, "limited")
        /\ UNCHANGED offered
     \/ /\ ~RecentlyDeclined(k, u, t) /\ offered[k][u] < MaxProposals
        /\ offered' = [offered EXCEPT ![k][u] = @ + 1]
        /\ Goto(o, "offering")
        /\ UNCHANGED <<verdict, notice>>
  /\ UNCHANGED <<askVars, turn, declines, dest, entries, chatVars, crashes>>

\* Offer goes on: a private write needs no question and is put straight away.
WriteFirst(o) ==
  /\ pc[o] = "offering" /\ WritesDirectly(o)
  /\ Goto(o, "putting")
  /\ dest' = [dest EXCEPT ![o] = job[o].conv]
  /\ UNCHANGED <<askVars, engineVars, job, notice, verdict, entries, chatVars, crashes>>

\* Everything else is asked about, unless no question can be built: then the
\* budget goes back and the member is told.
AskFirst(o) ==
  /\ pc[o] = "offering" /\ ~WritesDirectly(o)
  /\ \/ /\ CanAsk(o)
        /\ AskStart(o, job[o].speaker, Keyboard(o))
        /\ Goto(o, "asking")
        /\ UNCHANGED <<offered, verdict, notice>>
     \/ /\ ~CanAsk(o)
        /\ Refund(o)
        /\ Tell(o, "failed", "saveFailed")
        /\ UNCHANGED askVars
  /\ UNCHANGED <<turn, declines, job, dest, entries, chatVars, crashes>>

\* Ask failed: the member may be looking at a question that will never resolve.
OfferAskFails(o) ==
  /\ pc[o] = "asking" /\ result[o].kind = "error"
  /\ Refund(o)
  /\ Tell(o, "failed", "askFailed")
  /\ UNCHANGED <<askVars, turn, declines, job, dest, entries, chatVars, crashes>>

\* No answer, or not the asked member's: nothing is stored, and only a timeout is
\* a refusal.
OfferUnanswered(o) ==
  /\ pc[o] = "asking" /\ phase[o] = "returned" /\ result[o].kind # "error"
  /\ ~AnsweredBy(o)
  /\ IF result[o].kind = "timeout" THEN Refused(o) ELSE UNCHANGED declines
  /\ Finish(o, "timedOut")
  /\ UNCHANGED <<askVars, turn, offered, job, dest, entries, chatVars, crashes>>

OfferDeclined(o) ==
  /\ pc[o] = "asking" /\ AnsweredBy(o)
  /\ result[o].choice \notin {"personal", "shared"}
  /\ Refused(o)
  /\ Finish(o, "declined")
  /\ UNCHANGED <<askVars, turn, offered, job, dest, entries, chatVars, crashes>>

\* Yes: to the member's private space, or to the household's.  A destination the
\* scope does not have is refused, whatever the button said.
OfferAccepted(o) ==
  LET k == job[o].conv
      mine == result[o].choice = "personal"
  IN  /\ pc[o] = "asking" /\ AnsweredBy(o)
      /\ result[o].choice \in {"personal", "shared"}
      /\ IF IF mine THEN AllowsPrivate(k) ELSE HasShared(k)
           THEN /\ Goto(o, "putting")
                /\ dest' = [dest EXCEPT ![o] = IF mine THEN k ELSE Household]
                /\ UNCHANGED <<verdict, notice>>
           ELSE /\ Tell(o, "failed", "saveFailed")
                /\ UNCHANGED dest
      /\ UNCHANGED <<askVars, engineVars, job, entries, chatVars, crashes>>

-----------------------------------------------------------------------------
\* store succeeds.  A write that was asked about is confirmed; one that was not is
\* announced with an Undo button.
Put(o) ==
  /\ pc[o] = "putting"
  /\ entries' = [entries EXCEPT ![dest[o]] = @ \cup {o}]
  /\ IF WritesDirectly(o)
       THEN Goto(o, "announcing") /\ UNCHANGED <<verdict, notice>>
       ELSE Tell(o, "saved", "saved")
  /\ UNCHANGED <<askVars, engineVars, job, dest, chatVars, crashes>>

\* store finds the entry in another space than the one it asked for.
PutMisfiled(o) ==
  /\ pc[o] = "putting" /\ Misfiles
  /\ \E s \in Spaces \ {dest[o]} : entries' = [entries EXCEPT ![s] = @ \cup {o}]
  /\ Refused(o)
  /\ Tell(o, "failed", "wrongSpace")
  /\ UNCHANGED <<askVars, turn, offered, job, dest, chatVars, crashes>>

\* The write fails, and the same title would fail again next turn.
PutFails(o) ==
  /\ pc[o] = "putting"
  /\ Refused(o)
  /\ Tell(o, "failed", "storeRefused")
  /\ UNCHANGED <<askVars, turn, offered, job, dest, entries, chatVars, crashes>>

\* writeAndAnnounce: the announcement is a question whose one button is Undo.
Announce(o) ==
  /\ pc[o] = "announcing"
  /\ AskStart(o, job[o].speaker, {"undo"})
  /\ Goto(o, "announced")
  /\ UNCHANGED <<engineVars, callVars, entries, chatVars, crashes>>

\* A mutant of AnnounceFails: the failed announcement is logged, and not replaced.
AnnounceFailsQuietly(o) ==
  /\ pc[o] = "announced" /\ result[o].kind = "error"
  /\ Finish(o, "saved")
  /\ lost' = [lost EXCEPT ![o] = @ + 1]
  /\ UNCHANGED <<askVars, engineVars, job, dest, entries, said, crashes>>

\* The announcement failed; a plain confirmation without the button replaces it.
AnnounceFails(o) ==
  /\ pc[o] = "announced" /\ result[o].kind = "error"
  /\ Tell(o, "saved", "savedNoUndo")
  /\ lost' = [lost EXCEPT ![o] = @ + 1]
  /\ UNCHANGED <<askVars, engineVars, job, dest, entries, said, crashes>>

\* A mutant of AnnounceStands: the case of a window that closes without a tap is lost.
AnnounceStandsIfTapped(o) ==
  /\ pc[o] = "announced" /\ result[o].kind = "tap"
  /\ ~Answered(o, "undo")
  /\ Finish(o, "saved")
  /\ UNCHANGED <<askVars, engineVars, job, dest, entries, chatVars, crashes>>

\* The undo window closes on a write that stands.
AnnounceStands(o) ==
  /\ pc[o] = "announced" /\ phase[o] = "returned" /\ result[o].kind # "error"
  /\ ~Answered(o, "undo")
  /\ Finish(o, "saved")
  /\ UNCHANGED <<askVars, engineVars, job, dest, entries, chatVars, crashes>>

\* A mutant of Undo: the refusal is not recorded.
UndoForgetful(o) ==
  /\ pc[o] = "announced" /\ Answered(o, "undo")
  /\ Goto(o, "deleting")
  /\ UNCHANGED <<askVars, engineVars, callVars, entries, chatVars, crashes>>

\* undo: the refusal is recorded before the delete is tried.
Undo(o) ==
  /\ pc[o] = "announced" /\ Answered(o, "undo")
  /\ Refused(o)
  /\ Goto(o, "deleting")
  /\ UNCHANGED <<askVars, turn, offered, callVars, entries, chatVars, crashes>>

\* A mutant of Delete: it is the shared space the entry is deleted from.
DeleteElsewhere(o) ==
  /\ pc[o] = "deleting"
  /\ entries' = [entries EXCEPT ![Household] = @ \ {o}]
  /\ Goto(o, "striking") /\ Verdict(o, "undone")
  /\ UNCHANGED <<askVars, engineVars, job, dest, notice, chatVars, crashes>>

\* The entry is taken out of the space it was written to (deleting one that is gone
\* already succeeds).
Delete(o) ==
  /\ pc[o] = "deleting"
  /\ entries' = [entries EXCEPT ![dest[o]] = @ \ {o}]
  /\ Goto(o, "striking") /\ Verdict(o, "undone")
  /\ UNCHANGED <<askVars, engineVars, job, dest, notice, chatVars, crashes>>

\* A mutant of DeleteFails: the member is told that the entry is gone.
DeleteFailsUndone(o) ==
  /\ pc[o] = "deleting"
  /\ Tell(o, "undone", "removed")
  /\ UNCHANGED <<askVars, engineVars, job, dest, entries, chatVars, crashes>>

\* The entry stands, and the member is told to try again.
DeleteFails(o) ==
  /\ pc[o] = "deleting"
  /\ Tell(o, "saved", "undoFailed")
  /\ UNCHANGED <<askVars, engineVars, job, dest, entries, chatVars, crashes>>

\* strikeAnnouncement: the announcement is rewritten in place, or a message of its
\* own says the entry is gone.  An edit whose reply is lost does both.
Strike(o) ==
  /\ pc[o] = "striking"
  /\ \/ ~down /\ message' = [message EXCEPT ![o] = "struck"]
        /\ Goto(o, "done") /\ UNCHANGED <<notice, lost>>
     \/ Retire(o, "struck")
        /\ Goto(o, "speaking") /\ notice' = [notice EXCEPT ![o] = "removed"]
        /\ lost' = [lost EXCEPT ![o] = @ + 1]
  /\ UNCHANGED <<phase, pending, door, result, tapped, down, engineVars, job, dest,
                 verdict, entries, said, crashes>>

-----------------------------------------------------------------------------
\* publishTarget: the turn's search found entry e in the member's private space, where
\* it may be no more by the time OfferPromotion runs.
Found(k, e) == e \in entries[k] \/ (verdict[e] = "undone" /\ dest[e] = k)

\* OfferPromotion: without a shared space, or when the entry can no longer be read,
\* the member is told so; otherwise they are shown the entry and asked.  (A turn
\* resolves an entry to publish in a direct scope only, so that the refusal of every
\* other scope is never reached.)
OfferPromotion(o, k, e) ==
  /\ AllowsPrivate(k) /\ Found(k, e)
  /\ Called(o, k, k, None, "publish", e)
  /\ IF k \in Sharing /\ e \in entries[k]
       THEN Goto(o, "publishing") /\ UNCHANGED <<verdict, notice>>
       ELSE Tell(o, "failed", "publishFailed")
  /\ UNCHANGED <<askVars, engineVars, dest, entries, chatVars, crashes>>

\* The question of a promotion, whose entry the call holds a copy of by now.
AskPromotion(o) ==
  /\ pc[o] = "publishing" /\ phase[o] = "idle"
  /\ AskStart(o, job[o].speaker, {"publish", "cancel"})
  /\ UNCHANGED captureVars

PromotionAskFails(o) ==
  /\ pc[o] = "publishing" /\ result[o].kind = "error"
  /\ Tell(o, "failed", "publishFailed")
  /\ UNCHANGED <<askVars, engineVars, job, dest, entries, chatVars, crashes>>

PromotionRefused(o) ==
  /\ pc[o] = "publishing" /\ phase[o] = "returned" /\ result[o].kind # "error"
  /\ ~Answered(o, "publish")
  /\ Finish(o, IF result[o].kind = "timeout" THEN "timedOut" ELSE "declined")
  /\ UNCHANGED <<askVars, engineVars, job, dest, entries, chatVars, crashes>>

\* A mutant of PromotionAccepted: only Cancel keeps the entry private.
PromotionAcceptedUnlessCancelled(o) ==
  /\ pc[o] = "publishing" /\ phase[o] = "returned" /\ result[o].kind # "error"
  /\ ~Answered(o, "cancel")
  /\ Goto(o, "sharing")
  /\ dest' = [dest EXCEPT ![o] = Household]
  /\ UNCHANGED <<askVars, engineVars, job, notice, verdict, entries, chatVars, crashes>>

\* Only an explicit Publish by the asked member moves anything.
PromotionAccepted(o) ==
  /\ pc[o] = "publishing" /\ Answered(o, "publish")
  /\ Goto(o, "sharing")
  /\ dest' = [dest EXCEPT ![o] = Household]
  /\ UNCHANGED <<askVars, engineVars, job, notice, verdict, entries, chatVars, crashes>>

\* Share reads the entry again: it is copied if it is still there.
Share(o) ==
  /\ pc[o] = "sharing" /\ job[o].source \in entries[job[o].conv]
  /\ entries' = [entries EXCEPT ![Household] = @ \cup {o}]
  /\ Tell(o, "saved", "published")
  /\ UNCHANGED <<askVars, engineVars, job, dest, chatVars, crashes>>

ShareMisfiled(o) ==
  /\ pc[o] = "sharing" /\ job[o].source \in entries[job[o].conv] /\ Misfiles
  /\ \E s \in Spaces \ {dest[o]} : entries' = [entries EXCEPT ![s] = @ \cup {o}]
  /\ Tell(o, "failed", "wrongSpace")
  /\ UNCHANGED <<askVars, engineVars, job, dest, chatVars, crashes>>

\* The entry is gone by now, or cannot be copied.
ShareFails(o) ==
  /\ pc[o] = "sharing"
  /\ Tell(o, "failed", "publishFailed")
  /\ UNCHANGED <<askVars, engineVars, job, dest, entries, chatVars, crashes>>

\* The last message of a call: it reaches the chat, or it does not.
Speak(o) ==
  /\ pc[o] = "speaking"
  /\ Goto(o, "done")
  /\ \/ ~down /\ said' = [said EXCEPT ![o] = @ \cup {notice[o]}] /\ UNCHANGED lost
     \/ lost' = [lost EXCEPT ![o] = @ + 1] /\ UNCHANGED said
  /\ UNCHANGED <<askVars, engineVars, callVars, entries, crashes>>

\* The process is killed and started again.  The engine's state is in memory only,
\* and so are the questions: their buttons stay in the chat and answer nothing.
Crash ==
  /\ crashes < MaxCrashes
  /\ crashes' = crashes + 1
  /\ turn' = [k \in Conversations |-> 0]
  /\ offered' = [k \in Conversations |-> [m \in Members |-> 0]]
  /\ declines' = [k \in Conversations |-> {}]
  /\ pc' = [o \in Calls |-> IF pc[o] \in {"idle", "done"} THEN pc[o] ELSE "dead"]
  /\ verdict' = [o \in Calls |-> IF pc[o] = "idle" THEN verdict[o] ELSE "forgotten"]
  /\ phase' = [o \in Calls |-> IF phase[o] = "idle" THEN "idle" ELSE "returned"]
  /\ pending' = [o \in Calls |-> NotPending]
  /\ door' = [o \in Calls |-> Without("none")]
  /\ down' = FALSE
  /\ UNCHANGED <<message, result, tapped, job, dest, notice, entries, chatVars>>

-----------------------------------------------------------------------------
OfferStep(o) ==
  \/ WriteFirst(o) \/ AskFirst(o)
  \/ OfferAskFails(o) \/ OfferUnanswered(o) \/ OfferDeclined(o) \/ OfferAccepted(o)
StoreStep(o) ==
  \/ Put(o) \/ PutMisfiled(o) \/ PutFails(o)
  \/ Announce(o) \/ AnnounceFails(o) \/ AnnounceStands(o)
  \/ Undo(o) \/ Delete(o) \/ DeleteFails(o) \/ Strike(o)
PublishStep(o) ==
  \/ AskPromotion(o) \/ PromotionAskFails(o) \/ PromotionRefused(o)
  \/ PromotionAccepted(o) \/ Share(o) \/ ShareMisfiled(o) \/ ShareFails(o)
CallStep(o) == OfferStep(o) \/ StoreStep(o) \/ PublishStep(o) \/ Speak(o)

TransportStep(o) == AskStep(o) /\ UNCHANGED captureVars
TapStep(o) ==
  \E u \in Users, c \in Choices : Tap(o, u, c) /\ UNCHANGED captureVars

Next ==
  \/ \E k \in Conversations : BeginTurn(k)
  \/ \E o \in Calls, k \in Conversations, u \in Members, t \in Titles,
        g \in Targets \ {"publish"} : Offer(o, k, u, t, g)
  \/ \E o, e \in Calls, k \in Conversations : OfferPromotion(o, k, e)
  \/ \E o \in Calls : CallStep(o)
  \/ \E o \in Calls : TransportStep(o)
  \/ \E o \in Calls : TapStep(o)
  \/ GoDown /\ UNCHANGED captureVars
  \/ Crash

\* A goroutine that can go on does, requests are bounded by the HTTP client, and
\* timers fire.  Members need not tap, and nobody need call, crash or stop.
Fairness ==
  \A o \in Calls :
    /\ WF_vars(CallStep(o))
    /\ WF_vars((AskSent(o) \/ AskUnsent(o)) /\ UNCHANGED captureVars)
    /\ WF_vars(AskEnds(o) /\ UNCHANGED captureVars)

Spec == Init /\ [][Next]_vars /\ Fairness

-----------------------------------------------------------------------------
InMemory(o) == \E s \in Spaces : o \in entries[s]

\* What the chat says of a call is true of the memory, whichever of the writes,
\* sends, edits and answers failed: a notice of a write stands for a live entry, a
\* struck announcement or a failure notice for none, and a question that expired or
\* was withdrawn stored nothing, while an announcement that did still stands.
ChatTellsTheTruth ==
  \A o \in Calls :
    /\ said[o] \cap {"saved", "savedNoUndo", "undoFailed", "published"} # {}
         => o \in entries[dest[o]]
    /\ "removed" \in said[o] \/ message[o] = "struck" => ~InMemory(o)
    /\ said[o] \cap {"saveFailed", "askFailed", "storeRefused", "publishFailed"} # {}
         => ~InMemory(o)
    /\ message[o] \in {"expired", "withdrawn"} =>
         IF WritesDirectly(o) THEN o \in entries[dest[o]] ELSE ~InMemory(o)

\* The member has read of the write: in the announcement, or in a last notice.
Told(o) == said[o] # {} \/ (WritesDirectly(o) /\ message[o] # "absent")

\* A finished call leaves an entry the member was never told of only if every
\* message about it was lost: two in a row for a write made without asking (the
\* announcement and the notice that replaces it), one for a write that was asked for
\* or that the store put in the wrong space.
SilentOnlyIfUndeliverable ==
  \A o \in Calls :
    pc[o] = "done" /\ InMemory(o) /\ ~Told(o)
      => lost[o] >= IF WritesDirectly(o) /\ verdict[o] = "saved" THEN 2 ELSE 1

\* The call holds a slot of its turn's budget: it was charged, and not refunded
\* because its question could not be built or asked.
Charged(o) ==
  /\ pc[o] # "idle" /\ job[o].target # "publish"
  /\ verdict[o] \notin {"duplicate", "limited", "forgotten"}
  /\ verdict[o] = "failed" /\ ~WritesDirectly(o) =>
       phase[o] = "returned" /\ result[o].kind # "error"

ChargedTo(k, u, n) ==
  {o \in Calls : Charged(o) /\ job[o].conv = k /\ job[o].speaker = u /\ job[o].turn = n}

\* No turn puts more than MaxProposals proposals to one speaker, however late their
\* questions fail: a refund that arrives in a later turn credits no one.
WithinBudget ==
  \A k \in Conversations, u \in Members, n \in 1..MaxTurns :
    Cardinality(ChargedTo(k, u, n)) <= MaxProposals

\* The member has turned the title of call d down, in this run of the process: by
\* declining it, by leaving its question unanswered, or by tapping Undo.
TurnedDown(d) ==
  /\ job[d].target # "publish"
  /\ \/ verdict[d] \in {"declined", "undone"}
     \/ verdict[d] = "timedOut" /\ result[d].kind = "timeout"
     \/ verdict[d] # "forgotten" /\ notice[d] \in {"undoFailed", "storeRefused"}

\* A title a member has turned down is not put to them again, nor written again,
\* within the window, whichever call proposes it and even if the undo failed.
TurnedDownStaysDown ==
  [][\A d, o \in Calls :
       /\ TurnedDown(d) /\ pc[o] = "idle" /\ pc'[o] = "offering"
       /\ job'[o].conv = job[d].conv /\ job'[o].speaker = job[d].speaker
       /\ job'[o].title = job[d].title
       => job'[o].turn - job[d].turn >= DeclineWindow]_vars

\* Every call of Offer or OfferPromotion returns, whatever the member, the store
\* and the transport do, unless the process is killed.
EveryCallReturns ==
  \A o \in Calls : pc[o] # "idle" ~> pc[o] \in {"done", "dead"}
-----------------------------------------------------------------------------
\* The engine as its members see it: what they agreed to and came to regret is what
\* they tapped while the question stood open.
AgreedTo(o) ==
  CASE tapped[o].choice = "personal" -> job[o].speaker
    [] tapped[o].choice \in {"shared", "publish"} -> Household
    [] OTHER -> None

Promise == INSTANCE Consent WITH
  Entries <- Calls,
  author <- [o \in Calls |-> job[o].speaker],
  yes <- [o \in Calls |-> AgreedTo(o)],
  regret <- {o \in Calls : tapped[o].choice = "undo"},
  memory <- entries

\* Nothing enters a space its member did not agree to, but what save-first members
\* keep in their own; nothing leaves one but what its member undid, and no crash,
\* race or lost reply changes that.  (Provided the store files where it is told to.)
KeepsItsPromise == Promise!Spec
=============================================================================
