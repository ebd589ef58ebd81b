--------------------------- MODULE Capture_proofs ---------------------------
(***************************************************************************)
(* Safety of the capture engine, for any household, any number of calls and *)
(* turns and any store: its types, that the chat tells the truth about the  *)
(* memory, that the engine keeps the promise of module Consent, and that    *)
(* its budget, its refusals and what it tells its members hold.             *)
(*                                                                         *)
(* CaptureInv is the inductive invariant.  It says, for each call, which    *)
(* question it may have open at which step, what a tap on it can have been, *)
(* where its entry is, and what its last notice claims.  LedgerInv adds     *)
(* what each call was charged, what was recorded of it, and what it sent.   *)
(***************************************************************************)
EXTENDS Capture, FiniteSetTheorems, TLAPS

-----------------------------------------------------------------------------
\* The transport's questions: an answer is the asked user's own tap, and the chat agrees with what
\* the caller was told.  The invariant ties the door to the history of taps while a call is under
\* way, and the result to both once it has returned.

Underway(q) == phase[q] \in {"sending", "waiting"}

\* Until a call returns it has no result, and its door holds just what was tapped.
BeforeReturn(q) ==
  phase[q] # "returned" =>
    /\ result[q] = Without("none")
    /\ door[q] = tapped[q]
    /\ message[q] \in {"absent", "open"}

\* A tap in the history is one the pending entry allowed.
TapWasAllowed(q) ==
  /\ tapped[q] # Without("none") => tapped[q].kind = "tap" /\ phase[q] # "idle"
  /\ tapped[q].kind = "tap" /\ Underway(q) =>
       tapped[q].user = pending[q].user /\ tapped[q].choice \in pending[q].choices

ResultIsHonest(q) ==
  /\ result[q].kind = "timeout" => tapped[q].kind = "none"
  /\ result[q].kind = "tap" => result[q] = tapped[q]

MessageIsHonest(q) ==
  /\ message[q] = "answered" => result[q].kind = "tap"
  /\ message[q] = "expired" => result[q].kind = "timeout"
  /\ message[q] = "withdrawn" => result[q].kind = "error"

AskInvOf(q) ==
  BeforeReturn(q) /\ TapWasAllowed(q) /\ ResultIsHonest(q) /\ MessageIsHonest(q)

AskInv == AskTypeOK /\ \A q \in Calls : AskInvOf(q)

-----------------------------------------------------------------------------
\* Outcomes that are not a tap, and the empty entry of the pending map, are typed.
LEMMA WithoutTyped ==
  /\ \A kind \in {"none", "tap", "timeout", "error"} : Without(kind) \in Outcomes
  /\ NotPending \in [user : Users \cup {NoUser}, choices : SUBSET Choices]
BY DEF Without, Outcome, Outcomes, NotPending

LEMMA AskInitInv == AskInit => AskInv
<1> SUFFICES ASSUME AskInit PROVE AskInv
  OBVIOUS
<1>1. AskTypeOK
  BY WithoutTyped DEF AskInit, AskTypeOK, Phases, Messages
<1>2. ASSUME NEW q \in Calls PROVE AskInvOf(q)
  <2>1. /\ phase[q] = "idle" /\ message[q] = "absent"
        /\ door[q] = Without("none") /\ result[q] = Without("none")
        /\ tapped[q] = Without("none")
    BY DEF AskInit
  <2>2. Without("none").kind = "none"
    BY DEF Without, Outcome
  <2> QED
    BY <2>1, <2>2 DEF AskInvOf, BeforeReturn, TapWasAllowed, ResultIsHonest,
       MessageIsHonest, Underway
<1> QED
  BY <1>1, <1>2 DEF AskInv

\* The steps of one call keep the types.
LEMMA AskTypes == AskTypeOK /\ [AskNext]_askVars => AskTypeOK'
<1> SUFFICES ASSUME AskTypeOK, [AskNext]_askVars PROVE AskTypeOK'
  OBVIOUS
<1> USE DEF AskTypeOK, Phases, Messages
<1>1. ASSUME NEW q \in Calls, NEW u \in Users, NEW choices \in SUBSET Choices,
             AskStart(q, u, choices)
      PROVE AskTypeOK'
  <2>1. CASE down
    <3>1. /\ Return(q, Without("error"))
          /\ UNCHANGED <<message, tapped, down>>
      BY <1>1, <2>1 DEF AskStart
    <3>2. Without("error") \in Outcomes /\ Without("none") \in Outcomes
      BY WithoutTyped
    <3>3. phase' \in [Calls -> Phases]
      BY <3>1 DEF Return
    <3>4. pending' \in [Calls -> [user : Users \cup {NoUser}, choices : SUBSET Choices]]
      BY <3>1, WithoutTyped DEF Return
    <3>5. door' \in [Calls -> Outcomes] /\ result' \in [Calls -> Outcomes]
      BY <3>1, <3>2 DEF Return
    <3> QED
      BY <3>1, <3>3, <3>4, <3>5
  <2>2. CASE ~down
    <3>1. [user |-> u, choices |-> choices]
            \in [user : Users \cup {NoUser}, choices : SUBSET Choices]
      OBVIOUS
    <3>2. /\ phase' = [phase EXCEPT ![q] = "sending"]
          /\ pending' = [pending EXCEPT ![q] = [user |-> u, choices |-> choices]]
          /\ UNCHANGED <<door, result, message, tapped, down>>
      BY <1>1, <2>2 DEF AskStart, Return
    <3> QED
      BY <3>1, <3>2
  <2> QED
    BY <2>1, <2>2
<1>2. ASSUME NEW q \in Calls, NEW u \in Users, NEW c \in Choices, Tap(q, u, c)
      PROVE AskTypeOK'
  <2>1. Outcome("tap", u, c) \in Outcomes
    BY DEF Outcome, Outcomes
  <2> QED
    BY <1>2, <2>1 DEF Tap
<1>3. ASSUME NEW q \in Calls, AskStep(q) PROVE AskTypeOK'
  <2>1. ASSUME NEW r \in Outcomes, Return(q, r) 
        PROVE /\ phase' \in [Calls -> Phases]
              /\ pending' \in [Calls -> [user : Users \cup {NoUser}, choices : SUBSET Choices]]
              /\ door' \in [Calls -> Outcomes] /\ result' \in [Calls -> Outcomes]
    BY <2>1, WithoutTyped DEF Return
  <2>2. ASSUME NEW m \in Messages, Retire(q, m) PROVE message' \in [Calls -> Messages]
    BY <2>2 DEF Retire
  <2>3. Settle(q) /\ UNCHANGED <<tapped, down>> => AskTypeOK'
    BY <2>1, <2>2 DEF Settle
  <2>4. CASE AskPost(q) \/ AskSent(q)
    BY <2>4 DEF AskPost, AskSent
  <2>5. CASE AskUnsent(q)
    BY <2>5, <2>1, WithoutTyped DEF AskUnsent
  <2>6. CASE AskAnswered(q)
    BY <2>6, <2>3 DEF AskAnswered
  <2>7. CASE AskTimeout(q)
    BY <2>7, <2>1, <2>2, <2>3, WithoutTyped DEF AskTimeout
  <2>8. CASE AskStopped(q)
    BY <2>8, <2>1, <2>2, WithoutTyped DEF AskStopped
  <2> QED
    BY <1>3, <2>4, <2>5, <2>6, <2>7, <2>8 DEF AskStep, AskEnds
<1>4. CASE GoDown
  BY <1>4 DEF GoDown
<1>5. CASE UNCHANGED askVars
  BY <1>5 DEF askVars
<1> QED
  BY <1>1, <1>2, <1>3, <1>4, <1>5 DEF AskNext

\* What one step does to the calls it is not about: nothing.
SameCall(q) ==
  /\ phase'[q] = phase[q] /\ pending'[q] = pending[q] /\ door'[q] = door[q]
  /\ message'[q] = message[q] /\ result'[q] = result[q] /\ tapped'[q] = tapped[q]

LEMMA SameCallInv == ASSUME NEW q \in Calls, AskInvOf(q), SameCall(q) PROVE AskInvOf(q)'
BY DEF AskInvOf, SameCall, BeforeReturn, TapWasAllowed, ResultIsHonest, MessageIsHonest,
   Underway

LEMMA OthersStay ==
  ASSUME AskTypeOK, NEW q \in Calls, NEW p \in Calls, p # q,
         \/ \E u \in Users, choices \in SUBSET Choices : AskStart(q, u, choices)
         \/ \E u \in Users, c \in Choices : Tap(q, u, c)
         \/ AskStep(q)
  PROVE  SameCall(p)
<1> USE DEF AskTypeOK, SameCall
<1>1. ASSUME NEW u \in Users, NEW choices \in SUBSET Choices, AskStart(q, u, choices)
      PROVE SameCall(p)
  BY <1>1 DEF AskStart, Return
<1>2. ASSUME NEW u \in Users, NEW c \in Choices, Tap(q, u, c) PROVE SameCall(p)
  BY <1>2 DEF Tap
<1>3. CASE AskStep(q)
  <2>1. CASE AskPost(q) \/ AskSent(q) \/ AskUnsent(q)
    BY <2>1 DEF AskPost, AskSent, AskUnsent, Return
  <2>2. CASE AskAnswered(q) \/ AskTimeout(q) \/ AskStopped(q)
    BY <2>2 DEF AskAnswered, AskTimeout, AskStopped, Settle, Retire, Return
  <2> QED
    BY <1>3, <2>1, <2>2 DEF AskStep, AskEnds
<1> QED
  BY <1>1, <1>2, <1>3

-----------------------------------------------------------------------------
\* One lemma per operation: it keeps the invariant of the call it is about.
LEMMA StartInv ==
  ASSUME AskInv, NEW q \in Calls, NEW u \in Users, NEW choices \in SUBSET Choices,
         AskStart(q, u, choices)
  PROVE  AskInvOf(q)'
<1>1. Without("none").kind = "none" /\ Without("error").kind = "error"
  BY DEF Without, Outcome
<1> QED
  BY <1>1 DEF AskInv, AskTypeOK, AskInvOf, AskStart, Return, BeforeReturn, TapWasAllowed,
     ResultIsHonest, MessageIsHonest, Underway

LEMMA TapInv ==
  ASSUME AskInv, NEW q \in Calls, NEW u \in Users, NEW c \in Choices, Tap(q, u, c)
  PROVE  AskInvOf(q)'
<1>1. /\ Outcome("tap", u, c).kind = "tap" /\ Outcome("tap", u, c).user = u
      /\ Outcome("tap", u, c).choice = c /\ Without("none").kind = "none"
  BY DEF Without, Outcome
<1> QED
  BY <1>1 DEF AskInv, AskTypeOK, AskInvOf, Tap, BeforeReturn, TapWasAllowed,
     ResultIsHonest, MessageIsHonest, Underway

LEMMA StepInv == ASSUME AskInv, NEW q \in Calls, AskStep(q) PROVE AskInvOf(q)'
<1>1. /\ Without("none").kind = "none" /\ Without("error").kind = "error"
      /\ Without("timeout").kind = "timeout"
  BY DEF Without, Outcome
<1> USE <1>1 DEF AskInv, AskTypeOK, AskInvOf, BeforeReturn, TapWasAllowed, ResultIsHonest,
        MessageIsHonest, Underway
<1>2. CASE AskPost(q)
  BY <1>2 DEF AskPost
<1>3. CASE AskSent(q)
  BY <1>3 DEF AskSent
<1>4. CASE AskUnsent(q)
  BY <1>4 DEF AskUnsent, Return
<1>5. Underway(q) /\ door[q].kind # "none" /\ Settle(q) /\ UNCHANGED <<tapped, down>>
        => AskInvOf(q)'
  BY DEF Settle, Return, Retire
<1>6. CASE AskAnswered(q)
  BY <1>5, <1>6 DEF AskAnswered
<1>7. CASE AskTimeout(q)
  <2>1. CASE door[q].kind = "none"
    BY <1>7, <2>1 DEF AskTimeout, Return, Retire
  <2> QED
    BY <1>5, <1>7, <2>1 DEF AskTimeout
<1>8. CASE AskStopped(q)
  BY <1>8 DEF AskStopped, Return, Retire
<1> QED
  BY <1>2, <1>3, <1>4, <1>6, <1>7, <1>8 DEF AskStep, AskEnds

LEMMA AskNextInv == AskInv /\ [AskNext]_askVars => AskInv'
<1> SUFFICES ASSUME AskInv, [AskNext]_askVars PROVE AskInv'
  OBVIOUS
<1>1. AskTypeOK'
  BY AskTypes DEF AskInv
<1>2. ASSUME NEW p \in Calls PROVE AskInvOf(p)'
  <2>1. CASE \E q \in Calls :
               \/ \E u \in Users, choices \in SUBSET Choices : AskStart(q, u, choices)
               \/ \E u \in Users, c \in Choices : Tap(q, u, c)
               \/ AskStep(q)
    BY <2>1, StartInv, TapInv, StepInv, OthersStay, SameCallInv DEF AskInv
  <2>2. CASE GoDown \/ UNCHANGED askVars
    <3>1. SameCall(p)
      BY <2>2 DEF GoDown, askVars, SameCall
    <3> QED
      BY <3>1, SameCallInv DEF AskInv
  <2> QED
    BY <2>1, <2>2 DEF AskNext
<1> QED
  BY <1>1, <1>2 DEF AskInv

-----------------------------------------------------------------------------
\* The invariant of Ask holds of every state of the transport.
THEOREM AskInvariant == AskSpec => []AskInv
<1>1. AskInit => AskInv
  BY AskInitInv
<1>2. AskInv /\ [AskNext]_askVars => AskInv'
  BY AskNextInv
<1> QED
  BY <1>1, <1>2, PTL DEF AskSpec

\* Every variable of the transport keeps its type, whatever callers and users do.
THEOREM AskTypesHold == AskSpec => []AskTypeOK
<1>1. AskInv => AskTypeOK
  BY DEF AskInv
<1> QED
  BY <1>1, AskInvariant, PTL

\* Ask's timer, taps and shutdown race, and still: a decision the asked user got in
\* before the deadline is never returned as a timeout, and nobody else decides.
THEOREM OnlyTheAskedUserAnswers == AskSpec => []AnswerIsTheAskedUsers
<1>1. AskInv => AnswerIsTheAskedUsers
  BY DEF AskInv, AskInvOf, ResultIsHonest, AnswerIsTheAskedUsers
<1> QED
  BY <1>1, AskInvariant, PTL

\* What the chat is left showing of a question is what Ask returned to its caller.
THEOREM TheChatAgreesWithTheCaller == AskSpec => []MessageAgreesWithResult
<1>1. AskInv => MessageAgreesWithResult
  BY DEF AskInv, AskInvOf, MessageIsHonest, MessageAgreesWithResult
<1> QED
  BY <1>1, AskInvariant, PTL

-----------------------------------------------------------------------------
\* The engine.

Ended == {"speaking", "done", "dead"}
WriteNotices == {"saved", "savedNoUndo", "undoFailed", "published"}
NothingNotices == {"saveFailed", "askFailed", "storeRefused", "publishFailed", "removed"}

\* A call that was made has a job its conversation allows.
JobFits(o) ==
  IF pc[o] = "idle"
    THEN job[o] = NoJob /\ phase[o] = "idle"
    ELSE /\ job[o] \in Jobs
         /\ job[o].speaker \in Speakers(job[o].conv)
         /\ ~AllowsPrivate(job[o].conv) => job[o].target = "shared"

\* The question under way is the one its step asks, put to the speaker.
QuestionFits(o) ==
  Underway(o) =>
    /\ pending[o].user = job[o].speaker
    /\ \/ /\ pc[o] = "asking" /\ pending[o].choices = Keyboard(o)
       \/ /\ pc[o] = "announced" /\ pending[o].choices = {"undo"}
       \/ /\ pc[o] = "publishing" /\ pending[o].choices = {"publish", "cancel"}

\* A tap in the history is the speaker's, on a button their call could show.
TapFits(o) ==
  tapped[o].kind = "tap" =>
    /\ tapped[o].user = job[o].speaker
    /\ tapped[o].choice = "undo" <=> WritesDirectly(o)
    /\ tapped[o].choice = "personal" => AllowsPrivate(job[o].conv)

\* The steps of each way through the engine, and the space its write goes to.
StepFits(o) ==
  /\ pc[o] \in {"offering", "announcing"} => phase[o] = "idle"
  /\ pc[o] \in {"asking", "publishing", "sharing"} => ~WritesDirectly(o)
  /\ pc[o] \in {"announcing", "announced", "deleting", "striking"} => WritesDirectly(o)
  /\ pc[o] \in {"deleting", "striking"} => tapped[o].kind = "tap" /\ phase[o] = "returned"
  /\ pc[o] \in {"announcing", "announced", "deleting", "striking"} => dest[o] = job[o].conv
  /\ pc[o] \in {"putting", "sharing"} =>
       IF WritesDirectly(o) THEN dest[o] = job[o].conv /\ phase[o] = "idle"
                            ELSE dest[o] = AgreedTo(o) /\ dest[o] \in Spaces
  /\ pc[o] \in {"putting", "sharing"} /\ ~WritesDirectly(o) => phase[o] = "returned"
  /\ pc[o] = "sharing" => dest[o] = Household

\* Where the entry of the call is while the call can still move it.
EntryFits(o) ==
  /\ pc[o] \notin {"announcing", "announced", "deleting"} \cup Ended => ~InMemory(o)
  /\ pc[o] \in {"announcing", "announced", "deleting"} =>
       \A s \in Spaces : o \in entries[s] <=> s = dest[o]

\* The entry of the call is in the space its write went to.
Filed(o) == dest[o] \in Spaces /\ o \in entries[dest[o]]

\* The last notice is chosen when the call has done its work, and is true.
NoticeFits(o) ==
  /\ notice[o] # "none" => pc[o] \in Ended
  /\ said[o] \subseteq {notice[o]}
  /\ said[o] # {} => pc[o] \in {"done", "dead"}
  /\ notice[o] \in WriteNotices => Filed(o)
  /\ notice[o] \in NothingNotices => ~InMemory(o)

\* So are the announcement and the question, as they are left in the chat.
ChatFits(o) ==
  /\ message[o] = "struck" => ~InMemory(o) /\ pc[o] \in Ended
  /\ result[o].kind \in {"timeout", "error"} =>
       /\ pc[o] \in {"asking", "announced", "publishing"} \cup Ended
       /\ IF WritesDirectly(o) THEN Filed(o) ELSE ~InMemory(o)

CallInv(o) ==
  /\ JobFits(o) /\ QuestionFits(o) /\ TapFits(o) /\ StepFits(o)
  /\ EntryFits(o) /\ NoticeFits(o) /\ ChatFits(o)

CaptureInv == TypeOK /\ AskInv /\ \A o \in Calls : CallInv(o)

-----------------------------------------------------------------------------
\* What is true of the members' side of a call that was made.
LEMMA MadeCall ==
  ASSUME CaptureInv, NEW o \in Calls, pc[o] # "idle"
  PROVE  /\ job[o] \in Jobs /\ job[o].conv \in Conversations /\ job[o].speaker \in Members
         /\ job[o].speaker \in Users /\ job[o].conv \in Spaces
         /\ job[o].turn \in Nat
         /\ AllowsPrivate(job[o].conv) => job[o].speaker = job[o].conv
         /\ ~AllowsPrivate(job[o].conv) => job[o].target = "shared"
<1>1. /\ job[o] \in Jobs /\ job[o].speaker \in Speakers(job[o].conv)
      /\ ~AllowsPrivate(job[o].conv) => job[o].target = "shared"
  BY DEF CaptureInv, CallInv, JobFits
<1>2. job[o].conv \in Conversations /\ job[o].speaker \in Members /\ job[o].turn \in 0..MaxTurns
  BY <1>1 DEF Jobs
<1> QED
  BY <1>1, <1>2, CaptureAssumption DEF Speakers, AllowsPrivate, Spaces

LEMMA KeyboardTyped ==
  ASSUME NEW o \in Calls
  PROVE  /\ Keyboard(o) \in SUBSET Choices /\ Keyboard(o) # {}
         /\ {"undo"} \in SUBSET Choices /\ {"publish", "cancel"} \in SUBSET Choices
BY CaptureAssumption DEF Keyboard, Buttons

\* A question that the engine asks is a question of the transport.
LEMMA AskingInv ==
  ASSUME CaptureInv, NEW o \in Calls, NEW u \in Users,
         NEW choices \in SUBSET Choices, choices # {}, AskStart(o, u, choices)
  PROVE  AskInv'
<1>1. AskNext
  BY DEF AskNext
<1> QED
  BY <1>1, AskNextInv DEF CaptureInv

\* The engine's own variables keep their types in every step of a call.
LEMMA RefusedTyped ==
  ASSUME CaptureInv, NEW o \in Calls, pc[o] # "idle", Refused(o)
  PROVE  declines' \in [Conversations -> SUBSET Calls]
BY MadeCall DEF CaptureInv, TypeOK, Refused

LEMMA RefundTyped ==
  ASSUME CaptureInv, NEW o \in Calls, pc[o] # "idle", Refund(o)
  PROVE  offered' \in [Conversations -> [Members -> Nat]]
<1> DEFINE k == job[o].conv  u == job[o].speaker
<1>1. k \in Conversations /\ u \in Members /\ offered[k][u] \in Nat
  BY MadeCall DEF CaptureInv, TypeOK
<1>2. CASE offered' = offered
  BY <1>2 DEF CaptureInv, TypeOK
<1>3. CASE offered[k][u] > 0 /\ offered' = [offered EXCEPT ![k][u] = @ - 1]
  <2>1. offered[k][u] - 1 \in Nat
    BY <1>1, <1>3
  <2> QED
    BY <1>1, <1>3, <2>1 DEF CaptureInv, TypeOK
<1> QED
  BY <1>2, <1>3 DEF Refund

\* The types of what the engine owns; those of the transport come with AskInv.
EngineTypeOK ==
  /\ turn \in [Conversations -> 0..MaxTurns]
  /\ offered \in [Conversations -> [Members -> Nat]]
  /\ declines \in [Conversations -> SUBSET Calls]
  /\ job \in [Calls -> Jobs \cup {NoJob}]
  /\ crashes \in 0..MaxCrashes

CallTypeOK ==
  /\ pc \in [Calls -> Steps]
  /\ dest \in [Calls -> Spaces \cup {None}]
  /\ notice \in [Calls -> Notices]
  /\ verdict \in [Calls -> Verdicts]
  /\ entries \in [Spaces -> SUBSET Calls]
  /\ said \in [Calls -> SUBSET Notices]
  /\ lost \in [Calls -> Nat]

LEMMA TypesSplit == TypeOK <=> AskTypeOK /\ EngineTypeOK /\ CallTypeOK
BY DEF TypeOK, EngineTypeOK, CallTypeOK

\* The ways a call ends keep the types of its step, its verdict and its notice.
LEMMA EndingTyped ==
  ASSUME CaptureInv, NEW o \in Calls, NEW v \in Verdicts
  PROVE  /\ Finish(o, v) =>
              /\ pc' \in [Calls -> Steps] /\ verdict' \in [Calls -> Verdicts]
              /\ notice' \in [Calls -> Notices]
         /\ \A n \in Notices : Tell(o, v, n) =>
              /\ pc' \in [Calls -> Steps] /\ verdict' \in [Calls -> Verdicts]
              /\ notice' \in [Calls -> Notices]
<1>1. /\ pc \in [Calls -> Steps] /\ verdict \in [Calls -> Verdicts]
      /\ notice \in [Calls -> Notices]
  BY DEF CaptureInv, TypeOK
<1>2. "done" \in Steps /\ "speaking" \in Steps
  BY DEF Steps
<1> QED
  BY <1>1, <1>2 DEF Finish, Tell, Goto, Verdict

LEMMA OfferStepTypes ==
  ASSUME CaptureInv, NEW o \in Calls, OfferStep(o)
  PROVE  EngineTypeOK' /\ CallTypeOK'
<1> USE DEF EngineTypeOK, CallTypeOK, Steps, Notices, Verdicts, Goto, Verdict, Finish, Tell,
        engineVars, callVars, chatVars
<1>1. EngineTypeOK /\ CallTypeOK
  BY TypesSplit DEF CaptureInv
<1>2. pc[o] # "idle"
  BY DEF OfferStep, WriteFirst, AskFirst, OfferAskFails, OfferUnanswered, OfferDeclined,
     OfferAccepted
<1>3. job[o].conv \in Spaces /\ Household \in Spaces
  BY <1>2, MadeCall DEF Spaces
<1>4. CASE WriteFirst(o)
  <2>1. /\ dest' = [dest EXCEPT ![o] = job[o].conv] /\ pc' = [pc EXCEPT ![o] = "putting"]
        /\ UNCHANGED <<turn, offered, declines, job, notice, verdict, entries, said, lost,
                      crashes>>
    BY <1>4 DEF WriteFirst
  <2> QED
    BY <1>1, <1>3, <2>1
<1>5. CASE AskFirst(o)
  <2>1. offered' \in [Conversations -> [Members -> Nat]]
    BY <1>1, <1>2, <1>5, RefundTyped DEF AskFirst
  <2>2. CallTypeOK'
    <3>1. UNCHANGED <<dest, entries, said, lost>>
      BY <1>5 DEF AskFirst
    <3>2. CASE Goto(o, "asking") /\ UNCHANGED <<verdict, notice>>
      BY <1>1, <3>1, <3>2
    <3>3. CASE Tell(o, "failed", "saveFailed")
      BY <1>1, <3>1, <3>3
    <3> QED
      BY <1>5, <3>2, <3>3 DEF AskFirst
  <2> QED
    BY <1>1, <1>5, <2>1, <2>2 DEF AskFirst
<1>6. CASE OfferAskFails(o)
  <2>1. offered' \in [Conversations -> [Members -> Nat]]
    BY <1>2, <1>6, RefundTyped DEF OfferAskFails
  <2> QED
    BY <1>1, <1>6, <2>1 DEF OfferAskFails
<1>7. CASE OfferUnanswered(o)
  BY <1>1, <1>2, <1>7, RefusedTyped DEF OfferUnanswered
<1>8. CASE OfferDeclined(o)
  BY <1>1, <1>2, <1>8, RefusedTyped DEF OfferDeclined
<1>9. CASE OfferAccepted(o)
  <2>1. EngineTypeOK' /\ UNCHANGED <<entries, said, lost>>
    BY <1>1, <1>9 DEF OfferAccepted
  <2>2. PICK s \in Spaces :
          \/ Goto(o, "putting") /\ dest' = [dest EXCEPT ![o] = s] /\ UNCHANGED <<verdict, notice>>
          \/ Tell(o, "failed", "saveFailed") /\ UNCHANGED dest
    BY <1>3, <1>9 DEF OfferAccepted
  <2>3. CASE Goto(o, "putting") /\ dest' = [dest EXCEPT ![o] = s] /\ UNCHANGED <<verdict, notice>>
    BY <1>1, <2>1, <2>3
  <2>4. CASE Tell(o, "failed", "saveFailed") /\ UNCHANGED dest
    BY <1>1, <2>1, <2>4
  <2> QED
    BY <2>2, <2>3, <2>4
<1> QED
  BY <1>4, <1>5, <1>6, <1>7, <1>8, <1>9 DEF OfferStep

LEMMA StoreStepTypes ==
  ASSUME CaptureInv, NEW o \in Calls, StoreStep(o)
  PROVE  EngineTypeOK' /\ CallTypeOK'
<1> USE DEF EngineTypeOK, CallTypeOK, Steps, Notices, Verdicts, Goto, Verdict, Finish, Tell,
        engineVars, callVars, chatVars
<1>1. EngineTypeOK /\ CallTypeOK
  BY TypesSplit DEF CaptureInv
<1>2. pc[o] # "idle"
  BY DEF StoreStep, Put, PutMisfiled, PutFails, Announce, AnnounceFails, AnnounceStands,
     Undo, Delete, DeleteFails, Strike
<1>3. CASE Put(o)
  BY <1>1, <1>3 DEF Put
<1>4. CASE PutMisfiled(o)
  BY <1>1, <1>2, <1>4, RefusedTyped DEF PutMisfiled
<1>5. CASE PutFails(o)
  BY <1>1, <1>2, <1>5, RefusedTyped DEF PutFails
<1>6. CASE Announce(o)
  BY <1>1, <1>6 DEF Announce
<1>7. CASE AnnounceFails(o)
  BY <1>1, <1>7 DEF AnnounceFails
<1>8. CASE AnnounceStands(o)
  BY <1>1, <1>8 DEF AnnounceStands
<1>9. CASE Undo(o)
  BY <1>1, <1>2, <1>9, RefusedTyped DEF Undo
<1>10. CASE Delete(o)
  BY <1>1, <1>10 DEF Delete
<1>11. CASE DeleteFails(o)
  BY <1>1, <1>11 DEF DeleteFails
<1>12. CASE Strike(o)
  BY <1>1, <1>12 DEF Strike
<1> QED
  BY <1>3, <1>4, <1>5, <1>6, <1>7, <1>8, <1>9, <1>10, <1>11, <1>12 DEF StoreStep

LEMMA PublishStepTypes ==
  ASSUME CaptureInv, NEW o \in Calls, PublishStep(o) \/ Speak(o)
  PROVE  EngineTypeOK' /\ CallTypeOK'
<1> USE DEF EngineTypeOK, CallTypeOK, engineVars, callVars, chatVars, captureVars
<1>1. EngineTypeOK /\ CallTypeOK
  BY TypesSplit DEF CaptureInv
<1>2. /\ {"done", "sharing"} \subseteq Steps
      /\ {"timedOut", "declined", "failed", "saved"} \subseteq Verdicts
      /\ {"publishFailed", "published", "wrongSpace"} \subseteq Notices
  BY DEF Steps, Verdicts, Notices
<1>3. \A v \in Verdicts, n \in Notices : Finish(o, v) \/ Tell(o, v, n) =>
        /\ pc' \in [Calls -> Steps] /\ verdict' \in [Calls -> Verdicts]
        /\ notice' \in [Calls -> Notices]
  BY EndingTyped
<1>4. CASE AskPromotion(o)
  BY <1>1, <1>4 DEF AskPromotion
<1>5. CASE PromotionAskFails(o)
  BY <1>1, <1>2, <1>3, <1>5 DEF PromotionAskFails
<1>6. CASE PromotionRefused(o)
  BY <1>1, <1>2, <1>3, <1>6 DEF PromotionRefused
<1>7. CASE PromotionAccepted(o)
  BY <1>1, <1>2, <1>7 DEF PromotionAccepted, Goto, Spaces
<1>8. CASE Share(o)
  <2>1. entries' \in [Spaces -> SUBSET Calls]
    BY <1>1, <1>8 DEF Share
  <2> QED
    BY <1>1, <1>2, <1>3, <1>8, <2>1 DEF Share
<1>9. CASE ShareMisfiled(o)
  <2>1. entries' \in [Spaces -> SUBSET Calls]
    BY <1>1, <1>9 DEF ShareMisfiled
  <2> QED
    BY <1>1, <1>2, <1>3, <1>9, <2>1 DEF ShareMisfiled
<1>10. CASE ShareFails(o)
  BY <1>1, <1>2, <1>3, <1>10 DEF ShareFails
<1>11. CASE Speak(o)
  <2>1. pc' \in [Calls -> Steps]
    BY <1>1, <1>2, <1>11 DEF Speak, Goto
  <2>2. said' \in [Calls -> SUBSET Notices] /\ lost' \in [Calls -> Nat]
    BY <1>1, <1>11 DEF Speak
  <2> QED
    BY <1>1, <1>11, <2>1, <2>2 DEF Speak
<1> QED
  BY <1>4, <1>5, <1>6, <1>7, <1>8, <1>9, <1>10, <1>11 DEF PublishStep

-----------------------------------------------------------------------------
\* A step of one call leaves the others as they are.
SameEntry(p) == \A s \in Spaces : p \in entries'[s] <=> p \in entries[s]

SameJob(p) ==
  /\ SameCall(p) /\ SameEntry(p)
  /\ pc'[p] = pc[p] /\ job'[p] = job[p] /\ dest'[p] = dest[p]
  /\ notice'[p] = notice[p] /\ said'[p] = said[p]

LEMMA SameJobInv ==
  ASSUME CaptureInv, NEW p \in Calls, SameJob(p)
  PROVE  CallInv(p)'
<1>1. CallInv(p)
  BY DEF CaptureInv
<1>2. InMemory(p)' <=> InMemory(p)
  BY DEF SameJob, SameEntry, InMemory
<1>3. WritesDirectly(p)' <=> WritesDirectly(p)
  BY DEF SameJob, WritesDirectly, AllowsPrivate
<1>4. AgreedTo(p)' = AgreedTo(p) /\ Keyboard(p)' = Keyboard(p)
  BY DEF SameJob, SameCall, AgreedTo, Keyboard, HasShared, AllowsPrivate
<1>5. Filed(p)' <=> Filed(p)
  BY DEF SameJob, SameEntry, Filed
<1>6. JobFits(p)'
  BY <1>1 DEF CallInv, JobFits, SameJob, SameCall, Speakers, AllowsPrivate
<1>7. QuestionFits(p)' /\ TapFits(p)'
  BY <1>1, <1>3, <1>4 DEF CallInv, QuestionFits, TapFits, SameJob, SameCall, Underway,
     AllowsPrivate
<1>8. StepFits(p)'
  BY <1>1, <1>3, <1>4 DEF CallInv, StepFits, SameJob, SameCall
<1>9. EntryFits(p)'
  BY <1>1, <1>2 DEF CallInv, EntryFits, SameJob, SameEntry, Ended
<1>10. NoticeFits(p)' /\ ChatFits(p)'
  BY <1>1, <1>2, <1>3, <1>5 DEF CallInv, NoticeFits, ChatFits, SameJob, SameCall
<1> QED
  BY <1>6, <1>7, <1>8, <1>9, <1>10 DEF CallInv

\* The steps that touch the transport: three ask a question, and one rewrites the
\* message of a question that was answered.
LEMMA Asking ==
  ASSUME CaptureInv, NEW o \in Calls,
         (AskFirst(o) /\ CanAsk(o)) \/ Announce(o) \/ AskPromotion(o)
  PROVE  \E u \in Users, choices \in SUBSET Choices :
           choices # {} /\ AskStart(o, u, choices)
<1>1. pc[o] # "idle"
  BY DEF AskFirst, Announce, AskPromotion
<1> QED
  BY <1>1, MadeCall, KeyboardTyped DEF AskFirst, Announce, AskPromotion

LEMMA NotAsking ==
  ASSUME NEW o \in Calls, CallStep(o), ~(AskFirst(o) /\ CanAsk(o)), ~Announce(o),
         ~AskPromotion(o), ~Strike(o)
  PROVE  UNCHANGED askVars
BY DEF CallStep, OfferStep, StoreStep, PublishStep, WriteFirst, AskFirst, OfferAskFails,
   OfferUnanswered, OfferDeclined, OfferAccepted, Put, PutMisfiled, PutFails, AnnounceFails,
   AnnounceStands, Undo, Delete, DeleteFails, PromotionAskFails, PromotionRefused,
   PromotionAccepted, Share, ShareMisfiled, ShareFails, Speak

LEMMA OthersKept ==
  ASSUME CaptureInv, NEW o \in Calls, NEW p \in Calls, p # o, CallStep(o)
  PROVE  SameJob(p)
<1>1. TypeOK /\ AskTypeOK
  BY DEF CaptureInv, AskInv
<1>2. SameCall(p)
  <2>1. CASE Strike(o)
    BY <1>1, <2>1 DEF Strike, Retire, SameCall, AskTypeOK
  <2>2. CASE (AskFirst(o) /\ CanAsk(o)) \/ Announce(o) \/ AskPromotion(o)
    BY <1>1, <2>2, Asking, OthersStay
  <2>3. CASE UNCHANGED askVars
    BY <2>3 DEF askVars, SameCall
  <2> QED
    BY <2>1, <2>2, <2>3, NotAsking
<1> USE DEF SameJob, SameEntry, TypeOK, Goto, Verdict, Finish, Tell, engineVars, callVars,
        chatVars, captureVars
<1>3. CASE OfferStep(o)
  <2>1. CASE OfferAccepted(o)
    BY <1>1, <1>2, <2>1 DEF OfferAccepted
  <2>2. CASE AskFirst(o)
    BY <1>1, <1>2, <2>2 DEF AskFirst
  <2>3. CASE WriteFirst(o) \/ OfferAskFails(o) \/ OfferUnanswered(o) \/ OfferDeclined(o)
    BY <1>1, <1>2, <2>3 DEF WriteFirst, OfferAskFails, OfferUnanswered, OfferDeclined
  <2> QED
    BY <1>3, <2>1, <2>2, <2>3 DEF OfferStep
<1>4. CASE Put(o) \/ PutMisfiled(o) \/ PutFails(o) \/ Announce(o)
  BY <1>1, <1>2, <1>4 DEF Put, PutMisfiled, PutFails, Announce
<1>5. CASE AnnounceFails(o) \/ AnnounceStands(o) \/ Undo(o) \/ Delete(o)
           \/ DeleteFails(o) \/ Strike(o)
  BY <1>1, <1>2, <1>5 DEF AnnounceFails, AnnounceStands, Undo, Delete, DeleteFails, Strike
<1>6. CASE PublishStep(o) \/ Speak(o)
  <2>1. CASE Share(o) \/ ShareFails(o)
    BY <1>1, <1>2, <2>1 DEF Share, ShareFails
  <2>2. CASE ShareMisfiled(o)
    BY <1>1, <1>2, <2>2 DEF ShareMisfiled
  <2>3. CASE AskPromotion(o) \/ PromotionAskFails(o) \/ PromotionRefused(o)
             \/ PromotionAccepted(o)
    BY <1>1, <1>2, <2>3 DEF AskPromotion, PromotionAskFails, PromotionRefused,
       PromotionAccepted
  <2>4. CASE Speak(o)
    BY <1>1, <1>2, <2>4 DEF Speak
  <2> QED
    BY <1>6, <2>1, <2>2, <2>3, <2>4 DEF PublishStep
<1> QED
  BY <1>3, <1>4, <1>5, <1>6 DEF CallStep, StoreStep

\* The transport's invariant survives what a call does.
LEMMA CallStepAskInv ==
  ASSUME CaptureInv, NEW o \in Calls, CallStep(o)
  PROVE  AskInv'
<1>1. CASE (AskFirst(o) /\ CanAsk(o)) \/ Announce(o) \/ AskPromotion(o)
  BY <1>1, Asking, AskingInv
<1>2. CASE UNCHANGED askVars
  BY <1>2, AskNextInv DEF CaptureInv
<1>3. CASE Strike(o)
  <2>1. phase[o] = "returned"
    BY <1>3 DEF Strike, CaptureInv, CallInv, StepFits
  <2>2. AskTypeOK'
    BY <1>3 DEF Strike, Retire, CaptureInv, AskInv, AskTypeOK, Messages
  <2>3. ASSUME NEW q \in Calls PROVE AskInvOf(q)'
    BY <1>3, <2>1 DEF Strike, Retire, CaptureInv, AskInv, AskTypeOK, AskInvOf, BeforeReturn,
       TapWasAllowed, ResultIsHonest, MessageIsHonest, Underway
  <2> QED
    BY <2>2, <2>3 DEF AskInv
<1> QED
  BY <1>1, <1>2, <1>3, NotAsking

-----------------------------------------------------------------------------
\* What a call was asked to do does not change while it is under way.
LEMMA SameShape ==
  ASSUME NEW o \in Calls, job'[o] = job[o], tapped'[o] = tapped[o]
  PROVE  /\ WritesDirectly(o)' <=> WritesDirectly(o)
         /\ AgreedTo(o)' = AgreedTo(o)
         /\ Keyboard(o)' = Keyboard(o)
BY DEF WritesDirectly, AllowsPrivate, AgreedTo, Keyboard, HasShared

\* What the invariant says of one call, ready to be cited.
LEMMA ThisCall ==
  ASSUME CaptureInv, NEW o \in Calls
  PROVE  /\ TypeOK /\ AskTypeOK /\ AskInvOf(o) /\ CallInv(o)
         /\ tapped[o] = Without("none") \/ tapped[o].kind = "tap"
         /\ phase[o] # "returned" => result[o].kind = "none"
         /\ result[o].kind = "tap" => result[o] = tapped[o]
         /\ Without("none").kind = "none" /\ Without("error").kind = "error"
BY DEF CaptureInv, AskInv, AskInvOf, TapWasAllowed, BeforeReturn, ResultIsHonest, Without,
   Outcome

\* Asking a question: either it is under way, or it has failed without a message.
LEMMA Asked ==
  ASSUME CaptureInv, NEW o \in Calls, NEW u, NEW choices, AskStart(o, u, choices)
  PROVE  /\ phase[o] = "idle" /\ tapped'[o] = tapped[o] /\ tapped[o] = Without("none")
         /\ message'[o] = message[o]
         /\ \/ phase'[o] = "returned" /\ result'[o].kind = "error"
            \/ /\ phase'[o] = "sending" /\ result'[o].kind = "none"
               /\ pending'[o].user = u /\ pending'[o].choices = choices
BY ThisCall
   DEF AskStart, Return, AskTypeOK, AskInvOf, TapWasAllowed

LEMMA Kept ==
  ASSUME CaptureInv, NEW o \in Calls, pc[o] # "idle", pc'[o] # "idle",
         job'[o] = job[o], tapped'[o] = tapped[o]
  PROVE  JobFits(o)' /\ TapFits(o)'
<1>1. JobFits(o)'
  BY ThisCall DEF CallInv, JobFits, Speakers, AllowsPrivate
<1>2. TapFits(o)'
  BY ThisCall, SameShape DEF CallInv, TapFits, AllowsPrivate
<1> QED
  BY <1>1, <1>2

\* A call ends well when its last notice, and the question it leaves in the chat, say
\* what is in the memory.
LEMMA EndsWell ==
  ASSUME CaptureInv, NEW o \in Calls, pc[o] \notin {"idle"} \cup Ended, ~Underway(o),
         UNCHANGED askVars, job'[o] = job[o], said'[o] = said[o],
         pc'[o] \in {"speaking", "done"},
         notice'[o] \in WriteNotices => Filed(o)',
         notice'[o] \in NothingNotices => ~InMemory(o)',
         result[o].kind \in {"timeout", "error"} =>
           IF WritesDirectly(o) THEN Filed(o)' ELSE ~InMemory(o)'
  PROVE  CallInv(o)'
<1>1. said[o] = {} /\ message[o] # "struck"
  BY ThisCall DEF CallInv, NoticeFits, ChatFits, Ended
<1>2. pc[o] # "idle" /\ pc'[o] # "idle" /\ tapped'[o] = tapped[o] /\ phase'[o] = phase[o]
      /\ result'[o] = result[o] /\ message'[o] = message[o]
  BY DEF askVars
<1>3. JobFits(o)' /\ TapFits(o)' /\ (WritesDirectly(o)' <=> WritesDirectly(o))
  BY <1>2, Kept, SameShape
<1> QED
  BY <1>1, <1>2, <1>3 DEF CallInv, QuestionFits, StepFits, EntryFits, NoticeFits, ChatFits,
     Ended, Underway

\* The steps of Offer up to the answer keep the invariant of their call.
LEMMA OfferStepInv ==
  ASSUME CaptureInv, NEW o \in Calls, OfferStep(o)
  PROVE  CallInv(o)'
<1>1. /\ pc[o] # "idle" /\ UNCHANGED <<job, entries, said>>
  BY DEF OfferStep, WriteFirst, AskFirst, OfferAskFails, OfferUnanswered, OfferDeclined,
     OfferAccepted, chatVars, engineVars, callVars
<1>2. /\ pc[o] \in {"offering", "asking"} /\ ~InMemory(o) /\ said[o] = {}
      /\ notice[o] = "none" /\ message[o] # "struck"
  BY ThisCall DEF CallInv, EntryFits, NoticeFits, ChatFits, Ended, OfferStep, WriteFirst,
     AskFirst, OfferAskFails, OfferUnanswered, OfferDeclined, OfferAccepted
<1>3. ~InMemory(o)'
  BY <1>1, <1>2 DEF InMemory
<1> USE DEF QuestionFits, StepFits, EntryFits, NoticeFits, ChatFits, Ended, WriteNotices,
        NothingNotices, Underway
<1>4. CASE WriteFirst(o)
  <2>1. /\ pc[o] = "offering" /\ phase[o] = "idle" /\ WritesDirectly(o)
        /\ pc'[o] = "putting" /\ dest'[o] = job[o].conv /\ notice'[o] = notice[o]
        /\ UNCHANGED askVars
    BY <1>4, ThisCall DEF WriteFirst, TypeOK, Goto, CallInv
  <2>2. WritesDirectly(o)' /\ tapped'[o] = tapped[o] /\ result'[o].kind = "none"
        /\ phase'[o] = "idle" /\ message'[o] # "struck"
    BY <1>1, <1>2, <2>1, SameShape, ThisCall DEF askVars
  <2> QED
    BY <1>1, <1>2, <1>3, <2>1, <2>2, Kept DEF CallInv
<1>5. CASE AskFirst(o) /\ CanAsk(o)
  <2>1. /\ pc[o] = "offering" /\ ~WritesDirectly(o) /\ pc'[o] = "asking"
        /\ notice'[o] = notice[o] /\ AskStart(o, job[o].speaker, Keyboard(o))
    BY <1>5, ThisCall DEF AskFirst, TypeOK, Goto
  <2>2. /\ tapped'[o] = tapped[o] /\ message'[o] # "struck"
        /\ \/ phase'[o] = "returned" /\ result'[o].kind = "error"
           \/ /\ phase'[o] = "sending" /\ result'[o].kind = "none"
              /\ pending'[o].user = job[o].speaker /\ pending'[o].choices = Keyboard(o)
    BY <1>2, <2>1, Asked
  <2>3. ~WritesDirectly(o)' /\ Keyboard(o)' = Keyboard(o)
    BY <1>1, <2>1, <2>2, SameShape
  <2> QED
    BY <1>1, <1>2, <1>3, <2>1, <2>2, <2>3, Kept DEF CallInv
<1>6. CASE AskFirst(o) /\ ~CanAsk(o)
  <2>1. /\ pc[o] = "offering" /\ pc'[o] = "speaking" /\ notice'[o] = "saveFailed"
        /\ UNCHANGED askVars
    BY <1>6, ThisCall DEF AskFirst, TypeOK, Goto, Tell, Verdict
  <2>2. ~Underway(o) /\ result[o].kind = "none"
    BY <2>1, ThisCall DEF CallInv
  <2> QED
    BY <1>1, <1>3, <2>1, <2>2, EndsWell
<1>7. CASE OfferAskFails(o) \/ OfferUnanswered(o) \/ OfferDeclined(o)
  <2>1. /\ pc[o] = "asking" /\ pc'[o] \in {"speaking", "done"}
        /\ notice'[o] \in {"none", "askFailed"} /\ UNCHANGED askVars
        /\ phase[o] = "returned"
    BY <1>2, <1>7, ThisCall
       DEF OfferAskFails, OfferUnanswered, OfferDeclined, TypeOK, Goto, Tell, Finish, Verdict,
           AnsweredBy
  <2>2. ~WritesDirectly(o)
    BY <2>1, ThisCall DEF CallInv
  <2> QED
    BY <1>1, <1>3, <2>1, <2>2, EndsWell
<1>8. CASE OfferAccepted(o)
  <2>1. /\ pc[o] = "asking" /\ result[o].kind = "tap" /\ phase[o] = "returned"
        /\ result[o] = tapped[o] /\ UNCHANGED askVars /\ ~WritesDirectly(o)
        /\ tapped[o].choice \in {"personal", "shared"}
    BY <1>8, ThisCall DEF OfferAccepted, AnsweredBy, CallInv
  <2>2. CASE pc'[o] = "speaking" /\ notice'[o] = "saveFailed"
    BY <1>1, <1>3, <2>1, <2>2, EndsWell
  <2>3. CASE /\ pc'[o] = "putting" /\ notice'[o] = notice[o]
             /\ dest'[o] = IF tapped[o].choice = "personal" THEN job[o].conv ELSE Household
    <3>1. AgreedTo(o) = dest'[o] /\ dest'[o] \in Spaces
      <4>1. tapped[o].choice = "personal" => job[o].speaker = job[o].conv
        BY <1>1, <2>1, MadeCall, ThisCall DEF CallInv, TapFits
      <4> QED
        BY <1>1, <2>1, <2>3, <4>1, MadeCall DEF AgreedTo, Spaces
    <3>2. ~WritesDirectly(o)' /\ AgreedTo(o)' = AgreedTo(o)
      BY <1>1, <2>1, SameShape DEF askVars
    <3>3. /\ phase'[o] = "returned" /\ result'[o].kind = "tap" /\ message'[o] # "struck"
          /\ tapped'[o] = tapped[o]
      BY <1>2, <2>1 DEF askVars
    <3> QED
      BY <1>1, <1>2, <1>3, <2>1, <2>3, <3>1, <3>2, <3>3, Kept DEF CallInv
  <2> QED
    BY <1>8, <2>1, <2>2, <2>3, ThisCall DEF OfferAccepted, TypeOK, Goto, Tell, Verdict
<1> QED
  BY <1>4, <1>5, <1>6, <1>7, <1>8 DEF OfferStep

\* So do the steps of the write, its announcement and its undoing.
LEMMA StoreStepInv ==
  ASSUME CaptureInv, NEW o \in Calls, StoreStep(o)
  PROVE  CallInv(o)'
<1>1. /\ pc[o] \in {"putting", "announcing", "announced", "deleting", "striking"}
      /\ UNCHANGED <<job, said, dest>>
  BY DEF StoreStep, Put, PutMisfiled, PutFails, Announce, AnnounceFails, AnnounceStands, Undo,
     Delete, DeleteFails, Strike, chatVars, callVars, engineVars
<1>2. said[o] = {} /\ notice[o] = "none" /\ message[o] # "struck" /\ pc[o] \notin Ended
  BY <1>1, ThisCall DEF CallInv, NoticeFits, ChatFits, Ended
<1>3. pc[o] \in {"announcing", "announced", "deleting"} =>
        /\ WritesDirectly(o) /\ Filed(o) /\ dest[o] \in Spaces
        /\ \A s \in Spaces : o \in entries[s] <=> s = dest[o]
  <2> SUFFICES ASSUME pc[o] \in {"announcing", "announced", "deleting"}
               PROVE  /\ WritesDirectly(o) /\ Filed(o) /\ dest[o] \in Spaces
                      /\ \A s \in Spaces : o \in entries[s] <=> s = dest[o]
    OBVIOUS
  <2>1. job[o].conv \in Spaces
    BY MadeCall
  <2> QED
    BY <2>1, ThisCall DEF CallInv, StepFits, EntryFits, Filed
<1> USE DEF QuestionFits, StepFits, EntryFits, NoticeFits, ChatFits, Ended, WriteNotices,
        NothingNotices, Underway
<1>4. CASE pc[o] = "putting"
  <2>1. ~Underway(o) /\ result[o].kind \notin {"timeout", "error"} /\ ~InMemory(o)
        /\ dest[o] \in Spaces
    <3>1. dest[o] \in Spaces
      BY <1>4, MadeCall, ThisCall DEF CallInv
    <3> QED
      BY <1>4, <3>1, ThisCall DEF CallInv
  <2>2. CASE Put(o)
    <3>1. UNCHANGED askVars /\ \A s \in Spaces : o \in entries'[s] <=> s = dest[o]
      BY <2>1, <2>2, ThisCall DEF Put, InMemory, TypeOK
    <3>2. Filed(o)'
      BY <1>1, <2>1, <3>1 DEF Filed
    <3>3. CASE WritesDirectly(o)
      <4>1. /\ pc'[o] = "announcing" /\ notice'[o] = notice[o] /\ phase[o] = "idle"
            /\ dest[o] = job[o].conv
        BY <1>4, <2>2, <3>3, ThisCall DEF Put, TypeOK, Goto, CallInv
      <4>2. /\ WritesDirectly(o)' /\ tapped'[o] = tapped[o] /\ result'[o] = result[o]
            /\ phase'[o] = "idle" /\ message'[o] # "struck"
        BY <1>1, <1>2, <3>1, <3>3, <4>1, SameShape DEF askVars
      <4> QED
        BY <1>1, <1>2, <2>1, <3>1, <4>1, <4>2, Kept DEF CallInv
    <3>4. CASE ~WritesDirectly(o)
      <4>1. pc'[o] = "speaking" /\ notice'[o] = "saved"
        BY <2>2, <3>4, ThisCall DEF Put, TypeOK, Goto, Tell, Verdict
      <4> QED
        BY <1>1, <1>2, <2>1, <3>1, <3>2, <4>1, EndsWell
    <3> QED
      BY <3>3, <3>4
  <2>3. CASE PutMisfiled(o)
    <3>1. UNCHANGED askVars /\ pc'[o] = "speaking" /\ notice'[o] = "wrongSpace"
      BY <2>3, ThisCall DEF PutMisfiled, TypeOK, Goto, Tell, Verdict
    <3> QED
      BY <1>1, <1>2, <2>1, <3>1, EndsWell
  <2>4. CASE PutFails(o)
    <3>1. /\ UNCHANGED askVars /\ pc'[o] = "speaking" /\ notice'[o] = "storeRefused"
          /\ UNCHANGED entries
      BY <2>4, ThisCall DEF PutFails, TypeOK, Goto, Tell, Verdict
    <3> QED
      BY <1>1, <1>2, <2>1, <3>1, EndsWell DEF InMemory
  <2> QED
    BY <1>4, <2>2, <2>3, <2>4 DEF StoreStep, Announce, AnnounceFails, AnnounceStands, Undo,
       Delete, DeleteFails, Strike
<1>5. CASE Announce(o)
  <2>1. /\ pc[o] = "announcing" /\ pc'[o] = "announced" /\ notice'[o] = notice[o]
        /\ AskStart(o, job[o].speaker, {"undo"}) /\ UNCHANGED entries
    BY <1>5, ThisCall DEF Announce, TypeOK, Goto, callVars
  <2>2. /\ tapped'[o] = tapped[o] /\ message'[o] # "struck"
        /\ \/ phase'[o] = "returned" /\ result'[o].kind = "error"
           \/ /\ phase'[o] = "sending" /\ result'[o].kind = "none"
              /\ pending'[o].user = job[o].speaker /\ pending'[o].choices = {"undo"}
    BY <1>2, <2>1, Asked
  <2>3. WritesDirectly(o)' /\ Filed(o)' /\ dest'[o] = job'[o].conv
    BY <1>1, <1>3, <2>1, <2>2, SameShape, ThisCall DEF Filed, CallInv
  <2> QED
    BY <1>1, <1>2, <1>3, <2>1, <2>2, <2>3, Kept DEF CallInv
<1>6. CASE AnnounceFails(o) \/ AnnounceStands(o) \/ DeleteFails(o)
  <2>1. /\ pc[o] \in {"announced", "deleting"} /\ phase[o] = "returned"
        /\ UNCHANGED <<askVars, entries>>
        /\ pc'[o] \in {"speaking", "done"}
        /\ notice'[o] \in {"none", "savedNoUndo", "undoFailed"}
    BY <1>2, <1>6, ThisCall
       DEF AnnounceFails, AnnounceStands, DeleteFails, TypeOK, Goto, Tell, Finish, Verdict,
           CallInv
  <2>2. Filed(o)' /\ WritesDirectly(o)
    BY <1>1, <1>3, <2>1 DEF Filed
  <2> QED
    BY <1>1, <1>2, <2>1, <2>2, EndsWell
<1>7. CASE Undo(o)
  <2>1. /\ pc[o] = "announced" /\ pc'[o] = "deleting" /\ notice'[o] = notice[o]
        /\ UNCHANGED <<askVars, entries>> /\ result[o].kind = "tap"
    BY <1>7, ThisCall DEF Undo, TypeOK, Goto, callVars, Answered, AnsweredBy
  <2>2. /\ WritesDirectly(o)' /\ dest'[o] = job'[o].conv /\ phase'[o] = "returned"
        /\ tapped'[o] = tapped[o] /\ tapped'[o].kind = "tap" /\ result'[o].kind = "tap"
        /\ message'[o] # "struck"
    BY <1>1, <1>2, <1>3, <2>1, SameShape, ThisCall DEF askVars, CallInv
  <2> QED
    BY <1>1, <1>2, <1>3, <2>1, <2>2, Kept DEF CallInv
<1>8. CASE Delete(o)
  <2>1. /\ pc[o] = "deleting" /\ pc'[o] = "striking" /\ notice'[o] = notice[o]
        /\ UNCHANGED askVars /\ entries' = [entries EXCEPT ![dest[o]] = @ \ {o}]
    BY <1>8, ThisCall DEF Delete, TypeOK, Goto
  <2>2. ~InMemory(o)'
    BY <1>3, <2>1, ThisCall DEF TypeOK, InMemory
  <2>3. /\ WritesDirectly(o)' /\ dest'[o] = job'[o].conv /\ phase'[o] = "returned"
        /\ tapped'[o] = tapped[o] /\ tapped'[o].kind = "tap"
        /\ result'[o].kind \notin {"timeout", "error"} /\ message'[o] # "struck"
    BY <1>1, <1>2, <1>3, <2>1, SameShape, ThisCall DEF askVars, CallInv
  <2> QED
    BY <1>1, <1>2, <2>1, <2>2, <2>3, Kept DEF CallInv
<1>9. CASE Strike(o)
  <2>1. /\ pc[o] = "striking" /\ UNCHANGED entries /\ pc'[o] \in {"speaking", "done"}
        /\ notice'[o] \in {"none", "removed"} /\ tapped'[o] = tapped[o]
        /\ phase'[o] = phase[o] /\ result'[o] = result[o]
    BY <1>2, <1>9, ThisCall DEF Strike, TypeOK, Goto
  <2>2. /\ ~InMemory(o)' /\ phase'[o] = "returned"
        /\ result'[o].kind \notin {"timeout", "error"}
    BY <2>1, ThisCall DEF CallInv, InMemory
  <2> QED
    BY <1>1, <1>2, <2>1, <2>2, Kept DEF CallInv
<1> QED
  BY <1>4, <1>5, <1>6, <1>7, <1>8, <1>9 DEF StoreStep, Put, PutMisfiled, PutFails

\* And those of a publication, and the last message of a call.
LEMMA PublishStepInv ==
  ASSUME CaptureInv, NEW o \in Calls, PublishStep(o)
  PROVE  CallInv(o)'
<1>1. /\ pc[o] \in {"publishing", "sharing"} /\ UNCHANGED <<job, said>>
  BY DEF PublishStep, AskPromotion, PromotionAskFails, PromotionRefused, PromotionAccepted,
     Share, ShareMisfiled, ShareFails, captureVars, callVars, chatVars
<1>2. /\ said[o] = {} /\ notice[o] = "none" /\ message[o] # "struck" /\ pc[o] \notin Ended
      /\ ~InMemory(o) /\ ~WritesDirectly(o)
  BY <1>1, ThisCall DEF CallInv, NoticeFits, ChatFits, EntryFits, StepFits, Ended
<1> USE DEF QuestionFits, StepFits, EntryFits, NoticeFits, ChatFits, Ended, WriteNotices,
        NothingNotices, Underway
<1>3. CASE AskPromotion(o)
  <2>1. /\ pc'[o] = "publishing" /\ notice'[o] = notice[o] /\ UNCHANGED entries
        /\ AskStart(o, job[o].speaker, {"publish", "cancel"})
    BY <1>3 DEF AskPromotion, captureVars, callVars
  <2>2. /\ tapped'[o] = tapped[o] /\ message'[o] # "struck"
        /\ \/ phase'[o] = "returned" /\ result'[o].kind = "error"
           \/ /\ phase'[o] = "sending" /\ result'[o].kind = "none"
              /\ pending'[o].user = job[o].speaker /\ pending'[o].choices = {"publish", "cancel"}
    BY <1>2, <2>1, Asked
  <2>3. ~WritesDirectly(o)' /\ ~InMemory(o)'
    BY <1>1, <1>2, <2>1, <2>2, SameShape DEF InMemory
  <2> QED
    BY <1>1, <1>2, <2>1, <2>2, <2>3, Kept DEF CallInv
<1>4. CASE PromotionAskFails(o) \/ PromotionRefused(o) \/ ShareFails(o)
  <2>1. /\ pc'[o] \in {"speaking", "done"} /\ notice'[o] \in {"none", "publishFailed"}
        /\ UNCHANGED <<askVars, entries>> /\ phase[o] = "returned"
    BY <1>2, <1>4, ThisCall
       DEF PromotionAskFails, PromotionRefused, ShareFails, TypeOK, Goto, Tell, Finish, Verdict,
           CallInv
  <2> QED
    BY <1>1, <1>2, <2>1, EndsWell DEF InMemory
<1>5. CASE PromotionAccepted(o)
  <2>1. /\ pc'[o] = "sharing" /\ notice'[o] = notice[o] /\ dest'[o] = Household
        /\ UNCHANGED <<askVars, entries>>
        /\ tapped[o].choice = "publish" /\ phase[o] = "returned" /\ result[o].kind = "tap"
    BY <1>5, ThisCall DEF PromotionAccepted, TypeOK, Goto, Answered, AnsweredBy
  <2>2. AgreedTo(o) = Household /\ Household \in Spaces
    BY <2>1 DEF AgreedTo, Spaces
  <2>3. /\ ~WritesDirectly(o)' /\ AgreedTo(o)' = AgreedTo(o) /\ ~InMemory(o)'
        /\ tapped'[o] = tapped[o] /\ phase'[o] = "returned" /\ result'[o].kind = "tap"
        /\ message'[o] # "struck"
    BY <1>1, <1>2, <2>1, SameShape DEF askVars, InMemory
  <2> QED
    BY <1>1, <1>2, <2>1, <2>2, <2>3, Kept DEF CallInv
<1>6. CASE Share(o) \/ ShareMisfiled(o)
  <2>1. /\ pc[o] = "sharing" /\ pc'[o] = "speaking" /\ UNCHANGED <<askVars, dest>>
        /\ notice'[o] \in {"published", "wrongSpace"}
        /\ notice'[o] = "published" =>
             entries' = [entries EXCEPT ![Household] = @ \cup {o}]
    BY <1>6, ThisCall DEF Share, ShareMisfiled, TypeOK, Goto, Tell, Verdict
  <2>2. /\ phase[o] = "returned" /\ result[o].kind \notin {"timeout", "error"}
        /\ dest[o] = AgreedTo(o) /\ dest[o] \in Spaces
    BY <1>2, <2>1, ThisCall DEF CallInv
  <2>3. dest[o] = Household
    BY <2>1, ThisCall DEF CallInv
  <2> QED
    BY <1>1, <1>2, <2>1, <2>2, <2>3, EndsWell, ThisCall DEF Filed, TypeOK, Spaces
<1> QED
  BY <1>3, <1>4, <1>5, <1>6 DEF PublishStep

LEMMA SpeakInv == ASSUME CaptureInv, NEW o \in Calls, Speak(o) PROVE CallInv(o)'
<1>1. /\ pc[o] = "speaking" /\ pc'[o] = "done" /\ UNCHANGED <<askVars, job, dest, notice, entries>>
      /\ said'[o] \subseteq said[o] \cup {notice[o]}
  BY ThisCall DEF Speak, TypeOK, Goto, callVars
<1>2. tapped'[o] = tapped[o] /\ ~Underway(o)'
  BY <1>1, ThisCall DEF askVars, CallInv, QuestionFits, Underway
<1>3. JobFits(o)' /\ TapFits(o)' /\ (WritesDirectly(o)' <=> WritesDirectly(o))
  BY <1>1, <1>2, Kept, SameShape
<1>4. (InMemory(o)' <=> InMemory(o)) /\ (Filed(o)' <=> Filed(o))
  BY <1>1 DEF InMemory, Filed
<1> QED
  BY <1>1, <1>2, <1>3, <1>4, ThisCall
     DEF CallInv, QuestionFits, StepFits, EntryFits, NoticeFits, ChatFits, Ended, askVars

\* A call is made.
LEMMA CalledInv ==
  ASSUME CaptureInv, NEW o \in Calls, NEW k \in Conversations, NEW u \in Members,
         NEW t \in Titles \cup {None}, NEW g \in Targets, NEW e \in Calls \cup {None},
         ~AllowsPrivate(k) => g = "shared",
         Called(o, k, u, t, g, e), UNCHANGED <<askVars, dest, entries, said>>,
         \/ pc'[o] = "offering" /\ notice'[o] = notice[o]
         \/ pc'[o] = "done" /\ notice'[o] = notice[o]
         \/ pc'[o] = "publishing" /\ notice'[o] = notice[o] /\ g = "publish"
         \/ pc'[o] = "speaking" /\ notice'[o] = "publishFailed"
  PROVE  CallInv(o)' /\ job' \in [Calls -> Jobs \cup {NoJob}]
<1>1. /\ pc[o] = "idle" /\ phase[o] = "idle" /\ ~InMemory(o) /\ notice[o] = "none"
      /\ said[o] = {} /\ message[o] # "struck" /\ tapped[o] = Without("none")
      /\ result[o].kind = "none"
  BY ThisCall DEF CallInv, JobFits, EntryFits, NoticeFits, ChatFits, Called, Ended, AskInvOf,
     TapWasAllowed
<1>2. /\ job'[o] = [conv |-> k, speaker |-> u, title |-> t, target |-> g,
                    turn |-> turn[k], source |-> e]
      /\ u \in Speakers(k)
  BY ThisCall DEF Called, TypeOK
<1>3. job'[o] \in Jobs
  BY <1>2, ThisCall DEF TypeOK, Jobs
<1>4. JobFits(o)'
  BY <1>2, <1>3 DEF JobFits, Speakers, AllowsPrivate
<1>5. ~InMemory(o)'
  BY <1>1 DEF InMemory
<1>6. g = "publish" => ~WritesDirectly(o)'
  BY <1>2 DEF WritesDirectly
<1>7. CallInv(o)'
  BY <1>1, <1>4, <1>5, <1>6, ThisCall
     DEF CallInv, QuestionFits, TapFits, StepFits, EntryFits, NoticeFits, ChatFits, Ended,
         WriteNotices, NothingNotices, askVars, Underway
<1>8. job' \in [Calls -> Jobs \cup {NoJob}]
  BY <1>3, ThisCall DEF Called, TypeOK
<1> QED
  BY <1>7, <1>8

LEMMA OfferInv ==
  ASSUME CaptureInv, NEW o \in Calls, NEW k \in Conversations, NEW u \in Members,
         NEW t \in Titles, NEW g \in Targets \ {"publish"}, Offer(o, k, u, t, g)
  PROVE  CaptureInv'
<1> DEFINE c == Collapsed(k, g)
<1>1. c \in Targets /\ (~AllowsPrivate(k) => c = "shared")
  BY DEF Collapsed, Targets
<1>2. /\ Called(o, k, u, t, c, None)
      /\ UNCHANGED <<askVars, turn, declines, dest, notice, entries, said, lost, crashes>>
      /\ \/ pc' = [pc EXCEPT ![o] = "offering"] /\ UNCHANGED verdict
            /\ offered' = [offered EXCEPT ![k][u] = @ + 1]
         \/ /\ pc' = [pc EXCEPT ![o] = "done"] /\ UNCHANGED offered
            /\ \E v \in {"duplicate", "limited"} : verdict' = [verdict EXCEPT ![o] = v]
  BY DEF Offer, chatVars, Goto, Finish, Verdict
<1>3. pc'[o] \in {"offering", "done"} /\ notice'[o] = notice[o]
  BY <1>2, ThisCall DEF TypeOK
<1>4. CallInv(o)' /\ job' \in [Calls -> Jobs \cup {NoJob}]
  <2>1. g \in Targets /\ t \in Titles \cup {None} /\ None \in Calls \cup {None}
    OBVIOUS
  <2> HIDE DEF c
  <2> QED
    BY <1>1, <1>2, <1>3, <2>1, CalledInv
<1>5. ASSUME NEW p \in Calls, p # o PROVE CallInv(p)'
  <2>1. SameJob(p)
    BY <1>2, <1>5, ThisCall DEF SameJob, SameCall, SameEntry, askVars, Called, TypeOK
  <2> QED
    BY <2>1, SameJobInv
<1>6. AskInv'
  BY <1>2, AskNextInv DEF CaptureInv
<1>7. TypeOK'
  <2>1. offered' \in [Conversations -> [Members -> Nat]]
    BY <1>2, ThisCall DEF TypeOK
  <2>2. pc \in [Calls -> Steps] /\ verdict \in [Calls -> Verdicts]
    BY ThisCall DEF TypeOK
  <2>3. pc' \in [Calls -> Steps]
    BY <1>2, <2>2 DEF Steps
  <2>4. verdict' \in [Calls -> Verdicts]
    BY <1>2, <2>2 DEF Verdicts
  <2> QED
    BY <1>2, <1>4, <1>6, <2>1, <2>3, <2>4, ThisCall DEF TypeOK, AskInv
<1> QED
  BY <1>4, <1>5, <1>6, <1>7 DEF CaptureInv

LEMMA OfferPromotionInv ==
  ASSUME CaptureInv, NEW o \in Calls, NEW e \in Calls, NEW k \in Conversations,
         OfferPromotion(o, k, e)
  PROVE  CaptureInv'
<1>1. /\ Called(o, k, k, None, "publish", e) /\ AllowsPrivate(k) /\ k \in Members
      /\ UNCHANGED <<askVars, turn, offered, declines, dest, entries, said, lost, crashes>>
      /\ \/ pc' = [pc EXCEPT ![o] = "publishing"] /\ UNCHANGED <<verdict, notice>>
         \/ /\ pc' = [pc EXCEPT ![o] = "speaking"] /\ verdict' = [verdict EXCEPT ![o] = "failed"]
            /\ notice' = [notice EXCEPT ![o] = "publishFailed"]
  BY DEF OfferPromotion, AllowsPrivate, chatVars, engineVars, Goto, Tell, Verdict
<1>2. \/ pc'[o] = "publishing" /\ notice'[o] = notice[o]
      \/ pc'[o] = "speaking" /\ notice'[o] = "publishFailed"
  BY <1>1, ThisCall DEF TypeOK
<1>3. CallInv(o)' /\ job' \in [Calls -> Jobs \cup {NoJob}]
  <2>1. "publish" \in Targets /\ None \in Titles \cup {None} /\ e \in Calls \cup {None}
    BY DEF Targets
  <2> QED
    BY <1>1, <1>2, <2>1, CalledInv
<1>4. ASSUME NEW p \in Calls, p # o PROVE CallInv(p)'
  <2>1. SameJob(p)
    BY <1>1, <1>4, ThisCall DEF SameJob, SameCall, SameEntry, askVars, Called, TypeOK
  <2> QED
    BY <2>1, SameJobInv
<1>5. AskInv'
  BY <1>1, AskNextInv DEF CaptureInv
<1>6. TypeOK'
  <2>1. /\ pc \in [Calls -> Steps] /\ verdict \in [Calls -> Verdicts]
        /\ notice \in [Calls -> Notices]
    BY ThisCall DEF TypeOK
  <2>2. pc' \in [Calls -> Steps]
    BY <1>1, <2>1 DEF Steps
  <2>3. verdict' \in [Calls -> Verdicts]
    BY <1>1, <2>1 DEF Verdicts
  <2>4. notice' \in [Calls -> Notices]
    BY <1>1, <2>1 DEF Notices
  <2> QED
    BY <1>1, <1>3, <1>5, <2>2, <2>3, <2>4, ThisCall DEF TypeOK, AskInv
<1> QED
  BY <1>3, <1>4, <1>5, <1>6 DEF CaptureInv

LEMMA CallStepInv ==
  ASSUME CaptureInv, NEW o \in Calls, CallStep(o)
  PROVE  CaptureInv'
<1>1. AskInv'
  BY CallStepAskInv
<1>2. TypeOK'
  BY <1>1, OfferStepTypes, StoreStepTypes, PublishStepTypes
     DEF CallStep, TypeOK, EngineTypeOK, CallTypeOK, AskInv
<1>3. CallInv(o)'
  BY OfferStepInv, StoreStepInv, PublishStepInv, SpeakInv DEF CallStep
<1>4. ASSUME NEW p \in Calls, p # o PROVE CallInv(p)'
  BY <1>4, OthersKept, SameJobInv
<1> QED
  BY <1>1, <1>2, <1>3, <1>4 DEF CaptureInv

\* What the transport does for a question, and what a member taps on it, keeps the
\* invariant of the call that asked.
LEMMA TransportInv ==
  ASSUME CaptureInv, NEW o \in Calls, TransportStep(o) \/ TapStep(o)
  PROVE  CaptureInv'
<1>1. UNCHANGED captureVars /\ [AskNext]_askVars
  BY DEF TransportStep, TapStep, AskNext
<1>2. AskInv'
  BY <1>1, AskNextInv DEF CaptureInv
<1>3. UNCHANGED <<turn, offered, declines, job, dest, notice, verdict, pc, entries, said, lost,
                 crashes>>
  BY <1>1 DEF captureVars, engineVars, callVars, chatVars
<1>4. TypeOK'
  BY <1>2, <1>3, ThisCall DEF TypeOK, AskInv
<1>5. ASSUME NEW p \in Calls, p # o PROVE CallInv(p)'
  <2>1. SameCall(p)
    BY <1>5, OthersStay, ThisCall DEF TransportStep, TapStep
  <2> QED
    BY <1>3, <2>1, SameJobInv DEF SameJob, SameEntry
<1>6. CallInv(o)'
  <2>1. Underway(o) /\ message'[o] # "struck"
    BY ThisCall
       DEF TransportStep, TapStep, AskStep, AskEnds, AskPost, AskSent, AskUnsent, AskAnswered,
           AskTimeout, AskStopped, Settle, Retire, Return, Tap, Underway, AskInvOf,
           BeforeReturn, AskTypeOK
  <2>2. pc[o] \in {"asking", "announced", "publishing"}
    BY <2>1, ThisCall DEF CallInv, QuestionFits
  <2>3. IF WritesDirectly(o) THEN Filed(o)' ELSE ~InMemory(o)'
    <3>1. job[o].conv \in Spaces
      BY <2>2, MadeCall
    <3>2. IF WritesDirectly(o) THEN Filed(o) ELSE ~InMemory(o)
      BY <2>2, <3>1, ThisCall DEF CallInv, StepFits, EntryFits, Filed, Ended
    <3> QED
      BY <1>3, <3>2 DEF InMemory, Filed
  <2>4. (WritesDirectly(o)' <=> WritesDirectly(o)) /\ Keyboard(o)' = Keyboard(o)
    BY <1>3 DEF WritesDirectly, AllowsPrivate, Keyboard, HasShared
  <2>5. JobFits(o)'
    BY <1>3, <2>2, ThisCall DEF CallInv, JobFits, Speakers, AllowsPrivate
  <2>6. StepFits(o)'
    BY <1>3, <2>2, <2>4, ThisCall DEF CallInv, StepFits
  <2>7. EntryFits(o)' /\ NoticeFits(o)'
    BY <1>3, <2>2, ThisCall DEF CallInv, EntryFits, NoticeFits, Ended, InMemory, Filed
  <2>8. ChatFits(o)'
    BY <1>3, <2>1, <2>2, <2>3, <2>4 DEF ChatFits
  <2>9. CASE TransportStep(o)
    <3>1. /\ tapped'[o] = tapped[o]
          /\ \/ phase'[o] = "returned"
             \/ Underway(o)' /\ pending'[o] = pending[o]
      BY <2>1, <2>9, ThisCall
         DEF TransportStep, AskStep, AskEnds, AskPost, AskSent, AskUnsent, AskAnswered, AskTimeout,
             AskStopped, Settle, Retire, Return, Underway, AskTypeOK
    <3>2. TapFits(o)'
      BY <1>3, <2>2, <3>1, Kept
    <3>3. QuestionFits(o)'
      BY <1>3, <2>1, <2>4, <3>1, ThisCall DEF CallInv, QuestionFits, Underway
    <3> QED
      BY <2>5, <2>6, <2>7, <2>8, <3>2, <3>3 DEF CallInv
  <2>10. CASE TapStep(o)
    <3>1. PICK u \in Users, c \in Choices : Tap(o, u, c)
      BY <2>10 DEF TapStep
    <3>2. /\ tapped'[o].kind = "tap" /\ tapped'[o].user = pending[o].user
          /\ tapped'[o].choice \in pending[o].choices
          /\ UNCHANGED <<phase, pending>>
      BY <3>1, ThisCall DEF Tap, AskTypeOK, Outcome
    <3>3. QuestionFits(o)'
      BY <1>3, <2>4, <3>2, ThisCall DEF CallInv, QuestionFits, Underway
    <3>4. tapped'[o].user = job'[o].speaker
      BY <1>3, <2>1, <3>2, ThisCall DEF CallInv, QuestionFits
    <3>5. tapped'[o].choice = "undo" <=> WritesDirectly(o)
      BY <2>1, <3>2, ThisCall DEF CallInv, QuestionFits, StepFits, Keyboard
    <3>6. tapped'[o].choice = "personal" => AllowsPrivate(job[o].conv)
      BY <2>1, <2>2, <3>2, MadeCall, ThisCall DEF CallInv, QuestionFits, Keyboard
    <3>7. TapFits(o)'
      BY <1>3, <2>4, <3>4, <3>5, <3>6 DEF TapFits, AllowsPrivate
    <3> QED
      BY <2>5, <2>6, <2>7, <2>8, <3>3, <3>7 DEF CallInv
  <2> QED
    BY <2>9, <2>10
<1> QED
  BY <1>2, <1>4, <1>5, <1>6 DEF CaptureInv

LEMMA GoDownInv == ASSUME CaptureInv, GoDown, UNCHANGED captureVars PROVE CaptureInv'
<1>1. AskInv'
  BY AskNextInv DEF CaptureInv, AskNext
<1>2. UNCHANGED <<turn, offered, declines, job, dest, notice, verdict, pc, entries, said, lost,
                 crashes, phase, pending, door, message, result, tapped>>
  BY DEF captureVars, engineVars, callVars, chatVars, GoDown
<1>3. TypeOK'
  BY <1>1, <1>2 DEF CaptureInv, TypeOK, AskInv
<1>4. ASSUME NEW p \in Calls PROVE CallInv(p)'
  BY <1>2, SameJobInv DEF SameJob, SameEntry, SameCall
<1> QED
  BY <1>1, <1>3, <1>4 DEF CaptureInv

LEMMA BeginTurnInv == ASSUME CaptureInv, NEW k \in Conversations, BeginTurn(k) PROVE CaptureInv'
<1>1. UNCHANGED <<askVars, job, dest, notice, verdict, pc, entries, said, lost, crashes>>
  BY DEF BeginTurn, callVars, chatVars
<1>2. AskInv'
  BY <1>1, AskNextInv DEF CaptureInv
<1>3. TypeOK'
  <2>1. turn' \in [Conversations -> 0..MaxTurns]
    BY CaptureAssumption DEF BeginTurn, CaptureInv, TypeOK
  <2>2. offered' \in [Conversations -> [Members -> Nat]]
    BY DEF BeginTurn, CaptureInv, TypeOK
  <2>3. declines' \in [Conversations -> SUBSET Calls]
    <3>1. {d \in declines[k] : turn[k] + 1 - job[d].turn < DeclineWindow} \in SUBSET Calls
      BY DEF CaptureInv, TypeOK
    <3> QED
      BY <3>1 DEF BeginTurn, CaptureInv, TypeOK
  <2> QED
    BY <1>1, <1>2, <2>1, <2>2, <2>3 DEF CaptureInv, TypeOK, AskInv
<1>4. ASSUME NEW p \in Calls PROVE CallInv(p)'
  BY <1>1, SameJobInv DEF SameJob, SameEntry, SameCall, askVars
<1> QED
  BY <1>2, <1>3, <1>4 DEF CaptureInv

\* A crash ends every call where it is; what is in the memory and in the chat stays.
LEMMA CrashInv == ASSUME CaptureInv, Crash PROVE CaptureInv'
<1>1. UNCHANGED <<message, result, tapped, job, dest, notice, entries, said, lost>>
  BY DEF Crash, chatVars
<1>2. ASSUME NEW o \in Calls
      PROVE  /\ pc'[o] = IF pc[o] \in {"idle", "done"} THEN pc[o] ELSE "dead"
             /\ phase'[o] = IF phase[o] = "idle" THEN "idle" ELSE "returned"
             /\ pending'[o] = NotPending /\ door'[o] = Without("none")
  BY DEF Crash
<1>3. AskInv'
  <2>1. AskTypeOK'
    <3>1. phase' \in [Calls -> Phases]
      BY DEF Crash, Phases
    <3> QED
      BY <1>1, <3>1, WithoutTyped DEF Crash, CaptureInv, AskInv, AskTypeOK
  <2>2. ASSUME NEW q \in Calls PROVE AskInvOf(q)'
    BY <1>1, <1>2, ThisCall DEF AskInvOf, BeforeReturn, TapWasAllowed, ResultIsHonest,
       MessageIsHonest, Underway
  <2> QED
    BY <2>1, <2>2 DEF AskInv
<1>4. TypeOK'
  <2>1. pc' \in [Calls -> Steps] /\ verdict' \in [Calls -> Verdicts]
    BY DEF Crash, CaptureInv, TypeOK, Steps, Verdicts
  <2>2. /\ turn' \in [Conversations -> 0..MaxTurns]
        /\ offered' \in [Conversations -> [Members -> Nat]]
        /\ declines' \in [Conversations -> SUBSET Calls]
        /\ crashes' \in 0..MaxCrashes
    BY CaptureAssumption DEF Crash, CaptureInv, TypeOK
  <2> QED
    BY <1>1, <1>3, <2>1, <2>2 DEF CaptureInv, TypeOK, AskInv
<1>5. ASSUME NEW o \in Calls PROVE CallInv(o)'
  <2>1. /\ WritesDirectly(o)' <=> WritesDirectly(o)
        /\ InMemory(o)' <=> InMemory(o)
        /\ Filed(o)' <=> Filed(o)
    BY <1>1 DEF WritesDirectly, AllowsPrivate, InMemory, Filed
  <2>2. pc'[o] \in {"idle", "done", "dead"} /\ ~Underway(o)'
    BY <1>2 DEF Underway
  <2>3. JobFits(o)' /\ TapFits(o)'
    BY <1>1, <1>2, <2>1, ThisCall DEF CallInv, JobFits, TapFits, Speakers, AllowsPrivate
  <2>4. QuestionFits(o)' /\ StepFits(o)'
    BY <2>2 DEF QuestionFits, StepFits
  <2>5. EntryFits(o)' /\ NoticeFits(o)'
    BY <1>1, <1>2, <2>1, <2>2, ThisCall DEF CallInv, EntryFits, NoticeFits, Ended
  <2>6. ChatFits(o)'
    BY <1>1, <1>2, <2>1, <2>2, ThisCall DEF CallInv, ChatFits, Ended
  <2> QED
    BY <2>3, <2>4, <2>5, <2>6 DEF CallInv
<1> QED
  BY <1>3, <1>4, <1>5 DEF CaptureInv

LEMMA InitInv == Init => CaptureInv
<1> SUFFICES ASSUME Init PROVE CaptureInv
  OBVIOUS
<1>1. AskInv
  BY AskInitInv DEF Init
<1>2. TypeOK
  BY <1>1, CaptureAssumption DEF Init, TypeOK, AskInv, Steps, Notices, Verdicts, Spaces
<1>3. ASSUME NEW o \in Calls PROVE CallInv(o)
  <2>1. /\ pc[o] = "idle" /\ job[o] = NoJob /\ notice[o] = "none" /\ said[o] = {}
        /\ phase[o] = "idle" /\ message[o] = "absent" /\ ~InMemory(o)
        /\ tapped[o] = Without("none") /\ result[o] = Without("none")
    BY <1>2 DEF Init, AskInit, InMemory
  <2>2. Without("none").kind = "none"
    BY DEF Without, Outcome
  <2> QED
    BY <2>1, <2>2 DEF CallInv, JobFits, QuestionFits, TapFits, StepFits, EntryFits, NoticeFits,
       ChatFits, Ended, Underway, WriteNotices, NothingNotices
<1> QED
  BY <1>1, <1>2, <1>3 DEF CaptureInv

LEMMA NextInv == CaptureInv /\ [Next]_vars => CaptureInv'
<1> SUFFICES ASSUME CaptureInv, [Next]_vars PROVE CaptureInv'
  OBVIOUS
<1>1. CASE UNCHANGED vars
  <2>1. AskInv'
    BY <1>1, AskNextInv DEF CaptureInv, vars
  <2>2. UNCHANGED <<askVars, turn, offered, declines, job, dest, notice, verdict, pc, entries,
                   said, lost, crashes>>
    BY <1>1 DEF vars, captureVars, engineVars, callVars, chatVars
  <2>3. TypeOK'
    BY <2>1, <2>2 DEF CaptureInv, TypeOK, AskInv
  <2>4. ASSUME NEW p \in Calls PROVE CallInv(p)'
    BY <2>2, SameJobInv DEF SameJob, SameEntry, SameCall, askVars
  <2> QED
    BY <2>1, <2>3, <2>4 DEF CaptureInv
<1>2. CASE Next
  BY <1>2, BeginTurnInv, OfferInv, OfferPromotionInv, CallStepInv, TransportInv, GoDownInv,
     CrashInv DEF Next
<1> QED
  BY <1>1, <1>2

-----------------------------------------------------------------------------
\* Every reachable state satisfies the inductive invariant, for every household, every
\* bound on turns and crashes, and a store that files as it likes.
THEOREM CaptureInvariant == Spec => []CaptureInv
BY InitInv, NextInv, PTL DEF Spec

\* The engine's variables keep their types.
THEOREM CaptureTypesHold == Spec => []TypeOK
<1>1. CaptureInv => TypeOK
  BY DEF CaptureInv
<1> QED
  BY <1>1, CaptureInvariant, PTL

\* No failure of a write, a send, an edit, an answer or the process leaves a notice,
\* an announcement or a question in the chat that contradicts the memory.
THEOREM TheChatIsTrue == Spec => []ChatTellsTheTruth
<1>1. CaptureInv => ChatTellsTheTruth
  <2> SUFFICES ASSUME CaptureInv, NEW o \in Calls
               PROVE  /\ said[o] \cap {"saved", "savedNoUndo", "undoFailed", "published"} # {}
                           => o \in entries[dest[o]]
                      /\ "removed" \in said[o] \/ message[o] = "struck" => ~InMemory(o)
                      /\ said[o] \cap {"saveFailed", "askFailed", "storeRefused", "publishFailed"} # {}
                           => ~InMemory(o)
                      /\ message[o] \in {"expired", "withdrawn"} =>
                           IF WritesDirectly(o) THEN o \in entries[dest[o]] ELSE ~InMemory(o)
    BY DEF ChatTellsTheTruth
  <2>1. message[o] \in {"expired", "withdrawn"} => result[o].kind \in {"timeout", "error"}
    BY ThisCall DEF AskInvOf, MessageIsHonest
  <2> QED
    BY <2>1, ThisCall DEF CallInv, NoticeFits, ChatFits, WriteNotices, NothingNotices, Filed
<1> QED
  BY <1>1, CaptureInvariant, PTL

-----------------------------------------------------------------------------
\* The engine implements module Consent: what its members tapped is what they agreed to and what
\* they regretted, and every write, deletion and publication is one that Consent allows.  The store
\* is assumed to put an entry where it is told to (Misfiles is FALSE).

\* What the mapping makes of one call.
LEMMA MappedCall ==
  ASSUME CaptureInv, NEW o \in Calls
  PROVE  /\ tapped[o].kind # "tap" => AgreedTo(o) = None /\ tapped[o].choice # "undo"
         /\ WritesDirectly(o) => AgreedTo(o) = None
         /\ tapped[o].choice = "undo" => WritesDirectly(o)
<1>1. CASE tapped[o].kind = "tap"
  <2>1. tapped[o].choice = "undo" <=> WritesDirectly(o)
    BY <1>1, ThisCall DEF CallInv, TapFits
  <2> QED
    BY <1>1, <2>1 DEF AgreedTo
<1>2. CASE tapped[o] = Without("none")
  <2>1. tapped[o].choice = NoChoice
    BY <1>2 DEF Without, Outcome
  <2>2. NoChoice \notin Buttons
    BY AskAssumption, CaptureAssumption
  <2> QED
    BY <2>1, <2>2 DEF AgreedTo, Buttons
<1> QED
  BY <1>1, <1>2, ThisCall

\* A step that leaves the taps, the entries and the jobs alone is invisible.
LEMMA Invisible ==
  ASSUME UNCHANGED <<tapped, entries, job>>
  PROVE  UNCHANGED Promise!consentVars
BY DEF Promise!consentVars, AgreedTo

LEMMA ProposalRefines ==
  ASSUME CaptureInv, NEW o \in Calls, NEW k \in Conversations, NEW u \in Members, NEW t, NEW g,
         NEW e, Called(o, k, u, t, g, e), UNCHANGED <<tapped, entries>>
  PROVE  Promise!Next
<1>1. job[o] = NoJob /\ job[o].speaker = None /\ tapped[o].kind # "tap"
  BY ThisCall DEF Called, CallInv, JobFits, NoJob, AskInvOf, TapWasAllowed
<1>2. \A p \in Calls : job'[p].speaker = IF p = o THEN u ELSE job[p].speaker
  BY ThisCall DEF Called, TypeOK
<1>3. \A p \in Calls : AgreedTo(p)' = AgreedTo(p)
  <2>1. ASSUME NEW p \in Calls, p # o PROVE AgreedTo(p)' = AgreedTo(p)
    BY <1>2, <2>1 DEF AgreedTo
  <2>2. AgreedTo(o)' = AgreedTo(o)
    <3>1. tapped[o].choice \notin {"personal", "shared", "publish"}
      <4>1. tapped[o].choice = NoChoice
        BY <1>1, ThisCall DEF Without, Outcome
      <4> QED
        BY <4>1, AskAssumption, CaptureAssumption DEF Buttons
    <3> QED
      BY <3>1 DEF AgreedTo
  <2> QED
    BY <2>1, <2>2
<1>4. Promise!Propose(o, u)
  BY <1>1, <1>2, <1>3 DEF Promise!Propose
<1> QED
  BY <1>4 DEF Promise!Next

\* A tap agrees, regrets, or refuses.
LEMMA TapRefines ==
  ASSUME CaptureInv, NEW o \in Calls, TapStep(o)
  PROVE  [Promise!Next]_Promise!consentVars
<1>1. PICK u \in Users, c \in Choices : Tap(o, u, c) /\ UNCHANGED captureVars
  BY DEF TapStep
<1>2. /\ UNCHANGED <<job, entries>> /\ Underway(o) /\ door[o].kind = "none"
      /\ c \in pending[o].choices
      /\ \A p \in Calls : p # o => tapped'[p] = tapped[p]
      /\ tapped'[o].choice = c
  BY <1>1, ThisCall DEF captureVars, callVars, Tap, Underway, AskTypeOK, Outcome
<1>3. tapped[o].kind # "tap" /\ AgreedTo(o) = None /\ tapped[o].choice # "undo"
  BY <1>2, MappedCall, ThisCall DEF AskInvOf, BeforeReturn, Underway
<1>4. job[o].speaker \in Members /\ pc[o] # "idle"
  BY <1>2, MadeCall, ThisCall DEF CallInv, QuestionFits
<1>5. \A p \in Calls : p # o => AgreedTo(p)' = AgreedTo(p)
  BY <1>2 DEF AgreedTo
<1>6. c \in Buttons
  BY CaptureAssumption
<1>7. CASE c = "undo"
  <2>1. WritesDirectly(o)
    BY <1>2, <1>7, ThisCall DEF CallInv, QuestionFits, StepFits, Keyboard
  <2>2. job[o].speaker \in SaveFirst
    BY <1>4, <2>1, MadeCall DEF WritesDirectly
  <2>3. AgreedTo(o)' = AgreedTo(o)
    BY <1>2, <1>3, <1>7 DEF AgreedTo
  <2>4. {p \in Calls : tapped'[p].choice = "undo"}
          = {p \in Calls : tapped[p].choice = "undo"} \cup {o}
    BY <1>2, <1>7
  <2>5. Promise!Regret(o)
    BY <1>2, <1>5, <2>2, <2>3, <2>4 DEF Promise!Regret
  <2> QED
    BY <2>5 DEF Promise!Next
<1>8. CASE c \in {"personal", "shared", "publish"}
  <2> DEFINE s == IF c = "personal" THEN job[o].speaker ELSE Household
  <2>1. AgreedTo(o)' = s
    BY <1>2, <1>8 DEF AgreedTo
  <2>2. {p \in Calls : tapped'[p].choice = "undo"} = {p \in Calls : tapped[p].choice = "undo"}
    BY <1>2, <1>3, <1>8
  <2>3. s \in {job[o].speaker, Household} /\ s \in Promise!Places /\ job[o].speaker # None
    BY <1>4, CaptureAssumption DEF Promise!Places, Spaces
  <2>4. [p \in Calls |-> AgreedTo(p)]' = [[p \in Calls |-> AgreedTo(p)] EXCEPT ![o] = s]
    BY <1>5, <2>1
  <2>5. Promise!Agree(o, s)
    BY <1>2, <1>3, <2>2, <2>3, <2>4 DEF Promise!Agree
  <2> QED
    BY <2>3, <2>5 DEF Promise!Next
<1>9. CASE c \in {"decline", "cancel"}
  <2>1. AgreedTo(o)' = AgreedTo(o)
    BY <1>2, <1>3, <1>9 DEF AgreedTo
  <2>2. {p \in Calls : tapped'[p].choice = "undo"} = {p \in Calls : tapped[p].choice = "undo"}
    BY <1>2, <1>3, <1>9
  <2> QED
    BY <1>2, <1>5, <2>1, <2>2 DEF Promise!consentVars
<1> QED
  BY <1>6, <1>7, <1>8, <1>9 DEF Buttons

\* What the engine writes was agreed to, or is a save-first member's own.
LEMMA WriteRefines ==
  ASSUME CaptureInv, NEW o \in Calls, Put(o) \/ Share(o)
  PROVE  Promise!Next
<1>1. /\ pc[o] \in {"putting", "sharing"} /\ UNCHANGED <<askVars, job>>
      /\ dest[o] \in Spaces /\ entries' = [entries EXCEPT ![dest[o]] = @ \cup {o}]
  <2>1. CASE Put(o)
    <3>1. pc[o] = "putting" /\ dest[o] \in Spaces
      BY <2>1, MadeCall, ThisCall DEF Put, CallInv, StepFits
    <3> QED
      BY <2>1, <3>1 DEF Put
  <2>2. CASE Share(o)
    <3>1. dest[o] = Household /\ Household \in Spaces
      BY <2>2, ThisCall DEF Share, CallInv, StepFits, Spaces
    <3> QED
      BY <2>2, <3>1 DEF Share
  <2> QED
    BY <2>1, <2>2
<1>2. tapped[o].choice # "undo" /\ Promise!Consented(o, dest[o])
  <2>1. CASE WritesDirectly(o)
    <3>1. phase[o] = "idle" /\ dest[o] = job[o].conv
      BY <1>1, <2>1, ThisCall DEF CallInv, StepFits
    <3>2. tapped[o].choice # "undo"
      BY <3>1, MappedCall, ThisCall DEF AskInvOf, TapWasAllowed
    <3>3. job[o].speaker = dest[o] /\ dest[o] \in SaveFirst
      BY <1>1, <2>1, <3>1, MadeCall DEF WritesDirectly
    <3> QED
      BY <3>2, <3>3 DEF Promise!Consented
  <2>2. CASE ~WritesDirectly(o)
    <3>1. dest[o] = AgreedTo(o)
      BY <1>1, <2>2, ThisCall DEF CallInv, StepFits
    <3> QED
      BY <2>2, <3>1, MappedCall DEF Promise!Consented
  <2> QED
    BY <2>1, <2>2
<1>3. UNCHANGED <<[p \in Calls |-> job[p].speaker], [p \in Calls |-> AgreedTo(p)],
                  {p \in Calls : tapped[p].choice = "undo"}>>
  BY <1>1 DEF askVars, AgreedTo
<1>4. Promise!Keep(o, dest[o])
  BY <1>1, <1>2, <1>3 DEF Promise!Keep
<1> QED
  BY <1>1, <1>4 DEF Promise!Next, Promise!Places, Spaces

\* What it deletes, the member took back.
LEMMA DeleteRefines == ASSUME CaptureInv, NEW o \in Calls, Delete(o) PROVE Promise!Next
<1>1. /\ UNCHANGED <<askVars, job>> /\ entries' = [entries EXCEPT ![dest[o]] = @ \ {o}]
      /\ pc[o] = "deleting"
  BY DEF Delete
<1>2. WritesDirectly(o) /\ dest[o] = job[o].conv /\ tapped[o].kind = "tap"
  BY <1>1, ThisCall DEF CallInv, StepFits
<1>3. dest[o] = job[o].speaker
  BY <1>1, <1>2, MadeCall DEF WritesDirectly
<1>4. tapped[o].choice = "undo"
  BY <1>2, ThisCall DEF CallInv, TapFits
<1>5. UNCHANGED <<[p \in Calls |-> job[p].speaker], [p \in Calls |-> AgreedTo(p)],
                  {p \in Calls : tapped[p].choice = "undo"}>>
  BY <1>1 DEF askVars, AgreedTo
<1>6. Promise!TakeBack(o)
  BY <1>1, <1>3, <1>4, <1>5 DEF Promise!TakeBack
<1> QED
  BY <1>6 DEF Promise!Next

LEMMA CallStepRefines ==
  ASSUME CaptureInv, Misfiles = FALSE, NEW o \in Calls, CallStep(o)
  PROVE  [Promise!Next]_Promise!consentVars
<1>1. CASE Put(o) \/ Share(o)
  BY <1>1, WriteRefines
<1>2. CASE Delete(o)
  BY <1>2, DeleteRefines
<1>3. ~PutMisfiled(o) /\ ~ShareMisfiled(o)
  BY DEF PutMisfiled, ShareMisfiled
<1>4. CASE ~Put(o) /\ ~Share(o) /\ ~Delete(o)
  <2>1. UNCHANGED <<entries, job>>
    BY <1>3, <1>4
       DEF CallStep, OfferStep, StoreStep, PublishStep, WriteFirst, AskFirst, OfferAskFails,
           OfferUnanswered, OfferDeclined, OfferAccepted, PutFails, Announce, AnnounceFails,
           AnnounceStands, Undo, DeleteFails, Strike, AskPromotion, PromotionAskFails,
           PromotionRefused, PromotionAccepted, ShareFails, Speak, callVars, captureVars
  <2>2. UNCHANGED tapped
    <3>1. CASE UNCHANGED askVars
      BY <3>1 DEF askVars
    <3>2. CASE (AskFirst(o) /\ CanAsk(o)) \/ Announce(o) \/ AskPromotion(o)
      BY <3>2 DEF AskFirst, Announce, AskPromotion, AskStart
    <3>3. CASE Strike(o)
      BY <3>3 DEF Strike
    <3> QED
      BY <3>1, <3>2, <3>3, NotAsking
  <2> QED
    BY <2>1, <2>2, Invisible
<1> QED
  BY <1>1, <1>2, <1>4

LEMMA NextRefines ==
  CaptureInv /\ Misfiles = FALSE /\ [Next]_vars => [Promise!Next]_Promise!consentVars
<1> SUFFICES ASSUME CaptureInv, Misfiles = FALSE, [Next]_vars
             PROVE  [Promise!Next]_Promise!consentVars
  OBVIOUS
<1>1. ASSUME NEW k \in Conversations, BeginTurn(k) PROVE [Promise!Next]_Promise!consentVars
  BY <1>1, Invisible DEF BeginTurn, askVars, callVars
<1>2. ASSUME NEW o \in Calls, NEW k \in Conversations, NEW u \in Members, NEW t \in Titles,
             NEW g \in Targets \ {"publish"}, Offer(o, k, u, t, g)
      PROVE  [Promise!Next]_Promise!consentVars
  BY <1>2, ProposalRefines DEF Offer, askVars
<1>3. ASSUME NEW o \in Calls, NEW e \in Calls, NEW k \in Conversations, OfferPromotion(o, k, e)
      PROVE  [Promise!Next]_Promise!consentVars
  BY <1>3, ProposalRefines DEF OfferPromotion, AllowsPrivate, askVars
<1>4. ASSUME NEW o \in Calls, TransportStep(o) PROVE [Promise!Next]_Promise!consentVars
  <2>1. UNCHANGED <<tapped, entries, job>>
    BY <1>4 DEF TransportStep, captureVars, callVars, AskStep, AskEnds, AskPost, AskSent, AskUnsent,
       AskAnswered, AskTimeout, AskStopped
  <2> QED
    BY <2>1, Invisible
<1>5. CASE GoDown /\ UNCHANGED captureVars
  BY <1>5, Invisible DEF GoDown, captureVars, callVars
<1>6. CASE Crash \/ UNCHANGED vars
  BY <1>6, Invisible DEF Crash, vars, askVars, captureVars, callVars
<1> QED
  BY <1>1, <1>2, <1>3, <1>4, <1>5, <1>6, TapRefines, CallStepRefines DEF Next

-----------------------------------------------------------------------------
\* Nothing enters a space its member did not agree to, except what save-first members
\* keep in their own, and nothing leaves one but what its member undid: the engine
\* implements Consent, whatever crashes, races and lost replies do.
THEOREM TheEngineKeepsItsPromise == Misfiles = FALSE /\ Spec => KeepsItsPromise
<1> SUFFICES ASSUME Misfiles = FALSE PROVE Spec => KeepsItsPromise
  OBVIOUS
<1>1. Init => Promise!Init
  <2> SUFFICES ASSUME Init PROVE Promise!Init
    OBVIOUS
  <2>1. CaptureInv
    BY InitInv
  <2>2. \A o \in Calls : job[o].speaker = None /\ tapped[o].kind # "tap"
    BY ThisCall, <2>1 DEF Init, AskInit, NoJob, Without, Outcome
  <2>3. \A o \in Calls : AgreedTo(o) = None /\ tapped[o].choice # "undo"
    BY <2>1, <2>2, MappedCall
  <2> QED
    BY <2>2, <2>3 DEF Init, Promise!Init, Promise!Places, Spaces
<1>2. CaptureInv /\ [Next]_vars => [Promise!Next]_Promise!consentVars
  BY NextRefines
<1> QED
  BY <1>1, <1>2, CaptureInvariant, PTL DEF Spec, KeepsItsPromise, Promise!Spec

-----------------------------------------------------------------------------
\* The budget, the refusals and what the member is told.  None of the three is inductive alone:
\* each holds at the end of a call because of what was charged, recorded or sent on its way.

\* A verdict comes with the end of a call's work, only a proposal is charged, and whoever tapped
\* on a question, or let it expire, had it in their chat.
RouteFits(o) ==
  /\ pc[o] \notin {"striking"} \cup Ended => verdict[o] = "none"
  /\ pc[o] \in {"offering", "asking"} => job[o].target # "publish"
  /\ pc[o] = "publishing" => job[o].target = "publish"
  /\ phase[o] = "waiting" \/ tapped[o].kind = "tap" \/ result[o].kind \in {"tap", "timeout"}
       => message[o] # "absent"
  /\ phase[o] = "returned" /\ result[o].kind = "none" => pc[o] = "dead"

\* A write without a question whose announcement never came was lost once before the last notice.
AttemptsFit(o) ==
  pc[o] = "speaking" /\ WritesDirectly(o) /\ verdict[o] = "saved" /\ message[o] = "absent"
    => lost[o] >= 1
TellsOrLoses(o) ==
  pc[o] = "done" /\ InMemory(o) /\ ~Told(o)
    => lost[o] >= IF WritesDirectly(o) /\ verdict[o] = "saved" THEN 2 ELSE 1

\* A refusal is on record for as long as the window lasts, and an undo's before its deletion.
Recorded(d) ==
  \/ d \in declines[job[d].conv]
  \/ turn[job[d].conv] - job[d].turn >= DeclineWindow
RefusalFits(d) == TurnedDown(d) \/ pc[d] = "deleting" => Recorded(d)

\* A call is charged to a turn that has begun.
ChargeFits(o) == Charged(o) => job[o].turn <= turn[job[o].conv]

\* What is charged to the current turn is what its speaker's count says, at most.
BudgetFits ==
  \A k \in Conversations, u \in Members :
    /\ offered[k][u] <= MaxProposals
    /\ \A n \in Nat :
         /\ IsFiniteSet(ChargedTo(k, u, n))
         /\ Cardinality(ChargedTo(k, u, n)) <= IF n = turn[k] THEN offered[k][u] ELSE MaxProposals

AccountFits(o) ==
  RouteFits(o) /\ AttemptsFit(o) /\ TellsOrLoses(o) /\ RefusalFits(o) /\ ChargeFits(o)
LedgerInv == CaptureInv /\ BudgetFits /\ \A o \in Calls : AccountFits(o)

\* What the ledger says of one call, ready to be cited.
LEMMA ThisAccount ==
  ASSUME LedgerInv, NEW o \in Calls
  PROVE  /\ CaptureInv /\ TypeOK
         /\ RouteFits(o) /\ AttemptsFit(o) /\ TellsOrLoses(o) /\ RefusalFits(o) /\ ChargeFits(o)
BY DEF LedgerInv, AccountFits, CaptureInv

\* A call that nothing happens to: its account reads the same.
SameAccount(p) == SameJob(p) /\ verdict'[p] = verdict[p] /\ lost'[p] = lost[p]

LEMMA SameAccountFits ==
  ASSUME NEW p \in Calls, SameAccount(p)
  PROVE  /\ RouteFits(p)' <=> RouteFits(p)
         /\ AttemptsFit(p)' <=> AttemptsFit(p)
         /\ TellsOrLoses(p)' <=> TellsOrLoses(p)
         /\ Charged(p)' <=> Charged(p)
         /\ TurnedDown(p)' <=> TurnedDown(p)
<1>1. /\ phase'[p] = phase[p] /\ message'[p] = message[p] /\ result'[p] = result[p]
      /\ tapped'[p] = tapped[p] /\ pc'[p] = pc[p] /\ job'[p] = job[p] /\ notice'[p] = notice[p]
      /\ said'[p] = said[p] /\ verdict'[p] = verdict[p] /\ lost'[p] = lost[p]
  BY DEF SameAccount, SameJob, SameCall
<1>2. InMemory(p)' <=> InMemory(p)
  BY DEF SameAccount, SameJob, SameEntry, InMemory
<1>3. WritesDirectly(p)' <=> WritesDirectly(p)
  BY <1>1, SameShape
<1>4. Told(p)' <=> Told(p)
  BY <1>1, <1>3 DEF Told
<1>5. RouteFits(p)' <=> RouteFits(p)
  BY <1>1 DEF RouteFits
<1>6. AttemptsFit(p)' <=> AttemptsFit(p)
  BY <1>1, <1>3 DEF AttemptsFit
<1>7. TellsOrLoses(p)' <=> TellsOrLoses(p)
  BY <1>1, <1>2, <1>3, <1>4 DEF TellsOrLoses
<1>8. Charged(p)' <=> Charged(p)
  BY <1>1, <1>3 DEF Charged
<1>9. TurnedDown(p)' <=> TurnedDown(p)
  BY <1>1 DEF TurnedDown
<1> QED
  BY <1>5, <1>6, <1>7, <1>8, <1>9

\* A step of one call leaves the others' accounts as they are.
LEMMA OtherAccounts ==
  ASSUME CaptureInv, NEW o \in Calls, NEW p \in Calls, p # o, CallStep(o)
  PROVE  SameAccount(p)
<1>1. SameJob(p)
  BY OthersKept
<1>2. verdict'[p] = verdict[p] /\ lost'[p] = lost[p]
  <2> USE DEF TypeOK, Goto, Verdict, Finish, Tell, engineVars, callVars, chatVars, captureVars
  <2>1. TypeOK
    BY DEF CaptureInv
  <2>2. CASE OfferStep(o)
    BY <2>1, <2>2 DEF OfferStep, WriteFirst, AskFirst, OfferAskFails, OfferUnanswered, OfferDeclined,
       OfferAccepted
  <2>3. CASE StoreStep(o)
    BY <2>1, <2>3 DEF StoreStep, Put, PutMisfiled, PutFails, Announce, AnnounceFails, AnnounceStands,
       Undo, Delete, DeleteFails, Strike
  <2>4. CASE PublishStep(o) \/ Speak(o)
    BY <2>1, <2>4 DEF PublishStep, AskPromotion, PromotionAskFails, PromotionRefused,
       PromotionAccepted, Share, ShareMisfiled, ShareFails, Speak
  <2> QED
    BY <2>2, <2>3, <2>4 DEF CallStep
<1> QED
  BY <1>1, <1>2 DEF SameAccount

-----------------------------------------------------------------------------
\* What one step of a call does to its own account: a title is turned down only on the record,
\* and a charge may be given back and never made.
OwnAccount(o) ==
  /\ RouteFits(o)' /\ AttemptsFit(o)' /\ TellsOrLoses(o)'
  /\ TurnedDown(o)' \/ pc'[o] = "deleting" =>
       TurnedDown(o) \/ pc[o] = "deleting" \/ o \in declines'[job[o].conv]
  /\ Charged(o)' => Charged(o)

\* recordDecline records the call that is refused.
LEMMA RefusedRecords ==
  ASSUME CaptureInv, NEW o \in Calls, pc[o] # "idle", Refused(o)
  PROVE  o \in declines'[job[o].conv]
BY MadeCall DEF Refused, CaptureInv, TypeOK

\* A call that has not decided anything yet: no verdict, no notice, and charged if it proposes.
LEMMA Undecided ==
  ASSUME LedgerInv, NEW o \in Calls, pc[o] \notin {"striking"} \cup Ended
  PROVE  /\ verdict[o] = "none" /\ notice[o] = "none" /\ ~TurnedDown(o)
         /\ pc[o] # "idle" /\ job[o].target # "publish" => Charged(o)
<1>1. verdict[o] = "none" /\ notice[o] = "none"
  BY ThisAccount, ThisCall DEF RouteFits, CallInv, NoticeFits
<1> QED
  BY <1>1 DEF TurnedDown, Charged

\* The steps of Offer up to the answer.
LEMMA OfferStepAccount ==
  ASSUME LedgerInv, NEW o \in Calls, OfferStep(o)
  PROVE  OwnAccount(o)
<1>1. /\ pc[o] \in {"offering", "asking"} /\ UNCHANGED <<job, entries, said, lost, message, tapped>>
  BY DEF OfferStep, WriteFirst, AskFirst, OfferAskFails, OfferUnanswered, OfferDeclined,
     OfferAccepted, chatVars, engineVars, callVars, askVars, AskStart, Return
<1>2. /\ TypeOK /\ CaptureInv /\ job[o].target # "publish" /\ ~InMemory(o)
      /\ verdict[o] = "none" /\ notice[o] = "none" /\ Charged(o) /\ RouteFits(o)
  BY <1>1, ThisAccount, Undecided, ThisCall DEF RouteFits, CallInv, EntryFits, Ended
<1>3. ~InMemory(o)' /\ (WritesDirectly(o)' <=> WritesDirectly(o))
  BY <1>1, <1>2, SameShape DEF InMemory
<1>4. CASE WriteFirst(o)
  <2>1. pc'[o] = "putting" /\ verdict'[o] = "none" /\ notice'[o] = "none" /\ UNCHANGED askVars
    BY <1>2, <1>4 DEF WriteFirst, TypeOK, Goto
  <2> QED
    BY <1>1, <1>2, <1>3, <2>1 DEF OwnAccount, RouteFits, AttemptsFit, TellsOrLoses, TurnedDown, Ended,
       askVars
<1>5. CASE AskFirst(o) /\ CanAsk(o)
  <2>1. /\ pc'[o] = "asking" /\ verdict'[o] = "none" /\ notice'[o] = "none"
        /\ AskStart(o, job[o].speaker, Keyboard(o))
    BY <1>2, <1>5 DEF AskFirst, TypeOK, Goto
  <2>2. \/ phase'[o] = "returned" /\ result'[o].kind = "error"
        \/ phase'[o] = "sending" /\ result'[o].kind = "none"
    BY <1>2, <2>1, Asked
  <2> QED
    BY <1>1, <1>2, <1>3, <2>1, <2>2 DEF OwnAccount, RouteFits, AttemptsFit, TellsOrLoses, TurnedDown,
       Ended
<1>6. CASE ~(AskFirst(o) /\ CanAsk(o)) /\ ~WriteFirst(o)
  <2>1. /\ UNCHANGED askVars /\ pc'[o] \in {"speaking", "done", "putting"}
        /\ pc'[o] = "putting" => verdict'[o] = "none"
        /\ verdict'[o] \in {"none", "failed", "timedOut", "declined"}
        /\ notice'[o] \in {"none", "saveFailed", "askFailed"}
        /\ verdict'[o] \in {"timedOut", "declined"} => notice'[o] = "none"
    BY <1>2, <1>6 DEF OfferStep, AskFirst, OfferAskFails, OfferUnanswered, OfferDeclined,
       OfferAccepted, TypeOK, Goto, Tell, Finish, Verdict
  <2>2. RouteFits(o)'
    BY <1>1, <1>2, <2>1 DEF RouteFits, Ended, askVars
  <2>3. AttemptsFit(o)' /\ TellsOrLoses(o)'
    BY <1>3, <2>1 DEF AttemptsFit, TellsOrLoses
  <2>4. TurnedDown(o)' => o \in declines'[job[o].conv]
    <3> SUFFICES ASSUME TurnedDown(o)' PROVE Refused(o)
      BY <1>1, <1>2, RefusedRecords
    <3>1. verdict'[o] = "declined" \/ (verdict'[o] = "timedOut" /\ result[o].kind = "timeout")
      BY <2>1 DEF TurnedDown, askVars
    <3> QED
      BY <1>2, <1>6, <3>1 DEF OfferStep, AskFirst, OfferAskFails, OfferUnanswered, OfferDeclined,
         OfferAccepted, TypeOK, Goto, Tell, Finish, Verdict
  <2> QED
    BY <1>2, <2>1, <2>2, <2>3, <2>4 DEF OwnAccount
<1> QED
  BY <1>4, <1>5, <1>6

\* The steps of the write, its announcement and its undoing.
LEMMA StoreStepAccount ==
  ASSUME LedgerInv, NEW o \in Calls, StoreStep(o)
  PROVE  OwnAccount(o)
<1>1. /\ pc[o] \in {"putting", "announcing", "announced", "deleting", "striking"}
      /\ UNCHANGED <<job, said, tapped>>
  BY DEF StoreStep, Put, PutMisfiled, PutFails, Announce, AnnounceFails, AnnounceStands, Undo,
     Delete, DeleteFails, Strike, chatVars, callVars, engineVars, askVars, AskStart, Return
<1>2. /\ TypeOK /\ CaptureInv /\ RouteFits(o) /\ pc[o] # "idle" /\ said[o] = {}
      /\ notice[o] = "none"
      /\ pc[o] # "striking" => verdict[o] = "none"
      /\ pc[o] # "putting" => WritesDirectly(o)
      /\ pc[o] = "striking" => ~InMemory(o)
  BY <1>1, ThisAccount, ThisCall DEF RouteFits, CallInv, NoticeFits, EntryFits, StepFits, Ended
<1>3. WritesDirectly(o)' <=> WritesDirectly(o)
  BY <1>1, SameShape
<1>4. Charged(o)' => Charged(o)
  <2>1. CASE pc[o] = "striking"
    <3>1. CASE Strike(o)
      BY <1>1, <1>2, <1>3, <2>1, <3>1 DEF Strike, Charged
    <3> QED
      BY <2>1, <3>1 DEF StoreStep, Put, PutMisfiled, PutFails, Announce, AnnounceFails, AnnounceStands,
         Undo, Delete, DeleteFails
  <2>2. CASE pc[o] # "striking"
    <3>1. job'[o] = job[o] /\ verdict[o] = "none"
      BY <1>1, <1>2, <2>2
    <3> QED
      BY <1>2, <3>1 DEF Charged
  <2> QED
    BY <2>1, <2>2
<1> USE DEF OwnAccount, RouteFits, AttemptsFit, TellsOrLoses, TurnedDown, Ended
<1>5. CASE Put(o)
  <2>1. /\ UNCHANGED askVars /\ notice'[o] \in {"none", "saved"} /\ pc[o] = "putting"
        /\ \/ pc'[o] = "announcing" /\ verdict'[o] = "none"
           \/ pc'[o] = "speaking" /\ verdict'[o] = "saved" /\ ~WritesDirectly(o)
    <3>1. pc[o] = "putting" /\ verdict[o] = "none" /\ UNCHANGED askVars
      BY <1>2, <1>5 DEF Put
    <3> QED
      BY <1>2, <1>5, <3>1 DEF Put, TypeOK, Goto, Tell, Verdict
  <2> QED
    BY <1>1, <1>2, <1>3, <1>4, <2>1 DEF askVars
<1>6. CASE PutMisfiled(o) \/ PutFails(o)
  <2>1. UNCHANGED askVars /\ pc'[o] = "speaking" /\ verdict'[o] = "failed" /\ Refused(o)
    BY <1>2, <1>6 DEF PutMisfiled, PutFails, TypeOK, Goto, Tell, Verdict
  <2>2. o \in declines'[job[o].conv]
    BY <1>2, <2>1, RefusedRecords
  <2> QED
    BY <1>1, <1>2, <1>3, <1>4, <2>1, <2>2 DEF askVars
<1>7. CASE Announce(o)
  <2>1. /\ pc[o] = "announcing" /\ pc'[o] = "announced" /\ verdict'[o] = "none"
        /\ notice'[o] = "none" /\ AskStart(o, job[o].speaker, {"undo"})
    <3>1. pc[o] = "announcing" /\ verdict[o] = "none" /\ UNCHANGED <<verdict, notice>>
      BY <1>2, <1>7 DEF Announce, callVars
    <3> QED
      BY <1>2, <1>7, <3>1 DEF Announce, TypeOK, Goto
  <2>2. /\ message'[o] = message[o]
        /\ \/ phase'[o] = "returned" /\ result'[o].kind = "error"
           \/ phase'[o] = "sending" /\ result'[o].kind = "none"
    BY <1>2, <2>1, Asked
  <2> QED
    BY <1>1, <1>2, <1>3, <1>4, <2>1, <2>2
<1>8. CASE AnnounceFails(o)
  <2>1. /\ UNCHANGED askVars /\ pc'[o] = "speaking" /\ verdict'[o] = "saved"
        /\ notice'[o] = "savedNoUndo" /\ lost'[o] = lost[o] + 1 /\ lost[o] \in Nat
    BY <1>2, <1>8 DEF AnnounceFails, TypeOK, Goto, Tell, Verdict
  <2> QED
    BY <1>1, <1>2, <1>3, <1>4, <2>1 DEF askVars
<1>9. CASE AnnounceStands(o)
  <2>1. /\ UNCHANGED askVars /\ pc[o] = "announced" /\ pc'[o] = "done" /\ verdict'[o] = "saved"
        /\ notice'[o] = "none" /\ phase[o] = "returned" /\ result[o].kind # "error"
    <3>1. pc[o] = "announced" /\ phase[o] = "returned" /\ result[o].kind # "error" /\ UNCHANGED askVars
      BY <1>9 DEF AnnounceStands
    <3> QED
      BY <1>2, <1>9, <3>1 DEF AnnounceStands, TypeOK, Goto, Finish, Verdict
  <2>2. result[o].kind \in {"tap", "timeout"}
    BY <1>2, <2>1, ThisCall DEF AskTypeOK, Outcomes
  <2>3. Told(o)'
    BY <1>2, <1>3, <2>1, <2>2 DEF Told, askVars
  <2> QED
    BY <1>1, <1>2, <1>3, <1>4, <2>1, <2>3 DEF askVars
<1>10. CASE Undo(o)
  <2>1. /\ UNCHANGED askVars /\ pc'[o] = "deleting" /\ verdict'[o] = "none" /\ Refused(o)
    BY <1>2, <1>10 DEF Undo, TypeOK, Goto, callVars
  <2>2. o \in declines'[job[o].conv]
    BY <1>2, <2>1, RefusedRecords
  <2> QED
    BY <1>1, <1>2, <1>3, <1>4, <2>1, <2>2 DEF askVars
<1>11. CASE Delete(o) \/ DeleteFails(o)
  <2>1. /\ UNCHANGED askVars /\ pc[o] = "deleting" /\ pc'[o] \in {"striking", "speaking"}
    BY <1>2, <1>11 DEF Delete, DeleteFails, TypeOK, Goto, Tell
  <2>2. message[o] # "absent"
    BY <1>2, <2>1, ThisCall DEF CallInv, StepFits
  <2> QED
    BY <1>1, <1>2, <1>3, <1>4, <2>1, <2>2 DEF askVars
<1>12. CASE Strike(o)
  <2>1. /\ pc[o] = "striking" /\ pc'[o] \in {"done", "speaking"} /\ verdict'[o] = verdict[o]
        /\ notice'[o] \in {"none", "removed"} /\ UNCHANGED <<phase, result, entries>>
        /\ message'[o] \in {message[o], "struck"}
    <3>1. /\ pc[o] = "striking" /\ UNCHANGED <<verdict, phase, result, entries>>
          /\ pc' = [pc EXCEPT ![o] = "done"] \/ pc' = [pc EXCEPT ![o] = "speaking"]
          /\ UNCHANGED notice \/ notice' = [notice EXCEPT ![o] = "removed"]
          /\ UNCHANGED message \/ message' = [message EXCEPT ![o] = "struck"]
      BY <1>12 DEF Strike, Retire, Goto, engineVars
    <3>2. AskTypeOK
      BY <1>2, ThisCall
    <3> QED
      BY <1>2, <3>1, <3>2 DEF TypeOK, AskTypeOK
  <2>2. ~InMemory(o)' /\ message[o] # "absent"
    BY <1>2, <2>1, ThisCall DEF CallInv, StepFits, InMemory
  <2> QED
    BY <1>1, <1>2, <1>3, <1>4, <2>1, <2>2
<1> QED
  BY <1>5, <1>6, <1>7, <1>8, <1>9, <1>10, <1>11, <1>12 DEF StoreStep

\* The steps of a publication.
LEMMA PublishStepAccount ==
  ASSUME LedgerInv, NEW o \in Calls, PublishStep(o)
  PROVE  OwnAccount(o)
<1>1. /\ pc[o] \in {"publishing", "sharing"} /\ UNCHANGED <<job, said, tapped, message>>
  BY DEF PublishStep, AskPromotion, PromotionAskFails, PromotionRefused, PromotionAccepted,
     Share, ShareMisfiled, ShareFails, captureVars, callVars, chatVars, askVars, AskStart, Return
<1>2. /\ TypeOK /\ CaptureInv /\ RouteFits(o) /\ pc[o] # "idle" /\ ~WritesDirectly(o)
      /\ notice[o] = "none" /\ verdict[o] = "none" /\ ~InMemory(o)
  BY <1>1, ThisAccount, ThisCall DEF RouteFits, CallInv, NoticeFits, EntryFits, StepFits, Ended
<1>3. WritesDirectly(o)' <=> WritesDirectly(o)
  BY <1>1, SameShape
<1>4. Charged(o)' => Charged(o)
  BY <1>1, <1>2 DEF Charged
<1> USE DEF OwnAccount, RouteFits, AttemptsFit, TellsOrLoses, TurnedDown, Ended
<1>5. CASE AskPromotion(o)
  <2>1. /\ pc'[o] = pc[o] /\ verdict'[o] = "none" /\ notice'[o] = "none" /\ pc[o] = "publishing"
        /\ AskStart(o, job[o].speaker, {"publish", "cancel"})
    BY <1>2, <1>5 DEF AskPromotion, captureVars, callVars
  <2>2. \/ phase'[o] = "returned" /\ result'[o].kind = "error"
        \/ phase'[o] = "sending" /\ result'[o].kind = "none"
    BY <1>2, <2>1, Asked
  <2> QED
    BY <1>1, <1>2, <1>3, <1>4, <2>1, <2>2
<1>6. CASE PromotionRefused(o)
  <2>1. /\ UNCHANGED <<askVars, entries>> /\ pc'[o] = "done" /\ notice'[o] = "none"
        /\ pc[o] = "publishing"
    BY <1>2, <1>6 DEF PromotionRefused, TypeOK, Goto, Finish, Verdict
  <2>2. ~InMemory(o)' /\ job[o].target = "publish"
    BY <1>2, <2>1 DEF InMemory
  <2> QED
    BY <1>1, <1>2, <1>3, <1>4, <2>1, <2>2 DEF askVars
<1>7. CASE PromotionAccepted(o)
  <2>1. UNCHANGED askVars /\ pc'[o] = "sharing" /\ notice'[o] = "none" /\ verdict'[o] = "none"
    BY <1>2, <1>7 DEF PromotionAccepted, TypeOK, Goto
  <2> QED
    BY <1>1, <1>2, <1>3, <1>4, <2>1 DEF askVars
<1>8. CASE PromotionAskFails(o) \/ Share(o) \/ ShareMisfiled(o) \/ ShareFails(o)
  <2>1. /\ UNCHANGED askVars /\ pc'[o] = "speaking" /\ verdict'[o] \in {"saved", "failed"}
        /\ notice'[o] \in {"published", "publishFailed", "wrongSpace"}
    BY <1>2, <1>8 DEF PromotionAskFails, Share, ShareMisfiled, ShareFails, TypeOK, Goto, Tell, Verdict
  <2> QED
    BY <1>1, <1>2, <1>3, <1>4, <2>1 DEF askVars
<1> QED
  BY <1>5, <1>6, <1>7, <1>8 DEF PublishStep

\* The last message: if it is lost, that is counted.
LEMMA SpeakAccount == ASSUME LedgerInv, NEW o \in Calls, Speak(o) PROVE OwnAccount(o)
<1>1. TypeOK /\ RouteFits(o) /\ AttemptsFit(o)
  BY ThisAccount
<1>2. /\ pc[o] = "speaking" /\ pc'[o] = "done"
      /\ UNCHANGED <<askVars, job, notice, verdict, entries>>
      /\ \/ said'[o] # {}
         \/ said'[o] = said[o] /\ lost'[o] = lost[o] + 1 /\ lost[o] \in Nat
  BY <1>1 DEF Speak, TypeOK, Goto, callVars
<1>3. /\ phase'[o] = phase[o] /\ message'[o] = message[o] /\ result'[o] = result[o]
      /\ tapped'[o] = tapped[o] /\ job'[o] = job[o]
  BY <1>2 DEF askVars
<1>4. WritesDirectly(o)' <=> WritesDirectly(o)
  BY <1>3, SameShape
<1>5. RouteFits(o)' /\ AttemptsFit(o)'
  BY <1>1, <1>2, <1>3 DEF RouteFits, AttemptsFit, Ended
<1>6. TellsOrLoses(o)'
  BY <1>1, <1>2, <1>3, <1>4 DEF AttemptsFit, TellsOrLoses, Told
<1>7. (TurnedDown(o)' => TurnedDown(o)) /\ (Charged(o)' => Charged(o))
  BY <1>2, <1>3, <1>4 DEF TurnedDown, Charged
<1> QED
  BY <1>2, <1>5, <1>6, <1>7 DEF OwnAccount


\* What a step of a call does to the engine it shares: refusals are added, and a charge is given
\* back only by a call that gives up its own.
LEMMA CallStepFrame ==
  ASSUME LedgerInv, NEW o \in Calls, CallStep(o)
  PROVE  /\ pc[o] # "idle" /\ UNCHANGED <<turn, job>>
         /\ \A k \in Conversations : declines[k] \subseteq declines'[k]
         /\ UNCHANGED offered \/ (Refund(o) /\ Charged(o) /\ ~Charged(o)')
<1>1. pc[o] # "idle" /\ UNCHANGED <<turn, job>>
  BY DEF CallStep, OfferStep, StoreStep, PublishStep, WriteFirst, AskFirst, OfferAskFails,
     OfferUnanswered, OfferDeclined, OfferAccepted, Put, PutMisfiled, PutFails, Announce,
     AnnounceFails, AnnounceStands, Undo, Delete, DeleteFails, Strike, AskPromotion,
     PromotionAskFails, PromotionRefused, PromotionAccepted, Share, ShareMisfiled, ShareFails,
     Speak, engineVars, callVars, captureVars
<1>2. UNCHANGED declines \/ Refused(o)
  BY DEF CallStep, OfferStep, StoreStep, PublishStep, WriteFirst, AskFirst, OfferAskFails,
     OfferUnanswered, OfferDeclined, OfferAccepted, Put, PutMisfiled, PutFails, Announce,
     AnnounceFails, AnnounceStands, Undo, Delete, DeleteFails, Strike, AskPromotion,
     PromotionAskFails, PromotionRefused, PromotionAccepted, Share, ShareMisfiled, ShareFails,
     Speak, engineVars, captureVars
<1>3. \A k \in Conversations : declines[k] \subseteq declines'[k]
  BY <1>2, ThisAccount DEF Refused, TypeOK
<1>4. UNCHANGED offered \/ (AskFirst(o) /\ ~CanAsk(o)) \/ OfferAskFails(o)
  BY DEF CallStep, OfferStep, StoreStep, PublishStep, WriteFirst, AskFirst,
     OfferUnanswered, OfferDeclined, OfferAccepted, Put, PutMisfiled, PutFails, Announce,
     AnnounceFails, AnnounceStands, Undo, Delete, DeleteFails, Strike, AskPromotion,
     PromotionAskFails, PromotionRefused, PromotionAccepted, Share, ShareMisfiled, ShareFails,
     Speak, engineVars, captureVars
<1>5. ASSUME (AskFirst(o) /\ ~CanAsk(o)) \/ OfferAskFails(o)
      PROVE  Refund(o) /\ Charged(o) /\ ~Charged(o)'
  <2>1. /\ pc[o] \in {"offering", "asking"} /\ Refund(o) /\ UNCHANGED askVars
        /\ Tell(o, "failed", "saveFailed") \/ Tell(o, "failed", "askFailed")
    BY <1>5 DEF AskFirst, OfferAskFails
  <2>2. /\ job[o].target # "publish" /\ Charged(o)
        /\ ~WritesDirectly(o)
        /\ phase[o] # "returned" \/ result[o].kind = "error"
    BY <1>5, <2>1, ThisAccount, Undecided, ThisCall
       DEF AskFirst, OfferAskFails, RouteFits, Ended, CallInv, StepFits
  <2>3. verdict'[o] = "failed" /\ phase'[o] = phase[o] /\ result'[o] = result[o] /\ tapped'[o] = tapped[o]
    BY <2>1, ThisAccount DEF Tell, Verdict, TypeOK, askVars
  <2>4. ~WritesDirectly(o)'
    BY <1>1, <2>2, <2>3, SameShape
  <2> QED
    BY <2>1, <2>2, <2>3, <2>4 DEF Charged
<1> QED
  BY <1>1, <1>3, <1>4, <1>5

-----------------------------------------------------------------------------
\* The budget.  As long as no call is charged that was not, what is charged to a turn shrinks.
LEMMA ChargesShrink ==
  ASSUME LedgerInv, NEW k \in Conversations, NEW u \in Members, NEW n \in Nat,
         \A p \in Calls : Charged(p)' => Charged(p) /\ job'[p] = job[p]
  PROVE  /\ IsFiniteSet(ChargedTo(k, u, n)) /\ IsFiniteSet(ChargedTo(k, u, n)')
         /\ Cardinality(ChargedTo(k, u, n)) \in Nat /\ Cardinality(ChargedTo(k, u, n)') \in Nat
         /\ Cardinality(ChargedTo(k, u, n)') <= Cardinality(ChargedTo(k, u, n))
<1>1. ChargedTo(k, u, n)' \in SUBSET ChargedTo(k, u, n)
  BY DEF ChargedTo
<1>2. IsFiniteSet(ChargedTo(k, u, n))
  BY DEF LedgerInv, BudgetFits
<1> HIDE DEF ChargedTo
<1> QED
  BY <1>1, <1>2, FS_Subset, FS_CardinalityType

LEMMA BudgetKept ==
  ASSUME LedgerInv, UNCHANGED <<turn, offered>>,
         \A p \in Calls : Charged(p)' => Charged(p) /\ job'[p] = job[p]
  PROVE  BudgetFits'
<1> SUFFICES ASSUME NEW k \in Conversations, NEW u \in Members, NEW n \in Nat
             PROVE  /\ offered'[k][u] <= MaxProposals
                    /\ IsFiniteSet(ChargedTo(k, u, n)')
                    /\ Cardinality(ChargedTo(k, u, n)')
                         <= IF n = turn'[k] THEN offered'[k][u] ELSE MaxProposals
  BY DEF BudgetFits
<1>1. /\ IsFiniteSet(ChargedTo(k, u, n)') /\ Cardinality(ChargedTo(k, u, n)') \in Nat
      /\ Cardinality(ChargedTo(k, u, n)) \in Nat
      /\ Cardinality(ChargedTo(k, u, n)') <= Cardinality(ChargedTo(k, u, n))
  BY ChargesShrink
<1>2. /\ offered[k][u] \in Nat /\ MaxProposals \in Nat /\ offered[k][u] <= MaxProposals
      /\ Cardinality(ChargedTo(k, u, n)) <= IF n = turn[k] THEN offered[k][u] ELSE MaxProposals
  BY ThisAccount, CaptureAssumption DEF LedgerInv, BudgetFits, CaptureInv, TypeOK
<1> HIDE DEF ChargedTo
<1> QED
  BY <1>1, <1>2

\* refundOffer gives back what the call was charged, and only in the turn it was charged to.
LEMMA BudgetRefunded ==
  ASSUME LedgerInv, NEW o \in Calls, pc[o] # "idle", UNCHANGED <<turn, job>>,
         Refund(o), Charged(o), ~Charged(o)',
         \A p \in Calls : Charged(p)' => Charged(p)
  PROVE  BudgetFits'
<1> SUFFICES ASSUME offered' # offered PROVE BudgetFits'
  BY BudgetKept
<1> DEFINE ko == job[o].conv  uo == job[o].speaker
<1>1. /\ turn[ko] = job[o].turn /\ offered[ko][uo] > 0
      /\ offered' = [offered EXCEPT ![ko][uo] = @ - 1]
  BY DEF Refund
<1>2. ko \in Conversations /\ uo \in Members /\ job[o].turn \in Nat
  BY MadeCall DEF LedgerInv
<1> SUFFICES ASSUME NEW k \in Conversations, NEW u \in Members, NEW n \in Nat
             PROVE  /\ offered'[k][u] <= MaxProposals
                    /\ IsFiniteSet(ChargedTo(k, u, n)')
                    /\ Cardinality(ChargedTo(k, u, n)')
                         <= IF n = turn'[k] THEN offered'[k][u] ELSE MaxProposals
  BY DEF BudgetFits
<1>3. /\ IsFiniteSet(ChargedTo(k, u, n)) /\ IsFiniteSet(ChargedTo(k, u, n)')
      /\ Cardinality(ChargedTo(k, u, n)') \in Nat /\ Cardinality(ChargedTo(k, u, n)) \in Nat
      /\ Cardinality(ChargedTo(k, u, n)') <= Cardinality(ChargedTo(k, u, n))
  BY ChargesShrink
<1>4. /\ offered[k][u] \in Nat /\ MaxProposals \in Nat /\ offered[k][u] <= MaxProposals
      /\ Cardinality(ChargedTo(k, u, n)) <= IF n = turn[k] THEN offered[k][u] ELSE MaxProposals
  BY CaptureAssumption DEF LedgerInv, BudgetFits, CaptureInv, TypeOK
<1>5. /\ k = ko /\ u = uo => offered'[k][u] = offered[k][u] - 1
      /\ ~(k = ko /\ u = uo) => offered'[k][u] = offered[k][u]
  BY <1>1, <1>2, ThisAccount DEF TypeOK
<1>6. ASSUME k = ko, u = uo, n = turn[k]
      PROVE  Cardinality(ChargedTo(k, u, n)') <= Cardinality(ChargedTo(k, u, n)) - 1
  <2>1. o \in ChargedTo(k, u, n) /\ ChargedTo(k, u, n)' \in SUBSET (ChargedTo(k, u, n) \ {o})
    BY <1>1, <1>6 DEF ChargedTo
  <2> HIDE DEF ChargedTo
  <2>2. /\ IsFiniteSet(ChargedTo(k, u, n) \ {o})
        /\ Cardinality(ChargedTo(k, u, n) \ {o}) = Cardinality(ChargedTo(k, u, n)) - 1
    BY <1>3, <2>1, FS_RemoveElement
  <2>3. Cardinality(ChargedTo(k, u, n)') <= Cardinality(ChargedTo(k, u, n) \ {o})
    BY <2>1, <2>2, FS_Subset
  <2> QED
    BY <2>2, <2>3
<1> HIDE DEF ChargedTo, ko, uo
<1>7. CASE k = ko /\ u = uo
  BY <1>1, <1>3, <1>4, <1>5, <1>6, <1>7
<1>8. CASE ~(k = ko /\ u = uo)
  BY <1>3, <1>4, <1>5, <1>8
<1> QED
  BY <1>7, <1>8

\* A refusal stays on record while the turn does, and the record only grows.
LEMMA RecordedStays ==
  ASSUME CaptureInv, NEW d \in Calls, pc[d] # "idle", job'[d] = job[d], UNCHANGED turn,
         \A k \in Conversations : declines[k] \subseteq declines'[k], Recorded(d)
  PROVE  Recorded(d)'
<1>1. job[d].conv \in Conversations
  BY MadeCall
<1> QED
  BY <1>1 DEF Recorded

\* Nothing was turned down, and nothing is being undone, by a call that was never made.
LEMMA IdleAccount ==
  ASSUME LedgerInv, NEW o \in Calls, pc[o] = "idle"
  PROVE  ~TurnedDown(o) /\ ~Charged(o) /\ verdict[o] = "none" /\ notice[o] = "none" /\ ~InMemory(o)
BY Undecided, ThisAccount, ThisCall DEF Charged, Ended, CallInv, EntryFits

\* The steps of a call keep the ledger.
LEMMA CallStepLedger == ASSUME LedgerInv, NEW o \in Calls, CallStep(o) PROVE LedgerInv'
<1>1. CaptureInv'
  BY CallStepInv DEF LedgerInv
<1>2. /\ pc[o] # "idle" /\ UNCHANGED <<turn, job>>
      /\ \A k \in Conversations : declines[k] \subseteq declines'[k]
      /\ UNCHANGED offered \/ (Refund(o) /\ Charged(o) /\ ~Charged(o)')
  BY CallStepFrame
<1>3. OwnAccount(o)
  BY OfferStepAccount, StoreStepAccount, PublishStepAccount, SpeakAccount DEF CallStep
<1>4. ASSUME NEW p \in Calls, p # o PROVE SameAccount(p)
  BY <1>4, OtherAccounts, ThisAccount
<1>5. ASSUME NEW p \in Calls
      PROVE  /\ Charged(p)' => Charged(p)
             /\ TurnedDown(p)' \/ pc'[p] = "deleting" =>
                  TurnedDown(p) \/ pc[p] = "deleting" \/ Recorded(p)'
             /\ RouteFits(p)' /\ AttemptsFit(p)' /\ TellsOrLoses(p)'
  <2>1. CASE p = o
    BY <1>2, <1>3, <2>1 DEF OwnAccount, Recorded
  <2>2. CASE p # o
    <3>1. SameAccount(p) /\ pc'[p] = pc[p]
      BY <1>4, <2>2 DEF SameAccount, SameJob
    <3> QED
      BY <3>1, SameAccountFits, ThisAccount
  <2> QED
    BY <2>1, <2>2
<1>6. BudgetFits'
  BY <1>2, <1>5, BudgetKept, BudgetRefunded
<1>7. ASSUME NEW p \in Calls PROVE RefusalFits(p)'
  <2> SUFFICES ASSUME TurnedDown(p)' \/ pc'[p] = "deleting" PROVE Recorded(p)'
    BY DEF RefusalFits
  <2> SUFFICES ASSUME TurnedDown(p) \/ pc[p] = "deleting" PROVE Recorded(p)'
    BY <1>5
  <2>1. Recorded(p) /\ pc[p] # "idle"
    BY IdleAccount, ThisAccount DEF RefusalFits
  <2> QED
    BY <1>2, <2>1, RecordedStays, ThisAccount
<1>8. ASSUME NEW p \in Calls PROVE ChargeFits(p)'
  BY <1>2, <1>5, ThisAccount DEF ChargeFits
<1> QED
  BY <1>1, <1>5, <1>6, <1>7, <1>8 DEF LedgerInv, AccountFits

-----------------------------------------------------------------------------
\* A call is made: whatever is dropped at once has said nothing and turned nothing down.
LEMMA MadeAccount ==
  ASSUME LedgerInv, NEW o \in Calls, pc[o] = "idle", UNCHANGED <<askVars, entries, declines, turn>>,
         \A p \in Calls : p # o => SameAccount(p),
         job'[o].turn = turn[job'[o].conv], turn[job'[o].conv] \in Nat,
         \/ pc'[o] = "offering" /\ verdict'[o] = "none" /\ notice'[o] = "none"
              /\ job'[o].target # "publish"
         \/ pc'[o] = "publishing" /\ verdict'[o] = "none" /\ notice'[o] = "none"
              /\ job'[o].target = "publish"
         \/ pc'[o] = "done" /\ verdict'[o] \in {"duplicate", "limited"} /\ notice'[o] = "none"
         \/ pc'[o] = "speaking" /\ verdict'[o] = "failed" /\ notice'[o] = "publishFailed"
  PROVE  \A p \in Calls : AccountFits(p)'
<1>1. /\ RouteFits(o) /\ ~InMemory(o)
      /\ phase[o] = "idle" /\ result[o].kind = "none" /\ tapped[o].kind # "tap"
  <2>1. RouteFits(o) /\ ~InMemory(o) /\ phase[o] = "idle"
    BY IdleAccount, ThisAccount, ThisCall DEF CallInv, JobFits
  <2>2. Without("none").kind # "tap"
    BY DEF Without, Outcome
  <2> QED
    BY <2>1, <2>2, ThisAccount, ThisCall DEF AskInvOf, TapWasAllowed
<1>2. /\ phase' = phase /\ result' = result /\ tapped' = tapped /\ message' = message
      /\ ~InMemory(o)'
  BY <1>1 DEF askVars, InMemory
<1>3. RouteFits(o)' /\ AttemptsFit(o)' /\ TellsOrLoses(o)'
  BY <1>1, <1>2 DEF RouteFits, AttemptsFit, TellsOrLoses, Ended
<1>4. RefusalFits(o)'
  BY <1>2 DEF RefusalFits, TurnedDown
<1>5. ChargeFits(o)'
  BY DEF ChargeFits
<1>6. ASSUME NEW p \in Calls, p # o PROVE AccountFits(p)'
  <2>1. SameAccount(p) /\ pc'[p] = pc[p] /\ job'[p] = job[p]
    BY <1>6 DEF SameAccount, SameJob
  <2>2. RouteFits(p)' /\ AttemptsFit(p)' /\ TellsOrLoses(p)'
    BY <2>1, SameAccountFits, ThisAccount
  <2>3. RefusalFits(p)'
    <3>1. Recorded(p)' <=> Recorded(p)
      BY <2>1 DEF Recorded
    <3> QED
      BY <2>1, <3>1, SameAccountFits, ThisAccount DEF RefusalFits
  <2>4. ChargeFits(p)'
    BY <2>1, SameAccountFits, ThisAccount DEF ChargeFits
  <2> QED
    BY <2>2, <2>3, <2>4 DEF AccountFits
<1> QED
  BY <1>3, <1>4, <1>5, <1>6 DEF AccountFits

\* A call charged to the current turn takes the place that the count has left.
LEMMA BudgetCharged ==
  ASSUME LedgerInv, NEW o \in Calls, NEW ko \in Conversations, NEW uo \in Members,
         pc[o] = "idle", UNCHANGED turn,
         job'[o].conv = ko, job'[o].speaker = uo, job'[o].turn = turn[ko],
         offered[ko][uo] < MaxProposals, offered' = [offered EXCEPT ![ko][uo] = @ + 1],
         \A p \in Calls : p # o => SameAccount(p)
  PROVE  BudgetFits'
<1> SUFFICES ASSUME NEW k \in Conversations, NEW u \in Members, NEW n \in Nat
             PROVE  /\ offered'[k][u] <= MaxProposals
                    /\ IsFiniteSet(ChargedTo(k, u, n)')
                    /\ Cardinality(ChargedTo(k, u, n)')
                         <= IF n = turn'[k] THEN offered'[k][u] ELSE MaxProposals
  BY DEF BudgetFits
<1>1. /\ IsFiniteSet(ChargedTo(k, u, n))
      /\ offered[k][u] \in Nat /\ MaxProposals \in Nat /\ offered[k][u] <= MaxProposals
      /\ Cardinality(ChargedTo(k, u, n)) <= IF n = turn[k] THEN offered[k][u] ELSE MaxProposals
  <2>1. offered[k][u] \in Nat /\ MaxProposals \in Nat
    BY ThisAccount, CaptureAssumption DEF TypeOK
  <2>2. BudgetFits
    BY DEF LedgerInv
  <2> QED
    BY <2>1, <2>2 DEF BudgetFits
<1>2. /\ k = ko /\ u = uo => offered'[k][u] = offered[k][u] + 1
      /\ ~(k = ko /\ u = uo) => offered'[k][u] = offered[k][u]
  BY ThisAccount DEF TypeOK
<1>3. \A p \in Calls : p # o => (Charged(p)' <=> Charged(p)) /\ job'[p] = job[p]
  BY SameAccountFits DEF SameAccount, SameJob
<1>4. CASE k = ko /\ u = uo /\ n = turn[k]
  <2>1. ChargedTo(k, u, n)' \in SUBSET (ChargedTo(k, u, n) \cup {o})
    BY <1>3 DEF ChargedTo
  <2>2. o \notin ChargedTo(k, u, n)
    BY IdleAccount DEF ChargedTo
  <2> HIDE DEF ChargedTo
  <2>3. /\ IsFiniteSet(ChargedTo(k, u, n) \cup {o})
        /\ Cardinality(ChargedTo(k, u, n) \cup {o}) = Cardinality(ChargedTo(k, u, n)) + 1
    BY <1>1, <2>2, FS_AddElement
  <2>4. /\ IsFiniteSet(ChargedTo(k, u, n)')
        /\ Cardinality(ChargedTo(k, u, n)') <= Cardinality(ChargedTo(k, u, n) \cup {o})
    BY <2>1, <2>3, FS_Subset
  <2>5. Cardinality(ChargedTo(k, u, n)) \in Nat /\ Cardinality(ChargedTo(k, u, n)') \in Nat
    BY <1>1, <2>4, FS_CardinalityType
  <2> QED
    BY <1>1, <1>2, <1>4, <2>3, <2>4, <2>5
<1>5. CASE ~(k = ko /\ u = uo /\ n = turn[k])
  <2>1. ChargedTo(k, u, n)' \in SUBSET ChargedTo(k, u, n)
    BY <1>3, <1>5 DEF ChargedTo
  <2> HIDE DEF ChargedTo
  <2>2. /\ IsFiniteSet(ChargedTo(k, u, n)')
        /\ Cardinality(ChargedTo(k, u, n)') <= Cardinality(ChargedTo(k, u, n))
    BY <1>1, <2>1, FS_Subset
  <2>3. Cardinality(ChargedTo(k, u, n)) \in Nat /\ Cardinality(ChargedTo(k, u, n)') \in Nat
    BY <1>1, <2>2, FS_CardinalityType
  <2> QED
    BY <1>1, <1>2, <1>5, <2>2, <2>3
<1> QED
  BY <1>4, <1>5

LEMMA OfferLedger ==
  ASSUME LedgerInv, NEW o \in Calls, NEW k \in Conversations, NEW u \in Members,
         NEW t \in Titles, NEW g \in Targets \ {"publish"}, Offer(o, k, u, t, g)
  PROVE  LedgerInv'
<1> DEFINE c == Collapsed(k, g)
<1>1. CaptureInv'
  BY OfferInv DEF LedgerInv
<1>2. c # "publish" /\ turn[k] \in Nat
  BY ThisAccount DEF Collapsed, TypeOK
<1>3. /\ Called(o, k, u, t, c, None) /\ pc[o] = "idle"
      /\ UNCHANGED <<askVars, turn, declines, dest, notice, entries, said, lost, crashes>>
      /\ \/ pc' = [pc EXCEPT ![o] = "offering"] /\ UNCHANGED verdict
            /\ offered' = [offered EXCEPT ![k][u] = @ + 1] /\ offered[k][u] < MaxProposals
         \/ /\ pc' = [pc EXCEPT ![o] = "done"] /\ UNCHANGED offered
            /\ \E v \in {"duplicate", "limited"} : verdict' = [verdict EXCEPT ![o] = v]
  BY DEF Offer, Called, chatVars, Goto, Finish, Verdict
<1> HIDE DEF c
<1>4. /\ job'[o].conv = k /\ job'[o].speaker = u /\ job'[o].turn = turn[k]
      /\ job'[o].target = c
  BY <1>3, ThisAccount DEF Called, TypeOK
<1>5. ASSUME NEW p \in Calls, p # o PROVE SameAccount(p)
  BY <1>3, <1>5, ThisAccount DEF SameAccount, SameJob, SameCall, SameEntry, askVars, Called, TypeOK
<1>6. verdict[o] = "none" /\ notice[o] = "none" /\ ~Charged(o)
  BY <1>3, IdleAccount
<1>7. \/ pc'[o] = "offering" /\ verdict'[o] = "none"
      \/ pc'[o] = "done" /\ verdict'[o] \in {"duplicate", "limited"} /\ UNCHANGED offered
  BY <1>3, <1>6, ThisAccount DEF TypeOK
<1>8. \A p \in Calls : AccountFits(p)'
  BY <1>2, <1>3, <1>4, <1>5, <1>6, <1>7, MadeAccount
<1>9. BudgetFits'
  <2>1. CASE offered' = [offered EXCEPT ![k][u] = @ + 1] /\ offered[k][u] < MaxProposals
    BY <1>3, <1>4, <1>5, <2>1, BudgetCharged
  <2>2. CASE pc'[o] = "done" /\ verdict'[o] \in {"duplicate", "limited"} /\ UNCHANGED offered
    <3>1. ~Charged(o)'
      BY <2>2 DEF Charged
    <3>2. \A p \in Calls : Charged(p)' => Charged(p) /\ job'[p] = job[p]
      BY <1>5, <3>1, SameAccountFits DEF SameAccount, SameJob
    <3> QED
      BY <1>3, <2>2, <3>2, BudgetKept
  <2> QED
    BY <1>3, <1>6, <2>1, <2>2, ThisAccount DEF TypeOK
<1> QED
  BY <1>1, <1>8, <1>9 DEF LedgerInv

LEMMA OfferPromotionLedger ==
  ASSUME LedgerInv, NEW o \in Calls, NEW e \in Calls, NEW k \in Conversations,
         OfferPromotion(o, k, e)
  PROVE  LedgerInv'
<1>1. CaptureInv'
  BY OfferPromotionInv DEF LedgerInv
<1>2. /\ Called(o, k, k, None, "publish", e) /\ pc[o] = "idle"
      /\ UNCHANGED <<askVars, turn, offered, declines, dest, entries, said, lost, crashes>>
      /\ \/ pc' = [pc EXCEPT ![o] = "publishing"] /\ UNCHANGED <<verdict, notice>>
         \/ /\ pc' = [pc EXCEPT ![o] = "speaking"] /\ verdict' = [verdict EXCEPT ![o] = "failed"]
            /\ notice' = [notice EXCEPT ![o] = "publishFailed"]
  BY DEF OfferPromotion, Called, chatVars, engineVars, Goto, Tell, Verdict
<1>3. job'[o].conv = k /\ job'[o].turn = turn[k] /\ job'[o].target = "publish" /\ turn[k] \in Nat
  BY <1>2, ThisAccount DEF Called, TypeOK
<1>4. ASSUME NEW p \in Calls, p # o PROVE SameAccount(p)
  BY <1>2, <1>4, ThisAccount DEF SameAccount, SameJob, SameCall, SameEntry, askVars, Called, TypeOK
<1>5. \/ pc'[o] = "publishing" /\ verdict'[o] = "none" /\ notice'[o] = "none"
      \/ pc'[o] = "speaking" /\ verdict'[o] = "failed" /\ notice'[o] = "publishFailed"
  BY <1>2, IdleAccount, ThisAccount DEF TypeOK
<1>6. \A p \in Calls : AccountFits(p)'
  BY <1>2, <1>3, <1>4, <1>5, MadeAccount
<1>7. ~Charged(o)'
  BY <1>3 DEF Charged
<1>8. \A p \in Calls : Charged(p)' => Charged(p) /\ job'[p] = job[p]
  BY <1>4, <1>7, SameAccountFits DEF SameAccount, SameJob
<1> QED
  BY <1>1, <1>2, <1>6, <1>8, BudgetKept DEF LedgerInv

\* What the transport does, and what a member taps, is about a call that has decided nothing yet.
LEMMA TransportLedger ==
  ASSUME LedgerInv, NEW o \in Calls, TransportStep(o) \/ TapStep(o)
  PROVE  LedgerInv'
<1>1. CaptureInv'
  BY TransportInv DEF LedgerInv
<1>2. UNCHANGED <<turn, offered, declines, job, dest, notice, verdict, pc, entries, said, lost>>
  BY DEF TransportStep, TapStep, captureVars, engineVars, callVars, chatVars
<1>3. ASSUME NEW p \in Calls, p # o PROVE SameAccount(p)
  <2>1. SameCall(p)
    BY <1>3, OthersStay, ThisAccount, ThisCall DEF TransportStep, TapStep
  <2> QED
    BY <1>2, <2>1 DEF SameAccount, SameJob, SameEntry
<1>4. /\ phase[o] \in {"sending", "waiting"} /\ (phase[o] = "waiting" => message[o] # "absent")
      /\ \/ phase'[o] = phase[o] /\ message'[o] = "open"
         \/ phase'[o] = "waiting" /\ message'[o] = message[o] /\ message[o] = "open"
         \/ phase'[o] = "returned" /\ result'[o].kind = "error" /\ message'[o] # "absent"
         \/ phase'[o] = "returned" /\ result'[o].kind = "error" /\ message'[o] = message[o]
         \/ phase'[o] = "returned" /\ result'[o].kind \in {"tap", "timeout"} /\ message'[o] # "absent"
      /\ phase'[o] # "returned" => result'[o] = result[o]
      /\ tapped'[o].kind = "tap" => tapped[o].kind = "tap" \/ message'[o] # "absent"
  <2>1. /\ AskTypeOK /\ AskInvOf(o) /\ RouteFits(o)
        /\ Without("timeout").kind = "timeout" /\ Without("error").kind = "error"
        /\ Without("none").kind = "none"
    BY ThisAccount, ThisCall DEF Without, Outcome
  <2>2. CASE TapStep(o)
    BY <2>1, <2>2 DEF TapStep, Tap, AskTypeOK, RouteFits
  <2>3. CASE AskPost(o) \/ AskSent(o) \/ AskUnsent(o)
    BY <2>1, <2>3 DEF AskPost, AskSent, AskUnsent, Return, AskTypeOK, RouteFits
  <2>4. ASSUME phase[o] = "waiting", Settle(o), UNCHANGED tapped, door[o].kind # "none"
        PROVE  /\ phase'[o] = "returned" /\ result'[o].kind = "tap" /\ message'[o] # "absent"
               /\ message[o] # "absent" /\ tapped'[o] = tapped[o]
    BY <2>1, <2>4 DEF Settle, Return, Retire, AskTypeOK, RouteFits, AskInvOf, BeforeReturn,
       TapWasAllowed
  <2>5. CASE AskAnswered(o)
    BY <2>4, <2>5 DEF AskAnswered
  <2>6. CASE AskTimeout(o)
    <3>1. CASE door[o].kind # "none"
      BY <2>4, <2>6, <3>1 DEF AskTimeout
    <3>2. CASE door[o].kind = "none"
      BY <2>1, <2>6, <3>2 DEF AskTimeout, Return, Retire, AskTypeOK, RouteFits
    <3> QED
      BY <3>1, <3>2
  <2>7. CASE AskStopped(o)
    BY <2>1, <2>7 DEF AskStopped, Return, Retire, AskTypeOK, RouteFits
  <2> QED
    BY <2>2, <2>3, <2>5, <2>6, <2>7 DEF TransportStep, AskStep, AskEnds
<1>5. /\ pc[o] \in {"asking", "announced", "publishing"} /\ verdict[o] = "none" /\ notice[o] = "none"
      /\ RouteFits(o) /\ (Charged(o)' <=> Charged(o))
  <2>1. pc[o] \in {"asking", "announced", "publishing"}
    BY <1>4, ThisAccount, ThisCall DEF CallInv, QuestionFits, Underway
  <2>2. verdict[o] = "none" /\ notice[o] = "none" /\ RouteFits(o)
    BY <2>1, Undecided, ThisAccount DEF Ended
  <2> QED
    BY <1>2, <2>1, <2>2 DEF Charged
<1>6. RouteFits(o)'
  BY <1>2, <1>4, <1>5 DEF RouteFits, Ended
<1>7. AttemptsFit(o)' /\ TellsOrLoses(o)' /\ RefusalFits(o)'
  BY <1>2, <1>5 DEF AttemptsFit, TellsOrLoses, RefusalFits, TurnedDown
<1>8. \A p \in Calls : Charged(p)' => Charged(p) /\ job'[p] = job[p]
  BY <1>2, <1>3, <1>5, SameAccountFits
<1>9. BudgetFits'
  BY <1>2, <1>8, BudgetKept
<1>10. ASSUME NEW p \in Calls PROVE AccountFits(p)'
  <2>1. ChargeFits(p)'
    BY <1>2, <1>8, ThisAccount DEF ChargeFits
  <2>2. CASE p = o
    BY <1>6, <1>7, <2>1, <2>2 DEF AccountFits
  <2>3. CASE p # o
    <3>1. Recorded(p)' <=> Recorded(p)
      BY <1>2 DEF Recorded
    <3> QED
      BY <1>2, <1>3, <2>1, <2>3, <3>1, SameAccountFits, ThisAccount DEF AccountFits, RefusalFits
  <2> QED
    BY <2>2, <2>3
<1> QED
  BY <1>1, <1>9, <1>10 DEF LedgerInv

LEMMA GoDownLedger == ASSUME LedgerInv, GoDown, UNCHANGED captureVars PROVE LedgerInv'
<1>1. CaptureInv'
  BY GoDownInv DEF LedgerInv
<1>2. UNCHANGED <<turn, offered, declines, job, dest, notice, verdict, pc, entries, said, lost,
                 phase, pending, door, message, result, tapped>>
  BY DEF captureVars, engineVars, callVars, chatVars, GoDown
<1>3. ASSUME NEW p \in Calls PROVE SameAccount(p) /\ (Recorded(p)' <=> Recorded(p))
  BY <1>2 DEF SameAccount, SameJob, SameEntry, SameCall, Recorded
<1>4. BudgetFits'
  BY <1>2, <1>3, SameAccountFits, BudgetKept
<1>5. ASSUME NEW p \in Calls PROVE AccountFits(p)'
  BY <1>2, <1>3, SameAccountFits, ThisAccount DEF AccountFits, RefusalFits, ChargeFits
<1> QED
  BY <1>1, <1>4, <1>5 DEF LedgerInv

\* BeginTurn starts a new count, under which nothing is charged yet, and forgets what has aged out.
LEMMA BeginTurnLedger == ASSUME LedgerInv, NEW k \in Conversations, BeginTurn(k) PROVE LedgerInv'
<1>1. CaptureInv'
  BY BeginTurnInv DEF LedgerInv
<1>2. /\ UNCHANGED <<askVars, job, dest, notice, verdict, pc, entries, said, lost>>
      /\ turn' = [turn EXCEPT ![k] = @ + 1]
      /\ offered' = [offered EXCEPT ![k] = [m \in Members |-> 0]]
      /\ declines' = [declines EXCEPT ![k] = {d \in @ : turn[k] + 1 - job[d].turn < DeclineWindow}]
  BY DEF BeginTurn, callVars, chatVars
<1>3. ASSUME NEW p \in Calls PROVE SameAccount(p)
  BY <1>2 DEF SameAccount, SameJob, SameEntry, SameCall, askVars
<1>4. ASSUME NEW p \in Calls, Recorded(p), pc[p] # "idle" PROVE Recorded(p)'
  <2>1. /\ job[p].conv \in Conversations /\ job[p].turn \in Nat /\ job'[p] = job[p]
        /\ turn[k] \in Nat /\ turn[job[p].conv] \in Nat /\ DeclineWindow \in Nat
    BY <1>2, <1>4, MadeCall, ThisAccount, CaptureAssumption DEF TypeOK
  <2>2. CASE job[p].conv # k
    BY <1>2, <1>4, <2>1, <2>2, ThisAccount DEF Recorded, TypeOK
  <2>3. CASE job[p].conv = k
    <3>1. turn'[k] = turn[k] + 1
      BY <1>2, ThisAccount DEF TypeOK
    <3>2. p \in declines[k] => p \in declines'[k] \/ ~(turn[k] + 1 - job[p].turn < DeclineWindow)
      BY <1>2, ThisAccount DEF TypeOK
    <3> QED
      BY <1>4, <2>1, <2>3, <3>1, <3>2 DEF Recorded
  <2> QED
    BY <2>2, <2>3
<1>5. ASSUME NEW p \in Calls PROVE AccountFits(p)'
  <2>1. RouteFits(p)' /\ AttemptsFit(p)' /\ TellsOrLoses(p)'
    BY <1>3, SameAccountFits, ThisAccount
  <2>2. RefusalFits(p)'
    <3>1. TurnedDown(p)' \/ pc'[p] = "deleting" => TurnedDown(p) \/ pc[p] = "deleting"
      BY <1>2, <1>3, SameAccountFits
    <3> QED
      BY <1>4, <3>1, IdleAccount, ThisAccount DEF RefusalFits
  <2>3. ChargeFits(p)'
    <3> SUFFICES ASSUME Charged(p) PROVE job'[p].turn <= turn'[job'[p].conv]
      BY <1>3, SameAccountFits DEF ChargeFits
    <3>1. /\ job[p].conv \in Conversations /\ job[p].turn \in Nat /\ turn[job[p].conv] \in Nat
          /\ job[p].turn <= turn[job[p].conv]
      BY MadeCall, IdleAccount, ThisAccount DEF ChargeFits, TypeOK
    <3> QED
      BY <1>2, <3>1, ThisAccount DEF TypeOK
  <2> QED
    BY <2>1, <2>2, <2>3 DEF AccountFits
<1>6. BudgetFits'
  <2> SUFFICES ASSUME NEW j \in Conversations, NEW u \in Members, NEW n \in Nat
               PROVE  /\ offered'[j][u] <= MaxProposals
                      /\ IsFiniteSet(ChargedTo(j, u, n)')
                      /\ Cardinality(ChargedTo(j, u, n)')
                           <= IF n = turn'[j] THEN offered'[j][u] ELSE MaxProposals
    BY DEF BudgetFits
  <2>1. ChargedTo(j, u, n)' = ChargedTo(j, u, n)
    BY <1>2, <1>3, SameAccountFits DEF ChargedTo
  <2>2. /\ offered[j][u] \in Nat /\ MaxProposals \in Nat \ {0} /\ turn[j] \in Nat
        /\ IsFiniteSet(ChargedTo(j, u, n)) /\ offered[j][u] <= MaxProposals
        /\ Cardinality(ChargedTo(j, u, n)) <= IF n = turn[j] THEN offered[j][u] ELSE MaxProposals
    <3>1. offered[j][u] \in Nat /\ MaxProposals \in Nat \ {0} /\ turn[j] \in Nat
      <4>1. offered \in [Conversations -> [Members -> Nat]] /\ turn \in [Conversations -> 0..MaxTurns]
        BY DEF LedgerInv, CaptureInv, TypeOK
      <4> QED
        BY <4>1, CaptureAssumption
    <3>2. BudgetFits
      BY DEF LedgerInv
    <3> QED
      BY <3>1, <3>2 DEF BudgetFits
  <2>3. CASE j = k
    <3>1. offered'[j][u] = 0 /\ turn'[j] = turn[j] + 1
      <4>1. DOMAIN offered = Conversations /\ DOMAIN turn = Conversations
        BY DEF LedgerInv, CaptureInv, TypeOK
      <4> QED
        BY <1>2, <2>3, <4>1
    <3>2. n = turn[j] + 1 => ChargedTo(j, u, n) = {}
      <4> SUFFICES ASSUME n = turn[j] + 1, NEW p \in Calls, Charged(p), job[p].conv = j,
                          job[p].turn = n
                   PROVE  FALSE
        BY DEF ChargedTo
      <4>1. job[p].turn <= turn[job[p].conv]
        BY ThisAccount DEF ChargeFits
      <4> QED
        BY <2>2, <4>1
    <3>3. Cardinality(ChargedTo(j, u, n)) \in Nat
      BY <2>2, FS_CardinalityType
    <3> HIDE DEF ChargedTo
    <3>4. n = turn[j] + 1 => Cardinality(ChargedTo(j, u, n)) = 0
      BY <3>2, FS_EmptySet
    <3> QED
      BY <2>1, <2>2, <3>1, <3>3, <3>4
  <2>4. CASE j # k
    <3>1. offered'[j][u] = offered[j][u] /\ turn'[j] = turn[j]
      BY <1>2, <2>4, ThisAccount DEF TypeOK
    <3> HIDE DEF ChargedTo
    <3> QED
      BY <2>1, <2>2, <3>1
  <2> QED
    BY <2>3, <2>4
<1> QED
  BY <1>1, <1>5, <1>6 DEF LedgerInv

\* Nothing is charged, and nothing is turned down, in a process that has just begun.
LEMMA NothingCharged ==
  ASSUME \A p \in Calls : ~Charged(p),
         \A k \in Conversations, u \in Members : offered[k][u] = 0
  PROVE  BudgetFits
<1>1. \A k \in Conversations, u \in Members, n \in Nat : ChargedTo(k, u, n) = {}
  BY DEF ChargedTo
<1> QED
  BY <1>1, FS_EmptySet, CaptureAssumption DEF BudgetFits

\* A crash forgets every charge and every refusal together.
LEMMA CrashLedger == ASSUME LedgerInv, Crash PROVE LedgerInv'
<1>1. CaptureInv'
  BY CrashInv DEF LedgerInv
<1>2. UNCHANGED <<message, result, tapped, job, dest, notice, entries, said, lost>>
  BY DEF Crash, chatVars
<1>3. ASSUME NEW p \in Calls
      PROVE  /\ pc'[p] = IF pc[p] \in {"idle", "done"} THEN pc[p] ELSE "dead"
             /\ verdict'[p] = IF pc[p] = "idle" THEN "none" ELSE "forgotten"
             /\ phase'[p] = IF phase[p] = "idle" THEN "idle" ELSE "returned"
  BY IdleAccount DEF Crash
<1>4. ASSUME NEW p \in Calls PROVE ~Charged(p)' /\ ~TurnedDown(p)'
  <2>1. CASE pc[p] = "idle"
    BY <1>2, <1>3, <2>1, IdleAccount DEF Charged, TurnedDown
  <2>2. CASE pc[p] # "idle"
    BY <1>3, <2>2 DEF Charged, TurnedDown
  <2> QED
    BY <2>1, <2>2
<1>5. ASSUME NEW p \in Calls PROVE AccountFits(p)'
  <2>1. /\ WritesDirectly(p)' <=> WritesDirectly(p)
        /\ InMemory(p)' <=> InMemory(p)
    BY <1>2, SameShape DEF InMemory
  <2>2. Told(p)' <=> Told(p)
    BY <1>2, <2>1 DEF Told
  <2>3. RouteFits(p)'
    <3>1. phase'[p] = "returned" /\ result'[p].kind = "none" => pc'[p] = "dead"
      <4> SUFFICES ASSUME phase[p] # "idle", result[p].kind = "none" PROVE pc[p] \notin {"idle", "done"}
        BY <1>2, <1>3
      <4>1. phase[p] \in {"returned", "sending", "waiting"}
        BY ThisAccount, ThisCall DEF AskTypeOK, Phases
      <4> QED
        BY <4>1, ThisAccount, ThisCall DEF RouteFits, CallInv, JobFits, QuestionFits, Underway
    <3> QED
      BY <1>2, <1>3, <3>1, ThisAccount DEF RouteFits, Ended
  <2>4. AttemptsFit(p)'
    BY <1>3 DEF AttemptsFit
  <2>5. TellsOrLoses(p)'
    BY <1>2, <1>3, <2>1, <2>2, ThisAccount DEF TellsOrLoses, TypeOK
  <2>6. RefusalFits(p)' /\ ChargeFits(p)'
    BY <1>3, <1>4 DEF RefusalFits, ChargeFits
  <2> QED
    BY <2>3, <2>4, <2>5, <2>6 DEF AccountFits
<1>6. BudgetFits'
  <2>1. \A k \in Conversations, u \in Members : offered'[k][u] = 0
    BY DEF Crash
  <2>2. \A k \in Conversations, u \in Members, n \in Nat : ChargedTo(k, u, n)' = {}
    BY <1>4 DEF ChargedTo
  <2> QED
    BY <2>1, <2>2, FS_EmptySet, CaptureAssumption DEF BudgetFits
<1> QED
  BY <1>1, <1>5, <1>6 DEF LedgerInv

LEMMA InitLedger == Init => LedgerInv
<1> SUFFICES ASSUME Init PROVE LedgerInv
  OBVIOUS
<1>1. CaptureInv
  BY InitInv
<1>2. ASSUME NEW p \in Calls
      PROVE  /\ pc[p] = "idle" /\ phase[p] = "idle" /\ verdict[p] = "none" /\ notice[p] = "none"
             /\ tapped[p].kind = "none" /\ result[p].kind = "none"
  BY DEF Init, AskInit, Without, Outcome
<1>3. ASSUME NEW p \in Calls PROVE AccountFits(p) /\ ~Charged(p)
  BY <1>2 DEF AccountFits, RouteFits, AttemptsFit, TellsOrLoses, RefusalFits, ChargeFits, TurnedDown,
     Charged, Ended
<1>4. BudgetFits
  BY <1>3, NothingCharged DEF Init
<1> QED
  BY <1>1, <1>3, <1>4 DEF LedgerInv

LEMMA NextLedger == LedgerInv /\ [Next]_vars => LedgerInv'
<1> SUFFICES ASSUME LedgerInv, [Next]_vars PROVE LedgerInv'
  OBVIOUS
<1>1. CASE UNCHANGED vars
  <2>1. CaptureInv'
    BY <1>1, NextInv DEF LedgerInv
  <2>2. UNCHANGED <<turn, offered, declines, job, dest, notice, verdict, pc, entries, said, lost,
                   phase, pending, door, message, result, tapped>>
    BY <1>1 DEF vars, askVars, captureVars, engineVars, callVars, chatVars
  <2>3. ASSUME NEW p \in Calls PROVE SameAccount(p) /\ (Recorded(p)' <=> Recorded(p))
    BY <2>2 DEF SameAccount, SameJob, SameEntry, SameCall, Recorded
  <2>4. BudgetFits'
    BY <2>2, <2>3, SameAccountFits, BudgetKept
  <2>5. ASSUME NEW p \in Calls PROVE AccountFits(p)'
    BY <2>2, <2>3, SameAccountFits, ThisAccount DEF AccountFits, RefusalFits, ChargeFits
  <2> QED
    BY <2>1, <2>4, <2>5 DEF LedgerInv
<1>2. CASE Next
  BY <1>2, BeginTurnLedger, OfferLedger, OfferPromotionLedger, CallStepLedger, TransportLedger,
     GoDownLedger, CrashLedger DEF Next
<1> QED
  BY <1>1, <1>2

-----------------------------------------------------------------------------
\* Every reachable state satisfies the ledger's invariant.
THEOREM LedgerInvariant == Spec => []LedgerInv
BY InitLedger, NextLedger, PTL DEF Spec

\* No turn puts more than MaxProposals proposals to one speaker (engine.go, Offer and refundOffer):
\* a question that fails late gives its place back to its own turn or to none.
THEOREM TheBudgetHolds == Spec => []WithinBudget
<1>1. LedgerInv => WithinBudget
  <2> SUFFICES ASSUME LedgerInv, NEW k \in Conversations, NEW u \in Members, NEW n \in 1..MaxTurns
               PROVE  Cardinality(ChargedTo(k, u, n)) <= MaxProposals
    BY DEF WithinBudget
  <2>1. /\ offered[k][u] \in Nat /\ MaxProposals \in Nat /\ offered[k][u] <= MaxProposals
        /\ n \in Nat /\ IsFiniteSet(ChargedTo(k, u, n))
        /\ Cardinality(ChargedTo(k, u, n)) <= IF n = turn[k] THEN offered[k][u] ELSE MaxProposals
    <3>1. offered[k][u] \in Nat /\ MaxProposals \in Nat /\ n \in Nat
      <4>1. offered \in [Conversations -> [Members -> Nat]]
        BY DEF LedgerInv, CaptureInv, TypeOK
      <4> QED
        BY <4>1, CaptureAssumption
    <3>2. BudgetFits
      BY DEF LedgerInv
    <3> QED
      BY <3>1, <3>2 DEF BudgetFits
  <2>2. Cardinality(ChargedTo(k, u, n)) \in Nat
    BY <2>1, FS_CardinalityType
  <2> HIDE DEF ChargedTo
  <2> QED
    BY <2>1, <2>2
<1> QED
  BY <1>1, LedgerInvariant, PTL

\* A finished call leaves an entry its member was never told of only if every message about it
\* was lost.
THEOREM NobodyIsSilent == Spec => []SilentOnlyIfUndeliverable
<1>1. LedgerInv => SilentOnlyIfUndeliverable
  BY ThisAccount DEF SilentOnlyIfUndeliverable, TellsOrLoses
<1> QED
  BY <1>1, LedgerInvariant, PTL

\* Only Offer charges a call, and only for a title that was not turned down within the window.
THEOREM ARefusalHolds == Spec => TurnedDownStaysDown
<1> DEFINE StandsDown ==
      \A d, o \in Calls :
        /\ TurnedDown(d) /\ pc[o] = "idle" /\ pc'[o] = "offering"
        /\ job'[o].conv = job[d].conv /\ job'[o].speaker = job[d].speaker
        /\ job'[o].title = job[d].title
        => job'[o].turn - job[d].turn >= DeclineWindow
<1>1. LedgerInv /\ [Next]_vars => [StandsDown]_vars
  <2> SUFFICES ASSUME LedgerInv, Next, NEW d \in Calls, NEW o \in Calls,
                      TurnedDown(d), pc[o] = "idle", pc'[o] = "offering",
                      job'[o].conv = job[d].conv, job'[o].speaker = job[d].speaker,
                      job'[o].title = job[d].title
               PROVE  job'[o].turn - job[d].turn >= DeclineWindow
    OBVIOUS
  <2>1. ASSUME NEW q \in Calls, pc' = pc \/ CallStep(q) \/ TransportStep(q) \/ TapStep(q) PROVE FALSE
    <3>1. CASE CallStep(q)
      <4>1. q # o
        BY <3>1, CallStepFrame
      <4> QED
        BY <3>1, <4>1, OthersKept, ThisAccount DEF SameJob
    <3>2. CASE ~CallStep(q)
      BY <2>1, <3>2 DEF TransportStep, TapStep, captureVars
    <3> QED
      BY <3>1, <3>2
  <2>2. ASSUME NEW q \in Calls, NEW e \in Calls, NEW k \in Conversations, OfferPromotion(q, k, e)
        PROVE  FALSE
    BY <2>2, ThisAccount DEF OfferPromotion, Goto, Tell, TypeOK
  <2>3. PICK k \in Conversations, u \in Members, t \in Titles, g \in Targets : Offer(o, k, u, t, g)
    <3>1. ~(\E k \in Conversations : BeginTurn(k)) /\ ~Crash /\ ~(GoDown /\ UNCHANGED captureVars)
      BY DEF BeginTurn, Crash, captureVars
    <3>2. ASSUME NEW q \in Calls, NEW k \in Conversations, NEW u \in Members, NEW t \in Titles,
                 NEW g \in Targets, Offer(q, k, u, t, g)
          PROVE  q = o
      BY <3>2, ThisAccount DEF Offer, Goto, Finish, TypeOK
    <3> QED
      BY <2>1, <2>2, <3>1, <3>2 DEF Next
  <2>4. /\ job'[o].conv = k /\ job'[o].speaker = u /\ job'[o].title = t /\ job'[o].turn = turn[k]
        /\ ~RecentlyDeclined(k, u, t)
    <3>1. job'[o] = [conv |-> k, speaker |-> u, title |-> t, target |-> Collapsed(k, g),
                     turn |-> turn[k], source |-> None]
      BY <2>3, ThisAccount DEF Offer, Called, TypeOK
    <3>2. ~RecentlyDeclined(k, u, t)
      BY <2>3, ThisAccount DEF Offer, Goto, Finish, TypeOK
    <3> QED
      BY <3>1, <3>2
  <2>5. Recorded(d) /\ job[d].turn \in Nat /\ turn[k] \in Nat /\ DeclineWindow \in Nat
    <3>1. Recorded(d) /\ pc[d] # "idle"
      BY IdleAccount, ThisAccount DEF RefusalFits
    <3> QED
      BY <3>1, MadeCall, ThisAccount, CaptureAssumption DEF TypeOK
  <2>6. CASE d \in declines[k]
    <3>1. ~(turn[k] - job[d].turn < DeclineWindow)
      BY <2>4, <2>6 DEF RecentlyDeclined
    <3> QED
      BY <2>4, <2>5, <3>1
  <2>7. CASE turn[k] - job[d].turn >= DeclineWindow
    BY <2>4, <2>7
  <2> QED
    BY <2>4, <2>5, <2>6, <2>7 DEF Recorded
<1> QED
  BY <1>1, LedgerInvariant, PTL DEF Spec, TurnedDownStaysDown

=============================================================================
