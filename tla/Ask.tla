-------------------------------- MODULE Ask --------------------------------
(***************************************************************************)
(* One question with buttons, as the Telegram transport asks it: Ask blocks *)
(* its caller until the asked member taps a button, the question times out, *)
(* or the transport closes or the caller's context ends.  Taps arrive on    *)
(* another goroutine (onCallback), so a tap, the timer and a shutdown race  *)
(* for the one outcome that pendingQuestion.once lets through.              *)
(*                                                                         *)
(* Times, tokens and message ids are abstracted away: a call is its own     *)
(* token, and the timer may fire whenever the question waits.               *)
(***************************************************************************)
CONSTANTS
  Calls,     \* the calls of Ask; each puts at most one question
  Users,     \* everyone who can see the buttons
  Choices,   \* the choice ids a button can carry
  NoUser,    \* the user of an outcome that is not a tap
  NoChoice   \* the choice of an outcome that is not a tap

ASSUME AskAssumption == NoUser \notin Users /\ NoChoice \notin Choices

VARIABLES
  phase,     \* how far each call of Ask has come
  pending,   \* what its entry of Telegram.pending allows: who, and which choices
  door,      \* pendingQuestion.once and done: the tap that was let through
  message,   \* the question's message as the chat shows it
  result,    \* what the call returned
  tapped,    \* history: the asked user's own tap while the question stood open
  down       \* the transport is closed, or the callers' context is done

askVars == <<phase, pending, door, message, result, tapped, down>>

Phases == {"idle", "sending", "waiting", "returned"}

\* "open" is the question with its keyboard still on; the others are rewrites
\* that took the keyboard with them.
Messages == {"absent", "open", "answered", "expired", "withdrawn", "struck"}

Outcome(kind, u, c) == [kind |-> kind, user |-> u, choice |-> c]
Without(kind) == Outcome(kind, NoUser, NoChoice)
Outcomes == [kind : {"none", "tap", "timeout", "error"},
             user : Users \cup {NoUser}, choice : Choices \cup {NoChoice}]

NotPending == [user |-> NoUser, choices |-> {}]

AskTypeOK ==
  /\ phase \in [Calls -> Phases]
  /\ pending \in [Calls -> [user : Users \cup {NoUser}, choices : SUBSET Choices]]
  /\ door \in [Calls -> Outcomes]
  /\ message \in [Calls -> Messages]
  /\ result \in [Calls -> Outcomes]
  /\ tapped \in [Calls -> Outcomes]
  /\ down \in BOOLEAN

AskInit ==
  /\ phase = [q \in Calls |-> "idle"]
  /\ pending = [q \in Calls |-> NotPending]
  /\ door = [q \in Calls |-> Without("none")]
  /\ message = [q \in Calls |-> "absent"]
  /\ result = [q \in Calls |-> Without("none")]
  /\ tapped = [q \in Calls |-> Without("none")]
  /\ down = FALSE

-----------------------------------------------------------------------------
\* Ask returns r: the door is shut to later taps, and the deferred forget takes the
\* token out of the pending map.
Return(q, r) ==
  /\ phase' = [phase EXCEPT ![q] = "returned"]
  /\ pending' = [pending EXCEPT ![q] = NotPending]
  /\ door' = [door EXCEPT ![q] = Without("none")]
  /\ result' = [result EXCEPT ![q] = r]

\* retire: the edit that replaces the buttons by the outcome is best effort, so
\* the message may as well stay as it is.
Retire(q, m) ==
  \/ message' = [message EXCEPT ![q] = m]
  \/ UNCHANGED message

\* settle: the tap is acknowledged, the message rewritten, the answer returned.
Settle(q) ==
  /\ Return(q, door[q])
  /\ Retire(q, "answered")

\* Ask is called: on a closed transport it fails at once, otherwise the question
\* is registered before its message is sent, so that no tap can be too early.
AskStart(q, u, choices) ==
  /\ phase[q] = "idle"
  /\ IF down
       THEN Return(q, Without("error"))
       ELSE /\ phase' = [phase EXCEPT ![q] = "sending"]
            /\ pending' = [pending EXCEPT ![q] = [user |-> u, choices |-> choices]]
            /\ UNCHANGED <<door, result>>
  /\ UNCHANGED <<message, tapped, down>>

\* Telegram shows the message: its buttons work from now on, although the reply
\* to sendMessage is still on its way.
AskPost(q) ==
  /\ phase[q] = "sending" /\ message[q] = "absent"
  /\ message' = [message EXCEPT ![q] = "open"]
  /\ UNCHANGED <<phase, pending, door, result, tapped, down>>

\* sendText returns the message: Ask goes on to wait.
AskSent(q) ==
  /\ phase[q] = "sending" /\ message[q] = "open"
  /\ phase' = [phase EXCEPT ![q] = "waiting"]
  /\ UNCHANGED <<pending, door, message, result, tapped, down>>

\* sendText fails: the request or the reply to it was lost, and the message may
\* be in the chat all the same.
AskUnsent(q) ==
  /\ phase[q] = "sending"
  /\ Return(q, Without("error"))
  /\ UNCHANGED <<message, tapped, down>>

\* A mutant of Tap: onCallback without the filter on the allowed user.
TapByAnyone(q, u, c) ==
  /\ message[q] = "open" /\ phase[q] \in {"sending", "waiting"}
  /\ c \in pending[q].choices
  /\ door[q].kind = "none"
  /\ door' = [door EXCEPT ![q] = Outcome("tap", u, c)]
  /\ tapped' = [tapped EXCEPT ![q] =
                IF u = pending[q].user THEN Outcome("tap", u, c) ELSE @]
  /\ UNCHANGED <<phase, pending, message, result, down>>

\* onCallback: user u taps button c of a question that is pending.  Everyone but
\* the asked user is ignored, and only the first outcome enters the door.  A tap
\* on a question that is no longer pending finds no entry and changes nothing.
Tap(q, u, c) ==
  /\ message[q] = "open" /\ phase[q] \in {"sending", "waiting"}
  /\ c \in pending[q].choices
  /\ u = pending[q].user
  /\ door[q].kind = "none"
  /\ door' = [door EXCEPT ![q] = Outcome("tap", u, c)]
  /\ tapped' = [tapped EXCEPT ![q] =
                IF u = pending[q].user THEN Outcome("tap", u, c) ELSE @]
  /\ UNCHANGED <<phase, pending, message, result, down>>

\* The select takes the tap out of the door.
AskAnswered(q) ==
  /\ phase[q] = "waiting" /\ door[q].kind = "tap"
  /\ Settle(q)
  /\ UNCHANGED <<tapped, down>>

\* A mutant of AskTimeout: a tap that won the race is honoured, but the message is
\* rewritten as for a question nobody answered.
TimeoutRewritesAnyway(q) ==
  /\ phase[q] = "waiting"
  /\ Return(q, IF door[q].kind = "none" THEN Without("timeout") ELSE door[q])
  /\ Retire(q, "expired")
  /\ UNCHANGED <<tapped, down>>

\* A mutant of AskTimeout: a question without a timeout never gets the default one.
TimeoutOnlyIfTapped(q) ==
  /\ phase[q] = "waiting" /\ door[q].kind # "none"
  /\ Settle(q)
  /\ UNCHANGED <<tapped, down>>

\* The timer fires.  If a tap is in the door already it is honoured; otherwise
\* the question has timed out.
AskTimeout(q) ==
  /\ phase[q] = "waiting"
  /\ \/ door[q].kind # "none" /\ Settle(q)
     \/ /\ door[q].kind = "none"
        /\ Return(q, Without("timeout"))
        /\ Retire(q, "expired")
  /\ UNCHANGED <<tapped, down>>

\* The transport closes, or the context is done: the call fails whatever is in
\* the door, and the message says the question was withdrawn.
AskStopped(q) ==
  /\ phase[q] = "waiting" /\ down
  /\ Return(q, Without("error"))
  /\ Retire(q, "withdrawn")
  /\ UNCHANGED <<tapped, down>>

\* Close, or the end of the context every call was made with.
GoDown ==
  /\ ~down
  /\ down' = TRUE
  /\ UNCHANGED <<phase, pending, door, message, result, tapped>>

\* What Ask's select takes: a tap, the timer, or the shutdown.
AskEnds(q) == AskAnswered(q) \/ AskTimeout(q) \/ AskStopped(q)

\* What the transport does of itself for one call that is under way.
AskStep(q) ==
  \/ AskPost(q)
  \/ AskSent(q)
  \/ AskUnsent(q)
  \/ AskEnds(q)

-----------------------------------------------------------------------------
\* The transport on its own: callers ask what they like, whenever they like.
AskNext ==
  \/ \E q \in Calls, u \in Users, choices \in (SUBSET Choices) \ {{}} :
       AskStart(q, u, choices)
  \/ \E q \in Calls, u \in Users, c \in Choices : Tap(q, u, c)
  \/ \E q \in Calls : AskStep(q)
  \/ GoDown

\* The HTTP client bounds every request, and the select takes a branch that is ready,
\* which the timer always is in the end; nobody has to tap or to close the transport.
AskFairness ==
  \A q \in Calls : WF_askVars(AskSent(q) \/ AskUnsent(q)) /\ WF_askVars(AskEnds(q))

AskSpec == AskInit /\ [][AskNext]_askVars /\ AskFairness

-----------------------------------------------------------------------------
\* A decision the asked user got in before the deadline is never reported as a
\* timeout, although the timer and the tap race (the timer branch of Ask), and
\* an answer is always what that user tapped while the question stood open.
AnswerIsTheAskedUsers ==
  \A q \in Calls :
    /\ result[q].kind = "timeout" => tapped[q].kind = "none"
    /\ result[q].kind = "tap" => result[q] = tapped[q]

\* What the chat says about a question agrees with what its caller was told: no
\* message reads as expired over an answer that was taken, or as answered over
\* one that was thrown away.
MessageAgreesWithResult ==
  \A q \in Calls :
    /\ message[q] = "answered" => result[q].kind = "tap"
    /\ message[q] = "expired" => result[q].kind = "timeout"
    /\ message[q] = "withdrawn" => result[q].kind = "error"
=============================================================================
