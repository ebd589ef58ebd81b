# Kenward in TLA+

TLA+ modules that model the parts of kenward where steps of several actors can
meet, TLC configurations that check them on small instances, and TLAPS proofs of
the properties that matter most for every value of the constants.

Every definition is translated from the Go source. `PROJECT.json` maps each one to
the lines it stands for, lists what each run checks, and gives for each checked
property a plausible bug (a *mutant*, defined beside the code's own action) that
breaks it.

## The system

kenward is a household's assistant. Each member has a conversation with it over
Telegram, and the household may have a group chat. A node runs one *unit* per
conversation, either all in one process (`supervisor/runner.go`) or each in a pod of
its own (`supervisor/isolated.go`). A unit answers messages with a language model,
offers to write notes to the household's memory (the external *lore* library), and
sends reminders.

| Part | State it keeps | Operations | What is hard |
|---|---|---|---|
| Telegram questions (`transport/telegram.go`) | pending questions, each with a one-place channel | `Ask`, a tap, timeout, `Close` | the tap, the timer and the shutdown race; a send may be lost or half done |
| Mux and queues (`transport/mux.go`, `queue.go`) | views in order, a bounded queue each | route, view, close | drops at the cap; a view closing under a message |
| Capture engine (`capture/capture.go`) | per conversation: turn, budget per speaker, refusals | `BeginTurn`, `Offer`, `OfferPromotion` | calls overlap turns; partial failure of write, announcement, undo; crash |
| Memory (`memory/`) | lore's entries per space | put, share, delete, search | misfiled or failed writes |
| Assistant turn (`assistant/`) | turn slot, waiters, history ring, last reset | `Handle`: admit, turn, follow-up | one turn at a time, bounded queue, follow-up outside the slot |
| Reminders (`remind/`) | reminders and the day's ledger, in memory and in a file | set, cancel, the clock's pass, send | claims saved before sending; restarts; a node that is off |
| Conversation (`scope/`, `assistant/prompt.go`, `budget.go`, `remember.go`) | none of its own: a turn's scope, findings and prompt | resolve, retrieve, assemble, complete, follow up | entries move while they are searched; a budget that drops; a completion that says what it did not do |
| Routing (`routing/`) | cooldown per endpoint, probe cache | `Complete` | concurrent failures and successes, stale probes |
| Sessions (`session/`) | unlocked keys, failed attempts | unlock, lock, expire, provision | slow derivations outside the lock |
| Enrolment (`enrol/`, `config/binder.go`) | claim codes, state file, tutorial | claim, bind, tutorial, revoke | two processes write the same files; consume, then bind; host and pod share nothing but copies |
| Supervisors (`supervisor/`) | workers, draining, clocks, pods | start, drain, restart, roll | stop races start; order of the drain; a roll that stops half-way |
| Configuration and secrets (`config/`) | kenward.yaml, and where each secret comes from | validate, resolve, provide a pod | three judges of one file: the host, the pod, the doctor |
| Setup and dashboard (`setup/`, `dashboard/`) | kenward.yaml, .env, the account, browser sessions | wizards, add a member, settings; token, login, password | several writers of one file without a lock; check, derive slowly, then act |
| Household link (`link/`, `memory/grant.go`) | each pod's store, who was admitted | make a home and its spaces, join, grant | a process dies between any two steps; answers lost; volumes replaced |
| Updater (`updater/`) | the update in flight | check, drain, apply, resume | failure after a drain |

A message comes from the transport through the mux to a unit. The unit's turn holds
its slot while the model answers, sends the reply, and releases the slot before its one
follow-up runs: a proposal to remember something, or an offer to publish a private
entry. The follow-up calls the capture engine, which asks through the same transport
and writes to memory. Reminders share nothing with the turn but the store and the send.

What makes each part correct:

- *Questions*: only the asked member's tap is an answer, the rewritten message agrees
  with what the caller was told, and every call returns.
- *Capture*: nothing is kept where its member did not agree to it; the chat never
  contradicts the memory; a refusal holds for its window; a turn's budget holds
  although questions outlive turns.
- *Reminders*: never twice, never more than the day's cap, never after a
  cancellation, and a one-off goes out however late.
- *Turn*: one turn at a time, no message silently lost, nothing mixed into the history
  of another turn. *Conversation*: nobody is shown another's memory, and what is said of what
  was read and saved is so. *Routing*: a refusal by content is never retried elsewhere; an
  endpoint that is down cools. *Sessions*: no key after lock. *Enrolment*: one account
  per member, a revocation stays. *Supervisors*: a stop always ends, and the reply of
  a turn it waited for is delivered; a restart brings each pod the files it lacks. *Secrets*: a
  pod the host makes accepts its own configuration. *Setup*: one household, and no space twice.
  *Dashboard*: one account, and no session that outlives what it rests on. *Link*: no unit
  serves without memory, and the household's space is one.

`PROJECT.json` lists the hazards one by one, each at the line where it bites, with the
properties that cover it or the reason why none does.

## What is modelled

### `Ask`: one bot's questions

`phase` is where each call of `Telegram.Ask` stands (idle, sending its message, waiting,
returned). `pending` is its entry in the map of pending questions: who may answer, and
with which buttons. `door` is the one outcome that `pendingQuestion.once` lets into the
channel, `message` is what the chat shows, and `tapped` is a history of the asked
member's tap. `Tap` is
`onCallback` with `deliver`; `AskAnswered`, `AskTimeout` and `AskStopped` are the three
branches of the select, which may pick the timer although a tap was delivered. A send
that reports an error may still have been posted (`AskPost`, then `AskUnsent`).
Every edit is best effort. Messages are the kind of text, not text.

### `Capture`: the engine, with `Ask` and the memory

`Capture` extends `Ask`: a call of the engine is a question of the transport. `pc` is the
step the call takes next; `turn`, `offered` and `declines` are the fields of
`scopeState`; `entries` is the memory; `said` and `lost` are the notices the member got
or did not. `BeginTurn`, `Offer` and `OfferPromotion` are the engine's entry points;
each of their branches is an action (`OfferDeclined`, `Put`, `PutMisfiled`,
`AnnounceFails`, `Undo`, `DeleteFails`, `Share`, ...). A critical section of the engine
is one action; a call of the transport or of the store is a step of its own, so calls of
several turns interleave there. `Crash` empties the engine and the transport and keeps
the memory. Left out: the caps of 32 refusals and 32 conversations, the wording, and
aliases of titles.

### `Consent`: what the engine promises

The abstract specification: an entry is kept only where its member agreed, or in their
own space if they chose to be asked afterwards; it is taken back only from there, and
only when they asked. It knows nothing of turns, messages or failures.
`Capture!Promise` is its instance under the refinement mapping, and `KeepsItsPromise`
is `Promise!Spec`.

### `CaptureWindow`: what the documents say

Two statements of the documents that the code does not keep; see *Disagreements*.

### `Reminders`: the store, its file and the clock

`store` is `Store.data`, `file` what the last save wrote, `outbox` the fires the
clock's pass has claimed and not yet sent. `Add` and `Cancel` are the store's; `Pass` is
`Store.Due`, a claim saved before it is handed over; `Send` is one turn of the loop in
`Clock.pass`; `Stop` and `Start` are a process that ends anywhere and the next
one's `Open`. A save fails as a whole, since the file is replaced by a rename.
Time is a number of moments; `Latest` computes at once what `advance` walks to. Left
out: daylight saving, a clock that goes backwards, a file that cannot be read.

### `Turn`: one unit's turns

`at` is where each message's goroutine is in `Assistant.Handle`, `slot` who holds the
turn's slot, `waiters` who is counted as waiting for it, `ring` the history and `since`
the boundary of its last reset. `Enter`, `Drop`, `Queue` and `Admit` are how a message
gets the slot; then `Locked`, `Reset` with `ResetNotice`, `Complete`, `Reply` follow the order
of the turn. `plan` is a completion as the turn acts on it (words or none, a note about
reminders, a question). `Reply` releases the slot before `Asked`, the question. Sends
fail, the context of the turns is cut, the key is locked, the process is killed. Left out:
what a prompt holds, and the reminder calls (`Conversation`).

### `Runner`: one process of the household

`start` with its launches (`at`, `launching`), a pump for each unit (`pump`, `view`,
`crashed`), the turns they dispatch (a turn is a token: whether its reply still finds its
view open is what matters), a stranger's claim with its tutorial, whose end launches the
new member's unit (`StartTutorial`, `Enrolled`, `LaunchLate`), and the shutdown
(`down`, `waitFor`, `expired`), which a `Stop`, a cancelled context or the end of the
stream may begin at any step of the start. Turns may finish, panic or hang. `clock` is the reminder clocks that run
and `health` the tracker's record of each unit.

### `Enrolment`: a member comes in and goes out

The node and the command line are two processes over `invites.json` (`codeFile`) and
`state.json` (`stateFile`). Each reads a file, changes what it read, and replaces the
file, as two actions (`Invite` and `Mint`, `Revoke` and `Unbind`, `Handle` and `Consume`);
`mem` is the node's state, which it loads once. `tutorial` is the tutorial in each chat with
its saves; `FinishInterrupted` is what a start owes to those the last process left unfinished. `overwrote` is a history: the files
in which one process undid what the other wrote.

### `Pool`: the routing pool

`call` is each `Complete`: its tier, what it still looks at, whom it has asked. `probes`
is the cache, `cooldown` the rest of endpoints that failed, `lastUsed` their ranks. Looking,
choosing and asking are steps of their own, since the pool's lock is held in none of
the requests, so overlapping calls see each other's failures late.

### `Sessions`: the members' keys

`wrapped` is the key file, `unlocked` the keys in memory with their last use, `job` how far
`unlockSessions` is with each member: load, verify, save, admit, derive, install, with no lock
across them. `MaxDeriv` derivations run at once; `Expire` and `Exit` drop keys.

### `Mux`: the stream and its views

The dispatcher takes a message, finds the first view whose match accepts it (`routing`), and
pushes it later, when the view may be full or closed; each view's pump hands its unit one
message at a time. `dropped` is the count that `Dropped` reports.

### `Fleet`: the pods

The host process is killed and started again on another image; its pods and the `record` of
their image outlive it. `walk` is `Start`'s walk over the pods, first the roll and then
the recreation of stale ones, `monitor` the loop that brings each pod back; both take the
pod's `lock` for their calls of the runtime, which may fail. The host reads kenward.yaml once,
when it starts, and a member's invites and revocation when it makes the member's pod;
`missed` are the pods whose recreation failed. A pod's age and its files' are compared
exactly: skew between two clocks is left out.

### `Updates`: a node that updates itself

`scheduler` is the update loop around keel's `Apply`, `process` is `serve` from
`Resume` to its exit code, `disk` what is installed and kept to go back to. Keel's answers
(no release, a refused consent, a failed swap, a release that is sick) are external.

### `Crossing`: enrolment across a pod's boundary

In isolated mode the operator mints and revokes on the host, the pod claims and binds on its
own volume. `minted`, `seed` and `record` are the host's files, `container` the copies the pod
was made with, `volume` its own invites and binding, `process` how far its start has come:
`Load`, `ApplyRevocation`, `Import`, `Serve`. Commands and processes are killed between any
two saves, and a pod is made anew with the same record as often as one likes.

### `Provision`: secrets from the file to the pod

`Resolve`, `Required`, `Optional` and `Sound` are the configuration's own judgement of what a
process with a scope must hold; `Proved` and `Handed` the host's of what it gives each pod;
`RunsUnit` what the pod's process does with it, and `Doctor` what its health check says. Files
come and go between the steps. The run's households are one in order and all with up to two
edits of a line (a source unset, doubled or shared, a relative path, a tier without a cloud, a
member who shares, ...).

### `Dashboard`: who writes kenward.yaml

`post` is each request or run of the terminal's wizard, with its copy of the file and the
spaces it has yet to make. `lore` keeps every space ever made; `homes` is a history of who
wrote a first configuration. Members have names and ids of their own, the household one name, and
the wizard's steps are filled in one at a time; what overlaps is what lasts.

### `Access`: who may use it

`account` and `token` are the two files, `table` each browser's sessions, `request` its request
under way, `guard` the count of failed attempts. A derivation is slow, so a request that has
looked acts later (`Create` .. `Fills` .. `Created`); `CommandIssues` is `setup-token` in another
process. The account's file is emptied and then written, and a restart may come in between; the
token's file is written in one step here. An operator who deletes admin.json is left out.

### `Conversation`: what a turn reads, shows and says

`Resolve` makes the scope. `Search` is one space searched for one word, all at once, while
other conversations write (`Meanwhile`); `RankUnion`, `PromptInput` and `Trimmed` make the
prompt, `Message` the one message with its notes and its correction. Entries and words are
numbers, and an entry takes one unit of room, as a turn does. What a search finds and what a prompt
keeps are sets, cut to the best under an order (`Best`): a search ranks entries by number, the
union of the searches by their votes (`ByScore`). A word shares its vote among what it found, in
whole shares of `Votes`, so that `/` needs no fractions.
`maxSearchTerms` and its preference for long words only choose among the words, so `Receive`
takes any of them.

### `Link`: memory to serve with

`process` is how far a start has come (its home, its spaces, the check, the link), `home` what
the unit's store holds, `link` a member's half of the handshake. A space is known by the key
it was made with, `<<unit, volume>>`: two stores exchange entries only under one key. `Replace`
loses the volume of a pod that is down, `ChangeKey` gives household.link_key another value,
which a pod gets when it is made anew. Desks of other households, silence and refusals are one
action, `Unanswered`.

### `MCParts`: twelve parts in one run

The parts from `Enrolment` to `Link` share no state with one another. `parts` therefore checks
them in one run in which one part moves in each behaviour; each property speaks of its own
part. `Pool`, `Fleet` and `Updates` are extended and stay in their initial states meanwhile. The
others are instantiated on the same variables `x1` .. `x12`, which are unused while they rest.
`MCParts.cfg` gives its constants their values; as a module it is about any, so that a theorem about
its `Spec` speaks of a part as it is by itself. Model values serve several
parts at once: those of `Codes` are also the pool's requests, the fleet's images, the dashboard's
posts and passwords, and the link's keys, all of them interchangeable.

## Runs

| Run | Instance | Checks |
|---|---|---|
| `capture` | one member's chat, save-first, two calls, two turns, a store that fails and misfiles | `TypeOK`, `ChatTellsTheTruth`, `SilentOnlyIfUndeliverable`, `TurnedDownStaysDown`, `EveryCallReturns` |
| `household` | the group of two members beside one direct chat, two calls, one crash | `AnswerIsTheAskedUsers`, `MessageAgreesWithResult`, `KeepsItsPromise` |
| `budget` | three calls over two turns, question first | `WithinBudget` |
| `reminders` | three reminders, a store of two, one message a day, three days, one failed save, one stop | `TypeOK`, `WithinDailyCap`, `CancelledStaysCancelled`, `NeverTwice`, `OneOffGoesOut` |
| `turn` | one unit of either kind, three messages, one of them overheard, a queue and a history of one, four completions, two boundaries, one fault | `TypeOK`, `OneTurnAtATime`, `EveryMessageIsAnswered`, `HistoryIsHonest`, `ForgettingIsTold`, `NobodyWaitsForATap` |
| `runner` | one unit, one enrolled late, one turn or tutorial | `TypeOK`, `StopKeepsItsWord`, `WaitsForAClosedSet`, `ProcessEnds`, `PanickedUnitServes` |
| `parts` | each part on its own: see *Bounds* | `PartsTypeOK`, `EnrolsOnce`, `AsksInOrder`, `OneNodePassphrase`, `NothingSilentlyLost`, `RecordIsTrue`, `OneUnprovenPod`, `RestartDelivers`, `DrainedComesBack`, `RevokedIsNotServed`, `EveryPodServes`, `HouseholdIsOne`, `ConversationIsTrue`, `AccessIsInOrder`, `MemoryIsShared` |
| `window`, `lostclaim`, `signal`, `config`, `revocable` | the smallest instances, and `parts` | the five disagreements below |

What the properties of `parts` say:

- `EnrolsOnce`: an account is one member's, a code enrols once unless a command wrote it back,
  and whoever is called finished was told how the house keeps its notes.
- `AsksInOrder`: no endpoint outside the tiers reached so far sees a request, and nobody does
  after a refusal by content. `OneNodePassphrase`: one passphrase opens every key.
  `NothingSilentlyLost`: accepted is delivered, counted or queued.
- `RecordIsTrue`, `OneUnprovenPod`, `RestartDelivers`: unless a roll is left unfinished every pod
  runs the recorded image; a roll risks one pod at a time; once the host serves, each pod it did
  not fail to make has the invites and revocations of its start. `DrainedComesBack`: who drained
  its household exits to be restarted.
- `RevokedIsNotServed`: a pod serves no binding older than the revocation it was given, a later
  claim stands, a code is redeemed once although its seed says otherwise for ever.
- `EveryPodServes`: the process in each pod the host makes accepts the configuration with what it
  was given, its health check agrees, and no two pods share a bot or a passphrase, but by a source
  that the file names for a secret of another kind as well (it is compared within a kind only).
- `HouseholdIsOne`: one first configuration, no inherited spaces, and a .env file with the secrets
  of every member it was written for.
- `ConversationIsTrue`: everyone who reads a chat owns what is shown there; what is not shown was
  dropped and counted, or not found; the line about reading, and a reply that claims a save, are
  true or corrected.
- `AccessIsInOrder`: one account, one session for a token, nothing of the setup or of an old
  password left when they are over, and no lockout longer than it says, but for requests that
  were under way.
- `MemoryIsShared`: no unit serves on a store with none of its spaces; what members' pods hold as
  the household's space is the group's own, and the group's pod has admitted who holds it, unless
  its volume was replaced since; a pod asks until it holds it.

**Bounds.** Two calls are enough for every race of a pair: overlap of their questions, a
refusal by one seen by the other, a write and a promotion. The budget needs a third,
since its hazard is a refund of an old turn between two charges of a new one.
`DeclineWindow` is two turns and `MaxProposals` one (the code's default), so that both are
reached. Misfiling and a crash are in different runs to keep each below two minutes. For
reminders a store of two under three names reaches the full store, and three days of
two moments reach a one-off that waits for the next day behind a routine. `CatchUp` is
less than a moment, so a routine that is a moment late is stale. `LastOff` leaves the
node two days after its last outage to settle what it owes: a node that is never on
again owes nothing a program could deliver.

In `turn` three messages fill the slot, the queue and the place of the one that is turned
away; a history of one turn is overrun by the second, and two boundaries let one pass inside
a turn. In `runner` one turn can be in flight when any of the stops lands, and its pump may
panic before; with two turns (a panic while the pump sleeps out the last one) the
safety properties hold as well, in a run of 1.7 million states that is too long to keep
beside liveness, and `signal` has both. In `parts` two accounts and two codes let a
second claim overlap the first, two requests let a slow success meet a failure, three
people let two enrol at once beside one who has a key, three messages overrun a backlog of
one twice, and two pods with two starts leave a roll half done and go back. Across a pod's
boundary three moments date a claim, a revocation and a claim again, with one process killed.
Two members and two edits of a household's file give every pair of sources that can collide.
Two posts race for one file. Two browsers, one request each, two hours and lives of no hour let
every session and token expire while it is used; two failures lock the account. Three entries, two
under one title, with two words and a limit of two let a search be cut, a union be ranked and a
title be ambiguous, and one event is a write, a deletion or a failure at any moment. One member's pod
stands for all, since they meet only at the group's desk; two faults replace a volume and change the
key, or replace both volumes. Deadlock is
not checked because every instance ends: calls and time are bounded.

**Fairness.** A goroutine that can run does; an HTTP request returns, since its client has
a timeout; timers fire. So weak fairness is on the steps of a call that is under way
(posting, settling, the engine's own steps), on the clock's pass and its sends, on time,
and on the restart of a node that stopped. Members need not tap, and nobody need call,
set, cancel or crash: those actions have no fairness. In `Reminders` time does not pass
a running clock's due pass by (`PassDue` in `Tick`): the ticker is half a minute, a moment
is hours. In `Turn`
fairness is on the steps of each message's goroutine, which takes the slot in its turn since
Go's channels queue their senders and a completion and a send have timeouts; it is not on
`Asked`, since a member need not tap. In `Runner`
fairness is on what the program itself does (start, pumps, clocks, shutdown, and the timer of
the drain), never on a turn, which may hang, or on `Stop` and signals.

## Disagreements between the code and what is written about it

- `window`: a refusal is dated to the turn its question was charged to. A question that
  stays open over k turns suppresses its title for k turns fewer than
  `DefaultDeclineWindow`'s comment says, which counts from "the turn it was declined in".
- `lostclaim`: a claim that cannot be saved has, says `clock.go`, "not happened". But
  the store in memory has already dropped the one-off and spent the day's allowance. The
  running clock never offers it again, and the next save that succeeds removes it from
  the file as well: the promise is lost for good, with the member believing it.
- `signal`: the drain closes the mux last, since closing it earlier "would eat the reply
  of the very turn the drain existed to protect". But `start` gave the mux its own context:
  SIGTERM cancels it, and the mux closes every view at once, before the drain has begun
  to wait.
- `config`: `isolated.go` says that a pod is recreated with an edited kenward.yaml at the next
  restart. The host reads the file once; a pod it first makes after an edit is made of the old
  bytes and newer than the file, so no restart makes it anew.
- `revocable`: `docs/CLI.md` says that kenward does not rewrite your configuration. The dashboard's
  pages load it with the bindings merged in and write all of it, and from then on `revoke`
  refuses the member as one whose id kenward.yaml declares.

Others were met while modelling; the models behave as the code does, and no run is spent
on them:

- After a roll that did not finish, going back to the old image finds the record equal to
  it and skips the roll, so a pod stays on the new image (`RecordIsTrue` excepts an unfinished
  roll for this reason), and `recreateStalePods` recreates stale pods on the unproven image
  although its comment says that the image is unchanged there. A `Stop` between a monitor's
  check and its lock leaves one pod running.
- A unit that is launched late registers behind the stream's end, after which "update stream
  ended" is never noticed; `serve` may report that end as a failure when a signal raced the
  start; and its wait for the scheduler has no bound, although `run.go` says that a wedged
  updater cannot hold a shutdown open.
- A message overheard before the first turn makes that turn clear the history and say so,
  although `history.go` says that the first turn adopts its boundary quietly.
- The running node's next save undoes a revocation by the command line, and an invite
  written while a claim is consumed puts the used code back (`EnrolsOnce` excepts
  what `overwrote` records).
- A slow success erases a cooldown that a failure set after it had begun. `LockAll` leaves
  the manager open, so an unlock in flight stores its key behind it. A closing view drops
  what is queued without counting it, although `queue.go` says it is still delivered.
- A process killed between a save-first write and its announcement leaves a note nobody was
  told of, while IMPLEMENTATION.md says that nothing is written without the member being told.
- Secrets: `doctor` asks for the bots of members who only share and for the household's without a
  group, which nothing runs on (`docs/CLI.md` lists what a unit needs). A credential that goes away
  between the host's check and a later creation travels as an empty file. A rotated secret reaches
  no pod until it is made anew, although `secret.go` speaks of rotation. A relative `*_file` is valid
  in the file and refused by the host. An id with blanks around it is valid and then not found by
  the pod. The uniqueness of sources is checked within a kind only.
- Setup and dashboard: the settings page drops `*_file` sources, the source of the session
  passphrase and `reminders:`, which `settings.go` says survive, and cannot be saved with a member
  who only shares. A .env file that is there swallows the wizard's secrets without a word. A
  duration that does not parse is refused after the file was written; a review that is sent again
  after half the spaces were made needs another household name; an empty wizard makes the household's
  space before it is refused; two names with one slug leave the second without secrets.
- Enrolment: a second code claimed while its member's unit runs builds another unit and another
  reminder store. A mint after one whose export failed exports the "unusable" code too.
- Conversation: `publishTarget` resolves a title against all that was retrieved, so an entry the
  budget dropped can be published although the prompt says that only shown ones can. A publish and a
  remember call in one turn drop the second without a word. A suppressed proposal under a reply
  that claims a save gets no correction, and an empty reply with notes and a suppressed proposal
  says that there is no answer twice. A message without a searchable word makes the prompt say
  "nothing relevant found" of memories nobody searched.
- Access: two creations deriving at once replace the account, which `admin.go` says `Create` refuses;
  a token presented twice at once buys two sessions, and a redemption under way when a token is
  reissued removes the new one; a login verified before a password change keeps a session after it;
  a correct password during the write counts as a failed attempt. A torn admin.json is not recovered by
  "the same one command", since `setup-token` refuses while the file is there. A configuration that
  cannot be decoded makes the command look for the account in the default data directory.
- Link: a group's pod whose volume is replaced makes the household's space anew under its id with
  another key, and members' pods that hold the old one never ask again: the stores do not converge, and
  `doctor` sees each hold its space (`MemoryIsShared` excepts it; `probes.go` says of such a pod that the
  memory went with its volume either way). A pod whose store fails to open for the sync daemon and opens for
  its unit serves without asking until its next start.

## Proofs

All for any sets of calls, members, messages, pods, endpoints and releases, and for any limits,
under the named assumption of each module (`AskAssumption`, `TurnAssumption`, ...), which say what
kind of value each constant is and that values of different kinds differ (an entry of the file is not
`Nil`; a key was made on a volume). The bounds on turns, crashes, failed saves and time are constants
too, so the theorems hold for every bound.

Hardly any property is inductive as it stands. What is proved is an inductive invariant that says
what must be true *before*, while calls are under way and files are half written; the property
follows from it. Where the invariant is made of the module's own words it is defined there (`EnrolInv`,
`CrossingInv`, ...), otherwise in the proofs (`CaptureInv`, `RunnerInv`, ...); TLC checked each on the
run's instance before it was proved.

- `Capture_proofs`, the questions: `AskInvariant` proves the inductive invariant `AskInv`. Until a call
  returns, its door holds just what was tapped, it has no result and its message is still
  the question; a tap is one its pending entry allowed; and afterwards the result and the
  message agree with that history. From it, `OnlyTheAskedUserAnswers` and `TheChatAgreesWithTheCaller`.
- `Capture_proofs`, the engine: `CaptureInvariant` is the invariant of the composition. That a notice
  tells the truth at the end follows only from
  what each step of a call already knows about the memory, so the invariant says for each
  `pc` where the entry is and is not, which question it may have open,
  what a tap on it can have been, and that its last notice is chosen only when its work is
  done. Each lemma treats one action or one group of them (the engine's steps, the taps
  and steps of the transport, `Crash`). From it, `CaptureTypesHold` and `TheChatIsTrue`.
- `Capture_proofs`, the promise: `TheEngineKeepsItsPromise`, the refinement: if the store files where it
  is told to (`~Misfiles`), the initial state maps to one of `Consent` and every step
  maps to a step of it or leaves its variables unchanged.
- `Capture_proofs`, the ledger: `LedgerInvariant` proves `LedgerInv`, of `CaptureInv` and what each call
  was charged for, what it recorded and what it sent. `WithinBudget` counts questions over calls while
  `offered` counts charges: the invariant says that the calls which still hold a charge of the
  speaker's present turn are at most `offered`, and those of an earlier one at most the limit, so a refund,
  which may come turns after its charge, gives back only what its own call paid. That nobody is silent needs for each step which
  sends went through; that a title turned down stays down needs the turn at which its refusal was
  recorded. From it, `TheBudgetHolds`, `NobodyIsSilent` and `ARefusalHolds`.
- `Reminders_proofs`: `RemindersInvariant` proves `RemindersInv`. The cap is not inductive
  alone, since a restart reads the day's count back from the file: the invariant says that
  the ledger, in the file and in a running process, counts at least what was claimed on its
  day and that no claim is of a later one. Nor is it inductive that nothing goes out
  twice: a reminder that is held, there or in the file, is due later than
  anything claimed for it, and a one-off that is held was never claimed. Each action has a
  lemma; the one for the clock's pass rests on what a claim keeps (`ClaimedKeeps`), on the
  fires being due (`FiresAreDue`) and on counting a union. From it, `RemindersTypesHold`
  (with the bound of the store), `TheDailyCapHolds`, `CancelledReminderStays` and
  `NoOccurrenceTwice`, each for any number of reminders, failed saves and restarts.
- `Turn_proofs`: `TurnInvariant` proves `TurnInv`. That one turn runs at a time needs who
  holds the slot: a goroutine is in a stage of a turn if and only if it is the holder. That
  every message is answered needs what is known at each stage of what was told; that the
  history was said needs that a turn's entry is in the ring only once its reply went, whole; and
  that forgetting is told needs that the notice precedes everything the turn sends. From it,
  `TurnTypes`, `TurnsAreSerial`, `MessagesAreAnswered`, `HistoryIsTrue` (of
  `HistoryIsHonest`) and `ForgettingIsConfessed`.
- `Runner_proofs`: `RunnerInvariant` proves `RunnerInv`. That nothing is left behind when `Stop` returns
  depends on who may be left at each of its steps: where the start is, which units have a place, a
  pump and a view, which of them have gone, and what the shutdown still waits for (`PlacesFit`,
  `PumpsFit`, `ViewsFit`, `ExitsFit`, `WaitsFit`, ...). From it, `RunnerTypesHold`,
  `AStopKeepsItsWord` and, of steps, `TheTurnsAreAClosedSet`: once the drain waits for turns no new one joins.
- `Pods_proofs`, the fleet: `TheRecordIsTrue` and `AtMostOneUnproven` from `FleetInv`. The record is
  true only as long as nothing recreates a pod on another image: the invariant says for
  each place of the walk which pods are already on the host's image and which are not, and
  that a monitor only runs when the walk is over. `RestartsDeliver` from `DeliverInv`: of each
  pod the walk has passed, that it was made with files no older than the host's start, or is
  among those the walk failed to make. `UpdatesComeBack` from `UpdatesInv`, which ties the drain to the
  restart that is wanted by the time `serve` returns.
- `Node_proofs`, the pool: `TheChainIsThePolicy` from `PoolInv`: a candidate is an endpoint of the call's
  own tier, and a call that was declined asks no more.

The parts of `MCParts` move by themselves (`OnePartMoves`), so each has its own invariant, proved lemma
by lemma for its actions, and `PartsInv` is all of them together; the theorems are in `Parts_proofs`.
`PartsTypesHold` gives the types of all, for which the pool needs that the chosen endpoint is later
than any was (`ChosenIsLast`) and the fleet who owns each pod's lock (`Owners`). The lemmas are in:

- `Pods_proofs`, the border: `RevocationsAreObeyed` from `CrossingInv`, which dates each copy: a claim
  under way is younger than its container's record and than every binding before it, a process serves
  what its volume holds, and a code that was redeemed is spent on the volume whatever its seed says. `HouseholdSpaceIsOne` from `LinkInv`: a
  grant under way is the group's space or one of a volume that was replaced since. `EnrolmentIsSound` from
  `EnrolInv`: each copy of the file, wherever it is held, has one account per member, and a code that is consumed
  is marked so in the file before anybody is bound by it, unless a command wrote the file back.
  `PodsServeOnTheirOwn` from `ProvisionInv`: who is past the check has a sound file, and each pod was made only of
  sources for what is its own to hold.
- `Node_proofs`: `OnePassphraseOpensAll` from
  `SessionsInv`: what is about to be written, or put in memory, agrees with the file under the passphrase of the
  process that runs. `NothingIsLostInTheMux` from `MuxInv`: the message being routed is the newest and nowhere
  else, and what waits and what was dropped are together at most what was taken. `TheTurnTellsTheTruth`
  from `ConversationInv`: a scope is of one of three kinds, and whoever has their own memory in it has
  nobody beside them; what each search found is of its space, and is full or leaves out nothing that
  stood there all the while; what the prompt lacks was dropped and counted, or ranks behind a full
  result. That rests on `BestAreFirst`: of a finite set under an order the best `n` are `n`, or all.
- `Dashboard_proofs`: `OneHouseholdIsSetUp` from `DashboardInv`: a post's copy of the file is as
  sound as the file, though it may be written late, and a first one is of complete answers.
  `TheDashboardIsOneAccounts` from `AccessInv`: who makes the account found none, who changes it knew its password,
  and a token that was bought with is gone, unless two looked at once. The lockout is excepted when as many
  attempts as lock the account were in flight as it began (`guard.many`), since they may extend it.

Two definitions were rewritten for the proofs: `Runner!Made` and `Conversation!Resolve` were CASEs whose
guards overlapped, of which TLC takes the first and the logic any; they are now the chains of the code.
The conversation's findings were sequences made by sorting and by folds, of which facts come only by
induction over data; they are the sets under an order described above.

Every invariant and every action property of the runs that pass is stated by a theorem. Only model-checked:
the liveness properties (`EveryCallReturns`, `OneOffGoesOut`, `NobodyWaitsForATap`, `ProcessEnds`,
`PanickedUnitServes`), since the prover has no rule for fairness and ENABLED.

## Plan

Done: every module above, with its runs and the proofs listed.

Liveness worth a run of its own: that a member's pod which is not stopped is admitted once a desk with
its key stands.

## Not modelled

Formatting and splitting of messages, languages and privacy statements, the decoding of the
configuration, templates and forms, and the release and desktop tools: pure functions or input
and output, without concurrent state. Of modelled parts: the caps of 32 refusals and conversations,
daylight saving, the rate limit of claims, the back-off of wrong guesses, delays between
restarts, the arithmetic of tokens, cookies, and `doctor`'s probes of the network. lore and the exchange of
entries between two stores, keel, the vault, Telegram and the container runtime are external and
appear only as what kenward's code sees of them. `PROJECT.json` gives the reason for each part.

## Running

    tlc -workers 2 -config MCCapture.cfg MCCapture
    tlapm Capture_proofs.tla
