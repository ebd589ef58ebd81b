---------------------------- MODULE Conversation ----------------------------
(***************************************************************************)
(* What one turn may touch, what it reads and shows to the model, and what   *)
(* it says and does with the answer: the message is resolved to a scope, the *)
(* scope's spaces are searched word by word while others write to them, the  *)
(* findings are put into a prompt as far as they fit, and the completion's   *)
(* words and calls become one message and at most one question.  How turns   *)
(* queue for their unit is in Turn; what a question becomes is in Capture.   *)
(***************************************************************************)
EXTENDS Integers, Sequences, SequencesExt, FiniteSets, FiniteSetsExt

CONSTANTS
  Members,
  Entries,     \* the entries of the memory, numbered as a search ranks them
  Title,       \* what each is called
  Shelves,     \* which of them are the household's, the others being one member's
  Terms,       \* the content words a message may have, numbered as they are said
  Matches,     \* the entries in which a search finds each word
  Limit,       \* SearchLimit
  Votes,       \* those of a word that found one entry: two found by it get half as many each
  MaxRoom,     \* bound: the turns and entries that fit into ContextBudget less MaxTokens
  MaxEvents,   \* bound: entries written and deleted meanwhile, and searches and sends that fail
  Nil

House == "house"
Spaces == Members \cup {House}
Kinds == {"direct", "household", "group"}
Scopes ==
  [kind : Kinds, member : Members \cup {Nil}, write : Spaces,
   read : {<<House>>} \cup {<<m, House>> : m \in Members}, terms : SUBSET Terms]

ConversationAssumption ==
  /\ Nil \notin Spaces \cup Scopes /\ House \notin Members
  /\ Entries \subseteq Nat /\ Terms \subseteq Nat /\ IsFiniteSet(Entries) /\ IsFiniteSet(Terms)
  /\ Shelves \subseteq SUBSET Entries /\ Matches \in [Terms -> SUBSET Entries]
  /\ Limit \in Nat \ {0} /\ MaxRoom \in Nat /\ MaxEvents \in Nat
  /\ Votes \in Nat /\ \A n \in 1..Limit : \E w \in 1..Votes : n * w = Votes

VARIABLES
  home,      \* the configuration, until the message is resolved
  inbound,   \* the message, until then
  scope,     \* what the turn keeps of both
  audience,  \* history: who reads the chat
  memory,    \* the space of each entry
  present,   \* the entries that are there
  steady,    \* history: those that were there since the searches began
  hits,      \* the result of each search, of a space for a word; then the groups, of each space
  prompt,    \* what the model is shown
  told,      \* what was said and asked
  stage,
  events

vars == <<home, inbound, scope, audience, memory, present, steady, hits, prompt, told, stage, events>>
memoryVars == <<memory, present, steady>>
resolved == <<home, inbound, scope, audience>>

Homes == [perMember : BOOLEAN, group : BOOLEAN, sharedOnly : SUBSET Members, bare : SUBSET Members]
Inbounds == [from : Members \cup {Nil}, chat : {"group", "private", "elsewhere"}, isGroup : BOOLEAN,
             bot : Members \cup {Nil}]
Scope(kind, m, write, read) == [kind |-> kind, member |-> m, write |-> write, read |-> read, terms |-> {}]
Unread == [has |-> FALSE, entries |-> {}, err |-> FALSE, dropped |-> 0]
Blank == [private |-> Unread, shared |-> Unread, history |-> 0, says |-> Nil]
Silence == [parts |-> {}, line |-> {}, publish |-> Nil, proposed |-> FALSE]

Replies == {"answer", "saves", "seems"}
Parts == Replies \cup {"unsaved", "no answer", "misfire", "reminder", "only one", "refused", "question", "notice"}
Stages == {"received", "searching", "assembled", "routed", "publishing", "proposing", "over", "failed"}

Sections == [has : BOOLEAN, entries : SUBSET Entries, err : BOOLEAN, dropped : Nat]
Texts ==
  [reads : SUBSET {"private", "shared"}, captures : SUBSET {"private", "shared"}, publishes : BOOLEAN]
Lines == [of : {"private", "shared"}, n : Nat, err : BOOLEAN]

TypeOK ==
  /\ home \in Homes \cup {Nil} /\ inbound \in Inbounds \cup {Nil} /\ scope \in Scopes \cup {Nil}
  /\ stage \in Stages
  /\ memory \in [Entries -> Spaces] /\ steady \subseteq present /\ present \subseteq Entries
  /\ audience \subseteq Members /\ events \in 0..MaxEvents
  /\ prompt \in [private : Sections, shared : Sections, history : Nat, says : Texts \cup {Nil}]
  /\ told \in [parts : SUBSET Parts, line : SUBSET Lines, publish : Entries \cup {Nil}, proposed : BOOLEAN]
  /\ Cardinality(prompt.private.entries) <= Limit /\ Cardinality(prompt.shared.entries) <= Limit

\* A member without a private space is shared_only, or bare by a mistake.
Init ==
  /\ home \in Homes /\ home.sharedOnly \cap home.bare = {}
  /\ inbound \in Inbounds
  /\ (inbound.chat = "private" => ~inbound.isGroup) /\ (inbound.chat = "elsewhere" => inbound.isGroup)
  /\ \E m \in Members, S \in Shelves : memory = [e \in Entries |-> IF e \in S THEN House ELSE m]
  /\ present = Entries /\ steady = Entries
  /\ scope = Nil /\ audience = {} /\ hits = <<>> /\ prompt = Blank /\ told = Silence
  /\ stage = "received" /\ events = 0

-----------------------------------------------------------------------------
GroupScope == Scope("group", Nil, House, <<House>>)
HouseholdScope(m) == Scope("household", m, House, <<House>>)
DirectScope(m) == Scope("direct", m, m, <<m, House>>)

TouchesPrivateMemory(sc) == sc.kind = "direct"

\* The scope of a message that came on a bot, Nil if it is nobody's: the chat decides
\* before the sender does, and the sender's kind of memory before the bot does.
Resolve(h, in) ==
  IF in.chat = "group" /\ h.group
  THEN IF in.isGroup /\ in.bot = Nil /\ in.from # Nil THEN GroupScope ELSE Nil
  ELSE IF in.isGroup \/ in.from = Nil THEN Nil
  ELSE IF in.from \in h.sharedOnly THEN IF in.bot = Nil THEN HouseholdScope(in.from) ELSE Nil
  ELSE IF in.from \in h.bare THEN Nil
  ELSE IF in.bot # Nil THEN IF in.bot = in.from THEN DirectScope(in.from) ELSE Nil
  ELSE IF h.perMember THEN HouseholdScope(in.from) ELSE DirectScope(in.from)

\* What is searched of a message: each of its content words once, never the bot's own name or
\* a stop word, and of a long message as many as may be.
Searched == SUBSET Terms

\* A stranger gets no answer; anyone else's turn begins, with the words worth a search.
Receive ==
  /\ stage = "received"
  /\ LET sc == Resolve(home, inbound)
     IN IF sc = Nil THEN /\ stage' = "over" /\ UNCHANGED scope
                    ELSE /\ stage' = "searching"
                         /\ \E T \in Searched : scope' = [sc EXCEPT !.terms = T]
  /\ audience' = IF inbound.isGroup THEN Members ELSE {inbound.from} \cap Members
  /\ home' = Nil /\ inbound' = Nil
  /\ UNCHANGED <<memoryVars, hits, prompt, told, events>>

-----------------------------------------------------------------------------
Queries == {<<s, t>> : s \in ToSet(scope.read), t \in scope.terms}

\* The best n of a set under an order, which is the set of pairs of one before another.
Best(S, before, n) == {e \in S : Cardinality({d \in S : <<d, e>> \in before}) < n}
InNumber == {p \in Entries \X Entries : p[1] < p[2]}

\* What the store finds: a space's entries with the word, the best of them.
Found(s, t) == Best({e \in present \cap Matches[t] : memory[e] = s}, InNumber, Limit)
Failed == [ok |-> FALSE, entries |-> {}]

\* The results with one more.
With(q, result) == [r \in DOMAIN hits \cup {q} |-> IF r = q THEN result ELSE hits[r]]

\* A search of one space for one word, all of them at once; it fails, or finds.
Search(q) ==
  /\ stage = "searching" /\ q \in Queries \ DOMAIN hits
  /\ \/ hits' = With(q, [ok |-> TRUE, entries |-> Found(q[1], q[2])]) /\ UNCHANGED events
     \/ events < MaxEvents /\ events' = events + 1 /\ hits' = With(q, Failed)
  /\ UNCHANGED <<resolved, memoryVars, prompt, told, stage>>

\* Another conversation deletes an entry, or writes one again.
Meanwhile(e) ==
  /\ stage = "searching" /\ events < MaxEvents /\ events' = events + 1
  /\ present' = IF e \in present THEN present \ {e} ELSE present \cup {e}
  /\ steady' = steady \ {e}
  /\ UNCHANGED <<resolved, memory, hits, prompt, told, stage>>

\* The words of the turn that found an entry, and how many votes each of them has for it: as
\* many as make a whole over all that it found.
FoundBy(s, e) == {t \in scope.terms : e \in hits[<<s, t>>].entries}
Weight(s, t) == CHOOSE w \in 1..Votes : Cardinality(hits[<<s, t>>].entries) * w = Votes
Score(s, e) == Cardinality({v \in FoundBy(s, e) \X (1..Votes) : v[2] <= Weight(s, v[1])})

\* One space's entries by score; those of one score in the order in which they came.
ByScore(s) ==
  {p \in Entries \X Entries :
     \/ Score(s, p[1]) > Score(s, p[2])
     \/ /\ Score(s, p[1]) = Score(s, p[2])
        /\ LET m == Min(FoundBy(s, p[1])) n == Min(FoundBy(s, p[2])) IN m < n \/ (m = n /\ p[1] < p[2])}
RankUnion(s) == Best({e \in Entries : FoundBy(s, e) # {}}, ByScore(s), Limit)

\* The searches of a space together: one that failed fails them all.
SearchSpace(s) ==
  IF \E t \in scope.terms : ~hits[<<s, t>>].ok
    THEN [Unread EXCEPT !.has = TRUE, !.err = TRUE]
    ELSE [Unread EXCEPT !.has = TRUE, !.entries = RankUnion(s)]

\* What the text of each kind of conversation says it reads.
TextReads == [direct |-> {"private", "shared"}, household |-> {"shared"}, group |-> {"shared"}]

\* The memories that the text for captures lets a proposal name.
TextTargets == [direct |-> {"private", "shared"}, household |-> {"shared"}, group |-> {"shared"}]

\* The texts a kind's system prompt is made of; one has that for publications.
Disclosures(kind) ==
  [reads |-> TextReads[kind], captures |-> TextTargets[kind], publishes |-> kind = "direct"]

\* A mutant of PromptInput: a scope with a member has a section for that member's memory.
PromptByName ==
  [Blank EXCEPT !.private = IF scope.member # Nil THEN SearchSpace(scope.read[1]) ELSE Unread,
                !.shared = SearchSpace(Last(scope.read)), !.says = Disclosures(scope.kind)]

\* The prompt's sections before anything is dropped: which memories it has, and what it
\* says of them and of where a capture goes, is the scope's alone.
PromptInput ==
  [Blank EXCEPT !.private = IF TouchesPrivateMemory(scope) THEN SearchSpace(scope.read[1]) ELSE Unread,
                !.shared = SearchSpace(Last(scope.read)), !.says = Disclosures(scope.kind)]

\* What a section says of its memory.
Statement(section) ==
  CASE section.err -> "could not be read"
    [] ~section.err /\ section.entries = {} /\ section.dropped = 0 -> "nothing relevant found"
    [] OTHER -> "entries"

\* The most of n things that fit into the room.
Fits(n, room) == IF room < 0 THEN 0 ELSE IF n < room THEN n ELSE room
Cut(section, s, n) ==
  [section EXCEPT !.entries = Best(@, ByScore(s), n), !.dropped = Cardinality(section.entries) - n]

\* The prompt when everything that may give way has: the oldest turns, then the shared
\* entries from their end, then the private ones.
Trimmed(inp, turns, room) ==
  LET p == Cardinality(inp.private.entries)
      s == Cardinality(inp.shared.entries)
  IN [inp EXCEPT !.private = Cut(@, scope.read[1], Fits(p, room)),
                 !.shared = Cut(@, Last(scope.read), Fits(s, room - p)),
                 !.history = Fits(turns, room - p - s)]

\* The searches are waited for, and the request is put together.
Assemble ==
  /\ stage = "searching" /\ DOMAIN hits = Queries
  /\ \E turns \in 0..1, room \in 0..MaxRoom : prompt' = Trimmed(PromptInput, turns, room)
  /\ stage' = "assembled"
  /\ UNCHANGED <<resolved, memoryVars, hits, told, events>>

\* The request goes to the router; the turn keeps what the searches found and the prompt
\* showed of it.
Route ==
  /\ stage = "assembled" /\ stage' = "routed"
  /\ hits' = [s \in ToSet(scope.read) |-> SearchSpace(s).entries]
  /\ prompt' = [prompt EXCEPT !.history = 0]
  /\ UNCHANGED <<resolved, memoryVars, told, events>>

-----------------------------------------------------------------------------
\* A completion: the words that are left when tool calls written into them are stripped,
\* whether each remember call can be read, a title to publish, a call to set or cancel a
\* reminder, and a call of a tool that there is not; and whether the message asked for a save.
ReminderCalls == {"remind", "unreadable remind", "unremind", "unremind without a code"}
Completions ==
  [reply : Replies \cup {Nil}, remember : {<<>>, <<TRUE>>, <<FALSE>>, <<TRUE, TRUE>>, <<FALSE, TRUE>>},
   publish : Range(Title) \cup {Nil}, reminder : ReminderCalls \cup {Nil}, unknown : BOOLEAN,
   asked : BOOLEAN]

\* The first remember call is the proposal, if it can be read.
HasProposal(c) == Len(c.remember) > 0 /\ c.remember[1]

\* The reminder calls leave a note: what was set, or cancelled, or could not be.
ReminderNote(c) == c.reminder \in {"remind", "unreadable remind", "unremind"}

\* The entries a title names: those that the member's own memory returned in this turn.
Named(title) ==
  {e \in hits[scope.write] : Title[e] = title}

\* The one entry that a publish call means, in the one scope that may publish.
PublishTarget(c) ==
  IF TouchesPrivateMemory(scope) /\ Cardinality(Named(c.publish)) = 1
    THEN Min(Named(c.publish)) ELSE Nil

\* The reply says or implies that this turn saved something.
FalseSave(c) == c.reply = "saves" \/ (c.reply = "seems" /\ c.asked)

\* The line about what was read: nothing when no word was searched, or nothing found.
ReadNotice ==
  IF \/ scope.terms = {}
     \/ \A k \in {"private", "shared"} : prompt[k].entries = {} /\ ~prompt[k].err
    THEN {}
    ELSE {[of |-> k, n |-> Cardinality(prompt[k].entries), err |-> prompt[k].err] :
            k \in {j \in {"private", "shared"} : prompt[j].has}}

\* The parts of the one message: the reply, the correction under it or, where nothing
\* answers the member, that there is no answer; the reminders' notes and the dropped call's.
Message(c, target) ==
  LET notes == (IF ReminderNote(c) THEN {"reminder"} ELSE {}) \cup (IF Len(c.remember) > 1 THEN {"only one"} ELSE {})
      handled == HasProposal(c) \/ target # Nil
  IN (IF c.reply = Nil THEN {} ELSE {c.reply})
     \cup notes
     \cup (IF c.reply # Nil /\ ~handled /\ ~ReminderNote(c) /\ FalseSave(c) THEN {"unsaved"} ELSE {})
     \cup (IF c.reply = Nil /\ ~ReminderNote(c) /\ (notes # {} \/ ~handled)
             THEN {IF c.unknown /\ notes = {} THEN "misfire" ELSE "no answer"} ELSE {})

\* The turn acts on a completion: what it says, and whether a question follows.
Complete(c) ==
  /\ stage = "routed"
  /\ LET target == PublishTarget(c)
     IN /\ told' = [parts |-> Message(c, target), line |-> IF c.reply = Nil THEN {} ELSE ReadNotice,
                    publish |-> target, proposed |-> HasProposal(c)]
        /\ stage' = CASE target # Nil -> "publishing"
                      [] target = Nil /\ HasProposal(c) -> "proposing"
                      [] OTHER -> "over"
  /\ hits' = <<>>
  /\ UNCHANGED <<resolved, memoryVars, prompt, events>>

\* No endpoint answers, or the model declines: a notice says which.
Refuse ==
  /\ stage = "routed" /\ told' = [told EXCEPT !.parts = {"refused"}] /\ stage' = "over" /\ hits' = <<>>
  /\ UNCHANGED <<resolved, memoryVars, prompt, events>>

\* The message cannot be sent, and Handle returns the error.
SendFails ==
  /\ stage = "routed" /\ events < MaxEvents /\ events' = events + 1
  /\ stage' = "failed" /\ hits' = <<>>
  /\ UNCHANGED <<resolved, memoryVars, prompt, told>>

\* OfferPromotion: the entry is shown and asked about, or is gone, and the engine says so.
\* What else it returns without a word is answered by the turn, if nothing was said.
Publish ==
  /\ stage = "publishing" /\ stage' = "over"
  /\ \E there \in BOOLEAN : told' = [told EXCEPT !.parts = @ \cup {IF there THEN "question" ELSE "notice"}]
  /\ UNCHANGED <<resolved, memoryVars, hits, prompt, events>>

\* Offer: a question or a note of what was written; or the engine suppresses the proposal,
\* and the turn answers unless the reply did.
Propose ==
  /\ stage = "proposing" /\ stage' = "over"
  /\ \E suppressed \in BOOLEAN :
       told' = [told EXCEPT !.parts =
                  @ \cup (CASE ~suppressed -> {"question"}
                            [] suppressed /\ @ \cap Replies = {} -> {"no answer"}
                            [] OTHER -> {})]
  /\ UNCHANGED <<resolved, memoryVars, hits, prompt, events>>

Next ==
  \/ Receive
  \/ \E q \in Spaces \X Terms : Search(q)
  \/ \E e \in Entries : Meanwhile(e)
  \/ Assemble \/ Route
  \/ \E c \in Completions : Complete(c)
  \/ Refuse \/ SendFails \/ Publish \/ Propose

Spec == Init /\ [][Next]_vars
-----------------------------------------------------------------------------
Shown(k) == prompt[k].entries

\* Whoever reads a chat is shown nothing of another's memory: an entry in the prompt's
\* private section is of the one member in the chat, who has just this conversation with
\* their own assistant; the shared section has the household's; and what is put up for
\* publication is an entry of that member, the only one shown by its title (internal/scope and
\* assistant.promptInput, publishTarget).
ShownIsTheirs ==
  /\ \A e \in Shown("private") : audience = {memory[e]}
  /\ \A e \in Shown("shared") : memory[e] = House
  /\ prompt.private.has => scope.write \in audience
  /\ told.publish # Nil =>
       /\ audience = {memory[told.publish]}
       /\ \A e \in Shown("private") : Title[e] = Title[told.publish] => e = told.publish

\* What a section shows was found and what it does not show was counted: an entry that has
\* one of the words and was there all along is in its section, unless the section says that
\* it could not be read or that entries were dropped, or is full (retrieve, searchSpace).
ReadSpace(k) == IF k = "private" THEN scope.read[1] ELSE Last(scope.read)
ReadKinds == {k \in {"private", "shared"} : stage = "assembled" /\ prompt[k].has /\ ~prompt[k].err}
NothingOverlooked ==
  \A k \in ReadKinds : \A t \in scope.terms :
    /\ hits[<<ReadSpace(k), t>>].ok
    /\ \A e \in steady \cap Matches[t] :
         memory[e] = ReadSpace(k) => \/ e \in Shown(k) \/ prompt[k].dropped > 0
                                    \/ Cardinality(Shown(k)) = Limit

\* The model is told which memories it reads and where captures go as they are, and that a
\* memory holds nothing relevant only if it has nothing (renderSystem, renderMemorySection).
DisclosedTruly ==
  prompt.says # Nil =>
    /\ prompt.says.reads = {k \in {"private", "shared"} : prompt[k].has}
    /\ "private" \in prompt.says.captures <=> scope.write \in Members
    /\ prompt.says.publishes <=> TouchesPrivateMemory(scope)
    /\ \A k \in ReadKinds : \A t \in scope.terms :
         Statement(prompt[k]) = "nothing relevant found" =>
           {e \in steady \cap Matches[t] : memory[e] = ReadSpace(k)} = {}

\* An entry that more of the words found is not displaced by one that fewer of the same
\* words did (rankUnion: "an entry every word found still outranks an entry one word brushed").
RanksByWords ==
  \A k \in ReadKinds : \A e \in Shown(k), d \in Entries \ Shown(k) :
    ~(FoundBy(ReadSpace(k), e) \subseteq FoundBy(ReadSpace(k), d)
      /\ FoundBy(ReadSpace(k), e) # FoundBy(ReadSpace(k), d))

\* No old turn is kept while an entry is dropped, and none of the member's own entries is
\* dropped while one of the household's stays (assemble).
TrimsInOrder ==
  /\ prompt.history > 0 => prompt.private.dropped = 0 /\ prompt.shared.dropped = 0
  /\ prompt.private.dropped > 0 => prompt.shared.entries = {}

\* The line above the reply counts what the model was shown (readNotice).
LineIsTrue ==
  \A l \in told.line : l.err = prompt[l.of].err /\ l.n = Cardinality(Shown(l.of))

\* A turn whose message was sent answers it; and a reply that says something was saved is
\* corrected, unless something was set or proposed or asked about (turn, falseSave).
Answers ==
  stage = "over" /\ scope # Nil =>
    /\ told.parts \ {"only one", "unsaved"} # {}
    /\ "saves" \in told.parts =>
         told.proposed \/ told.parts \cap {"unsaved", "question", "notice", "reminder"} # {}

\* The model and the member are told the truth about what was read and done.
ToldTruly ==
  NothingOverlooked /\ DisclosedTruly /\ RanksByWords /\ TrimsInOrder /\ LineIsTrue /\ Answers

\* Why they hold: a turn's scope is one of three kinds, and whoever has one of the first has
\* nobody beside them;
ScopeFits ==
  scope # Nil =>
    /\ scope.terms \subseteq Terms
    /\ \/ scope = [GroupScope EXCEPT !.terms = scope.terms]
       \/ \E m \in Members :
            \/ scope = [HouseholdScope(m) EXCEPT !.terms = scope.terms]
            \/ scope = [DirectScope(m) EXCEPT !.terms = scope.terms] /\ audience = {m}

\* what a search found is of its space, and is all that was there throughout, or full;
IsIn(s, t) == {e \in Matches[t] : memory[e] = s}
HitFits(q) ==
  LET hit == hits[q] IN
  /\ hit.ok \in BOOLEAN /\ hit.entries \subseteq IsIn(q[1], q[2]) /\ Cardinality(hit.entries) <= Limit
  /\ hit.ok => steady \cap IsIn(q[1], q[2]) \subseteq hit.entries \/ Cardinality(hit.entries) = Limit

\* what is shown of the member's own memory is some of what it returned, which the turn has
\* at hand while the model answers;
FoundFits ==
  /\ stage \in {"searching", "assembled"} =>
       DOMAIN hits \subseteq Queries /\ \A q \in DOMAIN hits : HitFits(q)
  /\ stage = "assembled" =>
       /\ DOMAIN hits = Queries
       /\ scope.kind = "direct" => Shown("private") \subseteq SearchSpace(scope.write).entries
  /\ stage = "routed" /\ scope.kind = "direct" =>
       /\ Shown("private") \subseteq hits[scope.write]
       /\ hits[scope.write] \subseteq {e \in Entries : memory[e] = scope.write}

\* and the turn shows and says nothing before its time.
Shows == stage \notin {"received", "searching"} /\ scope # Nil
StageFits ==
  /\ stage = "received" => home \in Homes /\ inbound \in Inbounds /\ scope = Nil /\ hits = <<>>
  /\ ~Shows => prompt = Blank
  /\ stage \notin {"publishing", "proposing", "over"} \/ scope = Nil => told = Silence
  /\ stage \notin {"received", "over"} => scope # Nil
  /\ stage = "proposing" => told.proposed
  /\ Shows =>
       /\ prompt.private.has = TouchesPrivateMemory(scope) /\ prompt.shared.has
       /\ prompt.says = Disclosures(scope.kind)
       /\ ~prompt.private.has => prompt.private = Unread

ConversationInv ==
  TypeOK /\ ScopeFits /\ FoundFits /\ StageFits /\ (Shows => ShownIsTheirs /\ ToldTruly)
=============================================================================
