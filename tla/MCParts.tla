------------------------------ MODULE MCParts ------------------------------
(* The parts of the system that work by themselves, in one run: every        *)
(* behaviour is a behaviour of one of them.  Pool, Fleet and Updates, whose  *)
(* theorems name properties of this run, have their own variables and stay   *)
(* in their initial states while another part moves.  The other parts take   *)
(* turns on one set of variables, which is unused while they rest.           *)
EXTENDS Pool, Fleet, Updates, TLC

CONSTANTS
  Members, Accounts, Codes, Nil,                  \* Enrolment, with Fleet's MaxFaults
  People, Words, IdleLimit, MaxDeriv, LastTime,   \* Sessions
  Views, Backlog, LastMessage,                    \* Mux
  LastClock,                                      \* Crossing, with those of Enrolment
  Houses,                                         \* Provision
  Entries, Title, Shelves, Terms, Matches, Limit, Votes, MaxRoom,       \* Conversation
  TokenLife, SetupLife, IdleLife, AttemptLimit, LoginWindow, Lockout,   \* Access
  LastHour, MaxTokens,
  PodMembers, MaxReplaced                         \* Link, whose keys are as many as the codes

VARIABLES
  part,   \* the part that moves
  x1, x2, x3, x4, x5, x6, x7, x8, x9, x10, x11, x12

\* Provision's sources: the household's own, and a token, a token's file and a passphrase
\* of each member; its households are one in order and its edits of one or two lines.
Files == {<<"file", m>> : m \in Members \cup {"link", "relative"}}
Relative == {<<"file", "relative">>}
Sources == Files \cup ({"token"} \X (Members \cup {"house"})) \cup ({"secret"} \X (Members \cup {"far"}))
InOrder ==
  [mode |-> "isolated", group |-> TRUE, sharedOnly |-> {},
   chain |-> [u \in Members \cup {"group"} |-> {"local", "cloud"}],
   ref |-> [s \in {"bot"} \X (Members \cup {"house"}) |-> {<<"token", s[2]>>}]
           @@ [s \in {"passphrase"} \X Members |-> {<<"secret", s[2]>>}]
           @@ (<<"key", "far">> :> {<<"secret", "far">>})
           @@ [s \in ({"key"} \X Endpoints) \cup {<<"passphrase", "house">>, <<"link", "house">>} |-> {}]]
Refer(h, s, R) == {[h EXCEPT !.ref[s] = r] : r \in R}
Edits(h) ==
  {[h EXCEPT !.mode = "simple"], [h EXCEPT !.group = FALSE]}
  \cup {[h EXCEPT !.chain[u] = c] : u \in Members \cup {"group"}, c \in {{"local"}, {}}}
  \cup Refer(h, <<"link", "house">>, {{<<"file", "link">>}})
  \cup Refer(h, <<"bot", "house">>, {{}, Relative})
  \cup Refer(h, <<"key", "far">>, {{}, Relative})
  \cup UNION {
    {[h EXCEPT !.sharedOnly = {m}],
     [h EXCEPT !.sharedOnly = {m}, !.chain[m] = {}, !.ref[<<"bot", m>>] = {}, !.ref[<<"passphrase", m>>] = {}]}
    \cup Refer(h, <<"bot", m>>, {{}, h.ref[<<"bot", m>>] \cup {<<"file", m>>}, {<<"token", "house">>}}
            \cup {{<<k, n>>} : k \in {"token", "file"}, n \in Members})
    \cup Refer(h, <<"passphrase", m>>, {{}} \cup {{<<"secret", n>>} : n \in Members}) : m \in Members}
HousesInOrder == {InOrder} \cup Edits(InOrder) \cup UNION {Edits(h) : h \in Edits(InOrder)}

E == INSTANCE Enrolment WITH
       codeFile <- x1, stateFile <- x2, mem <- x3, claim <- x4, tutorial <- x5, served <- x6,
       unfinished <- x7, command <- x8, enrolled <- x9, explained <- x10, overwrote <- x11,
       faults <- x12
S == INSTANCE Sessions WITH
       wrapped <- x1, bound <- x2, node <- x3, job <- x4, unlocked <- x5, time <- x6
M == INSTANCE Mux WITH
       accepts <- x1, taken <- x2, routing <- x3, dispatch <- x4, muxClosed <- x5, view <- x6,
       dropped <- x7, given <- x8
X == INSTANCE Crossing WITH
       clock <- x1, expired <- x2, minted <- x3, seed <- x4, record <- x5, command <- x6,
       container <- x7, volume <- x8, process <- x9, faults <- x10, redeemed <- x11, bindings <- x12

P == INSTANCE Provision WITH
       house <- x1, have <- x2, host <- x3, given <- x4, container <- x5, faults <- x6
\* Dashboard's posts are as many as the codes and go by their names.
D == INSTANCE Dashboard WITH
       Posts <- Codes,
       file <- x1, env <- x2, lore <- x3, bound <- x4, account <- x5, wizard <- x6, post <- x7,
       faults <- x8, promised <- x9, homes <- x10

\* Conversation's memory: three entries, two of one title, and two words, one of which finds
\* more than a search returns.
ThreeEntries == 1..3
NamesOfEntries == <<"bins", "bins", "wifi">>
SomeShelves == {{}, {3}, 1..3}
Finds == <<{1, 2, 3}, {3}>>
C == INSTANCE Conversation WITH
       MaxEvents <- MaxFaults,
       home <- x1, inbound <- x2, scope <- x3, audience <- x4, memory <- x5, present <- x6,
       steady <- x7, hits <- x8, prompt <- x9, told <- x10, stage <- x11, events <- x12

\* Access's browsers are as many as the accounts, and its passwords as the codes.
A == INSTANCE Access WITH
       Browsers <- Accounts, Passwords <- Codes, MaxStops <- MaxFaults,
       account <- x1, token <- x2, issued <- x3, table <- x4, guard <- x5, request <- x6,
       command <- x7, hour <- x8, stops <- x9, past <- x10

\* Link's pods are the group's and one member's: the members' pods meet at the group's desk only.
L == INSTANCE Link WITH
       Members <- PodMembers, Keys <- Codes, MaxFaults <- MaxReplaced,
       mode <- x1, home <- x2, volume <- x3, process <- x4, key <- x5, secret <- x6, link <- x7,
       members <- x8, faults <- x9

\* The tags' endpoints, and a chain that tries the house before the cloud.
TwoTiers == [local |-> {"near"}, cloud |-> {"near", "far"}]
HouseFirst == <<"local", "cloud">>

ASSUME PartsAssumption ==
  /\ PoolAssumption /\ FleetAssumption /\ UpdatesAssumption
  /\ E!EnrolmentAssumption /\ S!SessionsAssumption /\ M!MuxAssumption /\ X!CrossingAssumption
  /\ P!ProvisionAssumption /\ D!DashboardAssumption /\ C!ConversationAssumption
  /\ A!AccessAssumption /\ L!LinkAssumption

\* Members, accounts and codes are interchangeable; the values of codes stand for the pool's
\* requests and the fleet's images as well, which are so too.
Symmetry == Permutations(Members) \cup Permutations(Accounts) \cup Permutations(Codes)

Shared == <<x1, x2, x3, x4, x5, x6, x7, x8, x9, x10, x11, x12>>
Unused11 == x11 = Nil /\ x12 = Nil
Unused10 == x10 = Nil /\ Unused11
Unused9 == x9 = Nil /\ Unused10
Unused7 == x7 = Nil /\ x8 = Nil /\ Unused9
Unused1 == x1 = Nil /\ x2 = Nil /\ x3 = Nil /\ x4 = Nil /\ x5 = Nil /\ x6 = Nil /\ Unused7

Init ==
  /\ PoolInit /\ FleetInit /\ UpdatesInit
  /\ \/ part \in {"pool", "fleet", "updates"} /\ Unused1
     \/ part = "enrolment" /\ E!Init
     \/ part = "sessions" /\ S!Init /\ Unused7
     \/ part = "mux" /\ M!Init /\ Unused9
     \/ part = "crossing" /\ X!Init
     \/ part = "provision" /\ P!Init /\ Unused7
     \/ part = "dashboard" /\ D!Init /\ Unused11
     \/ part = "conversation" /\ C!Init
     \/ part = "access" /\ A!Init /\ Unused11
     \/ part = "link" /\ L!Init /\ Unused10

Next ==
  /\ UNCHANGED part
  /\ \/ part = "pool" /\ PoolNext /\ UNCHANGED <<Shared, fleetVars, updatesVars>>
     \/ part = "fleet" /\ FleetNext /\ UNCHANGED <<Shared, poolVars, updatesVars>>
     \/ part = "updates" /\ UpdatesNext /\ UNCHANGED <<Shared, poolVars, fleetVars>>
     \/ /\ UNCHANGED <<poolVars, fleetVars, updatesVars>>
        /\ \/ part = "enrolment" /\ E!Next
           \/ part = "sessions" /\ S!Next /\ UNCHANGED <<x7, x8, x9, x10, x11, x12>>
           \/ part = "mux" /\ M!Next /\ UNCHANGED <<x9, x10, x11, x12>>
           \/ part = "crossing" /\ X!Next
           \/ part = "provision" /\ P!Next /\ UNCHANGED <<x7, x8, x9, x10, x11, x12>>
           \/ part = "dashboard" /\ D!Next /\ UNCHANGED <<x11, x12>>
           \/ part = "conversation" /\ C!Next
           \/ part = "access" /\ A!Next /\ UNCHANGED <<x11, x12>>
           \/ part = "link" /\ L!Next /\ UNCHANGED <<x10, x11, x12>>

partsVars == <<part, Shared, poolVars, fleetVars, updatesVars>>

Spec == Init /\ [][Next]_partsVars
-----------------------------------------------------------------------------
\* The parts' type invariants, each with what its variables owe to one another.
PartsTypeOK ==
  /\ part = "enrolment" => E!TypeOK
  /\ part = "pool" => PoolTypeOK
  /\ part = "sessions" => S!TypeOK
  /\ part = "mux" => M!TypeOK
  /\ part = "crossing" => X!TypeOK
  /\ part = "provision" => P!TypeOK
  /\ part = "dashboard" => D!TypeOK
  /\ part = "conversation" => C!TypeOK
  /\ part = "access" => A!TypeOK
  /\ part = "link" => L!TypeOK
  /\ part = "fleet" => FleetTypeOK
  /\ part = "updates" => UpdatesTypeOK

\* No account is bound to two members, as binder.go's Bind asks for the holder first; a
\* code enrols one account, unless a command wrote the used code back; and whoever the state
\* file calls finished was told how the house keeps its notes.
EnrolsOnce == part = "enrolment" => E!OneMemberPerAccount /\ E!CodeEnrolsOnce /\ E!ExplainedWasTold

\* Every key of the store opens with one passphrase, whoever provisions meanwhile.
OneNodePassphrase == part = "sessions" => S!OneNodePassphrase

\* What a queue drops is counted: accepted is delivered, counted or still queued.
NothingSilentlyLost == part = "mux" => M!NothingSilentlyLost

\* No pod serves a binding that a revocation it was given ends, and a claim of a later
\* date than the revocation stands; a code that reached a pod enrols there once, and the pod
\* that serves has its codes.
RevokedIsNotServed ==
  part = "crossing" =>
    X!RevokedIsNotServed /\ X!LaterClaimStands /\ X!SpentStaysSpent /\ X!WaitsForItsCodes

\* The process in each pod accepts the configuration with the secrets it was made with, and
\* no bot and no passphrase is in the pods of two units.
EveryPodServes == part = "provision" => P!EveryPodServes /\ P!PodsAreApart

\* One household is set up, whom the dashboard adds has a space made for them, and whom the
\* wizard wrote into the file has their secrets in the .env file it wrote.
HouseholdIsOne ==
  part = "dashboard" => D!HouseholdIsOne /\ D!SpacesAreTheirs /\ D!WrittenHouseholdStarts

\* Whoever reads a chat is shown nothing of another's memory, and what is put up for
\* publication is an entry of theirs, the only one shown by its title; and the model and the
\* member are told the truth about what was read, left out and done.
ConversationIsTrue == part = "conversation" => C!ShownIsTheirs /\ C!ToldTruly

\* There is one account, made once, and what led to it and what an earlier password opened
\* does not outlast it; but for requests that were under way.
AccessIsInOrder == part = "access" => A!AccessIsInOrder

\* No unit serves on a store that can remember nothing for it; the household's space is one
\* in all stores, unless its owner's was lost; and a pod asks for it until it holds it.
MemoryIsShared == part = "link" => L!MemoryIsShared

\* docs/CLI.md's "kenward does not rewrite your configuration", of a member's telegram id.
ClaimsCanBeRevoked == part = "dashboard" => D!ClaimsCanBeRevoked

=============================================================================
