----------------------------- MODULE Dashboard -----------------------------
(***************************************************************************)
(* Everything that writes kenward.yaml: the first-run wizard of the          *)
(* dashboard, its pages that add a member and edit the settings, and the     *)
(* wizard at a terminal.  Each reads the file, works on its copy, makes      *)
(* spaces in lore that are never deleted, and writes the whole file again;   *)
(* nothing locks it in between.  The dashboard's wizard puts the secrets it  *)
(* was given into a .env file beside it.                                     *)
(***************************************************************************)
EXTENDS FiniteSets, Naturals

CONSTANTS
  Members,    \* the people, each with a name and an id of their own
  Posts,      \* the dashboard's requests that last, and runs of the terminal's wizard
  MaxFaults,  \* bound: writes and requests that fail half-way
  Nil

House == "house"            \* the household, beside its members
Labels == Members \cup {House}

\* A member's row: their space, the request that added them (or Nil, at a terminal), and whether
\* the file has a telegram id of theirs.
Rows == [space : Posts \cup {Nil}, by : Posts \cup {Nil}, id : BOOLEAN]

DashboardAssumption ==
  Nil \notin Members \cup Posts \cup Rows /\ House \notin Members /\ MaxFaults \in Nat

VARIABLES
  file,     \* kenward.yaml
  env,      \* the .env file beside it: whose secrets it holds
  lore,     \* the space of each name, as the post that made it
  bound,    \* the state file: the members bound to an account
  account,  \* the dashboard's account exists
  wizard,   \* the answers given to the first-run wizard
  post,     \* each post: its copy of the file, and the spaces it has yet to make
  faults,
  promised, \* history: the members whose secrets a wizard wrote to .env
  homes     \* history: the posts that wrote the first configuration

dashboardVars == <<file, env, lore, bound, account, wizard, post, faults, promised, homes>>

Row(space, by) == [space |-> space, by |-> by, id |-> FALSE]
Nobody == [m \in Members |-> Nil]
Configuration == [isolated : BOOLEAN, row : [Members -> Rows \cup {Nil}]]
Declared(cfg) == {m \in Members : cfg.row[m] # Nil}

\* There may be no file, or one that was truncated and not written again.
Missing == [isolated |-> FALSE, row |-> Nobody]
Broken == [isolated |-> TRUE, row |-> Nobody]
Usable == Declared(file) # {}

Answers == [names : SUBSET Members, typed : SUBSET Members, isolated : BOOLEAN]
NewWizard == [names |-> {}, typed |-> {}, isolated |-> FALSE]
Unsent == [kind |-> "unsent", cfg |-> Missing, todo |-> {}]
Over == [Unsent EXCEPT !.kind = "over"]
Kinds == {"unsent", "over", "finish", "finished", "terminal", "add", "edit"}
Post == [kind : Kinds, cfg : Configuration, todo : SUBSET Labels]

TypeOK ==
  /\ file \in Configuration /\ env \in (SUBSET Members) \cup {Nil}
  /\ lore \in [Labels -> Posts \cup {Nil}] /\ bound \subseteq Members /\ account \in BOOLEAN
  /\ wizard \in Answers /\ post \in [Posts -> Post]
  /\ faults \in 0..MaxFaults /\ promised \subseteq Members /\ homes \subseteq Posts
  \* the space in a row is the one of that row's name
  /\ \A m \in Declared(file) : file.row[m].space \in {Nil, lore[m]}

\* There is no file, or a household in simple mode with a member who shares its memory.
Init ==
  /\ file \in {Missing} \cup {[Missing EXCEPT !.row[m] = Row(Nil, Nil)] : m \in Members}
  /\ env \in {Nil, {}}
  /\ lore = [l \in Labels |-> Nil] /\ bound = {} /\ account = FALSE /\ wizard = NewWizard
  /\ post = [r \in Posts |-> Unsent] /\ faults = 0 /\ promised = {} /\ homes = {}

Send(r, kind, cfg, todo) ==
  /\ post[r] = Unsent
  /\ post' = [post EXCEPT ![r] = [kind |-> kind, cfg |-> cfg, todo |-> todo]]
Is(r, kind) == post[r].kind = kind
Ends(r) == post' = [post EXCEPT ![r] = Over]
Fault == faults < MaxFaults /\ faults' = faults + 1

\* WriteConfig over the file that is there: it is truncated and then written.
Replace(cfg) ==
  \/ file' = cfg /\ UNCHANGED faults
  \/ file' = Broken /\ Fault

\* loadConfig: the file, with the state file's bindings merged into its rows.
Loaded ==
  [file EXCEPT !.row = [m \in Members |->
    IF file.row[m] = Nil THEN Nil ELSE [file.row[m] EXCEPT !.id = @ \/ m \in bound]]]

-----------------------------------------------------------------------------
\* The first-run wizard.  Its steps are forms that may be gone back to and filled in
\* again, one at a time, and are of no use once there is a file; all but the first two
\* need the account.  An isolated household needs a .env file, or it is refused.
Finishing == \E r \in Posts : Is(r, "finish") \/ Is(r, "finished")
Answer(w) ==
  /\ ~Finishing /\ file = Missing /\ w # wizard /\ wizard' = w
  /\ UNCHANGED <<file, env, lore, bound, account, post, faults, promised, homes>>

Named == (SUBSET Members) \ {{}}
InstallStep == \E S \in Named : Answer([wizard EXCEPT !.names = S])
AdminStep ==
  /\ ~account /\ account' = TRUE
  /\ UNCHANGED <<file, env, lore, bound, wizard, post, faults, promised, homes>>
TrustStep == account /\ Answer([wizard EXCEPT !.isolated = ~@])
\* The step of the members' own secrets keeps what was typed, also when it refuses it.
BotsStep ==
  /\ account /\ wizard.isolated
  /\ \E S \in SUBSET wizard.names : Answer([wizard EXCEPT !.typed = S])
\* Signed in anew, the wizard begins again.
SignIn == account /\ Answer(NewWizard)

\* A mutant of Complete: the rows are as the step left them, with nobody new among them.
CompleteAsLeft == wizard.isolated => wizard.typed # {}

\* checkMemberSecrets, of the rows that syncMemberSecrets has brought up to date.
Complete == wizard.isolated => wizard.names \subseteq wizard.typed

\* finishWizard looks for the file, and then makes the household's spaces one by one; a
\* name that lore has already ends it, and what was made stays.
Finish(r) ==
  /\ account
  /\ IF file = Missing /\ Complete
     THEN Send(r, "finish", [Missing EXCEPT !.isolated = wizard.isolated], wizard.names \cup {House})
     ELSE post[r] = Unsent /\ Ends(r)
  /\ UNCHANGED <<file, env, lore, bound, account, wizard, faults, promised, homes>>


\* A mutant of MakeSpace: what lore has under that name is taken for theirs.
MakeSpaceOrTake(r, l) ==
  /\ l \in post[r].todo /\ (House \in post[r].todo => l = House)
  /\ lore' = [lore EXCEPT ![l] = IF @ = Nil THEN r ELSE @]
  /\ post' = [post EXCEPT ![r].todo = @ \ {l}, ![r].cfg.row = [m \in Members |->
       IF m = l THEN Row(lore'[l], IF Is(r, "terminal") THEN Nil ELSE r) ELSE @[m]]]
  /\ UNCHANGED <<file, env, bound, account, wizard, faults, promised, homes>>

\* CreateSpace, the household's first.  The terminal's wizard finds the space of a name
\* that is taken; the dashboard never does.
MakeSpace(r, l) ==
  /\ l \in post[r].todo /\ (House \in post[r].todo => l = House)
  /\ IF lore[l] = Nil \/ Is(r, "terminal")
     THEN /\ lore' = [lore EXCEPT ![l] = IF @ = Nil THEN r ELSE @]
          /\ post' = [post EXCEPT ![r].todo = @ \ {l}, ![r].cfg.row = [m \in Members |->
               IF m = l THEN Row(lore'[l], IF Is(r, "terminal") THEN Nil ELSE r) ELSE @[m]]]
     ELSE Ends(r) /\ UNCHANGED lore
  /\ UNCHANGED <<file, env, bound, account, wizard, faults, promised, homes>>

\* The household cannot be reached, or the process is killed, between two steps.
Dies(r) ==
  /\ post[r] \notin {Unsent, Over} /\ Ends(r) /\ Fault
  /\ UNCHANGED <<file, env, lore, bound, account, wizard, promised, homes>>

\* A mutant of Create: the first configuration is written over one that is there.
CreateOver(r) ==
  /\ file' = post[r].cfg /\ homes' = homes \cup {r} /\ UNCHANGED faults

\* writeFile without force: a configuration is made, and never replaced.
Create(r) ==
  /\ file = Missing
  /\ \/ file' = post[r].cfg /\ UNCHANGED faults
     \/ file' = Broken /\ Fault
  /\ homes' = homes \cup {r}

\* setup.Run for the dashboard: somebody must live there.  The .env file is written if
\* there is none; one that is there is left alone.
FinishCreates(r) ==
  /\ Is(r, "finish") /\ post[r].todo = {}
  /\ \/ /\ Declared(post[r].cfg) # {} /\ Create(r)
        /\ \/ file' = Broken /\ Ends(r) /\ UNCHANGED <<env, promised>>
           \/ /\ file' # Broken /\ post' = [post EXCEPT ![r].kind = "finished"]
              /\ IF wizard.isolated /\ env = Nil
                 THEN /\ env' = wizard.typed \cap wizard.names
                      /\ promised' = Declared(post[r].cfg)
                 ELSE UNCHANGED <<env, promised>>
     \/ /\ Declared(post[r].cfg) = {} \/ file # Missing
        /\ Ends(r) /\ UNCHANGED <<file, env, faults, promised, homes>>
  /\ UNCHANGED <<lore, bound, account, wizard>>

\* Its second write: the advanced answers and the dashboard's own section.  An answer
\* that is no duration ends it here, with the file as it is.
FinishEnds(r) ==
  /\ Is(r, "finished") /\ Ends(r)
  /\ \/ Replace(post[r].cfg) /\ wizard' = NewWizard
     \/ UNCHANGED <<file, faults, wizard>>
  /\ UNCHANGED <<env, lore, bound, account, promised, homes>>

\* kenward setup, at a terminal.  It asks for no member's secrets, and may write the
\* household's own to a .env file.
Terminal(r) ==
  /\ \E S \in Named, b \in BOOLEAN : Send(r, "terminal", [Missing EXCEPT !.isolated = b], S \cup {House})
  /\ UNCHANGED <<file, env, lore, bound, account, wizard, faults, promised, homes>>
TerminalCreates(r) ==
  /\ Is(r, "terminal") /\ post[r].todo = {} /\ Ends(r)
  /\ \/ Create(r) /\ (UNCHANGED env \/ (env = Nil /\ env' = {}))
     \/ file # Missing /\ UNCHANGED <<file, env, faults, homes>>
  /\ UNCHANGED <<lore, bound, account, wizard, promised>>

-----------------------------------------------------------------------------
\* The pages over a household.  A member is added with a space of their own, or with
\* none; the id must be new in the file as this request read it.
Add(r, m) ==
  /\ account /\ Usable /\ m \notin Declared(file)
  /\ \/ Send(r, "add", Loaded, {m})
     \/ Send(r, "add", [Loaded EXCEPT !.row[m] = Row(Nil, r)], {})
  /\ UNCHANGED <<file, env, lore, bound, account, wizard, faults, promised, homes>>

\* The settings and the access: the first cannot be saved while a member has no space.
Edit(r) ==
  /\ account /\ Usable /\ Send(r, "edit", Loaded, {})
  /\ UNCHANGED <<file, env, lore, bound, account, wizard, faults, promised, homes>>

Save(r) ==
  /\ Is(r, "add") \/ Is(r, "edit")
  /\ post[r].todo = {} /\ Replace(post[r].cfg) /\ Ends(r)
  /\ UNCHANGED <<env, lore, bound, account, wizard, promised, homes>>

\* By hand: somebody is taken out of the file.
ByHand(m) ==
  /\ m \in Declared(file) /\ Cardinality(Declared(file)) > 1
  /\ file' = [file EXCEPT !.row[m] = Nil]
  /\ UNCHANGED <<env, lore, bound, account, wizard, post, faults, promised, homes>>

\* The node and its members, with the state file: a claim, and a revocation, which
\* refuses while kenward.yaml itself states the id.
Claim(m) ==
  /\ m \in Declared(file) \ bound /\ ~file.isolated /\ bound' = bound \cup {m}
  /\ UNCHANGED <<file, env, lore, account, wizard, post, faults, promised, homes>>
Revoke(m) ==
  /\ m \in bound \cap Declared(file) /\ ~file.row[m].id /\ bound' = bound \ {m}
  /\ UNCHANGED <<file, env, lore, account, wizard, post, faults, promised, homes>>

Next ==
  \/ InstallStep \/ AdminStep \/ TrustStep \/ BotsStep \/ SignIn
  \/ \E r \in Posts :
       \/ Finish(r) \/ FinishCreates(r) \/ FinishEnds(r) \/ Terminal(r) \/ TerminalCreates(r)
       \/ Dies(r) \/ Edit(r) \/ Save(r)
       \/ \E l \in Labels : MakeSpace(r, l)
       \/ \E m \in Members : Add(r, m)
  \/ \E m \in Members : ByHand(m) \/ Claim(m) \/ Revoke(m)

Spec == Init /\ [][Next]_dashboardVars

-----------------------------------------------------------------------------
\* Whoever races for it, one household is set up: a wizard never writes over another's.
HouseholdIsOne == Cardinality(homes) <= 1

\* A member whom the dashboard added has a space that was made for them by that very
\* request: nobody is given what was remembered of an earlier member of their name, and
\* no lost write makes an exception.
SpacesAreTheirs ==
  \A m \in Declared(file) : file.row[m].by # Nil => file.row[m].space \in {Nil, file.row[m].by}

\* An isolated household whose .env file the wizard wrote can start: it holds the secrets
\* of every member it was written with, whoever was added to the form after they were asked.
WrittenHouseholdStarts == promised # {} => promised \subseteq env

\* Why they hold: a copy of the file is as sound as the file, though it may be written late;
\* who writes one has somebody to write, so that a file that was made is never missing again;
\* and the first wizard's answers are complete, and stay, until one of them is written.
Sound(cfg) ==
  \A m \in Declared(cfg) :
    /\ cfg.row[m].space \in {Nil, lore[m]}
    /\ cfg.row[m].by # Nil => cfg.row[m].space \in {Nil, cfg.row[m].by}
Wanted(r) == (post[r].todo \ {House}) \cup Declared(post[r].cfg)
PostFits(r) ==
  /\ Sound(post[r].cfg)
  /\ post[r].kind \in {"terminal", "finished", "add", "edit"} => Wanted(r) # {}
  /\ Is(r, "finished") => post[r].todo = {} /\ file # Missing
  /\ Is(r, "finish") /\ file = Missing => Complete /\ Wanted(r) \subseteq wizard.names
DashboardInv ==
  /\ TypeOK /\ HouseholdIsOne /\ WrittenHouseholdStarts /\ Sound(file)
  /\ homes # {} \/ promised # {} => file # Missing
  /\ \A r \in Posts : PostFits(r)

\* What docs/CLI.md says of kenward: it does not rewrite the configuration.  Nobody wrote
\* a telegram id into it here, so there is none that a revocation would refuse to clear.
ClaimsCanBeRevoked == \A m \in Declared(file) : ~file.row[m].id

=============================================================================
