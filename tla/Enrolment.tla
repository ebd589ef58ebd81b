----------------------------- MODULE Enrolment -----------------------------
(***************************************************************************)
(* How a member comes in and goes out: an invite minted on the command      *)
(* line, the claim that spends its code and binds an account, the tutorial  *)
(* that follows, and the revocation.  The node and the command line are two *)
(* processes over the same two files.  Each of them reads a file, changes   *)
(* what it read and replaces the file; neither locks it against the other,  *)
(* and the node never reads the state file again once it runs.              *)
(***************************************************************************)
EXTENDS Naturals

CONSTANTS
  Members,   \* the members the configuration declares
  Accounts,  \* Telegram accounts, each with its direct chat
  Codes,     \* the claim codes that may be minted
  MaxFaults, \* bound: saves and sends that fail, and nodes that stop
  Nil

Code == [for : Members \cup {Nil}, used : BOOLEAN]
Onboarding == [chat : Accounts \cup {Nil}, explained : BOOLEAN]
State == [bound : [Members -> Accounts \cup {Nil}], persona : [Members -> Onboarding]]
Claim == [code : Codes, by : Accounts, read : [Codes -> Code], step : {"read", "consumed"}]
Inviting == [op : {"invite"}, code : Codes, member : Members, read : [Codes -> Code]]
Revoking == [op : {"revoke"}, member : Members, read : State]
Command == Inviting \cup Revoking

EnrolmentAssumption ==
  /\ Nil \notin Members \cup Accounts \cup Codes \cup State \cup Claim \cup Command
  /\ MaxFaults \in Nat

VARIABLES
  codeFile,   \* invites.json: whose invite each code is, and whether it is used
  stateFile,  \* state.json: each member's account and onboarding
  mem,        \* the running node's state, Nil when it does not run
  claim,      \* the claim the node is handling
  tutorial,   \* the tutorial in each account's chat
  served,     \* the accounts the node runs a unit for
  unfinished, \* the members whose onboarding the node must finish at its start
  command,    \* the command that runs, with what it has read
  enrolled,   \* history: the claims that bound an account, as <<code, account>>
  explained,  \* history: the accounts that were sent the explanation
  overwrote,  \* history: the files in which one process undid what another wrote
  faults      \* how many faults there were

files == <<codeFile, stateFile, overwrote>>
node == <<mem, claim, tutorial, served, unfinished, faults>>
told == <<enrolled, explained>>
enrolVars == <<files, node, told, command>>

NoCode == [for |-> Nil, used |-> FALSE]
NotOnboarded == [chat |-> Nil, explained |-> FALSE]
Tutorial == [of : Members \cup {Nil},
             stage : {"none", "begun", "asking", "closing", "told", "leaving"}]
NoTutorial == [of |-> Nil, stage |-> "none"]

TypeOK ==
  /\ codeFile \in [Codes -> Code] /\ stateFile \in State
  /\ mem \in State \cup {Nil} /\ claim \in Claim \cup {Nil} /\ command \in Command \cup {Nil}
  /\ tutorial \in [Accounts -> Tutorial] /\ served \subseteq Accounts
  /\ unfinished \subseteq Members
  /\ enrolled \subseteq Codes \X Accounts /\ explained \subseteq Accounts
  /\ overwrote \subseteq {"codes", "state"} /\ faults \in 0..MaxFaults

Init ==
  /\ codeFile = [c \in Codes |-> NoCode]
  /\ stateFile = [bound |-> [m \in Members |-> Nil], persona |-> [m \in Members |-> NotOnboarded]]
  /\ mem = Nil /\ claim = Nil /\ command = Nil
  /\ tutorial = [a \in Accounts |-> NoTutorial] /\ served = {} /\ unfinished = {}
  /\ enrolled = {} /\ explained = {} /\ overwrote = {} /\ faults = 0

-----------------------------------------------------------------------------
\* A file is replaced by what a process made of its own reading of it, whatever
\* has been written since.
WriteCodes(read, new) ==
  /\ codeFile' = new
  /\ overwrote' = IF read = codeFile THEN overwrote ELSE overwrote \cup {"codes"}
WriteState(read, new) ==
  /\ stateFile' = new
  /\ overwrote' = IF read = stateFile THEN overwrote ELSE overwrote \cup {"state"}

\* The node saves a changed clone of its state, or fails to and keeps what it has.
Fault == faults < MaxFaults /\ faults' = faults + 1
Same == UNCHANGED <<stateFile, overwrote, mem>>
Keep(new) == WriteState(mem, new) /\ mem' = new

Records(m, p) == \/ Keep([mem EXCEPT !.persona[m] = p]) /\ UNCHANGED faults
                 \/ Same /\ Fault

-----------------------------------------------------------------------------
\* kenward invite: for a declared member the state file has no account for.
Invite(c, m) ==
  /\ command = Nil /\ codeFile[c] = NoCode /\ stateFile.bound[m] = Nil
  /\ command' = [op |-> "invite", code |-> c, member |-> m, read |-> codeFile]
  /\ UNCHANGED <<files, node, told>>
Mint ==
  /\ command # Nil /\ command.op = "invite" /\ command' = Nil
  /\ WriteCodes(command.read, [command.read EXCEPT ![command.code] = [for |-> command.member, used |-> FALSE]])
  /\ UNCHANGED <<stateFile, node, told>>

\* kenward revoke: a binder of its own over the state file, and Unbind.
Revoke(m) ==
  /\ command = Nil /\ stateFile.bound[m] # Nil
  /\ command' = [op |-> "revoke", member |-> m, read |-> stateFile]
  /\ UNCHANGED <<files, node, told>>
Unbind ==
  /\ command # Nil /\ command.op = "revoke" /\ command' = Nil
  /\ WriteState(command.read, [command.read EXCEPT !.bound[command.member] = Nil])
  /\ UNCHANGED <<codeFile, node, told>>

-----------------------------------------------------------------------------
\* The node starts, reads the state and serves whom it binds; it owes an explanation
\* to whoever has a chat on record and was explained nothing.
StartNode ==
  /\ mem = Nil /\ mem' = stateFile
  /\ served' = {a \in Accounts : \E m \in Members : stateFile.bound[m] = a}
  /\ unfinished' = {m \in Members : stateFile.persona[m].chat # Nil /\ ~stateFile.persona[m].explained}
  /\ UNCHANGED <<files, claim, tutorial, told, command, faults>>

\* It stops or is killed, at any step.
StopNode ==
  /\ Fault
  /\ mem # Nil /\ mem' = Nil /\ claim' = Nil /\ served' = {} /\ unfinished' = {}
  /\ tutorial' = [a \in Accounts |-> NoTutorial]
  /\ UNCHANGED <<files, told, command>>

\* A mutant of FinishInterrupted: the member counts as told whether or not they were.
FinishAnyway(m) ==
  /\ m \in unfinished /\ unfinished' = unfinished \ {m}
  /\ Records(m, [mem.persona[m] EXCEPT !.explained = TRUE])
  /\ explained' \in {explained, explained \cup {mem.persona[m].chat}}
  /\ UNCHANGED <<codeFile, claim, tutorial, served, enrolled, command>>

\* FinishInterrupted: the keyboard that was left is retired and the explanation sent; if
\* it cannot be, the next start tries again.
FinishInterrupted(m) ==
  /\ m \in unfinished /\ unfinished' = unfinished \ {m}
  /\ \/ /\ explained' = explained \cup {mem.persona[m].chat}
        /\ Records(m, [mem.persona[m] EXCEPT !.explained = TRUE])
     \/ Same /\ Fault /\ UNCHANGED explained
  /\ UNCHANGED <<codeFile, claim, tutorial, served, enrolled, command>>

-----------------------------------------------------------------------------
\* An account sends a code.  Who is served writes to their unit, and who is in a tutorial
\* to that; anybody else is a stranger.  Consume reads the file ...
Handle(c, a) ==
  /\ mem # Nil /\ unfinished = {} /\ claim = Nil
  /\ a \notin served /\ tutorial[a].stage \in {"none", "leaving"}
  /\ claim' = [code |-> c, by |-> a, read |-> codeFile, step |-> "read"]
  /\ UNCHANGED <<files, mem, tutorial, served, unfinished, told, command, faults>>

\* ... and refuses a code that is unknown or used, or whose time is over; or it is spent, and Bind refuses
\* or fails, and it was spent for nobody.  The stranger hears nothing.
Refused ==
  /\ claim # Nil /\ claim' = Nil
  /\ UNCHANGED <<files, mem, tutorial, served, unfinished, told, command, faults>>

Consume ==
  /\ claim # Nil /\ claim.step = "read"
  /\ claim.read[claim.code].for # Nil /\ ~claim.read[claim.code].used
  /\ WriteCodes(claim.read, [claim.read EXCEPT ![claim.code].used = TRUE])
  /\ claim' = [claim EXCEPT !.step = "consumed"]
  /\ UNCHANGED <<stateFile, mem, tutorial, served, unfinished, told, command, faults>>

\* The account is bound, greeted, and its tutorial begins.
Binds(m, a) ==
  /\ tutorial' = [tutorial EXCEPT ![a] = [of |-> m, stage |-> "begun"]]
  /\ enrolled' = enrolled \cup {<<claim.code, a>>} /\ claim' = Nil
  /\ IF mem.bound[m] = a THEN Same ELSE Keep([mem EXCEPT !.bound[m] = a])
  /\ UNCHANGED <<codeFile, served, unfinished, explained, command, faults>>

\* A mutant of Bind: nobody asks whether the account is another member's.
BindTaken ==
  /\ claim # Nil /\ claim.step = "consumed"
  /\ Binds(claim.read[claim.code].for, claim.by)

\* Bind: an account that is another member's is refused; the one that is bound already
\* changes nothing; any other replaces the member's.
Bind ==
  /\ claim # Nil /\ claim.step = "consumed"
  /\ LET m == claim.read[claim.code].for
     IN (\A o \in Members \ {m} : mem.bound[o] # claim.by) /\ Binds(m, claim.by)

-----------------------------------------------------------------------------
\* Tutorial.Run: what was answered so far is saved after each question, so that the next
\* start can finish what a restart cut.
In(a, stage) == tutorial[a].stage = stage
Goes(a, stage) == tutorial' = [tutorial EXCEPT ![a].stage = stage]
Saves(a, done) == Records(tutorial[a].of, [chat |-> a, explained |-> done])
tutorialFrame == <<codeFile, claim, served, unfinished, enrolled, command>>

Begin(a) ==
  /\ In(a, "begun") /\ Goes(a, "asking") /\ Saves(a, FALSE)
  /\ UNCHANGED <<tutorialFrame, explained>>
\* The member answers or goes back; or it was the last question, or it could not be asked,
\* or the member let it be.
Answered(a) ==
  /\ In(a, "asking") /\ (Goes(a, "asking") \/ Goes(a, "closing"))
  /\ Saves(a, FALSE)
  /\ UNCHANGED <<tutorialFrame, explained>>
\* Everybody is explained how their memory works, those who answered nothing too.
Explain(a) ==
  /\ In(a, "closing")
  /\ \/ Goes(a, "told") /\ explained' = explained \cup {a} /\ UNCHANGED faults
     \/ Goes(a, "leaving") /\ UNCHANGED explained /\ Fault
  /\ UNCHANGED <<tutorialFrame, stateFile, overwrote, mem>>
Explained(a) ==
  /\ In(a, "told") /\ Goes(a, "leaving") /\ Saves(a, TRUE)
  /\ UNCHANGED <<tutorialFrame, explained>>
\* The chat has no tutorial any more; then the member's unit is built and served.
Enrolled(a) ==
  /\ In(a, "leaving") /\ tutorial' = [tutorial EXCEPT ![a] = NoTutorial]
  /\ served' = served \cup {a}
  /\ UNCHANGED <<files, mem, claim, unfinished, told, command, faults>>

Next ==
  \/ Mint \/ Unbind \/ StartNode \/ StopNode \/ Refused \/ Consume \/ Bind
  \/ \E c \in Codes : \/ (\E m \in Members : Invite(c, m))
                      \/ (\E a \in Accounts : Handle(c, a))
  \/ \E m \in Members : Revoke(m) \/ FinishInterrupted(m)
  \/ \E a \in Accounts : \/ Begin(a) \/ Answered(a)
                         \/ Explain(a) \/ Explained(a) \/ Enrolled(a)

Spec == Init /\ [][Next]_enrolVars

-----------------------------------------------------------------------------
\* Whatever the two processes undo of each other's work, no account is two members'.
OneMemberPerAccount ==
  \A s \in {stateFile, mem} \ {Nil} : \A m, o \in Members :
    s.bound[m] = s.bound[o] /\ s.bound[m] # Nil => m = o

\* A code enrols one account, unless an invite that was being written put it back.
CodeEnrolsOnce ==
  "codes" \notin overwrote => \A e, f \in enrolled : e[1] = f[1] => e = f

\* Nobody is on record as explained who was not, so a start never skips who is owed it.
ExplainedWasTold ==
  \A m \in Members : stateFile.persona[m].explained => stateFile.persona[m].chat \in explained

\* What these rest on: every copy of the state that may yet be written is as sound as the
\* file, and so is every step of a claim or a tutorial on its way to being written.
Single(s) == \A m, o \in Members : s.bound[m] = s.bound[o] /\ s.bound[m] # Nil => m = o
Told(s) == \A m \in Members : s.persona[m].explained => s.persona[m].chat \in explained
Consumed == claim # Nil /\ claim.step = "consumed"
EnrolInv ==
  /\ TypeOK
  /\ Single(stateFile) /\ Told(stateFile)
  /\ mem # Nil => Single(mem) /\ Told(mem)
  /\ command \in Revoking => Single(command.read) /\ Told(command.read)
  /\ command \in Inviting => command.read[command.code] = NoCode
  /\ mem = Nil => claim = Nil /\ unfinished = {} /\ \A a \in Accounts : tutorial[a] = NoTutorial
  /\ \A m \in unfinished : mem.persona[m].chat # Nil
  /\ \A a \in Accounts : /\ tutorial[a].stage # "none" => tutorial[a].of # Nil
                         /\ In(a, "told") => a \in explained
  /\ Consumed => claim.read[claim.code].for # Nil
  /\ "codes" \notin overwrote =>
       /\ CodeEnrolsOnce /\ \A e \in enrolled : codeFile[e[1]].used
       /\ Consumed => codeFile[claim.code].used /\ \A e \in enrolled : e[1] # claim.code

=============================================================================
