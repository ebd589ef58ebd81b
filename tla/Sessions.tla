------------------------------ MODULE Sessions ------------------------------
(***************************************************************************)
(* Members' keys in simple mode, where one node passphrase wraps every key. *)
(* A process that starts provisions whoever has no key yet and unlocks      *)
(* everybody, one after the other; somebody who enrols while it runs is     *)
(* provisioned and unlocked beside whatever else goes on.  A key is dropped *)
(* when its member was idle too long, and all of them when the process      *)
(* stops.  The wrapped keys are in a file and outlive it.  A process tries  *)
(* each member once, so Unlock's backoff window never refuses anybody and   *)
(* its bookkeeping is left out.                                             *)
(***************************************************************************)
EXTENDS Integers, FiniteSets

CONSTANTS
  People,        \* the members with a memory of their own: numbers, by order of their ids
  Words,         \* the passphrases an operator may start the node with
  IdleLimit,     \* session.idle_timeout, in ticks
  MaxDeriv,      \* how many derivations run at once
  LastTime       \* bound: how long the clock runs

SessionsAssumption ==
  /\ People \subseteq Nat /\ IsFiniteSet(People)
  /\ {IdleLimit, MaxDeriv} \subseteq Nat \ {0}
  /\ LastTime \in Nat

VARIABLES
  wrapped,   \* the file: the passphrase under which each member's key is wrapped
  bound,     \* the members who claimed their invitation
  node,      \* the process, and the passphrase it was given
  job,       \* how far unlockSessions is with each member
  unlocked,  \* when each unlocked member was last active
  time

sessionsVars == <<wrapped, bound, node, job, unlocked, time>>

NoKey == "none"
Locked == -1
Working == {"load", "verify", "save", "admit", "derive", "install"}

TypeOK ==
  /\ wrapped \in [People -> Words \cup {NoKey}] /\ bound \subseteq People
  /\ node \in [state : {"down", "starting", "serving", "closed"}, word : Words]
  /\ job \in [People -> {"idle", "done"} \cup Working]
  /\ unlocked \in [People -> Locked..LastTime] /\ time \in 0..LastTime
  \* unlockSessions takes one member after the other when the node starts
  /\ node.state = "starting" => Cardinality({p \in People : job[p] \in Working}) <= 1
  /\ node.state \in {"down", "closed"} => \A p \in People : unlocked[p] = Locked

Init ==
  /\ wrapped = [p \in People |-> NoKey] /\ bound \in SUBSET People
  /\ node \in [state : {"down"}, word : Words]
  /\ job = [p \in People |-> "idle"] /\ unlocked = [p \in People |-> Locked]
  /\ time = 0

-----------------------------------------------------------------------------
\* The operator starts the node and gives it a passphrase.
Boot(w) ==
  /\ node.state = "down"
  /\ node' = [state |-> "starting", word |-> w]
  /\ job' = [p \in People |-> "idle"]
  /\ UNCHANGED <<wrapped, bound, unlocked, time>>

\* unlockSessions at startup: the next member of the configuration.
NextMember(p) ==
  /\ node.state = "starting" /\ p \in bound /\ job[p] = "idle"
  /\ \A q \in People : job[q] \notin Working
  /\ job' = [job EXCEPT ![p] = "load"]
  /\ UNCHANGED <<wrapped, bound, node, unlocked, time>>

Serve ==
  /\ node.state = "starting" /\ \A p \in bound : job[p] = "done"
  /\ node' = [node EXCEPT !.state = "serving"]
  /\ UNCHANGED <<wrapped, bound, job, unlocked, time>>

\* Somebody claims an invitation: serveOnEnrol's unlock of this one member.
Enrol(p) ==
  /\ node.state = "serving" /\ p \notin bound
  /\ bound' = bound \cup {p} /\ job' = [job EXCEPT ![p] = "load"]
  /\ UNCHANGED <<wrapped, node, unlocked, time>>

\* A failure at startup closes the manager and ends the process; on enrolment it is
\* logged, and the chat stays locked until a restart.
Fails(p) ==
  /\ job' = [job EXCEPT ![p] = "done"]
  /\ IF node.state = "starting"
     THEN node' = [node EXCEPT !.state = "closed"] /\ unlocked' = [q \in People |-> Locked]
     ELSE UNCHANGED <<node, unlocked>>
Goes(p, stage) == job' = [job EXCEPT ![p] = stage] /\ UNCHANGED <<node, unlocked>>

Load(p) ==
  /\ job[p] = "load"
  /\ Goes(p, IF wrapped[p] = NoKey THEN "verify" ELSE "admit")
  /\ UNCHANGED <<wrapped, bound, time>>

Derivations == Cardinality({p \in People : job[p] = "derive"})

\* A mutant of Opens: only the member's own key is looked at, and there is none yet.
OpensUnchecked == TRUE

\* verifyNodePassphrase: the passphrase has to open the first key of the file.
Provisioned == {p \in People : wrapped[p] # NoKey}
First == CHOOSE p \in Provisioned : \A q \in Provisioned : p <= q
Opens == Provisioned = {} \/ wrapped[First] = node.word

Verify(p) ==
  /\ job[p] = "verify"
  /\ IF Opens THEN Goes(p, "save") ELSE Fails(p)
  /\ UNCHANGED <<wrapped, bound, time>>

\* The new key is wrapped, and written unless the disk refuses.
Save(p) ==
  /\ job[p] = "save"
  /\ \/ /\ wrapped[p] = NoKey /\ wrapped' = [wrapped EXCEPT ![p] = node.word]
        /\ Goes(p, "admit")
     \/ Fails(p) /\ UNCHANGED wrapped
  /\ UNCHANGED <<bound, time>>

\* Unlock: the record is loaded and its derivation waits for a slot.
Admit(p) ==
  /\ job[p] = "admit" /\ Derivations < MaxDeriv
  /\ Goes(p, "derive")
  /\ UNCHANGED <<wrapped, bound, time>>

Derive(p) ==
  /\ job[p] = "derive"
  /\ IF wrapped[p] = node.word THEN Goes(p, "install") ELSE Fails(p)
  /\ UNCHANGED <<wrapped, bound, time>>

Install(p) ==
  /\ job[p] = "install"
  /\ job' = [job EXCEPT ![p] = "done"] /\ unlocked' = [unlocked EXCEPT ![p] = time]
  /\ UNCHANGED <<wrapped, bound, node, time>>

-----------------------------------------------------------------------------
Expired(p) == unlocked[p] # Locked /\ time - unlocked[p] >= IdleLimit

\* A turn reads the key and then touches the session; expiry is looked at each time.
Touch(p) ==
  /\ node.state = "serving" /\ unlocked[p] # Locked
  /\ unlocked' = [unlocked EXCEPT ![p] = IF Expired(p) THEN Locked ELSE time]
  /\ UNCHANGED <<wrapped, bound, node, job, time>>

\* The sweeper drops the expired sessions.
Sweep ==
  /\ node.state = "serving" /\ \E p \in People : Expired(p)
  /\ unlocked' = [p \in People |-> IF Expired(p) THEN Locked ELSE unlocked[p]]
  /\ UNCHANGED <<wrapped, bound, node, job, time>>

\* The process ends, in order (LockAll) or not: nothing of its memory is left.
Exit ==
  /\ node.state # "down"
  /\ node' = [node EXCEPT !.state = "down"]
  /\ job' = [p \in People |-> "idle"] /\ unlocked' = [p \in People |-> Locked]
  /\ UNCHANGED <<wrapped, bound, time>>

\* The operator revokes somebody, and the node is started again: their key stays.
Revoke(p) ==
  /\ node.state = "down" /\ p \in bound
  /\ bound' = bound \ {p}
  /\ UNCHANGED <<wrapped, node, job, unlocked, time>>

Tick == time < LastTime /\ time' = time + 1
        /\ UNCHANGED <<wrapped, bound, node, job, unlocked>>

Next ==
  \/ Serve \/ Sweep \/ Exit \/ Tick \/ \E w \in Words : Boot(w)
  \/ \E p \in People :
       \/ NextMember(p) \/ Enrol(p) \/ Touch(p) \/ Revoke(p)
       \/ node.state \in {"starting", "serving"} /\ ( \/ Load(p) \/ Verify(p) \/ Save(p)
                                                      \/ Admit(p) \/ Derive(p) \/ Install(p) )

Spec == Init /\ [][Next]_sessionsVars

-----------------------------------------------------------------------------
\* "One node passphrase wraps every member's key" is enforced rather than assumed: a typo
\* at the next start never leaves the household with two passphrases, however many
\* enrol at a time and whichever of their saves fails.  Somebody who is unlocked is one
\* whose key the running node's passphrase opened.
OneNodePassphrase ==
  /\ \A p, q \in Provisioned : wrapped[p] = wrapped[q]
  /\ \A p \in People : unlocked[p] # Locked => wrapped[p] = node.word

\* Why it holds: what is about to be written, and what is about to be opened, agree with the
\* file under the passphrase of the process that runs, whoever else wrote since the check;
\* and at startup the members are worked on one at a time.
Agrees == \A q \in Provisioned : wrapped[q] = node.word
WorkAgrees ==
  /\ \A p \in People :
       /\ job[p] = "save" => Agrees
       /\ job[p] = "install" => wrapped[p] = node.word
       /\ node.state \in {"down", "closed"} => job[p] \notin Working /\ unlocked[p] = Locked
  /\ node.state = "starting" =>
       \A p, q \in People : job[p] \in Working /\ job[q] \in Working => p = q

SessionsInv == TypeOK /\ OneNodePassphrase /\ WorkAgrees

=============================================================================
