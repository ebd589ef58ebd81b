------------------------------ MODULE Crossing ------------------------------
(***************************************************************************)
(* Enrolment across the boundary of a pod, in isolated mode.  The operator  *)
(* mints codes and revokes on the host; the member's pod redeems codes and  *)
(* binds accounts on a volume of its own, which the host never reads.  All  *)
(* that crosses is a copy of the member's seed file and revocation record,  *)
(* taken when the pod's container is made.  A container is started many     *)
(* times with the same copy, and a new one keeps the volume.                *)
(***************************************************************************)
EXTENDS Naturals

CONSTANTS
  Codes,      \* claim codes the operator may mint for the member
  Accounts,   \* accounts that may claim
  LastClock,  \* bound: how many claims and revocations are dated
  MaxFaults,  \* bound: commands and processes that are killed, and saves that fail
  Nil

CrossingAssumption ==
  Nil \notin Codes \cup Accounts /\ LastClock \in Nat /\ MaxFaults \in Nat

VARIABLES
  clock,     \* the moment of the last claim or revocation
  expired,   \* the codes whose time is over
  minted,    \* the host's invites.json
  seed,      \* the member's seed file on the host
  record,    \* the member's revocation record on the host
  command,   \* the command that runs on the host
  container, \* the pod's container: the copies it was made with
  volume,    \* the pod's volume: its own invites, and who is bound since when
  process,   \* kenward in the pod
  faults,
  redeemed,  \* history: the claims that spent a code, as <<code, moment>>
  bindings   \* history: the claims that bound an account, as <<account, moment>>

host == <<expired, minted, seed, record, command>>
crossingVars == <<clock, host, container, volume, process, faults, redeemed, bindings>>

\* A record may be half written: the file is not replaced by a rename.
NoRecord == [at |-> 0, whole |-> TRUE]
Record == [at : 0..LastClock, whole : BOOLEAN]
Nobody == [account |-> Nil, since |-> 0]
Binding == [account : Accounts \cup {Nil}, since : 0..LastClock]
Container == [seed : SUBSET Codes, record : Record]
Volume == [codes : [Codes -> {"unknown", "live", "spent"}], bound : Binding]
Claim == [code : Codes, by : Accounts, at : 1..LastClock]
Process ==
  [stage : {"off", "loaded", "clean", "ready"}, serves : Binding, claimer : BOOLEAN, claim : Claim \cup {Nil}]
Off == [stage |-> "off", serves |-> Nobody, claimer |-> FALSE, claim |-> Nil]

TypeOK ==
  /\ clock \in 0..LastClock /\ expired \subseteq minted /\ minted \subseteq Codes
  /\ seed \subseteq minted /\ record \in Record /\ command \in {Nil, "invite"}
  /\ container \in Container \cup {Nil} /\ volume \in Volume /\ process \in Process
  /\ process.stage # "off" => container # Nil
  /\ faults \in 0..MaxFaults
  /\ redeemed \subseteq Codes \X (1..LastClock) /\ bindings \subseteq Accounts \X (1..LastClock)

Init ==
  /\ clock = 0 /\ expired = {} /\ minted = {} /\ seed = {} /\ record = NoRecord /\ command = Nil
  /\ container = Nil /\ process = Off
  /\ volume = [codes |-> [c \in Codes |-> "unknown"], bound |-> Nobody]
  /\ faults = 0 /\ redeemed = {} /\ bindings = {}

Fault == faults < MaxFaults /\ faults' = faults + 1
Moment == clock < LastClock /\ clock' = clock + 1
pod == <<container, volume, process, redeemed, bindings>>

-----------------------------------------------------------------------------
\* kenward invite: the code is saved in the host's store, and then every code that is
\* live there is copied to the member's seed file, one save for each it does not hold.
Invite(c) ==
  /\ command = Nil /\ c \notin minted
  /\ minted' = minted \cup {c} /\ command' = "invite"
  /\ UNCHANGED <<clock, expired, seed, record, faults, pod>>
ToExport == minted \ (expired \cup seed)
Export(c) ==
  /\ command = "invite" /\ c \in ToExport
  /\ seed' = seed \cup {c}
  /\ UNCHANGED <<clock, expired, minted, record, command, faults, pod>>
\* The command is over, or killed, or a save fails and it says that the code is of no use.
InviteEnds ==
  /\ command = "invite" /\ command' = Nil
  /\ IF ToExport = {} THEN UNCHANGED faults ELSE Fault
  /\ UNCHANGED <<clock, expired, minted, seed, record, pod>>

\* kenward revoke, or the dashboard: the record is written in place, perhaps not wholly.
Revoke ==
  /\ Moment
  /\ \/ record' = [at |-> clock', whole |-> TRUE] /\ UNCHANGED faults
     \/ record' = [at |-> clock', whole |-> FALSE] /\ Fault
  /\ UNCHANGED <<expired, minted, seed, command, pod>>

Expire(c) ==
  /\ c \in minted \ expired /\ expired' = expired \cup {c}
  /\ UNCHANGED <<clock, minted, seed, record, command, faults, pod>>

\* The supervisor makes the container, or makes it anew after stopping what runs in it:
\* specFor reads the files now, and the volume stays.
Make ==
  /\ container' = [seed |-> seed, record |-> record] /\ process' = Off
  /\ container' # container
  /\ UNCHANGED <<clock, host, volume, faults, redeemed, bindings>>

-----------------------------------------------------------------------------
\* The pod's process.  It reads the configuration with the state file merged into it.
podFrame == <<clock, host, container, faults, redeemed, bindings>>
Stays == UNCHANGED <<process, volume>>
Load ==
  /\ container # Nil /\ process.stage = "off"
  /\ process' = [Off EXCEPT !.stage = "loaded", !.serves = volume.bound]
  /\ UNCHANGED <<podFrame, volume>>

\* Killed, or a save failed and it gives up its start.
Dies ==
  /\ process.stage # "off" /\ process' = Off /\ Fault
  /\ UNCHANGED <<clock, host, container, volume, redeemed, bindings>>

\* applyRevocation: a binding no newer than the record is cleared, on the volume and in
\* the configuration this process will decide from.  A record that cannot be read ends it.
Revoked == container.record.at > 0

\* A mutant of Clears: the record is a standing order, whenever the claim was made.
ClearsAlways == Revoked /\ process.serves.account # Nil
Clears == Revoked /\ process.serves.account # Nil /\ process.serves.since <= container.record.at

\* A mutant of ApplyRevocation: the configuration in memory is left as it was loaded.
ApplyOnDisk ==
  /\ process.stage = "loaded"
  /\ IF container.record.whole
     THEN process' = [process EXCEPT !.stage = "clean"] ELSE process' = Off
  /\ volume' = IF container.record.whole /\ Clears THEN [volume EXCEPT !.bound = Nobody] ELSE volume
  /\ UNCHANGED podFrame

ApplyRevocation ==
  /\ process.stage = "loaded"
  /\ \/ /\ ~container.record.whole /\ process' = Off /\ UNCHANGED volume
     \/ /\ container.record.whole
        /\ IF Clears
           THEN /\ volume' = [volume EXCEPT !.bound = Nobody]
                /\ process' = [process EXCEPT !.stage = "clean", !.serves = Nobody]
           ELSE /\ process' = [process EXCEPT !.stage = "clean"] /\ UNCHANGED volume
  /\ UNCHANGED podFrame

\* A mutant of Import: what the volume holds of the code is written over.
ImportOver(c) ==
  /\ process.stage = "clean" /\ c \in container.seed
  /\ volume' = [volume EXCEPT !.codes[c] = "live"]
  /\ UNCHANGED <<podFrame, process>>

\* importInvites: a code of the seed that this pod's store does not hold is saved there.
Import(c) ==
  /\ process.stage = "clean" /\ c \in container.seed /\ volume.codes[c] = "unknown"
  /\ volume' = [volume EXCEPT !.codes[c] = "live"]
  /\ UNCHANGED <<podFrame, process>>

\* A mutant of Serve: a seed that could not be imported does not keep it from starting.
ServeAnyway ==
  /\ process.stage = "clean"
  /\ process' = [process EXCEPT !.stage = "ready", !.claimer = (process.serves.account = Nil)]
  /\ UNCHANGED <<podFrame, volume>>

\* NewSingle: the unit of the member who is bound; or nobody's, and a claimer.
Serve ==
  /\ process.stage = "clean" /\ \A c \in container.seed : volume.codes[c] # "unknown"
  /\ process' = [process EXCEPT !.stage = "ready", !.claimer = (process.serves.account = Nil)]
  /\ UNCHANGED <<podFrame, volume>>

-----------------------------------------------------------------------------
\* A claim, dated before its code is looked up; it is spent, and then the account is
\* bound in the place of any other.  Who is bound is the unit's own from then on.
Consume(c, a) ==
  /\ process.stage = "ready" /\ process.claimer /\ process.claim = Nil
  /\ a # process.serves.account
  /\ volume.codes[c] = "live" /\ c \notin expired
  /\ Moment
  /\ process' = [process EXCEPT !.claim = [code |-> c, by |-> a, at |-> clock']]
  /\ volume' = [volume EXCEPT !.codes[c] = "spent"]
  /\ redeemed' = redeemed \cup {<<c, clock'>>}
  /\ UNCHANGED <<host, container, faults, bindings>>

Bind ==
  /\ process.claim # Nil
  /\ LET new == [account |-> process.claim.by, since |-> process.claim.at]
     IN \/ /\ process' = [process EXCEPT !.serves = new, !.claim = Nil]
           /\ volume' = [volume EXCEPT !.bound = new]
           /\ bindings' = bindings \cup {<<process.claim.by, process.claim.at>>} /\ UNCHANGED faults
        \/ \* the state file cannot be saved: the code is spent for nobody
           /\ process' = [process EXCEPT !.claim = Nil] /\ Fault /\ UNCHANGED <<volume, bindings>>
  /\ UNCHANGED <<clock, host, container, redeemed>>

Next ==
  \/ InviteEnds \/ Revoke \/ Make \/ Load \/ Dies \/ ApplyRevocation \/ Serve \/ Bind
  \/ \E c \in Codes : \/ Invite(c) \/ Export(c) \/ Expire(c) \/ Import(c)
                      \/ \E a \in Accounts : Consume(c, a)

Spec == Init /\ [][Next]_crossingVars

-----------------------------------------------------------------------------
\* A pod that was made after a revocation serves only who claimed after it.
RevokedIsNotServed ==
  process.stage = "ready" /\ process.serves.account # Nil => process.serves.since > container.record.at

\* A claim that is later than every revocation stays, however often the pod is made anew
\* with the old record.
LaterClaimStands ==
  \A b \in bindings : b[2] > record.at => volume.bound.since >= b[2]

\* A code is redeemed once, although the seed never learns that it was.
SpentStaysSpent == \A r, s \in redeemed : r[1] = s[1] => r = s

\* A pod that waits for a claim knows every code it was made with.
WaitsForItsCodes ==
  process.stage = "ready" => \A c \in container.seed : volume.codes[c] # "unknown"

\* What these rest on: the dates of the records and the claims in their order, and a
\* process that knows of its volume's binding what the volume holds.
CrossingInv ==
  /\ TypeOK /\ RevokedIsNotServed /\ LaterClaimStands /\ SpentStaysSpent /\ WaitsForItsCodes
  /\ record.at <= clock /\ \A b \in bindings : b[2] <= clock
  /\ container # Nil => container.record.at <= record.at
  /\ volume.bound.account # Nil => volume.bound.since > 0
  /\ \A r \in redeemed : volume.codes[r[1]] = "spent"
  /\ process.stage # "off" => process.serves = volume.bound
  /\ process.stage = "clean" /\ process.serves.account # Nil => process.serves.since > container.record.at
  /\ process.claim # Nil =>
       /\ process.stage = "ready"
       /\ container.record.at < process.claim.at /\ process.claim.at <= clock
       /\ \A b \in bindings : b[2] < process.claim.at

=============================================================================
