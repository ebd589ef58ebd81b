------------------------------- MODULE Fleet -------------------------------
(***************************************************************************)
(* The supervisor of isolated mode: one pod for each member and one for the *)
(* household.  When the host starts on another image it rolls the pods onto *)
(* it one at a time, and then recreates those that hold old files; after    *)
(* that a monitor for each pod brings it back when it is down.  A pod gets  *)
(* its files when it is created: its member's invites and revocation as     *)
(* they are then, kenward.yaml as the host read it at its own start.  The   *)
(* pods and the record of their image outlive the host process.             *)
(***************************************************************************)
EXTENDS Integers, FiniteSets

CONSTANTS
  Pods,        \* the pods, numbered in the order of a roll, the household's last
  Images,      \* the images an operator may install
  MaxStarts,   \* bound: how often the host process starts
  MaxEdits,    \* bound: how often the files that are provisioned into the pods change
  MaxFaults    \* bound: how many pods crash and calls of the runtime fail

NoImage == "none"
Household == Cardinality(Pods)   \* its pod is given no invites and no revocation

FleetAssumption ==
  /\ IsFiniteSet(Pods) /\ Pods = 1..Cardinality(Pods)
  /\ NoImage \notin Images /\ MaxEdits \in Nat

VARIABLES
  pod,       \* the containers: whether they exist and run, on which image, with which files
  record,    \* the pod-image file: the image the pods were last brought up on
  config,    \* the version of kenward.yaml
  files,     \* the version of the members' invites and revocations
  host,      \* the supervisor, its image and the configuration it read, and why it stops
  lock,      \* the pods' operation locks
  halted,    \* the pods that shutdown has stopped
  walk,      \* Start's walk over the pods: a roll, then the recreation of stale pods
  monitor,   \* the monitors
  starts, hostFaults,
  partial,   \* history: a roll began, and its image is not recorded since
  unproven,  \* history: the pods this roll replaced and has not seen hold running
  missed     \* history: the pods this start failed to recreate

fleetVars == <<pod, record, config, files, host, lock, halted, walk, monitor,
               starts, hostFaults, partial, unproven, missed>>

\* A pod holds a configuration and was made when kenward.yaml had some version.
Absent == [exists |-> FALSE, runs |-> FALSE, image |-> NoImage, config |-> 0, made |-> 0, files |-> 0]
Down == [state |-> "down", draining |-> FALSE, cancelled |-> FALSE, image |-> NoImage,
         config |-> 0, files |-> 0]
AtRest == [stage |-> "none", at |-> 0]

FleetTypeOK ==
  /\ pod \in [Pods -> [exists : BOOLEAN, runs : BOOLEAN, image : Images \cup {NoImage},
                    config : 0..MaxEdits, made : 0..MaxEdits, files : 0..MaxEdits]]
  /\ record \in Images \cup {NoImage} /\ config \in 0..MaxEdits /\ files \in 0..MaxEdits
  /\ host \in [state : {"down", "rolling", "refreshing", "serving"}, draining : BOOLEAN,
               cancelled : BOOLEAN, image : Images \cup {NoImage}, config : 0..MaxEdits, files : 0..MaxEdits]
  /\ lock \in [Pods -> {"free", "monitor", "walk"}] /\ halted \subseteq Pods
  /\ walk \in [stage : {"none", "next", "look", "stop", "recreate", "await", "seen"}, at : 0..(Cardinality(Pods) + 1)]
  /\ monitor \in [Pods -> [stage : {"off", "loop", "looked", "held", "ended"}, up : BOOLEAN]]
  /\ unproven \subseteq Pods /\ missed \subseteq Pods /\ partial \in BOOLEAN
  \* a pod's runtime calls have one owner
  /\ \A p \in Pods : /\ (walk.at = p /\ walk.stage \notin {"none", "next"}) => lock[p] = "walk"
                     /\ monitor[p].stage = "held" => lock[p] = "monitor"

FleetInit ==
  /\ pod = [p \in Pods |-> Absent] /\ record = NoImage /\ config = 0 /\ files = 0
  /\ host = Down
  /\ lock = [p \in Pods |-> "free"] /\ halted = {} /\ walk = AtRest
  /\ monitor = [p \in Pods |-> [stage |-> "off", up |-> FALSE]]
  /\ starts = 0 /\ hostFaults = 0 /\ partial = FALSE /\ unproven = {} /\ missed = {}

-----------------------------------------------------------------------------
\* The runtime, with a call that may fail; on a cancelled context it does.
Stopping == host.draining \/ host.cancelled
Fault == hostFaults < MaxFaults /\ hostFaults' = hostFaults + 1
Works == ~host.cancelled /\ UNCHANGED hostFaults
Breaks == IF host.cancelled THEN UNCHANGED hostFaults ELSE Fault
Fresh(p) == [exists |-> TRUE, runs |-> TRUE, image |-> host.image, config |-> host.config,
             made |-> config, files |-> IF p = Household THEN 0 ELSE files]
\* What stale asks of the time a pod was made.
Holds(p) == pod[p].made >= config /\ (p = Household \/ pod[p].files >= files)

\* newIsolated reads kenward.yaml; Start compares the recorded image with its own and
\* rolls when they differ.
Start(image) ==
  /\ host.state = "down" /\ starts < MaxStarts
  /\ starts' = starts + 1
  /\ host' = [state |-> IF record = image THEN "refreshing" ELSE "rolling",
              draining |-> FALSE, cancelled |-> FALSE, image |-> image,
              config |-> config, files |-> files]
  /\ walk' = [stage |-> "next", at |-> 1]
  /\ partial' = (partial \/ record # image)
  /\ UNCHANGED <<halted, pod, record, config, files, lock, monitor, hostFaults, unproven, missed>>

Past == walk.at = Cardinality(Pods) + 1
NextPod == [stage |-> "next", at |-> walk.at + 1]
Refreshing == host' = [host EXCEPT !.state = "refreshing"] /\ walk' = [stage |-> "next", at |-> 1]

\* A mutant of RollEnds: a roll that failed is recorded as well.
RollEndsRecorded ==
  /\ host.state = "rolling" /\ walk.stage = "next" /\ (Past \/ walk.at > 1)
  /\ record' = host.image /\ partial' = FALSE
  /\ Refreshing
  /\ UNCHANGED <<halted, pod, config, files, lock, monitor, starts, hostFaults, unproven, missed>>

\* The roll got past every pod: the image is recorded, unless the file cannot be written.
RollEnds ==
  /\ host.state = "rolling" /\ walk.stage = "next" /\ Past
  /\ \/ record' = host.image /\ partial' = FALSE /\ UNCHANGED hostFaults
     \/ Fault /\ UNCHANGED <<record, partial>>
  /\ Refreshing
  /\ UNCHANGED <<halted, pod, config, files, lock, monitor, starts, unproven, missed>>

\* Roll refuses to begin on a supervisor that stops; between its pods it does not look.
RollRefused ==
  /\ host.state = "rolling" /\ walk = [stage |-> "next", at |-> 1] /\ Stopping
  /\ Refreshing
  /\ UNCHANGED <<halted, pod, record, config, files, lock, monitor, starts, hostFaults, partial, unproven, missed>>

\* The walk takes the next pod.
Take ==
  /\ walk.stage = "next" /\ ~Past /\ lock[walk.at] = "free"
  /\ (host.state = "rolling" /\ walk.at = 1) => ~Stopping
  /\ walk' = [walk EXCEPT !.stage = "look"] /\ lock' = [lock EXCEPT ![walk.at] = "walk"]
  /\ UNCHANGED <<halted, pod, record, config, files, host, monitor, starts, hostFaults, partial, unproven, missed>>

\* The first thing the walk asks; a pod whose age is unknown is stale.
Inspect ==
  /\ walk.stage = "look"
  /\ LET p == walk.at
         leave == ~pod[p].exists \/ (host.state = "refreshing" /\ Holds(p))
     IN \/ /\ Works /\ leave /\ walk' = NextPod /\ lock' = [lock EXCEPT ![p] = "free"]
           /\ UNCHANGED unproven
        \/ /\ (Works /\ ~leave) \/ Breaks
           /\ walk' = [walk EXCEPT !.stage = "stop"]
           /\ IF host.state = "rolling"
              THEN unproven' = unproven \cup {p} ELSE UNCHANGED unproven
           /\ UNCHANGED lock
  /\ UNCHANGED <<halted, pod, record, config, files, host, monitor, starts, partial, missed>>

\* A mutant of GiveUp: the roll keeps rolling through failures.
GiveUpNot(p) ==
  /\ lock' = [lock EXCEPT ![p] = "free"] /\ walk' = NextPod
  /\ UNCHANGED <<host, missed>>

\* A mutant of GiveUp: after a roll, which recreates pods, none is taken to be stale.
GiveUpRefreshed(p) ==
  /\ lock' = [lock EXCEPT ![p] = "free"]
  /\ IF host.state = "rolling"
     THEN /\ host' = [host EXCEPT !.state = "refreshing"]
          /\ walk' = [stage |-> "next", at |-> Cardinality(Pods) + 1] /\ UNCHANGED missed
     ELSE walk' = NextPod /\ missed' = missed \cup {p} /\ UNCHANGED host

\* The first failure ends a roll; the recreation of stale pods goes on with the next.
GiveUp(p) ==
  /\ lock' = [lock EXCEPT ![p] = "free"]
  /\ IF host.state = "rolling" THEN Refreshing /\ UNCHANGED missed
     ELSE walk' = NextPod /\ missed' = missed \cup {p} /\ UNCHANGED host

\* replace: the pod is stopped, and recreated on the host's image with the host's files.
StopPod ==
  /\ walk.stage = "stop"
  /\ LET p == walk.at
     IN \/ Works /\ pod' = [pod EXCEPT ![p].runs = FALSE] /\ walk' = [walk EXCEPT !.stage = "recreate"]
           /\ UNCHANGED <<lock, host, missed>>
        \/ Breaks /\ GiveUp(p) /\ UNCHANGED pod
  /\ UNCHANGED <<halted, record, config, files, monitor, starts, partial, unproven>>

Recreate ==
  /\ walk.stage = "recreate"
  /\ LET p == walk.at
     IN \/ /\ Works /\ pod' = [pod EXCEPT ![p] = Fresh(p)]
           /\ IF host.state = "rolling" THEN walk' = [walk EXCEPT !.stage = "await"] /\ UNCHANGED lock
              ELSE walk' = NextPod /\ lock' = [lock EXCEPT ![p] = "free"]
           /\ UNCHANGED <<host, missed>>
        \/ Breaks /\ GiveUp(p) /\ UNCHANGED pod
  /\ UNCHANGED <<halted, record, config, files, monitor, starts, partial, unproven>>

\* awaitRunning: the new pod is seen running twice; gone again, too late, or a supervisor
\* that stops is a failure.
Await ==
  /\ walk.stage \in {"await", "seen"}
  /\ LET p == walk.at
     IN \/ /\ pod[p].runs /\ Works
           /\ IF walk.stage = "await"
              THEN walk' = [walk EXCEPT !.stage = "seen"] /\ UNCHANGED <<lock, unproven>>
              ELSE /\ walk' = NextPod /\ lock' = [lock EXCEPT ![p] = "free"]
                   /\ unproven' = unproven \ {p}
           /\ UNCHANGED <<host, missed>>
        \/ /\ Fault \/ ((~pod[p].runs \/ Stopping) /\ UNCHANGED hostFaults)
           /\ GiveUp(p) /\ UNCHANGED unproven
  /\ UNCHANGED <<halted, pod, record, config, files, monitor, starts, partial>>

\* The walk is over and the monitors start.
Serve ==
  /\ host.state = "refreshing" /\ walk.stage = "next" /\ Past
  /\ host' = [host EXCEPT !.state = "serving"] /\ walk' = AtRest
  /\ monitor' = [p \in Pods |-> [stage |-> "loop", up |-> FALSE]]
  /\ UNCHANGED <<halted, pod, record, config, files, lock, starts, hostFaults, partial, unproven, missed>>

-----------------------------------------------------------------------------
\* runPod: look whether the supervisor stops, try the pod's lock, and see to the pod.
Look(p) ==
  /\ monitor[p].stage = "loop"
  /\ monitor' = [monitor EXCEPT ![p].stage = IF Stopping THEN "ended" ELSE "looked"]
  /\ UNCHANGED <<halted, pod, record, config, files, host, lock, walk, starts, hostFaults, partial, unproven, missed>>

TryLock(p) ==
  /\ monitor[p].stage = "looked"
  /\ IF lock[p] = "free"
     THEN lock' = [lock EXCEPT ![p] = "monitor"] /\ monitor' = [monitor EXCEPT ![p].stage = "held"]
     ELSE monitor' = [monitor EXCEPT ![p] = [stage |-> "loop", up |-> FALSE]] /\ UNCHANGED lock
  /\ UNCHANGED <<halted, pod, record, config, files, host, walk, starts, hostFaults, partial, unproven, missed>>

Sees(p, up) == monitor' = [monitor EXCEPT ![p] = [stage |-> "loop", up |-> up]]

\* ensureRunning creates a pod that is not there and starts one that is stopped, never on
\* another image than it has; a pod that was up is only looked at.
SeeTo(p) ==
  /\ monitor[p].stage = "held" /\ lock' = [lock EXCEPT ![p] = "free"]
  /\ \/ /\ ~monitor[p].up /\ Works
        /\ pod' = [pod EXCEPT ![p] = IF pod[p].exists THEN [@ EXCEPT !.runs = TRUE] ELSE Fresh(p)]
        /\ Sees(p, TRUE)
     \/ monitor[p].up /\ Works /\ Sees(p, pod[p].runs) /\ UNCHANGED pod
     \/ /\ Breaks /\ Sees(p, FALSE) /\ UNCHANGED pod
  /\ UNCHANGED <<halted, record, config, files, host, walk, starts, partial, unproven, missed>>

-----------------------------------------------------------------------------
\* Stop, called by an update's drain at any time after the start began.
Drain ==
  /\ host.state # "down" /\ ~host.draining
  /\ host' = [host EXCEPT !.draining = TRUE]
  /\ UNCHANGED <<halted, pod, record, config, files, lock, walk, monitor, starts, hostFaults, partial, unproven, missed>>

\* A signal: the calls of the runtime fail from then on, and Start shuts down once it is
\* past its walk.
Cancel ==
  /\ host.state # "down" /\ ~host.cancelled
  /\ host' = [host EXCEPT !.cancelled = TRUE]
  /\ UNCHANGED <<halted, pod, record, config, files, lock, walk, monitor, starts, hostFaults, partial, unproven, missed>>
Draining == host.draining \/ (host.cancelled /\ host.state = "serving")

\* shutdown stops each pod, when its lock is free.
StopOf(p) ==
  /\ Draining /\ p \notin halted /\ lock[p] = "free"
  /\ \/ pod' = [pod EXCEPT ![p].runs = FALSE] /\ UNCHANGED hostFaults
     \/ Fault /\ UNCHANGED pod
  /\ halted' = halted \cup {p}
  /\ UNCHANGED <<record, config, files, host, lock, walk, monitor, starts, partial, unproven, missed>>

\* Every pod was stopped and every monitor has ended: stopAll, and the process ends.
Stopped ==
  /\ host.state = "serving" /\ halted = Pods /\ \A p \in Pods : monitor[p].stage = "ended"
  /\ host' = Down
  /\ halted' = {}
  /\ unproven' = {} /\ missed' = {}
  /\ monitor' = [p \in Pods |-> [stage |-> "off", up |-> FALSE]]
  /\ UNCHANGED <<pod, record, config, files, lock, walk, starts, hostFaults, partial>>

\* The host process is killed.  The pods go on.
Killed ==
  /\ host.state # "down" /\ Fault
  /\ host' = Down /\ walk' = AtRest
  /\ lock' = [p \in Pods |-> "free"] /\ halted' = {}
  /\ unproven' = {} /\ missed' = {}
  /\ monitor' = [p \in Pods |-> [stage |-> "off", up |-> FALSE]]
  /\ UNCHANGED <<pod, record, config, files, starts, partial>>

Crash(p) ==
  /\ pod[p].runs /\ Fault
  /\ pod' = [pod EXCEPT ![p].runs = FALSE]
  /\ UNCHANGED <<halted, record, config, files, host, lock, walk, monitor, starts, partial, unproven, missed>>

\* kenward.yaml is edited, or a member is invited or revoked.
Edit ==
  /\ config + files < MaxEdits
  /\ \/ config' = config + 1 /\ UNCHANGED files
     \/ files' = files + 1 /\ UNCHANGED config
  /\ UNCHANGED <<halted, pod, record, host, lock, walk, monitor, starts, hostFaults, partial, unproven, missed>>

FleetNext ==
  \/ RollEnds \/ RollRefused \/ Take \/ Inspect \/ StopPod \/ Recreate \/ Await \/ Serve
  \/ Drain \/ Cancel \/ Stopped \/ Killed \/ Edit
  \/ \E image \in Images : Start(image)
  \/ \E p \in Pods : Look(p) \/ TryLock(p) \/ SeeTo(p) \/ StopOf(p) \/ Crash(p)

FleetSpec == FleetInit /\ [][FleetNext]_fleetVars

-----------------------------------------------------------------------------
\* A roll that did not finish "leaves the record unchanged ... rather than recording a
\* state the household is not in": unless one is outstanding, every pod there is runs the
\* recorded image, across crashes, restarts and files that change.
RecordIsTrue == ~partial => \A p \in Pods : pod[p].exists => pod[p].image = record

\* A roll stops at its first failure: it never leaves more than one pod on an image that
\* the pod was not seen to hold running on.
OneUnprovenPod == Cardinality(unproven) <= 1

\* A restart delivers an invite or a revocation that was recorded before it, whatever a
\* roll before it did: once the host serves, each member's pod that it did not fail to
\* recreate was given the file.
RestartDelivers ==
  host.state = "serving" =>
    \A p \in Pods \ (missed \cup {Household}) : pod[p].exists => pod[p].files >= host.files

\* And the same of kenward.yaml: "restart kenward" is "a true instruction".
RestartConfigures ==
  host.state = "serving" =>
    \A p \in Pods \ missed : pod[p].exists => pod[p].config >= host.config

=============================================================================
