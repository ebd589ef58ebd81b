---------------------------- MODULE Pods_proofs ----------------------------
(***************************************************************************)
(* Safety of the isolated mode, for any constants.  How a household is     *)
(* brought up and kept up: for any number of pods, any images and any      *)
(* starts, crashes and failures, a roll's progress carries that the pods   *)
(* behind its walk are on the host's image, and what it replaced last that *)
(* nothing behind the walk is unproven; and for any releases, that a       *)
(* process can come back from its update, whatever it does next.  And what *)
(* meets at a pod's border: what crosses to it, the household's space in   *)
(* its store, who is enrolled, and what it is made with.  Each of these is *)
(* one part of MCParts; its inductive invariant is in its own module, and  *)
(* its variables go here by the part's letter and their names there.       *)
(***************************************************************************)
EXTENDS MCParts, TLAPS, FiniteSetTheorems

Last == Cardinality(Pods)

PodTypes ==
  /\ pod \in [Pods -> [exists : BOOLEAN, runs : BOOLEAN, image : Images \cup {NoImage},
                    config : Nat, made : Nat, files : Nat]]
  /\ config \in Nat /\ files \in Nat

HostTypes ==
  host \in [state : {"down", "rolling", "refreshing", "serving"}, draining : BOOLEAN,
            cancelled : BOOLEAN, image : Images \cup {NoImage}, config : Nat, files : Nat]

WalkTypes ==
  /\ walk \in [stage : {"none", "next", "look", "stop", "recreate", "await", "seen"}, at : Nat]
  /\ walk.stage = "none" => walk.at = 0
  /\ walk.stage = "next" => walk.at \in 1..(Last + 1)
  /\ walk.stage \notin {"none", "next"} => walk.at \in Pods
  /\ host.state \in {"down", "serving"} => walk.stage = "none"
  /\ walk.stage \in {"await", "seen"} => host.state = "rolling"

MonitorTypes ==
  /\ monitor \in [Pods -> [stage : {"off", "loop", "looked", "held", "ended"}, up : BOOLEAN]]
  /\ host.state # "serving" => \A p \in Pods : monitor[p].stage = "off"

\* Unless a roll is outstanding the host and every pod are on the recorded image.
ImageInv ==
  /\ host.state = "rolling" => partial
  /\ ~partial /\ host.state # "down" => record = host.image
  /\ ~partial => \A p \in Pods : pod[p].exists => pod[p].image = record

\* The pods behind a roll's walk are on the host's image, and so is the one it awaits.
BehindInv ==
  host.state = "rolling" =>
    /\ \A p \in Pods : p < walk.at /\ pod[p].exists => pod[p].image = host.image
    /\ walk.stage \in {"await", "seen"} => pod[walk.at].image = host.image

\* Only the pod a roll is at can be unproven, and only from its replacement on.
UnprovenInv ==
  /\ unproven \subseteq Pods /\ \A p, q \in unproven : p = q
  /\ host.state = "down" => unproven = {}
  /\ host.state = "rolling" /\ walk.stage \in {"next", "look"} => unproven = {}
  /\ host.state = "rolling" => unproven \subseteq {walk.at}

\* Past the walk that recreates stale pods, a member's pod that was not missed was made
\* from files no older than those the host found at its start.
Given(p) == pod[p].exists => pod[p].files >= host.files
DeliverInv ==
  /\ host.files <= files
  /\ \A p \in Pods \ (missed \cup {Household}) :
       host.state = "serving" \/ (host.state = "refreshing" /\ p < walk.at) => Given(p)

FleetInv ==
  PodTypes /\ HostTypes /\ WalkTypes /\ MonitorTypes /\ ImageInv /\ BehindInv /\ UnprovenInv /\ DeliverInv

LEMMA FleetInitInv == ASSUME FleetAssumption, FleetInit PROVE FleetInv
<1>1. PodTypes
  BY DEF FleetInit, PodTypes, Absent, Down
<1>2. HostTypes /\ host.state = "down"
  BY DEF FleetInit, HostTypes, Down
<1>3. WalkTypes /\ MonitorTypes
  BY <1>2 DEF FleetInit, WalkTypes, MonitorTypes, AtRest
<1>4. ImageInv /\ BehindInv /\ UnprovenInv /\ DeliverInv
  BY <1>2 DEF FleetInit, ImageInv, BehindInv, UnprovenInv, DeliverInv, Given, Absent, Down
<1> QED
  BY <1>1, <1>2, <1>3, <1>4 DEF FleetInv

PodType == [exists : BOOLEAN, runs : BOOLEAN, image : Images \cup {NoImage},
            config : Nat, made : Nat, files : Nat]

\* What a pod is told apart by here, and what a step may do to the pods: some of them run
\* or not, or one is created with the host's image and files.
SameMake(q) ==
  /\ pod'[q].exists = pod[q].exists /\ pod'[q].image = pod[q].image /\ pod'[q].files = pod[q].files
  /\ pod'[q].config = pod[q].config /\ pod'[q].made = pod[q].made
PodMoves ==
  /\ pod' \in [Pods -> PodType]
  /\ \A q \in Pods :
       \/ SameMake(q)
       \/ /\ pod'[q] = Fresh(q)
          /\ (walk.stage = "recreate" /\ q = walk.at) \/ monitor[q].stage = "held"

LEMMA RunsOrNot ==
  ASSUME PodTypes, NEW p \in Pods, NEW b \in BOOLEAN, pod' = [pod EXCEPT ![p] = [@ EXCEPT !.runs = b]]
  PROVE  PodMoves
<1>1. pod[p] \in PodType
  BY DEF PodTypes, PodType
<1> DEFINE new == [pod[p] EXCEPT !.runs = b]
<1>2. /\ new \in PodType /\ new.exists = pod[p].exists /\ new.image = pod[p].image
      /\ new.files = pod[p].files /\ new.config = pod[p].config /\ new.made = pod[p].made
  BY <1>1 DEF PodType
<1>3. pod' = [pod EXCEPT ![p] = new]
  OBVIOUS
<1> HIDE DEF new
<1>4. pod' \in [Pods -> PodType]
  BY <1>2, <1>3 DEF PodTypes, PodType
<1>5. \A q \in Pods : pod'[q] = IF q = p THEN new ELSE pod[q]
  BY <1>3 DEF PodTypes
<1> QED
  BY <1>2, <1>4, <1>5 DEF PodMoves, SameMake

LEMMA StoppedPod ==
  ASSUME PodTypes, NEW p \in Pods, pod' = [pod EXCEPT ![p].runs = FALSE]
  PROVE  PodMoves
<1>1. pod' = [pod EXCEPT ![p] = [@ EXCEPT !.runs = FALSE]]
  OBVIOUS
<1> QED
  BY <1>1, RunsOrNot

LEMMA CreatedPod ==
  ASSUME PodTypes, HostTypes, NEW p \in Pods, pod' = [pod EXCEPT ![p] = Fresh(p)],
         (walk.stage = "recreate" /\ p = walk.at) \/ monitor[p].stage = "held"
  PROVE  PodMoves
<1>1. Fresh(p) \in PodType
  BY DEF Fresh, PodType, PodTypes, HostTypes
<1>2. \A q \in Pods : pod'[q] = IF q = p THEN Fresh(p) ELSE pod[q]
  BY DEF PodTypes
<1>3. pod' \in [Pods -> PodType]
  BY <1>1 DEF PodTypes, PodType
<1> QED
  BY <1>2, <1>3 DEF PodMoves, SameMake

LEMMA SamePods ==
  ASSUME PodTypes, pod' = pod
  PROVE  PodMoves
BY DEF PodTypes, PodMoves, PodType, SameMake

LEMMA PodsStep ==
  ASSUME FleetAssumption, PodTypes, HostTypes, WalkTypes, [FleetNext]_fleetVars
  PROVE  PodMoves /\ config' \in Nat /\ files' \in Nat
<1>0. config \in Nat /\ files \in Nat
  BY DEF PodTypes
<1> USE <1>0, SamePods
<1>1. CASE RollEnds
  BY <1>1 DEF RollEnds, Refreshing
<1>2. CASE RollRefused
  BY <1>2 DEF RollRefused, Refreshing
<1>3. CASE Take
  BY <1>3 DEF Take, Past
<1>4. CASE Inspect
  BY <1>4 DEF Inspect, NextPod
<1>5. CASE StopPod
  <2>1. /\ walk.at \in Pods /\ config' = config /\ files' = files
        /\ pod' = pod \/ pod' = [pod EXCEPT ![walk.at].runs = FALSE]
    BY <1>5 DEF StopPod, WalkTypes
  <2> QED
    BY <2>1, StoppedPod
<1>6. CASE Recreate
  <2>1. /\ walk.at \in Pods /\ config' = config /\ files' = files /\ walk.stage = "recreate"
        /\ pod' = pod \/ pod' = [pod EXCEPT ![walk.at] = Fresh(walk.at)]
    BY <1>6 DEF Recreate, WalkTypes
  <2> QED
    BY <2>1, CreatedPod
<1>7. CASE Await
  BY <1>7 DEF Await, GiveUp, Refreshing, NextPod
<1>8. CASE Serve
  BY <1>8 DEF Serve, AtRest
<1>9. CASE Drain
  BY <1>9 DEF Drain
<1>10. CASE Cancel
  BY <1>10 DEF Cancel
<1>11. CASE Stopped
  BY <1>11 DEF Stopped, Down
<1>12. CASE Killed
  BY <1>12 DEF Killed, AtRest, Down
<1>13. CASE Edit
  BY <1>13 DEF Edit
<1>14. ASSUME NEW image \in Images, Start(image) PROVE PodMoves /\ config' \in Nat /\ files' \in Nat
  BY <1>14 DEF Start
<1>15. ASSUME NEW p \in Pods, Look(p) PROVE PodMoves /\ config' \in Nat /\ files' \in Nat
  BY <1>15 DEF Look
<1>16. ASSUME NEW p \in Pods, TryLock(p) PROVE PodMoves /\ config' \in Nat /\ files' \in Nat
  BY <1>16 DEF TryLock
<1>17. ASSUME NEW p \in Pods, SeeTo(p) PROVE PodMoves /\ config' \in Nat /\ files' \in Nat
  <2>1. /\ config' = config /\ files' = files /\ monitor[p].stage = "held"
        /\ \/ pod' = pod
           \/ pod' = [pod EXCEPT ![p] = Fresh(p)]
           \/ pod' = [pod EXCEPT ![p] = [@ EXCEPT !.runs = TRUE]]
    <3>1. CASE pod[p].exists
      BY <1>17, <3>1 DEF SeeTo
    <3>2. CASE ~pod[p].exists
      BY <1>17, <3>2 DEF SeeTo
    <3> QED
      BY ONLY <3>1, <3>2
  <2> QED
    BY <2>1, CreatedPod, RunsOrNot
<1>18. ASSUME NEW p \in Pods, StopOf(p) PROVE PodMoves /\ config' \in Nat /\ files' \in Nat
  <2>1. config' = config /\ files' = files /\ (pod' = pod \/ pod' = [pod EXCEPT ![p].runs = FALSE])
    BY <1>18 DEF StopOf
  <2> QED
    BY <2>1, StoppedPod
<1>19. ASSUME NEW p \in Pods, Crash(p) PROVE PodMoves /\ config' \in Nat /\ files' \in Nat
  <2>1. config' = config /\ files' = files /\ pod' = [pod EXCEPT ![p].runs = FALSE]
    BY <1>19 DEF Crash
  <2> QED
    BY <2>1, StoppedPod
<1>20. CASE UNCHANGED fleetVars
  BY <1>20 DEF fleetVars
<1> QED
  BY ONLY [FleetNext]_fleetVars, <1>1, <1>2, <1>3, <1>4, <1>5, <1>6, <1>7, <1>8,
     <1>9, <1>10, <1>11, <1>12, <1>13, <1>14, <1>15, <1>16, <1>17, <1>18, <1>19, <1>20 DEF FleetNext

LEMMA HostTypesStep ==
  ASSUME FleetAssumption, PodTypes, HostTypes, [FleetNext]_fleetVars
  PROVE  HostTypes'
<1> USE DEF HostTypes
<1>1. CASE RollEnds
  BY <1>1 DEF RollEnds, Refreshing
<1>2. CASE RollRefused
  BY <1>2 DEF RollRefused, Refreshing
<1>3. CASE Take
  BY <1>3 DEF Take, Past
<1>4. CASE Inspect
  BY <1>4 DEF Inspect, NextPod
<1>5. CASE StopPod
  BY <1>5 DEF StopPod, GiveUp, Refreshing, NextPod
<1>6. CASE Recreate
  BY <1>6 DEF Recreate, GiveUp, Refreshing, NextPod, Fresh
<1>7. CASE Await
  BY <1>7 DEF Await, GiveUp, Refreshing, NextPod
<1>8. CASE Serve
  BY <1>8 DEF Serve, AtRest
<1>9. CASE Drain
  BY <1>9 DEF Drain
<1>10. CASE Cancel
  BY <1>10 DEF Cancel
<1>11. CASE Stopped
  BY <1>11 DEF Stopped, Down
<1>12. CASE Killed
  BY <1>12 DEF Killed, AtRest, Down
<1>13. CASE Edit
  BY <1>13 DEF Edit
<1>14. ASSUME NEW image \in Images, Start(image) PROVE HostTypes'
  BY <1>14 DEF Start, PodTypes
<1>15. ASSUME NEW p \in Pods, Look(p) PROVE HostTypes'
  BY <1>15 DEF Look
<1>16. ASSUME NEW p \in Pods, TryLock(p) PROVE HostTypes'
  BY <1>16 DEF TryLock
<1>17. ASSUME NEW p \in Pods, SeeTo(p) PROVE HostTypes'
  BY <1>17 DEF SeeTo, Sees, Fresh
<1>18. ASSUME NEW p \in Pods, StopOf(p) PROVE HostTypes'
  BY <1>18 DEF StopOf
<1>19. ASSUME NEW p \in Pods, Crash(p) PROVE HostTypes'
  BY <1>19 DEF Crash
<1>20. CASE UNCHANGED fleetVars
  BY <1>20 DEF fleetVars
<1> QED
  BY ONLY [FleetNext]_fleetVars, <1>1, <1>2, <1>3, <1>4, <1>5, <1>6, <1>7, <1>8,
     <1>9, <1>10, <1>11, <1>12, <1>13, <1>14, <1>15, <1>16, <1>17, <1>18, <1>19, <1>20 DEF FleetNext

LEMMA WalkTypesStep ==
  ASSUME FleetAssumption, HostTypes, WalkTypes, [FleetNext]_fleetVars
  PROVE  WalkTypes'
<1>0. Last \in Nat /\ Pods = 1..Last
  BY FS_CardinalityType DEF FleetAssumption, Last
<1> USE <1>0 DEF HostTypes, WalkTypes
<1>1. CASE RollEnds
  BY <1>1 DEF RollEnds, Refreshing
<1>2. CASE RollRefused
  BY <1>2 DEF RollRefused, Refreshing
<1>3. CASE Take
  <2>1. walk.stage = "next" /\ walk.at \in Pods /\ host' = host
    BY <1>0, <1>3 DEF Take, Past, WalkTypes, Last
  <2>2. walk' = [walk EXCEPT !.stage = "look"]
    BY ONLY <1>3 DEF Take
  <2> QED
    BY <2>1, <2>2
<1>4. CASE Inspect
  BY <1>4 DEF Inspect, NextPod
<1>5. CASE StopPod
  BY <1>5 DEF StopPod, GiveUp, Refreshing, NextPod
<1>6. CASE Recreate
  BY <1>6 DEF Recreate, GiveUp, Refreshing, NextPod, Fresh
<1>7. CASE Await
  BY <1>7 DEF Await, GiveUp, Refreshing, NextPod
<1>8. CASE Serve
  BY <1>8 DEF Serve, AtRest
<1>9. CASE Drain
  BY <1>9 DEF Drain
<1>10. CASE Cancel
  BY <1>10 DEF Cancel
<1>11. CASE Stopped
  BY <1>11 DEF Stopped, Down
<1>12. CASE Killed
  BY <1>12 DEF Killed, AtRest, Down
<1>13. CASE Edit
  BY <1>13 DEF Edit
<1>14. ASSUME NEW image \in Images, Start(image) PROVE WalkTypes'
  BY <1>14 DEF Start
<1>15. ASSUME NEW p \in Pods, Look(p) PROVE WalkTypes'
  BY <1>15 DEF Look
<1>16. ASSUME NEW p \in Pods, TryLock(p) PROVE WalkTypes'
  BY <1>16 DEF TryLock
<1>17. ASSUME NEW p \in Pods, SeeTo(p) PROVE WalkTypes'
  BY <1>17 DEF SeeTo, Sees, Fresh
<1>18. ASSUME NEW p \in Pods, StopOf(p) PROVE WalkTypes'
  BY <1>18 DEF StopOf
<1>19. ASSUME NEW p \in Pods, Crash(p) PROVE WalkTypes'
  BY <1>19 DEF Crash
<1>20. CASE UNCHANGED fleetVars
  BY <1>20 DEF fleetVars
<1> QED
  BY ONLY [FleetNext]_fleetVars, <1>1, <1>2, <1>3, <1>4, <1>5, <1>6, <1>7, <1>8,
     <1>9, <1>10, <1>11, <1>12, <1>13, <1>14, <1>15, <1>16, <1>17, <1>18, <1>19, <1>20 DEF FleetNext

\* A monitor's step sets its own entry.
LEMMA OneMonitor ==
  ASSUME MonitorTypes, host.state = "serving", host' = host, NEW p \in Pods,
         NEW m \in [stage : {"off", "loop", "looked", "held", "ended"}, up : BOOLEAN],
         monitor' = [monitor EXCEPT ![p] = m]
  PROVE  MonitorTypes'
BY DEF MonitorTypes

LEMMA MonitorTypesStep ==
  ASSUME FleetAssumption, PodTypes, HostTypes, MonitorTypes, [FleetNext]_fleetVars
  PROVE  MonitorTypes'
<1> USE DEF HostTypes, MonitorTypes
<1>1. CASE RollEnds
  BY <1>1 DEF RollEnds, Refreshing
<1>2. CASE RollRefused
  BY <1>2 DEF RollRefused, Refreshing
<1>3. CASE Take
  BY <1>3 DEF Take, Past
<1>4. CASE Inspect
  BY <1>4 DEF Inspect, NextPod
<1>5. CASE StopPod
  BY <1>5 DEF StopPod, GiveUp, Refreshing, NextPod
<1>6. CASE Recreate
  BY <1>6 DEF Recreate, GiveUp, Refreshing, NextPod, Fresh
<1>7. CASE Await
  BY <1>7 DEF Await, GiveUp, Refreshing, NextPod
<1>8. CASE Serve
  BY <1>8 DEF Serve, AtRest
<1>9. CASE Drain
  BY <1>9 DEF Drain
<1>10. CASE Cancel
  BY <1>10 DEF Cancel
<1>11. CASE Stopped
  BY <1>11 DEF Stopped, Down
<1>12. CASE Killed
  BY <1>12 DEF Killed, AtRest, Down
<1>13. CASE Edit
  BY <1>13 DEF Edit
<1>14. ASSUME NEW image \in Images, Start(image) PROVE MonitorTypes'
  BY <1>14 DEF Start
<1>15. ASSUME NEW p \in Pods, Look(p) PROVE MonitorTypes'
  BY <1>15 DEF Look
<1>16. ASSUME NEW p \in Pods, TryLock(p) PROVE MonitorTypes'
  <2>1. host' = host /\ host.state = "serving"
    BY <1>16 DEF TryLock
  <2>2. monitor[p].up \in BOOLEAN
    OBVIOUS
  <2>3. \/ monitor' = [monitor EXCEPT ![p].stage = "held"]
        \/ monitor' = [monitor EXCEPT ![p] = [stage |-> "loop", up |-> FALSE]]
    BY ONLY <1>16 DEF TryLock
  <2>4. CASE monitor' = [monitor EXCEPT ![p].stage = "held"]
    BY <2>1, <2>4
  <2>5. CASE monitor' = [monitor EXCEPT ![p] = [stage |-> "loop", up |-> FALSE]]
    BY <2>1, <2>5, OneMonitor
  <2> QED
    BY ONLY <2>3, <2>4, <2>5
<1>17. ASSUME NEW p \in Pods, SeeTo(p) PROVE MonitorTypes'
  <2>1. host' = host /\ host.state = "serving"
    BY <1>17 DEF SeeTo
  <2>2. PICK b : Sees(p, b) /\ b \in {TRUE, FALSE, pod[p].runs}
    BY ONLY <1>17 DEF SeeTo
  <2>3. pod[p].runs \in BOOLEAN
    BY DEF PodTypes
  <2>4. [stage |-> "loop", up |-> b] \in [stage : {"off", "loop", "looked", "held", "ended"}, up : BOOLEAN]
    BY <2>2, <2>3
  <2> QED
    BY <2>1, <2>2, <2>4, OneMonitor DEF Sees
<1>18. ASSUME NEW p \in Pods, StopOf(p) PROVE MonitorTypes'
  BY <1>18 DEF StopOf
<1>19. ASSUME NEW p \in Pods, Crash(p) PROVE MonitorTypes'
  BY <1>19 DEF Crash
<1>20. CASE UNCHANGED fleetVars
  BY <1>20 DEF fleetVars
<1> QED
  BY ONLY [FleetNext]_fleetVars, <1>1, <1>2, <1>3, <1>4, <1>5, <1>6, <1>7, <1>8,
     <1>9, <1>10, <1>11, <1>12, <1>13, <1>14, <1>15, <1>16, <1>17, <1>18, <1>19, <1>20 DEF FleetNext

\* Whatever makes a pod makes it on the image of a host that is up, and a roll makes only
\* the pod it is at.
Makes ==
  \A q \in Pods :
    \/ SameMake(q)
    \/ /\ pod'[q].image = host.image /\ host.state # "down"
       /\ host.state = "rolling" => q = walk.at /\ walk.stage = "recreate"

LEMMA MadeOnTheHostImage ==
  ASSUME FleetAssumption, FleetInv, [FleetNext]_fleetVars
  PROVE  Makes
<1>1. PodMoves
  BY PodsStep DEF FleetInv
<1>2. \A q \in Pods : Fresh(q).image = host.image
  BY DEF Fresh
<1>3. /\ walk.stage = "recreate" => host.state # "down"
      /\ \A q \in Pods : monitor[q].stage = "held" => host.state = "serving"
  BY DEF FleetInv, HostTypes, WalkTypes, MonitorTypes
<1>4. ASSUME NEW q \in Pods, ~SameMake(q)
      PROVE  /\ pod'[q].image = host.image /\ host.state # "down"
             /\ host.state = "rolling" => q = walk.at /\ walk.stage = "recreate"
  <2>1. /\ pod'[q] = Fresh(q)
        /\ (walk.stage = "recreate" /\ q = walk.at) \/ monitor[q].stage = "held"
    BY <1>1, <1>4 DEF PodMoves
  <2> QED
    BY <1>2, <1>3, <2>1
<1> QED
  BY <1>4 DEF Makes

LEMMA ImageStep ==
  ASSUME FleetAssumption, FleetInv, [FleetNext]_fleetVars
  PROVE  ImageInv'
<1>0. /\ HostTypes /\ WalkTypes /\ MonitorTypes /\ ImageInv /\ BehindInv /\ Makes
      /\ Last \in Nat /\ Pods = 1..Last
  BY MadeOnTheHostImage, FS_CardinalityType DEF FleetInv, FleetAssumption, Last
<1> USE <1>0 DEF HostTypes, WalkTypes, ImageInv, Makes, SameMake
<1>1. CASE RollEnds
  <2>1. CASE record' = record /\ partial' = partial
    BY <1>1, <2>1 DEF RollEnds, Refreshing
  <2>2. CASE record' = host.image /\ partial' = FALSE
    <3>1. walk.at = Last + 1 /\ pod' = pod /\ host.state = "rolling"
      BY <1>1 DEF RollEnds, Past, Last
    <3>2. \A p \in Pods : pod[p].exists => pod[p].image = host.image
      BY <3>1 DEF BehindInv
    <3> QED
      BY <1>1, <2>2, <3>1, <3>2 DEF RollEnds, Refreshing
  <2> QED
    BY ONLY <1>1, <2>1, <2>2 DEF RollEnds
<1>2. CASE RollRefused
  BY <1>2 DEF RollRefused, Refreshing
<1>3. CASE Take
  BY <1>3 DEF Take, Past
<1>4. CASE Inspect
  BY <1>4 DEF Inspect, NextPod
<1>5. CASE StopPod
  BY <1>5 DEF StopPod, GiveUp, Refreshing, NextPod
<1>6. CASE Recreate
  BY <1>6 DEF Recreate, GiveUp, Refreshing, NextPod
<1>7. CASE Await
  BY <1>7 DEF Await, GiveUp, Refreshing, NextPod
<1>8. CASE Serve
  BY <1>8 DEF Serve, AtRest
<1>9. CASE Drain
  BY <1>9 DEF Drain
<1>10. CASE Cancel
  BY <1>10 DEF Cancel
<1>11. CASE Stopped
  BY <1>11 DEF Stopped, Down
<1>12. CASE Killed
  BY <1>12 DEF Killed, AtRest, Down
<1>13. CASE Edit
  BY <1>13 DEF Edit
<1>14. ASSUME NEW image \in Images, Start(image) PROVE ImageInv'
  BY <1>14 DEF Start
<1>15. ASSUME NEW p \in Pods, Look(p) PROVE ImageInv'
  BY <1>15 DEF Look
<1>16. ASSUME NEW p \in Pods, TryLock(p) PROVE ImageInv'
  BY <1>16 DEF TryLock
<1>17. ASSUME NEW p \in Pods, SeeTo(p) PROVE ImageInv'
  BY <1>17 DEF SeeTo, Sees
<1>18. ASSUME NEW p \in Pods, StopOf(p) PROVE ImageInv'
  BY <1>18 DEF StopOf
<1>19. ASSUME NEW p \in Pods, Crash(p) PROVE ImageInv'
  BY <1>19 DEF Crash
<1>20. CASE UNCHANGED fleetVars
  BY <1>20 DEF fleetVars
<1> QED
  BY ONLY [FleetNext]_fleetVars, <1>1, <1>2, <1>3, <1>4, <1>5, <1>6, <1>7, <1>8,
     <1>9, <1>10, <1>11, <1>12, <1>13, <1>14, <1>15, <1>16, <1>17, <1>18, <1>19, <1>20 DEF FleetNext

LEMMA BehindStep ==
  ASSUME FleetAssumption, FleetInv, [FleetNext]_fleetVars
  PROVE  BehindInv'
<1>0. /\ HostTypes /\ WalkTypes /\ BehindInv /\ Makes
      /\ Last \in Nat /\ Pods = 1..Last
  BY MadeOnTheHostImage, FS_CardinalityType DEF FleetInv, FleetAssumption, Last
<1> USE <1>0 DEF HostTypes, WalkTypes, BehindInv, Makes, SameMake
<1>1. CASE RollEnds
  BY <1>1 DEF RollEnds, Refreshing
<1>2. CASE RollRefused
  BY <1>2 DEF RollRefused, Refreshing
<1>3. CASE Take
  BY <1>3 DEF Take, Past
<1>4. CASE Inspect
  BY <1>4 DEF Inspect, NextPod
<1>5. CASE StopPod
  BY <1>5 DEF StopPod, GiveUp, Refreshing, NextPod
<1>6. CASE Recreate
  <2>1. /\ walk.stage = "recreate" /\ walk.at \in Pods
        /\ host' = host \/ host' = [host EXCEPT !.state = "refreshing"]
    BY <1>6 DEF Recreate, GiveUp, Refreshing
  <2>2. CASE host.state = "rolling" /\ host'.state = "rolling"
    <3>1. /\ pod' = [pod EXCEPT ![walk.at] = Fresh(walk.at)] /\ walk' = [walk EXCEPT !.stage = "await"]
          /\ host' = host
      BY <1>6, <2>2 DEF Recreate, GiveUp, Refreshing
    <3>2. pod'[walk.at].image = host.image
      BY <2>1, <3>1 DEF Fresh, FleetInv, PodTypes
    <3>3. walk'.at = walk.at
      BY <3>1
    <3>4. ASSUME NEW p \in Pods, p < walk.at, pod'[p].exists
          PROVE  pod'[p].image = host.image
      <4>1. pod'[p] = pod[p]
        BY <2>1, <3>1, <3>4 DEF FleetInv, PodTypes
      <4> QED
        BY <2>2, <3>4, <4>1
    <3> QED
      BY <3>1, <3>2, <3>3, <3>4
  <2>3. CASE host'.state # "rolling"
    BY <2>3
  <2> QED
    BY <2>1, <2>2, <2>3
<1>7. CASE Await
  BY <1>7 DEF Await, GiveUp, Refreshing, NextPod
<1>8. CASE Serve
  BY <1>8 DEF Serve, AtRest
<1>9. CASE Drain
  BY <1>9 DEF Drain
<1>10. CASE Cancel
  BY <1>10 DEF Cancel
<1>11. CASE Stopped
  BY <1>11 DEF Stopped, Down
<1>12. CASE Killed
  BY <1>12 DEF Killed, AtRest, Down
<1>13. CASE Edit
  BY <1>13 DEF Edit
<1>14. ASSUME NEW image \in Images, Start(image) PROVE BehindInv'
  BY <1>14 DEF Start
<1>15. ASSUME NEW p \in Pods, Look(p) PROVE BehindInv'
  BY <1>15 DEF Look
<1>16. ASSUME NEW p \in Pods, TryLock(p) PROVE BehindInv'
  BY <1>16 DEF TryLock
<1>17. ASSUME NEW p \in Pods, SeeTo(p) PROVE BehindInv'
  BY <1>17 DEF SeeTo, Sees
<1>18. ASSUME NEW p \in Pods, StopOf(p) PROVE BehindInv'
  BY <1>18 DEF StopOf
<1>19. ASSUME NEW p \in Pods, Crash(p) PROVE BehindInv'
  BY <1>19 DEF Crash
<1>20. CASE UNCHANGED fleetVars
  BY <1>20 DEF fleetVars
<1> QED
  BY ONLY [FleetNext]_fleetVars, <1>1, <1>2, <1>3, <1>4, <1>5, <1>6, <1>7, <1>8,
     <1>9, <1>10, <1>11, <1>12, <1>13, <1>14, <1>15, <1>16, <1>17, <1>18, <1>19, <1>20 DEF FleetNext

LEMMA UnprovenStep ==
  ASSUME FleetAssumption, FleetInv, [FleetNext]_fleetVars
  PROVE  UnprovenInv'
<1> USE DEF FleetInv, HostTypes, WalkTypes, UnprovenInv
<1>1. CASE RollEnds
  BY <1>1 DEF RollEnds, Refreshing
<1>2. CASE RollRefused
  BY <1>2 DEF RollRefused, Refreshing
<1>3. CASE Take
  BY <1>3 DEF Take, Past
<1>4. CASE Inspect
  BY <1>4 DEF Inspect, NextPod
<1>5. CASE StopPod
  BY <1>5 DEF StopPod, GiveUp, Refreshing, NextPod
<1>6. CASE Recreate
  BY <1>6 DEF Recreate, GiveUp, Refreshing, NextPod, Fresh
<1>7. CASE Await
  BY <1>7 DEF Await, GiveUp, Refreshing, NextPod
<1>8. CASE Serve
  BY <1>8 DEF Serve, AtRest
<1>9. CASE Drain
  BY <1>9 DEF Drain
<1>10. CASE Cancel
  BY <1>10 DEF Cancel
<1>11. CASE Stopped
  BY <1>11 DEF Stopped, Down
<1>12. CASE Killed
  BY <1>12 DEF Killed, AtRest, Down
<1>13. CASE Edit
  BY <1>13 DEF Edit
<1>14. ASSUME NEW image \in Images, Start(image) PROVE UnprovenInv'
  BY <1>14 DEF Start
<1>15. ASSUME NEW p \in Pods, Look(p) PROVE UnprovenInv'
  BY <1>15 DEF Look
<1>16. ASSUME NEW p \in Pods, TryLock(p) PROVE UnprovenInv'
  BY <1>16 DEF TryLock
<1>17. ASSUME NEW p \in Pods, SeeTo(p) PROVE UnprovenInv'
  BY <1>17 DEF SeeTo, Sees, Fresh
<1>18. ASSUME NEW p \in Pods, StopOf(p) PROVE UnprovenInv'
  BY <1>18 DEF StopOf
<1>19. ASSUME NEW p \in Pods, Crash(p) PROVE UnprovenInv'
  BY <1>19 DEF Crash
<1>20. CASE UNCHANGED fleetVars
  BY <1>20 DEF fleetVars
<1> QED
  BY ONLY [FleetNext]_fleetVars, <1>1, <1>2, <1>3, <1>4, <1>5, <1>6, <1>7, <1>8,
     <1>9, <1>10, <1>11, <1>12, <1>13, <1>14, <1>15, <1>16, <1>17, <1>18, <1>19, <1>20 DEF FleetNext

\* Whatever makes a member's pod makes it from the files there are, so no pod that was
\* given what the host found can lose it.
LEMMA GivenStays ==
  ASSUME FleetAssumption, FleetInv, [FleetNext]_fleetVars,
         host'.files = host.files, files' \in {files, files + 1}
  PROVE  /\ \A q \in Pods \ {Household} : Given(q) => Given(q)'
         /\ host'.files <= files'
<1>1. PodMoves
  BY PodsStep DEF FleetInv
<1>2. \A q \in Pods \ {Household} : Fresh(q).files = files
  BY DEF Fresh
<1>3. files \in Nat /\ host.files \in Nat /\ host.files <= files
  BY DEF FleetInv, PodTypes, HostTypes, DeliverInv
<1>4. ASSUME NEW q \in Pods \ {Household}, Given(q) PROVE Given(q)'
  <2>1. \/ pod'[q].exists = pod[q].exists /\ pod'[q].files = pod[q].files
        \/ pod'[q].files = files
    BY <1>1, <1>2 DEF PodMoves, SameMake
  <2> QED
    BY <1>3, <1>4, <2>1 DEF Given
<1> QED
  BY <1>3, <1>4

\* What the walk leaves behind was given what the host found, or was missed.
LEMMA WalkDelivers ==
  ASSUME FleetAssumption, FleetInv, Inspect \/ StopPod \/ Recreate \/ Await
  PROVE  DeliverInv'
<1>0. /\ PodTypes /\ HostTypes /\ WalkTypes /\ DeliverInv /\ host.files <= files
      /\ Last \in Nat /\ Pods = 1..Last
  BY FS_CardinalityType DEF FleetInv, FleetAssumption, Last, DeliverInv
<1>1. /\ files' = files /\ host'.files = host.files
      /\ host' = host \/ (host'.state = "refreshing" /\ walk'.at = 1)
      /\ walk.at \in Pods
  BY <1>0 DEF Inspect, StopPod, Recreate, Await, GiveUp, Refreshing, HostTypes, WalkTypes
<1>2. \A q \in Pods \ {Household} : Given(q) => Given(q)'
  BY <1>1, GivenStays DEF FleetNext
<1>3. host'.files <= files'
  BY <1>0, <1>1
<1>w. PICK v \in Pods : v = walk.at
  BY <1>1
<1>4. CASE host' = host /\ walk'.at = walk.at /\ missed' = missed
  BY <1>0, <1>2, <1>3, <1>4 DEF DeliverInv
<1>5. CASE host'.state = "refreshing" /\ walk'.at = 1
  BY <1>0, <1>3, <1>5 DEF DeliverInv
<1>6. CASE host' = host /\ walk' = NextPod /\ host.state = "rolling"
  BY <1>0, <1>3, <1>6 DEF DeliverInv
<1>7. CASE /\ host' = host /\ walk' = NextPod /\ host.state # "rolling"
           /\ missed' = missed \cup {v}
  BY <1>0, <1>2, <1>3, <1>7, <1>w DEF DeliverInv, NextPod
<1>8. CASE /\ host' = host /\ walk' = NextPod /\ host.state # "rolling"
           /\ missed' = missed /\ (v # Household => Given(v)')
  BY <1>0, <1>2, <1>3, <1>8, <1>w DEF DeliverInv, NextPod
\* A walk that gives a pod up ends its roll, or has missed the pod.
<1>g. CASE GiveUp(walk.at)
  <2>1. CASE host.state = "rolling"
    BY <1>0, <1>5, <1>g, <2>1 DEF GiveUp, Refreshing, HostTypes
  <2>2. CASE host.state # "rolling"
    BY <1>7, <1>g, <1>w, <2>2 DEF GiveUp
  <2> QED
    BY ONLY <2>1, <2>2
<1>9. CASE Inspect
  <2>1. CASE walk' = [walk EXCEPT !.stage = "stop"]
    BY <1>0, <1>4, <1>9, <2>1 DEF Inspect, WalkTypes
  <2>2. CASE walk' = NextPod /\ walk' # [walk EXCEPT !.stage = "stop"]
    <3>1. /\ host' = host /\ missed' = missed /\ pod' = pod
          /\ ~pod[v].exists \/ (host.state = "refreshing" /\ Holds(v))
      BY <1>9, <1>w, <2>2 DEF Inspect
    <3>2. v # Household => Given(v)
      BY <1>0, <3>1 DEF Holds, Given, PodTypes, HostTypes
    <3> QED
      BY <1>2, <1>6, <1>8, <2>2, <3>1, <3>2
  <2> QED
    BY ONLY <1>9, <2>1, <2>2 DEF Inspect
<1>10. CASE StopPod
  <2>1. CASE ~GiveUp(walk.at)
    <3>1. host' = host /\ missed' = missed /\ walk' = [walk EXCEPT !.stage = "recreate"]
      BY ONLY <1>10, <2>1 DEF StopPod
    <3> QED
      BY <1>0, <1>4, <3>1 DEF WalkTypes
  <2> QED
    BY ONLY <1>g, <2>1
<1>11. CASE Recreate
  <2>1. CASE ~GiveUp(walk.at)
    <3>1. /\ pod' = [pod EXCEPT ![v] = Fresh(v)] /\ host' = host /\ missed' = missed
          /\ IF host.state = "rolling" THEN walk' = [walk EXCEPT !.stage = "await"] ELSE walk' = NextPod
      BY ONLY <1>11, <1>w, <2>1 DEF Recreate
    <3>2. pod'[v] = Fresh(v)
      BY <1>0, <3>1 DEF PodTypes
    <3>3. v # Household => Given(v)'
      BY <1>0, <1>1, <3>1, <3>2 DEF Given, Fresh
    <3> QED
      BY <1>0, <1>4, <1>8, <3>1, <3>3 DEF WalkTypes
  <2> QED
    BY ONLY <1>g, <2>1
<1>12. CASE Await
  <2>1. host.state = "rolling"
    BY <1>0, <1>12 DEF Await, WalkTypes
  <2>2. CASE ~GiveUp(walk.at)
    <3>1. /\ host' = host /\ missed' = missed
          /\ walk' = [walk EXCEPT !.stage = "seen"] \/ walk' = NextPod
      BY ONLY <1>12, <2>2 DEF Await
    <3> QED
      BY <1>0, <1>4, <1>6, <2>1, <3>1 DEF WalkTypes
  <2> QED
    BY ONLY <1>g, <2>2
<1> QED
  BY ONLY FleetAssumption, Inspect \/ StopPod \/ Recreate \/ Await, <1>9, <1>10, <1>11, <1>12

LEMMA DeliverStep ==
  ASSUME FleetAssumption, FleetInv, [FleetNext]_fleetVars
  PROVE  DeliverInv'
<1>0. /\ PodTypes /\ HostTypes /\ WalkTypes /\ DeliverInv /\ host.files <= files
      /\ Last \in Nat /\ Pods = 1..Last
  BY FS_CardinalityType DEF FleetInv, FleetAssumption, Last, DeliverInv
<1>1. files \in Nat /\ host.files \in Nat
  BY <1>0 DEF PodTypes, HostTypes
\* A step that leaves the host's progress alone.
<1>2. ASSUME /\ files' \in {files, files + 1} /\ host'.files = host.files
             /\ host'.state = host.state /\ walk'.at = walk.at /\ missed' = missed
      PROVE  DeliverInv'
  <2>1. \A q \in Pods \ {Household} : Given(q) => Given(q)'
    BY <1>2, GivenStays
  <2> QED
    BY <1>0, <1>1, <1>2, <2>1, GivenStays DEF DeliverInv
\* A step after which no pod is owed anything yet.
<1>3. ASSUME /\ files' = files /\ host'.files <= files
             /\ host'.state \in {"down", "rolling"} \/ (host'.state = "refreshing" /\ walk'.at = 1)
      PROVE  DeliverInv'
  BY <1>0, <1>1, <1>3 DEF DeliverInv
<1>4. CASE Inspect \/ StopPod \/ Recreate \/ Await
  BY <1>4, WalkDelivers
<1>5. CASE RollEnds \/ RollRefused
  BY <1>0, <1>3, <1>5 DEF RollEnds, RollRefused, Refreshing, HostTypes
<1>6. CASE Take
  <2>1. /\ files' = files /\ host' = host /\ missed' = missed
        /\ walk' = [walk EXCEPT !.stage = "look"]
    BY ONLY <1>6 DEF Take
  <2> QED
    BY <1>0, <1>2, <2>1 DEF WalkTypes
<1>7. CASE Serve
  <2>1. /\ files' = files /\ host' = [host EXCEPT !.state = "serving"] /\ missed' = missed
        /\ host.state = "refreshing" /\ walk.at = Last + 1
    BY <1>7 DEF Serve, Past, Last
  <2>2. \A q \in Pods \ {Household} : Given(q) => Given(q)'
    BY <1>0, <2>1, GivenStays, <1>7 DEF FleetNext, HostTypes
  <2>3. \A p \in Pods : p < walk.at
    BY <1>0, <2>1
  <2>4. host'.files = host.files
    BY <1>0, <2>1 DEF HostTypes
  <2> QED
    BY <1>0, <2>1, <2>2, <2>3, <2>4 DEF DeliverInv
<1>8. CASE Drain \/ Cancel
  BY <1>0, <1>2, <1>8 DEF Drain, Cancel, HostTypes
<1>9. CASE Stopped \/ Killed
  BY <1>1, <1>3, <1>9 DEF Stopped, Killed, Down
<1>10. CASE Edit
  BY <1>0, <1>2, <1>10 DEF Edit
<1>11. ASSUME NEW image \in Images, Start(image) PROVE DeliverInv'
  BY <1>1, <1>3, <1>11 DEF Start
<1>12. ASSUME NEW p \in Pods, Look(p) \/ TryLock(p) \/ SeeTo(p) PROVE DeliverInv'
  BY <1>2, <1>12 DEF Look, TryLock, SeeTo
<1>13. ASSUME NEW p \in Pods, StopOf(p) \/ Crash(p) PROVE DeliverInv'
  BY <1>2, <1>13 DEF StopOf, Crash
<1>14. CASE UNCHANGED fleetVars
  BY <1>2, <1>14 DEF fleetVars
<1> QED
  BY ONLY [FleetNext]_fleetVars, <1>4, <1>5, <1>6, <1>7, <1>8, <1>9, <1>10, <1>11, <1>12,
     <1>13, <1>14 DEF FleetNext

LEMMA FleetNextInv ==
  ASSUME FleetAssumption, FleetInv, [FleetNext]_fleetVars
  PROVE  FleetInv'
<1>1. PodMoves /\ config' \in Nat /\ files' \in Nat
  BY PodsStep DEF FleetInv
<1>2. PodTypes'
  BY <1>1 DEF PodMoves, PodTypes, PodType
<1> QED
  BY <1>2, HostTypesStep, WalkTypesStep, MonitorTypesStep, ImageStep, BehindStep, UnprovenStep, DeliverStep
     DEF FleetInv

LEMMA FleetInvariant == ASSUME FleetAssumption PROVE FleetSpec => []FleetInv
<1>1. FleetInit => FleetInv
  BY FleetInitInv
<1>2. FleetInv /\ [FleetNext]_fleetVars => FleetInv'
  BY FleetNextInv
<1> QED
  BY <1>1, <1>2, PTL DEF FleetSpec

-----------------------------------------------------------------------------
\* Unless a roll is outstanding, every pod runs the recorded image (isolated.go Start).
THEOREM TheRecordIsTrue == ASSUME FleetAssumption PROVE FleetSpec => []RecordIsTrue
<1>1. FleetInv => RecordIsTrue
  BY DEF FleetInv, ImageInv, RecordIsTrue
<1> QED
  BY <1>1, FleetInvariant, PTL

\* A roll leaves at most one pod on an image it was not seen to hold running on
\* (isolated.go Roll).
THEOREM AtMostOneUnproven == ASSUME FleetAssumption PROVE FleetSpec => []OneUnprovenPod
<1>1. FleetInv => OneUnprovenPod
  <2> SUFFICES ASSUME FleetInv PROVE Cardinality(unproven) <= 1
    BY DEF OneUnprovenPod
  <2>1. CASE unproven = {}
    BY <2>1, FS_EmptySet
  <2>2. ASSUME NEW p \in unproven PROVE Cardinality(unproven) <= 1
    <3>1. unproven = {p}
      BY DEF FleetInv, UnprovenInv
    <3> QED
      BY <3>1, FS_Singleton
  <2> QED
    BY <2>1, <2>2
<1> QED
  BY <1>1, FleetInvariant, PTL

\* A restart delivers what was recorded before it, whatever a roll, a crash or another
\* pod's failure did meanwhile (isolated.go recreateStalePods).
THEOREM RestartsDeliver == ASSUME FleetAssumption PROVE FleetSpec => []RestartDelivers
<1>1. FleetInv => RestartDelivers
  BY DEF FleetInv, DeliverInv, Given, RestartDelivers
<1> QED
  BY <1>1, FleetInvariant, PTL

-----------------------------------------------------------------------------
\* The rest of the types: how far the versions of the files go, who owns a pod's lock, and
\* the sets that only the walk and the shutdown write.
HostFits ==
  /\ config <= MaxEdits /\ files <= MaxEdits
  /\ host.config <= MaxEdits /\ host.files <= MaxEdits
PodsFit ==
  \A p \in Pods : pod[p].config <= MaxEdits /\ pod[p].made <= MaxEdits /\ pod[p].files <= MaxEdits
Owners ==
  /\ lock \in [Pods -> {"free", "monitor", "walk"}]
  /\ walk.stage \notin {"none", "next"} => lock[walk.at] = "walk"
  /\ \A p \in Pods : monitor[p].stage = "held" => lock[p] = "monitor"
Sets ==
  record \in Images \cup {NoImage} /\ partial \in BOOLEAN /\ halted \subseteq Pods /\ missed \subseteq Pods
FleetFits == HostFits /\ PodsFit /\ Owners /\ Sets

LEMMA HostFitsStep ==
  ASSUME FleetAssumption, PodTypes, HostTypes, HostFits, [FleetNext]_fleetVars
  PROVE  HostFits'
<1>1. CASE Edit
  <2>1. MaxEdits \in Nat /\ config \in Nat /\ files \in Nat /\ config + files < MaxEdits
    BY <1>1 DEF Edit, PodTypes, FleetAssumption
  <2>2. host' = host /\ ((config' = config + 1 /\ files' = files) \/ (files' = files + 1 /\ config' = config))
    BY ONLY <1>1 DEF Edit
  <2> QED
    BY <2>1, <2>2 DEF HostFits
<1>2. ASSUME NEW image \in Images, Start(image) PROVE HostFits'
  BY <1>2 DEF Start, HostFits
<1>3. CASE Stopped \/ Killed
  BY <1>3 DEF Stopped, Killed, Down, HostFits, FleetAssumption
<1>4. ASSUME config' = config, files' = files, host'.config = host.config, host'.files = host.files
      PROVE  HostFits'
  BY <1>4 DEF HostFits
<1>5. CASE RollEnds \/ RollRefused \/ Serve \/ Drain \/ Cancel
  <2>1. config' = config /\ files' = files
    BY <1>5 DEF RollEnds, RollRefused, Serve, Drain, Cancel
  <2>2. \/ host' = [host EXCEPT !.state = "refreshing"] \/ host' = [host EXCEPT !.state = "serving"]
        \/ host' = [host EXCEPT !.draining = TRUE] \/ host' = [host EXCEPT !.cancelled = TRUE]
    BY <1>5 DEF RollEnds, RollRefused, Serve, Drain, Cancel, Refreshing
  <2> QED
    BY <1>4, <2>1, <2>2 DEF HostTypes
<1>6. CASE StopPod \/ Recreate \/ Await
  <2>1. config' = config /\ files' = files
    BY <1>6 DEF StopPod, Recreate, Await
  <2>2. host' = host \/ host' = [host EXCEPT !.state = "refreshing"]
    BY <1>6 DEF StopPod, Recreate, Await, GiveUp, Refreshing
  <2> QED
    BY <1>4, <2>1, <2>2 DEF HostTypes
<1>7. CASE Take \/ Inspect \/ UNCHANGED fleetVars
  BY <1>4, <1>7 DEF Take, Inspect, fleetVars
<1>8. ASSUME NEW p \in Pods, Look(p) \/ TryLock(p) \/ SeeTo(p) \/ StopOf(p) \/ Crash(p) PROVE HostFits'
  BY <1>4, <1>8 DEF Look, TryLock, SeeTo, StopOf, Crash
<1> QED
  BY ONLY [FleetNext]_fleetVars, <1>1, <1>2, <1>3, <1>5, <1>6, <1>7, <1>8 DEF FleetNext

LEMMA PodsFitStep ==
  ASSUME FleetAssumption, PodTypes, HostTypes, WalkTypes, HostFits, PodsFit, [FleetNext]_fleetVars
  PROVE  PodsFit'
<1>1. PodMoves
  BY PodsStep
<1>2. ASSUME NEW q \in Pods
      PROVE  pod'[q].config <= MaxEdits /\ pod'[q].made <= MaxEdits /\ pod'[q].files <= MaxEdits
  <2>1. CASE SameMake(q)
    BY <2>1 DEF SameMake, PodsFit
  <2>2. CASE pod'[q] = Fresh(q)
    BY <2>2 DEF Fresh, HostFits, FleetAssumption
  <2> QED
    BY <1>1, <2>1, <2>2 DEF PodMoves
<1> QED
  BY <1>2 DEF PodsFit

\* A pod whose lock is given back was the walk's own, or the monitor's own.
LEMMA OwnersStep ==
  ASSUME FleetAssumption, FleetInv, Owners, [FleetNext]_fleetVars
  PROVE  Owners'
<1>0. /\ walk.stage \notin {"none", "next"} => walk.at \in Pods
      /\ walk \in [stage : {"none", "next", "look", "stop", "recreate", "await", "seen"}, at : Nat]
      /\ host.state \in {"down", "serving"} => walk.stage = "none"
      /\ monitor \in [Pods -> [stage : {"off", "loop", "looked", "held", "ended"}, up : BOOLEAN]]
  BY DEF FleetInv, WalkTypes, MonitorTypes
<1>1. ASSUME UNCHANGED <<lock, monitor>>,
             walk'.stage \in {"none", "next"} \/ (walk'.at = walk.at /\ walk.stage \notin {"none", "next"})
      PROVE  Owners'
  BY <1>1 DEF Owners
\* the walk frees the pod it is at, and goes on
<1>2. ASSUME walk.stage \notin {"none", "next"}, lock' = [lock EXCEPT ![walk.at] = "free"],
             monitor' = monitor, walk'.stage = "next"
      PROVE  Owners'
  BY <1>0, <1>2 DEF Owners
<1>3. CASE RollEnds \/ RollRefused \/ Serve
  BY <1>1, <1>3 DEF RollEnds, RollRefused, Serve, Refreshing, AtRest, Owners
<1>4. CASE Take
  <2>1. walk.at \in Pods /\ lock[walk.at] = "free"
    <3>1. Last \in Nat /\ Pods = 1..Last
      BY FS_CardinalityType DEF FleetAssumption, Last
    <3> QED
      BY <1>4, <3>1 DEF Take, Past, FleetInv, WalkTypes, Last
  <2>2. walk' = [walk EXCEPT !.stage = "look"] /\ lock' = [lock EXCEPT ![walk.at] = "walk"] /\ monitor' = monitor
    BY <1>4 DEF Take
  <2>3. walk'.at = walk.at
    BY <1>0, <2>2
  <2> QED
    BY <1>0, <2>1, <2>2, <2>3 DEF Owners
<1>5. CASE Inspect \/ StopPod \/ Recreate \/ Await
  <2>1. walk.stage \notin {"none", "next"} /\ monitor' = monitor
    BY <1>5 DEF Inspect, StopPod, Recreate, Await
  <2>2. \/ lock' = lock /\ walk' \in {[walk EXCEPT !.stage = s] : s \in {"stop", "recreate", "await", "seen"}}
        \/ lock' = [lock EXCEPT ![walk.at] = "free"] /\ walk'.stage = "next"
    BY <1>5 DEF Inspect, StopPod, Recreate, Await, GiveUp, Refreshing, NextPod
  <2>3. CASE lock' = lock /\ walk' \in {[walk EXCEPT !.stage = s] : s \in {"stop", "recreate", "await", "seen"}}
    <3>1. walk'.at = walk.at
      BY <1>0, <2>3
    <3> QED
      BY <1>1, <2>1, <2>3, <3>1
  <2> QED
    BY <1>2, <2>1, <2>2, <2>3
<1>6. CASE Drain \/ Cancel \/ Edit \/ UNCHANGED fleetVars
  BY <1>1, <1>6 DEF Drain, Cancel, Edit, fleetVars
<1>7. CASE Stopped \/ Killed
  <2>1. /\ walk'.stage = "none" /\ \A p \in Pods : monitor'[p].stage = "off"
        /\ lock' = lock \/ lock' = [p \in Pods |-> "free"]
    BY <1>0, <1>7 DEF Stopped, Killed, AtRest
  <2> QED
    BY <2>1 DEF Owners
<1>8. ASSUME NEW image \in Images, Start(image) PROVE Owners'
  BY <1>1, <1>8 DEF Start
\* a monitor's step is that of its own pod
<1>9. ASSUME NEW p \in Pods, Look(p) PROVE Owners'
  <2>1. lock' = lock /\ walk' = walk /\ \A q \in Pods : monitor'[q].stage = "held" => monitor[q].stage = "held"
    BY <1>0, <1>9 DEF Look
  <2> QED
    BY <2>1 DEF Owners
<1>10. ASSUME NEW p \in Pods, TryLock(p) PROVE Owners'
  <2>1. CASE lock[p] = "free"
    BY <1>0, <1>10, <2>1 DEF TryLock, Owners
  <2>2. CASE lock[p] # "free"
    <3>1. lock' = lock /\ walk' = walk /\ \A q \in Pods : monitor'[q].stage = "held" => monitor[q].stage = "held"
      BY <1>0, <1>10, <2>2 DEF TryLock
    <3> QED
      BY <3>1 DEF Owners
  <2> QED
    BY <2>1, <2>2
<1>11. ASSUME NEW p \in Pods, SeeTo(p) PROVE Owners'
  <2>1. walk' = walk /\ lock' = [lock EXCEPT ![p] = "free"] /\ lock[p] = "monitor"
    BY <1>11 DEF SeeTo, Owners
  <2>2. PICK up : monitor' = [monitor EXCEPT ![p] = [stage |-> "loop", up |-> up]]
    BY <1>11 DEF SeeTo, Sees
  <2> QED
    BY <1>0, <2>1, <2>2 DEF Owners
<1>12. ASSUME NEW p \in Pods, StopOf(p) \/ Crash(p) PROVE Owners'
  BY <1>12 DEF StopOf, Crash, Owners
<1> QED
  BY ONLY [FleetNext]_fleetVars, <1>3, <1>4, <1>5, <1>6, <1>7, <1>8, <1>9, <1>10, <1>11, <1>12 DEF FleetNext

LEMMA SetsStep ==
  ASSUME FleetAssumption, HostTypes, WalkTypes, Sets, [FleetNext]_fleetVars
  PROVE  Sets'
<1>1. CASE RollEnds
  BY <1>1 DEF RollEnds, Sets, HostTypes
<1>2. CASE StopPod \/ Recreate \/ Await
  <2>1. walk.at \in Pods /\ UNCHANGED <<record, partial, halted>>
    BY <1>2 DEF StopPod, Recreate, Await, WalkTypes
  <2>2. missed' = missed \/ missed' = missed \cup {walk.at}
    BY <1>2 DEF StopPod, Recreate, Await, GiveUp
  <2> QED
    BY <2>1, <2>2 DEF Sets
<1>3. CASE RollRefused \/ Take \/ Inspect \/ Serve \/ Drain \/ Cancel \/ Edit \/ UNCHANGED fleetVars
  BY <1>3 DEF RollRefused, Take, Inspect, Serve, Drain, Cancel, Edit, fleetVars, Sets
<1>4. CASE Stopped \/ Killed
  BY <1>4 DEF Stopped, Killed, Sets
<1>5. ASSUME NEW image \in Images, Start(image) PROVE Sets'
  BY <1>5 DEF Start, Sets
<1>6. ASSUME NEW p \in Pods, Look(p) \/ TryLock(p) \/ SeeTo(p) \/ StopOf(p) \/ Crash(p) PROVE Sets'
  BY <1>6 DEF Look, TryLock, SeeTo, StopOf, Crash, Sets
<1> QED
  BY ONLY [FleetNext]_fleetVars, <1>1, <1>2, <1>3, <1>4, <1>5, <1>6 DEF FleetNext

LEMMA FleetFitsInit == ASSUME FleetAssumption, FleetInit PROVE FleetFits
<1>1. HostFits /\ PodsFit
  BY DEF FleetAssumption, FleetInit, HostFits, PodsFit, Absent, Down
<1>2. Owners /\ Sets
  BY DEF FleetInit, Owners, Sets, AtRest
<1> QED
  BY <1>1, <1>2 DEF FleetFits

LEMMA FleetFitsStep ==
  ASSUME FleetAssumption, FleetInv, FleetFits, [FleetNext]_fleetVars
  PROVE  FleetFits'
BY HostFitsStep, PodsFitStep, OwnersStep, SetsStep DEF FleetInv, FleetFits

LEMMA FleetTyped == ASSUME FleetAssumption, FleetInv, FleetFits PROVE FleetTypeOK
<1>0. Last \in Nat /\ Pods = 1..Last /\ MaxEdits \in Nat
  BY FS_CardinalityType DEF FleetAssumption, Last
<1>1. pod \in [Pods -> [exists : BOOLEAN, runs : BOOLEAN, image : Images \cup {NoImage},
                    config : 0..MaxEdits, made : 0..MaxEdits, files : 0..MaxEdits]]
  BY <1>0 DEF FleetInv, PodTypes, FleetFits, PodsFit
<1>2. /\ config \in 0..MaxEdits /\ files \in 0..MaxEdits
      /\ host \in [state : {"down", "rolling", "refreshing", "serving"}, draining : BOOLEAN,
               cancelled : BOOLEAN, image : Images \cup {NoImage}, config : 0..MaxEdits, files : 0..MaxEdits]
  BY <1>0 DEF FleetInv, PodTypes, HostTypes, FleetFits, HostFits
<1>3. walk \in [stage : {"none", "next", "look", "stop", "recreate", "await", "seen"},
                at : 0..(Cardinality(Pods) + 1)]
  <2>1. WalkTypes /\ Cardinality(Pods) = Last
    BY DEF FleetInv, Last
  <2>2. walk.at \in 0..(Last + 1)
    BY ONLY <1>0, <2>1 DEF WalkTypes
  <2> QED
    BY ONLY <2>1, <2>2 DEF WalkTypes
<1>4. /\ monitor \in [Pods -> [stage : {"off", "loop", "looked", "held", "ended"}, up : BOOLEAN]]
      /\ unproven \subseteq Pods
  BY DEF FleetInv, MonitorTypes, UnprovenInv
<1>5. /\ record \in Images \cup {NoImage} /\ partial \in BOOLEAN /\ halted \subseteq Pods /\ missed \subseteq Pods
      /\ lock \in [Pods -> {"free", "monitor", "walk"}]
  BY DEF FleetFits, Sets, Owners
<1>6. \A p \in Pods : /\ (walk.at = p /\ walk.stage \notin {"none", "next"}) => lock[p] = "walk"
                      /\ monitor[p].stage = "held" => lock[p] = "monitor"
  BY DEF FleetFits, Owners
<1> QED
  BY <1>1, <1>2, <1>3, <1>4, <1>5, <1>6 DEF FleetTypeOK

\* The versions of the files are those that were written, and each pod's runtime calls have
\* one owner, its monitor or the walk (isolated.go).
THEOREM FleetTypesHold == ASSUME FleetAssumption PROVE FleetSpec => []FleetTypeOK
<1>1. FleetInit => FleetFits
  BY FleetFitsInit
<1>2. FleetInv /\ FleetFits /\ [FleetNext]_fleetVars => FleetFits'
  BY FleetFitsStep
<1>3. FleetInv /\ FleetFits => FleetTypeOK
  BY FleetTyped
<1> QED
  BY <1>1, <1>2, <1>3, FleetInvariant, PTL DEF FleetSpec

-----------------------------------------------------------------------------
\* The stages of an apply that has begun to drain.
DrainStages == {"draining", "swapping", "failed"}
Up == process.stage \in {"serving", "returned", "stopping"}

UpdatesInv ==
  /\ UpdatesTypeOK /\ DrainedComesBack
  \* the scheduler runs only in a process that serves
  /\ ~Up => scheduler.stage = "none"
  \* a drain is on record, and whoever was silenced is on the way to a restart
  /\ scheduler.stage \in DrainStages => drained
  /\ silenced /\ process.stage # "down" => scheduler.stage \in DrainStages \/ wanted
  \* what is installed is healthy, or pending with a healthy version behind it
  /\ scheduler.stage \in {"draining", "swapping"} => ~disk.pending
  /\ ~disk.pending => disk.version \notin Sick
  /\ disk.pending => disk.previous \notin Sick
  /\ process.stage = "resuming" => process.version = disk.version
  /\ Up /\ process.version \in Sick => disk.pending

\* The type of the scalars, and the joint condition of UpdatesTypeOK.
Scalars ==
  /\ household \in {"stopped", "serving"} /\ declined \subseteq Releases
  /\ drained \in BOOLEAN /\ wanted \in BOOLEAN /\ cancelled \in BOOLEAN
  /\ signalled \in BOOLEAN /\ silenced \in BOOLEAN
  /\ code \in {"none", "ok", "failure", "restart"}
  /\ process.stage \in {"resuming", "serving", "returned"} /\ cancelled => signalled \/ wanted

Records ==
  /\ disk \in [version : Versions, previous : Versions, pending : BOOLEAN]
  /\ process \in [stage : {"down", "resuming", "serving", "returned", "stopping"}, version : Versions]
  /\ scheduler \in [stage : {"none", "waiting", "applying", "draining", "swapping", "failed", "ended"},
                    release : Versions]

LEMMA TypesApart == UpdatesTypeOK <=> Records /\ Scalars /\ boots \in 0..MaxBoots
BY DEF UpdatesTypeOK, Records, Scalars

LEMMA UpdatesInitInv == ASSUME UpdatesAssumption, UpdatesInit PROVE UpdatesInv
<1>1. MaxBoots \in Nat /\ 0 \notin Sick /\ 0 \in Versions
  BY DEF UpdatesAssumption, Versions
<1>2. Records
  BY <1>1 DEF UpdatesInit, Records
<1>3. Scalars
  BY Zenon DEF UpdatesInit, Scalars
<1>4. boots \in 0..MaxBoots
  BY <1>1 DEF UpdatesInit
<1> QED
  BY <1>1, <1>2, <1>3, <1>4, TypesApart DEF UpdatesInit, UpdatesInv, DrainedComesBack, Up, DrainStages

LEMMA RecordsStep ==
  ASSUME UpdatesAssumption, UpdatesTypeOK, [UpdatesNext]_updatesVars
  PROVE  Records'
<1>0. Records /\ Releases \subseteq Versions /\ 0 \in Versions
  BY TypesApart DEF Versions
<1> USE <1>0 DEF Records
<1>1. CASE Boot
  BY <1>1 DEF Boot
<1>2. CASE Resume
  <2>1. /\ process.stage = "resuming"
        /\ UNCHANGED <<declined, drained, wanted, cancelled, signalled, boots, silenced>>
    BY ONLY <1>2 DEF Resume
  <2>2. CASE Serves /\ disk' = disk
    BY <2>1, <2>2 DEF Serves, Asleep
  <2>3. CASE disk.version \notin Sick /\ Serves /\ disk' = [disk EXCEPT !.pending = FALSE]
    BY <2>1, <2>3 DEF Serves, Asleep
  <2>4. CASE /\ disk.pending /\ Exits("restart")
             /\ disk' = [disk EXCEPT !.version = disk.previous, !.pending = FALSE]
    BY <2>1, <2>4 DEF Exits
  <2> QED
    BY ONLY <1>2, <2>2, <2>3, <2>4 DEF Resume
<1>3. CASE Refused
  BY <1>3 DEF Refused, Asleep
<1>4. CASE BeginDrain
  BY <1>4 DEF BeginDrain
<1>5. CASE Drained
  BY <1>5 DEF Drained
<1>6. CASE Swap
  <2>1. disk.version \in Versions /\ scheduler.release \in Versions
    BY <1>0
  <2>2. disk' = disk \/ disk' = [version |-> scheduler.release, previous |-> disk.version, pending |-> TRUE]
    BY ONLY <1>6 DEF Swap
  <2>3. scheduler' = Asleep \/ scheduler' = [scheduler EXCEPT !.stage = "failed"]
    BY ONLY <1>6 DEF Swap
  <2>4. process' = process
    BY ONLY <1>6 DEF Swap
  <2>5. disk' \in [version : Versions, previous : Versions, pending : BOOLEAN]
    <3>1. CASE disk' = disk
      BY <1>0, <3>1
    <3>2. CASE disk' = [version |-> scheduler.release, previous |-> disk.version, pending |-> TRUE]
      BY <2>1, <3>2
    <3> QED
      BY ONLY <2>2, <3>1, <3>2
  <2> QED
    BY <2>3, <2>4, <2>5 DEF Asleep
<1>7. CASE Recover
  BY <1>7 DEF Recover, Asleep
<1>8. CASE LoopEnds
  BY <1>8 DEF LoopEnds
<1>9. CASE Signal
  BY <1>9 DEF Signal
<1>10. CASE Notice
  BY <1>10 DEF Notice
<1>11. CASE StartReturns
  BY <1>11 DEF StartReturns
<1>12. CASE Proceed
  BY <1>12 DEF Proceed
<1>13. CASE Exit
  BY <1>13 DEF Exit, Exits
<1>14. ASSUME NEW r \in Releases, Check(r) PROVE Records'
  BY <1>14 DEF Check
<1>15. CASE UNCHANGED updatesVars
  BY <1>15 DEF updatesVars
<1> QED
  BY ONLY [UpdatesNext]_updatesVars, <1>1, <1>2, <1>3, <1>4, <1>5, <1>6, <1>7, <1>8,
     <1>9, <1>10, <1>11, <1>12, <1>13, <1>14, <1>15 DEF UpdatesNext

LEMMA ScalarsStep ==
  ASSUME UpdatesAssumption, UpdatesTypeOK, [UpdatesNext]_updatesVars
  PROVE  Scalars'
<1>0. Records /\ Scalars /\ MaxBoots \in Nat
  BY TypesApart DEF UpdatesAssumption
<1> USE <1>0, UpdatesAssumption DEF Records, Scalars, UpdatesAssumption
<1>1. CASE Boot
  BY <1>1 DEF Boot
<1>2. CASE Resume
  <2>1. /\ process.stage = "resuming"
        /\ UNCHANGED <<declined, drained, wanted, cancelled, signalled, boots, silenced>>
    BY ONLY <1>2 DEF Resume
  <2>2. CASE Serves /\ disk' = disk
    BY <2>1, <2>2 DEF Serves, Asleep
  <2>3. CASE disk.version \notin Sick /\ Serves /\ disk' = [disk EXCEPT !.pending = FALSE]
    BY <2>1, <2>3 DEF Serves, Asleep
  <2>4. CASE /\ disk.pending /\ Exits("restart")
             /\ disk' = [disk EXCEPT !.version = disk.previous, !.pending = FALSE]
    BY <2>1, <2>4 DEF Exits
  <2> QED
    BY ONLY <1>2, <2>2, <2>3, <2>4 DEF Resume
<1>3. CASE Refused
  BY <1>3 DEF Refused, Asleep
<1>4. CASE BeginDrain
  BY <1>4 DEF BeginDrain
<1>5. CASE Drained
  BY <1>5 DEF Drained
<1>6. CASE Swap
  BY <1>6 DEF Swap, Asleep
<1>7. CASE Recover
  BY <1>7 DEF Recover, Asleep
<1>8. CASE LoopEnds
  BY <1>8 DEF LoopEnds
<1>9. CASE Signal
  BY <1>9 DEF Signal
<1>10. CASE Notice
  BY <1>10 DEF Notice
<1>11. CASE StartReturns
  BY <1>11 DEF StartReturns
<1>12. CASE Proceed
  BY <1>12 DEF Proceed
<1>13. CASE Exit
  BY <1>13 DEF Exit, Exits
<1>14. ASSUME NEW r \in Releases, Check(r) PROVE Scalars'
  BY <1>14 DEF Check
<1>15. CASE UNCHANGED updatesVars
  BY <1>15 DEF updatesVars
<1> QED
  BY ONLY [UpdatesNext]_updatesVars, <1>1, <1>2, <1>3, <1>4, <1>5, <1>6, <1>7, <1>8,
     <1>9, <1>10, <1>11, <1>12, <1>13, <1>14, <1>15 DEF UpdatesNext

LEMMA UpdatesNextInv ==
  ASSUME UpdatesAssumption, UpdatesInv, [UpdatesNext]_updatesVars
  PROVE  UpdatesInv'
<1>0. UpdatesTypeOK' /\ Records /\ Scalars
  <2>1. UpdatesTypeOK /\ MaxBoots \in Nat
    BY DEF UpdatesInv, UpdatesAssumption
  <2>2. boots' \in 0..MaxBoots
    BY <2>1 DEF UpdatesTypeOK, UpdatesNext, Boot, Resume, Refused, BeginDrain, Drained, Swap, Recover, LoopEnds,
       Signal, Notice, StartReturns, Proceed, Exit, Check, updatesVars
  <2>3. Records' /\ Scalars' /\ Records /\ Scalars
    BY <2>1, TypesApart, RecordsStep, ScalarsStep
  <2> QED
    BY <2>2, <2>3 DEF UpdatesTypeOK, Records, Scalars
<1> USE <1>0 DEF Records, Scalars, UpdatesInv, DrainedComesBack, Up, DrainStages
<1>1. CASE Boot
  BY <1>1 DEF Boot
<1>2. CASE Resume
  <2>1. /\ process.stage = "resuming"
        /\ UNCHANGED <<declined, drained, wanted, cancelled, signalled, boots, silenced>>
    BY ONLY <1>2 DEF Resume
  <2>2. CASE Serves /\ disk' = disk
    BY <2>1, <2>2 DEF Serves, Asleep
  <2>3. CASE disk.version \notin Sick /\ Serves /\ disk' = [disk EXCEPT !.pending = FALSE]
    BY <2>1, <2>3 DEF Serves, Asleep
  <2>4. CASE /\ disk.pending /\ Exits("restart")
             /\ disk' = [disk EXCEPT !.version = disk.previous, !.pending = FALSE]
    BY <2>1, <2>4 DEF Exits
  <2> QED
    BY ONLY <1>2, <2>2, <2>3, <2>4 DEF Resume
<1>3. CASE Refused
  BY <1>3 DEF Refused, Asleep
<1>4. CASE BeginDrain
  BY <1>4 DEF BeginDrain
<1>5. CASE Drained
  BY <1>5 DEF Drained
<1>6. CASE Swap
  BY <1>6 DEF Swap, Asleep
<1>7. CASE Recover
  BY <1>7 DEF Recover, Asleep
<1>8. CASE LoopEnds
  BY <1>8 DEF LoopEnds
<1>9. CASE Signal
  BY <1>9 DEF Signal
<1>10. CASE Notice
  BY <1>10 DEF Notice
<1>11. CASE StartReturns
  BY <1>11 DEF StartReturns
<1>12. CASE Proceed
  BY <1>12 DEF Proceed
<1>13. CASE Exit
  BY <1>13 DEF Exit, Exits
<1>14. ASSUME NEW r \in Releases, Check(r) PROVE UpdatesInv'
  BY <1>14 DEF Check
<1>15. CASE UNCHANGED updatesVars
  BY <1>15 DEF updatesVars
<1> QED
  BY ONLY [UpdatesNext]_updatesVars, <1>1, <1>2, <1>3, <1>4, <1>5, <1>6, <1>7, <1>8,
     <1>9, <1>10, <1>11, <1>12, <1>13, <1>14, <1>15 DEF UpdatesNext

-----------------------------------------------------------------------------
\* A process that drained its household for an update exits to be restarted, and no
\* process serves a sick version that is not up for a roll-back (run.go serve).
THEOREM UpdatesComeBack ==
  ASSUME UpdatesAssumption
  PROVE  UpdatesSpec => []DrainedComesBack
<1>1. UpdatesInit => UpdatesInv
  BY UpdatesInitInv
<1>2. UpdatesInv /\ [UpdatesNext]_updatesVars => UpdatesInv'
  BY UpdatesNextInv
<1>3. UpdatesInv => DrainedComesBack
  BY DEF UpdatesInv
<1> QED
  BY <1>1, <1>2, <1>3, PTL DEF UpdatesSpec

-----------------------------------------------------------------------------
X_clock == x1
X_record == x5
X_container == x7
X_volume == x8
X_process == x9
X_faults == x10
X_bindings == x12

USE DEF X_clock, X_record, X_container, X_volume, X_process, X_faults, X_bindings

\* The crossing's types, action by action.
LEMMA CrossingTypeStep ==
  ASSUME X!CrossingAssumption, X!TypeOK, X!Next
  PROVE X!TypeOK'
<1> USE DEF X!CrossingAssumption, X!TypeOK, X!Fault, X!host, X!pod, X!podFrame
<1>1. CASE X!InviteEnds
  BY <1>1 DEF X!InviteEnds, X!ToExport
<1>2. CASE X!Revoke
  <2>1. X_clock' \in 0..LastClock
    BY <1>2 DEF X!Revoke, X!Moment
  <2>2. PICK w \in BOOLEAN : X_record' = [at |-> X_clock', whole |-> w]
    BY <1>2 DEF X!Revoke
  <2>3. X_record' \in X!Record
    BY <2>1, <2>2 DEF X!Record
  <2> QED
    BY <1>2, <2>1, <2>3 DEF X!Revoke
<1>3. CASE X!Make
  BY <1>3 DEF X!Make, X!Off, X!Process, X!Binding, X!Nobody, X!Container
<1>4. CASE X!Load
  BY <1>4 DEF X!Load, X!Off, X!Process, X!Volume
<1>5. CASE X!Dies
  BY <1>5 DEF X!Dies, X!Off, X!Process, X!Binding, X!Nobody
<1>6. CASE X!ApplyRevocation
  <2>1. X!Nobody \in X!Binding /\ X!Off \in X!Process /\ X_container # Nil
    BY <1>6 DEF X!ApplyRevocation, X!Binding, X!Nobody, X!Off, X!Process
  <2>2. X_process' \in X!Process
    BY <1>6, <2>1 DEF X!ApplyRevocation, X!Process
  <2>3. X_volume' \in X!Volume
    BY <1>6, <2>1 DEF X!ApplyRevocation, X!Volume
  <2> QED
    BY <1>6, <2>1, <2>2, <2>3 DEF X!ApplyRevocation
<1>7. CASE X!Serve
  BY <1>7 DEF X!Serve, X!Process
<1>8. CASE X!Bind
  <2> DEFINE new == [account |-> X_process.claim.by, since |-> X_process.claim.at]
  <2>1. X_process.claim \in X!Claim
    BY <1>8 DEF X!Bind, X!Process
  <2>2. new \in X!Binding /\ <<X_process.claim.by, X_process.claim.at>> \in Accounts \X (1..LastClock)
    BY <2>1 DEF X!Claim, X!Binding
  <2>3. X_process' \in X!Process /\ X_process'.stage = X_process.stage
    BY <1>8, <2>2 DEF X!Bind, X!Process
  <2>4. X_volume' \in X!Volume
    BY <1>8, <2>2 DEF X!Bind, X!Volume
  <2>5. X_faults' \in 0..MaxFaults /\ X_bindings' \subseteq Accounts \X (1..LastClock)
    BY <1>8, <2>2 DEF X!Bind
  <2> QED
    BY <1>8, <2>3, <2>4, <2>5 DEF X!Bind
<1>9. ASSUME NEW c \in Codes, X!Invite(c) PROVE X!TypeOK'
  BY <1>9 DEF X!Invite
<1>10. ASSUME NEW c \in Codes, X!Export(c) PROVE X!TypeOK'
  BY <1>10 DEF X!Export, X!ToExport
<1>11. ASSUME NEW c \in Codes, X!Expire(c) PROVE X!TypeOK'
  BY <1>11 DEF X!Expire
<1>12. ASSUME NEW c \in Codes, X!Import(c) PROVE X!TypeOK'
  BY <1>12 DEF X!Import, X!Volume
<1>13. ASSUME NEW c \in Codes, NEW a \in Accounts, X!Consume(c, a) PROVE X!TypeOK'
  BY <1>13 DEF X!Consume, X!Moment, X!Process, X!Claim, X!Volume
<1> QED
  BY <1>1, <1>2, <1>3, <1>4, <1>5, <1>6, <1>7, <1>8, <1>9, <1>10, <1>11, <1>12, <1>13 DEF X!Next

\* What is dated is dated with a number.
LEMMA CrossingDates ==
  ASSUME X!CrossingAssumption, X!TypeOK
  PROVE  /\ X_clock \in Nat /\ X_record.at \in Nat /\ X_volume.bound.since \in Nat
         /\ X_container # Nil => X_container.record.at \in Nat
         /\ \A b \in X_bindings : b[2] \in Nat
BY DEF X!CrossingAssumption, X!TypeOK, X!Record, X!Volume, X!Binding, X!Container

\* A claim and a revocation are dated by one clock, so that a step keeps later ones later.
LEMMA CrossingStep ==
  ASSUME X!CrossingAssumption, X!CrossingInv, [X!Next]_(X!crossingVars)
  PROVE  X!CrossingInv'
<1> USE DEF X!CrossingInv, X!LaterClaimStands, X!SpentStaysSpent, X!WaitsForItsCodes,
  X!RevokedIsNotServed
<1>0. CASE UNCHANGED X!crossingVars
  BY <1>0 DEF X!crossingVars, X!host, X!TypeOK
<1> SUFFICES ASSUME X!Next PROVE X!CrossingInv'
  BY <1>0
<1>t. X!TypeOK'
  BY CrossingTypeStep
<1> USE DEF X!CrossingAssumption, X!TypeOK, X!Fault, X!host, X!pod, X!podFrame, X!Moment
<1>1. CASE X!InviteEnds
  BY <1>t, <1>1 DEF X!InviteEnds
<1>2. CASE X!Revoke
  <2>1. PICK w \in BOOLEAN : X_record' = [at |-> X_clock', whole |-> w]
    BY <1>2 DEF X!Revoke
  <2>2. X_record'.at = X_clock + 1 /\ X_clock' = X_clock + 1
    BY <1>2, <2>1 DEF X!Revoke
  <2>4. X!LaterClaimStands'
    BY <1>2, <2>2 DEF X!Revoke
  <2>5. UNCHANGED <<X_container, X_volume, X_process, X_bindings, x11>>
    BY <1>2 DEF X!Revoke
  <2>6. X_record'.at <= X_clock' /\ \A b \in X_bindings : b[2] <= X_clock'
    BY <2>2, CrossingDates
  <2>7. X_container # Nil => X_container.record.at <= X_record'.at
    BY <2>2, CrossingDates
  <2>8. X_process.claim # Nil => X_process.claim.at <= X_clock'
    BY <2>2, CrossingDates DEF X!Process, X!Claim
  <2> QED
    BY <1>t, <2>4, <2>5, <2>6, <2>7, <2>8
<1>3. CASE X!Make
  <2>1. X_container' # Nil => X_container'.record.at <= X_record'.at
    BY <1>3 DEF X!Make, X!Record
  <2>2. X_process'.stage = "off" /\ X_process'.claim = Nil
    BY <1>3 DEF X!Make, X!Off
  <2> QED
    BY <1>t, <1>3, <2>1, <2>2 DEF X!Make
<1>4. CASE X!Load
  BY <1>t, <1>4 DEF X!Load, X!Off
<1>5. CASE X!Dies
  BY <1>t, <1>5 DEF X!Dies, X!Off
<1>6. CASE X!ApplyRevocation
  <2>1. CASE X_process' = X!Off /\ UNCHANGED X_volume
    BY <1>t, <1>6, <2>1 DEF X!ApplyRevocation, X!Off
  <2>2. CASE X!Clears /\ X_volume' = [X_volume EXCEPT !.bound = X!Nobody]
             /\ X_process' = [X_process EXCEPT !.stage = "clean", !.serves = X!Nobody]
    <3>1. X_process.claim = Nil /\ X_process.serves = X_volume.bound
      BY <1>6 DEF X!ApplyRevocation
    <3>2. /\ X_process'.claim = Nil /\ X_process'.stage = "clean" /\ X_process'.serves = X!Nobody
          /\ X_volume'.bound = X!Nobody /\ X_volume'.codes = X_volume.codes
      BY <2>2, <3>1 DEF X!Process, X!Volume
    <3>3. \A b \in X_bindings : b[2] <= X_record.at
      BY <2>2, <3>1, <1>6, CrossingDates DEF X!Clears, X!ApplyRevocation
    <3>4. X!LaterClaimStands'
      BY <1>6, <3>3, CrossingDates DEF X!ApplyRevocation
    <3>5. UNCHANGED <<X_clock, X_record, X_container, X_bindings, x11>> /\ X!Nobody.account = Nil
      BY <1>6 DEF X!ApplyRevocation, X!Nobody
    <3> QED
      BY <1>t, <3>2, <3>4, <3>5
  <2>3. CASE ~X!Clears /\ X_process' = [X_process EXCEPT !.stage = "clean"] /\ UNCHANGED X_volume
    <3>1. /\ X_process'.stage = "clean" /\ X_process'.serves = X_process.serves
          /\ X_process'.claim = Nil
      BY <2>3, <1>6 DEF X!Process, X!ApplyRevocation
    <3>2. X_process'.serves.account # Nil => X_process'.serves.since > X_container.record.at
      BY <1>6, <2>3, <3>1 DEF X!Clears, X!Revoked, X!ApplyRevocation, X!Process, X!Binding,
         X!Container, X!Record
    <3> QED
      BY <1>t, <1>6, <2>3, <3>1, <3>2 DEF X!ApplyRevocation
  <2> QED
    BY <2>1, <2>2, <2>3, <1>6 DEF X!ApplyRevocation
<1>7. CASE X!Serve
  BY <1>t, <1>7 DEF X!Serve, X!Process
<1>8. CASE X!Bind
  <2> DEFINE new == [account |-> X_process.claim.by, since |-> X_process.claim.at]
  <2>1. X_process.claim \in X!Claim /\ X_process.claim # Nil
    BY <1>8 DEF X!Bind, X!Process
  <2>2. X_process.stage = "ready" /\ X_process.claim.at > X_container.record.at
        /\ \A b \in X_bindings : b[2] < X_process.claim.at
    BY <2>1
  <2>3. CASE X_process' = [X_process EXCEPT !.claim = Nil] /\ UNCHANGED <<X_volume, X_bindings>>
    BY <1>t, <1>8, <2>3 DEF X!Bind, X!Process
  <2>4. CASE X_process' = [X_process EXCEPT !.serves = new, !.claim = Nil]
             /\ X_volume' = [X_volume EXCEPT !.bound = new]
             /\ X_bindings' = X_bindings \cup {<<X_process.claim.by, X_process.claim.at>>}
    <3>1. /\ X_process'.claim = Nil /\ X_process'.stage = "ready" /\ X_process'.serves = new
          /\ X_volume'.bound = new /\ X_volume'.codes = X_volume.codes
      BY <2>2, <2>4 DEF X!Process, X!Volume
    <3>2. new.account # Nil /\ new.since = X_process.claim.at /\ new.since > 0
      BY <2>1 DEF X!Claim
    <3>3. \A b \in X_bindings' : b[2] <= new.since /\ b[2] <= X_clock
      BY <2>1, <2>2, <2>4 DEF X!Claim
    <3> HIDE DEF new
    <3> QED
      BY <1>t, <1>8, <2>2, <3>1, <3>2, <3>3 DEF X!Bind
  <2> QED
    BY <2>3, <2>4, <1>8 DEF X!Bind
<1>9. ASSUME NEW c \in Codes, X!Invite(c) PROVE X!CrossingInv'
  BY <1>t, <1>9 DEF X!Invite
<1>10. ASSUME NEW c \in Codes, X!Export(c) PROVE X!CrossingInv'
  BY <1>t, <1>10 DEF X!Export, X!ToExport
<1>11. ASSUME NEW c \in Codes, X!Expire(c) PROVE X!CrossingInv'
  BY <1>t, <1>11 DEF X!Expire
<1>12. ASSUME NEW c \in Codes, X!Import(c) PROVE X!CrossingInv'
  BY <1>t, <1>12 DEF X!Import, X!Volume
<1>13. ASSUME NEW c \in Codes, NEW a \in Accounts, X!Consume(c, a) PROVE X!CrossingInv'
  <2>1. /\ X_process'.claim.at = X_clock' /\ X_process'.stage = "ready" /\ X_process'.serves = X_process.serves
        /\ X_volume'.bound = X_volume.bound /\ X_volume'.codes = [X_volume.codes EXCEPT ![c] = "spent"]
        /\ X_clock' = X_clock + 1 /\ X_volume.codes \in [Codes -> {"unknown", "live", "spent"}]
    BY <1>13 DEF X!Consume, X!Process, X!Volume
  <2>2. \A d \in Codes : X_volume'.codes[d] = IF d = c THEN "spent" ELSE X_volume.codes[d]
    BY <2>1
  <2>3. X!SpentStaysSpent' /\ \A r \in x11' : X_volume'.codes[r[1]] = "spent"
    BY <1>13, <2>2 DEF X!Consume
  <2>4. X!WaitsForItsCodes'
    BY <1>13, <2>2 DEF X!Consume, X!Container
  <2>5. X_record.at \in Nat /\ \A b \in X_bindings : b[2] < X_clock'
    BY <2>1 DEF X!Record
  <2>6. X_container # Nil /\ X_container.record.at \in Nat
    BY <1>13 DEF X!Consume, X!Container, X!Record
  <2> QED
    BY <1>t, <1>13, <2>1, <2>3, <2>4, <2>5, <2>6 DEF X!Consume
<1> QED
  BY ONLY X!Next, <1>1, <1>2, <1>3, <1>4, <1>5, <1>6, <1>7, <1>8, <1>9, <1>10, <1>11, <1>12, <1>13
     DEF X!Next

\* Nothing has been revoked, claimed or bound.
LEMMA CrossingInit ==
  ASSUME X!CrossingAssumption, X!Init
  PROVE  X!CrossingInv
<1>1. X!TypeOK
  BY DEF X!Init, X!TypeOK, X!CrossingAssumption, X!NoRecord, X!Record, X!Nobody, X!Binding, X!Off,
     X!Volume, X!Process
<1> QED
  BY <1>1 DEF X!Init, X!NoRecord, X!Nobody, X!Off, X!CrossingInv, X!RevokedIsNotServed,
     X!LaterClaimStands, X!SpentStaysSpent, X!WaitsForItsCodes

HIDE DEF X_clock, X_record, X_container, X_volume, X_process, X_faults, X_bindings

-----------------------------------------------------------------------------

L_mode == x1
L_home == x2
L_volume == x3
L_process == x4
L_key == x5
L_secret == x6
L_link == x7
L_members == x8
L_faults == x9
USE DEF L_mode, L_home, L_volume, L_process, L_key, L_secret, L_link, L_members, L_faults

\* No pod has asked and no store has been linked.
LEMMA LinkInit == ASSUME L!LinkAssumption, L!Init PROVE L!LinkInv
<1> USE DEF L!LinkAssumption, L!Init
<1>0. /\ L!Fresh \in L!Homes /\ [private |-> TRUE, shared |-> Nil] \in L!Homes
      /\ [private |-> TRUE, shared |-> <<L!Node, 0>>] \in L!Homes
  BY DEF L!Homes, L!Fresh, L!SpaceKeys, L!Units
<1>1. PICK h \in {Nil} \cup L!Homes : L_home = [u \in L!Units |-> IF u = L!Node /\ L_mode = "simple" THEN h ELSE Nil]
  BY <1>0
<1>2. L!TypeOK
  BY <1>1 DEF L!TypeOK, L!NoLink, L!Joining
<1>3. \A m \in PodMembers : L!Shared(m) = Nil
  BY <1>1 DEF L!Shared, L!Units, L!Node
<1>4. L!Shared(L!Group) = Nil
  BY <1>1 DEF L!Shared, L!Units, L!Node, L!Group
<1>5. L!MemoryIsShared
  BY <1>3 DEF L!MemoryIsShared, L!RemembersSomething, L!OneHouseholdSpace, L!AsksUntilAdmitted,
     L!At, L!NoLink, L!Units
<1> QED
  BY <1>2, <1>3, <1>4, <1>5 DEF L!LinkInv, L!Owned, L!NoLink, L!Units

\* The link's types, action by action.
LEMMA LinkTypeStep ==
  ASSUME L!LinkAssumption, L!TypeOK, L!LinkInv, L!Next
  PROVE  L!TypeOK'
<1> USE DEF L!LinkAssumption, L!TypeOK, L!Exits, L!Moves, L!At, L!bootFrame, L!joinFrame, L!NoLink
<1>1. ASSUME NEW u \in L!Units, L!Boot(u) PROVE L!TypeOK'
  BY <1>1 DEF L!Boot
<1>2. ASSUME NEW u \in L!Units, L!InitLoreHome(u) PROVE L!TypeOK'
  <2>1. L!Initialised(L_home[u]) \in L!Homes
    BY DEF L!Initialised, L!Fresh, L!Homes
  <2>2. L_home' \in [L!Units -> {Nil} \cup L!Homes]
    BY <1>2, <2>1 DEF L!InitLoreHome
  <2>3. L_process' \in [L!Units -> {"down", "opening", "making", "checking", "linking", "serving"}]
    BY <1>2 DEF L!InitLoreHome
  <2>4. \A v \in L!Units : L_process'[v] \notin {"down", "opening"} => L_home'[v] # Nil
    BY <1>2, <2>1 DEF L!InitLoreHome
  <2>5. \A v \in L!Units : L_link'[v] # L!NoLink => L_process'[v] = "serving"
    BY <1>2, <2>1 DEF L!InitLoreHome
  <2> QED
    BY <1>2, <2>1, <2>2, <2>3, <2>4, <2>5 DEF L!InitLoreHome
<1>3. ASSUME NEW u \in L!Units, L!MakeLoreSpaces(u) PROVE L!TypeOK'
  <2>1. L_home[u] \in L!Homes /\ <<u, L_volume[u]>> \in L!SpaceKeys
    BY <1>3 DEF L!MakeLoreSpaces, L!SpaceKeys
  <2>2. L!Created(u, L_home[u]) \in L!Homes
    BY <2>1 DEF L!Created, L!Homes
  <2>3. L_home' \in [L!Units -> {Nil} \cup L!Homes] /\ L_process' \in [L!Units -> {"down", "opening", "making", "checking", "linking", "serving"}]
    BY <1>3, <2>2 DEF L!MakeLoreSpaces
  <2>4. \A v \in L!Units : L_process'[v] \notin {"down", "opening"} => L_home'[v] # Nil
    BY <1>3, <2>2 DEF L!MakeLoreSpaces
  <2>5. \A v \in L!Units : L_link'[v] # L!NoLink => L_process'[v] = "serving"
    BY <1>3, <2>2 DEF L!MakeLoreSpaces
  <2> QED
    BY <1>3, <2>2, <2>3, <2>4, <2>5 DEF L!MakeLoreSpaces
<1>4. ASSUME NEW u \in L!Units, L!CheckLore(u) PROVE L!TypeOK'
  <2>1. CASE ~L!Fatal(u) /\ L!Moves(u, "linking") /\ UNCHANGED L_link
    BY <1>4, <2>1 DEF L!CheckLore
  <2>2. CASE L!Exits(u)
    BY <1>4, <2>2 DEF L!CheckLore
  <2> QED
    BY <1>4, <2>1, <2>2 DEF L!CheckLore
<1>5. ASSUME NEW u \in L!Units, L!StartLink(u) PROVE L!TypeOK'
  BY <1>5 DEF L!StartLink, L!Joining
<1>6. ASSUME NEW u \in L!Units, L!Dies(u) PROVE L!TypeOK'
  BY <1>6 DEF L!Dies
<1>7. ASSUME NEW u \in L!Units, L!Replace(u) PROVE L!TypeOK'
  BY <1>7 DEF L!Replace, L!LinkInv
<1>8. ASSUME NEW m \in PodMembers, L!Look(m) PROVE L!TypeOK'
  BY <1>8 DEF L!Look, L!Goes, L!Joining, L!Units
<1>9. ASSUME NEW m \in PodMembers, L!HandleGrant(m) PROVE L!TypeOK'
  BY <1>9 DEF L!HandleGrant, L!Goes, L!Joining, L!Units, L!Homes
<1>10. ASSUME NEW m \in PodMembers, L!Unanswered(m) PROVE L!TypeOK'
  BY <1>10 DEF L!Unanswered, L!Goes, L!Joining, L!Units
<1>11. ASSUME NEW m \in PodMembers, L!AcceptGrant(m) PROVE L!TypeOK'
  BY <1>11 DEF L!AcceptGrant, L!Goes, L!Joining, L!Units, L!Homes
<1>12. ASSUME NEW m \in PodMembers, L!Retry(m) PROVE L!TypeOK'
  BY <1>12 DEF L!Retry, L!Goes, L!Joining, L!Units
<1>13. CASE L!ChangeKey
  BY <1>13 DEF L!ChangeKey
<1> QED
  BY <1>1, <1>2, <1>3, <1>4, <1>5, <1>6, <1>7, <1>8, <1>9, <1>10, <1>11, <1>12, <1>13 DEF L!Next

\* A space is one of some volume, and known by its number.
LEMMA LinkSpaces ==
  ASSUME L!LinkAssumption, L!TypeOK
  PROVE  \A m \in PodMembers : \A s \in {L!Shared(m), L_link[m].grant} :
           s # Nil => s \in L!SpaceKeys /\ s[2] \in Nat
<1>1. \A s \in L!SpaceKeys : s[2] \in Nat
  BY DEF L!SpaceKeys, L!LinkAssumption
<1>2. ASSUME NEW m \in PodMembers PROVE L!Shared(m) \in {Nil} \cup L!SpaceKeys /\ L_link[m].grant \in {Nil} \cup L!SpaceKeys
  BY DEF L!TypeOK, L!Shared, L!Units, L!Homes
<1> QED
  BY <1>1, <1>2

\* How far a pod is, and with its handshake.
L_Handshakes == [at : L!Joining \cup {"none", "done", "desk"}, grant : {Nil} \cup L!SpaceKeys]
L_Stages == {"down", "opening", "making", "checking", "linking", "serving"}

\* What the stores hold while nothing is written into them.
LEMMA StoresKept ==
  ASSUME UNCHANGED L_home
  PROVE  \A v \in L!Units : L!Shared(v)' = L!Shared(v) /\ L!Held(v)' = L!Held(v)
BY DEF L!Shared, L!Held

\* Spaces that are held and grants that are under way stay owned while no volume is lost: a
\* store takes what it was granted, and the group's makes the household's space once.
LEMMA OwnedStays ==
  ASSUME L!LinkAssumption, L!LinkInv, L!TypeOK, UNCHANGED L_volume, L_members \subseteq L_members',
         \/ L!Shared(L!Group)' = L!Shared(L!Group)
         \/ L!Shared(L!Group) = Nil /\ L!Shared(L!Group)' = <<L!Group, L_volume[L!Group]>>,
         NEW m \in PodMembers, NEW s, L!Owned(m, s)
  PROVE  L!Owned(m, s)'
BY DEF L!Owned, L!LinkInv, L!LinkAssumption

\* What a step owes the invariant while no volume is lost.
LEMMA LinkHolds ==
  ASSUME L!LinkAssumption, L!LinkInv, L!TypeOK, L!TypeOK', UNCHANGED L_volume,
         L_members \subseteq L_members', L_faults' \in {L_faults, L_faults + 1},
         \/ L!Shared(L!Group)' = L!Shared(L!Group)
         \/ L!Shared(L!Group) = Nil /\ L!Shared(L!Group)' = <<L!Group, L_volume[L!Group]>>,
         \A v \in L!Units : L_process'[v] \in {"linking", "serving"} => L!Held(v)' # {},
         \A m \in PodMembers :
           /\ L!Shared(m)' \in {L!Shared(m), L_link[m].grant}
           /\ \/ L_link'[m].grant \in {L_link[m].grant, Nil}
              \/ /\ L_link'[m].grant = L!Shared(L!Group) /\ L!Shared(L!Group)' = L!Shared(L!Group)
                 /\ <<m, L_volume[m]>> \in L_members'
           /\ L_link'[m].at = "granted" => L_link'[m].grant # Nil
           /\ L_link'[m].at = "done" => L!Shared(m)' # Nil,
         L_link'[L!Node] = L!NoLink, L_link'[L!Group].grant = Nil
  PROVE  L!LinkInv'
<1>1. \A u \in L!Units : L_volume[u] \in Nat /\ L_faults \in Nat
  BY DEF L!TypeOK, L!LinkAssumption
<1>2. \A u \in L!Units : L_volume'[u] <= L_faults'
  BY <1>1 DEF L!LinkInv
<1>3. L!Shared(L!Group)' # Nil => L!Shared(L!Group)' = <<L!Group, L_volume'[L!Group]>>
  BY DEF L!LinkInv
<1>4. ASSUME NEW m \in PodMembers, NEW x, NEW y, x = L!Shared(m)', y = L_link'[m].grant
      PROVE  L!Owned(m, x)' /\ L!Owned(m, y)'
  <2>1. L!Owned(m, L!Shared(m)) /\ L!Owned(m, L_link[m].grant)
    BY DEF L!LinkInv
  <2>2. L!Owned(m, Nil)
    BY DEF L!Owned
  <2>3. ASSUME L!Shared(L!Group)' = L!Shared(L!Group), <<m, L_volume[m]>> \in L_members'
        PROVE  L!Owned(m, L!Shared(L!Group))'
    <3>1. L!Group \in L!Units /\ L_volume[L!Group] <= L_volume[L!Group]
      BY <1>1 DEF L!Units
    <3> QED
      BY <1>3, <2>3, <3>1 DEF L!Owned
  <2>5. L!Owned(m, x)'
    <3>1. L!Owned(m, x)
      BY <1>4, <2>1
    <3> QED
      BY <3>1, OwnedStays
  <2>6. L!Owned(m, y)'
    <3>1. CASE y \in {L_link[m].grant, Nil}
      <4>1. L!Owned(m, y)
        BY <2>1, <2>2, <3>1
      <4> QED
        BY <4>1, OwnedStays
    <3>2. CASE y = L!Shared(L!Group) /\ L!Shared(L!Group)' = L!Shared(L!Group) /\ <<m, L_volume[m]>> \in L_members'
      BY <2>3, <3>2
    <3> QED
      BY <1>4, <3>1, <3>2
  <2> QED
    BY <2>5, <2>6
<1>5. L!OneHouseholdSpace'
  BY <1>4 DEF L!OneHouseholdSpace, L!Owned
<1>6. L!RemembersSomething' /\ L!AsksUntilAdmitted'
  BY DEF L!RemembersSomething, L!AsksUntilAdmitted, L!At
<1>7. \A m \in PodMembers : L!Owned(m, L!Shared(m))' /\ L!Owned(m, L_link[m].grant)'
  BY <1>4
<1> QED
  BY <1>2, <1>3, <1>5, <1>6, <1>7 DEF L!LinkInv, L!MemoryIsShared

\* A pod serves only behind its check, and the desk hands out the household's one space.
LEMMA LinkStep ==
  ASSUME L!LinkAssumption, L!LinkInv, [L!Next]_(L!linkVars)
  PROVE  L!LinkInv'
<1>0. CASE UNCHANGED L!linkVars
  BY <1>0 DEF L!linkVars, L!LinkInv, L!TypeOK, L!MemoryIsShared, L!RemembersSomething,
     L!OneHouseholdSpace, L!AsksUntilAdmitted, L!Owned, L!Shared, L!Held, L!At
<1> SUFFICES ASSUME L!Next PROVE L!LinkInv'
  BY <1>0
<1>t. /\ L!TypeOK /\ L!TypeOK' /\ L_process \in [L!Units -> L_Stages]
      /\ L_link \in [L!Units -> L_Handshakes] /\ L_home \in [L!Units -> {Nil} \cup L!Homes]
      /\ PodMembers \subseteq L!Units /\ {L!Group, L!Node} \subseteq L!Units
  BY LinkTypeStep DEF L!LinkInv, L!TypeOK, L!Units, L_Handshakes, L_Stages
<1>l. /\ \A v \in L!Units : L_process[v] \in {"linking", "serving"} => L!Held(v) # {}
      /\ \A m \in PodMembers : /\ L_link[m].at = "granted" => L_link[m].grant # Nil
                               /\ L_link[m].at = "done" => L!Shared(m) # Nil
      /\ L_link[L!Node] = L!NoLink /\ L_link[L!Group].grant = Nil
      /\ L!Shared(L!Group) # Nil => L!Shared(L!Group) = <<L!Group, L_volume[L!Group]>>
      /\ \A v \in L!Units : L_link[v] # L!NoLink => L_process[v] = "serving"
      /\ \A v \in L!Units : L_process[v] \notin {"down", "opening"} => L_home[v] # Nil
  BY <1>t DEF L!LinkInv, L!MemoryIsShared, L!RemembersSomething, L!AsksUntilAdmitted, L!At,
     L!TypeOK
<1>n. L!NoLink \in L_Handshakes /\ L!NoLink.grant = Nil /\ L!NoLink.at \notin {"granted", "done"}
  BY DEF L!NoLink, L_Handshakes
\* Nothing is written into a store, and one process moves.
<1>p. ASSUME NEW u \in L!Units, NEW stage, UNCHANGED <<L_home, L_volume, L_members, L_faults>>,
             L_process' = [L_process EXCEPT ![u] = stage],
             stage \in {"linking", "serving"} => L!Held(u) # {},
             L_link' = L_link \/ L_link' = [L_link EXCEPT ![u] = L!NoLink]
      PROVE  L!LinkInv'
  <2>1. \A v \in L!Units : L_process'[v] \in {"linking", "serving"} => L!Held(v)' # {}
    BY <1>t, <1>l, <1>p, StoresKept
  <2>2. \A v \in L!Units : L_link'[v] \in {L_link[v], L!NoLink}
    BY <1>t, <1>p
  <2>3. \A m \in PodMembers : L!Shared(m)' = L!Shared(m)
    BY <1>t, <1>p, StoresKept
  <2>4. L!Shared(L!Group)' = L!Shared(L!Group)
    BY <1>t, <1>p, StoresKept
  <2>5. /\ \A m \in PodMembers : /\ L_link'[m].grant \in {L_link[m].grant, Nil}
                                 /\ L_link'[m].at = "granted" => L_link'[m].grant # Nil
                                 /\ L_link'[m].at = "done" => L!Shared(m)' # Nil
        /\ L_link'[L!Node] = L!NoLink /\ L_link'[L!Group].grant = Nil
    BY <1>t, <1>l, <1>n, <2>2, <2>3
  <2> QED
    BY <1>t, <1>p, <2>1, <2>3, <2>4, <2>5, LinkHolds
<1>1. ASSUME NEW u \in L!Units, L!Boot(u) PROVE L!LinkInv'
  BY <1>1, <1>p DEF L!Boot, L!Moves, L!bootFrame
\* A store is written into, or its process ends.
<1>h. ASSUME NEW u \in L!Units, NEW h \in L!Homes, NEW stage \in {"making", "checking"},
             UNCHANGED <<L_volume, L_members, L_faults, L_link>>, L_process[u] \in {"opening", "making"},
             L_home' = [L_home EXCEPT ![u] = h], L_process' = [L_process EXCEPT ![u] = stage],
             \/ h.shared = L!Shared(u)
             \/ u = L!Group /\ L!Shared(u) = Nil /\ h.shared = <<u, L_volume[u]>>
      PROVE  L!LinkInv'
  <2>1. /\ L!Shared(u)' = h.shared
        /\ \A v \in L!Units \ {u} : L!Shared(v)' = L!Shared(v) /\ L!Held(v)' = L!Held(v)
    <3>1. L_home'[u] = h /\ h # Nil /\ \A v \in L!Units \ {u} : L_home'[v] = L_home[v]
      BY <1>t, <1>h DEF L!Homes, L!LinkAssumption
    <3> QED
      BY <3>1 DEF L!Shared, L!Held
  <2>2. \A v \in L!Units : L_process'[v] \in {"linking", "serving"} => L!Held(v)' # {}
    BY <1>t, <1>l, <1>h, <2>1
  <2>3. \A m \in PodMembers : L!Shared(m)' = L!Shared(m)
    BY <1>t, <1>h, <2>1 DEF L!Group, L!LinkAssumption
  <2>4. \/ L!Shared(L!Group)' = L!Shared(L!Group)
        \/ L!Shared(L!Group) = Nil /\ L!Shared(L!Group)' = <<L!Group, L_volume[L!Group]>>
    BY <1>t, <1>h, <2>1
  <2> QED
    BY <1>t, <1>l, <1>h, <2>2, <2>3, <2>4, LinkHolds
<1>2. ASSUME NEW u \in L!Units, L!InitLoreHome(u) PROVE L!LinkInv'
  <2>1. CASE L!Exits(u) /\ UNCHANGED L_home
    BY <1>2, <1>p, <2>1 DEF L!InitLoreHome, L!Exits, L!Moves, L!bootFrame
  <2>2. CASE L_home' = [L_home EXCEPT ![u] = L!Initialised(@)] /\ L!Moves(u, "making") /\ UNCHANGED L_link
    <3>1. L!Initialised(L_home[u]) \in L!Homes /\ L!Initialised(L_home[u]).shared = L!Shared(u)
      BY <1>t DEF L!Initialised, L!Fresh, L!Homes, L!Shared
    <3> QED
      BY <1>t, <1>2, <1>h, <2>2, <3>1 DEF L!InitLoreHome, L!Moves, L!At, L!bootFrame
  <2> QED
    BY <1>2, <2>1, <2>2 DEF L!InitLoreHome
<1>3. ASSUME NEW u \in L!Units, L!MakeLoreSpaces(u) PROVE L!LinkInv'
  <2>1. CASE L!Exits(u) /\ UNCHANGED L_home
    BY <1>3, <1>p, <2>1 DEF L!MakeLoreSpaces, L!Exits, L!Moves, L!bootFrame
  <2>2. CASE /\ L_home' = [L_home EXCEPT ![u] = L!Created(u, @)]
             /\ L!Moves(u, "checking") /\ UNCHANGED L_link
    <3>1. L_process[u] = "making" /\ L_home[u] # Nil /\ L_home[u] \in L!Homes
      BY <1>t, <1>3, <1>l DEF L!MakeLoreSpaces, L!At
    <3>2. \/ L!Created(u, L_home[u]).shared = L!Shared(u)
          \/ /\ u = L!Group /\ L!Shared(u) = Nil
             /\ L!Created(u, L_home[u]).shared = <<u, L_volume[u]>>
      BY <3>1 DEF L!Created, L!OwnSpaces, L!Shared, L!Homes
    <3>3. L!Created(u, L_home[u]) \in L!Homes
      <4>1. L!Created(u, L_home[u]) = L_home'[u]
        BY <1>t, <2>2
      <4>2. L_home'[u] \in {Nil} \cup L!Homes /\ L!Created(u, L_home[u]) # Nil
        <5>1. L_process'[u] = "checking"
          BY <1>t, <2>2 DEF L!Moves
        <5> QED
          BY <1>t, <4>1, <5>1 DEF L!TypeOK
      <4> QED
        BY <4>1, <4>2
    <3> QED
      BY <1>t, <1>3, <1>h, <2>2, <3>1, <3>2, <3>3 DEF L!MakeLoreSpaces, L!Moves, L!bootFrame
  <2> QED
    BY <1>3, <2>1, <2>2 DEF L!MakeLoreSpaces
<1>4. ASSUME NEW u \in L!Units, L!CheckLore(u) PROVE L!LinkInv'
  <2>1. CASE ~L!Fatal(u) /\ L!Moves(u, "linking") /\ UNCHANGED L_link
    BY <1>4, <1>p, <2>1 DEF L!CheckLore, L!Fatal, L!Moves, L!bootFrame
  <2>2. CASE L!Exits(u)
    BY <1>4, <1>p, <2>2 DEF L!CheckLore, L!Exits, L!Moves, L!bootFrame
  <2> QED
    BY <1>4, <2>1, <2>2 DEF L!CheckLore
<1>6. ASSUME NEW u \in L!Units, L!Dies(u) PROVE L!LinkInv'
  BY <1>6, <1>p DEF L!Dies, L!Exits, L!Moves, L!bootFrame
<1>7. ASSUME NEW u \in L!Units, L!Replace(u) PROVE L!LinkInv'
  <2> USE DEF L!LinkInv, L!OneHouseholdSpace, L!AsksUntilAdmitted, L!Owned, L!Shared, L!Held,
         L!LinkAssumption, L!Moves, L!At, L!NoLink, L!Units
  <2>1. L_volume' = [L_volume EXCEPT ![u] = @ + 1] /\ L_home' = [L_home EXCEPT ![u] = Nil] /\ L_link[u] = L!NoLink
    BY <1>t, <1>7 DEF L!Replace, L!TypeOK
  <2>2. \A v \in L!Units : L_volume[v] \in Nat /\ L_volume'[v] = IF v = u THEN L_volume[v] + 1 ELSE L_volume[v]
    BY <1>t, <2>1 DEF L!TypeOK
  <2>3. \A v \in L!Units : L!Shared(v)' = IF v = u THEN Nil ELSE L!Shared(v)
    BY <1>t, <2>1 DEF L!TypeOK
  <2>4. \A m \in PodMembers : L!Owned(m, L!Shared(m))'
    <3> SUFFICES ASSUME NEW m \in PodMembers, m # u, L!Shared(m) # Nil PROVE L!Owned(m, L!Shared(m))'
      BY <2>3
    <3>1. L!Shared(m)' = L!Shared(m) /\ L_volume'[m] = L_volume[m]
      BY <2>2, <2>3
    <3>2. CASE u = L!Group
      BY <1>t, <2>2, <3>1, <3>2, LinkSpaces
    <3>3. CASE u # L!Group
      BY <1>7, <2>2, <2>3, <3>1, <3>3 DEF L!Replace
    <3> QED
      BY <3>2, <3>3
  <2>5. \A m \in PodMembers : L!Owned(m, L_link[m].grant)'
    <3> SUFFICES ASSUME NEW m \in PodMembers, m # u, L_link[m].grant # Nil PROVE L!Owned(m, L_link[m].grant)'
      BY <1>7, <2>1 DEF L!Replace
    <3>1. L_link' = L_link /\ L_volume'[m] = L_volume[m]
      BY <1>7, <2>2 DEF L!Replace
    <3>2. CASE u = L!Group
      BY <1>t, <2>2, <3>1, <3>2, LinkSpaces
    <3>3. CASE u # L!Group
      BY <1>7, <2>2, <2>3, <3>1, <3>3 DEF L!Replace
    <3> QED
      BY <3>2, <3>3
  <2>6. \A v \in L!Units : L_process'[v] \in {"linking", "serving"} => L!Held(v)' # {}
    <3>1. L_process' = L_process /\ L_process[u] = "down" /\ \A v \in L!Units \ {u} : L_home'[v] = L_home[v]
      BY <1>t, <1>7, <2>1 DEF L!Replace
    <3> QED
      BY <1>l, <3>1 DEF L!Held
  <2>7. \A v \in L!Units : L_volume'[v] <= L_faults'
    BY <1>t, <1>7, <2>2 DEF L!Replace, L!TypeOK
  <2>8. L!Shared(L!Group)' # Nil => L!Shared(L!Group)' = <<L!Group, L_volume'[L!Group]>>
    BY <2>2, <2>3
  <2>9. L!OneHouseholdSpace'
    BY <2>4
  <2>10. L!AsksUntilAdmitted' /\ L_link' = L_link
    <3>1. L_link' = L_link /\ L_link[u].at # "done"
      BY <1>7, <2>1 DEF L!Replace, L!NoLink
    <3> QED
      BY <1>l, <1>t, <2>3, <3>1
  <2> QED
    BY ONLY <1>t, <2>4, <2>5, <2>6, <2>7, <2>8, <2>9, <2>10, L!LinkInv DEF L!LinkInv,
       L!MemoryIsShared, L!RemembersSomething, L!At
\* Nothing is written into a store and no process moves: one handshake goes on.
<1>g. ASSUME NEW m \in PodMembers, NEW at, NEW grant, L!Goes(m, at, grant),
             UNCHANGED <<L_home, L_volume, L_faults, L_process>>, L_members \subseteq L_members',
             at = "done" => L!Shared(m) # Nil,
             IF at = "granted"
               THEN grant = L!Shared(L!Group) /\ grant # Nil /\ <<m, L_volume[m]>> \in L_members'
               ELSE grant = Nil
      PROVE  L!LinkInv'
  <2>1. \A v \in L!Units : L!Shared(v)' = L!Shared(v) /\ L!Held(v)' = L!Held(v)
    BY <1>g, StoresKept
  <2>2. /\ L_link'[m].at = at /\ L_link'[m].grant = grant
        /\ \A v \in L!Units \ {m} : L_link'[v] = L_link[v]
    BY <1>t, <1>g DEF L!Goes
  <2>3. m # L!Group /\ m # L!Node
    BY DEF L!LinkAssumption
  <2>4. \A v \in L!Units : L_process'[v] \in {"linking", "serving"} => L!Held(v)' # {}
    BY <1>l, <1>g, <2>1
  <2>5. \A n \in PodMembers :
          /\ L!Shared(n)' = L!Shared(n)
          /\ \/ L_link'[n].grant \in {L_link[n].grant, Nil}
             \/ /\ L_link'[n].grant = L!Shared(L!Group) /\ L!Shared(L!Group)' = L!Shared(L!Group)
                /\ <<n, L_volume[n]>> \in L_members'
          /\ L_link'[n].at = "granted" => L_link'[n].grant # Nil
          /\ L_link'[n].at = "done" => L!Shared(n)' # Nil
    BY <1>t, <1>l, <1>g, <2>1, <2>2
  <2>6. L_link'[L!Node] = L!NoLink /\ L_link'[L!Group].grant = Nil /\ L!Shared(L!Group)' = L!Shared(L!Group)
    BY <1>t, <1>l, <2>1, <2>2, <2>3
  <2> QED
    BY <1>t, <1>g, <2>4, <2>5, <2>6, LinkHolds
<1>8. ASSUME NEW m \in PodMembers, L!Look(m) PROVE L!LinkInv'
  <2>1. L_home[m] # Nil => L!Shared(m) = L_home[m].shared
    BY DEF L!Shared
  <2>2. L_home[m] # Nil
    BY <1>t, <1>l, <1>8 DEF L!Look, L!NoLink
  <2> QED
    BY <1>8, <1>g, <2>1, <2>2 DEF L!Look, L!joinFrame
<1>9. ASSUME NEW m \in PodMembers, L!HandleGrant(m) PROVE L!LinkInv'
  <2>1. L_process[L!Group] = "serving" /\ L_home[L!Group] # Nil
    BY <1>t, <1>l, <1>9 DEF L!HandleGrant, L!NoLink
  <2>2. L!Shared(L!Group) # Nil /\ L!Shared(L!Group) = L_home[L!Group].shared
    BY <1>t, <1>l, <2>1 DEF L!Held, L!Shared, L!ConfiguredSpaces
  <2>3. UNCHANGED <<L_home, L_volume, L_faults, L_process>> /\ L_members' = L_members \cup {<<m, L_volume[m]>>}
    BY <1>9 DEF L!HandleGrant, L!joinFrame
  <2> QED
    BY <1>9, <1>g, <2>2, <2>3 DEF L!HandleGrant
<1>10. ASSUME NEW m \in PodMembers, L!Unanswered(m) PROVE L!LinkInv'
  BY <1>10, <1>g DEF L!Unanswered, L!joinFrame
<1>11. ASSUME NEW m \in PodMembers, L!AcceptGrant(m) PROVE L!LinkInv'
  <2>1. /\ L_link[m].grant # Nil /\ L_home[m] # Nil /\ m # L!Group /\ m # L!Node /\ L_home[m] \in L!Homes
        /\ UNCHANGED <<L_volume, L_faults, L_process, L_members>>
    BY <1>t, <1>l, <1>11 DEF L!AcceptGrant, L!NoLink, L!joinFrame, L!LinkAssumption
  <2>2. CASE L_home' = [L_home EXCEPT ![m].shared = L_link[m].grant] /\ L!Goes(m, "done", Nil)
    <3>1. /\ L_home'[m].shared = L_link[m].grant /\ L_home'[m].private = L_home[m].private /\ L_home'[m] # Nil
          /\ \A v \in L!Units \ {m} : L_home'[v] = L_home[v]
      <4>1. L_home'[m] = [L_home[m] EXCEPT !.shared = L_link[m].grant]
            /\ \A v \in L!Units \ {m} : L_home'[v] = L_home[v]
        BY ONLY <1>t, <2>1, <2>2
      <4>2. L_home'[m] \in {Nil} \cup L!Homes /\ L_home'[m] # Nil
        <5>1. L_process'[m] = "serving"
          BY <1>t, <1>l, <1>11, <2>1 DEF L!AcceptGrant, L!NoLink
        <5> QED
          BY <1>t, <5>1 DEF L!TypeOK
      <4> QED
        BY <2>1, <4>1, <4>2 DEF L!Homes
    <3>2. /\ L!Shared(m)' = L_link[m].grant
          /\ \A v \in L!Units \ {m} : L!Shared(v)' = L!Shared(v) /\ L!Held(v)' = L!Held(v)
      BY <3>1 DEF L!Shared, L!Held
    <3>3. L!Held(m) \subseteq L!Held(m)'
      BY <2>1, <3>1 DEF L!Held
    <3>4. \A v \in L!Units : L_process'[v] \in {"linking", "serving"} => L!Held(v)' # {}
      BY <1>l, <2>1, <3>2, <3>3
    <3>5. /\ L_link'[m].at = "done" /\ L_link'[m].grant = Nil
          /\ \A v \in L!Units \ {m} : L_link'[v] = L_link[v]
      BY <1>t, <2>2 DEF L!Goes
    <3>6. \A n \in PodMembers :
            /\ L!Shared(n)' \in {L!Shared(n), L_link[n].grant}
            /\ L_link'[n].grant \in {L_link[n].grant, Nil}
            /\ L_link'[n].at = "granted" => L_link'[n].grant # Nil
            /\ L_link'[n].at = "done" => L!Shared(n)' # Nil
      BY <1>t, <1>l, <2>1, <3>2, <3>5
    <3>7. L_link'[L!Node] = L!NoLink /\ L_link'[L!Group].grant = Nil /\ L!Shared(L!Group)' = L!Shared(L!Group)
      BY <1>t, <1>l, <2>1, <3>2, <3>5
    <3> QED
      BY <1>t, <2>1, <3>4, <3>6, <3>7, LinkHolds
  <2>3. CASE L!Goes(m, "waiting", Nil) /\ UNCHANGED L_home
    BY <1>g, <2>1, <2>3
  <2> QED
    BY <1>11, <2>2, <2>3 DEF L!AcceptGrant
<1>12. ASSUME NEW m \in PodMembers, L!Retry(m) PROVE L!LinkInv'
  BY <1>12, <1>g DEF L!Retry, L!joinFrame
<1>5. ASSUME NEW u \in L!Units, L!StartLink(u) PROVE L!LinkInv'
  <2>1. L_process[u] = "linking" /\ UNCHANGED <<L_home, L_volume, L_members, L_faults>>
        /\ L_process' = [L_process EXCEPT ![u] = "serving"] /\ L!Held(u) # {}
    BY <1>5, <1>l DEF L!StartLink, L!At, L!Moves, L!bootFrame
  <2>2. CASE UNCHANGED L_link
    BY <1>p, <2>1, <2>2
  <2>3. CASE u # L!Node /\ L_link' = [L_link EXCEPT ![u].at = IF u = L!Group THEN "desk" ELSE "looking"]
    <3>1. /\ L_link'[u].grant = L_link[u].grant /\ L_link'[u].at \in {"desk", "looking"}
          /\ \A v \in L!Units \ {u} : L_link'[v] = L_link[v]
      BY <1>t, <2>3 DEF L_Handshakes
    <3>2. \A v \in L!Units : L_process'[v] \in {"linking", "serving"} => L!Held(v)' # {}
      BY <1>t, <1>l, <2>1, StoresKept
    <3>3. \A n \in PodMembers :
            /\ L!Shared(n)' = L!Shared(n) /\ L_link'[n].grant = L_link[n].grant
            /\ L_link'[n].at = "granted" => L_link'[n].grant # Nil
            /\ L_link'[n].at = "done" => L!Shared(n)' # Nil
      BY <1>t, <1>l, <2>1, <3>1, StoresKept
    <3>4. L_link'[L!Node] = L!NoLink /\ L_link'[L!Group].grant = Nil /\ L!Shared(L!Group)' = L!Shared(L!Group)
      BY <1>t, <1>l, <2>1, <2>3, <3>1, StoresKept
    <3> QED
      BY <1>t, <2>1, <3>2, <3>3, <3>4, LinkHolds
  <2> QED
    BY <1>5, <2>2, <2>3 DEF L!StartLink
<1>13. CASE L!ChangeKey
  BY <1>t, <1>l, <1>13, StoresKept, LinkHolds DEF L!ChangeKey
<1> QED
  BY ONLY L!Next, <1>1, <1>2, <1>3, <1>4, <1>5, <1>6, <1>7, <1>8, <1>9, <1>10, <1>11, <1>12, <1>13
     DEF L!Next, L!Units

HIDE DEF L_mode, L_home, L_volume, L_process, L_key, L_secret, L_link, L_members, L_faults

-----------------------------------------------------------------------------

E_codeFile == x1
E_stateFile == x2
E_mem == x3
E_claim == x4
E_tutorial == x5
E_unfinished == x7
E_command == x8
E_enrolled == x9
E_explained == x10
E_overwrote == x11
E_faults == x12
USE DEF E_codeFile, E_stateFile, E_mem, E_claim, E_tutorial, E_unfinished, E_command, E_enrolled,
  E_explained, E_overwrote, E_faults

\* Nobody is bound, and no code has been written.
LEMMA EnrolInit == ASSUME E!EnrolmentAssumption, E!Init PROVE E!EnrolInv
<1>1. E_stateFile \in E!State /\ E_codeFile \in [Codes -> E!Code] /\ E_tutorial \in [Accounts -> E!Tutorial]
  BY DEF E!Init, E!State, E!Code, E!Onboarding, E!Tutorial, E!NoCode, E!NotOnboarded, E!NoTutorial
<1>2. E!TypeOK
  BY <1>1 DEF E!Init, E!TypeOK, E!EnrolmentAssumption
<1>3. E!Single(E_stateFile) /\ E!Told(E_stateFile)
  BY DEF E!Init, E!Single, E!Told, E!NotOnboarded
<1>4. E_command \notin E!Command
  BY DEF E!Init, E!EnrolmentAssumption
<1> QED
  BY <1>2, <1>3, <1>4 DEF E!Init, E!EnrolInv, E!NoTutorial, E!In, E!Consumed, E!CodeEnrolsOnce,
     E!Command

\* What a state and a file of codes become is one again.
LEMMA StateWith ==
  ASSUME NEW s \in E!State, NEW m \in Members
  PROVE  /\ \A a \in Accounts \cup {Nil} : [s EXCEPT !.bound[m] = a] \in E!State
         /\ \A p \in E!Onboarding : [s EXCEPT !.persona[m] = p] \in E!State
<1> USE DEF E!State
<1>1. ASSUME NEW a \in Accounts \cup {Nil} PROVE [s EXCEPT !.bound[m] = a] \in E!State
  OBVIOUS
<1>2. ASSUME NEW p \in E!Onboarding PROVE [s EXCEPT !.persona[m] = p] \in E!State
  OBVIOUS
<1> QED
  BY <1>1, <1>2

\* The code file with a code invited or used.
LEMMA CodesWith ==
  ASSUME NEW f \in [Codes -> E!Code], NEW c \in Codes
  PROVE  /\ \A m \in Members : [f EXCEPT ![c] = [for |-> m, used |-> FALSE]] \in [Codes -> E!Code]
         /\ [f EXCEPT ![c].used = TRUE] \in [Codes -> E!Code]
<1>1. \A m \in Members : [for |-> m, used |-> FALSE] \in E!Code
  BY DEF E!Code
<1>2. [f[c] EXCEPT !.used = TRUE] \in E!Code
  BY DEF E!Code
<1> QED
  BY <1>1, <1>2

\* A record of a member's onboarding, saved or not, leaves the state as sound as it was.
LEMMA RecordsSound ==
  ASSUME E!EnrolmentAssumption, E!EnrolInv, E_mem # Nil, NEW m \in Members, NEW p \in E!Onboarding, E!Records(m, p),
         E_explained \subseteq E_explained', p.explained => p.chat \in E_explained'
  PROVE  /\ E_stateFile' \in E!State /\ E_mem' \in E!State /\ E_faults' \in 0..MaxFaults
         /\ E!Single(E_stateFile)' /\ E!Told(E_stateFile)' /\ E!Single(E_mem)' /\ E!Told(E_mem)'
         /\ E_overwrote' \in {E_overwrote, E_overwrote \cup {"state"}}
         /\ \A o \in Members : p.chat # Nil /\ E_mem.persona[o].chat # Nil => E_mem'.persona[o].chat # Nil
<1> DEFINE new == [E_mem EXCEPT !.persona[m] = p]
<1>1. /\ E_stateFile \in E!State /\ E_mem \in E!State /\ E_faults \in 0..MaxFaults /\ MaxFaults \in Nat
      /\ E!Single(E_stateFile) /\ E!Told(E_stateFile) /\ E!Single(E_mem) /\ E!Told(E_mem)
  BY DEF E!EnrolInv, E!TypeOK, E!EnrolmentAssumption
<1>2. new \in E!State /\ new.bound = E_mem.bound
      /\ \A o \in Members : new.persona[o] = IF o = m THEN p ELSE E_mem.persona[o]
  <2>1. new \in E!State
    BY <1>1, StateWith
  <2> QED
    BY <1>1, <2>1 DEF E!State
<1> HIDE DEF new
<1>3. ASSUME NEW s, s \in {E_stateFile, E_mem, new} PROVE E!Single(s) /\ (\A o \in Members : s.persona[o].explained => s.persona[o].chat \in E_explained')
  BY <1>1, <1>2, <1>3 DEF E!Single, E!Told
<1>4. CASE E_stateFile' = new /\ E_mem' = new /\ E_faults' = E_faults /\ E_overwrote' \in {E_overwrote, E_overwrote \cup {"state"}}
  BY <1>1, <1>2, <1>3, <1>4 DEF E!Single, E!Told
<1>5. CASE E!Same /\ E!Fault
  BY <1>1, <1>3, <1>5 DEF E!Single, E!Told, E!Same, E!Fault
<1> QED
  BY <1>4, <1>5 DEF E!Records, E!Keep, E!WriteState, new

\* What is in memory, on disk and in a command's copy of it stays single and told.
LEMMA EnrolStep ==
  ASSUME E!EnrolmentAssumption, E!EnrolInv, [E!Next]_(E!enrolVars)
  PROVE  E!EnrolInv'
<1>0. CASE UNCHANGED E!enrolVars
  BY <1>0 DEF E!enrolVars, E!files, E!node, E!told, E!EnrolInv, E!TypeOK, E!Single, E!Told, E!In,
     E!Consumed, E!CodeEnrolsOnce
<1> SUFFICES ASSUME E!Next PROVE E!EnrolInv'
  BY <1>0
<1>t. E!TypeOK
  BY DEF E!EnrolInv
<1> USE DEF E!EnrolmentAssumption, E!TypeOK, E!files, E!node, E!told, E!WriteCodes, E!WriteState,
  E!Fault, E!Same, E!Keep, E!tutorialFrame, E!EnrolInv, E!In, E!Consumed
<1>1. CASE E!Mint
  <2>1. E_command \in E!Inviting /\ E_command' = Nil /\ E_command' \notin E!Command
    BY <1>t, <1>1 DEF E!Mint, E!Command, E!Inviting, E!Revoking
  <2> DEFINE c == E_command.code
  <2>2. c \in Codes /\ E_command.read \in [Codes -> E!Code] /\ E_command.member \in Members /\ E_command.read[c] = E!NoCode
    BY <2>1 DEF E!Inviting
  <2>3. E_codeFile' = [E_command.read EXCEPT ![c] = [for |-> E_command.member, used |-> FALSE]]
    BY <1>1 DEF E!Mint
  <2>4. E_codeFile' \in [Codes -> E!Code]
    BY <2>2, <2>3, CodesWith
  <2>5. ASSUME "codes" \notin E_overwrote' PROVE "codes" \notin E_overwrote /\ \A d \in Codes : E_codeFile[d].used => d # c /\ E_codeFile'[d].used
    BY <1>1, <2>2, <2>3, <2>5 DEF E!Mint, E!NoCode
  <2>6. E!Single(E_stateFile)' /\ E!Told(E_stateFile)' /\ (E_mem' # Nil => E!Single(E_mem)' /\ E!Told(E_mem)')
    BY <1>1 DEF E!Mint, E!Single, E!Told
  <2>7. UNCHANGED <<E_stateFile, E_mem, E_claim, E_tutorial, x6, E_unfinished, E_enrolled, E_explained, E_faults>>
        /\ E_overwrote' \in {E_overwrote, E_overwrote \cup {"codes"}}
    BY <1>1 DEF E!Mint
  <2>8. E_claim # Nil => E_claim.code \in Codes
    BY <1>t DEF E!Claim
  <2>9. E!CodeEnrolsOnce => E!CodeEnrolsOnce'
    BY <2>7 DEF E!CodeEnrolsOnce
  <2> HIDE DEF c
  <2> QED
    BY <1>t, <2>1, <2>4, <2>5, <2>6, <2>7, <2>8, <2>9 DEF E!Command
<1>2. CASE E!Unbind
  <2>1. E_command \in E!Revoking /\ E_command' = Nil /\ E_command' \notin E!Command
    BY <1>t, <1>2 DEF E!Unbind, E!Command, E!Inviting, E!Revoking
  <2> DEFINE new == [E_command.read EXCEPT !.bound[E_command.member] = Nil]
  <2>2. E_command.read \in E!State /\ E_command.member \in Members /\ E!Single(E_command.read) /\ E!Told(E_command.read)
    BY <2>1 DEF E!Revoking
  <2>3. new \in E!State
    BY <2>2, StateWith
  <2>4. new.persona = E_command.read.persona
        /\ \A m \in Members : new.bound[m] = IF m = E_command.member THEN Nil ELSE E_command.read.bound[m]
    BY <2>2 DEF E!State
  <2> HIDE DEF new
  <2>5. E!Single(new) /\ E!Told(new)
    BY <2>2, <2>4 DEF E!Single, E!Told
  <2>6. E_stateFile' = new
    BY <1>2 DEF E!Unbind, new
  <2>7. UNCHANGED <<E_codeFile, E_mem, E_claim, E_tutorial, x6, E_unfinished, E_enrolled, E_explained, E_faults>>
        /\ E_overwrote' \in {E_overwrote, E_overwrote \cup {"state"}}
    BY <1>2 DEF E!Unbind
  <2>8. E!Single(E_stateFile)' /\ E!Told(E_stateFile)' /\ (E_mem' # Nil => E!Single(E_mem)' /\ E!Told(E_mem)')
    BY <2>5, <2>6, <2>7 DEF E!Single, E!Told
  <2>9. E!CodeEnrolsOnce => E!CodeEnrolsOnce'
    BY <2>7 DEF E!CodeEnrolsOnce
  <2> QED
    BY <1>t, <2>1, <2>3, <2>6, <2>7, <2>8, <2>9 DEF E!Command
<1>3. CASE E!StartNode
  <2>1. E_mem' \in E!State /\ E!Single(E_mem)' /\ E!Told(E_mem)'
    BY <1>t, <1>3 DEF E!StartNode, E!Single, E!Told
  <2> QED
    BY <1>t, <1>3, <2>1 DEF E!StartNode, E!Single, E!Told, E!CodeEnrolsOnce
<1>4. CASE E!StopNode
  <2>1. E_tutorial' \in [Accounts -> E!Tutorial] /\ \A a \in Accounts : E_tutorial'[a] = E!NoTutorial
    BY <1>4 DEF E!StopNode, E!NoTutorial, E!Tutorial
  <2> QED
    BY <1>t, <1>4, <2>1 DEF E!StopNode, E!Single, E!Told, E!CodeEnrolsOnce, E!NoTutorial
<1>5. CASE E!Refused
  BY <1>t, <1>5 DEF E!Refused, E!Single, E!Told, E!CodeEnrolsOnce
<1>6. CASE E!Consume
  <2> DEFINE c == E_claim.code
  <2>1. E_claim \in E!Claim /\ E_claim # Nil /\ E_claim.read \in [Codes -> E!Code] /\ c \in Codes
        /\ E_claim.read[c].for # Nil /\ ~E_claim.read[c].used
    BY <1>t, <1>6 DEF E!Consume, E!Claim
  <2>2. E_claim' = [E_claim EXCEPT !.step = "consumed"] /\ E_claim' \in E!Claim
        /\ E_claim'.code = c /\ E_claim'.read = E_claim.read
    BY <1>6, <2>1 DEF E!Consume, E!Claim
  <2>3. E_codeFile' = [E_claim.read EXCEPT ![c].used = TRUE]
    BY <1>6 DEF E!Consume
  <2>4. E_codeFile' \in [Codes -> E!Code]
    BY <2>1, <2>3, CodesWith
  <2>5. ASSUME "codes" \notin E_overwrote'
        PROVE  /\ "codes" \notin E_overwrote /\ E_codeFile'[c].used
               /\ \A d \in Codes : E_codeFile[d].used => d # c /\ E_codeFile'[d].used
    <3>1. "codes" \notin E_overwrote /\ E_codeFile = E_claim.read
      BY <1>6, <2>5 DEF E!Consume
    <3> QED
      BY <2>1, <2>3, <3>1 DEF E!Code
  <2>6. UNCHANGED <<E_stateFile, E_mem, E_tutorial, x6, E_unfinished, E_enrolled, E_explained, E_command, E_faults>>
        /\ E_overwrote' \in {E_overwrote, E_overwrote \cup {"codes"}}
    BY <1>6 DEF E!Consume
  <2>7. E!Single(E_stateFile)' /\ E!Told(E_stateFile)' /\ (E_mem' # Nil => E!Single(E_mem)' /\ E!Told(E_mem)')
        /\ (E_command' \in E!Revoking => E!Single(E_command.read)' /\ E!Told(E_command.read)')
    BY <2>6 DEF E!Single, E!Told
  <2>8. E!CodeEnrolsOnce => E!CodeEnrolsOnce'
    BY <2>6 DEF E!CodeEnrolsOnce
  <2> HIDE DEF c
  <2> QED
    BY <1>t, <2>1, <2>2, <2>4, <2>5, <2>6, <2>7, <2>8
<1>7. CASE E!Bind
  <2> DEFINE c == E_claim.code
             m == E_claim.read[c].for
             a == E_claim.by
             new == [E_mem EXCEPT !.bound[m] = a]
  <2>1. E_claim \in E!Claim /\ E_claim # Nil /\ c \in Codes /\ a \in Accounts /\ m \in Members /\ E_mem # Nil /\ E_mem \in E!State
    BY <1>t, <1>7 DEF E!Bind, E!Claim, E!Code
  <2>2. \A o \in Members \ {m} : E_mem.bound[o] # a
    BY <1>7 DEF E!Bind
  <2>3. new \in E!State
    BY <2>1, StateWith
  <2>4. new.persona = E_mem.persona /\ \A o \in Members : new.bound[o] = IF o = m THEN a ELSE E_mem.bound[o]
    BY <2>1 DEF E!State
  <2> HIDE DEF new
  <2>5. E!Single(new) /\ E!Told(new) /\ new # Nil
    BY <2>1, <2>2, <2>3, <2>4 DEF E!Single, E!Told
  <2>6. /\ E_tutorial' = [E_tutorial EXCEPT ![a] = [of |-> m, stage |-> "begun"]]
        /\ E_enrolled' = E_enrolled \cup {<<c, a>>} /\ E_claim' = Nil
        /\ UNCHANGED <<E_codeFile, x6, E_unfinished, E_explained, E_command, E_faults>>
    BY <1>7 DEF E!Bind, E!Binds
  <2>7. \/ E_stateFile' = new /\ E_mem' = new /\ E_overwrote' \in {E_overwrote, E_overwrote \cup {"state"}}
        \/ UNCHANGED <<E_stateFile, E_mem, E_overwrote>>
    BY <1>7 DEF E!Bind, E!Binds, new
  <2>8. E!Single(E_stateFile)' /\ E!Told(E_stateFile)' /\ E!Single(E_mem)' /\ E!Told(E_mem)' /\ E_mem' # Nil
        /\ E_stateFile' \in E!State /\ E_mem' \in E!State
    BY <1>t, <2>1, <2>3, <2>5, <2>6, <2>7 DEF E!Single, E!Told
  <2>9. E_command' \in E!Revoking => E!Single(E_command.read)' /\ E!Told(E_command.read)'
    BY <2>6 DEF E!Single, E!Told
  <2> HIDE DEF m, a, c
  <2>10. E_tutorial' \in [Accounts -> E!Tutorial]
         /\ \A b \in Accounts : (E_tutorial'[b].stage # "none" => E_tutorial'[b].of # Nil) /\ (E_tutorial'[b].stage = "told" => b \in E_explained)
    BY <1>t, <2>1, <2>6 DEF E!Tutorial
  <2>11. "codes" \notin E_overwrote' => "codes" \notin E_overwrote /\ E_codeFile[c].used /\ \A e \in E_enrolled : e[1] # c
    BY <2>7, <1>7 DEF E!Bind, c
  <2>12. "codes" \notin E_overwrote' => E!CodeEnrolsOnce' /\ \A e \in E_enrolled' : E_codeFile'[e[1]].used
    BY <2>6, <2>7, <2>11 DEF E!CodeEnrolsOnce
  <2>13. \A o \in E_unfinished' : E_mem'.persona[o].chat # Nil
    BY <2>4, <2>6, <2>7
  <2> QED
    BY <1>t, <2>1, <2>6, <2>7, <2>8, <2>9, <2>10, <2>11, <2>12, <2>13
<1>8. ASSUME NEW c \in Codes, NEW m \in Members, E!Invite(c, m) PROVE E!EnrolInv'
  <2>1. E_command' \in E!Inviting /\ E_command'.read[E_command'.code] = E!NoCode /\ E_command' \notin E!Revoking
    BY <1>t, <1>8 DEF E!Invite, E!Inviting, E!Revoking
  <2> QED
    BY <1>t, <1>8, <2>1 DEF E!Invite, E!Single, E!Told, E!CodeEnrolsOnce, E!Command
<1>9. ASSUME NEW c \in Codes, NEW a \in Accounts, E!Handle(c, a) PROVE E!EnrolInv'
  BY <1>t, <1>9 DEF E!Handle, E!Claim, E!Single, E!Told, E!CodeEnrolsOnce
<1>10. ASSUME NEW m \in Members, E!Revoke(m) PROVE E!EnrolInv'
  <2>1. E_command' \in E!Revoking /\ E_command'.read = E_stateFile /\ E_command' \notin E!Inviting
    BY <1>t, <1>10 DEF E!Revoke, E!Inviting, E!Revoking
  <2> QED
    BY <1>t, <1>10, <2>1 DEF E!Revoke, E!Single, E!Told, E!CodeEnrolsOnce, E!Command
<1>11. ASSUME NEW m \in Members, E!FinishInterrupted(m) PROVE E!EnrolInv'
  <2> DEFINE p == [E_mem.persona[m] EXCEPT !.explained = TRUE]
  <2>1. E_mem # Nil /\ E_mem \in E!State /\ m \in E_unfinished
    BY <1>t, <1>11 DEF E!FinishInterrupted
  <2>2. E_mem.persona[m] \in E!Onboarding
    BY <2>1 DEF E!State
  <2>3. p \in E!Onboarding /\ p.chat = E_mem.persona[m].chat /\ p.chat \in Accounts
    BY <2>1, <2>2 DEF E!Onboarding
  <2>4. UNCHANGED <<E_codeFile, E_claim, E_tutorial, x6, E_enrolled, E_command>> /\ E_unfinished' \subseteq E_unfinished
    BY <1>t, <1>11 DEF E!FinishInterrupted
  <2>5. E_overwrote' \in {E_overwrote, E_overwrote \cup {"state"}} /\ E_explained' \in {E_explained, E_explained \cup {p.chat}}
    BY <1>11 DEF E!FinishInterrupted, E!Records
  <2>6. E!CodeEnrolsOnce => E!CodeEnrolsOnce'
    BY <2>4, <2>5 DEF E!CodeEnrolsOnce
  <2>7. E_command' \in E!Revoking => E!Single(E_command.read)' /\ E!Told(E_command.read)'
    BY <2>4, <2>5 DEF E!Single, E!Told
  <2> HIDE DEF p
  <2>8. CASE E_explained' = E_explained \cup {p.chat} /\ E!Records(m, p)
    BY <1>t, <2>1, <2>3, <2>4, <2>5, <2>6, <2>7, <2>8, RecordsSound
  <2>9. CASE E!Same /\ E!Fault /\ UNCHANGED E_explained
    BY <1>t, <1>11, <2>1, <2>4, <2>6, <2>7, <2>9 DEF E!Single, E!Told
  <2> QED
    BY <1>11, <2>3, <2>8, <2>9 DEF E!FinishInterrupted, p
<1>12. ASSUME NEW a \in Accounts, NEW done \in BOOLEAN, NEW stage \in {"asking", "closing", "leaving"}, E_tutorial[a].stage # "none",
              done => a \in E_explained,
              E!Goes(a, stage), E!Saves(a, done), UNCHANGED <<E!tutorialFrame, E_explained>>
       PROVE  E!EnrolInv'
  <2> DEFINE p == [chat |-> a, explained |-> done]
             m == E_tutorial[a].of
  <2>1. p \in E!Onboarding /\ m \in Members /\ E_mem # Nil /\ p.chat = a /\ p.explained = done /\ E!Records(m, p)
    BY <1>t, <1>12 DEF E!Onboarding, E!Tutorial, E!Saves, E!NoTutorial
  <2>2. E_tutorial' = [E_tutorial EXCEPT ![a].stage = stage] /\ E_tutorial' \in [Accounts -> E!Tutorial]
    BY <1>t, <1>12 DEF E!Goes, E!Tutorial
  <2>3. \A b \in Accounts : E_tutorial'[b].of = E_tutorial[b].of /\ E_tutorial'[b].stage = IF b = a THEN stage ELSE E_tutorial[b].stage
    BY <1>t, <2>2 DEF E!Tutorial
  <2>4. UNCHANGED <<E_codeFile, E_claim, x6, E_unfinished, E_enrolled, E_explained, E_command>>
    BY <1>12
  <2>5. E_overwrote' \in {E_overwrote, E_overwrote \cup {"state"}}
    BY <2>1 DEF E!Records
  <2>6. E!CodeEnrolsOnce => E!CodeEnrolsOnce'
    BY <2>4, <2>5 DEF E!CodeEnrolsOnce
  <2>7. E_command' \in E!Revoking => E!Single(E_command.read)' /\ E!Told(E_command.read)'
    BY <2>4 DEF E!Single, E!Told
  <2> HIDE DEF p, m
  <2>8. /\ E_stateFile' \in E!State /\ E_mem' \in E!State /\ E_faults' \in 0..MaxFaults
        /\ E!Single(E_stateFile)' /\ E!Told(E_stateFile)' /\ E!Single(E_mem)' /\ E!Told(E_mem)'
        /\ \A o \in Members : p.chat # Nil /\ E_mem.persona[o].chat # Nil => E_mem'.persona[o].chat # Nil
    BY <1>12, <2>1, <2>4, RecordsSound
  <2> QED
    BY <1>t, <1>12, <2>1, <2>2, <2>3, <2>4, <2>5, <2>6, <2>7, <2>8
<1>13. ASSUME NEW a \in Accounts, E!Begin(a) \/ E!Answered(a) \/ E!Explained(a) PROVE E!EnrolInv'
  BY <1>12, <1>13 DEF E!Begin, E!Answered, E!Explained
<1>14. ASSUME NEW a \in Accounts, E!Explain(a) PROVE E!EnrolInv'
  <2>1. /\ E_tutorial' \in [Accounts -> E!Tutorial] /\ E_mem # Nil
        /\ \A b \in Accounts : E_tutorial'[b].stage # "none" => E_tutorial[b].stage # "none" /\ E_tutorial'[b].of = E_tutorial[b].of
        /\ \A b \in Accounts : E_tutorial'[b].stage = "told" => b \in E_explained'
    BY <1>t, <1>14 DEF E!Explain, E!Goes, E!Tutorial, E!NoTutorial
  <2>2. E_explained' \in {E_explained, E_explained \cup {a}}
    BY <1>14 DEF E!Explain
  <2> QED
    BY <1>t, <1>14, <2>1, <2>2 DEF E!Explain, E!Single, E!Told, E!CodeEnrolsOnce
<1>15. ASSUME NEW a \in Accounts, E!Enrolled(a) PROVE E!EnrolInv'
  BY <1>t, <1>15 DEF E!Enrolled, E!NoTutorial, E!Tutorial, E!Single, E!Told, E!CodeEnrolsOnce
<1> QED
  BY ONLY E!Next, <1>1, <1>2, <1>3, <1>4, <1>5, <1>6, <1>7, <1>8, <1>9, <1>10, <1>11, <1>13, <1>14,
     <1>15 DEF E!Next

HIDE DEF E_codeFile, E_stateFile, E_mem, E_claim, E_tutorial, E_unfinished, E_command, E_enrolled,
  E_explained, E_overwrote, E_faults

-----------------------------------------------------------------------------

P_house == x1
P_have == x2
P_host == x3
P_given == x4
P_container == x5
P_faults == x6
USE DEF P_house, P_have, P_host, P_given, P_container, P_faults

\* No pod has been given anything.
LEMMA ProvisionInit == ASSUME P!ProvisionAssumption, P!Init PROVE P!ProvisionInv
<1>1. \A u \in P!Units : P_given[u] = P!NoPod /\ P_container[u] = P!NoPod
  BY DEF P!Init
<1>2. P!TypeOK
  <2>1. P_house \in P!Configuration /\ P_have \subseteq P!Slots /\ P_host = "off"
        /\ DOMAIN P_given = P!Units /\ DOMAIN P_container = P!Units /\ P_faults \in 0..MaxFaults
    BY DEF P!Init, P!ProvisionAssumption
  <2> QED
    BY <1>1, <2>1 DEF P!TypeOK
<1> QED
  BY <1>1, <1>2 DEF P!Init, P!ProvisionInv, P!EveryPodServes, P!PodsAreApart, P!HandedOnceProved,
     P!MadeOfItsOwn

\* The names of the secrets: whose they are, and that none is a source's.
LEMMA SecretsAre ==
  ASSUME P!ProvisionAssumption, P!TypeOK
  PROVE  /\ \A u \in Members \cup {P!House} : P!Bot(u) \in P!Secrets /\ P!Passphrase(u) \in P!Secrets
         /\ \A e \in Endpoints : P!Key(e) \in P!Secrets
         /\ P!LinkKey \in P!Secrets
         /\ \A u \in P!Units : /\ P!Own(u) \subseteq P!Secrets /\ P!EndpointsFor(u) \subseteq Endpoints
                               /\ P!Proper(u) \subseteq P!Secrets
         /\ \A s \in P!Secrets : P_house.ref[s] \subseteq Sources /\ s \notin Sources
<1>1. /\ \A u \in Members \cup {P!House} : P!Bot(u) \in P!Secrets /\ P!Passphrase(u) \in P!Secrets
      /\ \A e \in Endpoints : P!Key(e) \in P!Secrets
      /\ P!LinkKey \in P!Secrets
  BY DEF P!Secrets
<1>2. P_house.chain \in [P!Units -> SUBSET Tiers] /\ P_house.ref \in [P!Secrets -> SUBSET Sources]
  BY DEF P!TypeOK, P!Configuration
<1>3. ASSUME NEW u \in P!Units
      PROVE  P!Own(u) \subseteq P!Secrets /\ P!EndpointsFor(u) \subseteq Endpoints
             /\ P!Proper(u) \subseteq P!Secrets
  <2>1. P!Own(u) \subseteq P!Secrets
    BY <1>1 DEF P!Own, P!Units
  <2>2. u # P!Whole /\ P_house.chain[u] \subseteq Tiers
    BY <1>2 DEF P!ProvisionAssumption, P!Units, P!Group, P!Whole
  <2>3. P!EndpointsFor(u) \subseteq Endpoints
    BY <2>2 DEF P!EndpointsFor, P!ProvisionAssumption
  <2> QED
    BY <1>1, <2>1, <2>3 DEF P!Proper
<1>4. \A s \in P!Secrets : P_house.ref[s] \subseteq Sources /\ s \notin Sources
  BY <1>2 DEF P!ProvisionAssumption
<1> QED
  BY <1>1, <1>3, <1>4

\* A container that is made of what was handed: what each of the pod's secrets resolves to in it.
P_Made(u, held) == held = UNION {P!Slot(s) : s \in P_given[u]}
P_AllThere(u) == \A s \in P_given[u] : P!Resolve(s, P_have) = "set"

\* What a pod is given resolves in it, whatever else the file names.
LEMMA ResolvedInPod ==
  ASSUME P!ProvisionAssumption, P!ProvisionInv, NEW u \in P!Units, P_given[u] # P!NoPod,
         NEW held, P_Made(u, held), P_AllThere(u), NEW s \in P!Proper(u)
  PROVE  /\ s \in P_given[u] => P!Resolve(s, held) = "set"
         /\ P!Resolve(s, held) # "fault"
<1>1. P!TypeOK /\ P_given[u] \subseteq P!Proper(u) /\ (s \notin P_given[u] => P_house.ref[s] = {})
  BY DEF P!ProvisionInv, P!HandedOnceProved
<1>2. CASE s \in P_given[u]
  <2>1. P!Resolve(s, P_have) = "set" /\ P!Slot(s) \subseteq held
    BY <1>2 DEF P_AllThere, P_Made
  <2>2. CASE P_house.ref[s] # {}
    BY <2>1, <2>2 DEF P!Resolve, P!Slot
  <2>3. CASE P_house.ref[s] = {}
    BY <2>1, <2>3 DEF P!Resolve, P!Slot
  <2> QED
    BY <2>2, <2>3
<1>3. CASE s \notin P_given[u]
  BY <1>1, <1>3 DEF P!Resolve
<1> QED
  BY <1>2, <1>3

\* The whole of it: the pod's process and its health check.
LEMMA PodServes ==
  ASSUME P!ProvisionAssumption, P!ProvisionInv, NEW u \in P!Units, P_given[u] # P!NoPod,
         NEW held, P_Made(u, held), P_AllThere(u)
  PROVE  P!RunsUnit(u, held) /\ P!Doctor(u, held)
<1>1. /\ P!TypeOK /\ P!Sound /\ P_house.mode = "isolated" /\ P!HasPod(u)
      /\ P!Own(u) \subseteq P_given[u] /\ P_given[u] \subseteq P!Proper(u)
  BY DEF P!ProvisionInv, P!HandedOnceProved, P!Podable
<1>2. \A s \in P!Own(u) : P!Resolve(s, held) = "set"
  BY <1>1, ResolvedInPod
<1>3. /\ \A e \in P!EndpointsFor(u) : P!Resolve(P!Key(e), held) # "fault"
      /\ P!Resolve(P!LinkKey, held) # "fault"
  BY ResolvedInPod DEF P!Proper
<1>4. /\ u # P!Whole /\ P!Group \notin Members /\ P!Whole \notin Members
      /\ P!Whole # P!Group /\ P!House # P!Group /\ P!House \notin Members
  BY DEF P!ProvisionAssumption, P!Units, P!Group, P!Whole, P!House
<1>5. P!Required(u) \subseteq P!Own(u)
  <2>1. CASE u = P!Group
    <3>1. \A m \in Members : ~P!Serves(u, m)
      BY <1>4, <2>1 DEF P!Serves
    <3> QED
      BY <1>1, <2>1, <3>1 DEF P!Required, P!Own
  <2>2. CASE u # P!Group
    <3>1. ~P!ServesGroup(u) /\ \A m \in Members : P!Serves(u, m) => m = u
      BY <1>4, <2>2 DEF P!Serves, P!ServesGroup
    <3> QED
      BY <1>1, <2>2, <3>1 DEF P!Required, P!Own
  <2> QED
    BY <2>1, <2>2
<1>6. P!Valid(u, held)
  BY <1>1, <1>2, <1>3, <1>5 DEF P!Valid, P!Optional
<1>7. u # P!Group => P!Unlocks(u, held)
  BY <1>2, <1>4 DEF P!Unlocks, P!Own
<1>8. P!RunsUnit(u, held)
  BY <1>1, <1>2, <1>6, <1>7 DEF P!RunsUnit, P!Own
<1>9. P!Bots(u) \subseteq P!Own(u)
  <2>1. CASE u = P!Group
    <3>1. \A m \in Members : ~P!Serves(u, m)
      BY <1>4, <2>1 DEF P!Serves
    <3> QED
      BY <1>1, <2>1, <3>1 DEF P!Bots, P!Own
  <2>2. CASE u # P!Group
    <3>1. ~P!ServesGroup(u) /\ \A m \in Members : P!Serves(u, m) => m = u
      BY <1>4, <2>2 DEF P!Serves, P!ServesGroup
    <3> QED
      BY <1>1, <2>2, <3>1 DEF P!Bots, P!Own
  <2> QED
    BY <2>1, <2>2
<1>10. P!Doctor(u, held)
  BY <1>1, <1>2, <1>3, <1>4, <1>6, <1>7, <1>9 DEF P!Doctor
<1> QED
  BY <1>8, <1>10

\* Two units' pods.
LEMMA SlotsApart ==
  ASSUME P!ProvisionAssumption, P!TypeOK, NEW u \in P!Units, NEW v \in P!Units, u # v,
         P!Podable(u), P!Podable(v), NEW s \in P!Own(u), NEW t \in P!Proper(v), P!Kind(t) = P!Kind(s)
  PROVE  P!Slot(s) \cap P!Slot(t) = {}
<1>1. /\ s \in P!Secrets /\ t \in P!Secrets
      /\ \A x \in P!Secrets : P_house.ref[x] \subseteq Sources /\ x \notin Sources
  BY SecretsAre
<1>2. t \in P!Own(v)
  BY DEF P!Own, P!Proper, P!Kind, P!Bot, P!Passphrase, P!LinkKey, P!Key
<1>3. P!Apart("bot") /\ P!Apart("passphrase") /\ P!HasPod(u) /\ P!HasPod(v)
  BY DEF P!Podable, P!Sound
<1>4. ASSUME NEW w \in P!Units, P!HasPod(w), NEW x \in P!Own(w)
      PROVE  \E m \in P!Owners(P!Kind(x)) : /\ x = <<P!Kind(x), m>> /\ P!Kind(x) \in {"bot", "passphrase"}
                                            /\ m = IF w = P!Group THEN P!House ELSE w
  <2>1. CASE w = P!Group
    <3>1. x = <<"bot", P!House>> /\ P!Kind(x) = "bot"
      BY <1>4, <2>1 DEF P!Own, P!Bot, P!Kind
    <3> QED
      BY <2>1, <3>1 DEF P!Owners
  <2>2. CASE w # P!Group
    <3>1. w \in Members \ P_house.sharedOnly
      BY <1>4, <2>2 DEF P!HasPod, P!Units
    <3>2. x = <<P!Kind(x), w>> /\ P!Kind(x) \in {"bot", "passphrase"}
      BY <1>4, <2>2 DEF P!Own, P!Bot, P!Passphrase, P!Kind
    <3> QED
      BY <2>2, <3>1, <3>2 DEF P!Owners
  <2> QED
    BY <2>1, <2>2
<1>5. PICK m \in P!Owners(P!Kind(s)) : /\ s = <<P!Kind(s), m>> /\ P!Kind(s) \in {"bot", "passphrase"}
                                       /\ m = IF u = P!Group THEN P!House ELSE u
  BY <1>3, <1>4
<1>6. PICK n \in P!Owners(P!Kind(t)) : /\ t = <<P!Kind(t), n>>
                                       /\ n = IF v = P!Group THEN P!House ELSE v
  BY <1>2, <1>3, <1>4
<1>7. m # n
  BY <1>5, <1>6 DEF P!Units, P!ProvisionAssumption
<1>8. P_house.ref[s] \cap P_house.ref[t] = {}
  BY <1>3, <1>5, <1>6, <1>7 DEF P!Apart
<1>9. s # t
  BY <1>5, <1>6, <1>7
<1> QED
  BY <1>1, <1>8, <1>9 DEF P!Slot

\* The configuration stays, and what is said of it alone.
P_Same == UNCHANGED P_house

\* While the configuration stays, so does all that is said of it alone.
LEMMA HouseStays ==
  ASSUME P_Same
  PROVE  /\ P!Sound' <=> P!Sound
         /\ \A u \in P!Units : /\ P!Podable(u)' <=> P!Podable(u)
                               /\ P!Own(u)' = P!Own(u) /\ P!Proper(u)' = P!Proper(u)
         /\ \A s : P!Slot(s)' = P!Slot(s)
         /\ \A u, held : /\ P!RunsUnit(u, held)' <=> P!RunsUnit(u, held)
                         /\ P!Doctor(u, held)' <=> P!Doctor(u, held)
<1> USE DEF P_Same
<1>1. P!Sound' <=> P!Sound
  BY DEF P!Sound, P!Apart, P!Owners
<1>2. \A s : P!Slot(s)' = P!Slot(s)
  BY DEF P!Slot
<1>3. \A scope : P!EndpointsFor(scope)' = P!EndpointsFor(scope)
  BY DEF P!EndpointsFor
<1>4. \A s, held : P!Resolve(s, held)' = P!Resolve(s, held)
  BY DEF P!Resolve
<1>5. \A scope : P!Required(scope)' = P!Required(scope)
  BY DEF P!Required
<1>6. \A scope : P!Optional(scope)' = P!Optional(scope)
  BY <1>3 DEF P!Optional
<1>7. \A scope, held : P!Valid(scope, held)' <=> P!Valid(scope, held)
  BY <1>1, <1>4, <1>5, <1>6 DEF P!Valid
<1>8. \A scope, held : P!Unlocks(scope, held)' <=> P!Unlocks(scope, held)
  BY <1>4 DEF P!Unlocks
<1>9. \A u : P!HasPod(u)' <=> P!HasPod(u)
  BY DEF P!HasPod
<1>10. \A u, held : P!RunsUnit(u, held)' <=> P!RunsUnit(u, held)
  BY <1>4, <1>7, <1>8, <1>9 DEF P!RunsUnit
<1>11. \A scope : P!Bots(scope)' = P!Bots(scope)
  BY DEF P!Bots
<1>12. \A u, held : P!Doctor(u, held)' <=> P!Doctor(u, held)
  BY <1>3, <1>4, <1>7, <1>8, <1>11 DEF P!Doctor
<1>13. \A u \in P!Units : /\ P!Podable(u)' <=> P!Podable(u)
                          /\ P!Own(u)' = P!Own(u) /\ P!Proper(u)' = P!Proper(u)
  BY <1>1, <1>3, <1>9 DEF P!Podable, P!Own, P!Proper
<1> QED
  BY <1>1, <1>2, <1>10, <1>12, <1>13

\* Made of their own, the pods are apart.
LEMMA OwnApart ==
  ASSUME P!ProvisionAssumption, P!TypeOK, NEW u \in P!Units, NEW v \in P!Units, u # v,
         P!Podable(u), P!Podable(v), NEW held, held \subseteq UNION {P!Slot(t) : t \in P!Proper(v)},
         NEW s \in P!Own(u)
  PROVE  P!Slot(s) \cap held \subseteq UNION {P!Slot(t) : t \in {x \in P!Secrets : P!Kind(x) # P!Kind(s)}}
<1>1. SUFFICES ASSUME NEW y \in P!Slot(s) \cap held
      PROVE \E t \in P!Secrets : P!Kind(t) # P!Kind(s) /\ y \in P!Slot(t)
  OBVIOUS
<1>2. PICK t \in P!Proper(v) : y \in P!Slot(t)
  OBVIOUS
<1>3. t \in P!Secrets
  BY SecretsAre
<1>4. P!Kind(t) # P!Kind(s)
  BY <1>2, SlotsApart
<1> QED
  BY <1>2, <1>3, <1>4

\* While the containers stay, so does what is said of them.
LEMMA PodsStay ==
  ASSUME P!ProvisionAssumption, P!ProvisionInv, P_Same, UNCHANGED P_container
  PROVE  P!EveryPodServes' /\ P!PodsAreApart' /\ P!MadeOfItsOwn'
<1>1. P!EveryPodServes'
  BY HouseStays DEF P!ProvisionInv, P!EveryPodServes
<1>2. P!PodsAreApart'
  <2>1. P!PodsAreApart
    BY DEF P!ProvisionInv
  <2> QED
    BY <2>1, HouseStays DEF P!PodsAreApart
<1>3. P!MadeOfItsOwn'
  BY HouseStays DEF P!ProvisionInv, P!MadeOfItsOwn
<1> QED
  BY <1>1, <1>2, <1>3

\* What was handed was proved when it was, and the configuration has not moved since.
LEMMA HandedStays ==
  ASSUME P!ProvisionAssumption, P!ProvisionInv, P_Same,
         \A u \in P!Units : P_given'[u] # P!NoPod => P_given'[u] = P_given[u]
  PROVE  P!HandedOnceProved'
BY HouseStays DEF P!ProvisionInv, P!HandedOnceProved, P_Same

\* The host has every unit's secrets resolved before it hands out any.
LEMMA PodsAreProved ==
  ASSUME P!ProvisionAssumption, P!ProvisionInv, P!HostBuilds
  PROVE  P!HandedOnceProved' /\ P!TypeOK'
<1>1. P!TypeOK /\ P!Sound /\ P_house.mode = "isolated" /\ P_Same /\ P_host' \in {"up", "refused"}
  BY DEF P!ProvisionInv, P!HostBuilds, P_Same
<1>2. CASE UNCHANGED P_given
  <2>1. \A u \in P!Units : P_given[u] = P!NoPod
    BY DEF P!ProvisionInv, P!TypeOK, P!HostBuilds
  <2> QED
    BY <1>1, <1>2, <2>1, HandedStays DEF P!TypeOK, P!HostBuilds
<1>3. CASE /\ \A u \in P!Podded : P!Proved(u)
           /\ P_host' = "up" /\ P_given' = [u \in P!Units |-> IF P!HasPod(u) THEN P!Handed(u) ELSE P!NoPod]
  <2>1. ASSUME NEW u \in P!Units, P_given'[u] # P!NoPod
        PROVE  /\ P!Podable(u) /\ P!Own(u) \subseteq P_given'[u] /\ P_given'[u] \subseteq P!Proper(u)
               /\ \A s \in P!Proper(u) \ P_given'[u] : P_house.ref[s] = {}
    <3>1. P_given'[u] = P!Handed(u) /\ P!HasPod(u) /\ P!Proved(u)
      BY <1>3, <2>1 DEF P!Podded
    <3>2. P!Own(u) \subseteq P!Handed(u) /\ P!Handed(u) \subseteq P!Proper(u)
      BY DEF P!Handed, P!Proper
    <3>3. ASSUME NEW s \in P!Proper(u) \ P!Handed(u) PROVE P_house.ref[s] = {}
      <4>1. P!Resolve(s, P_have) # "fault" /\ P!Resolve(s, P_have) # "set"
        BY <3>1, <3>3 DEF P!Handed, P!Proper, P!Proved
      <4> QED
        BY <4>1 DEF P!Resolve
    <3> QED
      BY <1>1, <3>1, <3>2, <3>3 DEF P!Podable
  <2>2. P!HandedOnceProved'
    BY <1>1, <2>1, HouseStays DEF P!HandedOnceProved, P_Same
  <2>3. \A u \in P!Units : P_given'[u] = P!NoPod \/ P_given'[u] \subseteq P!Secrets
    BY <1>1, <2>1, SecretsAre
  <2>4. P!TypeOK'
    BY <1>1, <1>3, <2>3 DEF P!TypeOK, P!HostBuilds, P_Same
  <2> QED
    BY <2>2, <2>4
<1> QED
  BY <1>2, <1>3 DEF P!HostBuilds

\* A container is made of its unit's own secrets, all of them there.
LEMMA PodIsMade ==
  ASSUME P!ProvisionAssumption, P!ProvisionInv, NEW u \in P!Units, P!Make(u)
  PROVE  P!ProvisionInv'
<1>1. /\ P!TypeOK /\ P_Same /\ UNCHANGED <<x2, x3, x4, x6>> /\ P_AllThere(u) /\ P_given[u] # P!NoPod
      /\ P!Podable(u) /\ P_given[u] \subseteq P!Proper(u)
  BY DEF P!ProvisionInv, P!HandedOnceProved, P!Make, P_Same, P_AllThere
<1>2. PICK held : held = UNION {P!Slot(s) : s \in P_given[u]}
  OBVIOUS
<1>3. P_container' = [P_container EXCEPT ![u] = held]
  BY <1>2 DEF P!Make
<1>4. P_container'[u] = held /\ \A v \in P!Units \ {u} : P_container'[v] = P_container[v]
  BY <1>1, <1>3 DEF P!TypeOK
<1>5. held \subseteq UNION {P!Slot(s) : s \in P!Proper(u)}
  BY <1>1, <1>2
<1>6. held \subseteq P!Slots
  <2>1. \A s \in P!Secrets : P!Slot(s) \subseteq P!Slots
    BY <1>1, SecretsAre DEF P!Slot, P!Slots
  <2> QED
    BY <1>1, <1>5, <2>1, SecretsAre
<1>7. P!TypeOK'
  <2>1. DOMAIN P_container' = P!Units
    BY <1>1, <1>3 DEF P!TypeOK
  <2>2. \A v \in P!Units : P_container'[v] = P!NoPod \/ P_container'[v] \subseteq P!Slots
    BY <1>1, <1>4, <1>6 DEF P!TypeOK
  <2> QED
    BY <1>1, <2>1, <2>2 DEF P!TypeOK, P_Same
<1>8. P!RunsUnit(u, held) /\ P!Doctor(u, held)
  BY <1>1, <1>2, PodServes DEF P_Made
<1>9. P!EveryPodServes'
  <2>1. \A v \in P!Units : P_container'[v] # P!NoPod =>
          P!RunsUnit(v, P_container'[v]) /\ P!Doctor(v, P_container'[v])
    BY <1>4, <1>8 DEF P!ProvisionInv, P!EveryPodServes
  <2> QED
    BY <1>1, <2>1, HouseStays DEF P!EveryPodServes
<1>10. \A v \in P!Units : P_container'[v] # P!NoPod =>
         P!Podable(v) /\ P_container'[v] \subseteq UNION {P!Slot(s) : s \in P!Proper(v)}
  BY <1>1, <1>4, <1>5 DEF P!ProvisionInv, P!MadeOfItsOwn
<1>11. P!MadeOfItsOwn'
  BY <1>1, <1>10, HouseStays DEF P!MadeOfItsOwn
<1>12. \A v, w \in P!Units : v # w /\ P_container'[v] # P!NoPod /\ P_container'[w] # P!NoPod =>
         \A s \in P!Own(v) : P!Slot(s) \cap P_container'[w] \subseteq
           UNION {P!Slot(t) : t \in {x \in P!Secrets : P!Kind(x) # P!Kind(s)}}
  BY <1>1, <1>10, OwnApart
<1>13. P!PodsAreApart'
  BY <1>1, <1>12, HouseStays DEF P!PodsAreApart
<1>14. P!HandedOnceProved'
  BY <1>1, HandedStays
<1>15. (P_host \in {"checked", "up"} => P!Sound)'
  BY <1>1, HouseStays DEF P!ProvisionInv
<1> QED
  BY <1>7, <1>9, <1>11, <1>13, <1>14, <1>15 DEF P!ProvisionInv

\* The configuration moves only while no pod is up; what is handed is proved, what is made was handed.
LEMMA ProvisionStep ==
  ASSUME P!ProvisionAssumption, P!ProvisionInv, [P!Next]_(P!provisionVars)
  PROVE  P!ProvisionInv'
<1>1. P!TypeOK /\ (P_host \in {"checked", "up"} => P!Sound)
  BY DEF P!ProvisionInv
<1>2. ASSUME P_Same, UNCHANGED P_container, P!TypeOK', P!HandedOnceProved', P_host' \in {"checked", "up"} => P!Sound
      PROVE  P!ProvisionInv'
  BY <1>2, PodsStay, HouseStays DEF P!ProvisionInv
<1>3. CASE P!HostChecks
  <2>1. P_host' \in {"checked", "refused"} /\ P_Same /\ UNCHANGED <<x2, x4, x5, x6>>
        /\ (P_host' = "checked" => P!Sound)
    BY <1>3 DEF P!HostChecks, P_Same, P!Valid
  <2>2. P!TypeOK'
    BY <1>1, <1>3, <2>1 DEF P!TypeOK, P!HostChecks, P_Same
  <2> QED
    BY <1>2, <2>1, <2>2, HandedStays
<1>4. CASE P!NodeStarts
  <2>1. P_host' \in {"up", "refused"} /\ P_Same /\ UNCHANGED <<x2, x4, x5, x6>> /\ P_host = "checked"
    BY <1>4 DEF P!NodeStarts, P_Same
  <2>2. P!TypeOK'
    BY <1>1, <2>1 DEF P!TypeOK, P_Same
  <2> QED
    BY <1>1, <1>2, <2>1, <2>2, HandedStays
<1>5. CASE P!HostBuilds
  BY <1>1, <1>2, <1>5, PodsAreProved DEF P!HostBuilds, P_Same
<1>6. CASE P!HostStops
  <2>1. /\ P_host' = "off" /\ P_Same /\ UNCHANGED <<x2, x5, x6>>
        /\ P_given' = [u \in P!Units |-> P!NoPod]
    BY <1>6 DEF P!HostStops, P_Same
  <2>2. P!TypeOK'
    BY <1>1, <2>1 DEF P!TypeOK, P_Same
  <2> QED
    BY <1>2, <2>1, <2>2, HandedStays
<1>7. ASSUME NEW x \in P!Slots, P!Change(x) PROVE P!ProvisionInv'
  <2>1. P_have' \subseteq P!Slots /\ P_faults' \in 0..MaxFaults /\ P_Same /\ UNCHANGED <<x3, x4, x5>>
    BY <1>1, <1>7 DEF P!Change, P_Same, P!TypeOK, P!ProvisionAssumption
  <2>2. P!TypeOK'
    BY <1>1, <2>1 DEF P!TypeOK, P_Same
  <2> QED
    BY <1>1, <1>2, <2>1, <2>2, HandedStays
<1>8. CASE UNCHANGED P!provisionVars
  <2>1. P_Same /\ UNCHANGED <<x2, x3, x4, x5, x6>>
    BY <1>8 DEF P!provisionVars, P_Same
  <2>2. P!TypeOK'
    BY <1>1, <2>1 DEF P!TypeOK, P_Same
  <2> QED
    BY <1>1, <1>2, <2>1, <2>2, HandedStays
<1> QED
  BY <1>3, <1>4, <1>5, <1>6, <1>7, <1>8, PodIsMade DEF P!Next

HIDE DEF P_house, P_have, P_host, P_given, P_container, P_faults

=============================================================================
