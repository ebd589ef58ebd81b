------------------------------ MODULE Updates ------------------------------
(***************************************************************************)
(* A node that updates itself.  The scheduler checks for a release, and     *)
(* applying one drains the household (the supervisor's own Stop) before the *)
(* binary is swapped; the process then goes down to be restarted, and the   *)
(* next one commits the new binary or rolls it back.  Checking, consent,    *)
(* locking and swapping are keel's, known here by what Apply and Resume     *)
(* answer.                                                                  *)
(***************************************************************************)
EXTENDS Integers, FiniteSets

CONSTANTS
  Releases,     \* the releases that may be offered: the versions above the first, 0
  NeedConsent,  \* those that need a consent nobody can be asked for
  Sick,         \* those whose health check fails
  MaxBoots      \* bound: how often the process starts

UpdatesAssumption ==
  /\ Releases \subseteq Nat \ {0} /\ NeedConsent \subseteq Releases /\ Sick \subseteq Releases
  /\ MaxBoots \in Nat

VARIABLES
  disk,       \* the installed version, the one kept to go back to, and whether it is settled
  process,    \* the process: its stage, and its version
  household,  \* whether the supervisor serves
  scheduler,  \* the update loop: its stage and the release it handles
  declined,   \* the versions this process will not try again
  drained,    \* whether this cycle's Apply began to drain
  wanted,     \* whether a restart was requested
  cancelled,  \* whether serve's context is done
  signalled,  \* whether a signal arrived
  code,       \* the exit code of the process before
  boots,
  silenced    \* history: this process drained its household for an update

updatesVars == <<disk, process, household, scheduler, declined, drained, wanted,
                 cancelled, signalled, code, boots, silenced>>

Asleep == [stage |-> "waiting", release |-> 0]
Versions == Releases \cup {0}

UpdatesTypeOK ==
  /\ disk \in [version : Versions, previous : Versions, pending : BOOLEAN]
  /\ process \in [stage : {"down", "resuming", "serving", "returned", "stopping"}, version : Versions]
  /\ household \in {"stopped", "serving"}
  /\ scheduler \in [stage : {"none", "waiting", "applying", "draining", "swapping", "failed", "ended"}, release : Versions]
  /\ declined \subseteq Releases /\ {drained, wanted, cancelled, signalled, silenced} \subseteq BOOLEAN
  /\ code \in {"none", "ok", "failure", "restart"} /\ boots \in 0..MaxBoots
  \* serve's context ends with a signal or a wanted restart, or behind the supervisor
  /\ process.stage \in {"resuming", "serving", "returned"} /\ cancelled => signalled \/ wanted

UpdatesInit ==
  /\ disk = [version |-> 0, previous |-> 0, pending |-> FALSE]
  /\ process = [stage |-> "down", version |-> 0] /\ household = "stopped"
  /\ scheduler = [stage |-> "none", release |-> 0] /\ declined = {} /\ drained = FALSE
  /\ wanted = FALSE /\ cancelled = FALSE /\ signalled = FALSE /\ code = "none" /\ boots = 0
  /\ silenced = FALSE

-----------------------------------------------------------------------------
\* The service manager starts whatever is installed; a new process remembers nothing.
Boot ==
  /\ process.stage = "down" /\ boots < MaxBoots
  /\ boots' = boots + 1 /\ process' = [stage |-> "resuming", version |-> disk.version]
  /\ declined' = {} /\ drained' = FALSE /\ wanted' = FALSE /\ cancelled' = FALSE
  /\ signalled' = FALSE /\ silenced' = FALSE
  /\ UNCHANGED <<disk, household, scheduler, code>>

Exits(c) ==
  /\ process' = [process EXCEPT !.stage = "down"] /\ code' = c
  /\ household' = "stopped" /\ scheduler' = [stage |-> "none", release |-> 0]

Serves ==
  /\ process' = [process EXCEPT !.stage = "serving"] /\ household' = "serving"
  /\ scheduler' = Asleep /\ UNCHANGED code

\* resumeUpdate: the pending binary is committed, or the previous one is put back and this
\* process is the wrong build to go on.  Resume may also find the install path locked, or
\* fail: then the node serves all the same, and the update stays pending.
Resume ==
  /\ process.stage = "resuming"
  /\ \/ ~disk.pending /\ Serves /\ UNCHANGED disk
     \/ /\ disk.pending /\ disk.version \notin Sick
        /\ disk' = [disk EXCEPT !.pending = FALSE] /\ Serves
     \/ /\ disk.pending /\ disk.version \in Sick
        /\ disk' = [disk EXCEPT !.version = disk.previous, !.pending = FALSE] /\ Exits("restart")
     \/ disk.pending /\ Serves /\ UNCHANGED disk
  /\ UNCHANGED <<declined, drained, wanted, cancelled, signalled, boots, silenced>>

-----------------------------------------------------------------------------
\* runOnce: a release that is newer and was not declined; a failed check changes nothing.
Check(r) ==
  /\ scheduler.stage = "waiting" /\ ~cancelled
  /\ r > process.version /\ r \notin declined
  /\ scheduler' = [stage |-> "applying", release |-> r] /\ drained' = FALSE
  /\ UNCHANGED <<disk, process, household, declined, wanted, cancelled, signalled, code, boots, silenced>>

\* Apply refuses before it drains anybody: no consent (remembered), a sibling's lock, an
\* update that is pending, or any other failure.
Refused ==
  /\ scheduler.stage = "applying"
  /\ IF scheduler.release \in NeedConsent
     THEN declined' = declined \cup {scheduler.release} ELSE UNCHANGED declined
  /\ scheduler' = Asleep
  /\ UNCHANGED <<disk, process, household, drained, wanted, cancelled, signalled, code, boots, silenced>>

\* The drain hook notes the drain first, then stops the supervisor.
BeginDrain ==
  /\ scheduler.stage = "applying" /\ scheduler.release \notin NeedConsent /\ ~disk.pending
  /\ scheduler' = [scheduler EXCEPT !.stage = "draining"] /\ drained' = TRUE /\ silenced' = TRUE
  /\ UNCHANGED <<disk, process, household, declined, wanted, cancelled, signalled, code, boots>>

Drained ==
  /\ scheduler.stage = "draining"
  /\ household' = "stopped"
  /\ \E ok \in BOOLEAN : scheduler' = [scheduler EXCEPT !.stage = IF ok THEN "swapping" ELSE "failed"]
  /\ UNCHANGED <<disk, process, declined, drained, wanted, cancelled, signalled, code, boots, silenced>>

\* The swap, and the Restart hook; or it fails with the disk as it was.
Swap ==
  /\ scheduler.stage = "swapping"
  /\ \/ /\ disk' = [version |-> scheduler.release, previous |-> disk.version, pending |-> TRUE]
        /\ wanted' = TRUE /\ scheduler' = Asleep
     \/ scheduler' = [scheduler EXCEPT !.stage = "failed"] /\ UNCHANGED <<disk, wanted>>
  /\ UNCHANGED <<process, household, declined, drained, cancelled, signalled, code, boots, silenced>>

\* A mutant of Recover: a failed apply is retried on the next cycle.
RecoverLater ==
  /\ scheduler.stage = "failed"
  /\ scheduler' = Asleep
  /\ UNCHANGED <<disk, process, household, declined, drained, wanted, cancelled, signalled, code, boots, silenced>>

\* A household that was drained for an update that did not complete: restart it anyway.
Recover ==
  /\ scheduler.stage = "failed"
  /\ wanted' = (wanted \/ drained) /\ scheduler' = Asleep
  /\ UNCHANGED <<disk, process, household, declined, drained, cancelled, signalled, code, boots, silenced>>

\* The loop ends between two cycles, on its context.
LoopEnds ==
  /\ scheduler.stage = "waiting" /\ cancelled
  /\ scheduler' = [scheduler EXCEPT !.stage = "ended"]
  /\ UNCHANGED <<disk, process, household, declined, drained, wanted, cancelled, signalled, code, boots, silenced>>

-----------------------------------------------------------------------------
Signal ==
  /\ process.stage \in {"serving", "returned"} /\ ~signalled
  /\ signalled' = TRUE /\ cancelled' = TRUE
  /\ UNCHANGED <<disk, process, household, scheduler, declined, drained, wanted, code, boots, silenced>>

\* The goroutine that turns a wanted restart into the end of the context.
Notice ==
  /\ process.stage # "down" /\ wanted /\ ~cancelled
  /\ cancelled' = TRUE
  /\ UNCHANGED <<disk, process, household, scheduler, declined, drained, wanted, signalled, code, boots, silenced>>

\* sup.Start returns: it was drained, its context is done, or it failed by itself.
StartReturns ==
  /\ process.stage = "serving"
  /\ process' = [process EXCEPT !.stage = "returned"] /\ household' = "stopped"
  /\ UNCHANGED <<disk, scheduler, declined, drained, wanted, cancelled, signalled, code, boots, silenced>>

\* serve gives an update its time to finish: until the loop ended, or for the grace, or not
\* at all when the context was already done.  Then it cancels.
Proceed ==
  /\ process.stage = "returned"
  /\ process' = [process EXCEPT !.stage = "stopping"] /\ cancelled' = TRUE
  /\ UNCHANGED <<disk, household, scheduler, declined, drained, wanted, signalled, code, boots, silenced>>

\* A mutant of Exit: the code is chosen while the loop still runs.
ExitAtOnce ==
  /\ process.stage = "stopping"
  /\ IF wanted THEN Exits("restart") ELSE \E c \in {"ok", "failure"} : Exits(c)
  /\ UNCHANGED <<disk, declined, drained, wanted, cancelled, signalled, boots, silenced>>

\* Stop, and the loop is waited for before the exit code is chosen.
Exit ==
  /\ process.stage = "stopping" /\ scheduler.stage = "ended"
  /\ IF wanted THEN Exits("restart") ELSE \E c \in {"ok", "failure"} : Exits(c)
  /\ UNCHANGED <<disk, declined, drained, wanted, cancelled, signalled, boots, silenced>>

UpdatesNext ==
  \/ Boot \/ Resume \/ Refused \/ BeginDrain \/ Drained \/ Swap \/ Recover \/ LoopEnds
  \/ Signal \/ Notice \/ StartReturns \/ Proceed \/ Exit
  \/ \E r \in Releases : Check(r)

UpdatesSpec == UpdatesInit /\ [][UpdatesNext]_updatesVars

-----------------------------------------------------------------------------
\* "An update must never take the assistant down": a process that drained its household
\* for an update exits to be restarted, whatever became of the drain, the swap, the grace
\* or a signal in between; and what it serves next is settled, or waits for a Resume.
DrainedComesBack ==
  /\ process.stage = "down" /\ silenced => code = "restart"
  /\ process.stage = "serving" /\ process.version \in Sick => disk.pending

=============================================================================
