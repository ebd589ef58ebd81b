-------------------------------- MODULE Pool --------------------------------
(***************************************************************************)
(* The routing pool: which endpoint a request is sent to.  Concurrent calls *)
(* walk the tiers of a conversation's chain, which is its privacy policy,   *)
(* and share what the pool knows of its endpoints: when each was last used, *)
(* which of them answered a probe lately, and which rest after a failure.   *)
(***************************************************************************)
EXTENDS Integers, Sequences, FiniteSets, FiniteSetsExt

CONSTANTS
  Endpoints,  \* the configured endpoints, each on a host of its own
  Tiers,      \* the tags of the configuration
  Tagged,     \* the endpoints that carry each tag
  Chain,      \* the tier chain of the conversation, a sequence of tags
  Requests,   \* the calls of Complete
  ProbeTTL, CooldownBase, CooldownCeiling,
  LastTick    \* bound: how long the clock runs

PoolAssumption ==
  /\ IsFiniteSet(Endpoints)
  /\ Tagged \in [Tiers -> SUBSET Endpoints] /\ Chain \in Seq(Tiers)
  /\ ProbeTTL \in Nat /\ CooldownBase \in Nat /\ CooldownCeiling \in Nat /\ LastTick \in Nat

VARIABLES
  call,      \* each call: its tier, what it looks at and what it has tried
  probes,    \* the probe cache: what was found, and until when that holds
  cooldown,  \* the endpoints' consecutive failures and the end of their rest
  lastUsed,  \* the rank of each endpoint's last use
  tick       \* the clock

poolVars == <<call, probes, cooldown, lastUsed, tick>>

Nobody == "nobody"
Call == [stage : {"new", "looking", "choosing", "asking", "done"},
         tier : 1..(Len(Chain) + 1),
         look : SUBSET Endpoints,        \* the endpoints of the tier still to look at
         candidates : SUBSET Endpoints,  \* those that may be asked
         tried : SUBSET Endpoints,       \* those that are named when nobody answers
         at : Endpoints \cup {Nobody},   \* the endpoint that is asked
         asked : SUBSET Endpoints,       \* history: those that saw the request
         declined : BOOLEAN,             \* history: whether one of them declined it
         result : {"none", "answer", "declined", "cancelled", "noBackend"}]

PoolTypeOK ==
  /\ call \in [Requests -> Call]
  /\ probes \in [Endpoints -> [ok : BOOLEAN, until : Nat]]
  /\ cooldown \in [Endpoints -> [failures : Nat, until : 0..(LastTick + CooldownCeiling)]]
  /\ lastUsed \in [Endpoints -> Nat]
  /\ tick \in 0..LastTick
  \* each use has a rank of its own
  /\ \A e, f \in Endpoints : lastUsed[e] = lastUsed[f] /\ lastUsed[e] > 0 => e = f

PoolInit ==
  /\ call = [r \in Requests |-> [stage |-> "new", tier |-> 1, look |-> {}, candidates |-> {},
                                 tried |-> {}, at |-> Nobody, asked |-> {},
                                 declined |-> FALSE, result |-> "none"]]
  /\ probes = [e \in Endpoints |-> [ok |-> FALSE, until |-> 0]]
  /\ cooldown = [e \in Endpoints |-> [failures |-> 0, until |-> 0]]
  /\ lastUsed = [e \in Endpoints |-> 0] /\ tick = 0

-----------------------------------------------------------------------------
Least(a, b) == IF a < b THEN a ELSE b

\* A call comes to a tier, or to the end of its chain.
AtTier(c, n) ==
  IF n > Len(Chain) THEN [c EXCEPT !.stage = "done", !.result = "noBackend", !.tier = n, !.candidates = {}]
  ELSE [c EXCEPT !.stage = "looking", !.tier = n, !.look = Tagged[Chain[n]], !.candidates = {}]

Begin(r) ==
  /\ call[r].stage = "new"
  /\ call' = [call EXCEPT ![r] = AtTier(@, 1)]
  /\ UNCHANGED <<probes, cooldown, lastUsed, tick>>

\* tierCandidates: the endpoints that neither rest nor fail to answer a probe, which is
\* asked again when its last answer is too old.  The others count as tried.
Rests(e) == tick < cooldown[e].until
LookAt(r, e) ==
  /\ call[r].stage = "looking" /\ e \in call[r].look
  /\ \E up \in BOOLEAN :
       LET usable == ~Rests(e) /\ up
       IN /\ IF Rests(e) \/ tick < probes[e].until
             THEN UNCHANGED probes /\ (tick < probes[e].until => up = probes[e].ok)
             ELSE probes' = [probes EXCEPT ![e] = [ok |-> up, until |-> tick + ProbeTTL]]
          /\ call' = [call EXCEPT ![r].look = @ \ {e},
                                  ![r].candidates = IF usable THEN @ \cup {e} ELSE @,
                                  ![r].tried = IF usable THEN @ ELSE @ \cup {e}]
  /\ UNCHANGED <<cooldown, lastUsed, tick>>

\* The tier is looked through.
Looked(r) ==
  /\ call[r].stage = "looking" /\ call[r].look = {}
  /\ call' = [call EXCEPT ![r].stage = "choosing"]
  /\ UNCHANGED <<probes, cooldown, lastUsed, tick>>

\* takeLRU: the candidate that was used longest ago is taken, and used as of now.
Choose(r, e) ==
  /\ call[r].stage = "choosing" /\ e \in call[r].candidates
  /\ \A f \in call[r].candidates : lastUsed[e] <= lastUsed[f]
  /\ lastUsed' = [lastUsed EXCEPT ![e] = 1 + Max({lastUsed[f] : f \in Endpoints})]
  /\ call' = [call EXCEPT ![r].stage = "asking", ![r].at = e, ![r].candidates = @ \ {e},
                          ![r].tried = @ \cup {e}, ![r].asked = @ \cup {e}]
  /\ UNCHANGED <<probes, cooldown, tick>>

\* The tier has nobody left to ask.
NextTier(r) ==
  /\ call[r].stage = "choosing" /\ call[r].candidates = {}
  /\ call' = [call EXCEPT ![r] = AtTier(@, @.tier + 1)]
  /\ UNCHANGED <<probes, cooldown, lastUsed, tick>>

-----------------------------------------------------------------------------
Ends(r, result) == call' = [call EXCEPT ![r].stage = "done", ![r].result = result]
Asking(r, e) == call[r].stage = "asking" /\ call[r].at = e

\* The endpoint answers, and its failures are forgotten.
Answer(r, e) ==
  /\ Asking(r, e) /\ Ends(r, "answer")
  /\ cooldown' = [cooldown EXCEPT ![e] = [failures |-> 0, until |-> 0]]
  /\ UNCHANGED <<probes, lastUsed, tick>>

\* A mutant of Decline: any error is a reason to try another machine.
DeclineAsFailure(r, e) ==
  /\ Asking(r, e)
  /\ call' = [call EXCEPT ![r].stage = "choosing", ![r].declined = TRUE]
  /\ UNCHANGED <<probes, cooldown, lastUsed, tick>>

\* The request is rejected, the model declines it or thinks itself into silence: no other
\* machine is asked, and this one does not rest.
Decline(r, e) ==
  /\ Asking(r, e)
  /\ call' = [call EXCEPT ![r].stage = "done", ![r].result = "declined", ![r].declined = TRUE]
  /\ UNCHANGED <<probes, cooldown, lastUsed, tick>>

\* The endpoint fails: it rests, twice as long each time in a row up to the ceiling, and
\* the next is asked.
Rest(n) == Least(CooldownBase * 2^(Least(n, 5) - 1), CooldownCeiling)
FailOver(r, e) ==
  /\ Asking(r, e)
  /\ LET n == cooldown[e].failures + 1
     IN cooldown' = [cooldown EXCEPT ![e] = [failures |-> n, until |-> tick + Rest(n)]]
  /\ call' = [call EXCEPT ![r].stage = "choosing"]
  /\ UNCHANGED <<probes, lastUsed, tick>>

\* The caller's context is done: seen when an endpoint returns, and between the tiers.
\* What a probe finds behind it is not remembered.
CancelCall(r) ==
  /\ \/ call[r].stage = "asking"
     \/ call[r].stage \in {"looking", "choosing"} /\ call[r].candidates = {}
  /\ Ends(r, "cancelled")
  /\ UNCHANGED <<probes, cooldown, lastUsed, tick>>

Tick == tick < LastTick /\ tick' = tick + 1 /\ UNCHANGED <<call, probes, cooldown, lastUsed>>

PoolNext ==
  \/ Tick
  \/ \E r \in Requests :
       \/ Begin(r) \/ Looked(r) \/ NextTier(r) \/ CancelCall(r)
       \/ \E e \in Endpoints : \/ LookAt(r, e) \/ Choose(r, e) \/ Answer(r, e)
                               \/ Decline(r, e) \/ FailOver(r, e)

PoolSpec == PoolInit /\ [][PoolNext]_poolVars

-----------------------------------------------------------------------------
\* The chain is a privacy policy: a request reaches a tier only when every endpoint of
\* the tiers before it has been tried or skipped, none outside those tiers has seen it,
\* and nobody sees it after a machine declined it.  "No backend" names every endpoint.
AsksInOrder ==
  \A r \in Requests :
    LET c == call[r]
        Before == UNION {Tagged[Chain[i]] : i \in 1..(c.tier - 1)}
        UpTo == UNION {Tagged[Chain[i]] : i \in 1..Least(c.tier, Len(Chain))}
    IN /\ Before \subseteq c.tried /\ c.asked \subseteq UpTo
       /\ c.declined => c.result = "declined"

=============================================================================
