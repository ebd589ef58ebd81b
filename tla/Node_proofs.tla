---------------------------- MODULE Node_proofs ----------------------------
(***************************************************************************)
(* Safety of what a household's process is made of, for any constants: the *)
(* routing pool, whose chain is a privacy policy, the store's keys, the    *)
(* mux with its queues, and the turn of the assistant: what it reads, what *)
(* it shows the model and what it says was done.  A call of the pool       *)
(* carries its own invariant: the endpoints of its tier are still to look  *)
(* at, may be asked, or count as tried, so that a call that has none left  *)
(* to ask has been through all of them.  The others are parts of MCParts,  *)
(* which move by themselves; their inductive invariants are in their own   *)
(* modules, and their variables go here by the part's letter and their     *)
(* names there.  The theorems about the parts are in Parts_proofs.         *)
(***************************************************************************)
EXTENDS MCParts, TLAPS, FiniteSetTheorems, SequenceTheorems, WellFoundedInduction

Before(n) == UNION {Tagged[Chain[i]] : i \in 1..(n - 1)}
UpTo(n) == UNION {Tagged[Chain[i]] : i \in 1..Least(n, Len(Chain))}
Here(c) == Tagged[Chain[c.tier]]

CallTypes(c) ==
  /\ c \in Call
  /\ c.stage \in {"looking", "choosing", "asking"} => c.tier <= Len(Chain)

\* What a call owes its chain.
CallInv(c) ==
  /\ CallTypes(c)
  /\ c.stage = "new" => c.asked = {} /\ c.tier = 1
  /\ Before(c.tier) \subseteq c.tried /\ c.asked \subseteq UpTo(c.tier)
  /\ c.stage = "looking" =>
       c.look \cup c.candidates \subseteq Here(c) /\ Here(c) \subseteq c.look \cup c.candidates \cup c.tried
  /\ c.stage \in {"choosing", "asking"} =>
       c.candidates \subseteq Here(c) /\ Here(c) \subseteq c.candidates \cup c.tried
  /\ c.declined => c.stage = "done" /\ c.result = "declined"

PoolInv == call \in [Requests -> Call] /\ \A r \in Requests : CallInv(call[r])

-----------------------------------------------------------------------------
LEMMA ChainTypes ==
  ASSUME PoolAssumption
  PROVE  /\ Len(Chain) \in Nat /\ \A i \in 1..Len(Chain) : Chain[i] \in Tiers
         /\ \A i \in 1..Len(Chain) : Tagged[Chain[i]] \subseteq Endpoints
BY DEF PoolAssumption

\* The tiers of a chain, one further.
LEMMA OneTierFurther ==
  ASSUME PoolAssumption, NEW n \in 1..Len(Chain)
  PROVE  /\ Before(n + 1) = Before(n) \cup Tagged[Chain[n]]
         /\ Tagged[Chain[n]] \subseteq UpTo(n)
         /\ UpTo(n) \subseteq UpTo(n + 1)
<1>1. Len(Chain) \in Nat /\ n \in Nat
  BY ChainTypes
<1>2. \A i : i \in 1..(n + 1 - 1) <=> i \in 1..(n - 1) \/ i = n
  BY <1>1
<1>3. Before(n + 1) = Before(n) \cup Tagged[Chain[n]]
  BY <1>2 DEF Before
<1>4. n \in 1..Least(n, Len(Chain)) /\ 1..Least(n, Len(Chain)) \subseteq 1..Least(n + 1, Len(Chain))
  BY <1>1 DEF Least
<1>5. Tagged[Chain[n]] \subseteq UpTo(n) /\ UpTo(n) \subseteq UpTo(n + 1)
  BY <1>4 DEF UpTo
<1> QED
  BY <1>3, <1>5

LEMMA FirstTier == Before(1) = {}
BY DEF Before

\* A call that comes to a tier whose predecessors it has been through.
LEMMA AtTierInv ==
  ASSUME PoolAssumption, NEW c \in Call, NEW n \in 1..(Len(Chain) + 1),
         ~c.declined, Before(n) \subseteq c.tried, c.asked \subseteq UpTo(n)
  PROVE  CallInv(AtTier(c, n))
<1>1. Len(Chain) \in Nat
  BY ChainTypes
<1>2. CASE n > Len(Chain)
  <2> DEFINE d == [c EXCEPT !.stage = "done", !.result = "noBackend", !.tier = n, !.candidates = {}]
  <2>1. AtTier(c, n) = d
    BY <1>2 DEF AtTier
  <2>2. d \in Call /\ d.stage = "done" /\ d.tier = n /\ d.tried = c.tried /\ d.asked = c.asked
        /\ d.declined = c.declined
    BY <1>1 DEF Call
  <2> HIDE DEF d
  <2>3. CallInv(d)
    BY <2>2 DEF CallInv, CallTypes
  <2> QED
    BY <2>1, <2>3
<1>3. CASE ~(n > Len(Chain))
  <2> DEFINE d == [c EXCEPT !.stage = "looking", !.tier = n, !.look = Tagged[Chain[n]], !.candidates = {}]
  <2>1. AtTier(c, n) = d
    BY <1>3 DEF AtTier
  <2>2. n \in 1..Len(Chain) /\ Tagged[Chain[n]] \subseteq Endpoints
    BY <1>1, <1>3, ChainTypes
  <2>3. /\ d \in Call /\ d.stage = "looking" /\ d.tier = n /\ d.tried = c.tried /\ d.asked = c.asked
        /\ d.declined = c.declined /\ d.look = Tagged[Chain[n]] /\ d.candidates = {}
    BY <1>1, <2>2 DEF Call
  <2> HIDE DEF d
  <2>4. CallInv(d)
    BY <1>1, <2>2, <2>3 DEF CallInv, CallTypes, Here
  <2> QED
    BY <2>1, <2>4
<1> QED
  BY <1>2, <1>3

LEMMA PoolInitInv == ASSUME PoolAssumption, PoolInit PROVE PoolInv
<1> DEFINE c == [stage |-> "new", tier |-> 1, look |-> {}, candidates |-> {}, tried |-> {},
                 at |-> Nobody, asked |-> {}, declined |-> FALSE, result |-> "none"]
<1>1. c \in Call
  BY ChainTypes DEF Call
<1>2. CallInv(c)
  BY <1>1, FirstTier DEF CallInv, CallTypes
<1>3. call = [r \in Requests |-> c]
  BY DEF PoolInit
<1> HIDE DEF c
<1> QED
  BY <1>1, <1>2, <1>3 DEF PoolInv

-----------------------------------------------------------------------------
\* A step of one call is that call's: it is enough that its new state keeps the invariant.
LEMMA OneCall ==
  ASSUME PoolInv, NEW r \in Requests, NEW c, CallInv(c), call' = [call EXCEPT ![r] = c]
  PROVE  PoolInv'
<1>1. call' \in [Requests -> Call] /\ \A q \in Requests : call'[q] = IF q = r THEN c ELSE call[q]
  BY DEF PoolInv, CallInv, CallTypes
<1>2. ASSUME NEW q \in Requests PROVE CallInv(call'[q])
  <2>1. CASE q = r
    BY <1>1, <2>1
  <2>2. CASE q # r
    <3>1. call'[q] = call[q] /\ CallInv(call[q])
      BY <1>1, <2>2 DEF PoolInv
    <3> QED
      BY <3>1
  <2> QED
    BY <2>1, <2>2
<1> QED
  BY <1>1, <1>2 DEF PoolInv

\* A call that ends owes its chain nothing new.
LEMMA EndedCall ==
  ASSUME PoolAssumption, NEW c, CallInv(c), NEW s \in {"answer", "cancelled", "declined"},
         NEW b \in BOOLEAN, b => s = "declined", ~c.declined
  PROVE  CallInv([c EXCEPT !.stage = "done", !.result = s, !.declined = b])
<1> DEFINE d == [c EXCEPT !.stage = "done", !.result = s, !.declined = b]
<1>1. c \in Call
  BY DEF CallInv, CallTypes
<1>2. /\ d \in Call /\ d.stage = "done" /\ d.result = s /\ d.declined = b
      /\ d.tier = c.tier /\ d.tried = c.tried /\ d.asked = c.asked
  BY <1>1 DEF Call
<1> HIDE DEF d
<1>3. Before(d.tier) \subseteq d.tried /\ d.asked \subseteq UpTo(d.tier)
  BY <1>2 DEF CallInv
<1>4. CallInv(d)
  BY <1>2, <1>3 DEF CallInv, CallTypes
<1> QED
  BY <1>4 DEF d

LEMMA PoolStep ==
  ASSUME PoolAssumption, PoolInv, NEW r \in Requests,
         \/ Begin(r) \/ Looked(r) \/ NextTier(r) \/ CancelCall(r)
         \/ \E e \in Endpoints : \/ LookAt(r, e) \/ Choose(r, e) \/ Answer(r, e)
                                 \/ Decline(r, e) \/ FailOver(r, e)
  PROVE  PoolInv'
<1> DEFINE c == call[r]
<1>1. CallInv(c) /\ c \in Call /\ c.tier \in 1..(Len(Chain) + 1) /\ Len(Chain) \in Nat
  BY ChainTypes DEF PoolInv, CallInv, CallTypes, Call
<1>2. CASE Begin(r)
  <2>1. c.stage = "new" /\ call' = [call EXCEPT ![r] = AtTier(c, 1)]
    BY <1>2 DEF Begin
  <2>2. ~c.declined /\ c.asked = {} /\ 1 \in 1..(Len(Chain) + 1)
    BY <1>1, <2>1 DEF CallInv
  <2>3. CallInv(AtTier(c, 1))
    BY <1>1, <2>2, AtTierInv, FirstTier
  <2> QED
    BY <2>1, <2>3, OneCall
<1>3. CASE NextTier(r)
  <2>1. c.stage = "choosing" /\ c.candidates = {} /\ call' = [call EXCEPT ![r] = AtTier(c, c.tier + 1)]
    BY <1>3 DEF NextTier
  <2>2. c.tier \in 1..Len(Chain) /\ ~c.declined /\ Here(c) \subseteq c.tried
        /\ Before(c.tier) \subseteq c.tried /\ c.asked \subseteq UpTo(c.tier)
    BY <1>1, <2>1 DEF CallInv, CallTypes
  <2>3. Before(c.tier + 1) \subseteq c.tried /\ c.asked \subseteq UpTo(c.tier + 1)
    BY <2>2, OneTierFurther DEF Here
  <2>4. c.tier + 1 \in 1..(Len(Chain) + 1)
    BY <1>1, <2>2
  <2>5. CallInv(AtTier(c, c.tier + 1))
    BY <1>1, <2>2, <2>3, <2>4, AtTierInv
  <2> QED
    BY <2>1, <2>5, OneCall
<1>4. CASE Looked(r)
  <2> DEFINE d == [c EXCEPT !.stage = "choosing"]
  <2>1. c.stage = "looking" /\ c.look = {} /\ call' = [call EXCEPT ![r] = d]
    BY <1>4 DEF Looked
  <2>2. /\ d \in Call /\ d.stage = "choosing" /\ d.tier = c.tier /\ d.candidates = c.candidates
        /\ d.tried = c.tried /\ d.asked = c.asked /\ d.declined = c.declined
    BY <1>1 DEF Call
  <2> HIDE DEF d
  <2>3. CallInv(d)
    BY <1>1, <2>1, <2>2 DEF CallInv, CallTypes, Here
  <2> QED
    BY <2>1, <2>3, OneCall
<1>5. ASSUME NEW e \in Endpoints, LookAt(r, e) PROVE PoolInv'
  <2>1. PICK usable \in BOOLEAN :
          /\ c.stage = "looking" /\ e \in c.look
          /\ call' = [call EXCEPT ![r].look = @ \ {e},
                                  ![r].candidates = IF usable THEN @ \cup {e} ELSE @,
                                  ![r].tried = IF usable THEN @ ELSE @ \cup {e}]
    BY <1>5 DEF LookAt, Rests
  <2> DEFINE d == [c EXCEPT !.look = @ \ {e}, !.candidates = IF usable THEN @ \cup {e} ELSE @,
                            !.tried = IF usable THEN @ ELSE @ \cup {e}]
  <2>2. call' = [call EXCEPT ![r] = d]
    BY <1>1, <2>1 DEF PoolInv, Call
  <2>3. /\ d \in Call /\ d.stage = "looking" /\ d.tier = c.tier /\ d.asked = c.asked
        /\ d.declined = c.declined /\ d.look = c.look \ {e}
        /\ d.candidates = IF usable THEN c.candidates \cup {e} ELSE c.candidates
        /\ d.tried = IF usable THEN c.tried ELSE c.tried \cup {e}
    BY <1>1, <2>1 DEF Call
  <2> HIDE DEF d
  <2>4. CallInv(d)
    BY <1>1, <2>1, <2>3 DEF CallInv, CallTypes, Here
  <2> QED
    BY <2>2, <2>4, OneCall
<1>6. ASSUME NEW e \in Endpoints, Choose(r, e) PROVE PoolInv'
  <2>1. /\ c.stage = "choosing" /\ e \in c.candidates
        /\ call' = [call EXCEPT ![r].stage = "asking", ![r].at = e, ![r].candidates = @ \ {e},
                                ![r].tried = @ \cup {e}, ![r].asked = @ \cup {e}]
    BY <1>6 DEF Choose
  <2> DEFINE d == [c EXCEPT !.stage = "asking", !.at = e, !.candidates = @ \ {e},
                            !.tried = @ \cup {e}, !.asked = @ \cup {e}]
  <2>2. call' = [call EXCEPT ![r] = d]
    BY <1>1, <2>1 DEF PoolInv, Call
  <2>3. /\ d \in Call /\ d.stage = "asking" /\ d.tier = c.tier /\ d.asked = c.asked \cup {e}
        /\ d.declined = c.declined /\ d.candidates = c.candidates \ {e} /\ d.tried = c.tried \cup {e}
    BY <1>1, <2>1 DEF Call
  <2>4. c.tier \in 1..Len(Chain) /\ e \in Here(c) /\ e \in UpTo(c.tier)
    BY <1>1, <2>1, OneTierFurther DEF CallInv, CallTypes, Here
  <2> HIDE DEF d
  <2>5. CallInv(d)
    BY <1>1, <2>1, <2>3, <2>4 DEF CallInv, CallTypes, Here
  <2> QED
    BY <2>2, <2>5, OneCall
<1>7. ASSUME NEW e \in Endpoints, FailOver(r, e) PROVE PoolInv'
  <2> DEFINE d == [c EXCEPT !.stage = "choosing"]
  <2>1. c.stage = "asking" /\ call' = [call EXCEPT ![r] = d]
    BY <1>7 DEF FailOver, Asking
  <2>2. /\ d \in Call /\ d.stage = "choosing" /\ d.tier = c.tier /\ d.candidates = c.candidates
        /\ d.tried = c.tried /\ d.asked = c.asked /\ d.declined = c.declined
    BY <1>1 DEF Call
  <2> HIDE DEF d
  <2>3. CallInv(d)
    BY <1>1, <2>1, <2>2 DEF CallInv, CallTypes, Here
  <2> QED
    BY <2>1, <2>3, OneCall
<1>8. ASSUME c.stage # "done",
             NEW s \in {"answer", "cancelled", "declined"}, NEW b \in BOOLEAN, b => s = "declined",
             call' = [call EXCEPT ![r] = [c EXCEPT !.stage = "done", !.result = s, !.declined = b]]
      PROVE  PoolInv'
  BY <1>1, <1>8, EndedCall, OneCall DEF CallInv
<1>9. ASSUME c.stage # "done", NEW s \in {"answer", "cancelled"}, Ends(r, s) PROVE PoolInv'
  <2>1. c.declined = FALSE
    BY <1>1, <1>9 DEF CallInv, Call
  <2>2. [c EXCEPT !.stage = "done", !.result = s] = [c EXCEPT !.stage = "done", !.result = s, !.declined = FALSE]
    BY <1>1, <2>1 DEF Call
  <2>3. call' = [call EXCEPT ![r] = [c EXCEPT !.stage = "done", !.result = s]]
    BY <1>9 DEF Ends, PoolInv
  <2> QED
    BY <1>8, <1>9, <2>2, <2>3
<1>10. CASE CancelCall(r)
  BY <1>9, <1>10 DEF CancelCall
<1>11. ASSUME NEW e \in Endpoints, Answer(r, e) PROVE PoolInv'
  BY <1>9, <1>11 DEF Answer, Asking
<1>12. ASSUME NEW e \in Endpoints, Decline(r, e) PROVE PoolInv'
  <2>1. c.stage = "asking"
        /\ call' = [call EXCEPT ![r] = [c EXCEPT !.stage = "done", !.result = "declined", !.declined = TRUE]]
    BY <1>12 DEF Decline, Asking, PoolInv
  <2> QED
    BY <1>8, <2>1
<1> QED
  BY <1>2, <1>3, <1>4, <1>5, <1>6, <1>7, <1>10, <1>11, <1>12

LEMMA PoolNextInv == ASSUME PoolAssumption, PoolInv, [PoolNext]_poolVars PROVE PoolInv'
<1>1. CASE Tick \/ UNCHANGED poolVars
  BY <1>1 DEF Tick, poolVars, PoolInv
<1> QED
  BY <1>1, PoolStep DEF PoolNext

-----------------------------------------------------------------------------
\* A request reaches a tier only behind the whole of the tiers before it, and nobody sees
\* it after a machine declined it (pool.go Complete).
THEOREM TheChainIsThePolicy == ASSUME PoolAssumption PROVE PoolSpec => []AsksInOrder
<1>1. PoolInit => PoolInv
  BY PoolInitInv
<1>2. PoolInv /\ [PoolNext]_poolVars => PoolInv'
  BY PoolNextInv
<1>3. PoolInv => AsksInOrder
  BY DEF PoolInv, CallInv, AsksInOrder, Before, UpTo
<1> QED
  BY <1>1, <1>2, <1>3, PTL DEF PoolSpec

-----------------------------------------------------------------------------
\* Finitely many numbers have a greatest one.
LEMMA GreatestOfSome ==
  ASSUME NEW T, T \subseteq Nat, T # {}, IsFiniteSet(T)
  PROVE  Max(T) \in T /\ \A n \in T : n <= Max(T)
<1> DEFINE Above(m) == {n \in T : n > m}
           Aboves == {Above(m) : m \in T}
<1>1. PICK high \in Aboves : \A higher \in Aboves : ~(<<higher, high>> \in StrictSubsetOrdering(T))
  <2>1. IsWellFoundedOn(StrictSubsetOrdering(T), SUBSET T)
    BY FS_StrictSubsetOrderingWellFounded, FS_FiniteSubsetsOfFinite
  <2>2. Aboves \subseteq SUBSET T /\ Aboves # {}
    OBVIOUS
  <2> HIDE DEF Aboves
  <2> QED
    BY <2>1, <2>2, WFMin
<1>2. PICK m \in T : high = Above(m)
  OBVIOUS
<1>3. ASSUME NEW n \in T, n > m PROVE FALSE
  <2>1. n \in Nat /\ m \in Nat /\ \A k \in T : k \in Nat
    OBVIOUS
  <2>2. \A k \in Above(n) : k \in T /\ k > m
    BY ONLY <1>3, <2>1
  <2>3. n \in Above(m) /\ n \notin Above(n)
    BY ONLY <1>3, <2>1
  <2>4. <<Above(n), Above(m)>> \in StrictSubsetOrdering(T)
    BY ONLY <2>2, <2>3 DEF StrictSubsetOrdering
  <2> QED
    BY <1>1, <1>2, <2>4
<1>4. \A y \in T : m >= y
  BY <1>3
<1>5. Max(T) \in T /\ \A y \in T : Max(T) >= y
  BY ONLY <1>2, <1>4 DEF Max
<1> QED
  BY <1>5

\* The rest of an endpoint is a span of time, and no longer than the ceiling.
LEMMA RestIsBounded ==
  ASSUME PoolAssumption, NEW n \in Nat \ {0}
  PROVE  Rest(n) \in 0..CooldownCeiling
<1> DEFINE k == Least(n, 5) - 1
<1>1. k \in {0, 1, 2, 3, 4}
  BY DEF Least
<1>2. 2^0 = 1 /\ 2^1 = 2 /\ 2^2 = 4 /\ 2^3 = 8 /\ 2^4 = 16
  OBVIOUS
<1> HIDE DEF k
<1>3. 2^k \in {1, 2, 4, 8, 16}
  <2>1. k = 0 => 2^k = 1
    BY <1>2
  <2>2. k = 1 => 2^k = 2
    BY <1>2
  <2>3. k = 2 => 2^k = 4
    BY <1>2
  <2>4. k = 3 => 2^k = 8
    BY <1>2
  <2>5. k = 4 => 2^k = 16
    BY <1>2
  <2> QED
    BY <1>1, <2>1, <2>2, <2>3, <2>4, <2>5
<1>4. CooldownBase * 2^k \in Nat
  BY <1>3 DEF PoolAssumption
<1>5. Rest(n) = Least(CooldownBase * 2^k, CooldownCeiling)
  BY DEF Rest, k
<1> QED
  BY ONLY <1>4, <1>5, PoolAssumption DEF PoolAssumption, Least

\* The endpoint that is taken is used later than any was.
LEMMA ChosenIsLast ==
  ASSUME PoolAssumption, PoolTypeOK, NEW r \in Requests, NEW e \in Endpoints, Choose(r, e)
  PROVE  /\ lastUsed' \in [Endpoints -> Nat]
         /\ \A f, g \in Endpoints : lastUsed'[f] = lastUsed'[g] /\ lastUsed'[f] > 0 => f = g
<1> DEFINE T == {lastUsed[f] : f \in Endpoints}
<1>1. lastUsed \in [Endpoints -> Nat]
      /\ \A f, g \in Endpoints : lastUsed[f] = lastUsed[g] /\ lastUsed[f] > 0 => f = g
  BY DEF PoolTypeOK
<1>2. T \subseteq Nat /\ lastUsed[e] \in T /\ IsFiniteSet(T)
  <2>1. T \subseteq Nat /\ lastUsed[e] \in T
    BY <1>1
  <2>2. lastUsed \in [Endpoints -> T]
    BY <1>1
  <2> HIDE DEF T
  <2>3. \A n \in T : \E f \in Endpoints : lastUsed[f] = n
    BY DEF T
  <2>4. lastUsed \in Surjection(Endpoints, T)
    BY <2>2, <2>3 DEF Surjection
  <2>5. IsFiniteSet(T)
    BY <2>4, FS_Surjection DEF PoolAssumption
  <2> QED
    BY <2>1, <2>5
<1> DEFINE last == Max(T)
<1>3. last \in Nat /\ \A f \in Endpoints : lastUsed[f] <= last
  <2>1. last \in T /\ \A n \in T : n <= last
    BY <1>2, GreatestOfSome
  <2> QED
    BY <1>2, <2>1
<1>4. lastUsed' = [lastUsed EXCEPT ![e] = 1 + last]
  BY DEF Choose
<1> HIDE DEF last
<1>5. \A f \in Endpoints : lastUsed'[f] = IF f = e THEN 1 + last ELSE lastUsed[f]
  BY ONLY <1>1, <1>4
<1>6. lastUsed' \in [Endpoints -> Nat]
  BY ONLY <1>1, <1>3, <1>4
<1>7. ASSUME NEW f \in Endpoints, NEW g \in Endpoints, lastUsed'[f] = lastUsed'[g], lastUsed'[f] > 0
      PROVE  f = g
  <2>1. lastUsed[f] \in Nat /\ lastUsed[f] <= last /\ lastUsed[g] \in Nat /\ lastUsed[g] <= last
    BY <1>1, <1>3
  <2> QED
    BY ONLY <1>1, <1>3, <1>5, <1>7, <2>1
<1> QED
  BY <1>6, <1>7

\* Nobody has been used, and nobody rests.
LEMMA PoolTypesInit == ASSUME PoolAssumption, PoolInit PROVE PoolTypeOK
<1>1. call \in [Requests -> Call]
  BY PoolInitInv DEF PoolInv
<1>2. /\ probes \in [Endpoints -> [ok : BOOLEAN, until : Nat]]
      /\ cooldown \in [Endpoints -> [failures : Nat, until : 0..(LastTick + CooldownCeiling)]]
  BY DEF PoolInit, PoolAssumption
<1>3. lastUsed = [e \in Endpoints |-> 0] /\ tick \in 0..LastTick
  BY DEF PoolInit, PoolAssumption
<1> QED
  BY ONLY <1>1, <1>2, <1>3 DEF PoolTypeOK

\* The pool's types, and that no two endpoints were used at once, so that the least recently
\* used one is one (pool.go takeLRU).
LEMMA PoolTypesStep ==
  ASSUME PoolAssumption, PoolInv, PoolTypeOK, [PoolNext]_poolVars
  PROVE  PoolTypeOK'
<1>0. call' \in [Requests -> Call]
  BY PoolNextInv DEF PoolInv
<1>1. CASE UNCHANGED <<probes, cooldown, lastUsed, tick>>
  BY <1>0, <1>1 DEF PoolTypeOK
<1>2. CASE Tick
  BY <1>0, <1>2 DEF Tick, PoolTypeOK, PoolAssumption
<1>3. ASSUME NEW r \in Requests, NEW e \in Endpoints, LookAt(r, e) PROVE PoolTypeOK'
  <2>1. /\ UNCHANGED <<cooldown, lastUsed, tick>>
        /\ \/ probes' = probes
           \/ \E up \in BOOLEAN : probes' = [probes EXCEPT ![e] = [ok |-> up, until |-> tick + ProbeTTL]]
    BY <1>3 DEF LookAt
  <2>2. tick + ProbeTTL \in Nat
    BY DEF PoolTypeOK, PoolAssumption
  <2>3. probes' \in [Endpoints -> [ok : BOOLEAN, until : Nat]]
    BY <2>1, <2>2 DEF PoolTypeOK
  <2> QED
    BY <1>0, <2>1, <2>3 DEF PoolTypeOK
<1>4. ASSUME NEW r \in Requests, NEW e \in Endpoints, Choose(r, e) PROVE PoolTypeOK'
  <2>1. /\ lastUsed' \in [Endpoints -> Nat]
        /\ \A f, g \in Endpoints : lastUsed'[f] = lastUsed'[g] /\ lastUsed'[f] > 0 => f = g
    BY <1>4, ChosenIsLast
  <2>2. UNCHANGED <<probes, cooldown, tick>>
    BY ONLY <1>4 DEF Choose
  <2> QED
    BY <1>0, <2>1, <2>2 DEF PoolTypeOK
<1>5. ASSUME NEW r \in Requests, NEW e \in Endpoints, Answer(r, e) PROVE PoolTypeOK'
  BY <1>0, <1>5 DEF Answer, PoolTypeOK, PoolAssumption
<1>6. ASSUME NEW r \in Requests, NEW e \in Endpoints, FailOver(r, e) PROVE PoolTypeOK'
  <2> DEFINE n == cooldown[e].failures + 1
             rested == [failures |-> n, until |-> tick + Rest(n)]
  <2>1. n \in Nat \ {0} /\ tick \in 0..LastTick
    BY DEF PoolTypeOK
  <2>2. Rest(n) \in 0..CooldownCeiling
    BY <2>1, RestIsBounded
  <2>3. cooldown' = [cooldown EXCEPT ![e] = rested] /\ UNCHANGED <<probes, lastUsed, tick>>
    BY <1>6 DEF FailOver
  <2> HIDE DEF n
  <2>4. rested \in [failures : Nat, until : 0..(LastTick + CooldownCeiling)]
    BY <2>1, <2>2 DEF PoolAssumption
  <2> HIDE DEF rested
  <2> QED
    BY <1>0, <2>3, <2>4 DEF PoolTypeOK
<1>7. ASSUME NEW r \in Requests, Begin(r) \/ Looked(r) \/ NextTier(r) \/ CancelCall(r) PROVE PoolTypeOK'
  BY <1>1, <1>7 DEF Begin, Looked, NextTier, CancelCall
<1>8. ASSUME NEW r \in Requests, NEW e \in Endpoints, Decline(r, e) PROVE PoolTypeOK'
  BY <1>1, <1>8 DEF Decline
<1>9. CASE UNCHANGED poolVars
  BY <1>1, <1>9 DEF poolVars
<1> QED
  BY ONLY [PoolNext]_poolVars, <1>2, <1>3, <1>4, <1>5, <1>6, <1>7, <1>8, <1>9 DEF PoolNext

-----------------------------------------------------------------------------
S_wrapped == x1
S_bound == x2
S_node == x3
S_job == x4
S_unlocked == x5
S_time == x6
USE DEF S_wrapped, S_bound, S_node, S_job, S_unlocked, S_time

\* Finitely many numbers have a least one.
LEMMA LeastOfSome ==
  ASSUME NEW T, T \subseteq Nat, T # {}, IsFiniteSet(T)
  PROVE  \E m \in T : \A n \in T : m <= n
<1> DEFINE Below(m) == {n \in T : n < m}
           Belows == {Below(m) : m \in T}
<1>1. PICK low \in Belows : \A lower \in Belows : ~(<<lower, low>> \in StrictSubsetOrdering(T))
  <2>1. IsWellFoundedOn(StrictSubsetOrdering(T), SUBSET T)
    BY FS_StrictSubsetOrderingWellFounded, FS_FiniteSubsetsOfFinite
  <2>2. Belows \subseteq SUBSET T /\ Belows # {}
    OBVIOUS
  <2> HIDE DEF Belows
  <2> QED
    BY <2>1, <2>2, WFMin
<1>2. PICK m \in T : low = Below(m)
  OBVIOUS
<1>3. ASSUME NEW n \in T, n < m PROVE FALSE
  <2>1. n \in Nat /\ m \in Nat /\ \A k \in T : k \in Nat
    OBVIOUS
  <2>3. \A k \in Below(n) : k \in T /\ k < m
    BY ONLY <1>3, <2>1
  <2>4. n \in Below(m) /\ n \notin Below(n)
    BY ONLY <1>3, <2>1
  <2>2. <<Below(n), Below(m)>> \in StrictSubsetOrdering(T)
    BY ONLY <2>3, <2>4 DEF StrictSubsetOrdering
  <2> QED
    BY <1>1, <1>2, <2>2
<1> QED
  BY <1>3

\* Members who are one have a cardinality of at most one.
LEMMA AtMostOne ==
  ASSUME NEW T, \A a, b \in T : a = b
  PROVE  Cardinality(T) <= 1
<1>1. CASE T = {}
  BY <1>1, FS_EmptySet
<1>2. ASSUME NEW a \in T PROVE Cardinality(T) <= 1
  <2>1. T = {a}
    OBVIOUS
  <2> QED
    BY <2>1, FS_Singleton
<1> QED
  BY <1>1, <1>2

\* No key is written and nobody works.
LEMMA SessionsInit == ASSUME S!SessionsAssumption, S!Init PROVE S!SessionsInv
<1>1. {p \in People : S_job[p] \in S!Working} = {}
  BY DEF S!Init, S!Working
<1>2. S!TypeOK
  BY <1>1, FS_EmptySet DEF S!Init, S!TypeOK, S!SessionsAssumption, S!NoKey, S!Locked
<1> QED
  BY <1>2 DEF S!Init, S!SessionsInv, S!OneNodePassphrase, S!WorkAgrees, S!Provisioned, S!Working

\* Verify: a passphrase that opens the first key opens every key, because they are one.
LEMMA FirstSpeaksForAll ==
  ASSUME S!SessionsAssumption, S!OneNodePassphrase, S!Opens
  PROVE  S!Agrees
<1>1. CASE S!Provisioned = {}
  BY <1>1 DEF S!Agrees
<1>2. CASE S!Provisioned # {}
  <2>1. S!Provisioned \subseteq Nat
    BY DEF S!Provisioned, S!SessionsAssumption
  <2>2. S!First \in S!Provisioned
    <3>1. IsFiniteSet(S!Provisioned)
      <4>1. IsFiniteSet(People)
        BY DEF S!SessionsAssumption, S!IsFiniteSet, IsFiniteSet
      <4> QED
        BY <4>1, FS_Subset DEF S!Provisioned
    <3> QED
      BY <1>2, <2>1, <3>1, LeastOfSome DEF S!First
  <2> QED
    BY <1>2, <2>2 DEF S!Opens, S!OneNodePassphrase, S!Agrees
<1> QED
  BY <1>1, <1>2

\* The keys, the node and the jobs, but for how many work.
LEMMA SessionsTypeStep ==
  ASSUME S!SessionsAssumption, S!SessionsInv, S!Next
  PROVE  /\ S_wrapped' \in [People -> Words \cup {S!NoKey}] /\ S_bound' \subseteq People
         /\ S_node' \in [state : {"down", "starting", "serving", "closed"}, word : Words]
         /\ S_job' \in [People -> {"idle", "done"} \cup S!Working]
         /\ S_unlocked' \in [People -> S!Locked..LastTime] /\ S_time' \in 0..LastTime
<1> USE DEF S!SessionsInv, S!TypeOK, S!SessionsAssumption, S!Locked, S!Goes, S!Fails
<1>1. CASE S!Serve \/ S!Sweep \/ S!Exit \/ S!Tick
  BY <1>1 DEF S!Serve, S!Sweep, S!Exit, S!Tick
<1>2. ASSUME NEW w \in Words, S!Boot(w) PROVE UNCHANGED <<S_wrapped, S_bound, S_unlocked, S_time>>
    /\ S_node' = [state |-> "starting", word |-> w] /\ S_job' = [p \in People |-> "idle"]
  BY <1>2 DEF S!Boot
<1>3. ASSUME NEW p \in People, S!NextMember(p) \/ S!Enrol(p) \/ S!Revoke(p)
      PROVE  /\ S_wrapped' = S_wrapped /\ S_bound' \subseteq People /\ S_node' = S_node
             /\ S_job' \in [People -> {"idle", "done"} \cup S!Working]
             /\ S_unlocked' = S_unlocked /\ S_time' = S_time
  BY <1>3 DEF S!NextMember, S!Enrol, S!Revoke, S!Working
<1>5. ASSUME NEW p \in People, S!Touch(p) \/ S!Install(p)
      PROVE  /\ S_wrapped' = S_wrapped /\ S_bound' = S_bound /\ S_node' = S_node
             /\ S_job' \in [People -> {"idle", "done"} \cup S!Working]
             /\ S_unlocked' \in [People -> S!Locked..LastTime] /\ S_time' = S_time
  <2>1. S_time \in S!Locked..LastTime /\ S!Locked \in S!Locked..LastTime
    OBVIOUS
  <2> QED
    BY <1>5, <2>1 DEF S!Touch, S!Install, S!Working
<1>4. ASSUME NEW p \in People, S!Load(p) \/ S!Verify(p) \/ S!Save(p) \/ S!Admit(p) \/ S!Derive(p)
      PROVE  /\ S_wrapped' \in [People -> Words \cup {S!NoKey}] /\ S_bound' = S_bound /\ S_time' = S_time
             /\ S_job' \in [People -> {"idle", "done"} \cup S!Working]
             /\ S_unlocked' \in [People -> S!Locked..LastTime]
             /\ S_node' \in {S_node, [S_node EXCEPT !.state = "closed"]}
  BY <1>4 DEF S!Load, S!Verify, S!Save, S!Admit, S!Derive, S!Working
<1> QED
  BY <1>1, <1>2, <1>3, <1>4, <1>5 DEF S!Next

\* Whatever is written, dropped or opened, the file and the work agree as before.
LEMMA SessionsAgree ==
  ASSUME S!SessionsAssumption, S!SessionsInv, S!Next
  PROVE  (S!OneNodePassphrase /\ S!WorkAgrees)'
<1> USE DEF S!SessionsInv, S!TypeOK, S!OneNodePassphrase, S!WorkAgrees, S!Agrees, S!Provisioned,
  S!Goes, S!Fails, S!Working
<1>1. CASE S!Serve \/ S!Sweep \/ S!Exit \/ S!Tick
  BY <1>1 DEF S!Serve, S!Sweep, S!Exit, S!Tick
<1>2. ASSUME NEW w \in Words, S!Boot(w) PROVE (S!OneNodePassphrase /\ S!WorkAgrees)'
  BY <1>2 DEF S!Boot
<1>3. ASSUME NEW p \in People, S!NextMember(p) PROVE (S!OneNodePassphrase /\ S!WorkAgrees)'
  BY <1>3 DEF S!NextMember
<1>4. ASSUME NEW p \in People, S!Enrol(p) PROVE (S!OneNodePassphrase /\ S!WorkAgrees)'
  BY <1>4 DEF S!Enrol
<1>5. ASSUME NEW p \in People, S!Touch(p) \/ S!Revoke(p) PROVE (S!OneNodePassphrase /\ S!WorkAgrees)'
  BY <1>5 DEF S!Touch, S!Revoke
<1>6. ASSUME NEW p \in People, S!Load(p) \/ S!Admit(p) PROVE (S!OneNodePassphrase /\ S!WorkAgrees)'
  BY <1>6 DEF S!Load, S!Admit
<1>7. ASSUME NEW p \in People, S!Verify(p) PROVE (S!OneNodePassphrase /\ S!WorkAgrees)'
  <2>1. CASE S!Opens
    BY <1>7, <2>1, FirstSpeaksForAll DEF S!Verify
  <2>2. CASE ~S!Opens
    BY <1>7, <2>2 DEF S!Verify
  <2> QED
    BY <2>1, <2>2
<1>8. ASSUME NEW p \in People, S!Save(p) PROVE (S!OneNodePassphrase /\ S!WorkAgrees)'
  BY <1>8 DEF S!Save
<1>9. ASSUME NEW p \in People, S!Derive(p) PROVE (S!OneNodePassphrase /\ S!WorkAgrees)'
  BY <1>9 DEF S!Derive
<1>10. ASSUME NEW p \in People, S!Install(p) PROVE (S!OneNodePassphrase /\ S!WorkAgrees)'
  BY <1>10 DEF S!Install
<1> QED
  BY ONLY S!Next, <1>1, <1>2, <1>3, <1>4, <1>5, <1>6, <1>7, <1>8, <1>9, <1>10 DEF S!Next

\* Whoever wraps a key has opened the others with the same passphrase.
LEMMA SessionsStep ==
  ASSUME S!SessionsAssumption, S!SessionsInv, [S!Next]_(S!sessionsVars)
  PROVE  S!SessionsInv'
<1>0. CASE UNCHANGED S!sessionsVars
  BY <1>0 DEF S!sessionsVars, S!SessionsInv, S!TypeOK, S!OneNodePassphrase, S!WorkAgrees, S!Agrees,
     S!Provisioned
<1> SUFFICES ASSUME S!Next PROVE S!SessionsInv'
  BY <1>0
<1>1. (S!OneNodePassphrase /\ S!WorkAgrees)'
  BY SessionsAgree
<1>2. S!Cardinality({p \in People : S_job'[p] \in S!Working}) <= 1 \/ S_node'.state # "starting"
  BY <1>1, AtMostOne DEF S!WorkAgrees, S!Cardinality, Cardinality, S!IsFiniteSet, IsFiniteSet
<1>3. S_node'.state \in {"down", "closed"} => \A p \in People : S_unlocked'[p] = S!Locked
  BY <1>1 DEF S!WorkAgrees
<1> QED
  BY <1>1, <1>2, <1>3, SessionsTypeStep DEF S!SessionsInv, S!TypeOK

HIDE DEF S_wrapped, S_bound, S_node, S_job, S_unlocked, S_time

-----------------------------------------------------------------------------

M_accepts == x1
M_taken == x2
M_routing == x3
M_view == x6
M_dropped == x7
M_given == x8
USE DEF M_accepts, M_taken, M_routing, M_view, M_dropped, M_given

\* A line is what was given, held and queued, in that order: one that is taken from the queue to be held keeps its place.
LEMMA LinePops ==
  ASSUME NEW N, NEW g \in Seq(N), NEW q \in Seq(N), q # <<>>
  PROVE  g \o <<Head(q)>> \o Tail(q) = g \o <<>> \o q
  OBVIOUS

\* So does one that is given.
LEMMA LineGives ==
  ASSUME NEW N, NEW g \in Seq(N), NEW q \in Seq(N), NEW m \in N
  PROVE  Append(g, m) \o <<>> \o q = g \o <<m>> \o q
  OBVIOUS

\* A sequence that lost one of its elements and took m in at its end.
Slid(old, new, m) ==
  /\ Len(new) = Len(old)
  /\ \E k \in 1..Len(old) : \A i \in 1..Len(old) :
       new[i] = IF i < k THEN old[i] ELSE IF i < Len(old) THEN old[i + 1] ELSE m

Trades(old, new, m) == \E x \in M!ToSet(old) : M!ToSet(new) = (M!ToSet(old) \ {x}) \cup {m}

\* A queue that drops its oldest for a new one slides the line.
LEMMA LineDrops ==
  ASSUME NEW N, NEW g \in Seq(N), NEW h \in Seq(N), NEW q \in Seq(N), NEW m \in N, q # <<>>
  PROVE  Slid(g \o h \o q, g \o h \o Append(Tail(q), m), m)
<1> DEFINE old == g \o h \o q
           new == g \o h \o Append(Tail(q), m)
<1> DEFINE k == Len(g) + Len(h) + 1
<1>1. Len(old) = Len(g) + Len(h) + Len(q) /\ Len(q) > 0 /\ Len(q) \in Nat /\ Len(g) \in Nat /\ Len(h) \in Nat
  OBVIOUS
<1>2. Len(new) = Len(old)
  OBVIOUS
<1> DEFINE tail == Append(Tail(q), m)
<1>3. tail \in Seq(N) /\ Len(tail) = Len(q) /\ \A j \in 1..Len(q) : tail[j] = IF j < Len(q) THEN q[j + 1] ELSE m
  BY <1>1
<1>4. \A i \in 1..Len(old) : old[i] = IF i <= Len(g) THEN g[i] ELSE IF i < k THEN h[i - Len(g)] ELSE q[i - (k - 1)]
  BY <1>1
<1> HIDE DEF tail
<1>5. \A i \in 1..Len(old) : new[i] = IF i <= Len(g) THEN g[i] ELSE IF i < k THEN h[i - Len(g)] ELSE tail[i - (k - 1)]
  <2>1. new = g \o h \o tail
    BY DEF tail
  <2> HIDE DEF new
  <2>2. \A i \in 1..Len(old) : new[i] = IF i <= Len(g) THEN g[i] ELSE IF i < k THEN h[i - Len(g)] ELSE tail[i - (k - 1)]
    BY ONLY <1>1, <1>3, <2>1, g \in Seq(N), h \in Seq(N)
  <2> QED
    BY <2>2
<1>6. ASSUME NEW i \in 1..Len(old)
      PROVE  new[i] = IF i < k THEN old[i] ELSE IF i < Len(old) THEN old[i + 1] ELSE m
  <2>1. CASE i < k
    BY ONLY <1>1, <1>4, <1>5, <2>1
  <2>2. CASE i >= k
    <3>1. i - (k - 1) \in 1..Len(q) /\ (i < Len(old) => i + 1 \in 1..Len(old) /\ (i + 1) - (k - 1) = (i - (k - 1)) + 1)
          /\ (i - (k - 1) < Len(q) <=> i < Len(old)) /\ ~(i <= Len(g)) /\ ~(i + 1 <= Len(g)) /\ ~(i + 1 < k)
      BY ONLY <1>1, <2>2
    <3>2. tail[i - (k - 1)] = IF i < Len(old) THEN q[(i - (k - 1)) + 1] ELSE m
      BY ONLY <1>3, <3>1
    <3> QED
      BY ONLY <1>4, <1>5, <2>2, <3>1, <3>2, i \in 1..Len(old)
  <2>3. i < k \/ i >= k
    BY ONLY <1>1, <1>6
  <2> QED
    BY ONLY <2>1, <2>2, <2>3
<1>7. k \in 1..Len(old)
  BY ONLY <1>1
<1> HIDE DEF k, old, new
<1>8. Slid(old, new, m)
  BY ONLY <1>2, <1>6, <1>7 DEF Slid
<1> QED
  BY <1>8 DEF old, new

\* What a line that grows by its end holds; and one that loses an element and grows.
M_InOrder(s) == \A i, j \in DOMAIN s : i < j => s[i] < s[j]

\* A line in order that takes a later message is in order.
LEMMA Grows ==
  ASSUME NEW s \in Seq(Nat), M_InOrder(s), NEW m \in Nat, \A i \in DOMAIN s : s[i] < m
  PROVE  /\ M_InOrder(Append(s, m)) /\ Append(s, m) \in Seq(Nat)
         /\ M!ToSet(Append(s, m)) = M!ToSet(s) \cup {m}
<1> DEFINE t == Append(s, m)
           n == Len(s)
<1>1. t \in Seq(Nat) /\ DOMAIN t = 1..(n + 1) /\ DOMAIN s = 1..n /\ n \in Nat
      /\ t[n + 1] = m /\ \A i \in 1..n : t[i] = s[i] /\ s[i] \in Nat
  OBVIOUS
<1>2. \A i \in 1..n : s[i] < m /\ \A j \in 1..n : i < j => s[i] < s[j]
  BY <1>1 DEF M_InOrder
<1> HIDE DEF t, n
<1>3. ASSUME NEW i \in 1..(n + 1), NEW j \in 1..(n + 1), i < j PROVE t[i] < t[j]
  <2>1. i \in 1..n /\ (j \in 1..n \/ j = n + 1)
    BY ONLY <1>1, <1>3
  <2> QED
    BY ONLY <1>1, <1>2, <1>3, <2>1
<1>4. M!ToSet(t) = M!ToSet(s) \cup {m}
  <2>1. M!ToSet(t) = {t[i] : i \in 1..(n + 1)} /\ M!ToSet(s) = {s[i] : i \in 1..n}
    BY ONLY <1>1 DEF M!ToSet
  <2>2. \A i \in 1..(n + 1) : i \in 1..n \/ i = n + 1
    BY ONLY <1>1
  <2>3. n + 1 \in 1..(n + 1) /\ \A i \in 1..n : i \in 1..(n + 1)
    BY ONLY <1>1
  <2> QED
    BY ONLY <1>1, <2>1, <2>2, <2>3
<1>5. M_InOrder(t)
  BY ONLY <1>1, <1>3 DEF M_InOrder
<1> QED
  BY <1>1, <1>4, <1>5 DEF t

\* A line in order that loses a message and takes a later one is in order.
LEMMA Slides ==
  ASSUME NEW s \in Seq(Nat), M_InOrder(s), NEW m \in Nat, \A i \in DOMAIN s : s[i] < m,
         NEW t \in Seq(Nat), Slid(s, t, m)
  PROVE  M_InOrder(t) /\ Trades(s, t, m)
<1>0. PICK k \in 1..Len(s) :
        \A i \in 1..Len(s) : t[i] = IF i < k THEN s[i] ELSE IF i < Len(s) THEN s[i + 1] ELSE m
  BY DEF Slid
<1> DEFINE n == Len(s)
<1>a. Len(t) = Len(s)
  BY DEF Slid
<1>1. DOMAIN t = 1..n /\ DOMAIN s = 1..n /\ n \in Nat /\ k \in 1..n /\ m \in Nat /\ \A i \in 1..n : s[i] \in Nat
  BY <1>a
<1>2. \A i \in 1..n : t[i] = IF i < k THEN s[i] ELSE IF i < n THEN s[i + 1] ELSE m
  BY <1>0
<1>3. \A i \in 1..n : s[i] < m /\ \A j \in 1..n : i < j => s[i] < s[j]
  BY <1>1 DEF M_InOrder
<1> HIDE DEF n
<1>4. ASSUME NEW i \in 1..n, NEW j \in 1..n, i < j PROVE t[i] < t[j]
  <2>1. i < n /\ i + 1 \in 1..n /\ (j < n => j + 1 \in 1..n)
    BY ONLY <1>1, <1>4
  <2>2. t[i] = s[i] \/ (t[i] = s[i + 1] /\ i >= k)
    BY ONLY <1>1, <1>2, <1>4, <2>1
  <2>3. CASE j < k
    BY ONLY <1>1, <1>2, <1>3, <1>4, <2>1, <2>3
  <2>4. CASE j >= k /\ j < n
    <3>1. t[j] = s[j + 1] /\ j + 1 \in 1..n /\ i < j + 1 /\ i + 1 < j + 1
      BY ONLY <1>1, <1>2, <1>4, <2>1, <2>4
    <3>2. s[i] < s[j + 1] /\ s[i + 1] < s[j + 1]
      BY ONLY <1>3, <2>1, <3>1
    <3> QED
      BY ONLY <2>2, <3>1, <3>2
  <2>5. CASE j = n
    BY ONLY <1>1, <1>2, <1>3, <1>4, <2>1, <2>2, <2>5
  <2> QED
    BY ONLY <1>1, <1>4, <2>3, <2>4, <2>5
<1>5. \A i \in 1..n : i # k => s[i] # s[k]
  BY ONLY <1>1, <1>3
<1>6. ASSUME NEW i \in 1..n PROVE t[i] = m \/ (\E j \in 1..n : j # k /\ t[i] = s[j])
  <2>1. CASE i < k
    BY ONLY <1>1, <1>2, <1>6, <2>1
  <2>2. CASE i >= k /\ i < n
    <3>1. i + 1 \in 1..n /\ i + 1 # k /\ t[i] = s[i + 1]
      BY ONLY <1>1, <1>2, <1>6, <2>2
    <3> QED
      BY ONLY <3>1
  <2>3. CASE i = n /\ i >= k
    BY ONLY <1>1, <1>2, <1>6, <2>3
  <2> QED
    BY ONLY <1>1, <1>6, <2>1, <2>2, <2>3
<1>7. ASSUME NEW j \in 1..n, j # k PROVE \E i \in 1..n : t[i] = s[j]
  <2>1. CASE j < k
    BY ONLY <1>1, <1>2, <1>7, <2>1
  <2>2. CASE j > k
    <3>1. j - 1 \in 1..n /\ ~(j - 1 < k) /\ j - 1 < n /\ (j - 1) + 1 = j
      BY ONLY <1>1, <1>7, <2>2
    <3>2. t[j - 1] = s[j]
      BY ONLY <1>2, <3>1
    <3> QED
      BY ONLY <3>1, <3>2
  <2> QED
    BY ONLY <1>1, <1>7, <2>1, <2>2
<1>8. n \in 1..n /\ t[n] = m
  BY ONLY <1>1, <1>2
<1>9. M!ToSet(t) = (M!ToSet(s) \ {s[k]}) \cup {m}
  <2>1. M!ToSet(t) = {t[i] : i \in 1..n} /\ M!ToSet(s) = {s[i] : i \in 1..n}
    BY ONLY <1>1 DEF M!ToSet
  <2>2. ASSUME NEW i \in 1..n PROVE t[i] \in (M!ToSet(s) \ {s[k]}) \cup {m}
    BY ONLY <1>5, <1>6, <2>1, <2>2
  <2>3. ASSUME NEW j \in 1..n, s[j] # s[k] PROVE s[j] \in M!ToSet(t)
    <3>1. PICK i \in 1..n : t[i] = s[j]
      BY ONLY <1>7, <2>3
    <3> QED
      BY ONLY <2>1, <3>1
  <2>4. m \in M!ToSet(t)
    BY ONLY <1>8, <2>1
  <2> QED
    BY ONLY <2>1, <2>2, <2>3, <2>4
<1>10. M_InOrder(t)
  BY ONLY <1>1, <1>4 DEF M_InOrder
<1>11. s[k] \in M!ToSet(s)
  BY ONLY <1>1 DEF M!ToSet
<1> QED
  BY <1>9, <1>10, <1>11 DEF Trades
\* The sequences of a view, and what the invariant says of its line.
LEMMA MuxLine ==
  ASSUME M!MuxAssumption, M!TypeOK, NEW v \in Views
  PROVE  /\ M_given[v] \in Seq(Nat) /\ M_view[v].queue \in Seq(Nat) /\ M!Held(v) \in Seq(Nat)
         /\ M!Line(v) \in Seq(Nat)
<1>1. M_given[v] \in Seq(1..LastMessage) /\ M_view[v].queue \in Seq(1..LastMessage) /\ M_view[v].held \in 0..LastMessage
  BY DEF M!TypeOK, M!View
<1>2. M_given[v] \in Seq(Nat) /\ M_view[v].queue \in Seq(Nat) /\ M_view[v].held \in Nat
  BY <1>1, SeqMonotonic DEF M!MuxAssumption
<1>3. M!Held(v) \in Seq(Nat)
  BY <1>2 DEF M!Held
<1> QED
  BY <1>2, <1>3 DEF M!Line

\* A queue that takes a message, or gives its oldest, stays within its backlog.
LEMMA QueueFits ==
  ASSUME M!MuxAssumption, NEW N, NEW q \in Seq(N), Len(q) <= Backlog
  PROVE  /\ \A m \in N : M!Pushed(q, m) \in Seq(N) /\ Len(M!Pushed(q, m)) <= Backlog
         /\ q # <<>> => Head(q) \in N /\ Tail(q) \in Seq(N) /\ Len(Tail(q)) <= Backlog
<1>1. Len(q) \in Nat /\ Backlog \in Nat /\ Backlog > 0
  BY DEF M!MuxAssumption
<1>2. q # <<>> => Head(q) \in N /\ Tail(q) \in Seq(N) /\ Len(Tail(q)) = Len(q) - 1
  OBVIOUS
<1>3. ASSUME NEW m \in N PROVE M!Pushed(q, m) \in Seq(N) /\ Len(M!Pushed(q, m)) <= Backlog
  <2>1. CASE Len(q) >= Backlog
    <3>1. q # <<>>
      BY <1>1, <2>1
    <3>2. Append(Tail(q), m) \in Seq(N) /\ Len(Append(Tail(q), m)) = Len(q)
      BY <1>1, <1>2, <3>1
    <3> QED
      BY <1>1, <2>1, <3>2 DEF M!Pushed
  <2>2. CASE Len(q) < Backlog
    BY <1>1, <2>2 DEF M!Pushed
  <2> QED
    BY <1>1, <2>1, <2>2
<1> QED
  BY <1>1, <1>2, <1>3

\* A view with another queue or another message in hand.
LEMMA ViewWith ==
  ASSUME NEW r \in M!View, NEW q \in Seq(1..LastMessage), NEW h \in 0..LastMessage
  PROVE  /\ [r EXCEPT !.queue = q] \in M!View /\ [r EXCEPT !.queue = q].queue = q
         /\ [r EXCEPT !.held = h] \in M!View /\ [r EXCEPT !.held = h].queue = r.queue
         /\ [r EXCEPT !.held = h, !.queue = q] \in M!View /\ [r EXCEPT !.held = h, !.queue = q].queue = q
BY DEF M!View

\* No view is open and no message has come.
LEMMA MuxInit == ASSUME M!MuxAssumption, M!Init PROVE M!MuxInv
<1>1. M!TypeOK
  <2>1. M!Unmade \in M!View /\ <<>> \in Seq(1..LastMessage) /\ Len(M!Unmade.queue) = 0
    BY DEF M!Unmade, M!View, M!Free, M!MuxAssumption
  <2> QED
    <3>1. /\ M_view = [v \in Views |-> M!Unmade] /\ M_given = [v \in Views |-> <<>>] /\ M_taken = 0 /\ M_dropped = 0
          /\ M_routing = [message |-> 0, view |-> 0] /\ x4 = "new" /\ x5 = FALSE
          /\ M_accepts \in [1..LastMessage -> SUBSET Views] /\ LastMessage \in Nat /\ Backlog \in Nat
      BY DEF M!Init, M!Idle, M!MuxAssumption
    <3>2. M_routing \in [message : 0..LastMessage, view : Views \cup {0}] /\ M_taken \in 0..LastMessage /\ M_dropped \in 0..LastMessage
      BY ONLY <3>1
    <3>3. M_view \in [Views -> M!View] /\ M_given \in [Views -> Seq(1..LastMessage)] /\ \A v \in Views : Len(M_view[v].queue) <= Backlog
      BY ONLY <2>1, <3>1
    <3> QED
      BY ONLY <3>1, <3>2, <3>3 DEF M!TypeOK
<1>2. \A v \in Views : M!Line(v) = <<>> /\ M!ToSet(M!Line(v)) = {}
  BY DEF M!Init, M!Line, M!Held, M!Unmade, M!Free, M!ToSet
<1>3. M!Lined = {} /\ M!Waiting = 0
  BY <1>2 DEF M!Lined, M!Waiting, M!Init
<1>4. Cardinality({}) = 0 /\ M!Cardinality({}) = Cardinality({})
  BY FS_EmptySet DEF M!Cardinality, Cardinality, M!IsFiniteSet, IsFiniteSet
<1>5. M!NothingSilentlyLost
  <2>1. \A v \in Views : DOMAIN M!Line(v) = {}
    BY <1>2
  <2>2. M_taken = 0 /\ M_dropped = 0 /\ M!Cardinality(M!Lined) = 0
    BY <1>3, <1>4 DEF M!Init
  <2>3. M_taken = M_dropped + M!Waiting + M!Cardinality(M!Lined)
    BY <1>3, <2>2
  <2> QED
    BY ONLY <1>2, <2>1, <2>3 DEF M!NothingSilentlyLost, M!Lined
<1> QED
  BY <1>1, <1>3, <1>5 DEF M!MuxInv, M!Init

\* The mux's types, and that what it dropped and what waits was taken.
LEMMA MuxTypeStep ==
  ASSUME M!MuxAssumption, M!MuxInv, M!Next
  PROVE  M!TypeOK'
<1> USE DEF M!MuxAssumption, M!TypeOK, M!Free
<1>0. /\ M!TypeOK /\ M_dropped + M!Waiting <= M_taken
      /\ M_routing # M!Idle => M_routing.message \in 1..LastMessage /\ M_routing.view \in M_accepts[M_taken]
                               /\ M_taken \in 1..LastMessage
  BY DEF M!MuxInv
<1>1. CASE M!Start \/ M!Close \/ M!DispatchEnds
  BY <1>0, <1>1 DEF M!Start, M!Close, M!DispatchEnds
<1>2. CASE M!Match
  <2> DEFINE open == {v \in M_accepts[M_taken + 1] : M_view[v].state = "open"}
             v == CHOOSE w \in open : \A u \in open : w <= u
  <2>1. open \subseteq Views /\ IsFiniteSet(Views) /\ M_taken + 1 \in 1..LastMessage
    <3>1. Views \subseteq Nat /\ IsFiniteSet(Views) /\ LastMessage \in Nat
      BY DEF M!MuxAssumption, M!IsFiniteSet, IsFiniteSet
    <3>2. /\ M_taken \in Nat /\ M_taken < LastMessage
          /\ M_accepts \in [1..LastMessage -> SUBSET Views]
      BY <1>0, <1>2 DEF M!Match, M!TypeOK
    <3>3. M_taken + 1 \in 1..LastMessage
      BY ONLY <3>1, <3>2
    <3> QED
      BY <3>1, <3>2, <3>3
  <2>2. open # {} => v \in Views
    <3>1. open \subseteq Nat /\ IsFiniteSet(open)
      BY <2>1, FS_Subset
    <3> HIDE DEF open
    <3> QED
      BY <2>1, <3>1, LeastOfSome
  <2>3. M_dropped' \in {M_dropped, M_dropped + 1} /\ M_dropped < LastMessage
    BY <1>0, <1>2 DEF M!Match, M!Waiting
  <2>4. M_routing' = M_routing \/ (open # {} /\ M_routing' = [message |-> M_taken + 1, view |-> v])
    BY <1>2 DEF M!Match
  <2> HIDE DEF v, open
  <2> QED
    BY <1>0, <1>2, <2>1, <2>2, <2>3, <2>4 DEF M!Match
<1>3. ASSUME NEW v \in Views, NEW r \in M!View, Len(r.queue) <= Backlog, M_view' = [M_view EXCEPT ![v] = r],
             UNCHANGED <<M_accepts, M_taken, x4>>, M_routing' \in {M_routing, M!Idle}, x5' \in BOOLEAN,
             M_dropped' \in 0..LastMessage, M_given' \in [Views -> Seq(1..LastMessage)]
      PROVE  M!TypeOK'
  <2>1. M_view' \in [Views -> M!View] /\ \A u \in Views : Len(M_view'[u].queue) <= Backlog
    BY <1>0, <1>3
  <2> QED
    BY <1>0, <1>3, <2>1 DEF M!Idle
<1>4. CASE M!Push
  <2> DEFINE v == M_routing.view
             m == M_routing.message
             r == [M_view[v] EXCEPT !.queue = M!Pushed(M_view[v].queue, m)]
  <2>1. v \in Views /\ m \in 1..LastMessage /\ M_dropped < LastMessage
    BY <1>0, <1>4 DEF M!Push, M!Waiting
  <2>2. M_view[v] \in M!View /\ M_view[v].queue \in Seq(1..LastMessage) /\ Len(M_view[v].queue) <= Backlog
    BY <1>0, <2>1 DEF M!View
  <2>3. M!Pushed(M_view[v].queue, m) \in Seq(1..LastMessage) /\ Len(M!Pushed(M_view[v].queue, m)) <= Backlog
    BY ONLY <2>1, <2>2, M!MuxAssumption, QueueFits
  <2>4. r \in M!View /\ Len(r.queue) <= Backlog
    <3>1. 0 \in 0..LastMessage
      OBVIOUS
    <3> QED
      BY ONLY <2>2, <2>3, <3>1, ViewWith
  <2>5. M_view' = M_view \/ M_view' = [M_view EXCEPT ![v] = r]
    BY <1>4 DEF M!Push
  <2>6. M_routing' = M!Idle /\ M_dropped' \in {M_dropped, M_dropped + 1} /\ UNCHANGED <<M_accepts, M_taken, x4, x5, M_given>>
    BY <1>4 DEF M!Push
  <2>7. M_dropped' \in 0..LastMessage
    BY <1>0, <2>1, <2>6
  <2> HIDE DEF r
  <2> QED
    <3>1. CASE M_view' = M_view
      BY <1>0, <2>6, <2>7, <3>1 DEF M!Idle
    <3>2. CASE M_view' = [M_view EXCEPT ![v] = r]
      BY ONLY <1>0, <1>3, <2>1, <2>4, <2>6, <2>7, <3>2, M!MuxAssumption DEF M!TypeOK
    <3> QED
      BY ONLY <2>5, <3>1, <3>2
<1>5. ASSUME NEW v \in Views, M!MakeView(v) \/ M!Read(v) \/ M!PumpEnds(v) \/ M!CloseView(v) PROVE M!TypeOK'
  <2>1. M_view[v] \in M!View /\ Len(M_view[v].queue) <= Backlog
    BY <1>0
  <2>2. PICK s \in {"open", "closed"}, p \in {"running", "ended"} :
            M_view' \in {[M_view EXCEPT ![v].state = s], [M_view EXCEPT ![v].pump = p]}
    BY <1>5 DEF M!MakeView, M!Read, M!PumpEnds, M!CloseView
  <2>3. /\ [M_view[v] EXCEPT !.state = s] \in M!View /\ [M_view[v] EXCEPT !.state = s].queue = M_view[v].queue
        /\ [M_view[v] EXCEPT !.pump = p] \in M!View /\ [M_view[v] EXCEPT !.pump = p].queue = M_view[v].queue
    BY <2>1 DEF M!View
  <2>4. UNCHANGED <<M_accepts, M_taken, M_routing, x4, x5, M_dropped, M_given>>
    BY <1>5 DEF M!MakeView, M!Read, M!PumpEnds, M!CloseView
  <2> QED
    BY <1>0, <1>3, <2>1, <2>2, <2>3, <2>4
<1>6. ASSUME NEW v \in Views, M!Pop(v) PROVE M!TypeOK'
  <2> DEFINE r == [M_view[v] EXCEPT !.held = Head(M_view[v].queue), !.queue = Tail(M_view[v].queue)]
  <2>1. M_view[v] \in M!View /\ M_view[v].queue \in Seq(1..LastMessage) /\ M_view[v].queue # <<>>
        /\ Len(M_view[v].queue) <= Backlog
    BY <1>0, <1>6 DEF M!View, M!Pop
  <2>2. Head(M_view[v].queue) \in 1..LastMessage /\ Tail(M_view[v].queue) \in Seq(1..LastMessage)
        /\ Len(Tail(M_view[v].queue)) <= Backlog
    BY ONLY <2>1, M!MuxAssumption, QueueFits
  <2>3. r \in M!View /\ Len(r.queue) <= Backlog
    <3>1. Head(M_view[v].queue) \in 0..LastMessage
      BY <2>2
    <3> QED
      BY ONLY <2>1, <2>2, <3>1 DEF M!View
  <2>4. M_view' = [M_view EXCEPT ![v] = r] /\ UNCHANGED <<M_accepts, M_taken, M_routing, x4, x5, M_dropped, M_given>>
    BY <1>6, <2>1 DEF M!Pop, M!View
  <2> HIDE DEF r
  <2> QED
    BY <1>0, <1>3, <2>3, <2>4
<1>7. ASSUME NEW v \in Views, M!Give(v) PROVE M!TypeOK'
  <2>1. M_view[v] \in M!View /\ Len(M_view[v].queue) <= Backlog /\ M_view[v].held \in 1..LastMessage
        /\ M_given[v] \in Seq(1..LastMessage)
    BY <1>0, <1>7 DEF M!View, M!Give
  <2>2. [M_view[v] EXCEPT !.held = M!Free] \in M!View /\ [M_view[v] EXCEPT !.held = M!Free].queue = M_view[v].queue
    <3>1. M!Free \in 0..LastMessage /\ <<>> \in Seq(1..LastMessage)
      OBVIOUS
    <3> QED
      BY ONLY <2>1, <3>1, ViewWith
  <2>3. M_given' = [M_given EXCEPT ![v] = Append(M_given[v], M_view[v].held)]
    BY <1>7 DEF M!Give
  <2>4. M_given' \in [Views -> Seq(1..LastMessage)]
    <3>1. Append(M_given[v], M_view[v].held) \in Seq(1..LastMessage)
      BY <2>1
    <3> QED
      BY <1>0, <2>3, <3>1
  <2>5. M_view' = [M_view EXCEPT ![v] = [M_view[v] EXCEPT !.held = M!Free]]
        /\ UNCHANGED <<M_accepts, M_taken, M_routing, x4, x5, M_dropped>>
    BY <1>7 DEF M!Give
  <2> QED
    BY <1>0, <1>3, <2>1, <2>2, <2>4, <2>5
<1> QED
  BY ONLY M!Next, <1>1, <1>2, <1>4, <1>5, <1>6, <1>7 DEF M!Next
\* What of the invariant is about lines: nothing changes while they and the stream stay.
LEMMA LinesKept ==
  ASSUME M!MuxInv, M!TypeOK', UNCHANGED <<M_accepts, M_taken, M_routing, M_dropped>>,
         \A v \in Views : M!Line(v)' = M!Line(v),
         \A v \in Views : /\ M_view[v].state = "closed" => M_view'[v].state = "closed"
                          /\ M_view[v].state # "none" => M_view'[v].state # "none"
  PROVE  M!MuxInv'
<1>1. M!Lined' = M!Lined /\ M!Waiting' = M!Waiting
  BY DEF M!Lined, M!Waiting, M!Idle
<1>2. M!NothingSilentlyLost'
  BY <1>1 DEF M!MuxInv, M!NothingSilentlyLost, M!Lined, M!Waiting
<1>3. M_routing # M!Idle => M_routing.view \in Views
  BY DEF M!MuxInv, M!TypeOK
<1> QED
  BY <1>1, <1>2, <1>3 DEF M!MuxInv

\* A line of the lined: in order, of the view's own, and within what was taken.
LEMMA MuxLines ==
  ASSUME M!MuxAssumption, M!MuxInv
  PROVE  /\ \A v \in Views : M!Line(v) \in Seq(Nat) /\ M_InOrder(M!Line(v)) /\ M!ToSet(M!Line(v)) \subseteq M!Lined
         /\ \A v \in Views : \A x \in M!ToSet(M!Line(v)) : v \in M_accepts[x]
         /\ \A v \in Views : \A u \in Views \ {v} : M!ToSet(M!Line(u)) \cap M!ToSet(M!Line(v)) = {}
         /\ M!Lined \subseteq 1..M_taken /\ M_taken \in Nat /\ IsFiniteSet(M!Lined)
<1>1. \A v \in Views : M!Line(v) \in Seq(Nat)
  BY MuxLine DEF M!MuxInv
<1>2. \A v \in Views : M_InOrder(M!Line(v)) /\ M!ToSet(M!Line(v)) \subseteq M!Lined
  BY DEF M!MuxInv, M!NothingSilentlyLost, M_InOrder, M!Lined
<1>3. \A v \in Views : \A x \in M!ToSet(M!Line(v)) : v \in M_accepts[x]
  BY DEF M!MuxInv, M!NothingSilentlyLost, M!ToSet
<1>4. \A v \in Views : \A u \in Views \ {v} : M!ToSet(M!Line(u)) \cap M!ToSet(M!Line(v)) = {}
  BY DEF M!MuxInv, M!NothingSilentlyLost
<1>5. M!Lined \subseteq 1..M_taken /\ M_taken \in Nat
  BY DEF M!MuxInv, M!TypeOK, M!MuxAssumption
<1>6. IsFiniteSet(M!Lined)
  <2>1. IsFiniteSet(1..M_taken)
    BY ONLY <1>5, FS_Interval
  <2> QED
    BY ONLY <1>5, <2>1, FS_Subset
<1> QED
  BY <1>1, <1>2, <1>3, <1>4, <1>5, <1>6

\* The instance's cardinality is the library's.
LEMMA MuxCounts == ASSUME NEW T PROVE M!Cardinality(T) = Cardinality(T)
BY DEF M!Cardinality, Cardinality, M!IsFiniteSet, IsFiniteSet

\* The message that was routed is in its view's line, for which none was lost, or one that is counted.
LEMMA LineTakes ==
  ASSUME M!MuxAssumption, M!MuxInv, M!TypeOK', UNCHANGED <<M_accepts, M_taken>>,
         M_routing # M!Idle, M_routing' = M!Idle,
         NEW w \in Views, w = M_routing.view,
         \A v \in Views : M_view'[v].state = M_view[v].state,
         \A v \in Views \ {w} : M!Line(v)' = M!Line(v),
         M!Line(w)' \in Seq(Nat), M_InOrder(M!Line(w)'),
         NEW lost \in SUBSET M!ToSet(M!Line(w)),
         M!ToSet(M!Line(w)') = (M!ToSet(M!Line(w)) \ lost) \cup {M_taken},
         \/ lost = {} /\ M_dropped' = M_dropped
         \/ (\E x \in M!ToSet(M!Line(w)) : lost = {x}) /\ M_dropped' = M_dropped + 1
  PROVE  M!MuxInv'
<1>1. /\ M_taken \in (1..LastMessage) \ M!Lined /\ w \in M_accepts[M_taken] /\ M!Waiting = 1 /\ M!Waiting' = 0
      /\ M_dropped \in Nat /\ M_dropped + 1 <= M_taken
  BY DEF M!MuxInv, M!Waiting, M!TypeOK
<1>2. M!Lined' = (M!Lined \ lost) \cup {M_taken}
  <2>1. \A v \in Views \ {w} : M!ToSet(M!Line(v)') = M!ToSet(M!Line(v)) /\ M!ToSet(M!Line(v)) \cap lost = {}
    BY MuxLines
  <2>2. M!Lined = UNION {M!ToSet(M!Line(v)) : v \in Views} /\ M!Lined' = UNION {M!ToSet(M!Line(v)') : v \in Views}
    BY DEF M!Lined, M!ToSet
  <2> QED
    BY ONLY <2>1, <2>2, w \in Views, M!ToSet(M!Line(w)') = (M!ToSet(M!Line(w)) \ lost) \cup
       {M_taken}, lost \in SUBSET M!ToSet(M!Line(w))
<1>3. \A v \in Views : M_InOrder(M!Line(v)') /\ \A x \in M!ToSet(M!Line(v)') : v \in M_accepts'[x]
  <2>1. \A v \in Views \ {w} : M_InOrder(M!Line(v)') /\ \A x \in M!ToSet(M!Line(v)') : v \in M_accepts'[x]
    BY MuxLines
  <2>2. \A x \in M!ToSet(M!Line(w)') : w \in M_accepts'[x]
    BY <1>1, MuxLines
  <2> QED
    BY <2>1, <2>2
<1>4. \A u, v \in Views : u # v => M!ToSet(M!Line(u)') \cap M!ToSet(M!Line(v)') = {}
  BY <1>1, MuxLines
<1>5. Cardinality(M!Lined') + M_dropped' = Cardinality(M!Lined) + M_dropped + 1
  <2>1. IsFiniteSet(M!Lined) /\ Cardinality(M!Lined) \in Nat /\ lost \subseteq M!Lined /\ M_taken \notin M!Lined
    BY <1>1, MuxLines, FS_CardinalityType
  <2>2. CASE lost = {} /\ M_dropped' = M_dropped
    <3>1. M!Lined' = M!Lined \cup {M_taken}
      BY <1>2, <2>2
    <3> QED
      <4>1. Cardinality(M!Lined \cup {M_taken}) = Cardinality(M!Lined) + 1
        BY ONLY <2>1, FS_AddElement
      <4> QED
        BY ONLY <1>1, <2>1, <2>2, <3>1, <4>1
  <2>3. ASSUME NEW x \in M!ToSet(M!Line(w)), lost = {x}, M_dropped' = M_dropped + 1
        PROVE  Cardinality(M!Lined') + M_dropped' = Cardinality(M!Lined) + M_dropped + 1
    <3> DEFINE rest == M!Lined \ {x}
    <3>1. IsFiniteSet(rest) /\ Cardinality(rest) = Cardinality(M!Lined) - 1 /\ M_taken \notin rest
      BY <2>1, <2>3, FS_RemoveElement
    <3>2. M!Lined' = rest \cup {M_taken}
      BY <1>2, <2>3
    <3>3. Cardinality(rest) \in Nat
      BY <3>1, FS_CardinalityType
    <3> HIDE DEF rest
    <3> QED
      <4>1. Cardinality(rest \cup {M_taken}) = Cardinality(rest) + 1
        BY ONLY <3>1, FS_AddElement
      <4> QED
        BY ONLY <1>1, <2>1, <2>3, <3>1, <3>2, <3>3, <4>1
  <2> QED
    BY <2>2, <2>3
<1>6. M!NothingSilentlyLost'
  <2>1. \A v \in Views : /\ \A i, j \in DOMAIN M!Line(v)' : i < j => M!Line(v)'[i] < M!Line(v)'[j]
                         /\ \A i \in DOMAIN M!Line(v)' : v \in M_accepts'[M!Line(v)'[i]]
    BY <1>3 DEF M_InOrder, M!ToSet
  <2>2. (\A v \in Views : M_view'[v].state # "closed") => M_taken' = M_dropped' + M!Waiting' + M!Cardinality(M!Lined')
    <3>1. (\A v \in Views : M_view[v].state # "closed") => M_taken = M_dropped + M!Waiting + Cardinality(M!Lined)
      BY MuxCounts DEF M!MuxInv, M!NothingSilentlyLost, M!Lined
    <3>2. Cardinality(M!Lined) \in Nat
      BY MuxLines, FS_CardinalityType
    <3>3. M_dropped' \in Nat
      BY <1>1
    <3>4. Cardinality(M!Lined') \in Nat
      BY <1>5, <1>1, <3>2, MuxLines, FS_AddElement, FS_CardinalityType, <1>2, FS_Subset
    <3>5. M!Cardinality(M!Lined') = Cardinality(M!Lined')
      BY MuxCounts
    <3> QED
      BY ONLY <1>1, <1>5, <3>1, <3>2, <3>3, <3>4, <3>5, \A v \in Views : M_view'[v].state =
         M_view[v].state, M_taken' = M_taken
  <2> QED
    BY <1>4, <2>1, <2>2 DEF M!NothingSilentlyLost, M!Lined, M!ToSet
<1>7. M!Lined' \subseteq 1..M_taken' /\ M_dropped' + M!Waiting' <= M_taken'
  BY <1>1, <1>2, MuxLines
<1> QED
  BY <1>1, <1>6, <1>7 DEF M!MuxInv

\* Each step moves a message along its view's line, or counts it.
LEMMA MuxStep ==
  ASSUME M!MuxAssumption, M!MuxInv, [M!Next]_(M!muxVars)
  PROVE  M!MuxInv'
<1>0. CASE UNCHANGED M!muxVars
  <2>1. M!TypeOK' /\ \A v \in Views : M!Line(v)' = M!Line(v)
    BY <1>0 DEF M!muxVars, M!MuxInv, M!TypeOK, M!Line, M!Held
  <2> QED
    BY <1>0, <2>1, LinesKept DEF M!muxVars
<1> SUFFICES ASSUME M!Next PROVE M!MuxInv'
  BY <1>0
<1>t. M!TypeOK /\ M!TypeOK' /\ M_view \in [Views -> M!View] /\ M_given \in [Views -> Seq(1..LastMessage)]
  BY MuxTypeStep DEF M!MuxInv, M!TypeOK
<1>1. CASE M!Start \/ M!Close \/ M!DispatchEnds
  <2>1. \A v \in Views : M!Line(v)' = M!Line(v)
    BY <1>1 DEF M!Start, M!Close, M!DispatchEnds, M!Line, M!Held
  <2> QED
    BY <1>1, <1>t, <2>1, LinesKept DEF M!Start, M!Close, M!DispatchEnds
<1>2. ASSUME NEW v \in Views, M!MakeView(v) \/ M!Read(v) \/ M!PumpEnds(v) \/ M!CloseView(v) PROVE M!MuxInv'
  <2>1. /\ UNCHANGED <<M_accepts, M_taken, M_routing, M_dropped, M_given>>
        /\ \A u \in Views : M_view'[u].queue = M_view[u].queue /\ M_view'[u].held = M_view[u].held
        /\ \A u \in Views : /\ M_view[u].state = "closed" => M_view'[u].state = "closed"
                            /\ M_view[u].state # "none" => M_view'[u].state # "none"
    <3>1. M_view[v] \in M!View
      BY <1>t
    <3>2. PICK st \in {"open", "closed"}, pu \in {"running", "ended"} :
            \/ M_view' = [M_view EXCEPT ![v].state = st] /\ M_view[v].state # "closed"
            \/ M_view' = [M_view EXCEPT ![v].pump = pu]
      BY <1>2 DEF M!MakeView, M!Read, M!PumpEnds, M!CloseView
    <3>3. \A u \in Views : \/ M_view'[u] = M_view[u] \/ (u = v /\ M_view'[u] = [M_view[v] EXCEPT !.pump = pu])
                           \/ (u = v /\ M_view[v].state # "closed" /\ M_view'[u] = [M_view[v] EXCEPT !.state = st])
      BY ONLY <1>t, <3>2
    <3>4. UNCHANGED <<M_accepts, M_taken, M_routing, M_dropped, M_given>>
      BY <1>2 DEF M!MakeView, M!Read, M!PumpEnds, M!CloseView
    <3> QED
      BY ONLY <3>1, <3>3, <3>4 DEF M!View
  <2>2. \A u \in Views : M!Line(u)' = M!Line(u)
    BY <2>1 DEF M!Line, M!Held
  <2> QED
    BY <1>t, <2>1, <2>2, LinesKept
<1>3. ASSUME NEW v \in Views, M!Pop(v) PROVE M!MuxInv'
  <2>1. /\ UNCHANGED <<M_accepts, M_taken, M_routing, M_dropped, M_given>>
        /\ M_view[v].held = M!Free /\ M_view[v].queue # <<>>
        /\ M_view'[v].held = Head(M_view[v].queue) /\ M_view'[v].queue = Tail(M_view[v].queue)
        /\ \A u \in Views \ {v} : M_view'[u] = M_view[u]
        /\ \A u \in Views : M_view'[u].state = M_view[u].state
    BY <1>3, <1>t DEF M!Pop, M!View
  <2>2. M_given[v] \in Seq(1..LastMessage) /\ M_view[v].queue \in Seq(1..LastMessage)
    BY <1>t DEF M!View
  <2>3. Head(M_view[v].queue) \in 1..LastMessage
    BY ONLY <2>1, <2>2, HeadTailProperties
  <2>4. M!Held(v)' = <<Head(M_view[v].queue)>> /\ M!Held(v) = <<>>
    BY <2>1, <2>3 DEF M!Held, M!Free
  <2>5. M!Line(v)' = M!Line(v)
    <3>1. M!Line(v)' = M_given[v] \o <<Head(M_view[v].queue)>> \o Tail(M_view[v].queue)
          /\ M!Line(v) = M_given[v] \o <<>> \o M_view[v].queue
      BY <2>1, <2>4 DEF M!Line
    <3> QED
      BY ONLY <2>1, <2>2, <3>1, LinePops
  <2>6. \A u \in Views \ {v} : M!Line(u)' = M!Line(u)
    BY <2>1 DEF M!Line, M!Held
  <2> QED
    BY <1>t, <2>1, <2>5, <2>6, LinesKept
<1>4. ASSUME NEW v \in Views, M!Give(v) PROVE M!MuxInv'
  <2>1. /\ UNCHANGED <<M_accepts, M_taken, M_routing, M_dropped>>
        /\ M_view[v].held # M!Free /\ M_view'[v].held = M!Free /\ M_view'[v].queue = M_view[v].queue
        /\ M_given'[v] = Append(M_given[v], M_view[v].held)
        /\ \A u \in Views \ {v} : M_view'[u] = M_view[u] /\ M_given'[u] = M_given[u]
        /\ \A u \in Views : M_view'[u].state = M_view[u].state
    BY <1>4, <1>t DEF M!Give, M!View
  <2>2. M_given[v] \in Seq(1..LastMessage) /\ M_view[v].queue \in Seq(1..LastMessage) /\ M_view[v].held \in 1..LastMessage
    BY <1>t, <2>1 DEF M!View, M!Free, M!MuxAssumption
  <2>4. M!Held(v)' = <<>> /\ M!Held(v) = <<M_view[v].held>>
    BY <2>1 DEF M!Held
  <2>5. M!Line(v)' = M!Line(v)
    <3>1. M!Line(v)' = Append(M_given[v], M_view[v].held) \o <<>> \o M_view[v].queue
          /\ M!Line(v) = M_given[v] \o <<M_view[v].held>> \o M_view[v].queue
      BY <2>1, <2>4 DEF M!Line
    <3> QED
      BY ONLY <2>2, <3>1, LineGives
  <2>6. \A u \in Views \ {v} : M!Line(u)' = M!Line(u)
    BY <2>1 DEF M!Line, M!Held
  <2> QED
    BY <1>t, <2>1, <2>5, <2>6, LinesKept
<1>5. CASE M!Match
  <2> DEFINE open == {v \in M_accepts[M_taken + 1] : M_view[v].state = "open"}
             w == CHOOSE v \in open : \A u \in open : v <= u
  <2>1. \A v \in Views : M!Line(v)' = M!Line(v)
    BY <1>5 DEF M!Match, M!Line, M!Held
  <2>2. M!Lined' = M!Lined /\ M_taken' = M_taken + 1 /\ M_taken' \in (1..LastMessage) \ M!Lined /\ M!Waiting = 0
        /\ M_routing = M!Idle /\ UNCHANGED <<M_accepts, M_view>> /\ M_taken \in Nat
    <3>1. M!Lined' = M!Lined
      BY <2>1 DEF M!Lined
    <3>2. M_taken \in Nat /\ LastMessage \in Nat /\ M!Lined \subseteq 1..M_taken
      BY MuxLines DEF M!MuxAssumption
    <3>3. M_taken' = M_taken + 1 /\ M_taken < LastMessage /\ M_routing = M!Idle /\ UNCHANGED <<M_accepts, M_view>>
      BY <1>5 DEF M!Match
    <3> QED
      BY ONLY <3>1, <3>2, <3>3 DEF M!Waiting
  <2>3. \/ M_dropped' = M_dropped + 1 /\ M_routing' = M!Idle
        \/ open # {} /\ M_dropped' = M_dropped /\ M_routing' = [message |-> M_taken + 1, view |-> w]
    BY <1>5 DEF M!Match
  <2>4. M!Waiting' = IF M_routing' = M!Idle THEN 0 ELSE 1
    BY DEF M!Waiting, M!Idle
  <2>5. open # {} => w \in open
    <3>1. M_accepts[M_taken + 1] \subseteq Views /\ IsFiniteSet(Views) /\ Views \subseteq Nat
      BY <1>t, <2>2 DEF M!TypeOK, M!MuxAssumption, M!IsFiniteSet, IsFiniteSet
    <3>2. open \subseteq Nat /\ IsFiniteSet(open)
      BY <3>1, FS_Subset
    <3> HIDE DEF open
    <3> QED
      BY <3>2, LeastOfSome
  <2>6. M_routing' # M!Idle => M_routing'.message = M_taken' /\ M_routing'.view \in M_accepts'[M_taken']
                              /\ M_view'[M_routing'.view].state # "none"
    <3>1. open # {} => w \in M_accepts[M_taken + 1] /\ M_view[w].state # "none"
      BY <2>5
    <3> HIDE DEF w, open
    <3> QED
      BY ONLY <2>2, <2>3, <3>1
  <2>7. M_dropped' + M!Waiting' = M_dropped + 1 /\ M_dropped \in Nat
    <3>1. [message |-> M_taken + 1, view |-> w] # M!Idle
      BY <2>2 DEF M!Idle
    <3>2. M_dropped \in Nat
      BY <1>t DEF M!TypeOK, M!MuxAssumption
    <3> HIDE DEF w, open
    <3> QED
      BY <2>3, <2>4, <3>1, <3>2
  <2> HIDE DEF w, open
  <2>8. M!NothingSilentlyLost'
    <3>1. \A v \in Views : M!ToSet(M!Line(v)') = M!ToSet(M!Line(v))
      BY <2>1
    <3>2. M!Cardinality(M!Lined) \in Nat
      BY MuxLines, MuxCounts, FS_CardinalityType
    <3>3. M_taken' = M_dropped' + M!Waiting' + M!Cardinality(M!Lined') \/ \E v \in Views : M_view'[v].state = "closed"
      <4>1. M_taken = M_dropped + M!Waiting + M!Cardinality(M!Lined) \/ \E v \in Views : M_view[v].state = "closed"
        BY DEF M!MuxInv, M!NothingSilentlyLost, M!Lined
      <4> QED
        BY ONLY <2>2, <2>7, <3>2, <4>1
    <3> QED
      BY <2>1, <2>2, <3>1, <3>3 DEF M!MuxInv, M!NothingSilentlyLost, M!Lined
  <2>9. M!Lined' \subseteq 1..M_taken' /\ M_dropped' + M!Waiting' <= M_taken'
    BY <2>2, <2>7, MuxLines DEF M!MuxInv
  <2> QED
    BY <1>t, <2>2, <2>6, <2>8, <2>9 DEF M!MuxInv
<1>6. CASE M!Push
  <2>w. PICK w \in Views, m \in Nat : w = M_routing.view /\ m = M_taken
    BY <1>6, <1>t, MuxLines DEF M!Push, M!MuxInv, M!TypeOK
  <2>1. /\ M_routing # M!Idle /\ M_routing' = M!Idle /\ M_routing.message = m /\ w \in Views
        /\ m \in (1..LastMessage) \ M!Lined /\ UNCHANGED <<M_accepts, M_taken, M_given>>
    BY <1>6, <1>t, <2>w DEF M!Push, M!MuxInv, M!TypeOK
  <2>2. CASE M_view[w].state = "closed"
    <3>1. M_view' = M_view /\ M_dropped' = M_dropped + 1
      BY <1>6, <2>w, <2>2 DEF M!Push, M!Loses
    <3>2. \A v \in Views : M!Line(v)' = M!Line(v)
      BY <2>1, <3>1 DEF M!Line, M!Held
    <3>3. M!Lined' = M!Lined /\ M!Waiting = 1 /\ M!Waiting' = 0 /\ M_dropped \in Nat
      BY <1>t, <2>1, <3>2 DEF M!Lined, M!Waiting, M!Idle, M!TypeOK
    <3>4. M!NothingSilentlyLost'
      BY <2>1, <2>2, <3>1, <3>2 DEF M!MuxInv, M!NothingSilentlyLost
    <3> QED
      BY <1>t, <2>1, <3>1, <3>3, <3>4 DEF M!MuxInv
  <2>3. CASE M_view[w].state # "closed"
    <3> DEFINE q == M_view[w].queue
    <3>1. M_view' = [M_view EXCEPT ![w].queue = M!Pushed(q, m)]
          /\ M_dropped' = IF Len(q) >= Backlog THEN M_dropped + 1 ELSE M_dropped
      BY <1>6, <2>w, <2>1, <2>3 DEF M!Push, M!Loses
    <3>2. /\ \A v \in Views \ {w} : M_view'[v] = M_view[v]
          /\ \A v \in Views : M_view'[v].state = M_view[v].state /\ M_view'[v].held = M_view[v].held
          /\ M_view'[w].queue = M!Pushed(q, m)
      BY <1>t, <2>1, <3>1 DEF M!View
    <3>3. \A v \in Views \ {w} : M!Line(v)' = M!Line(v)
      BY <2>1, <3>2 DEF M!Line, M!Held
    <3>4. /\ M_given[w] \in Seq(Nat) /\ q \in Seq(Nat) /\ M!Held(w) \in Seq(Nat) /\ m \in Nat /\ M!Line(w) \in Seq(Nat)
          /\ Len(q) \in Nat /\ Backlog \in Nat \ {0}
      <4>1. M_given[w] \in Seq(Nat) /\ q \in Seq(Nat) /\ M!Held(w) \in Seq(Nat) /\ M!Line(w) \in Seq(Nat)
        BY <1>t, <2>1, MuxLine
      <4>2. Len(q) \in Nat
        BY ONLY <4>1
      <4> QED
        BY <4>1, <4>2 DEF M!MuxAssumption
    <3>5. M!Line(w)' = M_given[w] \o M!Held(w) \o M!Pushed(q, m) /\ M!Line(w) = M_given[w] \o M!Held(w) \o q
      BY <2>1, <3>2 DEF M!Line, M!Held
    <3>6. M!Pushed(q, m) \in Seq(Nat)
      BY ONLY <3>4, M!MuxAssumption, <1>t, <2>1, QueueFits DEF M!TypeOK
    <3> HIDE DEF q
    <3>7. PICK g \in Seq(Nat), h \in Seq(Nat), p \in Seq(Nat), old \in Seq(Nat), new \in Seq(Nat) :
            p = q /\ old = M!Line(w) /\ new = M!Line(w)' /\ old = g \o h \o p /\ new = g \o h \o M!Pushed(p, m)
      <4>1. M_given[w] \o M!Held(w) \o M!Pushed(q, m) \in Seq(Nat)
        BY ONLY <3>4, <3>6
      <4> QED
        BY ONLY <3>4, <3>5, <4>1
    <3>8. M_InOrder(old) /\ \A i \in DOMAIN old : old[i] < m
      <4>1. \A i \in DOMAIN old : old[i] \in M!Lined
        BY <2>1, <3>7, MuxLines DEF M!ToSet
      <4>2. \A x \in M!Lined : x < m
        BY ONLY <2>1, <2>w, MuxLines, M!MuxAssumption, M!MuxInv
      <4> QED
        BY <2>1, <3>7, <4>1, <4>2, MuxLines
    <3>9. ASSUME NEW lost \in SUBSET M!ToSet(old), M_InOrder(new),
                 M!ToSet(new) = (M!ToSet(old) \ lost) \cup {m},
                 \/ lost = {} /\ M_dropped' = M_dropped
                 \/ (\E x \in M!ToSet(old) : lost = {x}) /\ M_dropped' = M_dropped + 1
          PROVE  M!MuxInv'
      BY ONLY M!MuxAssumption, M!MuxInv, <1>t, <2>w, <2>1, <3>2, <3>3, <3>7, <3>9, LineTakes,
         ZenonT(60)
    <3>10. CASE Len(q) < Backlog
      <4>1. M!Pushed(p, m) = Append(p, m) /\ M_dropped' = M_dropped
        BY ONLY <3>1, <3>4, <3>7, <3>10 DEF M!Pushed
      <4>2. new = Append(old, m)
        <5>1. new = g \o h \o Append(p, m) /\ old = g \o h \o p
          BY ONLY <3>7, <4>1
        <5> QED
          <6>1. g \o h \o Append(p, m) = Append(g \o h \o p, m)
            <7>1. g \o h \o Append(p, m) \in Seq(Nat) /\ Append(g \o h \o p, m) \in Seq(Nat)
              BY ONLY m \in Nat, g \in Seq(Nat), h \in Seq(Nat), p \in Seq(Nat)
            <7> QED
              BY ONLY <7>1, m \in Nat, g \in Seq(Nat), h \in Seq(Nat), p \in Seq(Nat)
          <6> QED
            BY ONLY <5>1, <6>1
      <4>3. M_InOrder(new) /\ M!ToSet(new) = M!ToSet(old) \cup {m}
        BY ONLY <2>w, <3>7, <3>8, <4>2, Grows
      <4> QED
        <5>1. {} \in SUBSET M!ToSet(old) /\ M!ToSet(new) = (M!ToSet(old) \ {}) \cup {m}
          BY ONLY <4>3
        <5> QED
          BY ONLY <3>9, <4>1, <4>3, <5>1
    <3>11. CASE Len(q) >= Backlog
      <4>1. p # <<>> /\ M!Pushed(p, m) = Append(Tail(p), m) /\ M_dropped' = M_dropped + 1
        BY ONLY <3>1, <3>4, <3>7, <3>11 DEF M!Pushed
      <4>2. Slid(old, new, m)
        <5>1. new = g \o h \o Append(Tail(p), m) /\ old = g \o h \o p
          BY ONLY <3>7, <4>1
        <5> QED
          BY ONLY <2>w, <3>7, <4>1, <5>1, LineDrops
      <4>3. M_InOrder(new) /\ Trades(old, new, m)
        BY ONLY <2>w, <3>7, <3>8, <4>2, Slides
      <4>4. PICK x \in M!ToSet(old) : M!ToSet(new) = (M!ToSet(old) \ {x}) \cup {m}
        BY <4>3 DEF Trades
      <4> QED
        <5>1. {x} \in SUBSET M!ToSet(old)
          BY ONLY <4>4
        <5> QED
          BY ONLY <3>9, <4>1, <4>3, <4>4, <5>1
    <3> QED
      BY <3>4, <3>10, <3>11
  <2> QED
    BY <2>2, <2>3
<1> QED
  BY ONLY M!Next, <1>1, <1>2, <1>3, <1>4, <1>5, <1>6 DEF M!Next

HIDE DEF M_accepts, M_taken, M_routing, M_view, M_dropped, M_given

-----------------------------------------------------------------------------
\* Two finite sets whose members go one to one are of one size.
LEMMA OneToOne ==
  ASSUME NEW G, NEW H, IsFiniteSet(G), NEW f \in [G -> H],
         \A a, b \in G : f[a] = f[b] => a = b, \A y \in H : \E x \in G : f[x] = y
  PROVE  IsFiniteSet(H) /\ Cardinality(H) = Cardinality(G)
<1> DEFINE g == [y \in H |-> CHOOSE x \in G : f[x] = y]
<1>1. f \in Surjection(G, H)
  BY DEF Surjection
<1>2. IsFiniteSet(H) /\ Cardinality(H) <= Cardinality(G)
  BY <1>1, FS_Surjection
<1>3. g \in Surjection(H, G)
  <2>1. \A y \in H : g[y] \in G /\ f[g[y]] = y
    OBVIOUS
  <2>2. \A x \in G : g[f[x]] = x
    BY <2>1
  <2>3. g \in [H -> G]
    BY <2>1
  <2> HIDE DEF g
  <2> QED
    BY <2>2, <2>3 DEF Surjection
<1>4. Cardinality(G) <= Cardinality(H)
  BY <1>2, <1>3, FS_Surjection
<1> QED
  BY <1>2, <1>4, FS_CardinalityType

\* An order in which one of any two comes first, as each of the conversation's is.
Orders(R, T) ==
  /\ \A x \in T : <<x, x>> \notin R
  /\ \A x, y, z \in T : <<x, y>> \in R /\ <<y, z>> \in R => <<x, z>> \in R
  /\ \A x, y \in T : x # y => <<x, y>> \in R \/ <<y, x>> \in R
Ahead(R, T, e) == {d \in T : <<d, e>> \in R}
Place(R, T, e) == Cardinality(Ahead(R, T, e))

\* Who comes first has the smaller place, and every place is one of the set's.
LEMMA PlacesGrow ==
  ASSUME NEW R, NEW T, IsFiniteSet(T), Orders(R, T), NEW d \in T, NEW e \in T
  PROVE  /\ Place(R, T, e) \in Nat /\ Place(R, T, e) < Cardinality(T)
         /\ Place(R, T, d) \in Nat
         /\ <<d, e>> \in R => Place(R, T, d) < Place(R, T, e)
<1>1. \A x \in T : Ahead(R, T, x) \in SUBSET T /\ IsFiniteSet(Ahead(R, T, x)) /\ x \notin Ahead(R, T, x)
                   /\ Place(R, T, x) \in Nat
  BY FS_Subset, FS_CardinalityType DEF Ahead, Orders, Place
<1>2. Place(R, T, e) < Cardinality(T)
  <2>1. Ahead(R, T, e) # T
    BY <1>1
  <2> QED
    BY <1>1, <2>1, FS_Subset, FS_CardinalityType DEF Place
<1>3. ASSUME <<d, e>> \in R PROVE Place(R, T, d) < Place(R, T, e)
  <2>1. Ahead(R, T, d) \in SUBSET Ahead(R, T, e)
    BY <1>3 DEF Ahead, Orders
  <2>2. d \in Ahead(R, T, e) /\ d \notin Ahead(R, T, d)
    BY <1>1, <1>3 DEF Ahead
  <2>3. Ahead(R, T, d) # Ahead(R, T, e)
    BY <2>2
  <2> QED
    BY <1>1, <2>1, <2>3, FS_Subset, FS_CardinalityType DEF Place
<1> QED
  BY <1>1, <1>2, <1>3

\* Of each member, then.
LEMMA PlacesFit ==
  ASSUME NEW R, NEW T, IsFiniteSet(T), Orders(R, T)
  PROVE  \A e \in T : Place(R, T, e) \in Nat /\ Place(R, T, e) < Cardinality(T)
BY PlacesGrow

\* Different members have different places, so all the places are taken.
LEMMA PlacesAreTaken ==
  ASSUME NEW R, NEW T, IsFiniteSet(T), Orders(R, T)
  PROVE  /\ \A d, e \in T : Place(R, T, d) = Place(R, T, e) => d = e
         /\ \A k \in Nat : k < Cardinality(T) => \E e \in T : Place(R, T, e) = k
<1> DEFINE N == Cardinality(T)
           place == [e \in T |-> Place(R, T, e)]
           Taken == {place[e] : e \in T}
<1>1. N \in Nat
  BY FS_CardinalityType
<1>2. \A d, e \in T : Place(R, T, d) = Place(R, T, e) => d = e
  <2> SUFFICES ASSUME NEW d \in T, NEW e \in T, d # e PROVE Place(R, T, d) # Place(R, T, e)
    OBVIOUS
  <2>1. <<d, e>> \in R \/ <<e, d>> \in R
    BY DEF Orders
  <2> QED
    BY <2>1, PlacesGrow
<1>3. IsFiniteSet(Taken) /\ Cardinality(Taken) = N
  <2>1. place \in [T -> Taken] /\ \A y \in Taken : \E x \in T : place[x] = y
    OBVIOUS
  <2>2. \A a, b \in T : place[a] = place[b] => a = b
    BY <1>2
  <2> HIDE DEF place, Taken
  <2> QED
    BY <2>1, <2>2, OneToOne
<1>4. Taken \in SUBSET (0..(N - 1))
  <2>1. \A e \in T : Place(R, T, e) \in 0..(N - 1)
    <3> SUFFICES ASSUME NEW e \in T PROVE Place(R, T, e) \in 0..(N - 1)
      OBVIOUS
    <3>1. Place(R, T, e) \in Nat /\ Place(R, T, e) < N
      BY PlacesFit
    <3> HIDE DEF N
    <3> QED
      BY <1>1, <3>1
  <2> QED
    BY <2>1
<1>5. IsFiniteSet(0..(N - 1)) /\ Cardinality(0..(N - 1)) = N
  BY <1>1, FS_Interval
<1>6. Taken = 0..(N - 1)
  <2> HIDE DEF N, Taken
  <2> QED
    BY <1>3, <1>4, <1>5, FS_Subset
<1>7. ASSUME NEW k \in Nat, k < N PROVE \E e \in T : Place(R, T, e) = k
  <2>1. k \in Taken
    <3> HIDE DEF N, Taken
    <3> QED
      BY <1>1, <1>6, <1>7
  <2> QED
    BY <2>1
<1> QED
  BY <1>2, <1>7

\* The part counts as the library does.
LEMMA CountsAlike == \A T : C!Cardinality(T) = Cardinality(T) /\ C!IsFiniteSet(T) = IsFiniteSet(T)
BY DEF C!Cardinality, Cardinality, C!IsFiniteSet, IsFiniteSet

\* The best are as many as there may be, or all; and who comes before one of them is one.
LEMMA BestAreFirst ==
  ASSUME NEW R, NEW T, IsFiniteSet(T), Orders(R, T), NEW n \in Nat
  PROVE  /\ C!Best(T, R, n) \in SUBSET T /\ IsFiniteSet(C!Best(T, R, n))
         /\ n <= Cardinality(T) => Cardinality(C!Best(T, R, n)) = n
         /\ Cardinality(T) <= n => C!Best(T, R, n) = T
         /\ \A e \in C!Best(T, R, n), d \in T : <<d, e>> \in R => d \in C!Best(T, R, n)
<1> DEFINE B == {e \in T : Place(R, T, e) < n}
<1>1. C!Best(T, R, n) = B
  <2>1. \A e \in T : Place(R, T, e) = Cardinality({d \in T : <<d, e>> \in R})
    BY DEF Place, Ahead
  <2>2. \A e : e \in C!Best(T, R, n) <=> (e \in T /\ Cardinality({d \in T : <<d, e>> \in R}) < n)
    BY CountsAlike DEF C!Best
  <2> HIDE DEF Place
  <2>3. \A e : e \in C!Best(T, R, n) <=> e \in B
    BY <2>1, <2>2
  <2>4. B \subseteq T /\ C!Best(T, R, n) \subseteq T
    BY <2>2
  <2> HIDE DEF B
  <2> QED
    BY <2>3
<1>2. B \in SUBSET T /\ IsFiniteSet(B)
  BY FS_Subset
<1>3. ASSUME n <= Cardinality(T) PROVE Cardinality(B) = n
  <2> DEFINE place == [e \in B |-> Place(R, T, e)]
  <2>1. \A e \in B : Place(R, T, e) \in 0..(n - 1)
    <3> SUFFICES ASSUME NEW e \in B PROVE Place(R, T, e) \in 0..(n - 1)
      OBVIOUS
    <3>1. Place(R, T, e) \in Nat /\ Place(R, T, e) < n
      BY PlacesFit
    <3> QED
      BY <3>1
  <2>2. place \in [B -> 0..(n - 1)]
    BY <2>1
  <2>3. \A a, b \in B : place[a] = place[b] => a = b
    BY PlacesAreTaken
  <2>4. \A k \in 0..(n - 1) : \E e \in B : place[e] = k
    <3> SUFFICES ASSUME NEW k \in 0..(n - 1) PROVE \E e \in B : place[e] = k
      OBVIOUS
    <3>1. k \in Nat /\ k < n /\ k < Cardinality(T)
      BY <1>3, FS_CardinalityType
    <3>2. PICK e \in T : Place(R, T, e) = k
      BY <3>1, PlacesAreTaken
    <3> QED
      BY <3>1, <3>2
  <2> HIDE DEF B, place
  <2>5. Cardinality(0..(n - 1)) = Cardinality(B)
    BY <1>2, <2>2, <2>3, <2>4, OneToOne
  <2> QED
    BY <2>5, FS_Interval
<1>4. ASSUME Cardinality(T) <= n PROVE B = T
  <2>1. \A e \in T : Place(R, T, e) < n
    <3> SUFFICES ASSUME NEW e \in T PROVE Place(R, T, e) < n
      OBVIOUS
    <3>1. Place(R, T, e) \in Nat /\ Place(R, T, e) < Cardinality(T) /\ Cardinality(T) \in Nat
      BY PlacesFit, FS_CardinalityType
    <3> QED
      BY <1>4, <3>1
  <2> QED
    BY <2>1
<1>5. ASSUME NEW e \in B, NEW d \in T, <<d, e>> \in R PROVE d \in B
  <2>1. Place(R, T, d) < Place(R, T, e) /\ Place(R, T, e) \in Nat /\ Place(R, T, d) \in Nat /\ Place(R, T, e) < n
    BY <1>5, PlacesGrow
  <2> QED
    BY <2>1
<1> QED
  BY <1>1, <1>2, <1>3, <1>4, <1>5

-----------------------------------------------------------------------------
C_home == x1
C_inbound == x2
C_scope == x3
C_audience == x4
C_memory == x5
C_present == x6
C_steady == x7
C_hits == x8
C_prompt == x9
C_told == x10
C_stage == x11
C_events == x12
USE DEF C_home, C_inbound, C_scope, C_audience, C_memory, C_present, C_steady, C_hits, C_prompt, C_told, C_stage, C_events

\* Entries are ordered by their numbers.
LEMMA NumbersOrder ==
  ASSUME C!ConversationAssumption, NEW T \in SUBSET Entries
  PROVE  Orders(C!InNumber, T)
BY DEF C!ConversationAssumption, C!InNumber, Orders

\* A search finds nothing that is not in its space, and all of it unless it is full.
LEMMA FoundIsThere ==
  ASSUME C!ConversationAssumption, C_present \subseteq Entries, NEW s, NEW t \in Terms
  PROVE  LET F == {e \in C_present \cap Matches[t] : C_memory[e] = s} IN
         /\ C!Found(s, t) \subseteq F /\ IsFiniteSet(C!Found(s, t))
         /\ Cardinality(C!Found(s, t)) <= Limit
         /\ F \subseteq C!Found(s, t) \/ Cardinality(C!Found(s, t)) = Limit
<1> DEFINE F == {e \in C_present \cap Matches[t] : C_memory[e] = s}
<1>1. F \in SUBSET Entries /\ IsFiniteSet(F) /\ Limit \in Nat
  BY FS_Subset, CountsAlike DEF C!ConversationAssumption
<1>2. Orders(C!InNumber, F)
  BY <1>1, NumbersOrder
<1>3. C!Found(s, t) = C!Best(F, C!InNumber, Limit)
  BY DEF C!Found
<1> HIDE DEF F
<1>4. Cardinality(F) \in Nat
  BY <1>1, FS_CardinalityType
<1>5. /\ C!Best(F, C!InNumber, Limit) \in SUBSET F /\ IsFiniteSet(C!Best(F, C!InNumber, Limit))
      /\ Limit <= Cardinality(F) => Cardinality(C!Best(F, C!InNumber, Limit)) = Limit
      /\ Cardinality(F) <= Limit => C!Best(F, C!InNumber, Limit) = F
  BY <1>1, <1>2, BestAreFirst
<1>6. /\ C!Found(s, t) \subseteq F /\ IsFiniteSet(C!Found(s, t)) /\ Cardinality(C!Found(s, t)) <= Limit
      /\ F \subseteq C!Found(s, t) \/ Cardinality(C!Found(s, t)) = Limit
  BY <1>1, <1>3, <1>4, <1>5
<1> QED
  BY <1>6 DEF F

-----------------------------------------------------------------------------
\* What the searches of a turn owe, once they are all over.
SearchesFit ==
  /\ C_scope.terms \subseteq Terms /\ C_steady \subseteq Entries /\ DOMAIN C_hits = C!Queries
  /\ \A q \in C!Queries : C!HitFits(q)
SpacesRead == C!ToSet(C_scope.read)

\* So each result is of its space.
LEMMA EachHit ==
  ASSUME C!ConversationAssumption, SearchesFit, NEW s \in SpacesRead, NEW t \in C_scope.terms
  PROVE  LET hit == C_hits[<<s, t>>] IN
         /\ t \in Terms /\ hit.ok \in BOOLEAN
         /\ hit.entries \subseteq Matches[t] /\ hit.entries \subseteq Entries
         /\ \A e \in hit.entries : C_memory[e] = s
         /\ IsFiniteSet(hit.entries) /\ Cardinality(hit.entries) \in 0..Limit
         /\ hit.ok => \/ \A e \in C_steady \cap Matches[t] : C_memory[e] = s => e \in hit.entries
                      \/ Cardinality(hit.entries) = Limit
<1>1. <<s, t>> \in C!Queries /\ t \in Terms
  BY DEF C!Queries, SpacesRead, SearchesFit
<1>2. C!HitFits(<<s, t>>)
  BY <1>1 DEF SearchesFit
<1>3. Matches[t] \subseteq Entries /\ IsFiniteSet(Entries) /\ Limit \in Nat
  BY <1>1, CountsAlike DEF C!ConversationAssumption
<1>4. C!IsIn(s, t) = {e \in Matches[t] : C_memory[e] = s}
  BY DEF C!IsIn
<1>5. LET hit == C_hits[<<s, t>>] IN
      /\ hit.ok \in BOOLEAN /\ hit.entries \subseteq C!IsIn(s, t) /\ Cardinality(hit.entries) <= Limit
      /\ hit.ok => C_steady \cap C!IsIn(s, t) \subseteq hit.entries \/ Cardinality(hit.entries) = Limit
  BY <1>2, CountsAlike DEF C!HitFits
<1>6. IsFiniteSet(C_hits[<<s, t>>].entries) /\ Cardinality(C_hits[<<s, t>>].entries) \in Nat
  BY <1>3, <1>4, <1>5, FS_Subset, FS_CardinalityType
<1> QED
  BY <1>1, <1>3, <1>4, <1>5, <1>6

\* A word's votes for an entry it found are at least one.
LEMMA WeightIsSome ==
  ASSUME C!ConversationAssumption, SearchesFit, NEW s \in SpacesRead, NEW e, NEW t \in C!FoundBy(s, e)
  PROVE  C!Weight(s, t) \in 1..Votes
<1>1. t \in C_scope.terms /\ e \in C_hits[<<s, t>>].entries
  BY DEF C!FoundBy
<1> DEFINE n == Cardinality(C_hits[<<s, t>>].entries)
<1>2. n \in 0..Limit /\ IsFiniteSet(C_hits[<<s, t>>].entries)
  BY <1>1, EachHit
<1>3. n # 0
  BY <1>1, <1>2, FS_EmptySet
<1>4. n \in 1..Limit
  <2> HIDE DEF n
  <2> QED
    BY <1>2, <1>3 DEF C!ConversationAssumption
<1>5. \E w \in 1..Votes : n * w = Votes
  <2> HIDE DEF n
  <2> QED
    BY <1>4 DEF C!ConversationAssumption
<1>6. C!Weight(s, t) = CHOOSE w \in 1..Votes : n * w = Votes
  BY CountsAlike DEF C!Weight
<1> HIDE DEF n
<1> QED
  BY <1>5, <1>6

\* The words that found an entry are finitely many, and so are their votes; more words have more.
LEMMA VotesCount ==
  ASSUME C!ConversationAssumption, SearchesFit, NEW s \in SpacesRead, NEW d, NEW e
  PROVE  /\ C!FoundBy(s, e) \subseteq Nat /\ IsFiniteSet(C!FoundBy(s, e)) /\ C!Score(s, e) \in Nat
         /\ C!FoundBy(s, d) \subseteq C!FoundBy(s, e) /\ C!FoundBy(s, d) # C!FoundBy(s, e)
              => C!Score(s, d) < C!Score(s, e)
<1> DEFINE CastFor(x) == {v \in C!FoundBy(s, x) \X (1..Votes) : v[2] <= C!Weight(s, v[1])}
<1>1. ASSUME NEW x PROVE C!FoundBy(s, x) \subseteq Nat /\ IsFiniteSet(C!FoundBy(s, x))
  <2>1. C!FoundBy(s, x) \in SUBSET Terms /\ Terms \subseteq Nat /\ IsFiniteSet(Terms)
    BY CountsAlike DEF C!FoundBy, SearchesFit, C!ConversationAssumption
  <2> QED
    BY <2>1, FS_Subset
<1>2. ASSUME NEW x
      PROVE  IsFiniteSet(CastFor(x)) /\ C!Score(s, x) = Cardinality(CastFor(x)) /\ C!Score(s, x) \in Nat
  <2>1. IsFiniteSet(1..Votes)
    BY FS_Interval DEF C!ConversationAssumption
  <2>2. IsFiniteSet(C!FoundBy(s, x) \X (1..Votes))
    BY <1>1, <2>1, FS_Product
  <2>3. IsFiniteSet(CastFor(x))
    BY <2>2, FS_Subset
  <2>4. C!Score(s, x) = Cardinality(CastFor(x))
    BY CountsAlike DEF C!Score
  <2> QED
    BY <2>3, <2>4, FS_CardinalityType
<1>3. ASSUME C!FoundBy(s, d) \subseteq C!FoundBy(s, e), C!FoundBy(s, d) # C!FoundBy(s, e)
      PROVE  C!Score(s, d) < C!Score(s, e)
  <2>1. PICK t \in C!FoundBy(s, e) : t \notin C!FoundBy(s, d)
    BY <1>3
  <2>2. CastFor(d) \in SUBSET CastFor(e)
    BY <1>3
  <2>3. <<t, 1>> \in CastFor(e)
    <3>1. C!Weight(s, t) \in 1..Votes
      BY WeightIsSome
    <3>2. 1 \in 1..Votes /\ 1 <= C!Weight(s, t)
      BY <3>1 DEF C!ConversationAssumption
    <3> QED
      BY <3>2
  <2>4. <<t, 1>> \notin CastFor(d)
    BY <2>1
  <2>5. CastFor(d) # CastFor(e)
    BY <2>3, <2>4
  <2>6. IsFiniteSet(CastFor(e)) /\ C!Score(s, e) = Cardinality(CastFor(e)) /\ C!Score(s, e) \in Nat
    BY <1>2
  <2>7. C!Score(s, d) = Cardinality(CastFor(d)) /\ C!Score(s, d) \in Nat
    BY <1>2
  <2> HIDE DEF CastFor
  <2>8. Cardinality(CastFor(d)) <= Cardinality(CastFor(e)) /\ Cardinality(CastFor(d)) # Cardinality(CastFor(e))
    BY <2>2, <2>5, <2>6, FS_Subset
  <2> QED
    BY <2>6, <2>7, <2>8
<1> QED
  BY <1>1, <1>2, <1>3

\* Entries that some word found are ordered by their score.
LEMMA ScoresOrder ==
  ASSUME C!ConversationAssumption, SearchesFit, NEW s \in SpacesRead, NEW T \in SUBSET Entries,
         \A e \in T : C!FoundBy(s, e) # {}
  PROVE  Orders(C!ByScore(s), T)
<1> DEFINE First(e) == C!Min(C!FoundBy(s, e))
           Sc(e) == C!Score(s, e)
<1>1. \A e \in T : First(e) \in Nat /\ Sc(e) \in Nat /\ e \in Nat
  <2> SUFFICES ASSUME NEW e \in T PROVE First(e) \in Nat /\ Sc(e) \in Nat /\ e \in Nat
    OBVIOUS
  <2>1. C!FoundBy(s, e) \subseteq Nat /\ IsFiniteSet(C!FoundBy(s, e)) /\ Sc(e) \in Nat /\ C!FoundBy(s, e) # {}
    BY VotesCount
  <2>2. \E m \in C!FoundBy(s, e) : \A n \in C!FoundBy(s, e) : m <= n
    BY <2>1, LeastOfSome
  <2>3. First(e) \in C!FoundBy(s, e)
    BY <2>2 DEF C!Min
  <2> QED
    BY <2>1, <2>3 DEF C!ConversationAssumption
<1>2. \A d, e \in T : <<d, e>> \in C!ByScore(s) <=>
        \/ Sc(d) > Sc(e)
        \/ Sc(d) = Sc(e) /\ (First(d) < First(e) \/ (First(d) = First(e) /\ d < e))
  BY DEF C!ByScore
<1> HIDE DEF First, Sc
<1> QED
  BY <1>1, <1>2 DEF Orders

-----------------------------------------------------------------------------
\* What the turn owes of a space's findings: they are of that space; each entry that was
\* there is among them, unless there are as many as may be; and no entry is left out for
\* one that fewer of the same words found.
Complete(s, G) ==
  \A t \in C_scope.terms : \A e \in C_steady \cap Matches[t] :
    C_memory[e] = s => e \in G \/ Cardinality(G) = Limit
Fairly(s, G) ==
  \A e \in G, d \in Entries \ G :
    ~(C!FoundBy(s, e) \subseteq C!FoundBy(s, d) /\ C!FoundBy(s, e) # C!FoundBy(s, d))
AllWentWell(s) == \A t \in C_scope.terms : C_hits[<<s, t>>].ok

LEMMA UnionIsRanked ==
  ASSUME C!ConversationAssumption, SearchesFit, NEW s \in SpacesRead
  PROVE  LET G == C!RankUnion(s) IN
         /\ G \subseteq Entries /\ IsFiniteSet(G) /\ Cardinality(G) <= Limit
         /\ \A e \in G : C_memory[e] = s /\ C!FoundBy(s, e) # {}
         /\ AllWentWell(s) => Complete(s, G)
         /\ Fairly(s, G)
<1> DEFINE T == {e \in Entries : C!FoundBy(s, e) # {}}
           G == C!RankUnion(s)
<1>1. T \in SUBSET Entries /\ IsFiniteSet(T) /\ Limit \in Nat /\ Cardinality(T) \in Nat
  BY FS_Subset, FS_CardinalityType, CountsAlike DEF C!ConversationAssumption
<1>2. Orders(C!ByScore(s), T)
  BY <1>1, ScoresOrder
<1>3. G = C!Best(T, C!ByScore(s), Limit)
  BY DEF C!RankUnion
<1>4. \A e \in T : e \in Entries /\ C!FoundBy(s, e) # {} /\ C_memory[e] = s
  <2> SUFFICES ASSUME NEW e \in T PROVE C_memory[e] = s
    OBVIOUS
  <2>1. PICK t \in C!FoundBy(s, e) : TRUE
    OBVIOUS
  <2>2. t \in C_scope.terms /\ e \in C_hits[<<s, t>>].entries
    BY DEF C!FoundBy
  <2> QED
    BY <2>2, EachHit
<1>5. \A e \in Entries, t \in C_scope.terms : e \in C_hits[<<s, t>>].entries => e \in T
  BY DEF C!FoundBy
<1> HIDE DEF T, G
<1>6. /\ G \in SUBSET T /\ IsFiniteSet(G)
      /\ Limit <= Cardinality(T) => Cardinality(G) = Limit
      /\ Cardinality(T) <= Limit => G = T
      /\ \A e \in G, d \in T : <<d, e>> \in C!ByScore(s) => d \in G
  BY <1>1, <1>2, <1>3, BestAreFirst
<1>7. Cardinality(G) <= Limit
  BY <1>1, <1>6
<1>8. ASSUME AllWentWell(s) PROVE Complete(s, G)
  <2> SUFFICES ASSUME NEW t \in C_scope.terms, NEW e \in C_steady \cap Matches[t], C_memory[e] = s
               PROVE  e \in G \/ Cardinality(G) = Limit
    BY DEF Complete
  <2> DEFINE H == C_hits[<<s, t>>].entries
  <2>1. H \subseteq Entries /\ IsFiniteSet(H) /\ (e \in H \/ Cardinality(H) = Limit)
    BY <1>8, EachHit DEF AllWentWell
  <2>2. H \in SUBSET T /\ e \in Entries
    BY <1>5, <2>1 DEF SearchesFit
  <2>3. CASE Cardinality(H) = Limit
    <3>1. Cardinality(H) <= Cardinality(T)
      BY <1>1, <2>2, FS_Subset
    <3> QED
      BY <1>6, <2>3, <3>1
  <2>4. CASE e \in H
    <3>1. e \in T
      BY <2>2, <2>4
    <3> QED
      BY <1>1, <1>6, <3>1
  <2> QED
    BY <2>1, <2>3, <2>4
<1>9. Fairly(s, G)
  <2> SUFFICES ASSUME NEW e \in G, NEW d \in Entries \ G,
                      C!FoundBy(s, e) \subseteq C!FoundBy(s, d), C!FoundBy(s, e) # C!FoundBy(s, d)
               PROVE  FALSE
    BY DEF Fairly
  <2>1. C!Score(s, e) < C!Score(s, d) /\ C!Score(s, e) \in Nat /\ C!Score(s, d) \in Nat
    BY VotesCount
  <2>2. e \in Entries
    BY <1>4, <1>6
  <2>3. <<d, e>> \in C!ByScore(s)
    BY <2>1, <2>2 DEF C!ByScore
  <2>4. d \in T
    BY DEF T
  <2> QED
    BY <1>6, <2>3, <2>4
<1> QED
  <2>1. \A e \in G : C_memory[e] = s /\ C!FoundBy(s, e) # {}
    BY <1>4, <1>6
  <2>2. G \subseteq Entries
    BY <1>1, <1>6
  <2> QED
    BY <1>6, <1>7, <1>8, <1>9, <2>1, <2>2 DEF G

\* The same of a section of the prompt, which is a space's findings cut short.
SectionFits(s, section) ==
  /\ section \in C!Sections /\ section.has
  /\ \A e \in section.entries : C_memory[e] = s
  /\ section.entries \subseteq C!SearchSpace(s).entries
  /\ IsFiniteSet(section.entries) /\ Cardinality(section.entries) <= Limit
  /\ ~section.err => /\ AllWentWell(s)
                     /\ section.dropped > 0 \/ Complete(s, section.entries)
                     /\ Fairly(s, section.entries)

LEMMA SpaceIsSearched ==
  ASSUME C!ConversationAssumption, SearchesFit, NEW s \in SpacesRead
  PROVE  LET section == C!SearchSpace(s) IN
         /\ section \in C!Sections /\ section.has /\ section.dropped = 0
         /\ IsFiniteSet(section.entries) /\ Cardinality(section.entries) \in 0..Limit
         /\ \A e \in section.entries : C_memory[e] = s /\ C!FoundBy(s, e) # {}
         /\ ~section.err => AllWentWell(s) /\ Complete(s, section.entries) /\ Fairly(s, section.entries)
<1>1. CASE ~AllWentWell(s)
  <2>1. C!SearchSpace(s) = [C!Unread EXCEPT !.has = TRUE, !.err = TRUE]
    BY <1>1 DEF C!SearchSpace, AllWentWell
  <2>2. /\ C!SearchSpace(s) \in C!Sections /\ C!SearchSpace(s).has /\ C!SearchSpace(s).err
        /\ C!SearchSpace(s).dropped = 0 /\ C!SearchSpace(s).entries = {}
    <3> DEFINE K == [has |-> TRUE, entries |-> {}, err |-> TRUE, dropped |-> 0]
    <3>1. C!SearchSpace(s) = K
      BY <2>1 DEF C!Unread
    <3>2. K \in C!Sections /\ K.has /\ K.err /\ K.dropped = 0 /\ K.entries = {}
      BY DEF C!Sections
    <3> HIDE DEF K
    <3> QED
      BY <3>1, <3>2
  <2> QED
    BY <2>2, FS_EmptySet DEF C!ConversationAssumption
<1>2. CASE AllWentWell(s)
  <2>1. C!SearchSpace(s) = [C!Unread EXCEPT !.has = TRUE, !.entries = C!RankUnion(s)]
    BY <1>2 DEF C!SearchSpace, AllWentWell
  <2>2. C!RankUnion(s) \subseteq Entries
    BY UnionIsRanked
  <2>3. /\ C!SearchSpace(s) \in C!Sections /\ C!SearchSpace(s).has /\ ~C!SearchSpace(s).err
        /\ C!SearchSpace(s).dropped = 0 /\ C!SearchSpace(s).entries = C!RankUnion(s)
    <3> DEFINE K == [has |-> TRUE, entries |-> C!RankUnion(s), err |-> FALSE, dropped |-> 0]
    <3>1. C!SearchSpace(s) = K
      BY <2>1 DEF C!Unread
    <3>2. K \in C!Sections /\ K.has /\ ~K.err /\ K.dropped = 0 /\ K.entries = C!RankUnion(s)
      BY <2>2 DEF C!Sections
    <3> HIDE DEF K
    <3> QED
      BY <3>1, <3>2
  <2>4. Cardinality(C!RankUnion(s)) \in 0..Limit
    BY UnionIsRanked, FS_CardinalityType DEF C!ConversationAssumption
  <2> QED
    BY <1>2, <2>3, <2>4, UnionIsRanked
<1> QED
  BY <1>1, <1>2

LEMMA CutFits ==
  ASSUME C!ConversationAssumption, SearchesFit, NEW s \in SpacesRead,
         NEW n \in 0..Cardinality(C!SearchSpace(s).entries)
  PROVE  LET section == C!Cut(C!SearchSpace(s), s, n) IN
         /\ SectionFits(s, section) /\ section.err = C!SearchSpace(s).err
         /\ Cardinality(section.entries) = n
         /\ section.dropped = Cardinality(C!SearchSpace(s).entries) - n
<1> DEFINE W == C!SearchSpace(s)
           p == Cardinality(W.entries)
           G == C!Best(W.entries, C!ByScore(s), n)
<1>1. /\ W \in C!Sections /\ W.has /\ W.dropped = 0
      /\ IsFiniteSet(W.entries) /\ p \in 0..Limit
      /\ \A e \in W.entries : C_memory[e] = s /\ C!FoundBy(s, e) # {}
      /\ ~W.err => AllWentWell(s) /\ Complete(s, W.entries) /\ Fairly(s, W.entries)
  BY SpaceIsSearched
<1>2. C!Cut(W, s, n) = [W EXCEPT !.entries = G, !.dropped = p - n]
  BY CountsAlike DEF C!Cut
<1> HIDE DEF W
<1>3. W.entries \in SUBSET Entries /\ W.err \in BOOLEAN /\ W = [has |-> W.has, entries |-> W.entries, err |-> W.err, dropped |-> W.dropped]
  BY <1>1 DEF C!Sections
<1>4. n \in Nat /\ n <= p /\ p \in Nat
  BY <1>1 DEF C!ConversationAssumption, W
<1>5. Orders(C!ByScore(s), W.entries)
  BY <1>1, <1>3, ScoresOrder
<1>6. /\ G \in SUBSET W.entries /\ IsFiniteSet(G) /\ Cardinality(G) = n
      /\ p <= n => G = W.entries
      /\ \A e \in G, d \in W.entries : <<d, e>> \in C!ByScore(s) => d \in G
  BY <1>1, <1>4, <1>5, BestAreFirst
<1> DEFINE K == [has |-> TRUE, entries |-> G, err |-> W.err, dropped |-> p - n]
<1>7. C!Cut(W, s, n) = K
  BY <1>1, <1>2, <1>3
<1>8. Fairly(s, W.entries) => Fairly(s, G)
  <2> SUFFICES ASSUME Fairly(s, W.entries), NEW e \in G, NEW d \in Entries \ G,
                      C!FoundBy(s, e) \subseteq C!FoundBy(s, d), C!FoundBy(s, e) # C!FoundBy(s, d)
               PROVE  FALSE
    BY DEF Fairly
  <2>1. e \in W.entries /\ e \in Entries
    BY <1>3, <1>6
  <2>2. d \in W.entries
    BY <2>1 DEF Fairly
  <2>3. C!Score(s, e) < C!Score(s, d) /\ C!Score(s, e) \in Nat /\ C!Score(s, d) \in Nat
    BY VotesCount
  <2>4. <<d, e>> \in C!ByScore(s)
    BY <2>1, <2>3 DEF C!ByScore
  <2> QED
    BY <1>6, <2>2, <2>4
<1>9. p - n > 0 \/ G = W.entries
  BY <1>4, <1>6
<1> HIDE DEF G, p
<1>10. SectionFits(s, K)
  <2>1. K \in C!Sections /\ K.has /\ K.entries = G /\ K.dropped = p - n /\ K.err = W.err
    BY <1>3, <1>4, <1>6 DEF C!Sections
  <2>2. Cardinality(G) <= Limit /\ G \subseteq W.entries
    BY <1>1, <1>4, <1>6 DEF C!ConversationAssumption
  <2>3. ~W.err => p - n > 0 \/ Complete(s, G)
    BY <1>1, <1>9
  <2> HIDE DEF K
  <2> QED
    BY <1>1, <1>6, <1>8, <2>1, <2>2, <2>3 DEF SectionFits, W
<1> QED
  BY <1>6, <1>7, <1>10 DEF W, p

-----------------------------------------------------------------------------
\* A scope is a member's own, or reads the household's space only.
OwnScope(m) ==
  /\ m \in Members /\ C_scope.kind = "direct" /\ C_scope.write = m /\ C_audience = {m}
  /\ C_scope.read[1] = m /\ C!Last(C_scope.read) = C!House /\ SpacesRead = {m, C!House}
SharedScope ==
  /\ C_scope.kind \in {"household", "group"} /\ C_scope.write = C!House
  /\ C!Last(C_scope.read) = C!House /\ SpacesRead = {C!House}

LEMMA ScopeIsOneOf ==
  ASSUME C!ScopeFits, C_scope # Nil
  PROVE  C_scope.terms \subseteq Terms /\ ((\E m \in Members : OwnScope(m)) \/ SharedScope)
<1>1. ASSUME NEW m, C_scope = [C!DirectScope(m) EXCEPT !.terms = C_scope.terms]
      PROVE  /\ C_scope.kind = "direct" /\ C_scope.write = m /\ C_scope.read = <<m, C!House>>
  BY <1>1 DEF C!DirectScope, C!Scope
<1>2. ASSUME NEW m, NEW r, r = <<m, C!House>>
      PROVE  r[1] = m /\ C!Last(r) = C!House /\ C!ToSet(r) = {m, C!House}
  BY <1>2 DEF C!Last, C!ToSet
<1>3. ASSUME NEW r, r = <<C!House>>
      PROVE  C!Last(r) = C!House /\ C!ToSet(r) = {C!House}
  BY <1>3 DEF C!Last, C!ToSet
<1>4. ASSUME NEW m, C_scope = [C!HouseholdScope(m) EXCEPT !.terms = C_scope.terms]
      PROVE  /\ C_scope.kind = "household" /\ C_scope.write = C!House /\ C_scope.read = <<C!House>>
  BY <1>4 DEF C!HouseholdScope, C!Scope
<1>5. ASSUME C_scope = [C!GroupScope EXCEPT !.terms = C_scope.terms]
      PROVE  /\ C_scope.kind = "group" /\ C_scope.write = C!House /\ C_scope.read = <<C!House>>
  BY <1>5 DEF C!GroupScope, C!Scope
<1>6. ASSUME NEW m \in Members, C_scope = [C!DirectScope(m) EXCEPT !.terms = C_scope.terms], C_audience = {m}
      PROVE  OwnScope(m)
  BY <1>1, <1>2, <1>6 DEF OwnScope, SpacesRead
<1>7. ASSUME C_scope.kind \in {"household", "group"}, C_scope.write = C!House, C_scope.read = <<C!House>>
      PROVE  SharedScope
  BY <1>3, <1>7 DEF SharedScope, SpacesRead
<1> QED
  BY <1>4, <1>5, <1>6, <1>7 DEF C!ScopeFits

\* The turn has shown and said nothing: what it owes holds.
LEMMA BeforeTheTurn ==
  ASSUME C!ConversationAssumption, C_prompt = C!Blank, C_told = C!Silence
  PROVE  /\ C_prompt \in [private : C!Sections, shared : C!Sections, history : Nat, says : C!Texts \cup {Nil}]
         /\ C_told \in [parts : SUBSET C!Parts, line : SUBSET C!Lines, publish : Entries \cup {Nil}, proposed : BOOLEAN]
         /\ C!Cardinality(C_prompt.private.entries) <= Limit /\ C!Cardinality(C_prompt.shared.entries) <= Limit
         /\ C!ShownIsTheirs /\ C!NothingOverlooked /\ C!DisclosedTruly /\ C!RanksByWords /\ C!TrimsInOrder
         /\ C!LineIsTrue
<1>1. /\ C_prompt = [private |-> C!Unread, shared |-> C!Unread, history |-> 0, says |-> Nil]
      /\ C!Unread = [has |-> FALSE, entries |-> {}, err |-> FALSE, dropped |-> 0]
      /\ C_told = [parts |-> {}, line |-> {}, publish |-> Nil, proposed |-> FALSE]
  BY DEF C!Blank, C!Unread, C!Silence
<1>2. /\ C_prompt.private = C!Unread /\ C_prompt.shared = C!Unread /\ C_prompt.history = 0 /\ C_prompt.says = Nil
      /\ C_prompt["private"] = C!Unread /\ C_prompt["shared"] = C!Unread
  BY <1>1
<1>3. C!Unread \in C!Sections /\ ~C!Unread.has /\ C!Unread.entries = {} /\ C!Unread.dropped = 0
  BY <1>1 DEF C!Sections
<1>4. C!ReadKinds = {}
  BY <1>2, <1>3 DEF C!ReadKinds
<1>5. C_told.line = {} /\ C_told.publish = Nil
  BY <1>1
<1>6. C!Cardinality({}) <= Limit
  BY FS_EmptySet, CountsAlike DEF C!ConversationAssumption
<1>7. C_prompt \in [private : C!Sections, shared : C!Sections, history : Nat, says : C!Texts \cup {Nil}]
  <2>1. Nil \in C!Texts \cup {Nil} /\ 0 \in Nat
    OBVIOUS
  <2> HIDE DEF C_prompt
  <2> QED
    BY ONLY <1>1, <1>3, <2>1
<1>8. C_told \in [parts : SUBSET C!Parts, line : SUBSET C!Lines, publish : Entries \cup {Nil}, proposed : BOOLEAN]
  BY <1>1
<1>9. C!ShownIsTheirs
  BY <1>2, <1>3, <1>5 DEF C!ShownIsTheirs, C!Shown
<1>10. C!NothingOverlooked /\ C!RanksByWords
  BY <1>4 DEF C!NothingOverlooked, C!RanksByWords
<1>11. C!DisclosedTruly
  BY <1>2 DEF C!DisclosedTruly
<1>12. C!TrimsInOrder
  BY <1>2, <1>3 DEF C!TrimsInOrder
<1>13. C!LineIsTrue
  BY <1>5 DEF C!LineIsTrue
<1> QED
  BY <1>2, <1>3, <1>6, <1>7, <1>8, <1>9, <1>10, <1>11, <1>12, <1>13

LEMMA ConversationInit == ASSUME C!ConversationAssumption, C!Init PROVE C!ConversationInv
<1>1. /\ C_home \in C!Homes /\ C_inbound \in C!Inbounds /\ C_stage = "received" /\ C_scope = Nil
      /\ C_prompt = C!Blank /\ C_told = C!Silence /\ C_events = 0 /\ C_audience = {}
      /\ C_present = Entries /\ C_steady = Entries /\ C_hits = <<>>
  BY DEF C!Init
<1>2. C_memory \in [Entries -> C!Spaces]
  <2>1. PICK m \in Members, B \in Shelves : C_memory = [e \in Entries |-> IF e \in B THEN C!House ELSE m]
    BY DEF C!Init
  <2> QED
    BY <2>1 DEF C!Spaces
<1>3. C!TypeOK
  BY <1>1, <1>2, BeforeTheTurn DEF C!TypeOK, C!Stages, C!ConversationAssumption
<1>4. C!ScopeFits /\ C!FoundFits /\ C!StageFits /\ ~C!Shows
  BY <1>1 DEF C!ScopeFits, C!FoundFits, C!StageFits, C!Shows
<1> QED
  BY <1>3, <1>4 DEF C!ConversationInv

\* What the turn owes at every moment follows.
LEMMA TheTurnIsTrue ==
  ASSUME C!ConversationAssumption, C!ConversationInv
  PROVE  C!ShownIsTheirs /\ C!ToldTruly
<1>1. CASE C!Shows
  BY <1>1 DEF C!ConversationInv
<1>2. CASE ~C!Shows
  <2>1. C_prompt = C!Blank /\ C_told = C!Silence /\ (C_stage = "over" => C_scope = Nil)
    BY <1>2 DEF C!ConversationInv, C!StageFits, C!Shows
  <2>2. C!Answers
    BY <2>1 DEF C!Answers
  <2> QED
    BY <2>1, <2>2, BeforeTheTurn DEF C!ToldTruly
<1> QED
  BY <1>1, <1>2

\* The message is resolved: only a member alone with their assistant gets a scope of their own.
LEMMA ReceiveFits ==
  ASSUME C!ConversationAssumption, C!ConversationInv, C!Receive
  PROVE  C!ConversationInv'
<1> DEFINE sc == C!Resolve(C_home, C_inbound)
           T == C_scope'.terms
<1>1. /\ C_stage = "received" /\ C_home \in C!Homes /\ C_inbound \in C!Inbounds
      /\ C!TypeOK /\ C_prompt = C!Blank /\ C_told = C!Silence
  BY DEF C!ConversationInv, C!StageFits, C!Receive, C!Shows
<1>2. /\ C_home' = Nil /\ C_inbound' = Nil
      /\ C_memory' = C_memory /\ C_present' = C_present /\ C_steady' = C_steady
      /\ C_hits' = C_hits /\ C_prompt' = C_prompt /\ C_told' = C_told /\ C_events' = C_events
      /\ C_audience' = IF C_inbound.isGroup THEN Members ELSE {C_inbound.from} \cap Members
  BY DEF C!Receive, C!memoryVars
<1>3. C_hits' = <<>>
  BY <1>1, <1>2 DEF C!ConversationInv, C!StageFits
<1>4. \/ C_stage' = "over" /\ C_scope' = Nil
      \/ /\ C_stage' = "searching" /\ sc # Nil
         /\ \E U \in SUBSET Terms : C_scope' = [sc EXCEPT !.terms = U]
  <2>1. CASE sc = Nil
    BY <1>1, <2>1 DEF C!Receive, C!ConversationInv, C!StageFits
  <2>2. CASE sc # Nil
    BY <2>2 DEF C!Receive, C!Searched
  <2> QED
    BY <2>1, <2>2
<1>5. sc # Nil => \A U \in SUBSET Terms : [sc EXCEPT !.terms = U] \in C!Scopes
  <2>1. \A m \in Members, U \in SUBSET Terms : [C!DirectScope(m) EXCEPT !.terms = U] \in C!Scopes
    BY DEF C!DirectScope, C!Scope, C!Scopes, C!Kinds, C!Spaces
  <2>2. \A m \in Members, U \in SUBSET Terms : [C!HouseholdScope(m) EXCEPT !.terms = U] \in C!Scopes
    BY DEF C!HouseholdScope, C!Scope, C!Scopes, C!Kinds, C!Spaces
  <2>3. \A U \in SUBSET Terms : [C!GroupScope EXCEPT !.terms = U] \in C!Scopes
    BY DEF C!GroupScope, C!Scope, C!Scopes, C!Kinds, C!Spaces
  <2>4. C_inbound.from \in Members \cup {Nil}
    BY <1>1 DEF C!Inbounds
  <2> QED
    BY <2>1, <2>2, <2>3, <2>4 DEF C!Resolve
<1>6. C!TypeOK'
  <2>3. C_scope' \in C!Scopes \cup {Nil}
    BY <1>4, <1>5
  <2>1. C_audience' \subseteq Members
    BY <1>2
  <2>2. C_stage' \in C!Stages
    BY <1>4 DEF C!Stages
  <2> QED
    BY <1>1, <1>2, <2>1, <2>2, <2>3 DEF C!TypeOK
<1>7. C_scope' # Nil => C_stage' = "searching"
  BY <1>4
<1>8. C!ScopeFits'
  <2> SUFFICES ASSUME C_scope' # Nil PROVE C!ScopeFits'
    BY DEF C!ScopeFits
  <2>1. PICK U \in SUBSET Terms : sc # Nil /\ C_scope' = [sc EXCEPT !.terms = U]
    BY <1>4
  <2>2. \/ sc = C!GroupScope
        \/ \E m \in Members : \/ sc = C!HouseholdScope(m)
                              \/ sc = C!DirectScope(m) /\ C_inbound.from = m /\ ~C_inbound.isGroup
    <3>1. C_inbound.from \in Members \cup {Nil}
      BY <1>1 DEF C!Inbounds
    <3> QED
      BY <2>1, <3>1 DEF C!Resolve
  <2>3. /\ C!GroupScope.terms = {} /\ DOMAIN C!GroupScope = {"kind", "member", "write", "read", "terms"}
        /\ \A m : /\ C!HouseholdScope(m).terms = {} /\ C!DirectScope(m).terms = {}
    BY DEF C!GroupScope, C!HouseholdScope, C!DirectScope, C!Scope
  <2>4. ASSUME sc = C!GroupScope PROVE C_scope' = [C!GroupScope EXCEPT !.terms = C_scope'.terms] /\ C_scope'.terms = U
    BY <2>1, <2>4 DEF C!GroupScope, C!Scope
  <2>5. ASSUME NEW m \in Members, sc = C!HouseholdScope(m)
        PROVE  C_scope' = [C!HouseholdScope(m) EXCEPT !.terms = C_scope'.terms] /\ C_scope'.terms = U
    BY <2>1, <2>5 DEF C!HouseholdScope, C!Scope
  <2>6. ASSUME NEW m \in Members, sc = C!DirectScope(m)
        PROVE  C_scope' = [C!DirectScope(m) EXCEPT !.terms = C_scope'.terms] /\ C_scope'.terms = U
    BY <2>1, <2>6 DEF C!DirectScope, C!Scope
  <2> HIDE DEF sc
  <2>7. CASE sc = C!GroupScope
    BY <2>1, <2>4, <2>7 DEF C!ScopeFits
  <2>8. ASSUME NEW m \in Members, sc = C!HouseholdScope(m) PROVE C!ScopeFits'
    BY <2>1, <2>5, <2>8 DEF C!ScopeFits
  <2>9. ASSUME NEW m \in Members, sc = C!DirectScope(m), C_inbound.from = m, ~C_inbound.isGroup PROVE C!ScopeFits'
    <3>1. C_audience' = {m}
      BY <1>2, <2>9
    <3> QED
      BY <2>1, <2>6, <2>9, <3>1 DEF C!ScopeFits
  <2> QED
    BY <2>2, <2>7, <2>8, <2>9
<1>9. C!FoundFits'
  BY <1>3, <1>4 DEF C!FoundFits
<1>10. C!StageFits' /\ ~C!Shows'
  <2>1. ~C!Shows'
    BY <1>4 DEF C!Shows
  <2>2. C_stage' # "received" /\ C_stage' # "proposing" /\ C_prompt' = C!Blank /\ C_told' = C!Silence
    BY <1>1, <1>2, <1>4
  <2>3. C_stage' \notin {"received", "over"} => C_scope' # Nil
    BY <1>4, <1>5 DEF C!ConversationAssumption
  <2> QED
    BY <2>1, <2>2, <2>3 DEF C!StageFits
<1> QED
  BY <1>6, <1>8, <1>9, <1>10 DEF C!ConversationInv

\* While the spaces are searched nothing of the turn but its results changes.
LEMMA SearchingStays ==
  ASSUME C!ConversationInv, C_stage = "searching", UNCHANGED <<C!resolved, C_memory, C_prompt, C_told, C_stage>>,
         C_steady' \subseteq C_present', C_present' \subseteq Entries, C_events' \in 0..MaxFaults
  PROVE  C!TypeOK' /\ C!ScopeFits' /\ C!StageFits' /\ ~C!Shows'
<1>1. /\ C_home' = C_home /\ C_inbound' = C_inbound /\ C_scope' = C_scope /\ C_audience' = C_audience
      /\ C_memory' = C_memory /\ C_prompt' = C_prompt /\ C_told' = C_told /\ C_stage' = C_stage
  BY DEF C!resolved
<1>2. C!TypeOK'
  BY <1>1 DEF C!ConversationInv, C!TypeOK
<1>3. C!ScopeFits'
  BY <1>1 DEF C!ConversationInv, C!ScopeFits
<1>4. C!StageFits' /\ ~C!Shows'
  <2>1. C!StageFits /\ ~C!Shows
    BY DEF C!ConversationInv, C!Shows
  <2>2. ~C!Shows'
    BY <1>1 DEF C!Shows
  <2> QED
    BY <1>1, <2>1, <2>2 DEF C!StageFits
<1> QED
  BY <1>2, <1>3, <1>4

LEMMA SearchFits ==
  ASSUME C!ConversationAssumption, C!ConversationInv, NEW q \in C!Spaces \X Terms, C!Search(q)
  PROVE  C!ConversationInv'
<1>1. /\ C_stage = "searching" /\ q \in C!Queries \ DOMAIN C_hits
      /\ UNCHANGED <<C!resolved, C!memoryVars, C_prompt, C_told, C_stage>>
      /\ C_events' = C_events \/ (C_events < MaxFaults /\ C_events' = C_events + 1)
  BY DEF C!Search
<1>2. /\ C_scope' = C_scope /\ C_memory' = C_memory /\ C_present' = C_present /\ C_steady' = C_steady
      /\ C_stage' = "searching"
  BY <1>1 DEF C!resolved, C!memoryVars
<1>3. C!TypeOK' /\ C!ScopeFits' /\ C!StageFits' /\ ~C!Shows'
  <2>1. C!TypeOK
    BY DEF C!ConversationInv
  <2>2. C_events' \in 0..MaxFaults
    BY <1>1, <2>1 DEF C!TypeOK, C!ConversationAssumption
  <2> QED
    BY <1>1, <1>2, <2>1, <2>2, SearchingStays DEF C!TypeOK, C!memoryVars
<1>4. PICK hit : /\ C_hits' = [p \in DOMAIN C_hits \cup {q} |-> IF p = q THEN hit ELSE C_hits[p]]
                 /\ \/ hit = [ok |-> TRUE, entries |-> C!Found(q[1], q[2])]
                    \/ hit = C!Failed
  BY DEF C!Search, C!With
<1>5. /\ DOMAIN C_hits' = DOMAIN C_hits \cup {q}
      /\ C_hits'[q] = hit /\ \A p \in DOMAIN C_hits : C_hits'[p] = C_hits[p]
  BY <1>1, <1>4
<1>6. C!Queries' = C!Queries
  BY <1>2 DEF C!Queries
<1>7. \A p : C!IsIn(p[1], p[2])' = C!IsIn(p[1], p[2])
  BY <1>2 DEF C!IsIn
<1>8. C!FoundFits
  BY DEF C!ConversationInv
<1>9. \A p \in DOMAIN C_hits : C!HitFits(p)'
  <2>1. \A p \in DOMAIN C_hits : C!HitFits(p)
    BY <1>1, <1>8 DEF C!FoundFits
  <2> QED
    BY <1>2, <1>5, <1>7, <2>1, CountsAlike DEF C!HitFits
<1>10. C!HitFits(q)'
  <2>1. hit.ok \in BOOLEAN /\ hit.entries \subseteq C!IsIn(q[1], q[2]) /\ Cardinality(hit.entries) <= Limit
        /\ (hit.ok => C_steady \cap C!IsIn(q[1], q[2]) \subseteq hit.entries \/ Cardinality(hit.entries) = Limit)
    <3>1. CASE hit = C!Failed
      <4>1. hit.ok = FALSE /\ hit.entries = {}
        BY <3>1 DEF C!Failed
      <4> QED
        <5>1. Cardinality({}) <= Limit
          BY FS_EmptySet DEF C!ConversationAssumption
        <5> QED
          BY <4>1, <5>1
    <3>2. CASE hit = [ok |-> TRUE, entries |-> C!Found(q[1], q[2])]
      <4>1. C_present \subseteq Entries /\ C_steady \subseteq C_present
        BY DEF C!ConversationInv, C!TypeOK
      <4>2. q[2] \in Terms
        OBVIOUS
      <4>3. hit.ok = TRUE /\ hit.entries = C!Found(q[1], q[2])
        BY <3>2
      <4>4. /\ hit.entries \subseteq {e \in C_present \cap Matches[q[2]] : C_memory[e] = q[1]}
            /\ Cardinality(hit.entries) <= Limit
            /\ \/ {e \in C_present \cap Matches[q[2]] : C_memory[e] = q[1]} \subseteq hit.entries
               \/ Cardinality(hit.entries) = Limit
        BY <4>1, <4>2, <4>3, FoundIsThere
      <4> QED
        BY <4>1, <4>3, <4>4 DEF C!IsIn
    <3> QED
      BY <1>4, <3>1, <3>2
  <2> QED
    BY <1>2, <1>5, <1>7, <2>1, CountsAlike DEF C!HitFits
<1>11. C!FoundFits'
  <2>1. DOMAIN C_hits' \subseteq C!Queries'
    BY <1>1, <1>5, <1>6, <1>8 DEF C!FoundFits
  <2>2. \A p \in DOMAIN C_hits' : C!HitFits(p)'
    BY <1>5, <1>9, <1>10
  <2> QED
    BY <1>2, <2>1, <2>2 DEF C!FoundFits
<1> QED
  BY <1>3, <1>11 DEF C!ConversationInv

LEMMA MeanwhileFits ==
  ASSUME C!ConversationAssumption, C!ConversationInv, NEW e \in Entries, C!Meanwhile(e)
  PROVE  C!ConversationInv'
<1>1. /\ C_stage = "searching" /\ C_events < MaxFaults /\ C_events' = C_events + 1
      /\ C_present' = IF e \in C_present THEN C_present \ {e} ELSE C_present \cup {e}
      /\ C_steady' = C_steady \ {e} /\ C_hits' = C_hits
      /\ UNCHANGED <<C!resolved, C_memory, C_prompt, C_told, C_stage>>
  BY DEF C!Meanwhile
<1>2. C_scope' = C_scope /\ C_memory' = C_memory /\ C_stage' = "searching"
  BY <1>1 DEF C!resolved
<1>3. C!TypeOK' /\ C!ScopeFits' /\ C!StageFits' /\ ~C!Shows'
  <2>1. C!TypeOK
    BY DEF C!ConversationInv
  <2>2. C_events' \in 0..MaxFaults
    BY <1>1, <2>1 DEF C!TypeOK, C!ConversationAssumption
  <2>3. C_steady' \subseteq C_present' /\ C_present' \subseteq Entries
    BY <1>1, <2>1 DEF C!TypeOK
  <2> QED
    BY <1>1, <2>2, <2>3, SearchingStays
<1>4. C!Queries' = C!Queries
  BY <1>2 DEF C!Queries
<1>5. \A p : C!IsIn(p[1], p[2])' = C!IsIn(p[1], p[2])
  BY <1>2 DEF C!IsIn
<1>6. C!FoundFits'
  <2>1. DOMAIN C_hits \subseteq C!Queries /\ \A p \in DOMAIN C_hits : C!HitFits(p)
    BY <1>1 DEF C!ConversationInv, C!FoundFits
  <2>2. \A p \in DOMAIN C_hits : C!HitFits(p)'
    BY <1>1, <1>5, <2>1, CountsAlike DEF C!HitFits
  <2> QED
    BY <1>1, <1>2, <1>4, <2>1, <2>2 DEF C!FoundFits
<1> QED
  BY <1>3, <1>6 DEF C!ConversationInv

-----------------------------------------------------------------------------
\* What was found is the same as long as the results are.
LEMMA SameFindings ==
  ASSUME C_hits' = C_hits, C_scope' = C_scope
  PROVE  /\ \A s, e : C!FoundBy(s, e)' = C!FoundBy(s, e)
         /\ \A s : C!SearchSpace(s)' = C!SearchSpace(s)
<1>1. \A s, e : C!FoundBy(s, e)' = C!FoundBy(s, e)
  BY DEF C!FoundBy
<1>2. \A s, t : C!Weight(s, t)' = C!Weight(s, t)
  BY DEF C!Weight
<1>3. \A s, e : C!Score(s, e)' = C!Score(s, e)
  BY <1>1, <1>2 DEF C!Score
<1>4. \A s : C!ByScore(s)' = C!ByScore(s)
  BY <1>1, <1>3 DEF C!ByScore
<1>5. \A s : {e \in Entries : C!FoundBy(s, e)' # {}} = {e \in Entries : C!FoundBy(s, e) # {}}
  BY <1>1
<1>6. \A s : C!RankUnion(s)' = C!RankUnion(s)
  BY <1>4, <1>5 DEF C!RankUnion
<1>7. \A s : C!SearchSpace(s)' = C!SearchSpace(s)
  BY <1>6 DEF C!SearchSpace
<1> QED
  BY <1>1, <1>7

\* What the prompt is made of, whatever the room: a section of each space the scope reads,
\* cut in the order in which they give way.
Made(own, shared, h) ==
  /\ C_prompt' = [private |-> own, shared |-> shared, history |-> h, says |-> C!Disclosures(C_scope.kind)]
  /\ SectionFits(C!House, shared)
  /\ \/ \E m \in Members : OwnScope(m) /\ SectionFits(m, own)
     \/ SharedScope /\ own = C!Unread
  /\ h \in Nat /\ (h > 0 => own.dropped = 0 /\ shared.dropped = 0)
  /\ own.dropped > 0 => shared.entries = {}

LEMMA PromptIsMade ==
  ASSUME C!ConversationAssumption, SearchesFit, C!ScopeFits, C_scope # Nil,
         NEW turns \in 0..1, NEW room \in 0..MaxRoom, C_prompt' = C!Trimmed(C!PromptInput, turns, room)
  PROVE  \E own, shared, h : Made(own, shared, h)
<1> DEFINE H == C!SearchSpace(C!House)
           s == Cardinality(H.entries)
<1>1. turns \in Nat /\ room \in Nat
  BY DEF C!ConversationAssumption
<1>2. C!House \in SpacesRead
  BY ScopeIsOneOf DEF OwnScope, SharedScope
<1>3. s \in Nat /\ IsFiniteSet(H.entries)
  BY <1>2, SpaceIsSearched DEF C!ConversationAssumption
<1>4. ASSUME NEW n \in 0..s
      PROVE  LET shared == C!Cut(H, C!House, n) IN
             /\ SectionFits(C!House, shared) /\ shared.dropped = s - n /\ (n = 0 => shared.entries = {})
  <2>1. LET shared == C!Cut(H, C!House, n) IN
        /\ SectionFits(C!House, shared) /\ shared.dropped = s - n
        /\ IsFiniteSet(shared.entries) /\ Cardinality(shared.entries) = n
    BY <1>2, CutFits DEF SectionFits
  <2> QED
    BY <2>1, FS_EmptySet
<1>5. ASSUME NEW m \in Members, OwnScope(m) PROVE \E own, shared, h : Made(own, shared, h)
  <2> DEFINE F == C!SearchSpace(m)
             p == Cardinality(F.entries)
             a == C!Fits(p, room)
             b == C!Fits(s, room - p)
             own == C!Cut(F, m, a)
             shared == C!Cut(H, C!House, b)
             h == C!Fits(turns, room - p - s)
  <2>1. m \in SpacesRead /\ C_scope.read[1] = m /\ C!Last(C_scope.read) = C!House /\ C_scope.kind = "direct"
    BY <1>5 DEF OwnScope
  <2>2. p \in Nat
    BY <2>1, SpaceIsSearched DEF C!ConversationAssumption
  <2>3. C!PromptInput = [private |-> F, shared |-> H, history |-> 0, says |-> C!Disclosures(C_scope.kind)]
    <3>1. C!SearchSpace(C_scope.read[1]) = F /\ C!SearchSpace(C!Last(C_scope.read)) = H
      BY <2>1
    <3> HIDE DEF F, H
    <3>2. C!PromptInput = [C!Blank EXCEPT !.private = F, !.shared = H, !.says = C!Disclosures(C_scope.kind)]
      BY <2>1, <3>1 DEF C!PromptInput, C!TouchesPrivateMemory
    <3> QED
      BY <3>2 DEF C!Blank
  <2>4. C_prompt' = [private |-> own, shared |-> shared, history |-> h, says |-> C!Disclosures(C_scope.kind)]
    <3> HIDE DEF F, H
    <3>1. C!PromptInput.private = F /\ C!PromptInput.shared = H
      BY <2>3
    <3> QED
      BY <2>1, <2>3, <3>1, CountsAlike DEF C!Trimmed
  <2>5. a \in 0..p /\ b \in 0..s /\ h \in Nat
    <3> HIDE DEF p, s
    <3> QED
      BY <1>1, <1>3, <2>2 DEF C!Fits
  <2>6. (h > 0 => a = p /\ b = s) /\ (a < p => b = 0)
    <3> HIDE DEF p, s
    <3> QED
      BY <1>1, <1>3, <2>2 DEF C!Fits
  <2>7. SectionFits(m, own) /\ own.dropped = p - a
    BY <2>1, <2>5, CutFits
  <2>8. SectionFits(C!House, shared) /\ shared.dropped = s - b /\ (b = 0 => shared.entries = {})
    BY <1>4, <2>5
  <2> HIDE DEF F, H, p, s, a, b, own, shared, h
  <2>9. (h > 0 => own.dropped = 0 /\ shared.dropped = 0) /\ (own.dropped > 0 => shared.entries = {})
    BY <1>3, <2>2, <2>5, <2>6, <2>7, <2>8
  <2> QED
    BY <1>5, <2>4, <2>5, <2>7, <2>8, <2>9 DEF Made
<1>6. ASSUME SharedScope PROVE \E own, shared, h : Made(own, shared, h)
  <2> DEFINE b == C!Fits(s, room)
             shared == C!Cut(H, C!House, b)
             h == C!Fits(turns, room - s)
             x == C_scope.read[1]
  <2>1. C!Last(C_scope.read) = C!House /\ C_scope.kind # "direct"
    BY <1>6 DEF SharedScope
  <2>2. C!PromptInput = [private |-> C!Unread, shared |-> H, history |-> 0, says |-> C!Disclosures(C_scope.kind)]
    <3>1. C!SearchSpace(C!Last(C_scope.read)) = H
      BY <2>1
    <3> HIDE DEF H
    <3>2. C!PromptInput = [C!Blank EXCEPT !.private = C!Unread, !.shared = H, !.says = C!Disclosures(C_scope.kind)]
      BY <2>1, <3>1 DEF C!PromptInput, C!TouchesPrivateMemory
    <3> QED
      BY <3>2 DEF C!Blank
  <2>3. C!Unread = [has |-> FALSE, entries |-> {}, err |-> FALSE, dropped |-> 0] /\ Cardinality({}) = 0
    BY FS_EmptySet DEF C!Unread
  <2>4. C!Fits(0, room) = 0 /\ room - 0 = room
    BY <1>1 DEF C!Fits
  <2>5. C!Cut(C!Unread, x, 0) = C!Unread
    <3>1. C!Best({}, C!ByScore(x), 0) = {}
      BY DEF C!Best
    <3>2. C!Cardinality({}) - 0 = 0
      BY <2>3, CountsAlike
    <3>3. C!Cut(C!Unread, x, 0) = [C!Unread EXCEPT !.entries = {}, !.dropped = 0]
      BY <2>3, <3>1, <3>2 DEF C!Cut
    <3> QED
      BY <2>3, <3>3
  <2>6. C_prompt' = [private |-> C!Unread, shared |-> shared, history |-> h, says |-> C!Disclosures(C_scope.kind)]
    <3> HIDE DEF H, x
    <3>1. C!PromptInput.private = C!Unread /\ C!PromptInput.shared = H
      BY <2>2
    <3>2. C!Cardinality(C!Unread.entries) = 0
      BY <2>3, CountsAlike
    <3> QED
      BY <2>1, <2>2, <2>4, <2>5, <3>1, <3>2, CountsAlike DEF C!Trimmed, x
  <2>7. b \in 0..s /\ h \in Nat
    <3> HIDE DEF s
    <3> QED
      BY <1>1, <1>3 DEF C!Fits
  <2>8. h > 0 => b = s
    <3> HIDE DEF s
    <3> QED
      BY <1>1, <1>3 DEF C!Fits
  <2>9. SectionFits(C!House, shared) /\ shared.dropped = s - b
    BY <1>4, <2>7
  <2> HIDE DEF H, s, b, shared, h
  <2>10. h > 0 => shared.dropped = 0
    BY <1>3, <2>8, <2>9
  <2>11. C!Unread.dropped = 0
    BY <2>3
  <2>12. Made(C!Unread, shared, h)
    BY <1>6, <2>6, <2>7, <2>9, <2>10, <2>11 DEF Made
  <2> QED
    BY <2>12
<1> QED
  BY <1>5, <1>6, ScopeIsOneOf

\* The request is put together: what it shows, and what it says of that, is true.
LEMMA AssembleFits ==
  ASSUME C!ConversationAssumption, C!ConversationInv, C!Assemble
  PROVE  C!ConversationInv'
<1>1. /\ C_stage = "searching" /\ C_stage' = "assembled" /\ DOMAIN C_hits = C!Queries
      /\ C_home' = C_home /\ C_inbound' = C_inbound /\ C_scope' = C_scope /\ C_audience' = C_audience
      /\ C_memory' = C_memory /\ C_present' = C_present /\ C_steady' = C_steady
      /\ C_hits' = C_hits /\ C_told' = C_told /\ C_events' = C_events
  BY DEF C!Assemble, C!resolved, C!memoryVars
<1>2. PICK turns \in 0..1, room \in 0..MaxRoom : C_prompt' = C!Trimmed(C!PromptInput, turns, room)
  BY DEF C!Assemble
<1>3. C!TypeOK /\ C!ScopeFits /\ C_scope # Nil /\ C_told = C!Silence /\ \A q \in DOMAIN C_hits : C!HitFits(q)
  BY <1>1 DEF C!ConversationInv, C!StageFits, C!FoundFits, C!Shows
<1>4. SearchesFit
  BY <1>1, <1>3, ScopeIsOneOf DEF SearchesFit, C!TypeOK
<1>5. PICK own, shared, h : Made(own, shared, h)
  BY <1>2, <1>3, <1>4, PromptIsMade
<1>6. /\ C_prompt'.private = own /\ C_prompt'["private"] = own /\ C_prompt'.history = h
      /\ C_prompt'.shared = shared /\ C_prompt'["shared"] = shared
      /\ C_prompt'.says = C!Disclosures(C_scope.kind)
  BY <1>5 DEF Made
<1>7. /\ C!Unread = [has |-> FALSE, entries |-> {}, err |-> FALSE, dropped |-> 0]
      /\ C!Unread \in C!Sections /\ ~C!Unread.has /\ C!Unread.entries = {} /\ C!Unread.dropped = 0
  <2>1. C!Unread = [has |-> FALSE, entries |-> {}, err |-> FALSE, dropped |-> 0]
    BY DEF C!Unread
  <2>2. [has |-> FALSE, entries |-> {}, err |-> FALSE, dropped |-> 0] \in C!Sections
    BY DEF C!Sections
  <2>3. ~C!Unread.has /\ C!Unread.entries = {} /\ C!Unread.dropped = 0
    BY <2>1
  <2> QED
    BY <2>1, <2>2, <2>3
<1>8. \/ \E m \in Members : OwnScope(m) /\ SectionFits(m, own)
      \/ SharedScope /\ own = C!Unread
  BY <1>5 DEF Made
<1>9. SectionFits(C!House, shared) /\ shared.has /\ shared \in C!Sections
  BY <1>5 DEF Made, SectionFits
<1>10. C!Disclosures(C_scope.kind) \in C!Texts
  <2>1. C_scope.kind \in {"direct", "household", "group"}
    BY <1>8 DEF OwnScope, SharedScope
  <2> QED
    BY <2>1 DEF C!Disclosures, C!Texts, C!TextReads, C!TextTargets
<1>11. own \in C!Sections /\ Cardinality(own.entries) <= Limit
  <2>1. Cardinality({}) <= Limit
    BY FS_EmptySet DEF C!ConversationAssumption
  <2> QED
    BY <1>7, <1>8, <2>1 DEF SectionFits
<1>12. C!TypeOK'
  <2>1. C_prompt' \in [private : C!Sections, shared : C!Sections, history : Nat, says : C!Texts \cup {Nil}]
    <3>1. /\ C_prompt' = [private |-> own, shared |-> shared, history |-> h, says |-> C!Disclosures(C_scope.kind)]
          /\ h \in Nat
      BY <1>5 DEF Made
    <3> QED
      BY ONLY <1>9, <1>10, <1>11, <3>1
  <2>2. Cardinality(shared.entries) <= Limit
    BY <1>9 DEF SectionFits
  <2> QED
    BY <1>1, <1>3, <1>6, <1>11, <2>1, <2>2, CountsAlike DEF C!TypeOK, C!Stages
<1>13. C!ScopeFits'
  BY <1>1, <1>3 DEF C!ScopeFits
<1>14. C!FoundFits'
  <2>1. C!Queries' = C!Queries
    BY <1>1 DEF C!Queries
  <2>2. \A p : C!IsIn(p[1], p[2])' = C!IsIn(p[1], p[2])
    BY <1>1 DEF C!IsIn
  <2>3. \A p \in DOMAIN C_hits : C!HitFits(p)'
    BY <1>1, <1>3, <2>2, CountsAlike DEF C!HitFits
  <2>4. ASSUME C_scope.kind = "direct" PROVE own.entries \subseteq C!SearchSpace(C_scope.write).entries
    BY <1>8, <2>4 DEF OwnScope, SharedScope, SectionFits
  <2>5. C!SearchSpace(C_scope.write)' = C!SearchSpace(C_scope.write)
    BY <1>1, SameFindings
  <2>6. C!Shown("private")' = own.entries
    BY <1>6 DEF C!Shown
  <2> QED
    BY <1>1, <2>1, <2>3, <2>4, <2>5, <2>6 DEF C!FoundFits
<1>15. C!StageFits' /\ C!Shows'
  <2>1. C!Shows'
    BY <1>1, <1>3 DEF C!Shows
  <2>2. own.has = C!TouchesPrivateMemory(C_scope) /\ (~own.has => own = C!Unread)
    <3>1. CASE SharedScope /\ own = C!Unread
      BY <1>7, <3>1 DEF SharedScope, C!TouchesPrivateMemory
    <3>2. ASSUME NEW m \in Members, OwnScope(m), SectionFits(m, own) PROVE own.has = TRUE /\ C!TouchesPrivateMemory(C_scope)
      BY <1>11, <3>2 DEF OwnScope, SectionFits, C!TouchesPrivateMemory, C!Sections
    <3> QED
      BY <1>8, <3>1, <3>2 DEF C!TouchesPrivateMemory
  <2> QED
    BY <1>1, <1>3, <1>6, <1>9, <2>1, <2>2 DEF C!StageFits, C!TouchesPrivateMemory
<1>16. C_told.line = {} /\ C_told.publish = Nil /\ C_told.parts = {}
  BY <1>3 DEF C!Silence
<1>17. C!ShownIsTheirs'
  <2>1. \A e \in shared.entries : C_memory[e] = C!House
    BY <1>9 DEF SectionFits
  <2>2. \A e \in own.entries : C_audience = {C_memory[e]}
    BY <1>7, <1>8 DEF OwnScope, SectionFits
  <2>3. own.has => C_scope.write \in C_audience
    BY <1>7, <1>8 DEF OwnScope
  <2> QED
    BY <1>1, <1>6, <1>16, <2>1, <2>2, <2>3 DEF C!ShownIsTheirs, C!Shown
<1>18. C!LineIsTrue' /\ C!Answers'
  BY <1>1, <1>16 DEF C!LineIsTrue, C!Answers
<1>19. C!TrimsInOrder'
  BY <1>5, <1>6 DEF Made, C!TrimsInOrder
\* A section that was read is its space's.
<1> DEFINE section(k) == IF k = "private" THEN own ELSE shared
           space(k) == IF k = "private" THEN C_scope.read[1] ELSE C!Last(C_scope.read)
<1>20. ASSUME NEW k \in C!ReadKinds'
       PROVE  /\ k \in {"private", "shared"} /\ C_prompt'[k] = section(k) /\ C!ReadSpace(k)' = space(k)
              /\ ~section(k).err /\ section(k).has /\ SectionFits(space(k), section(k))
  <2>1. k \in {"private", "shared"} /\ C_prompt'[k].has /\ ~C_prompt'[k].err
    BY DEF C!ReadKinds
  <2>2. C_prompt'[k] = section(k)
    BY <1>6, <2>1
  <2>3. C!ReadSpace(k)' = space(k)
    BY <1>1 DEF C!ReadSpace
  <2>4. SectionFits(space(k), section(k))
    <3>1. CASE k = "private"
      <4>1. own.has
        BY <2>1, <2>2, <3>1
      <4>2. PICK m \in Members : OwnScope(m) /\ SectionFits(m, own)
        BY <1>7, <1>8, <4>1
      <4> QED
        BY <3>1, <4>2 DEF OwnScope
    <3>2. CASE k = "shared"
      <4>1. C!Last(C_scope.read) = C!House
        BY <1>8 DEF OwnScope, SharedScope
      <4> QED
        BY <1>9, <3>2, <4>1
    <3> QED
      BY <2>1, <3>1, <3>2
  <2> HIDE DEF section, space
  <2> QED
    BY <2>1, <2>2, <2>3, <2>4
<1> HIDE DEF section, space
<1>21. C!NothingOverlooked'
  <2> SUFFICES ASSUME NEW k \in C!ReadKinds', NEW t \in C_scope'.terms
               PROVE  /\ C_hits'[<<C!ReadSpace(k)', t>>].ok
                      /\ \A e \in C_steady' \cap Matches[t] :
                           C_memory'[e] = C!ReadSpace(k)' =>
                             \/ e \in C!Shown(k)' \/ C_prompt'[k].dropped > 0
                             \/ C!Cardinality(C!Shown(k)') = Limit
    BY DEF C!NothingOverlooked
  <2>1. C!Shown(k)' = section(k).entries
    BY <1>20 DEF C!Shown
  <2>2. AllWentWell(space(k)) /\ (section(k).dropped > 0 \/ Complete(space(k), section(k).entries))
    BY <1>20 DEF SectionFits
  <2> QED
    BY <1>1, <1>20, <2>1, <2>2, CountsAlike DEF AllWentWell, Complete
<1>22. C!RanksByWords'
  <2> SUFFICES ASSUME NEW k \in C!ReadKinds', NEW e \in C!Shown(k)', NEW d \in Entries \ C!Shown(k)'
               PROVE  ~(/\ C!FoundBy(C!ReadSpace(k), e)' \subseteq C!FoundBy(C!ReadSpace(k), d)'
                        /\ C!FoundBy(C!ReadSpace(k), e)' # C!FoundBy(C!ReadSpace(k), d)')
    BY DEF C!RanksByWords
  <2>1. C!Shown(k)' = section(k).entries
    BY <1>20 DEF C!Shown
  <2>2. Fairly(space(k), section(k).entries)
    BY <1>20 DEF SectionFits
  <2> QED
    <3>1. /\ C!FoundBy(C!ReadSpace(k), e)' = C!FoundBy(space(k), e)
          /\ C!FoundBy(C!ReadSpace(k), d)' = C!FoundBy(space(k), d)
      BY <1>1, <1>20 DEF C!FoundBy
    <3> QED
      BY <2>1, <2>2, <3>1 DEF Fairly
<1>23. C!DisclosedTruly'
  <2> DEFINE says == C!Disclosures(C_scope.kind)
  <2>1. /\ says.reads = IF C_scope.kind = "direct" THEN {"private", "shared"} ELSE {"shared"}
        /\ says.captures = IF C_scope.kind = "direct" THEN {"private", "shared"} ELSE {"shared"}
        /\ says.publishes <=> C_scope.kind = "direct"
    <3>1. C_scope.kind \in {"direct", "household", "group"}
      BY <1>8 DEF OwnScope, SharedScope
    <3>2. says = [reads |-> C!TextReads[C_scope.kind], captures |-> C!TextTargets[C_scope.kind],
                  publishes |-> C_scope.kind = "direct"]
      BY DEF C!Disclosures
    <3>3. C!TextReads[C_scope.kind] = IF C_scope.kind = "direct" THEN {"private", "shared"} ELSE {"shared"}
      BY <3>1 DEF C!TextReads
    <3>4. C!TextTargets[C_scope.kind] = IF C_scope.kind = "direct" THEN {"private", "shared"} ELSE {"shared"}
      BY <3>1 DEF C!TextTargets
    <3> HIDE DEF says
    <3> QED
      BY <3>2, <3>3, <3>4
  <2>2. own.has <=> C_scope.kind = "direct"
    BY <1>7, <1>8 DEF OwnScope, SharedScope, SectionFits
  <2>3. C_scope.write \in Members <=> C_scope.kind = "direct"
    BY <1>8 DEF OwnScope, SharedScope, C!ConversationAssumption
  <2> HIDE DEF says
  <2>4. says.reads = {k \in {"private", "shared"} : C_prompt'[k].has}
    BY <1>6, <1>9, <2>1, <2>2
  <2>5. ASSUME NEW k \in C!ReadKinds', NEW t \in C_scope'.terms,
               C!Statement(C_prompt'[k]) = "nothing relevant found",
               NEW e \in C_steady' \cap Matches[t], C_memory'[e] = C!ReadSpace(k)'
        PROVE  FALSE
    <3>1. C!Shown(k)' = section(k).entries /\ C_prompt'[k] = section(k)
      BY <1>20 DEF C!Shown
    <3>2. section(k).entries = {} /\ section(k).dropped = 0
      BY <2>5, <3>1 DEF C!Statement
    <3>3. e \in C!Shown(k)' \/ C_prompt'[k].dropped > 0 \/ C!Cardinality(C!Shown(k)') = Limit
      BY <1>21, <2>5 DEF C!NothingOverlooked
    <3>4. C!Cardinality({}) = 0 /\ Limit # 0
      BY FS_EmptySet, CountsAlike DEF C!ConversationAssumption
    <3> QED
      BY <3>1, <3>2, <3>3, <3>4
  <2>6. C_prompt'.says = says
    BY <1>6 DEF says
  <2>7. /\ C_prompt'.says.reads = {k \in {"private", "shared"} : C_prompt'[k].has}
        /\ "private" \in C_prompt'.says.captures <=> C_scope'.write \in Members
        /\ C_prompt'.says.publishes <=> C!TouchesPrivateMemory(C_scope)'
    BY <1>1, <2>1, <2>3, <2>4, <2>6 DEF C!TouchesPrivateMemory
  <2>8. \A k \in C!ReadKinds' : \A t \in C_scope'.terms :
          C!Statement(C_prompt'[k]) = "nothing relevant found" =>
            {e \in C_steady' \cap Matches[t] : C_memory'[e] = C!ReadSpace(k)'} = {}
    BY <2>5
  <2> QED
    BY <2>7, <2>8 DEF C!DisclosedTruly
<1> QED
  BY <1>12, <1>13, <1>14, <1>15, <1>17, <1>18, <1>19, <1>21, <1>22, <1>23 DEF C!ConversationInv, C!ToldTruly

-----------------------------------------------------------------------------
\* What a turn has to say after it has spoken or asked.
Spoken ==
  /\ C_told' \in [parts : SUBSET C!Parts, line : SUBSET C!Lines, publish : Entries \cup {Nil}, proposed : BOOLEAN]
  /\ C_stage' \notin {"publishing", "proposing", "over"} => C_told' = C!Silence
  /\ C_stage' = "proposing" => C_told'.proposed
  /\ C_told'.publish # Nil =>
       /\ C_audience = {C_memory[C_told'.publish]}
       /\ \A e \in C!Shown("private") : Title[e] = Title[C_told'.publish] => e = C_told'.publish
  /\ \A l \in C_told'.line : l.err = C_prompt[l.of].err /\ l.n = Cardinality(C!Shown(l.of))

\* Once the request is put together, the scope, the memory and what is shown stay as they are:
\* a step of the turn owes only what it says.
LEMMA LaterFits ==
  ASSUME C!ConversationAssumption, C!ConversationInv, C!Shows,
         UNCHANGED <<C!resolved, C!memoryVars>>,
         C_prompt' = C_prompt \/ C_prompt' = [C_prompt EXCEPT !.history = 0],
         C_stage' \in C!Stages \ {"received", "searching", "assembled"}, C_events' \in 0..MaxFaults,
         Spoken, C!Answers',
         C_stage' = "routed" /\ C_scope.kind = "direct" =>
           /\ C!Shown("private") \subseteq C_hits'[C_scope.write]
           /\ C_hits'[C_scope.write] \subseteq {e \in Entries : C_memory[e] = C_scope.write}
  PROVE  C!ConversationInv'
<1>1. /\ C_home' = C_home /\ C_inbound' = C_inbound /\ C_scope' = C_scope /\ C_audience' = C_audience
      /\ C_memory' = C_memory /\ C_present' = C_present /\ C_steady' = C_steady
  BY DEF C!resolved, C!memoryVars
<1>2. C!TypeOK /\ C!ScopeFits /\ C_scope # Nil /\ C!ShownIsTheirs /\ C!ToldTruly
  BY DEF C!ConversationInv, C!Shows
<1>3. C_prompt \in [private : C!Sections, shared : C!Sections, history : Nat, says : C!Texts \cup {Nil}]
  BY <1>2 DEF C!TypeOK
<1>4. /\ C_prompt' \in [private : C!Sections, shared : C!Sections, history : Nat, says : C!Texts \cup {Nil}]
      /\ C_prompt'.private = C_prompt.private /\ C_prompt'.shared = C_prompt.shared
      /\ C_prompt'.says = C_prompt.says /\ (C_prompt'.history = C_prompt.history \/ C_prompt'.history = 0)
      /\ \A k \in {"private", "shared"} : C_prompt'[k] = C_prompt[k]
  <2>1. CASE C_prompt' = C_prompt
    BY <1>3, <2>1
  <2>2. CASE C_prompt' = [C_prompt EXCEPT !.history = 0]
    BY <1>3, <2>2
  <2> QED
    BY <2>1, <2>2
<1>5. \A k \in {"private", "shared"} : C!Shown(k)' = C!Shown(k)
  BY <1>4 DEF C!Shown
<1>6. C!TypeOK'
  BY <1>1, <1>2, <1>4, CountsAlike DEF C!TypeOK, Spoken
<1>7. C!ScopeFits'
  BY <1>1, <1>2 DEF C!ScopeFits
<1>8. C!FoundFits'
  BY <1>1, <1>5 DEF C!FoundFits
<1>9. C!Shows'
  BY <1>1, <1>2 DEF C!Shows
<1>10. C!StageFits'
  <2>1. /\ C_prompt.private.has = C!TouchesPrivateMemory(C_scope) /\ C_prompt.shared.has
        /\ C_prompt.says = C!Disclosures(C_scope.kind)
        /\ ~C_prompt.private.has => C_prompt.private = C!Unread
    BY DEF C!ConversationInv, C!StageFits
  <2>2. C!TouchesPrivateMemory(C_scope)' = C!TouchesPrivateMemory(C_scope)
    BY <1>1 DEF C!TouchesPrivateMemory
  <2> QED
    BY <1>1, <1>2, <1>4, <1>9, <2>1, <2>2 DEF C!StageFits, Spoken
<1>11. C!ShownIsTheirs'
  BY <1>1, <1>2, <1>4, <1>5 DEF C!ShownIsTheirs, Spoken
<1>12. C!ReadKinds' = {}
  BY DEF C!ReadKinds
<1>13. C!NothingOverlooked' /\ C!RanksByWords'
  BY <1>12 DEF C!NothingOverlooked, C!RanksByWords
<1>14. C!DisclosedTruly'
  <2>1. C!DisclosedTruly
    BY <1>2 DEF C!ToldTruly
  <2>2. C!TouchesPrivateMemory(C_scope)' = C!TouchesPrivateMemory(C_scope)
    BY <1>1 DEF C!TouchesPrivateMemory
  <2>3. {k \in {"private", "shared"} : C_prompt'[k].has} = {k \in {"private", "shared"} : C_prompt[k].has}
    BY <1>4
  <2> QED
    BY <1>1, <1>4, <1>12, <2>1, <2>2, <2>3 DEF C!DisclosedTruly
<1>15. C!TrimsInOrder'
  BY <1>2, <1>4 DEF C!ToldTruly, C!TrimsInOrder
<1>16. C!LineIsTrue'
  <2>1. \A l \in C_told'.line : l.of \in {"private", "shared"}
    BY DEF Spoken, C!Lines
  <2> QED
    BY <1>4, <1>5, <2>1, CountsAlike DEF C!LineIsTrue, Spoken
<1> QED
  BY <1>6, <1>7, <1>8, <1>9, <1>10, <1>11, <1>13, <1>14, <1>15, <1>16 DEF C!ConversationInv, C!ToldTruly

LEMMA RouteFits ==
  ASSUME C!ConversationAssumption, C!ConversationInv, C!Route
  PROVE  C!ConversationInv'
<1>1. /\ C_stage = "assembled" /\ C_stage' = "routed" /\ C_told' = C_told /\ C_events' = C_events
      /\ C_hits' = [s \in SpacesRead |-> C!SearchSpace(s).entries]
      /\ C_prompt' = [C_prompt EXCEPT !.history = 0]
      /\ UNCHANGED <<C!resolved, C!memoryVars>>
  BY DEF C!Route, SpacesRead
<1>2. C!TypeOK /\ C!ScopeFits /\ C_scope # Nil /\ C_told = C!Silence /\ C!Shows
  BY <1>1 DEF C!ConversationInv, C!StageFits, C!Shows
<1>3. DOMAIN C_hits = C!Queries /\ \A q \in DOMAIN C_hits : C!HitFits(q)
  BY <1>1 DEF C!ConversationInv, C!FoundFits
<1>4. SearchesFit
  BY <1>2, <1>3, ScopeIsOneOf DEF SearchesFit, C!TypeOK
<1>5. ASSUME C_scope.kind = "direct"
      PROVE  /\ C!Shown("private") \subseteq C_hits'[C_scope.write]
             /\ C_hits'[C_scope.write] \subseteq {e \in Entries : C_memory[e] = C_scope.write}
  <2>1. C_scope.write \in SpacesRead
    BY <1>2, <1>5, ScopeIsOneOf DEF OwnScope, SharedScope
  <2>2. C_hits'[C_scope.write] = C!SearchSpace(C_scope.write).entries
    BY <1>1, <2>1
  <2>3. C!SearchSpace(C_scope.write).entries \subseteq Entries
    BY <1>4, <2>1, SpaceIsSearched DEF C!Sections
  <2>4. \A e \in C!SearchSpace(C_scope.write).entries : C_memory[e] = C_scope.write
    BY <1>4, <2>1, SpaceIsSearched
  <2>5. C!Shown("private") \subseteq C!SearchSpace(C_scope.write).entries
    BY <1>1, <1>5 DEF C!ConversationInv, C!FoundFits
  <2> QED
    BY <2>2, <2>3, <2>4, <2>5
<1>6. Spoken
  BY <1>1, <1>2 DEF Spoken, C!TypeOK, C!Silence
<1>7. C!Answers'
  BY <1>1 DEF C!Answers
<1> QED
  BY <1>1, <1>2, <1>5, <1>6, <1>7, LaterFits DEF C!TypeOK, C!Stages

\* The one entry that a title means is the member's own, and the only one shown by it.
LEMMA TargetIsTheirs ==
  ASSUME C!ConversationAssumption, C!ConversationInv, C_stage = "routed", NEW c, C!PublishTarget(c) # Nil
  PROVE  /\ C!PublishTarget(c) \in Entries /\ C_audience = {C_memory[C!PublishTarget(c)]}
         /\ \A e \in C!Shown("private") : Title[e] = Title[C!PublishTarget(c)] => e = C!PublishTarget(c)
<1> DEFINE N == C!Named(c.publish)
<1>1. C_scope.kind = "direct" /\ C!Cardinality(N) = 1 /\ C!PublishTarget(c) = C!Min(N)
  BY DEF C!PublishTarget, C!TouchesPrivateMemory
<1>2. /\ C!Shown("private") \subseteq C_hits[C_scope.write]
      /\ C_hits[C_scope.write] \subseteq {e \in Entries : C_memory[e] = C_scope.write}
  BY <1>1 DEF C!ConversationInv, C!FoundFits
<1>3. PICK m \in Members : OwnScope(m)
  BY <1>1, ScopeIsOneOf DEF C!ConversationInv, C!StageFits, SharedScope
<1>4. N = {e \in C_hits[C_scope.write] : Title[e] = c.publish}
  BY DEF C!Named
<1> HIDE DEF N
<1>5. N \subseteq Entries
  BY <1>2, <1>4
<1>6. PICK d : N = {d}
  <2>1. IsFiniteSet(N)
    BY <1>5, FS_Subset, CountsAlike DEF C!ConversationAssumption
  <2>2. Cardinality(N) = 1
    BY <1>1, CountsAlike
  <2> QED
    BY <2>1, <2>2, FS_Singleton
<1>7. C!Min(N) = d
  <2>1. d \in Nat
    BY <1>5, <1>6 DEF C!ConversationAssumption
  <2> QED
    BY <1>6, <2>1 DEF C!Min
<1>8. d \in Entries /\ C_memory[d] = C_scope.write /\ Title[d] = c.publish
  BY <1>2, <1>4, <1>6
<1>9. ASSUME NEW e \in C!Shown("private"), Title[e] = Title[d] PROVE e = d
  BY <1>2, <1>4, <1>6, <1>8, <1>9
<1> QED
  BY <1>1, <1>3, <1>7, <1>8, <1>9 DEF OwnScope

\* The line above the reply has the sections' own numbers.
LEMMA NoticeIsTrue ==
  ASSUME C!ConversationAssumption, C!TypeOK
  PROVE  /\ C!ReadNotice \subseteq C!Lines
         /\ \A l \in C!ReadNotice : l.err = C_prompt[l.of].err /\ l.n = Cardinality(C!Shown(l.of))
<1>1. ASSUME NEW k \in {"private", "shared"}
      PROVE  C_prompt[k].err \in BOOLEAN /\ C!Cardinality(C_prompt[k].entries) \in Nat
  <2>1. C_prompt[k] \in C!Sections
    BY DEF C!TypeOK
  <2>2. IsFiniteSet(C_prompt[k].entries)
    BY <2>1, FS_Subset, CountsAlike DEF C!Sections, C!ConversationAssumption
  <2> QED
    BY <2>1, <2>2, FS_CardinalityType, CountsAlike DEF C!Sections
<1>2. ASSUME NEW l \in C!ReadNotice
      PROVE  \E k \in {"private", "shared"} :
               l = [of |-> k, n |-> C!Cardinality(C_prompt[k].entries), err |-> C_prompt[k].err]
  BY DEF C!ReadNotice
<1>3. ASSUME NEW l \in C!ReadNotice
      PROVE  l \in C!Lines /\ l.err = C_prompt[l.of].err /\ l.n = Cardinality(C!Shown(l.of))
  <2>1. PICK k \in {"private", "shared"} :
          l = [of |-> k, n |-> C!Cardinality(C_prompt[k].entries), err |-> C_prompt[k].err]
    BY <1>2
  <2>2. l.of = k /\ l.err = C_prompt[k].err /\ l.n = C!Cardinality(C_prompt[k].entries)
    BY <2>1
  <2>3. l \in C!Lines
    BY <1>1, <2>1 DEF C!Lines
  <2> QED
    BY <2>2, <2>3, CountsAlike DEF C!Shown
<1> QED
  BY <1>3


\* What is said is one of the things there are to say; and where nothing is put to the member
\* it is an answer, and true.
LEMMA MessageFits ==
  ASSUME NEW c \in C!Completions, NEW target
  PROVE  /\ C!Message(c, target) \subseteq C!Parts
         /\ target = Nil /\ ~C!HasProposal(c) =>
              /\ C!Message(c, target) \ {"only one", "unsaved"} # {}
              /\ "saves" \in C!Message(c, target) => C!Message(c, target) \cap {"unsaved", "reminder"} # {}
<1> DEFINE M0 == C!Message(c, target)
           handled == C!HasProposal(c) \/ target # Nil
<1>1. c.reply \in C!Replies \cup {Nil}
  BY DEF C!Completions
<1>2. c.reply # Nil => c.reply \in M0
  BY DEF C!Message
<1>3. C!ReminderNote(c) => "reminder" \in M0
  BY DEF C!Message
<1>4. c.reply # Nil /\ ~handled /\ ~C!ReminderNote(c) /\ C!FalseSave(c) => "unsaved" \in M0
  BY DEF C!Message
<1>5. c.reply = Nil /\ ~C!ReminderNote(c) /\ ~handled => "misfire" \in M0 \/ "no answer" \in M0
  BY DEF C!Message
<1>6. "saves" \in M0 => c.reply = "saves" /\ c.reply # Nil
  BY DEF C!Message
<1>7. M0 \subseteq C!Parts
  BY <1>1 DEF C!Message, C!Parts
<1> HIDE DEF M0
<1>8. ASSUME target = Nil, ~C!HasProposal(c)
      PROVE  /\ M0 \ {"only one", "unsaved"} # {}
             /\ "saves" \in M0 => M0 \cap {"unsaved", "reminder"} # {}
  <2>1. c.reply # Nil => c.reply \notin {"only one", "unsaved"}
    BY <1>1 DEF C!Replies
  <2>2. "saves" \in M0 => C!FalseSave(c)
    BY <1>6 DEF C!FalseSave
  <2>3. CASE C!ReminderNote(c)
    <3>1. "reminder" \in M0 \ {"only one", "unsaved"} /\ "reminder" \in M0 \cap {"unsaved", "reminder"}
      BY <1>3, <2>3
    <3> QED
      BY <3>1
  <2>4. CASE ~C!ReminderNote(c) /\ c.reply = Nil
    <3>1. \E x \in {"misfire", "no answer"} : x \in M0 \ {"only one", "unsaved"}
      BY <1>5, <1>8, <2>4
    <3> QED
      BY <1>6, <2>4, <3>1
  <2>5. CASE ~C!ReminderNote(c) /\ c.reply # Nil
    BY <1>2, <1>4, <1>8, <2>1, <2>2, <2>5
  <2> QED
    BY <2>3, <2>4, <2>5
<1> QED
  BY <1>7, <1>8 DEF M0

LEMMA CompleteFits ==
  ASSUME C!ConversationAssumption, C!ConversationInv, NEW c \in C!Completions, C!Complete(c)
  PROVE  C!ConversationInv'
<1> DEFINE target == C!PublishTarget(c)
           said == C!Message(c, target)
           line == IF c.reply = Nil THEN {} ELSE C!ReadNotice
<1>1. /\ C_stage = "routed" /\ C_prompt' = C_prompt /\ C_events' = C_events
      /\ C_told' = [parts |-> said, line |-> line, publish |-> target, proposed |-> C!HasProposal(c)]
      /\ C_stage' = CASE target # Nil -> "publishing"
                      [] target = Nil /\ C!HasProposal(c) -> "proposing"
                      [] OTHER -> "over"
      /\ UNCHANGED <<C!resolved, C!memoryVars>>
  BY DEF C!Complete
<1>2. C!TypeOK /\ C_scope # Nil /\ C!Shows
  BY <1>1 DEF C!ConversationInv, C!StageFits, C!Shows
<1>3. /\ target # Nil => C_stage' = "publishing"
      /\ target = Nil /\ C!HasProposal(c) => C_stage' = "proposing"
      /\ target = Nil /\ ~C!HasProposal(c) => C_stage' = "over"
  BY <1>1
<1>4. /\ target # Nil => /\ target \in Entries /\ C_audience = {C_memory[target]}
                         /\ \A e \in C!Shown("private") : Title[e] = Title[target] => e = target
  BY <1>1, TargetIsTheirs
<1>5. /\ line \subseteq C!Lines
      /\ \A l \in line : l.err = C_prompt[l.of].err /\ l.n = Cardinality(C!Shown(l.of))
  BY <1>2, NoticeIsTrue
<1>6. C!HasProposal(c) \in BOOLEAN
  BY DEF C!HasProposal, C!Completions
<1>7. said \subseteq C!Parts
  BY MessageFits
<1>8. target = Nil /\ ~C!HasProposal(c) =>
        /\ said \ {"only one", "unsaved"} # {}
        /\ "saves" \in said => said \cap {"unsaved", "reminder"} # {}
  BY MessageFits
<1> HIDE DEF target, said, line
<1>9. /\ C_told'.parts = said /\ C_told'.line = line /\ C_told'.publish = target
      /\ C_told'.proposed = C!HasProposal(c)
  BY <1>1
<1>10. C_told' \in [parts : SUBSET C!Parts, line : SUBSET C!Lines, publish : Entries \cup {Nil}, proposed : BOOLEAN]
  BY <1>1, <1>4, <1>5, <1>6, <1>7
<1>11. C_stage' \in {"publishing", "proposing", "over"}
  BY <1>3
<1>12. Spoken
  BY <1>3, <1>4, <1>5, <1>9, <1>10, <1>11 DEF Spoken
<1>13. C!Answers'
  BY <1>3, <1>8, <1>9 DEF C!Answers
<1> QED
  BY <1>1, <1>2, <1>11, <1>12, <1>13, LaterFits DEF C!TypeOK, C!Stages

LEMMA RefuseFits ==
  ASSUME C!ConversationAssumption, C!ConversationInv, C!Refuse
  PROVE  C!ConversationInv'
<1>1. /\ C_stage = "routed" /\ C_stage' = "over" /\ C_prompt' = C_prompt /\ C_events' = C_events
      /\ C_told' = [C_told EXCEPT !.parts = {"refused"}]
      /\ UNCHANGED <<C!resolved, C!memoryVars>>
  BY DEF C!Refuse
<1>2. C!TypeOK /\ C_scope # Nil /\ C!Shows /\ C_told = C!Silence
  BY <1>1 DEF C!ConversationInv, C!StageFits, C!Shows
<1>3. C_told' = [parts |-> {"refused"}, line |-> {}, publish |-> Nil, proposed |-> FALSE]
  BY <1>1, <1>2 DEF C!Silence
<1>4. /\ C_told'.parts = {"refused"} /\ C_told'.line = {} /\ C_told'.publish = Nil
      /\ C_told' \in [parts : SUBSET C!Parts, line : SUBSET C!Lines, publish : Entries \cup {Nil}, proposed : BOOLEAN]
  BY <1>3 DEF C!Parts
<1>5. Spoken /\ C!Answers'
  BY <1>1, <1>4 DEF Spoken, C!Answers
<1> QED
  BY <1>1, <1>2, <1>5, LaterFits DEF C!TypeOK, C!Stages

LEMMA SendFailsFits ==
  ASSUME C!ConversationAssumption, C!ConversationInv, C!SendFails
  PROVE  C!ConversationInv'
<1>1. /\ C_stage = "routed" /\ C_stage' = "failed" /\ C_prompt' = C_prompt /\ C_told' = C_told
      /\ C_events < MaxFaults /\ C_events' = C_events + 1
      /\ UNCHANGED <<C!resolved, C!memoryVars>>
  BY DEF C!SendFails
<1>2. C!TypeOK /\ C_scope # Nil /\ C!Shows /\ C_told = C!Silence
  BY <1>1 DEF C!ConversationInv, C!StageFits, C!Shows
<1>3. Spoken
  BY <1>1, <1>2 DEF Spoken, C!TypeOK, C!Silence
<1>4. C!Answers'
  BY <1>1 DEF C!Answers
<1>5. C_events' \in 0..MaxFaults
  BY <1>1, <1>2 DEF C!TypeOK, C!ConversationAssumption
<1> QED
  BY <1>1, <1>2, <1>3, <1>4, <1>5, LaterFits DEF C!Stages

\* A question, a notice or an answer is said beside what was said already.
LEMMA SaysMore ==
  ASSUME C!ConversationAssumption, C!ConversationInv, C_stage \in {"publishing", "proposing"}, C_stage' = "over",
         NEW more \in SUBSET C!Parts, C_told' = [C_told EXCEPT !.parts = @ \cup more],
         C_prompt' = C_prompt, C_events' = C_events, UNCHANGED <<C!resolved, C!memoryVars>>,
         (C_told.parts \cup more) \ {"only one", "unsaved"} # {},
         C_told.proposed \/ more \cap {"question", "notice"} # {}
  PROVE  C!ConversationInv'
<1>1. C!TypeOK /\ C_scope # Nil /\ C!Shows /\ C!ShownIsTheirs /\ C!ToldTruly
  BY DEF C!ConversationInv, C!StageFits, C!Shows
<1>2. C_told \in [parts : SUBSET C!Parts, line : SUBSET C!Lines, publish : Entries \cup {Nil}, proposed : BOOLEAN]
  BY <1>1 DEF C!TypeOK
<1>3. /\ C_told' \in [parts : SUBSET C!Parts, line : SUBSET C!Lines, publish : Entries \cup {Nil}, proposed : BOOLEAN]
      /\ C_told'.parts = C_told.parts \cup more /\ C_told'.line = C_told.line
      /\ C_told'.publish = C_told.publish /\ C_told'.proposed = C_told.proposed
  BY <1>2
<1>4. Spoken
  <2>1. C!LineIsTrue
    BY <1>1 DEF C!ToldTruly
  <2>2. \A l \in C_told'.line : l.err = C_prompt[l.of].err /\ l.n = Cardinality(C!Shown(l.of))
    BY <1>3, <2>1, CountsAlike DEF C!LineIsTrue
  <2>3. C_told'.publish # Nil =>
          /\ C_audience = {C_memory[C_told'.publish]}
          /\ \A e \in C!Shown("private") : Title[e] = Title[C_told'.publish] => e = C_told'.publish
    BY <1>1, <1>3 DEF C!ShownIsTheirs
  <2> QED
    BY <1>3, <2>2, <2>3 DEF Spoken
<1>5. C!Answers'
  BY <1>3 DEF C!Answers
<1> QED
  BY <1>1, <1>4, <1>5, LaterFits DEF C!TypeOK, C!Stages

LEMMA PublishFits ==
  ASSUME C!ConversationAssumption, C!ConversationInv, C!Publish
  PROVE  C!ConversationInv'
<1>1. PICK there \in BOOLEAN :
        C_told' = [C_told EXCEPT !.parts = @ \cup {IF there THEN "question" ELSE "notice"}]
  BY DEF C!Publish
<1> DEFINE more == {IF there THEN "question" ELSE "notice"}
<1>2. /\ C_stage \in {"publishing", "proposing"} /\ C_stage' = "over" /\ C_prompt' = C_prompt
      /\ C_events' = C_events /\ UNCHANGED <<C!resolved, C!memoryVars>>
  BY DEF C!Publish
<1>3. more \in SUBSET C!Parts
  BY DEF C!Parts
<1>4. (C_told.parts \cup more) \ {"only one", "unsaved"} # {} /\ more \cap {"question", "notice"} # {}
  <2>1. PICK x \in {"question", "notice"} : more = {x}
    OBVIOUS
  <2> HIDE DEF more
  <2> QED
    BY <2>1
<1> QED
  BY <1>1, <1>2, <1>3, <1>4, SaysMore

LEMMA ProposeFits ==
  ASSUME C!ConversationAssumption, C!ConversationInv, C!Propose
  PROVE  C!ConversationInv'
<1>1. PICK suppressed \in BOOLEAN :
        C_told' = [C_told EXCEPT !.parts = @ \cup (CASE ~suppressed -> {"question"}
                                                     [] suppressed /\ @ \cap C!Replies = {} -> {"no answer"}
                                                     [] OTHER -> {})]
  BY DEF C!Propose
<1> DEFINE more == CASE ~suppressed -> {"question"}
                     [] suppressed /\ C_told.parts \cap C!Replies = {} -> {"no answer"}
                     [] OTHER -> {}
<1>2. /\ C_stage = "proposing" /\ C_stage' = "over" /\ C_prompt' = C_prompt
      /\ C_events' = C_events /\ UNCHANGED <<C!resolved, C!memoryVars>>
  BY DEF C!Propose
<1>3. more \in SUBSET C!Parts
  BY DEF C!Parts
<1>4. (C_told.parts \cup more) \ {"only one", "unsaved"} # {}
  <2>1. CASE C_told.parts \cap C!Replies # {}
    BY <2>1 DEF C!Replies
  <2>2. CASE C_told.parts \cap C!Replies = {}
    <3>1. PICK x \in {"question", "no answer"} : x \in more
      BY <2>2
    <3> HIDE DEF more
    <3> QED
      BY <3>1
  <2> QED
    BY <2>1, <2>2
<1>5. C_told.proposed
  BY <1>2 DEF C!ConversationInv, C!StageFits
<1> QED
  BY <1>1, <1>2, <1>3, <1>4, <1>5, SaysMore

LEMMA ConversationStep ==
  ASSUME C!ConversationAssumption, C!ConversationInv, [C!Next]_(C!vars)
  PROVE  C!ConversationInv'
<1>1. CASE C!Next
  BY <1>1, ReceiveFits, SearchFits, MeanwhileFits, AssembleFits, RouteFits, CompleteFits, RefuseFits,
     SendFailsFits, PublishFits, ProposeFits DEF C!Next
<1>2. CASE UNCHANGED C!vars
  <2>1. /\ C_home' = C_home /\ C_inbound' = C_inbound /\ C_scope' = C_scope /\ C_audience' = C_audience
        /\ C_memory' = C_memory /\ C_present' = C_present /\ C_steady' = C_steady /\ C_hits' = C_hits
        /\ C_prompt' = C_prompt /\ C_told' = C_told /\ C_stage' = C_stage /\ C_events' = C_events
    BY <1>2 DEF C!vars
  <2>2. C!TypeOK' /\ C!ScopeFits'
    BY <2>1, CountsAlike DEF C!ConversationInv, C!TypeOK, C!ScopeFits
  <2>3. \A k : C!Shown(k)' = C!Shown(k) /\ C!ReadSpace(k)' = C!ReadSpace(k)
    BY <2>1 DEF C!Shown, C!ReadSpace
  <2>4. C!ReadKinds' = C!ReadKinds
    BY <2>1 DEF C!ReadKinds
  <2>5. C!FoundFits'
    <3>1. C!Queries' = C!Queries
      BY <2>1 DEF C!Queries
    <3>2. \A q : C!HitFits(q)' = C!HitFits(q)
      BY <2>1, CountsAlike DEF C!HitFits, C!IsIn
    <3>3. C!SearchSpace(C_scope.write)' = C!SearchSpace(C_scope.write)
      BY <2>1, SameFindings
    <3> QED
      BY <2>1, <2>3, <3>1, <3>2, <3>3 DEF C!ConversationInv, C!FoundFits
  <2>6. C!TouchesPrivateMemory(C_scope)' = C!TouchesPrivateMemory(C_scope)
    BY <2>1 DEF C!TouchesPrivateMemory
  <2>7. C!StageFits' /\ C!Shows' = C!Shows
    BY <2>1, <2>6 DEF C!ConversationInv, C!StageFits, C!Shows
  <2>8. C!ShownIsTheirs => C!ShownIsTheirs'
    BY <2>1, <2>3 DEF C!ShownIsTheirs
  <2>9. C!NothingOverlooked => C!NothingOverlooked'
    BY <2>1, <2>3, <2>4, CountsAlike DEF C!NothingOverlooked
  <2>10. C!DisclosedTruly => C!DisclosedTruly'
    BY <2>1, <2>3, <2>4, <2>6 DEF C!DisclosedTruly
  <2>11. C!RanksByWords => C!RanksByWords'
    BY <2>1, <2>3, <2>4 DEF C!RanksByWords, C!FoundBy
  <2>12. C!TrimsInOrder => C!TrimsInOrder'
    BY <2>1 DEF C!TrimsInOrder
  <2>13. C!LineIsTrue => C!LineIsTrue'
    BY <2>1, <2>3, CountsAlike DEF C!LineIsTrue
  <2>14. C!Answers => C!Answers'
    BY <2>1 DEF C!Answers
  <2> QED
    BY <2>2, <2>5, <2>7, <2>8, <2>9, <2>10, <2>11, <2>12, <2>13, <2>14 DEF C!ConversationInv, C!ToldTruly
<1> QED
  BY <1>1, <1>2

HIDE DEF C_home, C_inbound, C_scope, C_audience, C_memory, C_present, C_steady, C_hits, C_prompt, C_told,
     C_stage, C_events

=============================================================================
