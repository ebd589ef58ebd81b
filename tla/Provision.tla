----------------------------- MODULE Provision -----------------------------
(***************************************************************************)
(* The secrets of a household, from kenward.yaml to the process that reads  *)
(* them.  The configuration names each secret's source and holds none.  The *)
(* host's process checks the file and proves every secret it will hand to a *)
(* pod; a pod's container is made with its own unit's secrets, resolved     *)
(* then; and the pod's process checks the same file with what it was given. *)
(* A unit's health check, kenward doctor, judges it a third time.           *)
(***************************************************************************)
EXTENDS Naturals, FiniteSets

CONSTANTS
  Members,
  Endpoints, Tiers, Tagged,   \* the endpoints each tier's tag is on
  Sources,                    \* the variables and files a configuration may name
  Files, Relative,            \* those that are files, and those with a relative path
  Houses,                     \* the configurations
  MaxFaults                   \* bound: how often a source comes or goes

House == "house"                    \* the household's bot and its node
Group == "group"                    \* the unit of the group chat
Whole == "whole"                    \* the scope of a process that runs no single unit
Units == Members \cup {Group}

\* Each secret; it is the name of its systemd credential too, if nothing is stated.
Bot(u) == <<"bot", u>>
Passphrase(u) == <<"passphrase", u>>
Key(e) == <<"key", e>>
LinkKey == <<"link", House>>
Secrets == {Bot(u) : u \in Members \cup {House}} \cup {Passphrase(u) : u \in Members \cup {House}}
           \cup {Key(e) : e \in Endpoints} \cup {LinkKey}
Ambient == <<"ambient", House>>     \* a node's KENWARD_PASSPHRASE
Slots == Sources \cup Secrets \cup {Ambient}

Configuration ==
  [mode : {"simple", "isolated"}, group : BOOLEAN, sharedOnly : SUBSET Members,
   chain : [Units -> SUBSET Tiers], ref : [Secrets -> SUBSET Sources]]

ProvisionAssumption ==
  /\ Relative \subseteq Files /\ Files \subseteq Sources /\ Houses \subseteq Configuration
  /\ Tagged \in [Tiers -> SUBSET Endpoints] /\ MaxFaults \in Nat
  /\ {House, Group, Whole} \cap Members = {} /\ Sources \cap (Secrets \cup {Ambient}) = {}

VARIABLES
  house,      \* kenward.yaml
  have,       \* what holds a value on the host: variables, files, credentials
  host,       \* the host's process
  given,      \* the secrets that the host's process hands to each unit's pod
  container,  \* the slots that each unit's container was made with
  faults

provisionVars == <<house, have, host, given, container, faults>>

NoPod == {<<"none", House>>}
TypeOK ==
  /\ house \in Configuration /\ have \subseteq Slots
  /\ host \in {"off", "checked", "up", "refused"}
  /\ DOMAIN given = Units /\ DOMAIN container = Units
  /\ \A u \in Units : /\ given[u] = NoPod \/ given[u] \subseteq Secrets
                      /\ container[u] = NoPod \/ container[u] \subseteq Slots
  /\ faults \in 0..MaxFaults
  /\ host = "up" \/ \A u \in Units : given[u] = NoPod

-----------------------------------------------------------------------------
\* Secrets.Resolve over what a process holds: what is stated must be there, and be the
\* only source; what is not stated may be a credential, except the node's passphrase.
Resolve(s, held) ==
  IF house.ref[s] # {}
  THEN IF Cardinality(house.ref[s]) = 1 /\ house.ref[s] \subseteq held THEN "set" ELSE "fault"
  ELSE IF s \in held /\ s # Passphrase(House) THEN "set" ELSE "absent"

\* UnitScope: whom a process serves.
Serves(scope, m) == scope \in {Whole, m}
ServesGroup(scope) == scope \in {Whole, Group}

\* EndpointsForUnit: the endpoints that a unit's chain of tiers reaches.
EndpointsFor(scope) ==
  IF scope = Whole THEN Endpoints ELSE UNION {Tagged[t] : t \in house.chain[scope]}

\* secretRefs: the secrets that a process with this scope must be able to read ...
Required(scope) ==
  IF house.mode = "simple" THEN {Bot(House)}
  ELSE (IF house.group /\ ServesGroup(scope) THEN {Bot(House)} ELSE {})
       \cup UNION {{Bot(m), Passphrase(m)} : m \in {n \in Members \ house.sharedOnly : Serves(scope, n)}}
\* A mutant of Optional: the keys of every endpoint, also in a pod.
OptionalOfAll(scope) ==
  {Key(e) : e \in Endpoints}
  \cup (IF house.mode = "simple" THEN {Passphrase(House)} ELSE {LinkKey})

\* ... and those that only must not be stated and unreadable.
Optional(scope) ==
  {Key(e) : e \in EndpointsFor(scope)}
  \cup (IF house.mode = "simple" THEN {Passphrase(House)} ELSE {LinkKey})

\* checkTokenSource, checkPassphraseSource: no two pods name one source.
Owners(kind) == (Members \ house.sharedOnly) \cup (IF kind = "bot" THEN {House} ELSE {})
Apart(kind) ==
  \A m, n \in Owners(kind) : m # n => house.ref[<<kind, m>>] \cap house.ref[<<kind, n>>] = {}

\* validateTiers, validateMembers and validateSecretSources: what is wrong in the file
\* whoever reads it.
Served(chain) == chain # {} /\ \A t \in chain : Tagged[t] # {}
Sound ==
  /\ Served(house.chain[Group])
  /\ \A m \in Members :
       IF m \in house.sharedOnly
       THEN house.chain[m] = {} /\ house.ref[Bot(m)] = {} /\ house.ref[Passphrase(m)] = {}
       ELSE Served(house.chain[m])
  /\ house.mode = "isolated" => Apart("bot") /\ Apart("passphrase")
  /\ \A s \in Secrets : Cardinality(house.ref[s]) <= 1

\* ValidateForUnit, of the process that holds these slots.
Valid(scope, held) ==
  /\ Sound
  /\ \A s \in Required(scope) : Resolve(s, held) = "set"
  /\ \A s \in Optional(scope) : Resolve(s, held) # "fault"

-----------------------------------------------------------------------------
\* What a pod is handed: its bot, the passphrase of its member, the keys its chain
\* reaches and the link key, the last two only if there are any now.
HasPod(u) == IF u = Group THEN house.group ELSE u \notin house.sharedOnly
Own(u) == IF u = Group THEN {Bot(House)} ELSE {Bot(u), Passphrase(u)}
Handed(u) ==
  Own(u) \cup {s \in {LinkKey} \cup {Key(e) : e \in EndpointsFor(u)} : Resolve(s, have) = "set"}

\* newPodSecret: a variable stays a variable, a file a file, a credential a credential.
Travels(s) == house.ref[s] \cap Relative = {}
Slot(s) == IF house.ref[s] # {} THEN house.ref[s] ELSE {s}

\* findPassphrase, with nobody at a terminal.
Unlocks(scope, held) ==
  LET s == Passphrase(IF scope = Whole THEN House ELSE scope)
  IN Resolve(s, held) = "set" \/ (Resolve(s, held) = "absent" /\ Ambient \in held)

\* kenward run in a pod: it checks the file, unlocks its member's key and takes its bot.
RunsUnit(u, held) ==
  /\ Valid(u, held) /\ HasPod(u)
  /\ u # Group => Unlocks(u, held)
  /\ Resolve(Bot(IF u = Group THEN House ELSE u), held) = "set"

\* kenward doctor, on what the configuration needs: its exit code is the health check's.
\* Every bot of its scope is asked for, whether or not anything runs on it.
Bots(scope) ==
  IF house.mode = "simple" THEN {Bot(House)}
  ELSE {Bot(m) : m \in {n \in Members : Serves(scope, n)}}
       \cup (IF ServesGroup(scope) THEN {Bot(House)} ELSE {})
Doctor(scope, held) ==
  /\ Valid(scope, held)
  /\ (scope \in Members \/ (scope = Whole /\ house.mode = "simple")) => Unlocks(scope, held)
  /\ \A s \in Bots(scope) : Resolve(s, held) = "set"
  /\ \A e \in EndpointsFor(scope) : Resolve(Key(e), held) # "fault"

-----------------------------------------------------------------------------
Init ==
  /\ house \in Houses
  /\ have = Slots \ Secrets
  /\ host = "off" /\ faults = 0
  /\ given = [u \in Units |-> NoPod] /\ container = [u \in Units |-> NoPod]

\* A file comes or goes.  A process keeps the variables and credentials it began with.
Change(x) ==
  /\ faults < MaxFaults /\ faults' = faults + 1
  /\ x \in Files \/ host = "off"
  /\ have' = IF x \in have THEN have \ {x} ELSE have \cup {x}
  /\ UNCHANGED <<house, host, given, container>>

\* kenward run on the host: the configuration is loaded and judged for the household.
HostChecks ==
  /\ host = "off"
  /\ host' = IF Valid(Whole, have) THEN "checked" ELSE "refused"
  /\ UNCHANGED <<house, have, given, container, faults>>

\* Simple mode: the node's passphrase and the household's bot.
NodeStarts ==
  /\ host = "checked" /\ house.mode = "simple"
  /\ host' = IF Unlocks(Whole, have) /\ Resolve(Bot(House), have) = "set" THEN "up" ELSE "refused"
  /\ UNCHANGED <<house, have, given, container, faults>>

\* NewIsolated: the secrets of every pod are proved, and must be able to travel.
Proved(u) ==
  /\ \A s \in Own(u) : Resolve(s, have) = "set"
  /\ \A s \in {LinkKey} \cup {Key(e) : e \in EndpointsFor(u)} : Resolve(s, have) # "fault"
  /\ \A s \in Handed(u) : Travels(s)
Podded == {u \in Units : HasPod(u)}
HostBuilds ==
  /\ host = "checked" /\ house.mode = "isolated"
  /\ \/ /\ Podded # {} /\ \A u \in Podded : Proved(u)
        /\ host' = "up" /\ given' = [u \in Units |-> IF HasPod(u) THEN Handed(u) ELSE NoPod]
     \/ /\ Podded = {} \/ \E u \in Podded : ~Proved(u)
        /\ host' = "refused" /\ UNCHANGED given
  /\ UNCHANGED <<house, have, container, faults>>

HostStops ==
  /\ host \in {"up", "refused"} /\ host' = "off"
  /\ given' = [u \in Units |-> NoPod]
  /\ UNCHANGED <<house, have, container, faults>>

\* A pod is made, or made anew: specFor resolves its secrets now, or there is no pod.
Make(u) ==
  /\ host = "up" /\ given[u] # NoPod
  /\ \A s \in given[u] : Resolve(s, have) = "set"
  /\ container' = [container EXCEPT ![u] = UNION {Slot(s) : s \in given[u]}]
  /\ UNCHANGED <<house, have, host, given, faults>>

Next ==
  \/ HostChecks \/ NodeStarts \/ HostBuilds \/ HostStops
  \/ \E x \in Slots : Change(x)
  \/ \E u \in Units : Make(u)

Spec == Init /\ [][Next]_provisionVars

-----------------------------------------------------------------------------
\* Whatever pod the host makes, the process in it accepts the configuration with what
\* it was given, and its health check agrees that it does.
EveryPodServes ==
  \A u \in Units : container[u] # NoPod =>
    RunsUnit(u, container[u]) /\ Doctor(u, container[u])

\* No bot and no passphrase of one unit is in the pod of another, but by a source that the
\* file names for a secret of another kind as well: it is only compared within a kind.
Kind(s) == s[1]
PodsAreApart ==
  \A u, v \in Units : u # v /\ container[u] # NoPod /\ container[v] # NoPod =>
    \A s \in Own(u) :
      Slot(s) \cap container[v] \subseteq UNION {Slot(t) : t \in {x \in Secrets : Kind(x) # Kind(s)}}

\* Why they hold: what is handed to a pod was proved, so that what was not handed is not
\* stated either; a container is made of all that was handed or not at all; and neither
\* changes what the configuration says.
Proper(u) == Own(u) \cup {LinkKey} \cup {Key(e) : e \in EndpointsFor(u)}
Podable(u) == Sound /\ house.mode = "isolated" /\ HasPod(u)
HandedOnceProved ==
  \A u \in Units : given[u] # NoPod =>
    /\ Podable(u) /\ Own(u) \subseteq given[u] /\ given[u] \subseteq Proper(u)
    /\ \A s \in Proper(u) \ given[u] : house.ref[s] = {}
MadeOfItsOwn ==
  \A u \in Units : container[u] # NoPod =>
    Podable(u) /\ container[u] \subseteq UNION {Slot(s) : s \in Proper(u)}
ProvisionInv ==
  /\ TypeOK /\ EveryPodServes /\ PodsAreApart /\ HandedOnceProved /\ MadeOfItsOwn
  /\ host \in {"checked", "up"} => Sound

=============================================================================
