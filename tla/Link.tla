-------------------------------- MODULE Link --------------------------------
(***************************************************************************)
(* The memory each process serves with, and how the household's one space   *)
(* comes into the stores of its members' pods.  A process that starts gives *)
(* its lore home an account, makes the spaces that are its own, and refuses *)
(* to serve on a store that holds none of those it is configured for.  Then *)
(* the group's pod keeps a desk that admits who holds the household's link  *)
(* key, and every member's pod asks there until it holds the space.         *)
(* Processes die at any step, answers are lost, volumes are replaced and    *)
(* the key is changed under pods that keep the one they were made with.     *)
(* The store is lore's: a space is known by the key generated where it was  *)
(* made, and two stores exchange what is in it only under the same key.     *)
(***************************************************************************)
EXTENDS Integers

CONSTANTS
  Members,
  Keys,       \* the values the household's link key may have
  MaxFaults,  \* bound: how often a volume is replaced or the key is changed
  Nil

Group == "group"
Node == "node"
Units == Members \cup {Group, Node}
SpaceKeys == Units \X (0..MaxFaults)
Homes == [private : BOOLEAN, shared : {Nil} \cup SpaceKeys]

LinkAssumption ==
  /\ Nil \notin Members \cup Keys \cup SpaceKeys \cup Homes /\ MaxFaults \in Nat
  /\ Members \cap {Group, Node} = {}

VARIABLES
  mode,     \* simple: one node; isolated: a pod for the group and one for each member
  home,     \* each unit's lore home: whether its private spaces are there, and the household's
  volume,   \* how often its volume was replaced: the account its home has
  process,  \* how far its process has come
  key,      \* the link key its pod was made with
  secret,   \* the household's link key
  link,     \* its half of the handshake, and the grant it was given
  members,  \* the accounts the owner of the household's space has admitted
  faults

linkVars == <<mode, home, volume, process, key, secret, link, members, faults>>

Runs(u) == (mode = "simple") = (u = Node)

NoLink == [at |-> "none", grant |-> Nil]
Fresh == [private |-> FALSE, shared |-> Nil]
Joining == {"looking", "asking", "granted", "waiting"}

TypeOK ==
  /\ mode \in {"simple", "isolated"}
  /\ home \in [Units -> {Nil} \cup Homes]
  /\ volume \in [Units -> 0..MaxFaults]
  /\ process \in [Units -> {"down", "opening", "making", "checking", "linking", "serving"}]
  /\ key \in [Units -> Keys \cup {Nil}] /\ secret \in Keys \cup {Nil}
  /\ link \in [Units -> [at : Joining \cup {"none", "done", "desk"}, grant : {Nil} \cup SpaceKeys]]
  /\ members \subseteq Members \X (0..MaxFaults) /\ faults \in 0..MaxFaults
  \* no handshake outlives its process, and nothing runs without a home once it is opened
  /\ \A u \in Units : link[u] # NoLink => process[u] = "serving"
  /\ \A u \in Units : process[u] \notin {"down", "opening"} => home[u] # Nil

\* The wizard filled a simple node's store, or all but an id that was mistyped, or another
\* store than the one LORE_HOME names, which is somebody's or nobody's.
Init ==
  /\ mode \in {"simple", "isolated"}
  /\ \E h \in {Nil, Fresh, [private |-> TRUE, shared |-> Nil], [private |-> TRUE, shared |-> <<Node, 0>>]} :
       home = [u \in Units |-> IF u = Node /\ mode = "simple" THEN h ELSE Nil]
  /\ volume = [u \in Units |-> 0] /\ process = [u \in Units |-> "down"]
  /\ secret \in Keys \cup {Nil} /\ key = [u \in Units |-> Nil]
  /\ link = [u \in Units |-> NoLink] /\ members = {} /\ faults = 0

-----------------------------------------------------------------------------
At(u, stage) == process[u] = stage
Moves(u, stage) == process' = [process EXCEPT ![u] = stage]
Exits(u) == Moves(u, "down") /\ link' = [link EXCEPT ![u] = NoLink]
bootFrame == <<mode, volume, secret, members, faults>>

\* A pod is made with the key of the day, or an older one starts again.
Boot(u) ==
  /\ Runs(u) /\ At(u, "down") /\ Moves(u, "opening")
  /\ key' \in {key, [key EXCEPT ![u] = secret]}
  /\ UNCHANGED <<bootFrame, home, link>>

\* lore.Init never touches a home that holds a store.
Initialised(h) == IF h = Nil THEN Fresh ELSE h

InitLoreHome(u) ==
  /\ At(u, "opening")
  /\ \/ home' = [home EXCEPT ![u] = Initialised(@)] /\ Moves(u, "making") /\ UNCHANGED link
     \/ Exits(u) /\ UNCHANGED home
  /\ UNCHANGED <<bootFrame, key>>

\* A mutant of OwnSpaces: every pod makes every space it is configured for.
OwnSpacesAll(u) == CASE u = Node -> {} [] u = Group -> {"shared"} [] OTHER -> {"private", "shared"}

\* A member's pod makes the member's space and the group's pod the household's; a simple
\* node makes none, for those it is configured for are in the store they were made in.
OwnSpaces(u) == CASE u = Node -> {} [] u = Group -> {"shared"} [] OTHER -> {"private"}
ConfiguredSpaces(u) == IF u = Group THEN {"shared"} ELSE {"private", "shared"}

\* A space that is made has a key of its own; one that is there already is left as it is.
Created(u, h) ==
  [private |-> h.private \/ "private" \in OwnSpaces(u),
   shared |-> IF h.shared = Nil /\ "shared" \in OwnSpaces(u) THEN <<u, volume[u]>> ELSE h.shared]

MakeLoreSpaces(u) ==
  /\ At(u, "making")
  /\ \/ home' = [home EXCEPT ![u] = Created(u, @)] /\ Moves(u, "checking") /\ UNCHANGED link
     \/ Exits(u) /\ UNCHANGED home
  /\ UNCHANGED <<bootFrame, key>>

\* The store is asked for each space the unit is configured for.
Held(u) == {s \in ConfiguredSpaces(u) : IF s = "private" THEN home[u].private ELSE home[u].shared # Nil}

\* judgeMemory: a store with none of the spaces is not this household's; one with some is
\* served on, with a line for those that are missing.
Fatal(u) == Held(u) = {}

CheckLore(u) ==
  /\ At(u, "checking")
  /\ \/ ~Fatal(u) /\ Moves(u, "linking") /\ UNCHANGED link
     \/ Exits(u)
  /\ UNCHANGED <<bootFrame, key, home>>

\* startLink, behind the sync daemon whose handle on the store it takes: without that
\* handle, without a key, and in a simple node there is no handshake until the next start,
\* and the unit serves all the same.  The group's pod may also fail to bind its desk.
StartLink(u) ==
  /\ At(u, "linking") /\ Moves(u, "serving")
  /\ \/ UNCHANGED link
     \/ /\ u # Node /\ key[u] # Nil
        /\ link' = [link EXCEPT ![u].at = IF u = Group THEN "desk" ELSE "looking"]
  /\ UNCHANGED <<bootFrame, key, home>>

\* The process dies, or is stopped.
Dies(u) ==
  /\ ~At(u, "down") /\ Exits(u)
  /\ UNCHANGED <<bootFrame, key, home>>

-----------------------------------------------------------------------------
Goes(m, at, grant) == link' = [link EXCEPT ![m] = [at |-> at, grant |-> grant]]
joinFrame == <<mode, volume, process, key, secret, faults>>

\* Join looks before it asks: a pod that holds the space is done.
Look(m) ==
  /\ link[m].at = "looking"
  /\ \/ Goes(m, IF home[m].shared # Nil THEN "done" ELSE "asking", Nil)
     \/ Goes(m, "waiting", Nil)
  /\ UNCHANGED <<joinFrame, home, members>>

\* Both directions are signed with the key the two pods hold.
Proves(m) == key[m] = key[Group]

\* The desk admits the asker's account to its own store's space, as often as it is asked,
\* and seals the space's key for it; the answer arrives or is lost.
HandleGrant(m) ==
  /\ link[m].at = "asking" /\ link[Group].at = "desk" /\ Proves(m)
  /\ members' = members \cup {<<m, volume[m]>>}
  /\ Goes(m, "granted", home[Group].shared) \/ Goes(m, "waiting", Nil)
  /\ UNCHANGED <<joinFrame, home>>

\* askOnce: no desk is found, or those that are found refuse or do not answer.
Unanswered(m) ==
  /\ link[m].at = "asking" /\ Goes(m, "waiting", Nil)
  /\ UNCHANGED <<joinFrame, home, members>>

\* The grant is opened with the store's own key, and its space takes the place of any
\* other of that id; or the store cannot take it now.
AcceptGrant(m) ==
  /\ link[m].at = "granted"
  /\ \/ home' = [home EXCEPT ![m].shared = link[m].grant] /\ Goes(m, "done", Nil)
     \/ Goes(m, "waiting", Nil) /\ UNCHANGED home
  /\ UNCHANGED <<joinFrame, members>>

Retry(m) ==
  /\ link[m].at = "waiting" /\ Goes(m, "looking", Nil)
  /\ UNCHANGED <<joinFrame, home, members>>

-----------------------------------------------------------------------------
\* The volume of a pod that is down is lost, or the operator changes the link key.
Replace(u) ==
  /\ faults < MaxFaults /\ faults' = faults + 1
  /\ Runs(u) /\ At(u, "down") /\ home[u] # Nil
  /\ home' = [home EXCEPT ![u] = Nil] /\ volume' = [volume EXCEPT ![u] = @ + 1]
  /\ members' = IF u = Group THEN {} ELSE members
  /\ UNCHANGED <<mode, process, key, secret, link>>
ChangeKey ==
  /\ faults < MaxFaults /\ faults' = faults + 1
  /\ mode = "isolated" /\ secret' \in Keys \ {secret}
  /\ UNCHANGED <<mode, home, volume, process, key, link, members>>

Next ==
  \/ \E u \in Units : \/ Boot(u) \/ InitLoreHome(u) \/ MakeLoreSpaces(u) \/ CheckLore(u)
                      \/ StartLink(u) \/ Dies(u) \/ Replace(u)
  \/ \E m \in Members : Look(m) \/ HandleGrant(m) \/ Unanswered(m) \/ AcceptGrant(m) \/ Retry(m)
  \/ ChangeKey

Spec == Init /\ [][Next]_linkVars

-----------------------------------------------------------------------------
Shared(u) == IF home[u] = Nil THEN Nil ELSE home[u].shared

\* No unit serves, and greets its members, on a store that can remember nothing for it.
RemembersSomething == \A u \in Units : At(u, "serving") => Held(u) # {}

\* The household's space is one: what a member's pod holds under its id was made by the
\* group's pod, and is what that pod holds now unless its volume was replaced since; and
\* whoever holds it was admitted by its owner, with the account they have now.
OneHouseholdSpace ==
  \A m \in Members : Shared(m) # Nil =>
    /\ Shared(m)[1] = Group
    /\ Shared(m)[2] = volume[Group] => Shared(m) = Shared(Group) /\ <<m, volume[m]>> \in members

\* A pod that has begun to ask does not stop before it holds the space.
AsksUntilAdmitted == \A m \in Members : link[m].at = "done" => Shared(m) # Nil

\* What link promises: memory to serve with, one household space, and pods that ask for it.
MemoryIsShared == RemembersSomething /\ OneHouseholdSpace /\ AsksUntilAdmitted

\* What these rest on: a space that is granted, like one that is held, is the group's, and
\* the present one only with an account that was admitted; who has been checked remembers
\* something still.
Owned(m, space) ==
  space # Nil =>
    /\ space[1] = Group /\ space[2] <= volume[Group]
    /\ space[2] = volume[Group] => space = Shared(Group) /\ <<m, volume[m]>> \in members
LinkInv ==
  /\ TypeOK /\ MemoryIsShared
  /\ \A u \in Units : volume[u] <= faults
  /\ \A u \in Units : process[u] = "linking" => Held(u) # {}
  /\ link[Node] = NoLink /\ link[Group].grant = Nil
  /\ Shared(Group) # Nil => Shared(Group) = <<Group, volume[Group]>>
  /\ \A m \in Members : Owned(m, Shared(m)) /\ Owned(m, link[m].grant)
  /\ \A m \in Members : link[m].at = "granted" => link[m].grant # Nil

=============================================================================
