---------------------------- MODULE Parts_proofs ----------------------------
(***************************************************************************)
(* The parts of a household's process put together, for any constants:     *)
(* each moves by itself, so that the invariants that their own steps keep  *)
(* (Node_proofs, Pods_proofs, Dashboard_proofs) hold of all of them at     *)
(* once.  The theorems about the parts are stated here, of the behaviours  *)
(* of MCParts.                                                             *)
(***************************************************************************)
EXTENDS Node_proofs, Pods_proofs, Dashboard_proofs

\* The inductive invariant of the whole: that of each part.
PartsInv ==
  /\ PoolInv /\ PoolTypeOK /\ FleetInv /\ FleetFits /\ UpdatesInv
  /\ part = "crossing" => X!CrossingInv
  /\ part = "link" => L!LinkInv
  /\ part = "enrolment" => E!EnrolInv
  /\ part = "provision" => P!ProvisionInv
  /\ part = "dashboard" => D!DashboardInv
  /\ part = "access" => A!AccessInv
  /\ part = "sessions" => S!SessionsInv
  /\ part = "mux" => M!MuxInv
  /\ part = "conversation" => C!ConversationInv

\* A step is one of the part that moves, on its own variables.
LEMMA OnePartMoves ==
  ASSUME [Next]_partsVars
  PROVE  /\ part' = part
         /\ [PoolNext]_poolVars /\ [FleetNext]_fleetVars /\ [UpdatesNext]_updatesVars
         /\ part = "crossing" => [X!Next]_(X!crossingVars)
         /\ part = "link" => [L!Next]_(L!linkVars)
         /\ part = "enrolment" => [E!Next]_(E!enrolVars)
         /\ part = "provision" => [P!Next]_(P!provisionVars)
         /\ part = "dashboard" => [D!Next]_(D!dashboardVars)
         /\ part = "access" => [A!Next]_(A!accessVars)
         /\ part = "sessions" => [S!Next]_(S!sessionsVars)
         /\ part = "mux" => [M!Next]_(M!muxVars)
         /\ part = "conversation" => [C!Next]_(C!vars)
<1>1. CASE UNCHANGED partsVars
  <2>1. part' = part /\ Shared' = Shared /\ UNCHANGED <<poolVars, fleetVars, updatesVars>>
    BY <1>1 DEF partsVars
  <2>2. /\ UNCHANGED X!crossingVars /\ UNCHANGED L!linkVars /\ UNCHANGED E!enrolVars
        /\ UNCHANGED P!provisionVars /\ UNCHANGED D!dashboardVars /\ UNCHANGED A!accessVars
        /\ UNCHANGED S!sessionsVars /\ UNCHANGED M!muxVars /\ UNCHANGED C!vars
    BY <2>1 DEF Shared, X!crossingVars, X!host, L!linkVars, E!enrolVars, E!files, E!node, E!told,
       P!provisionVars, D!dashboardVars, A!accessVars, S!sessionsVars, M!muxVars, C!vars
  <2> QED
    BY <2>1, <2>2
<1>2. CASE Next
  BY <1>2 DEF Next
<1> QED
  BY <1>1, <1>2

LEMMA PartsInit == Init => PartsInv
<1> SUFFICES ASSUME Init PROVE PartsInv
  OBVIOUS
<1>1. PoolInv /\ PoolTypeOK /\ FleetInv /\ FleetFits /\ UpdatesInv
  BY PartsAssumption, PoolInitInv, PoolTypesInit, FleetInitInv, FleetFitsInit, UpdatesInitInv
     DEF Init, PartsAssumption
<1>2. part = "crossing" => X!CrossingInv
  BY PartsAssumption, CrossingInit DEF Init, PartsAssumption
<1>3. part = "link" => L!LinkInv
  BY PartsAssumption, LinkInit DEF Init, PartsAssumption
<1>4. part = "enrolment" => E!EnrolInv
  BY PartsAssumption, EnrolInit DEF Init, PartsAssumption
<1>5. part = "provision" => P!ProvisionInv
  BY PartsAssumption, ProvisionInit DEF Init, PartsAssumption
<1>6. part = "dashboard" => D!DashboardInv
  BY PartsAssumption, DashboardInit DEF Init, PartsAssumption
<1>7. part = "access" => A!AccessInv
  BY PartsAssumption, AccessInit DEF Init, PartsAssumption
<1>8. part = "sessions" => S!SessionsInv
  BY PartsAssumption, SessionsInit DEF Init, PartsAssumption
<1>9. part = "mux" => M!MuxInv
  BY PartsAssumption, MuxInit DEF Init, PartsAssumption
<1>10. part = "conversation" => C!ConversationInv
  BY PartsAssumption, ConversationInit DEF Init, PartsAssumption
<1> QED
  BY <1>1, <1>2, <1>3, <1>4, <1>5, <1>6, <1>7, <1>8, <1>9, <1>10 DEF PartsInv

LEMMA PartsStep == PartsInv /\ [Next]_partsVars => PartsInv'
<1> SUFFICES ASSUME PartsInv, [Next]_partsVars PROVE PartsInv'
  OBVIOUS
<1>1. PoolInv' /\ PoolTypeOK'
  BY PartsAssumption, OnePartMoves, PoolNextInv, PoolTypesStep DEF PartsInv, PartsAssumption
<1>2. FleetInv' /\ FleetFits' /\ UpdatesInv'
  BY PartsAssumption, OnePartMoves, FleetNextInv, FleetFitsStep, UpdatesNextInv DEF PartsInv, PartsAssumption
<1>3. (part = "crossing" => X!CrossingInv)'
  BY PartsAssumption, OnePartMoves, CrossingStep DEF PartsInv, PartsAssumption
<1>4. (part = "link" => L!LinkInv)'
  BY PartsAssumption, OnePartMoves, LinkStep DEF PartsInv, PartsAssumption
<1>5. (part = "enrolment" => E!EnrolInv)'
  BY PartsAssumption, OnePartMoves, EnrolStep DEF PartsInv, PartsAssumption
<1>6. (part = "provision" => P!ProvisionInv)'
  BY PartsAssumption, OnePartMoves, ProvisionStep DEF PartsInv, PartsAssumption
<1>7. (part = "dashboard" => D!DashboardInv)'
  BY PartsAssumption, OnePartMoves, DashboardStep DEF PartsInv, PartsAssumption
<1>8. (part = "access" => A!AccessInv)'
  BY PartsAssumption, OnePartMoves, AccessStep DEF PartsInv, PartsAssumption
<1>9. (part = "sessions" => S!SessionsInv)'
  BY PartsAssumption, OnePartMoves, SessionsStep DEF PartsInv, PartsAssumption
<1>10. (part = "mux" => M!MuxInv)'
  BY PartsAssumption, OnePartMoves, MuxStep DEF PartsInv, PartsAssumption
<1>11. (part = "conversation" => C!ConversationInv)'
  BY PartsAssumption, OnePartMoves, ConversationStep DEF PartsInv, PartsAssumption
<1> QED
  BY <1>1, <1>2, <1>3, <1>4, <1>5, <1>6, <1>7, <1>8, <1>9, <1>10, <1>11 DEF PartsInv

LEMMA PartsInvariant == Spec => []PartsInv
BY PartsInit, PartsStep, PTL DEF Spec

-----------------------------------------------------------------------------
\* The types of every part, with what its variables owe to one another: the ranks of the
\* pool's endpoints, the owners of the pods' locks, and what each part's own module says.
THEOREM PartsTypesHold == Spec => []PartsTypeOK
<1>1. FleetInv /\ FleetFits => FleetTypeOK
  BY PartsAssumption, FleetTyped DEF PartsAssumption
<1>2. PartsInv => PartsTypeOK
  BY <1>1 DEF PartsInv, PartsTypeOK, UpdatesInv, X!CrossingInv, L!LinkInv, E!EnrolInv, P!ProvisionInv,
     D!DashboardInv, A!AccessInv, S!SessionsInv, M!MuxInv, C!ConversationInv
<1> QED
  BY <1>2, PartsInvariant, PTL

\* Whatever crosses to a pod, dies or is lost: a member it serves was not revoked after
\* they claimed, a claim made later stands, a code that was spent in a pod stays spent, and
\* no pod serves before it has its codes (supervisor's isolated.go and pod.go).
THEOREM RevocationsAreObeyed == Spec => []RevokedIsNotServed
<1>1. PartsInv => RevokedIsNotServed
  BY DEF PartsInv, RevokedIsNotServed, X!CrossingInv
<1> QED
  BY <1>1, PartsInvariant, PTL

\* For any pods and any lost volumes: whoever serves remembers something, the household's
\* space is one, and a pod asks for it until it holds it (link.go, isolated.go).
THEOREM HouseholdSpaceIsOne == Spec => []MemoryIsShared
<1>1. PartsInv => MemoryIsShared
  BY DEF PartsInv, MemoryIsShared, L!LinkInv
<1> QED
  BY <1>1, PartsInvariant, PTL

\* For any members, accounts and codes, between a node and the commands that write its
\* files: no account is bound to two members, a code enrols one account, and whom the file
\* says to have been told was told (enroll's handler.go, binder.go and tutorial.go).
THEOREM EnrolmentIsSound == Spec => []EnrolsOnce
<1>1. PartsInv => EnrolsOnce
  BY DEF PartsInv, EnrolsOnce, E!EnrolInv, E!OneMemberPerAccount, E!ExplainedWasTold, E!Single, E!Told,
     E!CodeEnrolsOnce, E!TypeOK
<1> QED
  BY <1>1, PartsInvariant, PTL

\* For any household and any edits of its file: a pod's process accepts the configuration
\* with what the pod was made with, and two units' pods have neither a bot nor a passphrase
\* in common that the file does not give to both by another name (supervisor's
\* provision.go, config's validate.go).
THEOREM PodsServeOnTheirOwn == Spec => []EveryPodServes
<1>1. PartsInv => EveryPodServes
  BY DEF PartsInv, EveryPodServes, P!ProvisionInv
<1> QED
  BY <1>1, PartsInvariant, PTL

\* For any number of posts, terminals and hands that write at the same time: one household
\* is set up, whom the dashboard adds gets a space, and whom the wizard wrote has their
\* secrets beside the file (dashboard's wizard and members pages, setup's steps.go).
THEOREM OneHouseholdIsSetUp == Spec => []HouseholdIsOne
<1>1. PartsInv => HouseholdIsOne
  BY DEF PartsInv, HouseholdIsOne, D!DashboardInv, D!Sound, D!SpacesAreTheirs
<1> QED
  BY <1>1, PartsInvariant, PTL

\* For any browsers, passwords, limits and times: one account, made once and with one
\* token, whose sessions are its password's, whose setup is over, and whose lockout is
\* served, but for what was under way (dashboard's auth.go, session.go and setup token).
THEOREM TheDashboardIsOneAccounts == Spec => []AccessIsInOrder
<1>1. PartsInv => AccessIsInOrder
  BY DEF PartsInv, AccessIsInOrder, A!AccessInv
<1> QED
  BY <1>1, PartsInvariant, PTL

\* For any members, passphrases and clock: every key of the store opens with the passphrase
\* of the others, whoever writes one while others do (session's manager.go and key.go).
THEOREM OnePassphraseOpensAll == Spec => []OneNodePassphrase
<1>1. PartsInv => OneNodePassphrase
  BY DEF PartsInv, OneNodePassphrase, S!SessionsInv
<1> QED
  BY <1>1, PartsInvariant, PTL

\* For any views, backlog and number of messages: each that was taken for a view was given
\* to it, waits for it or is counted as dropped, in the order in which they came
\* (telegram's mux.go and queue).
THEOREM NothingIsLostInTheMux == Spec => []NothingSilentlyLost
<1>1. PartsInv => NothingSilentlyLost
  BY DEF PartsInv, NothingSilentlyLost, M!MuxInv
<1> QED
  BY <1>1, PartsInvariant, PTL

\* For any members, entries, words and limits: whoever reads a chat is shown nothing of
\* another's memory, and the model and the member are told the truth about what was read, left
\* out and done (scope.go; the assistant's assistant.go, prompt.go and remember.go).
THEOREM TheTurnTellsTheTruth == Spec => []ConversationIsTrue
<1>1. PartsInv => ConversationIsTrue
  BY PartsAssumption, TheTurnIsTrue DEF PartsInv, ConversationIsTrue, PartsAssumption
<1> QED
  BY <1>1, PartsInvariant, PTL

=============================================================================
