------------------------------ MODULE Consent ------------------------------
(***************************************************************************)
(* What the capture engine promises about the memory, in terms of members   *)
(* and entries alone: an entry is kept only in a place its member agreed    *)
(* to, or, for a member who chose to be asked afterwards, in their own      *)
(* private space; and it is taken back only from there, after the member    *)
(* regretted it.  What the household shares is never taken back.            *)
(***************************************************************************)
CONSTANTS
  Entries,    \* the entries a call may create
  Members,    \* the household's members
  Household,  \* the shared space
  SaveFirst,  \* the members who are told of a private entry after it is written
  None        \* the author of an entry nobody has proposed

Places == Members \cup {Household}

VARIABLES
  author,  \* the member each entry is proposed to
  yes,     \* the place they agreed to, or None
  regret,  \* the entries whose author asked for them to be removed
  memory   \* the entries kept in each place

consentVars == <<author, yes, regret, memory>>

Init ==
  /\ author = [e \in Entries |-> None]
  /\ yes = [e \in Entries |-> None]
  /\ regret = {}
  /\ memory = [s \in Places |-> {}]

Propose(e, m) ==
  /\ author[e] = None
  /\ author' = [author EXCEPT ![e] = m]
  /\ UNCHANGED <<yes, regret, memory>>

\* A member agrees to one place only: their own space, or the household's.
Agree(e, s) ==
  /\ author[e] # None /\ yes[e] = None /\ s \in {author[e], Household}
  /\ yes' = [yes EXCEPT ![e] = s]
  /\ UNCHANGED <<author, regret, memory>>

Regret(e) ==
  /\ author[e] \in SaveFirst
  /\ regret' = regret \cup {e}
  /\ UNCHANGED <<author, yes, memory>>

Consented(e, s) == yes[e] = s \/ (s = author[e] /\ s \in SaveFirst)

Keep(e, s) ==
  /\ Consented(e, s) /\ e \notin regret
  /\ memory' = [memory EXCEPT ![s] = @ \cup {e}]
  /\ UNCHANGED <<author, yes, regret>>

TakeBack(e) ==
  /\ e \in regret
  /\ memory' = [memory EXCEPT ![author[e]] = @ \ {e}]
  /\ UNCHANGED <<author, yes, regret>>

Next ==
  \E e \in Entries :
    \/ \E m \in Members : Propose(e, m)
    \/ \E s \in Places : Agree(e, s) \/ Keep(e, s)
    \/ Regret(e) \/ TakeBack(e)

Spec == Init /\ [][Next]_consentVars
=============================================================================
