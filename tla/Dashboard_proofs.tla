------------------------- MODULE Dashboard_proofs -------------------------
(***************************************************************************)
(* Safety of the dashboard, for any constants: what it sets up, whatever   *)
(* else writes the household's file, and who may use it.  Each is one part *)
(* of MCParts, which moves by itself; a part's inductive invariant is in   *)
(* its own module, and its variables go here by the part's letter and      *)
(* their names there.                                                      *)
(***************************************************************************)
EXTENDS MCParts, TLAPS, FiniteSetTheorems, SequenceTheorems

D_file == x1
D_env == x2
D_lore == x3
D_wizard == x6
D_post == x7
D_faults == x8
D_promised == x9
D_homes == x10
USE DEF D_file, D_env, D_lore, D_wizard, D_post, D_faults, D_promised, D_homes

\* The posts are the codes.
LEMMA DashboardInit == ASSUME D!DashboardAssumption, D!Init PROVE D!DashboardInv
<1> USE DEF D!DashboardAssumption
<1>1. D!Missing \in D!Configuration /\ D!Declared(D!Missing) = {} /\ D!Missing.isolated = FALSE
  BY DEF D!Missing, D!Nobody, D!Configuration, D!Declared
<1>2. D!Unsent \in D!Post /\ D!Unsent.cfg = D!Missing /\ D!Unsent.kind = "unsent"
  BY <1>1 DEF D!Unsent, D!Post, D!Kinds
<1>3. /\ D_file \in D!Configuration
      /\ \A m \in D!Declared(D_file) : D_file.row[m].space = Nil /\ D_file.row[m].by = Nil
  <2>1. CASE D_file = D!Missing
    BY <2>1, <1>1
  <2>2. ASSUME NEW n \in Members, D_file = [D!Missing EXCEPT !.row[n] = D!Row(Nil, Nil)]
        PROVE  /\ D_file \in D!Configuration
               /\ \A m \in D!Declared(D_file) : D_file.row[m].space = Nil /\ D_file.row[m].by = Nil
    <3>1. D!Row(Nil, Nil) \in D!Rows /\ D!Row(Nil, Nil).space = Nil /\ D!Row(Nil, Nil).by = Nil
      BY DEF D!Row, D!Rows
    <3>2. D_file.row = [D!Nobody EXCEPT ![n] = D!Row(Nil, Nil)] /\ D_file \in D!Configuration
      BY <2>2, <3>1 DEF D!Missing, D!Nobody, D!Configuration
    <3> QED
      BY <3>1, <3>2 DEF D!Declared, D!Nobody
  <2> QED
    BY <2>1, <2>2 DEF D!Init
<1>4. D!TypeOK
  <2>1. D_post \in [Codes -> D!Post]
    BY <1>2 DEF D!Init
  <2>2. D_wizard \in D!Answers
    BY DEF D!Init, D!NewWizard, D!Answers
  <2>3. /\ D_lore \in [D!Labels -> Codes \cup {Nil}] /\ D_env \in (SUBSET Members) \cup {Nil}
        /\ x4 \subseteq Members /\ x5 \in BOOLEAN /\ D_faults \in 0..MaxFaults
        /\ D_promised \subseteq Members /\ D_homes \subseteq Codes
    <3>1. D_env \in (SUBSET Members) \cup {Nil}
      BY DEF D!Init
    <3>2. D_faults \in 0..MaxFaults
      BY DEF D!Init
    <3>3. D_lore \in [D!Labels -> Codes \cup {Nil}]
      BY DEF D!Init
    <3> QED
      BY <3>1, <3>2, <3>3 DEF D!Init
  <2> QED
    BY <1>3, <2>1, <2>2, <2>3 DEF D!TypeOK
<1>5. D!Sound(D_file) /\ D!Sound(D!Missing)
  BY <1>1, <1>3 DEF D!Sound
<1>6. D!Cardinality({}) <= 1
  BY FS_EmptySet DEF D!Cardinality, Cardinality, D!IsFiniteSet, IsFiniteSet
<1>7. ASSUME NEW r \in Codes PROVE D!PostFits(r)
  <2>1. D_post[r] = D!Unsent
    BY DEF D!Init
  <2> QED
    BY <2>1, <1>2, <1>5 DEF D!PostFits, D!Is
<1> QED
  BY <1>4, <1>5, <1>6, <1>7 DEF D!Init, D!DashboardInv, D!HouseholdIsOne, D!WrittenHouseholdStarts

\* lore's spaces stay, and so what was sound.
D_LoreGrows == \A l \in D!Labels : D_lore[l] # Nil => D_lore'[l] = D_lore[l]

\* Every household that is declared keeps the spaces that it has.
LEMMA StaysSound ==
  ASSUME NEW cfg, D!Sound(cfg), D_LoreGrows
  PROVE  D!Sound(cfg)'
BY DEF D!Sound, D_LoreGrows, D!Declared, D!Labels

\* A file that is there stays, and the first wizard's answers while there is none.
D_FileStays == D_file' = D!Missing => D_file = D!Missing /\ D_wizard' = D_wizard

\* A post that does not move fits the file still.
LEMMA OthersFit ==
  ASSUME D!DashboardInv, D_LoreGrows, D_FileStays, NEW s \in Codes, D_post'[s] = D_post[s]
  PROVE  D!PostFits(s)'
<1>1. D!PostFits(s)
  BY DEF D!DashboardInv, D!PostFits
<1>2. D!Wanted(s)' = D!Wanted(s) /\ D!Declared(D_post[s].cfg)' = D!Declared(D_post[s].cfg)
  BY DEF D!Wanted, D!Declared
<1>3. D!Sound(D_post[s].cfg)'
  BY <1>1 DEF D!PostFits, D!Sound, D_LoreGrows, D!Declared, D!Labels
<1> QED
  BY <1>1, <1>2, <1>3 DEF D!PostFits, D!Is, D_FileStays, D!Complete

\* What remains to be shown of a step, once it is known of every post.
LEMMA DashboardHolds ==
  ASSUME D!DashboardAssumption, D!DashboardInv, \A s \in Codes : D!PostFits(s)',
         D_post' \in [Codes -> D!Post], D_LoreGrows, D_lore' \in [D!Labels -> Codes \cup {Nil}],
         D_file' = D!Missing => D_file = D!Missing,
         D_file' \in D!Configuration, D!Sound(D_file)', D_env' \in (SUBSET Members) \cup {Nil},
         x4' \subseteq Members, x5' \in BOOLEAN, D_wizard' \in D!Answers, D_faults' \in 0..MaxFaults,
         \/ UNCHANGED D_homes
         \/ \E r \in Codes : D_file = D!Missing /\ D_file' # D!Missing /\ D_homes' = D_homes \cup {r},
         \/ UNCHANGED D_promised /\ (D_env' = D_env \/ D_file = D!Missing)
         \/ D_file' # D!Missing /\ D_promised' \subseteq Members /\ D_promised' \subseteq D_env'
  PROVE  D!DashboardInv'
<1>1. D!TypeOK'
  BY DEF D!DashboardInv, D!TypeOK, D!Sound
<1>2. D!HouseholdIsOne'
  <2>1. CASE UNCHANGED D_homes
    BY <2>1 DEF D!DashboardInv, D!HouseholdIsOne
  <2>2. ASSUME NEW r \in Codes, D_homes' = {r} PROVE D!HouseholdIsOne'
    <3>1. D!Cardinality({r}) = 1
      BY FS_Singleton DEF D!Cardinality, Cardinality, D!IsFiniteSet, IsFiniteSet
    <3> QED
      BY <2>2, <3>1 DEF D!HouseholdIsOne
  <2> QED
    BY <2>1, <2>2 DEF D!DashboardInv
<1>3. D!WrittenHouseholdStarts'
  BY DEF D!DashboardInv, D!WrittenHouseholdStarts
<1>4. D_homes' # {} \/ D_promised' # {} => D_file' # D!Missing
  BY DEF D!DashboardInv
<1> QED
  BY <1>1, <1>2, <1>3, <1>4 DEF D!DashboardInv

\* A step of the file and of what is beside it.
LEMMA FileMoves ==
  ASSUME D!DashboardAssumption, D!DashboardInv, UNCHANGED <<x2, x3, x6, x7, x8, x9, x10>>,
         x4' \subseteq Members, x5' \in BOOLEAN,
         D_file' \in D!Configuration, D!Sound(D_file), D!Sound(D_file)',
         D_file' = D!Missing => D_file = D!Missing
  PROVE  D!DashboardInv'
<1>1. D_LoreGrows /\ D_FileStays
  BY DEF D_LoreGrows, D_FileStays
<1>2. \A s \in Codes : D!PostFits(s)'
  BY <1>1, OthersFit
<1>3. D!TypeOK
  BY DEF D!DashboardInv
<1> QED
  BY <1>1, <1>2, <1>3, DashboardHolds DEF D!TypeOK

\* A step of one post.
LEMMA PostMoves ==
  ASSUME D!DashboardAssumption, D!DashboardInv, NEW r \in Codes, NEW p \in D!Post,
         D_post' = [D_post EXCEPT ![r] = p],
         D_LoreGrows, D_lore' \in [D!Labels -> Codes \cup {Nil}], D_FileStays, D!PostFits(r)',
         D_file' \in D!Configuration, D!Sound(D_file)', D_env' \in (SUBSET Members) \cup {Nil},
         UNCHANGED <<x4, x5>>, D_wizard' \in D!Answers, D_faults' \in 0..MaxFaults,
         \/ UNCHANGED D_homes
         \/ D_file = D!Missing /\ D_file' # D!Missing /\ D_homes' = D_homes \cup {r},
         \/ UNCHANGED D_promised /\ (D_env' = D_env \/ D_file = D!Missing)
         \/ D_file' # D!Missing /\ D_promised' \subseteq Members /\ D_promised' \subseteq D_env'
  PROVE  D!DashboardInv'
<1>1. \A s \in Codes : D!PostFits(s)'
  <2>1. \A s \in Codes \ {r} : D_post'[s] = D_post[s]
    BY DEF D!DashboardInv, D!TypeOK
  <2> QED
    BY <2>1, OthersFit
<1>2. D!TypeOK
  BY DEF D!DashboardInv
<1>3. D_post' \in [Codes -> D!Post] /\ x4' \subseteq Members /\ x5' \in BOOLEAN
  BY <1>2 DEF D!TypeOK
<1> QED
  BY <1>1, <1>3, DashboardHolds DEF D_FileStays

\* A step that leaves the file and the spaces alone, and what was promised.
D_Quiet == UNCHANGED <<x1, x2, x3, x4, x5, x6, x9, x10>>

\* A post moves, and nothing else.
LEMMA QuietMoves ==
  ASSUME D!DashboardAssumption, D!DashboardInv, NEW r \in Codes, NEW p \in D!Post,
         D_post' = [D_post EXCEPT ![r] = p], D_Quiet, D!PostFits(r)', D_faults' \in 0..MaxFaults
  PROVE  D!DashboardInv'
<1>1. D!TypeOK /\ D!Sound(D_file)
  BY DEF D!DashboardInv
<1>2. D_LoreGrows /\ D_FileStays /\ D!Sound(D_file)'
  BY <1>1 DEF D_LoreGrows, D_FileStays, D_Quiet, D!Sound, D!Declared
<1> QED
  BY <1>1, <1>2, PostMoves DEF D!TypeOK, D_Quiet

\* A post that is over fits; so does a copy of the file.
LEMMA OverFits ==
  /\ D!Over \in D!Post /\ D!Over.kind = "over" /\ D!Over.cfg = D!Missing
  /\ D!Missing \in D!Configuration /\ D!Broken \in D!Configuration /\ D!Missing # D!Broken
  /\ D!Declared(D!Missing) = {} /\ D!Declared(D!Broken) = {}
  /\ \A r \in Codes : D_post'[r] = D!Over => D!PostFits(r)'
<1>1. /\ D!Missing \in D!Configuration /\ D!Broken \in D!Configuration /\ D!Missing # D!Broken
      /\ D!Declared(D!Missing) = {} /\ D!Declared(D!Broken) = {}
  BY DEF D!Missing, D!Broken, D!Nobody, D!Configuration, D!Declared
<1>2. D!Over \in D!Post /\ D!Over.kind = "over" /\ D!Over.cfg = D!Missing
  BY <1>1 DEF D!Unsent, D!Over, D!Post, D!Kinds
<1>3. ASSUME NEW r \in Codes, D_post'[r] = D!Over PROVE D!PostFits(r)'
  BY <1>1, <1>2, <1>3 DEF D!PostFits, D!Is, D!Sound, D!Missing, D!Declared, D!Nobody
<1> QED
  BY <1>1, <1>2, <1>3

\* What a post loads is the file, or the empty configuration that it stands for.
LEMMA LoadedIsSound ==
  ASSUME D!DashboardAssumption, D!DashboardInv
  PROVE  D!Loaded \in D!Configuration /\ D!Sound(D!Loaded) /\ D!Declared(D!Loaded) = D!Declared(D_file)
<1>1. D_file \in D!Configuration /\ D!Sound(D_file)
  BY DEF D!DashboardInv, D!TypeOK
<1>2. \A m \in Members :
        \/ D_file.row[m] = Nil /\ D!Loaded.row[m] = Nil
        \/ /\ D_file.row[m] \in D!Rows /\ D!Loaded.row[m] \in D!Rows
           /\ D!Loaded.row[m].space = D_file.row[m].space /\ D!Loaded.row[m].by = D_file.row[m].by
  BY <1>1 DEF D!Loaded, D!Configuration, D!Rows
<1>3. D!Loaded.isolated = D_file.isolated /\ D!Loaded \in D!Configuration
  BY <1>1, <1>2 DEF D!Loaded, D!Configuration
<1>4. D!Declared(D!Loaded) = D!Declared(D_file)
  BY <1>1, <1>2 DEF D!Declared, D!DashboardAssumption
<1> QED
  BY <1>1, <1>2, <1>3, <1>4 DEF D!Sound, D!Declared

\* The answers of the first wizard: none of its posts is under way.
LEMMA AnswersMove ==
  ASSUME D!DashboardAssumption, D!DashboardInv, NEW w \in D!Answers, D!Answer(w)
  PROVE  D!DashboardInv'
<1> USE DEF D!Answer
<1>1. D_LoreGrows /\ D!TypeOK /\ D!Sound(D_file)
  BY DEF D_LoreGrows, D!DashboardInv
<1>2. ASSUME NEW s \in Codes PROVE D!PostFits(s)'
  <2>1. D!PostFits(s) /\ D_post[s].kind \notin {"finish", "finished"}
    BY DEF D!DashboardInv, D!Finishing, D!Is
  <2>2. D!Sound(D_post[s].cfg)' /\ D!Wanted(s)' = D!Wanted(s)
    BY <1>1, <2>1 DEF D!PostFits, D!Sound, D_LoreGrows, D!Declared, D!Labels, D!Wanted
  <2> QED
    BY <2>1, <2>2 DEF D!PostFits, D!Is
<1>3. D!Sound(D_file)'
  BY <1>1 DEF D!Sound, D!Declared
<1> QED
  BY <1>1, <1>2, <1>3, DashboardHolds DEF D!TypeOK

\* A space that a post makes is one of its household's, or was there.
LEMMA SpacesMade ==
  ASSUME D!DashboardAssumption, D!DashboardInv, NEW r \in Codes, NEW l \in D!Labels, D!MakeSpace(r, l)
  PROVE  D!DashboardInv'
<1>1. D!TypeOK /\ D_post[r] \in D!Post /\ D!PostFits(r) /\ l \in D_post[r].todo /\ D!Sound(D_file)
  BY DEF D!MakeSpace, D!DashboardInv, D!TypeOK
<1>2. CASE D_lore[l] = Nil \/ D!Is(r, "terminal")
  <2>0. PICK by \in {Nil, r} : by = IF D!Is(r, "terminal") THEN Nil ELSE r
    BY Zenon
  <2>1. PICK space \in Codes \cup {Nil} : space = IF D_lore[l] = Nil THEN r ELSE D_lore[l]
    BY <1>1 DEF D!TypeOK
  <2>2. D_lore' = [D_lore EXCEPT ![l] = space] /\ D_lore'[l] = space
    BY <1>1, <1>2, <2>1 DEF D!MakeSpace, D!TypeOK
  <2>3. D_LoreGrows /\ D_lore' \in [D!Labels -> Codes \cup {Nil}]
    BY <1>1, <2>1, <2>2 DEF D_LoreGrows, D!TypeOK
  <2>4. PICK row : row = [m \in Members |-> IF m = l THEN D!Row(D_lore'[l], by) ELSE D_post[r].cfg.row[m]]
    OBVIOUS
  <2>5. PICK cfg : cfg = [D_post[r].cfg EXCEPT !.row = row]
    OBVIOUS
  <2>6. PICK p : p = [D_post[r] EXCEPT !.todo = @ \ {l}, !.cfg = cfg]
    OBVIOUS
  <2>7. D_post' = [D_post EXCEPT ![r] = p]
    <3>1. D_post' = [D_post EXCEPT ![r].todo = @ \ {l}, ![r].cfg.row = row]
      BY <1>2, <2>0, <2>4 DEF D!MakeSpace
    <3> QED
      BY <1>1, <3>1, <2>5, <2>6 DEF D!TypeOK, D!Post, D!Configuration
  <2>8. D!Row(space, by) \in D!Rows /\ D!Row(space, by) # Nil /\ D!Row(space, by).space = space
        /\ D!Row(space, by).by = by
    <3>1. D!Row(space, by) = [space |-> space, by |-> by, id |-> FALSE]
      BY DEF D!Row
    <3>2. D!Row(space, by) \in D!Rows
      BY <3>1 DEF D!Rows
    <3>3. D!Row(space, by) # Nil
      BY <3>2 DEF D!DashboardAssumption
    <3> QED
      BY <3>1, <3>2, <3>3
  <2>9. cfg \in D!Configuration /\ p \in D!Post /\ p.kind = D_post[r].kind /\ p.cfg = cfg
        /\ p.todo = D_post[r].todo \ {l}
    BY <1>1, <2>2, <2>4, <2>5, <2>6, <2>8 DEF D!Post, D!Configuration
  <2>10. cfg.row = row /\ D_post[r].cfg \in D!Configuration
    BY <1>1, <2>5 DEF D!Post, D!Configuration
  <2>11. D!Declared(cfg) = D!Declared(D_post[r].cfg) \cup ({l} \cap Members)
    BY <2>2, <2>4, <2>8, <2>10 DEF D!Declared
  <2>12. D_post'[r] = p /\ D!Wanted(r)' = D!Wanted(r)
    <3>1. D_post'[r] = p
      BY <1>1, <2>7 DEF D!TypeOK
    <3>2. D!Wanted(r)' = (p.todo \ {D!House}) \cup D!Declared(cfg)
      BY <3>1, <2>9 DEF D!Wanted, D!Declared
    <3> QED
      BY <1>1, <3>1, <3>2, <2>9, <2>11 DEF D!Wanted, D!Labels, D!DashboardAssumption
  <2>13. D!Sound(cfg)'
    <3>1. by = Nil \/ space = r
      BY <1>2, <2>0, <2>1
    <3>2. PICK c : c = D_post[r].cfg
      OBVIOUS
    <3>3. D!Sound(c)'
      BY <1>1, <2>3, <3>2, StaysSound DEF D!PostFits
    <3>4. cfg \in D!Configuration /\ c \in D!Configuration
      BY <2>9, <2>10, <3>2
    <3> SUFFICES ASSUME NEW m \in D!Declared(cfg)
                 PROVE  /\ cfg.row[m].space \in {Nil, D_lore'[m]}
                        /\ cfg.row[m].by # Nil => cfg.row[m].space \in {Nil, cfg.row[m].by}
      BY DEF D!Sound, D!Declared
    <3>5. m \in Members /\ cfg.row[m] # Nil
      BY DEF D!Declared
    <3>6. CASE m = l
      <4>1. cfg.row[m] = D!Row(space, by)
        BY <2>2, <2>4, <2>10, <3>5, <3>6
      <4> QED
        BY <2>2, <2>8, <3>1, <3>6, <4>1
    <3>7. CASE m # l
      <4>1. cfg.row[m] = c.row[m]
        BY <2>4, <2>10, <3>2, <3>5, <3>7
      <4>2. m \in D!Declared(c)
        BY <3>5, <4>1 DEF D!Declared
      <4> QED
        BY <3>3, <4>1, <4>2 DEF D!Sound, D!Declared
    <3> QED
      BY <3>6, <3>7
  <2>14. D!PostFits(r)'
    BY <1>1, <2>9, <2>12, <2>13 DEF D!PostFits, D!Is, D!MakeSpace, D!Complete
  <2>15. D!Sound(D_file)' /\ D_FileStays
    BY <1>1, <2>3 DEF D!Sound, D_LoreGrows, D!Declared, D!Labels, D_FileStays, D!MakeSpace
  <2> QED
    BY <1>1, <2>3, <2>7, <2>9, <2>14, <2>15, PostMoves DEF D!TypeOK, D!MakeSpace
<1>3. CASE ~(D_lore[l] = Nil \/ D!Is(r, "terminal"))
  <2>1. D_Quiet /\ D_post' = [D_post EXCEPT ![r] = D!Over] /\ D_faults' \in 0..MaxFaults
    BY <1>1, <1>3 DEF D!MakeSpace, D!Ends, D_Quiet, D!TypeOK
  <2>2. D!PostFits(r)'
    BY <1>1, <2>1, OverFits DEF D!TypeOK
  <2> QED
    BY <2>1, <2>2, OverFits, QuietMoves
<1> QED
  BY <1>2, <1>3

\* A post that only ends.
LEMMA PostEnds ==
  ASSUME D!DashboardAssumption, D!DashboardInv, NEW r \in Codes, D!Ends(r), D_Quiet, D_faults' \in 0..MaxFaults
  PROVE  D!DashboardInv'
<1>1. D_post' = [D_post EXCEPT ![r] = D!Over] /\ D_post'[r] = D!Over
  BY DEF D!Ends, D!DashboardInv, D!TypeOK
<1> QED
  BY <1>1, OverFits, QuietMoves

\* A post that begins, with a copy of the file or with an empty one.
LEMMA PostBegins ==
  ASSUME D!DashboardAssumption, D!DashboardInv, NEW r \in Codes, UNCHANGED <<x1, x2, x3, x4, x5, x6, x8, x9, x10>>,
         NEW kind \in {"finish", "terminal", "add", "edit"}, NEW cfg \in D!Configuration, NEW todo \in SUBSET D!Labels,
         D!Send(r, kind, cfg, todo), D!Sound(cfg),
         kind # "finish" => (todo \ {D!House}) \cup D!Declared(cfg) # {},
         kind = "finish" => D!Complete /\ (todo \ {D!House}) \cup D!Declared(cfg) \subseteq D_wizard.names
  PROVE  D!DashboardInv'
<1>1. PICK p : p = [kind |-> kind, cfg |-> cfg, todo |-> todo]
  OBVIOUS
<1>2. p \in D!Post /\ p.kind = kind /\ p.cfg = cfg /\ p.todo = todo
  BY <1>1 DEF D!Post, D!Kinds
<1>3. D_post' = [D_post EXCEPT ![r] = p] /\ D_post'[r] = p
  BY <1>1 DEF D!Send, D!DashboardInv, D!TypeOK
<1>4. D_LoreGrows /\ D!Sound(cfg)'
  BY StaysSound DEF D_LoreGrows
<1>5. D!Wanted(r)' = (todo \ {D!House}) \cup D!Declared(cfg)
  BY <1>2, <1>3 DEF D!Wanted, D!Declared
<1>6. D!PostFits(r)'
  BY <1>2, <1>3, <1>4, <1>5 DEF D!PostFits, D!Is, D!Complete
<1> QED
  BY <1>2, <1>3, <1>6, QuietMoves DEF D_Quiet, D!DashboardInv, D!TypeOK

\* The first wizard's answers are what its post will write.
LEMMA FinishBegins ==
  ASSUME D!DashboardAssumption, D!DashboardInv, NEW r \in Codes, D!Finish(r)
  PROVE  D!DashboardInv'
<1>1. D_faults \in 0..MaxFaults /\ D_wizard \in D!Answers /\ D_homes \subseteq Codes
  BY DEF D!DashboardInv, D!TypeOK
<1>2. CASE D_file = D!Missing /\ D!Complete
  <2>1. PICK cfg : cfg = [D!Missing EXCEPT !.isolated = D_wizard.isolated]
    OBVIOUS
  <2>2. cfg \in D!Configuration /\ D!Declared(cfg) = {}
    BY <1>1, <2>1 DEF D!Missing, D!Configuration, D!Nobody, D!Declared, D!Answers
  <2>3. D!Sound(cfg)
    BY <2>2 DEF D!Sound
  <2>4. PICK todo : todo = D_wizard.names \cup {D!House}
    OBVIOUS
  <2>5. todo \in SUBSET D!Labels /\ todo \ {D!House} = D_wizard.names
    BY <1>1, <2>4 DEF D!Answers, D!Labels, D!DashboardAssumption
  <2>6. /\ D!Send(r, "finish", cfg, todo)
        /\ UNCHANGED <<x1, x2, x3, x4, x5, x6, x8, x9, x10>>
    BY <1>2, <2>1, <2>4 DEF D!Finish
  <2> QED
    BY <1>2, <2>2, <2>3, <2>5, <2>6, PostBegins
<1>3. CASE ~(D_file = D!Missing /\ D!Complete)
  BY <1>1, <1>3, PostEnds DEF D!Finish, D_Quiet
<1> QED
  BY <1>2, <1>3

\* The post that writes the first configuration.
LEMMA FinishWrites ==
  ASSUME D!DashboardAssumption, D!DashboardInv, NEW r \in Codes, D!FinishCreates(r)
  PROVE  D!DashboardInv'
<1>1. /\ D!TypeOK /\ D_post[r] \in D!Post /\ D!PostFits(r) /\ D_post[r].kind = "finish"
      /\ D_post[r].todo = {} /\ D!Sound(D_file) /\ D_LoreGrows
  BY DEF D!FinishCreates, D!DashboardInv, D!TypeOK, D!Is, D_LoreGrows
<1>2. PICK cfg \in D!Configuration : cfg = D_post[r].cfg
  BY <1>1 DEF D!Post
<1>3. D!Wanted(r) = D!Declared(cfg) /\ D!Sound(cfg) /\ D!Sound(cfg)'
  BY <1>1, <1>2, StaysSound DEF D!Wanted, D!PostFits
<1>4. CASE D!Create(r) /\ D_file' = D!Broken /\ D!Ends(r) /\ UNCHANGED <<x2, x9>>
  <2>1. D_post' = [D_post EXCEPT ![r] = D!Over] /\ D_post'[r] = D!Over /\ D!PostFits(r)'
    BY <1>1, <1>4, OverFits DEF D!Ends, D!TypeOK
  <2>2. D!Sound(D_file)' /\ D_FileStays /\ D_file' # D!Missing /\ D_file' \in D!Configuration
    BY <1>4, OverFits DEF D!Sound, D!Declared, D_FileStays
  <2>3. D_faults' \in 0..MaxFaults
    BY <1>1, <1>4 DEF D!Create, D!Fault, D!TypeOK, D!DashboardAssumption
  <2> QED
    BY <1>1, <1>4, <2>1, <2>2, <2>3, OverFits, PostMoves DEF D!Create, D!TypeOK, D!FinishCreates
<1>5. CASE /\ D!Declared(cfg) # {} /\ D!Create(r) /\ D_file' # D!Broken
           /\ D_post' = [D_post EXCEPT ![r].kind = "finished"]
           /\ IF D_wizard.isolated /\ D_env = Nil
              THEN D_env' = D_wizard.typed \cap D_wizard.names /\ D_promised' = D!Declared(cfg)
              ELSE UNCHANGED <<D_env, D_promised>>
  <2>1. PICK p : p = [D_post[r] EXCEPT !.kind = "finished"]
    OBVIOUS
  <2>2. /\ p \in D!Post /\ p.kind = "finished" /\ p.cfg = cfg /\ p.todo = {}
        /\ D_post' = [D_post EXCEPT ![r] = p] /\ D_post'[r] = p
    BY <1>1, <1>2, <1>5, <2>1 DEF D!Post, D!Kinds, D!TypeOK
  <2>3. D_file = D!Missing /\ D_file' = cfg /\ UNCHANGED <<x8>> /\ D_homes' = D_homes \cup {r}
    BY <1>2, <1>5 DEF D!Create
  <2>4. D_file' # D!Missing /\ D_FileStays
    BY <1>5, <2>3, OverFits DEF D_FileStays
  <2>5. D!Wanted(r)' = D!Declared(cfg)
    BY <2>2 DEF D!Wanted, D!Declared
  <2>6. D!PostFits(r)'
    BY <1>3, <1>5, <2>2, <2>4, <2>5 DEF D!PostFits, D!Is
  <2>7. D!Sound(D_file)'
    BY <1>3, <2>3 DEF D!Sound, D!Declared
  <2>8. \/ UNCHANGED D_promised /\ D_env' = D_env
        \/ D_promised' \subseteq Members /\ D_promised' \subseteq D_env' /\ D_env' \in SUBSET Members
    <3>1. CASE D_wizard.isolated /\ D_env = Nil
      <4>1. D_wizard.names \subseteq D_wizard.typed /\ D!Declared(cfg) \subseteq D_wizard.names
        BY <1>1, <1>3, <2>3, <3>1 DEF D!PostFits, D!Is, D!Complete
      <4>2. D_wizard.names \subseteq Members /\ D!Declared(cfg) \subseteq Members
        BY <1>1 DEF D!TypeOK, D!Answers, D!Declared
      <4> QED
        BY <1>5, <3>1, <4>1, <4>2
    <3> QED
      BY <1>5, <3>1
  <2> QED
    BY <1>1, <2>2, <2>3, <2>4, <2>6, <2>7, <2>8, PostMoves DEF D!TypeOK, D!FinishCreates
<1>6. CASE D!Ends(r) /\ UNCHANGED <<x1, x2, x8, x9, x10>>
  BY <1>1, <1>6, PostEnds DEF D!FinishCreates, D_Quiet, D!TypeOK
<1> QED
  BY <1>1, <1>2, <1>4, <1>5, <1>6 DEF D!FinishCreates

\* One that writes the file it has worked on: somebody is in it, as in the post's copy.
LEMMA CopyIsWritten ==
  ASSUME D!DashboardAssumption, D!DashboardInv, NEW r \in Codes, D!Ends(r),
         D_post[r].kind \in {"terminal", "finished", "add", "edit"}, D_post[r].todo = {},
         D_file' \in {D_post[r].cfg, D!Broken}, D_faults' \in 0..MaxFaults, D_wizard' \in D!Answers,
         UNCHANGED <<x3, x4, x5, x9>>, D_env' \in (SUBSET Members) \cup {Nil},
         D_env' = D_env \/ D_file = D!Missing,
         \/ UNCHANGED D_homes
         \/ D_file = D!Missing /\ D_homes' = D_homes \cup {r}
  PROVE  D!DashboardInv'
<1>1. D!TypeOK /\ D_post[r] \in D!Post /\ D!PostFits(r) /\ D_LoreGrows
  BY DEF D!DashboardInv, D!TypeOK, D_LoreGrows
<1>2. PICK cfg \in D!Configuration : cfg = D_post[r].cfg
  BY <1>1 DEF D!Post
<1>3. D!Declared(cfg) # {} /\ D!Sound(cfg)
  BY <1>1, <1>2 DEF D!Wanted, D!PostFits
<1>4. D!Sound(cfg)'
  BY <1>1, <1>3, StaysSound
<1>5. D_file' # D!Missing /\ D_FileStays /\ D_file' \in D!Configuration
  BY <1>2, <1>3, OverFits DEF D_FileStays
<1>6. D!Sound(D_file)'
  BY <1>2, <1>4, OverFits DEF D!Sound, D!Declared
<1>7. D_post' = [D_post EXCEPT ![r] = D!Over] /\ D_post'[r] = D!Over /\ D!PostFits(r)'
  BY <1>1, OverFits DEF D!Ends, D!TypeOK
<1> QED
  BY <1>1, <1>5, <1>6, <1>7, OverFits, PostMoves DEF D!TypeOK

\* Somebody new is declared in the post's copy, and their space is to be made.
LEMMA MemberIsAdded ==
  ASSUME D!DashboardAssumption, D!DashboardInv, NEW r \in Codes, NEW m \in Members, D!Add(r, m)
  PROVE  D!DashboardInv'
<1>1. /\ D!Loaded \in D!Configuration /\ D!Sound(D!Loaded)
      /\ UNCHANGED <<x1, x2, x3, x4, x5, x6, x8, x9, x10>>
  BY LoadedIsSound DEF D!Add
<1>2. m # D!House
  BY DEF D!DashboardAssumption
<1>3. CASE D!Send(r, "add", D!Loaded, {m})
  <2>1. {m} \in SUBSET D!Labels /\ ({m} \ {D!House}) \cup D!Declared(D!Loaded) # {}
    BY <1>2 DEF D!Labels
  <2> QED
    BY <1>1, <1>3, <2>1, PostBegins
<1>4. CASE D!Send(r, "add", [D!Loaded EXCEPT !.row[m] = D!Row(Nil, r)], {})
  <2>1. PICK row : row = D!Row(Nil, r)
    OBVIOUS
  <2>2. row \in D!Rows /\ row.space = Nil /\ row.by = r
    BY <2>1 DEF D!Row, D!Rows
  <2>3. row # Nil
    BY <2>2 DEF D!DashboardAssumption
  <2>4. PICK cfg : cfg = [D!Loaded EXCEPT !.row[m] = row]
    OBVIOUS
  <2>5. cfg \in D!Configuration /\ cfg.row = [D!Loaded.row EXCEPT ![m] = row]
    BY <1>1, <2>2, <2>4 DEF D!Configuration
  <2>6. D!Sound(cfg) /\ D!Declared(cfg) # {}
    BY <1>1, <2>2, <2>3, <2>5 DEF D!Sound, D!Declared, D!Configuration
  <2>7. {} \in SUBSET D!Labels /\ ({} \ {D!House}) \cup D!Declared(cfg) # {}
    BY <2>6
  <2>8. D!Send(r, "add", cfg, {})
    BY <1>4, <2>1, <2>4
  <2> QED
    BY <1>1, <2>5, <2>6, <2>7, <2>8, PostBegins
<1> QED
  BY <1>3, <1>4 DEF D!Add

\* The terminal's wizard begins with an empty file, or does not begin.
LEMMA TerminalBegins ==
  ASSUME D!DashboardAssumption, D!DashboardInv, NEW r \in Codes, D!Terminal(r)
  PROVE  D!DashboardInv'
<1>1. PICK T \in D!Named, b \in BOOLEAN :
        D!Send(r, "terminal", [D!Missing EXCEPT !.isolated = b], T \cup {D!House})
  BY DEF D!Terminal
<1>2. PICK cfg : cfg = [D!Missing EXCEPT !.isolated = b]
  OBVIOUS
<1>3. PICK todo : todo = T \cup {D!House}
  OBVIOUS
<1>4. cfg \in D!Configuration /\ D!Declared(cfg) = {}
  BY <1>2 DEF D!Missing, D!Configuration, D!Nobody, D!Declared
<1>5. D!Sound(cfg) /\ todo \in SUBSET D!Labels /\ todo \ {D!House} # {}
  BY <1>3, <1>4 DEF D!Sound, D!Labels, D!Named, D!DashboardAssumption
<1>6. D!Send(r, "terminal", cfg, todo) /\ UNCHANGED <<x1, x2, x3, x4, x5, x6, x8, x9, x10>>
  BY <1>1, <1>2, <1>3 DEF D!Terminal
<1> QED
  BY <1>4, <1>5, <1>6, PostBegins

\* A hand that takes somebody out of the file leaves somebody there.
LEMMA HandLeavesSomebody ==
  ASSUME D!DashboardAssumption, D!DashboardInv, NEW m \in Members, D!ByHand(m)
  PROVE  D!DashboardInv'
<1>1. D!TypeOK /\ D!Sound(D_file) /\ D_file \in D!Configuration
  BY DEF D!DashboardInv, D!TypeOK
<1>2. D_file' = [D_file EXCEPT !.row = [D_file.row EXCEPT ![m] = Nil]]
  BY <1>1 DEF D!ByHand, D!Configuration
<1>3. D_file' \in D!Configuration /\ D_file'.row = [D_file.row EXCEPT ![m] = Nil]
  BY <1>1, <1>2 DEF D!Configuration
<1>4. PICK n \in D!Declared(D_file) : n # m
  <2>1. D!Cardinality({m}) = 1
    BY FS_Singleton DEF D!Cardinality, Cardinality, D!IsFiniteSet, IsFiniteSet
  <2> QED
    BY <2>1 DEF D!ByHand
<1>5. D_file' # D!Missing
  BY <1>1, <1>3, <1>4, OverFits DEF D!Declared, D!Configuration
<1>6. D!Sound(D_file)'
  BY <1>1, <1>3 DEF D!Sound, D!Declared, D!Configuration, D!ByHand
<1> QED
  BY <1>1, <1>3, <1>5, <1>6, FileMoves DEF D!ByHand, D!TypeOK

\* Every step of a post, of a terminal and of a hand.
LEMMA DashboardStep ==
  ASSUME D!DashboardAssumption, D!DashboardInv, [D!Next]_(D!dashboardVars)
  PROVE  D!DashboardInv'
<1>1. D!TypeOK /\ D!Sound(D_file)
  BY DEF D!DashboardInv
<1>2. ASSUME UNCHANGED x1, UNCHANGED x3 PROVE D!Sound(D_file)'
  BY <1>1, <1>2 DEF D!Sound, D!Declared
<1>3. ASSUME NEW w \in D!Answers, D!Answer(w) PROVE D!DashboardInv'
  BY <1>3, AnswersMove
<1>4. CASE D!InstallStep
  BY <1>1, <1>3, <1>4 DEF D!InstallStep, D!Named, D!TypeOK, D!Answers
<1>5. CASE D!TrustStep
  BY <1>1, <1>3, <1>5 DEF D!TrustStep, D!TypeOK, D!Answers
<1>6. CASE D!BotsStep
  BY <1>1, <1>3, <1>6 DEF D!BotsStep, D!TypeOK, D!Answers
<1>7. CASE D!SignIn
  BY <1>3, <1>7 DEF D!SignIn, D!NewWizard, D!Answers
<1>8. CASE D!AdminStep
  BY <1>1, <1>2, <1>8, FileMoves DEF D!AdminStep, D!TypeOK
<1>9. ASSUME NEW r \in Codes, D!Finish(r) PROVE D!DashboardInv'
  BY <1>9, FinishBegins
<1>10. ASSUME NEW r \in Codes, D!FinishCreates(r) PROVE D!DashboardInv'
  BY <1>10, FinishWrites
<1>11. ASSUME NEW r \in Codes, D!FinishEnds(r) PROVE D!DashboardInv'
  <2>1. D_post[r].kind = "finished" /\ D_post[r].todo = {}
    BY <1>11 DEF D!FinishEnds, D!Is, D!DashboardInv, D!PostFits
  <2>2. CASE D!Replace(D_post[r].cfg) /\ D_wizard' = D!NewWizard
    <3>1. D_faults' \in 0..MaxFaults /\ D_file' \in {D_post[r].cfg, D!Broken}
      BY <1>1, <2>2 DEF D!Replace, D!Fault, D!TypeOK, D!DashboardAssumption
    <3>2. D_wizard' \in D!Answers
      BY <2>2 DEF D!NewWizard, D!Answers
    <3> QED
      BY <1>1, <1>11, <2>1, <3>1, <3>2, CopyIsWritten DEF D!FinishEnds, D!TypeOK
  <2>3. CASE UNCHANGED <<x1, x6, x8>>
    BY <1>1, <1>11, <2>3, PostEnds DEF D!FinishEnds, D_Quiet, D!TypeOK
  <2> QED
    BY <1>11, <2>2, <2>3 DEF D!FinishEnds
<1>12. ASSUME NEW r \in Codes, D!Terminal(r) PROVE D!DashboardInv'
  BY <1>12, TerminalBegins
<1>13. ASSUME NEW r \in Codes, D!TerminalCreates(r) PROVE D!DashboardInv'
  <2>1. CASE D!Create(r) /\ (UNCHANGED D_env \/ (D_env = Nil /\ D_env' = {}))
    <3>1. D_faults' \in 0..MaxFaults /\ D_file' \in {D_post[r].cfg, D!Broken}
      BY <1>1, <2>1 DEF D!Create, D!Fault, D!TypeOK, D!DashboardAssumption
    <3>2. D_env' \in (SUBSET Members) \cup {Nil} /\ D_file = D!Missing /\ D_homes' = D_homes \cup {r}
      BY <1>1, <2>1 DEF D!Create, D!TypeOK
    <3> QED
      BY <1>1, <1>13, <3>1, <3>2, CopyIsWritten DEF D!TerminalCreates, D!Is, D!TypeOK
  <2>2. CASE UNCHANGED <<x1, x2, x8, x10>>
    BY <1>1, <1>13, <2>2, PostEnds DEF D!TerminalCreates, D_Quiet, D!TypeOK
  <2> QED
    BY <1>13, <2>1, <2>2 DEF D!TerminalCreates
<1>14. ASSUME NEW r \in Codes, D!Dies(r) PROVE D!DashboardInv'
  BY <1>1, <1>14, PostEnds DEF D!Dies, D!Fault, D_Quiet, D!TypeOK, D!DashboardAssumption
<1>15. ASSUME NEW r \in Codes, D!Edit(r) PROVE D!DashboardInv'
  <2>1. D!Declared(D!Loaded) # {} /\ D!Loaded \in D!Configuration /\ D!Sound(D!Loaded)
    BY <1>15, LoadedIsSound DEF D!Edit, D!Usable
  <2>2. {} \in SUBSET D!Labels /\ ({} \ {D!House}) \cup D!Declared(D!Loaded) # {}
    BY <2>1
  <2> QED
    BY <1>15, <2>1, <2>2, PostBegins DEF D!Edit
<1>16. ASSUME NEW r \in Codes, D!Save(r) PROVE D!DashboardInv'
  <2>1. D_faults' \in 0..MaxFaults /\ D_file' \in {D_post[r].cfg, D!Broken}
    BY <1>1, <1>16 DEF D!Save, D!Replace, D!Fault, D!TypeOK, D!DashboardAssumption
  <2> QED
    BY <1>1, <1>16, <2>1, CopyIsWritten DEF D!Save, D!Is, D!TypeOK
<1>17. ASSUME NEW r \in Codes, NEW l \in D!Labels, D!MakeSpace(r, l) PROVE D!DashboardInv'
  BY <1>17, SpacesMade
<1>18. ASSUME NEW r \in Codes, NEW m \in Members, D!Add(r, m) PROVE D!DashboardInv'
  BY <1>18, MemberIsAdded
<1>19. ASSUME NEW m \in Members, D!ByHand(m) PROVE D!DashboardInv'
  BY <1>19, HandLeavesSomebody
<1>20. ASSUME NEW m \in Members, D!Claim(m) PROVE D!DashboardInv'
  BY <1>1, <1>2, <1>20, FileMoves DEF D!Claim, D!TypeOK
<1>21. ASSUME NEW m \in Members, D!Revoke(m) PROVE D!DashboardInv'
  BY <1>1, <1>2, <1>21, FileMoves DEF D!Revoke, D!TypeOK
<1>22. CASE UNCHANGED D!dashboardVars
  BY <1>1, <1>2, <1>22, FileMoves DEF D!dashboardVars, D!TypeOK
<1> QED
  BY <1>4, <1>5, <1>6, <1>7, <1>8, <1>9, <1>10, <1>11, <1>12, <1>13, <1>14, <1>15, <1>16, <1>17,
     <1>18, <1>19, <1>20, <1>21, <1>22 DEF D!Next

HIDE DEF D_file, D_env, D_lore, D_wizard, D_post, D_faults, D_promised, D_homes

-----------------------------------------------------------------------------

A_account == x1
A_token == x2
A_issued == x3
A_table == x4
A_guard == x5
A_request == x6
A_command == x7
A_hour == x8
A_stops == x9
A_past == x10
USE DEF A_account, A_token, A_issued, A_table, A_guard, A_request, A_command, A_hour, A_stops,
  A_past

\* There is no account and no token.
LEMMA AccessInit == ASSUME A!AccessAssumption, A!Init PROVE A!AccessInv
<1> USE DEF A!AccessAssumption
<1>1. /\ A!Idle \in A!Request /\ A!Idle.step = "idle" /\ A!Idle.of = Nil /\ A!Idle.token = 0
      /\ A!Unguarded \in A!Guard /\ A!Unguarded.failures = <<>> /\ A!Unguarded.until = 0 /\ A!Unguarded.since = 0
  BY DEF A!Idle, A!Request, A!Steps, A!Unguarded, A!Guard, A!Hours
<1>2. \A b \in Accounts : A_request[b] = A!Idle /\ ~A_table[b].setup.live /\ ~A_table[b].admin.live
  BY DEF A!Init, A!SetupOver, A!SignedOff
<1>3. A_token \in A!Token /\ A_token.n = A_issued /\ A_issued = 1 /\ A_past \in A!Past
  <2>1. A_token = [n |-> 1, at |-> 0, late |-> FALSE]
    BY DEF A!Init, A!NoToken
  <2>2. A_past \in A!Past
    BY DEF A!Init, A!Past
  <2>3. 1 \in 0..MaxTokens /\ 0 \in A!Hours
    BY DEF A!Hours
  <2>4. A_token \in A!Token
    BY <2>1, <2>3 DEF A!Token
  <2> QED
    BY <2>1, <2>2, <2>4 DEF A!Init
<1>4. A_table \in [Accounts -> A!Sessions]
  BY DEF A!Init, A!SetupOver, A!SignedOff, A!Sessions, A!Hours
<1>5. A_request \in [Accounts -> A!Request]
  BY <1>1 DEF A!Init
<1>6. A!TypeOK
  BY <1>1, <1>2, <1>3, <1>4, <1>5 DEF A!TypeOK, A!Init, A!Hours
<1>7. A!AccountIsOne /\ A!TokenIsForOne /\ A!SetupIsOver /\ A!OneSigningIn /\ A!LockoutIsServedOnce
  BY <1>1, <1>2 DEF A!Init, A!AccountIsOne, A!TokenIsForOne, A!SetupIsOver, A!Exists,
     A!OneSigningIn, A!LockoutIsServedOnce
<1>8. A!RequestsFit /\ A!OneCreates /\ A!OneRedeems /\ A!AttemptsAreFew
  BY <1>1, <1>2, <1>3 DEF A!Init, A!RequestsFit, A!OneCreates, A!OneRedeems, A!Making, A!Redeeming,
     A!AttemptsAreFew, A!Exists
<1> QED
  BY <1>6, <1>7, <1>8 DEF A!AccessInv, A!AccessIsInOrder

\* What a step leaves of each conjunct of the invariant.
A_Writes(c, of) == A_request[c].step \in {"emptied", "written"} /\ A_request[c].of = of

\* Requests fit while no account goes away and none of them turns into another's.
LEMMA FitStays ==
  ASSUME A!AccessInv, A!Exists => A!Exists', A_issued' \in Nat, A_issued' >= A_issued,
         \A c \in Accounts :
           /\ A_table'[c].admin.live => A_table'[c].admin.password \in Codes
           /\ \/ A_request'[c] = A_request[c]
              \/ /\ A_request'[c].of = Nil /\ A_request'[c].token <= A_issued'
                 /\ A_request'[c].step \in {"idle", "redeeming", "verifying"}
              \/ /\ A_request'[c].of = "create" /\ A_request'[c].step = "creating"
                 /\ A_request'[c].password \in Codes /\ A_request'[c].token <= A_issued'
              \/ /\ A_request'[c].of = "change" /\ A_request'[c].step = "changing" /\ A!Exists'
                 /\ A_request'[c].password \in Codes /\ A_request'[c].token <= A_issued'
              \/ /\ A_request'[c].of = A_request[c].of /\ A_request[c].of # Nil /\ A!Exists'
                 /\ A_request'[c].step \in {"emptied", "written"}
                 /\ A_request'[c].password = A_request[c].password
                 /\ A_request'[c].token = A_request[c].token,
         A!AccessAssumption
  PROVE  A!RequestsFit'
<1>1. A_issued \in Nat /\ A!RequestsFit
  BY DEF A!AccessInv, A!TypeOK, A!AccessAssumption
<1>2. \A c \in Accounts : A_request[c].token \in Nat /\ A_request[c].of \in {"create", "change", Nil}
  BY DEF A!AccessInv, A!TypeOK, A!Request, A!AccessAssumption
<1> QED
  BY <1>1, <1>2 DEF A!RequestsFit, A!AccessAssumption

\* Of the creations, while none is added.
LEMMA OneCreatesStays ==
  ASSUME A!AccessInv, UNCHANGED A_account, A_past'.made = A_past.made, A_past'.atOnce = A_past.atOnce,
         \A c \in Accounts :
           \/ A_request'[c].of = A_request[c].of /\ A_request'[c].step = A_request[c].step
           \/ A_request'[c].of = Nil /\ A_request'[c].step # "creating"
           \/ A_request'[c].of = "change" /\ A_request'[c].step = "changing" /\ A_account # A!Torn,
         A!AccessAssumption
  PROVE  A!OneCreates' /\ A!AccountIsOne'
BY DEF A!AccessInv, A!AccessIsInOrder, A!OneCreates, A!AccountIsOne, A!Making, A!Exists,
   A!AccessAssumption

\* Of the redemptions, while none is added.
LEMMA OneRedeemsStays ==
  ASSUME A!AccessInv, A_past'.redeemed = A_past.redeemed, A_past'.together = A_past.together,
         UNCHANGED A_issued, A_token' \in {A_token, A!NoToken},
         \A c \in Accounts :
           \/ A_request'[c].step = A_request[c].step /\ A_request'[c].token = A_request[c].token
           \/ A_request'[c].step # "redeeming"
  PROVE  A!OneRedeems' /\ A!TokenIsForOne'
<1>1. A!NoToken.n = 0
  BY DEF A!NoToken
<1> QED
  BY <1>1 DEF A!AccessInv, A!AccessIsInOrder, A!OneRedeems, A!TokenIsForOne, A!Redeeming

\* A new token has not been redeemed.
LEMMA NewToken ==
  ASSUME A!AccessInv, A!AccessAssumption, A_past'.redeemed = 0, A_issued' = A_issued + 1,
         \A c \in Accounts : A_request'[c].token \in Nat /\ A_request'[c].token <= A_issued
  PROVE  A!OneRedeems' /\ A!TokenIsForOne'
<1>1. A_issued \in Nat
  BY DEF A!AccessInv, A!TypeOK, A!AccessAssumption
<1>2. \A c \in Accounts : ~A!Redeeming(c)'
  BY <1>1 DEF A!Redeeming
<1> QED
  BY <1>2 DEF A!OneRedeems, A!TokenIsForOne

\* Setup is over once there is an account, while nobody signs in to it.
LEMMA SetupStaysOver ==
  ASSUME A!AccessInv, A!Exists' = A!Exists,
         A_token' \in {A_token, A!NoToken} \/ (A!Exists => A_token'.late),
         \A c \in Accounts :
           /\ A_table'[c].setup.live =>
                A_table'[c].setup = A_table[c].setup \/ (A!Exists => A_table'[c].setup.late)
           /\ A_Writes(c, "create") => A_Writes(c, "create")'
  PROVE  A!SetupIsOver'
<1>1. A!NoToken.n = 0 /\ A!SetupIsOver
  BY DEF A!NoToken, A!AccessInv, A!AccessIsInOrder
<1>2. A!Writing("create") => A!Writing("create")'
  BY DEF A!Writing, A_Writes
<1> QED
  BY <1>1, <1>2 DEF A!SetupIsOver

\* Sessions are the account's, while none is added.
LEMMA SigningInStays ==
  ASSUME A!AccessInv, UNCHANGED A_account, A_past.atOnce => A_past'.atOnce,
         \A c \in Accounts :
           /\ A_table'[c].admin.live =>
                \/ /\ A_table[c].admin.live /\ A_table'[c].admin.password = A_table[c].admin.password
                   /\ A_table'[c].admin.stale = A_table[c].admin.stale
                \/ A_table'[c].admin.stale <=> A_account # A_table'[c].admin.password
           /\ A_Writes(c, "change") => A_Writes(c, "change")'
  PROVE  A!OneSigningIn'
<1>1. A!Writing("change") => A!Writing("change")'
  BY DEF A!Writing, A_Writes
<1>2. A!OneSigningIn
  BY DEF A!AccessInv, A!AccessIsInOrder
<1> QED
  BY <1>1, <1>2 DEF A!OneSigningIn

\* Of fewer attempts under way there are fewer.
LEMMA FewerVerify ==
  ASSUME A!AccessAssumption, NEW T, T \subseteq A!Verifying
  PROVE  /\ A!Cardinality(A!Verifying) \in Nat /\ A!Cardinality(T) \in Nat
         /\ A!Cardinality(T) <= A!Cardinality(A!Verifying)
         /\ T # A!Verifying => A!Cardinality(T) < A!Cardinality(A!Verifying)
<1>1. IsFiniteSet(Accounts) /\ A!Verifying \subseteq Accounts
  BY DEF A!AccessAssumption, A!Verifying, A!IsFiniteSet, IsFiniteSet
<1>2. IsFiniteSet(A!Verifying) /\ IsFiniteSet(T)
  BY <1>1, FS_Subset
<1>3. /\ Cardinality(A!Verifying) \in Nat /\ Cardinality(T) \in Nat
      /\ Cardinality(T) <= Cardinality(A!Verifying)
      /\ T # A!Verifying => Cardinality(T) < Cardinality(A!Verifying)
  <2>1. Cardinality(A!Verifying) \in Nat /\ Cardinality(T) \in Nat
    BY <1>2, FS_CardinalityType
  <2>2. Cardinality(T) <= Cardinality(A!Verifying)
        /\ (Cardinality(A!Verifying) = Cardinality(T) => A!Verifying = T)
    BY <1>2, FS_Subset
  <2> QED
    BY <2>1, <2>2
<1> QED
  BY <1>3 DEF A!Cardinality, Cardinality

\* The guard owes nothing more when attempts end, or when it forgets.
LEMMA GuardStays ==
  ASSUME A!AccessInv, A!AccessAssumption, A_hour' \in Nat, A_hour' >= A_hour,
         A_guard' = A!Unguarded \/ (A_guard' = A_guard /\ A!Verifying' \subseteq A!Verifying)
  PROVE  A!LockoutIsServedOnce' /\ A!AttemptsAreFew'
<1>1. CASE A_guard' = A!Unguarded
  BY <1>1 DEF A!Unguarded, A!LockoutIsServedOnce, A!AttemptsAreFew, A!AccessAssumption
<1>2. CASE A_guard' = A_guard /\ A!Verifying' \subseteq A!Verifying
  <2>1. PICK T : T = A!Verifying'
    OBVIOUS
  <2>2. /\ A!Cardinality(A!Verifying) \in Nat /\ A!Cardinality(T) \in Nat
        /\ A!Cardinality(T) <= A!Cardinality(A!Verifying)
    BY <1>2, <2>1, FewerVerify
  <2>3. Len(A_guard.failures) \in Nat /\ A_guard.until \in Nat /\ A_hour \in Nat
    BY DEF A!AccessInv, A!TypeOK, A!Guard, A!Hours
  <2>4. A!Cardinality(A!Verifying)' = A!Cardinality(T)
    BY <2>1
  <2> QED
    BY <1>2, <2>2, <2>3, <2>4 DEF A!AccessInv, A!AccessIsInOrder, A!LockoutIsServedOnce,
       A!AttemptsAreFew, A!AccessAssumption
<1> QED
  BY <1>1, <1>2

\* What a request becomes.
A_Takes(b, step, of, password, n) ==
  /\ A_request' \in [Accounts -> A!Request]
  /\ A_request'[b].step = step /\ A_request'[b].of = of
  /\ A_request'[b].password = password /\ A_request'[b].token = n
  /\ \A c \in Accounts \ {b} : A_request'[c] = A_request[c]

\* A request that is written whole becomes what was written.
LEMMA RequestTakes ==
  ASSUME A!AccessInv, NEW b \in Accounts, NEW step \in A!Steps, NEW of \in {"create", "change", Nil},
         NEW password \in Codes \cup {Nil}, NEW n \in 0..MaxTokens,
         A_request' = [A_request EXCEPT ![b] = [step |-> step, of |-> of, password |-> password, token |-> n]]
  PROVE  A_Takes(b, step, of, password, n)
<1>1. PICK q : q = [step |-> step, of |-> of, password |-> password, token |-> n]
  OBVIOUS
<1>2. q \in A!Request /\ q.step = step /\ q.of = of /\ q.password = password /\ q.token = n
  BY <1>1 DEF A!Request
<1> QED
  BY <1>1, <1>2 DEF A!AccessInv, A!TypeOK, A_Takes

\* One that is answered is idle.
LEMMA AnsweredTakes ==
  ASSUME A!AccessInv, A!AccessAssumption, NEW b \in Accounts, A!Answered(b)
  PROVE  A_Takes(b, "idle", Nil, Nil, 0)
<1>1. "idle" \in A!Steps /\ 0 \in 0..MaxTokens
  BY DEF A!Steps, A!AccessAssumption
<1> QED
  BY <1>1, RequestTakes DEF A!Answered, A!Idle

\* What idle is.
LEMMA IdleIs ==
  ASSUME A!AccessAssumption
  PROVE  /\ A!Idle \in A!Request /\ A!Idle.step = "idle" /\ A!Idle.of = Nil
         /\ A!Idle.password = Nil /\ A!Idle.token = 0
BY DEF A!Idle, A!Request, A!Steps, A!AccessAssumption

\* One that is asked is what was asked.
LEMMA AskedTakes ==
  ASSUME A!AccessInv, NEW b \in Accounts, NEW step \in A!Steps, NEW q \in A!Request, A!Asks(b, step, q)
  PROVE  A_Takes(b, step, q.of, q.password, q.token)
<1>1. PICK p : p = [q EXCEPT !.step = step]
  OBVIOUS
<1>2. /\ p \in A!Request /\ p.step = step /\ p.of = q.of /\ p.password = q.password /\ p.token = q.token
  BY <1>1 DEF A!Request
<1>3. A_request' = [A_request EXCEPT ![b] = p]
  BY <1>1 DEF A!Asks
<1> QED
  BY <1>2, <1>3 DEF A!AccessInv, A!TypeOK, A_Takes

\* Two at a time: the sessions of one browser, one cookie of them.
LEMMA SetupBecomes ==
  ASSUME A!AccessInv, NEW b \in Accounts, NEW s \in [live : BOOLEAN, at : A!Hours, late : BOOLEAN],
         A_table' = [A_table EXCEPT ![b].setup = s]
  PROVE  /\ A_table' \in [Accounts -> A!Sessions]
         /\ A_table'[b].setup = s /\ A_table'[b].admin = A_table[b].admin
         /\ \A c \in Accounts \ {b} : A_table'[c] = A_table[c]
BY DEF A!AccessInv, A!TypeOK, A!Sessions

A_Admin == [live : BOOLEAN, at : A!Hours, password : Codes \cup {Nil}, stale : BOOLEAN]

\* The account's sessions, with one browser's changed.
LEMMA AdminBecomes ==
  ASSUME A!AccessInv, NEW b \in Accounts, NEW s \in A_Admin, NEW t \in [Accounts -> A!Sessions],
         A_table' = [t EXCEPT ![b].admin = s]
  PROVE  /\ A_table' \in [Accounts -> A!Sessions]
         /\ A_table'[b].admin = s /\ A_table'[b].setup = t[b].setup
         /\ \A c \in Accounts \ {b} : A_table'[c] = t[c]
BY DEF A!AccessInv, A!TypeOK, A!Sessions, A_Admin

\* A session for a password is stale if the account has another by now.
LEMMA SessionIsOne ==
  ASSUME A!AccessInv, A!AccessAssumption, NEW p \in Codes
  PROVE  /\ A!SessionFor(p) \in A_Admin /\ A!SessionFor(p).live /\ A!SessionFor(p).password = p
         /\ A!SessionFor(p).stale <=> A_account # p
         /\ A!SignedOff \in A_Admin /\ ~A!SignedOff.live
<1>1. A_hour \in A!Hours /\ 0 \in A!Hours
  BY DEF A!AccessInv, A!TypeOK, A!Hours, A!AccessAssumption
<1>2. A!SignedOff \in A_Admin /\ ~A!SignedOff.live
  BY <1>1 DEF A!SignedOff, A_Admin
<1>3. PICK stale \in BOOLEAN : stale = (A_account # p)
  BY Zenon
<1>4. A!SessionFor(p) = [live |-> TRUE, at |-> A_hour, password |-> p, stale |-> stale]
  BY <1>3, Zenon DEF A!SessionFor
<1>5. stale <=> A_account # p
  BY <1>3, Zenon
<1> QED
  BY <1>1, <1>2, <1>4, <1>5 DEF A_Admin

\* Attempts that fail.
LEMMA FailedFits ==
  ASSUME A!AccessInv, A!AccessAssumption, NEW b \in Accounts
  PROVE  /\ A!Failed(b) \in A!Guard
         /\ Len(A!Failed(b).failures) < AttemptLimit
         /\ \/ /\ Len(A!Failed(b).failures) <= Len(A_guard.failures) + 1
               /\ A!Failed(b).until = A_guard.until /\ A!Failed(b).since = A_guard.since
               /\ A!Failed(b).many = A_guard.many
            \/ /\ Len(A_guard.failures) + 1 >= AttemptLimit
               /\ Len(A!Failed(b).failures) = 0 /\ A!Failed(b).until = A_hour + Lockout
               /\ IF A_hour < A_guard.until
                  THEN A!Failed(b).since = A_guard.since /\ A!Failed(b).many = A_guard.many
                  ELSE /\ A!Failed(b).since = A_hour
                       /\ A!Failed(b).many <=> A!Cardinality(A!Verifying \ {b}) >= AttemptLimit
<1> DEFINE s == A_guard.failures
           old == A!Cardinality({i \in DOMAIN s : s[i] <= A_hour - LoginWindow})
           kept == SubSeq(s, old + 1, Len(s))
           new == Append(kept, A_hour)
<1>1. s \in Seq(A!Hours) /\ Len(s) < AttemptLimit /\ A_guard \in A!Guard /\ A_hour \in A!Hours
  BY DEF A!AccessInv, A!TypeOK, A!Guard
<1>2. old \in Nat
  <2>1. IsFiniteSet(DOMAIN s)
    <3>1. DOMAIN s = 1..Len(s) /\ 1 \in Int /\ Len(s) \in Int
      BY <1>1
    <3> HIDE DEF s
    <3> QED
      BY <3>1, FS_Interval
  <2>2. IsFiniteSet({i \in DOMAIN s : s[i] <= A_hour - LoginWindow})
    BY <2>1, FS_Subset
  <2>3. Cardinality({i \in DOMAIN s : s[i] <= A_hour - LoginWindow}) \in Nat
    BY <2>2, FS_CardinalityType
  <2> QED
    BY <2>3 DEF A!Cardinality, Cardinality
<1> HIDE DEF old
<1>3. kept \in Seq(A!Hours) /\ Len(kept) <= Len(s) /\ Len(kept) \in Nat
  BY <1>1, <1>2
<1> HIDE DEF kept
<1>4. new \in Seq(A!Hours) /\ Len(new) = Len(kept) + 1 /\ Len(s) \in Nat
  BY <1>1, <1>3
<1> HIDE DEF new
<1>5. /\ A_guard.until \in Nat /\ A_guard.since \in Nat /\ A_guard.many \in BOOLEAN
      /\ A_hour \in Nat /\ A_hour + Lockout \in Nat /\ Len(new) \in Nat /\ AttemptLimit \in Nat /\ AttemptLimit > 0
  BY <1>1, <1>3, <1>4 DEF A!Guard, A!Hours, A!AccessAssumption
<1>6. CASE Len(new) >= AttemptLimit
  <2>1. PICK m : m = IF A_hour < A_guard.until THEN A_guard.many
                     ELSE A!Cardinality(A!Verifying \ {b}) >= AttemptLimit
    OBVIOUS
  <2>7. m \in BOOLEAN /\ IF A_hour < A_guard.until THEN m = A_guard.many
                         ELSE m <=> A!Cardinality(A!Verifying \ {b}) >= AttemptLimit
    <3>1. CASE A_hour < A_guard.until
      <4>1. m = A_guard.many
        BY <2>1, <3>1, Zenon
      <4> QED
        BY <1>5, <3>1, <4>1
    <3>2. CASE ~(A_hour < A_guard.until)
      <4>1. m = (A!Cardinality(A!Verifying \ {b}) >= AttemptLimit)
        BY <2>1, <3>2, Zenon
      <4>2. m \in BOOLEAN
        BY ONLY <4>1
      <4>3. m <=> A!Cardinality(A!Verifying \ {b}) >= AttemptLimit
        BY ONLY <4>1
      <4> QED
        BY <3>2, <4>2, <4>3
    <3> QED
      BY <3>1, <3>2
  <2>2. PICK since \in Nat : since = IF A_hour < A_guard.until THEN A_guard.since ELSE A_hour
    BY <1>5
  <2>3. A!Failed(b) = [failures |-> <<>>, until |-> A_hour + Lockout, since |-> since, many |-> m]
    BY <1>6, <2>1, <2>2, Zenon DEF A!Failed, new, kept, old
  <2>4. A!Failed(b).failures = <<>> /\ A!Failed(b).until = A_hour + Lockout
        /\ A!Failed(b).since = since /\ A!Failed(b).many = m
    BY <2>3
  <2>5. A!Failed(b) \in A!Guard
    BY <1>5, <2>3, <2>7 DEF A!Guard
  <2>6. Len(A_guard.failures) + 1 >= AttemptLimit
    BY <1>3, <1>4, <1>5, <1>6
  <2> QED
    BY <1>5, <2>7, <2>2, <2>4, <2>5, <2>6
<1>7. CASE ~(Len(new) >= AttemptLimit)
  <2>1. A!Failed(b) = [A_guard EXCEPT !.failures = new]
    BY <1>7 DEF A!Failed, new, kept, old
  <2>2. /\ A!Failed(b) \in A!Guard /\ A!Failed(b).failures = new
        /\ A!Failed(b).until = A_guard.until /\ A!Failed(b).since = A_guard.since
        /\ A!Failed(b).many = A_guard.many
    BY <1>1, <1>4, <2>1 DEF A!Guard
  <2> QED
    BY <1>3, <1>4, <1>5, <1>7, <2>2
<1> QED
  BY <1>6, <1>7

\* The types, for what follows.
LEMMA AccessTypes ==
  ASSUME A!AccessInv, A!AccessAssumption
  PROVE  /\ A_account \in {A!Absent, A!Torn} \cup Codes
         /\ A_token \in A!Token /\ A_token.n \in {0, A_issued} /\ A_issued \in 1..MaxTokens
         /\ A_table \in [Accounts -> A!Sessions] /\ A_request \in [Accounts -> A!Request]
         /\ A_guard \in A!Guard /\ Len(A_guard.failures) < AttemptLimit
         /\ A_command \in {"none", "checked"} /\ A_hour \in A!Hours /\ A_hour \in Nat
         /\ A_stops \in 0..MaxFaults /\ A_past \in A!Past
         /\ A!NoToken \in A!Token /\ A!NoToken.n = 0 /\ A!Unguarded \in A!Guard
         /\ Len(A!Unguarded.failures) < AttemptLimit
<1>1. A!TypeOK
  BY DEF A!AccessInv
<1>2. A!NoToken \in A!Token /\ A!NoToken.n = 0
  <2>1. 0 \in 0..MaxTokens /\ 0 \in A!Hours
    BY DEF A!Hours, A!AccessAssumption
  <2> QED
    BY <2>1 DEF A!NoToken, A!Token
<1>3. A!Unguarded \in A!Guard /\ Len(A!Unguarded.failures) < AttemptLimit
  BY DEF A!Unguarded, A!Guard, A!AccessAssumption
<1>4. A_hour \in Nat
  BY <1>1 DEF A!TypeOK, A!Hours
<1> QED
  BY <1>1, <1>2, <1>3, <1>4 DEF A!TypeOK

\* The conjuncts of the invariant.
LEMMA AccessHolds ==
  ASSUME A!TypeOK', A!RequestsFit', A!OneCreates', A!AccountIsOne', A!OneRedeems', A!TokenIsForOne',
         A!SetupIsOver', A!OneSigningIn', A!LockoutIsServedOnce', A!AttemptsAreFew'
  PROVE  A!AccessInv'
BY DEF A!AccessInv, A!AccessIsInOrder

\* A step of the account's and the requests' surroundings.
LEMMA CalmStep ==
  ASSUME A!AccessInv, A!AccessAssumption, UNCHANGED <<x1, x3, x5, x6, x10>>,
         A_token' \in {A_token, A!NoToken}, A_hour' \in A!Hours, A_hour' >= A_hour,
         A_command' \in {"none", "checked"}, A_stops' \in 0..MaxFaults,
         A_table' \in [Accounts -> A!Sessions],
         \A c \in Accounts :
           /\ A_table'[c].setup = A_table[c].setup
           /\ A_table'[c].admin.live =>
                /\ A_table[c].admin.live /\ A_table'[c].admin.password = A_table[c].admin.password
                /\ A_table'[c].admin.stale = A_table[c].admin.stale
  PROVE  A!AccessInv'
<1> USE AccessTypes
<1>1. A!TypeOK'
  BY DEF A!TypeOK, A!AccessInv, A!Hours
<1>2. A!RequestsFit'
  BY DEF A!RequestsFit, A!AccessInv, A!Exists
<1>3. A!OneCreates' /\ A!AccountIsOne'
  BY OneCreatesStays
<1>4. A!OneRedeems' /\ A!TokenIsForOne'
  BY OneRedeemsStays
<1>5. A!SetupIsOver'
  BY SetupStaysOver DEF A_Writes, A!Exists
<1>6. A!OneSigningIn'
  BY SigningInStays DEF A_Writes
<1>7. A_hour' \in Nat /\ A!Verifying' = A!Verifying
  BY DEF A!Hours, A!Verifying
<1>8. A!LockoutIsServedOnce' /\ A!AttemptsAreFew'
  BY <1>7, GuardStays
<1> QED
  BY ONLY <1>1, <1>2, <1>3, <1>4, <1>5, <1>6, <1>8, AccessHolds

\* A new token, and what is asked again or forgotten with it.
LEMMA IssueStep ==
  ASSUME A!AccessInv, A!AccessAssumption, NEW late \in BOOLEAN, A!Exists => late, A!Issue(late),
         UNCHANGED <<x1, x8>>, A_command' \in {"none", "checked"}, A_stops' \in 0..MaxFaults,
         \/ UNCHANGED <<x4, x5, x6>>
         \/ /\ A_guard' = A!Unguarded /\ A_request' = [c \in Accounts |-> A!Idle] /\ ~A!Exists
            /\ A_table' = [c \in Accounts |-> [setup |-> A!SetupOver, admin |-> A!SignedOff]]
  PROVE  A!AccessInv'
<1> USE AccessTypes
<1>1. /\ A_issued' = A_issued + 1 /\ A_issued' \in 1..MaxTokens
      /\ A_token' \in A!Token /\ A_token'.n = A_issued' /\ A_token'.late = late
      /\ A_past' \in A!Past /\ A_past'.redeemed = 0 /\ A_past'.made = A_past.made
      /\ A_past'.atOnce = A_past.atOnce
  <2>1. A_issued' = A_issued + 1 /\ A_issued + 1 \in 1..MaxTokens /\ A_issued + 1 \in 0..MaxTokens
    <3>1. A_issued \in Nat /\ MaxTokens \in Nat /\ A_issued < MaxTokens /\ A_issued' = A_issued + 1
      BY DEF A!Issue, A!AccessAssumption
    <3> QED
      BY ONLY <3>1
  <2>2. A_token' = [n |-> A_issued + 1, at |-> A_hour, late |-> late]
    BY DEF A!Issue
  <2>3. A_token' \in A!Token
    BY <2>1, <2>2 DEF A!Token
  <2>4. /\ A_past' \in A!Past /\ A_past'.redeemed = 0 /\ A_past'.made = A_past.made
        /\ A_past'.atOnce = A_past.atOnce
    <3>1. PICK p : p = [A_past EXCEPT !.redeemed = 0]
      OBVIOUS
    <3>2. p \in A!Past /\ p.redeemed = 0 /\ p.made = A_past.made /\ p.atOnce = A_past.atOnce
      BY <3>1 DEF A!Past
    <3>3. A_past' = [p EXCEPT !.together = FALSE]
      BY <3>1 DEF A!Issue
    <3> QED
      BY <3>2, <3>3 DEF A!Past
  <2> QED
    BY <2>1, <2>2, <2>3, <2>4
<1>2. A!Idle \in A!Request /\ A!Idle.step = "idle" /\ A!Idle.of = Nil /\ A!Idle.token = 0
  BY DEF A!Idle, A!Request, A!Steps, A!AccessAssumption
<1>3. /\ A!SetupOver \in [live : BOOLEAN, at : A!Hours, late : BOOLEAN] /\ ~A!SetupOver.live
      /\ A!SignedOff \in A_Admin /\ ~A!SignedOff.live
  BY DEF A!SetupOver, A!SignedOff, A_Admin, A!Hours, A!AccessAssumption
<1>4. /\ A_request' \in [Accounts -> A!Request] /\ A_table' \in [Accounts -> A!Sessions]
      /\ \A c \in Accounts : A_request'[c] = A_request[c] \/ A_request'[c] = A!Idle
      /\ \A c \in Accounts :
           \/ A_table'[c] = A_table[c]
           \/ ~A_table'[c].setup.live /\ ~A_table'[c].admin.live
  BY <1>2, <1>3 DEF A!Sessions, A_Admin
<1>5. \A c \in Accounts : A_request[c].token \in Nat /\ A_request[c].token <= A_issued
  BY DEF A!AccessInv, A!RequestsFit, A!Request
<1>6. A!TypeOK'
  BY <1>1, <1>2, <1>4 DEF A!TypeOK, A!AccessInv, A!Hours
<1>7. \A c \in Accounts : A_table[c].admin.live => A_table[c].admin.password \in Codes
  BY DEF A!RequestsFit, A!AccessInv
<1>8. A!RequestsFit'
  BY <1>1, <1>2, <1>4, <1>7, FitStays DEF A!Exists
<1>9. A!OneCreates' /\ A!AccountIsOne'
  BY <1>1, <1>2, <1>4, OneCreatesStays
<1>10. A!OneRedeems' /\ A!TokenIsForOne'
  BY <1>1, <1>2, <1>4, <1>5, NewToken
<1>11. A!SetupIsOver'
  <2>1. CASE ~A!Exists
    BY <2>1 DEF A!Exists, A!SetupIsOver
  <2>2. CASE A!Exists
    <3>1. UNCHANGED <<x1, x4, x5, x6>>
      BY <2>2
    <3> QED
      BY <1>1, <3>1, SetupStaysOver DEF A_Writes, A!Exists
  <2> QED
    BY <2>1, <2>2
<1>12. A!OneSigningIn'
  <2>1. CASE UNCHANGED <<x4, x5, x6>>
    BY <1>1, <2>1, SigningInStays DEF A_Writes
  <2>2. CASE \A c \in Accounts : ~A_table'[c].admin.live
    BY <2>2 DEF A!OneSigningIn
  <2> QED
    BY <1>3, <2>1, <2>2
<1>13. A_hour' \in Nat /\ A!Verifying' \subseteq A!Verifying
  BY <1>2, <1>4 DEF A!Verifying
<1>14. A!LockoutIsServedOnce' /\ A!AttemptsAreFew'
  BY <1>13, GuardStays
<1> QED
  BY ONLY <1>6, <1>8, <1>9, <1>10, <1>11, <1>12, <1>14, AccessHolds

\* A token is presented, and bought with.
LEMMA RedeemStep ==
  ASSUME A!AccessInv, A!AccessAssumption, NEW b \in Accounts, NEW n \in 1..MaxTokens, A!Redeem(b, n)
  PROVE  A!AccessInv'
<1> USE AccessTypes
<1>1. CASE A_hour - A_token.at > TokenLife
  BY <1>1, CalmStep DEF A!Redeem
<1>2. CASE ~(A_hour - A_token.at > TokenLife)
  <2>1. /\ n = A_issued /\ A_token.n = n /\ UNCHANGED <<x1, x2, x3, x4, x5, x7, x8, x9>>
        /\ A_request[b].step = "idle"
        /\ A_past' = [A_past EXCEPT !.together = @ \/ \E a \in Accounts \ {b} : A_request[a].token = n]
        /\ A!Asks(b, "redeeming", [A!Idle EXCEPT !.token = n])
    BY <1>2 DEF A!Redeem, A!Asks, A!Others
  <2>2. A_Takes(b, "redeeming", Nil, Nil, n)
    <3>1. PICK q : q = [A!Idle EXCEPT !.token = n]
      OBVIOUS
    <3>2. q \in A!Request /\ q.of = Nil /\ q.password = Nil /\ q.token = n
      BY <3>1, IdleIs DEF A!Request
    <3> QED
      BY <2>1, <3>1, <3>2, AskedTakes DEF A!Steps
  <2>3. PICK t \in BOOLEAN : t = (A_past.together \/ \E a \in Accounts \ {b} : A_request[a].token = n)
    BY Zenon
  <2>4. /\ A_past' \in A!Past /\ A_past'.together = t /\ A_past'.redeemed = A_past.redeemed
        /\ A_past'.made = A_past.made /\ A_past'.atOnce = A_past.atOnce
    BY <2>1, <2>3 DEF A!Past
  <2>5. A!TypeOK'
    BY <2>1, <2>2, <2>4 DEF A!TypeOK, A!AccessInv, A_Takes
  <2>6. A!RequestsFit'
    BY <2>1, <2>2, FitStays DEF A_Takes, A!AccessInv, A!RequestsFit, A!Exists
  <2>7. A!OneCreates' /\ A!AccountIsOne'
    BY <2>1, <2>2, <2>4, OneCreatesStays DEF A_Takes
  <2>8. A!OneRedeems' /\ A!TokenIsForOne'
    <3>1. A_past.redeemed = 0 \/ A_past.redeemed = 2 \/ A_past.together
      BY <2>1 DEF A!AccessInv, A!OneRedeems, A!Past
    <3>2. A_past.redeemed = 0 \/ A_past.together
      BY <3>1 DEF A!AccessInv, A!AccessIsInOrder, A!TokenIsForOne
    <3>3. t \/ \A a \in Accounts \ {b} : A_request[a].token # n
      BY <2>3
    <3>4. A_past.together => t
      BY <2>3
    <3> QED
      BY <2>1, <2>2, <2>4, <3>2, <3>3, <3>4 DEF A!OneRedeems, A!TokenIsForOne, A!Redeeming, A_Takes
  <2>9. A!SetupIsOver' /\ A!OneSigningIn'
    BY <2>1, <2>2, <2>4, SetupStaysOver, SigningInStays DEF A_Writes, A!Exists, A_Takes
  <2>10. A!Verifying' \subseteq A!Verifying
    BY <2>2 DEF A!Verifying, A_Takes
  <2>11. A!LockoutIsServedOnce' /\ A!AttemptsAreFew'
    BY <2>1, <2>10, GuardStays
  <2> QED
    BY ONLY <2>5, <2>6, <2>7, <2>8, <2>9, <2>11, AccessHolds
<1> QED
  BY <1>1, <1>2

\* A token that is redeemed opens setup where there is no account yet.
LEMMA RedeemedStep ==
  ASSUME A!AccessInv, A!AccessAssumption, NEW b \in Accounts, A!Redeemed(b)
  PROVE  A!AccessInv'
<1> USE AccessTypes
<1>1. A_Takes(b, "idle", Nil, Nil, 0) /\ A_request[b].step = "redeeming"
      /\ A_token' = A!NoToken /\ UNCHANGED <<x1, x3, x5, x7, x8, x9>>
  BY AnsweredTakes DEF A!Redeemed
<1>2. PICK late \in BOOLEAN : late = A!Exists
  BY Zenon DEF A!Exists
<1>3. PICK s : s = [live |-> TRUE, at |-> A_hour, late |-> late]
  OBVIOUS
<1>4. s \in [live : BOOLEAN, at : A!Hours, late : BOOLEAN] /\ s.late = late
  BY <1>3
<1>5. A_table' = [A_table EXCEPT ![b].setup = s]
  BY <1>2, <1>3, Zenon DEF A!Redeemed
<1>6. /\ A_table' \in [Accounts -> A!Sessions]
      /\ A_table'[b].setup = s /\ A_table'[b].admin = A_table[b].admin
      /\ \A c \in Accounts \ {b} : A_table'[c] = A_table[c]
  BY <1>4, <1>5, SetupBecomes
<1>7. /\ A_past' \in A!Past /\ A_past'.together = A_past.together
      /\ A_past'.made = A_past.made /\ A_past'.atOnce = A_past.atOnce
      /\ A_past'.redeemed = IF A_request[b].token = A_issued /\ A_past.redeemed < 2
                            THEN A_past.redeemed + 1 ELSE A_past.redeemed
  BY DEF A!Redeemed, A!Past
<1>8. A!TypeOK'
  BY <1>1, <1>6, <1>7 DEF A!TypeOK, A!AccessInv, A_Takes
<1>9. A!RequestsFit'
  BY <1>1, <1>6, FitStays DEF A_Takes, A!AccessInv, A!RequestsFit, A!Exists
<1>10. A!OneCreates' /\ A!AccountIsOne'
  BY <1>1, <1>7, OneCreatesStays DEF A_Takes
<1>11. A!OneRedeems' /\ A!TokenIsForOne'
  <2>1. CASE A_request[b].token = A_issued
    <3>1. A_past.together \/ A_past.redeemed = 0
      BY <1>1, <2>1 DEF A!AccessInv, A!AccessIsInOrder, A!OneRedeems, A!TokenIsForOne, A!Redeeming,
         A!Past
    <3>2. A_past.together \/ \A c \in Accounts \ {b} : ~A!Redeeming(c)
      BY <1>1, <2>1 DEF A!AccessInv, A!OneRedeems, A!Redeeming
    <3>3. A_past.together \/ \A c \in Accounts : ~A!Redeeming(c)'
      BY <1>1, <3>2 DEF A!Redeeming, A_Takes
    <3> QED
      BY <1>1, <1>7, <2>1, <3>1, <3>3 DEF A!OneRedeems, A!TokenIsForOne
  <2>2. CASE A_request[b].token # A_issued
    BY <1>1, <1>7, <2>2, OneRedeemsStays DEF A_Takes
  <2> QED
    BY <2>1, <2>2
<1>12. A!SetupIsOver' /\ A!OneSigningIn'
  BY <1>1, <1>2, <1>4, <1>6, <1>7, SetupStaysOver, SigningInStays DEF A_Writes, A!Exists, A_Takes
<1>13. A!Verifying' \subseteq A!Verifying
  BY <1>1 DEF A!Verifying, A_Takes
<1>14. A!LockoutIsServedOnce' /\ A!AttemptsAreFew'
  BY <1>1, <1>13, GuardStays
<1> QED
  BY ONLY <1>8, <1>9, <1>10, <1>11, <1>12, <1>14, AccessHolds

\* The account is asked for, and its record written.
LEMMA CreateStep ==
  ASSUME A!AccessInv, A!AccessAssumption, NEW b \in Accounts, NEW p \in Codes, A!Create(b, p)
  PROVE  A!AccessInv'
<1> USE AccessTypes
<1>1. ~A!Exists /\ UNCHANGED <<x1, x2, x3, x4, x5, x7, x8, x9>> /\ A_request[b].step = "idle"
  BY DEF A!Create, A!MayCreate, A!Asks
<1>2. A_Takes(b, "creating", "create", p, 0)
  <2>1. PICK r : r = [A!Idle EXCEPT !.of = "create"]
    OBVIOUS
  <2>2. r \in A!Request /\ r.of = "create" /\ r.token = 0
    BY <2>1, IdleIs DEF A!Request
  <2>3. PICK q : q = [r EXCEPT !.password = p]
    OBVIOUS
  <2>4. q \in A!Request /\ q.of = "create" /\ q.password = p /\ q.token = 0
    BY <2>2, <2>3 DEF A!Request
  <2>5. A!Asks(b, "creating", q)
    BY <2>1, <2>3 DEF A!Create
  <2> QED
    BY <2>4, <2>5, AskedTakes DEF A!Steps
<1>3. PICK o \in BOOLEAN : o = (A_past.atOnce \/ \E a \in Accounts \ {b} : A_request[a].step = "creating")
  BY Zenon
<1>4. A_past' = [A_past EXCEPT !.atOnce = o]
  BY <1>3, Zenon DEF A!Create, A!Others
<1>5. /\ A_past' \in A!Past /\ A_past'.atOnce = o /\ A_past'.made = A_past.made
      /\ A_past'.redeemed = A_past.redeemed /\ A_past'.together = A_past.together
  BY <1>4 DEF A!Past
<1>6. A!TypeOK'
  BY <1>1, <1>2, <1>5 DEF A!TypeOK, A!AccessInv, A_Takes
<1>7. A!RequestsFit'
  BY <1>1, <1>2, FitStays DEF A_Takes, A!AccessInv, A!RequestsFit, A!Exists
<1>8. A!OneCreates' /\ A!AccountIsOne'
  <2>1. \A c \in Accounts : A!Making(c) => A_request[c].step = "creating"
    BY <1>1 DEF A!AccessInv, A!RequestsFit, A!Making
  <2>2. o \/ (~A_past.atOnce /\ \A c \in Accounts \ {b} : ~A!Making(c))
    BY <1>3, <2>1
  <2>3. o \/ (~A_past.atOnce /\ \A c \in Accounts \ {b} : ~A!Making(c)')
    BY <1>2, <2>2 DEF A!Making, A_Takes
  <2>4. ~A_past.atOnce => A_past.made # 1 /\ A_past.made <= 1
    BY <1>1 DEF A!AccessInv, A!AccessIsInOrder, A!AccountIsOne, A!OneCreates
  <2> QED
    BY <1>1, <1>2, <1>5, <2>3, <2>4 DEF A!OneCreates, A!AccountIsOne, A!Making, A_Takes, A!Exists
<1>9. A!OneRedeems' /\ A!TokenIsForOne'
  BY <1>1, <1>2, <1>5, OneRedeemsStays DEF A_Takes
<1>10. A!SetupIsOver'
  BY <1>1 DEF A!SetupIsOver, A!Exists
<1>11. A!OneSigningIn'
  <2>1. A_past.atOnce => A_past'.atOnce
    BY <1>3, <1>5
  <2> QED
    BY <1>1, <1>2, <2>1, SigningInStays DEF A_Writes, A_Takes
<1>12. A!Verifying' \subseteq A!Verifying
  BY <1>2 DEF A!Verifying, A_Takes
<1>13. A!LockoutIsServedOnce' /\ A!AttemptsAreFew'
  BY <1>1, <1>12, GuardStays
<1> QED
  BY ONLY <1>6, <1>7, <1>8, <1>9, <1>10, <1>11, <1>13, AccessHolds

\* Another password is asked for, by somebody who is signed in.
LEMMA ChangeStep ==
  ASSUME A!AccessInv, A!AccessAssumption, NEW b \in Accounts, NEW old \in Codes, NEW p \in Codes,
         A!Change(b, old, p)
  PROVE  A!AccessInv'
<1> USE AccessTypes
<1>1. /\ A_account = old /\ A_account # A!Torn /\ A!Exists /\ UNCHANGED <<x1, x2, x3, x5, x7, x8, x9, x10>>
      /\ A_table[b].admin.live /\ A_request[b].step = "idle"
  BY DEF A!Change, A!SignedIn, A!Asks, A!Exists, A!AccessAssumption
<1>2. A_Takes(b, "changing", "change", p, 0)
  <2>1. PICK r : r = [A!Idle EXCEPT !.of = "change"]
    OBVIOUS
  <2>2. r \in A!Request /\ r.of = "change" /\ r.token = 0
    BY <2>1, IdleIs DEF A!Request
  <2>3. PICK q : q = [r EXCEPT !.password = p]
    OBVIOUS
  <2>4. q \in A!Request /\ q.of = "change" /\ q.password = p /\ q.token = 0
    BY <2>2, <2>3 DEF A!Request
  <2>5. A!Asks(b, "changing", q)
    BY <2>1, <2>3 DEF A!Change
  <2> QED
    BY <2>4, <2>5, AskedTakes DEF A!Steps
<1>3. PICK s : s = [A_table[b].admin EXCEPT !.at = A_hour]
  OBVIOUS
<1>4. A_table[b].admin \in A_Admin
  BY DEF A!Sessions, A_Admin
<1>5. s \in A_Admin /\ s.live = A_table[b].admin.live /\ s.password = A_table[b].admin.password
      /\ s.stale = A_table[b].admin.stale
  BY <1>3, <1>4 DEF A_Admin
<1>6. A_table' = [A_table EXCEPT ![b].admin = s]
  BY <1>3 DEF A!Change
<1>7. /\ A_table' \in [Accounts -> A!Sessions]
      /\ A_table'[b].admin = s /\ A_table'[b].setup = A_table[b].setup
      /\ \A c \in Accounts \ {b} : A_table'[c] = A_table[c]
  BY <1>5, <1>6, AdminBecomes
<1>8. A!TypeOK'
  BY <1>1, <1>2, <1>7 DEF A!TypeOK, A!AccessInv, A_Takes
<1>9. \A c \in Accounts : A_table[c].admin.live => A_table[c].admin.password \in Codes
  BY DEF A!RequestsFit, A!AccessInv
<1>10. A!RequestsFit'
  BY <1>1, <1>2, <1>5, <1>7, <1>9, FitStays DEF A_Takes, A!Exists
<1>11. A!OneCreates' /\ A!AccountIsOne'
  BY <1>1, <1>2, OneCreatesStays DEF A_Takes
<1>12. A!OneRedeems' /\ A!TokenIsForOne'
  BY <1>1, <1>2, OneRedeemsStays DEF A_Takes
<1>13. A!SetupIsOver' /\ A!OneSigningIn'
  BY <1>1, <1>2, <1>5, <1>7, SetupStaysOver, SigningInStays DEF A_Writes, A!Exists, A_Takes
<1>14. A!Verifying' \subseteq A!Verifying
  BY <1>2 DEF A!Verifying, A_Takes
<1>15. A!LockoutIsServedOnce' /\ A!AttemptsAreFew'
  BY <1>1, <1>14, GuardStays
<1> QED
  BY ONLY <1>8, <1>10, <1>11, <1>12, <1>13, <1>15, AccessHolds

\* A request that goes one step further is otherwise what it was.
LEMMA StepTakes ==
  ASSUME A!AccessInv, NEW b \in Accounts, NEW step \in A!Steps, A_request' = [A_request EXCEPT ![b].step = step]
  PROVE  A_Takes(b, step, A_request[b].of, A_request[b].password, A_request[b].token)
<1>1. A_request \in [Accounts -> A!Request]
  BY DEF A!AccessInv, A!TypeOK
<1>2. PICK q : q = [A_request[b] EXCEPT !.step = step]
  OBVIOUS
<1>3. /\ q \in A!Request /\ q.step = step /\ q.of = A_request[b].of
      /\ q.password = A_request[b].password /\ q.token = A_request[b].token
  BY <1>1, <1>2 DEF A!Request
<1>4. A_request' = [A_request EXCEPT ![b] = q]
  BY <1>1, <1>2
<1> QED
  BY <1>1, <1>3, <1>4 DEF A_Takes

\* The account's file is emptied: the record is torn.
LEMMA EmptiesStep ==
  ASSUME A!AccessInv, A!AccessAssumption, NEW b \in Accounts, A!Empties(b)
  PROVE  A!AccessInv'
<1> USE AccessTypes
<1>1. /\ A_account' = A!Torn /\ A_account' # A!Absent /\ UNCHANGED <<x2, x3, x4, x5, x7, x8, x9, x10>>
      /\ A_request[b].step \in {"creating", "changing"}
  BY DEF A!Empties, A!Torn, A!Absent
<1>2. A_Takes(b, "emptied", A_request[b].of, A_request[b].password, A_request[b].token)
  BY StepTakes DEF A!Empties, A!Steps
<1>3. A!RequestsFit /\ A!OneCreates /\ A!AccountIsOne /\ A!OneSigningIn
  BY DEF A!AccessInv, A!AccessIsInOrder
<1>4. /\ A_request[b].step = "creating" => A_request[b].of = "create"
      /\ A_request[b].step = "changing" => A_request[b].of = "change" /\ A!Exists
  BY <1>3 DEF A!RequestsFit
<1>5. A_request[b].of \in {"create", "change"} /\ A_request[b].of # Nil
  BY <1>1, <1>4 DEF A!AccessAssumption
<1>6. A!TypeOK'
  BY <1>1, <1>2, <1>5 DEF A!TypeOK, A!AccessInv, A_Takes
<1>7. A!RequestsFit'
  BY <1>1, <1>2, <1>3, <1>5, FitStays DEF A_Takes, A!RequestsFit, A!Exists
<1>8. A!OneCreates' /\ A!AccountIsOne'
  <2>1. CASE A_past.atOnce
    BY <1>1, <2>1 DEF A!OneCreates, A!AccountIsOne
  <2>2. CASE ~A_past.atOnce /\ A_request[b].step = "creating"
    <3>1. ~A!Exists /\ A_past.made = 0
      BY <1>3, <2>2 DEF A!OneCreates, A!AccountIsOne, A!Past
    <3>2. \A c \in Accounts : A_request[c].of # "change"
      BY <1>3, <3>1 DEF A!RequestsFit
    <3>3. \A c \in Accounts \ {b} : ~A!Making(c)
      BY <1>3, <1>4, <2>2 DEF A!OneCreates, A!Making
    <3>4. \A c \in Accounts \ {b} : A_request[c].step # "creating"
      BY <1>3, <3>3 DEF A!RequestsFit, A!Making
    <3> QED
      BY <1>1, <1>2, <3>1, <3>2, <3>3, <3>4 DEF A!OneCreates, A!AccountIsOne, A!Making, A_Takes,
         A!Exists
  <2>3. CASE ~A_past.atOnce /\ A_request[b].step = "changing"
    <3>1. \A c \in Accounts : A_request[c].step # "creating"
                              /\ ~(A!Making(c) /\ A_request[c].step = "emptied")
      BY <1>3, <1>4, <2>3 DEF A!OneCreates
    <3>2. A_request[b].of = "change"
      BY <1>4, <2>3
    <3> QED
      BY <1>1, <1>2, <1>3, <3>1, <3>2 DEF A!OneCreates, A!AccountIsOne, A!Making, A_Takes, A!Exists
  <2> QED
    BY <1>1, <2>1, <2>2, <2>3
<1>9. A!OneRedeems' /\ A!TokenIsForOne'
  BY <1>1, <1>2, OneRedeemsStays DEF A_Takes
<1>10. A!SetupIsOver'
  <2>1. CASE A_request[b].step = "creating"
    BY <1>2, <1>4, <2>1 DEF A!SetupIsOver, A!Writing, A_Takes
  <2>2. CASE A_request[b].step = "changing"
    BY <1>1, <1>2, <1>4, <2>2, SetupStaysOver DEF A_Writes, A!Exists, A_Takes
  <2> QED
    BY <1>1, <2>1, <2>2
<1>11. A!OneSigningIn'
  <2>1. CASE A_request[b].step = "changing"
    BY <1>2, <1>4, <2>1 DEF A!OneSigningIn, A!Writing, A_Takes
  <2>2. CASE A_past.atOnce
    BY <1>1, <2>2 DEF A!OneSigningIn
  <2>3. CASE ~A_past.atOnce /\ A_request[b].step = "creating"
    <3>1. A_account = A!Absent
      BY <1>3, <2>3 DEF A!OneCreates, A!Exists
    <3>2. ~A!Writing("change")
      BY <1>3, <3>1 DEF A!RequestsFit, A!Writing, A!Exists
    <3>3. \A c \in Accounts : A_table[c].admin.live => A_table[c].admin.password \in Codes
      BY <1>3 DEF A!RequestsFit
    <3>4. \A c \in Accounts : A_table[c].admin.live => A_table[c].admin.stale
      BY <1>3, <2>3, <3>1, <3>2, <3>3 DEF A!OneSigningIn, A!AccessAssumption
    <3> QED
      BY <1>1, <3>4 DEF A!OneSigningIn
  <2> QED
    BY <1>1, <2>1, <2>2, <2>3
<1>12. A!Verifying' \subseteq A!Verifying
  BY <1>2 DEF A!Verifying, A_Takes
<1>13. A!LockoutIsServedOnce' /\ A!AttemptsAreFew'
  BY <1>1, <1>12, GuardStays
<1> QED
  BY ONLY <1>6, <1>7, <1>8, <1>9, <1>10, <1>11, <1>13, AccessHolds

\* And filled, with this request's password.
LEMMA FillsStep ==
  ASSUME A!AccessInv, A!AccessAssumption, NEW b \in Accounts, A!Fills(b)
  PROVE  A!AccessInv'
<1> USE AccessTypes
<1>1. /\ A_account' = A_request[b].password /\ UNCHANGED <<x2, x3, x4, x5, x7, x8, x9>>
      /\ A_request[b].step = "emptied"
  BY DEF A!Fills
<1>2. A_Takes(b, "written", A_request[b].of, A_request[b].password, A_request[b].token)
  BY StepTakes DEF A!Fills, A!Steps
<1>3. A!RequestsFit /\ A!OneCreates /\ A!AccountIsOne /\ A!OneSigningIn
  BY DEF A!AccessInv, A!AccessIsInOrder
<1>4. A_request[b].of \in {"create", "change"} /\ A_request[b].of # Nil /\ A!Exists
  BY <1>1, <1>3 DEF A!RequestsFit, A!AccessInv, A!TypeOK, A!AccessAssumption
<1>5. A_account' \in Codes /\ A_account' # A!Absent
  BY <1>1, <1>3, <1>4 DEF A!RequestsFit, A!AccessAssumption
<1>6. /\ A_past' \in A!Past /\ A_past'.atOnce = A_past.atOnce
      /\ A_past'.redeemed = A_past.redeemed /\ A_past'.together = A_past.together
      /\ A_past'.made = IF A_request[b].of = "create" /\ A_past.made < 2 THEN A_past.made + 1 ELSE A_past.made
  BY DEF A!Fills, A!Past
<1>7. A!TypeOK'
  BY <1>1, <1>2, <1>4, <1>5, <1>6 DEF A!TypeOK, A!AccessInv, A_Takes
<1>8. A!RequestsFit'
  BY <1>1, <1>2, <1>3, <1>4, <1>5, FitStays DEF A_Takes, A!RequestsFit, A!Exists
<1>9. A!OneCreates' /\ A!AccountIsOne'
  <2>1. CASE A_past.atOnce
    BY <1>6, <2>1 DEF A!OneCreates, A!AccountIsOne
  <2>2. CASE ~A_past.atOnce /\ A_request[b].of = "create"
    <3>1. A_past.made = 0 /\ \A c \in Accounts \ {b} : ~A!Making(c)
      BY <1>1, <1>3, <2>2 DEF A!OneCreates, A!Making
    <3>2. \A c \in Accounts \ {b} : A_request[c].step # "creating"
      BY <1>3, <3>1 DEF A!RequestsFit, A!Making
    <3>3. A_past'.made = 1
      BY <1>6, <2>2, <3>1
    <3> QED
      BY <1>2, <1>5, <3>1, <3>2, <3>3 DEF A!OneCreates, A!AccountIsOne, A!Making, A_Takes, A!Exists
  <2>3. CASE ~A_past.atOnce /\ A_request[b].of = "change"
    <3>1. \A c \in Accounts : A_request[c].step # "creating"
                              /\ ~(A!Making(c) /\ A_request[c].step = "emptied")
      BY <1>3, <1>4, <2>3 DEF A!OneCreates
    <3> QED
      BY <1>1, <1>2, <1>3, <1>5, <1>6, <2>3, <3>1 DEF A!OneCreates, A!AccountIsOne, A!Making,
         A_Takes, A!Exists
  <2> QED
    BY <1>4, <2>1, <2>2, <2>3
<1>10. A!OneRedeems' /\ A!TokenIsForOne'
  BY <1>1, <1>2, <1>6, OneRedeemsStays DEF A_Takes
<1>11. A!SetupIsOver'
  BY <1>1, <1>2, <1>4, <1>5, SetupStaysOver DEF A_Writes, A!Exists, A_Takes
<1>12. A!OneSigningIn'
  <2>1. CASE A_request[b].of = "change"
    BY <1>2, <2>1 DEF A!OneSigningIn, A!Writing, A_Takes
  <2>2. CASE A_past.atOnce
    BY <1>6, <2>2 DEF A!OneSigningIn
  <2>3. CASE ~A_past.atOnce /\ A_request[b].of = "create"
    <3>1. A_account = A!Torn /\ ~A!Writing("change")
      BY <1>1, <1>3, <2>3 DEF A!OneCreates, A!Writing, A!Making
    <3>2. \A c \in Accounts : A_table[c].admin.live => A_table[c].admin.password \in Codes
      BY <1>3 DEF A!RequestsFit
    <3>3. \A c \in Accounts : A_table[c].admin.live => A_table[c].admin.stale
      BY <1>3, <2>3, <3>1, <3>2 DEF A!OneSigningIn, A!AccessAssumption
    <3> QED
      BY <1>1, <3>3 DEF A!OneSigningIn
  <2> QED
    BY <1>4, <2>1, <2>2, <2>3
<1>13. A!Verifying' \subseteq A!Verifying
  BY <1>2 DEF A!Verifying, A_Takes
<1>14. A!LockoutIsServedOnce' /\ A!AttemptsAreFew'
  BY <1>1, <1>13, GuardStays
<1> QED
  BY ONLY <1>7, <1>8, <1>9, <1>10, <1>11, <1>12, <1>14, AccessHolds

\* The creator is signed in, and the token is over.
LEMMA CreatedStep ==
  ASSUME A!AccessInv, A!AccessAssumption, NEW b \in Accounts, A!Created(b)
  PROVE  A!AccessInv'
<1> USE AccessTypes
<1>1. /\ A_request[b].step = "written" /\ A_request[b].of = "create" /\ A_token' = A!NoToken
      /\ A_guard' = A!Unguarded /\ UNCHANGED <<x1, x3, x7, x8, x9, x10>>
      /\ A_Takes(b, "idle", Nil, Nil, 0)
  BY AnsweredTakes DEF A!Created
<1>2. A!RequestsFit
  BY DEF A!AccessInv
<1>3. A_request[b].password \in Codes
  BY <1>1, <1>2 DEF A!RequestsFit, A!AccessAssumption
<1>4. /\ A!AllOver(b) \in [Accounts -> A!Sessions]
      /\ \A c \in Accounts : ~A!AllOver(b)[c].setup.live /\ A!AllOver(b)[c].admin = A_table[c].admin
  <2>1. A!SetupOver \in [live : BOOLEAN, at : A!Hours, late : BOOLEAN] /\ ~A!SetupOver.live
    BY DEF A!SetupOver, A!Hours, A!AccessAssumption
  <2> QED
    BY <2>1 DEF A!AllOver, A!Sessions
<1>5. PICK t \in [Accounts -> A!Sessions] : t = A!AllOver(b)
  BY <1>4
<1>6. PICK s \in A_Admin : /\ s = A!SessionFor(A_request[b].password) /\ s.live
                           /\ s.password \in Codes /\ (s.stale <=> A_account # s.password)
  BY <1>3, SessionIsOne
<1>7. A_table' = [t EXCEPT ![b].admin = s]
  BY <1>5, <1>6 DEF A!Created
<1>8. /\ A_table' \in [Accounts -> A!Sessions]
      /\ A_table'[b].admin = s /\ A_table'[b].setup = t[b].setup
      /\ \A c \in Accounts \ {b} : A_table'[c] = t[c]
  BY <1>7, AdminBecomes
<1>9. \A c \in Accounts : ~A_table'[c].setup.live
                          /\ (c # b => A_table'[c].admin = A_table[c].admin)
  BY <1>4, <1>5, <1>8
<1>10. A!TypeOK'
  BY <1>1, <1>8 DEF A!TypeOK, A!AccessInv, A_Takes
<1>11. A!RequestsFit'
  BY <1>1, <1>2, <1>6, <1>8, <1>9, FitStays DEF A_Takes, A!RequestsFit, A!Exists
<1>12. A!OneCreates' /\ A!AccountIsOne'
  BY <1>1, OneCreatesStays DEF A_Takes
<1>13. A!OneRedeems' /\ A!TokenIsForOne'
  BY <1>1, OneRedeemsStays DEF A_Takes
<1>14. A!SetupIsOver'
  BY <1>1, <1>9 DEF A!SetupIsOver
<1>15. A!OneSigningIn'
  BY <1>1, <1>6, <1>8, <1>9, SigningInStays DEF A_Writes, A_Takes
<1>16. A!Verifying' \subseteq A!Verifying
  BY <1>1 DEF A!Verifying, A_Takes
<1>17. A!LockoutIsServedOnce' /\ A!AttemptsAreFew'
  BY <1>1, <1>16, GuardStays
<1> QED
  BY ONLY <1>10, <1>11, <1>12, <1>13, <1>14, <1>15, <1>17, AccessHolds

\* Everybody else is signed out.
LEMMA ChangedStep ==
  ASSUME A!AccessInv, A!AccessAssumption, NEW b \in Accounts, A!Changed(b)
  PROVE  A!AccessInv'
<1> USE AccessTypes
<1>1. /\ A_request[b].step = "written" /\ A_request[b].of = "change"
      /\ UNCHANGED <<x1, x2, x3, x5, x7, x8, x9, x10>> /\ A_Takes(b, "idle", Nil, Nil, 0)
  BY AnsweredTakes DEF A!Changed
<1>2. /\ A_table' \in [Accounts -> A!Sessions]
      /\ \A c \in Accounts : A_table'[c].setup = A_table[c].setup /\ ~A_table'[c].admin.live
  <2>1. A!SignedOff \in A_Admin /\ ~A!SignedOff.live
    BY DEF A!SignedOff, A_Admin, A!Hours, A!AccessAssumption
  <2>2. A_table' = [c \in Accounts |-> [A_table[c] EXCEPT !.admin = A!SignedOff]]
    BY DEF A!Changed
  <2> QED
    BY <2>1, <2>2 DEF A!Sessions, A_Admin
<1>3. A!TypeOK'
  BY <1>1, <1>2 DEF A!TypeOK, A!AccessInv, A_Takes
<1>4. A!RequestsFit'
  BY <1>1, <1>2, FitStays DEF A_Takes, A!Exists
<1>5. A!OneCreates' /\ A!AccountIsOne'
  BY <1>1, OneCreatesStays DEF A_Takes
<1>6. A!OneRedeems' /\ A!TokenIsForOne'
  BY <1>1, OneRedeemsStays DEF A_Takes
<1>7. A!SetupIsOver'
  BY <1>1, <1>2, SetupStaysOver DEF A_Writes, A!Exists, A_Takes
<1>8. A!OneSigningIn'
  BY <1>2 DEF A!OneSigningIn
<1>9. A!Verifying' \subseteq A!Verifying
  BY <1>1 DEF A!Verifying, A_Takes
<1>10. A!LockoutIsServedOnce' /\ A!AttemptsAreFew'
  BY <1>1, <1>9, GuardStays
<1> QED
  BY ONLY <1>3, <1>4, <1>5, <1>6, <1>7, <1>8, <1>10, AccessHolds

\* Somebody signs in, or does not.
LEMMA LoginStep ==
  ASSUME A!AccessInv, A!AccessAssumption, NEW b \in Accounts, NEW p \in Codes, A!Login(b, p)
  PROVE  A!AccessInv'
<1> USE AccessTypes
<1>1. A_hour >= A_guard.until /\ UNCHANGED <<x1, x2, x3, x4, x5, x7, x8, x9, x10>>
  BY DEF A!Login
<1>2. PICK w \in Codes \cup {Nil} : w = IF A_account = p THEN p ELSE Nil
  BY Zenon
<1>3. A_Takes(b, "verifying", Nil, w, 0)
  <2>1. PICK q : q = [A!Idle EXCEPT !.password = w]
    OBVIOUS
  <2>2. q \in A!Request /\ q.of = Nil /\ q.password = w /\ q.token = 0
    BY <2>1, IdleIs DEF A!Request
  <2>3. A!Asks(b, "verifying", q)
    BY <1>2, <2>1 DEF A!Login
  <2> QED
    BY <2>2, <2>3, AskedTakes DEF A!Steps
<1>4. A!TypeOK'
  BY <1>1, <1>3 DEF A!TypeOK, A!AccessInv, A_Takes
<1>5. A!RequestsFit'
  BY <1>1, <1>3, FitStays DEF A_Takes, A!AccessInv, A!RequestsFit, A!Exists
<1>6. A!OneCreates' /\ A!AccountIsOne'
  BY <1>1, <1>3, OneCreatesStays DEF A_Takes
<1>7. A!OneRedeems' /\ A!TokenIsForOne'
  BY <1>1, <1>3, OneRedeemsStays DEF A_Takes
<1>8. A_request[b].step = "idle"
  BY DEF A!Login, A!Asks
<1>9. A!SetupIsOver' /\ A!OneSigningIn'
  BY <1>1, <1>3, <1>8, SetupStaysOver, SigningInStays DEF A_Writes, A!Exists, A_Takes
<1>10. A_guard.until \in Nat
  BY DEF A!Guard
<1>11. A!LockoutIsServedOnce' /\ A!AttemptsAreFew'
  BY <1>1, <1>10 DEF A!AccessInv, A!AccessIsInOrder, A!LockoutIsServedOnce, A!AttemptsAreFew
<1> QED
  BY ONLY <1>4, <1>5, <1>6, <1>7, <1>9, <1>11, AccessHolds

\* An attempt ends: it fails and is counted, or signs in and forgets the failures.
LEMMA VerifiedStep ==
  ASSUME A!AccessInv, A!AccessAssumption, NEW b \in Accounts, A!Verified(b)
  PROVE  A!AccessInv'
<1> USE AccessTypes
<1>1. /\ A_request[b].step = "verifying" /\ A_Takes(b, "idle", Nil, Nil, 0)
      /\ UNCHANGED <<x1, x2, x3, x7, x8, x9, x10>>
  BY AnsweredTakes DEF A!Verified
<1>2. A!RequestsFit
  BY DEF A!AccessInv
<1>3. A!OneCreates' /\ A!AccountIsOne'
  BY <1>1, OneCreatesStays DEF A_Takes
<1>4. A!OneRedeems' /\ A!TokenIsForOne'
  BY <1>1, OneRedeemsStays DEF A_Takes
<1>5. PICK T : T = A!Verifying \ {b}
  OBVIOUS
<1>6. A!Verifying' = T /\ T \subseteq A!Verifying /\ T # A!Verifying
  BY <1>1, <1>5 DEF A!Verifying, A_Takes
<1>7. CASE A_request[b].password # Nil
  <2>1. A_request[b].password \in Codes /\ A_guard' = A!Unguarded
    BY <1>7 DEF A!Request, A!Verified
  <2>2. PICK s \in A_Admin : /\ s = A!SessionFor(A_request[b].password) /\ s.live
                             /\ s.password \in Codes /\ (s.stale <=> A_account # s.password)
    BY <2>1, SessionIsOne
  <2>3. A_table' = [A_table EXCEPT ![b].admin = s]
    BY <1>7, <2>2 DEF A!Verified
  <2>4. /\ A_table' \in [Accounts -> A!Sessions]
        /\ A_table'[b].admin = s /\ A_table'[b].setup = A_table[b].setup
        /\ \A c \in Accounts \ {b} : A_table'[c] = A_table[c]
    BY <2>3, AdminBecomes
  <2>5. A!TypeOK'
    BY <1>1, <2>1, <2>4 DEF A!TypeOK, A!AccessInv, A_Takes
  <2>6. A!RequestsFit'
    BY <1>1, <1>2, <2>2, <2>4, FitStays DEF A_Takes, A!RequestsFit, A!Exists
  <2>7. A!SetupIsOver' /\ A!OneSigningIn'
    BY <1>1, <2>2, <2>4, SetupStaysOver, SigningInStays DEF A_Writes, A!Exists, A_Takes
  <2>8. A!LockoutIsServedOnce' /\ A!AttemptsAreFew'
    BY <1>1, <2>1, GuardStays
  <2> QED
    BY ONLY <1>3, <1>4, <2>5, <2>6, <2>7, <2>8, AccessHolds
<1>8. CASE A_request[b].password = Nil
  <2>1. A_guard' = A!Failed(b) /\ UNCHANGED x4
    BY <1>8 DEF A!Verified
  <2>2. A!TypeOK'
    BY <1>1, <2>1, FailedFits DEF A!TypeOK, A!AccessInv, A_Takes
  <2>3. A!RequestsFit'
    BY <1>1, <1>2, <2>1, FitStays DEF A_Takes, A!RequestsFit, A!Exists
  <2>4. A!SetupIsOver' /\ A!OneSigningIn'
    BY <1>1, <2>1, SetupStaysOver, SigningInStays DEF A_Writes, A!Exists, A_Takes
  <2>5. /\ A!Cardinality(A!Verifying) \in Nat /\ A!Cardinality(T) \in Nat
        /\ A!Cardinality(T) < A!Cardinality(A!Verifying)
    BY <1>6, FewerVerify
  <2>6. /\ A!LockoutIsServedOnce
        /\ A_hour < A_guard.until /\ ~A_guard.many =>
             Len(A_guard.failures) + A!Cardinality(A!Verifying) < AttemptLimit
    BY DEF A!AccessInv, A!AccessIsInOrder, A!AttemptsAreFew
  <2>7. /\ Len(A_guard.failures) \in Nat /\ A_guard.until \in Nat /\ A_guard.since \in Nat
        /\ Len(A_guard'.failures) \in Nat /\ AttemptLimit \in Nat /\ Lockout \in Nat
    <3>1. A_guard' \in A!Guard /\ A_guard \in A!Guard
      BY <2>1, FailedFits DEF A!AccessInv, A!TypeOK
    <3> QED
      BY ONLY <3>1, A!AccessAssumption DEF A!Guard, A!Hours, A!AccessAssumption
  <2>8. \/ /\ Len(A_guard'.failures) <= Len(A_guard.failures) + 1
           /\ A_guard'.until = A_guard.until /\ A_guard'.since = A_guard.since
           /\ A_guard'.many = A_guard.many
        \/ /\ Len(A_guard.failures) + 1 >= AttemptLimit
           /\ Len(A_guard'.failures) = 0 /\ A_guard'.until = A_hour + Lockout
           /\ IF A_hour < A_guard.until
              THEN A_guard'.since = A_guard.since /\ A_guard'.many = A_guard.many
              ELSE /\ A_guard'.since = A_hour
                   /\ A_guard'.many <=> A!Cardinality(T) >= AttemptLimit
    BY <1>5, <2>1, FailedFits
  <2>9. A!Cardinality(A!Verifying)' = A!Cardinality(T)
    BY <1>6
  <2>10. A!LockoutIsServedOnce'
    <3>1. CASE A_guard'.until = A_guard.until /\ A_guard'.since = A_guard.since
               /\ A_guard'.many = A_guard.many
      BY ONLY <2>6, <3>1 DEF A!LockoutIsServedOnce
    <3>2. CASE /\ Len(A_guard.failures) + 1 >= AttemptLimit /\ A_hour < A_guard.until
               /\ A_guard'.many = A_guard.many
      <4>1. A_guard.many
        BY ONLY <2>5, <2>6, <2>7, <3>2
      <4> QED
        BY ONLY <3>2, <4>1 DEF A!LockoutIsServedOnce
    <3>3. CASE A_guard'.until = A_hour + Lockout /\ A_guard'.since = A_hour
      <4>1. A_hour \in Nat
        BY A!AccessAssumption DEF A!AccessInv, A!TypeOK, A!Hours, A!AccessAssumption
      <4>2. A_guard'.until <= A_guard'.since + Lockout
        BY ONLY <2>7, <3>3, <4>1
      <4> QED
        BY ONLY <4>2 DEF A!LockoutIsServedOnce
    <3> QED
      BY ONLY <2>8, <3>1, <3>2, <3>3
  <2>11. ASSUME A_hour < A_guard'.until, ~A_guard'.many
         PROVE  Len(A_guard'.failures) + A!Cardinality(T) < AttemptLimit
    <3>1. CASE A_hour < A_guard.until
      <4>1. A_guard'.many = A_guard.many
        BY <2>8, <3>1
      <4>2. Len(A_guard.failures) + A!Cardinality(A!Verifying) < AttemptLimit
        BY <2>6, <2>11, <3>1, <4>1
      <4>3. Len(A_guard'.failures) <= Len(A_guard.failures) + 1
        BY <2>5, <2>7, <2>8, <4>2
      <4> QED
        BY ONLY <2>5, <2>7, <4>2, <4>3
    <3>2. CASE ~(A_hour < A_guard.until)
      <4>1. A_guard'.until # A_guard.until
        BY <2>11, <3>2
      <4>2. Len(A_guard'.failures) = 0 /\ (A_guard'.many <=> A!Cardinality(T) >= AttemptLimit)
        BY <2>8, <3>2, <4>1
      <4> QED
        BY <2>5, <2>7, <2>11, <4>2
    <3> QED
      BY <3>1, <3>2
  <2>12. A!AttemptsAreFew'
    BY <1>1, <2>9, <2>11 DEF A!AttemptsAreFew
  <2> QED
    BY ONLY <1>3, <1>4, <2>2, <2>3, <2>4, <2>10, <2>12, AccessHolds
<1> QED
  BY <1>7, <1>8

\* Once there is an account a restart discards the token; before, it prints another.
LEMMA RestartStep ==
  ASSUME A!AccessInv, A!AccessAssumption, A!Restart
  PROVE  A!AccessInv'
<1> USE AccessTypes
<1>1. /\ A_stops' \in 0..MaxFaults /\ A_guard' = A!Unguarded /\ A_request' = [c \in Accounts |-> A!Idle]
      /\ A_table' = [c \in Accounts |-> [setup |-> A!SetupOver, admin |-> A!SignedOff]]
      /\ UNCHANGED <<x1, x7, x8>>
  BY DEF A!Restart, A!AccessAssumption
<1>2. CASE ~A!Exists
  BY <1>1, <1>2, IssueStep DEF A!Restart
<1>3. CASE A!Exists
  <2>1. A_token' = A!NoToken /\ UNCHANGED <<x3, x10>>
    BY <1>3 DEF A!Restart
  <2>2. /\ A!SetupOver \in [live : BOOLEAN, at : A!Hours, late : BOOLEAN] /\ ~A!SetupOver.live
        /\ A!SignedOff \in A_Admin /\ ~A!SignedOff.live
    BY DEF A!SetupOver, A!SignedOff, A_Admin, A!Hours, A!AccessAssumption
  <2>3. /\ A_table' \in [Accounts -> A!Sessions]
        /\ \A c \in Accounts : ~A_table'[c].setup.live /\ ~A_table'[c].admin.live
    BY <1>1, <2>2 DEF A!Sessions, A_Admin
  <2>4. /\ A_request' \in [Accounts -> A!Request]
        /\ \A c \in Accounts : /\ A_request'[c].step = "idle" /\ A_request'[c].of = Nil
                               /\ A_request'[c].token = 0
    BY <1>1, IdleIs
  <2>5. A!TypeOK'
    BY <1>1, <2>1, <2>3, <2>4 DEF A!TypeOK, A!AccessInv
  <2>6. A!RequestsFit'
    BY <1>1, <2>1, <2>3, <2>4, FitStays DEF A!Exists
  <2>7. A!OneCreates' /\ A!AccountIsOne'
    BY <1>1, <2>1, <2>4, OneCreatesStays
  <2>8. A!OneRedeems' /\ A!TokenIsForOne'
    BY <1>1, <2>1, <2>4, OneRedeemsStays
  <2>9. A!SetupIsOver' /\ A!OneSigningIn'
    BY <2>1, <2>3 DEF A!SetupIsOver, A!OneSigningIn
  <2>10. A!LockoutIsServedOnce' /\ A!AttemptsAreFew'
    BY <1>1, GuardStays
  <2> QED
    BY ONLY <2>5, <2>6, <2>7, <2>8, <2>9, <2>10, AccessHolds
<1> QED
  BY <1>2, <1>3

\* Every step of a browser, a command, the clock and a restart.
LEMMA AccessStep ==
  ASSUME A!AccessAssumption, A!AccessInv, [A!Next]_(A!accessVars)
  PROVE  A!AccessInv'
<1> USE AccessTypes
<1>1. CASE A!CommandLooks
  BY <1>1, CalmStep DEF A!CommandLooks
<1>2. CASE A!CommandIssues
  <2>1. PICK late \in BOOLEAN : late = A!Exists
    BY Zenon DEF A!Exists
  <2>2. A!Issue(late)
    BY <1>2, <2>1, Zenon DEF A!CommandIssues
  <2> QED
    BY <1>2, <2>1, <2>2, IssueStep DEF A!CommandIssues
<1>3. CASE A!Restart
  BY <1>3, RestartStep
<1>4. CASE A!Tick
  <2>1. A_hour' \in A!Hours /\ A_hour' >= A_hour
    BY <1>4 DEF A!Tick, A!Hours, A!AccessAssumption
  <2> QED
    BY <1>4, <2>1, CalmStep DEF A!Tick
<1>5. ASSUME NEW b \in Accounts, A!Visit(b) PROVE A!AccessInv'
  <2>1. PICK s : s = IF A!SignedIn(b) THEN [A_table[b].admin EXCEPT !.at = A_hour] ELSE A!SignedOff
    OBVIOUS
  <2>2. A_table[b].admin \in A_Admin /\ A_table[b].admin.live
    BY <1>5 DEF A!Sessions, A_Admin, A!Visit
  <2>3. A!SignedOff \in A_Admin /\ ~A!SignedOff.live
    BY DEF A!SignedOff, A_Admin, A!Hours, A!AccessAssumption
  <2>4. s \in A_Admin /\ (s.live => s.password = A_table[b].admin.password
                                    /\ s.stale = A_table[b].admin.stale)
    BY <2>1, <2>2, <2>3 DEF A_Admin
  <2>5. A_table' = [A_table EXCEPT ![b].admin = s]
    BY <1>5, <2>1 DEF A!Visit
  <2>6. /\ A_table' \in [Accounts -> A!Sessions]
        /\ A_table'[b].admin = s /\ A_table'[b].setup = A_table[b].setup
        /\ \A c \in Accounts \ {b} : A_table'[c] = A_table[c]
    BY <2>4, <2>5, AdminBecomes
  <2> QED
    BY <1>5, <2>2, <2>4, <2>6, CalmStep DEF A!Visit
<1>6. ASSUME NEW b \in Accounts, A!Logout(b) PROVE A!AccessInv'
  <2>1. A!SignedOff \in A_Admin /\ ~A!SignedOff.live
    BY DEF A!SignedOff, A_Admin, A!Hours, A!AccessAssumption
  <2>2. /\ A_table' \in [Accounts -> A!Sessions]
        /\ A_table'[b].admin = A!SignedOff /\ A_table'[b].setup = A_table[b].setup
        /\ \A c \in Accounts \ {b} : A_table'[c] = A_table[c]
    BY <1>6, <2>1, AdminBecomes DEF A!Logout
  <2> QED
    BY <1>6, <2>1, <2>2, CalmStep DEF A!Logout
<1>7. CASE UNCHANGED A!accessVars
  BY <1>7, CalmStep DEF A!accessVars
<1> QED
  BY <1>1, <1>2, <1>3, <1>4, <1>5, <1>6, <1>7, RedeemStep, RedeemedStep, EmptiesStep, FillsStep,
     CreatedStep, ChangedStep, VerifiedStep, CreateStep, LoginStep, ChangeStep DEF A!Next

HIDE DEF A_account, A_token, A_issued, A_table, A_guard, A_request, A_command, A_hour, A_stops,
  A_past

=============================================================================
