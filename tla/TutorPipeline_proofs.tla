------------------------- MODULE TutorPipeline_proofs -------------------------
(***************************************************************************)
(* Proofs about the generation pipeline, for any set of rows, any modes    *)
(* and any number of calls: the constraints of a prompt and of its rubric, *)
(* the length of prompts, what the general rubric was written for, what a  *)
(* reset leaves, which groups are written and what no call may lose.       *)
(***************************************************************************)
EXTENDS TutorPipeline, TLAPS

\* Every stage but "idle" belongs to a call, whose number names its texts.
InCall == pc # "idle" => visit \in 1 .. MaxVisits

TypeInv == TypeOK /\ InCall

-----------------------------------------------------------------------------
(* Rows and texts.                                                         *)

LEMMA SeededRowType ==
    ASSUME TutorAssumption, NEW r \in Rows
    PROVE SeededRow(r) \in RowRecord /\ Original(r) \in Texts
<1>1. Original(r) \in Texts
  BY DEF Original, Texts, TutorAssumption
<1>2. <<>> \in Seq(1 .. MaxVisits)
  OBVIOUS
<1> QED BY <1>1, <1>2 DEF SeededRow, RowRecord

\* What the stages do to a row keeps it a row.
LEMMA RowUpdates ==
    ASSUME NEW row \in RowRecord
    PROVE /\ \A g \in Texts \cup {NoRubric} : [row EXCEPT !.general = g] \in RowRecord
          /\ \A c \in Seq(1 .. MaxVisits) : [row EXCEPT !.constraint = c] \in RowRecord
          /\ \A a \in Seq(1 .. MaxVisits) : [row EXCEPT !.adaptive = a] \in RowRecord
          /\ \A t \in Texts, n \in Nat, c \in Seq(1 .. MaxVisits) :
               [row EXCEPT !.text = t, !.len = n, !.cs = c] \in RowRecord
          /\ \A c \in Seq(1 .. MaxVisits) : [row EXCEPT !.cs = c] \in RowRecord
BY DEF RowRecord

LEMMA ReadRowType ==
    ASSUME NEW row \in RowRecord
    PROVE ReadRow(row) \in RowRecord
<1>1. row.adaptive \in Seq(1 .. MaxVisits) /\ <<>> \in Seq(1 .. MaxVisits)
  BY DEF RowRecord
<1> QED BY <1>1, RowUpdates DEF ReadRow

LEMMA OwnGroupsType ==
    ASSUME NEW row \in RowRecord
    PROVE OwnGroups(row) \in RowRecord
<1> DEFINE c == IF mode \in ConstraintModes THEN row.constraint ELSE <<>>
           a == IF mode \in AdaptiveModes THEN row.adaptive ELSE <<>>
<1>1. c \in Seq(1 .. MaxVisits) /\ a \in Seq(1 .. MaxVisits)
  <2>1. /\ row.constraint \in Seq(1 .. MaxVisits)
        /\ row.adaptive \in Seq(1 .. MaxVisits)
        /\ <<>> \in Seq(1 .. MaxVisits)
    BY DEF RowRecord
  <2> QED BY <2>1
<1>2. OwnGroups(row) = [[row EXCEPT !.constraint = c] EXCEPT !.adaptive = a]
  BY DEF OwnGroups, RowRecord
<1> HIDE DEF c, a
<1>3. [row EXCEPT !.constraint = c] \in RowRecord
  BY <1>1, RowUpdates
<1> QED BY <1>1, <1>2, <1>3, RowUpdates

LEMMA WorkRow ==
    ASSUME TypeOK, NEW r \in DOMAIN work
    PROVE r \in Rows /\ work[r] \in RowRecord
BY DEF TypeOK

LEMMA JoinedType ==
    ASSUME TutorAssumption, TypeOK, visit \in 1 .. MaxVisits, NEW r \in DOMAIN work
    PROVE JoinBase(r) \in RowRecord /\ Joined(r) \in RowRecord
<1>1. work[r] \in RowRecord /\ SeededRow(r) \in RowRecord /\ Original(r) \in Texts
  BY WorkRow, SeededRowType
<1>2. SeededRow(r).len \in Nat /\ <<>> \in Seq(1 .. MaxVisits)
  BY <1>1 DEF RowRecord
<1>3. JoinBase(r) \in RowRecord
  BY <1>1, <1>2, RowUpdates DEF JoinBase
<1>4. Append(JoinBase(r).cs, visit) \in Seq(1 .. MaxVisits)
  BY <1>3 DEF RowRecord
<1> QED BY <1>3, <1>4, RowUpdates DEF Joined

LEMMA WithGeneralType ==
    ASSUME TypeOK, NEW rows
    PROVE /\ DOMAIN WithGeneral(rows) = DOMAIN work
          /\ WithGeneral(rows) \in [DOMAIN work -> RowRecord]
<1>1. \A r \in DOMAIN work :
        work[r] \in RowRecord /\ [work[r] EXCEPT !.general = work[r].text] \in RowRecord
  <2> TAKE r \in DOMAIN work
  <2>1. work[r] \in RowRecord
    BY WorkRow
  <2>2. work[r].text \in Texts \cup {NoRubric}
    BY <2>1 DEF RowRecord
  <2> QED BY <2>1, <2>2, RowUpdates
<1> QED BY <1>1 DEF WithGeneral

\* The rows that get a constraint are eligible, and their joined prompt fits.
LEMMA KeptRows ==
    ASSUME AddConstraint
    PROVE \E kept :
            /\ kept \subseteq DOMAIN work
            /\ \A r \in kept : ~Overlong(Length(Joined(r)))
            /\ chosen' = kept
            /\ work' = [r \in DOMAIN work |->
                  IF r \in kept
                    THEN [work[r] EXCEPT !.constraint =
                            Append(IF mode \in ResetModes THEN <<>> ELSE @, visit)]
                    ELSE work[r]]
<1>1. \A asked \in Asked : asked \subseteq DOMAIN work
  BY DEF Asked, Eligible
<1>2. PICK asked \in Asked : \E yes \in SUBSET asked :
         LET kept == {r \in yes : ~Overlong(Length(Joined(r)))}
         IN  /\ chosen' = kept
             /\ work' = [r \in DOMAIN work |->
                   IF r \in kept
                     THEN [work[r] EXCEPT !.constraint =
                             Append(IF mode \in ResetModes THEN <<>> ELSE @, visit)]
                     ELSE work[r]]
  BY DEF AddConstraint, Accumulated
<1>3. PICK yes \in SUBSET asked :
         LET kept == {r \in yes : ~Overlong(Length(Joined(r)))}
         IN  /\ chosen' = kept
             /\ work' = [r \in DOMAIN work |->
                   IF r \in kept
                     THEN [work[r] EXCEPT !.constraint =
                             Append(IF mode \in ResetModes THEN <<>> ELSE @, visit)]
                     ELSE work[r]]
  BY <1>2
<1> DEFINE kept == {r \in yes : ~Overlong(Length(Joined(r)))}
<1>4. kept \subseteq DOMAIN work
  BY <1>1, <1>3
<1> WITNESS kept
<1> QED BY <1>3, <1>4

-----------------------------------------------------------------------------
(* Types.                                                                  *)

LEMMA TutorTypeInit ==
    ASSUME TutorAssumption
    PROVE Init => TypeInv
<1> SUFFICES ASSUME Init PROVE TypeInv
  OBVIOUS
<1>1. store \in [Rows -> RowRecord]
  BY SeededRowType DEF Init
<1>2. DOMAIN work = {} /\ work \in [DOMAIN work -> RowRecord]
  BY DEF Init
<1> QED BY <1>1, <1>2 DEF Init, TypeInv, TypeOK, InCall, Stages, TutorAssumption

LEMMA TutorTypeBegin ==
    ASSUME TutorAssumption, TypeInv, NEW b, b \subseteq Rows, Begin(b)
    PROVE TypeInv'
<1>1. visit \in Nat /\ MaxVisits \in Nat /\ visit < MaxVisits /\ visit' = visit + 1
  BY DEF TypeInv, TypeOK, Begin, TutorAssumption
<1>2. \A r \in b : ReadRow(store[r]) \in RowRecord
  BY ReadRowType DEF TypeInv, TypeOK
<1>3. work' = [r \in b |-> ReadRow(store[r])]
  BY DEF Begin
<1>4. DOMAIN work' = b /\ work' \in [b -> RowRecord]
  BY <1>2, <1>3
<1> QED BY <1>1, <1>4 DEF Begin, TypeInv, TypeOK, InCall, Stages

\* Stages that only change the rows of the call, and which rows it chose.
LEMMA TutorTypeWork ==
    ASSUME TypeInv, pc # "idle", pc' \in Stages,
           DOMAIN work' = DOMAIN work, work' \in [DOMAIN work -> RowRecord],
           failed' \subseteq DOMAIN work, chosen' \subseteq DOMAIN work,
           UNCHANGED <<mode, active, store, visit>>
    PROVE TypeInv'
BY DEF TypeInv, TypeOK, InCall

LEMMA TutorTypeStages ==
    ASSUME TutorAssumption, TypeInv,
           Rollout \/ Rewrite \/ GenerateGeneral \/ AddConstraint \/ AddAdaptive
    PROVE TypeInv'
<1>1. TypeOK /\ work \in [DOMAIN work -> RowRecord]
  BY DEF TypeInv, TypeOK
<1>2. failed \subseteq DOMAIN work /\ chosen \subseteq DOMAIN work
  BY DEF TypeInv, TypeOK
<1>3. CASE Rollout
  <2>1. work' = work /\ failed' \subseteq DOMAIN work /\ chosen' = chosen
    BY <1>3 DEF Rollout
  <2>2. pc # "idle" /\ pc' \in Stages /\ UNCHANGED <<mode, active, store, visit>>
    BY <1>3 DEF Rollout, Stages
  <2> QED BY <1>1, <1>2, <2>1, <2>2, TutorTypeWork
<1>4. CASE Rewrite
  <2>1. PICK yes \in SUBSET Eligible : \E n \in [yes -> TextLens] :
          work' = [r \in DOMAIN work |->
                     IF r \in yes /\ ~Overlong(n[r]) THEN Rewritten(r, n[r]) ELSE work[r]]
    BY <1>4 DEF Rewrite
  <2>2. PICK n \in [yes -> TextLens] :
          work' = [r \in DOMAIN work |->
                     IF r \in yes /\ ~Overlong(n[r]) THEN Rewritten(r, n[r]) ELSE work[r]]
    BY <2>1
  <2>3. \A r \in DOMAIN work : r \in yes => Rewritten(r, n[r]) \in RowRecord
    <3> SUFFICES ASSUME NEW r \in DOMAIN work, r \in yes
                 PROVE Rewritten(r, n[r]) \in RowRecord
      OBVIOUS
    <3>1. n[r] \in Nat /\ <<visit, r, 1>> \in Texts /\ work[r] \in RowRecord
      BY <1>1, <2>2, WorkRow DEF TutorAssumption, TypeOK, Texts
    <3>2. [work[r] EXCEPT !.text = <<visit, r, 1>>, !.len = n[r], !.cs = <<>>] \in RowRecord
      <4>1. <<>> \in Seq(1 .. MaxVisits)
        OBVIOUS
      <4> QED BY <3>1, <4>1, RowUpdates
    <3>3. Rewritten(r, n[r]) =
            [[work[r] EXCEPT !.text = <<visit, r, 1>>, !.len = n[r], !.cs = <<>>]
               EXCEPT !.general = NoRubric]
      BY <3>1 DEF Rewritten, RowRecord
    <3> QED BY <3>2, <3>3, RowUpdates, ZenonT(60)
  <2>4. DOMAIN work' = DOMAIN work /\ work' \in [DOMAIN work -> RowRecord]
    BY <1>1, <2>2, <2>3
  <2>5. pc # "idle" /\ pc' \in Stages /\ UNCHANGED <<mode, active, store, visit, failed, chosen>>
    BY <1>4 DEF Rewrite, Stages
  <2> QED BY <1>2, <2>4, <2>5, TutorTypeWork
<1>5. CASE GenerateGeneral
  <2>1. DOMAIN work' = DOMAIN work /\ work' \in [DOMAIN work -> RowRecord]
    BY <1>1, <1>5, WithGeneralType DEF GenerateGeneral
  <2>2. pc # "idle" /\ pc' \in Stages /\ UNCHANGED <<mode, active, store, visit, failed, chosen>>
    BY <1>5 DEF GenerateGeneral, Stages
  <2> QED BY <1>2, <2>1, <2>2, TutorTypeWork
<1>6. CASE AddConstraint
  <2>1. PICK kept :
          /\ kept \subseteq DOMAIN work
          /\ chosen' = kept
          /\ work' = [r \in DOMAIN work |->
                IF r \in kept
                  THEN [work[r] EXCEPT !.constraint =
                          Append(IF mode \in ResetModes THEN <<>> ELSE @, visit)]
                  ELSE work[r]]
    BY <1>6, KeptRows
  <2>2. visit \in 1 .. MaxVisits
    BY <1>6 DEF AddConstraint, TypeInv, InCall
  <2>3. \A r \in DOMAIN work : work'[r] \in RowRecord
    <3> TAKE r \in DOMAIN work
    <3>1. work[r] \in RowRecord /\ work[r].constraint \in Seq(1 .. MaxVisits)
      BY <1>1, WorkRow DEF RowRecord
    <3>2. Append(IF mode \in ResetModes THEN <<>> ELSE work[r].constraint, visit)
            \in Seq(1 .. MaxVisits)
      <4>1. <<>> \in Seq(1 .. MaxVisits)
        OBVIOUS
      <4>2. \A c \in Seq(1 .. MaxVisits) : Append(c, visit) \in Seq(1 .. MaxVisits)
        BY <2>2
      <4> QED BY <3>1, <4>1, <4>2
    <3> QED BY <2>1, <3>1, <3>2, RowUpdates
  <2>4. DOMAIN work' = DOMAIN work /\ work' \in [DOMAIN work -> RowRecord]
    BY <2>1, <2>3
  <2>5. pc # "idle" /\ pc' \in Stages /\ UNCHANGED <<mode, active, store, visit, failed>>
    BY <1>6 DEF AddConstraint, Stages
  <2> QED BY <1>2, <2>1, <2>4, <2>5, TutorTypeWork
<1>7. CASE AddAdaptive
  <2>1. PICK yes \in SUBSET Eligible :
         work' = [r \in DOMAIN work |->
                    IF r \in yes THEN [work[r] EXCEPT !.adaptive = Append(@, visit)]
                                 ELSE work[r]]
    BY <1>7 DEF AddAdaptive
  <2>2. visit \in 1 .. MaxVisits
    BY <1>7 DEF AddAdaptive, TypeInv, InCall
  <2>3. \A r \in DOMAIN work : work'[r] \in RowRecord
    <3> TAKE r \in DOMAIN work
    <3>1. work[r] \in RowRecord /\ work[r].adaptive \in Seq(1 .. MaxVisits)
      BY <1>1, WorkRow DEF RowRecord
    <3>2. Append(work[r].adaptive, visit) \in Seq(1 .. MaxVisits)
      BY <2>2, <3>1
    <3> QED BY <2>1, <3>1, <3>2, RowUpdates
  <2>4. DOMAIN work' = DOMAIN work /\ work' \in [DOMAIN work -> RowRecord]
    BY <2>1, <2>3
  <2>5. pc # "idle" /\ pc' \in Stages /\ UNCHANGED <<mode, active, store, visit, failed, chosen>>
    BY <1>7 DEF AddAdaptive, Stages
  <2> QED BY <1>2, <2>4, <2>5, TutorTypeWork
<1> QED BY <1>3, <1>4, <1>5, <1>6, <1>7

LEMMA TutorTypeEva ==
    ASSUME TutorAssumption, TypeInv,
           SelectHighInfo \/ SelectRaises \/ MixEvolved \/ GenerateEvolvedGeneral
    PROVE TypeInv'
<1>1. TypeOK /\ work \in [DOMAIN work -> RowRecord]
  BY DEF TypeInv, TypeOK
<1>2. failed \subseteq DOMAIN work /\ chosen \subseteq DOMAIN work
  BY DEF TypeInv, TypeOK
<1>3. CASE SelectHighInfo
  <2>1. chosen' \subseteq DOMAIN work
    BY <1>3 DEF SelectHighInfo, Eligible
  <2>2. pc # "idle" /\ pc' \in Stages /\ UNCHANGED <<mode, active, store, visit, work, failed>>
    BY <1>3 DEF SelectHighInfo, Stages
  <2> QED BY <1>1, <1>2, <2>1, <2>2, TutorTypeWork
<1>4. CASE SelectRaises
  <2>1. pc # "idle" /\ pc' \in Stages /\ UNCHANGED <<mode, active, store, visit, work, failed, chosen>>
    BY <1>4 DEF SelectRaises, Stages
  <2> QED BY <1>1, <1>2, <2>1, TutorTypeWork
<1>5. CASE MixEvolved
  <2>a. PICK pool \in SUBSET PoolTexts : \E n \in [pool -> TextLens] :
          \E slots \in Slots(pool) : \E pick \in [slots -> pool] :
             /\ Cardinality(pool) < MixCount \/ Injective(pick)
             /\ work' = [r \in DOMAIN work |->
                  IF r \in slots THEN Evolved(r, pick[r], n[pick[r]]) ELSE work[r]]
             /\ chosen' = slots
    BY <1>5 DEF MixEvolved
  <2>b. PICK n \in [pool -> TextLens], slots \in Slots(pool) : \E pick \in [slots -> pool] :
             /\ work' = [r \in DOMAIN work |->
                  IF r \in slots THEN Evolved(r, pick[r], n[pick[r]]) ELSE work[r]]
             /\ chosen' = slots
    BY <2>a
  <2>c. PICK pick \in [slots -> pool] :
             /\ work' = [r \in DOMAIN work |->
                  IF r \in slots THEN Evolved(r, pick[r], n[pick[r]]) ELSE work[r]]
             /\ chosen' = slots
    BY <2>b
  <2>1. /\ work' = [r \in DOMAIN work |->
             IF r \in slots THEN Evolved(r, pick[r], n[pick[r]]) ELSE work[r]]
        /\ chosen' \subseteq DOMAIN work
    BY <2>c DEF Slots
  <2>2. \A r \in DOMAIN work : work'[r] \in RowRecord
    <3> TAKE r \in DOMAIN work
    <3>1. work[r] \in RowRecord /\ <<>> \in Seq(1 .. MaxVisits)
      BY <1>1
    <3>2. CASE r \in slots
      <4>1. pick[r] \in pool
        BY <2>c, <3>2
      <4>2. PICK c \in chosen, j \in 1 .. Evolutions : pick[r] = <<visit, c, j>>
        BY <4>1 DEF PoolTexts
      <4>3. visit \in 0 .. MaxVisits /\ c \in Rows /\ j \in Nat
        BY <1>1, <1>2, <4>2 DEF TypeOK, TutorAssumption
      <4>4. pick[r] \in Texts
        BY <4>2, <4>3 DEF Texts
      <4>5. n[pick[r]] \in Nat
        BY <4>1 DEF TutorAssumption
      <4>6. Evolved(r, pick[r], n[pick[r]]) \in RowRecord
        <5>1. [work[r] EXCEPT !.text = pick[r], !.len = n[pick[r]], !.cs = <<>>] \in RowRecord
          BY <3>1, <4>4, <4>5, RowUpdates
        <5> QED BY <5>1 DEF Evolved
      <4> QED BY <2>1, <3>2, <4>6
    <3>3. CASE r \notin slots
      BY <2>1, <3>1, <3>3
    <3> QED BY <3>2, <3>3
  <2>3. DOMAIN work' = DOMAIN work /\ work' \in [DOMAIN work -> RowRecord]
    BY <2>1, <2>2
  <2>4. pc # "idle" /\ pc' \in Stages /\ UNCHANGED <<mode, active, store, visit, failed>>
    BY <1>5 DEF MixEvolved, Stages
  <2> QED BY <1>2, <2>1, <2>3, <2>4, TutorTypeWork
<1>6. CASE GenerateEvolvedGeneral
  <2>1. DOMAIN work' = DOMAIN work /\ work' \in [DOMAIN work -> RowRecord]
    BY <1>1, <1>6, WithGeneralType DEF GenerateEvolvedGeneral
  <2>2. pc # "idle" /\ pc' \in Stages /\ UNCHANGED <<mode, active, store, visit, failed, chosen>>
    BY <1>6 DEF GenerateEvolvedGeneral, Stages
  <2> QED BY <1>2, <2>1, <2>2, TutorTypeWork
<1> QED BY <1>3, <1>4, <1>5, <1>6

LEMMA NewPromptType ==
    ASSUME TutorAssumption, TypeOK, visit \in 1 .. MaxVisits, NEW r \in DOMAIN work
    PROVE NewPrompt(r) \in RowRecord
<1>1. work[r] \in RowRecord /\ Joined(r) \in RowRecord
  BY WorkRow, JoinedType
<1>2. Joined(r).text \in Texts /\ Joined(r).len \in Nat /\ Joined(r).cs \in Seq(1 .. MaxVisits)
  BY <1>1 DEF RowRecord
<1> QED BY <1>1, <1>2, RowUpdates DEF NewPrompt

LEMMA TutorTypeNext ==
    ASSUME TutorAssumption, TypeInv, [Next]_vars
    PROVE TypeInv'
<1>1. CASE BeginEpochPass
  BY <1>1, TutorTypeBegin DEF BeginEpochPass, TypeInv, TypeOK
<1>2. CASE BeginStepPass
  <2>1. PICK b \in Batches : Begin(b \cap active)
    BY <1>2 DEF BeginStepPass
  <2>2. b \cap active \subseteq Rows
    BY DEF TypeInv, TypeOK
  <2> QED BY <2>1, <2>2, TutorTypeBegin
<1>3. CASE Persist
  <2>1. visit \in 1 .. MaxVisits /\ TypeOK
    BY <1>3 DEF Persist, TypeInv, InCall
  <2>2. \A r \in DOMAIN work : OwnGroups(NewPrompt(r)) \in RowRecord
    BY <2>1, NewPromptType, OwnGroupsType
  <2>3. store' \in [Rows -> RowRecord]
    BY <1>3, <2>1, <2>2 DEF Persist, TypeOK
  <2> QED BY <1>3, <2>1, <2>3 DEF Persist, TypeInv, TypeOK, InCall, Stages
<1>4. CASE DropUnscorable
  <2>1. store' \in [Rows -> RowRecord]
    BY <1>4, SeededRowType DEF DropUnscorable, TypeInv, TypeOK
  <2>2. active' \subseteq Rows
    BY <1>4 DEF DropUnscorable, TypeInv, TypeOK
  <2> QED BY <1>4, <2>1, <2>2 DEF DropUnscorable, TypeInv, TypeOK, InCall, Stages
<1>5. CASE SwitchMode
  <2>1. DOMAIN work' = {} /\ work' \in [DOMAIN work' -> RowRecord]
    BY <1>5 DEF SwitchMode
  <2> QED BY <1>5, <2>1 DEF SwitchMode, TypeInv, TypeOK, InCall
<1>6. CASE UNCHANGED vars
  BY <1>6 DEF vars, TypeInv, TypeOK, InCall
<1> QED BY <1>1, <1>2, <1>3, <1>4, <1>5, <1>6, TutorTypeStages, TutorTypeEva
   DEF Next, Halted

\* Every variable keeps its type, in all modes, for any rows and model answers.
THEOREM TutorTypeCorrect == Spec => []TypeOK
<1>1. Init => TypeInv
  BY TutorTypeInit, TutorAssumption
<1>2. TypeInv /\ [Next]_vars => TypeInv'
  BY TutorTypeNext, TutorAssumption
<1>3. TypeInv => TypeOK
  BY DEF TypeInv
<1> QED BY <1>1, <1>2, <1>3, PTL DEF Spec

-----------------------------------------------------------------------------
(* Prompts and constraint rubrics in step, without a change of mode.       *)

\* In the constraint modes, rows written, rows being worked on and rows about
\* to be written each carry the rubric of the constraints in their prompt.
Lockstep ==
    mode \in ConstraintModes =>
      /\ \A r \in Rows : store[r].constraint = store[r].cs
      /\ pc \in {"rollout", "general", "constraint"} =>
           \A r \in DOMAIN work : work[r].constraint = work[r].cs
      /\ pc = "persist" => \A r \in DOMAIN work : work[r].constraint = NewPrompt(r).cs
      /\ pc \notin {"rewrite", "adaptive", "eva_select", "eva_mix", "eva_general"}

LockInv == TypeInv /\ Lockstep

\* The modes fall in four classes.
LEMMA ModeClasses ==
    mode \in ConstraintModes =>
      mode \notin RewriteModes /\ mode \notin AdaptiveModes /\ mode \notin EvaModes
BY DEF ConstraintModes, AppendModes, ResetModes, RewriteModes, AdaptiveModes, EvaModes

LEMMA JoinedFields ==
    ASSUME TutorAssumption, TypeOK, visit \in 1 .. MaxVisits, NEW r \in DOMAIN work
    PROVE /\ Joined(r).cs =
               Append(IF mode \in ResetModes THEN <<>> ELSE work[r].cs, visit)
          /\ Joined(r).constraint = work[r].constraint
<1>1. work[r] \in RowRecord /\ JoinBase(r) \in RowRecord
  BY WorkRow, JoinedType
<1>2. /\ JoinBase(r).cs = IF mode \in ResetModes THEN <<>> ELSE work[r].cs
      /\ JoinBase(r).constraint = work[r].constraint
  BY <1>1 DEF JoinBase, RowRecord
<1> QED BY <1>1, <1>2 DEF Joined, RowRecord

LEMMA NewPromptFields ==
    ASSUME TutorAssumption, TypeOK, visit \in 1 .. MaxVisits, NEW r \in DOMAIN work
    PROVE /\ NewPrompt(r).cs = IF mode \in ConstraintModes /\ r \in chosen
                                 THEN Joined(r).cs ELSE work[r].cs
          /\ NewPrompt(r).constraint = work[r].constraint
<1>1. work[r] \in RowRecord
  BY WorkRow
<1> QED BY <1>1 DEF NewPrompt, RowRecord

LEMMA OwnGroupsFields ==
    ASSUME NEW row \in RowRecord
    PROVE /\ OwnGroups(row).cs = row.cs
          /\ OwnGroups(row).constraint =
               IF mode \in ConstraintModes THEN row.constraint ELSE <<>>
BY DEF OwnGroups, RowRecord

LEMMA ReadRowFields ==
    ASSUME NEW row \in RowRecord
    PROVE ReadRow(row).cs = row.cs /\ ReadRow(row).constraint = row.constraint
BY DEF ReadRow, RowRecord

LEMMA SeededFields ==
    ASSUME NEW r
    PROVE SeededRow(r).cs = <<>> /\ SeededRow(r).constraint = <<>>
BY DEF SeededRow

LEMMA WithGeneralFields ==
    ASSUME TypeOK, NEW rows, NEW r \in DOMAIN work
    PROVE /\ WithGeneral(rows)[r].cs = work[r].cs
          /\ WithGeneral(rows)[r].constraint = work[r].constraint
<1>1. work[r] \in RowRecord
  BY WorkRow
<1> QED BY <1>1 DEF WithGeneral, RowRecord

LEMMA LockBegin ==
    ASSUME LockInv, NEW b, b \subseteq Rows, Begin(b)
    PROVE Lockstep'
<1>1. /\ mode' = mode /\ store' = store /\ pc' = "rollout"
      /\ work' = [r \in b |-> ReadRow(store[r])]
  BY DEF Begin
<1>2. \A r \in b : store[r] \in RowRecord
  BY DEF LockInv, TypeInv, TypeOK
<1>3. \A r \in b : work'[r].cs = store[r].cs /\ work'[r].constraint = store[r].constraint
  BY <1>1, <1>2, ReadRowFields
<1>4. mode \in ConstraintModes =>
        \A r \in DOMAIN work' : work'[r].constraint = work'[r].cs
  BY <1>1, <1>3 DEF LockInv, Lockstep
<1> QED BY <1>1, <1>4 DEF LockInv, Lockstep

LEMMA LockConstraint ==
    ASSUME TutorAssumption, LockInv, AddConstraint, TypeInv'
    PROVE Lockstep'
<1> SUFFICES ASSUME mode \in ConstraintModes PROVE Lockstep'
  BY DEF AddConstraint, Lockstep
<1>1. /\ mode' = mode /\ store' = store /\ visit' = visit /\ pc' = "persist"
      /\ pc = "constraint"
  BY DEF AddConstraint
<1>2. PICK kept :
        /\ kept \subseteq DOMAIN work
        /\ chosen' = kept
        /\ work' = [r \in DOMAIN work |->
              IF r \in kept
                THEN [work[r] EXCEPT !.constraint =
                        Append(IF mode \in ResetModes THEN <<>> ELSE @, visit)]
                ELSE work[r]]
  BY KeptRows
<1>3. visit \in 1 .. MaxVisits /\ TypeOK /\ TypeOK' /\ visit' \in 1 .. MaxVisits
  BY <1>1 DEF LockInv, TypeInv, InCall
<1>4. ASSUME NEW r \in DOMAIN work'
      PROVE work'[r].constraint = NewPrompt(r)'.cs
  <2>1. r \in DOMAIN work /\ work[r] \in RowRecord /\ work[r].constraint = work[r].cs
    BY <1>1, <1>2, <1>3, <1>4, WorkRow DEF LockInv, Lockstep
  <2>a. work'[r] \in RowRecord
    BY <1>3, <1>4 DEF TypeOK
  <2>2. NewPrompt(r)'.cs = IF r \in kept THEN Joined(r)'.cs ELSE work'[r].cs
    BY <1>1, <1>2, <2>a DEF NewPrompt, RowRecord
  <2>3. Joined(r)'.cs = Append(IF mode \in ResetModes THEN <<>> ELSE work'[r].cs, visit)
    <3>1. /\ JoinBase(r)'.cs = IF mode \in ResetModes THEN <<>> ELSE work'[r].cs
          /\ "cs" \in DOMAIN JoinBase(r)'
      BY <1>1, <2>a DEF JoinBase, RowRecord
    <3> QED BY <1>1, <3>1 DEF Joined
  <2>4. work'[r].cs = work[r].cs
    BY <1>2, <2>1 DEF RowRecord
  <2>5. CASE r \in kept
    <3>1. work'[r].constraint =
            Append(IF mode \in ResetModes THEN <<>> ELSE work[r].constraint, visit)
      BY <1>2, <2>1, <2>5 DEF RowRecord
    <3> QED BY <2>1, <2>2, <2>3, <2>4, <2>5, <3>1
  <2>6. CASE r \notin kept
    BY <1>2, <2>1, <2>2, <2>4, <2>6
  <2> QED BY <2>5, <2>6
<1> QED BY <1>1, <1>4 DEF LockInv, Lockstep

LEMMA LockStages ==
    ASSUME LockInv,
           \/ Rollout \/ Rewrite \/ GenerateGeneral \/ AddAdaptive
           \/ SelectHighInfo \/ SelectRaises \/ MixEvolved \/ GenerateEvolvedGeneral
    PROVE Lockstep'
<1> SUFFICES ASSUME mode \in ConstraintModes PROVE Lockstep'
  BY DEF Rollout, Rewrite, GenerateGeneral, AddAdaptive, SelectHighInfo,
     SelectRaises, MixEvolved, GenerateEvolvedGeneral, Lockstep
<1>1. pc \notin {"rewrite", "adaptive", "eva_select", "eva_mix", "eva_general"}
  BY DEF LockInv, Lockstep
<1>2. CASE Rollout
  <2>1. pc = "rollout" /\ mode' = mode /\ store' = store /\ work' = work
    BY <1>2 DEF Rollout
  <2>2. pc' = "general"
    BY <1>2, ModeClasses DEF Rollout
  <2> QED BY <2>1, <2>2 DEF LockInv, Lockstep
<1>3. CASE GenerateGeneral
  <2>1. PICK ok : work' = WithGeneral(ok)
    BY <1>3 DEF GenerateGeneral
  <2>2. pc = "general" /\ pc' = "constraint" /\ mode' = mode /\ store' = store
    BY <1>3, ModeClasses DEF GenerateGeneral
  <2>3. DOMAIN work' = DOMAIN work
    BY <2>1 DEF WithGeneral
  <2>4. \A r \in DOMAIN work' :
          work'[r].cs = work[r].cs /\ work'[r].constraint = work[r].constraint
    BY <2>1, <2>3, WithGeneralFields DEF LockInv, TypeInv
  <2> QED BY <2>2, <2>3, <2>4 DEF LockInv, Lockstep
<1> QED BY <1>1, <1>2, <1>3 DEF Rewrite, AddAdaptive, SelectHighInfo, SelectRaises,
         MixEvolved, GenerateEvolvedGeneral

LEMMA LockPersist ==
    ASSUME TutorAssumption, LockInv, Persist
    PROVE Lockstep'
<1> SUFFICES ASSUME mode \in ConstraintModes PROVE Lockstep'
  BY DEF Persist, Lockstep
<1>1. /\ mode' = mode /\ pc = "persist" /\ pc' \in {"drop", "idle"}
      /\ store' = [r \in Rows |->
           IF r \in DOMAIN work THEN OwnGroups(NewPrompt(r)) ELSE store[r]]
  BY DEF Persist
<1>2. visit \in 1 .. MaxVisits /\ TypeOK
  BY <1>1 DEF LockInv, TypeInv, InCall
<1>3. ASSUME NEW r \in Rows
      PROVE store'[r].constraint = store'[r].cs
  <2>1. CASE r \in DOMAIN work
    <3>1. NewPrompt(r) \in RowRecord /\ NewPrompt(r).constraint = work[r].constraint
      BY <1>2, <2>1, NewPromptType, NewPromptFields
    <3>2. work[r].constraint = NewPrompt(r).cs
      BY <1>1, <2>1 DEF LockInv, Lockstep
    <3> QED BY <1>1, <2>1, <3>1, <3>2, OwnGroupsFields
  <2>2. CASE r \notin DOMAIN work
    BY <1>1, <1>3, <2>2 DEF LockInv, Lockstep
  <2> QED BY <2>1, <2>2
<1> QED BY <1>1, <1>3 DEF Lockstep

LEMMA LockDrop ==
    ASSUME LockInv, DropUnscorable
    PROVE Lockstep'
<1>1. /\ mode' = mode /\ pc' = "idle"
      /\ \A r \in Rows : store'[r] \in {store[r], SeededRow(r)}
  BY DEF DropUnscorable
<1> QED BY <1>1, SeededFields DEF LockInv, Lockstep

LEMMA LockNext ==
    ASSUME TutorAssumption, ~MaySwitch, LockInv, [Next]_vars
    PROVE LockInv'
<1>1. TypeInv'
  BY TutorTypeNext DEF LockInv
<1>2. CASE BeginEpochPass
  BY <1>1, <1>2, LockBegin DEF BeginEpochPass, LockInv, TypeInv, TypeOK
<1>3. CASE BeginStepPass
  <2>1. PICK b \in Batches : Begin(b \cap active)
    BY <1>3 DEF BeginStepPass
  <2>2. b \cap active \subseteq Rows
    BY DEF LockInv, TypeInv, TypeOK
  <2> QED BY <1>1, <2>1, <2>2, LockBegin DEF LockInv
<1>4. CASE UNCHANGED vars
  <2>1. Lockstep'
    BY <1>4 DEF vars, LockInv, Lockstep, NewPrompt, Joined, JoinBase
  <2> QED BY <1>1, <2>1 DEF LockInv
<1> QED BY <1>1, <1>2, <1>3, <1>4, LockStages, LockConstraint, LockPersist, LockDrop
   DEF Next, Halted, SwitchMode, LockInv

\* Without a change of mode, the constraints in a prompt and the constraints
\* its reward scores are the same ones in the same order, for any number of
\* rows and calls and whatever the length guard, failed answers and resets did.
THEOREM ConstraintsAlwaysScored ==
    ASSUME ~MaySwitch
    PROVE Spec => []ConstraintsScored
<1>1. Init => LockInv
  <2> SUFFICES ASSUME Init PROVE Lockstep
    BY TutorTypeInit, TutorAssumption DEF LockInv
  <2>1. pc = "idle" /\ \A r \in Rows : store[r] = SeededRow(r)
    BY DEF Init
  <2> QED BY <2>1, SeededFields DEF Lockstep
<1>2. LockInv /\ [Next]_vars => LockInv'
  BY LockNext, TutorAssumption
<1>3. LockInv => ConstraintsScored
  BY DEF LockInv, TypeInv, TypeOK, Lockstep, ConstraintsScored
<1> QED BY <1>1, <1>2, <1>3, PTL DEF Spec

-----------------------------------------------------------------------------
(* No foreign constraint, also when restarts change the mode.              *)

Own(row) == Elements(row.constraint) \subseteq Elements(row.cs)

\* Rubrics that another mode left may be incomplete, but never foreign; only
\* the constraint modes look at them again.
NoForeign ==
    /\ \A r \in Rows : Own(store[r])
    /\ mode \in ConstraintModes =>
         /\ pc \in {"rollout", "general", "constraint"} => \A r \in DOMAIN work : Own(work[r])
         /\ pc = "persist" => \A r \in DOMAIN work :
              Elements(work[r].constraint) \subseteq Elements(NewPrompt(r).cs)
         /\ pc \notin {"rewrite", "adaptive", "eva_select", "eva_mix", "eva_general"}

ForeignInv == TypeInv /\ NoForeign

LEMMA ElementsFacts ==
    /\ Elements(<<>>) = {}
    /\ \A S : \A s \in Seq(S), x \in S : Elements(Append(s, x)) = Elements(s) \cup {x}
<1>1. Elements(<<>>) = {}
  BY DEF Elements
<1>2. ASSUME NEW S, NEW s \in Seq(S), NEW x \in S
      PROVE Elements(Append(s, x)) = Elements(s) \cup {x}
  <2>1. DOMAIN s = 1 .. Len(s) /\ Len(s) \in Nat
    OBVIOUS
  <2>2. DOMAIN Append(s, x) = 1 .. Len(s) + 1
    BY <2>1
  <2>3. \A i \in 1 .. Len(s) : Append(s, x)[i] = s[i]
    BY <2>1
  <2>4. Append(s, x)[Len(s) + 1] = x
    BY <2>1
  <2>5. 1 .. Len(s) + 1 = (1 .. Len(s)) \cup {Len(s) + 1}
    BY <2>1
  <2> QED BY <2>1, <2>2, <2>3, <2>4, <2>5 DEF Elements
<1> QED BY <1>1, <1>2

LEMMA ForeignBegin ==
    ASSUME ForeignInv, NEW b, b \subseteq Rows, Begin(b)
    PROVE NoForeign'
<1>1. /\ mode' = mode /\ store' = store /\ pc' = "rollout"
      /\ work' = [r \in b |-> ReadRow(store[r])]
  BY DEF Begin
<1>2. \A r \in b : store[r] \in RowRecord
  BY DEF ForeignInv, TypeInv, TypeOK
<1>3. \A r \in b : work'[r].cs = store[r].cs /\ work'[r].constraint = store[r].constraint
  BY <1>1, <1>2, ReadRowFields
<1>4. \A r \in DOMAIN work' : Own(work'[r])
  BY <1>1, <1>3 DEF ForeignInv, NoForeign, Own
<1> QED BY <1>1, <1>4 DEF ForeignInv, NoForeign

LEMMA ForeignConstraint ==
    ASSUME TutorAssumption, ForeignInv, AddConstraint, TypeInv'
    PROVE NoForeign'
<1>1. /\ mode' = mode /\ store' = store /\ visit' = visit /\ pc' = "persist"
      /\ pc = "constraint"
  BY DEF AddConstraint
<1> SUFFICES ASSUME mode \in ConstraintModes PROVE NoForeign'
  BY <1>1 DEF ForeignInv, NoForeign
<1>2. PICK kept :
        /\ kept \subseteq DOMAIN work
        /\ chosen' = kept
        /\ work' = [r \in DOMAIN work |->
              IF r \in kept
                THEN [work[r] EXCEPT !.constraint =
                        Append(IF mode \in ResetModes THEN <<>> ELSE @, visit)]
                ELSE work[r]]
  BY KeptRows
<1>3. visit \in 1 .. MaxVisits /\ TypeOK /\ TypeOK'
  BY <1>1 DEF ForeignInv, TypeInv, InCall
<1>4. ASSUME NEW r \in DOMAIN work'
      PROVE Elements(work'[r].constraint) \subseteq Elements(NewPrompt(r)'.cs)
  <2>1. r \in DOMAIN work /\ work[r] \in RowRecord /\ Own(work[r])
    BY <1>1, <1>2, <1>3, <1>4, WorkRow DEF ForeignInv, NoForeign
  <2>2. work'[r] \in RowRecord
    BY <1>3, <1>4 DEF TypeOK
  <2>3. NewPrompt(r)'.cs = IF r \in kept THEN Joined(r)'.cs ELSE work'[r].cs
    BY <1>1, <1>2, <2>2 DEF NewPrompt, RowRecord
  <2>4. Joined(r)'.cs = Append(IF mode \in ResetModes THEN <<>> ELSE work'[r].cs, visit)
    <3>1. /\ JoinBase(r)'.cs = IF mode \in ResetModes THEN <<>> ELSE work'[r].cs
          /\ "cs" \in DOMAIN JoinBase(r)'
      BY <1>1, <2>2 DEF JoinBase, RowRecord
    <3> QED BY <1>1, <3>1 DEF Joined
  <2>5. work'[r].cs = work[r].cs
    BY <1>2, <2>1 DEF RowRecord
  <2>6. CASE r \in kept
    <3>1. work'[r].constraint =
            Append(IF mode \in ResetModes THEN <<>> ELSE work[r].constraint, visit)
      BY <1>2, <2>1, <2>6 DEF RowRecord
    <3>2. /\ work[r].constraint \in Seq(1 .. MaxVisits)
          /\ work[r].cs \in Seq(1 .. MaxVisits) /\ <<>> \in Seq(1 .. MaxVisits)
      BY <2>1 DEF RowRecord
    <3>3. CASE mode \in ResetModes
      BY <2>3, <2>4, <2>6, <3>1, <3>3
    <3>4. CASE mode \notin ResetModes
      <4>a. \A s \in Seq(1 .. MaxVisits), x \in 1 .. MaxVisits :
              Elements(Append(s, x)) = Elements(s) \cup {x}
        BY ElementsFacts, Zenon
      <4>1. Elements(Append(work[r].constraint, visit)) =
              Elements(work[r].constraint) \cup {visit}
        BY <1>3, <3>2, <4>a
      <4>2. Elements(Append(work[r].cs, visit)) = Elements(work[r].cs) \cup {visit}
        BY <1>3, <3>2, <4>a
      <4> QED BY <2>1, <2>3, <2>4, <2>5, <2>6, <3>1, <3>4, <4>1, <4>2 DEF Own
    <3> QED BY <3>3, <3>4
  <2>7. CASE r \notin kept
    BY <1>2, <2>1, <2>3, <2>5, <2>7 DEF Own
  <2> QED BY <2>6, <2>7
<1> QED BY <1>1, <1>4 DEF ForeignInv, NoForeign

LEMMA ForeignStages ==
    ASSUME ForeignInv,
           \/ Rollout \/ Rewrite \/ GenerateGeneral \/ AddAdaptive
           \/ SelectHighInfo \/ SelectRaises \/ MixEvolved \/ GenerateEvolvedGeneral
    PROVE NoForeign'
<1>1. mode' = mode /\ store' = store
  BY DEF Rollout, Rewrite, GenerateGeneral, AddAdaptive, SelectHighInfo,
     SelectRaises, MixEvolved, GenerateEvolvedGeneral
<1> SUFFICES ASSUME mode \in ConstraintModes PROVE NoForeign'
  BY <1>1 DEF ForeignInv, NoForeign
<1>2. pc \notin {"rewrite", "adaptive", "eva_select", "eva_mix", "eva_general"}
  BY DEF ForeignInv, NoForeign
<1>3. CASE Rollout
  <2>1. pc = "rollout" /\ pc' = "general" /\ work' = work
    BY <1>3, ModeClasses DEF Rollout
  <2> QED BY <1>1, <2>1 DEF ForeignInv, NoForeign
<1>4. CASE GenerateGeneral
  <2>1. PICK ok : work' = WithGeneral(ok)
    BY <1>4 DEF GenerateGeneral
  <2>2. pc = "general" /\ pc' = "constraint"
    BY <1>4, ModeClasses DEF GenerateGeneral
  <2>3. DOMAIN work' = DOMAIN work
    BY <2>1 DEF WithGeneral
  <2>4. \A r \in DOMAIN work' :
          work'[r].cs = work[r].cs /\ work'[r].constraint = work[r].constraint
    BY <2>1, <2>3, WithGeneralFields DEF ForeignInv, TypeInv
  <2> QED BY <1>1, <2>2, <2>3, <2>4 DEF ForeignInv, NoForeign, Own
<1> QED BY <1>2, <1>3, <1>4 DEF Rewrite, AddAdaptive, SelectHighInfo, SelectRaises,
         MixEvolved, GenerateEvolvedGeneral

LEMMA ForeignPersist ==
    ASSUME TutorAssumption, ForeignInv, Persist
    PROVE NoForeign'
<1>1. /\ mode' = mode /\ pc = "persist" /\ pc' \in {"drop", "idle"}
      /\ store' = [r \in Rows |->
           IF r \in DOMAIN work THEN OwnGroups(NewPrompt(r)) ELSE store[r]]
  BY DEF Persist
<1>2. visit \in 1 .. MaxVisits /\ TypeOK
  BY <1>1 DEF ForeignInv, TypeInv, InCall
<1>3. ASSUME NEW r \in Rows
      PROVE Own(store'[r])
  <2>1. CASE r \in DOMAIN work
    <3>1. NewPrompt(r) \in RowRecord /\ NewPrompt(r).constraint = work[r].constraint
      BY <1>2, <2>1, NewPromptType, NewPromptFields
    <3>2. /\ store'[r].cs = NewPrompt(r).cs
          /\ store'[r].constraint =
               IF mode \in ConstraintModes THEN work[r].constraint ELSE <<>>
      BY <1>1, <2>1, <3>1, OwnGroupsFields
    <3>3. CASE mode \in ConstraintModes
      BY <1>1, <2>1, <3>2, <3>3 DEF ForeignInv, NoForeign, Own
    <3>4. CASE mode \notin ConstraintModes
      BY <3>2, <3>4, ElementsFacts DEF Own
    <3> QED BY <3>3, <3>4
  <2>2. CASE r \notin DOMAIN work
    BY <1>1, <1>3, <2>2 DEF ForeignInv, NoForeign
  <2> QED BY <2>1, <2>2
<1> QED BY <1>1, <1>3 DEF NoForeign

LEMMA ForeignNext ==
    ASSUME TutorAssumption, ForeignInv, [Next]_vars
    PROVE ForeignInv'
<1>1. TypeInv'
  BY TutorTypeNext DEF ForeignInv
<1>2. CASE BeginEpochPass
  BY <1>1, <1>2, ForeignBegin DEF BeginEpochPass, ForeignInv, TypeInv, TypeOK
<1>3. CASE BeginStepPass
  <2>1. PICK b \in Batches : Begin(b \cap active)
    BY <1>3 DEF BeginStepPass
  <2>2. b \cap active \subseteq Rows
    BY DEF ForeignInv, TypeInv, TypeOK
  <2> QED BY <1>1, <2>1, <2>2, ForeignBegin DEF ForeignInv
<1>4. CASE DropUnscorable
  <2>1. /\ pc' = "idle"
        /\ \A r \in Rows : store'[r] \in {store[r], SeededRow(r)}
    BY <1>4 DEF DropUnscorable
  <2>2. \A r \in Rows : Own(store'[r])
    BY <2>1, SeededFields DEF ForeignInv, NoForeign, Own
  <2> QED BY <1>1, <2>1, <2>2 DEF ForeignInv, NoForeign
<1>5. CASE SwitchMode
  BY <1>1, <1>5 DEF SwitchMode, ForeignInv, NoForeign
<1>6. CASE UNCHANGED vars
  <2>1. NoForeign'
    BY <1>6 DEF vars, ForeignInv, NoForeign, NewPrompt, Joined, JoinBase
  <2> QED BY <1>1, <2>1 DEF ForeignInv
<1> QED BY <1>1, <1>2, <1>3, <1>4, <1>5, <1>6, ForeignStages, ForeignConstraint,
         ForeignPersist
   DEF Next, Halted, ForeignInv

\* No reward scores a constraint that is not in the prompt, for any sequence of
\* calls and of restarts in any of the nine modes.
THEOREM NeverForeign == Spec => []NoForeignConstraint
<1>1. Init => ForeignInv
  <2> SUFFICES ASSUME Init PROVE NoForeign
    BY TutorTypeInit, TutorAssumption DEF ForeignInv
  <2>1. pc = "idle" /\ \A r \in Rows : store[r] = SeededRow(r)
    BY DEF Init
  <2> QED BY <2>1, SeededFields DEF NoForeign, Own
<1>2. ForeignInv /\ [Next]_vars => ForeignInv'
  BY ForeignNext, TutorAssumption
<1>3. ForeignInv => NoForeignConstraint
  BY DEF ForeignInv, TypeInv, TypeOK, NoForeign, Own, NoForeignConstraint
<1> QED BY <1>1, <1>2, <1>3, PTL DEF Spec

-----------------------------------------------------------------------------
(* The length limit, in the modes that guard it.                           *)

\* Rows written, rows being worked on and rows about to be written fit.
Fits ==
    /\ \A r \in Rows : Length(store[r]) <= MaxLen
    /\ pc \notin {"idle", "drop", "persist"} =>
         \A r \in DOMAIN work : Length(work[r]) <= MaxLen
    /\ pc = "persist" => \A r \in DOMAIN work : Length(NewPrompt(r)) <= MaxLen
    /\ pc \notin {"eva_select", "eva_mix", "eva_general"}

\* Only the constraint modes add constraints, only the adaptive one criteria.
ModeStages ==
    /\ pc = "constraint" => mode \in ConstraintModes
    /\ pc = "adaptive" => mode \in AdaptiveModes

FitInv == TypeInv /\ ModeStages /\ (MaxLen > 0 => Fits)

LEMMA LengthType ==
    ASSUME NEW row \in RowRecord
    PROVE Length(row) \in Nat
<1>1. row.len \in Nat /\ row.cs \in Seq(1 .. MaxVisits)
  BY DEF RowRecord
<1>2. Len(row.cs) \in Nat
  BY <1>1
<1> QED BY <1>1, <1>2 DEF Length

LEMMA SeededLength ==
    ASSUME NEW r
    PROVE Length(SeededRow(r)) = 1
BY DEF SeededRow, Length

\* What is not a joined prompt keeps the length it has in the call.
LEMMA NewPromptLength ==
    ASSUME TypeOK, NEW r \in DOMAIN work
    PROVE Length(NewPrompt(r)) = IF mode \in ConstraintModes /\ r \in chosen
                                   THEN Length(Joined(r)) ELSE Length(work[r])
<1>1. work[r] \in RowRecord
  BY WorkRow
<1> QED BY <1>1 DEF NewPrompt, Length, RowRecord

LEMMA FitBegin ==
    ASSUME TypeInv, Fits, NEW b, b \subseteq Rows, Begin(b)
    PROVE Fits'
<1>1. /\ store' = store /\ pc' = "rollout"
      /\ work' = [r \in b |-> ReadRow(store[r])]
  BY DEF Begin
<1>2. \A r \in b : store[r] \in RowRecord
  BY DEF TypeInv, TypeOK
<1>3. \A r \in b : Length(work'[r]) = Length(store[r])
  BY <1>1, <1>2 DEF ReadRow, Length, RowRecord
<1> QED BY <1>1, <1>3 DEF Fits

\* Stages after which another stage of the same call works on the same rows,
\* none of them longer than the limit.
LEMMA FitStage ==
    ASSUME Fits, store' = store, DOMAIN work' = DOMAIN work,
           \A r \in DOMAIN work : Length(work'[r]) <= MaxLen,
           pc' \notin {"persist", "eva_select", "eva_mix", "eva_general"}
    PROVE Fits'
BY DEF Fits

\* The same for the last stage, in a mode that adds no constraints.
LEMMA FitLast ==
    ASSUME TypeInv', Fits, store' = store, DOMAIN work' = DOMAIN work,
           \A r \in DOMAIN work : Length(work'[r]) <= MaxLen,
           mode' \notin ConstraintModes, pc' = "persist"
    PROVE Fits'
<1>1. \A r \in DOMAIN work' : NewPrompt(r)' = work'[r]
  BY DEF NewPrompt
<1> QED BY <1>1 DEF Fits

LEMMA FitRewrite ==
    ASSUME TutorAssumption, MaxLen > 0, TypeInv, Fits, Rewrite
    PROVE Fits'
<1>1. PICK yes \in SUBSET Eligible : \E n \in [yes -> TextLens] :
        work' = [r \in DOMAIN work |->
                   IF r \in yes /\ ~Overlong(n[r]) THEN Rewritten(r, n[r]) ELSE work[r]]
  BY DEF Rewrite
<1>2. PICK n \in [yes -> TextLens] :
        work' = [r \in DOMAIN work |->
                   IF r \in yes /\ ~Overlong(n[r]) THEN Rewritten(r, n[r]) ELSE work[r]]
  BY <1>1
<1>3. pc = "rewrite" /\ pc' = "general" /\ store' = store
  BY DEF Rewrite
<1>4. \A r \in DOMAIN work : Length(work'[r]) <= MaxLen
  <2> SUFFICES ASSUME NEW r \in DOMAIN work PROVE Length(work'[r]) <= MaxLen
    OBVIOUS
  <2>1. work[r] \in RowRecord /\ Length(work[r]) <= MaxLen
    BY <1>3, WorkRow DEF TypeInv, Fits
  <2>2. CASE r \in yes /\ ~Overlong(n[r])
    <3>a. n[r] \in Nat /\ MaxLen \in Nat
      BY <1>2, <2>2 DEF TutorAssumption
    <3>1. n[r] \in Nat /\ n[r] <= MaxLen
      BY <2>2, <3>a DEF Overlong
    <3>2. Rewritten(r, n[r]).len = n[r] /\ Rewritten(r, n[r]).cs = <<>>
      BY <2>1 DEF Rewritten, RowRecord
    <3>3. Length(Rewritten(r, n[r])) = n[r]
      BY <3>1, <3>2 DEF Length
    <3> QED BY <1>2, <2>2, <3>1, <3>3
  <2>3. CASE ~(r \in yes /\ ~Overlong(n[r]))
    BY <1>2, <2>1, <2>3
  <2> QED BY <2>2, <2>3
<1> QED BY <1>2, <1>3, <1>4, FitStage

LEMMA FitConstraint ==
    ASSUME TutorAssumption, MaxLen > 0, TypeInv, TypeInv', ModeStages, Fits, AddConstraint
    PROVE Fits'
<1>1. /\ mode' = mode /\ store' = store /\ visit' = visit /\ pc' = "persist"
      /\ pc = "constraint" /\ mode \in ConstraintModes
  BY DEF AddConstraint, ModeStages
<1>2. PICK kept :
        /\ kept \subseteq DOMAIN work
        /\ \A r \in kept : ~Overlong(Length(Joined(r)))
        /\ chosen' = kept
        /\ work' = [r \in DOMAIN work |->
              IF r \in kept
                THEN [work[r] EXCEPT !.constraint =
                        Append(IF mode \in ResetModes THEN <<>> ELSE @, visit)]
                ELSE work[r]]
  BY KeptRows
<1>3. visit \in 1 .. MaxVisits /\ TypeOK /\ TypeOK'
  BY <1>1 DEF TypeInv, InCall
<1>4. ASSUME NEW r \in DOMAIN work'
      PROVE Length(NewPrompt(r)') <= MaxLen
  <2>1. r \in DOMAIN work /\ work[r] \in RowRecord /\ Length(work[r]) <= MaxLen
    BY <1>1, <1>2, <1>3, <1>4, WorkRow DEF Fits
  <2>2. work'[r] \in RowRecord
    BY <1>3, <1>4 DEF TypeOK
  <2>3. work'[r].cs = work[r].cs /\ work'[r].len = work[r].len
    BY <1>2, <2>1 DEF RowRecord
  <2>4. CASE r \in kept
    <3>1. NewPrompt(r)'.cs = Joined(r)'.cs /\ NewPrompt(r)'.len = Joined(r)'.len
      BY <1>1, <1>2, <2>2, <2>4 DEF NewPrompt, RowRecord
    <3>2. Joined(r)'.cs = Joined(r).cs /\ Joined(r)'.len = Joined(r).len
      BY <1>1, <2>1, <2>2, <2>3 DEF Joined, JoinBase, RowRecord
    <3>3. Joined(r) \in RowRecord
      BY <1>3, <2>1, JoinedType
    <3>4. Length(Joined(r)) <= MaxLen
      BY <1>2, <2>4, <3>3, LengthType DEF Overlong, TutorAssumption
    <3> QED BY <3>1, <3>2, <3>4 DEF Length
  <2>5. CASE r \notin kept
    <3>1. NewPrompt(r)' = work'[r] /\ work'[r] = work[r]
      BY <1>2, <2>1, <2>5 DEF NewPrompt
    <3> QED BY <2>1, <3>1
  <2> QED BY <2>4, <2>5
<1> QED BY <1>1, <1>4 DEF Fits

LEMMA FitAdaptive ==
    ASSUME TypeInv, TypeInv', ModeStages, Fits, AddAdaptive
    PROVE Fits'
<1>1. PICK yes \in SUBSET Eligible :
        work' = [r \in DOMAIN work |->
                   IF r \in yes THEN [work[r] EXCEPT !.adaptive = Append(@, visit)]
                                ELSE work[r]]
  BY DEF AddAdaptive
<1>2. /\ pc = "adaptive" /\ pc' = "persist" /\ store' = store
      /\ mode' \notin ConstraintModes
  BY ModeClasses DEF AddAdaptive, ModeStages
<1>3. \A r \in DOMAIN work : Length(work'[r]) <= MaxLen
  <2> SUFFICES ASSUME NEW r \in DOMAIN work PROVE Length(work'[r]) <= MaxLen
    OBVIOUS
  <2>1. work[r] \in RowRecord /\ Length(work[r]) <= MaxLen
    BY <1>2, WorkRow DEF TypeInv, Fits
  <2>2. work'[r].len = work[r].len /\ work'[r].cs = work[r].cs
    BY <1>1, <2>1 DEF RowRecord
  <2> QED BY <2>1, <2>2 DEF Length
<1> QED BY <1>1, <1>2, <1>3, FitLast

LEMMA FitGeneral ==
    ASSUME TypeInv, TypeInv', Fits, GenerateGeneral
    PROVE Fits'
<1>1. PICK ok : work' = WithGeneral(ok)
  BY DEF GenerateGeneral
<1>2. /\ pc = "general" /\ store' = store
      /\ \/ pc' \in {"constraint", "adaptive"}
         \/ pc' = "persist" /\ mode' \notin ConstraintModes
  BY DEF GenerateGeneral
<1>3. DOMAIN work' = DOMAIN work
  BY <1>1 DEF WithGeneral
<1>4. \A r \in DOMAIN work : Length(work'[r]) <= MaxLen
  <2> SUFFICES ASSUME NEW r \in DOMAIN work PROVE Length(work'[r]) <= MaxLen
    OBVIOUS
  <2>1. work[r] \in RowRecord /\ Length(work[r]) <= MaxLen
    BY <1>2, WorkRow DEF TypeInv, Fits
  <2>2. work'[r].len = work[r].len /\ work'[r].cs = work[r].cs
    BY <1>1, <2>1 DEF WithGeneral, RowRecord
  <2> QED BY <2>1, <2>2 DEF Length
<1> QED BY <1>2, <1>3, <1>4, FitStage, FitLast

\* The rows of a call are written with the length NewPrompt gives them.
LEMMA FitPersist ==
    ASSUME TutorAssumption, TypeInv, Fits, Persist
    PROVE Fits'
<1>1. /\ pc = "persist" /\ pc' \in {"drop", "idle"}
      /\ store' = [r \in Rows |->
           IF r \in DOMAIN work THEN OwnGroups(NewPrompt(r)) ELSE store[r]]
  BY DEF Persist
<1>2. visit \in 1 .. MaxVisits /\ TypeOK
  BY <1>1 DEF TypeInv, InCall
<1>3. \A r \in Rows : Length(store'[r]) <= MaxLen
  <2> SUFFICES ASSUME NEW r \in Rows PROVE Length(store'[r]) <= MaxLen
    OBVIOUS
  <2>1. CASE r \in DOMAIN work
    <3>1. NewPrompt(r) \in RowRecord /\ Length(NewPrompt(r)) <= MaxLen
      BY <1>1, <1>2, <2>1, NewPromptType DEF Fits
    <3>2. store'[r].len = NewPrompt(r).len /\ store'[r].cs = NewPrompt(r).cs
      BY <1>1, <2>1, <3>1 DEF OwnGroups, RowRecord
    <3> QED BY <3>1, <3>2 DEF Length
  <2>2. CASE r \notin DOMAIN work
    BY <1>1, <2>2 DEF Fits
  <2> QED BY <2>1, <2>2
<1> QED BY <1>1, <1>3 DEF Fits

LEMMA FitNext ==
    ASSUME TutorAssumption, Modes \cap EvaModes = {}, MaxLen > 0, TypeInv, TypeInv',
           ModeStages, Fits, Next
    PROVE Fits'
<1>1. mode \notin EvaModes
  BY DEF TypeInv, TypeOK
<1>2. CASE BeginEpochPass
  BY <1>2, FitBegin DEF BeginEpochPass, TypeInv, TypeOK
<1>3. CASE BeginStepPass
  <2>1. PICK b \in Batches : Begin(b \cap active)
    BY <1>3 DEF BeginStepPass
  <2>2. b \cap active \subseteq Rows
    BY DEF TypeInv, TypeOK
  <2> QED BY <2>1, <2>2, FitBegin
<1>4. CASE Rollout
  <2>1. /\ pc = "rollout" /\ pc' \in {"rewrite", "general"}
        /\ work' = work /\ store' = store
    BY <1>1, <1>4 DEF Rollout
  <2> QED BY <2>1 DEF Fits
<1>5. CASE DropUnscorable
  <2>1. /\ pc' = "idle"
        /\ \A r \in Rows : store'[r] \in {store[r], SeededRow(r)}
    BY <1>5 DEF DropUnscorable
  <2>2. \A r \in Rows : Length(store'[r]) <= MaxLen
    BY <2>1, SeededLength, TutorAssumption DEF Fits, TutorAssumption
  <2> QED BY <2>1, <2>2 DEF Fits
<1>6. CASE SwitchMode
  BY <1>6 DEF SwitchMode, Fits
<1>7. CASE Halted
  BY <1>7 DEF Halted, vars, Fits, NewPrompt, Joined, JoinBase
<1>8. ~(SelectHighInfo \/ SelectRaises \/ MixEvolved \/ GenerateEvolvedGeneral)
  BY DEF Fits, SelectHighInfo, SelectRaises, MixEvolved, GenerateEvolvedGeneral
<1> QED BY <1>2, <1>3, <1>4, <1>5, <1>6, <1>7, <1>8, FitRewrite, FitGeneral,
         FitConstraint, FitAdaptive, FitPersist DEF Next

LEMMA ModeStagesNext ==
    ASSUME ModeStages, [Next]_vars
    PROVE ModeStages'
<1>1. CASE UNCHANGED vars
  BY <1>1 DEF vars, ModeStages
<1>2. CASE Next
  BY <1>2 DEF Next, BeginEpochPass, BeginStepPass, Begin, Rollout, Rewrite,
     GenerateGeneral, AddConstraint, AddAdaptive, SelectHighInfo, SelectRaises,
     MixEvolved, GenerateEvolvedGeneral, Persist, DropUnscorable, SwitchMode,
     Halted, vars, ModeStages
<1> QED BY <1>1, <1>2

\* No prompt outgrows data.max_prompt_length in any mode but the EVA baseline,
\* whose evolved texts no guard measures.
THEOREM PromptsFit ==
    ASSUME Modes \cap EvaModes = {}
    PROVE Spec => []WithinLength
<1>1. Init => FitInv
  <2> SUFFICES ASSUME Init PROVE FitInv
    OBVIOUS
  <2>1. TypeInv /\ pc = "idle" /\ store = [r \in Rows |-> SeededRow(r)]
    BY TutorTypeInit, TutorAssumption DEF Init
  <2>2. MaxLen > 0 => \A r \in Rows : Length(store[r]) <= MaxLen
    BY <2>1, SeededLength, TutorAssumption DEF TutorAssumption
  <2> QED BY <2>1, <2>2 DEF FitInv, ModeStages, Fits
<1>2. FitInv /\ [Next]_vars => FitInv'
  <2> SUFFICES ASSUME FitInv, [Next]_vars PROVE FitInv'
    OBVIOUS
  <2>1. TypeInv' /\ ModeStages'
    BY TutorTypeNext, ModeStagesNext, TutorAssumption DEF FitInv
  <2>2. MaxLen > 0 => Fits'
    <3>1. CASE UNCHANGED vars
      BY <3>1 DEF vars, FitInv, Fits, NewPrompt, Joined, JoinBase
    <3>2. CASE Next
      BY <2>1, <3>2, FitNext, TutorAssumption DEF FitInv
    <3> QED BY <3>1, <3>2
  <2> QED BY <2>1, <2>2 DEF FitInv
<1>3. FitInv => WithinLength
  BY DEF FitInv, Fits, TypeInv, TypeOK, WithinLength
<1> QED BY <1>1, <1>2, <1>3, PTL DEF Spec

-----------------------------------------------------------------------------
(* The rubrics.                                                            *)

\* The stages only one class of modes passes through.
CallPath ==
    /\ ModeStages
    /\ pc = "rewrite" => mode \in RewriteModes
    /\ pc \in {"eva_select", "eva_mix", "eva_general"} => mode \in EvaModes

\* Whether the rows in work are still to be written.
Unwritten == pc \notin {"idle", "drop", "failed"}

\* In the modes that neither rewrite nor evolve, texts and general rubrics are
\* those of the parquet files.
IsPlain(row, r) == row.text = Original(r) /\ row.general = Original(r)

PlainRows ==
    mode \notin RewriteModes \cup EvaModes =>
      /\ \A r \in Rows : IsPlain(store[r], r)
      /\ Unwritten => \A r \in DOMAIN work : IsPlain(work[r], r)

\* In the rewrite mode a general rubric is for the text or missing, and is
\* missing in the dataset only until the row is dropped; no row has another
\* rubric.
RewrittenRows ==
    mode \in RewriteModes =>
      /\ \A r \in Rows : store[r].constraint = <<>> /\ store[r].adaptive = <<>>
      /\ \A r \in active :
           store[r].general = store[r].text \/ (pc = "drop" /\ store[r].general = NoRubric)
      /\ Unwritten => \A r \in DOMAIN work : work[r].general \in {work[r].text, NoRubric}

\* In the reset mode no prompt has two constraints.
ResetRows ==
    mode \in ResetModes =>
      /\ \A r \in Rows : Len(store[r].cs) <= 1
      /\ Unwritten => \A r \in DOMAIN work : Len(work[r].cs) <= 1

PathInv == TypeInv /\ CallPath

-----------------------------------------------------------------------------
(* Modes and stages.                                                       *)

LEMMA CallPathNext ==
    ASSUME CallPath, [Next]_vars
    PROVE CallPath'
<1>1. ModeStages'
  BY ModeStagesNext DEF CallPath
<1>2. CASE UNCHANGED vars
  BY <1>1, <1>2 DEF vars, CallPath
<1>3. CASE Next
  BY <1>1, <1>3 DEF Next, BeginEpochPass, BeginStepPass, Begin, Rollout, Rewrite,
     GenerateGeneral, AddConstraint, AddAdaptive, SelectHighInfo, SelectRaises,
     MixEvolved, GenerateEvolvedGeneral, Persist, DropUnscorable, SwitchMode,
     Halted, vars, CallPath
<1> QED BY <1>2, <1>3

LEMMA PathInvariant == Spec => []PathInv
<1>1. Init => PathInv
  BY TutorTypeInit, TutorAssumption DEF Init, PathInv, CallPath, ModeStages
<1>2. PathInv /\ [Next]_vars => PathInv'
  BY TutorTypeNext, CallPathNext, TutorAssumption DEF PathInv
<1> QED BY <1>1, <1>2, PTL DEF Spec

\* A call starts from the rows as they are stored.
LEMMA BeginFields ==
    ASSUME TypeInv, BeginEpochPass \/ BeginStepPass
    PROVE /\ mode' = mode /\ store' = store /\ active' = active /\ pc' = "rollout"
          /\ DOMAIN work' \subseteq active
          /\ \A r \in DOMAIN work' :
               /\ work'[r].text = store[r].text /\ work'[r].general = store[r].general
               /\ work'[r].cs = store[r].cs /\ work'[r].constraint = store[r].constraint
               /\ mode \in AdaptiveModes => work'[r].adaptive = store[r].adaptive
<1>1. PICK b : b \subseteq active /\ Begin(b)
  BY DEF BeginEpochPass, BeginStepPass
<1>2. \A r \in b : store[r] \in RowRecord
  BY <1>1 DEF TypeInv, TypeOK
<1>3. work' = [r \in b |-> ReadRow(store[r])]
  BY <1>1 DEF Begin
<1>4. \A r \in b : /\ ReadRow(store[r]).text = store[r].text
                   /\ ReadRow(store[r]).general = store[r].general
                   /\ ReadRow(store[r]).cs = store[r].cs
                   /\ ReadRow(store[r]).constraint = store[r].constraint
                   /\ mode \in AdaptiveModes => ReadRow(store[r]).adaptive = store[r].adaptive
  BY <1>2 DEF ReadRow, RowRecord
<1> QED BY <1>1, <1>3, <1>4 DEF Begin

\* The stages between the reading and the writing leave the dataset alone.
LEMMA StagesKeep ==
    ASSUME Rollout \/ Rewrite \/ GenerateGeneral \/ AddConstraint \/ AddAdaptive
           \/ SelectHighInfo \/ SelectRaises \/ MixEvolved \/ GenerateEvolvedGeneral
    PROVE /\ mode' = mode /\ store' = store /\ active' = active
          /\ pc \notin {"idle", "drop", "failed"} /\ pc' \notin {"idle", "drop"}
BY DEF Rollout, Rewrite, GenerateGeneral, AddConstraint, AddAdaptive, SelectHighInfo,
     SelectRaises, MixEvolved, GenerateEvolvedGeneral

\* What they do to a row of the call, in the modes that neither rewrite nor
\* evolve: text and constraints stay, and a general rubric that was there.
LEMMA PlainStages ==
    ASSUME PathInv, mode \notin RewriteModes \cup EvaModes,
           Rollout \/ Rewrite \/ GenerateGeneral \/ AddConstraint \/ AddAdaptive
           \/ SelectHighInfo \/ SelectRaises \/ MixEvolved \/ GenerateEvolvedGeneral
    PROVE /\ DOMAIN work' = DOMAIN work
          /\ \A r \in DOMAIN work :
               /\ work'[r].text = work[r].text /\ work'[r].cs = work[r].cs
               /\ work[r].general # NoRubric => work'[r].general = work[r].general
<1>1. \A r \in DOMAIN work : work[r] \in RowRecord
  BY WorkRow DEF PathInv, TypeInv
<1>2. CASE Rollout
  BY <1>2 DEF Rollout
<1>3. CASE GenerateGeneral
  <2>1. PICK ok \in SUBSET {r \in DOMAIN work : work[r].general = NoRubric} :
          work' = WithGeneral(ok)
    BY <1>3 DEF GenerateGeneral
  <2> QED BY <1>1, <2>1 DEF WithGeneral, RowRecord
<1>4. CASE AddConstraint
  <2>1. PICK kept :
        work' = [r \in DOMAIN work |->
              IF r \in kept
                THEN [work[r] EXCEPT !.constraint =
                        Append(IF mode \in ResetModes THEN <<>> ELSE @, visit)]
                ELSE work[r]]
    BY <1>4, KeptRows
  <2> QED BY <1>1, <2>1 DEF RowRecord
<1>5. CASE AddAdaptive
  <2>1. PICK yes \in SUBSET Eligible :
         work' = [r \in DOMAIN work |->
                    IF r \in yes THEN [work[r] EXCEPT !.adaptive = Append(@, visit)]
                                 ELSE work[r]]
    BY <1>5 DEF AddAdaptive
  <2> QED BY <1>1, <2>1 DEF RowRecord
<1>6. ~(Rewrite \/ SelectHighInfo \/ SelectRaises \/ MixEvolved \/ GenerateEvolvedGeneral)
  BY DEF PathInv, CallPath, Rewrite, SelectHighInfo, SelectRaises, MixEvolved,
         GenerateEvolvedGeneral
<1> QED BY <1>2, <1>3, <1>4, <1>5, <1>6

\* What is written for a row of the call.
LEMMA WrittenRow ==
    ASSUME TutorAssumption, PathInv, Persist, NEW r \in DOMAIN work
    PROVE /\ store'[r].text = IF mode \in ResetModes /\ r \in chosen
                                THEN Original(r) ELSE work[r].text
          /\ store'[r].cs = IF mode \in ConstraintModes /\ r \in chosen
                              THEN Append(IF mode \in ResetModes THEN <<>> ELSE work[r].cs, visit)
                              ELSE work[r].cs
          /\ store'[r].general = work[r].general
          /\ store'[r].constraint =
               IF mode \in ConstraintModes THEN work[r].constraint ELSE <<>>
          /\ store'[r].adaptive = IF mode \in AdaptiveModes THEN work[r].adaptive ELSE <<>>
<1>1. visit \in 1 .. MaxVisits /\ TypeOK
  BY DEF Persist, PathInv, TypeInv, InCall
<1>2. r \in Rows /\ work[r] \in RowRecord /\ NewPrompt(r) \in RowRecord
  BY <1>1, WorkRow, NewPromptType
<1>3. /\ NewPrompt(r).cs = IF mode \in ConstraintModes /\ r \in chosen
                             THEN Joined(r).cs ELSE work[r].cs
      /\ NewPrompt(r).text = IF mode \in ConstraintModes /\ r \in chosen
                               THEN Joined(r).text ELSE work[r].text
      /\ NewPrompt(r).general = work[r].general
      /\ NewPrompt(r).constraint = work[r].constraint
      /\ NewPrompt(r).adaptive = work[r].adaptive
  BY <1>2 DEF NewPrompt, RowRecord
<1>4. /\ Joined(r).cs = Append(IF mode \in ResetModes THEN <<>> ELSE work[r].cs, visit)
      /\ Joined(r).text = IF mode \in ResetModes THEN Original(r) ELSE work[r].text
  <2>1. Joined(r).text = JoinBase(r).text
    BY <1>1, JoinedType DEF Joined, RowRecord
  <2>2. JoinBase(r).text = IF mode \in ResetModes THEN Original(r) ELSE work[r].text
    BY <1>2 DEF JoinBase, RowRecord
  <2> QED BY <1>1, <2>1, <2>2, JoinedFields
<1>5. store'[r] = OwnGroups(NewPrompt(r))
  BY <1>2 DEF Persist
<1>6. /\ store'[r].text = NewPrompt(r).text /\ store'[r].cs = NewPrompt(r).cs
      /\ store'[r].general = NewPrompt(r).general
      /\ store'[r].constraint =
           IF mode \in ConstraintModes THEN NewPrompt(r).constraint ELSE <<>>
      /\ store'[r].adaptive = IF mode \in AdaptiveModes THEN NewPrompt(r).adaptive ELSE <<>>
  BY <1>2, <1>5 DEF OwnGroups, RowRecord
<1>7. mode \in ResetModes => mode \in ConstraintModes
  BY DEF ConstraintModes
<1> QED BY <1>3, <1>4, <1>6, <1>7

LEMMA OtherRowsKept ==
    ASSUME Persist, NEW r \in Rows \ DOMAIN work
    PROVE store'[r] = store[r]
BY DEF Persist

\* What dropping leaves: the rows still in training as they were, the others
\* as the parquet files give them.
LEMMA DropFields ==
    ASSUME DropUnscorable
    PROVE /\ mode' = mode /\ pc = "drop" /\ pc' = "idle" /\ active' \subseteq active
          /\ \A r \in Rows : store'[r] \in {store[r], SeededRow(r)}
          /\ \A r \in active' \cap Rows : store'[r] = store[r] /\ HasRubric(store[r])
BY DEF DropUnscorable, Unscorable

-----------------------------------------------------------------------------
(* The general rubric is for the text.                                     *)

LEMMA PlainNext ==
    ASSUME TutorAssumption, ~MaySwitch, PathInv, PlainRows, [Next]_vars
    PROVE PlainRows'
<1>1. mode' = mode
  BY DEF Next, BeginEpochPass, BeginStepPass, Begin, Rollout, Rewrite, GenerateGeneral,
     AddConstraint, AddAdaptive, SelectHighInfo, SelectRaises, MixEvolved,
     GenerateEvolvedGeneral, Persist, DropUnscorable, SwitchMode, Halted, vars
<1> SUFFICES ASSUME mode \notin RewriteModes \cup EvaModes PROVE PlainRows'
  BY <1>1 DEF PlainRows
<1>2. CASE BeginEpochPass \/ BeginStepPass
  <2>1. \A r \in DOMAIN work' : r \in Rows
    BY <1>2, BeginFields DEF PathInv, TypeInv, TypeOK
  <2> QED BY <1>2, <2>1, BeginFields DEF PathInv, PlainRows, IsPlain, Unwritten
<1>3. CASE Rollout \/ Rewrite \/ GenerateGeneral \/ AddConstraint \/ AddAdaptive
           \/ SelectHighInfo \/ SelectRaises \/ MixEvolved \/ GenerateEvolvedGeneral
  <2>1. Unwritten /\ store' = store
    BY <1>3, StagesKeep DEF Unwritten
  <2>2. ASSUME NEW r \in DOMAIN work' PROVE IsPlain(work'[r], r)
    <3>1. r \in DOMAIN work /\ IsPlain(work[r], r)
      BY <1>3, <2>1, PlainStages DEF PlainRows
    <3>2. work[r].general # NoRubric
      BY <3>1 DEF IsPlain, Original, NoRubric
    <3> QED BY <1>3, <3>1, <3>2, PlainStages DEF IsPlain
  <2> QED BY <2>1, <2>2 DEF PlainRows
<1>4. CASE Persist
  <2>1. \A r \in Rows : IsPlain(store'[r], r)
    <3> TAKE r \in Rows
    <3>1. CASE r \in DOMAIN work
      <4>1. IsPlain(work[r], r)
        BY <1>4, <3>1 DEF PlainRows, Unwritten, Persist
      <4> QED BY <1>4, <3>1, <4>1, WrittenRow DEF IsPlain
    <3>2. CASE r \notin DOMAIN work
      BY <1>4, <3>2, OtherRowsKept DEF PlainRows
    <3> QED BY <3>1, <3>2
  <2>2. ~Unwritten'
    BY <1>4 DEF Persist, Unwritten
  <2> QED BY <2>1, <2>2 DEF PlainRows
<1>5. CASE DropUnscorable
  <2>1. \A r \in Rows : IsPlain(SeededRow(r), r)
    BY DEF IsPlain, SeededRow
  <2>2. \A r \in Rows : IsPlain(store'[r], r)
    BY <1>5, <2>1, DropFields DEF PlainRows
  <2>3. ~Unwritten'
    BY <1>5, DropFields DEF Unwritten
  <2> QED BY <2>2, <2>3 DEF PlainRows
<1>6. CASE UNCHANGED vars
  BY <1>6 DEF vars, PlainRows, IsPlain, Unwritten
<1> QED BY <1>2, <1>3, <1>4, <1>5, <1>6 DEF Next, Halted, SwitchMode

LEMMA PlainInvariant ==
    ASSUME ~MaySwitch
    PROVE Spec => []PlainRows
<1>1. Init => PlainRows
  BY DEF Init, PlainRows, IsPlain, SeededRow, Unwritten
<1>2. PathInv /\ PlainRows /\ [Next]_vars => PlainRows'
  BY PlainNext, TutorAssumption
<1> QED BY <1>1, <1>2, PathInvariant, PTL DEF Spec

\* A rewritten text has no rubric until one is generated for it.
LEMMA RewrittenStages ==
    ASSUME PathInv, mode \in RewriteModes, RewrittenRows, Unwritten,
           Rollout \/ Rewrite \/ GenerateGeneral \/ AddConstraint \/ AddAdaptive
           \/ SelectHighInfo \/ SelectRaises \/ MixEvolved \/ GenerateEvolvedGeneral
    PROVE \A r \in DOMAIN work' : work'[r].general \in {work'[r].text, NoRubric}
<1>1. \A r \in DOMAIN work :
        work[r] \in RowRecord /\ work[r].general \in {work[r].text, NoRubric}
  BY WorkRow DEF PathInv, TypeInv, RewrittenRows
<1>2. CASE Rollout
  BY <1>1, <1>2 DEF Rollout
<1>3. CASE Rewrite
  <2>1. PICK yes \in SUBSET Eligible : \E n \in [yes -> TextLens] :
          work' = [r \in DOMAIN work |->
                     IF r \in yes /\ ~Overlong(n[r]) THEN Rewritten(r, n[r]) ELSE work[r]]
    BY <1>3 DEF Rewrite
  <2>2. PICK n \in [yes -> TextLens] :
          work' = [r \in DOMAIN work |->
                     IF r \in yes /\ ~Overlong(n[r]) THEN Rewritten(r, n[r]) ELSE work[r]]
    BY <2>1
  <2>3. \A r \in DOMAIN work : Rewritten(r, n[r]).general = NoRubric
    BY <1>1 DEF Rewritten, RowRecord
  <2> QED BY <1>1, <2>2, <2>3
<1>4. CASE GenerateGeneral
  <2>1. PICK ok : work' = WithGeneral(ok)
    BY <1>4 DEF GenerateGeneral
  <2> QED BY <1>1, <2>1 DEF WithGeneral, RowRecord
<1>5. ~(AddConstraint \/ AddAdaptive \/ SelectHighInfo \/ SelectRaises \/ MixEvolved
        \/ GenerateEvolvedGeneral)
  <2>1. mode \notin ConstraintModes \cup AdaptiveModes \cup EvaModes
    BY DEF ConstraintModes, AppendModes, ResetModes, RewriteModes, AdaptiveModes, EvaModes
  <2> QED BY <2>1 DEF PathInv, CallPath, ModeStages, AddConstraint, AddAdaptive,
       SelectHighInfo, SelectRaises, MixEvolved, GenerateEvolvedGeneral
<1> QED BY <1>2, <1>3, <1>4, <1>5

LEMMA RewrittenNext ==
    ASSUME TutorAssumption, ~MaySwitch, Schedule = "epoch", PathInv, RewrittenRows, [Next]_vars
    PROVE RewrittenRows'
<1>1. mode' = mode
  BY DEF Next, BeginEpochPass, BeginStepPass, Begin, Rollout, Rewrite, GenerateGeneral,
     AddConstraint, AddAdaptive, SelectHighInfo, SelectRaises, MixEvolved,
     GenerateEvolvedGeneral, Persist, DropUnscorable, SwitchMode, Halted, vars
<1> SUFFICES ASSUME mode \in RewriteModes PROVE RewrittenRows'
  BY <1>1 DEF RewrittenRows
<1>a. mode \notin ConstraintModes \cup AdaptiveModes /\ mode \notin ResetModes
  BY DEF ConstraintModes, AppendModes, ResetModes, RewriteModes, AdaptiveModes
<1>2. CASE BeginEpochPass \/ BeginStepPass
  <2>1. \A r \in active : store[r].general = store[r].text
    BY <1>2 DEF BeginEpochPass, BeginStepPass, Begin, RewrittenRows
  <2> QED BY <1>2, <2>1, BeginFields DEF PathInv, RewrittenRows
<1>3. CASE Rollout \/ Rewrite \/ GenerateGeneral \/ AddConstraint \/ AddAdaptive
           \/ SelectHighInfo \/ SelectRaises \/ MixEvolved \/ GenerateEvolvedGeneral
  <2>1. Unwritten /\ store' = store /\ active' = active /\ pc # "drop"
    BY <1>3, StagesKeep DEF Unwritten
  <2>2. \A r \in DOMAIN work' : work'[r].general \in {work'[r].text, NoRubric}
    BY <1>3, <2>1, RewrittenStages
  <2> QED BY <2>1, <2>2 DEF RewrittenRows
<1>4. CASE Persist
  <2>1. \A r \in Rows : store'[r].constraint = <<>> /\ store'[r].adaptive = <<>>
    BY <1>4, <1>a, WrittenRow, OtherRowsKept DEF RewrittenRows
  <2>2. pc' = "drop" /\ active' = active /\ active \subseteq Rows /\ pc # "drop" /\ Unwritten
    BY <1>4 DEF Persist, Unwritten, PathInv, TypeInv, TypeOK
  <2>3. \A r \in active :
          store'[r].general = store'[r].text \/ store'[r].general = NoRubric
    <3> TAKE r \in active
    <3>1. CASE r \in DOMAIN work
      <4>1. work[r].general \in {work[r].text, NoRubric}
        BY <2>2, <3>1 DEF RewrittenRows
      <4> QED BY <1>4, <1>a, <3>1, <4>1, WrittenRow
    <3>2. CASE r \notin DOMAIN work
      BY <1>4, <2>2, <3>2, OtherRowsKept DEF RewrittenRows
    <3> QED BY <3>1, <3>2
  <2> QED BY <2>1, <2>2, <2>3 DEF RewrittenRows, Unwritten
<1>5. CASE DropUnscorable
  <2>1. \A r \in Rows : store'[r].constraint = <<>> /\ store'[r].adaptive = <<>>
    BY <1>5, DropFields DEF RewrittenRows, SeededRow
  <2>2. active' \subseteq Rows
    BY <1>5, DropFields DEF PathInv, TypeInv, TypeOK
  <2>3. \A r \in active' : store'[r].general = store'[r].text
    <3> TAKE r \in active'
    <3>1. /\ r \in Rows /\ r \in active /\ store'[r] = store[r] /\ HasRubric(store[r])
          /\ store[r].constraint = <<>> /\ store[r].adaptive = <<>>
      BY <1>5, <2>2, DropFields DEF RewrittenRows
    <3>2. store[r].general # NoRubric
      BY <3>1 DEF HasRubric
    <3> QED BY <3>1, <3>2 DEF RewrittenRows
  <2>4. ~Unwritten'
    BY <1>5, DropFields DEF Unwritten
  <2> QED BY <2>1, <2>3, <2>4 DEF RewrittenRows
<1>6. CASE UNCHANGED vars
  BY <1>6 DEF vars, RewrittenRows, Unwritten
<1> QED BY <1>2, <1>3, <1>4, <1>5, <1>6 DEF Next, Halted, SwitchMode

\* Between the calls the general rubric of every row in training was written
\* for the text the row has, in a process that stays in its mode, does not
\* run the EVA baseline and rewrites prompts in the epoch schedule only, where
\* a row without its rubric is dropped.
THEOREM GeneralAlwaysMatches ==
    ASSUME ~MaySwitch, Modes \cap EvaModes = {},
           Modes \cap RewriteModes = {} \/ Schedule = "epoch"
    PROVE Spec => []GeneralMatchesText
<1>1. CASE Schedule = "epoch"
  <2>1. Init => RewrittenRows
    <3> SUFFICES ASSUME Init PROVE RewrittenRows
      OBVIOUS
    <3>1. pc = "idle" /\ active = Rows /\ \A r \in Rows : store[r] = SeededRow(r)
      BY DEF Init
    <3>2. \A r \in Rows : /\ SeededRow(r).constraint = <<>> /\ SeededRow(r).adaptive = <<>>
                          /\ SeededRow(r).general = SeededRow(r).text
      BY DEF SeededRow
    <3> QED BY <3>1, <3>2 DEF RewrittenRows, Unwritten
  <2>2. PathInv /\ RewrittenRows /\ [Next]_vars => RewrittenRows'
    BY <1>1, RewrittenNext, TutorAssumption
  <2>3. PathInv /\ PlainRows /\ RewrittenRows => GeneralMatchesText
    BY DEF PathInv, TypeInv, TypeOK, PlainRows, IsPlain, RewrittenRows, GeneralMatchesText
  <2> QED BY <2>1, <2>2, <2>3, PathInvariant, PlainInvariant, PTL DEF Spec
<1>2. CASE Modes \cap RewriteModes = {}
  <2>1. PathInv /\ PlainRows => GeneralMatchesText
    BY <1>2 DEF PathInv, TypeInv, TypeOK, PlainRows, IsPlain, GeneralMatchesText
  <2> QED BY <2>1, PathInvariant, PlainInvariant, PTL
<1> QED BY <1>1, <1>2

-----------------------------------------------------------------------------
(* What a reset leaves.                                                    *)

LEMMA ResetNext ==
    ASSUME TutorAssumption, ~MaySwitch, PathInv, ResetRows, [Next]_vars
    PROVE ResetRows'
<1>1. mode' = mode
  BY DEF Next, BeginEpochPass, BeginStepPass, Begin, Rollout, Rewrite, GenerateGeneral,
     AddConstraint, AddAdaptive, SelectHighInfo, SelectRaises, MixEvolved,
     GenerateEvolvedGeneral, Persist, DropUnscorable, SwitchMode, Halted, vars
<1> SUFFICES ASSUME mode \in ResetModes PROVE ResetRows'
  BY <1>1 DEF ResetRows
<1>a. mode \in ConstraintModes /\ mode \notin RewriteModes \cup EvaModes
  BY DEF ConstraintModes, ResetModes, RewriteModes, EvaModes
<1>2. CASE BeginEpochPass \/ BeginStepPass
  BY <1>2, BeginFields DEF PathInv, TypeInv, TypeOK, ResetRows
<1>3. CASE Rollout \/ Rewrite \/ GenerateGeneral \/ AddConstraint \/ AddAdaptive
           \/ SelectHighInfo \/ SelectRaises \/ MixEvolved \/ GenerateEvolvedGeneral
  BY <1>3, <1>a, StagesKeep, PlainStages DEF ResetRows, Unwritten
<1>4. CASE Persist
  <2>1. \A r \in Rows : Len(store'[r].cs) <= 1
    <3> TAKE r \in Rows
    <3>1. CASE r \in DOMAIN work
      <4>1. Len(work[r].cs) <= 1 /\ Len(Append(<<>>, visit)) = 1
        BY <1>4, <3>1 DEF ResetRows, Unwritten, Persist
      <4>2. store'[r].cs = IF r \in chosen THEN Append(<<>>, visit) ELSE work[r].cs
        BY <1>4, <1>a, <3>1, WrittenRow, Zenon
      <4> QED BY <4>1, <4>2
    <3>2. CASE r \notin DOMAIN work
      BY <1>4, <3>2, OtherRowsKept DEF ResetRows
    <3> QED BY <3>1, <3>2
  <2> QED BY <1>4, <2>1 DEF ResetRows, Unwritten, Persist
<1>5. CASE DropUnscorable
  <2>1. \A r \in Rows : Len(SeededRow(r).cs) <= 1
    BY DEF SeededRow
  <2> QED BY <1>5, <2>1, DropFields DEF ResetRows, Unwritten
<1>6. CASE UNCHANGED vars
  BY <1>6 DEF vars, ResetRows, Unwritten
<1> QED BY <1>2, <1>3, <1>4, <1>5, <1>6 DEF Next, Halted, SwitchMode

\* In a process that stays in a reset mode, no prompt ever has more than one
\* constraint, and it is joined to the original instruction.
THEOREM ResetAlwaysKeepsOne ==
    ASSUME ~MaySwitch
    PROVE Spec => []ResetKeepsOne
<1>1. Init => ResetRows
  BY DEF Init, ResetRows, SeededRow, Unwritten
<1>2. PathInv /\ ResetRows /\ [Next]_vars => ResetRows'
  BY ResetNext, TutorAssumption
<1>3. PathInv /\ PlainRows /\ ResetRows => ResetKeepsOne
  <2>1. mode \in ResetModes => mode \notin RewriteModes \cup EvaModes
    BY DEF ResetModes, RewriteModes, EvaModes
  <2> QED BY <2>1 DEF PathInv, TypeInv, TypeOK, PlainRows, IsPlain, ResetRows, ResetKeepsOne
<1> QED BY <1>1, <1>2, <1>3, PathInvariant, PlainInvariant, PTL DEF Spec

-----------------------------------------------------------------------------
(* The groups a mode writes.                                               *)

\* Between the call and the next one, the rows of the call have only the
\* groups of the mode.
OwnOnly ==
    pc \in {"idle", "drop"} => \A r \in DOMAIN work \cap Rows :
      /\ mode \notin AdaptiveModes => store[r].adaptive = <<>>
      /\ mode \notin ConstraintModes => store[r].constraint = <<>>

LEMMA OwnOnlyNext ==
    ASSUME TutorAssumption, PathInv, OwnOnly, [Next]_vars
    PROVE OwnOnly'
<1>1. CASE BeginEpochPass \/ BeginStepPass
  BY <1>1, BeginFields DEF PathInv, OwnOnly
<1>2. CASE Rollout \/ Rewrite \/ GenerateGeneral \/ AddConstraint \/ AddAdaptive
           \/ SelectHighInfo \/ SelectRaises \/ MixEvolved \/ GenerateEvolvedGeneral
  BY <1>2, StagesKeep DEF OwnOnly
<1>3. CASE Persist
  <2>1. mode' = mode /\ work' = work
    BY <1>3 DEF Persist
  <2> QED BY <1>3, <2>1, WrittenRow DEF OwnOnly
<1>4. CASE DropUnscorable
  <2>1. mode' = mode /\ work' = work /\ pc = "drop"
    BY <1>4 DEF DropUnscorable
  <2>2. \A r \in Rows : SeededRow(r).adaptive = <<>> /\ SeededRow(r).constraint = <<>>
    BY DEF SeededRow
  <2> QED BY <1>4, <2>1, <2>2, DropFields DEF OwnOnly
<1>5. CASE SwitchMode
  BY <1>5 DEF SwitchMode, OwnOnly
<1>6. CASE UNCHANGED vars
  BY <1>6 DEF vars, OwnOnly
<1> QED BY <1>1, <1>2, <1>3, <1>4, <1>5, <1>6 DEF Next, Halted

\* After a call its rows hold no rubric of a group their mode does not use,
\* whatever modes the calls before it ran in.
THEOREM GroupsNeverStale == Spec => []NoStaleGroup
<1>1. Init => OwnOnly
  BY DEF Init, OwnOnly
<1>2. PathInv /\ OwnOnly /\ [Next]_vars => OwnOnly'
  BY OwnOnlyNext, TutorAssumption
<1>3. PathInv /\ OwnOnly => NoStaleGroup
  BY DEF PathInv, TypeInv, TypeOK, OwnOnly, NoStaleGroup
<1> QED BY <1>1, <1>2, <1>3, PathInvariant, PTL DEF Spec

-----------------------------------------------------------------------------
(* No criterion is lost.                                                   *)

\* Without a change of mode: only the constraint modes ever store constraint
\* rubrics, and in the adaptive mode a call only appends to what is stored.
Accumulates ==
    /\ mode \notin ConstraintModes => \A r \in Rows : store[r].constraint = <<>>
    /\ mode \in AdaptiveModes /\ Unwritten => \A r \in DOMAIN work :
         IF pc = "persist"
           THEN SubSeq(work[r].adaptive, 1, Len(store[r].adaptive)) = store[r].adaptive
           ELSE work[r].adaptive = store[r].adaptive

LEMMA WholeSeq ==
    ASSUME NEW S, NEW s \in Seq(S)
    PROVE /\ SubSeq(s, 1, Len(s)) = s
          /\ \A x \in S : SubSeq(Append(s, x), 1, Len(s)) = s
<1>1. Len(s) \in Nat /\ DOMAIN s = 1 .. Len(s) /\ s = [i \in 1 .. Len(s) |-> s[i]]
  OBVIOUS
<1>2. SubSeq(s, 1, Len(s)) = s
  BY <1>1
<1>3. ASSUME NEW x \in S PROVE SubSeq(Append(s, x), 1, Len(s)) = s
  <2>1. \A i \in 1 .. Len(s) : Append(s, x)[i] = s[i]
    BY <1>1
  <2>2. SubSeq(Append(s, x), 1, Len(s)) = [i \in 1 .. Len(s) |-> Append(s, x)[i]]
    BY <1>1
  <2> QED BY <1>1, <2>1, <2>2
<1> QED BY <1>2, <1>3

LEMMA AccumulatesNext ==
    ASSUME TutorAssumption, ~MaySwitch, PathInv, Accumulates, [Next]_vars
    PROVE Accumulates'
<1>1. mode' = mode
  BY DEF Next, BeginEpochPass, BeginStepPass, Begin, Rollout, Rewrite, GenerateGeneral,
     AddConstraint, AddAdaptive, SelectHighInfo, SelectRaises, MixEvolved,
     GenerateEvolvedGeneral, Persist, DropUnscorable, SwitchMode, Halted, vars
<1>a. mode \in AdaptiveModes =>
        mode \notin ConstraintModes \cup RewriteModes \cup EvaModes
  BY DEF ConstraintModes, AppendModes, ResetModes, RewriteModes, AdaptiveModes, EvaModes
<1>b. \A r \in DOMAIN work : r \in Rows /\ work[r] \in RowRecord
  BY WorkRow DEF PathInv, TypeInv
<1>c. \A r \in Rows : store[r].adaptive \in Seq(1 .. MaxVisits)
  BY DEF PathInv, TypeInv, TypeOK, RowRecord
<1>2. CASE BeginEpochPass \/ BeginStepPass
  BY <1>2, BeginFields DEF PathInv, Accumulates
<1>3. CASE Rollout
  <2>1. /\ pc = "rollout" /\ pc' # "persist" /\ work' = work /\ store' = store
    BY <1>3 DEF Rollout
  <2> QED BY <1>1, <2>1 DEF Accumulates, Unwritten
<1>4. CASE GenerateGeneral
  <2>1. PICK ok : work' = WithGeneral(ok)
    BY <1>4 DEF GenerateGeneral
  <2>2. \A r \in DOMAIN work' : r \in DOMAIN work /\ work'[r].adaptive = work[r].adaptive
    BY <1>b, <2>1 DEF WithGeneral, RowRecord
  <2>3. /\ pc = "general" /\ store' = store
        /\ mode \in AdaptiveModes => pc' = "adaptive"
    BY <1>4, <1>a DEF GenerateGeneral
  <2> QED BY <1>1, <2>2, <2>3 DEF Accumulates, Unwritten
<1>5. CASE AddAdaptive
  <2>1. PICK yes \in SUBSET Eligible :
         work' = [r \in DOMAIN work |->
                    IF r \in yes THEN [work[r] EXCEPT !.adaptive = Append(@, visit)]
                                 ELSE work[r]]
    BY <1>5 DEF AddAdaptive
  <2>2. /\ pc = "adaptive" /\ pc' = "persist" /\ store' = store
        /\ visit \in 1 .. MaxVisits /\ mode \in AdaptiveModes
    BY <1>5 DEF AddAdaptive, PathInv, TypeInv, InCall, CallPath, ModeStages
  <2>3. ASSUME NEW r \in DOMAIN work'
        PROVE SubSeq(work'[r].adaptive, 1, Len(store[r].adaptive)) = store[r].adaptive
    <3>1. r \in DOMAIN work /\ r \in Rows /\ work[r].adaptive = store[r].adaptive
      BY <1>b, <2>1, <2>2 DEF Accumulates, Unwritten
    <3>2. work'[r].adaptive \in {store[r].adaptive, Append(store[r].adaptive, visit)}
      BY <1>b, <2>1, <3>1 DEF RowRecord
    <3>3. store[r].adaptive \in Seq(1 .. MaxVisits)
      BY <1>c, <3>1
    <3> QED BY <2>2, <3>2, <3>3, WholeSeq
  <2> QED BY <1>1, <2>2, <2>3 DEF Accumulates
<1>6. CASE Rewrite \/ AddConstraint \/ SelectHighInfo \/ SelectRaises \/ MixEvolved
           \/ GenerateEvolvedGeneral
  <2>1. mode \notin AdaptiveModes
    BY <1>6, <1>a DEF PathInv, CallPath, ModeStages, Rewrite, AddConstraint, SelectHighInfo,
       SelectRaises, MixEvolved, GenerateEvolvedGeneral
  <2> QED BY <1>1, <1>6, <2>1, StagesKeep DEF Accumulates
<1>7. CASE Persist
  <2>1. mode \notin ConstraintModes => \A r \in Rows : store'[r].constraint = <<>>
    BY <1>7, WrittenRow, OtherRowsKept DEF Accumulates
  <2> QED BY <1>1, <1>7, <2>1 DEF Accumulates, Unwritten, Persist
<1>8. CASE DropUnscorable
  <2>1. \A r \in Rows : SeededRow(r).constraint = <<>>
    BY DEF SeededRow
  <2> QED BY <1>1, <1>8, <2>1, DropFields DEF Accumulates, Unwritten
<1>9. CASE UNCHANGED vars
  BY <1>9 DEF vars, Accumulates, Unwritten
<1> QED BY <1>2, <1>3, <1>4, <1>5, <1>6, <1>7, <1>8, <1>9 DEF Next, Halted, SwitchMode

\* Nothing is lost of a row that stays in training when the dataset is written.
LEMMA NothingLost ==
    ASSUME TutorAssumption, ~MaySwitch, LockInv, LockInv', PathInv, Accumulates, [Next]_vars,
           store' # store
    PROVE \A r \in active' :
            /\ Elements(store[r].constraint) \cap Elements(store'[r].cs)
                 \subseteq Elements(store'[r].constraint)
            /\ mode \in AdaptiveModes =>
                 SubSeq(store'[r].adaptive, 1, Len(store[r].adaptive)) = store[r].adaptive
<1>1. Persist \/ DropUnscorable
  BY StagesKeep, BeginFields DEF Next, SwitchMode, Halted, vars, PathInv
<1>2. mode' = mode /\ active' \subseteq Rows
  BY <1>1 DEF Persist, DropUnscorable, PathInv, TypeInv, TypeOK
<1> SUFFICES ASSUME NEW r \in active'
    PROVE /\ Elements(store[r].constraint) \cap Elements(store'[r].cs)
               \subseteq Elements(store'[r].constraint)
          /\ mode \in AdaptiveModes =>
               SubSeq(store'[r].adaptive, 1, Len(store[r].adaptive)) = store[r].adaptive
  OBVIOUS
<1>3. r \in Rows
  BY <1>2
<1>4. CASE mode \in ConstraintModes
  <2>1. store'[r].constraint = store'[r].cs
    BY <1>2, <1>3, <1>4 DEF LockInv, Lockstep
  <2> QED BY <1>4, <2>1, ModeClasses
<1>5. CASE mode \notin ConstraintModes
  <2>1. Elements(store[r].constraint) = {}
    BY <1>3, <1>5, ElementsFacts DEF Accumulates
  <2>2. SubSeq(store[r].adaptive, 1, Len(store[r].adaptive)) = store[r].adaptive
    <3>1. store[r].adaptive \in Seq(1 .. MaxVisits)
      BY <1>3 DEF PathInv, TypeInv, TypeOK, RowRecord
    <3> QED BY <3>1, WholeSeq
  <2>3. mode \in AdaptiveModes =>
          SubSeq(store'[r].adaptive, 1, Len(store[r].adaptive)) = store[r].adaptive
    <3>1. CASE Persist /\ r \in DOMAIN work
      <4>1. mode \in AdaptiveModes => store'[r].adaptive = work[r].adaptive
        BY <3>1, WrittenRow
      <4>2. pc = "persist" /\ Unwritten
        BY <3>1 DEF Persist, Unwritten
      <4> QED BY <3>1, <4>1, <4>2 DEF Accumulates
    <3>2. CASE Persist /\ r \notin DOMAIN work
      BY <1>3, <2>2, <3>2, OtherRowsKept
    <3>3. CASE DropUnscorable
      BY <1>3, <2>2, <3>3, DropFields
    <3> QED BY <1>1, <3>1, <3>2, <3>3
  <2> QED BY <2>1, <2>3
<1> QED BY <1>4, <1>5

\* In a process that stays in its mode, no step loses the rubric of a constraint
\* still in its prompt or an adaptive criterion it has accumulated.
THEOREM NothingEverLost ==
    ASSUME ~MaySwitch
    PROVE Spec => NoSilentDrop
<1>1. Init => Accumulates
  <2> SUFFICES ASSUME Init PROVE Accumulates
    OBVIOUS
  <2>1. \A r \in Rows : SeededRow(r).constraint = <<>>
    BY DEF SeededRow
  <2> QED BY <2>1 DEF Init, Accumulates, Unwritten
<1>2. PathInv /\ Accumulates /\ [Next]_vars => Accumulates'
  BY AccumulatesNext, TutorAssumption
<1>3. Init => LockInv
  <2> SUFFICES ASSUME Init PROVE Lockstep
    BY TutorTypeInit, TutorAssumption DEF LockInv
  <2>1. pc = "idle" /\ \A r \in Rows : store[r] = SeededRow(r)
    BY DEF Init
  <2> QED BY <2>1, SeededFields DEF Lockstep
<1>4. LockInv /\ [Next]_vars => LockInv'
  BY LockNext, TutorAssumption
<1>5. LockInv /\ LockInv' /\ PathInv /\ Accumulates /\ [Next]_vars =>
        [\A r \in active' :
           /\ Elements(store[r].constraint) \cap Elements(store'[r].cs)
                \subseteq Elements(store'[r].constraint)
           /\ mode \in AdaptiveModes =>
                SubSeq(store'[r].adaptive, 1, Len(store[r].adaptive)) = store[r].adaptive]_store
  BY NothingLost, TutorAssumption
<1> QED BY <1>1, <1>2, <1>3, <1>4, <1>5, PathInvariant, PTL DEF Spec, NoSilentDrop
===============================================================================
