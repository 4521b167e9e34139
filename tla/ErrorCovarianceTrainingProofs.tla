------------------- MODULE ErrorCovarianceTrainingProofs -------------------
(***************************************************************************)
(* Proofs that the training driver hands BUMP, through addMember, exactly  *)
(* the members of the ensembles it holds and constructs it with their     *)
(* sizes, and that every state of execute has the types TypeOK states,    *)
(* for every ensemble size and every configuration.                        *)
(***************************************************************************)
EXTENDS ErrorCovarianceTraining, FiniteSetTheorems, TLAPS

\* The phases after the members have been added.
After == {"iter", "drivers", "apply", "output", "delete", "done", "aborted"}

(***************************************************************************)
(* The inductive invariant.  Nothing is added before BUMP is built; while  *)
(* the members are added, ens1_ne and ens2_ne still hold the sizes BUMP   *)
(* was constructed with, and those are the sizes of the ensembles held.   *)
(***************************************************************************)
IInv ==
  /\ pc \in Pcs
  /\ cfg \in Configs
  /\ ens1 \in (1..MaxMembers) \cup {NoEnsemble}
  /\ ens2 \in Sizes \cup {NoEnsemble}
  /\ ne \in Sizes \X Sizes
  /\ bumpSizes \in Sizes \X Sizes
  /\ memberConfig \in Sizes \X Sizes
  /\ added \subseteq Nat \X {1, 2}
  /\ added # {} => cfg.bump /\ pc \in After
  /\ pc = "add" => ne = bumpSizes /\ cfg.bump
  /\ pc \in {"add"} \cup After /\ cfg.bump =>
       \A k \in {1, 2} : EnsSize(k) # NoEnsemble => bumpSizes[k] = EnsSize(k)
  /\ MembersMatchEnsembles

LEMMA InitIInv == Init => IInv
<1>. SUFFICES ASSUME Init PROVE IInv
  OBVIOUS
<1>1. <<0, 0>> \in Sizes \X Sizes
  BY MaxMembersAssumption DEF Sizes
<1>2. AddedIndices(1) = {} /\ AddedIndices(2) = {}
  BY DEF Init, AddedIndices
<1>3. MembersMatchEnsembles
  BY <1>2 DEF Init, MembersMatchEnsembles
<1>4. pc \in Pcs /\ pc \notin {"add"} \cup After
  BY DEF Init, Pcs, After
<1>5. /\ ens1 \in (1..MaxMembers) \cup {NoEnsemble}
      /\ ens2 \in Sizes \cup {NoEnsemble}
      /\ added \subseteq Nat \X {1, 2} /\ added = {}
  BY DEF Init
<1>. QED
  BY <1>1, <1>3, <1>4, <1>5 DEF Init, IInv

\* The addMember loops add, for ensemble k, the indices 0..ne[k]-1 or none.
LEMMA AddedShape ==
  ASSUME NEW D, D \subseteq Nat, NEW S1, NEW S2, S1 \subseteq D, S2 \subseteq D,
         NEW A, A = {<<ie, 1>> : ie \in S1} \cup {<<ie, 2>> : ie \in S2}
  PROVE  /\ {ie \in D : <<ie, 1>> \in A} = S1
         /\ {ie \in D : <<ie, 2>> \in A} = S2
         /\ A \subseteq Nat \X {1, 2}
<1>1. \A ie, j : <<ie, 1>> # <<j, 2>>
  OBVIOUS
<1>2. \A ie, j, k : <<ie, k>> = <<j, k>> => ie = j
  OBVIOUS
<1>3. \A ie : <<ie, 1>> \in A <=> ie \in S1
  <2>1. ASSUME NEW ie, <<ie, 1>> \in A PROVE ie \in S1
    <3>1. CASE <<ie, 1>> \in {<<j, 1>> : j \in S1}
      <4>1. PICK j \in S1 : <<ie, 1>> = <<j, 1>>
        BY <3>1
      <4>. QED
        BY <4>1, <1>2
    <3>2. CASE <<ie, 1>> \in {<<j, 2>> : j \in S2}
      <4>1. PICK j \in S2 : <<ie, 1>> = <<j, 2>>
        BY <3>2
      <4>. QED
        BY <4>1, <1>1
    <3>. QED
      BY <2>1, <3>1, <3>2, Zenon
  <2>2. ASSUME NEW ie \in S1 PROVE <<ie, 1>> \in A
    OBVIOUS
  <2>. QED
    BY <2>1, <2>2, Zenon
<1>4. \A ie : <<ie, 2>> \in A <=> ie \in S2
  <2>1. ASSUME NEW ie, <<ie, 2>> \in A PROVE ie \in S2
    <3>1. CASE <<ie, 2>> \in {<<j, 2>> : j \in S2}
      <4>1. PICK j \in S2 : <<ie, 2>> = <<j, 2>>
        BY <3>1
      <4>. QED
        BY <4>1, <1>2
    <3>2. CASE <<ie, 2>> \in {<<j, 1>> : j \in S1}
      <4>1. PICK j \in S1 : <<ie, 2>> = <<j, 1>>
        BY <3>2
      <4>. QED
        BY <4>1, <1>1
    <3>. QED
      BY <2>1, <3>1, <3>2, Zenon
  <2>2. ASSUME NEW ie \in S2 PROVE <<ie, 2>> \in A
    OBVIOUS
  <2>. QED
    BY <2>1, <2>2, Zenon
<1>5. A \subseteq Nat \X {1, 2}
  OBVIOUS
<1>. QED
  BY <1>3, <1>4, <1>5

LEMMA NextIInv == IInv /\ [Next]_vars => IInv'
<1>. SUFFICES ASSUME IInv, [Next]_vars PROVE IInv'
  OBVIOUS
<1>. USE MaxMembersAssumption, NoEnsembleAssumption DEF IInv, Sizes
<1>0. added' = {} /\ pc' \notin After => MembersMatchEnsembles'
  BY DEF MembersMatchEnsembles, AddedIndices, After
<1>1. CASE SetupEnsemble1
  <2>1. pc' = "ens2" /\ pc = "ens1"
        /\ UNCHANGED <<cfg, ens2, ne, bumpSizes, memberConfig, added>>
    BY <1>1 DEF SetupEnsemble1
  <2>2. ens1' \in (1..MaxMembers) \cup {NoEnsemble}
    BY <1>1 DEF SetupEnsemble1
  <2>3. added = {}
    BY <2>1 DEF After
  <2>. QED
    BY <1>0, <2>1, <2>2, <2>3 DEF Pcs, After
<1>2. CASE SetupEnsemble2
  <2>1. pc' = "bump" /\ added' = added /\ cfg' = cfg /\ ens1' = ens1
        /\ ne' = ne /\ bumpSizes' = bumpSizes /\ pc = "ens2"
        /\ memberConfig' = memberConfig
    BY <1>2 DEF SetupEnsemble2
  <2>2. ens2' \in Sizes \cup {NoEnsemble}
    <3>1. PICK s \in SUBSET Ens2Sections :
            IF "background error" \in s
            THEN \E n \in Sizes : ens2' = n
            ELSE \E n \in 1..MaxMembers :
                   ens2' = IF HasEnsemble(s, {"lowres ensemble base", "lowres ensemble pairs"})
                           THEN n ELSE NoEnsemble
      BY <1>2 DEF SetupEnsemble2
    <3>2. CASE "background error" \in s
      BY <3>1, <3>2, Zenon
    <3>3. CASE "background error" \notin s
      <4>1. PICK n \in 1..MaxMembers :
              ens2' = IF HasEnsemble(s, {"lowres ensemble base", "lowres ensemble pairs"})
                      THEN n ELSE NoEnsemble
        BY <3>1, <3>3, Zenon
      <4>2. CASE HasEnsemble(s, {"lowres ensemble base", "lowres ensemble pairs"})
        <5>1. n \in Sizes
          BY MaxMembersAssumption DEF Sizes
        <5>2. ens2' = n
          BY <4>1, <4>2
        <5>. QED
          BY <5>1, <5>2, Zenon
      <4>3. CASE ~HasEnsemble(s, {"lowres ensemble base", "lowres ensemble pairs"})
        BY <4>1, <4>3
      <4>. QED
        BY <4>2, <4>3
    <3>. QED
      BY <3>2, <3>3, Zenon
  <2>3. added = {}
    BY <2>1 DEF After
  <2>. QED
    BY <1>0, <2>1, <2>2, <2>3 DEF Pcs, After
<1>3. CASE BumpConstruct
  <2>1. PICK c1, c2 \in Sizes : ne' = EnsembleSizes(c1, c2) /\ bumpSizes' = ne'
                                /\ memberConfig' \in Sizes \X Sizes
    BY <1>3 DEF BumpConstruct
  <2>2. pc' = "add" /\ pc = "bump" /\ cfg.bump
        /\ UNCHANGED <<cfg, ens1, ens2, added>>
    BY <1>3 DEF BumpConstruct
  <2>3. added = {}
    BY <2>2 DEF After
  <2>4. bumpSizes' \in Sizes \X Sizes
    BY <2>1 DEF EnsembleSizes
  <2>5. \A k \in {1, 2} : EnsSize(k)' # NoEnsemble => bumpSizes'[k] = EnsSize(k)'
    BY <2>1, <2>2 DEF EnsembleSizes, EnsSize
  <2>. QED
    BY <2>1, <2>2, <2>3, <2>4, <2>5 DEF Pcs, MembersMatchEnsembles, AddedIndices
<1>4. CASE SkipBump
  BY <1>4 DEF SkipBump, Pcs, MembersMatchEnsembles, AddedIndices
<1>5. CASE AddMembers
  <2>. DEFINE S1 == IF ens1 # NoEnsemble THEN MemberLoop(ne[1]) ELSE {}
              S2 == IF ens2 # NoEnsemble /\ cfg.drivers \cap Compute2 # {}
                    THEN MemberLoop(ne[2]) ELSE {}
  <2>1. added' = {<<ie, 1>> : ie \in S1} \cup {<<ie, 2>> : ie \in S2}
        /\ pc = "add" /\ pc' = "iter"
        /\ UNCHANGED <<cfg, ens1, ens2, ne, bumpSizes, memberConfig>>
    BY <1>5 DEF AddMembers
  <2>2. S1 \subseteq Sizes /\ S2 \subseteq Sizes /\ Sizes \subseteq Nat
    BY DEF MemberLoop
  <2>3. AddedIndices(1)' = S1 /\ AddedIndices(2)' = S2
        /\ added' \subseteq Nat \X {1, 2}
    BY <2>1, <2>2, AddedShape DEF AddedIndices
  <2>4. CASE cfg.bump
    <3>1. \A k \in {1, 2} : EnsSize(k) # NoEnsemble => ne[k] = EnsSize(k)
      BY <2>1, <2>4
    <3>2. /\ ens1 # NoEnsemble => S1 = 0..ens1 - 1
          /\ ens1 = NoEnsemble => S1 = {}
      BY <3>1 DEF EnsSize, MemberLoop
    <3>3. S2 # {} => ens2 # NoEnsemble /\ S2 = 0..ens2 - 1
      BY <3>1 DEF EnsSize, MemberLoop
    <3>4. \A k \in {1, 2} : EnsSize(k) # NoEnsemble => bumpSizes[k] = EnsSize(k)
      BY <2>1, <2>4
    <3>0. ens1' = ens1 /\ ens2' = ens2 /\ bumpSizes' = bumpSizes
      BY <2>1
    <3>7. /\ EnsSize(1)' = ens1 /\ EnsSize(2)' = ens2
          /\ ens1 # NoEnsemble => bumpSizes[1] = ens1
          /\ ens2 # NoEnsemble => bumpSizes[2] = ens2
      BY <3>0, <3>4 DEF EnsSize
    <3>5. MembersMatchEnsembles'
      <4>1. AddedIndices(1)' # {} =>
              /\ EnsSize(1)' # NoEnsemble
              /\ AddedIndices(1)' = 0..EnsSize(1)' - 1
              /\ bumpSizes'[1] = EnsSize(1)'
        BY <3>0, <2>3, <3>2, <3>7
      <4>2. AddedIndices(2)' # {} =>
              /\ EnsSize(2)' # NoEnsemble
              /\ AddedIndices(2)' = 0..EnsSize(2)' - 1
              /\ bumpSizes'[2] = EnsSize(2)'
        BY <3>0, <2>3, <3>3, <3>7
      <4>3. ens1' # NoEnsemble => AddedIndices(1)' = 0..ens1' - 1
        BY <3>0, <2>3, <3>2
      <4>. QED
        BY <4>1, <4>2, <4>3 DEF MembersMatchEnsembles
    <3>6. pc' \in Pcs /\ pc' \in After /\ pc' # "add"
      BY <2>1 DEF Pcs, After
    <3>8. /\ cfg' \in Configs /\ cfg'.bump
          /\ ens1' \in (1..MaxMembers) \cup {NoEnsemble}
          /\ ens2' \in Sizes \cup {NoEnsemble}
          /\ ne' \in Sizes \X Sizes /\ bumpSizes' \in Sizes \X Sizes
          /\ memberConfig' \in Sizes \X Sizes
      BY <2>1, <2>4
    <3>9. \A k \in {1, 2} : EnsSize(k)' # NoEnsemble => bumpSizes'[k] = EnsSize(k)'
      BY <3>0, <3>7
    <3>. QED
      BY <2>3, <3>5, <3>6, <3>8, <3>9
  <2>5. CASE ~cfg.bump
    BY <2>1, <2>5
  <2>. QED
    BY <2>4, <2>5
<1>6. CASE IterativeLoad
  <2>1. pc = "iter" /\ pc' = "drivers"
        /\ UNCHANGED <<cfg, ens1, ens2, bumpSizes, memberConfig, added>>
    BY <1>6 DEF IterativeLoad
  <2>2. ne' \in Sizes \X Sizes
    BY <1>6 DEF IterativeLoad, TypeOK
  <2>. QED
    BY <2>1, <2>2 DEF After, Pcs, MembersMatchEnsembles, AddedIndices, EnsSize
<1>7. CASE RunDrivers
  BY <1>7 DEF RunDrivers, After, Pcs, MembersMatchEnsembles, AddedIndices, EnsSize
<1>8. CASE ApplyOperators
  <2>1. pc = "apply" /\ pc' \in {"apply", "aborted"}
        /\ UNCHANGED <<cfg, ens1, ens2, ne, bumpSizes, memberConfig, added>>
    BY <1>8 DEF ApplyOperators
  <2>. QED
    BY <2>1 DEF After, Pcs, MembersMatchEnsembles, AddedIndices, EnsSize
<1>9. CASE ApplyDone
  BY <1>9 DEF ApplyDone, After, Pcs, MembersMatchEnsembles, AddedIndices, EnsSize
<1>10. CASE WriteOutputs
  <2>1. pc = "output" /\ pc' = "delete"
        /\ UNCHANGED <<cfg, ens1, ens2, ne, bumpSizes, memberConfig, added>>
    BY <1>10 DEF WriteOutputs
  <2>. QED
    BY <2>1 DEF After, Pcs, MembersMatchEnsembles, AddedIndices, EnsSize
<1>11. CASE Finish
  BY <1>11 DEF Finish, After, Pcs, MembersMatchEnsembles, AddedIndices, EnsSize
<1>12. CASE UNCHANGED vars
  BY <1>12 DEF vars, After, Pcs, MembersMatchEnsembles, AddedIndices, EnsSize
<1>. QED
  BY <1>1, <1>2, <1>3, <1>4, <1>5, <1>6, <1>7, <1>8, <1>9, <1>10, <1>11, <1>12
     DEF Next

\* The size override of lines 309-310 and the addMember loops of lines
\* 326-347 hand BUMP, for every ensemble size and configuration, exactly
\* the members of the ensembles the driver holds, with the sizes it was
\* constructed with.
THEOREM LedgerMatchesEnsembles == Spec => []MembersMatchEnsembles
<1>1. IInv => MembersMatchEnsembles
  BY DEF IInv
<1>. QED
  BY InitIInv, NextIInv, <1>1, PTL DEF Spec

-----------------------------------------------------------------------------
(***************************************************************************)
(* Type correctness.  The one step that is not a matter of sets is the     *)
(* mean of lines 234-248: the sum of the drawn members is an integer,      *)
(* because it is the difference of the sizes of two finite sets of units.  *)
(***************************************************************************)

\* The units of a finite family of integers form a finite set.
LEMMA UnitsFinite ==
  ASSUME NEW D, IsFiniteSet(D), NEW u \in [D -> Int]
  PROVE  IsFiniteSet(UNION {{i} \X (1..u[i]) : i \in D})
<1>. DEFINE F == {{i} \X (1..u[i]) : i \in D}
            g == [i \in D |-> {i} \X (1..u[i])]
<1>1. g \in Surjection(D, F)
  BY DEF Surjection
<1>2. IsFiniteSet(F)
  BY <1>1, FS_Surjection
<1>3. \A T \in F : IsFiniteSet(T)
  <2>. SUFFICES ASSUME NEW i \in D PROVE IsFiniteSet({i} \X (1..u[i]))
    OBVIOUS
  <2>1. IsFiniteSet({i})
    BY FS_Singleton
  <2>2. IsFiniteSet(1..u[i])
    BY FS_Interval
  <2>. QED
    BY <2>1, <2>2, FS_Product
<1>. QED
  BY <1>2, <1>3, FS_UNION

\* The sum of a sequence of integers is an integer.
LEMMA SeqSumType ==
  ASSUME NEW s \in Seq(Int)
  PROVE  SeqSum(s) \in Int
<1>1. IsFiniteSet(DOMAIN s)
  BY FS_Interval
<1>2. IsFiniteSet(UNION {{i} \X (1..s[i]) : i \in DOMAIN s})
  <2>1. s \in [DOMAIN s -> Int]
    OBVIOUS
  <2>. QED
    BY <1>1, <2>1, UnitsFinite
<1>3. IsFiniteSet(UNION {{i} \X (1..(0 - s[i])) : i \in DOMAIN s})
  <2>. DEFINE t == [i \in DOMAIN s |-> 0 - s[i]]
  <2>1. t \in [DOMAIN s -> Int]
    OBVIOUS
  <2>2. {{i} \X (1..(0 - s[i])) : i \in DOMAIN s}
          = {{i} \X (1..t[i]) : i \in DOMAIN s}
    OBVIOUS
  <2>. HIDE DEF t
  <2>3. IsFiniteSet(UNION {{i} \X (1..t[i]) : i \in DOMAIN s})
    BY <1>1, <2>1, UnitsFinite
  <2>. QED
    BY <2>2, <2>3
<1>. QED
  BY <1>2, <1>3, FS_CardinalityType DEF SeqSum

\* The members drawn for ensemble 2, with their mean removed, are integers.
LEMMA RemoveMeanType ==
  ASSUME NEW n \in Nat, NEW d \in [1..n -> Draws]
  PROVE  /\ d \in Seq(Draws)
         /\ RemoveMean(d) \in Seq(Int)
<1>1. d \in Seq(Draws)
  OBVIOUS
<1>2. d \in [1..n -> Int]
  BY DrawsAssumption
<1>3. SeqSum(d) \in Int
  BY <1>2, SeqSumType
<1>4. \A i \in 1..n : Len(d) * d[i] - SeqSum(d) \in Int
  BY <1>2, <1>3
<1>. QED
  BY <1>1, <1>4 DEF RemoveMean

\* A word with one more letter of its alphabet is a word of that alphabet.
LEMMA AppendType ==
  ASSUME NEW S, NEW w \in Seq(S), NEW e \in S
  PROVE  Append(w, e) \in Seq(S)
OBVIOUS

\* execute starts in a state of the types TypeOK states.
LEMMA InitTypeOK == Init => TypeOK
<1>. SUFFICES ASSUME Init PROVE TypeOK
  OBVIOUS
<1>1. <<0, 0>> \in Sizes \X Sizes
  BY MaxMembersAssumption DEF Sizes
<1>. QED
  BY <1>1 DEF Init, TypeOK, Pcs

\* TypeOK is inductive: every phase of execute keeps the types, given the
\* assumptions on the constants (the mean of lines 234-248 through
\* RemoveMeanType, the output list of line 123 through its assumption).
LEMMA NextTypeOK == TypeOK /\ [Next]_vars => TypeOK'
<1>. SUFFICES ASSUME TypeOK, [Next]_vars PROVE TypeOK'
  OBVIOUS
<1>. USE MaxMembersAssumption DEF Sizes, Pcs
<1>a. ens1 \in (1..MaxMembers) \cup {NoEnsemble} /\ ens2 \in Sizes \cup {NoEnsemble}
  BY DEF TypeOK
<1>b. ne \in Sizes \X Sizes /\ memberConfig \in Sizes \X Sizes
  BY DEF TypeOK
<1>c. written \in Seq(Written) /\ iapp \in Nat /\ pc \in Pcs
  BY DEF TypeOK
<1>d. cfg \in Configs
  BY DEF TypeOK
<1>e. rand2 \in Seq(Int) /\ draws \in Seq(Draws)
  BY DEF TypeOK
<1>f. updated \subseteq (0..MaxMembers - 1) \X {1, 2} \X Update1
  BY DEF TypeOK
<1>1. CASE SetupEnsemble1
  BY <1>1 DEF SetupEnsemble1, TypeOK
<1>2. CASE SetupEnsemble2
  <2>1. geom2' \in {"geom1", "own"} /\ Geom2Obj' \in {"geom1", "geom2"}
    BY <1>2 DEF SetupEnsemble2, Geom2Obj
  <2>2. pc' = "bump"
        /\ UNCHANGED <<cfg, ens1, ne, bumpSizes, memberConfig, added, updated, iapp>>
    BY <1>2 DEF SetupEnsemble2
  <2>3. PICK s \in SUBSET Ens2Sections :
          IF "background error" \in s
          THEN \E n \in Sizes : \E d \in [1..n -> Draws], out \in BOOLEAN :
                 /\ ens2' = n
                 /\ draws' = d
                 /\ rand2' = RemoveMean(d)
                 /\ written' = IF out
                               THEN Append(written, [item |-> "randomized ensemble",
                                                     geom |-> Geom2Obj'])
                               ELSE written
          ELSE /\ \E n \in 1..MaxMembers :
                    ens2' = IF HasEnsemble(s, {"lowres ensemble base", "lowres ensemble pairs"})
                            THEN n ELSE NoEnsemble
               /\ UNCHANGED <<rand2, draws, written>>
    BY <1>2 DEF SetupEnsemble2
  <2>4. /\ ens2' \in Sizes \cup {NoEnsemble}
        /\ rand2' \in Seq(Int) /\ draws' \in Seq(Draws)
        /\ written' \in Seq(Written)
    <3>1. CASE "background error" \in s
      <4>1. PICK n \in Sizes : \E d \in [1..n -> Draws], out \in BOOLEAN :
              /\ ens2' = n
              /\ draws' = d
              /\ rand2' = RemoveMean(d)
              /\ written' = IF out
                            THEN Append(written, [item |-> "randomized ensemble",
                                                  geom |-> Geom2Obj'])
                            ELSE written
        BY <2>3, <3>1
      <4>2. PICK d \in [1..n -> Draws], out \in BOOLEAN :
              /\ ens2' = n
              /\ draws' = d
              /\ rand2' = RemoveMean(d)
              /\ written' = IF out
                            THEN Append(written, [item |-> "randomized ensemble",
                                                  geom |-> Geom2Obj'])
                            ELSE written
        BY <4>1
      <4>3. d \in Seq(Draws) /\ RemoveMean(d) \in Seq(Int)
        BY RemoveMeanType
      <4>4. written' \in Seq(Written)
        <5>1. [item |-> "randomized ensemble", geom |-> Geom2Obj'] \in Written
          BY <2>1 DEF Written
        <5>2. CASE out
          <6>1. written' = Append(written, [item |-> "randomized ensemble",
                                            geom |-> Geom2Obj'])
            BY <4>2, <5>2
          <6>. QED
            BY <1>c, <5>1, <6>1, AppendType, Zenon
        <5>3. CASE ~out
          BY <1>c, <4>2, <5>3
        <5>. QED
          BY <5>2, <5>3
      <4>. QED
        BY <4>2, <4>3, <4>4
    <3>2. CASE "background error" \notin s
      <4>1. PICK n \in 1..MaxMembers :
              ens2' = IF HasEnsemble(s, {"lowres ensemble base", "lowres ensemble pairs"})
                      THEN n ELSE NoEnsemble
        BY <2>3, <3>2, Zenon
      <4>2. ens2' \in Sizes \cup {NoEnsemble}
        <5>1. n \in Sizes
          OBVIOUS
        <5>2. CASE HasEnsemble(s, {"lowres ensemble base", "lowres ensemble pairs"})
          BY <4>1, <5>1, <5>2, Zenon
        <5>3. CASE ~HasEnsemble(s, {"lowres ensemble base", "lowres ensemble pairs"})
          BY <4>1, <5>3, Zenon
        <5>. QED
          BY <5>2, <5>3
      <4>3. UNCHANGED <<rand2, draws, written>>
        BY <2>3, <3>2, Zenon
      <4>. QED
        BY <1>c, <1>e, <4>2, <4>3
    <3>. QED
      BY <3>1, <3>2
  <2>. QED
    BY <2>1, <2>2, <2>4 DEF TypeOK
<1>3. CASE BumpConstruct
  <2>1. PICK c1, c2 \in Sizes, m1, m2 \in BOOLEAN :
          /\ ne' = EnsembleSizes(c1, c2)
          /\ bumpSizes' = ne'
          /\ memberConfig' = <<IF m1 THEN c1 ELSE 0, IF m2 THEN c2 ELSE 0>>
    BY <1>3 DEF BumpConstruct
  <2>2. ens1 \in Sizes \cup {NoEnsemble} /\ ens2 \in Sizes \cup {NoEnsemble}
    BY <1>a
  <2>3. ne' \in Sizes \X Sizes /\ bumpSizes' \in Sizes \X Sizes
    BY <2>1, <2>2 DEF EnsembleSizes
  <2>6. (IF m1 THEN c1 ELSE 0) \in Sizes /\ (IF m2 THEN c2 ELSE 0) \in Sizes
    OBVIOUS
  <2>4. memberConfig' \in Sizes \X Sizes
    BY <2>1, <2>6, Zenon
  <2>5. pc' = "add"
        /\ UNCHANGED <<cfg, ens1, ens2, rand2, draws, geom2, added,
                       updated, iapp, written>>
    BY <1>3 DEF BumpConstruct
  <2>. QED
    BY <2>3, <2>4, <2>5 DEF TypeOK
<1>4. CASE SkipBump
  BY <1>4 DEF SkipBump, TypeOK
<1>5. CASE AddMembers
  <2>. DEFINE S1 == IF ens1 # NoEnsemble THEN MemberLoop(ne[1]) ELSE {}
              S2 == IF ens2 # NoEnsemble /\ cfg.drivers \cap Compute2 # {}
                    THEN MemberLoop(ne[2]) ELSE {}
  <2>1. added' = {<<ie, 1>> : ie \in S1} \cup {<<ie, 2>> : ie \in S2}
    BY <1>5 DEF AddMembers
  <2>0. ne[1] \in 0..MaxMembers /\ ne[2] \in 0..MaxMembers
    BY <1>b
  <2>1a. MemberLoop(ne[1]) \subseteq 0..MaxMembers - 1
         /\ MemberLoop(ne[2]) \subseteq 0..MaxMembers - 1
    BY <2>0 DEF MemberLoop
  <2>2. S1 \subseteq 0..MaxMembers - 1 /\ S2 \subseteq 0..MaxMembers - 1
    BY <2>1a, Zenon
  <2>3. added' \subseteq (0..MaxMembers - 1) \X {1, 2}
    BY <2>1, <2>2
  <2>4. pc' = "iter"
        /\ UNCHANGED <<cfg, ens1, ens2, rand2, draws, geom2, ne, bumpSizes,
                       memberConfig, updated, iapp, written>>
    BY <1>5 DEF AddMembers
  <2>. QED
    BY <2>3, <2>4 DEF TypeOK
<1>6. CASE IterativeLoad
  <2>1. ne' \in Sizes \X Sizes
    BY <1>6, <1>b DEF IterativeLoad
  <2>2. updated' \subseteq (0..MaxMembers - 1) \X {1, 2} \X Update1
    <3>1. CASE "iterative_algo" \in cfg.drivers
      <4>. DEFINE U1 == {<<ie, 1, d>> : ie \in MemberLoop(memberConfig[1]),
                                       d \in cfg.drivers \cap Update1}
                  U2 == {<<ie, 2, "new_mom">> : ie \in IF "new_mom" \in cfg.drivers
                                                       THEN MemberLoop(memberConfig[2])
                                                       ELSE {}}
      <4>1. updated' = U1 \cup U2
        BY <1>6, <3>1 DEF IterativeLoad
      <4>2. U1 \subseteq (0..MaxMembers - 1) \X {1, 2} \X Update1
        BY <1>b DEF MemberLoop
      <4>3. U2 \subseteq (0..MaxMembers - 1) \X {1, 2} \X Update1
        BY <1>b DEF MemberLoop, Update1
      <4>. QED
        BY <4>1, <4>2, <4>3
    <3>2. CASE "iterative_algo" \notin cfg.drivers
      BY <1>6, <1>f, <3>2 DEF IterativeLoad
    <3>. QED
      BY <3>1, <3>2
  <2>3. pc' = "drivers"
        /\ UNCHANGED <<cfg, ens1, ens2, rand2, draws, geom2, bumpSizes,
                       memberConfig, added, iapp, written>>
    BY <1>6 DEF IterativeLoad
  <2>. QED
    BY <2>1, <2>2, <2>3 DEF TypeOK
<1>7. CASE RunDrivers
  BY <1>7 DEF RunDrivers, TypeOK
<1>8. CASE ApplyOperators
  <2>1. [item |-> "application", geom |-> "geom1"] \in Written
    BY DEF Written
  <2>2. \/ written' = Append(written, [item |-> "application", geom |-> "geom1"])
           /\ iapp' = iapp + 1 /\ pc' = pc
        \/ pc' = "aborted" /\ UNCHANGED <<written, iapp>>
    BY <1>8 DEF ApplyOperators
  <2>5. written \in Seq(Written) /\ iapp \in Nat /\ pc \in Pcs
    BY <1>c
  <2>3. written' \in Seq(Written) /\ iapp' \in Nat /\ pc' \in Pcs
    <3>1. CASE written' = Append(written, [item |-> "application", geom |-> "geom1"])
                /\ iapp' = iapp + 1 /\ pc' = pc
      BY <2>1, <2>5, <3>1
    <3>2. CASE pc' = "aborted" /\ UNCHANGED <<written, iapp>>
      BY <2>5, <3>2
    <3>. QED
      BY <2>2, <3>1, <3>2
  <2>4. UNCHANGED <<cfg, ens1, ens2, rand2, draws, geom2, ne, bumpSizes,
                    memberConfig, added, updated>>
    BY <1>8 DEF ApplyOperators
  <2>. QED
    BY <2>3, <2>4 DEF TypeOK
<1>9. CASE ApplyDone
  BY <1>9 DEF ApplyDone, TypeOK
<1>10. CASE WriteOutputs
  <2>. DEFINE out == IF cfg.bump
                     THEN [i \in DOMAIN cfg.outputs |->
                             [item |-> cfg.outputs[i],
                              geom |-> IF cfg.outputs[i] \in LowResParams
                                       THEN Geom2Obj ELSE "geom1"]]
                     ELSE <<>>
  <2>1. cfg.outputs \in OutputChoices /\ cfg.outputs \in Seq(STRING)
    BY <1>d, OutputChoicesAssumption DEF Configs
  <2>2. Geom2Obj \in {"geom1", "geom2"}
    BY DEF Geom2Obj
  <2>3. out \in Seq(Written)
    <3>1. CASE cfg.bump
      <4>. DEFINE o == cfg.outputs
      <4>1. \A i \in DOMAIN o : o[i] \in UNION {{p[j] : j \in DOMAIN p} : p \in OutputChoices}
        BY <2>1
      <4>2. \A i \in DOMAIN o :
              [item |-> o[i],
               geom |-> IF o[i] \in LowResParams THEN Geom2Obj ELSE "geom1"] \in Written
        BY <4>1, <2>2 DEF Written
      <4>3. DOMAIN o = 1..Len(o)
        BY <2>1
      <4>. QED
        BY <3>1, <4>2, <4>3
    <3>2. CASE ~cfg.bump
      BY <3>2
    <3>. QED
      BY <3>1, <3>2
  <2>4. written' = written \o out
    BY <1>10 DEF WriteOutputs
  <2>5. written' \in Seq(Written)
    <3>. HIDE DEF out
    <3>. QED
      BY <1>c, <2>3, <2>4
  <2>6. pc' = "delete"
        /\ UNCHANGED <<cfg, ens1, ens2, rand2, draws, geom2, ne, bumpSizes,
                       memberConfig, added, updated, iapp>>
    BY <1>10 DEF WriteOutputs
  <2>. QED
    BY <2>5, <2>6 DEF TypeOK
<1>11. CASE Finish
  BY <1>11 DEF Finish, TypeOK
<1>12. CASE UNCHANGED vars
  BY <1>12 DEF vars, TypeOK
<1>. QED
  BY <1>1, <1>2, <1>3, <1>4, <1>5, <1>6, <1>7, <1>8, <1>9, <1>10,
     <1>11, <1>12 DEF Next

\* Every state of the training driver has the types TypeOK states: in
\* particular the randomized members of ensemble 2, with the mean of lines
\* 234-248 removed, are integers, no member index handed to BUMP reaches
\* MaxMembers, and every file written is a known item on one of the two
\* geometries.
THEOREM TrainingTypeCorrect == Spec => []TypeOK
BY InitTypeOK, NextTypeOK, PTL DEF Spec
=============================================================================
