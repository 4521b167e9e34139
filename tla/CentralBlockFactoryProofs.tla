---------------------- MODULE CentralBlockFactoryProofs ----------------------
(***************************************************************************)
(* Proof that the duplicate check of the maker constructor makes the      *)
(* registry independent of the static initialisation order, for any set  *)
(* of makers and names.                                                    *)
(***************************************************************************)
EXTENDS CentralBlockFactory, TLAPS

\* The pairs the makers registered so far contribute.
Pairs(rs) == {<<r.name, r.unit>> : r \in rs}

\* No two of the given makers share a name.
NamesDistinct(rs) == \A r1, r2 \in rs : r1.name = r2.name => r1 = r2

(***************************************************************************)
(* The inductive invariant: getMakers() holds exactly the pairs of the    *)
(* makers that have run, with distinct names, and main starts only after  *)
(* all of them ran.                                                        *)
(***************************************************************************)
IInv ==
  /\ TypeOK
  /\ phase \in {"static", "main", "failed"} =>
       /\ makers = Pairs(linked \ pending)
       /\ NamesDistinct(linked \ pending)
  /\ phase \in {"main", "failed"} => pending = {}

LEMMA InitIInv == Init => IInv
  BY DEF Init, IInv, TypeOK, Pairs, NamesDistinct

LEMMA NextIInv == IInv /\ [Next]_vars => IInv'
<1>. SUFFICES ASSUME IInv, [Next]_vars PROVE IInv'
  OBVIOUS
<1>. USE NamesAssumption DEF IInv
<1>1. ASSUME NEW r \in Registrations, Register(r) PROVE IInv'
  <2>1. phase = "static" /\ r \in pending /\ pending' = pending \ {r}
        /\ UNCHANGED <<linked, made>>
    BY <1>1 DEF Register
  <2>2. linked' \ pending' = (linked \ pending) \cup {r}
    BY <2>1 DEF TypeOK
  <2>3. CASE r.name \in Keys(makers)
    <3>1. phase' = "terminated" /\ makers' = makers
      BY <1>1, <2>3 DEF Register
    <3>. QED
      BY <2>1, <3>1 DEF TypeOK
  <2>4. CASE r.name \notin Keys(makers)
    <3>1. makers' = makers \cup {<<r.name, r.unit>>} /\ phase' = phase
      BY <1>1, <2>4 DEF Register
    <3>2. \A r2 \in linked \ pending : r2.name # r.name
      <4>. TAKE r2 \in linked \ pending
      <4>1. <<r2.name, r2.unit>> \in makers
        BY <2>1 DEF Pairs
      <4>2. r2.name \in Keys(makers)
        BY <4>1 DEF Keys
      <4>. QED
        BY <4>2, <2>4
    <3>3. makers' = Pairs(linked' \ pending')
      BY <2>1, <2>2, <3>1 DEF Pairs
    <3>4. NamesDistinct(linked' \ pending')
      BY <2>1, <2>2, <3>2 DEF NamesDistinct
    <3>5. <<r.name, r.unit>> \in Names \X Units
      BY DEF Units, RegisteredNames
    <3>6. TypeOK'
      BY <2>1, <3>1, <3>5 DEF TypeOK
    <3>. QED
      BY <2>1, <3>1, <3>3, <3>4, <3>6
  <2>. QED
    BY <2>3, <2>4
<1>2. CASE StartMain
  BY <1>2 DEF StartMain, TypeOK
<1>3. CASE Create
  <2>1. phase = "main" /\ UNCHANGED <<linked, pending, makers>>
    BY <1>3 DEF Create
  <2>2. made' \subseteq makers
    BY <1>3, <2>1 DEF Create, TypeOK
  <2>. QED
    BY <1>3, <2>1, <2>2 DEF Create, TypeOK
<1>4. CASE CreateParameters
  BY <1>4 DEF CreateParameters, TypeOK
<1>5. CASE UNCHANGED vars
  BY <1>5 DEF vars, TypeOK
<1>. QED
  BY <1>1, <1>2, <1>3, <1>4, <1>5 DEF Next

\* The invariant gives the property: the makers of main are the pairs of
\* all linked makers, and no name is held twice.
LEMMA IInvRegistry == IInv => RegistryMatchesLinked
<1>. SUFFICES ASSUME IInv, phase \in {"main", "failed"}
              PROVE  /\ makers = {<<r.name, r.unit>> : r \in linked}
                     /\ \A p, q \in makers : p[1] = q[1] => p = q
  BY DEF RegistryMatchesLinked
<1>1. linked \ pending = linked /\ makers = Pairs(linked)
      /\ NamesDistinct(linked)
  BY DEF IInv
<1>. QED
  BY <1>1 DEF Pairs, NamesDistinct

\* The maker constructor's duplicate check (SaberCentralBlockBase.cc:41-46)
\* makes the registry of main independent of the order in which the
\* static makers of the linked units run: one maker per name, the one
\* its unit registers.
THEOREM RegistryOrderIndependent == Spec => []RegistryMatchesLinked
  BY InitIInv, NextIInv, IInvRegistry, PTL DEF Spec

\* Every state of the registry has the types TypeOK states: getMakers()
\* only ever holds pairs of a configured name and a linked unit, and create
\* only ever calls a maker that getMakers() holds (the end() check of
\* SaberCentralBlockBase.cc before the maker is called).
THEOREM FactoryTypeCorrect == Spec => []TypeOK
<1>1. IInv => TypeOK
  BY DEF IInv
<1>. QED
  BY InitIInv, NextIInv, <1>1, PTL DEF Spec
=============================================================================
