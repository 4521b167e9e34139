----------------------------- MODULE HydroBalProofs -----------------------------
(***************************************************************************)
(* Proof that every state of the HydroBal block is well typed, for every  *)
(* set of configurable variables, every background state and any number  *)
(* of calls: augmentedStateFieldSet_ only shares fields of xb, and each    *)
(* field holds the data of the caller or of one of the mo:: evaluations.   *)
(***************************************************************************)
EXTENDS HydroBal, TLAPS

(***************************************************************************)
(* Facts about the evaluations of lines 103-108: no two write one field,   *)
(* so the provenance of a field is that of the one evaluation writing it.  *)
(***************************************************************************)
LEMMA EvalsShape ==
  /\ DOMAIN Evals = 1..6
  /\ \A i, k \in 1..6 : i # k => Evals[i].out \cap Evals[k].out = {}
<1>1. DOMAIN Evals = 1..6
  BY DEF Evals
<1>2. /\ Evals[1].out = {"air_temperature"}
      /\ Evals[2].out = {"m_t"}
      /\ Evals[3].out = {"svp", "dlsvpdT"}
      /\ Evals[4].out = {"qsat"}
      /\ Evals[5].out = {"specific_humidity"}
      /\ Evals[6].out = {"virtual_potential_temperature"}
  BY DEF Evals
<1>3. \A i, k \in 1..6 : i # k => Evals[i].out \cap Evals[k].out = {}
  BY <1>2, SMTT(30)
<1>. QED
  BY <1>1, <1>3

\* A field written by evaluation i ends with i's provenance.
LEMMA EvaluatedWriter ==
  ASSUME NEW s, NEW p, NEW i \in 1..6, s \in Evals[i].out
  PROVE  Evaluated(s, p) = Evals[i].fn
<1>1. \A k \in 1..6 : s \in Evals[k].out => k = i
  BY EvalsShape
<1>2. /\ s \in Evals[i].out
      /\ \A k \in DOMAIN Evals : s \in Evals[k].out => k <= i
  BY <1>1, EvalsShape
<1>3. (CHOOSE j \in DOMAIN Evals :
         /\ s \in Evals[j].out
         /\ \A k \in DOMAIN Evals : s \in Evals[k].out => k <= j) = i
  BY <1>1, <1>2, EvalsShape
<1>. QED
  BY <1>2, <1>3, EvalsShape DEF Evaluated

\* A field no evaluation writes keeps the data it had.
LEMMA EvaluatedKeeps ==
  ASSUME NEW s, NEW p, \A i \in 1..6 : s \notin Evals[i].out
  PROVE  Evaluated(s, p) = p
BY EvalsShape DEF Evaluated

\* The evaluations leave every field with a provenance.
LEMMA EvaluatedType ==
  ASSUME NEW s, NEW p \in Provenances
  PROVE  Evaluated(s, p) \in Provenances
<1>1. CASE \E i \in 1..6 : s \in Evals[i].out
  <2>1. PICK i \in 1..6 : s \in Evals[i].out
    BY <1>1
  <2>2. Evaluated(s, p) = Evals[i].fn
    BY <2>1, EvaluatedWriter
  <2>. QED
    BY <2>2, EvalsShape DEF Provenances, EvalNames
<1>2. CASE ~\E i \in 1..6 : s \in Evals[i].out
  BY <1>2, EvaluatedKeeps
<1>. QED
  BY <1>1, <1>2

(***************************************************************************)
(* The inductive invariant.  Before construction the background is as the *)
(* caller passed it and no operator has run; once the block is ready, its  *)
(* augmented set shares every required field of the background, and the   *)
(* background holds what the evaluations made of the caller's fields.     *)
(***************************************************************************)
IInv ==
  /\ TypeOK
  /\ phase = "unbuilt" => xb = xb0 /\ calls = <<>>
  /\ phase = "ready" =>
       /\ RequiredStateVariables \subseteq DOMAIN xb0
       /\ aug = RequiredStateVariables
       /\ xb = [s \in DOMAIN xb0 |-> Evaluated(s, xb0[s])]

\* A field as the caller passed it has a provenance.
LEMMA FileProvenance ==
  "file" \in Provenances
BY DEF Provenances

\* The block starts in the inductive invariant.
LEMMA InitIInv == Init => IInv
<1>. SUFFICES ASSUME Init PROVE IInv
  OBVIOUS
<1>1. PICK fields \in {RequiredStateVariables} \cup
                     {RequiredStateVariables \ {s} : s \in RequiredStateVariables} :
        xb0 = [s \in fields |-> "file"]
  BY DEF Init
<1>2. fields \subseteq RequiredStateVariables
  BY <1>1
<1>3. TypeOK
  BY <1>1, <1>2, FileProvenance, MaxCallsAssumption DEF Init, TypeOK
<1>. QED
  BY <1>3 DEF Init, IInv

\* Every constructor, operator and randomize step keeps it.
LEMMA NextIInv == IInv /\ [Next]_vars => IInv'
<1>. SUFFICES ASSUME IInv, [Next]_vars PROVE IInv'
  OBVIOUS
<1>. USE DEF IInv
<1>1. CASE Construct
  <2>1. PICK inputVars \in SUBSET Vars, outputVars \in SUBSET Vars,
             activeVars \in {<<>>} \cup {<<a>> : a \in SUBSET Vars} :
          IF \/ inputVars # outputVars
             \/ \E i \in DOMAIN activeVars : ~(activeVars[i] \subseteq inputVars)
             \/ ~(RequiredStateVariables \subseteq DOMAIN xb)
          THEN /\ phase' = "aborted"
               /\ UNCHANGED <<xb, aug>>
          ELSE /\ aug' = RequiredStateVariables
               /\ xb' = [s \in DOMAIN xb |-> Evaluated(s, xb[s])]
               /\ phase' = "ready"
    BY <1>1 DEF Construct
  <2>2. /\ phase = "unbuilt" /\ xb = xb0 /\ calls = <<>>
        /\ UNCHANGED <<xb0, calls>>
    BY <1>1 DEF Construct
  <2>3. CASE \/ inputVars # outputVars
             \/ \E i \in DOMAIN activeVars : ~(activeVars[i] \subseteq inputVars)
             \/ ~(RequiredStateVariables \subseteq DOMAIN xb)
    <3>1. phase' = "aborted" /\ UNCHANGED <<xb, aug, xb0, calls>>
      BY <2>1, <2>2, <2>3
    <3>. QED
      BY <3>1 DEF TypeOK
  <2>4. CASE ~(\/ inputVars # outputVars
               \/ \E i \in DOMAIN activeVars : ~(activeVars[i] \subseteq inputVars)
               \/ ~(RequiredStateVariables \subseteq DOMAIN xb))
    <3>1. /\ aug' = RequiredStateVariables
          /\ xb' = [s \in DOMAIN xb0 |-> Evaluated(s, xb0[s])]
          /\ phase' = "ready"
          /\ RequiredStateVariables \subseteq DOMAIN xb0
      BY <2>1, <2>2, <2>4
    <3>2. \A s \in DOMAIN xb0 : Evaluated(s, xb0[s]) \in Provenances
      BY FileProvenance, EvaluatedType DEF TypeOK
    <3>3. TypeOK'
      BY <2>2, <3>1, <3>2 DEF TypeOK
    <3>. QED
      BY <2>2, <3>1, <3>3
  <2>. QED
    BY <2>3, <2>4
<1>2. CASE Apply
  <2>1. PICK op \in Operators : calls' = Append(calls, [op |-> op, traj |-> Trajectory])
    BY <1>2 DEF Apply
  <2>2. /\ phase = "ready" /\ Len(calls) < MaxCalls
        /\ UNCHANGED <<phase, xb0, xb, aug>>
    BY <1>2 DEF Apply
  <2>3. Trajectory = [s \in RequiredStateVariables |-> Evaluated(s, "file")]
    BY <2>2 DEF Trajectory, TypeOK
  <2>4. Trajectory \in [RequiredStateVariables -> Provenances]
    BY <2>3, FileProvenance, EvaluatedType
  <2>6. TypeOK'
    BY <2>1, <2>2, <2>4, MaxCallsAssumption DEF TypeOK
  <2>. QED
    BY <2>2, <2>6
<1>3. CASE Randomize
  BY <1>3 DEF Randomize, TypeOK
<1>4. CASE UNCHANGED vars
  BY <1>4 DEF vars, TypeOK
<1>. QED
  BY <1>1, <1>2, <1>3, <1>4 DEF Next

\* Every reachable state of the HydroBal block is well typed.
THEOREM HydroBalTypeCorrect == Spec => []TypeOK
<1>1. IInv => TypeOK
  BY DEF IInv
<1>. QED
  BY <1>1, InitIInv, NextIInv, PTL DEF Spec
=============================================================================
