------------------------------ MODULE HydroBal ------------------------------
(***************************************************************************)
(* saber::HydroBalSaberBlock (src/src/saber/vader/HydroBalSaberBlock.cc):  *)
(* the "mo_hydro_bal" outer block.  Its constructor checks the variables,  *)
(* collects the fields of the background state xb it linearises about into *)
(* augmentedStateFieldSet_, evaluates the derived fields in it, and adds    *)
(* the geometry's height levels; multiply, inverseMultiply and their        *)
(* adjoints hand a field set to the mo:: linear operators with that        *)
(* trajectory; randomize is not implemented.                               *)
(*                                                                         *)
(* An atlas field set holds field handles: add(xb[s]) shares the data of   *)
(* xb's field s.  A field is modelled by the provenance of its data: "file" *)
(* as the caller passed it, or the mo:: function that last wrote it.  The  *)
(* mo:: functions are not under src/; what each writes is what the comments *)
(* of lines 79-83 say it populates.  The norm loops only print, and are    *)
(* left out.                                                               *)
(***************************************************************************)
EXTENDS Naturals, Sequences

CONSTANTS
  Vars,        \* variable names the configuration may list
  MaxCalls     \* most multiply / inverse / adjoint calls checked

ASSUME MaxCallsAssumption == MaxCalls \in Nat

\* Lines 73-84.
RequiredStateVariables ==
  {"air_temperature", "air_pressure", "potential_temperature", "exner",
   "m_v", "m_ci", "m_cl", "m_r", "m_t", "svp", "dlsvpdT", "qsat",
   "specific_humidity", "virtual_potential_temperature"}

\* Lines 103-108, in call order, with the fields each populates.
Evals ==
  <<[fn |-> "evalAirTemperature", out |-> {"air_temperature"}],
    [fn |-> "evalTotalMassMoistAir", out |-> {"m_t"}],
    [fn |-> "evalSatVaporPressure", out |-> {"svp", "dlsvpdT"}],
    [fn |-> "evalSatSpecificHumidity", out |-> {"qsat"}],
    [fn |-> "evalSpecificHumidity", out |-> {"specific_humidity"}],
    [fn |-> "evalVirtualPotentialTemperature", out |-> {"virtual_potential_temperature"}]>>

EvalNames == {Evals[i].fn : i \in DOMAIN Evals}

\* The provenance of field s after the evaluations of lines 103-108 have
\* run on a field whose data was p: the last evaluation that writes s.
Evaluated(s, p) ==
  IF \E i \in DOMAIN Evals : s \in Evals[i].out
  THEN Evals[CHOOSE i \in DOMAIN Evals :
               /\ s \in Evals[i].out
               /\ \A k \in DOMAIN Evals : s \in Evals[k].out => k <= i].fn
  ELSE p

\* The linear operators of lines 161, 181, 189 and 197.
Operators == {"hexner2ThetavTL", "thetavP2HexnerTL", "hexner2ThetavAD",
              "thetavP2HexnerAD"}

VARIABLES
  phase,      \* "unbuilt", "ready" or "aborted"
  xb0,        \* the background state as the caller built it
  xb,         \* the caller's background state: field name -> provenance
  aug,        \* augmentedStateFieldSet_: the names of the xb fields it shares
  calls       \* the operators applied, each with the trajectory it read

vars == <<phase, xb0, xb, aug, calls>>

\* The data the operators read through augmentedStateFieldSet_.
Trajectory == [s \in aug |-> xb[s]]

Init ==
  /\ phase = "unbuilt"
  /\ \E fields \in {RequiredStateVariables} \cup
                   {RequiredStateVariables \ {s} : s \in RequiredStateVariables} :
       xb0 = [s \in fields |-> "file"]
  /\ xb = xb0
  /\ aug = {}
  /\ calls = <<>>

\* Mutant: a field missing from xb only logged, as at line 92.
ConstructIgnoringMissing ==
  /\ phase = "unbuilt"
  /\ \E inputVars, outputVars \in SUBSET Vars,
       activeVars \in {<<>>} \cup {<<a>> : a \in SUBSET Vars} :
       IF \/ inputVars # outputVars
          \/ \E i \in DOMAIN activeVars : ~(activeVars[i] \subseteq inputVars)
       THEN /\ phase' = "aborted"
            /\ UNCHANGED <<xb, aug>>
       ELSE /\ aug' = RequiredStateVariables
            /\ xb' = [s \in DOMAIN xb |-> Evaluated(s, xb[s])]
            /\ phase' = "ready"
  /\ UNCHANGED <<xb0, calls>>

\* Lines 44-126.  The optional "active variables" is a sequence of length
\* zero or one.  The ASSERTs of lines 61 and 68 fail on variables that
\* differ or on active variables outside the inputs; a missing field is
\* only logged at line 92, and xb[s] then throws at line 99.  The height
\* levels come from extraFields and are not part of xb.
Construct ==
  /\ phase = "unbuilt"
  /\ \E inputVars, outputVars \in SUBSET Vars,
       activeVars \in {<<>>} \cup {<<a>> : a \in SUBSET Vars} :
       IF \/ inputVars # outputVars
          \/ \E i \in DOMAIN activeVars : ~(activeVars[i] \subseteq inputVars)
          \/ ~(RequiredStateVariables \subseteq DOMAIN xb)
       THEN /\ phase' = "aborted"
            /\ UNCHANGED <<xb, aug>>
       ELSE /\ aug' = RequiredStateVariables
            /\ xb' = [s \in DOMAIN xb |-> Evaluated(s, xb[s])]
            /\ phase' = "ready"
  /\ UNCHANGED <<xb0, calls>>

\* Lines 146-199: multiply, inverseMultiply, multiplyAD, inverseMultiplyAD.
Apply ==
  /\ phase = "ready"
  /\ Len(calls) < MaxCalls
  /\ \E op \in Operators :
       calls' = Append(calls, [op |-> op, traj |-> Trajectory])
  /\ UNCHANGED <<phase, xb0, xb, aug>>

\* Lines 138-142: NotImplemented.
Randomize ==
  /\ phase = "ready"
  /\ phase' = "aborted"
  /\ UNCHANGED <<xb0, xb, aug, calls>>

Next == Construct \/ Apply \/ Randomize

Spec == Init /\ [][Next]_vars

-----------------------------------------------------------------------------
Provenances == {"file"} \cup EvalNames

TypeOK ==
  /\ phase \in {"unbuilt", "ready", "aborted"}
  /\ DOMAIN xb0 \subseteq RequiredStateVariables
  /\ xb0 \in [DOMAIN xb0 -> {"file"}]
  /\ xb \in [DOMAIN xb0 -> Provenances]
  /\ aug \subseteq DOMAIN xb
  /\ calls \in Seq([op : Operators, traj : [RequiredStateVariables -> Provenances]])
  /\ Len(calls) <= MaxCalls

\* Spec 3: field sets pass through the chain by value, and the constructor
\* takes xb as a const reference: building the block leaves the caller's
\* background state as it was.
BackgroundUnchanged == xb = xb0
=============================================================================
