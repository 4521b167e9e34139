------------------------- MODULE GSICovarianceProofs -------------------------
(***************************************************************************)
(* Proofs about the GSI central block: the type invariant, and that the   *)
(* status checks of create and multiply let through unset only the pairs  *)
(* of time slots before the last one, for any number of slots and any     *)
(* sets of GSI and guess variables.                                        *)
(***************************************************************************)
EXTENDS GSICovariance, TLAPS

Status == {"filled", "missing"}

\* The status vector of the slot loop has one entry per variable.
LEMMA SlotStatusType ==
  ASSUME NEW vs, NEW fields
  PROVE  SlotStatus(vs, fields) \in [vs -> Status]
  BY DEF SlotStatus, Status

\* Marking an entry filled keeps the variables of a status vector.
LEMMA MarkType ==
  ASSUME NEW D, NEW need \in [D -> Status], NEW v
  PROVE  Mark(need, v) \in [D -> Status]
  BY DEF Mark, Status

\* The repairs of cvfix_ and svfix_ only turn entries to "filled".
LEMMA FixType ==
  ASSUME NEW D, NEW need \in [D -> Status], NEW c \in BOOLEAN
  PROVE  Fix(c, need) \in [D -> Status]
<1>1. CvFix(need) \in [D -> Status]
  <2>1. (IF "tv" \in DOMAIN need /\ need["tv"] = "missing"
         THEN Mark(need, "tv") ELSE need) \in [D -> Status]
    BY MarkType
  <2>. QED
    BY <2>1, MarkType DEF CvFix
<1>2. SvFix(need) \in [D -> Status]
  BY MarkType DEF SvFix
<1>. QED
  BY <1>1, <1>2 DEF Fix

\* The pairs reaching GSI unset are pairs of a slot and a variable.
LEMMA UnsetType ==
  ASSUME NEW vs, NEW fields, NEW r
  PROVE  Unset(vs, fields, r) \subseteq Slots \X vs
  BY DEF Unset

\* The heart of the check: once every entry of the repaired status vector
\* is filled, no variable missing from the last slot is left unset, since
\* it was "missing" in the vector and so was repaired.
LEMMA CheckedSlot ==
  ASSUME NEW vs, NEW fields, NEW c \in BOOLEAN,
         AllFilled(Fix(c, SlotStatus(vs, fields)))
  PROVE  \A p \in Unset(vs, fields, Repaired(c, SlotStatus(vs, fields))) :
           p[1] # NTimes
<1>. DEFINE need == SlotStatus(vs, fields)
<1>1. Fix(c, need) \in [vs -> Status]
  BY SlotStatusType, FixType
<1>. TAKE p \in Unset(vs, fields, Repaired(c, need))
<1>2. /\ p \in Slots \X vs
      /\ ~Has(fields[p[1]], p[2])
      /\ p[2] \notin Repaired(c, need)
  BY DEF Unset
<1>3. SUFFICES ASSUME p[1] = NTimes PROVE FALSE
  OBVIOUS
<1>4. need[p[2]] = "missing"
  BY <1>2, <1>3 DEF SlotStatus
<1>5. Fix(c, need)[p[2]] = "filled"
  BY <1>1, <1>2 DEF AllFilled
<1>6. p[2] \in DOMAIN need
  BY <1>2, SlotStatusType
<1>. QED
  BY <1>2, <1>4, <1>5, <1>6 DEF Repaired

\* The create check, for the guess variables.
LEMMA CreateChecked ==
  ASSUME NEW fg, AllFilled(SlotStatus(MetVars, fg))
  PROVE  \A p \in Unset(MetVars, fg, {}) : p[1] # NTimes
<1>. TAKE p \in Unset(MetVars, fg, {})
<1>1. p \in Slots \X MetVars /\ ~Has(fg[p[1]], p[2])
  BY DEF Unset
<1>. QED
  BY <1>1 DEF AllFilled, SlotStatus

(***************************************************************************)
(* The inductive invariant: before create no pair has reached GSI.         *)
(***************************************************************************)
IInv ==
  /\ TypeOK
  /\ LastSlotComplete
  /\ phase = "unbuilt" => guessUnset = {} /\ fedUnset = {}

LEMMA InitIInv == Init => IInv
  BY CallsAssumption DEF Init, IInv, TypeOK, LastSlotComplete

LEMMA NextIInv == IInv /\ [Next]_vars => IInv'
<1>. SUFFICES ASSUME IInv, [Next]_vars PROVE IInv'
  OBVIOUS
<1>. USE NTimesAssumption, CallsAssumption DEF IInv, TypeOK
<1>1. CASE Create
  <2>1. PICK bkgmock \in BOOLEAN, fg \in [Slots -> SUBSET AllFields] :
          IF noGSI \/ bkgmock
          THEN /\ phase' = "ready"
               /\ UNCHANGED guessUnset
          ELSE /\ guessUnset' = Unset(MetVars, fg, {})
               /\ phase' = IF AllFilled(SlotStatus(MetVars, fg))
                           THEN "ready" ELSE "aborted"
    BY <1>1 DEF Create
  <2>2. UNCHANGED <<noGSI, cv, fedUnset, calls, sample>> /\ phase = "unbuilt"
    BY <1>1 DEF Create
  <2>3. CASE noGSI \/ bkgmock
    BY <2>1, <2>2, <2>3 DEF LastSlotComplete
  <2>4. CASE ~(noGSI \/ bkgmock)
    <3>1. guessUnset' \subseteq Slots \X MetVars
      BY <2>1, <2>4, UnsetType
    <3>2. phase' = "ready" => \A p \in guessUnset' : p[1] # NTimes
      BY <2>1, <2>4, CreateChecked
    <3>3. \A p \in guessUnset' : p[1] \in 1..NTimes
      BY <3>1 DEF Slots
    <3>. QED
      BY <2>1, <2>2, <2>4, <3>1, <3>2, <3>3 DEF LastSlotComplete
  <2>. QED
    BY <2>3, <2>4
<1>2. CASE Multiply
  <2>1. phase = "ready" /\ calls' = calls + 1 /\ calls < MaxCalls
        /\ UNCHANGED <<noGSI, cv, guessUnset, sample>>
    BY <1>2 DEF Multiply
  <2>2. CASE noGSI
    BY <1>2, <2>1, <2>2 DEF Multiply, LastSlotComplete
  <2>3. CASE ~noGSI
    <3>1. PICK fields \in [Slots -> SUBSET AllFields] :
            LET tbd == SlotStatus(GVars, fields)
            IN  IF TvFixCrashes(tbd, fields)
                THEN /\ phase' = "crashed"
                     /\ UNCHANGED fedUnset
                ELSE IF ~AllFilled(Fix(cv, tbd))
                THEN /\ phase' = "aborted"
                     /\ UNCHANGED fedUnset
                ELSE /\ fedUnset' = Unset(GVars, fields, Repaired(cv, tbd))
                     /\ UNCHANGED phase
      BY <1>2, <2>3 DEF Multiply
    <3>. DEFINE tbd == SlotStatus(GVars, fields)
    <3>2. CASE TvFixCrashes(tbd, fields) \/ ~AllFilled(Fix(cv, tbd))
      BY <2>1, <3>1, <3>2 DEF LastSlotComplete
    <3>3. CASE ~TvFixCrashes(tbd, fields) /\ AllFilled(Fix(cv, tbd))
      <4>1. fedUnset' = Unset(GVars, fields, Repaired(cv, tbd)) /\ phase' = "ready"
        BY <2>1, <3>1, <3>3
      <4>2. fedUnset' \subseteq Slots \X GVars
        BY <4>1, UnsetType
      <4>3. \A p \in fedUnset' : p[1] # NTimes
        BY <4>1, <3>3, CheckedSlot
      <4>4. \A p \in fedUnset' : p[1] \in 1..NTimes
        BY <4>2 DEF Slots
      <4>. QED
        BY <2>1, <4>1, <4>2, <4>3, <4>4 DEF LastSlotComplete
    <3>. QED
      BY <3>2, <3>3
  <2>. QED
    BY <2>2, <2>3
<1>3. CASE Randomize
  <2>1. PICK has \in {{"stream_function"}, {"eastward_wind"}, {}} :
          \/ /\ sample' = [fields |-> has, seed |-> 3]
             /\ UNCHANGED phase
          \/ /\ has = {}
             /\ phase' = "crashed"
             /\ UNCHANGED sample
    BY <1>3 DEF Randomize
  <2>2. [fields |-> has, seed |-> 3] \in Samples
    BY DEF Samples
  <2>. QED
    BY <1>3, <2>1, <2>2 DEF Randomize, LastSlotComplete
<1>4. CASE Done
  BY <1>4 DEF Done, vars, LastSlotComplete
<1>5. CASE UNCHANGED vars
  BY <1>5 DEF vars, LastSlotComplete
<1>. QED
  BY <1>1, <1>2, <1>3, <1>4, <1>5 DEF Next

\* The status checks of create (part_003:195-202) and multiply
\* (part_003:480-485) guarantee, in every reachable state and for every
\* number of time slots, that whatever reaches GSI unset after a
\* successful create or multiply belongs to a slot before the last one.
THEOREM LastSlotChecked == Spec => []LastSlotComplete
<1>1. Init => IInv
  BY InitIInv
<1>2. IInv /\ [Next]_vars => IInv'
  BY NextIInv
<1>3. IInv => LastSlotComplete
  BY DEF IInv
<1>. QED
  BY <1>1, <1>2, <1>3, PTL DEF Spec

\* Every reachable state of the GSI block is well typed: the phase, the
\* unset pairs of create and multiply, the call count and the sample.
THEOREM GSITypeCorrect == Spec => []TypeOK
<1>1. IInv => TypeOK
  BY DEF IInv
<1>. QED
  BY InitIInv, NextIInv, <1>1, PTL DEF Spec
=============================================================================
