----------------------- MODULE MCSpectralCorrelation -----------------------
(* Truncation 1 with both zonal wavenumbers on one rank (six rows), two   *)
(* levels, one active and one passive variable, two MPI tasks.            *)
EXTENDS SpectralCorrelation

CONSTANTS v1, v2, r0, r1

MCVars == {v1, v2}
MCActiveVars == {v1}
MCRanks == {r0, r1}
MCZonal == <<0, 1>>
MCCorrVals == {-1, 0}

\* A field set with one nonzero value, and the constant field set.
UnitField(v, i, l) ==
  [w \in MCVars |-> [j \in Rows |-> [k \in Levels |->
     IF <<w, j, k>> = <<v, i, l>> THEN 1 ELSE 0]]]
ConstField(a) == [w \in MCVars |-> [j \in Rows |-> [k \in Levels |-> a]]]

MCTestFields ==
  {ConstField(1), UnitField(v1, 3, 2), UnitField(v1, 6, 1)}
=============================================================================
