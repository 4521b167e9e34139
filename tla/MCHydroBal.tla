---------------------------- MODULE MCHydroBal ----------------------------
(* Model-checking instance of HydroBal: two configurable variables, up to *)
(* three operator calls after construction.                                *)
EXTENDS HydroBal

MCVars == {"eastward_wind", "hydrostatic_exner_levels"}
=============================================================================
