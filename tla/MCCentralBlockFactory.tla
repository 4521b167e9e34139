------------------------ MODULE MCCentralBlockFactory ------------------------
(* The three central block makers under src/, and a second maker of "ID" *)
(* as a build that links two blocks of one name would have; any subset  *)
(* of them may be linked.                                                *)
EXTENDS CentralBlockFactory

MCRegistrations ==
  {[unit |-> "part_004", name |-> "ID"],
   [unit |-> "part_001_spectral", name |-> "spectral correlation"],
   [unit |-> "part_001_spnointerp", name |-> "SPNOINTERP_COV"],
   [unit |-> "other_id", name |-> "ID"]}
MCNames == {"ID", "spectral correlation", "SPNOINTERP_COV", "Hybrid"}
=============================================================================
