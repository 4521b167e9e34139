------------------------- MODULE MCHybridCovariance -------------------------
(* Model-checking instance of HybridCovariance: up to two hybrid          *)
(* components, chains of up to two outer blocks.                           *)
EXTENDS HybridCovariance

MCCentralBlocks == {"Ensemble", "BUMP_NICAS"}
MCCentralBlocksWithID == {"Ensemble", "ID"}
MCWeightValues == {"default", "1.0", "0.3"}
=============================================================================
