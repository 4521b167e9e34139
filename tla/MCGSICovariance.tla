--------------------------- MODULE MCGSICovariance ---------------------------
(* Two time slots; GSI variables with a repair in either space ('tv',     *)
(* 'prse', and 'ts', whose absence enters the SST block of cvfix_, which   *)
(* marks 'sst'), and one without ('q'); guess variables 'ps' and 'q'.     *)
EXTENDS GSICovariance

MCGVars == {"tv", "q", "prse", "sst", "ts"}
MCMetVars == {"ps", "q"}
=============================================================================
