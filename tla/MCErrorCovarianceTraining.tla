------------------------ MODULE MCErrorCovarianceTraining ------------------------
(* Ensembles of up to two members drawn from {0, 1}; driver sets with and *)
(* without a low-resolution driver and the iterative algorithm; operator *)
(* applications that succeed, and one whose second operator is unknown;    *)
(* outputs on either geometry.                                             *)
EXTENDS ErrorCovarianceTraining

MCDriverChoices ==
  {{}, {"compute_cov2"}, {"iterative_algo", "new_var"},
   {"iterative_algo", "new_mom", "compute_loc2"}}
MCAppChoices ==
  {<<>>, <<<<"inverseMultiplyVbal">>>>,
   <<<<"inverseMultiplyVbal">>, <<"multiplyNicas">>>>}
MCOutputChoices == {<<>>, <<"loc_rh_lr", "cor_rh">>}
=============================================================================
