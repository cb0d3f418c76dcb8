--------------------------- MODULE MCFuzzCampaign ---------------------------
(***************************************************************************)
(* Inputs for the model checking of FuzzCampaign: one the SUT solves, one  *)
(* on which it reports undefined behaviour, one on which it does not end.  *)
(***************************************************************************)
EXTENDS FuzzCampaign

MCInputs == {"good", "bad", "loop"}
MCReporting == {"bad"}
MCHanging == {"loop"}
MCEducated == <<"good">>
=============================================================================
