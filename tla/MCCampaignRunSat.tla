-------------------------- MODULE MCCampaignRunSat --------------------------
(***************************************************************************)
(* Inputs for the model checking of CampaignRunSat.                        *)
(***************************************************************************)
EXTENDS CampaignRunSat

MCInputs == {"bad", "loop"}
MCReporting == {"bad"}
MCHanging == {"loop"}
MCEducated == <<>>
=============================================================================
