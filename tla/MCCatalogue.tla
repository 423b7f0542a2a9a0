----------------------------- MODULE MCCatalogue -----------------------------
(***************************************************************************)
(* An instance of the catalogue for TLC: two requests over three stages,   *)
(* two pipelines, a lead and a member.                                     *)
(***************************************************************************)
EXTENDS CatalogueProofs, TLC

\* Two stages to move between, and one the Logistics workflow reserves.
MCNames == {"New", "Hot", WON}

StageOps == {"CREATE_STAGE", "RENAME_STAGE", "REORDER", "REMOVE_STAGE"}
PipelineOps == {"CREATE_PIPELINE", "RENAME_PIPELINE", "SET_DEFAULT", "REMOVE_PIPELINE"}
MemberOps == {"MOVE_LEAD", "EDIT_LEAD", "CHANGE_PIPELINE", "CREATE_LEAD", "SET_GRANTS"}
AllOps == StageOps \cup PipelineOps \cup MemberOps

Symmetry == Permutations(Requests) \cup Permutations(StageIds) \cup Permutations(PipelineIds)
==============================================================================
