-------------------------- MODULE MCTemplateVersion --------------------------
(***************************************************************************)
(* TemplateVersion for TLC: one deployment without gbt_force and one with  *)
(* it, clients that list neither, one or both, and three tips, enough for  *)
(* each deployment to go from DEFINED to ACTIVE.                           *)
(***************************************************************************)
EXTENDS TemplateVersion

CONSTANTS dep1, dep2

MCDeployments == <<dep1, dep2>>
MCForce == {dep2}
MCRuleSets == {{}, {dep1}, {dep1, dep2}}
MCMaxTip == 3
====
