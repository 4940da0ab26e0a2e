------------------------------ MODULE Platform -------------------------------
(* What reaches people, what a run reads, does, saves and costs, what is      *)
(* listed, and how the processes and their sweeps are set up: parts of the    *)
(* platform that share no variable.  A step of the platform is a step of one  *)
(* of them, in any order.                                                     *)
EXTENDS ChannelDelivery, Knowledge, ToolCalls, ModelCalls, Processes, Listings, Checkpoints,
        Partitions, DocSandbox, Compaction, Recall

vars == <<deliveryVars, libraryVars, toolVars, costVars, deploymentVars, listingVars, saveVars,
          logVars, boxVars, foldVars, recallVars>>

Init ==
    /\ DeliveryInit /\ LibraryInit /\ ToolInit /\ CostInit /\ DeploymentInit /\ ListingInit
    /\ SaveInit /\ LogInit /\ BoxInit /\ FoldInit /\ RecallInit

\* The parts other than p stay as they are.
Rest(p) ==
    /\ p # "delivery" => UNCHANGED deliveryVars
    /\ p # "knowledge" => UNCHANGED libraryVars
    /\ p # "tool calls" => UNCHANGED toolVars
    /\ p # "model calls" => UNCHANGED costVars
    /\ p # "deployment" => UNCHANGED deploymentVars
    /\ p # "listings" => UNCHANGED listingVars
    /\ p # "checkpoints" => UNCHANGED saveVars
    /\ p # "partitions" => UNCHANGED logVars
    /\ p # "sandbox" => UNCHANGED boxVars
    /\ p # "compaction" => UNCHANGED foldVars
    /\ p # "recall" => UNCHANGED recallVars

Delivering == DeliveryNext /\ Rest("delivery")
Library == LibraryNext /\ Rest("knowledge")
ToolSteps == ToolNext /\ Rest("tool calls")
ModelSteps == CostNext /\ Rest("model calls")
Deployment == DeploymentNext /\ Rest("deployment")
Pages == ListingNext /\ Rest("listings")
Saves == SaveNext /\ Rest("checkpoints")
AuditLog == LogNext /\ Rest("partitions")
Sandbox == BoxNext /\ Rest("sandbox")
Compacting == FoldNext /\ Rest("compaction")
Recalling == RecallNext /\ Rest("recall")

Next ==
    \/ Delivering \/ Library \/ ToolSteps \/ ModelSteps \/ Deployment \/ Pages \/ Saves
    \/ AuditLog \/ Sandbox \/ Compacting \/ Recalling

Spec == Init /\ [][Next]_vars

-----------------------------------------------------------------------------
\* Every variable of every part has its type and keeps within its bounds.
PartsTypeOK ==
    /\ DeliveryTypeOK /\ LibraryTypeOK /\ ToolTypeOK /\ CostTypeOK /\ DeploymentTypeOK
    /\ ListingTypeOK /\ SaveTypeOK /\ LogTypeOK /\ BoxTypeOK /\ FoldTypeOK /\ RecallTypeOK

\* The indexes show what the rows say, once nothing is under way, and hide
\* nothing from a run that asks (Knowledge, Recall).
IndexMatchesRows == StoresAgree /\ RecallIsExact
=============================================================================
