------------------------------- MODULE MCRegistries -------------------------------
(* The registries and the audit log on small instances.  The libraries share no  *)
(* state, so each behaviour exercises one and leaves the others alone: the state *)
(* space is their sum, not their product.                                        *)
EXTENDS KeyAnchors, KeyLifecycle, AuditLog

VARIABLE part

MCEvent(action, severity) ==
    [actor |-> <<"u">>, action |-> <<action>>, detail |-> <<>>, severity |-> severity]
MCEvents ==
    {MCEvent("f", "Info"), MCEvent("r", "Critical"), MCEvent("r", "Warning"), MCEvent("o", "Info"),
     [MCEvent("o", "Info") EXCEPT !.actor = <<>>],
     [MCEvent("o", "Info") EXCEPT !.actor = <<"u", "o">>, !.action = <<"x">>],
     [MCEvent("o", "Info") EXCEPT !.detail = <<"x">>]}
MCFailure == <<"f">>
MCRevoke == <<"r">>
MCRotation == <<"o">>
MCRatio == <<1, 2>>

Init ==
    /\ part \in {"anchors", "revocations", "rotation", "audit"}
    /\ AnchorInit
    /\ LifeInit
    /\ AuditInit

Next ==
    /\ \/ part = "anchors" /\ AnchorNext /\ UNCHANGED <<lifeVars, auditVars>>
       \/ part = "revocations" /\ RevocationNext /\ UNCHANGED <<anchorVars, auditVars>>
       \/ part = "rotation" /\ RotationNext /\ UNCHANGED <<anchorVars, auditVars>>
       \/ part = "audit" /\ AuditNext /\ UNCHANGED <<anchorVars, lifeVars>>
    /\ UNCHANGED part

Spec == Init /\ [][Next]_<<part, anchorVars, lifeVars, auditVars>>

===================================================================================
