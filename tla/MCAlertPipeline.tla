--------------------------- MODULE MCAlertPipeline ---------------------------
(* Instances of AlertPipeline for TLC: two events of one reaction, and the    *)
(* escalation of the first, which a second reaction handles.                  *)
EXTENDS AlertPipeline

CONSTANTS e1, e2, x1, r1, r2

MCReactionOf == [e \in {e1, e2, x1} |-> IF e = x1 THEN r2 ELSE r1]
MCCooldown == [r \in {r1, r2} |-> IF r = r1 THEN 2 ELSE 0]
MCEscalation == [e \in {e1, e2, x1} |-> IF e = e1 THEN x1 ELSE None]
=============================================================================
