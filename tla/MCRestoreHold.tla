----------------------------- MODULE MCRestoreHold -----------------------------
(* Instances of RestoreHold for TLC. *)
EXTENDS RestoreHold

\* The first replica's clock is right, any other is behind by the slack.
OthersBehind == [r \in HoldReplicas |-> IF r = 1 THEN 0 ELSE Slack]
================================================================================
