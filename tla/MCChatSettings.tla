--------------------------- MODULE MCChatSettings ---------------------------
(* An instance of ChatSettings: the skills check, health-check and trace.   *)
EXTENDS ChatSettingsProps

CONSTANTS m1, m2, here, there

Names == 1 .. 3
Lengths == <<5, 12, 5>>
Mentions == {s \in SUBSET Names : 2 \in s => 1 \in s}
OneSetting == {p \in Patch : \E f \in DOMAIN p : \A g \in DOMAIN p \ {f} : p[g] = Keep}
Bundled == [model |-> m1, auto |-> TRUE, dir |-> here]
=============================================================================
