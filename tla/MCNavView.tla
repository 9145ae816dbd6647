----------------------------- MODULE MCNavView -----------------------------
(* Two devices, one of them removable and with a subdirectory.             *)
EXTENDS NavView, TLC

MCPaths == {"A", "A/d", "B"}
MCUp == [p \in MCPaths |-> IF p = "A/d" THEN "A" ELSE p]
MCRootOf == MCUp

\* Nothing tells the encodings apart.
EncSymmetry == Permutations(Encodings)

\* One directory only.
OnePath == {"B"}
OneUp == [p \in OnePath |-> p]
=============================================================================
