-------------------------------- MODULE MCDev -------------------------------
(* Dev with two clients, two messages (the DSP has no component for one of *)
(* them) and a serial that wraps after 2 or 3 messages.                      *)
EXTENDS Dev, TLC

CONSTANTS c1, c2, m1, m2, s1

MCClients == {c1, c2}
MCMsgs == {m1, m2}
MCUnknown == {m2}
MCSections == {s1}

Symmetry == Permutations(MCClients)
=============================================================================
