----------------------------- MODULE MCCommand -----------------------------
(* CommandChannel for TLC, with the full list of 20 commands.              *)
EXTENDS CommandChannel

CONSTANTS r1, r2
OneRemote == {r1}
TwoRemotes == {r1, r2}
NoRemote == {}

\* Bound on the noise: four questions and completed packets in all, an event that no
\* command asked for counting as three of them.
Noise == Len(requests) + acls + 3 * other <= 4
=============================================================================
