---------------------------- MODULE MCWorkspace ----------------------------
(* A desktop of two application windows, a bar and three outputs.            *)
EXTENDS Workspace, TLC

CONSTANTS app1, app2, bar, m1, m2, m3

MCClients == {app1, app2, bar}
MCDocks == {bar}
MCMonitors == {m1, m2, m3}
MCMasks == {{1}, {2, 3}}

\* Applications are interchangeable and so are outputs.
Symmetry == Permutations({app1, app2}) \cup Permutations(MCMonitors)
=============================================================================
