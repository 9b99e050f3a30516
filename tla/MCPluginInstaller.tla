------------------------- MODULE MCPluginInstaller -------------------------
\* Two threads of one process or of two. Which process the first is of does
\* not matter, nor which version is there first.
EXTENDS PluginInstaller

CONSTANTS w1, p1, v1

MCInit == Init /\ process[w1] = p1 /\ \A f \in DOMAIN files : f[1] = v1
MCSpec == MCInit /\ [][Next]_vars /\ Fairness
=============================================================================
