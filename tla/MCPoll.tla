------------------------------- MODULE MCPoll -------------------------------
\* Instances of Poll for TLC.
EXTENDS Poll

CONSTANTS k1, k2, k3, k4, c1, c2

FourKeys == {k1, k2, k3, k4}
TwoContracts == {c1, c2}
TwoRelations == {<<c1, k1>>, <<c2, k2>>}
OnePunctual == {<<c1, k1>>}
=============================================================================
