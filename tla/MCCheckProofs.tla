---------------------------- MODULE MCCheckProofs ----------------------------
EXTENDS CheckProofs
CONSTANTS p1, p2, b1, b2, b3, b4, b5, b6, ip1, ip2
MCHome == [p \in Providers |-> IF p = p1 THEN ip1 ELSE NoIP]
MCBags == [p \in Providers |-> IF p = p1 THEN {b1, b2, b3, b4, b5, b6} ELSE {b1, b2}]
MCOutages == [p \in Providers |-> IF p = p1 THEN {{}} ELSE {{}, {"PingFailed"}, {"InvalidHeader", "CantGetPiece"}}]
=============================================================================
