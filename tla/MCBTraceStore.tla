--------------------------- MODULE MCBTraceStore ----------------------------
(* Model-checking instance of BTraceStore: a ring of three slots, two     *)
(* labels, and enough captures for the ring to wrap.                      *)
EXTENDS BTraceStore

CONSTANTS gc, crash

MCLabels == {gc, crash}
MCSaveTraces == 3
MCMaxStores == 3
MCMaxSaves == 4
=============================================================================
