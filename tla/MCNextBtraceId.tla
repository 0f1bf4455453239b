--------------------------- MODULE MCNextBtraceId ---------------------------
(* Model-checking instance of NextBtraceId: a ring of three slots, the     *)
(* thread plus two nested handlers, and enough calls for the ring to wrap. *)
EXTENDS NextBtraceId

MCSaveTraces == 3
MCLevels == 3
MCMaxCalls == 5
=============================================================================
