------------------------------ MODULE MCGpuRing ------------------------------
(* A state change, a draw that shows it, a frame end with its callback, and an upload *)
(* longer than payloadBuf; payloads of 0 to 3 cells.                                   *)
EXTENDS GpuRing

C(t, v, n) == [type |-> t, val |-> v, len |-> n, fits |-> TRUE]
RingCmd == { C("BIND_SHADER", 1, 2), C("DRAW", 0, 1), C("PRESENT", 0, 0), C("UPLOAD_TEX", 2, 3) }
NoCmd == C("NOP", 0, 0)
=============================================================================
