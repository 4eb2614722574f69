------------------------------ MODULE MCGpuCore ------------------------------
EXTENDS GpuCore

C(t, v, n) == [type |-> t, val |-> v, len |-> n, fits |-> TRUE]

\* Payloads of whole 64-bit words, as SET_VIEWPORT and SET_SCISSOR have them; the shader
\* is one word longer than an index of 2 bits counts.
WordCmd == { C("SET_VIEWPORT", 1, 6), C("SET_SCISSOR", 2, 4), C("PRESENT", 0, 0),
             C("UPLOAD_SHADER", 3, 8) }

\* SET_RASTER and SET_DEPTH: three fields of 32 bits.
OddCmd == { C("SET_RASTER", 1, 3), C("PRESENT", 0, 0) }

NoCmd == C("NOP", 0, 0)
=============================================================================
