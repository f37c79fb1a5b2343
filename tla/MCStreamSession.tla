-------------------------- MODULE MCStreamSession --------------------------
EXTENDS StreamSession, TLC
CONSTANTS r1, r2, r3, o1, o2
MCOrigin == (r1 :> o1) @@ (r2 :> o1) @@ (r3 :> o2)
=============================================================================
