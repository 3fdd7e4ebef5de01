--------------------------- MODULE MCProgramming ---------------------------
(***************************************************************************)
(* Two pages of two half words, with different contents and sent in two    *)
(* WRITEs each, in the flash of MCStm32.  A redone page is a burst of four *)
(* frames, one more than fit into the FIFO.                                *)
(***************************************************************************)
EXTENDS Programming

MCByte  == {0, 1}
MCWords == {0, 8, 12}
MCPlan  == <<8, 12>>
MCImage == [a \in {8, 12} |->
              [i \in Index |-> IF (a = 8) = (i \in {0, 3}) THEN 1 ELSE 0]]
MCChunks == {Part(MCImage[a], k) : a \in {8, 12}, k \in {0, 1}}
MCCrc(p) == p[0] + 2 * p[1] + 4 * p[2] + 8 * p[3]
MCImages == {[p \in Pages |-> ErasedPage]}
=============================================================================
