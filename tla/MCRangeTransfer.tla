--------------------------- MODULE MCRangeTransfer ---------------------------
EXTENDS RangeTransfer
\* Every chunk_lens of up to two pages and a half, and one beyond the cap.
MCLayouts == UNION {[1..n -> Entries] : n \in 0..MaxCount} \cup {[i \in 1..(MaxCount + 1) |-> 0]}
=============================================================================
