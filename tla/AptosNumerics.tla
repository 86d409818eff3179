--------------------------- MODULE AptosNumerics ---------------------------
(* The pure computations of the Aptos benchmark and of its contracts.      *)
EXTENDS Naturals, Sequences, SequencesExt

(* Mutant: the iteration stops when the next value is one below.          *)
SqrtStopsEarly(x) ==
    LET newton[y \in 0..x, z \in 0..x] ==
            IF z + 1 < y THEN newton[z, (x \div z + z) \div 2] ELSE y
    IN  newton[x, (x + 1) \div 2]

(* xtl_kitty sqrt: Newton's iteration from above, y the last value and z   *)
(* the next one.                                                           *)
Sqrt(x) ==
    LET newton[y \in 0..x, z \in 0..x] ==
            IF z < y THEN newton[z, (x \div z + z) \div 2] ELSE y
    IN  newton[x, (x + 1) \div 2]

(* genes_mix.                                                              *)
GenesMix(m_genes, s_genes) == Sqrt(m_genes) * Sqrt(s_genes)
=============================================================================
