------------------------ MODULE MCConnectionLimiter ------------------------
(* ConnectionLimiter for TLC: the goroutines are interchangeable; the       *)
(* addresses are not, one of them being trusted.                            *)
EXTENDS ConnectionLimiter, TLC

Symmetry == Permutations(Conns)

=============================================================================
