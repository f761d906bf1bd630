-------------------------- MODULE MCPrelookupCache --------------------------
(* PrelookupCache for TLC: the readers are interchangeable.                  *)
EXTENDS PrelookupCache, TLC

Symmetry == Permutations(Readers)

=============================================================================
