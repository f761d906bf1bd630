------------------------ MODULE MCManageSieveSession ------------------------
(* ManageSieveSession for TLC: the sessions are interchangeable, and so are *)
(* the script names.                                                        *)
EXTENDS ManageSieveSession, TLC

Symmetry == Permutations(Sessions) \cup Permutations(Names)

=============================================================================
