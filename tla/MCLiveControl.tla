--------------------------- MODULE MCLiveControl ---------------------------
(* Small instances of LiveControl for TLC.                                 *)
EXTENDS LiveControl, TLC

Symmetry == Permutations(Clients) \cup Permutations(Txids)

=============================================================================
