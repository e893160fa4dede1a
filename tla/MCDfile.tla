------------------------------ MODULE MCDfile ------------------------------
(* Two of the six system files, and one that players load. *)
EXTENDS Dfile, TLC

CONSTANTS b1, b2, b3, b4

MChardload == <<"motd_msg", "room_msg">>
MCSymmetry == Permutations(Block)
=============================================================================
