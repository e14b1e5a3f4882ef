------------------------------ MODULE MCImages ------------------------------
(* Values for TLC: two guests and two content ids under one tag, the second *)
(* of them the newer, so that a pull moves the tag away from the content a *)
(* guest runs on.                                                          *)
EXTENDS Images, TLC

MCMoves == {<<1, 2>>}
GuestSymmetry == Permutations(Guest)
=============================================================================
