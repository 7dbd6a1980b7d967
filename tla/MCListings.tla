------------------------------ MODULE MCListings ------------------------------
(***************************************************************************)
(* Five entries, pages of two, and two writes during the walk.             *)
(***************************************************************************)
EXTENDS Listings, TLC
Five == 1 .. 5
Prefixes == {<<1, 1, 1, 0, 2>>, <<0, 1, 1, 2, 2>>, <<0, 0, 1, 1, 0>>}
=============================================================================
