------------------------------ MODULE MCListing ------------------------------
(* Values for the run of Listing. *)
EXTENDS Listing

MCTokens == 1..4
MCAsked  == {-1, 0, 1, 3}

=============================================================================
