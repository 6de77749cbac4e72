----------------------------- MODULE ListingMC -----------------------------
(***************************************************************************)
(* Instance of AccountListing for TLC.                                     *)
(***************************************************************************)
EXTENDS AccountListing, TLC

ClientSymmetry == Permutations(Clients)

=============================================================================
