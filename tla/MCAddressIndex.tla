--------------------------- MODULE MCAddressIndex ---------------------------
(***************************************************************************)
(* Instances of AddressIndex for TLC: addresses for two pages and one more *)
(* than the quota admits.                                                  *)
(***************************************************************************)
EXTENDS AddressIndex, TLC

CONSTANTS a1, a2, a3, a4

(* Addresses are only compared. *)
AddressSymmetry == Permutations(Address)
=============================================================================
