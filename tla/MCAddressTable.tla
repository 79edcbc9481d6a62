--------------------------- MODULE MCAddressTable ----------------------------
(***************************************************************************)
(* AddressTable for TLC; every constant is given in MCAddressTable.cfg.    *)
(***************************************************************************)
EXTENDS AddressTable
=============================================================================
