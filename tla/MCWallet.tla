------------------------------ MODULE MCWallet ------------------------------
(***************************************************************************)
(* Instances of Wallet for TLC: two mounts, two calls and two accounts.    *)
(***************************************************************************)
EXTENDS Wallet
=============================================================================
