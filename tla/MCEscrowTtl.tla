---------------------------- MODULE MCEscrowTtl ----------------------------
(***************************************************************************)
(* An instance of EscrowTtl for TLC: one escrow whose client, freelancer   *)
(* and admin may be the same account in any combination, which fund does   *)
(* not forbid, on a ledger that closes between any two invocations.        *)
(***************************************************************************)
EXTENDS EscrowTtl, TLC

CONSTANTS ann, bob, adm, pool, xlm

AllTerms == Party
EqualSupply == [t \in Token |-> [a \in Address |-> 3]]

\* With AllTerms and EqualSupply no account differs from another.
Accounts == Permutations(Address)

Nobody == {}
WideAmounts == {0, 1, 3}
MoreBps == {0, 3333, 5000, 10000, 10001}
=============================================================================
