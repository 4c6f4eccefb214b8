------------------------------ MODULE MCEscrow ------------------------------
(***************************************************************************)
(* An instance of Escrow for TLC: two escrows on one token, with parties   *)
(* that differ, so that one escrow could pay with the money of the other.  *)
(***************************************************************************)
EXTENDS Escrow

CONSTANTS ann, bob, adm, pool, xlm

\* Ann and Bob hire each other; the admin is the platform's.
TwoSidedTerms == {[client |-> ann, freelancer |-> bob, admin |-> adm],
                  [client |-> bob, freelancer |-> ann, admin |-> adm]}

SmallSupply == [t \in Token |->
                   [a \in Address |-> CASE a = ann -> 2
                                        [] a = bob -> 1
                                        [] OTHER -> 0]]

\* Amounts below 1 are refused.
SmallAmounts == {-1, 1, 2}

\* Tokens sent to the pool by mistake, or spent elsewhere.
OnlyPool == {pool}

\* Refused above 10000; 5000 rounds when the rest is odd and overflows when
\* more is left than I128Max \div 5000.
SomeBps == {5000, 10001}
=============================================================================
