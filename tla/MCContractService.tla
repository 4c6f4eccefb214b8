------------------------- MODULE MCContractService -------------------------
(***************************************************************************)
(* Instances of ContractService for TLC: one job, one contract with one or *)
(* two milestones of one price, so that two approvals can build the same   *)
(* transaction, and up to two requests at once.                            *)
(***************************************************************************)
EXTENDS PaymentViews, TLC

CONSTANTS cli, fre, adm, xlm, other, m1, m2, r1, r2

EqualPrice == [m \in Milestone |-> 1]

\* Deposits that are not the agreed one: of the price in another token, to an
\* account of the client's own; the same, but short by a milestone; one that is
\* over by one unit.  Two name the platform as the freelancer, which lets its
\* key raise a dispute.
ToHimself == [Agreed EXCEPT !.freelancer = Client, !.token = other]
Short == [ToHimself EXCEPT !.amount = Total - 1]
ToPlatform == [Agreed EXCEPT !.freelancer = Admin]
Surplus == [ToPlatform EXCEPT !.amount = Total + 1]

NoOther == {}
OfThePrice == {ToHimself, ToPlatform}
OfAnySize == {Short, Surplus}

Slots == Permutations(Slot)
SlotsAndMilestones == Permutations(Slot) \cup Permutations(Milestone)

AllKinds == {"create", "job-cancel", "confirm", "submit", "approve",
             "dispute", "resolve", "cancel"}

\* A withdrawal touches no row of the contract.
AllKindsAndWithdraw == AllKinds \cup {"withdraw"}
=============================================================================
