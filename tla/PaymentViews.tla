---------------------------- MODULE PaymentViews ----------------------------
(***************************************************************************)
(* What PaymentsService shows to the two parties of the contract: their    *)
(* transactions and the freelancer's earnings, both derived from Payment   *)
(* rows alone.                                                             *)
(***************************************************************************)
EXTENDS ContractService

SumOf(rows) == MapThenSumSet(LAMBDA p : p.amount, rows)

\* getTransactions infers the type of a payment from its milestone only, and
\* its sign from the side of the caller.
TransactionType(p) ==
    IF p.milestone = NoMilestone THEN "FULL_RELEASE" ELSE "MILESTONE_RELEASED"

Shown(p, isClient) ==
    [type |-> TransactionType(p), tx |-> p.tx,
     amount |-> IF isClient THEN -p.amount ELSE p.amount]

GetTransactions(isClient) == {Shown(p, isClient) : p \in payments}

GetEarnings_MilestonesOnly == SumOf({p \in payments : p.milestone \in Milestone})

\* Every row of a contract counts, whoever was paid.
GetEarnings == SumOf(payments)

-----------------------------------------------------------------------------
(* Properties; like BooksAgree they are about the time between requests.   *)

\* Unless money went back to the client, the freelancer's earnings are what
\* the escrow has paid, by any number of approvals and a resolution (a refund
\* and the client's part of a split are counted as earnings); and the client's
\* history and the page of the contract tell one story: the milestone
\* releases shown add up to the milestones shown as PAID.
ViewsAgree ==
    (\A r \in Slot : req[r] = Idle) =>
        /\ received.client = 0 => GetEarnings = received.freelancer
        /\ MapThenSumSet(LAMBDA t : -t.amount,
               {t \in GetTransactions(TRUE) : t.type = "MILESTONE_RELEASED"})
           = MapThenSumSet(LAMBDA m : Price[m], Paid)
=============================================================================
