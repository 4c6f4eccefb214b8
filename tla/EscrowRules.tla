---------------------------- MODULE EscrowRules ----------------------------
(***************************************************************************)
(* The decision rules of the Soroban escrow contract                       *)
(* (Contracts/src/lib.rs), one entry at a time and without state: for each *)
(* entry point the error it returns on an entry (the order of the checks   *)
(* is the order of the early returns), and what it writes and pays when it *)
(* returns Ok.  Escrow turns them into a state machine over storage and    *)
(* tokens; ContractService runs them when an admin transaction lands.      *)
(*                                                                         *)
(* A definition named <rule>_<slip> is the rule with a plausible slip in   *)
(* it: nothing here uses it, and each property is shown to notice one.     *)
(***************************************************************************)
EXTENDS Integers

CONSTANTS
    Address,   \* accounts that can sign: clients, freelancers, admins
    Token,     \* SEP-41 token contracts
    I128Max    \* largest i128

ASSUME I128MaxAssumption == I128Max \in Nat

Live == {"Funded", "Disputed"}                  \* money still locked
Settled == {"Released", "Refunded", "Resolved"} \* terminal statuses
EscrowStatus == Live \cup Settled

\* "fund" found no entry for the key: storage().has(&key) is false.
NoEntry == [status |-> "Absent"]

EscrowEntry == [client : Address, freelancer : Address, admin : Address,
                token : Token, total : Nat, released : Nat,
                status : EscrowStatus]

Decision == {"ReleaseToFreelancer", "RefundToClient", "Split"}

Present(e) == e.status # "Absent"

\* total_amount.checked_sub(released_amount).  It cannot underflow: see
\* EntriesTellTheTruth in Escrow.
Remaining(e) == e.total - e.released

\* What the pool still owes on this entry.
Outstanding(e) == IF e.status \in Live THEN Remaining(e) ELSE 0

Payout(toFreelancer, toClient) ==
    [freelancer |-> toFreelancer, client |-> toClient]

(***************************************************************************)
(* fund                                                                    *)
(***************************************************************************)
FundError_KeyReused(e, amount) ==   \* a settled entry counts as no entry
    IF amount <= 0 THEN "InvalidAmount"
    ELSE IF e.status \in Live THEN "AlreadyFunded"
    ELSE "Ok"

FundError(e, amount) ==
    IF amount <= 0 THEN "InvalidAmount"
    ELSE IF Present(e) THEN "AlreadyFunded"
    ELSE "Ok"

FundedEntry(terms, token, amount) ==
    [client |-> terms.client, freelancer |-> terms.freelancer,
     admin |-> terms.admin, token |-> token, total |-> amount,
     released |-> 0, status |-> "Funded"]

(***************************************************************************)
(* The prefix common to the other five: the entry exists, is in the        *)
(* expected status, and the authenticated caller plays one of the roles.   *)
(***************************************************************************)
AccessError_NoStatus(e, caller, status, roles) ==
    IF ~Present(e) THEN "NotFound"
    ELSE IF \A r \in roles : caller # e[r] THEN "Unauthorized"
    ELSE "Ok"

AccessError(e, caller, status, roles) ==
    IF ~Present(e) THEN "NotFound"
    ELSE IF e.status # status THEN "InvalidState"
    ELSE IF \A r \in roles : caller # e[r] THEN "Unauthorized"
    ELSE "Ok"

(***************************************************************************)
(* release_milestone                                                       *)
(***************************************************************************)
ReleaseMilestoneError_NoSign(e, caller, amount) ==
    LET access == AccessError(e, caller, "Funded", {"client", "admin"})
    IN IF access # "Ok" THEN access
       ELSE IF amount > Remaining(e) THEN "InvalidState"
       ELSE "Ok"

ReleaseMilestoneError_NoLimit(e, caller, amount) ==
    LET access == AccessError(e, caller, "Funded", {"client", "admin"})
    IN IF access # "Ok" THEN access
       ELSE IF amount <= 0 THEN "InvalidAmount"
       ELSE "Ok"

ReleaseMilestoneError(e, caller, amount) ==
    LET access == AccessError(e, caller, "Funded", {"client", "admin"})
    IN IF access # "Ok" THEN access
       ELSE IF amount <= 0 THEN "InvalidAmount"
       ELSE IF amount > Remaining(e) THEN "InvalidState"
       ELSE "Ok"

\* The last unit paid out turns the entry into a terminal one.
ReleaseMilestoneEntry(e, amount) ==
    [e EXCEPT !.released = @ + amount,
              !.status = IF e.released + amount >= e.total THEN "Released"
                                                           ELSE @]

(***************************************************************************)
(* release, refund, dispute                                                *)
(***************************************************************************)
ReleaseError_ClientOnly(e, caller) ==
    AccessError(e, caller, "Funded", {"client"})
ReleaseError_WhileDisputed(e, caller) ==
    AccessError(e, caller, IF e.status = "Disputed" THEN "Disputed" ELSE "Funded",
                {"client", "admin"})

ReleaseError(e, caller) == AccessError(e, caller, "Funded", {"client", "admin"})
ReleaseEntry(e) == [e EXCEPT !.released = e.total, !.status = "Released"]

RefundError_ByClient(e, caller) ==
    AccessError(e, caller, "Funded", {"client", "freelancer", "admin"})
RefundError(e, caller) ==
    AccessError(e, caller, "Funded", {"freelancer", "admin"})
RefundEntry_StaysFunded(e) == e
RefundEntry(e) == [e EXCEPT !.status = "Refunded"]   \* released is kept

DisputeError(e, caller) ==
    AccessError(e, caller, "Funded", {"client", "freelancer"})
DisputeEntry(e) == [e EXCEPT !.status = "Disputed"]

(***************************************************************************)
(* resolve_dispute.  The basis points matter for a split only.             *)
(***************************************************************************)
SplitShare(remaining, bps) == (remaining * bps) \div 10000

ResolveError(e, caller, decision, bps) ==
    LET access == AccessError(e, caller, "Disputed", {"admin"})
    IN IF access # "Ok" THEN access
       ELSE IF decision = "Split" /\ bps > 10000 THEN "InvalidSplitBps"
       ELSE IF decision = "Split" /\ Remaining(e) * bps > I128Max
            THEN "Overflow"
       ELSE "Ok"

ResolveEntry_SplitIsReleased(e, decision) ==
    [e EXCEPT !.status = IF decision = "RefundToClient" THEN "Refunded"
                                                        ELSE "Released"]

\* released is left as it was, whoever the money goes to.
ResolveEntry(e, decision) ==
    [e EXCEPT !.status = CASE decision = "ReleaseToFreelancer" -> "Released"
                           [] decision = "RefundToClient" -> "Refunded"
                           [] OTHER -> "Resolved"]

ResolvePayout_RoundsTwice(e, decision, bps) ==
    CASE decision = "ReleaseToFreelancer" -> Payout(Remaining(e), 0)
      [] decision = "RefundToClient" -> Payout(0, Remaining(e))
      [] OTHER -> Payout(SplitShare(Remaining(e), bps),
                         SplitShare(Remaining(e), 10000 - bps))

ResolvePayout(e, decision, bps) ==
    LET share == CASE decision = "ReleaseToFreelancer" -> Remaining(e)
                   [] decision = "RefundToClient" -> 0
                   [] OTHER -> SplitShare(Remaining(e), bps)
    IN Payout(share, Remaining(e) - share)
=============================================================================
