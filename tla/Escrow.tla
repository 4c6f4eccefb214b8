------------------------------- MODULE Escrow -------------------------------
(***************************************************************************)
(* The escrow contract on chain (Contracts/src/lib.rs): persistent storage *)
(* of entries, the SEP-41 balances its entry points move, and the result   *)
(* of the last invocation.  A Soroban invocation is atomic: it returns Ok  *)
(* and all its effects apply, or it returns an error or traps in the token *)
(* and none does.                                                          *)
(*                                                                         *)
(* Every entry point starts with require_auth, so `caller' below is the    *)
(* account that signed.  The token contract is external: lib.rs uses it    *)
(* through transfer and transfer_from.                                     *)
(***************************************************************************)
EXTENDS EscrowRules, FiniteSetsExt

CONSTANTS
    ContractId,  \* keys DataKey::Escrow(contract_id)
    Self,        \* the escrow contract's own token account, the pool
    Terms,       \* [client, freelancer, admin] triples fund is called with
    Amounts,     \* amounts passed to fund and release_milestone
    SplitBps,    \* freelancer_bps passed to resolve_dispute
    SpendTo,     \* whom holders send tokens to, outside the escrow
    Supply       \* tokens each account holds before the first invocation

Party == [client : Address, freelancer : Address, admin : Address]

ASSUME EscrowAssumption ==
    /\ Self \notin Address
    /\ Terms \subseteq Party
    /\ Amounts \subseteq Int
    /\ SplitBps \subseteq Nat
    /\ SpendTo \subseteq Address \cup {Self}
    /\ Supply \in [Token -> [Address -> Nat]]

VARIABLES
    entries,    \* storage: ContractId -> EscrowEntry or NoEntry
    balance,    \* token accounts, the pool included
    allowance,  \* what the pool may pull from an account
    received,   \* history: what each escrow has paid to either party
    last        \* entry point, signer and result of the last invocation
                \* whose checks passed

storage == <<entries, received>>
tokens == <<balance, allowance>>
vars == <<entries, balance, allowance, received, last>>

Holder == Address \cup {Self}
EntryPoint == {"fund", "release_milestone", "release", "refund", "dispute",
               "resolve_dispute"}
Result == {"Ok", "Trap"}
Call(op, caller, err) == [op |-> op, caller |-> caller, err |-> err]
NoCall == [op |-> "none"]

-----------------------------------------------------------------------------
(* The token contract, as the escrow calls it. *)

\* transfer from the pool to the freelancer and to the client of e.  The two
\* may be one account; a transfer of 0 is not made.
PoolPays(e, payout) ==
    balance' = [balance EXCEPT ![e.token] =
        [h \in Holder |->
            @[h] - (IF h = Self THEN payout.freelancer + payout.client ELSE 0)
                 + (IF h = e.freelancer THEN payout.freelancer ELSE 0)
                 + (IF h = e.client THEN payout.client ELSE 0)]]

\* transfer traps when the pool holds less than what is paid.
PoolCovers(e, payout) ==
    balance[e.token][Self] >= payout.freelancer + payout.client

\* transfer_from traps without the allowance or the funds.
CanPull(t, from, amount) ==
    /\ allowance[t][from] >= amount
    /\ balance[t][from] >= amount

Pull(t, from, amount) ==
    /\ allowance' = [allowance EXCEPT ![t][from] = @ - amount]
    /\ balance' = [balance EXCEPT ![t][from] = @ - amount,
                                  ![t][Self] = @ + amount]

-----------------------------------------------------------------------------
(* How an invocation ends.  One whose checks fail returns its error and    *)
(* leaves the ledger as it was; `last' remembers those that reached the    *)
(* token contract.                                                         *)

Rejected(error) == error # "Ok" /\ UNCHANGED vars

Trapped(op, caller) ==
    /\ last' = Call(op, caller, "Trap")
    /\ UNCHANGED <<storage, tokens>>

\* An entry point on the entry of id: `error' is its first failing check;
\* else it pays `payout', writes `entry' and returns Ok.
Finish(op, id, caller, error, entry, payout) ==
    \/ Rejected(error)
    \/ /\ error = "Ok"
       /\ IF PoolCovers(entries[id], payout)
          THEN /\ PoolPays(entries[id], payout)
               /\ entries' = [entries EXCEPT ![id] = entry]
               /\ received' = [received EXCEPT ![id] =
                                  Payout(@.freelancer + payout.freelancer,
                                         @.client + payout.client)]
               /\ last' = Call(op, caller, "Ok")
               /\ UNCHANGED allowance
          ELSE Trapped(op, caller)

-----------------------------------------------------------------------------
(* The entry points. *)

\* fund: the client's signature, then the checks, then transfer_from.
Fund(id, terms, t, amount) ==
    LET error == FundError(entries[id], amount)
    IN \/ Rejected(error)
       \/ /\ error = "Ok"
          /\ IF CanPull(t, terms.client, amount)
             THEN /\ Pull(t, terms.client, amount)
                  /\ entries' = [entries EXCEPT
                                    ![id] = FundedEntry(terms, t, amount)]
                  /\ last' = Call("fund", terms.client, "Ok")
                  /\ UNCHANGED received
             ELSE Trapped("fund", terms.client)

ReleaseMilestone(id, caller, amount) ==
    LET e == entries[id]
    IN Finish("release_milestone", id, caller,
              ReleaseMilestoneError(e, caller, amount),
              ReleaseMilestoneEntry(e, amount), Payout(amount, 0))

Release(id, caller) ==
    LET e == entries[id]
    IN Finish("release", id, caller, ReleaseError(e, caller),
              ReleaseEntry(e), Payout(Remaining(e), 0))

Refund(id, caller) ==
    LET e == entries[id]
    IN Finish("refund", id, caller, RefundError(e, caller),
              RefundEntry(e), Payout(0, Remaining(e)))

Dispute(id, caller) ==
    LET e == entries[id]
    IN Finish("dispute", id, caller, DisputeError(e, caller),
              DisputeEntry(e), Payout(0, 0))

ResolveDispute(id, caller, decision, bps) ==
    LET e == entries[id]
    IN Finish("resolve_dispute", id, caller,
              ResolveError(e, caller, decision, bps),
              ResolveEntry(e, decision), ResolvePayout(e, decision, bps))

-----------------------------------------------------------------------------
(* The token contract used by its holders, outside the escrow. *)

\* approve(spender = the escrow contract): replaces the allowance.  Its
\* expiry is an approval of 0.
Approve(t, owner, amount) ==
    /\ amount >= 0
    /\ allowance' = [allowance EXCEPT ![t][owner] = amount]
    /\ UNCHANGED <<storage, balance, last>>

\* A holder spends its own tokens; it may even send them to the pool.
Spend(t, from, to, amount) ==
    /\ 0 < amount /\ amount <= balance[t][from]
    /\ to # from
    /\ balance' = [balance EXCEPT ![t][from] = @ - amount,
                                  ![t][to] = @ + amount]
    /\ UNCHANGED <<storage, allowance, last>>

-----------------------------------------------------------------------------
Init ==
    /\ entries = [id \in ContractId |-> NoEntry]
    /\ balance = [t \in Token |->
                    [h \in Holder |-> IF h = Self THEN 0 ELSE Supply[t][h]]]
    /\ allowance = [t \in Token |-> [a \in Address |-> 0]]
    /\ received = [id \in ContractId |-> Payout(0, 0)]
    /\ last = NoCall

Next ==
    \/ \E id \in ContractId, terms \in Terms, t \in Token, amount \in Amounts :
          Fund(id, terms, t, amount)
    \/ \E id \in ContractId, caller \in Address :
          \/ \E amount \in Amounts : ReleaseMilestone(id, caller, amount)
          \/ Release(id, caller)
          \/ Refund(id, caller)
          \/ Dispute(id, caller)
          \/ \E decision \in Decision, bps \in SplitBps :
                ResolveDispute(id, caller, decision, bps)
    \/ \E t \in Token, a \in Address, amount \in Amounts :
          \/ Approve(t, a, amount)
          \/ \E to \in SpendTo : Spend(t, a, to, amount)

Spec == Init /\ [][Next]_vars

-----------------------------------------------------------------------------
(* Properties. *)

TypeOK ==
    /\ entries \in [ContractId -> EscrowEntry \cup {NoEntry}]
    /\ balance \in [Token -> [Holder -> Nat]]
    /\ allowance \in [Token -> [Address -> Nat]]
    /\ received \in [ContractId -> [freelancer : Nat, client : Nat]]
    /\ last \in [op : EntryPoint, caller : Address, err : Result]
                 \cup {NoCall}

\* Every unit deposited is at every moment with the freelancer, back with
\* the client, or owed by the pool, through any sequence of partial
\* releases, refunds, disputes and splits (rounding loses and mints nothing).
Conservation ==
    \A id \in ContractId :
        received[id].freelancer + received[id].client
            + Outstanding(entries[id])
        = IF Present(entries[id]) THEN entries[id].total ELSE 0

\* Status and released_amount, which different entry points write, agree
\* with what was paid.  A live entry has something left to pay and records
\* what its freelancer got: release_milestone closes the entry on the last
\* unit, so the `remaining > 0' tests of lib.rs never fail.  And Released
\* means what lib.rs:100 says, "All funds have been released to the
\* freelancer", by all three roads that lead to it, although
\* resolve_dispute leaves released_amount behind.
EntriesTellTheTruth ==
    \A id \in ContractId :
        /\ entries[id].status \in Live =>
              /\ Remaining(entries[id]) > 0
              /\ received[id] = Payout(entries[id].released, 0)
        /\ entries[id].status = "Released" =>
              received[id] = Payout(entries[id].total, 0)

\* One pool account backs all escrows of a token, so an escrow that paid
\* twice would pay with the money of another.  The pool holds what all
\* entries together are owed, even if holders send it tokens of their own.
PoolSolvent ==
    \A t \in Token :
        balance[t][Self] >=
            MapThenSumSet(LAMBDA id : Outstanding(entries[id]),
                          {id \in ContractId :
                              entries[id].status \in Live /\ entries[id].token = t})

\* Hence no transfer out of the pool ever fails: the only entry point that
\* can trap in the token is fund, on the client's own allowance or funds.
OnlyFundTraps == last # NoCall /\ last.err = "Trap" => last.op = "fund"

\* No escrow is stuck: as long as money is locked, the recorded admin has
\* a call whose checks pass and which the pool can pay, even where a split
\* would overflow.
AdminCanSettle ==
    \A id \in ContractId :
        LET e == entries[id]
            rest == Payout(Remaining(e), 0)
        IN /\ e.status = "Funded" =>
                  ReleaseError(e, e.admin) = "Ok" /\ PoolCovers(e, rest)
           /\ e.status = "Disputed" =>
                  /\ ResolveError(e, e.admin, "ReleaseToFreelancer", 0) = "Ok"
                  /\ PoolCovers(e, rest)

\* Terminal statuses are terminal: the record of a settled escrow and what
\* it has paid never change again, whoever calls what.
SettledIsFinal ==
    [][\A id \in ContractId : entries[id].status \in Settled =>
          entries'[id] = entries[id] /\ received'[id] = received[id]]_vars

\* lib.rs:483, "After this call only resolve_dispute (admin-only) can move
\* funds": whatever changes a disputed escrow is signed by its admin and
\* settles it.
FrozenUntilAdminActs ==
    [][\A id \in ContractId :
          /\ entries[id].status = "Disputed"
          /\ <<entries'[id], received'[id]>> # <<entries[id], received[id]>>
          => /\ last'.caller = entries[id].admin
             /\ entries'[id].status \in Settled]_vars

\* Nobody draws on an escrow for itself: a payment to the freelancer is
\* signed by the client or the admin, one to the client by the freelancer
\* or the admin, and no step pays from an escrow whose parties it renames.
PaidByTheOtherSide ==
    [][\A id \in ContractId : Present(entries[id]) =>
          LET e == entries[id]
          IN /\ received'[id].freelancer > received[id].freelancer =>
                    last'.caller \in {e.client, e.admin}
             /\ received'[id].client > received[id].client =>
                    last'.caller \in {e.freelancer, e.admin}
             /\ entries'[id] = [e EXCEPT !.released = entries'[id].released,
                                         !.status = entries'[id].status]]_vars

\* The entry points implement the promise made to the users.
Phase(e) == CASE ~Present(e) -> "empty"
              [] e.status = "Funded" -> "held"
              [] e.status = "Disputed" -> "frozen"
              [] OTHER -> "closed"

Promise == INSTANCE EscrowPromise WITH
    Deposits <- {a \in Amounts : a > 0},
    phase <- [id \in ContractId |-> Phase(entries[id])],
    deposit <- [id \in ContractId |->
                   IF Present(entries[id]) THEN entries[id].total ELSE 0],
    toFreelancer <- [id \in ContractId |-> received[id].freelancer],
    toClient <- [id \in ContractId |-> received[id].client]

KeepsPromise == Promise!Spec
=============================================================================
