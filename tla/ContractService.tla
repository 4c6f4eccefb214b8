--------------------------- MODULE ContractService ---------------------------
(***************************************************************************)
(* The backend's ContractsService, the JobsService it shares a row with    *)
(* and the admin path of EscrowService, for one job, between a PostgreSQL  *)
(* database and the Stellar network.                                       *)
(*                                                                         *)
(* Each HTTP request runs its handler in a slot.  A handler is a chain of  *)
(* awaits, and between two of them anything may happen: it reads the       *)
(* contract and checks it, then (approve, dispute, resolve, cancel) drives *)
(* one admin transaction through prepare, send and poll, then writes the   *)
(* database without looking at it again.  A write is one transaction.      *)
(* Requests the first check refuses change nothing and are left out.       *)
(* Notifications follow a handler's last write and are left out as well.   *)
(***************************************************************************)
EXTENDS EscrowRules, FiniteSetsExt

CONSTANTS
    Milestone,    \* the milestones of the contract
    Price,        \* Milestone -> amount
    Slot,         \* requests the backend can be serving at once
    Client, Freelancer, Admin,  \* signing keys; Admin is the platform's
    Xlm,          \* the token of STELLAR_TOKEN_CONTRACT_ID
    Bps,          \* freelancerBps of a split
    Kinds,        \* the endpoints in use
    DirectCalls,  \* entry points that are called without the backend
    OtherDeposits,  \* deposits somebody may sign instead of the agreed one
    Second,       \* seconds at which a transaction may be built
    MaxCalls,     \* bound: no admin call begins after this many have landed
    Impatient,    \* may 20 polls (30 s) end before the time bound (60 s)?
    Faults        \* may a handler die at an await?

ASSUME ServiceAssumption ==
    /\ IsFiniteSet(Milestone)
    /\ Price \in [Milestone -> Nat \ {0}]
    /\ {Client, Freelancer, Admin} \subseteq Address
    /\ Xlm \in Token
    /\ Bps \in 0 .. 10000
    /\ DirectCalls \subseteq {"release_milestone", "release", "refund",
                           "dispute", "resolve_dispute"}
    /\ OtherDeposits \subseteq [client : Address \ {Admin}, freelancer : Address,
                                admin : Address, token : Token, amount : Nat]
    /\ MaxCalls \in Nat
    /\ {Impatient, Faults} \subseteq BOOLEAN

VARIABLES
    job,        \* Job.status
    contract,   \* Contract.status, and whether escrowTxHash is set
    milestone,  \* Milestone.status
    payments,   \* Payment rows
    entry,      \* the escrow entry of the contract, on chain
    received,   \* what it has paid to the freelancer and client it names
    seq,        \* sequence number of the admin account
    pending,    \* admin transactions the network has accepted
    succeeded,  \* admin transactions that landed and returned Ok
    confirmed,  \* history: withdrawals answered CONFIRMED
    req         \* the request in each slot

database == <<job, contract, milestone, payments>>
escrow == <<entry, received>>
network == <<seq, pending, succeeded, confirmed>>
vars == <<database, escrow, network, req>>

NoMilestone == "no milestone"   \* a Payment row whose milestoneId is null
ASSUME NoMilestoneAssumption == NoMilestone \notin Milestone

NoTx == [fn |-> "none"]
Idle == [kind |-> "none", pc |-> "idle"]

Total == MapThenSumSet(LAMBDA m : Price[m], Milestone)
Paid == {m \in Milestone : milestone[m] = "PAID"}

\* What create proposes to the client for signature.
Agreed == [client |-> Client, freelancer |-> Freelancer, admin |-> Admin,
           token |-> Xlm, amount |-> Total]

\* More was deposited than the milestones can take.
Overfunded == Present(entry) /\ entry.total > Total

-----------------------------------------------------------------------------
(* The escrow contract, called by the backend with the admin key or by a   *)
(* party with its own.  The pool can always pay: see PaymentsNeverTrap in  *)
(* EscrowProofs.                                                           *)

Invoke(fn, amount, decision) ==
    [fn |-> fn, amount |-> amount, decision |-> decision]

ChainError(c, caller) ==
    CASE c.fn = "release_milestone" ->
            ReleaseMilestoneError(entry, caller, c.amount)
      [] c.fn = "release" -> ReleaseError(entry, caller)
      [] c.fn = "refund" -> RefundError(entry, caller)
      [] c.fn = "dispute" -> DisputeError(entry, caller)
      [] c.fn = "resolve_dispute" ->
            ResolveError(entry, caller, c.decision, Bps)
      [] c.fn = "payment" -> "Ok"   \* lumens of the admin's own account

ChainEntry(c) ==
    CASE c.fn = "release_milestone" -> ReleaseMilestoneEntry(entry, c.amount)
      [] c.fn = "release" -> ReleaseEntry(entry)
      [] c.fn = "refund" -> RefundEntry(entry)
      [] c.fn = "dispute" -> DisputeEntry(entry)
      [] c.fn = "resolve_dispute" -> ResolveEntry(entry, c.decision)
      [] c.fn = "payment" -> entry

ChainPayout(c) ==
    CASE c.fn = "release_milestone" -> Payout(c.amount, 0)
      [] c.fn = "release" -> Payout(Remaining(entry), 0)
      [] c.fn = "refund" -> Payout(0, Remaining(entry))
      [] c.fn \in {"dispute", "payment"} -> Payout(0, 0)
      [] c.fn = "resolve_dispute" -> ResolvePayout(entry, c.decision, Bps)

Execute(c) ==
    /\ entry' = ChainEntry(c)
    /\ received' = Payout(received.freelancer + ChainPayout(c).freelancer,
                          received.client + ChainPayout(c).client)

-----------------------------------------------------------------------------
(* The Stellar network, as the backend uses it.  A transaction is its      *)
(* hash: two that call the same thing with the same sequence number and    *)
(* time bound are one.  An account has at most one waiting.  One that      *)
(* passed its simulation may still fail: the escrow has changed since, or  *)
(* the resources do not suffice, or the token of the deposit refuses.      *)

Land ==
    /\ \E tx \in pending :
          /\ seq' = tx.seq
          /\ pending' = pending \ {tx}
          /\ \/ /\ ChainError(tx, Admin) = "Ok"
                /\ Execute(tx)
                /\ succeeded' = succeeded \cup {tx}
             \/ UNCHANGED <<escrow, succeeded>>
    /\ UNCHANGED <<database, confirmed, req>>

\* Its time bound passes and no ledger has included it.
Expire ==
    /\ \E tx \in pending : pending' = pending \ {tx}
    /\ UNCHANGED <<database, escrow, seq, succeeded, confirmed, req>>

\* fund needs the signature of the client it is given and no more: once the
\* id of the contract is out, the first deposit under it is the escrow, be
\* it what create proposed or not.
Fund ==
    /\ contract.status # "None"
    /\ \E deposit \in {Agreed} \cup OtherDeposits :
          /\ FundError(entry, deposit.amount) = "Ok"
          /\ entry' = FundedEntry(deposit, deposit.token, deposit.amount)
    /\ UNCHANGED <<database, received, network, req>>

\* What somebody may ask of the escrow as it is.
Invocation ==
    {Invoke("release_milestone", n, "none") : n \in 1 .. Outstanding(entry)}
    \cup {Invoke(fn, 0, "none") : fn \in {"release", "refund", "dispute"}}
    \cup {Invoke("resolve_dispute", 0, decision) : decision \in Decision}

\* A party calls the contract on its own, as buildDisputeXdr has it do.  The
\* deposit may name anybody in any role; only the platform's key signs
\* nothing but what _submitAdminInvocation builds.
DirectCall(c, caller) ==
    /\ ChainError(c, caller) = "Ok"
    /\ Execute(c)
    /\ UNCHANGED <<database, network, req>>

-----------------------------------------------------------------------------
(* Handlers: the shape they share. *)

\* The request passes its checks on the database as it is now.
Begin(r, kind, m, call, pc) ==
    /\ kind \in Kinds
    /\ req[r] = Idle
    /\ req' = [req EXCEPT ![r] = [kind |-> kind, pc |-> pc, ms |-> m,
                                  call |-> call, tx |-> NoTx, rest |-> 0]]
    /\ UNCHANGED <<database, escrow, network>>

\* It calls the chain: prepare, send, poll, then `after'.
BeginCall(r, kind, m, call) ==
    seq < MaxCalls /\ Begin(r, kind, m, call, "prepare")

At(r, kind, pc) == req[r].kind = kind /\ req[r].pc = pc
GoTo(r, pc) == req' = [req EXCEPT ![r].pc = pc]
Answer(r) == req' = [req EXCEPT ![r] = Idle]   \* 200, 500 or 503

\* The process restarts, or the database or the RPC server is unreachable.
Die(r) ==
    /\ Faults
    /\ req[r] # Idle
    /\ Answer(r)
    /\ UNCHANGED <<database, escrow, network>>

-----------------------------------------------------------------------------
(* _submitAdminInvocation. *)

\* getAccount, build and simulate; a simulation error is a 503.
Prepare(r) ==
    /\ req[r].pc = "prepare"
    /\ LET c == req[r].call
       IN IF ChainError(c, Admin) # "Ok" THEN Answer(r)
          ELSE \E s \in Second :
                  req' = [req EXCEPT
                      ![r].pc = "send",
                      ![r].tx = [fn |-> c.fn, amount |-> c.amount,
                                 decision |-> c.decision,
                                 seq |-> seq + 1, second |-> s]]
    /\ UNCHANGED <<database, escrow, network>>

\* A stale sequence number is refused with ERROR, a 503.  The two other
\* refusals, DUPLICATE and TRY_AGAIN_LATER, are not told from PENDING: the
\* handler polls for a transaction that is another's, or nobody's.
Send(r) ==
    /\ req[r].pc = "send"
    /\ IF req[r].tx.seq # seq + 1 THEN Answer(r) /\ UNCHANGED pending
       ELSE /\ GoTo(r, "poll")
            /\ pending' = IF pending = {} THEN {req[r].tx} ELSE pending
    /\ UNCHANGED <<database, escrow, seq, succeeded, confirmed>>

\* Where a handler goes once its transaction has succeeded.
AfterCall(kind) == IF kind \in {"cancel", "resolve"} THEN "remaining" ELSE "commit"

Poll_AnyStatus(r) ==   \* FAILED, or not found, taken for a success
    /\ req[r].pc = "poll"
    /\ req[r].tx \notin pending
    /\ GoTo(r, AfterCall(req[r].kind))
    /\ UNCHANGED <<database, escrow, network>>

Poll_NeverGivesUp(r) ==
    /\ req[r].pc = "poll"
    /\ req[r].tx \in succeeded
    /\ GoTo(r, AfterCall(req[r].kind))
    /\ UNCHANGED <<database, escrow, network>>

\* FAILED, or still NOT_FOUND at the last poll, is a 503.
Poll(r) ==
    /\ req[r].pc = "poll"
    /\ \/ req[r].tx \in succeeded /\ GoTo(r, AfterCall(req[r].kind))
       \/ /\ req[r].tx \notin succeeded
          /\ Impatient \/ req[r].tx \notin pending
          /\ Answer(r)
    /\ UNCHANGED <<database, escrow, network>>

-----------------------------------------------------------------------------
(* Payment rows.  milestoneId and stellarTxHash are unique columns; a      *)
(* violation rolls the whole transaction back (500).                       *)

Payment(m, amount, tx) == [milestone |-> m, amount |-> amount, tx |-> tx]

Unique_MilestoneOnly(p) ==
    \A q \in payments : p.milestone # NoMilestone => q.milestone # p.milestone

Unique(p) ==
    \A q \in payments :
        /\ q.tx # p.tx
        /\ p.milestone # NoMilestone => q.milestone # p.milestone

ReadRemaining_Total(r) ==   \* forgets what is already paid
    /\ req[r].pc = "remaining"
    /\ req' = [req EXCEPT ![r].pc = "commit", ![r].rest = Total]
    /\ UNCHANGED <<database, escrow, network>>

\* _remainingAmount, in a query of its own before the transaction.
ReadRemaining(r) ==
    /\ req[r].pc = "remaining"
    /\ LET paid == MapThenSumSet(LAMBDA p : p.amount, payments)
       IN req' = [req EXCEPT ![r].pc = "commit",
                             ![r].rest = IF paid < Total THEN Total - paid ELSE 0]
    /\ UNCHANGED <<database, escrow, network>>

-----------------------------------------------------------------------------
(* POST /contracts and POST /jobs/:id/cancel. *)

Create(r) ==
    /\ job = "OPEN" /\ contract.status = "None"
    /\ Begin(r, "create", NoMilestone, NoTx, "commit")

\* Contract.jobId is unique.
CreateCommit(r) ==
    /\ At(r, "create", "commit")
    /\ IF contract.status = "None"
       THEN /\ contract' = [status |-> "PENDING", hash |-> FALSE]
            /\ milestone' = [m \in Milestone |-> "PENDING"]
            /\ job' = "IN_PROGRESS"
            /\ GoTo(r, "build")
       ELSE Answer(r) /\ UNCHANGED <<job, contract, milestone>>
    /\ UNCHANGED <<payments, escrow, network>>

\* Best effort: an error is swallowed, and an XDR is only a proposal.
BuildFundXdr(r) ==
    /\ At(r, "create", "build")
    /\ Answer(r)
    /\ UNCHANGED <<database, escrow, network>>

JobCancelRefused == contract.status # "None"

JobCancel(r) ==
    /\ job # "CANCELLED" /\ ~JobCancelRefused
    /\ Begin(r, "job-cancel", NoMilestone, NoTx, "commit")

JobCancelCommit(r) ==
    /\ At(r, "job-cancel", "commit")
    /\ job' = "CANCELLED"
    /\ Answer(r)
    /\ UNCHANGED <<contract, milestone, payments, escrow, network>>

-----------------------------------------------------------------------------
(* POST /contracts/:id/confirm-fund and PATCH .../milestones/:mid/submit. *)

ConfirmFund(r) ==
    /\ contract.status \in {"PENDING", "ACTIVE"} /\ ~contract.hash
    /\ Begin(r, "confirm", NoMilestone, NoTx, "commit")

\* verifyTransaction looks up the hash the client names and no more: it may
\* be that of a failed fund(), or of any other transaction.
VerifyTransaction == BOOLEAN

\* A hash that Horizon does not know is a 503.
ConfirmFundCommit(r) ==
    /\ At(r, "confirm", "commit")
    /\ \E found \in VerifyTransaction :
          contract' = IF found THEN [status |-> "ACTIVE", hash |-> TRUE]
                      ELSE contract
    /\ Answer(r)
    /\ UNCHANGED <<job, milestone, payments, escrow, network>>

SubmitMilestone(r, m) ==
    /\ contract.status = "ACTIVE" /\ milestone[m] = "PENDING"
    /\ Begin(r, "submit", m, NoTx, "commit")

SubmitMilestoneCommit(r) ==
    /\ At(r, "submit", "commit")
    /\ milestone' = [milestone EXCEPT ![req[r].ms] = "IN_REVIEW"]
    /\ Answer(r)
    /\ UNCHANGED <<job, contract, payments, escrow, network>>

-----------------------------------------------------------------------------
(* PATCH .../milestones/:mid/approve. *)

ApproveMilestone(r, m) ==
    /\ contract.status = "ACTIVE" /\ milestone[m] = "IN_REVIEW"
    /\ BeginCall(r, "approve", m, Invoke("release_milestone", Price[m], "none"))

ApproveMilestoneCommit_CheckedFirst(r) ==   \* all paid before this one?
    /\ At(r, "approve", "commit")
    /\ LET m == req[r].ms
           p == Payment(m, Price[m], req[r].tx)
       IN IF Unique(p)
          THEN /\ milestone' = [milestone EXCEPT ![m] = "PAID"]
               /\ payments' = payments \cup {p}
               /\ IF Paid = Milestone THEN GoTo(r, "complete") ELSE Answer(r)
          ELSE Answer(r) /\ UNCHANGED <<milestone, payments>>
    /\ UNCHANGED <<job, contract, escrow, network>>

\* The second write of the transaction, PAID, is the one others see.
ApproveMilestoneCommit(r) ==
    /\ At(r, "approve", "commit")
    /\ LET m == req[r].ms
           p == Payment(m, Price[m], req[r].tx)
       IN IF Unique(p)
          THEN /\ milestone' = [milestone EXCEPT ![m] = "PAID"]
               /\ payments' = payments \cup {p}
               /\ GoTo(r, "complete?")
          ELSE Answer(r) /\ UNCHANGED <<milestone, payments>>
    /\ UNCHANGED <<job, contract, escrow, network>>

AllPaid_Some == Paid # {}
AllPaid == Paid = Milestone

\* _maybeCompleteContract: a read, then a write.
MaybeComplete(r) ==
    /\ At(r, "approve", "complete?")
    /\ IF AllPaid THEN GoTo(r, "complete") ELSE Answer(r)
    /\ UNCHANGED <<database, escrow, network>>

CompleteCommit(r) ==
    /\ At(r, "approve", "complete")
    /\ contract' = [contract EXCEPT !.status = "COMPLETED"]
    /\ Answer(r)
    /\ UNCHANGED <<job, milestone, payments, escrow, network>>

-----------------------------------------------------------------------------
(* POST /contracts/:id/dispute and PATCH /contracts/admin/:id/resolve. *)

RaiseDispute_DatabaseOnly(r) ==   \* as docs/escrow-flow.md draws it
    /\ contract.status = "ACTIVE"
    /\ Begin(r, "dispute", NoMilestone, NoTx, "commit")

\* By either party, but the transaction is signed with the admin key.
RaiseDispute(r) ==
    /\ contract.status = "ACTIVE"
    /\ IF contract.hash
       THEN BeginCall(r, "dispute", NoMilestone, Invoke("dispute", 0, "none"))
       ELSE Begin(r, "dispute", NoMilestone, NoTx, "commit")

RaiseDisputeCommit(r) ==
    /\ At(r, "dispute", "commit")
    /\ contract' = [contract EXCEPT !.status = "DISPUTED"]
    /\ Answer(r)
    /\ UNCHANGED <<job, milestone, payments, escrow, network>>

Resolve(r, decision) ==
    /\ contract.status = "DISPUTED"
    /\ BeginCall(r, "resolve", NoMilestone,
                 Invoke("resolve_dispute", 0, decision))

ResolveCommit(r) ==
    /\ At(r, "resolve", "commit")
    /\ LET p == Payment(NoMilestone, req[r].rest, req[r].tx)
           final == IF req[r].call.decision = "RefundToClient"
                    THEN "CANCELLED" ELSE "COMPLETED"
       IN IF Unique(p)
          THEN /\ payments' = payments \cup {p}
               /\ contract' = [contract EXCEPT !.status = final]
          ELSE UNCHANGED <<payments, contract>>
    /\ Answer(r)
    /\ UNCHANGED <<job, milestone, escrow, network>>

-----------------------------------------------------------------------------
(* POST /contracts/:id/cancel, by the client or an administrator. *)

Cancel(r, byAdmin) ==
    /\ contract.status \notin {"None", "COMPLETED", "CANCELLED"}
    /\ contract.hash /\ contract.status # "PENDING" => byAdmin
    /\ IF contract.hash
       THEN BeginCall(r, "cancel", NoMilestone, Invoke("refund", 0, "none"))
       ELSE Begin(r, "cancel", NoMilestone, NoTx, "remaining")

CancelCommit(r) ==
    /\ At(r, "cancel", "commit")
    /\ LET p == Payment(NoMilestone, req[r].rest, req[r].tx)
           rows == IF req[r].tx = NoTx THEN {} ELSE {p}
       IN IF \A row \in rows : Unique(row)
          THEN /\ payments' = payments \cup rows
               /\ contract' = [contract EXCEPT !.status = "CANCELLED"]
               /\ job' = "OPEN"
          ELSE UNCHANGED <<payments, contract, job>>
    /\ Answer(r)
    /\ UNCHANGED <<milestone, escrow, network>>

-----------------------------------------------------------------------------
(* POST /payments/withdraw: a payment from the admin account, which shares *)
(* the sequence number with all that is above.  Horizon submits it and     *)
(* waits, and its errors are 503s too, as in Prepare, Send and Poll.  No   *)
(* row of the database is read or written.                                 *)

Withdraw(r) ==
    BeginCall(r, "withdraw", NoMilestone, Invoke("payment", 0, "none"))

WithdrawConfirm(r) ==
    /\ At(r, "withdraw", "commit")
    /\ confirmed' = confirmed + 1
    /\ Answer(r)
    /\ UNCHANGED <<database, escrow, seq, pending, succeeded>>

-----------------------------------------------------------------------------
Init ==
    /\ job = "OPEN"
    /\ contract = [status |-> "None", hash |-> FALSE]
    /\ milestone = [m \in Milestone |-> "PENDING"]
    /\ payments = {}
    /\ entry = NoEntry
    /\ received = Payout(0, 0)
    /\ seq = 0
    /\ pending = {}
    /\ succeeded = {}
    /\ confirmed = 0
    /\ req = [r \in Slot |-> Idle]

\* The steps of a handler that is running.
Handle(r) ==
    \/ Prepare(r) \/ Send(r) \/ Poll(r) \/ ReadRemaining(r)
    \/ CreateCommit(r) \/ BuildFundXdr(r) \/ JobCancelCommit(r)
    \/ ConfirmFundCommit(r) \/ SubmitMilestoneCommit(r)
    \/ ApproveMilestoneCommit(r) \/ MaybeComplete(r) \/ CompleteCommit(r)
    \/ RaiseDisputeCommit(r) \/ ResolveCommit(r) \/ CancelCommit(r)
    \/ WithdrawConfirm(r)

Request(r) ==
    \/ Create(r) \/ JobCancel(r) \/ ConfirmFund(r) \/ RaiseDispute(r)
    \/ Withdraw(r)
    \/ \E m \in Milestone : SubmitMilestone(r, m) \/ ApproveMilestone(r, m)
    \/ \E decision \in Decision : Resolve(r, decision)
    \/ \E byAdmin \in BOOLEAN : Cancel(r, byAdmin)

Direct ==
    \E c \in Invocation, caller \in Address \ {Admin} :
        c.fn \in DirectCalls /\ DirectCall(c, caller)

Next ==
    \/ \E r \in Slot : Request(r) \/ Handle(r) \/ Die(r)
    \/ Land \/ Expire \/ Fund \/ Direct

Spec == Init /\ [][Next]_vars

\* Node runs every continuation that is due, and a transaction is included
\* or expires.
Fairness ==
    /\ \A r \in Slot : WF_vars(Handle(r))
    /\ WF_vars(Land \/ Expire)

FairSpec == Spec /\ Fairness

-----------------------------------------------------------------------------
(* Properties that hold under every interleaving, fault and direct call.   *)

TypeOK ==
    /\ job \in {"OPEN", "IN_PROGRESS", "CANCELLED"}
    /\ contract \in [status : {"None", "PENDING", "ACTIVE", "DISPUTED",
                               "COMPLETED", "CANCELLED"}, hash : BOOLEAN]
    /\ contract.hash => contract.status # "None"
    /\ milestone \in [Milestone -> {"PENDING", "IN_REVIEW", "PAID"}]
    /\ \A p \in payments : p.milestone \in Milestone \cup {NoMilestone}
                          /\ p.amount \in 0 .. Total
    /\ entry \in EscrowEntry \cup {NoEntry}
    /\ received \in [freelancer : Nat, client : Nat]
    /\ received.freelancer + received.client
          <= IF Present(entry) THEN entry.total ELSE 0
    /\ \A tx \in pending : tx.seq = seq + 1
    /\ Cardinality(pending) <= 1
    /\ \A r \in Slot : req[r] # Idle => req[r].kind \in Kinds

\* What the database shows as paid has left the escrow: over all milestones
\* PAID together, although two approvals may share one transaction, and
\* whatever was deposited.  The payee and the token are those the deposit
\* names: docs/escrow-flow.md says that confirm-fund "Confirms escrow entry
\* exists", but VerifyTransaction does not look at it.
PaidBackedByChain ==
    MapThenSumSet(LAMBDA m : Price[m], Paid) <= received.freelancer

\* A Payment row is a receipt: its transaction is on the ledger and did
\* what the row says, and a row without a milestone closed the escrow.
PaymentsAreReal ==
    \A p \in payments :
        /\ p.tx \in succeeded
        /\ IF p.milestone \in Milestone
           THEN p.tx.fn = "release_milestone" /\ p.tx.amount = p.amount
           ELSE p.tx.fn \in {"refund", "resolve_dispute"}
                /\ entry.status \in Settled

\* A COMPLETED contract has no money left in escrow, automatic completion and
\* the administrator's resolution coming after the last payment; save what
\* was deposited beyond the price of the milestones, which no endpoint moves.
CompletedMeansSettled ==
    contract.status = "COMPLETED" =>
        \/ entry.status \in Settled
        \/ Present(entry) /\ Remaining(entry) <= entry.total - Total

\* docs/escrow-flow.md, "Dispute state guarantees": while the database says
\* DISPUTED the escrow is frozen or already resolved, so that neither party
\* can move its money.
FrozenWhileDisputed ==
    contract.status = "DISPUTED" => entry.status \notin {"Absent", "Funded"}

\* docs/escrow-flow.md, contract transitions: none leaves COMPLETED.
\* Handlers write a status by id, without looking at the one they replace;
\* what keeps a contract completed is that its settled escrow refuses the
\* call that has to come first.  So only a handler that made no call, or one
\* of two disputes, which may share a transaction, can write over it; or any,
\* if a surplus has kept the escrow open.
OnlyUnguardedWritesReopen ==
    [][contract.status = "COMPLETED" /\ contract'.status # "COMPLETED" =>
           \E r \in Slot :
              /\ req[r] # Idle /\ req'[r] = Idle
              /\ req[r].tx = NoTx \/ req[r].kind = "dispute" \/ Overfunded]_vars

\* Every request is answered: the poll is bounded, and no handler waits for
\* another.
EveryRequestIsAnswered ==
    \A r \in Slot : req[r] # Idle ~> req[r] = Idle

\* No handler is about to write what its first check would refuse by now.
NothingStale ==
    \A r \in Slot :
        /\ req[r].kind = "confirm" => ~contract.hash
        /\ req[r].kind = "submit" => milestone[req[r].ms] = "PENDING"

\* docs/escrow-flow.md, "ACTIVE | COMPLETED | All milestones reach PAID |
\* System (automatic)": of concurrent approvals the last one to commit sees
\* all milestones PAID and completes the contract, unless the late write of
\* a doubled confirm-fund or submit comes between, or a surplus leaves the
\* escrow open for a dispute.
AllPaidCompletes ==
    [](NothingStale /\ ~Overfunded) =>
        (AllPaid ~> contract.status \in {"COMPLETED", "CANCELLED"})

\* One request at a time, a deposit of the price, a poll that outlasts the
\* transaction and no failure: between requests the Payment rows account for
\* every unit that left the escrow, so _remainingAmount is what it holds.
BooksAgree ==
    (\A r \in Slot : req[r] = Idle) =>
        MapThenSumSet(LAMBDA p : p.amount, payments)
            = received.freelancer + received.client

\* Likewise a withdrawal is answered CONFIRMED once for each payment the
\* admin account has made.
WithdrawalsAgree ==
    (\A r \in Slot : req[r] = Idle) =>
        confirmed = Cardinality({tx \in succeeded : tx.fn = "payment"})

-----------------------------------------------------------------------------
(* Claims of the documentation and the messages that the code does not     *)
(* keep.                                                                   *)

\* docs/api-reference.md, approve: "503 | Soroban RPC unavailable
\* (milestone stays IN_REVIEW, safe to retry)".  Then the freelancer is
\* never paid more than the work submitted so far.
SafeToRetry ==
    received.freelancer <=
        MapThenSumSet(LAMBDA m : Price[m],
                      {m \in Milestone : milestone[m] # "PENDING"})

\* docs/api-reference.md, cancel: "client (unfunded only) or admin", and
\* the administrator's cancel refunds.
CancelledLocksNothing ==
    contract.status = "CANCELLED" => entry.status \notin Live
=============================================================================
