-------------------------- MODULE PaymentViewsProofs --------------------------
(***************************************************************************)
(* The books of the database and those of the escrow agree when the        *)
(* backend serves one request at a time, polls until the transaction is    *)
(* decided and does not fail, and the parties deposit the price of the     *)
(* contract and call nothing of their own that moves money: for any number *)
(* of milestones, prices and calls.                                        *)
(*                                                                         *)
(* Between requests the Payment rows add up to what left the escrow.       *)
(* Within a request they are behind by the one transaction that its        *)
(* handler holds, from the ledger that includes it to the commit           *)
(* (Accounts); and what the handler checked first is still true when it    *)
(* writes (Checked), which is what concurrent requests break.              *)
(***************************************************************************)
EXTENDS PaymentViews, ContractServiceProofs

\* The hypothesis of the theorems.  A dispute pays nothing; and nothing else
\* than the price is deposited, be it for whom and in what it may.
Calm ==
    /\ \E r : Slot = {r}
    /\ ~Impatient /\ ~Faults
    /\ DirectCalls \subseteq {"dispute"}
    /\ \A deposit \in OtherDeposits : deposit.amount = Total

Endpoint == {"create", "job-cancel", "confirm", "submit", "approve", "dispute",
             "resolve", "cancel", "withdraw"}

RowAmount == [p \in Receipt |-> p.amount]
Rows == Sum(RowAmount, payments)
PaidOut == received.freelancer + received.client
Withdrawals == {tx \in succeeded : tx.fn = "payment"}

\* What was deposited is the price of the contract.
Priced == Present(entry) => entry.total = Total

\* The handler's transaction has landed and is not recorded yet.
Held(q) == q.pc \in {"poll", "remaining", "commit"} /\ q.tx \in succeeded
HoldsRelease(q) == Held(q) /\ q.tx.fn = "release_milestone"
HoldsClosing(q) == Held(q) /\ q.tx.fn \in Closing
HoldsWithdrawal(q) == Held(q) /\ q.tx.fn = "payment"

\* A transaction waits for as long as its handler polls.
Waiting ==
    \A tx \in pending : \E r \in Slot : req[r].pc = "poll" /\ req[r].tx = tx

\* What the handler checked at first it would find again.
Checked(q) ==
    /\ q.kind \in Endpoint
    /\ q.kind = "withdraw" => q.call = Invoke("payment", 0, "none")
    /\ q.kind = "create" /\ q.pc = "commit" => contract.status = "None"
    /\ q.kind \in {"approve", "resolve", "cancel"} => contract.status # "None"
    /\ q.kind = "approve" /\ q.pc \notin {"complete?", "complete"} =>
          milestone[q.ms] = "IN_REVIEW"
    /\ q.kind = "submit" => q.ms \in Milestone /\ milestone[q.ms] = "PENDING"
    /\ q.pc = "remaining" => q.kind \in {"resolve", "cancel"}
    /\ q.pc = "send" => q.tx.seq = seq + 1
    /\ q.pc \in {"poll", "remaining", "commit"} =>
          \A p \in payments : p.tx # q.tx

\* The rows and the milestones tell the same of each milestone.
Rowed ==
    /\ contract.status = "None" => payments = {}
    /\ Receipted \subseteq Paid
    /\ \A p \in payments :
          p.milestone \in Milestone => p.amount = Price[p.milestone]
    /\ \A p, q \in payments :
          \/ p.tx = q.tx
          \/ p.milestone = q.milestone /\ p.milestone \in Milestone
          => p = q

\* How far the rows are behind, and the answers to withdrawals.
Accounts(q) ==
    /\ ~HoldsRelease(q) /\ ~HoldsClosing(q) => Rows = PaidOut
    /\ HoldsRelease(q) => Rows + q.tx.amount = PaidOut
    /\ HoldsClosing(q) =>
          /\ Rows <= Total /\ PaidOut = Total
          /\ q.pc = "commit" => Rows + q.rest = Total
    /\ confirmed \in Nat
    /\ Cardinality(Withdrawals) =
          IF HoldsWithdrawal(q) THEN confirmed + 1 ELSE confirmed

KInv ==
    /\ Waiting /\ Rowed
    /\ \A r \in Slot : /\ req[r] # Idle => Checked(req[r])
                       /\ Accounts(req[r])

-----------------------------------------------------------------------------
(* Sums of rows. *)

\* PaymentsService and _remainingAmount add up rows as Sum does.
LEMMA SumOfRows ==
    ASSUME NEW S \in SUBSET Receipt, IsFiniteSet(S)
    PROVE  /\ MapThenSumSet(LAMBDA p : p.amount, S) = Sum(RowAmount, S)
           /\ Sum(RowAmount, S) \in Nat
<1> DEFINE h == CHOOSE g : g = [s \in SUBSET S |->
                    IF s = {} THEN 0 ELSE First(s).amount + g[s \ {First(s)}]]
<1>1. MapThenSumSet(LAMBDA p : p.amount, S) = h[S]
  BY DEF MapThenSumSet, MapThenFoldSet, First
<1>2. \A p \in S : RowAmount[p] \in Nat /\ RowAmount[p] = p.amount
  BY TotalFacts DEF RowAmount, Receipt
<1>3. \A g : Body(g, RowAmount, S) = [s \in SUBSET S |->
                    IF s = {} THEN 0 ELSE First(s).amount + g[s \ {First(s)}]]
  BY <1>2, FirstIsElement DEF Body
<1>4. h = Body(h, RowAmount, S)
  <2>1. PICK k : k = Body(k, RowAmount, S)
    BY FoldExists
  <2> QED
    BY <1>3, <2>1
<1> HIDE DEF h
<1> QED
  BY <1>1, <1>2, <1>4, FoldIsSum, SumIsNat

\* The rows there are.
LEMMA RowsFacts ==
    ASSUME CInv
    PROVE  /\ payments \subseteq Receipt /\ IsFiniteSet(payments)
           /\ Rows \in Nat /\ SumOf(payments) = Rows
           /\ MapThenSumSet(LAMBDA p : p.amount, payments) = Rows
           /\ PaidOut \in Nat /\ Total \in Nat
<1>1. payments \subseteq Receipt /\ IsFiniteSet(payments)
  BY DEF CInv, DatabaseTypes
<1>2. PaidOut \in Nat /\ Total \in Nat
  BY TotalFacts DEF CInv, Books, PaidOut
<1> QED
  BY <1>1, <1>2, SumOfRows DEF Rows, SumOf

\* A new row adds its amount.
LEMMA RowsGrow ==
    ASSUME CInv, NEW p \in Receipt, p \notin payments, payments' = payments \cup {p}
    PROVE  Rows' = Rows + p.amount
<1>1. \A x \in payments \cup {p} : RowAmount[x] \in Nat
  BY RowsFacts, TotalFacts DEF RowAmount, Receipt
<1>2. Sum(RowAmount, payments \cup {p}) = Sum(RowAmount, payments) + RowAmount[p]
  BY <1>1, RowsFacts, SumPutIn
<1>3. RowAmount[p] = p.amount
  BY DEF RowAmount
<1> QED
  BY <1>2, <1>3 DEF Rows

-----------------------------------------------------------------------------
(* The shape of the steps. *)

\* There is one handler.
LEMMA OneSlot == ASSUME Calm, NEW r \in Slot PROVE Slot = {r}
  BY DEF Calm

\* A transaction that landed is not one that is to be sent, and is real.
LEMMA HeldFacts ==
    ASSUME CInv
    PROVE  /\ \A tx \in succeeded : tx \in Tx /\ tx.seq <= seq /\ tx # NoTx
           /\ \A tx \in pending : tx \notin succeeded
           /\ \A p \in payments : p.tx \in succeeded
           /\ ~Held(Idle)
<1>1. \A tx \in succeeded : tx \in Tx /\ tx.seq <= seq /\ tx.seq \in Nat /\ seq \in Nat
  BY DEF CInv, NetworkTypes, Tx
<1>2. \A tx \in pending : tx.seq = seq + 1
  BY DEF CInv, NetworkTypes
<1>3. \A p \in payments : p.tx \in succeeded
  BY DEF CInv, Receipts
<1> QED
  BY <1>1, <1>2, <1>3, NoTxFacts DEF Held, Idle

\* Nothing waits unless the handler polls.
LEMMA NothingWaits ==
    ASSUME Calm, KInv, NEW r \in Slot,
           req[r].pc # "poll" \/ req[r].tx \notin pending
    PROVE  pending = {}
  BY OneSlot DEF KInv, Waiting

\* Nothing has happened.
LEMMA InitKInv == Calm /\ Init => KInv
<1> SUFFICES ASSUME Calm, Init PROVE KInv
  OBVIOUS
<1>1. Receipted = {} /\ Paid = {} /\ Withdrawals = {} /\ Rows = 0
  BY SumOfNone DEF Init, Receipted, Paid, Withdrawals, Rows
<1>2. Cardinality(Withdrawals) = 0
  BY <1>1, FS_EmptySet
<1>3. Waiting /\ Rowed
  BY <1>1 DEF Init, Waiting, Rowed
<1>4. \A r \in Slot : req[r] = Idle
  BY DEF Init
<1>5. PaidOut = 0 /\ confirmed = 0 /\ ~Held(Idle)
  BY DEF Init, PaidOut, Payout, Held, Idle
<1>6. Accounts(Idle)
  BY <1>1, <1>2, <1>5 DEF Accounts, HoldsRelease, HoldsClosing, HoldsWithdrawal
<1> QED
  BY <1>3, <1>4, <1>6 DEF KInv

\* The handler moves, and nothing the accounts are about does.
LEMMA QuietStep ==
    ASSUME Calm, KInv, NEW r \in Slot, NEW q, req' = [req EXCEPT ![r] = q],
           req \in [Slot -> RequestState],
           UNCHANGED <<database, received, seq, succeeded, confirmed>>,
           pending' = {} \/ (q.pc = "poll" /\ pending' = {q.tx}),
           q # Idle => Checked(q), Accounts(q)
    PROVE  KInv'
<1>1. Slot = {r} /\ req'[r] = q
  BY OneSlot
<1>2. Waiting'
  BY <1>1 DEF Waiting
<1>3. /\ Receipted' = Receipted /\ Paid' = Paid /\ Withdrawals' = Withdrawals
      /\ Rows' = Rows /\ PaidOut' = PaidOut
  BY DEF database, Receipted, Paid, Withdrawals, Rows, PaidOut
<1>4. Rowed'
  BY <1>3 DEF KInv, Rowed, database
<1>5. ASSUME NEW v, v = req'[r], v # Idle PROVE Checked(v)'
  BY <1>1, <1>5 DEF Checked, database
<1>6. ASSUME NEW v, v = req'[r] PROVE Accounts(v)'
  BY <1>1, <1>3, <1>6
  DEF Accounts, HoldsRelease, HoldsClosing, HoldsWithdrawal, Held
<1>7. /\ req'[r] # Idle => Checked(req[r])'
      /\ Accounts(req[r])'
  BY <1>5, <1>6 DEF Checked, Accounts, HoldsRelease, HoldsClosing, HoldsWithdrawal, Held
<1> QED
  BY <1>1, <1>2, <1>4, <1>7 DEF KInv

\* A handler that answers without having recorded anything.
LEMMA AnswersCalm ==
    ASSUME Calm, CInv, KInv, NEW r \in Slot, Answer(r), pending = {},
           UNCHANGED <<database, received, seq, pending, succeeded, confirmed>>,
           ~Held(req[r])
    PROVE  KInv'
<1>1. Accounts(Idle)
  BY HeldFacts DEF KInv, Accounts, HoldsRelease, HoldsClosing, HoldsWithdrawal
<1> QED
  BY <1>1, QuietStep DEF Answer, CInv

-----------------------------------------------------------------------------
(* The steps of a handler that write nothing. *)

\* A request begins while the books agree.
LEMMA BeginCalm ==
    ASSUME Calm, CInv, KInv, NEW r \in Slot, NEW kind \in Endpoint, NEW m, NEW call,
           NEW pc \in {"prepare", "remaining", "commit"},
           Begin(r, kind, m, call, pc),
           kind = "withdraw" => call = Invoke("payment", 0, "none"),
           kind = "create" => contract.status = "None",
           kind \in {"approve", "resolve", "cancel"} => contract.status # "None",
           kind = "approve" => milestone[m] = "IN_REVIEW",
           kind = "submit" => m \in Milestone /\ milestone[m] = "PENDING",
           pc = "remaining" => kind = "cancel"
    PROVE  KInv'
<1> DEFINE q == [kind |-> kind, pc |-> pc, ms |-> m, call |-> call, tx |-> NoTx, rest |-> 0]
<1>1. /\ req[r] = Idle /\ req' = [req EXCEPT ![r] = q]
      /\ UNCHANGED <<database, received, seq, pending, succeeded, confirmed>>
  BY DEF Begin, network, escrow
<1>2. pending = {}
  BY <1>1, NothingWaits DEF Idle
<1>3. ~Held(q) /\ ~Held(Idle)
  BY HeldFacts DEF Held
<1>4. Checked(q)
  BY HeldFacts DEF Checked
<1>5. Accounts(q)
  <2>1. Accounts(Idle)
    BY <1>1 DEF KInv
  <2> HIDE DEF q
  <2> QED
    BY <1>3, <2>1 DEF Accounts, HoldsRelease, HoldsClosing, HoldsWithdrawal
<1> HIDE DEF q
<1> QED
  BY <1>1, <1>2, <1>4, <1>5, QuietStep DEF CInv

\* The first step of each endpoint.
LEMMA RequestCalm == ASSUME Calm, CInv, KInv, NEW r \in Slot, Request(r) PROVE KInv'
<1>1. CASE Create(r)
  BY <1>1, BeginCalm DEF Create, Endpoint
<1>2. CASE JobCancel(r)
  BY <1>2, BeginCalm DEF JobCancel, Endpoint
<1>3. CASE ConfirmFund(r)
  BY <1>3, BeginCalm DEF ConfirmFund, Endpoint
<1>4. CASE RaiseDispute(r)
  BY <1>4, BeginCalm DEF RaiseDispute, BeginCall, Endpoint
<1>5. CASE Withdraw(r)
  BY <1>5, BeginCalm DEF Withdraw, BeginCall, Endpoint
<1>6. ASSUME NEW m \in Milestone, SubmitMilestone(r, m) PROVE KInv'
  BY <1>6, BeginCalm DEF SubmitMilestone, Endpoint
<1>7. ASSUME NEW m \in Milestone, ApproveMilestone(r, m) PROVE KInv'
  BY <1>7, BeginCalm DEF ApproveMilestone, BeginCall, Endpoint
<1>8. ASSUME NEW decision \in Decision, Resolve(r, decision) PROVE KInv'
  BY <1>8, BeginCalm DEF Resolve, BeginCall, Endpoint
<1>9. ASSUME NEW byAdmin \in BOOLEAN, Cancel(r, byAdmin) PROVE KInv'
  BY <1>9, BeginCalm DEF Cancel, BeginCall, Endpoint
<1> QED
  BY <1>1, <1>2, <1>3, <1>4, <1>5, <1>6, <1>7, <1>8, <1>9 DEF Request

\* What the handler that runs has checked.
LEMMA RunningCalm ==
    ASSUME CInv, KInv, NEW r \in Slot, req[r].pc # "idle"
    PROVE  /\ req[r] \in RequestState \ {Idle} /\ Holds(req[r])
           /\ Checked(req[r]) /\ Accounts(req[r])
  BY Running DEF KInv, Idle

\* A transaction is built with the next sequence number.
LEMMA PrepareCalm == ASSUME Calm, CInv, KInv, NEW r \in Slot, Prepare(r) PROVE KInv'
<1>1. /\ req[r].pc = "prepare" /\ ~Held(req[r])
      /\ UNCHANGED <<database, received, seq, pending, succeeded, confirmed>>
  BY DEF Prepare, network, escrow, Held
<1>2. pending = {}
  BY <1>1, NothingWaits
<1>3. CASE Answer(r)
  BY <1>1, <1>2, <1>3, AnswersCalm
<1>4. ASSUME NEW tx, tx.seq = seq + 1,
             req' = [req EXCEPT ![r].pc = "send", ![r].tx = tx]
      PROVE  KInv'
  <2> DEFINE q == [req[r] EXCEPT !.pc = "send", !.tx = tx]
  <2>1. req[r] \in RequestState \ {Idle} /\ Checked(req[r]) /\ Accounts(req[r])
    BY <1>1, RunningCalm
  <2>2. /\ q.kind = req[r].kind /\ q.ms = req[r].ms /\ q.call = req[r].call
        /\ q.pc = "send" /\ q.tx = tx
    BY <2>1, IdleFacts
  <2>3. req' = [req EXCEPT ![r] = q]
    BY <1>4, <2>1 DEF CInv
  <2> HIDE DEF q
  <2>4. Checked(q)
    BY <1>1, <1>4, <2>1, <2>2 DEF Checked
  <2>5. Accounts(q)
    BY <1>1, <2>1, <2>2
    DEF Accounts, HoldsRelease, HoldsClosing, HoldsWithdrawal, Held
  <2> QED
    BY <1>1, <1>2, <2>3, <2>4, <2>5, QuietStep DEF CInv
<1>5. \/ Answer(r)
      \/ \E tx : /\ tx.seq = seq + 1
                 /\ req' = [req EXCEPT ![r].pc = "send", ![r].tx = tx]
  BY DEF Prepare
<1> QED
  BY <1>3, <1>4, <1>5

\* Nothing else waits, so what is sent is accepted, and polled for.
LEMMA SendCalm == ASSUME Calm, CInv, KInv, NEW r \in Slot, Send(r) PROVE KInv'
<1>1. /\ req[r].pc = "send" /\ ~Held(req[r])
      /\ UNCHANGED <<database, received, seq, succeeded, confirmed>>
  BY DEF Send, escrow, Held
<1>2. pending = {}
  BY <1>1, NothingWaits
<1>3. req[r] \in RequestState \ {Idle} /\ Checked(req[r]) /\ Accounts(req[r])
  BY <1>1, RunningCalm
<1>4. req[r].tx.seq = seq + 1
  BY <1>1, <1>3 DEF Checked
<1>5. GoTo(r, "poll") /\ pending' = {req[r].tx}
  BY <1>2, <1>4 DEF Send
<1> DEFINE q == [req[r] EXCEPT !.pc = "poll"]
<1>6. /\ q.kind = req[r].kind /\ q.ms = req[r].ms /\ q.call = req[r].call
      /\ q.pc = "poll" /\ q.tx = req[r].tx
  BY <1>3, IdleFacts
<1>7. req' = [req EXCEPT ![r] = q]
  BY <1>3, <1>5 DEF CInv, GoTo
<1> HIDE DEF q
<1>8. q.tx \notin succeeded
  <2>1. \A tx \in succeeded : tx.seq \in Nat /\ tx.seq <= seq /\ seq \in Nat
    BY DEF CInv, NetworkTypes, Tx
  <2> QED
    BY <1>4, <1>6, <2>1
<1>9. Checked(q)
  BY <1>1, <1>3, <1>6, <1>8, HeldFacts DEF Checked
<1>10. Accounts(q)
  BY <1>1, <1>3, <1>6, <1>8
  DEF Accounts, HoldsRelease, HoldsClosing, HoldsWithdrawal, Held
<1> QED
  BY <1>1, <1>5, <1>6, <1>7, <1>9, <1>10, QuietStep DEF CInv

\* What a transaction that landed calls is what its endpoint does.
LEMMA HeldCall ==
    ASSUME CInv, KInv, NEW r \in Slot, Held(req[r])
    PROVE  /\ req[r].kind = "approve" =>
                 /\ req[r].tx.fn = "release_milestone" /\ req[r].ms \in Milestone
                 /\ req[r].tx.amount = Price[req[r].ms]
           /\ req[r].kind = "dispute" => req[r].tx.fn = "dispute"
           /\ req[r].kind \in {"resolve", "cancel"} => req[r].tx.fn \in Closing
           /\ req[r].kind = "withdraw" => req[r].tx.fn = "payment"
           /\ req[r].kind \in {"approve", "dispute", "resolve", "cancel", "withdraw"}
<1> DEFINE q == req[r]
<1>1. q \in RequestState \ {Idle} /\ Holds(q) /\ Checked(q)
  BY RunningCalm DEF Held
<1>2. q.tx # NoTx
  BY HeldFacts DEF Held
<1>3. q.call # NoTx /\ q.pc # "prepare"
  BY <1>1, <1>2 DEF Holds, Held
<1> HIDE DEF q
<1>4. q.tx.fn = q.call.fn /\ q.tx.amount = q.call.amount
  BY <1>1, <1>3 DEF Holds
<1>5. q.kind \in {"approve", "dispute", "resolve", "cancel", "withdraw"}
  BY <1>1, <1>3 DEF Holds, Checked, Endpoint
<1>6. q.kind = "cancel" => q.call = Invoke("refund", 0, "none")
  BY <1>1, <1>3 DEF Holds
<1> QED
  BY <1>1, <1>4, <1>5, <1>6 DEF Holds, Checked, Invoke, Closing, q

\* The handler stays until its transaction is decided.
LEMMA PollCalm == ASSUME Calm, CInv, KInv, NEW r \in Slot, Poll(r) PROVE KInv'
<1>1. /\ req[r].pc = "poll"
      /\ UNCHANGED <<database, received, seq, pending, succeeded, confirmed>>
  BY DEF Poll, network, escrow
<1>2. CASE req[r].tx \notin succeeded
  <2>1. req[r].tx \notin pending /\ Answer(r)
    BY <1>2 DEF Poll, Calm
  <2> QED
    BY <1>1, <1>2, <2>1, NothingWaits, AnswersCalm DEF Held
<1>3. CASE req[r].tx \in succeeded
  <2>1. pending = {}
    BY <1>3, HeldFacts, NothingWaits
  <2> DEFINE q == [req[r] EXCEPT !.pc = AfterCall(req[r].kind)]
  <2>2. req[r] \in RequestState \ {Idle} /\ Checked(req[r]) /\ Accounts(req[r])
    BY <1>1, RunningCalm
  <2>3. /\ q.kind = req[r].kind /\ q.ms = req[r].ms /\ q.call = req[r].call
        /\ q.pc = AfterCall(req[r].kind) /\ q.tx = req[r].tx
    BY <2>2, IdleFacts
  <2>4. req' = [req EXCEPT ![r] = q]
    BY <1>3, <2>2 DEF Poll, GoTo, CInv
  <2>5. Held(req[r])
    BY <1>1, <1>3 DEF Held
  <2>6. HoldsClosing(req[r]) => AfterCall(req[r].kind) = "remaining"
    BY <2>5, HeldCall DEF HoldsClosing, AfterCall, Closing
  <2>7. /\ AfterCall(req[r].kind) \in {"remaining", "commit"}
        /\ AfterCall(req[r].kind) = "remaining" => req[r].kind \in {"resolve", "cancel"}
    BY DEF AfterCall
  <2>8. req[r].kind \notin {"create", "submit"}
    BY <2>5, HeldCall
  <2> HIDE DEF q
  <2>9. Checked(q)
    BY <1>1, <2>2, <2>3, <2>7, <2>8 DEF Checked
  <2>10. Accounts(q)
    BY <2>2, <2>3, <2>5, <2>6, <2>7
    DEF Accounts, HoldsRelease, HoldsClosing, HoldsWithdrawal, Held
  <2> QED
    BY <1>1, <2>1, <2>4, <2>9, <2>10, QuietStep DEF CInv
<1> QED
  BY <1>2, <1>3

\* What _remainingAmount reads is what the rows lack.
LEMMA ReadRemainingCalm ==
    ASSUME Calm, CInv, KInv, NEW r \in Slot, ReadRemaining(r) PROVE KInv'
<1> DEFINE rest == IF Rows < Total THEN Total - Rows ELSE 0
           q == [req[r] EXCEPT !.pc = "commit", !.rest = rest]
<1>1. /\ req[r].pc = "remaining" /\ pending = {}
      /\ UNCHANGED <<database, received, seq, pending, succeeded, confirmed>>
  BY NothingWaits DEF ReadRemaining, network, escrow
<1>2. req[r] \in RequestState \ {Idle} /\ Holds(req[r]) /\ Checked(req[r]) /\ Accounts(req[r])
  BY <1>1, RunningCalm
<1>3. req' = [req EXCEPT ![r].pc = "commit", ![r].rest = rest]
  BY RowsFacts DEF ReadRemaining
<1>4. /\ q.kind = req[r].kind /\ q.ms = req[r].ms /\ q.call = req[r].call
      /\ q.pc = "commit" /\ q.tx = req[r].tx /\ q.rest = rest
  BY <1>2, IdleFacts
<1>5. req' = [req EXCEPT ![r] = q]
  BY <1>2, <1>3 DEF CInv
<1>6. Rows <= Total => Rows + rest = Total
  BY RowsFacts
<1>7. req[r].kind \in {"resolve", "cancel"}
  BY <1>1, <1>2 DEF Checked
<1> HIDE DEF q, rest
<1>8. Checked(q)
  BY <1>1, <1>2, <1>4, <1>7 DEF Checked
<1>9. Accounts(q)
  BY <1>1, <1>2, <1>4, <1>6
  DEF Accounts, HoldsRelease, HoldsClosing, HoldsWithdrawal, Held
<1> QED
  BY <1>1, <1>5, <1>8, <1>9, QuietStep DEF CInv

\* _maybeCompleteContract looks.
LEMMA MaybeCompleteCalm ==
    ASSUME Calm, CInv, KInv, NEW r \in Slot, MaybeComplete(r) PROVE KInv'
<1>1. /\ req[r].pc = "complete?" /\ ~Held(req[r]) /\ pending = {}
      /\ UNCHANGED <<database, received, seq, pending, succeeded, confirmed>>
  BY NothingWaits DEF MaybeComplete, At, network, escrow, Held
<1>2. CASE Answer(r)
  BY <1>1, <1>2, AnswersCalm
<1>3. CASE GoTo(r, "complete")
  <2> DEFINE q == [req[r] EXCEPT !.pc = "complete"]
  <2>1. req[r] \in RequestState \ {Idle} /\ Checked(req[r]) /\ Accounts(req[r])
    BY <1>1, RunningCalm
  <2>2. /\ q.kind = req[r].kind /\ q.ms = req[r].ms /\ q.call = req[r].call
        /\ q.pc = "complete" /\ q.tx = req[r].tx
    BY <2>1, IdleFacts
  <2>3. req' = [req EXCEPT ![r] = q]
    BY <1>3, <2>1 DEF GoTo, CInv
  <2> HIDE DEF q
  <2>4. Checked(q)
    BY <1>1, <2>1, <2>2 DEF Checked
  <2>5. Accounts(q)
    BY <1>1, <2>1, <2>2
    DEF Accounts, HoldsRelease, HoldsClosing, HoldsWithdrawal, Held
  <2> QED
    BY <1>1, <2>3, <2>4, <2>5, QuietStep DEF CInv
<1> QED
  BY <1>2, <1>3 DEF MaybeComplete

-----------------------------------------------------------------------------
(* The writes. *)

\* The handler answers once it has written.
LEMMA WriteStep ==
    ASSUME Calm, CInv, KInv, NEW r \in Slot, Answer(r), req[r].pc \notin {"poll", "idle"},
           UNCHANGED pending, Rowed', Accounts(Idle)'
    PROVE  KInv'
<1>1. Slot = {r} /\ req'[r] = Idle /\ pending' = {}
  BY OneSlot, NothingWaits DEF Answer, CInv
<1>2. ASSUME NEW v, v = req'[r] PROVE Accounts(v)'
  BY <1>1, <1>2
<1>3. Accounts(req[r])'
  BY <1>2 DEF Accounts, HoldsRelease, HoldsClosing, HoldsWithdrawal, Held
<1>4. Waiting'
  BY <1>1 DEF Waiting
<1> QED
  BY <1>1, <1>3, <1>4 DEF KInv

\* It has written neither rows nor withdrawals, and held none to write.
LEMMA NoRowWritten ==
    ASSUME Calm, CInv, KInv, NEW r \in Slot, Answer(r), req[r].pc \notin {"poll", "idle"},
           UNCHANGED <<payments, received, pending, succeeded, confirmed>>, Rowed',
           Held(req[r]) => req[r].tx.fn = "dispute"
    PROVE  KInv'
<1>1. Rows' = Rows /\ PaidOut' = PaidOut /\ Withdrawals' = Withdrawals
  BY DEF Rows, PaidOut, Withdrawals
<1>2. ~HoldsRelease(req[r]) /\ ~HoldsClosing(req[r]) /\ ~HoldsWithdrawal(req[r])
  BY DEF HoldsRelease, HoldsClosing, HoldsWithdrawal, Closing
<1>3. Accounts(req[r])
  BY DEF KInv
<1>4. Rows' = PaidOut' /\ confirmed' \in Nat /\ Cardinality(Withdrawals)' = confirmed'
  BY <1>1, <1>2, <1>3 DEF Accounts
<1>5. ~Held(Idle)'
  BY DEF Held, Idle
<1>6. Accounts(Idle)'
  BY <1>4, <1>5 DEF Accounts, HoldsRelease, HoldsClosing, HoldsWithdrawal
<1> QED
  BY <1>6, WriteStep

\* create writes the milestones of a contract that has no rows yet.
LEMMA CreateCommitCalm ==
    ASSUME Calm, CInv, KInv, NEW r \in Slot, CreateCommit(r) PROVE KInv'
<1>1. /\ req[r].pc = "commit" /\ req[r].kind = "create" /\ ~Held(req[r])
      /\ UNCHANGED <<payments, received, seq, pending, succeeded, confirmed>>
  <2>1. req[r].pc = "commit" /\ req[r].kind = "create"
    BY DEF CreateCommit, At
  <2> QED
    BY <2>1, HeldCall DEF CreateCommit, network, escrow
<1>2. req[r] \in RequestState \ {Idle} /\ Checked(req[r]) /\ Accounts(req[r])
  BY <1>1, RunningCalm
<1>3. contract.status = "None" /\ payments = {}
  BY <1>1, <1>2 DEF Checked, KInv, Rowed
<1>4. /\ contract'.status = "PENDING" /\ GoTo(r, "build")
      /\ milestone' = [m \in Milestone |-> "PENDING"]
  BY <1>3 DEF CreateCommit
<1> DEFINE q == [req[r] EXCEPT !.pc = "build"]
<1>5. q.kind = req[r].kind /\ q.pc = "build" /\ req' = [req EXCEPT ![r] = q]
  BY <1>2, <1>4, IdleFacts DEF GoTo, CInv
<1> HIDE DEF q
<1>6. Rowed'
  BY <1>1, <1>3, <1>4 DEF Rowed, Receipted
<1>7. Slot = {r} /\ req'[r] = q /\ pending' = {}
  BY <1>1, <1>5, OneSlot, NothingWaits DEF CInv
<1>8. /\ Rows' = Rows /\ PaidOut' = PaidOut /\ Withdrawals' = Withdrawals
      /\ confirmed' = confirmed
  BY <1>1 DEF Rows, PaidOut, Withdrawals
<1>9. ASSUME NEW v, v = req'[r] PROVE Checked(v)' /\ Accounts(v)'
  <2>1. v.kind = "create" /\ v.pc = "build"
    BY <1>1, <1>5, <1>7, <1>9
  <2>2. Checked(v)'
    BY <2>1 DEF Checked, Endpoint
  <2>3. ~Held(v)'
    BY <2>1 DEF Held
  <2> QED
    BY <1>1, <1>2, <1>8, <2>2, <2>3
    DEF Accounts, HoldsRelease, HoldsClosing, HoldsWithdrawal
<1>10. Checked(req[r])' /\ Accounts(req[r])'
  BY <1>9 DEF Checked, Accounts, HoldsRelease, HoldsClosing, HoldsWithdrawal, Held
<1>11. Waiting'
  BY <1>7 DEF Waiting
<1> QED
  BY <1>6, <1>7, <1>10, <1>11 DEF KInv

\* The writes of a status.
LEMMA StatusWritesCalm ==
    ASSUME Calm, CInv, KInv, NEW r \in Slot,
           \/ BuildFundXdr(r) \/ JobCancelCommit(r) \/ ConfirmFundCommit(r)
           \/ SubmitMilestoneCommit(r) \/ CompleteCommit(r) \/ RaiseDisputeCommit(r)
    PROVE  KInv'
<1>1. /\ Answer(r) /\ req[r].pc \in {"build", "commit", "complete"}
      /\ UNCHANGED <<payments, received, seq, pending, succeeded, confirmed>>
      /\ req[r].kind \in {"create", "job-cancel", "confirm", "submit", "dispute"}
         \/ req[r].pc = "complete"
  BY DEF BuildFundXdr, JobCancelCommit, ConfirmFundCommit, SubmitMilestoneCommit,
         CompleteCommit, RaiseDisputeCommit, At, database, network, escrow
<1>2. Held(req[r]) => req[r].tx.fn = "dispute"
  BY <1>1, HeldCall DEF Held
<1>3. Receipted' = Receipted
  BY <1>1 DEF Receipted
<1>4. contract'.status = "None" => contract.status = "None"
  <2>1. contract \in [status : {"None", "PENDING", "ACTIVE", "DISPUTED",
                               "COMPLETED", "CANCELLED"}, hash : BOOLEAN]
    BY DEF CInv, DatabaseTypes
  <2> QED
    BY <2>1 DEF BuildFundXdr, JobCancelCommit, ConfirmFundCommit, SubmitMilestoneCommit,
                CompleteCommit, RaiseDisputeCommit, database
<1>5. Receipted \subseteq Paid'
  <2>1. CASE SubmitMilestoneCommit(r)
    <3>1. req[r].kind = "submit"
      BY <2>1 DEF SubmitMilestoneCommit, At
    <3>2. Checked(req[r])
      BY <1>1, RunningCalm
    <3>3. milestone[req[r].ms] = "PENDING"
      BY <3>1, <3>2 DEF Checked
    <3>4. milestone' = [milestone EXCEPT ![req[r].ms] = "IN_REVIEW"]
      BY <2>1 DEF SubmitMilestoneCommit
    <3> QED
      BY <3>3, <3>4 DEF KInv, Rowed, Paid, CInv, DatabaseTypes
  <2>2. CASE milestone' = milestone
    BY <2>2 DEF KInv, Rowed, Paid
  <2> QED
    BY <2>1, <2>2 DEF BuildFundXdr, JobCancelCommit, ConfirmFundCommit,
       CompleteCommit, RaiseDisputeCommit, database
<1>6. Rowed'
  BY <1>1, <1>3, <1>4, <1>5 DEF KInv, Rowed
<1> QED
  BY <1>1, <1>2, <1>6, NoRowWritten

\* A row with a transaction and a milestone of its own.
LEMMA RowWritten ==
    ASSUME CInv, KInv, NEW p \in Receipt, Unique(p), payments' = payments \cup {p},
           contract'.status # "None", Paid \subseteq Paid',
           p.milestone \in Milestone =>
              p.amount = Price[p.milestone] /\ p.milestone \in Paid'
    PROVE  Rowed' /\ Rows' = Rows + p.amount
<1>1. \A x \in payments : /\ x.tx # p.tx
                          /\ p.milestone \in Milestone => x.milestone # p.milestone
  BY NoMilestoneAssumption DEF Unique
<1>2. Rows' = Rows + p.amount
  BY <1>1, RowsGrow
<1>3. Receipted' \subseteq Receipted \cup {p.milestone}
  BY DEF Receipted
<1>4. Receipted' \subseteq Milestone
  BY DEF Receipted
<1>5. Rowed'
  BY <1>1, <1>3, <1>4 DEF KInv, Rowed
<1> QED
  BY <1>2, <1>5

\* The transaction of approveMilestone records the release that it holds:
\* both unique columns are free, because nobody else has recorded it.
LEMMA ApproveCommitCalm ==
    ASSUME Calm, CInv, KInv, NEW r \in Slot, ApproveMilestoneCommit(r) PROVE KInv'
<1> DEFINE m == req[r].ms
           p == Payment(m, Price[m], req[r].tx)
           q == [req[r] EXCEPT !.pc = "complete?"]
<1>1. /\ req[r].pc = "commit" /\ req[r].kind = "approve"
      /\ UNCHANGED <<contract, received, seq, pending, succeeded, confirmed>>
  BY DEF ApproveMilestoneCommit, At, network, escrow
<1>2. /\ req[r] \in RequestState \ {Idle} /\ Holds(req[r])
      /\ Checked(req[r]) /\ Accounts(req[r])
  BY <1>1, RunningCalm
<1>3. Held(req[r])
  BY <1>1, <1>2, CallTypes, NoTxFacts DEF Holds, Held
<1>4. /\ HoldsRelease(req[r]) /\ ~HoldsWithdrawal(req[r])
      /\ m \in Milestone /\ req[r].tx.amount = Price[m]
  BY <1>1, <1>3, HeldCall DEF HoldsRelease, HoldsWithdrawal
<1>5. milestone[m] = "IN_REVIEW" /\ contract.status # "None"
  BY <1>1, <1>2 DEF Checked
<1>6. p \in Receipt /\ p.milestone = m /\ p.amount = Price[m] /\ p.tx = req[r].tx
  BY <1>3, <1>4, HeldFacts, TotalFacts DEF Payment, Receipt, Held
<1>7. Unique(p)
  <2>1. m \notin Receipted
    BY <1>5 DEF KInv, Rowed, Paid
  <2>2. \A x \in payments : x.milestone # m
    BY <1>4, <2>1 DEF Receipted
  <2>3. \A x \in payments : x.tx # req[r].tx
    BY <1>1, <1>2 DEF Checked
  <2> QED
    BY <1>6, <2>2, <2>3 DEF Unique
<1>8. /\ milestone' = [milestone EXCEPT ![m] = "PAID"]
      /\ payments' = payments \cup {p} /\ GoTo(r, "complete?")
  BY <1>7 DEF ApproveMilestoneCommit
<1>9. Paid' = Paid \cup {m}
  BY <1>4, <1>8 DEF Paid, CInv, DatabaseTypes
<1>10. Rowed' /\ Rows' = Rows + Price[m]
  <2> HIDE DEF p, m
  <2> QED
    BY <1>1, <1>5, <1>6, <1>7, <1>8, <1>9, RowWritten
<1>11. q.kind = "approve" /\ q.pc = "complete?" /\ req' = [req EXCEPT ![r] = q]
  BY <1>1, <1>2, <1>8, IdleFacts DEF GoTo, CInv
<1> HIDE DEF q, p
<1>12. Slot = {r} /\ req'[r] = q /\ pending' = {}
  BY <1>1, <1>11, OneSlot, NothingWaits DEF CInv
<1>13. /\ PaidOut' = PaidOut /\ Withdrawals' = Withdrawals /\ confirmed' = confirmed
  BY <1>1 DEF PaidOut, Withdrawals
<1>14. ASSUME NEW v, v = req'[r] PROVE Checked(v)' /\ Accounts(v)'
  <2>1. v.kind = "approve" /\ v.pc = "complete?"
    BY <1>11, <1>12, <1>14
  <2>2. Checked(v)'
    BY <1>1, <1>5, <2>1 DEF Checked, Endpoint
  <2>3. ~Held(v)'
    BY <2>1 DEF Held
  <2>4. Rows' = PaidOut'
    BY <1>2, <1>4, <1>10, <1>13 DEF Accounts
  <2> QED
    BY <1>2, <1>4, <1>13, <2>2, <2>3, <2>4
    DEF Accounts, HoldsRelease, HoldsClosing, HoldsWithdrawal
<1>15. Checked(req[r])' /\ Accounts(req[r])'
  BY <1>14 DEF Checked, Accounts, HoldsRelease, HoldsClosing, HoldsWithdrawal, Held
<1>16. Waiting'
  BY <1>12 DEF Waiting
<1> QED
  BY <1>10, <1>12, <1>15, <1>16 DEF KInv

\* The transaction of resolveDispute or cancel records the rest.
LEMMA ClosingCommit ==
    ASSUME Calm, CInv, KInv, NEW r \in Slot, Answer(r), req[r].pc = "commit",
           HoldsClosing(req[r]),
           payments' = payments \cup {Payment(NoMilestone, req[r].rest, req[r].tx)},
           contract'.status # "None",
           UNCHANGED <<milestone, received, pending, succeeded, confirmed>>
    PROVE  KInv'
<1> DEFINE p == Payment(NoMilestone, req[r].rest, req[r].tx)
<1>1. req[r] \in RequestState \ {Idle} /\ Checked(req[r]) /\ Accounts(req[r])
  BY RunningCalm
<1>2. p \in Receipt /\ p.milestone = NoMilestone /\ p.amount = req[r].rest /\ p.tx = req[r].tx
  BY <1>1, IdleFacts, HeldFacts DEF Payment, Receipt, HoldsClosing, Held
<1>3. Unique(p)
  BY <1>1, <1>2 DEF Unique, Checked
<1>4. Paid' = Paid
  BY DEF Paid
<1>5. Rowed' /\ Rows' = Rows + req[r].rest
  <2> HIDE DEF p
  <2>1. payments' = payments \cup {p}
    BY DEF p
  <2> QED
    BY <1>2, <1>3, <1>4, <2>1, NoMilestoneAssumption, RowWritten
<1>6. PaidOut' = PaidOut /\ Withdrawals' = Withdrawals
  BY DEF PaidOut, Withdrawals
<1>7. Rows' = PaidOut'
  BY <1>1, <1>5, <1>6 DEF Accounts
<1>8. ~HoldsWithdrawal(req[r])
  BY DEF HoldsWithdrawal, HoldsClosing, Closing
<1>9. ~Held(Idle)'
  BY DEF Held, Idle
<1>10. Accounts(Idle)'
  BY <1>1, <1>6, <1>7, <1>8, <1>9
  DEF Accounts, HoldsRelease, HoldsClosing, HoldsWithdrawal
<1> QED
  BY <1>5, <1>10, WriteStep

\* resolveDispute finds its row free.
LEMMA ResolveCommitCalm ==
    ASSUME Calm, CInv, KInv, NEW r \in Slot, ResolveCommit(r) PROVE KInv'
<1>1. /\ req[r].pc = "commit" /\ req[r].kind = "resolve" /\ Answer(r)
      /\ UNCHANGED <<milestone, received, seq, pending, succeeded, confirmed>>
  BY DEF ResolveCommit, At, network, escrow
<1>2. req[r] \in RequestState \ {Idle} /\ Holds(req[r]) /\ Checked(req[r])
  BY <1>1, RunningCalm
<1>3. HoldsClosing(req[r])
  <2>1. Held(req[r])
    BY <1>1, <1>2, NoTxFacts DEF Holds, Held
  <2> QED
    BY <1>1, <2>1, HeldCall DEF HoldsClosing
<1>4. Unique(Payment(NoMilestone, req[r].rest, req[r].tx))
  BY <1>1, <1>2 DEF Unique, Payment, Checked
<1>5. /\ payments' = payments \cup {Payment(NoMilestone, req[r].rest, req[r].tx)}
      /\ contract'.status # "None"
  BY <1>4 DEF ResolveCommit, CInv, DatabaseTypes
<1> QED
  BY <1>1, <1>3, <1>5, ClosingCommit

\* cancel as well, or it adds none because it made no call.
LEMMA CancelCommitCalm ==
    ASSUME Calm, CInv, KInv, NEW r \in Slot, CancelCommit(r) PROVE KInv'
<1>1. /\ req[r].pc = "commit" /\ req[r].kind = "cancel" /\ Answer(r)
      /\ UNCHANGED <<milestone, received, seq, pending, succeeded, confirmed>>
  BY DEF CancelCommit, At, network, escrow
<1>2. req[r] \in RequestState \ {Idle} /\ Holds(req[r]) /\ Checked(req[r])
  BY <1>1, RunningCalm
<1>3. Unique(Payment(NoMilestone, req[r].rest, req[r].tx))
  BY <1>1, <1>2 DEF Unique, Payment, Checked
<1>4. contract'.status = "CANCELLED"
  BY <1>3 DEF CancelCommit, CInv, DatabaseTypes
<1>5. CASE req[r].tx = NoTx
  <2>1. payments' = payments /\ Paid' = Paid /\ Receipted' = Receipted
    BY <1>1, <1>3, <1>5 DEF CancelCommit, Paid, Receipted
  <2>2. Rowed'
    BY <1>4, <2>1 DEF KInv, Rowed
  <2>3. ~Held(req[r])
    BY <1>5, HeldFacts DEF Held
  <2> QED
    BY <1>1, <2>1, <2>2, <2>3, NoRowWritten
<1>6. CASE req[r].tx # NoTx
  <2>1. Held(req[r])
    BY <1>1, <1>2, <1>6 DEF Holds, Held
  <2>2. HoldsClosing(req[r])
    BY <1>1, <2>1, HeldCall DEF HoldsClosing
  <2>3. payments' = payments \cup {Payment(NoMilestone, req[r].rest, req[r].tx)}
    BY <1>3, <1>6 DEF CancelCommit
  <2> QED
    BY <1>1, <1>4, <2>2, <2>3, ClosingCommit
<1> QED
  BY <1>5, <1>6

\* A withdrawal is answered once.
LEMMA WithdrawConfirmCalm ==
    ASSUME Calm, CInv, KInv, NEW r \in Slot, WithdrawConfirm(r) PROVE KInv'
<1>1. /\ req[r].pc = "commit" /\ req[r].kind = "withdraw" /\ Answer(r)
      /\ UNCHANGED <<database, received, seq, pending, succeeded>>
      /\ confirmed' = confirmed + 1
  BY DEF WithdrawConfirm, At, escrow
<1>2. /\ req[r] \in RequestState \ {Idle} /\ Holds(req[r])
      /\ Checked(req[r]) /\ Accounts(req[r])
  BY <1>1, RunningCalm
<1>3. HoldsWithdrawal(req[r]) /\ ~HoldsRelease(req[r]) /\ ~HoldsClosing(req[r])
  <2>1. req[r].call # NoTx
    BY <1>1, <1>2, CallTypes, NoTxFacts DEF Checked
  <2>2. Held(req[r])
    BY <1>1, <1>2, <2>1 DEF Holds, Held
  <2> QED
    BY <1>1, <2>2, HeldCall DEF HoldsWithdrawal, HoldsRelease, HoldsClosing, Closing
<1>4. /\ Rows' = Rows /\ PaidOut' = PaidOut /\ Withdrawals' = Withdrawals
      /\ Receipted' = Receipted /\ Paid' = Paid
  BY <1>1 DEF Rows, PaidOut, Withdrawals, Receipted, Paid, database
<1>5. Rowed'
  BY <1>1, <1>4 DEF KInv, Rowed, database
<1>6. ~Held(Idle)'
  BY DEF Held, Idle
<1>7. Accounts(Idle)'
  BY <1>1, <1>2, <1>3, <1>4, <1>6
  DEF Accounts, HoldsRelease, HoldsClosing, HoldsWithdrawal
<1> QED
  BY <1>1, <1>5, <1>7, WriteStep

\* Every step of the handler.
LEMMA HandleCalm == ASSUME Calm, CInv, KInv, NEW r \in Slot, Handle(r) PROVE KInv'
  BY PrepareCalm, SendCalm, PollCalm, ReadRemainingCalm, CreateCommitCalm,
     StatusWritesCalm, ApproveCommitCalm, MaybeCompleteCalm, ResolveCommitCalm,
     CancelCommitCalm, WithdrawConfirmCalm
  DEF Handle

-----------------------------------------------------------------------------
(* The chain moves. *)

\* What a call that succeeds pays, and to whom.
LEMMA Payouts ==
    ASSUME CInv, Priced, NEW c, c.fn \in Function, c.amount \in Nat, NEW caller,
           ChainError(c, caller) = "Ok", Execute(c)
    PROVE  /\ c.fn \in {"payment", "dispute"} => received' = received
           /\ c.fn = "release_milestone" => PaidOut' = PaidOut + c.amount
           /\ c.fn \in Closing => PaidOut <= Total /\ PaidOut' = Total
<1>1. /\ received \in [freelancer : Nat, client : Nat] /\ Total \in Nat
      /\ entry \in EscrowEntry \cup {NoEntry}
  BY TotalFacts DEF CInv, Books
<1>2. CASE c.fn \in {"payment", "dispute"}
  <2>1. received' = Payout(received.freelancer + 0, received.client + 0)
    BY <1>2 DEF Execute, ChainPayout, Payout
  <2> QED
    BY <1>1, <1>2, <2>1 DEF Payout, Closing
<1>3. CASE c.fn = "release_milestone"
  <2>1. received' = Payout(received.freelancer + c.amount, received.client + 0)
    BY <1>3 DEF Execute, ChainPayout, Payout
  <2> QED
    BY <1>1, <1>3, <2>1 DEF Payout, PaidOut, Closing
<1>4. CASE c.fn \in Closing
  <2>1. /\ entry.status \in Live /\ entry'.status \in Settled /\ Books'
        /\ entry.total = Total /\ entry'.total = Total
    <3>1. entry.status \in Live /\ entry'.status \in Settled /\ Books'
      BY <1>4, ChainStep DEF Closing
    <3> QED
      BY <1>4, <3>1, ChainStep, LiveFacts DEF Priced
  <2>2. PaidOut' = Total
    BY <2>1 DEF Books, PaidOut
  <2>3. /\ received.freelancer = entry.released /\ received.client = 0
        /\ entry.released < Total
    BY <2>1 DEF CInv, Books
  <2>4. PaidOut <= Total
    BY <1>1, <2>3 DEF PaidOut
  <2> QED
    BY <1>4, <2>2, <2>4 DEF Closing
<1> QED
  BY <1>2, <1>3, <1>4

\* The database and the handlers stay as they are.
LEMMA ChainCalm ==
    ASSUME Calm, CInv, KInv, UNCHANGED <<database, req>>, Waiting',
           \A r \in Slot : req[r].pc = "send" => seq' = seq,
           \A r \in Slot : Accounts(req[r])'
    PROVE  KInv'
<1>1. Receipted' = Receipted /\ Paid' = Paid
  BY DEF Receipted, Paid, database
<1>2. Rowed'
  BY <1>1 DEF KInv, Rowed, database
<1>3. ASSUME NEW r \in Slot, NEW v, v = req[r], v # Idle PROVE Checked(v)'
  BY <1>3 DEF KInv, Checked, database
<1>4. \A r \in Slot : req'[r] # Idle => Checked(req[r])'
  BY <1>3 DEF Checked
<1> QED
  BY <1>2, <1>4 DEF KInv

\* Nor does the money or the ledger of transactions move.
LEMMA NoMoneyMoves ==
    ASSUME Calm, CInv, KInv, pending' \subseteq pending,
           UNCHANGED <<database, req, received, succeeded, confirmed>>,
           \A r \in Slot : req[r].pc = "send" => seq' = seq
    PROVE  KInv'
<1>1. Waiting'
  BY DEF KInv, Waiting
<1>2. Rows' = Rows /\ PaidOut' = PaidOut /\ Withdrawals' = Withdrawals
  BY DEF Rows, PaidOut, Withdrawals, database
<1>3. ASSUME NEW r \in Slot, NEW v, v = req[r] PROVE Accounts(v)'
  BY <1>2, <1>3
  DEF KInv, Accounts, HoldsRelease, HoldsClosing, HoldsWithdrawal, Held
<1>4. \A r \in Slot : Accounts(req[r])'
  BY <1>3 DEF Accounts, HoldsRelease, HoldsClosing, HoldsWithdrawal, Held
<1> QED
  BY <1>1, <1>4, ChainCalm

\* A transaction is included: it is the one the handler polls for.
LEMMA LandCalm == ASSUME Calm, CInv, Priced, KInv, Land PROVE KInv'
<1>1. PICK tx \in pending :
         /\ seq' = tx.seq /\ pending' = pending \ {tx}
         /\ \/ /\ ChainError(tx, Admin) = "Ok" /\ Execute(tx)
               /\ succeeded' = succeeded \cup {tx}
            \/ UNCHANGED <<escrow, succeeded>>
  BY DEF Land
<1>2. PICK r \in Slot : req[r].pc = "poll" /\ req[r].tx = tx
  BY DEF KInv, Waiting
<1>3. Slot = {r} /\ UNCHANGED <<database, req, confirmed>>
  BY OneSlot DEF Land
<1>4. /\ tx \in Tx /\ tx \notin succeeded /\ pending' = {}
      /\ tx.fn \in Function /\ tx.amount \in Nat
  BY <1>1, HeldFacts DEF CInv, NetworkTypes, Tx
<1>5. CASE UNCHANGED <<escrow, succeeded>>
  BY <1>1, <1>2, <1>3, <1>5, NoMoneyMoves DEF escrow
<1>6. CASE ChainError(tx, Admin) = "Ok" /\ Execute(tx) /\ succeeded' = succeeded \cup {tx}
  <2>1. Execute(tx) /\ succeeded' = succeeded \cup {tx}
    BY <1>6
  <2>2. Waiting'
    BY <1>4 DEF Waiting
  <2>3. Accounts(req[r]) /\ ~Held(req[r])
    BY <1>2, <1>4 DEF KInv, Held
  <2>4. /\ Rows = PaidOut /\ confirmed \in Nat /\ Cardinality(Withdrawals) = confirmed
    BY <2>3 DEF Accounts, HoldsRelease, HoldsClosing, HoldsWithdrawal
  <2>5. Rows' = Rows
    BY <1>3 DEF Rows, database
  <2>6. /\ tx.fn \in {"payment", "dispute"} => received' = received
        /\ tx.fn = "release_milestone" => PaidOut' = PaidOut + tx.amount
        /\ tx.fn \in Closing => PaidOut <= Total /\ PaidOut' = Total
    BY <1>4, <1>6, <2>1, Payouts
  <2>7. /\ tx.fn = "payment" => Cardinality(Withdrawals)' = confirmed + 1
        /\ tx.fn # "payment" => Cardinality(Withdrawals)' = confirmed
    <3>1. IsFiniteSet(Withdrawals)
      BY FS_Subset DEF Withdrawals, CInv, NetworkTypes
    <3>2. CASE tx.fn = "payment"
      <4>1. Withdrawals' = Withdrawals \cup {tx} /\ tx \notin Withdrawals
        BY <1>4, <2>1, <3>2 DEF Withdrawals
      <4> QED
        BY <2>4, <3>1, <3>2, <4>1, FS_AddElement
    <3>3. CASE tx.fn # "payment"
      <4>1. Withdrawals' = Withdrawals
        BY <2>1, <3>3 DEF Withdrawals
      <4> QED
        BY <2>4, <3>3, <4>1
    <3> QED
      BY <3>2, <3>3
  <2>8. PaidOut' = IF tx.fn \in {"payment", "dispute"} THEN PaidOut ELSE PaidOut'
    BY <2>6 DEF PaidOut
  <2>9. tx.fn # "release"
    <3>1. Checked(req[r]) /\ Holds(req[r])
      BY <1>2, RunningCalm
    <3>2. req[r].call # NoTx /\ req[r].tx.fn = req[r].call.fn
      BY <1>2, <3>1 DEF Holds
    <3> QED
      BY <1>2, <3>1, <3>2 DEF Holds, Checked, Endpoint, Invoke
  <2>10. ASSUME NEW v, v = req'[r] PROVE Accounts(v)'
    <3>1. v.pc = "poll" /\ v.tx = tx /\ Held(v)'
      BY <1>2, <1>3, <2>1, <2>10 DEF Held
    <3>2. /\ HoldsRelease(v)' <=> tx.fn = "release_milestone"
          /\ HoldsClosing(v)' <=> tx.fn \in Closing
          /\ HoldsWithdrawal(v)' <=> tx.fn = "payment"
      BY <3>1 DEF HoldsRelease, HoldsClosing, HoldsWithdrawal
    <3>3. Rows' = PaidOut /\ confirmed' = confirmed
      BY <1>3, <2>4, <2>5
    <3>4. tx.fn \in {"payment", "dispute", "release_milestone"} \cup Closing
      BY <1>4, <2>9 DEF Function, Closing
    <3> QED
      BY <2>4, <2>6, <2>7, <2>8, <3>1, <3>2, <3>3, <3>4 DEF Accounts, Closing
  <2>11. \A s \in Slot : Accounts(req[s])'
    BY <1>3, <2>10 DEF Accounts, HoldsRelease, HoldsClosing, HoldsWithdrawal, Held
  <2> QED
    BY <1>2, <1>3, <2>2, <2>11, ChainCalm
<1> QED
  BY <1>1, <1>5, <1>6

\* A party's own call is a dispute, and pays nothing.
LEMMA DirectCalm == ASSUME Calm, CInv, Priced, KInv, Direct PROVE KInv'
<1>1. PICK c \in Invocation, caller \in Address :
         c.fn \in DirectCalls /\ DirectCall(c, caller)
  BY DEF Direct
<1>2. /\ c.fn = "dispute" /\ c.fn \in Function /\ c.amount \in Nat
      /\ ChainError(c, caller) = "Ok" /\ Execute(c)
      /\ UNCHANGED <<database, network, req>>
  BY <1>1, InvocationTypes DEF DirectCall, Calm
<1>3. received' = received
  BY <1>2, Payouts
<1> QED
  BY <1>2, <1>3, NoMoneyMoves DEF network

\* Every step keeps the invariant.
LEMMA NextCalm == Calm /\ CInv /\ Priced /\ KInv /\ [Next]_vars => KInv'
<1> SUFFICES ASSUME Calm, CInv, Priced, KInv, [Next]_vars PROVE KInv'
  OBVIOUS
<1>1. ASSUME NEW r \in Slot, Request(r) \/ Handle(r) \/ Die(r) PROVE KInv'
  BY <1>1, RequestCalm, HandleCalm DEF Die, Calm
<1>2. CASE Expire
  BY <1>2, NoMoneyMoves DEF Expire, escrow
<1>3. CASE Fund
  BY <1>3, NoMoneyMoves DEF Fund, network
<1>4. CASE UNCHANGED vars
  BY <1>4, NoMoneyMoves DEF vars, network, escrow
<1> QED
  BY <1>1, <1>2, <1>3, <1>4, LandCalm, DirectCalm DEF Next

\* What is deposited is the price, and it stays what it was.
LEMMA PricedNext == Calm /\ CInv /\ Priced /\ [Next]_vars => Priced'
<1> SUFFICES ASSUME Calm, CInv, Priced, [Next]_vars PROVE Priced'
  OBVIOUS
<1>1. CASE entry # NoEntry
  BY <1>1, DepositStays, LiveFacts DEF Priced
<1>2. CASE entry = NoEntry /\ Fund
  <2>1. PICK deposit \in {Agreed} \cup OtherDeposits :
           entry' = FundedEntry(deposit, deposit.token, deposit.amount)
    BY <1>2 DEF Fund
  <2>2. deposit.amount = Total
    BY DEF Calm, Agreed
  <2> QED
    BY <2>1, <2>2 DEF FundedEntry, Priced
<1>3. CASE entry = NoEntry /\ ~Fund
  BY <1>3, DepositStays DEF Priced, Present, NoEntry
<1> QED
  BY <1>1, <1>2, <1>3

\* The invariant, for every value of the other constants.
THEOREM CalmInvariance == ASSUME Calm PROVE Spec => [](CInv /\ Priced /\ KInv)
<1>1. Init => CInv /\ Priced /\ KInv
  BY InitInv, InitKInv DEF Init, Priced, Present, NoEntry
<1>2. CInv /\ Priced /\ KInv /\ [Next]_vars => (CInv /\ Priced /\ KInv)'
  BY NextInv, NextCalm, PricedNext
<1> QED
  BY <1>1, <1>2, PTL DEF Spec

-----------------------------------------------------------------------------
(* What follows from it. *)

\* The rows of milestones: the amounts shown to the client, the prices of
\* the milestones, and the amounts of the rows are one sum.
MilestoneRows == {p \in payments : p.milestone \in Milestone}

\* One milestone has one row, and its price is what the row says.
LEMMA MilestonesSum ==
    ASSUME CInv, KInv
    PROVE  Sum(RowAmount, MilestoneRows) = Sum(Price, Paid)
<1> DEFINE f == [p \in MilestoneRows |-> p.milestone]
<1>1. IsFiniteSet(MilestoneRows) /\ MilestoneRows \subseteq Receipt
  BY RowsFacts, FS_Subset DEF MilestoneRows
<1>2. \A p \in MilestoneRows : RowAmount[p] \in Nat /\ Price[f[p]] = RowAmount[p]
  BY <1>1, TotalFacts DEF RowAmount, Receipt, MilestoneRows, KInv, Rowed
<1>3. \A p, q \in MilestoneRows : f[p] = f[q] => p = q
  BY DEF MilestoneRows, KInv, Rowed
<1>4. {f[p] : p \in MilestoneRows} = Receipted
  BY DEF MilestoneRows, Receipted
<1>5. Receipted = Paid
  BY DEF KInv, Rowed, CInv, Receipts
<1> HIDE DEF f
<1> QED
  BY <1>1, <1>2, <1>3, <1>4, <1>5, SumOfImage

\* What a client's transaction history adds up.
LEMMA SumOfShown ==
    ASSUME NEW S, IsFiniteSet(S), NEW w, \A t \in S : w[t] = -t.amount
    PROVE  MapThenSumSet(LAMBDA t : -t.amount, S) = Sum(w, S)
<1> DEFINE h == CHOOSE g : g = [s \in SUBSET S |->
                    IF s = {} THEN 0 ELSE -First(s).amount + g[s \ {First(s)}]]
<1>1. MapThenSumSet(LAMBDA t : -t.amount, S) = h[S]
  BY DEF MapThenSumSet, MapThenFoldSet, First
<1>2. \A g : Body(g, w, S) = [s \in SUBSET S |->
                    IF s = {} THEN 0 ELSE -First(s).amount + g[s \ {First(s)}]]
  BY FirstIsElement DEF Body
<1>3. h = Body(h, w, S)
  <2>1. PICK k : k = Body(k, w, S)
    BY FoldExists
  <2> QED
    BY <1>2, <2>1
<1> HIDE DEF h
<1> QED
  BY <1>1, <1>3, FoldIsSum

\* The milestone releases in the client's history are the rows of milestones,
\* one for one, because no two rows share a transaction.
LEMMA ShownSum ==
    ASSUME CInv, KInv
    PROVE  MapThenSumSet(LAMBDA t : -t.amount,
               {t \in GetTransactions(TRUE) : t.type = "MILESTONE_RELEASED"})
           = Sum(RowAmount, MilestoneRows)
<1> DEFINE f == [p \in MilestoneRows |-> Shown(p, TRUE)]
           T == {t \in GetTransactions(TRUE) : t.type = "MILESTONE_RELEASED"}
           w == [t \in T |-> -t.amount]
<1>1. IsFiniteSet(MilestoneRows) /\ MilestoneRows \subseteq Receipt
  BY RowsFacts, FS_Subset DEF MilestoneRows
<1>2. T = {f[p] : p \in MilestoneRows}
  <2>1. \A p \in payments : p \in MilestoneRows <=> p.milestone # NoMilestone
    BY RowsFacts, NoMilestoneAssumption DEF MilestoneRows, Receipt
  <2>2. \A p \in payments :
            Shown(p, TRUE).type = "MILESTONE_RELEASED" <=> p.milestone # NoMilestone
    BY DEF Shown, TransactionType
  <2>3. \A p \in MilestoneRows : f[p] = Shown(p, TRUE) /\ p \in payments
    BY DEF MilestoneRows
  <2> HIDE DEF f
  <2> QED
    BY <2>1, <2>2, <2>3 DEF GetTransactions
<1>3. \A p \in MilestoneRows : f[p].amount = -p.amount /\ f[p].tx = p.tx
  BY DEF Shown
<1>4. \A p \in MilestoneRows : p.amount \in Nat /\ RowAmount[p] = p.amount
  BY <1>1, TotalFacts DEF RowAmount, Receipt
<1>5. \A p, q \in MilestoneRows : f[p] = f[q] => p = q
  <2>1. \A p, q \in MilestoneRows : p.tx = q.tx => p = q
    BY DEF MilestoneRows, KInv, Rowed
  <2> HIDE DEF f
  <2> QED
    BY <1>3, <2>1
<1>6. \A p \in MilestoneRows : f[p] \in T
  BY <1>2
<1> HIDE DEF f, T
<1>7. \A p \in MilestoneRows : RowAmount[p] \in Nat /\ w[f[p]] = RowAmount[p]
  <2> SUFFICES ASSUME NEW p \in MilestoneRows
               PROVE  RowAmount[p] \in Nat /\ w[f[p]] = RowAmount[p]
    OBVIOUS
  <2>1. w[f[p]] = -f[p].amount
    BY <1>6
  <2> QED
    BY <1>3, <1>4, <2>1
<1>8. Sum(w, {f[p] : p \in MilestoneRows}) = Sum(RowAmount, MilestoneRows)
  <2> HIDE DEF w
  <2> QED
    BY <1>1, <1>5, <1>7, SumOfImage
<1>9. IsFiniteSet(T)
  <2>1. f \in Surjection(MilestoneRows, T)
    BY <1>2, <1>6 DEF Surjection, f
  <2> QED
    BY <1>1, <2>1, FS_Surjection
<1>10. \A t \in T : w[t] = -t.amount
  OBVIOUS
<1> HIDE DEF w
<1>11. MapThenSumSet(LAMBDA t : -t.amount, T) = Sum(w, T)
  BY <1>9, <1>10, SumOfShown
<1> QED
  BY <1>2, <1>8, <1>11 DEF T

\* Between requests every handler's state is that of no request.
LEMMA BetweenRequests ==
    ASSUME Calm, CInv, KInv, \A r \in Slot : req[r] = Idle
    PROVE  Rows = PaidOut /\ confirmed = Cardinality(Withdrawals)
  BY HeldFacts
  DEF Calm, KInv, Accounts, HoldsRelease, HoldsClosing, HoldsWithdrawal

\* Served one at a time, without failures and with a poll that outlasts the
\* transaction, requests leave Payment rows that account for every unit that
\* left the escrow, so that _remainingAmount is what the escrow holds.
THEOREM BooksAlwaysAgree == ASSUME Calm PROVE Spec => []BooksAgree
<1>1. CInv /\ KInv => BooksAgree
  BY BetweenRequests, RowsFacts DEF BooksAgree, PaidOut
<1> QED
  BY <1>1, CalmInvariance, PTL

\* Under the same conditions every payment that the admin account made for a
\* withdrawal was answered CONFIRMED, once, and no other withdrawal was.
THEOREM WithdrawalsAlwaysAgree == ASSUME Calm PROVE Spec => []WithdrawalsAgree
<1>1. CInv /\ KInv => WithdrawalsAgree
  BY BetweenRequests DEF WithdrawalsAgree, Withdrawals
<1> QED
  BY <1>1, CalmInvariance, PTL

\* Under the same conditions the freelancer's earnings are what the escrow
\* paid, unless the client got money back, and the releases in the client's
\* history add up to the milestones that the contract shows as PAID.
THEOREM ViewsAlwaysAgree == ASSUME Calm PROVE Spec => []ViewsAgree
<1>1. ASSUME CInv, KInv PROVE ViewsAgree
  <2> SUFFICES ASSUME \A r \in Slot : req[r] = Idle PROVE ViewsAgree
    BY DEF ViewsAgree
  <2>1. Rows = PaidOut
    BY <1>1, BetweenRequests
  <2>2. received.client = 0 => GetEarnings = received.freelancer
    BY <1>1, <2>1, RowsFacts DEF GetEarnings, PaidOut, CInv, Books
  <2>3. MapThenSumSet(LAMBDA t : -t.amount,
             {t \in GetTransactions(TRUE) : t.type = "MILESTONE_RELEASED"})
        = Sum(Price, Paid)
    BY <1>1, MilestonesSum, ShownSum
  <2> QED
    BY <2>2, <2>3 DEF ViewsAgree, Sum
<1> QED
  BY <1>1, CalmInvariance, PTL
=============================================================================
