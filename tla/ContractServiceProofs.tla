------------------------ MODULE ContractServiceProofs ------------------------
(***************************************************************************)
(* Theorems about ContractService, for any number of milestones, prices,   *)
(* requests at once and seconds, with or without faults and direct calls.  *)
(*                                                                         *)
(* The argument runs along the money.  What the admin's releases paid adds *)
(* up to no more than the freelancer has (Ledger); each Payment row of a   *)
(* milestone spends a release of its own (Receipts); and a handler past    *)
(* its poll holds a transaction that succeeded (Handlers).  The two unique *)
(* columns are what makes the middle part work.  Of the deposit nothing is *)
(* assumed but its type: whom and what it names and how much it is, is     *)
(* the depositor's choice.                                                 *)
(*                                                                         *)
(* Three results follow at the end: the escrow is one that EscrowPromise   *)
(* describes, and what EveryRequestIsAnswered and AllPaidCompletes leave   *)
(* to fairness is only that a handler goes on.                             *)
(***************************************************************************)
EXTENDS ContractService, SumTheorems

Function == {"release_milestone", "release", "refund", "dispute",
             "resolve_dispute", "payment"}
Call == [fn : Function, amount : Nat, decision : Decision \cup {"none"}]
Tx == [fn : Function, amount : Nat, decision : Decision \cup {"none"},
       seq : Nat, second : Second]
Closing == {"refund", "resolve_dispute"}

AmountOf == [tx \in Tx |-> tx.amount]

Receipt == [milestone : Milestone \cup {NoMilestone}, amount : 0 .. Total, tx : Tx]

RequestState ==
    {Idle} \cup
    [kind : Kinds,
     pc : {"prepare", "send", "poll", "remaining", "commit", "build",
           "complete?", "complete"},
     ms : Milestone \cup {NoMilestone}, call : Call \cup {NoTx},
     tx : Tx \cup {NoTx}, rest : 0 .. Total]

\* The admin's releases that landed, the milestones with a Payment row, and
\* the transactions of those rows.
Releases == {tx \in succeeded : tx.fn = "release_milestone"}
Receipted == {m \in Milestone : \E p \in payments : p.milestone = m}
Spent == {p.tx : p \in {q \in payments : q.milestone \in Milestone}}

DatabaseTypes ==
    /\ job \in {"OPEN", "IN_PROGRESS", "CANCELLED"}
    /\ contract \in [status : {"None", "PENDING", "ACTIVE", "DISPUTED",
                               "COMPLETED", "CANCELLED"}, hash : BOOLEAN]
    /\ contract.hash => contract.status # "None"
    /\ milestone \in [Milestone -> {"PENDING", "IN_REVIEW", "PAID"}]
    /\ payments \subseteq Receipt /\ IsFiniteSet(payments)

NetworkTypes ==
    /\ seq \in Nat
    /\ pending \subseteq Tx /\ succeeded \subseteq Tx /\ IsFiniteSet(succeeded)
    /\ \A tx \in pending : tx.seq = seq + 1
    /\ \A a, b \in pending : a = b
    /\ \A tx \in succeeded : tx.seq <= seq

\* The escrow keeps its books, as Escrow shows.
Books ==
    /\ received \in [freelancer : Nat, client : Nat]
    /\ entry \in EscrowEntry \cup {NoEntry}
    /\ entry = NoEntry => received.freelancer = 0 /\ received.client = 0
    /\ entry.status \in Live =>
          /\ received.freelancer = entry.released /\ received.client = 0
          /\ entry.released < entry.total
    /\ entry.status \in Settled =>
          received.freelancer + received.client = entry.total

Ledger ==
    /\ Sum(AmountOf, Releases) <= received.freelancer
    /\ \A tx \in succeeded :
          /\ tx.fn \in Closing =>
                entry.status \in Settled /\ Sum(AmountOf, Releases) < entry.total
          /\ tx.fn = "dispute" => entry.status \notin {"Absent", "Funded"}
    /\ \A a, b \in succeeded : a.fn \in Closing /\ b.fn \in Closing => a = b

Receipts ==
    /\ \A p \in payments :
          /\ p.tx \in succeeded
          /\ IF p.milestone \in Milestone
             THEN p.tx.fn = "release_milestone" /\ p.tx.amount = p.amount
             ELSE p.tx.fn \in Closing
    /\ Paid \subseteq Receipted
    /\ Sum(Price, Receipted) <= Sum(AmountOf, Spent)

Statuses ==
    /\ contract.status = "ACTIVE" => contract.hash
    /\ contract.status = "DISPUTED" => entry.status \notin {"Absent", "Funded"}
    /\ contract.status = "COMPLETED" =>
          \/ Receipted = Milestone /\ Milestone # {}
          \/ \E p \in payments : p.milestone = NoMilestone

\* What a handler holds: the call its endpoint makes, the transaction built
\* from it, and after the poll one that succeeded.
Holds(q) ==
    /\ q.kind \in {"create", "job-cancel", "confirm", "submit"} => q.call = NoTx
    /\ q.kind = "approve" =>
          /\ q.ms \in Milestone
          /\ q.call = Invoke("release_milestone", Price[q.ms], "none")
    /\ q.kind = "dispute" => q.call = Invoke("dispute", 0, "none")
    /\ q.kind = "resolve" => q.call \in Call /\ q.call.fn = "resolve_dispute"
    /\ q.kind = "cancel" => q.call \in {NoTx, Invoke("refund", 0, "none")}
    /\ q.call = NoTx => q.tx = NoTx /\ q.pc \in {"commit", "build", "remaining"}
    /\ q.call # NoTx /\ q.pc # "prepare" =>
          /\ q.tx \in Tx /\ q.tx.fn = q.call.fn
          /\ q.tx.amount = q.call.amount /\ q.tx.decision = q.call.decision
    /\ q.call # NoTx /\ q.pc \notin {"prepare", "send", "poll"} => q.tx \in succeeded
    /\ q.pc = "complete" => Receipted = Milestone /\ Milestone # {}

Handlers == \A r \in Slot : req[r] # Idle => Holds(req[r])

CInv ==
    /\ DatabaseTypes /\ NetworkTypes /\ req \in [Slot -> RequestState]
    /\ Books /\ Ledger /\ Receipts /\ Statuses /\ Handlers

-----------------------------------------------------------------------------
(* Data. *)

\* The price of the contract.
LEMMA TotalFacts ==
    /\ Total \in Nat /\ Sum(Price, Milestone) = Total
    /\ \A m \in Milestone : Price[m] \in Nat /\ 0 < Price[m] /\ Price[m] <= Total
<1>1. Sum(Price, Milestone) = Total
  BY DEF Sum, Total
<1>2. IsFiniteSet(Milestone) /\ \A m \in Milestone : Price[m] \in Nat /\ 0 < Price[m]
  BY ServiceAssumption
<1> QED
  BY <1>1, <1>2, SumIsNat, SumBoundsTerm

\* A request without a transaction has none of the network.
LEMMA NoTxFacts == NoTx \notin Tx /\ NoTx \notin Call
  BY DEF NoTx, Tx, Call, Function

\* Nor is the absence of a request one, nor that of an escrow.
LEMMA IdleFacts ==
    \A q \in RequestState \ {Idle} :
        q \in [kind : Kinds,
               pc : {"prepare", "send", "poll", "remaining", "commit", "build",
                     "complete?", "complete"},
               ms : Milestone \cup {NoMilestone}, call : Call \cup {NoTx},
               tx : Tx \cup {NoTx}, rest : 0 .. Total]
  BY DEF RequestState

\* The states of the escrow are told apart by their status.
LEMMA EntryFacts ==
    /\ NoEntry.status = "Absent"
    /\ \A e \in EscrowEntry : e.status \in EscrowStatus /\ e # NoEntry
  BY DEF NoEntry, EscrowEntry, EscrowStatus, Live, Settled

\* The sums of amounts.
LEMMA ReleasesFacts ==
    ASSUME NetworkTypes
    PROVE  /\ IsFiniteSet(Releases) /\ Releases \subseteq Tx
           /\ Sum(AmountOf, Releases) \in Nat
<1>1. IsFiniteSet(Releases) /\ Releases \subseteq Tx
  BY FS_Subset DEF Releases, NetworkTypes
<1>2. \A tx \in Releases : AmountOf[tx] \in Nat
  BY <1>1 DEF AmountOf, Tx
<1> QED
  BY <1>1, <1>2, SumIsNat

\* The same for the rows.
LEMMA SpentFacts ==
    ASSUME DatabaseTypes
    PROVE  /\ IsFiniteSet(Spent) /\ Spent \subseteq Tx
           /\ IsFiniteSet(Receipted) /\ Receipted \subseteq Milestone
           /\ Sum(AmountOf, Spent) \in Nat /\ Sum(Price, Receipted) \in Nat
<1> DEFINE Rows == {q \in payments : q.milestone \in Milestone}
<1>1. IsFiniteSet(Rows) /\ Rows \subseteq Receipt
  BY FS_Subset DEF DatabaseTypes
<1>2. Spent = {p.tx : p \in Rows}
  BY DEF Spent
<1>3. IsFiniteSet({p.tx : p \in Rows})
  <2> HIDE DEF Rows
  <2> DEFINE f == [p \in Rows |-> p.tx]
             T == {p.tx : p \in Rows}
  <2>1. f \in [Rows -> T] /\ \A t \in T : \E p \in Rows : f[p] = t
    OBVIOUS
  <2>2. f \in Surjection(Rows, T)
    BY <2>1 DEF Surjection
  <2> QED
    BY <1>1, <2>2, FS_Surjection
<1>4. Spent \subseteq Tx
  BY <1>1, <1>2 DEF Receipt
<1>5. \A tx \in Spent : AmountOf[tx] \in Nat
  BY <1>4 DEF AmountOf, Tx
<1>6. IsFiniteSet(Receipted) /\ \A m \in Receipted : Price[m] \in Nat
  BY FS_Subset, ServiceAssumption, TotalFacts DEF Receipted
<1> QED
  BY <1>2, <1>3, <1>4, <1>5, <1>6, SumIsNat DEF Receipted

\* While it has money locked, the releases are short of the total.
LEMMA LiveFacts ==
    ASSUME CInv
    PROVE  /\ entry.status \in Live => Sum(AmountOf, Releases) < entry.total
           /\ entry.status \in Live \cup Settled <=> entry # NoEntry
           /\ entry.status \in Live <=> entry # NoEntry /\ entry.status \notin Settled
           /\ entry # NoEntry <=> Present(entry)
           /\ entry # NoEntry =>
                 entry \in EscrowEntry /\ entry.total \in Nat /\ entry.released \in Nat
<1>1. entry \in EscrowEntry \cup {NoEntry}
  BY DEF CInv, Books
<1>2. entry # NoEntry =>
         /\ entry.status \in EscrowStatus /\ entry \in EscrowEntry
         /\ entry.total \in Nat /\ entry.released \in Nat
  BY <1>1, EntryFacts DEF EscrowEntry
<1>3. /\ entry.status \in Live \cup Settled <=> entry # NoEntry
      /\ entry.status \in Live <=> entry # NoEntry /\ entry.status \notin Settled
      /\ entry # NoEntry <=> Present(entry)
  BY <1>2, EntryFacts DEF EscrowStatus, Live, Settled, Present
<1>4. Sum(AmountOf, Releases) \in Nat /\ Sum(AmountOf, Releases) <= received.freelancer
  BY ReleasesFacts DEF CInv, Ledger
<1>5. entry.status \in Live =>
         received.freelancer = entry.released /\ entry.released < entry.total
  BY DEF CInv, Books
<1>6. entry.status \in Live => Sum(AmountOf, Releases) < entry.total
  BY <1>2, <1>3, <1>4, <1>5
<1> QED
  BY <1>2, <1>3, <1>6

\* When every milestone has its row, the escrow has paid the price of them
\* all; so it is settled, unless more was deposited than that.
LEMMA AllReceipted ==
    ASSUME CInv, Receipted = Milestone, Milestone # {}
    PROVE  /\ Total <= Sum(AmountOf, Releases) /\ Present(entry)
           /\ \/ entry.status \in Settled
              \/ Remaining(entry) <= entry.total - Total
           /\ ~Overfunded => entry.status \in Settled
<1>1. /\ IsFiniteSet(Releases) /\ Spent \subseteq Releases
      /\ \A tx \in Releases : AmountOf[tx] \in Nat
  <2>1. IsFiniteSet(Releases) /\ Releases \subseteq Tx
    BY ReleasesFacts DEF CInv
  <2>2. Spent \subseteq Releases
    BY DEF CInv, Receipts, Spent, Releases
  <2> QED
    BY <2>1, <2>2 DEF AmountOf, Tx
<1>2. Sum(AmountOf, Spent) <= Sum(AmountOf, Releases)
  BY <1>1, SumMonotone
<1>3. Sum(Price, Receipted) <= Sum(AmountOf, Spent)
  BY DEF CInv, Receipts
<1>4. /\ Sum(AmountOf, Spent) \in Nat /\ Sum(AmountOf, Releases) \in Nat
      /\ Sum(Price, Receipted) = Total /\ Total \in Nat /\ 0 < Total
  BY SpentFacts, ReleasesFacts, TotalFacts DEF CInv
<1>5. Total <= Sum(AmountOf, Releases)
  BY <1>2, <1>3, <1>4
<1>6. Sum(AmountOf, Releases) <= received.freelancer /\ received.freelancer \in Nat
  BY DEF CInv, Ledger, Books
<1>7. Present(entry)
  <2>1. entry = NoEntry => received.freelancer = 0
    BY DEF CInv, Books
  <2> QED
    BY <1>4, <1>5, <1>6, <2>1, LiveFacts
<1>8. entry.total \in Nat /\ entry.released \in Nat
  BY <1>7, LiveFacts
<1>9. CASE entry.status \in Settled
  BY <1>5, <1>7, <1>9
<1>10. CASE entry.status \in Live
  <2>1. received.freelancer = entry.released /\ entry.released < entry.total
    BY <1>10 DEF CInv, Books
  <2>2. Total <= entry.released
    BY <1>4, <1>5, <1>6, <2>1
  <2>3. Remaining(entry) <= entry.total - Total
    BY <1>4, <1>8, <2>2 DEF Remaining
  <2>4. Overfunded
    BY <1>4, <1>7, <1>8, <2>1, <2>2 DEF Overfunded
  <2> QED
    BY <1>5, <1>7, <2>3, <2>4
<1> QED
  BY <1>7, <1>9, <1>10, LiveFacts

-----------------------------------------------------------------------------
(* Initially, and when a handler moves. *)

\* Nothing has happened.
LEMMA InitInv == Init => CInv
<1> SUFFICES ASSUME Init PROVE CInv
  OBVIOUS
<1>1. Releases = {} /\ Receipted = {} /\ Spent = {} /\ Paid = {}
  BY DEF Init, Releases, Receipted, Spent, Paid
<1>2. Sum(AmountOf, {}) = 0 /\ Sum(Price, {}) = 0
  BY SumOfNone
<1>3. DatabaseTypes /\ NetworkTypes
  BY FS_EmptySet DEF Init, DatabaseTypes, NetworkTypes
<1>4. Books
  BY EntryFacts, TotalFacts DEF Init, Books, Payout, Live, Settled
<1>5. Ledger /\ Receipts
  BY <1>1, <1>2 DEF Init, Ledger, Receipts, Payout
<1>6. Statuses /\ Handlers /\ req \in [Slot -> RequestState]
  BY DEF Init, Statuses, Handlers, RequestState
<1> QED
  BY <1>3, <1>4, <1>5, <1>6 DEF CInv

\* What a handler holds it keeps, as long as the ledger and the rows grow.
LEMMA HoldsOn ==
    ASSUME NEW q, Holds(q), succeeded \subseteq succeeded',
           Receipted \subseteq Receipted'
    PROVE  Holds(q)'
<1>1. Receipted' \subseteq Milestone
  BY DEF Receipted
<1> QED
  BY <1>1 DEF Holds

\* A step of one handler that does not touch the chain.
LEMMA OneHandler ==
    ASSUME CInv, NEW r \in Slot, NEW q \in RequestState,
           req' = [req EXCEPT ![r] = q], q # Idle => Holds(q)',
           UNCHANGED <<escrow, seq, pending, succeeded>>,
           payments \subseteq payments',
           DatabaseTypes', Receipts', Statuses'
    PROVE  CInv'
<1>1. NetworkTypes' /\ Books' /\ req' \in [Slot -> RequestState]
  BY DEF CInv, NetworkTypes, Books, escrow
<1>2. Releases' = Releases
  BY DEF Releases
<1>3. Ledger'
  BY <1>2 DEF CInv, Ledger, escrow
<1>4. Receipted \subseteq Receipted'
  BY DEF Receipted
<1>5. Handlers'
  <2>1. ASSUME NEW s \in Slot, NEW v, v = req'[s], v # Idle PROVE Holds(v)'
    <3>1. CASE s = r
      BY <2>1, <3>1 DEF CInv
    <3>2. CASE s # r
      <4>1. v = req[s] /\ Holds(v)
        BY <2>1, <3>2 DEF CInv, Handlers
      <4> QED
        BY <1>4, <4>1, HoldsOn DEF escrow
    <3> QED
      BY <3>1, <3>2
  <2> QED
    BY <2>1 DEF Handlers, Holds
<1> QED
  BY <1>1, <1>3, <1>5 DEF CInv

\* A step that does not touch the database either.
LEMMA OneRequest ==
    ASSUME CInv, NEW r \in Slot, NEW q \in RequestState,
           req' = [req EXCEPT ![r] = q], q # Idle => Holds(q),
           UNCHANGED <<database, escrow, seq, pending, succeeded>>
    PROVE  CInv'
<1>1. DatabaseTypes' /\ Receipts' /\ Statuses' /\ payments' = payments
  <2>1. /\ Receipted' = Receipted /\ Spent' = Spent /\ Paid' = Paid
    BY DEF Receipted, Spent, Paid, database
  <2> QED
    BY <2>1 DEF CInv, DatabaseTypes, Receipts, Statuses, database, escrow
<1>2. q # Idle => Holds(q)'
  <2>1. Receipted' = Receipted
    BY DEF Receipted, database
  <2> QED
    BY <2>1, HoldsOn DEF escrow
<1> QED
  BY <1>1, <1>2, OneHandler

\* A request begins with what Begin gives it.
LEMMA BeginInv ==
    ASSUME CInv, NEW r \in Slot, NEW kind, NEW m \in Milestone \cup {NoMilestone},
           NEW call \in Call \cup {NoTx}, NEW pc \in {"prepare", "remaining", "commit"},
           Begin(r, kind, m, call, pc),
           kind \in {"create", "job-cancel", "confirm", "submit"} => call = NoTx,
           kind = "approve" =>
              m \in Milestone /\ call = Invoke("release_milestone", Price[m], "none"),
           kind = "dispute" => call = Invoke("dispute", 0, "none"),
           kind = "resolve" => call \in Call /\ call.fn = "resolve_dispute",
           kind = "cancel" => call \in {NoTx, Invoke("refund", 0, "none")},
           call = NoTx <=> pc # "prepare"
    PROVE  CInv'
<1> DEFINE q == [kind |-> kind, pc |-> pc, ms |-> m, call |-> call, tx |-> NoTx, rest |-> 0]
<1>1. /\ kind \in Kinds /\ req' = [req EXCEPT ![r] = q]
      /\ UNCHANGED <<database, escrow, seq, pending, succeeded>>
  BY DEF Begin, network
<1>2. q \in RequestState
  BY <1>1, TotalFacts DEF RequestState
<1>3. Holds(q)
  BY DEF Holds
<1> HIDE DEF q
<1> QED
  BY <1>1, <1>2, <1>3, OneRequest

\* The calls the endpoints make.
LEMMA CallTypes ==
    /\ \A m \in Milestone : Invoke("release_milestone", Price[m], "none") \in Call
    /\ Invoke("dispute", 0, "none") \in Call /\ Invoke("refund", 0, "none") \in Call
    /\ Invoke("payment", 0, "none") \in Call
    /\ \A d \in Decision : /\ Invoke("resolve_dispute", 0, d) \in Call
                           /\ Invoke("resolve_dispute", 0, d).fn = "resolve_dispute"
  BY TotalFacts DEF Invoke, Call, Function

\* The first step of each endpoint.
LEMMA RequestInv == ASSUME CInv, NEW r \in Slot, Request(r) PROVE CInv'
<1>1. CASE Create(r)
  BY <1>1, BeginInv DEF Create
<1>2. CASE JobCancel(r)
  BY <1>2, BeginInv DEF JobCancel
<1>3. CASE ConfirmFund(r)
  BY <1>3, BeginInv DEF ConfirmFund
<1>4. CASE RaiseDispute(r)
  <2>1. contract.status = "ACTIVE" /\ contract.hash
    BY <1>4 DEF RaiseDispute, CInv, Statuses
  <2>2. Begin(r, "dispute", NoMilestone, Invoke("dispute", 0, "none"), "prepare")
    BY <1>4, <2>1 DEF RaiseDispute, BeginCall
  <2> QED
    BY <2>2, BeginInv, CallTypes, NoTxFacts
<1>5. CASE Withdraw(r)
  <2>1. Begin(r, "withdraw", NoMilestone, Invoke("payment", 0, "none"), "prepare")
    BY <1>5 DEF Withdraw, BeginCall
  <2> QED
    BY <2>1, BeginInv, CallTypes, NoTxFacts
<1>6. ASSUME NEW m \in Milestone, SubmitMilestone(r, m) PROVE CInv'
  BY <1>6, BeginInv DEF SubmitMilestone
<1>7. ASSUME NEW m \in Milestone, ApproveMilestone(r, m) PROVE CInv'
  <2>1. Begin(r, "approve", m, Invoke("release_milestone", Price[m], "none"), "prepare")
    BY <1>7 DEF ApproveMilestone, BeginCall
  <2> QED
    BY <2>1, BeginInv, CallTypes, NoTxFacts
<1>8. ASSUME NEW decision \in Decision, Resolve(r, decision) PROVE CInv'
  <2>1. Begin(r, "resolve", NoMilestone, Invoke("resolve_dispute", 0, decision), "prepare")
    BY <1>8 DEF Resolve, BeginCall
  <2> QED
    BY <2>1, BeginInv, CallTypes, NoTxFacts
<1>9. ASSUME NEW byAdmin \in BOOLEAN, Cancel(r, byAdmin) PROVE CInv'
  <2>1. CASE contract.hash
    <3>1. Begin(r, "cancel", NoMilestone, Invoke("refund", 0, "none"), "prepare")
      BY <1>9, <2>1 DEF Cancel, BeginCall
    <3> QED
      BY <3>1, BeginInv, CallTypes, NoTxFacts
  <2>2. CASE ~contract.hash
    <3>1. Begin(r, "cancel", NoMilestone, NoTx, "remaining")
      BY <1>9, <2>2 DEF Cancel
    <3> QED
      BY <3>1, BeginInv
  <2> QED
    BY <2>1, <2>2
<1> QED
  BY <1>1, <1>2, <1>3, <1>4, <1>5, <1>6, <1>7, <1>8, <1>9 DEF Request

\* A handler that is running has a state.
LEMMA Running ==
    ASSUME CInv, NEW r \in Slot, req[r].pc # "idle"
    PROVE  req[r] \in RequestState \ {Idle} /\ Holds(req[r])
  BY DEF CInv, Handlers, Idle

\* A handler that answers, or moves on to a place where it holds no less.
LEMMA AnswerInv ==
    ASSUME CInv, NEW r \in Slot, Answer(r),
           UNCHANGED <<database, escrow, seq, pending, succeeded>>
    PROVE  CInv'
<1>1. Idle \in RequestState
  BY DEF RequestState
<1> QED
  BY <1>1, OneRequest DEF Answer

\* The same for a step that goes to another place.
LEMMA GoToInv ==
    ASSUME CInv, NEW r \in Slot, req[r].pc # "idle",
           NEW pc \in {"send", "poll", "remaining", "commit", "complete"}, GoTo(r, pc),
           Holds([req[r] EXCEPT !.pc = pc]),
           UNCHANGED <<database, escrow, seq, pending, succeeded>>
    PROVE  CInv'
<1>1. req[r] \in RequestState \ {Idle}
  BY Running
<1>2. [req[r] EXCEPT !.pc = pc] \in RequestState
  BY <1>1, IdleFacts DEF RequestState
<1> QED
  BY <1>2, OneRequest DEF GoTo

\* _submitAdminInvocation builds a transaction of the call.
LEMMA PrepareInv == ASSUME CInv, NEW r \in Slot, Prepare(r) PROVE CInv'
<1>1. req[r].pc = "prepare" /\ UNCHANGED <<database, escrow, seq, pending, succeeded>>
  BY DEF Prepare, network
<1>2. CASE Answer(r)
  BY <1>1, <1>2, AnswerInv
<1>3. ASSUME NEW s \in Second,
             req' = [req EXCEPT ![r].pc = "send",
                                ![r].tx = [fn |-> req[r].call.fn,
                                           amount |-> req[r].call.amount,
                                           decision |-> req[r].call.decision,
                                           seq |-> seq + 1, second |-> s]]
      PROVE  CInv'
  <2> DEFINE tx == [fn |-> req[r].call.fn, amount |-> req[r].call.amount,
                    decision |-> req[r].call.decision, seq |-> seq + 1, second |-> s]
             q == [req[r] EXCEPT !.pc = "send", !.tx = tx]
  <2>1. req[r] \in RequestState \ {Idle} /\ Holds(req[r])
    BY <1>1, Running
  <2>2. req[r].call \in Call
    BY <1>1, <2>1, IdleFacts DEF Holds
  <2>3. tx \in Tx
    BY <2>2 DEF Call, Tx, CInv, NetworkTypes
  <2>4. q \in RequestState
    BY <2>1, <2>3, IdleFacts DEF RequestState
  <2>5. Holds(q)
    <3> HIDE DEF tx
    <3>1. /\ q.kind = req[r].kind /\ q.ms = req[r].ms /\ q.call = req[r].call
          /\ q.pc = "send" /\ q.tx = tx
      BY <2>1, IdleFacts
    <3>2. tx.fn = req[r].call.fn /\ tx.amount = req[r].call.amount
          /\ tx.decision = req[r].call.decision
      BY DEF tx
    <3> HIDE DEF q
    <3> QED
      BY <2>1, <2>2, <2>3, <3>1, <3>2, NoTxFacts DEF Holds
  <2>6. req' = [req EXCEPT ![r] = q]
    BY <1>3, <2>1 DEF CInv
  <2> HIDE DEF q
  <2> QED
    BY <1>1, <2>4, <2>5, <2>6, OneRequest
<1> QED
  BY <1>2, <1>3 DEF Prepare

\* Of the transactions that wait there is one at most.
LEMMA SendInv == ASSUME CInv, NEW r \in Slot, Send(r) PROVE CInv'
<1>1. /\ req[r].pc = "send" /\ UNCHANGED <<database, escrow, seq, succeeded>>
  BY DEF Send
<1>2. CASE Answer(r) /\ UNCHANGED pending
  BY <1>1, <1>2, AnswerInv
<1>3. CASE /\ req[r].tx.seq = seq + 1 /\ GoTo(r, "poll")
           /\ pending' = IF pending = {} THEN {req[r].tx} ELSE pending
  <2> DEFINE q == [req[r] EXCEPT !.pc = "poll"]
  <2>1. req[r] \in RequestState \ {Idle} /\ Holds(req[r])
    BY <1>1, Running
  <2>2. /\ q.kind = req[r].kind /\ q.ms = req[r].ms /\ q.call = req[r].call
        /\ q.pc = "poll" /\ q.tx = req[r].tx /\ q \in RequestState
    BY <2>1, IdleFacts DEF RequestState
  <2>3. req[r].tx \in Tx /\ req[r].call # NoTx
    BY <1>1, <2>1 DEF Holds
  <2>4. Holds(q)
    <3> HIDE DEF q
    <3> QED
      BY <1>1, <2>1, <2>2, <2>3 DEF Holds
  <2>5. NetworkTypes'
    BY <1>1, <1>3, <2>3 DEF CInv, NetworkTypes
  <2>6. req' = [req EXCEPT ![r] = q]
    BY <1>3, <2>1 DEF CInv, GoTo
  <2> HIDE DEF q
  <2>7. req' \in [Slot -> RequestState]
    BY <2>2, <2>6 DEF CInv
  <2>8. /\ Receipted' = Receipted /\ Spent' = Spent /\ Paid' = Paid /\ Releases' = Releases
    BY <1>1 DEF Receipted, Spent, Paid, Releases, database
  <2>9. DatabaseTypes' /\ Books' /\ Ledger' /\ Receipts' /\ Statuses'
    BY <1>1, <2>8
    DEF CInv, DatabaseTypes, Books, Ledger, Receipts, Statuses, database, escrow
  <2>10. ASSUME NEW s \in Slot, NEW v, v = req'[s], v # Idle PROVE Holds(v)'
    <3>1. Holds(v)
      BY <2>4, <2>6, <2>10 DEF CInv, Handlers
    <3> QED
      BY <1>1, <2>8, <3>1, HoldsOn DEF escrow
  <2>11. Handlers'
    BY <2>10 DEF Handlers, Holds
  <2> QED
    BY <2>5, <2>7, <2>9, <2>11 DEF CInv
<1> QED
  BY <1>2, <1>3 DEF Send

\* A handler goes on only with a transaction that succeeded.
LEMMA PollInv == ASSUME CInv, NEW r \in Slot, Poll(r) PROVE CInv'
<1>1. req[r].pc = "poll" /\ UNCHANGED <<database, escrow, seq, pending, succeeded>>
  BY DEF Poll, network
<1>2. CASE Answer(r)
  BY <1>1, <1>2, AnswerInv
<1>3. CASE req[r].tx \in succeeded /\ GoTo(r, AfterCall(req[r].kind))
  <2> DEFINE pc == AfterCall(req[r].kind)
             q == [req[r] EXCEPT !.pc = pc]
  <2>1. req[r] \in RequestState \ {Idle} /\ Holds(req[r])
    BY <1>1, Running
  <2>2. pc \in {"remaining", "commit"}
    BY DEF AfterCall
  <2>3. /\ q.kind = req[r].kind /\ q.ms = req[r].ms /\ q.call = req[r].call
        /\ q.pc = pc /\ q.tx = req[r].tx
    BY <2>1, IdleFacts
  <2>4. Holds(q)
    <3> HIDE DEF q, pc
    <3> QED
      BY <1>1, <1>3, <2>1, <2>2, <2>3 DEF Holds
  <2> HIDE DEF pc
  <2> QED
    BY <1>1, <1>3, <2>2, <2>4, GoToInv DEF pc
<1> QED
  BY <1>2, <1>3 DEF Poll

\* What the rows add up to is a natural number.
LEMMA PaidSum ==
    ASSUME DatabaseTypes PROVE MapThenSumSet(LAMBDA p : p.amount, payments) \in Nat
<1> DEFINE w == [p \in payments |-> p.amount]
           h == CHOOSE g : g = [s \in SUBSET payments |->
                    IF s = {} THEN 0 ELSE First(s).amount + g[s \ {First(s)}]]
<1>1. MapThenSumSet(LAMBDA p : p.amount, payments) = h[payments]
  BY DEF MapThenSumSet, MapThenFoldSet, First
<1>2. IsFiniteSet(payments) /\ \A p \in payments : w[p] \in Nat
  BY TotalFacts DEF DatabaseTypes, Receipt
<1>3. \A g : Body(g, w, payments) = [s \in SUBSET payments |->
                    IF s = {} THEN 0 ELSE First(s).amount + g[s \ {First(s)}]]
  BY FirstIsElement DEF Body
<1>4. h = Body(h, w, payments)
  <2>1. PICK k : k = Body(k, w, payments)
    BY <1>2, FoldExists
  <2> QED
    BY <1>3, <2>1
<1> HIDE DEF w, h
<1> QED
  BY <1>1, <1>2, <1>4, FoldIsSum, SumIsNat

\* What remains is between nothing and the total.
LEMMA ReadRemainingInv == ASSUME CInv, NEW r \in Slot, ReadRemaining(r) PROVE CInv'
<1> DEFINE paid == MapThenSumSet(LAMBDA p : p.amount, payments)
           rest == IF paid < Total THEN Total - paid ELSE 0
           q == [req[r] EXCEPT !.pc = "commit", !.rest = rest]
<1>1. req[r].pc = "remaining" /\ UNCHANGED <<database, escrow, seq, pending, succeeded>>
  BY DEF ReadRemaining, network
<1>2. req[r] \in RequestState \ {Idle} /\ Holds(req[r])
  BY <1>1, Running
<1>3. rest \in 0 .. Total
  <2>1. paid \in Nat
    BY PaidSum DEF CInv
  <2> HIDE DEF paid
  <2> QED
    BY <2>1, TotalFacts
<1>4. req' = [req EXCEPT ![r].pc = "commit", ![r].rest = rest]
  BY DEF ReadRemaining
<1> HIDE DEF rest
<1>5. q \in RequestState
  BY <1>2, <1>3, IdleFacts DEF RequestState
<1>6. /\ q.kind = req[r].kind /\ q.ms = req[r].ms /\ q.call = req[r].call
      /\ q.pc = "commit" /\ q.tx = req[r].tx
  BY <1>2, IdleFacts
<1>7. req' = [req EXCEPT ![r] = q]
  BY <1>2, <1>4 DEF CInv
<1> HIDE DEF q
<1>8. Holds(q)
  BY <1>1, <1>2, <1>6 DEF Holds
<1> QED
  BY <1>1, <1>5, <1>7, <1>8, OneRequest

\* All milestones PAID, and so all have their row.
LEMMA MaybeCompleteInv == ASSUME CInv, NEW r \in Slot, MaybeComplete(r) PROVE CInv'
<1>1. /\ req[r].pc = "complete?" /\ req[r].kind = "approve"
      /\ UNCHANGED <<database, escrow, seq, pending, succeeded>>
  BY DEF MaybeComplete, At, network
<1>2. CASE Answer(r)
  BY <1>1, <1>2, AnswerInv
<1>3. CASE AllPaid /\ GoTo(r, "complete")
  <2> DEFINE q == [req[r] EXCEPT !.pc = "complete"]
  <2>1. req[r] \in RequestState \ {Idle} /\ Holds(req[r])
    BY <1>1, Running
  <2>2. Receipted = Milestone /\ Milestone # {}
    BY <1>1, <1>3, <2>1 DEF AllPaid, CInv, Receipts, Receipted, Holds
  <2>3. /\ q.kind = req[r].kind /\ q.ms = req[r].ms /\ q.call = req[r].call
        /\ q.pc = "complete" /\ q.tx = req[r].tx
    BY <2>1, IdleFacts
  <2>4. req[r].call # NoTx
    BY <1>1, <2>1 DEF Holds
  <2>5. Holds(q)
    <3> HIDE DEF q
    <3> QED
      BY <1>1, <2>1, <2>2, <2>3, <2>4 DEF Holds
  <2> QED
    BY <1>1, <1>3, <2>5, GoToInv
<1> QED
  BY <1>2, <1>3 DEF MaybeComplete

-----------------------------------------------------------------------------
(* The writes to the database. *)

\* The rows of payments are as they were.
LEMMA SameRows ==
    ASSUME CInv, UNCHANGED <<payments, succeeded>>, Paid' \subseteq Paid
    PROVE  Receipts' /\ Receipted' = Receipted
<1>1. Receipted' = Receipted /\ Spent' = Spent
  BY DEF Receipted, Spent
<1> QED
  BY <1>1 DEF CInv, Receipts

\* A handler that writes no row and answers.
LEMMA WriteInv ==
    ASSUME CInv, NEW r \in Slot, Answer(r),
           UNCHANGED <<payments, escrow, seq, pending, succeeded>>,
           DatabaseTypes', Paid' \subseteq Paid, Statuses'
    PROVE  CInv'
<1>1. Receipts'
  BY SameRows
<1>2. Idle \in RequestState
  BY DEF RequestState
<1> QED
  BY <1>1, <1>2, OneHandler DEF Answer

\* create.
LEMMA CreateCommitInv == ASSUME CInv, NEW r \in Slot, CreateCommit(r) PROVE CInv'
<1>1. /\ req[r].pc = "commit" /\ req[r].kind = "create"
      /\ UNCHANGED <<payments, escrow, seq, pending, succeeded>>
  BY DEF CreateCommit, At, network
<1>2. CASE Answer(r) /\ UNCHANGED <<job, contract, milestone>>
  BY <1>1, <1>2, AnswerInv DEF database
<1>3. CASE /\ contract' = [status |-> "PENDING", hash |-> FALSE]
           /\ milestone' = [m \in Milestone |-> "PENDING"]
           /\ job' = "IN_PROGRESS"
           /\ GoTo(r, "build")
  <2> PICK q : q = [req[r] EXCEPT !.pc = "build"]
    OBVIOUS
  <2>1. req[r] \in RequestState \ {Idle} /\ Holds(req[r])
    BY <1>1, Running
  <2>2. /\ q.kind = req[r].kind /\ q.ms = req[r].ms /\ q.call = req[r].call
        /\ q.pc = "build" /\ q.tx = req[r].tx /\ q \in RequestState
    BY <2>1, IdleFacts DEF RequestState
  <2>3. Holds(q)
    BY <1>1, <2>1, <2>2 DEF Holds
  <2>4. Paid' = {}
    BY <1>3 DEF Paid
  <2>5. Receipts' /\ Receipted' = Receipted
    BY <1>1, <2>4, SameRows
  <2>6. DatabaseTypes'
    BY <1>1, <1>3 DEF CInv, DatabaseTypes
  <2>7. Statuses'
    BY <1>3 DEF Statuses
  <2>8. Holds(q)'
    BY <1>1, <2>3, <2>5, HoldsOn DEF escrow
  <2> QED
    BY <1>1, <1>3, <2>2, <2>5, <2>6, <2>7, <2>8, OneHandler DEF GoTo
<1> QED
  BY <1>2, <1>3 DEF CreateCommit

\* The funding XDR, job cancellation and submit.
LEMMA SmallWritesInv ==
    ASSUME CInv, NEW r \in Slot,
           BuildFundXdr(r) \/ JobCancelCommit(r) \/ SubmitMilestoneCommit(r)
                           \/ RaiseDisputeCommit(r) \/ WithdrawConfirm(r)
    PROVE  CInv'
<1>1. CASE BuildFundXdr(r)
  BY <1>1, AnswerInv DEF BuildFundXdr, network
<1>2. CASE JobCancelCommit(r)
  <2>1. Paid' = Paid
    BY <1>2 DEF JobCancelCommit, Paid
  <2>2. DatabaseTypes'
    BY <1>2 DEF JobCancelCommit, CInv, DatabaseTypes
  <2>3. Statuses'
    BY <1>2 DEF JobCancelCommit, CInv, Statuses, Receipted, escrow
  <2> QED
    BY <1>2, <2>1, <2>2, <2>3, WriteInv DEF JobCancelCommit, network
<1>3. CASE SubmitMilestoneCommit(r)
  <2>1. /\ milestone' = [milestone EXCEPT ![req[r].ms] = "IN_REVIEW"]
        /\ UNCHANGED <<job, contract, payments, escrow, network>>
    BY <1>3 DEF SubmitMilestoneCommit
  <2>2. DatabaseTypes' /\ Paid' \subseteq Paid
    BY <2>1 DEF CInv, DatabaseTypes, Paid
  <2>3. Statuses'
    BY <2>1 DEF CInv, Statuses, Receipted, escrow
  <2> QED
    BY <1>3, <2>1, <2>2, <2>3, WriteInv DEF SubmitMilestoneCommit, network
<1>4. CASE RaiseDisputeCommit(r)
  <2>1. req[r].pc = "commit" /\ req[r].kind = "dispute"
    BY <1>4 DEF RaiseDisputeCommit, At
  <2>2. req[r] \in RequestState \ {Idle} /\ Holds(req[r])
    BY <2>1, Running
  <2>3. req[r].tx \in succeeded /\ req[r].tx.fn = "dispute"
    BY <2>1, <2>2, CallTypes, NoTxFacts DEF Holds, Invoke
  <2>4. entry.status \notin {"Absent", "Funded"}
    BY <2>3 DEF CInv, Ledger
  <2>5. contract' = [contract EXCEPT !.status = "DISPUTED"] /\ UNCHANGED <<job, milestone, payments, escrow>>
    BY <1>4 DEF RaiseDisputeCommit
  <2>6. DatabaseTypes' /\ Paid' = Paid /\ contract'.status = "DISPUTED"
    BY <2>5 DEF CInv, DatabaseTypes, Paid
  <2>7. Statuses'
    BY <2>4, <2>5, <2>6 DEF Statuses, escrow
  <2> QED
    BY <1>4, <2>6, <2>7, WriteInv DEF RaiseDisputeCommit, network
<1>5. CASE WithdrawConfirm(r)
  BY <1>5, AnswerInv DEF WithdrawConfirm
<1> QED
  BY <1>1, <1>2, <1>3, <1>4, <1>5

\* confirm-fund.
LEMMA ConfirmFundCommitInv ==
    ASSUME CInv, NEW r \in Slot, ConfirmFundCommit(r) PROVE CInv'
<1>1. /\ UNCHANGED <<job, milestone, payments, escrow, seq, pending, succeeded>>
      /\ contract' = contract \/ contract' = [status |-> "ACTIVE", hash |-> TRUE]
  BY DEF ConfirmFundCommit, network
<1>2. DatabaseTypes' /\ Paid' = Paid
  <2>1. contract' \in [status : {"None", "PENDING", "ACTIVE", "DISPUTED",
                                "COMPLETED", "CANCELLED"}, hash : BOOLEAN]
        /\ (contract'.hash => contract'.status # "None")
    <3>1. CASE contract' = contract
      BY <3>1 DEF CInv, DatabaseTypes
    <3>2. CASE contract' = [status |-> "ACTIVE", hash |-> TRUE]
      BY <3>2
    <3> QED
      BY <1>1, <3>1, <3>2
  <2>2. Paid' = Paid
    BY <1>1 DEF Paid
  <2> QED
    BY <1>1, <2>1, <2>2 DEF CInv, DatabaseTypes
<1>3. Statuses'
  BY <1>1 DEF CInv, Statuses, Receipted, escrow
<1> QED
  BY <1>1, <1>2, <1>3, WriteInv DEF ConfirmFundCommit

\* _maybeCompleteContract writes what it has found.
LEMMA CompleteCommitInv == ASSUME CInv, NEW r \in Slot, CompleteCommit(r) PROVE CInv'
<1>1. /\ req[r].pc = "complete" /\ contract' = [contract EXCEPT !.status = "COMPLETED"]
      /\ UNCHANGED <<job, milestone, payments, escrow, seq, pending, succeeded>>
  BY DEF CompleteCommit, At, network
<1>2. Receipted = Milestone /\ Milestone # {}
  BY <1>1, Running DEF Holds
<1>3. DatabaseTypes' /\ Paid' = Paid /\ contract'.status = "COMPLETED"
  BY <1>1 DEF CInv, DatabaseTypes, Paid
<1>4. Statuses'
  BY <1>1, <1>2, <1>3 DEF Statuses, Receipted, escrow
<1> QED
  BY <1>1, <1>3, <1>4, WriteInv DEF CompleteCommit

\* A milestone and a transaction that have no row yet get one.
LEMMA NewReceipt ==
    ASSUME CInv, NEW m \in Milestone, NEW tx \in succeeded,
           tx.fn = "release_milestone", tx.amount = Price[m],
           Unique(Payment(m, Price[m], tx)),
           payments' = payments \cup {Payment(m, Price[m], tx)},
           Paid' \subseteq Paid \cup {m}, UNCHANGED succeeded
    PROVE  Receipts' /\ payments' \subseteq Receipt /\ IsFiniteSet(payments')
<1> DEFINE p == Payment(m, Price[m], tx)
<1>1. tx \in Tx /\ p \in Receipt /\ p.milestone = m /\ p.amount = Price[m] /\ p.tx = tx
  BY TotalFacts DEF CInv, NetworkTypes, Receipt, Payment
<1>2. payments' \subseteq Receipt /\ IsFiniteSet(payments')
  BY <1>1, FS_AddElement DEF CInv, DatabaseTypes
<1>3. \A q \in payments : q.tx # tx /\ q.milestone # m
  BY <1>1, NoMilestoneAssumption DEF Unique
<1> HIDE DEF p
<1>4. payments' = payments \cup {p}
  BY DEF p
<1>5. m \notin Receipted /\ Receipted' = Receipted \cup {m}
  BY <1>1, <1>3, <1>4 DEF Receipted
<1>6. tx \notin Spent /\ Spent' = Spent \cup {tx}
  BY <1>1, <1>3, <1>4 DEF Spent
<1>7. /\ IsFiniteSet(Spent) /\ Spent \subseteq Tx /\ Sum(AmountOf, Spent) \in Nat
      /\ IsFiniteSet(Receipted) /\ Receipted \subseteq Milestone
      /\ Sum(Price, Receipted) \in Nat
  BY SpentFacts DEF CInv
<1>8. \A t \in Tx : AmountOf[t] \in Nat /\ AmountOf[t] = t.amount
  BY DEF AmountOf, Tx
<1>9. Sum(AmountOf, Spent \cup {tx}) = Sum(AmountOf, Spent) + AmountOf[tx]
  <2>1. \A y \in Spent \cup {tx} : AmountOf[y] \in Nat
    BY <1>1, <1>7, <1>8 DEF Tx
  <2> QED
    BY <1>6, <1>7, <2>1, SumPutIn
<1>10. Sum(Price, Receipted \cup {m}) = Sum(Price, Receipted) + Price[m]
  BY <1>5, <1>7, TotalFacts, SumPutIn
<1>11. Sum(Price, Receipted \cup {m}) <= Sum(AmountOf, Spent \cup {tx})
  <2>1. Sum(Price, Receipted) <= Sum(AmountOf, Spent)
    BY DEF CInv, Receipts
  <2>2. AmountOf[tx] = Price[m] /\ Price[m] \in Nat
    BY <1>1, <1>8, TotalFacts
  <2> QED
    BY <1>7, <1>9, <1>10, <2>1, <2>2
<1>12. Receipts'
  BY <1>1, <1>4, <1>5, <1>6, <1>11 DEF CInv, Receipts
<1> QED
  BY <1>2, <1>12

\* The transaction of approveMilestone.
LEMMA ApproveMilestoneCommitInv ==
    ASSUME CInv, NEW r \in Slot, ApproveMilestoneCommit(r) PROVE CInv'
<1>1. /\ req[r].pc = "commit" /\ req[r].kind = "approve"
      /\ UNCHANGED <<job, contract, escrow, seq, pending, succeeded>>
  BY DEF ApproveMilestoneCommit, At, network
<1>2. req[r] \in RequestState \ {Idle} /\ Holds(req[r])
  BY <1>1, Running
<1> DEFINE m == req[r].ms
           tx == req[r].tx
<1>3. /\ m \in Milestone /\ tx \in succeeded
      /\ tx.fn = "release_milestone" /\ tx.amount = Price[m]
      /\ req[r].call # NoTx
  BY <1>1, <1>2, CallTypes, NoTxFacts DEF Holds, Invoke
<1>4. CASE Answer(r) /\ UNCHANGED <<milestone, payments>>
  BY <1>1, <1>4, AnswerInv DEF database
<1>5. CASE /\ Unique(Payment(m, Price[m], tx))
           /\ milestone' = [milestone EXCEPT ![m] = "PAID"]
           /\ payments' = payments \cup {Payment(m, Price[m], tx)}
           /\ GoTo(r, "complete?")
  <2> PICK q : q = [req[r] EXCEPT !.pc = "complete?"]
    OBVIOUS
  <2>1. /\ q.kind = req[r].kind /\ q.ms = req[r].ms /\ q.call = req[r].call
        /\ q.pc = "complete?" /\ q.tx = req[r].tx /\ q \in RequestState
    BY <1>2, IdleFacts DEF RequestState
  <2>2. Holds(q)
    BY <1>1, <1>2, <1>3, <2>1 DEF Holds
  <2>3. Paid' \subseteq Paid \cup {m}
    BY <1>5 DEF Paid, CInv, DatabaseTypes
  <2>4. Receipts' /\ payments' \subseteq Receipt /\ IsFiniteSet(payments')
    BY <1>1, <1>3, <1>5, <2>3, NewReceipt
  <2>5. DatabaseTypes'
    BY <1>1, <1>3, <1>5, <2>4 DEF CInv, DatabaseTypes
  <2>6. Receipted \subseteq Receipted' /\ Receipted' \subseteq Milestone
    BY <1>5 DEF Receipted
  <2>7. Statuses'
    BY <1>1, <1>5, <2>6 DEF CInv, Statuses, escrow
  <2>8. Holds(q)'
    BY <1>1, <2>2, <2>6, HoldsOn DEF escrow
  <2>9. req' = [req EXCEPT ![r] = q]
    BY <1>5 DEF GoTo
  <2> QED
    BY <1>1, <1>5, <2>1, <2>4, <2>5, <2>7, <2>8, <2>9, OneHandler
<1> QED
  BY <1>4, <1>5 DEF ApproveMilestoneCommit

\* The row of a call that closed the escrow.
LEMMA ClosingReceipt ==
    ASSUME CInv, NEW tx \in succeeded, tx.fn \in Closing, NEW amount \in 0 .. Total,
           payments' = payments \cup {Payment(NoMilestone, amount, tx)},
           UNCHANGED <<milestone, succeeded>>
    PROVE  /\ Receipts' /\ payments' \subseteq Receipt /\ IsFiniteSet(payments')
           /\ Receipted' = Receipted
           /\ \E p \in payments' : p.milestone = NoMilestone
<1> DEFINE p == Payment(NoMilestone, amount, tx)
<1>1. /\ p \in Receipt /\ p.milestone = NoMilestone /\ p.tx = tx
  BY DEF CInv, NetworkTypes, Receipt, Payment
<1>2. payments' \subseteq Receipt /\ IsFiniteSet(payments')
  BY <1>1, FS_AddElement DEF CInv, DatabaseTypes
<1> HIDE DEF p
<1>3. payments' = payments \cup {p}
  BY DEF p
<1>4. Receipted' = Receipted /\ Spent' = Spent /\ Paid' = Paid
  BY <1>1, <1>3, NoMilestoneAssumption DEF Receipted, Spent, Paid
<1>5. Receipts'
  BY <1>1, <1>3, <1>4, NoMilestoneAssumption DEF CInv, Receipts
<1> QED
  BY <1>1, <1>2, <1>3, <1>4, <1>5

\* A handler that adds such a row, or none, and closes the contract.
LEMMA CloseInv ==
    ASSUME CInv, NEW r \in Slot, Answer(r),
           Receipts', payments' \subseteq Receipt, IsFiniteSet(payments'),
           payments \subseteq payments',
           NEW status \in {"COMPLETED", "CANCELLED"},
           contract' = [contract EXCEPT !.status = status],
           job' \in {job, "OPEN"},
           status = "COMPLETED" => \E p \in payments' : p.milestone = NoMilestone,
           UNCHANGED <<milestone, escrow, seq, pending, succeeded>>
    PROVE  CInv'
<1>1. contract'.status = status /\ DatabaseTypes'
  BY DEF CInv, DatabaseTypes
<1>2. Statuses'
  BY <1>1 DEF Statuses, escrow
<1>3. Idle \in RequestState
  BY DEF RequestState
<1> QED
  BY <1>1, <1>2, <1>3, OneHandler DEF Answer

\* resolveDispute.
LEMMA ResolveCommitInv == ASSUME CInv, NEW r \in Slot, ResolveCommit(r) PROVE CInv'
<1>1. /\ req[r].pc = "commit" /\ req[r].kind = "resolve" /\ Answer(r)
      /\ UNCHANGED <<job, milestone, escrow, seq, pending, succeeded>>
  BY DEF ResolveCommit, At, network
<1>2. req[r] \in RequestState \ {Idle} /\ Holds(req[r])
  BY <1>1, Running
<1>3. /\ req[r].tx \in succeeded /\ req[r].tx.fn = "resolve_dispute"
      /\ req[r].rest \in 0 .. Total
  BY <1>1, <1>2, NoTxFacts, IdleFacts DEF Holds
<1>4. CASE UNCHANGED <<payments, contract>>
  BY <1>1, <1>4, AnswerInv DEF database
<1>5. CASE /\ payments' = payments \cup {Payment(NoMilestone, req[r].rest, req[r].tx)}
           /\ contract' = [contract EXCEPT
                 !.status = IF req[r].call.decision = "RefundToClient"
                            THEN "CANCELLED" ELSE "COMPLETED"]
  <2>1. /\ Receipts' /\ payments' \subseteq Receipt /\ IsFiniteSet(payments')
        /\ \E p \in payments' : p.milestone = NoMilestone
    BY <1>1, <1>3, <1>5, ClosingReceipt DEF Closing
  <2>2. PICK status \in {"COMPLETED", "CANCELLED"} :
           contract' = [contract EXCEPT !.status = status]
    BY <1>5
  <2> QED
    BY <1>1, <1>5, <2>1, <2>2, CloseInv
<1> QED
  BY <1>4, <1>5 DEF ResolveCommit

\* cancel.
LEMMA CancelCommitInv == ASSUME CInv, NEW r \in Slot, CancelCommit(r) PROVE CInv'
<1>1. /\ req[r].pc = "commit" /\ req[r].kind = "cancel" /\ Answer(r)
      /\ UNCHANGED <<milestone, escrow, seq, pending, succeeded>>
  BY DEF CancelCommit, At, network
<1>2. req[r] \in RequestState \ {Idle} /\ Holds(req[r])
  BY <1>1, Running
<1>3. CASE UNCHANGED <<payments, contract, job>>
  BY <1>1, <1>3, AnswerInv DEF database
<1>4. CASE /\ payments' = payments \cup
                 (IF req[r].tx = NoTx THEN {}
                  ELSE {Payment(NoMilestone, req[r].rest, req[r].tx)})
           /\ contract' = [contract EXCEPT !.status = "CANCELLED"]
           /\ job' = "OPEN"
  <2>1. Receipts' /\ payments' \subseteq Receipt /\ IsFiniteSet(payments')
    <3>1. CASE req[r].tx = NoTx
      <4>1. payments' = payments /\ Paid' = Paid
        BY <1>1, <1>4, <3>1 DEF Paid
      <4> QED
        BY <1>1, <4>1, SameRows DEF CInv, DatabaseTypes
    <3>2. CASE req[r].tx # NoTx
      <4>1. req[r].call = Invoke("refund", 0, "none") /\ req[r].call # NoTx
        BY <1>1, <1>2, <3>2 DEF Holds
      <4>2. /\ req[r].tx \in succeeded /\ req[r].tx.fn = "refund"
            /\ req[r].rest \in 0 .. Total
        BY <1>1, <1>2, <4>1, IdleFacts DEF Holds, Invoke
      <4> QED
        BY <1>1, <1>4, <3>2, <4>2, ClosingReceipt DEF Closing
    <3> QED
      BY <3>1, <3>2
  <2> QED
    BY <1>1, <1>4, <2>1, CloseInv
<1> QED
  BY <1>3, <1>4 DEF CancelCommit

\* Every step of a handler.
LEMMA HandleInv == ASSUME CInv, NEW r \in Slot, Handle(r) PROVE CInv'
  BY PrepareInv, SendInv, PollInv, ReadRemainingInv, CreateCommitInv, SmallWritesInv,
     ConfirmFundCommitInv, ApproveMilestoneCommitInv, MaybeCompleteInv,
     CompleteCommitInv, ResolveCommitInv, CancelCommitInv
  DEF Handle

\* A handler that dies is as one that answers.
LEMMA DieInv == ASSUME CInv, NEW r \in Slot, Die(r) PROVE CInv'
  BY AnswerInv DEF Die, network

-----------------------------------------------------------------------------
(* The chain moves. *)

\* What a split gives the freelancer is part of what is locked.
LEMMA ShareBounds ==
    ASSUME NEW n \in Nat
    PROVE  SplitShare(n, Bps) \in 0 .. n
<1>1. Bps \in 0 .. 10000
  BY ServiceAssumption
<1>2. n * Bps \in Nat /\ n * Bps <= n * 10000
  BY <1>1
<1> HIDE <1>1
<1>3. (n * Bps) \div 10000 \in 0 .. n
  <2> PICK k \in Nat : k = n * Bps
    BY <1>2
  <2>1. k <= n * 10000
    BY <1>2
  <2> QED
    BY <2>1
<1> QED
  BY <1>3 DEF SplitShare

\* An entry point that succeeds: what it needs of the escrow, and what it
\* leaves.
LEMMA ChainStep ==
    ASSUME CInv, NEW c, c.fn \in Function, c.amount \in Nat, NEW caller,
           ChainError(c, caller) = "Ok", Execute(c)
    PROVE  /\ Books' /\ received.freelancer <= received'.freelancer
           /\ entry # NoEntry => entry'.total = entry.total
           /\ c.fn = "payment" => UNCHANGED entry
           /\ c.fn # "payment" => entry.status \in Live
           /\ entry.status = "Disputed" => entry'.status \in Settled \cup {"Disputed"}
           /\ c.fn = "release_milestone" =>
                 received'.freelancer = received.freelancer + c.amount
           /\ c.fn = "dispute" => entry'.status = "Disputed"
           /\ c.fn \in Closing => entry'.status \in Settled
<1> DEFINE rest == Remaining(entry)
<1>1. /\ received \in [freelancer : Nat, client : Nat]
      /\ entry \in EscrowEntry \cup {NoEntry}
  BY DEF CInv, Books
<1>2. ASSUME entry.status \in Live
      PROVE  /\ entry \in EscrowEntry /\ entry.total \in Nat
             /\ received.freelancer = entry.released /\ received.client = 0
             /\ rest \in Nat /\ rest = entry.total - entry.released
             /\ entry.released \in Nat
  <2>1. entry \in EscrowEntry /\ entry # NoEntry
    BY <1>1, <1>2, EntryFacts DEF Live
  <2> QED
    BY <1>1, <1>2, <2>1 DEF CInv, Books, Remaining, EscrowEntry
<1>3. CASE c.fn = "payment"
  BY <1>1, <1>3 DEF CInv, Books, Execute, ChainEntry, ChainPayout, Payout, Closing
<1>4. ASSUME NEW status \in {"Funded", "Disputed"}, NEW roles,
             AccessError(entry, caller, status, roles) = "Ok"
      PROVE  entry.status = status
  BY <1>4 DEF AccessError
<1>5. CASE c.fn = "release_milestone"
  <2>1. ReleaseMilestoneError(entry, caller, c.amount) = "Ok"
    BY <1>5 DEF ChainError
  <2>2. entry.status = "Funded" /\ 0 < c.amount /\ c.amount <= rest
    <3>1. /\ AccessError(entry, caller, "Funded", {"client", "admin"}) = "Ok"
          /\ ~(c.amount <= 0) /\ ~(c.amount > rest)
      BY <2>1 DEF ReleaseMilestoneError
    <3>2. entry.status = "Funded"
      BY <1>4, <3>1
    <3>3. rest \in Nat
      BY <1>2, <3>2 DEF Live
    <3> HIDE DEF rest
    <3> QED
      BY <3>1, <3>2, <3>3
  <2>3. /\ entry' = ReleaseMilestoneEntry(entry, c.amount)
        /\ received' = Payout(received.freelancer + c.amount, received.client + 0)
    BY <1>5 DEF Execute, ChainEntry, ChainPayout, Payout
  <2>4. /\ entry' \in EscrowEntry /\ entry'.total = entry.total
        /\ entry'.released = entry.released + c.amount
        /\ entry'.status = IF entry.released + c.amount >= entry.total THEN "Released" ELSE "Funded"
    <3>1. /\ entry \in EscrowEntry /\ entry.total \in Nat
          /\ entry.released \in Nat /\ entry.released + c.amount \in Nat
      BY <1>2, <2>2 DEF Live
    <3> PICK status \in EscrowStatus :
           status = IF entry.released + c.amount >= entry.total THEN "Released" ELSE "Funded"
      BY DEF EscrowStatus, Live, Settled
    <3>2. entry' = [entry EXCEPT !.released = @ + c.amount, !.status = status]
      BY <2>2, <2>3, <3>1 DEF ReleaseMilestoneEntry
    <3> QED
      BY <3>1, <3>2 DEF EscrowEntry
  <2>5. /\ received'.freelancer = received.freelancer + c.amount /\ received'.client = 0
        /\ received' \in [freelancer : Nat, client : Nat]
    BY <1>1, <1>2, <2>2, <2>3 DEF Payout, Live
  <2>6. Books'
    BY <1>1, <1>2, <2>2, <2>4, <2>5, EntryFacts DEF Books, Live, Settled
  <2> QED
    BY <1>1, <1>5, <2>2, <2>4, <2>5, <2>6 DEF Live, Closing
<1>6. CASE c.fn = "release"
  <2>1. entry.status = "Funded"
    BY <1>4, <1>6 DEF ChainError, ReleaseError
  <2>2. entry' = ReleaseEntry(entry) /\ received' = Payout(received.freelancer + rest, received.client + 0)
    BY <1>6 DEF Execute, ChainEntry, ChainPayout, Payout
  <2>3. entry' \in EscrowEntry /\ entry'.total = entry.total /\ entry'.status = "Released"
    BY <1>2, <2>1, <2>2 DEF ReleaseEntry, EscrowEntry, Live, EscrowStatus, Settled
  <2>4. /\ received'.freelancer = entry.total /\ received'.client = 0
        /\ received' \in [freelancer : Nat, client : Nat]
        /\ received.freelancer <= entry.total
    BY <1>1, <1>2, <2>1, <2>2 DEF Payout, Live
  <2>5. Books'
    BY <1>1, <2>3, <2>4, EntryFacts DEF Books, Live, Settled
  <2> QED
    BY <1>6, <2>1, <2>3, <2>4, <2>5 DEF Live, Closing
<1>7. CASE c.fn = "refund"
  <2>1. entry.status = "Funded"
    BY <1>4, <1>7 DEF ChainError, RefundError
  <2>2. entry' = RefundEntry(entry) /\ received' = Payout(received.freelancer + 0, received.client + rest)
    BY <1>7 DEF Execute, ChainEntry, ChainPayout, Payout
  <2>3. entry' \in EscrowEntry /\ entry'.total = entry.total /\ entry'.status = "Refunded"
    BY <1>2, <2>1, <2>2 DEF RefundEntry, EscrowEntry, Live, EscrowStatus, Settled
  <2>4. /\ received'.freelancer + received'.client = entry.total
        /\ received' \in [freelancer : Nat, client : Nat]
        /\ received.freelancer = received'.freelancer
    BY <1>1, <1>2, <2>1, <2>2 DEF Payout, Live
  <2>5. Books'
    BY <1>1, <2>3, <2>4, EntryFacts DEF Books, Live, Settled
  <2> QED
    BY <1>1, <1>7, <2>1, <2>3, <2>4, <2>5 DEF Live, Settled, Closing
<1>8. CASE c.fn = "dispute"
  <2>1. entry.status = "Funded"
    BY <1>4, <1>8 DEF ChainError, DisputeError
  <2>2. entry' = DisputeEntry(entry) /\ received' = received
    BY <1>1, <1>8 DEF Execute, ChainEntry, ChainPayout, Payout
  <2>3. /\ entry' \in EscrowEntry /\ entry'.total = entry.total /\ entry'.status = "Disputed"
        /\ entry'.released = entry.released
    BY <1>2, <2>1, <2>2 DEF DisputeEntry, EscrowEntry, Live, EscrowStatus, Settled
  <2>4. entry.released < entry.total
    BY <2>1 DEF CInv, Books, Live
  <2>5. Books'
    BY <1>1, <1>2, <2>1, <2>2, <2>3, <2>4, EntryFacts DEF Books, Live, Settled
  <2> QED
    BY <1>1, <1>8, <2>1, <2>2, <2>3, <2>5 DEF Live, Closing
<1>9. CASE c.fn = "resolve_dispute"
  <2>1. entry.status = "Disputed"
    BY <1>4, <1>9 DEF ChainError, ResolveError
  <2>2. PICK share : /\ share \in 0 .. rest
                     /\ ResolvePayout(entry, c.decision, Bps) = Payout(share, rest - share)
    <3>1. SplitShare(rest, Bps) \in 0 .. rest
      BY <1>2, <2>1, ShareBounds DEF Live
    <3>2. rest \in 0 .. rest /\ 0 \in 0 .. rest
      BY <1>2, <2>1 DEF Live
    <3> DEFINE s == CASE c.decision = "ReleaseToFreelancer" -> rest
                      [] c.decision = "RefundToClient" -> 0
                      [] OTHER -> SplitShare(rest, Bps)
    <3>3. s \in 0 .. rest
      BY <3>1, <3>2
    <3> QED
      BY <3>3 DEF ResolvePayout
  <2>3. /\ entry' = ResolveEntry(entry, c.decision)
        /\ received' = Payout(received.freelancer + share, received.client + (rest - share))
    BY <1>9, <2>2 DEF Execute, ChainEntry, ChainPayout, Payout
  <2>4. entry' \in EscrowEntry /\ entry'.total = entry.total /\ entry'.status \in Settled
    BY <1>2, <2>1, <2>3 DEF ResolveEntry, EscrowEntry, Live, EscrowStatus, Settled
  <2>5. /\ received'.freelancer + received'.client = entry.total
        /\ received' \in [freelancer : Nat, client : Nat]
        /\ received.freelancer <= received'.freelancer
    BY <1>1, <1>2, <2>1, <2>2, <2>3 DEF Payout, Live
  <2>6. Books'
    BY <1>1, <2>4, <2>5, EntryFacts DEF Books, Live, Settled
  <2> QED
    BY <1>9, <2>1, <2>4, <2>5, <2>6 DEF Live, Closing
<1> QED
  BY <1>3, <1>5, <1>6, <1>7, <1>8, <1>9 DEF Function

\* A step of the chain or the network leaves the database and the handlers.
LEMMA ChainMoves ==
    ASSUME CInv, UNCHANGED <<database, req>>, NetworkTypes', Books', Ledger',
           succeeded \subseteq succeeded',
           entry.status \in Settled => entry'.status \in Settled,
           entry.status = "Disputed" => entry'.status \in Settled \cup {"Disputed"}
    PROVE  CInv'
<1>1. Receipted' = Receipted /\ Spent' = Spent /\ Paid' = Paid
  BY DEF Receipted, Spent, Paid, database
<1>2. DatabaseTypes' /\ req' \in [Slot -> RequestState]
  BY DEF CInv, DatabaseTypes, database
<1>3. Receipts'
  BY <1>1 DEF CInv, Receipts, database
<1>4. entry.status \notin {"Absent", "Funded"} => entry'.status \notin {"Absent", "Funded"}
  BY EntryFacts DEF CInv, Books, EscrowStatus, Live, Settled
<1>5. Statuses'
  BY <1>1, <1>4 DEF CInv, Statuses, database
<1>6. Handlers'
  <2>1. ASSUME NEW s \in Slot, NEW v, v = req'[s], v # Idle PROVE Holds(v)'
    <3>1. Holds(v)
      BY <2>1 DEF CInv, Handlers
    <3> QED
      BY <1>1, <3>1, HoldsOn
  <2> QED
    BY <2>1 DEF Handlers, Holds
<1> QED
  BY <1>2, <1>3, <1>5, <1>6 DEF CInv

\* A transaction of the admin is included.
LEMMA LandInv == ASSUME CInv, Land PROVE CInv'
<1>1. PICK tx \in pending :
         /\ seq' = tx.seq /\ pending' = pending \ {tx}
         /\ \/ /\ ChainError(tx, Admin) = "Ok" /\ Execute(tx)
               /\ succeeded' = succeeded \cup {tx}
            \/ UNCHANGED <<escrow, succeeded>>
  BY DEF Land
<1>2. /\ tx \in Tx /\ tx.seq = seq + 1 /\ seq \in Nat /\ pending' = {}
      /\ \A x \in succeeded : x \in Tx /\ x.seq <= seq
  BY <1>1 DEF CInv, NetworkTypes
<1>3. UNCHANGED <<database, req>>
  BY DEF Land
<1>4. tx \notin succeeded
  BY <1>2
<1>5. succeeded' \in {succeeded, succeeded \cup {tx}}
  BY <1>1
<1>6. NetworkTypes'
  <2>1. IsFiniteSet(succeeded')
    BY <1>5, FS_AddElement DEF CInv, NetworkTypes
  <2>2. \A x \in succeeded' : x \in Tx /\ x.seq \in Nat /\ x.seq <= seq'
    BY <1>1, <1>2, <1>5 DEF Tx
  <2> QED
    BY <1>1, <1>2, <2>1, <2>2 DEF NetworkTypes
<1>7. CASE UNCHANGED <<escrow, succeeded>>
  <2>1. Books' /\ Ledger'
    <3>1. Releases' = Releases
      BY <1>7 DEF Releases
    <3> QED
      BY <1>7, <3>1 DEF CInv, Books, Ledger, escrow
  <2> QED
    BY <1>3, <1>6, <1>7, <2>1, ChainMoves DEF escrow
<1>8. CASE ChainError(tx, Admin) = "Ok" /\ Execute(tx) /\ succeeded' = succeeded \cup {tx}
  <2>1. Execute(tx) /\ succeeded' = succeeded \cup {tx}
    BY <1>8
  <2>2. tx.fn \in Function /\ tx.amount \in Nat
    BY <1>2 DEF Tx
  <2>3. /\ Books' /\ received.freelancer <= received'.freelancer
        /\ entry # NoEntry => entry'.total = entry.total
        /\ tx.fn = "payment" => UNCHANGED entry
        /\ tx.fn # "payment" => entry.status \in Live
        /\ entry.status = "Disputed" => entry'.status \in Settled \cup {"Disputed"}
        /\ tx.fn = "release_milestone" =>
              received'.freelancer = received.freelancer + tx.amount
        /\ tx.fn = "dispute" => entry'.status = "Disputed"
        /\ tx.fn \in Closing => entry'.status \in Settled
    BY <1>8, <2>1, <2>2, ChainStep
  <2>4. /\ received.freelancer \in Nat /\ received'.freelancer \in Nat
    BY <2>3 DEF CInv, Books
  <2>5. /\ IsFiniteSet(Releases) /\ Releases \subseteq Tx
        /\ Sum(AmountOf, Releases) \in Nat
        /\ Sum(AmountOf, Releases) <= received.freelancer
    BY ReleasesFacts DEF CInv, Ledger
  <2>6. tx.fn # "release_milestone" => Releases' = Releases
    BY <2>1 DEF Releases
  <2>7. Sum(AmountOf, Releases)' <= received'.freelancer
    <3>1. CASE tx.fn # "release_milestone"
      BY <2>3, <2>4, <2>5, <2>6, <3>1
    <3>2. CASE tx.fn = "release_milestone"
      <4>1. Releases' = Releases \cup {tx} /\ tx \notin Releases
        BY <1>4, <2>1, <3>2 DEF Releases
      <4>2. \A y \in Releases \cup {tx} : AmountOf[y] \in Nat
        BY <1>2, <2>5 DEF AmountOf, Tx
      <4>3. Sum(AmountOf, Releases \cup {tx}) = Sum(AmountOf, Releases) + AmountOf[tx]
        BY <2>5, <4>1, <4>2, SumPutIn
      <4>4. AmountOf[tx] = tx.amount
        BY <1>2 DEF AmountOf
      <4> QED
        BY <2>2, <2>3, <2>4, <2>5, <3>2, <4>1, <4>3, <4>4
    <3> QED
      BY <3>1, <3>2
  <2>8. ASSUME NEW x \in succeeded, x.fn \in Closing
        PROVE  /\ tx.fn = "payment" /\ entry'.status \in Settled
               /\ Sum(AmountOf, Releases)' < entry'.total
    <3>1. entry.status \in Settled /\ Sum(AmountOf, Releases) < entry.total
      BY <2>8 DEF CInv, Ledger
    <3>2. tx.fn = "payment"
      BY <2>3, <3>1 DEF Live, Settled
    <3> QED
      BY <2>3, <2>6, <3>1, <3>2
  <2>9. tx.fn \in Closing => entry'.status \in Settled /\ Sum(AmountOf, Releases)' < entry'.total
    <3>1. tx.fn \in Closing => entry.status \in Live /\ Releases' = Releases
      BY <2>3, <2>6 DEF Closing
    <3> QED
      BY <2>3, <3>1, LiveFacts
  <2>10. /\ entry.status \in Settled => entry'.status \in Settled
         /\ entry.status \notin {"Absent", "Funded"} =>
               entry'.status \notin {"Absent", "Funded"}
    <3>1. entry.status \in Settled => UNCHANGED entry
      BY <2>3 DEF Live, Settled
    <3>2. entry.status \in {"Absent", "Funded", "Disputed"} \cup Settled
      BY EntryFacts DEF CInv, Books, EscrowStatus, Live, Settled
    <3> QED
      BY <2>3, <3>1, <3>2 DEF Settled
  <2>11. \A x \in succeeded : x.fn = "dispute" => entry'.status \notin {"Absent", "Funded"}
    BY <2>10 DEF CInv, Ledger
  <2>12. \A a, b \in succeeded' : a.fn \in Closing /\ b.fn \in Closing => a = b
    <3>1. \A a, b \in succeeded : a.fn \in Closing /\ b.fn \in Closing => a = b
      BY DEF CInv, Ledger
    <3> QED
      BY <2>1, <2>8, <3>1 DEF Closing
  <2>13. Ledger'
    BY <2>1, <2>3, <2>7, <2>8, <2>9, <2>11, <2>12 DEF Ledger
  <2> QED
    BY <1>3, <1>6, <2>1, <2>3, <2>10, <2>13, ChainMoves
<1> QED
  BY <1>1, <1>7, <1>8

\* A transaction expires.
LEMMA ExpireInv == ASSUME CInv, Expire PROVE CInv'
<1>1. /\ UNCHANGED <<database, req, escrow, seq, succeeded>> /\ pending' \subseteq pending
  BY DEF Expire
<1>2. Releases' = Releases
  BY <1>1 DEF Releases
<1>3. NetworkTypes' /\ Books' /\ Ledger'
  BY <1>1, <1>2 DEF CInv, NetworkTypes, Books, Ledger, escrow
<1> QED
  BY <1>1, <1>3, ChainMoves DEF escrow

\* The chain moves for one who is not the admin.
LEMMA OtherCallers ==
    ASSUME CInv, UNCHANGED <<database, req, network>>, Books',
           received.freelancer <= received'.freelancer,
           entry.status \in Settled => UNCHANGED entry,
           entry.status = "Disputed" => entry'.status \in Settled \cup {"Disputed"}
    PROVE  CInv'
<1>1. NetworkTypes'
  BY DEF CInv, NetworkTypes, network
<1>2. Releases' = Releases
  BY DEF Releases, network
<1>3. Sum(AmountOf, Releases) <= received'.freelancer
  <2>1. /\ Sum(AmountOf, Releases) \in Nat /\ received.freelancer \in Nat
        /\ received'.freelancer \in Nat /\ Sum(AmountOf, Releases) <= received.freelancer
    BY ReleasesFacts DEF CInv, Books, Ledger
  <2> QED
    BY <2>1
<1>4. entry.status \notin {"Absent", "Funded"} => entry'.status \notin {"Absent", "Funded"}
  BY EntryFacts DEF CInv, Books, EscrowStatus, Live, Settled
<1>5. Ledger'
  BY <1>2, <1>3, <1>4 DEF CInv, Ledger, network
<1> QED
  BY <1>1, <1>5, ChainMoves DEF network

\* What a deposit is made of.
LEMMA DepositTypes ==
    \A deposit \in {Agreed} \cup OtherDeposits :
        /\ {deposit.client, deposit.freelancer, deposit.admin} \subseteq Address
        /\ deposit.token \in Token /\ deposit.amount \in Nat
<1>1. /\ {Agreed.client, Agreed.freelancer, Agreed.admin} \subseteq Address
      /\ Agreed.token \in Token /\ Agreed.amount \in Nat
  BY ServiceAssumption, TotalFacts DEF Agreed
<1>2. OtherDeposits \subseteq [client : Address \ {Admin}, freelancer : Address,
                              admin : Address, token : Token, amount : Nat]
  BY ServiceAssumption
<1> QED
  BY <1>1, <1>2

\* A deposit makes the escrow, whoever it names and whatever it is of.
LEMMA FundInv == ASSUME CInv, Fund PROVE CInv'
<1>1. PICK deposit \in {Agreed} \cup OtherDeposits :
         /\ FundError(entry, deposit.amount) = "Ok"
         /\ entry' = FundedEntry(deposit, deposit.token, deposit.amount)
         /\ UNCHANGED <<database, received, network, req>>
  BY DEF Fund
<1>2. deposit.amount \in Nat /\ 0 < deposit.amount /\ entry = NoEntry
  <2>1. ~(deposit.amount <= 0) /\ ~Present(entry)
    BY <1>1 DEF FundError
  <2> QED
    BY <2>1, DepositTypes, LiveFacts
<1>3. /\ entry' \in EscrowEntry /\ entry'.status = "Funded"
      /\ entry'.total = deposit.amount /\ entry'.released = 0
  BY <1>1, DepositTypes DEF FundedEntry, EscrowEntry, EscrowStatus, Live
<1>4. Books' /\ received.freelancer <= received'.freelancer
  BY <1>1, <1>2, <1>3, EntryFacts DEF CInv, Books, Live, Settled
<1> QED
  BY <1>1, <1>2, <1>4, OtherCallers, EntryFacts DEF Settled

\* What a party may ask of the escrow is no payment of the admin's lumens.
LEMMA InvocationTypes ==
    ASSUME CInv, NEW c \in Invocation
    PROVE  c.fn \in Function \ {"payment"} /\ c.amount \in Nat
<1>1. Outstanding(entry) \in Int
  <2>1. entry.status \in Live => entry.total \in Nat /\ entry.released \in Nat
    BY LiveFacts
  <2> QED
    BY <2>1 DEF Outstanding, Remaining
<1>2. \A n \in 1 .. Outstanding(entry) : n \in Nat
  BY <1>1
<1> QED
  BY <1>2 DEF Invocation, Invoke, Function

\* A party's own call.
LEMMA DirectInv == ASSUME CInv, Direct PROVE CInv'
<1>1. PICK c \in Invocation, caller \in Address : DirectCall(c, caller)
  BY DEF Direct
<1>2. /\ c.fn \in Function \ {"payment"} /\ c.amount \in Nat
      /\ ChainError(c, caller) = "Ok" /\ Execute(c)
      /\ UNCHANGED <<database, req, network>>
  BY <1>1, InvocationTypes DEF DirectCall
<1>3. /\ Books' /\ received.freelancer <= received'.freelancer
      /\ entry.status \in Live
      /\ entry.status = "Disputed" => entry'.status \in Settled \cup {"Disputed"}
  BY <1>2, ChainStep
<1> QED
  BY <1>2, <1>3, OtherCallers DEF Live, Settled

\* Every step keeps the invariant.
LEMMA NextInv == CInv /\ [Next]_vars => CInv'
<1> SUFFICES ASSUME CInv, [Next]_vars PROVE CInv'
  OBVIOUS
<1>1. CASE \E r \in Slot : Request(r) \/ Handle(r) \/ Die(r)
  BY <1>1, RequestInv, HandleInv, DieInv
<1>2. CASE Land \/ Expire \/ Fund \/ Direct
  BY <1>2, LandInv, ExpireInv, FundInv, DirectInv
<1>3. CASE UNCHANGED vars
  <2>1. UNCHANGED <<database, escrow, req, seq, pending, succeeded>>
    BY <1>3 DEF vars, network
  <2>2. Releases' = Releases
    BY <2>1 DEF Releases
  <2>3. NetworkTypes' /\ Books' /\ Ledger'
    BY <2>1, <2>2 DEF CInv, NetworkTypes, Books, Ledger, escrow
  <2> QED
    BY <2>1, <2>3, ChainMoves DEF escrow
<1> QED
  BY <1>1, <1>2, <1>3 DEF Next

\* The invariant, for every value of the constants.
THEOREM Invariance == Spec => []CInv
<1> QED
  BY InitInv, NextInv, PTL DEF Spec

-----------------------------------------------------------------------------
(* What follows from it. *)

\* Every variable stays in its type; one admin transaction waits at most;
\* and whatever was deposited, with the requests, the parties and the
\* administrator drawing on it, the two parties never have more of it between
\* them than that, nor anything before it.
THEOREM TypeCorrect == Spec => []TypeOK
<1> SUFFICES ASSUME CInv PROVE TypeOK
  BY Invariance, PTL
<1>1. /\ received \in [freelancer : Nat, client : Nat]
      /\ received.freelancer + received.client
            <= IF Present(entry) THEN entry.total ELSE 0
  <2>1. received.freelancer \in Nat /\ received.client \in Nat
    BY DEF CInv, Books
  <2>2. CASE entry = NoEntry
    BY <2>1, <2>2, EntryFacts DEF CInv, Books, Present
  <2>3. CASE entry.status \in Live
    <3>1. received.freelancer = entry.released /\ received.client = 0
          /\ entry.released < entry.total
      BY <2>3 DEF CInv, Books
    <3>2. Present(entry) /\ entry.total \in Nat
      BY <2>3, LiveFacts
    <3> QED
      BY <2>1, <3>1, <3>2 DEF CInv, Books
  <2>4. CASE entry.status \in Settled
    <3>1. received.freelancer + received.client = entry.total
      BY <2>4 DEF CInv, Books
    <3>2. Present(entry) /\ entry.total \in Nat
      BY <2>4, LiveFacts
    <3> QED
      BY <2>1, <3>1, <3>2 DEF CInv, Books
  <2> QED
    BY <2>2, <2>3, <2>4, LiveFacts
<1>2. Cardinality(pending) <= 1
  <2>1. \A a, b \in pending : a = b
    BY DEF CInv, NetworkTypes
  <2>2. CASE pending = {}
    BY <2>2, FS_EmptySet
  <2>3. ASSUME NEW a \in pending PROVE Cardinality(pending) <= 1
    <3>1. pending = {a}
      BY <2>1
    <3> QED
      BY <3>1, FS_Singleton
  <2> QED
    BY <2>2, <2>3
<1>3. \A p \in payments : p.milestone \in Milestone \cup {NoMilestone} /\ p.amount \in 0 .. Total
  BY DEF CInv, DatabaseTypes, Receipt
<1>4. \A r \in Slot : req[r] # Idle => req[r].kind \in Kinds
  BY IdleFacts DEF CInv
<1> QED
  BY <1>1, <1>2, <1>3, <1>4 DEF CInv, DatabaseTypes, NetworkTypes, Books, TypeOK

\* Whatever interleaves, fails or shares a transaction, and whatever was
\* deposited: the milestones that the database shows PAID add up to no more
\* than the escrow has paid to the freelancer the deposit names, in the token
\* it names.
THEOREM PaidBacked == Spec => []PaidBackedByChain
<1> SUFFICES ASSUME CInv PROVE PaidBackedByChain
  BY Invariance, PTL
<1>1. Sum(Price, Paid) <= Sum(Price, Receipted) /\ Sum(Price, Paid) \in Nat
  <2>1. Paid \subseteq Receipted /\ IsFiniteSet(Receipted) /\ Receipted \subseteq Milestone
    BY SpentFacts DEF CInv, Receipts
  <2>2. IsFiniteSet(Paid)
    BY <2>1, FS_Subset
  <2>3. \A m \in Receipted : Price[m] \in Nat
    BY <2>1, TotalFacts
  <2> QED
    BY <2>1, <2>2, <2>3, SumMonotone, SumIsNat
<1>2. Sum(AmountOf, Spent) <= Sum(AmountOf, Releases)
  <2>1. IsFiniteSet(Releases) /\ Releases \subseteq Tx /\ Spent \subseteq Releases
    BY ReleasesFacts DEF CInv, Receipts, Spent, Releases
  <2>2. \A tx \in Releases : AmountOf[tx] \in Nat
    BY <2>1 DEF AmountOf, Tx
  <2> QED
    BY <2>1, <2>2, SumMonotone
<1>3. /\ Sum(Price, Receipted) <= Sum(AmountOf, Spent)
      /\ Sum(AmountOf, Releases) <= received.freelancer
  BY DEF CInv, Receipts, Ledger
<1>4. /\ Sum(Price, Receipted) \in Nat /\ Sum(AmountOf, Spent) \in Nat
      /\ Sum(AmountOf, Releases) \in Nat /\ received.freelancer \in Nat
  BY SpentFacts, ReleasesFacts DEF CInv, Books
<1>5. Sum(Price, Paid) <= received.freelancer
  BY <1>1, <1>2, <1>3, <1>4
<1> QED
  BY <1>5 DEF PaidBackedByChain, Sum

\* Every Payment row records a transaction that the ledger has, and that
\* did what the row says.
THEOREM RowsAreReal == Spec => []PaymentsAreReal
<1> SUFFICES ASSUME CInv PROVE PaymentsAreReal
  BY Invariance, PTL
<1>1. \A p \in payments : p.tx \in succeeded
  BY DEF CInv, Receipts
<1>2. \A tx \in succeeded : tx.fn \in Closing => entry.status \in Settled
  BY DEF CInv, Ledger
<1> QED
  BY <1>1, <1>2 DEF CInv, Receipts, PaymentsAreReal, Closing

\* Whatever was deposited, and whoever completed the contract: its escrow is
\* settled, or what is left there is no more than what the deposit exceeds the
\* price of the milestones by.
THEOREM CompletedIsSettled == Spec => []CompletedMeansSettled
<1>1. CInv => CompletedMeansSettled
  <2> SUFFICES ASSUME CInv, contract.status = "COMPLETED"
               PROVE  \/ entry.status \in Settled
                      \/ Present(entry) /\ Remaining(entry) <= entry.total - Total
    BY DEF CompletedMeansSettled
  <2>1. CASE Receipted = Milestone /\ Milestone # {}
    BY <2>1, AllReceipted
  <2>2. CASE \E p \in payments : p.milestone = NoMilestone
    <3>1. PICK p \in payments : p.milestone = NoMilestone
      BY <2>2
    <3>2. p.tx \in succeeded /\ p.tx.fn \in Closing
      BY <3>1, NoMilestoneAssumption DEF CInv, Receipts
    <3> QED
      BY <3>2 DEF CInv, Ledger
  <2> QED
    BY <2>1, <2>2 DEF CInv, Statuses
<1> QED
  BY <1>1, Invariance, PTL

\* A DISPUTED contract has an escrow that is frozen or settled.
THEOREM DisputedIsFrozen == Spec => []FrozenWhileDisputed
<1> SUFFICES ASSUME CInv PROVE FrozenWhileDisputed
  BY Invariance, PTL
<1> QED
  BY DEF CInv, Statuses, FrozenWhileDisputed

\* Once a contract is COMPLETED and no surplus is left in its escrow, no
\* transaction that would close the escrow can still get a row: it is the one that has a row already, or the escrow
\* had been paid out by releases before it.
LEMMA NoSecondClosing ==
    ASSUME CInv, contract.status = "COMPLETED", ~Overfunded, NEW tx \in succeeded,
           tx.fn \in Closing, NEW amount, Unique(Payment(NoMilestone, amount, tx))
    PROVE  FALSE
<1>1. /\ Sum(AmountOf, Releases) < entry.total /\ entry.total \in Nat
      /\ entry.total <= Total /\ Total \in Nat /\ Sum(AmountOf, Releases) \in Nat
  <2>1. Sum(AmountOf, Releases) < entry.total /\ entry.status \in Settled
    BY DEF CInv, Ledger
  <2>2. Present(entry) /\ entry.total \in Nat
    BY <2>1, LiveFacts
  <2>3. Sum(AmountOf, Releases) \in Nat /\ Total \in Nat
    BY ReleasesFacts, TotalFacts DEF CInv
  <2> QED
    BY <2>1, <2>2, <2>3 DEF Overfunded
<1>2. CASE Receipted = Milestone /\ Milestone # {}
  BY <1>1, <1>2, AllReceipted
<1>3. CASE \E p \in payments : p.milestone = NoMilestone
  <2>1. PICK p \in payments : p.milestone = NoMilestone
    BY <1>3
  <2>2. p.tx \in succeeded /\ p.tx.fn \in Closing
    BY <2>1, NoMilestoneAssumption DEF CInv, Receipts
  <2>3. p.tx = tx
    BY <2>2 DEF CInv, Ledger
  <2> QED
    BY <2>1, <2>3 DEF Unique, Payment
<1> QED
  BY <1>2, <1>3 DEF CInv, Statuses

\* Only a late confirm-fund, a cancel that saw no funding, or the second of
\* two disputes takes a contract out of COMPLETED; or the row of a refund or a
\* resolution that found a surplus.
THEOREM ReopenedOnlyUnguarded == Spec => OnlyUnguardedWritesReopen
<1> DEFINE Reopened ==
        contract.status = "COMPLETED" /\ contract'.status # "COMPLETED" =>
           \E r \in Slot :
              /\ req[r] # Idle /\ req'[r] = Idle
              /\ req[r].tx = NoTx \/ req[r].kind = "dispute" \/ Overfunded
<1>1. CInv /\ [Next]_vars => [Reopened]_vars
  <2> SUFFICES ASSUME CInv, [Next]_vars, contract.status = "COMPLETED",
                      contract'.status # "COMPLETED"
               PROVE  Reopened
    OBVIOUS
  <2>1. contract \in [status : {"None", "PENDING", "ACTIVE", "DISPUTED",
                               "COMPLETED", "CANCELLED"}, hash : BOOLEAN]
    BY DEF CInv, DatabaseTypes
  <2>2. Next
    BY DEF vars, database
  <2>3. ASSUME NEW r \in Slot, req[r].pc # "idle", Answer(r)
        PROVE  req[r] # Idle /\ req'[r] = Idle
    BY <2>3 DEF CInv, Answer, Idle
  <2>4. ASSUME NEW r \in Slot, Handle(r) PROVE Reopened
    <3>1. CASE ConfirmFundCommit(r)
      <4>1. req[r].pc = "commit" /\ req[r].kind = "confirm" /\ Answer(r)
        BY <3>1 DEF ConfirmFundCommit, At
      <4>2. req[r].tx = NoTx
        BY <4>1, Running DEF Holds
      <4> QED
        BY <2>3, <4>1, <4>2
    <3>2. CASE RaiseDisputeCommit(r)
      <4>1. req[r].pc = "commit" /\ req[r].kind = "dispute" /\ Answer(r)
        BY <3>2 DEF RaiseDisputeCommit, At
      <4> QED
        BY <2>3, <4>1
    <3>3. CASE ResolveCommit(r)
      <4>1. req[r].pc = "commit" /\ req[r].kind = "resolve"
        BY <3>3 DEF ResolveCommit, At
      <4>2. req[r].tx \in succeeded /\ req[r].tx.fn \in Closing
        BY <4>1, Running, NoTxFacts DEF Holds, Closing
      <4>3. Unique(Payment(NoMilestone, req[r].rest, req[r].tx)) /\ Answer(r)
        BY <3>3 DEF ResolveCommit
      <4>4. Overfunded
        BY <4>2, <4>3, NoSecondClosing
      <4> QED
        BY <2>3, <4>1, <4>3, <4>4
    <3>4. CASE CancelCommit(r)
      <4>1. req[r].pc = "commit" /\ req[r].kind = "cancel" /\ Answer(r)
        BY <3>4 DEF CancelCommit, At
      <4>2. CASE req[r].tx = NoTx
        BY <2>3, <4>1, <4>2
      <4>3. CASE req[r].tx # NoTx
        <5>1. req[r].call = Invoke("refund", 0, "none") /\ req[r].call # NoTx
          BY <4>1, <4>3, Running DEF Holds
        <5>2. req[r].tx \in succeeded /\ req[r].tx.fn = req[r].call.fn
          BY <4>1, <5>1, Running DEF Holds
        <5>3. Unique(Payment(NoMilestone, req[r].rest, req[r].tx))
          BY <3>4, <4>3 DEF CancelCommit
        <5>4. req[r].tx.fn \in Closing
          BY <5>1, <5>2 DEF Invoke, Closing
        <5>5. Overfunded
          BY <5>2, <5>3, <5>4, NoSecondClosing
        <5> QED
          BY <2>3, <4>1, <5>5
      <4> QED
        BY <4>2, <4>3
    <3>5. CASE CreateCommit(r)
      BY <3>5 DEF CreateCommit
    <3>6. CASE CompleteCommit(r)
      BY <2>1, <3>6 DEF CompleteCommit
    <3>7. CASE contract' = contract
      BY <3>7
    <3> QED
      BY <2>4, <3>1, <3>2, <3>3, <3>4, <3>5, <3>6, <3>7
      DEF Handle, Prepare, Send, Poll, ReadRemaining, BuildFundXdr, JobCancelCommit,
          SubmitMilestoneCommit, ApproveMilestoneCommit, MaybeComplete,
          WithdrawConfirm, database
  <2>5. ASSUME NEW r \in Slot, Request(r) \/ Die(r) PROVE contract' = contract
    BY <2>5 DEF Request, Die, Create, JobCancel, ConfirmFund, RaiseDispute, Withdraw,
       SubmitMilestone, ApproveMilestone, Resolve, Cancel, BeginCall, Begin, database
  <2>6. Land \/ Expire \/ Fund \/ Direct => contract' = contract
    BY DEF Land, Expire, Fund, Direct, DirectCall, database
  <2> QED
    BY <2>2, <2>4, <2>5, <2>6 DEF Next
<1> QED
  BY <1>1, Invariance, PTL DEF Spec, OnlyUnguardedWritesReopen

-----------------------------------------------------------------------------
(* The last payment.  Of the handlers that approve, the one that makes the *)
(* last milestone PAID sees that it is the last; no other write undoes the *)
(* end of the contract, but a confirm-fund that comes late, or a dispute   *)
(* over a surplus.  What is left of AllPaidCompletes is that the handler   *)
(* goes on.                                                                *)

\* No confirm-fund is about to write that the contract is ACTIVE although it
\* has been funded long since: a part of NothingStale.
NoLateConfirm == \A r \in Slot : req[r].kind = "confirm" => ~contract.hash

\* An approval or a dispute begins on a contract that is funded, and only an
\* approval makes a milestone PAID.
Secured ==
    /\ \A r \in Slot : req[r].kind \in {"approve", "dispute"} => contract.hash
    /\ Paid # {} => contract.hash

\* A dispute that landed stopped the releases short of the total.
DisputeStops ==
    (\E tx \in succeeded : tx.fn = "dispute") =>
        Sum(AmountOf, Releases) < entry.total

Completing ==
    \E r \in Slot : At(r, "approve", "complete?") \/ At(r, "approve", "complete")

Completes ==
    AllPaid => contract.status \in {"COMPLETED", "CANCELLED"} \/ Completing

\* A step of a request leaves the other requests as they are.
LEMMA OthersWait ==
    ASSUME CInv, NEW r \in Slot, Request(r) \/ Handle(r) \/ Die(r),
           NEW s \in Slot, s # r
    PROVE  req'[s] = req[s]
<1>1. req \in [Slot -> RequestState]
  BY DEF CInv
<1>2. PICK v : req' = [req EXCEPT ![r] = v]
  BY DEF Request, Handle, Die, Create, JobCancel, ConfirmFund, RaiseDispute, Withdraw,
         SubmitMilestone, ApproveMilestone, Resolve, Cancel, BeginCall, Begin,
         Prepare, Send, Poll, ReadRemaining, CreateCommit, BuildFundXdr,
         JobCancelCommit, ConfirmFundCommit, SubmitMilestoneCommit,
         ApproveMilestoneCommit, MaybeComplete, CompleteCommit, RaiseDisputeCommit,
         ResolveCommit, CancelCommit, WithdrawConfirm, GoTo, Answer
<1> QED
  BY <1>1, <1>2

\* A handler that goes on serves the endpoint it has begun with.
LEMMA SameEndpoint ==
    ASSUME CInv, NEW r \in Slot, Handle(r) \/ Die(r)
    PROVE  req'[r].kind \in {req[r].kind, "none"}
<1>1. req \in [Slot -> RequestState]
  BY DEF CInv
<1>2. CASE Answer(r)
  BY <1>1, <1>2 DEF Answer, Idle
<1>3. ASSUME NEW pc, GoTo(r, pc) PROVE req'[r].kind = req[r].kind
  BY <1>1, <1>3 DEF GoTo
<1>4. CASE Prepare(r)
  <2>1. ASSUME NEW tx, req' = [req EXCEPT ![r].pc = "send", ![r].tx = tx]
        PROVE  req'[r].kind = req[r].kind
    <3> DEFINE q == [req[r] EXCEPT !.pc = "send", !.tx = tx]
    <3>1. req' = [req EXCEPT ![r] = q]
      BY <1>1, <2>1
    <3>2. q.kind = req[r].kind
      BY <1>4, Running, IdleFacts DEF Prepare
    <3> HIDE DEF q
    <3> QED
      BY <1>1, <3>1, <3>2
  <2> QED
    BY <1>2, <1>4, <2>1 DEF Prepare
<1>5. CASE ReadRemaining(r)
  BY <1>1, <1>5 DEF ReadRemaining
<1>6. CASE (Handle(r) /\ ~Prepare(r) /\ ~ReadRemaining(r)) \/ Die(r)
  BY <1>2, <1>3, <1>6
  DEF Handle, Die, Send, Poll, CreateCommit, BuildFundXdr,
      JobCancelCommit, ConfirmFundCommit, SubmitMilestoneCommit,
      ApproveMilestoneCommit, MaybeComplete, CompleteCommit, RaiseDisputeCommit,
      ResolveCommit, CancelCommit, WithdrawConfirm
<1> QED
  BY <1>4, <1>5, <1>6

\* Once the contract is funded it stays so.
LEMMA HashStays == ASSUME CInv, Next, contract.hash PROVE contract'.hash
<1>1. contract \in [status : {"None", "PENDING", "ACTIVE", "DISPUTED",
                              "COMPLETED", "CANCELLED"}, hash : BOOLEAN]
  BY DEF CInv, DatabaseTypes
<1>2. contract.status # "None"
  BY DEF CInv, DatabaseTypes
<1>3. ASSUME NEW r \in Slot, Handle(r) PROVE contract'.hash
  <2>1. CASE ConfirmFundCommit(r)
    BY <2>1 DEF ConfirmFundCommit
  <2>2. CASE CreateCommit(r)
    BY <1>2, <2>2 DEF CreateCommit
  <2>3. ASSUME NEW status, contract' = [contract EXCEPT !.status = status]
        PROVE  contract'.hash
    BY <1>1, <2>3
  <2>4. CASE CompleteCommit(r) \/ RaiseDisputeCommit(r) \/ ResolveCommit(r) \/ CancelCommit(r)
    BY <2>3, <2>4 DEF CompleteCommit, RaiseDisputeCommit, ResolveCommit, CancelCommit
  <2>5. CASE contract' = contract
    BY <2>5
  <2> QED
    BY <1>3, <2>1, <2>2, <2>4, <2>5
    DEF Handle, Prepare, Send, Poll, ReadRemaining, BuildFundXdr, JobCancelCommit,
        SubmitMilestoneCommit, ApproveMilestoneCommit, MaybeComplete,
        WithdrawConfirm, database
<1>4. ASSUME NEW r \in Slot, Request(r) \/ Die(r) PROVE contract' = contract
  BY <1>4 DEF Request, Die, Create, JobCancel, ConfirmFund, RaiseDispute, Withdraw,
     SubmitMilestone, ApproveMilestone, Resolve, Cancel, BeginCall, Begin, database
<1>5. Land \/ Expire \/ Fund \/ Direct => contract' = contract
  BY DEF Land, Expire, Fund, Direct, DirectCall, database
<1> QED
  BY <1>3, <1>4, <1>5 DEF Next

\* Only an approval adds to what is PAID.
LEMMA NewlyPaid ==
    ASSUME CInv, Next, Paid' # Paid
    PROVE  \/ Paid' \subseteq Paid
           \/ \E r \in Slot : ApproveMilestoneCommit(r)
<1>1. milestone \in [Milestone -> {"PENDING", "IN_REVIEW", "PAID"}]
  BY DEF CInv, DatabaseTypes
<1>2. milestone' # milestone
  BY DEF Paid
<1>3. PICK r \in Slot : CreateCommit(r) \/ SubmitMilestoneCommit(r) \/ ApproveMilestoneCommit(r)
  BY <1>2
  DEF Next, Request, Handle, Die, Create, JobCancel, ConfirmFund, RaiseDispute, Withdraw,
      SubmitMilestone, ApproveMilestone, Resolve, Cancel, BeginCall, Begin,
      Prepare, Send, Poll, ReadRemaining, BuildFundXdr,
      JobCancelCommit, ConfirmFundCommit, MaybeComplete, CompleteCommit,
      RaiseDisputeCommit, ResolveCommit, CancelCommit, WithdrawConfirm,
      Land, Expire, Fund, Direct, DirectCall, database
<1>4. CASE CreateCommit(r)
  <2>1. milestone' = [m \in Milestone |-> "PENDING"]
    BY <1>2, <1>4 DEF CreateCommit
  <2> QED
    BY <2>1 DEF Paid
<1>5. CASE SubmitMilestoneCommit(r)
  BY <1>1, <1>5 DEF SubmitMilestoneCommit, Paid
<1> QED
  BY <1>3, <1>4, <1>5

\* A request that is running goes on for a contract that is funded.
LEMMA SecuredNext == ASSUME CInv, Secured, Next PROVE Secured'
<1>1. req \in [Slot -> RequestState]
  BY DEF CInv
<1>2. ASSUME NEW r \in Slot, NEW s \in Slot, Request(s),
             req'[r].kind \in {"approve", "dispute"}
      PROVE  contract.hash
  <2>1. CASE r # s
    BY <1>2, <2>1, OthersWait DEF Secured
  <2>2. CASE r = s
    <3>1. ASSUME NEW kind, NEW m, NEW call, NEW pc, Begin(s, kind, m, call, pc)
          PROVE  req'[s].kind = kind
      BY <1>1, <3>1 DEF Begin
    <3>2. (\E m \in Milestone : ApproveMilestone(s, m)) \/ RaiseDispute(s)
      BY <1>2, <2>2, <3>1
      DEF Request, Create, JobCancel, ConfirmFund, Withdraw, SubmitMilestone,
          Resolve, Cancel, BeginCall
    <3> QED
      BY <3>2 DEF ApproveMilestone, RaiseDispute, CInv, Statuses
  <2> QED
    BY <2>1, <2>2
<1>3. ASSUME NEW r \in Slot, NEW s \in Slot, Handle(s) \/ Die(s),
             req'[r].kind \in {"approve", "dispute"}
      PROVE  contract.hash
  <2>1. req'[r].kind \in {req[r].kind, "none"}
    BY <1>3, OthersWait, SameEndpoint
  <2> QED
    BY <1>3, <2>1 DEF Secured
<1>4. ASSUME NEW r \in Slot, UNCHANGED req, req'[r].kind \in {"approve", "dispute"}
      PROVE  contract.hash
  BY <1>4 DEF Secured
<1>5. ASSUME NEW r \in Slot, req'[r].kind \in {"approve", "dispute"}
      PROVE  contract'.hash
  <2>1. contract.hash
    BY <1>2, <1>3, <1>4, <1>5 DEF Next, Land, Expire, Fund, Direct, DirectCall
  <2> QED
    BY <2>1, HashStays
<1>6. ASSUME Paid' # {} PROVE contract'.hash
  <2>1. CASE Paid # {}
    BY <2>1, HashStays DEF Secured
  <2>2. CASE Paid = {}
    <3>1. PICK r \in Slot : ApproveMilestoneCommit(r)
      BY <1>6, <2>2, NewlyPaid
    <3>2. contract.hash
      BY <3>1 DEF ApproveMilestoneCommit, At, Secured
    <3> QED
      BY <3>2, HashStays
  <2> QED
    BY <2>1, <2>2
<1> QED
  BY <1>5, <1>6 DEF Secured

\* A call that the escrow accepts leaves what was deposited as it is.
LEMMA ExecuteKeepsDeposit ==
    ASSUME CInv, NEW c, c.fn \in Function, c.amount \in Nat, NEW caller,
           ChainError(c, caller) = "Ok", Execute(c)
    PROVE  IF entry = NoEntry THEN UNCHANGED entry ELSE entry'.total = entry.total
  BY ChainStep, LiveFacts

\* Only Fund makes an escrow, and what was deposited stays what it was.
LEMMA DepositStays ==
    ASSUME CInv, [Next]_vars, entry # NoEntry \/ ~Fund
    PROVE  IF entry = NoEntry THEN UNCHANGED entry ELSE entry'.total = entry.total
<1>1. CASE Land
  <2>1. PICK tx \in pending :
           \/ ChainError(tx, Admin) = "Ok" /\ Execute(tx)
           \/ UNCHANGED <<escrow, succeeded>>
    BY <1>1 DEF Land
  <2>2. tx.fn \in Function /\ tx.amount \in Nat
    BY DEF CInv, NetworkTypes, Tx
  <2> QED
    BY <2>1, <2>2, ExecuteKeepsDeposit DEF escrow
<1>2. CASE Direct
  <2>1. PICK c \in Invocation, caller \in Address : DirectCall(c, caller)
    BY <1>2 DEF Direct
  <2>2. c.fn \in Function /\ c.amount \in Nat
    BY InvocationTypes
  <2> QED
    BY <2>1, <2>2, ExecuteKeepsDeposit DEF DirectCall
<1>3. ~Fund
  BY LiveFacts DEF Fund, FundError
<1>4. ASSUME NEW r \in Slot, Request(r) \/ Handle(r) \/ Die(r) PROVE UNCHANGED entry
  BY <1>4
  DEF Request, Handle, Die, Create, JobCancel, ConfirmFund, RaiseDispute, Withdraw,
      SubmitMilestone, ApproveMilestone, Resolve, Cancel, BeginCall, Begin,
      Prepare, Send, Poll, ReadRemaining, CreateCommit, BuildFundXdr,
      JobCancelCommit, ConfirmFundCommit, SubmitMilestoneCommit,
      ApproveMilestoneCommit, MaybeComplete, CompleteCommit, RaiseDisputeCommit,
      ResolveCommit, CancelCommit, WithdrawConfirm, escrow
<1>5. Expire \/ UNCHANGED vars => UNCHANGED entry
  BY DEF Expire, vars, escrow
<1> QED
  BY <1>1, <1>2, <1>3, <1>4, <1>5 DEF Next

\* A dispute that lands finds money locked, and after it no release lands.
LEMMA DisputeStopsNext == ASSUME CInv, DisputeStops, Next PROVE DisputeStops'
<1>1. (\E tx \in succeeded : tx.fn = "dispute") => entry'.total = entry.total
  <2>1. (\E tx \in succeeded : tx.fn = "dispute") => entry # NoEntry
    BY EntryFacts DEF CInv, Ledger
  <2> QED
    BY <2>1, DepositStays
<1>2. CASE UNCHANGED succeeded
  <2>1. Releases' = Releases
    BY <1>2 DEF Releases
  <2> QED
    BY <1>1, <1>2, <2>1 DEF DisputeStops
<1>3. CASE Land /\ succeeded' # succeeded
  <2>1. PICK tx \in pending :
           ChainError(tx, Admin) = "Ok" /\ Execute(tx) /\ succeeded' = succeeded \cup {tx}
    BY <1>3 DEF Land
  <2>2. tx \in Tx /\ tx.fn \in Function /\ tx.amount \in Nat
    BY DEF CInv, NetworkTypes, Tx
  <2>3. CASE tx.fn = "release_milestone"
    <3>1. AccessError(entry, Admin, "Funded", {"client", "admin"}) = "Ok"
      BY <2>1, <2>3 DEF ChainError, ReleaseMilestoneError
    <3>2. entry.status = "Funded"
      BY <3>1 DEF AccessError
    <3>3. \A x \in succeeded : x.fn # "dispute"
      BY <3>2 DEF CInv, Ledger
    <3> QED
      BY <2>1, <2>3, <3>3 DEF DisputeStops
  <2>4. CASE tx.fn = "dispute"
    <3>1. entry.status \in Live /\ entry # NoEntry
      BY <2>1, <2>2, <2>4, ChainStep, LiveFacts
    <3>2. Releases' = Releases
      BY <2>1, <2>4 DEF Releases
    <3>3. entry'.total = entry.total
      BY <3>1, DepositStays
    <3> QED
      BY <3>1, <3>2, <3>3, LiveFacts DEF DisputeStops
  <2>5. CASE tx.fn \notin {"release_milestone", "dispute"}
    <3>1. Releases' = Releases
      BY <2>1, <2>5 DEF Releases
    <3> QED
      BY <1>1, <2>1, <2>5, <3>1 DEF DisputeStops
  <2> QED
    BY <2>3, <2>4, <2>5
<1>4. Land \/ succeeded' = succeeded
  BY DEF Next, Request, Handle, Die, Create, JobCancel, ConfirmFund, RaiseDispute,
         Withdraw, SubmitMilestone, ApproveMilestone, Resolve, Cancel, BeginCall,
         Begin, Prepare, Send, Poll, ReadRemaining, CreateCommit, BuildFundXdr,
         JobCancelCommit, ConfirmFundCommit, SubmitMilestoneCommit,
         ApproveMilestoneCommit, MaybeComplete, CompleteCommit, RaiseDisputeCommit,
         ResolveCommit, CancelCommit, WithdrawConfirm, Expire, Fund, Direct,
         DirectCall, network
<1> QED
  BY <1>2, <1>3, <1>4

\* While one request moves, the approval that completes goes on.
LEMMA StillCompleting ==
    ASSUME CInv, Completes, AllPaid, NEW r \in Slot, Request(r) \/ Handle(r),
           ~At(r, "approve", "complete?"), ~At(r, "approve", "complete"),
           contract'.status = contract.status
    PROVE  Completes'
<1>1. CASE contract.status \in {"COMPLETED", "CANCELLED"}
  BY <1>1 DEF Completes
<1>2. CASE Completing
  <2>1. PICK s \in Slot : At(s, "approve", "complete?") \/ At(s, "approve", "complete")
    BY <1>2 DEF Completing
  <2>2. req'[s] = req[s]
    BY <2>1, OthersWait
  <2> QED
    BY <2>1, <2>2 DEF Completes, Completing, At
<1> QED
  BY <1>1, <1>2 DEF Completes

\* No dispute is left to be written once all milestones are PAID.
LEMMA TooLateToDispute ==
    ASSUME CInv, DisputeStops, AllPaid, ~Overfunded, Milestone # {}, NEW r \in Slot,
           At(r, "dispute", "commit")
    PROVE  FALSE
<1>1. req[r].tx \in succeeded /\ req[r].tx.fn = "dispute"
  <2>1. req[r] \in RequestState \ {Idle} /\ Holds(req[r])
    BY Running DEF At
  <2> QED
    BY <2>1, CallTypes, NoTxFacts DEF At, Holds, Invoke
<1>2. Receipted = Milestone
  BY DEF CInv, Receipts, AllPaid, Receipted
<1>3. Total <= Sum(AmountOf, Releases) /\ Present(entry)
  BY <1>2, AllReceipted
<1>4. /\ Sum(AmountOf, Releases) \in Nat /\ Total \in Nat
      /\ entry.total \in Nat /\ entry.total <= Total
  BY <1>3, ReleasesFacts, TotalFacts, LiveFacts DEF CInv, Overfunded
<1>5. Sum(AmountOf, Releases) < entry.total
  BY <1>1 DEF DisputeStops
<1> QED
  BY <1>3, <1>4, <1>5

\* The steps of a handler.
LEMMA HandleCompletes ==
    ASSUME CInv, Secured, DisputeStops, Completes, NoLateConfirm, ~Overfunded,
           Milestone # {},
           NEW r \in Slot, Handle(r)
    PROVE  Completes'
<1>1. /\ milestone \in [Milestone -> {"PENDING", "IN_REVIEW", "PAID"}]
      /\ contract.hash => contract.status # "None"
      /\ contract \in [status : {"None", "PENDING", "ACTIVE", "DISPUTED",
                                 "COMPLETED", "CANCELLED"}, hash : BOOLEAN]
      /\ req \in [Slot -> RequestState]
  BY DEF CInv, DatabaseTypes
<1>2. AllPaid => contract.hash
  BY DEF AllPaid, Secured
<1>3. CASE UNCHANGED <<contract, milestone>>
           /\ ~At(r, "approve", "complete?") /\ ~At(r, "approve", "complete")
  <2>1. AllPaid' = AllPaid
    BY <1>3 DEF AllPaid, Paid
  <2> QED
    BY <1>3, <2>1, StillCompleting DEF Completes
<1>4. CASE CreateCommit(r)
  <2>1. CASE milestone' = [m \in Milestone |-> "PENDING"]
    <3>1. ~AllPaid'
      BY <2>1 DEF AllPaid, Paid
    <3> QED
      BY <3>1 DEF Completes
  <2>2. CASE UNCHANGED <<contract, milestone>>
    BY <1>3, <1>4, <2>2 DEF CreateCommit, At
  <2> QED
    BY <1>4, <2>1, <2>2 DEF CreateCommit
<1>5. CASE SubmitMilestoneCommit(r)
  <2>1. CASE req[r].ms \in Milestone
    <3>1. milestone'[req[r].ms] # "PAID"
      BY <1>1, <1>5, <2>1 DEF SubmitMilestoneCommit
    <3>2. ~AllPaid'
      BY <2>1, <3>1 DEF AllPaid, Paid
    <3> QED
      BY <3>2 DEF Completes
  <2>2. CASE req[r].ms \notin Milestone
    <3>1. milestone' = milestone
      BY <1>1, <1>5, <2>2 DEF SubmitMilestoneCommit
    <3> QED
      BY <1>3, <1>5, <3>1 DEF SubmitMilestoneCommit, At
  <2> QED
    BY <2>1, <2>2
<1>6. CASE ApproveMilestoneCommit(r)
  <2>1. CASE GoTo(r, "complete?")
    <3>1. At(r, "approve", "complete?")'
      BY <1>1, <1>6, <2>1 DEF ApproveMilestoneCommit, At, GoTo
    <3> QED
      BY <3>1 DEF Completes, Completing
  <2>2. CASE UNCHANGED milestone
    BY <1>3, <1>6, <2>2 DEF ApproveMilestoneCommit, At
  <2> QED
    BY <1>6, <2>1, <2>2 DEF ApproveMilestoneCommit
<1>7. CASE MaybeComplete(r)
  <2>1. AllPaid' = AllPaid
    BY <1>7 DEF MaybeComplete, AllPaid, Paid, database
  <2>2. CASE AllPaid
    <3>1. req[r].kind = "approve" /\ req' = [req EXCEPT ![r].pc = "complete"]
      BY <1>7, <2>2 DEF MaybeComplete, At, GoTo
    <3>2. req'[r].kind = "approve" /\ req'[r].pc = "complete"
      BY <1>1, <3>1
    <3>3. At(r, "approve", "complete")'
      BY <3>2 DEF At
    <3> QED
      BY <3>3 DEF Completes, Completing
  <2> QED
    BY <2>1, <2>2 DEF Completes
<1>8. CASE CompleteCommit(r)
  <2>1. contract'.status = "COMPLETED"
    BY <1>1, <1>8 DEF CompleteCommit
  <2> QED
    BY <2>1 DEF Completes
<1>9. CASE RaiseDisputeCommit(r)
  <2>1. At(r, "dispute", "commit") /\ UNCHANGED milestone
    BY <1>9 DEF RaiseDisputeCommit
  <2>2. ~AllPaid /\ AllPaid' = AllPaid
    BY <2>1, TooLateToDispute DEF AllPaid, Paid
  <2> QED
    BY <2>2 DEF Completes
<1>10. CASE ConfirmFundCommit(r)
  <2>1. ~contract.hash /\ UNCHANGED milestone
    BY <1>10 DEF ConfirmFundCommit, At, NoLateConfirm
  <2>2. ~AllPaid /\ AllPaid' = AllPaid
    BY <1>2, <2>1 DEF AllPaid, Paid
  <2> QED
    BY <2>2 DEF Completes
<1>11. CASE ResolveCommit(r) \/ CancelCommit(r)
  <2>1. /\ UNCHANGED milestone
        /\ ~At(r, "approve", "complete?") /\ ~At(r, "approve", "complete")
    BY <1>11 DEF ResolveCommit, CancelCommit, At
  <2>2. CASE UNCHANGED contract
    BY <1>3, <2>1, <2>2
  <2>3. CASE contract' # contract
    <3>1. PICK status \in {"COMPLETED", "CANCELLED"} :
             contract' = [contract EXCEPT !.status = status]
      BY <1>11, <2>3 DEF ResolveCommit, CancelCommit
    <3>2. contract'.status \in {"COMPLETED", "CANCELLED"}
      BY <1>1, <3>1
    <3> QED
      BY <3>2 DEF Completes
  <2> QED
    BY <2>2, <2>3
<1>12. CASE Prepare(r) \/ Send(r) \/ Poll(r) \/ ReadRemaining(r) \/ BuildFundXdr(r)
            \/ JobCancelCommit(r) \/ WithdrawConfirm(r)
  <2>1. /\ UNCHANGED <<contract, milestone>>
        /\ ~At(r, "approve", "complete?") /\ ~At(r, "approve", "complete")
    BY <1>12 DEF Prepare, Send, Poll, ReadRemaining, BuildFundXdr, JobCancelCommit,
                 WithdrawConfirm, At, database
  <2> QED
    BY <1>3, <2>1
<1> QED
  BY <1>4, <1>5, <1>6, <1>7, <1>8, <1>9, <1>10, <1>11, <1>12 DEF Handle

\* Every step, of a process that does not die.
LEMMA CompletesNext ==
    ASSUME CInv, Secured, DisputeStops, Completes, NoLateConfirm, ~Overfunded,
           ~Faults, Milestone # {}, Next
    PROVE  Completes'
<1>1. ASSUME NEW r \in Slot, Request(r) PROVE Completes'
  <2>1. req[r] = Idle /\ UNCHANGED database
    BY <1>1 DEF Request, Create, JobCancel, ConfirmFund, RaiseDispute, Withdraw,
       SubmitMilestone, ApproveMilestone, Resolve, Cancel, BeginCall, Begin
  <2>2. AllPaid' = AllPaid /\ contract' = contract
    BY <2>1 DEF AllPaid, Paid, database
  <2> QED
    BY <1>1, <2>1, <2>2, StillCompleting DEF At, Idle, Completes
<1>2. ASSUME NEW r \in Slot, Handle(r) PROVE Completes'
  BY <1>2, HandleCompletes
<1>3. ASSUME UNCHANGED <<database, req>> PROVE Completes'
  <2>1. AllPaid' = AllPaid /\ contract' = contract
    BY <1>3 DEF AllPaid, Paid, database
  <2> QED
    BY <1>3, <2>1 DEF Completes, Completing, At
<1> QED
  BY <1>1, <1>2, <1>3 DEF Next, Die, Land, Expire, Fund, Direct, DirectCall

\* docs/escrow-flow.md, "All milestones reach PAID": when the process does
\* not die, no confirm-fund comes late and no more than the price of the
\* milestones was deposited, there is never a contract with
\* every milestone PAID that is not over and that no approval is about to
\* complete.  Two approvals at once cannot both take the other's milestone
\* for unpaid, and no dispute, however late, puts the contract back.
THEOREM LastPaymentCompletes ==
    ASSUME ~Faults, Milestone # {}
    PROVE  Spec /\ [](NoLateConfirm /\ ~Overfunded) => []Completes
<1>1. Init => Secured /\ DisputeStops /\ Completes
  BY DEF Init, Secured, DisputeStops, Completes, AllPaid, Paid, Idle
<1>2. CInv /\ NoLateConfirm /\ ~Overfunded /\ Secured /\ DisputeStops /\ Completes /\ [Next]_vars
         => Secured' /\ DisputeStops' /\ Completes'
  <2>1. ASSUME CInv, Secured, DisputeStops, Completes, UNCHANGED vars
        PROVE  Secured' /\ DisputeStops' /\ Completes'
    <3>1. UNCHANGED <<contract, milestone, req, succeeded, entry>>
      BY <2>1 DEF vars, database, network, escrow
    <3>2. Paid' = Paid /\ Releases' = Releases
      BY <3>1 DEF Paid, Releases
    <3> QED
      BY <2>1, <3>1, <3>2 DEF Secured, DisputeStops, Completes, AllPaid, Completing, At
  <2> QED
    BY <2>1, SecuredNext, DisputeStopsNext, CompletesNext
<1> QED
  BY <1>1, <1>2, Invariance, PTL DEF Spec

-----------------------------------------------------------------------------
(* The escrow of ContractService is one that EscrowPromise describes: what *)
(* Escrow shows for an escrow that anybody calls holds for the one the     *)
(* backend drives, with its transactions late, doubled or lost.            *)

phaseNow == CASE entry.status = "Absent" -> "empty"
              [] entry.status = "Funded" -> "held"
              [] entry.status = "Disputed" -> "frozen"
              [] OTHER -> "closed"
depositNow == IF Present(entry) THEN entry.total ELSE 0

OnChain == INSTANCE EscrowPromise WITH
    ContractId <- {"escrow"},
    Deposits <- {deposit.amount : deposit \in {Agreed} \cup OtherDeposits},
    phase <- [id \in {"escrow"} |-> phaseNow],
    deposit <- [id \in {"escrow"} |-> depositNow],
    toFreelancer <- [id \in {"escrow"} |-> received.freelancer],
    toClient <- [id \in {"escrow"} |-> received.client]

\* What is locked, when something is.
LEMMA LockedNow ==
    ASSUME CInv, entry.status \in Live
    PROVE  /\ entry \in EscrowEntry /\ Present(entry) /\ entry.total \in Nat
           /\ OnChain!Locked("escrow") = Remaining(entry)
           /\ Remaining(entry) \in Nat /\ 0 < Remaining(entry)
           /\ received.client = 0 /\ received.freelancer = entry.released
<1>1. /\ entry \in EscrowEntry /\ Present(entry)
      /\ entry.total \in Nat /\ entry.released \in Nat
  BY LiveFacts
<1>2. /\ received.freelancer = entry.released /\ received.client = 0
      /\ entry.released < entry.total
  BY DEF CInv, Books
<1>3. OnChain!Locked("escrow") = Remaining(entry)
  BY <1>1, <1>2 DEF OnChain!Locked, Remaining, depositNow
<1> QED
  BY <1>1, <1>2, <1>3 DEF Remaining

\* A payment that leaves something, a freeze and a closing division are
\* steps of EscrowPromise.
LEMMA PromisedPay ==
    ASSUME CInv, entry.status = "Funded", entry'.status = "Funded",
           entry'.total = entry.total, NEW amount \in 1 .. Remaining(entry) - 1,
           received' = Payout(received.freelancer + amount, received.client)
    PROVE  OnChain!Next
<1>1. /\ phaseNow = "held" /\ phaseNow' = "held" /\ depositNow' = depositNow
      /\ OnChain!Locked("escrow") = Remaining(entry)
  BY LockedNow DEF phaseNow, depositNow, Present, Live
<1>2. received'.freelancer = received.freelancer + amount /\ received'.client = received.client
  BY DEF Payout
<1>3. OnChain!Pay("escrow", amount)
  BY <1>1, <1>2 DEF OnChain!Pay
<1> QED
  BY <1>1, <1>3 DEF OnChain!Next

\* The same for a freeze.
LEMMA PromisedFreeze ==
    ASSUME CInv, entry.status = "Funded", entry'.status = "Disputed",
           entry'.total = entry.total, UNCHANGED received
    PROVE  OnChain!Next
<1>1. phaseNow = "held" /\ phaseNow' = "frozen" /\ depositNow' = depositNow
  BY DEF phaseNow, depositNow, Present
<1>2. OnChain!Freeze("escrow")
  BY <1>1 DEF OnChain!Freeze
<1> QED
  BY <1>2 DEF OnChain!Next

\* And for the division of all that is locked.
LEMMA PromisedClose ==
    ASSUME CInv, entry.status \in Live, entry'.status \in Settled,
           entry'.total = entry.total, NEW share \in 0 .. Remaining(entry),
           entry.status = "Funded" => share \in {0, Remaining(entry)},
           received' = Payout(received.freelancer + share,
                              received.client + (Remaining(entry) - share))
    PROVE  OnChain!Next
<1>1. /\ phaseNow = (IF entry.status = "Funded" THEN "held" ELSE "frozen")
      /\ phaseNow' = "closed" /\ depositNow' = depositNow
  BY DEF phaseNow, depositNow, Present, Live, Settled
<1>2. /\ OnChain!Locked("escrow") = Remaining(entry)
      /\ Remaining(entry) \in Nat /\ received.client = 0
  BY LockedNow
<1>3. /\ received'.freelancer = received.freelancer + share
      /\ received'.client = received.client + OnChain!Locked("escrow") - share
  BY <1>2 DEF Payout
<1>4. OnChain!Close("escrow", share)
  <2>1. phaseNow \in {"held", "frozen"}
    BY <1>1
  <2>2. phaseNow = "held" => share \in {0, OnChain!Locked("escrow")}
    BY <1>1, <1>2
  <2> QED
    BY <1>1, <1>3, <2>1, <2>2 DEF OnChain!Close
<1>5. share \in 0 .. OnChain!Locked("escrow")
  BY <1>2
<1> QED
  BY <1>4, <1>5 DEF OnChain!Next

\* An entry point, by whoever it is called.
LEMMA CallKeepsPromise ==
    ASSUME CInv, NEW c, c.fn \in Function, c.amount \in Nat, NEW caller,
           ChainError(c, caller) = "Ok", Execute(c)
    PROVE  OnChain!Next \/ UNCHANGED OnChain!vars
<1> DEFINE rest == Remaining(entry)
<1>1. received \in [freelancer : Nat, client : Nat]
  BY DEF CInv, Books
<1>2. ASSUME NEW status \in {"Funded", "Disputed"}, NEW roles,
             AccessError(entry, caller, status, roles) = "Ok"
      PROVE  /\ entry.status = status /\ entry.status \in Live
             /\ entry \in EscrowEntry /\ rest \in Nat /\ received.client = 0
             /\ entry.total \in Nat /\ entry.released \in Nat
             /\ 0 < rest /\ entry.released + rest = entry.total
  <2>1. entry.status = status /\ entry.status \in Live
    BY <1>2 DEF AccessError, Live
  <2>2. entry \in EscrowEntry /\ rest \in Nat /\ 0 < rest /\ entry.total \in Nat
        /\ received.client = 0
    BY <2>1, LockedNow
  <2>3. entry.released \in Nat
    BY <2>2 DEF EscrowEntry
  <2> QED
    BY <1>1, <2>1, <2>2, <2>3 DEF Remaining
<1>3. CASE c.fn = "payment"
  <2>1. entry' = entry /\ received' = received
    BY <1>1, <1>3 DEF Execute, ChainEntry, ChainPayout, Payout
  <2> QED
    BY <2>1 DEF OnChain!vars, phaseNow, depositNow
<1>4. CASE c.fn = "release_milestone"
  <2>1. /\ AccessError(entry, caller, "Funded", {"client", "admin"}) = "Ok"
        /\ ~(c.amount <= 0) /\ ~(c.amount > rest)
    BY <1>4 DEF ChainError, ReleaseMilestoneError
  <2>2. /\ entry' = ReleaseMilestoneEntry(entry, c.amount)
        /\ received' = Payout(received.freelancer + c.amount, received.client + 0)
    BY <1>4 DEF Execute, ChainEntry, ChainPayout, Payout
  <2>3. /\ entry.status = "Funded" /\ rest \in Nat /\ received.client = 0
        /\ entry \in EscrowEntry /\ entry.total \in Nat /\ entry.released \in Nat
        /\ entry.released + rest = entry.total
    BY <1>2, <2>1
  <2> HIDE DEF rest
  <2>4. CASE c.amount = rest
    <3>1. entry'.status = "Released" /\ entry'.total = entry.total
      BY <1>1, <2>2, <2>3, <2>4 DEF ReleaseMilestoneEntry, EscrowEntry
    <3>2. received' = Payout(received.freelancer + rest, received.client + (rest - rest))
      BY <2>2, <2>3, <2>4
    <3> QED
      BY <2>3, <3>1, <3>2, PromisedClose DEF Live, Settled, rest
  <2>5. CASE c.amount # rest
    <3>1. c.amount \in 1 .. rest - 1 /\ ~(entry.released + c.amount >= entry.total)
      BY <1>1, <2>1, <2>3, <2>5
    <3>2. entry'.status = "Funded" /\ entry'.total = entry.total
      BY <2>2, <2>3, <3>1 DEF ReleaseMilestoneEntry, EscrowEntry
    <3>3. received' = Payout(received.freelancer + c.amount, received.client)
      BY <2>2, <2>3
    <3> QED
      BY <2>3, <3>1, <3>2, <3>3, PromisedPay DEF rest
  <2> QED
    BY <2>4, <2>5
<1>5. CASE c.fn = "release"
  <2>1. AccessError(entry, caller, "Funded", {"client", "admin"}) = "Ok"
    BY <1>5 DEF ChainError, ReleaseError
  <2>2. /\ entry' = ReleaseEntry(entry)
        /\ received' = Payout(received.freelancer + rest, received.client + 0)
    BY <1>5 DEF Execute, ChainEntry, ChainPayout, Payout
  <2>3. /\ entry.status = "Funded" /\ rest \in Nat /\ received.client = 0
        /\ entry \in EscrowEntry
    BY <1>2, <2>1
  <2>4. entry'.status = "Released" /\ entry'.total = entry.total
    BY <2>2, <2>3 DEF ReleaseEntry, EscrowEntry
  <2> HIDE DEF rest
  <2>5. received' = Payout(received.freelancer + rest, received.client + (rest - rest))
    BY <2>2, <2>3
  <2>6. rest \in 0 .. rest
    BY <2>3
  <2> QED
    BY <2>3, <2>4, <2>5, <2>6, PromisedClose DEF Live, Settled, rest
<1>6. CASE c.fn = "refund"
  <2>1. AccessError(entry, caller, "Funded", {"freelancer", "admin"}) = "Ok"
    BY <1>6 DEF ChainError, RefundError
  <2>2. /\ entry' = RefundEntry(entry)
        /\ received' = Payout(received.freelancer + 0, received.client + rest)
    BY <1>6 DEF Execute, ChainEntry, ChainPayout, Payout
  <2>3. /\ entry.status = "Funded" /\ rest \in Nat /\ entry \in EscrowEntry
    BY <1>2, <2>1
  <2>4. entry'.status = "Refunded" /\ entry'.total = entry.total
    BY <2>2, <2>3 DEF RefundEntry, EscrowEntry
  <2> HIDE DEF rest
  <2>5. received' = Payout(received.freelancer + 0, received.client + (rest - 0))
    BY <2>2, <2>3
  <2>6. 0 \in 0 .. rest
    BY <2>3
  <2> QED
    BY <2>3, <2>4, <2>5, <2>6, PromisedClose DEF Live, Settled, rest
<1>7. CASE c.fn = "dispute"
  <2>1. AccessError(entry, caller, "Funded", {"client", "freelancer"}) = "Ok"
    BY <1>7 DEF ChainError, DisputeError
  <2>2. entry' = DisputeEntry(entry) /\ received' = received
    BY <1>1, <1>7 DEF Execute, ChainEntry, ChainPayout, Payout
  <2>3. entry.status = "Funded" /\ entry \in EscrowEntry
    BY <1>2, <2>1
  <2>4. entry'.status = "Disputed" /\ entry'.total = entry.total
    BY <2>2, <2>3 DEF DisputeEntry, EscrowEntry
  <2> QED
    BY <2>2, <2>3, <2>4, PromisedFreeze
<1>8. CASE c.fn = "resolve_dispute"
  <2>1. AccessError(entry, caller, "Disputed", {"admin"}) = "Ok"
    BY <1>8 DEF ChainError, ResolveError
  <2>2. entry.status = "Disputed" /\ rest \in Nat /\ entry \in EscrowEntry
    BY <1>2, <2>1
  <2>3. PICK share : /\ share \in 0 .. rest
                     /\ ResolvePayout(entry, c.decision, Bps) = Payout(share, rest - share)
    <3>1. SplitShare(rest, Bps) \in 0 .. rest
      BY <2>2, ShareBounds
    <3>2. rest \in 0 .. rest /\ 0 \in 0 .. rest
      BY <2>2
    <3> DEFINE s == CASE c.decision = "ReleaseToFreelancer" -> rest
                      [] c.decision = "RefundToClient" -> 0
                      [] OTHER -> SplitShare(rest, Bps)
    <3>3. s \in 0 .. rest
      BY <3>1, <3>2
    <3> QED
      BY <3>3 DEF ResolvePayout
  <2>4. /\ entry' = ResolveEntry(entry, c.decision)
        /\ received' = Payout(received.freelancer + share, received.client + (rest - share))
    BY <1>8, <2>3 DEF Execute, ChainEntry, ChainPayout, Payout
  <2>5. entry'.status \in Settled /\ entry'.total = entry.total
    BY <2>2, <2>4 DEF ResolveEntry, EscrowEntry, Settled
  <2> HIDE DEF rest
  <2> QED
    BY <2>2, <2>3, <2>4, <2>5, PromisedClose DEF Live, rest
<1> QED
  BY <1>3, <1>4, <1>5, <1>6, <1>7, <1>8 DEF Function

\* fund() is the deposit: the agreed one, or another that somebody signs.
LEMMA FundKeepsPromise ==
    ASSUME CInv, Fund PROVE OnChain!Next
<1>1. PICK deposit \in {Agreed} \cup OtherDeposits :
         /\ FundError(entry, deposit.amount) = "Ok"
         /\ entry' = FundedEntry(deposit, deposit.token, deposit.amount)
         /\ UNCHANGED received
  BY DEF Fund
<1>2. entry.status = "Absent"
  BY <1>1 DEF FundError, Present
<1>3. entry'.status = "Funded" /\ entry'.total = deposit.amount
  BY <1>1 DEF FundedEntry
<1>4. phaseNow = "empty" /\ phaseNow' = "held" /\ depositNow' = deposit.amount
  BY <1>2, <1>3 DEF phaseNow, depositNow, Present
<1>5. OnChain!Deposit("escrow", deposit.amount)
  BY <1>1, <1>4 DEF OnChain!Deposit
<1> QED
  BY <1>1, <1>5 DEF OnChain!Next

\* Whatever the backend does, retries or leaves undone, and whatever anybody
\* deposits or calls besides: the escrow of the contract is filled once, with
\* the agreed deposit or with another; pays the freelancer it names while it
\* is held; once frozen is only divided; and closed stays as it is.
THEOREM EscrowKeepsPromise == Spec => OnChain!Spec
<1>1. Init => OnChain!Init
  BY DEF Init, OnChain!Init, phaseNow, depositNow, Present, NoEntry, Payout
<1>2. CInv /\ [Next]_vars => [OnChain!Next]_(OnChain!vars)
  <2> SUFFICES ASSUME CInv, [Next]_vars PROVE OnChain!Next \/ UNCHANGED OnChain!vars
    OBVIOUS
  <2>1. CASE UNCHANGED <<entry, received>>
    BY <2>1 DEF OnChain!vars, phaseNow, depositNow
  <2>2. CASE Fund
    BY <2>2, FundKeepsPromise
  <2>3. CASE Land /\ ~UNCHANGED <<entry, received>>
    <3>1. PICK tx \in pending : ChainError(tx, Admin) = "Ok" /\ Execute(tx)
      BY <2>3 DEF Land, escrow
    <3>2. tx.fn \in Function /\ tx.amount \in Nat
      BY DEF CInv, NetworkTypes, Tx
    <3> QED
      BY <3>1, <3>2, CallKeepsPromise
  <2>4. CASE Direct
    <3>1. PICK c \in Invocation, caller \in Address : DirectCall(c, caller)
      BY <2>4 DEF Direct
    <3>2. /\ c.fn \in Function /\ c.amount \in Nat
          /\ ChainError(c, caller) = "Ok" /\ Execute(c)
      BY <3>1, InvocationTypes DEF DirectCall
    <3> QED
      BY <3>2, CallKeepsPromise
  <2>5. ASSUME NEW r \in Slot, Request(r) \/ Die(r) PROVE UNCHANGED <<entry, received>>
    BY <2>5 DEF Request, Die, Create, JobCancel, ConfirmFund, RaiseDispute, Withdraw,
       SubmitMilestone, ApproveMilestone, Resolve, Cancel, BeginCall, Begin, escrow
  <2>6. ASSUME NEW r \in Slot, Handle(r) PROVE UNCHANGED <<entry, received>>
    BY <2>6
    DEF Handle, Prepare, Send, Poll, ReadRemaining, CreateCommit, BuildFundXdr,
        JobCancelCommit, ConfirmFundCommit, SubmitMilestoneCommit,
        ApproveMilestoneCommit, MaybeComplete, CompleteCommit, RaiseDisputeCommit,
        ResolveCommit, CancelCommit, WithdrawConfirm, escrow
  <2>7. Expire \/ UNCHANGED vars => UNCHANGED <<entry, received>>
    BY DEF Expire, vars, escrow
  <2> QED
    BY <2>1, <2>2, <2>3, <2>4, <2>5, <2>6, <2>7 DEF Next
<1> QED
  BY <1>1, <1>2, Invariance, PTL DEF Spec, OnChain!Spec

-----------------------------------------------------------------------------
(* The safety core of EveryRequestIsAnswered: a request that runs stands   *)
(* where a step of its handler takes it on, each step takes it nearer to   *)
(* its answer, and nobody else moves it.  What is left to fairness is that *)
(* the handler goes on, and that a transaction lands or expires.           *)

Endpoints == {"create", "job-cancel", "confirm", "submit", "approve", "dispute",
              "resolve", "cancel", "withdraw"}

\* Where the steps of an endpoint begin.  A poll is left for the commit, or
\* by way of "remaining".
Stands(q) ==
    /\ q.kind \in Endpoints
    /\ \/ q.pc \in {"prepare", "send", "poll", "commit"}
       \/ q.pc = "remaining" /\ q.kind \in {"cancel", "resolve"}
       \/ q.pc = "build" /\ q.kind = "create"
       \/ q.pc \in {"complete?", "complete"} /\ q.kind = "approve"

NobodyIsStranded == \A r \in Slot : req[r] # Idle => Stands(req[r])

\* No fewer steps than may still follow.
StepsLeft(q) ==
    CASE q.pc = "prepare" -> 7
      [] q.pc = "send" -> 6
      [] q.pc = "poll" -> 5
      [] q.pc = "remaining" -> 4
      [] q.pc = "commit" -> 3
      [] q.pc \in {"build", "complete?"} -> 2
      [] q.pc = "complete" -> 1
      [] OTHER -> 0

\* The way of a handler.
Follows(p, q) ==
    \/ q = Idle
    \/ /\ q.kind = p.kind
       /\ \/ p.pc = "prepare" /\ q.pc = "send"
          \/ p.pc = "send" /\ q.pc = "poll"
          \/ p.pc = "poll" /\ q.pc = AfterCall(p.kind)
          \/ p.pc = "remaining" /\ q.pc = "commit"
          \/ p.kind = "create" /\ p.pc = "commit" /\ q.pc = "build"
          \/ p.kind = "approve" /\ p.pc = "commit" /\ q.pc = "complete?"
          \/ p.kind = "approve" /\ p.pc = "complete?" /\ q.pc = "complete"

\* Every step of a handler is on its way.
LEMMA OnItsWay ==
    ASSUME CInv, NEW r \in Slot, Handle(r) \/ Die(r)
    PROVE  Follows(req[r], req'[r])
<1>1. req \in [Slot -> RequestState]
  BY DEF CInv
<1>2. CASE Answer(r)
  BY <1>1, <1>2 DEF Answer, Follows
<1>3. ASSUME NEW pc, GoTo(r, pc), req[r].pc # "idle"
      PROVE  req'[r].kind = req[r].kind /\ req'[r].pc = pc
  <2>1. req'[r] = [req[r] EXCEPT !.pc = pc]
    BY <1>1, <1>3 DEF GoTo
  <2> QED
    BY <1>3, <2>1, Running, IdleFacts
<1>4. CASE Prepare(r)
  <2>1. ASSUME NEW tx, req' = [req EXCEPT ![r].pc = "send", ![r].tx = tx]
        PROVE  req'[r].kind = req[r].kind /\ req'[r].pc = "send"
    <3> DEFINE q == [req[r] EXCEPT !.pc = "send", !.tx = tx]
    <3>1. req' = [req EXCEPT ![r] = q]
      BY <1>1, <2>1
    <3>2. q.kind = req[r].kind /\ q.pc = "send"
      BY <1>4, Running, IdleFacts DEF Prepare
    <3> HIDE DEF q
    <3> QED
      BY <1>1, <3>1, <3>2
  <2> QED
    BY <1>2, <1>4, <2>1 DEF Prepare, Follows
<1>5. CASE ReadRemaining(r)
  <2>1. PICK rest : req' = [req EXCEPT ![r].pc = "commit", ![r].rest = rest]
    BY <1>5 DEF ReadRemaining
  <2> DEFINE q == [req[r] EXCEPT !.pc = "commit", !.rest = rest]
  <2>2. req' = [req EXCEPT ![r] = q]
    BY <1>1, <2>1
  <2>3. q.kind = req[r].kind /\ q.pc = "commit" /\ req[r].pc = "remaining"
    BY <1>5, Running, IdleFacts DEF ReadRemaining
  <2> HIDE DEF q
  <2> QED
    BY <1>1, <2>2, <2>3 DEF Follows
<1>6. CASE Send(r) \/ Poll(r)
  BY <1>2, <1>3, <1>6 DEF Send, Poll, Follows
<1>7. CASE CreateCommit(r) \/ ApproveMilestoneCommit(r) \/ MaybeComplete(r)
  BY <1>2, <1>3, <1>7
  DEF CreateCommit, ApproveMilestoneCommit, MaybeComplete, At, Follows
<1>8. CASE (Handle(r) /\ ~Prepare(r) /\ ~ReadRemaining(r) /\ ~Send(r) /\ ~Poll(r)
              /\ ~CreateCommit(r) /\ ~ApproveMilestoneCommit(r) /\ ~MaybeComplete(r))
           \/ Die(r)
  BY <1>2, <1>8
  DEF Handle, Die, BuildFundXdr, JobCancelCommit, ConfirmFundCommit,
      SubmitMilestoneCommit, CompleteCommit, RaiseDisputeCommit, ResolveCommit,
      CancelCommit, WithdrawConfirm
<1> QED
  BY <1>4, <1>5, <1>6, <1>7, <1>8

\* A request that begins takes a slot that was free.
LEMMA StartsWell ==
    ASSUME CInv, NEW r \in Slot, Request(r)
    PROVE  req[r] = Idle /\ Stands(req'[r])
<1>1. req \in [Slot -> RequestState]
  BY DEF CInv
<1>2. ASSUME NEW kind \in Endpoints, NEW m, NEW call, NEW pc,
             Begin(r, kind, m, call, pc),
             pc \in {"prepare", "commit"} \/ (pc = "remaining" /\ kind = "cancel")
      PROVE  req[r] = Idle /\ Stands(req'[r])
  <2>1. req[r] = Idle /\ req'[r].kind = kind /\ req'[r].pc = pc
    BY <1>1, <1>2 DEF Begin
  <2> QED
    BY <1>2, <2>1 DEF Stands
<1> QED
  BY <1>2 DEF Request, Create, JobCancel, ConfirmFund, RaiseDispute, Withdraw,
     SubmitMilestone, ApproveMilestone, Resolve, Cancel, BeginCall, Endpoints

\* Every request that runs stands before a step of its handler: there is no
\* place in a handler that nothing leads away from.
THEOREM NobodyStranded == Spec => []NobodyIsStranded
<1>1. Init => NobodyIsStranded
  BY DEF Init, NobodyIsStranded
<1>2. CInv /\ NobodyIsStranded /\ [Next]_vars => NobodyIsStranded'
  <2> SUFFICES ASSUME CInv, NobodyIsStranded, [Next]_vars, NEW s \in Slot, req'[s] # Idle
               PROVE  Stands(req'[s])
    BY DEF NobodyIsStranded, Stands
  <2>1. CASE UNCHANGED req
    BY <2>1 DEF NobodyIsStranded
  <2>2. ASSUME NEW r \in Slot, Request(r) PROVE Stands(req'[s])
    BY <2>2, StartsWell, OthersWait DEF NobodyIsStranded
  <2>3. ASSUME NEW r \in Slot, Handle(r) \/ Die(r) PROVE Stands(req'[s])
    <3>1. CASE s # r
      BY <2>3, <3>1, OthersWait DEF NobodyIsStranded
    <3>2. CASE s = r
      <4>1. Follows(req[s], req'[s]) /\ req[s] # Idle
        <5>1. Follows(req[s], req'[s])
          BY <2>3, <3>2, OnItsWay
        <5> QED
          BY <5>1 DEF Follows, Idle
      <4>2. Stands(req[s])
        BY <4>1 DEF NobodyIsStranded
      <4> QED
        BY <4>1, <4>2 DEF Follows, Stands, AfterCall
    <3> QED
      BY <3>1, <3>2
  <2> QED
    BY <2>1, <2>2, <2>3 DEF Next, Land, Expire, Fund, Direct, DirectCall, vars
<1> QED
  BY <1>1, <1>2, Invariance, PTL DEF Spec

\* Whatever happens around it, a request that runs is left as it is or taken
\* a step nearer to its answer: no poll, retry or other request sends it
\* back, and after seven steps it is answered.
THEOREM RequestsRunOut ==
    Spec => [][\A r \in Slot : req[r] # Idle =>
                  \/ req'[r] = req[r]
                  \/ req'[r] = Idle
                  \/ StepsLeft(req'[r]) < StepsLeft(req[r])]_vars
<1> DEFINE Nearer == \A r \in Slot : req[r] # Idle =>
                        \/ req'[r] = req[r]
                        \/ req'[r] = Idle
                        \/ StepsLeft(req'[r]) < StepsLeft(req[r])
<1>1. CInv /\ [Next]_vars => [Nearer]_vars
  <2> SUFFICES ASSUME CInv, Next, NEW s \in Slot, req[s] # Idle, req'[s] # req[s],
                      req'[s] # Idle
               PROVE  StepsLeft(req'[s]) < StepsLeft(req[s])
    OBVIOUS
  <2>1. PICK r \in Slot : Request(r) \/ Handle(r) \/ Die(r)
    BY DEF Next, Land, Expire, Fund, Direct, DirectCall
  <2>2. r = s
    BY <2>1, OthersWait
  <2>3. Follows(req[s], req'[s])
    BY <2>1, <2>2, StartsWell, OnItsWay
  <2> QED
    BY <2>3 DEF Follows, AfterCall, StepsLeft
<1> QED
  BY <1>1, Invariance, PTL DEF Spec
=============================================================================
