---------------------------- MODULE EscrowProofs ----------------------------
(***************************************************************************)
(* Theorems about Escrow and EscrowTtl, for every set of contracts,        *)
(* accounts, tokens, amounts and lifetimes.                                *)
(*                                                                         *)
(* The argument is local to one entry: Sound relates an entry to what it   *)
(* has paid, EffectSound shows that every successful entry point keeps an  *)
(* entry sound, and NextShape reduces a step of the system to such an      *)
(* effect.  Then two parts build on it: the pool of each token covers what *)
(* all escrows are owed together (Backed), so that a payment never fails;  *)
(* and storage that may be archived takes behaviours away and adds none.   *)
(***************************************************************************)
EXTENDS EscrowTtl, SumTheorems

Paid == [freelancer : Nat, client : Nat]

Add(r, p) == Payout(r.freelancer + p.freelancer, r.client + p.client)

\* The inductive invariant of one entry e that has paid r.
Sound(e, r) ==
    \/ e = NoEntry /\ r = Payout(0, 0)
    \/ /\ e \in EscrowEntry /\ r \in Paid
       /\ e.total > 0 /\ e.released <= e.total
       /\ e.status \in Live =>
             e.released < e.total /\ r = Payout(e.released, 0)
       /\ e.status = "Released" => r = Payout(e.total, 0)
       /\ r.freelancer + r.client + Outstanding(e) = e.total

\* What a successful entry point signed by caller may do to a present entry
\* e: write e2 and pay p.
Effect(e, caller, e2, p) ==
    \/ \E amount \in Int :
          /\ ReleaseMilestoneError(e, caller, amount) = "Ok"
          /\ e2 = ReleaseMilestoneEntry(e, amount)
          /\ p = Payout(amount, 0)
    \/ /\ ReleaseError(e, caller) = "Ok"
       /\ e2 = ReleaseEntry(e) /\ p = Payout(Remaining(e), 0)
    \/ /\ RefundError(e, caller) = "Ok"
       /\ e2 = RefundEntry(e) /\ p = Payout(0, Remaining(e))
    \/ /\ DisputeError(e, caller) = "Ok"
       /\ e2 = DisputeEntry(e) /\ p = Payout(0, 0)
    \/ \E decision \in Decision, bps \in Nat :
          /\ ResolveError(e, caller, decision, bps) = "Ok"
          /\ e2 = ResolveEntry(e, decision)
          /\ p = ResolvePayout(e, decision, bps)

-----------------------------------------------------------------------------
(* Arithmetic of a split. *)

\* The freelancer's share of a split lies between nothing and everything
\* that remains (lib.rs:597-603: the client's part cannot be negative).
LEMMA SplitShareBounds ==
    ASSUME NEW n \in Nat, NEW bps \in Nat, bps <= 10000
    PROVE  SplitShare(n, bps) \in 0 .. n
<1>1. n * bps \in Nat
  OBVIOUS
<1>2. n * bps <= n * 10000
  OBVIOUS
<1>3. \A k \in Nat : k <= n * 10000 => (k \div 10000) \in 0 .. n
  OBVIOUS
<1> QED
  BY <1>1, <1>2, <1>3 DEF SplitShare

-----------------------------------------------------------------------------
(* One entry. *)

\* The checks every entry point but fund starts with let only a present
\* entry in the expected status through, for a caller with one of the roles.
LEMMA AccessOk ==
    ASSUME NEW e, NEW caller, NEW status, NEW roles,
           AccessError(e, caller, status, roles) = "Ok"
    PROVE  Present(e) /\ e.status = status
           /\ \E r \in roles : caller = e[r]
  BY DEF AccessError

\* A successful entry point keeps its entry sound, pays non-negative
\* amounts and takes them from what the entry is owed: no money is lost or
\* made, and no entry pays with the money of another.
LEMMA EffectSound ==
    ASSUME NEW e, NEW r, Sound(e, r), NEW caller, NEW e2, NEW p,
           Effect(e, caller, e2, p)
    PROVE  /\ e \in EscrowEntry /\ e2 \in EscrowEntry /\ p \in Paid
           /\ Sound(e2, Add(r, p))
           /\ p.freelancer + p.client + Outstanding(e2) = Outstanding(e)
           /\ e.status \in Live
<1> USE DEF Payout, Add
<1>1. Present(e) /\ e.status \in Live
  BY AccessOk DEF Effect, ReleaseMilestoneError, ReleaseError, RefundError,
                  DisputeError, ResolveError, Live
<1>2. /\ e \in EscrowEntry /\ r \in Paid
      /\ e.total \in Nat /\ e.released \in Nat
      /\ e.released < e.total
      /\ r = Payout(e.released, 0)
      /\ Outstanding(e) = Remaining(e)
      /\ Remaining(e) \in Nat /\ Remaining(e) > 0
  BY <1>1 DEF Sound, NoEntry, Present, EscrowEntry, Outstanding, Remaining,
              Live
<1>3. CASE \E amount \in Int :
              /\ ReleaseMilestoneError(e, caller, amount) = "Ok"
              /\ e2 = ReleaseMilestoneEntry(e, amount)
              /\ p = Payout(amount, 0)
  <2> PICK amount \in Int :
              /\ ReleaseMilestoneError(e, caller, amount) = "Ok"
              /\ e2 = ReleaseMilestoneEntry(e, amount)
              /\ p = Payout(amount, 0)
    BY <1>3
  <2>1. amount > 0 /\ amount <= Remaining(e) /\ e.status = "Funded"
    <3>1. AccessError(e, caller, "Funded", {"client", "admin"}) = "Ok"
      BY DEF ReleaseMilestoneError
    <3>2. e.status = "Funded"
      BY <3>1, AccessOk
    <3>3. ~(amount <= 0) /\ ~(amount > Remaining(e))
      BY <3>1 DEF ReleaseMilestoneError
    <3> QED
      BY <1>2, <3>2, <3>3
  <2>2. /\ e2 \in EscrowEntry
        /\ e2.total = e.total
        /\ e2.released = e.released + amount
        /\ e2.status = IF e.released + amount >= e.total THEN "Released"
                                                         ELSE "Funded"
    <3>1. amount \in Nat /\ e.released + amount \in Nat
      BY <1>2, <2>1
    <3> QED
      BY <1>2, <2>1, <3>1 DEF ReleaseMilestoneEntry, EscrowEntry,
         EscrowStatus, Live, Settled
  <2>3. e.released + amount <= e.total
    BY <1>2, <2>1 DEF Remaining
  <2>4. Add(r, p) = Payout(e.released + amount, 0)
    BY <1>2, <2>1
  <2>5. p \in Paid /\ Add(r, p) \in Paid
    BY <1>2, <2>1, <2>4 DEF Paid
  <2>6. CASE e.released + amount >= e.total
    BY <1>1, <1>2, <2>1, <2>2, <2>3, <2>4, <2>5, <2>6 DEF Sound,
       Outstanding, Remaining, Live
  <2>7. CASE e.released + amount < e.total
    BY <1>1, <1>2, <2>1, <2>2, <2>3, <2>4, <2>5, <2>7 DEF Sound,
       Outstanding, Remaining, Live
  <2> QED
    BY <1>2, <2>1, <2>6, <2>7
<1> DEFINE Closes(share) ==
              /\ e2 \in EscrowEntry /\ e2.total = e.total
              /\ e2.released <= e.total /\ e2.status \in Settled
              /\ e2.status = "Released" => share = Remaining(e)
              /\ share \in 0 .. Remaining(e)
              /\ p = Payout(share, Remaining(e) - share)
<1>4. ASSUME NEW share, Closes(share)
      PROVE  /\ e2 \in EscrowEntry /\ p \in Paid
             /\ Sound(e2, Add(r, p))
             /\ p.freelancer + p.client + Outstanding(e2) = Outstanding(e)
  <2>1. /\ share \in Nat /\ Remaining(e) - share \in Nat
        /\ p.freelancer + p.client = Remaining(e)
    BY <1>2, <1>4
  <2>2. /\ Add(r, p) = Payout(e.released + share, Remaining(e) - share)
        /\ p \in Paid /\ Add(r, p) \in Paid
    BY <1>2, <1>4, <2>1 DEF Paid
  <2>3. Outstanding(e2) = 0 /\ e2.status \notin Live
    BY <1>4 DEF Outstanding, Settled, Live
  <2>4. e.released + share + (Remaining(e) - share) = e.total
    BY <1>2, <2>1 DEF Remaining
  <2>5. e2.status = "Released" => Add(r, p) = Payout(e2.total, 0)
    BY <1>2, <1>4, <2>2 DEF Remaining
  <2> QED
    BY <1>2, <1>4, <2>1, <2>2, <2>3, <2>4, <2>5 DEF Sound
<1>5. CASE e2 = ReleaseEntry(e) /\ p = Payout(Remaining(e), 0)
  <2>1. /\ e2 \in EscrowEntry /\ e2.total = e.total
        /\ e2.released = e.total /\ e2.status = "Released"
    BY <1>2, <1>5 DEF ReleaseEntry, EscrowEntry, EscrowStatus, Settled
  <2>2. Closes(Remaining(e))
    BY <1>2, <1>5, <2>1 DEF Settled
  <2> QED
    BY <1>1, <1>2, <1>4, <2>2
<1>6. CASE e2 = RefundEntry(e) /\ p = Payout(0, Remaining(e))
  <2>1. /\ e2 \in EscrowEntry /\ e2.total = e.total
        /\ e2.released = e.released /\ e2.status = "Refunded"
    BY <1>2, <1>6 DEF RefundEntry, EscrowEntry, EscrowStatus, Settled
  <2>2. Closes(0)
    BY <1>2, <1>6, <2>1 DEF Settled
  <2> QED
    BY <1>1, <1>2, <1>4, <2>2
<1>7. CASE e2 = DisputeEntry(e) /\ p = Payout(0, 0)
  BY <1>1, <1>2, <1>7 DEF DisputeEntry, Sound, Outstanding, Remaining,
     EscrowEntry, Paid, Live, Settled, EscrowStatus, NoEntry
<1>8. CASE \E decision \in Decision, bps \in Nat :
              /\ ResolveError(e, caller, decision, bps) = "Ok"
              /\ e2 = ResolveEntry(e, decision)
              /\ p = ResolvePayout(e, decision, bps)
  <2> PICK decision \in Decision, bps \in Nat :
              /\ ResolveError(e, caller, decision, bps) = "Ok"
              /\ e2 = ResolveEntry(e, decision)
              /\ p = ResolvePayout(e, decision, bps)
    BY <1>8
  <2>1. /\ e2 \in EscrowEntry /\ e2.total = e.total
        /\ e2.released = e.released /\ e2.status \in Settled
        /\ e2.status = "Released" => decision = "ReleaseToFreelancer"
    BY <1>2 DEF ResolveEntry, EscrowEntry, EscrowStatus, Settled, Decision
  <2>2. CASE decision = "ReleaseToFreelancer"
    <3>1. Closes(Remaining(e))
      BY <1>2, <2>1, <2>2 DEF ResolvePayout
    <3> QED
      BY <1>1, <1>2, <1>4, <3>1
  <2>3. CASE decision = "RefundToClient"
    <3>1. Closes(0)
      BY <1>2, <2>1, <2>3 DEF ResolvePayout
    <3> QED
      BY <1>1, <1>2, <1>4, <3>1
  <2>4. CASE decision = "Split"
    <3>1. bps <= 10000
      BY <2>4 DEF ResolveError
    <3>2. SplitShare(Remaining(e), bps) \in 0 .. Remaining(e)
      BY <1>2, <3>1, SplitShareBounds
    <3>3. Closes(SplitShare(Remaining(e), bps))
      BY <1>2, <2>1, <2>4, <3>2 DEF ResolvePayout
    <3> QED
      BY <1>1, <1>2, <1>4, <3>3
  <2> QED
    BY <2>2, <2>3, <2>4 DEF Decision
<1> QED
  BY <1>1, <1>2, <1>3, <1>5, <1>6, <1>7, <1>8 DEF Effect
-----------------------------------------------------------------------------
(* The whole contract. *)

AllSound == \A id \in ContractId : Sound(entries[id], received[id])
IInv == TypeOK /\ AllSound

\* A step that leaves storage alone: a rejected or trapped call, an
\* approval, a transfer between holders.
Idle ==
    /\ UNCHANGED storage
    /\ last' = last \/ \E op \in EntryPoint, caller \in Address :
                         last' = Call(op, caller, "Trap")

FundStep(id) ==
    \E terms \in Terms, t \in Token, amount \in Amounts :
        /\ FundError(entries[id], amount) = "Ok"
        /\ CanPull(t, terms.client, amount)
        /\ Pull(t, terms.client, amount)
        /\ entries' = [entries EXCEPT ![id] = FundedEntry(terms, t, amount)]
        /\ last' = Call("fund", terms.client, "Ok")
        /\ UNCHANGED received

EffectStep(id) ==
    \E op \in EntryPoint, caller \in Address : \E e2, p :
        /\ Effect(entries[id], caller, e2, p)
        /\ PoolCovers(entries[id], p)
        /\ PoolPays(entries[id], p)
        /\ entries' = [entries EXCEPT ![id] = e2]
        /\ received' = [received EXCEPT ![id] = Add(received[id], p)]
        /\ last' = Call(op, caller, "Ok")
        /\ UNCHANGED allowance

\* A token movement outside the escrow, or none.
HolderStep ==
    \/ \E t \in Token, a \in Address, amount \in Amounts :
          \/ Approve(t, a, amount)
          \/ \E to \in SpendTo : Spend(t, a, to, amount)
    \/ UNCHANGED tokens

\* An entry point acts on the entry of id as one Effect, or changes nothing
\* but the record of the last invocation.
LEMMA FinishShape ==
    ASSUME IInv, NEW id \in ContractId, NEW op \in EntryPoint,
           NEW caller \in Address, NEW error, NEW e2, NEW p,
           error = "Ok" => Effect(entries[id], caller, e2, p),
           Finish(op, id, caller, error, e2, p)
    PROVE  (Idle /\ UNCHANGED tokens) \/ EffectStep(id)
<1>1. CASE error # "Ok"
  BY <1>1 DEF Finish, Rejected, Idle, vars, storage, tokens
<1>2. CASE error = "Ok" /\ ~PoolCovers(entries[id], p)
  BY <1>2 DEF Finish, Rejected, Trapped, Idle
<1>3. CASE error = "Ok" /\ PoolCovers(entries[id], p)
  <2>1. EffectStep(id)
    BY <1>3 DEF Finish, Rejected, EffectStep, Add
  <2> QED
    BY <2>1
<1> QED
  BY <1>1, <1>2, <1>3

\* Every step is idle in storage, or a funding, or an Effect on one entry.
LEMMA NextShape ==
    ASSUME IInv, [Next]_vars
    PROVE  \/ Idle /\ HolderStep
           \/ \E id \in ContractId : FundStep(id) \/ EffectStep(id)
<1>1. CASE UNCHANGED vars
  BY <1>1 DEF vars, Idle, HolderStep, storage, tokens
<1>2. ASSUME NEW id \in ContractId, NEW terms \in Terms, NEW t \in Token,
             NEW amount \in Amounts, Fund(id, terms, t, amount)
      PROVE  (Idle /\ UNCHANGED tokens) \/ FundStep(id)
  <2>1. terms.client \in Address
    BY EscrowAssumption DEF Party
  <2>2. CASE FundError(entries[id], amount) # "Ok"
    BY <1>2, <2>2 DEF Fund, Rejected, Idle, vars, storage, tokens
  <2>3. CASE FundError(entries[id], amount) = "Ok" /\ ~CanPull(t, terms.client, amount)
    BY <1>2, <2>1, <2>3 DEF Fund, Rejected, Trapped, Idle, EntryPoint
  <2>4. CASE FundError(entries[id], amount) = "Ok" /\ CanPull(t, terms.client, amount)
    BY <1>2, <2>4 DEF Fund, Rejected, FundStep
  <2> QED
    BY <2>2, <2>3, <2>4
<1>3. ASSUME NEW id \in ContractId, NEW caller \in Address,
             NEW amount \in Amounts, ReleaseMilestone(id, caller, amount)
      PROVE  (Idle /\ UNCHANGED tokens) \/ EffectStep(id)
  <2> DEFINE error == ReleaseMilestoneError(entries[id], caller, amount)
             e2 == ReleaseMilestoneEntry(entries[id], amount)
             p == Payout(amount, 0)
  <2>1. error = "Ok" => Effect(entries[id], caller, e2, p)
    BY EscrowAssumption DEF Effect
  <2>2. Finish("release_milestone", id, caller, error, e2, p)
    BY <1>3 DEF ReleaseMilestone
  <2>3. "release_milestone" \in EntryPoint
    BY DEF EntryPoint
  <2> HIDE DEF error, e2, p
  <2> QED
    BY <2>1, <2>2, <2>3, FinishShape
<1>4. ASSUME NEW id \in ContractId, NEW caller \in Address,
             Release(id, caller)
      PROVE  (Idle /\ UNCHANGED tokens) \/ EffectStep(id)
  <2> DEFINE error == ReleaseError(entries[id], caller)
             e2 == ReleaseEntry(entries[id])
             p == Payout(Remaining(entries[id]), 0)
  <2>1. error = "Ok" => Effect(entries[id], caller, e2, p)
    BY DEF Effect
  <2>2. Finish("release", id, caller, error, e2, p)
    BY <1>4 DEF Release
  <2>3. "release" \in EntryPoint
    BY DEF EntryPoint
  <2> HIDE DEF error, e2, p
  <2> QED
    BY <2>1, <2>2, <2>3, FinishShape
<1>5. ASSUME NEW id \in ContractId, NEW caller \in Address,
             Refund(id, caller)
      PROVE  (Idle /\ UNCHANGED tokens) \/ EffectStep(id)
  <2> DEFINE error == RefundError(entries[id], caller)
             e2 == RefundEntry(entries[id])
             p == Payout(0, Remaining(entries[id]))
  <2>1. error = "Ok" => Effect(entries[id], caller, e2, p)
    BY DEF Effect
  <2>2. Finish("refund", id, caller, error, e2, p)
    BY <1>5 DEF Refund
  <2>3. "refund" \in EntryPoint
    BY DEF EntryPoint
  <2> HIDE DEF error, e2, p
  <2> QED
    BY <2>1, <2>2, <2>3, FinishShape
<1>6. ASSUME NEW id \in ContractId, NEW caller \in Address,
             Dispute(id, caller)
      PROVE  (Idle /\ UNCHANGED tokens) \/ EffectStep(id)
  <2> DEFINE error == DisputeError(entries[id], caller)
             e2 == DisputeEntry(entries[id])
             p == Payout(0, 0)
  <2>1. error = "Ok" => Effect(entries[id], caller, e2, p)
    BY DEF Effect
  <2>2. Finish("dispute", id, caller, error, e2, p)
    BY <1>6 DEF Dispute
  <2>3. "dispute" \in EntryPoint
    BY DEF EntryPoint
  <2> HIDE DEF error, e2, p
  <2> QED
    BY <2>1, <2>2, <2>3, FinishShape
<1>7. ASSUME NEW id \in ContractId, NEW caller \in Address,
             NEW decision \in Decision, NEW bps \in SplitBps,
             ResolveDispute(id, caller, decision, bps)
      PROVE  (Idle /\ UNCHANGED tokens) \/ EffectStep(id)
  <2> DEFINE error == ResolveError(entries[id], caller, decision, bps)
             e2 == ResolveEntry(entries[id], decision)
             p == ResolvePayout(entries[id], decision, bps)
  <2>1. error = "Ok" => Effect(entries[id], caller, e2, p)
    BY EscrowAssumption DEF Effect
  <2>2. Finish("resolve_dispute", id, caller, error, e2, p)
    BY <1>7 DEF ResolveDispute
  <2>3. "resolve_dispute" \in EntryPoint
    BY DEF EntryPoint
  <2> HIDE DEF error, e2, p
  <2> QED
    BY <2>1, <2>2, <2>3, FinishShape
<1>8. ASSUME NEW t \in Token, NEW a \in Address, NEW amount \in Amounts,
             \/ Approve(t, a, amount)
             \/ \E to \in SpendTo : Spend(t, a, to, amount)
      PROVE  Idle /\ HolderStep
  BY <1>8 DEF Approve, Spend, Idle, HolderStep, storage
<1> QED
  BY <1>1, <1>2, <1>3, <1>4, <1>5, <1>6, <1>7, <1>8
     DEF Next, HolderStep

-----------------------------------------------------------------------------
(* The invariant. *)

\* Before the first invocation no entry exists and nothing was paid.
LEMMA InitInv == Init => IInv
<1> SUFFICES ASSUME Init PROVE IInv
  OBVIOUS
<1>1. \A t \in Token : balance[t] \in [Holder -> Nat]
  BY EscrowAssumption DEF Init, Holder
<1>2. TypeOK
  BY <1>1 DEF Init, TypeOK, Payout, NoCall
<1>3. AllSound
  BY DEF Init, AllSound, Sound
<1> QED
  BY <1>2, <1>3 DEF IInv

\* A holder moves only tokens it has.
LEMMA HolderStepType ==
    ASSUME TypeOK, HolderStep
    PROVE  /\ balance' \in [Token -> [Holder -> Nat]]
           /\ allowance' \in [Token -> [Address -> Nat]]
<1>1. CASE UNCHANGED tokens
  BY <1>1 DEF TypeOK, tokens
<1>2. ASSUME NEW t \in Token, NEW a \in Address, NEW amount \in Amounts,
             Approve(t, a, amount)
      PROVE  /\ balance' \in [Token -> [Holder -> Nat]]
             /\ allowance' \in [Token -> [Address -> Nat]]
  <2>1. amount \in Nat
    BY <1>2, EscrowAssumption DEF Approve
  <2> QED
    BY <1>2, <2>1 DEF Approve, TypeOK
<1>3. ASSUME NEW t \in Token, NEW a \in Address, NEW amount \in Amounts,
             NEW to \in SpendTo, Spend(t, a, to, amount)
      PROVE  /\ balance' \in [Token -> [Holder -> Nat]]
             /\ allowance' \in [Token -> [Address -> Nat]]
  <2>1. /\ amount \in Int /\ to \in Holder /\ a \in Holder
        /\ balance[t] \in [Holder -> Nat] /\ to # a
        /\ amount > 0 /\ amount <= balance[t][a]
    BY <1>3, EscrowAssumption DEF Spend, Holder, TypeOK
  <2>2. balance[t][a] - amount \in Nat /\ balance[t][to] + amount \in Nat
    BY <2>1
  <2>3. balance' = [balance EXCEPT ![t] =
            [balance[t] EXCEPT ![a] = balance[t][a] - amount,
                               ![to] = balance[t][to] + amount]]
    BY <1>3, <2>1 DEF Spend, TypeOK
  <2> QED
    BY <1>3, <2>1, <2>2, <2>3 DEF Spend, TypeOK
<1> QED
  BY <1>1, <1>2, <1>3 DEF HolderStep

\* fund pulls only what the client has and has approved.
LEMMA FundStepType ==
    ASSUME IInv, NEW id \in ContractId, FundStep(id)
    PROVE  TypeOK' /\ AllSound'
<1> PICK terms \in Terms, t \in Token, amount \in Amounts :
        /\ FundError(entries[id], amount) = "Ok"
        /\ CanPull(t, terms.client, amount)
        /\ Pull(t, terms.client, amount)
        /\ entries' = [entries EXCEPT ![id] = FundedEntry(terms, t, amount)]
        /\ last' = Call("fund", terms.client, "Ok")
        /\ UNCHANGED received
  BY DEF FundStep
<1> USE DEF IInv
<1>1. /\ terms \in Party /\ terms.client \in Address
      /\ amount \in Nat /\ amount > 0 /\ ~Present(entries[id])
  BY EscrowAssumption DEF FundError, Party
<1>2. FundedEntry(terms, t, amount) \in EscrowEntry
  BY <1>1 DEF FundedEntry, EscrowEntry, Party, EscrowStatus, Live
<1>3. received[id] = Payout(0, 0)
  BY <1>1 DEF AllSound, Sound, EscrowEntry, EscrowStatus, Live, Settled,
     Present
<1>4. Sound(FundedEntry(terms, t, amount), received[id])
  BY <1>1, <1>2, <1>3 DEF Sound, FundedEntry, Payout, Paid, Outstanding,
     Remaining, Live
<1>5. AllSound'
  BY <1>4 DEF AllSound, TypeOK
<1>6. /\ Self # terms.client /\ terms.client \in Holder /\ Self \in Holder
      /\ balance[t] \in [Holder -> Nat] /\ allowance[t] \in [Address -> Nat]
      /\ balance[t][terms.client] - amount \in Nat
      /\ balance[t][Self] + amount \in Nat
      /\ allowance[t][terms.client] - amount \in Nat
  <2>1. Self # terms.client /\ terms.client \in Holder /\ Self \in Holder
    BY <1>1, EscrowAssumption DEF Holder
  <2>2. balance[t] \in [Holder -> Nat] /\ allowance[t] \in [Address -> Nat]
    BY DEF TypeOK
  <2>3. /\ balance[t][terms.client] \in Nat /\ balance[t][Self] \in Nat
        /\ allowance[t][terms.client] \in Nat
    BY <1>1, <2>1, <2>2
  <2> QED
    BY <1>1, <2>1, <2>2, <2>3 DEF CanPull
<1>7. balance' = [balance EXCEPT ![t] =
          [balance[t] EXCEPT
              ![terms.client] = balance[t][terms.client] - amount,
              ![Self] = balance[t][Self] + amount]]
  <2> DEFINE client == terms.client
  <2>1. balance' = [balance EXCEPT ![t][client] = @ - amount,
                                   ![t][Self] = @ + amount]
    BY DEF Pull
  <2>2. client \in Holder /\ Self \in Holder /\ Self # client
        /\ balance \in [Token -> [Holder -> Nat]]
    BY <1>6 DEF TypeOK
  <2> HIDE DEF client
  <2>3. balance' = [balance EXCEPT ![t] =
          [balance[t] EXCEPT ![client] = balance[t][client] - amount,
                             ![Self] = balance[t][Self] + amount]]
    BY <2>1, <2>2
  <2> QED
    BY <2>3 DEF client
<1>8. /\ balance' \in [Token -> [Holder -> Nat]]
      /\ allowance' \in [Token -> [Address -> Nat]]
  BY <1>1, <1>6, <1>7 DEF Pull, TypeOK
<1>9. last' \in [op : EntryPoint, caller : Address, err : Result]
  BY <1>1 DEF Call, EntryPoint, Result
<1> QED
  BY <1>2, <1>5, <1>8, <1>9 DEF TypeOK

\* An Effect pays what the pool has, and only the entry it acts on changes.
LEMMA EffectStepType ==
    ASSUME IInv, NEW id \in ContractId, EffectStep(id)
    PROVE  TypeOK' /\ AllSound'
<1> USE DEF IInv
<1> PICK op \in EntryPoint, caller \in Address :
        \E e2, p : /\ Effect(entries[id], caller, e2, p)
                   /\ PoolCovers(entries[id], p)
                   /\ PoolPays(entries[id], p)
                   /\ entries' = [entries EXCEPT ![id] = e2]
                   /\ received' = [received EXCEPT ![id] = Add(received[id], p)]
                   /\ last' = Call(op, caller, "Ok")
                   /\ UNCHANGED allowance
  BY DEF EffectStep
<1> PICK e2, p : /\ Effect(entries[id], caller, e2, p)
                 /\ PoolCovers(entries[id], p)
                 /\ PoolPays(entries[id], p)
                 /\ entries' = [entries EXCEPT ![id] = e2]
                 /\ received' = [received EXCEPT ![id] = Add(received[id], p)]
                 /\ last' = Call(op, caller, "Ok")
                 /\ UNCHANGED allowance
  OBVIOUS
<1> DEFINE e == entries[id]
<1>1. /\ e \in EscrowEntry /\ e2 \in EscrowEntry /\ p \in Paid
      /\ Sound(e2, Add(received[id], p))
  BY EffectSound DEF AllSound
<1>2. AllSound'
  BY <1>1 DEF AllSound, TypeOK
<1>3. Add(received[id], p) \in Paid
  BY <1>1 DEF Add, Payout, Paid, TypeOK
<1>4. /\ e.token \in Token /\ balance[e.token] \in [Holder -> Nat]
      /\ e.freelancer # Self /\ e.client # Self
      /\ p.freelancer \in Nat /\ p.client \in Nat
  BY <1>1, EscrowAssumption DEF EscrowEntry, Paid, TypeOK
<1> DEFINE paid(h) ==
      balance[e.token][h]
          - (IF h = Self THEN p.freelancer + p.client ELSE 0)
          + (IF h = e.freelancer THEN p.freelancer ELSE 0)
          + (IF h = e.client THEN p.client ELSE 0)
<1>5. \A h \in Holder : paid(h) \in Nat
  BY <1>4 DEF PoolCovers
<1>6. balance' = [balance EXCEPT ![e.token] = [h \in Holder |-> paid(h)]]
  BY <1>4 DEF PoolPays, TypeOK
<1> HIDE DEF paid
<1>7. balance' \in [Token -> [Holder -> Nat]]
  BY <1>5, <1>6 DEF TypeOK
<1>8. last' \in [op : EntryPoint, caller : Address, err : Result]
  BY DEF Call, Result
<1> QED
  BY <1>1, <1>2, <1>3, <1>7, <1>8 DEF TypeOK, Paid

\* Every entry point, and every use of the tokens outside, preserves IInv.
LEMMA NextInv == IInv /\ [Next]_vars => IInv'
<1> SUFFICES ASSUME IInv, [Next]_vars PROVE IInv'
  OBVIOUS
<1>1. CASE Idle /\ HolderStep
  <2>1. last' \in [op : EntryPoint, caller : Address, err : Result]
                 \cup {NoCall}
    BY <1>1 DEF Idle, IInv, TypeOK, Call, Result
  <2>2. /\ balance' \in [Token -> [Holder -> Nat]]
        /\ allowance' \in [Token -> [Address -> Nat]]
    BY <1>1, HolderStepType DEF IInv
  <2>3. UNCHANGED <<entries, received>>
    BY <1>1 DEF Idle, storage
  <2>4. TypeOK'
    BY <2>1, <2>2, <2>3 DEF IInv, TypeOK
  <2>5. AllSound'
    BY <2>3 DEF IInv, AllSound
  <2> QED
    BY <2>4, <2>5 DEF IInv
<1>2. CASE \E id \in ContractId : FundStep(id) \/ EffectStep(id)
  BY <1>2, FundStepType, EffectStepType DEF IInv
<1> QED
  BY <1>1, <1>2, NextShape

\* The invariant the other theorems rest on.
THEOREM Invariance == Spec => []IInv
  BY InitInv, NextInv, PTL DEF Spec

\* Storage and balances keep their types: in particular no balance and no
\* allowance goes below zero, whatever is called in whatever order.
THEOREM TypeCorrect == Spec => []TypeOK
<1>1. IInv => TypeOK
  BY DEF IInv
<1> QED
  BY Invariance, <1>1, PTL

\* Every deposited unit is with the freelancer, with the client or owed.
THEOREM ConservationHolds == Spec => []Conservation
<1>1. ASSUME NEW e, NEW r, Sound(e, r)
      PROVE  r.freelancer + r.client + Outstanding(e)
             = IF Present(e) THEN e.total ELSE 0
  <2>1. CASE e = NoEntry /\ r = Payout(0, 0)
    BY <2>1 DEF NoEntry, Payout, Present, Outstanding, Live
  <2>2. CASE e # NoEntry \/ r # Payout(0, 0)
    BY <1>1, <2>2 DEF Sound, Present, EscrowEntry, EscrowStatus, Live, Settled
  <2> QED
    BY <2>1, <2>2
<1>2. IInv => Conservation
  BY <1>1 DEF IInv, AllSound, Conservation
<1> QED
  BY Invariance, <1>2, PTL

\* A live entry has something left to pay and records what its freelancer
\* was paid; one that says Released has paid everything to the freelancer.
THEOREM TruthfulEntries == Spec => []EntriesTellTheTruth
<1>1. IInv => EntriesTellTheTruth
  BY DEF IInv, AllSound, Sound, EntriesTellTheTruth, NoEntry, Live, Remaining,
     EscrowEntry
<1> QED
  BY Invariance, <1>1, PTL

-----------------------------------------------------------------------------
(* Resolutions. *)

\* All that is left goes to the two parties, neither gets less than nothing,
\* and a split gives the freelancer the agreed proportion but for less than
\* one unit, which the client has.
DividesFairly(e, decision, bps) ==
    LET p == ResolvePayout(e, decision, bps)
    IN /\ p.freelancer \in 0 .. Remaining(e) /\ p.client \in 0 .. Remaining(e)
       /\ p.freelancer + p.client = Remaining(e)
       /\ decision = "ReleaseToFreelancer" => p.client = 0
       /\ decision = "RefundToClient" => p.freelancer = 0
       /\ decision = "Split" =>
             /\ p.freelancer * 10000 <= Remaining(e) * bps
             /\ Remaining(e) * bps < (p.freelancer + 1) * 10000

\* The share of a split is the exact proportion rounded down.
LEMMA SplitShareRoundsDown ==
    ASSUME NEW n \in Nat, NEW bps \in Nat
    PROVE  /\ SplitShare(n, bps) * 10000 <= n * bps
           /\ n * bps < (SplitShare(n, bps) + 1) * 10000
<1>1. n * bps \in Nat
  OBVIOUS
<1>2. \A k \in Nat : /\ (k \div 10000) * 10000 <= k
                     /\ k < ((k \div 10000) + 1) * 10000
  OBVIOUS
<1> QED
  BY <1>1, <1>2 DEF SplitShare

\* In every state the contract can reach, after any releases and whoever
\* asks: a resolution that resolve_dispute accepts, with whatever basis
\* points, divides what is left fairly (lib.rs:585-610).  The basis points
\* that would make a share negative or lose money are the ones it refuses.
THEOREM ResolutionIsFair ==
    Spec => [](\A id \in ContractId, caller \in Address, decision \in Decision,
                  bps \in Nat :
                     ResolveError(entries[id], caller, decision, bps) = "Ok"
                        => DividesFairly(entries[id], decision, bps))
<1>1. ASSUME NEW e, NEW r, Sound(e, r), NEW caller, NEW decision \in Decision,
             NEW bps \in Nat, ResolveError(e, caller, decision, bps) = "Ok"
      PROVE  DividesFairly(e, decision, bps)
  <2>1. Present(e) /\ e.status = "Disputed"
    BY <1>1, AccessOk DEF ResolveError
  <2>2. Remaining(e) \in Nat
    BY <1>1, <2>1 DEF Sound, NoEntry, EscrowEntry, Live, Remaining
  <2>3. PICK n \in Nat : n = Remaining(e)
    BY <2>2
  <2>4. CASE decision \in {"ReleaseToFreelancer", "RefundToClient"}
    BY <2>3, <2>4 DEF DividesFairly, ResolvePayout, Payout
  <2>5. CASE decision = "Split"
    <3>1. bps <= 10000
      BY <1>1, <2>5 DEF ResolveError
    <3>2. SplitShare(n, bps) \in 0 .. n
      BY <3>1, SplitShareBounds
    <3>3. /\ SplitShare(n, bps) * 10000 <= n * bps
          /\ n * bps < (SplitShare(n, bps) + 1) * 10000
      BY SplitShareRoundsDown
    <3>4. ResolvePayout(e, decision, bps) = Payout(SplitShare(n, bps), n - SplitShare(n, bps))
      BY <2>3, <2>5 DEF ResolvePayout
    <3> QED
      BY <2>3, <2>5, <3>2, <3>3, <3>4 DEF DividesFairly, Payout
  <2> QED
    BY <2>4, <2>5 DEF Decision
<1>2. IInv => \A id \in ContractId, caller \in Address, decision \in Decision, bps \in Nat :
                 ResolveError(entries[id], caller, decision, bps) = "Ok"
                    => DividesFairly(entries[id], decision, bps)
  BY <1>1 DEF IInv, AllSound
<1> QED
  BY Invariance, <1>2, PTL

-----------------------------------------------------------------------------
(* What an effect does, seen from outside: a partial payment, a freeze or  *)
(* the closing division.                                                   *)

PartialPay(e, e2, p) ==
    /\ e.status = "Funded" /\ e2.status = "Funded"
    /\ p.freelancer \in 1 .. Remaining(e) - 1 /\ p.client = 0

FreezeOnly(e, e2, p) ==
    /\ e.status = "Funded" /\ e2.status = "Disputed"
    /\ p.freelancer = 0 /\ p.client = 0

Division(e, e2, p) ==
    /\ e.status \in Live /\ e2.status \in Settled
    /\ p.freelancer \in 0 .. Remaining(e)
    /\ p.client = Remaining(e) - p.freelancer
    /\ e.status = "Funded" => p.freelancer \in {0, Remaining(e)}

\* Who has to sign for what.
Signed(e, caller, p) ==
    /\ p.freelancer > 0 => caller \in {e.client, e.admin}
    /\ p.client > 0 => caller \in {e.freelancer, e.admin}
    /\ e.status = "Disputed" => caller = e.admin

SameTerms(e, e2) ==
    e2 = [e EXCEPT !.released = e2.released, !.status = e2.status]

\* Each successful entry point is one of the three kinds, is signed by the
\* other side or the admin, and leaves the parties, the token and the total
\* of its entry alone.
LEMMA EffectKinds ==
    ASSUME NEW e, NEW r, Sound(e, r), NEW caller, NEW e2, NEW p,
           Effect(e, caller, e2, p)
    PROVE  /\ \/ PartialPay(e, e2, p)
              \/ FreezeOnly(e, e2, p)
              \/ Division(e, e2, p)
           /\ Signed(e, caller, p)
           /\ SameTerms(e, e2)
<1>1. /\ e \in EscrowEntry /\ Present(e) /\ e2 \in EscrowEntry
      /\ p \in Paid /\ e.total \in Nat /\ e.released \in Nat
      /\ Remaining(e) \in Nat /\ Remaining(e) > 0
  BY EffectSound DEF Sound, EscrowEntry, Remaining, NoEntry, Present, Live,
     EscrowStatus, Settled
<1>2. CASE \E amount \in Int :
              /\ ReleaseMilestoneError(e, caller, amount) = "Ok"
              /\ e2 = ReleaseMilestoneEntry(e, amount)
              /\ p = Payout(amount, 0)
  <2> PICK amount \in Int :
              /\ ReleaseMilestoneError(e, caller, amount) = "Ok"
              /\ e2 = ReleaseMilestoneEntry(e, amount)
              /\ p = Payout(amount, 0)
    BY <1>2
  <2>1. /\ AccessError(e, caller, "Funded", {"client", "admin"}) = "Ok"
        /\ ~(amount <= 0) /\ ~(amount > Remaining(e))
    BY DEF ReleaseMilestoneError
  <2>2. e.status = "Funded" /\ caller \in {e.client, e.admin}
    BY <2>1, AccessOk
  <2>3. /\ e2.status = IF e.released + amount >= e.total THEN "Released"
                                                         ELSE "Funded"
        /\ SameTerms(e, e2)
    BY <1>1, <2>2 DEF ReleaseMilestoneEntry, SameTerms, EscrowEntry
  <2>4. Signed(e, caller, p)
    BY <2>2 DEF Signed, Payout
  <2>5. CASE e.released + amount >= e.total
    <3>1. Division(e, e2, p)
      BY <1>1, <2>1, <2>2, <2>3, <2>5 DEF Division, Payout, Remaining, Live,
         Settled
    <3> QED
      BY <2>3, <2>4, <3>1
  <2>6. CASE e.released + amount < e.total
    <3>1. PartialPay(e, e2, p)
      BY <1>1, <2>1, <2>2, <2>3, <2>6 DEF PartialPay, Payout, Remaining
    <3> QED
      BY <2>3, <2>4, <3>1
  <2> QED
    BY <1>1, <2>5, <2>6
<1>3. CASE /\ ReleaseError(e, caller) = "Ok"
           /\ e2 = ReleaseEntry(e) /\ p = Payout(Remaining(e), 0)
  <2>1. e.status = "Funded" /\ caller \in {e.client, e.admin}
    BY <1>3, AccessOk DEF ReleaseError
  <2>2. e2.status = "Released" /\ SameTerms(e, e2)
    BY <1>1, <1>3 DEF ReleaseEntry, SameTerms, EscrowEntry
  <2> QED
    BY <1>1, <1>3, <2>1, <2>2 DEF Division, Signed, Payout, Live, Settled
<1>4. CASE /\ RefundError(e, caller) = "Ok"
           /\ e2 = RefundEntry(e) /\ p = Payout(0, Remaining(e))
  <2>1. e.status = "Funded" /\ caller \in {e.freelancer, e.admin}
    BY <1>4, AccessOk DEF RefundError
  <2>2. e2.status = "Refunded" /\ SameTerms(e, e2)
    BY <1>1, <1>4 DEF RefundEntry, SameTerms, EscrowEntry
  <2> QED
    BY <1>1, <1>4, <2>1, <2>2 DEF Division, Signed, Payout, Live, Settled
<1>5. CASE /\ DisputeError(e, caller) = "Ok"
           /\ e2 = DisputeEntry(e) /\ p = Payout(0, 0)
  <2>1. e.status = "Funded"
    BY <1>5, AccessOk DEF DisputeError
  <2>2. e2.status = "Disputed" /\ SameTerms(e, e2)
    BY <1>1, <1>5 DEF DisputeEntry, SameTerms, EscrowEntry
  <2> QED
    BY <1>5, <2>1, <2>2 DEF FreezeOnly, Signed, Payout
<1>6. CASE \E decision \in Decision, bps \in Nat :
              /\ ResolveError(e, caller, decision, bps) = "Ok"
              /\ e2 = ResolveEntry(e, decision)
              /\ p = ResolvePayout(e, decision, bps)
  <2> PICK decision \in Decision, bps \in Nat :
              /\ ResolveError(e, caller, decision, bps) = "Ok"
              /\ e2 = ResolveEntry(e, decision)
              /\ p = ResolvePayout(e, decision, bps)
    BY <1>6
  <2>1. AccessError(e, caller, "Disputed", {"admin"}) = "Ok"
    BY DEF ResolveError
  <2>2. e.status = "Disputed" /\ caller = e.admin
    BY <2>1, AccessOk
  <2>3. e2.status \in Settled /\ SameTerms(e, e2)
    BY <1>1 DEF ResolveEntry, SameTerms, EscrowEntry, Settled
  <2>4. p.client = Remaining(e) - p.freelancer
    <3>1. p = Payout(p.freelancer, Remaining(e) - p.freelancer)
      BY DEF ResolvePayout, Payout
    <3> QED
      BY <3>1 DEF Payout
  <2>5. p.freelancer \in 0 .. Remaining(e)
    BY <1>1, <2>4 DEF Paid
  <2> QED
    BY <2>2, <2>3, <2>4, <2>5 DEF Division, Signed, Live
<1> QED
  BY <1>2, <1>3, <1>4, <1>5, <1>6 DEF Effect

-----------------------------------------------------------------------------
(* Action properties.  Each is a fact about a step from a state satisfying *)
(* the invariant.                                                          *)

\* A step seen from one escrow: it is funded, undergoes an effect, or is
\* not touched.
LEMMA OneEscrowStep ==
    ASSUME IInv, [Next]_vars, NEW id \in ContractId
    PROVE  \/ entries'[id] = entries[id] /\ received'[id] = received[id]
           \/ ~Present(entries[id]) /\ received'[id] = received[id]
           \/ \E caller \in Address : \E e2, p :
                 /\ Effect(entries[id], caller, e2, p)
                 /\ entries'[id] = e2
                 /\ received'[id] = Add(received[id], p)
                 /\ last'.caller = caller
<1>1. CASE Idle
  BY <1>1 DEF Idle, storage
<1>2. ASSUME NEW k \in ContractId, FundStep(k) PROVE
             \/ entries'[id] = entries[id] /\ received'[id] = received[id]
             \/ ~Present(entries[id]) /\ received'[id] = received[id]
  BY <1>2 DEF FundStep, FundError, IInv, TypeOK
<1>3. ASSUME NEW k \in ContractId, EffectStep(k) PROVE
             \/ entries'[id] = entries[id] /\ received'[id] = received[id]
             \/ \E caller \in Address : \E e2, p :
                    /\ Effect(entries[id], caller, e2, p)
                    /\ entries'[id] = e2
                    /\ received'[id] = Add(received[id], p)
                    /\ last'.caller = caller
  <2> PICK op \in EntryPoint, caller \in Address :
        \E e2, p : /\ Effect(entries[k], caller, e2, p)
                   /\ entries' = [entries EXCEPT ![k] = e2]
                   /\ received' = [received EXCEPT ![k] = Add(received[k], p)]
                   /\ last' = Call(op, caller, "Ok")
    BY <1>3 DEF EffectStep
  <2> PICK e2, p : /\ Effect(entries[k], caller, e2, p)
                   /\ entries' = [entries EXCEPT ![k] = e2]
                   /\ received' = [received EXCEPT ![k] = Add(received[k], p)]
                   /\ last' = Call(op, caller, "Ok")
    OBVIOUS
  <2>1. last'.caller = caller
    BY DEF Call
  <2>2. CASE k = id
    <3>1. entries'[id] = e2 /\ received'[id] = Add(received[id], p)
      BY <2>2 DEF IInv, TypeOK
    <3> QED
      BY <2>1, <2>2, <3>1
  <2>3. CASE k # id
    BY <2>3 DEF IInv, TypeOK
  <2> QED
    BY <2>2, <2>3
<1> QED
  BY <1>1, <1>2, <1>3, NextShape

\* A settled escrow never changes again.
THEOREM SettledForever == Spec => SettledIsFinal
<1>1. ASSUME IInv, [Next]_vars
      PROVE  \A id \in ContractId : entries[id].status \in Settled =>
                entries'[id] = entries[id] /\ received'[id] = received[id]
  <2> SUFFICES ASSUME NEW id \in ContractId, entries[id].status \in Settled
               PROVE  entries'[id] = entries[id]
                      /\ received'[id] = received[id]
    OBVIOUS
  <2>1. Present(entries[id]) /\ entries[id].status \notin Live
    BY DEF Present, Settled, Live
  <2>2. Sound(entries[id], received[id])
    BY <1>1 DEF IInv, AllSound
  <2> QED
    BY <1>1, <2>1, <2>2, OneEscrowStep, EffectSound
<1> QED
  BY <1>1, Invariance, PTL DEF Spec, SettledIsFinal

\* Only its admin moves a disputed escrow, and only into a final status.
THEOREM FrozenUntilResolved == Spec => FrozenUntilAdminActs
<1>1. ASSUME IInv, [Next]_vars
      PROVE  \A id \in ContractId :
                /\ entries[id].status = "Disputed"
                /\ <<entries'[id], received'[id]>> # <<entries[id], received[id]>>
                => /\ last'.caller = entries[id].admin
                   /\ entries'[id].status \in Settled
  <2> SUFFICES ASSUME NEW id \in ContractId, entries[id].status = "Disputed",
                      <<entries'[id], received'[id]>>
                          # <<entries[id], received[id]>>
               PROVE  /\ last'.caller = entries[id].admin
                      /\ entries'[id].status \in Settled
    OBVIOUS
  <2>1. Present(entries[id]) /\ Sound(entries[id], received[id])
    BY <1>1 DEF Present, IInv, AllSound
  <2> PICK caller \in Address : \E e2, p :
              /\ Effect(entries[id], caller, e2, p)
              /\ entries'[id] = e2
              /\ last'.caller = caller
    BY <1>1, <2>1, OneEscrowStep
  <2> PICK e2, p : /\ Effect(entries[id], caller, e2, p)
                   /\ entries'[id] = e2
                   /\ last'.caller = caller
    OBVIOUS
  <2> QED
    BY <2>1, EffectKinds DEF PartialPay, FreezeOnly, Division, Signed
<1> QED
  BY <1>1, Invariance, PTL DEF Spec, FrozenUntilAdminActs

\* No party draws on an escrow with its own signature alone, and no step
\* renames the parties of an escrow.
THEOREM OtherSideSigns == Spec => PaidByTheOtherSide
<1> DEFINE Kept(id) ==
      LET e == entries[id]
      IN /\ received'[id].freelancer > received[id].freelancer =>
                last'.caller \in {e.client, e.admin}
         /\ received'[id].client > received[id].client =>
                last'.caller \in {e.freelancer, e.admin}
         /\ entries'[id] = [e EXCEPT !.released = entries'[id].released,
                                     !.status = entries'[id].status]
<1>1. ASSUME IInv, [Next]_vars, NEW id \in ContractId, Present(entries[id])
      PROVE  Kept(id)
  <2>1. /\ Sound(entries[id], received[id]) /\ entries[id] \in EscrowEntry
        /\ received[id] \in Paid
    BY <1>1 DEF IInv, AllSound, TypeOK, Present, NoEntry, Paid
  <2>2. CASE entries'[id] = entries[id] /\ received'[id] = received[id]
    <3>1. entries[id] = [entries[id] EXCEPT !.released = entries[id].released,
                                            !.status = entries[id].status]
      BY <2>1 DEF EscrowEntry
    <3> QED
      BY <2>1, <2>2, <3>1 DEF Paid
  <2>3. ASSUME NEW caller \in Address, NEW e2, NEW p,
               Effect(entries[id], caller, e2, p), entries'[id] = e2,
               received'[id] = Add(received[id], p), last'.caller = caller
        PROVE  Kept(id)
    <3>1. Signed(entries[id], caller, p) /\ SameTerms(entries[id], e2)
      BY <2>1, <2>3, EffectKinds
    <3>2. p \in Paid
      BY <2>1, <2>3, EffectSound
    <3> QED
      BY <2>1, <2>3, <3>1, <3>2 DEF Signed, SameTerms, Add, Payout, Paid
  <2> QED
    BY <1>1, <2>2, <2>3, OneEscrowStep
<1>2. IInv /\ [Next]_vars =>
        \A id \in ContractId : Present(entries[id]) => Kept(id)
  BY <1>1
<1> QED
  BY <1>2, Invariance, PTL DEF Spec, PaidByTheOtherSide

-----------------------------------------------------------------------------
(* Escrow implements EscrowPromise. *)

phaseOf == [id \in ContractId |-> Phase(entries[id])]
depositOf == [id \in ContractId |->
                 IF Present(entries[id]) THEN entries[id].total ELSE 0]
toFreelancerOf == [id \in ContractId |-> received[id].freelancer]
toClientOf == [id \in ContractId |-> received[id].client]

\* Funding an absent entry is a Deposit.
LEMMA FundStepRefines ==
    ASSUME IInv, NEW id \in ContractId, FundStep(id)
    PROVE  Promise!Next
<1> PICK terms \in Terms, t \in Token, amount \in Amounts :
        /\ FundError(entries[id], amount) = "Ok"
        /\ entries' = [entries EXCEPT ![id] = FundedEntry(terms, t, amount)]
        /\ UNCHANGED received
  BY DEF FundStep
<1>1. amount \in {a \in Amounts : a > 0} /\ ~Present(entries[id])
  BY EscrowAssumption DEF FundError
<1>2. entries \in [ContractId -> EscrowEntry \cup {NoEntry}]
  BY DEF IInv, TypeOK
<1>3. phaseOf' = [phaseOf EXCEPT ![id] = "held"]
  BY <1>2 DEF phaseOf, Phase, Present, FundedEntry
<1>4. depositOf' = [depositOf EXCEPT ![id] = amount]
  BY <1>2 DEF depositOf, Present, FundedEntry
<1>5. phaseOf[id] = "empty"
  BY <1>1 DEF phaseOf, Phase, Present
<1>6. toFreelancerOf' = toFreelancerOf /\ toClientOf' = toClientOf
  BY DEF toFreelancerOf, toClientOf
<1>7. Promise!Deposit(id, amount)
  BY <1>3, <1>4, <1>5, <1>6 DEF Promise!Deposit, phaseOf, depositOf,
     toFreelancerOf, toClientOf
<1> QED
  BY <1>1, <1>7 DEF Promise!Next

\* An effect is a Pay, a Freeze or a Close.
LEMMA EffectStepRefines ==
    ASSUME IInv, NEW id \in ContractId, EffectStep(id)
    PROVE  Promise!Next
<1> PICK op \in EntryPoint, caller \in Address :
        \E e2, p : /\ Effect(entries[id], caller, e2, p)
                   /\ entries' = [entries EXCEPT ![id] = e2]
                   /\ received' = [received EXCEPT ![id] = Add(received[id], p)]
  BY DEF EffectStep
<1> PICK e2, p : /\ Effect(entries[id], caller, e2, p)
                 /\ entries' = [entries EXCEPT ![id] = e2]
                 /\ received' = [received EXCEPT ![id] = Add(received[id], p)]
  OBVIOUS
<1> DEFINE e == entries[id]
<1>1. /\ entries \in [ContractId -> EscrowEntry \cup {NoEntry}]
      /\ received \in [ContractId -> Paid]
      /\ Sound(e, received[id]) /\ received[id] \in Paid
  BY DEF IInv, TypeOK, AllSound, Paid
<1>2. /\ e \in EscrowEntry /\ p \in Paid /\ e.status \in Live
      /\ e2 \in EscrowEntry
  BY <1>1, EffectSound
<1>3. /\ PartialPay(e, e2, p) \/ FreezeOnly(e, e2, p) \/ Division(e, e2, p)
      /\ SameTerms(e, e2)
  BY <1>1, EffectKinds
<1>4. Present(e) /\ Present(e2) /\ e2.total = e.total
  BY <1>2, <1>3 DEF SameTerms, EscrowEntry, EscrowStatus, Live, Settled,
     Present
<1>5. /\ depositOf' = depositOf
      /\ phaseOf' = [phaseOf EXCEPT ![id] = Phase(e2)]
      /\ toFreelancerOf' = [toFreelancerOf EXCEPT
                               ![id] = toFreelancerOf[id] + p.freelancer]
      /\ toClientOf' = [toClientOf EXCEPT ![id] = toClientOf[id] + p.client]
      /\ phaseOf[id] = Phase(e)
  BY <1>1, <1>4 DEF depositOf, phaseOf, toFreelancerOf, toClientOf, Add,
     Payout
<1>6. /\ depositOf[id] - toFreelancerOf[id] - toClientOf[id] = Remaining(e)
      /\ Promise!Locked(id) = Remaining(e)
      /\ Remaining(e) \in Nat /\ toClientOf[id] = 0
  <2>1. /\ received[id] = Payout(e.released, 0)
        /\ e.released \in Nat /\ e.total \in Nat /\ e.released < e.total
    BY <1>1, <1>2 DEF Sound, NoEntry, Live, EscrowEntry
  <2> QED
    BY <1>4, <2>1 DEF Promise!Locked, depositOf, toFreelancerOf, toClientOf,
       Payout, Remaining
<1>7. CASE PartialPay(e, e2, p)
  <2>1. Phase(e) = "held" /\ Phase(e2) = "held"
    BY <1>7 DEF PartialPay, Phase, Present
  <2>2. phaseOf' = phaseOf
    BY <1>5, <2>1 DEF phaseOf
  <2>3. toClientOf' = toClientOf
    BY <1>5, <1>6, <1>7 DEF PartialPay, toClientOf
  <2>4. Promise!Pay(id, p.freelancer)
    BY <1>5, <2>1, <2>2, <2>3 DEF Promise!Pay, phaseOf, depositOf,
       toFreelancerOf, toClientOf
  <2> QED
    BY <1>6, <1>7, <2>4 DEF Promise!Next, PartialPay
<1>8. CASE FreezeOnly(e, e2, p)
  <2>1. Phase(e) = "held" /\ Phase(e2) = "frozen"
    BY <1>8 DEF FreezeOnly, Phase, Present
  <2>2. received[id].freelancer \in Nat /\ received[id].client \in Nat
    BY <1>1 DEF Paid
  <2>3. toClientOf' = toClientOf /\ toFreelancerOf' = toFreelancerOf
    BY <1>5, <1>8, <2>2 DEF FreezeOnly, toClientOf, toFreelancerOf
  <2>4. Promise!Freeze(id)
    BY <1>5, <2>1, <2>3 DEF Promise!Freeze, phaseOf, depositOf,
       toFreelancerOf, toClientOf
  <2> QED
    BY <2>4 DEF Promise!Next
<1>9. CASE Division(e, e2, p)
  <2>1. Phase(e) \in {"held", "frozen"} /\ Phase(e2) = "closed"
    BY <1>4, <1>9 DEF Division, Phase, Live, Settled
  <2>2. Phase(e) = "held" => e.status = "Funded"
    BY <1>4 DEF Phase
  <2>3. toClientOf[id] + p.client
        = toClientOf[id] + Promise!Locked(id) - p.freelancer
    BY <1>2, <1>6, <1>9 DEF Division, Paid
  <2>4. Promise!Close(id, p.freelancer)
    <3>1. phaseOf[id] = "held" =>
             p.freelancer \in {0, Promise!Locked(id)}
      BY <1>5, <1>6, <1>9, <2>2 DEF Division
    <3>2. toClientOf' = [toClientOf EXCEPT
             ![id] = toClientOf[id] + Promise!Locked(id) - p.freelancer]
      BY <1>5, <2>3
    <3> HIDE DEF e
    <3> QED
      BY <1>5, <2>1, <3>1, <3>2 DEF Promise!Close, phaseOf, depositOf,
         toFreelancerOf, toClientOf
  <2>5. p.freelancer \in 0 .. Promise!Locked(id)
    BY <1>6, <1>9 DEF Division
  <2> QED
    BY <2>4, <2>5 DEF Promise!Next
<1> QED
  BY <1>3, <1>7, <1>8, <1>9

\* Every behaviour of the contract is one its users were promised.
THEOREM Refinement == Spec => KeepsPromise
<1>1. Init => Promise!Init
  BY DEF Init, Promise!Init, Phase, Present, NoEntry, Payout
<1>2. IInv /\ [Next]_vars => [Promise!Next]_(Promise!vars)
  <2> SUFFICES ASSUME IInv, [Next]_vars
               PROVE  [Promise!Next]_(Promise!vars)
    OBVIOUS
  <2>1. CASE Idle
    BY <2>1 DEF Idle, storage, Promise!vars
  <2>2. CASE \E id \in ContractId : FundStep(id) \/ EffectStep(id)
    BY <2>2, FundStepRefines, EffectStepRefines
  <2> QED
    BY <2>1, <2>2, NextShape
<1> QED
  BY <1>1, <1>2, Invariance, PTL DEF Spec, KeepsPromise, Promise!Spec

-----------------------------------------------------------------------------
(* Solvency: the pool of each token covers what all escrows are owed       *)
(* together, so a payment never fails and no escrow is stuck, for every    *)
(* finite set of contracts.  A step changes what is owed on one entry, and *)
(* the pool by as much.                                                    *)

\* What the pool of t owes on each contract.
Owed(t) == [id \in ContractId |->
              IF entries[id].status \in Live /\ entries[id].token = t
              THEN Remaining(entries[id]) ELSE 0]

Backed == \A t \in Token : Sum(Owed(t), ContractId) <= balance[t][Self]

\* What is owed on one contract changes to v, and the pool of its token by
\* at least the difference.
Rebalances(t0, id, v) ==
    /\ Owed(t0)' = [Owed(t0) EXCEPT ![id] = v]
    /\ balance'[t0][Self] >= balance[t0][Self] + v - Owed(t0)[id]
    /\ \A t \in Token \ {t0} : /\ Owed(t)' = Owed(t)
                               /\ balance'[t][Self] = balance[t][Self]

-----------------------------------------------------------------------------
(* The invariant Backed. *)

\* What an entry is owed is never negative.
LEMMA OwedType ==
    ASSUME IInv, NEW t \in Token
    PROVE  Owed(t) \in [ContractId -> Nat]
  BY DEF IInv, AllSound, Sound, Owed, Remaining, EscrowEntry, NoEntry, Live

\* The pool starts empty and owes nothing.
LEMMA InitBacked == ASSUME Init, IsFiniteSet(ContractId) PROVE Backed
<1> SUFFICES ASSUME NEW t \in Token
             PROVE  Sum(Owed(t), ContractId) <= balance[t][Self]
  BY DEF Backed
<1>1. \A id \in ContractId : Owed(t)[id] = 0
  BY DEF Init, Owed, NoEntry, Live
<1>2. Sum(Owed(t), ContractId) = 0
  BY <1>1, SumOfZeros
<1> QED
  BY <1>2 DEF Init, Holder

\* The pool's balance is a natural number.
LEMMA PoolType ==
    ASSUME TypeOK, NEW t \in Token
    PROVE  balance[t][Self] \in Nat
<1>1. balance \in [Token -> [Holder -> Nat]] /\ Self \in Holder
  BY DEF TypeOK, Holder
<1> QED
  BY <1>1

\* What is owed on one contract changes, and the pool with it.
LEMMA BackedStep ==
    ASSUME IInv, IInv', IsFiniteSet(ContractId), Backed,
           NEW id \in ContractId, NEW t0 \in Token,
           NEW v \in Nat, Rebalances(t0, id, v)
    PROVE  Backed'
<1>1. ASSUME NEW t \in Token
      PROVE  Sum(Owed(t)', ContractId) <= balance'[t][Self]
  <2>1. CASE t # t0
    BY <2>1 DEF Backed, Rebalances
  <2>2. CASE t = t0
    <3> DEFINE w == Owed(t0)
               bound == balance[t0][Self]
               bound2 == balance'[t0][Self]
    <3>1. w \in [ContractId -> Nat] /\ bound \in Nat /\ bound2 \in Nat
      <4>1. balance' \in [Token -> [Holder -> Nat]] /\ Self \in Holder
        BY DEF IInv, TypeOK, Holder
      <4> QED
        BY <4>1, OwedType, PoolType DEF IInv
    <3>2. Sum(w, ContractId) <= bound
      BY DEF Backed
    <3>3. bound2 >= bound + v - w[id]
      BY DEF Rebalances
    <3>5. /\ Owed(t)' = [w EXCEPT ![id] = v]
          /\ balance'[t][Self] = bound2
      BY <2>2 DEF Rebalances
    <3> HIDE DEF w, bound, bound2
    <3>4. Sum([w EXCEPT ![id] = v], ContractId) <= bound2
      <4>1. Sum([w EXCEPT ![id] = v], ContractId) = Sum(w, ContractId) + v - w[id]
        BY <3>1, SumOfChange
      <4>2. Sum(w, ContractId) \in Nat /\ w[id] \in Nat
        BY <3>1, SumIsNat
      <4> QED
        BY <3>1, <3>2, <3>3, <4>1, <4>2
    <3> QED
      BY <3>4, <3>5
  <2> QED
    BY <2>1, <2>2
<1> QED
  BY <1>1 DEF Backed

\* Holders can only add to the pool.
LEMMA HolderStepBacked ==
    ASSUME IInv, IsFiniteSet(ContractId), Backed,
           Idle, HolderStep
    PROVE  Backed'
<1> SUFFICES ASSUME NEW t \in Token
             PROVE  Sum(Owed(t)', ContractId) <= balance'[t][Self]
  BY DEF Backed
<1>1. Owed(t)' = Owed(t)
  BY DEF Idle, storage, Owed
<1>2. balance[t][Self] \in Nat /\ balance'[t][Self] >= balance[t][Self]
  <2>1. balance \in [Token -> [Holder -> Nat]] /\ Self \in Holder
    BY DEF IInv, TypeOK, Holder
  <2>2. CASE UNCHANGED tokens
    BY <2>1, <2>2 DEF tokens
  <2>3. ASSUME NEW u \in Token, NEW a \in Address, NEW amount \in Amounts,
               Approve(u, a, amount)
        PROVE  balance'[t][Self] >= balance[t][Self]
    BY <2>1, <2>3 DEF Approve
  <2>4. ASSUME NEW u \in Token, NEW a \in Address, NEW amount \in Amounts,
               NEW to \in SpendTo, Spend(u, a, to, amount)
        PROVE  balance'[t][Self] >= balance[t][Self]
    <3>1. /\ a # Self /\ a \in Holder /\ to \in Holder /\ to # a
          /\ amount \in Int /\ amount > 0
          /\ balance[u] \in [Holder -> Nat]
      BY <2>1, <2>4, EscrowAssumption DEF Spend, Holder
    <3>2. balance' = [balance EXCEPT ![u][a] = @ - amount,
                                     ![u][to] = @ + amount]
      BY <2>4 DEF Spend
    <3>3. balance'[t][Self] = IF t = u /\ to = Self
                              THEN balance[t][Self] + amount
                              ELSE balance[t][Self]
      BY <2>1, <3>1, <3>2
    <3> QED
      BY <2>1, <3>1, <3>3
  <2> QED
    BY <2>1, <2>2, <2>3, <2>4 DEF HolderStep
<1>3. Sum(Owed(t), ContractId) <= balance[t][Self]
      /\ Sum(Owed(t), ContractId) \in Nat
  BY OwedType, SumIsNat DEF Backed
<1>4. balance'[t][Self] \in Nat
  <2>1. balance' \in [Token -> [Holder -> Nat]]
    BY HolderStepType DEF IInv
  <2> QED
    BY <2>1 DEF Holder
<1> QED
  <2>1. Sum(Owed(t), ContractId) <= balance'[t][Self]
    BY <1>2, <1>3, <1>4
  <2> QED
    BY <1>1, <2>1

\* fund adds the same amount to the pool and to what it owes.
LEMMA FundStepBacked ==
    ASSUME IInv, IInv', IsFiniteSet(ContractId), Backed,
           NEW id \in ContractId, FundStep(id)
    PROVE  Backed'
<1> PICK terms \in Terms, t \in Token, amount \in Amounts :
        /\ FundError(entries[id], amount) = "Ok"
        /\ Pull(t, terms.client, amount)
        /\ entries' = [entries EXCEPT ![id] = FundedEntry(terms, t, amount)]
  BY DEF FundStep
<1>1. /\ terms.client \in Address /\ terms.client # Self
      /\ amount \in Nat /\ ~Present(entries[id])
  BY EscrowAssumption DEF FundError, Party
<1>2. /\ entries \in [ContractId -> EscrowEntry \cup {NoEntry}]
      /\ balance \in [Token -> [Holder -> Nat]]
      /\ Self \in Holder /\ terms.client \in Holder
  BY <1>1 DEF IInv, TypeOK, Holder
<1>3. balance' = [balance EXCEPT ![t][terms.client] = @ - amount,
                                 ![t][Self] = @ + amount]
  BY DEF Pull
<1>4. /\ balance'[t][Self] = balance[t][Self] + amount
      /\ \A u \in Token \ {t} : balance'[u][Self] = balance[u][Self]
  BY <1>1, <1>2, <1>3
<1>5. /\ entries'[id].status = "Funded" /\ entries'[id].token = t
      /\ entries'[id].total = amount /\ entries'[id].released = 0
  BY <1>2 DEF FundedEntry
<1> DEFINE e2 == FundedEntry(terms, t, amount)
<1>6. /\ Owed(t)' = [Owed(t) EXCEPT ![id] = amount] /\ Owed(t)[id] = 0
      /\ \A u \in Token \ {t} : Owed(u)' = Owed(u)
  <2>1. /\ e2.status \in Live /\ e2.token = t /\ Remaining(e2) = amount
        /\ entries[id].status \notin Live
    BY <1>1 DEF FundedEntry, Remaining, Live, Present
  <2> HIDE DEF e2
  <2>2. entries' = [entries EXCEPT ![id] = e2]
    BY DEF e2
  <2> QED
    BY <1>2, <2>1, <2>2 DEF Owed
<1>8. balance'[t][Self] >= balance[t][Self] + amount - Owed(t)[id]
  BY <1>1, <1>2, <1>4, <1>6
<1>9. Rebalances(t, id, amount)
  BY <1>4, <1>6, <1>8 DEF Rebalances
<1> QED
  BY <1>1, <1>9, BackedStep

\* An Effect takes the same amount from the pool and from what it owes.
LEMMA EffectStepBacked ==
    ASSUME IInv, IInv', IsFiniteSet(ContractId), Backed,
           NEW id \in ContractId, EffectStep(id)
    PROVE  Backed'
<1> PICK op \in EntryPoint, caller \in Address :
        \E e2, p : /\ Effect(entries[id], caller, e2, p)
                   /\ PoolPays(entries[id], p)
                   /\ entries' = [entries EXCEPT ![id] = e2]
  BY DEF EffectStep
<1> PICK e2, p : /\ Effect(entries[id], caller, e2, p)
                 /\ PoolPays(entries[id], p)
                 /\ entries' = [entries EXCEPT ![id] = e2]
  OBVIOUS
<1> DEFINE e == entries[id]
           t == e.token
           v == Outstanding(e2)
<1>1. /\ entries \in [ContractId -> EscrowEntry \cup {NoEntry}]
      /\ balance \in [Token -> [Holder -> Nat]] /\ Self \in Holder
      /\ Sound(e, received[id])
  BY DEF IInv, TypeOK, Holder, AllSound
<1>2. /\ e \in EscrowEntry /\ e2 \in EscrowEntry /\ p \in Paid
      /\ p.freelancer + p.client + v = Outstanding(e)
      /\ e.status \in Live
  BY <1>1, EffectSound
<1>3. SameTerms(e, e2)
  BY <1>1, EffectKinds
<1>4. e2.token = t /\ t \in Token /\ e.freelancer # Self /\ e.client # Self
  BY <1>2, <1>3, EscrowAssumption DEF SameTerms, EscrowEntry
<1>5. p.freelancer \in Nat /\ p.client \in Nat /\ Remaining(e) \in Int
      /\ v \in Int
  BY <1>2 DEF Paid, Outstanding, Remaining, EscrowEntry
<1>6. /\ balance'[t][Self] = balance[t][Self] - (p.freelancer + p.client)
      /\ \A u \in Token \ {t} : balance'[u][Self] = balance[u][Self]
  BY <1>1, <1>4, <1>5 DEF PoolPays
<1>7. /\ Owed(t)' = [Owed(t) EXCEPT ![id] = v]
      /\ Owed(t)[id] = Outstanding(e)
  BY <1>1, <1>2, <1>4 DEF Owed, Outstanding
<1>8. \A u \in Token \ {t} : Owed(u)' = Owed(u)
  BY <1>1, <1>2, <1>4 DEF Owed
<1>9. v \in Nat
  <2>1. Owed(t)' \in [ContractId -> Nat]
    BY <1>4, OwedType DEF IInv, AllSound, Sound, Owed, Remaining,
       EscrowEntry, NoEntry, Live
  <2>2. Owed(t)'[id] = v
    BY <1>7 DEF Owed
  <2> QED
    BY <2>1, <2>2
<1>10. balance'[t][Self] >= balance[t][Self] + v - Owed(t)[id]
  <2>1. balance[t][Self] \in Nat
    BY <1>1, <1>4
  <2> HIDE DEF v, t, e
  <2> QED
    BY <1>2, <1>5, <1>6, <1>7, <2>1
<1>11. Rebalances(t, id, v)
  BY <1>6, <1>7, <1>8, <1>10 DEF Rebalances
<1> HIDE DEF v, t, e
<1> QED
  BY <1>4, <1>9, <1>11, BackedStep

\* So every step keeps the pool equal to, or above, what it owes.
LEMMA NextBacked ==
    ASSUME IsFiniteSet(ContractId), IInv, Backed, [Next]_vars
    PROVE  Backed'
<1>1. IInv'
  BY NextInv
<1>2. CASE Idle /\ HolderStep
  BY <1>2, HolderStepBacked
<1>3. ASSUME NEW id \in ContractId, FundStep(id) PROVE Backed'
  BY <1>1, <1>3, FundStepBacked
<1>4. ASSUME NEW id \in ContractId, EffectStep(id) PROVE Backed'
  BY <1>1, <1>4, EffectStepBacked
<1> QED
  BY <1>2, <1>3, <1>4, NextShape

\* Backed is inductive, for finitely many escrows.
LEMMA AlwaysBacked == ASSUME IsFiniteSet(ContractId) PROVE Spec => []Backed
<1>1. Init => Backed
  BY InitBacked
<1>2. IInv /\ Backed /\ [Next]_vars => Backed'
  BY NextBacked
<1> QED
  BY <1>1, <1>2, Invariance, PTL DEF Spec

\* The sum of PoolSolvent leaves out the zeros of Owed.
LEMMA BackedIsSolvent ==
    ASSUME IInv, IsFiniteSet(ContractId), Backed PROVE PoolSolvent
<1> SUFFICES ASSUME NEW t \in Token
             PROVE  balance[t][Self] >=
                      MapThenSumSet(LAMBDA id : Outstanding(entries[id]),
                                    {id \in ContractId : entries[id].status \in Live
                                                         /\ entries[id].token = t})
  BY DEF PoolSolvent
<1> DEFINE S == {id \in ContractId : entries[id].status \in Live
                                     /\ entries[id].token = t}
           w == [id \in S |-> Outstanding(entries[id])]
           h == CHOOSE g : g = [s \in SUBSET S |->
                    IF s = {} THEN 0
                    ELSE Outstanding(entries[First(s)]) + g[s \ {First(s)}]]
<1>1. MapThenSumSet(LAMBDA id : Outstanding(entries[id]), S) = h[S]
  BY DEF MapThenSumSet, MapThenFoldSet, First
<1>2. IsFiniteSet(S) /\ S \subseteq ContractId
  BY FS_Subset
<1>3. \A g : Body(g, w, S) = [s \in SUBSET S |->
                    IF s = {} THEN 0
                    ELSE Outstanding(entries[First(s)]) + g[s \ {First(s)}]]
  BY FirstIsElement DEF Body
<1>4. h = Body(h, w, S)
  <2>1. PICK k : k = Body(k, w, S)
    BY <1>2, FoldExists
  <2> QED
    BY <1>3, <2>1
<1>5. \A id \in S : w[id] = Owed(t)[id]
  BY DEF Owed, Outstanding
<1>6. Owed(t) \in [ContractId -> Nat]
  BY OwedType
<1> HIDE DEF S, w, h
<1>7. h[S] = Sum(w, S)
  BY <1>2, <1>4, FoldIsSum
<1>8. Sum(w, S) <= Sum(Owed(t), ContractId)
  BY <1>2, <1>5, <1>6, SumMonotone
<1>9. Sum(Owed(t), ContractId) <= balance[t][Self]
  BY DEF Backed
<1>10. /\ Sum(w, S) \in Nat /\ Sum(Owed(t), ContractId) \in Nat
       /\ balance[t][Self] \in Nat
  BY <1>2, <1>5, <1>6, SumIsNat, PoolType DEF IInv
<1>11. balance[t][Self] >= MapThenSumSet(LAMBDA id : Outstanding(entries[id]), S)
  BY <1>1, <1>7, <1>8, <1>9, <1>10
<1> QED
  BY <1>11 DEF S

\* The pool of each token holds what all its live escrows are owed together.
THEOREM Solvency == ASSUME IsFiniteSet(ContractId) PROVE Spec => []PoolSolvent
  BY BackedIsSolvent, AlwaysBacked, Invariance, PTL

-----------------------------------------------------------------------------
(* Consequences: payments go through. *)

\* The pool covers what any one escrow is owed.
LEMMA BackedCovers ==
    ASSUME IInv, IsFiniteSet(ContractId), Backed,
           NEW id \in ContractId,
           entries[id].status \in Live
    PROVE  /\ entries[id] \in EscrowEntry
           /\ Remaining(entries[id]) \in Nat
           /\ balance[entries[id].token][Self] \in Nat
           /\ balance[entries[id].token][Self] >= Remaining(entries[id])
<1> DEFINE e == entries[id]
           t == e.token
           w == Owed(t)
           bound == balance[t][Self]
<1>1. e \in EscrowEntry /\ t \in Token
  BY DEF IInv, AllSound, Sound, NoEntry, Live, EscrowEntry
<1>2. w \in [ContractId -> Nat] /\ bound \in Nat
  BY <1>1, OwedType, PoolType DEF IInv
<1>3. w[id] = Remaining(e)
  BY DEF Owed
<1>4. Sum(w, ContractId) <= bound
  BY <1>1 DEF Backed
<1> HIDE DEF w, bound
<1>5. w[id] <= bound
  <2>1. w[id] <= Sum(w, ContractId) /\ Sum(w, ContractId) \in Nat /\ w[id] \in Nat
    BY <1>2, SumBoundsTerm, SumIsNat
  <2> QED
    BY <1>2, <1>4, <2>1
<1>6. w[id] \in Nat
  BY <1>2
<1> QED
  BY <1>1, <1>2, <1>3, <1>5, <1>6 DEF bound

\* Whatever a successful entry point pays, the pool has.
LEMMA EffectCovered ==
    ASSUME IInv, IsFiniteSet(ContractId), Backed,
           NEW id \in ContractId, NEW caller, NEW e2, NEW p,
           Effect(entries[id], caller, e2, p)
    PROVE  PoolCovers(entries[id], p)
<1>1. Sound(entries[id], received[id])
  BY DEF IInv, AllSound
<1>2. /\ p \in Paid /\ entries[id].status \in Live
      /\ Sound(e2, Add(received[id], p))
      /\ p.freelancer + p.client + Outstanding(e2) = Outstanding(entries[id])
  BY <1>1, EffectSound
<1>3. /\ Remaining(entries[id]) \in Nat
      /\ balance[entries[id].token][Self] \in Nat
      /\ balance[entries[id].token][Self] >= Remaining(entries[id])
  BY <1>2, BackedCovers
<1>4. Outstanding(e2) \in Nat
  BY <1>2 DEF Sound, Outstanding, Remaining, EscrowEntry, NoEntry, Live
<1>5. p.freelancer + p.client \in Nat /\ Outstanding(entries[id]) = Remaining(entries[id])
  BY <1>2 DEF Paid, Outstanding
<1> QED
  BY <1>2, <1>3, <1>4, <1>5 DEF PoolCovers

\* So no entry point but fund ends in a trap.
LEMMA FinishNeverTraps ==
    ASSUME IInv, IsFiniteSet(ContractId), Backed,
           NEW id \in ContractId, NEW op \in EntryPoint,
           NEW caller \in Address, NEW error, NEW e2, NEW p,
           error = "Ok" => Effect(entries[id], caller, e2, p),
           Finish(op, id, caller, error, e2, p)
    PROVE  last' = last \/ last' = Call(op, caller, "Ok")
<1>1. error = "Ok" => PoolCovers(entries[id], p)
  BY EffectCovered
<1> QED
  BY <1>1 DEF Finish, Rejected, vars

\* OnlyFundTraps: release_milestone, release, refund and resolve_dispute
\* never ask the pool for more than it holds, for finitely many escrows.
THEOREM PaymentsNeverTrap ==
    ASSUME IsFiniteSet(ContractId)
    PROVE  Spec => []OnlyFundTraps
<1>1. Init => OnlyFundTraps
  BY DEF Init, OnlyFundTraps
<1>2. ASSUME IInv, Backed, OnlyFundTraps, [Next]_vars
      PROVE  OnlyFundTraps'
  <2> SUFFICES \/ last' = last
               \/ \E op, caller : last' = Call(op, caller, "Ok")
               \/ \E caller, err : last' = Call("fund", caller, err)
    BY <1>2 DEF OnlyFundTraps, Call
  <2>1. CASE UNCHANGED vars
    BY <2>1 DEF vars
  <2>2. ASSUME NEW id \in ContractId, NEW terms \in Terms, NEW t \in Token,
               NEW amount \in Amounts, Fund(id, terms, t, amount)
        PROVE  last' = last \/ \E caller, err : last' = Call("fund", caller, err)
    BY <2>2 DEF Fund, Rejected, Trapped, vars
  <2>3. ASSUME NEW id \in ContractId, NEW caller \in Address,
               NEW amount \in Amounts, ReleaseMilestone(id, caller, amount)
        PROVE  last' = last \/ last' = Call("release_milestone", caller, "Ok")
    <3> DEFINE error == ReleaseMilestoneError(entries[id], caller, amount)
               e2 == ReleaseMilestoneEntry(entries[id], amount)
               p == Payout(amount, 0)
    <3>1. error = "Ok" => Effect(entries[id], caller, e2, p)
      BY EscrowAssumption DEF Effect
    <3>2. Finish("release_milestone", id, caller, error, e2, p)
      BY <2>3 DEF ReleaseMilestone
    <3>3. "release_milestone" \in EntryPoint
      BY DEF EntryPoint
    <3> HIDE DEF error, e2, p
    <3> QED
      BY <1>2, <3>1, <3>2, <3>3, FinishNeverTraps
  <2>4. ASSUME NEW id \in ContractId, NEW caller \in Address,
               Release(id, caller)
        PROVE  last' = last \/ last' = Call("release", caller, "Ok")
    <3> DEFINE error == ReleaseError(entries[id], caller)
               e2 == ReleaseEntry(entries[id])
               p == Payout(Remaining(entries[id]), 0)
    <3>1. error = "Ok" => Effect(entries[id], caller, e2, p)
      BY DEF Effect
    <3>2. Finish("release", id, caller, error, e2, p)
      BY <2>4 DEF Release
    <3>3. "release" \in EntryPoint
      BY DEF EntryPoint
    <3> HIDE DEF error, e2, p
    <3> QED
      BY <1>2, <3>1, <3>2, <3>3, FinishNeverTraps
  <2>5. ASSUME NEW id \in ContractId, NEW caller \in Address,
               Refund(id, caller)
        PROVE  last' = last \/ last' = Call("refund", caller, "Ok")
    <3> DEFINE error == RefundError(entries[id], caller)
               e2 == RefundEntry(entries[id])
               p == Payout(0, Remaining(entries[id]))
    <3>1. error = "Ok" => Effect(entries[id], caller, e2, p)
      BY DEF Effect
    <3>2. Finish("refund", id, caller, error, e2, p)
      BY <2>5 DEF Refund
    <3>3. "refund" \in EntryPoint
      BY DEF EntryPoint
    <3> HIDE DEF error, e2, p
    <3> QED
      BY <1>2, <3>1, <3>2, <3>3, FinishNeverTraps
  <2>6. ASSUME NEW id \in ContractId, NEW caller \in Address,
               Dispute(id, caller)
        PROVE  last' = last \/ last' = Call("dispute", caller, "Ok")
    <3> DEFINE error == DisputeError(entries[id], caller)
               e2 == DisputeEntry(entries[id])
               p == Payout(0, 0)
    <3>1. error = "Ok" => Effect(entries[id], caller, e2, p)
      BY DEF Effect
    <3>2. Finish("dispute", id, caller, error, e2, p)
      BY <2>6 DEF Dispute
    <3>3. "dispute" \in EntryPoint
      BY DEF EntryPoint
    <3> HIDE DEF error, e2, p
    <3> QED
      BY <1>2, <3>1, <3>2, <3>3, FinishNeverTraps
  <2>7. ASSUME NEW id \in ContractId, NEW caller \in Address,
               NEW decision \in Decision, NEW bps \in SplitBps,
               ResolveDispute(id, caller, decision, bps)
        PROVE  last' = last \/ last' = Call("resolve_dispute", caller, "Ok")
    <3> DEFINE error == ResolveError(entries[id], caller, decision, bps)
               e2 == ResolveEntry(entries[id], decision)
               p == ResolvePayout(entries[id], decision, bps)
    <3>1. error = "Ok" => Effect(entries[id], caller, e2, p)
      BY EscrowAssumption DEF Effect
    <3>2. Finish("resolve_dispute", id, caller, error, e2, p)
      BY <2>7 DEF ResolveDispute
    <3>3. "resolve_dispute" \in EntryPoint
      BY DEF EntryPoint
    <3> HIDE DEF error, e2, p
    <3> QED
      BY <1>2, <3>1, <3>2, <3>3, FinishNeverTraps
  <2>8. ASSUME NEW t \in Token, NEW a \in Address, NEW amount \in Amounts,
               \/ Approve(t, a, amount)
               \/ \E to \in SpendTo : Spend(t, a, to, amount)
        PROVE  last' = last
    BY <2>8 DEF Approve, Spend
  <2> QED
    BY <1>2, <2>1, <2>2, <2>3, <2>4, <2>5, <2>6, <2>7, <2>8 DEF Next
<1>3. Spec => []Backed
  BY AlwaysBacked
<1> QED
  BY <1>1, <1>2, <1>3, Invariance, PTL DEF Spec

\* And the admin of a live escrow always has a call that settles it.
THEOREM NoEscrowIsStuck ==
    ASSUME IsFiniteSet(ContractId)
    PROVE  Spec => []AdminCanSettle
<1>1. IInv /\ Backed => AdminCanSettle
  <2> SUFFICES ASSUME IInv, Backed, NEW id \in ContractId,
                      entries[id].status \in Live
               PROVE  LET e == entries[id]
                          rest == Payout(Remaining(e), 0)
                      IN /\ e.status = "Funded" =>
                                ReleaseError(e, e.admin) = "Ok" /\ PoolCovers(e, rest)
                         /\ e.status = "Disputed" =>
                                /\ ResolveError(e, e.admin, "ReleaseToFreelancer", 0) = "Ok"
                                /\ PoolCovers(e, rest)
    BY DEF AdminCanSettle, Live
  <2> DEFINE e == entries[id]
  <2>1. /\ Remaining(e) \in Nat /\ balance[e.token][Self] \in Nat
        /\ balance[e.token][Self] >= Remaining(e)
    BY BackedCovers
  <2>2. PoolCovers(e, Payout(Remaining(e), 0))
    BY <2>1 DEF PoolCovers, Payout
  <2>3. e.status = "Funded" => ReleaseError(e, e.admin) = "Ok"
    BY DEF ReleaseError, AccessError, Present
  <2>4. e.status = "Disputed" =>
           ResolveError(e, e.admin, "ReleaseToFreelancer", 0) = "Ok"
    BY DEF ResolveError, AccessError, Present
  <2> QED
    BY <2>2, <2>3, <2>4
<1>2. Spec => []Backed
  BY AlwaysBacked
<1> QED
  BY <1>1, <1>2, Invariance, PTL

-----------------------------------------------------------------------------
(* Lifetimes.  Archival refuses calls and does nothing else, so whatever   *)
(* holds of Escrow holds of EscrowTtl; and an entry's lifetime and the     *)
(* time since it was written always add up to the threshold.               *)

\* A step of EscrowTtl is a step of Escrow or leaves its state alone.
LEMMA StepIsEscrowStep == [TtlNext]_ttlVars => [Next]_vars
  BY DEF TtlNext, Invoke, LedgerCloses, Restore, ttlVars

\* EscrowTtl implements Escrow: archival refuses calls, it never makes one
\* do anything else.
THEOREM TtlImplementsEscrow == TtlSpec => Spec
<1>1. TtlInit => Init
  BY DEF TtlInit
<1> QED
  BY <1>1, StepIsEscrowStep, PTL DEF TtlSpec, Spec

\* So an escrow whose storage may be archived keeps the promise as well.
THEOREM PromiseKeptThroughArchival == TtlSpec => KeepsPromise
  BY TtlImplementsEscrow, Refinement, PTL

-----------------------------------------------------------------------------
(* The inductive invariant. *)

LongLived(id) ==
    Present(entries[id]) => ttl[id] + idle[id] >= TtlExtendIfBelow

TtlInv ==
    /\ TtlTypeOK
    /\ \A id \in ContractId : LongLived(id)

\* What extend_ttl leaves is bounded by its target or by what was there, and
\* is never short.
LEMMA ExtendedBounds ==
    ASSUME NEW left \in Nat
    PROVE  /\ Extended(left) \in Nat
           /\ Extended(left) >= TtlExtendIfBelow
           /\ Extended(left) \in {left, TtlExtendTo}
  BY TtlAssumption DEF Extended

\* Initially nothing is stored.
LEMMA TtlInitInv == TtlInit => TtlInv
  BY TtlAssumption DEF TtlInit, TtlInv, TtlTypeOK, LongLived, Init, Present, NoEntry

\* An invocation extends what it writes, and what it does not write keeps
\* its lifetime.
LEMMA InvokeInv == ASSUME TtlInv, Invoke PROVE TtlInv'
<1> USE TtlAssumption
<1>1. ASSUME NEW id \in ContractId, id \in Written
      PROVE  /\ ttl'[id] \in Nat /\ idle'[id] = 0
             /\ ttl'[id] <= TtlExtendTo \/ ttl'[id] <= MinTtl
             /\ ttl'[id] >= TtlExtendIfBelow
  <2>1. ttl'[id] = Extended(IF Present(entries[id]) THEN ttl[id] ELSE MinTtl)
    BY <1>1 DEF Invoke, TtlAfterWrite
  <2>2. idle'[id] = 0
    BY <1>1 DEF Invoke
  <2>3. ttl[id] \in Nat /\ (ttl[id] <= TtlExtendTo \/ ttl[id] <= MinTtl)
    BY DEF TtlInv, TtlTypeOK
  <2>4. CASE Present(entries[id])
    BY <2>1, <2>2, <2>3, <2>4, ExtendedBounds
  <2>5. CASE ~Present(entries[id])
    BY <2>1, <2>2, <2>5, ExtendedBounds
  <2> QED
    BY <2>4, <2>5
<1>2. ASSUME NEW id \in ContractId, id \notin Written
      PROVE  ttl'[id] = ttl[id] /\ idle'[id] = idle[id]
             /\ entries'[id] = entries[id]
  BY <1>2 DEF Invoke, Written
<1>3. ttl' \in [ContractId -> Nat] /\ idle' \in [ContractId -> 0 .. TtlExtendIfBelow]
  <2>1. ttl' = [id \in ContractId |-> ttl'[id]]
        /\ idle' = [id \in ContractId |-> idle'[id]]
    BY DEF Invoke
  <2>2. ASSUME NEW id \in ContractId
        PROVE  ttl'[id] \in Nat /\ idle'[id] \in 0 .. TtlExtendIfBelow
    BY <1>1, <1>2 DEF TtlInv, TtlTypeOK
  <2> QED
    BY <2>1, <2>2
<1>4. ASSUME NEW id \in ContractId
      PROVE  /\ ttl'[id] <= TtlExtendTo \/ ttl'[id] <= MinTtl
             /\ Present(entries'[id]) => ttl'[id] + idle'[id] >= TtlExtendIfBelow
  <2>1. CASE id \in Written
    BY <1>1, <2>1
  <2>2. CASE id \notin Written
    BY <1>2, <2>2 DEF TtlInv, TtlTypeOK, LongLived
  <2> QED
    BY <2>1, <2>2
<1> QED
  BY <1>3, <1>4 DEF TtlInv, TtlTypeOK, LongLived

\* A closing ledger takes one from a lifetime and adds one to the time
\* since the last write, as long as that is still counted.
LEMMA LedgerClosesInv == ASSUME TtlInv, LedgerCloses PROVE TtlInv'
<1> USE TtlAssumption
<1>1. ASSUME NEW id \in ContractId
      PROVE  /\ ttl'[id] \in Nat
             /\ ttl'[id] <= TtlExtendTo \/ ttl'[id] <= MinTtl
             /\ idle'[id] \in 0 .. TtlExtendIfBelow
             /\ Present(entries'[id]) => ttl'[id] + idle'[id] >= TtlExtendIfBelow
  <2>1. /\ ttl'[id] = IF ttl[id] > 0 THEN ttl[id] - 1 ELSE 0
        /\ idle'[id] = IF idle[id] < TtlExtendIfBelow THEN idle[id] + 1 ELSE idle[id]
        /\ entries' = entries
    BY DEF LedgerCloses, vars
  <2>2. /\ ttl[id] \in Nat /\ idle[id] \in 0 .. TtlExtendIfBelow
        /\ ttl[id] <= TtlExtendTo \/ ttl[id] <= MinTtl
        /\ Present(entries[id]) => ttl[id] + idle[id] >= TtlExtendIfBelow
    BY DEF TtlInv, TtlTypeOK, LongLived
  <2> QED
    BY <2>1, <2>2
<1>2. /\ ttl' = [id \in ContractId |-> ttl'[id]]
      /\ idle' = [id \in ContractId |-> idle'[id]]
  BY DEF LedgerCloses
<1> QED
  BY <1>1, <1>2 DEF TtlInv, TtlTypeOK, LongLived

\* Only an entry that has reached 0 is restored.
LEMMA RestoreInv ==
    ASSUME TtlInv, NEW id \in ContractId, Restore(id) PROVE TtlInv'
  BY TtlAssumption DEF Restore, Archived, TtlInv, TtlTypeOK, LongLived, vars

\* All of it together is inductive.
LEMMA TtlNextInv == TtlInv /\ [TtlNext]_ttlVars => TtlInv'
<1> SUFFICES ASSUME TtlInv, [TtlNext]_ttlVars PROVE TtlInv'
  OBVIOUS
<1>1. CASE Invoke
  BY <1>1, InvokeInv
<1>2. CASE LedgerCloses
  BY <1>2, LedgerClosesInv
<1>3. CASE \E id \in ContractId : Restore(id)
  BY <1>3, RestoreInv
<1>4. CASE UNCHANGED ttlVars
  BY <1>4 DEF ttlVars, vars, TtlInv, TtlTypeOK, LongLived
<1> QED
  BY <1>1, <1>2, <1>3, <1>4 DEF TtlNext

\* Lifetimes keep their type and none exceeds what the contract pays for.
THEOREM LifetimesBounded == TtlSpec => []TtlTypeOK
<1>1. TtlInv => TtlTypeOK
  BY DEF TtlInv
<1> QED
  BY TtlInitInv, TtlNextInv, <1>1, PTL DEF TtlSpec

\* An escrow written at least once in TTL_EXTEND_IF_BELOW ledgers is never
\* archived, whatever the three lifetimes are.
THEOREM ActiveStayLive == TtlSpec => []ActiveEntriesStayLive
<1>1. TtlInv => ActiveEntriesStayLive
  BY TtlAssumption DEF TtlInv, TtlTypeOK, LongLived, ActiveEntriesStayLive
<1> QED
  BY TtlInitInv, TtlNextInv, <1>1, PTL DEF TtlSpec
=============================================================================
