--------------------------- MODULE EscrowPromise ---------------------------
(***************************************************************************)
(* What the escrow promises its users, whatever its entry points and error *)
(* codes are: a deposit is made once per contract; it leaves in payments   *)
(* to the freelancer and in one closing division between the two parties;  *)
(* after a freeze only the closing division is left; and a closed escrow   *)
(* never changes again.  Escrow implements this machine.                   *)
(***************************************************************************)
EXTENDS Integers

CONSTANTS
    ContractId,
    Deposits    \* the amounts a client may lock

VARIABLES
    phase,         \* "empty", "held", "frozen" or "closed"
    deposit,       \* what the client locked
    toFreelancer,  \* what the freelancer was paid of it
    toClient       \* what went back to the client

vars == <<phase, deposit, toFreelancer, toClient>>

Phase == {"empty", "held", "frozen", "closed"}

\* What is still locked for id.
Locked(id) == deposit[id] - toFreelancer[id] - toClient[id]

Deposit(id, amount) ==
    /\ phase[id] = "empty"
    /\ phase' = [phase EXCEPT ![id] = "held"]
    /\ deposit' = [deposit EXCEPT ![id] = amount]
    /\ UNCHANGED <<toFreelancer, toClient>>

\* A payment leaves something locked: one that does not closes the escrow.
Pay(id, amount) ==
    /\ phase[id] = "held"
    /\ toFreelancer' = [toFreelancer EXCEPT ![id] = @ + amount]
    /\ UNCHANGED <<phase, deposit, toClient>>

Freeze(id) ==
    /\ phase[id] = "held"
    /\ phase' = [phase EXCEPT ![id] = "frozen"]
    /\ UNCHANGED <<deposit, toFreelancer, toClient>>

\* All that is locked leaves at once.  Only a frozen escrow may be divided:
\* without a dispute one side gets everything.
Close(id, share) ==
    /\ phase[id] \in {"held", "frozen"}
    /\ phase[id] = "held" => share \in {0, Locked(id)}
    /\ phase' = [phase EXCEPT ![id] = "closed"]
    /\ toFreelancer' = [toFreelancer EXCEPT ![id] = @ + share]
    /\ toClient' = [toClient EXCEPT ![id] = @ + Locked(id) - share]
    /\ UNCHANGED deposit

Init ==
    /\ phase = [id \in ContractId |-> "empty"]
    /\ deposit = [id \in ContractId |-> 0]
    /\ toFreelancer = [id \in ContractId |-> 0]
    /\ toClient = [id \in ContractId |-> 0]

Next ==
    \E id \in ContractId :
        \/ \E amount \in Deposits : Deposit(id, amount)
        \/ \E amount \in 1 .. Locked(id) - 1 : Pay(id, amount)
        \/ Freeze(id)
        \/ \E share \in 0 .. Locked(id) : Close(id, share)

Spec == Init /\ [][Next]_vars
=============================================================================
