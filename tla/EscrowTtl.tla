------------------------------ MODULE EscrowTtl ------------------------------
(***************************************************************************)
(* Escrow with the lifetime of its storage.  A Soroban persistent entry    *)
(* has a time to live in ledgers.  One that reaches 0 is archived: no      *)
(* invocation can read or write it, and nobody can create it anew, until a *)
(* transaction restores it.  Every entry point that writes an entry calls  *)
(* extend_ttl on it; nothing else in lib.rs does.                          *)
(***************************************************************************)
EXTENDS Escrow

CONSTANTS
    TtlExtendTo,       \* TTL_EXTEND_TO
    TtlExtendIfBelow,  \* TTL_EXTEND_IF_BELOW
    MinTtl             \* what the network gives a new or a restored entry

ASSUME TtlAssumption ==
    /\ {TtlExtendTo, TtlExtendIfBelow, MinTtl} \subseteq Nat \ {0}
    /\ TtlExtendIfBelow <= TtlExtendTo

VARIABLES
    ttl,   \* ledgers each entry has left
    idle   \* history: ledgers since the entry was written, up to
           \* TtlExtendIfBelow

ttlVars == <<vars, ttl, idle>>

Archived(id) == Present(entries[id]) /\ ttl[id] = 0

\* extend_ttl(key, TTL_EXTEND_IF_BELOW, TTL_EXTEND_TO), as the host does it.
Extended(left) == IF left <= TtlExtendIfBelow THEN TtlExtendTo ELSE left

TtlAfterWrite_OnlyFund(id) ==   \* the extension forgotten in later writes
    IF Present(entries[id]) THEN ttl[id] ELSE Extended(MinTtl)

TtlAfterWrite(id) ==
    Extended(IF Present(entries[id]) THEN ttl[id] ELSE MinTtl)

Written == {id \in ContractId : entries'[id] # entries[id]}

\* Whatever an entry point or a token holder does, with the ledger entries
\* it needs at hand.
Invoke ==
    /\ Next
    /\ \A id \in Written : ~Archived(id)
    /\ ttl' = [id \in ContractId |->
                  IF id \in Written THEN TtlAfterWrite(id) ELSE ttl[id]]
    /\ idle' = [id \in ContractId |-> IF id \in Written THEN 0 ELSE idle[id]]

\* A ledger closes.
LedgerCloses ==
    /\ ttl' = [id \in ContractId |-> IF ttl[id] > 0 THEN ttl[id] - 1 ELSE 0]
    /\ idle' = [id \in ContractId |->
                   IF idle[id] < TtlExtendIfBelow THEN idle[id] + 1 ELSE idle[id]]
    /\ UNCHANGED vars

\* RestoreFootprint, by anyone.
Restore(id) ==
    /\ Archived(id)
    /\ ttl' = [ttl EXCEPT ![id] = MinTtl]
    /\ UNCHANGED <<vars, idle>>

TtlInit ==
    /\ Init
    /\ ttl = [id \in ContractId |-> 0]
    /\ idle = [id \in ContractId |-> 0]

TtlNext == Invoke \/ LedgerCloses \/ \E id \in ContractId : Restore(id)

TtlSpec == TtlInit /\ [][TtlNext]_ttlVars

-----------------------------------------------------------------------------
(* Properties.  Those of Escrow are checked with this specification too.   *)

\* Types; and no lifetime is longer than what the contract pays for.
TtlTypeOK ==
    /\ ttl \in [ContractId -> Nat]
    /\ \A id \in ContractId : ttl[id] <= TtlExtendTo \/ ttl[id] <= MinTtl
    /\ idle \in [ContractId -> 0 .. TtlExtendIfBelow]

\* lib.rs:341, "Refresh TTL so active entries don't expire": an escrow that
\* is written at least once in TTL_EXTEND_IF_BELOW ledgers is never
\* archived, whichever entry points write it and however the ledgers fall
\* between them, although a write extends only a lifetime that has become
\* short.
ActiveEntriesStayLive ==
    \A id \in ContractId :
        Present(entries[id]) /\ idle[id] < TtlExtendIfBelow => ttl[id] > 0
=============================================================================
