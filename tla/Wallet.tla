------------------------------- MODULE Wallet -------------------------------
(***************************************************************************)
(* The wallet of the web application: the Zustand store (walletStore.ts)   *)
(* and the hook useStellarWallet, which every wallet component mounts and  *)
(* which shares that one store.  A mount probes the Freighter extension    *)
(* once, to restore a connection silently; the user connects, disconnects  *)
(* and refreshes.  Each is a chain of awaited answers of Freighter or of   *)
(* Horizon, and the chains of all components interleave.                   *)
(*                                                                         *)
(* `status' is a dependency of the probe's effect: when it changes, React  *)
(* runs the clean-up of every mounted probe, which sets its `cancelled'.   *)
(* It does so in a microtask, before any answer of the extension can come  *)
(* in, hence in the same step here.  The error texts are left out.         *)
(***************************************************************************)
EXTENDS Naturals

CONSTANTS
    Mount,    \* mounts of the hook; each happens once
    Call,     \* connect() and refreshBalance() calls running at once
    Key,      \* accounts the user can choose in Freighter
    None,     \* null
    Unknown   \* the balance shown when Horizon has failed

ASSUME WalletAssumption ==
    /\ None \notin Key /\ Unknown \notin Key \cup {None}
    /\ Mount \cap Call = {}

VARIABLES
    status,     \* WalletStatus
    publicKey,
    balance,    \* None, Unknown, or the key whose balance it is
    loading,    \* isLoadingBalance
    chain,      \* the async chain of each mount and call
    asked,      \* history: the user has asked for something
    late        \* history: the last balance was that of another key

store == <<status, publicKey, balance, loading>>
vars == <<store, chain, asked, late>>

Idle == [pc |-> "idle", key |-> None, cancelled |-> FALSE]
Probing == {"installed?", "address"}
Fetching == {p \in Mount \cup Call : chain[p].pc = "balance"}

\* setStatus, and the clean-ups if it changes the status.
ChainsAfter(s, chains) ==
    [p \in DOMAIN chains |->
        IF chains[p].pc \in Probing /\ p \in Mount /\ s # status
        THEN [chains[p] EXCEPT !.cancelled = TRUE] ELSE chains[p]]

At(p, pc) == [chain EXCEPT ![p].pc = pc]

SetStatus(s, chains) ==
    /\ status' = s
    /\ chain' = ChainsAfter(s, chains)
    /\ UNCHANGED <<publicKey, balance, loading>>

\* setConnected(key), then fetchBalance(key) up to its await.
Connected(p, key) ==
    /\ status' = "connected"
    /\ publicKey' = key
    /\ loading' = TRUE
    /\ chain' = ChainsAfter("connected",
                            [chain EXCEPT ![p].pc = "balance", ![p].key = key])
    /\ UNCHANGED balance

-----------------------------------------------------------------------------
(* fetchBalance *)

FetchEnds_NotOnError(p) ==   \* no `finally', no text on failure
    /\ chain[p].pc = "balance"
    /\ \/ balance' = chain[p].key /\ loading' = FALSE
       \/ UNCHANGED <<balance, loading>>
    /\ chain' = [chain EXCEPT ![p] = Idle]
    /\ late' = (chain[p].key # publicKey)
    /\ UNCHANGED <<status, publicKey, asked>>

FetchEnds_KeepsOld(p) ==   \* no text on failure
    /\ chain[p].pc = "balance"
    /\ balance' \in {chain[p].key, balance}
    /\ loading' = FALSE
    /\ chain' = [chain EXCEPT ![p] = Idle]
    /\ late' = (chain[p].key # publicKey)
    /\ UNCHANGED <<status, publicKey, asked>>

\* Horizon answers or fails.
FetchEnds(p) ==
    /\ chain[p].pc = "balance"
    /\ balance' \in {chain[p].key, Unknown}
    /\ loading' = FALSE
    /\ chain' = [chain EXCEPT ![p] = Idle]
    /\ late' = (chain[p].key # publicKey)
    /\ UNCHANGED <<status, publicKey, asked>>

-----------------------------------------------------------------------------
(* The effect: the silent probe of a mount. *)

Mounts(m) ==
    /\ chain[m].pc = "new"
    /\ chain' = At(m, IF status = "idle" THEN "installed?" ELSE "idle")
    /\ UNCHANGED <<store, asked, late>>

Unmounts(m) ==
    /\ chain[m].pc \in Probing /\ ~chain[m].cancelled
    /\ chain' = [chain EXCEPT ![m].cancelled = TRUE]
    /\ UNCHANGED <<store, asked, late>>

Cancelled_Ignored(m) == FALSE   \* without the two tests and their `return'
Cancelled(m) == chain[m].cancelled

\* isConnected answers, or throws, which is as if nothing were installed.
ProbeInstalled(m) ==
    /\ chain[m].pc = "installed?"
    /\ \E installed \in BOOLEAN :
          IF Cancelled(m)
          THEN chain' = At(m, "idle") /\ UNCHANGED store
          ELSE IF installed THEN SetStatus("checking", At(m, "address"))
                            ELSE SetStatus("disconnected", At(m, "idle"))
    /\ UNCHANGED <<asked, late>>

\* getAddress answers with the key if the user has allowed it before.
ProbeAddress(m) ==
    /\ chain[m].pc = "address"
    /\ \E key \in Key \cup {None} :
          IF Cancelled(m)
          THEN chain' = At(m, "idle") /\ UNCHANGED store
          ELSE IF key = None THEN SetStatus("disconnected", At(m, "idle"))
                             ELSE Connected(m, key)
    /\ UNCHANGED <<asked, late>>

-----------------------------------------------------------------------------
(* The user.  A connect button is shown whenever no wallet is connected,   *)
(* on the page of a job even during another attempt.                       *)

Connect(k) ==
    /\ chain[k] = Idle
    /\ status # "connected"
    /\ SetStatus("checking", At(k, "installed?"))
    /\ asked' = TRUE
    /\ UNCHANGED late

ConnectInstalled_Silent(k) ==   \* returns without setStatus
    /\ chain[k].pc = "installed?"
    /\ \E installed \in BOOLEAN :
          chain' = At(k, IF installed THEN "access" ELSE "idle")
    /\ UNCHANGED <<store, asked, late>>

ConnectInstalled(k) ==
    /\ chain[k].pc = "installed?"
    /\ \E installed \in BOOLEAN :
          IF installed THEN chain' = At(k, "access") /\ UNCHANGED store
                       ELSE SetStatus("disconnected", At(k, "idle"))
    /\ UNCHANGED <<asked, late>>

\* The dialogue of Freighter: a key, or the user declines.
ConnectAccess(k) ==
    /\ chain[k].pc = "access"
    /\ \/ \E key \in Key : Connected(k, key)
       \/ SetStatus("disconnected", At(k, "idle"))
    /\ UNCHANGED <<asked, late>>

Disconnect_KeepsStatus ==
    /\ status = "connected"
    /\ publicKey' = None /\ balance' = None /\ loading' = FALSE
    /\ asked' = TRUE
    /\ UNCHANGED <<status, chain, late>>

Disconnect ==
    /\ status = "connected"
    /\ status' = "disconnected"
    /\ publicKey' = None /\ balance' = None /\ loading' = FALSE
    /\ chain' = ChainsAfter("disconnected", chain)
    /\ asked' = TRUE
    /\ UNCHANGED late

RefreshBalance(k) ==
    /\ chain[k] = Idle
    /\ status = "connected"
    /\ loading' = TRUE
    /\ chain' = [chain EXCEPT ![k].pc = "balance", ![k].key = publicKey]
    /\ asked' = TRUE
    /\ UNCHANGED <<status, publicKey, balance, late>>

-----------------------------------------------------------------------------
Init ==
    /\ status = "idle"
    /\ publicKey = None
    /\ balance = None
    /\ loading = FALSE
    /\ chain = [p \in Mount \cup Call |->
                   IF p \in Mount THEN [Idle EXCEPT !.pc = "new"] ELSE Idle]
    /\ asked = FALSE
    /\ late = FALSE

Probe(m) == ProbeInstalled(m) \/ ProbeAddress(m)
Handle(k) == ConnectInstalled(k) \/ ConnectAccess(k)
User(k) == Connect(k) \/ RefreshBalance(k)

Next ==
    \/ \E m \in Mount : Mounts(m) \/ Unmounts(m) \/ Probe(m)
    \/ \E k \in Call : User(k) \/ Handle(k)
    \/ \E p \in Mount \cup Call : FetchEnds(p)
    \/ Disconnect

\* Freighter and Horizon answer, if only with an error; nothing is assumed
\* of the user but that a dialogue is closed at last.
Fairness ==
    /\ \A m \in Mount : WF_vars(Probe(m))
    /\ \A k \in Call : WF_vars(Handle(k))
    /\ \A p \in Mount \cup Call : WF_vars(FetchEnds(p))

Spec == Init /\ [][Next]_vars /\ Fairness

-----------------------------------------------------------------------------
(* Properties. *)

\* Types; and "connected" comes with the key of an account.
TypeOK ==
    /\ status \in {"idle", "checking", "connected", "disconnected"}
    /\ publicKey \in Key \cup {None}
    /\ status = "connected" => publicKey # None
    /\ balance \in Key \cup {None, Unknown}
    /\ {loading, asked, late} \subseteq BOOLEAN
    /\ \A p \in Fetching : chain[p].key \in Key

\* Once the user has acted, no probe of any component, however late its
\* answers, changes the store: the status and the key change by the user's
\* own calls only.
UserDecides ==
    [][asked /\ <<status, publicKey>>' # <<status, publicKey>> =>
          Disconnect \/ \E k \in Call : chain'[k] # chain[k]]_vars

\* When nothing is being fetched the spinner is off (walletStore.ts:29, "True
\* while a balance fetch is in flight": one flag is shared by all fetches,
\* and the first to end clears it), and the balance shown is that of the
\* connected account, or none is known, unless the last answer of Horizon
\* was a late one for an account connected before.
RestingBalance ==
    Fetching = {} =>
        /\ ~loading
        /\ status = "connected" /\ ~late => balance \in {publicKey, Unknown}

\* The spinner of a balance stops.
SpinnerStops == loading ~> ~loading

\* "Connecting..." ends once the user has clicked connect, whatever probes
\* and other attempts are under way.
ClickIsAnswered ==
    \A k \in Call :
        chain[k].pc = "installed?" /\ status = "checking" ~> status # "checking"

\* useStellarWallet.ts:149-150, of the effect: "Silently restore the
\* connection if the user already granted access."  Then a check that is
\* under way comes to a result.
CheckingEnds == status = "checking" ~> status # "checking"
=============================================================================
