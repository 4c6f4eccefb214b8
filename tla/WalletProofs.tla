---------------------------- MODULE WalletProofs ----------------------------
(***************************************************************************)
(* Theorems about Wallet, for any number of mounted components, calls and  *)
(* accounts.  The invariant is about the probes: one starts only while the *)
(* status is "idle", and whatever changes that status cancels them all, so *)
(* that past "idle" no running probe may touch the store.                  *)
(***************************************************************************)
EXTENDS Wallet, TLAPS

Chain ==
    [pc : {"new", "idle", "installed?", "address", "access", "balance"},
     key : Key \cup {None}, cancelled : BOOLEAN]

Chains ==
    /\ chain \in [Mount \cup Call -> Chain]
    /\ \A m \in Mount :
          chain[m].pc \in Probing /\ status # "idle" => chain[m].cancelled
    /\ asked => status # "idle"

WInv == TypeOK /\ Chains /\ RestingBalance

-----------------------------------------------------------------------------
(* Each action keeps the invariant. *)

\* The clean-ups change nothing but the flags of the probes, and past a
\* change of the status they have set them all.
LEMMA CleanUps ==
    ASSUME NEW f \in [Mount \cup Call -> Chain], NEW s
    PROVE  /\ ChainsAfter(s, f) \in [Mount \cup Call -> Chain]
           /\ \A p \in Mount \cup Call :
                 /\ ChainsAfter(s, f)[p].pc = f[p].pc
                 /\ ChainsAfter(s, f)[p].key = f[p].key
                 /\ p \in Call => ChainsAfter(s, f)[p] = f[p]
                 /\ f[p].cancelled => ChainsAfter(s, f)[p].cancelled
                 /\ p \in Mount /\ f[p].pc \in Probing /\ s # status =>
                       ChainsAfter(s, f)[p].cancelled
  BY WalletAssumption DEF ChainsAfter, Chain

\* setStatus, when one chain has moved on: a probe does so only while the
\* status changes, or is cancelled already.
LEMMA SetStatusInv ==
    ASSUME WInv, NEW p \in Mount \cup Call, chain[p].pc # "balance",
           NEW pc \in {"idle", "installed?", "address", "access"},
           NEW s \in {"checking", "disconnected"}, SetStatus(s, At(p, pc)),
           p \in Mount /\ pc \in Probing => chain[p].pc \in Probing,
           asked' \in BOOLEAN, late' = late
    PROVE  WInv'
<1> DEFINE f == At(p, pc)
<1>1. f \in [Mount \cup Call -> Chain]
  BY DEF WInv, Chains, At, Chain
<1>2. /\ status' = s /\ chain' = ChainsAfter(s, f)
      /\ UNCHANGED <<publicKey, balance, loading>>
  BY DEF SetStatus
<1>3. \A q \in Mount \cup Call :
         /\ f[q].key = chain[q].key /\ f[q].cancelled = chain[q].cancelled
         /\ f[q].pc = IF q = p THEN pc ELSE chain[q].pc
  BY DEF At, WInv, Chains, Chain
<1> HIDE DEF f
<1>4. /\ chain' \in [Mount \cup Call -> Chain]
      /\ \A q \in Mount \cup Call :
            /\ chain'[q].pc = f[q].pc
            /\ chain'[q].key = f[q].key
            /\ f[q].cancelled => chain'[q].cancelled
            /\ q \in Mount /\ f[q].pc \in Probing /\ s # status =>
                  chain'[q].cancelled
  BY <1>1, <1>2, CleanUps
<1>5. \A q \in Mount \cup Call :
         /\ chain'[q].pc = "balance" <=> chain[q].pc = "balance"
         /\ chain'[q].key = chain[q].key
  BY <1>3, <1>4
<1>6. Fetching' = Fetching
  BY <1>5 DEF Fetching
<1>7. \A m \in Mount : chain'[m].pc \in Probing => chain'[m].cancelled
  <2>1. ASSUME NEW m \in Mount, chain'[m].pc \in Probing PROVE chain'[m].cancelled
    <3>1. f[m].pc \in Probing /\ chain[m].pc \in Probing
      BY <1>3, <1>4, <2>1 DEF Probing
    <3>2. CASE s # status
      BY <1>4, <3>1, <3>2
    <3>3. CASE s = status
      BY <1>3, <1>4, <3>1, <3>3 DEF WInv, Chains
    <3> QED
      BY <3>2, <3>3
  <2> QED
    BY <2>1
<1>8. TypeOK'
  BY <1>2, <1>5, <1>6 DEF WInv, TypeOK, Fetching
<1> QED
  BY <1>2, <1>4, <1>6, <1>7, <1>8
  DEF WInv, Chains, RestingBalance, Probing

\* setConnected, followed by a fetch of the balance.
LEMMA ConnectedInv ==
    ASSUME WInv, NEW p \in Mount \cup Call, NEW key \in Key, Connected(p, key),
           UNCHANGED <<asked, late>>
    PROVE  WInv'
<1> DEFINE f == [chain EXCEPT ![p].pc = "balance", ![p].key = key]
<1>1. f \in [Mount \cup Call -> Chain]
  BY DEF WInv, Chains, Chain
<1>2. /\ status' = "connected" /\ publicKey' = key /\ loading' = TRUE
      /\ chain' = ChainsAfter("connected", f) /\ UNCHANGED balance
  BY DEF Connected
<1>3. \A q \in Mount \cup Call :
         /\ f[q].cancelled = chain[q].cancelled
         /\ f[q].pc = IF q = p THEN "balance" ELSE chain[q].pc
         /\ f[q].key = IF q = p THEN key ELSE chain[q].key
  BY DEF WInv, Chains, Chain
<1> HIDE DEF f
<1>4. /\ chain' \in [Mount \cup Call -> Chain]
      /\ \A q \in Mount \cup Call :
            /\ chain'[q].pc = f[q].pc
            /\ chain'[q].key = f[q].key
            /\ f[q].cancelled => chain'[q].cancelled
            /\ q \in Mount /\ f[q].pc \in Probing /\ "connected" # status =>
                  chain'[q].cancelled
  BY <1>1, <1>2, CleanUps
<1>5. \A q \in Mount \cup Call :
         /\ chain'[q].pc = IF q = p THEN "balance" ELSE chain[q].pc
         /\ chain'[q].key = IF q = p THEN key ELSE chain[q].key
  BY <1>3, <1>4
<1>6. p \in Fetching'
  BY <1>5 DEF Fetching
<1>7. \A m \in Mount : chain'[m].pc \in Probing => chain'[m].cancelled
  <2>1. ASSUME NEW m \in Mount, chain'[m].pc \in Probing PROVE chain'[m].cancelled
    <3>1. f[m].pc \in Probing /\ chain[m].pc \in Probing
      BY <1>3, <1>5, <2>1 DEF Probing
    <3>2. CASE status # "connected"
      BY <1>4, <3>1, <3>2
    <3>3. CASE status = "connected"
      BY <1>3, <1>4, <3>1, <3>3 DEF WInv, Chains
    <3> QED
      BY <3>2, <3>3
  <2> QED
    BY <2>1
<1>8. TypeOK'
  BY <1>2, <1>5, WalletAssumption DEF WInv, TypeOK, Fetching
<1> QED
  BY <1>2, <1>4, <1>6, <1>7, <1>8
  DEF WInv, Chains, RestingBalance

\* A chain moves on and the store is left alone.
LEMMA QuietInv ==
    ASSUME WInv, UNCHANGED <<store, asked, late>>,
           chain' \in [Mount \cup Call -> Chain],
           \A p \in Mount \cup Call :
              /\ chain'[p].pc = "balance" <=> chain[p].pc = "balance"
              /\ chain'[p].key = chain[p].key,
           \A m \in Mount : chain'[m].pc \in Probing /\ status # "idle" =>
                               chain'[m].cancelled
    PROVE  WInv'
<1>1. Fetching' = Fetching
  BY DEF Fetching
<1>2. TypeOK'
  BY <1>1 DEF WInv, TypeOK, store, Fetching
<1> QED
  BY <1>1, <1>2 DEF WInv, Chains, RestingBalance, store

\* Horizon's answer ends one fetch and clears the flag of all.
LEMMA FetchEndsInv ==
    ASSUME WInv, NEW p \in Mount \cup Call, FetchEnds(p) PROVE WInv'
<1>1. /\ chain[p].pc = "balance" /\ p \in Fetching
      /\ balance' \in {chain[p].key, Unknown} /\ loading' = FALSE
      /\ chain' = [chain EXCEPT ![p] = Idle]
      /\ late' = (chain[p].key # publicKey)
      /\ UNCHANGED <<status, publicKey, asked>>
  BY DEF FetchEnds, Fetching
<1>2. chain[p].key \in Key
  BY <1>1 DEF WInv, TypeOK
<1>3. Idle \in Chain /\ Idle.pc = "idle"
  BY DEF Idle, Chain
<1>4. /\ chain' \in [Mount \cup Call -> Chain]
      /\ \A q \in Mount \cup Call : chain'[q] = IF q = p THEN Idle ELSE chain[q]
  BY <1>1, <1>3 DEF WInv, Chains
<1>5. Chains'
  BY <1>1, <1>3, <1>4 DEF WInv, Chains, Probing
<1>6. TypeOK'
  BY <1>1, <1>2, <1>3, <1>4 DEF WInv, TypeOK, Fetching
<1>7. RestingBalance'
  BY <1>1 DEF RestingBalance
<1> QED
  BY <1>5, <1>6, <1>7 DEF WInv

\* The steps of a mount.
LEMMA MountInv ==
    ASSUME WInv, NEW m \in Mount, Mounts(m) \/ Unmounts(m) \/ Probe(m)
    PROVE  WInv'
<1>1. /\ chain \in [Mount \cup Call -> Chain] /\ asked \in BOOLEAN
      /\ chain[m].pc \in Probing /\ status # "idle" => chain[m].cancelled
  BY DEF WInv, Chains, TypeOK
<1>2. ASSUME NEW pc \in {"installed?", "idle"}, chain[m].pc # "balance",
             pc = "idle" \/ status = "idle",
             chain' = At(m, pc), UNCHANGED <<store, asked, late>>
      PROVE  WInv'
  <2>1. chain' \in [Mount \cup Call -> Chain]
    BY <1>1, <1>2 DEF At, Chain
  <2>2. \A q \in Mount \cup Call :
           /\ chain'[q].key = chain[q].key /\ chain'[q].cancelled = chain[q].cancelled
           /\ chain'[q].pc = IF q = m THEN pc ELSE chain[q].pc
    BY <1>1, <1>2 DEF At, Chain
  <2> QED
    BY <1>2, <2>1, <2>2, QuietInv DEF WInv, Chains, Probing
<1>3. CASE Mounts(m)
  BY <1>2, <1>3 DEF Mounts
<1>4. CASE Unmounts(m)
  <2>1. chain' = [chain EXCEPT ![m].cancelled = TRUE]
    BY <1>4 DEF Unmounts
  <2>2. /\ chain' \in [Mount \cup Call -> Chain]
        /\ \A q \in Mount \cup Call :
              /\ chain'[q].key = chain[q].key /\ chain'[q].pc = chain[q].pc
              /\ chain[q].cancelled => chain'[q].cancelled
    BY <1>1, <2>1 DEF Chain
  <2> QED
    BY <1>4, <2>2, QuietInv DEF Unmounts, WInv, Chains
<1>5. CASE ProbeInstalled(m)
  <2>1. chain[m].pc = "installed?" /\ UNCHANGED <<asked, late>>
    BY <1>5 DEF ProbeInstalled
  <2>2. CASE chain' = At(m, "idle") /\ UNCHANGED store
    BY <1>2, <2>1, <2>2
  <2>3. CASE SetStatus("checking", At(m, "address"))
    BY <1>1, <2>1, <2>3, SetStatusInv DEF Probing
  <2>4. CASE SetStatus("disconnected", At(m, "idle"))
    BY <1>1, <2>1, <2>4, SetStatusInv DEF Probing
  <2> QED
    BY <1>5, <2>2, <2>3, <2>4 DEF ProbeInstalled
<1>6. CASE ProbeAddress(m)
  <2>1. chain[m].pc = "address" /\ UNCHANGED <<asked, late>>
    BY <1>6 DEF ProbeAddress
  <2>2. CASE chain' = At(m, "idle") /\ UNCHANGED store
    BY <1>2, <2>1, <2>2
  <2>3. CASE SetStatus("disconnected", At(m, "idle"))
    BY <1>1, <2>1, <2>3, SetStatusInv DEF Probing
  <2>4. ASSUME NEW key \in Key, Connected(m, key) PROVE WInv'
    BY <2>1, <2>4, ConnectedInv
  <2> QED
    BY <1>6, <2>2, <2>3, <2>4 DEF ProbeAddress
<1> QED
  BY <1>3, <1>4, <1>5, <1>6 DEF Probe

\* The user's calls.
LEMMA CallInv ==
    ASSUME WInv, NEW k \in Call, User(k) \/ Handle(k) PROVE WInv'
<1>1. /\ chain \in [Mount \cup Call -> Chain] /\ k \notin Mount /\ asked \in BOOLEAN
  BY WalletAssumption DEF WInv, Chains, TypeOK
<1>2. CASE Connect(k)
  <2>1. /\ chain[k].pc # "balance" /\ asked' = TRUE /\ late' = late
        /\ SetStatus("checking", At(k, "installed?"))
    BY <1>2 DEF Connect, Idle
  <2> QED
    BY <1>1, <2>1, SetStatusInv
<1>3. CASE RefreshBalance(k)
  <2>1. /\ status = "connected" /\ loading' = TRUE /\ asked' = TRUE
        /\ chain' = [chain EXCEPT ![k].pc = "balance", ![k].key = publicKey]
        /\ UNCHANGED <<status, publicKey, balance, late>>
    BY <1>3 DEF RefreshBalance
  <2>2. publicKey \in Key
    BY <2>1 DEF WInv, TypeOK
  <2>3. /\ chain' \in [Mount \cup Call -> Chain]
        /\ \A q \in Mount \cup Call :
              /\ q # k => chain'[q] = chain[q]
              /\ chain'[k].pc = "balance" /\ chain'[k].key = publicKey
    BY <1>1, <2>1, <2>2 DEF Chain
  <2>4. k \in Fetching'
    BY <2>3 DEF Fetching
  <2>5. TypeOK'
    BY <2>1, <2>2, <2>3 DEF WInv, TypeOK, Fetching
  <2> QED
    BY <1>1, <2>1, <2>3, <2>4, <2>5
    DEF WInv, Chains, RestingBalance
<1>4. CASE ConnectInstalled(k)
  <2>1. chain[k].pc = "installed?" /\ UNCHANGED <<asked, late>>
    BY <1>4 DEF ConnectInstalled
  <2>2. CASE chain' = At(k, "access") /\ UNCHANGED store
    <3>1. /\ chain' \in [Mount \cup Call -> Chain]
          /\ \A q \in Mount \cup Call :
                /\ chain'[q].key = chain[q].key
                /\ q # k => chain'[q] = chain[q]
                /\ chain'[k].pc = "access"
      BY <1>1, <2>2 DEF At, Chain
    <3> QED
      BY <1>1, <2>1, <2>2, <3>1, QuietInv DEF WInv, Chains
  <2>3. CASE SetStatus("disconnected", At(k, "idle"))
    BY <1>1, <2>1, <2>3, SetStatusInv
  <2> QED
    BY <1>4, <2>2, <2>3 DEF ConnectInstalled
<1>5. CASE ConnectAccess(k)
  <2>1. chain[k].pc = "access" /\ UNCHANGED <<asked, late>>
    BY <1>5 DEF ConnectAccess
  <2>2. ASSUME NEW key \in Key, Connected(k, key) PROVE WInv'
    BY <2>1, <2>2, ConnectedInv
  <2>3. CASE SetStatus("disconnected", At(k, "idle"))
    BY <1>1, <2>1, <2>3, SetStatusInv
  <2> QED
    BY <1>5, <2>2, <2>3 DEF ConnectAccess
<1> QED
  BY <1>2, <1>3, <1>4, <1>5 DEF User, Handle

\* The user disconnects.
LEMMA DisconnectInv == ASSUME WInv, Disconnect PROVE WInv'
<1>1. /\ status' = "disconnected" /\ publicKey' = None /\ balance' = None
      /\ loading' = FALSE /\ asked' = TRUE /\ late' = late
      /\ status = "connected" /\ chain' = ChainsAfter("disconnected", chain)
  BY DEF Disconnect
<1>2. /\ chain' \in [Mount \cup Call -> Chain]
      /\ \A q \in Mount \cup Call :
            /\ chain'[q].pc = chain[q].pc /\ chain'[q].key = chain[q].key
            /\ q \in Mount /\ chain[q].pc \in Probing => chain'[q].cancelled
  <2> PICK f : f = chain
    OBVIOUS
  <2>1. f \in [Mount \cup Call -> Chain] /\ chain' = ChainsAfter("disconnected", f)
    BY <1>1 DEF WInv, Chains
  <2>2. "disconnected" # status
    BY <1>1
  <2> QED
    BY <2>1, <2>2, CleanUps
<1>3. TypeOK'
  BY <1>1, <1>2 DEF WInv, TypeOK, Fetching
<1> QED
  BY <1>1, <1>2, <1>3 DEF WInv, Chains, RestingBalance

\* The invariant holds at first, and every step keeps it.
THEOREM Invariance == Spec => []WInv
<1>1. Init => WInv
  <2> SUFFICES ASSUME Init PROVE WInv
    OBVIOUS
  <2>1. /\ chain \in [Mount \cup Call -> Chain]
        /\ \A p \in Mount \cup Call : chain[p].pc \in {"new", "idle"}
    BY DEF Init, Idle, Chain
  <2>2. Fetching = {} /\ TypeOK
    BY <2>1 DEF Init, TypeOK, Fetching
  <2> QED
    BY <2>1, <2>2 DEF Init, WInv, Chains, Probing, RestingBalance
<1>2. WInv /\ [Next]_vars => WInv'
  <2> SUFFICES ASSUME WInv, [Next]_vars PROVE WInv'
    OBVIOUS
  <2>1. CASE Next
    BY <2>1, MountInv, CallInv, FetchEndsInv, DisconnectInv DEF Next
  <2>2. CASE UNCHANGED vars
    BY <2>2, QuietInv DEF vars, WInv, Chains
  <2> QED
    BY <2>1, <2>2
<1> QED
  BY <1>1, <1>2, PTL DEF Spec

-----------------------------------------------------------------------------
(* What follows from it. *)

\* Types; a connected wallet has a key, and so has every fetch.
THEOREM TypeCorrect == Spec => []TypeOK
<1>1. WInv => TypeOK
  BY DEF WInv
<1> QED
  BY <1>1, Invariance, PTL

\* At rest the spinner is off and the balance is that of the connected account, or unknown, unless
\* a late answer came last.
THEOREM BalanceAtRest == Spec => []RestingBalance
<1>1. WInv => RestingBalance
  BY DEF WInv
<1> QED
  BY <1>1, Invariance, PTL

\* Once the user has acted, only the user's calls change status and key.
THEOREM UserHasTheSay == Spec => UserDecides
<1> DEFINE Decided ==
        asked /\ <<status, publicKey>>' # <<status, publicKey>> =>
           Disconnect \/ \E k \in Call : chain'[k] # chain[k]
<1>1. WInv /\ [Next]_vars => [Decided]_vars
  <2> SUFFICES ASSUME WInv, Next, asked,
                      <<status, publicKey>>' # <<status, publicKey>>
               PROVE  Disconnect \/ \E k \in Call : chain'[k] # chain[k]
    OBVIOUS
  <2>1. /\ chain \in [Mount \cup Call -> Chain] /\ status # "idle"
        /\ \A m \in Mount : chain[m].pc \in Probing => chain[m].cancelled
    BY DEF WInv, Chains
  <2>2. ASSUME NEW m \in Mount, Mounts(m) \/ Unmounts(m) \/ Probe(m) PROVE FALSE
    <3>1. UNCHANGED store
      BY <2>1, <2>2 DEF Mounts, Unmounts, Probe, ProbeInstalled, ProbeAddress,
         Cancelled, Probing
    <3> QED
      BY <3>1 DEF store
  <2>3. ASSUME NEW p \in Mount \cup Call, FetchEnds(p) PROVE FALSE
    BY <2>3 DEF FetchEnds
  <2>4. ASSUME NEW k \in Call, User(k) \/ Handle(k) PROVE chain'[k] # chain[k]
    <3>1. ASSUME NEW pc, chain[k].pc # pc, NEW s, SetStatus(s, At(k, pc)),
                 pc \in {"idle", "installed?"}
          PROVE  chain'[k] # chain[k]
      <4> DEFINE f == At(k, pc)
      <4>1. f \in [Mount \cup Call -> Chain] /\ f[k].pc = pc
        BY <2>1, <3>1 DEF At, Chain
      <4>2. chain' = ChainsAfter(s, f)
        BY <3>1 DEF SetStatus
      <4> HIDE DEF f
      <4>3. chain'[k].pc = pc
        BY <4>1, <4>2, CleanUps
      <4> QED
        BY <3>1, <4>3
    <3>2. CASE Connect(k)
      <4>1. chain[k].pc # "installed?" /\ SetStatus("checking", At(k, "installed?"))
        BY <3>2 DEF Connect, Idle
      <4> QED
        BY <3>1, <4>1
    <3>3. CASE RefreshBalance(k)
      BY <3>3 DEF RefreshBalance
    <3>4. CASE ConnectInstalled(k)
      <4>1. chain[k].pc = "installed?"
        BY <3>4 DEF ConnectInstalled
      <4>2. SetStatus("disconnected", At(k, "idle"))
        BY <3>4 DEF ConnectInstalled, store
      <4> QED
        BY <3>1, <4>1, <4>2
    <3>5. CASE ConnectAccess(k)
      <4>1. chain[k].pc = "access"
        BY <3>5 DEF ConnectAccess
      <4>2. CASE SetStatus("disconnected", At(k, "idle"))
        BY <3>1, <4>1, <4>2
      <4>3. ASSUME NEW key \in Key, Connected(k, key) PROVE chain'[k] # chain[k]
        <5> DEFINE f == [chain EXCEPT ![k].pc = "balance", ![k].key = key]
        <5>1. f \in [Mount \cup Call -> Chain] /\ f[k].pc = "balance"
          BY <2>1 DEF Chain
        <5>2. chain' = ChainsAfter("connected", f)
          BY <4>3 DEF Connected
        <5> HIDE DEF f
        <5>3. chain'[k].pc = "balance"
          BY <5>1, <5>2, CleanUps
        <5> QED
          BY <4>1, <5>3
      <4> QED
        BY <3>5, <4>2, <4>3 DEF ConnectAccess
    <3> QED
      BY <2>4, <3>2, <3>3, <3>4, <3>5 DEF User, Handle
  <2> QED
    BY <2>2, <2>3, <2>4 DEF Next
<1> QED
  BY <1>1, Invariance, PTL DEF Spec, UserDecides
=============================================================================
