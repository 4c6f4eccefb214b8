-------------------------- MODULE AuthSessionsProofs --------------------------
(***************************************************************************)
(* Theorems about AuthSessions, for any number of tokens and of requests   *)
(* at once.  The argument is about descent: a token carries the version    *)
(* and the root of the one it replaces, and replaces it for good.          *)
(***************************************************************************)
EXTENDS AuthSessions, TLAPS

RefreshRow ==
    [version : Nat, revoked : BOOLEAN, expired : BOOLEAN,
     replacedBy : Token \cup {None}, root : Token]

Request ==
    {Idle} \cup [pc : {"insert", "login", "rotate", "commit", "bump", "revoke",
                       "revoking"},
                 token : Token \cup {None}, version : Nat, seen : SUBSET Token]

Types ==
    /\ accounts \in {0, 1}
    /\ tokenVersion \in Nat
    /\ row \in [Token -> {Absent} \cup RefreshRow]
    /\ access \subseteq 0 .. tokenVersion
    /\ req \in [Slot -> Request]

\* A token ends with the token it replaces, and starts where its login did.
Descent ==
    \A t \in Issued :
        /\ row[t].version <= tokenVersion
        /\ row[t].root \in Issued
        /\ row[row[t].root].version = row[t].version
        /\ row[t].replacedBy # None =>
              /\ row[t].revoked
              /\ row[t].replacedBy \in Issued
              /\ row[row[t].replacedBy].version = row[t].version

\* What a request remembers of its reads.
Remembers ==
    \A r \in Slot : req[r] # Idle =>
        /\ req[r].version <= tokenVersion
        /\ req[r].seen \subseteq Issued
        /\ req[r].pc # "insert" => accounts = 1
        /\ req[r].pc \in {"rotate", "commit"} =>
              /\ req[r].token \in Issued
              /\ row[req[r].token].version = req[r].version

\* A rotation that has the row of its token found it not revoked, and has it
\* alone.
LocksHold ==
    \A r \in Slot : req[r].pc = "commit" =>
        /\ ~row[req[r].token].revoked
        /\ \A s \in Slot : req[s].pc = "commit" /\ req[s].token = req[r].token
                              => s = r

SInv ==
    /\ Types /\ Descent /\ Remembers /\ LocksHold
    /\ OneAccountPerEmail /\ OneTokenPerLogin

-----------------------------------------------------------------------------
(* Rows. *)

\* A row that was stored is not the absence of one.
LEMMA RowIsNotAbsent ==
    /\ \A x \in RefreshRow : x # Absent
    /\ \A v \in Nat, t \in Token : Row(v, t) \in RefreshRow
  BY DEF RefreshRow, Absent, Row

\* An issued token has a row.
LEMMA IssuedRow ==
    ASSUME Types, NEW t \in Issued PROVE t \in Token /\ row[t] \in RefreshRow
  BY DEF Types, Issued

\* What the rest of the state owes to the rows: a step that leaves versions,
\* roots and successors of all tokens alone, and revokes or expires some,
\* keeps all that is said of rows.
LEMMA RowsFade ==
    ASSUME SInv, row' \in [Token -> {Absent} \cup RefreshRow],
           Issued' = Issued,
           \A t \in Issued :
              /\ row'[t].version = row[t].version /\ row'[t].root = row[t].root
              /\ row'[t].replacedBy = row[t].replacedBy
              /\ row[t].revoked => row'[t].revoked,
           UNCHANGED tokenVersion
    PROVE  Descent' /\ OneTokenPerLogin'
<1>1. Descent'
  BY DEF SInv, Descent
<1>2. OneTokenPerLogin'
  BY DEF SInv, OneTokenPerLogin
<1> QED
  BY <1>1, <1>2

\* Locks are kept by a step that takes none and does not revoke what others
\* have locked.
LEMMA LocksKept ==
    ASSUME SInv,
           \A s \in Slot : req'[s].pc = "commit" =>
              /\ req[s].pc = "commit" /\ req'[s].token = req[s].token
              /\ ~row'[req[s].token].revoked
    PROVE  LocksHold'
  BY DEF SInv, LocksHold

-----------------------------------------------------------------------------
(* Each action keeps the invariant. *)

\* Nothing is stored.
LEMMA InitInv == Init => SInv
  BY DEF Init, SInv, Types, Descent, Remembers, LocksHold, OneAccountPerEmail,
     OneTokenPerLogin, Issued, Request, Idle

\* A request that begins has just read what it remembers.
LEMMA BeginInv ==
    ASSUME SInv, NEW r \in Slot, NEW pc \in {"insert", "login", "rotate", "bump"},
           NEW token \in Token \cup {None}, NEW version \in 0 .. tokenVersion,
           Begin(r, pc, token, version),
           pc # "insert" => accounts = 1,
           pc = "rotate" => token \in Issued /\ row[token].version = version
    PROVE  SInv'
<1>1. /\ req' = [req EXCEPT ![r] = [pc |-> pc, token |-> token,
                                     version |-> version, seen |-> {}]]
      /\ UNCHANGED <<accounts, tokenVersion, row, access>>
  BY DEF Begin
<1>2. Issued' = Issued
  BY <1>1 DEF Issued
<1>3. Types'
  BY <1>1 DEF SInv, Types, Request
<1>4. ASSUME NEW s \in Slot, req'[s] # Idle
      PROVE  /\ req'[s].version <= tokenVersion
             /\ req'[s].seen \subseteq Issued
             /\ req'[s].pc # "insert" => accounts = 1
             /\ req'[s].pc \in {"rotate", "commit"} =>
                   req'[s].token \in Issued /\ row[req'[s].token].version = req'[s].version
  <2>1. CASE s = r
    BY <1>1, <2>1 DEF SInv, Types
  <2>2. CASE s # r
    BY <1>1, <1>4, <2>2 DEF SInv, Types, Remembers
  <2> QED
    BY <2>1, <2>2
<1>5. Remembers'
  BY <1>1, <1>2, <1>4 DEF Remembers
<1>6. LocksHold'
  <2>1. \A s \in Slot : req'[s].pc = "commit" => req'[s] = req[s]
    BY <1>1 DEF SInv, Types
  <2> QED
    BY <1>1, <2>1 DEF SInv, LocksHold
<1> QED
  BY <1>1, <1>2, <1>3, <1>5, <1>6
  DEF SInv, Descent, OneAccountPerEmail, OneTokenPerLogin

\* The second insertion of two fails.
LEMMA InsertUserInv == ASSUME SInv, NEW r \in Slot, InsertUser(r) PROVE SInv'
<1>1. /\ req[r].pc = "insert" /\ UNCHANGED <<tokenVersion, row, access>>
      /\ \/ accounts = 0 /\ accounts' = 1 /\ req' = [req EXCEPT ![r].pc = "login"]
         \/ accounts # 0 /\ accounts' = accounts /\ req' = [req EXCEPT ![r] = Idle]
  BY DEF InsertUser, GoTo, Answer
<1>2. Issued' = Issued
  BY <1>1 DEF Issued
<1>3. req[r] \in Request \ {Idle} /\ accounts' = 1
  BY <1>1 DEF SInv, Types, Idle
<1>4. [req[r] EXCEPT !.pc = "login"] \in Request
  BY <1>3 DEF Request
<1>5. Types'
  BY <1>1, <1>3, <1>4 DEF SInv, Types, Request
<1>6. ASSUME NEW s \in Slot, req'[s] # Idle
      PROVE  /\ req'[s].version = req[s].version /\ req'[s].seen = req[s].seen
             /\ req[s] # Idle
             /\ req'[s].pc \in {"rotate", "commit"} => req'[s] = req[s]
  BY <1>1, <1>3, <1>6 DEF SInv, Types, Request
<1>7. Remembers'
  BY <1>1, <1>2, <1>3, <1>6 DEF SInv, Remembers
<1>8. LocksHold'
  BY <1>1, <1>6, LocksKept DEF SInv, LocksHold, Idle
<1> QED
  BY <1>1, <1>2, <1>3, <1>5, <1>7, <1>8
  DEF SInv, Descent, OneAccountPerEmail, OneTokenPerLogin

\* The request in a slot that is in use.
InUse ==
    [pc : {"insert", "login", "rotate", "commit", "bump", "revoke", "revoking"},
     token : Token \cup {None}, version : Nat, seen : SUBSET Token]

\* A request past its registration belongs to an account.
LEMMA Running ==
    ASSUME SInv, NEW r \in Slot,
           req[r].pc \in {"login", "rotate", "commit", "bump", "revoke", "revoking"}
    PROVE  /\ req[r] \in InUse /\ req[r] # Idle /\ accounts = 1
           /\ req[r].seen \subseteq Issued
<1>1. req[r] \in Request /\ req[r] # Idle
  BY DEF SInv, Types, Idle
<1>2. req[r] \in InUse
  BY <1>1 DEF Request, InUse
<1> QED
  BY <1>1, <1>2 DEF SInv, Remembers

\* A step of a request that moves on or is answered, and does not touch the
\* account, a version or a root.
LEMMA Forgets ==
    ASSUME SInv, NEW r \in Slot, NEW x \in {Idle} \cup InUse,
           req[r].pc \in {"login", "rotate", "commit", "bump", "revoke", "revoking"},
           req' = [req EXCEPT ![r] = x],
           x # Idle =>
              /\ x.token = req[r].token /\ x.version = req[r].version
              /\ x.seen \subseteq Issued
              /\ x.pc \in {"rotate", "commit"} => req[r].pc \in {"rotate", "commit"},
           tokenVersion' \in {tokenVersion, tokenVersion + 1},
           UNCHANGED accounts,
           Issued \subseteq Issued',
           \A t \in Issued : row'[t].version = row[t].version
    PROVE  Remembers' /\ req' \in [Slot -> Request] /\ accounts = 1
<1>1. req[r] \in InUse /\ req[r] # Idle /\ accounts = 1
  BY Running
<1>2. req' \in [Slot -> Request]
  BY DEF SInv, Types, Request, InUse
<1>3. \A s \in Slot : req'[s] = IF s = r THEN x ELSE req[s]
  BY DEF SInv, Types
<1>4. tokenVersion <= tokenVersion' /\ tokenVersion \in Nat /\ tokenVersion' \in Nat
  BY DEF SInv, Types
<1>5. ASSUME NEW s \in Slot, req'[s] # Idle
      PROVE  /\ req'[s].version <= tokenVersion'
             /\ req'[s].seen \subseteq Issued'
             /\ req'[s].pc \in {"rotate", "commit"} =>
                   /\ req'[s].token \in Issued'
                   /\ row'[req'[s].token].version = req'[s].version
  <2>1. /\ req[s] # Idle /\ req'[s].version = req[s].version
        /\ req'[s].seen \subseteq Issued
        /\ req'[s].pc \in {"rotate", "commit"} =>
              req[s].pc \in {"rotate", "commit"} /\ req'[s].token = req[s].token
    BY <1>1, <1>3, <1>5 DEF SInv, Remembers
  <2>2. req[s].version \in Nat
    BY <2>1 DEF SInv, Types, Request
  <2> QED
    BY <1>4, <2>1, <2>2 DEF SInv, Remembers
<1>6. Remembers'
  BY <1>1, <1>5 DEF Remembers
<1> QED
  BY <1>1, <1>2, <1>6

\* A login starts a line of its own.
LEMMA LoginCommitInv == ASSUME SInv, NEW r \in Slot, LoginCommit(r) PROVE SInv'
<1>1. /\ req[r].pc = "login" /\ req' = [req EXCEPT ![r] = Idle]
      /\ access' = access \cup {req[r].version}
      /\ UNCHANGED <<accounts, tokenVersion>>
  BY DEF LoginCommit, Answer
<1>2. PICK t \in Token \ Issued : row' = [row EXCEPT ![t] = Row(req[r].version, t)]
  BY DEF LoginCommit
<1>3. req[r].version \in Nat /\ req[r].version <= tokenVersion
  BY <1>1 DEF SInv, Types, Request, Idle, Remembers
<1>4. Row(req[r].version, t) \in RefreshRow /\ Row(req[r].version, t) # Absent
  BY <1>2, <1>3, RowIsNotAbsent
<1>5. /\ row' \in [Token -> {Absent} \cup RefreshRow]
      /\ row'[t] = Row(req[r].version, t)
      /\ \A u \in Token : u # t => row'[u] = row[u]
  BY <1>2, <1>4 DEF SInv, Types
<1>6. Issued' = Issued \cup {t} /\ t \notin Issued
  BY <1>2, <1>4, <1>5 DEF Issued
<1>7. /\ row'[t].version = req[r].version /\ row'[t].root = t
      /\ row'[t].replacedBy = None
  BY <1>5 DEF Row
<1>8. \A u \in Issued : row'[u] = row[u] /\ u # t
  BY <1>5, <1>6 DEF Issued
<1>9. Remembers' /\ req' \in [Slot -> Request] /\ accounts = 1
  BY <1>1, <1>6, <1>8, Forgets
<1>10. Types'
  <2>1. row' \in [Token -> {Absent} \cup RefreshRow]
    BY <1>5
  <2>2. req' \in [Slot -> Request]
    BY <1>9
  <2>3. req[r].version \in 0 .. tokenVersion
    BY <1>3 DEF SInv, Types
  <2>4. access' \subseteq 0 .. tokenVersion'
    <3>1. access' = access \cup {req[r].version} /\ tokenVersion' = tokenVersion
      BY <1>1
    <3>2. access \subseteq 0 .. tokenVersion
      BY DEF SInv, Types
    <3> QED
      BY <2>3, <3>1, <3>2
  <2> QED
    BY <1>1, <2>1, <2>2, <2>4 DEF SInv, Types
<1>11. Descent'
  BY <1>1, <1>3, <1>6, <1>7, <1>8 DEF SInv, Descent
<1>12. LocksHold'
  BY <1>1, <1>8, LocksKept DEF SInv, Types, Idle, Remembers, LocksHold
<1>13. OneTokenPerLogin'
  <2> SUFFICES ASSUME NEW u \in Issued', NEW v \in Issued',
                      row'[u].root = row'[v].root,
                      ~row'[u].revoked, ~row'[v].revoked
               PROVE  u = v
    BY DEF OneTokenPerLogin
  <2>1. \A w \in Issued : row'[w].root # t
    BY <1>6, <1>8 DEF SInv, Descent
  <2>2. CASE u \in Issued /\ v \in Issued
    BY <1>8, <2>2 DEF SInv, OneTokenPerLogin
  <2> QED
    BY <1>6, <1>7, <2>1, <2>2
<1> QED
  BY <1>1, <1>9, <1>10, <1>11, <1>12, <1>13 DEF SInv, OneAccountPerEmail

\* A rotation puts one token in the place of another.
LEMMA RotateCommitInv ==
    ASSUME SInv, NEW r \in Slot, RotateCommit(r) PROVE SInv'
<1> DEFINE t == req[r].token
<1>1. /\ req[r].pc = "commit" /\ req' = [req EXCEPT ![r] = Idle]
      /\ access' = access \cup {req[r].version}
      /\ UNCHANGED <<accounts, tokenVersion>>
  BY DEF RotateCommit, Answer
<1>2. PICK n \in Token \ Issued :
         row' = [row EXCEPT ![n] = Row(req[r].version, row[t].root),
                            ![t].revoked = TRUE, ![t].replacedBy = n]
  BY DEF RotateCommit
<1>3. /\ req[r].version \in Nat /\ req[r].version <= tokenVersion
      /\ t \in Issued /\ t \in Token /\ row[t] \in RefreshRow
      /\ row[t].version = req[r].version /\ ~row[t].revoked
  BY <1>1, IssuedRow DEF SInv, Types, Request, Idle, Remembers, LocksHold
<1>4. n # t /\ row[t].root \in Token
  BY <1>3 DEF RefreshRow
<1>5. Row(req[r].version, row[t].root) \in RefreshRow
      /\ Row(req[r].version, row[t].root) # Absent
  BY <1>3, <1>4, RowIsNotAbsent
<1> DEFINE old == [row[t] EXCEPT !.revoked = TRUE, !.replacedBy = n]
<1>6. old \in RefreshRow /\ old # Absent
  BY <1>3, RowIsNotAbsent DEF RefreshRow
<1>7. /\ row' = [row EXCEPT ![n] = Row(req[r].version, row[t].root), ![t] = old]
  BY <1>2, <1>3, <1>4 DEF SInv, Types
<1>8. /\ row' \in [Token -> {Absent} \cup RefreshRow]
      /\ row'[n] = Row(req[r].version, row[t].root)
      /\ row'[t] = old
      /\ \A u \in Token : u # n /\ u # t => row'[u] = row[u]
  BY <1>3, <1>4, <1>5, <1>6, <1>7 DEF SInv, Types
<1>9. Issued' = Issued \cup {n} /\ n \notin Issued
  BY <1>3, <1>5, <1>6, <1>8 DEF Issued
<1>10. /\ row'[n].version = row[t].version /\ row'[n].root = row[t].root
       /\ row'[n].replacedBy = None
       /\ row'[t].version = row[t].version /\ row'[t].root = row[t].root
       /\ row'[t].replacedBy = n /\ row'[t].revoked
  BY <1>3, <1>8 DEF Row, RefreshRow
<1>11. \A u \in Issued : /\ u \in Token /\ u # n
                         /\ row'[u].version = row[u].version
                         /\ row'[u].root = row[u].root
                         /\ u # t => row'[u] = row[u]
  BY <1>8, <1>9, <1>10 DEF Issued
<1>12. Remembers' /\ req' \in [Slot -> Request] /\ accounts = 1
  BY <1>1, <1>9, <1>11, Forgets
<1>13. Types'
  BY <1>1, <1>3, <1>8, <1>12 DEF SInv, Types
<1>14. Descent'
  <2>1. ASSUME NEW u \in Issued'
        PROVE  /\ row'[u].version <= tokenVersion'
               /\ row'[u].root \in Issued'
               /\ row'[row'[u].root].version = row'[u].version
    BY <1>1, <1>3, <1>9, <1>10, <1>11 DEF SInv, Descent
  <2>2. ASSUME NEW u \in Issued', row'[u].replacedBy # None
        PROVE  /\ row'[u].revoked
               /\ row'[u].replacedBy \in Issued'
               /\ row'[row'[u].replacedBy].version = row'[u].version
    <3>1. CASE u = t
      BY <1>9, <1>10, <3>1
    <3>2. CASE u # t
      <4>1. u \in Issued /\ row'[u] = row[u]
        BY <1>9, <1>10, <1>11, <2>2, <3>2
      <4> QED
        BY <1>9, <1>11, <2>2, <4>1 DEF SInv, Descent
    <3> QED
      BY <3>1, <3>2
  <2> QED
    BY <2>1, <2>2 DEF Descent
<1>15. LocksHold'
  <2>1. ASSUME NEW s \in Slot, req'[s].pc = "commit"
        PROVE  /\ req[s].pc = "commit" /\ req'[s].token = req[s].token
               /\ ~row'[req[s].token].revoked
    <3>1. s # r /\ req'[s] = req[s]
      BY <1>1, <2>1 DEF SInv, Types, Idle
    <3>2. req[s].token # t /\ req[s].token \in Issued
      BY <1>1, <2>1, <3>1 DEF SInv, LocksHold, Remembers, Idle
    <3> QED
      BY <1>11, <2>1, <3>1, <3>2 DEF SInv, LocksHold
  <2> QED
    BY <2>1, LocksKept
<1>16. OneTokenPerLogin'
  <2> SUFFICES ASSUME NEW u \in Issued', NEW v \in Issued',
                      row'[u].root = row'[v].root,
                      ~row'[u].revoked, ~row'[v].revoked
               PROVE  u = v
    BY DEF OneTokenPerLogin
  <2>1. u # t /\ v # t
    BY <1>10
  <2>2. \A w \in Issued : w # t /\ ~row[w].revoked => row[w].root # row[t].root
    BY <1>3 DEF SInv, OneTokenPerLogin
  <2>3. CASE u \in Issued /\ v \in Issued
    BY <1>11, <2>1, <2>3 DEF SInv, OneTokenPerLogin
  <2>4. CASE u = n \/ v = n
    BY <1>9, <1>10, <1>11, <2>1, <2>2, <2>4
  <2> QED
    BY <1>9, <2>3, <2>4
<1> QED
  BY <1>1, <1>12, <1>13, <1>14, <1>15, <1>16 DEF SInv, OneAccountPerEmail

\* A rotation takes the row of its token, or finds that it comes too late;
\* nothing is written yet.
LEMMA RotateInv == ASSUME SInv, NEW r \in Slot, Rotate(r) PROVE SInv'
<1> DEFINE pc == IF row[req[r].token].revoked THEN "bump" ELSE "commit"
<1>0. pc \in {"commit", "bump"}
  OBVIOUS
<1>1. /\ req[r].pc = "rotate" /\ ~Locked(req[r].token)
      /\ row[req[r].token].revoked \/ pc = "commit"
      /\ row[req[r].token].revoked => pc = "bump"
      /\ req' = [req EXCEPT ![r].pc = pc]
      /\ UNCHANGED <<accounts, tokenVersion, row, access>>
  BY DEF Rotate, GoTo
<1>2. Issued' = Issued
  BY <1>1 DEF Issued
<1> DEFINE x == [req[r] EXCEPT !.pc = pc]
<1>4. /\ req[r] \in InUse /\ req[r].seen \subseteq Issued
      /\ req' = [req EXCEPT ![r] = x]
  BY <1>1, Running
<1>5. /\ x \in InUse /\ x.pc = pc /\ x.token = req[r].token
      /\ x.version = req[r].version /\ x.seen = req[r].seen /\ req'[r] = x
  <2>1. req'[r] = x
    BY <1>4 DEF SInv, Types
  <2> QED
    BY <1>4, <2>1 DEF InUse
<1> HIDE DEF x
<1>3. Remembers' /\ req' \in [Slot -> Request]
  BY <1>1, <1>2, <1>4, <1>5, Forgets
<1>6. \A s \in Slot : s # r => req'[s] = req[s]
  BY <1>1 DEF SInv, Types
<1>7. LocksHold'
  <2> SUFFICES ASSUME NEW q \in Slot, req'[q].pc = "commit"
               PROVE  /\ ~row[req'[q].token].revoked
                      /\ \A s \in Slot : req'[s].pc = "commit"
                                          /\ req'[s].token = req'[q].token => s = q
    BY <1>1 DEF LocksHold
  <2>1. CASE q = r
    BY <1>1, <1>5, <1>6, <2>1 DEF Locked
  <2>2. CASE q # r
    <3>1. req[q].pc = "commit" /\ req'[q].token = req[q].token
      BY <1>6, <2>2
    <3>2. req[q].token # req[r].token
      BY <1>1, <3>1 DEF Locked
    <3> QED
      BY <1>5, <1>6, <3>1, <3>2 DEF SInv, LocksHold
  <2> QED
    BY <2>1, <2>2
<1> QED
  BY <1>1, <1>2, <1>3, <1>7
  DEF SInv, Types, Descent, OneAccountPerEmail, OneTokenPerLogin

\* A new version makes every stored one older.
LEMMA BumpVersionInv == ASSUME SInv, NEW r \in Slot, BumpVersion(r) PROVE SInv'
<1>1. /\ req[r].pc = "bump" /\ req' = [req EXCEPT ![r].pc = "revoke"]
      /\ tokenVersion' = tokenVersion + 1
      /\ UNCHANGED <<accounts, row, access>>
  BY DEF BumpVersion, GoTo
<1>2. Issued' = Issued /\ \A t \in Issued : row[t].version \in Nat
  BY <1>1, IssuedRow DEF Issued, SInv, RefreshRow
<1> DEFINE x == [req[r] EXCEPT !.pc = "revoke"]
<1>a. /\ req[r] \in InUse /\ req[r].seen \subseteq Issued
      /\ req' = [req EXCEPT ![r] = x]
  BY <1>1, Running
<1>b. /\ x \in InUse /\ x.pc = "revoke" /\ x.token = req[r].token
      /\ x.version = req[r].version /\ x.seen = req[r].seen /\ req'[r] = x
  BY <1>a DEF SInv, Types, InUse
<1> HIDE DEF x
<1>3. Remembers' /\ req' \in [Slot -> Request]
  BY <1>1, <1>2, <1>a, <1>b, Forgets
<1>4. Types'
  BY <1>1, <1>3 DEF SInv, Types
<1>5. Descent'
  BY <1>1, <1>2 DEF SInv, Types, Descent
<1>6. \A s \in Slot : req'[s].pc = "commit" => req'[s] = req[s]
  BY <1>a, <1>b DEF SInv, Types
<1>7. LocksHold'
  BY <1>1, <1>6, LocksKept DEF SInv, LocksHold
<1> QED
  BY <1>1, <1>2, <1>3, <1>4, <1>5, <1>7 DEF SInv, OneAccountPerEmail, OneTokenPerLogin

\* The update takes its snapshot.
LEMMA RevokeAllInv == ASSUME SInv, NEW r \in Slot, RevokeAll(r) PROVE SInv'
<1> DEFINE seen == {t \in Issued : ~row[t].revoked}
<1>1. /\ req[r].pc = "revoke"
      /\ req' = [req EXCEPT ![r].pc = "revoking", ![r].seen = seen]
      /\ UNCHANGED <<accounts, tokenVersion, row, access>>
  BY DEF RevokeAll
<1>2. Issued' = Issued
  BY <1>1 DEF Issued
<1> DEFINE x == [req[r] EXCEPT !.pc = "revoking", !.seen = seen]
<1>3. req[r] \in InUse /\ req' = [req EXCEPT ![r] = x]
  BY <1>1, Running DEF SInv, Types
<1>a. seen \in SUBSET Token /\ seen \subseteq Issued
  BY DEF Issued
<1> HIDE DEF seen
<1>b. /\ x \in InUse /\ x.pc = "revoking" /\ x.token = req[r].token
      /\ x.version = req[r].version /\ x.seen = seen /\ req'[r] = x
  <2>1. req'[r] = x
    BY <1>3 DEF SInv, Types
  <2> QED
    BY <1>3, <1>a, <2>1 DEF InUse
<1> HIDE DEF x
<1>4. Remembers' /\ req' \in [Slot -> Request]
  BY <1>1, <1>2, <1>3, <1>a, <1>b, Forgets
<1>5. \A s \in Slot : req'[s].pc = "commit" => req'[s] = req[s]
  BY <1>3, <1>b DEF SInv, Types
<1>6. LocksHold'
  BY <1>1, <1>5, LocksKept DEF SInv, LocksHold
<1> QED
  BY <1>1, <1>2, <1>4, <1>6
  DEF SInv, Types, Descent, OneAccountPerEmail, OneTokenPerLogin

\* Revoking all it saw.
LEMMA RevokeAllEndInv == ASSUME SInv, NEW r \in Slot, RevokeAllEnd(r) PROVE SInv'
<1> DEFINE seen == req[r].seen
<1>1. /\ req[r].pc = "revoking" /\ req' = [req EXCEPT ![r] = Idle]
      /\ \A t \in seen : ~Locked(t)
      /\ row' = [t \in Token |-> IF t \in seen
                                 THEN [row[t] EXCEPT !.revoked = TRUE] ELSE row[t]]
      /\ UNCHANGED <<accounts, tokenVersion, access>>
  BY DEF RevokeAllEnd, Answer
<1>2. ASSUME NEW t \in Issued
      PROVE  /\ t \in Token
             /\ row'[t] \in RefreshRow
             /\ row'[t].version = row[t].version /\ row'[t].root = row[t].root
             /\ row'[t].replacedBy = row[t].replacedBy
             /\ row[t].revoked => row'[t].revoked
             /\ t \notin seen => row'[t] = row[t]
  <2>1. t \in Token /\ row[t] \in RefreshRow
    BY IssuedRow DEF SInv
  <2>2. row'[t] = IF t \in seen THEN [row[t] EXCEPT !.revoked = TRUE] ELSE row[t]
    BY <1>1, <2>1
  <2> QED
    BY <2>1, <2>2 DEF RefreshRow
<1>3. seen \subseteq Issued
  BY <1>1 DEF SInv, Remembers, Idle
<1>4. \A t \in Token : t \notin Issued => row'[t] = Absent
  BY <1>1, <1>3 DEF Issued
<1>5. row' \in [Token -> {Absent} \cup RefreshRow]
  BY <1>1, <1>2, <1>4
<1>6. Issued' = Issued
  BY <1>2, <1>4, RowIsNotAbsent DEF Issued
<1>7. Descent' /\ OneTokenPerLogin'
  BY <1>1, <1>2, <1>5, <1>6, RowsFade
<1>8. Remembers' /\ req' \in [Slot -> Request]
  BY <1>1, <1>2, <1>6, Forgets
<1>9. LocksHold'
  <2>1. ASSUME NEW s \in Slot, req'[s].pc = "commit"
        PROVE  /\ req[s].pc = "commit" /\ req'[s].token = req[s].token
               /\ ~row'[req[s].token].revoked
    <3>1. req'[s] = req[s]
      BY <1>1, <2>1 DEF SInv, Types, Idle
    <3>2. req[s].token \in Issued /\ req[s].token \notin seen
      BY <1>1, <2>1, <3>1 DEF SInv, Remembers, Idle, Locked
    <3> QED
      BY <1>2, <2>1, <3>1, <3>2 DEF SInv, LocksHold
  <2> QED
    BY <2>1, LocksKept
<1> QED
  BY <1>1, <1>5, <1>6, <1>7, <1>8, <1>9 DEF SInv, Types, OneAccountPerEmail

\* A token is revoked by logout, or expires.
LEMMA FadeInv ==
    ASSUME SInv, NEW t \in Token, RevokeRefreshToken(t) \/ ExpireRefreshToken(t)
    PROVE  SInv'
<1>1. /\ t \in Issued /\ UNCHANGED <<accounts, tokenVersion, access, req>>
      /\ \/ row' = [row EXCEPT ![t].revoked = TRUE]
         \/ row' = [row EXCEPT ![t].expired = TRUE]
  BY DEF RevokeRefreshToken, ExpireRefreshToken
<1>2. row[t] \in RefreshRow
  BY <1>1, IssuedRow DEF SInv
<1>3. /\ row'[t] \in RefreshRow
      /\ row'[t].version = row[t].version /\ row'[t].root = row[t].root
      /\ row'[t].replacedBy = row[t].replacedBy
      /\ row[t].revoked => row'[t].revoked
  <2>1. row'[t] \in {[row[t] EXCEPT !.revoked = TRUE], [row[t] EXCEPT !.expired = TRUE]}
    BY <1>1 DEF SInv, Types
  <2> QED
    BY <1>2, <2>1 DEF RefreshRow
<1>4. \A u \in Token : u # t => row'[u] = row[u]
  BY <1>1 DEF SInv, Types
<1>5. row' \in [Token -> {Absent} \cup RefreshRow]
  BY <1>1, <1>3, <1>4 DEF SInv, Types
<1>6. Issued' = Issued
  BY <1>1, <1>3, <1>4, RowIsNotAbsent DEF Issued
<1>7. \A u \in Issued :
        /\ row'[u].version = row[u].version /\ row'[u].root = row[u].root
        /\ row'[u].replacedBy = row[u].replacedBy
        /\ row[u].revoked => row'[u].revoked
  BY <1>3, <1>4 DEF Issued
<1>8. Descent' /\ OneTokenPerLogin'
  BY <1>1, <1>5, <1>6, <1>7, RowsFade
<1>9. LocksHold'
  <2>1. ASSUME NEW s \in Slot, req[s].pc = "commit"
        PROVE  ~row'[req[s].token].revoked
    <3>1. req[s].token \in Issued /\ ~row[req[s].token].revoked
      BY <2>1 DEF SInv, Remembers, LocksHold, Idle
    <3>2. CASE req[s].token = t
      <4>1. row' = [row EXCEPT ![t].expired = TRUE]
        BY <2>1, <3>2 DEF RevokeRefreshToken, ExpireRefreshToken, Locked
      <4>2. row'[t].revoked = row[t].revoked
        BY <1>1, <1>2, <4>1 DEF SInv, Types, RefreshRow
      <4> QED
        BY <3>1, <3>2, <4>2
    <3>3. CASE req[s].token # t
      BY <1>4, <3>1, <3>3 DEF Issued
    <3> QED
      BY <3>2, <3>3
  <2> QED
    BY <1>1, <2>1, LocksKept
<1> QED
  BY <1>1, <1>5, <1>6, <1>7, <1>8, <1>9
  DEF SInv, Types, Remembers, OneAccountPerEmail

\* An access token expires.
LEMMA ExpireAccessInv ==
    ASSUME SInv, NEW v \in access, ExpireAccessToken(v) PROVE SInv'
<1>1. access' = access \ {v} /\ UNCHANGED <<accounts, tokenVersion, row, req>>
  BY DEF ExpireAccessToken
<1>2. Issued' = Issued
  BY <1>1 DEF Issued
<1> QED
  BY <1>1, <1>2
  DEF SInv, Types, Descent, Remembers, LocksHold, OneAccountPerEmail,
      OneTokenPerLogin

\* The first steps of requests.
LEMMA RequestInv ==
    ASSUME SInv, NEW r \in Slot,
           Register(r) \/ Login(r) \/ LogoutAll(r) \/ \E t \in Token : Refresh(r, t)
    PROVE  SInv'
<1> USE DEF SInv
<1>1. 0 \in 0 .. tokenVersion /\ tokenVersion \in 0 .. tokenVersion
  BY DEF Types
<1>2. CASE Register(r)
  BY <1>1, <1>2, BeginInv DEF Register
<1>3. CASE Login(r)
  <2>1. accounts = 1
    BY <1>3 DEF Login, Types
  <2> QED
    BY <1>1, <1>3, <2>1, BeginInv DEF Login
<1>4. CASE LogoutAll(r)
  <2>1. accounts = 1
    BY <1>4 DEF LogoutAll, Accepts, OneAccountPerEmail
  <2> QED
    BY <1>1, <1>4, <2>1, BeginInv DEF LogoutAll
<1>5. ASSUME NEW t \in Token, Refresh(r, t) PROVE SInv'
  <2>1. t \in Issued /\ accounts = 1
    BY <1>5 DEF Refresh, OneAccountPerEmail
  <2>2. \/ Begin(r, "bump", t, tokenVersion)
        \/ Begin(r, "rotate", t, tokenVersion) /\ row[t].version = tokenVersion
    BY <1>5 DEF Refresh, Usable
  <2> QED
    BY <1>1, <2>1, <2>2, BeginInv
<1> QED
  BY <1>2, <1>3, <1>4, <1>5

\* All of it together is inductive.
LEMMA NextInv == SInv /\ [Next]_vars => SInv'
<1> SUFFICES ASSUME SInv, [Next]_vars PROVE SInv'
  OBVIOUS
<1>1. CASE \E r \in Slot : Register(r) \/ Login(r) \/ LogoutAll(r)
                           \/ \E t \in Token : Refresh(r, t)
  BY <1>1, RequestInv
<1>2. CASE \E r \in Slot : InsertUser(r)
  BY <1>2, InsertUserInv
<1>3. CASE \E r \in Slot : LoginCommit(r)
  BY <1>3, LoginCommitInv
<1>4. CASE \E r \in Slot : Rotate(r)
  BY <1>4, RotateInv
<1>4c. CASE \E r \in Slot : RotateCommit(r)
  BY <1>4c, RotateCommitInv
<1>5. CASE \E r \in Slot : BumpVersion(r)
  BY <1>5, BumpVersionInv
<1>6. CASE \E r \in Slot : RevokeAll(r)
  BY <1>6, RevokeAllInv
<1>6e. CASE \E r \in Slot : RevokeAllEnd(r)
  BY <1>6e, RevokeAllEndInv
<1>7. CASE \E t \in Token : RevokeRefreshToken(t) \/ ExpireRefreshToken(t)
  BY <1>7, FadeInv
<1>8. CASE \E v \in access : ExpireAccessToken(v)
  BY <1>8, ExpireAccessInv
<1>9. CASE UNCHANGED vars
  BY <1>9 DEF vars, SInv, Types, Descent, Remembers, LocksHold,
     OneAccountPerEmail, OneTokenPerLogin, Issued
<1> QED
  BY <1>1, <1>2, <1>3, <1>4, <1>4c, <1>5, <1>6, <1>6e, <1>7, <1>8, <1>9
  DEF Next, Handle

\* The invariant holds in every reachable state.
THEOREM Invariance == Spec => []SInv
  BY InitInv, NextInv, PTL DEF Spec

-----------------------------------------------------------------------------
(* The properties. *)

\* Types hold, registrations that race make one account, and a rotated
\* token is revoked in favour of one that ends with it.
THEOREM TypeCorrect == Spec => []TypeOK
<1>1. SInv => TypeOK
  <2> SUFFICES ASSUME SInv PROVE TypeOK
    OBVIOUS
  <2>1. ASSUME NEW t \in Issued
        PROVE  /\ row[t].version \in 0 .. tokenVersion
               /\ row[t].revoked \in BOOLEAN /\ row[t].expired \in BOOLEAN
    <3>1. row[t] \in RefreshRow
      BY IssuedRow DEF SInv
    <3> QED
      BY <3>1 DEF SInv, Types, Descent, RefreshRow
  <2>2. ASSUME NEW r \in Slot, req[r] # Idle
        PROVE  req[r].pc \in {"insert", "login", "rotate", "commit",
                              "bump", "revoke", "revoking"}
    BY <2>2 DEF SInv, Types, Request
  <2> QED
    BY <2>1, <2>2 DEF TypeOK, SInv, Types, Descent, Remembers
<1> QED
  BY Invariance, <1>1, PTL

\* Rotation never forks a session.
THEOREM NoFork == Spec => []OneTokenPerLogin
<1>1. SInv => OneTokenPerLogin
  BY DEF SInv
<1> QED
  BY Invariance, <1>1, PTL

\* No token of an earlier login works after the first write of logoutAll.
THEOREM LogoutAllEndsSessions == Spec => []SessionsEndAtLogoutAll
<1>1. SInv => SessionsEndAtLogoutAll
  BY DEF SInv, Descent, SessionsEndAtLogoutAll, Usable
<1> QED
  BY Invariance, <1>1, PTL
=============================================================================
