------------------------- MODULE NotificationsProofs -------------------------
(***************************************************************************)
(* Theorems about Notifications, for any number of tabs, requests and      *)
(* notifications.  The invariant says of one connection what the shared    *)
(* Subject means to it: an open one always listens to the one Subject      *)
(* there is, so a push reaches it, and a close event ends it.              *)
(***************************************************************************)
EXTENDS Notifications, SumTheorems

Connection ==
    [pc : {"opening", "open", "ended", "closed"}, subject : Conn \cup {None},
     heard : SUBSET Id, list : SUBSET Nat, before : SUBSET Id]

Request == {Idle} \cup [pc : {"mark", "delete"}, id : Id]

Types ==
    /\ row \in [Id -> {"none", "unread", "read", "deleted"}]
    /\ unpushed \subseteq Created
    /\ stream \in Conn \cup {None}
    /\ conn \in [Conn -> Connection]
    /\ req \in [Slot -> Request]
    /\ \A r \in Slot : req[r] # Idle => req[r].id \in Created

\* What has been pushed so far, to whoever was there.
Pushed == Created \ unpushed

Covered(c) ==
    conn[c].list # NotFetched /\ Cardinality(Created) <= Cap =>
        Rows \subseteq conn[c].list \cup conn[c].heard \cup unpushed

\* The invariant of one connection.
ConnOK(c) ==
    /\ conn[c].subject \in {stream, None}
    /\ conn[c].pc # "open" => conn[c].heard = {} /\ conn[c].list = NotFetched
    /\ conn[c].pc = "open" =>
          /\ conn[c].subject # None
          /\ conn[c].before \subseteq Pushed
          /\ conn[c].heard = Pushed \ conn[c].before
          /\ Covered(c)

NInv == Types /\ SubjectIsFreed /\ \A c \in Conn : ConnOK(c)

-----------------------------------------------------------------------------
(* Sets of notifications. *)

\* There are finitely many.
LEMMA IdsAreFinite ==
    ASSUME NEW S \in SUBSET Id PROVE IsFiniteSet(S) /\ Cardinality(S) \in Nat
<1>1. IsFiniteSet(Id)
  BY NotificationsAssumption, FS_Interval DEF Id
<1> QED
  BY <1>1, FS_Subset, FS_CardinalityType

\* A list that is not cut has every row.
LEMMA UncutListHasAll ==
    ASSUME Cardinality(Created) <= Cap PROVE Rows \subseteq FindAll
<1> SUFFICES ASSUME NEW i \in Rows
             PROVE  Cardinality({j \in Rows : j > i}) < Cap
  BY DEF FindAll, Newest
<1> DEFINE Newer == {j \in Rows : j > i}
<1>1. Newer \subseteq Created \ {i} /\ i \in Created /\ Created \subseteq Id
  BY DEF Rows, Created, Id
<1>2. /\ IsFiniteSet(Created) /\ Cardinality(Created) \in Nat
      /\ IsFiniteSet(Created \ {i}) /\ Cardinality(Created \ {i}) \in Nat
      /\ Cardinality(Newer) \in Nat
  <2>1. Created \in SUBSET Id /\ Created \ {i} \in SUBSET Id /\ Newer \in SUBSET Id
    BY <1>1
  <2> QED
    BY <2>1, IdsAreFinite
<1>3. Cardinality(Created \ {i}) = Cardinality(Created) - 1
  BY <1>1, <1>2, FS_RemoveElement
<1>4. Cardinality(Newer) <= Cardinality(Created \ {i})
  BY <1>1, <1>2, FS_Subset
<1> QED
  BY <1>2, <1>3, <1>4, NotificationsAssumption

\* As long as no connection changes, and rows are at most marked or deleted,
\* neither does what a connection is promised.
LEMMA RowsShrink ==
    ASSUME NInv, UNCHANGED <<unpushed, stream, conn>>,
           Rows' \subseteq Rows, Created' = Created
    PROVE  /\ \A c \in Conn : ConnOK(c)'
           /\ SubjectIsFreed' /\ unpushed' \subseteq Created'
  BY DEF NInv, Types, ConnOK, Covered, Pushed, SubjectIsFreed

-----------------------------------------------------------------------------
(* Each action keeps the invariant. *)

\* Nothing is stored and nobody is connected.
LEMMA InitInv == Init => NInv
  BY NotificationsAssumption
  DEF Init, NInv, Types, SubjectIsFreed, ConnOK, AtRest, Created, Connection,
      Request, NotFetched, Id

\* A new row is about to be pushed.
LEMMA InsertInv == ASSUME NInv, Insert PROVE NInv'
<1>1. PICK i \in Id : /\ Created = 1 .. i - 1
                      /\ row' = [row EXCEPT ![i] = "unread"]
                      /\ unpushed' = unpushed \cup {i}
  BY DEF Insert
<1>2. UNCHANGED <<stream, conn, req>>
  BY DEF Insert
<1>3. i \notin Created /\ i \in Nat
  BY <1>1 DEF Id
<1>4. Created' = Created \cup {i} /\ Rows' = Rows \cup {i}
  BY <1>1 DEF Created, Rows, NInv, Types
<1>5. Pushed' = Pushed
  BY <1>1, <1>3, <1>4 DEF Pushed
<1>6. Types'
  BY <1>1, <1>2, <1>4 DEF NInv, Types
<1>7. Cardinality(Created) <= Cardinality(Created')
      /\ {Cardinality(Created), Cardinality(Created')} \subseteq Nat
  <2>1. Created \in SUBSET Id /\ Created' \in SUBSET Id
    BY DEF Created
  <2>2. /\ IsFiniteSet(Created') /\ Cardinality(Created') \in Nat
        /\ Cardinality(Created) \in Nat
    BY <2>1, IdsAreFinite
  <2>3. Created \subseteq Created'
    BY <1>4
  <2> QED
    BY <2>2, <2>3, FS_Subset
<1>8. ASSUME NEW c \in Conn PROVE ConnOK(c)'
  BY <1>1, <1>2, <1>4, <1>5, <1>7, NotificationsAssumption
  DEF NInv, ConnOK, Covered
<1> QED
  BY <1>2, <1>6, <1>8 DEF NInv, SubjectIsFreed

\* A push reaches every open connection, since all listen to one Subject.
LEMMA PushInv == ASSUME NInv, NEW i \in unpushed, Push(i) PROVE NInv'
<1>1. /\ unpushed' = unpushed \ {i}
      /\ conn' = [c \in Conn |->
                    IF c \in Listening THEN [conn[c] EXCEPT !.heard = @ \cup {i}]
                                       ELSE conn[c]]
      /\ UNCHANGED <<row, stream, req>>
  BY DEF Push
<1>2. Created' = Created /\ Rows' = Rows /\ i \in Created /\ i \in Id
  BY <1>1 DEF Created, Rows, NInv, Types
<1>3. Pushed' = Pushed \cup {i} /\ i \notin Pushed
  BY <1>1, <1>2 DEF Pushed
<1>4. ASSUME NEW c \in Conn
      PROVE  /\ conn'[c] \in Connection
             /\ conn'[c].pc = conn[c].pc /\ conn'[c].subject = conn[c].subject
             /\ ConnOK(c)'
  <2>1. conn[c] \in Connection /\ ConnOK(c)
    BY DEF NInv, Types
  <2>2. CASE conn[c].pc = "open"
    <3>1. c \in Listening
      BY <2>1, <2>2 DEF Listening, ConnOK
    <3>2. conn'[c] = [conn[c] EXCEPT !.heard = conn[c].heard \cup {i}]
      BY <1>1, <3>1
    <3> QED
      BY <1>1, <1>2, <1>3, <2>1, <2>2, <3>2 DEF Connection, ConnOK, Covered
  <2>3. CASE conn[c].pc # "open"
    <3>1. conn'[c] = conn[c]
      BY <1>1, <2>3 DEF Listening
    <3> QED
      BY <1>1, <2>1, <2>3, <3>1 DEF ConnOK
  <2> QED
    BY <2>2, <2>3
<1>5. Types'
  BY <1>1, <1>2, <1>4 DEF NInv, Types
<1> QED
  BY <1>1, <1>4, <1>5 DEF NInv, SubjectIsFreed

\* A step that replaces the record of one connection.
LEMMA OneConnection ==
    ASSUME NInv, NEW c \in Conn, NEW rec \in Connection,
           conn' = [conn EXCEPT ![c] = rec],
           rec.pc # "closed",
           UNCHANGED <<row, unpushed, stream, req>>, ConnOK(c)'
    PROVE  NInv'
<1>1. Created' = Created /\ Rows' = Rows /\ Pushed' = Pushed
  BY DEF Created, Rows, Pushed
<1>2. Types'
  BY <1>1 DEF NInv, Types
<1>3. ASSUME NEW d \in Conn PROVE ConnOK(d)'
  <2>1. CASE d = c
    BY <2>1
  <2>2. CASE d # c
    BY <1>1, <2>2 DEF NInv, Types, ConnOK, Covered
  <2> QED
    BY <2>1, <2>2
<1>4. conn'[c].pc # "closed" /\ conn'[c].pc \in {"opening", "open", "ended", "closed"}
  BY DEF NInv, Types, Connection
<1>5. SubjectIsFreed'
  BY <1>4 DEF SubjectIsFreed
<1> QED
  BY <1>2, <1>3, <1>5 DEF NInv

\* A tab takes the Subject there is, or makes the only one.
LEMMA StreamInv == ASSUME NInv, NEW c \in Conn, Stream(c) PROVE NInv'
<1>1. /\ stream' = IF stream = None THEN c ELSE stream
      /\ conn' = [conn EXCEPT ![c] = AtRest("opening", stream')]
      /\ UNCHANGED <<row, unpushed, req>>
  BY DEF Stream
<1>2. Created' = Created /\ Rows' = Rows /\ Pushed' = Pushed
  BY <1>1 DEF Created, Rows, Pushed
<1>3. stream' \in Conn /\ AtRest("opening", stream') \in Connection
  BY <1>1 DEF NInv, Types, AtRest, Connection, NotFetched
<1>4. Types'
  BY <1>1, <1>2, <1>3 DEF NInv, Types
<1>5. conn'[c] = AtRest("opening", stream')
  BY <1>1 DEF NInv, Types
<1>6. ASSUME NEW d \in Conn PROVE ConnOK(d)'
  <2>1. CASE d = c
    BY <1>5, <2>1 DEF ConnOK, AtRest
  <2>2. CASE d # c
    BY <1>1, <1>2, <2>2 DEF NInv, Types, ConnOK, Covered
  <2> QED
    BY <2>1, <2>2
<1>7. SubjectIsFreed'
  BY <1>5 DEF SubjectIsFreed, AtRest
<1> QED
  BY <1>4, <1>6, <1>7 DEF NInv

\* What was pushed before a subscription is not owed to it.
LEMMA SubscribeInv == ASSUME NInv, NEW c \in Conn, Subscribe(c) PROVE NInv'
<1>1. /\ conn[c].pc = "opening" /\ conn[c] \in Connection /\ ConnOK(c)
      /\ UNCHANGED <<row, unpushed, stream, req>>
  BY DEF NInv, Types, Subscribe, memory
<1>2. Created' = Created /\ Rows' = Rows /\ Pushed' = Pushed
  BY <1>1 DEF Created, Rows, Pushed
<1>3. CASE conn[c].subject = None
  <2> DEFINE rec == AtRest("ended", None)
  <2>1. rec \in Connection /\ rec.pc # "closed"
    BY DEF AtRest, Connection, NotFetched
  <2>2. conn' = [conn EXCEPT ![c] = rec]
    BY <1>3 DEF Subscribe
  <2>3. conn'[c] = rec
    BY <2>2 DEF NInv, Types
  <2>4. ConnOK(c)'
    BY <2>3 DEF ConnOK, AtRest
  <2> QED
    BY <1>1, <2>1, <2>2, <2>4, OneConnection
<1>4. CASE conn[c].subject # None
  <2> DEFINE rec == [conn[c] EXCEPT !.pc = "open", !.before = Created \ unpushed]
  <2>1. Created \ unpushed \subseteq Id
    BY DEF Created
  <2>2. rec \in Connection /\ rec.pc # "closed"
    BY <1>1, <2>1 DEF Connection
  <2>3. conn' = [conn EXCEPT ![c] = rec]
    BY <1>4 DEF Subscribe
  <2>4. conn'[c] = rec
    BY <2>3 DEF NInv, Types
  <2>5. /\ conn'[c].subject = conn[c].subject /\ conn'[c].pc = "open"
        /\ conn'[c].heard = conn[c].heard /\ conn'[c].list = conn[c].list
        /\ conn'[c].before = Pushed
    BY <1>1, <2>4 DEF Connection, Pushed
  <2>6. ConnOK(c)'
    BY <1>1, <1>2, <1>4, <2>5 DEF ConnOK, Covered, NotFetched
  <2> QED
    BY <1>1, <2>2, <2>3, <2>6, OneConnection
<1> QED
  BY <1>3, <1>4

\* A close event leaves no Subject and no open connection.
LEMMA CloseInv == ASSUME NInv, NEW c \in Conn, Close(c) PROVE NInv'
<1>1. /\ stream' = None
      /\ conn' = [d \in Conn |-> IF d = c THEN AtRest("closed", None)
                                          ELSE Completed(d)]
      /\ UNCHANGED <<row, unpushed, req>>
  BY DEF Close, RemoveStream
<1>2. Created' = Created
  BY <1>1 DEF Created
<1>3. ASSUME NEW d \in Conn PROVE conn'[d] \in Connection /\ ConnOK(d)'
  <2>1. conn[d] \in Connection /\ ConnOK(d)
    BY DEF NInv, Types
  <2>2. CASE d = c \/ conn[d].subject = stream
    <3>1. PICK pc \in {"opening", "ended", "closed"} : conn'[d] = AtRest(pc, None)
      <4>1. CASE d = c
        BY <1>1, <4>1
      <4>2. CASE d # c /\ d \in Listening
        BY <1>1, <2>2, <4>2 DEF Completed
      <4>3. CASE d # c /\ d \notin Listening
        <5>1. conn[d].pc # "open"
          BY <2>2, <4>3 DEF Listening
        <5> QED
          BY <1>1, <2>1, <2>2, <4>3, <5>1 DEF Completed, Connection
      <4> QED
        BY <4>1, <4>2, <4>3
    <3> QED
      BY <3>1 DEF AtRest, Connection, ConnOK, NotFetched
  <2>3. CASE d # c /\ conn[d].subject # stream
    <3>1. conn'[d] = conn[d]
      BY <1>1, <2>3 DEF Completed
    <3>2. conn[d].subject = None /\ conn[d].pc # "open"
      BY <2>1, <2>3 DEF ConnOK
    <3> QED
      BY <2>1, <3>1, <3>2 DEF ConnOK
  <2> QED
    BY <2>2, <2>3
<1>4. Types'
  BY <1>1, <1>2, <1>3 DEF NInv, Types
<1> QED
  BY <1>1, <1>3, <1>4 DEF NInv, SubjectIsFreed

\* A list fetched on an open stream covers what the stream did not bring.
LEMMA FetchInv == ASSUME NInv, NEW c \in Conn, Fetch(c) PROVE NInv'
<1> DEFINE rec == [conn[c] EXCEPT !.list = FindAll]
<1>1. /\ conn[c].pc = "open" /\ conn[c] \in Connection /\ ConnOK(c)
      /\ conn' = [conn EXCEPT ![c] = rec]
      /\ UNCHANGED <<row, unpushed, stream, req>>
  BY DEF NInv, Types, Fetch, memory
<1>2. Created' = Created /\ Rows' = Rows /\ Pushed' = Pushed
  BY <1>1 DEF Created, Rows, Pushed
<1>3. FindAll \in SUBSET Nat
  BY DEF FindAll, Newest, Rows, Id
<1>4. rec \in Connection /\ rec.pc # "closed"
  BY <1>1, <1>3 DEF Connection
<1>5. conn'[c] = rec
  BY <1>1 DEF NInv, Types
<1>6. ConnOK(c)'
  BY <1>1, <1>2, <1>5, UncutListHasAll DEF ConnOK, Covered, Connection
<1> QED
  BY <1>1, <1>4, <1>6, OneConnection

\* Rows change from unread to read only.
LEMMA MarkAllReadInv == ASSUME NInv, MarkAllRead PROVE NInv'
<1>1. /\ row' = [i \in Id |-> IF i \in Unread THEN "read" ELSE row[i]]
      /\ UNCHANGED <<unpushed, stream, conn, req>>
  BY DEF MarkAllRead, memory
<1>2. Created' = Created /\ Rows' = Rows
  BY <1>1 DEF Created, Rows, Unread
<1>3. Types'
  BY <1>1, <1>2 DEF NInv, Types
<1> QED
  BY <1>1, <1>2, <1>3, RowsShrink DEF NInv

\* A request remembers a row that exists.
LEMMA FindInv ==
    ASSUME NInv, NEW r \in Slot, NEW then \in {"mark", "delete"}, NEW i \in Id,
           Find(r, then, i)
    PROVE  NInv'
<1>1. /\ req' = [req EXCEPT ![r] = [pc |-> then, id |-> i]]
      /\ UNCHANGED <<row, unpushed, stream, conn>> /\ i \in Rows
  BY DEF Find, memory
<1>2. Created' = Created /\ Rows' = Rows /\ i \in Created
  BY <1>1 DEF Created, Rows
<1>3. Types'
  BY <1>1, <1>2 DEF NInv, Types, Request
<1> QED
  BY <1>1, <1>2, <1>3, RowsShrink DEF NInv

\* A mark changes a row that is still there, or nothing.
LEMMA MarkReadInv == ASSUME NInv, NEW r \in Slot, MarkRead(r) PROVE NInv'
<1>1. /\ row' = IF req[r].id \in Rows THEN [row EXCEPT ![req[r].id] = "read"]
                                      ELSE row
      /\ req' = [req EXCEPT ![r] = Idle]
      /\ UNCHANGED <<unpushed, stream, conn>>
  BY DEF MarkRead, memory
<1>2. Created' = Created /\ Rows' = Rows
  BY <1>1 DEF Created, Rows, NInv, Types
<1>3. Types'
  BY <1>1, <1>2 DEF NInv, Types, Request
<1> QED
  BY <1>1, <1>2, <1>3, RowsShrink DEF NInv

\* A deletion takes a row that was created away.
LEMMA DeleteOneInv == ASSUME NInv, NEW r \in Slot, DeleteOne(r) PROVE NInv'
<1>1. /\ row' = [row EXCEPT ![req[r].id] = "deleted"]
      /\ req' = [req EXCEPT ![r] = Idle]
      /\ UNCHANGED <<unpushed, stream, conn>>
      /\ req[r].pc = "delete"
  BY DEF DeleteOne, memory
<1>2. req[r].id \in Created
  BY <1>1 DEF NInv, Types, Idle
<1>3. Created' = Created /\ Rows' \subseteq Rows
  BY <1>1, <1>2 DEF Created, Rows, NInv, Types
<1>4. Types'
  BY <1>1, <1>3 DEF NInv, Types, Request
<1> QED
  BY <1>1, <1>3, <1>4, RowsShrink DEF NInv

\* After a restart nobody is connected.
LEMMA RestartInv == ASSUME NInv, Restart PROVE NInv'
  BY NotificationsAssumption
  DEF Restart, NInv, Types, SubjectIsFreed, ConnOK, AtRest, Created, Connection,
      Request, NotFetched

\* All of it together is inductive.
LEMMA NextInv == NInv /\ [Next]_vars => NInv'
<1> SUFFICES ASSUME NInv, [Next]_vars PROVE NInv'
  OBVIOUS
<1>1. CASE Insert
  BY <1>1, InsertInv
<1>2. CASE \E i \in unpushed : Push(i)
  BY <1>2, PushInv
<1>3. CASE \E c \in Conn : Stream(c)
  BY <1>3, StreamInv
<1>4. CASE \E c \in Conn : Subscribe(c)
  BY <1>4, SubscribeInv
<1>5. CASE \E c \in Conn : Close(c)
  BY <1>5, CloseInv
<1>6. CASE \E c \in Conn : Fetch(c)
  BY <1>6, FetchInv
<1>7. CASE MarkAllRead
  BY <1>7, MarkAllReadInv
<1>8. CASE \E r \in Slot, i \in Id : Find(r, "mark", i) \/ Find(r, "delete", i)
  BY <1>8, FindInv
<1>9. CASE \E r \in Slot : MarkRead(r)
  BY <1>9, MarkReadInv
<1>10. CASE \E r \in Slot : DeleteOne(r)
  BY <1>10, DeleteOneInv
<1>11. CASE Restart
  BY <1>11, RestartInv
<1>12. CASE UNCHANGED vars
  BY <1>12 DEF vars, memory, NInv, Types, SubjectIsFreed, ConnOK, Covered,
     Pushed, Created, Rows
<1> QED
  BY <1>1, <1>2, <1>3, <1>4, <1>5, <1>6, <1>7, <1>8, <1>9, <1>10, <1>11,
     <1>12 DEF Next

\* The invariant holds in every reachable state.
THEOREM Invariance == Spec => []NInv
  BY InitInv, NextInv, PTL DEF Spec

-----------------------------------------------------------------------------
(* The properties. *)

\* Types hold, and there is at most one Subject anybody listens to.
THEOREM OneSubject == Spec => []TypeOK
<1>1. NInv => TypeOK
  <2> SUFFICES ASSUME NInv, NEW c \in Conn
               PROVE  /\ conn[c].pc \in {"opening", "open", "ended", "closed"}
                      /\ conn[c].subject \in {stream, None}
                      /\ conn[c].heard \subseteq Created
    BY DEF NInv, Types, TypeOK
  <2> QED
    BY DEF NInv, Types, ConnOK, Connection, Pushed
<1> QED
  BY Invariance, <1>1, PTL

\* No open stream is deaf, however many tabs share the Subject and whatever
\* the order of their close events.
THEOREM NoOpenStreamIsDeaf == Spec => []OpenStreamHearsAll
<1>1. NInv => OpenStreamHearsAll
  BY DEF NInv, ConnOK, OpenStreamHearsAll, Pushed
<1> QED
  BY Invariance, <1>1, PTL

\* A tab that fetches its list on an open stream misses nothing.
THEOREM NothingIsMissed == Spec => []ListAndStreamCoverAll
<1>1. NInv => ListAndStreamCoverAll
  BY DEF NInv, ConnOK, Covered, ListAndStreamCoverAll
<1> QED
  BY Invariance, <1>1, PTL

\* A Subject always has a connection whose close event will remove it.
THEOREM NoSubjectIsLeft == Spec => []SubjectIsFreed
<1>1. NInv => SubjectIsFreed
  BY DEF NInv
<1> QED
  BY Invariance, <1>1, PTL

-----------------------------------------------------------------------------
(* The badge. *)

\* A set of notifications has an oldest.
LEMMA OldestExists ==
    ASSUME NEW S \in SUBSET Id, S # {} PROVE \E x \in S : \A y \in S : x <= y
<1> DEFINE UpTo(x) == {y \in S : y <= x}
<1>1. IsFiniteSet(S) /\ \A y \in S : y \in Nat
  BY IdsAreFinite DEF Id
<1>2. PICK x \in S : \A y \in S : UpTo(y) \subseteq UpTo(x) => UpTo(y) = UpTo(x)
  <2> DEFINE T == {UpTo(x) : x \in S}
  <2>1. T \in SUBSET (SUBSET S) /\ T # {}
    OBVIOUS
  <2>2. \E s \in T : \A u \in T : u \subseteq s => u = s
    <3> HIDE DEF T
    <3> QED
      BY <1>1, <2>1, SmallestSubset
  <2>3. PICK x \in S : \A u \in T : u \subseteq UpTo(x) => u = UpTo(x)
    BY <2>2
  <2>4. \A y \in S : UpTo(y) \in T
    OBVIOUS
  <2> HIDE DEF T, UpTo
  <2> QED
    BY <2>3, <2>4
<1>3. ASSUME NEW y \in S, y < x PROVE FALSE
  <2>1. x \in Nat /\ y \in Nat
    BY <1>1
  <2>2. \A z \in S : z <= y => z <= x
    BY <1>1, <1>3, <2>1
  <2>3. ~(x <= y) /\ x <= x
    BY <1>3, <2>1
  <2>4. UpTo(y) \subseteq UpTo(x) /\ x \in UpTo(x) /\ x \notin UpTo(y)
    BY <2>2, <2>3
  <2> HIDE DEF UpTo
  <2> QED
    BY <1>2, <2>4
<1> QED
  BY <1>1, <1>3

\* What a cut list has: everything, or Cap of it.
LEMMA NewestCount ==
    ASSUME NEW S \in SUBSET Id
    PROVE  Cardinality(Newest(S)) = IF Cardinality(S) <= Cap THEN Cardinality(S) ELSE Cap
<1> DEFINE Cut(n) == IF n <= Cap THEN n ELSE Cap
           Bad == {R \in SUBSET S : Cardinality(Newest(R)) # Cut(Cardinality(R))}
<1> SUFFICES ASSUME Bad # {} PROVE FALSE
  OBVIOUS
<1>1. PICK R \in Bad : \A u \in Bad : u \subseteq R => u = R
  <2>1. Bad \in SUBSET (SUBSET S) /\ IsFiniteSet(S)
    BY IdsAreFinite
  <2> HIDE DEF Bad
  <2> QED
    BY <2>1, SmallestSubset
<1>2. R \in SUBSET Id /\ Cap \in Nat
  BY NotificationsAssumption
<1>3. R # {}
  <2>1. Newest({}) = {} /\ Cardinality({}) = 0
    BY FS_EmptySet DEF Newest
  <2>2. Cardinality(Newest({})) = Cut(Cardinality({}))
    BY <1>2, <2>1
  <2> QED
    BY <1>1, <2>2
<1>4. PICK x \in R : \A y \in R : x <= y
  BY <1>2, <1>3, OldestExists
<1> DEFINE Q == R \ {x}
<1>5. /\ Q \in SUBSET Id /\ x \in Id /\ IsFiniteSet(R) /\ IsFiniteSet(Q)
      /\ Cardinality(Q) \in Nat /\ Cardinality(R) = Cardinality(Q) + 1
  <2>1. Q \in SUBSET Id /\ x \in Id
    BY <1>2
  <2>2. IsFiniteSet(R) /\ Cardinality(R) \in Nat /\ IsFiniteSet(Q) /\ Cardinality(Q) \in Nat
    BY <1>2, <2>1, IdsAreFinite
  <2>3. Cardinality(Q) = Cardinality(R) - 1
    BY <1>4, <2>2, FS_RemoveElement
  <2> QED
    BY <2>1, <2>2, <2>3
<1>6. Cardinality(Newest(Q)) = Cut(Cardinality(Q))
  BY <1>1, <1>4
<1>7. \A i \in R : i \in Nat /\ x \in Nat /\ ~(x > i)
  BY <1>2, <1>4 DEF Id
<1>8. \A i \in R : {j \in R : j > i} = {j \in Q : j > i}
  BY <1>7
<1>9. {j \in R : j > x} = Q
  BY <1>4, <1>7
<1>10. Newest(R) = Newest(Q) \cup (IF Cardinality(Q) < Cap THEN {x} ELSE {})
  BY <1>4, <1>8, <1>9 DEF Newest
<1>11. x \notin Newest(Q) /\ IsFiniteSet(Newest(Q)) /\ Cardinality(Newest(Q)) \in Nat
  BY <1>5, IdsAreFinite DEF Newest
<1>12. Cardinality(Newest(R)) = IF Cardinality(Q) < Cap THEN Cardinality(Newest(Q)) + 1
                                                        ELSE Cardinality(Newest(Q))
  <2>1. Cardinality(Newest(Q) \cup {x}) = Cardinality(Newest(Q)) + 1
    BY <1>11, FS_AddElement
  <2> QED
    BY <1>10, <2>1
<1>13. Cardinality(Newest(R)) = Cut(Cardinality(R))
  BY <1>2, <1>5, <1>6, <1>12
<1> QED
  BY <1>1, <1>13

\* The number on the badge is that of the unread list, up to the cut.
THEOREM BadgeIsRight == Spec => []BadgeMatchesList
<1>1. BadgeMatchesList
  BY NewestCount DEF BadgeMatchesList, FindUnread, CountUnread, Unread
<1> QED
  BY <1>1, PTL
=============================================================================
