---------------------------- MODULE Notifications ----------------------------
(***************************************************************************)
(* The notifications of one user: rows of the table Notification, and the  *)
(* event streams (SSE) of the user's tabs, which share one Subject kept in *)
(* the memory of the process.  A notification is stored, then pushed; the  *)
(* close event of a connection removes whatever Subject there is by then.  *)
(***************************************************************************)
EXTENDS Naturals, FiniteSets

CONSTANTS
    Conn,     \* the tabs of the user, each with one connection at a time
    Slot,     \* PATCH :id/read and DELETE :id requests served at once
    MaxId,    \* bound: notifications created
    Cap,      \* what findAll takes at most
    None

ASSUME NotificationsAssumption ==
    /\ IsFiniteSet(Conn) /\ IsFiniteSet(Slot)
    /\ {MaxId, Cap} \subseteq Nat
    /\ None \notin Conn

VARIABLES
    row,       \* per id, in the order of createdAt: "none", "unread", "read",
               \* "deleted"
    unpushed,  \* rows whose create() has not come to its push
    stream,    \* streams.get(userId): the tab that made it, or None
    conn,      \* per tab: where its connection stands and the Subject it
               \* took, named like the tab that made it, None once completed;
               \* while it is open also what it was sent (heard), the list
               \* its tab has fetched since, and, as history, what had been
               \* pushed before it opened
    req        \* the request in each slot

memory == <<unpushed, stream>>
vars == <<row, memory, conn, req>>

Id == 1 .. MaxId
Idle == [pc |-> "idle"]
NotFetched == {0}
AtRest(pc, subject) == [pc |-> pc, subject |-> subject, heard |-> {},
                        list |-> NotFetched, before |-> {}]
Rows == {i \in Id : row[i] \in {"unread", "read"}}
Unread == {i \in Id : row[i] = "unread"}
Created == {i \in Id : row[i] # "none"}

-----------------------------------------------------------------------------
(* GET /notifications and its unreadOnly, GET unread-count. *)

Newest(ids) ==
    {i \in ids : Cardinality({j \in ids : j > i}) < Cap}

FindAll == Newest(Rows)

FindUnread_TakesFirst == Newest(Rows) \cap Unread
FindUnread == Newest(Unread)

CountUnread == Cardinality(Unread)

-----------------------------------------------------------------------------
(* create *)

Insert ==
    /\ \E i \in Id :
          /\ Created = 1 .. i - 1
          /\ row' = [row EXCEPT ![i] = "unread"]
          /\ unpushed' = unpushed \cup {i}
    /\ UNCHANGED <<stream, conn, req>>

Listening == {c \in Conn : conn[c].pc = "open" /\ conn[c].subject = stream}

Push(i) ==
    /\ i \in unpushed
    /\ unpushed' = unpushed \ {i}
    /\ conn' = [c \in Conn |->
                   IF c \in Listening THEN [conn[c] EXCEPT !.heard = @ \cup {i}]
                                      ELSE conn[c]]
    /\ UNCHANGED <<row, stream, req>>

-----------------------------------------------------------------------------
(* GET stream *)

Stream_OfItsOwn(c) ==   \* makes a Subject without looking for one
    /\ conn[c].pc = "closed"
    /\ stream' = c
    /\ conn' = [conn EXCEPT ![c] = AtRest("opening", c)]
    /\ UNCHANGED <<row, unpushed, req>>

\* The handler: getStream, and a listener on the close event.
Stream(c) ==
    /\ conn[c].pc = "closed"
    /\ stream' = IF stream = None THEN c ELSE stream
    /\ conn' = [conn EXCEPT ![c] = AtRest("opening", stream')]
    /\ UNCHANGED <<row, unpushed, req>>

\* Nest subscribes to what the handler returned.  A Subject that has been
\* completed meanwhile completes the new subscriber at once.
Subscribe(c) ==
    /\ conn[c].pc = "opening"
    /\ conn' = [conn EXCEPT
                   ![c] = IF conn[c].subject = None THEN AtRest("ended", None)
                          ELSE [@ EXCEPT !.pc = "open",
                                         !.before = Created \ unpushed]]
    /\ UNCHANGED <<row, memory, req>>

RemoveStream_NotCompleted(c) ==
    /\ stream' = None
    /\ conn' = [conn EXCEPT ![c] = AtRest("closed", None)]

Completed(d) == IF conn[d].subject # stream THEN conn[d]
                ELSE AtRest(IF d \in Listening THEN "ended" ELSE conn[d].pc, None)

RemoveStream_NotDeleted(c) ==
    /\ UNCHANGED stream
    /\ conn' = [d \in Conn |-> IF d = c THEN AtRest("closed", None)
                                        ELSE Completed(d)]

\* Completes the Subject there is now, and with it every stream that
\* listens, and deletes it.
RemoveStream(c) ==
    /\ stream' = None
    /\ conn' = [d \in Conn |-> IF d = c THEN AtRest("closed", None)
                                        ELSE Completed(d)]

\* The close event: the tab has gone, or the server has ended the response.
Close(c) ==
    /\ conn[c].pc \in {"opening", "open", "ended"}
    /\ RemoveStream(c)
    /\ UNCHANGED <<row, unpushed, req>>

Fetch_BeforeStream(c) ==
    /\ conn[c].pc \in {"opening", "open"} /\ conn[c].list = NotFetched
    /\ conn' = [conn EXCEPT ![c].list = FindAll]
    /\ UNCHANGED <<row, memory, req>>

\* A tab fetches the list, once, while its stream is open.
Fetch(c) ==
    /\ conn[c].pc = "open" /\ conn[c].list = NotFetched
    /\ conn' = [conn EXCEPT ![c].list = FindAll]
    /\ UNCHANGED <<row, memory, req>>

-----------------------------------------------------------------------------
(* PATCH read-all, PATCH :id/read, DELETE :id *)

MarkAllRead ==
    /\ Unread # {}
    /\ row' = [i \in Id |-> IF i \in Unread THEN "read" ELSE row[i]]
    /\ UNCHANGED <<memory, conn, req>>

\* Both look for the row first; one that is not there is a 404.
Find(r, then, i) ==
    /\ req[r] = Idle
    /\ i \in Rows
    /\ req' = [req EXCEPT ![r] = [pc |-> then, id |-> i]]
    /\ UNCHANGED <<row, memory, conn>>

\* An update of a row that has gone throws (500).
MarkRead(r) ==
    /\ req[r].pc = "mark"
    /\ row' = IF req[r].id \in Rows THEN [row EXCEPT ![req[r].id] = "read"]
                                    ELSE row
    /\ req' = [req EXCEPT ![r] = Idle]
    /\ UNCHANGED <<memory, conn>>

DeleteOne(r) ==
    /\ req[r].pc = "delete"
    /\ row' = [row EXCEPT ![req[r].id] = "deleted"]
    /\ req' = [req EXCEPT ![r] = Idle]
    /\ UNCHANGED <<memory, conn>>

-----------------------------------------------------------------------------
\* The process restarts: memory, connections and requests are gone.
Restart ==
    /\ unpushed' = {} /\ stream' = None
    /\ conn' = [c \in Conn |-> AtRest("closed", None)]
    /\ req' = [r \in Slot |-> Idle]
    /\ UNCHANGED row

Init ==
    /\ row = [i \in Id |-> "none"]
    /\ unpushed = {}
    /\ stream = None
    /\ conn = [c \in Conn |-> AtRest("closed", None)]
    /\ req = [r \in Slot |-> Idle]

Next ==
    \/ Insert \/ (\E i \in unpushed : Push(i)) \/ MarkAllRead \/ Restart
    \/ \E c \in Conn : Stream(c) \/ Subscribe(c) \/ Close(c) \/ Fetch(c)
    \/ \E r \in Slot :
          \/ \E i \in Id : Find(r, "mark", i) \/ Find(r, "delete", i)
          \/ MarkRead(r) \/ DeleteOne(r)

Spec == Init /\ [][Next]_vars

-----------------------------------------------------------------------------
(* Properties. *)

\* Types; and whatever the order in which tabs come and go, there is one
\* Subject at most that anybody listens to or is about to.
TypeOK ==
    /\ row \in [Id -> {"none", "unread", "read", "deleted"}]
    /\ unpushed \subseteq Created
    /\ stream \in Conn \cup {None}
    /\ \A c \in Conn :
          /\ conn[c].pc \in {"opening", "open", "ended", "closed"}
          /\ conn[c].subject \in {stream, None}
          /\ conn[c].heard \subseteq Created

\* No stream is open and deaf: one that is open has been sent all that was
\* pushed since it opened, although the close event of any other tab, even
\* a late one of a stream the server had ended, removes the Subject of all.
OpenStreamHearsAll ==
    \A c \in Conn : conn[c].pc = "open" =>
        conn[c].heard = (Created \ unpushed) \ conn[c].before

\* A tab that fetches the list once its stream is open misses nothing: what
\* is stored is in the list or in the stream, or about to be pushed, because
\* create() stores first and pushes after.  (As long as the list is not cut.)
ListAndStreamCoverAll ==
    \A c \in Conn :
        /\ conn[c].pc = "open" /\ conn[c].list # NotFetched
        /\ Cardinality(Created) <= Cap
        => Rows \subseteq conn[c].list \cup conn[c].heard \cup unpushed

\* The Subject of a user is not left behind: some connection is still there
\* whose close event will remove it.
SubjectIsFreed ==
    stream # None =>
        \E c \in Conn : conn[c].pc \in {"opening", "open", "ended"}

\* The badge agrees with the list of unread notifications, up to the cut.
BadgeMatchesList ==
    Cardinality(FindUnread) = IF CountUnread <= Cap THEN CountUnread ELSE Cap
=============================================================================
