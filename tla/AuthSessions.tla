---------------------------- MODULE AuthSessions ----------------------------
(***************************************************************************)
(* The account and the sessions of one email address (AuthService): the    *)
(* row User and its tokenVersion, rotating refresh tokens in the table     *)
(* RefreshToken, and access tokens, which are signed and kept nowhere.     *)
(* Requests run concurrently; each read and each statement is a step.      *)
(* PostgreSQL runs them as READ COMMITTED, its default: a statement sees   *)
(* what was committed when it began, and an update waits for a row that    *)
(* an open transaction has updated, then looks at its condition again.     *)
(* Passwords, hashing and cookies are left out: a request presents a       *)
(* token, and a token names its row.                                       *)
(*                                                                         *)
(* A handler that dies is one that takes no further step, which the safety *)
(* properties allow at any point (a transaction it leaves open rolls back, *)
(* as if it had not begun); liveness assumes that none does.               *)
(***************************************************************************)
EXTENDS Integers, FiniteSets

CONSTANTS
    Token,       \* refresh tokens that can be generated
    Slot,        \* requests served at once
    MaxVersion,  \* bound: no request begins at a higher tokenVersion
    None

ASSUME SessionsAssumption ==
    /\ MaxVersion \in Nat
    /\ IsFiniteSet(Token) /\ IsFiniteSet(Slot)
    /\ None \notin Token

VARIABLES
    accounts,      \* number of User rows with the email
    tokenVersion,  \* User.tokenVersion
    row,           \* RefreshToken: token -> row, or Absent
    access,        \* versions (claim tv) of the access tokens not expired
    req            \* the request in each slot

vars == <<accounts, tokenVersion, row, access, req>>

Absent == [version |-> -1]
Issued == {t \in Token : row[t] # Absent}
Idle == [pc |-> "idle"]

\* root is history: the token of the login a token descends from.
Row(version, root) == [version |-> version, revoked |-> FALSE, expired |-> FALSE,
                       replacedBy |-> None, root |-> root]

\* What refresh accepts.
Usable(t) ==
    /\ t \in Issued
    /\ ~row[t].revoked /\ ~row[t].expired
    /\ row[t].version = tokenVersion

\* Bounds: every request in flight can still generate a token and bump.
HasRoom ==
    /\ tokenVersion <= MaxVersion
    /\ Cardinality(Token \ Issued) >= Cardinality({r \in Slot : req[r] # Idle}) + 1

Begin(r, pc, token, version) ==
    /\ req[r] = Idle
    /\ HasRoom
    /\ req' = [req EXCEPT ![r] = [pc |-> pc, token |-> token,
                                  version |-> version, seen |-> {}]]
    /\ UNCHANGED <<accounts, tokenVersion, row, access>>

GoTo(r, pc) == req' = [req EXCEPT ![r].pc = pc]
Answer(r) == req' = [req EXCEPT ![r] = Idle]

-----------------------------------------------------------------------------
(* register and login. *)

\* No user has the email; the password is hashed before the insertion.
Register(r) == accounts = 0 /\ Begin(r, "insert", None, 0)

InsertUser_NotUnique(r) ==
    /\ req[r].pc = "insert"
    /\ accounts' = accounts + 1 /\ GoTo(r, "login")
    /\ UNCHANGED <<tokenVersion, row, access>>

\* User.email is unique: a second insertion throws (500).  The first goes on
\* as a login does.
InsertUser(r) ==
    /\ req[r].pc = "insert"
    /\ IF accounts = 0 THEN accounts' = 1 /\ GoTo(r, "login")
                       ELSE UNCHANGED accounts /\ Answer(r)
    /\ UNCHANGED <<tokenVersion, row, access>>

\* validateUser reads the user and verifies the password; the token is
\* stored after that.
Login(r) == accounts > 0 /\ Begin(r, "login", None, tokenVersion)

LoginCommit(r) ==
    /\ req[r].pc = "login"
    /\ \E t \in Token \ Issued : row' = [row EXCEPT ![t] = Row(req[r].version, t)]
    /\ access' = access \cup {req[r].version}
    /\ Answer(r)
    /\ UNCHANGED <<accounts, tokenVersion>>

-----------------------------------------------------------------------------
(* refresh. *)

\* The row and its user are read at once (a row read before its user makes
\* no difference, because Rotate looks at the row again).  A revoked token
\* that has a successor is being used for the second time; any other that is
\* not usable is a 401.
Refresh(r, t) ==
    /\ t \in Issued
    /\ \/ /\ row[t].revoked /\ row[t].replacedBy # None
          /\ Begin(r, "bump", t, tokenVersion)
       \/ /\ Usable(t)
          /\ Begin(r, "rotate", t, tokenVersion)

\* The row is updated by a rotation that has not committed.
Locked(t) == \E r \in Slot : req[r].pc = "commit" /\ req[r].token = t

Rotate_Unconditional(r) ==   \* without `revoked: false' in the update
    /\ req[r].pc = "rotate"
    /\ ~Locked(req[r].token)
    /\ GoTo(r, "commit")
    /\ UNCHANGED <<accounts, tokenVersion, row, access>>

\* The transaction inserts the new row, which nobody else can see yet, and
\* updates the old one unless it is revoked.  If it is, the transaction
\* rolls back, and the request is taken for a reuse.
Rotate(r) ==
    /\ req[r].pc = "rotate"
    /\ ~Locked(req[r].token)
    /\ GoTo(r, IF row[req[r].token].revoked THEN "bump" ELSE "commit")
    /\ UNCHANGED <<accounts, tokenVersion, row, access>>

RotateCommit_FreshVersion(r) ==   \* the version of now, not the one it checked
    /\ req[r].pc = "commit"
    /\ LET t == req[r].token
       IN \E n \in Token \ Issued :
             row' = [row EXCEPT ![n] = Row(tokenVersion, row[t].root),
                                ![t].revoked = TRUE,
                                ![t].replacedBy = n]
    /\ access' = access \cup {tokenVersion}
    /\ Answer(r)
    /\ UNCHANGED <<accounts, tokenVersion>>

\* Both writes appear at once.
RotateCommit(r) ==
    /\ req[r].pc = "commit"
    /\ LET t == req[r].token
       IN \E n \in Token \ Issued :
             row' = [row EXCEPT ![n] = Row(req[r].version, row[t].root),
                                ![t].revoked = TRUE,
                                ![t].replacedBy = n]
    /\ access' = access \cup {req[r].version}
    /\ Answer(r)
    /\ UNCHANGED <<accounts, tokenVersion>>

-----------------------------------------------------------------------------
(* logout and logoutAll. *)

\* One conditional update; an unknown or revoked token changes nothing.
RevokeRefreshToken(t) ==
    /\ t \in Issued /\ ~row[t].revoked /\ ~Locked(t)
    /\ row' = [row EXCEPT ![t].revoked = TRUE]
    /\ UNCHANGED <<accounts, tokenVersion, access, req>>

\* JwtStrategy.validate: the signature and the expiry were checked, the type
\* is access; the claim tv is not looked at.
Accepts(v) == v \in access

LogoutAll(r) ==
    /\ \E v \in 0 .. tokenVersion : Accepts(v)
    /\ Begin(r, "bump", None, tokenVersion)

\* logoutAll is two updates that no transaction joins.
BumpVersion(r) ==
    /\ req[r].pc = "bump"
    /\ tokenVersion' = tokenVersion + 1
    /\ GoTo(r, "revoke")
    /\ UNCHANGED <<accounts, row, access>>

RevokeAll_OldVersions(r) ==   \* those of the versions before the last only
    /\ req[r].pc = "revoke"
    /\ req' = [req EXCEPT
           ![r].pc = "revoking",
           ![r].seen = {t \in Issued : /\ ~row[t].revoked
                                       /\ row[t].version < tokenVersion - 1}]
    /\ UNCHANGED <<accounts, tokenVersion, row, access>>

\* The second update begins.  A row that a rotation has inserted and not
\* committed is not among those it sees.
RevokeAll(r) ==
    /\ req[r].pc = "revoke"
    /\ req' = [req EXCEPT ![r].pc = "revoking",
                          ![r].seen = {t \in Issued : ~row[t].revoked}]
    /\ UNCHANGED <<accounts, tokenVersion, row, access>>

\* It ends when it has had all the rows it saw.
RevokeAllEnd(r) ==
    /\ req[r].pc = "revoking"
    /\ \A t \in req[r].seen : ~Locked(t)
    /\ row' = [t \in Token |-> IF t \in req[r].seen
                               THEN [row[t] EXCEPT !.revoked = TRUE] ELSE row[t]]
    /\ Answer(r)
    /\ UNCHANGED <<accounts, tokenVersion, access>>

-----------------------------------------------------------------------------
(* Time. *)

ExpireRefreshToken(t) ==
    /\ t \in Issued /\ ~row[t].expired
    /\ row' = [row EXCEPT ![t].expired = TRUE]
    /\ UNCHANGED <<accounts, tokenVersion, access, req>>

ExpireAccessToken(v) ==
    /\ v \in access
    /\ access' = access \ {v}
    /\ UNCHANGED <<accounts, tokenVersion, row, req>>

-----------------------------------------------------------------------------
Init ==
    /\ accounts = 0
    /\ tokenVersion = 0
    /\ row = [t \in Token |-> Absent]
    /\ access = {}
    /\ req = [r \in Slot |-> Idle]

Handle(r) ==
    \/ InsertUser(r) \/ LoginCommit(r) \/ Rotate(r) \/ RotateCommit(r)
    \/ BumpVersion(r) \/ RevokeAll(r) \/ RevokeAllEnd(r)

Next ==
    \/ \E r \in Slot :
          \/ Register(r) \/ Login(r) \/ LogoutAll(r) \/ Handle(r)
          \/ \E t \in Token : Refresh(r, t)
    \/ \E t \in Token : RevokeRefreshToken(t) \/ ExpireRefreshToken(t)
    \/ \E v \in access : ExpireAccessToken(v)

\* Node runs every continuation that is due.
Spec == Init /\ [][Next]_vars /\ \A r \in Slot : WF_vars(Handle(r))

-----------------------------------------------------------------------------
(* Properties. *)

\* Two registrations may both find the email free; one account comes of it,
\* and nobody has a token without it.
OneAccountPerEmail ==
    accounts <= 1 /\ (Issued # {} \/ access # {} => accounts = 1)

\* Types; there is one account at most; and a token that was rotated is
\* revoked, and its successor is of the same version, so it ends with it.
TypeOK ==
    /\ OneAccountPerEmail
    /\ tokenVersion \in Nat
    /\ \A t \in Issued :
          /\ row[t].version \in 0 .. tokenVersion
          /\ row[t].revoked \in BOOLEAN /\ row[t].expired \in BOOLEAN
          /\ row[t].root \in Issued
          /\ row[t].replacedBy # None =>
                /\ row[t].revoked
                /\ row[t].replacedBy \in Issued
                /\ row[row[t].replacedBy].version = row[t].version
    /\ access \subseteq 0 .. tokenVersion
    /\ \A r \in Slot : req[r] # Idle =>
          /\ req[r].pc \in {"insert", "login", "rotate", "commit",
                            "bump", "revoke", "revoking"}
          /\ req[r].version <= tokenVersion /\ req[r].seen \subseteq Issued

\* Rotation never forks: of all the tokens that descend from one login at
\* most one has not been revoked, although two refreshes may both have
\* found their token unrevoked.
OneTokenPerLogin ==
    \A t, u \in Issued :
        row[t].root = row[u].root /\ ~row[t].revoked /\ ~row[u].revoked => t = u

\* From the first write of logoutAll on, no refresh token works unless its
\* user has given the password since: not one rotated between the two
\* writes, and not one whose rotation began before them.
SessionsEndAtLogoutAll ==
    \A t \in Token : Usable(t) => row[row[t].root].version = tokenVersion

\* A second use of a rotated token, and logoutAll, revoke every token that
\* is stored when they begin, one that a rotation is replacing included.
\* The successor, if its transaction is still open when the second update
\* begins, is revoked by neither; it is not Usable, by the property above.
ReuseEndsEverySession ==
    \A t \in Token :
        t \in Issued /\ (\E r \in Slot : req[r].pc = "bump")
            ~> t \in Issued /\ row[t].revoked
=============================================================================
