------------------------------ MODULE Accounts ------------------------------
(***************************************************************************)
(* The api-server's accounts: the users table, the calls that read a row   *)
(* and write it back (sign-in, admin edits, profile edits, SSO sign-in),   *)
(* the targeted writers of role, active and tokens_valid_after, the floor  *)
(* of one active administrator, and the check of a token on every request. *)
(*                                                                         *)
(* A call is one action per statement it sends to the database.  Accounts  *)
(* are UUIDs, never reused.  Passwords are version numbers; mail, quotas   *)
(* and preferences travel with the row like the password hash and are left *)
(* out.                                                                    *)
(***************************************************************************)
EXTENDS Naturals, FiniteSets

CONSTANTS
    Users,               \* account ids
    Calls,               \* requests in flight at once
    Label,               \* Label[u]: the personal namespace of u's username
    SyncRoles,           \* are admin groups configured for SSO?
    Ops,                 \* the calls clients make
    MaxTime,             \* bound: the clock, in half seconds (it starts at 2)
    MaxStarted,          \* bound: calls ever started
    MaxFaults            \* bound: calls that fail half way

ASSUME AccountsAssumption ==
    /\ SyncRoles \in BOOLEAN /\ MaxTime \in Nat \ 0..1 /\ MaxStarted \in Nat /\ MaxFaults \in Nat
    /\ Ops \subseteq {"login", "logout", "update", "profile", "oidc", "create", "delete"}
    /\ Users \subseteq DOMAIN Label

Roles == {"admin", "user"}
Passwords == 0..(MaxStarted + 1)          \* 0: no local password
None == "none"

VARIABLES
    users,     \* the table: st "none" "row" "gone", pwd, role, active, bound, sso
    call,      \* requests: op, pc, u, copy of the row, in, stamp
    held,      \* per request, the admin seats its transaction has locked
    tokens,    \* one of the access tokens that were handed out, if any
    clock,
    used,      \* history: calls started, faults
    decided,   \* history: role and active as last decided by an admin or the IdP
    revoked,   \* history: the latest revocation that was carried out
    overtaken, \* history: accounts whose bound was moved back by an older revocation
    unguarded  \* history: a seat was taken away by a write outside the floor

vars == <<users, call, held, tokens, clock, used, decided, revoked, overtaken, unguarded>>
history == <<decided, revoked, overtaken, unguarded>>

Row(pwd, role, sso) ==
    [st |-> "row", pwd |-> pwd, role |-> role, active |-> TRUE, bound |-> 0, sso |-> sso]

NoRow == [st |-> "none", pwd |-> 0, role |-> "user", active |-> FALSE, bound |-> 0, sso |-> FALSE]
NoIn  == [pwd |-> 0, role |-> None, active |-> None]
Idle  == [op |-> None, pc |-> None, u |-> None, copy |-> NoRow, in |-> NoIn, stamp |-> 0]

Present(u) == users[u].st = "row"
IsSeat(r)  == r.st = "row" /\ r.role = "admin" /\ r.active
ActiveAdmins == {u \in Users : IsSeat(users[u])}

\* A row another transaction has locked cannot be written.
Free(c, u) == \A d \in Calls \ {c} : u \notin held[d]

\* Tokens carry the second they were signed in.
Second(t) == t - (t % 2)

\* UpdatedAt: the time a revocation is dated to.
Stamp == clock

\* Requests are served after EnsureBootstrapAdmin.
Booted == \E v \in Users : users[v].st # "none"

Start(c, op, pc, u, in) ==
    /\ Booted /\ call[c] = Idle /\ op \in Ops /\ used.started < MaxStarted
    /\ used' = [used EXCEPT !.started = @ + 1]
    /\ call' = [call EXCEPT ![c] = [op |-> op, pc |-> pc, u |-> u, copy |-> users[u], in |-> in,
                                   stamp |-> IF op = "logout" THEN Stamp ELSE 0]]

Goto(c, pc) == call' = [call EXCEPT ![c].pc = pc]
Done(c)     == call' = [call EXCEPT ![c] = Idle]

\* The statement finds no row: the call returns an error.
RowMissing(c) ==
    /\ call[c] # Idle /\ call[c].u \in Users /\ ~Present(call[c].u)
    /\ call[c].pc \in {"row", "role", "active", "revoke"} \/ call[c].op = "login"
    /\ Done(c)
    /\ UNCHANGED <<users, held, tokens, clock, used, history>>

\* A lost connection or a crash between two statements.
CallFails(c) ==
    /\ call[c] # Idle /\ used.faults < MaxFaults
    /\ used' = [used EXCEPT !.faults = @ + 1]
    /\ Done(c)
    /\ held' = [held EXCEPT ![c] = {}]
    /\ UNCHANGED <<users, tokens, clock, history>>

-----------------------------------------------------------------------------
(* The statements of repository/user_sql.go.                               *)

\* Mutants of WriteRow: the full row is written back, role and active
\* included, or the bound included.
WriteRowAll(u, copy)   == users' = [users EXCEPT ![u] = [copy EXCEPT !.bound = users[u].bound]]
WriteRowBound(u, copy) == users' = [users EXCEPT ![u].pwd = copy.pwd, ![u].sso = copy.sso, ![u].bound = copy.bound]

\* Update: everything except role, active and tokens_valid_after.
WriteRow(u, copy) == users' = [users EXCEPT ![u].pwd = copy.pwd, ![u].sso = copy.sso]

\* SetRole and SetActive, with or without the floor (f is the field).
SetField(c, u, f, v) ==
    LET new == [users[u] EXCEPT ![f] = v]
    IN  /\ users' = [users EXCEPT ![u] = new]
        /\ decided' = [decided EXCEPT ![u][f] = v]
        /\ unguarded' = (unguarded \/ (held[c] = {} /\ IsSeat(users[u]) /\ ~IsSeat(new)))

\* Mutant of Seats: no SELECT ... FOR UPDATE, only the written row is locked.
SeatsOwn(u) == {u}

\* What withAdminFloor locks: the administrator seats and the written row.
Seats(u) == ActiveAdmins \cup {u}

\* SetTokensValidAfter: unconditional.
SetBound(c, u) ==
    /\ users' = [users EXCEPT ![u].bound = call[c].stamp]
    /\ overtaken' = overtaken \cup {x \in {u} : call[c].stamp < users[u].bound}
    /\ revoked' = [revoked EXCEPT ![u] = IF call[c].stamp > @ THEN call[c].stamp ELSE @]

-----------------------------------------------------------------------------
(* Login: read, a slow verification, sign, RecordLogin.  A wrong password, *)
(* an inactive account or one without a password is refused: no change.    *)

LoginRead(c, u) ==
    /\ Present(u) /\ users[u].pwd # 0 /\ users[u].active
    /\ Start(c, "login", "sign", u, NoIn)
    /\ UNCHANGED <<users, held, tokens, clock, history>>

\* The properties are about one token at a time: any of them is followed.
Issue(u, role) ==
    \/ tokens' = {[user |-> u, role |-> role, iat |-> Second(clock), at |-> clock]}
    \/ tokens # {} /\ UNCHANGED tokens

LoginSign(c) ==
    LET u == call[c].u IN
    /\ call[c].op = "login" /\ call[c].pc = "sign" /\ Present(u) /\ Free(c, u)
    /\ Issue(u, call[c].copy.role)
    /\ Done(c)
    /\ UNCHANGED <<users, held, clock, used, history>>

Logout(c, u) ==
    /\ Present(u)
    /\ Start(c, "logout", "revoke", u, NoIn)
    /\ UNCHANGED <<users, held, tokens, clock, history>>

Revoke(c) ==
    LET u == call[c].u IN
    /\ call[c].pc = "revoke" /\ Present(u) /\ Free(c, u)
    /\ SetBound(c, u)
    /\ Done(c)
    /\ UNCHANGED <<held, tokens, clock, used, decided, unguarded>>

-----------------------------------------------------------------------------
(* UserService.Update: read, friendly check, row, role, active, revoke.    *)

UpdateRead(c, u) ==
    /\ Present(u) /\ ActiveAdmins # {}
    /\ \E in \in [pwd : {0, used.started + 2}, role : Roles \cup {None}, active : {"on", "off", None}] :
         /\ (in.pwd # 0) # (in.role # None \/ in.active # None)     \* bound: a password or rights
         /\ Start(c, "update", "row", u, in)
    /\ UNCHANGED <<users, held, tokens, clock, history>>

\* The copy with the fields of the request applied.
Apply(r, in) ==
    [r EXCEPT !.pwd    = IF in.pwd = 0 THEN @ ELSE in.pwd,
              !.role   = IF in.role = None THEN @ ELSE in.role,
              !.active = IF in.active = None THEN @ ELSE in.active = "on"]

Guarded(c) == IsSeat(call[c].copy) /\ ~IsSeat(Apply(call[c].copy, call[c].in))

Revokes(r, in) ==
    \/ in.pwd # 0
    \/ in.role \notin {None, r.role}
    \/ in.active = "off" /\ r.active

After(c, pc) ==
    CASE pc = "row"  /\ call[c].in.role # None         -> "role"
      [] pc \in {"row", "role"} /\ call[c].in.active # None -> "active"
      [] Revokes(call[c].copy, call[c].in)             -> "revoke"
      [] OTHER                                         -> None

Proceed(c, pc) == IF After(c, pc) = None THEN Idle ELSE [call[c] EXCEPT !.pc = After(c, pc)]

\* The friendly check refuses before any write.
UpdateRow(c) ==
    LET u == call[c].u IN
    /\ call[c].op = "update" /\ call[c].pc = "row" /\ Present(u)
    /\ IF Guarded(c) /\ Cardinality(ActiveAdmins) <= 1
       THEN Done(c) /\ UNCHANGED users
       ELSE /\ Free(c, u)
            /\ WriteRow(u, Apply(call[c].copy, call[c].in))
            /\ call' = [call EXCEPT ![c] = IF After(c, "row") = None THEN Idle
                                         ELSE [@ EXCEPT !.pc = After(c, "row"), !.stamp = Stamp]]
    /\ UNCHANGED <<held, tokens, clock, used, history>>

Value(c, f) == IF f = "role" THEN call[c].in.role ELSE call[c].in.active = "on"

\* Without a floor to hold: one statement.
UpdateField(c, f) ==
    LET u == call[c].u IN
    /\ call[c].op = "update" /\ call[c].pc = f /\ Present(u) /\ ~Guarded(c) /\ Free(c, u)
    /\ SetField(c, u, f, Value(c, f))
    /\ call' = [call EXCEPT ![c] = Proceed(c, f)]
    /\ UNCHANGED <<held, tokens, clock, used, revoked, overtaken>>

\* withAdminFloor: lock the seats, write, count.  A transaction sees its own
\* write and what others have committed; it rolls back at zero.
FloorJudge(c, f) ==
    LET u == call[c].u IN
    /\ call[c].op = "update" /\ call[c].pc = f /\ Present(u) /\ Guarded(c) /\ held[c] = {}
    /\ \A v \in Seats(u) : Free(c, v)
    /\ IF /\ IsSeat(users[u]) /\ ActiveAdmins = {u}
          /\ ~IsSeat([users[u] EXCEPT ![f] = Value(c, f)])
       THEN Done(c) /\ UNCHANGED held
       ELSE held' = [held EXCEPT ![c] = Seats(u)] /\ UNCHANGED call
    /\ UNCHANGED <<users, tokens, clock, used, history>>

FloorCommit(c, f) ==
    LET u == call[c].u IN
    /\ call[c].pc = f /\ held[c] # {}
    /\ SetField(c, u, f, Value(c, f))
    /\ held' = [held EXCEPT ![c] = {}]
    /\ call' = [call EXCEPT ![c] = Proceed(c, f)]
    /\ UNCHANGED <<tokens, clock, used, revoked, overtaken>>

-----------------------------------------------------------------------------
(* UpdateProfile: read, row, and revoke when the password changed.  Only   *)
(* preferences of an SSO account are self-service.                         *)

ProfileRead(c, u) ==
    /\ Present(u) /\ users[u].active
    /\ \E p \in {0, used.started + 2} :
         /\ p # 0 => ~users[u].sso /\ users[u].pwd # 0
         /\ Start(c, "profile", "row", u, [NoIn EXCEPT !.pwd = p])
    /\ UNCHANGED <<users, held, tokens, clock, history>>

ProfileRow(c) ==
    LET u == call[c].u IN
    /\ call[c].op = "profile" /\ call[c].pc = "row" /\ Present(u) /\ Free(c, u)
    /\ WriteRow(u, Apply(call[c].copy, call[c].in))
    /\ call' = [call EXCEPT ![c] = IF @.in.pwd = 0 THEN Idle ELSE [@ EXCEPT !.pc = "revoke", !.stamp = Stamp]]
    /\ UNCHANGED <<held, tokens, clock, used, history>>

-----------------------------------------------------------------------------
(* SSO sign-in: the subject selects the account, then its role is synced   *)
(* and the mirror refreshed.  An inactive account is refused.              *)

GroupRoles == IF SyncRoles THEN Roles ELSE {"user"}

OidcRead(c, u) ==
    /\ Present(u) /\ users[u].sso /\ users[u].active
    /\ \E r \in GroupRoles : Start(c, "oidc", IF SyncRoles /\ users[u].role # r THEN "role" ELSE "row", u,
                               [NoIn EXCEPT !.role = r])
    /\ UNCHANGED <<users, held, tokens, clock, history>>

OidcRole(c) ==
    LET u == call[c].u IN
    /\ call[c].op = "oidc" /\ call[c].pc = "role" /\ Present(u) /\ Free(c, u)
    /\ SetField(c, u, "role", call[c].in.role)
    /\ call' = [call EXCEPT ![c].pc = "row", ![c].copy.role = call[c].in.role]
    /\ UNCHANGED <<held, tokens, clock, used, revoked, overtaken>>

OidcRow(c) ==
    LET u == call[c].u IN
    /\ call[c].op = "oidc" /\ call[c].pc = "row" /\ Present(u) /\ Free(c, u)
    /\ WriteRow(u, call[c].copy)
    /\ Goto(c, "sign")
    /\ UNCHANGED <<held, tokens, clock, used, history>>

OidcSign(c) ==
    /\ call[c].op = "oidc" /\ call[c].pc = "sign"
    /\ Issue(call[c].u, call[c].copy.role)
    /\ Done(c)
    /\ UNCHANGED <<users, held, clock, used, history>>

-----------------------------------------------------------------------------
(* New accounts: the check for a shared personal namespace, then the       *)
(* insert, which only the UNIQUE constraints can refuse.                   *)

LabelTaken(u) == \E v \in Users \ {u} : Present(v) /\ Label[v] = Label[u]

CreateCheck(c, u) ==
    /\ users[u].st = "none" /\ ActiveAdmins # {} /\ ~LabelTaken(u)
    /\ \E r \in Roles : Start(c, "create", "insert", u, [NoIn EXCEPT !.role = r, !.pwd = 1])
    /\ UNCHANGED <<users, held, tokens, clock, history>>

\* First SSO sign-in: neither the subject nor the username has an account.
OidcProvision(c, u) ==
    /\ users[u].st = "none" /\ ~LabelTaken(u)
    /\ \E r \in GroupRoles : Start(c, "oidc", "insert", u, [NoIn EXCEPT !.role = r])
    /\ UNCHANGED <<users, held, tokens, clock, history>>

Insert(c) ==
    LET u   == call[c].u
        new == Row(call[c].in.pwd, call[c].in.role, call[c].op = "oidc")
    IN
    /\ call[c].pc = "insert"
    /\ IF users[u].st = "none"
       THEN /\ users' = [users EXCEPT ![u] = new]
            /\ decided' = [decided EXCEPT ![u] = [role |-> new.role, active |-> TRUE]]
            /\ call' = [call EXCEPT ![c] = IF @.op = "oidc" THEN [@ EXCEPT !.pc = "row", !.copy = new] ELSE Idle]
       ELSE Done(c) /\ UNCHANGED <<users, decided>>
    /\ UNCHANGED <<held, tokens, clock, used, revoked, overtaken, unguarded>>

\* EnsureBootstrapAdmin, at every start: only on an empty table.
Bootstrap(u) ==
    /\ \A v \in Users : ~Present(v)
    /\ users[u].st = "none"
    /\ users' = [users EXCEPT ![u] = Row(1, "admin", FALSE)]
    /\ decided' = [decided EXCEPT ![u] = [role |-> "admin", active |-> TRUE]]
    /\ UNCHANGED <<call, held, tokens, clock, used, revoked, overtaken, unguarded>>

\* Delete: not one's own account; no floor.
DeleteVet(c, u) ==
    /\ Present(u) /\ ActiveAdmins \ {u} # {}
    /\ Start(c, "delete", "delete", u, NoIn)
    /\ UNCHANGED <<users, held, tokens, clock, history>>

DeleteRow(c) ==
    LET u == call[c].u IN
    /\ call[c].pc = "delete" /\ Free(c, u)
    /\ users' = [users EXCEPT ![u] = [NoRow EXCEPT !.st = "gone"]]
    /\ unguarded' = (unguarded \/ IsSeat(users[u]))
    /\ Done(c)
    /\ UNCHANGED <<held, tokens, clock, used, decided, revoked, overtaken>>

Tick ==
    /\ clock < MaxTime
    /\ clock' = clock + 1
    /\ UNCHANGED <<users, call, held, tokens, used, history>>

-----------------------------------------------------------------------------
(* A request with token k: Auth and vetBearer.                             *)

Revoked(r, k) == k.iat < r.bound

VetBearer(k) ==
    LET r == users[k.user] IN r.st = "row" /\ r.active /\ r.role = k.role /\ ~Revoked(r, k)

-----------------------------------------------------------------------------
(* The table is empty, or holds accounts at rest, an administrator among   *)
(* them; one of them may be signed in.                                     *)
Init ==
    /\ users \in [Users -> {NoRow} \cup {Row(1, r, FALSE) : r \in Roles} \cup {Row(0, r, TRUE) : r \in Roles}]
    /\ (\A u \in Users : ~Present(u)) \/ ActiveAdmins # {}
    /\ \A u \in Users : Present(u) => ~LabelTaken(u)
    /\ call = [c \in Calls |-> Idle] /\ held = [c \in Calls |-> {}]
    /\ tokens \in {{}} \cup {{[user |-> u, role |-> users[u].role, iat |-> 2, at |-> 2]} : u \in {u \in Users : Present(u)}}
    /\ clock = 2 /\ used = [started |-> 0, faults |-> 0]
    /\ decided = [u \in Users |-> [role |-> users[u].role, active |-> users[u].active]]
    /\ revoked = [u \in Users |-> 0] /\ overtaken = {} /\ unguarded = FALSE

Statement(c) ==
    \/ RowMissing(c) \/ CallFails(c)
    \/ LoginSign(c) \/ Revoke(c)
    \/ UpdateRow(c) \/ \E f \in {"role", "active"} : UpdateField(c, f) \/ FloorJudge(c, f) \/ FloorCommit(c, f)
    \/ ProfileRow(c) \/ OidcRole(c) \/ OidcRow(c) \/ OidcSign(c) \/ Insert(c) \/ DeleteRow(c)

Request(c, u) ==
    \/ LoginRead(c, u) \/ Logout(c, u) \/ UpdateRead(c, u) \/ ProfileRead(c, u)
    \/ OidcRead(c, u) \/ OidcProvision(c, u) \/ CreateCheck(c, u) \/ DeleteVet(c, u)

Next ==
    \/ Tick
    \/ \E u \in Users : Bootstrap(u)
    \/ \E c \in Calls : Statement(c) \/ \E u \in Users : Request(c, u)

Spec == Init /\ [][Next]_vars

-----------------------------------------------------------------------------
(* The state variables keep their types, seats are locked only for the     *)
(* decision about them, and no bound lies in the future: whoever signs in  *)
(* in a later second than a revocation is let in (middleware.go revoked).  *)
TypeOK ==
    /\ users \in [Users -> [st : {"none", "row", "gone"}, pwd : Passwords, role : Roles, active : BOOLEAN,
                            bound : 0..clock, sso : BOOLEAN]]
    /\ \A c \in Calls : /\ call[c].op \in Ops \cup {None} /\ call[c].u \in Users \cup {None}
                         /\ held[c] \subseteq Users
                         /\ held[c] # {} => Guarded(c) /\ call[c].pc \in {"role", "active"}
    /\ tokens \subseteq [user : Users, role : Roles, iat : 0..clock, at : 0..clock]
    /\ clock \in 0..MaxTime /\ overtaken \subseteq Users /\ unguarded \in BOOLEAN

(* Administrators who give up their seats at the same moment, each call    *)
(* under the floor, never leave the platform without one                   *)
(* (user_sql.go withAdminFloor).                                           *)
FloorHeld == ~unguarded /\ (\E u \in Users : Present(u)) => ActiveAdmins # {}

(* Whatever copy of a row was read before it and is written back after it, *)
(* the last decision on an account's role and activation stands            *)
(* (user_sql.go Update, SetRole, SetActive).                               *)
LastDecisionStands ==
    \A u \in Users : Present(u) => users[u].role = decided[u].role /\ users[u].active = decided[u].active

(* A token handed out before a revocation is refused from then on, also    *)
(* when both fall in one second and whatever rows are written back         *)
(* meanwhile; the exception is an older revocation that finishes later     *)
(* (user_sql.go Update, SetTokensValidAfter; middleware.go revoked).       *)
RevocationStands ==
    \A k \in tokens : k.user \notin overtaken /\ k.at < revoked[k.user] => ~VetBearer(k)

-----------------------------------------------------------------------------
(* What the code does not guarantee.                                       *)

(* "The platform must keep an administrator" (user_service.go).            *)
AdminFloor == (\E u \in Users : Present(u)) => ActiveAdmins # {}

(* No read-modify-write can "race a revocation and write back a stale      *)
(* bound" (user_sql.go).                                                   *)
RevocationIsFinal == \A k \in tokens : k.at < revoked[k.user] => ~VetBearer(k)

(* Accounts that would share a personal namespace are "refused at the two  *)
(* doors" (username_placement.go).                                         *)
OneAccountPerNamespace == \A u \in Users : Present(u) => ~LabelTaken(u)

=============================================================================
