--------------------------- MODULE AccountsProofs ---------------------------
(***************************************************************************)
(* Proofs about Accounts, for any sets of accounts and requests and any    *)
(* number of calls and failures: the floor of one administrator, the last  *)
(* decision on an account, the revocation of its tokens, and the types.    *)
(***************************************************************************)
EXTENDS Accounts, TLAPS

\* Rows of the table, fields of a request, and requests in flight.
Rows == [st : {"none", "row", "gone"}, pwd : Nat, role : Roles, active : BOOLEAN,
         bound : Nat, sso : BOOLEAN]
Ins  == [pwd : Nat, role : Roles \cup {None}, active : {"on", "off", None}]
Pcs  == {None, "sign", "revoke", "row", "role", "active", "insert", "delete"}
Recs == [op : Ops \cup {None}, pc : Pcs, u : Users \cup {None}, copy : Rows, in : Ins,
         stamp : Nat]

\* A request as it can be found between two statements: it names an account,
\* and one that is about to write a role has one to write.
Sound(r) ==
    /\ r \in Recs
    /\ r.pc # None => r.u \in Users
    /\ r.op = "oidc" \/ r.pc \in {"role", "insert"} => r.in.role \in Roles

\* The types of the variables, as far as the argument needs them.
Typed ==
    /\ users \in [Users -> Rows] /\ held \in [Calls -> SUBSET Users]
    /\ call \in [Calls -> Recs] /\ \A c \in Calls : Sound(call[c])
    /\ decided \in [Users -> [role : Roles, active : BOOLEAN]]
    /\ revoked \in [Users -> Nat] /\ unguarded \in BOOLEAN
    /\ clock \in Nat /\ used \in [started : Nat, faults : Nat]
    /\ tokens \subseteq [user : Users, role : Roles, iat : Nat, at : Nat]
    /\ \A k \in tokens : k.iat <= k.at

-----------------------------------------------------------------------------
(* What the building blocks of the actions do to a record.                 *)

\* The request's fields applied to a row give a row.
LEMMA ApplyType == ASSUME NEW r \in Rows, NEW in \in Ins PROVE Apply(r, in) \in Rows
<1> DEFINE r1 == [r EXCEPT !.pwd = IF in.pwd = 0 THEN @ ELSE in.pwd]
           r2 == [r1 EXCEPT !.role = IF in.role = None THEN @ ELSE in.role]
           r3 == [r2 EXCEPT !.active = IF in.active = None THEN @ ELSE in.active = "on"]
<1>1. r1 \in Rows
  BY DEF Rows, Ins
<1>2. Apply(r, in) = r3
  BY DEF Apply, Rows
<1> HIDE DEF r1
<1>3. r2 \in Rows
  BY <1>1 DEF Rows, Ins, Roles
<1> HIDE DEF r2
<1>4. r3 \in Rows
  BY <1>3 DEF Rows, Ins
<1>5. QED
  BY <1>2, <1>4

\* Update writes neither the role, nor active, nor the bound.
LEMMA WriteRowEffect ==
  ASSUME users \in [Users -> Rows], NEW u \in Users, NEW copy \in Rows, WriteRow(u, copy)
  PROVE  /\ users' \in [Users -> Rows]
         /\ \A v \in Users : /\ v # u => users'[v] = users[v]
                             /\ users'[v].st = users[v].st /\ users'[v].role = users[v].role
                             /\ users'[v].active = users[v].active /\ users'[v].bound = users[v].bound
<1> DEFINE r1 == [users[u] EXCEPT !.pwd = copy.pwd]
           r2 == [r1 EXCEPT !.sso = copy.sso]
<1>1. users[u] \in Rows
  OBVIOUS
<1>2. r1 \in Rows /\ r1.st = users[u].st /\ r1.role = users[u].role /\ r1.active = users[u].active
      /\ r1.bound = users[u].bound
  BY <1>1 DEF Rows
<1>3. users' = [users EXCEPT ![u] = r2]
  BY DEF WriteRow
<1> HIDE DEF r1
<1>4. r2 \in Rows /\ r2.st = users[u].st /\ r2.role = users[u].role /\ r2.active = users[u].active
      /\ r2.bound = users[u].bound
  BY <1>2 DEF Rows
<1> HIDE DEF r2
<1>5. QED
  BY <1>3, <1>4

\* SetRole and SetActive write one field, and the decision is recorded.
LEMMA SetFieldEffect ==
  ASSUME users \in [Users -> Rows], decided \in [Users -> [role : Roles, active : BOOLEAN]],
         NEW c \in Calls, NEW u \in Users, NEW f \in {"role", "active"}, NEW v,
         f = "role" => v \in Roles, f = "active" => v \in BOOLEAN, SetField(c, u, f, v)
  PROVE  /\ users' \in [Users -> Rows] /\ decided' \in [Users -> [role : Roles, active : BOOLEAN]]
         /\ users'[u] = [users[u] EXCEPT ![f] = v]
         /\ \A w \in Users \ {u} : users'[w] = users[w] /\ decided'[w] = decided[w]
         /\ users'[u].st = users[u].st /\ users'[u].bound = users[u].bound
         /\ \/ users'[u].role = users[u].role /\ decided'[u].role = decided[u].role
            \/ users'[u].role = decided'[u].role
         /\ \/ users'[u].active = users[u].active /\ decided'[u].active = decided[u].active
            \/ users'[u].active = decided'[u].active
<1> DEFINE r == [users[u] EXCEPT ![f] = v]
           d == [decided[u] EXCEPT ![f] = v]
<1>1. users' = [users EXCEPT ![u] = r] /\ decided' = [decided EXCEPT ![u] = d]
  BY DEF SetField
<1>2. users[u] \in Rows /\ decided[u] \in [role : Roles, active : BOOLEAN]
  OBVIOUS
<1>3. CASE f = "role"
  <2>1. /\ r \in Rows /\ r.st = users[u].st /\ r.bound = users[u].bound /\ r.role = v
        /\ r.active = users[u].active
    BY <1>2, <1>3 DEF Rows
  <2>2. d \in [role : Roles, active : BOOLEAN] /\ d.role = v /\ d.active = decided[u].active
    BY <1>2, <1>3
  <2> HIDE DEF d
  <2>3. QED
    BY <1>1, <2>1, <2>2
<1>4. CASE f = "active"
  <2>1. /\ r \in Rows /\ r.st = users[u].st /\ r.bound = users[u].bound /\ r.active = v
        /\ r.role = users[u].role
    BY <1>2, <1>4 DEF Rows
  <2>2. d \in [role : Roles, active : BOOLEAN] /\ d.active = v /\ d.role = decided[u].role
    BY <1>2, <1>4
  <2> HIDE DEF d
  <2>3. QED
    BY <1>1, <2>1, <2>2
<1>5. QED
  BY <1>3, <1>4

\* A finished request is sound.
LEMMA IdleSound == Sound(Idle) /\ NoRow \in Rows /\ NoIn \in Ins
<1>1. NoRow \in Rows /\ NoIn \in Ins
  BY DEF NoRow, NoIn, Rows, Ins, Roles, None
<1>2. QED
  BY <1>1 DEF Idle, Sound, Recs, Pcs, None

-----------------------------------------------------------------------------
(* The inductive invariant.                                                *)

\* The transaction of c leaves an administrator when it commits.
SpareSeat(c) ==
    LET u == call[c].u IN
    \/ ~IsSeat(users[u]) \/ IsSeat([users[u] EXCEPT ![call[c].pc] = Value(c, call[c].pc)])
    \/ \E v \in held[c] \ {u} : IsSeat(users[v])

\* What a transaction has locked exists, is locked once, and suffices.
Locks ==
    /\ \A c \in Calls : held[c] # {} =>
         /\ call[c].op = "update" /\ call[c].pc \in {"role", "active"} /\ Guarded(c)
         /\ call[c].u \in held[c] /\ \A v \in held[c] : Present(v)
         /\ SpareSeat(c)
    /\ \A c, d \in Calls : c # d => held[c] \cap held[d] = {}

\* FloorHeld, from the first account on, whether or not one is left.
Floor ==
    /\ ~unguarded /\ Booted => ActiveAdmins # {}
    /\ \A c \in Calls : call[c].pc # None => Booted

\* The bound in the row is the latest revocation, unless an older one overtook it.
Bounds ==
    \A u \in Users : /\ users[u].st = "none" => revoked[u] = 0
                     /\ Present(u) /\ u \notin overtaken => users[u].bound = revoked[u]

\* The inductive invariant.
IInv == Typed /\ Locks /\ Floor /\ LastDecisionStands /\ Bounds

\* The invariant holds of a table at rest.
LEMMA InitIInv == Init => IInv
<1> SUFFICES ASSUME Init PROVE IInv
  OBVIOUS
<1>1. \A p \in {0, 1}, r \in Roles, b \in BOOLEAN :
         /\ Row(p, r, b) \in Rows /\ Row(p, r, b).bound = 0 /\ Row(p, r, b).st = "row"
  BY DEF Row, Rows
<1>2. /\ users \in [Users -> Rows]
      /\ \A u \in Users : users[u].bound = 0 /\ users[u].st \in {"none", "row"}
  <2>1. NoRow \in Rows /\ NoRow.bound = 0 /\ NoRow.st = "none"
    BY IdleSound DEF NoRow
  <2>2. ASSUME NEW u \in Users
        PROVE  users[u] \in Rows /\ users[u].bound = 0 /\ users[u].st \in {"none", "row"}
    <3>1. \/ users[u] = NoRow
          \/ \E r \in Roles : users[u] = Row(1, r, FALSE) \/ users[u] = Row(0, r, TRUE)
      BY DEF Init
    <3>2. QED
      BY <1>1, <2>1, <3>1
  <2>3. QED
    BY <2>2 DEF Init
<1>3. call \in [Calls -> Recs] /\ \A c \in Calls : Sound(call[c]) /\ call[c].pc = None
  BY IdleSound DEF Init, Idle, Sound
<1>4. /\ decided \in [Users -> [role : Roles, active : BOOLEAN]]
      /\ \A u \in Users : users[u].role = decided[u].role /\ users[u].active = decided[u].active
  BY <1>2 DEF Init, Rows
<1>5. /\ tokens \subseteq [user : Users, role : Roles, iat : Nat, at : Nat]
      /\ \A k \in tokens : k.iat <= k.at
  BY <1>2 DEF Init, Rows
<1>6. Typed
  BY <1>2, <1>3, <1>4, <1>5 DEF Init, Typed
<1>7. Locks
  BY DEF Init, Locks
<1>8. Floor
  BY <1>2, <1>3 DEF Init, Floor, Booted, Present
<1>9. LastDecisionStands
  BY <1>4 DEF LastDecisionStands
<1>10. Bounds
  BY <1>2 DEF Init, Bounds
<1>11. QED
  BY <1>6, <1>7, <1>8, <1>9, <1>10 DEF IInv

-----------------------------------------------------------------------------
(* Steps of one request.                                                   *)

\* The request c is now r and holds nothing; the others are as they were.
CallStep(c, r) ==
    /\ Sound(r) /\ (r.pc # None => Booted)
    /\ call' = [call EXCEPT ![c] = r]
    /\ held' = [held EXCEPT ![c] = {}]

\* Rows that others have locked are left alone, and locks stay good.
LEMMA LocksKept ==
  ASSUME IInv, NEW c \in Calls, NEW r, CallStep(c, r), users' \in [Users -> Rows],
         \A v \in Users : users'[v] # users[v] => Free(c, v) \/ users[v].st = "none"
  PROVE  /\ call' \in [Calls -> Recs] /\ held' \in [Calls -> SUBSET Users]
         /\ \A d \in Calls : Sound(call'[d]) /\ (call'[d].pc # None => Booted)
         /\ Locks'
<1>1. call \in [Calls -> Recs] /\ held \in [Calls -> SUBSET Users] /\ r \in Recs
  BY DEF IInv, Typed, CallStep, Sound
<1>2. /\ call'[c] = r /\ held'[c] = {}
      /\ \A d \in Calls \ {c} : call'[d] = call[d] /\ held'[d] = held[d]
  BY <1>1 DEF CallStep
<1>3. \A d \in Calls \ {c} : \A v \in held[d] : users'[v] = users[v]
  BY <1>1 DEF IInv, Locks, Free, Present
<1>4. \A d \in Calls : Sound(call'[d]) /\ (call'[d].pc # None => Booted)
  BY <1>2 DEF IInv, Typed, Floor, CallStep
<1>5. \A d, e \in Calls : d # e => held'[d] \cap held'[e] = {}
  BY <1>2 DEF IInv, Locks
<1>6. ASSUME NEW d \in Calls, held'[d] # {}
      PROVE  /\ call'[d].op = "update" /\ call'[d].pc \in {"role", "active"} /\ Guarded(d)'
             /\ call'[d].u \in held'[d] /\ \A v \in held'[d] : Present(v)'
             /\ SpareSeat(d)'
  <2>1. d # c /\ call'[d] = call[d] /\ held'[d] = held[d] /\ held[d] # {}
    BY <1>2, <1>6
  <2>2. call'[d].op = "update" /\ call'[d].pc \in {"role", "active"} /\ call'[d].u \in held'[d]
    BY <2>1 DEF IInv, Locks
  <2>3. Guarded(d)'
    BY <2>1 DEF IInv, Locks, Guarded
  <2>4. \A v \in held'[d] : Present(v)'
    BY <1>3, <2>1 DEF IInv, Locks, Present
  <2>5. SpareSeat(d)'
    BY <1>3, <2>1, <2>2 DEF IInv, Locks, SpareSeat, Value
  <2>6. QED
    BY <2>2, <2>3, <2>4, <2>5
<1>7. Locks'
  BY <1>5, <1>6 DEF Locks
<1>8. QED
  BY <1>1, <1>2, <1>4, <1>7 DEF CallStep

\* The rest of the state keeps its types.
OtherTypes ==
    /\ clock' \in Nat /\ used' \in [started : Nat, faults : Nat]
    /\ tokens' \subseteq [user : Users, role : Roles, iat : Nat, at : Nat]
    /\ \A k \in tokens' : k.iat <= k.at

\* A step that writes no row that matters to rights, seats or revocations.
LEMMA QuietStep ==
  ASSUME IInv, NEW c \in Calls, NEW r, CallStep(c, r), OtherTypes, users' \in [Users -> Rows],
         \A v \in Users : users'[v] # users[v] => Free(c, v),
         \A v \in Users : /\ users'[v].st = users[v].st /\ users'[v].role = users[v].role
                          /\ users'[v].active = users[v].active /\ users'[v].bound = users[v].bound,
         UNCHANGED history
  PROVE  IInv'
<1>1. UNCHANGED <<decided, revoked, overtaken, unguarded>>
  BY DEF history
<1>2. /\ call' \in [Calls -> Recs] /\ held' \in [Calls -> SUBSET Users]
      /\ \A d \in Calls : Sound(call'[d]) /\ (call'[d].pc # None => Booted)
      /\ Locks'
  BY LocksKept
<1>3. Typed'
  BY <1>1, <1>2 DEF IInv, Typed, OtherTypes, Sound
<1>4. Booted' = Booted /\ ActiveAdmins' = ActiveAdmins
  BY DEF Booted, ActiveAdmins, IsSeat
<1>5. Floor'
  BY <1>1, <1>2, <1>4 DEF IInv, Floor
<1>6. LastDecisionStands' /\ Bounds'
  BY <1>1 DEF IInv, LastDecisionStands, Bounds, Present
<1>7. QED
  BY <1>2, <1>3, <1>5, <1>6 DEF IInv

\* Only a request under the floor holds locks.
LEMMA HoldsNothing ==
  ASSUME IInv, NEW c \in Calls,
         call[c].op # "update" \/ call[c].pc \notin {"role", "active"} \/ ~Guarded(c) \/ ~Present(call[c].u)
  PROVE  held[c] = {} /\ held = [held EXCEPT ![c] = {}]
<1>1. held \in [Calls -> SUBSET Users] /\ held[c] = {}
  BY DEF IInv, Typed, Locks
<1>2. QED
  BY <1>1

\* What stays as it is keeps its types.
LEMMA OthersKept == ASSUME IInv, UNCHANGED <<tokens, clock, used>> PROVE OtherTypes
  BY DEF IInv, Typed, OtherTypes

\* A request is received: it reads a row.
LEMMA StartStep ==
  ASSUME IInv, NEW c \in Calls, NEW op, NEW pc \in Pcs, NEW u \in Users, NEW in \in Ins,
         Start(c, op, pc, u, in), op = "oidc" \/ pc \in {"role", "insert"} => in.role \in Roles,
         UNCHANGED <<users, held, tokens, clock, history>>
  PROVE  IInv'
<1> DEFINE r == [op |-> op, pc |-> pc, u |-> u, copy |-> users[u], in |-> in,
                 stamp |-> IF op = "logout" THEN Stamp ELSE 0]
<1>1. call' = [call EXCEPT ![c] = r] /\ op \in Ops /\ Booted
  BY DEF Start
<1>2. users[u] \in Rows /\ Stamp \in Nat
  BY DEF IInv, Typed, Stamp
<1>3. Sound(r)
  BY <1>1, <1>2 DEF Sound, Recs
<1> HIDE DEF r
<1>4. held' = [held EXCEPT ![c] = {}]
  <2>1. call[c].pc = None
    BY DEF Start, Idle
  <2>2. QED
    BY <2>1, HoldsNothing DEF None
<1>5. CallStep(c, r)
  BY <1>1, <1>3, <1>4 DEF CallStep
<1>6. used' \in [started : Nat, faults : Nat]
  BY DEF Start, IInv, Typed
<1>7. OtherTypes
  BY <1>6 DEF IInv, Typed, OtherTypes
<1>8. users' \in [Users -> Rows] /\ users' = users
  BY DEF IInv, Typed
<1>9. QED
  BY <1>5, <1>7, <1>8, QuietStep

\* The administrator's and the user's calls are received.
LEMMA RequestStep ==
  ASSUME IInv, NEW c \in Calls, NEW u \in Users, Request(c, u)
  PROVE  IInv'
<1>1. NoIn \in Ins /\ used.started \in Nat
  BY IdleSound DEF IInv, Typed
<1>2. \A p \in Nat : [NoIn EXCEPT !.pwd = p] \in Ins
  BY DEF NoIn, Ins, None
<1>3. \A r \in Roles : [NoIn EXCEPT !.role = r] \in Ins /\ [NoIn EXCEPT !.role = r].role = r
  BY DEF NoIn, Ins, None
<1>4. \A r \in Roles : LET in == [NoIn EXCEPT !.role = r, !.pwd = 1] IN in \in Ins /\ in.role = r
  BY DEF NoIn, Ins, None
<1>5. CASE LoginRead(c, u)
  BY <1>1, <1>5, StartStep DEF LoginRead, Pcs
<1>6. CASE Logout(c, u)
  BY <1>1, <1>6, StartStep DEF Logout, Pcs
<1>7. CASE UpdateRead(c, u)
  <2>1. PICK in \in [pwd : {0, used.started + 2}, role : Roles \cup {None}, active : {"on", "off", None}] :
            Start(c, "update", "row", u, in)
    BY <1>7 DEF UpdateRead
  <2>2. in \in Ins
    BY <1>1 DEF Ins
  <2>3. QED
    BY <1>7, <2>1, <2>2, StartStep DEF UpdateRead, Pcs
<1>8. CASE ProfileRead(c, u)
  <2>1. PICK p \in {0, used.started + 2} : Start(c, "profile", "row", u, [NoIn EXCEPT !.pwd = p])
    BY <1>8 DEF ProfileRead
  <2>2. p \in Nat
    BY <1>1
  <2>3. QED
    BY <1>2, <1>8, <2>1, <2>2, StartStep DEF ProfileRead, Pcs
<1>9. CASE OidcRead(c, u)
  <2>1. PICK r \in Roles, pc \in {"role", "row"} : Start(c, "oidc", pc, u, [NoIn EXCEPT !.role = r])
    BY <1>9 DEF OidcRead, GroupRoles, Roles
  <2>2. pc \in Pcs
    BY DEF Pcs
  <2>3. [NoIn EXCEPT !.role = r] \in Ins /\ [NoIn EXCEPT !.role = r].role \in Roles
    BY <1>3
  <2>4. UNCHANGED <<users, held, tokens, clock, history>>
    BY <1>9 DEF OidcRead
  <2>5. QED
    BY <2>1, <2>2, <2>3, <2>4, StartStep
<1>10. CASE OidcProvision(c, u)
  <2>1. PICK r \in Roles : Start(c, "oidc", "insert", u, [NoIn EXCEPT !.role = r])
    BY <1>10 DEF OidcProvision, GroupRoles, Roles
  <2>2. QED
    BY <1>3, <1>10, <2>1, StartStep DEF OidcProvision, Pcs
<1>11. CASE CreateCheck(c, u)
  <2>1. PICK r \in Roles : Start(c, "create", "insert", u, [NoIn EXCEPT !.role = r, !.pwd = 1])
    BY <1>11 DEF CreateCheck
  <2>2. QED
    BY <1>4, <1>11, <2>1, StartStep DEF CreateCheck, Pcs
<1>12. CASE DeleteVet(c, u)
  BY <1>1, <1>12, StartStep DEF DeleteVet, Pcs
<1>13. QED
  BY <1>5, <1>6, <1>7, <1>8, <1>9, <1>10, <1>11, <1>12 DEF Request

-----------------------------------------------------------------------------
(* The statements.                                                         *)

\* A request that ends.
LEMMA DoneStep ==
  ASSUME IInv, NEW c \in Calls, Done(c), held' = [held EXCEPT ![c] = {}]
  PROVE  CallStep(c, Idle)
  BY IdleSound DEF Done, CallStep, Idle, None

\* No statement changes a row: the call ends or goes on.
LEMMA SilentStep ==
  ASSUME IInv, NEW c \in Calls, NEW r, CallStep(c, r), OtherTypes, UNCHANGED <<users, history>>
  PROVE  IInv'
<1>1. users' \in [Users -> Rows] /\ users' = users
  BY DEF IInv, Typed
<1>2. QED
  BY <1>1, QuietStep

\* A signed token carries the second it was signed in, which is not in the future.
LEMMA IssueTypes ==
  ASSUME IInv, NEW u \in Users, NEW role \in Roles, Issue(u, role), UNCHANGED <<clock, used>>
  PROVE  OtherTypes
<1>1. clock \in Nat /\ Second(clock) \in Nat /\ Second(clock) <= clock
  <2>1. clock \in Nat
    BY DEF IInv, Typed
  <2>2. clock % 2 \in 0..1 /\ (clock = 0 => clock % 2 = 0)
    BY <2>1
  <2>3. QED
    BY <2>1, <2>2 DEF Second
<1>2. QED
  BY <1>1 DEF IInv, Typed, OtherTypes, Issue

\* Where an update goes next.
LEMMA AfterStep ==
  ASSUME IInv, NEW c \in Calls, NEW pc \in {"row", "role", "active"}, NEW s \in Nat,
         call[c].op = "update", call[c].pc = pc
  PROVE  LET a == After(c, pc)
         IN  /\ a \in {"role", "active", "revoke", None} /\ Booted
             /\ Sound([call[c] EXCEPT !.pc = a])
             /\ Sound([call[c] EXCEPT !.pc = a, !.stamp = s])
<1> DEFINE a == After(c, pc)
<1>1. call[c] \in Recs /\ call[c].u \in Users /\ Booted
  BY DEF IInv, Typed, Sound, Floor, None
<1>2. a \in {"role", "active", "revoke", None} /\ (a = "role" => call[c].in.role # None)
  BY DEF After, None
<1>3. call[c].in.role \in Roles \cup {None}
  BY <1>1 DEF Recs, Ins
<1> HIDE DEF a
<1> DEFINE r == [call[c] EXCEPT !.pc = a]
<1>4. /\ r \in Recs /\ r.pc = a /\ r.u = call[c].u /\ r.op = "update" /\ r.in = call[c].in
  BY <1>1, <1>2 DEF Recs, Pcs
<1> HIDE DEF r
<1>5. Sound(r)
  BY <1>1, <1>2, <1>3, <1>4 DEF Sound, None
<1> DEFINE q == [r EXCEPT !.stamp = s]
<1>6. q \in Recs /\ q.pc = a /\ q.u = call[c].u /\ q.op = "update" /\ q.in = call[c].in
  BY <1>4 DEF Recs
<1>7. q = [call[c] EXCEPT !.pc = a, !.stamp = s]
  BY DEF r
<1> HIDE DEF q
<1>8. Sound(q)
  BY <1>1, <1>2, <1>3, <1>6 DEF Sound, None
<1>9. QED
  BY <1>1, <1>2, <1>5, <1>7, <1>8 DEF a, r

\* Update leaves rights, seats and bounds alone.
LEMMA WriteStep ==
  ASSUME IInv, NEW c \in Calls, NEW r, CallStep(c, r), UNCHANGED <<tokens, clock, used, history>>,
         NEW u \in Users, NEW copy \in Rows, Free(c, u), WriteRow(u, copy)
  PROVE  IInv'
<1>1. users \in [Users -> Rows]
  BY DEF IInv, Typed
<1>2. /\ users' \in [Users -> Rows]
      /\ \A v \in Users : /\ v # u => users'[v] = users[v]
                          /\ users'[v].st = users[v].st /\ users'[v].role = users[v].role
                          /\ users'[v].active = users[v].active /\ users'[v].bound = users[v].bound
  BY <1>1, WriteRowEffect
<1>3. OtherTypes
  BY OthersKept
<1>4. QED
  BY <1>2, <1>3, QuietStep

\* SetRole and SetActive: the decision is recorded, and a seat that is given
\* up is either counted as unguarded or not the last.
LEMMA FieldStep ==
  ASSUME IInv, NEW c \in Calls, NEW r, CallStep(c, r),
         UNCHANGED <<tokens, clock, used, revoked, overtaken>>,
         NEW u \in Users, NEW f \in {"role", "active"}, NEW v,
         f = "role" => v \in Roles, f = "active" => v \in BOOLEAN, Free(c, u), SetField(c, u, f, v),
         \/ held[c] = {}
         \/ ~IsSeat(users[u]) \/ IsSeat([users[u] EXCEPT ![f] = v])
         \/ \E w \in Users \ {u} : IsSeat(users[w])
  PROVE  IInv'
<1> DEFINE new == [users[u] EXCEPT ![f] = v]
<1>1. users \in [Users -> Rows] /\ decided \in [Users -> [role : Roles, active : BOOLEAN]]
  BY DEF IInv, Typed
<1>2. /\ users' \in [Users -> Rows] /\ decided' \in [Users -> [role : Roles, active : BOOLEAN]]
      /\ users'[u] = new
      /\ \A w \in Users \ {u} : users'[w] = users[w] /\ decided'[w] = decided[w]
      /\ users'[u].st = users[u].st /\ users'[u].bound = users[u].bound
      /\ \/ users'[u].role = users[u].role /\ decided'[u].role = decided[u].role
         \/ users'[u].role = decided'[u].role
      /\ \/ users'[u].active = users[u].active /\ decided'[u].active = decided[u].active
         \/ users'[u].active = decided'[u].active
  BY <1>1, SetFieldEffect
<1>3. unguarded' = (unguarded \/ (held[c] = {} /\ IsSeat(users[u]) /\ ~IsSeat(new)))
  BY DEF SetField
<1> HIDE DEF new
<1>4. /\ call' \in [Calls -> Recs] /\ held' \in [Calls -> SUBSET Users]
      /\ \A d \in Calls : Sound(call'[d]) /\ (call'[d].pc # None => Booted)
      /\ Locks'
  BY <1>2, LocksKept
<1>5. unguarded' \in BOOLEAN
  BY <1>3
<1>6. Typed'
  BY <1>2, <1>4, <1>5 DEF IInv, Typed
<1>7. Booted' = Booted
  BY <1>2 DEF Booted
<1>8. ~unguarded' /\ Booted => ActiveAdmins' # {}
  <2>1. SUFFICES ASSUME ~unguarded', Booted PROVE \E w \in Users : IsSeat(users'[w])
    BY DEF ActiveAdmins
  <2>2. PICK w \in Users : IsSeat(users[w])
    BY <1>3, <2>1 DEF IInv, Floor, ActiveAdmins
  <2>3. CASE IsSeat(new)
    BY <1>2, <2>3
  <2>4. CASE ~IsSeat(users[u])
    BY <1>2, <2>2, <2>4
  <2>5. CASE ~IsSeat(new) /\ IsSeat(users[u])
    BY <1>2, <1>3, <2>1, <2>5 DEF new
  <2>6. QED
    BY <2>3, <2>4, <2>5
<1>9. Floor'
  BY <1>4, <1>7, <1>8 DEF Floor
<1>10. LastDecisionStands'
  BY <1>2 DEF IInv, LastDecisionStands, Present
<1>11. Bounds'
  BY <1>2 DEF IInv, Bounds, Present
<1>12. QED
  BY <1>4, <1>6, <1>9, <1>10, <1>11 DEF IInv

\* Login, sign-in by SSO, and calls that end early.
LEMMA SilentSteps ==
  ASSUME IInv, NEW c \in Calls, RowMissing(c) \/ CallFails(c) \/ LoginSign(c) \/ OidcSign(c)
  PROVE  IInv'
<1>1. call[c] \in Recs /\ (call[c].pc # None => call[c].u \in Users)
  BY DEF IInv, Typed, Sound
<1>2. call[c].copy.role \in Roles
  BY <1>1 DEF Recs, Rows
<1>3. CASE RowMissing(c)
  <2>1. held' = [held EXCEPT ![c] = {}]
    BY <1>3, HoldsNothing DEF RowMissing
  <2>2. OtherTypes
    BY <1>3, OthersKept DEF RowMissing
  <2>3. CallStep(c, Idle)
    BY <1>3, <2>1, DoneStep DEF RowMissing
  <2>4. QED
    BY <1>3, <2>2, <2>3, SilentStep DEF RowMissing
<1>4. CASE CallFails(c)
  <2>1. used' \in [started : Nat, faults : Nat]
    BY <1>4 DEF CallFails, IInv, Typed
  <2>2. OtherTypes
    BY <1>4, <2>1 DEF CallFails, IInv, Typed, OtherTypes
  <2>3. CallStep(c, Idle)
    BY <1>4, DoneStep DEF CallFails
  <2>4. QED
    BY <1>4, <2>2, <2>3, SilentStep DEF CallFails
<1>5. CASE LoginSign(c) \/ OidcSign(c)
  <2>1. call[c].pc = "sign" /\ Issue(call[c].u, call[c].copy.role) /\ Done(c)
        /\ UNCHANGED <<users, held, clock, used, history>>
    BY <1>5 DEF LoginSign, OidcSign
  <2>2. held' = [held EXCEPT ![c] = {}]
    BY <2>1, HoldsNothing
  <2>3. OtherTypes
    BY <1>1, <1>2, <2>1, IssueTypes DEF None
  <2>4. CallStep(c, Idle)
    BY <2>1, <2>2, DoneStep
  <2>5. QED
    BY <2>1, <2>3, <2>4, SilentStep
<1>6. QED
  BY <1>3, <1>4, <1>5

\* The full row is written back.
LEMMA RowSteps ==
  ASSUME IInv, NEW c \in Calls, UpdateRow(c) \/ ProfileRow(c) \/ OidcRow(c)
  PROVE  IInv'
<1> DEFINE u == call[c].u
           copy == Apply(call[c].copy, call[c].in)
<1>1. call[c].pc = "row" /\ UNCHANGED <<held, tokens, clock, used, history>>
  BY DEF UpdateRow, ProfileRow, OidcRow
<1>2. Sound(call[c]) /\ u \in Users /\ Booted /\ clock \in Nat
  BY <1>1 DEF IInv, Typed, Sound, Floor, None
<1>3. call[c].copy \in Rows /\ copy \in Rows
  <2>1. call[c].copy \in Rows /\ call[c].in \in Ins
    BY <1>2 DEF Sound, Recs
  <2>2. QED
    BY <2>1, ApplyType
<1>4. held' = [held EXCEPT ![c] = {}]
  BY <1>1, HoldsNothing
<1>5. CASE UpdateRow(c)
  <2>1. CASE Done(c) /\ UNCHANGED users
    BY <1>1, <1>4, <2>1, DoneStep, OthersKept, SilentStep
  <2>2. CASE /\ Free(c, u) /\ WriteRow(u, copy)
             /\ call' = [call EXCEPT ![c] = IF After(c, "row") = None THEN Idle
                                          ELSE [@ EXCEPT !.pc = After(c, "row"), !.stamp = Stamp]]
    <3> DEFINE a == After(c, "row")
               r == IF a = None THEN Idle ELSE [call[c] EXCEPT !.pc = a, !.stamp = clock]
    <3>1. Sound([call[c] EXCEPT !.pc = a, !.stamp = clock])
      BY <1>1, <1>2, <1>5, AfterStep DEF UpdateRow
    <3>2. Sound(r)
      BY <3>1, IdleSound
    <3>3. call' = [call EXCEPT ![c] = r]
      BY <2>2 DEF Stamp, IInv, Typed
    <3> HIDE DEF r
    <3>4. CallStep(c, r)
      BY <1>2, <1>4, <3>2, <3>3 DEF CallStep
    <3>5. QED
      BY <1>1, <1>2, <1>3, <2>2, <3>4, WriteStep
  <2>3. QED
    BY <1>5, <2>1, <2>2 DEF UpdateRow
<1>6. CASE ProfileRow(c)
  <2> DEFINE q == [call[c] EXCEPT !.pc = "revoke"]
             r == IF call[c].in.pwd = 0 THEN Idle ELSE [q EXCEPT !.stamp = clock]
  <2>1. q \in Recs /\ q.pc = "revoke" /\ q.u = u /\ q.op = "profile" /\ q.in = call[c].in
    BY <1>2, <1>6 DEF ProfileRow, Sound, Recs, Pcs
  <2>2. call' = [call EXCEPT ![c] = r]
    BY <1>6 DEF ProfileRow, Stamp, IInv, Typed
  <2> HIDE DEF q
  <2>3. LET x == [q EXCEPT !.stamp = clock] IN x \in Recs /\ x.pc = "revoke" /\ x.u = u /\ x.op = "profile"
    BY <1>2, <2>1 DEF Recs
  <2>4. Sound(r)
    BY <1>2, <2>3, IdleSound DEF Sound
  <2> HIDE DEF r
  <2>5. CallStep(c, r)
    BY <1>2, <1>4, <2>2, <2>4 DEF CallStep
  <2>6. Free(c, u) /\ WriteRow(u, copy)
    BY <1>6 DEF ProfileRow
  <2>7. QED
    BY <1>1, <1>2, <1>3, <2>5, <2>6, WriteStep
<1>7. CASE OidcRow(c)
  <2> DEFINE r == [call[c] EXCEPT !.pc = "sign"]
  <2>1. r \in Recs /\ r.pc = "sign" /\ r.u = u /\ r.op = "oidc" /\ r.in = call[c].in
    BY <1>2, <1>7 DEF OidcRow, Sound, Recs, Pcs
  <2>2. call' = [call EXCEPT ![c] = r]
    BY <1>7 DEF OidcRow, Goto
  <2> HIDE DEF r
  <2>3. Sound(r)
    BY <1>2, <1>7, <2>1 DEF Sound, OidcRow
  <2>4. CallStep(c, r)
    BY <1>2, <1>4, <2>2, <2>3 DEF CallStep
  <2>5. Free(c, u) /\ WriteRow(u, call[c].copy)
    BY <1>7 DEF OidcRow
  <2>6. QED
    BY <1>1, <1>2, <1>3, <2>4, <2>5, WriteStep
<1>8. QED
  BY <1>5, <1>6, <1>7

\* A role or an activation is decided, with or without the floor.
LEMMA FieldSteps ==
  ASSUME IInv, NEW c \in Calls, NEW f \in {"role", "active"}, UpdateField(c, f) \/ FloorCommit(c, f)
  PROVE  IInv'
<1> DEFINE u == call[c].u
           v == Value(c, f)
           r == Proceed(c, f)
<1>1. /\ call[c].pc = f /\ SetField(c, u, f, v) /\ call' = [call EXCEPT ![c] = r]
      /\ UNCHANGED <<tokens, clock, used, revoked, overtaken>>
  BY DEF UpdateField, FloorCommit
<1>2. Sound(call[c]) /\ u \in Users /\ Booted
  BY <1>1 DEF IInv, Typed, Sound, Floor, None
<1>3. (f = "role" => v \in Roles) /\ (f = "active" => v \in BOOLEAN)
  BY <1>1, <1>2 DEF Sound, Value
<1>4. call[c].op = "update" /\ Free(c, u) /\ held' = [held EXCEPT ![c] = {}]
      /\ (held[c] = {} \/ SpareSeat(c))
  <2>1. CASE UpdateField(c, f)
    BY <2>1, HoldsNothing DEF UpdateField
  <2>2. CASE FloorCommit(c, f)
    <3>1. held[c] # {} /\ held' = [held EXCEPT ![c] = {}]
      BY <2>2 DEF FloorCommit
    <3>2. QED
      BY <3>1 DEF IInv, Locks, Free
  <2>3. QED
    BY <2>1, <2>2
<1>5. Sound(r)
  <2>1. Sound([call[c] EXCEPT !.pc = After(c, f)])
    BY <1>1, <1>4, AfterStep
  <2>2. QED
    BY <2>1, IdleSound DEF Proceed
<1> HIDE DEF r
<1>6. CallStep(c, r)
  BY <1>1, <1>2, <1>4, <1>5 DEF CallStep
<1>7. \/ held[c] = {}
      \/ ~IsSeat(users[u]) \/ IsSeat([users[u] EXCEPT ![f] = v])
      \/ \E w \in Users \ {u} : IsSeat(users[w])
  BY <1>1, <1>4 DEF SpareSeat, IInv, Typed
<1> HIDE DEF v
<1>8. QED
  BY <1>1, <1>2, <1>3, <1>4, <1>6, <1>7, FieldStep

\* The identity provider's role is written without the floor.
LEMMA OidcRoleStep == ASSUME IInv, NEW c \in Calls, OidcRole(c) PROVE IInv'
<1> DEFINE u == call[c].u
           v == call[c].in.role
           q == [call[c] EXCEPT !.pc = "row"]
           k == [call[c].copy EXCEPT !.role = v]
           r == [q EXCEPT !.copy = k]
<1>1. /\ call[c].op = "oidc" /\ call[c].pc = "role" /\ SetField(c, u, "role", v) /\ Free(c, u)
      /\ UNCHANGED <<held, tokens, clock, used, revoked, overtaken>>
  BY DEF OidcRole
<1>2. Sound(call[c]) /\ u \in Users /\ Booted /\ v \in Roles
  BY <1>1 DEF IInv, Typed, Sound, Floor, None
<1>3. q \in Recs /\ q.pc = "row" /\ q.u = u /\ q.op = "oidc" /\ q.in = call[c].in /\ q.copy = call[c].copy
  BY <1>1, <1>2 DEF Sound, Recs, Pcs
<1>4. k \in Rows
  <2>1. call[c].copy \in Rows
    BY <1>2 DEF Sound, Recs
  <2>2. QED
    BY <1>2, <2>1 DEF Rows
<1>5. call' = [call EXCEPT ![c] = r]
  <2> DEFINE moved == [call EXCEPT ![c] = q]
  <2>1. call \in [Calls -> Recs]
    BY DEF IInv, Typed
  <2>2. call' = [[call EXCEPT ![c].pc = "row"] EXCEPT ![c].copy.role = v]
    BY DEF OidcRole
  <2>3. moved = [call EXCEPT ![c].pc = "row"] /\ moved[c] = q
    BY <2>1
  <2>4. call' = [moved EXCEPT ![c] = [q EXCEPT !.copy.role = v]]
    BY <2>2, <2>3
  <2>5. [q EXCEPT !.copy.role = v] = r
    BY <1>3
  <2> HIDE DEF q, r, k
  <2>6. QED
    BY <2>1, <2>4, <2>5
<1> HIDE DEF q, k
<1>6. r \in Recs /\ r.pc = "row" /\ r.u = u /\ r.op = "oidc" /\ r.in = call[c].in
  BY <1>3, <1>4 DEF Recs
<1> HIDE DEF r
<1>7. Sound(r)
  BY <1>2, <1>6 DEF Sound
<1>8. held[c] = {} /\ held' = [held EXCEPT ![c] = {}]
  BY <1>1, HoldsNothing
<1>9. CallStep(c, r)
  BY <1>2, <1>5, <1>7, <1>8 DEF CallStep
<1>10. QED
  BY <1>1, <1>2, <1>8, <1>9, FieldStep

\* The seats are locked and counted before one is given up.
LEMMA JudgeStep ==
  ASSUME IInv, NEW c \in Calls, NEW f \in {"role", "active"}, FloorJudge(c, f)
  PROVE  IInv'
<1> DEFINE u == call[c].u
<1>1. /\ call[c].op = "update" /\ call[c].pc = f /\ Present(u) /\ Guarded(c) /\ held[c] = {}
      /\ \A v \in Seats(u) : Free(c, v)
      /\ UNCHANGED <<users, tokens, clock, used, history>>
  BY DEF FloorJudge
<1>2. held \in [Calls -> SUBSET Users] /\ u \in Users
  BY <1>1 DEF IInv, Typed, Sound, None
<1>3. CASE Done(c) /\ UNCHANGED held
  <2>1. held' = [held EXCEPT ![c] = {}]
    BY <1>1, <1>2, <1>3
  <2>2. QED
    BY <1>1, <1>3, <2>1, DoneStep, OthersKept, SilentStep
<1>4. CASE /\ held' = [held EXCEPT ![c] = Seats(u)] /\ UNCHANGED call
           /\ ~(IsSeat(users[u]) /\ ActiveAdmins = {u} /\ ~IsSeat([users[u] EXCEPT ![f] = Value(c, f)]))
  <2>1. Seats(u) \subseteq Users /\ u \in Seats(u) /\ \A v \in Seats(u) : Present(v)
    BY <1>1, <1>2 DEF Seats, ActiveAdmins, IsSeat, Present
  <2>2. /\ held' \in [Calls -> SUBSET Users] /\ held'[c] = Seats(u)
        /\ \A d \in Calls \ {c} : held'[d] = held[d]
    BY <1>2, <1>4, <2>1
  <2>3. SpareSeat(c)'
    <3>1. \/ ~IsSeat(users[u]) \/ IsSeat([users[u] EXCEPT ![f] = Value(c, f)])
          \/ \E v \in Seats(u) \ {u} : IsSeat(users[v])
      <4>1. IsSeat(users[u]) => u \in ActiveAdmins
        BY <1>2 DEF ActiveAdmins
      <4>2. u \in ActiveAdmins /\ ActiveAdmins # {u} => \E v \in ActiveAdmins : v # u
        OBVIOUS
      <4>3. \A v \in ActiveAdmins : v \in Seats(u) /\ IsSeat(users[v])
        BY DEF Seats, ActiveAdmins
      <4>4. QED
        BY <1>4, <4>1, <4>2, <4>3
    <3>2. QED
      BY <1>1, <1>4, <2>2, <3>1 DEF SpareSeat, Value
  <2>4. \A d, e \in Calls : d # e => held'[d] \cap held'[e] = {}
    BY <1>1, <2>2 DEF IInv, Locks, Free
  <2>5. ASSUME NEW d \in Calls, held'[d] # {}
        PROVE  /\ call'[d].op = "update" /\ call'[d].pc \in {"role", "active"} /\ Guarded(d)'
               /\ call'[d].u \in held'[d] /\ \A v \in held'[d] : Present(v)'
               /\ SpareSeat(d)'
    <3>1. CASE d = c
      BY <1>1, <1>4, <2>1, <2>2, <2>3, <3>1 DEF Guarded, Present
    <3>2. CASE d # c
      BY <1>1, <1>4, <2>2, <2>5, <3>2 DEF IInv, Locks, Guarded, Present, SpareSeat, Value
    <3>3. QED
      BY <3>1, <3>2
  <2>6. Locks'
    BY <2>4, <2>5 DEF Locks
  <2>7. Typed'
    BY <1>1, <1>4, <2>2 DEF IInv, Typed, history
  <2>8. Floor' /\ LastDecisionStands' /\ Bounds'
    BY <1>1, <1>4 DEF IInv, Floor, Booted, ActiveAdmins, LastDecisionStands, Bounds, Present, history
  <2>9. QED
    BY <2>6, <2>7, <2>8 DEF IInv
<1>5. QED
  BY <1>3, <1>4 DEF FloorJudge

\* A new row: the account has not been seen before, so it has no revocation.
LEMMA InsertStep == ASSUME IInv, NEW c \in Calls, Insert(c) PROVE IInv'
<1> DEFINE u == call[c].u
           new == Row(call[c].in.pwd, call[c].in.role, call[c].op = "oidc")
<1>1. call[c].pc = "insert" /\ UNCHANGED <<held, tokens, clock, used, revoked, overtaken, unguarded>>
  BY DEF Insert
<1>2. Sound(call[c]) /\ u \in Users /\ Booted /\ users \in [Users -> Rows]
  BY <1>1 DEF IInv, Typed, Sound, Floor, None
<1>3. held' = [held EXCEPT ![c] = {}]
  BY <1>1, HoldsNothing
<1>4. CASE users[u].st # "none"
  <2>1. Done(c) /\ UNCHANGED <<users, decided>>
    BY <1>4 DEF Insert
  <2>2. QED
    BY <1>1, <1>3, <2>1, DoneStep, OthersKept, SilentStep DEF history
<1>5. CASE users[u].st = "none"
  <2> DEFINE q == [call[c] EXCEPT !.pc = "row"]
             r == IF call[c].op = "oidc" THEN [q EXCEPT !.copy = new] ELSE Idle
             dec == [role |-> new.role, active |-> TRUE]
  <2>1. call[c].in \in Ins /\ call[c].in.role \in Roles
    BY <1>1, <1>2 DEF Sound, Recs
  <2>2. /\ new \in Rows /\ new.st = "row" /\ new.bound = 0 /\ new.role \in Roles
        /\ new.active = TRUE
    BY <2>1 DEF Row, Rows, Ins
  <2>3. users' = [users EXCEPT ![u] = new] /\ decided' = [decided EXCEPT ![u] = dec]
    BY <1>5 DEF Insert
  <2>4. q \in Recs /\ q.pc = "row" /\ q.u = u /\ q.op = call[c].op /\ q.in = call[c].in
    BY <1>2 DEF Sound, Recs, Pcs
  <2>5. call' = [call EXCEPT ![c] = r]
    BY <1>5 DEF Insert, IInv, Typed
  <2> HIDE DEF q, new
  <2>6. LET x == [q EXCEPT !.copy = new]
        IN  x \in Recs /\ x.pc = "row" /\ x.u = u /\ x.op = call[c].op /\ x.in = call[c].in
    BY <2>2, <2>4 DEF Recs
  <2>7. Sound(r)
    BY <1>2, <2>1, <2>6, IdleSound DEF Sound
  <2> HIDE DEF r
  <2>8. CallStep(c, r)
    BY <1>2, <1>3, <2>5, <2>7 DEF CallStep
  <2>9. users' \in [Users -> Rows] /\ users'[u] = new /\ \A v \in Users \ {u} : users'[v] = users[v]
    BY <1>2, <2>2, <2>3
  <2>10. /\ decided' \in [Users -> [role : Roles, active : BOOLEAN]]
         /\ decided'[u].role = new.role /\ decided'[u].active = TRUE
         /\ \A v \in Users \ {u} : decided'[v] = decided[v]
    <3>1. dec \in [role : Roles, active : BOOLEAN] /\ dec.role = new.role /\ dec.active = TRUE
      BY <2>2
    <3> HIDE DEF dec
    <3>2. QED
      BY <1>2, <2>3, <3>1 DEF IInv, Typed
  <2>11. /\ call' \in [Calls -> Recs] /\ held' \in [Calls -> SUBSET Users]
         /\ \A d \in Calls : Sound(call'[d]) /\ (call'[d].pc # None => Booted)
         /\ Locks'
    BY <1>5, <2>8, <2>9, LocksKept
  <2>12. Typed'
    BY <1>1, <2>9, <2>10, <2>11 DEF IInv, Typed
  <2>13. Floor'
    <3>1. Booted'
      BY <1>2, <2>2, <2>9 DEF Booted
    <3>2. \A v \in ActiveAdmins : v \in ActiveAdmins'
      BY <1>5, <2>9 DEF ActiveAdmins, IsSeat
    <3>3. QED
      BY <1>1, <1>2, <2>11, <3>1, <3>2 DEF IInv, Floor
  <2>14. LastDecisionStands'
    <3>1. \A v \in Users : Present(v) => users[v].role = decided[v].role /\ users[v].active = decided[v].active
      BY DEF IInv, LastDecisionStands
    <3>2. QED
      BY <2>2, <2>9, <2>10, <3>1 DEF LastDecisionStands, Present
  <2>15. Bounds'
    BY <1>1, <1>5, <2>2, <2>9 DEF IInv, Bounds, Present
  <2>16. QED
    BY <2>11, <2>12, <2>13, <2>14, <2>15 DEF IInv
<1>6. QED
  BY <1>4, <1>5

\* A deletion has no floor: the seat it takes away is counted as unguarded.
LEMMA DeleteStep == ASSUME IInv, NEW c \in Calls, DeleteRow(c) PROVE IInv'
<1> DEFINE u == call[c].u
           new == [NoRow EXCEPT !.st = "gone"]
<1>1. /\ call[c].pc = "delete" /\ Free(c, u) /\ users' = [users EXCEPT ![u] = new] /\ Done(c)
      /\ unguarded' = (unguarded \/ IsSeat(users[u]))
      /\ UNCHANGED <<held, tokens, clock, used, decided, revoked, overtaken>>
  BY DEF DeleteRow
<1>2. u \in Users /\ Booted /\ users \in [Users -> Rows]
  BY <1>1 DEF IInv, Typed, Sound, Floor, None
<1>3. new \in Rows /\ new.st = "gone"
  BY DEF NoRow, Rows, Roles
<1> HIDE DEF new
<1>4. users' \in [Users -> Rows] /\ users'[u] = new /\ \A v \in Users \ {u} : users'[v] = users[v]
  BY <1>1, <1>2, <1>3
<1>5. held' = [held EXCEPT ![c] = {}]
  BY <1>1, HoldsNothing
<1>6. CallStep(c, Idle)
  BY <1>1, <1>5, DoneStep
<1>7. /\ call' \in [Calls -> Recs] /\ held' \in [Calls -> SUBSET Users]
      /\ \A d \in Calls : Sound(call'[d]) /\ (call'[d].pc # None => Booted)
      /\ Locks'
  BY <1>1, <1>4, <1>6, LocksKept
<1>8. Typed'
  <2>1. unguarded' \in BOOLEAN
    BY <1>1 DEF IInv, Typed, IsSeat
  <2>2. QED
    BY <1>1, <1>4, <1>7, <2>1 DEF IInv, Typed
<1>9. Floor'
  <2>1. Booted'
    BY <1>2, <1>3, <1>4 DEF Booted
  <2>2. ~unguarded' => \A v \in ActiveAdmins : v \in ActiveAdmins'
    BY <1>1, <1>4 DEF ActiveAdmins
  <2>3. QED
    BY <1>1, <1>2, <1>7, <2>1, <2>2 DEF IInv, Floor
<1>10. LastDecisionStands' /\ Bounds'
  BY <1>1, <1>3, <1>4 DEF IInv, LastDecisionStands, Bounds, Present
<1>11. QED
  BY <1>7, <1>8, <1>9, <1>10 DEF IInv

\* A revocation moves the bound forward, or is recorded as overtaking.
LEMMA RevokeStep == ASSUME IInv, NEW c \in Calls, Revoke(c) PROVE IInv'
<1> DEFINE u == call[c].u
           s == call[c].stamp
           new == [users[u] EXCEPT !.bound = s]
<1>1. /\ call[c].pc = "revoke" /\ Free(c, u) /\ Done(c) /\ users' = [users EXCEPT ![u] = new]
      /\ overtaken' = overtaken \cup {x \in {u} : s < users[u].bound}
      /\ revoked' = [revoked EXCEPT ![u] = IF s > @ THEN s ELSE @]
      /\ UNCHANGED <<held, tokens, clock, used, decided, unguarded>> /\ Present(u)
  BY DEF Revoke, SetBound
<1>2. u \in Users /\ Booted /\ users \in [Users -> Rows] /\ revoked \in [Users -> Nat] /\ call[c] \in Recs
  BY <1>1 DEF IInv, Typed, Sound, Floor, None
<1>3. s \in Nat /\ users[u] \in Rows
  BY <1>2 DEF Recs
<1>4. /\ new \in Rows /\ new.bound = s /\ new.st = users[u].st /\ new.role = users[u].role
      /\ new.active = users[u].active
  BY <1>3 DEF Rows
<1> HIDE DEF new
<1>5. users' \in [Users -> Rows] /\ users'[u] = new /\ \A v \in Users \ {u} : users'[v] = users[v]
  BY <1>1, <1>2, <1>4
<1>6. held' = [held EXCEPT ![c] = {}]
  BY <1>1, HoldsNothing
<1>7. CallStep(c, Idle)
  BY <1>1, <1>6, DoneStep
<1>8. /\ call' \in [Calls -> Recs] /\ held' \in [Calls -> SUBSET Users]
      /\ \A d \in Calls : Sound(call'[d]) /\ (call'[d].pc # None => Booted)
      /\ Locks'
  BY <1>1, <1>5, <1>7, LocksKept
<1>9. /\ revoked' \in [Users -> Nat] /\ revoked'[u] = IF s > revoked[u] THEN s ELSE revoked[u]
      /\ \A v \in Users \ {u} : revoked'[v] = revoked[v]
  BY <1>1, <1>2, <1>3
<1>10. Typed'
  BY <1>1, <1>5, <1>8, <1>9 DEF IInv, Typed
<1>11. Floor'
  <2>1. Booted' = Booted /\ ActiveAdmins' = ActiveAdmins
    BY <1>4, <1>5 DEF Booted, ActiveAdmins, IsSeat
  <2>2. QED
    BY <1>1, <1>8, <2>1 DEF IInv, Floor
<1>12. LastDecisionStands'
  BY <1>1, <1>4, <1>5 DEF IInv, LastDecisionStands, Present
<1>13. Bounds'
  <2>1. users'[u].st # "none"
    BY <1>1, <1>4, <1>5 DEF Present
  <2>2. u \notin overtaken' => users'[u].bound = revoked'[u]
    <3>1. users[u].bound \in Nat /\ revoked[u] \in Nat
      BY <1>2, <1>3 DEF Rows
    <3>2. u \notin overtaken' => users[u].bound = revoked[u] /\ ~(s < users[u].bound)
      BY <1>1, <1>2 DEF IInv, Bounds
    <3>3. QED
      BY <1>3, <1>4, <1>5, <1>9, <3>1, <3>2
  <2>3. QED
    BY <1>1, <1>5, <1>9, <2>1, <2>2 DEF IInv, Bounds, Present
<1>14. QED
  BY <1>8, <1>10, <1>11, <1>12, <1>13 DEF IInv

\* The first start on an empty table: no request can be in flight.
LEMMA BootstrapStep == ASSUME IInv, NEW u \in Users, Bootstrap(u) PROVE IInv'
<1> DEFINE new == Row(1, "admin", FALSE)
           dec == [role |-> "admin", active |-> TRUE]
<1>1. /\ \A v \in Users : ~Present(v)
      /\ users[u].st = "none"
      /\ users' = [users EXCEPT ![u] = new]
      /\ decided' = [decided EXCEPT ![u] = dec]
      /\ UNCHANGED <<call, held, tokens, clock, used, revoked, overtaken, unguarded>>
  BY DEF Bootstrap
<1>2. /\ new \in Rows /\ new.bound = 0 /\ new.role = "admin" /\ new.active = TRUE /\ IsSeat(new)
  BY DEF Row, Rows, Roles, IsSeat
<1>3. dec \in [role : Roles, active : BOOLEAN] /\ dec.role = "admin" /\ dec.active = TRUE
  BY DEF Roles
<1> HIDE DEF new, dec
<1>4. users' \in [Users -> Rows] /\ users'[u] = new /\ \A v \in Users \ {u} : users'[v] = users[v]
  BY <1>1, <1>2 DEF IInv, Typed
<1>5. /\ decided' \in [Users -> [role : Roles, active : BOOLEAN]] /\ decided'[u] = dec
      /\ \A v \in Users \ {u} : decided'[v] = decided[v]
  BY <1>1, <1>3 DEF IInv, Typed
<1>6. Typed'
  BY <1>1, <1>4, <1>5 DEF IInv, Typed
<1>7. Locks'
  <2>1. \A c \in Calls : held[c] = {}
    BY <1>1 DEF IInv, Locks, Typed
  <2>2. QED
    BY <1>1, <2>1 DEF Locks
<1>8. Floor'
  <2>1. ActiveAdmins' # {} /\ Booted'
    BY <1>2, <1>4 DEF ActiveAdmins, Booted, IsSeat
  <2>2. QED
    BY <2>1 DEF Floor
<1>9. LastDecisionStands'
  <2>1. ASSUME NEW v \in Users \ {u} PROVE users'[v] = users[v] /\ decided'[v] = decided[v]
    BY <1>4, <1>5
  <2>2. /\ users'[u].role = decided'[u].role
        /\ users'[u].active = decided'[u].active
    BY <1>2, <1>3, <1>4, <1>5
  <2>3. QED
    BY <2>1, <2>2 DEF IInv, LastDecisionStands, Present
<1>10. Bounds'
  BY <1>1, <1>2, <1>4 DEF IInv, Bounds, Present, IsSeat
<1>11. QED
  BY <1>6, <1>7, <1>8, <1>9, <1>10 DEF IInv

\* Every step preserves the invariant.
LEMMA StepIInv == IInv /\ [Next]_vars => IInv'
<1> SUFFICES ASSUME IInv, [Next]_vars PROVE IInv'
  OBVIOUS
<1>1. ASSUME UNCHANGED <<users, call, held, tokens, used, history>>, clock' \in Nat PROVE IInv'
  <2>1. Typed'
    BY <1>1 DEF IInv, Typed, history
  <2>2. Locks'
    BY <1>1 DEF IInv, Locks, SpareSeat, Guarded, Present, Value
  <2>3. Floor' /\ LastDecisionStands' /\ Bounds'
    BY <1>1 DEF IInv, Floor, Booted, ActiveAdmins, LastDecisionStands, Bounds, Present, history
  <2>4. QED
    BY <2>1, <2>2, <2>3 DEF IInv
<1>2. CASE Tick
  <2>1. clock' \in Nat
    BY <1>2 DEF Tick, IInv, Typed
  <2>2. QED
    BY <1>1, <1>2, <2>1 DEF Tick
<1>3. CASE UNCHANGED vars
  <2>1. clock' \in Nat
    BY <1>3 DEF vars, IInv, Typed
  <2>2. QED
    BY <1>1, <1>3, <2>1 DEF vars, history
<1>4. ASSUME NEW c \in Calls, Statement(c) PROVE IInv'
  BY <1>4, SilentSteps, RowSteps, FieldSteps, OidcRoleStep, JudgeStep, InsertStep, DeleteStep, RevokeStep
     DEF Statement
<1>5. QED
  BY <1>2, <1>3, <1>4, RequestStep, BootstrapStep DEF Next

-----------------------------------------------------------------------------
(* Administrators who give up their seats at once, each under the floor,   *)
(* never leave the platform without one, however many there are            *)
(* (user_sql.go withAdminFloor).                                           *)
THEOREM FloorStands == Spec => []FloorHeld
<1>1. IInv => FloorHeld
  BY DEF IInv, Floor, FloorHeld, Booted, Present
<1>2. QED
  BY InitIInv, StepIInv, <1>1, PTL DEF Spec

(* A copy of a row that is written back late never undoes a decision on    *)
(* the account's role or activation (user_sql.go Update).                  *)
THEOREM DecisionsStand == Spec => []LastDecisionStands
<1>1. IInv => LastDecisionStands
  BY DEF IInv
<1>2. QED
  BY InitIInv, StepIInv, <1>1, PTL DEF Spec

(* A token handed out before a revocation is refused from then on, unless  *)
(* an older revocation finishes later (user_sql.go SetTokensValidAfter,    *)
(* middleware.go revoked).                                                 *)
THEOREM RevocationsStand == Spec => []RevocationStands
<1>1. IInv => RevocationStands
  <2> SUFFICES ASSUME IInv, NEW k \in tokens, k.user \notin overtaken, k.at < revoked[k.user], VetBearer(k)
               PROVE  FALSE
    BY DEF RevocationStands
  <2>1. k.user \in Users /\ k.iat \in Nat /\ k.at \in Nat /\ k.iat <= k.at
    BY DEF IInv, Typed
  <2>2. users[k.user].bound = revoked[k.user] /\ revoked[k.user] \in Nat
    BY <2>1 DEF IInv, Typed, Bounds, VetBearer, Present
  <2>3. QED
    BY <2>1, <2>2 DEF VetBearer, Revoked
<1>2. QED
  BY InitIInv, StepIInv, <1>1, PTL DEF Spec
-----------------------------------------------------------------------------
(* The types: passwords are among those that were ever set, and no time    *)
(* that is written down lies in the future.                                *)

RowFits(r)  == r.pwd \in Passwords /\ r.bound <= clock
CallFits(r) == r.copy.pwd \in Passwords /\ r.in.pwd \in Passwords /\ r.stamp <= clock

UsersFit == \A u \in Users : RowFits(users[u])
CallsFit == \A c \in Calls : CallFits(call[c])
TimesFit ==
    /\ clock \in 0..MaxTime /\ overtaken \subseteq Users
    /\ \A k \in tokens : k.at <= clock

Fits == UsersFit /\ CallsFit /\ TimesFit

\* Together with what the other proofs know, these are the types.
LEMMA FitsTypes == IInv /\ Fits => TypeOK
<1> SUFFICES ASSUME IInv, Fits PROVE TypeOK
  OBVIOUS
<1>1. ASSUME NEW u \in Users
      PROVE  users[u] \in [st : {"none", "row", "gone"}, pwd : Passwords, role : Roles,
                           active : BOOLEAN, bound : 0..clock, sso : BOOLEAN]
  <2>1. users[u] \in Rows /\ users[u].pwd \in Passwords /\ users[u].bound <= clock /\ clock \in Nat
    BY DEF IInv, Typed, Fits, UsersFit, RowFits
  <2>2. users[u].bound \in 0..clock
    BY <2>1 DEF Rows
  <2>3. QED
    BY <2>1, <2>2 DEF Rows
<1>2. ASSUME NEW c \in Calls
      PROVE  /\ call[c].op \in Ops \cup {None} /\ call[c].u \in Users \cup {None}
             /\ held[c] \subseteq Users
             /\ held[c] # {} => Guarded(c) /\ call[c].pc \in {"role", "active"}
  <2>1. call[c] \in Recs /\ held[c] \in SUBSET Users
    BY DEF IInv, Typed
  <2>2. QED
    BY <2>1 DEF IInv, Locks, Recs
<1>3. ASSUME NEW k \in tokens PROVE k \in [user : Users, role : Roles, iat : 0..clock, at : 0..clock]
  <2>1. /\ k \in [user : Users, role : Roles, iat : Nat, at : Nat] /\ k.iat <= k.at
        /\ k.at <= clock /\ clock \in Nat
    BY DEF IInv, Typed, Fits, TimesFit
  <2>2. k.iat \in 0..clock /\ k.at \in 0..clock
    BY <2>1
  <2>3. QED
    BY <2>1, <2>2
<1>4. users \in [Users -> [st : {"none", "row", "gone"}, pwd : Passwords, role : Roles,
                           active : BOOLEAN, bound : 0..clock, sso : BOOLEAN]]
  BY <1>1 DEF IInv, Typed
<1>5. clock \in 0..MaxTime /\ overtaken \subseteq Users /\ unguarded \in BOOLEAN
  BY DEF IInv, Typed, Fits, TimesFit
<1>6. QED
  BY <1>2, <1>3, <1>4, <1>5 DEF TypeOK

\* The passwords of new accounts, and of none.
LEMMA FirstPasswords == 0 \in Passwords /\ 1 \in Passwords /\ MaxStarted \in Nat
  BY AccountsAssumption DEF Passwords

\* A finished request, and no row, fit at any time.
LEMMA IdleFits ==
  ASSUME clock \in Nat
  PROVE  CallFits(Idle) /\ RowFits(NoRow) /\ NoIn.pwd = 0
  BY FirstPasswords DEF CallFits, RowFits, Idle, NoRow, NoIn

\* They hold of a table at rest.
LEMMA InitFits == Init => Fits
<1> SUFFICES ASSUME Init PROVE Fits
  OBVIOUS
<1>1. clock = 2 /\ clock \in 0..MaxTime
  BY AccountsAssumption DEF Init
<1>2. ASSUME NEW u \in Users PROVE RowFits(users[u])
  <2>1. \/ users[u] = NoRow
        \/ \E r \in Roles : users[u] = Row(1, r, FALSE) \/ users[u] = Row(0, r, TRUE)
    BY DEF Init
  <2>2. \A p \in {0, 1}, r \in Roles, b \in BOOLEAN : Row(p, r, b).pwd = p /\ Row(p, r, b).bound = 0
    BY DEF Row
  <2>3. \A p \in {0, 1}, r \in Roles, b \in BOOLEAN : RowFits(Row(p, r, b))
    BY <1>1, <2>2, FirstPasswords DEF RowFits
  <2>4. QED
    BY <1>1, <2>1, <2>3, IdleFits
<1>3. CallsFit
  BY <1>1, IdleFits DEF Init, CallsFit
<1>4. \A k \in tokens : k.at = 2
  BY DEF Init
<1>5. QED
  BY <1>1, <1>2, <1>3, <1>4 DEF Init, Fits, UsersFit, TimesFit

\* One request becomes r.
LEMMA CallBecomes ==
  ASSUME IInv, CallsFit, clock' = clock, NEW c \in Calls, NEW r, CallFits(r), call' = [call EXCEPT ![c] = r]
  PROVE  CallsFit'
<1>1. \A d \in Calls : call'[d] = IF d = c THEN r ELSE call[d]
  BY DEF IInv, Typed
<1>2. QED
  BY <1>1 DEF CallsFit, CallFits

\* One account becomes r.
LEMMA RowBecomes ==
  ASSUME IInv, UsersFit, clock' = clock, NEW u \in Users, NEW r, RowFits(r), users' = [users EXCEPT ![u] = r]
  PROVE  UsersFit'
<1>1. \A v \in Users : users'[v] = IF v = u THEN r ELSE users[v]
  BY DEF IInv, Typed
<1>2. QED
  BY <1>1 DEF UsersFit, RowFits

\* A request goes on, now dated or not.
LEMMA GoesOn ==
  ASSUME IInv, CallsFit, NEW c \in Calls, NEW pc
  PROVE  CallFits([call[c] EXCEPT !.pc = pc]) /\ CallFits([call[c] EXCEPT !.pc = pc, !.stamp = Stamp])
<1>1. call[c] \in Recs /\ CallFits(call[c]) /\ clock \in Nat
  BY DEF IInv, Typed, CallsFit
<1> DEFINE r == [call[c] EXCEPT !.pc = pc]
           q == [r EXCEPT !.stamp = Stamp]
<1>2. r.copy = call[c].copy /\ r.in = call[c].in /\ r.stamp = call[c].stamp
  BY <1>1 DEF Recs
<1>3. q.copy = call[c].copy /\ q.in = call[c].in /\ q.stamp = clock
  BY <1>1 DEF Recs, Stamp
<1>4. q = [call[c] EXCEPT !.pc = pc, !.stamp = Stamp]
  OBVIOUS
<1> HIDE DEF r, q
<1>5. CallFits(r) /\ CallFits(q)
  BY <1>1, <1>2, <1>3 DEF CallFits
<1>6. QED
  BY <1>4, <1>5 DEF r

\* Writing the row back copies a password, writing a field none.
LEMMA RowWrites ==
  ASSUME IInv, UsersFit, clock' = clock, NEW c \in Calls, NEW u \in Users,
         \/ \E copy : WriteRow(u, copy) /\ copy.pwd \in Passwords
         \/ \E f \in {"role", "active"} : \E v : SetField(c, u, f, v)
  PROVE  UsersFit'
<1>1. users[u] \in Rows /\ RowFits(users[u])
  BY DEF IInv, Typed, UsersFit
<1>2. ASSUME NEW copy, WriteRow(u, copy), copy.pwd \in Passwords PROVE UsersFit'
  <2> DEFINE r1 == [users[u] EXCEPT !.pwd = copy.pwd]
             r2 == [r1 EXCEPT !.sso = copy.sso]
  <2>1. r1.pwd = copy.pwd /\ r1.bound = users[u].bound /\ r2.pwd = r1.pwd /\ r2.bound = r1.bound
    BY <1>1 DEF Rows
  <2>2. users' = [users EXCEPT ![u] = r2]
    BY <1>2 DEF WriteRow
  <2> HIDE DEF r1, r2
  <2>3. RowFits(r2)
    BY <1>1, <1>2, <2>1 DEF RowFits
  <2>4. QED
    BY <2>2, <2>3, RowBecomes
<1>3. ASSUME NEW f \in {"role", "active"}, NEW v, SetField(c, u, f, v) PROVE UsersFit'
  <2> DEFINE r == [users[u] EXCEPT ![f] = v]
  <2>1. r.pwd = users[u].pwd /\ r.bound = users[u].bound
    BY <1>1 DEF Rows
  <2>2. users' = [users EXCEPT ![u] = r]
    BY <1>3 DEF SetField
  <2> HIDE DEF r
  <2>3. RowFits(r)
    BY <1>1, <2>1 DEF RowFits
  <2>4. QED
    BY <2>2, <2>3, RowBecomes
<1>4. QED
  BY <1>2, <1>3

\* The row an update writes back carries the request's password or the copy's.
LEMMA ApplyFits ==
  ASSUME IInv, CallsFit, NEW c \in Calls
  PROVE  Apply(call[c].copy, call[c].in).pwd \in Passwords
<1>1. call[c] \in Recs /\ CallFits(call[c])
  BY DEF IInv, Typed, CallsFit
<1>2. Apply(call[c].copy, call[c].in).pwd \in {call[c].copy.pwd, call[c].in.pwd}
  BY <1>1 DEF Recs, Rows, Apply
<1>3. QED
  BY <1>1, <1>2 DEF CallFits

\* A request starts from a row of the table and a password never used before.
LEMMA RequestFits ==
  ASSUME IInv, UsersFit, CallsFit, TimesFit, NEW c \in Calls, NEW u \in Users, Request(c, u)
  PROVE  UsersFit' /\ CallsFit' /\ TimesFit'
<1>1. UNCHANGED <<users, held, tokens, clock, history>>
  BY DEF Request, LoginRead, Logout, UpdateRead, ProfileRead, OidcRead, OidcProvision, CreateCheck, DeleteVet
<1>2. UsersFit' /\ TimesFit'
  BY <1>1 DEF UsersFit, RowFits, TimesFit, history
<1>3. clock \in Nat /\ used.started \in Nat
  BY DEF IInv, Typed
<1>4. ASSUME NEW op, NEW pc, NEW in, Start(c, op, pc, u, in), in.pwd \in Passwords PROVE CallsFit'
  <2> DEFINE r == [op |-> op, pc |-> pc, u |-> u, copy |-> users[u], in |-> in,
                   stamp |-> IF op = "logout" THEN Stamp ELSE 0]
  <2>1. call' = [call EXCEPT ![c] = r]
    BY <1>4 DEF Start
  <2>2. r.copy = users[u] /\ r.in = in /\ r.stamp \in {0, clock}
    BY DEF Stamp
  <2> HIDE DEF r
  <2>3. CallFits(r)
    BY <1>3, <1>4, <2>2 DEF CallFits, UsersFit, RowFits
  <2>4. QED
    BY <1>1, <2>1, <2>3, CallBecomes
<1>5. ASSUME NEW op, NEW pc, NEW in, Start(c, op, pc, u, in), in.pwd \in {0, 1, used.started + 2}
      PROVE  CallsFit'
  <2>1. used.started < MaxStarted
    BY <1>5 DEF Start
  <2>2. in.pwd \in Passwords
    BY <1>3, <1>5, <2>1, FirstPasswords DEF Passwords
  <2>3. QED
    BY <1>4, <1>5, <2>2
<1>6. /\ NoIn.pwd = 0 /\ \A p : [NoIn EXCEPT !.pwd = p].pwd = p
      /\ \A r : [NoIn EXCEPT !.role = r].pwd = 0 /\ [NoIn EXCEPT !.role = r, !.pwd = 1].pwd = 1
  BY DEF NoIn
<1>7. CASE LoginRead(c, u) \/ Logout(c, u) \/ DeleteVet(c, u)
  BY <1>2, <1>5, <1>6, <1>7 DEF LoginRead, Logout, DeleteVet
<1>8. CASE UpdateRead(c, u)
  <2>1. PICK in \in [pwd : {0, used.started + 2}, role : Roles \cup {None}, active : {"on", "off", None}] :
           Start(c, "update", "row", u, in)
    BY <1>8 DEF UpdateRead
  <2>2. QED
    BY <1>2, <1>5, <2>1
<1>9. CASE ProfileRead(c, u)
  <2>1. PICK p \in {0, used.started + 2} : Start(c, "profile", "row", u, [NoIn EXCEPT !.pwd = p])
    BY <1>9 DEF ProfileRead
  <2>2. QED
    BY <1>2, <1>5, <1>6, <2>1
<1>10. CASE OidcRead(c, u) \/ OidcProvision(c, u)
  <2>1. \E r, pc : Start(c, "oidc", pc, u, [NoIn EXCEPT !.role = r])
    BY <1>10 DEF OidcRead, OidcProvision
  <2>2. QED
    BY <1>2, <1>5, <1>6, <2>1
<1>11. CASE CreateCheck(c, u)
  <2>1. PICK r \in Roles : Start(c, "create", "insert", u, [NoIn EXCEPT !.role = r, !.pwd = 1])
    BY <1>11 DEF CreateCheck
  <2>2. QED
    BY <1>2, <1>5, <1>6, <2>1
<1>12. QED
  BY <1>2, <1>7, <1>8, <1>9, <1>10, <1>11 DEF Request

\* Times are written down by the sign-in and by the revocation only.
LEMMA TimesStayFit ==
  ASSUME IInv, TimesFit, NEW c \in Calls, Statement(c)
  PROVE  clock' = clock /\ TimesFit'
<1>1. clock' = clock /\ clock \in Nat
  BY DEF Statement, RowMissing, CallFails, LoginSign, Revoke, UpdateRow, UpdateField, FloorJudge,
     FloorCommit, ProfileRow, OidcRole, OidcRow, OidcSign, Insert, DeleteRow, IInv, Typed
<1>2. tokens' = tokens \/ \E u, role : Issue(u, role)
  BY DEF Statement, RowMissing, CallFails, LoginSign, Revoke, UpdateRow, UpdateField, FloorJudge,
     FloorCommit, ProfileRow, OidcRole, OidcRow, OidcSign, Insert, DeleteRow
<1>3. \A k \in tokens' : k \in tokens \/ k.at = clock
  BY <1>2 DEF Issue
<1>4. \/ overtaken' = overtaken
      \/ \E u \in Users : overtaken' = overtaken \cup {x \in {u} : call[c].stamp < users[u].bound}
  <2>1. CASE Revoke(c)
    <3>1. call[c].u \in Users
      BY <2>1 DEF Revoke, IInv, Typed, Sound, None
    <3>2. QED
      BY <2>1, <3>1 DEF Revoke, SetBound
  <2>2. CASE ~Revoke(c)
    BY <2>2 DEF Statement, RowMissing, CallFails, LoginSign, UpdateRow, UpdateField, FloorJudge,
       FloorCommit, ProfileRow, OidcRole, OidcRow, OidcSign, Insert, DeleteRow, history
  <2>3. QED
    BY <2>1, <2>2
<1>5. QED
  BY <1>1, <1>3, <1>4 DEF TimesFit

\* What a statement writes was in the request or in its copy.
LEMMA StatementFits ==
  ASSUME IInv, UsersFit, CallsFit, TimesFit, NEW c \in Calls, Statement(c)
  PROVE  UsersFit' /\ CallsFit' /\ TimesFit'
<1> DEFINE u == call[c].u
<1>1. clock' = clock /\ TimesFit' /\ clock \in Nat
  BY TimesStayFit DEF IInv, Typed
<1>2. call[c] \in Recs /\ CallFits(call[c]) /\ (call[c].pc # None => u \in Users)
  BY DEF IInv, Typed, Sound, CallsFit
<1>3. UNCHANGED users => UsersFit'
  BY <1>1 DEF UsersFit, RowFits
<1>4. UNCHANGED call => CallsFit'
  BY <1>1 DEF CallsFit, CallFits
<1>5. Done(c) => CallsFit'
  BY <1>1, IdleFits, CallBecomes DEF Done
<1>6. ASSUME NEW pc, \/ call' = [call EXCEPT ![c] = [call[c] EXCEPT !.pc = pc]]
                     \/ call' = [call EXCEPT ![c] = [call[c] EXCEPT !.pc = pc, !.stamp = Stamp]]
      PROVE  CallsFit'
  BY <1>1, <1>6, GoesOn, CallBecomes
<1>7. CASE RowMissing(c) \/ CallFails(c) \/ LoginSign(c) \/ OidcSign(c)
  BY <1>1, <1>3, <1>5, <1>7 DEF RowMissing, CallFails, LoginSign, OidcSign
<1>8. CASE Revoke(c)
  <2> DEFINE r == [users[u] EXCEPT !.bound = call[c].stamp]
  <2>1. u \in Users /\ users[u] \in Rows /\ RowFits(users[u])
    BY <1>2, <1>8 DEF Revoke, None, IInv, Typed, UsersFit
  <2>2. users' = [users EXCEPT ![u] = r] /\ Done(c)
    BY <1>8 DEF Revoke, SetBound
  <2>3. r.pwd = users[u].pwd /\ r.bound = call[c].stamp
    BY <2>1 DEF Rows
  <2> HIDE DEF r, u
  <2>4. RowFits(r)
    BY <1>2, <2>1, <2>3 DEF RowFits, CallFits
  <2>5. QED
    BY <1>1, <1>5, <2>1, <2>2, <2>4, RowBecomes
<1>9. CASE UpdateRow(c)
  <2>1. u \in Users
    BY <1>2, <1>9 DEF UpdateRow, None
  <2>2. UNCHANGED users \/ WriteRow(u, Apply(call[c].copy, call[c].in))
    BY <1>9 DEF UpdateRow
  <2>3. UsersFit'
    BY <1>1, <1>3, <2>1, <2>2, RowWrites, ApplyFits
  <2>4. \/ call' = [call EXCEPT ![c] = Idle]
        \/ call' = [call EXCEPT ![c] = [call[c] EXCEPT !.pc = After(c, "row"), !.stamp = Stamp]]
    BY <1>9 DEF UpdateRow, Done
  <2>5. QED
    BY <1>1, <1>5, <1>6, <2>3, <2>4 DEF Done
<1>10. ASSUME NEW f \in {"role", "active"}, UpdateField(c, f) \/ FloorJudge(c, f) \/ FloorCommit(c, f)
       PROVE  UsersFit' /\ CallsFit'
  <2>1. u \in Users
    BY <1>2, <1>10 DEF UpdateField, FloorJudge, FloorCommit, None
  <2>2. UNCHANGED users \/ SetField(c, u, f, Value(c, f))
    BY <1>10 DEF UpdateField, FloorJudge, FloorCommit
  <2>3. UsersFit'
    BY <1>1, <1>3, <2>1, <2>2, RowWrites
  <2>4. \/ call' = [call EXCEPT ![c] = Idle] \/ UNCHANGED call
        \/ call' = [call EXCEPT ![c] = [call[c] EXCEPT !.pc = After(c, f)]]
    BY <1>10 DEF UpdateField, FloorJudge, FloorCommit, Done, Proceed
  <2>5. QED
    BY <1>4, <1>5, <1>6, <2>3, <2>4 DEF Done
<1>11. CASE ProfileRow(c)
  <2>1. u \in Users /\ WriteRow(u, Apply(call[c].copy, call[c].in))
    BY <1>2, <1>11 DEF ProfileRow, None
  <2>2. UsersFit'
    BY <1>1, <2>1, RowWrites, ApplyFits
  <2>3. \/ call' = [call EXCEPT ![c] = Idle]
        \/ call' = [call EXCEPT ![c] = [call[c] EXCEPT !.pc = "revoke", !.stamp = Stamp]]
    BY <1>11 DEF ProfileRow
  <2>4. QED
    BY <1>1, <1>5, <1>6, <2>2, <2>3 DEF Done
<1>12. CASE OidcRole(c)
  <2> DEFINE q == [call[c] EXCEPT !.pc = "row"]
             k == [call[c].copy EXCEPT !.role = call[c].in.role]
             r == [q EXCEPT !.copy = k]
  <2>1. u \in Users /\ SetField(c, u, "role", call[c].in.role)
    BY <1>2, <1>12 DEF OidcRole, None
  <2>2. UsersFit'
    BY <1>1, <2>1, RowWrites
  <2>3. q \in [op : Ops \cup {None}, pc : Pcs, u : Users \cup {None}, copy : Rows, in : Ins, stamp : Nat]
        /\ q.copy = call[c].copy /\ q.in = call[c].in /\ q.stamp = call[c].stamp
    BY <1>2 DEF Recs, Pcs
  <2>4. k.pwd = call[c].copy.pwd
    BY <1>2 DEF Recs, Rows
  <2>5. r.copy = k /\ r.in = call[c].in /\ r.stamp = call[c].stamp
    BY <2>3
  <2>6. call' = [call EXCEPT ![c] = r]
    <3> DEFINE moved == [call EXCEPT ![c] = q]
    <3>1. call \in [Calls -> Recs]
      BY DEF IInv, Typed
    <3>2. call' = [[call EXCEPT ![c].pc = "row"] EXCEPT ![c].copy.role = call[c].in.role]
      BY <1>12 DEF OidcRole
    <3>3. moved = [call EXCEPT ![c].pc = "row"] /\ moved[c] = q
      BY <3>1
    <3>4. call' = [moved EXCEPT ![c] = [q EXCEPT !.copy.role = call[c].in.role]]
      BY <3>2, <3>3
    <3>5. [q EXCEPT !.copy.role = call[c].in.role] = r
      BY <2>3
    <3> HIDE DEF q, r, k
    <3>6. QED
      BY <3>1, <3>4, <3>5
  <2> HIDE DEF q, k, r
  <2>7. CallFits(r)
    BY <1>2, <2>4, <2>5 DEF CallFits
  <2>8. QED
    BY <1>1, <2>2, <2>6, <2>7, CallBecomes
<1>13. CASE OidcRow(c)
  <2>1. u \in Users /\ WriteRow(u, call[c].copy) /\ call[c].copy.pwd \in Passwords
    BY <1>2, <1>13 DEF OidcRow, None, CallFits
  <2>2. UsersFit'
    BY <1>1, <2>1, RowWrites
  <2>3. call' = [call EXCEPT ![c] = [call[c] EXCEPT !.pc = "sign"]]
    BY <1>13 DEF OidcRow, Goto
  <2>4. QED
    BY <1>1, <1>6, <2>2, <2>3
<1>14. CASE Insert(c)
  <2> DEFINE new == Row(call[c].in.pwd, call[c].in.role, call[c].op = "oidc")
             q   == [call[c] EXCEPT !.pc = "row"]
             r   == [q EXCEPT !.copy = new]
  <2>1. u \in Users
    BY <1>2, <1>14 DEF Insert, None
  <2>2. \/ Done(c) /\ UNCHANGED users
        \/ /\ users' = [users EXCEPT ![u] = new]
           /\ call' = [call EXCEPT ![c] = Idle] \/ call' = [call EXCEPT ![c] = r]
    BY <1>14 DEF Insert
  <2>3. new.pwd = call[c].in.pwd /\ new.bound = 0
    BY DEF Row
  <2>4. r.copy = new /\ r.in = call[c].in /\ r.stamp = call[c].stamp
    BY <1>2 DEF Recs
  <2> HIDE DEF new, r, u
  <2>5. RowFits(new) /\ CallFits(r)
    BY <1>1, <1>2, <2>3, <2>4 DEF RowFits, CallFits
  <2>6. QED
    BY <1>1, <1>3, <1>5, <2>1, <2>2, <2>5, RowBecomes, CallBecomes DEF Done
<1>15. CASE DeleteRow(c)
  <2> DEFINE r == [NoRow EXCEPT !.st = "gone"]
  <2>1. u \in Users /\ Done(c) /\ users' = [users EXCEPT ![u] = r]
    BY <1>2, <1>15 DEF DeleteRow, None
  <2>2. RowFits(r)
    BY <1>1, FirstPasswords DEF RowFits, NoRow
  <2> HIDE DEF r, u
  <2>3. QED
    BY <1>1, <1>5, <2>1, <2>2, RowBecomes
<1>16. QED
  BY <1>1, <1>7, <1>8, <1>9, <1>10, <1>11, <1>12, <1>13, <1>14, <1>15 DEF Statement

\* Every step keeps the types.
LEMMA FitsStays == IInv /\ Fits /\ [Next]_vars => Fits'
<1> SUFFICES ASSUME IInv, Fits, [Next]_vars PROVE Fits'
  OBVIOUS
<1>1. UsersFit /\ CallsFit /\ TimesFit /\ clock \in Nat
  BY DEF Fits, IInv, Typed
<1>2. CASE Tick
  <2>1. clock' = clock + 1 /\ clock' \in 0..MaxTime /\ UNCHANGED <<users, call, tokens, overtaken>>
    BY <1>1, <1>2, AccountsAssumption DEF Tick, history
  <2>2. ASSUME NEW v \in Users PROVE users[v].bound \in Nat /\ users[v].bound <= clock
    BY <1>1 DEF IInv, Typed, Rows, UsersFit, RowFits
  <2>3. ASSUME NEW c \in Calls PROVE call[c].stamp \in Nat /\ call[c].stamp <= clock
    <3>1. call[c] \in Recs
      BY DEF IInv, Typed
    <3>2. QED
      BY <1>1, <3>1 DEF Recs, CallsFit, CallFits
  <2>4. \A k \in tokens : k.at \in Nat /\ k.at <= clock
    BY <1>1 DEF IInv, Typed, TimesFit
  <2>5. UsersFit'
    BY <1>1, <2>1, <2>2 DEF UsersFit, RowFits
  <2>6. CallsFit'
    BY <1>1, <2>1, <2>3 DEF CallsFit, CallFits
  <2>7. TimesFit'
    BY <1>1, <2>1, <2>4 DEF TimesFit
  <2>8. QED
    BY <2>5, <2>6, <2>7 DEF Fits
<1>3. ASSUME NEW u \in Users, Bootstrap(u) PROVE Fits'
  <2> DEFINE r == Row(1, "admin", FALSE)
  <2>1. users' = [users EXCEPT ![u] = r] /\ UNCHANGED <<call, tokens, clock, overtaken>>
    BY <1>3 DEF Bootstrap
  <2>2. RowFits(r)
    BY <1>1, FirstPasswords DEF RowFits, Row
  <2> HIDE DEF r
  <2>3. UsersFit'
    BY <1>1, <2>1, <2>2, RowBecomes
  <2>4. CallsFit' /\ TimesFit'
    BY <1>1, <2>1 DEF CallsFit, CallFits, TimesFit
  <2>5. QED
    BY <2>3, <2>4 DEF Fits
<1>4. CASE UNCHANGED vars
  BY <1>4 DEF vars, history, Fits, UsersFit, RowFits, CallsFit, CallFits, TimesFit
<1>5. QED
  BY <1>1, <1>2, <1>3, <1>4, RequestFits, StatementFits DEF Next, Fits

(* The types, for any number of accounts, requests and calls: in them,     *)
(* that seats are locked only for the decision about them, and that no     *)
(* bound or token is dated ahead of the clock, so that whoever signs in    *)
(* now is not refused for a revocation to come (user_sql.go withAdminFloor,*)
(* SetTokensValidAfter; middleware.go revoked).                            *)
THEOREM TypesHold == Spec => []TypeOK
  BY InitIInv, StepIInv, InitFits, FitsStays, FitsTypes, PTL DEF Spec
=============================================================================
