------------------------------- MODULE Roles -------------------------------
(***************************************************************************)
(* Roles and the accounts that get them (roles/rolePermissionService.js,   *)
(* users/userAccessService.js): the default roles are constants of the     *)
(* code until one is edited, which stores a row over them; an employee     *)
(* gets an account with a role. System management (system/service.js)      *)
(* writes the same rows.                                                   *)
(***************************************************************************)
EXTENDS Naturals, Sequences, FiniteSets, FiniteSetsExt

CONSTANTS
    Key,         \* role keys
    Default,     \* those of the default roles
    Super,       \* the one that is protected
    Permission,
    Preset,      \* what a default role shows
    MaxRows,     \* stored rows (bound)
    User, Employee, None

RolesConstants ==
    /\ Default \subseteq Key /\ Super \in Default
    /\ Preset \subseteq Permission
    /\ None \notin Employee
    /\ Key \cap Nat = {}   \* the ids that are made for rows are no keys

VARIABLES
    rows,        \* the collection "roles", the oldest first
    user,        \* accounts: the employee each is of
    creating,    \* accounts whose insertion is awaited
    assigned,    \* what was last assigned to the role of a key
    edited,      \* keys renamed, or written by system management
    overlapped   \* employees of two accounts that were created at one time

vars == <<rows, user, creating, assigned, edited, overlapped>>

\* Lists with an unknown permission are refused; system management does not look.
validatePermissions == SUBSET Permission

byDefault(k) == IF k = Super THEN Permission ELSE IF k \in Default THEN Preset ELSE {}

Init ==
    /\ rows = <<>>
    /\ user = [u \in User |-> None]
    /\ creating = [u \in User |-> None]
    /\ assigned = [k \in Key |-> byDefault(k)]
    /\ edited = {} /\ overlapped = {}

---------------------------------------------------------------------------
(* Roles. *)

live == {i \in DOMAIN rows : rows[i].live}
ofKey(k) == {i \in live : rows[i].key = k}

defaultRole(k) == [id |-> k, key |-> k, system |-> TRUE, permissions |-> byDefault(k), live |-> TRUE]

\* Of a key: the last row stored, or the default one.
role(k) == IF ofKey(k) # {} THEN rows[Max(ofKey(k))] ELSE defaultRole(k)
listAllRoles == {role(k) : k \in {k \in Key : k \in Default \/ ofKey(k) # {}}}

\* Sorted by names, which anyone chooses: any of those with that id or that key.
findRole(x) == {r \in listAllRoles : r.id = x \/ r.key = x}

\* Mutant: the row of a deleted role is found.
stored_deleted(x) ==
    LET found == {i \in DOMAIN rows : rows[i].id = x \/ rows[i].key = x}
    IN IF found = {} THEN 0 ELSE Min(found)

\* The first row that updateRoleRecord() finds; 0 if there is none.
stored(x) ==
    LET found == {i \in live : rows[i].id = x \/ rows[i].key = x}
    IN IF found = {} THEN 0 ELSE Min(found)

writeRoleRecord(r) == Len(rows) < MaxRows /\ rows' = Append(rows, r)
newRow(k, p) == [id |-> Len(rows) + 1, key |-> k, system |-> FALSE, permissions |-> p, live |-> TRUE]

assigns(k, p) == assigned' = [assigned EXCEPT ![k] = p]
edits(ks) == edited' = edited \cup ks

createRole(k, p) ==
    /\ findRole(k) = {}
    /\ writeRoleRecord(newRow(k, p))
    /\ assigns(k, p)
    /\ UNCHANGED <<user, creating, edited, overlapped>>

\* A default role gets a row whose id is its key. Nothing compares the new key.
updateRole(x, r, k) ==
    /\ r \in findRole(x) /\ r.key # Super
    /\ LET i == stored(x) IN
       IF i = 0 THEN writeRoleRecord([r EXCEPT !.key = k, !.system = FALSE])
       ELSE rows' = [rows EXCEPT ![i].key = k]
    /\ IF r.key = k THEN UNCHANGED edited ELSE edits({r.key, k})
    /\ UNCHANGED <<user, creating, assigned, overlapped>>

\* An edited default role is no system role any more: what is deleted is the edit.
deleteRole(x, r) ==
    /\ r \in findRole(x) /\ ~r.system /\ r.key # Super
    /\ stored(x) # 0
    /\ rows' = [rows EXCEPT ![stored(x)].live = FALSE]
    /\ assigns(r.key, byDefault(r.key))
    /\ UNCHANGED <<user, creating, edited, overlapped>>

putRolePermissions(x, r, p) ==
    /\ r \in findRole(x) /\ r.key # Super
    /\ LET i == stored(x) IN
       IF i = 0 THEN writeRoleRecord(newRow(r.key, p))
       ELSE rows' = [rows EXCEPT ![i].permissions = p]
    /\ assigns(r.key, p)
    /\ UNCHANGED <<user, creating, edited, overlapped>>

\* System management compares no keys and knows no default roles.
systemCreates(k, p) ==
    /\ writeRoleRecord(newRow(k, p))
    /\ edits({k})
    /\ UNCHANGED <<user, creating, assigned, overlapped>>

systemUpdates(i, k) ==
    /\ i \in live
    /\ rows' = [rows EXCEPT ![i].key = k]
    /\ edits({rows[i].key, k})
    /\ UNCHANGED <<user, creating, assigned, overlapped>>

systemDeletes(i) ==
    /\ i \in live
    /\ rows' = [rows EXCEPT ![i].live = FALSE]
    /\ assigns(rows[i].key, byDefault(rows[i].key))
    /\ UNCHANGED <<user, creating, edited, overlapped>>

assignRolePermissions(i, p) ==
    /\ i \in live
    /\ rows' = [rows EXCEPT ![i].permissions = p]
    /\ assigns(rows[i].key, p)
    /\ UNCHANGED <<user, creating, edited, overlapped>>

---------------------------------------------------------------------------
(* Accounts: that of an employee. It gets a copy of what its role allows, which nothing
   here changes: what an account holds follows the code's constants and that copy. *)

\* The stored roles over the code's.
getRoleCatalog == {k \in Key : k \in Default \/ ofKey(k) # {}}

hasAccount(e) == e \in {user[u] : u \in User}

\* The checks, then the insertion is awaited.
createUserAccount(u, k, e) ==
    /\ user[u] = None /\ creating[u] = None
    /\ k \in getRoleCatalog /\ ~hasAccount(e)
    /\ creating' = [creating EXCEPT ![u] = e]
    /\ overlapped' = IF e \in {creating[v] : v \in User} THEN overlapped \cup {e} ELSE overlapped
    /\ UNCHANGED <<rows, user, assigned, edited>>

attachEmployeeProfile(u) ==
    /\ creating[u] # None
    /\ user' = [user EXCEPT ![u] = creating[u]]
    /\ creating' = [creating EXCEPT ![u] = None]
    /\ UNCHANGED <<rows, assigned, edited, overlapped>>

Roles(x, r) ==
    \/ \E k \in Key : updateRole(x, r, k)
    \/ deleteRole(x, r)
    \/ \E p \in validatePermissions : putRolePermissions(x, r, p)

SystemManagement(i) ==
    \/ \E k \in Key : systemUpdates(i, k)
    \/ systemDeletes(i)
    \/ \E p \in SUBSET Permission : assignRolePermissions(i, p)

Accounts(u) ==
    \/ \E k \in Key, e \in Employee : createUserAccount(u, k, e)
    \/ attachEmployeeProfile(u)

Next ==
    \/ \E k \in Key, p \in validatePermissions : createRole(k, p)
    \/ \E k \in Key, p \in SUBSET Permission : systemCreates(k, p)
    \/ \E x \in Key \cup 1 .. MaxRows, r \in listAllRoles : Roles(x, r)
    \/ \E i \in 1 .. MaxRows : SystemManagement(i)
    \/ \E u \in User : Accounts(u)

Spec == Init /\ [][Next]_vars

---------------------------------------------------------------------------
(* Properties. *)

\* Unless its key was renamed or written by system management, a role has one row at most
\* and shows what was last assigned to it, and a default one that was deleted is as it
\* was; and unless two accounts of one employee were being created at one time, an
\* employee has one.
RolesAreKept ==
    /\ \A k \in Key \ edited : Cardinality(ofKey(k)) <= 1 /\ role(k).permissions = assigned[k]
    /\ \A u, v \in User : u # v /\ user[u] = user[v] => user[u] \in overlapped \cup {None}
---------------------------------------------------------------------------
(* The invariant RolesAreKept follows from: the id of a row was made for it or is the key *)
(* of a default role, which it still has unless it was renamed; a key nobody renamed has  *)
(* one row or none; and no two accounts wait for an employee, or have one, unless created *)
(* at one time.                                                                           *)

Row == [id : Key \cup Nat, key : Key, system : BOOLEAN, permissions : SUBSET Permission, live : BOOLEAN]

TypeOK ==
    /\ rows \in Seq(Row)
    /\ assigned \in [Key -> SUBSET Permission]
    /\ user \in [User -> Employee \cup {None}]
    /\ creating \in [User -> Employee \cup {None}]

Named(i) ==
    LET r == rows[i] IN
    \/ r.id = i
    \/ r.id \in Key /\ (r.id = r.key \/ {r.id, r.key} \subseteq edited)

Kept(k) ==
    /\ \A i, j \in ofKey(k) : i = j
    /\ \A i \in ofKey(k) : rows[i].permissions = assigned[k]
    /\ ofKey(k) = {} => assigned[k] = byDefault(k)

OneAccount ==
    LET several == overlapped \cup {None} IN
    \A u, v \in User :
       /\ user[v] = creating[u] => creating[u] \in several
       /\ u # v /\ user[u] = user[v] => user[u] \in several
       /\ u # v /\ creating[u] = creating[v] => creating[u] \in several

Inv ==
    /\ TypeOK /\ OneAccount
    /\ \A i \in DOMAIN rows : Named(i)
    /\ \A k \in Key \ edited : Kept(k)
=============================================================================
