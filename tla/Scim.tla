--------------------------------- MODULE Scim ---------------------------------
(***************************************************************************)
(* Provisioning: users created, changed and deleted over HTTP, and the     *)
(* identity each of them is issued.  The server runs one handler at a time *)
(* except where one awaits the body of its request: a PATCH looks the user *)
(* up before that and changes it after.                                    *)
(*   packages/enterprise/src/scim.ts, apps/scim/server.ts                  *)
(*                                                                         *)
(* Requests without the bearer token change nothing and are left out, as   *)
(* are names, mail addresses and times.                                    *)
(***************************************************************************)
EXTENDS Naturals, Sequences

CONSTANTS
  UserNames,
  Roles,
  Scopes,
  RoleScopeMap,  \* Roles -> the scopes of a role, none for a role the map has not
  Clients,       \* requests that can be open at once
  Patches,       \* the Operations of PATCH requests
  MaxUsers,      \* bound on the users created
  None,
  Malformed      \* in place of roles: a value that cannot be iterated

ASSUME RolesAssumption == RoleScopeMap \in [Roles -> SUBSET Scopes]
ASSUME BoundAssumption == MaxUsers \in Nat

Ids == 1..MaxUsers
RoleValues == {Malformed} \union SUBSET Roles
ActiveValues == {"true", "false", "text"}

ScimUser == [userName : UserNames, active : BOOLEAN, roles : RoleValues]
Identity == [userName : UserNames, scopes : SUBSET Scopes, revoked : BOOLEAN]
\* An operation and its value, read as a truth value or as roles; a broken one is no
\* object, or its op no string.
PatchOp == [path : {"active", "roles", "other", "broken"}, active : ActiveValues, roles : RoleValues]

ASSUME PatchesAssumption == Patches \subseteq Seq(PatchOp)
ASSUME NoneAssumption == None \notin ScimUser \union Identity \union Ids

VARIABLES
  users,       \* #users: id -> None or the user
  byUserName,  \* #byUserName: name -> None or the id
  identities,  \* #identities: id -> None or the claim issued last
  counter,     \* #counter
  waiting,     \* client -> None or the id whose PATCH awaits its body
  running      \* None, or the PATCH being carried out: [id, ops still to do]

vars == <<users, byUserName, identities, counter, waiting, running>>

Init ==
  /\ users = [id \in Ids |-> None]
  /\ byUserName = [n \in UserNames |-> None]
  /\ identities = [id \in Ids |-> None]
  /\ counter = 0
  /\ waiting = [c \in Clients |-> None]
  /\ running = None

\* Boolean(value): every text is true, "False" included.
Truthy(value) == value # "false"

ScopesOf(roles) == UNION {RoleScopeMap[r] : r \in roles}

\* #reprovision throws.
Throws(user) == user.active /\ user.roles = Malformed

\* Seeded fault: who has an identity is not issued another.
ProvisionedOnce(user, held) ==
  IF user.active /\ held # None THEN [held EXCEPT !.revoked = FALSE]
  ELSE IF Throws(user) THEN held
  ELSE IF user.active
  THEN [userName |-> user.userName, scopes |-> ScopesOf(user.roles), revoked |-> FALSE]
  ELSE IF held # None THEN [held EXCEPT !.revoked = TRUE] ELSE None

\* #reprovision: the identity of a user who held another, or None.
Provisioned(user, held) ==
  IF Throws(user) THEN held
  ELSE IF user.active
  THEN [userName |-> user.userName, scopes |-> ScopesOf(user.roles), revoked |-> FALSE]
  ELSE IF held # None THEN [held EXCEPT !.revoked = TRUE] ELSE None

\* Seeded fault: the name is not looked up.
CreateAnyName(name, active, roles) ==
  /\ running = None /\ counter < MaxUsers
  /\ LET id == counter + 1
         user == [userName |-> name, active |-> Truthy(active), roles |-> roles]
     IN  /\ counter' = id
         /\ users' = [users EXCEPT ![id] = user]
         /\ byUserName' = [byUserName EXCEPT ![name] = id]
         /\ identities' = [identities EXCEPT ![id] = Provisioned(user, None)]
  /\ UNCHANGED <<waiting, running>>

\* POST, its body read: create.  With malformed roles it throws after the user was
\* recorded, who then exists without an identity.
Create(name, active, roles) ==
  /\ running = None /\ counter < MaxUsers
  /\ byUserName[name] = None
  /\ LET id == counter + 1
         user == [userName |-> name, active |-> Truthy(active), roles |-> roles]
     IN  /\ counter' = id
         /\ users' = [users EXCEPT ![id] = user]
         /\ byUserName' = [byUserName EXCEPT ![name] = id]
         /\ identities' = [identities EXCEPT ![id] = Provisioned(user, None)]
  /\ UNCHANGED <<waiting, running>>

\* PATCH finds its user and awaits the body.
PatchFound(c, id) ==
  /\ running = None
  /\ waiting[c] = None /\ users[id] # None
  /\ waiting' = [waiting EXCEPT ![c] = id]
  /\ UNCHANGED <<users, byUserName, identities, counter, running>>

\* The body has arrived: its operations are carried out without a pause.
PatchBody(c, ops) ==
  /\ running = None
  /\ waiting[c] # None
  /\ waiting' = [waiting EXCEPT ![c] = None]
  /\ running' = [id |-> waiting[c], ops |-> ops]
  /\ UNCHANGED <<users, byUserName, identities, counter>>

\* The body breaks off or is no JSON.
PatchLost(c) ==
  /\ running = None
  /\ waiting[c] # None
  /\ waiting' = [waiting EXCEPT ![c] = None]
  /\ UNCHANGED <<users, byUserName, identities, counter, running>>

\* The change one operation makes to a user.
Changed(user, op) ==
  IF op.path = "active" THEN [user EXCEPT !.active = Truthy(op.active)]
  ELSE [user EXCEPT !.roles = op.roles]

\* setActive and replaceRoles: the record is changed before #reprovision, which may throw.
Update(id, user) ==
  /\ users' = [users EXCEPT ![id] = user]
  /\ identities' = [identities EXCEPT ![id] = Provisioned(user, @)]
  /\ running' = IF Throws(user) THEN None ELSE [running EXCEPT !.ops = Tail(@)]

\* Seeded fault: the user found before the await is the one that is changed.
PatchAppliesStale(op) ==
  /\ op.path \in {"active", "roles"}
  /\ LET user == IF users[running.id] # None THEN users[running.id]
                 ELSE [userName |-> CHOOSE n \in UserNames : TRUE, active |-> FALSE, roles |-> {}]
     IN  Update(running.id, Changed(user, op))

PatchApplies(op) ==
  /\ op.path \in {"active", "roles"} /\ users[running.id] # None
  /\ Update(running.id, Changed(users[running.id], op))

\* Operations of another kind are passed over.
PatchIgnores(op) ==
  /\ op.path = "other"
  /\ running' = [running EXCEPT !.ops = Tail(@)]
  /\ UNCHANGED <<users, identities>>

\* An operation that is none, or one on a user who was deleted since it was found:
\* the handler throws, and what it has done stays done.
PatchThrows(op) ==
  /\ op.path # "other" /\ (op.path # "broken" => users[running.id] = None)
  /\ running' = None
  /\ UNCHANGED <<users, identities>>

PatchStep ==
  /\ running # None /\ running.ops # <<>>
  /\ LET op == Head(running.ops) IN PatchApplies(op) \/ PatchIgnores(op) \/ PatchThrows(op)
  /\ UNCHANGED <<byUserName, counter, waiting>>

PatchDone ==
  /\ running # None /\ running.ops = <<>>
  /\ running' = None
  /\ UNCHANGED <<users, byUserName, identities, counter, waiting>>

\* Seeded fault: the record goes, the identity stays.
DeleteRecord(id) ==
  /\ running = None
  /\ users[id] # None
  /\ users' = [users EXCEPT ![id] = None]
  /\ byUserName' = [byUserName EXCEPT ![users[id].userName] = None]
  /\ UNCHANGED <<identities, counter, waiting, running>>

\* DELETE: the identity is revoked and kept, record and name are freed.
Delete(id) ==
  /\ running = None
  /\ users[id] # None
  /\ users' = [users EXCEPT ![id] = None]
  /\ byUserName' = [byUserName EXCEPT ![users[id].userName] = None]
  /\ identities' = [identities EXCEPT ![id] = Provisioned([users[id] EXCEPT !.active = FALSE], @)]
  /\ UNCHANGED <<counter, waiting, running>>

Next ==
  \/ \E name \in UserNames, active \in ActiveValues, roles \in RoleValues :
       Create(name, active, roles)
  \/ \E c \in Clients :
       \/ \E id \in Ids : PatchFound(c, id)
       \/ \E ops \in Patches : PatchBody(c, ops)
       \/ PatchLost(c)
  \/ PatchStep
  \/ PatchDone
  \/ \E id \in Ids : Delete(id)

Spec == Init /\ [][Next]_vars

(***************************************************************************)
(* Properties                                                              *)
(***************************************************************************)

Live(id) == identities[id] # None /\ ~identities[id].revoked

TypeOK ==
  /\ users \in [Ids -> ScimUser \union {None}]
  /\ byUserName \in [UserNames -> Ids \union {None}]
  /\ identities \in [Ids -> Identity \union {None}]
  /\ counter \in 0..MaxUsers
  /\ waiting \in [Clients -> Ids \union {None}]
  /\ running \in [id : Ids, ops : Seq(PatchOp)] \union {None}
  /\ \A id \in Ids : id > counter => users[id] = None /\ identities[id] = None

\* Whoever was deactivated or deleted holds no identity that is not revoked,
\* whatever requests about him were open at the time, and although an update may
\* throw half-way (docs/CLAIMS.md:57, docs/adr/0009:27-28).
LeaverHasNoIdentity ==
  \A id \in Ids : users[id] = None \/ ~users[id].active => ~Live(id)

\* An identity that stands is that of the user on record under its name; so no
\* name has two, though names are given anew and claims are named after them
\* (scim.ts:77).
StandingIsOnRecord ==
  \A id \in Ids : Live(id) => byUserName[identities[id].userName] = id

\* An active user holds an identity with exactly the scopes of his present roles,
\* nothing of former ones, unless the roles recorded last cannot be read
\* (scim.test.ts "role changes re-issue the identity with new scopes").
ScopesFollowRoles ==
  \A id \in Ids :
    users[id] # None /\ users[id].active /\ users[id].roles # Malformed =>
      Live(id) /\ identities[id].scopes = ScopesOf(users[id].roles)

\* A deleted user stays deleted and his identity as it was, for a PATCH that found
\* him before, too (server.ts:69-79).
DeletedForGood ==
  [][\A id \in Ids :
       id <= counter /\ users[id] = None =>
         users'[id] = None /\ identities'[id] = identities[id]]_vars

=============================================================================
