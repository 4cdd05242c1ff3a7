--------------------------- MODULE Registries_proofs ---------------------------
(***************************************************************************)
(* The two registries of people, and that who left one is gone from it:    *)
(* users that a directory provisions, and references enrolled by consent.  *)
(*                                                                         *)
(* Scim, for any names, roles, role map, clients, patches and number of    *)
(* users: leavers hold nothing, what stands is on record, and scopes       *)
(* follow roles.                                                           *)
(*                                                                         *)
(* Enrolment, for any subjects, modalities, documents and orders of        *)
(* arrival: withdrawal destroys for good.  GoneOnceWithdrawn is not        *)
(* inductive: withdraw only visits the enrolments of the subject's index   *)
(* whose status is active, so that these are all that exist has to be      *)
(* carried along.                                                          *)
(***************************************************************************)
EXTENDS Scim, Enrolment, TLAPS

\* User and index agree, and a standing identity has its user's name.
Named ==
  \A id \in Ids :
    /\ users[id] # None => byUserName[users[id].userName] = id
    /\ Live(id) => identities[id].userName = users[id].userName

Ind == TypeOK /\ LeaverHasNoIdentity /\ ScopesFollowRoles /\ Named

\* What #reprovision makes of a user and the identity held before.
LEMMA ProvisionedFacts ==
  ASSUME NEW user \in ScimUser, NEW held \in Identity \union {None}
  PROVE  /\ Provisioned(user, held) \in Identity \union {None}
         /\ Throws(user) => user.active /\ user.roles = Malformed /\ Provisioned(user, held) = held
         /\ ~user.active => \/ Provisioned(user, held) = None
                            \/ Provisioned(user, held).revoked
         /\ user.active /\ user.roles # Malformed =>
              Provisioned(user, held) =
                [userName |-> user.userName, scopes |-> ScopesOf(user.roles), revoked |-> FALSE]
<1>1. user.active \in BOOLEAN /\ user.userName \in UserNames
      /\ user.roles \in {Malformed} \union SUBSET Roles
  BY DEF ScimUser, RoleValues
<1>2. user.roles # Malformed => ScopesOf(user.roles) \in SUBSET Scopes
  BY <1>1, RolesAssumption DEF ScopesOf
<1>3. held # None => [held EXCEPT !.revoked = TRUE] \in Identity
                     /\ [held EXCEPT !.revoked = TRUE].revoked
  BY DEF Identity
<1> DEFINE new == [userName |-> user.userName, scopes |-> ScopesOf(user.roles), revoked |-> FALSE]
<1>4. user.roles # Malformed => new \in Identity
  BY <1>1, <1>2 DEF Identity
<1>5. CASE Throws(user)
  BY <1>5, <1>1 DEF Provisioned, Throws
<1>6. CASE ~Throws(user) /\ user.active
  BY <1>6, <1>1, <1>4 DEF Provisioned, Throws
<1>7. CASE ~Throws(user) /\ ~user.active
  BY <1>7, <1>1, <1>3 DEF Provisioned, Throws
<1> QED
  BY <1>5, <1>6, <1>7

\* A user is put on record under an id, with the identity that goes with it: what
\* create, setActive and replaceRoles have in common.
LEMMA PutOnRecord ==
  ASSUME Ind, NEW id \in Ids, NEW user \in ScimUser,
         users' = [users EXCEPT ![id] = user],
         identities' = [identities EXCEPT ![id] = Provisioned(user, identities[id])],
         Live(id) => identities[id].userName = user.userName,
         byUserName' \in [UserNames -> Ids \union {None}],
         byUserName'[user.userName] = id,
         \A j \in Ids \ {id} : users[j] # None =>
           byUserName'[users[j].userName] = byUserName[users[j].userName]
  PROVE  /\ users' \in [Ids -> ScimUser \union {None}]
         /\ identities' \in [Ids -> Identity \union {None}]
         /\ (LeaverHasNoIdentity /\ ScopesFollowRoles /\ Named)'
<1>1. users \in [Ids -> ScimUser \union {None}] /\ identities \in [Ids -> Identity \union {None}]
  BY DEF Ind, TypeOK
<1>2. identities[id] \in Identity \union {None}
  BY <1>1
<1> DEFINE got == Provisioned(user, identities[id])
<1>3. /\ got \in Identity \union {None}
      /\ Throws(user) => user.active /\ user.roles = Malformed /\ got = identities[id]
      /\ ~user.active => got = None \/ got.revoked
      /\ user.active /\ user.roles # Malformed =>
           got = [userName |-> user.userName, scopes |-> ScopesOf(user.roles), revoked |-> FALSE]
  BY <1>2, ProvisionedFacts
<1> HIDE DEF got
<1>4. /\ users'[id] = user /\ identities'[id] = got /\ user # None
      /\ \A j \in Ids \ {id} : users'[j] = users[j] /\ identities'[j] = identities[j]
  BY <1>1, NoneAssumption DEF got
<1>5. users' \in [Ids -> ScimUser \union {None}] /\ identities' \in [Ids -> Identity \union {None}]
  BY <1>1, <1>3 DEF got
<1>6. LeaverHasNoIdentity'
  BY <1>3, <1>4 DEF Ind, LeaverHasNoIdentity, Live
<1>7. ScopesFollowRoles'
  <2>1. user.active /\ user.roles # Malformed => got # None /\ ~got.revoked
                                                 /\ got.scopes = ScopesOf(user.roles)
    <3>1. CASE user.active /\ user.roles # Malformed
      <4>1. got = [userName |-> user.userName, scopes |-> ScopesOf(user.roles), revoked |-> FALSE]
        BY <1>3, <3>1
      <4>2. ScopesOf(user.roles) \in SUBSET Scopes /\ user.userName \in UserNames
        BY <3>1, RolesAssumption DEF ScimUser, RoleValues, ScopesOf
      <4>3. [userName |-> user.userName, scopes |-> ScopesOf(user.roles), revoked |-> FALSE] \in Identity
        BY <4>2 DEF Identity
      <4>4. got # None
        BY <4>1, <4>3, NoneAssumption
      <4>5. ~got.revoked /\ got.scopes = ScopesOf(user.roles)
        BY <4>1
      <4> QED
        BY <4>4, <4>5
    <3> QED
      BY <3>1
  <2> QED
    BY <2>1, <1>4 DEF Ind, ScopesFollowRoles, Live
<1>8. Named'
  <2>1. byUserName'[user.userName] = id
    OBVIOUS
  <2>2. got # None /\ ~got.revoked => got.userName = user.userName
    <3>1. CASE Throws(user)
      BY <3>1, <1>3 DEF Live
    <3>2. CASE ~user.active
      BY <3>2, <1>3
    <3>3. CASE user.active /\ user.roles # Malformed
      BY <3>3, <1>3
    <3> QED
      BY <3>1, <3>2, <3>3 DEF Throws
  <2>3. ASSUME NEW j \in Ids \ {id}
        PROVE  /\ users'[j] # None => byUserName'[users'[j].userName] = j
               /\ Live(j)' => identities'[j].userName = users'[j].userName
    BY <2>3, <1>4 DEF Ind, Named, Live
  <2>4. /\ users'[id] # None => byUserName'[users'[id].userName] = id
        /\ Live(id)' => identities'[id].userName = users'[id].userName
    BY <2>1, <2>2, <1>4 DEF Live
  <2> QED
    BY <2>3, <2>4 DEF Named
<1> QED
  BY <1>5, <1>6, <1>7, <1>8

LEMMA CreateInd ==
  ASSUME Ind, NEW name \in UserNames, NEW active \in ActiveValues, NEW roles \in RoleValues,
         Create(name, active, roles)
  PROVE  Ind'
<1> DEFINE id == counter + 1
           user == [userName |-> name, active |-> Truthy(active), roles |-> roles]
<1>1. /\ counter \in 0..MaxUsers /\ byUserName \in [UserNames -> Ids \union {None}]
      /\ users \in [Ids -> ScimUser \union {None}] /\ identities \in [Ids -> Identity \union {None}]
  BY DEF Ind, TypeOK
<1>2. id \in Ids /\ counter < MaxUsers /\ MaxUsers \in Nat
  BY <1>1, BoundAssumption DEF Create, Ids
<1>3. user \in ScimUser
  BY DEF ScimUser, Truthy
<1>4. users[id] = None /\ identities[id] = None
  <2>1. id > counter
    BY <1>1
  <2> QED
    BY <2>1, <1>2 DEF Ind, TypeOK
<1>5. /\ users' = [users EXCEPT ![id] = user]
      /\ identities' = [identities EXCEPT ![id] = Provisioned(user, identities[id])]
      /\ byUserName' = [byUserName EXCEPT ![name] = id]
      /\ counter' = id /\ UNCHANGED <<waiting, running>> /\ byUserName[name] = None
  BY <1>4 DEF Create
<1>6. user.userName = name
  OBVIOUS
<1> HIDE DEF user
<1>7. byUserName' \in [UserNames -> Ids \union {None}] /\ byUserName'[user.userName] = id
  BY <1>1, <1>2, <1>5, <1>6
<1>8. ASSUME NEW j \in Ids \ {id}, users[j] # None
      PROVE  byUserName'[users[j].userName] = byUserName[users[j].userName]
  <2>1. users[j].userName \in UserNames /\ byUserName[users[j].userName] = j
    BY <1>8, <1>1 DEF Ind, Named, ScimUser
  <2>2. j # None
    BY NoneAssumption
  <2> QED
    BY <2>1, <2>2, <1>1, <1>5
<1>9. ~Live(id)
  BY <1>4 DEF Live
<1> HIDE DEF id
<1>10. /\ users' \in [Ids -> ScimUser \union {None}]
       /\ identities' \in [Ids -> Identity \union {None}]
       /\ (LeaverHasNoIdentity /\ ScopesFollowRoles /\ Named)'
  BY <1>2, <1>3, <1>5, <1>7, <1>8, <1>9, PutOnRecord
<1>11. \A j \in Ids : j > counter' => users'[j] = None /\ identities'[j] = None
  <2> SUFFICES ASSUME NEW j \in Ids, j > counter' PROVE users'[j] = None /\ identities'[j] = None
    OBVIOUS
  <2>1. j > counter /\ j # id
    BY <1>1, <1>2, <1>5 DEF id, Ids
  <2>2. users[j] = None /\ identities[j] = None
    BY <2>1 DEF Ind, TypeOK
  <2> QED
    BY <2>1, <2>2, <1>1, <1>5
<1>12. counter' \in 0..MaxUsers
  BY <1>1, <1>2, <1>5 DEF id
<1> QED
  BY <1>5, <1>7, <1>10, <1>11, <1>12 DEF Ind, TypeOK

LEMMA PatchAppliesInd ==
  ASSUME Ind, running # None, running.ops # <<>>, PatchApplies(Head(running.ops)),
         UNCHANGED <<byUserName, counter, waiting>>
  PROVE  Ind'
<1> DEFINE id == running.id
           op == Head(running.ops)
           user == Changed(users[id], op)
<1>1. /\ byUserName \in [UserNames -> Ids \union {None}] /\ counter \in 0..MaxUsers
      /\ users \in [Ids -> ScimUser \union {None}] /\ identities \in [Ids -> Identity \union {None}]
  BY DEF Ind, TypeOK
<1>2. running \in [id : Ids, ops : Seq(PatchOp)]
  BY DEF Ind, TypeOK
<1>3. id \in Ids /\ op \in PatchOp /\ Tail(running.ops) \in Seq(PatchOp)
  BY <1>2
<1>4. users[id] \in ScimUser
  BY <1>1, <1>3 DEF PatchApplies
<1>5. user \in ScimUser /\ user.userName = users[id].userName
  BY <1>3, <1>4 DEF Changed, ScimUser, PatchOp, Truthy
<1>6. /\ users' = [users EXCEPT ![id] = user]
      /\ identities' = [identities EXCEPT ![id] = Provisioned(user, identities[id])]
      /\ running' = IF Throws(user) THEN None ELSE [running EXCEPT !.ops = Tail(running.ops)]
  BY <1>1, <1>3 DEF PatchApplies, Update
<1>7. running' \in [id : Ids, ops : Seq(PatchOp)] \union {None}
  BY <1>2, <1>3, <1>6
<1>8. byUserName'[user.userName] = id /\ byUserName' = byUserName
  BY <1>3, <1>4, <1>5, NoneAssumption DEF Ind, Named
<1>9. Live(id) => identities[id].userName = user.userName
  BY <1>3, <1>5 DEF Ind, Named
<1> HIDE DEF user, id
<1>10. /\ users' \in [Ids -> ScimUser \union {None}]
       /\ identities' \in [Ids -> Identity \union {None}]
       /\ (LeaverHasNoIdentity /\ ScopesFollowRoles /\ Named)'
  BY <1>1, <1>3, <1>5, <1>6, <1>8, <1>9, PutOnRecord
<1>11. \A j \in Ids : j > counter => users'[j] = None /\ identities'[j] = None
  <2>1. users[id] # None
    BY DEF PatchApplies, id
  <2>2. ~(id > counter)
    BY <1>3, <2>1 DEF Ind, TypeOK
  <2> QED
    BY <1>1, <1>6, <2>2 DEF Ind, TypeOK
<1> QED
  BY <1>1, <1>7, <1>8, <1>10, <1>11 DEF Ind, TypeOK

LEMMA DeleteInd ==
  ASSUME Ind, NEW id \in Ids, Delete(id)
  PROVE  Ind'
<1> DEFINE user == [users[id] EXCEPT !.active = FALSE]
           got == Provisioned(user, identities[id])
<1>1. /\ byUserName \in [UserNames -> Ids \union {None}] /\ counter \in 0..MaxUsers
      /\ users \in [Ids -> ScimUser \union {None}] /\ identities \in [Ids -> Identity \union {None}]
  BY DEF Ind, TypeOK
<1>2. users[id] \in ScimUser /\ users[id] # None
  BY <1>1 DEF Delete
<1>3. user \in ScimUser /\ ~user.active
  BY <1>2 DEF ScimUser
<1>4. got \in Identity \union {None} /\ (got = None \/ got.revoked)
  BY <1>1, <1>3, ProvisionedFacts
<1>5. /\ users' = [users EXCEPT ![id] = None]
      /\ identities' = [identities EXCEPT ![id] = got]
      /\ byUserName' = [byUserName EXCEPT ![users[id].userName] = None]
      /\ UNCHANGED <<counter, waiting, running>>
  BY <1>1 DEF Delete
<1> HIDE DEF got, user
<1>6. /\ users'[id] = None /\ identities'[id] = got
      /\ \A j \in Ids \ {id} : users'[j] = users[j] /\ identities'[j] = identities[j]
  BY <1>1, <1>5
<1>7. TypeOK'
  <2>1. users[id].userName \in UserNames
    BY <1>2 DEF ScimUser
  <2>2. byUserName' \in [UserNames -> Ids \union {None}]
    BY <1>1, <1>5, <2>1
  <2>3. users' \in [Ids -> ScimUser \union {None}] /\ identities' \in [Ids -> Identity \union {None}]
    BY <1>1, <1>4, <1>5
  <2>4. ~(id > counter)
    BY <1>2 DEF Ind, TypeOK
  <2>5. \A j \in Ids : j > counter => users'[j] = None /\ identities'[j] = None
    BY <1>6, <2>4 DEF Ind, TypeOK
  <2> QED
    BY <1>5, <2>2, <2>3, <2>5 DEF Ind, TypeOK
<1>8. LeaverHasNoIdentity'
  BY <1>4, <1>6 DEF Ind, LeaverHasNoIdentity, Live
<1>9. ScopesFollowRoles'
  BY <1>6 DEF Ind, ScopesFollowRoles, Live
<1>10. Named'
  <2>1. ASSUME NEW j \in Ids \ {id}, users[j] # None
        PROVE  byUserName'[users[j].userName] = j
    <3>1. byUserName[users[j].userName] = j /\ byUserName[users[id].userName] = id
      BY <2>1, <1>2 DEF Ind, Named
    <3>2. users[j].userName \in UserNames
      BY <2>1, <1>1 DEF ScimUser
    <3> QED
      BY <3>1, <3>2, <1>1, <1>5
  <2>2. \A j \in Ids \ {id} : Live(j)' => identities'[j].userName = users'[j].userName
    BY <1>6 DEF Ind, Named, Live
  <2>3. ~Live(id)'
    BY <1>4, <1>6 DEF Live
  <2> QED
    BY <2>1, <2>2, <2>3, <1>6 DEF Named
<1> QED
  BY <1>7, <1>8, <1>9, <1>10 DEF Ind

\* The steps that change no user and no identity.
LEMMA OtherInd ==
  ASSUME Ind, UNCHANGED <<users, byUserName, identities, counter>>,
         waiting' \in [Clients -> Ids \union {None}],
         running' \in [id : Ids, ops : Seq(PatchOp)] \union {None}
  PROVE  Ind'
<1>1. TypeOK'
  BY DEF Ind, TypeOK
<1>2. (LeaverHasNoIdentity /\ ScopesFollowRoles /\ Named)'
  BY DEF Ind, LeaverHasNoIdentity, ScopesFollowRoles, Named, Live
<1> QED
  BY <1>1, <1>2 DEF Ind

LEMMA InitInd == Init => Ind
<1> SUFFICES ASSUME Init PROVE Ind
  OBVIOUS
<1>1. TypeOK
  BY BoundAssumption DEF Init, TypeOK
<1>2. LeaverHasNoIdentity /\ ScopesFollowRoles /\ Named
  BY DEF Init, LeaverHasNoIdentity, ScopesFollowRoles, Named, Live
<1> QED
  BY <1>1, <1>2 DEF Ind

LEMMA NextInd == Ind /\ [Next]_vars => Ind'
<1> SUFFICES ASSUME Ind, [Next]_vars PROVE Ind'
  OBVIOUS
<1>0. /\ waiting \in [Clients -> Ids \union {None}]
      /\ running \in [id : Ids, ops : Seq(PatchOp)] \union {None}
  BY DEF Ind, TypeOK
<1>1. ASSUME NEW name \in UserNames, NEW active \in ActiveValues, NEW roles \in RoleValues,
             Create(name, active, roles)
      PROVE  Ind'
  BY <1>1, CreateInd
<1>2. ASSUME NEW c \in Clients, NEW id \in Ids, PatchFound(c, id) PROVE Ind'
  BY <1>0, <1>2, OtherInd DEF PatchFound
<1>3. ASSUME NEW c \in Clients, NEW ops \in Patches, PatchBody(c, ops) PROVE Ind'
  <2>1. waiting[c] \in Ids /\ ops \in Seq(PatchOp)
    BY <1>0, <1>3, PatchesAssumption DEF PatchBody
  <2> QED
    BY <1>0, <1>3, <2>1, OtherInd DEF PatchBody
<1>4. ASSUME NEW c \in Clients, PatchLost(c) PROVE Ind'
  BY <1>0, <1>4, OtherInd DEF PatchLost
<1>5. CASE PatchStep
  <2> DEFINE op == Head(running.ops)
  <2>1. running # None /\ running.ops # <<>> /\ UNCHANGED <<byUserName, counter, waiting>>
    BY <1>5 DEF PatchStep
  <2>2. CASE PatchApplies(op)
    BY <2>1, <2>2, PatchAppliesInd
  <2>3. CASE PatchIgnores(op)
    <3>1. running' \in [id : Ids, ops : Seq(PatchOp)]
      BY <1>0, <2>1, <2>3 DEF PatchIgnores
    <3> QED
      BY <1>0, <2>1, <2>3, <3>1, OtherInd DEF PatchIgnores
  <2>4. CASE PatchThrows(op)
    BY <1>0, <2>1, <2>4, OtherInd DEF PatchThrows
  <2> QED
    BY <1>5, <2>2, <2>3, <2>4 DEF PatchStep
<1>6. CASE PatchDone
  BY <1>0, <1>6, OtherInd DEF PatchDone
<1>7. ASSUME NEW id \in Ids, Delete(id) PROVE Ind'
  BY <1>7, DeleteInd
<1>8. CASE UNCHANGED vars
  BY <1>0, <1>8, OtherInd DEF vars
<1> QED
  BY <1>1, <1>2, <1>3, <1>4, <1>5, <1>6, <1>7, <1>8 DEF Next

LEMMA Inductive == Spec => []Ind
  BY InitInd, NextInd, PTL DEF Spec

\* The provisioner is well-typed in every state (scim.ts).
THEOREM TypeCorrect == Spec => []TypeOK
<1>1. Ind => TypeOK
  BY DEF Ind
<1> QED
  BY <1>1, Inductive, PTL

\* Deactivated and deleted users never hold an identity that is not revoked
\* (docs/CLAIMS.md:57).
THEOREM LeaversHoldNothing == Spec => []LeaverHasNoIdentity
<1>1. Ind => LeaverHasNoIdentity
  BY DEF Ind
<1> QED
  BY <1>1, Inductive, PTL

\* An identity that stands is that of the user on record under its name, so no name
\* ever has two (scim.ts:95-113, 140-148).
THEOREM OneIdentityPerName == Spec => []StandingIsOnRecord
<1>1. Ind => StandingIsOnRecord
  BY DEF Ind, StandingIsOnRecord, LeaverHasNoIdentity, Named
<1> QED
  BY <1>1, Inductive, PTL

\* An active user's identity has exactly the scopes of his roles (scim.ts:69-86).
THEOREM MoversKeepNothing == Spec => []ScopesFollowRoles
<1>1. Ind => ScopesFollowRoles
  BY DEF Ind
<1> QED
  BY <1>1, Inductive, PTL

\* A user and an identity are changed only where a user is on record, or under the
\* id a new user is given.
LEMMA ChangesOnRecord ==
  ASSUME Ind, [Next]_vars, NEW id \in Ids, id <= counter, users[id] = None
  PROVE  users'[id] = None /\ identities'[id] = identities[id]
<1>0. /\ users \in [Ids -> ScimUser \union {None}] /\ identities \in [Ids -> Identity \union {None}]
      /\ counter \in 0..MaxUsers
  BY DEF Ind, TypeOK
<1>1. ASSUME NEW name \in UserNames, NEW active \in ActiveValues, NEW roles \in RoleValues,
             Create(name, active, roles)
      PROVE  users'[id] = users[id] /\ identities'[id] = identities[id]
  <2>1. counter + 1 # id
    BY <1>0, BoundAssumption DEF Ids
  <2> QED
    BY <1>0, <1>1, <2>1 DEF Create
<1>2. CASE PatchStep
  <2>1. CASE PatchApplies(Head(running.ops))
    <3>1. running.id # id
      BY <2>1 DEF PatchApplies
    <3> QED
      BY <1>0, <2>1, <3>1 DEF PatchApplies, Update
  <2>2. CASE PatchIgnores(Head(running.ops)) \/ PatchThrows(Head(running.ops))
    BY <2>2 DEF PatchIgnores, PatchThrows
  <2> QED
    BY <1>2, <2>1, <2>2 DEF PatchStep
<1>3. ASSUME NEW other \in Ids, Delete(other)
      PROVE  users'[id] = users[id] /\ identities'[id] = identities[id]
  <2>1. other # id
    BY <1>3 DEF Delete
  <2> QED
    BY <1>0, <1>3, <2>1 DEF Delete
<1>4. ASSUME \/ \E c \in Clients :
                  \/ \E i \in Ids : PatchFound(c, i)
                  \/ \E ops \in Patches : PatchBody(c, ops)
                  \/ PatchLost(c)
             \/ PatchDone
             \/ UNCHANGED vars
      PROVE  UNCHANGED <<users, identities>>
  BY <1>4 DEF PatchFound, PatchBody, PatchLost, PatchDone, vars
<1> QED
  BY <1>1, <1>2, <1>3, <1>4 DEF Next

\* Who was deleted stays deleted, and his identity as it was: no PATCH that found him
\* before he went brings either back (server.ts:69-79).
THEOREM DeletedStayDeleted == Spec => DeletedForGood
<1>1. Ind /\ [Next]_vars =>
        [\A id \in Ids :
           id <= counter /\ users[id] = None =>
             users'[id] = None /\ identities'[id] = identities[id]]_vars
  BY ChangesOnRecord
<1> QED
  BY <1>1, Inductive, PTL DEF Spec, DeletedForGood

-----------------------------------------------------------------------------
(***************************************************************************)
(* Enrolment                                                               *)
(***************************************************************************)
EnrolmentInd == EnrolmentTypeOK /\ GoneOnceWithdrawn /\ ExistingCanBeShredded

LEMMA EnrolmentInitInd == EnrolmentInit => EnrolmentInd
BY EnrolmentBounds
   DEF EnrolmentInit, EnrolmentInd, EnrolmentTypeOK, EnrolmentIds, GoneOnceWithdrawn, ExistingCanBeShredded, Available

\* The records that enrol and withdraw write are well-typed.
LEMMA EnrolType ==
  ASSUME EnrolmentTypeOK, NEW s \in Subjects, NEW m \in Modalities, Enrol(s, m)
  PROVE  EnrolmentTypeOK'
<1>1. lastId' = lastId + 1 /\ lastId' \in 0..MaxEnrolments /\ EnrolmentIds' = 1..lastId + 1
  BY EnrolmentBounds DEF EnrolmentTypeOK, Enrol, EnrolmentIds
<1>2. [subject |-> s, modality |-> m, reference |-> TRUE, status |-> "active"] \in Enrolled
  BY DEF Enrolled
<1>3. enrolments' \in [EnrolmentIds' -> Enrolled]
  BY <1>1, <1>2, EnrolmentBounds DEF EnrolmentTypeOK, Enrol, EnrolmentIds
<1>4. bySubject' \in [Subjects -> SUBSET (EnrolmentIds')]
  BY <1>1, EnrolmentBounds DEF EnrolmentTypeOK, Enrol, EnrolmentIds
<1>5. settled' \subseteq EnrolmentIds'
  BY <1>1, EnrolmentBounds DEF EnrolmentTypeOK, Enrol, EnrolmentIds
<1>6. now' = now /\ consents' = consents
  BY DEF Enrol
<1> QED
  BY <1>1, <1>3, <1>4, <1>5, <1>6 DEF EnrolmentTypeOK

LEMMA WithdrawType ==
  ASSUME EnrolmentTypeOK, NEW w \in Withdrawals, Withdraw(w)
  PROVE  EnrolmentTypeOK'
<1>1. w.subject \in Subjects /\ w.modalities \subseteq Modalities /\ w.at \in Nat
  BY DocumentsAssumption DEF EnrolmentConsent, ConsentWithdrawal
<1>2. consents[w.subject] \in [consent : Consents, withdrawn : SUBSET Modalities,
                               withdrawnAt : Nat \union {Undefined}]
  BY <1>1 DEF EnrolmentTypeOK, Withdraw
<1> DEFINE Entries == [consent : Consents, withdrawn : SUBSET Modalities,
                       withdrawnAt : Nat \union {Undefined}] \union {Undefined}
<1>3. consents' = [consents EXCEPT ![w.subject] = Marked(consents[w.subject], w)]
  BY <1>1 DEF EnrolmentTypeOK, Withdraw
<1>4. Marked(consents[w.subject], w) \in Entries
  BY <1>1, <1>2 DEF Marked
<1>0. consents \in [Subjects -> Entries]
  BY DEF EnrolmentTypeOK
<1>5. \A e \in Enrolled : Shred(e) \in Enrolled
  BY DEF Enrolled, Shred
<1>6. enrolments' \in [EnrolmentIds -> Enrolled]
  BY <1>5 DEF EnrolmentTypeOK, Withdraw
<1> HIDE DEF Entries
<1>7. consents' \in [Subjects -> Entries]
  BY <1>0, <1>1, <1>3, <1>4
<1>8. UNCHANGED <<now, bySubject, lastId>> /\ EnrolmentIds' = EnrolmentIds
  BY DEF Withdraw, EnrolmentIds
<1>9. settled' \subseteq EnrolmentIds
  BY DEF EnrolmentTypeOK, Withdraw
<1> QED
  BY <1>6, <1>7, <1>8, <1>9 DEF EnrolmentTypeOK, Entries

LEMMA EnrolmentNextTypeOK == EnrolmentTypeOK /\ [EnrolmentNext]_enrolmentVars => EnrolmentTypeOK'
<1> SUFFICES ASSUME EnrolmentTypeOK, [EnrolmentNext]_enrolmentVars PROVE EnrolmentTypeOK'
  OBVIOUS
<1>1. CASE Tick
  BY <1>1, EnrolmentBounds DEF EnrolmentTypeOK, Tick, EnrolmentIds
<1>2. ASSUME NEW c \in Consents, RecordConsent(c) PROVE EnrolmentTypeOK'
  BY <1>2, DocumentsAssumption DEF EnrolmentConsent, ConsentWithdrawal, EnrolmentTypeOK, RecordConsent, EnrolmentIds
<1>3. ASSUME NEW s \in Subjects, NEW m \in Modalities, Enrol(s, m) PROVE EnrolmentTypeOK'
  BY <1>3, EnrolType
<1>4. ASSUME NEW w \in Withdrawals, Withdraw(w) PROVE EnrolmentTypeOK'
  BY <1>4, WithdrawType
<1>5. CASE UNCHANGED enrolmentVars
  BY <1>5 DEF EnrolmentTypeOK, EnrolmentIds, enrolmentVars
<1> QED
  BY <1>1, <1>2, <1>3, <1>4, <1>5 DEF EnrolmentNext

\* The registry's state is always well-typed.
THEOREM EnrolmentTypeCorrect == EnrolmentSpec => []EnrolmentTypeOK
<1>1. EnrolmentInit => EnrolmentTypeOK
  BY EnrolmentInitInd DEF EnrolmentInd
<1> QED
  BY <1>1, EnrolmentNextTypeOK, PTL DEF EnrolmentSpec

-----------------------------------------------------------------------------
\* A destroyed reference is not available.
LEMMA GoneMeansDestroyed ==
  GoneOnceWithdrawn <=> \A i \in settled : ~enrolments[i].reference
BY DEF GoneOnceWithdrawn, Available

\* Enrolling adds a reference that the index holds and touches no other.
LEMMA EnrolInd ==
  ASSUME EnrolmentInd, NEW s \in Subjects, NEW m \in Modalities, Enrol(s, m)
  PROVE  (\A i \in settled' : ~enrolments'[i].reference) /\ ExistingCanBeShredded'
<1> DEFINE new == [subject |-> s, modality |-> m, reference |-> TRUE, status |-> "active"]
<1>1. lastId \in Nat /\ lastId' = lastId + 1 /\ settled' = settled /\ settled \subseteq 1..lastId
  BY EnrolmentBounds DEF EnrolmentInd, EnrolmentTypeOK, Enrol, EnrolmentIds
<1>2. /\ enrolments'[lastId + 1] = new
      /\ \A i \in 1..lastId : enrolments'[i] = enrolments[i]
  BY <1>1 DEF Enrol
<1>3. ASSUME NEW i \in settled' PROVE ~enrolments'[i].reference
  BY <1>1, <1>2, <1>3 DEF EnrolmentInd, GoneOnceWithdrawn
<1>4. ASSUME NEW i \in 1..lastId + 1, enrolments'[i].reference
      PROVE  i \in bySubject'[enrolments'[i].subject] /\ enrolments'[i].status = "active"
  <2>1. CASE i = lastId + 1
    BY <1>2, <2>1 DEF Enrol, EnrolmentInd, EnrolmentTypeOK
  <2>2. CASE i \in 1..lastId
    <3>1. i \in bySubject[enrolments[i].subject] /\ enrolments[i].status = "active"
      BY <1>2, <1>4, <2>2 DEF EnrolmentInd, ExistingCanBeShredded, EnrolmentIds
    <3>2. enrolments[i].subject \in Subjects
      BY <2>2 DEF EnrolmentInd, EnrolmentTypeOK, EnrolmentIds, Enrolled
    <3> QED
      BY <1>2, <2>2, <3>1, <3>2 DEF Enrol, EnrolmentInd, EnrolmentTypeOK
  <2> QED
    BY <1>1, <2>1, <2>2
<1> QED
  BY <1>1, <1>3, <1>4 DEF ExistingCanBeShredded, EnrolmentIds

\* Withdrawing destroys every reference of the subject in the modalities named,
\* because the index and the status hide none that exists.
LEMMA WithdrawInd ==
  ASSUME EnrolmentInd, NEW w \in Withdrawals, Withdraw(w)
  PROVE  (\A i \in settled' : ~enrolments'[i].reference) /\ ExistingCanBeShredded'
<1>1. ASSUME NEW i \in EnrolmentIds
      PROVE  enrolments'[i] =
               IF i \in bySubject[w.subject] /\ enrolments[i].status = "active"
                    /\ enrolments[i].modality \in w.modalities
               THEN Shred(enrolments[i]) ELSE enrolments[i]
  BY DEF Withdraw
<1>2. \A i \in EnrolmentIds : ~Shred(enrolments[i]).reference
  BY DEF Shred, EnrolmentInd, EnrolmentTypeOK, Enrolled
<1>3. \A i \in EnrolmentIds : enrolments'[i].reference => enrolments'[i] = enrolments[i]
  BY <1>1, <1>2
<1>4. ASSUME NEW i \in settled' PROVE ~enrolments'[i].reference
  <2>1. i \in EnrolmentIds
    BY DEF Withdraw, EnrolmentInd, EnrolmentTypeOK
  <2>2. CASE i \in settled
    BY <1>3, <2>1, <2>2 DEF EnrolmentInd, GoneOnceWithdrawn
  <2>3. CASE enrolments[i].subject = w.subject /\ enrolments[i].modality \in w.modalities
    BY <1>1, <1>2, <2>1, <2>3 DEF EnrolmentInd, ExistingCanBeShredded
  <2> QED
    BY <2>2, <2>3 DEF Withdraw
<1>5. EnrolmentIds' = EnrolmentIds /\ bySubject' = bySubject
  BY DEF Withdraw, EnrolmentIds
<1>6. ExistingCanBeShredded'
  BY <1>3, <1>5 DEF EnrolmentInd, ExistingCanBeShredded
<1> QED
  BY <1>4, <1>6

LEMMA EnrolmentNextInd == EnrolmentInd /\ [EnrolmentNext]_enrolmentVars => EnrolmentInd'
<1> SUFFICES ASSUME EnrolmentInd, [EnrolmentNext]_enrolmentVars
             PROVE  (\A i \in settled' : ~enrolments'[i].reference) /\ ExistingCanBeShredded'
  BY EnrolmentNextTypeOK DEF EnrolmentInd, GoneOnceWithdrawn, Available
<1>1. ASSUME UNCHANGED <<enrolments, bySubject, lastId, settled>>
      PROVE  (\A i \in settled' : ~enrolments'[i].reference) /\ ExistingCanBeShredded'
  BY <1>1, GoneMeansDestroyed DEF EnrolmentInd, ExistingCanBeShredded, EnrolmentIds
<1>2. ASSUME NEW c \in Consents, RecordConsent(c)
      PROVE  UNCHANGED <<enrolments, bySubject, lastId, settled>>
  BY <1>2 DEF RecordConsent
<1>3. ASSUME Tick \/ UNCHANGED enrolmentVars
      PROVE  UNCHANGED <<enrolments, bySubject, lastId, settled>>
  BY <1>3 DEF Tick, enrolmentVars
<1> QED
  BY <1>1, <1>2, <1>3, EnrolInd, WithdrawInd DEF EnrolmentNext

LEMMA EnrolmentIndInvariant == EnrolmentSpec => []EnrolmentInd
BY EnrolmentInitInd, EnrolmentNextInd, PTL DEF EnrolmentSpec

\* A withdrawn reference is destroyed and stays so.
THEOREM WithdrawalIsFinal == EnrolmentSpec => []GoneOnceWithdrawn
<1>1. EnrolmentInd => GoneOnceWithdrawn
  BY DEF EnrolmentInd
<1> QED
  BY <1>1, EnrolmentIndInvariant, PTL

\* No reference exists that a withdrawal would miss.
THEOREM NothingEscapesWithdrawal == EnrolmentSpec => []ExistingCanBeShredded
<1>1. EnrolmentInd => ExistingCanBeShredded
  BY DEF EnrolmentInd
<1> QED
  BY <1>1, EnrolmentIndInvariant, PTL

================================================================================
