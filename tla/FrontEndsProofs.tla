---------------------------- MODULE FrontEndsProofs ----------------------------
(***************************************************************************)
(* Proofs about FrontEnds, for any tables to start with, any scenes, and   *)
(* any number of requests served at once.                                  *)
(***************************************************************************)
EXTENDS FrontEnds, FiniteSetTheorems, TLAPS

-----------------------------------------------------------------------------
(* The transactions of Accounts: from a database whose rows refer to rows  *)
(* that are there, each commits another such database, or nothing.         *)

Valid(d) == d \in Database /\ Consistent(d)

\* Every lock there was is there, or its user or its repository is gone; a
\* lock that is new has a new id.
LocksCarriedOver(d, e) ==
    /\ d.last.lock <= e.last.lock
    /\ \A l \in LockIds :
          \/ e.lock[l] = d.lock[l]
          \/ d.lock[l] = None /\ d.last.lock < l
          \/ /\ d.lock[l] # None /\ e.lock[l] = None
             /\ \/ ~IsUser(e, d.lock[l].user) \/ ~IsRepo(e, d.lock[l].repo)

\* A transaction fails, or commits a database as it should be.
Sound(d, e) == e # None => Valid(e) /\ LocksCarriedOver(d, e)

LEMMA Numbers ==
    /\ MaxUserId \in Nat /\ MaxTokenId \in Nat /\ MaxRepoId \in Nat /\ MaxLockId \in Nat
    /\ \A i \in UserIds : i \in Nat /\ i # 0
    /\ \A i \in RepoIds : i \in Nat /\ i # 0
  BY AccountsAssumption DEF UserIds, RepoIds

LEMMA RowsAreThere ==
    /\ \A row \in UserRow : row # None
    /\ \A row \in TokenRow : row # None
    /\ \A row \in RepoRow : row # None
    /\ \A row \in LockRow : row # None
  BY NoneAssumption

\* A name finds the row that has it, or nothing when no row has.
LEMMA NamedFinds ==
    ASSUME NEW I, 0 \notin I, NEW t, I = DOMAIN t, NEW n
    PROVE  /\ Named(t, n) = 0 => \A i \in I : t[i] # None => t[i].name # n
           /\ Named(t, n) # 0 => /\ Named(t, n) \in I /\ t[Named(t, n)] # None
                                 /\ t[Named(t, n)].name = n
<1> DEFINE found == {i \in DOMAIN t : t[i] # None /\ t[i].name = n}
<1>1. CASE found = {}
  <2>1. Named(t, n) = 0
    BY <1>1 DEF Named
  <2>2. QED
    BY <1>1, <2>1
<1>2. CASE found # {}
  <2>1. Named(t, n) = CHOOSE i \in found : TRUE
    BY <1>2 DEF Named
  <2>2. Named(t, n) \in found
    BY <1>2, <2>1
  <2>3. QED
    BY <2>2
<1>3. QED
  BY <1>1, <1>2

LEMMA UserNamed ==
    ASSUME NEW d \in Database, NEW n
    PROVE  LET i == FindUserByUsername(d, n) IN
           /\ i = 0 => \A j \in UserIds : IsUser(d, j) => d.user[j].name # n
           /\ i # 0 => i \in UserIds /\ IsUser(d, i) /\ d.user[i].name = n
<1>1. UserIds = DOMAIN d.user /\ 0 \notin UserIds
  BY Numbers DEF Database
<1>2. QED
  BY <1>1, NamedFinds DEF FindUserByUsername, IsUser

LEMMA RepoNamed ==
    ASSUME NEW d \in Database, NEW n
    PROVE  LET r == GetRepoByName(d, n) IN
           /\ r = 0 => \A j \in RepoIds : IsRepo(d, j) => d.repo[j].name # n
           /\ r # 0 => r \in RepoIds /\ IsRepo(d, r) /\ d.repo[r].name = n
<1>1. RepoIds = DOMAIN d.repo /\ 0 \notin RepoIds
  BY Numbers DEF Database
<1>2. QED
  BY <1>1, NamedFinds DEF GetRepoByName, IsRepo

-----------------------------------------------------------------------------
(* Users, keys and tokens                                                  *)

LEMMA CreateUserSound ==
    ASSUME NEW d, Valid(d), d.last.user < MaxUserId,
           NEW n \in UserNames, NEW admin \in BOOLEAN, NEW ks \in SUBSET Keys
    PROVE  Sound(d, CreateUser(d, n, admin, ks))
<1> DEFINE i == d.last.user + 1
           row == [name |-> n, admin |-> admin, password |-> FALSE]
           e == [d EXCEPT !.user[i] = row,
                          !.key = [k \in Keys |-> IF k \in ks THEN i ELSE @[k]],
                          !.last.user = i]
<1>1. CASE FindUserByUsername(d, n) # 0 \/ \E k \in ks : d.key[k] # 0
  BY <1>1 DEF CreateUser, Sound
<1>2. CASE FindUserByUsername(d, n) = 0 /\ \A k \in ks : d.key[k] = 0
  <2>1. CreateUser(d, n, admin, ks) = e
    BY <1>2 DEF CreateUser
  <2>2. d \in Database /\ i \in UserIds /\ i \in Nat /\ row \in UserRow /\ row # None
    <3>1. d \in Database /\ d.last.user \in Nat /\ MaxUserId \in Nat
      BY Numbers DEF Valid, Database
    <3>2. row \in UserRow
      BY DEF UserRow
    <3>3. row # None
      BY <3>2, RowsAreThere
    <3>4. QED
      BY <3>1, <3>2, <3>3 DEF UserIds
  <2>3. /\ e.user = [d.user EXCEPT ![i] = row] /\ e.token = d.token
        /\ e.key = [k \in Keys |-> IF k \in ks THEN i ELSE d.key[k]]
        /\ e.repo = d.repo /\ e.collab = d.collab /\ e.lock = d.lock
        /\ e.last = [d.last EXCEPT !.user = i]
    BY <2>2 DEF Database
  <2>4. e \in Database
    <3>1. e.user \in [UserIds -> UserRow \cup {None}]
      BY <2>2, <2>3 DEF Database
    <3>2. e.key \in [Keys -> 0..MaxUserId] /\ e.last.user \in 0..MaxUserId
      BY <2>2, <2>3, Numbers DEF Database, UserIds
    <3>3. QED
      BY <2>2, <2>3, <3>1, <3>2 DEF Database
  <2>5. \A j \in UserIds : IsUser(e, j) <=> IsUser(d, j) \/ j = i
    BY <2>2, <2>3 DEF IsUser, Database
  <2>6. \A j \in RepoIds : IsRepo(e, j) <=> IsRepo(d, j)
    BY <2>3 DEF IsRepo
  <2>7. \A j \in UserIds : IsUser(d, j) => d.user[j].name # n
    BY <1>2, <2>2, UserNamed
  <2>8. \A j, m \in UserIds :
           IsUser(e, j) /\ IsUser(e, m) /\ e.user[j].name = e.user[m].name => j = m
    <3>1. d.user \in [UserIds -> UserRow \cup {None}] /\ row.name = n
      BY <2>2 DEF Database
    <3>2. (\A j \in UserIds : j # i => e.user[j] = d.user[j]) /\ e.user[i] = row
      BY <2>2, <2>3, <3>1
    <3>3. \A j, m \in UserIds :
             IsUser(d, j) /\ IsUser(d, m) /\ d.user[j].name = d.user[m].name => j = m
      BY DEF Valid, Consistent
    <3>4. QED
      BY <2>5, <2>7, <3>1, <3>2, <3>3
  <2>9. \A k \in Keys : e.key[k] # 0 => IsUser(e, e.key[k])
    <3>1. \A k \in Keys : e.key[k] = i \/ e.key[k] = d.key[k]
      BY <2>3
    <3>2. \A k \in Keys : d.key[k] # 0 => d.key[k] \in UserIds /\ IsUser(d, d.key[k])
      BY <2>2, Numbers DEF Valid, Consistent, Database, UserIds
    <3>3. QED
      BY <2>2, <2>5, <3>1, <3>2
  <2>10. Consistent(e)
    <3> HIDE DEF e, i
    <3>1. (\A j : IsUser(d, j) => IsUser(e, j)) /\ \A j : IsRepo(e, j) <=> IsRepo(d, j)
      BY <2>5, <2>6 DEF IsUser, IsRepo
    <3>2. d.user \in [UserIds -> UserRow \cup {None}] /\ e.last.token = d.last.token
          /\ e.last.repo = d.last.repo /\ e.last.lock = d.last.lock
      BY <2>2, <2>3 DEF Database
    <3>3. Consistent(d)
      BY DEF Valid
    <3>4. /\ \A t \in TokenIds : e.token[t] # None =>
                IsUser(e, e.token[t].user) /\ t <= e.last.token
          /\ \A r \in RepoIds : e.repo[r] # None =>
                IsUser(e, e.repo[r].user) /\ r <= e.last.repo
      BY <2>3, <3>1, <3>2, <3>3 DEF Consistent
    <3>5. /\ \A r \in RepoIds, u \in UserIds :
                e.collab[r][u] # None => IsRepo(e, r) /\ IsUser(e, u)
          /\ \A l \in LockIds : e.lock[l] # None =>
                /\ IsRepo(e, e.lock[l].repo) /\ IsUser(e, e.lock[l].user)
                /\ l <= e.last.lock
      BY <2>3, <3>1, <3>2, <3>3 DEF Consistent
    <3>6. \A j, m \in RepoIds : IsRepo(e, j) /\ IsRepo(e, m) /\ j # m =>
             e.repo[j].name # e.repo[m].name
      BY <2>3, <3>1, <3>3 DEF Consistent
    <3>7. QED
      BY <2>8, <2>9, <3>4, <3>5, <3>6 DEF Consistent
  <2>11. LocksCarriedOver(d, e)
    BY <2>2, <2>3 DEF LocksCarriedOver, Database
  <2>12. QED
    BY <2>1, <2>4, <2>10, <2>11 DEF Sound, Valid
<1>3. QED
  BY <1>1, <1>2

\* Nothing changes but a row of a key, which refers to a user.
LEMMA AddPublicKeySound ==
    ASSUME NEW d, Valid(d), NEW n, NEW k \in Keys
    PROVE  Sound(d, AddPublicKey(d, n, k))
<1> DEFINE i == FindUserByUsername(d, n)
           e == [d EXCEPT !.key[k] = i]
<1>1. CASE i = 0 \/ d.key[k] # 0
  BY <1>1 DEF AddPublicKey, Sound
<1>2. CASE i # 0 /\ d.key[k] = 0
  <2>1. AddPublicKey(d, n, k) = e
    BY <1>2 DEF AddPublicKey
  <2>2. d \in Database /\ i \in UserIds /\ IsUser(d, i)
    BY <1>2, UserNamed DEF Valid
  <2>3. i \in 0..MaxUserId
    BY <2>2, Numbers DEF UserIds
  <2>4. e \in Database
    BY <2>2, <2>3 DEF Database
  <2>5. Consistent(e)
    BY <2>2 DEF Valid, Consistent, Database, IsUser, IsRepo
  <2>6. LocksCarriedOver(d, e)
    BY <2>2 DEF LocksCarriedOver, Database
  <2>7. QED
    BY <2>1, <2>4, <2>5, <2>6 DEF Sound, Valid
<1>3. QED
  BY <1>1, <1>2

LEMMA Unchanged == ASSUME NEW d, Valid(d) PROVE Sound(d, d)
<1>1. d.last.lock \in Nat
  BY Numbers DEF Valid, Database
<1>2. QED
  BY <1>1 DEF Sound, LocksCarriedOver

LEMMA RemovePublicKeySound ==
    ASSUME NEW d, Valid(d), NEW n, NEW k \in Keys
    PROVE  Sound(d, RemovePublicKey(d, n, k))
<1> DEFINE e == [d EXCEPT !.key[k] = 0]
<1>1. CASE d.key[k] # 0 /\ d.key[k] = FindUserByUsername(d, n)
  <2>1. RemovePublicKey(d, n, k) = e
    BY <1>1 DEF RemovePublicKey
  <2>2. d \in Database
    BY DEF Valid
  <2>3. e \in Database
    <3>1. 0 \in 0..MaxUserId
      BY Numbers
    <3>2. e.key \in [Keys -> 0..MaxUserId]
      BY <2>2, <3>1 DEF Database
    <3>3. QED
      BY <2>2, <3>2 DEF Database
  <2>4. Consistent(e)
    BY <2>2 DEF Valid, Consistent, Database, IsUser, IsRepo
  <2>5. LocksCarriedOver(d, e)
    BY <2>2 DEF LocksCarriedOver, Database
  <2>6. QED
    BY <2>1, <2>3, <2>4, <2>5 DEF Sound, Valid
<1>2. CASE ~(d.key[k] # 0 /\ d.key[k] = FindUserByUsername(d, n))
  <2>1. RemovePublicKey(d, n, k) = d
    BY <1>2 DEF RemovePublicKey
  <2>2. QED
    BY <2>1, Unchanged
<1>3. QED
  BY <1>1, <1>2

\* A row of a user is replaced by one whose name no other user has.
LEMMA UserRowSound ==
    ASSUME NEW d, Valid(d), NEW i \in UserIds, IsUser(d, i), NEW row \in UserRow,
           \A j \in UserIds : IsUser(d, j) /\ j # i => d.user[j].name # row.name
    PROVE  Sound(d, [d EXCEPT !.user[i] = row])
<1> DEFINE e == [d EXCEPT !.user[i] = row]
<1>1. d \in Database /\ row # None
  BY RowsAreThere DEF Valid
<1>2. e \in Database
  BY <1>1 DEF Database
<1>3. \A j \in UserIds : IsUser(e, j) <=> IsUser(d, j)
  BY <1>1 DEF IsUser, Database
<1>4. \A j \in RepoIds : IsRepo(e, j) <=> IsRepo(d, j)
  BY <1>1 DEF IsRepo, Database
<1>5. Consistent(e)
  BY <1>1, <1>3, <1>4 DEF Valid, Consistent, Database, IsUser, IsRepo
<1>6. LocksCarriedOver(d, e)
  BY <1>1 DEF LocksCarriedOver, Database
<1>7. QED
  BY <1>2, <1>5, <1>6 DEF Sound, Valid

LEMMA SetUsernameSound ==
    ASSUME NEW d, Valid(d), NEW n, NEW new \in UserNames
    PROVE  Sound(d, SetUsername(d, n, new))
<1> DEFINE i == FindUserByUsername(d, n)
           j == FindUserByUsername(d, new)
<1>1. CASE i = 0
  BY <1>1, Unchanged DEF SetUsername
<1>2. CASE i # 0 /\ j \notin {0, i}
  BY <1>2 DEF SetUsername, Sound
<1>3. CASE i # 0 /\ j \in {0, i}
  <2>1. d \in Database /\ i \in UserIds /\ IsUser(d, i) /\ d.user[i] \in UserRow
    BY <1>3, UserNamed DEF Valid, Database, IsUser
  <2>2. SetUsername(d, n, new) = [d EXCEPT !.user[i].name = new]
    BY <1>3 DEF SetUsername
  <2> DEFINE row == [d.user[i] EXCEPT !.name = new]
  <2>3. row \in UserRow /\ row.name = new
    BY <2>1 DEF UserRow
  <2>4. [d EXCEPT !.user[i].name = new] = [d EXCEPT !.user[i] = row]
    BY <2>1 DEF Database
  <2>5. \A m \in UserIds : IsUser(d, m) /\ m # i => d.user[m].name # new
    BY <1>3, <2>1, UserNamed DEF Valid, Consistent
  <2> HIDE DEF row
  <2>6. Sound(d, [d EXCEPT !.user[i] = row])
    BY <2>1, <2>3, <2>5, UserRowSound
  <2>7. QED
    BY <2>2, <2>4, <2>6
<1>4. QED
  BY <1>1, <1>2, <1>3

\* An update of a user's row that keeps the name.
LEMMA SameNameSound ==
    ASSUME NEW d, Valid(d), NEW i \in UserIds, IsUser(d, i), NEW row \in UserRow,
           row.name = d.user[i].name
    PROVE  Sound(d, [d EXCEPT !.user[i] = row])
<1>1. \A j \in UserIds : IsUser(d, j) /\ j # i => d.user[j].name # row.name
  BY DEF Valid, Consistent
<1>2. QED
  BY <1>1, UserRowSound

LEMMA SetAdminSound ==
    ASSUME NEW d, Valid(d), NEW n, NEW admin \in BOOLEAN
    PROVE  Sound(d, SetAdmin(d, n, admin))
<1> DEFINE i == FindUserByUsername(d, n)
<1>1. CASE i = 0
  BY <1>1, Unchanged DEF SetAdmin
<1>2. CASE i # 0
  <2>1. d \in Database /\ i \in UserIds /\ IsUser(d, i) /\ d.user[i] \in UserRow
    BY <1>2, UserNamed DEF Valid, Database, IsUser
  <2> DEFINE row == [d.user[i] EXCEPT !.admin = admin]
  <2>2. row \in UserRow /\ row.name = d.user[i].name
    BY <2>1 DEF UserRow
  <2>3. SetAdmin(d, n, admin) = [d EXCEPT !.user[i] = row]
    BY <1>2, <2>1 DEF SetAdmin, Database
  <2> HIDE DEF row
  <2>4. Sound(d, [d EXCEPT !.user[i] = row])
    BY <2>1, <2>2, SameNameSound
  <2>5. QED
    BY <2>3, <2>4
<1>3. QED
  BY <1>1, <1>2

LEMMA SetPasswordSound ==
    ASSUME NEW d, Valid(d), NEW n PROVE Sound(d, SetPassword(d, n))
<1> DEFINE i == FindUserByUsername(d, n)
<1>1. CASE i = 0
  BY <1>1, Unchanged DEF SetPassword
<1>2. CASE i # 0
  <2>1. d \in Database /\ i \in UserIds /\ IsUser(d, i) /\ d.user[i] \in UserRow
    BY <1>2, UserNamed DEF Valid, Database, IsUser
  <2> DEFINE row == [d.user[i] EXCEPT !.password = TRUE]
  <2>2. row \in UserRow /\ row.name = d.user[i].name
    BY <2>1 DEF UserRow
  <2>3. SetPassword(d, n) = [d EXCEPT !.user[i] = row]
    BY <1>2, <2>1 DEF SetPassword, Database
  <2> HIDE DEF row
  <2>4. Sound(d, [d EXCEPT !.user[i] = row])
    BY <2>1, <2>2, SameNameSound
  <2>5. QED
    BY <2>3, <2>4
<1>3. QED
  BY <1>1, <1>2

\* The rows that refer to a user go with the user's row.
LEMMA DeleteUserSound ==
    ASSUME NEW d, Valid(d), NEW n PROVE Sound(d, DeleteUser(d, n))
<1> DEFINE i == FindUserByUsername(d, n)
           e == DeleteUserRow(d, i)
<1>1. CASE i = 0 \/ Repositories(d, i) # {}
  BY <1>1 DEF DeleteUser, Sound
<1>2. CASE i # 0 /\ Repositories(d, i) = {}
  <2>1. DeleteUser(d, n) = e
    BY <1>2 DEF DeleteUser
  <2>2. d \in Database /\ i \in UserIds /\ IsUser(d, i)
    BY <1>2, UserNamed DEF Valid
  <2>3. /\ e.user = [d.user EXCEPT ![i] = None]
        /\ e.key = [k \in Keys |-> IF d.key[k] = i THEN 0 ELSE d.key[k]]
        /\ e.token = [t \in TokenIds |->
              IF d.token[t] # None /\ d.token[t].user = i THEN None ELSE d.token[t]]
        /\ e.collab = [r \in RepoIds |-> [d.collab[r] EXCEPT ![i] = None]]
        /\ e.lock = [l \in LockIds |->
              IF d.lock[l] # None /\ d.lock[l].user = i THEN None ELSE d.lock[l]]
        /\ e.repo = d.repo /\ e.last = d.last /\ e.anon = d.anon /\ e.keyless = d.keyless
    BY <2>2 DEF DeleteUserRow, Database
  <2>4. /\ e.user \in [UserIds -> UserRow \cup {None}]
        /\ e.key \in [Keys -> 0..MaxUserId]
        /\ e.token \in [TokenIds -> TokenRow \cup {None}]
        /\ e.lock \in [LockIds -> LockRow \cup {None}]
    BY <2>2, <2>3, Numbers DEF Database
  <2>5. e.collab \in [RepoIds -> [UserIds -> Levels \cup {None}]]
    BY <2>2, <2>3 DEF Database
  <2>6. e \in Database
    BY <2>2, <2>3, <2>4, <2>5 DEF Database, DeleteUserRow
  <2>7. \A j \in UserIds : IsUser(e, j) <=> IsUser(d, j) /\ j # i
    BY <2>2, <2>3 DEF IsUser, Database
  <2>8. \A j \in RepoIds : IsRepo(e, j) <=> IsRepo(d, j)
    BY <2>3 DEF IsRepo
  <2>9. \A r \in RepoIds : d.repo[r] # None => d.repo[r].user # i
    BY <1>2 DEF Repositories
  <2>10. \A r \in RepoIds, u \in UserIds : e.collab[r][u] # None =>
            u # i /\ d.collab[r][u] # None
    BY <2>2, <2>3 DEF Database
  <2>11. Consistent(e)
    BY <2>2, <2>3, <2>7, <2>8, <2>9, <2>10
    DEF Valid, Consistent, Database, IsUser, IsRepo
  <2>12. LocksCarriedOver(d, e)
    BY <2>2, <2>3, <2>7 DEF LocksCarriedOver, Database, IsUser
  <2>13. QED
    BY <2>1, <2>6, <2>11, <2>12 DEF Sound, Valid
<1>3. QED
  BY <1>1, <1>2

LEMMA CreateAccessTokenSound ==
    ASSUME NEW d, Valid(d), d.last.token < MaxTokenId, NEW i
    PROVE  Sound(d, CreateAccessToken(d, i))
<1> DEFINE t == d.last.token + 1
           row == [user |-> i, expired |-> FALSE]
           e == [d EXCEPT !.token[t] = row, !.last.token = t]
<1>1. CASE ~IsUser(d, i)
  BY <1>1 DEF CreateAccessToken, Sound
<1>2. CASE IsUser(d, i)
  <2>1. CreateAccessToken(d, i) = e
    BY <1>2 DEF CreateAccessToken
  <2>2. /\ d \in Database /\ row \in TokenRow /\ d.last.token \in Nat
        /\ t \in TokenIds /\ t \in 0..MaxTokenId
    BY <1>2, Numbers DEF Valid, Database, IsUser, TokenRow, TokenIds
  <2>3. e \in Database
    BY <2>2 DEF Database
  <2>4. Consistent(e)
    <3>1. /\ e.token = [d.token EXCEPT ![t] = row] /\ e.last.token = t
          /\ e.last.repo = d.last.repo /\ e.last.lock = d.last.lock
          /\ e.user = d.user /\ e.key = d.key /\ e.repo = d.repo
          /\ e.lock = d.lock /\ e.collab = d.collab
      BY <2>2 DEF Database
    <3>2. ASSUME NEW s \in TokenIds, e.token[s] # None
          PROVE  IsUser(e, e.token[s].user) /\ s <= e.last.token
      <4>1. CASE s = t
        BY <1>2, <2>2, <3>1, <4>1 DEF IsUser, Database
      <4>2. CASE s # t
        <5>1. d.token[s] # None /\ e.token[s] = d.token[s] /\ s \in Nat
          BY <2>2, <3>1, <3>2, <4>2, Numbers DEF Database, TokenIds
        <5>2. IsUser(d, d.token[s].user) /\ s <= d.last.token
          BY <5>1 DEF Valid, Consistent
        <5>3. QED
          BY <2>2, <3>1, <5>1, <5>2 DEF IsUser
      <4>3. QED
        BY <4>1, <4>2
    <3> HIDE DEF e
    <3>3. QED
      BY <3>1, <3>2 DEF Valid, Consistent, IsUser, IsRepo
  <2>5. LocksCarriedOver(d, e)
    BY <2>2 DEF LocksCarriedOver, Database
  <2>6. QED
    BY <2>1, <2>3, <2>4, <2>5 DEF Sound, Valid
<1>3. QED
  BY <1>1, <1>2

LEMMA DeleteAccessTokenSound ==
    ASSUME NEW d, Valid(d), NEW i, NEW t \in TokenIds
    PROVE  Sound(d, DeleteAccessToken(d, i, t))
<1> DEFINE e == [d EXCEPT !.token[t] = None]
<1>1. CASE d.token[t] = None
  BY <1>1 DEF DeleteAccessToken, Sound
<1>2. CASE d.token[t] # None /\ d.token[t].user # i
  BY <1>2, Unchanged DEF DeleteAccessToken
<1>3. CASE d.token[t] # None /\ d.token[t].user = i
  <2>1. DeleteAccessToken(d, i, t) = e /\ d \in Database
    BY <1>3 DEF DeleteAccessToken, Valid
  <2>2. e \in Database
    BY <2>1 DEF Database
  <2>3. Consistent(e)
    BY <2>1 DEF Valid, Consistent, Database, IsUser, IsRepo
  <2>4. LocksCarriedOver(d, e)
    BY <2>1 DEF LocksCarriedOver, Database
  <2>5. QED
    BY <2>1, <2>2, <2>3, <2>4 DEF Sound, Valid
<1>4. QED
  BY <1>1, <1>2, <1>3

\* Time passes.
LEMMA ExpirySound ==
    ASSUME NEW d, Valid(d), NEW t \in TokenIds, d.token[t] # None
    PROVE  LET e == [d EXCEPT !.token[t].expired = TRUE] IN
           Valid(e) /\ LocksCarriedOver(d, e)
<1> DEFINE row == [d.token[t] EXCEPT !.expired = TRUE]
           e == [d EXCEPT !.token[t] = row]
<1>1. d \in Database /\ d.token[t] \in TokenRow
  BY DEF Valid, Database
<1>2. row \in TokenRow /\ row.user = d.token[t].user
  BY <1>1 DEF TokenRow
<1>3. [d EXCEPT !.token[t].expired = TRUE] = e
  BY <1>1 DEF Database
<1> HIDE DEF row
<1>4. e \in Database
  BY <1>1, <1>2 DEF Database
<1>5. Consistent(e)
  BY <1>1, <1>2 DEF Valid, Consistent, Database, IsUser, IsRepo
<1>6. LocksCarriedOver(d, e)
  BY <1>1 DEF LocksCarriedOver, Database
<1>7. QED
  BY <1>3, <1>4, <1>5, <1>6 DEF Valid

-----------------------------------------------------------------------------
(* Repositories, collaborators and settings                                *)

LEMMA CreateRepositorySound ==
    ASSUME NEW d, Valid(d), d.last.repo < MaxRepoId,
           NEW n \in RepoNames, NEW i, NEW private \in BOOLEAN
    PROVE  Sound(d, CreateRepository(d, n, i, private))
<1> DEFINE r == d.last.repo + 1
           row == [name |-> n, user |-> i, private |-> private]
           e == [d EXCEPT !.repo[r] = row, !.last.repo = r]
<1>1. CASE ~IsUser(d, i) \/ GetRepoByName(d, n) # 0
  BY <1>1 DEF CreateRepository, Sound
<1>2. CASE IsUser(d, i) /\ GetRepoByName(d, n) = 0
  <2>1. CreateRepository(d, n, i, private) = e
    BY <1>2 DEF CreateRepository
  <2>2. row \in RepoRow
    BY <1>2 DEF IsUser, RepoRow
  <2>3. /\ d \in Database /\ row # None /\ d.last.repo \in Nat
        /\ r \in RepoIds /\ r \in 0..MaxRepoId
    BY <2>2, Numbers, RowsAreThere DEF Valid, Database, RepoIds
  <2>4. row.name = n /\ row.user = i
    OBVIOUS
  <2>5. \A j \in RepoIds : IsRepo(d, j) => d.repo[j].name # n
    BY <1>2, <2>3, RepoNamed
  <2>6. \A j \in RepoIds : d.repo[j] # None => j <= d.last.repo
    BY DEF Valid, Consistent
  <2> HIDE DEF row
  <2>7. e \in Database
    BY <2>2, <2>3 DEF Database
  <2>8. \A j \in RepoIds : IsRepo(e, j) <=> IsRepo(d, j) \/ j = r
    BY <2>3 DEF IsRepo, Database
  <2>9. \A j \in UserIds : IsUser(e, j) <=> IsUser(d, j)
    BY <2>3 DEF IsUser, Database
  <2>10. Consistent(e)
    <3>1. /\ e.repo = [d.repo EXCEPT ![r] = row] /\ e.last.repo = r
          /\ e.last.token = d.last.token /\ e.last.lock = d.last.lock
          /\ e.user = d.user /\ e.key = d.key /\ e.token = d.token
          /\ e.lock = d.lock /\ e.collab = d.collab
          /\ e.repo[r] = row /\ \A j \in RepoIds : j # r => e.repo[j] = d.repo[j]
      BY <2>3 DEF Database
    <3>2. ASSUME NEW j \in RepoIds, e.repo[j] # None
          PROVE  IsUser(e, e.repo[j].user) /\ j <= e.last.repo
      <4>1. CASE j = r
        BY <1>2, <2>3, <2>4, <2>9, <3>1, <4>1 DEF IsUser
      <4>2. CASE j # r
        <5>1. d.repo[j] # None /\ e.repo[j] = d.repo[j] /\ j \in Nat
          BY <3>1, <3>2, <4>2, Numbers
        <5>2. IsUser(d, d.repo[j].user) /\ j <= d.last.repo
          BY <5>1 DEF Valid, Consistent
        <5>3. QED
          BY <2>3, <3>1, <5>1, <5>2 DEF IsUser
      <4>3. QED
        BY <4>1, <4>2
    <3>3. \A i1, j1 \in RepoIds : IsRepo(e, i1) /\ IsRepo(e, j1) /\ i1 # j1 =>
             e.repo[i1].name # e.repo[j1].name
      BY <2>4, <2>5, <2>8, <3>1 DEF Valid, Consistent
    <3> HIDE DEF e
    <3>4. QED
      BY <2>8, <3>1, <3>2, <3>3 DEF Valid, Consistent, IsUser, IsRepo
  <2>11. LocksCarriedOver(d, e)
    BY <2>3 DEF LocksCarriedOver, Database
  <2>12. QED
    BY <2>1, <2>7, <2>10, <2>11 DEF Sound, Valid
<1>3. QED
  BY <1>1, <1>2

LEMMA DeleteRepositorySound ==
    ASSUME NEW d, Valid(d), NEW n PROVE Sound(d, DeleteRepository(d, n))
<1> DEFINE r == GetRepoByName(d, n)
           e == DeleteRepository(d, n)
<1>1. CASE r = 0
  BY <1>1 DEF DeleteRepository, Sound
<1>2. CASE r # 0
  <2>1. d \in Database /\ r \in RepoIds /\ IsRepo(d, r)
    BY <1>2, RepoNamed DEF Valid
  <2>2. e = [d EXCEPT
              !.repo[r] = None,
              !.collab[r] = [u \in UserIds |-> None],
              !.lock = [l \in LockIds |->
                          IF @[l] # None /\ @[l].repo = r THEN None ELSE @[l]]]
    BY <1>2 DEF DeleteRepository
  <2>3. /\ e.repo = [d.repo EXCEPT ![r] = None]
        /\ e.collab = [d.collab EXCEPT ![r] = [u \in UserIds |-> None]]
        /\ e.lock = [l \in LockIds |->
              IF d.lock[l] # None /\ d.lock[l].repo = r THEN None ELSE d.lock[l]]
        /\ e.user = d.user /\ e.key = d.key /\ e.token = d.token
        /\ e.last = d.last /\ e.anon = d.anon /\ e.keyless = d.keyless
    BY <2>1, <2>2 DEF Database
  <2>4. /\ e.repo \in [RepoIds -> RepoRow \cup {None}]
        /\ e.collab \in [RepoIds -> [UserIds -> Levels \cup {None}]]
        /\ e.lock \in [LockIds -> LockRow \cup {None}]
    BY <2>1, <2>3 DEF Database
  <2>5. e \in Database
    BY <2>1, <2>2, <2>3, <2>4 DEF Database
  <2>6. \A j \in RepoIds : IsRepo(e, j) <=> IsRepo(d, j) /\ j # r
    BY <2>1, <2>3 DEF IsRepo, Database
  <2>7. \A j \in UserIds : IsUser(e, j) <=> IsUser(d, j)
    BY <2>3 DEF IsUser
  <2>8. \A j \in RepoIds, u \in UserIds : e.collab[j][u] # None =>
            j # r /\ d.collab[j][u] # None
    BY <2>1, <2>3 DEF Database
  <2>9. Consistent(e)
    BY <2>1, <2>3, <2>6, <2>7, <2>8 DEF Valid, Consistent, Database, IsUser, IsRepo
  <2>10. LocksCarriedOver(d, e)
    BY <2>1, <2>3, <2>6 DEF LocksCarriedOver, Database
  <2>11. QED
    BY <2>5, <2>9, <2>10 DEF Sound, Valid
<1>3. QED
  BY <1>1, <1>2

\* A row of a repository is replaced by one of the same user, whose name no
\* other repository has.
LEMMA RepoRowSound ==
    ASSUME NEW d, Valid(d), NEW r \in RepoIds, IsRepo(d, r), NEW row \in RepoRow,
           row.user = d.repo[r].user,
           \A j \in RepoIds : IsRepo(d, j) /\ j # r => d.repo[j].name # row.name
    PROVE  Sound(d, [d EXCEPT !.repo[r] = row])
<1> DEFINE e == [d EXCEPT !.repo[r] = row]
<1>1. d \in Database /\ row # None
  BY RowsAreThere DEF Valid
<1>2. e \in Database
  BY <1>1 DEF Database
<1>3. \A j \in UserIds : IsUser(e, j) <=> IsUser(d, j)
  BY <1>1 DEF IsUser, Database
<1>4. \A j \in RepoIds : IsRepo(e, j) <=> IsRepo(d, j)
  BY <1>1 DEF IsRepo, Database
<1>5. Consistent(e)
  BY <1>1, <1>3, <1>4 DEF Valid, Consistent, Database, IsUser, IsRepo
<1>6. LocksCarriedOver(d, e)
  BY <1>1 DEF LocksCarriedOver, Database
<1>7. QED
  BY <1>2, <1>5, <1>6 DEF Sound, Valid

LEMMA RenameRepositorySound ==
    ASSUME NEW d, Valid(d), NEW n, NEW new \in RepoNames
    PROVE  Sound(d, RenameRepository(d, n, new))
<1> DEFINE r == GetRepoByName(d, n)
<1>1. CASE new = n
  BY <1>1, Unchanged DEF RenameRepository
<1>2. CASE new # n /\ (r = 0 \/ GetRepoByName(d, new) # 0)
  BY <1>2 DEF RenameRepository, Sound
<1>3. CASE new # n /\ r # 0 /\ GetRepoByName(d, new) = 0
  <2>1. d \in Database /\ r \in RepoIds /\ IsRepo(d, r) /\ d.repo[r] \in RepoRow
    BY <1>3, RepoNamed DEF Valid, Database, IsRepo
  <2> DEFINE row == [d.repo[r] EXCEPT !.name = new]
  <2>2. row \in RepoRow /\ row.name = new /\ row.user = d.repo[r].user
    BY <2>1 DEF RepoRow
  <2>3. RenameRepository(d, n, new) = [d EXCEPT !.repo[r] = row]
    BY <1>3, <2>1 DEF RenameRepository, Database
  <2>4. \A j \in RepoIds : IsRepo(d, j) => d.repo[j].name # new
    BY <1>3, <2>1, RepoNamed
  <2> HIDE DEF row
  <2>5. Sound(d, [d EXCEPT !.repo[r] = row])
    BY <2>1, <2>2, <2>4, RepoRowSound
  <2>6. QED
    BY <2>3, <2>5
<1>4. QED
  BY <1>1, <1>2, <1>3

LEMMA SetPrivateSound ==
    ASSUME NEW d, Valid(d), NEW n, NEW private \in BOOLEAN
    PROVE  Sound(d, SetPrivate(d, n, private))
<1> DEFINE r == GetRepoByName(d, n)
<1>1. CASE r = 0
  BY <1>1 DEF SetPrivate, Sound
<1>2. CASE r # 0
  <2>1. d \in Database /\ r \in RepoIds /\ IsRepo(d, r) /\ d.repo[r] \in RepoRow
    BY <1>2, RepoNamed DEF Valid, Database, IsRepo
  <2> DEFINE row == [d.repo[r] EXCEPT !.private = private]
  <2>2. row \in RepoRow /\ row.name = d.repo[r].name /\ row.user = d.repo[r].user
    BY <2>1 DEF RepoRow
  <2>3. SetPrivate(d, n, private) = [d EXCEPT !.repo[r] = row]
    BY <1>2, <2>1 DEF SetPrivate, Database
  <2>4. \A j \in RepoIds : IsRepo(d, j) /\ j # r => d.repo[j].name # row.name
    BY <2>1, <2>2 DEF Valid, Consistent
  <2> HIDE DEF row
  <2>5. Sound(d, [d EXCEPT !.repo[r] = row])
    BY <2>1, <2>2, <2>4, RepoRowSound
  <2>6. QED
    BY <2>3, <2>5
<1>3. QED
  BY <1>1, <1>2

\* A collaborator of a repository and a user that are there comes or goes.
LEMMA CollabSound ==
    ASSUME NEW d, Valid(d), NEW r \in RepoIds, IsRepo(d, r), NEW u \in UserIds,
           IsUser(d, u), NEW level \in Levels \cup {None}
    PROVE  Sound(d, [d EXCEPT !.collab[r][u] = level])
<1> DEFINE e == [d EXCEPT !.collab[r][u] = level]
<1>1. d \in Database
  BY DEF Valid
<1>2. e \in Database
  BY <1>1 DEF Database
<1>3. /\ \A j \in UserIds : IsUser(e, j) <=> IsUser(d, j)
      /\ \A j \in RepoIds : IsRepo(e, j) <=> IsRepo(d, j)
  BY <1>1 DEF IsUser, IsRepo, Database
<1>4. \A j \in RepoIds, v \in UserIds :
          e.collab[j][v] = d.collab[j][v] \/ (j = r /\ v = u)
  BY <1>1 DEF Database
<1>5. Consistent(e)
  BY <1>1, <1>3, <1>4 DEF Valid, Consistent, Database, IsUser, IsRepo
<1>6. LocksCarriedOver(d, e)
  BY <1>1 DEF LocksCarriedOver, Database
<1>7. QED
  BY <1>2, <1>5, <1>6 DEF Sound, Valid

LEMMA CollaboratorSound ==
    ASSUME NEW d, Valid(d), NEW n, NEW username, NEW level \in Levels
    PROVE  /\ Sound(d, AddCollaborator(d, n, username, level))
           /\ Sound(d, RemoveCollaborator(d, n, username))
<1> DEFINE r == GetRepoByName(d, n)
           u == FindUserByUsername(d, username)
<1>1. CASE r = 0 \/ u = 0
  BY <1>1 DEF AddCollaborator, RemoveCollaborator, Sound
<1>2. CASE r # 0 /\ u # 0
  <2>1. r \in RepoIds /\ IsRepo(d, r) /\ u \in UserIds /\ IsUser(d, u)
    BY <1>2, RepoNamed, UserNamed DEF Valid
  <2>2. /\ Sound(d, [d EXCEPT !.collab[r][u] = level])
        /\ Sound(d, [d EXCEPT !.collab[r][u] = None])
    BY <2>1, CollabSound
  <2>3. QED
    BY <1>2, <2>2 DEF AddCollaborator, RemoveCollaborator, Sound
<1>3. QED
  BY <1>1, <1>2

LEMMA SettingsSound ==
    ASSUME NEW d, Valid(d), NEW level \in Levels, NEW allow \in BOOLEAN
    PROVE  Sound(d, SetAnonAccess(d, level)) /\ Sound(d, SetAllowKeyless(d, allow))
<1> DEFINE e == SetAnonAccess(d, level)
           f == SetAllowKeyless(d, allow)
<1>1. d \in Database
  BY DEF Valid
<1>2. e \in Database /\ f \in Database
  BY <1>1 DEF Database, SetAnonAccess, SetAllowKeyless
<1>3. Consistent(e) /\ Consistent(f)
  BY <1>1 DEF Valid, Consistent, Database, IsUser, IsRepo, SetAnonAccess, SetAllowKeyless
<1>4. LocksCarriedOver(d, e) /\ LocksCarriedOver(d, f)
  BY <1>1 DEF LocksCarriedOver, Database, SetAnonAccess, SetAllowKeyless
<1>5. QED
  BY <1>2, <1>3, <1>4 DEF Sound, Valid

-----------------------------------------------------------------------------
(* Locks                                                                   *)

LEMMA CreateLFSLockForUserSound ==
    ASSUME NEW d, Valid(d), d.last.lock < MaxLockId, NEW r, NEW u, NEW path \in Paths
    PROVE  Sound(d, CreateLFSLockForUser(d, r, u, path))
<1> DEFINE l == d.last.lock + 1
           row == [repo |-> r, user |-> u, path |-> path]
           e == [d EXCEPT !.lock[l] = row, !.last.lock = l]
<1>1. CASE CreateLFSLockForUser(d, r, u, path) = None
  BY <1>1 DEF Sound
<1>2. CASE CreateLFSLockForUser(d, r, u, path) # None
  <2>1. CreateLFSLockForUser(d, r, u, path) = e /\ IsRepo(d, r) /\ IsUser(d, u)
    BY <1>2 DEF CreateLFSLockForUser
  <2>2. row \in LockRow
    BY <2>1 DEF IsRepo, IsUser, LockRow
  <2>3. /\ d \in Database /\ row # None /\ d.last.lock \in Nat
        /\ l \in LockIds /\ l \in 0..MaxLockId
    BY <2>2, Numbers, RowsAreThere DEF Valid, Database, LockIds
  <2>4. row.repo = r /\ row.user = u
    OBVIOUS
  <2>5. d.lock[l] = None
    BY <2>3 DEF Valid, Consistent
  <2> HIDE DEF row
  <2>6. e \in Database
    BY <2>2, <2>3 DEF Database
  <2>7. /\ IsRepo(e, r) /\ IsUser(e, u)
        /\ \A j \in UserIds : IsUser(e, j) <=> IsUser(d, j)
        /\ \A j \in RepoIds : IsRepo(e, j) <=> IsRepo(d, j)
    BY <2>1, <2>3 DEF IsUser, IsRepo, Database
  <2>8. Consistent(e)
    <3>1. /\ e.lock = [d.lock EXCEPT ![l] = row] /\ e.last.lock = l
          /\ e.last.token = d.last.token /\ e.last.repo = d.last.repo
          /\ e.user = d.user /\ e.key = d.key /\ e.token = d.token
          /\ e.repo = d.repo /\ e.collab = d.collab
      BY <2>3 DEF Database
    <3>2. ASSUME NEW m \in LockIds, e.lock[m] # None
          PROVE  /\ IsRepo(e, e.lock[m].repo) /\ IsUser(e, e.lock[m].user)
                 /\ m <= e.last.lock
      <4>1. CASE m = l
        BY <2>3, <2>4, <2>7, <3>1, <4>1 DEF Database
      <4>2. CASE m # l
        <5>1. d.lock[m] # None /\ e.lock[m] = d.lock[m] /\ m \in Nat
          BY <2>3, <3>1, <3>2, <4>2, Numbers DEF Database, LockIds
        <5>2. /\ IsRepo(d, d.lock[m].repo) /\ IsUser(d, d.lock[m].user)
              /\ m <= d.last.lock
          BY <5>1 DEF Valid, Consistent
        <5>3. QED
          BY <2>3, <3>1, <5>1, <5>2 DEF IsUser, IsRepo
      <4>3. QED
        BY <4>1, <4>2
    <3> HIDE DEF e
    <3>3. QED
      BY <3>1, <3>2 DEF Valid, Consistent, IsUser, IsRepo
  <2>9. LocksCarriedOver(d, e)
    BY <2>3, <2>5 DEF LocksCarriedOver, Database
  <2>10. QED
    BY <2>1, <2>6, <2>8, <2>9 DEF Sound, Valid
<1>3. QED
  BY <1>1, <1>2

\* An unlock takes the row, and no other.
LEMMA UnlockSound ==
    ASSUME NEW d, Valid(d), NEW l \in LockIds
    PROVE  LET e == [d EXCEPT !.lock[l] = None] IN
           /\ Valid(e) /\ e.last = d.last
           /\ \A m \in LockIds : e.lock[m] = IF m = l THEN None ELSE d.lock[m]
<1> DEFINE e == [d EXCEPT !.lock[l] = None]
<1>1. d \in Database
  BY DEF Valid
<1>2. e \in Database
  BY <1>1 DEF Database
<1>3. e.last = d.last /\ \A m \in LockIds : e.lock[m] = IF m = l THEN None ELSE d.lock[m]
  BY <1>1 DEF Database
<1>4. Consistent(e)
  BY <1>1, <1>3 DEF Valid, Consistent, Database, IsUser, IsRepo
<1>5. QED
  BY <1>2, <1>3, <1>4 DEF Valid

-----------------------------------------------------------------------------
(* The inductive invariant                                                 *)

\* Whom a request acts for, 0 for nobody.
Actor(c) == IF c.who = None THEN 0 ELSE c.who.id

Identified(c) == c.who # None => c.who.id = c.cred

\* The commands that create a repository have been given its name.
NamesRepo(c) ==
    c.pc \in {"collab", "httpCreate", "httpCreateFirst"} => c.name \in RepoNames

\* An unlock over HTTP has compared the owner, and the lock it was for, as long
\* as it is there, is still that owner's: ids are never handed out twice.
Unlocks(c, d) ==
    /\ c.lock <= d.last.lock
    /\ c.pc \in {"unlock", "lfsUnlock"} => c.lock # 0
    /\ c.pc = "unlock" /\ d.lock[c.lock] # None =>
          c.who.admin \/ c.who.id = d.lock[c.lock].user

\* The level a check asks for before a request waits at its place.
NeedAt(place) == IF place \in {"readable", "httpRead"} THEN ReadOnly ELSE ReadWrite

\* Until another request commits, what a request has read is as it read it, and
\* the reason it was let through for is there.
Cleared(c, d) ==
    /\ c.who # None => c.who = Snapshot(d, c.who.id)
    /\ c.pc = "session" =>
          c.who = IF c.key = None THEN None ELSE UserByPublicKey(d, c.key)
    /\ c.pc \in AtLocks => c.repo # None /\ c.repo = RepoSnapshot(d, c.name)
    /\ c.pc \in ForRepository =>
          \/ c.key \in AdminKeys /\ c.pc = "readable"
          \/ \E l \in Reasons(d, Actor(c), c.name) :
                \/ l >= NeedAt(c.pc)
                \/ c.pc \in AtLocks /\ c.form = "git-upload-pack" /\ l >= ReadOnly

\* A gRPC method acts for nobody while it makes one change after the other.
Nobodys(c) == c.pc \in {"grpcPassword", "grpcAdmin", "grpcAnon"} => c.who = None

CallOK(c, d) ==
    /\ Identified(c) /\ NamesRepo(c) /\ Nobodys(c) /\ Unlocks(c, d)
    /\ ~c.overtaken => Cleared(c, d)

Inv == TypeOK /\ RowsReferToRows /\ \A p \in Procs : CallOK(call[p], db)

-----------------------------------------------------------------------------
(* A level has a reason                                                    *)

LEMMA Small ==
    /\ MaxUserId \in Nat /\ MaxTokenId \in Nat /\ MaxRepoId \in Nat /\ MaxLockId \in Nat
    /\ 0 \notin UserIds /\ 0 \notin RepoIds /\ 0 \notin LockIds
    /\ LockIds \subseteq 0..MaxLockId /\ UserIds \subseteq 0..MaxUserId
    /\ \A s \in Scenes : MaxRequests[s] \in Nat
  BY AccountsAssumption, RequestsAssumption DEF UserIds, RepoIds, LockIds

\* The user a name finds, when it is the name of one, is that user.
LEMMA OwnName ==
    ASSUME NEW d, Valid(d), NEW i \in UserIds, IsUser(d, i)
    PROVE  FindUserByUsername(d, d.user[i].name) = i
<1>1. LET j == FindUserByUsername(d, d.user[i].name) IN
      /\ j # 0 /\ j \in UserIds /\ IsUser(d, j) /\ d.user[j].name = d.user[i].name
  BY UserNamed DEF Valid
<1>2. QED
  BY <1>1 DEF Valid, Consistent

LEMMA SnapshotIs ==
    ASSUME NEW d \in Database, NEW i
    PROVE  /\ Snapshot(d, i) \in Who \cup {None}
           /\ Snapshot(d, i) # None =>
                 /\ IsUser(d, i) /\ i \in UserIds /\ Snapshot(d, i).id = i
                 /\ Snapshot(d, i).name = d.user[i].name
                 /\ Snapshot(d, i).admin = d.user[i].admin
<1>1. CASE IsUser(d, i)
  BY <1>1 DEF Snapshot, IsUser, Database, UserRow, Who
<1>2. CASE ~IsUser(d, i)
  BY <1>2 DEF Snapshot
<1>3. QED
  BY <1>1, <1>2

LEMMA RepoSnapshotIs ==
    ASSUME NEW d \in Database, NEW n
    PROVE  LET r == GetRepoByName(d, n)
               s == RepoSnapshot(d, n) IN
           /\ s \in Context \cup {None}
           /\ s = None <=> r = 0
           /\ s # None => /\ r \in RepoIds /\ IsRepo(d, r) /\ d.repo[r].name = n
                          /\ s.id = r /\ s.user = d.repo[r].user
                          /\ s.private = d.repo[r].private
<1> DEFINE r == GetRepoByName(d, n)
<1>1. CASE r = 0
  BY <1>1 DEF RepoSnapshot
<1>2. CASE r # 0
  <2>1. r \in RepoIds /\ IsRepo(d, r) /\ d.repo[r].name = n /\ d.repo[r] \in RepoRow
    BY <1>2, RepoNamed DEF IsRepo, Database
  <2> DEFINE s == [id |-> r, user |-> d.repo[r].user, private |-> d.repo[r].private]
  <2>2. RepoSnapshot(d, n) = s
    BY <1>2 DEF RepoSnapshot
  <2>3. s \in Context
    BY <2>1 DEF Context, RepoRow
  <2>4. s # None
    BY <2>3, NoneAssumption
  <2>5. QED
    BY <1>2, <2>1, <2>2, <2>3, <2>4
<1>3. QED
  BY <1>1, <1>2

\* The lattice of AccessLevelForUser gives no level without a reason.
LEMMA LevelHasReason ==
    ASSUME NEW d, Valid(d), NEW who \in Who \cup {None},
           who # None => who = Snapshot(d, who.id),
           NEW n, NEW need \in {ReadOnly, ReadWrite},
           AccessLevelForUser(d, n, who) >= need
    PROVE  \E l \in Reasons(d, IF who = None THEN 0 ELSE who.id, n) : l >= need
<1> DEFINE i == IF who = None THEN 0 ELSE who.id
           r == GetRepoByName(d, n)
           repo == RepoSnapshot(d, n)
           collab == IF r # 0 /\ i # 0 THEN d.collab[r][i] ELSE None
<1>1. d \in Database /\ d.anon \in Levels /\ need \in {1, 2}
  BY DEF Valid, Database, ReadOnly, ReadWrite
<1>2. who # None => /\ i \in UserIds /\ i # 0 /\ IsUser(d, i)
                    /\ who.admin = d.user[i].admin /\ who.name = d.user[i].name
                    /\ FindUserByUsername(d, who.name) = i
  BY <1>1, SnapshotIs, OwnName, Small
<1>3. /\ repo = None <=> r = 0
      /\ repo # None => /\ r \in RepoIds /\ IsRepo(d, r) /\ repo.user = d.repo[r].user
                        /\ repo.private = d.repo[r].private
  BY <1>1, RepoSnapshotIs
<1>4. AccessLevelOn(d, repo, n, who) >= need
  BY DEF AccessLevelForUser
<1>5. CASE who # None /\ who.admin
  <2>1. IsUser(d, i) /\ d.user[i].admin
    BY <1>2, <1>5
  <2>2. Admin \in Reasons(d, i, n)
    BY <2>1 DEF Reasons
  <2>3. QED
    BY <1>1, <2>2 DEF Admin
<1>6. CASE ~(who # None /\ who.admin) /\ repo = None
  <2>1. AccessLevelOn(d, repo, n, who) = IF who = None THEN d.anon ELSE Higher(d.anon, ReadWrite)
    BY <1>6 DEF AccessLevelOn
  <2>2. d.anon \in Reasons(d, i, n) /\ (who # None => ReadWrite \in Reasons(d, i, n))
    BY <1>2, <1>3, <1>6 DEF Reasons
  <2>3. QED
    BY <1>1, <1>4, <2>1, <2>2 DEF Higher, ReadWrite, Levels
<1>7. CASE ~(who # None /\ who.admin) /\ repo # None
  <2>1. CASE who # None /\ repo.user = who.id
    <3>1. Admin \in Reasons(d, i, n) /\ Admin >= need
      BY <1>1, <1>2, <1>3, <1>7, <2>1 DEF Reasons, Admin
    <3>2. QED
      BY <3>1
  <2>2. who # None => IsCollaborator(d, n, who.name) = collab
    BY <1>2, <1>3, <1>7 DEF IsCollaborator
  <2>3. CASE ~(who # None /\ repo.user = who.id) /\ who # None /\ collab # None
    <3>1. AccessLevelOn(d, repo, n, who) = Higher(d.anon, collab)
      BY <1>7, <2>2, <2>3 DEF AccessLevelOn
    <3>2. collab \in Reasons(d, i, n) /\ d.anon \in Reasons(d, i, n)
      BY <2>3 DEF Reasons
    <3>3. QED
      BY <1>4, <3>1, <3>2 DEF Higher
  <2>4. CASE ~(who # None /\ repo.user = who.id) /\ ~(who # None /\ collab # None)
    <3>1. AccessLevelOn(d, repo, n, who) =
             IF repo.private THEN NoAccess ELSE IF who = None THEN d.anon ELSE ReadOnly
      BY <1>7, <2>2, <2>4 DEF AccessLevelOn
    <3>2. ~repo.private
      BY <1>1, <1>4, <3>1 DEF NoAccess
    <3>3. collab = None
      BY <2>4
    <3>4. (IF who = None THEN d.anon ELSE ReadOnly) \in Reasons(d, i, n)
      BY <1>2, <1>3, <1>7, <3>2, <3>3 DEF Reasons
    <3>5. QED
      BY <1>4, <3>1, <3>2, <3>4
  <2>5. QED
    BY <2>1, <2>3, <2>4
<1>8. QED
  BY <1>5, <1>6, <1>7

-----------------------------------------------------------------------------
(* Steps and commits keep the invariant                                    *)

\* What a commit may do to the locks that requests have read: no id is used
\* again, and a row does not change, it goes.
LocksOnlyGo(d, e) ==
    /\ d.last.lock <= e.last.lock
    /\ \A l \in LockIds : \/ e.lock[l] = d.lock[l] \/ e.lock[l] = None
                          \/ d.lock[l] = None /\ d.last.lock < l

LEMMA CarriedOver ==
    ASSUME NEW d, NEW e, LocksCarriedOver(d, e) PROVE LocksOnlyGo(d, e)
  BY DEF LocksCarriedOver, LocksOnlyGo

\* A step that takes no lock but with its user or its repository.
Kept == Inv' /\ LocksCarriedOver(db, db')

LEMMA IdleCall == Idle \in Call /\ \A d \in Database : CallOK(Idle, d)
<1>1. Idle \in Call
  BY Small DEF Idle, Call, CallPC
<1>2. ASSUME NEW d \in Database PROVE CallOK(Idle, d)
  <2>1. d.last.lock \in Nat
    BY Small DEF Database
  <2>2. QED
    BY <2>1, Small
    DEF Idle, CallOK, Identified, NamesRepo, Nobodys, Unlocks, Cleared, ForRepository, AtLocks
<1>3. QED
  BY <1>1, <1>2

\* A request in hand while another commits.
LEMMA OthersKeep ==
    ASSUME NEW d \in Database, NEW e \in Database, LocksOnlyGo(d, e),
           NEW c \in Call, CallOK(c, d), NEW late \in BOOLEAN,
           ~late => ~c.overtaken /\ e = d
    PROVE  /\ [c EXCEPT !.overtaken = late] \in Call
           /\ CallOK([c EXCEPT !.overtaken = late], e)
<1> DEFINE b == [c EXCEPT !.overtaken = late]
<1>1. b \in Call
  BY DEF Call
<1>2. /\ b.pc = c.pc /\ b.key = c.key /\ b.who = c.who /\ b.cred = c.cred
      /\ b.repo = c.repo /\ b.name = c.name /\ b.lock = c.lock /\ b.overtaken = late
      /\ b.form = c.form
  BY DEF Call
<1> HIDE DEF b
<1>3. Identified(b) /\ NamesRepo(b) /\ Nobodys(b)
  BY <1>2 DEF CallOK, Identified, NamesRepo, Nobodys
<1>4. Unlocks(b, e)
  <2>1. /\ c.lock <= d.last.lock /\ d.last.lock <= e.last.lock
        /\ c.lock \in Nat /\ d.last.lock \in Nat /\ e.last.lock \in Nat
    BY Small DEF CallOK, Unlocks, LocksOnlyGo, Call, Database
  <2>2. b.lock <= e.last.lock
    BY <1>2, <2>1
  <2>3. ASSUME c.pc = "unlock", e.lock[c.lock] # None
        PROVE  d.lock[c.lock] # None /\ e.lock[c.lock] = d.lock[c.lock]
    <3>1. c.lock \in LockIds
      BY <2>3 DEF Call, LockIds, CallOK, Unlocks
    <3>2. QED
      BY <2>1, <2>3, <3>1 DEF LocksOnlyGo
  <2>4. QED
    BY <1>2, <2>2, <2>3 DEF CallOK, Unlocks
<1>5. ASSUME ~late PROVE Cleared(b, e)
  <2>1. Cleared(c, d) /\ e = d
    BY <1>5 DEF CallOK
  <2>2. QED
    BY <1>2, <2>1 DEF Cleared, Actor
<1>6. CallOK(b, e)
  BY <1>2, <1>3, <1>4, <1>5 DEF CallOK
<1>7. QED
  BY <1>1, <1>6 DEF b

LEMMA InvFacts ==
    ASSUME Inv
    PROVE  /\ Valid(db) /\ db \in Database /\ scene \in Scenes
           /\ call \in [Procs -> Call] /\ spoiled \subseteq RepoIds
           /\ subjects \subseteq [name : UserNames, id : UserIds] /\ up \in BOOLEAN
           /\ requests \in 0..MaxRequests[scene]
           /\ \A p \in Procs : call[p] \in Call /\ CallOK(call[p], db)
  BY DEF Inv, TypeOK, RowsReferToRows, Valid

\* The next request is one of those that are left.
LEMMA OneMore ==
    ASSUME Inv, requests < MaxRequests[scene], requests' = requests + 1,
           UNCHANGED scene
    PROVE  requests' \in 0..MaxRequests[scene']
<1>1. MaxRequests[scene] \in Nat /\ requests \in 0..MaxRequests[scene]
  BY InvFacts, Small
<1>2. QED
  BY <1>1

LEMMA SameTables == ASSUME Inv, UNCHANGED db PROVE LocksCarriedOver(db, db')
<1>1. db.last.lock \in 0..MaxLockId
  BY InvFacts DEF Database
<1>2. db.last.lock <= db.last.lock
  BY <1>1, Small
<1>3. QED
  BY <1>2 DEF LocksCarriedOver

LEMMA StepInv ==
    ASSUME Inv, NEW p \in Procs, NEW c \in Call, Step(p, c), CallOK(c, db),
           requests' \in 0..MaxRequests[scene']
    PROVE  Kept
<1>1. /\ call \in [Procs -> Call] /\ call' = [call EXCEPT ![p] = c]
      /\ UNCHANGED <<db, spoiled, subjects, up, scene>>
  BY InvFacts DEF Step
<1>2. TypeOK'
  BY <1>1 DEF Inv, TypeOK
<1>3. RowsReferToRows'
  BY <1>1 DEF Inv, RowsReferToRows
<1>4. ASSUME NEW q \in Procs PROVE CallOK(call'[q], db)
  BY <1>1, InvFacts
<1>5. QED
  BY <1>1, <1>2, <1>3, <1>4, SameTables DEF Inv, Kept

LEMMA CommitInv ==
    ASSUME Inv, NEW p \in Procs, NEW c \in Call, NEW d,
           d # None => Valid(d) /\ LocksOnlyGo(db, d),
           CommitThen(p, d, c), CallOK(c, db'),
           requests' \in 0..MaxRequests[scene'], spoiled' \subseteq RepoIds
    PROVE  Inv'
<1>1. /\ Valid(db) /\ db \in Database /\ call \in [Procs -> Call]
      /\ db' = IF d = None THEN db ELSE d
      /\ UNCHANGED <<subjects, up, scene>>
      /\ call' = [q \in Procs |->
            IF q = p THEN c
            ELSE IF Active(q) THEN [call[q] EXCEPT !.overtaken = @ \/ db' # db]
            ELSE Idle]
  BY InvFacts DEF CommitThen
<1>2. Valid(db') /\ db' \in Database /\ LocksOnlyGo(db, db')
  <2>1. LocksOnlyGo(db, db)
    BY <1>1, Small DEF LocksOnlyGo, Database
  <2>2. QED
    BY <1>1, <2>1 DEF Valid
<1>3. ASSUME NEW q \in Procs PROVE call'[q] \in Call /\ CallOK(call'[q], db')
  <2>1. CASE q = p
    BY <1>1, <2>1
  <2>2. CASE q # p /\ Active(q)
    <3> DEFINE late == call[q].overtaken \/ db' # db
    <3>1. call'[q] = [call[q] EXCEPT !.overtaken = late]
      BY <1>1, <2>2
    <3>2. late \in BOOLEAN /\ (~late => ~call[q].overtaken /\ db' = db)
      OBVIOUS
    <3>3. call[q] \in Call /\ CallOK(call[q], db)
      BY InvFacts
    <3> HIDE DEF late
    <3>4. QED
      BY <1>1, <1>2, <3>1, <3>2, <3>3, OthersKeep
  <2>3. CASE q # p /\ ~Active(q)
    BY <1>1, <1>2, <2>3, IdleCall
  <2>4. QED
    BY <2>1, <2>2, <2>3
<1>4. call' \in [Procs -> Call]
  BY <1>1, <1>3
<1>5. TypeOK'
  BY <1>1, <1>2, <1>4 DEF Inv, TypeOK
<1>6. RowsReferToRows'
  BY <1>2 DEF RowsReferToRows, Valid
<1>7. QED
  BY <1>3, <1>5, <1>6 DEF Inv

LEMMA SoundCommit ==
    ASSUME Inv, NEW d, Sound(db, d), db' = IF d = None THEN db ELSE d
    PROVE  LocksCarriedOver(db, db')
  BY SameTables DEF Sound

\* The request ends with its transaction, as nearly all do.
LEMMA CommitEnds ==
    ASSUME Inv, NEW p \in Procs, NEW d, Sound(db, d), CommitThen(p, d, Idle),
           requests' \in 0..MaxRequests[scene'], spoiled' \subseteq RepoIds
    PROVE  Kept
<1>1. d # None => Valid(d) /\ LocksOnlyGo(db, d)
  BY CarriedOver DEF Sound
<1>2. db' \in Database
  BY <1>1, InvFacts DEF CommitThen, Valid
<1>3. QED
  BY <1>1, <1>2, IdleCall, CommitInv, SoundCommit DEF Kept, CommitThen

LEMMA CommitOnce ==
    ASSUME Inv, NEW p \in Procs, NEW d, Sound(db, d), Commit(p, d) PROVE Kept
<1>1. requests' \in 0..MaxRequests[scene'] /\ spoiled' \subseteq RepoIds
  BY InvFacts DEF Commit, CommitThen
<1>2. QED
  BY <1>1, CommitEnds DEF Commit

LEMMA EndsInv == ASSUME Inv, NEW p \in Procs, Ends(p) PROVE Kept
<1>1. Step(p, Idle) /\ requests' \in 0..MaxRequests[scene']
  BY InvFacts DEF Ends, Step
<1>2. QED
  BY <1>1, InvFacts, IdleCall, StepInv

\* The process ends, or has come back.
LEMMA DiesInv ==
    ASSUME Inv, NEW d, Sound(db, d), ProcessDies(d),
           requests' \in 0..MaxRequests[scene'], UNCHANGED spoiled
    PROVE  Kept
<1>1. Valid(db')
  BY InvFacts DEF ProcessDies, Sound
<1>2. db' \in Database /\ Consistent(db')
  BY <1>1 DEF Valid
<1>3. \A q \in Procs : call'[q] = Idle
  BY DEF ProcessDies
<1>4. call' \in [Procs -> Call]
  BY IdleCall DEF ProcessDies
<1>5. TypeOK'
  BY <1>2, <1>4 DEF ProcessDies, Inv, TypeOK
<1>6. LocksCarriedOver(db, db')
  BY SoundCommit DEF ProcessDies
<1>7. QED
  BY <1>2, <1>3, <1>5, <1>6, IdleCall DEF Inv, Kept, RowsReferToRows

-----------------------------------------------------------------------------
(* Requests come in and are checked                                        *)

\* A request that moves on keeps all but the fields that c has of its own.
LEMMA MovesOn ==
    ASSUME Inv, NEW p \in Procs, NEW c \in Call, Step(p, c), UNCHANGED requests,
           CallOK(c, db)
    PROVE  Kept
<1>1. requests' \in 0..MaxRequests[scene']
  BY InvFacts DEF Step
<1>2. QED
  BY <1>1, StepInv

LEMMA SessionReason ==
    ASSUME Inv, NEW p \in Procs, ~call[p].overtaken, NEW n,
           NEW need \in {ReadOnly, ReadWrite}, LevelOf(p, n) >= need
    PROVE  \E l \in Reasons(db, Actor(call[p]), n) : l >= need
<1>1. Cleared(call[p], db) /\ call[p].who \in Who \cup {None}
  BY InvFacts DEF CallOK, Call
<1>2. QED
  BY <1>1, InvFacts, LevelHasReason DEF Cleared, LevelOf, Actor

\* A check by key looks its user up by name, and finds the session's.
LEMMA KeyReason ==
    ASSUME Inv, NEW p \in Procs, At(p, "session"), ~call[p].overtaken, NEW n,
           AccessLevelByPublicKey(db, n, call[p].key) >= ReadOnly
    PROVE  \/ call[p].key \in AdminKeys
           \/ \E l \in Reasons(db, Actor(call[p]), n) : l >= ReadOnly
<1> DEFINE c == call[p]
           byKey == IF c.key = None THEN None ELSE UserByPublicKey(db, c.key)
<1>1. /\ c.who = byKey /\ c.who \in Who \cup {None} /\ Valid(db) /\ db \in Database
      /\ c.who # None => c.who = Snapshot(db, c.who.id)
  BY InvFacts DEF CallOK, Call, Cleared, At
<1>2. SUFFICES ASSUME c.key \notin AdminKeys
               PROVE  \E l \in Reasons(db, Actor(c), n) : l >= ReadOnly
  OBVIOUS
<1>3. AccessLevelForUser(db, n, IF byKey = None THEN None ELSE User(db, byKey.name))
        >= ReadOnly
  BY <1>2 DEF AccessLevelByPublicKey
<1>4. byKey # None => User(db, byKey.name) = byKey
  <2>1. SUFFICES ASSUME byKey # None PROVE User(db, byKey.name) = byKey
    OBVIOUS
  <2>2. /\ IsUser(db, byKey.id) /\ byKey.id \in UserIds
        /\ byKey.name = db.user[byKey.id].name /\ byKey = Snapshot(db, byKey.id)
    BY <1>1, <2>1, SnapshotIs
  <2>3. FindUserByUsername(db, byKey.name) = byKey.id
    BY <1>1, <2>2, OwnName
  <2> HIDE DEF byKey
  <2>4. QED
    BY <2>2, <2>3 DEF User
<1>5. AccessLevelForUser(db, n, c.who) >= ReadOnly
  BY <1>1, <1>3, <1>4
<1> HIDE DEF byKey
<1>6. QED
  BY <1>1, <1>5, LevelHasReason DEF Actor

\* PersistentPreRunE lets a session go on to its command.
LEMMA PassesInv ==
    ASSUME Inv, NEW p \in Procs, At(p, "session"), UNCHANGED requests,
           NEW n \in UserNames \cup RepoNames,
           NEW place \in {"readable", "collab", "writable", "admin"},
           place = "collab" => n \in RepoNames,
           place # "admin" /\ ~call[p].overtaken =>
              \/ call[p].key \in AdminKeys /\ place = "readable"
              \/ \E l \in Reasons(db, Actor(call[p]), n) : l >= NeedAt(place),
           Step(p, [call[p] EXCEPT !.pc = place, !.name = n])
    PROVE  Kept
<1> DEFINE c == call[p]
           e == [c EXCEPT !.pc = place, !.name = n]
<1>1. c \in Call /\ CallOK(c, db)
  BY InvFacts
<1>2. e \in Call
  BY <1>1 DEF Call, CallPC
<1>3. /\ e.pc = place /\ e.name = n /\ e.key = c.key /\ e.who = c.who /\ e.cred = c.cred
      /\ e.repo = c.repo /\ e.lock = c.lock /\ e.overtaken = c.overtaken
  BY <1>1 DEF Call
<1> HIDE DEF e
<1>4. Identified(e) /\ NamesRepo(e) /\ Nobodys(e) /\ Unlocks(e, db)
  BY <1>1, <1>3 DEF CallOK, Identified, NamesRepo, Nobodys, Unlocks
<1>5. ASSUME ~e.overtaken PROVE Cleared(e, db)
  BY <1>1, <1>3, <1>5 DEF CallOK, Cleared, ForRepository, AtLocks, Actor
<1>6. CallOK(e, db)
  BY <1>4, <1>5 DEF CallOK
<1>7. Step(p, e)
  BY DEF e
<1>8. QED
  BY <1>2, <1>6, <1>7, MovesOn

\* A check for what level is asked, at which place it is passed.
LEMMA ChecksInv ==
    ASSUME Inv, NEW p \in Procs, NEW n \in RepoNames,
           \/ checkIfReadable(p, n) \/ checkIfCollab(p, n)
           \/ checkIfReadableAndCollab(p, n) \/ SessionHandler(p, n) \/ RepoList(p, n)
    PROVE  Kept
<1> DEFINE Goes(place) == Step(p, [call[p] EXCEPT !.pc = place, !.name = n])
           Reason(need) == \E l \in Reasons(db, Actor(call[p]), n) : l >= need
<1>1. At(p, "session") /\ UNCHANGED requests
  BY DEF checkIfReadable, checkIfCollab, checkIfReadableAndCollab, SessionHandler,
         RepoList, Checked
<1>2. \/ Ends(p)
      \/ Goes("readable") /\ LevelOf(p, n) >= ReadOnly
      \/ Goes("collab") /\ LevelOf(p, n) >= ReadWrite
      \/ Goes("writable") /\ LevelOf(p, n) >= ReadWrite
      \/ Goes("readable") /\ AccessLevelByPublicKey(db, n, call[p].key) >= ReadOnly
  BY <1>1 DEF checkIfReadable, checkIfCollab, checkIfReadableAndCollab, SessionHandler,
              RepoList, Checked, Ends
<1>3. CASE Ends(p)
  BY <1>3, EndsInv
<1>4. CASE Goes("readable") /\ LevelOf(p, n) >= ReadOnly
  <2>1. ~call[p].overtaken => Reason(NeedAt("readable"))
    BY <1>4, SessionReason DEF NeedAt
  <2>2. QED
    BY <1>1, <1>4, <2>1, PassesInv
<1>5. CASE Goes("collab") /\ LevelOf(p, n) >= ReadWrite
  <2>1. ~call[p].overtaken => Reason(NeedAt("collab"))
    BY <1>5, SessionReason DEF NeedAt
  <2>2. QED
    BY <1>1, <1>5, <2>1, PassesInv
<1>6. CASE Goes("writable") /\ LevelOf(p, n) >= ReadWrite
  <2>1. ~call[p].overtaken => Reason(NeedAt("writable"))
    BY <1>6, SessionReason DEF NeedAt
  <2>2. QED
    BY <1>1, <1>6, <2>1, PassesInv
<1>7. CASE Goes("readable") /\ AccessLevelByPublicKey(db, n, call[p].key) >= ReadOnly
  <2>1. ~call[p].overtaken => call[p].key \in AdminKeys \/ Reason(NeedAt("readable"))
    BY <1>1, <1>7, KeyReason DEF NeedAt
  <2>2. QED
    BY <1>1, <1>7, <2>1, PassesInv
<1>8. QED
  BY <1>2, <1>3, <1>4, <1>5, <1>6, <1>7

LEMMA checkIfAdminInv ==
    ASSUME Inv, NEW p \in Procs, NEW n \in UserNames \cup RepoNames, checkIfAdmin(p, n)
    PROVE  Kept
<1>1. At(p, "session") /\ UNCHANGED requests
  BY DEF checkIfAdmin, Checked
<1>2. Ends(p) \/ Step(p, [call[p] EXCEPT !.pc = "admin", !.name = n])
  BY <1>1 DEF checkIfAdmin, Checked, Ends
<1>3. QED
  BY <1>1, <1>2, EndsInv, PassesInv

LEMMA SetterCheckInv == ASSUME Inv, NEW p \in Procs, SetterCheck(p) PROVE Kept
<1> DEFINE c == call[p]
           e == [c EXCEPT !.pc = "setter"]
<1>1. c \in Call /\ CallOK(c, db) /\ At(p, "readable") /\ UNCHANGED requests
  BY InvFacts DEF SetterCheck
<1>2. CASE LevelOf(p, c.name) >= ReadWrite
  <2>1. e \in Call
    BY <1>1 DEF Call, CallPC
  <2>2. /\ e.pc = "setter" /\ e.name = c.name /\ e.key = c.key /\ e.who = c.who
        /\ e.cred = c.cred /\ e.repo = c.repo /\ e.lock = c.lock
        /\ e.overtaken = c.overtaken
    BY <1>1 DEF Call
  <2>3. Step(p, e)
    BY <1>2 DEF SetterCheck
  <2>4. ~c.overtaken => \E l \in Reasons(db, Actor(c), c.name) : l >= NeedAt("setter")
    BY <1>2, SessionReason DEF NeedAt
  <2> HIDE DEF e
  <2>5. Identified(e) /\ NamesRepo(e) /\ Nobodys(e) /\ Unlocks(e, db)
    BY <1>1, <2>2 DEF CallOK, Identified, NamesRepo, Nobodys, Unlocks
  <2>6. ASSUME ~e.overtaken PROVE Cleared(e, db)
    BY <1>1, <2>2, <2>4, <2>6 DEF CallOK, Cleared, ForRepository, AtLocks, Actor
  <2>7. QED
    BY <1>1, <2>1, <2>3, <2>5, <2>6, MovesOn DEF CallOK
<1>3. CASE ~(LevelOf(p, c.name) >= ReadWrite)
  BY <1>1, <1>3, EndsInv DEF SetterCheck, Ends
<1>4. QED
  BY <1>2, <1>3

\* A request begins with what it knows.
LEMMA StartsInv ==
    ASSUME Inv, NEW p \in Procs, NEW c \in Call, Starts(p, c), CallOK(c, db) PROVE Kept
<1>1. requests' \in 0..MaxRequests[scene']
  BY OneMore DEF Starts, Step
<1>2. QED
  BY <1>1, StepInv DEF Starts

LEMMA LoginInv ==
    ASSUME Inv, NEW p \in Procs, NEW k \in Keys \cup {None}, Login(p, k) PROVE Kept
<1> DEFINE who == IF k = None THEN None ELSE UserByPublicKey(db, k)
           cred == IF k = None THEN 0 ELSE db.key[k]
           c == [Idle EXCEPT !.pc = "session", !.key = k, !.who = who, !.cred = cred]
<1>1. Starts(p, c) /\ db \in Database
  BY InvFacts DEF Login
<1>2. /\ who \in Who \cup {None} /\ cred \in 0..MaxUserId
      /\ who # None => who.id = cred /\ who = Snapshot(db, cred)
  <2>1. CASE k = None
    BY <2>1, Small
  <2>2. CASE k # None
    <3>1. k \in Keys /\ db.key[k] \in 0..MaxUserId /\ who = Snapshot(db, db.key[k])
      BY <1>1, <2>2 DEF Database, UserByPublicKey
    <3>2. QED
      BY <1>1, <2>2, <3>1, SnapshotIs
  <2>3. QED
    BY <2>1, <2>2
<1>3. /\ c.pc = "session" /\ c.key = k /\ c.who = who /\ c.cred = cred
      /\ c.lock = 0 /\ c.repo = None /\ c.overtaken = FALSE
  BY DEF Idle
<1>4. c \in Call
  BY <1>2, IdleCall DEF Call, CallPC
<1>5. who = IF k = None THEN None ELSE UserByPublicKey(db, k)
  OBVIOUS
<1>6. db.last.lock \in Nat
  BY <1>1, Small DEF Database
<1> HIDE DEF who, cred, c
<1>7. CallOK(c, db)
  BY <1>2, <1>3, <1>5, <1>6
  DEF CallOK, Identified, NamesRepo, Nobodys, Unlocks, Cleared, ForRepository, AtLocks
<1>8. QED
  BY <1>1, <1>4, <1>7, StartsInv

-----------------------------------------------------------------------------
(* Credentials, and the requests of one user                               *)

\* What a client presents lets in the user it was given to, or nobody.
LEMMA Authentic ==
    ASSUME Inv, NEW c \in Credentials
    PROVE  /\ authenticate(c) \in Who \cup {None}
           /\ IssuedTo(c) \in 0..MaxUserId
           /\ authenticate(c) # None => /\ authenticate(c).id = IssuedTo(c)
                                        /\ authenticate(c) = Snapshot(db, IssuedTo(c))
<1>1. /\ db \in Database /\ UserIds \subseteq 0..MaxUserId /\ 0 \in 0..MaxUserId
      /\ subjects \subseteq [name : UserNames, id : UserIds]
  BY InvFacts, Small
<1>2. CASE c.kind = "anonymous"
  BY <1>1, <1>2 DEF authenticate, IssuedTo
<1>3. CASE c.kind \in {"token", "basic"}
  <2>1. c.token \in TokenIds
    BY <1>3 DEF Credentials
  <2>2. db.token[c.token] # None => db.token[c.token].user \in UserIds
    BY <1>1, <2>1 DEF Database, TokenRow
  <2>3. /\ authenticate(c) = UserByAccessToken(db, c.token)
        /\ IssuedTo(c) = IF db.token[c.token] = None THEN 0 ELSE db.token[c.token].user
    BY <1>3 DEF authenticate, IssuedTo
  <2>4. CASE db.token[c.token] # None /\ ~db.token[c.token].expired
    <3>1. /\ authenticate(c) = Snapshot(db, IssuedTo(c))
          /\ IssuedTo(c) = db.token[c.token].user
      BY <2>3, <2>4 DEF UserByAccessToken
    <3>2. QED
      BY <1>1, <2>2, <2>4, <3>1, SnapshotIs
  <2>5. CASE ~(db.token[c.token] # None /\ ~db.token[c.token].expired)
    <3>1. authenticate(c) = None
      BY <2>3, <2>5 DEF UserByAccessToken
    <3>2. IssuedTo(c) \in 0..MaxUserId
      BY <1>1, <2>2, <2>3
    <3>3. QED
      BY <3>1, <3>2
  <2>6. QED
    BY <2>4, <2>5
<1>4. CASE c.kind = "password"
  <2>1. c.id \in UserIds
    BY <1>4 DEF Credentials
  <2>2. authenticate(c) = UserByPassword(db, c.name, c.id) /\ IssuedTo(c) = c.id
    BY <1>4 DEF authenticate, IssuedTo
  <2>3. QED
    BY <1>1, <2>1, <2>2, SnapshotIs DEF UserByPassword
<1>5. CASE c.kind = "bearer"
  <2>1. c.subject.id \in UserIds
    BY <1>1, <1>5 DEF Credentials
  <2>2. authenticate(c) = Bearer(db, c.subject) /\ IssuedTo(c) = c.subject.id
    BY <1>5 DEF authenticate, IssuedTo
  <2>3. QED
    BY <1>1, <2>1, <2>2, SnapshotIs DEF Bearer, User
<1>6. QED
  BY <1>2, <1>3, <1>4, <1>5 DEF Credentials

LEMMA ReasonsAreLevels ==
    ASSUME NEW d \in Database, NEW i \in UserIds \cup {0}, NEW n
    PROVE  Reasons(d, i, n) \subseteq Levels
<1> DEFINE r == GetRepoByName(d, n)
           collab == IF r # 0 /\ i # 0 THEN d.collab[r][i] ELSE None
<1>1. r # 0 => r \in RepoIds
  BY RepoNamed
<1>2. collab # None => collab \in Levels
  BY <1>1 DEF Database
<1>3. {ReadOnly, ReadWrite, Admin, d.anon} \subseteq Levels
  BY DEF Database, Levels, ReadOnly, ReadWrite, Admin
<1>4. \A l \in Reasons(d, i, n) :
         l \in {ReadOnly, ReadWrite, Admin, d.anon} \/ (collab # None /\ l = collab)
  BY DEF Reasons
<1> HIDE DEF collab
<1>5. QED
  BY <1>2, <1>3, <1>4

LEMMA withAccessInv ==
    ASSUME Inv, NEW p \in Procs, NEW n \in RepoNames, NEW c \in Credentials,
           NEW route \in Routes, NEW form \in Services \cup {None},
           withAccess(p, n, c, route, form)
    PROVE  Kept
<1> DEFINE repo == RepoSnapshot(db, n)
           who == IF c.kind = "bearer" /\ repo = None THEN None ELSE authenticate(c)
           cred == IssuedTo(c)
           named == IF route = "locks" THEN form ELSE None
           need == Need(route, form)
           Waits(place) == [Idle EXCEPT !.who = who, !.cred = cred, !.repo = repo,
                                        !.name = n, !.form = named, !.pc = place]
           Places == {"httpRead", "httpPush", "httpWrite", "httpCreate",
                      "httpCreateFirst"}
<1>1. /\ Valid(db) /\ db \in Database /\ db.last.lock \in Nat
      /\ who \in Who \cup {None} /\ cred \in 0..MaxUserId
      /\ who # None => who.id = cred /\ who = Snapshot(db, cred)
  BY InvFacts, Authentic, Small DEF Database
<1>2. repo = RepoSnapshot(db, n) /\ repo \in Context \cup {None}
  BY <1>1, RepoSnapshotIs
<1>3. PICK place \in Places :
         /\ AccessLevelOn(db, repo, n, who) >= need
         /\ place \in {"httpRead", "httpWrite", "httpPush"} => repo # None
         /\ \/ place = "httpRead"
            \/ place = "httpPush" /\ route = "git-receive-pack"
            \/ place = "httpWrite" /\ route = "locks"
            \/ place \in {"httpCreate", "httpCreateFirst"}
               /\ ServiceOf(route, form) = "git-receive-pack"
         /\ Starts(p, Waits(place))
  <2>1. PICK place \in {"httpRead", "httpPush", "httpWrite"} :
           /\ place = CASE route = "locks" -> "httpWrite"
                        [] route = "git-receive-pack" -> "httpPush"
                        [] OTHER -> "httpRead"
           /\ place = "httpPush" => route = "git-receive-pack"
           /\ place = "httpWrite" => route = "locks"
    BY DEF Routes, Services
  <2>2. \/ repo # None /\ Starts(p, Waits(place))
        \/ /\ repo = None /\ ServiceOf(route, form) = "git-receive-pack"
           /\ Starts(p, Waits(IF route = "locks" THEN "httpCreateFirst" ELSE "httpCreate"))
    BY <2>1 DEF withAccess, Idle
  <2>3. AccessLevelOn(db, repo, n, who) >= need
    BY DEF withAccess
  <2> HIDE DEF repo, who, cred, named, need, Waits
  <2>4. QED
    BY <2>1, <2>2, <2>3
<1>4. need \in {ReadOnly, ReadWrite} /\ named \in Services \cup {None}
  BY DEF Need
<1>5. \/ need = ReadWrite \/ NeedAt(place) = ReadOnly
      \/ place \in AtLocks /\ named = "git-upload-pack"
  BY <1>3 DEF Need, NeedAt, ServiceOf, Services, AtLocks
<1> HIDE DEF repo, who, cred, named, need
<1>6. \E l \in Reasons(db, IF who = None THEN 0 ELSE who.id, n) : l >= need
  BY <1>1, <1>2, <1>3, <1>4, LevelHasReason DEF AccessLevelForUser
<1>7. \E l \in Reasons(db, IF who = None THEN 0 ELSE who.id, n) :
         \/ l >= NeedAt(place)
         \/ place \in AtLocks /\ named = "git-upload-pack" /\ l >= ReadOnly
  <2>1. PICK l \in Reasons(db, IF who = None THEN 0 ELSE who.id, n) : l >= need
    BY <1>6
  <2>2. l \in Levels
    BY <1>1, <2>1, ReasonsAreLevels, Small DEF Who
  <2>3. l >= ReadOnly /\ (need = ReadWrite => l >= NeedAt(place))
    BY <1>4, <2>1, <2>2 DEF Levels, ReadOnly, ReadWrite, NeedAt
  <2>4. QED
    BY <1>5, <2>1, <2>3
<1>8. Waits(place) \in Call /\ CallOK(Waits(place), db)
  <2> DEFINE e == Waits(place)
  <2>1. /\ e.pc = place /\ e.key = None /\ e.who = who /\ e.cred = cred
        /\ e.repo = repo /\ e.name = n /\ e.form = named /\ e.lock = 0
        /\ e.overtaken = FALSE
    BY DEF Idle
  <2>2. e \in Call
    <3>1. Idle \in Call /\ place \in CallPC
      BY <1>3, IdleCall DEF CallPC
    <3>2. /\ who \in Who \cup {None} /\ cred \in 0..MaxUserId
          /\ repo \in Context \cup {None}
      BY <1>1, <1>2
    <3> DEFINE f == [Idle EXCEPT !.who = who, !.cred = cred, !.repo = repo]
    <3>3. f \in Call
      BY <3>1, <3>2 DEF Call
    <3>4. e = [f EXCEPT !.name = n, !.form = named, !.pc = place]
      OBVIOUS
    <3> HIDE DEF f, e
    <3>5. QED
      BY <1>4, <3>1, <3>3, <3>4 DEF Call
  <2> HIDE DEF e
  <2>3. Identified(e) /\ NamesRepo(e) /\ Nobodys(e) /\ Unlocks(e, db)
    BY <1>1, <1>3, <2>1 DEF Identified, NamesRepo, Nobodys, Unlocks
  <2>4. Cleared(e, db)
    BY <1>1, <1>2, <1>3, <1>7, <2>1 DEF Cleared, AtLocks, Actor
  <2>5. e \in Call /\ CallOK(e, db)
    BY <2>2, <2>3, <2>4 DEF CallOK
  <2>6. QED
    BY <2>5 DEF e
<1> HIDE DEF Waits
<1>9. QED
  BY <1>3, <1>8, StartsInv

LEMMA FindUserInv ==
    ASSUME Inv, NEW p \in Procs, NEW n, FindUser(p, n) PROVE Kept
<1> DEFINE who == User(db, n)
           c == [Idle EXCEPT !.pc = "grpcUser", !.who = who, !.cred = who.id]
<1>1. CASE who = None
  BY <1>1, InvFacts, IdleCall, StartsInv DEF FindUser
<1>2. CASE who # None
  <2>1. /\ Starts(p, c) /\ db.last.lock \in Nat
        /\ who \in Who /\ who.id \in 0..MaxUserId /\ who = Snapshot(db, who.id)
    BY <1>2, InvFacts, SnapshotIs, Small DEF FindUser, User, Database
  <2>2. /\ c.pc = "grpcUser" /\ c.who = who /\ c.cred = who.id /\ c.lock = 0
        /\ c.overtaken = FALSE
    BY DEF Idle
  <2>3. c \in Call
    BY <2>1, IdleCall DEF Call, CallPC
  <2> HIDE DEF who, c
  <2>4. CallOK(c, db)
    BY <2>1, <2>2
    DEF CallOK, Identified, NamesRepo, Nobodys, Unlocks, Cleared, ForRepository, AtLocks
  <2>5. QED
    BY <2>1, <2>3, <2>4, StartsInv
<1>3. QED
  BY <1>1, <1>2

LEMMA ByMyKeyInv ==
    ASSUME Inv, NEW p \in Procs, ByMyKey(p, "myKeys") PROVE Kept
<1> DEFINE c == call[p]
           who == UserByPublicKey(db, c.key)
           e == [c EXCEPT !.pc = "myKeys", !.name = who.name]
<1>1. c \in Call /\ CallOK(c, db) /\ UNCHANGED requests /\ db \in Database
  BY InvFacts DEF ByMyKey
<1>2. CASE who = None
  BY <1>1, <1>2, EndsInv DEF ByMyKey, Ends
<1>3. CASE who # None
  <2>1. who.name \in UserNames
    BY <1>1, <1>3, SnapshotIs DEF UserByPublicKey, Who
  <2>2. e \in Call /\ Step(p, e)
    BY <1>1, <1>3, <2>1 DEF Call, CallPC, ByMyKey
  <2>3. /\ e.pc = "myKeys" /\ e.who = c.who /\ e.cred = c.cred /\ e.lock = c.lock
        /\ e.overtaken = c.overtaken
    BY <1>1 DEF Call
  <2> HIDE DEF e
  <2>4. CallOK(e, db)
    BY <1>1, <2>3
    DEF CallOK, Identified, NamesRepo, Nobodys, Unlocks, Cleared, ForRepository, AtLocks
  <2>5. QED
    BY <1>1, <2>2, <2>4, MovesOn
<1>4. QED
  BY <1>2, <1>3

\* A token is signed for the session's user, under the name it was read with.
LEMMA JwtInv == ASSUME Inv, NEW p \in Procs, Jwt(p) PROVE Kept
<1> DEFINE who == call[p].who
           s == [name |-> who.name, id |-> who.id]
<1>1. /\ who \in Who /\ subjects' = subjects \cup {s}
      /\ call' = [call EXCEPT ![p] = Idle]
      /\ UNCHANGED <<db, spoiled, up, requests, scene>>
  BY InvFacts DEF Jwt, Nobody, Me, Call
<1>2. s \in [name : UserNames, id : UserIds]
  BY <1>1 DEF Who
<1> HIDE DEF s
<1>3. TypeOK'
  BY <1>1, <1>2, InvFacts, IdleCall DEF TypeOK
<1>4. ASSUME NEW q \in Procs PROVE CallOK(call'[q], db)
  BY <1>1, InvFacts, IdleCall
<1>5. QED
  BY <1>1, <1>3, <1>4, SameTables DEF Inv, Kept, RowsReferToRows


-----------------------------------------------------------------------------
(* Locks                                                                   *)

LEMMA LFSTransferInv ==
    ASSUME Inv, NEW p \in Procs, NEW n \in RepoNames, LFSTransfer(p, n) PROVE Kept
<1> DEFINE c == call[p]
           repo == RepoSnapshot(db, n)
           e == [c EXCEPT !.pc = "lfs", !.repo = repo, !.name = n]
<1>1. /\ c \in Call /\ CallOK(c, db) /\ UNCHANGED requests /\ db \in Database
      /\ repo \in Context \cup {None}
  BY InvFacts, RepoSnapshotIs DEF LFSTransfer
<1>2. CASE LevelOf(p, n) >= ReadWrite /\ repo # None /\ c.who # None
  <2>1. e \in Call
    BY <1>1 DEF Call, CallPC
  <2>2. /\ e.pc = "lfs" /\ e.key = c.key /\ e.who = c.who /\ e.cred = c.cred
        /\ e.repo = repo /\ e.name = n /\ e.lock = c.lock /\ e.overtaken = c.overtaken
    BY <1>1 DEF Call
  <2>3. Step(p, e)
    BY <1>2 DEF LFSTransfer
  <2>4. ~c.overtaken => \E l \in Reasons(db, Actor(c), n) : l >= NeedAt("lfs")
    BY <1>2, SessionReason DEF NeedAt
  <2>5. repo = RepoSnapshot(db, n)
    OBVIOUS
  <2> HIDE DEF e, repo
  <2>6. Identified(e) /\ NamesRepo(e) /\ Nobodys(e) /\ Unlocks(e, db)
    BY <1>1, <2>2 DEF CallOK, Identified, NamesRepo, Nobodys, Unlocks
  <2>7. ASSUME ~e.overtaken PROVE Cleared(e, db)
    BY <1>1, <1>2, <2>2, <2>4, <2>5, <2>7 DEF CallOK, Cleared, ForRepository, AtLocks, Actor
  <2>8. QED
    BY <1>1, <2>1, <2>3, <2>6, <2>7, MovesOn DEF CallOK
<1>3. CASE ~(LevelOf(p, n) >= ReadWrite /\ repo # None /\ c.who # None)
  BY <1>1, <1>3, EndsInv DEF LFSTransfer, Ends
<1>4. QED
  BY <1>2, <1>3

\* A lock has been read, and its owner compared or looked for.
LEMMA ReadsLockInv ==
    ASSUME Inv, NEW p \in Procs, NEW l \in LockIds, db.lock[l] # None,
           UNCHANGED requests,
           NEW from \in {"httpWrite", "lfs"}, At(p, from),
           NEW to \in {"unlock", "lfsUnlock"}, 
           to = "unlock" => call[p].who.admin \/ call[p].who.id = db.lock[l].user,
           Step(p, [call[p] EXCEPT !.pc = to, !.lock = l])
    PROVE  Kept
<1> DEFINE c == call[p]
           e == [c EXCEPT !.pc = to, !.lock = l]
<1>1. c \in Call /\ CallOK(c, db) /\ Valid(db) /\ c.pc = from
  BY InvFacts DEF At
<1>2. e \in Call
  BY <1>1, Small DEF Call, CallPC
<1>3. /\ e.pc = to /\ e.key = c.key /\ e.who = c.who /\ e.cred = c.cred
      /\ e.repo = c.repo /\ e.name = c.name /\ e.lock = l /\ e.overtaken = c.overtaken
      /\ e.form = c.form
  BY <1>1 DEF Call
<1>4. Step(p, e)
  OBVIOUS
<1>5. l <= db.last.lock /\ l # 0
  BY <1>1, Small DEF Valid, Consistent
<1> HIDE DEF e
<1>6. Unlocks(e, db)
  BY <1>3, <1>5 DEF Unlocks
<1>7. Identified(e) /\ NamesRepo(e) /\ Nobodys(e)
  BY <1>1, <1>3 DEF CallOK, Identified, NamesRepo, Nobodys
<1>8. ASSUME ~e.overtaken PROVE Cleared(e, db)
  BY <1>1, <1>3, <1>8 DEF CallOK, Cleared, ForRepository, AtLocks, NeedAt, Actor
<1>9. QED
  BY <1>2, <1>4, <1>6, <1>7, <1>8, MovesOn DEF CallOK

LEMMA LocksDeleteInv ==
    ASSUME Inv, NEW p \in Procs, NEW l \in LockIds, NEW force \in BOOLEAN,
           LocksDelete(p, l, force)
    PROVE  Kept
<1>1. At(p, "httpWrite") /\ UNCHANGED requests
  BY DEF LocksDelete
<1>2. \/ Ends(p)
      \/ /\ db.lock[l] # None
         /\ call[p].who.admin \/ call[p].who.id = db.lock[l].user
         /\ Step(p, [call[p] EXCEPT !.pc = "unlock", !.lock = l])
  BY <1>1 DEF LocksDelete, Ends
<1>3. QED
  BY <1>1, <1>2, EndsInv, ReadsLockInv

LEMMA LockFromIDInv ==
    ASSUME Inv, NEW p \in Procs, NEW l \in LockIds, LockFromID(p, l) PROVE Kept
<1>1. At(p, "lfs") /\ UNCHANGED requests
  BY DEF LockFromID
<1>2. \/ Ends(p)
      \/ /\ db.lock[l] # None
         /\ Step(p, [call[p] EXCEPT !.pc = "lfsUnlock", !.lock = l])
  BY <1>1 DEF LockFromID, Ends
<1>3. QED
  BY <1>1, <1>2, EndsInv, ReadsLockInv

\* A page that is full has a number that locks can fill.
LEMMA FullPage ==
    ASSUME NEW d \in Database, NEW r, NEW page \in Nat \ {0}, NEW o \in Orders,
           Cardinality(GetLFSLocks(d, r, page, o)) >= PageLimit
    PROVE  page <= MaxLockId
<1> DEFINE got == GetLFSLocks(d, r, page, o)
           newer(l) == {m \in LocksOf(d, r) : o[m] > o[l]}
<1>1. /\ IsFiniteSet(LockIds) /\ Cardinality(LockIds) = MaxLockId
      /\ MaxLockId \in Nat /\ PageLimit \in Nat \ {0}
  <2>1. MaxLockId \in Nat /\ PageLimit \in Nat \ {0}
    BY Small, LfsLocksAssumption
  <2>2. /\ IsFiniteSet(1..MaxLockId)
        /\ Cardinality(1..MaxLockId) = IF 1 > MaxLockId THEN 0 ELSE MaxLockId - 1 + 1
    BY <2>1, FS_Interval
  <2>3. Cardinality(1..MaxLockId) = MaxLockId
    BY <2>1, <2>2
  <2>4. QED
    BY <2>1, <2>2, <2>3 DEF LockIds
<1>2. got # {}
  BY <1>1, FS_EmptySet
<1>3. PICK l \in got : TRUE
  BY <1>2
<1>4. /\ l \in LockIds /\ newer(l) \subseteq LockIds \ {l}
      /\ (page - 1) * PageLimit <= Cardinality(newer(l))
  BY <1>3 DEF GetLFSLocks, LocksOf, LockIds, Orders
<1>5. IsFiniteSet(LockIds \ {l}) /\ Cardinality(LockIds \ {l}) = MaxLockId - 1
  BY <1>1, <1>4, FS_RemoveElement
<1>6. Cardinality(newer(l)) \in Nat /\ Cardinality(newer(l)) <= MaxLockId - 1
  BY <1>4, <1>5, FS_Subset, FS_CardinalityType
<1> HIDE DEF newer, got
<1>7. page - 1 <= (page - 1) * PageLimit
  <2>1. ASSUME NEW a \in Nat, NEW b \in Nat \ {0} PROVE a <= a * b
    BY <2>1, SMT
  <2>2. page - 1 \in Nat
    OBVIOUS
  <2>3. QED
    BY <1>1, <2>1, <2>2
<1>8. (page - 1) * PageLimit \in Int
  BY <1>1
<1>9. QED
  BY <1>1, <1>4, <1>6, <1>7, <1>8

LEMMA ListPageInv ==
    ASSUME Inv, NEW p \in Procs, NEW o \in Orders, ListPageIn(p, o) PROVE Kept
<1> DEFINE c == call[p]
           fresh == [FirstPage EXCEPT !.first = LocksOf(db, c.repo.id),
                                      !.base = db.last.lock, !.order = o]
           list == IF c.list # None THEN c.list ELSE fresh
           got == GetLFSLocks(db, c.repo.id, list.page, o)
           next == Listed(list, got, o)
           e == [c EXCEPT !.list = next]
<1>1. /\ c \in Call /\ CallOK(c, db) /\ UNCHANGED requests /\ db \in Database
      /\ PageLimit \in Nat \ {0} /\ MaxLockId \in Nat
  BY InvFacts, LfsLocksAssumption, Small DEF ListPageIn
<1>2. CASE Cardinality(got) < PageLimit
  BY <1>1, <1>2, EndsInv DEF ListPageIn, Ends
<1>3. CASE ~(Cardinality(got) < PageLimit)
  <2>1. list \in Listing
    <3>1. LocksOf(db, c.repo.id) \subseteq LockIds /\ db.last.lock \in 0..MaxLockId
      BY <1>1 DEF LocksOf, Database
    <3>2. fresh \in Listing
      <4>1. 1 \in 1..(MaxLockId + 1)
        BY <1>1
      <4>2. FirstPage \in Listing
        BY <3>1, <4>1, Small DEF FirstPage, Listing
      <4>3. QED
        BY <3>1, <4>2 DEF Listing
    <3> HIDE DEF fresh
    <3>3. QED
      BY <1>1, <3>2 DEF Call
  <2>2. got \subseteq LockIds /\ IsFiniteSet(LockIds)
    <3>1. \A r, n : GetLFSLocks(db, r, n, o) \subseteq LocksOf(db, r)
      BY DEF GetLFSLocks
    <3>2. \A r : LocksOf(db, r) \subseteq LockIds
      BY DEF LocksOf
    <3>3. IsFiniteSet(LockIds)
      BY <1>1, FS_Interval DEF LockIds
    <3> HIDE DEF list
    <3>4. QED
      BY <3>1, <3>2, <3>3
  <2>3. list.page \in 1..(MaxLockId + 1) /\ list.page \in Nat \ {0}
    <3> HIDE DEF list
    <3>1. list.page \in 1..(MaxLockId + 1)
      BY <2>1 DEF Listing
    <3>2. QED
      BY <1>1, <3>1
  <2>4. Cardinality(got) \in Nat
    BY <2>2, FS_Subset, FS_CardinalityType
  <2>5. list.page <= MaxLockId
    BY <1>1, <1>3, <2>3, <2>4, FullPage
  <2>6. Step(p, e)
    BY <1>3 DEF ListPageIn
  <2> HIDE DEF list, got
  <2>7. next \in Listing
    <3>1. list.page + 1 \in 1..(MaxLockId + 1)
      BY <1>1, <2>3, <2>5
    <3>2. QED
      BY <2>1, <2>2, <3>1 DEF Listing, Listed
  <2> HIDE DEF next
  <2>8. e \in Call
    BY <1>1, <2>7 DEF Call
  <2>9. /\ e.pc = c.pc /\ e.key = c.key /\ e.who = c.who /\ e.cred = c.cred
        /\ e.repo = c.repo /\ e.name = c.name /\ e.lock = c.lock
        /\ e.overtaken = c.overtaken /\ e.form = c.form
    BY <1>1 DEF Call
  <2> HIDE DEF e
  <2>10. Identified(e) /\ NamesRepo(e) /\ Nobodys(e) /\ Unlocks(e, db)
    BY <1>1, <2>9 DEF CallOK, Identified, NamesRepo, Nobodys, Unlocks
  <2>11. ASSUME ~e.overtaken PROVE Cleared(e, db)
    BY <1>1, <2>9, <2>11 DEF CallOK, Cleared, ForRepository, AtLocks, Actor
  <2>12. QED
    BY <1>1, <2>6, <2>8, <2>10, <2>11, MovesOn DEF CallOK
<1>4. QED
  BY <1>2, <1>3


-----------------------------------------------------------------------------
(* Methods of the gRPC server                                              *)

LEMMA MethodInv ==
    ASSUME Inv, NEW p \in Procs, NEW d, Sound(db, d), Method(p, d) PROVE Kept
<1>1. CommitThen(p, d, Idle) /\ spoiled' \subseteq RepoIds
  BY InvFacts DEF Method
<1>2. requests' \in 0..MaxRequests[scene']
  BY <1>1, OneMore DEF Method, CommitThen
<1>3. QED
  BY <1>1, <1>2, CommitEnds

\* A method goes on after a change of its own, for nobody.
LEMMA GoesOnInv ==
    ASSUME Inv, NEW p \in Procs, NEW d, Sound(db, d),
           NEW c \in Call, c.pc \in {"grpcPassword", "grpcAdmin", "grpcAnon"},
           c.who = None, c.lock <= db.last.lock, CommitThen(p, d, c),
           requests' \in 0..MaxRequests[scene'], UNCHANGED spoiled
    PROVE  Kept
<1>1. /\ d # None => Valid(d) /\ LocksOnlyGo(db, d)
      /\ db \in Database /\ spoiled' \subseteq RepoIds /\ c.lock \in 0..MaxLockId
  BY InvFacts, CarriedOver DEF Sound, Call
<1>2. c.lock <= db'.last.lock
  <2>1. CASE d = None
    BY <2>1 DEF CommitThen
  <2>2. CASE d # None
    <3>1. db' = d /\ d \in Database /\ db.last.lock <= d.last.lock
      BY <1>1, <2>2 DEF CommitThen, Valid, LocksOnlyGo
    <3>2. db.last.lock \in 0..MaxLockId /\ d.last.lock \in 0..MaxLockId
      BY <1>1, <3>1 DEF Database
    <3>3. QED
      BY <1>1, <3>1, <3>2, Small
  <2>3. QED
    BY <2>1, <2>2
<1>3. CallOK(c, db')
  BY <1>2
  DEF CallOK, Identified, NamesRepo, Nobodys, Unlocks, Cleared, ForRepository, AtLocks
<1>4. QED
  BY <1>1, <1>3, CommitInv, SoundCommit DEF Kept, CommitThen

LEMMA LastLock == ASSUME Inv PROVE 0 <= db.last.lock
<1>1. db.last.lock \in 0..MaxLockId
  BY InvFacts DEF Database
<1>2. QED
  BY <1>1, Small

LEMMA WaitsForNobody ==
    ASSUME Inv, NEW place \in {"grpcPassword", "grpcAdmin", "grpcAnon"}, NEW c,
           \/ \E n \in UserNames : c = [Idle EXCEPT !.pc = place, !.name = n]
           \/ c = [Idle EXCEPT !.pc = place]
    PROVE  c \in Call /\ c.pc = place /\ c.who = None /\ c.lock <= db.last.lock
<1>1. c \in Call
  <2>1. place \in CallPC
    BY DEF CallPC
  <2>2. CASE c = [Idle EXCEPT !.pc = place]
    BY <2>1, <2>2, IdleCall DEF Call
  <2>3. ASSUME NEW n \in UserNames, c = [Idle EXCEPT !.pc = place, !.name = n]
        PROVE  c \in Call
    BY <2>1, <2>3, IdleCall DEF Call
  <2>4. QED
    BY <2>2, <2>3
<1>2. c.pc = place /\ c.who = None /\ c.lock = 0
  BY DEF Idle
<1>3. QED
  BY <1>1, <1>2, LastLock

LEMMA MethodGoesOnInv ==
    ASSUME Inv, NEW p \in Procs, NEW d, Sound(db, d),
           NEW place \in {"grpcPassword", "grpcAdmin"}, NEW n \in UserNames,
           MethodGoesOn(p, d, place, n)
    PROVE  Kept
<1> DEFINE c == [Idle EXCEPT !.pc = place, !.name = n]
<1>1. /\ UNCHANGED <<spoiled, scene>> /\ spoiled' \subseteq RepoIds
      /\ CommitThen(p, d, IF d = None THEN Idle ELSE c)
  BY InvFacts DEF MethodGoesOn, CommitThen
<1>2. requests' \in 0..MaxRequests[scene']
  BY <1>1, OneMore DEF MethodGoesOn
<1>3. CASE d = None
  BY <1>1, <1>2, <1>3, CommitEnds
<1>4. CASE d # None
  <2>1. /\ CommitThen(p, d, c)
        /\ \E m \in UserNames : c = [Idle EXCEPT !.pc = place, !.name = m]
    BY <1>1, <1>4
  <2> HIDE DEF c
  <2>2. c \in Call /\ c.pc = place /\ c.who = None /\ c.lock <= db.last.lock
    BY <2>1, WaitsForNobody
  <2>3. QED
    BY <1>1, <1>2, <2>1, <2>2, GoesOnInv
<1>5. QED
  BY <1>3, <1>4

LEMMA GrpcUpdateSettingsInv ==
    ASSUME Inv, NEW p \in Procs, NEW b \in BOOLEAN, GrpcUpdateSettings(p, b)
    PROVE  Kept
<1> DEFINE d == SetAllowKeyless(db, b)
           c == [Idle EXCEPT !.pc = "grpcAnon"]
<1>1. UNCHANGED <<spoiled, scene>> /\ CommitThen(p, d, c)
  BY DEF GrpcUpdateSettings, CommitThen
<1>2. requests' \in 0..MaxRequests[scene']
  BY <1>1, OneMore DEF GrpcUpdateSettings
<1>3. Sound(db, d)
  BY InvFacts, SettingsSound DEF Levels
<1>4. c \in Call /\ c.pc = "grpcAnon" /\ c.who = None /\ c.lock <= db.last.lock
  BY WaitsForNobody
<1> HIDE DEF c, d
<1>5. QED
  BY <1>1, <1>2, <1>3, <1>4, GoesOnInv

LEMMA GrpcUpdateAdminInv ==
    ASSUME Inv, NEW p \in Procs, NEW b \in BOOLEAN, GrpcUpdateAdmin(p, b)
    PROVE  Kept
<1> DEFINE d == SetAdmin(db, call[p].name, b)
           c == [call[p] EXCEPT !.pc = "grpcPassword"]
<1>1. /\ call[p] \in Call /\ CallOK(call[p], db) /\ call[p].pc = "grpcAdmin"
      /\ Sound(db, d)
  BY InvFacts, SetAdminSound DEF GrpcUpdateAdmin, At
<1>2. UNCHANGED <<spoiled, requests, scene>> /\ CommitThen(p, d, c)
  BY DEF GrpcUpdateAdmin, CommitThen
<1>3. c \in Call
  BY <1>1 DEF Call, CallPC
<1>4. c.pc = "grpcPassword" /\ c.who = None /\ c.lock <= db.last.lock
  BY <1>1 DEF Call, CallOK, Nobodys, Unlocks
<1>5. requests' \in 0..MaxRequests[scene']
  BY <1>2, InvFacts
<1> HIDE DEF c, d
<1>6. QED
  BY <1>1, <1>2, <1>3, <1>4, <1>5, GoesOnInv

LEMMA GrpcDeleteUserInv ==
    ASSUME Inv, NEW p \in Procs, NEW n, GrpcDeleteUser(p, n) PROVE Kept
<1>1. /\ Sound(db, None) /\ Sound(db, DeleteUser(db, n)) /\ UNCHANGED <<spoiled, scene>>
      /\ spoiled' \subseteq RepoIds
  BY InvFacts, DeleteUserSound DEF Sound, GrpcDeleteUser, ProcessDies, CommitThen
<1>2. requests' \in 0..MaxRequests[scene']
  BY <1>1, OneMore DEF GrpcDeleteUser
<1>3. ProcessDies(None) \/ CommitThen(p, DeleteUser(db, n), Idle)
  BY DEF GrpcDeleteUser
<1>4. QED
  BY <1>1, <1>2, <1>3, DiesInv, CommitEnds

\* The methods whose event comes without a sender.
LEMMA GrpcDiesInv ==
    ASSUME Inv, NEW p \in Procs, NEW n, NEW u, NEW new \in RepoNames, NEW b \in BOOLEAN,
           \/ GrpcDeleteRepository(p, n) \/ GrpcRenameRepository(p, n, new)
           \/ GrpcUpdateRepository(p, n, b) \/ GrpcRemoveCollaborator(p, n, u)
    PROVE  Kept
<1>1. PICK d \in {None, RenameRepository(db, n, new), SetPrivate(db, n, b)} :
         ProcessDies(d) \/ CommitThen(p, d, Idle)
  BY DEF GrpcDeleteRepository, GrpcRenameRepository, GrpcUpdateRepository,
         GrpcRemoveCollaborator
<1>2. Sound(db, d)
  BY InvFacts, RenameRepositorySound, SetPrivateSound DEF Sound
<1>3. UNCHANGED <<spoiled, scene>> /\ spoiled' \subseteq RepoIds
  <2>1. UNCHANGED scene
    BY <1>1 DEF ProcessDies, CommitThen
  <2>2. UNCHANGED spoiled
    BY DEF GrpcDeleteRepository, GrpcRenameRepository, GrpcUpdateRepository,
           GrpcRemoveCollaborator
  <2>3. QED
    BY <2>1, <2>2, InvFacts
<1>4. requests < MaxRequests[scene] /\ requests' = requests + 1
  BY DEF GrpcDeleteRepository, GrpcRenameRepository, GrpcUpdateRepository,
         GrpcRemoveCollaborator
<1>5. requests' \in 0..MaxRequests[scene']
  BY <1>3, <1>4, OneMore
<1>6. QED
  BY <1>1, <1>2, <1>3, <1>5, DiesInv, CommitEnds


-----------------------------------------------------------------------------
(* Every step                                                              *)

LEMMA UserDeleteInv == ASSUME Inv, NEW p \in Procs, NEW n, UserDelete(p, n) PROVE Kept
<1>1. CASE Panics(p)
  BY <1>1, EndsInv DEF Panics
<1>2. CASE /\ Spoils(db, n) /\ CommitThen(p, DeleteUser(db, n), Idle)
           /\ UNCHANGED requests
  <2>1. spoiled' \subseteq RepoIds
    BY <1>2, InvFacts DEF Spoils, Repositories
  <2>2. requests' \in 0..MaxRequests[scene']
    BY <1>2, InvFacts DEF CommitThen
  <2>3. QED
    BY <1>2, <2>1, <2>2, InvFacts, DeleteUserSound, CommitEnds
<1>3. QED
  BY <1>1, <1>2 DEF UserDelete

\* What is only read, or not in the tables of the model.
LEMMA ReadsInv ==
    ASSUME Inv, NEW p \in Procs,
           \/ UserInfo(p) \/ UserList(p) \/ TokenList(p) \/ PubkeyList(p)
           \/ InfoCommand(p) \/ HttpServes(p) \/ GrpcNoPassword(p) \/ RepoShow(p)
           \/ RepoInfo(p) \/ RepoMirror(p) \/ CollabList(p) \/ RepoHidden(p)
           \/ RepoDescription(p) \/ RepoProjectName(p) \/ LocksGet(p)
           \/ LocksVerify(p) \/ LockRange(p) \/ FromPath(p)
    PROVE  Kept
<1>1. Ends(p) \/ ListPage(p)
  BY DEF UserInfo, UserList, TokenList, PubkeyList, InfoCommand, HttpServes,
         GrpcNoPassword, RepoShow, RepoInfo, RepoMirror, CollabList, RepoHidden,
         RepoDescription, RepoProjectName, Attribute, LocksGet, LocksVerify, LockRange,
         FromPath
<1>2. QED
  BY <1>1, EndsInv, ListPageInv DEF ListPage

LEMMA AccountStepInv ==
    ASSUME Inv, NEW p \in Procs, AccountStep(p) PROVE Kept
<1>1. Valid(db) /\ db \in Database /\ \A k \in Keys \cup {None} : {k} \ {None} \in SUBSET Keys
  BY InvFacts
<1>2. ASSUME NEW n \in UserNames, NEW b \in BOOLEAN, NEW k \in Keys \cup {None},
             UserCreate(p, n, b, k) \/ GrpcCreateUser(p, n, b, k)
      PROVE  Kept
  <2> DEFINE d == CreateUser(db, n, b, {k} \ {None})
  <2>1. Sound(db, d)
    BY <1>1, <1>2, CreateUserSound DEF UserCreate, GrpcCreateUser
  <2>2. Commit(p, d) \/ MethodGoesOn(p, d, "grpcPassword", n)
    BY <1>2 DEF UserCreate, GrpcCreateUser
  <2> HIDE DEF d
  <2>3. QED
    BY <2>1, <2>2, CommitOnce, MethodGoesOnInv
<1>3. ASSUME NEW n \in UserNames, NEW k \in Keys,
             \/ UserAddPubkey(p, n, k) \/ UserRemovePubkey(p, n, k)
             \/ GrpcAddPublicKey(p, n, k) \/ GrpcRemovePublicKey(p, n, k)
      PROVE  Kept
  <2>1. Sound(db, AddPublicKey(db, n, k)) /\ Sound(db, RemovePublicKey(db, n, k))
    BY <1>1, AddPublicKeySound, RemovePublicKeySound
  <2>2. \E d \in {AddPublicKey(db, n, k), RemovePublicKey(db, n, k)} :
           Commit(p, d) \/ Method(p, d)
    BY <1>3 DEF UserAddPubkey, UserRemovePubkey, GrpcAddPublicKey, GrpcRemovePublicKey
  <2>3. QED
    BY <2>1, <2>2, CommitOnce, MethodInv
<1>4. ASSUME NEW n \in UserNames, NEW b \in BOOLEAN, UserSetAdmin(p, n, b) PROVE Kept
  BY <1>1, <1>4, SetAdminSound, CommitOnce DEF UserSetAdmin
<1>5. ASSUME NEW n \in UserNames, NEW new \in UserNames,
             UserSetUsername(p, n, new) \/ GrpcUpdateName(p, n, new)
      PROVE  Kept
  BY <1>1, <1>5, SetUsernameSound, CommitOnce, MethodGoesOnInv
  DEF UserSetUsername, GrpcUpdateName
<1>6. ASSUME TokenCreate(p) \/ GrpcCreateToken(p) PROVE Kept
  BY <1>1, <1>6, CreateAccessTokenSound, CommitOnce DEF TokenCreate, GrpcCreateToken
<1>7. ASSUME NEW t \in TokenIds, TokenDelete(p, t) \/ GrpcDeleteToken(p, t) PROVE Kept
  BY <1>1, <1>7, DeleteAccessTokenSound, CommitOnce DEF TokenDelete, GrpcDeleteToken
<1>8. ASSUME NEW k \in Keys, PubkeyAdd(p, k) \/ PubkeyRemove(p, k) PROVE Kept
  BY <1>1, <1>8, AddPublicKeySound, RemovePublicKeySound, CommitOnce
  DEF PubkeyAdd, PubkeyRemove
<1>9. ASSUME NEW new \in UserNames, SetMyUsername(p, new) PROVE Kept
  BY <1>1, <1>9, SetUsernameSound, CommitOnce DEF SetMyUsername
<1>10. ASSUME GrpcSetPassword(p) PROVE Kept
  BY <1>1, <1>10, SetPasswordSound, CommitOnce DEF GrpcSetPassword
<1>11. ASSUME NEW n \in RepoNames, NEW c \in Credentials,
              withAccess(p, n, c, "files", None)
       PROVE  Kept
  BY <1>11, withAccessInv DEF Routes
<1>12. CASE \/ \E k \in Keys : Login(p, k)
            \/ \E n \in UserNames : checkIfAdmin(p, n)
            \/ \E n \in UserNames : UserDelete(p, n) \/ GrpcDeleteUser(p, n)
            \/ Jwt(p) \/ ByMyKey(p, "myKeys")
            \/ \E b \in BOOLEAN : GrpcUpdateAdmin(p, b)
            \/ \E n \in UserNames : FindUser(p, n)
  BY <1>12, LoginInv, checkIfAdminInv, UserDeleteInv, GrpcDeleteUserInv, JwtInv,
     ByMyKeyInv, GrpcUpdateAdminInv, FindUserInv
<1>13. CASE \/ GrpcNoPassword(p) \/ UserInfo(p) \/ UserList(p) \/ TokenList(p)
            \/ PubkeyList(p) \/ InfoCommand(p) \/ HttpServes(p)
  BY <1>13, ReadsInv
<1>14. QED
  BY <1>2, <1>3, <1>4, <1>5, <1>6, <1>7, <1>8, <1>9, <1>10, <1>11, <1>12, <1>13
  DEF AccountStep

\* Its creator owns a repository.
LEMMA OwnerHasReason ==
    ASSUME NEW d \in Database, Valid(d), d.last.repo < MaxRepoId,
           NEW n \in RepoNames, NEW i,
           CreateRepository(d, n, i, FALSE) # None, Valid(CreateRepository(d, n, i, FALSE))
    PROVE  LET e == CreateRepository(d, n, i, FALSE) IN
           /\ Admin \in Reasons(e, i, n)
           /\ RepoSnapshot(e, n) # None
           /\ \A u : Snapshot(e, u) = Snapshot(d, u)
<1> DEFINE e == CreateRepository(d, n, i, FALSE)
           r == d.last.repo + 1
           row == [name |-> n, user |-> i, private |-> FALSE]
<1>1. /\ IsUser(d, i) /\ GetRepoByName(d, n) = 0 /\ r \in RepoIds
      /\ e = [d EXCEPT !.repo[r] = row, !.last.repo = r]
  <2>1. d.last.repo \in Nat /\ MaxRepoId \in Nat
    BY Numbers DEF Database
  <2>2. QED
    BY <2>1 DEF CreateRepository, RepoIds
<1>2. row \in RepoRow /\ row # None /\ row.name = n /\ row.user = i
  <2>1. row \in RepoRow
    BY <1>1 DEF IsUser, RepoRow
  <2>2. QED
    BY <2>1, RowsAreThere
<1>3. e \in Database /\ Valid(e)
  BY DEF Valid
<1> HIDE DEF e, r, row
<1>4. e.repo[r] = row /\ e.user = d.user /\ IsRepo(e, r)
  BY <1>1, <1>2 DEF Database, IsRepo
<1>5. GetRepoByName(e, n) = r
  <2>1. LET q == GetRepoByName(e, n) IN
        /\ q # 0 /\ q \in RepoIds /\ IsRepo(e, q) /\ e.repo[q].name = n
    <3>1. e \in Database /\ r \in RepoIds /\ IsRepo(e, r) /\ e.repo[r].name = n
      BY <1>1, <1>2, <1>3, <1>4
    <3>2. QED
      BY <3>1, RepoNamed
  <2>2. QED
    BY <1>1, <1>2, <1>3, <1>4, <2>1 DEF Valid, Consistent
<1>6. i # 0 /\ r # 0
  BY <1>1, Numbers DEF IsUser
<1>7. Admin \in Reasons(e, i, n)
  BY <1>2, <1>4, <1>5, <1>6 DEF Reasons
<1>8. RepoSnapshot(e, n) # None
  BY <1>3, <1>5, <1>6, RepoSnapshotIs
<1>9. \A u : Snapshot(e, u) = Snapshot(d, u)
  BY <1>4 DEF Snapshot, IsUser
<1>10. QED
  BY <1>7, <1>8, <1>9 DEF e

LEMMA HttpCreatesInv == ASSUME Inv, NEW p \in Procs, HttpCreates(p) PROVE Kept
<1> DEFINE c == call[p]
           made == CreateRepository(db, c.name, c.who.id, FALSE)
           d == IF c.who = None THEN None ELSE made
           e == [c EXCEPT !.pc = "httpWrite", !.repo = RepoSnapshot(d, c.name)]
<1>1. /\ Valid(db) /\ db \in Database /\ c \in Call /\ CallOK(c, db)
      /\ c.name \in RepoNames /\ db.last.repo < MaxRepoId
      /\ c.pc \in {"httpCreate", "httpCreateFirst"}
  BY InvFacts DEF HttpCreates, At, CallOK, NamesRepo
<1>2. Sound(db, d)
  BY <1>1, CreateRepositorySound DEF Sound
<1>3. requests' \in 0..MaxRequests[scene'] /\ spoiled' \subseteq RepoIds
  BY InvFacts DEF HttpCreates, CommitThen
<1>4. \/ CommitThen(p, d, Idle)
      \/ d # None /\ c.pc = "httpCreateFirst" /\ CommitThen(p, d, e)
  BY <1>1 DEF HttpCreates
<1>5. CASE CommitThen(p, d, Idle)
  BY <1>2, <1>3, <1>5, CommitEnds
<1>6. CASE d # None /\ c.pc = "httpCreateFirst" /\ CommitThen(p, d, e)
  <2>1. /\ Valid(d) /\ d \in Database /\ LocksOnlyGo(db, d) /\ db' = d
        /\ d = made /\ c.who # None
    BY <1>2, <1>6, CarriedOver DEF Sound, CommitThen, Valid
  <2>2. /\ Admin \in Reasons(d, c.who.id, c.name) /\ RepoSnapshot(d, c.name) # None
        /\ \A u : Snapshot(d, u) = Snapshot(db, u)
    BY <1>1, <1>6, <2>1, OwnerHasReason
  <2> DEFINE repo == RepoSnapshot(d, c.name)
  <2>3. repo \in Context \cup {None} /\ repo = RepoSnapshot(d, c.name) /\ repo # None
    BY <2>1, <2>2, RepoSnapshotIs
  <2> HIDE DEF d, repo
  <2>4. e = [c EXCEPT !.pc = "httpWrite", !.repo = repo]
    BY DEF repo
  <2>5. /\ e.pc = "httpWrite" /\ e.who = c.who /\ e.cred = c.cred /\ e.name = c.name
        /\ e.lock = c.lock /\ e.overtaken = c.overtaken /\ e.repo = repo
        /\ e.key = c.key /\ e.form = c.form
    BY <1>1, <2>4 DEF Call
  <2>6. e \in Call
    BY <1>1, <2>3, <2>4 DEF Call, CallPC
  <2> HIDE DEF e
  <2>7. Identified(e) /\ NamesRepo(e) /\ Nobodys(e)
    BY <1>1, <2>5 DEF CallOK, Identified, NamesRepo, Nobodys
  <2>8. Unlocks(e, d)
    <3>1. /\ c.lock <= db.last.lock /\ db.last.lock <= d.last.lock
          /\ c.lock \in Nat /\ db.last.lock \in Nat /\ d.last.lock \in Nat
      <4>1. c.lock <= db.last.lock /\ db.last.lock <= d.last.lock
        BY <1>1, <2>1 DEF CallOK, Unlocks, LocksOnlyGo
      <4>2. c.lock \in 0..MaxLockId
        BY <1>1 DEF Call
      <4>3. db.last.lock \in 0..MaxLockId /\ d.last.lock \in 0..MaxLockId
        BY <1>1, <2>1 DEF Database
      <4>4. QED
        BY <4>1, <4>2, <4>3, Small
    <3>2. QED
      BY <2>5, <3>1 DEF Unlocks
  <2>9. ASSUME ~e.overtaken PROVE Cleared(e, d)
    <3>1. c.who = Snapshot(d, c.who.id) /\ Actor(e) = c.who.id
      BY <1>1, <2>1, <2>2, <2>5, <2>9 DEF CallOK, Cleared, Actor
    <3>2. Admin >= NeedAt("httpWrite")
      BY DEF Admin, NeedAt, ReadWrite, ReadOnly
    <3>3. QED
      BY <2>2, <2>3, <2>5, <3>1, <3>2 DEF Cleared
  <2>10. CallOK(e, db')
    BY <2>1, <2>7, <2>8, <2>9 DEF CallOK
  <2>11. Inv'
    BY <1>3, <1>6, <2>1, <2>6, <2>10, CommitInv
  <2>12. QED
    BY <1>2, <2>1, <2>11, <1>6, SoundCommit DEF Kept
<1>7. QED
  BY <1>4, <1>5, <1>6

LEMMA RepositoryStepInv ==
    ASSUME Inv, NEW p \in Procs, RepositoryStep(p) PROVE Kept
<1>1. /\ Valid(db) /\ call[p] \in Call /\ CallOK(call[p], db)
      /\ {ReadOnly, ReadWrite} \subseteq Levels
  BY InvFacts DEF Levels, ReadOnly, ReadWrite
<1>2. ASSUME NEW b \in BOOLEAN, RepoCreate(p, b) PROVE Kept
  <2>1. call[p].name \in RepoNames /\ db.last.repo < MaxRepoId
    BY <1>1, <1>2 DEF RepoCreate, At, CallOK, NamesRepo
  <2>2. Sound(db, CreateRepository(db, call[p].name, Me(p).id, b)) /\ Sound(db, None)
    BY <1>1, <2>1, CreateRepositorySound DEF Sound
  <2>3. QED
    BY <1>2, <2>2, CommitOnce DEF RepoCreate
<1>3. ASSUME HttpCreates(p) PROVE Kept
  BY <1>3, HttpCreatesInv
<1>4. ASSUME NEW b \in BOOLEAN, RepoPrivate(p, b) PROVE Kept
  BY <1>1, <1>4, SetPrivateSound, CommitOnce, EndsInv DEF RepoPrivate
<1>5. ASSUME NEW b \in BOOLEAN, NEW l \in Levels,
             SettingsAllowKeyless(p, b) \/ SettingsAnonAccess(p, l) \/ GrpcUpdateAnon(p, l)
      PROVE  Kept
  BY <1>1, <1>5, SettingsSound, CommitOnce
  DEF SettingsAllowKeyless, SettingsAnonAccess, GrpcUpdateAnon
<1>6. ASSUME RepoDelete(p) PROVE Kept
  BY <1>1, <1>6, DeleteRepositorySound, CommitOnce, EndsInv DEF RepoDelete, Panics
<1>7. ASSUME NEW new \in RepoNames, RepoRename(p, new) PROVE Kept
  BY <1>1, <1>7, RenameRepositorySound, CommitOnce DEF RepoRename
<1>8. ASSUME NEW n \in UserNames, NEW l \in {ReadOnly, ReadWrite},
             CollabAdd(p, n, l) \/ CollabRemove(p, n)
      PROVE  Kept
  BY <1>1, <1>8, CollaboratorSound, CommitOnce, EndsInv DEF CollabAdd, CollabRemove, Panics
<1>9. ASSUME NEW n \in RepoNames, NEW b \in BOOLEAN, GrpcCreateRepository(p, n, b)
      PROVE  Kept
  BY <1>1, <1>9, CreateRepositorySound, CommitOnce DEF GrpcCreateRepository
<1>10. ASSUME NEW n \in RepoNames, NEW u \in UserNames, NEW l \in {ReadOnly, ReadWrite},
              GrpcAddCollaborator(p, n, u, l)
       PROVE  Kept
  BY <1>1, <1>10, CollaboratorSound, MethodInv DEF GrpcAddCollaborator
<1>11. ASSUME NEW n \in RepoNames, NEW u, NEW new \in RepoNames, NEW b \in BOOLEAN,
              \/ GrpcDeleteRepository(p, n) \/ GrpcRenameRepository(p, n, new)
              \/ GrpcUpdateRepository(p, n, b) \/ GrpcRemoveCollaborator(p, n, u)
       PROVE  Kept
  BY <1>11, GrpcDiesInv
<1>12. ASSUME NEW n \in RepoNames, NEW route \in Services,
              withAccess(p, n, [kind |-> "anonymous"], route, None)
       PROVE  Kept
  BY <1>12, withAccessInv DEF Credentials, Routes
<1>13. CASE \/ \E k \in Keys \cup {None} : Login(p, k)
            \/ \E n \in RepoNames :
                  \/ checkIfReadable(p, n) \/ checkIfCollab(p, n)
                  \/ checkIfReadableAndCollab(p, n) \/ checkIfAdmin(p, n)
                  \/ SessionHandler(p, n) \/ RepoList(p, n)
            \/ SetterCheck(p)
            \/ \E b \in BOOLEAN : GrpcUpdateSettings(p, b)
            \/ \E n \in UserNames : FindUser(p, n)
  BY <1>13, LoginInv, ChecksInv, checkIfAdminInv, SetterCheckInv, GrpcUpdateSettingsInv,
     FindUserInv
<1>14. CASE \/ RepoShow(p) \/ RepoInfo(p) \/ RepoMirror(p) \/ CollabList(p)
            \/ RepoHidden(p) \/ RepoDescription(p) \/ RepoProjectName(p) \/ HttpServes(p)
  BY <1>14, ReadsInv
<1>15. QED
  <2>1. FALSE \in BOOLEAN /\ ReadOnly \in {ReadOnly, ReadWrite} /\ NoAccess \in Levels
    BY DEF Levels, NoAccess
  <2>2. QED
    BY <1>2, <1>3, <1>4, <1>5, <1>6, <1>7, <1>8, <1>9, <1>10, <1>11, <1>12, <1>13, <1>14,
       <2>1
    DEF RepositoryStep

LEMMA LockStepInv ==
    ASSUME Inv, NEW p \in Procs, LockStep(p)
    PROVE  Kept \/ (Inv' /\ (LocksDeleted(p) \/ LockUnlock(p)))
<1>1. Valid(db) /\ call[p] \in Call /\ CallOK(call[p], db)
  BY InvFacts
<1>2. ASSUME NEW path \in Paths, LocksCreate(p, path) \/ LockCreate(p, path) PROVE Kept
  BY <1>1, <1>2, CreateLFSLockForUserSound, CommitOnce, EndsInv DEF LocksCreate, LockCreate
<1>3. ASSUME NEW d, d = db \/ d = [db EXCEPT !.lock[call[p].lock] = None],
             call[p].lock # 0, Commit(p, d)
      PROVE  Inv'
  <2>1. call[p].lock \in LockIds
    BY <1>1, <1>3 DEF Call, LockIds
  <2>2. Valid(d) /\ LocksOnlyGo(db, d)
    <3>1. CASE d = db
      <4>1. db.last.lock <= db.last.lock
        BY <1>1, Numbers DEF Valid, Database
      <4>2. QED
        BY <1>1, <3>1, <4>1 DEF LocksOnlyGo
    <3>2. CASE d = [db EXCEPT !.lock[call[p].lock] = None]
      <4>1. /\ Valid(d) /\ d.last = db.last
            /\ \A m \in LockIds :
                  d.lock[m] = IF m = call[p].lock THEN None ELSE db.lock[m]
        <5> DEFINE l == call[p].lock
        <5>1. Valid(db) /\ l \in LockIds /\ d = [db EXCEPT !.lock[l] = None]
          BY <1>1, <2>1, <3>2
        <5> HIDE DEF l
        <5>2. /\ Valid(d) /\ d.last = db.last
              /\ \A m \in LockIds : d.lock[m] = IF m = l THEN None ELSE db.lock[m]
          BY <5>1, UnlockSound
        <5>3. QED
          BY <5>2 DEF l
      <4>2. db.last.lock <= d.last.lock
        BY <1>1, <4>1, Numbers DEF Valid, Database
      <4>3. QED
        BY <4>1, <4>2 DEF LocksOnlyGo
    <3>3. QED
      BY <1>3, <3>1, <3>2
  <2>3. requests' \in 0..MaxRequests[scene'] /\ spoiled' \subseteq RepoIds
    BY <1>3, InvFacts DEF Commit, CommitThen
  <2>4. CallOK(Idle, db') /\ Idle \in Call
    BY <1>1, <1>3, <2>2, IdleCall DEF Commit, CommitThen, Valid
  <2>5. QED
    BY <1>3, <2>2, <2>3, <2>4, CommitInv DEF Commit
<1>4. ASSUME LocksDeleted(p) \/ LockUnlock(p) PROVE Inv'
  <2>1. call[p].lock # 0
    BY <1>1, <1>4 DEF LocksDeleted, LockUnlock, At, CallOK, Unlocks
  <2>2. \E d : /\ d = db \/ d = [db EXCEPT !.lock[call[p].lock] = None]
               /\ Commit(p, d)
    BY <1>4 DEF LocksDeleted, LockUnlock, DeleteLFSLock, DeleteLFSLockForUserByID
  <2>3. QED
    BY <1>3, <2>1, <2>2
<1>5. ASSUME RepoDelete(p) PROVE Kept
  BY <1>1, <1>5, DeleteRepositorySound, CommitOnce, EndsInv DEF RepoDelete, Panics
<1>6. ASSUME NEW n \in RepoNames, NEW t \in TokenIds, NEW route \in Routes,
             NEW form \in Services \cup {None},
             withAccess(p, n, [kind |-> "token", token |-> t], route, form)
      PROVE  Kept
  BY <1>6, withAccessInv DEF Credentials
<1>7. CASE \/ \E k \in Keys : Login(p, k)
           \/ \E n \in RepoNames : LFSTransfer(p, n) \/ checkIfReadableAndCollab(p, n)
           \/ \E l \in LockIds : \/ \E force \in BOOLEAN : LocksDelete(p, l, force)
                                 \/ LockFromID(p, l)
           \/ \E n \in UserNames : GrpcDeleteUser(p, n)
  BY <1>7, LoginInv, LFSTransferInv, ChecksInv, LocksDeleteInv, LockFromIDInv,
     GrpcDeleteUserInv
<1>8. CASE \/ LocksGet(p) \/ LocksVerify(p) \/ LockRange(p) \/ FromPath(p)
           \/ HttpCreates(p) \/ HttpServes(p)
  BY <1>8, ReadsInv, HttpCreatesInv
<1>9. QED
  BY <1>2, <1>4, <1>5, <1>6, <1>7, <1>8 DEF LockStep

LEMMA RestartInv == ASSUME Inv, Restart PROVE Kept
  BY SameTables DEF Kept, Restart, Inv, TypeOK, RowsReferToRows

LEMMA TokenExpiresInv ==
    ASSUME Inv, NEW t \in TokenIds, TokenExpires(t) PROVE Kept
<1> DEFINE d == [db EXCEPT !.token[t].expired = TRUE]
<1>1. /\ db' = d /\ UNCHANGED <<spoiled, subjects, up, requests, scene>>
      /\ call' = [q \in Procs |-> IF Active(q)
                                  THEN [call[q] EXCEPT !.overtaken = TRUE] ELSE Idle]
  BY DEF TokenExpires
<1>2. /\ Valid(d) /\ LocksOnlyGo(db, d) /\ LocksCarriedOver(db, d)
      /\ db \in Database
  BY InvFacts, ExpirySound, CarriedOver DEF TokenExpires
<1> HIDE DEF d
<1>3. ASSUME NEW q \in Procs PROVE call'[q] \in Call /\ CallOK(call'[q], db')
  <2>1. CASE Active(q)
    <3>1. call'[q] = [call[q] EXCEPT !.overtaken = TRUE]
      BY <1>1, <2>1
    <3>2. call[q] \in Call /\ CallOK(call[q], db)
      BY InvFacts
    <3>3. QED
      BY <1>1, <1>2, <3>1, <3>2, OthersKeep DEF Valid
  <2>2. CASE ~Active(q)
    BY <1>1, <1>2, <2>2, IdleCall DEF Valid
  <2>3. QED
    BY <2>1, <2>2
<1>4. call' \in [Procs -> Call]
  BY <1>1, <1>3
<1>5. TypeOK' /\ RowsReferToRows'
  BY <1>1, <1>2, <1>4 DEF Inv, TypeOK, RowsReferToRows, Valid
<1>6. QED
  BY <1>1, <1>2, <1>3, <1>5 DEF Inv, Kept

LEMMA InitInv == Init => Inv
<1>1. SUFFICES ASSUME Init PROVE Inv
  OBVIOUS
<1>2. db \in Database /\ Consistent(db)
  BY <1>1, FrontEndsAssumption DEF Init
<1>3. call \in [Procs -> Call] /\ \A p \in Procs : CallOK(call[p], db)
  BY <1>1, <1>2, IdleCall DEF Init
<1>4. requests \in 0..MaxRequests[scene]
  BY <1>1, Small DEF Init
<1>5. TypeOK
  BY <1>1, <1>2, <1>3, <1>4 DEF Init, TypeOK
<1>6. QED
  BY <1>2, <1>3, <1>5 DEF Inv, RowsReferToRows

LEMMA NextInv ==
    ASSUME Inv, Next
    PROVE  Kept \/ (Inv' /\ \E p \in Procs : LocksDeleted(p) \/ LockUnlock(p))
<1>1. ASSUME NEW p \in Procs, AccountStep(p) \/ RepositoryStep(p) \/ LockStep(p)
      PROVE  Kept \/ (Inv' /\ (LocksDeleted(p) \/ LockUnlock(p)))
  BY <1>1, AccountStepInv, RepositoryStepInv, LockStepInv
<1>2. QED
  BY <1>1, RestartInv, TokenExpiresInv DEF Next

LEMMA Invariance == Spec => []Inv
<1>1. Inv /\ Next => Inv'
  BY NextInv DEF Kept
<1>2. Inv /\ UNCHANGED vars => Inv'
  BY DEF vars, Inv, TypeOK, RowsReferToRows
<1>3. QED
  BY <1>1, <1>2, InitInv, PTL DEF Spec

\* The tables and what the requests in hand know have the types their comments
\* give: no id is handed out beyond its bound, no page of locks is asked for that
\* could not be full.
THEOREM Types == Spec => []TypeOK
<1>1. Inv => TypeOK
  BY DEF Inv
<1>2. QED
  BY <1>1, Invariance, PTL

\* Whatever is created, renamed and deleted by whom, however the requests
\* interleave and wherever a method panics, the tables stay consistent: every
\* transaction of pkg/backend keeps them so on its own.
THEOREM TablesStayConsistent == Spec => []RowsReferToRows
<1>1. Inv => RowsReferToRows
  BY DEF Inv
<1>2. QED
  BY <1>1, Invariance, PTL

\* A request acts for the user its key, password, token or signed subject was
\* given to (AuthenticationMiddleware, authenticate), or for nobody.
THEOREM RightUser == Spec => []IdentityHolds
<1>1. Inv => IdentityHolds
  BY DEF Inv, CallOK, Identified, IdentityHolds
<1>2. QED
  BY <1>1, Invariance, PTL

-----------------------------------------------------------------------------
(* Locks end properly                                                      *)

\* What an unlock does, over HTTP by the id alone, over SSH by id and owner.
LEMMA UnlockTakes ==
    ASSUME Inv, NEW p \in Procs, LocksDeleted(p) \/ LockUnlock(p),
           NEW l \in LockIds, db.lock[l] # None, db'.lock[l] # db.lock[l]
    PROVE  /\ db'.lock[l] = None /\ call'[p] = Idle
           /\ call[p].pc \in {"unlock", "lfsUnlock"} /\ call[p].lock = l
           /\ call[p].repo.id = db.lock[l].repo
           /\ call[p].who.id = db.lock[l].user \/ call[p].who.admin
<1> DEFINE k == call[p].lock
           d == [db EXCEPT !.lock[k] = None]
<1>1. /\ Valid(db) /\ call[p] \in Call /\ Unlocks(call[p], db)
      /\ call[p].pc \in {"unlock", "lfsUnlock"}
  BY InvFacts DEF CallOK, LocksDeleted, LockUnlock, At
<1>2. k \in LockIds
  BY <1>1 DEF Call, LockIds, Unlocks
<1>3. d # None => \A m \in LockIds : d.lock[m] = IF m = k THEN None ELSE db.lock[m]
  BY <1>1, <1>2, UnlockSound
<1>4. \E e : /\ Commit(p, e)
             /\ \/ e = db
                \/ /\ e = d /\ db.lock[k].repo = call[p].repo.id
                   /\ call[p].pc = "lfsUnlock" => db.lock[k].user = call[p].who.id
  BY DEF LocksDeleted, LockUnlock, DeleteLFSLock, DeleteLFSLockForUserByID, At
<1> HIDE DEF k, d
<1>5. /\ db' = d /\ d # None /\ call'[p] = Idle /\ db.lock[k].repo = call[p].repo.id
      /\ call[p].pc = "lfsUnlock" => db.lock[k].user = call[p].who.id
  BY <1>4 DEF Commit, CommitThen
<1>6. l = k /\ db'.lock[l] = None
  BY <1>3, <1>5
<1>7. call[p].pc = "unlock" => call[p].who.admin \/ call[p].who.id = db.lock[k].user
  BY <1>1, <1>6 DEF Unlocks, k
<1>8. QED
  BY <1>1, <1>5, <1>6, <1>7 DEF k

\* Nobody loses a lock but with his account or the repository, or by an unlock
\* that was his own or an administrator's, though the handler of
\* git_lfs.go reads the lock, compares its owner and deletes by id in statements
\* of their own: an id, once given up, is never used again.
THEOREM NoLockIsTaken == Spec => LocksEndProperly
<1> DEFINE Proper == \A l \in LockIds :
         (db.lock[l] # None /\ db'.lock[l] # db.lock[l])
         => /\ db'.lock[l] = None
            /\ \/ ~IsUser(db', db.lock[l].user)
               \/ ~IsRepo(db', db.lock[l].repo)
               \/ \E p \in Procs :
                     /\ call[p].pc \in {"unlock", "lfsUnlock"}
                     /\ call'[p] = Idle
                     /\ call[p].lock = l
                     /\ call[p].repo.id = db.lock[l].repo
                     /\ \/ call[p].who.id = db.lock[l].user
                        \/ call[p].who.admin
<1>1. ASSUME Inv, Next PROVE Proper
  <2>1. SUFFICES ASSUME NEW l \in LockIds, db.lock[l] # None, db'.lock[l] # db.lock[l]
                 PROVE  /\ db'.lock[l] = None
                        /\ \/ ~IsUser(db', db.lock[l].user)
                           \/ ~IsRepo(db', db.lock[l].repo)
                           \/ \E p \in Procs :
                                 /\ call[p].pc \in {"unlock", "lfsUnlock"}
                                 /\ call'[p] = Idle
                                 /\ call[p].lock = l
                                 /\ call[p].repo.id = db.lock[l].repo
                                 /\ \/ call[p].who.id = db.lock[l].user
                                    \/ call[p].who.admin
    OBVIOUS
  <2>2. CASE LocksCarriedOver(db, db')
    BY <2>1, <2>2 DEF LocksCarriedOver
  <2>3. ASSUME NEW p \in Procs, LocksDeleted(p) \/ LockUnlock(p)
        PROVE  /\ db'.lock[l] = None /\ call'[p] = Idle
               /\ call[p].pc \in {"unlock", "lfsUnlock"} /\ call[p].lock = l
               /\ call[p].repo.id = db.lock[l].repo
               /\ call[p].who.id = db.lock[l].user \/ call[p].who.admin
    BY <1>1, <2>1, <2>3, UnlockTakes
  <2>4. QED
    BY <1>1, <2>2, <2>3, NextInv DEF Kept
<1>2. ASSUME UNCHANGED vars PROVE Proper
  BY <1>2 DEF vars
<1>3. Inv /\ [Next]_vars => Proper
  BY <1>1, <1>2
<1>4. QED
  BY <1>3, Invariance, PTL DEF Spec, LocksEndProperly


-----------------------------------------------------------------------------
(* What a repository's command, push or lock request changes               *)

Touch(d, e, r) ==
    \/ d.repo[r] # e.repo[r] \/ d.collab[r] # e.collab[r]
    \/ LocksOf(d, r) # LocksOf(e, r)

\* From d to e, nothing but the repository called n is touched.
OnlyTouches(d, e, n) ==
    \A r \in RepoIds : Touch(d, e, r) =>
       \/ IsRepo(d, r) /\ d.repo[r].name = n
       \/ ~IsRepo(d, r) /\ e.repo[r].name = n

LEMMA CreateRepositoryTouches ==
    ASSUME NEW d, Valid(d), d.last.repo < MaxRepoId, NEW n, NEW i, NEW b,
           CreateRepository(d, n, i, b) # None
    PROVE  OnlyTouches(d, CreateRepository(d, n, i, b), n)
<1> DEFINE r == d.last.repo + 1
           row == [name |-> n, user |-> i, private |-> b]
           e == [d EXCEPT !.repo[r] = row, !.last.repo = r]
<1>1. /\ d \in Database /\ CreateRepository(d, n, i, b) = e
      /\ d.last.repo \in 0..MaxRepoId /\ MaxRepoId \in Nat
  BY Numbers DEF CreateRepository, Valid, Database
<1>2. r \in RepoIds /\ ~(r <= d.last.repo)
  BY <1>1 DEF RepoIds
<1>3. d.repo[r] = None
  BY <1>2 DEF Valid, Consistent
<1> HIDE DEF r, row
<1>4. /\ e.repo[r] = row /\ \A k \in RepoIds \ {r} : e.repo[k] = d.repo[k]
      /\ e.collab = d.collab /\ e.lock = d.lock
  BY <1>1, <1>2 DEF Database
<1>5. row.name = n
  BY DEF row
<1> HIDE DEF e
<1>6. \A k : LocksOf(e, k) = LocksOf(d, k)
  BY <1>4 DEF LocksOf
<1>7. QED
  BY <1>1, <1>3, <1>4, <1>5, <1>6 DEF OnlyTouches, Touch, IsRepo

LEMMA RepoRowTouches ==
    ASSUME NEW d \in Database, NEW r \in RepoIds, IsRepo(d, r), NEW row
    PROVE  OnlyTouches(d, [d EXCEPT !.repo[r] = row], d.repo[r].name)
<1> DEFINE e == [d EXCEPT !.repo[r] = row]
<1>1. /\ \A k \in RepoIds \ {r} : e.repo[k] = d.repo[k]
      /\ e.collab = d.collab /\ e.lock = d.lock
  BY DEF Database
<1> HIDE DEF e
<1>2. \A k : LocksOf(e, k) = LocksOf(d, k)
  BY <1>1 DEF LocksOf
<1>3. OnlyTouches(d, e, d.repo[r].name)
  BY <1>1, <1>2 DEF OnlyTouches, Touch
<1>4. QED
  BY <1>3 DEF e

LEMMA CollabTouches ==
    ASSUME NEW d \in Database, NEW r \in RepoIds, IsRepo(d, r), NEW u, NEW level
    PROVE  OnlyTouches(d, [d EXCEPT !.collab[r][u] = level], d.repo[r].name)
<1> DEFINE e == [d EXCEPT !.collab[r][u] = level]
<1>1. /\ \A k \in RepoIds \ {r} : e.collab[k] = d.collab[k]
      /\ e.repo = d.repo /\ e.lock = d.lock
  BY DEF Database
<1> HIDE DEF e
<1>2. \A k : LocksOf(e, k) = LocksOf(d, k)
  BY <1>1 DEF LocksOf
<1>3. OnlyTouches(d, e, d.repo[r].name)
  BY <1>1, <1>2 DEF OnlyTouches, Touch
<1>4. QED
  BY <1>3 DEF e

LEMMA DeleteRepositoryTouches ==
    ASSUME NEW d \in Database, NEW n, DeleteRepository(d, n) # None
    PROVE  OnlyTouches(d, DeleteRepository(d, n), n)
<1> DEFINE r == GetRepoByName(d, n)
           e == DeleteRepository(d, n)
           without == [l \in LockIds |->
              IF d.lock[l] # None /\ d.lock[l].repo = r THEN None ELSE d.lock[l]]
<1>1. r # 0 /\ r \in RepoIds /\ IsRepo(d, r) /\ d.repo[r].name = n
  BY RepoNamed DEF DeleteRepository
<1>2. e = [d EXCEPT !.repo[r] = None, !.collab[r] = [u \in UserIds |-> None],
                    !.lock = without]
  BY <1>1 DEF DeleteRepository, Database
<1> HIDE DEF r, e, without
<1>3. /\ \A k \in RepoIds \ {r} : e.repo[k] = d.repo[k] /\ e.collab[k] = d.collab[k]
      /\ e.lock = without
  BY <1>1, <1>2 DEF Database
<1>4. \A k \in RepoIds \ {r} : LocksOf(e, k) = LocksOf(d, k)
  BY <1>3 DEF LocksOf, without
<1>5. OnlyTouches(d, e, n)
  BY <1>1, <1>3, <1>4 DEF OnlyTouches, Touch
<1>6. QED
  BY <1>5 DEF e

LEMMA LockTouches ==
    ASSUME NEW d \in Database, NEW l \in LockIds, NEW row, NEW r,
           d.lock[l] # None => d.lock[l].repo = r, row # None => row.repo = r,
           NEW e, e.repo = d.repo, e.collab = d.collab,
           e.lock = [d.lock EXCEPT ![l] = row]
    PROVE  \A k \in RepoIds : Touch(d, e, k) => k = r
<1>1. \A k \in RepoIds \ {r} : LocksOf(e, k) = LocksOf(d, k)
  BY DEF LocksOf, Database
<1>2. QED
  BY <1>1 DEF Touch

LEMMA NothingTouched == ASSUME NEW d, NEW n PROVE OnlyTouches(d, d, n)
  BY DEF OnlyTouches, Touch


\* What a request does at the place it was cleared for.
WritesRow(c, e) ==
    \/ /\ c.pc \in {"collab", "httpCreate", "httpCreateFirst"}
       /\ db.last.repo < MaxRepoId
       /\ \E b \in BOOLEAN : e = CreateRepository(db, c.name, c.who.id, b)
    \/ /\ c.pc \in {"writable", "setter"}
       /\ \/ e = DeleteRepository(db, c.name)
          \/ \E new \in RepoNames : e = RenameRepository(db, c.name, new)
          \/ \E b \in BOOLEAN : e = SetPrivate(db, c.name, b)
WritesCollab(c, e) ==
    /\ c.pc = "writable"
    /\ \E u \in UserNames, level \in Levels :
          \/ e = AddCollaborator(db, c.name, u, level)
          \/ e = RemoveCollaborator(db, c.name, u)
WritesLock(c, e) ==
    \/ /\ c.pc \in {"httpWrite", "lfs"} /\ db.last.lock < MaxLockId
       /\ \E path \in Paths : e = CreateLFSLockForUser(db, c.repo.id, c.who.id, path)
    \/ /\ c.pc \in {"unlock", "lfsUnlock"} /\ c.lock \in LockIds
       /\ e = DeleteLFSLock(db, c.repo.id, c.lock)
Writes(c, e) == WritesRow(c, e) \/ WritesCollab(c, e) \/ WritesLock(c, e)

LEMMA WritesRowTouches ==
    ASSUME Inv, NEW c \in Call, NEW e, e # None, WritesRow(c, e)
    PROVE  OnlyTouches(db, e, c.name)
<1> DEFINE r == GetRepoByName(db, c.name)
<1>1. /\ Valid(db) /\ db \in Database
      /\ r # 0 => r \in RepoIds /\ IsRepo(db, r) /\ db.repo[r].name = c.name
  BY InvFacts, RepoNamed
<1>2. ASSUME NEW b \in BOOLEAN, db.last.repo < MaxRepoId,
             e = CreateRepository(db, c.name, c.who.id, b)
      PROVE  OnlyTouches(db, e, c.name)
  BY <1>1, <1>2, CreateRepositoryTouches
<1>3. ASSUME e = DeleteRepository(db, c.name) PROVE OnlyTouches(db, e, c.name)
  BY <1>1, <1>3, DeleteRepositoryTouches
<1>4. ASSUME NEW new \in RepoNames, e = RenameRepository(db, c.name, new)
      PROVE  OnlyTouches(db, e, c.name)
  <2>1. CASE new = c.name
    BY <1>4, <2>1, NothingTouched DEF RenameRepository
  <2>2. CASE new # c.name
    <3>1. r # 0 /\ GetRepoByName(db, new) = 0
      BY <1>4, <2>2 DEF RenameRepository
    <3>2. e = [db EXCEPT !.repo[r].name = new]
      BY <1>4, <2>2, <3>1 DEF RenameRepository
    <3> DEFINE row == [db.repo[r] EXCEPT !.name = new]
    <3>3. e = [db EXCEPT !.repo[r] = row]
      BY <1>1, <3>1, <3>2 DEF Database
    <3> HIDE DEF row, r
    <3>4. QED
      BY <1>1, <3>1, <3>3, RepoRowTouches
  <2>3. QED
    BY <2>1, <2>2
<1>5. ASSUME NEW b \in BOOLEAN, e = SetPrivate(db, c.name, b)
      PROVE  OnlyTouches(db, e, c.name)
  <2>1. r # 0 /\ e = [db EXCEPT !.repo[r].private = b]
    BY <1>5 DEF SetPrivate
  <2> DEFINE row == [db.repo[r] EXCEPT !.private = b]
  <2>2. e = [db EXCEPT !.repo[r] = row]
    BY <1>1, <2>1 DEF Database
  <2> HIDE DEF row, r
  <2>3. QED
    BY <1>1, <2>1, <2>2, RepoRowTouches
<1>6. QED
  BY <1>2, <1>3, <1>4, <1>5 DEF WritesRow

LEMMA WritesCollabTouches ==
    ASSUME Inv, NEW c \in Call, NEW e, e # None, WritesCollab(c, e)
    PROVE  OnlyTouches(db, e, c.name)
<1> DEFINE r == GetRepoByName(db, c.name)
<1>1. /\ db \in Database
      /\ r # 0 => r \in RepoIds /\ IsRepo(db, r) /\ db.repo[r].name = c.name
  BY InvFacts, RepoNamed
<1>2. PICK u, level : r # 0 /\ e = [db EXCEPT !.collab[r][u] = level]
  BY DEF WritesCollab, AddCollaborator, RemoveCollaborator
<1> HIDE DEF r
<1>3. r \in RepoIds /\ IsRepo(db, r) /\ db.repo[r].name = c.name
  BY <1>1, <1>2
<1>4. OnlyTouches(db, [db EXCEPT !.collab[r][u] = level], db.repo[r].name)
  BY <1>1, <1>3, CollabTouches
<1>5. QED
  BY <1>2, <1>3, <1>4

\* A lock is made or removed in the repository that the request has in hand,
\* whatever has become of it.
LEMMA WritesLockTouches ==
    ASSUME Inv, NEW c \in Call, NEW e, e # None, WritesLock(c, e)
    PROVE  /\ c.pc \in AtLocks
           /\ \A k \in RepoIds : Touch(db, e, k) => k = c.repo.id
<1> DEFINE r == c.repo.id
<1>1. Valid(db) /\ db \in Database /\ c.pc \in AtLocks
  BY InvFacts DEF WritesLock, AtLocks
<1> HIDE DEF r
<1>2. ASSUME NEW path \in Paths, db.last.lock < MaxLockId,
             e = CreateLFSLockForUser(db, r, c.who.id, path)
      PROVE  \A k \in RepoIds : Touch(db, e, k) => k = r
  <2> DEFINE l == db.last.lock + 1
             row == [repo |-> r, user |-> c.who.id, path |-> path]
  <2>1. e = [db EXCEPT !.lock[l] = row, !.last.lock = l]
    BY <1>2 DEF CreateLFSLockForUser
  <2>2. l \in LockIds /\ ~(l <= db.last.lock) /\ row.repo = r
    BY <1>1, <1>2, Numbers DEF LockIds, Database
  <2>3. db.lock[l] = None
    BY <1>1, <2>2 DEF Valid, Consistent
  <2> HIDE DEF l, row
  <2>4. e.repo = db.repo /\ e.collab = db.collab /\ e.lock = [db.lock EXCEPT ![l] = row]
    BY <1>1, <2>1 DEF Database
  <2>5. QED
    BY <1>1, <2>2, <2>3, <2>4, LockTouches
<1>3. ASSUME c.lock \in LockIds, e = DeleteLFSLock(db, r, c.lock)
      PROVE  \A k \in RepoIds : Touch(db, e, k) => k = r
  <2> DEFINE l == c.lock
  <2>1. CASE db.lock[l] # None /\ db.lock[l].repo = r
    <3>1. e = [db EXCEPT !.lock[l] = None]
      BY <1>3, <2>1 DEF DeleteLFSLock
    <3> HIDE DEF l
    <3>2. /\ e.repo = db.repo /\ e.collab = db.collab
          /\ e.lock = [db.lock EXCEPT ![l] = None] /\ l \in LockIds
      BY <1>1, <1>3, <3>1 DEF Database, l
    <3>3. QED
      BY <1>1, <2>1, <3>2, LockTouches
  <2>2. CASE ~(db.lock[l] # None /\ db.lock[l].repo = r)
    BY <1>3, <2>2 DEF DeleteLFSLock, Touch
  <2>3. QED
    BY <2>1, <2>2
<1>4. QED
  BY <1>1, <1>2, <1>3 DEF WritesLock, r


-----------------------------------------------------------------------------
(* Whose step it is                                                        *)

\* A request changes its own place, or commits, or is the last of the process.
LEMMA StepKinds ==
    ASSUME NEW q \in Procs, AccountStep(q) \/ RepositoryStep(q) \/ LockStep(q)
    PROVE  \/ \E c : call' = [call EXCEPT ![q] = c]
           \/ \E d, c : CommitThen(q, d, c)
           \/ ~up' /\ call' = [r \in Procs |-> Idle]
<1>1. CASE AccountStep(q)
  BY <1>1
  DEF AccountStep, Login, checkIfAdmin, UserCreate, GrpcCreateUser, UserAddPubkey,
      UserRemovePubkey, GrpcAddPublicKey, GrpcRemovePublicKey, UserSetAdmin,
      UserSetUsername, GrpcUpdateName, UserDelete, GrpcDeleteUser, TokenCreate,
      GrpcCreateToken, TokenDelete, GrpcDeleteToken, Jwt, ByMyKey, PubkeyAdd,
      PubkeyRemove, SetMyUsername, GrpcUpdateAdmin, GrpcSetPassword, GrpcNoPassword,
      UserInfo, UserList, TokenList, PubkeyList, InfoCommand, FindUser, withAccess,
      HttpServes, Starts, Checked, Step, Ends, Panics, Commit, Method, MethodGoesOn,
      ProcessDies
<1>2. CASE RepositoryStep(q)
  BY <1>2
  DEF RepositoryStep, Login, checkIfReadable, checkIfCollab, checkIfReadableAndCollab,
      checkIfAdmin, SessionHandler, RepoList, SetterCheck, RepoCreate, RepoPrivate,
      SettingsAllowKeyless, GrpcUpdateSettings, SettingsAnonAccess, GrpcUpdateAnon,
      RepoDelete, RepoShow, RepoInfo, RepoMirror, CollabList, RepoHidden,
      RepoDescription, RepoProjectName, Attribute, RepoRename, CollabAdd, CollabRemove,
      FindUser, GrpcCreateRepository, GrpcUpdateRepository, GrpcDeleteRepository,
      GrpcRenameRepository, GrpcAddCollaborator, GrpcRemoveCollaborator, withAccess,
      HttpCreates, HttpServes, Starts, Checked, Step, Ends, Panics, Commit, Method,
      ProcessDies
<1>3. CASE HttpCreates(q)
  <2> DEFINE d == IF call[q].who = None THEN None
                  ELSE CreateRepository(db, call[q].name, call[q].who.id, FALSE)
             c == IF d = None \/ call[q].pc = "httpCreate" THEN Idle
                  ELSE [call[q] EXCEPT !.pc = "httpWrite",
                                       !.repo = RepoSnapshot(d, call[q].name)]
  <2>1. CommitThen(q, d, c)
    BY <1>3 DEF HttpCreates
  <2> HIDE DEF d, c
  <2>2. QED
    BY <2>1
<1> DEFINE Kind == \/ \E c : call' = [call EXCEPT ![q] = c]
                   \/ \E d, c : CommitThen(q, d, c)
                   \/ ~up' /\ call' = [r \in Procs |-> Idle]
<1>4. /\ \A c : Step(q, c) => Kind
      /\ \A d : Commit(q, d) => Kind
  BY DEF Step, Commit
<1> HIDE DEF Kind
<1>5. ASSUME NEW n \in RepoNames, NEW cred, NEW route, NEW form,
             withAccess(q, n, cred, route, form)
      PROVE  Kind
  <2>1. \A c : Starts(q, c) => Kind
    BY <1>4, Zenon DEF Starts
  <2>2. QED
    BY <1>5, <2>1 DEF withAccess
<1>6. ASSUME NEW k \in Keys, Login(q, k) PROVE Kind
  BY <1>4, <1>6, Zenon DEF Login, Starts
<1>7. ASSUME NEW n \in RepoNames, LFSTransfer(q, n) \/ checkIfReadableAndCollab(q, n)
      PROVE  Kind
  BY <1>4, <1>7, Zenon DEF LFSTransfer, checkIfReadableAndCollab, Checked
<1>8. ASSUME NEW l \in LockIds, NEW force \in BOOLEAN,
             LocksDelete(q, l, force) \/ LockFromID(q, l)
      PROVE  Kind
  BY <1>4, <1>8, Zenon DEF LocksDelete, LockFromID
<1>9. ListPage(q) \/ Ends(q) => Kind
  BY <1>4 DEF ListPage, ListPageIn, Ends
<1>10. ASSUME NEW path \in Paths, LocksCreate(q, path) \/ LockCreate(q, path)
       PROVE  Kind
  BY <1>4, <1>9, <1>10 DEF LocksCreate, LockCreate
<1>11. LocksDeleted(q) \/ LockUnlock(q) \/ RepoDelete(q) => Kind
  BY <1>4, <1>9 DEF LocksDeleted, LockUnlock, RepoDelete, Panics
<1>12. LocksGet(q) \/ LocksVerify(q) \/ LockRange(q) \/ FromPath(q) \/ HttpServes(q)
       => Kind
  BY <1>9 DEF LocksGet, LocksVerify, LockRange, FromPath, HttpServes
<1>13. ASSUME NEW n \in UserNames, GrpcDeleteUser(q, n) PROVE Kind
  BY <1>13 DEF Kind, GrpcDeleteUser, ProcessDies
<1>14. CASE LockStep(q)
  <2>1. HttpCreates(q) => Kind
    BY <1>3 DEF Kind
  <2>2. QED
    BY <1>5, <1>6, <1>7, <1>8, <1>10, <1>11, <1>12, <1>13, <1>14, <2>1
    DEF LockStep, Kind
<1>15. QED
  BY <1>1, <1>2, <1>14 DEF Kind

\* A request that waits at a place is not ended by another.
LEMMA OwnStep ==
    ASSUME Inv, Next, NEW p \in Procs, call[p].pc # "idle", call'[p].pc # call[p].pc, up'
    PROVE  AccountStep(p) \/ RepositoryStep(p) \/ LockStep(p)
<1>1. call \in [Procs -> Call] /\ Active(p)
  BY InvFacts DEF Active, Idle
<1>2. ASSUME NEW q \in Procs, q # p, AccountStep(q) \/ RepositoryStep(q) \/ LockStep(q)
      PROVE  FALSE
  <2>1. CASE \E c : call' = [call EXCEPT ![q] = c]
    BY <1>1, <1>2, <2>1
  <2>2. CASE \E d, c : CommitThen(q, d, c)
    <3>1. call'[p] = [call[p] EXCEPT !.overtaken = @ \/ db' # db]
      BY <1>1, <1>2, <2>2 DEF CommitThen
    <3>2. call'[p].pc = call[p].pc
      BY <1>1, <3>1 DEF Call
    <3>3. QED
      BY <3>2
  <2>3. QED
    BY <1>2, <2>1, <2>2, StepKinds
<1>3. ~Restart
  BY DEF Restart
<1>4. ASSUME NEW t \in TokenIds, TokenExpires(t) PROVE FALSE
  <2>1. call'[p] = [call[p] EXCEPT !.overtaken = TRUE]
    BY <1>1, <1>4 DEF TokenExpires
  <2>2. call'[p].pc = call[p].pc
    BY <1>1, <2>1 DEF Call
  <2>3. QED
    BY <2>2
<1>5. QED
  BY <1>2, <1>3, <1>4 DEF Next


\* A commit of e, where one may be made, is a write.
LEMMA CommitWrites ==
    ASSUME NEW p \in Procs, NEW e, NEW b, CommitThen(p, e, b),
           e # None => Writes(call[p], e)
    PROVE  UNCHANGED db \/ \E d : d # None /\ db' = d /\ Writes(call[p], d)
  BY DEF CommitThen

LEMMA PlaceWrites ==
    ASSUME Inv, NEW p \in Procs, call[p].pc \in ForRepository,
           AccountStep(p) \/ RepositoryStep(p) \/ LockStep(p)
    PROVE  UNCHANGED db \/ \E d : d # None /\ db' = d /\ Writes(call[p], d)
<1> DEFINE c == call[p]
<1>1. c \in Call /\ CallOK(c, db) /\ c.pc \in ForRepository
  BY InvFacts
<1>2. ASSUME HttpCreates(p)
      PROVE  UNCHANGED db \/ \E d : d # None /\ db' = d /\ Writes(c, d)
  <2>1. PICK e, b : CommitThen(p, e, b) /\ (e # None => Writes(c, e))
    BY <1>2 DEF HttpCreates, At, Writes, WritesRow
  <2>2. QED
    BY <2>1, CommitWrites
<1>3. CASE AccountStep(p)
  <2>1. ASSUME \/ \E k \in Keys : Login(p, k)
               \/ \E n \in UserNames : checkIfAdmin(p, n)
               \/ \E n \in UserNames, b \in BOOLEAN, k \in Keys \cup {None} :
                     UserCreate(p, n, b, k) \/ GrpcCreateUser(p, n, b, k)
               \/ \E n \in UserNames, k \in Keys :
                     \/ UserAddPubkey(p, n, k) \/ UserRemovePubkey(p, n, k)
                     \/ GrpcAddPublicKey(p, n, k) \/ GrpcRemovePublicKey(p, n, k)
        PROVE  UNCHANGED db
    BY <1>1, <2>1
    DEF ForRepository, AtLocks, At, Login, checkIfAdmin, UserCreate, GrpcCreateUser,
        UserAddPubkey, UserRemovePubkey, GrpcAddPublicKey, GrpcRemovePublicKey,
        Starts, Checked, Step, Ends, Method, MethodGoesOn
  <2>2. ASSUME \/ \E n \in UserNames, b \in BOOLEAN : UserSetAdmin(p, n, b)
               \/ \E n, new \in UserNames :
                     UserSetUsername(p, n, new) \/ GrpcUpdateName(p, n, new)
               \/ \E n \in UserNames : UserDelete(p, n) \/ GrpcDeleteUser(p, n)
        PROVE  UNCHANGED db
    BY <1>1, <2>2
    DEF ForRepository, AtLocks, At, UserSetAdmin, UserSetUsername, GrpcUpdateName, UserDelete,
        GrpcDeleteUser, Starts, Checked, Step, Ends, Method, MethodGoesOn
  <2>3. ASSUME \/ TokenCreate(p) \/ GrpcCreateToken(p)
               \/ \E t \in TokenIds : TokenDelete(p, t) \/ GrpcDeleteToken(p, t)
               \/ Jwt(p) \/ ByMyKey(p, "myKeys")
               \/ \E k \in Keys : PubkeyAdd(p, k) \/ PubkeyRemove(p, k)
               \/ \E new \in UserNames : SetMyUsername(p, new)
        PROVE  UNCHANGED db
    BY <1>1, <2>3
    DEF ForRepository, AtLocks, At, TokenCreate, GrpcCreateToken, TokenDelete, GrpcDeleteToken,
        Jwt, ByMyKey, PubkeyAdd, PubkeyRemove, SetMyUsername, Starts, Checked, Step, Ends,
        Method, MethodGoesOn
  <2>4. ASSUME \/ \E b \in BOOLEAN : GrpcUpdateAdmin(p, b)
               \/ GrpcSetPassword(p) \/ GrpcNoPassword(p)
               \/ UserInfo(p) \/ UserList(p) \/ TokenList(p) \/ PubkeyList(p)
               \/ InfoCommand(p)
               \/ \E n \in UserNames : FindUser(p, n)
               \/ \E n \in RepoNames, cred \in Credentials : withAccess(p, n, cred, "files", None)
               \/ HttpServes(p)
        PROVE  UNCHANGED db
    BY <1>1, <2>4
    DEF ForRepository, AtLocks, At, GrpcUpdateAdmin, GrpcSetPassword, GrpcNoPassword, UserInfo,
        UserList, TokenList, PubkeyList, InfoCommand, FindUser, withAccess, HttpServes,
        Starts, Checked, Step, Ends, Method, MethodGoesOn
  <2>5. QED
    BY <1>3, <2>1, <2>2, <2>3, <2>4 DEF AccountStep
<1>4. CASE RepositoryStep(p)
  <2>1. \/ UNCHANGED db
        \/ \E b \in BOOLEAN : RepoCreate(p, b) \/ RepoPrivate(p, b)
        \/ RepoDelete(p) \/ HttpCreates(p)
        \/ \E new \in RepoNames : RepoRename(p, new)
        \/ \E n \in UserNames : \/ \E l \in {ReadOnly, ReadWrite} : CollabAdd(p, n, l)
                                \/ CollabRemove(p, n)
    BY <1>1, <1>4
    DEF ForRepository, AtLocks, At, RepositoryStep, Login, checkIfReadable, checkIfCollab,
        checkIfReadableAndCollab, checkIfAdmin, SessionHandler, RepoList, SetterCheck,
        SettingsAllowKeyless, GrpcUpdateSettings, SettingsAnonAccess, GrpcUpdateAnon,
        RepoShow, RepoInfo, RepoMirror, CollabList, RepoHidden, RepoDescription,
        RepoProjectName, Attribute, FindUser, GrpcCreateRepository, GrpcUpdateRepository,
        GrpcDeleteRepository, GrpcRenameRepository, GrpcAddCollaborator,
        GrpcRemoveCollaborator, withAccess, HttpServes, Starts, Checked, Step, Ends, Method
  <2>2. ASSUME NEW b \in BOOLEAN, RepoCreate(p, b)
        PROVE  UNCHANGED db \/ \E d : d # None /\ db' = d /\ Writes(c, d)
    BY <2>2, CommitWrites DEF RepoCreate, Commit, At, Me, Writes, WritesRow
  <2>3. ASSUME NEW b \in BOOLEAN, RepoPrivate(p, b)
        PROVE  UNCHANGED db \/ \E d : d # None /\ db' = d /\ Writes(c, d)
    BY <2>3, CommitWrites DEF RepoPrivate, Commit, At, Writes, WritesRow, Ends, Step
  <2>4. ASSUME HttpCreates(p)
        PROVE  UNCHANGED db \/ \E d : d # None /\ db' = d /\ Writes(c, d)
    BY <1>2, <2>4
  <2>5. ASSUME RepoDelete(p)
        PROVE  UNCHANGED db \/ \E d : d # None /\ db' = d /\ Writes(c, d)
    BY <2>5, CommitWrites DEF RepoDelete, Commit, At, Writes, WritesRow, Panics, Ends, Step
  <2>6. ASSUME NEW new \in RepoNames, RepoRename(p, new)
        PROVE  UNCHANGED db \/ \E d : d # None /\ db' = d /\ Writes(c, d)
    BY <2>6, CommitWrites DEF RepoRename, Commit, At, Writes, WritesRow
  <2>7. ASSUME NEW n \in UserNames, NEW l \in {ReadOnly, ReadWrite}, CollabAdd(p, n, l)
        PROVE  UNCHANGED db \/ \E d : d # None /\ db' = d /\ Writes(c, d)
    <3>1. l \in Levels
      BY DEF Levels, ReadOnly, ReadWrite
    <3>2. QED
      BY <2>7, <3>1, CommitWrites DEF CollabAdd, Commit, At, Writes, WritesCollab
  <2>8. ASSUME NEW n \in UserNames, CollabRemove(p, n)
        PROVE  UNCHANGED db \/ \E d : d # None /\ db' = d /\ Writes(c, d)
    <3>1. Admin \in Levels
      BY DEF Levels, Admin
    <3>2. QED
      BY <2>8, <3>1, CommitWrites
      DEF CollabRemove, Commit, At, Writes, WritesCollab, Panics, Ends, Step
  <2>9. QED
    BY <2>1, <2>2, <2>3, <2>4, <2>5, <2>6, <2>7, <2>8
<1>5. CASE LockStep(p)
  <2>1. \/ UNCHANGED db
        \/ \E path \in Paths : LocksCreate(p, path) \/ LockCreate(p, path)
        \/ LocksDeleted(p) \/ LockUnlock(p) \/ RepoDelete(p) \/ HttpCreates(p)
    <3>1. ASSUME \/ \E k \in Keys : Login(p, k)
                 \/ \E n \in RepoNames :
                       LFSTransfer(p, n) \/ checkIfReadableAndCollab(p, n)
                 \/ \E n \in UserNames : GrpcDeleteUser(p, n)
          PROVE  FALSE
      BY <1>1, <3>1
      DEF ForRepository, AtLocks, At, Login, LFSTransfer, checkIfReadableAndCollab, GrpcDeleteUser,
          Starts, Checked
    <3>2. ASSUME NEW n, NEW cred, NEW route, NEW form, withAccess(p, n, cred, route, form)
          PROVE  FALSE
      BY <1>1, <3>2 DEF ForRepository, AtLocks, At, withAccess, Starts
    <3>3. ASSUME \/ \E l \in LockIds : \/ \E force \in BOOLEAN : LocksDelete(p, l, force)
                                        \/ LockFromID(p, l)
                 \/ LocksGet(p) \/ LocksVerify(p) \/ LockRange(p) \/ FromPath(p)
                 \/ HttpServes(p)
          PROVE  UNCHANGED db
      BY <1>1, <3>3
      DEF ForRepository, AtLocks, At, LocksDelete, LockFromID, LocksGet, LocksVerify, LockRange,
          FromPath, ListPage, ListPageIn, HttpServes, Starts, Checked, Step, Ends
    <3>4. QED
      BY <1>5, <3>1, <3>2, <3>3, Zenon DEF LockStep
  <2>2. ASSUME NEW path \in Paths, LocksCreate(p, path) \/ LockCreate(p, path)
        PROVE  UNCHANGED db \/ \E d : d # None /\ db' = d /\ Writes(c, d)
    BY <2>2, CommitWrites
    DEF LocksCreate, LockCreate, Commit, At, Writes, WritesLock, Ends, Step
  <2>3. ASSUME LocksDeleted(p) \/ LockUnlock(p)
        PROVE  UNCHANGED db \/ \E d : d # None /\ db' = d /\ Writes(c, d)
    <3>1. c.lock \in LockIds /\ c.pc \in {"unlock", "lfsUnlock"}
      BY <1>1, <2>3 DEF LocksDeleted, LockUnlock, At, Call, CallOK, Unlocks, LockIds
    <3>2. Commit(p, DeleteLFSLock(db, c.repo.id, c.lock)) \/ Commit(p, db)
      BY <2>3 DEF LocksDeleted, LockUnlock, DeleteLFSLockForUserByID
    <3>3. QED
      BY <3>1, <3>2, CommitWrites DEF Commit, CommitThen, Writes, WritesLock
  <2>4. ASSUME RepoDelete(p)
        PROVE  UNCHANGED db \/ \E d : d # None /\ db' = d /\ Writes(c, d)
    BY <2>4, CommitWrites DEF RepoDelete, Commit, At, Writes, WritesRow, Panics, Ends, Step
  <2>5. QED
    BY <1>2, <2>1, <2>2, <2>3, <2>4
<1>6. QED
  BY <1>3, <1>4, <1>5


\* A request let in for a repository that goes on changes nothing, or writes.
LEMMA ActsWrite ==
    ASSUME Inv, Next, NEW p \in Procs, Acts(p)
    PROVE  UNCHANGED db \/ (db' # None /\ Writes(call[p], db'))
<1>1. /\ call[p].pc \in ForRepository /\ call[p].pc # "idle" /\ up'
      /\ call'[p].pc # call[p].pc
  BY DEF Acts, ForRepository, AtLocks
<1>2. AccountStep(p) \/ RepositoryStep(p) \/ LockStep(p)
  BY <1>1, OwnStep
<1>3. QED
  BY <1>1, <1>2, PlaceWrites

\* What is done for a request at a repository, unless the tables changed under
\* its way, it had a reason for: the checks of PersistentPreRunE, gitRunE and
\* withAccess ask for enough (but for a lock request whose form names the
\* service of a fetch), and no handler behind them does more than it was let in
\* for.
THEOREM NobodyOversteps == Spec => Authorised
<1> DEFINE Right(p) ==
              LET c == call[p]
                  i == IF c.who = None THEN 0 ELSE c.who.id
                  need == IF c.pc = "httpPush" \/ (db' # db /\ c.form # "git-upload-pack")
                          THEN ReadWrite ELSE ReadOnly IN
              Acts(p) /\ ~c.overtaken
              => \/ c.key \in AdminKeys /\ db' = db
                 \/ \E l \in Reasons(db, i, c.name) : l >= need
<1>1. ASSUME Inv, Next, NEW p \in Procs PROVE Right(p)
  <2> DEFINE c == call[p]
             need == IF c.pc = "httpPush" \/ (db' # db /\ c.form # "git-upload-pack")
                     THEN ReadWrite ELSE ReadOnly
  <2>1. SUFFICES ASSUME Acts(p), ~c.overtaken
                 PROVE  \/ c.key \in AdminKeys /\ db' = db
                        \/ \E l \in Reasons(db, Actor(c), c.name) : l >= need
    BY DEF Actor
  <2>2. /\ c \in Call /\ Cleared(c, db) /\ c.pc \in ForRepository
        /\ Actor(c) \in UserIds \cup {0} /\ db \in Database
    BY <1>1, <2>1, InvFacts DEF Acts, CallOK, Actor, Call, Who
  <2>3. db' # db => c.pc \notin {"readable", "httpRead"}
    BY <1>1, <2>1, ActsWrite DEF Writes, WritesRow, WritesCollab, WritesLock
  <2>4. CASE c.key \in AdminKeys /\ c.pc = "readable"
    BY <2>3, <2>4
  <2>5. CASE ~(c.key \in AdminKeys /\ c.pc = "readable")
    <3>1. PICK l \in Reasons(db, Actor(c), c.name) :
             \/ l >= NeedAt(c.pc)
             \/ c.pc \in AtLocks /\ c.form = "git-upload-pack" /\ l >= ReadOnly
      BY <2>2, <2>5 DEF Cleared
    <3>2. l \in Levels
      BY <2>2, <3>1, ReasonsAreLevels
    <3>3. l >= need
      BY <2>3, <3>1, <3>2 DEF NeedAt, AtLocks, Levels, ReadOnly, ReadWrite
    <3>4. QED
      BY <3>1, <3>3
  <2>6. QED
    BY <2>4, <2>5
<1>2. ASSUME UNCHANGED vars, NEW p \in Procs PROVE Right(p)
  BY <1>2 DEF vars, Acts
<1>3. Inv /\ [Next]_vars => \A p \in Procs : Right(p)
  BY <1>1, <1>2
<1>4. QED
  BY <1>3, Invariance, PTL DEF Spec, Authorised

\* However the tables have changed since it was checked, a request changes only
\* what goes by the name it was let in for; and locks only in the repository it
\* was checked for.
THEOREM OthersLeftAlone == Spec => OwnRepository
<1> DEFINE Own(p) ==
              LET c == call[p] IN
              Acts(p) => \A r \in Touched :
                 \/ IsRepo(db, r) /\ db.repo[r].name = c.name
                 \/ ~IsRepo(db, r) /\ db'.repo[r].name = c.name
                 \/ c.pc \in AtLocks /\ r = c.repo.id
<1>1. ASSUME Inv, Next, NEW p \in Procs, Acts(p) PROVE Own(p)
  <2> DEFINE c == call[p]
  <2>1. c \in Call /\ Touched = {r \in RepoIds : Touch(db, db', r)}
    BY <1>1, InvFacts DEF Touched, Touch
  <2>2. CASE UNCHANGED db
    BY <2>1, <2>2 DEF Touch
  <2>3. ASSUME db' # None, WritesRow(c, db') \/ WritesCollab(c, db') PROVE Own(p)
    <3>1. OnlyTouches(db, db', c.name)
      BY <1>1, <2>1, <2>3, WritesRowTouches, WritesCollabTouches
    <3>2. QED
      BY <2>1, <3>1 DEF OnlyTouches
  <2>4. ASSUME db' # None, WritesLock(c, db') PROVE Own(p)
    BY <1>1, <2>1, <2>4, WritesLockTouches
  <2>5. QED
    BY <1>1, <2>2, <2>3, <2>4, ActsWrite DEF Writes
<1>2. ASSUME UNCHANGED vars, NEW p \in Procs PROVE Own(p)
  BY <1>2 DEF vars, Acts
<1>3. Inv /\ [Next]_vars => \A p \in Procs : Own(p)
  BY <1>1, <1>2
<1>4. QED
  BY <1>3, Invariance, PTL DEF Spec, OwnRepository

-----------------------------------------------------------------------------
(* Listings                                                                *)

\* How many locks of repository r come before lock l in order o.
Rank(d, r, o, l) == Cardinality({m \in LocksOf(d, r) : o[m] > o[l]})

\* A lock that a client should have seen, or that came later, has been removed.
Gone(list, d) ==
    \E l \in 1..d.last.lock : (l \in list.first \/ l > list.base) /\ d.lock[l] = None

\* The pages read of the locks of r reach as far as their number says: what came
\* later pushes locks to later pages, what was removed pulls them to earlier ones.
PagesRead(list, r, d) ==
    LET mine == LocksOf(d, r)
        read == (list.page - 1) * PageLimit IN
    /\ list.base <= d.last.lock
    /\ \A l \in list.first : l <= list.base
    /\ \A l \in mine : l <= list.base => l \in list.first
    /\ list.order = None \/ Gone(list, d)
          \/ \A l \in (list.first \cap mine) \ list.seen : read <= Rank(d, r, list.order, l)
    /\ list.order = None \/ d.last.lock > list.base
          \/ \A l \in list.seen \cap mine : Rank(d, r, list.order, l) < read

\* Where a request may be that has read pages.
Reading(c) == c.pc \in AtLocks
Lists(c, d) == c.list # None => Reading(c) /\ PagesRead(c.list, c.repo.id, d)

ListInv == \A p \in Procs : Lists(call[p], db)


LEMMA RankFacts ==
    ASSUME NEW d, NEW r, NEW o \in Orders
    PROVE  /\ IsFiniteSet(LocksOf(d, r))
           /\ \A l : Rank(d, r, o, l) \in Nat
           /\ \A l, m \in LocksOf(d, r) :
                 o[m] > o[l] => Rank(d, r, o, m) < Rank(d, r, o, l)
           /\ \A l, m \in LocksOf(d, r) : o[m] > o[l] \/ o[l] > o[m] \/ l = m
<1> DEFINE S == LocksOf(d, r)
           newer(l) == {m \in S : o[m] > o[l]}
<1>1. /\ S \subseteq LockIds /\ \A l \in S : o[l] \in Nat
      /\ \A l, m \in S : o[l] = o[m] => l = m
  BY DEF LocksOf, LockIds, Orders
<1>2. IsFiniteSet(LockIds)
  BY FS_Interval, Small DEF LockIds
<1>3. IsFiniteSet(S)
  BY <1>1, <1>2, FS_Subset
<1> HIDE DEF S
<1>4. \A l : IsFiniteSet(newer(l)) /\ Cardinality(newer(l)) \in Nat
  <2>1. \A l : newer(l) \subseteq S
    OBVIOUS
  <2>2. QED
    BY <1>3, <2>1, FS_Subset, FS_CardinalityType
<1>5. ASSUME NEW l \in S, NEW m \in S, o[m] > o[l]
      PROVE  Cardinality(newer(m)) < Cardinality(newer(l))
  <2>1. m \in newer(l) /\ newer(m) \subseteq newer(l) \ {m}
    <3>1. ASSUME NEW k \in S, o[k] > o[m] PROVE o[k] > o[l] /\ k # m
      BY <1>1, <1>5, <3>1
    <3>2. ~(o[m] > o[m])
      BY <1>1
    <3>3. QED
      BY <1>5, <3>1, <3>2
  <2> HIDE DEF newer
  <2>2. /\ IsFiniteSet(newer(l) \ {m})
        /\ Cardinality(newer(l) \ {m}) = Cardinality(newer(l)) - 1
    BY <1>4, <2>1, FS_RemoveElement
  <2>3. Cardinality(newer(m)) <= Cardinality(newer(l) \ {m})
    BY <2>1, <2>2, FS_Subset
  <2>4. QED
    BY <1>4, <2>2, <2>3
<1>6. \A l, m \in S : o[m] > o[l] \/ o[l] > o[m] \/ l = m
  BY <1>1
<1>7. QED
  BY <1>1, <1>3, <1>4, <1>5, <1>6 DEF Rank, S

\* As long as there are locks for later pages, a page is full.
LEMMA PageIsFull ==
    ASSUME NEW d, NEW r, NEW l \in LocksOf(d, r), NEW page \in Nat \ {0},
           NEW o \in Orders, page * PageLimit <= Rank(d, r, o, l)
    PROVE  PageLimit <= Cardinality(GetLFSLocks(d, r, page, o))
<1> DEFINE S == LocksOf(d, r)
           rank(m) == Rank(d, r, o, m)
           from == (page - 1) * PageLimit
           to == page * PageLimit
           before == {m \in S : rank(m) < from}
           until == {m \in S : rank(m) < to}
           got == GetLFSLocks(d, r, page, o)
<1>1. /\ PageLimit \in Nat \ {0} /\ from \in Nat /\ to \in Nat /\ to = from + PageLimit
  <2>1. PageLimit \in Nat \ {0} /\ page - 1 \in Nat
    BY LfsLocksAssumption
  <2>2. ASSUME NEW a \in Nat, NEW b \in Nat
        PROVE  a * b \in Nat /\ (a + 1) * b = a * b + b
    BY <2>2, SMT
  <2>3. page = (page - 1) + 1
    OBVIOUS
  <2>4. QED
    BY <2>1, <2>2, <2>3
<1>2. /\ IsFiniteSet(S) /\ \A m : rank(m) \in Nat
      /\ \A k, m \in S : o[m] > o[k] => rank(m) < rank(k)
      /\ \A k, m \in S : o[m] > o[k] \/ o[k] > o[m] \/ k = m
  BY RankFacts
<1>3. got = until \ before
  BY <1>1, <1>2 DEF GetLFSLocks, Rank
<1> HIDE DEF S, from, to, got, rank
<1>4. l \in S /\ to <= rank(l)
  BY DEF S, to, rank
<1>5. IsFiniteSet(until) /\ IsFiniteSet(before) /\ before \subseteq until
  <2>1. until \subseteq S /\ before \subseteq S
    OBVIOUS
  <2>2. before \subseteq until
    BY <1>1, <1>2
  <2>3. QED
    BY <1>2, <2>1, <2>2, FS_Subset
<1>6. Cardinality(before) <= from
  <2> DEFINE f == [m \in before |-> rank(m)]
  <2>1. f \in [before -> 0..(from - 1)]
    BY <1>1, <1>2
  <2>2. \A k, m \in before : f[k] = f[m] => k = m
    BY <1>2
  <2>3. f \in Injection(before, 0..(from - 1))
    BY <2>1, <2>2 DEF Injection, IsInjective
  <2>4. /\ IsFiniteSet(0..(from - 1))
        /\ Cardinality(0..(from - 1)) = IF 0 > from - 1 THEN 0 ELSE from - 1 - 0 + 1
    BY <1>1, FS_Interval
  <2>5. Cardinality(0..(from - 1)) = from
    BY <1>1, <2>4
  <2>6. QED
    BY <2>3, <2>4, <2>5, FS_Injection
<1>7. to <= Cardinality(until)
  <2> DEFINE late == {rank(m) : m \in {k \in S : to <= rank(k)}}
  <2>1. late \subseteq Nat /\ late # {}
    BY <1>2, <1>4
  <2>2. PICK n \in late : \A k \in late : n <= k
    <3>1. PICK n \in late : \A k \in late : ~ (<<k, n>> \in OpToRel(<, Nat))
      BY <2>1, NatLessThanWellFounded, WFMin
    <3>2. \A k \in late : ~(k < n)
      BY <2>1, <3>1 DEF OpToRel
    <3> HIDE DEF late
    <3>3. QED
      BY <2>1, <3>2
  <2>3. PICK m \in S : to <= rank(m) /\ n = rank(m)
    OBVIOUS
  <2>4. {k \in S : o[k] > o[m]} \subseteq until
    <3>1. SUFFICES ASSUME NEW k \in S, o[k] > o[m] PROVE rank(k) < to
      OBVIOUS
    <3>2. rank(k) < n /\ rank(k) \in Nat /\ n \in Nat
      BY <1>2, <2>1, <2>3, <3>1
    <3>3. rank(k) \notin late
      BY <2>1, <2>2, <3>2
    <3>4. ~(to <= rank(k))
      BY <3>3
    <3>5. QED
      BY <1>1, <3>2, <3>4
  <2>5. rank(m) <= Cardinality(until)
    BY <1>5, <2>4, FS_Subset DEF rank, Rank, S
  <2>6. Cardinality(until) \in Nat
    BY <1>5, FS_CardinalityType
  <2>7. QED
    BY <1>1, <1>2, <2>3, <2>5, <2>6
<1>8. Cardinality(until) = Cardinality(got) + Cardinality(before)
  <2>1. IsFiniteSet(got) /\ got \cup before = until /\ got \cap before = {}
    BY <1>3, <1>5, FS_Subset
  <2>2. Cardinality(until) = Cardinality(got) + Cardinality(before) - Cardinality({})
    BY <1>5, <2>1, FS_Union
  <2>3. Cardinality(got) \in Nat /\ Cardinality(before) \in Nat
    BY <1>5, <2>1, FS_CardinalityType
  <2>4. QED
    BY <2>2, <2>3, FS_EmptySet
<1>9. Cardinality(got) \in Nat /\ Cardinality(before) \in Nat
  BY <1>3, <1>5, FS_Subset, FS_CardinalityType
<1>10. PageLimit <= Cardinality(got)
  BY <1>1, <1>6, <1>7, <1>8, <1>9
<1>11. QED
  BY <1>10 DEF got


\* A commit of whoever leaves the pages as good as they were.
LEMMA PagesStayRead ==
    ASSUME NEW d, Valid(d), NEW e, Valid(e), LocksOnlyGo(d, e),
           NEW list \in Listing, NEW r, PagesRead(list, r, d)
    PROVE  PagesRead(list, r, e)
<1> DEFINE o == list.order
           mine(x) == LocksOf(x, r)
           read == (list.page - 1) * PageLimit
           newer(x, l) == {m \in mine(x) : o[m] > o[l]}
<1>1. /\ list.base \in Nat /\ d.last.lock \in Nat /\ e.last.lock \in Nat
      /\ LockIds \subseteq Nat /\ 0 \notin LockIds
      /\ list.base <= d.last.lock /\ d.last.lock <= e.last.lock
  BY Small DEF Valid, Database, Listing, PagesRead, LocksOnlyGo, LockIds
<1>2. read \in Int
  <2>1. list.page \in Nat /\ PageLimit \in Nat
    BY LfsLocksAssumption, Small DEF Listing
  <2>2. QED
    BY <2>1
<1>3. \A x, l : l \in mine(x) <=> l \in LockIds /\ x.lock[l] # None /\ x.lock[l].repo = r
  BY DEF LocksOf
<1>4. /\ \A l \in mine(d) : l <= d.last.lock
      /\ \A l \in mine(e) : l <= e.last.lock
  BY <1>3 DEF Valid, Consistent
<1>5. /\ \A x, l : Rank(x, r, o, l) = Cardinality(newer(x, l))
      /\ o # None => \A x, l : Rank(x, r, o, l) \in Nat
  <2>1. o # None => o \in Orders
    BY DEF Listing
  <2>2. QED
    BY <2>1, RankFacts DEF Rank
<1>6. \A x, l : IsFiniteSet(newer(x, l))
  <2>1. /\ \A x, l : newer(x, l) \subseteq LockIds
        /\ IsFiniteSet(LockIds)
    BY FS_Interval, Small DEF LocksOf, LockIds
  <2>2. QED
    BY <2>1, FS_Subset
<1> HIDE DEF mine, read, newer
\* No id is used again: what is there now of what came before is what was there.
<1>7. ASSUME NEW l \in mine(e), l <= d.last.lock
      PROVE  l \in mine(d)
  <2>1. l \in LockIds /\ e.lock[l] # None /\ e.lock[l].repo = r
    BY <1>3
  <2>2. ~(d.last.lock < l)
    BY <1>1, <1>7, <2>1
  <2>3. d.lock[l] = e.lock[l]
    BY <2>1, <2>2 DEF LocksOnlyGo
  <2>4. QED
    BY <1>3, <2>1, <2>3
<1>8. \A l \in mine(e) : l <= list.base => l \in list.first
  <2>1. SUFFICES ASSUME NEW l \in mine(e), l <= list.base PROVE l \in list.first
    OBVIOUS
  <2>2. l \in Nat
    BY <1>1, <1>3
  <2>3. l <= d.last.lock
    BY <1>1, <2>1, <2>2
  <2>4. l \in mine(d)
    BY <1>7, <2>3
  <2>5. QED
    BY <2>1, <2>4 DEF PagesRead, mine
<1>9. o = None \/ Gone(list, e) \/ \A l \in (list.first \cap mine(e)) \ list.seen :
                                        read <= Rank(e, r, o, l)
  <2>1. SUFFICES ASSUME o # None, ~Gone(list, e),
                        NEW l \in (list.first \cap mine(e)) \ list.seen
                 PROVE  read <= Rank(e, r, o, l)
    OBVIOUS
  \* What a client should have seen is all there, now and before.
  <2>2. ASSUME NEW m \in LockIds, m \in list.first \/ m > list.base, m <= d.last.lock
        PROVE  e.lock[m] # None /\ d.lock[m] = e.lock[m]
    <3>1. m \in 1..e.last.lock /\ m \in Nat
      BY <1>1, <2>2 DEF LockIds
    <3>2. e.lock[m] # None
      BY <2>1, <2>2, <3>1 DEF Gone
    <3>3. ~(d.last.lock < m)
      BY <1>1, <2>2, <3>1
    <3>4. QED
      BY <3>2, <3>3 DEF LocksOnlyGo
  <2>3. ~Gone(list, d)
    <3>1. SUFFICES ASSUME NEW m \in 1..d.last.lock, m \in list.first \/ m > list.base,
                          d.lock[m] = None
                   PROVE  FALSE
      BY DEF Gone
    <3>2. m \in LockIds /\ m <= d.last.lock
      <4>1. d.last.lock <= MaxLockId /\ MaxLockId \in Nat
        BY Small DEF Valid, Database
      <4>2. QED
        BY <1>1, <3>1, <4>1 DEF LockIds
    <3>3. QED
      BY <2>2, <3>1, <3>2
  <2>4. l \in mine(d)
    <3>1. l <= list.base /\ l \in Nat
      BY <1>1, <1>3, <2>1 DEF PagesRead
    <3>2. l <= d.last.lock
      BY <1>1, <3>1
    <3>3. QED
      BY <1>7, <2>1, <3>2
  <2>5. read <= Rank(d, r, o, l)
    BY <2>1, <2>3, <2>4 DEF PagesRead, read, mine, o
  <2>6. newer(d, l) \subseteq newer(e, l)
    <3>1. SUFFICES ASSUME NEW m \in mine(d), o[m] > o[l] PROVE m \in mine(e)
      BY DEF newer
    <3>2. m \in LockIds /\ m \in Nat /\ m <= d.last.lock
      BY <1>1, <1>3, <1>4
    <3>3. m \in list.first \/ m > list.base
      <4>1. m <= list.base => m \in list.first
        BY DEF PagesRead, mine
      <4>2. QED
        BY <1>1, <3>2, <4>1
    <3>4. e.lock[m] # None /\ d.lock[m] = e.lock[m]
      BY <2>2, <3>2, <3>3
    <3>5. QED
      BY <1>3, <3>2, <3>4
  <2>7. Cardinality(newer(d, l)) <= Cardinality(newer(e, l))
    BY <1>6, <2>6, FS_Subset
  <2>8. QED
    BY <1>2, <1>5, <2>1, <2>5, <2>7
<1>10. o = None \/ e.last.lock > list.base
          \/ \A l \in list.seen \cap mine(e) : Rank(e, r, o, l) < read
  <2>1. SUFFICES ASSUME o # None, ~(e.last.lock > list.base),
                        NEW l \in list.seen \cap mine(e)
                 PROVE  Rank(e, r, o, l) < read
    OBVIOUS
  <2>2. e.last.lock = list.base /\ d.last.lock = list.base
    BY <1>1, <2>1
  <2>3. \A m \in mine(e) : m \in mine(d)
    BY <1>4, <1>7, <2>2
  <2>4. Rank(d, r, o, l) < read
    <3>1. l \in list.seen \cap mine(d) /\ ~(d.last.lock > list.base)
      BY <1>1, <2>1, <2>2, <2>3
    <3>2. QED
      BY <2>1, <3>1 DEF PagesRead, read, mine, o
  <2>5. Cardinality(newer(e, l)) <= Cardinality(newer(d, l))
    <3>1. newer(e, l) \subseteq newer(d, l)
      BY <2>3 DEF newer
    <3>2. QED
      BY <1>6, <3>1, FS_Subset
  <2>6. QED
    BY <1>2, <1>5, <2>1, <2>4, <2>5
<1>11. list.base <= e.last.lock
  BY <1>1
<1>12. \A l \in list.first : l <= list.base
  BY DEF PagesRead
<1>13. QED
  BY <1>8, <1>9, <1>10, <1>11, <1>12 DEF PagesRead, mine, read, o


LEMMA FreshPages ==
    ASSUME NEW d, Valid(d), NEW r, NEW o \in Orders
    PROVE  LET list == [FirstPage EXCEPT !.first = LocksOf(d, r), !.base = d.last.lock,
                                         !.order = o] IN
           list \in Listing /\ PagesRead(list, r, d)
<1> DEFINE list == [FirstPage EXCEPT !.first = LocksOf(d, r), !.base = d.last.lock,
                                     !.order = o]
<1>1. /\ list.page = 1 /\ list.seen = {} /\ list.first = LocksOf(d, r)
      /\ list.base = d.last.lock /\ list.order = o
  BY DEF FirstPage
<1>2. list \in Listing
  <2>1. /\ LocksOf(d, r) \subseteq LockIds /\ d.last.lock \in 0..MaxLockId
        /\ 1 \in 1..(MaxLockId + 1)
    BY Small DEF LocksOf, Valid, Database
  <2>2. FirstPage \in Listing
    BY <2>1, Small DEF FirstPage, Listing
  <2>3. QED
    BY <2>1, <2>2 DEF Listing
<1> HIDE DEF list
<1>3. d.last.lock \in Nat /\ d.last.lock <= d.last.lock
  BY Small DEF Valid, Database
<1>4. \A l \in LocksOf(d, r) : l <= d.last.lock
  BY DEF LocksOf, Valid, Consistent
<1>5. (list.page - 1) * PageLimit = 0
  <2>1. PageLimit \in Nat /\ list.page - 1 = 0
    BY <1>1, LfsLocksAssumption
  <2>2. \A a \in Nat : 0 * a = 0
    OBVIOUS
  <2>3. QED
    BY <2>1, <2>2
<1>6. \A l : 0 <= Rank(d, r, o, l)
  <2>1. \A l : Rank(d, r, o, l) \in Nat
    BY RankFacts
  <2>2. \A n \in Nat : 0 <= n
    OBVIOUS
  <2>3. QED
    BY <2>1, <2>2
<1>7. PagesRead(list, r, d)
  BY <1>1, <1>3, <1>4, <1>5, <1>6 DEF PagesRead
<1>8. QED
  BY <1>2, <1>7 DEF list

\* What a page holds, by the number of locks before it.
LEMMA PageHolds ==
    ASSUME NEW d, NEW r, NEW page \in Nat \ {0}, NEW o
    PROVE  LET got == GetLFSLocks(d, r, page, o) IN
           /\ got \subseteq LocksOf(d, r)
           /\ \A l \in LocksOf(d, r) :
                 l \in got <=> /\ (page - 1) * PageLimit <= Rank(d, r, o, l)
                              /\ Rank(d, r, o, l) < page * PageLimit
           /\ (page - 1) * PageLimit \in Nat /\ page * PageLimit \in Nat
           /\ page * PageLimit = (page - 1) * PageLimit + PageLimit
<1>1. PageLimit \in Nat \ {0} /\ page - 1 \in Nat
  BY LfsLocksAssumption
<1>2. ASSUME NEW a \in Nat, NEW b \in Nat
      PROVE  a * b \in Nat /\ (a + 1) * b = a * b + b
  BY <1>2, SMT
<1>3. page = (page - 1) + 1
  OBVIOUS
<1>4. /\ (page - 1) * PageLimit \in Nat /\ page * PageLimit \in Nat
      /\ page * PageLimit = (page - 1) * PageLimit + PageLimit
  BY <1>1, <1>2, <1>3
<1>5. QED
  BY <1>4 DEF GetLFSLocks, Rank

LEMMA NextPage ==
    ASSUME NEW d, Valid(d), NEW r, NEW list \in Listing, PagesRead(list, r, d),
           NEW o \in Orders
    PROVE  PagesRead(Listed(list, GetLFSLocks(d, r, list.page, o), o), r, d)
<1> DEFINE got == GetLFSLocks(d, r, list.page, o)
           next == Listed(list, got, o)
           mine == LocksOf(d, r)
           from == (list.page - 1) * PageLimit
           to == list.page * PageLimit
<1>1. /\ next.page = list.page + 1 /\ next.seen = list.seen \cup got
      /\ next.first = list.first /\ next.base = list.base
      /\ next.order # None => next.order = o /\ list.order = o
  BY DEF Listing, Listed
<1>2. list.page \in Nat \ {0}
  BY Small DEF Listing
<1>3. (next.page - 1) * PageLimit = to
  <2>1. next.page - 1 = list.page
    BY <1>1, <1>2
  <2>2. QED
    BY <2>1
<1>4. /\ \A l \in mine : l \in got <=> from <= Rank(d, r, o, l) /\ Rank(d, r, o, l) < to
      /\ from \in Nat /\ to \in Nat /\ PageLimit \in Nat /\ to = from + PageLimit
      /\ \A l : Rank(d, r, o, l) \in Nat
  BY <1>2, PageHolds, RankFacts, LfsLocksAssumption
<1> HIDE DEF next, got, from, to, mine
<1>5. ASSUME \A l \in (list.first \cap mine) \ list.seen : from <= Rank(d, r, o, l)
      PROVE  \A l \in (next.first \cap mine) \ next.seen : to <= Rank(d, r, o, l)
  BY <1>1, <1>4, <1>5
<1>6. ASSUME \A l \in list.seen \cap mine : Rank(d, r, o, l) < from
      PROVE  \A l \in next.seen \cap mine : Rank(d, r, o, l) < to
  BY <1>1, <1>4, <1>6
<1>7. Gone(list, d) => Gone(next, d)
  BY <1>1 DEF Gone
<1>8. PagesRead(next, r, d)
  BY <1>1, <1>3, <1>5, <1>6, <1>7 DEF PagesRead, from, mine
<1>9. QED
  BY <1>8 DEF next, got

\* Whatever step is taken, what requests know of locks stays true.
LEMMA NextLocks == ASSUME Inv, Next PROVE Inv' /\ LocksOnlyGo(db, db')
<1>1. CASE Kept
  BY <1>1, CarriedOver DEF Kept
<1>2. ASSUME NEW p \in Procs, LocksDeleted(p) \/ LockUnlock(p), Inv'
      PROVE  LocksOnlyGo(db, db')
  <2>1. Valid(db) /\ call[p] \in Call /\ CallOK(call[p], db) /\ db.last.lock \in Nat
    BY InvFacts, Numbers DEF Valid, Database
  <2>2. UNCHANGED db \/ db' = [db EXCEPT !.lock[call[p].lock] = None]
    BY <1>2, NoneAssumption
    DEF LocksDeleted, LockUnlock, DeleteLFSLock, DeleteLFSLockForUserByID, Commit,
        CommitThen
  <2>3. CASE UNCHANGED db
    BY <2>1, <2>3 DEF LocksOnlyGo
  <2>4. CASE db' = [db EXCEPT !.lock[call[p].lock] = None]
    <3>1. /\ db'.last.lock = db.last.lock
          /\ \A l \in LockIds : db'.lock[l] = IF l = call[p].lock THEN None ELSE db.lock[l]
      BY <2>1, <2>4 DEF Valid, Database
    <3>2. db.last.lock <= db.last.lock
      BY <2>1
    <3>3. QED
      BY <3>1, <3>2 DEF LocksOnlyGo
  <2>5. QED
    BY <2>2, <2>3, <2>4
<1>3. Kept \/ \E p \in Procs : Inv' /\ (LocksDeleted(p) \/ LockUnlock(p))
  BY NextInv
<1>4. QED
  BY <1>1, <1>2, <1>3


\* A request that comes in has read no pages, nor has one at a check.
LEMMA StartsUnread ==
    ASSUME Inv, NEW p \in Procs, Lists(call[p], db)
    PROVE  /\ \A n, c, route, form : withAccess(p, n, c, route, form) => call'[p].list = None
           /\ \A n, allowed, place : Checked(p, n, allowed, place) => call'[p].list = None
           /\ SetterCheck(p) => call'[p].list = None
           /\ \A k : Login(p, k) => call'[p].list = None
           /\ HttpCreates(p) \/ HttpServes(p) => call'[p].list = None
<1>1. call \in [Procs -> Call] /\ call[p] \in Call /\ Idle.list = None
  BY InvFacts DEF Idle
<1>2. ASSUME NEW n, NEW c, NEW route, NEW form, withAccess(p, n, c, route, form)
      PROVE  call'[p].list = None
  <2> DEFINE repo == RepoSnapshot(db, n)
             who == IF c.kind = "bearer" /\ repo = None THEN None ELSE authenticate(c)
             context == [Idle EXCEPT !.who = who, !.cred = IssuedTo(c),
                                     !.repo = repo, !.name = n,
                                     !.form = IF route = "locks" THEN form ELSE None]
  <2>1. \E place : Starts(p, [context EXCEPT !.pc = place])
    <3> HIDE DEF who, repo
    <3>1. \/ Starts(p, [context EXCEPT !.pc =
                         CASE route = "locks" -> "httpWrite"
                           [] route = "git-receive-pack" -> "httpPush"
                           [] OTHER -> "httpRead"])
          \/ Starts(p, [context EXCEPT !.pc = IF route = "locks" THEN "httpCreateFirst"
                                             ELSE "httpCreate"])
      BY <1>2 DEF withAccess, who, repo
    <3>2. QED
      BY <3>1
  <2> HIDE DEF who, repo
  <2>2. \A place : [context EXCEPT !.pc = place].list = None
    BY DEF Idle
  <2> HIDE DEF context
  <2>3. QED
    BY <1>1, <2>1, <2>2 DEF Starts, Step
<1>3. call[p].pc \in {"session", "readable"} => call[p].list = None
  BY DEF Lists, Reading, AtLocks
<1>4. ASSUME NEW n, NEW allowed, NEW place, Checked(p, n, allowed, place)
      PROVE  call'[p].list = None
  <2>1. /\ call[p].list = None
        /\ call'[p] = Idle \/ call'[p] = [call[p] EXCEPT !.pc = place, !.name = n]
    BY <1>1, <1>3, <1>4 DEF Checked, At, Step
  <2>2. QED
    BY <1>1, <2>1 DEF Call
<1>5. ASSUME SetterCheck(p) PROVE call'[p].list = None
  <2>1. /\ call[p].list = None
        /\ call'[p] = Idle \/ call'[p] = [call[p] EXCEPT !.pc = "setter"]
    BY <1>1, <1>3, <1>5 DEF SetterCheck, At, Step
  <2>2. QED
    BY <1>1, <2>1 DEF Call
<1>6. ASSUME NEW k, Login(p, k) PROVE call'[p].list = None
  BY <1>1, <1>6 DEF Login, Starts, Step, Idle
<1>7. ASSUME HttpCreates(p) \/ HttpServes(p) PROVE call'[p].list = None
  <2>1. call[p].pc \in {"httpCreate", "httpCreateFirst", "httpRead", "httpPush"}
    BY <1>7 DEF HttpCreates, HttpServes, At
  <2>2. call[p].list = None
    BY <2>1 DEF Lists, Reading, AtLocks
  <2>3. \/ call'[p] = Idle
        \/ \E r : call'[p] = [call[p] EXCEPT !.pc = "httpWrite", !.repo = r]
    BY <1>1, <1>7 DEF HttpCreates, HttpServes, CommitThen, Ends, Step
  <2>4. QED
    BY <1>1, <2>2, <2>3 DEF Call
<1>8. QED
  BY <1>2, <1>4, <1>5, <1>6, <1>7

\* A step of the request's own leaves its pages alone, begins anew, or reads the
\* next one.
LEMMA OwnPages ==
    ASSUME Inv, NEW p \in Procs, AccountStep(p) \/ RepositoryStep(p) \/ LockStep(p),
           Lists(call[p], db), call'[p].list # None
    PROVE  \/ /\ call'[p].list = call[p].list /\ call'[p].repo = call[p].repo
              /\ Reading(call[p]) /\ Reading(call'[p])
           \/ ListPage(p) /\ Reading(call[p])
<1> DEFINE c == call[p]
           Goal == \/ /\ call'[p].list = c.list /\ call'[p].repo = c.repo
                      /\ Reading(c) /\ Reading(call'[p])
                   \/ ListPage(p) /\ Reading(c)
<1>1. /\ call \in [Procs -> Call] /\ c \in Call /\ Idle.list = None /\ Idle.pc = "idle"
      /\ c.list # None => Reading(c)
  BY InvFacts DEF Lists, Idle
<1> HIDE DEF Goal
<1>2. CASE AccountStep(p)
  <2> DEFINE Comes ==
                \/ \E k \in Keys : Login(p, k)
                \/ \E n \in UserNames : checkIfAdmin(p, n)
                \/ \E n \in RepoNames, e \in Credentials : withAccess(p, n, e, "files", None)
             GoesOn ==
                \/ \E n \in UserNames : FindUser(p, n)
                \/ \E n \in UserNames, b \in BOOLEAN, k \in Keys \cup {None} :
                      GrpcCreateUser(p, n, b, k)
                \/ \E n, new \in UserNames : GrpcUpdateName(p, n, new)
                \/ ByMyKey(p, "myKeys") \/ \E b \in BOOLEAN : GrpcUpdateAdmin(p, b)
  <2>1. CASE Comes
    BY <2>1, StartsUnread DEF checkIfAdmin
  <2>2. CASE GoesOn
    <3>1. CASE ByMyKey(p, "myKeys")
      <4>1. c.pc = "session" /\ c.list = None
        BY <1>1, <3>1 DEF ByMyKey, At, Reading, AtLocks
      <4>2. \/ call'[p] = Idle
            \/ \E n : call'[p] = [c EXCEPT !.pc = "myKeys", !.name = n]
        BY <1>1, <3>1 DEF ByMyKey, Step
      <4>3. QED
        BY <1>1, <4>1, <4>2 DEF Call
    <3>2. CASE \E b \in BOOLEAN : GrpcUpdateAdmin(p, b)
      <4>1. c.pc = "grpcAdmin" /\ c.list = None
        BY <1>1, <3>2 DEF GrpcUpdateAdmin, At, Reading, AtLocks
      <4>2. call'[p] = [c EXCEPT !.pc = "grpcPassword"] \/ call'[p] = Idle
        BY <1>1, <3>2 DEF GrpcUpdateAdmin, CommitThen, Commit
      <4>3. QED
        BY <1>1, <4>1, <4>2 DEF Call
    <3>3. CASE ~ByMyKey(p, "myKeys") /\ ~\E b \in BOOLEAN : GrpcUpdateAdmin(p, b)
      <4>1. call'[p].list = None
        BY <1>1, <2>2, <3>3
        DEF FindUser, GrpcCreateUser, GrpcUpdateName, Method, MethodGoesOn, CommitThen,
            Starts, Step, Idle
      <4>2. QED
        BY <4>1
    <3>4. QED
      BY <3>1, <3>2, <3>3
  <2>3. CASE ~Comes /\ ~GoesOn
    <3>1. call'[p] = Idle
      BY <1>1, <1>2, <2>3
      DEF AccountStep, UserCreate, UserAddPubkey, UserRemovePubkey, GrpcAddPublicKey,
          GrpcRemovePublicKey, UserSetAdmin, UserSetUsername, UserDelete, GrpcDeleteUser,
          TokenCreate, GrpcCreateToken, TokenDelete, GrpcDeleteToken, Jwt, PubkeyAdd,
          PubkeyRemove, SetMyUsername, GrpcSetPassword, GrpcNoPassword,
          UserInfo, UserList, TokenList, PubkeyList, InfoCommand, HttpServes, Step, Ends,
          Panics, Commit, CommitThen, Method, ProcessDies
    <3>2. QED
      BY <1>1, <3>1
  <2>4. QED
    BY <2>1, <2>2, <2>3
<1>3. CASE RepositoryStep(p)
  <2> DEFINE Comes ==
                \/ \E k \in Keys \cup {None} : Login(p, k)
                \/ \E n \in RepoNames :
                      \/ checkIfReadable(p, n) \/ checkIfCollab(p, n)
                      \/ checkIfReadableAndCollab(p, n) \/ checkIfAdmin(p, n)
                      \/ SessionHandler(p, n) \/ RepoList(p, n)
                \/ SetterCheck(p) \/ HttpCreates(p)
                \/ \E n \in RepoNames, route \in Services :
                      withAccess(p, n, [kind |-> "anonymous"], route, None)
             GoesOn ==
                \/ \E b \in BOOLEAN : GrpcUpdateSettings(p, b)
                \/ \E n \in UserNames : FindUser(p, n)
  <2>1. CASE Comes
    BY <2>1, StartsUnread
    DEF checkIfReadable, checkIfCollab, checkIfReadableAndCollab, checkIfAdmin,
        SessionHandler, RepoList
  <2>2. CASE GoesOn
    <3>1. call'[p].list = None
      BY <1>1, <2>2 DEF GrpcUpdateSettings, FindUser, CommitThen, Starts, Step, Idle
    <3>2. QED
      BY <3>1
  <2>3. CASE ~Comes /\ ~GoesOn
    <3>1. call'[p] = Idle
      BY <1>1, <1>3, <2>3
      DEF RepositoryStep, RepoCreate, RepoPrivate, SettingsAllowKeyless,
          SettingsAnonAccess, GrpcUpdateAnon, RepoDelete, RepoShow, RepoInfo, RepoMirror,
          CollabList, RepoHidden, RepoDescription, RepoProjectName, Attribute, RepoRename,
          CollabAdd, CollabRemove, GrpcCreateRepository, GrpcUpdateRepository,
          GrpcDeleteRepository, GrpcRenameRepository, GrpcAddCollaborator,
          GrpcRemoveCollaborator, HttpServes, Step, Ends, Panics, Commit, CommitThen,
          Method, ProcessDies
    <3>2. QED
      BY <1>1, <3>1
  <2>4. QED
    BY <2>1, <2>2, <2>3
<1>4. CASE LockStep(p)
  <2>1. CASE \/ \E l \in LockIds : \/ \E force \in BOOLEAN : LocksDelete(p, l, force)
                                   \/ LockFromID(p, l)
    <3>1. PICK l \in LockIds, a \in {"unlock", "lfsUnlock"} :
             /\ call'[p] \in {Idle, [c EXCEPT !.pc = a, !.lock = l]} /\ Reading(c)
      BY <1>1, <2>1 DEF LocksDelete, LockFromID, Step, At, Reading, AtLocks
    <3>2. call'[p] = [c EXCEPT !.pc = a, !.lock = l]
      BY <1>1, <3>1
    <3>3. call'[p].list = c.list /\ call'[p].repo = c.repo /\ call'[p].pc = a
      BY <1>1, <3>2 DEF Call
    <3>4. QED
      BY <3>1, <3>3 DEF Reading, AtLocks, Goal
  <2>2. CASE LocksGet(p) \/ LocksVerify(p) \/ LockRange(p) \/ FromPath(p)
    BY <1>1, <2>2 DEF LocksGet, LocksVerify, LockRange, FromPath, Ends, Step, At, Reading, AtLocks, Goal
  <2>3. CASE \/ \E k \in Keys : Login(p, k)
             \/ \E n \in RepoNames : LFSTransfer(p, n) \/ checkIfReadableAndCollab(p, n)
             \/ \E n \in RepoNames, t \in TokenIds, route \in Routes,
                   form \in Services \cup {None} :
                   withAccess(p, n, [kind |-> "token", token |-> t], route, form)
             \/ HttpCreates(p) \/ HttpServes(p)
             \/ \E path \in Paths : LocksCreate(p, path) \/ LockCreate(p, path)
             \/ LocksDeleted(p) \/ LockUnlock(p) \/ RepoDelete(p)
             \/ \E n \in UserNames : GrpcDeleteUser(p, n)
    <3>1. CASE \E n \in RepoNames : LFSTransfer(p, n)
      <4>1. PICK n \in RepoNames : LFSTransfer(p, n)
        BY <3>1
      <4> DEFINE repo == RepoSnapshot(db, n)
      <4>2. call'[p] \in {Idle, [c EXCEPT !.pc = "lfs", !.repo = repo, !.name = n]}
        BY <1>1, <4>1 DEF LFSTransfer, Step
      <4>3. c.list = None
        BY <1>1, <4>1 DEF LFSTransfer, At, Reading, AtLocks
      <4> HIDE DEF repo
      <4>4. QED
        BY <1>1, <4>2, <4>3 DEF Call
    <3>2. CASE \/ \E path \in Paths : LocksCreate(p, path) \/ LockCreate(p, path)
               \/ LocksDeleted(p) \/ LockUnlock(p) \/ RepoDelete(p)
               \/ \E n \in UserNames : GrpcDeleteUser(p, n)
      <4>1. call'[p] = Idle
        BY <1>1, <3>2
        DEF LocksCreate, LockCreate, LocksDeleted, LockUnlock, RepoDelete, GrpcDeleteUser,
            Step, Ends, Panics, Commit, CommitThen, ProcessDies
      <4>2. QED
        BY <1>1, <4>1
    <3>3. QED
      BY <2>3, <3>1, <3>2, StartsUnread DEF checkIfReadableAndCollab
  <2>4. QED
    BY <1>4, <2>1, <2>2, <2>3 DEF LockStep
<1>5. QED
  BY <1>2, <1>3, <1>4 DEF Goal


LEMMA ListedNext == ASSUME Inv, Next, ListInv PROVE ListInv'
<1>1. /\ Valid(db) /\ Valid(db') /\ LocksOnlyGo(db, db')
      /\ call \in [Procs -> Call] /\ call' \in [Procs -> Call]
  BY NextLocks, InvFacts DEF Inv, TypeOK, RowsReferToRows, Valid
<1>2. ASSUME NEW q \in Procs, call'[q].list = call[q].list,
             call'[q].list # None => call'[q].repo = call[q].repo /\ Reading(call'[q])
      PROVE  Lists(call'[q], db')
  <2>1. SUFFICES ASSUME call[q].list # None
                 PROVE  Reading(call'[q]) /\ PagesRead(call[q].list, call[q].repo.id, db')
    BY <1>2 DEF Lists
  <2>2. /\ call[q].list \in Listing /\ PagesRead(call[q].list, call[q].repo.id, db)
        /\ call[q] \in Call
    BY <1>1, <2>1 DEF ListInv, Lists, Call
  <2>3. PagesRead(call[q].list, call[q].repo.id, db')
    BY <1>1, <2>2, PagesStayRead
  <2>4. QED
    BY <1>2, <2>1, <2>3
<1>3. ASSUME NEW q \in Procs, \E late : call'[q] = [call[q] EXCEPT !.overtaken = late]
      PROVE  Lists(call'[q], db')
  <2>1. /\ call'[q].list = call[q].list /\ call'[q].repo = call[q].repo
        /\ call'[q].pc = call[q].pc
    BY <1>1, <1>3 DEF Call
  <2>2. call[q].list # None => Reading(call[q])
    BY DEF ListInv, Lists
  <2>3. QED
    BY <1>2, <2>1, <2>2 DEF Reading, AtLocks
<1>4. ASSUME NEW q \in Procs, call'[q] = Idle \/ call'[q] = call[q]
      PROVE  Lists(call'[q], db')
  <2>1. Idle.list = None
    BY DEF Idle
  <2>2. CASE call'[q] = Idle
    BY <2>1, <2>2 DEF Lists
  <2>3. CASE call'[q] = call[q]
    BY <1>2, <2>3 DEF ListInv, Lists
  <2>4. QED
    BY <1>4, <2>2, <2>3
<1>5. ASSUME NEW p \in Procs, AccountStep(p) \/ RepositoryStep(p) \/ LockStep(p)
      PROVE  \A q \in Procs : Lists(call'[q], db')
  <2>1. ASSUME NEW q \in Procs, q # p PROVE Lists(call'[q], db')
    <3>1. CASE \E c : call' = [call EXCEPT ![p] = c]
      BY <1>1, <1>4, <2>1, <3>1
    <3>2. CASE \E d, c : CommitThen(p, d, c)
      BY <1>1, <1>3, <1>4, <2>1, <3>2 DEF CommitThen
    <3>3. CASE call' = [r \in Procs |-> Idle]
      BY <1>4, <3>3
    <3>4. QED
      BY <1>5, <3>1, <3>2, <3>3, StepKinds
  <2>2. Lists(call'[p], db')
    <3>1. SUFFICES ASSUME call'[p].list # None PROVE Lists(call'[p], db')
      BY DEF Lists
    <3>2. Lists(call[p], db)
      BY DEF ListInv
    <3>3. CASE call'[p].list = call[p].list /\ call'[p].repo = call[p].repo /\ Reading(call'[p])
      BY <1>2, <3>3
    <3>4. CASE ListPage(p) /\ Reading(call[p])
      <4>0. PICK o \in Orders : ListPageIn(p, o)
        BY <3>4 DEF ListPage
      <4> DEFINE c == call[p]
                 fresh == [FirstPage EXCEPT !.first = LocksOf(db, c.repo.id),
                                            !.base = db.last.lock, !.order = o]
                 list == IF c.list # None THEN c.list ELSE fresh
                 next == Listed(list, GetLFSLocks(db, c.repo.id, list.page, o), o)
      <4>1. list \in Listing /\ PagesRead(list, c.repo.id, db)
        BY <1>1, <3>2, FreshPages DEF Lists, Call
      <4>2. /\ UNCHANGED db
            /\ call'[p] \in {Idle, [c EXCEPT !.list = next]}
        BY <1>1, <4>0 DEF ListPageIn, Step
      <4> HIDE DEF list
      <4>3. PagesRead(next, c.repo.id, db)
        BY <1>1, <4>1, NextPage
      <4> HIDE DEF next
      <4>4. Idle.list = None
        BY DEF Idle
      <4>5. call'[p] = [c EXCEPT !.list = next]
        BY <3>1, <4>2, <4>4
      <4>6. call'[p].list = next /\ call'[p].repo = c.repo /\ call'[p].pc = c.pc
        BY <1>1, <4>5 DEF Call
      <4>7. QED
        BY <3>4, <4>2, <4>3, <4>6 DEF Lists, Reading, AtLocks
    <3>5. QED
      BY <1>5, <3>1, <3>2, <3>3, <3>4, OwnPages
  <2>3. QED
    BY <2>1, <2>2
<1>6. CASE Restart
  BY <1>4, <1>6 DEF Restart, ListInv
<1>7. ASSUME NEW t \in TokenIds, TokenExpires(t) PROVE ListInv'
  <2>1. \A q \in Procs : \/ \E late : call'[q] = [call[q] EXCEPT !.overtaken = late]
                         \/ call'[q] = Idle
    BY <1>1, <1>7 DEF TokenExpires
  <2>2. QED
    BY <1>3, <1>4, <2>1 DEF ListInv
<1>8. QED
  BY <1>5, <1>6, <1>7 DEF Next, ListInv


LEMMA ListInvariance == Spec => []ListInv
<1>1. Init => ListInv
  BY DEF Init, ListInv, Lists, Idle
<1>2. Inv /\ ListInv /\ [Next]_vars => ListInv'
  <2>1. ASSUME ListInv, UNCHANGED vars PROVE ListInv'
    BY <2>1 DEF ListInv, vars
  <2>2. QED
    BY <2>1, ListedNext
<1>3. QED
  BY <1>1, <1>2, Invariance, PTL DEF Spec

\* A client that asks for one page after the other, while locks are made and
\* removed by others, has at the last page seen every lock it should, as long as
\* the database kept to one order: pages are counted from its start, so what comes
\* meanwhile moves nothing past the client, and a lock is passed over only when one
\* was removed.
THEOREM WholeListing == Spec => ListingComplete
<1> DEFINE Right(p) ==
              LET c == call[p]
                  o == c.list.order
                  got == GetLFSLocks(db, c.repo.id, c.list.page, o)
                  begun(l) == l \in c.list.first \/ l > c.list.base IN
              (/\ c.list # None /\ o # None /\ c.pc \in {"httpWrite", "lfs"}
               /\ call'[p] # c /\ ListPageIn(p, o)) =>
                /\ call'[p] = Idle =>
                      \/ (c.list.first \cap LocksOf(db, c.repo.id))
                             \subseteq c.list.seen \cup got
                      \/ \E l \in 1..db.last.lock : begun(l) /\ db.lock[l] = None
                /\ c.list.seen \cap got = {} \/ db.last.lock > c.list.base
<1>1. ASSUME Inv, ListInv, NEW p \in Procs PROVE Right(p)
  <2> DEFINE c == call[p]
             list == c.list
             o == list.order
             r == c.repo.id
             mine == LocksOf(db, r)
             from == (list.page - 1) * PageLimit
             to == list.page * PageLimit
             got == GetLFSLocks(db, r, list.page, o)
  <2>1. SUFFICES ASSUME list # None, o # None, c.pc \in {"httpWrite", "lfs"},
                        ListPageIn(p, o)
                 PROVE  /\ call'[p] = Idle =>
                              \/ (list.first \cap mine) \subseteq list.seen \cup got
                              \/ Gone(list, db)
                        /\ list.seen \cap got = {} \/ db.last.lock > list.base
    BY DEF Gone
  <2>2. /\ call \in [Procs -> Call] /\ c \in Call /\ list \in Listing
        /\ PagesRead(list, r, db) /\ o \in Orders
    BY <1>1, <2>1, InvFacts DEF ListInv, Lists, Call, Listing
  <2>3. list.page \in Nat \ {0}
    BY <2>2, Small DEF Listing
  <2>4. /\ got \subseteq mine /\ from \in Nat /\ to \in Nat
        /\ \A l \in mine : l \in got <=> from <= Rank(db, r, o, l) /\ Rank(db, r, o, l) < to
        /\ \A l : Rank(db, r, o, l) \in Nat
    <3>1. \A l : Rank(db, r, o, l) \in Nat
      BY <2>2, RankFacts
    <3> DEFINE n == list.page
    <3> HIDE DEF o, n
    <3>2. LET g == GetLFSLocks(db, r, n, o) IN
          /\ g \subseteq mine
          /\ \A l \in mine : l \in g <=> /\ (n - 1) * PageLimit <= Rank(db, r, o, l)
                                       /\ Rank(db, r, o, l) < n * PageLimit
          /\ (n - 1) * PageLimit \in Nat /\ n * PageLimit \in Nat
      BY <2>3, PageHolds DEF n
    <3>3. QED
      BY <3>1, <3>2 DEF n
  <2>5. ASSUME call'[p] = Idle PROVE Cardinality(got) < PageLimit
    <3> DEFINE next == Listed(list, got, o)
    <3>1. call' = [call EXCEPT ![p] = IF Cardinality(got) < PageLimit THEN Idle
                                      ELSE [c EXCEPT !.list = next]]
      BY <2>1 DEF ListPageIn, Step
    <3> HIDE DEF next, got
    <3>2. [c EXCEPT !.list = next].pc = c.pc
      BY <2>2 DEF Call
    <3>3. Idle.pc = "idle"
      BY DEF Idle
    <3>4. QED
      BY <2>1, <2>2, <2>5, <3>1, <3>2, <3>3
  <2>6. ASSUME call'[p] = Idle, ~Gone(list, db),
               NEW l \in list.first \cap mine, l \notin list.seen \cup got
        PROVE  FALSE
    <3>1. from <= Rank(db, r, o, l)
      BY <2>1, <2>2, <2>6 DEF PagesRead
    <3>2. to <= Rank(db, r, o, l)
      BY <2>4, <2>6, <3>1
    <3>3. PageLimit <= Cardinality(got)
      BY <2>2, <2>3, <2>6, <3>2, PageIsFull
    <3>4. Cardinality(got) \in Nat /\ PageLimit \in Nat
      <4>1. IsFiniteSet(mine)
        BY <2>2, RankFacts
      <4>2. QED
        BY <2>4, <4>1, FS_Subset, FS_CardinalityType, LfsLocksAssumption
    <3>5. Cardinality(got) < PageLimit
      BY <2>5, <2>6
    <3> HIDE DEF got
    <3>6. QED
      BY <3>3, <3>4, <3>5
  <2>7. ASSUME NEW l \in list.seen \cap got, ~(db.last.lock > list.base) PROVE FALSE
    <3>1. l \in mine /\ from <= Rank(db, r, o, l)
      BY <2>4, <2>7
    <3>2. Rank(db, r, o, l) < from
      BY <2>1, <2>2, <2>7, <3>1 DEF PagesRead
    <3>3. QED
      BY <2>4, <3>1, <3>2
  <2>8. QED
    BY <2>6, <2>7
<1>2. ASSUME UNCHANGED vars, NEW p \in Procs PROVE Right(p)
  BY <1>2 DEF vars
<1>3. Inv /\ ListInv /\ [Next]_vars => \A p \in Procs : Right(p)
  BY <1>1, <1>2
<1>4. QED
  BY <1>3, Invariance, ListInvariance, PTL DEF Spec, ListingComplete

=============================================================================
