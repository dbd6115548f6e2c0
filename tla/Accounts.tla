------------------------------ MODULE Accounts ------------------------------
(***************************************************************************)
(* The tables of users, keys, tokens, repositories, collaborators, locks   *)
(* and settings, and what one transaction of pkg/backend over              *)
(* pkg/store/database does to them.  A database d is a record of tables;   *)
(* a transaction is an operator from a database to the one it commits, or  *)
(* to None when it ends in an error and is rolled back.                    *)
(*                                                                         *)
(* The constraints are those of the migrations: ids are never used twice   *)
(* (AUTOINCREMENT), names are UNIQUE, and a row goes with the rows it      *)
(* refers to (ON DELETE CASCADE, foreign keys enforced).                   *)
(***************************************************************************)
EXTENDS Naturals, FiniteSets

CONSTANTS
    UserNames, RepoNames,   \* names, after validation and sanitizing
    Keys,                   \* public keys
    AdminKeys,              \* those of the configuration's initial admins
    Paths,                  \* paths that LFS locks are for
    MaxUserId, MaxTokenId, MaxRepoId, MaxLockId,  \* bounds on the ids
    None                    \* no row, no user, an error

ASSUME AccountsAssumption ==
    /\ MaxUserId \in Nat /\ MaxTokenId \in Nat
    /\ MaxRepoId \in Nat /\ MaxLockId \in Nat
    /\ AdminKeys \subseteq Keys

UserIds == 1..MaxUserId
TokenIds == 1..MaxTokenId
RepoIds == 1..MaxRepoId
LockIds == 1..MaxLockId

\* access.AccessLevel
NoAccess == 0
ReadOnly == 1
ReadWrite == 2
Admin == 3
Levels == 0..3

UserRow == [name : UserNames, admin : BOOLEAN, password : BOOLEAN]
TokenRow == [user : UserIds, expired : BOOLEAN]
RepoRow == [name : RepoNames, user : UserIds, private : BOOLEAN]
LockRow == [repo : RepoIds, user : UserIds, path : Paths]
Database ==
    [user : [UserIds -> UserRow \cup {None}],
     key : [Keys -> 0..MaxUserId],               \* its user; 0 without a row
     token : [TokenIds -> TokenRow \cup {None}],
     repo : [RepoIds -> RepoRow \cup {None}],
     collab : [RepoIds -> [UserIds -> Levels \cup {None}]],
     lock : [LockIds -> LockRow \cup {None}],
     anon : Levels, keyless : BOOLEAN,
     last : [user : 0..MaxUserId, token : 0..MaxTokenId,
             repo : 0..MaxRepoId, lock : 0..MaxLockId]]

\* proto.User and proto.Repository: what a request keeps of a row.
Who == [id : UserIds, name : UserNames, admin : BOOLEAN]
Context == [id : RepoIds, user : UserIds, private : BOOLEAN]

ASSUME NoneAssumption ==
    /\ None \notin Keys /\ None \notin Levels
    /\ None \notin UserRow \cup TokenRow \cup RepoRow \cup LockRow
    /\ None \notin Who \cup Context

-----------------------------------------------------------------------------
(* Queries                                                                 *)

\* The row of table t that is called n, by its id; 0 without one.
Named(t, n) ==
    LET found == {i \in DOMAIN t : t[i] # None /\ t[i].name = n} IN
    IF found = {} THEN 0 ELSE CHOOSE i \in found : TRUE

FindUserByUsername(d, n) == Named(d.user, n)
GetRepoByName(d, n) == Named(d.repo, n)
IsUser(d, i) == i \in UserIds /\ d.user[i] # None
IsRepo(d, i) == i \in RepoIds /\ d.repo[i] # None

\* Every row refers to rows that are there, no two rows share a name, and no
\* id is used that was not handed out.
Consistent(d) ==
    /\ \A k \in Keys : d.key[k] # 0 => IsUser(d, d.key[k])
    /\ \A t \in TokenIds : d.token[t] # None =>
          IsUser(d, d.token[t].user) /\ t <= d.last.token
    /\ \A r \in RepoIds : d.repo[r] # None =>
          IsUser(d, d.repo[r].user) /\ r <= d.last.repo
    /\ \A r \in RepoIds, u \in UserIds :
          d.collab[r][u] # None => IsRepo(d, r) /\ IsUser(d, u)
    /\ \A l \in LockIds : d.lock[l] # None =>
          /\ IsRepo(d, d.lock[l].repo) /\ IsUser(d, d.lock[l].user)
          /\ l <= d.last.lock
    /\ \A i, j \in UserIds : IsUser(d, i) /\ IsUser(d, j) /\ i # j =>
          d.user[i].name # d.user[j].name
    /\ \A i, j \in RepoIds : IsRepo(d, i) /\ IsRepo(d, j) /\ i # j =>
          d.repo[i].name # d.repo[j].name

\* proto.User: what a request knows of its user from then on.
Snapshot(d, i) ==
    IF IsUser(d, i)
    THEN [id |-> i, name |-> d.user[i].name, admin |-> d.user[i].admin]
    ELSE None

User(d, n) == Snapshot(d, FindUserByUsername(d, n))
UserByPublicKey(d, k) == Snapshot(d, d.key[k])
UserByAccessToken(d, t) ==
    IF d.token[t] # None /\ ~d.token[t].expired
    THEN Snapshot(d, d.token[t].user) ELSE None
\* The password is the one set for user i, given with the name n.
UserByPassword(d, n, i) ==
    IF FindUserByUsername(d, n) = i /\ IsUser(d, i) /\ d.user[i].password
    THEN Snapshot(d, i) ELSE None

\* proto.Repository, as a request keeps it in its context.
RepoSnapshot(d, n) ==
    LET r == GetRepoByName(d, n) IN
    IF r = 0 THEN None
    ELSE [id |-> r, user |-> d.repo[r].user, private |-> d.repo[r].private]

\* The join looks users and repositories up by name.
IsCollaborator(d, n, username) ==
    LET u == FindUserByUsername(d, username)
        r == GetRepoByName(d, n) IN
    IF u = 0 \/ r = 0 THEN None ELSE d.collab[r][u]

Higher(a, b) == IF a > b THEN a ELSE b

\* The repository r is the one of the context, or the one called n.
AccessLevelOn(d, r, n, who) ==
    IF who # None /\ who.admin THEN Admin
    ELSE IF r = None THEN IF who = None THEN d.anon ELSE Higher(d.anon, ReadWrite)
    ELSE IF who # None /\ r.user = who.id THEN Admin
    ELSE IF who # None /\ IsCollaborator(d, n, who.name) # None
         THEN Higher(d.anon, IsCollaborator(d, n, who.name))
    ELSE IF r.private THEN NoAccess
    ELSE IF who = None THEN d.anon ELSE ReadOnly
AccessLevelForUser(d, n, who) == AccessLevelOn(d, RepoSnapshot(d, n), n, who)

AccessLevelByPublicKey(d, n, k) ==
    IF k \in AdminKeys THEN Admin
    ELSE LET who == IF k = None THEN None ELSE UserByPublicKey(d, k) IN
         AccessLevelForUser(d, n, IF who = None THEN None ELSE User(d, who.name))

-----------------------------------------------------------------------------
(* Users, keys and tokens                                                  *)

CreateUser(d, n, admin, ks) ==
    LET i == d.last.user + 1 IN
    IF FindUserByUsername(d, n) # 0 \/ \E k \in ks : d.key[k] # 0 THEN None
    ELSE [d EXCEPT
            !.user[i] = [name |-> n, admin |-> admin, password |-> FALSE],
            !.key = [k \in Keys |-> IF k \in ks THEN i ELSE @[k]],
            !.last.user = i]

AddPublicKey(d, n, k) ==
    IF FindUserByUsername(d, n) = 0 \/ d.key[k] # 0 THEN None
    ELSE [d EXCEPT !.key[k] = FindUserByUsername(d, n)]

RemovePublicKey(d, n, k) ==
    IF d.key[k] # 0 /\ d.key[k] = FindUserByUsername(d, n)
    THEN [d EXCEPT !.key[k] = 0] ELSE d

\* An UPDATE that matches no row is no error.
SetUsername(d, n, new) ==
    LET i == FindUserByUsername(d, n) IN
    CASE i = 0 -> d
      [] i # 0 /\ FindUserByUsername(d, new) \notin {0, i} -> None
      [] OTHER -> [d EXCEPT !.user[i].name = new]
SetAdmin(d, n, admin) ==
    LET i == FindUserByUsername(d, n) IN
    IF i = 0 THEN d ELSE [d EXCEPT !.user[i].admin = admin]
SetPassword(d, n) ==
    LET i == FindUserByUsername(d, n) IN
    IF i = 0 THEN d ELSE [d EXCEPT !.user[i].password = TRUE]

\* ON DELETE CASCADE, for a user without repositories.
DeleteUserRowBug(d, i) ==
    [d EXCEPT !.user[i] = None,
              !.key = [k \in Keys |-> IF @[k] = i THEN 0 ELSE @[k]]]
DeleteUserRow(d, i) ==
    [d EXCEPT
       !.user[i] = None,
       !.key = [k \in Keys |-> IF @[k] = i THEN 0 ELSE @[k]],
       !.token = [t \in TokenIds |->
                    IF @[t] # None /\ @[t].user = i THEN None ELSE @[t]],
       !.collab = [r \in RepoIds |-> [@[r] EXCEPT ![i] = None]],
       !.lock = [l \in LockIds |->
                   IF @[l] # None /\ @[l].user = i THEN None ELSE @[l]]]

Repositories(d, i) == {r \in RepoIds : d.repo[r] # None /\ d.repo[r].user = i}

\* The transaction that deletes the row keeps the write lock while
\* DeleteRepository opens one of its own for the user's first repository,
\* waits for the lock until the busy timeout and fails.
DeleteUser(d, n) ==
    LET i == FindUserByUsername(d, n) IN
    CASE i = 0 -> None
      [] i # 0 /\ Repositories(d, i) # {} -> None
      [] OTHER -> DeleteUserRow(d, i)

CreateAccessToken(d, i) ==
    LET t == d.last.token + 1 IN
    IF ~IsUser(d, i) THEN None
    ELSE [d EXCEPT !.token[t] = [user |-> i, expired |-> FALSE],
                   !.last.token = t]
DeleteAccessToken(d, i, t) ==
    CASE d.token[t] = None -> None
      [] d.token[t] # None /\ d.token[t].user = i -> [d EXCEPT !.token[t] = None]
      [] OTHER -> d

-----------------------------------------------------------------------------
(* Repositories, collaborators, settings, locks                            *)

CreateRepository(d, n, i, private) ==
    LET r == d.last.repo + 1 IN
    IF ~IsUser(d, i) \/ GetRepoByName(d, n) # 0 THEN None
    ELSE [d EXCEPT !.repo[r] = [name |-> n, user |-> i, private |-> private],
                   !.last.repo = r]

\* ON DELETE CASCADE.
DeleteRepository(d, n) ==
    LET r == GetRepoByName(d, n) IN
    IF r = 0 THEN None
    ELSE [d EXCEPT
            !.repo[r] = None,
            !.collab[r] = [u \in UserIds |-> None],
            !.lock = [l \in LockIds |->
                        IF @[l] # None /\ @[l].repo = r THEN None ELSE @[l]]]

RenameRepository(d, n, new) ==
    LET r == GetRepoByName(d, n) IN
    CASE new = n -> d
      [] new # n /\ (r = 0 \/ GetRepoByName(d, new) # 0) -> None
      [] OTHER -> [d EXCEPT !.repo[r].name = new]

SetPrivate(d, n, private) ==
    LET r == GetRepoByName(d, n) IN
    IF r = 0 THEN None ELSE [d EXCEPT !.repo[r].private = private]

AddCollaborator(d, n, username, level) ==
    LET r == GetRepoByName(d, n)
        u == FindUserByUsername(d, username) IN
    IF r = 0 \/ u = 0 \/ IsCollaborator(d, n, username) # None THEN None
    ELSE [d EXCEPT !.collab[r][u] = level]

\* The event that is made first needs the row of collabs.
RemoveCollaborator(d, n, username) ==
    LET r == GetRepoByName(d, n)
        u == FindUserByUsername(d, username) IN
    IF r = 0 \/ u = 0 \/ IsCollaborator(d, n, username) = None THEN None
    ELSE [d EXCEPT !.collab[r][u] = None]

SetAnonAccess(d, level) == [d EXCEPT !.anon = level]
SetAllowKeyless(d, allow) == [d EXCEPT !.keyless = allow]

\* UNIQUE (repo_id, path), and both foreign keys.
CreateLFSLockForUser(d, r, u, path) ==
    LET l == d.last.lock + 1 IN
    IF ~IsRepo(d, r) \/ ~IsUser(d, u) \/
       \E k \in LockIds : d.lock[k] # None /\ d.lock[k].repo = r
                                           /\ d.lock[k].path = path
    THEN None
    ELSE [d EXCEPT !.lock[l] = [repo |-> r, user |-> u, path |-> path],
                   !.last.lock = l]

DeleteLFSLockBug(d, r, l) ==
    IF d.lock[l] # None THEN [d EXCEPT !.lock[l] = None] ELSE d
DeleteLFSLock(d, r, l) ==
    IF d.lock[l] # None /\ d.lock[l].repo = r
    THEN [d EXCEPT !.lock[l] = None] ELSE d
DeleteLFSLockForUserByID(d, r, u, l) ==
    IF d.lock[l] # None /\ d.lock[l].user = u
    THEN DeleteLFSLock(d, r, l) ELSE d
=============================================================================
