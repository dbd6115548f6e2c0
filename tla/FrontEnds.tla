------------------------------ MODULE FrontEnds ------------------------------
(***************************************************************************)
(* The front ends together: SSH commands, HTTP requests, LFS locks and     *)
(* gRPC methods served at once over one database.  A behaviour plays in    *)
(* one scene, chosen at the start: the tables it begins with and the kind  *)
(* of requests that come.                                                  *)
(***************************************************************************)
EXTENDS SshCommands, GrpcAccounts, LfsLocks

CONSTANT Start   \* [Scenes -> the databases a scene may start with]

ASSUME FrontEndsAssumption ==
    \A s \in Scenes : \A d \in Start[s] : d \in Database /\ Consistent(d)

Init ==
    /\ scene \in Scenes
    /\ db \in Start[scene]
    /\ spoiled = {}
    /\ subjects = {}
    /\ up = TRUE
    /\ call = [p \in Procs |-> Idle]
    /\ requests = 0

\* Users, their keys, tokens and names.
AccountStep(p) ==
    \/ \E k \in Keys : Login(p, k)
    \/ \E n \in UserNames : checkIfAdmin(p, n)
    \/ \E n \in UserNames, b \in BOOLEAN, k \in Keys \cup {None} :
          UserCreate(p, n, b, k) \/ GrpcCreateUser(p, n, b, k)
    \/ \E n \in UserNames, k \in Keys :
          \/ UserAddPubkey(p, n, k) \/ UserRemovePubkey(p, n, k)
          \/ GrpcAddPublicKey(p, n, k) \/ GrpcRemovePublicKey(p, n, k)
    \/ \E n \in UserNames, b \in BOOLEAN : UserSetAdmin(p, n, b)
    \/ \E n, new \in UserNames :
          UserSetUsername(p, n, new) \/ GrpcUpdateName(p, n, new)
    \/ \E n \in UserNames : UserDelete(p, n) \/ GrpcDeleteUser(p, n)
    \/ TokenCreate(p) \/ GrpcCreateToken(p)
    \/ \E t \in TokenIds : TokenDelete(p, t) \/ GrpcDeleteToken(p, t)
    \/ Jwt(p) \/ ByMyKey(p, "myKeys")
    \/ \E k \in Keys : PubkeyAdd(p, k) \/ PubkeyRemove(p, k)
    \/ \E new \in UserNames : SetMyUsername(p, new)
    \/ \E b \in BOOLEAN : GrpcUpdateAdmin(p, b)
    \/ GrpcSetPassword(p) \/ GrpcNoPassword(p)
    \/ UserInfo(p) \/ UserList(p) \/ TokenList(p) \/ PubkeyList(p) \/ InfoCommand(p)
    \/ \E n \in UserNames : FindUser(p, n)
    \/ \E n \in RepoNames, c \in Credentials : withAccess(p, n, c, "files", None)
    \/ HttpServes(p)

\* Repositories, collaborators, settings.
RepositoryStep(p) ==
    \/ \E k \in Keys \cup {None} : Login(p, k)
    \/ \E n \in RepoNames :
          \/ checkIfReadable(p, n) \/ checkIfCollab(p, n)
          \/ checkIfReadableAndCollab(p, n) \/ checkIfAdmin(p, n)
          \/ SessionHandler(p, n) \/ RepoList(p, n)
    \/ SetterCheck(p)
    \/ \E b \in BOOLEAN : \/ RepoCreate(p, b) \/ RepoPrivate(p, b)
                          \/ SettingsAllowKeyless(p, b) \/ GrpcUpdateSettings(p, b)
    \/ \E l \in Levels : SettingsAnonAccess(p, l) \/ GrpcUpdateAnon(p, l)
    \/ RepoDelete(p) \/ RepoShow(p) \/ RepoInfo(p) \/ RepoMirror(p) \/ CollabList(p)
    \/ RepoHidden(p) \/ RepoDescription(p) \/ RepoProjectName(p)
    \/ \E new \in RepoNames : RepoRename(p, new)
    \/ \E n \in UserNames, l \in {ReadOnly, ReadWrite} : CollabAdd(p, n, l)
    \/ \E n \in UserNames : CollabRemove(p, n) \/ FindUser(p, n)
    \/ \E n \in RepoNames, b \in BOOLEAN :
          GrpcCreateRepository(p, n, b) \/ GrpcUpdateRepository(p, n, b)
    \/ \E n \in RepoNames : GrpcDeleteRepository(p, n)
    \/ \E n, new \in RepoNames : GrpcRenameRepository(p, n, new)
    \/ \E n \in RepoNames, u \in UserNames :
          \/ \E l \in {ReadOnly, ReadWrite} : GrpcAddCollaborator(p, n, u, l)
          \/ GrpcRemoveCollaborator(p, n, u)
    \/ \E n \in RepoNames, route \in Services :
          withAccess(p, n, [kind |-> "anonymous"], route, None)
    \/ HttpCreates(p) \/ HttpServes(p)

\* Locks, and what may happen to their users and repositories meanwhile.
LockStep(p) ==
    \/ \E k \in Keys : Login(p, k)
    \/ \E n \in RepoNames :
          LFSTransfer(p, n) \/ checkIfReadableAndCollab(p, n)
    \/ \E n \in RepoNames, t \in TokenIds, route \in Routes,
          form \in Services \cup {None} :
          withAccess(p, n, [kind |-> "token", token |-> t], route, form)
    \/ HttpCreates(p) \/ HttpServes(p)
    \/ \E path \in Paths : LocksCreate(p, path) \/ LockCreate(p, path)
    \/ \E l \in LockIds : \/ \E force \in BOOLEAN : LocksDelete(p, l, force)
                          \/ LockFromID(p, l)
    \/ LocksDeleted(p) \/ LockUnlock(p)
    \/ LocksGet(p) \/ LocksVerify(p) \/ LockRange(p) \/ FromPath(p)
    \/ RepoDelete(p)
    \/ \E n \in UserNames : GrpcDeleteUser(p, n)

Next ==
    \/ \E p \in Procs :
          \/ scene = "accounts" /\ AccountStep(p)
          \/ scene = "repositories" /\ RepositoryStep(p)
          \/ scene = "locks" /\ LockStep(p)
    \/ Restart
    \/ scene = "accounts" /\ \E t \in TokenIds : TokenExpires(t)

Spec == Init /\ [][Next]_vars

-----------------------------------------------------------------------------
(* Properties                                                              *)

CallPC == {"idle", "session", "readable", "collab", "writable", "setter",
           "admin", "myKeys", "httpRead", "httpWrite", "httpPush", "httpCreate",
           "httpCreateFirst", "unlock", "lfs", "lfsUnlock", "grpcUser", "grpcPassword", "grpcAdmin",
           "grpcAnon"}
Listing == [page : 1..(MaxLockId + 1), seen : SUBSET LockIds,
            first : SUBSET LockIds, base : 0..MaxLockId,
            order : Orders \cup {None}]
Call == [pc : CallPC, key : Keys \cup {None}, who : Who \cup {None},
         cred : 0..MaxUserId, repo : Context \cup {None},
         name : UserNames \cup RepoNames \cup {None},
         form : Services \cup {None}, lock : 0..MaxLockId,
         list : Listing \cup {None}, overtaken : BOOLEAN]

\* The variables have the types their comments give.
TypeOK ==
    /\ db \in Database
    /\ spoiled \subseteq RepoIds
    /\ subjects \subseteq [name : UserNames, id : UserIds]
    /\ up \in BOOLEAN
    /\ call \in [Procs -> Call]
    /\ requests \in 0..MaxRequests[scene]
    /\ scene \in Scenes

\* Whatever is created, renamed and deleted by whom, with a user or a
\* repository that is gone in the hands of a request: every row refers to
\* rows that are there, no two rows share a name, and no id is used that was
\* not handed out.
RowsReferToRows == Consistent(db)

\* Why somebody (0 is nobody) may do what on the repository called n of the
\* database d, each reason on its own: the levels it gives.
Reasons(d, i, n) ==
    LET r == GetRepoByName(d, n)
        collab == IF r # 0 /\ i # 0 THEN d.collab[r][i] ELSE None IN
    UNION {
        IF IsUser(d, i) /\ d.user[i].admin THEN {Admin} ELSE {},
        IF r # 0 /\ i # 0 /\ d.repo[r].user = i THEN {Admin} ELSE {},
        IF collab # None THEN {collab, d.anon} ELSE {},
        IF r # 0 /\ ~d.repo[r].private /\ collab = None
            THEN {IF i = 0 THEN d.anon ELSE ReadOnly} ELSE {},
        IF r = 0 THEN {d.anon} \cup (IF i = 0 THEN {} ELSE {ReadWrite}) ELSE {}}

AtLocks == {"httpWrite", "unlock", "lfs", "lfsUnlock"}
ForRepository == {"readable", "collab", "writable", "setter", "httpRead",
                  "httpPush", "httpCreate", "httpCreateFirst"} \cup AtLocks
\* The repositories a step changes, or their collaborators or locks.
Touched ==
    {r \in RepoIds : \/ db.repo[r] # db'.repo[r] \/ db.collab[r] # db'.collab[r]
                    \/ LocksOf(db, r) # LocksOf(db', r)}

\* Request p, let in for a repository, goes on or ends.
Acts(p) == up /\ up' /\ call[p].pc \in ForRepository /\ call'[p].pc # call[p].pc

\* A command, a push or a lock request had a reason for what it does at a
\* repository, unless another request has changed the tables since it came in:
\* for writing when it is a push or changes something, else for reading.  A
\* lock request whose form names the service of a fetch is let in for reading,
\* and may change the locks all the same.  This is about the three places that
\* check on their own: PersistentPreRunE, gitRunE and withAccess.
Authorised ==
    [][\A p \in Procs :
         LET c == call[p]
             i == IF c.who = None THEN 0 ELSE c.who.id
             need == IF c.pc = "httpPush" \/ (db' # db /\ c.form # "git-upload-pack")
                     THEN ReadWrite ELSE ReadOnly IN
         Acts(p) /\ ~c.overtaken
         => \/ c.key \in AdminKeys /\ db' = db
            \/ \E l \in Reasons(db, i, c.name) : l >= need]_vars

\* What such a request changes is the repository that has the name it was let
\* in for, though another request may have renamed or deleted the one that was
\* checked; or, for locks, the very repository that was checked.
OwnRepository ==
    [][\A p \in Procs :
         LET c == call[p] IN
         Acts(p) => \A r \in Touched :
            \/ IsRepo(db, r) /\ db.repo[r].name = c.name
            \/ ~IsRepo(db, r) /\ db'.repo[r].name = c.name
            \/ c.pc \in AtLocks /\ r = c.repo.id]_vars

\* A key, a password, a token or a signed subject lets in the user it was
\* given to and nobody else, though users are renamed, deleted and created
\* again under the same name.
IdentityHolds ==
    \A p \in Procs : call[p].who # None => call[p].who.id = call[p].cred

\* A lock goes only with its user or its repository, by its user's own
\* unlock in that repository, or by an administrator's; and it never changes
\* hands.
LocksEndProperly ==
    [][\A l \in LockIds :
         (db.lock[l] # None /\ db'.lock[l] # db.lock[l])
         => /\ db'.lock[l] = None
            /\ \/ ~IsUser(db', db.lock[l].user)
               \/ ~IsRepo(db', db.lock[l].repo)
               \/ \E p \in Procs :
                     /\ call[p].pc \in {"unlock", "lfsUnlock"}
                     /\ call'[p] = Idle
                     /\ call[p].lock = l
                     /\ call[p].repo.id = db.lock[l].repo
                     /\ \/ call[p].who.id = db.lock[l].user
                        \/ call[p].who.admin]_vars

\* A client that has read the last page has seen every lock that was there
\* when it began and still is, unless a lock was removed meanwhile; and none
\* twice unless one was added.  This is about listings whose pages the database
\* gave in the same order: locks of one second may be ordered anew for every page.
ListingComplete ==
    [][\A p \in Procs :
         LET c == call[p]
             o == c.list.order
             got == GetLFSLocks(db, c.repo.id, c.list.page, o)
             begun(l) == l \in c.list.first \/ l > c.list.base IN
         (/\ c.list # None /\ o # None /\ c.pc \in {"httpWrite", "lfs"}
          /\ call'[p] # c /\ ListPageIn(p, o)) =>
           /\ call'[p] = Idle =>
                 \/ (c.list.first \cap LocksOf(db, c.repo.id))
                        \subseteq c.list.seen \cup got
                 \/ \E l \in 1..db.last.lock : begun(l) /\ db.lock[l] = None
           /\ c.list.seen \cap got = {} \/ db.last.lock > c.list.base]_vars

\* backend/user.go:300 "DeleteUser deletes a user.": when an administrator
\* deletes a user over SSH, the user is gone.
UserDeletionWorks ==
    [][\A p \in Procs, n \in UserNames :
         UserDelete(p, n) /\ ~Nobody(p) => FindUserByUsername(db', n) = 0]_vars

\* grpc/README.md:38 "RenameRepository - Rename a repository": the server
\* that was asked goes on after it.
GrpcSurvives == [][up => up']_vars
=============================================================================
