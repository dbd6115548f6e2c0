---------------------------- MODULE SshCommands ----------------------------
(***************************************************************************)
(* The commands of pkg/ssh/cmd that touch users, keys, tokens,             *)
(* repositories, collaborators and settings.  The check a command makes in *)
(* PersistentPreRunE is a step of Requests; here is its RunE.  The place a *)
(* request waits at is the check it has passed, so that a command that     *)
(* asks for less than it should can be told.                               *)
(*                                                                         *)
(* Commands that only read end after their check.                          *)
(***************************************************************************)
EXTENDS Requests

Me(p) == call[p].who

\* A webhook event needs a sender: without a user in the session the
\* command panics where it makes the event.
Nobody(p) == Me(p) = None

-----------------------------------------------------------------------------
(* user ..., settings ...: after checkIfAdmin                              *)

UserCreate(p, n, admin, k) ==
    /\ At(p, "admin") /\ db.last.user < MaxUserId
    /\ Commit(p, CreateUser(db, n, admin, {k} \ {None}))
UserAddPubkey(p, n, k) == At(p, "admin") /\ Commit(p, AddPublicKey(db, n, k))
UserRemovePubkey(p, n, k) ==
    At(p, "admin") /\ Commit(p, RemovePublicKey(db, n, k))
UserSetAdmin(p, n, b) == At(p, "admin") /\ Commit(p, SetAdmin(db, n, b))
UserSetUsername(p, n, new) ==
    At(p, "admin") /\ Commit(p, SetUsername(db, n, new))

\* A deletion that fails has removed the LFS files of the repository it
\* began with.
Spoils(d, n) ==
    LET owned == Repositories(d, FindUserByUsername(d, n)) IN
    IF owned = {} THEN spoiled' = spoiled
    ELSE \E r \in owned : spoiled' = spoiled \cup {r}
UserDelete(p, n) ==
    /\ At(p, "admin")
    /\ IF Nobody(p) /\ Repositories(db, FindUserByUsername(db, n)) # {}
       THEN Panics(p)
       ELSE /\ Spoils(db, n)
            /\ CommitThen(p, DeleteUser(db, n), Idle)
            /\ UNCHANGED requests

UserInfo(p) == At(p, "admin") /\ Ends(p)
UserList(p) == At(p, "admin") /\ Ends(p)

SettingsAnonAccess(p, level) ==
    At(p, "admin") /\ Commit(p, SetAnonAccess(db, level))
SettingsAllowKeyless(p, b) ==
    At(p, "admin") /\ Commit(p, SetAllowKeyless(db, b))

-----------------------------------------------------------------------------
(* token ..., jwt, pubkey ..., set-username: for the session's own user    *)

TokenCreate(p) ==
    /\ At(p, "session") /\ ~Nobody(p)
    /\ db.last.token < MaxTokenId
    /\ Commit(p, CreateAccessToken(db, Me(p).id))
TokenDelete(p, t) ==
    /\ At(p, "session") /\ ~Nobody(p)
    /\ Commit(p, DeleteAccessToken(db, Me(p).id, t))

TokenList(p) == At(p, "session") /\ Ends(p)

\* The subject is of the user as the session read it.
Jwt(p) ==
    /\ At(p, "session") /\ ~Nobody(p)
    /\ subjects' = subjects \cup {[name |-> Me(p).name, id |-> Me(p).id]}
    /\ call' = [call EXCEPT ![p] = Idle]
    /\ UNCHANGED <<db, spoiled, up, requests, scene>>

\* The user is looked up again by the session's key, and acted for by name.
ByMyKey(p, place) ==
    /\ At(p, "session") /\ call[p].key # None
    /\ LET who == UserByPublicKey(db, call[p].key) IN
       Step(p, IF who = None THEN Idle
               ELSE [call[p] EXCEPT !.pc = place, !.name = who.name])
    /\ UNCHANGED requests
PubkeyAdd(p, k) ==
    At(p, "myKeys") /\ Commit(p, AddPublicKey(db, call[p].name, k))
PubkeyRemove(p, k) ==
    At(p, "myKeys") /\ Commit(p, RemovePublicKey(db, call[p].name, k))
PubkeyList(p) == At(p, "myKeys") /\ Ends(p)
InfoCommand(p) == At(p, "myKeys") /\ Ends(p)
SetMyUsername(p, new) ==
    At(p, "myKeys") /\ Commit(p, SetUsername(db, call[p].name, new))

-----------------------------------------------------------------------------
(* repo ...                                                                *)

RepoCreate(p, private) ==
    /\ At(p, "collab") /\ db.last.repo < MaxRepoId
    /\ Commit(p, IF Nobody(p) THEN None
                 ELSE CreateRepository(db, call[p].name, Me(p).id, private))

\* The event is made before the transaction ...
RepoDelete(p) ==
    /\ At(p, "writable")
    /\ IF Nobody(p) THEN Panics(p)
       ELSE Commit(p, DeleteRepository(db, call[p].name))
\* ... and here after it.
RepoRename(p, new) ==
    At(p, "writable") /\ Commit(p, RenameRepository(db, call[p].name, new))
\* Without a value it shows the one there is.
RepoPrivate(p, b) ==
    \/ At(p, "readable") /\ Ends(p)
    \/ At(p, "setter") /\ Commit(p, SetPrivate(db, call[p].name, b))

\* tree, blob, commit, branch list, tag list and the pages of the user
\* interface.
RepoShow(p) == At(p, "readable") /\ Ends(p)
RepoInfo(p) == At(p, "readable") /\ Ends(p)
RepoMirror(p) == At(p, "readable") /\ Ends(p)

\* What these set is in no table of this model.
Attribute(p) == (At(p, "readable") \/ At(p, "setter")) /\ Ends(p)
RepoHidden(p) == Attribute(p)
RepoDescription(p) == Attribute(p)
RepoProjectName(p) == Attribute(p)

\* list asks by key, for one repository after the other.
RepoList(p, n) ==
    Checked(p, n, /\ GetRepoByName(db, n) # 0
                  /\ AccessLevelByPublicKey(db, n, call[p].key) >= ReadOnly,
            "readable")

CollabAdd(p, n, level) ==
    At(p, "writable") /\ Commit(p, AddCollaborator(db, call[p].name, n, level))
CollabRemove(p, n) ==
    /\ At(p, "writable")
    /\ IF Nobody(p) THEN Panics(p)
       ELSE Commit(p, RemoveCollaborator(db, call[p].name, n))
CollabList(p) == At(p, "writable") /\ Ends(p)
=============================================================================
