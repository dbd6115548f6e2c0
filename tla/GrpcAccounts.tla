---------------------------- MODULE GrpcAccounts ----------------------------
(***************************************************************************)
(* The methods of pkg/grpc/server.go that change users, keys, tokens,      *)
(* repositories, collaborators and settings.  The server is a management   *)
(* plane: it checks nobody's access, and no user is in the context.        *)
(*                                                                         *)
(* Methods that make several changes make them in transactions of their    *)
(* own, and stop at the first that fails.  Optional fields that are not    *)
(* set skip their change.  A panic in a method ends the process: nothing   *)
(* recovers it.                                                            *)
(***************************************************************************)
EXTENDS Requests

\* One transaction and the method returns.
Method(p, d) ==
    /\ At(p, "idle") /\ requests < MaxRequests[scene]
    /\ requests' = requests + 1
    /\ CommitThen(p, d, Idle)
    /\ UNCHANGED spoiled

\* The transaction is made and another change follows.
MethodGoesOn(p, d, place, n) ==
    /\ At(p, "idle") /\ requests < MaxRequests[scene]
    /\ requests' = requests + 1
    /\ CommitThen(p, d, IF d = None THEN Idle
                        ELSE [Idle EXCEPT !.pc = place, !.name = n])
    /\ UNCHANGED spoiled

\* The goroutine panics and every request ends with the process; d is what
\* the transactions before it left.
ProcessDies(d) ==
    /\ db' = IF d = None THEN db ELSE d
    /\ up' = FALSE
    /\ call' = [q \in Procs |-> Idle]
    /\ UNCHANGED <<subjects, scene>>
Restart == /\ ~up /\ up' = TRUE
           /\ UNCHANGED <<db, spoiled, subjects, call, requests, scene>>

\* backend.User for a method that acts for the user it finds.
FindUser(p, n) ==
    /\ Starts(p, IF User(db, n) = None THEN Idle
                 ELSE [Idle EXCEPT !.pc = "grpcUser", !.who = User(db, n),
                                   !.cred = User(db, n).id])

-----------------------------------------------------------------------------
(* Users                                                                   *)

GrpcCreateUser(p, n, admin, k) ==
    /\ db.last.user < MaxUserId
    /\ MethodGoesOn(p, CreateUser(db, n, admin, {k} \ {None}), "grpcPassword", n)
GrpcSetPassword(p) ==
    At(p, "grpcPassword") /\ Commit(p, SetPassword(db, call[p].name))
GrpcNoPassword(p) == At(p, "grpcPassword") /\ Ends(p)

GrpcDeleteUser(p, n) ==
    /\ At(p, "idle") /\ requests < MaxRequests[scene]
    /\ requests' = requests + 1
    /\ IF Repositories(db, FindUserByUsername(db, n)) # {}
       THEN ProcessDies(None)     \* the event of the first repository
       ELSE CommitThen(p, DeleteUser(db, n), Idle)
    /\ UNCHANGED spoiled

\* UpdateUser: the name, then the admin flag by the new name, then the
\* password.
GrpcUpdateName(p, n, new) ==
    MethodGoesOn(p, SetUsername(db, n, new), "grpcAdmin", new)
GrpcUpdateAdmin(p, b) ==
    LET d == SetAdmin(db, call[p].name, b) IN
    /\ At(p, "grpcAdmin")
    /\ CommitThen(p, d, [call[p] EXCEPT !.pc = "grpcPassword"])
    /\ UNCHANGED <<spoiled, requests>>

GrpcAddPublicKey(p, n, k) == Method(p, AddPublicKey(db, n, k))
GrpcRemovePublicKey(p, n, k) == Method(p, RemovePublicKey(db, n, k))

GrpcCreateToken(p) ==
    /\ At(p, "grpcUser") /\ db.last.token < MaxTokenId
    /\ Commit(p, CreateAccessToken(db, call[p].who.id))
GrpcDeleteToken(p, t) ==
    At(p, "grpcUser") /\ Commit(p, DeleteAccessToken(db, call[p].who.id, t))

GrpcUpdateSettings(p, b) ==
    /\ At(p, "idle") /\ requests < MaxRequests[scene]
    /\ requests' = requests + 1
    /\ CommitThen(p, SetAllowKeyless(db, b), [Idle EXCEPT !.pc = "grpcAnon"])
    /\ UNCHANGED spoiled
GrpcUpdateAnon(p, level) ==
    At(p, "grpcAnon") /\ Commit(p, SetAnonAccess(db, level))

-----------------------------------------------------------------------------
(* Repositories                                                            *)

GrpcCreateRepository(p, n, private) ==
    /\ At(p, "grpcUser") /\ db.last.repo < MaxRepoId
    /\ Commit(p, CreateRepository(db, n, call[p].who.id, private))

\* The event of the deletion is made first: an existing repository is not
\* deleted and the process is gone.
GrpcDeleteRepository(p, n) ==
    /\ At(p, "idle") /\ requests < MaxRequests[scene]
    /\ requests' = requests + 1
    /\ GetRepoByName(db, n) # 0
    /\ ProcessDies(None)
    /\ UNCHANGED spoiled

\* The event of a rename is made after it is committed.
GrpcRenameRepository(p, n, new) ==
    LET d == RenameRepository(db, n, new) IN
    /\ At(p, "idle") /\ requests < MaxRequests[scene]
    /\ requests' = requests + 1
    /\ IF d = None \/ n = new THEN CommitThen(p, d, Idle) ELSE ProcessDies(d)
    /\ UNCHANGED spoiled

\* UpdateRepository; the description before it, the hidden flag and the
\* project name after it are not in the tables of this model.  SetPrivate
\* makes its event when the flag is what it was just set to.
GrpcUpdateRepository(p, n, b) ==
    LET d == SetPrivate(db, n, b) IN
    /\ At(p, "idle") /\ requests < MaxRequests[scene]
    /\ requests' = requests + 1
    /\ IF d = None THEN CommitThen(p, d, Idle) ELSE ProcessDies(d)
    /\ UNCHANGED spoiled

\* AddCollaborator returns before the event when there is no sender.
GrpcAddCollaborator(p, n, username, level) ==
    Method(p, AddCollaborator(db, n, username, level))
GrpcRemoveCollaborator(p, n, username) ==
    /\ At(p, "idle") /\ requests < MaxRequests[scene]
    /\ requests' = requests + 1
    /\ GetRepoByName(db, n) # 0
    /\ ProcessDies(None)
    /\ UNCHANGED spoiled
=============================================================================
