------------------------------ MODULE Requests ------------------------------
(***************************************************************************)
(* Requests at the front ends, over the database of Accounts: how an SSH   *)
(* session (pkg/ssh) and an HTTP request (pkg/web) learn who their user is *)
(* and what he may do, before a handler of SshCommands, LfsLocks or        *)
(* GrpcAccounts acts for him.                                              *)
(*                                                                         *)
(* A session reads its user once; a check reads the tables when the        *)
(* command starts; the operation comes after.  What other requests commit  *)
(* in between is not noticed.  Reads made one after the other without a    *)
(* change between them are one step.                                       *)
(***************************************************************************)
EXTENDS Accounts

CONSTANTS
    Procs,        \* requests that are served at once
    Scenes,       \* which tables the server starts with, and what is asked
    MaxRequests   \* [Scenes -> bound on the requests of a behaviour]

ASSUME RequestsAssumption == MaxRequests \in [Scenes -> Nat]

VARIABLES
    db,        \* the database as committed
    spoiled,   \* repositories whose LFS object files a failed deletion removed
    subjects,  \* subjects of the JSON web tokens that were signed
    up,        \* the server's process runs
    call,      \* [Procs -> what the request in hand knows]
    requests,  \* requests so far
    scene      \* chosen at the start

vars == <<db, spoiled, subjects, up, call, requests, scene>>

Idle ==
    [pc |-> "idle",
     key |-> None,        \* the public key of an SSH session
     who |-> None,        \* the user as read when the request came in
     cred |-> 0,          \* history: the user the credential was given to
     repo |-> None,       \* the repository of an HTTP request's context
     name |-> None,       \* the name the check was made for
     form |-> None,       \* the service the form of a lock request names
     lock |-> 0,          \* the lock an unlock has read
     list |-> None,       \* the pages of locks read so far
     overtaken |-> FALSE] \* history: another request committed meanwhile

At(p, place) == up /\ call[p].pc = place
Active(p) == call[p] # Idle

Step(p, c) ==
    /\ call' = [call EXCEPT ![p] = c]
    /\ UNCHANGED <<db, spoiled, subjects, up, scene>>
Ends(p) == Step(p, Idle) /\ UNCHANGED requests

Starts(p, c) ==
    /\ At(p, "idle")
    /\ requests < MaxRequests[scene]
    /\ requests' = requests + 1
    /\ Step(p, c)

\* A transaction of request p leaves d, or fails when d is None, and the
\* request goes on as c.
CommitThen(p, d, c) ==
    /\ db' = IF d = None THEN db ELSE d
    /\ call' = [q \in Procs |->
                  IF q = p THEN c
                  ELSE IF Active(q)
                  THEN [call[q] EXCEPT !.overtaken = @ \/ db' # db]
                  ELSE Idle]
    /\ UNCHANGED <<subjects, up, scene>>
Commit(p, d) == CommitThen(p, d, Idle) /\ UNCHANGED <<spoiled, requests>>

\* A handler of the SSH or HTTP server panics: the middleware recovers, the
\* request is over.
Panics(p) == Ends(p)

-----------------------------------------------------------------------------
(* SSH                                                                     *)

\* Any key is accepted; a client without one, if the settings say so.
PublicKeyHandler(k) == k # None
KeyboardInteractiveHandler(k) == k = None /\ db.keyless

\* AuthenticationMiddleware.
Login(p, k) ==
    /\ PublicKeyHandler(k) \/ KeyboardInteractiveHandler(k)
    /\ Starts(p, [Idle EXCEPT
          !.pc = "session", !.key = k,
          !.who = IF k = None THEN None ELSE UserByPublicKey(db, k),
          !.cred = IF k = None THEN 0 ELSE db.key[k]])

LevelOf(p, n) == AccessLevelForUser(db, n, call[p].who)

\* PersistentPreRunE: the command goes on, or is refused.
Checked(p, n, allowed, place) ==
    /\ At(p, "session")
    /\ Step(p, IF allowed THEN [call[p] EXCEPT !.pc = place, !.name = n]
               ELSE Idle)
    /\ UNCHANGED requests

checkIfReadable(p, n) == Checked(p, n, LevelOf(p, n) >= ReadOnly, "readable")
checkIfCollab(p, n) == Checked(p, n, LevelOf(p, n) >= ReadWrite, "collab")
checkIfReadableAndCollab(p, n) ==
    Checked(p, n, /\ LevelOf(p, n) >= ReadOnly
                  /\ LevelOf(p, n) >= ReadWrite, "writable")
\* n is the first argument, whatever the command takes it for.
checkIfAdmin(p, n) ==
    Checked(p, n, \/ call[p].key \in AdminKeys
                  \/ /\ call[p].who # None
                     /\ call[p].who.admin \/ LevelOf(p, n) >= Admin, "admin")
\* A setter of a repository checks again before it changes anything.
SetterCheck(p) ==
    /\ At(p, "readable")
    /\ Step(p, IF LevelOf(p, call[p].name) >= ReadWrite
               THEN [call[p] EXCEPT !.pc = "setter"] ELSE Idle)
    /\ UNCHANGED requests

\* The user interface asks once, by key, when the session starts.
SessionHandler(p, n) ==
    Checked(p, n, AccessLevelByPublicKey(db, n, call[p].key) >= ReadOnly,
            "readable")

-----------------------------------------------------------------------------
(* HTTP                                                                    *)

\* What a client may present, and the user it was given to.
Credentials ==
    {[kind |-> "anonymous"]}
    \cup [kind : {"token", "basic"}, token : TokenIds]
    \cup [kind : {"password"}, name : UserNames, id : UserIds]
    \cup {[kind |-> "bearer", subject |-> s] : s \in subjects}

IssuedTo(c) ==
    CASE c.kind = "anonymous" -> 0
      [] c.kind \in {"token", "basic"} ->
             IF db.token[c.token] = None THEN 0 ELSE db.token[c.token].user
      [] c.kind = "password" -> c.id
      [] c.kind = "bearer" -> c.subject.id

\* The subject "name#id" must be the user of that name as he is now.
BearerBug(d, s) == User(d, s.name)
Bearer(d, s) ==
    LET who == User(d, s.name) IN
    IF who # None /\ who.id = s.id THEN who ELSE None

authenticate(c) ==
    CASE c.kind = "anonymous" -> None
      [] c.kind \in {"token", "basic"} -> UserByAccessToken(db, c.token)
      [] c.kind = "password" -> UserByPassword(db, c.name, c.id)
      [] c.kind = "bearer" -> Bearer(db, c.subject)

\* ErrInvalidToken and ErrInvalidPassword, which end in 403; every other
\* failure makes the request anonymous.
BadCredentials(c) ==
    c.kind \in {"basic", "password"} /\ authenticate(c) = None

\* What a request is for: a service of git (git-upload-archive is taken for
\* git-upload-pack), another file or object that is read, or the locks.
Services == {"git-upload-pack", "git-receive-pack"}
Routes == Services \cup {"files", "locks"}

\* A route that is no service takes the one that the form names, as info/refs
\* should; a lock request is asked for write access when its form names none.
ServiceOf(route, form) == IF route \in Services THEN route ELSE form
NeedBug(route, form) ==
    IF ServiceOf(route, form) = "git-receive-pack" THEN ReadWrite ELSE ReadOnly
Need(route, form) ==
    IF ServiceOf(route, form) = "git-receive-pack" \/ (route = "locks" /\ form = None)
    THEN ReadWrite ELSE ReadOnly

\* withAccess.  Without the repository only receive-pack goes on: it makes it.
\* (What go-get lets through besides finds nothing to do.)
withAccess(p, n, c, route, form) ==
    LET place == CASE route = "locks" -> "httpWrite"
                   [] route = "git-receive-pack" -> "httpPush"
                   [] OTHER -> "httpRead"
        repo == RepoSnapshot(db, n)
        \* A bearer token is looked at only if there is a repository.
        who == IF c.kind = "bearer" /\ repo = None THEN None
               ELSE authenticate(c)
        level == AccessLevelOn(db, repo, n, who)
        context == [Idle EXCEPT !.who = who, !.cred = IssuedTo(c),
                                !.repo = repo, !.name = n,
                                !.form = IF route = "locks" THEN form ELSE None] IN
    /\ who # None \/ db.keyless
    /\ level >= Need(route, form)
    /\ \/ /\ repo # None /\ ~BadCredentials(c)
          /\ Starts(p, [context EXCEPT !.pc = place])
       \/ /\ repo = None /\ ServiceOf(route, form) = "git-receive-pack"
          /\ Starts(p, [context EXCEPT !.pc = IF route = "locks" THEN "httpCreateFirst"
                                             ELSE "httpCreate"])

\* The repository is created, and a lock request goes on in it; an anonymous
\* request has no owner to create it for.
HttpCreates(p) ==
    LET c == call[p]
        d == IF c.who = None THEN None
             ELSE CreateRepository(db, c.name, c.who.id, FALSE) IN
    /\ At(p, "httpCreate") \/ At(p, "httpCreateFirst")
    /\ db.last.repo < MaxRepoId
    /\ CommitThen(p, d, IF d = None \/ c.pc = "httpCreate" THEN Idle
                        ELSE [c EXCEPT !.pc = "httpWrite",
                                       !.repo = RepoSnapshot(d, c.name)])
    /\ UNCHANGED <<spoiled, requests>>

\* Anything a reader is served: upload-pack, packs, objects, LFS downloads; or
\* a push is taken, which changes no row.
HttpServes(p) == (At(p, "httpRead") \/ At(p, "httpPush")) /\ Ends(p)

\* Time passes.
TokenExpires(t) ==
    /\ db.token[t] # None /\ ~db.token[t].expired
    /\ db' = [db EXCEPT !.token[t].expired = TRUE]
    /\ call' = [q \in Procs |-> IF Active(q)
                                THEN [call[q] EXCEPT !.overtaken = TRUE] ELSE Idle]
    /\ UNCHANGED <<spoiled, subjects, up, requests, scene>>
=============================================================================
