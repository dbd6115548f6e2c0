------------------------------ MODULE LfsLocks ------------------------------
(***************************************************************************)
(* Git LFS locks: the handlers of pkg/web/git_lfs.go and the lock backend  *)
(* of git-lfs-transfer in pkg/git/lfs.go.  Over HTTP a lock is read, its   *)
(* owner compared and the row deleted in statements of their own; over SSH *)
(* a session reads its own lock and deletes by id and owner.               *)
(*                                                                         *)
(* A client lists locks page after page, by number.  Every page is a       *)
(* request of its own over HTTP, with the checks of withAccess before it;  *)
(* here only the pages are steps.                                          *)
(***************************************************************************)
EXTENDS Requests

CONSTANTS
    PageLimit,   \* locks on a page; 100 at most in the code
    Second       \* the second in which each lock is made, its updated_at

ASSUME LfsLocksAssumption ==
    /\ PageLimit \in Nat \ {0}
    /\ Second \in [LockIds -> Nat]
    /\ \A l, m \in LockIds : l <= m => Second[l] <= Second[m]

LocksOf(d, r) == {l \in LockIds : d.lock[l] # None /\ d.lock[l].repo = r}

\* The orders, from the last to the first, that ORDER BY updated_at DESC leaves
\* the database: of two locks made in the same second either may be first, and
\* another query may have it the other way.
Orders ==
    {o \in [LockIds -> LockIds] :
        \A l, m \in LockIds : /\ o[l] = o[m] => l = m
                              /\ Second[l] < Second[m] => o[l] < o[m]}

\* LIMIT ... OFFSET ... of the locks in order o.
GetLFSLocksBug(d, r, page, o) ==
    LET before(l) == {m \in LocksOf(d, r) : o[m] > o[l]} IN
    {l \in LocksOf(d, r) :
        /\ page * PageLimit <= Cardinality(before(l))
        /\ Cardinality(before(l)) < (page + 1) * PageLimit}
GetLFSLocks(d, r, page, o) ==
    LET before(l) == {m \in LocksOf(d, r) : o[m] > o[l]} IN
    {l \in LocksOf(d, r) :
        /\ (page - 1) * PageLimit <= Cardinality(before(l))
        /\ Cardinality(before(l)) < page * PageLimit}

-----------------------------------------------------------------------------
(* HTTP: after withAccess for the locks                                    *)

LocksCreate(p, path) ==
    /\ At(p, "httpWrite") /\ db.last.lock < MaxLockId
    /\ IF call[p].who = None THEN Ends(p)
       ELSE Commit(p, CreateLFSLockForUser(db, call[p].repo.id,
                                           call[p].who.id, path))

\* The lock is read by id alone; force is for administrators.
LocksDeleteBug(p, l, force) ==
    LET who == call[p].who
        mine == force \/ db.lock[l].user = who.id IN
    /\ At(p, "httpWrite")
    /\ Step(p, IF db.lock[l] # None /\ who # None /\ mine
               THEN [call[p] EXCEPT !.pc = "unlock", !.lock = l] ELSE Idle)
    /\ UNCHANGED requests
LocksDelete(p, l, force) ==
    LET who == call[p].who
        mine == IF force THEN who.admin ELSE db.lock[l].user = who.id IN
    /\ At(p, "httpWrite")
    /\ Step(p, IF db.lock[l] # None /\ who # None /\ mine
               THEN [call[p] EXCEPT !.pc = "unlock", !.lock = l] ELSE Idle)
    /\ UNCHANGED requests
LocksDeleted(p) ==
    /\ At(p, "unlock")
    /\ Commit(p, DeleteLFSLock(db, call[p].repo.id, call[p].lock))

-----------------------------------------------------------------------------
(* SSH: git-lfs-transfer, for upload                                       *)

LFSTransfer(p, n) ==
    /\ At(p, "session")
    /\ LET repo == RepoSnapshot(db, n) IN
       Step(p, IF LevelOf(p, n) >= ReadWrite /\ repo # None /\ call[p].who # None
               THEN [call[p] EXCEPT !.pc = "lfs", !.repo = repo, !.name = n]
               ELSE Idle)
    /\ UNCHANGED requests

LockCreate(p, path) ==
    /\ At(p, "lfs") /\ db.last.lock < MaxLockId
    /\ Commit(p, CreateLFSLockForUser(db, call[p].repo.id, call[p].who.id, path))

\* FromID finds only a lock of the session's user in its repository.
LockFromID(p, l) ==
    /\ At(p, "lfs")
    /\ Step(p, IF /\ db.lock[l] # None
                  /\ db.lock[l].user = call[p].who.id
                  /\ db.lock[l].repo = call[p].repo.id
               THEN [call[p] EXCEPT !.pc = "lfsUnlock", !.lock = l] ELSE Idle)
    /\ UNCHANGED requests
LockUnlock(p) ==
    /\ At(p, "lfsUnlock")
    /\ Commit(p, DeleteLFSLockForUserByID(db, call[p].repo.id, call[p].who.id,
                                          call[p].lock))

-----------------------------------------------------------------------------
(* Listing                                                                 *)

\* The pages read, what was there at the first, and the order they all were in
\* (None: they were not).
FirstPage == [page |-> 1, seen |-> {}, first |-> {}, base |-> 0, order |-> None]
Listed(list, got, o) ==
    [list EXCEPT !.page = @ + 1, !.seen = @ \cup got,
                 !.order = IF @ = o THEN o ELSE None]
\* The next page, in order o, of the list that request p reads.  A full page
\* has a cursor to the one after it.
ListPageIn(p, o) ==
    LET list == IF call[p].list # None THEN call[p].list
                ELSE [FirstPage EXCEPT !.first = LocksOf(db, call[p].repo.id),
                                       !.base = db.last.lock, !.order = o]
        got == GetLFSLocks(db, call[p].repo.id, list.page, o) IN
    /\ Step(p, IF Cardinality(got) < PageLimit THEN Idle
               ELSE [call[p] EXCEPT !.list = Listed(list, got, o)])
    /\ UNCHANGED requests
ListPage(p) == \E o \in Orders : ListPageIn(p, o)

\* Or one lock is asked for, by its id (of whatever repository) or its path.
LocksGet(p) ==
    /\ At(p, "httpWrite")
    /\ \/ ListPage(p)
       \/ call[p].list = None /\ Ends(p)
\* The page is split into the user's own locks and those of others.
LocksVerify(p) == At(p, "httpWrite") /\ ListPage(p)

\* FromPath finds only a lock of the session's user, and is asked alone.
FromPath(p) == At(p, "lfs") /\ call[p].list = None /\ Ends(p)
LockRange(p) == At(p, "lfs") /\ ListPage(p)
=============================================================================
