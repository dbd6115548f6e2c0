------------------------------ MODULE LfsObjects ------------------------------
(***************************************************************************)
(* The Git LFS objects of one repository: requests of pkg/web/git_lfs.go   *)
(* (upload, batch download, verify, download), the mirror job's            *)
(* StoreRepoMissingLFSObjects of pkg/backend/lfs.go, and the part of       *)
(* DeleteRepository that removes objects.                                  *)
(*                                                                         *)
(* Two stores hold an object: a file, written in place under its final     *)
(* name, and a row of lfs_objects.  No lock ties them together.  A file is *)
(* the set of the chunks of the object it holds: a writer whose file was   *)
(* truncated by another goes on at its own offset and leaves a hole.       *)
(* Clients ask for an object under its true size and send its true bytes,  *)
(* all of them or a prefix.                                                *)
(***************************************************************************)
EXTENDS Integers, FiniteSets

CONSTANTS
    Handlers,    \* requests the HTTP server handles at once
    Mirrors,     \* runs of StoreRepoMissingLFSObjects at once
    Oids,        \* the objects
    Size,        \* [Oids -> Nat], in chunks
    BatchLimit,  \* objects in a batch request; 20 in the code
    Absent,      \* no file, or no row
    None         \* nobody

ASSUME LfsAssumption ==
    /\ Size \in [Oids -> Nat]
    /\ BatchLimit \in Nat \ {0}
    /\ Handlers \cap Mirrors = {}
    /\ None \notin Mirrors \cup Oids

Procs == Handlers \cup Mirrors
Chunks(o) == 1..Size[o]

VARIABLES
    file,   \* [Oids -> the chunks the file holds, or Absent]
    row,    \* the oids with a committed row
    repo,   \* "there", "deleting" (in DeleteRepository), "gone"
    tx,     \* the mirror whose transaction holds the write lock
    pc, obj,
            \* [Procs -> where it is, its object]
    sent,   \* [Procs -> chunks it has written]
    live,   \* [Procs -> is the file it writes still under its name]
    answer, \* [Handlers -> the oid its last answer confirmed]
    todo, batch,
            \* [Mirrors -> pointers to look at, and to download]
    found,  \* the mirrors that have found a row for their object
    done,   \* the mirrors whose last run returned no error
    hurt    \* history: oids whose file was damaged

stores == <<file, row, repo, tx, hurt>>
procs == <<pc, obj, sent, live>>
mirrorVars == <<todo, batch, found, done>>
vars == <<stores, procs, answer, mirrorVars>>

HandlerPC == {"idle", "create", "write", "row", "batchRow", "adopt",
              "verifyRow"}
MirrorPC == {"idle", "search", "look", "adopt", "fetch", "insert", "create",
             "write", "row"}

Init ==
    /\ file = [o \in Oids |-> Absent]
    /\ row = {}
    /\ repo = "there"
    /\ tx = None
    /\ pc = [p \in Procs |-> "idle"]
    /\ obj = [p \in Procs |-> None]
    /\ sent = [p \in Procs |-> 0]
    /\ live = [p \in Procs |-> FALSE]
    /\ answer = [h \in Handlers |-> None]
    /\ todo = [m \in Mirrors |-> {}]
    /\ batch = [m \in Mirrors |-> {}]
    /\ found = {}
    /\ done = {}
    /\ hurt = {}

-----------------------------------------------------------------------------
(* Files and rows                                                          *)

Exists(o) == file[o] # Absent
Whole(o) == file[o] = Chunks(o)

\* GetLFSObjectByOid: without a row the record is zero, its size too.
RowSize(o) == IF o \in row THEN Size[o] ELSE 0

At(p, place) == pc[p] = place
Go(p, place) == pc' = [pc EXCEPT ![p] = place]

\* An INSERT in a transaction of its own: it waits for the write lock, and
\* for a DeleteRepository that has begun to read.
CanInsert == tx = None /\ repo # "deleting"
\* UNIQUE (oid, repo_id), and the foreign key of repo_id.
Accepted(o) == o \notin row /\ repo # "gone"

\* The process p has the file open and it is still the object's file.
Writing(p, o) == pc[p] \in {"write", "row"} /\ obj[p] = o /\ live[p]

\* LocalStorage.Put: os.Create truncates what is there ...
CreateFile(p) ==
    LET o == obj[p] IN
    /\ At(p, "create")
    /\ file' = [file EXCEPT ![o] = {}]
    /\ hurt' = IF o \in row \/ \E q \in Procs \ {p} : Writing(q, o)
               THEN hurt \cup {o} ELSE hurt
    /\ live' = [live EXCEPT ![p] = TRUE]
    /\ Go(p, IF Size[o] = 0 THEN "row" ELSE "write")
    /\ UNCHANGED <<row, repo, tx, obj, sent, answer, mirrorVars>>

\* ... and io.Copy writes the body to its end.
WriteChunk(p) ==
    LET o == obj[p] IN
    /\ At(p, "write")
    /\ sent' = [sent EXCEPT ![p] = @ + 1]
    /\ file' = IF live[p] THEN [file EXCEPT ![o] = @ \cup {sent'[p]}] ELSE file
    /\ Go(p, IF sent'[p] = Size[o] THEN "row" ELSE "write")
    /\ UNCHANGED <<row, repo, tx, hurt, obj, live, answer, mirrorVars>>

-----------------------------------------------------------------------------
(* Requests.  A GET only reads and is not an action.                       *)

\* The handler or the run returns; it closes its file.
Ends(p) ==
    /\ Go(p, "idle")
    /\ obj' = [obj EXCEPT ![p] = None]
    /\ sent' = [sent EXCEPT ![p] = 0]
    /\ live' = [live EXCEPT ![p] = FALSE]

\* An answer the client builds on: stored, here is the link, verified.
Confirm(h, o) == Ends(h) /\ answer' = [answer EXCEPT ![h] = o]
\* Any other: an error, or an entry of a batch that has one.
Refuse(h) == Ends(h) /\ answer' = [answer EXCEPT ![h] = None]

Begin(h, o, place) ==
    /\ Go(h, place)
    /\ obj' = [obj EXCEPT ![h] = o]
    /\ answer' = [answer EXCEPT ![h] = None]
    /\ UNCHANGED <<sent, live>>

\* withParams and withAccess: the request's repository is looked up.
Request(h) == At(h, "idle") /\ repo # "gone" /\ UNCHANGED <<stores, mirrorVars>>

\* PUT: an object that has a row is skipped.
Upload(h, o) ==
    /\ Request(h)
    /\ IF o \in row THEN Confirm(h, o) ELSE Begin(h, o, "create")

\* The insert after the file has been written.
UploadRow(h) ==
    LET o == obj[h] IN
    /\ At(h, "row")
    /\ CanInsert
    /\ IF Accepted(o) THEN row' = row \cup {o} /\ Confirm(h, o)
                      ELSE row' = row /\ Refuse(h)
    /\ UNCHANGED <<file, repo, tx, hurt, mirrorVars>>

\* Batch download: the file first ...
Batch(h, o) ==
    /\ Request(h)
    /\ IF Exists(o) THEN Begin(h, o, "batchRow") ELSE Refuse(h)

\* ... then the row.
BatchRowBug(h) ==
    LET o == obj[h] IN
    /\ At(h, "batchRow")
    /\ IF RowSize(o) # Size[o] THEN Refuse(h) ELSE Confirm(h, o)
    /\ UNCHANGED <<stores, mirrorVars>>
BatchRow(h) ==
    LET o == obj[h] IN
    /\ At(h, "batchRow")
    /\ IF RowSize(o) # Size[o] THEN Refuse(h)               \* size mismatch
       ELSE IF o \in row THEN Confirm(h, o)
       ELSE Go(h, "adopt") /\ UNCHANGED <<obj, sent, live, answer>>
    /\ UNCHANGED <<stores, mirrorVars>>

\* Only an object of size zero comes here: the others are a mismatch.
BatchAdopt(h) ==
    LET o == obj[h] IN
    /\ At(h, "adopt")
    /\ CanInsert
    /\ IF Accepted(o) THEN row' = row \cup {o} /\ Confirm(h, o)
                      ELSE row' = row /\ Refuse(h)
    /\ UNCHANGED <<file, repo, tx, hurt, mirrorVars>>

\* Verify: the file first ...
Verify(h, o) ==
    /\ Request(h)
    /\ IF Exists(o) THEN Begin(h, o, "verifyRow") ELSE Refuse(h)

\* ... then the row.  When the file has not the pointer's size the handler
\* ends without a status, which net/http sends as 200: the file's size makes
\* no difference.
VerifyRow(h) ==
    LET o == obj[h] IN
    /\ At(h, "verifyRow")
    /\ IF o \in row THEN Confirm(h, o) ELSE Refuse(h)
    /\ UNCHANGED <<stores, mirrorVars>>

\* The body is cut short, a file operation or the insert fails, or the
\* request has no Content-Length: what was written stays.
RequestFails(h) ==
    /\ ~At(h, "idle")
    /\ Refuse(h)
    /\ UNCHANGED <<stores, mirrorVars>>

-----------------------------------------------------------------------------
(* StoreRepoMissingLFSObjects                                              *)

Return(m) ==
    /\ Ends(m)
    /\ found' = found \ {m}
    /\ todo' = [todo EXCEPT ![m] = {}]
    /\ batch' = [batch EXCEPT ![m] = {}]

\* The pointers in the repository, which SearchPointerBlobs finds in any order.
MirrorStarts(m) ==
    /\ At(m, "idle")
    /\ repo # "gone"
    /\ \E pointers \in SUBSET Oids : todo' = [todo EXCEPT ![m] = pointers]
    /\ done' = done \ {m}
    /\ Go(m, "search")
    /\ UNCHANGED <<stores, obj, sent, live, answer, batch, found>>

\* A pointer comes over the channel; its row is read ...
Look(m) ==
    /\ At(m, "search")
    /\ \E o \in todo[m] :
          /\ todo' = [todo EXCEPT ![m] = @ \ {o}]
          /\ obj' = [obj EXCEPT ![m] = o]
          /\ found' = IF o \in row THEN found \cup {m} ELSE found \ {m}
    /\ Go(m, "look")
    /\ UNCHANGED <<stores, sent, live, answer, batch, done>>

\* ... and its file.  An object with both, or with a row only, is downloaded.
LookFileBug(m) ==
    /\ At(m, "look")
    /\ Go(m, IF Exists(obj[m]) /\ m \notin found THEN "adopt" ELSE "search")
    /\ todo' = [todo EXCEPT ![m] = @ \cup {obj[m]}]
    /\ found' = found \ {m}
    /\ UNCHANGED <<stores, obj, sent, live, answer, batch, done>>
LookFile(m) ==
    LET o == obj[m] IN
    /\ At(m, "look")
    /\ IF Exists(o) /\ m \notin found
       THEN Go(m, "adopt") /\ UNCHANGED batch
       ELSE /\ batch' = [batch EXCEPT ![m] = @ \cup {o}]
            /\ Go(m, IF Cardinality(batch'[m]) >= BatchLimit
                     THEN "fetch" ELSE "search")
    /\ found' = found \ {m}
    /\ UNCHANGED <<stores, obj, sent, live, answer, todo, done>>

\* A file without a row gets one, under the size of the pointer.
MirrorAdopts(m) ==
    LET o == obj[m] IN
    /\ At(m, "adopt")
    /\ CanInsert
    /\ IF Accepted(o)
       THEN /\ row' = row \cup {o}
            /\ hurt' = IF Whole(o) THEN hurt ELSE hurt \cup {o}
            /\ Go(m, "search")
            /\ UNCHANGED <<obj, sent, live, mirrorVars>>
       ELSE /\ UNCHANGED <<row, hurt>>
            /\ Return(m) /\ UNCHANGED done
    /\ UNCHANGED <<file, repo, tx, answer>>

\* The remote answers for one object of the batch ...
Fetch(m) ==
    /\ At(m, "fetch")
    /\ \E o \in batch[m] :
          /\ obj' = [obj EXCEPT ![m] = o]
          /\ batch' = [batch EXCEPT ![m] = @ \ {o}]
    /\ Go(m, "insert")
    /\ UNCHANGED <<stores, sent, live, answer, todo, found, done>>

\* ... and a transaction inserts the row, and keeps the write lock while the
\* content is read.
MirrorInserts(m) ==
    /\ At(m, "insert")
    /\ tx = None
    /\ IF Accepted(obj[m])
       THEN tx' = m /\ Go(m, "create") /\ UNCHANGED <<obj, sent, live, mirrorVars>>
       ELSE UNCHANGED tx /\ Return(m) /\ UNCHANGED done
    /\ UNCHANGED <<file, row, repo, hurt, answer>>

\* The row is seen by others from the commit on, which waits for readers.
Commit(m) ==
    /\ At(m, "row")
    /\ repo # "deleting"
    /\ row' = row \cup {obj[m]}
    /\ tx' = None
    /\ sent' = [sent EXCEPT ![m] = 0]
    /\ live' = [live EXCEPT ![m] = FALSE]
    /\ Go(m, "fetch")
    /\ UNCHANGED <<file, repo, hurt, obj, answer, mirrorVars>>

\* The remote's answer may leave objects out, which nobody looks at again.
BatchDone(m) ==
    /\ At(m, "fetch")
    /\ batch' = [batch EXCEPT ![m] = {}]
    /\ Go(m, "search")
    /\ UNCHANGED <<stores, obj, sent, live, answer, todo, found, done>>

\* The channel is closed: what the last batch holds is not downloaded.
SearchEnds(m) ==
    /\ At(m, "search")
    /\ todo[m] = {}
    /\ Return(m)
    /\ done' = done \cup {m}
    /\ UNCHANGED <<stores, answer>>

\* Any step fails: the remote, a query, a file or the commit.  An open
\* transaction is rolled back; the file stays.
MirrorFailsBug(m) ==
    /\ ~At(m, "idle")
    /\ tx' = IF tx = m THEN None ELSE tx
    /\ row' = IF tx = m THEN row \cup {obj[m]} ELSE row
    /\ Return(m)
    /\ UNCHANGED <<file, repo, hurt, answer, done>>
MirrorFails(m) ==
    /\ ~At(m, "idle")
    /\ tx' = IF tx = m THEN None ELSE tx
    /\ Return(m)
    /\ UNCHANGED <<file, row, repo, hurt, answer, done>>

-----------------------------------------------------------------------------
(* DeleteRepository, and a crash of the server                             *)

\* It removes the files of the rows it reads; a removal that fails is logged.
DeleteFiles ==
    /\ repo = "there"
    /\ repo' = "deleting"
    /\ \E removed \in SUBSET row :
          /\ file' = [o \in Oids |-> IF o \in removed THEN Absent ELSE file[o]]
          /\ live' = [p \in Procs |-> live[p] /\ obj[p] \notin removed]
          /\ hurt' = hurt \cup removed
    /\ UNCHANGED <<row, tx, pc, obj, sent, answer, mirrorVars>>

\* The rows go with the repository's.
DeleteCommits ==
    /\ repo = "deleting"
    /\ tx = None
    /\ repo' = "gone"
    /\ row' = {}
    /\ UNCHANGED <<file, tx, hurt, procs, answer, mirrorVars>>

\* The transaction fails, or finds another one writing; the files stay lost.
DeleteFails ==
    /\ repo = "deleting"
    /\ repo' = "there"
    /\ UNCHANGED <<file, row, tx, hurt, procs, answer, mirrorVars>>

Crash ==
    /\ repo' = IF repo = "deleting" THEN "there" ELSE repo
    /\ tx' = None
    /\ pc' = [p \in Procs |-> "idle"]
    /\ obj' = [p \in Procs |-> None]
    /\ sent' = [p \in Procs |-> 0]
    /\ live' = [p \in Procs |-> FALSE]
    /\ answer' = [h \in Handlers |-> None]
    /\ todo' = [m \in Mirrors |-> {}]
    /\ batch' = [m \in Mirrors |-> {}]
    /\ found' = {}
    /\ done' = {}
    /\ UNCHANGED <<file, row, hurt>>

-----------------------------------------------------------------------------

HandlerNext(h) ==
    \/ \E o \in Oids : Upload(h, o) \/ Batch(h, o) \/ Verify(h, o)
    \/ CreateFile(h) \/ WriteChunk(h) \/ UploadRow(h)
    \/ BatchRow(h) \/ BatchAdopt(h) \/ VerifyRow(h)
    \/ RequestFails(h)

\* The run waits for the remote, or for another's transaction to end.
AtRemote(m) == At(m, "write") \/ (At(m, "fetch") /\ batch[m] # {})
AtLock(m) == \/ At(m, "adopt") /\ ~CanInsert
             \/ At(m, "insert") /\ tx # None
             \/ At(m, "row") /\ repo = "deleting"

MirrorNext(m) ==
    \/ MirrorStarts(m) \/ Look(m) \/ LookFile(m) \/ MirrorAdopts(m)
    \/ Fetch(m) \/ MirrorInserts(m) \/ CreateFile(m) \/ WriteChunk(m) \/ Commit(m)
    \/ BatchDone(m) \/ SearchEnds(m) \/ MirrorFails(m)

\* What goes on without the remote.
MirrorLocal(m) ==
    \/ Look(m) \/ LookFile(m) \/ MirrorAdopts(m) \/ MirrorInserts(m) \/ CreateFile(m)
    \/ Commit(m) \/ SearchEnds(m) \/ (batch[m] = {} /\ BatchDone(m))

DeleteNext == DeleteFiles \/ DeleteCommits \/ DeleteFails

Next ==
    \/ \E h \in Handlers : HandlerNext(h)
    \/ \E m \in Mirrors : MirrorNext(m)
    \/ DeleteNext
    \/ Crash

\* A run's own code goes on; where it waits for another transaction, the busy
\* timeout ends the wait.  Nothing makes the remote answer, or fail: the client
\* has no timeout.
Fairness ==
    \A m \in Mirrors :
        WF_vars(MirrorLocal(m) \/ (AtLock(m) /\ MirrorFails(m)))

Spec == Init /\ [][Next]_vars /\ Fairness

-----------------------------------------------------------------------------
(* Properties                                                              *)

TypeOK ==
    /\ file \in [Oids -> {Absent} \cup UNION {SUBSET Chunks(o) : o \in Oids}]
    /\ \A o \in Oids : Exists(o) => file[o] \subseteq Chunks(o)
    /\ row \subseteq Oids
    /\ repo \in {"there", "deleting", "gone"}
    /\ tx \in Mirrors \cup {None}
    /\ pc \in [Procs -> HandlerPC \cup MirrorPC]
    /\ obj \in [Procs -> Oids \cup {None}]
    /\ sent \in [Procs -> Nat]
    /\ live \in [Procs -> BOOLEAN]
    /\ answer \in [Handlers -> Oids \cup {None}]
    /\ todo \in [Mirrors -> SUBSET Oids]
    /\ batch \in [Mirrors -> SUBSET Oids]
    /\ found \subseteq Mirrors
    /\ done \subseteq Mirrors
    /\ hurt \subseteq Oids

\* An object with a row can be downloaded: its file is there and whole,
\* whatever was cut short, rolled back or crashed before.  What can damage it
\* is a second writer that had found no row yet, a run of the mirror job that
\* adopts a file another one left or is still writing, and a DeleteRepository
\* that does not go through.
StoredIsWhole == \A o \in row \ hurt : Whole(o)

\* An answer the client acts on is backed by a row, which the later GET takes
\* its Content-Length from: a stored upload, a download link, a verification.
AnswersAreKept ==
    \A h \in Handlers : answer[h] # None => answer[h] \in row \/ repo = "gone"

\* A run of StoreRepoMissingLFSObjects whose own remote does not fall silent for
\* ever returns, even while another keeps the write lock for ever because its
\* remote does.
MirrorReturns ==
    \A m \in Mirrors :
        []<>(~AtRemote(m)) => (~At(m, "idle") ~> At(m, "idle"))

\* "StoreRepoMissingLFSObjects stores missing LFS objects for a repository"
\* (pkg/backend/lfs.go:19): what a run has set aside as missing is there when
\* it returns without an error.
MissingAreStored ==
    [][\A m \in Mirrors :
          At(m, "search") /\ m \in done' =>
              \A o \in batch[m] : o \in row /\ Exists(o)]_vars
=============================================================================
