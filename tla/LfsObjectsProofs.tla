--------------------------- MODULE LfsObjectsProofs ---------------------------
(***************************************************************************)
(* Proofs about LfsObjects, for any objects of any sizes, any requests and *)
(* runs of the mirror job at once, and any size of a batch.                *)
(***************************************************************************)
EXTENDS LfsObjects, TLAPS

-----------------------------------------------------------------------------
(* The inductive invariant                                                 *)

\* Places with a file open, and places that know their object.
Open == {"write", "row"}
Held == Open \cup {"create", "look", "batchRow", "adopt", "insert", "verifyRow"}

\* What a process has sent is what its place says.
Fits(p) ==
    /\ pc[p] \in Held => obj[p] \in Oids
    /\ pc[p] = "write" => sent[p] < Size[obj[p]]
    /\ pc[p] = "row" => sent[p] = Size[obj[p]]
    /\ pc[p] \notin Open => sent[p] = 0
    /\ (p \in Handlers /\ pc[p] = "adopt") => Size[obj[p]] = 0

\* A file that nobody damaged is still its writer's, and holds exactly what
\* the writer has sent; an empty object found by a batch is whole.
Intact(p) ==
    /\ pc[p] \in Open =>
          /\ live[p] => file[obj[p]] \subseteq Chunks(obj[p])
          /\ obj[p] \notin hurt => live[p] /\ file[obj[p]] = 1..sent[p]
    /\ (p \in Handlers /\ pc[p] \in {"batchRow", "adopt"} /\ Size[obj[p]] = 0) =>
          Whole(obj[p]) \/ obj[p] \in hurt

\* An undamaged file has one writer.
Alone ==
    \A p, q \in Procs :
        (p # q /\ pc[p] \in Open /\ pc[q] \in Open /\ obj[p] = obj[q])
        => obj[p] \in hurt

Shaped == \A p \in Procs : Fits(p) /\ Intact(p)

Inv == TypeOK /\ Shaped /\ Alone /\ StoredIsWhole /\ AnswersAreKept

-----------------------------------------------------------------------------
(* Lemmas                                                                  *)

\* The parts of TypeOK that belong to processes.
ProcTypes ==
    /\ pc \in [Procs -> HandlerPC \cup MirrorPC]
    /\ obj \in [Procs -> Oids \cup {None}]
    /\ sent \in [Procs -> Nat]
    /\ live \in [Procs -> BOOLEAN]

\* The others; the files' separately, as few steps change them.
FileTypes ==
    /\ file \in [Oids -> {Absent} \cup UNION {SUBSET Chunks(o) : o \in Oids}]
    /\ \A o \in Oids : Exists(o) => file[o] \subseteq Chunks(o)
RestTypes ==
    /\ row \subseteq Oids
    /\ repo \in {"there", "deleting", "gone"}
    /\ tx \in Mirrors \cup {None}
    /\ answer \in [Handlers -> Oids \cup {None}]
    /\ todo \in [Mirrors -> SUBSET Oids]
    /\ batch \in [Mirrors -> SUBSET Oids]
    /\ found \subseteq Mirrors
    /\ done \subseteq Mirrors
    /\ hurt \subseteq Oids

LEMMA Types == TypeOK <=> ProcTypes /\ FileTypes /\ RestTypes
  BY DEF TypeOK, ProcTypes, FileTypes, RestTypes

OthersStay(p) ==
    \A q \in Procs \ {p} :
        pc'[q] = pc[q] /\ obj'[q] = obj[q] /\ sent'[q] = sent[q] /\ live'[q] = live[q]

\* A process that ends up with no file open, after a step that touched no file.
LEMMA ClosedStep ==
    ASSUME Inv, TypeOK', NEW p \in Procs, file' = file, hurt \subseteq hurt',
           OthersStay(p), pc'[p] \notin Open, Fits(p)', Intact(p)'
    PROVE  Shaped' /\ Alone'
<1>1. ASSUME NEW q \in Procs \ {p} PROVE Fits(q)' /\ Intact(q)'
  BY <1>1 DEF Inv, Shaped, OthersStay, Fits, Intact, Whole
<1>2. Shaped'
  BY <1>1 DEF Shaped
<1>3. Alone'
  BY DEF Inv, Alone, OthersStay
<1>4. QED
  BY <1>2, <1>3

\* The same, with what is promised of rows and answers.
LEMMA QuietStep ==
    ASSUME Inv, TypeOK', NEW p \in Procs, file' = file, hurt \subseteq hurt',
           OthersStay(p), pc'[p] \notin Open, Fits(p)', Intact(p)',
           repo' = repo, row \subseteq row',
           \A o \in row' \ row : Whole(o) \/ o \in hurt',
           \A h \in Handlers : answer'[h] \in {answer[h], None} \cup row'
    PROVE  Inv'
<1>1. Shaped' /\ Alone'
  BY ClosedStep
<1>2. StoredIsWhole'
  BY DEF Inv, StoredIsWhole, Whole
<1>3. AnswersAreKept'
  BY DEF Inv, AnswersAreKept
<1>4. QED
  BY <1>1, <1>2, <1>3 DEF Inv

\* What Ends leaves of a process.
LEMMA Ended ==
    ASSUME ProcTypes, NEW p \in Procs, Ends(p)
    PROVE  /\ ProcTypes' /\ OthersStay(p)
           /\ pc'[p] = "idle" /\ Fits(p)' /\ Intact(p)'
<1>1. pc'[p] = "idle" /\ obj'[p] = None /\ sent'[p] = 0 /\ live'[p] = FALSE
  BY DEF ProcTypes, Ends, Go
<1>2. ProcTypes'
  BY DEF ProcTypes, Ends, Go, HandlerPC
<1>3. OthersStay(p)
  BY DEF ProcTypes, Ends, Go, OthersStay
<1>4. QED
  BY <1>1, <1>2, <1>3 DEF Fits, Intact, Held, Open

\* A process that goes to another place, with the object o from now on.
Moves(p, place, o) ==
    /\ pc' = [pc EXCEPT ![p] = place]
    /\ obj' = [obj EXCEPT ![p] = o]
    /\ UNCHANGED <<sent, live>>

LEMMA Moved ==
    ASSUME ProcTypes, NEW p \in Procs, NEW place \in HandlerPC \cup MirrorPC,
           NEW o \in Oids \cup {None}, Moves(p, place, o)
    PROVE  /\ ProcTypes' /\ OthersStay(p)
           /\ pc'[p] = place /\ obj'[p] = o /\ sent'[p] = sent[p] /\ live'[p] = live[p]
  BY DEF ProcTypes, Moves, OthersStay

LEMMA NotHandler == \A m \in Mirrors : m \notin Handlers
  BY LfsAssumption

-----------------------------------------------------------------------------
(* Requests                                                                *)

\* A handler that ends without a change of the stores, whatever it answers.
LEMMA HandlerEnds ==
    ASSUME Inv, NEW h \in Handlers, Ends(h), NEW o \in {None} \cup row',
           answer' = [answer EXCEPT ![h] = o],
           UNCHANGED <<file, repo, tx, hurt, mirrorVars>>,
           row \subseteq row', row' \subseteq Oids,
           \A x \in row' \ row : Whole(x) \/ x \in hurt
    PROVE  Inv'
<1>1. h \in Procs /\ ProcTypes /\ FileTypes /\ RestTypes
  BY Types DEF Inv, Procs
<1>2. /\ ProcTypes' /\ OthersStay(h)
      /\ pc'[h] = "idle" /\ Fits(h)' /\ Intact(h)'
  BY <1>1, Ended
<1>3. FileTypes' /\ RestTypes'
  BY <1>1 DEF FileTypes, RestTypes, Exists, mirrorVars
<1>4. TypeOK'
  BY <1>2, <1>3 DEF TypeOK, ProcTypes, FileTypes, RestTypes
<1>5. \A g \in Handlers : answer'[g] \in {answer[g], None} \cup row'
  BY <1>1 DEF RestTypes
<1>6. QED
  BY <1>1, <1>2, <1>4, <1>5, QuietStep DEF Open

LEMMA HandlerBegins ==
    ASSUME Inv, NEW h \in Handlers, NEW o \in Oids, At(h, "idle"),
           NEW place \in {"create", "batchRow", "verifyRow"}, Begin(h, o, place),
           place = "batchRow" => Exists(o), UNCHANGED <<stores, mirrorVars>>
    PROVE  Inv'
<1>1. h \in Procs /\ ProcTypes /\ FileTypes /\ RestTypes
  BY Types DEF Inv, Procs
<1>2. /\ ProcTypes' /\ OthersStay(h) /\ pc'[h] = place /\ obj'[h] = o
      /\ sent'[h] = sent[h]
  BY <1>1, Moved DEF Begin, Go, Moves, HandlerPC
<1>3. FileTypes' /\ RestTypes'
  BY <1>1 DEF FileTypes, RestTypes, Exists, mirrorVars, stores, Begin
<1>4. TypeOK'
  BY <1>2, <1>3 DEF TypeOK, ProcTypes, FileTypes, RestTypes
<1>5. sent[h] = 0
  BY <1>1 DEF Inv, Shaped, Fits, At, Open
<1>6. Fits(h)'
  BY <1>2, <1>5 DEF Fits, Held, Open
<1>7. Intact(h)'
  <2>1. (place = "batchRow" /\ Size[o] = 0) => Whole(o)
    BY <1>1, LfsAssumption DEF FileTypes, Chunks, Whole
  <2>2. QED
    BY <1>2, <2>1 DEF Intact, Open, Whole, stores, Chunks
<1>8. \A g \in Handlers : answer'[g] \in {answer[g], None}
  BY <1>1 DEF RestTypes, Begin
<1>9. QED
  BY <1>1, <1>2, <1>4, <1>6, <1>7, <1>8, QuietStep DEF Open, stores

LEMMA UploadInv == ASSUME Inv, NEW h \in Handlers, NEW o \in Oids, Upload(h, o) PROVE Inv'
<1>1. row \subseteq Oids
  BY DEF Inv, TypeOK
<1>2. CASE o \in row
  BY <1>1, <1>2, HandlerEnds DEF Upload, Request, Confirm, stores
<1>3. CASE o \notin row
  BY <1>3, HandlerBegins DEF Upload, Request
<1>4. QED
  BY <1>2, <1>3

LEMMA BatchInv == ASSUME Inv, NEW h \in Handlers, NEW o \in Oids, Batch(h, o) PROVE Inv'
<1>1. row \subseteq Oids
  BY DEF Inv, TypeOK
<1>2. CASE Exists(o)
  BY <1>2, HandlerBegins DEF Batch, Request
<1>3. CASE ~Exists(o)
  BY <1>1, <1>3, HandlerEnds DEF Batch, Request, Refuse, stores
<1>4. QED
  BY <1>2, <1>3

LEMMA VerifyInv == ASSUME Inv, NEW h \in Handlers, NEW o \in Oids, Verify(h, o) PROVE Inv'
<1>1. row \subseteq Oids
  BY DEF Inv, TypeOK
<1>2. CASE Exists(o)
  BY <1>2, HandlerBegins DEF Verify, Request
<1>3. CASE ~Exists(o)
  BY <1>1, <1>3, HandlerEnds DEF Verify, Request, Refuse, stores
<1>4. QED
  BY <1>2, <1>3

\* What a process that has written its object's last chunk has in hand.
LEMMA WrittenIsWhole ==
    ASSUME Inv, NEW p \in Procs, At(p, "row")
    PROVE  obj[p] \in Oids /\ (Whole(obj[p]) \/ obj[p] \in hurt)
  BY DEF Inv, Shaped, Fits, Intact, At, Held, Open, Whole, Chunks

LEMMA UploadRowInv == ASSUME Inv, NEW h \in Handlers, UploadRow(h) PROVE Inv'
<1>1. row \subseteq Oids /\ h \in Procs
  BY DEF Inv, TypeOK, Procs
<1>2. obj[h] \in Oids /\ (Whole(obj[h]) \/ obj[h] \in hurt)
  BY <1>1, WrittenIsWhole DEF UploadRow
<1>3. CASE Accepted(obj[h])
  BY <1>1, <1>2, <1>3, HandlerEnds DEF UploadRow, Confirm
<1>4. CASE ~Accepted(obj[h])
  BY <1>1, <1>4, HandlerEnds DEF UploadRow, Refuse
<1>5. QED
  BY <1>3, <1>4

LEMMA BatchRowInv == ASSUME Inv, NEW h \in Handlers, BatchRow(h) PROVE Inv'
<1>1. row \subseteq Oids /\ h \in Procs /\ obj[h] \in Oids
  BY DEF Inv, TypeOK, Procs, Shaped, Fits, Held, BatchRow, At
<1>2. CASE RowSize(obj[h]) # Size[obj[h]]
  BY <1>1, <1>2, HandlerEnds DEF BatchRow, Refuse, stores
<1>3. CASE RowSize(obj[h]) = Size[obj[h]] /\ obj[h] \in row
  BY <1>1, <1>3, HandlerEnds DEF BatchRow, Confirm, stores
<1>4. CASE RowSize(obj[h]) = Size[obj[h]] /\ obj[h] \notin row
  <2>1. ProcTypes /\ FileTypes /\ RestTypes
    BY Types DEF Inv
  <2>2. Moves(h, "adopt", obj[h]) /\ answer' = answer
    BY <1>4, <2>1 DEF BatchRow, Go, Moves, ProcTypes
  <2>3. /\ ProcTypes' /\ OthersStay(h) /\ pc'[h] = "adopt" /\ obj'[h] = obj[h]
        /\ sent'[h] = sent[h]
    BY <1>1, <2>1, <2>2, Moved DEF HandlerPC
  <2>4. Size[obj[h]] = 0
    BY <1>4 DEF RowSize
  <2>5. FileTypes' /\ RestTypes'
    BY <2>1, <2>2 DEF FileTypes, RestTypes, Exists, mirrorVars, stores, BatchRow
  <2>6. TypeOK'
    BY <2>3, <2>5 DEF TypeOK, ProcTypes, FileTypes, RestTypes
  <2>7. pc[h] = "batchRow" /\ Fits(h) /\ Intact(h)
    BY <1>1 DEF Inv, Shaped, BatchRow, At
  <2>8. Fits(h)' /\ Intact(h)'
    BY <1>1, <2>3, <2>4, <2>7 DEF Fits, Intact, Held, Open, Whole, stores, BatchRow, Chunks
  <2>9. QED
    BY <1>1, <2>2, <2>3, <2>6, <2>8, QuietStep DEF Open, stores, BatchRow
<1>5. QED
  BY <1>2, <1>3, <1>4

\* Only an empty object is adopted, and there is nothing it could lack.
LEMMA BatchAdoptInv == ASSUME Inv, NEW h \in Handlers, BatchAdopt(h) PROVE Inv'
<1>1. row \subseteq Oids /\ h \in Procs /\ obj[h] \in Oids
  BY DEF Inv, TypeOK, Procs, Shaped, Fits, Held, BatchAdopt, At
<1>2. Whole(obj[h]) \/ obj[h] \in hurt
  BY <1>1 DEF Inv, Shaped, Fits, Intact, BatchAdopt, At
<1>3. CASE Accepted(obj[h])
  BY <1>1, <1>2, <1>3, HandlerEnds DEF BatchAdopt, Confirm
<1>4. CASE ~Accepted(obj[h])
  BY <1>1, <1>4, HandlerEnds DEF BatchAdopt, Refuse
<1>5. QED
  BY <1>3, <1>4

LEMMA VerifyRowInv == ASSUME Inv, NEW h \in Handlers, VerifyRow(h) PROVE Inv'
<1>1. row \subseteq Oids
  BY DEF Inv, TypeOK
<1>2. CASE obj[h] \in row
  BY <1>1, <1>2, HandlerEnds DEF VerifyRow, Confirm, stores
<1>3. CASE obj[h] \notin row
  BY <1>1, <1>3, HandlerEnds DEF VerifyRow, Refuse, stores
<1>4. QED
  BY <1>2, <1>3

LEMMA RequestFailsInv == ASSUME Inv, NEW h \in Handlers, RequestFails(h) PROVE Inv'
<1>1. row \subseteq Oids
  BY DEF Inv, TypeOK
<1>2. QED
  BY <1>1, HandlerEnds DEF RequestFails, Refuse, stores

-----------------------------------------------------------------------------
(* Writing a file                                                          *)

\* A file that is truncated is hurt when it has a row or another writer; when
\* it has neither, it has one writer now, who has sent nothing.
LEMMA CreateFileInv == ASSUME Inv, NEW p \in Procs, CreateFile(p) PROVE Inv'
<1> DEFINE o == obj[p]
<1>1. /\ ProcTypes /\ FileTypes /\ RestTypes
      /\ o \in Oids /\ Size[o] \in Nat /\ sent[p] = 0
  BY Types, LfsAssumption DEF Inv, Shaped, Fits, Held, Open, CreateFile, At
<1>2. /\ file' = [file EXCEPT ![o] = {}]
      /\ live' = [live EXCEPT ![p] = TRUE]
      /\ pc' = [pc EXCEPT ![p] = IF Size[o] = 0 THEN "row" ELSE "write"]
      /\ UNCHANGED <<row, repo, tx, obj, sent, answer, todo, batch, found, done>>
  BY DEF CreateFile, Go, mirrorVars
<1>3. /\ hurt \subseteq hurt' /\ hurt' \subseteq hurt \cup {o}
      /\ o \in row \/ (\E q \in Procs \ {p} : Writing(q, o)) => o \in hurt'
  BY DEF CreateFile
<1>4. TypeOK'
  <2>1. ProcTypes'
    BY <1>1, <1>2 DEF ProcTypes, HandlerPC
  <2>2. FileTypes'
    BY <1>1, <1>2 DEF FileTypes, Exists
  <2>3. RestTypes'
    BY <1>1, <1>2, <1>3 DEF RestTypes
  <2>4. QED
    BY <2>1, <2>2, <2>3 DEF TypeOK, ProcTypes, FileTypes, RestTypes
<1>5. ASSUME NEW q \in Procs \ {p}
      PROVE  pc'[q] = pc[q] /\ obj'[q] = obj[q] /\ sent'[q] = sent[q] /\ live'[q] = live[q]
  BY <1>1, <1>2 DEF ProcTypes
<1>6. /\ pc'[p] = IF Size[o] = 0 THEN "row" ELSE "write"
      /\ obj'[p] = o /\ sent'[p] = 0 /\ live'[p] = TRUE /\ file'[o] = {}
  BY <1>1, <1>2 DEF ProcTypes, FileTypes
<1>7. \A x \in Oids \ {o} : file'[x] = file[x]
  BY <1>1, <1>2 DEF FileTypes
<1>8. Fits(p)' /\ Intact(p)'
  <2>1. Fits(p)'
    BY <1>1, <1>6 DEF Fits, Held, Open
  <2>2. 1..0 = {}
    OBVIOUS
  <2>3. QED
    BY <1>1, <1>6, <2>1, <2>2 DEF Intact, Open
<1>9. ASSUME NEW q \in Procs \ {p}, pc[q] \in Open, obj[q] = o PROVE o \in hurt'
  <2>1. CASE live[q]
    BY <1>3, <1>9, <2>1 DEF Writing, Open
  <2>2. CASE ~live[q]
    BY <1>3, <1>9, <2>2 DEF Inv, Shaped, Intact
  <2>3. QED
    BY <2>1, <2>2
<1>10. ASSUME NEW q \in Procs \ {p} PROVE Fits(q)' /\ Intact(q)'
  <2>1. Fits(q) /\ Intact(q)
    BY DEF Inv, Shaped
  <2>2. Fits(q)'
    BY <1>5, <2>1 DEF Fits
  <2>3. CASE pc[q] \in Held /\ obj[q] = o
    <3>1. pc[q] \in Open => o \in hurt'
      BY <1>9, <2>3
    <3>2. Size[o] = 0 => Whole(o)'
      BY <1>6 DEF Whole, Chunks
    <3>3. QED
      BY <1>5, <1>6, <2>2, <2>3, <3>1, <3>2 DEF Intact
  <2>4. CASE pc[q] \notin Held
    BY <1>5, <2>2, <2>4 DEF Intact, Open, Held
  <2>5. CASE pc[q] \in Held /\ obj[q] # o
    <3>1. file'[obj[q]] = file[obj[q]]
      BY <1>7, <2>1, <2>5 DEF Fits
    <3>2. QED
      BY <1>3, <1>5, <2>1, <2>2, <3>1 DEF Intact, Whole, Chunks
  <2>6. QED
    BY <2>2, <2>3, <2>4, <2>5
<1>11. Shaped'
  BY <1>8, <1>10 DEF Shaped
<1>12. Alone'
  BY <1>3, <1>5, <1>6, <1>9 DEF Inv, Alone, Open
<1>13. StoredIsWhole'
  BY <1>1, <1>2, <1>3, <1>7 DEF Inv, StoredIsWhole, Whole, RestTypes, Chunks
<1>14. AnswersAreKept'
  BY <1>2 DEF Inv, AnswersAreKept
<1>15. QED
  BY <1>4, <1>11, <1>12, <1>13, <1>14 DEF Inv

\* The next chunk goes into the file if it is still the object's.  An object
\* that has a row and is not hurt is whole, so nobody is still writing it.
LEMMA WriteChunkInv == ASSUME Inv, NEW p \in Procs, WriteChunk(p) PROVE Inv'
<1> DEFINE o == obj[p]
           n == sent[p] + 1
<1>1. /\ ProcTypes /\ FileTypes /\ RestTypes /\ Fits(p) /\ Intact(p)
      /\ pc[p] = "write" /\ o \in Oids /\ Size[o] \in Nat /\ sent[p] \in Nat
      /\ sent[p] < Size[o]
  BY Types, LfsAssumption DEF Inv, Shaped, Fits, Held, Open, WriteChunk, At, ProcTypes
<1>2. /\ sent' = [sent EXCEPT ![p] = n] /\ sent'[p] = n
      /\ file' = IF live[p] THEN [file EXCEPT ![o] = @ \cup {n}] ELSE file
      /\ pc' = [pc EXCEPT ![p] = IF n = Size[o] THEN "row" ELSE "write"]
      /\ UNCHANGED <<row, repo, tx, hurt, obj, live, answer, todo, batch, found, done>>
  BY <1>1 DEF WriteChunk, Go, mirrorVars, ProcTypes
<1>3. n \in Chunks(o)
  BY <1>1 DEF Chunks
<1>4. live[p] => file[o] \subseteq Chunks(o) /\ file'[o] = file[o] \cup {n}
  BY <1>1, <1>2 DEF Intact, Open, FileTypes
<1>5. \A x \in Oids \ {o} : file'[x] = file[x]
  BY <1>1, <1>2 DEF FileTypes
<1>6. TypeOK'
  <2>1. ProcTypes'
    BY <1>1, <1>2 DEF ProcTypes, HandlerPC
  <2>2. FileTypes'
    <3>1. CASE live[p]
      <4>1. file'[o] \subseteq Chunks(o)
        BY <1>3, <1>4, <3>1
      <4>2. file' \in [Oids -> {Absent} \cup UNION {SUBSET Chunks(x) : x \in Oids}]
        BY <1>1, <1>2, <3>1, <4>1 DEF FileTypes
      <4>3. ASSUME NEW x \in Oids, Exists(x)' PROVE file'[x] \subseteq Chunks(x)
        BY <1>1, <1>5, <4>1, <4>3 DEF FileTypes, Exists
      <4>4. QED
        BY <4>2, <4>3 DEF FileTypes, Chunks
    <3>2. CASE ~live[p]
      BY <1>1, <1>2, <3>2 DEF FileTypes, Exists, Chunks
    <3>3. QED
      BY <3>1, <3>2
  <2>3. RestTypes'
    BY <1>1, <1>2 DEF RestTypes
  <2>4. QED
    BY <2>1, <2>2, <2>3 DEF TypeOK, ProcTypes, FileTypes, RestTypes
<1>7. ASSUME NEW q \in Procs \ {p}
      PROVE  pc'[q] = pc[q] /\ obj'[q] = obj[q] /\ sent'[q] = sent[q] /\ live'[q] = live[q]
  BY <1>1, <1>2 DEF ProcTypes
<1>8. /\ pc'[p] = IF n = Size[o] THEN "row" ELSE "write"
      /\ obj'[p] = o /\ live'[p] = live[p] /\ hurt' = hurt
  BY <1>1, <1>2 DEF ProcTypes
<1>9. Fits(p)' /\ Intact(p)'
  <2>1. Fits(p)'
    BY <1>1, <1>2, <1>8 DEF Fits, Held, Open
  <2>2. live[p] => file'[o] \subseteq Chunks(o)
    BY <1>3, <1>4
  <2>3. o \notin hurt => live[p] /\ file'[o] = 1..n
    <3>1. 1..n = (1..sent[p]) \cup {n}
      BY <1>1
    <3>2. QED
      BY <1>1, <1>4, <3>1 DEF Intact, Open
  <2>4. QED
    BY <1>2, <1>8, <2>1, <2>2, <2>3 DEF Intact, Open, Chunks
<1>10. ASSUME NEW q \in Procs \ {p} PROVE Fits(q)' /\ Intact(q)'
  <2>1. Fits(q) /\ Intact(q)
    BY DEF Inv, Shaped
  <2>2. Fits(q)'
    BY <1>7, <2>1 DEF Fits
  <2>3. CASE pc[q] \in Open /\ obj[q] = o
    <3>1. o \in hurt
      BY <1>1, <2>3 DEF Inv, Alone, Open
    <3>2. live[q] => file'[o] \subseteq Chunks(o)
      BY <1>2, <1>3, <1>4, <2>1, <2>3 DEF Intact
    <3>3. QED
      BY <1>7, <1>8, <2>2, <2>3, <3>1, <3>2 DEF Intact, Chunks, Open
  <2>4. CASE pc[q] \in {"batchRow", "adopt"} /\ obj[q] = o
    <3>1. Size[o] # 0
      BY <1>1
    <3>2. QED
      BY <1>7, <2>2, <2>4, <3>1 DEF Intact, Open
  <2>5. CASE pc[q] \in Held /\ obj[q] # o
    <3>1. file'[obj[q]] = file[obj[q]]
      BY <1>5, <2>1, <2>5 DEF Fits
    <3>2. QED
      BY <1>7, <1>8, <2>1, <2>2, <3>1 DEF Intact, Whole, Chunks
  <2>6. CASE pc[q] \notin Open \cup {"batchRow", "adopt"}
    BY <1>7, <2>2, <2>6 DEF Intact, Open
  <2>7. QED
    BY <2>3, <2>4, <2>5, <2>6 DEF Held
<1>11. Shaped'
  BY <1>9, <1>10 DEF Shaped
<1>12. Alone'
  BY <1>1, <1>7, <1>8 DEF Inv, Alone, Open
<1>13. StoredIsWhole'
  <2>1. (o \in row \ hurt) => Size[o] \in 1..sent[p]
    BY <1>1 DEF Inv, StoredIsWhole, Whole, Intact, Open, Chunks
  <2>2. o \notin row \ hurt
    BY <1>1, <2>1
  <2>3. QED
    BY <1>1, <1>2, <1>5, <2>2 DEF Inv, StoredIsWhole, Whole, RestTypes, Chunks
<1>14. AnswersAreKept'
  BY <1>2 DEF Inv, AnswersAreKept
<1>15. QED
  BY <1>6, <1>11, <1>12, <1>13, <1>14 DEF Inv

-----------------------------------------------------------------------------
(* Runs of the mirror job                                                  *)

LEMMA MirrorStep ==
    ASSUME Inv, NEW m \in Mirrors, ProcTypes', RestTypes', OthersStay(m),
           pc'[m] \notin Open, Fits(m)', UNCHANGED <<file, repo, answer>>,
           hurt \subseteq hurt', row \subseteq row',
           \A o \in row' \ row : Whole(o) \/ o \in hurt'
    PROVE  Inv'
<1>1. m \in Procs /\ m \notin Handlers
  BY NotHandler DEF Procs
<1>2. FileTypes'
  BY Types DEF Inv, FileTypes, Exists
<1>3. TypeOK'
  BY <1>2 DEF TypeOK, ProcTypes, FileTypes, RestTypes
<1>4. Intact(m)'
  BY <1>1 DEF Intact
<1>5. QED
  BY <1>1, <1>3, <1>4, QuietStep

LEMMA MirrorTypes ==
    ASSUME Inv, NEW m \in Mirrors
    PROVE  /\ m \in Procs /\ m \notin Handlers
           /\ ProcTypes /\ FileTypes /\ RestTypes /\ Fits(m)
  BY Types, NotHandler DEF Inv, Shaped, Procs

\* A run that returns, with or without an error.
LEMMA ReturnInv ==
    ASSUME Inv, NEW m \in Mirrors, Return(m), tx' \in {tx, None},
           done' \subseteq done \cup {m}, UNCHANGED <<file, row, repo, hurt, answer>>
    PROVE  Inv'
<1>1. /\ m \in Procs /\ m \notin Handlers /\ ProcTypes /\ RestTypes
  BY MirrorTypes
<1>2. /\ ProcTypes' /\ OthersStay(m) /\ pc'[m] = "idle" /\ Fits(m)'
  BY <1>1, Ended DEF Return
<1>3. RestTypes'
  BY <1>1 DEF RestTypes, Return
<1>4. QED
  BY <1>1, <1>2, <1>3, MirrorStep DEF Open

\* A run that goes on with the object o, and writes no file meanwhile.
LEMMA MirrorMoves ==
    ASSUME Inv, NEW m \in Mirrors, pc[m] \notin Open,
           NEW place \in MirrorPC \ Open, NEW o \in Oids \cup {None},
           Moves(m, place, o), place \in Held => o \in Oids, RestTypes',
           UNCHANGED <<file, repo, answer>>, hurt \subseteq hurt', row \subseteq row',
           \A x \in row' \ row : Whole(x) \/ x \in hurt'
    PROVE  Inv'
<1>1. m \in Procs /\ m \notin Handlers /\ ProcTypes /\ Fits(m)
  BY MirrorTypes
<1>2. /\ ProcTypes' /\ OthersStay(m)
      /\ pc'[m] = place /\ obj'[m] = o /\ sent'[m] = sent[m]
  BY <1>1, Moved
<1>3. Fits(m)'
  BY <1>1, <1>2 DEF Fits, Open
<1>4. QED
  BY <1>1, <1>2, <1>3, MirrorStep

LEMMA MirrorStartsInv == ASSUME Inv, NEW m \in Mirrors, MirrorStarts(m) PROVE Inv'
<1>1. /\ m \in Procs /\ ProcTypes /\ RestTypes
  BY MirrorTypes
<1>2. RestTypes'
  BY <1>1 DEF RestTypes, MirrorStarts, stores
<1>3. Moves(m, "search", obj[m]) /\ obj[m] \in Oids \cup {None}
  BY <1>1 DEF MirrorStarts, Go, Moves, ProcTypes
<1>4. QED
  BY <1>1, <1>2, <1>3, MirrorMoves DEF MirrorStarts, stores, At, Open, Held, MirrorPC

LEMMA LookInv == ASSUME Inv, NEW m \in Mirrors, Look(m) PROVE Inv'
<1>1. /\ m \in Procs /\ ProcTypes /\ RestTypes
  BY MirrorTypes
<1>2. PICK o \in todo[m] :
        /\ todo' = [todo EXCEPT ![m] = @ \ {o}]
        /\ obj' = [obj EXCEPT ![m] = o]
        /\ found' = IF o \in row THEN found \cup {m} ELSE found \ {m}
  BY DEF Look
<1>3. o \in Oids
  BY <1>1, <1>2 DEF RestTypes
<1>4. RestTypes'
  BY <1>1, <1>2 DEF RestTypes, Look, stores
<1>5. Moves(m, "look", o)
  BY <1>2 DEF Look, Go, Moves
<1>6. QED
  BY <1>1, <1>3, <1>4, <1>5, MirrorMoves DEF Look, stores, At, Open, Held, MirrorPC

LEMMA LookFileInv == ASSUME Inv, NEW m \in Mirrors, LookFile(m) PROVE Inv'
<1>1. /\ m \in Procs /\ ProcTypes /\ RestTypes /\ pc[m] = "look" /\ obj[m] \in Oids
  BY MirrorTypes DEF LookFile, At, Fits, Held
<1>2. RestTypes'
  BY <1>1 DEF RestTypes, LookFile, stores
<1>3. PICK place \in {"adopt", "fetch", "search"} : pc' = [pc EXCEPT ![m] = place]
  BY DEF LookFile, Go
<1>4. Moves(m, place, obj[m])
  BY <1>1, <1>3 DEF LookFile, Moves, ProcTypes
<1>5. QED
  BY <1>1, <1>2, <1>4, MirrorMoves DEF LookFile, stores, Open, MirrorPC

\* What is adopted before it is whole is hurt.
LEMMA MirrorAdoptsInv == ASSUME Inv, NEW m \in Mirrors, MirrorAdopts(m) PROVE Inv'
<1>1. /\ m \in Procs /\ ProcTypes /\ RestTypes /\ pc[m] = "adopt" /\ obj[m] \in Oids
  BY MirrorTypes DEF MirrorAdopts, At, Fits, Held
<1>2. CASE Accepted(obj[m])
  <2>1. RestTypes'
    BY <1>1, <1>2 DEF RestTypes, MirrorAdopts, mirrorVars
  <2>2. Moves(m, "search", obj[m])
    BY <1>1, <1>2 DEF MirrorAdopts, Go, Moves, ProcTypes
  <2>3. QED
    BY <1>1, <1>2, <2>1, <2>2, MirrorMoves
    DEF MirrorAdopts, mirrorVars, Open, Held, MirrorPC
<1>3. CASE ~Accepted(obj[m])
  BY <1>3, ReturnInv DEF MirrorAdopts
<1>4. QED
  BY <1>2, <1>3

LEMMA FetchInv == ASSUME Inv, NEW m \in Mirrors, Fetch(m) PROVE Inv'
<1>1. /\ m \in Procs /\ ProcTypes /\ RestTypes /\ pc[m] = "fetch"
  BY MirrorTypes DEF Fetch, At
<1>2. PICK o \in batch[m] : /\ obj' = [obj EXCEPT ![m] = o]
                           /\ batch' = [batch EXCEPT ![m] = @ \ {o}]
  BY DEF Fetch
<1>3. o \in Oids
  BY <1>1 DEF RestTypes
<1>4. RestTypes'
  BY <1>1, <1>2 DEF RestTypes, Fetch, stores
<1>5. Moves(m, "insert", o)
  BY <1>2 DEF Fetch, Go, Moves
<1>6. QED
  BY <1>1, <1>3, <1>4, <1>5, MirrorMoves DEF Fetch, stores, Open, Held, MirrorPC

LEMMA MirrorInsertsInv == ASSUME Inv, NEW m \in Mirrors, MirrorInserts(m) PROVE Inv'
<1>1. /\ m \in Procs /\ ProcTypes /\ RestTypes /\ pc[m] = "insert" /\ obj[m] \in Oids
  BY MirrorTypes DEF MirrorInserts, At, Fits, Held
<1>2. CASE Accepted(obj[m])
  <2>1. RestTypes'
    BY <1>1, <1>2 DEF RestTypes, MirrorInserts, mirrorVars
  <2>2. Moves(m, "create", obj[m])
    BY <1>1, <1>2 DEF MirrorInserts, Go, Moves, ProcTypes
  <2>3. QED
    BY <1>1, <1>2, <2>1, <2>2, MirrorMoves DEF MirrorInserts, Open, Held, MirrorPC
<1>3. CASE ~Accepted(obj[m])
  BY <1>3, ReturnInv DEF MirrorInserts
<1>4. QED
  BY <1>2, <1>3

LEMMA CommitInv == ASSUME Inv, NEW m \in Mirrors, Commit(m) PROVE Inv'
<1>1. /\ m \in Procs /\ ProcTypes /\ RestTypes
  BY MirrorTypes
<1>2. obj[m] \in Oids /\ (Whole(obj[m]) \/ obj[m] \in hurt)
  BY <1>1, WrittenIsWhole DEF Commit
<1>3. RestTypes'
  BY <1>1, <1>2 DEF RestTypes, Commit, mirrorVars
<1>4. /\ ProcTypes' /\ OthersStay(m) /\ pc'[m] = "fetch" /\ sent'[m] = 0
  BY <1>1 DEF Commit, Go, ProcTypes, OthersStay, MirrorPC
<1>5. Fits(m)'
  BY <1>4 DEF Fits, Held, Open
<1>6. QED
  BY <1>1, <1>2, <1>3, <1>4, <1>5, MirrorStep DEF Commit, Open

LEMMA BatchDoneInv == ASSUME Inv, NEW m \in Mirrors, BatchDone(m) PROVE Inv'
<1>1. /\ m \in Procs /\ ProcTypes /\ RestTypes /\ pc[m] = "fetch"
  BY MirrorTypes DEF BatchDone, At
<1>2. RestTypes'
  BY <1>1 DEF RestTypes, BatchDone, stores
<1>3. Moves(m, "search", obj[m]) /\ obj[m] \in Oids \cup {None}
  BY <1>1 DEF BatchDone, Go, Moves, ProcTypes
<1>4. QED
  BY <1>1, <1>2, <1>3, MirrorMoves DEF BatchDone, stores, Open, Held, MirrorPC

LEMMA SearchEndsInv == ASSUME Inv, NEW m \in Mirrors, SearchEnds(m) PROVE Inv'
  BY ReturnInv DEF SearchEnds, stores

LEMMA MirrorFailsInv == ASSUME Inv, NEW m \in Mirrors, MirrorFails(m) PROVE Inv'
  BY ReturnInv DEF MirrorFails

-----------------------------------------------------------------------------
(* DeleteRepository, and a crash                                           *)

\* What is removed is hurt, and its writers write to no name any more.
LEMMA DeleteFilesInv == ASSUME Inv, DeleteFiles PROVE Inv'
<1>1. ProcTypes /\ FileTypes /\ RestTypes
  BY Types DEF Inv
<1>2. PICK removed \in SUBSET row :
        /\ file' = [o \in Oids |-> IF o \in removed THEN Absent ELSE file[o]]
        /\ live' = [p \in Procs |-> live[p] /\ obj[p] \notin removed]
        /\ hurt' = hurt \cup removed
  BY DEF DeleteFiles
<1>3. /\ UNCHANGED <<row, tx, pc, obj, sent, answer, todo, batch, found, done>>
      /\ repo' = "deleting" /\ removed \subseteq Oids
  BY <1>1, <1>2 DEF DeleteFiles, mirrorVars, RestTypes
<1>4. TypeOK'
  <2>1. ProcTypes'
    BY <1>1, <1>2, <1>3 DEF ProcTypes
  <2>2. FileTypes'
    BY <1>1, <1>2, <1>3 DEF FileTypes, Exists, Chunks
  <2>3. RestTypes'
    BY <1>1, <1>2, <1>3 DEF RestTypes
  <2>4. QED
    BY <2>1, <2>2, <2>3 DEF TypeOK, ProcTypes, FileTypes, RestTypes
<1>5. ASSUME NEW p \in Procs PROVE Fits(p)' /\ Intact(p)'
  <2>1. Fits(p) /\ Intact(p) /\ live'[p] = (live[p] /\ obj[p] \notin removed)
    BY <1>2 DEF Inv, Shaped
  <2>2. Fits(p)'
    BY <1>3, <2>1 DEF Fits
  <2>3. CASE obj[p] \in removed
    BY <1>2, <1>3, <2>1, <2>2, <2>3 DEF Intact
  <2>4. CASE obj[p] \notin removed /\ pc[p] \in Held
    <3>1. file'[obj[p]] = file[obj[p]]
      BY <1>2, <2>1, <2>4 DEF Fits
    <3>2. QED
      BY <1>2, <1>3, <2>1, <2>2, <2>4, <3>1 DEF Intact, Whole, Chunks
  <2>5. CASE pc[p] \notin Held
    BY <1>3, <2>2, <2>5 DEF Intact, Held, Open
  <2>6. QED
    BY <2>3, <2>4, <2>5
<1>6. Shaped'
  BY <1>5 DEF Shaped
<1>7. Alone'
  BY <1>2, <1>3 DEF Inv, Alone
<1>8. StoredIsWhole'
  BY <1>1, <1>2, <1>3 DEF Inv, StoredIsWhole, Whole, Chunks, RestTypes
<1>9. AnswersAreKept'
  BY <1>3 DEF Inv, AnswersAreKept, DeleteFiles
<1>10. QED
  BY <1>4, <1>6, <1>7, <1>8, <1>9 DEF Inv

LEMMA DeleteEndsInv == ASSUME Inv, DeleteCommits \/ DeleteFails PROVE Inv'
<1>1. /\ UNCHANGED <<file, tx, hurt, pc, obj, sent, live, answer, todo, batch, found, done>>
      /\ repo' \in {"there", "gone"} /\ row' \in {row, {}}
      /\ row' = row \/ repo' = "gone"
      /\ repo = "deleting"
  BY DEF DeleteCommits, DeleteFails, procs, mirrorVars
<1>2. TypeOK'
  BY <1>1 DEF Inv, TypeOK, Exists, Chunks
<1>3. Shaped' /\ Alone'
  BY <1>1 DEF Inv, Shaped, Alone, Fits, Intact, Whole, Chunks
<1>4. StoredIsWhole' /\ AnswersAreKept'
  BY <1>1 DEF Inv, StoredIsWhole, Whole, Chunks, AnswersAreKept
<1>5. QED
  BY <1>2, <1>3, <1>4 DEF Inv

LEMMA CrashInv == ASSUME Inv, Crash PROVE Inv'
<1>1. RestTypes /\ FileTypes
  BY Types DEF Inv
<1>2. ProcTypes' /\ FileTypes' /\ RestTypes'
  BY <1>1 DEF Crash, ProcTypes, FileTypes, RestTypes, HandlerPC, Exists, Chunks
<1>3. TypeOK'
  BY <1>2 DEF TypeOK, ProcTypes, FileTypes, RestTypes
<1>4. \A p \in Procs : pc'[p] = "idle" /\ sent'[p] = 0
  BY DEF Crash
<1>5. Shaped' /\ Alone'
  BY <1>4 DEF Shaped, Alone, Fits, Intact, Held, Open
<1>6. StoredIsWhole' /\ AnswersAreKept'
  BY DEF Inv, Crash, StoredIsWhole, Whole, Chunks, AnswersAreKept
<1>7. QED
  BY <1>3, <1>5, <1>6 DEF Inv

-----------------------------------------------------------------------------
(* The theorems                                                            *)

LEMMA InitInv == Init => Inv
<1> SUFFICES ASSUME Init PROVE Inv
  OBVIOUS
<1>1. ProcTypes /\ FileTypes /\ RestTypes
  BY DEF Init, ProcTypes, FileTypes, RestTypes, HandlerPC, Exists
<1>2. Shaped /\ Alone
  BY DEF Init, Shaped, Alone, Fits, Intact, Held, Open
<1>3. StoredIsWhole /\ AnswersAreKept
  BY DEF Init, StoredIsWhole, AnswersAreKept
<1>4. QED
  BY <1>1, <1>2, <1>3, Types DEF Inv

LEMMA NextInv == Inv /\ [Next]_vars => Inv'
<1> SUFFICES ASSUME Inv, [Next]_vars PROVE Inv'
  OBVIOUS
<1>1. CASE UNCHANGED vars
  BY <1>1 DEF vars, stores, procs, mirrorVars, Inv, TypeOK, Exists, Chunks, Shaped, Alone,
              Fits, Intact, Whole, StoredIsWhole, AnswersAreKept
<1>2. ASSUME NEW h \in Handlers, HandlerNext(h) PROVE Inv'
  <2>1. ASSUME NEW o \in Oids, Upload(h, o) \/ Batch(h, o) \/ Verify(h, o) PROVE Inv'
    BY <2>1, UploadInv, BatchInv, VerifyInv
  <2>2. CASE CreateFile(h) \/ WriteChunk(h)
    BY <2>2, CreateFileInv, WriteChunkInv DEF Procs
  <2>3. CASE UploadRow(h) \/ BatchRow(h) \/ BatchAdopt(h) \/ VerifyRow(h) \/ RequestFails(h)
    BY <2>3, UploadRowInv, BatchRowInv, BatchAdoptInv, VerifyRowInv, RequestFailsInv
  <2>4. QED
    BY <1>2, <2>1, <2>2, <2>3 DEF HandlerNext
<1>3. ASSUME NEW m \in Mirrors, MirrorNext(m) PROVE Inv'
  <2>1. CASE CreateFile(m) \/ WriteChunk(m)
    BY <2>1, CreateFileInv, WriteChunkInv DEF Procs
  <2>2. CASE MirrorStarts(m) \/ Look(m) \/ LookFile(m) \/ MirrorAdopts(m) \/ Fetch(m)
                 \/ MirrorInserts(m)
    BY <2>2, MirrorStartsInv, LookInv, LookFileInv, MirrorAdoptsInv, FetchInv,
       MirrorInsertsInv
  <2>3. CASE Commit(m) \/ BatchDone(m) \/ SearchEnds(m) \/ MirrorFails(m)
    BY <2>3, CommitInv, BatchDoneInv, SearchEndsInv, MirrorFailsInv
  <2>4. QED
    BY <1>3, <2>1, <2>2, <2>3 DEF MirrorNext
<1>4. CASE DeleteNext
  BY <1>4, DeleteFilesInv, DeleteEndsInv DEF DeleteNext
<1>5. QED
  BY <1>1, <1>2, <1>3, <1>4, CrashInv DEF Next

LEMMA Invariance == Spec => []Inv
  BY InitInv, NextInv, PTL DEF Spec

\* The variables have their types.
THEOREM ObjectsTypeCorrect == Spec => []TypeOK
<1>1. Inv => TypeOK
  BY DEF Inv
<1>2. QED
  BY <1>1, Invariance, PTL

\* However many requests, runs and deletions write, remove, fail and crash at
\* any of their steps, on objects of any size: the file of an object with a
\* row is whole, unless a second writer, a hasty adoption or a DeleteRepository
\* damaged it.
THEOREM ObjectsAreWhole == Spec => []StoredIsWhole
<1>1. Inv => StoredIsWhole
  BY DEF Inv
<1>2. QED
  BY <1>1, Invariance, PTL

\* What a client was told is stored, linked or verified has its row as long as
\* there is the repository.
THEOREM AnswersHaveRows == Spec => []AnswersAreKept
<1>1. Inv => AnswersAreKept
  BY DEF Inv
<1>2. QED
  BY <1>1, Invariance, PTL
===============================================================================
