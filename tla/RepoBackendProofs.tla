-------------------------- MODULE RepoBackendProofs --------------------------
(***************************************************************************)
(* Proofs about RepoBackend for every set of callers and names and every   *)
(* value of the bounds.                                                    *)
(***************************************************************************)
EXTENDS RepoBackend, FiniteSetTheorems, TLAPS

-----------------------------------------------------------------------------
(* The inductive invariant                                                 *)

\* What a caller's record holds at each point of its operation.
Shape(c) ==
    /\ c.pc # "idle" => c.name \in Names
    /\ c.op = "rename" => c.new \in Names /\ c.new # c.name
    /\ c.pc \in {"insert", "initdir"} => c.op = "create"
    /\ c.pc \in {"remove", "rmdir"} => c.op = "delete"
    /\ c.pc \in {"check", "move", "mvdir"} => c.op = "rename"
    /\ c.pc \in {"drop", "export", "update"} => c.op = "private"
    /\ c.pc = "uncache" => c.op \in {"delete", "rename"}
    /\ c.pc = "commit" => c.op \in {"create", "delete", "rename", "private"}
    /\ c.pc # "fill" => c.row = None

Shapes == \A p \in Procs : Shape(call[p])

\* Exactly the caller that holds the write lock is inside a transaction.
Locked ==
    /\ writer # None => call[writer].pc \in InTx
    /\ \A p \in Procs : call[p].pc \in InTx => writer = p

\* What the working copy of the open transaction is, given the committed rows.
Working(c) ==
    CASE c.op = "create" -> /\ issued < MaxRepos
                            /\ db[c.name] = None
                            /\ tx = Inserted(c.name, c.private)
      [] c.op = "delete" -> /\ db[c.name] # None
                            /\ tx = [db EXCEPT ![c.name] = None]
      [] c.op = "rename" -> /\ db[c.name] = None \/ db[c.new] = None
                            /\ tx = Renamed(c.name, c.new)
      [] c.op = "private" -> tx = Updated(c.name, c.private)
      [] OTHER -> FALSE

TxFollowsOp == IF writer = None THEN tx = db ELSE Working(call[writer])

\* Ids are handed out in order and never twice.
IdsIssued ==
    /\ \A n \in Names : db[n] # None => db[n].id <= issued
    /\ \A m, n \in Names :
          db[m] # None /\ db[n] # None /\ m # n => db[m].id # db[n].id

PastCovers == \A n \in Names : db[n] # None => <<n, db[n].id>> \in past

\* Inductive by itself; CacheFromPast and InStep are inductive relative to it.
Core == Typed /\ Shapes /\ Locked /\ TxFollowsOp /\ IdsIssued /\ PastCovers

-----------------------------------------------------------------------------
(* Types and shapes                                                        *)

LEMMA IdleTyped == Idle \in Call /\ Shape(Idle)
  BY ConstantsOK DEF Idle, Call, PC, Op, Result, Shape

\* The assignments to `call` the actions are made of keep it well-typed.
LEMMA CallUpdate ==
    ASSUME Typed, Shapes, NEW p \in Procs, NEW c \in Call, Shape(c),
           call' = [call EXCEPT ![p] = c]
    PROVE  call' \in [Procs -> Call] /\ Shapes'
  BY DEF Typed, Shapes

LEMMA FinishTyped ==
    ASSUME Typed, Shapes, NEW p \in Procs, NEW res \in Result, Finish(p, res)
    PROVE  call' \in [Procs -> Call] /\ Shapes'
<1> DEFINE c == [Idle EXCEPT !.res = res]
<1>1. c \in Call /\ Shape(c)
  BY ConstantsOK DEF Idle, Call, PC, Op, Shape
<1>2. QED
  BY <1>1, CallUpdate DEF Finish

LEMMA StartTyped ==
    ASSUME Typed, Shapes, NEW p \in Procs, NEW op \in Op, NEW pc \in PC,
           NEW n \in Names, NEW m \in Names \cup {None}, NEW b \in BOOLEAN,
           <<op, pc>> \in {<<"create", "insert">>, <<"private", "drop">>,
                          <<"delete", "get">>, <<"read", "get">>,
                          <<"rename", "check">>},
           op = "rename" => m \in Names /\ m # n,
           Start(p, op, pc, n, m, b)
    PROVE  call' \in [Procs -> Call] /\ Shapes'
<1> DEFINE c == [Idle EXCEPT !.op = op, !.pc = pc, !.name = n, !.new = m,
                             !.private = b]
<1>1. c \in Call /\ Shape(c)
  BY DEF Idle, Call, Result, Shape
<1>2. QED
  BY <1>1, CallUpdate DEF Start

\* Moving on within an operation that has reached a point of its own.
LEMMA GotoTyped ==
    ASSUME Typed, Shapes, NEW p \in Procs, NEW pc \in PC, Goto(p, pc),
           call[p].pc # "idle", call[p].row = None, pc # "fill",
           pc \in {"insert", "initdir"} => call[p].op = "create",
           pc \in {"remove", "rmdir"} => call[p].op = "delete",
           pc \in {"check", "move", "mvdir"} => call[p].op = "rename",
           pc \in {"drop", "export", "update"} => call[p].op = "private",
           pc = "uncache" => call[p].op \in {"delete", "rename"},
           pc = "commit" => call[p].op \in {"create", "delete", "rename", "private"}
    PROVE  call' \in [Procs -> Call] /\ Shapes'
<1> DEFINE c == [call[p] EXCEPT !.pc = pc]
<1>1. c \in Call /\ Shape(c)
  BY DEF Typed, Call, Shapes, Shape
<1>2. QED
  BY <1>1, CallUpdate DEF Goto

LEMMA FoundTyped ==
    ASSUME Typed, Shapes, NEW p \in Procs, call[p].pc # "idle", Found(p)
    PROVE  call' \in [Procs -> Call] /\ Shapes'
<1>1. CASE call[p].op = "delete"
  <2> DEFINE c == [call[p] EXCEPT !.pc = "remove", !.row = None]
  <2>1. c \in Call
    BY DEF Typed, Call, PC
  <2>4. Shape(c)
    <3>1. call[p] \in Call /\ Shape(call[p])
      BY DEF Typed, Shapes
    <3>2. c.pc = "remove" /\ c.row = None /\ c.op = "delete" /\ c.name = call[p].name
      BY <1>1, <3>1 DEF Call
    <3>3. QED
      BY <3>1, <3>2 DEF Shape
  <2>2. call' = [call EXCEPT ![p] = c]
    BY <1>1 DEF Found
  <2>3. QED
    BY <2>1, <2>2, <2>4, CallUpdate
<1>2. CASE call[p].op # "delete"
  BY <1>2, FinishTyped DEF Found, Result
<1>3. QED
  BY <1>1, <1>2

LEMMA TargetTyped ==
    ASSUME Typed, Shapes, NEW p \in Procs, call[p].pc # "idle"
    PROVE  Target(p) \in Names
  BY DEF Typed, Shapes, Shape, Target, Call

LEMMA BeginTyped ==
    ASSUME Typed, Shapes, NEW p \in Procs, Begin(p)
    PROVE  Typed' /\ Shapes'
<1> SUFFICES call' \in [Procs -> Call] /\ Shapes'
  BY DEF Begin, Typed, Rows, Bounds
<1>1. PICK n \in Names :
          \/ \E b \in BOOLEAN : \/ Start(p, "create", "insert", n, None, b)
                               \/ Start(p, "private", "drop", n, None, b)
          \/ Start(p, "delete", "get", n, None, FALSE)
          \/ Start(p, "read", "get", n, None, FALSE)
          \/ \E m \in Names \ {n} : Start(p, "rename", "check", n, m, FALSE)
  BY DEF Begin
<1>2. ASSUME NEW b \in BOOLEAN, Start(p, "create", "insert", n, None, b)
      PROVE  call' \in [Procs -> Call] /\ Shapes'
  BY <1>2, StartTyped DEF Op, PC
<1>3. ASSUME NEW b \in BOOLEAN, Start(p, "private", "drop", n, None, b)
      PROVE  call' \in [Procs -> Call] /\ Shapes'
  BY <1>3, StartTyped DEF Op, PC
<1>4. CASE Start(p, "delete", "get", n, None, FALSE)
  BY <1>4, StartTyped DEF Op, PC
<1>5. CASE Start(p, "read", "get", n, None, FALSE)
  BY <1>5, StartTyped DEF Op, PC
<1>6. ASSUME NEW m \in Names \ {n}, Start(p, "rename", "check", n, m, FALSE)
      PROVE  call' \in [Procs -> Call] /\ Shapes'
  BY <1>6, StartTyped DEF Op, PC
<1>7. QED
  BY <1>1, <1>2, <1>3, <1>4, <1>5, <1>6

LEMMA LookupTyped ==
    ASSUME Typed, Shapes, NEW p \in Procs, Lookup(p)
    PROVE  Typed' /\ Shapes'
<1> USE DEF At, Rows, Bounds
<1>1. CASE CacheHit(p)
  BY <1>1, FoundTyped DEF CacheHit, Typed
<1>2. CASE CacheMiss(p)
  <2>1. Goto(p, "stat") /\ call[p].pc = "get" /\ call[p].row = None
    BY <1>2 DEF CacheMiss, Shapes, Shape
  <2>2. call' \in [Procs -> Call] /\ Shapes'
    BY <2>1, GotoTyped DEF PC
  <2>3. QED
    BY <1>2, <2>2 DEF CacheMiss, Typed
<1>3. CASE StatDir(p)
  <2>1. call[p].pc = "stat" /\ call[p].row = None
    BY <1>3 DEF StatDir, Shapes, Shape
  <2>2. \/ Finish(p, "notfound") \/ Goto(p, "query")
    BY <1>3 DEF StatDir
  <2>3. call' \in [Procs -> Call] /\ Shapes'
    BY <2>1, <2>2, GotoTyped, FinishTyped DEF PC, Result
  <2>4. QED
    BY <1>3, <2>3 DEF StatDir, Typed
<1>4. CASE QueryRow(p)
  <2> DEFINE c == [call[p] EXCEPT !.pc = "fill", !.row = db[Target(p)]]
  <2>1. Target(p) \in Names
    BY <1>4, TargetTyped DEF QueryRow
  <2>2. c \in Call /\ Shape(c)
    <3>1. call[p].pc = "query" /\ call[p] \in Call /\ Shape(call[p])
      BY <1>4 DEF QueryRow, Typed, Shapes
    <3>2. db[Target(p)] \in Row \cup {None} /\ "fill" \in PC
      BY <2>1 DEF Typed, PC
    <3>3. c \in Call
      BY <3>1, <3>2 DEF Call
    <3>4. Shape(c)
      BY <3>1 DEF Call, Shape
    <3>5. QED
      BY <3>3, <3>4
  <2>3. \/ Finish(p, "notfound") \/ call' = [call EXCEPT ![p] = c]
    BY <1>4 DEF QueryRow, FoundRow
  <2>4. call' \in [Procs -> Call] /\ Shapes'
    BY <2>2, <2>3, CallUpdate, FinishTyped DEF Result
  <2>5. QED
    BY <1>4, <2>4 DEF QueryRow, Typed
<1>5. CASE FillCache(p)
  BY <1>5, FoundTyped DEF FillCache, Typed, Call
<1>6. QED
  BY <1>1, <1>2, <1>3, <1>4, <1>5 DEF Lookup

LEMMA CreatingTyped ==
    ASSUME Typed, Shapes, NEW p \in Procs, Creating(p)
    PROVE  Typed' /\ Shapes'
<1> USE DEF At, Rows, Bounds
<1>0. call[p] \in Call /\ Shape(call[p])
  BY DEF Typed, Shapes
<1>1. CASE InsertRow(p)
  <2>1. call[p].pc = "insert" /\ call[p].row = None /\ call[p].op = "create"
    BY <1>0, <1>1 DEF InsertRow, Shape
  <2>2. \/ Finish(p, "exist") \/ Finish(p, "error") \/ Goto(p, "initdir")
    BY <1>1 DEF InsertRow
  <2>3. call' \in [Procs -> Call] /\ Shapes'
    BY <2>1, <2>2, GotoTyped, FinishTyped DEF PC, Result
  <2>4. tx' \in [Names -> Row \cup {None}] /\ writer' \in Procs \cup {None}
    <3>1. CASE UNCHANGED Rows
      BY <3>1 DEF Typed
    <3>2. CASE issued < MaxRepos /\ OpenTx(p, Inserted(call[p].name, call[p].private))
      <4>1. [id |-> issued + 1, private |-> call[p].private] \in Row
        BY <1>0, <3>2, ConstantsOK DEF Typed, Call, Row
      <4>2. QED
        BY <3>2, <4>1 DEF OpenTx, Inserted, Typed
    <3>3. QED
      BY <1>1, <3>1, <3>2 DEF InsertRow
  <2>5. QED
    BY <1>1, <2>3, <2>4 DEF InsertRow, OpenTx, Typed
<1>2. ASSUME NEW d \in Dir \cup {None}, NEW b \in BOOLEAN
      PROVE  InitializedDir(d, b) \in Dir
  <2>1. CASE d = None
    BY <2>1, ConstantsOK DEF InitializedDir, Dir
  <2>2. CASE d \in Dir
    <3>1. d # None /\ d.export \in BOOLEAN
      BY <2>2, ConstantsOK DEF Dir
    <3>2. (d.export \/ ~b) \in BOOLEAN
      OBVIOUS
    <3>3. [d EXCEPT !.export = d.export \/ ~b] \in Dir
      BY <2>2, <3>2 DEF Dir
    <3>4. QED
      BY <3>1, <3>3 DEF InitializedDir
  <2>3. QED
    BY <1>2, <2>1, <2>2
<1>3. CASE InitDir(p)
  <2>1. call[p].pc = "initdir" /\ call[p].row = None /\ call[p].op = "create"
    BY <1>0, <1>3 DEF InitDir, Shape
  <2>2. call' \in [Procs -> Call] /\ Shapes'
    BY <1>3, <2>1, GotoTyped DEF InitDir, PC
  <2>3. disk' \in [Names -> Dir \cup {None}]
    BY <1>0, <1>2, <1>3 DEF InitDir, Typed, Call
  <2>4. QED
    BY <1>3, <2>2, <2>3 DEF InitDir, Typed
<1>4. CASE InitDirFails(p)
  <2>1. call' \in [Procs -> Call] /\ Shapes'
    BY <1>4, FinishTyped DEF InitDirFails, Result
  <2>2. disk' \in [Names -> Dir \cup {None}]
    <3>1. call[p].name \in Names /\ call[p].private \in BOOLEAN
      BY <1>0, <1>4 DEF InitDirFails, Call, Shape
    <3>2. disk[call[p].name] \in Dir \cup {None}
      BY <3>1 DEF Typed
    <3>3. ASSUME NEW b \in {TRUE, call[p].private},
                 disk' = [disk EXCEPT ![call[p].name] = InitializedDir(@, b)]
          PROVE  disk' \in [Names -> Dir \cup {None}]
      <4>1. InitializedDir(disk[call[p].name], b) \in Dir
        BY <1>2, <3>1, <3>2
      <4>2. QED
        BY <3>3, <4>1 DEF Typed
    <3>4. QED
      BY <1>4, <3>3 DEF InitDirFails, Typed
  <2>3. faults' \in 0 .. MaxFaults
    BY <1>4, ConstantsOK DEF InitDirFails, Fault, Typed
  <2>4. QED
    BY <1>4, <2>1, <2>2, <2>3 DEF InitDirFails, Fault, Rollback, Typed
<1>5. QED
  BY <1>1, <1>3, <1>4 DEF Creating

LEMMA DeletingTyped ==
    ASSUME Typed, Shapes, NEW p \in Procs, Deleting(p)
    PROVE  Typed' /\ Shapes'
<1> USE DEF At, Rows, Bounds, Uncached
<1>0. call[p] \in Call /\ Shape(call[p])
  BY DEF Typed, Shapes
<1>1. CASE RemoveNothing(p)
  <2>1. faults' \in 0 .. MaxFaults /\ strays' \in Nat
    BY <1>1, ConstantsOK DEF RemoveNothing, Fault, Typed
  <2>2. QED
    BY <1>1, <2>1, FinishTyped DEF RemoveNothing, Result, Typed
<1>2. CASE RemoveOrphan(p)
  <2>1. call' \in [Procs -> Call] /\ Shapes'
    BY <1>2, FinishTyped DEF RemoveOrphan, Result
  <2>2. disk' \in [Names -> Dir \cup {None}] /\ cache' \in [Names -> Row \cup {None}]
    BY <1>2 DEF RemoveOrphan, Typed
  <2>3. faults' \in 0 .. MaxFaults /\ strays' \in Nat
    BY <1>2, ConstantsOK DEF RemoveOrphan, Fault, Typed
  <2>4. QED
    BY <1>2, <2>1, <2>2, <2>3 DEF RemoveOrphan, Typed
<1>3. CASE RemoveRow(p)
  <2>1. call[p].pc = "remove" /\ call[p].row = None /\ call[p].op = "delete"
    BY <1>0, <1>3 DEF RemoveRow, Shape
  <2>2. call' \in [Procs -> Call] /\ Shapes'
    BY <1>3, <2>1, GotoTyped DEF RemoveRow, PC
  <2>3. QED
    BY <1>3, <2>2 DEF RemoveRow, OpenTx, Typed
<1>4. CASE RemoveDir(p)
  <2>1. call[p].pc = "rmdir" /\ call[p].row = None /\ call[p].op = "delete"
    BY <1>0, <1>4 DEF RemoveDir, Shape
  <2>2. call' \in [Procs -> Call] /\ Shapes'
    BY <1>4, <2>1, GotoTyped DEF RemoveDir, PC
  <2>3. disk' \in [Names -> Dir \cup {None}]
    BY <1>4 DEF RemoveDir, Typed
  <2>4. QED
    BY <1>4, <2>2, <2>3 DEF RemoveDir, Typed
<1>5. CASE RemoveDirFails(p)
  <2>1. call' \in [Procs -> Call] /\ Shapes'
    BY <1>5, FinishTyped DEF RemoveDirFails, Result
  <2>2. faults' \in 0 .. MaxFaults
    BY <1>5, ConstantsOK DEF RemoveDirFails, Fault, Typed
  <2>3. QED
    BY <1>5, <2>1, <2>2 DEF RemoveDirFails, Fault, Rollback, Typed
<1>6. QED
  BY <1>1, <1>2, <1>3, <1>4, <1>5 DEF Deleting

LEMMA RenamingTyped ==
    ASSUME Typed, Shapes, NEW p \in Procs, Renaming(p)
    PROVE  Typed' /\ Shapes'
<1> USE DEF At, Rows, Bounds, Uncached
<1>0. call[p] \in Call /\ Shape(call[p])
  BY DEF Typed, Shapes
<1>1. CASE CheckDirs(p)
  <2>1. call[p].pc = "check" /\ call[p].row = None /\ call[p].op = "rename"
    BY <1>0, <1>1 DEF CheckDirs, Shape
  <2>2. \/ Finish(p, "notfound") \/ Finish(p, "exist") \/ Goto(p, "move")
    BY <1>1 DEF CheckDirs
  <2>3. call' \in [Procs -> Call] /\ Shapes'
    BY <2>1, <2>2, GotoTyped, FinishTyped DEF PC, Result
  <2>4. QED
    BY <1>1, <2>3 DEF CheckDirs, Typed
<1>2. CASE MoveRow(p)
  <2>1. call[p].pc = "move" /\ call[p].row = None /\ call[p].op = "rename"
    BY <1>0, <1>2 DEF MoveRow, Shape
  <2>2. \/ Finish(p, "exist") \/ Goto(p, "mvdir")
    BY <1>2 DEF MoveRow
  <2>3. call' \in [Procs -> Call] /\ Shapes'
    BY <2>1, <2>2, GotoTyped, FinishTyped DEF PC, Result
  <2>4. Renamed(call[p].name, call[p].new) \in [Names -> Row \cup {None}]
    BY <1>0, <2>1 DEF Renamed, Typed, Shape
  <2>5. QED
    BY <1>2, <2>3, <2>4 DEF MoveRow, OpenTx, Typed
<1>3. CASE MoveDir(p)
  <2>1. call[p].pc = "mvdir" /\ call[p].row = None /\ call[p].op = "rename"
    BY <1>0, <1>3 DEF MoveDir, Shape
  <2>2. call' \in [Procs -> Call] /\ Shapes'
    BY <1>3, <2>1, GotoTyped DEF MoveDir, PC
  <2>3. disk' \in [Names -> Dir \cup {None}]
    BY <1>0, <1>3, <2>1 DEF MoveDir, Typed, Shape
  <2>4. QED
    BY <1>3, <2>2, <2>3 DEF MoveDir, Typed
<1>4. CASE MoveDirFails(p)
  <2>1. call' \in [Procs -> Call] /\ Shapes'
    BY <1>4, FinishTyped DEF MoveDirFails, Result
  <2>2. faults' \in 0 .. MaxFaults /\ strays' \in Nat
    BY <1>4, ConstantsOK DEF MoveDirFails, Fault, Typed
  <2>3. QED
    BY <1>4, <2>1, <2>2 DEF MoveDirFails, Rollback, Typed
<1>5. QED
  BY <1>1, <1>2, <1>3, <1>4 DEF Renaming

LEMMA SettingTyped ==
    ASSUME Typed, Shapes, NEW p \in Procs, Setting(p)
    PROVE  Typed' /\ Shapes'
<1> USE DEF At, Rows, Bounds, Uncached
<1>0. call[p] \in Call /\ Shape(call[p])
  BY DEF Typed, Shapes
<1>1. CASE DropCache(p)
  <2>1. call[p].pc = "drop" /\ call[p].row = None /\ call[p].op = "private"
    BY <1>0, <1>1 DEF DropCache, Shape
  <2>2. call' \in [Procs -> Call] /\ Shapes'
    BY <1>1, <2>1, GotoTyped DEF DropCache, PC
  <2>3. QED
    BY <1>1, <2>2 DEF DropCache, Typed
<1>2. CASE SetExport(p)
  <2>1. call[p].pc = "export" /\ call[p].row = None /\ call[p].op = "private"
    BY <1>0, <1>2 DEF SetExport, Shape
  <2>2. \/ Finish(p, "error") \/ Goto(p, "update")
    BY <1>2 DEF SetExport
  <2>3. call' \in [Procs -> Call] /\ Shapes'
    BY <2>1, <2>2, GotoTyped, FinishTyped DEF PC, Result
  <2>4. disk' \in [Names -> Dir \cup {None}]
    <3>1. CASE disk[call[p].name] = None
      BY <1>2, <3>1 DEF SetExport, Typed
    <3>2. CASE disk[call[p].name] # None
      <4>1. disk[call[p].name] \in Dir
        BY <1>0, <2>1, <3>2 DEF Typed, Shape
      <4>2. [disk[call[p].name] EXCEPT !.export = ~call[p].private] \in Dir
        BY <1>0, <4>1 DEF Dir, Call
      <4>3. QED
        BY <1>2, <3>2, <4>2 DEF SetExport, Typed
    <3>3. QED
      BY <3>1, <3>2
  <2>5. QED
    BY <1>2, <2>3, <2>4 DEF SetExport, Typed
<1>3. CASE UpdateRow(p)
  <2>1. call[p].pc = "update" /\ call[p].row = None /\ call[p].op = "private"
    BY <1>0, <1>3 DEF UpdateRow, Shape
  <2>2. call' \in [Procs -> Call] /\ Shapes'
    BY <1>3, <2>1, GotoTyped DEF UpdateRow, PC
  <2>3. Updated(call[p].name, call[p].private) \in [Names -> Row \cup {None}]
    <3>1. CASE db[call[p].name] = None
      BY <3>1 DEF Updated, Typed
    <3>2. CASE db[call[p].name] # None
      <4>1. db[call[p].name] \in Row
        BY <1>0, <2>1, <3>2 DEF Typed, Shape
      <4>2. [db[call[p].name] EXCEPT !.private = call[p].private] \in Row
        BY <1>0, <4>1 DEF Row, Call
      <4>3. QED
        BY <3>2, <4>2 DEF Updated, Typed
    <3>3. QED
      BY <3>1, <3>2
  <2>4. QED
    BY <1>3, <2>2, <2>3 DEF UpdateRow, OpenTx, Typed
<1>4. CASE SetExportFails(p)
  <2>1. call' \in [Procs -> Call] /\ Shapes'
    BY <1>4, FinishTyped DEF SetExportFails, Result
  <2>2. faults' \in 0 .. MaxFaults
    BY <1>4, ConstantsOK DEF SetExportFails, Fault, Typed
  <2>3. QED
    BY <1>4, <2>1, <2>2 DEF SetExportFails, Fault, Typed
<1>5. QED
  BY <1>1, <1>2, <1>3, <1>4 DEF Setting

\* A commit is well-typed because of what the working copy holds: the id of
\* an insert that is about to commit is still within the bound.
LEMMA EndingTyped ==
    ASSUME Typed, Shapes, Locked, TxFollowsOp, NEW p \in Procs, Ending(p)
    PROVE  Typed' /\ Shapes'
<1> USE DEF At, Rows, Bounds, Uncached
<1>0. call[p] \in Call /\ Shape(call[p])
  BY DEF Typed, Shapes
<1>1. CASE DeferredDelete(p)
  <2>1. /\ call[p].pc = "uncache" /\ call[p].row = None
        /\ call[p].op \in {"delete", "rename"}
    BY <1>0, <1>1 DEF DeferredDelete, Shape
  <2>2. call' \in [Procs -> Call] /\ Shapes'
    BY <1>1, <2>1, GotoTyped DEF DeferredDelete, PC
  <2>3. QED
    BY <1>1, <2>2 DEF DeferredDelete, Typed
<1>2. CASE Commit(p)
  <2>1. /\ call[p].pc = "commit" /\ call[p].row = None /\ call[p].name \in Names
        /\ call[p].op \in {"create", "delete", "rename", "private"}
    BY <1>0, <1>2 DEF Commit, Shape
  <2>2. writer = p /\ writer # None /\ Working(call[p])
    BY <2>1, ConstantsOK DEF Locked, InTx, TxFollowsOp
  <2>3. ASSUME call[p].op = "create"
        PROVE  issued < MaxRepos /\ tx[call[p].name].id = issued + 1
    <3>1. issued < MaxRepos /\ tx = Inserted(call[p].name, call[p].private)
      BY <2>2, <2>3 DEF Working
    <3>2. QED
      BY <2>1, <3>1 DEF Inserted, Typed
  <2>4. issued' \in 0 .. MaxRepos
    BY <1>2, <2>3, ConstantsOK DEF Commit, IssuedAfter, Typed
  <2>5. past' \subseteq Names \X (1 .. MaxRepos)
    BY <1>2 DEF Commit, Typed, Row
  <2>6. disk' \in [Names -> Dir \cup {None}]
    <3>1. CASE /\ call[p].op = "create" /\ disk[call[p].name] # None
               /\ disk[call[p].name].data = 0
      <4>1. tx[call[p].name].id \in 0 .. MaxRepos
        BY <2>3, <3>1, ConstantsOK DEF Typed
      <4>2. [disk[call[p].name] EXCEPT !.data = tx[call[p].name].id] \in Dir
        BY <2>1, <3>1, <4>1 DEF Typed, Dir
      <4>3. QED
        BY <1>2, <3>1, <4>2 DEF Commit, Claimed, Typed
    <3>2. CASE ~ /\ call[p].op = "create" /\ disk[call[p].name] # None
                 /\ disk[call[p].name].data = 0
      BY <1>2, <3>2 DEF Commit, Claimed, Typed
    <3>3. QED
      BY <3>1, <3>2
  <2>7. call' \in [Procs -> Call] /\ Shapes'
    <3>1. CASE call[p].op = "delete"
      BY <1>2, <3>1, FinishTyped DEF Commit, Result
    <3>2. CASE call[p].op # "delete"
      <4> DEFINE c == [call[p] EXCEPT !.pc = "get", !.private = FALSE]
      <4>1. c \in Call
        BY <1>0 DEF Call, PC
      <4>2. /\ c.pc = "get" /\ c.op = call[p].op /\ c.name = call[p].name
            /\ c.new = call[p].new /\ c.row = call[p].row
        BY <1>0 DEF Call
      <4>3. Shape(c)
        BY <1>0, <2>1, <4>2 DEF Shape
      <4>4. call' = [call EXCEPT ![p] = c]
        BY <1>2, <3>2 DEF Commit
      <4>5. QED
        BY <4>1, <4>3, <4>4, CallUpdate
    <3>3. QED
      BY <3>1, <3>2
  <2>8. QED
    BY <1>2, <2>4, <2>5, <2>6, <2>7 DEF Commit, Typed
<1>3. CASE CommitFails(p)
  <2>1. call' \in [Procs -> Call] /\ Shapes'
    BY <1>3, FinishTyped DEF CommitFails, Result
  <2>2. faults' \in 0 .. MaxFaults
    BY <1>3, ConstantsOK DEF CommitFails, Fault, Typed
  <2>3. QED
    BY <1>3, <2>1, <2>2 DEF CommitFails, Fault, Rollback, Typed
<1>4. CASE BusyTimeout(p)
  BY <1>4, FinishTyped DEF BusyTimeout, Result, Typed
<1>5. QED
  BY <1>1, <1>2, <1>3, <1>4 DEF Ending

LEMMA TypeStep ==
    ASSUME Typed, Shapes, Locked, TxFollowsOp, [Next]_vars
    PROVE  Typed' /\ Shapes'
<1> USE DEF Rows, Bounds
<1>1. ASSUME NEW p \in Procs,
             \/ Begin(p) \/ ListAll(p) \/ Lookup(p) \/ Creating(p) \/ Deleting(p)
             \/ Renaming(p) \/ Setting(p) \/ Ending(p)
      PROVE  Typed' /\ Shapes'
  <2>1. CASE ListAll(p)
    BY <2>1 DEF ListAll, Typed, Shapes
  <2>2. QED
    BY <1>1, <2>1, BeginTyped, LookupTyped, CreatingTyped, DeletingTyped,
       RenamingTyped, SettingTyped, EndingTyped
<1>2. ASSUME NEW n \in Names, Evict(n)
      PROVE  Typed' /\ Shapes'
  BY <1>2 DEF Evict, Uncached, Typed, Shapes
<1>3. CASE Crash
  <2>1. call' \in [Procs -> Call] /\ Shapes'
    BY <1>3, IdleTyped DEF Crash, Shapes
  <2>2. faults' \in 0 .. MaxFaults
    BY <1>3, ConstantsOK DEF Crash, Fault, Typed
  <2>3. QED
    BY <1>3, <2>1, <2>2 DEF Crash, Fault, Rollback, Typed
<1>4. CASE UNCHANGED vars
  BY <1>4 DEF vars, Typed, Shapes
<1>5. QED
  BY <1>1, <1>2, <1>3, <1>4 DEF Next

-----------------------------------------------------------------------------
(* The write lock and the working copy                                     *)

\* A step of p that leaves the rows alone and neither enters nor leaves a
\* transaction, nor changes within one what the transaction is about.
LEMMA QuietStep ==
    ASSUME Typed, Locked, TxFollowsOp, NEW p \in Procs, NEW c,
           call' = [call EXCEPT ![p] = c], UNCHANGED Rows,
           c.pc \in InTx <=> call[p].pc \in InTx,
           c.pc \in InTx => /\ c.op = call[p].op
                            /\ c.name = call[p].name
                            /\ c.new = call[p].new
                            /\ c.private = call[p].private
    PROVE  Locked' /\ TxFollowsOp'
<1>1. \A q \in Procs : call'[q] = IF q = p THEN c ELSE call[q]
  BY DEF Typed
<1>2. Locked'
  BY <1>1 DEF Locked, Rows, Typed
<1>3. writer # None => (Working(call[writer]) => Working(call[writer])')
  <2>1. SUFFICES ASSUME writer # None
                 PROVE  Working(call[writer]) => Working(call[writer])'
    OBVIOUS
  <2>2. /\ call'[writer].op = call[writer].op
        /\ call'[writer].name = call[writer].name
        /\ call'[writer].new = call[writer].new
        /\ call'[writer].private = call[writer].private
    BY <1>1, <2>1 DEF Locked, Typed
  <2>3. QED
    BY <2>2 DEF Working, Rows, Inserted, Renamed, Updated
<1>4. QED
  BY <1>2, <1>3 DEF TxFollowsOp, Rows

\* A step of p that takes the write lock with the change its operation makes.
LEMMA OpenStep ==
    ASSUME Typed, Locked, NEW p \in Procs, NEW pc \in InTx, NEW rows,
           OpenTx(p, rows), Goto(p, pc), Working(call[p])'
    PROVE  Locked' /\ TxFollowsOp'
<1>1. \A q \in Procs : call'[q] = IF q = p THEN [call[p] EXCEPT !.pc = pc] ELSE call[q]
  BY DEF Typed, Goto
<1>2. call'[p].pc = pc
  BY <1>1 DEF Typed, Call
<1>3. QED
  BY <1>1, <1>2, ConstantsOK DEF Locked, TxFollowsOp, OpenTx

\* A step of p that ends its transaction, either way.
LEMMA CloseStep ==
    ASSUME Typed, Locked, NEW p \in Procs, NEW c, call[p].pc \in InTx,
           writer' = None, tx' = db', call' = [call EXCEPT ![p] = c],
           c.pc \notin InTx
    PROVE  Locked' /\ TxFollowsOp'
<1>1. \A q \in Procs : call'[q] = IF q = p THEN c ELSE call[q]
  BY DEF Typed
<1>2. QED
  BY <1>1, ConstantsOK DEF Locked, TxFollowsOp

LEMMA QuietGoto ==
    ASSUME Typed, Locked, TxFollowsOp, NEW p \in Procs, NEW pc,
           Goto(p, pc), UNCHANGED Rows, pc \in InTx <=> call[p].pc \in InTx
    PROVE  Locked' /\ TxFollowsOp'
<1> DEFINE c == [call[p] EXCEPT !.pc = pc]
<1>1. /\ c.pc = pc /\ c.op = call[p].op /\ c.name = call[p].name
      /\ c.new = call[p].new /\ c.private = call[p].private
  BY DEF Typed, Call
<1>2. call' = [call EXCEPT ![p] = c]
  BY DEF Goto
<1> HIDE DEF c
<1>3. QED
  BY <1>1, <1>2, QuietStep

LEMMA QuietFinish ==
    ASSUME Typed, Locked, TxFollowsOp, NEW p \in Procs, NEW res,
           Finish(p, res), UNCHANGED Rows, call[p].pc \notin InTx
    PROVE  Locked' /\ TxFollowsOp'
<1> DEFINE c == [Idle EXCEPT !.res = res]
<1>1. c.pc \notin InTx
  BY DEF Idle, InTx
<1>2. call' = [call EXCEPT ![p] = c]
  BY DEF Finish
<1> HIDE DEF c
<1>3. QED
  BY <1>1, <1>2, QuietStep

LEMMA RollbackFinish ==
    ASSUME Typed, Locked, NEW p \in Procs, NEW res,
           Finish(p, res), Rollback, call[p].pc \in InTx
    PROVE  Locked' /\ TxFollowsOp'
<1> DEFINE c == [Idle EXCEPT !.res = res]
<1>1. c.pc \notin InTx
  BY DEF Idle, InTx
<1>2. call' = [call EXCEPT ![p] = c]
  BY DEF Finish
<1>3. writer' = None /\ tx' = db'
  BY DEF Rollback
<1> HIDE DEF c
<1>4. QED
  BY <1>1, <1>2, <1>3, CloseStep

\* Begin and the steps of Repository touch no transaction.
LEMMA LookupLocked ==
    ASSUME Typed, Shapes, Locked, TxFollowsOp, NEW p \in Procs,
           Begin(p) \/ Lookup(p)
    PROVE  Locked' /\ TxFollowsOp'
<1> USE DEF At, InTx
<1>1. CASE Begin(p)
  <2>1. PICK op, pc, n, m, b : /\ Start(p, op, pc, n, m, b)
                               /\ pc \in {"insert", "drop", "get", "check"}
    BY <1>1 DEF Begin
  <2> DEFINE c == [Idle EXCEPT !.op = op, !.pc = pc, !.name = n, !.new = m,
                               !.private = b]
  <2>2. c.pc \notin InTx
    BY <2>1 DEF Idle
  <2>3. call' = [call EXCEPT ![p] = c] /\ UNCHANGED Rows /\ call[p].pc \notin InTx
    BY <1>1, <2>1 DEF Begin, Start
  <2> HIDE DEF c
  <2>4. QED
    BY <2>2, <2>3, QuietStep
<1>2. ASSUME Found(p), UNCHANGED Rows, call[p].pc \notin InTx
      PROVE  Locked' /\ TxFollowsOp'
  <2>1. CASE call[p].op = "delete"
    <3> DEFINE c == [call[p] EXCEPT !.pc = "remove", !.row = None]
    <3>1. c.pc \notin InTx
      BY DEF Typed, Call
    <3>2. call' = [call EXCEPT ![p] = c]
      BY <1>2, <2>1 DEF Found
    <3> HIDE DEF c
    <3>3. QED
      BY <1>2, <3>1, <3>2, QuietStep
  <2>2. CASE call[p].op # "delete"
    BY <1>2, <2>2, QuietFinish DEF Found
  <2>3. QED
    BY <2>1, <2>2
<1>3. CASE CacheHit(p) \/ FillCache(p)
  BY <1>2, <1>3 DEF CacheHit, FillCache
<1>4. CASE CacheMiss(p)
  BY <1>4, QuietGoto DEF CacheMiss
<1>5. CASE StatDir(p)
  <2>1. Finish(p, "notfound") \/ Goto(p, "query")
    BY <1>5 DEF StatDir
  <2>2. QED
    BY <1>5, <2>1, QuietGoto, QuietFinish DEF StatDir
<1>6. CASE QueryRow(p)
  <2> DEFINE c == [call[p] EXCEPT !.pc = "fill", !.row = FoundRow(Target(p))]
  <2>1. Finish(p, "notfound") \/ call' = [call EXCEPT ![p] = c]
    BY <1>6 DEF QueryRow
  <2>2. c.pc \notin InTx
    BY DEF Typed, Call
  <2> HIDE DEF c
  <2>3. QED
    BY <1>6, <2>1, <2>2, QuietStep, QuietFinish DEF QueryRow
<1>7. QED
  BY <1>1, <1>3, <1>4, <1>5, <1>6 DEF Lookup

LEMMA CreatingLocked ==
    ASSUME Typed, Shapes, Locked, TxFollowsOp, NEW p \in Procs, Creating(p)
    PROVE  Locked' /\ TxFollowsOp'
<1> USE DEF At, InTx
<1>0. call[p] \in Call /\ Shape(call[p])
  BY DEF Typed, Shapes
<1>1. CASE InsertRow(p)
  <2>1. call[p].pc = "insert" /\ call[p].op = "create"
    BY <1>0, <1>1 DEF InsertRow, Shape
  <2>2. CASE /\ db[call[p].name] = None /\ issued < MaxRepos
             /\ OpenTx(p, Inserted(call[p].name, call[p].private))
             /\ Goto(p, "initdir")
    <3>1. /\ call'[p].op = "create" /\ call'[p].name = call[p].name
          /\ call'[p].private = call[p].private
      BY <1>0, <2>1, <2>2 DEF Goto, Typed, Call
    <3>2. Working(call[p])'
      BY <2>2, <3>1 DEF Working, OpenTx, Inserted
    <3>3. QED
      BY <2>2, <3>2, OpenStep
  <2>3. CASE (Finish(p, "exist") \/ Finish(p, "error")) /\ UNCHANGED Rows
    BY <2>1, <2>3, QuietFinish
  <2>4. QED
    BY <1>1, <2>2, <2>3 DEF InsertRow
<1>2. CASE InitDir(p)
  BY <1>2, QuietGoto DEF InitDir
<1>3. CASE InitDirFails(p)
  BY <1>3, RollbackFinish DEF InitDirFails
<1>4. QED
  BY <1>1, <1>2, <1>3 DEF Creating

LEMMA DeletingLocked ==
    ASSUME Typed, Shapes, Locked, TxFollowsOp, NEW p \in Procs, Deleting(p)
    PROVE  Locked' /\ TxFollowsOp'
<1> USE DEF At, InTx
<1>0. call[p] \in Call /\ Shape(call[p])
  BY DEF Typed, Shapes
<1>1. CASE RemoveNothing(p) \/ RemoveOrphan(p)
  BY <1>1, QuietFinish DEF RemoveNothing, RemoveOrphan
<1>2. CASE RemoveRow(p)
  <2>1. call[p].op = "delete"
    BY <1>0, <1>2 DEF RemoveRow, Shape
  <2>2. call'[p].op = "delete" /\ call'[p].name = call[p].name
    BY <1>0, <1>2, <2>1 DEF RemoveRow, Goto, Typed, Call
  <2>3. Working(call[p])'
    BY <1>2, <2>2 DEF RemoveRow, Working, OpenTx
  <2>4. QED
    BY <1>2, <2>3, OpenStep DEF RemoveRow
<1>3. CASE RemoveDir(p)
  BY <1>3, QuietGoto DEF RemoveDir
<1>4. CASE RemoveDirFails(p)
  BY <1>4, RollbackFinish DEF RemoveDirFails
<1>5. QED
  BY <1>1, <1>2, <1>3, <1>4 DEF Deleting

LEMMA RenamingLocked ==
    ASSUME Typed, Shapes, Locked, TxFollowsOp, NEW p \in Procs, Renaming(p)
    PROVE  Locked' /\ TxFollowsOp'
<1> USE DEF At, InTx
<1>0. call[p] \in Call /\ Shape(call[p])
  BY DEF Typed, Shapes
<1>1. CASE CheckDirs(p)
  <2>1. Finish(p, "notfound") \/ Finish(p, "exist") \/ Goto(p, "move")
    BY <1>1 DEF CheckDirs
  <2>2. QED
    BY <1>1, <2>1, QuietGoto, QuietFinish DEF CheckDirs
<1>2. CASE MoveRow(p)
  <2>1. call[p].op = "rename"
    BY <1>0, <1>2 DEF MoveRow, Shape
  <2>2. CASE /\ db[call[p].name] = None \/ db[call[p].new] = None
             /\ OpenTx(p, Renamed(call[p].name, call[p].new))
             /\ Goto(p, "mvdir")
    <3>1. /\ call'[p].op = "rename" /\ call'[p].name = call[p].name
          /\ call'[p].new = call[p].new
      BY <1>0, <2>1, <2>2 DEF Goto, Typed, Call
    <3>2. Working(call[p])'
      BY <2>2, <3>1 DEF Working, OpenTx, Renamed
    <3>3. QED
      BY <2>2, <3>2, OpenStep
  <2>3. CASE Finish(p, "exist") /\ UNCHANGED Rows
    BY <1>2, <2>3, QuietFinish DEF MoveRow
  <2>4. QED
    BY <1>2, <2>2, <2>3 DEF MoveRow
<1>3. CASE MoveDir(p)
  BY <1>3, QuietGoto DEF MoveDir
<1>4. CASE MoveDirFails(p)
  BY <1>4, RollbackFinish DEF MoveDirFails
<1>5. QED
  BY <1>1, <1>2, <1>3, <1>4 DEF Renaming

LEMMA SettingLocked ==
    ASSUME Typed, Shapes, Locked, TxFollowsOp, NEW p \in Procs, Setting(p)
    PROVE  Locked' /\ TxFollowsOp'
<1> USE DEF At, InTx
<1>0. call[p] \in Call /\ Shape(call[p])
  BY DEF Typed, Shapes
<1>1. CASE DropCache(p)
  BY <1>1, QuietGoto DEF DropCache
<1>2. CASE SetExport(p)
  <2>1. Finish(p, "error") \/ Goto(p, "update")
    BY <1>2 DEF SetExport
  <2>2. QED
    BY <1>2, <2>1, QuietGoto, QuietFinish DEF SetExport
<1>3. CASE UpdateRow(p)
  <2>1. call[p].op = "private"
    BY <1>0, <1>3 DEF UpdateRow, Shape
  <2>2. /\ call'[p].op = "private" /\ call'[p].name = call[p].name
        /\ call'[p].private = call[p].private
    BY <1>0, <1>3, <2>1 DEF UpdateRow, Goto, Typed, Call
  <2>3. Working(call[p])'
    BY <1>3, <2>2 DEF UpdateRow, Working, OpenTx, Updated
  <2>4. QED
    BY <1>3, <2>3, OpenStep DEF UpdateRow
<1>4. CASE SetExportFails(p)
  BY <1>4, QuietFinish DEF SetExportFails
<1>5. QED
  BY <1>1, <1>2, <1>3, <1>4 DEF Setting

LEMMA EndingLocked ==
    ASSUME Typed, Shapes, Locked, TxFollowsOp, NEW p \in Procs, Ending(p)
    PROVE  Locked' /\ TxFollowsOp'
<1> USE DEF At, InTx
<1>1. CASE DeferredDelete(p)
  BY <1>1, QuietGoto DEF DeferredDelete
<1>2. CASE Commit(p)
  <2> DEFINE done == [Idle EXCEPT !.res = "ok"]
             goes == [call[p] EXCEPT !.pc = "get", !.private = FALSE]
  <2>1. done.pc \notin InTx /\ goes.pc \notin InTx
    BY DEF Idle, Typed, Call
  <2>2. call' = [call EXCEPT ![p] = done] \/ call' = [call EXCEPT ![p] = goes]
    BY <1>2 DEF Commit, Finish
  <2>3. writer' = None /\ tx' = db' /\ call[p].pc \in InTx
    BY <1>2 DEF Commit
  <2> HIDE DEF done, goes, InTx
  <2>4. CASE call' = [call EXCEPT ![p] = done]
    BY <2>1, <2>3, <2>4, CloseStep
  <2>5. CASE call' = [call EXCEPT ![p] = goes]
    BY <2>1, <2>3, <2>5, CloseStep
  <2>6. QED
    BY <2>2, <2>4, <2>5
<1>3. CASE CommitFails(p)
  BY <1>3, RollbackFinish DEF CommitFails
<1>4. CASE BusyTimeout(p)
  BY <1>4, QuietFinish DEF BusyTimeout
<1>5. QED
  BY <1>1, <1>2, <1>3, <1>4 DEF Ending

LEMMA LockedStep ==
    ASSUME Typed, Shapes, Locked, TxFollowsOp, [Next]_vars
    PROVE  Locked' /\ TxFollowsOp'
<1>1. ASSUME UNCHANGED <<Rows, call>>
      PROVE  Locked' /\ TxFollowsOp'
  BY <1>1 DEF Rows, Locked, TxFollowsOp, Working, Inserted, Renamed, Updated
<1>2. ASSUME NEW p \in Procs, ListAll(p)
      PROVE  Locked' /\ TxFollowsOp'
  BY <1>1, <1>2 DEF ListAll
<1>3. ASSUME NEW n \in Names, Evict(n)
      PROVE  Locked' /\ TxFollowsOp'
  BY <1>1, <1>3 DEF Evict
<1>4. CASE Crash
  BY <1>4, ConstantsOK DEF Crash, Rollback, Locked, TxFollowsOp, Idle, InTx
<1>5. CASE UNCHANGED vars
  BY <1>1, <1>5 DEF vars, Rows
<1>6. QED
  BY <1>2, <1>3, <1>4, <1>5, LookupLocked, CreatingLocked, DeletingLocked,
     RenamingLocked, SettingLocked, EndingLocked DEF Next

-----------------------------------------------------------------------------
(* Ids and the refinement of RepoRegistry                                  *)

\* Only a commit changes what is committed.
LEMMA OnlyCommits ==
    ASSUME [Next]_vars
    PROVE  UNCHANGED <<db, issued, past>> \/ \E p \in Procs : Commit(p)
<1>1. ASSUME NEW p \in Procs,
             Begin(p) \/ ListAll(p) \/ Lookup(p) \/ Creating(p) \/ Deleting(p)
      PROVE  UNCHANGED <<db, issued, past>>
  BY <1>1
  DEF Rows, OpenTx, Rollback, Begin, ListAll,
      Lookup, CacheHit, CacheMiss, StatDir, QueryRow, FillCache,
      Creating, InsertRow, InitDir, InitDirFails,
      Deleting, RemoveNothing, RemoveOrphan, RemoveRow, RemoveDir, RemoveDirFails
<1>2. ASSUME NEW p \in Procs, Renaming(p) \/ Setting(p) \/ Ending(p)
      PROVE  UNCHANGED <<db, issued, past>> \/ Commit(p)
  BY <1>2
  DEF Rows, OpenTx, Rollback, Renaming, CheckDirs, MoveRow, MoveDir, MoveDirFails,
      Setting, DropCache, SetExport, SetExportFails, UpdateRow,
      Ending, DeferredDelete, CommitFails, BusyTimeout
<1>3. ASSUME \/ \E n \in Names : Evict(n)
             \/ Crash
             \/ UNCHANGED vars
      PROVE  UNCHANGED <<db, issued, past>>
  BY <1>3 DEF Evict, Crash, Rollback, vars, Rows
<1>4. QED
  BY <1>1, <1>2, <1>3 DEF Next

\* The caller that commits holds the lock, and its working copy is its change.
LEMMA CommitTx ==
    ASSUME Typed, Shapes, Locked, TxFollowsOp, NEW p \in Procs, Commit(p)
    PROVE  /\ call[p].name \in Names /\ call[p].private \in BOOLEAN
           /\ call[p].op = "rename" => call[p].new \in Names \ {call[p].name}
           /\ call[p].op \in {"create", "delete", "rename", "private"}
           /\ call[p].row = None
           /\ writer = p
           /\ Working(call[p])
           /\ tx \in [Names -> Row \cup {None}]
  BY ConstantsOK DEF Typed, Shapes, Locked, TxFollowsOp, Commit, At, InTx, Shape, Call

\* The working copy keeps the ids apart and hands out at most the next one.
LEMMA WorkingIds ==
    ASSUME Typed, Shapes, IdsIssued, NEW p \in Procs, Working(call[p]),
           call[p].pc # "idle"
    PROVE  /\ \A n \in Names : tx[n] # None =>
                  \/ tx[n].id <= issued
                  \/ call[p].op = "create" /\ tx[n].id = issued + 1
           /\ \A m, n \in Names :
                 tx[m] # None /\ tx[n] # None /\ m # n => tx[m].id # tx[n].id
<1>0. /\ call[p].name \in Names
      /\ call[p].op = "rename" => call[p].new \in Names \ {call[p].name}
      /\ issued \in Nat
      /\ \A n \in Names : db[n] # None => db[n].id \in Nat
  BY ConstantsOK DEF Typed, Shapes, Shape, Row
<1>1. CASE call[p].op = "create"
  <2> DEFINE new == [id |-> issued + 1, private |-> call[p].private]
  <2>1. tx = [db EXCEPT ![call[p].name] = new] /\ new.id = issued + 1
    BY <1>1 DEF Working, Inserted
  <2> HIDE DEF new
  <2>2. \A n \in Names : tx[n] = IF n = call[p].name THEN new ELSE db[n]
    BY <1>0, <2>1 DEF Typed
  <2>3. \A n \in Names : db[n] # None => db[n].id < issued + 1
    BY <1>0 DEF IdsIssued
  <2>4. QED
    BY <1>0, <1>1, <2>1, <2>2, <2>3 DEF IdsIssued
<1>2. CASE call[p].op = "delete"
  <2>1. tx = [db EXCEPT ![call[p].name] = None]
    BY <1>2 DEF Working
  <2>2. QED
    BY <2>1 DEF IdsIssued, Typed
<1>3. CASE call[p].op = "rename"
  <2>1. CASE db[call[p].name] = None
    BY <1>3, <2>1 DEF Working, Renamed, IdsIssued
  <2>2. CASE db[call[p].name] # None
    <3>1. \A n \in Names : tx[n] = IF n = call[p].name THEN None
                                   ELSE IF n = call[p].new THEN db[call[p].name]
                                   ELSE db[n]
      BY <1>0, <1>3, <2>2 DEF Working, Renamed, Typed
    <3>2. QED
      BY <1>0, <1>3, <3>1 DEF IdsIssued
  <2>3. QED
    BY <2>1, <2>2
<1>4. CASE call[p].op = "private"
  <2>1. CASE db[call[p].name] = None
    BY <1>4, <2>1 DEF Working, Updated, IdsIssued
  <2>2. CASE db[call[p].name] # None
    <3>1. \A n \in Names : tx[n] = IF n = call[p].name
                                   THEN [db[n] EXCEPT !.private = call[p].private]
                                   ELSE db[n]
      BY <1>0, <1>4, <2>2 DEF Working, Updated, Typed
    <3>2. \A n \in Names : tx[n] # None => db[n] # None /\ tx[n].id = db[n].id
      BY <1>0, <2>2, <3>1 DEF Typed, Row
    <3>3. QED
      BY <3>2 DEF IdsIssued
  <2>3. QED
    BY <2>1, <2>2
<1>5. QED
  BY <1>1, <1>2, <1>3, <1>4 DEF Working

LEMMA IdsStep ==
    ASSUME Typed, Shapes, Locked, TxFollowsOp, IdsIssued, PastCovers, [Next]_vars
    PROVE  IdsIssued' /\ PastCovers'
<1>1. CASE UNCHANGED <<db, issued, past>>
  BY <1>1 DEF IdsIssued, PastCovers
<1>2. ASSUME NEW p \in Procs, Commit(p)
      PROVE  IdsIssued' /\ PastCovers'
  <2>1. Working(call[p]) /\ call[p].pc # "idle"
    BY <1>2, CommitTx DEF Commit, At
  <2>2. db' = tx
    BY <1>2 DEF Commit
  <2>3. issued' = IF call[p].op = "create" THEN issued + 1 ELSE issued
    BY <1>2 DEF Commit, IssuedAfter
  <2>4. IdsIssued'
    <3>1. \A n \in Names : tx[n] # None => tx[n].id \in Nat /\ issued \in Nat
      BY ConstantsOK DEF Typed, Row
    <3>2. \A n \in Names : tx[n] # None => tx[n].id <= issued'
      BY <2>1, <2>3, <3>1, WorkingIds
    <3>3. QED
      BY <2>1, <2>2, <3>2, WorkingIds DEF IdsIssued
  <2>5. PastCovers'
    BY <1>2, <2>2 DEF Commit, PastCovers
  <2>6. QED
    BY <2>4, <2>5
<1>3. QED
  BY <1>1, <1>2, OnlyCommits

\* A commit is one operation of the registry, or changes nothing: an UPDATE
\* that found no row.
LEMMA CommitRefines ==
    ASSUME Typed, Shapes, Locked, TxFollowsOp, NEW p \in Procs, Commit(p)
    PROVE  [Registry!Next]_<<db, issued>>
<1>0. /\ db' = tx /\ call[p].name \in Names /\ call[p].private \in BOOLEAN
      /\ call[p].op = "rename" => call[p].new \in Names \ {call[p].name}
      /\ issued' = IF call[p].op = "create" THEN issued + 1 ELSE issued
      /\ Working(call[p])
  BY CommitTx DEF Commit, IssuedAfter
<1>1. CASE call[p].op = "create"
  <2>1. Registry!Create(call[p].name, call[p].private)
    BY <1>0, <1>1 DEF Registry!Create, Working, Inserted
  <2>2. QED
    BY <1>0, <2>1 DEF Registry!Next
<1>2. CASE call[p].op = "delete"
  <2>1. Registry!Remove(call[p].name)
    BY <1>0, <1>2 DEF Registry!Remove, Working
  <2>2. QED
    BY <1>0, <2>1 DEF Registry!Next
<1>3. CASE call[p].op = "rename"
  <2>1. CASE db[call[p].name] = None
    BY <1>0, <1>3, <2>1 DEF Working, Renamed
  <2>2. CASE db[call[p].name] # None
    <3>1. Registry!Rename(call[p].name, call[p].new)
      BY <1>0, <1>3, <2>2 DEF Registry!Rename, Working, Renamed
    <3>2. QED
      BY <1>0, <1>3, <3>1 DEF Registry!Next
  <2>3. QED
    BY <2>1, <2>2
<1>4. CASE call[p].op = "private"
  <2>1. CASE db[call[p].name] = None
    BY <1>0, <1>4, <2>1 DEF Working, Updated
  <2>2. CASE db[call[p].name] # None
    <3>1. Registry!SetPrivate(call[p].name, call[p].private)
      BY <1>0, <1>4, <2>2 DEF Registry!SetPrivate, Working, Updated
    <3>2. QED
      BY <1>0, <3>1 DEF Registry!Next
  <2>3. QED
    BY <2>1, <2>2
<1>5. QED
  BY <1>0, <1>1, <1>2, <1>3, <1>4 DEF Working

-----------------------------------------------------------------------------
(* The theorems about types, ids and the registry                          *)

LEMMA CoreInvariant == Spec => []Core
<1>1. Init => Core
  <2> SUFFICES ASSUME Init
               PROVE  Core
    OBVIOUS
  <2>1. Typed /\ Shapes
    <3>1. call \in [Procs -> Call] /\ Shapes
      BY IdleTyped DEF Init, Shapes
    <3>2. issued \in 0 .. MaxRepos /\ faults \in 0 .. MaxFaults
      BY ConstantsOK DEF Init
    <3>3. QED
      BY <3>1, <3>2 DEF Init, Typed
  <2>2. Locked /\ TxFollowsOp
    BY DEF Init, Locked, TxFollowsOp, Idle, InTx
  <2>3. IdsIssued /\ PastCovers
    BY DEF Init, IdsIssued, PastCovers
  <2>4. QED
    BY <2>1, <2>2, <2>3 DEF Core
<1>2. Core /\ [Next]_vars => Core'
  BY TypeStep, LockedStep, IdsStep DEF Core
<1>3. QED
  BY <1>1, <1>2, PTL DEF Spec

\* Every variable keeps its type, and the write lock is with the caller that is
\* inside a transaction that has written, however callers end, fail or crash.
THEOREM TypeCorrect == Spec => []TypeOK
<1>1. Core => TypeOK
  BY ConstantsOK DEF Core, TypeOK, Typed, Locked
<1>2. QED
  BY <1>1, CoreInvariant, PTL

\* What was ever committed had an id that was issued.
PastIssued == \A old \in past : old[2] <= issued

LEMMA PastIssuedStep ==
    ASSUME Core, PastIssued, [Next]_vars
    PROVE  PastIssued'
<1>1. CASE UNCHANGED <<db, issued, past>>
  BY <1>1 DEF PastIssued
<1>2. ASSUME NEW p \in Procs, Commit(p)
      PROVE  PastIssued'
  <2>1. Working(call[p]) /\ call[p].pc # "idle"
    BY <1>2, CommitTx DEF Commit, At, Core
  <2>2. /\ issued' = IF call[p].op = "create" THEN issued + 1 ELSE issued
        /\ past' = past \cup {<<n, tx[n].id>> : n \in {m \in Names : tx[m] # None}}
    BY <1>2 DEF Commit, IssuedAfter
  <2>3. /\ issued \in Nat
        /\ \A old \in past : old[2] \in Nat
        /\ \A n \in Names : tx[n] # None => tx[n].id \in Nat
    BY ConstantsOK DEF Core, Typed, Row
  <2>4. \A n \in Names : tx[n] # None => tx[n].id <= issued'
    BY <2>1, <2>2, <2>3, WorkingIds DEF Core
  <2>5. QED
    BY <2>2, <2>3, <2>4 DEF PastIssued
<1>3. QED
  BY <1>1, <1>2, OnlyCommits

\* The only id of the working copy that no committed row has is the next one.
LEMMA NewIds ==
    ASSUME Core, writer # None, NEW n \in Names, tx[n] # None,
           \A m \in Names : db[m] # None => db[m].id # tx[n].id
    PROVE  tx[n].id = issued + 1
<1> DEFINE c == call[writer]
<1>0. /\ writer \in Procs /\ Working(c) /\ c.name \in Names
      /\ c.op = "rename" => c.new \in Names \ {c.name}
      /\ db \in [Names -> Row \cup {None}]
  BY DEF Core, Typed, TxFollowsOp, Locked, InTx, Shapes, Shape
<1> HIDE DEF c
<1>1. CASE c.op = "create"
  BY <1>0, <1>1 DEF Working, Inserted
<1>2. CASE c.op = "delete"
  BY <1>0, <1>2 DEF Working
<1>3. CASE c.op = "rename"
  BY <1>0, <1>3 DEF Working, Renamed
<1>4. CASE c.op = "private"
  BY <1>0, <1>4 DEF Working, Updated, Row
<1>5. QED
  BY <1>0, <1>1, <1>2, <1>3, <1>4 DEF Working

\* No two names ever share a repository, neither in the committed rows nor in
\* those of the open transaction, and the id of an insert is one that no repository
\* had before, whatever was deleted, renamed or rolled back meanwhile.
THEOREM IdsAreUnique == Spec => []UniqueIds
<1>1. Core /\ PastIssued => UniqueIds
  <2> SUFFICES ASSUME Core, PastIssued
               PROVE  UniqueIds
    OBVIOUS
  <2>1. \A m, n \in Names :
           db[m] # None /\ db[n] # None /\ m # n => db[m].id # db[n].id
    BY DEF Core, IdsIssued
  <2>2. CASE writer = None
    BY <2>1, <2>2 DEF Core, TxFollowsOp, UniqueIds
  <2>3. CASE writer # None
    <3>1. /\ writer \in Procs /\ Working(call[writer])
          /\ call[writer].pc # "idle"
      BY <2>3 DEF Core, Typed, TxFollowsOp, Locked, InTx
    <3>2. \A m, n \in Names :
             tx[m] # None /\ tx[n] # None /\ m # n => tx[m].id # tx[n].id
      BY <3>1, WorkingIds DEF Core
    <3>3. \A n \in Names :
             tx[n] # None /\ (\A m \in Names : db[m] # None => db[m].id # tx[n].id)
                 => tx[n].id = issued + 1
      BY <2>3, NewIds
    <3>4. /\ issued \in Nat
          /\ \A old \in past : old[2] \in Nat /\ old[2] <= issued
      BY ConstantsOK DEF Core, Typed, PastIssued
    <3>5. QED
      BY <2>1, <3>2, <3>3, <3>4 DEF UniqueIds
  <2>4. QED
    BY <2>2, <2>3
<1>2. Init => PastIssued
  BY DEF Init, PastIssued
<1>3. Core /\ PastIssued /\ [Next]_vars => PastIssued'
  BY PastIssuedStep
<1>4. QED
  BY <1>1, <1>2, <1>3, CoreInvariant, PTL DEF Spec

\* The committed rows change only by whole operations of the registry, for any
\* interleaving, crash or failed step of the backend.
THEOREM RegistryImplemented == Spec => RegistrySpec
<1>1. Init => Registry!Init
  BY DEF Init, Registry!Init
<1>2. Core /\ [Next]_vars => [Registry!Next]_(Registry!vars)
  BY OnlyCommits, CommitRefines DEF Core, Registry!vars
<1>3. QED
  BY <1>1, <1>2, CoreInvariant, PTL DEF Spec, RegistrySpec, Registry!Spec

-----------------------------------------------------------------------------
(* The cache                                                               *)

\* A step of p leaves the other callers' records alone.
Others(p) == \A q \in Procs \ {p} : call'[q] = call[q]

LEMMA OthersKept ==
    ASSUME Typed, NEW p \in Procs,
           \/ Begin(p) \/ ListAll(p) \/ Lookup(p) \/ Creating(p) \/ Deleting(p)
           \/ Renaming(p) \/ Setting(p) \/ Ending(p)
    PROVE  Others(p)
<1>1. \/ UNCHANGED call
      \/ \E c : call' = [call EXCEPT ![p] = c]
  <2>1. Begin(p) => \E c : call' = [call EXCEPT ![p] = c]
    BY DEF Begin, Start
  <2>2. Found(p) => \E c : call' = [call EXCEPT ![p] = c]
    BY DEF Found, Finish
  <2>3. Lookup(p) => \E c : call' = [call EXCEPT ![p] = c]
    BY <2>2 DEF Lookup, CacheHit, CacheMiss, StatDir, QueryRow, FillCache, Finish, Goto
  <2>4. Creating(p) => \E c : call' = [call EXCEPT ![p] = c]
    BY DEF Creating, InsertRow, InitDir, InitDirFails, Finish, Goto
  <2>5. Deleting(p) => \E c : call' = [call EXCEPT ![p] = c]
    BY DEF Deleting, RemoveNothing, RemoveOrphan, RemoveRow, RemoveDir,
       RemoveDirFails, Finish, Goto
  <2>6. Renaming(p) => \E c : call' = [call EXCEPT ![p] = c]
    BY DEF Renaming, CheckDirs, MoveRow, MoveDir, MoveDirFails, Finish, Goto
  <2>7. Setting(p) => \E c : call' = [call EXCEPT ![p] = c]
    BY DEF Setting, DropCache, SetExport, SetExportFails, UpdateRow, Finish, Goto
  <2>8. Ending(p) => \E c : call' = [call EXCEPT ![p] = c]
    BY DEF Ending, DeferredDelete, Commit, CommitFails, BusyTimeout, Finish, Goto
  <2>9. ListAll(p) => UNCHANGED call
    BY DEF ListAll
  <2>10. QED
    BY <2>1, <2>3, <2>4, <2>5, <2>6, <2>7, <2>8, <2>9
<1>2. QED
  BY <1>1 DEF Others, Typed

\* A row is read only by QueryRow: no other step leads to "fill".
LEMMA RowsAreQueried ==
    ASSUME Typed, NEW p \in Procs, call'[p].pc = "fill",
           \/ Begin(p) \/ ListAll(p) \/ Lookup(p) \/ Creating(p) \/ Deleting(p)
           \/ Renaming(p) \/ Setting(p) \/ Ending(p)
    PROVE  QueryRow(p) \/ ListAll(p)
<1>1. ASSUME NEW res, Finish(p, res)
      PROVE  FALSE
  BY <1>1 DEF Finish, Idle, Typed
<1>2. ASSUME NEW pc, pc # "fill", Goto(p, pc)
      PROVE  FALSE
  BY <1>2 DEF Goto, Typed, Call
<1>3. ASSUME Found(p)
      PROVE  FALSE
  BY <1>1, <1>3 DEF Found, Typed, Call
<1>4. ASSUME Begin(p)
      PROVE  FALSE
  <2>1. PICK op, pc, n, m, b : /\ Start(p, op, pc, n, m, b)
                               /\ pc \in {"insert", "drop", "get", "check"}
    BY <1>4 DEF Begin
  <2>2. call'[p].pc = pc
    BY <2>1 DEF Start, Idle, Typed
  <2>3. QED
    BY <2>1, <2>2
<1>5. Lookup(p) => QueryRow(p)
  BY <1>1, <1>2, <1>3 DEF Lookup, CacheHit, CacheMiss, StatDir, FillCache
<1>6. ~ (Creating(p) \/ Deleting(p))
  <2>1. ~ Creating(p)
    BY <1>1, <1>2 DEF Creating, InsertRow, InitDir, InitDirFails
  <2>2. ~ Deleting(p)
    BY <1>1, <1>2 DEF Deleting, RemoveNothing, RemoveOrphan, RemoveRow,
       RemoveDir, RemoveDirFails
  <2>3. QED
    BY <2>1, <2>2
<1>7. ~ (Renaming(p) \/ Setting(p))
  BY <1>1, <1>2 DEF Renaming, CheckDirs, MoveRow, MoveDir, MoveDirFails,
     Setting, DropCache, SetExport, SetExportFails, UpdateRow
<1>8. ~ Commit(p)
  BY <1>1 DEF Commit, Typed, Call
<1>9. ~ Ending(p)
  BY <1>1, <1>2, <1>8 DEF Ending, DeferredDelete, CommitFails, BusyTimeout
<1>10. QED
  BY <1>4, <1>5, <1>6, <1>7, <1>9

LEMMA CacheStep ==
    ASSUME Core, Core', CacheFromPast, [Next]_vars
    PROVE  CacheFromPast'
<1> USE DEF Core
<1>1. past \subseteq past'
  BY OnlyCommits DEF Commit
<1>2. ASSUME NEW n \in Names, cache'[n] # None
      PROVE  <<n, cache'[n].id>> \in past'
  <2>1. ASSUME NEW p \in Procs, ListAll(p)
        PROVE  <<n, cache'[n].id>> \in past'
    <3>1. cache'[n] = IF db[n] # None THEN db[n] ELSE cache[n]
      BY <2>1 DEF ListAll
    <3>2. QED
      BY <1>1, <1>2, <3>1 DEF PastCovers, CacheFromPast
  <2>2. ASSUME NEW p \in Procs, FillCache(p)
        PROVE  <<n, cache'[n].id>> \in past'
    <3>1. Target(p) \in Names
      BY <2>2, TargetTyped DEF FillCache, At
    <3>2. cache'[n] = IF n = Target(p) THEN call[p].row ELSE cache[n]
      BY <2>2, <3>1 DEF FillCache, Typed
    <3>3. QED
      BY <1>1, <1>2, <3>2 DEF CacheFromPast
  <2>3. CASE cache'[n] = cache[n]
    BY <1>1, <1>2, <2>3 DEF CacheFromPast
  <2>4. \/ cache'[n] \in {None, cache[n]}
        \/ \E p \in Procs : ListAll(p) \/ FillCache(p)
    BY DEF Next, vars, Rows, Uncached, Typed, Evict, Crash,
       Begin, Lookup, CacheHit, CacheMiss, StatDir, QueryRow,
       Creating, InsertRow, InitDir, InitDirFails,
       Deleting, RemoveNothing, RemoveOrphan, RemoveRow, RemoveDir, RemoveDirFails,
       Renaming, CheckDirs, MoveRow, MoveDir, MoveDirFails,
       Setting, DropCache, SetExport, SetExportFails, UpdateRow,
       Ending, DeferredDelete, Commit, CommitFails, BusyTimeout
  <2>5. QED
    BY <1>2, <2>1, <2>2, <2>3, <2>4
<1>3. ASSUME NEW q \in Procs, call'[q].row # None
      PROVE  <<Target(q)', call'[q].row.id>> \in past'
  <2>1. call'[q].pc = "fill"
    BY <1>3 DEF Shapes, Shape
  <2>2. CASE call'[q] = call[q]
    BY <1>1, <1>3, <2>2 DEF CacheFromPast, Target
  <2>3. CASE QueryRow(q)
    <3>1. Target(q) \in Names /\ call[q] \in Call
      BY <2>3, TargetTyped DEF QueryRow, At, Typed
    <3>2. FoundRow(Target(q)) # None
      BY <2>1, <2>3 DEF QueryRow, Finish, Idle, Typed
    <3>3. call'[q] = [call[q] EXCEPT !.pc = "fill", !.row = db[Target(q)]]
      BY <2>3, <3>2 DEF QueryRow, FoundRow, Typed
    <3>4. /\ call'[q].row = db[Target(q)] /\ call'[q].op = call[q].op
          /\ call'[q].name = call[q].name /\ call'[q].new = call[q].new
      BY <3>1, <3>3 DEF Call
    <3>5. Target(q)' = Target(q)
      BY <3>4 DEF Target
    <3>6. <<Target(q), db[Target(q)].id>> \in past
      BY <1>3, <3>1, <3>4 DEF PastCovers
    <3>7. QED
      BY <1>1, <3>4, <3>5, <3>6
  <2>4. ASSUME NEW p \in Procs,
               \/ Begin(p) \/ ListAll(p) \/ Lookup(p) \/ Creating(p) \/ Deleting(p)
               \/ Renaming(p) \/ Setting(p) \/ Ending(p)
        PROVE  call'[q] = call[q] \/ QueryRow(q)
    BY <2>1, <2>4, OthersKept, RowsAreQueried DEF Others, ListAll
  <2>5. ~ Crash
    BY <2>1 DEF Crash, Idle
  <2>6. QED
    BY <2>2, <2>3, <2>4, <2>5 DEF Next, vars, Evict
<1>4. QED
  BY <1>2, <1>3 DEF CacheFromPast

\* The cache answers only with repositories that were committed under the
\* name asked for: no uncommitted CreateRepository or RenameRepository shows.
THEOREM CacheIsCommitted == Spec => []CacheFromPast
<1>1. Init => CacheFromPast
  BY DEF Init, CacheFromPast, Idle
<1>2. Core /\ Core' /\ CacheFromPast /\ [Next]_vars => CacheFromPast'
  BY CacheStep
<1>3. QED
  BY <1>1, <1>2, CoreInvariant, PTL DEF Spec

-----------------------------------------------------------------------------
(* Rows and directories in step                                            *)

\* What InStep says of one name.
InStepAt(n) ==
    /\ (FollowedRows[n] = None) <=> (disk[n] = None)
    /\ FollowedRows[n] # None => disk[n].data \in {0, FollowedRows[n].id}

\* A caller outside a transaction does not change which rows are followed.
LEMMA FollowedOutside ==
    ASSUME Core, NEW p \in Procs, Others(p), UNCHANGED Rows, call[p].pc \notin InTx
    PROVE  FollowedRows' = FollowedRows
  BY ConstantsOK DEF Core, Typed, Locked, Others, Rows, FollowedRows

\* Taking the write lock before the directory is changed: still the committed rows.
LEMMA FollowedOpen ==
    ASSUME Core, NEW p \in Procs, NEW rows, NEW pc, OpenTx(p, rows), Goto(p, pc),
           pc \in {"initdir", "rmdir", "mvdir"}
    PROVE  FollowedRows' = FollowedRows
  BY DEF Core, Typed, Call, OpenTx, Goto, FollowedRows

\* Rolling back before the directory is changed, too.
LEMMA FollowedRollback ==
    ASSUME Core, NEW p \in Procs, Rollback, call[p].pc \in {"initdir", "rmdir", "mvdir"}
    PROVE  FollowedRows' = FollowedRows
  BY DEF Core, Locked, InTx, Rollback, FollowedRows

\* The directory is changed: from the committed rows to the working copy.
LEMMA FollowedSwitch ==
    ASSUME Core, NEW p \in Procs, NEW pc, UNCHANGED Rows, Goto(p, pc),
           call[p].pc \in {"initdir", "rmdir", "mvdir"}, pc \in {"uncache", "commit"}
    PROVE  /\ FollowedRows = db /\ FollowedRows' = tx
           /\ writer = p /\ Working(call[p])
  BY ConstantsOK DEF Core, Typed, Call, Locked, InTx, TxFollowsOp, Rows, Goto, FollowedRows

\* The three changes of a directory, each matched by its transaction.
LEMMA InitDirInStep ==
    ASSUME Core, Core', NEW p \in Procs, InitDir(p), \A n \in Names : InStepAt(n)
    PROVE  \A n \in Names : InStepAt(n)'
<1>0. call[p].name \in Names /\ call[p].op = "create" /\ issued \in Nat
  BY ConstantsOK DEF Core, Typed, Shapes, Shape, InitDir, At
<1>1. /\ FollowedRows = db /\ FollowedRows' = tx /\ db[call[p].name] = None
      /\ tx = Inserted(call[p].name, call[p].private)
  BY <1>0, FollowedSwitch DEF InitDir, Working, At
<1>2. disk[call[p].name] = None
  BY <1>0, <1>1 DEF InStepAt
<1> DEFINE new == [id |-> issued + 1, private |-> call[p].private]
           dir == [data |-> 0, export |-> ~call[p].private]
<1>3. disk' = [disk EXCEPT ![call[p].name] = dir]
  BY <1>2 DEF InitDir, InitializedDir
<1>4. dir # None /\ dir.data = 0
  <2>1. dir \in Dir
    BY ConstantsOK DEF Dir
  <2>2. QED
    BY <2>1, ConstantsOK
<1>5. tx = [db EXCEPT ![call[p].name] = new] /\ tx[call[p].name] # None
  <2>1. tx = [db EXCEPT ![call[p].name] = new]
    BY <1>1 DEF Inserted
  <2>2. issued + 1 \in 1 .. MaxRepos /\ call[p].private \in BOOLEAN
    BY <1>1, FollowedSwitch, ConstantsOK, <1>0 DEF InitDir, At, Working, Core, Typed, Call
  <2>3. new \in Row
    BY <2>2 DEF Row
  <2>4. QED
    BY <1>0, <2>1, <2>3, ConstantsOK DEF Core, Typed
<1> HIDE DEF new, dir
<1>6. QED
  BY <1>0, <1>1, <1>3, <1>4, <1>5 DEF InStepAt, Core, Typed

LEMMA RemoveDirInStep ==
    ASSUME Core, NEW p \in Procs, RemoveDir(p), \A n \in Names : InStepAt(n)
    PROVE  \A n \in Names : InStepAt(n)'
<1>0. call[p].name \in Names /\ call[p].op = "delete"
  BY DEF Core, Shapes, Shape, RemoveDir, At
<1>1. /\ FollowedRows = db /\ FollowedRows' = tx
      /\ tx = [db EXCEPT ![call[p].name] = None]
  BY <1>0, FollowedSwitch DEF RemoveDir, Working, At
<1>2. disk' = [disk EXCEPT ![call[p].name] = None]
  BY DEF RemoveDir
<1>3. QED
  BY <1>0, <1>1, <1>2 DEF InStepAt, Core, Typed

LEMMA MoveDirInStep ==
    ASSUME Core, NEW p \in Procs, MoveDir(p), \A n \in Names : InStepAt(n)
    PROVE  \A n \in Names : InStepAt(n)'
<1>0. /\ call[p].op = "rename" /\ call[p].name \in Names
      /\ call[p].new \in Names \ {call[p].name}
  BY DEF Core, Shapes, Shape, MoveDir, At
<1>1. /\ FollowedRows = db /\ FollowedRows' = tx
      /\ tx = Renamed(call[p].name, call[p].new)
  BY <1>0, FollowedSwitch DEF MoveDir, Working, At
<1>2. /\ disk[call[p].name] # None /\ disk[call[p].new] = None
      /\ disk' = [disk EXCEPT ![call[p].name] = None,
                             ![call[p].new] = disk[call[p].name]]
  BY DEF MoveDir
<1>3. db[call[p].name] # None
  BY <1>0, <1>1, <1>2 DEF InStepAt
<1>4. \A n \in Names : /\ disk'[n] = IF n = call[p].name THEN None
                                     ELSE IF n = call[p].new THEN disk[call[p].name]
                                     ELSE disk[n]
                       /\ tx[n] = IF n = call[p].name THEN None
                                  ELSE IF n = call[p].new THEN db[call[p].name]
                                  ELSE db[n]
  BY <1>0, <1>1, <1>2, <1>3 DEF Renamed, Core, Typed
<1>5. QED
  BY <1>0, <1>1, <1>4 DEF InStepAt

\* The commit makes the working copy the committed rows, and gives a new
\* directory to the row it was made for.
LEMMA CommitInStep ==
    ASSUME Core, Core', NEW p \in Procs, Commit(p), \A n \in Names : InStepAt(n)
    PROVE  \A n \in Names : InStepAt(n)'
<1>0. writer = p /\ call[p].name \in Names /\ Working(call[p])
  BY CommitTx DEF Core
<1>1. FollowedRows = tx /\ FollowedRows' = tx
  BY <1>0, ConstantsOK DEF Commit, At, FollowedRows
<1>2. ASSUME NEW n \in Names, disk'[n] # disk[n]
      PROVE  disk[n] # None /\ disk'[n] # None /\ disk'[n].data = tx[n].id
  <2>1. n = call[p].name /\ disk[n] # None /\ disk'[n] = [disk[n] EXCEPT !.data = tx[n].id]
    BY <1>0, <1>2 DEF Commit, Claimed, Core, Typed
  <2>2. disk[n] \in Dir
    BY <2>1 DEF Core, Typed
  <2>3. disk'[n].data = tx[n].id
    BY <2>1, <2>2 DEF Dir
  <2>4. disk'[n] # None
    <3>1. tx[n] # None
      BY <1>1, <2>1 DEF InStepAt
    <3>2. tx[n].id \in 0 .. MaxRepos
      BY <3>1, ConstantsOK DEF Core, Typed, Row
    <3>3. disk'[n] \in Dir
      BY <2>1, <2>2, <3>2 DEF Dir
    <3>4. QED
      BY <3>3, ConstantsOK
  <2>5. QED
    BY <2>1, <2>3, <2>4
<1>3. QED
  BY <1>1, <1>2 DEF InStepAt

\* A step that leaves it as it was whose the directory of n is and which row is
\* followed there.
SameAt(n) ==
    /\ (disk'[n] = None) <=> (disk[n] = None)
    /\ disk[n] # None => disk'[n].data = disk[n].data
    /\ (FollowedRows'[n] = None) <=> (FollowedRows[n] = None)
    /\ FollowedRows[n] # None => FollowedRows'[n].id = FollowedRows[n].id

\* SetPrivate changes the export file and the flag, not what they belong to.
LEMMA SettingSame ==
    ASSUME Core, Core', NEW p \in Procs, Setting(p)
    PROVE  \A n \in Names : SameAt(n)
<1>0. call[p].name \in Names /\ call[p].private \in BOOLEAN /\ Others(p)
  BY OthersKept DEF Core, Typed, Call, Shapes, Shape, Setting, DropCache, SetExport,
     SetExportFails, UpdateRow, At
<1>1. CASE DropCache(p)
  <2>1. FollowedRows' = FollowedRows
    BY <1>0, <1>1, FollowedOutside DEF DropCache, At, InTx
  <2>2. QED
    BY <1>1, <2>1 DEF DropCache, SameAt
<1>2. CASE SetExport(p)
  <2>1. FollowedRows' = FollowedRows
    BY <1>0, <1>2, FollowedOutside DEF SetExport, At, InTx
  <2>2. ASSUME NEW n \in Names
        PROVE  /\ (disk'[n] = None) <=> (disk[n] = None)
               /\ disk[n] # None => disk'[n].data = disk[n].data
    <3>1. CASE n = call[p].name /\ disk[n] # None
      <4>1. disk[n] \in Dir /\ disk'[n] = [disk[n] EXCEPT !.export = ~call[p].private]
        BY <1>0, <1>2, <3>1 DEF SetExport, Core, Typed
      <4>2. disk'[n] \in Dir /\ disk'[n].data = disk[n].data
        BY <1>0, <4>1 DEF Dir
      <4>3. QED
        BY <3>1, <4>2, ConstantsOK
    <3>2. CASE ~ (n = call[p].name /\ disk[n] # None)
      BY <1>0, <1>2, <3>2 DEF SetExport, Core, Typed
    <3>3. QED
      BY <3>1, <3>2
  <2>3. QED
    BY <2>1, <2>2 DEF SameAt
<1>3. CASE UpdateRow(p)
  <2>1. /\ FollowedRows = db /\ FollowedRows' = Updated(call[p].name, call[p].private)
        /\ disk' = disk
    <3>1. call'[p].pc = "commit" /\ writer' = p /\ writer = None
      BY <1>3 DEF UpdateRow, OpenTx, Goto, Core, Typed, Call
    <3>2. QED
      BY <1>3, <3>1, ConstantsOK DEF UpdateRow, OpenTx, FollowedRows
  <2>2. ASSUME NEW n \in Names
        PROVE  /\ (FollowedRows'[n] = None) <=> (db[n] = None)
               /\ db[n] # None => FollowedRows'[n].id = db[n].id
    <3>1. CASE n = call[p].name /\ db[n] # None
      <4>1. db[n] \in Row /\ FollowedRows'[n] = [db[n] EXCEPT !.private = call[p].private]
        BY <1>0, <2>1, <3>1 DEF Updated, Core, Typed
      <4>2. FollowedRows'[n] \in Row /\ FollowedRows'[n].id = db[n].id
        BY <1>0, <4>1 DEF Row
      <4>3. QED
        BY <3>1, <4>2, ConstantsOK
    <3>2. CASE ~ (n = call[p].name /\ db[n] # None)
      BY <1>0, <2>1, <3>2 DEF Updated, Core, Typed
    <3>3. QED
      BY <3>1, <3>2
  <2>3. QED
    BY <2>1, <2>2 DEF SameAt
<1>4. CASE SetExportFails(p)
  <2>1. FollowedRows' = FollowedRows
    BY <1>0, <1>4, FollowedOutside DEF SetExportFails, At, InTx
  <2>2. QED
    BY <1>4, <2>1 DEF SetExportFails, SameAt
<1>5. QED
  BY <1>1, <1>2, <1>3, <1>4 DEF Setting

LEMMA SettingInStep ==
    ASSUME Core, Core', NEW p \in Procs, Setting(p), \A n \in Names : InStepAt(n)
    PROVE  \A n \in Names : InStepAt(n)'
  BY SettingSame DEF SameAt, InStepAt

\* The steps that change no directory and do not switch the rows to follow.
LEMMA FramesInStep ==
    ASSUME FollowedRows' = FollowedRows, UNCHANGED disk, \A n \in Names : InStepAt(n)
    PROVE  \A n \in Names : InStepAt(n)'
  BY DEF InStepAt

\* Every step but these changes no directory and not which rows are followed.
LEMMA QuietOrLoud ==
    ASSUME Core, Core', [Next]_vars
    PROVE  \/ FollowedRows' = FollowedRows /\ UNCHANGED disk
           \/ \E p \in Procs : \/ InitDir(p) \/ InitDirFails(p) \/ RemoveDir(p)
                              \/ RemoveOrphan(p) \/ MoveDir(p) \/ Setting(p)
                              \/ Commit(p) \/ CommitFails(p)
           \/ Crash
<1> DEFINE Quiet == FollowedRows' = FollowedRows /\ UNCHANGED disk
<1>1. ASSUME NEW p \in Procs, Begin(p) \/ Lookup(p)
      PROVE  Quiet
  <2>1. /\ Others(p) /\ UNCHANGED <<Rows, disk>> /\ call[p].pc \notin InTx
    BY <1>1, OthersKept DEF Core, Begin, Lookup, CacheHit, CacheMiss, StatDir,
       QueryRow, FillCache, At, InTx
  <2>2. QED
    BY <2>1, FollowedOutside
<1>2. ASSUME UNCHANGED <<Rows, disk, call>>
      PROVE  Quiet
  BY <1>2 DEF Rows, FollowedRows
<1>3. ASSUME NEW p \in Procs, Creating(p)
      PROVE  Quiet \/ InitDir(p) \/ InitDirFails(p)
  <2>1. CASE InsertRow(p)
    <3>1. Others(p) /\ UNCHANGED disk /\ call[p].pc \notin InTx
      BY <1>3, <2>1, OthersKept DEF Core, InsertRow, At, InTx
    <3>2. \/ UNCHANGED Rows
          \/ \E rows : OpenTx(p, rows) /\ Goto(p, "initdir")
      BY <2>1 DEF InsertRow
    <3>3. QED
      BY <3>1, <3>2, FollowedOutside, FollowedOpen
  <2>2. QED
    BY <1>3, <2>1 DEF Creating
<1>4. ASSUME NEW p \in Procs, Deleting(p)
      PROVE  Quiet \/ RemoveDir(p) \/ RemoveOrphan(p)
  <2>1. CASE RemoveNothing(p)
    <3>1. Others(p) /\ UNCHANGED <<Rows, disk>> /\ call[p].pc \notin InTx
      BY <1>4, <2>1, OthersKept DEF Core, RemoveNothing, At, InTx
    <3>2. QED
      BY <3>1, FollowedOutside
  <2>2. CASE RemoveRow(p)
    <3>1. \E rows : OpenTx(p, rows) /\ Goto(p, "rmdir") /\ UNCHANGED disk
      BY <2>2 DEF RemoveRow
    <3>2. QED
      BY <3>1, FollowedOpen
  <2>3. CASE RemoveDirFails(p)
    BY <2>3, FollowedRollback DEF RemoveDirFails, At
  <2>4. QED
    BY <1>4, <2>1, <2>2, <2>3 DEF Deleting
<1>5. ASSUME NEW p \in Procs, Renaming(p)
      PROVE  Quiet \/ MoveDir(p)
  <2>1. CASE CheckDirs(p)
    <3>1. Others(p) /\ UNCHANGED <<Rows, disk>> /\ call[p].pc \notin InTx
      BY <1>5, <2>1, OthersKept DEF Core, CheckDirs, At, InTx
    <3>2. QED
      BY <3>1, FollowedOutside
  <2>2. CASE MoveRow(p)
    <3>1. Others(p) /\ UNCHANGED disk /\ call[p].pc \notin InTx
      BY <1>5, <2>2, OthersKept DEF Core, MoveRow, At, InTx
    <3>2. \/ UNCHANGED Rows
          \/ \E rows : OpenTx(p, rows) /\ Goto(p, "mvdir")
      BY <2>2 DEF MoveRow
    <3>3. QED
      BY <3>1, <3>2, FollowedOutside, FollowedOpen
  <2>3. CASE MoveDirFails(p)
    BY <2>3, FollowedRollback DEF MoveDirFails, At
  <2>4. QED
    BY <1>5, <2>1, <2>2, <2>3 DEF Renaming
<1>6. ASSUME NEW p \in Procs, Ending(p)
      PROVE  Quiet \/ Commit(p) \/ CommitFails(p)
  <2>1. CASE DeferredDelete(p)
    <3>1. call'[p].pc = "commit" /\ call[p].pc = "uncache" /\ Others(p)
      BY <1>6, <2>1, OthersKept DEF DeferredDelete, At, Goto, Core, Typed, Call
    <3>2. FollowedRows' = FollowedRows
      BY <2>1, <3>1, ConstantsOK DEF DeferredDelete, Rows, Others, FollowedRows,
         Core, Typed
    <3>3. QED
      BY <2>1, <3>2 DEF DeferredDelete
  <2>2. CASE BusyTimeout(p)
    <3>1. Others(p) /\ UNCHANGED <<Rows, disk>> /\ call[p].pc \notin InTx
      BY <1>6, <2>2, OthersKept DEF Core, BusyTimeout, At, InTx
    <3>2. QED
      BY <3>1, FollowedOutside
  <2>3. QED
    BY <1>6, <2>1, <2>2 DEF Ending
<1>7. ASSUME NEW p \in Procs, ListAll(p)
      PROVE  Quiet
  BY <1>2, <1>7 DEF ListAll
<1>8. ASSUME NEW n \in Names, Evict(n)
      PROVE  Quiet
  BY <1>2, <1>8 DEF Evict
<1>9. CASE UNCHANGED vars
  BY <1>2, <1>9 DEF vars, Rows
<1>10. ASSUME NEW p \in Procs,
              \/ Begin(p) \/ ListAll(p) \/ Lookup(p) \/ Creating(p) \/ Deleting(p)
              \/ Renaming(p) \/ Setting(p) \/ Ending(p)
       PROVE  Quiet \/ \/ InitDir(p) \/ InitDirFails(p) \/ RemoveDir(p)
                       \/ RemoveOrphan(p) \/ MoveDir(p) \/ Setting(p)
                       \/ Commit(p) \/ CommitFails(p)
  BY <1>1, <1>3, <1>4, <1>5, <1>6, <1>7, <1>10
<1>11. CASE Next
  BY <1>8, <1>10, <1>11 DEF Next
<1>12. QED
  BY <1>9, <1>11

LEMMA InStepStep ==
    ASSUME Core, Core', [Next]_vars, faults' = 0, strays' = 0, \A n \in Names : InStepAt(n)
    PROVE  \A n \in Names : InStepAt(n)'
<1>1. ~ Fault /\ strays' # strays + 1
  BY DEF Fault, Core, Typed
<1>2. ~Crash /\ \A p \in Procs : ~InitDirFails(p) /\ ~CommitFails(p) /\ ~RemoveOrphan(p)
  BY <1>1 DEF Crash, InitDirFails, CommitFails, RemoveOrphan
<1>3. CASE FollowedRows' = FollowedRows /\ UNCHANGED disk
  BY <1>3, FramesInStep
<1>4. QED
  BY <1>2, <1>3, QuietOrLoud, SettingInStep, InitDirInStep, RemoveDirInStep,
     MoveDirInStep, CommitInStep

\* Faults are counted, and a removal by the orphan branch is not forgotten.
LEMMA FaultsAddUp ==
    ASSUME [Next]_vars
    PROVE  /\ faults' = faults \/ faults' = faults + 1
           /\ strays' = strays \/ strays' = strays + 1
<1>1. faults' = faults \/ faults' = faults + 1
  BY DEF Next, vars, Bounds, Fault, Begin, ListAll, Evict, Crash,
         Lookup, CacheHit, CacheMiss, StatDir, QueryRow, FillCache,
         Creating, InsertRow, InitDir, InitDirFails,
         Deleting, RemoveNothing, RemoveOrphan, RemoveRow, RemoveDir, RemoveDirFails,
         Renaming, CheckDirs, MoveRow, MoveDir, MoveDirFails,
         Setting, DropCache, SetExport, SetExportFails, UpdateRow,
         Ending, DeferredDelete, Commit, CommitFails, BusyTimeout
<1>2. strays' = strays \/ strays' = strays + 1
  BY DEF Next, vars, Bounds, Fault, Begin, ListAll, Evict, Crash,
         Lookup, CacheHit, CacheMiss, StatDir, QueryRow, FillCache,
         Creating, InsertRow, InitDir, InitDirFails,
         Deleting, RemoveNothing, RemoveOrphan, RemoveRow, RemoveDir, RemoveDirFails,
         Renaming, CheckDirs, MoveRow, MoveDir, MoveDirFails,
         Setting, DropCache, SetExport, SetExportFails, UpdateRow,
         Ending, DeferredDelete, Commit, CommitFails, BusyTimeout
<1>3. QED
  BY <1>1, <1>2

\* As long as no crash or I/O error falls between a change of a directory and
\* its commit, and the orphan branch of DeleteRepository has not run, rows and
\* directories agree in every state, however the callers interleave.
THEOREM RowsAndDirectoriesInStep == Spec => []InStep
<1>1. InStep <=> (faults = 0 /\ strays = 0 => \A n \in Names : InStepAt(n))
  BY DEF InStep, InStepAt
<1>2. Init => InStep
  BY DEF Init, InStep, FollowedRows
<1>3. Core /\ Core' /\ InStep /\ [Next]_vars => InStep'
  <2> SUFFICES ASSUME Core, Core', InStep, [Next]_vars, faults' = 0, strays' = 0
               PROVE  \A n \in Names : InStepAt(n)'
    BY DEF InStep, InStepAt
  <2>1. faults = 0 /\ strays = 0
    BY FaultsAddUp DEF Core, Typed
  <2>2. QED
    BY <1>1, <2>1, InStepStep
<1>4. QED
  BY <1>2, <1>3, CoreInvariant, PTL DEF Spec

-----------------------------------------------------------------------------
(* What a fault leaves behind                                              *)

\* The names whose row, of those to be followed, has no directory, and those whose
\* directory is nobody's or another's.
Lost == {n \in Names : FollowedRows[n] # None /\ disk[n] = None}
Littered ==
    {n \in Names : /\ disk[n] # None
                   /\ FollowedRows[n] # None =>
                         disk[n].data \notin {0, FollowedRows[n].id}}

\* After the directory of a repository has been moved, nobody makes another in its
\* old place before the commit: that takes the write lock.
MovedAway ==
    writer # None /\ call[writer].op = "rename" /\ call[writer].pc \in {"uncache", "commit"}
        => disk[call[writer].name] = None

\* What went wrong so far.
Harm == faults + strays

Damage == /\ IsFiniteSet(Lost) /\ Cardinality(Lost) <= Harm
          /\ IsFiniteSet(Littered) /\ Cardinality(Littered) <= Harm

LEMMA MovedAwayStep ==
    ASSUME Core, Core', MovedAway, [Next]_vars PROVE MovedAway'
<1> SUFFICES ASSUME NEW w \in Procs, writer' = w, call'[w].op = "rename",
                    call'[w].pc \in {"uncache", "commit"}
             PROVE  disk'[call'[w].name] = None
  BY DEF MovedAway, Core, Typed
<1> DEFINE Steps(p) == \/ Begin(p) \/ ListAll(p) \/ Lookup(p) \/ Creating(p)
                       \/ Deleting(p) \/ Renaming(p) \/ Setting(p) \/ Ending(p)
<1>0. w \in Procs /\ call \in [Procs -> Call] /\ call' \in [Procs -> Call]
  BY DEF Core, Typed
<1>1. ASSUME call'[w] = call[w]
      PROVE  writer = w /\ disk[call[w].name] = None /\ call[w].name \in Names
  BY <1>0, <1>1, ConstantsOK DEF MovedAway, Core, Typed, Locked, InTx, Shapes, Shape
<1>2. ASSUME NEW p \in Procs, Steps(p), p # w PROVE disk'[call'[w].name] = None
  <2>1. call'[w] = call[w]
    BY <1>0, <1>2, OthersKept DEF Core, Others
  <2>2. writer = w /\ disk[call[w].name] = None /\ call[w].name \in Names
    BY <1>1, <2>1
  <2>3. call[p].pc \notin InTx
    BY <1>2, <2>2 DEF Core, Locked
  <2>4. UNCHANGED disk \/ RemoveOrphan(p) \/ SetExport(p)
    BY <1>2, <2>3
    DEF InTx, At, Begin, ListAll, Lookup, CacheHit, CacheMiss, StatDir, QueryRow,
        FillCache, Creating, InsertRow, InitDir, InitDirFails,
        Deleting, RemoveNothing, RemoveRow, RemoveDir, RemoveDirFails,
        Renaming, CheckDirs, MoveRow, MoveDir, MoveDirFails,
        Setting, DropCache, SetExportFails, UpdateRow,
        Ending, DeferredDelete, Commit, CommitFails, BusyTimeout
  <2>5. disk \in [Names -> Dir \cup {None}]
    BY DEF Core, Typed
  <2>6. QED
    BY <2>1, <2>2, <2>4, <2>5 DEF RemoveOrphan, SetExport
<1>3. ASSUME Steps(w) PROVE disk'[call'[w].name] = None
  <2>1. \A res : ~Finish(w, res)
    BY <1>0 DEF Finish, Idle
  <2>2. \A pc : Goto(w, pc) => pc \in {"uncache", "commit"} /\ call[w].op = "rename"
    BY <1>0 DEF Goto, Call
  <2>3. ~Begin(w)
    <3>1. SUFFICES ASSUME Begin(w) PROVE FALSE
      OBVIOUS
    <3>2. PICK op, pc, n, m, b : /\ Start(w, op, pc, n, m, b)
                                 /\ pc \in {"insert", "drop", "get", "check"}
      BY <3>1 DEF Begin
    <3>3. call'[w].pc = pc
      BY <1>0, <3>2 DEF Start, Idle
    <3>4. QED
      BY <3>2, <3>3
  <2>4. ~Found(w)
    BY <1>0, <2>1 DEF Found, Call
  <2>5. ~Lookup(w)
    <3>1. ~QueryRow(w)
      BY <1>0, <2>1 DEF QueryRow, Call
    <3>2. QED
      BY <2>1, <2>2, <2>4, <3>1 DEF Lookup, CacheHit, CacheMiss, StatDir, FillCache
  <2>6. ~Creating(w)
    BY <2>1, <2>2
    DEF Core, Shapes, Shape, At, Creating, InsertRow, InitDir, InitDirFails
  <2>7. ~Deleting(w)
    BY <2>1, <2>2
    DEF Core, Shapes, Shape, At, Deleting, RemoveNothing, RemoveOrphan, RemoveRow,
        RemoveDir, RemoveDirFails
  <2>8. ~Setting(w)
    BY <2>1, <2>2
    DEF Core, Shapes, Shape, At, Setting, DropCache, SetExport, SetExportFails, UpdateRow
  <2>9. Renaming(w) => MoveDir(w)
    BY <2>1, <2>2 DEF Renaming, CheckDirs, MoveRow, MoveDirFails
  <2>10. Ending(w) => DeferredDelete(w)
    <3>1. ~Commit(w)
      BY <1>0, <2>1 DEF Commit, Call
    <3>2. QED
      BY <2>1, <3>1 DEF Ending, CommitFails, BusyTimeout
  <2>11. CASE ListAll(w)
    BY <1>1, <2>11 DEF ListAll
  <2>12. CASE MoveDir(w)
    <3>1. call[w].name \in Names /\ call'[w].name = call[w].name /\ call[w].new # call[w].name
      BY <1>0, <2>12 DEF MoveDir, Goto, Core, Shapes, Shape, At, Call
    <3>2. QED
      BY <2>12, <3>1 DEF MoveDir, Core, Typed
  <2>13. CASE DeferredDelete(w)
    <3>1. /\ call[w].pc = "uncache" /\ UNCHANGED <<writer, disk>>
          /\ call'[w].op = call[w].op /\ call'[w].name = call[w].name
      BY <1>0, <2>13 DEF DeferredDelete, At, Goto, Rows, Call
    <3>2. writer = w /\ w # None
      BY <3>1, ConstantsOK
    <3>3. QED
      BY <3>1, <3>2 DEF MovedAway
  <2>14. QED
    BY <1>3, <2>3, <2>5, <2>6, <2>7, <2>8, <2>9, <2>10, <2>11, <2>12, <2>13
<1>4. CASE UNCHANGED <<call, disk>>
  BY <1>1, <1>4
<1>5. ~Crash
  BY <1>0 DEF Crash, Idle
<1>6. QED
  BY <1>2, <1>3, <1>4, <1>5 DEF Next, vars, Evict


\* A step that loses and litters at most where it was so already.
LEMMA NoMoreDamage ==
    ASSUME Core, Core', Damage, [Next]_vars, Lost' \subseteq Lost,
           Littered' \subseteq Littered
    PROVE  Damage'
<1>1. /\ faults \in Nat /\ strays \in Nat
      /\ faults' = faults \/ faults' = faults + 1
      /\ strays' = strays \/ strays' = strays + 1
  BY FaultsAddUp, ConstantsOK DEF Core, Typed
<1>2. Harm \in Nat /\ Harm' \in Nat /\ Harm <= Harm'
  BY <1>1 DEF Harm
<1>3. /\ IsFiniteSet(Lost) /\ Cardinality(Lost) <= Harm
      /\ IsFiniteSet(Littered) /\ Cardinality(Littered) <= Harm
  BY DEF Damage
<1>4. /\ IsFiniteSet(Lost') /\ Cardinality(Lost') <= Cardinality(Lost)
      /\ IsFiniteSet(Littered') /\ Cardinality(Littered') <= Cardinality(Littered)
  BY <1>3, FS_Subset
<1>5. /\ Cardinality(Lost) \in Nat /\ Cardinality(Lost') \in Nat
      /\ Cardinality(Littered) \in Nat /\ Cardinality(Littered') \in Nat
  BY <1>3, <1>4, FS_CardinalityType
<1>6. QED
  BY <1>2, <1>3, <1>4, <1>5 DEF Damage

\* A fault, or a removal by the orphan branch, that loses or litters one name more.
LEMMA OneMoreName ==
    ASSUME NEW S, IsFiniteSet(S), NEW k \in Nat, Cardinality(S) <= k, NEW a, NEW T,
           T \subseteq S \cup {a}
    PROVE  IsFiniteSet(T) /\ Cardinality(T) <= k + 1
<1>1. /\ IsFiniteSet(S \cup {a}) /\ Cardinality(S) \in Nat
      /\ Cardinality(S \cup {a}) \in {Cardinality(S), Cardinality(S) + 1}
  BY FS_AddElement, FS_CardinalityType
<1>2. IsFiniteSet(T) /\ Cardinality(T) <= Cardinality(S \cup {a}) /\ Cardinality(T) \in Nat
  BY <1>1, FS_Subset, FS_CardinalityType
<1>3. QED
  BY <1>1, <1>2

LEMMA FaultDamages ==
    ASSUME Core, Core', Damage, NEW a, NEW b, Lost' \subseteq Lost \cup {a},
           Littered' \subseteq Littered \cup {b},
           Fault \/ (strays' = strays + 1 /\ faults' = faults)
    PROVE  Damage'
<1>1. faults \in Nat /\ strays \in Nat
  BY ConstantsOK DEF Core, Typed
<1>2. Harm \in Nat /\ Harm' = Harm + 1
  BY <1>1 DEF Fault, Harm
<1>3. QED
  BY <1>2, OneMoreName DEF Damage

LEMMA SameDamage ==
    ASSUME \A n \in Names : SameAt(n)
    PROVE  Lost' = Lost /\ Littered' = Littered
  BY DEF SameAt, Lost, Littered

\* Where the rows to follow are as they were, and the directories.
LEMMA FrameSame ==
    ASSUME FollowedRows' = FollowedRows, UNCHANGED disk
    PROVE  \A n \in Names : SameAt(n)
  BY DEF SameAt

\* The directory of a new repository is made, or one that lay about is taken.
LEMMA InitDirHarmless ==
    ASSUME Core, Core', NEW p \in Procs, InitDir(p)
    PROVE  Lost' \subseteq Lost /\ Littered' \subseteq Littered
<1> DEFINE n == call[p].name
           b == call[p].private
           new == [id |-> issued + 1, private |-> b]
<1>1. /\ n \in Names /\ call[p].op = "create" /\ b \in BOOLEAN
      /\ disk \in [Names -> Dir \cup {None}] /\ db \in [Names -> Row \cup {None}]
  BY DEF Core, Typed, Call, Shapes, Shape, InitDir, At
<1>2. FollowedRows = db /\ FollowedRows' = tx /\ db[n] = None /\ tx = Inserted(n, b)
  BY <1>1, FollowedSwitch DEF InitDir, Working, At
<1>3. disk' = [disk EXCEPT ![n] = InitializedDir(disk[n], b)]
  BY DEF InitDir
<1>4. disk[n] # None => InitializedDir(disk[n], b).data = disk[n].data
  BY <1>1 DEF InitializedDir, Dir
<1>5. disk[n] = None => InitializedDir(disk[n], b).data = 0
  BY DEF InitializedDir
<1>6. disk' \in [Names -> Dir \cup {None}] /\ InitializedDir(disk[n], b) # None
  <2>1. InitializedDir(disk[n], b) \in Dir
    <3>1. CASE disk[n] = None
      BY <1>1, <3>1, ConstantsOK DEF InitializedDir, Dir
    <3>2. CASE disk[n] # None
      <4>1. (disk[n].export \/ ~b) \in BOOLEAN
        OBVIOUS
      <4>2. QED
        BY <1>1, <3>2, <4>1 DEF InitializedDir, Dir
    <3>3. QED
      BY <3>1, <3>2
  <2>2. QED
    BY <1>1, <1>3, <2>1, ConstantsOK
<1>7. /\ tx[n] = new /\ \A m \in Names \ {n} : tx[m] = db[m] /\ disk'[m] = disk[m]
      /\ disk'[n] = InitializedDir(disk[n], b)
  BY <1>1, <1>2, <1>3 DEF Inserted
<1>8. new # None
  <2>1. issued + 1 \in 1 .. MaxRepos
    <3>1. issued < MaxRepos /\ issued \in Nat
      BY <1>1, FollowedSwitch, ConstantsOK DEF InitDir, At, Working, Core, Typed
    <3>2. QED
      BY <3>1, ConstantsOK
  <2>2. QED
    BY <1>1, <2>1, ConstantsOK DEF Row
<1> HIDE DEF new, n, b
<1>9. Lost' \subseteq Lost
  BY <1>2, <1>6, <1>7 DEF Lost
<1>10. Littered' \subseteq Littered
  BY <1>2, <1>4, <1>5, <1>6, <1>7, <1>8 DEF Littered
<1>11. QED
  BY <1>9, <1>10

LEMMA RemoveDirHarmless ==
    ASSUME Core, NEW p \in Procs, RemoveDir(p)
    PROVE  Lost' \subseteq Lost /\ Littered' \subseteq Littered
<1>0. call[p].name \in Names /\ call[p].op = "delete"
  BY DEF Core, Shapes, Shape, RemoveDir, At
<1>1. /\ FollowedRows = db /\ FollowedRows' = tx
      /\ tx = [db EXCEPT ![call[p].name] = None]
  BY <1>0, FollowedSwitch DEF RemoveDir, Working, At
<1>2. disk' = [disk EXCEPT ![call[p].name] = None]
  BY DEF RemoveDir
<1>3. QED
  BY <1>0, <1>1, <1>2 DEF Lost, Littered, Core, Typed

LEMMA CommitHarmless ==
    ASSUME Core, Core', NEW p \in Procs, Commit(p)
    PROVE  Lost' \subseteq Lost /\ Littered' \subseteq Littered
<1> DEFINE n == call[p].name
<1>0. writer = p /\ n \in Names /\ disk \in [Names -> Dir \cup {None}]
  BY CommitTx DEF Core, Typed
<1>1. FollowedRows = tx /\ FollowedRows' = tx
  BY <1>0, ConstantsOK DEF Commit, At, FollowedRows
<1>2. CASE UNCHANGED disk
  BY <1>1, <1>2 DEF Lost, Littered
<1>3. CASE /\ call[p].op = "create" /\ disk[n] # None /\ disk[n].data = 0
           /\ disk' = [disk EXCEPT ![n].data = tx[n].id]
  <2>1. /\ tx[n] # None => disk'[n].data = tx[n].id
        /\ \A m \in Names \ {n} : disk'[m] = disk[m]
    BY <1>0, <1>3 DEF Dir
  <2>2. tx[n] # None
    <3>1. issued < MaxRepos /\ tx = Inserted(n, call[p].private) /\ issued \in Nat
      BY <1>3, CommitTx, ConstantsOK DEF Core, Working, Typed
    <3>2. tx[n] \in Row
      <4>1. issued + 1 \in 1 .. MaxRepos /\ call[p].private \in BOOLEAN
        BY <3>1, CommitTx, ConstantsOK DEF Core
      <4>2. QED
        BY <1>0, <3>1, <4>1 DEF Inserted, Row, Core, Typed
    <3>3. QED
      BY <3>2, ConstantsOK
  <2>3. disk'[n] # None
    <3>1. tx[n].id \in 0 .. MaxRepos
      BY <1>0, <2>2, ConstantsOK DEF Core, Typed, Row
    <3>2. disk'[n] \in Dir
      BY <1>0, <1>3, <3>1 DEF Dir
    <3>3. QED
      BY <3>2, ConstantsOK
  <2> HIDE DEF n
  <2>4. Lost' \subseteq Lost
    BY <1>1, <2>1, <2>3 DEF Lost
  <2>5. Littered' \subseteq Littered
    BY <1>1, <2>1, <2>2 DEF Littered
  <2>6. QED
    BY <2>4, <2>5
<1>4. QED
  BY <1>2, <1>3 DEF Commit, Claimed


\* A directory moves with its row; one that is nobody's moves to where a row lacks
\* one, or just elsewhere.
LEMMA MoveDirHarmless ==
    ASSUME Core, Core', Damage, [Next]_vars, NEW p \in Procs, MoveDir(p)
    PROVE  Damage'
<1> DEFINE old == call[p].name
           new == call[p].new
<1>1. /\ call[p].op = "rename" /\ old \in Names /\ new \in Names /\ new # old
      /\ disk \in [Names -> Dir \cup {None}] /\ db \in [Names -> Row \cup {None}]
  BY DEF Core, Typed, Shapes, Shape, MoveDir, At
<1>2. /\ FollowedRows = db /\ FollowedRows' = tx
      /\ tx = Renamed(old, new) /\ (db[old] = None \/ db[new] = None)
  BY <1>1, FollowedSwitch DEF MoveDir, Working, At
<1>3. /\ disk[old] # None /\ disk[new] = None /\ disk'[old] = None
      /\ disk'[new] = disk[old] /\ \A m \in Names \ {old, new} : disk'[m] = disk[m]
      /\ UNCHANGED <<faults, strays>>
  BY <1>1 DEF MoveDir, Bounds
<1>4. \/ tx = db /\ db[old] = None
      \/ /\ tx[old] = None /\ tx[new] = db[old] /\ db[old] # None /\ db[new] = None
         /\ \A m \in Names \ {old, new} : tx[m] = db[m]
  BY <1>1, <1>2 DEF Renamed
<1> HIDE DEF old, new
<1>5. Lost' \subseteq Lost
  BY <1>2, <1>3, <1>4 DEF Lost
<1>6. \/ Littered' \subseteq Littered
      \/ old \in Littered /\ Littered' \subseteq (Littered \ {old}) \cup {new}
  <2>1. CASE tx = db /\ db[old] = None
    BY <1>1, <1>2, <1>3, <2>1 DEF Littered
  <2>2. CASE /\ tx[old] = None /\ tx[new] = db[old] /\ db[old] # None /\ db[new] = None
             /\ \A m \in Names \ {old, new} : tx[m] = db[m]
    BY <1>1, <1>2, <1>3, <2>2 DEF Littered
  <2>3. QED
    BY <1>4, <2>1, <2>2
<1>7. CASE Littered' \subseteq Littered
  BY <1>5, <1>7, NoMoreDamage
<1>8. CASE old \in Littered /\ Littered' \subseteq (Littered \ {old}) \cup {new}
  <2>2. /\ IsFiniteSet(Lost) /\ Cardinality(Lost) <= Harm /\ Harm \in Nat
        /\ IsFiniteSet(Littered) /\ Cardinality(Littered) <= Harm
    BY ConstantsOK DEF Damage, Core, Typed, Harm
  <2>3. IsFiniteSet(Lost') /\ Cardinality(Lost') <= Harm
    <3>1. IsFiniteSet(Lost') /\ Cardinality(Lost') <= Cardinality(Lost)
      BY <1>5, <2>2, FS_Subset
    <3>2. Cardinality(Lost) \in Nat /\ Cardinality(Lost') \in Nat
      BY <2>2, <3>1, FS_CardinalityType
    <3>3. QED
      BY <2>2, <3>1, <3>2
  <2>4. /\ IsFiniteSet(Littered \ {old})
        /\ Cardinality(Littered \ {old}) = Cardinality(Littered) - 1
    BY <1>8, <2>2, FS_RemoveElement
  <2>5. /\ Cardinality(Littered) \in Nat /\ Cardinality(Littered \ {old}) \in Nat
    BY <2>2, <2>4, FS_CardinalityType
  <2>6. Harm - 1 \in Nat /\ Cardinality(Littered \ {old}) <= Harm - 1
    BY <2>2, <2>4, <2>5
  <2>7. IsFiniteSet(Littered') /\ Cardinality(Littered') <= (Harm - 1) + 1
    BY <1>8, <2>4, <2>6, OneMoreName
  <2>8. QED
    BY <1>3, <2>2, <2>3, <2>7 DEF Damage, Harm
<1>9. QED
  BY <1>6, <1>7, <1>8

\* The transaction is rolled back and the directories stay: what it had changed is
\* one name's, or a directory moved from one name to another.
LEMMA RollbackDamages ==
    ASSUME Core, Core', MovedAway, Damage, Fault, UNCHANGED disk, Rollback
    PROVE  Damage'
<1>1. FollowedRows' = db
  BY DEF Rollback, FollowedRows
<1>2. CASE FollowedRows = db
  <2>1. Lost' = Lost /\ Littered' = Littered
    BY <1>1, <1>2 DEF Lost, Littered
  <2>2. Lost' \subseteq Lost \cup {None} /\ Littered' \subseteq Littered \cup {None}
    BY <2>1
  <2>3. QED
    BY <2>2, FaultDamages
<1>3. CASE FollowedRows # db
  <2> DEFINE c == call[writer]
             old == c.name
  <2>1. writer # None /\ c.pc \in {"uncache", "commit"} /\ FollowedRows = tx
    BY <1>3 DEF FollowedRows
  <2>2. /\ Working(c)
        /\ old \in Names
        /\ c.op = "rename" => c.new \in Names \ {old}
        /\ c.op \in {"create", "delete", "rename", "private"}
    BY <2>1 DEF Core, Typed, TxFollowsOp, Shapes, Shape
  <2>3. db \in [Names -> Row \cup {None}] /\ tx \in [Names -> Row \cup {None}]
    BY DEF Core, Typed
  <2>4. CASE c.op \in {"create", "delete"}
    <3>1. \A n \in Names \ {old} : tx[n] = db[n]
      <4>1. CASE c.op = "create"
        BY <2>2, <2>3, <4>1 DEF Working, Inserted
      <4>2. CASE c.op = "delete"
        BY <2>2, <2>3, <4>2 DEF Working
      <4>3. QED
        BY <2>4, <4>1, <4>2
    <3>2. Lost' \subseteq Lost \cup {old} /\ Littered' \subseteq Littered \cup {old}
      BY <1>1, <2>1, <3>1 DEF Lost, Littered
    <3>3. QED
      BY <3>2, FaultDamages
  <2>5. CASE c.op = "rename"
    <3>1. tx = Renamed(old, c.new) /\ (db[old] = None \/ db[c.new] = None)
      BY <2>2, <2>5 DEF Working
    <3>2. db[old] # None /\ db[c.new] = None
      BY <1>3, <2>1, <3>1 DEF Renamed
    <3>3. disk[old] = None
      BY <2>1, <2>5 DEF MovedAway
    <3>4. \A n \in Names \ {old, c.new} : tx[n] = db[n]
      BY <2>2, <2>3, <2>5, <3>1 DEF Renamed
    <3>5. Lost' \subseteq Lost \cup {old} /\ Littered' \subseteq Littered \cup {c.new}
      <4> HIDE DEF c
      <4>1. QED
        BY <1>1, <2>1, <3>2, <3>3, <3>4 DEF Lost, Littered
    <3>6. QED
      BY <3>5, FaultDamages
  <2>6. CASE c.op = "private"
    <3>1. \A n \in Names \ {old} : tx[n] = db[n]
      BY <2>2, <2>3, <2>6 DEF Working, Updated
    <3>2. Lost' \subseteq Lost \cup {old} /\ Littered' \subseteq Littered \cup {old}
      BY <1>1, <2>1, <3>1 DEF Lost, Littered
    <3>3. QED
      BY <3>2, FaultDamages
  <2>7. QED
    BY <2>2, <2>4, <2>5, <2>6
<1>4. QED
  BY <1>2, <1>3

LEMMA InitDirFailsDamages ==
    ASSUME Core, Core', Damage, NEW p \in Procs, InitDirFails(p)
    PROVE  Damage'
<1>1. FollowedRows' = FollowedRows /\ Fault
  BY FollowedRollback DEF InitDirFails, At
<1>2. disk' \in [Names -> Dir \cup {None}] /\ disk \in [Names -> Dir \cup {None}]
  BY DEF Core, Typed
<1>3. \A n \in Names \ {call[p].name} : disk'[n] = disk[n]
  BY <1>2 DEF InitDirFails
<1>4. /\ Lost' \subseteq Lost \cup {call[p].name}
      /\ Littered' \subseteq Littered \cup {call[p].name}
  BY <1>1, <1>3 DEF Lost, Littered
<1>5. QED
  BY <1>1, <1>4, FaultDamages


\* The orphan branch changes no rows.
LEMMA OrphanFollowed ==
    ASSUME Core, NEW p \in Procs, RemoveOrphan(p)
    PROVE  FollowedRows' = FollowedRows
<1>1. Others(p) /\ UNCHANGED Rows /\ call[p].pc \notin InTx
  BY OthersKept DEF Core, RemoveOrphan, Deleting, At, InTx
<1>2. QED
  BY <1>1, FollowedOutside

LEMMA DamageStep ==
    ASSUME Core, Core', MovedAway, Damage, [Next]_vars
    PROVE  Damage'
<1>1. CASE \A n \in Names : SameAt(n)
  <2>1. Lost' \subseteq Lost /\ Littered' \subseteq Littered
    BY <1>1, SameDamage
  <2>2. QED
    BY <2>1, NoMoreDamage
<1>2. CASE FollowedRows' = FollowedRows /\ UNCHANGED disk
  BY <1>1, <1>2, FrameSame
<1>3. ASSUME NEW p \in Procs, Setting(p)
      PROVE  Damage'
  BY <1>1, <1>3, SettingSame
<1>4. ASSUME NEW p \in Procs, InitDir(p) \/ RemoveDir(p) \/ Commit(p)
      PROVE  Damage'
  <2>1. Lost' \subseteq Lost /\ Littered' \subseteq Littered
    BY <1>4, InitDirHarmless, RemoveDirHarmless, CommitHarmless
  <2>2. QED
    BY <2>1, NoMoreDamage
<1>5. ASSUME NEW p \in Procs, RemoveOrphan(p)
      PROVE  Damage'
  <2>1. FollowedRows' = FollowedRows
    BY <1>5, OrphanFollowed
  <2>2. disk' = [disk EXCEPT ![call[p].name] = None] /\ disk \in [Names -> Dir \cup {None}]
    BY <1>5 DEF RemoveOrphan, Core, Typed
  <2>3. Lost' \subseteq Lost \cup {call[p].name} /\ Littered' \subseteq Littered \cup {None}
    BY <2>1, <2>2 DEF Lost, Littered
  <2>4. QED
    BY <1>5, <2>3, FaultDamages DEF RemoveOrphan
<1>6. ASSUME NEW p \in Procs, CommitFails(p)
      PROVE  Damage'
  BY <1>6, RollbackDamages DEF CommitFails
<1>7. CASE Crash
  BY <1>7, RollbackDamages DEF Crash
<1>8. QED
  BY <1>2, <1>3, <1>4, <1>5, <1>6, <1>7, QuietOrLoud, MoveDirHarmless, InitDirFailsDamages

\* However many callers there are, and whatever they interleave: every crash or
\* failure, and every run of the orphan branch of DeleteRepository, costs at most one
\* repository its directory and leaves at most one directory without its repository.
THEOREM DamageIsBounded == Spec => []DamageBounded
<1>1. Init => MovedAway /\ Damage
  <2> SUFFICES ASSUME Init
               PROVE  MovedAway /\ Damage
    OBVIOUS
  <2>1. Lost = {} /\ Littered = {}
    BY DEF Init, Lost, Littered, FollowedRows
  <2>2. faults = 0 /\ writer = None
    BY DEF Init
  <2>3. QED
    BY <2>1, <2>2, FS_EmptySet DEF MovedAway, Damage, Harm, Init
<1>2. Core /\ Core' /\ MovedAway /\ Damage /\ [Next]_vars => MovedAway' /\ Damage'
  BY MovedAwayStep, DamageStep
<1>3. Core /\ MovedAway /\ Damage => DamageBounded
  <2> SUFFICES ASSUME Core, Damage, AllIdle
               PROVE  /\ Cardinality(Missing) <= Harm
                      /\ Cardinality(Orphans \cup Adopted) <= Harm
    BY DEF DamageBounded, Harm
  <2>1. writer = None
    BY DEF Core, Typed, Locked, AllIdle, InTx
  <2>2. FollowedRows = db
    BY <2>1 DEF FollowedRows
  <2>3. Missing = Lost
    BY <2>2 DEF Missing, Lost
  <2>4. Orphans \cup Adopted = Littered
    BY <2>2 DEF Missing, Orphans, Adopted, Littered
  <2>5. QED
    BY <2>3, <2>4 DEF Damage
<1>4. QED
  BY <1>1, <1>2, <1>3, CoreInvariant, PTL DEF Spec

-----------------------------------------------------------------------------
(* One caller at a time                                                    *)

\* The steps of an operation after which the name it is about is not cached.
Dropped(c) ==
    \/ c.pc \in {"export", "update"}
    \/ c.pc = "commit" /\ c.op \in {"delete", "rename", "private"}

\* Nobody is there to read a row before a commit and cache it after.
CacheExact ==
    /\ \A n \in Names : cache[n] # None => cache[n] = db[n]
    /\ \A p \in Procs : /\ Dropped(call[p]) => cache[call[p].name] = None
                        /\ call[p].pc = "fill" => call[p].row = db[Target(p)]

ExportAt(n) == FollowedRows[n] # None => disk[n].export = ~FollowedRows[n].private

\* The export file is the row's, but between the two steps of SetPrivate.
ExportExact ==
    /\ \A n \in Names :
          (~\E p \in Procs : call[p].pc = "update" /\ call[p].name = n) => ExportAt(n)
    /\ \A p \in Procs : call[p].pc = "update" /\ disk[call[p].name] # None =>
                           disk[call[p].name].export = ~call[p].private

Sequential ==
    OneCaller => /\ CacheExact
                 /\ faults = 0 => strays = 0 /\ ExportExact

\* A step of the caller p's operation, or of its listing of the repositories.
StepOf(p) ==
    \/ Begin(p) \/ ListAll(p) \/ Lookup(p) \/ Creating(p) \/ Deleting(p)
    \/ Renaming(p) \/ Setting(p) \/ Ending(p)

\* The steps that lead to where the name is not cached: each drops it or comes
\* after one that did.
LEMMA WhoDrops ==
    ASSUME Core, NEW p \in Procs, StepOf(p), Dropped(call'[p])
    PROVE  \/ DropCache(p) \/ SetExport(p) \/ UpdateRow(p) \/ DeferredDelete(p)
<1>0. call[p] \in Call /\ Shape(call[p]) /\ call \in [Procs -> Call]
  BY DEF Core, Typed, Shapes
<1>1. \A res : ~Finish(p, res)
  BY <1>0 DEF Finish, Idle, Dropped
<1>2. \A pc : Goto(p, pc) =>
          \/ pc \in {"export", "update"}
          \/ pc = "commit" /\ call[p].op \in {"delete", "rename", "private"}
  BY <1>0 DEF Goto, Call, Dropped
<1>3. ~Begin(p)
  <2>1. SUFFICES ASSUME Begin(p) PROVE FALSE
    OBVIOUS
  <2>2. PICK op, pc, n, m, b : /\ Start(p, op, pc, n, m, b)
                               /\ pc \in {"insert", "drop", "get", "check"}
    BY <2>1 DEF Begin
  <2>3. call'[p].pc = pc
    BY <1>0, <2>2 DEF Start, Idle
  <2>4. QED
    BY <2>2, <2>3 DEF Dropped
<1>4. ~Found(p)
  BY <1>0, <1>1 DEF Found, Call, Dropped
<1>5. ~Lookup(p)
  <2>1. ~QueryRow(p)
    BY <1>0, <1>1 DEF QueryRow, Call, Dropped
  <2>2. QED
    BY <1>1, <1>2, <1>4, <2>1 DEF Lookup, CacheHit, CacheMiss, StatDir, FillCache
<1>6. ~Creating(p)
  BY <1>0, <1>1, <1>2 DEF Creating, InsertRow, InitDir, InitDirFails, At, Shape
<1>7. ~Deleting(p)
  BY <1>1, <1>2
  DEF Deleting, RemoveNothing, RemoveOrphan, RemoveRow, RemoveDir, RemoveDirFails
<1>8. ~Renaming(p)
  BY <1>1, <1>2 DEF Renaming, CheckDirs, MoveRow, MoveDir, MoveDirFails
<1>9. ~Commit(p)
  BY <1>0, <1>1 DEF Commit, Call, Dropped
<1>10. ~ListAll(p)
  BY DEF ListAll, At, Dropped
<1>11. QED
  BY <1>1, <1>3, <1>5, <1>6, <1>7, <1>8, <1>9, <1>10
  DEF StepOf, Setting, SetExportFails, Ending, CommitFails, BusyTimeout

\* What is in the cache after a step that commits nothing was there before, or
\* is a committed row.
LEMMA CachedBefore ==
    ASSUME Core, CacheExact, NEW p \in Procs, StepOf(p), ~Commit(p), NEW n \in Names
    PROVE  cache'[n] \in {None, cache[n], db[n]}
<1>1. cache \in [Names -> Row \cup {None}]
  BY DEF Core, Typed
<1>2. \/ UNCHANGED cache \/ cache' = Uncached(call[p].name)
      \/ ListAll(p) \/ FillCache(p)
  BY DEF StepOf, Begin, Lookup, CacheHit, CacheMiss, StatDir, QueryRow,
         Creating, InsertRow, InitDir, InitDirFails,
         Deleting, RemoveNothing, RemoveOrphan, RemoveRow, RemoveDir, RemoveDirFails,
         Renaming, CheckDirs, MoveRow, MoveDir, MoveDirFails,
         Setting, DropCache, SetExport, SetExportFails, UpdateRow,
         Ending, DeferredDelete, CommitFails, BusyTimeout
<1>3. CASE cache' = Uncached(call[p].name)
  BY <1>1, <1>3 DEF Uncached
<1>4. CASE ListAll(p)
  BY <1>4 DEF ListAll
<1>5. CASE FillCache(p)
  BY <1>1, <1>5 DEF FillCache, At, CacheExact
<1>6. QED
  BY <1>2, <1>3, <1>4, <1>5

\* A commit changes the rows of names that are not cached.
LEMMA CommitUncached ==
    ASSUME Core, CacheExact, NEW p \in Procs, Commit(p), NEW n \in Names, cache[n] # None
    PROVE  tx[n] = db[n]
<1>1. /\ call[p].name \in Names /\ Working(call[p]) /\ call[p].pc = "commit"
      /\ call[p].op \in {"create", "delete", "rename", "private"}
      /\ call[p].op = "rename" => call[p].new \in Names \ {call[p].name}
      /\ db \in [Names -> Row \cup {None}]
  BY CommitTx DEF Core, Commit, At, Typed
<1>2. cache[n] = db[n]
  BY DEF CacheExact
<1>3. call[p].op \in {"delete", "rename", "private"} => n # call[p].name
  BY <1>1 DEF CacheExact, Dropped
<1>4. CASE call[p].op = "create"
  BY <1>1, <1>2, <1>4 DEF Working, Inserted
<1>5. CASE call[p].op = "delete"
  BY <1>1, <1>3, <1>5 DEF Working
<1>6. CASE call[p].op = "rename"
  BY <1>1, <1>2, <1>3, <1>6 DEF Working, Renamed
<1>7. CASE call[p].op = "private"
  BY <1>1, <1>3, <1>7 DEF Working, Updated
<1>8. QED
  BY <1>1, <1>4, <1>5, <1>6, <1>7

LEMMA CacheExactStep ==
    ASSUME Core, Core', OneCaller, CacheExact, [Next]_vars
    PROVE  CacheExact'
<1>0. /\ cache \in [Names -> Row \cup {None}] /\ call \in [Procs -> Call]
      /\ call' \in [Procs -> Call] /\ \A q \in Procs : Shape(call[q])
  BY DEF Core, Typed, Shapes
<1>1. ASSUME NEW p \in Procs, StepOf(p)
      PROVE  CacheExact'
  <2>1. \A q \in Procs : q = p
    BY DEF OneCaller
  <2>2. \A n \in Names : cache'[n] # None => cache'[n] = db'[n]
    <3>1. CASE Commit(p)
      BY <1>1, <3>1, CommitUncached DEF Commit, CacheExact
    <3>2. CASE ~Commit(p)
      <4>1. db' = db
        <5>1. ~\E q \in Procs : Commit(q)
          BY <2>1, <3>2
        <5>2. QED
          BY <5>1, OnlyCommits
      <4>2. QED
        BY <1>1, <3>2, <4>1, CachedBefore DEF CacheExact
    <3>3. QED
      BY <3>1, <3>2
  <2>3. ASSUME Dropped(call'[p])
        PROVE  cache'[call'[p].name] = None
    <3>1. /\ DropCache(p) \/ SetExport(p) \/ UpdateRow(p) \/ DeferredDelete(p)
          /\ call'[p].name = call[p].name
      <4>1. DropCache(p) \/ SetExport(p) \/ UpdateRow(p) \/ DeferredDelete(p)
        BY <1>1, <2>3, WhoDrops
      <4>2. \A res : ~Finish(p, res)
        BY <1>0, <2>3 DEF Finish, Idle, Dropped
      <4>3. \E pc : Goto(p, pc)
        BY <4>1, <4>2 DEF DropCache, SetExport, UpdateRow, DeferredDelete
      <4>4. QED
        BY <1>0, <4>1, <4>3 DEF Goto, Call
    <3>2. call[p].name \in Names
      BY <1>0, <3>1
      DEF Shape, DropCache, SetExport, UpdateRow, DeferredDelete, At, Call
    <3>3. CASE DropCache(p) \/ DeferredDelete(p)
      BY <1>0, <3>1, <3>2, <3>3 DEF DropCache, DeferredDelete, Uncached
    <3>4. CASE SetExport(p) \/ UpdateRow(p)
      BY <3>1, <3>4 DEF SetExport, UpdateRow, At, Dropped, CacheExact
    <3>5. QED
      BY <3>1, <3>3, <3>4
  <2>4. ASSUME call'[p].pc = "fill"
        PROVE  call'[p].row = db'[Target(p)']
    <3>1. QueryRow(p)
      <4>1. QueryRow(p) \/ ListAll(p)
        BY <1>1, <2>4, RowsAreQueried DEF StepOf, Core
      <4>2. ~ListAll(p)
        BY <2>4 DEF ListAll, At
      <4>3. QED
        BY <4>1, <4>2
    <3>2. call' = [call EXCEPT ![p] = [@ EXCEPT !.pc = "fill", !.row = db[Target(p)]]]
      BY <1>0, <2>4, <3>1 DEF QueryRow, FoundRow, Finish, Idle
    <3>3. /\ call'[p].row = db[Target(p)] /\ call'[p].op = call[p].op
          /\ call'[p].name = call[p].name /\ call'[p].new = call[p].new
      BY <1>0, <3>2 DEF Call
    <3>4. db' = db /\ Target(p)' = Target(p)
      BY <3>1, <3>3 DEF QueryRow, Rows, Target
    <3>5. QED
      BY <3>3, <3>4
  <2>5. QED
    BY <2>1, <2>2, <2>3, <2>4 DEF CacheExact
<1>2. CASE Crash
  <2>1. cache' = [n \in Names |-> None] /\ call' = [q \in Procs |-> Idle]
    BY <1>2 DEF Crash
  <2>2. \A q \in Procs : ~Dropped(call'[q]) /\ call'[q].pc # "fill"
    BY <2>1 DEF Idle, Dropped
  <2>3. QED
    BY <2>1, <2>2 DEF CacheExact
<1>3. ASSUME UNCHANGED <<db, call>>, \A n \in Names : cache'[n] \in {None, cache[n]}
      PROVE  CacheExact'
  <2>1. \A q \in Procs : Dropped(call[q]) => call[q].name \in Names
    BY <1>0 DEF Shape, Dropped
  <2>2. QED
    BY <1>3, <2>1 DEF CacheExact, Target
<1>4. ASSUME NEW n \in Names, Evict(n)
      PROVE  CacheExact'
  BY <1>0, <1>3, <1>4 DEF Evict, Uncached, Rows
<1>5. CASE UNCHANGED vars
  BY <1>3, <1>5 DEF vars
<1>6. QED
  BY <1>1, <1>2, <1>4, <1>5 DEF Next, StepOf

\* Only SetPrivate gets to its UPDATE, and nobody keeps it from the write lock.
LEMMA UpdateIsNext ==
    ASSUME Core, OneCaller, NEW p \in Procs, StepOf(p), ~Setting(p)
    PROVE  call[p].pc # "update" /\ call'[p].pc # "update"
<1>1. call[p].pc # "update"
  <2>1. SUFFICES ASSUME call[p].pc = "update" PROVE FALSE
    OBVIOUS
  <2>2. writer = None
    BY <2>1 DEF Core, Typed, Locked, InTx, OneCaller
  <2>3. QED
    BY <2>1, <2>2
    DEF StepOf, At, Begin, ListAll, Lookup, CacheHit, CacheMiss, StatDir, QueryRow,
        FillCache, Creating, InsertRow, InitDir, InitDirFails,
        Deleting, RemoveNothing, RemoveOrphan, RemoveRow, RemoveDir, RemoveDirFails,
        Renaming, CheckDirs, MoveRow, MoveDir, MoveDirFails,
        Ending, DeferredDelete, Commit, CommitFails, BusyTimeout
<1>2. call'[p].pc # "update"
  <2>1. SUFFICES ASSUME call'[p].pc = "update" PROVE FALSE
    OBVIOUS
  <2>2. DeferredDelete(p)
    BY <2>1, WhoDrops DEF Dropped, Setting
  <2>3. QED
    BY <2>1, <2>2 DEF DeferredDelete, Goto, Core, Typed, Call
<1>3. QED
  BY <1>1, <1>2

\* A new repository's directory gets the export file exactly when it is public.
LEMMA InitDirExports ==
    ASSUME Core, Core', NEW p \in Procs, InitDir(p), \A n \in Names : InStepAt(n),
           NEW n \in Names, ExportAt(n)
    PROVE  ExportAt(n)'
<1>1. /\ call[p].name \in Names /\ call[p].op = "create"
      /\ disk \in [Names -> Dir \cup {None}] /\ db \in [Names -> Row \cup {None}]
  BY DEF Core, Typed, Shapes, Shape, InitDir, At
<1>2. /\ FollowedRows = db /\ FollowedRows' = tx /\ db[call[p].name] = None
      /\ tx = Inserted(call[p].name, call[p].private)
  BY <1>1, FollowedSwitch DEF InitDir, Working, At
<1>3. disk[call[p].name] = None
  BY <1>1, <1>2 DEF InStepAt
<1>4. CASE n = call[p].name
  BY <1>1, <1>2, <1>3, <1>4 DEF InitDir, InitializedDir, Inserted, ExportAt
<1>5. CASE n # call[p].name
  BY <1>1, <1>2, <1>5 DEF InitDir, Inserted, ExportAt
<1>6. QED
  BY <1>4, <1>5

LEMMA MoveDirExports ==
    ASSUME Core, NEW p \in Procs, MoveDir(p), \A n \in Names : InStepAt(n) /\ ExportAt(n)
    PROVE  \A n \in Names : ExportAt(n)'
<1> DEFINE old == call[p].name
           new == call[p].new
<1>1. /\ call[p].op = "rename" /\ old \in Names /\ new \in Names /\ new # old
      /\ disk \in [Names -> Dir \cup {None}] /\ db \in [Names -> Row \cup {None}]
  BY DEF Core, Typed, Shapes, Shape, MoveDir, At
<1>2. FollowedRows = db /\ FollowedRows' = tx /\ tx = Renamed(old, new)
  BY <1>1, FollowedSwitch DEF MoveDir, Working, At
<1>3. /\ disk[old] # None /\ disk'[old] = None
      /\ disk'[new] = disk[old] /\ \A m \in Names \ {old, new} : disk'[m] = disk[m]
  BY <1>1 DEF MoveDir
<1>4. db[old] # None
  BY <1>1, <1>2, <1>3 DEF InStepAt
<1>5. /\ tx[old] = None /\ tx[new] = db[old]
      /\ \A m \in Names \ {old, new} : tx[m] = db[m]
  BY <1>1, <1>2, <1>4 DEF Renamed
<1> HIDE DEF old, new
<1>6. QED
  BY <1>1, <1>2, <1>3, <1>5 DEF ExportAt

\* The first pushes do not touch the export file.
LEMMA CommitExports ==
    ASSUME Core, NEW p \in Procs, Commit(p), NEW n \in Names, ExportAt(n), InStepAt(n)
    PROVE  ExportAt(n)'
<1>1. writer = p /\ call[p].name \in Names /\ disk \in [Names -> Dir \cup {None}]
  BY CommitTx DEF Core, Typed
<1>2. FollowedRows = tx /\ FollowedRows' = tx
  BY <1>1, ConstantsOK DEF Commit, At, FollowedRows
<1>3. disk[n] # None => disk'[n].export = disk[n].export
  BY <1>1 DEF Commit, Claimed, Dir
<1>4. QED
  BY <1>2, <1>3 DEF ExportAt, InStepAt

\* The export file first, the row after it: between the two the caller is at "update".
LEMMA SettingExports ==
    ASSUME Core, Core', OneCaller, NEW p \in Procs, Setting(p), ~Fault, ExportExact,
           \A n \in Names : InStepAt(n)
    PROVE  ExportExact'
<1> DEFINE name == call[p].name
<1>1. /\ name \in Names /\ call[p].private \in BOOLEAN /\ call \in [Procs -> Call]
      /\ disk \in [Names -> Dir \cup {None}] /\ db \in [Names -> Row \cup {None}]
      /\ \A q \in Procs : q = p
  BY DEF Core, Typed, Call, Shapes, Shape, Setting, DropCache, SetExport,
     SetExportFails, UpdateRow, At, OneCaller
<1>2. CASE DropCache(p)
  <2>1. Others(p) /\ call[p].pc = "drop" /\ call'[p].pc = "export" /\ UNCHANGED <<Rows, disk>>
    BY <1>1, <1>2 DEF DropCache, At, Goto, Others, Call
  <2>2. FollowedRows' = FollowedRows
    BY <2>1, FollowedOutside DEF InTx
  <2>3. QED
    BY <1>1, <2>1, <2>2 DEF ExportExact, ExportAt
<1>3. CASE SetExport(p)
  <2>1. Others(p) /\ call[p].pc = "export" /\ UNCHANGED Rows
    BY <1>1, <1>3 DEF SetExport, At, Others
  <2>2. FollowedRows' = FollowedRows
    BY <2>1, FollowedOutside DEF InTx
  <2>3. \A n \in Names : ExportAt(n)
    BY <1>1, <2>1 DEF ExportExact
  <2>4. CASE disk[name] = None
    <3>1. UNCHANGED disk /\ (call'[p].pc = "update" => call'[p].name = name)
      BY <1>1, <1>3, <2>4 DEF SetExport, Goto, Finish, Idle, Call
    <3>2. QED
      BY <1>1, <2>2, <2>3, <2>4, <3>1 DEF ExportExact, ExportAt
  <2>5. CASE disk[name] # None
    <3>1. /\ call'[p].pc = "update" /\ call'[p].name = name
          /\ call'[p].private = call[p].private
      BY <1>1, <1>3, <2>5 DEF SetExport, Goto, Call
    <3>2. disk'[name].export = ~call[p].private
      BY <1>1, <1>3, <2>5 DEF SetExport, Dir
    <3>3. \A n \in Names \ {name} : disk'[n] = disk[n]
      BY <1>1, <1>3, <2>5 DEF SetExport
    <3> HIDE DEF name
    <3>4. \A n \in Names \ {name} : ExportAt(n)'
      BY <2>2, <2>3, <3>3 DEF ExportAt
    <3>5. QED
      BY <1>1, <3>1, <3>2, <3>4 DEF ExportExact
  <2>6. QED
    BY <2>4, <2>5
<1>4. CASE UpdateRow(p)
  <2>1. /\ FollowedRows = db /\ FollowedRows' = Updated(name, call[p].private)
        /\ disk' = disk /\ call'[p].pc = "commit" /\ call[p].pc = "update"
    <3>1. /\ call'[p].pc = "commit" /\ call[p].pc = "update"
          /\ writer' = p /\ writer = None
      BY <1>1, <1>4 DEF UpdateRow, OpenTx, Goto, At, Call
    <3>2. QED
      BY <1>4, <3>1, ConstantsOK DEF UpdateRow, OpenTx, FollowedRows
  <2>2. disk[name] # None => disk[name].export = ~call[p].private
    BY <1>1, <2>1 DEF ExportExact
  <2>3. \A n \in Names \ {name} : ExportAt(n)
    BY <1>1, <2>1 DEF ExportExact
  <2>4. \A n \in Names \ {name} : FollowedRows'[n] = db[n]
    BY <1>1, <2>1 DEF Updated
  <2>5. db[name] # None => /\ FollowedRows'[name].private = call[p].private
                           /\ disk[name] # None
    BY <1>1, <2>1 DEF Updated, Row, InStepAt
  <2>6. db[name] = None => FollowedRows'[name] = None
    BY <1>1, <2>1 DEF Updated
  <2> HIDE DEF name
  <2>7. \A n \in Names : ExportAt(n)'
    BY <1>1, <2>1, <2>2, <2>3, <2>4, <2>5, <2>6 DEF ExportAt
  <2>8. QED
    BY <1>1, <2>1, <2>7 DEF ExportExact
<1>5. QED
  BY <1>2, <1>3, <1>4 DEF Setting, SetExportFails

LEMMA ExportStep ==
    ASSUME Core, Core', OneCaller, [Next]_vars, ~Fault, strays' = 0, ExportExact,
           \A n \in Names : InStepAt(n)
    PROVE  ExportExact'
<1>1. ASSUME NEW p \in Procs, StepOf(p), ~Setting(p)
      PROVE  ExportExact'
  <2>1. \A q \in Procs : q = p /\ call[q].pc # "update" /\ call'[q].pc # "update"
    <3>1. \A q \in Procs : q = p
      BY DEF OneCaller
    <3>2. call[p].pc # "update" /\ call'[p].pc # "update"
      BY <1>1, UpdateIsNext
    <3>3. QED
      BY <3>1, <3>2
  <2>2. \A n \in Names : ExportAt(n)
    BY <2>1 DEF ExportExact
  <2>3. CASE FollowedRows' = FollowedRows /\ UNCHANGED disk
    BY <2>1, <2>2, <2>3 DEF ExportAt, ExportExact
  <2>4. SUFFICES ASSUME NEW n \in Names,
                        InitDir(p) \/ RemoveDir(p) \/ MoveDir(p) \/ Commit(p)
                 PROVE  ExportAt(n)'
    <3>0. strays' # strays + 1
      BY DEF Core, Typed
    <3>1. ~Crash /\ ~InitDirFails(p) /\ ~CommitFails(p) /\ ~RemoveOrphan(p)
      BY <3>0 DEF Crash, InitDirFails, CommitFails, RemoveOrphan
    <3>2. \/ FollowedRows' = FollowedRows /\ UNCHANGED disk
          \/ InitDir(p) \/ RemoveDir(p) \/ MoveDir(p) \/ Commit(p)
      BY <1>1, <2>1, <3>1, QuietOrLoud
    <3>3. QED
      BY <2>1, <2>3, <2>4, <3>2 DEF ExportExact
  <2>5. CASE RemoveDir(p)
    <3>1. call[p].name \in Names /\ call[p].op = "delete"
      BY <2>5 DEF Core, Shapes, Shape, RemoveDir, At
    <3>2. /\ FollowedRows = db /\ FollowedRows' = tx
          /\ tx = [db EXCEPT ![call[p].name] = None]
      BY <2>5, <3>1, FollowedSwitch DEF RemoveDir, Working, At
    <3>3. QED
      BY <2>2, <2>5, <3>1, <3>2 DEF RemoveDir, ExportAt, Core, Typed
  <2>6. QED
    BY <2>2, <2>4, <2>5, InitDirExports, MoveDirExports, CommitExports
<1>2. ASSUME UNCHANGED <<Rows, disk, call>>
      PROVE  ExportExact'
  <2>1. FollowedRows' = FollowedRows
    BY <1>2 DEF Rows, FollowedRows
  <2>2. QED
    BY <1>2, <2>1 DEF ExportExact, ExportAt
<1>3. ASSUME NEW n \in Names, Evict(n)
      PROVE  ExportExact'
  BY <1>2, <1>3 DEF Evict
<1>4. CASE UNCHANGED vars
  BY <1>2, <1>4 DEF vars, Rows
<1>5. ~Crash
  BY DEF Crash
<1>6. QED
  BY <1>1, <1>3, <1>4, <1>5, SettingExports DEF Next, StepOf

\* A caller that is alone finds no directory without a row, so no fault so far
\* means that the orphan branch has never run.
LEMMA NoOrphanAlone ==
    ASSUME Core, OneCaller, ~Fault, \A n \in Names : InStepAt(n), NEW p \in Procs
    PROVE  ~RemoveOrphan(p)
<1> SUFFICES ASSUME RemoveOrphan(p) PROVE FALSE
  OBVIOUS
<1>1. call[p].name \in Names /\ call[p].pc = "remove"
  BY DEF RemoveOrphan, At, Core, Shapes, Shape
<1>2. writer = None
  BY <1>1 DEF Core, Typed, Locked, InTx, OneCaller
<1>3. QED
  BY <1>1, <1>2 DEF RemoveOrphan, FollowedRows, InStepAt

LEMMA SequentialStep ==
    ASSUME Core, Core', InStep, Sequential, [Next]_vars
    PROVE  Sequential'
<1> SUFFICES ASSUME OneCaller
             PROVE  CacheExact' /\ (faults' = 0 => strays' = 0 /\ ExportExact')
  BY DEF Sequential
<1>1. CacheExact'
  BY CacheExactStep DEF Sequential
<1>2. ASSUME faults' = 0
      PROVE  strays' = 0 /\ ExportExact'
  <2>1. faults = 0 /\ ~Fault
    BY <1>2, FaultsAddUp DEF Core, Typed, Fault
  <2>2. strays = 0 /\ ExportExact /\ \A n \in Names : InStepAt(n)
    BY <2>1 DEF Sequential, InStep, InStepAt
  <2>3. strays' = 0
    <3>1. \A p \in Procs : ~RemoveOrphan(p)
      BY <2>1, <2>2, NoOrphanAlone
    <3>2. strays' = strays
      BY <3>1
      DEF Next, vars, Bounds, Fault, Begin, ListAll, Evict, Crash,
          Lookup, CacheHit, CacheMiss, StatDir, QueryRow, FillCache,
          Creating, InsertRow, InitDir, InitDirFails,
          Deleting, RemoveNothing, RemoveRow, RemoveDir, RemoveDirFails,
          Renaming, CheckDirs, MoveRow, MoveDir, MoveDirFails,
          Setting, DropCache, SetExport, SetExportFails, UpdateRow,
          Ending, DeferredDelete, Commit, CommitFails, BusyTimeout
    <3>3. QED
      BY <2>2, <3>2
  <2>4. QED
    BY <2>1, <2>2, <2>3, ExportStep
<1>3. QED
  BY <1>1, <1>2

LEMMA SequentialInvariant == Spec => [](Core /\ InStep /\ Sequential)
<1>1. Init => Sequential
  <2> SUFFICES ASSUME Init PROVE CacheExact /\ strays = 0 /\ ExportExact
    BY DEF Sequential
  <2>1. \A p \in Procs : call[p].pc = "idle"
    BY DEF Init, Idle
  <2>2. FollowedRows = [n \in Names |-> None] /\ cache = [n \in Names |-> None]
    BY DEF Init, FollowedRows
  <2>3. QED
    BY <2>1, <2>2 DEF Init, CacheExact, Dropped, ExportExact, ExportAt
<1>2. Core /\ Core' /\ InStep /\ Sequential /\ [Next]_vars => Sequential'
  BY SequentialStep
<1>3. QED
  BY <1>1, <1>2, CoreInvariant, RowsAndDirectoriesInStep, PTL DEF Spec

\* With one caller at a time, what the cache serves is the committed row, whatever
\* crashes or fails, and without a fault there is a directory behind it.
THEOREM CacheIsCoherent == Spec => []SequentialCoherence
<1>1. Core /\ InStep /\ Sequential => SequentialCoherence
  <2> SUFFICES ASSUME Core, InStep, Sequential, OneCaller, NEW n \in Names, cache[n] # None
               PROVE  cache[n] = db[n] /\ (AllIdle /\ faults = 0 => disk[n] # None)
    BY DEF SequentialCoherence
  <2>1. cache[n] = db[n]
    BY DEF Sequential, CacheExact
  <2>2. ASSUME AllIdle, faults = 0
        PROVE  disk[n] # None
    <3>1. writer = None
      BY <2>2 DEF Core, Typed, Locked, AllIdle, InTx
    <3>2. FollowedRows[n] # None
      BY <2>1, <3>1 DEF FollowedRows
    <3>3. QED
      BY <2>2, <3>2 DEF Sequential, InStep
  <2>3. QED
    BY <2>1, <2>2
<1>2. QED
  BY <1>1, SequentialInvariant, PTL

\* With one caller at a time and no fault, the Git daemon exports exactly the public
\* repositories whenever no operation is under way.
THEOREM ExportFollows == Spec => []ExportFollowsPrivate
<1>1. Core /\ InStep /\ Sequential => ExportFollowsPrivate
  <2> SUFFICES ASSUME Core, Sequential, OneCaller, AllIdle, faults = 0,
                      NEW n \in Names, db[n] # None
               PROVE  disk[n].export = ~db[n].private
    BY DEF ExportFollowsPrivate
  <2>1. FollowedRows = db
    BY DEF Core, Typed, Locked, AllIdle, InTx, FollowedRows
  <2>2. ExportAt(n)
    BY DEF Sequential, ExportExact, AllIdle
  <2>3. QED
    BY <2>1, <2>2 DEF ExportAt
<1>2. QED
  BY <1>1, SequentialInvariant, PTL

=============================================================================
