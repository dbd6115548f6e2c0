----------------------------- MODULE ImportProofs -----------------------------
(***************************************************************************)
(* Proofs about Import, for every set of callers and number of tasks, and  *)
(* about PointerSearch, for every repository and number of failures.       *)
(***************************************************************************)
EXTENDS Import, PointerSearch, TLAPS

-----------------------------------------------------------------------------
(* The search for LFS pointers: its inductive invariant                    *)

SearchTyped ==
    /\ stage \in [Stages -> {"off", "run", "dead", "over"}]
    /\ line \in [Stages -> 0 .. Len(Listed)]
    /\ printed \in 0 .. Len(Listed)
    /\ failed \subseteq Stages
    /\ errs \in BOOLEAN /\ closed \in BOOLEAN
    /\ loop \in {"off", "range", "left", "error", "nil"}
    /\ looked \subseteq 1 .. Len(Listed)

\* Before a search, and after the server's process has ended.
Fresh ==
    loop = "off" => /\ printed = 0 /\ failed = {} /\ looked = {} /\ ~errs /\ ~closed
                    /\ \A s \in Stages : stage[s] = "off" /\ line[s] = 0

Wanted(i) == Listed[i] \in {"pointer", "cutoff"}

\* What has come through to a stage has passed every filter before it.
Sifted ==
    /\ \A s \in Stages : line[s] # 0 =>
          /\ s >= 2 => Named(Listed[line[s]])
          /\ s >= 4 => Small(Listed[line[s]])
          /\ s >= 6 => IsPointer(Listed[line[s]])
    /\ \A i \in looked : Wanted(i)

\* Only a stage that runs, or whose process died under it, has a line to write.
Silent ==
    /\ \A s \in Stages : stage[s] \in {"off", "over"} => line[s] = 0
    /\ (\E s \in Stages : stage[s] = "dead") => failed # {}

\* Without a failure the stages end in their order, each after all its input, and
\* a pointer that was printed is on its way or has arrived.
InOrder ==
    failed = {} =>
        /\ \A s, t \in Stages : stage[s] = "over" /\ t <= s => stage[t] = "over"
        /\ \A s \in Stages : stage[s] = "over" => printed = Len(Listed)
        /\ \A i \in 1 .. printed : Wanted(i) => i \in looked \/ \E s \in Stages : line[s] = i

\* The failure that is told, and when.
Told ==
    /\ RevList \in failed =>
          /\ stage[RevList] \in {"dead", "over"}
          /\ stage[RevList] = "over" => errs
    /\ errs => failed # {}
    /\ closed => \A s \in Stages : stage[s] = "over"
    /\ loop = "nil" => closed /\ ~errs
    /\ loop = "error" => closed /\ errs

SearchInv == SearchTyped /\ Fresh /\ Sifted /\ Silent /\ InOrder /\ Told

-----------------------------------------------------------------------------
(* The imports: the inductive invariant                                    *)

\* A Run that has the map's entry, or is about to load it.
Active(c) ==
    runner[c].pc \in {"load", "check", "start", "select", "save", "send", "forget"}

\* The function is under way exactly while its Run waits for it, and a caller that
\* has not come to Run has none.
Shapes ==
    \A c \in Callers : /\ fn[c] # "none" <=> RunAt(c, "select")
                       /\ caller[c] \in {"stat", "add", "store"} => RunAt(c, "off")

\* As long as no two operations on the name overlap, one Run at most is active, and
\* the map's entry is its task, which nobody else starts.
Alone ==
    /\ \A c, d \in Callers : Active(c) /\ Active(d) => c = d
    /\ entry # None => \E c \in Callers : Active(c)
    /\ \A c \in Callers :
          /\ ~RunAt(c, "wait")
          /\ Active(c) => entry # None
          /\ Active(c) /\ ~RunAt(c, "load") => runner[c].task = entry
          /\ runner[c].pc \in {"load", "check"} => ~tasks[entry].started

Nothing == dir = "none" /\ ~row
Whole == dir = "full" /\ row
Half == broken /\ dir = "full" /\ ~row

\* What the active Run has made so far, which nobody else has touched.
MadeSoFar(c) ==
    /\ runner[c].pc \in {"load", "check", "start"} => Nothing
    /\ fn[c] = "called" => Nothing
    /\ fn[c] = "cloning" => dir = "partial" /\ ~row
    /\ fn[c] = "cleanup" => dir # "full" /\ ~row
    /\ fn[c] = "create" => dir = "full" /\ ~row
    /\ fn[c] \in {"open", "offer", "config", "fetching", "undo", "ok"} => Whole
    /\ fn[c] = "failed" => Nothing \/ Half
    /\ runner[c].pc \in {"save", "send", "forget"} =>
          IF runner[c].err = "nil" THEN Whole ELSE Nothing \/ Half

Undisturbed ==
    ~overlap => /\ Alone
                /\ \A c \in Callers : Active(c) => MadeSoFar(c)
                /\ (\A c \in Callers : ~Active(c)) => Nothing \/ Whole \/ Half

Typed == TypeOK /\ (entry # None => entry \in Made)

Inv == Typed /\ Shapes /\ Undisturbed
-----------------------------------------------------------------------------
(* The search: its steps                                                   *)

LEMMA ListedTyped ==
    /\ Len(Listed) \in Nat /\ MaxFailures \in Nat
    /\ 0 \in 0 .. Len(Listed)
    /\ \A i \in 1 .. Len(Listed) : Listed[i] \in ObjectKinds
<1>1. Len(Listed) \in Nat
  BY SearchAssumption
<1>2. 0 \in 0 .. Len(Listed)
  BY <1>1
<1>3. QED
  BY <1>1, <1>2, SearchAssumption

LEMMA StageFacts ==
    /\ Stages = 1 .. 6 /\ RevList = 1 /\ Results = 6 /\ Gits = {1, 3, 5}
    /\ Readers = 2 .. 6
  BY DEF Stages, RevList, Results, Gits, Readers, CatFileCheck, CatFileBatch

LEMMA BecomesFacts ==
    ASSUME SearchTyped, NEW s \in Stages, NEW place \in {"off", "run", "dead", "over"},
           NEW i \in 0 .. Len(Listed), Becomes(s, place, i)
    PROVE  /\ stage' \in [Stages -> {"off", "run", "dead", "over"}]
           /\ line' \in [Stages -> 0 .. Len(Listed)]
           /\ stage'[s] = place /\ line'[s] = i
           /\ \A t \in Stages \ {s} : stage'[t] = stage[t]
           /\ \A t \in Stages \ {s} : t + 1 = s => line'[t] = 0
           /\ \A t \in Stages \ {s} : t + 1 # s => line'[t] = line[t]
<1>1. stage' = [stage EXCEPT ![s] = place] /\ stage \in [Stages -> {"off", "run", "dead", "over"}]
      /\ line \in [Stages -> 0 .. Len(Listed)]
  BY DEF SearchTyped, Becomes
<1>2. line' = [t \in Stages |-> IF t = s THEN i
                                ELSE IF t + 1 = s /\ line[t] # 0 THEN 0 ELSE line[t]]
  BY StageFacts DEF Becomes
<1>3. 0 \in 0 .. Len(Listed)
  BY ListedTyped
<1>4. QED
  BY <1>1, <1>2, <1>3

LEMMA ListsKeeps ==
    ASSUME SearchInv, Lists
    PROVE  SearchInv'
<1> USE StageFacts, ListedTyped
<1>1. /\ stage[1] = "run" /\ line[1] = 0 /\ printed < Len(Listed) /\ printed' = printed + 1
      /\ Becomes(1, "run", printed')
      /\ UNCHANGED <<failed, cancelled, errs, closed, loop, looked>>
  BY DEF Lists, Running
<1>2. SearchTyped /\ printed \in Nat /\ printed' \in 0 .. Len(Listed)
  BY <1>1 DEF SearchInv, SearchTyped
<1>3. /\ stage' \in [Stages -> {"off", "run", "dead", "over"}]
      /\ line' \in [Stages -> 0 .. Len(Listed)]
      /\ \A t \in Stages : stage'[t] = stage[t]
      /\ line'[1] = printed + 1 /\ \A t \in Stages \ {1} : line'[t] = line[t]
  BY <1>1, <1>2, BecomesFacts
<1>4. SearchTyped'
  BY <1>1, <1>2, <1>3 DEF SearchTyped
<1>5. loop # "off"
  BY <1>1 DEF SearchInv, Fresh
<1>6. Sifted' /\ Silent'
  BY <1>1, <1>3 DEF SearchInv, Sifted, Silent
<1>7. InOrder'
  <2>1. SUFFICES ASSUME failed = {} PROVE InOrder'
    BY <1>1 DEF InOrder
  <2>2. \A s \in Stages : stage[s] # "over"
    BY <1>1, <2>1 DEF SearchInv, InOrder
  <2>3. ASSUME NEW i \in 1 .. printed', Wanted(i)
        PROVE  i \in looked \/ \E s \in Stages : line'[s] = i
    <3>1. CASE i = printed + 1
      BY <1>3, <3>1
    <3>2. CASE i \in 1 .. printed
      <4>1. i \in looked \/ \E s \in Stages : line[s] = i
        BY <2>1, <2>3, <3>2 DEF SearchInv, InOrder
      <4>2. line[1] # i
        BY <1>1, <3>2
      <4>3. QED
        BY <1>3, <4>1, <4>2
    <3>3. QED
      BY <1>1, <1>2, <2>3, <3>1, <3>2
  <2>4. QED
    BY <1>1, <1>3, <2>2, <2>3 DEF InOrder, Wanted
<1>8. Told'
  BY <1>1, <1>3 DEF SearchInv, Told
<1>9. QED
  BY <1>1, <1>4, <1>5, <1>6, <1>7, <1>8 DEF SearchInv, Fresh

LEMMA PassesKeeps ==
    ASSUME SearchInv, NEW s \in Stages, Passes(s)
    PROVE  SearchInv'
<1> USE StageFacts, ListedTyped
<1> DEFINE i == IF Keeps(s, Listed[line[s - 1]]) THEN line[s - 1] ELSE 0
<1>1. /\ s \in 2 .. 6 /\ s - 1 \in Stages /\ stage[s] = "run" /\ line[s] = 0
      /\ line[s - 1] # 0 /\ Becomes(s, "run", i)
      /\ UNCHANGED <<printed, failed, cancelled, errs, closed, loop, looked>>
  BY DEF Passes, Running
<1>2. SearchTyped /\ line[s - 1] \in 1 .. Len(Listed) /\ i \in 0 .. Len(Listed)
  <2>1. SearchTyped
    BY DEF SearchInv
  <2>2. line[s - 1] \in 0 .. Len(Listed) /\ line[s - 1] # 0
    BY <1>1, <2>1 DEF SearchTyped
  <2>3. QED
    BY <2>1, <2>2
<1>3. /\ stage' \in [Stages -> {"off", "run", "dead", "over"}]
      /\ line' \in [Stages -> 0 .. Len(Listed)]
      /\ \A t \in Stages : stage'[t] = stage[t]
      /\ line'[s] = i /\ line'[s - 1] = 0
      /\ \A t \in Stages \ {s, s - 1} : line'[t] = line[t]
  <2> HIDE DEF i
  <2>1. /\ stage' \in [Stages -> {"off", "run", "dead", "over"}]
        /\ line' \in [Stages -> 0 .. Len(Listed)]
        /\ stage'[s] = "run" /\ line'[s] = i
        /\ \A t \in Stages \ {s} : stage'[t] = stage[t]
        /\ \A t \in Stages \ {s} : t + 1 = s => line'[t] = 0
        /\ \A t \in Stages \ {s} : t + 1 # s => line'[t] = line[t]
    BY <1>1, <1>2, BecomesFacts
  <2>2. s - 1 # s /\ (s - 1) + 1 = s /\ \A t \in Stages : t + 1 = s => t = s - 1
    BY <1>1
  <2>3. QED
    BY <1>1, <2>1, <2>2
<1>4. SearchTyped'
  BY <1>1, <1>2, <1>3 DEF SearchTyped
<1>5. loop # "off"
  BY <1>1 DEF SearchInv, Fresh
<1>6. Sifted'
  <2>1. ASSUME i # 0
        PROVE  /\ Named(Listed[i])
               /\ s >= 4 => Small(Listed[i])
               /\ s >= 6 => IsPointer(Listed[i])
    <3>1. /\ s - 1 >= 2 => Named(Listed[i])
          /\ s - 1 >= 4 => Small(Listed[i])
      BY <1>1, <2>1 DEF SearchInv, Sifted
    <3>2. Keeps(s, Listed[i])
      BY <2>1
    <3>3. s = 2 => Named(Listed[i])
      BY <3>2 DEF Keeps
    <3>4. s = 4 => Small(Listed[i])
      BY <3>2 DEF Keeps
    <3>5. s = 6 => IsPointer(Listed[i])
      BY <3>2 DEF Keeps
    <3>6. QED
      BY <1>1, <3>1, <3>3, <3>4, <3>5
  <2> HIDE DEF i
  <2>2. ASSUME NEW t \in Stages, line'[t] # 0
        PROVE  /\ t >= 2 => Named(Listed[line'[t]])
               /\ t >= 4 => Small(Listed[line'[t]])
               /\ t >= 6 => IsPointer(Listed[line'[t]])
    <3>1. CASE t = s
      BY <1>3, <2>1, <2>2, <3>1
    <3>2. CASE t # s
      <4>1. line'[t] = line[t]
        BY <1>3, <2>2, <3>2
      <4>2. QED
        BY <2>2, <4>1 DEF SearchInv, Sifted
    <3>3. QED
      BY <3>1, <3>2
  <2>3. QED
    BY <1>1, <2>2 DEF SearchInv, Sifted, Wanted
<1>7. Silent'
  BY <1>1, <1>3 DEF SearchInv, Silent
<1>8. InOrder'
  <2>1. SUFFICES ASSUME failed = {} PROVE InOrder'
    BY <1>1 DEF InOrder
  <2>2. Wanted(line[s - 1]) => i = line[s - 1]
    <3>1. \A kind \in {"pointer", "cutoff"} : Keeps(s, kind)
      BY DEF Keeps, Named, Small, IsPointer
    <3>2. QED
      BY <3>1 DEF Wanted
  <2> HIDE DEF i
  <2>3. ASSUME NEW j \in 1 .. printed, Wanted(j)
        PROVE  j \in looked \/ \E t \in Stages : line'[t] = j
    <3>1. CASE j = line[s - 1]
      BY <1>3, <2>2, <2>3, <3>1
    <3>2. CASE j # line[s - 1]
      <4>1. j \in looked \/ \E t \in Stages : line[t] = j
        BY <2>1, <2>3 DEF SearchInv, InOrder
      <4>2. QED
        BY <1>1, <1>3, <3>2, <4>1
    <3>3. QED
      BY <3>1, <3>2
  <2>4. QED
    BY <1>1, <1>3, <2>1, <2>3 DEF SearchInv, InOrder, Wanted
<1>9. Told'
  BY <1>1, <1>3 DEF SearchInv, Told
<1>10. QED
  BY <1>1, <1>4, <1>5, <1>6, <1>7, <1>8, <1>9 DEF SearchInv, Fresh


LEMMA StageEndsKeeps ==
    ASSUME SearchInv, NEW s \in Stages, StageEnds(s)
    PROVE  SearchInv'
<1> USE StageFacts, ListedTyped
<1>1. /\ stage[s] = "run" /\ line[s] = 0 /\ Becomes(s, "over", 0)
      /\ IF s = 1 THEN printed = Len(Listed) ELSE stage[s - 1] = "over"
      /\ UNCHANGED <<printed, failed, cancelled, errs, closed, loop, looked>>
  BY DEF StageEnds, Running, EndOfInput
<1>2. SearchTyped /\ line \in [Stages -> 0 .. Len(Listed)]
  BY DEF SearchInv, SearchTyped
<1>3. /\ stage' \in [Stages -> {"off", "run", "dead", "over"}]
      /\ line' \in [Stages -> 0 .. Len(Listed)]
      /\ stage'[s] = "over" /\ \A t \in Stages \ {s} : stage'[t] = stage[t]
      /\ line'[s] = 0
      /\ \A t \in Stages \ {s} : t + 1 = s => line'[t] = 0
      /\ \A t \in Stages \ {s} : t + 1 # s => line'[t] = line[t]
  <2>1. Becomes(s, "over", 0) /\ "over" \in {"off", "run", "dead", "over"}
    BY <1>1
  <2>2. 0 \in 0 .. Len(Listed) /\ SearchTyped
    BY <1>2
  <2> HIDE StageFacts, ListedTyped
  <2>3. QED
    BY <2>1, <2>2, BecomesFacts
<1>4. ASSUME NEW t \in Stages
      PROVE  line'[t] = line[t]
  <2>1. CASE t + 1 = s
    <3>1. t = s - 1 /\ s # 1 /\ t # s
      BY <2>1
    <3>2. stage[t] = "over"
      BY <1>1, <3>1
    <3>3. QED
      BY <1>3, <2>1, <3>1, <3>2 DEF SearchInv, Silent
  <2>2. CASE t + 1 # s
    BY <1>1, <1>3, <2>2
  <2>3. QED
    BY <2>1, <2>2
<1>5. SearchTyped' /\ Sifted'
  BY <1>1, <1>2, <1>3, <1>4 DEF SearchInv, SearchTyped, Sifted, Wanted
<1>6. loop # "off"
  BY <1>1 DEF SearchInv, Fresh
<1>7. Silent'
  BY <1>1, <1>3, <1>4 DEF SearchInv, Silent
<1>8. InOrder'
  <2>1. SUFFICES ASSUME failed = {} PROVE InOrder'
    BY <1>1 DEF InOrder
  <2>2. printed = Len(Listed)
    <3>1. CASE s = 1
      BY <1>1, <3>1
    <3>2. CASE s # 1
      <4>1. s - 1 \in Stages
        BY <3>2
      <4>2. QED
        BY <1>1, <2>1, <3>2, <4>1 DEF SearchInv, InOrder
    <3>3. QED
      BY <3>1, <3>2
  <2>3. \A t \in Stages : t < s => stage[t] = "over"
    <3>1. CASE s = 1
      BY <3>1
    <3>2. CASE s # 1
      <4>1. s - 1 \in Stages /\ \A t \in Stages : t < s => t <= s - 1
        BY <3>2
      <4>2. QED
        BY <1>1, <2>1, <3>2, <4>1 DEF SearchInv, InOrder
    <3>3. QED
      BY <3>1, <3>2
  <2>4. ASSUME NEW r \in Stages, NEW t \in Stages, stage'[r] = "over", t <= r
        PROVE  stage'[t] = "over"
    <3>1. CASE r = s
      BY <1>3, <2>3, <2>4, <3>1
    <3>2. CASE r # s
      <4>1. stage[r] = "over"
        BY <1>3, <2>4, <3>2
      <4>2. stage[t] = "over"
        BY <2>1, <2>4, <4>1 DEF SearchInv, InOrder
      <4>3. QED
        BY <1>3, <4>2
    <3>3. QED
      BY <3>1, <3>2
  <2>5. QED
    BY <1>1, <1>4, <2>1, <2>2, <2>4 DEF SearchInv, InOrder, Wanted
<1>9. Told'
  BY <1>1, <1>3 DEF SearchInv, Told
<1>10. QED
  BY <1>1, <1>5, <1>6, <1>7, <1>8, <1>9 DEF SearchInv, Fresh

LEMMA WriteFailsKeeps ==
    ASSUME SearchInv, NEW s \in Stages, WriteFails(s)
    PROVE  SearchInv'
<1> USE StageFacts, ListedTyped
<1>1. /\ stage[s] \in {"run", "dead"} /\ line[s] # 0
      /\ s + 1 \in Stages /\ stage[s + 1] = "over"
      /\ stage' = [stage EXCEPT ![s] = IF s \in Gits THEN "dead" ELSE "over"]
      /\ line' = [line EXCEPT ![s] = 0]
      /\ UNCHANGED <<printed, failed, cancelled, errs, closed, loop, looked>>
  BY DEF WriteFails, ReaderClosed
<1>2. SearchTyped
  BY DEF SearchInv
<1>3. failed # {}
  <2>1. SUFFICES ASSUME failed = {} PROVE FALSE
    OBVIOUS
  <2>2. s <= s + 1
    OBVIOUS
  <2>3. stage[s] = "over"
    BY <1>1, <2>1, <2>2 DEF SearchInv, InOrder
  <2>4. QED
    BY <1>1, <2>3
<1>4. SearchTyped'
  BY <1>1, <1>2 DEF SearchTyped
<1>5. loop # "off"
  BY <1>1 DEF SearchInv, Fresh
<1>6. Sifted'
  BY <1>1, <1>2 DEF SearchInv, Sifted, SearchTyped, Wanted
<1>7. Silent'
  BY <1>1, <1>2, <1>3 DEF SearchInv, Silent, SearchTyped
<1>8. Told'
  BY <1>1, <1>2 DEF SearchInv, Told, SearchTyped
<1>9. QED
  BY <1>1, <1>3, <1>4, <1>5, <1>6, <1>7, <1>8 DEF SearchInv, Fresh, InOrder

LEMMA GitWaitedKeeps ==
    ASSUME SearchInv, NEW s \in Stages, GitWaited(s)
    PROVE  SearchInv'
<1> USE StageFacts, ListedTyped
<1>1. /\ stage[s] = "dead" /\ line[s] = 0 /\ Becomes(s, "over", 0)
      /\ errs' = (errs \/ s = 1)
      /\ UNCHANGED <<printed, failed, cancelled, closed, loop, looked>>
  BY DEF GitWaited
<1>2. SearchTyped /\ failed # {}
  BY <1>1 DEF SearchInv, Silent
<1>3. /\ stage' \in [Stages -> {"off", "run", "dead", "over"}]
      /\ line' \in [Stages -> 0 .. Len(Listed)]
      /\ stage'[s] = "over" /\ \A t \in Stages \ {s} : stage'[t] = stage[t]
      /\ \A t \in Stages : line'[t] \in {0, line[t]}
      /\ line'[s] = 0
  <2>1. 0 \in 0 .. Len(Listed)
    OBVIOUS
  <2>2. QED
    BY <1>1, <1>2, <2>1, BecomesFacts
<1>4. SearchTyped'
  BY <1>1, <1>2, <1>3 DEF SearchTyped
<1>5. loop # "off" /\ ~closed
  BY <1>1 DEF SearchInv, Fresh, Told
<1>6. Sifted'
  <2>1. \A t \in Stages : line'[t] # 0 => line'[t] = line[t]
    BY <1>3
  <2>2. QED
    BY <1>1, <2>1 DEF SearchInv, Sifted, Wanted
<1>7. Silent'
  BY <1>1, <1>2, <1>3 DEF SearchInv, Silent
<1>8. Told'
  <2>1. /\ s = 1 => errs'
        /\ s # 1 => errs' = errs /\ stage'[1] = stage[1]
        /\ errs => errs'
    <3>1. s = 1 => errs'
      BY <1>1
    <3>2. s # 1 => errs' = errs
      BY <1>1, <1>2 DEF SearchTyped
    <3>3. errs => errs'
      BY <1>1
    <3>4. QED
      BY <1>3, <3>1, <3>2, <3>3
  <2>2. 1 \in failed' => stage'[1] \in {"dead", "over"} /\ (stage'[1] = "over" => errs')
    BY <1>1, <1>3, <2>1 DEF SearchInv, Told
  <2>3. loop # "nil" /\ loop # "error"
    BY <1>5 DEF SearchInv, Told
  <2>4. QED
    BY <1>1, <1>2, <1>5, <2>2, <2>3 DEF Told
<1>9. QED
  BY <1>1, <1>2, <1>4, <1>5, <1>6, <1>7, <1>8 DEF SearchInv, Fresh, InOrder

\* A process of git dies under its stage, or the last stage gives up.
LEMMA SearchFailsKeeps ==
    ASSUME SearchInv, SearchFails
    PROVE  SearchInv'
<1> USE StageFacts, ListedTyped
<1>1. PICK s \in Stages :
         /\ stage[s] = "run" /\ failed' = failed \cup {s}
         /\ \/ s \in Gits /\ stage' = [stage EXCEPT ![s] = "dead"]
            \/ s = 6 /\ line[s] = 0 /\ stage' = [stage EXCEPT ![s] = "over"]
         /\ UNCHANGED <<line, printed, cancelled, errs, closed, loop, looked>>
  <2>1. CASE PointersStop
    BY <2>1 DEF PointersStop, Running
  <2>2. ASSUME NEW t \in Stages, GitDies(t)
        PROVE  \E s \in Stages :
                 /\ stage[s] = "run" /\ failed' = failed \cup {s}
                 /\ \/ s \in Gits /\ stage' = [stage EXCEPT ![s] = "dead"]
                    \/ s = 6 /\ line[s] = 0 /\ stage' = [stage EXCEPT ![s] = "over"]
                 /\ UNCHANGED <<line, printed, cancelled, errs, closed, loop, looked>>
    BY <2>2 DEF GitDies
  <2>3. QED
    BY <2>1, <2>2 DEF SearchFails
<1>2. SearchTyped /\ failed' # {}
  BY <1>1 DEF SearchInv
<1>3. SearchTyped'
  BY <1>1, <1>2 DEF SearchTyped
<1>4. loop # "off"
  BY <1>1 DEF SearchInv, Fresh
<1>5. Sifted'
  BY <1>1 DEF SearchInv, Sifted, Wanted
<1>6. Silent'
  BY <1>1, <1>2 DEF SearchInv, Silent, SearchTyped
<1>7. Told'
  BY <1>1, <1>2 DEF SearchInv, Told, SearchTyped
<1>8. QED
  BY <1>1, <1>2, <1>3, <1>4, <1>5, <1>6, <1>7 DEF SearchInv, Fresh, InOrder

LEMMA LooksKeeps ==
    ASSUME SearchInv, Looks
    PROVE  SearchInv'
<1> USE StageFacts, ListedTyped
<1>1. /\ loop = "range" /\ line[6] # 0 /\ loop' \in {"range", "left"}
      /\ looked' = looked \cup {line[6]} /\ line' = [line EXCEPT ![6] = 0]
      /\ UNCHANGED <<stage, printed, failed, cancelled, errs, closed>>
  BY DEF Looks
<1>2. SearchTyped /\ line \in [Stages -> 0 .. Len(Listed)]
  BY DEF SearchInv, SearchTyped
<1>3. SearchTyped'
  <2>1. line[6] \in 1 .. Len(Listed) /\ 0 \in 0 .. Len(Listed)
    BY <1>1, <1>2
  <2>2. line' \in [Stages -> 0 .. Len(Listed)] /\ looked' \subseteq 1 .. Len(Listed)
    BY <1>1, <1>2, <2>1 DEF SearchTyped
  <2>3. QED
    BY <1>1, <1>2, <2>2 DEF SearchTyped
<1>4. Sifted'
  <2>1. Wanted(line[6])
    <3>1. Small(Listed[line[6]]) /\ IsPointer(Listed[line[6]])
      BY <1>1 DEF SearchInv, Sifted
    <3>2. QED
      BY <3>1 DEF Small, IsPointer, Wanted
  <2>2. QED
    BY <1>1, <1>2, <2>1 DEF SearchInv, Sifted, Wanted
<1>5. Silent'
  BY <1>1, <1>2 DEF SearchInv, Silent
<1>6. InOrder'
  <2>1. ASSUME NEW i, NEW s \in Stages, line[s] = i
        PROVE  i \in looked' \/ \E t \in Stages : line'[t] = i
    BY <1>1, <1>2, <2>1
  <2>2. \A i \in looked : i \in looked'
    BY <1>1
  <2>3. QED
    BY <1>1, <2>1, <2>2 DEF SearchInv, InOrder, Wanted
<1>7. Told'
  BY <1>1 DEF SearchInv, Told
<1>8. QED
  BY <1>1, <1>3, <1>4, <1>5, <1>6, <1>7 DEF SearchInv, Fresh

LEMMA SearchStep ==
    ASSUME SearchInv, [SearchNext]_searchVars
    PROVE  SearchInv'
<1> USE StageFacts, ListedTyped
<1>1. CASE SearchBegins
  <2>1. /\ loop = "off" /\ loop' = "range" /\ stage' = [s \in Stages |-> "run"]
        /\ UNCHANGED <<line, printed, failed, cancelled, errs, closed, looked>>
    BY <1>1 DEF SearchBegins
  <2>2. /\ printed = 0 /\ failed = {} /\ looked = {} /\ ~errs /\ ~closed
        /\ \A s \in Stages : line[s] = 0
    BY <2>1 DEF SearchInv, Fresh
  <2>3. SearchTyped'
    BY <2>1 DEF SearchInv, SearchTyped
  <2>4. \A s \in Stages : stage'[s] = "run"
    BY <2>1
  <2>5. Sifted' /\ Silent'
    BY <2>1, <2>2, <2>4 DEF Sifted, Silent
  <2>6. InOrder' /\ Told'
    BY <2>1, <2>2, <2>4 DEF InOrder, Told
  <2>7. QED
    BY <2>1, <2>3, <2>5, <2>6 DEF SearchInv, Fresh
<1>2. CASE SearchGone
  <2>1. SearchTyped'
    <3>1. /\ stage' \in [Stages -> {"off", "run", "dead", "over"}]
          /\ line' \in [Stages -> 0 .. Len(Listed)]
      BY <1>2 DEF SearchGone
    <3>2. QED
      BY <1>2, <3>1 DEF SearchGone, SearchTyped
  <2>2. QED
    BY <1>2, <2>1 DEF SearchGone, SearchInv, Fresh, Sifted, Silent, InOrder, Told
<1>3. CASE Closes
  <2>1. /\ closed' = TRUE /\ \A s \in Stages : stage[s] = "over"
        /\ UNCHANGED <<stage, line, printed, failed, errs, loop, looked>>
    BY <1>3 DEF Closes
  <2>2. loop # "off" /\ SearchTyped'
    BY <2>1 DEF SearchInv, Fresh, SearchTyped
  <2>3. QED
    BY <2>1, <2>2 DEF SearchInv, Fresh, Sifted, Silent, InOrder, Told, Wanted
<1>4. CASE LoopEnds
  <2>1. /\ loop = "range" /\ closed /\ loop' = (IF errs THEN "error" ELSE "nil")
        /\ UNCHANGED <<stage, line, printed, failed, errs, closed, looked>>
    BY <1>4 DEF LoopEnds
  <2>2. SearchTyped'
    BY <2>1 DEF SearchInv, SearchTyped
  <2>3. QED
    BY <2>1, <2>2 DEF SearchInv, Fresh, Sifted, Silent, InOrder, Told, Wanted
<1>5. CASE UNCHANGED <<stage, line, printed, failed, errs, closed, loop, looked>>
  BY <1>5 DEF SearchInv, SearchTyped, Fresh, Sifted, Silent, InOrder, Told, Wanted
<1>6. CASE SearchCancelled
  BY <1>5, <1>6 DEF SearchCancelled
<1>7. CASE UNCHANGED searchVars
  BY <1>5, <1>7 DEF searchVars
<1>8. CASE SearchLocal
  BY <1>3, <1>4, <1>8, ListsKeeps, LooksKeeps, PassesKeeps, StageEndsKeeps,
     WriteFailsKeeps, GitWaitedKeeps DEF SearchLocal
<1>9. QED
  BY <1>1, <1>2, <1>6, <1>7, <1>8, SearchFailsKeeps DEF SearchNext

\* A search for pointers that is told of no error, and in which nothing failed after
\* rev-list, has found every pointer of the repository; and an error was a failure.
THEOREM SearchFindsPointers == SearchSpec => []PointersFound
<1> USE StageFacts, ListedTyped
<1>1. SearchInit => SearchInv
  <2> SUFFICES ASSUME SearchInit PROVE SearchInv
    OBVIOUS
  <2>1. SearchTyped
    <3>1. /\ stage \in [Stages -> {"off", "run", "dead", "over"}]
          /\ line \in [Stages -> 0 .. Len(Listed)]
      BY DEF SearchInit
    <3>2. QED
      BY <3>1 DEF SearchInit, SearchTyped
  <2>2. QED
    BY <2>1 DEF SearchInit, SearchInv, Fresh, Sifted, Silent, InOrder, Told
<1>2. SearchInv /\ [SearchNext]_searchVars => SearchInv'
  BY SearchStep
<1>3. SearchInv => PointersFound
  <2> SUFFICES ASSUME SearchInv PROVE PointersFound
    OBVIOUS
  <2>1. ASSUME loop = "nil", failed = {}
        PROVE  looked = {i \in 1..Len(Listed) : Listed[i] \in {"pointer", "cutoff"}}
    <3>1. \A s \in Stages : stage[s] = "over"
      BY <2>1 DEF SearchInv, Told
    <3>2. printed = Len(Listed) /\ \A s \in Stages : line[s] = 0
      BY <2>1, <3>1 DEF SearchInv, InOrder, Silent
    <3>3. \A i \in 1 .. Len(Listed) : Wanted(i) => i \in looked
      BY <2>1, <3>2 DEF SearchInv, InOrder
    <3>4. looked \subseteq 1 .. Len(Listed) /\ \A i \in looked : Wanted(i)
      BY DEF SearchInv, SearchTyped, Sifted
    <3>5. QED
      BY <3>3, <3>4 DEF Wanted
  <2>2. loop = "nil" => RevList \notin failed
    BY DEF SearchInv, Told
  <2>3. loop = "error" => failed # {}
    BY DEF SearchInv, Told
  <2>4. QED
    BY <2>1, <2>2, <2>3 DEF PointersFound
<1>4. QED
  BY <1>1, <1>2, <1>3, PTL DEF SearchSpec


-----------------------------------------------------------------------------
(* The imports: types                                                      *)

\* The part of the types that is the task manager's.
RunTyped ==
    /\ entry \in Tasks \cup {None}
    /\ entry # None => entry \in Made
    /\ tasks \in [Tasks -> Task \cup {None}]
    /\ runner \in [Callers -> Runner]
    /\ fn \in [Callers -> FnPC]
    /\ \A c \in Callers : ~RunAt(c, "off") /\ ~RunAt(c, "load") => runner[c].task \in Made

LEMMA TypedParts ==
    Typed <=> /\ RunTyped
              /\ caller \in [Callers -> CallerPC] /\ repoc \in [Callers -> BOOLEAN]
              /\ dir \in {"none", "partial", "full"}
              /\ row \in BOOLEAN /\ overlap \in BOOLEAN /\ broken \in BOOLEAN
  BY DEF Typed, TypeOK, RunTyped

LEMMA TypedNext ==
    ASSUME RunTyped', caller' \in [Callers -> CallerPC], repoc' \in [Callers -> BOOLEAN],
           dir' \in {"none", "partial", "full"},
           row' \in BOOLEAN, overlap' \in BOOLEAN, broken' \in BOOLEAN
    PROVE  Typed'
  BY DEF Typed, TypeOK, RunTyped

\* A step of one Run: the others keep their tasks, and a task made stays made.
LEMMA RunnerStep ==
    ASSUME RunTyped, NEW c \in Callers, NEW r \in Runner,
           runner' = [runner EXCEPT ![c] = r],
           r.pc \notin {"off", "load"} => r.task \in Made',
           tasks' \in [Tasks -> Task \cup {None}], Made \subseteq Made',
           entry' \in Tasks \cup {None}, entry' # None => entry' \in Made',
           fn' \in [Callers -> FnPC]
    PROVE  RunTyped'
<1>1. \A d \in Callers : runner'[d] = IF d = c THEN r ELSE runner[d]
  BY DEF RunTyped
<1>2. QED
  BY <1>1 DEF RunTyped, RunAt

LEMMA RunKeepsTypes ==
    ASSUME RunTyped, NEW c \in Callers, Run(c)
    PROVE  RunTyped'
<1> DEFINE t == runner[c].task
<1>1. /\ runner[c] \in Runner /\ runner \in [Callers -> Runner] /\ fn \in [Callers -> FnPC]
      /\ tasks \in [Tasks -> Task \cup {None}] /\ Made \subseteq Made
      /\ entry \in Tasks \cup {None} /\ (entry # None => entry \in Made)
  BY DEF RunTyped
<1>2. runner[c].pc \notin {"off", "load"} => t \in Made /\ t \in Tasks /\ tasks[t] \in Task
  BY <1>1 DEF RunTyped, RunAt, Made
<1>3. Off \in Runner /\ \A o \in Outcome : Ended(o) \in Runner /\ Ended(o).pc = "off"
  BY DEF Off, Ended, Runner, RunPC, Outcome
<1>4. ASSUME NEW pc \in RunPC
      PROVE  /\ [runner[c] EXCEPT !.pc = pc] \in Runner
             /\ [runner[c] EXCEPT !.pc = pc].pc = pc
             /\ [runner[c] EXCEPT !.pc = pc].task = t
  BY <1>1 DEF Runner
\* The task's record changes: it is still made.
<1>5. ASSUME NEW new \in Task, t \in Tasks, tasks' = [tasks EXCEPT ![t] = new]
      PROVE  tasks' \in [Tasks -> Task \cup {None}] /\ Made \subseteq Made' /\ t \in Made'
  BY <1>1, <1>5, TaskAssumption DEF Made
<1>6. CASE Load(c)
  <2> DEFINE r == [runner[c] EXCEPT !.pc = "check", !.task = entry]
  <2>1. entry # None => /\ r \in Runner /\ r.pc = "check" /\ r.task = entry
    BY <1>1 DEF Runner, RunPC
  <2>2. UNCHANGED <<entry, tasks, fn, Made>>
    BY <1>6 DEF Load, Made
  <2>3. CASE entry = None
    <3>1. runner' = [runner EXCEPT ![c] = Ended("notfound")] /\ "notfound" \in Outcome
      BY <1>6, <2>3 DEF Load, Outcome
    <3>2. QED
      BY <1>1, <1>3, <2>2, <3>1, RunnerStep
  <2>4. CASE entry # None
    <3>1. runner' = [runner EXCEPT ![c] = r]
      BY <1>6, <2>4 DEF Load
    <3> HIDE DEF r
    <3>2. QED
      BY <1>1, <2>1, <2>2, <2>4, <3>1, RunnerStep
  <2>5. QED
    BY <2>3, <2>4
<1>7. ASSUME NEW pc \in RunPC, pc # "off", RunTo(c, pc), UNCHANGED <<tasks, fn>>,
             entry' \in {entry, None}, runner[c].pc \notin {"off", "load"}
      PROVE  RunTyped'
  <2> DEFINE r == [runner[c] EXCEPT !.pc = pc]
  <2>1. runner' = [runner EXCEPT ![c] = r] /\ Made' = Made
    BY <1>7 DEF RunTo, Made
  <2>2. r \in Runner /\ r.task = t
    BY <1>4
  <2> HIDE DEF r
  <2>3. QED
    BY <1>1, <1>2, <1>7, <2>1, <2>2, RunnerStep
<1>8. CASE CheckStarted(c)
  <2>1. \E pc \in {"wait", "start"} : RunTo(c, pc)
    BY <1>8 DEF CheckStarted
  <2>2. QED
    BY <1>7, <1>8, <2>1 DEF CheckStarted, RunAt, RunPC
<1>9. CASE WaitDone(c)
  <2> DEFINE r == [runner[c] EXCEPT !.pc = "start", !.done = "cancelled", !.waited = TRUE]
  <2>1. r \in Runner /\ r.task = t
    BY <1>1 DEF Runner, RunPC, Outcome
  <2>2. /\ \/ runner' = [runner EXCEPT ![c] = Ended("failed")]
           \/ runner' = [runner EXCEPT ![c] = r]
        /\ UNCHANGED <<entry, tasks, fn, Made>> /\ runner[c].pc = "wait"
    BY <1>9 DEF WaitDone, RunAt, Made
  <2>3. Ended("failed") \in Runner /\ Ended("failed").pc = "off"
    BY <1>3 DEF Outcome
  <2> HIDE DEF r
  <2>4. QED
    BY <1>1, <1>2, <2>1, <2>2, <2>3, RunnerStep
<1>10. CASE StartTask(c)
  <2>1. /\ runner[c].pc = "start" /\ entry' = t /\ fn' = [fn EXCEPT ![c] = "called"]
        /\ tasks' = [tasks EXCEPT ![t] = [tasks[t] EXCEPT !.started = TRUE]]
        /\ runner' = [runner EXCEPT ![c] = [runner[c] EXCEPT !.pc = "select"]]
    BY <1>10 DEF StartTask, RunAt, RunTo
  <2>2. [tasks[t] EXCEPT !.started = TRUE] \in Task
    BY <1>2, <2>1 DEF Task
  <2>3. /\ tasks' \in [Tasks -> Task \cup {None}] /\ Made \subseteq Made' /\ t \in Made'
        /\ t \in Tasks
    BY <1>2, <1>5, <2>1, <2>2
  <2>4. fn' \in [Callers -> FnPC]
    BY <1>1, <2>1 DEF FnPC
  <2> DEFINE r == [runner[c] EXCEPT !.pc = "select"]
  <2>5. r \in Runner /\ r.task = t /\ runner' = [runner EXCEPT ![c] = r]
    BY <1>4, <2>1 DEF RunPC
  <2> HIDE DEF r, t
  <2>6. QED
    BY <2>1, <2>3, <2>4, <2>5, RunnerStep
<1>11. CASE SelectResult(c)
  <2> DEFINE e == IF fn[c] = "ok" THEN "nil" ELSE "failed"
             r == [runner[c] EXCEPT !.pc = "save", !.err = e]
  <2>1. r \in Runner /\ r.task = t
    BY <1>1 DEF Runner, RunPC, Outcome
  <2>2. /\ runner' = [runner EXCEPT ![c] = r] /\ fn' = [fn EXCEPT ![c] = "none"]
        /\ UNCHANGED <<entry, tasks, Made>> /\ runner[c].pc = "select"
    BY <1>11 DEF SelectResult, RunAt, Made
  <2>3. fn' \in [Callers -> FnPC]
    BY <1>1, <2>2 DEF FnPC
  <2> HIDE DEF r
  <2>4. QED
    BY <1>1, <1>2, <2>1, <2>2, <2>3, RunnerStep
<1>12. CASE SaveError(c)
  <2>1. /\ runner[c].pc = "save" /\ entry' = t /\ UNCHANGED fn
        /\ tasks' = [tasks EXCEPT ![t] = [tasks[t] EXCEPT !.failed = (runner[c].err = "failed")]]
        /\ runner' = [runner EXCEPT ![c] = [runner[c] EXCEPT !.pc = "send"]]
    BY <1>12 DEF SaveError, RunAt, RunTo
  <2>2. [tasks[t] EXCEPT !.failed = (runner[c].err = "failed")] \in Task
    BY <1>2, <2>1 DEF Task
  <2>3. /\ tasks' \in [Tasks -> Task \cup {None}] /\ Made \subseteq Made' /\ t \in Made'
        /\ t \in Tasks
    BY <1>2, <1>5, <2>1, <2>2
  <2> DEFINE r == [runner[c] EXCEPT !.pc = "send"]
  <2>4. r \in Runner /\ r.task = t /\ runner' = [runner EXCEPT ![c] = r]
    BY <1>4, <2>1 DEF RunPC
  <2> HIDE DEF r, t
  <2>5. QED
    BY <1>1, <2>1, <2>3, <2>4, RunnerStep
<1>13. CASE SendDone(c)
  <2> DEFINE r == [runner[c] EXCEPT !.pc = "forget", !.done = runner[c].err]
  <2>1. r \in Runner /\ r.task = t
    BY <1>1 DEF Runner, RunPC
  <2>2. /\ runner' = [runner EXCEPT ![c] = r]
        /\ UNCHANGED <<entry, tasks, fn, Made>> /\ runner[c].pc = "send"
    BY <1>13 DEF SendDone, RunAt, Made
  <2> HIDE DEF r
  <2>3. QED
    BY <1>1, <1>2, <2>1, <2>2, RunnerStep
<1>14. CASE Forget(c)
  BY <1>7, <1>14 DEF Forget, RunAt, RunPC
<1>15. CASE CancelTask(c)
  <2>1. /\ runner[c].pc = "cancel" /\ UNCHANGED <<entry, fn>>
        /\ tasks' = [tasks EXCEPT ![t] = [tasks[t] EXCEPT !.cancelled = TRUE]]
        /\ runner' = [runner EXCEPT ![c] = Ended(runner[c].done)]
    BY <1>15 DEF CancelTask, RunAt
  <2>2. [tasks[t] EXCEPT !.cancelled = TRUE] \in Task
    BY <1>2, <2>1 DEF Task
  <2>3. tasks' \in [Tasks -> Task \cup {None}] /\ Made \subseteq Made'
    BY <1>2, <1>5, <2>1, <2>2
  <2>4. Ended(runner[c].done) \in Runner /\ Ended(runner[c].done).pc = "off"
    <3>1. runner[c].done \in Outcome
      BY <1>1 DEF Runner
    <3>2. QED
      BY <1>3, <3>1
  <2>5. QED
    BY <1>1, <2>1, <2>3, <2>4, RunnerStep
<1>16. QED
  BY <1>6, <1>8, <1>9, <1>10, <1>11, <1>12, <1>13, <1>14, <1>15 DEF Run


\* A task that Add stores is a new one, not started, and the map's entry.
LEMMA StoreNewFacts ==
    ASSUME RunTyped, NEW c \in Callers, StoreNew(c)
    PROVE  /\ tasks' \in [Tasks -> Task \cup {None}] /\ Made \subseteq Made'
           /\ entry' \in Made' /\ entry' \in Tasks /\ ~tasks'[entry'].started
           /\ entry' \notin Made
           /\ \A t \in Made : tasks'[t] = tasks[t]
<1> DEFINE new == [owner |-> c, started |-> FALSE, cancelled |-> FALSE, failed |-> FALSE]
<1>1. PICK t \in Tasks \ Made : tasks' = [tasks EXCEPT ![t] = new] /\ entry' = t
  BY DEF StoreNew
<1>2. new \in Task /\ ~new.started
  BY DEF Task
<1>3. new # None
  BY <1>2, TaskAssumption
<1> HIDE DEF new
<1>4. QED
  BY <1>1, <1>2, <1>3 DEF RunTyped, Made

LEMMA CallingKeepsTypes ==
    ASSUME Typed, NEW c \in Callers, Calling(c)
    PROVE  Typed'
<1>1. /\ RunTyped /\ caller \in [Callers -> CallerPC] /\ repoc \in [Callers -> BOOLEAN]
      /\ dir \in {"none", "partial", "full"} /\ row \in BOOLEAN
      /\ overlap \in BOOLEAN /\ broken \in BOOLEAN
  BY TypedParts
<1>2. /\ runner[c] \in Runner /\ fn \in [Callers -> FnPC]
      /\ tasks \in [Tasks -> Task \cup {None}] /\ Made \subseteq Made
      /\ entry \in Tasks \cup {None} /\ (entry # None => entry \in Made)
  BY <1>1 DEF RunTyped
<1>3. ASSUME NEW pc \in CallerPC, CallerTo(c, pc)
      PROVE  caller' \in [Callers -> CallerPC]
  BY <1>1, <1>3 DEF CallerTo
<1>4. CASE StatDir(c) \/ AwaitRepo(c)
  <2>1. RunTyped'
    BY <1>1, <1>4 DEF StatDir, AwaitRepo, tmVars, RunTyped, RunAt, Made
  <2>2. CASE StatDir(c)
    <3>1. caller' \in [Callers -> CallerPC]
      BY <1>3, <2>2 DEF StatDir, Return, CallerPC
    <3>2. QED
      BY <1>1, <2>1, <2>2, <3>1, TypedNext DEF StatDir
  <2>3. CASE AwaitRepo(c)
    <3>1. caller' \in [Callers -> CallerPC] /\ repoc' \in [Callers -> BOOLEAN]
      BY <1>1, <1>3, <2>3 DEF AwaitRepo, CallerPC
    <3>2. QED
      BY <1>1, <2>1, <2>3, <3>1, TypedNext DEF AwaitRepo
  <2>4. QED
    BY <1>4, <2>2, <2>3
<1>5. ASSUME RunTo(c, "load"), fn' = fn, tasks' \in [Tasks -> Task \cup {None}],
             Made \subseteq Made', entry' \in Tasks \cup {None},
             entry' # None => entry' \in Made'
      PROVE  RunTyped'
  <2> DEFINE r == [runner[c] EXCEPT !.pc = "load"]
  <2>1. r \in Runner /\ r.pc = "load" /\ runner' = [runner EXCEPT ![c] = r]
    BY <1>2, <1>5 DEF Runner, RunPC, RunTo
  <2> HIDE DEF r
  <2>2. QED
    BY <1>1, <1>2, <1>5, <2>1, RunnerStep
<1>6. CASE Begin(c)
  <2>1. /\ runner' = [runner EXCEPT ![c] = Off] /\ fn' = [fn EXCEPT ![c] = "none"]
        /\ repoc' = [repoc EXCEPT ![c] = FALSE] /\ UNCHANGED <<entry, tasks, Made>>
        /\ UNCHANGED <<dir, row, overlap, broken>>
        /\ UNCHANGED caller \/ CallerTo(c, "stat")
    BY <1>6 DEF Begin, Made
  <2>2. Off \in Runner /\ Off.pc = "off" /\ fn' \in [Callers -> FnPC]
    BY <1>2, <2>1 DEF Off, Runner, RunPC, Outcome, FnPC
  <2>3. RunTyped'
    BY <1>1, <1>2, <2>1, <2>2, RunnerStep
  <2>4. caller' \in [Callers -> CallerPC] /\ repoc' \in [Callers -> BOOLEAN]
    BY <1>1, <1>3, <2>1 DEF CallerPC
  <2>5. QED
    BY <1>1, <2>1, <2>3, <2>4, TypedNext
<1>7. CASE AddCheck(c)
  <2>1. /\ UNCHANGED <<entry, tasks, Made, fn, repoc, dir, row, broken>>
        /\ \/ CallerTo(c, "repo") /\ RunTo(c, "load") /\ overlap' = TRUE
           \/ CallerTo(c, "store") /\ UNCHANGED <<runner, overlap>>
    BY <1>7 DEF AddCheck, Made
  <2>2. caller' \in [Callers -> CallerPC]
    BY <1>3, <2>1 DEF CallerPC
  <2>3. RunTyped'
    <3>1. CASE UNCHANGED runner
      BY <1>1, <2>1, <3>1 DEF RunTyped, RunAt, Made
    <3>2. QED
      BY <1>2, <1>5, <2>1, <3>1
  <2>4. QED
    BY <1>1, <2>1, <2>2, <2>3, TypedNext
<1>8. CASE AddStore(c)
  <2>1. RunTyped'
    BY <1>1, <1>5, <1>8, StoreNewFacts DEF AddStore
  <2>2. caller' \in [Callers -> CallerPC]
    BY <1>3, <1>8 DEF AddStore, CallerPC
  <2>3. QED
    BY <1>1, <1>8, <2>1, <2>2, TypedNext DEF AddStore
<1>9. CASE AwaitDone(c)
  <2> DEFINE r == [runner[c] EXCEPT !.done = "none"]
  <2>1. /\ r \in Runner /\ r.pc = runner[c].pc /\ r.task = runner[c].task
        /\ runner' = [runner EXCEPT ![c] = r]
        /\ UNCHANGED <<entry, tasks, Made, fn, repoc, dir, row, overlap, broken>>
    BY <1>2, <1>9 DEF AwaitDone, Runner, RunPC, Outcome, Made
  <2>2. r.pc \notin {"off", "load"} => r.task \in Made
    BY <1>1, <2>1 DEF RunTyped, RunAt
  <2> HIDE DEF r
  <2>3. RunTyped'
    BY <1>1, <1>2, <2>1, <2>2, RunnerStep
  <2>4. caller' \in [Callers -> CallerPC]
    BY <1>3, <1>9 DEF AwaitDone, Return, CallerPC
  <2>5. QED
    BY <1>1, <2>1, <2>3, <2>4, TypedNext
<1>10. QED
  BY <1>4, <1>6, <1>7, <1>8, <1>9 DEF Calling

\* A step of the task's function leaves the task manager alone.
LEMMA ImportFnFrame ==
    ASSUME NEW c \in Callers, ImportFn(c)
    PROVE  /\ UNCHANGED <<entry, tasks, runner, caller, overlap>>
           /\ fn[c] \in {"called", "cloning", "cleanup", "create", "open", "offer",
                         "config", "fetching", "undo"}
           /\ \E pc \in FnPC \ {"none", "called"} : FnTo(c, pc)
<1> USE DEF ImportFn, CloneBegins, CloneEnds, Cleanup, CreateRow, OpenRepo, OfferRepo,
            Configure, FetchEnds, Undo, Rest, Stores, FnAt
<1>1. UNCHANGED <<entry, tasks, runner, caller, overlap>>
  OBVIOUS
<1>2. fn[c] \in {"called", "cloning", "cleanup", "create", "open", "offer",
                 "config", "fetching", "undo"}
  OBVIOUS
<1>3. \E pc \in {"cloning", "cleanup", "create", "failed", "open", "offer", "undo",
                 "config", "fetching", "ok"} : FnTo(c, pc)
  OBVIOUS
<1>4. QED
  BY <1>1, <1>2, <1>3 DEF FnPC

LEMMA ImportFnKeepsTypes ==
    ASSUME Typed, NEW c \in Callers, ImportFn(c)
    PROVE  Typed'
<1>1. /\ RunTyped /\ caller \in [Callers -> CallerPC] /\ repoc \in [Callers -> BOOLEAN]
      /\ dir \in {"none", "partial", "full"} /\ row \in BOOLEAN
      /\ overlap \in BOOLEAN /\ broken \in BOOLEAN
  BY TypedParts
<1>2. fn' \in [Callers -> FnPC]
  <2>1. PICK pc \in FnPC : fn' = [fn EXCEPT ![c] = pc]
    BY ImportFnFrame DEF FnTo
  <2>2. QED
    BY <1>1, <2>1 DEF RunTyped
<1>3. RunTyped'
  BY <1>1, <1>2, ImportFnFrame DEF RunTyped, RunAt, Made
<1>4. dir' \in {"none", "partial", "full"} /\ row' \in BOOLEAN /\ broken' \in BOOLEAN
  BY <1>1 DEF ImportFn, CloneBegins, CloneEnds, Cleanup, CreateRow, OpenRepo, OfferRepo,
              Configure, FetchEnds, Undo, Rest, Stores, FnAt
<1>5. repoc' \in [Callers -> BOOLEAN]
  BY <1>1 DEF ImportFn, CloneBegins, CloneEnds, Cleanup, CreateRow, OpenRepo, OfferRepo,
              Configure, FetchEnds, Undo, Rest, Stores, FnAt
<1>6. QED
  BY <1>1, <1>3, <1>4, <1>5, ImportFnFrame, TypedNext

LEMMA TypedStep ==
    ASSUME Typed, [Next]_vars
    PROVE  Typed'
<1>1. /\ RunTyped /\ caller \in [Callers -> CallerPC] /\ repoc \in [Callers -> BOOLEAN]
      /\ dir \in {"none", "partial", "full"} /\ row \in BOOLEAN
      /\ overlap \in BOOLEAN /\ broken \in BOOLEAN
  BY TypedParts
<1>2. ASSUME NEW c \in Callers, Run(c), UNCHANGED importVars
      PROVE  Typed'
  <2>1. RunTyped'
    BY <1>1, <1>2, RunKeepsTypes
  <2>2. QED
    BY <1>1, <1>2, <2>1, TypedNext DEF importVars
<1>3. ASSUME UNCHANGED tmVars
      PROVE  RunTyped'
  BY <1>1, <1>3 DEF tmVars, RunTyped, RunAt, Made
<1>4. CASE OtherCreates
  <2>1. dir' \in {"none", "partial", "full"} /\ overlap' \in BOOLEAN
    BY <1>1, <1>4 DEF OtherCreates, Busy
  <2>2. QED
    BY <1>1, <1>3, <1>4, <2>1, TypedNext DEF OtherCreates
<1>5. CASE OtherDeletes
  BY <1>1, <1>3, <1>5, TypedNext DEF OtherDeletes, Busy
<1>6. CASE UNCHANGED vars
  BY <1>1, <1>3, <1>6, TypedNext DEF vars, importVars
<1>7. QED
  BY <1>2, <1>4, <1>5, <1>6, CallingKeepsTypes, ImportFnKeepsTypes DEF Next


-----------------------------------------------------------------------------
(* The imports: who is active, and what is made so far                     *)

\* A step of c's leaves the other callers where they are.
OthersStay(c) ==
    \A d \in Callers \ {c} :
        runner'[d] = runner[d] /\ fn'[d] = fn[d] /\ caller'[d] = caller[d]

LEMMA OnlyOwnSteps ==
    ASSUME Typed, NEW c \in Callers,
           Calling(c) \/ (Run(c) /\ UNCHANGED importVars) \/ ImportFn(c)
    PROVE  OthersStay(c)
<1>1. /\ runner \in [Callers -> Runner] /\ fn \in [Callers -> FnPC]
      /\ caller \in [Callers -> CallerPC]
  BY DEF Typed, TypeOK
<1>2. UNCHANGED runner \/ \E r : runner' = [runner EXCEPT ![c] = r]
  BY ImportFnFrame
  DEF Calling, Begin, StatDir, AddCheck, AddStore, AwaitRepo, AwaitDone, tmVars, RunTo,
      Run, Load, CheckStarted, WaitDone, StartTask, SelectResult, SaveError, SendDone,
      Forget, CancelTask
<1>3. UNCHANGED fn \/ \E f : fn' = [fn EXCEPT ![c] = f]
  BY ImportFnFrame
  DEF Calling, Begin, StatDir, AddCheck, AddStore, AwaitRepo, AwaitDone, tmVars, FnTo,
      Run, Load, CheckStarted, WaitDone, StartTask, SelectResult, SaveError, SendDone,
      Forget, CancelTask
<1>4. UNCHANGED caller \/ \E pc : caller' = [caller EXCEPT ![c] = pc]
  BY ImportFnFrame
  DEF Calling, Begin, StatDir, AddCheck, AddStore, AwaitRepo, AwaitDone, Return, CallerTo,
      importVars
<1>5. QED
  BY <1>1, <1>2, <1>3, <1>4 DEF OthersStay

LEMMA ShapesStep ==
    ASSUME Typed, Shapes, [Next]_vars
    PROVE  Shapes'
<1>1. /\ runner \in [Callers -> Runner] /\ fn \in [Callers -> FnPC]
      /\ caller \in [Callers -> CallerPC]
  BY DEF Typed, TypeOK
<1> DEFINE ShapeOf(c) == /\ fn[c] # "none" <=> RunAt(c, "select")
                         /\ caller[c] \in {"stat", "add", "store"} => RunAt(c, "off")
<1>2. \A c \in Callers : ShapeOf(c)
  BY DEF Shapes
<1>3. ASSUME NEW c \in Callers, OthersStay(c), ShapeOf(c)'
      PROVE  Shapes'
  BY <1>2, <1>3 DEF OthersStay, Shapes, RunAt
<1>4. ASSUME NEW c \in Callers, Calling(c)
      PROVE  ShapeOf(c)'
  <2>1. CASE Begin(c)
    BY <1>1, <2>1 DEF Begin, Off, RunAt
  <2>2. CASE StatDir(c)
    BY <1>1, <1>2, <2>2 DEF StatDir, Return, CallerTo, CallerAt, RunAt, tmVars
  <2>3. CASE AddCheck(c)
    <3>1. RunAt(c, "off") /\ fn[c] = "none" /\ fn' = fn
      BY <1>2, <2>3 DEF AddCheck, CallerAt, RunAt
    <3>2. CASE UNCHANGED runner
      BY <3>1, <3>2 DEF RunAt
    <3>3. CASE RunTo(c, "load") /\ CallerTo(c, "repo")
      BY <1>1, <3>1, <3>3 DEF RunTo, CallerTo, RunAt, Runner
    <3>4. QED
      BY <2>3, <3>2, <3>3 DEF AddCheck
  <2>4. CASE AddStore(c)
    <3>1. RunAt(c, "off") /\ fn[c] = "none" /\ fn' = fn
      BY <1>2, <2>4 DEF AddStore, CallerAt, RunAt
    <3>2. QED
      BY <1>1, <2>4, <3>1 DEF AddStore, RunTo, CallerTo, RunAt, Runner
  <2>5. CASE AwaitRepo(c)
    BY <1>1, <1>2, <2>5 DEF AwaitRepo, CallerTo, RunAt, tmVars
  <2>6. CASE AwaitDone(c)
    BY <1>1, <1>2, <2>6 DEF AwaitDone, Return, CallerTo, RunAt, Runner
  <2>7. QED
    BY <1>4, <2>1, <2>2, <2>3, <2>4, <2>5, <2>6 DEF Calling
<1>5. ASSUME NEW c \in Callers, Run(c), UNCHANGED importVars
      PROVE  ShapeOf(c)'
  <2>1. caller[c] \notin {"stat", "add", "store"} /\ caller' = caller
    BY <1>2, <1>5 DEF importVars, Run, Load, CheckStarted, WaitDone, StartTask, SelectResult,
       SaveError, SendDone, Forget, CancelTask, RunAt
  <2>2. CASE StartTask(c)
    BY <1>1, <2>1, <2>2 DEF StartTask, RunTo, RunAt, Runner
  <2>3. CASE SelectResult(c)
    BY <1>1, <2>1, <2>3 DEF SelectResult, RunAt, Runner
  <2>4. CASE Load(c) \/ CheckStarted(c) \/ WaitDone(c)
    <3>1. fn[c] = "none" /\ fn' = fn
      BY <1>2, <2>4 DEF Load, CheckStarted, WaitDone, RunAt
    <3>2. runner'[c].pc # "select"
      <4>1. CASE Load(c)
        <5>1. CASE entry = None
          BY <1>1, <4>1, <5>1 DEF Load, Ended, Off
        <5>2. CASE entry # None
          BY <1>1, <4>1, <5>2 DEF Load, Runner
        <5>3. QED
          BY <5>1, <5>2
      <4>2. CASE CheckStarted(c)
        <5>1. PICK pc \in {"wait", "start"} : RunTo(c, pc)
          BY <4>2 DEF CheckStarted
        <5>2. QED
          BY <1>1, <5>1 DEF RunTo, Runner
      <4>3. CASE WaitDone(c)
        <5>1. \/ runner' = [runner EXCEPT ![c] = Ended("failed")]
              \/ runner' = [runner EXCEPT ![c] = [runner[c] EXCEPT
                                !.pc = "start", !.done = "cancelled", !.waited = TRUE]]
          BY <4>3 DEF WaitDone
        <5>2. QED
          BY <1>1, <5>1 DEF Ended, Off, Runner
      <4>4. QED
        BY <2>4, <4>1, <4>2, <4>3
    <3>3. QED
      BY <2>1, <3>1, <3>2 DEF RunAt
  <2>5. CASE SaveError(c) \/ SendDone(c) \/ Forget(c) \/ CancelTask(c)
    <3>1. fn[c] = "none" /\ fn' = fn
      BY <1>2, <2>5 DEF SaveError, SendDone, Forget, CancelTask, RunAt
    <3>2. runner'[c].pc # "select"
      BY <1>1, <2>5 DEF SaveError, SendDone, Forget, CancelTask, RunTo, RunAt, Ended, Off,
         Runner
    <3>3. QED
      BY <2>1, <3>1, <3>2 DEF RunAt
  <2>6. QED
    BY <1>5, <2>2, <2>3, <2>4, <2>5 DEF Run
<1>6. ASSUME NEW c \in Callers, ImportFn(c)
      PROVE  ShapeOf(c)'
  BY <1>1, <1>2, <1>6, ImportFnFrame DEF FnTo, RunAt
<1>7. CASE UNCHANGED <<tmVars, caller>>
  BY <1>7 DEF Shapes, RunAt, tmVars
<1>8. OtherCreates \/ OtherDeletes => UNCHANGED <<tmVars, caller>>
  BY DEF OtherCreates, OtherDeletes
<1>9. UNCHANGED vars => UNCHANGED <<tmVars, caller>>
  BY DEF vars, importVars
<1> HIDE DEF ShapeOf
<1>10. QED
  BY <1>3, <1>4, <1>5, <1>6, <1>7, <1>8, <1>9, OnlyOwnSteps DEF Next

\* Nobody becomes active or stops to be, and nothing is made.
LEMMA NobodyActs ==
    ASSUME Undisturbed, ~overlap, UNCHANGED <<entry, dir, row, broken>>,
           \A d \in Callers : \/ runner'[d] = runner[d] /\ fn'[d] = fn[d]
                              \/ /\ ~Active(d) /\ runner'[d].pc \in {"off", "cancel"}
                              \/ /\ runner'[d].pc = runner[d].pc
                                 /\ runner'[d].task = runner[d].task
                                 /\ runner'[d].err = runner[d].err /\ fn'[d] = fn[d],
           entry # None => tasks'[entry].started = tasks[entry].started
    PROVE  Undisturbed'
<1>1. /\ Alone /\ (\A c \in Callers : Active(c) => MadeSoFar(c))
      /\ ((\A c \in Callers : ~Active(c)) => Nothing \/ Whole \/ Half)
  BY DEF Undisturbed
<1>2. \A d \in Callers : /\ Active(d)' <=> Active(d)
                         /\ Active(d) => /\ runner'[d].pc = runner[d].pc
                                         /\ runner'[d].task = runner[d].task
                                         /\ runner'[d].err = runner[d].err /\ fn'[d] = fn[d]
  BY DEF Active
<1>3. Alone'
  <2>1. \A d \in Callers : runner'[d].pc # "wait"
    BY <1>1 DEF Alone, RunAt
  <2>2. \A d \in Callers : runner'[d].pc \in {"load", "check"} =>
            Active(d) /\ runner[d].pc \in {"load", "check"}
    BY <1>2 DEF Active
  <2>3. QED
    BY <1>1, <1>2, <2>1, <2>2 DEF Alone, RunAt
<1>4. \A d \in Callers : Active(d)' => MadeSoFar(d)'
  BY <1>1, <1>2 DEF MadeSoFar, Nothing, Whole, Half
<1>5. (\A d \in Callers : ~Active(d)') => (Nothing \/ Whole \/ Half)'
  BY <1>1, <1>2 DEF Nothing, Whole, Half
<1>6. QED
  BY <1>3, <1>4, <1>5 DEF Undisturbed

\* The active Run goes on, and stays active.
LEMMA ActiveGoesOn ==
    ASSUME Undisturbed, ~overlap, NEW c \in Callers, Active(c), OthersStay(c),
           Active(c)', entry' = entry, MadeSoFar(c)',
           runner'[c].pc # "load", runner'[c].task = entry,
           runner'[c].pc = "check" => ~tasks'[entry].started
    PROVE  Undisturbed'
<1>1. Alone
  BY DEF Undisturbed
<1>2. \A d \in Callers \ {c} : ~Active(d) /\ runner'[d] = runner[d]
  BY <1>1 DEF Alone, OthersStay
<1>3. \A d \in Callers \ {c} : ~Active(d)'
  BY <1>2 DEF Active
<1>4. Alone'
  BY <1>1, <1>2, <1>3 DEF Alone, Active, RunAt
<1>5. QED
  BY <1>3, <1>4 DEF Undisturbed


\* Of the caller's own steps only the Store of Add makes a Run active, and it finds the
\* name free: no entry, no directory, no function under way.
LEMMA CallingStaysAlone ==
    ASSUME Typed, Shapes, Undisturbed, NEW c \in Callers, Calling(c), ~overlap, ~overlap'
    PROVE  Undisturbed'
<1>1. /\ RunTyped /\ runner \in [Callers -> Runner] /\ fn \in [Callers -> FnPC]
      /\ caller \in [Callers -> CallerPC]
  BY TypedParts DEF RunTyped
<1>2. OthersStay(c)
  BY OnlyOwnSteps
<1>3. Alone /\ (\A d \in Callers : Active(d) => MadeSoFar(d))
      /\ ((\A d \in Callers : ~Active(d)) => Nothing \/ Whole \/ Half)
  BY DEF Undisturbed
<1>4. CASE StatDir(c) \/ AwaitRepo(c)
  BY <1>4, NobodyActs DEF StatDir, AwaitRepo, tmVars
<1>5. CASE Begin(c)
  <2>1. RunAt(c, "off") /\ fn[c] = "none"
    BY <1>5 DEF Begin, Unused, RunAt, Shapes
  <2>2. ~Active(c) /\ runner'[c].pc = "off"
    BY <1>1, <1>5, <2>1 DEF Active, RunAt, Begin, Off
  <2>3. UNCHANGED <<entry, tasks, dir, row, broken>>
    BY <1>5 DEF Begin
  <2>4. QED
    BY <1>2, <2>2, <2>3, NobodyActs DEF OthersStay
<1>6. CASE AddCheck(c)
  BY <1>6, NobodyActs DEF AddCheck
<1>7. CASE AwaitDone(c)
  <2>1. /\ runner'[c].pc = runner[c].pc /\ runner'[c].task = runner[c].task
        /\ runner'[c].err = runner[c].err /\ fn'[c] = fn[c]
    BY <1>1, <1>7 DEF AwaitDone, Runner
  <2>2. UNCHANGED <<entry, tasks, dir, row, broken>>
    BY <1>7 DEF AwaitDone
  <2>3. QED
    BY <1>2, <2>1, <2>2, NobodyActs DEF OthersStay
<1>8. CASE AddStore(c)
  <2>1. /\ entry = None /\ dir = "none" /\ StoreNew(c) /\ RunTo(c, "load")
        /\ UNCHANGED <<fn, dir, row, broken>> /\ caller[c] = "store"
    BY <1>8 DEF AddStore, Exists, CallerAt
  <2>2. \A d \in Callers : ~Active(d)
    BY <1>3, <2>1 DEF Alone
  <2>3. Nothing
    BY <1>3, <2>1, <2>2 DEF Nothing, Whole, Half
  <2>4. fn[c] = "none"
    BY <2>1 DEF Shapes, RunAt
  <2>5. entry' # None /\ ~tasks'[entry'].started
    <3>1. entry' \in Tasks /\ ~tasks'[entry'].started
      BY <1>1, <2>1, StoreNewFacts
    <3>2. QED
      BY <3>1, TaskAssumption
  <2>6. runner'[c].pc = "load"
    BY <1>1, <2>1 DEF RunTo, Runner
  <2>7. \A d \in Callers : /\ Active(d)' <=> d = c
                           /\ d # c => runner'[d] = runner[d]
    BY <1>2, <2>2, <2>6 DEF OthersStay, Active
  <2>8. Alone'
    BY <1>3, <2>2, <2>5, <2>6, <2>7 DEF Alone, RunAt, Active
  <2>9. MadeSoFar(c)'
    BY <2>1, <2>3, <2>4, <2>6 DEF MadeSoFar, Nothing
  <2>10. QED
    BY <2>7, <2>8, <2>9 DEF Undisturbed
<1>9. QED
  BY <1>4, <1>5, <1>6, <1>7, <1>8 DEF Calling


LEMMA RunStaysAlone ==
    ASSUME Typed, Shapes, Undisturbed, NEW c \in Callers, Run(c), UNCHANGED importVars,
           ~overlap
    PROVE  Undisturbed'
<1> DEFINE t == runner[c].task
<1>1. /\ RunTyped /\ runner \in [Callers -> Runner] /\ fn \in [Callers -> FnPC]
      /\ tasks \in [Tasks -> Task \cup {None}]
  BY TypedParts DEF RunTyped
<1>2. OthersStay(c) /\ UNCHANGED <<dir, row, broken>>
  BY OnlyOwnSteps DEF importVars
<1>3. Alone /\ (\A d \in Callers : Active(d) => MadeSoFar(d))
      /\ ((\A d \in Callers : ~Active(d)) => Nothing \/ Whole \/ Half)
  BY DEF Undisturbed
<1>4. runner[c].pc \notin {"off", "load"} => t \in Made /\ t \in Tasks /\ tasks[t] \in Task
  BY <1>1 DEF RunTyped, RunAt, Made
<1>5. CASE Load(c)
  <2>1. Active(c) /\ entry # None /\ MadeSoFar(c) /\ ~tasks[entry].started
        /\ runner[c].pc = "load" /\ fn[c] = "none"
    BY <1>3, <1>5 DEF Load, RunAt, Active, Alone, Shapes
  <2>2. /\ runner'[c].pc = "check" /\ runner'[c].task = entry
        /\ UNCHANGED <<entry, tasks, fn>>
    BY <1>1, <1>5, <2>1 DEF Load, Runner
  <2>3. Active(c)' /\ MadeSoFar(c)'
    BY <1>2, <2>1, <2>2 DEF Active, MadeSoFar, Nothing
  <2>4. QED
    BY <1>2, <2>1, <2>2, <2>3, ActiveGoesOn
<1>6. CASE CheckStarted(c)
  <2>1. Active(c) /\ t = entry /\ MadeSoFar(c) /\ ~tasks[entry].started
        /\ runner[c].pc = "check" /\ fn[c] = "none"
    BY <1>3, <1>6 DEF CheckStarted, RunAt, Active, Alone, Shapes
  <2>2. RunTo(c, "start") /\ UNCHANGED <<entry, tasks, fn>>
    BY <1>6, <2>1 DEF CheckStarted
  <2>3. runner'[c].pc = "start" /\ runner'[c].task = entry
    BY <1>1, <2>1, <2>2 DEF RunTo, Runner
  <2>4. Active(c)' /\ MadeSoFar(c)'
    BY <1>2, <2>1, <2>2, <2>3 DEF Active, MadeSoFar, Nothing
  <2>5. QED
    BY <1>2, <2>1, <2>2, <2>3, <2>4, ActiveGoesOn
<1>7. CASE WaitDone(c)
  BY <1>3, <1>7 DEF WaitDone, Alone
<1>8. CASE StartTask(c)
  <2>1. Active(c) /\ t = entry /\ MadeSoFar(c) /\ runner[c].pc = "start"
    BY <1>3, <1>8 DEF StartTask, RunAt, Active, Alone
  <2>2. entry' = entry /\ fn'[c] = "called" /\ runner'[c].pc = "select"
        /\ runner'[c].task = entry
    BY <1>1, <1>8, <2>1 DEF StartTask, RunTo, Runner
  <2>3. Active(c)' /\ MadeSoFar(c)'
    BY <1>2, <2>1, <2>2 DEF Active, MadeSoFar, Nothing
  <2>4. QED
    BY <1>2, <2>1, <2>2, <2>3, ActiveGoesOn
<1>9. CASE SelectResult(c)
  <2> DEFINE e == IF fn[c] = "ok" THEN "nil" ELSE "failed"
  <2>1. Active(c) /\ t = entry /\ MadeSoFar(c) /\ runner[c].pc = "select"
        /\ fn[c] \in {"ok", "failed"}
    BY <1>3, <1>9 DEF SelectResult, RunAt, Active, Alone
  <2>2. /\ runner' = [runner EXCEPT ![c] = [runner[c] EXCEPT !.pc = "save", !.err = e]]
        /\ fn' = [fn EXCEPT ![c] = "none"] /\ UNCHANGED <<entry, tasks>>
    BY <1>9 DEF SelectResult
  <2>3. /\ runner'[c].pc = "save" /\ runner'[c].task = entry /\ runner'[c].err = e
        /\ fn'[c] = "none"
    BY <1>1, <2>1, <2>2 DEF Runner
  <2>4. IF e = "nil" THEN Whole ELSE Nothing \/ Half
    BY <2>1 DEF MadeSoFar
  <2> HIDE DEF e
  <2>5. Active(c)' /\ MadeSoFar(c)'
    <3>1. IF e = "nil" THEN Whole' ELSE Nothing' \/ Half'
      BY <1>2, <2>4 DEF Nothing, Whole, Half
    <3>2. QED
      BY <2>3, <3>1 DEF Active, MadeSoFar
  <2>6. QED
    BY <1>2, <2>1, <2>2, <2>3, <2>5, ActiveGoesOn
<1>10. ASSUME SaveError(c) \/ SendDone(c)
       PROVE  Undisturbed'
  <2>1. Active(c) /\ t = entry /\ MadeSoFar(c) /\ runner[c].pc \in {"save", "send"}
        /\ fn[c] = "none"
    BY <1>3, <1>10 DEF SaveError, SendDone, RunAt, Active, Alone, Shapes
  <2>2. entry' = entry /\ fn' = fn
    BY <1>10, <2>1 DEF SaveError, SendDone
  <2>3. runner'[c].pc \in {"send", "forget"} /\ runner'[c].task = entry
        /\ runner'[c].err = runner[c].err
    <3>1. CASE SaveError(c)
      BY <1>1, <2>1, <3>1 DEF SaveError, RunTo, Runner
    <3>2. CASE SendDone(c)
      <4>1. runner' = [runner EXCEPT ![c] = [runner[c] EXCEPT
                          !.pc = "forget", !.done = runner[c].err]]
        BY <3>2 DEF SendDone
      <4>2. QED
        BY <1>1, <2>1, <4>1 DEF Runner
    <3>3. QED
      BY <1>10, <3>1, <3>2
  <2>4. Active(c)' /\ MadeSoFar(c)'
    <3>1. IF runner[c].err = "nil" THEN Whole ELSE Nothing \/ Half
      BY <2>1 DEF MadeSoFar
    <3>2. IF runner'[c].err = "nil" THEN Whole' ELSE Nothing' \/ Half'
      BY <1>2, <2>3, <3>1 DEF Nothing, Whole, Half
    <3>3. QED
      BY <2>1, <2>2, <2>3, <3>2 DEF Active, MadeSoFar
  <2>5. QED
    BY <1>2, <2>1, <2>2, <2>3, <2>4, ActiveGoesOn
<1>11. CASE Forget(c)
  <2>1. Active(c) /\ MadeSoFar(c) /\ runner[c].pc = "forget"
    BY <1>3, <1>11 DEF Forget, RunAt, Active
  <2>2. entry' = None /\ UNCHANGED <<tasks, fn>> /\ runner'[c].pc = "cancel"
    BY <1>1, <1>11 DEF Forget, RunTo, Runner
  <2>3. \A d \in Callers : ~Active(d)' /\ (d # c => runner'[d] = runner[d])
    BY <1>2, <1>3, <2>1, <2>2 DEF OthersStay, Alone, Active
  <2>4. Alone'
    BY <1>3, <2>2, <2>3 DEF Alone, RunAt, Active
  <2>5. (Nothing \/ Whole \/ Half)'
    <3>1. Nothing \/ Whole \/ Half
      BY <2>1 DEF MadeSoFar
    <3>2. QED
      BY <1>2, <3>1 DEF Nothing, Whole, Half
  <2>6. QED
    BY <2>3, <2>4, <2>5 DEF Undisturbed
<1>12. CASE CancelTask(c)
  <2>1. ~Active(c) /\ UNCHANGED <<entry, fn>> /\ runner'[c].pc = "off"
        /\ runner[c].pc = "cancel"
    BY <1>1, <1>12 DEF CancelTask, RunAt, Active, Ended, Off
  <2>2. tasks' = [tasks EXCEPT ![t] = [tasks[t] EXCEPT !.cancelled = TRUE]]
    BY <1>12 DEF CancelTask
  <2>3. entry # None => tasks'[entry].started = tasks[entry].started
    <3>1. tasks[t] \in Task /\ t \in Tasks
      BY <1>4, <2>1
    <3>2. [tasks[t] EXCEPT !.cancelled = TRUE].started = tasks[t].started
      BY <3>1 DEF Task
    <3>3. entry # None => entry \in Tasks
      BY <1>1 DEF RunTyped
    <3>4. QED
      BY <1>1, <2>2, <3>2, <3>3
  <2>4. QED
    BY <1>2, <2>1, <2>3, NobodyActs DEF OthersStay
<1>13. QED
  BY <1>5, <1>6, <1>7, <1>8, <1>9, <1>10, <1>11, <1>12 DEF Run

LEMMA ImportFnStaysAlone ==
    ASSUME Typed, Shapes, Undisturbed, NEW c \in Callers, ImportFn(c), ~overlap
    PROVE  Undisturbed'
<1>1. /\ RunTyped /\ runner \in [Callers -> Runner] /\ fn \in [Callers -> FnPC]
      /\ row \in BOOLEAN /\ broken \in BOOLEAN
  BY TypedParts DEF RunTyped
<1>2. OthersStay(c) /\ UNCHANGED <<entry, tasks, runner>> /\ fn[c] # "none"
  BY OnlyOwnSteps, ImportFnFrame
<1>3. runner[c].pc = "select"
  BY <1>2 DEF Shapes, RunAt
<1>4. Active(c) /\ runner[c].task = entry /\ MadeSoFar(c)
  BY <1>3 DEF Undisturbed, Alone, Active, RunAt
<1>5. MadeSoFar(c)'
  <2>1. ASSUME NEW pc, fn'[c] = pc,
               CASE pc = "cloning" -> dir' = "partial" /\ ~row'
                 [] pc = "cleanup" -> dir' # "full" /\ ~row'
                 [] pc = "create" -> dir' = "full" /\ ~row'
                 [] pc \in {"open", "offer", "config", "fetching", "undo", "ok"} -> Whole'
                 [] pc = "failed" -> Nothing' \/ Half',
               pc \in {"cleanup", "cloning", "create", "open", "offer", "config", "fetching",
                       "undo", "ok", "failed"}
        PROVE  MadeSoFar(c)'
    BY <1>2, <1>3, <2>1 DEF MadeSoFar
  <2>2. ASSUME NEW pc, FnTo(c, pc) PROVE fn'[c] = pc
    BY <1>1, <2>2 DEF FnTo
  <2>3. CASE CloneBegins(c)
    <3>1. /\ ~row'
          /\ \/ FnTo(c, "cloning") /\ dir' = "partial"
             \/ FnTo(c, "cleanup") /\ dir' = "none"
      BY <1>4, <2>3 DEF CloneBegins, FnAt, MadeSoFar, Nothing
    <3>2. QED
      BY <2>1, <2>2, <3>1
  <2>4. CASE CloneEnds(c)
    <3>1. dir = "partial" /\ ~row /\ row' = row
      BY <1>4, <2>4 DEF CloneEnds, FnAt, MadeSoFar
    <3>2. CASE FnTo(c, "create") /\ dir' = "full"
      BY <2>1, <2>2, <3>1, <3>2
    <3>3. CASE FnTo(c, "cleanup") /\ UNCHANGED dir
      BY <2>1, <2>2, <3>1, <3>3
    <3>4. QED
      BY <2>4, <3>2, <3>3 DEF CloneEnds
  <2>5. CASE Cleanup(c)
    <3>1. FnTo(c, "failed") /\ Nothing'
      BY <1>4, <2>5 DEF Cleanup, FnAt, MadeSoFar, Nothing
    <3>2. QED
      BY <2>1, <2>2, <3>1
  <2>6. CASE CreateRow(c)
    <3>1. dir = "full" /\ ~row
      BY <1>4, <2>6 DEF CreateRow, FnAt, MadeSoFar
    <3>2. \/ FnTo(c, "open") /\ Whole'
          \/ FnTo(c, "failed") /\ Half'
      BY <2>6, <3>1 DEF CreateRow, Whole, Half
    <3>3. QED
      BY <2>1, <2>2, <3>2
  <2>7. CASE OpenRepo(c) \/ OfferRepo(c) \/ Configure(c) \/ FetchEnds(c)
    <3>1. Whole'
      BY <1>4, <2>7 DEF OpenRepo, OfferRepo, Configure, FetchEnds, Stores, FnAt, MadeSoFar, Whole
    <3>2. PICK pc \in {"offer", "config", "fetching", "ok", "undo"} : FnTo(c, pc)
      BY <2>7 DEF OpenRepo, OfferRepo, Configure, FetchEnds
    <3>3. QED
      BY <2>1, <2>2, <3>1, <3>2
  <2>8. CASE Undo(c)
    <3>1. FnTo(c, "failed") /\ Nothing'
      BY <1>4, <2>8 DEF Undo, FnAt, MadeSoFar, Whole, Nothing
    <3>2. QED
      BY <2>1, <2>2, <3>1
  <2>9. QED
    BY <2>3, <2>4, <2>5, <2>6, <2>7, <2>8 DEF ImportFn
<1>6. QED
  BY <1>2, <1>3, <1>4, <1>5, ActiveGoesOn DEF Active

LEMMA UndisturbedStep ==
    ASSUME Typed, Shapes, Undisturbed, [Next]_vars
    PROVE  Undisturbed'
<1> SUFFICES ASSUME ~overlap' PROVE Undisturbed'
  BY DEF Undisturbed
<1>1. ~overlap
  <2>1. overlap \in BOOLEAN
    BY TypedParts
  <2>3. ASSUME NEW c \in Callers, Calling(c) PROVE ~overlap
    BY <2>1, <2>3 DEF Calling, Begin, StatDir, AddCheck, AddStore, AwaitRepo, AwaitDone
  <2>4. OtherCreates \/ OtherDeletes => ~overlap
    BY DEF OtherCreates, OtherDeletes
  <2>5. QED
    BY <2>3, <2>4, ImportFnFrame DEF Next, importVars, vars
<1>2. ASSUME OtherCreates \/ OtherDeletes
      PROVE  Undisturbed'
  <2>1. ~Busy /\ UNCHANGED <<tmVars, broken>>
    BY <1>2 DEF OtherCreates, OtherDeletes
  <2>2. \A c \in Callers : ~Active(c) /\ ~Active(c)'
    BY <2>1 DEF Busy, Unused, RunAt, Active, tmVars
  <2>3. Alone'
    BY <1>1, <2>1 DEF Undisturbed, Alone, Active, RunAt, tmVars
  <2>4. Nothing \/ Whole \/ Half
    BY <1>1, <2>2 DEF Undisturbed
  <2>5. (Nothing \/ Whole \/ Half)'
    BY <1>2, <2>4 DEF OtherCreates, OtherDeletes, Nothing, Whole, Half
  <2>6. QED
    BY <2>2, <2>3, <2>5 DEF Undisturbed
<1>3. CASE UNCHANGED vars
  BY <1>1, <1>3, NobodyActs DEF vars, tmVars, importVars
<1>4. QED
  BY <1>1, <1>2, <1>3, CallingStaysAlone, RunStaysAlone, ImportFnStaysAlone DEF Next

-----------------------------------------------------------------------------
(* The imports: theorems                                                   *)

LEMMA ImportInvariant == Spec => []Inv
<1>1. Init => Inv
  <2> SUFFICES ASSUME Init PROVE Inv
    OBVIOUS
  <2>1. Off \in Runner /\ Off.pc = "off"
    BY DEF Off, Runner, RunPC, Outcome
  <2>2. \A c \in Callers : runner[c] = Off /\ fn[c] = "none" /\ caller[c] = "idle"
    BY DEF Init, TMInit
  <2>3. Typed
    <3>1. /\ tasks \in [Tasks -> Task \cup {None}] /\ runner \in [Callers -> Runner]
          /\ fn \in [Callers -> FnPC] /\ caller \in [Callers -> CallerPC]
          /\ repoc \in [Callers -> BOOLEAN]
      BY <2>1 DEF Init, TMInit, FnPC, CallerPC
    <3>2. QED
      BY <2>1, <2>2, <3>1 DEF Init, TMInit, Typed, TypeOK, RunAt
  <2>4. Shapes
    BY <2>1, <2>2 DEF Shapes, RunAt
  <2>5. Undisturbed
    BY <2>1, <2>2 DEF Init, TMInit, Undisturbed, Alone, Active, RunAt, Nothing
  <2>6. QED
    BY <2>3, <2>4, <2>5 DEF Inv
<1>2. Inv /\ [Next]_vars => Inv'
  BY TypedStep, ShapesStep, UndisturbedStep DEF Inv
<1>3. QED
  BY <1>1, <1>2, PTL DEF Spec

\* The state of the imports and of the task manager under them stays of its type; a Run
\* past its Load holds a task that was made.
THEOREM ImportTypes == Spec => []TypeOK
<1>1. Inv => TypeOK
  BY DEF Inv, Typed
<1>2. QED
  BY <1>1, ImportInvariant, PTL

\* ImportRepository leaves the whole repository or nothing of it, whichever of its steps
\* fails, as long as nothing else touched the name meanwhile and CreateRepository did not
\* fail half-way.
THEOREM ImportIsAllOrNothing == Spec => []AllOrNothing
<1>1. Inv => AllOrNothing
  <2> SUFFICES ASSUME Inv, Quiet, ~overlap, ~broken
               PROVE  dir # "partial" /\ (row <=> (dir = "full"))
    BY DEF AllOrNothing
  <2>1. ASSUME NEW c \in Callers, Active(c)
        PROVE  Nothing \/ Whole \/ Half
    <3>1. MadeSoFar(c) /\ fn[c] \in {"none", "ok", "failed"}
          /\ (fn[c] = "none" => runner[c].pc # "select")
      BY <2>1 DEF Inv, Undisturbed, Shapes, Quiet, RunAt
    <3>2. QED
      BY <2>1, <3>1 DEF MadeSoFar, Active
  <2>2. Nothing \/ Whole \/ Half
    BY <2>1 DEF Inv, Undisturbed
  <2>3. QED
    BY <2>2 DEF Nothing, Whole, Half
<1>2. QED
  BY <1>1, ImportInvariant, PTL

\* Run tells its caller of success only while the imported repository is there.
THEOREM SuccessMeansThere == Spec => []SuccessIsThere
<1>1. Inv => SuccessIsThere
  BY DEF Inv, Undisturbed, SuccessIsThere, Active, RunAt, MadeSoFar, Whole
<1>2. QED
  BY <1>1, ImportInvariant, PTL


=============================================================================
