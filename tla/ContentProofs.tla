---------------------------- MODULE ContentProofs ----------------------------
(***************************************************************************)
(* Proofs about Content: what a request in hand knows of the repository    *)
(* while nobody else has changed it, what it has announced and what it has *)
(* read.                                                                   *)
(***************************************************************************)
EXTENDS Content, FiniteSetTheorems, WellFoundedInduction, TLAPS

-----------------------------------------------------------------------------
(* The inductive invariant                                                 *)

Call ==
    [pc : PCs, via : {"none", "ssh", "http", "grpc"}, known : BOOLEAN,
     made : BOOLEAN, ref : RefNames \cup {None}, old : {None} \cup Commits,
     new : Names \cup {None} \cup Commits, quiet : BOOLEAN, lost : BOOLEAN,
     notice : {None} \cup Notices, todo : SUBSET HookIds, next : PCs,
     broken : BOOLEAN, hook : 0..MaxHookId, row : HookRow \cup {None},
     page : Nat, seen : SUBSET (1..MaxChanges), grown : BOOLEAN]

\* The repository and its hooks, without the requests in hand.
World ==
    /\ there \in BOOLEAN
    /\ ref \in [RefNames -> Commits \cup {None}]
    /\ ~there => ref = NoRefs
    /\ head \in Names
    /\ last \in 0..MaxChanges
    /\ hooks \in [HookIds -> HookRow \cup {None}] /\ lastHook \in 0..MaxHookId
    /\ \A h \in HookIds : hooks[h] # None => h <= lastHook
    /\ UrlsDiffer(hooks)
    /\ records \in [HookIds -> SUBSET Notices]
    /\ scene \in Scenes
    /\ requests \in 0..MaxRequests[scene]

\* Where a push goes on: when its event has been sent, or at once.
Stage(c) == IF c.pc = Sending THEN c.next ELSE c.pc
Pushing(c) == Stage(c) \in {"hook", "push", "notify", "ran"}

\* What a request knows at its place.
Shape(c) ==
    /\ c.pc = "idle" => c = Idle
    /\ c.pc = Sending <=> c.todo # {}
    /\ c.pc = Sending => /\ c.notice \in Notices
                        /\ c.next \in {"push", "notify", "ran", "idle"}
    /\ Pushing(c) \/ c.pc \in {"merge", "delete", "deleted"} => c.ref \in RefNames
    /\ Pushing(c) => /\ c.new \in {None} \cup Commits
                     /\ c.old # None \/ c.new # None
    /\ c.pc \in {"default", "default2"} => c.new \in Names
    /\ c.pc = "merge" => /\ c.old \in Commits /\ c.new \in Commits
                         /\ c.old \subseteq c.new
    /\ c.pc = "log" => /\ \E n \in Names : c.ref = Branch(n)
                       /\ c.old \in Commits /\ c.new \in Commits /\ c.page >= 1
    /\ c.pc = "undo" => c.made
    /\ c.pc = "update" => c.hook \in HookIds /\ c.row \in HookRow

\* What it has seen is so, while nobody has changed anything since: r is what
\* the references are, b the branch HEAD refers to, t the table of hooks and
\* m the last id in it.
Sees(c, r, b, t, m) ==
    c.quiet =>
    /\ Pushing(c) /\ c.new = None => c.ref # Branch(b)
    /\ c.pc = "delete" => c.ref # Branch(b) /\ r[c.ref] = c.old
    /\ c.made /\ (Pushing(c) \/ c.pc \in {"receive", "undo"}) =>
          \A s \in RefNames : r[s] = None
    /\ c.pc = "default" =>
          /\ r[Branch(c.new)] # None
          /\ \/ c.new \in Preferred
             \/ \A n \in Preferred : r[Branch(n)] = None
    /\ c.pc = "default2" => r[Branch(c.new)] # None
    /\ c.pc = "merge" => r[c.ref] = c.old
    /\ c.pc = "created" => c.hook = m /\ m \in HookIds /\ t[m] # None

\* The events of a push that have been sent, or are being sent.
Said(c) ==
    (IF Stage(c) \in {"push", "notify", "ran"} /\ (c.old = None \/ c.new = None)
     THEN {BranchTagEvent(c.ref, c.old, c.new).kind} ELSE {})
    \cup IF Stage(c) \in {"notify", "ran"} /\ c.new # None THEN {"push"} ELSE {}

\* Every hook subscribed to one of them has its delivery or is still to be
\* called; d are the deliveries.
Told(c, t, d) ==
    (c.known /\ c.quiet /\ ~c.broken) =>
    \A h \in HookIds : t[h] # None =>
       \A k \in Said(c) \cap t[h].events :
          \/ Notice(k, c.ref, c.new) \in d[h]
          \/ c.pc = Sending /\ c.notice = Notice(k, c.ref, c.new) /\ h \in c.todo

\* The changes of commit c that are newer than x.
Newer(c, x) == {y \in c : y > x}

\* A history that has not been read to its end: what has not been seen of it
\* comes after the pages read.
Read(c) ==
    c.pc = "log" /\ c.grown =>
    /\ c.old \subseteq c.new
    /\ \A x \in c.old \ c.seen :
          Cardinality(Newer(c.new, x)) >= (c.page - 1) * PageSize

Fine(c) == c \in Call /\ Shape(c) /\ Read(c)

Inv ==
    /\ World
    /\ call \in [Procs -> Call]
    /\ \A p \in Procs :
          /\ Fine(call[p])
          /\ Sees(call[p], ref, head, hooks, lastHook)
          /\ Told(call[p], hooks, records)

-----------------------------------------------------------------------------
(* Steps of one request                                                    *)

LEMMA Numbers ==
    /\ MaxChanges \in Nat /\ MaxHookId \in Nat /\ PageSize \in Nat \ {0}
    /\ \A s \in Scenes : MaxRequests[s] \in Nat
    /\ \A n \in Names : Branch(n) \in RefNames
    /\ Preferred \subseteq Names
  BY RefsAssumption, LookupsAssumption

LEMMA IdleFine ==
    /\ Idle \in Call /\ Fine(Idle)
    /\ \A r, b, t, m : Sees(Idle, r, b, t, m)
    /\ \A t, d : Told(Idle, t, d)
<1>1. Idle \in Call
  BY Numbers DEF Idle, Call, PCs
<1>2. Shape(Idle) /\ Read(Idle)
  BY DEF Idle, Shape, Read, Stage, Pushing, Sending
<1>3. \A r, b, t, m : Sees(Idle, r, b, t, m)
  BY DEF Idle, Sees, Stage, Pushing, Sending
<1>4. \A t, d : Told(Idle, t, d)
  BY DEF Idle, Told
<1>5. QED
  BY <1>1, <1>2, <1>3, <1>4 DEF Fine

\* Nothing a request has seen or announced changes when deliveries are added.
LEMMA ToldGrows ==
    ASSUME NEW c, NEW t, NEW d, NEW e, Told(c, t, d),
           \A h \in HookIds : d[h] \subseteq e[h]
    PROVE  Told(c, t, e)
  BY DEF Told

\* One request goes on, and nothing that others have seen changes.
LEMMA EditKeeps ==
    ASSUME Inv, NEW p \in Procs, NEW c, Fine(c), World',
           Sees(c, ref, head, hooks, lastHook), Told(c, hooks, records'),
           call' = [call EXCEPT ![p] = c], UNCHANGED <<ref, head, hooks, lastHook>>,
           \A h \in HookIds : records[h] \subseteq records'[h]
    PROVE  Inv'
<1>1. call' \in [Procs -> Call]
  BY DEF Inv, Fine
<1>2. ASSUME NEW q \in Procs
      PROVE  /\ Fine(call'[q])
             /\ Sees(call'[q], ref', head', hooks', lastHook')
             /\ Told(call'[q], hooks', records')
  <2>1. CASE q = p
    <3>1. call'[q] = c
      BY <2>1 DEF Inv
    <3>2. QED
      BY <3>1
  <2>2. CASE q # p
    <3>1. call'[q] = call[q]
      BY <2>2 DEF Inv
    <3>2. Told(call[q], hooks, records')
      BY ToldGrows DEF Inv
    <3>3. QED
      BY <3>1, <3>2 DEF Inv
  <2>3. QED
    BY <2>1, <2>2
<1>3. QED
  BY <1>1, <1>2 DEF Inv

\* A request that has been overtaken keeps its shape, and says no more of what
\* is there.
LEMMA OvertakenFine ==
    ASSUME NEW c \in Call, Fine(c), c # Idle, NEW b \in BOOLEAN
    PROVE  LET e == [c EXCEPT !.quiet = FALSE, !.lost = @ \/ b] IN
           /\ Fine(e) /\ ~e.quiet
<1> DEFINE e == [c EXCEPT !.quiet = FALSE, !.lost = @ \/ b]
<1>0. PICK l \in BOOLEAN : e = [c EXCEPT !.quiet = FALSE, !.lost = l]
  <2>1. (c.lost \/ b) \in BOOLEAN
    OBVIOUS
  <2>2. QED
    BY <2>1
<1> HIDE DEF e
<1>1. /\ e \in Call /\ ~e.quiet
      /\ e.pc = c.pc /\ e.made = c.made /\ e.ref = c.ref /\ e.old = c.old
      /\ e.new = c.new /\ e.notice = c.notice /\ e.todo = c.todo /\ e.next = c.next
      /\ e.hook = c.hook /\ e.row = c.row /\ e.page = c.page /\ e.seen = c.seen
      /\ e.grown = c.grown
  BY <1>0 DEF Call
<1>2. c.pc # "idle"
  BY DEF Fine, Shape
<1>3. Stage(e) = Stage(c)
  BY <1>1 DEF Stage
<1>4. Shape(e)
  BY <1>1, <1>2, <1>3 DEF Fine, Shape, Pushing
<1>5. Read(e)
  BY <1>1 DEF Fine, Read, Newer
<1>6. QED
  BY <1>1, <1>4, <1>5 DEF Fine, e

\* One request changes something and goes on as c.
LEMMA OvertakeKeeps ==
    ASSUME Inv, NEW p \in Procs, NEW c, NEW gone \in BOOLEAN, Fine(c), World',
           Sees(c, ref', head', hooks', lastHook'), Told(c, hooks', records'),
           Overtakes(p, c, gone)
    PROVE  Inv'
<1>1. ASSUME NEW q \in Procs
      PROVE  /\ Fine(call'[q])
             /\ Sees(call'[q], ref', head', hooks', lastHook')
             /\ Told(call'[q], hooks', records')
  <2>1. CASE q = p
    <3>1. call'[q] = c
      BY <2>1 DEF Overtakes
    <3>2. QED
      BY <3>1
  <2>2. CASE q # p /\ call[q] = Idle
    <3>1. call'[q] = Idle
      BY <2>2 DEF Overtakes, Active
    <3>2. QED
      BY <3>1, IdleFine
  <2>3. CASE q # p /\ call[q] # Idle
    <3> DEFINE e == [call[q] EXCEPT !.quiet = FALSE, !.lost = @ \/ gone]
    <3>1. call'[q] = e
      BY <2>3 DEF Overtakes, Active
    <3>2. Fine(call[q]) /\ call[q] \in Call
      BY DEF Inv, Fine
    <3>3. Fine(e) /\ ~e.quiet
      BY <2>3, <3>2, OvertakenFine
    <3> HIDE DEF e
    <3>4. QED
      BY <3>1, <3>3 DEF Sees, Told
  <2>4. QED
    BY <2>1, <2>2, <2>3
<1>2. call' = [q \in Procs |-> call'[q]]
  BY DEF Overtakes
<1>3. call' \in [Procs -> Call]
  BY <1>1, <1>2 DEF Fine
<1>4. QED
  BY <1>1, <1>3 DEF Inv

LEMMA StepKeeps ==
    ASSUME Inv, NEW p \in Procs, NEW c, Fine(c),
           Sees(c, ref, head, hooks, lastHook), Told(c, hooks, records),
           Step(p, c), UNCHANGED requests
    PROVE  Inv'
<1>1. /\ UNCHANGED <<there, ref, head, last, hooks, lastHook, records, scene, requests>>
      /\ call' = [call EXCEPT ![p] = c]
  BY DEF Step, repo, hookTables
<1>2. World'
  BY <1>1 DEF Inv, World, NoRefs, UrlsDiffer
<1>3. QED
  BY <1>1, <1>2, EditKeeps

LEMMA StartsKeeps ==
    ASSUME Inv, NEW p \in Procs, NEW c, Fine(c),
           Sees(c, ref, head, hooks, lastHook), Told(c, hooks, records),
           Starts(p, c)
    PROVE  Inv'
<1>1. /\ UNCHANGED <<there, ref, head, last, hooks, lastHook, records, scene>>
      /\ call' = [call EXCEPT ![p] = c]
      /\ requests < MaxRequests[scene] /\ requests' = requests + 1
  BY DEF Starts, Step, repo, hookTables
<1>2. requests' \in 0..MaxRequests[scene]
  BY <1>1, Numbers DEF Inv, World
<1>3. World'
  BY <1>1, <1>2 DEF Inv, World, NoRefs, UrlsDiffer
<1>4. QED
  BY <1>1, <1>3, EditKeeps

LEMMA EndsKeeps == ASSUME Inv, NEW p \in Procs, Ends(p) PROVE Inv'
<1>1. Step(p, Idle) /\ UNCHANGED requests
  BY DEF Ends
<1>2. QED
  BY <1>1, StepKeeps, IdleFine


-----------------------------------------------------------------------------
(* Events                                                                  *)

\* A step of a push keeps what it has seen.
LEMMA PushingSees ==
    ASSUME NEW c, NEW e, NEW r, NEW b, NEW t, NEW m, Sees(c, r, b, t, m),
           Pushing(c), Stage(e) \in {"push", "notify", "ran"},
           e.quiet => c.quiet, e.new = c.new, e.ref = c.ref, e.made = c.made
    PROVE  Sees(e, r, b, t, m)
  BY DEF Sees, Pushing, Stage, Sending

\* A push that goes on at next, or sends an event before it does.
LEMMA PushFine ==
    ASSUME NEW c \in Call, Pushing(c), c.todo = {}, c.ref \in RefNames,
           c.new \in {None} \cup Commits, c.old # None \/ c.new # None,
           NEW next \in {"push", "notify", "ran"}
    PROVE  LET e == [c EXCEPT !.pc = next] IN
           /\ Fine(e) /\ Stage(e) = next /\ e.pc = next
           /\ e.known = c.known /\ e.quiet = c.quiet /\ e.broken = c.broken
           /\ e.ref = c.ref /\ e.old = c.old /\ e.new = c.new /\ e.made = c.made
<1> DEFINE e == [c EXCEPT !.pc = next]
<1>1. /\ e \in Call /\ e.pc = next /\ e.todo = {}
      /\ e.known = c.known /\ e.quiet = c.quiet /\ e.broken = c.broken
      /\ e.ref = c.ref /\ e.old = c.old /\ e.new = c.new /\ e.made = c.made
  BY DEF Call, PCs
<1> HIDE DEF e
<1>2. Stage(e) = next
  BY <1>1 DEF Stage, Sending
<1>3. Shape(e) /\ Read(e)
  BY <1>1, <1>2 DEF Shape, Read, Pushing, Sending
<1>4. QED
  BY <1>1, <1>2, <1>3 DEF Fine, e

LEMMA SendPush ==
    ASSUME NEW c \in Call, Pushing(c), c.todo = {}, c.ref \in RefNames,
           c.new \in {None} \cup Commits, c.old # None \/ c.new # None,
           NEW k \in Events, NEW next \in {"push", "notify", "ran"}
    PROVE  LET e == SendEvent(c, Notice(k, c.ref, c.new), next) IN
           /\ Fine(e) /\ Stage(e) = next
           /\ e.known = c.known /\ e.quiet = c.quiet /\ e.broken = c.broken
           /\ e.ref = c.ref /\ e.old = c.old /\ e.new = c.new /\ e.made = c.made
           /\ \A h \in HookIds : hooks[h] # None /\ k \in hooks[h].events =>
                 /\ e.pc = Sending /\ e.notice = Notice(k, c.ref, c.new)
                 /\ h \in e.todo
<1> DEFINE notice == Notice(k, c.ref, c.new)
           calls == GetWebhooksByRepoIDWhereEvent(k)
           e == SendEvent(c, notice, next)
<1>1. notice \in Notices /\ notice.kind = k
  BY DEF Notice, Notices
<1>2. CASE calls = {}
  <2> DEFINE f == [c EXCEPT !.pc = next]
  <2>1. f.pc = next /\ next # "idle"
    BY DEF Call
  <2>2. e = f
    BY <1>1, <1>2, <2>1 DEF SendEvent, Resumes
  <2>3. \A h \in HookIds : ~(hooks[h] # None /\ k \in hooks[h].events)
    BY <1>2 DEF GetWebhooksByRepoIDWhereEvent
  <2>4. /\ Fine(f) /\ Stage(f) = next
        /\ f.known = c.known /\ f.quiet = c.quiet /\ f.broken = c.broken
        /\ f.ref = c.ref /\ f.old = c.old /\ f.new = c.new /\ f.made = c.made
    BY PushFine
  <2> HIDE DEF e, f, notice
  <2>5. QED
    BY <2>2, <2>3, <2>4 DEF e, notice
<1>3. CASE calls # {}
  <2>1. e = [c EXCEPT !.pc = Sending, !.notice = notice, !.todo = calls, !.next = next]
    BY <1>1, <1>3 DEF SendEvent
  <2>2. calls \subseteq HookIds
    BY DEF GetWebhooksByRepoIDWhereEvent
  <2> HIDE DEF e, calls, notice
  <2>3. /\ e \in Call /\ e.pc = Sending /\ e.todo = calls /\ e.notice = notice
        /\ e.next = next
        /\ e.known = c.known /\ e.quiet = c.quiet /\ e.broken = c.broken
        /\ e.ref = c.ref /\ e.old = c.old /\ e.new = c.new /\ e.made = c.made
    BY <1>1, <2>1, <2>2 DEF Call, PCs
  <2>4. Stage(e) = next
    BY <2>3 DEF Stage
  <2>5. Shape(e) /\ Read(e)
    BY <1>1, <1>3, <2>3, <2>4 DEF Shape, Read, Pushing, Sending
  <2>6. \A h \in HookIds : hooks[h] # None /\ k \in hooks[h].events => h \in calls
    BY DEF calls, GetWebhooksByRepoIDWhereEvent
  <2>7. QED
    BY <2>3, <2>4, <2>5, <2>6 DEF Fine, e, notice
<1>4. QED
  BY <1>2, <1>3


\* The event of a command that is over with it.
LEMMA SendLast ==
    ASSUME NEW c \in Call, Shape(c), c.todo = {}, NEW notice \in Notices,
           NEW r, NEW b, NEW t, NEW m, NEW d
    PROVE  LET e == SendEvent(c, notice, "idle") IN
           Fine(e) /\ Sees(e, r, b, t, m) /\ Told(e, t, d)
<1> DEFINE calls == GetWebhooksByRepoIDWhereEvent(notice.kind)
           e == SendEvent(c, notice, "idle")
<1>1. CASE calls = {}
  <2>1. [c EXCEPT !.pc = "idle"].pc = "idle"
    BY DEF Call
  <2>2. e = Idle
    BY <1>1, <2>1 DEF SendEvent, Resumes
  <2>3. QED
    BY <2>2, IdleFine
<1>2. CASE calls # {}
  <2>1. e = [c EXCEPT !.pc = Sending, !.notice = notice, !.todo = calls,
                      !.next = "idle"]
    BY <1>2 DEF SendEvent
  <2>2. calls \subseteq HookIds
    BY DEF GetWebhooksByRepoIDWhereEvent
  <2> HIDE DEF e, calls
  <2>3. /\ e \in Call /\ e.pc = Sending /\ e.todo = calls /\ e.notice = notice
        /\ e.next = "idle"
    BY <2>1, <2>2 DEF Call, PCs
  <2>4. Stage(e) = "idle"
    BY <2>3 DEF Stage
  <2>5. Shape(e) /\ Read(e)
    BY <1>2, <2>3, <2>4 DEF Shape, Read, Pushing, Sending
  <2>6. Sees(e, r, b, t, m) /\ Told(e, t, d)
    BY <2>3, <2>4 DEF Sees, Told, Said, Pushing, Sending
  <2>7. QED
    BY <2>3, <2>5, <2>6 DEF Fine, e
<1>3. QED
  BY <1>1, <1>2

LEMMA InvFacts ==
    ASSUME Inv, NEW p \in Procs
    PROVE  /\ World /\ call \in [Procs -> Call]
           /\ call[p] \in Call /\ Fine(call[p]) /\ Shape(call[p]) /\ Read(call[p])
           /\ Sees(call[p], ref, head, hooks, lastHook) /\ Told(call[p], hooks, records)
  BY DEF Inv, Fine

\* What is known of a push whose event is not being sent.
LEMMA PushFacts ==
    ASSUME Inv, NEW p \in Procs, call[p].pc \in {"hook", "push", "notify", "ran"}
    PROVE  /\ call[p] \in Call /\ Pushing(call[p]) /\ Stage(call[p]) = call[p].pc
           /\ call[p].todo = {} /\ call[p].ref \in RefNames
           /\ call[p].new \in {None} \cup Commits
           /\ call[p].old # None \/ call[p].new # None
<1>1. Pushing(call[p]) /\ Stage(call[p]) = call[p].pc /\ call[p].pc # Sending
  BY DEF Pushing, Stage, Sending
<1>2. QED
  BY <1>1, InvFacts DEF Shape

LEMMA BranchKinds ==
    ASSUME NEW r, NEW old, NEW new
    PROVE  /\ BranchTagEvent(r, old, new).kind \in Events
           /\ BranchTagEvent(r, old, new)
                 = Notice(BranchTagEvent(r, old, new).kind, r, new)
  BY DEF BranchTagEvent, Notice, Events

LEMMA UpdateKeeps == ASSUME Inv, NEW p \in Procs, Update(p) PROVE Inv'
<1> DEFINE c == call[p]
           k == BranchTagEvent(c.ref, c.old, c.new).kind
           sent == SendEvent(c, Notice(k, c.ref, c.new), "push")
           ran == [c EXCEPT !.pc = "ran"]
           push == [c EXCEPT !.pc = "push"]
<1>1. At(p, "hook") /\ UNCHANGED requests
  BY DEF Update
<1>2. /\ c \in Call /\ Pushing(c) /\ c.todo = {} /\ c.ref \in RefNames
      /\ c.new \in {None} \cup Commits /\ (c.old # None \/ c.new # None)
      /\ Sees(c, ref, head, hooks, lastHook)
  BY <1>1, PushFacts, InvFacts DEF At
<1>3. CASE ~c.known
  <2>1. Step(p, ran)
    BY <1>3 DEF Update
  <2>2. Fine(ran) /\ Stage(ran) = "ran" /\ ran.known = c.known /\ ran.quiet = c.quiet
        /\ ran.ref = c.ref /\ ran.new = c.new /\ ran.made = c.made
    BY <1>2, PushFine
  <2> HIDE DEF c, ran
  <2>3. Sees(ran, ref, head, hooks, lastHook)
    BY <1>2, <2>2, PushingSees
  <2>4. Told(ran, hooks, records)
    BY <1>3, <2>2 DEF Told
  <2>5. QED
    BY <1>1, <2>1, <2>2, <2>3, <2>4, StepKeeps
<1>4. CASE c.known /\ (c.old = None \/ c.new = None)
  <2>1. Step(p, sent)
    BY <1>4, BranchKinds DEF Update
  <2>2. k \in Events
    BY BranchKinds
  <2>3. /\ Fine(sent) /\ Stage(sent) = "push"
        /\ sent.known = c.known /\ sent.quiet = c.quiet /\ sent.broken = c.broken
        /\ sent.ref = c.ref /\ sent.old = c.old /\ sent.new = c.new
        /\ sent.made = c.made
        /\ \A h \in HookIds : hooks[h] # None /\ k \in hooks[h].events =>
              /\ sent.pc = Sending /\ sent.notice = Notice(k, c.ref, c.new)
              /\ h \in sent.todo
    <3> HIDE DEF c, k
    <3>1. QED
      BY <1>2, <2>2, SendPush
  <2>4. Said(sent) = {k}
    BY <1>4, <2>3 DEF Said
  <2> HIDE DEF c, k, sent
  <2>5. Sees(sent, ref, head, hooks, lastHook)
    BY <1>2, <2>3, PushingSees
  <2>6. Told(sent, hooks, records)
    BY <2>3, <2>4 DEF Told
  <2>7. QED
    BY <1>1, <2>1, <2>3, <2>5, <2>6, StepKeeps
<1>5. CASE c.known /\ c.old # None /\ c.new # None
  <2>1. Step(p, push)
    BY <1>5 DEF Update
  <2>2. Fine(push) /\ Stage(push) = "push" /\ push.known = c.known
        /\ push.quiet = c.quiet /\ push.ref = c.ref /\ push.old = c.old
        /\ push.new = c.new /\ push.made = c.made
    BY <1>2, PushFine
  <2> HIDE DEF c, push
  <2>3. Sees(push, ref, head, hooks, lastHook)
    BY <1>2, <2>2, PushingSees
  <2>4. Said(push) = {}
    BY <1>5, <2>2 DEF Said
  <2>5. Told(push, hooks, records)
    BY <2>4 DEF Told
  <2>6. QED
    BY <1>1, <2>1, <2>2, <2>3, <2>5, StepKeeps
<1>6. QED
  BY <1>3, <1>4, <1>5


LEMMA UpdatePushKeeps == ASSUME Inv, NEW p \in Procs, UpdatePush(p) PROVE Inv'
<1> DEFINE c == call[p]
           next == IF c.ref[1] = "heads" THEN "notify" ELSE "ran"
           sent == SendEvent(c, Notice("push", c.ref, c.new), next)
           ran == [c EXCEPT !.pc = "ran"]
           k == BranchTagEvent(c.ref, c.old, c.new).kind
           before == IF c.old = None \/ c.new = None THEN {k} ELSE {}
<1>1. At(p, "push") /\ UNCHANGED requests
  BY DEF UpdatePush
<1>2. /\ c \in Call /\ Pushing(c) /\ c.todo = {} /\ c.ref \in RefNames
      /\ c.new \in {None} \cup Commits /\ (c.old # None \/ c.new # None)
      /\ Sees(c, ref, head, hooks, lastHook) /\ Stage(c) = "push" /\ c.pc # Sending
  BY <1>1, PushFacts, InvFacts DEF At, Sending
<1>3. ASSUME c.known, c.quiet, ~c.broken, NEW h \in HookIds, hooks[h] # None,
             k \in hooks[h].events, c.old = None \/ c.new = None
      PROVE  Notice(k, c.ref, c.new) \in records[h]
  <2>1. k \in Said(c)
    BY <1>2, <1>3 DEF Said
  <2>2. Told(c, hooks, records)
    BY InvFacts
  <2> HIDE DEF c, k
  <2>3. QED
    BY <1>2, <1>3, <2>1, <2>2 DEF Told
<1>4. CASE c.new = None
  <2>1. Step(p, ran)
    BY <1>4 DEF UpdatePush
  <2>2. Fine(ran) /\ Stage(ran) = "ran" /\ ran.known = c.known /\ ran.quiet = c.quiet
        /\ ran.broken = c.broken /\ ran.ref = c.ref /\ ran.old = c.old
        /\ ran.new = c.new /\ ran.made = c.made
    BY <1>2, PushFine
  <2>3. Said(ran) = {k}
    BY <1>4, <2>2 DEF Said
  <2> HIDE DEF c, ran, k
  <2>4. Sees(ran, ref, head, hooks, lastHook)
    BY <1>2, <2>2, PushingSees
  <2>5. Told(ran, hooks, records)
    BY <1>3, <1>4, <2>2, <2>3 DEF Told
  <2>6. QED
    BY <1>1, <2>1, <2>2, <2>4, <2>5, StepKeeps
<1>5. CASE c.new # None
  <2>1. Step(p, sent)
    BY <1>5 DEF UpdatePush
  <2>2. "push" \in Events /\ next \in {"notify", "ran"}
    BY DEF Events
  <2>3. /\ Fine(sent) /\ Stage(sent) = next
        /\ sent.known = c.known /\ sent.quiet = c.quiet /\ sent.broken = c.broken
        /\ sent.ref = c.ref /\ sent.old = c.old /\ sent.new = c.new
        /\ sent.made = c.made
        /\ \A h \in HookIds : hooks[h] # None /\ "push" \in hooks[h].events =>
              /\ sent.pc = Sending /\ sent.notice = Notice("push", c.ref, c.new)
              /\ h \in sent.todo
    <3> HIDE DEF c, next
    <3>1. QED
      BY <1>2, <2>2, SendPush
  <2>4. Said(sent) = before \cup {"push"}
    <3> HIDE DEF sent, next
    <3>1. QED
      BY <1>5, <2>2, <2>3 DEF Said
  <2>5. next \in {"push", "notify", "ran"}
    BY <2>2
  <2> HIDE DEF c, k, sent, next
  <2>6. Sees(sent, ref, head, hooks, lastHook)
    BY <1>2, <2>3, <2>5, PushingSees
  <2>7. Told(sent, hooks, records)
    BY <1>3, <2>3, <2>4 DEF Told
  <2>8. QED
    BY <1>1, <2>1, <2>3, <2>6, <2>7, StepKeeps
<1>6. QED
  BY <1>4, <1>5

LEMMA NotifyKeeps == ASSUME Inv, NEW p \in Procs, notifyGytBackend(p) PROVE Inv'
<1> DEFINE c == call[p]
           ran == [c EXCEPT !.pc = "ran"]
<1>1. At(p, "notify") /\ UNCHANGED requests /\ Step(p, ran)
  BY DEF notifyGytBackend
<1>2. /\ c \in Call /\ Pushing(c) /\ c.todo = {} /\ c.ref \in RefNames
      /\ c.new \in {None} \cup Commits /\ (c.old # None \/ c.new # None)
      /\ Sees(c, ref, head, hooks, lastHook) /\ Stage(c) = "notify" /\ c.pc # Sending
      /\ Told(c, hooks, records)
  BY <1>1, PushFacts, InvFacts DEF At, Sending
<1>3. Fine(ran) /\ Stage(ran) = "ran" /\ ran.known = c.known /\ ran.quiet = c.quiet
      /\ ran.broken = c.broken /\ ran.ref = c.ref /\ ran.old = c.old
      /\ ran.new = c.new /\ ran.made = c.made
  BY <1>2, PushFine
<1> HIDE DEF c, ran
<1>4. Sees(ran, ref, head, hooks, lastHook)
  BY <1>2, <1>3, PushingSees
<1>5. Said(ran) = Said(c)
  BY <1>2, <1>3 DEF Said
<1>6. Told(ran, hooks, records)
  BY <1>2, <1>3, <1>5 DEF Told
<1>7. QED
  BY <1>1, <1>3, <1>4, <1>6, StepKeeps

\* The call of hook h is over, with what was recorded of it.
LEMMA SentFine ==
    ASSUME Inv, NEW p \in Procs, At(p, Sending), NEW h \in call[p].todo,
           NEW ok \in BOOLEAN, NEW d,
           \A i \in HookIds : records[i] \subseteq d[i],
           ok => call[p].notice \in d[h]
    PROVE  LET e == Sent(call[p], h, ok) IN
           Fine(e) /\ Sees(e, ref, head, hooks, lastHook) /\ Told(e, hooks, d)
<1> DEFINE c == call[p]
           e == Sent(c, h, ok)
<1>1. /\ c \in Call /\ Shape(c) /\ Sees(c, ref, head, hooks, lastHook)
      /\ Told(c, hooks, records) /\ c.pc = Sending /\ h \in HookIds
      /\ c.next \in {"push", "notify", "ran", "idle"} /\ c.notice \in Notices
  BY InvFacts DEF At, Call, Shape
<1>2. Stage(c) = c.next /\ Pushing(c) <=> c.next # "idle"
  BY <1>1 DEF Stage, Pushing
<1>3. Told(c, hooks, d)
  BY <1>1, ToldGrows
<1>4. CASE ok /\ c.todo # {h}
  <2>1. e = [c EXCEPT !.todo = @ \ {h}]
    BY <1>4 DEF Sent
  <2> HIDE DEF c, e
  <2>2. /\ e \in Call /\ e.todo = c.todo \ {h} /\ e.pc = c.pc /\ e.next = c.next
        /\ e.notice = c.notice /\ e.known = c.known /\ e.quiet = c.quiet
        /\ e.broken = c.broken /\ e.ref = c.ref /\ e.old = c.old
        /\ e.new = c.new /\ e.made = c.made
    BY <1>1, <2>1 DEF Call
  <2>3. Stage(e) = Stage(c) /\ Said(e) = Said(c)
    BY <2>2 DEF Stage, Said
  <2>4. e.todo # {}
    BY <1>1, <1>4, <2>2 DEF Shape
  <2>5. Fine(e)
    BY <1>1, <2>2, <2>3, <2>4 DEF Fine, Shape, Read, Pushing, Sending
  <2>6. Sees(e, ref, head, hooks, lastHook)
    BY <1>1, <2>2, <2>3 DEF Sees, Pushing, Sending
  <2>7. Told(e, hooks, d)
    BY <1>3, <1>4, <2>2, <2>3 DEF Told, c
  <2>8. QED
    BY <2>5, <2>6, <2>7 DEF c, e
<1>5. CASE ~(ok /\ c.todo # {h})
  <2> DEFINE f == [c EXCEPT !.pc = c.next, !.notice = None, !.todo = {},
                            !.next = "idle", !.broken = @ \/ ~ok]
  <2>1. f.pc = c.next
    BY <1>1 DEF Call
  <2>2. e = Resumes(f)
    BY <1>5 DEF Sent
  <2>3. CASE c.next = "idle"
    <3>1. e = Idle
      BY <2>1, <2>2, <2>3 DEF Resumes
    <3>2. QED
      BY <3>1, IdleFine
  <2>4. CASE c.next # "idle"
    <3>1. e = f
      BY <2>1, <2>2, <2>4 DEF Resumes
    <3>2. PICK b \in BOOLEAN : /\ b <=> c.broken \/ ~ok
                               /\ f = [c EXCEPT !.pc = c.next, !.notice = None,
                                          !.todo = {}, !.next = "idle", !.broken = b]
      <4>1. (c.broken \/ ~ok) \in BOOLEAN
        OBVIOUS
      <4>2. QED
        BY <4>1
    <3> HIDE DEF c, f, e
    <3>3. /\ e \in Call /\ e.pc = c.next /\ e.todo = {} /\ e.known = c.known
          /\ e.quiet = c.quiet /\ e.broken = b /\ e.ref = c.ref /\ e.old = c.old
          /\ e.new = c.new /\ e.made = c.made
      <4>1. c.next \in PCs /\ "idle" \in PCs /\ {} \in SUBSET HookIds
        BY <1>1 DEF PCs
      <4>2. f \in Call
        <5> DEFINE g == [c EXCEPT !.pc = c.next, !.notice = None, !.todo = {}]
        <5>1. g \in Call
          BY <1>1, <4>1 DEF Call
        <5>2. f = [g EXCEPT !.next = "idle", !.broken = b]
          BY <3>2
        <5> HIDE DEF g
        <5>3. QED
          BY <4>1, <5>1, <5>2 DEF Call
      <4>3. /\ f.pc = c.next /\ f.todo = {} /\ f.known = c.known
            /\ f.quiet = c.quiet /\ f.broken = b /\ f.ref = c.ref
            /\ f.old = c.old /\ f.new = c.new /\ f.made = c.made
        BY <1>1, <3>2 DEF Call
      <4>4. QED
        BY <3>1, <4>2, <4>3
    <3>4. Stage(e) = Stage(c) /\ Said(e) = Said(c) /\ e.pc # Sending
      BY <1>1, <1>2, <3>3 DEF Stage, Said, Sending
    <3>5. Fine(e)
      BY <1>1, <1>2, <2>4, <3>3, <3>4 DEF Fine, Shape, Read, Pushing, Sending
    <3>6. Stage(e) \in {"push", "notify", "ran"} /\ Pushing(c)
      BY <1>1, <1>2, <2>4, <3>4
    <3>7. Sees(e, ref, head, hooks, lastHook)
      BY <1>1, <3>3, <3>6, PushingSees
    <3>8. Told(e, hooks, d)
      <4>1. SUFFICES ASSUME e.known, e.quiet, ~e.broken
                     PROVE  Told(e, hooks, d)
        BY DEF Told
      <4>2. ok /\ c.todo = {h} /\ ~c.broken
        BY <1>5, <3>2, <3>3, <4>1
      <4>3. QED
        BY <1>3, <3>3, <3>4, <4>1, <4>2 DEF Told, c
    <3>9. QED
      BY <3>5, <3>7, <3>8 DEF c, e
  <2>5. QED
    BY <2>3, <2>4
<1>6. QED
  BY <1>4, <1>5

LEMMA SendWebhookKeeps == ASSUME Inv, NEW p \in Procs, SendWebhook(p) PROVE Inv'
<1>1. PICK h \in call[p].todo :
         /\ CreateWebhookDelivery(h, call[p].notice)
         /\ call' = [call EXCEPT ![p] = Sent(call[p], h, hooks[h] # None)]
  BY DEF SendWebhook
<1>2. /\ At(p, Sending)
      /\ UNCHANGED <<there, ref, head, last, hooks, lastHook, scene, requests>>
  BY DEF SendWebhook, repo
<1>3. World /\ h \in HookIds /\ call[p].notice \in Notices
  BY <1>2, InvFacts DEF At, Call, Shape
<1>4. /\ records' \in [HookIds -> SUBSET Notices]
      /\ \A i \in HookIds : records[i] \subseteq records'[i]
      /\ hooks[h] # None => call[p].notice \in records'[h]
  BY <1>1, <1>3 DEF CreateWebhookDelivery, World
<1>5. World'
  BY <1>2, <1>3, <1>4 DEF World, NoRefs, UrlsDiffer
<1> DEFINE e == Sent(call[p], h, hooks[h] # None)
<1>6. (hooks[h] # None) \in BOOLEAN
  OBVIOUS
<1>7. Fine(e) /\ Sees(e, ref, head, hooks, lastHook) /\ Told(e, hooks, records')
  BY <1>2, <1>4, <1>6, SentFine
<1>8. QED
  BY <1>1, <1>2, <1>4, <1>5, <1>7, EditKeeps

LEMMA AnswerBreaksKeeps == ASSUME Inv, NEW p \in Procs, AnswerBreaks(p) PROVE Inv'
<1>1. PICK h \in call[p].todo : Step(p, Sent(call[p], h, FALSE))
  BY DEF AnswerBreaks
<1>2. At(p, Sending) /\ UNCHANGED requests
  BY DEF AnswerBreaks
<1> DEFINE e == Sent(call[p], h, FALSE)
<1>3. Fine(e) /\ Sees(e, ref, head, hooks, lastHook) /\ Told(e, hooks, records)
  BY <1>2, SentFine
<1>4. QED
  BY <1>1, <1>2, <1>3, StepKeeps


-----------------------------------------------------------------------------
(* Pushes                                                                  *)

\* Places at which nothing has to be known.
Plain == {"receive", "create", "ended", "chosen", "deleted", "updated"}

LEMMA PlainFine ==
    ASSUME NEW c \in Call, c.pc \in Plain, c.todo = {},
           c.pc = "deleted" => c.ref \in RefNames,
           c.pc = "receive" => ~c.made,
           NEW r, NEW b, NEW t, NEW m, NEW d
    PROVE  Fine(c) /\ Sees(c, r, b, t, m) /\ Told(c, t, d)
<1>1. Stage(c) = c.pc
  BY DEF Stage, Plain, Sending
<1>2. Shape(c) /\ Read(c)
  BY <1>1 DEF Shape, Read, Pushing, Plain, Sending
<1>3. Sees(c, r, b, t, m) /\ Told(c, t, d)
  BY <1>1 DEF Sees, Told, Said, Pushing, Plain
<1>4. QED
  BY <1>2, <1>3 DEF Fine

LEMMA PushBeginsKeeps ==
    ASSUME Inv, NEW p \in Procs, NEW via \in {"ssh", "http"}, NEW known \in BOOLEAN,
           PushBegins(p, via, known)
    PROVE  Inv'
<1> DEFINE c == [Idle EXCEPT !.pc = IF there THEN "receive" ELSE "create",
                             !.via = IF there THEN "none" ELSE via,
                             !.known = known]
<1>1. c \in Call /\ c.pc \in Plain /\ c.todo = {} /\ c.pc # "deleted" /\ ~c.made
  <2>1. PICK place \in {"receive", "create"}, v \in {"none", "ssh", "http"} :
           c = [Idle EXCEPT !.pc = place, !.via = v, !.known = known]
    OBVIOUS
  <2>2. place \in PCs /\ place \in Plain
    BY DEF PCs, Plain
  <2> HIDE DEF c
  <2>3. c \in Call /\ c.pc = place
    BY <2>1, <2>2, IdleFine DEF Call
  <2>4. c.todo = {} /\ ~c.made
    BY <2>1 DEF Idle
  <2>5. QED
    BY <2>2, <2>3, <2>4
<1>2. Starts(p, c)
  BY DEF PushBegins
<1> HIDE DEF c
<1>3. QED
  BY <1>1, <1>2, PlainFine, StartsKeeps

\* A request that goes on at a place where nothing has to be known.
LEMMA PlainCall ==
    ASSUME NEW c \in Call, c.todo = {}, NEW place \in Plain,
           c.ref \in RefNames \/ place # "deleted", NEW q \in BOOLEAN,
           NEW made \in BOOLEAN, place = "receive" => ~made,
           NEW r, NEW b, NEW t, NEW m, NEW d
    PROVE  LET e == [c EXCEPT !.pc = place, !.quiet = q, !.made = made] IN
           Fine(e) /\ Sees(e, r, b, t, m) /\ Told(e, t, d)
<1> DEFINE e == [c EXCEPT !.pc = place, !.quiet = q, !.made = made]
<1>1. e \in Call /\ e.pc = place /\ e.todo = {} /\ e.ref = c.ref /\ e.made = made
  <2> DEFINE f == [c EXCEPT !.pc = place]
  <2>1. place \in PCs
    BY DEF PCs, Plain
  <2>2. f \in Call /\ f.pc = place /\ f.todo = {} /\ f.ref = c.ref
    BY <2>1 DEF Call
  <2>3. e = [f EXCEPT !.quiet = q, !.made = made]
    OBVIOUS
  <2> HIDE DEF f, e
  <2>4. e \in Call
    <3> DEFINE g == [f EXCEPT !.quiet = q]
    <3>1. g \in Call
      BY <2>2 DEF Call
    <3>2. e = [g EXCEPT !.made = made]
      BY <2>3
    <3> HIDE DEF g
    <3>3. QED
      BY <3>1, <3>2 DEF Call
  <2>5. e.pc = f.pc /\ e.todo = f.todo /\ e.ref = f.ref /\ e.made = made
    BY <2>2, <2>3 DEF Call
  <2>6. QED
    BY <2>2, <2>4, <2>5
<1> HIDE DEF e
<1>2. Fine(e) /\ Sees(e, r, b, t, m) /\ Told(e, t, d)
  BY <1>1, PlainFine
<1>3. QED
  BY <1>2 DEF e

LEMMA PushCreatesKeeps == ASSUME Inv, NEW p \in Procs, PushCreates(p) PROVE Inv'
<1> DEFINE c == call[p]
           e == [c EXCEPT !.pc = "receive", !.made = TRUE]
<1>1. At(p, "create") /\ UNCHANGED requests /\ c \in Call /\ c.todo = {} /\ c.quiet \in BOOLEAN
  BY InvFacts DEF PushCreates, At, Shape, Sending, Call
<1>2. CASE there
  BY <1>1, <1>2, StepKeeps, IdleFine DEF PushCreates
<1>3. CASE ~there
  <2>1. CreateRepository(p, e)
    BY <1>3 DEF PushCreates
  <2>2. World'
    BY <1>1, <2>1, InvFacts, Numbers
    DEF CreateRepository, hookTables, World, NoRefs, UrlsDiffer
  <2>3. Fine(e) /\ Sees(e, ref', head', hooks', lastHook') /\ Told(e, hooks', records')
    <3>1. "receive" \in PCs /\ ref' = NoRefs
      BY <2>1 DEF PCs, CreateRepository
    <3> HIDE DEF c
    <3>2. e \in Call /\ e.pc = "receive" /\ e.todo = {}
      BY <1>1, <3>1 DEF Call
    <3> HIDE DEF e
    <3>3. Stage(e) = "receive"
      BY <3>2 DEF Stage, Sending
    <3>4. Fine(e)
      BY <3>2, <3>3 DEF Fine, Shape, Read, Pushing, Sending
    <3>5. Sees(e, ref', head', hooks', lastHook') /\ Told(e, hooks', records')
      BY <3>1, <3>2, <3>3 DEF Sees, Told, Said, Pushing, NoRefs
    <3>6. QED
      BY <3>4, <3>5
  <2>4. Overtakes(p, e, FALSE)
    BY <2>1 DEF CreateRepository
  <2> HIDE DEF c, e
  <2>5. QED
    BY <2>2, <2>3, <2>4, OvertakeKeeps
<1>4. QED
  BY <1>2, <1>3

LEMMA ReceiveKeeps ==
    ASSUME Inv, NEW p \in Procs, NEW r \in RefNames, Receive(p, r) PROVE Inv'
<1>1. PICK new \in Commits \cup {None} :
         /\ call' = [call EXCEPT ![p] = [@ EXCEPT !.pc = "hook", !.ref = r,
                                                  !.old = ref[r], !.new = new]]
         /\ \/ last < MaxChanges /\ last' = last + 1 /\ new \in {Onto(ref[r]), Onto(None)}
            \/ UNCHANGED last /\ ref[r] = None /\ \E n \in Branches : new = Tip(n)
            \/ UNCHANGED last /\ ref[r] # None /\ r # Branch(head) /\ new = None
  BY DEF Receive
<1>2. /\ At(p, "receive")
      /\ UNCHANGED <<requests, there, ref, head, hooks, lastHook, records, scene>>
  BY DEF Receive, hookTables
<1> DEFINE c == call[p]
           e == [c EXCEPT !.pc = "hook", !.ref = r, !.old = ref[r], !.new = new]
<1>3. c \in Call /\ c.todo = {} /\ World /\ call \in [Procs -> Call]
  BY <1>2, InvFacts DEF At, Shape, Sending
<1>4. last' \in 0..MaxChanges
  BY <1>1, <1>3, Numbers DEF World
<1>5. World'
  BY <1>2, <1>3, <1>4 DEF World, NoRefs, UrlsDiffer
<1>6. call' = [call EXCEPT ![p] = e]
  BY <1>1
<1>7. ref[r] # None \/ new # None
  <2>1. \A n \in Branches : Tip(n) # None
    BY DEF Branches
  <2>2. last < MaxChanges => Onto(ref[r]) \in Commits /\ Onto(None) \in Commits
    BY <1>3, Numbers DEF Onto, Commits, World
  <2>3. QED
    BY <1>1, <2>1, <2>2, NoneAssumption
<1>8. new = None => r # Branch(head)
  <2>1. last < MaxChanges => Onto(ref[r]) \in Commits /\ Onto(None) \in Commits
    BY <1>3, Numbers DEF Onto, Commits, World
  <2>2. QED
    BY <1>1, <2>1, NoneAssumption DEF Branches
<1>9. /\ e \in Call /\ e.pc = "hook" /\ e.todo = {} /\ e.ref = r /\ e.old = ref[r]
      /\ e.new = new /\ e.made = c.made /\ e.quiet = c.quiet
  <2>1. /\ "hook" \in PCs /\ ref[r] \in {None} \cup Commits
        /\ new \in Names \cup {None} \cup Commits /\ r \in RefNames \cup {None}
    BY <1>3 DEF PCs, World
  <2>2. QED
    BY <1>3, <2>1 DEF Call
<1>0. Sees(c, ref, head, hooks, lastHook)
  BY InvFacts
<1> HIDE DEF c, e
<1>10. Stage(e) = "hook"
  BY <1>9 DEF Stage, Sending
<1>11. Fine(e)
  BY <1>7, <1>9, <1>10 DEF Fine, Shape, Read, Pushing, Sending
<1>12. Sees(e, ref, head, hooks, lastHook)
  BY <1>2, <1>8, <1>9, <1>0 DEF Sees, At, c
<1>13. Told(e, hooks, records')
  BY <1>10 DEF Told, Said
<1>14. QED
  BY <1>2, <1>5, <1>6, <1>11, <1>12, <1>13, EditKeeps

\* One invocation of git sets a reference of a repository that is there.
LEMMA SetsKeeps ==
    ASSUME Inv, NEW p \in Procs, NEW r \in RefNames, NEW new \in Commits \cup {None},
           NEW c, Sets(p, r, new, c), there, last' \in 0..MaxChanges,
           requests' \in 0..MaxRequests[scene], Fine(c),
           \A b, s, t, m : Sees(c, s, b, t, m), \A t, d : Told(c, t, d)
    PROVE  Inv'
<1>1. /\ ref' = [ref EXCEPT ![r] = new] /\ Overtakes(p, c, FALSE)
      /\ UNCHANGED <<there, head, hooks, lastHook, records, scene>>
  BY DEF Sets, hookTables
<1>2. World'
  BY <1>1 DEF Inv, World, UrlsDiffer
<1>3. QED
  BY <1>1, <1>2, OvertakeKeeps


LEMMA RefMovesKeeps == ASSUME Inv, NEW p \in Procs, RefMoves(p) PROVE Inv'
<1> DEFINE c == call[p]
           e == [c EXCEPT !.pc = "ended", !.quiet = TRUE]
<1>1. At(p, "ran") /\ there /\ UNCHANGED <<last, requests>> /\ World
      /\ c \in Call /\ c.todo = {} /\ c.ref \in RefNames /\ c.new \in {None} \cup Commits
      /\ c.made \in BOOLEAN
  BY PushFacts, InvFacts DEF RefMoves, At, Call
<1>2. \A r, b, t, m, d : Fine(e) /\ Sees(e, r, b, t, m) /\ Told(e, t, d)
  <2>1. e = [c EXCEPT !.pc = "ended", !.quiet = TRUE, !.made = c.made]
    BY <1>1 DEF Call
  <2>2. "ended" \in Plain
    BY DEF Plain
  <2> HIDE DEF c, e
  <2>3. QED
    BY <1>1, <2>1, <2>2, PlainCall
<1>3. CASE ref[c.ref] = c.old
  <2>1. Sets(p, c.ref, c.new, e)
    BY <1>3 DEF RefMoves
  <2>2. last' \in 0..MaxChanges /\ requests' \in 0..MaxRequests[scene]
    BY <1>1 DEF World
  <2> HIDE DEF c, e
  <2>3. QED
    BY <1>1, <1>2, <2>1, <2>2, SetsKeeps
<1>4. CASE ref[c.ref] # c.old
  <2>1. Step(p, e)
    BY <1>4 DEF RefMoves
  <2> HIDE DEF c, e
  <2>2. QED
    BY <1>1, <1>2, <2>1, StepKeeps
<1>5. QED
  BY <1>3, <1>4

LEMMA GitFailsKeeps == ASSUME Inv, NEW p \in Procs, GitFails(p) PROVE Inv'
<1> DEFINE c == call[p]
           e == [c EXCEPT !.pc = "undo"]
<1>1. c \in Call /\ c.todo = {} /\ c.pc \in {"receive", "hook", "push", "notify", "ran"}
  BY InvFacts DEF GitFails, Shape, Sending
<1>0. Sees(c, ref, head, hooks, lastHook) /\ (Pushing(c) \/ c.pc = "receive")
  BY <1>1, InvFacts DEF Pushing, Stage, Sending
<1>2. CASE ~(c.made /\ c.via = "ssh")
  <2>1. Ends(p)
    BY <1>2 DEF GitFails
  <2>2. QED
    BY <2>1, EndsKeeps
<1>3. CASE c.made /\ c.via = "ssh"
  <2>1. Step(p, e) /\ UNCHANGED requests
    BY <1>3 DEF GitFails, GoesOn
  <2>2. "undo" \in PCs
    BY DEF PCs
  <2>3. e \in Call /\ e.pc = "undo" /\ e.todo = {} /\ e.made
        /\ e.quiet = c.quiet
    BY <1>1, <1>3, <2>2 DEF Call
  <2> HIDE DEF c, e
  <2>4. Stage(e) = "undo"
    BY <2>3 DEF Stage, Sending
  <2>5. Fine(e)
    BY <2>3, <2>4 DEF Fine, Shape, Read, Pushing, Sending
  <2>6. Sees(e, ref, head, hooks, lastHook) /\ Told(e, hooks, records)
    BY <1>0, <1>3, <2>3, <2>4 DEF Sees, Told, Said, Pushing, c
  <2>7. QED
    BY <2>1, <2>5, <2>6, StepKeeps
<1>4. QED
  BY <1>2, <1>3

LEMMA DeleteKeeps ==
    ASSUME Inv, NEW p \in Procs, DeleteRepository(p, Idle), UNCHANGED requests
    PROVE  Inv'
<1>1. /\ there' = FALSE /\ ref' = NoRefs
      /\ hooks' = [h \in HookIds |-> None] /\ records' = [h \in HookIds |-> {}]
      /\ Overtakes(p, Idle, TRUE) /\ UNCHANGED <<head, last, lastHook, scene>>
  BY DEF DeleteRepository
<1>2. World
  BY InvFacts
<1>3. World'
  BY <1>1, <1>2 DEF World, NoRefs, UrlsDiffer
<1>4. QED
  BY <1>1, <1>3, IdleFine, OvertakeKeeps

LEMMA UndoKeeps == ASSUME Inv, NEW p \in Procs, Undo(p) PROVE Inv'
  BY DeleteKeeps, EndsKeeps DEF Undo

LEMMA EnsureKeeps == ASSUME Inv, NEW p \in Procs, EnsureDefaultBranch(p) PROVE Inv'
<1> DEFINE c == call[p]
<1>1. c \in Call /\ c.todo = {} /\ World
  BY InvFacts DEF EnsureDefaultBranch, At, Shape, Sending
<1>2. CASE Ends(p)
  BY <1>2, EndsKeeps
<1>3. CASE ~Ends(p)
  <2>1. PICK n \in DefaultChoices : /\ Step(p, [c EXCEPT !.pc = "default", !.new = n])
                                    /\ UNCHANGED requests
    BY <1>3 DEF EnsureDefaultBranch
  <2>2. /\ n \in Names /\ ref[Branch(n)] # None
        /\ n \in Preferred \/ \A o \in Preferred : ref[Branch(o)] = None
    BY Numbers DEF DefaultChoices, Branches, Tip
  <2> DEFINE e == [c EXCEPT !.pc = "default", !.new = n]
  <2>3. "default" \in PCs
    BY DEF PCs
  <2>4. e \in Call /\ e.pc = "default" /\ e.todo = {} /\ e.new = n
    BY <1>1, <2>2, <2>3 DEF Call
  <2> HIDE DEF c
  <2>5. Step(p, e)
    BY <2>1
  <2> HIDE DEF e
  <2>6. Stage(e) = "default"
    BY <2>4 DEF Stage, Sending
  <2>7. Fine(e)
    BY <2>2, <2>4, <2>6 DEF Fine, Shape, Read, Pushing, Sending
  <2>8. Sees(e, ref, head, hooks, lastHook) /\ Told(e, hooks, records)
    BY <2>2, <2>4, <2>6 DEF Sees, Told, Said, Pushing
  <2>9. QED
    BY <2>1, <2>5, <2>7, <2>8, StepKeeps
<1>4. QED
  BY <1>2, <1>3

\* HEAD is made to refer to branch n.
LEMMA SymbolicKeeps ==
    ASSUME Inv, NEW p \in Procs, NEW n \in Names, NEW c, SymbolicRef(p, n, c),
           requests' \in 0..MaxRequests[scene], Fine(c),
           \A b, s, t, m : Sees(c, s, b, t, m), \A t, d : Told(c, t, d)
    PROVE  Inv'
<1>1. /\ head' = n /\ Overtakes(p, c, FALSE)
      /\ UNCHANGED <<there, ref, last, hooks, lastHook, records, scene>>
  BY DEF SymbolicRef, hookTables
<1>2. World'
  BY <1>1 DEF Inv, World, NoRefs, UrlsDiffer
<1>3. QED
  BY <1>1, <1>2, OvertakeKeeps

LEMMA DefaultKeeps == ASSUME Inv, NEW p \in Procs, DefaultBranchSet(p) PROVE Inv'
<1>1. /\ SymbolicRef(p, call[p].new, Idle) \/ Step(p, Idle)
      /\ UNCHANGED requests /\ call[p].new \in Names
  BY InvFacts DEF DefaultBranchSet, At, Shape
<1>2. requests' \in 0..MaxRequests[scene]
  BY <1>1, InvFacts DEF World
<1>3. QED
  BY <1>1, <1>2, IdleFine, SymbolicKeeps, StepKeeps


-----------------------------------------------------------------------------
(* Branch and tag commands, and merges                                     *)

LEMMA TipTyped ==
    ASSUME Inv, NEW n \in Branches
    PROVE  n \in Names /\ Branch(n) \in RefNames /\ Tip(n) \in Commits /\ Tip(n) # None
  BY InvFacts, Numbers DEF Inv, World, Branches, Tip

LEMMA ChosenKeeps ==
    ASSUME Inv, NEW p \in Procs, NEW place \in {"default2", "delete"}, NEW r \in RefNames,
           NEW old \in {None} \cup Commits, NEW new \in Names \cup {None} \cup Commits,
           NEW known \in BOOLEAN, Chosen(p, place, r, old, new, known),
           place = "default2" => new \in Branches,
           place = "delete" => r # Branch(head) /\ old = ref[r]
    PROVE  Inv'
<1> DEFINE c == [Idle EXCEPT !.pc = place, !.via = "ssh", !.known = known,
                             !.ref = r, !.old = old, !.new = new]
<1>1. place \in PCs
  BY DEF PCs
<1>2. c \in Call /\ c.pc = place /\ c.todo = {} /\ c.ref = r /\ c.new = new /\ c.old = old /\ ~c.made
  <2>1. Idle \in Call
    BY IdleFine
  <2>2. c = [[Idle EXCEPT !.pc = place, !.via = "ssh", !.known = known]
                 EXCEPT !.ref = r, !.old = old, !.new = new]
    OBVIOUS
  <2>3. [Idle EXCEPT !.pc = place, !.via = "ssh", !.known = known] \in Call
    BY <1>1, <2>1 DEF Call
  <2>4. c \in Call
    BY <2>2, <2>3 DEF Call
  <2>5. c.pc = place /\ c.todo = {} /\ c.ref = r /\ c.new = new /\ c.old = old /\ ~c.made
    BY DEF Idle
  <2>6. QED
    BY <2>4, <2>5
<1>3. Starts(p, c)
  BY DEF Chosen
<1> HIDE DEF c
<1>4. Stage(c) = place
  BY <1>2 DEF Stage, Sending
<1>5. Fine(c)
  BY <1>2, <1>4 DEF Fine, Shape, Read, Pushing, Sending, Branches
<1>6. Sees(c, ref, head, hooks, lastHook) /\ Told(c, hooks, records)
  BY <1>2, <1>4 DEF Sees, Told, Said, Pushing, Branches, Tip
<1>7. QED
  BY <1>3, <1>5, <1>6, StartsKeeps

LEMMA BranchDefaultKeeps ==
    ASSUME Inv, NEW p \in Procs, NEW n \in Names, NEW known \in BOOLEAN,
           BranchDefault(p, n, known)
    PROVE  Inv'
<1>1. n \in Branches /\ Chosen(p, "default2", Branch(n), None, n, known)
  BY DEF BranchDefault
<1>2. QED
  BY <1>1, TipTyped, ChosenKeeps

LEMMA BranchDeleteKeeps ==
    ASSUME Inv, NEW p \in Procs, NEW n \in Names, NEW known \in BOOLEAN,
           BranchDelete(p, n, known)
    PROVE  Inv'
<1>1. n \in Branches /\ Chosen(p, "delete", Branch(n), Tip(n), None, known)
  BY DEF BranchDelete
<1>2. Branch(n) # Branch(head) /\ Tip(n) = ref[Branch(n)]
  BY DEF BranchDelete, Branch, Tip
<1>3. QED
  BY <1>1, <1>2, TipTyped, ChosenKeeps

LEMMA TagDeleteKeeps ==
    ASSUME Inv, NEW p \in Procs, NEW n \in Names, NEW known \in BOOLEAN,
           TagDelete(p, n, known)
    PROVE  Inv'
<1>1. n \in TagsThere /\ Chosen(p, "delete", Tag(n), ref[Tag(n)], None, known)
  BY DEF TagDelete
<1>2. Tag(n) # Branch(head) /\ Tag(n) \in RefNames /\ ref[Tag(n)] \in Commits
  BY <1>1, InvFacts DEF Tag, Branch, TagsThere, World
<1>3. QED
  BY <1>1, <1>2, ChosenKeeps

LEMMA DefaultSetKeeps == ASSUME Inv, NEW p \in Procs, BranchDefaultSet(p) PROVE Inv'
<1> DEFINE c == call[p]
           e == [c EXCEPT !.pc = "chosen"]
<1>1. /\ SymbolicRef(p, c.new, e) \/ Step(p, Idle)
      /\ UNCHANGED requests /\ c.new \in Names /\ c \in Call /\ c.todo = {}
      /\ requests' \in 0..MaxRequests[scene]
      /\ c.quiet \in BOOLEAN /\ c.made \in BOOLEAN
  BY InvFacts DEF BranchDefaultSet, At, Shape, Sending, World, Call
<1>2. \A r, b, t, m, d : Fine(e) /\ Sees(e, r, b, t, m) /\ Told(e, t, d)
  <2>1. e = [c EXCEPT !.pc = "chosen", !.quiet = c.quiet, !.made = c.made]
    BY <1>1 DEF Call
  <2>2. "chosen" \in Plain
    BY DEF Plain
  <2> HIDE DEF c, e
  <2>3. QED
    BY <1>1, <2>1, <2>2, PlainCall
<1> HIDE DEF c, e
<1>3. CASE SymbolicRef(p, c.new, e)
  BY <1>1, <1>2, <1>3, SymbolicKeeps
<1>4. CASE Step(p, Idle)
  BY <1>1, <1>4, IdleFine, StepKeeps
<1>5. QED
  BY <1>1, <1>3, <1>4

LEMMA TellKeeps ==
    ASSUME Inv, NEW p \in Procs, call[p].pc \in {"chosen", "deleted"},
           NEW notice \in Notices, UNCHANGED requests,
           Step(p, Idle) \/ Step(p, SendEvent(call[p], notice, "idle"))
    PROVE  Inv'
<1> DEFINE e == SendEvent(call[p], notice, "idle")
<1>1. call[p] \in Call /\ Shape(call[p]) /\ call[p].todo = {}
  BY InvFacts DEF Shape, Sending
<1>2. Fine(e) /\ Sees(e, ref, head, hooks, lastHook) /\ Told(e, hooks, records)
  BY <1>1, SendLast
<1> HIDE DEF e
<1>3. Step(p, Idle) \/ Step(p, e)
  BY DEF e
<1>4. QED
  BY <1>2, <1>3, IdleFine, StepKeeps

LEMMA DefaultToldKeeps == ASSUME Inv, NEW p \in Procs, BranchDefaultTold(p) PROVE Inv'
<1>1. Notice("repository", None, None) \in Notices
  BY DEF Notice, Notices, Events
<1>2. QED
  BY <1>1, TellKeeps DEF BranchDefaultTold, At

LEMMA DeletedToldKeeps == ASSUME Inv, NEW p \in Procs, RefDeletedTold(p) PROVE Inv'
<1>1. Notice("branch_tag_delete", call[p].ref, None) \in Notices
  BY InvFacts DEF Notice, Notices, Events, Call
<1>2. QED
  BY <1>1, TellKeeps DEF RefDeletedTold, At

LEMMA RefDeletedKeeps == ASSUME Inv, NEW p \in Procs, RefDeleted(p) PROVE Inv'
<1> DEFINE c == call[p]
           e == [c EXCEPT !.pc = "deleted"]
<1>1. /\ (there /\ Sets(p, c.ref, None, e)) \/ Step(p, Idle)
      /\ UNCHANGED <<last, requests>> /\ c.ref \in RefNames /\ c \in Call /\ c.todo = {}
      /\ last' \in 0..MaxChanges /\ requests' \in 0..MaxRequests[scene]
      /\ c.quiet \in BOOLEAN /\ c.made \in BOOLEAN
  BY InvFacts DEF RefDeleted, At, Shape, Sending, World, Call
<1>2. \A r, b, t, m, d : Fine(e) /\ Sees(e, r, b, t, m) /\ Told(e, t, d)
  <2>1. e = [c EXCEPT !.pc = "deleted", !.quiet = c.quiet, !.made = c.made]
    BY <1>1 DEF Call
  <2>2. "deleted" \in Plain
    BY DEF Plain
  <2> HIDE DEF c, e
  <2>3. QED
    BY <1>1, <2>1, <2>2, PlainCall
<1> HIDE DEF c, e
<1>3. CASE there /\ Sets(p, c.ref, None, e)
  BY <1>1, <1>2, <1>3, SetsKeeps
<1>4. CASE Step(p, Idle)
  BY <1>1, <1>4, IdleFine, StepKeeps
<1>5. QED
  BY <1>1, <1>3, <1>4

LEMMA MoreRequests ==
    ASSUME Inv, requests < MaxRequests[scene], requests' = requests + 1
    PROVE  requests' \in 0..MaxRequests[scene]
  BY Numbers DEF Inv, World

LEMMA RevisionTyped ==
    ASSUME Inv, NEW v \in Revisions
    PROVE  RevParse(v) \in Commits \cup {None}
<1>1. World
  BY DEF Inv
<1>2. v.is \in {"HEAD", "name", "commit"}
  BY DEF Revisions, HeadRevision
<1>3. CASE v.is = "HEAD"
  BY <1>1, <1>3, Numbers DEF RevParse, HEAD, Tip, World
<1>4. CASE v.is = "name"
  <2>1. v.name \in Names
    BY <1>4 DEF Revisions, HeadRevision
  <2>2. Tip(v.name) \in Commits \cup {None}
    BY <1>1, <2>1, Numbers DEF Tip, World
  <2>3. v.name \in TagsThere => ref[Tag(v.name)] \in Commits \cup {None}
    BY <1>1 DEF TagsThere, World
  <2>4. QED
    BY <1>4, <2>2, <2>3 DEF RevParse
<1>5. CASE v.is = "commit"
  <2>1. RevParse(v) = v.commit
    BY <1>5 DEF RevParse
  <2>2. \/ \E r \in RefNames : ref[r] # None /\ v.commit = ref[r]
        \/ v.commit = {1} /\ \E r \in RefNames : ref[r] # None /\ 1 \in ref[r]
    BY <1>5 DEF Revisions, HeadRevision
  <2>3. \A r \in RefNames : ref[r] # None /\ 1 \in ref[r] => {1} \in Commits
    BY <1>1 DEF World, Commits
  <2>4. QED
    BY <1>1, <2>1, <2>2, <2>3 DEF World
<1>6. QED
  BY <1>2, <1>3, <1>4, <1>5

LEMMA CreateBranchKeeps ==
    ASSUME Inv, NEW p \in Procs, NEW n \in Names, NEW v \in Revisions,
           CreateBranch(p, n, RevParse(v))
    PROVE  Inv'
<1>1. /\ there /\ Sets(p, Branch(n), RevParse(v), Idle) /\ UNCHANGED last
      /\ requests < MaxRequests[scene] /\ requests' = requests + 1
  BY DEF CreateBranch, StartsAndEnds
<1>2. last' \in 0..MaxChanges
  BY <1>1 DEF Inv, World
<1>3. RevParse(v) \in Commits \cup {None} /\ Branch(n) \in RefNames
  BY RevisionTyped, Numbers
<1>4. QED
  BY <1>1, <1>2, <1>3, MoreRequests, IdleFine, SetsKeeps

LEMMA DeleteBranchKeeps ==
    ASSUME Inv, NEW p \in Procs, NEW n \in Names, DeleteBranch(p, n) PROVE Inv'
<1>1. /\ there /\ Sets(p, Branch(n), None, Idle) /\ UNCHANGED last
      /\ requests < MaxRequests[scene] /\ requests' = requests + 1
  BY DEF DeleteBranch, StartsAndEnds
<1>2. last' \in 0..MaxChanges
  BY <1>1 DEF Inv, World
<1>3. QED
  BY <1>1, <1>2, MoreRequests, Numbers, IdleFine, SetsKeeps

LEMMA SetDefaultKeeps ==
    ASSUME Inv, NEW p \in Procs, NEW n \in Names, SetDefaultBranch(p, n) PROVE Inv'
<1>1. /\ SymbolicRef(p, n, Idle)
      /\ requests < MaxRequests[scene] /\ requests' = requests + 1
  BY DEF SetDefaultBranch, StartsAndEnds
<1>2. QED
  BY <1>1, MoreRequests, IdleFine, SymbolicKeeps


\* A merge adds to the branch, and one change at most to the repository.
LEMMA MergedTyped ==
    ASSUME NEW base \in Commits, NEW tip \in Commits, NEW squash \in BOOLEAN,
           last \in 0..MaxChanges, Merged(base, tip, squash) # None,
           Merged(base, tip, squash) # tip => last < MaxChanges
    PROVE  /\ Merged(base, tip, squash) \in Commits
           /\ base \subseteq Merged(base, tip, squash)
<1> DEFINE new == Merged(base, tip, squash)
<1>1. CASE base \subseteq tip
  BY <1>1 DEF Merged
<1>2. CASE ~(base \subseteq tip)
  <2>1. new \in {base \cup {last + 1}, base \cup tip \cup {last + 1}}
    BY <1>2 DEF Merged
  <2>2. base \subseteq new
    BY <2>1
  <2>3. last < MaxChanges
    BY <1>2, <2>2
  <2>4. last + 1 \in 1..MaxChanges
    BY <2>3, Numbers
  <2>5. QED
    BY <2>1, <2>2, <2>4 DEF Commits
<1>3. QED
  BY <1>1, <1>2

LEMMA MergeBranchesKeeps ==
    ASSUME Inv, NEW p \in Procs, NEW base \in Names, NEW tip \in Names,
           NEW squash \in BOOLEAN, MergeBranches(p, base, tip, squash)
    PROVE  Inv'
<1> DEFINE new == Merged(Tip(base), Tip(tip), squash)
           c == [Idle EXCEPT !.pc = "merge", !.via = "grpc", !.ref = Branch(base),
                             !.old = Tip(base), !.new = new]
<1>1. /\ base \in Branches /\ tip \in Branches /\ new # None
      /\ new # Tip(tip) => last < MaxChanges
      /\ last' = IF new = Tip(tip) THEN last ELSE last + 1
      /\ call' = [call EXCEPT ![p] = c]
      /\ requests < MaxRequests[scene] /\ requests' = requests + 1
      /\ UNCHANGED <<there, ref, head, hooks, lastHook, records, scene>>
  BY DEF MergeBranches, hookTables
<1>2. Tip(base) \in Commits /\ Tip(tip) \in Commits /\ Branch(base) \in RefNames
  BY <1>1, TipTyped
<1>3. World
  BY InvFacts
<1>4. new \in Commits /\ Tip(base) \subseteq new
  BY <1>1, <1>2, <1>3, MergedTyped DEF World
<1>5. last' \in 0..MaxChanges
  BY <1>1, <1>3, Numbers DEF World
<1>6. World'
  BY <1>1, <1>3, <1>5, MoreRequests DEF World, NoRefs, UrlsDiffer
<1>7. /\ c.todo = {} /\ c.pc = "merge" /\ c.ref = Branch(base) /\ c.old = Tip(base)
      /\ c.new = new
  BY DEF Idle
<1>8. c \in Call
  <2>1. Idle \in Call /\ "merge" \in PCs
    BY IdleFine DEF PCs
  <2>2. c = [[Idle EXCEPT !.pc = "merge", !.via = "grpc"]
                 EXCEPT !.ref = Branch(base), !.old = Tip(base), !.new = new]
    OBVIOUS
  <2>3. [Idle EXCEPT !.pc = "merge", !.via = "grpc"] \in Call
    BY <2>1 DEF Call
  <2> HIDE DEF new
  <2>4. QED
    BY <1>2, <1>4, <2>2, <2>3 DEF Call
<1> HIDE DEF c, new
<1>9. Stage(c) = "merge"
  BY <1>7 DEF Stage, Sending
<1>10. Fine(c)
  BY <1>2, <1>4, <1>7, <1>8, <1>9 DEF Fine, Shape, Read, Pushing, Sending
<1>11. Sees(c, ref, head, hooks, lastHook) /\ Told(c, hooks, records')
  BY <1>7, <1>9 DEF Sees, Told, Said, Pushing, Tip
<1>12. QED
  BY <1>1, <1>6, <1>10, <1>11, EditKeeps

LEMMA MergeLandsKeeps == ASSUME Inv, NEW p \in Procs, MergeLands(p) PROVE Inv'
<1>1. /\ UNCHANGED <<requests, last>>
      /\ (there /\ Sets(p, call[p].ref, call[p].new, Idle)) \/ Step(p, Idle)
      /\ call[p].ref \in RefNames /\ call[p].new \in Commits
  BY InvFacts DEF MergeLands, At, Shape
<1>2. last' \in 0..MaxChanges /\ requests' \in 0..MaxRequests[scene]
  BY <1>1, InvFacts DEF World
<1>3. QED
  BY <1>1, <1>2, IdleFine, SetsKeeps, StepKeeps

-----------------------------------------------------------------------------
(* Hooks                                                                   *)

\* One transaction leaves a table of hooks.
LEMMA WritesKeeps ==
    ASSUME Inv, NEW p \in Procs, NEW t, NEW c, Writes(p, t, c), Fine(c),
           t \in [HookIds -> HookRow \cup {None}], lastHook' \in 0..MaxHookId,
           \A h \in HookIds : t[h] # None => h <= lastHook', UrlsDiffer(t),
           records' \in [HookIds -> SUBSET Notices],
           requests' \in 0..MaxRequests[scene],
           t # hooks \/ UNCHANGED <<lastHook, records>>,
           \A b, r : Sees(c, r, b, t, lastHook'), \A d : Told(c, t, d)
    PROVE  Inv'
<1>1. /\ hooks' = t /\ UNCHANGED <<there, ref, head, last, scene>>
      /\ IF t = hooks THEN call' = [call EXCEPT ![p] = c] ELSE Overtakes(p, c, FALSE)
  BY DEF Writes, repo
<1>2. World'
  BY <1>1 DEF Inv, World, NoRefs, UrlsDiffer
<1>3. CASE t = hooks
  BY <1>1, <1>2, <1>3, EditKeeps
<1>4. CASE t # hooks
  BY <1>1, <1>2, <1>4, OvertakeKeeps
<1>5. QED
  BY <1>3, <1>4

\* A place at which a call for a hook waits for nothing else.
LEMMA HookCall ==
    ASSUME NEW h \in HookIds, NEW place \in {"created", "updated"},
           NEW c, c = [Idle EXCEPT !.pc = place, !.hook = h], NEW t, NEW m,
           place = "created" => h = m /\ t[h] # None
    PROVE  /\ Fine(c) /\ \A r, b : Sees(c, r, b, t, m)
           /\ \A d : Told(c, t, d)
<1>1. c \in Call
  <2>1. Idle \in Call /\ place \in PCs /\ h \in 0..MaxHookId
    BY IdleFine, Numbers DEF PCs, HookIds
  <2>2. QED
    BY <2>1 DEF Call
<1>2. c.pc = place /\ c.todo = {} /\ c.hook = h
  BY DEF Idle
<1>3. Stage(c) = place
  BY <1>2 DEF Stage, Sending
<1>4. Shape(c) /\ Read(c)
  BY <1>2, <1>3 DEF Shape, Read, Pushing, Sending
<1>5. (\A r, b : Sees(c, r, b, t, m)) /\ \A d : Told(c, t, d)
  BY <1>2, <1>3 DEF Sees, Told, Said, Pushing
<1>6. QED
  BY <1>1, <1>4, <1>5 DEF Fine

LEMMA CreateWebhookKeeps ==
    ASSUME Inv, NEW p \in Procs, NEW row \in HookRows, NEW c,
           c = Idle \/ c = [Idle EXCEPT !.pc = "created", !.hook = lastHook + 1],
           CreateWebhook(p, row, c)
    PROVE  Inv'
<1>1. /\ requests < MaxRequests[scene] /\ requests' = requests + 1
      /\ lastHook < MaxHookId
  BY DEF CreateWebhook, StartsAndEnds
<1>2. World /\ requests' \in 0..MaxRequests[scene]
  BY <1>1, InvFacts, MoreRequests
<1>3. CASE UrlTaken(row.url, 0)
  <2>1. Writes(p, hooks, Idle) /\ UNCHANGED <<lastHook, records>>
    BY <1>3 DEF CreateWebhook
  <2>2. QED
    BY <1>2, <2>1, IdleFine, WritesKeeps DEF World
<1>4. CASE ~UrlTaken(row.url, 0)
  <2> DEFINE h == lastHook + 1
             t == [hooks EXCEPT ![h] = row]
  <2>1. Writes(p, t, c) /\ lastHook' = h /\ UNCHANGED records
    BY <1>4 DEF CreateWebhook
  <2>2. h \in HookIds /\ h \in Nat /\ row \in HookRow /\ row # None
    BY <1>1, <1>2, Numbers, HooksAssumption, NoneAssumption DEF World, HookIds
  <2>3. /\ t \in [HookIds -> HookRow \cup {None}] /\ t[h] = row
        /\ \A i \in HookIds : i # h => t[i] = hooks[i]
    BY <1>2, <2>2 DEF World
  <2>4. hooks[h] = None
    BY <1>2, <2>2, Numbers DEF World
  <2>5. t # hooks
    BY <2>2, <2>3, <2>4
  <2>6. lastHook' \in 0..MaxHookId /\ \A i \in HookIds : t[i] # None => i <= lastHook'
    BY <1>1, <1>2, <2>1, <2>3, Numbers DEF World, HookIds
  <2>7. UrlsDiffer(t)
    <3>1. \A i \in HookIds : i # h /\ t[i] # None => t[i].url # row.url
      BY <1>4, <2>3, Numbers DEF UrlTaken, HookIds
    <3>2. QED
      BY <1>2, <2>3, <3>1 DEF UrlsDiffer, World
  <2> HIDE DEF t, h
  <2>8. Fine(c) /\ (\A b, r : Sees(c, r, b, t, h)) /\ \A d : Told(c, t, d)
    <3>1. CASE c = Idle
      BY <3>1, IdleFine
    <3>2. CASE c = [Idle EXCEPT !.pc = "created", !.hook = h]
      BY <2>2, <2>3, <3>2, HookCall
    <3>3. QED
      BY <3>1, <3>2 DEF h
  <2>9. records' \in [HookIds -> SUBSET Notices]
    BY <1>2, <2>1 DEF World
  <2>10. QED
    BY <1>2, <2>1, <2>3, <2>5, <2>6, <2>7, <2>8, <2>9, WritesKeeps
<1>5. QED
  BY <1>3, <1>4

LEMMA DeleteWebhookKeeps ==
    ASSUME Inv, NEW p \in Procs, NEW h \in HookIds, hooks[h] # None, DeleteWebhook(p, h)
    PROVE  Inv'
<1> DEFINE t == [hooks EXCEPT ![h] = None]
<1>1. /\ Writes(p, t, Idle) /\ records' = [records EXCEPT ![h] = {}] /\ UNCHANGED lastHook
      /\ requests < MaxRequests[scene] /\ requests' = requests + 1
  BY DEF DeleteWebhook, StartsAndEnds
<1>2. World /\ requests' \in 0..MaxRequests[scene]
  BY <1>1, InvFacts, MoreRequests
<1>3. /\ t \in [HookIds -> HookRow \cup {None}] /\ t # hooks
      /\ \A i \in HookIds : t[i] # None => t[i] = hooks[i] /\ hooks[i] # None
  BY <1>2 DEF World
<1>4. UrlsDiffer(t) /\ \A i \in HookIds : t[i] # None => i <= lastHook'
  BY <1>1, <1>2, <1>3 DEF World, UrlsDiffer
<1>5. records' \in [HookIds -> SUBSET Notices] /\ lastHook' \in 0..MaxHookId
  BY <1>1, <1>2 DEF World
<1> HIDE DEF t
<1>6. QED
  BY <1>1, <1>2, <1>3, <1>4, <1>5, IdleFine, WritesKeeps


\* What an update will write is a row.
LEMMA AskedRow ==
    ASSUME NEW old \in HookRow, NEW url \in Urls \cup {None},
           NEW active \in BOOLEAN \cup {None}, NEW events \in SUBSET Events
    PROVE  [url |-> IF url = None THEN old.url ELSE url,
            form |-> old.form,
            active |-> IF active = None THEN old.active ELSE active,
            events |-> IF events = {} THEN old.events ELSE events] \in HookRow
<1>1. /\ old.url \in Urls /\ old.form \in BOOLEAN /\ old.active \in BOOLEAN
      /\ old.events \in SUBSET Events
  BY DEF HookRow
<1>2. (IF active = None THEN old.active ELSE active) \in BOOLEAN
  BY <1>1
<1>3. QED
  BY <1>1, <1>2 DEF HookRow

LEMMA WebhookKeeps ==
    ASSUME Inv, NEW p \in Procs, NEW h \in HookIds, NEW url \in Urls \cup {None},
           NEW active \in BOOLEAN \cup {None}, NEW events \in SUBSET Events,
           NEW via \in {"ssh", "grpc"}, Webhook(p, h, url, active, events, via)
    PROVE  Inv'
<1> DEFINE old == hooks[h]
           row == [url |-> IF url = None THEN old.url ELSE url,
                   form |-> old.form,
                   active |-> IF active = None THEN old.active ELSE active,
                   events |-> IF events = {} THEN old.events ELSE events]
           c == [Idle EXCEPT !.pc = "update", !.hook = h, !.via = via, !.row = row]
<1>1. Starts(p, c) /\ old \in HookRow
  BY InvFacts DEF Webhook, World
<1>2. row \in HookRow
  BY <1>1, AskedRow
<1> HIDE DEF row
<1>3. /\ Idle \in Call /\ "update" \in PCs /\ h \in 0..MaxHookId
      /\ via \in {"none", "ssh", "http", "grpc"}
  BY IdleFine, Numbers DEF PCs, HookIds
<1>4. c \in Call
  BY <1>2, <1>3 DEF Call
<1>5. c.pc = "update" /\ c.todo = {} /\ c.hook = h /\ c.row = row
  BY DEF Idle
<1> HIDE DEF c
<1>6. Stage(c) = "update"
  BY <1>5 DEF Stage, Sending
<1>7. Fine(c)
  BY <1>2, <1>4, <1>5, <1>6 DEF Fine, Shape, Read, Pushing, Sending
<1>8. Sees(c, ref, head, hooks, lastHook) /\ Told(c, hooks, records)
  BY <1>5, <1>6 DEF Sees, Told, Said, Pushing
<1>9. QED
  BY <1>1, <1>7, <1>8, StartsKeeps

LEMMA UpdateCommandKeeps ==
    ASSUME Inv, NEW p \in Procs, NEW h \in HookIds, NEW row \in HookRows,
           webhookUpdateCommand(p, h, row) \/ GrpcUpdateWebhook(p, h, row)
    PROVE  Inv'
<1>1. row.url \in Urls /\ row.active \in BOOLEAN /\ row.events \in SUBSET Events
  BY HooksAssumption DEF HookRow
<1>2. PICK url \in Urls \cup {None}, active \in BOOLEAN \cup {None},
           events \in SUBSET Events, via \in {"ssh", "grpc"} :
         Webhook(p, h, url, active, events, via)
  BY <1>1 DEF webhookUpdateCommand, GrpcUpdateWebhook
<1>3. QED
  BY <1>2, WebhookKeeps

\* What UpdateWebhook writes, when it writes anything: what was asked.
LEMMA UpdatedFully ==
    ASSUME NEW current, NEW asked, UpdatedEvents(current, asked) # None
    PROVE  UpdatedEvents(current, asked) = asked /\ current # {}
  BY DEF UpdatedEvents, DeleteWebhookEventsByID

LEMMA UpdateWrites ==
    ASSUME Inv, NEW p \in Procs, UpdateWebhook(p)
    PROVE  \/ Writes(p, hooks, Idle)
           \/ LET c == call[p] IN
              /\ hooks[c.hook] # None /\ ~UrlTaken(c.row.url, c.hook)
              /\ \E e \in {Idle, [Idle EXCEPT !.pc = "updated", !.hook = c.hook]} :
                    Writes(p, [hooks EXCEPT ![c.hook] = c.row], e)
<1> DEFINE c == call[p]
           current == IF hooks[c.hook] = None THEN {} ELSE hooks[c.hook].events
           events == UpdatedEvents(current, c.row.events)
<1>1. c.row \in HookRow
  BY InvFacts DEF UpdateWebhook, At, Shape
<1>2. CASE UrlTaken(c.row.url, c.hook) \/ events = None
  BY <1>2 DEF UpdateWebhook
<1>3. CASE ~(UrlTaken(c.row.url, c.hook) \/ events = None)
  <2>1. events = c.row.events /\ hooks[c.hook] # None
    BY <1>3, UpdatedFully
  <2> DEFINE written == [c.row EXCEPT !.events = events]
             e == IF c.via = "grpc" THEN [Idle EXCEPT !.pc = "updated", !.hook = c.hook]
                  ELSE Idle
  <2>2. written = c.row
    BY <1>1, <2>1 DEF HookRow
  <2>3. Writes(p, [hooks EXCEPT ![c.hook] = written], e)
    BY <1>3 DEF UpdateWebhook
  <2>4. Writes(p, [hooks EXCEPT ![c.hook] = c.row], e)
    BY <2>2, <2>3
  <2>5. QED
    BY <1>3, <2>1, <2>4
<1>4. QED
  BY <1>2, <1>3

LEMMA UpdateWebhookKeeps == ASSUME Inv, NEW p \in Procs, UpdateWebhook(p) PROVE Inv'
<1> DEFINE c == call[p]
           h == c.hook
           t == [hooks EXCEPT ![h] = c.row]
<1>1. UNCHANGED <<lastHook, records, requests>>
  BY DEF UpdateWebhook
<1>2. h \in HookIds /\ c.row \in HookRow /\ World
  BY InvFacts DEF UpdateWebhook, At, Shape
<1>3. CASE Writes(p, hooks, Idle)
  BY <1>1, <1>2, <1>3, IdleFine, WritesKeeps DEF World
<1>4. ASSUME NEW e \in {Idle, [Idle EXCEPT !.pc = "updated", !.hook = h]},
             hooks[h] # None, ~UrlTaken(c.row.url, h), Writes(p, t, e)
      PROVE  Inv'
  <2>1. /\ t \in [HookIds -> HookRow \cup {None}] /\ t[h] = c.row
        /\ \A i \in HookIds : i # h => t[i] = hooks[i]
    BY <1>2 DEF World
  <2>2. \A i \in HookIds : t[i] # None => i <= lastHook'
    BY <1>1, <1>2, <1>4, <2>1 DEF World
  <2>3. UrlsDiffer(t)
    <3>1. \A i \in HookIds : i # h /\ t[i] # None => t[i].url # c.row.url
      BY <1>4, <2>1 DEF UrlTaken
    <3>2. QED
      BY <1>2, <2>1, <3>1 DEF UrlsDiffer, World
  <2> HIDE DEF t, h
  <2>4. Fine(e) /\ (\A b, r : Sees(e, r, b, t, lastHook')) /\ \A d : Told(e, t, d)
    <3>1. CASE e = Idle
      BY <3>1, IdleFine
    <3>2. CASE e = [Idle EXCEPT !.pc = "updated", !.hook = h]
      BY <1>2, <3>2, HookCall
    <3>3. QED
      BY <1>4, <3>1, <3>2
  <2>5. /\ lastHook' \in 0..MaxHookId /\ records' \in [HookIds -> SUBSET Notices]
        /\ requests' \in 0..MaxRequests[scene]
    BY <1>1, <1>2 DEF World
  <2>6. QED
    BY <1>1, <1>4, <2>1, <2>2, <2>3, <2>4, <2>5, WritesKeeps
<1>5. QED
  BY <1>3, <1>4, UpdateWrites

LEMMA RedeliverKeeps ==
    ASSUME Inv, NEW p \in Procs, NEW h \in HookIds,
           webhookDeliveriesRedeliverCommand(p, h)
    PROVE  Inv'
<1>1. PICK notice \in records[h] : RedeliverWebhookDelivery(p, h, notice)
  BY DEF webhookDeliveriesRedeliverCommand
<1> DEFINE c == [Idle EXCEPT !.pc = Sending, !.notice = notice, !.todo = {h}]
<1>2. Starts(p, Idle) \/ Starts(p, c)
  BY <1>1 DEF RedeliverWebhookDelivery
<1>3. notice \in Notices
  BY InvFacts DEF World
<1>4. Idle \in Call /\ Sending \in PCs /\ {h} \in SUBSET HookIds
  BY IdleFine DEF PCs
<1>5. c \in Call
  BY <1>3, <1>4 DEF Call
<1>6. c.pc = Sending /\ c.todo = {h} /\ c.notice = notice /\ c.next = "idle"
  BY DEF Idle
<1> HIDE DEF c
<1>7. Stage(c) = "idle"
  BY <1>6 DEF Stage
<1>8. Fine(c)
  BY <1>3, <1>5, <1>6, <1>7 DEF Fine, Shape, Read, Pushing, Sending
<1>9. Sees(c, ref, head, hooks, lastHook) /\ Told(c, hooks, records)
  BY <1>6, <1>7 DEF Sees, Told, Said, Pushing, Sending
<1>10. QED
  BY <1>2, <1>8, <1>9, IdleFine, StartsKeeps

-----------------------------------------------------------------------------
(* Histories                                                               *)

LEMMA NewerFinite ==
    ASSUME NEW c \in SUBSET (1..MaxChanges), NEW x
    PROVE  /\ IsFiniteSet(c) /\ Cardinality(c) \in Nat
           /\ IsFiniteSet(Newer(c, x)) /\ Cardinality(Newer(c, x)) \in Nat
<1>1. IsFiniteSet(1..MaxChanges)
  BY Numbers, FS_Interval
<1>2. IsFiniteSet(c)
  BY <1>1, FS_Subset
<1>3. Newer(c, x) \subseteq c
  BY DEF Newer
<1>4. IsFiniteSet(Newer(c, x))
  BY <1>2, <1>3, FS_Subset
<1>5. QED
  BY <1>2, <1>4, FS_CardinalityType

\* A history that grows keeps what is newer than a change.
LEMMA NewerGrows ==
    ASSUME NEW c \in SUBSET (1..MaxChanges), NEW d \in SUBSET (1..MaxChanges),
           c \subseteq d, NEW x
    PROVE  Cardinality(Newer(c, x)) <= Cardinality(Newer(d, x))
<1>1. Newer(c, x) \subseteq Newer(d, x)
  BY DEF Newer
<1>2. QED
  BY <1>1, NewerFinite, FS_Subset

LEMMA LogStartsKeeps ==
    ASSUME Inv, NEW p \in Procs, NEW n \in Names, LogStarts(p, n) PROVE Inv'
<1> DEFINE c == [Idle EXCEPT !.pc = "log", !.ref = Branch(n), !.old = Tip(n),
                             !.new = Tip(n), !.page = 1]
<1>1. Starts(p, c) /\ n \in Branches
  BY DEF LogStarts
<1>2. Tip(n) \in Commits /\ Branch(n) \in RefNames
  BY <1>1, TipTyped
<1>3. /\ c.todo = {} /\ c.pc = "log" /\ c.ref = Branch(n) /\ c.old = Tip(n)
      /\ c.new = Tip(n) /\ c.page = 1
  BY DEF Idle
<1>4. c \in Call
  <2>1. Idle \in Call /\ "log" \in PCs
    BY IdleFine DEF PCs
  <2>2. c = [[Idle EXCEPT !.pc = "log", !.page = 1]
                 EXCEPT !.ref = Branch(n), !.old = Tip(n), !.new = Tip(n)]
    OBVIOUS
  <2>3. [Idle EXCEPT !.pc = "log", !.page = 1] \in Call
    BY <2>1 DEF Call
  <2>4. QED
    BY <1>2, <2>2, <2>3 DEF Call
<1> HIDE DEF c
<1>5. Stage(c) = "log"
  BY <1>3 DEF Stage, Sending
<1>6. Shape(c)
  BY <1>2, <1>3, <1>5 DEF Shape, Pushing, Sending
<1>7. Read(c)
  <2>1. ASSUME NEW x
        PROVE  Cardinality(Newer(c.new, x)) >= (c.page - 1) * PageSize
    <3>1. Cardinality(Newer(c.new, x)) \in Nat
      BY <1>2, <1>3, NewerFinite DEF Commits
    <3>2. (c.page - 1) * PageSize = 0
      BY <1>3, Numbers
    <3>3. QED
      BY <3>1, <3>2
  <2>2. QED
    BY <1>3, <2>1 DEF Read
<1>8. Sees(c, ref, head, hooks, lastHook) /\ Told(c, hooks, records)
  BY <1>3, <1>5 DEF Sees, Told, Said, Pushing
<1>9. QED
  BY <1>1, <1>4, <1>6, <1>7, <1>8, StartsKeeps DEF Fine


LEMMA ShortNameTyped ==
    ASSUME Inv, NEW n \in Names
    PROVE  ShortName(n) \in Commits \cup {None}
  BY InvFacts, Numbers DEF Inv, World, ShortName, Tip, TagsThere

\* What is read of a page, and what there is more of.
LEMMA PageRead ==
    ASSUME Inv, NEW n \in Names, NEW page \in Nat,
           NEW got, got = ListCommits(NameRevision(n), page, PageSize)
    PROVE  /\ ShortName(n) # None =>
                 /\ got.commits = CommitsByPage(ShortName(n), page, PageSize)
                 /\ got.hasMore =
                       (Cardinality(CommitsByPage(ShortName(n), page, PageSize))
                           = PageSize)
           /\ ShortName(n) = None => got = None
<1>1. ListedFrom(NameRevision(n)) = ShortName(n)
  BY DEF ListedFrom, NameRevision
<1>2. QED
  BY <1>1, ShortNameTyped DEF ListCommits

\* Who has read one more page of a history that grew has seen what is not
\* behind that page.
LEMMA PageCounts ==
    ASSUME NEW c \in Call, Read(c), c.pc = "log", c.grown, NEW now \in Commits,
           c.new \in Commits, c.new \subseteq now, c.page >= 1,
           NEW x \in c.old \ c.seen,
           x \notin CommitsByPage(now, c.page, PageSize)
    PROVE  x \in now /\ Cardinality(Newer(now, x)) >= c.page * PageSize
<1> DEFINE a == (c.page - 1) * PageSize
           b == c.page * PageSize
           k == Cardinality(Newer(c.new, x))
           m == Cardinality(Newer(now, x))
<1>1. c.new \in SUBSET (1..MaxChanges) /\ now \in SUBSET (1..MaxChanges)
  BY DEF Commits
<1>2. k \in Nat /\ m \in Nat /\ k <= m
  BY <1>1, NewerFinite, NewerGrows
<1>3. x \in now /\ k >= a
  BY DEF Read
<1>4. ~(a <= m /\ m < b)
  BY <1>3 DEF CommitsByPage, Newer
<1>5. a \in Int /\ b \in Int
  BY Numbers DEF Call
<1> HIDE DEF a, b, k, m
<1>6. m >= b
  BY <1>2, <1>3, <1>4, <1>5
<1>7. QED
  BY <1>3, <1>6 DEF m, b

LEMMA LogPageKeeps == ASSUME Inv, NEW p \in Procs, LogPage(p) PROVE Inv'
<1> DEFINE c == call[p]
           now == ShortName(c.ref[2])
           got == ListCommits(NameRevision(c.ref[2]), c.page, PageSize)
           page == CommitsByPage(now, c.page, PageSize)
           e == [c EXCEPT !.page = @ + 1, !.seen = @ \cup page, !.new = now,
                          !.grown = @ /\ c.new \subseteq now]
<1>1. /\ c \in Call /\ Shape(c) /\ Read(c) /\ c.pc = "log" /\ UNCHANGED requests
      /\ c.old \in Commits /\ c.new \in Commits /\ c.page >= 1 /\ c.todo = {}
      /\ c.page \in Nat
  BY InvFacts DEF LogPage, At, Shape, Call, Sending
<1>2. PICK n \in Names : c.ref = Branch(n)
  BY <1>1 DEF Shape
<1>3. c.ref[2] = n
  BY <1>2 DEF Branch
<1>4. /\ ShortName(n) # None => ShortName(n) \in Commits
      /\ got # None => /\ now \in Commits
                       /\ got.commits = page
  BY <1>1, <1>3, PageRead, ShortNameTyped
<1>5. Step(p, Idle) \/ (now \in Commits /\ Step(p, e))
  BY <1>4 DEF LogPage
<1>6. ASSUME now \in Commits
      PROVE  /\ Fine(e) /\ Sees(e, ref, head, hooks, lastHook)
             /\ Told(e, hooks, records)
  <2>1. PICK g \in BOOLEAN : g = (c.grown /\ c.new \subseteq now)
    OBVIOUS
  <2>2. page \subseteq 1..MaxChanges
    BY <1>6 DEF CommitsByPage, Commits
  <2>3. e = [c EXCEPT !.page = @ + 1, !.seen = @ \cup page, !.new = now, !.grown = g]
    BY <1>1, <2>1 DEF Call
  <2> HIDE DEF page, now, e
  <2>4. /\ e \in Call /\ e.page = c.page + 1 /\ e.seen = c.seen \cup page
        /\ e.new = now /\ e.grown = g /\ e.pc = "log" /\ e.ref = c.ref
        /\ e.old = c.old /\ e.todo = {} /\ e.quiet = c.quiet
    <3>1. c.page + 1 \in Nat
      BY <1>1
    <3>2. QED
      BY <1>1, <1>6, <2>2, <2>3, <3>1 DEF Call
  <2>5. Stage(e) = "log"
    BY <2>4 DEF Stage, Sending
  <2>6. Shape(e)
    BY <1>1, <1>2, <1>6, <2>4, <2>5 DEF Shape, Pushing, Sending
  <2>7. ASSUME g
        PROVE  /\ c.old \subseteq now
               /\ \A x \in c.old \ e.seen :
                     Cardinality(Newer(now, x)) >= (e.page - 1) * PageSize
    <3>1. c.grown /\ c.new \subseteq now /\ c.old \subseteq now
      BY <1>1, <2>1, <2>7 DEF Read
    <3>2. e.page - 1 = c.page
      BY <1>1, <2>4
    <3>3. ASSUME NEW x \in c.old \ c.seen, x \notin page
          PROVE  Cardinality(Newer(now, x)) >= c.page * PageSize
      BY <1>1, <1>6, <3>1, <3>3, PageCounts DEF page
    <3>4. QED
      BY <2>4, <3>1, <3>2, <3>3
  <2>8. Read(e)
    BY <2>4, <2>7 DEF Read
  <2>9. Sees(e, ref, head, hooks, lastHook) /\ Told(e, hooks, records)
    BY <2>4, <2>5 DEF Sees, Told, Said, Pushing
  <2>10. QED
    BY <2>4, <2>6, <2>8, <2>9 DEF Fine
<1> HIDE DEF e, now, c
<1>7. QED
  BY <1>1, <1>5, <1>6, IdleFine, StepKeeps


-----------------------------------------------------------------------------
(* The invariant holds always                                              *)

LEMMA StartWorld == ASSUME Init PROVE World
<1>1. scene \in Scenes /\ ref \in StartRefs[scene] /\ hooks \in StartHooks[scene]
  BY DEF Init
<1>2. ref \in [RefNames -> Commits \cup {None}]
  BY <1>1, ContentAssumption
<1>3. hooks \in [HookIds -> HookRow \cup {None}] /\ UrlsDiffer(hooks)
  BY <1>1, ContentAssumption
<1>4. last \in 0..MaxChanges
  <2> DEFINE all == UNION {ref[r] : r \in {x \in RefNames : ref[x] # None}}
  <2>1. all \in SUBSET (1..MaxChanges)
    BY <1>2 DEF Commits
  <2>2. IsFiniteSet(1..MaxChanges) /\ Cardinality(1..MaxChanges) = MaxChanges
    BY Numbers, FS_Interval
  <2>3. Cardinality(all) \in Nat
    BY <2>1, NewerFinite
  <2>4. Cardinality(all) <= Cardinality(1..MaxChanges)
    <3> HIDE DEF all
    <3>1. QED
      BY <2>1, <2>2, FS_Subset
  <2>5. last = Cardinality(all)
    BY DEF Init
  <2> HIDE DEF all
  <2>6. QED
    BY <2>2, <2>3, <2>4, <2>5, Numbers
<1>5. lastHook \in 0..MaxHookId /\ \A h \in HookIds : hooks[h] # None => h <= lastHook
  <2>1. PICK k \in 0..MaxHookId : {h \in HookIds : hooks[h] # None} = 1..k
    BY <1>1, ContentAssumption
  <2>2. Cardinality(1..k) = k
    BY <2>1, Numbers, FS_Interval
  <2>3. lastHook = k
    BY <2>1, <2>2 DEF Init
  <2>4. \A h \in HookIds : hooks[h] # None => h \in 1..k
    BY <2>1
  <2>5. QED
    BY <2>1, <2>3, <2>4
<1>6. records \in [HookIds -> SUBSET Notices]
  BY DEF Init
<1>7. requests \in 0..MaxRequests[scene]
  BY <1>1, Numbers DEF Init
<1>8. there \in BOOLEAN /\ (~there => ref = NoRefs) /\ head \in Names
  BY Numbers DEF Init
<1>9. QED
  BY <1>1, <1>2, <1>3, <1>4, <1>5, <1>6, <1>7, <1>8 DEF World

LEMMA InitInv == Init => Inv
<1> SUFFICES ASSUME Init PROVE Inv
  OBVIOUS
<1>1. call = [p \in Procs |-> Idle]
  BY DEF Init
<1>2. QED
  BY <1>1, StartWorld, IdleFine DEF Inv

LEMMA PushStepKeeps == ASSUME Inv, NEW p \in Procs, PushStep(p) PROVE Inv'
<1>1. ASSUME NEW via \in {"ssh", "http"}, NEW known \in Askers, PushBegins(p, via, known)
      PROVE  Inv'
  <2>1. known \in BOOLEAN
    BY DEF Askers
  <2>2. QED
    BY <1>1, <2>1, PushBeginsKeeps
<1>2. QED
  BY <1>1, PushCreatesKeeps, ReceiveKeeps, UpdateKeeps, UpdatePushKeeps, NotifyKeeps,
     RefMovesKeeps, GitFailsKeeps, EnsureKeeps, DefaultKeeps, UndoKeeps
  DEF PushStep, ServiceRpc

LEMMA RefStepKeeps == ASSUME Inv, NEW p \in Procs, RefStep(p) PROVE Inv'
<1>1. Askers \subseteq BOOLEAN
  BY DEF Askers
<1>2. CASE \E n \in Names, known \in Askers :
              BranchDefault(p, n, known) \/ BranchDelete(p, n, known)
                 \/ TagDelete(p, n, known)
  BY <1>1, <1>2, BranchDefaultKeeps, BranchDeleteKeeps, TagDeleteKeeps
<1>3. CASE \/ BranchDefaultSet(p) \/ BranchDefaultTold(p)
           \/ RefDeleted(p) \/ RefDeletedTold(p)
  BY <1>3, DefaultSetKeeps, DefaultToldKeeps, RefDeletedKeeps, DeletedToldKeeps
<1>4. CASE \E n \in Names : \/ DeleteBranch(p, n) \/ SetDefaultBranch(p, n)
                            \/ \E v \in Revisions : CreateBranch(p, n, RevParse(v))
  BY <1>4, DeleteBranchKeeps, SetDefaultKeeps, CreateBranchKeeps
<1>5. CASE \E base, tip \in Names, squash \in BOOLEAN :
              MergeBranches(p, base, tip, squash)
  BY <1>5, MergeBranchesKeeps
<1>6. CASE MergeLands(p) \/ LogPage(p) \/ \E n \in Names : LogStarts(p, n)
  BY <1>6, MergeLandsKeeps, LogPageKeeps, LogStartsKeeps
<1>7. QED
  BY <1>2, <1>3, <1>4, <1>5, <1>6 DEF RefStep

LEMMA HookStepKeeps == ASSUME Inv, NEW p \in Procs, HookStep(p) PROVE Inv'
<1>1. CASE SendWebhook(p) \/ AnswerBreaks(p) \/ UpdateWebhook(p)
  BY <1>1, SendWebhookKeeps, AnswerBreaksKeeps, UpdateWebhookKeeps
<1>2. CASE \E row \in HookRows : webhookCreateCommand(p, row) \/ GrpcCreateWebhook(p, row)
  BY <1>2, CreateWebhookKeeps DEF webhookCreateCommand, GrpcCreateWebhook
<1>3. CASE \E h \in HookIds : webhookDeleteCommand(p, h) \/ GrpcDeleteWebhook(p, h)
  BY <1>3, DeleteWebhookKeeps DEF webhookDeleteCommand, GrpcDeleteWebhook
<1>4. CASE \E h \in HookIds : \E row \in HookRows :
              webhookUpdateCommand(p, h, row) \/ GrpcUpdateWebhook(p, h, row)
  BY <1>4, UpdateCommandKeeps
<1>5. CASE \E h \in HookIds : webhookDeliveriesRedeliverCommand(p, h)
  BY <1>5, RedeliverKeeps
<1>6. CASE GrpcCreatedWebhook(p) \/ GrpcUpdatedWebhook(p)
  BY <1>6, EndsKeeps DEF GrpcCreatedWebhook, GrpcUpdatedWebhook
<1>7. QED
  BY <1>1, <1>2, <1>3, <1>4, <1>5, <1>6 DEF HookStep

\* The commands on branches that are played beside hooks are those of RefStep.
LEMMA BesideHooks ==
    ASSUME NEW p \in Procs,
           \/ \E n \in Names, known \in Askers :
                 BranchDelete(p, n, known) \/ BranchDefault(p, n, known)
           \/ RefDeleted(p) \/ RefDeletedTold(p)
           \/ BranchDefaultSet(p) \/ BranchDefaultTold(p)
    PROVE  RefStep(p)
  BY DEF RefStep

LEMMA NextInv == ASSUME Inv, Next PROVE Inv'
<1>1. PICK p \in Procs : PushStep(p) \/ RefStep(p) \/ HookStep(p)
  BY BesideHooks DEF Next
<1>2. QED
  BY <1>1, PushStepKeeps, RefStepKeeps, HookStepKeeps

LEMMA StutterInv == ASSUME Inv, UNCHANGED contentVars PROVE Inv'
<1>1. UNCHANGED <<there, ref, head, last, hooks, lastHook, records, call, requests, scene>>
  BY DEF contentVars
<1>2. World'
  BY <1>1 DEF Inv, World, NoRefs, UrlsDiffer
<1>3. QED
  BY <1>1, <1>2 DEF Inv

LEMMA InvInductive == Spec => []Inv
<1>1. Inv /\ [Next]_contentVars => Inv'
  BY NextInv, StutterInv
<1>2. QED
  BY InitInv, <1>1, PTL DEF Spec

\* The variables have their types, whatever is asked of the repository, by
\* however many requests at once.
THEOREM ContentTypes == Spec => []TypeOK
<1>1. Inv => TypeOK
  <2> SUFFICES ASSUME Inv PROVE TypeOK
    OBVIOUS
  <2>1. \A p \in Procs :
           /\ call[p].pc \in PCs /\ call[p].next \in PCs
           /\ call[p].pc = Sending <=> call[p].todo # {}
           /\ call[p].pc = "idle" => call[p] = Idle
    BY InvFacts DEF Call, Shape
  <2>2. QED
    BY <2>1 DEF Inv, World, TypeOK
<1>2. QED
  BY <1>1, InvInductive, PTL


-----------------------------------------------------------------------------
(* What a step may change                                                  *)

\* One request goes on, and nothing else changes but deliveries and the number
\* of the last change.
Alone(p) ==
    /\ \E c : call' = [call EXCEPT ![p] = c]
    /\ UNCHANGED <<there, ref, head, hooks>>

\* A table of hooks is written.
WritesHooks(p) == \E t, c : Writes(p, t, c)

\* The steps that may change references or HEAD.
ChangesRefs(p) ==
    \/ PushCreates(p) /\ ~there
    \/ RefMoves(p) \/ Undo(p) \/ DefaultBranchSet(p)
    \/ RefDeleted(p) \/ BranchDefaultSet(p) \/ MergeLands(p)
    \/ \E n \in Names : \/ DeleteBranch(p, n) \/ SetDefaultBranch(p, n)
                        \/ \E v \in Revisions : CreateBranch(p, n, RevParse(v))

AnyStep(p) == PushStep(p) \/ RefStep(p) \/ HookStep(p)

LEMMA NextSteps == ASSUME Next PROVE \E p \in Procs : AnyStep(p)
  BY BesideHooks DEF Next, AnyStep

LEMMA StepAlone == ASSUME NEW p \in Procs, NEW c, Step(p, c) PROVE Alone(p)
  BY DEF Step, Alone, repo, hookTables

LEMMA StartsAlone == ASSUME NEW p \in Procs, NEW c, Starts(p, c) PROVE Alone(p)
  BY StepAlone DEF Starts

LEMMA PushSorts ==
    ASSUME NEW p \in Procs, PushStep(p) PROVE Alone(p) \/ ChangesRefs(p)
<1>1. CASE \E via \in {"ssh", "http"}, known \in Askers : PushBegins(p, via, known)
  BY <1>1, StartsAlone DEF PushBegins
<1>2. CASE PushCreates(p)
  BY <1>2, StepAlone DEF PushCreates, ChangesRefs
<1>3. CASE \E r \in RefNames : Receive(p, r)
  BY <1>3 DEF Receive, Alone, hookTables
<1>4. CASE Update(p) \/ UpdatePush(p) \/ notifyGytBackend(p)
  BY <1>4, StepAlone DEF Update, UpdatePush, notifyGytBackend
<1>5. CASE GitFails(p)
  BY <1>5, StepAlone DEF GitFails, GoesOn, Ends
<1>6. CASE EnsureDefaultBranch(p)
  BY <1>6, StepAlone DEF EnsureDefaultBranch, Ends
<1>7. CASE RefMoves(p) \/ Undo(p) \/ DefaultBranchSet(p)
  BY <1>7 DEF ChangesRefs
<1>8. QED
  BY <1>1, <1>2, <1>3, <1>4, <1>5, <1>6, <1>7 DEF PushStep, ServiceRpc

LEMMA RefSorts ==
    ASSUME NEW p \in Procs, RefStep(p) PROVE Alone(p) \/ ChangesRefs(p)
<1>1. CASE \E n \in Names, known \in Askers :
              BranchDefault(p, n, known) \/ BranchDelete(p, n, known)
                 \/ TagDelete(p, n, known)
  BY <1>1, StartsAlone DEF BranchDefault, BranchDelete, TagDelete, Chosen
<1>2. CASE BranchDefaultTold(p) \/ RefDeletedTold(p)
  BY <1>2, StepAlone DEF BranchDefaultTold, RefDeletedTold
<1>3. CASE \E base, tip \in Names, squash \in BOOLEAN :
              MergeBranches(p, base, tip, squash)
  BY <1>3 DEF MergeBranches, Alone, hookTables
<1>4. CASE LogPage(p) \/ \E n \in Names : LogStarts(p, n)
  BY <1>4, StartsAlone, StepAlone DEF LogPage, LogStarts
<1>5. CASE \/ BranchDefaultSet(p) \/ RefDeleted(p) \/ MergeLands(p)
           \/ \E n \in Names : \/ DeleteBranch(p, n) \/ SetDefaultBranch(p, n)
                               \/ \E v \in Revisions : CreateBranch(p, n, RevParse(v))
  BY <1>5 DEF ChangesRefs
<1>6. QED
  BY <1>1, <1>2, <1>3, <1>4, <1>5 DEF RefStep

LEMMA HookSorts ==
    ASSUME NEW p \in Procs, HookStep(p) PROVE Alone(p) \/ WritesHooks(p)
<1>1. CASE SendWebhook(p)
  BY <1>1 DEF SendWebhook, Alone, repo
<1>2. CASE AnswerBreaks(p)
  BY <1>2, StepAlone DEF AnswerBreaks
<1>3. CASE \E row \in HookRows : webhookCreateCommand(p, row) \/ GrpcCreateWebhook(p, row)
  BY <1>3 DEF webhookCreateCommand, GrpcCreateWebhook, CreateWebhook, WritesHooks
<1>4. CASE \E h \in HookIds : webhookDeleteCommand(p, h) \/ GrpcDeleteWebhook(p, h)
  BY <1>4 DEF webhookDeleteCommand, GrpcDeleteWebhook, DeleteWebhook, WritesHooks
<1>5. CASE \E h \in HookIds : \E row \in HookRows :
              webhookUpdateCommand(p, h, row) \/ GrpcUpdateWebhook(p, h, row)
  BY <1>5, StartsAlone DEF webhookUpdateCommand, GrpcUpdateWebhook, Webhook
<1>6. CASE \E h \in HookIds : webhookDeliveriesRedeliverCommand(p, h)
  BY <1>6, StartsAlone DEF webhookDeliveriesRedeliverCommand, RedeliverWebhookDelivery
<1>7. CASE GrpcCreatedWebhook(p) \/ GrpcUpdatedWebhook(p)
  BY <1>7, StepAlone DEF GrpcCreatedWebhook, GrpcUpdatedWebhook, Ends
<1>8. CASE UpdateWebhook(p)
  BY <1>8 DEF UpdateWebhook, WritesHooks
<1>9. QED
  BY <1>1, <1>2, <1>3, <1>4, <1>5, <1>6, <1>7, <1>8 DEF HookStep

LEMMA Sorts ==
    ASSUME NEW p \in Procs, AnyStep(p)
    PROVE  Alone(p) \/ WritesHooks(p) \/ ChangesRefs(p)
  BY PushSorts, RefSorts, HookSorts DEF AnyStep

\* The other requests stay where they are.
LEMMA OthersStay ==
    ASSUME Inv, NEW p \in Procs, AnyStep(p), NEW q \in Procs, q # p
    PROVE  call'[q].pc = call[q].pc
<1>1. (\E c : call' = [call EXCEPT ![p] = c])
         \/ \E c, gone : Overtakes(p, c, gone)
  <2>1. CASE WritesHooks(p)
    BY <2>1 DEF WritesHooks, Writes
  <2>2. CASE ChangesRefs(p)
    BY <2>2 DEF ChangesRefs, PushCreates, CreateRepository, RefMoves, Sets, Step, Undo,
       DeleteRepository, Ends, DefaultBranchSet, SymbolicRef, RefDeleted,
       BranchDefaultSet, MergeLands, DeleteBranch, SetDefaultBranch, CreateBranch
  <2>3. QED
    BY <2>1, <2>2, Sorts DEF Alone
<1>2. call \in [Procs -> Call]
  BY DEF Inv
<1>3. CASE \E c : call' = [call EXCEPT ![p] = c]
  BY <1>2, <1>3
<1>4. CASE \E c, gone : Overtakes(p, c, gone)
  <2>1. PICK c, gone : Overtakes(p, c, gone)
    BY <1>4
  <2>2. CASE call[q] = Idle
    BY <2>1, <2>2 DEF Overtakes, Active
  <2>3. CASE call[q] # Idle
    <3>1. call'[q] = [call[q] EXCEPT !.quiet = FALSE, !.lost = @ \/ gone]
      BY <2>1, <2>3 DEF Overtakes, Active
    <3>2. QED
      BY <1>2, <3>1 DEF Call
  <2>4. QED
    BY <2>2, <2>3
<1>5. QED
  BY <1>1, <1>3, <1>4


\* Where a request is tells what it does next.
LEMMA Places ==
    ASSUME NEW p \in Procs, AnyStep(p)
    PROVE  /\ call[p].pc = "ended" => EnsureDefaultBranch(p)
           /\ call[p].pc = "default" => DefaultBranchSet(p)
           /\ call[p].pc = "ran" => RefMoves(p) \/ GitFails(p)
           /\ call[p].pc = "update" => UpdateWebhook(p)
<1>1. ASSUME PushStep(p), call[p].pc \in {"ended", "default", "ran", "update"}
      PROVE  \/ call[p].pc = "ended" /\ EnsureDefaultBranch(p)
             \/ call[p].pc = "default" /\ DefaultBranchSet(p)
             \/ call[p].pc = "ran" /\ (RefMoves(p) \/ GitFails(p))
  BY <1>1 DEF PushStep, ServiceRpc, At, Starts, PushBegins, PushCreates, Receive, Update,
     UpdatePush, notifyGytBackend, Undo, GitFails, RefMoves, EnsureDefaultBranch,
     DefaultBranchSet
<1>2. ASSUME RefStep(p), call[p].pc \in {"ended", "default", "ran", "update"}
      PROVE  FALSE
  BY <1>2 DEF RefStep, At, Starts, StartsAndEnds, BranchDefault, BranchDelete, TagDelete,
     Chosen, BranchDefaultSet, BranchDefaultTold, RefDeleted, RefDeletedTold,
     DeleteBranch, SetDefaultBranch, CreateBranch, MergeBranches, MergeLands,
     LogStarts, LogPage
<1>3. ASSUME HookStep(p), call[p].pc \in {"ended", "default", "ran", "update"}
      PROVE  call[p].pc = "update" /\ UpdateWebhook(p)
  BY <1>3 DEF HookStep, At, Starts, StartsAndEnds, SendWebhook, AnswerBreaks, Sending,
     webhookCreateCommand, GrpcCreateWebhook, CreateWebhook, webhookDeleteCommand,
     GrpcDeleteWebhook, DeleteWebhook, webhookUpdateCommand, GrpcUpdateWebhook, Webhook,
     webhookDeliveriesRedeliverCommand, RedeliverWebhookDelivery, GrpcCreatedWebhook,
     GrpcUpdatedWebhook, UpdateWebhook
<1>4. QED
  BY <1>1, <1>2, <1>3 DEF AnyStep

\* A commit is in a branch or tag no more after a step of p.
Loses(r) == ref[r] # None /\ (ref'[r] = None \/ ~(ref[r] \subseteq ref'[r]))

LEMMA SetsLose ==
    ASSUME Inv, NEW p \in Procs, NEW s \in RefNames, NEW new, NEW c, Sets(p, s, new, c),
           NEW r \in RefNames, Loses(r)
    PROVE  r = s /\ ref'[r] = new /\ (new = None \/ ~(ref[r] \subseteq new))
  BY DEF Inv, World, Sets, Loses

LEMMA WhoLoses ==
    ASSUME Inv, NEW p \in Procs, AnyStep(p), NEW r \in RefNames, Loses(r)
    PROVE  \/ /\ call[p].ref = r
              /\ \/ call[p].pc \in {"ran", "delete"} /\ call[p].old = ref[r]
                 \/ call[p].pc \in {"delete", "merge"} /\ ~call[p].quiet
           \/ /\ ref'[r] = None /\ HEAD # None /\ ref[r] \subseteq HEAD
              /\ call[p] = Idle /\ call'[p] = Idle
           \/ ~there' /\ call[p].pc = "undo" /\ call[p].made /\ ~call[p].quiet
<1> DEFINE c == call[p]
<1>1. /\ c \in Call /\ Shape(c) /\ Sees(c, ref, head, hooks, lastHook) /\ World
      /\ ref \in [RefNames -> Commits \cup {None}] /\ (~there => ref = NoRefs)
  BY InvFacts DEF World
<1>2. UNCHANGED ref => FALSE
  BY <1>1 DEF Loses
<1>3. there
  BY <1>1 DEF Loses, NoRefs
<1>4. CASE Alone(p) \/ WritesHooks(p)
  BY <1>2, <1>4 DEF Alone, WritesHooks, Writes, repo
<1>5. CASE RefMoves(p)
  <2>1. c.pc = "ran" /\ c.ref \in RefNames
    BY <1>1, <1>5 DEF RefMoves, At, Shape, Pushing, Stage, Sending
  <2>2. CASE ref[c.ref] = c.old
    <3>1. PICK e : Sets(p, c.ref, c.new, e)
      BY <1>5, <2>2 DEF RefMoves
    <3>2. r = c.ref
      BY <2>1, <3>1, SetsLose
    <3>3. QED
      BY <2>1, <2>2, <3>2
  <2>3. CASE ref[c.ref] # c.old
    BY <1>2, <1>5, <2>3 DEF RefMoves, Step, repo
  <2>4. QED
    BY <2>2, <2>3
<1>6. CASE RefDeleted(p)
  <2>1. c.pc = "delete" /\ c.ref \in RefNames
    BY <1>1, <1>6 DEF RefDeleted, At, Shape
  <2>2. (\E e : Sets(p, c.ref, None, e)) \/ UNCHANGED ref
    BY <1>6 DEF RefDeleted, Step, repo
  <2>3. r = c.ref
    BY <1>2, <2>1, <2>2, SetsLose
  <2>4. c.quiet => ref[c.ref] = c.old
    BY <1>1, <2>1 DEF Sees
  <2>5. QED
    BY <2>1, <2>3, <2>4
<1>7. CASE MergeLands(p)
  <2>1. c.pc = "merge" /\ c.ref \in RefNames /\ c.old \in Commits /\ c.new \in Commits
        /\ c.old \subseteq c.new
    BY <1>1, <1>7 DEF MergeLands, At, Shape
  <2>2. Sets(p, c.ref, c.new, Idle) \/ UNCHANGED ref
    BY <1>7 DEF MergeLands, Step, repo
  <2>3. r = c.ref /\ (c.new = None \/ ~(ref[r] \subseteq c.new))
    BY <1>2, <2>1, <2>2, SetsLose
  <2>4. c.new # None
    BY <2>1, NoneAssumption
  <2>5. c.quiet => ref[c.ref] = c.old
    BY <1>1, <2>1 DEF Sees
  <2>6. QED
    BY <2>1, <2>3, <2>4, <2>5
<1>8. CASE \E n \in Names : DeleteBranch(p, n)
  <2>1. PICK n \in Names : DeleteBranch(p, n)
    BY <1>8
  <2>2. Sets(p, Branch(n), None, Idle) /\ HEAD # None /\ Tip(n) \subseteq HEAD
        /\ At(p, "idle")
    BY <2>1 DEF DeleteBranch, StartsAndEnds
  <2>3. r = Branch(n) /\ ref'[r] = None
    BY <2>2, Numbers, SetsLose
  <2>4. call[p] = Idle /\ call'[p] = Idle
    BY <1>1, <2>2 DEF At, Shape, Sets, Overtakes
  <2>5. QED
    BY <2>2, <2>3, <2>4 DEF Tip
<1>9. CASE \E n \in Names, v \in Revisions : CreateBranch(p, n, RevParse(v))
  <2>1. PICK n \in Names, v \in Revisions : CreateBranch(p, n, RevParse(v))
    BY <1>9
  <2>2. Sets(p, Branch(n), RevParse(v), Idle) /\ ref[Branch(n)] = None
    BY <2>1 DEF CreateBranch, Tip
  <2>3. r = Branch(n)
    BY <2>2, Numbers, SetsLose
  <2>4. QED
    BY <2>2, <2>3 DEF Loses
<1>10. CASE Undo(p)
  <2>1. c.pc = "undo" /\ c.made
    BY <1>1, <1>10 DEF Undo, At, Shape
  <2>2. ~there' \/ UNCHANGED ref
    BY <1>10 DEF Undo, DeleteRepository, Ends, Step, repo
  <2>3. c.quiet => \A s \in RefNames : ref[s] = None
    BY <1>1, <2>1 DEF Sees
  <2>4. QED
    BY <1>2, <2>1, <2>2, <2>3 DEF Loses
<1>11. CASE DefaultBranchSet(p) \/ BranchDefaultSet(p) \/ \E n \in Names : SetDefaultBranch(p, n)
  BY <1>2, <1>11 DEF DefaultBranchSet, BranchDefaultSet, SetDefaultBranch, SymbolicRef,
     Step, repo
<1>12. QED
  BY <1>3, <1>4, <1>5, <1>6, <1>7, <1>8, <1>9, <1>10, <1>11, Sorts DEF ChangesRefs

\* A commit that was accepted is lost only to those who are allowed to lose
\* it, however many requests are served at once.
THEOREM PushesStay == Spec => PushesKept
<1> DEFINE Kept ==
       \A r \in RefNames :
         (ref[r] # None /\ (ref'[r] = None \/ ~(ref[r] \subseteq ref'[r])))
         => \/ \E p \in Procs :
                  /\ call[p].ref = r
                  /\ \/ call[p].pc \in {"ran", "delete"} /\ call[p].old = ref[r]
                     \/ call[p].pc \in {"delete", "merge"} /\ ~call[p].quiet
            \/ /\ ref'[r] = None /\ HEAD # None /\ ref[r] \subseteq HEAD
               /\ \E p \in Procs : call[p] = Idle /\ call'[p] = Idle
            \/ /\ ~there'
               /\ \E p \in Procs : /\ call[p].pc = "undo" /\ call[p].made
                                 /\ ~call[p].quiet
<1>1. Inv /\ Next => Kept
  <2> SUFFICES ASSUME Inv, Next, NEW r \in RefNames, Loses(r)
               PROVE  \/ \E p \in Procs :
                           /\ call[p].ref = r
                           /\ \/ /\ call[p].pc \in {"ran", "delete"}
                                 /\ call[p].old = ref[r]
                              \/ call[p].pc \in {"delete", "merge"} /\ ~call[p].quiet
                      \/ /\ ref'[r] = None /\ HEAD # None /\ ref[r] \subseteq HEAD
                         /\ \E p \in Procs : call[p] = Idle /\ call'[p] = Idle
                      \/ /\ ~there'
                         /\ \E p \in Procs : /\ call[p].pc = "undo" /\ call[p].made
                                           /\ ~call[p].quiet
    BY DEF Loses
  <2>1. PICK p \in Procs : AnyStep(p)
    BY NextSteps
  <2>2. QED
    BY <2>1, WhoLoses
<1>2. Inv /\ [Next]_contentVars => [Kept]_contentVars
  BY <1>1
<1>3. QED
  BY <1>2, InvInductive, PTL DEF Spec, PushesKept


-----------------------------------------------------------------------------
(* HEAD                                                                    *)

\* A push that ends with nobody in between leaves HEAD at a branch.
LEMMA EndsWell ==
    ASSUME Inv, NEW p \in Procs, AnyStep(p), call[p].pc \in {"ended", "default"},
           call'[p] = Idle, call[p].quiet, there, Branches # {}
    PROVE  /\ Tip(head)' # None
           /\ head' # head => head' \in Preferred \/ Branches \cap Preferred = {}
<1> DEFINE c == call[p]
<1>1. /\ c \in Call /\ Shape(c) /\ Sees(c, ref, head, hooks, lastHook)
      /\ call \in [Procs -> Call]
  BY InvFacts
<1>2. CASE c.pc = "ended"
  <2>1. PICK n \in DefaultChoices : Step(p, [c EXCEPT !.pc = "default", !.new = n])
    BY <1>2, Places DEF EnsureDefaultBranch
  <2>2. call'[p].pc = "default"
    BY <1>1, <2>1 DEF Step, Call
  <2>3. QED
    BY <2>2 DEF Idle
<1>3. CASE c.pc = "default"
  <2>1. /\ ref[Branch(c.new)] # None
        /\ c.new \in Preferred \/ \A n \in Preferred : ref[Branch(n)] = None
    BY <1>1, <1>3 DEF Sees
  <2>2. DefaultBranchSet(p)
    BY <1>3, Places
  <2>3. CASE HEAD = None
    <3>1. head' = c.new /\ ref' = ref
      BY <2>2, <2>3 DEF DefaultBranchSet, SymbolicRef
    <3>2. QED
      BY <2>1, <3>1 DEF Tip, Branches
  <2>4. CASE HEAD # None
    <3>1. head' = head /\ ref' = ref
      BY <2>2, <2>4 DEF DefaultBranchSet, Step, repo
    <3>2. QED
      BY <2>4, <3>1 DEF Tip, HEAD
  <2>5. QED
    BY <2>3, <2>4
<1>4. QED
  BY <1>2, <1>3

\* Who leaves HEAD dangling.
LEMMA WhoLeaves ==
    ASSUME Inv, NEW p \in Procs, AnyStep(p), HEAD # None, HEAD' = None, there'
    PROVE  \/ call[p] # Idle /\ call'[p] # call[p] /\ ~call[p].quiet
           \/ requests' > requests
<1> DEFINE c == call[p]
<1>1. /\ c \in Call /\ Shape(c) /\ Sees(c, ref, head, hooks, lastHook) /\ World
      /\ ref \in [RefNames -> Commits \cup {None}] /\ (~there => ref = NoRefs)
      /\ head \in Names /\ Branch(head) \in RefNames /\ call \in [Procs -> Call]
      /\ requests \in Nat
  BY InvFacts, Numbers DEF World
<1>2. ~UNCHANGED <<ref, head>>
  BY DEF HEAD, Tip
<1>3. there
  BY <1>1 DEF HEAD, Tip, NoRefs
<1>4. ASSUME NEW s \in RefNames, NEW new, NEW e, Sets(p, s, new, e)
      PROVE  s = Branch(head) /\ new = None /\ call'[p] = e
  BY <1>1, <1>4 DEF Sets, HEAD, Tip, Overtakes
<1>5. CASE Alone(p) \/ WritesHooks(p)
  BY <1>2, <1>5 DEF Alone, WritesHooks, Writes, repo
<1>6. CASE RefMoves(p)
  <2> DEFINE e == [c EXCEPT !.pc = "ended", !.quiet = TRUE]
  <2>1. c.pc = "ran" /\ c.ref \in RefNames /\ Pushing(c) /\ e.pc = "ended"
    BY <1>1, <1>6 DEF RefMoves, At, Shape, Pushing, Stage, Sending, Call
  <2>2. Sets(p, c.ref, c.new, e) \/ UNCHANGED <<ref, head>>
    BY <1>6 DEF RefMoves, Step, repo
  <2>3. c.ref = Branch(head) /\ c.new = None /\ call'[p] = e
    BY <1>2, <1>4, <2>1, <2>2
  <2>4. ~c.quiet
    BY <1>1, <2>1, <2>3 DEF Sees
  <2> HIDE DEF e, c
  <2>5. c # Idle /\ e # c
    BY <2>1 DEF Idle
  <2>6. QED
    BY <2>3, <2>4, <2>5 DEF c
<1>7. CASE RefDeleted(p)
  <2> DEFINE e == [c EXCEPT !.pc = "deleted"]
  <2>1. c.pc = "delete" /\ c.ref \in RefNames /\ e.pc = "deleted"
    BY <1>1, <1>7 DEF RefDeleted, At, Shape, Call
  <2>2. Sets(p, c.ref, None, e) \/ UNCHANGED <<ref, head>>
    BY <1>7 DEF RefDeleted, Step, repo
  <2>3. c.ref = Branch(head) /\ call'[p] = e
    BY <1>2, <1>4, <2>1, <2>2
  <2>4. ~c.quiet
    BY <1>1, <2>1, <2>3 DEF Sees
  <2> HIDE DEF e, c
  <2>5. c # Idle /\ e # c
    BY <2>1 DEF Idle
  <2>6. QED
    BY <2>3, <2>4, <2>5 DEF c
<1>8. CASE BranchDefaultSet(p)
  <2> DEFINE e == [c EXCEPT !.pc = "chosen"]
  <2>1. c.pc = "default2" /\ e.pc = "chosen"
    BY <1>1, <1>8 DEF BranchDefaultSet, At, Call
  <2>2. SymbolicRef(p, c.new, e) \/ UNCHANGED <<ref, head>>
    BY <1>8 DEF BranchDefaultSet, Step, repo
  <2>3. head' = c.new /\ ref' = ref /\ call'[p] = e
    BY <1>2, <2>2 DEF SymbolicRef, Overtakes
  <2>4. ~c.quiet
    BY <1>1, <2>1, <2>3 DEF Sees, HEAD, Tip
  <2> HIDE DEF e, c
  <2>5. c # Idle /\ e # c
    BY <2>1 DEF Idle
  <2>6. QED
    BY <2>3, <2>4, <2>5 DEF c
<1>9. CASE MergeLands(p)
  <2>1. c.ref \in RefNames /\ c.new \in Commits /\ c.new # None
    BY <1>1, <1>9, NoneAssumption DEF MergeLands, At, Shape
  <2>2. Sets(p, c.ref, c.new, Idle) \/ UNCHANGED <<ref, head>>
    BY <1>9 DEF MergeLands, Step, repo
  <2>3. QED
    BY <1>2, <1>4, <2>1, <2>2
<1>10. CASE DefaultBranchSet(p) \/ Undo(p)
  BY <1>2, <1>10 DEF DefaultBranchSet, Undo, DeleteRepository, Ends, Step, repo
<1>11. CASE \E n \in Names : \/ DeleteBranch(p, n) \/ SetDefaultBranch(p, n)
                             \/ \E v \in Revisions : CreateBranch(p, n, RevParse(v))
  <2>1. requests' = requests + 1
    BY <1>11 DEF DeleteBranch, SetDefaultBranch, CreateBranch, StartsAndEnds
  <2>2. QED
    BY <1>1, <2>1
<1>12. QED
  BY <1>3, <1>5, <1>6, <1>7, <1>8, <1>9, <1>10, <1>11, Sorts DEF ChangesRefs

\* HEAD refers to a branch that exists after every push that ended well, and
\* no request that was not overtaken leaves it dangling but the gRPC methods.
THEOREM HeadStays == Spec => HeadStands
<1> DEFINE Ended(p) ==
              /\ call[p].pc \in {"ended", "default"} /\ call'[p] = Idle
              /\ call[p].quiet /\ there /\ Branches # {}
           Stands ==
              /\ \A p \in Procs : Ended(p)
                    => /\ Tip(head)' # None
                       /\ head' # head =>
                             head' \in Preferred \/ Branches \cap Preferred = {}
              /\ (HEAD # None /\ HEAD' = None /\ there')
                    => \/ \E p \in Procs : call[p] # Idle /\ call'[p] # call[p]
                                           /\ ~call[p].quiet
                       \/ requests' > requests
<1>1. ASSUME Inv, Next PROVE Stands
  <2>1. PICK q \in Procs : AnyStep(q)
    BY <1>1, NextSteps
  <2>2. ASSUME NEW p \in Procs, Ended(p)
        PROVE  /\ Tip(head)' # None
               /\ head' # head => head' \in Preferred \/ Branches \cap Preferred = {}
    <3>1. p = q
      BY <1>1, <2>1, <2>2, OthersStay DEF Idle
    <3>2. QED
      BY <1>1, <2>1, <2>2, <3>1, EndsWell
  <2>3. QED
    BY <1>1, <2>1, <2>2, WhoLeaves
<1>2. Inv /\ [Next]_contentVars => [Stands]_contentVars
  BY <1>1
<1>3. QED
  BY <1>2, InvInductive, PTL DEF Spec, HeadStands


-----------------------------------------------------------------------------
(* What is announced, and what is asked of hooks                           *)

\* A push whose events have been sent has said all there is to say.
LEMMA SaidAll ==
    ASSUME NEW c, c.pc = "ran", c.old # None \/ c.new # None
    PROVE  AnnouncedAs(c.old, c.new) \subseteq Said(c)
<1>1. Stage(c) = "ran"
  BY DEF Stage, Sending
<1>2. QED
  BY <1>1 DEF AnnouncedAs, Said, BranchTagEvent, Notice

\* When a push moves a reference all hooks subscribed to what it is have their
\* deliveries already, in however many scenes, hooks and events.
THEOREM AnnouncedBefore == Spec => Announced
<1> DEFINE Moved(p) ==
              /\ call[p].pc = "ran" /\ call'[p].pc = "ended" /\ ref' # ref
              /\ call[p].known /\ call[p].quiet /\ ~call[p].broken
           Recorded(c) ==
              \A h \in HookIds : hooks[h] # None =>
                 \A k \in AnnouncedAs(c.old, c.new) \cap hooks[h].events :
                    Notice(k, c.ref, c.new) \in records[h]
           Before == \A p \in Procs : Moved(p) => Recorded(call[p])
<1>1. ASSUME Inv, NEW p \in Procs, Moved(p) PROVE Recorded(call[p])
  <2> DEFINE c == call[p]
  <2>1. /\ Told(c, hooks, records) /\ c.pc = "ran"
        /\ c.known /\ c.quiet /\ ~c.broken
    BY <1>1, InvFacts
  <2>2. c.old # None \/ c.new # None
    BY <1>1, PushFacts
  <2> HIDE DEF c
  <2>3. AnnouncedAs(c.old, c.new) \subseteq Said(c)
    BY <2>1, <2>2, SaidAll
  <2>4. Recorded(c)
    BY <2>1, <2>3 DEF Told, Sending
  <2>5. QED
    BY <2>4 DEF c
<1>2. Inv => Before
  BY <1>1
<1>3. Inv /\ [Next]_contentVars => [Before]_contentVars
  BY <1>2
<1>4. QED
  BY <1>3, InvInductive, PTL DEF Spec, Announced

\* The hook that was created last is the one CreateWebhook's gRPC method finds.
LEMMA AnsweredLast ==
    ASSUME Inv, NEW p \in Procs, call[p].pc = "created", call[p].quiet
    PROVE  Answered = call[p].hook
<1> DEFINE m == lastHook
<1>1. call[p].hook = m /\ m \in HookIds /\ hooks[m] # None
  BY InvFacts DEF Sees
<1>2. \A h \in HookIds : hooks[h] # None => h <= m
  BY InvFacts DEF World
<1>3. m \in ListWebhooks /\ \A h \in ListWebhooks : h <= m
  BY <1>1, <1>2 DEF ListWebhooks
<1>4. ASSUME NEW h \in ListWebhooks, \A i \in ListWebhooks : i <= h PROVE h = m
  <2>1. h \in Nat /\ m \in Nat
    BY <1>1 DEF ListWebhooks, HookIds
  <2>2. h <= m /\ m <= h
    BY <1>3, <1>4
  <2> HIDE DEF m
  <2>3. QED
    BY <2>1, <2>2
<1>5. QED
  BY <1>1, <1>3, <1>4 DEF Answered

LEMMA UpdatedAsAsked ==
    ASSUME Inv, NEW p \in Procs, AnyStep(p), call[p].pc = "update", hooks' # hooks
    PROVE  /\ hooks'[call[p].hook] = call[p].row
           /\ \A h \in HookIds \ {call[p].hook} : hooks'[h] = hooks[h]
<1> DEFINE c == call[p]
<1>1. c.hook \in HookIds /\ hooks \in [HookIds -> HookRow \cup {None}]
  BY InvFacts DEF Shape, World
<1>2. UpdateWebhook(p)
  BY Places
<1>3. hooks' = hooks \/ hooks' = [hooks EXCEPT ![c.hook] = c.row]
  BY <1>2, UpdateWrites DEF Writes
<1>4. QED
  BY <1>1, <1>3

\* However updates overlap, a hook is as the last of them asked, none of them
\* changes another, no two share an address, and what was created is answered.
THEOREM HooksAsAsked == Spec => HookAsAsked
<1> DEFINE Asked ==
              /\ UrlsDiffer(hooks')
              /\ \A p \in Procs :
                   (call[p].pc = "update" /\ call'[p].pc # "update" /\ hooks' # hooks)
                   => /\ hooks'[call[p].hook] = call[p].row
                      /\ \A h \in HookIds \ {call[p].hook} : hooks'[h] = hooks[h]
              /\ \A p \in Procs :
                   (GrpcCreatedWebhook(p) /\ call[p].quiet)
                   => Answered = call[p].hook
<1>1. ASSUME Inv, Next PROVE Asked
  <2>1. PICK q \in Procs : AnyStep(q)
    BY <1>1, NextSteps
  <2>2. UrlsDiffer(hooks')
    BY <1>1, NextInv DEF Inv, World, UrlsDiffer
  <2>3. ASSUME NEW p \in Procs, call[p].pc = "update", call'[p].pc # "update",
               hooks' # hooks
        PROVE  /\ hooks'[call[p].hook] = call[p].row
               /\ \A h \in HookIds \ {call[p].hook} : hooks'[h] = hooks[h]
    <3>1. p = q
      BY <1>1, <2>1, <2>3, OthersStay
    <3>2. QED
      BY <1>1, <2>1, <2>3, <3>1, UpdatedAsAsked
  <2>4. ASSUME NEW p \in Procs, GrpcCreatedWebhook(p), call[p].quiet
        PROVE  Answered = call[p].hook
    BY <1>1, <2>4, AnsweredLast DEF GrpcCreatedWebhook, At
  <2>5. QED
    BY <2>2, <2>3, <2>4
<1>2. Inv /\ [Next]_contentVars => [Asked]_contentVars
  BY <1>1
<1>3. QED
  BY <1>2, InvInductive, PTL DEF Spec, HookAsAsked


-----------------------------------------------------------------------------
(* Pages of a history                                                      *)

LEMMA Least ==
    ASSUME NEW S \in SUBSET (1..MaxChanges), S # {}
    PROVE  \E x \in S : \A y \in S : x <= y
<1>1. S \subseteq Nat
  OBVIOUS
<1>2. PICK x \in S : \A y \in S : ~(<<y, x>> \in OpToRel(<, Nat))
  BY <1>1, NatLessThanWellFounded, WFMin
<1>3. \A y \in S : ~(y < x)
  BY <1>1, <1>2 DEF OpToRel
<1>4. QED
  BY <1>1, <1>3

LEMMA Greatest ==
    ASSUME NEW S \in SUBSET (1..MaxChanges), S # {}
    PROVE  \E x \in S : \A y \in S : y <= x
<1> DEFINE back == {z \in 1..MaxChanges : MaxChanges + 1 - z \in S}
<1>1. \A y \in S : MaxChanges + 1 - y \in back
  BY Numbers
<1>2. back # {}
  BY <1>1
<1>3. PICK z \in back : \A y \in back : z <= y
  BY <1>2, Least
<1>4. \A y \in S : y <= MaxChanges + 1 - z
  <2>1. ASSUME NEW y \in S PROVE y <= MaxChanges + 1 - z
    <3>1. z <= MaxChanges + 1 - y
      BY <1>1, <1>3
    <3>2. QED
      BY <3>1, Numbers
  <2>2. QED
    BY <2>1
<1>5. QED
  BY <1>3, <1>4

\* The changes of S that fewer than k are newer than.
Newest(S, k) == {y \in S : Cardinality(Newer(S, y)) < k}

\* Each change is newer than one fewer than the next older one.
LEMMA NewerByOne ==
    ASSUME NEW S \in SUBSET (1..MaxChanges), NEW x, NEW m \in Newer(S, x), x \in Nat,
           \A y \in Newer(S, x) : m <= y
    PROVE  Cardinality(Newer(S, m)) = Cardinality(Newer(S, x)) - 1
<1>1. Newer(S, m) = Newer(S, x) \ {m}
  <2>1. m \in Nat /\ m > x /\ \A y \in S : y \in Nat
    BY DEF Newer
  <2>2. \A y \in S : y > m => y > x /\ y # m
    BY <2>1
  <2>3. \A y \in S : y > x /\ y # m => y > m
    <3>1. \A y \in S : y > x => m <= y
      BY DEF Newer
    <3>2. QED
      BY <2>1, <3>1
  <2>4. QED
    BY <2>2, <2>3 DEF Newer
<1>2. QED
  BY <1>1, NewerFinite, FS_RemoveElement

\* An older change has more newer ones.
LEMMA OlderHasMore ==
    ASSUME NEW S \in SUBSET (1..MaxChanges), NEW x \in S, NEW y \in S, y < x
    PROVE  Cardinality(Newer(S, x)) < Cardinality(Newer(S, y))
<1>1. Newer(S, x) \subseteq Newer(S, y) \ {x}
  <2>1. \A z \in S : z \in Nat
    OBVIOUS
  <2>2. \A z \in S : z > x => z > y /\ z # x
    BY <2>1
  <2>3. QED
    BY <2>2 DEF Newer
<1>2. x \in Newer(S, y)
  BY DEF Newer
<1>3. /\ IsFiniteSet(Newer(S, y)) /\ Cardinality(Newer(S, y)) \in Nat
      /\ Cardinality(Newer(S, x)) \in Nat
  BY NewerFinite
<1>4. /\ IsFiniteSet(Newer(S, y) \ {x})
      /\ Cardinality(Newer(S, y) \ {x}) = Cardinality(Newer(S, y)) - 1
  BY <1>2, <1>3, FS_RemoveElement
<1>5. Cardinality(Newer(S, x)) <= Cardinality(Newer(S, y) \ {x})
  BY <1>1, <1>4, FS_Subset
<1>6. QED
  BY <1>3, <1>4, <1>5

\* If some change has k newer ones, there are k that have fewer.
LEMMA NewestCount ==
    ASSUME NEW S \in SUBSET (1..MaxChanges), NEW k \in Nat,
           \E x \in S : Cardinality(Newer(S, x)) >= k
    PROVE  Cardinality(Newest(S, k)) = k
<1> DEFINE N(y) == Cardinality(Newer(S, y))
           rest == S \ Newest(S, k)
<1>1. \A y : N(y) \in Nat
  BY NewerFinite
<1>2. \A y \in S : y \in rest <=> N(y) >= k
  BY <1>1 DEF Newest
<1>3. PICK x \in rest : \A y \in rest : y <= x
  <2>1. rest # {}
    BY <1>2
  <2>2. rest \in SUBSET (1..MaxChanges)
    OBVIOUS
  <2> HIDE DEF rest
  <2>3. QED
    BY <2>1, <2>2, Greatest
<1>4. x \in S /\ N(x) >= k
  BY <1>2, <1>3
<1>5. Newest(S, k) = Newer(S, x)
  <2>1. ASSUME NEW y \in S, y > x PROVE y \in Newest(S, k)
    <3>1. y \notin rest
      BY <1>3, <2>1
    <3>2. QED
      BY <3>1
  <2>2. ASSUME NEW y \in Newest(S, k) PROVE y > x
    <3>1. y \in S /\ N(y) < k
      BY DEF Newest
    <3>2. N(y) < N(x)
      BY <1>1, <1>4, <3>1
    <3>3. y # x
      BY <3>2, <1>1
    <3>4. ~(y < x)
      <4>1. y < x => N(x) < N(y)
        BY <1>4, <3>1, OlderHasMore
      <4> HIDE DEF N
      <4>2. QED
        BY <1>1, <3>2, <4>1
    <3>5. x \in Nat /\ y \in Nat
      BY <1>4, <3>1
    <3>6. QED
      BY <3>3, <3>4, <3>5
  <2>3. QED
    BY <2>1, <2>2 DEF Newer, Newest
<1>6. N(x) <= k
  <2>1. SUFFICES ASSUME N(x) > k PROVE FALSE
    BY <1>1, <1>4
  <2>2. Newer(S, x) # {}
    <3>1. N(x) # 0
      BY <1>1, <2>1
    <3>2. QED
      BY <3>1, NewerFinite, FS_EmptySet
  <2>3. PICK m \in Newer(S, x) : \A y \in Newer(S, x) : m <= y
    <3>1. Newer(S, x) \in SUBSET (1..MaxChanges)
      BY DEF Newer
    <3>2. QED
      BY <2>2, <3>1, Least
  <2>4. N(m) = N(x) - 1
    BY <1>4, <2>3, NewerByOne
  <2>5. N(m) < k
    BY <1>5, <2>3 DEF Newest
  <2> HIDE DEF N
  <2>6. QED
    BY <1>1, <2>1, <2>4, <2>5
<1>7. N(x) = k
  BY <1>1, <1>4, <1>6
<1>8. QED
  BY <1>5, <1>7

\* A page of a history that goes on behind it is full.
LEMMA PageFull ==
    ASSUME NEW S \in SUBSET (1..MaxChanges), NEW page \in Nat, page >= 1,
           NEW size \in Nat,
           \E x \in S : Cardinality(Newer(S, x)) >= page * size
    PROVE  Cardinality(CommitsByPage(S, page, size)) = size
<1> DEFINE a == (page - 1) * size
           b == page * size
<1>1. a \in Nat /\ b \in Nat /\ b = a + size
  <2>1. PICK q \in Nat : page = q + 1
    BY Numbers
  <2>2. a = q * size
    BY <2>1
  <2>3. b = q * size + size
    BY <2>1
  <2>4. QED
    BY <2>1, <2>2, <2>3
<1> HIDE DEF a, b
<1>2. \E x \in S : Cardinality(Newer(S, x)) >= b
  BY DEF b
<1>3. \A y : Cardinality(Newer(S, y)) \in Nat
  BY NewerFinite
<1>4. \E x \in S : Cardinality(Newer(S, x)) >= a
  <2>1. b >= a
    BY <1>1
  <2>2. \A k \in Nat : k >= b => k >= a
    BY <1>1, <2>1
  <2>3. QED
    BY <1>2, <1>3, <2>2
<1>5. Cardinality(Newest(S, a)) = a /\ Cardinality(Newest(S, b)) = b
  BY <1>1, <1>2, <1>4, NewestCount
<1>6. Newest(S, a) \subseteq Newest(S, b)
  BY <1>1, <1>3 DEF Newest
<1>7. CommitsByPage(S, page, size) = Newest(S, b) \ Newest(S, a)
  <2>1. \A k \in Nat : (a <= k /\ k < b) <=> (k < b /\ ~(k < a))
    BY <1>1
  <2>2. CommitsByPage(S, page, size)
           = {x \in S : a <= Cardinality(Newer(S, x)) /\ Cardinality(Newer(S, x)) < b}
    BY DEF CommitsByPage, Newer, a, b
  <2>3. QED
    BY <1>3, <2>1, <2>2 DEF Newest
<1>8. Newest(S, a) \in SUBSET (1..MaxChanges) /\ Newest(S, b) \in SUBSET (1..MaxChanges)
  BY DEF Newest
<1>9. Cardinality(Newest(S, b) \ Newest(S, a)) = b - a
  <2> DEFINE A == Newest(S, a)
             D == Newest(S, b) \ Newest(S, a)
  <2>1. IsFiniteSet(A) /\ IsFiniteSet(D) /\ Cardinality(D) \in Nat
    BY <1>8, NewerFinite
  <2>2. A \cap D = {} /\ A \cup D = Newest(S, b)
    BY <1>6
  <2>3. Cardinality(A \cup D) = Cardinality(A) + Cardinality(D) - Cardinality(A \cap D)
    <3> HIDE DEF A, D
    <3>1. QED
      BY <2>1, FS_Union
  <2>4. Cardinality(A \cap D) = 0
    BY <2>2, FS_EmptySet
  <2>5. Cardinality(A) = a /\ Cardinality(A \cup D) = b
    BY <1>5, <2>2
  <2> HIDE DEF A, D
  <2>6. b = a + Cardinality(D)
    BY <1>1, <2>1, <2>3, <2>4, <2>5
  <2>7. QED
    BY <1>1, <2>1, <2>6 DEF D
<1>10. QED
  BY <1>1, <1>7, <1>9


LEMMA LastPage ==
    ASSUME Inv, NEW p \in Procs, LogPage(p), call'[p] = Idle, there, call[p].grown,
           ShortName(call[p].ref[2]) # None,
           call[p].new \subseteq ShortName(call[p].ref[2])
    PROVE  call[p].old \subseteq
              call[p].seen
                 \cup CommitsByPage(ShortName(call[p].ref[2]), call[p].page, PageSize)
<1> DEFINE c == call[p]
           now == ShortName(c.ref[2])
           got == ListCommits(NameRevision(c.ref[2]), c.page, PageSize)
           page == CommitsByPage(now, c.page, PageSize)
           e == [c EXCEPT !.page = @ + 1, !.seen = @ \cup got.commits, !.new = now,
                          !.grown = @ /\ c.new \subseteq now]
<1>1. /\ c \in Call /\ Shape(c) /\ Read(c) /\ c.pc = "log" /\ c.new \in Commits
      /\ c.page >= 1 /\ c.page \in Nat /\ call \in [Procs -> Call]
  BY InvFacts DEF LogPage, At, Shape, Call
<1>2. PICK n \in Names : c.ref = Branch(n)
  BY <1>1 DEF Shape
<1>3. c.ref[2] = n
  BY <1>2 DEF Branch
<1>4. now \in Commits
  BY <1>3, ShortNameTyped
<1>5. got.hasMore = (Cardinality(page) = PageSize)
  BY <1>1, <1>3, PageRead
<1>6. got # None
  <2>1. now # None
    OBVIOUS
  <2>2. page \in SUBSET (1..MaxChanges) /\ (Cardinality(page) = PageSize) \in BOOLEAN
    BY <1>4 DEF CommitsByPage, Commits
  <2>3. got = [commits |-> page, hasMore |-> Cardinality(page) = PageSize]
    BY <2>1 DEF ListCommits, ListedFrom, NameRevision
  <2> HIDE DEF got, page
  <2>4. QED
    BY <2>2, <2>3, LookupsAssumption
<1>7. SUFFICES ASSUME NEW x \in c.old \ c.seen, x \notin page
               PROVE  FALSE
  OBVIOUS
<1>8. x \in now /\ Cardinality(Newer(now, x)) >= c.page * PageSize
  BY <1>1, <1>4, <1>7, PageCounts
<1>9. Cardinality(page) = PageSize
  <2>1. now \in SUBSET (1..MaxChanges) /\ PageSize \in Nat
    BY <1>4, Numbers DEF Commits
  <2> HIDE DEF c, now
  <2>2. QED
    BY <1>1, <1>8, <2>1, PageFull
<1>10. Step(p, e)
  BY <1>5, <1>6, <1>9 DEF LogPage
<1>11. call'[p].pc = "log"
  BY <1>1, <1>10 DEF Step, Call
<1>12. QED
  BY <1>11 DEF Idle

\* Nobody who reads a history to its last page misses a commit, however many
\* pages it has and whatever comes in between them.
THEOREM HistoryCompleteAlways == Spec => HistoryComplete
<1> DEFINE Complete ==
       \A p \in Procs :
         (/\ LogPage(p) /\ call'[p] = Idle
          /\ there /\ ShortName(call[p].ref[2]) # None
             /\ call[p].new \subseteq ShortName(call[p].ref[2]) /\ call[p].grown)
         => call[p].old \subseteq
               call[p].seen
                  \cup CommitsByPage(ShortName(call[p].ref[2]), call[p].page, PageSize)
<1>1. Inv => Complete
  BY LastPage
<1>2. Inv /\ [Next]_contentVars => [Complete]_contentVars
  BY <1>1
<1>3. QED
  BY <1>2, InvInductive, PTL DEF Spec, HistoryComplete
=============================================================================
