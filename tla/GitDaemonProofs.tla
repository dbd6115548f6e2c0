---------------------------- MODULE GitDaemonProofs ----------------------------
(***************************************************************************)
(* Proofs about GitDaemon, for any clients, any limit and any goroutines   *)
(* that close it or shut it down at any time.                              *)
(***************************************************************************)
EXTENDS GitDaemon, FiniteSetTheorems, TLAPS

-----------------------------------------------------------------------------
(* The inductive invariant                                                 *)

Typed ==
    /\ {done, finished, registered, late} \subseteq BOOLEAN
    /\ once \in {"free", "busy", "over"}
    /\ listener \in {"none", "open", "closed"}
    /\ server \in Ended \cup {"start", "serve", "count", "register", "accept", "size"}
    /\ conns \subseteq Clients
    /\ client \in [Clients -> Client]
    /\ stopper \in [Stoppers -> Stopper]

\* The goroutines the WaitGroup stands for: Serve and the clients it admitted.
Counts(r) == r.handler \in {"spawned", "select", "serve", "close", "count"}
Counted == {c \in Clients : Counts(client[c])}
ServeCounts == IF server \in {"register", "accept", "size"} THEN 1 ELSE 0
GroupCounts == wg = ServeCounts + Cardinality(Counted)

\* Serve, and nobody else, holds the connection it has just accepted.
Accepted(c) == client[c].handler = "accepted"
OneAccepted ==
    \A c \in Clients : Accepted(c) => server = "size" /\ \A d \in Clients : Accepted(d) => d = c

\* What a client owes: r is its record, and tracked says that conns has it.
Placed(r, tracked) ==
    /\ tracked => r.handler \in {"select", "serve", "close"}
    /\ r.handler # "none" => r.sock \in {"open", "closed"}
    /\ r.handler \in {"count", "gone"} => r.sock = "closed"
    /\ r.handler \in {"none", "accepted"} => r.scanner = "none"
Places == \A c \in Clients : Placed(client[c], c \in conns)

\* Whoever gets past closeListener leaves the daemon done; a Shutdown that
\* returns nil has seen the WaitGroup at zero, and nothing counts itself since.
IsDone(r, isDone) ==
    \/ r.pc \in {"idle", "check", "close", "once"}
    \/ isDone
Waited(r) == r.op = "shutdown" /\ r.pc = "returned" /\ r.err = "nil"
Stopped ==
    /\ done <=> once # "free"
    /\ \A s \in Stoppers : /\ IsDone(stopper[s], done)
                           /\ Waited(stopper[s]) /\ ~late => wg = 0
                           /\ stopper[s].pc = "all" => stopper[s].op = "close"

Inv == Typed /\ GroupCounts /\ OneAccepted /\ Places /\ Stopped

-----------------------------------------------------------------------------
(* Lemmas                                                                  *)

LEMMA CountedFinite == IsFiniteSet(Counted) /\ Cardinality(Counted) \in 0 .. Cardinality(Clients)
<1>1. Counted \subseteq Clients
  BY DEF Counted
<1>2. QED
  BY <1>1, DaemonAssumption, FS_Subset, FS_CardinalityType

\* A WaitGroup that is at zero is nobody's.
LEMMA GroupEmpty ==
    ASSUME Inv, wg = 0
    PROVE  ServeCounts = 0 /\ \A c \in Clients : ~Counts(client[c])
<1>1. /\ Cardinality(Counted) \in Nat /\ IsFiniteSet(Counted)
      /\ 0 = ServeCounts + Cardinality(Counted) /\ ServeCounts \in {0, 1}
  BY CountedFinite DEF Inv, GroupCounts, ServeCounts
<1>2. ServeCounts = 0 /\ Cardinality(Counted) = 0
  BY <1>1
<1>3. Counted = {}
  BY <1>1, <1>2, FS_EmptySet
<1>4. QED
  BY <1>2, <1>3 DEF Counted

\* One client's record changes: the set of those who count changes with it.
LEMMA CountedMoves ==
    ASSUME Inv, NEW c \in Clients, NEW r \in Client,
           client' = [client EXCEPT ![c] = r]
    PROVE  /\ (Counts(r) <=> Counts(client[c])) => Cardinality(Counted') = Cardinality(Counted)
           /\ Counts(r) /\ ~Counts(client[c])
                => Cardinality(Counted') = Cardinality(Counted) + 1
           /\ ~Counts(r) /\ Counts(client[c])
                => Cardinality(Counted') = Cardinality(Counted) - 1
<1>1. /\ client \in [Clients -> Client] /\ client'[c] = r
      /\ \A d \in Clients : d # c => client'[d] = client[d]
  BY DEF Inv, Typed
<1>2. \A d \in Clients : d \in Counted' <=> Counts(client'[d])
  BY DEF Counted, Counts
<1>3. \A d \in Clients : d \in Counted <=> Counts(client[d])
  BY DEF Counted
<1>4. Counted \subseteq Clients /\ Counted' \subseteq Clients
  BY DEF Counted
<1>5. CASE Counts(r) <=> Counts(client[c])
  <2>1. Counted' = Counted
    BY <1>1, <1>2, <1>3, <1>4, <1>5
  <2>2. QED
    BY <2>1, <1>5
<1>6. CASE Counts(r) /\ ~Counts(client[c])
  <2>1. Counted' = Counted \cup {c} /\ c \notin Counted
    BY <1>1, <1>2, <1>3, <1>4, <1>6
  <2>2. QED
    BY <2>1, <1>6, CountedFinite, FS_AddElement
<1>7. CASE ~Counts(r) /\ Counts(client[c])
  <2>1. Counted' = Counted \ {c} /\ c \in Counted
    BY <1>1, <1>2, <1>3, <1>4, <1>7
  <2>2. QED
    BY <2>1, <1>7, CountedFinite, FS_RemoveElement
<1>8. QED
  BY <1>5, <1>6, <1>7 DEF Counts

\* A step of one client that Serve has handed over, of its scanner or of git.
LEMMA ClientSteps ==
    ASSUME Inv, NEW c \in Clients, NEW r \in Client,
           client' = [client EXCEPT ![c] = r], UNCHANGED Outside,
           ~Accepted(c), r.handler # "accepted",
           Counts(r) => Counts(client[c]),
           wg' = IF Counts(r) <=> Counts(client[c]) THEN wg ELSE wg - 1,
           conns' \subseteq Clients, conns' \ {c} = conns \ {c},
           Placed(r, c \in conns')
    PROVE  Inv'
<1>1. /\ client \in [Clients -> Client] /\ client'[c] = r
      /\ \A d \in Clients : d # c => client'[d] = client[d] /\ (d \in conns' <=> d \in conns)
  BY DEF Inv, Typed
<1>2. UNCHANGED <<done, finished, once, listener, registered, server, stopper, late>>
  BY DEF Outside, shared
<1>3. Typed'
  BY <1>2 DEF Inv, Typed
<1>4. GroupCounts'
  <2>1. /\ Cardinality(Counted) \in Nat /\ wg = ServeCounts + Cardinality(Counted)
        /\ ServeCounts \in {0, 1} /\ ServeCounts' = ServeCounts
    BY <1>2, CountedFinite DEF Inv, GroupCounts, ServeCounts
  <2>2. CASE Counts(r) <=> Counts(client[c])
    BY <2>1, <2>2, CountedMoves DEF GroupCounts
  <2>3. CASE ~(Counts(r) <=> Counts(client[c]))
    <3>1. ~Counts(r) /\ Counts(client[c])
      BY <2>3 DEF Counts
    <3>2. Cardinality(Counted') = Cardinality(Counted) - 1
      BY <3>1, CountedMoves
    <3>3. wg' = wg - 1
      BY <2>3
    <3>4. QED
      BY <2>1, <3>2, <3>3 DEF GroupCounts
  <2>4. QED
    BY <2>2, <2>3
<1>5. OneAccepted'
  BY <1>1, <1>2 DEF Inv, OneAccepted, Accepted
<1>6. Places'
  BY <1>1 DEF Inv, Places
<1>7. Stopped'
  <2>1. ASSUME wg = 0 PROVE wg' = 0
    BY <2>1, GroupEmpty DEF Counts
  <2>2. QED
    BY <1>2, <2>1 DEF Inv, Stopped, IsDone, Waited
<1>8. QED
  BY <1>3, <1>4, <1>5, <1>6, <1>7 DEF Inv

-----------------------------------------------------------------------------
(* The server's steps                                                      *)

LEMMA InitInv == Init => Inv
<1> SUFFICES ASSUME Init PROVE Inv
  OBVIOUS
<1>1. Typed
  BY DEF Init, Typed, Client, Stopper
<1>2. Counted = {} /\ ServeCounts = 0
  BY DEF Init, Counted, Counts, ServeCounts
<1>3. GroupCounts
  BY <1>2, FS_EmptySet DEF Init, GroupCounts
<1>4. OneAccepted /\ Places /\ Stopped
  BY DEF Init, OneAccepted, Accepted, Places, Placed, Stopped, IsDone, Waited
<1>5. QED
  BY <1>1, <1>3, <1>4 DEF Inv

\* A step of Serve that leaves the clients alone.
LEMMA ServeMoves ==
    ASSUME Inv, UNCHANGED <<done, finished, once, registered, conns, client, stopper>>,
           listener' \in {"none", "open", "closed"}, late' \in BOOLEAN,
           late => late', server # "size", server' # "size",
           server' \in Ended \cup {"start", "serve", "count", "register", "accept"},
           wg' - wg = ServeCounts' - ServeCounts, wg' \in Int,
           ServeCounts = 0 /\ ServeCounts' = 1 => late' \/ ~done
    PROVE  Inv'
<1>1. Typed' /\ Places' /\ OneAccepted'
  BY DEF Inv, Typed, Places, OneAccepted, Accepted
<1>2. /\ Cardinality(Counted) \in Nat /\ wg = ServeCounts + Cardinality(Counted)
      /\ ServeCounts \in {0, 1} /\ ServeCounts' \in {0, 1} /\ Counted' = Counted
  BY CountedFinite DEF Inv, GroupCounts, ServeCounts, Counted
<1>3. GroupCounts'
  BY <1>2 DEF GroupCounts
<1>4. ASSUME NEW s \in Stoppers, Waited(stopper[s]), ~late' PROVE wg' = 0
  <2>1. wg = 0 /\ done
    BY <1>4 DEF Inv, Stopped, IsDone, Waited
  <2>2. QED
    BY <1>2, <1>4, <2>1, GroupEmpty
<1>5. Stopped'
  BY <1>4 DEF Inv, Stopped, IsDone, Waited
<1>6. QED
  BY <1>1, <1>3, <1>5 DEF Inv

LEMMA ServeStarts == ASSUME Inv, Listen \/ CheckDone \/ Register PROVE Inv'
<1>1. wg \in Int
  BY CountedFinite DEF Inv, GroupCounts, ServeCounts
<1>2. CASE Listen
  BY <1>1, <1>2, ServeMoves DEF Inv, Typed, Listen, ServeCounts, Ended
<1>3. CASE CheckDone
  BY <1>1, <1>3, ServeMoves DEF Inv, Typed, CheckDone, shared, ServeCounts, Ended
<1>4. CASE Register
  <2>1. /\ UNCHANGED <<done, finished, once, listener, wg, conns, client, stopper, late>>
        /\ server = "register" /\ server' = "accept" /\ registered' = TRUE
    BY <1>4 DEF Register
  <2>2. Typed' /\ Places' /\ OneAccepted' /\ Stopped'
    BY <2>1 DEF Inv, Typed, Places, OneAccepted, Accepted, Stopped, IsDone, Waited
  <2>3. GroupCounts'
    BY <2>1 DEF Inv, GroupCounts, ServeCounts, Counted
  <2>4. QED
    BY <2>2, <2>3 DEF Inv
<1>5. QED
  BY <1>2, <1>3, <1>4

LEMMA CountServeInv == ASSUME Inv, CountServe PROVE Inv'
<1>1. wg \in Int
  BY CountedFinite DEF Inv, GroupCounts, ServeCounts
<1>2. ServeCounts = 0 /\ ServeCounts' = 1
  BY DEF CountServe, ServeCounts
<1>3. QED
  BY <1>1, <1>2, ServeMoves DEF Inv, Typed, CountServe, shared, Ended

LEMMA AcceptFailsInv == ASSUME Inv, AcceptFails PROVE Inv'
<1>1. wg \in Int
  BY CountedFinite DEF Inv, GroupCounts, ServeCounts
<1>2. ServeCounts = 1 /\ ServeCounts' = 0
  BY DEF AcceptFails, ServeCounts, Ended
<1>3. QED
  BY <1>1, <1>2, ServeMoves DEF Inv, Typed, AcceptFails, shared, Ended

LEMMA AcceptInv == ASSUME Inv, NEW c \in Clients, Accept(c) PROVE Inv'
<1> DEFINE r == [client[c] EXCEPT !.sock = "open", !.handler = "accepted"]
<1>1. /\ UNCHANGED <<done, finished, once, listener, registered, wg, conns, stopper, late>>
      /\ server = "accept" /\ server' = "size" /\ client[c].sock = "queued"
      /\ client' = [client EXCEPT ![c] = r]
  BY DEF Accept, shared
<1>2. /\ client \in [Clients -> Client] /\ r \in Client /\ client'[c] = r
      /\ \A d \in Clients : d # c => client'[d] = client[d]
  BY <1>1 DEF Inv, Typed, Client
<1>3. client[c].handler = "none" /\ c \notin conns
  BY <1>1 DEF Inv, Places, Placed
<1>4. Typed'
  BY <1>1, <1>2 DEF Inv, Typed
<1>5. GroupCounts'
  <2>1. ~Counts(r) /\ ~Counts(client[c])
    BY <1>2, <1>3 DEF Counts, Client
  <2>2. Cardinality(Counted') = Cardinality(Counted)
    BY <1>1, <1>2, <2>1, CountedMoves
  <2>3. QED
    BY <1>1, <2>2 DEF Inv, GroupCounts, ServeCounts
<1>6. OneAccepted'
  BY <1>1, <1>2 DEF Inv, OneAccepted, Accepted
<1>7. Places'
  BY <1>1, <1>2, <1>3 DEF Inv, Places, Placed, Client
<1>8. Stopped'
  BY <1>1 DEF Inv, Stopped, IsDone, Waited
<1>9. QED
  BY <1>4, <1>5, <1>6, <1>7, <1>8 DEF Inv

\* Whether Serve refuses the connection or admits it, it lets go of it.
LEMMA Handed ==
    ASSUME Inv, NEW c \in Clients, Accepted(c), NEW r \in Client,
           client' = [client EXCEPT ![c] = r], UNCHANGED <<shared, conns, stopper, late>>,
           server = "size", server' = "accept", r.handler # "accepted",
           wg' = IF Counts(r) THEN wg + 1 ELSE wg, Placed(r, FALSE)
    PROVE  Inv'
<1>1. /\ UNCHANGED <<done, finished, once, listener, registered, conns, stopper, late>>
      /\ client \in [Clients -> Client] /\ client'[c] = r
      /\ \A d \in Clients : d # c => client'[d] = client[d]
  BY DEF shared, Inv, Typed
<1>2. ~Counts(client[c]) /\ c \notin conns
  BY DEF Accepted, Counts, Inv, Places, Placed
<1>3. Typed'
  BY <1>1 DEF Inv, Typed
<1>4. GroupCounts'
  <2>1. /\ Cardinality(Counted) \in Nat /\ wg = ServeCounts + Cardinality(Counted)
        /\ ServeCounts = 1 /\ ServeCounts' = 1
    BY <1>1, CountedFinite DEF Inv, GroupCounts, ServeCounts
  <2>2. CASE Counts(r)
    <3>1. Cardinality(Counted') = Cardinality(Counted) + 1
      BY <1>2, <2>2, CountedMoves
    <3>2. QED
      BY <2>1, <2>2, <3>1 DEF GroupCounts
  <2>3. CASE ~Counts(r)
    <3>1. Cardinality(Counted') = Cardinality(Counted)
      BY <1>2, <2>3, CountedMoves
    <3>2. QED
      BY <2>1, <2>3, <3>1 DEF GroupCounts
  <2>4. QED
    BY <2>2, <2>3
<1>5. OneAccepted'
  BY <1>1 DEF Inv, OneAccepted, Accepted
<1>6. Places'
  BY <1>1, <1>2 DEF Inv, Places, Placed
<1>7. Stopped'
  <2>1. wg # 0
    BY GroupEmpty DEF ServeCounts
  <2>2. QED
    BY <1>1, <2>1 DEF Inv, Stopped, IsDone, Waited
<1>8. QED
  BY <1>3, <1>4, <1>5, <1>6, <1>7 DEF Inv

LEMMA RefuseInv == ASSUME Inv, NEW c \in Clients, Refuse(c) PROVE Inv'
<1> DEFINE r == [client[c] EXCEPT !.sock = "closed", !.handler = "gone"]
<1>1. client[c] \in Client
  BY DEF Inv, Typed
<1>2. r \in Client /\ r.handler = "gone" /\ r.sock = "closed"
  BY <1>1 DEF Client
<1>3. Placed(r, FALSE) /\ ~Counts(r)
  BY <1>2 DEF Placed, Counts
<1>4. client' = [client EXCEPT ![c] = r]
  BY DEF Refuse
<1>5. QED
  BY <1>2, <1>3, <1>4, Handed DEF Refuse, Accepted

LEMMA AdmitInv == ASSUME Inv, NEW c \in Clients, Admit(c) PROVE Inv'
<1> DEFINE r == [client[c] EXCEPT !.handler = "spawned"]
<1>1. client[c] \in Client /\ client[c].sock \in {"open", "closed"}
  BY DEF Inv, Typed, Admit, Places, Placed
<1>2. r \in Client /\ r.handler = "spawned" /\ r.sock = client[c].sock
  BY <1>1 DEF Client
<1>3. Placed(r, FALSE) /\ Counts(r)
  BY <1>1, <1>2 DEF Placed, Counts
<1>4. client' = [client EXCEPT ![c] = r]
  BY DEF Admit
<1>5. QED
  BY <1>2, <1>3, <1>4, Handed DEF Admit, Accepted

-----------------------------------------------------------------------------
(* The clients' steps                                                      *)

LEMMA DialInv == ASSUME Inv, NEW c \in Clients, Dial(c) PROVE Inv'
<1> DEFINE r == [client[c] EXCEPT !.sock = "queued"]
<1>1. /\ client[c] \in Client /\ client[c].handler = "none"
      /\ client[c].scanner = "none" /\ c \notin conns
  BY DEF Inv, Typed, Client, Dial, Places, Placed
<1>2. r \in Client /\ r.handler = "none" /\ r.sock = "queued" /\ r.scanner = "none"
  BY <1>1 DEF Client
<1>3. Placed(r, c \in conns) /\ ~Counts(r) /\ ~Counts(client[c]) /\ ~Accepted(c)
  BY <1>1, <1>2 DEF Placed, Counts, Accepted
<1>4. client' = [client EXCEPT ![c] = r] /\ UNCHANGED <<Outside, wg, conns>>
  BY DEF Dial
<1>5. QED
  BY <1>2, <1>3, <1>4, ClientSteps DEF Inv, Typed

\* The steps that leave the WaitGroup and d.conns alone.
LEMMA QuietSteps ==
    ASSUME Inv, NEW c \in Clients, NEW r \in Client, Counts(client[c]), Counts(r),
           client' = [client EXCEPT ![c] = r], UNCHANGED <<Outside, wg, conns>>,
           Placed(r, c \in conns)
    PROVE  Inv'
<1>1. ~Accepted(c) /\ r.handler # "accepted"
  BY DEF Accepted, Counts
<1>2. QED
  BY <1>1, ClientSteps DEF Inv, Typed

LEMMA SelectInv ==
    ASSUME Inv, NEW c \in Clients,
           SelectCancelled(c) \/ SelectRefused(c) \/ SelectServed(c) \/ GitEnds(c)
    PROVE  Inv'
<1>1. /\ client[c] \in Client /\ client[c].handler \in {"select", "serve"}
      /\ client[c].sock \in {"open", "closed"} /\ Counts(client[c])
  BY DEF Inv, Typed, Places, Placed, Counts, Handler, SelectCancelled, SelectRefused,
         SelectServed, GitEnds
<1>2. Closed(client[c]) \in Client /\ Closed(client[c]).sock = "closed"
  BY <1>1 DEF Closed, Client
<1> DEFINE Next1(r) == /\ client' = [client EXCEPT ![c] = r]
                       /\ UNCHANGED <<Outside, wg, conns>>
<1>3. ASSUME NEW r \in Client, r.handler \in {"close", "serve"},
             r.sock \in {"open", "closed"}, Next1(r)
      PROVE  Inv'
  <2>1. Placed(r, c \in conns) /\ Counts(r)
    BY <1>3 DEF Placed, Counts
  <2>2. QED
    BY <1>1, <1>3, <2>1, QuietSteps
<1>4. CASE SelectCancelled(c)
  <2> DEFINE r == [Closed(client[c]) EXCEPT !.handler = "close"]
  <2>1. r \in Client /\ r.handler = "close" /\ r.sock = "closed"
    BY <1>2 DEF Client
  <2>2. Next1(r)
    BY <1>4, <1>1 DEF SelectCancelled, Inv, Typed
  <2>3. QED
    BY <2>1, <2>2, <1>3
<1>5. CASE SelectRefused(c)
  <2> DEFINE r == [Closed(client[c]) EXCEPT !.handler = "close", !.errc = "empty"]
  <2>1. r \in Client /\ r.handler = "close" /\ r.sock = "closed"
    BY <1>2 DEF Client
  <2>2. Next1(r)
    BY <1>5, <1>1 DEF SelectRefused, Inv, Typed
  <2>3. QED
    BY <2>1, <2>2, <1>3
<1>6. CASE SelectServed(c)
  <2> DEFINE r == [client[c] EXCEPT !.handler = "serve", !.errc = "empty"]
  <2>1. r \in Client /\ r.handler = "serve" /\ r.sock = client[c].sock
    BY <1>1 DEF Client
  <2>2. Next1(r)
    BY <1>6, <1>1 DEF SelectServed, Inv, Typed
  <2>3. QED
    BY <2>1, <2>2, <1>1, <1>3
<1>7. CASE GitEnds(c)
  <2>1. PICK q \in {client[c], Closed(client[c])} :
          Next1([q EXCEPT !.handler = "close"])
    BY <1>7, <1>1 DEF GitEnds, Inv, Typed
  <2>2. [q EXCEPT !.handler = "close"] \in Client
    BY <1>1, <1>2 DEF Client
  <2>3. /\ [q EXCEPT !.handler = "close"].handler = "close"
        /\ [q EXCEPT !.handler = "close"].sock \in {"open", "closed"}
    BY <1>1, <1>2 DEF Client
  <2>4. QED
    BY <2>1, <2>2, <2>3, <1>3
<1>8. QED
  BY <1>4, <1>5, <1>6, <1>7

LEMMA AddConnInv == ASSUME Inv, NEW c \in Clients, AddConn(c) PROVE Inv'
<1> DEFINE r == [client[c] EXCEPT !.handler = "select", !.scanner = "scan"]
<1>1. /\ client[c] \in Client /\ client[c].handler = "spawned"
      /\ client[c].sock \in {"open", "closed"}
  BY DEF Inv, Typed, Places, Placed, Handler, AddConn
<1>2. r \in Client /\ r.handler = "select" /\ r.sock = client[c].sock
  BY <1>1 DEF Client
<1>3. /\ Placed(r, c \in conns') /\ Counts(r) /\ Counts(client[c])
      /\ ~Accepted(c) /\ r.handler # "accepted"
  BY <1>1, <1>2 DEF Placed, Counts, Accepted
<1>4. /\ client' = [client EXCEPT ![c] = r] /\ UNCHANGED <<Outside, wg>>
      /\ conns' = conns \cup {c} /\ conns \subseteq Clients
  BY DEF AddConn, Inv, Typed
<1>5. conns' \subseteq Clients /\ conns' \ {c} = conns \ {c}
  BY <1>4
<1>6. wg' = IF Counts(r) <=> Counts(client[c]) THEN wg ELSE wg - 1
  BY <1>3, <1>4
<1>7. QED
  BY <1>2, <1>3, <1>4, <1>5, <1>6, ClientSteps

LEMMA CloseConnInv == ASSUME Inv, NEW c \in Clients, CloseConn(c) PROVE Inv'
<1> DEFINE r == [Closed(client[c]) EXCEPT !.handler = "count"]
<1>1. client[c] \in Client /\ client[c].handler = "close"
  BY DEF Inv, Typed, Handler, CloseConn
<1>2. r \in Client /\ r.handler = "count" /\ r.sock = "closed"
  BY <1>1 DEF Client, Closed
<1>3. /\ client' = [client EXCEPT ![c] = r] /\ UNCHANGED <<Outside, wg>>
      /\ conns' = conns \ {c} /\ conns \subseteq Clients
  BY <1>1 DEF CloseConn, Inv, Typed
<1>4. c \notin conns' /\ conns' \subseteq Clients /\ conns' \ {c} = conns \ {c}
  BY <1>3
<1>5. /\ Placed(r, c \in conns') /\ Counts(r) /\ Counts(client[c])
      /\ ~Accepted(c) /\ r.handler # "accepted"
  BY <1>1, <1>2, <1>4 DEF Placed, Counts, Accepted
<1>6. wg' = IF Counts(r) <=> Counts(client[c]) THEN wg ELSE wg - 1
  BY <1>3, <1>5
<1>7. QED
  BY <1>2, <1>3, <1>4, <1>5, <1>6, ClientSteps

LEMMA HandlerDoneInv == ASSUME Inv, NEW c \in Clients, HandlerDone(c) PROVE Inv'
<1> DEFINE r == [client[c] EXCEPT !.handler = "gone"]
<1>1. /\ client[c] \in Client /\ client[c].handler = "count"
      /\ client[c].sock = "closed" /\ c \notin conns
  BY DEF Inv, Typed, Places, Placed, Handler, HandlerDone
<1>2. r \in Client /\ r.handler = "gone" /\ r.sock = "closed"
  BY <1>1 DEF Client
<1>3. /\ client' = [client EXCEPT ![c] = r] /\ UNCHANGED <<Outside, conns>>
      /\ wg' = wg - 1
  BY DEF HandlerDone
<1>4. /\ Placed(r, c \in conns') /\ ~Counts(r) /\ Counts(client[c])
      /\ ~Accepted(c) /\ r.handler # "accepted"
  BY <1>1, <1>2, <1>3 DEF Placed, Counts, Accepted
<1>5. wg' = IF Counts(r) <=> Counts(client[c]) THEN wg ELSE wg - 1
  BY <1>3, <1>4
<1>6. conns' \subseteq Clients /\ conns' \ {c} = conns \ {c}
  BY <1>3 DEF Inv, Typed
<1>7. QED
  BY <1>2, <1>3, <1>4, <1>5, <1>6, ClientSteps

\* The scanner changes neither where its client is nor the client's socket.
\* Only a client that was admitted has one.
LEMMA ScanningInv == ASSUME Inv, NEW c \in Clients, Scanning(c) PROVE Inv'
<1>1. client[c] \in Client /\ UNCHANGED <<Outside, wg, conns>>
  BY DEF Inv, Typed, Scanning, ScanLine, ScanFails, SendError, SendNil
<1>2. PICK r \in Client : /\ r.handler = client[c].handler /\ r.sock = client[c].sock
                          /\ client' = [client EXCEPT ![c] = r]
  <2> DEFINE With(e) == /\ e \in Client /\ e.handler = client[c].handler
                        /\ e.sock = client[c].sock
                        /\ client' = [client EXCEPT ![c] = e]
  <2>1. CASE ScanLine(c)
    <3>1. PICK got \in {"line", "eof"} :
            client' = [client EXCEPT ![c] =
                          [client[c] EXCEPT !.scanner = "done", !.errc = got]]
      BY <2>1 DEF ScanLine
    <3>2. With([client[c] EXCEPT !.scanner = "done", !.errc = got])
      BY <1>1, <3>1 DEF Client
    <3>3. QED
      BY <3>2
  <2>2. CASE ScanFails(c)
    <3>1. PICK net \in BOOLEAN :
            client' = [client EXCEPT ![c].scanner = "error", ![c].cancelled = @ \/ net]
      BY <2>2 DEF ScanFails
    <3> DEFINE e == [client[c] EXCEPT !.scanner = "error", !.cancelled = @ \/ net]
    <3>2. With(e)
      BY <1>1, <3>1 DEF Client
    <3>3. QED
      BY <3>2
  <2>3. CASE SendError(c)
    <3>1. With([client[c] EXCEPT !.scanner = "nil", !.errc = "error"])
      BY <1>1, <2>3 DEF Client, SendError
    <3>2. QED
      BY <3>1
  <2>4. CASE SendNil(c)
    <3>1. With([client[c] EXCEPT !.scanner = "done", !.errc = "eof"])
      BY <1>1, <2>4 DEF Client, SendNil
    <3>2. QED
      BY <3>1
  <2>5. QED
    BY <2>1, <2>2, <2>3, <2>4 DEF Scanning
<1>3. client[c].handler \notin {"none", "accepted"}
  BY DEF Inv, Places, Placed, Scanning, ScanLine, ScanFails, SendError, SendNil
<1>4. /\ Placed(r, c \in conns') /\ (Counts(r) <=> Counts(client[c]))
      /\ ~Accepted(c) /\ r.handler # "accepted"
  BY <1>1, <1>2, <1>3 DEF Inv, Places, Placed, Counts, Accepted
<1>5. wg' = IF Counts(r) <=> Counts(client[c]) THEN wg ELSE wg - 1
  BY <1>1, <1>4
<1>6. QED
  BY <1>1, <1>2, <1>4, <1>5, ClientSteps DEF Inv, Typed

-----------------------------------------------------------------------------
(* The steps of Close and Shutdown                                         *)

\* What Close does to the connections moves no handler.
SameHandlers ==
    \A c \in Clients : /\ client'[c] \in Client
                       /\ client'[c].handler = client[c].handler
                       /\ client'[c].scanner = client[c].scanner
                       /\ Placed(client'[c], c \in conns')

LEMMA StopperSteps ==
    ASSUME Inv, NEW s \in Stoppers, NEW r \in Stopper,
           stopper' = [stopper EXCEPT ![s] = r], UNCHANGED Inside,
           client' \in [Clients -> Client], SameHandlers, conns' \subseteq Clients,
           {done', finished', registered'} \subseteq BOOLEAN, done => done',
           once' \in {"free", "busy", "over"}, done' <=> once' # "free",
           listener' \in {"none", "open", "closed"},
           IsDone(r, done'), Waited(r) => wg = 0, r.pc = "all" => r.op = "close"
    PROVE  Inv'
<1>1. UNCHANGED <<server, wg, late>>
  BY DEF Inside
<1>2. /\ stopper \in [Stoppers -> Stopper] /\ stopper'[s] = r
      /\ \A t \in Stoppers : t # s => stopper'[t] = stopper[t]
  BY DEF Inv, Typed
<1>3. Typed'
  BY <1>1, <1>2 DEF Inv, Typed
<1>4. Counted' = Counted
  BY DEF SameHandlers, Counted, Counts
<1>5. GroupCounts'
  BY <1>1, <1>4 DEF Inv, GroupCounts, ServeCounts
<1>6. OneAccepted' /\ Places'
  BY <1>1 DEF Inv, OneAccepted, Accepted, SameHandlers, Places
<1>7. Stopped'
  BY <1>1, <1>2 DEF Inv, Stopped, IsDone, Waited
<1>8. QED
  BY <1>3, <1>5, <1>6, <1>7 DEF Inv

\* The steps that touch nothing but the stopper's record, and perhaps once
\* and the two flags.
LEMMA StopperAlone ==
    ASSUME Inv, NEW s \in Stoppers, NEW r \in Stopper,
           stopper' = [stopper EXCEPT ![s] = r], UNCHANGED <<Inside, conns, client>>,
           UNCHANGED <<listener, registered>>,
           {done', finished'} \subseteq BOOLEAN, done => done',
           once' \in {"free", "busy", "over"}, done' <=> once' # "free",
           IsDone(r, done'), Waited(r) => wg = 0, r.pc = "all" => r.op = "close"
    PROVE  Inv'
<1>1. SameHandlers /\ client' \in [Clients -> Client] /\ conns' \subseteq Clients
  BY DEF SameHandlers, Inv, Typed, Places
<1>2. /\ UNCHANGED Inside /\ registered' \in BOOLEAN
      /\ listener' \in {"none", "open", "closed"}
  BY DEF Inv, Typed
<1>3. QED
  BY <1>1, <1>2, StopperSteps

LEMMA CallInv ==
    ASSUME Inv, NEW s \in Stoppers, CallClose(s) \/ CallShutdown(s) PROVE Inv'
<1> DEFINE r == IF CallClose(s) THEN [stopper[s] EXCEPT !.op = "close", !.pc = "check"]
                ELSE IF done THEN [op |-> "shutdown", pc |-> "returned", err |-> "errclosed"]
                ELSE [stopper[s] EXCEPT !.op = "shutdown", !.pc = "check"]
<1>1. /\ stopper[s] \in Stopper /\ UNCHANGED <<shared, Inside, conns, client>>
      /\ {done, finished} \subseteq BOOLEAN /\ once \in {"free", "busy", "over"}
      /\ done <=> once # "free"
  BY DEF Inv, Typed, Stopped, CallClose, CallShutdown
<1>2. r \in Stopper
  BY <1>1 DEF Stopper
<1>3. stopper' = [stopper EXCEPT ![s] = r]
  BY <1>1 DEF CallClose, CallShutdown
<1>4. IsDone(r, done') /\ ~Waited(r) /\ r.pc # "all"
  BY <1>1 DEF IsDone, Waited, shared, Stopper
<1>5. QED
  BY <1>1, <1>2, <1>3, <1>4, StopperAlone DEF shared

\* Where closeListener takes a stopper that is done.
After(s, err) == [stopper[s] EXCEPT
    !.err = err, !.pc = IF stopper[s].op = "close" THEN "all" ELSE "wait"]

LEMMA AfterListener ==
    ASSUME Inv, NEW s \in Stoppers, NEW err \in {"nil", "errclosed"},
           ListenerDone(s, err), done'
    PROVE  /\ stopper' = [stopper EXCEPT ![s] = After(s, err)]
           /\ After(s, err) \in Stopper /\ IsDone(After(s, err), done')
           /\ ~Waited(After(s, err))
           /\ After(s, err).pc = "all" => After(s, err).op = "close"
<1>1. stopper[s] \in Stopper
  BY DEF Inv, Typed
<1>2. stopper' = [stopper EXCEPT ![s] = After(s, err)]
  BY DEF ListenerDone, After
<1>3. QED
  BY <1>1, <1>2 DEF After, Stopper, IsDone, Waited

LEMMA CheckClosedInv == ASSUME Inv, NEW s \in Stoppers, CheckClosed(s) PROVE Inv'
<1>1. /\ stopper[s] \in Stopper /\ UNCHANGED <<shared, Inside, conns, client>>
      /\ {done, finished} \subseteq BOOLEAN /\ once \in {"free", "busy", "over"}
      /\ done <=> once # "free"
  BY DEF Inv, Typed, Stopped, CheckClosed
<1>2. CASE done
  <2>1. ListenerDone(s, "errclosed") /\ done'
    BY <1>1, <1>2 DEF CheckClosed, shared
  <2>2. QED
    BY <1>1, <2>1, AfterListener, StopperAlone DEF shared
<1>3. CASE ~done
  <2> DEFINE r == [stopper[s] EXCEPT !.pc = "close"]
  <2>1. stopper' = [stopper EXCEPT ![s] = r]
    BY <1>1, <1>3 DEF CheckClosed, StopperTo
  <2>2. r \in Stopper /\ IsDone(r, done') /\ ~Waited(r) /\ r.pc # "all"
    BY <1>1 DEF Stopper, IsDone, Waited
  <2>3. QED
    BY <1>1, <2>1, <2>2, StopperAlone DEF shared
<1>4. QED
  BY <1>2, <1>3

LEMMA SetDoneInv == ASSUME Inv, NEW s \in Stoppers, SetDone(s) PROVE Inv'
<1>1. /\ stopper[s] \in Stopper /\ UNCHANGED <<finished, listener, registered>>
      /\ UNCHANGED <<Inside, conns, client>>
      /\ {done, finished} \subseteq BOOLEAN /\ once \in {"free", "busy", "over"}
      /\ done <=> once # "free"
  BY DEF Inv, Typed, Stopped, SetDone
<1>2. CASE once = "over" /\ ListenerDone(s, "nil") /\ UNCHANGED <<once, done>>
  BY <1>1, <1>2, AfterListener, StopperAlone
<1>3. CASE once = "free" /\ once' = "busy" /\ done' = TRUE /\ StopperTo(s, "finish")
  <2> DEFINE r == [stopper[s] EXCEPT !.pc = "finish"]
  <2>1. stopper' = [stopper EXCEPT ![s] = r]
    BY <1>1, <1>3 DEF StopperTo
  <2>2. r \in Stopper /\ IsDone(r, done') /\ ~Waited(r) /\ r.pc # "all"
    BY <1>1, <1>3 DEF Stopper, IsDone, Waited
  <2>3. QED
    BY <1>1, <1>3, <2>1, <2>2, StopperAlone
<1>4. QED
  BY <1>2, <1>3 DEF SetDone

LEMMA CloseFinishedInv == ASSUME Inv, NEW s \in Stoppers, CloseFinished(s) PROVE Inv'
<1>1. /\ UNCHANGED <<done, listener, registered>> /\ UNCHANGED <<Inside, conns, client>>
      /\ finished' = TRUE /\ once' = "over" /\ ListenerDone(s, "nil")
  BY DEF CloseFinished
<1>2. done
  BY DEF Inv, Stopped, IsDone, CloseFinished, At
<1>3. QED
  BY <1>1, <1>2, AfterListener, StopperAlone

LEMMA WaitInv == ASSUME Inv, NEW s \in Stoppers, Wait(s) PROVE Inv'
<1>1. /\ stopper[s] \in Stopper /\ UNCHANGED <<shared, Inside, conns, client>>
      /\ {done, finished} \subseteq BOOLEAN /\ once \in {"free", "busy", "over"}
      /\ done <=> once # "free"
  BY DEF Inv, Typed, Stopped, Wait
<1>2. done
  BY DEF Inv, Stopped, IsDone, Wait, At
<1>3. PICK err \in {"nil", "errclosed", "timeout"} :
        Return(s, err) /\ (err = "nil" => wg = 0)
  BY <1>1 DEF Wait, Stopper
<1> DEFINE r == [stopper[s] EXCEPT !.pc = "returned", !.err = err]
<1>4. stopper' = [stopper EXCEPT ![s] = r]
  BY <1>1, <1>3 DEF Return
<1>5. /\ r \in Stopper /\ IsDone(r, done') /\ (Waited(r) => wg = 0) /\ r.pc # "all"
  BY <1>1, <1>2, <1>3 DEF Stopper, IsDone, Waited, shared
<1>6. QED
  BY <1>1, <1>4, <1>5, StopperAlone DEF shared

LEMMA CloseListenersInv == ASSUME Inv, NEW s \in Stoppers, CloseListeners(s) PROVE Inv'
<1> DEFINE r == [stopper[s] EXCEPT !.pc = "once"]
<1>1. /\ stopper[s] \in Stopper /\ UNCHANGED <<done, finished, once, Inside, conns>>
      /\ stopper' = [stopper EXCEPT ![s] = r] /\ registered' = FALSE
      /\ client \in [Clients -> Client] /\ conns \subseteq Clients
      /\ {done, finished} \subseteq BOOLEAN /\ once \in {"free", "busy", "over"}
      /\ done <=> once # "free"
      /\ listener' \in {"none", "open", "closed"}
  BY DEF Inv, Typed, Stopped, CloseListeners, StopperTo
<1>2. r \in Stopper /\ IsDone(r, done') /\ ~Waited(r) /\ r.pc # "all"
  BY <1>1 DEF Stopper, IsDone, Waited
<1>3. \A c \in Clients :
         /\ client[c] \in Client /\ Placed(client[c], c \in conns)
         /\ \/ client'[c] = client[c]
            \/ /\ client[c].sock = "queued"
               /\ client'[c] = [client[c] EXCEPT !.sock = "closed"]
  BY <1>1 DEF CloseListeners, Inv, Places
<1>4. SameHandlers /\ client' \in [Clients -> Client]
  <2>1. ASSUME NEW c \in Clients, client[c].sock = "queued",
               client'[c] = [client[c] EXCEPT !.sock = "closed"]
        PROVE  /\ client'[c] \in Client /\ client'[c].handler = client[c].handler
               /\ client'[c].scanner = client[c].scanner
               /\ Placed(client'[c], c \in conns')
    <3>1. /\ client'[c] \in Client /\ client'[c].handler = client[c].handler
          /\ client'[c].scanner = client[c].scanner /\ client'[c].sock = "closed"
      BY <1>3, <2>1 DEF Client
    <3>2. Placed(client'[c], c \in conns')
      BY <1>1, <1>3, <3>1 DEF Placed
    <3>3. QED
      BY <3>1, <3>2
  <2>2. SameHandlers
    BY <1>1, <1>3, <2>1 DEF SameHandlers
  <2>3. \/ client' = client
        \/ client' = [c \in Clients |->
              IF client[c].sock = "queued" THEN [client[c] EXCEPT !.sock = "closed"]
                                           ELSE client[c]]
    BY DEF CloseListeners
  <2>4. QED
    BY <1>1, <2>2, <2>3 DEF SameHandlers
<1>5. QED
  BY <1>1, <1>2, <1>4, StopperSteps

LEMMA CloseAllInv == ASSUME Inv, NEW s \in Stoppers, CloseAll(s) PROVE Inv'
<1> DEFINE r == [stopper[s] EXCEPT !.pc = "returned"]
<1>1. /\ stopper[s] \in Stopper /\ UNCHANGED <<shared, Inside>>
      /\ client \in [Clients -> Client] /\ conns \subseteq Clients
      /\ {done, finished, registered} \subseteq BOOLEAN
      /\ once \in {"free", "busy", "over"} /\ listener \in {"none", "open", "closed"}
      /\ done <=> once # "free"
      /\ done /\ stopper[s].op = "close" /\ conns' = {}
      /\ client' = [c \in Clients |-> IF c \in conns THEN Closed(client[c]) ELSE client[c]]
  BY DEF Inv, Typed, Stopped, IsDone, CloseAll, At
<1>2. stopper' = [stopper EXCEPT ![s] = r]
  BY <1>1 DEF CloseAll, Return, Stopper
<1>3. r \in Stopper /\ IsDone(r, done') /\ ~Waited(r) /\ r.pc # "all"
  BY <1>1 DEF Stopper, IsDone, Waited, shared
<1>4. \A c \in Clients :
         /\ client[c] \in Client /\ Placed(client[c], c \in conns)
         /\ c \notin conns'
         /\ \/ client'[c] = client[c]
            \/ c \in conns /\ client'[c] = Closed(client[c])
  BY <1>1 DEF Inv, Places
<1>5. SameHandlers
  <2>1. ASSUME NEW c \in Clients, client'[c] = Closed(client[c])
        PROVE  /\ client'[c] \in Client /\ client'[c].handler = client[c].handler
               /\ client'[c].scanner = client[c].scanner /\ client'[c].sock = "closed"
    BY <1>4, <2>1 DEF Client, Closed
  <2>2. ASSUME NEW c \in Clients PROVE Placed(client'[c], c \in conns')
    BY <1>4, <2>1 DEF Placed
  <2>3. QED
    BY <1>4, <2>1, <2>2 DEF SameHandlers
<1>6. client' \in [Clients -> Client]
  BY <1>1, <1>5 DEF SameHandlers
<1>7. QED
  BY <1>1, <1>2, <1>3, <1>5, <1>6, StopperSteps DEF shared

-----------------------------------------------------------------------------
(* The theorems                                                            *)

LEMMA NextInv == Inv /\ [Next]_vars => Inv'
<1> SUFFICES ASSUME Inv, [Next]_vars PROVE Inv'
  OBVIOUS
<1>1. CASE Serving
  BY <1>1, ServeStarts, CountServeInv, AcceptFailsInv, AcceptInv, RefuseInv, AdmitInv
  DEF Serving
<1>2. ASSUME NEW c \in Clients, Dial(c) \/ Handling(c) \/ Scanning(c) \/ GitEnds(c)
      PROVE  Inv'
  BY <1>2, DialInv, AddConnInv, SelectInv, CloseConnInv, HandlerDoneInv, ScanningInv
  DEF Handling
<1>3. ASSUME NEW s \in Stoppers, CallClose(s) \/ CallShutdown(s) \/ Stopping(s)
      PROVE  Inv'
  BY <1>3, CallInv, CheckClosedInv, CloseListenersInv, SetDoneInv, CloseFinishedInv,
     CloseAllInv, WaitInv DEF Stopping
<1>4. CASE UNCHANGED vars
  BY <1>4 DEF vars, shared, Inv, Typed, GroupCounts, ServeCounts, Counted, Counts,
     OneAccepted, Accepted, Places, Placed, Stopped, IsDone, Waited
<1>5. QED
  BY <1>1, <1>2, <1>3, <1>4 DEF Next, Stoppers

LEMMA Invariance == Spec => []Inv
  BY InitInv, NextInv, PTL DEF Spec

\* The WaitGroup stands for Serve and for every client it admitted that is not
\* over, never less: its counter cannot become negative, which panics, however
\* closes, shutdowns and clients meet.
THEOREM GroupIsExact == Spec => []GroupCounts
<1>1. Inv => GroupCounts
  BY DEF Inv
<1>2. QED
  BY <1>1, Invariance, PTL

\* Every variable keeps its type.
THEOREM Types == Spec => []TypeOK
<1>1. Inv => TypeOK
  <2> SUFFICES ASSUME Inv PROVE TypeOK
    OBVIOUS
  <2>1. Cardinality(Clients) \in Nat
    BY DaemonAssumption, FS_CardinalityType
  <2>2. wg \in 0 .. Cardinality(Clients) + 1
    BY <2>1, CountedFinite DEF Inv, GroupCounts, ServeCounts
  <2>3. QED
    BY <2>2 DEF Inv, Typed, TypeOK
<1>2. QED
  BY <1>1, Invariance, PTL

\* A Shutdown that returns nil has waited for every client, and the daemon
\* takes none on afterwards, unless Serve had passed its check of done.
THEOREM Graceful == Spec => []ShutdownIsGraceful
<1>1. Inv => ShutdownIsGraceful
  <2> SUFFICES ASSUME Inv, NEW s \in Stoppers, ~late,
                      stopper[s] = [op |-> "shutdown", pc |-> "returned", err |-> "nil"]
               PROVE  /\ server \in Ended \cup {"start", "serve", "count"}
                      /\ \A c \in Clients : ~Live(c)
    BY DEF ShutdownIsGraceful
  <2>1. wg = 0
    BY DEF Inv, Stopped, Waited
  <2>2. server \in Ended \cup {"start", "serve", "count"}
    BY <2>1, GroupEmpty DEF ServeCounts, Inv, Typed
  <2>3. ASSUME NEW c \in Clients PROVE ~Live(c)
    <3>1. ~Counts(client[c]) /\ ~Accepted(c) /\ client[c] \in Client
      BY <2>1, <2>2, GroupEmpty DEF Inv, OneAccepted, Typed, Ended
    <3>2. QED
      BY <3>1 DEF Live, Counts, Accepted, Client
  <2>4. QED
    BY <2>2, <2>3
<1>2. QED
  BY <1>1, Invariance, PTL

\* d.conns, which the limit counts, holds only connections that are being
\* handled, and a client that is gone has freed its place and its socket.
THEOREM PlacesFreed == Spec => []PlacesAreFreed
<1>1. Inv => PlacesAreFreed
  BY DEF Inv, Places, Placed, PlacesAreFreed, Live
<1>2. QED
  BY <1>1, Invariance, PTL

=============================================================================
