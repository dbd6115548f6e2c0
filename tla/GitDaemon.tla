------------------------------ MODULE GitDaemon ------------------------------
(***************************************************************************)
(* pkg/daemon: the accept loop of Serve, one goroutine per client with the *)
(* goroutine that scans its request line, and Close and Shutdown, called   *)
(* from other goroutines at any time.                                      *)
(*                                                                         *)
(* A client's request is served or refused, no more: whether keyless       *)
(* access is allowed, the repository exists and anonymous users may read   *)
(* it is the business of other components.  IdleTimeout is positive (3 s   *)
(* by default), so that a read times out whenever the client is silent;    *)
(* MaxTimeout is 0 (the default), so that a client that keeps git busy is  *)
(* served for ever.  A temporary Accept error is retried: nothing changes. *)
(***************************************************************************)
EXTENDS Naturals, FiniteSets

CONSTANTS Clients,         \* connections clients make
          Closers,         \* goroutines that call Close, once
          Shutters,        \* goroutines that call Shutdown, once
          MaxConnections   \* cfg.Git.MaxConnections

ASSUME DaemonAssumption == IsFiniteSet(Clients)

VARIABLES
    done, finished,   \* the flag; is the channel closed
    once,             \* the sync.Once: "free", "busy" or "over"
    listener,         \* "none", "open" or "closed"
    registered,       \* is the listener in d.listeners
    server,           \* where ListenAndServe is, or how it returned
    wg,               \* the WaitGroup's counter
    conns,            \* the clients in d.conns
    client,           \* [Clients -> its connection and its goroutines]
    stopper,          \* [Stoppers -> where Close or Shutdown is]
    late              \* history: did Serve, past its check of done, count
                      \* itself when the daemon was done

Stoppers == Closers \cup Shutters

shared == <<done, finished, once, listener, registered>>
vars == <<shared, server, wg, conns, client, stopper, late>>

Ended == {"closed", "failed"}    \* ErrServerClosed, any other error

Client == [sock : {"none", "queued", "open", "closed"},
           handler : {"none", "accepted", "spawned", "select", "serve", "close",
                      "count", "gone"},
           cancelled : BOOLEAN,                       \* has closeCanceler run
           scanner : {"none", "scan", "error", "nil", "done"},
           errc : {"empty", "line", "eof", "error"}]  \* a channel of capacity one

Stopper == [op : {"none", "close", "shutdown"},
            pc : {"idle", "check", "close", "once", "finish", "all", "wait", "returned"},
            err : {"nil", "errclosed", "timeout"}]

Init ==
    /\ done = FALSE /\ finished = FALSE /\ once = "free"
    /\ listener = "none" /\ registered = FALSE
    /\ server = "start"
    /\ wg = 0
    /\ conns = {}
    /\ client = [c \in Clients |-> [sock |-> "none", handler |-> "none", cancelled |-> FALSE,
                                    scanner |-> "none", errc |-> "empty"]]
    /\ stopper = [s \in Stoppers |-> [op |-> "none", pc |-> "idle", err |-> "nil"]]
    /\ late = FALSE

-----------------------------------------------------------------------------
(* ListenAndServe and Serve                                                *)

Listen ==
    /\ server = "start"
    /\ \/ done /\ server' = "closed" /\ UNCHANGED listener
       \/ ~done /\ server' = "serve" /\ listener' = "open"
       \/ ~done /\ server' = "failed" /\ UNCHANGED listener    \* the address is taken
    /\ UNCHANGED <<done, finished, once, registered, wg, conns, client, stopper, late>>

\* A Serve that finds the daemon done leaves the listener open.
CheckDone ==
    /\ server = "serve"
    /\ server' = IF done THEN "closed" ELSE "count"
    /\ UNCHANGED <<shared, wg, conns, client, stopper, late>>

CountServeBug ==
    /\ server = "count"
    /\ server' = "register"
    /\ late' = (late \/ done)
    /\ UNCHANGED <<shared, wg, conns, client, stopper>>
CountServe ==
    /\ server = "count"
    /\ wg' = wg + 1
    /\ server' = "register"
    /\ late' = (late \/ done)
    /\ UNCHANGED <<shared, conns, client, stopper>>

Register ==
    /\ server = "register"
    /\ registered' = TRUE
    /\ server' = "accept"
    /\ UNCHANGED <<done, finished, once, listener, wg, conns, client, stopper, late>>

Accept(c) ==
    /\ server = "accept"
    /\ listener = "open"
    /\ client[c].sock = "queued"
    /\ client' = [client EXCEPT ![c].sock = "open", ![c].handler = "accepted"]
    /\ server' = "size"
    /\ UNCHANGED <<shared, wg, conns, stopper, late>>

\* Serve returns, and its deferred wg.Done runs.
AcceptFailsBug ==
    /\ server = "accept"
    /\ listener = "closed"
    /\ ~finished
    /\ server' = "failed"
    /\ wg' = wg - 1
    /\ UNCHANGED <<shared, conns, client, stopper, late>>
AcceptFails ==
    /\ server = "accept"
    /\ listener = "closed"
    /\ server' = IF finished THEN "closed" ELSE "failed"
    /\ wg' = wg - 1
    /\ UNCHANGED <<shared, conns, client, stopper, late>>

TooMany == Cardinality(conns) + 1 >= MaxConnections

Refuse(c) ==
    /\ server = "size"
    /\ client[c].handler = "accepted"
    /\ TooMany
    /\ client' = [client EXCEPT ![c].sock = "closed", ![c].handler = "gone"]
    /\ server' = "accept"
    /\ UNCHANGED <<shared, wg, conns, stopper, late>>

Admit(c) ==
    /\ server = "size"
    /\ client[c].handler = "accepted"
    /\ ~TooMany
    /\ wg' = wg + 1
    /\ client' = [client EXCEPT ![c].handler = "spawned"]
    /\ server' = "accept"
    /\ UNCHANGED <<shared, conns, stopper, late>>

-----------------------------------------------------------------------------
(* handleClient                                                            *)

Handler(c, pc) == client[c].handler = pc
Outside == <<shared, server, stopper, late>>

AddConn(c) ==
    /\ Handler(c, "spawned")
    /\ conns' = conns \cup {c}
    /\ client' = [client EXCEPT ![c].handler = "select", ![c].scanner = "scan"]
    /\ UNCHANGED <<Outside, wg>>

\* Closing the wrapped connection cancels the context.
Closed(r) == [r EXCEPT !.sock = "closed", !.cancelled = TRUE]

SelectCancelled(c) ==
    /\ Handler(c, "select")
    /\ client[c].cancelled
    /\ client' = [client EXCEPT ![c] = [Closed(@) EXCEPT !.handler = "close"]]
    /\ UNCHANGED <<Outside, wg, conns>>

\* An error, no line, or a request that is refused: fatal.
SelectRefused(c) ==
    /\ Handler(c, "select")
    /\ client[c].errc # "empty"
    /\ client' = [client EXCEPT ![c] = [Closed(@) EXCEPT !.handler = "close",
                                                         !.errc = "empty"]]
    /\ UNCHANGED <<Outside, wg, conns>>

SelectServed(c) ==
    /\ Handler(c, "select")
    /\ client[c].errc = "line"
    /\ client' = [client EXCEPT ![c].handler = "serve", ![c].errc = "empty"]
    /\ UNCHANGED <<Outside, wg, conns>>

GitEnds(c) ==
    /\ Handler(c, "serve")
    /\ \E r \in {client[c], Closed(client[c])} :       \* fatal, on an error
          client' = [client EXCEPT ![c] = [r EXCEPT !.handler = "close"]]
    /\ UNCHANGED <<Outside, wg, conns>>

\* The deferred conns.Close.
CloseConnBug(c) ==
    /\ Handler(c, "close")
    /\ client' = [client EXCEPT ![c] = [Closed(@) EXCEPT !.handler = "count"]]
    /\ UNCHANGED <<Outside, wg, conns>>
CloseConn(c) ==
    /\ Handler(c, "close")
    /\ conns' = conns \ {c}
    /\ client' = [client EXCEPT ![c] = [Closed(@) EXCEPT !.handler = "count"]]
    /\ UNCHANGED <<Outside, wg>>

HandlerDone(c) ==
    /\ Handler(c, "count")
    /\ wg' = wg - 1
    /\ client' = [client EXCEPT ![c].handler = "gone"]
    /\ UNCHANGED <<Outside, conns>>

-----------------------------------------------------------------------------
(* The goroutine that scans the request line                               *)

\* The line is there, or the client has closed its side before it was.
ScanLine(c) ==
    /\ client[c].scanner = "scan"
    /\ client[c].sock = "open"
    /\ \E got \in {"line", "eof"} :
          client' = [client EXCEPT ![c].scanner = "done", ![c].errc = got]
    /\ UNCHANGED <<Outside, wg, conns>>

\* A malformed line, or a network error, which also cancels the context: the
\* idle timeout, a connection reset, or one that was closed on this side.
ScanFailsBug(c) ==
    /\ client[c].scanner = "scan"
    /\ client' = [client EXCEPT ![c].scanner = "done"]
    /\ UNCHANGED <<Outside, wg, conns>>
ScanFails(c) ==
    /\ client[c].scanner = "scan"
    /\ \E net \in BOOLEAN :
          /\ client[c].sock = "open" \/ net
          /\ client' = [client EXCEPT ![c].scanner = "error",
                                      ![c].cancelled = @ \/ net]
    /\ UNCHANGED <<Outside, wg, conns>>

SendErrorBug(c) ==
    /\ client[c].scanner = "error"
    /\ Handler(c, "select")
    /\ client' = [client EXCEPT ![c].scanner = "nil", ![c].errc = "error"]
    /\ UNCHANGED <<Outside, wg, conns>>
SendError(c) ==
    /\ client[c].scanner = "error"
    /\ client' = [client EXCEPT ![c].scanner = "nil", ![c].errc = "error"]
    /\ UNCHANGED <<Outside, wg, conns>>

\* errc <- nil follows an error too, and blocks until the error is received.
SendNil(c) ==
    /\ client[c].scanner = "nil"
    /\ client[c].errc = "empty"
    /\ client' = [client EXCEPT ![c].scanner = "done", ![c].errc = "eof"]
    /\ UNCHANGED <<Outside, wg, conns>>

-----------------------------------------------------------------------------
(* Close and Shutdown                                                      *)

At(s, pc) == stopper[s].pc = pc
StopperTo(s, pc) == stopper' = [stopper EXCEPT ![s].pc = pc]
Return(s, err) == stopper' = [stopper EXCEPT ![s].pc = "returned", ![s].err = err]
Inside == <<server, wg, late>>

\* closeListener returns: Close goes on to CloseAll, Shutdown to its wait.
ListenerDone(s, err) ==
    stopper' = [stopper EXCEPT
        ![s].err = err, ![s].pc = IF stopper[s].op = "close" THEN "all" ELSE "wait"]

CallClose(s) ==
    /\ At(s, "idle")
    /\ stopper' = [stopper EXCEPT ![s].op = "close", ![s].pc = "check"]
    /\ UNCHANGED <<shared, Inside, conns, client>>

CallShutdown(s) ==
    /\ At(s, "idle")
    /\ stopper' = [stopper EXCEPT ![s] =
           IF done THEN [op |-> "shutdown", pc |-> "returned", err |-> "errclosed"]
                   ELSE [@ EXCEPT !.op = "shutdown", !.pc = "check"]]
    /\ UNCHANGED <<shared, Inside, conns, client>>

CheckClosed(s) ==
    /\ At(s, "check")
    /\ IF done THEN ListenerDone(s, "errclosed") ELSE StopperTo(s, "close")
    /\ UNCHANGED <<shared, Inside, conns, client>>

\* Closing a listener resets the connections that wait to be accepted.
CloseListeners(s) ==
    /\ At(s, "close")
    /\ IF registered
       THEN /\ listener' = "closed"
            /\ client' = [c \in Clients |->
                   IF client[c].sock = "queued" THEN [client[c] EXCEPT !.sock = "closed"]
                                                ELSE client[c]]
       ELSE UNCHANGED <<listener, client>>
    /\ registered' = FALSE
    /\ StopperTo(s, "once")
    /\ UNCHANGED <<done, finished, once, Inside, conns>>

SetDone(s) ==
    /\ At(s, "once")
    /\ \/ /\ once = "free"
          /\ once' = "busy"
          /\ done' = TRUE
          /\ StopperTo(s, "finish")
       \/ /\ once = "over"
          /\ ListenerDone(s, "nil")
          /\ UNCHANGED <<once, done>>
    /\ UNCHANGED <<finished, listener, registered, Inside, conns, client>>

CloseFinished(s) ==
    /\ At(s, "finish")
    /\ finished' = TRUE
    /\ once' = "over"
    /\ ListenerDone(s, "nil")
    /\ UNCHANGED <<done, listener, registered, Inside, conns, client>>

CloseAll(s) ==
    /\ At(s, "all")
    /\ client' = [c \in Clients |-> IF c \in conns THEN Closed(client[c]) ELSE client[c]]
    /\ conns' = {}
    /\ Return(s, stopper[s].err)
    /\ UNCHANGED <<shared, Inside>>

\* wg.Wait has returned, or the context of Shutdown's caller is over.
Wait(s) ==
    /\ At(s, "wait")
    /\ \/ wg = 0 /\ Return(s, stopper[s].err)
       \/ Return(s, "timeout")
    /\ UNCHANGED <<shared, Inside, conns, client>>

-----------------------------------------------------------------------------
Dial(c) ==
    /\ client[c].sock = "none"
    /\ listener = "open"
    /\ client' = [client EXCEPT ![c].sock = "queued"]
    /\ UNCHANGED <<Outside, wg, conns>>

Serving == \/ Listen \/ CheckDone \/ CountServe \/ Register \/ AcceptFails
           \/ \E c \in Clients : Accept(c) \/ Refuse(c) \/ Admit(c)

Handling(c) == \/ AddConn(c) \/ SelectCancelled(c) \/ SelectRefused(c)
               \/ SelectServed(c) \/ CloseConn(c) \/ HandlerDone(c)

Scanning(c) == ScanLine(c) \/ ScanFails(c) \/ SendError(c) \/ SendNil(c)

Stopping(s) == \/ CheckClosed(s) \/ CloseListeners(s) \/ SetDone(s)
               \/ CloseFinished(s) \/ CloseAll(s) \/ Wait(s)

Next == \/ Serving
        \/ \E c \in Clients : Dial(c) \/ Handling(c) \/ Scanning(c) \/ GitEnds(c)
        \/ \E s \in Closers : CallClose(s)
        \/ \E s \in Shutters : CallShutdown(s)
        \/ \E s \in Stoppers : Stopping(s)

\* Every goroutine is scheduled; the idle timeout ends a scan; git is killed
\* when its client's context is cancelled, and need not end before.
Fairness ==
    /\ WF_vars(Serving)
    /\ \A c \in Clients : /\ WF_vars(Handling(c))
                          /\ WF_vars(Scanning(c))
                          /\ WF_vars(GitEnds(c) /\ client[c].cancelled)
    /\ \A s \in Stoppers : WF_vars(Stopping(s))

Spec == Init /\ [][Next]_vars /\ Fairness

-----------------------------------------------------------------------------
(* Properties                                                              *)

TypeOK ==
    /\ {done, finished, registered, late} \subseteq BOOLEAN
    /\ once \in {"free", "busy", "over"}
    /\ listener \in {"none", "open", "closed"}
    /\ server \in Ended \cup {"start", "serve", "count", "register", "accept", "size"}
    /\ wg \in 0 .. Cardinality(Clients) + 1
    /\ conns \subseteq Clients
    /\ client \in [Clients -> Client]
    /\ stopper \in [Stoppers -> Stopper]

Live(c) == client[c].handler \notin {"none", "gone"}

\* A Shutdown that returns nil has waited for every client, and no client is
\* taken on afterwards, unless Serve had passed its check of done before.
ShutdownIsGraceful ==
    \A s \in Stoppers :
        stopper[s] = [op |-> "shutdown", pc |-> "returned", err |-> "nil"] /\ ~late =>
            /\ server \in Ended \cup {"start", "serve", "count"}
            /\ \A c \in Clients : ~Live(c)

\* d.conns, which the limit counts, holds no connection that is over: a client
\* that is gone has freed its place and its socket, however it ended.
PlacesAreFreed ==
    \A c \in Clients : /\ c \in conns => Live(c)
                       /\ client[c].handler = "gone" =>
                             client[c].sock = "closed" /\ c \notin conns

\* Nobody but a client git is working for keeps a connection: the idle timeout
\* lets go of a silent one, and closing a connection ends its client.
SilentClientsEnd ==
    \A c \in Clients : Live(c) ~> \/ ~Live(c)
                                  \/ Handler(c, "serve") /\ client[c].sock = "open"

\* Closing the listeners ends Serve, whatever it is doing.
ServeReturns == listener = "closed" ~> server \in Ended

\* A client leaves no goroutine behind, unless handleClient took the cancelled
\* context while the scanner's error was in the channel.
ScannersEnd ==
    \A c \in Clients :
        Handler(c, "gone") /\ client[c].scanner # "none" ~>
            \/ client[c].scanner = "done"
            \/ client[c].scanner = "nil" /\ client[c].errc = "error"

\* config.go:60: "MaxConnections is the maximum number of concurrent
\* connections."  daemon.go:127: "Close connection if there are too many open
\* connections."
LimitIsKept ==
    Cardinality({c \in Clients : /\ client[c].handler \in {"select", "serve"}
                                 /\ client[c].sock = "open"}) <= MaxConnections
=============================================================================
