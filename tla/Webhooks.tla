------------------------------ MODULE Webhooks ------------------------------
(***************************************************************************)
(* Webhooks (pkg/webhook, pkg/backend/webhooks.go and its queries): the    *)
(* hooks of a repository, the events each is subscribed to, the calls made *)
(* when something happens and the deliveries recorded.                     *)
(*                                                                         *)
(* A hook's row with its events is [url, form, active, events]; form is    *)
(* the content type.  Each backend operation is one transaction; sending   *)
(* an event is none: the hooks are read, then called one by one.           *)
(***************************************************************************)
EXTENDS Refs

Sending == "sending"

\* GetWebhooksByRepoIDWhereEvent: whether a hook is active is not asked.
GetWebhooksByRepoIDWhereEvent(e) ==
    {h \in HookIds : hooks[h] # None /\ e \in hooks[h].events}

\* Where SendEvent's caller is when it returns: a command that sends its
\* event last is over, and does not say what happened.
Resumes(c) == IF c.pc = "idle" THEN Idle ELSE c

\* SendEvent: a request, which is c, reads the hooks subscribed to the
\* notice's event, and calls each before it goes on at next.
SendEvent(c, notice, next) ==
    LET calls == GetWebhooksByRepoIDWhereEvent(notice.kind) IN
    IF calls = {} THEN Resumes([c EXCEPT !.pc = next])
    ELSE [c EXCEPT !.pc = Sending, !.notice = notice, !.todo = calls,
                   !.next = next]

\* The call of hook h is over: the loop goes on, or ends with an error.
Sent(c, h, ok) ==
    IF ok /\ c.todo # {h} THEN [c EXCEPT !.todo = @ \ {h}]
    ELSE Resumes([c EXCEPT !.pc = c.next, !.notice = None, !.todo = {},
                           !.next = "idle", !.broken = @ \/ ~ok])

\* CreateWebhookDelivery: the foreign key needs the hook to be there.
CreateWebhookDelivery(h, notice) ==
    records' = IF hooks[h] = None THEN records
               ELSE [records EXCEPT ![h] = @ \cup {notice}]

\* SendWebhook: a request that fails is recorded like one that is answered.
\* The query leaves open in which order the hooks come.
SendWebhook(p) ==
    /\ At(p, Sending)
    /\ \E h \in call[p].todo :
          /\ CreateWebhookDelivery(h, call[p].notice)
          /\ call' = [call EXCEPT ![p] = Sent(call[p], h, hooks[h] # None)]
    /\ UNCHANGED <<repo, hooks, lastHook, requests, scene>>

\* The body of the answer breaks off: nothing is recorded and the loop ends.
AnswerBreaks(p) ==
    /\ At(p, Sending)
    /\ \E h \in call[p].todo : Step(p, Sent(call[p], h, FALSE))
    /\ UNCHANGED requests

-----------------------------------------------------------------------------
(* The operations of the backend                                           *)

\* UNIQUE (repo_id, url).
UrlTaken(url, but) ==
    \E h \in HookIds \ {but} : hooks[h] # None /\ hooks[h].url = url

\* A transaction leaves t in the table of hooks; request p goes on as c.
Writes(p, t, c) ==
    /\ hooks' = t
    /\ IF t = hooks THEN call' = [call EXCEPT ![p] = c]
       ELSE Overtakes(p, c, FALSE)
    /\ UNCHANGED <<repo, scene>>

CreateWebhookBug(p, row, c) ==
    /\ StartsAndEnds(p)
    /\ there
    /\ lastHook < MaxHookId
    /\ ~UrlTaken(row.url, 0)
    /\ Writes(p, [hooks EXCEPT ![lastHook + 1] = row], c)
    /\ UNCHANGED <<lastHook, records>>
CreateWebhook(p, row, c) ==
    /\ StartsAndEnds(p)
    /\ there
    /\ lastHook < MaxHookId
    /\ IF UrlTaken(row.url, 0)
       THEN Writes(p, hooks, Idle) /\ UNCHANGED <<lastHook, records>>
       ELSE /\ Writes(p, [hooks EXCEPT ![lastHook + 1] = row], c)
            /\ lastHook' = lastHook + 1
            /\ UNCHANGED records

\* The events and the deliveries go with the hook.
DeleteWebhook(p, h) ==
    /\ StartsAndEnds(p)
    /\ Writes(p, [hooks EXCEPT ![h] = None], Idle)
    /\ records' = [records EXCEPT ![h] = {}]
    /\ UNCHANGED lastHook

\* DeleteWebhookEventsByID: sqlx.In refuses an empty list.
DeleteWebhookEventsByID(gone) == gone # {}

\* The events a hook has after UpdateWebhook, or None when it fails: those
\* asked for no more are deleted, those it did not have are inserted.
UpdatedEventsBug(current, asked) ==
    LET gone == current \ asked IN
    IF DeleteWebhookEventsByID(gone) THEN current \ gone ELSE None
UpdatedEvents(current, asked) ==
    LET gone == current \ asked
        fresh == asked \ current IN
    IF DeleteWebhookEventsByID(gone)
    THEN (current \ gone) \cup fresh ELSE None

\* Both front ends read the hook first and keep what is not asked for; via
\* is the front end.
Webhook(p, h, url, active, events, via) ==
    /\ hooks[h] # None
    /\ LET row == hooks[h] IN
       Starts(p, [Idle EXCEPT
          !.pc = "update", !.hook = h, !.via = via,
          !.row = [url |-> IF url = None THEN row.url ELSE url,
                   form |-> row.form,
                   active |-> IF active = None THEN row.active ELSE active,
                   events |-> IF events = {} THEN row.events ELSE events]])

\* UPDATE of a row that is gone changes nothing; its events are gone too, so
\* that the list to delete is empty and the transaction fails.
UpdateWebhook(p) ==
    /\ At(p, "update")
    /\ LET c == call[p]
           current == IF hooks[c.hook] = None THEN {} ELSE hooks[c.hook].events
           events == UpdatedEvents(current, c.row.events) IN
       IF UrlTaken(c.row.url, c.hook) \/ events = None
       THEN Writes(p, hooks, Idle)
       ELSE Writes(p, [hooks EXCEPT ![c.hook] = [c.row EXCEPT !.events = events]],
                   IF c.via = "grpc" THEN [Idle EXCEPT !.pc = "updated",
                                                       !.hook = c.hook]
                   ELSE Idle)
    /\ UNCHANGED <<lastHook, records, requests>>

\* RedeliverWebhookDelivery: the recorded body goes to the hook as it is now;
\* a body read from JSON cannot be sent as a form.
RedeliverWebhookDelivery(p, h, notice) ==
    /\ hooks[h] # None /\ notice \in records[h]
    /\ Starts(p, IF hooks[h].form THEN Idle
                 ELSE [Idle EXCEPT !.pc = Sending, !.notice = notice,
                          !.todo = {h}])
=============================================================================
