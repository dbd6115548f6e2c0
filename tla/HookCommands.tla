---------------------------- MODULE HookCommands ----------------------------
(***************************************************************************)
(* Who asks for changes of hooks: the webhook commands of SSH              *)
(* (pkg/ssh/cmd/webhooks.go), for administrators, and the gRPC methods     *)
(* (pkg/grpc/server.go), which answer with a hook they read again          *)
(* afterwards.  Addresses are those ValidateWebhookURL lets pass.          *)
(***************************************************************************)
EXTENDS Webhooks

ListWebhooks == {h \in HookIds : hooks[h] # None}

-----------------------------------------------------------------------------
(* SSH                                                                     *)

webhookCreateCommand(p, row) == CreateWebhook(p, row, Idle)
webhookDeleteCommand(p, h) == hooks[h] # None /\ DeleteWebhook(p, h)

\* Each flag that is given changes its field.
webhookUpdateCommand(p, h, row) ==
    \/ Webhook(p, h, row.url, None, {}, "ssh")
    \/ Webhook(p, h, None, row.active, {}, "ssh")
    \/ Webhook(p, h, None, None, row.events, "ssh")
webhookDeliveriesRedeliverCommand(p, h) ==
    \E notice \in records[h] : RedeliverWebhookDelivery(p, h, notice)

-----------------------------------------------------------------------------
(* gRPC                                                                    *)

GrpcCreateWebhook(p, row) ==
    CreateWebhook(p, row, [Idle EXCEPT !.pc = "created", !.hook = lastHook + 1])

\* The answer is the last hook there is by now, if there is one: rows of one
\* table come in the order of their ids.
GrpcCreatedWebhook(p) == At(p, "created") /\ Ends(p)
Answered == CHOOSE h \in ListWebhooks : \A i \in ListWebhooks : i <= h

GrpcUpdateWebhook(p, h, row) ==
    Webhook(p, h, row.url, row.active, row.events, "grpc")

\* The answer is the hook as it is by now, or that it is gone.
GrpcUpdatedWebhook(p) == At(p, "updated") /\ Ends(p)

\* DeleteWebhook looks the hook up first.
GrpcDeleteWebhook(p, h) == hooks[h] # None /\ DeleteWebhook(p, h)
=============================================================================
