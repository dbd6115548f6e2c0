------------------------------ MODULE Content -------------------------------
(***************************************************************************)
(* One repository's content under everything that changes or reads it:     *)
(* pushes over SSH and HTTP, the branch and tag commands, the gRPC methods,*)
(* and the webhooks called for them.  A behaviour plays in one scene: what *)
(* is asked, and the hooks it starts with.                                 *)
(***************************************************************************)
EXTENDS Lookups, HookCommands

CONSTANTS
    StartRefs,    \* [Scenes -> what the repository's references may be first]
    StartHooks    \* [Scenes -> the hooks it has]

\* UNIQUE (repo_id, url).
UrlsDiffer(t) ==
    \A h, i \in HookIds : h # i /\ t[h] # None /\ t[i] # None
        => t[h].url # t[i].url

\* The hooks of the start have the first ids.
ASSUME ContentAssumption ==
    \A s \in Scenes :
       /\ StartRefs[s] \subseteq [RefNames -> Commits \cup {None}]
       /\ \A t \in StartHooks[s] :
             /\ t \in [HookIds -> HookRow \cup {None}] /\ UrlsDiffer(t)
             /\ \E k \in 0..MaxHookId : {h \in HookIds : t[h] # None} = 1..k

Init ==
    /\ scene \in Scenes
    /\ ref \in StartRefs[scene]
    /\ there \in IF ref = NoRefs THEN BOOLEAN ELSE {TRUE}
    /\ head \in Preferred
    /\ last = Cardinality(UNION {ref[r] : r \in {x \in RefNames : ref[x] # None}})
    /\ hooks \in StartHooks[scene]
    /\ lastHook = Cardinality({h \in HookIds : hooks[h] # None})
    /\ records = [h \in HookIds |-> {}]
    /\ call = [p \in Procs |-> Idle]
    /\ requests = 0

\* Whether a registered user asks; it makes no difference without hooks.
Askers == IF scene = "hooks" THEN BOOLEAN ELSE {FALSE}

\* A push from its start to its end, without the commands beside it.
PushStep(p) ==
    \/ \E via \in {"ssh", "http"}, known \in Askers :
          PushBegins(p, via, known)
    \/ PushCreates(p)
    \/ \E r \in RefNames : Receive(p, r)
    \/ ServiceRpc(p) \/ Undo(p)

\* Branches and tags changed without a push, and read.
RefStep(p) ==
    \/ \E n \in Names, known \in Askers :
          BranchDefault(p, n, known) \/ BranchDelete(p, n, known)
    \/ \E n \in Names, known \in Askers : TagDelete(p, n, known)
    \/ BranchDefaultSet(p) \/ BranchDefaultTold(p)
    \/ RefDeleted(p) \/ RefDeletedTold(p)
    \/ \E n \in Names : \/ DeleteBranch(p, n) \/ SetDefaultBranch(p, n)
                        \/ \E v \in Revisions : CreateBranch(p, n, RevParse(v))
    \/ \E base, tip \in Names, squash \in BOOLEAN :
          MergeBranches(p, base, tip, squash)
    \/ MergeLands(p)
    \/ \E n \in Names : LogStarts(p, n)
    \/ LogPage(p)

\* Hooks and what is sent to them.
HookStep(p) ==
    \/ SendWebhook(p) \/ AnswerBreaks(p)
    \/ \E row \in HookRows :
          webhookCreateCommand(p, row) \/ GrpcCreateWebhook(p, row)
    \/ \E h \in HookIds :
          \/ webhookDeleteCommand(p, h) \/ GrpcDeleteWebhook(p, h)
          \/ \E row \in HookRows :
                webhookUpdateCommand(p, h, row) \/ GrpcUpdateWebhook(p, h, row)
          \/ webhookDeliveriesRedeliverCommand(p, h)
    \/ GrpcCreatedWebhook(p) \/ GrpcUpdatedWebhook(p)
    \/ UpdateWebhook(p)

Next ==
    \E p \in Procs :
       \/ PushStep(p)
       \/ scene = "refs" /\ RefStep(p)
       \/ scene = "hooks" /\ HookStep(p)
       \/ /\ scene = "hooks"
          /\ \E n \in Names, known \in Askers :
                BranchDelete(p, n, known) \/ BranchDefault(p, n, known)
       \/ scene = "hooks" /\ (RefDeleted(p) \/ RefDeletedTold(p))
       \/ scene = "hooks" /\ (BranchDefaultSet(p) \/ BranchDefaultTold(p))

Spec == Init /\ [][Next]_contentVars

-----------------------------------------------------------------------------
(* Properties                                                              *)

Notices == [kind : Events, ref : RefNames \cup {None},
            new : Commits \cup {None}]
PCs == {"idle", "receive", "create", "hook", "push", "notify", "ran", "undo",
        "ended", "default", Sending, "update", "default2", "chosen", "delete",
        "deleted", "merge", "log", "created", "updated"}

\* The variables have the types their comments give.
TypeOK ==
    /\ there \in BOOLEAN
    /\ ref \in [RefNames -> Commits \cup {None}]
    /\ ~there => ref = NoRefs
    /\ head \in Names
    /\ last \in 0..MaxChanges
    /\ hooks \in [HookIds -> HookRow \cup {None}] /\ lastHook \in 0..MaxHookId
    /\ \A h \in HookIds : hooks[h] # None => h <= lastHook
    /\ \A h \in HookIds : records[h] \subseteq Notices
    /\ \A p \in Procs :
          /\ call[p].pc \in PCs /\ call[p].next \in PCs
          /\ call[p].pc = Sending <=> call[p].todo # {}
          /\ call[p].pc = "idle" => call[p] = Idle
    /\ requests \in 0..MaxRequests[scene]

\* A commit that was accepted stays in its branch or tag until a push, or a
\* command that deletes it, takes it away having seen it; or it is in HEAD's
\* history when its branch is deleted over gRPC.  One that somebody had not
\* seen is lost only because it came between his look and his act: to git
\* branch -D and git tag -d, to a merge (update-ref without the old value), or
\* with the repository, to the failed push that had made it (gitRunE).
PushesKept ==
    [][\A r \in RefNames :
         (ref[r] # None /\ (ref'[r] = None \/ ~(ref[r] \subseteq ref'[r])))
         => \/ \E p \in Procs :
                  /\ call[p].ref = r
                  /\ \/ call[p].pc \in {"ran", "delete"} /\ call[p].old = ref[r]
                     \/ call[p].pc \in {"delete", "merge"} /\ ~call[p].quiet
            \/ /\ ref'[r] = None /\ HEAD # None /\ ref[r] \subseteq HEAD
               /\ \E p \in Procs : call[p] = Idle /\ call'[p] = Idle
            \/ /\ ~there'
               /\ \E p \in Procs : /\ call[p].pc = "undo" /\ call[p].made
                                 /\ ~call[p].quiet]_contentVars

\* HEAD refers to a branch that exists after every push that ended well, and
\* to main or master if it was made to; and it stops doing so only by gRPC,
\* with the repository, or when somebody else came in between.
HeadStands ==
    [][/\ \A p \in Procs :
            (/\ call[p].pc \in {"ended", "default"} /\ call'[p] = Idle
             /\ call[p].quiet /\ there /\ Branches # {})
            => /\ Tip(head)' # None
               /\ head' # head =>
                     head' \in Preferred \/ Branches \cap Preferred = {}
       /\ (HEAD # None /\ HEAD' = None /\ there')
            => \/ \E p \in Procs : call[p] # Idle /\ call'[p] # call[p]
                                   /\ ~call[p].quiet
               \/ requests' > requests]_contentVars

\* What a push is announced as.
AnnouncedAs(old, new) ==
    (IF new = None THEN {"branch_tag_delete"} ELSE {"push"})
    \cup IF old = None THEN {"branch_tag_create"} ELSE {}

\* When a registered user's push moves a reference, every hook that was
\* subscribed to what it is has its delivery recorded already, unless an
\* answer broke off or somebody changed something meanwhile.
Announced ==
    [][\A p \in Procs :
         LET c == call[p] IN
         (/\ c.pc = "ran" /\ call'[p].pc = "ended" /\ ref' # ref
          /\ c.known /\ c.quiet /\ ~c.broken)
         => \A h \in HookIds : hooks[h] # None =>
               \A k \in AnnouncedAs(c.old, c.new) \cap hooks[h].events :
                  Notice(k, c.ref, c.new) \in records[h]]_contentVars

\* An update that succeeds, when nobody else has come in between, leaves the
\* hook exactly as asked, its other fields and all other hooks as they were,
\* and one that was just created is the one answered; and however updates
\* overlap no two hooks share an address.
HookAsAsked ==
    [][/\ UrlsDiffer(hooks')
       /\ \A p \in Procs :
            LET c == call[p] IN
            (c.pc = "update" /\ call'[p].pc # "update" /\ hooks' # hooks)
            => /\ hooks'[c.hook] = c.row
               /\ \A h \in HookIds \ {c.hook} : hooks'[h] = hooks[h]
       /\ \A p \in Procs :
            (GrpcCreatedWebhook(p) /\ call[p].quiet)
            => Answered = call[p].hook]_contentVars

\* A client that reads a branch's history to its last page has seen every
\* commit that was there when it began, whatever is pushed meanwhile, as
\* long as the branch only grew from page to page.
HistoryComplete ==
    [][\A p \in Procs :
         LET c == call[p]
             now == ShortName(c.ref[2]) IN
         (/\ LogPage(p) /\ call'[p] = Idle
          /\ there /\ now # None /\ c.new \subseteq now /\ c.grown)
         => c.old \subseteq c.seen \cup CommitsByPage(now, c.page, PageSize)
      ]_contentVars

\* README.md:696 "update      Update a repository webhook": an update of a hook
\* that is there, to an address no other hook has, takes effect.
UpdateTakesEffect ==
    [][\A p \in Procs :
         LET c == call[p] IN
         (/\ UpdateWebhook(p) /\ hooks[c.hook] # None
          /\ ~UrlTaken(c.row.url, c.hook))
         => hooks'[c.hook] = c.row]_contentVars

\* pkg/grpc/README.md:461 "Get file history (commits that modified a file)".
HistoryIsTheFiles ==
    there => \A v \in Revisions, path \in Paths :
       (SearchedFrom(v) # None /\ GetBlob(v, path) # None)
       => GetFileHistory(v, path, MaxChanges) \subseteq GetBlob(v, path)

\* pkg/grpc/README.md:354 "ref: Branch, tag, or commit SHA to start from": the
\* listing starts at the commit that GetCommit shows.
StartsWhereAsked ==
    there => \A v \in Revisions :
       LET got == ListCommits(v, 1, 1) IN
       (v.is = "commit" /\ got # None) => got.commits = {GetCommit(v)}

\* A name is the same commit to all who read it, over gRPC and SSH, and
\* branches are compared that are merged.
NamesAgree ==
    there =>
    /\ \A n \in Names :
          LET v == NameRevision(n)
              got == ListCommits(v, 1, 1) IN
          got # None => /\ got.commits = SearchCommits(v, 1..MaxChanges, 1)
                        /\ got.commits = {CommitCommand(v)}
    /\ \A base, tip \in Branches :
          Merged(Tip(base), Tip(tip), FALSE) # None
          => Compare(NameRevision(base), NameRevision(tip)).ahead # {}

\* pkg/grpc/README.md:69 "CheckPath - Check if a file or directory exists at a
\* reference": it says whether the command tree would show something.
PathIsChecked ==
    there => \A v \in Revisions, path \in Paths :
       CheckPath(v, path) =
          IF TreeCommand(v, path) # None THEN "present" ELSE "absent"
=============================================================================
