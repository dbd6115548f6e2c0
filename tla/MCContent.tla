----------------------------- MODULE MCContent ------------------------------
(***************************************************************************)
(* Instance of Content: a branch main that is preferred, a branch and a    *)
(* tag that share a name, a few commits and two hooks.                     *)
(***************************************************************************)
EXTENDS Content

CONSTANTS main, dev, readme, src, code

MCRefNames == {<<"heads", main>>, <<"heads", dev>>, <<"tags", dev>>}
MCFileOf == [i \in 1..MaxChanges |-> IF i = 2 THEN code ELSE readme]
MCDirectoryOf == [f \in {readme, src, code} |-> IF f = code THEN src ELSE None]

Row(url, form, active, events) ==
    [url |-> url, form |-> form, active |-> active, events |-> events]
MCHookRows ==
    {Row("a", FALSE, TRUE, {"push", "branch_tag_create"}),
     Row("b", TRUE, FALSE, {"push", "branch_tag_delete"})}
Two == [h \in HookIds |->
          IF h = 1 THEN Row("a", FALSE, TRUE, {"push", "branch_tag_create"})
          ELSE IF h = 2 THEN Row("b", TRUE, TRUE, Events) ELSE None]
Refs(m, d, t) ==
    [r \in MCRefNames |-> CASE r = <<"heads", main>> -> m
                            [] r = <<"heads", dev>> -> d
                            [] OTHER -> t]
MCStartRefs ==
    [s \in Scenes |->
        IF s = "hooks" THEN {Refs({1}, {1}, None)}
        ELSE {Refs(None, None, None), Refs({1}, {1, 2}, {1}),
              Refs({1}, {2}, None)}]
MCStartHooks ==
    [s \in Scenes |-> IF s = "hooks" THEN {Two}
                      ELSE {[h \in HookIds |-> None]}]
MCMaxRequests == [s \in Scenes |-> IF s = "refs" THEN 3 ELSE 2]
=============================================================================
