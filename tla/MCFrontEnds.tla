----------------------------- MODULE MCFrontEnds -----------------------------
(***************************************************************************)
(* Instances of FrontEnds for TLC: the tables each scene starts with.      *)
(* User 2 owns repository 1; key ka is user 1's, kb user 2's.              *)
(***************************************************************************)
EXTENDS FrontEnds, TLC

CONSTANTS ua, ub, r1, r2, ka, kb, kc, p1, p2, x, y

Rows(admins, level, anon, keyless) ==
    [user |-> (1 :> [name |-> ua, admin |-> 1 \in admins, password |-> FALSE] @@
               2 :> [name |-> ub, admin |-> 2 \in admins, password |-> FALSE] @@
               [i \in UserIds |-> None]),
     key |-> (ka :> 1 @@ kb :> 2 @@ [k \in Keys |-> 0]),
     token |-> [t \in TokenIds |-> None],
     repo |-> (1 :> [name |-> r1, user |-> 2, private |-> FALSE] @@
               [r \in RepoIds |-> None]),
     collab |-> [r \in RepoIds |-> [u \in UserIds |->
                   IF r = 1 /\ u = 1 THEN level ELSE None]],
     lock |-> [l \in LockIds |-> None],
     anon |-> anon, keyless |-> keyless,
     last |-> [user |-> 2, token |-> 0, repo |-> 1, lock |-> 0]]

\* A token for user 2, and a lock of each user.
WithLocks(d) ==
    [d EXCEPT !.token[1] = [user |-> 2, expired |-> FALSE], !.last.token = 1,
              !.lock = [l \in LockIds |->
                 CASE l = 1 -> [repo |-> 1, user |-> 2, path |-> x]
                   [] l = 2 -> [repo |-> 1, user |-> 1, path |-> y]
                   [] OTHER -> None],
              !.last.lock = 2]
\* The token is user 2's, and user 1 is an administrator; or user 1's, who may
\* only read.
WriterLocks == WithLocks(Rows({1}, ReadWrite, ReadOnly, FALSE))
ReaderLocks == [WithLocks(Rows({}, None, ReadOnly, FALSE)) EXCEPT !.token[1].user = 1]

MCStart ==
    [s \in Scenes |->
       CASE s = "accounts" -> {Rows({1}, None, ReadOnly, FALSE)}
         [] s = "repositories" ->
               {Rows({}, None, ReadWrite, TRUE), Rows({}, ReadOnly, NoAccess, TRUE)}
         [] s = "locks" -> {WriterLocks, ReaderLocks}]
\* The second and the third lock are made in the same second.
MCSecond == [l \in LockIds |-> IF l = 1 THEN 1 ELSE 2]
MCScenes == {"accounts", "repositories", "locks"}
MCMaxRequests ==
    [s \in Scenes |-> IF s = "accounts" THEN 4 ELSE 3]
Symmetry == Permutations({p1, p2})
=============================================================================
