--------------------------- MODULE MCRefreshJobs ---------------------------
(* Instances of RefreshJobs for TLC: who runs where, which mod is edited. *)
EXTENDS RefreshJobs, TLC

CONSTANTS s1, m1, m2, p1, p2, w1, w2, c1, a1

\* Two worker threads in p1, the synchronous request in p2.
Pool == w1 :> p1 @@ w2 :> p1 @@ c1 :> p2
\* The same with an asynchronous request in p1.
PoolAndCall == Pool @@ a1 :> p1
\* One worker in p1, the synchronous request in p2.
LoneWorker == w1 :> p1 @@ c1 :> p2 @@ a1 :> p1
FirstKey == {<<s1, m1>>}

\* The second mod is untracked with its modset only: nothing a user does is
\* owed, so leaving this out takes behaviours away and adds none.
LiveNext == /\ Next
            /\ tracked' \cup FirstKey = tracked \cup FirstKey \/ modsets' # modsets
LiveSpec == Init /\ [][LiveNext]_vars /\ Fairness
=============================================================================
