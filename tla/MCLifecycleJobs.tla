-------------------------- MODULE MCLifecycleJobs --------------------------
(***************************************************************************)
(* Instances of LifecycleJobs: a retention job of two memories, an idle    *)
(* job and a close job of the same session; two workers whose owner        *)
(* strings collide (worker_owner is pid, second and counter, so two        *)
(* containers can agree).                                                  *)
(***************************************************************************)
EXTENDS LifecycleJobs, TLC

CONSTANTS r, i, c, m1, m2, w1, w2

MCKind == (r :> "retention") @@ (i :> "idle") @@ (c :> "close")
MCItems == (r :> {m1, m2}) @@ (i :> {m1}) @@ (c :> {m1})

MCOwnersCollide == (w1 :> "o") @@ (w2 :> "o")
MCOwners == {"o"}

\* What is asked for is the retention job, or the two jobs of the session, and the
\* session jobs are left alone by faults.
Asked == UNION {saw[h] : h \in Hosts} \cup {j \in Jobs : jobs[j].status # "absent"}
OneBatch == Asked \subseteq {r} \/ (Asked \subseteq {i, c} /\ faults = 0)

MCSpec == Init /\ [][Next /\ OneBatch']_vars /\ Fairness

=============================================================================
