------------------------ MODULE MCMemoryPropagation ------------------------
(***************************************************************************)
(* Two memories distilled from one source message, two clients and two     *)
(* workers, in one of two ways: both memories are ingested, forgotten and  *)
(* redacted by a client while the other ingests, with one worker and no    *)
(* crash; or one memory is ingested, replayed and forgotten by one client, *)
(* with two workers and a crash or a lapsed lease.                         *)
(***************************************************************************)
EXTENDS MemoryPropagation, TLC

CONSTANTS m1, m2, s1, c1, c2, w1, w2

MCShared == (m1 :> {s1}) @@ (m2 :> {s1})

Forgetting ==
  /\ count.crashes + count.lapses = 0 /\ pc[w2] = "idle" /\ pc[c2] \in {"idle", "commit"}
  /\ \A c \in Clients : pc[c] \notin {"replay", "replay_commit"}
  /\ \A e \in Events : events[e].kind = "sync"
Indexing ==
  /\ count.calls <= 2 /\ count.crashes + count.lapses <= 1 /\ pc[c2] = "idle" /\ mem[m2].status = "absent"
  /\ pc[c1] # "idle" => my[c1].m = m1 /\ ~my[c1].redact
  /\ \A m \in Memories : ~forget[m].redaction
OneWay == Forgetting \/ Indexing

\* Of the actions that are fair, only a claim of the second worker may be left out.
MCFairness ==
  /\ \A w \in Workers : /\ WF_vars(WorkerStep(w))
                         /\ WF_vars(\E e \in Events : ClaimEvent(w, e) /\ OneWay')
  /\ \A c \in Clients : WF_vars(ClientStep(c))
  /\ \A e \in Events : WF_vars(ExpireEvent(e) /\ UNCHANGED count)
  /\ WF_vars(ExpireLease /\ UNCHANGED count)

MCSpec == Init /\ [][Next /\ OneWay']_vars /\ MCFairness
=============================================================================
