---------------------------- MODULE ConnectionPool ----------------------------
(***************************************************************************)
(* The connection pool of PostgresAdapter in src/adapters/postgres.rs:     *)
(* counters and idle connections under one mutex, a condition variable for *)
(* threads above the limit.  A critical section is one action; a thread    *)
(* woken by the condition variable looks again, and a newcomer may come    *)
(* first.  Only foreground connections are modelled: nothing in the crate  *)
(* calls renewal_client.                                                   *)
(***************************************************************************)
EXTENDS Naturals, Sequences, FiniteSets

CONSTANTS
  Threads,        \* threads that use the pool
  MaxForeground,  \* connections in use at a time
  MaxIdle         \* connections kept

ASSUME PoolAssumption ==
  /\ IsFiniteSet(Threads)
  /\ MaxForeground \in Nat \ {0} /\ MaxIdle \in Nat /\ MaxIdle >= MaxForeground

VARIABLES
  active,  \* active_foreground
  idle,    \* the idle connections, last returned last: TRUE while the server keeps it open
  conn     \* what each thread does with the pool

pool == <<active, idle, conn>>

ConnStates == {"none", "waiting", "notified", "connecting", "held"}

PoolTypeOK ==
  /\ active \in 0 .. MaxForeground
  /\ idle \in Seq(BOOLEAN)
  /\ conn \in [Threads -> ConnStates]

PoolInit ==
  /\ active = 0
  /\ idle = <<>>
  /\ conn = [t \in Threads |-> "none"]

In(state) == {t \in Threads : conn[t] = state}

\* Outside checkout, and about to look at the counter.
Looking(t) == conn[t] \in {"none", "notified"}

\* Mutant: one thread too many.
AdmitOneMore(t) ==
  /\ Looking(t) /\ active <= MaxForeground
  /\ active' = active + 1
  /\ conn' = [conn EXCEPT ![t] = "connecting"]
  /\ UNCHANGED idle

\* Mutant: an idle connection is looked at, not taken.
AdmitKeepsIdle(t) ==
  /\ Looking(t) /\ active < MaxForeground
  /\ active' = active + 1
  /\ conn' = [conn EXCEPT ![t] = IF idle # <<>> /\ idle[Len(idle)] THEN "held" ELSE "connecting"]
  /\ UNCHANGED idle

\* checkout below the limit: the last idle connection, a new one when there is
\* none or the server has closed it.
Admit(t) ==
  /\ Looking(t) /\ active < MaxForeground
  /\ active' = active + 1
  /\ IF idle = <<>>
     THEN conn' = [conn EXCEPT ![t] = "connecting"] /\ UNCHANGED idle
     ELSE /\ conn' = [conn EXCEPT ![t] = IF idle[Len(idle)] THEN "held" ELSE "connecting"]
          /\ idle' = SubSeq(idle, 1, Len(idle) - 1)

\* checkout at the limit.
Wait(t) ==
  /\ Looking(t) /\ active >= MaxForeground
  /\ conn' = [conn EXCEPT ![t] = "waiting"]
  /\ UNCHANGED <<active, idle>>

Connected(t) ==
  /\ conn[t] = "connecting"
  /\ conn' = [conn EXCEPT ![t] = "held"]
  /\ UNCHANGED <<active, idle>>

\* Mutant: nobody is told.
GiveUpSilently(t) == conn' = [conn EXCEPT ![t] = "none"]

\* The slot is given up and, with notify_one, one waiting thread woken.
GiveUp(t) ==
  IF In("waiting") = {} THEN conn' = [conn EXCEPT ![t] = "none"]
  ELSE \E w \in In("waiting") : conn' = [conn EXCEPT ![t] = "none", ![w] = "notified"]

ConnectFails(t) ==
  /\ conn[t] = "connecting"
  /\ active' = active - 1
  /\ GiveUp(t)
  /\ UNCHANGED idle

Returned(open) == IF open /\ Len(idle) < MaxIdle THEN Append(idle, TRUE) ELSE idle

\* drop of a PooledClient, with the connection open or closed.
Return(t, open) ==
  /\ conn[t] = "held"
  /\ active' = active - 1
  /\ idle' = Returned(open)
  /\ GiveUp(t)

\* A condition variable may wake a thread for no reason.
SpuriousWake(t) ==
  /\ conn[t] = "waiting"
  /\ conn' = [conn EXCEPT ![t] = "notified"]
  /\ UNCHANGED <<active, idle>>

\* The server closes the connection on top of the stack.
ServerCloses ==
  /\ idle # <<>> /\ idle[Len(idle)]
  /\ idle' = [idle EXCEPT ![Len(idle)] = FALSE]
  /\ UNCHANGED <<active, conn>>

-----------------------------------------------------------------------------
\* The counter is the number of threads that have a connection or open one, and
\* with the idle ones there are never more connections to the server than the
\* limit: a connection is opened only when none is idle.
ConnectionsBounded ==
  /\ active = Cardinality(In("connecting") \cup In("held"))
  /\ active + Len(idle) <= MaxForeground

\* No wake-up is lost: as long as a thread waits, every slot is taken or already
\* promised to a thread on its way, although newcomers take slots and failed
\* connections give them back.
NoLostWakeup ==
  In("waiting") # {} => active + Cardinality(In("notified")) >= MaxForeground

=============================================================================
