----------------------------- MODULE CallContract -----------------------------
(***************************************************************************)
(* What execution_status and the answer of call_json promise the host, one *)
(* call at a time: "not_started" means that the tool has not run and never *)
(* will, an answer that it has run to its end, "outcome_unknown" that it   *)
(* was started.  ClientRuntime implements this.                            *)
(***************************************************************************)
CONSTANT Calls

VARIABLES stage, told

vars == <<stage, told>>

Stages == {"new", "pending", "refused", "working", "finished"}
Answers == {"nothing", "answer", "not_started", "outcome_unknown"}

Init ==
  /\ stage = [c \in Calls |-> "new"]
  /\ told = [c \in Calls |-> "nothing"]

Move(c, from, to) == stage[c] = from /\ stage' = [stage EXCEPT ![c] = to]
Tell(c, what) == told[c] = "nothing" /\ told' = [told EXCEPT ![c] = what]

Invoke(c) == Move(c, "new", "pending") /\ UNCHANGED told

\* Told at once, later, or never to a host that went away.
Refuse(c) ==
  /\ Move(c, "new", "refused") \/ Move(c, "pending", "refused")
  /\ Tell(c, "not_started") \/ UNCHANGED told
TellRefused(c) == stage[c] = "refused" /\ Tell(c, "not_started") /\ UNCHANGED stage

Start(c) == Move(c, "pending", "working") /\ UNCHANGED told
Finish(c) == Move(c, "working", "finished") /\ UNCHANGED told

TellAnswer(c) == stage[c] = "finished" /\ Tell(c, "answer") /\ UNCHANGED stage
TellUnknown(c) ==
  /\ stage[c] \in {"working", "finished"}
  /\ Tell(c, "outcome_unknown")
  /\ UNCHANGED stage

Next ==
  \E c \in Calls :
    \/ Invoke(c) \/ Refuse(c) \/ TellRefused(c) \/ Start(c) \/ Finish(c)
    \/ TellAnswer(c) \/ TellUnknown(c)

Spec == Init /\ [][Next]_vars

=============================================================================
