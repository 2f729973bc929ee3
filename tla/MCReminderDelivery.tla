------------------------- MODULE MCReminderDelivery -------------------------
(***************************************************************************)
(* Two workers and one client over two reminders of the same memory.  A    *)
(* lease lapses under its owner only while one reminder is in use.         *)
(***************************************************************************)
EXTENDS ReminderDelivery

CONSTANTS w1, w2, c1, r1, r2

Unused(r) ==
  /\ state[r].status = "absent"
  /\ \A c \in Clients : pc[c] \in {"schedule", "insert"} => cur[c] # r
LapseAlone == count.lapses = 0 \/ Unused(r2)

MCSpec == Init /\ [][Next /\ LapseAlone']_vars /\ Fairness
=============================================================================
