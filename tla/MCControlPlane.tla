--------------------------- MODULE MCControlPlane ---------------------------
(* Experiments that share a policy version but not their settings, and   *)
(* two owner ids for two callers.                                          *)
EXTENDS ControlPlane

CONSTANTS e1, e2, e3, h1, h2, o1, o2

MCSafety == [s \in Severities |-> "constrain"]
Tuned(w, b) == [weights |-> w, budget |-> b, topk |-> None]
MCFirst == [lane |-> "canary", version |-> "v2", settings |-> Tuned("tuned", 900)]
MCSecond == [lane |-> "sandbox", version |-> "v2", settings |-> Tuned(None, 800)]
MCExperiments == {MCSecond}
MCCreated(x) == [status |-> "created", lane |-> x.lane, version |-> x.version,
                 settings |-> x.settings, target |-> None]
MCInitial == [i \in Ids |-> IF i = e1 THEN MCCreated(MCFirst)
                            ELSE IF i = e2 THEN MCCreated(MCSecond) ELSE Absent]
MCRequests == {[weights |-> None, budget |-> 1800, topk |-> 12]}

=============================================================================
