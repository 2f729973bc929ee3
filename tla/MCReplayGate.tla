---------------------------- MODULE MCReplayGate ----------------------------
(* Four cases, two of them retrievals, so that one may gain what the       *)
(* other loses, and two ill-formed variants of the suite.                  *)
EXTENDS ReplayGate

Case(id, kind, relevant, forbidden, expected) ==
  [id |-> id, kind |-> kind, relevant |-> relevant, forbidden |-> forbidden,
   expected |-> expected]
Recall(id, forbidden) == Case(id, "retrieval", {"a", "b"}, forbidden, "none")
Contradicts == Case("contradiction", "contradiction", {}, {}, "yes")
Reminds == Case("reminder", "reminder", {}, {}, "completed")

MCSuites ==
  {<<Recall("recall1", {"x"}), Recall("recall2", {"x"}), Contradicts, Reminds>>,
   <<Recall("recall1", {"x"}), Recall("recall2", {"a"}), Contradicts, Reminds>>,
   <<Recall("recall1", {"x"}), Recall("recall2", {"x"}), Contradicts>>}

Answer(kind, ids, value, destructive) ==
  [kind |-> kind, ids |-> ids, value |-> value, destructive |-> destructive]
MCAnswers ==
       {Answer("retrieval", ids, "none", 0) : ids \in {{"a"}, {"a", "b"}, {"a", "b", "x"}}}
  \cup {Answer("retrieval", {"a", "b"}, "none", 1)}
  \cup {Answer("contradiction", {}, v, 0) : v \in {"yes", "no"}}
  \cup {Answer("reminder", {}, v, 0) : v \in {"completed", "failed"}}

MCTimings == {<<1, 2, 3, 1>>, <<2, 1, 2, 4>>}
MCMetadata ==
  {[env |-> "host", profile |-> "release", run |-> m[1], stage |-> m[2], digest |-> Absent] :
     m \in {<<"r1", Absent>>, <<"r2", Absent>>, <<"r2", "calibration">>}}
MCThreshold == <<7, 10>>

=============================================================================
