---------------------------- MODULE MCMemoryReads ----------------------------
(* Three memories, two of them of one source; ids, messages, policies and  *)
(* the summary are numbers.                                                *)
EXTENDS MemoryReads, TLC

MCMemories == {1, 2, 3}
MCMessages == {11, 12}
MCSourceOf == 1 :> 11 @@ 2 :> 11 @@ 3 :> 12
MCLevels == {"private", "shared", "restricted"}
MCTokens == 1 :> 1 @@ 2 :> 2 @@ 3 :> 1 @@ 11 :> 1 @@ 12 :> 2 @@ 21 :> 1 @@ 31 :> 1
MCSimilarity == 1 :> 3 @@ 2 :> 2 @@ 3 :> 1
MCLexical == 1 :> 1 @@ 2 :> 1 @@ 3 :> 2
MCCreatedAt == 1 :> 2 @@ 2 :> 1 @@ 3 :> 1
MCSettled == 1 :> "private" @@ 2 :> "shared"
MCTags == {"a", "b"}
MCGiven == 1 :> {"a"} @@ 2 :> {"b"} @@ 3 :> {"b"}

MCRelations == {"near", "far"}
MCEnds == "near" :> {"x", "y"} @@ "far" :> {"y", "z"}
Hint(relation, confidence) == [relation |-> relation, confidence |-> confidence]
MCHints == 1 :> {Hint("near", 1)} @@ 2 :> {Hint("near", 2), Hint("near", 1)} @@ 3 :> {Hint("far", 1)}
MCInferred == {} :> {} @@ {"a"} :> {} @@ {"b"} :> {Hint("far", 1)} @@ {"a", "b"} :> {Hint("near", 2)}
MCQueryEntities == {"x"}

MCPolicies == {21}
MCPolicyLevel == 11 :> "private" @@ 12 :> "shared" @@ 21 :> "private"
MCSummary == [id |-> 31, source |-> 11, level |-> "private"]

Request(op, scope, budget, hops, filter) ==
  [op |-> op, scope |-> scope, budget |-> budget, hops |-> hops, filter |-> filter]
MCRequests ==
  {Request("retrieve", {"private", "shared"}, 4, 2, Null), Request("retrieve", {}, 9, 0, "b"),
   Request("context", {"private", "shared"}, 4, 1, Null), Request("context", {"restricted"}, 4, 1, Null)}
MCPatches ==
  {[level |-> "restricted", add |-> {}, remove |-> {}], [level |-> "shared", add |-> {"b"}, remove |-> {}],
   [level |-> Null, add |-> {"a"}, remove |-> {"b"}]}

Query(scope, tag, statuses, limit) ==
  [scope |-> scope, tag |-> tag, statuses |-> statuses, limit |-> limit]
MCQueries ==
  {Query({}, Null, {}, 1), Query({"private", "shared", "sensitive"}, Null, {"active"}, 2),
   Query({"private", "shared"}, "b", {"active"}, 1), Query({}, Null, {"soft_deleted", "redacted"}, 1)}

=============================================================================
