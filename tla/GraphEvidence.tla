---------------------------- MODULE GraphEvidence ----------------------------
(***************************************************************************)
(* Provenance of the knowledge graph.  A relationship of the graph store   *)
(* carries two parallel arrays, the memories it was derived from and the   *)
(* confidence each of them gave it; here one sequence of pairs.  Models    *)
(* src/domain/graph.rs and the Cypher statements of                        *)
(* src/adapters/neo4j.rs; the recency array is kept like the confidences.  *)
(***************************************************************************)
EXTENDS Naturals, Sequences, FiniteSets, FiniteSetsExt, Orderings

CONSTANTS
  Relations,   \* relationship keys
  Ends,        \* the two entities of each relationship
  MaxLinked    \* LIMIT of the traversal, 64

\* graphify_record: hints of one relationship are merged, the most confident wins.
Graphify(hints) ==
  [r \in {h.relation : h \in hints} |->
     Max({h.confidence : h \in {x \in hints : x.relation = r}})]

SourcesOfEdge(e) == {e[i].memory : i \in DOMAIN e}

\* r.confidence: the greatest of its sources, 0 without one.
Confidence(e) == Max({0} \cup {e[i].confidence : i \in DOMAIN e})

\* The members of a sequence at the places in S, in order.
Picked(e, S) == LET at == InOrder(S, Ascending(S)) IN [k \in DOMAIN at |-> e[at[k]]]

OthersOf(e, m) == {i \in DOMAIN e : e[i].memory # m}

\* Mutant: an edge with a single source is not rewritten.
WithoutShared(edges, m) ==
  [r \in Relations |-> IF Len(edges[r]) = 1 THEN edges[r]
                       ELSE Picked(edges[r], OthersOf(edges[r], m))]

\* redact_memory_edges, and the first half of replace_memory_graph; an edge
\* left without a source is deleted.
Without(edges, m) ==
  [r \in Relations |-> Picked(edges[r], OthersOf(edges[r], m))]

\* replace_memory_graph: one source's contribution is replaced in one statement.
Replaced(edges, m, contribution) ==
  [r \in Relations |->
     IF r \in DOMAIN contribution
     THEN Append(Without(edges, m)[r], [memory |-> m, confidence |-> contribution[r]])
     ELSE Without(edges, m)[r]]

\* The sources of every relationship on a path of at most hops relationships
\* from a matching entity.
Related(edges, entities, hops) ==
  LET present == {r \in Relations : edges[r] # <<>>}
      reach[n \in 0 .. hops] ==
        IF n = 0 THEN entities
        ELSE reach[n - 1] \cup UNION {Ends[r] : r \in {x \in present : Ends[x] \cap reach[n - 1] # {}}}
  IN IF hops = 0 THEN {}
     ELSE UNION {SourcesOfEdge(edges[r]) : r \in {x \in present : Ends[x] \cap reach[hops - 1] # {}}}

\* related_memory_ids: DISTINCT ids in no order, cut off at the limit of the Cypher
\* statement; the caller's truncation to 1000 ids never cuts off more.
RelatedIds(edges, entities, hops) ==
  LET all == Related(edges, entities, hops)
  IN {ids \in SUBSET all :
        IF Cardinality(all) <= MaxLinked THEN ids = all ELSE Cardinality(ids) = MaxLinked}

=============================================================================
