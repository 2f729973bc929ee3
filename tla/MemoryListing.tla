---------------------------- MODULE MemoryListing ----------------------------
(***************************************************************************)
(* One page of memory.list: query_memories of src/adapters/postgres.rs     *)
(* with the filters and cursors of src/domain/memory.rs.  Rows come in the *)
(* order created_at descending, id descending; a cursor holds the key of   *)
(* the last row of its page and a fingerprint of scope and filters.        *)
(***************************************************************************)
EXTENDS Naturals, Sequences, FiniteSets, Orderings

CONSTANTS
  CreatedAt,   \* created_at of each memory; never rewritten by an upsert
  Null

\* The order of the SELECT.
Newer(a, b) == CreatedAt[a] > CreatedAt[b] \/ (CreatedAt[a] = CreatedAt[b] /\ a > b)

\* The privacy levels a query lists: without a scope all but "restricted".
EffectiveScope(query) ==
  IF query.scope = {} THEN {"private", "shared", "sensitive"} ELSE query.scope

\* Without statuses only active records match.
EffectiveStatuses(query) == IF query.statuses = {} THEN {"active"} ELSE query.statuses

\* The tag filter, any and all alike; a record's tags stand for its entities too.
HasTag(tag, tags) == tag = Null \/ tag \in tags

\* The filters of a query, for a row with its effective status.
Matches(query, entry) ==
  /\ entry.level \in EffectiveScope(query)
  /\ HasTag(query.tag, entry.tags)
  /\ entry.status \in EffectiveStatuses(query)

\* compute_query_fingerprint: scope and statuses are normalised before hashing.
Fingerprint(query) ==
  [scope |-> EffectiveScope(query), tag |-> query.tag, statuses |-> EffectiveStatuses(query)]

\* MemoryQuery::validate and decode_cursor.
ValidQuery(query, cursor) ==
  query.limit \in 1 .. 100 /\ (cursor = Null \/ cursor.fingerprint = Fingerprint(query))

\* Mutant: rows of the second of the last row are taken for listed.
AfterSecond(cursor, m) == (cursor = Null) \/ (CreatedAt[m] < cursor.created)

After(cursor, m) ==
  \/ cursor = Null
  \/ CreatedAt[m] < cursor.created
  \/ CreatedAt[m] = cursor.created /\ m < cursor.id

\* The page over the rows of a user.
Page(entries, query, cursor) ==
  LET rows == {m \in DOMAIN entries : Matches(query, entries[m]) /\ After(cursor, m)}
      sorted == InOrder(rows, {p \in rows \X rows : Newer(p[1], p[2])})
      more == Len(sorted) > query.limit
      items == SubSeq(sorted, 1, IF more THEN query.limit ELSE Len(sorted))
  IN [items |-> items,
      next |-> IF more
               THEN [created |-> CreatedAt[items[query.limit]], id |-> items[query.limit],
                     fingerprint |-> Fingerprint(query)]
               ELSE Null]

=============================================================================
