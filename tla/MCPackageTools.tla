---------------------------- MODULE MCPackageTools ----------------------------
(* PackageTools on a small instance. *)
EXTENDS PackageTools

CONSTANTS p1, p2, k1, t1, u1, x1, x2

Policy(privacy, enabled) == [privacy |-> privacy, enabled |-> enabled]
PolicyRequest(op, id, value, scope) ==
  [op |-> op, id |-> id, value |-> value, scope |-> scope, disabled |-> FALSE, scoped |-> TRUE]
Plain == Policy("private", TRUE)
Off == Policy("private", FALSE)
List == PolicyRequest("list", None, None, None)
Upsert1 == PolicyRequest("upsert", p1, Plain, None)
Change == {PolicyRequest("upsert", p1, Off, None), PolicyRequest("remove", p1, None, None)}
Others ==
  {List, Upsert1, PolicyRequest("upsert", p2, Plain, None), PolicyRequest("drain", None, None, None),
   [PolicyRequest("list", None, None, {"private", "sensitive"}) EXCEPT !.disabled = TRUE],
   [List EXCEPT !.scoped = FALSE]}

Item(scope, name) == [scope |-> scope, name |-> name]
BatchRequest(tool, key, items) == [tool |-> tool, key |-> key, items |-> items]
One == <<Item(u1, x1)>>
Two == <<Item(u1, x1), Item(u1, x2)>>
MCBatchRequests ==
  {BatchRequest("ingest", k1, One), BatchRequest("ingest", k1, Two),
   BatchRequest("ingest", NoKey, One), BatchRequest("ingest", NoKey, <<>>),
   BatchRequest("forget", k1, Two), BatchRequest("retrieve", k1, One),
   BatchRequest("ingest", k1, Two \o One), BatchRequest("ingest", k1, <<Item(u1, x1), Item(t1, x2)>>),
   BatchRequest("ingest", k1, <<Item(Unset, x1)>>)}

\* A policy goes and comes back between two lists; any two policy calls; three
\* batches of two requests under one key; any two batches.
MCFirst == [id |-> p1, value |-> Plain]
OneKey == {BatchRequest("ingest", k1, One), BatchRequest("ingest", k1, Two)}
MCToolWorkloads ==
  {[policy |-> <<{List}, Change, {Upsert1}, {List}>>, batch |-> <<>>],
   [policy |-> <<Others, Others>>, batch |-> <<>>],
   [policy |-> <<>>, batch |-> <<OneKey, OneKey, OneKey>>],
   [policy |-> <<>>, batch |-> <<MCBatchRequests, MCBatchRequests>>]}
=============================================================================
