------------------------------- MODULE KeyCache -------------------------------
(***************************************************************************)
(* The signing keys of an Authenticator, src/api/auth.rs: fetched at the   *)
(* start, and again when a token names a key that is not among them, at    *)
(* most once in RefreshAfter.  One token is looked up at a time (the cache *)
(* is behind a mutex, held during the fetch).  Time counts to RefreshAfter *)
(* and stays there.                                                        *)
(***************************************************************************)
EXTENDS Naturals, FiniteSets

CONSTANTS
  KeyIds,       \* key ids
  RefreshAfter, \* one second, in ticks
  MaxRotations, \* bound on changes of the published keys
  MaxOutages    \* bound on fetches that fail

ASSUME KeyAssumption ==
  KeyIds # {} /\ RefreshAfter \in Nat \ {0} /\ MaxRotations \in Nat /\ MaxOutages \in Nat

VARIABLES
  published,  \* the keys the issuer serves
  keys,       \* the keys in the cache
  elapsed,    \* time since last_refresh, up to RefreshAfter
  rotations, outages

signing == <<published, keys, elapsed, rotations, outages>>

KeyTypeOK ==
  /\ published \subseteq KeyIds /\ published # {} /\ keys \subseteq KeyIds /\ keys # {}
  /\ elapsed \in 0 .. RefreshAfter
  /\ rotations \in 0 .. MaxRotations /\ outages \in 0 .. MaxOutages

\* Authenticator::new fails unless the keys can be fetched, and there are some.
KeyInit ==
  /\ published \in (SUBSET KeyIds) \ {{}}
  /\ keys = published
  /\ elapsed = 0 /\ rotations = 0 /\ outages = 0

Rotate ==
  /\ rotations < MaxRotations /\ rotations' = rotations + 1
  /\ published' \in (SUBSET KeyIds) \ {{}, published}
  /\ UNCHANGED <<keys, elapsed, outages>>

SecondPasses ==
  /\ elapsed < RefreshAfter /\ elapsed' = elapsed + 1
  /\ UNCHANGED <<published, keys, rotations, outages>>

\* Mutant: a look-up that comes too early starts the wait again.
LookupRestarts(k, found) ==
  \/ /\ k \in keys /\ found
     /\ UNCHANGED signing
  \/ /\ k \notin keys /\ elapsed < RefreshAfter /\ ~found
     /\ elapsed' = 0 /\ UNCHANGED <<published, keys, rotations, outages>>
  \/ /\ k \notin keys /\ elapsed = RefreshAfter
     /\ elapsed' = 0 /\ keys' = published /\ found = (k \in published)
     /\ UNCHANGED <<published, rotations, outages>>

\* find_or_refresh: whether the key is found.  last_refresh is set before the
\* fetch, whatever comes of it; what is fetched replaces all keys.
Lookup(k, found) ==
  \/ /\ k \in keys /\ found
     /\ UNCHANGED signing
  \/ /\ k \notin keys /\ elapsed < RefreshAfter /\ ~found
     /\ UNCHANGED signing
  \/ /\ k \notin keys /\ elapsed = RefreshAfter
     /\ elapsed' = 0
     /\ \/ keys' = published /\ found = (k \in published) /\ UNCHANGED outages
        \/ /\ outages < MaxOutages /\ outages' = outages + 1
           /\ ~found /\ UNCHANGED keys
     /\ UNCHANGED <<published, rotations>>

-----------------------------------------------------------------------------
\* A key the issuer goes on publishing is accepted in the end, as long as tokens
\* that name it go on coming: neither the limit on fetches, nor tokens that name
\* a key nobody knows, nor a fetch that fails keep it out for good.
KeysPickedUp == \A k \in KeyIds : <>[](k \in published) => []<>(k \in keys)

=============================================================================
