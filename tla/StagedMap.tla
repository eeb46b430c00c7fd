----------------------------- MODULE StagedMap -----------------------------
(***************************************************************************)
(* The storage discipline shared by every sub-ledger of src/chain: an      *)
(* in-memory "current" map that all validation reads, a pending-add map, a *)
(* pending-delete set, and the key-value store that Put and Delete write   *)
(* through to at once.  A sub-ledger value is a record                     *)
(*     [cur |-> f, add |-> g, del |-> D, db |-> h]                         *)
(* where f, g, h are functions with finite domains (partial maps) and D is *)
(* a set of keys.  The operators are pure; the modules of the individual   *)
(* sub-ledgers apply them to their own variables.                          *)
(***************************************************************************)
EXTENDS FiniteSets, Functions

\* The empty partial map.
EmptyMap == [k \in {} |-> 0]

\* f with key k set to v (k may or may not be in DOMAIN f already).
Upd(f, k, v) == [x \in DOMAIN f \cup {k} |-> IF x = k THEN v ELSE f[x]]

\* f without key k.
Drop(f, k) == Restrict(f, DOMAIN f \ {k})

\* f overridden by g: the entries of g win.
Override(f, g) == [x \in DOMAIN f \cup DOMAIN g |-> IF x \in DOMAIN g THEN g[x] ELSE f[x]]

\* A freshly constructed sub-ledger whose store holds db and whose current
\* map was loaded from it.
NewStaged(db) == [cur |-> db, add |-> EmptyMap, del |-> {}, db |-> db]

\* Mutant: k is not taken out of pending-delete.
PutKeepsDelete(S, k, v) ==
    [S EXCEPT !.add = Upd(@, k, v), !.db = Upd(@, k, v)]

\* PutX(db, k, v): drop k from pending-delete, stage it in pending-add and
\* write it to the store (e.g. PutStaker, PutAction, PutDetail, PutUser).
Put(S, k, v) ==
    [S EXCEPT !.del = @ \ {k},
              !.add = Upd(@, k, v),
              !.db  = Upd(@, k, v)]

\* A loop of PutX over the entries of f (e.g. UpdateOwner for every staker
\* of a role): the puts touch distinct keys, so their order is immaterial.
PutAll(S, f) ==
    [S EXCEPT !.del = @ \ DOMAIN f,
              !.add = Override(@, f),
              !.db  = Override(@, f)]

\* Mutant: the empty delete marker (&ActionMeta{}) lands in pending-add.
DeleteMarksAdd(S, k) ==
    [S EXCEPT !.add = Upd(@, k, 0), !.del = @ \cup {k}, !.db = Drop(@, k)]

\* DelX(db, k): drop k from pending-add, mark it in pending-delete and
\* delete it from the store.
Delete(S, k) ==
    [S EXCEPT !.add = Drop(@, k),
              !.del = @ \cup {k},
              !.db  = Drop(@, k)]

\* CacheXCommit: copy pending-add into current, remove pending-delete keys
\* from current, clear both pending buffers.  The store is not touched.
Commit(S) ==
    [S EXCEPT !.cur = Restrict(Override(@, S.add), (DOMAIN @ \cup DOMAIN S.add) \ S.del),
              !.add = EmptyMap,
              !.del = {}]

\* CacheXAbort: clear both pending buffers.  Neither the current map nor
\* the store is touched.
Abort(S) == [S EXCEPT !.add = EmptyMap, !.del = {}]

\* ReloadX on process start: a new sub-ledger whose current map is the
\* content of the store restricted to the keys the reload keeps; the rows
\* it skips stay in the store.
Reload(S, keep) == [NewStaged(Restrict(S.db, DOMAIN S.db \cap keep)) EXCEPT !.db = S.db]

\* The map that Commit would produce now: what the spec says validation
\* should see ("reads current+pending sub-ledger state").
Tentative(S) == Restrict(Override(S.cur, S.add), (DOMAIN S.cur \cup DOMAIN S.add) \ S.del)

\* Lookup in the current map only, which is what every GetX of the code does.
Has(S, k) == k \in DOMAIN S.cur
=============================================================================
