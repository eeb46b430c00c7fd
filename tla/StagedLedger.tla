---------------------------- MODULE StagedLedger ----------------------------
(***************************************************************************)
(* One sub-ledger of src/chain driven by its callers: transactions Put and *)
(* Delete records and the host ends each block with Commit or Abort.  The *)
(* stakerState of stake_status.go is the instance mapped, its key a        *)
(* (role, address) pair; actionsState, detailsState, powState, rewardState *)
(* and userTypesState follow the same code line for line.                  *)
(***************************************************************************)
EXTENDS StagedMap

CONSTANTS Keys, Vals, InitDb

VARIABLE S

TypeOK ==
    /\ DOMAIN S.cur \subseteq Keys /\ \A k \in DOMAIN S.cur : S.cur[k] \in Vals
    /\ DOMAIN S.add \subseteq Keys /\ \A k \in DOMAIN S.add : S.add[k] \in Vals
    /\ S.del \subseteq Keys
    /\ DOMAIN S.db \subseteq Keys /\ \A k \in DOMAIN S.db : S.db[k] \in Vals

Init == S = NewStaged(InitDb)

PutAction(k, v) == S' = Put(S, k, v)
DelAction(k)    == S' = Delete(S, k)
CacheCommit     == S' = Commit(S)
CacheAbort      == S' = Abort(S)

Next ==
    \/ \E k \in Keys, v \in Vals : PutAction(k, v)
    \/ \E k \in Keys : DelAction(k)
    \/ CacheCommit
    \/ CacheAbort

Spec == Init /\ [][Next]_S

\* The host ends every block it verified with Accept (Commit) or Reject
\* (Abort); callers' Put and Delete are not required to happen.
FairSpec == Spec /\ WF_S(CacheCommit \/ CacheAbort)

Atomic == INSTANCE AtomicMap WITH committed <- S.cur, tentative <- Tentative(S)

\* Commit publishes exactly the block's writes in the order they were made
\* (a Put after a Delete of the same key wins and vice versa) and Abort
\* leaves the current map as it was: the staged sub-ledger implements an
\* atomic map (spec section 8, "Commit after N Put calls ...").
\* Each step is the abstract step of the same name, so that no Put or
\* Delete may be silently lost either.  Under the host's fairness the
\* abstract fairness holds too: pending writes are eventually published
\* or discarded, never left half-applied in the buffers.
AtomicRefinement ==
    /\ Atomic!FairSpec
    /\ [][/\ \A k \in Keys, v \in Vals : PutAction(k, v) => Atomic!Write(k, v)
          /\ \A k \in Keys : DelAction(k) => Atomic!Remove(k)
          /\ CacheCommit => Atomic!Publish
          /\ CacheAbort => Atomic!Discard]_S

=============================================================================
