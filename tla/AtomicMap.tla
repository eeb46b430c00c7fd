----------------------------- MODULE AtomicMap -----------------------------
(***************************************************************************)
(* What a sub-ledger promises its callers (spec section 4.1): a map whose *)
(* writes of one block become visible together at Commit and vanish       *)
(* together at Abort.  `committed' is the authoritative map, `tentative'  *)
(* the map as the block's writes so far would leave it.                   *)
(***************************************************************************)
EXTENDS StagedMap

CONSTANTS Keys, Vals, InitDb

VARIABLES committed, tentative

TypeOK ==
    /\ DOMAIN committed \subseteq Keys /\ \A k \in DOMAIN committed : committed[k] \in Vals
    /\ DOMAIN tentative \subseteq Keys /\ \A k \in DOMAIN tentative : tentative[k] \in Vals

Write(k, v) == tentative' = Upd(tentative, k, v) /\ UNCHANGED committed
Remove(k)   == tentative' = Drop(tentative, k) /\ UNCHANGED committed
Publish     == committed' = tentative /\ UNCHANGED tentative
Discard     == tentative' = committed /\ UNCHANGED committed

Next ==
    \/ \E k \in Keys, v \in Vals : Write(k, v)
    \/ \E k \in Keys : Remove(k)
    \/ Publish
    \/ Discard

Spec == committed = InitDb /\ tentative = InitDb /\ [][Next]_<<committed, tentative>>

\* Every block is eventually decided: writes that are pending do not stay
\* pending forever, they are published or discarded.
FairSpec == Spec /\ WF_<<committed, tentative>>(Publish \/ Discard)
=============================================================================
