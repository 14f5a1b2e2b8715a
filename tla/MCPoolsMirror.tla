---------------------------- MODULE MCPoolsMirror ---------------------------
(***************************************************************************)
(* Two instances for TLC that share a run: the pools of a market           *)
(* (MCPerpPools) and the mirror of the order book.  A behaviour runs one   *)
(* of them; the other stays in one initial state.                          *)
(***************************************************************************)
EXTENDS MCPerpPools, DlobMirror

VARIABLE which

sumVars == <<which, poolsVars, mirrorVars>>

\* One order of each kind.
MCKinds == <<"market", "post", "limit", "triggerMarket", "triggerLimit">>

SumInit ==
    /\ which \in {"pools", "mirror"}
    /\ MCInit /\ (which # "pools" => pools.share = 0 /\ below = {})
    /\ MirrorInit /\ (which # "mirror" => Newest.live)

PoolsStep == which = "pools" /\ PoolsNext /\ UNCHANGED <<which, mirrorVars>>
MirrorStep == which = "mirror" /\ MirrorNext /\ UNCHANGED <<which, poolsVars>>

SumSpec == SumInit /\ [][PoolsStep \/ MirrorStep]_sumVars
=============================================================================
