--------------------------- MODULE MCSpotMessages ---------------------------
(***************************************************************************)
(* Three instances for TLC that share a run: a spot market (MCSpotMarket), *)
(* the equity floors of an authority and signed messages (MCSignedMsg).  A *)
(* behaviour runs one of them; the others stay in one of their initial     *)
(* states.                                                                 *)
(***************************************************************************)
EXTENDS MCSpotMarket, EquityFloor, MCSignedMsg

VARIABLE which

sumVars == <<which, mcVars, floorVars, msgVars>>

MCFloorSettings == {<<2, 1>>}

AccountSymmetry == UserSymmetry \cup Permutations(Subaccounts)

SumInit ==
    /\ which \in {"market", "floors", "messages"}
    /\ MCInit
    /\ FloorInit
    /\ which # "floors" => asset = "perp" /\ price = 1 /\ \A s \in Subaccounts : sub[s].quote = 0
    /\ MsgInit

MarketStep == which = "market" /\ MCNext /\ UNCHANGED <<which, floorVars, msgVars>>
FloorsStep == which = "floors" /\ FloorNext /\ UNCHANGED <<which, mcVars, msgVars>>
MessagesStep == which = "messages" /\ MsgNext /\ UNCHANGED <<which, mcVars, floorVars>>

SumSpec == SumInit /\ [][MarketStep \/ FloorsStep \/ MessagesStep]_sumVars
=============================================================================
