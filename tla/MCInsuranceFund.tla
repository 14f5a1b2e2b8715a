--------------------------- MODULE MCInsuranceFund ---------------------------
(***************************************************************************)
(* Small instances of InsuranceFund for TLC.  Requests, cancels, draws and *)
(* donations repeat without bound and each may move the share price: a     *)
(* budget limits how many instructions a behaviour has.                    *)
(***************************************************************************)
EXTENDS InsuranceFund, TLC

CONSTANT MaxInstructions   \* instructions in a behaviour

VARIABLE spent             \* instructions so far

MCInit == Init /\ spent = 0

MCNext ==
    \/ spent < MaxInstructions /\ Instruction /\ spent' = spent + 1
    \/ (Tick \/ \E s \in Stakers : Initialize(s)) /\ UNCHANGED spent

MCSpec == MCInit /\ [][MCNext]_<<vars, spent>>

StakerSymmetry == Permutations(Stakers)
=============================================================================
