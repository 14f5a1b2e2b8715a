---------------------------- MODULE MCSignedMsg ----------------------------
(***************************************************************************)
(* Signed messages for TLC, in the real units: an auction of 30 units of   *)
(* 400 ms with a sidecar and margin settings that goes past its max_ts, a  *)
(* post-only resting limit order with a sidecar whose slot lies ahead, and *)
(* an auction that runs into the next regime.                              *)
(***************************************************************************)
EXTENDS SignedMsg

Plain(uuid, s, units) ==
    [uuid |-> uuid, slot |-> s, units |-> units, resting |-> FALSE, stale |-> 0,
     sidecars |-> 0, postOnly |-> FALSE, ratio |-> 0, deposit |-> 0]

MCMessages ==
    {[Plain(1, 80, 30) EXCEPT !.stale = 100, !.sidecars = 1, !.ratio = 1, !.deposit = 1],
     [Plain(2, 100, 0) EXCEPT !.resting = TRUE, !.postOnly = TRUE, !.sidecars = 1],
     Plain(3, 170, 30)}

\* The regime of 200 ms starts while the last auction runs.
MCEffective == [g \in Gates |-> 190]
MCLegacy == {[base |-> 0, pending |-> 0, effective |-> 0]}
=============================================================================
