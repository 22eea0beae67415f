------------------------------ MODULE MCOrder ------------------------------
(* Instances of OrderSerial for TLC.                                       *)
EXTENDS OrderSerial, TLC

CONSTANTS w1, w2, p1

MCSameProcess == [w \in Worker |-> p1]

Workers == Permutations({w1, w2})

(* FairSpec with two notifications and a crash, or with one notification   *)
(* and a call of an administrator.                                         *)
CleanNext == Next /\ admin' + faults' <= 1 /\ admin' + calls' <= 2

CleanSpec ==
    /\ Init /\ [][CleanNext]_vars
    /\ \A w \in Worker : WF_vars(Continue(w))
    /\ SF_vars(\E w \in Worker : StartProxySweep(w))
=============================================================================
