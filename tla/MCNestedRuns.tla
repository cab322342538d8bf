---------------------------- MODULE MCNestedRuns ----------------------------
(* Three activations over two sources that admit one function each: enough *)
(* for a function to wait for itself, for two to wait for each other, and  *)
(* for a third to wait for both.  Both sources have been registered; how   *)
(* they come and go is the matter of Directory.tla.                        *)
EXTENDS NestedRuns

CONSTANTS c1, c2, n1, n2

LimitsTight == [c \in Ids |-> 1]

FirstThenSecond == {<<c1, c2>>}

Registered ==
    /\ stage = [c \in Ids |-> "visible"]
    /\ reg = (n1 :> c1 @@ n2 :> c2)
    /\ users = [c \in Ids |-> {}]
    /\ shut = FALSE

RegisteredInit == Registered /\ ExecutorInit /\ CallsInit

RegisteredSpec ==
    /\ RegisteredInit
    /\ [][NestedNext]_nestedVars
    /\ NestedFairness
============================================================================
