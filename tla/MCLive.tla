------------------------------- MODULE MCLive -------------------------------
(* The programs on small instances: two rules and two streams each.        *)
EXTENDS Live, Naturals, Sequences, TLC

CONSTANTS r1, r2, s1, s2

MCRules == {r1, r2}
MCExpected == {r1}
MCStreams == {s1, s2}
MCStreamOf == r1 :> s1 @@ r2 :> s2
MCSettles == {1, 2}
MCTechniques == {"T0836", "T0858"}
MCDetects == [modbus |-> {"T0836"}, s7comm |-> {"T0858"}]

(* Two steps that expect the same signal, a step that is not executed, and *)
(* plans with a duplicate id, a technique the rule does not detect, a rule *)
(* or a technique of a step that does not exist, and no step at all.       *)
Expectation(signal, technique, rule) == [signal |-> signal, technique |-> technique, rule |-> rule]
Step(id, execute, e) == [id |-> id, execute |-> execute, technique |-> None, expectations |-> <<e>>]
E1 == Expectation("write", "T0836", "modbus")
E2 == Expectation("stop", "T0858", "s7comm")
MCPlans == {<<Step(1, TRUE, E1), Step(2, TRUE, E1)>>, <<Step(1, FALSE, E1), Step(2, TRUE, E2)>>,
            <<Step(1, TRUE, E1), Step(1, TRUE, E1)>>, <<Step(1, TRUE, Expectation("write", "T0858", "modbus"))>>,
            <<Step(1, TRUE, Expectation("write", "T0836", "absent"))>>,
            <<[Step(1, TRUE, E1) EXCEPT !.technique = "T9999"]>>, <<>>}
=============================================================================
