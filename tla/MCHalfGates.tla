------------------------------ MODULE MCHalfGates ------------------------------
(***************************************************************************)
(* Instance of the two-party run for TLC: every canonical program of two   *)
(* inputs and at most two gates that ends in its output, and some longer   *)
(* ones: ANDs of ANDs, of NOTs and XORs, of constants.                     *)
(***************************************************************************)
EXTENDS HalfGates

G(op, a, b, o) == [in0 |-> a, in1 |-> b, out |-> o, op |-> op]

Follow(gs) ==
    LET n == Len(gs) + 2
        w == 0 .. (n - 1)
    IN {G("And", a, b, n) : a \in w, b \in w}
       \cup UNION {{G("Xor", a, b, n) : b \in a .. (n - 1)} : a \in w}
       \cup {G("Not", a, 0, n) : a \in w}
       \cup {G(c, 0, 0, n) : c \in {"Const0", "Const1"} \ {gs[i].op : i \in DOMAIN gs}}

OneGate == {<<g>> : g \in Follow(<<>>)}
TwoGates == UNION {{Append(gs, g) : g \in Follow(gs)} : gs \in OneGate}

Long ==
    {<<G("And", 0, 1, 2), G("Not", 2, 0, 3), G("And", 3, 0, 4)>>,
     <<G("And", 0, 1, 2), G("Xor", 2, 0, 3), G("And", 2, 3, 4)>>,
     <<G("Const1", 0, 0, 2), G("And", 0, 2, 3), G("And", 3, 1, 4)>>}

Program(gs) ==
    [num_inputs |-> 2, num_wires |-> Len(gs) + 2, gates |-> gs, outputs |-> <<Len(gs) + 1>>]

MCPrograms == {Program(gs) : gs \in {<<>>} \cup TwoGates \cup Long}
MCOwners == {<<Garbler, Evaluator>>, <<Evaluator, "One">>, <<"One", "Zero">>}
MCRecipients == Party \cup {"Public"}
================================================================================
