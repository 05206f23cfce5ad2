------------------------------ MODULE MCSession ------------------------------
(***************************************************************************)
(* Instance of the session for TLC: three stored programs, one of which    *)
(* is not in record order and must be rejected.                            *)
(***************************************************************************)
EXTENDS AG2PCSession

G(op, a, b, o) == [in0 |-> a, in1 |-> b, out |-> o, op |-> op]

AndNot == [num_inputs |-> 2, num_wires |-> 4,
           gates |-> <<G("And", 0, 1, 2), G("Not", 2, 0, 3)>>, outputs |-> <<3>>]

(* Two outputs, one of them an input passed through; no AND gate.          *)
Swap == [num_inputs |-> 2, num_wires |-> 3,
         gates |-> <<G("Xor", 0, 1, 2)>>, outputs |-> <<1, 2>>]

(* Its gates are in order but its wires are not numbered by gate.          *)
Shuffled == [num_inputs |-> 1, num_wires |-> 3,
             gates |-> <<G("Not", 0, 0, 2), G("Not", 2, 0, 1)>>, outputs |-> <<1>>]

MCPrograms == {AndNot, Swap, Shuffled}
==============================================================================
