----------------------------- MODULE MCSlotPasses -----------------------------
(***************************************************************************)
(* Instance of the passes for TLC: every canonical program of one input    *)
(* and at most ShortLen gates with one output, any wire of it, and every   *)
(* chain of LongLen XOR gates.                                             *)
(***************************************************************************)
EXTENDS SlotPasses

CONSTANTS ShortLen, LongLen

G(op, a, b, o) == [in0 |-> a, in1 |-> b, out |-> o, op |-> op]

(* The gates that may follow gs, which has wires 0 .. Len(gs).             *)
Follow(gs) ==
    LET n == Len(gs) + 1
        w == 0 .. (n - 1)
    IN {G(op, a, b, n) : op \in {"And", "Xor"}, a \in w, b \in w}
       \cup {G("Not", a, 0, n) : a \in w}
       \cup {G(c, 0, 0, n) : c \in {"Const0", "Const1"} \ {gs[i].op : i \in DOMAIN gs}}

Short[n \in 0 .. ShortLen] ==
    IF n = 0 THEN {<<>>}
    ELSE UNION {{Append(gs, g) : g \in Follow(gs)} : gs \in Short[n - 1]}

Xors[n \in 0 .. LongLen] ==
    IF n = 0 THEN {<<>>}
    ELSE UNION {{Append(gs, G("Xor", a, b, n)) : b \in a .. (n - 1)}
                  : a \in 0 .. (n - 1), gs \in Xors[n - 1]}

Program(gs, o) ==
    [num_inputs |-> 1, num_wires |-> Len(gs) + 1, gates |-> gs, outputs |-> <<o>>]

MCPrograms ==
    UNION {{Program(gs, o) : o \in 0 .. Len(gs)} : gs \in UNION {Short[n] : n \in 0 .. ShortLen}}
    \cup {Program(gs, LongLen) : gs \in Xors[LongLen]}
===============================================================================
