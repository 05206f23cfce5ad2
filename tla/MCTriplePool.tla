----------------------------- MODULE MCTriplePool -----------------------------
(***************************************************************************)
(* Instance of compute_inplace for TLC: requests of one, two and three AND *)
(* gates whose operands are single wires, XORs, one wire twice, constants. *)
(***************************************************************************)
EXTENDS TriplePool

MCReps ==
    {<< <<a, b>> >> : a, b \in {{}, {1}, {1, 2}}}
    \cup {<< <<{1}, {2}>>, <<{1, 2}, {2}>> >>, << <<{1}, {1}>>, <<{}, {2}>> >>}
    \cup {<< <<{1}, {2}>>, <<{1}, {1}>>, <<{2}, {1, 2}>> >>}
===============================================================================
