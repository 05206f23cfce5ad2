---------------------------- MODULE MCPartyThreads ----------------------------
(***************************************************************************)
(* Instance of the threads of a session for TLC.                           *)
(***************************************************************************)
EXTENDS PartyThreads

MCRuns == {<<>>, <<0, 0>>, <<3>>}
MCRecipients == Party \cup {"Public"}
===============================================================================
