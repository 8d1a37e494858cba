------------------------------- MODULE MCCalls -------------------------------
(***************************************************************************)
(* Small instances of CallController for TLC.                              *)
(***************************************************************************)
EXTENDS CallController, TLC

CallSymmetry == Permutations(Connectors) \cup Permutations(Calls)

AnswerFaults == CallFaultKinds \ {"lost"}
CallerFaults == {"stall", "pbx"}
=============================================================================
