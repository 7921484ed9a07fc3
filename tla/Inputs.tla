------------------------------- MODULE Inputs -------------------------------
(***************************************************************************)
(* What datalackey reads from one peer: MakeInputScanner chooses how.      *)
(* InputScanner scans JSON one character at a time, cut into reads         *)
(* anywhere; RawInput has the reading itself and the scanners without      *)
(* structure.                                                              *)
(***************************************************************************)
EXTENDS InputScanner, RawInput

InputsInit == Init /\ RawInit

InputsNext ==
    \/ format = "JSON" /\ Next /\ UNCHANGED rawVars
    \/ format # "JSON" /\ RawNext /\ UNCHANGED vars

InputsSpec == InputsInit /\ [][InputsNext]_<<vars, rawVars>>
=============================================================================
