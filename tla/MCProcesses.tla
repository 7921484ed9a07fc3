---------------------------- MODULE MCProcesses ----------------------------
(* Two identifiers: a process and the one it, or the controller, starts.   *)
EXTENDS Processes, TLC
CONSTANTS p1, p2
MCIds == {p1, p2}
MCAll == {"run", "feed", "end-feed", "terminate"}
MCRun == {"run"}
MCRunFeed == {"run", "feed"}
MCNoCommands == {}
MCAnyFailure == {"spawn", "thread"}
MCNoFailures == {}
MCSymmetry == Permutations({p1, p2})
============================================================================
