------------------------- MODULE MCMemoryStorage -------------------------
(* Two command threads, two labels, the controller's Output and the Output *)
(* of a child that starts at any moment.                                   *)
EXTENDS MemoryStorage, TLC
CONSTANTS t1, t2, main, child
MCThreads == {t1, t2}
MCOutputs == {main, child}
MCEarly == {main}
MCLabels == {1, 2}
==========================================================================
