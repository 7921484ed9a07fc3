------------------------------ MODULE MCOutput ------------------------------
(* One Output with a command thread or two and the data notifications.     *)
EXTENDS Output, TLC
CONSTANTS d1, d2, data, feeder, closer, destroyer
MCOne == {d1}
MCData == {data}
MCAnyFailure == {"write", "read"}
============================================================================
