------------------------------ MODULE RawInput ------------------------------
(***************************************************************************)
(* What FileDescriptorInput::Read reads of a child's output, block by      *)
(* block, and what InputScanner::Scan makes of it when it has no structure *)
(* to find: bytes that are reported to the launcher (InputScannerRaw-      *)
(* Message, MessageRawJSON) or thrown away (InputScannerDiscard).          *)
(* Bytes are numbered as the child writes them.                            *)
(***************************************************************************)
EXTENDS Integers, SequencesExt

CONSTANTS Block,    \* ReadBlockSize
          MaxBytes  \* bound: bytes the child writes

ASSUME BlockAssumption == Block \in Nat \ {0} /\ MaxBytes \in Nat

VARIABLES
    format,   \* what MakeInputScanner was given: "JSON", "bytes" or null
    written,  \* how many bytes the child wrote
    pipe,     \* which of them are not read yet
    writing,  \* whether anybody holds the end the child writes to
    closed,   \* FileDescriptor::Closed of the end that is read
    buffer,   \* InputScanner::buffer
    got,      \* Read's total
    reader,   \* "idle", or inside Scan: "reading" or "scanning"
    reports   \* history: the "bytes" messages of the launcher's Output

child == <<written, pipe, writing>>
rawVars == <<format, child, closed, buffer, got, reader, reports>>

RawInit ==
    /\ format \in {"JSON", "bytes", "null"}
    /\ written = 0 /\ pipe = << >> /\ writing = TRUE
    /\ closed = FALSE /\ buffer = << >> /\ got = 0
    /\ reader = "idle" /\ reports = << >>

ChildWrites ==
    /\ writing /\ written < MaxBytes
    /\ written' = written + 1
    /\ pipe' = Append(pipe, written')
    /\ UNCHANGED <<format, writing, closed, buffer, got, reader, reports>>

ChildCloses ==
    /\ writing /\ writing' = FALSE
    /\ UNCHANGED <<format, written, pipe, closed, buffer, got, reader, reports>>

(* Scan asks for a Read unless the channel has ended.                      *)
AskForMore ==
    /\ got' = 0
    /\ reader' = IF closed THEN "idle" ELSE "reading"

StartScan ==
    /\ reader = "idle" /\ ~closed
    /\ AskForMore
    /\ UNCHANGED <<format, child, closed, buffer, reports>>

(* poll finds nothing: Read returns 0, whatever it has read before.        *)
NothingThere ==
    /\ reader = "reading" /\ pipe = << >> /\ writing
    /\ reader' = "idle"
    /\ UNCHANGED <<format, child, closed, buffer, got, reports>>

(* A full block is followed by another poll, a part of one ends the Read.  *)
ReadBlock ==
    /\ reader = "reading" /\ pipe # << >>
    /\ LET n == IF Len(pipe) < Block THEN Len(pipe) ELSE Block IN
        /\ buffer' = buffer \o SubSeq(pipe, 1, n)
        /\ pipe' = SubSeq(pipe, n + 1, Len(pipe))
        /\ got' = got + n
        /\ reader' = IF n < Block THEN "scanning" ELSE "reading"
    /\ UNCHANGED <<format, written, writing, closed, reports>>

(* read finds the end.                                                     *)
ReadEnd ==
    /\ reader = "reading" /\ pipe = << >> /\ ~writing
    /\ closed' = TRUE
    /\ reader' = IF got > 0 THEN "scanning" ELSE "idle"
    /\ UNCHANGED <<format, child, buffer, got, reports>>

(* Mutant of HandleBuffer: the buffer is not cleared.                      *)
HandleAndKeep ==
    /\ reports' = IF format = "bytes" THEN Append(reports, buffer) ELSE reports
    /\ UNCHANGED buffer

(* One range, MessageEnd or Discard: the handler opens a message, writes   *)
(* every byte as a number and closes it.                                   *)
HandleBuffer ==
    /\ reports' = IF format = "bytes" THEN Append(reports, buffer) ELSE reports
    /\ buffer' = << >>

ScanBuffer ==
    /\ reader = "scanning"
    /\ HandleBuffer
    /\ AskForMore
    /\ UNCHANGED <<format, child, closed>>

(* The loop of the runner passes over an input that has ended.             *)
ScannerDone == closed /\ reader = "idle" /\ UNCHANGED rawVars

RawNext ==
    \/ ChildWrites \/ ChildCloses \/ StartScan \/ NothingThere
    \/ ReadBlock \/ ReadEnd \/ ScanBuffer \/ ScannerDone

----------------------------------------------------------------------------
(* What the launcher is told is what the child printed, every byte once    *)
(* and in the order it was printed, however it is cut into reads, and no   *)
(* report is empty: what is reported, what is read and not reported, and   *)
(* what is not read put together are the bytes that were written.  That    *)
(* what is read is also reported is ReadIsHandled.                         *)
BytesAreReported ==
    format = "bytes" =>
        /\ FlattenSeq(reports) \o buffer \o pipe = [i \in 1 .. written |-> i]
        /\ \A i \in DOMAIN reports : reports[i] # << >>

(* "Reads as much data as is available and handles it.": nothing that was  *)
(* read is left unhandled when the channel has ended.  The program does    *)
(* not satisfy it: a Read that ends after a full block answers 0 and is    *)
(* not scanned, and after the end nothing else asks for a scan.            *)
ReadIsHandled == (closed /\ reader = "idle") => buffer = << >>
=============================================================================
