------------------------------ MODULE TraceDump ------------------------------
(***************************************************************************)
(* The legacy trace dumper, src/llvm/rvpdump/tracedump.c: main reads the   *)
(* input in chunks of at most a buffer of events with read(2) and prints   *)
(* each whole event it got.                                               *)
(*                                                                         *)
(* Sizes are in bytes; an event is EvSize bytes and the buffer holds       *)
(* BufEvs events.  The input is Len bytes, whole events or a truncated    *)
(* last one.  read(2) on a regular file returns as much as is left and    *)
(* fits; on a pipe or terminal it may return any positive amount up to    *)
(* that.  What is printed, and how, is not modelled: only how many events *)
(* are printed.                                                            *)
(***************************************************************************)
EXTENDS Integers

CONSTANTS
    EvSize,     \* sizeof(ev[0])
    BufEvs,     \* __arraycount(ev)
    MaxLen,     \* bound on the input's length
    Pipe        \* TRUE when the input is a pipe rather than a regular file

ASSUME EvSize >= 2 /\ BufEvs >= 1 /\ Pipe \in BOOLEAN

VARIABLES
    len,        \* bytes in the input
    pos,        \* bytes read so far
    printed,    \* events printed so far
    status      \* "usage", "openerr", "reading", "success", "short", "readerr"

vars == <<len, pos, printed, status>>

\* the amounts one read(2) of sizeof(ev) bytes may return
ReadAmounts ==
    LET m == IF BufEvs * EvSize < len - pos THEN BufEvs * EvSize ELSE len - pos
    IN  IF Pipe /\ m > 0 THEN 1..m ELSE {m}

\* mutant: the test is against the whole buffer, not one event
ShortReadWholeBuffer(n) == n % (BufEvs * EvSize) /= 0

\* mutant: the test is left out
ShortReadNever(n) == FALSE

\* nread % sizeof(ev[0]) != 0
ShortRead(n) == n % EvSize /= 0

\* argc > 2 is usage(); argc == 2 opens the file, which may fail; argc == 1
\* reads stdin
Init ==
    /\ len \in 0..MaxLen
    /\ pos = 0 /\ printed = 0
    /\ \E argc \in 1..3, opened \in BOOLEAN :
         status = IF argc > 2 THEN "usage"
                  ELSE IF argc = 2 /\ ~opened THEN "openerr"
                  ELSE "reading"

\* one turn of the while loop: a read that returns n bytes, the short-read
\* errx, the return at end of input, or printing the nread / sizeof(ev[0])
\* events read
ReadChunk ==
    /\ status = "reading"
    /\ \E n \in ReadAmounts :
         /\ pos' = pos + n
         /\ CASE ShortRead(n) -> status' = "short" /\ UNCHANGED printed
              [] n = 0       -> status' = "success" /\ UNCHANGED printed
              [] OTHER       -> printed' = printed + n \div EvSize
                                /\ UNCHANGED status
    /\ UNCHANGED len

\* read(2) returns -1: err "read"
ReadFails ==
    /\ status = "reading"
    /\ status' = "readerr"
    /\ UNCHANGED <<len, pos, printed>>

\* the process has exited
Exited ==
    /\ status /= "reading"
    /\ UNCHANGED vars

Next == ReadChunk \/ ReadFails \/ Exited

Spec == Init /\ [][Next]_vars /\ WF_vars(ReadChunk)

-----------------------------------------------------------------------------
(* Properties                                                              *)

\* The dumper reports success only after printing every event of the input,
\* and only when the input holds no partial event: a truncated trace ends
\* in the "short read" error, not in a silently shortened dump.
SuccessOnlyWhenComplete ==
    status = "success" => len % EvSize = 0 /\ printed = len \div EvSize

\* A regular file of whole events, read without an I/O error, is dumped:
\* main never stops with "short read" on a well-formed trace file.  (On a
\* pipe, stdin's usual case, read(2) may split an event and this fails.)
WholeInputDumped ==
    len % EvSize = 0 => status /= "short"
=============================================================================
