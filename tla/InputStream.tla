----------------------------- MODULE InputStream -----------------------------
(***************************************************************************)
(* InputStream, the C stream whose functions call a C++ implementation,    *)
(* and StdIOStreamInputStream, the implementation over a std::istream.     *)
(* The istream is external: a string stream with its position and its      *)
(* state bits, of which any operation may find the bad one set, when the   *)
(* device fails.                                                           *)
(***************************************************************************)
EXTENDS Integers

CONSTANTS
    Length,     \* bytes in the stream
    Capacity,   \* bytes that a buffer takes at most
    MaxCalls    \* bound on the calls of a behaviour

VARIABLES
    pos, eofbit, failbit, badbit,   \* the istream
    wanted,      \* where the reads and seeks of the caller have led, -1: out of the stream
    lastError,   \* aws_last_error() of the thread
    call         \* the last call and its outcome, and how many there were

streamVars == <<pos, eofbit, failbit, badbit, wanted, lastError, call>>

Good == ~eofbit /\ ~failbit /\ ~badbit

\* The istream converts to true.
Holds == ~failbit /\ ~badbit

Init ==
    /\ pos = 0 /\ eofbit = FALSE /\ failbit = FALSE /\ badbit = FALSE
    /\ wanted = 0
    /\ lastError \in {"none", "stale"}
    /\ call = [op |-> "none", ok |-> TRUE, bytes |-> 0, due |-> 0, count |-> 0]

Least(a, b) == IF a < b THEN a ELSE b

\* The return of a C function: error is what the implementation raised, if it did.
Returns(op, ok, bytes, due, error, default) ==
    /\ call.count < MaxCalls
    /\ call' = [op |-> op, ok |-> ok, bytes |-> bytes, due |-> due, count |-> call.count + 1]
    /\ lastError' = IF ok \/ error # "none" THEN error ELSE default

-----------------------------------------------------------------------------
(* s_Read and ReadImpl.  The error of the thread is reset before. *)

\* istream::read() on a stream that is not good only sets the fail bit.
Read(room) ==
    LET bytes == IF Good THEN Least(room, Length - pos) ELSE 0
        short == Good /\ bytes < room
        eof == eofbit \/ short
    IN /\ pos' = pos + bytes
       /\ eofbit' = eof
       /\ failbit' = (~Good \/ short)
       /\ wanted' = wanted + bytes
       /\ Returns("read", bytes > 0 \/ eof \/ (Good /\ ~short), bytes,
                  Least(room, Length - wanted), "none", "STREAM_READ_FAILED")
       /\ UNCHANGED badbit

\* The device fails in the middle of a read, which may have delivered something.
DeviceFails(room) ==
    /\ Good
    /\ \E bytes \in {0, Least(room, Length - pos)} :
        /\ pos' = pos + bytes
        /\ wanted' = wanted + bytes
        /\ Returns("broken", bytes > 0, bytes, bytes, "none", "STREAM_READ_FAILED")
    /\ badbit' = TRUE
    /\ UNCHANGED <<eofbit, failbit>>

-----------------------------------------------------------------------------
(* s_Seek and SeekImpl, s_GetLength and GetLengthImpl *)

\* All bits are cleared; seekg() sets the fail bit for a position outside the stream,
\* which SeekImpl() does not look at.  What it refuses no caller can pass: a basis other
\* than the two there are, an offset beyond the 64 bits of both types.
Seek(offset, basis) ==
    LET target == IF basis = "end" THEN Length + offset ELSE offset
    IN /\ pos' = IF target \in 0 .. Length THEN target ELSE pos
       /\ failbit' = (target \notin 0 .. Length)
       /\ eofbit' = FALSE /\ badbit' = FALSE
       /\ wanted' = IF target \in 0 .. Length THEN target ELSE -1
       /\ Returns("seek", TRUE, 0, 0, "none", "STREAM_SEEK_FAILED")

\* Mutant of GetLength: the position is not restored.
GetLengthStaysAtEnd ==
    /\ eofbit' = FALSE
    /\ failbit' = ~Good
    /\ Returns("length", Good, 0, 0, "none", "STREAM_READ_FAILED")
    /\ pos' = IF Good THEN Length ELSE pos
    /\ UNCHANGED <<badbit, wanted>>

\* tellg() and seekg() want a stream that is not failed; seekg() first clears the eof
\* bit, whatever comes of it.  A stream at its end without the fail bit gets that bit
\* from tellg().
GetLength ==
    /\ eofbit' = FALSE
    /\ failbit' = ~Good
    /\ Returns("length", Good, 0, 0, "none", "STREAM_READ_FAILED")
    /\ UNCHANGED <<pos, badbit, wanted>>

-----------------------------------------------------------------------------
(* Other implementations, and the rest of the thread *)

\* SeekImpl() and ReadImpl() of a user fail; they "SHOULD" raise an error.
UserImplFails(op) ==
    /\ \E error \in {"none", "user"} :
        Returns(op, FALSE, 0, 0, error,
                IF op = "userRead" THEN "STREAM_READ_FAILED" ELSE "STREAM_SEEK_FAILED")
    /\ UNCHANGED <<pos, eofbit, failbit, badbit, wanted>>

\* Something else of this thread raises an error.
ErrorElsewhere ==
    /\ lastError' = "stale"
    /\ call' = [call EXCEPT !.op = "none", !.ok = TRUE]
    /\ UNCHANGED <<pos, eofbit, failbit, badbit, wanted>>

Next ==
    \/ \E room \in 0 .. Capacity : Read(room) \/ DeviceFails(room)
    \/ \E offset \in -(Length + 1) .. Length + 1, basis \in {"begin", "end"} : Seek(offset, basis)
    \/ GetLength
    \/ \E op \in {"userRead", "userSeek"} : UserImplFails(op)
    \/ ErrorElsewhere

Spec == Init /\ [][Next]_streamVars

-----------------------------------------------------------------------------
(* Properties *)

\* However reads, seeks, length queries and failures follow one another, a read that
\* returns true delivers what is due from where the caller is: nothing is skipped or
\* repeated, and nothing but the end of the stream cuts it short.  A call that returns
\* false leaves an error of its own for the C library, not one from before.
ReadsContinue ==
    /\ call.op = "read" /\ call.ok => call.bytes = call.due
    /\ Holds => pos = wanted
    /\ ~call.ok => lastError \notin {"none", "stale"}

\* Stream.h says of ReadImpl() "Return true even if you read 0 bytes because the
\* end-of-file has been reached": a read with the caller at the end of a stream whose
\* device did not fail returns true.
EndOfFileIsNoFailure ==
    call.op = "read" /\ ~call.ok => wanted # Length \/ badbit

=============================================================================
