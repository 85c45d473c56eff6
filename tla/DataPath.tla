------------------------------- MODULE DataPath -------------------------------
(***************************************************************************)
(* The bytes of one proxied connection: copy_bidirectional of src/copy.rs  *)
(* over TCP sockets and HTTP/2 streams (src/proxy/h2.rs).                  *)
(*                                                                         *)
(* A direction carries the units 1, 2, ... of its source; an empty DATA    *)
(* frame is the unit 0.  How much one read takes is open: BytesMut may     *)
(* hold more than the buffer size, so the sizes and their growth decide    *)
(* nothing here.  A poll that is pending is no step.                       *)
(***************************************************************************)
EXTENDS Naturals, Sequences, SequencesExt

CONSTANTS
    CopySides,      \* the kinds of the two sides: [down, up], "tcp" or "h2"
    CopyUnits       \* units a peer sends at most

ASSUME CopyAssumption ==
    CopySides \subseteq [down : {"tcp", "h2"}, up : {"tcp", "h2"}] /\ CopyUnits \in Nat

VARIABLES
    ckind,
    cpeer,      \* per side: [rx, tx]: how its sending ended, why it takes nothing more
    cdir        \* per direction, see CopyInit

copyVars == <<ckind, cpeer, cdir>>

CopyDirs == {"send", "recv"}            \* downstream to upstream, and back
From(d) == IF d = "send" THEN "down" ELSE "up"
Into(d) == IF d = "send" THEN "up" ELSE "down"

TcpErrors == {"ConnectionReset", "TimedOut"}
H2Reasons == {"NO_ERROR", "CANCEL", "STREAM_CLOSED", "INTERNAL_ERROR"}

CopyInit ==
    /\ ckind \in CopySides
    /\ cpeer = [s \in {"down", "up"} |-> [rx |-> "open", tx |-> "open"]]
    /\ cdir = [d \in CopyDirs |->
                  [sent |-> 0, in |-> <<>>,         \* sent by the peer; arrived and not read
                   buf |-> <<>>, out |-> <<>>,      \* CopyBuf.buf; taken by the writer
                   counted |-> 0, st |-> "copy", res |-> "", shut |-> FALSE]]

-----------------------------------------------------------------------------
(* The peers                                                               *)

PeerSends(d, unit) ==
    /\ cpeer[From(d)].rx = "open" /\ cdir[d].sent < CopyUnits /\ Len(cdir[d].in) <= CopyUnits
    /\ unit \in {cdir[d].sent + 1} \cup (IF ckind[From(d)] = "h2" THEN {0} ELSE {})
    /\ cdir' = [cdir EXCEPT ![d].in = Append(@, unit), ![d].sent = IF unit = 0 THEN @ ELSE @ + 1]
    /\ UNCHANGED <<ckind, cpeer>>

PeerEnds(s) ==
    /\ cpeer[s].rx = "open"
    /\ cpeer' = [cpeer EXCEPT ![s].rx = "fin"]
    /\ UNCHANGED <<ckind, cdir>>

\* A reset ends both ways; what arrived before it may be lost, unless the peer had
\* ended its sending.  That end is then all a socket reports; a stream reports the
\* reset once it has handed out the data.
PeerResets(s, why, keep) ==
    LET d == IF s = "down" THEN "send" ELSE "recv"
    IN /\ cpeer[s].tx = "open"
       /\ why \in IF ckind[s] = "h2" THEN H2Reasons ELSE TcpErrors
       /\ cpeer' = [cpeer EXCEPT ![s] = [rx |-> IF @.rx = "fin" /\ ckind[s] = "tcp" THEN "fin" ELSE why, tx |-> why]]
       /\ cdir' = IF keep \/ cpeer[s].rx = "fin" THEN cdir ELSE [cdir EXCEPT ![d].in = <<>>]
       /\ UNCHANGED ckind

-----------------------------------------------------------------------------
(* Reading                                                                 *)

\* H2StreamReadHalf::poll_bytes: k empty frames are passed over.
SkipEmpty(in, k) == k \in 0..Len(in) /\ \A j \in 1..k : in[j] = 0

\* What a read returns at the end: "eof" or the kind of an error.
ReadEnd(kind, rx) ==
    IF rx = "fin" THEN "eof"
    ELSE IF kind = "tcp" THEN rx
    ELSE CASE rx \in {"NO_ERROR", "CANCEL"} -> "eof"
           [] rx = "STREAM_CLOSED" -> "BrokenPipe"
           [] OTHER -> "Other"

\* CopyBuf::poll: a buffer is fetched when none is left over.
PollBytes(d, n) ==
    LET in == cdir[d].in
    IN /\ cdir[d].st = "copy" /\ cdir[d].buf = <<>>
       /\ ckind[From(d)] = "h2" => n = 1
       /\ \E k \in 0..Len(in) :
             /\ SkipEmpty(in, k) /\ k + n <= Len(in) /\ \A j \in (k + 1)..(k + n) : in[j] # 0
             /\ cdir' = [cdir EXCEPT ![d].buf = SubSeq(in, k + 1, k + n), ![d].in = SubSeq(in, k + n + 1, Len(in))]
       /\ UNCHANGED <<ckind, cpeer>>

\* ignore_io_errors: a copy that a peer cut short is not an error.
IgnoreIoErrors(e) ==
    IF e \in {"eof", "NotConnected", "UnexpectedEof", "ConnectionReset", "BrokenPipe"} THEN "Ok" ELSE e

CopyEnd(d, e) == cdir' = [cdir EXCEPT ![d].st = "shutdown", ![d].res = IgnoreIoErrors(e), ![d].buf = <<>>]

PollEnd(d) ==
    /\ cdir[d].st = "copy" /\ cdir[d].buf = <<>> /\ SkipEmpty(cdir[d].in, Len(cdir[d].in))
    /\ cpeer[From(d)].rx # "open"
    /\ CopyEnd(d, ReadEnd(ckind[From(d)], cpeer[From(d)].rx))
    /\ UNCHANGED <<ckind, cpeer>>

-----------------------------------------------------------------------------
(* Writing                                                                 *)

\* The rest of a partial write is forgotten.
RestLost(buf, i) == <<>>

\* The part that the writer did not take is kept for the next poll.
Rest(buf, i) == SubSeq(buf, i + 1, Len(buf))

PollWriteBuf(d, i) ==
    /\ cdir[d].st = "copy" /\ i \in 1..Len(cdir[d].buf) /\ cpeer[Into(d)].tx = "open"
    /\ cdir' = [cdir EXCEPT ![d].out = @ \o SubSeq(cdir[d].buf, 1, i), ![d].buf = Rest(@, i), ![d].counted = @ + i]
    /\ UNCHANGED <<ckind, cpeer>>

\* H2StreamWriteHalf asks poll_reset for the cause; no capacity is a write of
\* nothing, which is WriteZero.
WriteError(kind, tx) ==
    IF kind = "tcp" THEN {IF tx = "ConnectionReset" THEN "BrokenPipe" ELSE tx}
    ELSE {"WriteZero", IF tx = "INTERNAL_ERROR" THEN "Other" ELSE "BrokenPipe"}

PollWriteFails(d, e) ==
    /\ cdir[d].st = "copy" /\ cdir[d].buf # <<>> /\ cpeer[Into(d)].tx # "open"
    /\ e \in WriteError(ckind[Into(d)], cpeer[Into(d)].tx)
    /\ CopyEnd(d, e)
    /\ UNCHANGED <<ckind, cpeer>>

\* poll_shutdown of a writer whose peer is there, or gone.  A TCP peer that is
\* gone is NotConnected, which ignore_shutdown_errors drops.
ShutdownError(kind, tx) ==
    IF tx = "open" \/ kind = "tcp" \/ tx = "NO_ERROR" THEN "Ok"
    ELSE IF tx = "INTERNAL_ERROR" THEN "Other" ELSE "BrokenPipe"

PollShutdown(d) ==
    LET e == ShutdownError(ckind[Into(d)], cpeer[Into(d)].tx)
    IN /\ cdir[d].st = "shutdown"
       /\ cdir' = [cdir EXCEPT ![d].st = "done", ![d].shut = TRUE, ![d].res = IF e = "Ok" THEN @ ELSE "ShutdownError"]
       /\ UNCHANGED <<ckind, cpeer>>

CopyNext ==
    \/ \E d \in CopyDirs :
          \/ \E unit \in 0..CopyUnits : PeerSends(d, unit)
          \/ \E n \in 1..CopyUnits : PollBytes(d, n) \/ PollWriteBuf(d, n)
          \/ \E e \in {"WriteZero", "BrokenPipe", "Other", "TimedOut"} : PollWriteFails(d, e)
          \/ PollEnd(d) \/ PollShutdown(d)
    \/ \E s \in {"down", "up"} :
          \/ PeerEnds(s)
          \/ \E why \in TcpErrors \cup H2Reasons, keep \in BOOLEAN : PeerResets(s, why, keep)

-----------------------------------------------------------------------------
(* Properties                                                              *)

\* What a writer has taken is what its source sent, in order and without a gap or
\* a repetition, through every partial write and empty frame, and the bytes that
\* the metrics count are those (CopyBuf::poll).  A direction whose peers stayed to
\* the end delivers everything and closes its writer, whatever became of the other
\* direction (join! in copy_bidirectional), and reports no error.
StreamIntact ==
    \A d \in CopyDirs :
        LET c == cdir[d]
        IN /\ c.out \o c.buf = [k \in 1..Len(c.out \o c.buf) |-> k]
           /\ c.counted = Len(c.out)
           /\ c.st = "done" /\ cpeer[From(d)].rx = "fin" /\ cpeer[Into(d)].tx = "open" =>
                c.shut /\ c.res = "Ok" /\ Len(c.out) = c.sent
===============================================================================
