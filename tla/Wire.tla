--------------------------------- MODULE Wire ---------------------------------
(***************************************************************************)
(* Two codecs that keep state or resources: the capsules that carry        *)
(* datagrams over a stream (src/proxy/h2/capsule.rs) and the messages of   *)
(* the node agent with their descriptors (src/inpod/protocol.rs).          *)
(*                                                                         *)
(* Bytes are numbers below 256.  The wire of a stream is the encoding of   *)
(* capsules [type, ctx, payload, width], width that of its integers, or    *)
(* one without a context.                                                  *)
(***************************************************************************)
EXTENDS Naturals, Sequences, SequencesExt, FiniteSetsExt

CONSTANTS
    CapsuleStreams,     \* sequences of capsules
    MaxDatagramSize,
    AgentMessages,      \* [cmsgs, trunc, ctrunc, payload]: the flags of truncated bytes and descriptors
    NoCtx               \* a capsule without a context id

VARIABLES
    wsent,      \* the capsules of this stream
    wire,       \* bytes that have not arrived
    decoder,    \* [buffer, skip, dropped, got, err]
    agent       \* [msg, fds, res]: a message, what became of its descriptors, and its meaning

wireVars == <<wsent, wire, decoder, agent>>

-----------------------------------------------------------------------------
(* Capsules                                                                *)

\* encode_varint, in one or two bytes.
EncodeVarint(v, width) == IF width = 1 THEN <<v>> ELSE <<64 + v \div 256, v % 256>>

CapsuleValue(c) == (IF c.ctx = NoCtx THEN <<>> ELSE EncodeVarint(c.ctx, 1)) \o c.payload

EncodeCapsule(c) ==
    EncodeVarint(c.type, c.width) \o EncodeVarint(Len(CapsuleValue(c)), c.width) \o CapsuleValue(c)

EncodeAll(cs) == FoldLeft(LAMBDA acc, c : acc \o EncodeCapsule(c), <<>>, cs)

\* decode_varint: the two high bits of the first byte are its length; none if it
\* has not all arrived.
DecodeVarint(b) ==
    LET len == 2 ^ (b[1] \div 64)
    IN IF b = <<>> THEN [some |-> FALSE, v |-> 0, len |-> 0]
       ELSE IF Len(b) < len THEN [some |-> FALSE, v |-> 0, len |-> 0]
       ELSE [some |-> TRUE, len |-> len, v |-> FoldLeft(LAMBDA v, x : v * 256 + x, b[1] % 64, SubSeq(b, 2, len))]

DropBytes(b, n) == SubSeq(b, n + 1, Len(b))
Lesser(a, b) == IF a < b THEN a ELSE b

\* The rest of a capsule to be passed over is looked for in the buffer only.
PassOverHere(st, header, len) ==
    [st EXCEPT !.buffer = DropBytes(@, header + Lesser(Len(@) - header, len))]

\* A capsule that is not wanted: what has arrived of it is dropped, the rest is
\* skipped as it comes.
PassOver(st, header, len) ==
    LET available == Lesser(Len(st.buffer) - header, len)
    IN [st EXCEPT !.buffer = DropBytes(@, header + available), !.skip = len - available]

\* One round of the loop of Decoder::push; it ends when more is FALSE.
DecodeOne(st) ==
    LET type == DecodeVarint(st.buffer)
        length == DecodeVarint(DropBytes(st.buffer, type.len))
        header == type.len + length.len
        frame == header + length.v
        value == SubSeq(st.buffer, header + 1, frame)
        ctx == DecodeVarint(value)
        rest == [st EXCEPT !.buffer = DropBytes(@, frame)]
        passed == PassOver(st, header, length.v)
        tooLong == length.v > MaxDatagramSize + 8
    IN CASE ~type.some \/ ~length.some -> [st EXCEPT !.more = FALSE]
         [] type.some /\ length.some /\ (type.v # 0 \/ tooLong) ->
              [passed EXCEPT !.more = passed.skip = 0, !.dropped = IF type.v = 0 THEN @ + 1 ELSE @]
         [] type.some /\ length.some /\ type.v = 0 /\ ~tooLong ->
              IF Len(st.buffer) < frame THEN [st EXCEPT !.more = FALSE]
              ELSE IF ~ctx.some THEN [rest EXCEPT !.err = TRUE, !.more = FALSE]
              ELSE IF ctx.v # 0 THEN rest
              ELSE IF Len(value) - ctx.len > MaxDatagramSize THEN [rest EXCEPT !.dropped = @ + 1]
              ELSE [rest EXCEPT !.now = Append(@, DropBytes(value, ctx.len))]

RECURSIVE DecodeLoop(_)
DecodeLoop(st) == IF st.more THEN DecodeLoop(DecodeOne(st)) ELSE st

\* Decoder::push: an error takes the datagrams of this chunk with it.
Push(st, chunk) ==
    LET skipped == Lesser(st.skip, Len(chunk))
        start == [buffer |-> st.buffer \o DropBytes(chunk, skipped), skip |-> 0, dropped |-> st.dropped,
                  err |-> FALSE, more |-> TRUE, now |-> <<>>]
        end == DecodeLoop(start)
    IN IF skipped < st.skip THEN [st EXCEPT !.skip = @ - skipped]
       ELSE [buffer |-> end.buffer, skip |-> end.skip, dropped |-> end.dropped, err |-> end.err,
             got |-> IF end.err THEN st.got ELSE st.got \o end.now]

\* A read of the stream gives any number of bytes; an error ends it.
ReadChunk(n) ==
    /\ ~decoder.err /\ n \in 1..Len(wire)
    /\ decoder' = Push(decoder, SubSeq(wire, 1, n))
    /\ wire' = DropBytes(wire, n)
    /\ UNCHANGED <<wsent, agent>>

-----------------------------------------------------------------------------
(* Messages of the agent                                                   *)

TotalFds(cmsgs) == FoldLeft(LAMBDA n, fds : n + Len(fds), 0, cmsgs)

\* The loop is left as soon as there is one descriptor too many.
MaybeGetFdEarly(cmsgs) ==
    LET ok == {i \in DOMAIN cmsgs : TotalFds(SubSeq(cmsgs, 1, i)) <= 1}
    IN [closed |-> IF TotalFds(cmsgs) > 1 THEN UNION {ToSet(cmsgs[i]) : i \in ok} ELSE {},
        ours |-> IF TotalFds(cmsgs) = 1 THEN ToSet(cmsgs[Min({i \in DOMAIN cmsgs : cmsgs[i] # <<>>})]) ELSE {},
        err |-> TotalFds(cmsgs) > 1]

\* maybe_get_fd: the first message with one descriptor is ours, all others are
\* closed; more than one in all is an error, which closes ours too.
MaybeGetFd(cmsgs) ==
    LET all == UNION {ToSet(cmsgs[i]) : i \in DOMAIN cmsgs}
    IN [closed |-> IF TotalFds(cmsgs) > 1 THEN all ELSE {},
        ours |-> IF TotalFds(cmsgs) = 1 THEN all ELSE {},
        err |-> TotalFds(cmsgs) > 1]

\* res.cmsgs() fails when the kernel had more descriptors than fit into the space
\* for them, and gives those it delivered to nobody.
Descriptors(m) == IF m.ctrunc THEN [closed |-> {}, ours |-> {}, err |-> TRUE] ELSE MaybeGetFd(m.cmsgs)

\* get_workload_data, after the descriptors have owners; the flag of truncated
\* descriptors, which it checks too, never comes so far.
GetWorkloadData(m, fd) ==
    CASE fd.err \/ m.trunc \/ m.ctrunc \/ m.payload \in {"broken", "none"} -> "error"
      [] OTHER -> IF (m.payload = "Add") = (fd.ours # {}) THEN m.payload ELSE "error"

ReadMessage ==
    LET fd == Descriptors(agent.msg)
        res == GetWorkloadData(agent.msg, fd)
    IN /\ agent.res = "" /\ wsent = <<>>
       /\ agent' = [agent EXCEPT !.res = res,
                      !.fds = [f \in DOMAIN @ |-> IF f \in fd.closed \/ (f \in fd.ours /\ res # "Add") THEN "closed"
                                                  ELSE IF f \in fd.ours THEN "workload" ELSE "open"]]
       /\ UNCHANGED <<wsent, wire, decoder>>

\* One stream, or one message.
WireInit ==
    /\ decoder = [buffer |-> <<>>, skip |-> 0, dropped |-> 0, got |-> <<>>, err |-> FALSE]
    /\ \/ wsent \in CapsuleStreams /\ agent = [msg |-> <<>>, fds |-> <<>>, res |-> ""]
       \/ /\ wsent = <<>>
          /\ agent \in {[msg |-> m, fds |-> [f \in UNION {ToSet(m.cmsgs[i]) : i \in DOMAIN m.cmsgs} |-> "open"], res |-> ""] :
                          m \in AgentMessages}
    /\ wire = EncodeAll(wsent)

WireNext == ReadMessage \/ \E n \in 1..Len(wire) : ReadChunk(n)

-----------------------------------------------------------------------------
(* Properties                                                              *)

Deliverable(c) == c.type = 0 /\ c.ctx = 0 /\ Len(c.payload) <= MaxDatagramSize

Whole(k) == Len(EncodeAll(SubSeq(wsent, 1, k))) <= Len(EncodeAll(wsent)) - Len(wire)
Arrived == SubSeq(wsent, 1, Max({0} \cup {k \in 1..Len(wsent) : Whole(k)}))

\* However a stream is cut into chunks, the decoder has delivered exactly the
\* datagrams whose capsules have all arrived, passes over the unknown, foreign and
\* oversized ones without losing its place, and never keeps more than one capsule
\* of the permitted size (Decoder::push).
CapsulesIntact ==
    /\ ~decoder.err => decoder.got = [k \in 1..Len(SelectSeq(Arrived, Deliverable)) |-> SelectSeq(Arrived, Deliverable)[k].payload]
    /\ decoder.err => \E k \in DOMAIN wsent : wsent[k].type = 0 /\ wsent[k].ctx = NoCtx
    /\ Len(decoder.buffer) < 16 + MaxDatagramSize + 8

\* Of the descriptors of a message read as a whole none is left open without an
\* owner: one belongs to the workload that the message adds, all others are closed,
\* however many there are, in whatever control messages, and whether or not the
\* bytes can be decoded (maybe_get_fd, get_workload_data).
FdsAccounted ==
    agent.res # "" =>
        /\ ~agent.msg.ctrunc => \A f \in DOMAIN agent.fds : agent.fds[f] # "open"
        /\ \A f, g \in DOMAIN agent.fds : agent.fds[f] = "workload" /\ agent.fds[g] = "workload" => f = g
        /\ agent.res = "Add" <=> \E f \in DOMAIN agent.fds : agent.fds[f] = "workload"

\* No descriptor the kernel delivered outlives the reading of its message without an
\* owner, on any path: "so that if it fails we will close the FDs" (read_message).
NoFdLeaks == agent.res # "" => \A f \in DOMAIN agent.fds : agent.fds[f] # "open"

\* What crosses the two sockets arrives whole: capsules of the HBONE stream
\* (Decoder::push) and messages of the agent with their descriptors (read_message).
WireIntact == CapsulesIntact /\ FdsAccounted
===============================================================================
