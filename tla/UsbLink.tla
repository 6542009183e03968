-------------------------------- MODULE UsbLink --------------------------------
(***************************************************************************)
(* The two bulk endpoints of one USB device, as the rusb backend drives    *)
(* them (src/src/usb_backend/rusb.rs): the handshake of UsbDevice::new,    *)
(* the reader loop with the parser of the mux packets above libusb's       *)
(* transfers, and the writer loop with its buffer, its zero-length packets *)
(* and its sequence numbers (src/src/device/usb.rs,                        *)
(* src/src/parser/device_mux).                                             *)
(*                                                                         *)
(* Bytes are counted and not named: a packet is its protocol and its       *)
(* lengths, and what the parser reads depends on the place in the stream   *)
(* at which it reads.  A step is what a task does between two points at    *)
(* which another thread could tell.                                        *)
(***************************************************************************)
EXTENDS Integers, Sequences

CONSTANTS
    DevPackets,       \* external: the packets the device may send
    Junk,             \* the headers a reader that is out of step may see
    Payloads,         \* payload lengths of the packets in the writer's channel
    max_packet_size,  \* of the OUT endpoint
    TxCap,            \* capacity of the writer's channel (256)
    SeqMod,           \* modulus of send_seq and recv_seq (2^16)
    MaxSent,          \* bound: packets the device sends
    MaxWork           \* bound: packets that are queued for it, and twice those it sends

V1_SIZE == 8
V2_SIZE == 16
TCP_MIN_LEN == 20
VERSION_SIZE == 12
HEADERS_LEN_V2 == V2_SIZE + TCP_MIN_LEN
MAX_PACKET_SIZE == 48 * 1024
MAX_PACKET_PAYLOAD_SIZE == MAX_PACKET_SIZE - HEADERS_LEN_V2

Protocols == {"Version", "Control", "Setup", "Tcp", "unknown"}
Header == [protocol : Protocols, length : Nat]

\* External: the sizes USB allows for a bulk endpoint, full speed to SuperSpeed.
BulkSizes == {8, 16, 32, 64, 512, 1024}

ASSUME ConstantsAssumption ==
    /\ DevPackets \subseteq [hdr : Header, size : Nat] /\ \A p \in DevPackets : p.size >= V2_SIZE
    /\ Junk \subseteq Header
    /\ Payloads \subseteq 0 .. MAX_PACKET_PAYLOAD_SIZE
    /\ max_packet_size \in BulkSizes /\ TxCap \in Nat \ {0} /\ SeqMod \in Nat \ {0, 1}
    /\ MaxSent \in Nat /\ MaxWork \in Nat

VARIABLES
    dev,        \* UsbDevice: "version", "await", "setup" (new), "run", or how it ended
    parse,      \* from_reader: its stage, the bytes it still wants, the header, where it began
    pos,        \* bytes of the stream from_reader has taken
    buffered,   \* RusbAsyncReader: bytes of the last transfer that nobody has taken yet
    xfer,       \* its pending transfer, with the callback's result
    reader,     \* the reader loop: "run", or how it ended
    w_tx,       \* the writer's channel: payload lengths
    buffer,     \* RusbAsyncWriter: bytes not given to libusb yet
    current_transfer_len,
    writer,     \* the writer loop: "run", or "stuck" in a write that stays pending
    send_seq, recv_seq,
    sent,       \* external: the packets the device has sent, with their place in the stream
    onBus,      \* external: bytes that have gone into a transfer
    out,        \* external: the last packet that reached the device, how many did, and how many
                \* before it did not
    parsed,     \* history: the packets from_reader has returned
    shake,      \* history: how many of them new() took
    queued,     \* history: packets queued so far
    failed,     \* history: writes to the device that failed
    lost        \* history: packets that were not written

readVars  == <<parse, pos, buffered, xfer, reader, parsed>>
writeVars == <<buffer, current_transfer_len, writer, send_seq, out, failed, lost>>
vars == <<dev, readVars, w_tx, writeVars, recv_seq, sent, onBus, shake, queued>>

NoHeader == [protocol |-> "unknown", length |-> 0]
Start(at) == [stage |-> "v1", left |-> V1_SIZE, hdr |-> NoHeader, start |-> at]
NoXfer == [st |-> "none", n |-> 0, ok |-> TRUE, first |-> FALSE, cancel |-> FALSE]
Nothing == [count |-> 0, lost |-> 0, len |-> 0, zlp |-> FALSE, send_seq |-> 0, recv_seq |-> 0]

Init ==
    /\ dev = "version"
    /\ parse = Start(0) /\ pos = 0 /\ buffered = 0 /\ xfer = NoXfer /\ reader = "run"
    /\ w_tx = <<>> /\ buffer = 0 /\ current_transfer_len = 0 /\ writer = "run"
    /\ send_seq = 1 /\ recv_seq = 0
    /\ sent = <<>> /\ onBus = 0 /\ out = Nothing
    /\ parsed = <<>> /\ shake = 0 /\ queued = 0 /\ failed = 0 /\ lost = 0

SmallerOf(a, b) == IF a <= b THEN a ELSE b

\* Bytes of the stream the device has sent.
Sent == IF sent = <<>> THEN 0 ELSE sent[Len(sent)].start + sent[Len(sent)].size

--------------------------------------------------------------------------------
(* The handshake, UsbDevice::new.  The two packets are flushed, not ended: *)
(* their bytes stay counted in current_transfer_len.                       *)

\* write_all and flush.
Flush(n, next) ==
    \/ /\ current_transfer_len' = current_transfer_len + n
       /\ dev' = next /\ UNCHANGED <<failed, reader>>
    \/ /\ current_transfer_len' \in {current_transfer_len, current_transfer_len + n}
       /\ failed' = failed + 1
       /\ dev' = "failed" /\ reader' = "gone"

SendVersion ==
    /\ dev = "version"
    /\ Flush(V1_SIZE + VERSION_SIZE, "await")
    /\ UNCHANGED <<parse, pos, buffered, xfer, parsed, w_tx, buffer, writer, send_seq, out, lost,
                   recv_seq, sent, onBus, shake, queued>>

SendSetup ==
    /\ dev = "setup"
    /\ Flush(V2_SIZE + 1, "run")
    /\ UNCHANGED <<parse, pos, buffered, xfer, parsed, w_tx, buffer, writer, send_seq, out, lost,
                   recv_seq, sent, onBus, shake, queued>>

--------------------------------------------------------------------------------
(* RusbAsyncReader::poll_read, called by read_exact for the bytes          *)
(* from_reader wants.                                                      *)

Reading == dev \in {"await", "run"} /\ reader = "run"
Wants == Reading /\ parse.left > 0

\* Faulty: the place in the buffer is not moved on.
Copy_NoAdvance ==
    /\ Wants /\ buffered > 0
    /\ parse' = [parse EXCEPT !.left = @ - SmallerOf(buffered, parse.left)]
    /\ UNCHANGED <<dev, pos, buffered, xfer, reader, parsed, w_tx, writeVars, recv_seq, sent, onBus, shake, queued>>

\* Bytes of an earlier transfer first.
Copy ==
    /\ Wants /\ buffered > 0
    /\ LET n == SmallerOf(buffered, parse.left) IN
       /\ parse' = [parse EXCEPT !.left = @ - n]
       /\ pos' = pos + n
       /\ buffered' = buffered - n
    /\ UNCHANGED <<dev, xfer, reader, parsed, w_tx, writeVars, recv_seq, sent, onBus, shake, queued>>

\* alloc_and_submit; the result is polled once more before the read is left pending.
Submit ==
    /\ Wants /\ buffered = 0 /\ xfer.st = "none"
    /\ xfer' = [NoXfer EXCEPT !.st = "inflight", !.first = TRUE]
    /\ UNCHANGED <<dev, parse, pos, buffered, reader, parsed, w_tx, writeVars, recv_seq, sent, onBus, shake, queued>>

StillPending ==
    /\ Wants /\ xfer.st = "inflight" /\ xfer.first
    /\ xfer' = [xfer EXCEPT !.first = FALSE]
    /\ UNCHANGED <<dev, parse, pos, buffered, reader, parsed, w_tx, writeVars, recv_seq, sent, onBus, shake, queued>>

\* Faulty: the whole chunk is kept, with what was copied from it.
TakeChunk_KeepsChunk ==
    /\ Wants /\ buffered = 0 /\ xfer.st = "done" /\ xfer.n > 0 /\ (xfer.ok \/ xfer.first)
    /\ LET n == SmallerOf(xfer.n, parse.left) IN
       /\ parse' = [parse EXCEPT !.left = @ - n]
       /\ pos' = pos + n
       /\ buffered' = IF n < xfer.n THEN xfer.n ELSE 0
    /\ xfer' = NoXfer
    /\ UNCHANGED <<dev, reader, parsed, w_tx, writeVars, recv_seq, sent, onBus, shake, queued>>

\* Faulty: the poll after submission leaves no waker, and a later completion is not seen.
TakeChunk_NoWaker ==
    /\ Wants /\ buffered = 0 /\ xfer.st = "done" /\ xfer.n > 0 /\ xfer.first
    /\ LET n == SmallerOf(xfer.n, parse.left) IN
       /\ parse' = [parse EXCEPT !.left = @ - n]
       /\ pos' = pos + n
       /\ buffered' = xfer.n - n
    /\ xfer' = NoXfer
    /\ UNCHANGED <<dev, reader, parsed, w_tx, writeVars, recv_seq, sent, onBus, shake, queued>>

\* The transfer is done: chunk_to_buf.  Right after submission the status is not looked at.
TakeChunk ==
    /\ Wants /\ buffered = 0 /\ xfer.st = "done" /\ xfer.n > 0 /\ (xfer.ok \/ xfer.first)
    /\ LET n == SmallerOf(xfer.n, parse.left) IN
       /\ parse' = [parse EXCEPT !.left = @ - n]
       /\ pos' = pos + n
       /\ buffered' = xfer.n - n
    /\ xfer' = NoXfer
    /\ UNCHANGED <<dev, reader, parsed, w_tx, writeVars, recv_seq, sent, onBus, shake, queued>>

\* An I/O error: a submission that fails, a status that is looked at, or an empty chunk,
\* which read_exact takes for the end of the stream.
ReadFails ==
    /\ Wants /\ buffered = 0
    /\ xfer.st = "none" \/ (xfer.st = "done" /\ (xfer.n = 0 \/ ~(xfer.ok \/ xfer.first)))
    /\ xfer' = NoXfer
    /\ reader' = "gone"
    /\ dev' = IF dev = "await" THEN "failed" ELSE dev
    /\ UNCHANGED <<parse, pos, buffered, parsed, w_tx, writeVars, recv_seq, sent, onBus, shake, queued>>

--------------------------------------------------------------------------------
(* libusb's event thread.                                                  *)

\* bulk_callback: n bytes and a status go to the reader, if it is still there; the buffer
\* and the transfer are freed.
Complete(n, ok) ==
    /\ xfer.st = "inflight" /\ n <= Sent - onBus
    /\ onBus' = onBus + n
    /\ xfer' = IF reader = "run" THEN [xfer EXCEPT !.st = "done", !.n = n, !.ok = ok] ELSE NoXfer
    /\ UNCHANGED <<dev, parse, pos, buffered, reader, parsed, w_tx, writeVars, recv_seq, sent, shake, queued>>

\* A cancelled transfer is given back.
CompleteCancelled == xfer.cancel /\ Complete(0, FALSE)

--------------------------------------------------------------------------------
(* UsbDevicePacket::from_reader, from one read_exact to the next.          *)

Stage(s, n, h) == parse' = [parse EXCEPT !.stage = s, !.left = n, !.hdr = h]

HeadersSize(h) ==
    IF h.protocol = "Version" THEN V1_SIZE
    ELSE IF h.protocol = "Tcp" THEN HEADERS_LEN_V2 ELSE V2_SIZE

\* What the eight bytes at a place of the stream say.
HeaderAt(at) ==
    IF \E i \in 1 .. Len(sent) : sent[i].start = at
    THEN {sent[i].hdr : i \in {j \in 1 .. Len(sent) : sent[j].start = at}}
    ELSE Junk

\* The packet is refused: new() gives up, the reader loop goes on with what follows.
Refuse ==
    /\ parse' = Start(pos)
    /\ IF dev = "await" THEN dev' = "failed" /\ reader' = "gone" ELSE UNCHANGED <<dev, reader>>

\* The length says how many bytes follow the headers.
ToPayload(h) ==
    \/ h.length < HeadersSize(h) /\ Refuse
    \/ h.length >= HeadersSize(h) /\ Stage("payload", h.length - HeadersSize(h), h) /\ UNCHANGED <<dev, reader>>

ParseV1 ==
    /\ Reading /\ parse.stage = "v1" /\ parse.left = 0
    /\ \E h \in HeaderAt(parse.start) :
          \/ h.protocol = "unknown" /\ Refuse
          \/ h.protocol = "Version" /\ ToPayload(h)
          \/ /\ h.protocol \in {"Control", "Setup", "Tcp"}
             /\ Stage("v2", V2_SIZE - V1_SIZE, h) /\ UNCHANGED <<dev, reader>>
    /\ UNCHANGED <<pos, buffered, xfer, parsed, w_tx, writeVars, recv_seq, sent, onBus, shake, queued>>

ParseV2 ==
    /\ Reading /\ parse.stage = "v2" /\ parse.left = 0
    /\ IF parse.hdr.protocol = "Tcp"
       THEN Stage("tcp", TCP_MIN_LEN, parse.hdr) /\ UNCHANGED <<dev, reader>>
       ELSE ToPayload(parse.hdr)
    /\ UNCHANGED <<pos, buffered, xfer, parsed, w_tx, writeVars, recv_seq, sent, onBus, shake, queued>>

InStep == \E i \in 1 .. Len(sent) : sent[i].start = parse.start

\* Twenty bytes that are no TCP header are refused.
ParseTcp ==
    /\ Reading /\ parse.stage = "tcp" /\ parse.left = 0
    /\ ToPayload(parse.hdr) \/ (~InStep /\ Refuse)
    /\ UNCHANGED <<pos, buffered, xfer, parsed, w_tx, writeVars, recv_seq, sent, onBus, shake, queued>>

\* A whole packet.  The payload of a Version packet is cast to a struct of its size, which
\* panics when it has another.
ParsePayload ==
    /\ Reading /\ parse.stage = "payload" /\ parse.left = 0
    /\ IF parse.hdr.protocol = "Version" /\ parse.hdr.length # V1_SIZE + VERSION_SIZE
       THEN /\ reader' = "panicked" /\ dev' = IF dev = "await" THEN "failed" ELSE dev
            /\ UNCHANGED <<parse, parsed, recv_seq, shake>>
       ELSE /\ parse' = Start(pos)
            /\ parsed' = Append(parsed, parse.hdr)
            /\ IF dev = "await"
               THEN /\ shake' = shake + 1
                    /\ dev' = IF parse.hdr.protocol = "Version" THEN "setup" ELSE dev
                    /\ UNCHANGED recv_seq
               ELSE recv_seq' = (recv_seq + 1) % SeqMod /\ UNCHANGED <<shake, dev>>
            /\ UNCHANGED reader
    /\ UNCHANGED <<pos, buffered, xfer, w_tx, writeVars, sent, onBus, queued>>

--------------------------------------------------------------------------------
(* The writer loop.  Nothing in it waits but the channel: writes go into   *)
(* the buffer, and submit_end blocks.                                      *)

\* A connection queues a packet; the first of a device is a SYN.
Queue(n) ==
    /\ dev = "run" /\ Len(w_tx) < TxCap /\ queued + 2 * Len(sent) < MaxWork
    /\ queued = 0 => n = 0
    /\ w_tx' = Append(w_tx, n)
    /\ queued' = queued + 1
    /\ UNCHANGED <<dev, readVars, writeVars, recv_seq, sent, onBus, shake>>

\* A transfer that fills its last USB packet is ended by an empty one.
Ends(total) == total > 0 /\ total % max_packet_size = 0

\* Faulty: the length of one transfer is carried into the next.
SubmitEnd_NoReset(p, total) ==
    /\ current_transfer_len' = total
    /\ out' = [p EXCEPT !.zlp = Ends(total)]
    /\ buffer' = 0
    /\ UNCHANGED <<failed, lost>>

\* Faulty: a packet that could not be written stays in the buffer.
SubmitEnd_KeepsBuffer(p, total) ==
    \/ /\ out' = [p EXCEPT !.zlp = Ends(total)]
       /\ current_transfer_len' = 0 /\ buffer' = 0
       /\ UNCHANGED <<failed, lost>>
    \/ /\ out' = out /\ failed' = failed + 1 /\ lost' = lost + 1
       /\ buffer' = buffer + p.len
       /\ UNCHANGED current_transfer_len

\* sync_flush_and_zlp of the buffered packet p; its error is ignored.
SubmitEnd(p, total) ==
    /\ buffer' = 0
    /\ \/ /\ out' = [p EXCEPT !.zlp = Ends(total)]
          /\ current_transfer_len' = 0
          /\ UNCHANGED <<failed, lost>>
       \/ /\ out' = out /\ lost' = lost + 1
          /\ current_transfer_len' = total /\ failed' = failed + 1
       \/ /\ Ends(total) /\ out' = p /\ UNCHANGED lost
          /\ current_transfer_len' = total /\ failed' = failed + 1

\* poll_write: above the threshold it submits the buffer, and stays pending.
AutoFlush(n) == buffer + n >= 2 * MAX_PACKET_SIZE

\* Faulty: the number is taken when the packet has been written.
WriterPacket_SeqOnSuccess ==
    /\ dev = "run" /\ writer = "run" /\ w_tx # <<>>
    /\ LET n == HEADERS_LEN_V2 + Head(w_tx) IN
       /\ SubmitEnd([count |-> out.count + 1, lost |-> lost, len |-> n, zlp |-> FALSE,
                     send_seq |-> send_seq, recv_seq |-> recv_seq],
                    current_transfer_len + buffer + n)
       /\ send_seq' = IF failed' = failed THEN (send_seq + 1) % SeqMod ELSE send_seq
    /\ w_tx' = Tail(w_tx)
    /\ UNCHANGED <<dev, readVars, writer, recv_seq, sent, onBus, shake, queued>>

WriterPacket ==
    /\ dev = "run" /\ writer = "run" /\ w_tx # <<>>
    /\ w_tx' = Tail(w_tx)
    /\ send_seq' = (send_seq + 1) % SeqMod
    /\ LET n == HEADERS_LEN_V2 + Head(w_tx) IN
       IF AutoFlush(n)
       THEN /\ writer' = "stuck" /\ buffer' = 0
            /\ UNCHANGED <<current_transfer_len, out, failed, lost>>
       ELSE /\ SubmitEnd([count |-> out.count + 1, lost |-> lost, len |-> n, zlp |-> FALSE,
                          send_seq |-> send_seq, recv_seq |-> recv_seq],
                         current_transfer_len + buffer + n)
            /\ UNCHANGED writer
    /\ UNCHANGED <<dev, readVars, recv_seq, sent, onBus, shake, queued>>

--------------------------------------------------------------------------------
(* UsbDevice::shutdown aborts the loops, which drops their endpoints.      *)

Abort ==
    /\ dev = "run"
    /\ dev' = "dropped"
    /\ reader' = IF reader = "run" /\ xfer.st = "inflight" THEN "dropping" ELSE "gone"
    /\ xfer' = IF xfer.st = "inflight" THEN xfer ELSE NoXfer
    /\ parse' = Start(pos) /\ buffered' = 0 /\ w_tx' = <<>>
    /\ UNCHANGED <<pos, parsed, writeVars, recv_seq, sent, onBus, shake, queued>>

\* Faulty: the handle goes without cancelling its transfer.
Cancel_Forgets ==
    /\ reader = "dropping"
    /\ reader' = "gone"
    /\ UNCHANGED <<dev, parse, pos, buffered, xfer, parsed, w_tx, writeVars, recv_seq, sent, onBus, shake, queued>>

\* TransferHandle::drop, after it has found the transfer not completed.  By now it may be,
\* and the cancellation then meets a transfer that is freed.
Cancel ==
    /\ reader = "dropping"
    /\ reader' = "gone"
    /\ xfer' = IF xfer.st = "inflight" THEN [xfer EXCEPT !.cancel = TRUE] ELSE xfer
    /\ UNCHANGED <<dev, parse, pos, buffered, parsed, w_tx, writeVars, recv_seq, sent, onBus, shake, queued>>

--------------------------------------------------------------------------------
(* External: the device sends a packet.                                    *)

DeviceSends(p) ==
    /\ Len(sent) < MaxSent /\ queued + 2 * Len(sent) + 1 < MaxWork
    /\ dev \notin {"failed", "dropped"}
    /\ sent' = Append(sent, [hdr |-> p.hdr, size |-> p.size, start |-> Sent])
    /\ UNCHANGED <<dev, readVars, w_tx, writeVars, recv_seq, onBus, shake, queued>>

--------------------------------------------------------------------------------
Handshake == SendVersion \/ SendSetup
Parse == ParseV1 \/ ParseV2 \/ ParseTcp \/ ParsePayload
Poll == Copy \/ Submit \/ StillPending \/ TakeChunk \/ ReadFails
\* A transfer that fails has brought nothing, or all there is.
EventThread ==
    \/ \E n \in 0 .. Sent - onBus : Complete(n, TRUE)
    \/ \E n \in {0, Sent - onBus} : Complete(n, FALSE)

Next ==
    \/ Handshake \/ Parse \/ Poll \/ EventThread
    \/ WriterPacket \/ Abort \/ Cancel
    \/ \E n \in Payloads : Queue(n)
    \/ \E p \in DevPackets : DeviceSends(p)

(***************************************************************************)
(* The runtime polls the reader, a task that is dropped is dropped to the  *)
(* end, and libusb's event thread completes a transfer for which there are *)
(* bytes or which was cancelled.                                           *)
(***************************************************************************)
Fairness ==
    /\ WF_vars(Parse \/ Poll) /\ WF_vars(SendSetup) /\ WF_vars(Cancel)
    /\ WF_vars(onBus < Sent /\ EventThread)
    /\ WF_vars(CompleteCancelled)

Spec == Init /\ [][Next]_vars /\ Fairness

--------------------------------------------------------------------------------
(* Properties                                                              *)

\* Type invariant of the endpoints, the parser and the counters.
TypeOK ==
    /\ dev \in {"version", "await", "setup", "run", "failed", "dropped"}
    /\ reader \in {"run", "gone", "panicked", "dropping"} /\ writer \in {"run", "stuck"}
    /\ parse.stage \in {"v1", "v2", "tcp", "payload"} /\ parse.left \in Nat /\ parse.hdr \in Header
    /\ parse.start <= pos /\ buffered \in Nat
    /\ pos + buffered + (IF xfer.st = "done" THEN xfer.n ELSE 0) <= onBus /\ onBus <= Sent
    /\ xfer.st \in {"none", "inflight", "done"}
    /\ w_tx \in Seq(Payloads) /\ Len(w_tx) <= TxCap
    /\ buffer \in Nat /\ current_transfer_len \in Nat
    /\ send_seq \in 0 .. SeqMod - 1 /\ recv_seq \in 0 .. SeqMod - 1

\* A packet of the device whose end the reader can find: known protocol, and a length that
\* is that of its bytes and covers its headers.
WellFormed(p) ==
    /\ p.hdr.protocol # "unknown" /\ p.hdr.length = p.size /\ p.size >= HeadersSize(p.hdr)
    /\ p.hdr.protocol = "Version" => p.size = V1_SIZE + VERSION_SIZE

AllWellFormed == \A i \in 1 .. Len(sent) : WellFormed(sent[i])

Whole(h) == [hdr |-> h, size |-> h.length]

Pipe == INSTANCE PacketPipe WITH
    Packet <- DevPackets \cup {Whole(h) : h \in Junk \cup {p.hdr : p \in DevPackets}},
    WellFormed <- WellFormed,
    sent <- [i \in 1 .. Len(sent) |-> [hdr |-> sent[i].hdr, size |-> sent[i].size]],
    delivered <- [i \in 1 .. Len(parsed) |-> Whole(parsed[i])]

\* The reader implements the pipe: however the transfers cut the stream, with whatever
\* status they end, from_reader returns the device's packets whole and in order, until one
\* is not well formed.
PipeSpec == Pipe!Spec

\* Whatever the device has sent is read in the end, unless the reader has ended or lost
\* its place: no read is left waiting for a transfer that nobody submits or completes.
PacketsArrive ==
    (Reading /\ Len(parsed) < Len(sent))
        ~> (Len(parsed) >= Len(sent) \/ reader # "run" \/ dev = "failed" \/ ~AllWellFormed)

\* Once the device is dropped, libusb gives back the transfer in flight.
TransferReleased == (dev = "dropped") ~> (xfer.st = "none")

\* The device can tell where a packet ends: one that fills its last USB packet is followed
\* by an empty one, and no other is, although the bytes of the handshake are still counted
\* when the first is written.  A write that failed spoils the count of the next.
PacketEndVisible ==
    failed = 0 /\ out.count > 0 => (out.zlp <=> out.len % max_packet_size = 0)

\* poll_write never comes to submit the buffer itself: it would stay pending for good.
\* No packet reaches the threshold, and none is left behind by a failed write.
WriterNeverStuck == writer = "run"

\* A gap the device finds in send_seq is exactly the packets that were lost to failed
\* writes, and recv_seq never runs ahead of what the device has sent since the handshake
\* while its packets are well formed.
SequenceHonest ==
    out.count > 0 =>
        /\ out.send_seq = (out.count + out.lost) % SeqMod
        /\ AllWellFormed /\ Len(sent) - shake < SeqMod => out.recv_seq <= Len(sent) - shake
================================================================================
