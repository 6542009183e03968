--------------------------- MODULE UsbLink_proofs ---------------------------
(***************************************************************************)
(* Proofs about UsbLink for any packets of the device, any number of them, *)
(* any headers an out-of-step reader may see, any cut of the stream into   *)
(* transfers, any payloads, and any modulus of the sequence numbers.       *)
(***************************************************************************)
EXTENDS UsbLink, SequenceTheorems, TLAPS

(* The inductive invariant *)

Known == Junk \cup {p.hdr : p \in DevPackets}
ParseType == [stage : {"v1", "v2", "tcp", "payload"}, left : Nat, hdr : Header, start : Nat]
XferType == [st : {"none", "inflight", "done"}, n : Nat, ok : BOOLEAN, first : BOOLEAN,
             cancel : BOOLEAN]
SentType == [hdr : Header, size : Nat, start : Nat]
OutType == [count : Nat, lost : Nat, len : Nat, zlp : BOOLEAN, send_seq : Nat, recv_seq : Nat]

\* The types of the reading side; what was read has come over the bus, and what came over
\* the bus was sent.
ReadTyped ==
    /\ dev \in {"version", "await", "setup", "run", "failed", "dropped"}
    /\ reader \in {"run", "gone", "panicked", "dropping"}
    /\ parse \in ParseType /\ parse.start <= pos
    /\ parse.stage # "v1" => parse.hdr \in Known
    /\ pos \in Nat /\ buffered \in Nat /\ xfer \in XferType /\ onBus \in Nat
    /\ pos + buffered + (IF xfer.st = "done" THEN xfer.n ELSE 0) <= onBus /\ onBus <= Sent
    /\ sent \in Seq(SentType) /\ parsed \in Seq(Known) /\ shake \in Nat
    /\ recv_seq \in 0 .. SeqMod - 1

\* The types of the writing side.
WriteTyped ==
    /\ writer \in {"run", "stuck"} /\ w_tx \in Seq(Payloads) /\ Len(w_tx) <= TxCap
    /\ buffer \in Nat /\ current_transfer_len \in Nat /\ send_seq \in 0 .. SeqMod - 1
    /\ out \in OutType /\ queued \in Nat /\ failed \in Nat /\ lost \in Nat

Typed == ReadTyped /\ WriteTyped

\* The packets of the device lie in the stream one behind the other.
Placed ==
    /\ \A i \in 1 .. Len(sent) :
          /\ [hdr |-> sent[i].hdr, size |-> sent[i].size] \in DevPackets
          /\ sent[i].start + sent[i].size <= Sent
    /\ \A i, j \in 1 .. Len(sent) : i < j => sent[i].start + sent[i].size <= sent[j].start
    /\ sent # <<>> => sent[1].start = 0
    /\ \A i \in 1 .. Len(sent) - 1 : sent[i + 1].start = sent[i].start + sent[i].size

\* A packet that is not well formed has come before the reader, or is next.
Garbled == \E i \in 1 .. Len(sent) : i <= Len(parsed) + 1 /\ ~WellFormed(sent[i])

\* Where packet k ends.
End(k) == IF k = 0 THEN 0 ELSE sent[k].start + sent[k].size

\* What the reader took for packets is what the device sent.
Delivered ==
    ~Garbled =>
        /\ Len(parsed) <= Len(sent)
        /\ \A i \in 1 .. Len(parsed) : parsed[i] = sent[i].hdr

\* Bytes of a packet before and with the part that is being read.
Upto ==
    IF parse.stage = "v1" THEN V1_SIZE
    ELSE IF parse.stage = "v2" THEN V2_SIZE
    ELSE IF parse.stage = "tcp" THEN HEADERS_LEN_V2 ELSE parse.hdr.length

\* The reader is where the next packet of the device begins, or within it and has its header.
InPlace ==
    reader = "run" /\ ~Garbled =>
        /\ parse.start = End(Len(parsed))
        /\ pos + parse.left = parse.start + Upto
        /\ parse.stage # "v1" => Len(parsed) < Len(sent) /\ parse.hdr = sent[Len(parsed) + 1].hdr
        /\ parse.stage = "v2" => parse.hdr.protocol \in {"Control", "Setup", "Tcp"}
        /\ parse.stage = "tcp" => parse.hdr.protocol = "Tcp"

\* Nothing is left behind in the buffer, and every packet that was queued waits, has
\* reached the device or is lost.
Written ==
    /\ writer = "run" /\ buffer = 0
    /\ dev = "run" => queued = Len(w_tx) + out.count + lost
    /\ failed = 0 => lost = 0
    /\ dev \notin {"run", "dropped"} => w_tx = <<>> /\ out.count = 0 /\ lost = 0 /\ queued = 0

\* The transfer length counts the handshake until the first packet, a SYN, is written.
Carried ==
    /\ out.count + lost = 0 /\ w_tx # <<>> => w_tx[1] = 0
    /\ failed = 0 /\ dev = "version" => current_transfer_len = 0
    /\ failed = 0 /\ dev \in {"await", "setup"} => current_transfer_len = V1_SIZE + VERSION_SIZE
    /\ failed = 0 /\ dev = "run" =>
          current_transfer_len = IF out.count = 0 THEN V1_SIZE + VERSION_SIZE + V2_SIZE + 1 ELSE 0

\* send_seq counts the packets the writer took.
SendCounts == send_seq = (out.count + lost + 1) % SeqMod

\* recv_seq counts the packets since the handshake.
RecvCounts ==
    /\ dev \notin {"run", "dropped"} => Len(parsed) = shake /\ recv_seq = 0
    /\ AllWellFormed /\ Len(sent) - shake < SeqMod => recv_seq = Len(parsed) - shake

\* The inductive invariant.
IInv ==
    /\ Typed /\ Placed /\ Delivered /\ InPlace
    /\ Written /\ Carried /\ PacketEndVisible
    /\ SendCounts /\ RecvCounts /\ SequenceHonest

--------------------------------------------------------------------------------
(* Arithmetic and sequences *)

\* A remainder is below the modulus, a number below the modulus is its own remainder, and
\* counting modulo SeqMod agrees with counting.
LEMMA ModLemma ==
    ASSUME NEW a \in Nat
    PROVE  /\ a % SeqMod \in 0 .. SeqMod - 1
           /\ a < SeqMod => a % SeqMod = a
           /\ ((a % SeqMod) + 1) % SeqMod = (a + 1) % SeqMod
  <1>0. SeqMod \in Nat \ {0, 1}
    BY ConstantsAssumption
  <1>1. a % SeqMod \in 0 .. SeqMod - 1 /\ (a < SeqMod => a % SeqMod = a)
    BY <1>0, Z3
  <1> DEFINE q == a \div SeqMod
  <1>2. q \in Nat /\ q * SeqMod <= a
    BY <1>0, Z3
  <1>3. a < q * SeqMod + SeqMod
    BY <1>0, Z3
  <1> HIDE DEF q
  <1>4. PICK r \in 0 .. SeqMod - 1 : a = q * SeqMod + r
    <2>1. a - q * SeqMod \in 0 .. SeqMod - 1 /\ a = q * SeqMod + (a - q * SeqMod)
      BY <1>0, <1>2, <1>3, Z3
    <2> QED
      BY <2>1
  <1>5. (q * SeqMod + r) % SeqMod = r
    BY <1>0, <1>2, Z3
  <1>6. a % SeqMod = r
    BY <1>4, <1>5
  <1>7. (r + 1) % SeqMod = (q * SeqMod + r + 1) % SeqMod
    BY <1>0, <1>2, Z3
  <1>8. (r + 1) % SeqMod = (a + 1) % SeqMod
    BY <1>4, <1>7, Zenon
  <1> QED
    BY <1>1, <1>6, <1>8, Zenon

\* What Append does to a sequence.
LEMMA AppendFacts ==
    ASSUME NEW S, NEW s \in Seq(S), NEW e \in S
    PROVE  /\ Append(s, e) \in Seq(S) /\ Len(s) \in Nat /\ Len(Append(s, e)) = Len(s) + 1
           /\ \A i \in 1 .. Len(s) : Append(s, e)[i] = s[i]
           /\ Append(s, e)[Len(s) + 1] = e
           /\ Append(s, e) # <<>>
  BY AppendProperties

\* What Tail does to a sequence that is not empty.
LEMMA TailFacts ==
    ASSUME NEW S, NEW s \in Seq(S), s # <<>>
    PROVE  /\ Tail(s) \in Seq(S) /\ Len(s) \in Nat \ {0} /\ Len(Tail(s)) = Len(s) - 1
           /\ Head(s) = s[1] /\ s[1] \in S
  <1>1. Len(s) \in Nat \ {0}
    BY EmptySeq
  <1> QED
    BY <1>1, HeadTailProperties

--------------------------------------------------------------------------------
(* What the parts of a step do *)

\* What the constants are.
LEMMA Constant ==
    /\ DevPackets \subseteq [hdr : Header, size : Nat]
    /\ \A p \in DevPackets : p.hdr \in Header /\ p.size \in Nat /\ p.size >= V2_SIZE /\ p.size > 0
    /\ Known \subseteq Header
    /\ \A n \in Payloads : n \in Nat /\ n <= MAX_PACKET_PAYLOAD_SIZE
    /\ SeqMod \in Nat \ {0, 1} /\ TxCap \in Nat \ {0} /\ max_packet_size \in Nat \ {0}
  <1>1. DevPackets \subseteq [hdr : Header, size : Nat]
    BY ConstantsAssumption
  <1>2. \A p \in DevPackets : p.hdr \in Header /\ p.size \in Nat
    BY <1>1
  <1>3. \A p \in DevPackets : p.size >= V2_SIZE /\ p.size > 0
    <2> SUFFICES ASSUME NEW p \in DevPackets PROVE p.size >= V2_SIZE /\ p.size > 0
      OBVIOUS
    <2>1. p.size >= 16
      BY ConstantsAssumption DEF V2_SIZE
    <2>2. p.size \in Nat
      BY <1>2
    <2> QED
      BY <2>1, <2>2 DEF V2_SIZE
  <1>4. Known \subseteq Header
    BY <1>2, ConstantsAssumption DEF Known
  <1>5. \A n \in Payloads : n \in Nat /\ n <= MAX_PACKET_PAYLOAD_SIZE
    BY ConstantsAssumption
  <1>6. SeqMod \in Nat \ {0, 1} /\ TxCap \in Nat \ {0} /\ max_packet_size \in Nat \ {0}
    BY ConstantsAssumption DEF BulkSizes
  <1> QED
    BY <1>1, <1>2, <1>3, <1>4, <1>5, <1>6

\* The parser's record at the start of a packet.
LEMMA StartFacts ==
    ASSUME NEW at \in Nat
    PROVE  /\ Start(at) \in ParseType
           /\ Start(at).stage = "v1" /\ Start(at).left = V1_SIZE /\ Start(at).start = at
  <1>1. NoHeader \in Header
    BY DEF NoHeader, Header, Protocols
  <1> QED
    BY <1>1 DEF Start, ParseType, V1_SIZE

\* The stream ends where its last packet does.
LEMMA SentFacts ==
    ASSUME sent \in Seq(SentType)
    PROVE  /\ Sent \in Nat /\ Len(sent) \in Nat
           /\ \A i \in 1 .. Len(sent) : /\ sent[i] \in SentType /\ sent[i].hdr \in Header
                                        /\ sent[i].size \in Nat /\ sent[i].start \in Nat
           /\ Sent = End(Len(sent))
  <1>1. Len(sent) \in Nat /\ (sent = <<>> <=> Len(sent) = 0)
    BY EmptySeq
  <1>2. \A i \in 1 .. Len(sent) : sent[i] \in SentType
    BY ElementOfSeq
  <1>3. \A i \in 1 .. Len(sent) : /\ sent[i].hdr \in Header
                                  /\ sent[i].size \in Nat /\ sent[i].start \in Nat
    BY <1>2 DEF SentType
  <1> QED
    BY <1>1, <1>2, <1>3 DEF Sent, End

\* The packet that is refused is left behind.
LEMMA RefuseEffect ==
    ASSUME ReadTyped, Refuse
    PROVE  /\ parse' \in ParseType /\ parse'.stage = "v1" /\ parse'.left = V1_SIZE
           /\ parse'.start = pos
           /\ \/ reader' = reader /\ dev' = dev
              \/ reader' = "gone" /\ dev = "await" /\ dev' = "failed"
  BY StartFacts DEF ReadTyped, Refuse

\* The next part of a packet.
LEMMA StageEffect ==
    ASSUME ReadTyped, NEW s \in {"v1", "v2", "tcp", "payload"}, NEW n \in Nat, NEW h \in Known,
           Stage(s, n, h)
    PROVE  /\ parse' \in ParseType /\ parse'.stage = s /\ parse'.left = n /\ parse'.hdr = h
           /\ parse'.start = parse.start
  <1>1. parse \in ParseType /\ h \in Header
    BY Constant DEF ReadTyped
  <1> QED
    BY <1>1 DEF Stage, ParseType

\* The headers of a packet are eight bytes, sixteen, or with those of TCP thirty-six.
LEMMA HeadersFacts ==
    ASSUME NEW h \in Header
    PROVE  /\ HeadersSize(h) \in Nat /\ h.length \in Nat /\ h.protocol \in Protocols
           /\ h.length >= HeadersSize(h) => h.length - HeadersSize(h) \in Nat
  BY DEF HeadersSize, Header, V1_SIZE, V2_SIZE, HEADERS_LEN_V2, TCP_MIN_LEN

\* The packet is refused, or its payload is read next.
LEMMA ToPayloadEffect ==
    ASSUME ReadTyped, NEW h \in Known, ToPayload(h)
    PROVE  \/ h.length < HeadersSize(h) /\ Refuse
           \/ /\ h.length >= HeadersSize(h) /\ reader' = reader /\ dev' = dev
              /\ parse' \in ParseType /\ parse'.stage = "payload"
              /\ parse'.left = h.length - HeadersSize(h) /\ parse'.hdr = h
              /\ parse'.start = parse.start
  <1>1. h \in Header
    BY Constant
  <1>2. CASE h.length < HeadersSize(h) /\ Refuse
    BY <1>2
  <1>3. CASE /\ h.length >= HeadersSize(h) /\ Stage("payload", h.length - HeadersSize(h), h)
             /\ UNCHANGED <<dev, reader>>
    <2> DEFINE n == h.length - HeadersSize(h)
    <2>1. n \in Nat
      BY <1>1, <1>3, HeadersFacts
    <2> HIDE DEF n
    <2>2. Stage("payload", n, h)
      BY <1>3 DEF n
    <2> QED
      BY <1>3, <2>1, <2>2, StageEffect DEF n
  <1> QED
    BY <1>2, <1>3 DEF ToPayload

\* A header is one the device sent, or one of those a reader out of step may see.
LEMMA HeaderKnown ==
    ASSUME ReadTyped, Placed, NEW at \in Nat
    PROVE  HeaderAt(at) \subseteq Known
  <1>1. ASSUME NEW i \in 1 .. Len(sent)
        PROVE  sent[i].hdr \in Known
    <2> DEFINE p == [hdr |-> sent[i].hdr, size |-> sent[i].size]
    <2>1. p \in DevPackets
      BY DEF Placed
    <2>2. p.hdr = sent[i].hdr
      OBVIOUS
    <2> HIDE DEF p
    <2> QED
      BY <2>1, <2>2 DEF Known
  <1> QED
    BY <1>1 DEF HeaderAt, Known

\* Bytes of an earlier transfer, or of one that is done, are taken.
LEMMA TakeEffect ==
    ASSUME ReadTyped, Copy \/ TakeChunk
    PROVE  \E n \in Nat :
              /\ n <= parse.left /\ pos' = pos + n /\ buffered' \in Nat /\ xfer' \in XferType
              /\ pos' + buffered' + (IF xfer'.st = "done" THEN xfer'.n ELSE 0) <= onBus
              /\ parse' \in ParseType /\ parse'.stage = parse.stage /\ parse'.hdr = parse.hdr
              /\ parse'.start = parse.start /\ parse'.left = parse.left - n
              /\ UNCHANGED <<dev, reader, parsed, w_tx, writeVars, recv_seq, sent, onBus, shake, queued>>
  <1>1. /\ parse \in ParseType /\ parse.left \in Nat /\ pos \in Nat /\ buffered \in Nat
        /\ xfer \in XferType /\ xfer.n \in Nat /\ onBus \in Nat /\ NoXfer \in XferType
        /\ NoXfer.st = "none"
        /\ pos + buffered + (IF xfer.st = "done" THEN xfer.n ELSE 0) <= onBus
    BY DEF ReadTyped, ParseType, XferType, NoXfer
  <1>2. ASSUME NEW n \in Nat, n <= parse.left, parse' = [parse EXCEPT !.left = @ - n]
        PROVE  /\ parse' \in ParseType /\ parse'.stage = parse.stage /\ parse'.hdr = parse.hdr
               /\ parse'.start = parse.start /\ parse'.left = parse.left - n
    <2>1. parse.left - n \in Nat
      BY <1>1, <1>2
    <2> QED
      BY <1>1, <1>2, <2>1 DEF ParseType
  <1>3. CASE Copy
    <2> DEFINE n == SmallerOf(buffered, parse.left)
    <2>1. n \in Nat /\ n <= parse.left /\ n <= buffered
      BY <1>1 DEF SmallerOf
    <2>2. /\ parse' = [parse EXCEPT !.left = @ - n] /\ pos' = pos + n /\ buffered' = buffered - n
          /\ UNCHANGED <<dev, xfer, reader, parsed, w_tx, writeVars, recv_seq, sent, onBus, shake, queued>>
      BY <1>3 DEF Copy
    <2> HIDE DEF n
    <2>3. /\ buffered' \in Nat /\ xfer' \in XferType
          /\ pos' + buffered' + (IF xfer'.st = "done" THEN xfer'.n ELSE 0) <= onBus
      BY <1>1, <2>1, <2>2
    <2> QED
      BY <1>2, <2>1, <2>2, <2>3
  <1>4. CASE TakeChunk
    <2> DEFINE n == SmallerOf(xfer.n, parse.left)
    <2>1. n \in Nat /\ n <= parse.left /\ n <= xfer.n
      BY <1>1 DEF SmallerOf
    <2>2. /\ parse' = [parse EXCEPT !.left = @ - n] /\ pos' = pos + n /\ buffered' = xfer.n - n
          /\ buffered = 0 /\ xfer.st = "done" /\ xfer' = NoXfer
          /\ UNCHANGED <<dev, reader, parsed, w_tx, writeVars, recv_seq, sent, onBus, shake, queued>>
      BY <1>4 DEF TakeChunk
    <2> HIDE DEF n
    <2>3. /\ buffered' \in Nat /\ xfer' \in XferType
          /\ pos' + buffered' + (IF xfer'.st = "done" THEN xfer'.n ELSE 0) <= onBus
      BY <1>1, <2>1, <2>2
    <2> QED
      BY <1>2, <2>1, <2>2, <2>3
  <1> QED
    BY <1>3, <1>4

\* The parser goes on to part s of a packet with header h, of which n bytes are to come.
GoesOn(s, n, h) ==
    /\ parse' \in ParseType /\ parse'.stage = s /\ parse'.left = n /\ parse'.hdr = h
    /\ parse'.start = parse.start /\ reader' = reader /\ dev' = dev

\* What follows the headers, or a refusal.
PayloadNext(h) ==
    \/ h.length < HeadersSize(h) /\ Refuse
    \/ h.length >= HeadersSize(h) /\ GoesOn("payload", h.length - HeadersSize(h), h)

\* A part of the headers was read.
LEMMA ParseEffect ==
    ASSUME ReadTyped, Placed, ParseV1 \/ ParseV2 \/ ParseTcp
    PROVE  /\ parse.left = 0 /\ Reading
           /\ UNCHANGED <<pos, buffered, xfer, parsed, w_tx, writeVars, recv_seq, sent, onBus, shake, queued>>
           /\ \/ /\ parse.stage = "v1"
                 /\ \E h \in HeaderAt(parse.start) :
                       \/ h.protocol = "unknown" /\ Refuse
                       \/ h.protocol = "Version" /\ PayloadNext(h)
                       \/ h.protocol \in {"Control", "Setup", "Tcp"} /\ GoesOn("v2", 8, h)
              \/ /\ parse.stage = "v2"
                 /\ \/ parse.hdr.protocol = "Tcp" /\ GoesOn("tcp", 20, parse.hdr)
                    \/ parse.hdr.protocol # "Tcp" /\ PayloadNext(parse.hdr)
              \/ /\ parse.stage = "tcp"
                 /\ PayloadNext(parse.hdr) \/ (~InStep /\ Refuse)
  <1>1. parse.start \in Nat /\ (parse.stage # "v1" => parse.hdr \in Known)
    BY DEF ReadTyped, ParseType
  <1>2. HeaderAt(parse.start) \subseteq Known
    BY <1>1, HeaderKnown
  <1>3. \A h \in Known : ToPayload(h) => PayloadNext(h)
    BY ToPayloadEffect DEF PayloadNext, GoesOn
  <1>4. \A h \in Known : /\ Stage("v2", 8, h) /\ UNCHANGED <<dev, reader>> => GoesOn("v2", 8, h)
                         /\ Stage("tcp", 20, h) /\ UNCHANGED <<dev, reader>> => GoesOn("tcp", 20, h)
    BY StageEffect DEF GoesOn
  <1>5. CASE ParseV1
    <2>1. V2_SIZE - V1_SIZE = 8
      BY DEF V2_SIZE, V1_SIZE
    <2>2. PICK h \in HeaderAt(parse.start) :
             \/ h.protocol = "unknown" /\ Refuse
             \/ h.protocol = "Version" /\ ToPayload(h)
             \/ /\ h.protocol \in {"Control", "Setup", "Tcp"}
                /\ Stage("v2", 8, h) /\ UNCHANGED <<dev, reader>>
      BY <1>5, <2>1 DEF ParseV1
    <2>3. h \in Known
      BY <1>2, <2>2
    <2> QED
      BY <1>3, <1>4, <1>5, <2>2, <2>3 DEF ParseV1
  <1>6. CASE ParseV2
    BY <1>1, <1>3, <1>4, <1>6 DEF ParseV2, TCP_MIN_LEN
  <1>7. CASE ParseTcp
    BY <1>1, <1>3, <1>7 DEF ParseTcp
  <1> QED
    BY <1>5, <1>6, <1>7

\* The event thread completes a transfer with some bytes and some status.
LEMMA CompleteEffect ==
    ASSUME ReadTyped, EventThread
    PROVE  \E n \in Nat : \E ok \in BOOLEAN : Complete(n, ok)
  <1>1. Sent \in Nat /\ onBus \in Nat /\ onBus <= Sent
    BY SentFacts DEF ReadTyped
  <1>2. Sent - onBus \in Nat /\ 0 .. Sent - onBus \subseteq Nat
    BY <1>1
  <1> QED
    BY <1>2 DEF EventThread

\* The device's packet comes behind the others.
LEMMA SendsEffect ==
    ASSUME ReadTyped, NEW p \in DevPackets, DeviceSends(p)
    PROVE  /\ sent' \in Seq(SentType) /\ Len(sent) \in Nat /\ Len(sent') = Len(sent) + 1
           /\ \A i \in 1 .. Len(sent) : sent'[i] = sent[i]
           /\ sent'[Len(sent) + 1].hdr = p.hdr /\ sent'[Len(sent) + 1].size = p.size
           /\ sent'[Len(sent) + 1].start = Sent
           /\ Sent \in Nat /\ p.size \in Nat /\ Sent' = Sent + p.size
           /\ p = [hdr |-> p.hdr, size |-> p.size]
  <1> DEFINE e == [hdr |-> p.hdr, size |-> p.size, start |-> Sent]
  <1>1. Sent \in Nat /\ p.hdr \in Header /\ p.size \in Nat /\ p \in [hdr : Header, size : Nat]
    BY SentFacts, Constant DEF ReadTyped
  <1>2. e \in SentType
    BY <1>1 DEF SentType
  <1>3. e.hdr = p.hdr /\ e.size = p.size /\ e.start = Sent
    OBVIOUS
  <1>4. sent' = Append(sent, e) /\ sent \in Seq(SentType)
    BY DEF DeviceSends, ReadTyped
  <1> HIDE DEF e
  <1>5. /\ sent' \in Seq(SentType) /\ Len(sent) \in Nat /\ Len(sent') = Len(sent) + 1
        /\ \A i \in 1 .. Len(sent) : sent'[i] = sent[i]
        /\ sent'[Len(sent) + 1] = e /\ sent' # <<>>
    BY <1>2, <1>4, AppendFacts
  <1>6. Sent' = sent'[Len(sent')].start + sent'[Len(sent')].size
    BY <1>5 DEF Sent
  <1> QED
    BY <1>1, <1>3, <1>5, <1>6

\* A step keeps the types of the reading side.
LEMMA ReadTypedStep ==
    ASSUME ReadTyped, Placed, [Next]_vars
    PROVE  ReadTyped'
  <1> USE DEF readVars, writeVars, ReadTyped, XferType, NoXfer, Sent
  <1>0. /\ dev \in {"version", "await", "setup", "run", "failed", "dropped"}
        /\ reader \in {"run", "gone", "panicked", "dropping"}
        /\ parse \in ParseType /\ parse.start <= pos
        /\ parse.stage # "v1" => parse.hdr \in Known
        /\ pos \in Nat /\ buffered \in Nat /\ xfer \in XferType /\ onBus \in Nat
        /\ pos + buffered + (IF xfer.st = "done" THEN xfer.n ELSE 0) <= onBus /\ onBus <= Sent
        /\ sent \in Seq(SentType) /\ parsed \in Seq(Known) /\ shake \in Nat
        /\ recv_seq \in 0 .. SeqMod - 1
    BY DEF ReadTyped
  <1>1. CASE SendVersion
    BY <1>1, <1>0 DEF SendVersion, Flush
  <1>2. CASE SendSetup
    BY <1>2, <1>0 DEF SendSetup, Flush
  <1>3. CASE Copy
    <2> HIDE DEF XferType, Sent, writeVars
    <2>1. PICK n \in Nat :
             /\ n <= parse.left /\ pos' = pos + n /\ buffered' \in Nat /\ xfer' \in XferType
             /\ pos' + buffered' + (IF xfer'.st = "done" THEN xfer'.n ELSE 0) <= onBus
             /\ parse' \in ParseType /\ parse'.stage = parse.stage /\ parse'.hdr = parse.hdr
             /\ parse'.start = parse.start
             /\ UNCHANGED <<dev, reader, parsed, recv_seq, sent, onBus, shake>>
      BY <1>3, TakeEffect
    <2>2. parse.start \in Nat /\ Sent' = Sent
      BY <1>0, <2>1 DEF ParseType, Sent
    <2> QED
      BY <1>0, <2>1, <2>2
  <1>4. CASE Submit
    BY <1>4, <1>0 DEF Submit
  <1>5. CASE StillPending
    BY <1>5, <1>0 DEF StillPending
  <1>6. CASE TakeChunk
    <2> HIDE DEF XferType, Sent, writeVars
    <2>1. PICK n \in Nat :
             /\ n <= parse.left /\ pos' = pos + n /\ buffered' \in Nat /\ xfer' \in XferType
             /\ pos' + buffered' + (IF xfer'.st = "done" THEN xfer'.n ELSE 0) <= onBus
             /\ parse' \in ParseType /\ parse'.stage = parse.stage /\ parse'.hdr = parse.hdr
             /\ parse'.start = parse.start
             /\ UNCHANGED <<dev, reader, parsed, recv_seq, sent, onBus, shake>>
      BY <1>6, TakeEffect
    <2>2. parse.start \in Nat /\ Sent' = Sent
      BY <1>0, <2>1 DEF ParseType, Sent
    <2> QED
      BY <1>0, <2>1, <2>2
  <1>7. CASE ReadFails
    BY <1>7, <1>0 DEF ReadFails
  <1>8. CASE ParseV1
    <2>1. /\ UNCHANGED <<pos, buffered, xfer, parsed, recv_seq, sent, onBus, shake>>
          /\ \/ parse' \in ParseType /\ parse'.stage = "v1" /\ parse'.start = pos
             \/ parse' \in ParseType /\ parse'.hdr \in Known /\ parse'.start = parse.start
          /\ dev' \in {dev, "failed"} /\ reader' \in {reader, "gone"}
      <3>1. HeaderAt(parse.start) \subseteq Known
        BY <1>0, HeaderKnown DEF ParseType
      <3> QED
        BY <1>0, <1>8, <3>1, ParseEffect, RefuseEffect DEF PayloadNext, GoesOn
    <2> QED
      BY <1>0, <2>1
  <1>9. CASE ParseV2
    <2>1. /\ UNCHANGED <<pos, buffered, xfer, parsed, recv_seq, sent, onBus, shake>>
          /\ \/ parse' \in ParseType /\ parse'.stage = "v1" /\ parse'.start = pos
             \/ parse' \in ParseType /\ parse'.hdr \in Known /\ parse'.start = parse.start
          /\ dev' \in {dev, "failed"} /\ reader' \in {reader, "gone"}
      <3>1. HeaderAt(parse.start) \subseteq Known
        BY <1>0, HeaderKnown DEF ParseType
      <3> QED
        BY <1>0, <1>9, <3>1, ParseEffect, RefuseEffect DEF PayloadNext, GoesOn
    <2> QED
      BY <1>0, <2>1
  <1>10. CASE ParseTcp
    <2>1. /\ UNCHANGED <<pos, buffered, xfer, parsed, recv_seq, sent, onBus, shake>>
          /\ \/ parse' \in ParseType /\ parse'.stage = "v1" /\ parse'.start = pos
             \/ parse' \in ParseType /\ parse'.hdr \in Known /\ parse'.start = parse.start
          /\ dev' \in {dev, "failed"} /\ reader' \in {reader, "gone"}
      <3>1. HeaderAt(parse.start) \subseteq Known
        BY <1>0, HeaderKnown DEF ParseType
      <3> QED
        BY <1>0, <1>10, <3>1, ParseEffect, RefuseEffect DEF PayloadNext, GoesOn
    <2> QED
      BY <1>0, <2>1
  <1>11. CASE ParsePayload
    <2>1. Start(pos) \in ParseType /\ Start(pos).stage = "v1" /\ Start(pos).start = pos
      BY <1>0, StartFacts
    <2>2. parse.hdr \in Known
      BY <1>0, <1>11 DEF ParsePayload
    <2>3. Append(parsed, parse.hdr) \in Seq(Known)
      BY <1>0, <2>2, AppendFacts
    <2>4. (recv_seq + 1) % SeqMod \in 0 .. SeqMod - 1
      <3>1. recv_seq + 1 \in Nat
        BY <1>0, Constant
      <3> QED
        BY <3>1, ModLemma
    <2>5. /\ parse' \in {parse, Start(pos)} /\ parsed' \in {parsed, Append(parsed, parse.hdr)}
          /\ recv_seq' \in {recv_seq, (recv_seq + 1) % SeqMod} /\ shake' \in {shake, shake + 1}
          /\ reader' \in {reader, "panicked"} /\ dev' \in {dev, "setup", "failed"}
          /\ UNCHANGED <<pos, buffered, xfer, sent, onBus>>
      BY <1>11 DEF ParsePayload
    <2>6. Sent' = Sent /\ recv_seq' \in 0 .. SeqMod - 1 /\ shake' \in Nat
      BY <1>0, <2>4, <2>5
    <2> HIDE DEF Sent, XferType
    <2>7. /\ parse' \in ParseType /\ parse'.start <= pos' /\ parsed' \in Seq(Known)
          /\ parse'.stage # "v1" => parse'.hdr \in Known
      <3>1. CASE parse' = parse
        BY <1>0, <2>3, <2>5, <3>1
      <3>2. CASE parse' = Start(pos)
        BY <1>0, <2>1, <2>3, <2>5, <3>2
      <3> QED
        BY <2>5, <3>1, <3>2
    <2>8. /\ dev' \in {"version", "await", "setup", "run", "failed", "dropped"}
          /\ reader' \in {"run", "gone", "panicked", "dropping"}
      BY <1>0, <2>5
    <2>9. UNCHANGED <<pos, buffered, xfer, sent, onBus>>
      BY <2>5
    <2> QED
      BY <1>0, <2>6, <2>7, <2>8, <2>9
  <1>12. CASE EventThread
    <2>1. PICK n \in Nat : \E ok \in BOOLEAN : Complete(n, ok)
      BY <1>12, CompleteEffect
    <2>2. PICK ok \in BOOLEAN : Complete(n, ok)
      BY <2>1
    <2>3. Sent \in Nat /\ n <= Sent - onBus /\ onBus' = onBus + n /\ xfer.st = "inflight"
      BY <1>0, <2>2, SentFacts DEF Complete
    <2>4. xfer' \in XferType /\ (xfer'.st = "done" => xfer'.n = n)
      BY <1>0, <2>2 DEF Complete, XferType, NoXfer
    <2>5. UNCHANGED <<dev, parse, pos, buffered, reader, parsed, recv_seq, sent, shake>>
      BY <2>2 DEF Complete
    <2>6. Sent' = Sent
      BY <2>5 DEF Sent
    <2> HIDE DEF Sent, XferType
    <2> QED
      BY <1>0, <2>3, <2>4, <2>5, <2>6
  <1>13. CASE WriterPacket
    BY <1>13, <1>0 DEF WriterPacket
  <1>14. CASE Abort
    <2>1. Start(pos) \in ParseType /\ Start(pos).stage = "v1" /\ Start(pos).start = pos
      BY <1>0, StartFacts
    <2> QED
      BY <1>0, <1>14, <2>1 DEF Abort
  <1>15. CASE Cancel
    BY <1>15, <1>0 DEF Cancel
  <1>16. ASSUME NEW n \in Payloads, Queue(n)
        PROVE  ReadTyped'
    BY <1>16, <1>0 DEF Queue
  <1>17. ASSUME NEW p \in DevPackets, DeviceSends(p)
        PROVE  ReadTyped'
    <2>1. /\ sent' \in Seq(SentType) /\ Sent \in Nat /\ p.size \in Nat /\ Sent' = Sent + p.size
      BY <1>17, SendsEffect
    <2>2. UNCHANGED <<dev, readVars, recv_seq, onBus, shake>>
      BY <1>17 DEF DeviceSends
    <2> HIDE DEF Sent, XferType
    <2> QED
      BY <1>0, <2>1, <2>2
  <1>18. CASE UNCHANGED vars
    BY <1>18, <1>0 DEF vars
  <1> QED
    BY <1>1, <1>2, <1>3, <1>4, <1>5, <1>6, <1>7, <1>8, <1>9, <1>10, <1>11, <1>12, <1>13, <1>14,
       <1>15, <1>16, <1>17, <1>18
       DEF Next, Handshake, Parse, Poll

--------------------------------------------------------------------------------
(* The stream *)

\* Which steps touch the stream, what was read of it, and the reader's place in it.
LEMMA StreamFrame ==
    ASSUME [Next]_vars
    PROVE  /\ UNCHANGED sent \/ \E p \in DevPackets : DeviceSends(p)
           /\ UNCHANGED parsed \/ ParsePayload
           /\ \/ UNCHANGED <<parse, pos, sent, parsed>> /\ (reader' = reader \/ reader' # "run")
              \/ UNCHANGED <<sent, parsed>> /\ reader' # "run"
              \/ Copy \/ TakeChunk \/ ParseV1 \/ ParseV2 \/ ParseTcp \/ ParsePayload
              \/ \E p \in DevPackets : DeviceSends(p)
  <1> USE DEF readVars, writeVars
  <1>1. CASE Handshake
    BY <1>1 DEF Handshake, SendVersion, SendSetup, Flush
  <1>2. CASE Copy \/ TakeChunk
    BY <1>2 DEF Copy, TakeChunk
  <1>3. CASE Submit \/ StillPending \/ ReadFails
    BY <1>3 DEF Submit, StillPending, ReadFails
  <1>4. CASE EventThread
    BY <1>4 DEF EventThread, Complete
  <1>5. CASE ParseV1 \/ ParseV2 \/ ParseTcp
    BY <1>5 DEF ParseV1, ParseV2, ParseTcp
  <1>6. CASE ParsePayload
    BY <1>6 DEF ParsePayload
  <1>7. CASE WriterPacket
    BY <1>7 DEF WriterPacket
  <1>8. CASE Abort \/ Cancel
    BY <1>8 DEF Abort, Cancel
  <1>9. CASE \E n \in Payloads : Queue(n)
    BY <1>9 DEF Queue
  <1>10. CASE \E p \in DevPackets : DeviceSends(p)
    BY <1>10 DEF DeviceSends
  <1>11. CASE UNCHANGED vars
    BY <1>11 DEF vars
  <1> QED
    BY <1>1, <1>2, <1>3, <1>4, <1>5, <1>6, <1>7, <1>8, <1>9, <1>10, <1>11 DEF Next, Parse, Poll

\* The device puts its packets one behind the other.
LEMMA PlacedStep ==
    ASSUME ReadTyped, Placed, [Next]_vars
    PROVE  Placed'
  <1>1. CASE UNCHANGED sent
    BY <1>1 DEF Placed, Sent
  <1>2. ASSUME NEW p \in DevPackets, DeviceSends(p)
        PROVE  Placed'
    <2> DEFINE n == Len(sent)
    <2>1. /\ Len(sent) \in Nat /\ Len(sent') = Len(sent) + 1
          /\ \A i \in 1 .. Len(sent) : sent'[i] = sent[i]
          /\ sent'[Len(sent) + 1].hdr = p.hdr /\ sent'[Len(sent) + 1].size = p.size
          /\ sent'[Len(sent) + 1].start = Sent
          /\ Sent \in Nat /\ p.size \in Nat /\ Sent' = Sent + p.size
          /\ p = [hdr |-> p.hdr, size |-> p.size]
      BY <1>2, SendsEffect
    <2>2. /\ \A i \in 1 .. Len(sent) : sent[i].size \in Nat /\ sent[i].start \in Nat
          /\ Sent = End(Len(sent))
      BY SentFacts DEF ReadTyped
    <2>3. /\ \A i \in 1 .. Len(sent) :
                /\ [hdr |-> sent[i].hdr, size |-> sent[i].size] \in DevPackets
                /\ sent[i].start + sent[i].size <= Sent
          /\ \A i, j \in 1 .. Len(sent) : i < j => sent[i].start + sent[i].size <= sent[j].start
          /\ sent # <<>> => sent[1].start = 0
          /\ \A i \in 1 .. Len(sent) - 1 : sent[i + 1].start = sent[i].start + sent[i].size
      BY DEF Placed
    <2>4. \A i \in 1 .. Len(sent') : i \in 1 .. Len(sent) \/ i = Len(sent) + 1
      BY <2>1
    <2>5. ASSUME NEW i \in 1 .. Len(sent')
          PROVE  /\ [hdr |-> sent'[i].hdr, size |-> sent'[i].size] \in DevPackets
                 /\ sent'[i].start + sent'[i].size <= Sent'
      <3>1. CASE i \in 1 .. Len(sent)
        BY <2>1, <2>2, <2>3, <3>1
      <3>2. CASE i = Len(sent) + 1
        BY <2>1, <3>2
      <3> QED
        BY <2>4, <3>1, <3>2
    <2>6. ASSUME NEW i \in 1 .. Len(sent'), NEW j \in 1 .. Len(sent'), i < j
          PROVE  sent'[i].start + sent'[i].size <= sent'[j].start
      <3>1. CASE j \in 1 .. Len(sent)
        <4>1. i \in 1 .. Len(sent)
          BY <2>1, <2>6, <3>1
        <4> QED
          BY <2>1, <2>3, <2>6, <3>1, <4>1
      <3>2. CASE j = Len(sent) + 1
        <4>1. i \in 1 .. Len(sent)
          BY <2>1, <2>6, <3>2
        <4> QED
          BY <2>1, <2>3, <3>2, <4>1
      <3> QED
        BY <2>4, <3>1, <3>2
    <2>7. sent'[1].start = 0
      <3>1. CASE Len(sent) = 0
        BY <2>1, <2>2, <3>1 DEF End
      <3>2. CASE Len(sent) # 0
        <4>1. sent # <<>>
          BY <3>2
        <4> QED
          BY <2>1, <2>3, <3>2, <4>1
      <3> QED
        BY <3>1, <3>2
    <2>8. ASSUME NEW i \in 1 .. Len(sent') - 1
          PROVE  sent'[i + 1].start = sent'[i].start + sent'[i].size
      <3>1. CASE i = Len(sent)
        BY <2>1, <2>2, <3>1 DEF End
      <3>2. CASE i # Len(sent)
        <4>1. i \in 1 .. Len(sent) - 1 /\ i \in 1 .. Len(sent) /\ i + 1 \in 1 .. Len(sent)
          BY <2>1, <3>2
        <4> QED
          BY <2>1, <2>3, <4>1
      <3> QED
        BY <3>1, <3>2
    <2> QED
      BY <2>5, <2>6, <2>7, <2>8 DEF Placed
  <1> QED
    BY <1>1, <1>2, StreamFrame

\* Once the reader may be out of step it stays so.
LEMMA GarbledStays ==
    ASSUME Len(sent) \in Nat, Len(sent') \in Nat, Len(parsed) \in Nat, Len(parsed') \in Nat,
           Len(sent) <= Len(sent'), Len(parsed) <= Len(parsed'),
           \A i \in 1 .. Len(sent) : sent'[i] = sent[i],
           Garbled
    PROVE  Garbled'
  <1>1. PICK i \in 1 .. Len(sent) : i <= Len(parsed) + 1 /\ ~WellFormed(sent[i])
    BY DEF Garbled
  <1>2. i \in 1 .. Len(sent') /\ i <= Len(parsed') + 1 /\ ~WellFormed(sent'[i])
    BY <1>1
  <1> QED
    BY <1>2 DEF Garbled

\* A reader in step that has read eight bytes or more of a packet is at one the device has
\* sent, and no other packet begins where it does.
LEMMA AtPacket ==
    ASSUME ReadTyped, Placed, Delivered, InPlace, reader = "run", ~Garbled, parse.left = 0
    PROVE  /\ Len(parsed) \in Nat /\ Len(parsed) + 1 \in 1 .. Len(sent)
           /\ parse.start = sent[Len(parsed) + 1].start
           /\ WellFormed(sent[Len(parsed) + 1]) /\ sent[Len(parsed) + 1].hdr \in Known
           /\ HeaderAt(parse.start) = {sent[Len(parsed) + 1].hdr} /\ InStep
           /\ pos = parse.start + Upto
           /\ End(Len(parsed) + 1) = sent[Len(parsed) + 1].start + sent[Len(parsed) + 1].size
  <1> DEFINE k == Len(parsed)
  <1>1. /\ k \in Nat /\ parse \in ParseType /\ parse.start \in Nat /\ pos \in Nat /\ onBus \in Nat
        /\ pos + buffered + (IF xfer.st = "done" THEN xfer.n ELSE 0) <= onBus /\ onBus <= Sent
        /\ buffered \in Nat /\ (IF xfer.st = "done" THEN xfer.n ELSE 0) \in Nat
    BY DEF ReadTyped, ParseType, XferType
  <1>2. /\ Sent \in Nat /\ Len(sent) \in Nat /\ Sent = End(Len(sent))
        /\ \A i \in 1 .. Len(sent) : sent[i].size \in Nat /\ sent[i].start \in Nat
    BY SentFacts DEF ReadTyped
  <1>3. pos <= Sent
    BY <1>1, <1>2
  <1>4. k <= Len(sent) /\ parse.start = End(k) /\ pos + 0 = parse.start + Upto
    BY DEF Delivered, InPlace
  <1>5. k < Len(sent)
    <2>1. CASE parse.stage # "v1"
      BY <2>1 DEF InPlace
    <2>2. CASE parse.stage = "v1"
      <3>1. pos = parse.start + 8
        BY <1>1, <1>4, <2>2 DEF Upto, V1_SIZE
      <3>2. k # Len(sent)
        BY <1>1, <1>2, <1>3, <1>4, <3>1
      <3> QED
        BY <1>1, <1>2, <1>4, <3>2
    <2> QED
      BY <2>1, <2>2
  <1>6. k + 1 \in 1 .. Len(sent) /\ (k # 0 => k \in 1 .. Len(sent) - 1)
    BY <1>1, <1>2, <1>5
  <1>7. parse.start = sent[k + 1].start
    <2>1. CASE k = 0
      <3>1. sent # <<>>
        BY <1>2, <1>6
      <3> QED
        BY <1>4, <2>1, <3>1 DEF End, Placed
    <2>2. CASE k # 0
      BY <1>4, <1>6, <2>2 DEF End, Placed
    <2> QED
      BY <2>1, <2>2
  <1>8. WellFormed(sent[k + 1])
    BY <1>1, <1>6 DEF Garbled
  <1>9. \A i \in 1 .. Len(sent) : sent[i].start = parse.start => i = k + 1
    <2> SUFFICES ASSUME NEW i \in 1 .. Len(sent), sent[i].start = parse.start, i # k + 1
                 PROVE  FALSE
      OBVIOUS
    <2>1. sent[i].size > 0 /\ sent[k + 1].size > 0
      <3>1. ASSUME NEW j \in 1 .. Len(sent) PROVE sent[j].size > 0
        <4> DEFINE p == [hdr |-> sent[j].hdr, size |-> sent[j].size]
        <4>1. p \in DevPackets /\ p.size = sent[j].size
          BY DEF Placed
        <4> HIDE DEF p
        <4> QED
          BY <4>1, Constant
      <3> QED
        BY <1>6, <3>1
    <2>2. CASE i < k + 1
      BY <1>2, <1>6, <1>7, <2>1, <2>2 DEF Placed
    <2>3. CASE k + 1 < i
      BY <1>2, <1>6, <1>7, <2>1, <2>3 DEF Placed
    <2> QED
      BY <1>1, <1>2, <2>2, <2>3
  <1>10. InStep
    BY <1>6, <1>7 DEF InStep
  <1>11. HeaderAt(parse.start) = {sent[k + 1].hdr}
    <2>1. {j \in 1 .. Len(sent) : sent[j].start = parse.start} = {k + 1}
      BY <1>6, <1>7, <1>9
    <2> QED
      BY <1>6, <1>7, <2>1 DEF HeaderAt
  <1>12. sent[k + 1].hdr \in Known
    BY <1>1, <1>11, HeaderKnown
  <1>13. pos = parse.start + Upto
    BY <1>1, <1>4
  <1> QED
    BY <1>1, <1>6, <1>7, <1>8, <1>10, <1>11, <1>12, <1>13 DEF End

\* What the device sends after a packet does not change that packet.
LEMMA SendsKeeps ==
    ASSUME ReadTyped, Delivered, NEW p \in DevPackets, DeviceSends(p), ~Garbled'
    PROVE  /\ ~Garbled /\ Len(parsed) \in Nat /\ Len(parsed) <= Len(sent) /\ parsed' = parsed
           /\ Len(sent) \in Nat /\ Len(sent') = Len(sent) + 1
           /\ \A i \in 1 .. Len(sent) : sent'[i] = sent[i]
           /\ End(Len(parsed))' = End(Len(parsed))
           /\ UNCHANGED <<parse, pos, reader>>
  <1>1. /\ Len(sent) \in Nat /\ Len(sent') = Len(sent) + 1
        /\ \A i \in 1 .. Len(sent) : sent'[i] = sent[i]
    BY SendsEffect
  <1>2. parsed' = parsed /\ Len(parsed) \in Nat /\ UNCHANGED <<parse, pos, reader>>
    BY DEF DeviceSends, readVars, ReadTyped
  <1>3. ~Garbled
    BY <1>1, <1>2, GarbledStays
  <1>4. Len(parsed) <= Len(sent)
    BY <1>3 DEF Delivered
  <1>5. End(Len(parsed))' = End(Len(parsed))
    BY <1>1, <1>2, <1>4 DEF End
  <1> QED
    BY <1>1, <1>2, <1>3, <1>4, <1>5

\* A reader in step returns the packet that is next.
LEMMA PayloadInStep ==
    ASSUME ReadTyped, Placed, Delivered, InPlace, ParsePayload, ~Garbled'
    PROVE  /\ ~Garbled /\ reader' = "run" /\ sent' = sent /\ pos' = pos
           /\ Len(parsed) \in Nat /\ Len(parsed) + 1 \in 1 .. Len(sent)
           /\ parsed' = Append(parsed, sent[Len(parsed) + 1].hdr) /\ Len(parsed') = Len(parsed) + 1
           /\ \A i \in 1 .. Len(parsed) : parsed'[i] = parsed[i]
           /\ parsed'[Len(parsed) + 1] = sent[Len(parsed) + 1].hdr
           /\ parse' = Start(pos) /\ pos = End(Len(parsed) + 1)
           /\ WellFormed(sent[Len(parsed) + 1])
  <1>1. /\ parse.left = 0 /\ parse.stage = "payload" /\ sent' = sent /\ pos' = pos /\ reader = "run"
        /\ parsed' \in {parsed, Append(parsed, parse.hdr)} /\ parsed \in Seq(Known)
        /\ parse.hdr \in Known
    BY DEF ParsePayload, Reading, ReadTyped
  <1>2. /\ Append(parsed, parse.hdr) \in Seq(Known) /\ Len(parsed) \in Nat
        /\ Len(Append(parsed, parse.hdr)) = Len(parsed) + 1
        /\ \A i \in 1 .. Len(parsed) : Append(parsed, parse.hdr)[i] = parsed[i]
        /\ Append(parsed, parse.hdr)[Len(parsed) + 1] = parse.hdr
    BY <1>1, AppendFacts
  <1>3. Len(sent) \in Nat /\ Len(parsed') \in Nat /\ Len(parsed) <= Len(parsed')
    BY <1>1, <1>2, SentFacts DEF ReadTyped
  <1>4. ~Garbled
    BY <1>1, <1>2, <1>3, GarbledStays
  <1>5. /\ Len(parsed) + 1 \in 1 .. Len(sent) /\ parse.start = sent[Len(parsed) + 1].start
        /\ WellFormed(sent[Len(parsed) + 1]) /\ pos = parse.start + Upto
        /\ End(Len(parsed) + 1) = sent[Len(parsed) + 1].start + sent[Len(parsed) + 1].size
    BY <1>1, <1>4, AtPacket
  <1>6. parse.hdr = sent[Len(parsed) + 1].hdr
    BY <1>1, <1>4 DEF InPlace
  <1>7. /\ parse.hdr.length = sent[Len(parsed) + 1].size
        /\ parse.hdr.protocol = "Version" => parse.hdr.length = V1_SIZE + VERSION_SIZE
    BY <1>5, <1>6 DEF WellFormed
  <1>8. parse' = Start(pos) /\ parsed' = Append(parsed, parse.hdr) /\ reader' = reader
    BY <1>7 DEF ParsePayload
  <1>9. pos = End(Len(parsed) + 1)
    BY <1>1, <1>5, <1>7 DEF Upto
  <1> QED
    BY <1>1, <1>2, <1>4, <1>5, <1>6, <1>8, <1>9

\* What was read is what was sent, as long as it is well formed.
LEMMA DeliveredStep ==
    ASSUME ReadTyped, Placed, Delivered, InPlace, [Next]_vars
    PROVE  Delivered'
  <1>1. CASE UNCHANGED <<sent, parsed>>
    BY <1>1 DEF Delivered, Garbled
  <1>2. CASE ParsePayload
    <2> SUFFICES ASSUME ~Garbled'
                 PROVE  /\ Len(parsed') <= Len(sent')
                        /\ \A i \in 1 .. Len(parsed') : parsed'[i] = sent'[i].hdr
      BY DEF Delivered
    <2>1. /\ ~Garbled /\ sent' = sent /\ Len(parsed) \in Nat /\ Len(parsed) + 1 \in 1 .. Len(sent)
          /\ Len(parsed') = Len(parsed) + 1
          /\ \A i \in 1 .. Len(parsed) : parsed'[i] = parsed[i]
          /\ parsed'[Len(parsed) + 1] = sent[Len(parsed) + 1].hdr
      BY <1>2, PayloadInStep
    <2>2. \A i \in 1 .. Len(parsed) : parsed[i] = sent[i].hdr
      BY <2>1 DEF Delivered
    <2> QED
      BY <2>1, <2>2
  <1>3. ASSUME NEW p \in DevPackets, DeviceSends(p)
        PROVE  Delivered'
    <2> SUFFICES ASSUME ~Garbled'
                 PROVE  /\ Len(parsed') <= Len(sent')
                        /\ \A i \in 1 .. Len(parsed') : parsed'[i] = sent'[i].hdr
      BY DEF Delivered
    <2>1. /\ ~Garbled /\ Len(parsed) \in Nat /\ Len(parsed) <= Len(sent) /\ parsed' = parsed
          /\ Len(sent) \in Nat /\ Len(sent') = Len(sent) + 1
          /\ \A i \in 1 .. Len(sent) : sent'[i] = sent[i]
      BY <1>3, SendsKeeps
    <2>2. \A i \in 1 .. Len(parsed) : parsed[i] = sent[i].hdr
      BY <2>1 DEF Delivered
    <2> QED
      BY <2>1, <2>2
  <1> QED
    BY <1>1, <1>2, <1>3, StreamFrame

\* The reader keeps its place.
LEMMA InPlaceStep ==
    ASSUME ReadTyped, Placed, Delivered, InPlace, [Next]_vars
    PROVE  InPlace'
  <1> SUFFICES ASSUME reader' = "run", ~Garbled'
               PROVE  InPlace'
    BY DEF InPlace
  <1>0. /\ parse \in ParseType /\ parse.start \in Nat /\ parse.left \in Nat /\ pos \in Nat
        /\ parse.hdr \in Header /\ (parse.stage # "v1" => parse.hdr \in Known)
    BY DEF ReadTyped, ParseType
  <1>1. CASE UNCHANGED <<parse, pos, sent, parsed>> /\ (reader' = reader \/ reader' # "run")
    BY <1>1 DEF InPlace, Garbled, End, Upto
  <1>2. CASE Copy \/ TakeChunk
    <2>1. PICK n \in Nat :
             /\ n <= parse.left /\ pos' = pos + n
             /\ parse' \in ParseType /\ parse'.stage = parse.stage /\ parse'.hdr = parse.hdr
             /\ parse'.start = parse.start /\ parse'.left = parse.left - n
             /\ UNCHANGED <<reader, parsed, sent>>
      BY <1>2, TakeEffect
    <2>2. Upto' = Upto /\ End(Len(parsed))' = End(Len(parsed)) /\ ~Garbled
      BY <2>1 DEF Upto, End, Garbled
    <2>3. Upto \in Nat
      BY <1>0, HeadersFacts DEF Upto, V1_SIZE, V2_SIZE, HEADERS_LEN_V2, TCP_MIN_LEN
    <2>4. pos' + parse'.left = pos + parse.left
      BY <1>0, <2>1
    <2> QED
      BY <2>1, <2>2, <2>4 DEF InPlace
  <1>3. CASE ParseV1 \/ ParseV2 \/ ParseTcp
    <2> DEFINE k == Len(parsed)
               h == sent[k + 1].hdr
    <2>1. parse.left = 0 /\ reader = "run" /\ UNCHANGED <<pos, parsed, sent>>
      BY <1>3, ParseEffect DEF Reading
    <2>2. ~Garbled /\ End(Len(parsed))' = End(Len(parsed))
      BY <2>1 DEF Garbled, End
    <2>3. /\ k + 1 \in 1 .. Len(sent) /\ WellFormed(sent[k + 1]) /\ h \in Known
          /\ HeaderAt(parse.start) = {h} /\ InStep /\ pos = parse.start + Upto
          /\ k \in Nat
      BY <2>1, <2>2, AtPacket
    <2>4. /\ h \in Header /\ h.length \in Nat /\ HeadersSize(h) \in Nat
          /\ ~(h.length < HeadersSize(h)) /\ h.protocol # "unknown"
      BY <2>3, Constant, HeadersFacts DEF WellFormed
    <2>5. /\ parse.start = End(Len(parsed))
          /\ parse.stage # "v1" => parse.hdr = h
          /\ parse.stage = "v2" => parse.hdr.protocol \in {"Control", "Setup", "Tcp"}
          /\ parse.stage = "tcp" => parse.hdr.protocol = "Tcp"
      BY <2>1, <2>2 DEF InPlace
    <2>6. k < Len(sent)
      BY <2>3
    <2> HIDE DEF h, k
    <2>7. \/ parse.stage = "v1" /\ h.protocol = "Version" /\ PayloadNext(h)
          \/ parse.stage = "v1" /\ h.protocol \in {"Control", "Setup", "Tcp"} /\ GoesOn("v2", 8, h)
          \/ parse.stage = "v2" /\ h.protocol = "Tcp" /\ GoesOn("tcp", 20, h)
          \/ parse.stage = "v2" /\ h.protocol \in {"Control", "Setup"} /\ PayloadNext(h)
          \/ parse.stage = "tcp" /\ h.protocol = "Tcp" /\ PayloadNext(h)
      BY <1>3, <2>3, <2>4, <2>5, ParseEffect
    <2>8. PayloadNext(h) => GoesOn("payload", h.length - HeadersSize(h), h)
      BY <2>4 DEF PayloadNext
    <2> DEFINE Place ==
                 /\ parse'.stage \in {"v2", "tcp", "payload"}
                 /\ parse'.hdr = h /\ parse'.start = parse.start
                 /\ pos + parse'.left = parse.start + Upto'
                 /\ parse'.stage = "v2" => h.protocol \in {"Control", "Setup", "Tcp"}
                 /\ parse'.stage = "tcp" => h.protocol = "Tcp"
    <2>9. ASSUME PayloadNext(h), Upto = HeadersSize(h) PROVE Place
      <3>1. GoesOn("payload", h.length - HeadersSize(h), h)
        BY <2>8, <2>9
      <3>2. /\ parse'.stage = "payload" /\ parse'.left = h.length - HeadersSize(h)
            /\ parse'.hdr = h /\ parse'.start = parse.start
        BY <3>1 DEF GoesOn
      <3>3. Upto' = h.length
        BY <3>2 DEF Upto
      <3>4. pos + parse'.left = parse.start + h.length
        <4>1. pos = parse.start + HeadersSize(h)
          BY <2>3, <2>9
        <4>2. /\ parse.start \in Nat /\ h.length \in Nat /\ HeadersSize(h) \in Nat
              /\ parse'.left = h.length - HeadersSize(h)
          BY <1>0, <2>4, <3>2
        <4> QED
          BY <4>1, <4>2
      <3> QED
        BY <3>2, <3>3, <3>4
    <2>10. Place
      <3> USE DEF V1_SIZE, V2_SIZE, HEADERS_LEN_V2, TCP_MIN_LEN
      <3>1. CASE parse.stage = "v1" /\ h.protocol = "Version" /\ PayloadNext(h)
        BY <2>9, <3>1 DEF Upto, HeadersSize
      <3>2. CASE /\ parse.stage = "v1" /\ h.protocol \in {"Control", "Setup", "Tcp"}
                 /\ GoesOn("v2", 8, h)
        BY <1>0, <2>3, <3>2 DEF GoesOn, Upto
      <3>3. CASE parse.stage = "v2" /\ h.protocol = "Tcp" /\ GoesOn("tcp", 20, h)
        BY <1>0, <2>3, <3>3 DEF GoesOn, Upto
      <3>4. CASE parse.stage = "v2" /\ h.protocol \in {"Control", "Setup"} /\ PayloadNext(h)
        BY <2>9, <3>4 DEF Upto, HeadersSize
      <3>5. CASE parse.stage = "tcp" /\ h.protocol = "Tcp" /\ PayloadNext(h)
        BY <2>9, <3>5 DEF Upto, HeadersSize
      <3> QED
        BY <2>7, <3>1, <3>2, <3>3, <3>4, <3>5
    <2> QED
      BY <2>1, <2>2, <2>5, <2>6, <2>10 DEF InPlace, h, k
  <1>4. CASE ParsePayload
    <2>1. /\ Len(parsed') = Len(parsed) + 1 /\ Len(parsed) \in Nat /\ sent' = sent /\ pos' = pos
          /\ parse' = Start(pos) /\ pos = End(Len(parsed) + 1)
      BY <1>4, PayloadInStep
    <2>2. Start(pos).stage = "v1" /\ Start(pos).left = V1_SIZE /\ Start(pos).start = pos
      BY <1>0, StartFacts
    <2>3. End(Len(parsed))' = End(Len(parsed) + 1)
      BY <2>1 DEF End
    <2> QED
      BY <2>1, <2>2, <2>3 DEF InPlace, Upto
  <1>5. ASSUME NEW p \in DevPackets, DeviceSends(p)
        PROVE  InPlace'
    <2>1. /\ ~Garbled /\ Len(parsed) \in Nat /\ Len(parsed) <= Len(sent) /\ parsed' = parsed
          /\ Len(sent) \in Nat /\ Len(sent') = Len(sent) + 1
          /\ \A i \in 1 .. Len(sent) : sent'[i] = sent[i]
          /\ End(Len(parsed))' = End(Len(parsed)) /\ UNCHANGED <<parse, pos, reader>>
      BY <1>5, SendsKeeps
    <2>2. Upto' = Upto
      BY <2>1 DEF Upto
    <2>3. Len(parsed) < Len(sent) => /\ Len(parsed') < Len(sent')
                                     /\ sent'[Len(parsed) + 1] = sent[Len(parsed) + 1]
      BY <2>1
    <2> QED
      BY <2>1, <2>2, <2>3 DEF InPlace
  <1> QED
    BY <1>1, <1>2, <1>3, <1>4, <1>5, StreamFrame

--------------------------------------------------------------------------------
(* The writer *)

\* Which steps touch the writing side.
LEMMA WriteFrame ==
    ASSUME ReadTyped, Placed, [Next]_vars
    PROVE  \/ SendVersion \/ SendSetup \/ WriterPacket \/ Abort \/ \E n \in Payloads : Queue(n)
           \/ /\ UNCHANGED <<w_tx, writeVars, queued>>
              /\ dev' = dev \/ (dev = "await" /\ dev' \in {"setup", "failed"})
  <1>1. CASE Copy \/ TakeChunk
    BY <1>1, TakeEffect
  <1>2. CASE Submit \/ StillPending \/ ReadFails
    BY <1>2 DEF Submit, StillPending, ReadFails
  <1>3. CASE EventThread
    BY <1>3 DEF EventThread, Complete
  <1>4. CASE ParseV1 \/ ParseV2 \/ ParseTcp
    <2>1. UNCHANGED <<w_tx, writeVars, queued>>
      BY <1>4, ParseEffect
    <2>2. dev' = dev \/ (dev = "await" /\ dev' = "failed")
      BY <1>4, ParseEffect, RefuseEffect DEF PayloadNext, GoesOn
    <2> QED
      BY <2>1, <2>2
  <1>5. CASE ParsePayload
    BY <1>5 DEF ParsePayload
  <1>6. CASE Cancel
    BY <1>6 DEF Cancel
  <1>7. CASE \E p \in DevPackets : DeviceSends(p)
    BY <1>7 DEF DeviceSends
  <1>8. CASE UNCHANGED vars
    BY <1>8 DEF vars
  <1> QED
    BY <1>1, <1>2, <1>3, <1>4, <1>5, <1>6, <1>7, <1>8 DEF Next, Handshake, Parse, Poll

\* The packet reaches the device, with n bytes; the others do not matter any more.
Reaches(n) ==
    /\ out' \in OutType /\ out'.count = out.count + 1 /\ out'.lost = lost /\ out'.len = n
    /\ out'.send_seq = send_seq /\ out'.recv_seq = recv_seq /\ lost' = lost

\* The writer takes a packet and writes it; it reaches the device, or fails.
LEMMA WriterEffect ==
    ASSUME ReadTyped, WriteTyped, Written, WriterPacket
    PROVE  /\ w_tx # <<>> /\ w_tx' = Tail(w_tx) /\ w_tx' \in Seq(Payloads)
           /\ Len(w_tx) \in Nat \ {0} /\ Len(w_tx') = Len(w_tx) - 1
           /\ w_tx[1] \in Nat /\ buffer' = 0 /\ writer' = "run" /\ dev = "run"
           /\ send_seq' = (send_seq + 1) % SeqMod
           /\ UNCHANGED <<dev, readVars, recv_seq, sent, onBus, shake, queued>>
           /\ LET n == HEADERS_LEN_V2 + w_tx[1]
                  total == current_transfer_len + n
              IN  \/ /\ Reaches(n) /\ current_transfer_len' = 0 /\ failed' = failed
                     /\ out'.zlp <=> Ends(total)
                  \/ /\ out' = out /\ lost' = lost + 1
                     /\ current_transfer_len' = total /\ failed' = failed + 1
                  \/ Reaches(n) /\ current_transfer_len' = total /\ failed' = failed + 1
  <1>1. w_tx # <<>> /\ w_tx \in Seq(Payloads) /\ w_tx' = Tail(w_tx) /\ dev = "run"
    BY DEF WriterPacket, WriteTyped
  <1>2. /\ Tail(w_tx) \in Seq(Payloads) /\ Len(w_tx) \in Nat \ {0} /\ Len(Tail(w_tx)) = Len(w_tx) - 1
        /\ Head(w_tx) = w_tx[1] /\ w_tx[1] \in Payloads
    BY <1>1, TailFacts
  <1>3. w_tx[1] \in Nat /\ w_tx[1] <= 49116
    BY <1>2, Constant
       DEF MAX_PACKET_PAYLOAD_SIZE, MAX_PACKET_SIZE, HEADERS_LEN_V2, V2_SIZE, TCP_MIN_LEN
  <1> DEFINE n == HEADERS_LEN_V2 + w_tx[1]
             total == current_transfer_len + n
             p == [count |-> out.count + 1, lost |-> lost, len |-> n, zlp |-> FALSE,
                   send_seq |-> send_seq, recv_seq |-> recv_seq]
  <1>4. n \in Nat /\ n < 98304
    BY <1>3 DEF HEADERS_LEN_V2, V2_SIZE, TCP_MIN_LEN
  <1>5. buffer = 0 /\ current_transfer_len \in Nat /\ writer = "run"
    BY DEF Written, WriteTyped
  <1>6. ~AutoFlush(n) /\ current_transfer_len + buffer + n = total
    BY <1>4, <1>5 DEF AutoFlush, MAX_PACKET_SIZE
  <1>7. SubmitEnd(p, total) /\ writer' = writer
    BY <1>2, <1>6 DEF WriterPacket
  <1>8. /\ out.count \in Nat /\ lost \in Nat /\ send_seq \in Nat /\ recv_seq \in Nat /\ out \in OutType
    BY Constant DEF ReadTyped, WriteTyped, OutType
  <1>9. p \in OutType
    BY <1>4, <1>8 DEF OutType
  <1>10. /\ p.count = out.count + 1 /\ p.lost = lost /\ p.len = n
         /\ p.send_seq = send_seq /\ p.recv_seq = recv_seq
    OBVIOUS
  <1> HIDE DEF n, p, total
  <1>11. ASSUME NEW z \in BOOLEAN, out' = [p EXCEPT !.zlp = z], lost' = lost
         PROVE  Reaches(n) /\ out'.zlp = z
    BY <1>9, <1>10, <1>11 DEF Reaches, OutType
  <1>12. ASSUME out' = p, lost' = lost
         PROVE  Reaches(n)
    BY <1>9, <1>10, <1>12 DEF Reaches
  <1>13. \/ /\ Reaches(n) /\ current_transfer_len' = 0 /\ failed' = failed
            /\ out'.zlp <=> Ends(total)
         \/ /\ out' = out /\ lost' = lost + 1
            /\ current_transfer_len' = total /\ failed' = failed + 1
         \/ Reaches(n) /\ current_transfer_len' = total /\ failed' = failed + 1
    <2>1. CASE /\ out' = [p EXCEPT !.zlp = Ends(total)] /\ current_transfer_len' = 0
               /\ UNCHANGED <<failed, lost>>
      <3>1. Ends(total) \in BOOLEAN
        BY DEF Ends
      <3>2. Reaches(n) /\ out'.zlp = Ends(total)
        BY <1>11, <2>1, <3>1
      <3> QED
        BY <2>1, <3>2
    <2>2. CASE /\ out' = out /\ lost' = lost + 1
               /\ current_transfer_len' = total /\ failed' = failed + 1
      BY <2>2
    <2>3. CASE /\ Ends(total) /\ out' = p /\ UNCHANGED lost
               /\ current_transfer_len' = total /\ failed' = failed + 1
      BY <1>12, <2>3
    <2> QED
      BY <1>7, <2>1, <2>2, <2>3 DEF SubmitEnd
  <1>14. /\ buffer' = 0 /\ send_seq' = (send_seq + 1) % SeqMod
         /\ UNCHANGED <<dev, readVars, recv_seq, sent, onBus, shake, queued>>
    BY <1>7 DEF SubmitEnd, WriterPacket
  <1> QED
    BY <1>1, <1>2, <1>3, <1>5, <1>7, <1>13, <1>14 DEF n, total

\* The packets of the handshake are written or fail.
LEMMA FlushEffect ==
    ASSUME WriteTyped, SendVersion \/ SendSetup
    PROVE  /\ UNCHANGED <<w_tx, buffer, writer, send_seq, out, lost, queued>>
           /\ \/ /\ SendVersion /\ dev = "version" /\ dev' = "await" /\ failed' = failed
                 /\ current_transfer_len' = current_transfer_len + 20
              \/ /\ SendSetup /\ dev = "setup" /\ dev' = "run" /\ failed' = failed
                 /\ current_transfer_len' = current_transfer_len + 17
              \/ dev \in {"version", "setup"} /\ dev' = "failed" /\ failed' = failed + 1
           /\ current_transfer_len' \in Nat
  <1>1. current_transfer_len \in Nat
    BY DEF WriteTyped
  <1> QED
    BY <1>1 DEF SendVersion, SendSetup, Flush, V1_SIZE, V2_SIZE, VERSION_SIZE

\* A packet is queued behind the others.
LEMMA QueueEffect ==
    ASSUME WriteTyped, NEW n \in Payloads, Queue(n)
    PROVE  /\ w_tx' \in Seq(Payloads) /\ Len(w_tx) \in Nat /\ Len(w_tx') = Len(w_tx) + 1
           /\ Len(w_tx') <= TxCap /\ queued' = queued + 1 /\ dev = "run" /\ (queued = 0 => n = 0)
           /\ w_tx'[1] = IF Len(w_tx) = 0 THEN n ELSE w_tx[1]
           /\ UNCHANGED <<dev, readVars, writeVars, recv_seq, sent, onBus, shake>>
  <1>1. /\ w_tx \in Seq(Payloads) /\ w_tx' = Append(w_tx, n) /\ Len(w_tx) < TxCap
        /\ queued' = queued + 1 /\ dev = "run" /\ (queued = 0 => n = 0)
        /\ UNCHANGED <<dev, readVars, writeVars, recv_seq, sent, onBus, shake>>
    BY DEF Queue, WriteTyped
  <1>2. /\ w_tx' \in Seq(Payloads) /\ Len(w_tx) \in Nat /\ Len(w_tx') = Len(w_tx) + 1
        /\ \A i \in 1 .. Len(w_tx) : w_tx'[i] = w_tx[i]
        /\ w_tx'[Len(w_tx) + 1] = n
    BY <1>1, AppendFacts
  <1>3. w_tx'[1] = IF Len(w_tx) = 0 THEN n ELSE w_tx[1]
    BY <1>2
  <1>4. Len(w_tx') <= TxCap
    BY <1>1, <1>2, Constant
  <1> QED
    BY <1>1, <1>2, <1>3, <1>4

\* A step keeps the types of the writing side.
LEMMA WriteTypedStep ==
    ASSUME ReadTyped, WriteTyped, Placed, Written, [Next]_vars
    PROVE  WriteTyped'
  <1>0. /\ writer \in {"run", "stuck"} /\ w_tx \in Seq(Payloads) /\ Len(w_tx) <= TxCap
        /\ buffer \in Nat /\ current_transfer_len \in Nat /\ send_seq \in 0 .. SeqMod - 1
        /\ out \in OutType /\ queued \in Nat /\ failed \in Nat /\ lost \in Nat
    BY DEF WriteTyped
  <1>1. CASE SendVersion \/ SendSetup
    BY <1>0, <1>1, FlushEffect DEF WriteTyped
  <1>2. CASE WriterPacket
    <2>1. /\ w_tx' \in Seq(Payloads) /\ Len(w_tx) \in Nat \ {0} /\ Len(w_tx') = Len(w_tx) - 1
          /\ w_tx[1] \in Nat /\ buffer' = 0 /\ writer' = "run"
          /\ send_seq' = (send_seq + 1) % SeqMod /\ queued' = queued
          /\ out' \in OutType /\ lost' \in {lost, lost + 1} /\ failed' \in {failed, failed + 1}
          /\ current_transfer_len' \in {0, current_transfer_len + (HEADERS_LEN_V2 + w_tx[1])}
      BY <1>0, <1>2, WriterEffect DEF Reaches
    <2>2. send_seq' \in 0 .. SeqMod - 1
      <3>1. send_seq + 1 \in Nat
        BY <1>0, Constant
      <3> QED
        BY <2>1, <3>1, ModLemma
    <2>3. current_transfer_len' \in Nat
      BY <1>0, <2>1 DEF HEADERS_LEN_V2, V2_SIZE, TCP_MIN_LEN
    <2>4. Len(w_tx') <= TxCap
      BY <1>0, <2>1, Constant
    <2> QED
      BY <1>0, <2>1, <2>2, <2>3, <2>4 DEF WriteTyped
  <1>3. CASE Abort
    <2>1. w_tx' = <<>> /\ UNCHANGED <<writeVars, queued>>
      BY <1>3 DEF Abort
    <2>2. <<>> \in Seq(Payloads) /\ Len(<<>>) = 0
      OBVIOUS
    <2> QED
      BY <1>0, <2>1, <2>2, Constant DEF WriteTyped, writeVars
  <1>4. ASSUME NEW n \in Payloads, Queue(n)
        PROVE  WriteTyped'
    BY <1>0, <1>4, QueueEffect DEF WriteTyped, writeVars
  <1>5. CASE UNCHANGED <<w_tx, writeVars, queued>>
    BY <1>0, <1>5 DEF WriteTyped, writeVars
  <1> QED
    BY <1>1, <1>2, <1>3, <1>4, <1>5, WriteFrame

\* Every packet that is taken is written at once, or lost.
LEMMA WrittenStep ==
    ASSUME ReadTyped, WriteTyped, Placed, Written, [Next]_vars
    PROVE  Written'
  <1>0. /\ writer = "run" /\ buffer = 0
        /\ dev = "run" => queued = Len(w_tx) + out.count + lost
        /\ failed = 0 => lost = 0
        /\ dev \notin {"run", "dropped"} => w_tx = <<>> /\ out.count = 0 /\ lost = 0 /\ queued = 0
        /\ queued \in Nat /\ Len(w_tx) \in Nat /\ out.count \in Nat /\ lost \in Nat /\ failed \in Nat
    BY DEF Written, WriteTyped, OutType
  <1>1. CASE SendVersion \/ SendSetup
    BY <1>0, <1>1, FlushEffect DEF Written
  <1>2. CASE WriterPacket
    <2>1. /\ Len(w_tx) \in Nat \ {0} /\ Len(w_tx') = Len(w_tx) - 1
          /\ buffer' = 0 /\ writer' = "run" /\ queued' = queued /\ dev = "run" /\ dev' = dev
          /\ \/ out'.count = out.count + 1 /\ lost' = lost /\ failed' \in {failed, failed + 1}
             \/ out' = out /\ lost' = lost + 1 /\ failed' = failed + 1
      BY <1>2, WriterEffect DEF Reaches
    <2>2. failed' = 0 => lost' = 0
      BY <1>0, <2>1
    <2>3. queued' = Len(w_tx') + out'.count + lost'
      <3> DEFINE c == out.count
                 d == out'.count
                 l == Len(w_tx)
                 m == Len(w_tx')
      <3>1. c \in Nat /\ lost \in Nat /\ l \in Nat /\ m = l - 1 /\ queued = l + c + lost
        BY <1>0, <2>1
      <3>2. (d = c + 1 /\ lost' = lost) \/ (d = c /\ lost' = lost + 1)
        BY <2>1
      <3> HIDE DEF c, d, l, m
      <3>3. queued = m + d + lost'
        <4>1. CASE d = c + 1 /\ lost' = lost
          BY <3>1, <4>1
        <4>2. CASE d = c /\ lost' = lost + 1
          BY <3>1, <4>2
        <4> QED
          BY <3>2, <4>1, <4>2
      <3> QED
        BY <2>1, <3>3 DEF d, m
    <2> QED
      BY <2>1, <2>2, <2>3 DEF Written
  <1>3. CASE Abort
    BY <1>0, <1>3 DEF Abort, Written, writeVars
  <1>4. ASSUME NEW n \in Payloads, Queue(n)
        PROVE  Written'
    BY <1>0, <1>4, QueueEffect DEF Written, writeVars
  <1>5. CASE /\ UNCHANGED <<w_tx, writeVars, queued>>
             /\ dev' = dev \/ (dev = "await" /\ dev' \in {"setup", "failed"})
    BY <1>0, <1>5 DEF Written, writeVars
  <1> QED
    BY <1>1, <1>2, <1>3, <1>4, <1>5, WriteFrame

\* The handshake is counted in the length of the first transfer, and in no other.
LEMMA CarriedStep ==
    ASSUME ReadTyped, WriteTyped, Placed, Written, Carried, [Next]_vars
    PROVE  Carried'
  <1> USE DEF V1_SIZE, V2_SIZE, VERSION_SIZE
  <1>0. /\ dev = "run" => queued = Len(w_tx) + out.count + lost
        /\ failed = 0 => lost = 0
        /\ dev \notin {"run", "dropped"} => w_tx = <<>> /\ out.count = 0 /\ lost = 0 /\ queued = 0
        /\ queued \in Nat /\ Len(w_tx) \in Nat /\ out.count \in Nat /\ lost \in Nat /\ failed \in Nat
        /\ w_tx = <<>> <=> Len(w_tx) = 0
    BY EmptySeq DEF Written, WriteTyped, OutType
  <1>1. CASE SendVersion \/ SendSetup
    BY <1>0, <1>1, FlushEffect DEF Carried
  <1>2. CASE WriterPacket
    <2>1. /\ dev = "run" /\ dev' = dev
          /\ \/ /\ out'.count = out.count + 1 /\ lost' = lost
                /\ (failed' = failed /\ current_transfer_len' = 0) \/ failed' = failed + 1
             \/ out' = out /\ lost' = lost + 1 /\ failed' = failed + 1
      BY <1>2, WriterEffect DEF Reaches
    <2>2. out'.count \in Nat /\ lost' \in Nat /\ out'.count + lost' > 0
      BY <1>0, <2>1, SMTT(30)
    <2>3. failed' = 0 => out'.count > 0 /\ current_transfer_len' = 0
      BY <1>0, <2>1
    <2> QED
      BY <2>1, <2>2, <2>3 DEF Carried
  <1>3. CASE Abort
    BY <1>3 DEF Abort, Carried, writeVars
  <1>4. ASSUME NEW n \in Payloads, Queue(n)
        PROVE  Carried'
    <2>1. /\ queued = 0 => n = 0
          /\ w_tx'[1] = IF Len(w_tx) = 0 THEN n ELSE w_tx[1]
          /\ dev = "run" /\ UNCHANGED <<dev, writeVars>>
      BY <1>4, QueueEffect
    <2>2. out.count + lost = 0 => w_tx'[1] = 0
      BY <1>0, <2>1 DEF Carried
    <2> QED
      BY <2>1, <2>2 DEF Carried, writeVars
  <1>5. CASE /\ UNCHANGED <<w_tx, writeVars, queued>>
             /\ dev' = dev \/ (dev = "await" /\ dev' \in {"setup", "failed"})
    BY <1>0, <1>5 DEF Carried, writeVars
  <1> QED
    BY <1>1, <1>2, <1>3, <1>4, <1>5, WriteFrame

\* The device can tell where a packet ends.
LEMMA EndVisibleStep ==
    ASSUME ReadTyped, WriteTyped, Placed, Written, Carried, PacketEndVisible, [Next]_vars
    PROVE  PacketEndVisible'
  <1>0. failed \in Nat /\ out.count \in Nat /\ current_transfer_len \in Nat /\ lost \in Nat
    BY DEF WriteTyped, OutType
  <1>1. CASE WriterPacket
    <2> SUFFICES ASSUME failed' = 0
                 PROVE  out'.zlp <=> out'.len % max_packet_size = 0
      BY DEF PacketEndVisible
    <2> DEFINE n == HEADERS_LEN_V2 + w_tx[1]
    <2>1. w_tx # <<>> /\ w_tx[1] \in Nat /\ dev = "run"
      BY <1>1, WriterEffect
    <2>2. n \in Nat /\ n >= 36
      BY <2>1 DEF HEADERS_LEN_V2, V2_SIZE, TCP_MIN_LEN
    <2>3. failed' = failed + 1 \/ /\ out'.len = n /\ failed' = failed
                                  /\ out'.zlp <=> Ends(current_transfer_len + n)
      BY <1>1, WriterEffect DEF Reaches
    <2>4. failed = 0 /\ out'.len = n /\ (out'.zlp <=> Ends(current_transfer_len + n))
      BY <1>0, <2>3
    <2>5. Ends(current_transfer_len + n) <=> n % max_packet_size = 0
      \* The SYN after the handshake: neither 36 nor 73 bytes fill a USB packet.
      <3>1. CASE out.count = 0
        <4>1. lost = 0
          BY <2>4 DEF Written
        <4>2. w_tx[1] = 0
          BY <2>1, <3>1, <4>1 DEF Carried
        <4>3. n = 36 /\ current_transfer_len = 37
          BY <2>1, <2>4, <3>1, <4>2
             DEF Carried, HEADERS_LEN_V2, V2_SIZE, TCP_MIN_LEN, V1_SIZE, VERSION_SIZE
        <4>4. 36 % max_packet_size # 0 /\ 73 % max_packet_size # 0
          <5>1. max_packet_size \in {8, 16, 32, 64, 512, 1024}
            BY ConstantsAssumption DEF BulkSizes
          <5> QED
            BY <5>1
        <4> QED
          BY <4>3, <4>4 DEF Ends
      <3>2. CASE out.count # 0
        <4>1. current_transfer_len = 0
          BY <2>1, <2>4, <3>2 DEF Carried
        <4>2. current_transfer_len + n = n /\ n > 0
          BY <2>2, <4>1
        <4> QED
          BY <4>2 DEF Ends
      <3> QED
        BY <3>1, <3>2
    <2> QED
      BY <2>4, <2>5
  <1>2. CASE SendVersion \/ SendSetup
    <2>1. failed' \in {failed, failed + 1} /\ out' = out
      BY <1>2, FlushEffect
    <2>2. failed' = 0 => failed = 0
      BY <1>0, <2>1
    <2> QED
      BY <2>1, <2>2 DEF PacketEndVisible
  <1>3. CASE UNCHANGED writeVars
    BY <1>3 DEF PacketEndVisible, writeVars
  <1> QED
    BY <1>1, <1>2, <1>3, WriteFrame, QueueEffect DEF Abort

\* send_seq counts what the writer took.
LEMMA SendCountsStep ==
    ASSUME ReadTyped, WriteTyped, Placed, Written, SendCounts, [Next]_vars
    PROVE  SendCounts'
  <1>1. CASE WriterPacket
    <2> DEFINE a == out.count + lost + 1
    <2>1. out.count \in Nat /\ lost \in Nat /\ a \in Nat
      BY DEF WriteTyped, OutType
    <2>2. /\ send_seq' = (send_seq + 1) % SeqMod
          /\ \/ out'.count = out.count + 1 /\ lost' = lost
             \/ out' = out /\ lost' = lost + 1
      BY <1>1, WriterEffect DEF Reaches
    <2>3. out'.count + lost' + 1 = a + 1
      BY <2>1, <2>2
    <2>4. send_seq = a % SeqMod
      BY DEF SendCounts
    <2> HIDE DEF a
    <2>5. ((a % SeqMod) + 1) % SeqMod = (a + 1) % SeqMod
      BY <2>1, ModLemma
    <2> QED
      BY <2>2, <2>3, <2>4, <2>5 DEF SendCounts
  <1>2. CASE UNCHANGED <<out, lost, send_seq>>
    BY <1>2 DEF SendCounts
  <1>3. SendVersion \/ SendSetup => UNCHANGED <<out, lost, send_seq>>
    BY FlushEffect
  <1> QED
    BY <1>1, <1>2, <1>3, WriteFrame, QueueEffect DEF Abort, writeVars

\* What was read of a device whose packets are all well formed is in step.
LEMMA NoneGarbled ==
    ASSUME ReadTyped, Delivered, AllWellFormed
    PROVE  Len(parsed) \in Nat /\ Len(sent) \in Nat /\ Len(parsed) <= Len(sent)
  <1>1. Len(parsed) \in Nat /\ Len(sent) \in Nat
    BY SentFacts DEF ReadTyped
  <1>2. ~Garbled
    BY <1>1 DEF Garbled, AllWellFormed
  <1> QED
    BY <1>1, <1>2 DEF Delivered

\* Which steps count packets.  The handshake is not taken up again.
LEMMA CountFrame ==
    ASSUME ReadTyped, Placed, WriteTyped, Written, [Next]_vars
    PROVE  /\ \/ UNCHANGED <<parsed, shake, recv_seq>>
              \/ /\ ParsePayload /\ parsed' = Append(parsed, parse.hdr) /\ sent' = sent
                 /\ \/ /\ dev = "await" /\ shake' = shake + 1 /\ recv_seq' = recv_seq
                       /\ dev' \in {"await", "setup"}
                    \/ /\ dev = "run" /\ shake' = shake /\ recv_seq' = (recv_seq + 1) % SeqMod
                       /\ dev' = dev
           /\ dev \in {"run", "dropped"} => dev' \in {"run", "dropped"}
           /\ out' = out \/ WriterPacket
  <1>1. dev \in {"run", "dropped"} => dev' \in {"run", "dropped"}
    BY WriteFrame, FlushEffect, WriterEffect, QueueEffect DEF Abort
  <1>2. out' = out \/ WriterPacket
    BY WriteFrame, FlushEffect, QueueEffect DEF Abort, writeVars
  <1>3. \/ UNCHANGED <<parsed, shake, recv_seq>>
        \/ /\ ParsePayload /\ parsed' = Append(parsed, parse.hdr) /\ sent' = sent
           /\ \/ /\ dev = "await" /\ shake' = shake + 1 /\ recv_seq' = recv_seq
                 /\ dev' \in {"await", "setup"}
              \/ /\ dev = "run" /\ shake' = shake /\ recv_seq' = (recv_seq + 1) % SeqMod
                 /\ dev' = dev
    <2> USE DEF readVars
    <2>1. CASE Handshake
      BY <2>1 DEF Handshake, SendVersion, SendSetup
    <2>2. CASE Poll
      BY <2>2 DEF Poll, Copy, Submit, StillPending, TakeChunk, ReadFails
    <2>3. CASE EventThread
      BY <2>3 DEF EventThread, Complete
    <2>4. CASE ParseV1 \/ ParseV2 \/ ParseTcp
      BY <2>4 DEF ParseV1, ParseV2, ParseTcp
    <2>5. CASE ParsePayload
      BY <2>5 DEF ParsePayload, Reading
    <2>6. CASE WriterPacket \/ Abort \/ Cancel
      BY <2>6 DEF WriterPacket, Abort, Cancel
    <2>7. CASE \E n \in Payloads : Queue(n)
      BY <2>7 DEF Queue
    <2>8. CASE \E p \in DevPackets : DeviceSends(p)
      BY <2>8 DEF DeviceSends
    <2>9. CASE UNCHANGED vars
      BY <2>9 DEF vars
    <2> QED
      BY <2>1, <2>2, <2>3, <2>4, <2>5, <2>6, <2>7, <2>8, <2>9 DEF Next, Parse
  <1> QED
    BY <1>1, <1>2, <1>3

\* The device only ever sends more.
LEMMA SentGrows ==
    ASSUME ReadTyped, [Next]_vars
    PROVE  /\ Len(sent) \in Nat /\ Len(sent') \in Nat /\ Len(sent) <= Len(sent')
           /\ AllWellFormed' => AllWellFormed
  <1>1. /\ Len(sent) \in Nat /\ Len(sent') \in Nat /\ Len(sent) <= Len(sent')
        /\ \A i \in 1 .. Len(sent) : sent'[i] = sent[i]
    <2>1. Len(sent) \in Nat
      BY SentFacts DEF ReadTyped
    <2>2. CASE sent' = sent
      BY <2>1, <2>2
    <2>3. ASSUME NEW p \in DevPackets, DeviceSends(p)
          PROVE  /\ Len(sent') \in Nat /\ Len(sent) <= Len(sent')
                 /\ \A i \in 1 .. Len(sent) : sent'[i] = sent[i]
      BY <2>3, SendsEffect
    <2> QED
      BY <2>1, <2>2, <2>3, StreamFrame
  <1>2. \A i \in 1 .. Len(sent) : i \in 1 .. Len(sent')
    BY <1>1
  <1> QED
    BY <1>1, <1>2 DEF AllWellFormed

\* recv_seq counts what the reader loop read.
LEMMA RecvCountsStep ==
    ASSUME Typed, ReadTyped', Placed, Delivered', Written, RecvCounts, [Next]_vars
    PROVE  RecvCounts'
  <1> USE DEF Typed
  <1>0. /\ Len(parsed) \in Nat /\ Len(sent) \in Nat /\ shake \in Nat /\ SeqMod \in Nat \ {0, 1}
        /\ recv_seq \in Nat
    BY SentFacts, Constant DEF ReadTyped
  <1>1. CASE UNCHANGED <<parsed, shake, recv_seq>>
    <2>1. /\ Len(sent) \in Nat /\ Len(sent') \in Nat /\ Len(sent) <= Len(sent')
          /\ AllWellFormed' => AllWellFormed
      BY SentGrows
    <2>2. dev \in {"run", "dropped"} => dev' \in {"run", "dropped"}
      BY CountFrame
    <2>3. Len(sent') - shake < SeqMod => Len(sent) - shake < SeqMod
      BY <1>0, <2>1
    <2> QED
      BY <1>1, <2>1, <2>2, <2>3 DEF RecvCounts
  <1>2. CASE /\ ParsePayload /\ parsed' = Append(parsed, parse.hdr) /\ sent' = sent
             /\ \/ /\ dev = "await" /\ shake' = shake + 1 /\ recv_seq' = recv_seq
                   /\ dev' \in {"await", "setup"}
                \/ /\ dev = "run" /\ shake' = shake /\ recv_seq' = (recv_seq + 1) % SeqMod
                   /\ dev' = dev
    <2>2. Len(parsed') = Len(parsed) + 1
      <3>1. parse.hdr \in Known /\ parsed \in Seq(Known)
        BY <1>2 DEF ParsePayload, ReadTyped
      <3> QED
        BY <1>2, <3>1, AppendFacts
    <2>3. CASE dev = "await"
      <3>1. Len(parsed) = shake /\ recv_seq = 0
        BY <2>3 DEF RecvCounts
      <3>2. Len(parsed') = shake' /\ recv_seq' = 0 /\ Len(parsed') - shake' = 0
        BY <1>0, <1>2, <2>2, <2>3, <3>1
      <3> QED
        BY <3>2 DEF RecvCounts
    <2>4. CASE dev = "run"
      <3> SUFFICES ASSUME AllWellFormed', Len(sent) - shake < SeqMod
                   PROVE  recv_seq' = Len(parsed') - shake
        BY <1>2, <2>4 DEF RecvCounts
      <3>1. AllWellFormed
        BY <1>2 DEF AllWellFormed
      <3>2. recv_seq = Len(parsed) - shake
        BY <3>1 DEF RecvCounts
      <3>3. Len(parsed') <= Len(sent)
        <4>1. ~Garbled'
          BY DEF Garbled, AllWellFormed
        <4> QED
          BY <1>2, <4>1 DEF Delivered
      <3> DEFINE a == recv_seq + 1
      <3>4. a \in Nat /\ a < SeqMod /\ a = Len(parsed') - shake
        BY <1>0, <2>2, <3>2, <3>3
      <3>5. a % SeqMod = a
        BY <3>4, ModLemma
      <3>6. recv_seq' = a % SeqMod
        BY <1>2, <2>4
      <3> QED
        BY <3>4, <3>5, <3>6
    <2> QED
      BY <1>2, <2>3, <2>4
  <1> QED
    BY <1>1, <1>2, CountFrame

\* The numbers in the last packet that reached the device.
LEMMA HonestStep ==
    ASSUME Typed, Placed, Delivered, Written, SendCounts, RecvCounts, SequenceHonest, [Next]_vars
    PROVE  SequenceHonest'
  <1> USE DEF Typed
  <1>0. /\ shake \in Nat /\ SeqMod \in Nat \ {0, 1} /\ out \in OutType /\ out.count \in Nat
        /\ out.recv_seq \in Nat /\ lost \in Nat /\ Len(parsed) \in Nat
    BY Constant DEF ReadTyped, WriteTyped, OutType
  <1>1. /\ Len(sent) \in Nat /\ Len(sent') \in Nat /\ Len(sent) <= Len(sent')
        /\ AllWellFormed' => AllWellFormed
    BY SentGrows
  <1>2. CASE out' = out
    <2> SUFFICES ASSUME out.count > 0
                 PROVE  /\ out.send_seq = (out.count + out.lost) % SeqMod
                        /\ AllWellFormed' /\ Len(sent') - shake' < SeqMod
                              => out.recv_seq <= Len(sent') - shake'
      BY <1>2 DEF SequenceHonest
    <2>1. dev \in {"run", "dropped"}
      BY <1>0 DEF Written
    <2>2. shake' = shake
      BY <2>1, CountFrame
    <2>3. Len(sent') - shake < SeqMod => Len(sent) - shake < SeqMod
      BY <1>0, <1>1
    <2>4. /\ out.send_seq = (out.count + out.lost) % SeqMod
          /\ AllWellFormed /\ Len(sent) - shake < SeqMod => out.recv_seq <= Len(sent) - shake
      BY DEF SequenceHonest
    <2>5. out.recv_seq <= Len(sent) - shake => out.recv_seq <= Len(sent') - shake
      BY <1>0, <1>1
    <2> QED
      BY <1>1, <2>2, <2>3, <2>4, <2>5
  <1>3. CASE WriterPacket /\ out' # out
    <2>1. /\ out'.count = out.count + 1 /\ out'.lost = lost /\ out'.send_seq = send_seq
          /\ out'.recv_seq = recv_seq /\ UNCHANGED <<sent, shake>>
      BY <1>3, WriterEffect DEF Reaches
    <2>2. out'.send_seq = (out'.count + out'.lost) % SeqMod
      <3>1. out'.count + out'.lost = out.count + lost + 1
        BY <1>0, <2>1
      <3> QED
        BY <2>1, <3>1 DEF SendCounts
    <2>3. AllWellFormed /\ Len(sent) - shake < SeqMod => recv_seq <= Len(sent) - shake
      <3> SUFFICES ASSUME AllWellFormed, Len(sent) - shake < SeqMod
                   PROVE  recv_seq <= Len(sent) - shake
        OBVIOUS
      <3>1. recv_seq = Len(parsed) - shake
        BY DEF RecvCounts
      <3>2. Len(parsed) <= Len(sent)
        BY NoneGarbled
      <3> QED
        BY <1>0, <1>1, <3>1, <3>2
    <2> QED
      BY <1>1, <2>1, <2>2, <2>3 DEF SequenceHonest
  <1> QED
    BY <1>2, <1>3, CountFrame

--------------------------------------------------------------------------------
(* The invariant holds *)

\* The initial state.
LEMMA InitIInv == Init => IInv
  <1> SUFFICES ASSUME Init PROVE IInv
    OBVIOUS
  <1>1. /\ dev = "version" /\ parse = Start(0) /\ pos = 0 /\ buffered = 0 /\ xfer = NoXfer
        /\ reader = "run" /\ w_tx = <<>> /\ buffer = 0 /\ current_transfer_len = 0
        /\ writer = "run" /\ send_seq = 1 /\ recv_seq = 0 /\ sent = <<>> /\ onBus = 0
        /\ out = Nothing /\ parsed = <<>> /\ shake = 0 /\ queued = 0 /\ failed = 0 /\ lost = 0
    BY DEF Init
  <1>2. /\ Start(0) \in ParseType /\ Start(0).stage = "v1" /\ Start(0).left = V1_SIZE
        /\ Start(0).start = 0
    BY StartFacts
  <1>3. /\ <<>> \in Seq(SentType) /\ <<>> \in Seq(Known) /\ <<>> \in Seq(Payloads)
        /\ Len(<<>>) = 0 /\ 1 .. 0 = {}
    OBVIOUS
  <1>4. Sent = 0 /\ Len(sent) = 0 /\ Len(parsed) = 0 /\ Len(w_tx) = 0
    BY <1>1 DEF Sent
  <1>5. NoXfer \in XferType /\ NoXfer.st = "none"
    BY DEF NoXfer, XferType
  <1>6. ReadTyped
    BY <1>1, <1>2, <1>3, <1>4, <1>5, Constant DEF ReadTyped
  <1>7. Nothing \in OutType /\ Nothing.count = 0
    BY DEF Nothing, OutType
  <1>8. WriteTyped
    BY <1>1, <1>3, <1>4, <1>7, Constant DEF WriteTyped
  <1>9. Placed
    BY <1>1, <1>3, <1>4 DEF Placed
  <1>10. Delivered /\ InPlace
    BY <1>1, <1>2, <1>4 DEF Delivered, InPlace, End, Upto, V1_SIZE
  <1>11. Written /\ Carried /\ PacketEndVisible /\ SequenceHonest
    BY <1>1, <1>4, <1>7 DEF Written, Carried, PacketEndVisible, SequenceHonest
  <1>12. SendCounts
    <2>1. 1 % SeqMod = 1
      BY ModLemma, Constant
    <2> QED
      BY <1>1, <1>7, <2>1 DEF SendCounts
  <1>13. RecvCounts
    BY <1>1, <1>4 DEF RecvCounts
  <1> QED
    BY <1>6, <1>8, <1>9, <1>10, <1>11, <1>12, <1>13 DEF IInv, Typed

\* IInv is an invariant of the two endpoints.
THEOREM Inductive == Spec => []IInv
  <1>1. IInv /\ [Next]_vars => IInv'
    <2> SUFFICES ASSUME IInv, [Next]_vars PROVE IInv'
      OBVIOUS
    <2>1. ReadTyped' /\ WriteTyped' /\ Placed'
      BY ReadTypedStep, WriteTypedStep, PlacedStep DEF IInv, Typed
    <2>2. Delivered' /\ InPlace'
      BY DeliveredStep, InPlaceStep DEF IInv, Typed
    <2>3. Written' /\ Carried' /\ PacketEndVisible'
      BY WrittenStep, CarriedStep, EndVisibleStep DEF IInv, Typed
    <2>4. SendCounts' /\ SequenceHonest'
      BY SendCountsStep, HonestStep DEF IInv, Typed
    <2>5. RecvCounts'
      BY <2>1, <2>2, RecvCountsStep DEF IInv, Typed
    <2> QED
      BY <2>1, <2>2, <2>3, <2>4, <2>5 DEF IInv, Typed
  <1> QED
    BY InitIInv, <1>1, PTL DEF Spec

\* The endpoints, the parser and the counters keep their types: in particular no more is read
\* than came over the bus, and no more came than the device sent.
THEOREM TypeCorrect == Spec => []TypeOK
  <1>1. IInv => TypeOK
    BY DEF IInv, Typed, ReadTyped, WriteTyped, TypeOK, ParseType, XferType
  <1> QED
    BY <1>1, Inductive, PTL

\* Whatever payloads are written, for every size of a bulk endpoint, the device can tell
\* where each packet ends while no write has failed.
THEOREM EndVisibleTheorem == Spec => []PacketEndVisible
  <1>1. IInv => PacketEndVisible
    BY DEF IInv
  <1> QED
    BY <1>1, Inductive, PTL

\* The writer never comes to the write that would stay pending for good.
THEOREM NeverStuckTheorem == Spec => []WriterNeverStuck
  <1>1. IInv => WriterNeverStuck
    BY DEF IInv, Written, WriterNeverStuck
  <1> QED
    BY <1>1, Inductive, PTL

\* The sequence numbers the device sees are honest, however often they have wrapped.
THEOREM HonestTheorem == Spec => []SequenceHonest
  <1>1. IInv => SequenceHonest
    BY DEF IInv
  <1> QED
    BY <1>1, Inductive, PTL

--------------------------------------------------------------------------------
(* The reader implements PacketPipe *)

\* What the pipe takes and gives, and the sequences of it that UsbLink stands for.
Pieces == DevPackets \cup {Whole(h) : h \in Known}
pipeSent == [i \in 1 .. Len(sent) |-> [hdr |-> sent[i].hdr, size |-> sent[i].size]]
pipeDelivered == [i \in 1 .. Len(parsed) |-> Whole(parsed[i])]

\* A function on the first numbers is a sequence, and one that goes on by one is longer by
\* what it ends with.
LEMMA LongerByOne ==
    ASSUME NEW S, NEW n \in Nat, NEW f \in [1 .. n -> S], NEW g \in [1 .. n + 1 -> S],
           \A i \in 1 .. n : g[i] = f[i]
    PROVE  g = Append(f, g[n + 1])
  <1>1. f \in Seq(S) /\ Len(f) = n
    BY SeqDef
  <1>2. n + 1 \in Nat
    OBVIOUS
  <1>3. g \in Seq(S) /\ Len(g) = n + 1
    BY <1>2, SeqDef
  <1>4. g[n + 1] \in S
    OBVIOUS
  <1> DEFINE h == Append(f, g[n + 1])
  <1>5. h \in Seq(S) /\ Len(h) = n + 1 /\ (\A i \in 1 .. n : h[i] = f[i]) /\ h[n + 1] = g[n + 1]
    BY <1>1, <1>4, AppendFacts
  <1> HIDE DEF h
  <1>6. \A i \in 1 .. n + 1 : g[i] = h[i]
    BY <1>5
  <1>7. g = h
    BY <1>3, <1>5, <1>6, SeqEqual
  <1> QED
    BY <1>7 DEF h

\* Both sequences are made of what the pipe carries.
LEMMA PipeTypes ==
    ASSUME ReadTyped, Placed
    PROVE  /\ Len(sent) \in Nat /\ Len(parsed) \in Nat
           /\ pipeSent \in [1 .. Len(sent) -> Pieces] /\ Len(pipeSent) = Len(sent)
           /\ pipeDelivered \in [1 .. Len(parsed) -> Pieces] /\ Len(pipeDelivered) = Len(parsed)
  <1>1. Len(sent) \in Nat /\ parsed \in Seq(Known) /\ Len(parsed) \in Nat
    BY SentFacts DEF ReadTyped
  <1>2. pipeSent \in [1 .. Len(sent) -> Pieces]
    BY DEF pipeSent, Placed, Pieces
  <1>3. \A i \in 1 .. Len(parsed) : parsed[i] \in Known
    BY <1>1, ElementOfSeq
  <1>4. pipeDelivered \in [1 .. Len(parsed) -> Pieces]
    BY <1>3 DEF pipeDelivered, Pieces
  <1>5. Len(pipeSent) = Len(sent) /\ Len(pipeDelivered) = Len(parsed)
    BY <1>1 DEF pipeSent, pipeDelivered
  <1> QED
    BY <1>1, <1>2, <1>4, <1>5

\* A packet and its image in the pipe are well formed alike.
LEMMA PipeWellFormed ==
    ASSUME NEW i \in 1 .. Len(sent)
    PROVE  /\ WellFormed(pipeSent[i]) <=> WellFormed(sent[i])
           /\ WellFormed(sent[i]) => pipeSent[i] = Whole(sent[i].hdr)
  BY DEF pipeSent, WellFormed, Whole

\* A step of the endpoints is a step of the pipe, or none.
LEMMA PipeStep ==
    ASSUME IInv, IInv', [Next]_vars
    PROVE  [Pipe!Next]_<<pipeSent, pipeDelivered>>
  <1> USE DEF IInv, Typed
  <1>0. /\ Len(sent) \in Nat /\ Len(parsed) \in Nat
        /\ pipeSent \in [1 .. Len(sent) -> Pieces] /\ Len(pipeSent) = Len(sent)
        /\ pipeDelivered \in [1 .. Len(parsed) -> Pieces] /\ Len(pipeDelivered) = Len(parsed)
    BY PipeTypes
  <1>1. CASE UNCHANGED <<sent, parsed>>
    BY <1>1 DEF pipeSent, pipeDelivered
  <1>2. ASSUME NEW p \in DevPackets, DeviceSends(p)
        PROVE  Pipe!Send
    <2>1. /\ Len(sent') = Len(sent) + 1 /\ \A i \in 1 .. Len(sent) : sent'[i] = sent[i]
          /\ sent'[Len(sent) + 1].hdr = p.hdr /\ sent'[Len(sent) + 1].size = p.size
          /\ p = [hdr |-> p.hdr, size |-> p.size]
      BY <1>2, SendsEffect
    <2>2. parsed' = parsed
      BY <1>2 DEF DeviceSends, readVars
    <2>3. /\ \A i \in 1 .. Len(sent) : pipeSent'[i] = pipeSent[i]
          /\ pipeSent'[Len(sent) + 1] = p
      BY <1>0, <2>1 DEF pipeSent
    <2>4. pipeSent' \in [1 .. Len(sent) + 1 -> Pieces]
      <3>1. pipeSent' \in [1 .. Len(sent') -> Pieces]
        BY DEF Placed, pipeSent, Pieces
      <3> QED
        BY <2>1, <3>1
    <2>5. pipeSent' = Append(pipeSent, p)
      BY <1>0, <2>3, <2>4, LongerByOne
    <2>6. pipeDelivered' = pipeDelivered
      BY <2>2 DEF pipeDelivered
    <2> QED
      BY <2>5, <2>6 DEF Pipe!Send, pipeSent, pipeDelivered
  <1>3. CASE ParsePayload /\ parsed' # parsed
    <2> DEFINE k == Len(parsed)
    <2>1. /\ parsed' = Append(parsed, parse.hdr) /\ parse.hdr \in Known /\ sent' = sent
          /\ parsed \in Seq(Known)
      BY <1>3 DEF ParsePayload, ReadTyped
    <2>2. /\ Len(parsed') = k + 1 /\ \A i \in 1 .. k : parsed'[i] = parsed[i]
          /\ parsed'[k + 1] = parse.hdr
      BY <2>1, AppendFacts
    <2>3. /\ \A i \in 1 .. k : pipeDelivered'[i] = pipeDelivered[i]
          /\ pipeDelivered'[k + 1] = Whole(parse.hdr)
      BY <1>0, <2>2 DEF pipeDelivered
    <2>4. pipeDelivered' \in [1 .. k + 1 -> Pieces]
      <3>1. \A i \in 1 .. Len(parsed') : parsed'[i] \in Known
        BY <2>1, AppendFacts, ElementOfSeq
      <3>2. pipeDelivered' \in [1 .. Len(parsed') -> Pieces]
        BY <3>1 DEF pipeDelivered, Pieces
      <3> QED
        BY <2>2, <3>2
    <2>5. pipeDelivered' = Append(pipeDelivered, Whole(parse.hdr))
      BY <1>0, <2>3, <2>4, LongerByOne
    <2>6. pipeSent' = pipeSent
      BY <2>1 DEF pipeSent
    <2>7. Whole(parse.hdr) \in Pieces
      BY <2>1 DEF Pieces
    <2>8. CASE Garbled
      <3>1. PICK i \in 1 .. Len(sent) : i <= k + 1 /\ ~WellFormed(sent[i])
        BY <2>8 DEF Garbled
      <3>2. i \in 1 .. Len(pipeSent) /\ i <= Len(pipeDelivered) + 1 /\ ~WellFormed(pipeSent[i])
        BY <1>0, <3>1, PipeWellFormed
      <3>3. Pipe!Garble
        BY <2>5, <2>6, <2>7, <3>2
           DEF Pipe!Garble, pipeSent, pipeDelivered, WellFormed, Pieces, Known
      <3> QED
        BY <3>3 DEF Pipe!Next
    <2>9. CASE ~Garbled
      <3>1. parse.left = 0 /\ reader = "run" /\ parse.stage = "payload"
        BY <1>3 DEF ParsePayload, Reading
      <3>2. k + 1 \in 1 .. Len(sent) /\ WellFormed(sent[k + 1])
        BY <2>9, <3>1, AtPacket
      <3>3. parse.hdr = sent[k + 1].hdr
        BY <2>9, <3>1 DEF InPlace
      <3>4. pipeSent[k + 1] = Whole(parse.hdr)
        BY <3>2, <3>3, PipeWellFormed
      <3>5. \A i \in 1 .. k + 1 : WellFormed(pipeSent[i])
        <4>1. \A i \in 1 .. k + 1 : i \in 1 .. Len(sent) /\ i <= k + 1
          BY <1>0, <3>2
        <4> QED
          BY <2>9, <4>1, PipeWellFormed DEF Garbled
      <3>6. Pipe!Deliver
        <4>1. Len(pipeDelivered) < Len(pipeSent)
          BY <1>0, <3>2
        <4>2. \A i \in 1 .. Len(pipeDelivered) + 1 : WellFormed(pipeSent[i])
          BY <1>0, <3>5
        <4>3. pipeDelivered' = Append(pipeDelivered, pipeSent[Len(pipeDelivered) + 1])
          BY <1>0, <2>5, <3>4
        <4> QED
          BY <2>6, <4>1, <4>2, <4>3, Zenon DEF Pipe!Deliver, pipeSent, pipeDelivered
      <3> QED
        BY <3>6 DEF Pipe!Next
    <2> QED
      BY <2>8, <2>9
  <1> QED
    BY <1>1, <1>2, <1>3, StreamFrame DEF Pipe!Next

\* However the bus cuts the stream, and however transfers end, the reader returns the
\* packets of the device whole and in order until one is not well formed.
THEOREM ImplementsPipe == Spec => PipeSpec
  <1>1. Init => Pipe!Init
    BY DEF Init, Pipe!Init
  <1>2. IInv /\ IInv' /\ [Next]_vars => [Pipe!Next]_<<pipeSent, pipeDelivered>>
    BY PipeStep
  <1> QED
    BY <1>1, <1>2, Inductive, PTL DEF Spec, PipeSpec, Pipe!Spec, pipeSent, pipeDelivered
================================================================================
