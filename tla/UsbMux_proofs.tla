----------------------------- MODULE UsbMux_proofs -----------------------------
(***************************************************************************)
(* Proofs about UsbMux for any number of clients, ports and packets, any   *)
(* capacity of the channels and any hashing of the ports to shards.        *)
(*                                                                         *)
(* Who owns a port owns its route, its packets and its connection on the   *)
(* device; this much holds always.  Until the port counter comes round, a  *)
(* connection is followed through its life: nothing is under way before    *)
(* its SYN, only the SYN until the device answers, then its packets in     *)
(* order, and nothing after its RST.                                       *)
(***************************************************************************)
EXTENDS UsbMux, SequenceTheorems, TLAPS

(* The inductive invariant *)

Kinds == {"SYN", "ACK", "DATA", "RST"}
Past == Open \cup {"rst", "drop", "unreg", "done"}
\* The connection is up and its RST not yet sent.
Up == {"hsack"} \cup Open \cup {"rst", "drop"}

ReaderType == [st : {"read", "blocked", "wedged", "ioerror", "gone"},
               kind : {"none", "SYNACK", "DATA"}, port : 0 .. PortMod - 1,
               conn : Conns \cup {None}, n : 0 .. MaxData]
OutType == [kind : {"SYNACK", "DATA", "RST"}, port : Ports, conn : Conns \cup {None},
            n : 0 .. MaxData]
\* What the reader and the device have in hand has its type too.
Typed == TypeOK /\ reader \in ReaderType /\ devOut \in Seq(OutType)

\* A handler has a port from get_next_source_port on, and not before.
PortHeld ==
    \A c \in Conns : /\ pc[c] = "idle" => port[c] = 0
                     /\ pc[c] \notin {"idle", "failed"} => port[c] # 0

\* Routes and entries of close_all belong to who has the port.
RoutesOwn ==
    /\ \A p \in Ports : router[p] # None => port[router[p]] = p
    /\ \A p \in Ports : conns[p] # None => port[conns[p]] = p /\ pc[conns[p]] \in Past
    /\ \A c \in todo : pc[c] \in Past

\* So do packets, in both directions, and the connections of the device.
PacketsOwn ==
    /\ \A i \in 1 .. Len(wq) : wq[i].port = port[wq[i].conn]
    /\ \A p \in Ports : peer[p] # None => port[peer[p]] = p
    /\ \A i \in 1 .. Len(devOut) : devOut[i].conn # None => devOut[i].port = port[devOut[i].conn]
    /\ reader.st = "blocked" /\ reader.conn # None => reader.port = port[reader.conn]

\* The writer only stops, and close_all only runs, when the token is cancelled.
CanceledFirst == writer = "gone" \/ closing # "no" => canceled

\* The writer channel has a packet of c, of one of the kinds K.
Queued(c, K) == \E i \in 1 .. Len(wq) : wq[i].conn = c /\ wq[i].kind \in K
\* Something of c is under way from the device to its handler.
Flying(c) ==
    \/ reader.st = "blocked" /\ reader.conn = c
    \/ \E i \in 1 .. Len(devOut) : devOut[i].conn = c /\ devOut[i].kind # "RST"
Routed(c) == chan[c] # <<>> \/ Flying(c)

\* Nothing of c is anywhere before its SYN is sent.
Unsent ==
    \A c \in Conns : pc[c] \in {"idle", "register", "syn"} =>
        ~Queued(c, Kinds) /\ ~Routed(c) /\ \A p \in Ports : peer[p] # c

\* As long as the SYN of c is queued, it is alone.
Single(c) == \A i, j \in 1 .. Len(wq) : wq[i].conn = c /\ wq[j].conn = c => i = j
SynAlone ==
    \A c \in Conns : Queued(c, {"SYN"}) =>
        /\ pc[c] \in {"synack", "failed"} /\ ~Routed(c) /\ \A p \in Ports : peer[p] # c
        /\ Single(c)

\* So it is as long as the device has not answered it.
SynUnanswered ==
    \A p \in devSyn :
        /\ peer[p] # None
        /\ \A c \in Conns : peer[p] = c =>
              pc[c] \in {"synack", "failed"} /\ ~Routed(c) /\ ~Queued(c, Kinds)

\* The channel of c has packets of c in the order they were sent, behind what the handler
\* has in hand and what the client has.
ChanOrder ==
    \A c \in Conns :
        /\ \A i \in 1 .. Len(chan[c]) :
              /\ chan[c][i].conn = c
              /\ chan[c][i].n > 0 => chan[c][i].n > got[c] /\ chan[c][i].n > hand[c]
        /\ \A i, j \in 1 .. Len(chan[c]) : i < j => chan[c][i].n < chan[c][j].n
        /\ hand[c] > 0 => hand[c] > got[c]

\* Packet number n on its way to c comes after all the handler of c has seen or has to see.
Behind(c, n) ==
    /\ n > 0 => n > got[c] /\ n > hand[c]
    /\ \A i \in 1 .. Len(chan[c]) : chan[c][i].n < n

\* What is under way comes in the order it was sent.
FlightOrder ==
    /\ reader.st = "blocked" /\ reader.conn # None => Behind(reader.conn, reader.n)
    /\ \A i \in 1 .. Len(devOut) : devOut[i].conn # None /\ devOut[i].kind # "RST" =>
          /\ Behind(devOut[i].conn, devOut[i].n)
          /\ reader.st = "blocked" /\ reader.conn = devOut[i].conn => reader.n < devOut[i].n
    /\ \A i, j \in 1 .. Len(devOut) :
          /\ i < j /\ devOut[i].conn = devOut[j].conn /\ devOut[i].conn # None
          /\ devOut[i].kind # "RST" /\ devOut[j].kind # "RST"
          => devOut[i].n < devOut[j].n

\* Packets are numbered up to devSent.
Numbered ==
    /\ \A c \in Conns : /\ got[c] <= devSent /\ hand[c] <= devSent
                        /\ \A i \in 1 .. Len(chan[c]) : chan[c][i].n <= devSent
    /\ reader.n <= devSent /\ \A i \in 1 .. Len(devOut) : devOut[i].n <= devSent

\* Every packet is of a connection.
NoStranger ==
    /\ reader.st = "blocked" => reader.conn # None
    /\ \A i \in 1 .. Len(devOut) : devOut[i].conn # None

\* A handler that waits for its SYN's answer has sent nothing else.
OnlySyn == \A c \in Conns : pc[c] = "synack" => ~Queued(c, Kinds \ {"SYN"})

\* The device has the connection open from its answer to the RST, or has reset it itself.
PeerOpen ==
    ~canceled /\ ~unplugged => \A c \in Conns :
        /\ pc[c] \in Up => (peer[port[c]] = c \/ c \in reset) /\ ~Queued(c, {"RST"})
        /\ pc[c] = "synack" /\ Routed(c) => peer[port[c]] = c \/ c \in reset

Basic == Typed /\ PortHeld /\ RoutesOwn /\ PacketsOwn /\ CanceledFirst /\ LiveConnRouted
Life == Unsent /\ SynAlone /\ SynUnanswered /\ OnlySyn /\ PeerOpen /\ PacketsForOpenPeers
Order == ChanOrder /\ FlightOrder /\ Numbered /\ NoStranger

\* The inductive invariant.
IInv == Basic /\ (PortsDistinct => Life /\ Order)

--------------------------------------------------------------------------------
(* What the steps share *)

Places == {"idle"} \cup Connecting \cup Open \cup {"rst", "drop", "unreg"} \cup Ended
WqType == [kind : Kinds, port : Ports, conn : Conns, n : {0}]
ChanType == [conn : Conns \cup {None}, n : 0 .. MaxData]

\* The packets of the three kinds of queues.
LEMMA QueueTypes ==
    ASSUME Typed
    PROVE  /\ wq \in Seq(WqType) /\ Len(wq) \in Nat
           /\ \A i \in 1 .. Len(wq) : /\ wq[i] \in WqType /\ wq[i].kind \in Kinds
                                      /\ wq[i].conn \in Conns /\ wq[i].port \in Ports
           /\ \A c \in Conns : chan[c] \in Seq(ChanType) /\ Len(chan[c]) \in Nat
           /\ \A c \in Conns : \A i \in 1 .. Len(chan[c]) :
                 chan[c][i] \in ChanType /\ chan[c][i].n \in 0 .. MaxData
           /\ devOut \in Seq(OutType) /\ Len(devOut) \in Nat
           /\ \A i \in 1 .. Len(devOut) :
                 /\ devOut[i] \in OutType /\ devOut[i].kind \in {"SYNACK", "DATA", "RST"}
                 /\ devOut[i].port \in Ports /\ devOut[i].conn \in Conns \cup {None}
                 /\ devOut[i].n \in 0 .. MaxData
  <1>1. /\ wq \in Seq(WqType) /\ devOut \in Seq(OutType)
        /\ \A c \in Conns : chan[c] \in Seq(ChanType)
    BY DEF Typed, TypeOK, WqType, ChanType, Kinds
  <1>2. /\ Len(wq) \in Nat /\ \A i \in 1 .. Len(wq) : wq[i] \in WqType
    BY <1>1
  <1>3. /\ Len(devOut) \in Nat /\ \A i \in 1 .. Len(devOut) : devOut[i] \in OutType
    BY <1>1
  <1>4. \A c \in Conns : Len(chan[c]) \in Nat /\ \A i \in 1 .. Len(chan[c]) : chan[c][i] \in ChanType
    BY <1>1
  <1>5. \A x \in WqType : x.kind \in Kinds /\ x.conn \in Conns /\ x.port \in Ports
    BY DEF WqType
  <1>6. \A x \in OutType : /\ x.kind \in {"SYNACK", "DATA", "RST"} /\ x.port \in Ports
                           /\ x.conn \in Conns \cup {None} /\ x.n \in 0 .. MaxData
    BY DEF OutType
  <1>7. \A x \in ChanType : x.n \in 0 .. MaxData
    BY DEF ChanType
  <1> QED
    BY <1>1, <1>2, <1>3, <1>4, <1>5, <1>6, <1>7

\* Appending to the writer channel.
LEMMA WqAppend ==
    ASSUME Typed, NEW c \in Conns, NEW k \in Kinds, port[c] \in Ports, Len(wq) < TxCap,
           wq' = Append(wq, Packet(k, port[c], c, 0))
    PROVE  /\ wq' \in Seq(WqType) /\ Len(wq') = Len(wq) + 1 /\ Len(wq') <= TxCap
           /\ \A i \in 1 .. Len(wq) : wq'[i] = wq[i]
           /\ wq'[Len(wq) + 1] = Packet(k, port[c], c, 0)
           /\ \A d, K : Queued(d, K)' <=> (Queued(d, K) \/ (d = c /\ k \in K))
           /\ \A d \in Conns : d # c => (Single(d) => Single(d)')
           /\ ~Queued(c, Kinds) => Single(c)'
  <1> DEFINE e == Packet(k, port[c], c, 0)
  <1>1. e \in WqType /\ e.conn = c /\ e.kind = k
    BY DEF Packet, WqType
  <1>2. wq \in Seq(WqType) /\ Len(wq) \in Nat /\ \A i \in 1 .. Len(wq) : wq[i].kind \in Kinds
    BY QueueTypes
  <1>3. wq' = Append(wq, e)
    OBVIOUS
  <1> HIDE DEF e
  <1>4. /\ wq' \in Seq(WqType) /\ Len(wq') = Len(wq) + 1 /\ Len(wq') <= TxCap
        /\ \A i \in 1 .. Len(wq) : wq'[i] = wq[i]
        /\ wq'[Len(wq) + 1] = e
    BY <1>1, <1>2, <1>3, ConstantsAssumption
  <1>5. \A i \in 1 .. Len(wq') : i \in 1 .. Len(wq) \/ i = Len(wq) + 1
    BY <1>2, <1>4
  <1>6. \A d, K : Queued(d, K)' <=> (Queued(d, K) \/ (d = c /\ k \in K))
    <2> TAKE d, K
    <2>1. ASSUME Queued(d, K)'
          PROVE  Queued(d, K) \/ (d = c /\ k \in K)
      BY <1>1, <1>4, <1>5, <2>1 DEF Queued
    <2>2. ASSUME Queued(d, K)
          PROVE  Queued(d, K)'
      BY <1>2, <1>4, <2>2 DEF Queued
    <2>3. ASSUME d = c, k \in K
          PROVE  Queued(d, K)'
      <3>1. Len(wq) + 1 \in 1 .. Len(wq')
        BY <1>2, <1>4
      <3> QED
        BY <1>1, <1>4, <2>3, <3>1 DEF Queued
    <2> QED
      BY <2>1, <2>2, <2>3
  <1>7. ASSUME NEW d \in Conns, d # c, Single(d)
        PROVE  Single(d)'
    BY <1>1, <1>4, <1>5, <1>7 DEF Single
  <1>8. ASSUME ~Queued(c, Kinds)
        PROVE  Single(c)'
    BY <1>2, <1>4, <1>5, <1>8 DEF Single, Queued
  <1> QED
    BY <1>4, <1>6, <1>7, <1>8 DEF e

\* Taking the first packet of the writer channel.
LEMMA WqTail ==
    ASSUME Typed, wq # <<>>, wq' = Tail(wq)
    PROVE  /\ wq' \in Seq(WqType) /\ Len(wq') = Len(wq) - 1 /\ Len(wq) \in Nat /\ Len(wq) >= 1
           /\ Head(wq) = wq[1] /\ 1 \in 1 .. Len(wq)
           /\ \A i \in 1 .. Len(wq') : i + 1 \in 1 .. Len(wq) /\ wq'[i] = wq[i + 1]
           /\ \A d, K : Queued(d, K)' => Queued(d, K)
           /\ \A d \in Conns : Single(d) => Single(d)'
           /\ \A d \in Conns : Single(d) /\ wq[1].conn = d => ~Queued(d, Kinds)'
  <1>1. wq \in Seq(WqType) /\ Len(wq) \in Nat
    BY QueueTypes
  <1>2. /\ wq' \in Seq(WqType) /\ Len(wq') = Len(wq) - 1 /\ Len(wq) >= 1
        /\ Head(wq) = wq[1] /\ 1 \in 1 .. Len(wq)
        /\ \A i \in 1 .. Len(wq') : i + 1 \in 1 .. Len(wq) /\ wq'[i] = wq[i + 1]
    BY <1>1
  <1>3. \A d, K : Queued(d, K)' => Queued(d, K)
    BY <1>2 DEF Queued
  <1>4. \A d \in Conns : Single(d) => Single(d)'
    BY <1>1, <1>2 DEF Single
  <1>5. ASSUME NEW d \in Conns, Single(d), wq[1].conn = d, NEW i \in 1 .. Len(wq'), wq'[i].conn = d
        PROVE  FALSE
    <2>1. i + 1 = 1
      BY <1>2, <1>5 DEF Single
    <2> QED
      BY <1>1, <1>2, <2>1
  <1> QED
    BY <1>1, <1>2, <1>3, <1>4, <1>5 DEF Queued

\* Two connections with ports have different ones, until the counter comes round.
LEMMA DistinctPorts ==
    ASSUME PortsDistinct, NEW c \in Conns, NEW d \in Conns, port[c] = port[d], port[c] # 0
    PROVE  c = d
  BY DEF PortsDistinct

--------------------------------------------------------------------------------
(* The handlers.  From its SYN to its end a handler goes one way, sends    *)
(* at most one packet at a time and takes from the front of its channel.   *)

\* From where it is, the handler of c goes to l and sends a packet of kind k, or "none".
Arrow(c, l, k) ==
    \/ pc[c] = "syn" /\ l = "synack" /\ k = "SYN"
    \/ pc[c] \in {"syn", "synack", "hsack"} /\ l = "failed" /\ k = "none"
    \/ pc[c] = "synack" /\ l = "hsack" /\ k = "none" /\ chan[c] # <<>>
    \/ pc[c] = "hsack" /\ l = "select" /\ k = "ACK"
    \/ pc[c] \in Open /\ l \in Open \cup {"rst", "drop"} /\ k \in {"none", "ACK", "DATA"}
    \/ pc[c] \in {"rst", "drop"} /\ l = "unreg" /\ k = "RST"
    \/ pc[c] \in {"rst", "drop", "unreg"} /\ l = "done" /\ k = "none"

\* Its channel becomes q, and the client has got the packets up to g, with h in hand.
Takes(c, q, g, h) ==
    \/ q = <<>> /\ g = 0 /\ h = 0
    \/ q = chan[c] /\ g = got[c] /\ h \in {0, hand[c]}
    \/ q = chan[c] /\ g = hand[c] /\ hand[c] # 0 /\ h = 0
    \/ chan[c] # <<>> /\ q = Tail(chan[c]) /\ g = got[c] /\ h \in {hand[c], Head(chan[c]).n}

Turn(c, l, k, q, g, h) ==
    /\ Arrow(c, l, k) /\ Takes(c, q, g, h)
    /\ pc' = [pc EXCEPT ![c] = l] /\ chan' = [chan EXCEPT ![c] = q]
    /\ got' = [got EXCEPT ![c] = g] /\ hand' = [hand EXCEPT ![c] = h]
    /\ wq' = IF k = "none" THEN wq ELSE Append(wq, Packet(k, port[c], c, 0))
    /\ k # "none" => Len(wq) < TxCap
    /\ reads' \in 0 .. MaxReads
    /\ \/ UNCHANGED router
       \/ l = "done" /\ router' = [router EXCEPT ![port[c]] = None]
    /\ \/ UNCHANGED conns
       \/ l = "select" /\ conns' = [conns EXCEPT ![port[c]] = c]
    /\ UNCHANGED <<port, next_source_port, writer, reader, downVars, devVars>>

\* Every step of a handler after register() is of that form.
LEMMA HandlerTurns ==
    ASSUME Typed, NEW c \in Conns,
           \/ SendSyn(c) \/ RecvSynAck(c) \/ SendHandshakeAck(c)
           \/ Recv(c) \/ RecvDisconnected(c) \/ AckSent(c) \/ ClientSend(c) \/ SendPending(c)
           \/ SeeShutdown(c) \/ SendRst(c) \/ DropConn(c) \/ Unregister(c)
           \/ ClientRead(c) \/ ClientEof(c)
    PROVE  \E l, k, q, g, h : Turn(c, l, k, q, g, h)
  <1> USE DEF Arrow, Takes, muxVars, Open, Goto, Send, Room
  <1>0. /\ pc \in [Conns -> Places] /\ DOMAIN chan = Conns /\ DOMAIN got = Conns
        /\ DOMAIN hand = Conns /\ reads \in 0 .. MaxReads
        /\ chan = [chan EXCEPT ![c] = chan[c]] /\ got = [got EXCEPT ![c] = got[c]]
        /\ hand = [hand EXCEPT ![c] = hand[c]]
    BY DEF Typed, TypeOK, Places
  <1>1. CASE SendSyn(c)
    <2>1. CASE /\ Room /\ Send(c, "SYN")
               /\ Goto(c, "synack") /\ UNCHANGED <<chan, got, hand>>
      <3>1. Turn(c, "synack", "SYN", chan[c], got[c], hand[c])
        BY <1>0, <1>1, <2>1 DEF SendSyn, Turn, loopVars
      <3> QED
        BY <3>1
    <2>2. CASE End(c, "failed") /\ UNCHANGED wq
      <3>1. Turn(c, "failed", "none", <<>>, 0, 0)
        BY <1>0, <1>1, <2>2 DEF SendSyn, Turn, End, loopVars
      <3> QED
        BY <3>1
    <2> QED
      BY <1>0, <1>1, <2>1, <2>2 DEF SendSyn
  <1>2. CASE RecvSynAck(c)
    <2>1. CASE /\ chan[c] # <<>> /\ chan' = [chan EXCEPT ![c] = Tail(@)]
               /\ Goto(c, "hsack") /\ UNCHANGED <<got, hand>>
      <3>1. Turn(c, "hsack", "none", Tail(chan[c]), got[c], hand[c])
        BY <1>0, <1>2, <2>1 DEF RecvSynAck, Turn, loopVars
      <3> QED
        BY <3>1
    <2>2. CASE End(c, "failed")
      <3>1. Turn(c, "failed", "none", <<>>, 0, 0)
        BY <1>0, <1>2, <2>2 DEF RecvSynAck, Turn, End, loopVars
      <3> QED
        BY <3>1
    <2> QED
      BY <1>0, <1>2, <2>1, <2>2 DEF RecvSynAck
  <1>3. CASE SendHandshakeAck(c)
    <2>1. CASE /\ Room /\ Send(c, "ACK")
               /\ Goto(c, "select") /\ conns' = [conns EXCEPT ![port[c]] = c] /\ UNCHANGED <<chan, got, hand>>
      <3>1. Turn(c, "select", "ACK", chan[c], got[c], hand[c])
        BY <1>0, <1>3, <2>1 DEF SendHandshakeAck, Turn, loopVars
      <3> QED
        BY <3>1
    <2>2. CASE End(c, "failed") /\ UNCHANGED <<wq, conns>>
      <3>1. Turn(c, "failed", "none", <<>>, 0, 0)
        BY <1>0, <1>3, <2>2 DEF SendHandshakeAck, Turn, End, loopVars
      <3> QED
        BY <3>1
    <2> QED
      BY <1>0, <1>3, <2>1, <2>2 DEF SendHandshakeAck
  <1>4. CASE Recv(c)
    <2>1. CASE Room /\ Send(c, "ACK") /\ Goto(c, "toclient")
      <3>1. Turn(c, "toclient", "ACK", Tail(chan[c]), got[c], Head(chan[c]).n)
        BY <1>0, <1>4, <2>1 DEF Recv, Turn, loopVars
      <3> QED
        BY <3>1
    <2>2. CASE Goto(c, "acking") /\ UNCHANGED wq
      <3>1. Turn(c, "acking", "none", Tail(chan[c]), got[c], Head(chan[c]).n)
        BY <1>0, <1>4, <2>2 DEF Recv, Turn, loopVars
      <3> QED
        BY <3>1
    <2>3. CASE Goto(c, "drop") /\ UNCHANGED wq
      <3>1. Turn(c, "drop", "none", Tail(chan[c]), got[c], Head(chan[c]).n)
        BY <1>0, <1>4, <2>3 DEF Recv, Turn, loopVars
      <3> QED
        BY <3>1
    <2> QED
      BY <1>0, <1>4, <2>1, <2>2, <2>3 DEF Recv
  <1>5. CASE RecvDisconnected(c)
    <2>1. Turn(c, "drop", "none", chan[c], got[c], hand[c])
      BY <1>0, <1>5 DEF RecvDisconnected, Turn, loopVars, handlerVars
    <2> QED
      BY <2>1
  <1>6. CASE AckSent(c)
    <2>1. CASE Room /\ Send(c, "ACK") /\ Goto(c, "toclient")
      <3>1. Turn(c, "toclient", "ACK", chan[c], got[c], hand[c])
        BY <1>0, <1>6, <2>1 DEF AckSent, Turn, loopVars
      <3> QED
        BY <3>1
    <2>2. CASE Goto(c, "drop") /\ UNCHANGED wq
      <3>1. Turn(c, "drop", "none", chan[c], got[c], hand[c])
        BY <1>0, <1>6, <2>2 DEF AckSent, Turn, loopVars
      <3> QED
        BY <3>1
    <2> QED
      BY <1>0, <1>6, <2>1, <2>2 DEF AckSent
  <1>7. CASE ClientSend(c)
    <2>1. CASE Goto(c, "select") /\ hand[c] # 0 /\ got' = [got EXCEPT ![c] = hand[c]]
      <3>1. Turn(c, "select", "none", chan[c], hand[c], 0)
        BY <1>0, <1>7, <2>1 DEF ClientSend, Turn, loopVars
      <3> QED
        BY <3>1
    <2>2. CASE Goto(c, "select") /\ UNCHANGED got
      <3>1. Turn(c, "select", "none", chan[c], got[c], 0)
        BY <1>0, <1>7, <2>2 DEF ClientSend, Turn, loopVars
      <3> QED
        BY <3>1
    <2>3. CASE Goto(c, "drop") /\ UNCHANGED got
      <3>1. Turn(c, "drop", "none", chan[c], got[c], 0)
        BY <1>0, <1>7, <2>3 DEF ClientSend, Turn, loopVars
      <3> QED
        BY <3>1
    <2> QED
      BY <1>0, <1>7, <2>1, <2>2, <2>3 DEF ClientSend
  <1>8. CASE SendPending(c)
    <2>1. CASE Room /\ Send(c, "DATA") /\ Goto(c, "select")
      <3>1. Turn(c, "select", "DATA", chan[c], got[c], hand[c])
        BY <1>0, <1>8, <2>1 DEF SendPending, Turn, loopVars
      <3> QED
        BY <3>1
    <2>2. CASE Goto(c, "drop") /\ UNCHANGED wq
      <3>1. Turn(c, "drop", "none", chan[c], got[c], hand[c])
        BY <1>0, <1>8, <2>2 DEF SendPending, Turn, loopVars
      <3> QED
        BY <3>1
    <2> QED
      BY <1>0, <1>8, <2>1, <2>2 DEF SendPending
  <1>9. CASE SeeShutdown(c)
    <2>1. Turn(c, "drop", "none", chan[c], got[c], 0)
      BY <1>0, <1>9 DEF SeeShutdown, Turn, loopVars, handlerVars
    <2> QED
      BY <2>1
  <1>10. CASE SendRst(c)
    <2>1. CASE /\ Room /\ Send(c, "RST")
               /\ Goto(c, "unreg") /\ UNCHANGED <<chan, got, hand>>
      <3>1. Turn(c, "unreg", "RST", chan[c], got[c], hand[c])
        BY <1>0, <1>10, <2>1 DEF SendRst, Turn, loopVars
      <3> QED
        BY <3>1
    <2>2. CASE End(c, "done") /\ UNCHANGED wq
      <3>1. Turn(c, "done", "none", <<>>, 0, 0)
        BY <1>0, <1>10, <2>2 DEF SendRst, Turn, End, loopVars
      <3> QED
        BY <3>1
    <2> QED
      BY <1>0, <1>10, <2>1, <2>2 DEF SendRst
  <1>11. CASE DropConn(c)
    <2>1. CASE /\ Room /\ Send(c, "RST")
               /\ Goto(c, "unreg") /\ UNCHANGED <<chan, got, hand>>
      <3>1. Turn(c, "unreg", "RST", chan[c], got[c], hand[c])
        BY <1>0, <1>11, <2>1 DEF DropConn, Turn, loopVars
      <3> QED
        BY <3>1
    <2>2. CASE End(c, "done") /\ UNCHANGED wq
      <3>1. Turn(c, "done", "none", <<>>, 0, 0)
        BY <1>0, <1>11, <2>2 DEF DropConn, Turn, End, loopVars
      <3> QED
        BY <3>1
    <2> QED
      BY <1>0, <1>11, <2>1, <2>2 DEF DropConn
  <1>12. CASE Unregister(c)
    <2>1. Turn(c, "done", "none", <<>>, 0, 0)
      BY <1>0, <1>12 DEF Unregister, Turn, End, loopVars, handlerVars
    <2> QED
      BY <2>1
  <1>13. CASE ClientRead(c)
    <2>1. CASE Room /\ Send(c, "DATA") /\ Goto(c, "select")
      <3>1. Turn(c, "select", "DATA", chan[c], got[c], 0)
        BY <1>0, <1>13, <2>1, ConstantsAssumption DEF ClientRead, Turn, loopVars
      <3> QED
        BY <3>1
    <2>2. CASE Goto(c, "sending") /\ UNCHANGED wq
      <3>1. Turn(c, "sending", "none", chan[c], got[c], 0)
        BY <1>0, <1>13, <2>2, ConstantsAssumption DEF ClientRead, Turn, loopVars
      <3> QED
        BY <3>1
    <2>3. CASE Goto(c, "drop") /\ UNCHANGED wq
      <3>1. Turn(c, "drop", "none", chan[c], got[c], 0)
        BY <1>0, <1>13, <2>3, ConstantsAssumption DEF ClientRead, Turn, loopVars
      <3> QED
        BY <3>1
    <2> QED
      BY <1>0, <1>13, <2>1, <2>2, <2>3 DEF ClientRead
  <1>14. CASE ClientEof(c)
    <2>1. CASE Goto(c, "rst")
      <3>1. Turn(c, "rst", "none", chan[c], got[c], 0)
        BY <1>0, <1>14, <2>1 DEF ClientEof, Turn, loopVars
      <3> QED
        BY <3>1
    <2>2. CASE Goto(c, "drop")
      <3>1. Turn(c, "drop", "none", chan[c], got[c], 0)
        BY <1>0, <1>14, <2>2 DEF ClientEof, Turn, loopVars
      <3> QED
        BY <3>1
    <2> QED
      BY <1>0, <1>14, <2>1, <2>2 DEF ClientEof
  <1> QED
    BY <1>1, <1>2, <1>3, <1>4, <1>5, <1>6, <1>7, <1>8, <1>9, <1>10, <1>11, <1>12, <1>13, <1>14

\* What a turn does to the variables it writes.
LEMMA TurnEffect ==
    ASSUME Basic, NEW c \in Conns, NEW l, NEW k, NEW q, NEW g, NEW h, Turn(c, l, k, q, g, h)
    PROVE  /\ pc' \in [Conns -> Places] /\ pc'[c] = l /\ \A d \in Conns : d # c => pc'[d] = pc[d]
           /\ pc[c] \in Alive /\ l \in Places /\ port[c] \in Ports
           /\ chan'[c] = q /\ \A d \in Conns : d # c => chan'[d] = chan[d]
           /\ got'[c] = g /\ \A d \in Conns : d # c => got'[d] = got[d]
           /\ hand'[c] = h /\ \A d \in Conns : d # c => hand'[d] = hand[d]
           /\ q \in Seq(ChanType) /\ Len(q) \in Nat /\ Len(q) <= Len(chan[c])
           /\ g \in 0 .. MaxData /\ h \in 0 .. MaxData
           /\ q # <<>> => chan[c] # <<>>
           /\ k \in Kinds \cup {"none"}
           /\ UNCHANGED <<port, next_source_port, writer, reader, canceled, closing, todo, registered,
                          unplugged, peer, devOut, devSyn, devSent, reset>>
  <1> USE DEF Basic
  <1>1. /\ pc \in [Conns -> Places] /\ chan \in [Conns -> Seq(ChanType)]
        /\ got \in [Conns -> 0 .. MaxData] /\ hand \in [Conns -> 0 .. MaxData]
        /\ port \in [Conns -> 0 .. PortMod - 1]
    BY DEF Typed, TypeOK, Places, ChanType
  <1>2. /\ pc[c] \in Alive /\ l \in Places /\ k \in Kinds \cup {"none"}
    BY DEF Turn, Arrow, Alive, Connecting, Open, Places, Ended, Kinds
  <1>3. port[c] \in Ports
    <2>1. port[c] # 0 /\ port[c] \in 0 .. PortMod - 1
      BY <1>1, <1>2 DEF PortHeld, Alive, Connecting, Open
    <2> QED
      BY <2>1, ConstantsAssumption DEF Ports
  <1>4. /\ pc' = [pc EXCEPT ![c] = l] /\ chan' = [chan EXCEPT ![c] = q]
        /\ got' = [got EXCEPT ![c] = g] /\ hand' = [hand EXCEPT ![c] = h]
        /\ UNCHANGED <<port, next_source_port, writer, reader, canceled, closing, todo, registered,
                       unplugged, peer, devOut, devSyn, devSent, reset>>
    BY DEF Turn, downVars, devVars
  <1>5. /\ q \in Seq(ChanType) /\ Len(q) \in Nat /\ Len(q) <= Len(chan[c])
        /\ g \in 0 .. MaxData /\ h \in 0 .. MaxData
        /\ q # <<>> => chan[c] # <<>>
    <2>1. /\ chan[c] \in Seq(ChanType) /\ Len(chan[c]) \in Nat
          /\ chan[c] # <<>> => /\ Head(chan[c]) \in ChanType /\ Tail(chan[c]) \in Seq(ChanType)
                               /\ Len(Tail(chan[c])) = Len(chan[c]) - 1
      BY <1>1
    <2>2. \A x \in ChanType : x.n \in 0 .. MaxData
      BY DEF ChanType
    <2>3. 0 \in 0 .. MaxData /\ <<>> \in Seq(ChanType) /\ Len(<<>>) = 0
      BY ConstantsAssumption
    <2>4. Takes(c, q, g, h) /\ got[c] \in 0 .. MaxData /\ hand[c] \in 0 .. MaxData
      BY <1>1 DEF Turn
    <2>5. CASE q = <<>> /\ g = 0 /\ h = 0
      BY <2>1, <2>3, <2>5
    <2>6. CASE q = chan[c] /\ g \in {got[c], hand[c]} /\ h \in {0, hand[c]}
      BY <2>1, <2>3, <2>4, <2>6
    <2>7. CASE chan[c] # <<>> /\ q = Tail(chan[c]) /\ g = got[c] /\ h \in {hand[c], Head(chan[c]).n}
      BY <2>1, <2>2, <2>4, <2>7
    <2> QED
      BY <2>4, <2>5, <2>6, <2>7 DEF Takes
  <1> QED
    BY <1>1, <1>2, <1>3, <1>4, <1>5

\* What it does to the packets.
LEMMA TurnPackets ==
    ASSUME Basic, NEW c \in Conns, NEW l, NEW k, NEW q, NEW g, NEW h, Turn(c, l, k, q, g, h)
    PROVE  /\ wq' \in Seq(WqType) /\ Len(wq') <= TxCap
           /\ \A d, K : Queued(d, K)' <=> (Queued(d, K) \/ (d = c /\ k \in K /\ k # "none"))
           /\ \A d \in Conns : d # c => (Single(d) => Single(d)')
           /\ k = "none" => wq' = wq
           /\ k # "none" => /\ Len(wq') = Len(wq) + 1
                            /\ \A i \in 1 .. Len(wq) : wq'[i] = wq[i]
                            /\ wq'[Len(wq) + 1] = Packet(k, port[c], c, 0)
           /\ ~Queued(c, Kinds) => Single(c)'
           /\ \A d : Flying(d)' <=> Flying(d)
           /\ \A d \in Conns : Routed(d)' => Routed(d)
  <1>1. /\ port[c] \in Ports /\ k \in Kinds \cup {"none"}
        /\ q # <<>> => chan[c] # <<>>
        /\ chan'[c] = q /\ \A d \in Conns : d # c => chan'[d] = chan[d]
        /\ UNCHANGED <<reader, devOut>>
    BY TurnEffect
  <1>2. /\ wq' = IF k = "none" THEN wq ELSE Append(wq, Packet(k, port[c], c, 0))
        /\ k # "none" => Len(wq) < TxCap
    BY DEF Turn
  <1>3. /\ \A d : Flying(d)' <=> Flying(d)
        /\ \A d \in Conns : Routed(d)' => Routed(d)
    BY <1>1 DEF Flying, Routed
  <1>4. CASE k = "none"
    <2>1. wq' = wq /\ wq \in Seq(WqType) /\ Len(wq) <= TxCap
      BY <1>2, <1>4, QueueTypes DEF Basic, Typed, TypeOK
    <2>2. /\ \A d, K : Queued(d, K)' <=> Queued(d, K)
          /\ \A d : Single(d)' <=> Single(d)
      BY <2>1 DEF Queued, Single
    <2>3. ~Queued(c, Kinds) => Single(c)
      BY QueueTypes DEF Queued, Single, Basic
    <2> QED
      BY <1>3, <1>4, <2>1, <2>2, <2>3
  <1>5. CASE k # "none"
    <2>1. k \in Kinds /\ wq' = Append(wq, Packet(k, port[c], c, 0)) /\ Len(wq) < TxCap
      BY <1>1, <1>2, <1>5
    <2> QED
      BY <1>1, <1>3, <1>5, <2>1, WqAppend DEF Basic
  <1> QED
    BY <1>4, <1>5

LEMMA TurnBasic ==
    ASSUME Basic, NEW c \in Conns, NEW l, NEW k, NEW q, NEW g, NEW h, Turn(c, l, k, q, g, h)
    PROVE  Basic'
  <1> USE DEF Basic
  <1>1. /\ pc' \in [Conns -> Places] /\ pc'[c] = l /\ \A d \in Conns : d # c => pc'[d] = pc[d]
        /\ pc[c] \in Alive /\ l \in Places /\ port[c] \in Ports
        /\ k \in Kinds \cup {"none"}
        /\ UNCHANGED <<port, next_source_port, writer, reader, canceled, closing, todo, registered,
                       unplugged, peer, devOut, devSyn, devSent, reset>>
    BY TurnEffect
  <1>2. /\ Arrow(c, l, k)
        /\ \/ UNCHANGED router
           \/ l = "done" /\ router' = [router EXCEPT ![port[c]] = None]
        /\ \/ UNCHANGED conns
           \/ l = "select" /\ conns' = [conns EXCEPT ![port[c]] = c]
    BY DEF Turn
  <1>3. /\ router \in [Ports -> Conns \cup {None}] /\ conns \in [Ports -> Conns \cup {None}]
        /\ None \notin Conns
    BY ConstantsAssumption DEF Typed, TypeOK
  <1>4. /\ l # "idle" /\ pc[c] # "idle" /\ pc[c] # "failed"
        /\ pc[c] \in Past => l \in Past
        /\ l = "select" => l \in Past
        /\ l = "done" => l \notin Alive
    BY <1>2 DEF Arrow, Past, Open, Alive, Connecting
  <1>5. Typed'
    <2>1. chan' \in [Conns -> Seq(ChanType)] /\ \A d \in Conns : Len(chan'[d]) <= RxCap
      <3>1. /\ chan \in [Conns -> Seq(ChanType)] /\ \A d \in Conns : Len(chan[d]) <= RxCap
            /\ \A d \in Conns : Len(chan[d]) \in Nat
        BY QueueTypes DEF Typed, TypeOK, ChanType
      <3>2. chan' = [chan EXCEPT ![c] = q]
        BY DEF Turn
      <3>3. q \in Seq(ChanType) /\ Len(q) \in Nat /\ Len(q) <= Len(chan[c])
        BY TurnEffect
      <3> QED
        BY <3>1, <3>2, <3>3, ConstantsAssumption
    <2>2. /\ got' \in [Conns -> 0 .. MaxData] /\ hand' \in [Conns -> 0 .. MaxData]
          /\ reads' \in 0 .. MaxReads
      BY TurnEffect DEF Turn, Typed, TypeOK
    <2>3. router' \in [Ports -> Conns \cup {None}] /\ conns' \in [Ports -> Conns \cup {None}]
      BY <1>1, <1>2, <1>3
    <2>4. wq' \in Seq(WqType) /\ Len(wq') <= TxCap
      BY TurnPackets
    <2>5. TypeOK'
      BY <1>1, <2>1, <2>2, <2>3, <2>4 DEF Typed, TypeOK, Places, ChanType, WqType, Kinds
    <2> QED
      BY <1>1, <2>5 DEF Typed
  <1>6. PortHeld'
    BY <1>1, <1>4 DEF PortHeld
  <1>7. RoutesOwn'
    <2>1. \A p \in Ports : router'[p] # None => port[router'[p]] = p
      BY <1>1, <1>2, <1>3 DEF RoutesOwn
    <2>2. \A p \in Ports : conns'[p] # None => port[conns'[p]] = p /\ pc'[conns'[p]] \in Past
      <3> SUFFICES ASSUME NEW p \in Ports, conns'[p] # None
                   PROVE  port[conns'[p]] = p /\ pc'[conns'[p]] \in Past
        OBVIOUS
      <3>1. CASE conns'[p] = conns[p]
        <4>1. conns[p] \in Conns /\ port[conns[p]] = p /\ pc[conns[p]] \in Past
          BY <1>3, <3>1 DEF RoutesOwn
        <4> QED
          BY <1>1, <1>4, <3>1, <4>1
      <3>2. CASE conns'[p] # conns[p]
        <4>1. l = "select" /\ p = port[c] /\ conns'[p] = c
          BY <1>1, <1>2, <1>3, <3>2
        <4> QED
          BY <1>1, <1>4, <4>1
      <3> QED
        BY <3>1, <3>2
    <2>3. \A d \in todo : pc'[d] \in Past
      <3>1. todo \subseteq Conns
        BY DEF Typed, TypeOK
      <3> QED
        BY <1>1, <1>4, <3>1 DEF RoutesOwn
    <2> QED
      BY <1>1, <2>1, <2>2, <2>3 DEF RoutesOwn
  <1>8. PacketsOwn'
    <2>1. \A i \in 1 .. Len(wq') : wq'[i].port = port[wq'[i].conn]
      <3>1. CASE k = "none"
        BY <3>1, TurnPackets DEF PacketsOwn
      <3>2. CASE k # "none"
        <4>1. /\ Len(wq') = Len(wq) + 1 /\ \A i \in 1 .. Len(wq) : wq'[i] = wq[i]
              /\ wq'[Len(wq) + 1] = Packet(k, port[c], c, 0) /\ Len(wq) \in Nat
          BY <3>2, TurnPackets, QueueTypes
        <4>2. wq'[Len(wq) + 1].port = port[c] /\ wq'[Len(wq) + 1].conn = c
          BY <4>1 DEF Packet
        <4>3. \A i \in 1 .. Len(wq') : i \in 1 .. Len(wq) \/ i = Len(wq) + 1
          BY <4>1
        <4> QED
          BY <4>1, <4>2, <4>3 DEF PacketsOwn
      <3> QED
        BY <3>1, <3>2
    <2> QED
      BY <1>1, <2>1 DEF PacketsOwn
  <1>9. CanceledFirst'
    BY <1>1 DEF CanceledFirst
  <1>10. LiveConnRouted'
    <2> SUFFICES ASSUME PortsDistinct, closing # "done", NEW d \in Conns, pc'[d] \in Alive
                 PROVE  router'[port[d]] = d
      BY <1>1 DEF LiveConnRouted, PortsDistinct
    <2>1. pc[d] \in Alive /\ router[port[d]] = d
      BY <1>1 DEF LiveConnRouted
    <2>2. port[d] \in Ports
      <3>1. port[d] # 0 /\ port[d] \in 0 .. PortMod - 1
        BY <2>1 DEF PortHeld, Typed, TypeOK, Alive, Connecting, Open
      <3> QED
        BY <3>1, ConstantsAssumption DEF Ports
    <2>3. CASE l = "done"
      <3>1. d # c
        BY <1>1, <1>4, <2>3
      <3>2. port[d] # port[c]
        BY <2>2, <3>1, DistinctPorts, ConstantsAssumption DEF Ports
      <3> QED
        BY <1>1, <1>2, <1>3, <2>1, <2>2, <3>2
    <2>4. CASE l # "done"
      BY <1>2, <2>1, <2>4
    <2> QED
      BY <2>3, <2>4
  <1> QED
    BY <1>5, <1>6, <1>7, <1>8, <1>9, <1>10

\* A turn keeps a connection on its way.
LEMMA TurnLife ==
    ASSUME Basic, Life, PortsDistinct, NEW c \in Conns, NEW l, NEW k, NEW q, NEW g, NEW h,
           Turn(c, l, k, q, g, h)
    PROVE  Life'
  <1> USE DEF Life
  <1>1. /\ pc'[c] = l /\ \A d \in Conns : d # c => pc'[d] = pc[d]
        /\ k \in Kinds \cup {"none"}
        /\ UNCHANGED <<port, canceled, unplugged, peer, devSyn, reset>>
    BY TurnEffect
  <1>2. /\ \A d, K : Queued(d, K)' <=> (Queued(d, K) \/ (d = c /\ k \in K /\ k # "none"))
        /\ \A d \in Conns : d # c => (Single(d) => Single(d)')
        /\ k = "none" => wq' = wq
        /\ ~Queued(c, Kinds) => Single(c)'
        /\ \A d \in Conns : Routed(d)' => Routed(d)
    BY TurnPackets
  <1>3. Arrow(c, l, k)
    BY DEF Turn
  <1>4. chan[c] # <<>> => Routed(c)
    BY DEF Routed
  <1>5. Queued(c, {"SYN"}) => Queued(c, Kinds)
    BY DEF Queued, Kinds
  <1>6. Unsent'
    <2>1. l \notin {"idle", "register", "syn"}
      BY <1>3 DEF Arrow, Open
    <2> QED
      BY <1>1, <1>2, <2>1 DEF Unsent
  <1>7. SynAlone'
    <2> SUFFICES ASSUME NEW d \in Conns, Queued(d, {"SYN"})'
                 PROVE  /\ pc'[d] \in {"synack", "failed"} /\ ~Routed(d)'
                        /\ Single(d)' /\ \A p \in Ports : peer[p] # d
      BY <1>1 DEF SynAlone
    <2>1. CASE d # c
      BY <1>1, <1>2, <2>1 DEF SynAlone
    <2>2. CASE d = c /\ k = "SYN"
      <3>1. pc[c] = "syn" /\ l = "synack"
        BY <1>3, <2>2 DEF Arrow
      <3>2. ~Queued(c, Kinds) /\ ~Routed(c) /\ \A p \in Ports : peer[p] # c
        BY <3>1 DEF Unsent
      <3> QED
        BY <1>1, <1>2, <2>2, <3>1, <3>2
    <2>3. CASE d = c /\ k # "SYN"
      <3>1. Queued(c, {"SYN"})
        BY <1>2, <2>3
      <3>2. /\ pc[c] \in {"synack", "failed"} /\ ~Routed(c) /\ \A p \in Ports : peer[p] # c
            /\ Single(c)
        BY <3>1 DEF SynAlone
      <3>3. l = "failed" /\ k = "none"
        BY <1>3, <1>4, <3>2 DEF Arrow, Open
      <3>4. Single(c)'
        BY <1>2, <3>2, <3>3 DEF Single
      <3> QED
        BY <1>1, <1>2, <2>3, <3>2, <3>3, <3>4
    <2> QED
      BY <2>1, <2>2, <2>3
  <1>8. SynUnanswered'
    <2> SUFFICES ASSUME NEW p \in devSyn, NEW d \in Conns, peer[p] = d
                 PROVE  pc'[d] \in {"synack", "failed"} /\ ~Routed(d)' /\ ~Queued(d, Kinds)'
      BY <1>1 DEF SynUnanswered
    <2>1. pc[d] \in {"synack", "failed"} /\ ~Routed(d) /\ ~Queued(d, Kinds)
      BY DEF SynUnanswered
    <2>2. CASE d # c
      BY <1>1, <1>2, <2>1, <2>2
    <2>3. CASE d = c
      <3>1. l = "failed" /\ k = "none"
        BY <1>3, <1>4, <2>1, <2>3 DEF Arrow, Open
      <3> QED
        BY <1>1, <1>2, <2>1, <2>3, <3>1
    <2> QED
      BY <2>2, <2>3
  <1>9. OnlySyn'
    <2> SUFFICES ASSUME NEW d \in Conns, pc'[d] = "synack"
                 PROVE  ~Queued(d, Kinds \ {"SYN"})'
      BY DEF OnlySyn
    <2>1. CASE d # c
      BY <1>1, <1>2, <2>1 DEF OnlySyn
    <2>2. CASE d = c
      <3>1. pc[c] = "syn" /\ k = "SYN"
        BY <1>1, <1>3, <2>2 DEF Arrow, Open
      <3>2. ~Queued(c, Kinds)
        BY <3>1 DEF Unsent
      <3>3. ~Queued(c, Kinds \ {"SYN"})
        BY <3>2 DEF Queued
      <3> QED
        BY <1>2, <2>2, <3>1, <3>3
    <2> QED
      BY <2>1, <2>2
  <1>10. PeerOpen'
    <2> SUFFICES ASSUME ~canceled, ~unplugged, NEW d \in Conns
                 PROVE  /\ pc'[d] \in Up => (peer[port[d]] = d \/ d \in reset) /\ ~Queued(d, {"RST"})'
                        /\ pc'[d] = "synack" /\ Routed(d)' => peer[port[d]] = d \/ d \in reset
      BY <1>1 DEF PeerOpen
    <2>0. /\ pc[d] \in Up => (peer[port[d]] = d \/ d \in reset) /\ ~Queued(d, {"RST"})
          /\ pc[d] = "synack" /\ Routed(d) => peer[port[d]] = d \/ d \in reset
      BY DEF PeerOpen
    <2>1. CASE d # c
      BY <1>1, <1>2, <2>0, <2>1
    <2>2. CASE d = c
      <3>1. ASSUME l \in Up
            PROVE  (peer[port[c]] = c \/ c \in reset) /\ ~Queued(c, {"RST"})'
        <4>1. /\ k # "RST"
              /\ pc[c] \in Up \/ (pc[c] = "synack" /\ Routed(c))
          BY <1>3, <1>4, <3>1 DEF Arrow, Up, Open
        <4>2. pc[c] = "synack" => ~Queued(c, {"RST"})
          BY DEF OnlySyn, Queued, Kinds
        <4> QED
          BY <1>2, <2>0, <2>2, <4>1, <4>2
      <3>2. ASSUME l = "synack"
            PROVE  ~Routed(c)'
        <4>1. pc[c] = "syn"
          BY <1>3, <3>2 DEF Arrow, Open
        <4> QED
          BY <1>2, <4>1 DEF Unsent
      <3> QED
        BY <1>1, <2>2, <3>1, <3>2
    <2> QED
      BY <2>1, <2>2
  <1>11. PacketsForOpenPeers'
    <2> SUFFICES ASSUME ~canceled, ~unplugged, NEW i \in 1 .. Len(wq'), wq'[i].kind # "SYN"
                 PROVE  /\ peer[wq'[i].port] = wq'[i].conn \/ wq'[i].conn \in reset
                        /\ \A j \in 1 .. i - 1 : wq'[j].conn = wq'[i].conn => wq'[j].kind # "RST"
      BY <1>1 DEF PacketsForOpenPeers
    <2>1. CASE k = "none"
      BY <1>2, <2>1 DEF PacketsForOpenPeers
    <2>2. CASE k # "none"
      <3>1. /\ Len(wq') = Len(wq) + 1 /\ Len(wq) \in Nat
            /\ \A m \in 1 .. Len(wq) : wq'[m] = wq[m]
            /\ wq'[Len(wq) + 1] = Packet(k, port[c], c, 0)
        BY <2>2, TurnPackets, QueueTypes DEF Basic
      <3>2. CASE i \in 1 .. Len(wq)
        <4>1. \A j \in 1 .. i - 1 : j \in 1 .. Len(wq)
          BY <3>1, <3>2
        <4> QED
          BY <3>1, <3>2, <4>1 DEF PacketsForOpenPeers
      <3>3. CASE i = Len(wq) + 1
        <4>1. wq'[i].kind = k /\ wq'[i].conn = c /\ wq'[i].port = port[c]
          BY <3>1, <3>3 DEF Packet
        <4>2. pc[c] \in Up
          BY <1>3, <2>2, <4>1 DEF Arrow, Up
        <4>3. (peer[port[c]] = c \/ c \in reset) /\ ~Queued(c, {"RST"})
          BY <4>2 DEF PeerOpen
        <4>4. \A j \in 1 .. i - 1 : j \in 1 .. Len(wq)
          BY <3>1, <3>3
        <4> QED
          BY <3>1, <4>1, <4>3, <4>4 DEF Queued
      <3> QED
        BY <3>1, <3>2, <3>3
    <2> QED
      BY <2>1, <2>2
  <1> QED
    BY <1>6, <1>7, <1>8, <1>9, <1>10, <1>11

\* A turn takes packets from the front of the channel, so what is left keeps its order.
LEMMA TurnOrder ==
    ASSUME Basic, Order, NEW c \in Conns, NEW l, NEW k, NEW q, NEW g, NEW h,
           Turn(c, l, k, q, g, h)
    PROVE  Order'
  <1> USE DEF Order
  <1>1. /\ chan'[c] = q /\ \A d \in Conns : d # c => chan'[d] = chan[d]
        /\ got'[c] = g /\ \A d \in Conns : d # c => got'[d] = got[d]
        /\ hand'[c] = h /\ \A d \in Conns : d # c => hand'[d] = hand[d]
        /\ UNCHANGED <<reader, devOut, devSent>>
    BY TurnEffect
  <1>2. Takes(c, q, g, h)
    BY DEF Turn
  <1>3. /\ got[c] \in Nat /\ hand[c] \in Nat /\ Len(chan[c]) \in Nat /\ devSent \in Nat
        /\ \A i \in 1 .. Len(chan[c]) : chan[c][i].n \in Nat
        /\ \A i \in 1 .. Len(devOut) : devOut[i].n \in Nat /\ devOut[i].conn \in Conns \cup {None}
        /\ reader.n \in Nat /\ reader.conn \in Conns \cup {None}
    <2>1. /\ got[c] \in 0 .. MaxData /\ hand[c] \in 0 .. MaxData /\ devSent \in 0 .. MaxData
      BY DEF Basic, Typed, TypeOK
    <2>2. reader.n \in 0 .. MaxData /\ reader.conn \in Conns \cup {None}
      BY DEF Basic, Typed, ReaderType
    <2>3. \A x \in 0 .. MaxData : x \in Nat
      BY ConstantsAssumption
    <2> QED
      BY <2>1, <2>2, <2>3, QueueTypes DEF Basic
  \* The new channel is the old one from some place on.
  <1>4. \E s \in Nat : /\ Len(q) \in Nat
                       /\ \A i \in 1 .. Len(q) : i + s \in 1 .. Len(chan[c]) /\ q[i] = chan[c][i + s]
    <2>1. CASE q = <<>>
      BY <2>1
    <2>2. CASE q = chan[c]
      <3>1. \A i \in 1 .. Len(q) : i + 0 = i
        OBVIOUS
      <3> QED
        BY <1>3, <2>2, <3>1
    <2>3. CASE chan[c] # <<>> /\ q = Tail(chan[c])
      <3>1. chan[c] \in Seq(ChanType)
        BY QueueTypes DEF Basic
      <3>2. /\ Len(q) \in Nat
            /\ \A i \in 1 .. Len(q) : i + 1 \in 1 .. Len(chan[c]) /\ q[i] = chan[c][i + 1]
        BY <2>3, <3>1
      <3> QED
        BY <3>2
    <2> QED
      BY <1>2, <2>1, <2>2, <2>3 DEF Takes
  <1>5. PICK s \in Nat : /\ Len(q) \in Nat
                         /\ \A i \in 1 .. Len(q) :
                               i + s \in 1 .. Len(chan[c]) /\ q[i] = chan[c][i + s]
    BY <1>4
  \* What comes behind the old state of c comes behind the new one.
  <1>6. /\ \A i \in 1 .. Len(chan[c]) :
              /\ chan[c][i].conn = c
              /\ chan[c][i].n > 0 => chan[c][i].n > got[c] /\ chan[c][i].n > hand[c]
        /\ \A i, j \in 1 .. Len(chan[c]) : i < j => chan[c][i].n < chan[c][j].n
        /\ hand[c] > 0 => hand[c] > got[c]
    BY DEF ChanOrder
  <1>7. ASSUME NEW n \in Nat, Behind(c, n)
        PROVE  Behind(c, n)'
    <2>1. n > 0 => n > g /\ n > h
      <3>1. chan[c] # <<>> => Head(chan[c]) = chan[c][1] /\ 1 \in 1 .. Len(chan[c])
        BY QueueTypes DEF Basic
      <3> QED
        BY <1>2, <1>3, <1>7, <3>1 DEF Takes, Behind
    <2>2. \A i \in 1 .. Len(q) : q[i].n < n
      BY <1>5, <1>7 DEF Behind
    <2>3. Behind(c, n)' <=> (n > 0 => n > g /\ n > h) /\ \A i \in 1 .. Len(q) : q[i].n < n
      BY <1>1 DEF Behind
    <2> QED
      BY <2>1, <2>2, <2>3
  <1>8. ChanOrder'
    <2> SUFFICES ASSUME NEW d \in Conns
                 PROVE  /\ \A i \in 1 .. Len(chan'[d]) :
                              /\ chan'[d][i].conn = d
                              /\ chan'[d][i].n > 0 => chan'[d][i].n > got'[d] /\ chan'[d][i].n > hand'[d]
                        /\ \A i, j \in 1 .. Len(chan'[d]) : i < j => chan'[d][i].n < chan'[d][j].n
                        /\ hand'[d] > 0 => hand'[d] > got'[d]
      BY DEF ChanOrder
    <2>1. CASE d # c
      BY <1>1, <2>1 DEF ChanOrder
    <2>2. /\ \A i \in 1 .. Len(q) : q[i].conn = c
          /\ \A i, j \in 1 .. Len(q) : i < j => q[i].n < q[j].n
      <3>1. \A i, j \in 1 .. Len(q) : i < j => i + s < j + s
        BY <1>5
      <3> QED
        BY <1>5, <1>6, <3>1
    <2>3. h > 0 => h > g
      <3>1. chan[c] # <<>> => Head(chan[c]) = chan[c][1] /\ 1 \in 1 .. Len(chan[c])
        BY QueueTypes DEF Basic
      <3> QED
        BY <1>2, <1>3, <1>6, <3>1 DEF Takes
    <2>4. ASSUME NEW i \in 1 .. Len(q), q[i].n > 0
          PROVE  q[i].n > g /\ q[i].n > h
      <3>1. CASE q = <<>>
        BY <3>1
      <3>2. CASE q = chan[c] /\ g \in {got[c], hand[c]} /\ h \in {0, hand[c]}
        BY <1>3, <1>6, <2>4, <3>2
      <3>3. CASE chan[c] # <<>> /\ q = Tail(chan[c]) /\ g = got[c]
                 /\ h \in {hand[c], Head(chan[c]).n}
        <4>1. chan[c] \in Seq(ChanType)
          BY QueueTypes DEF Basic
        <4>2. /\ Head(chan[c]) = chan[c][1] /\ 1 \in 1 .. Len(chan[c]) /\ 1 < i + 1
              /\ i + 1 \in 1 .. Len(chan[c]) /\ q[i] = chan[c][i + 1]
          BY <3>3, <4>1
        <4>3. chan[c][1].n < chan[c][i + 1].n
          BY <1>6, <4>2
        <4> QED
          BY <1>3, <1>6, <2>4, <3>3, <4>2, <4>3
      <3> QED
        BY <1>2, <3>1, <3>2, <3>3 DEF Takes
    <2>5. CASE d = c
      BY <1>1, <2>2, <2>3, <2>4, <2>5
    <2> QED
      BY <2>1, <2>5
  <1>9. FlightOrder'
    <2>1. \A d \in Conns : \A n \in Nat : Behind(d, n) => Behind(d, n)'
      <3>1. ASSUME NEW d \in Conns, d # c, NEW n \in Nat, Behind(d, n)
            PROVE  Behind(d, n)'
        BY <1>1, <3>1 DEF Behind
      <3> QED
        BY <1>7, <3>1
    <2> QED
      BY <1>1, <1>3, <2>1 DEF FlightOrder
  <1>10. Numbered'
    <2>1. g <= devSent /\ h <= devSent /\ \A i \in 1 .. Len(q) : q[i].n <= devSent
      <3>1. chan[c] # <<>> => Head(chan[c]) = chan[c][1] /\ 1 \in 1 .. Len(chan[c])
        BY QueueTypes DEF Basic
      <3>2. /\ got[c] <= devSent /\ hand[c] <= devSent
            /\ \A i \in 1 .. Len(chan[c]) : chan[c][i].n <= devSent
        BY DEF Numbered
      <3>3. g <= devSent /\ h <= devSent
        BY <1>2, <1>3, <3>1, <3>2 DEF Takes
      <3> QED
        BY <1>5, <3>2, <3>3
    <2> QED
      BY <1>1, <2>1 DEF Numbered
  <1>11. NoStranger'
    BY <1>1 DEF NoStranger
  <1> QED
    BY <1>8, <1>9, <1>10, <1>11

--------------------------------------------------------------------------------
(* Steps that leave the packets alone, or lose some.                       *)

\* What is queued, alone or under way depends on the queues only.
LEMMA SameQueue ==
    ASSUME UNCHANGED wq
    PROVE  /\ \A d, K : Queued(d, K)' <=> Queued(d, K)
           /\ \A d : Single(d)' <=> Single(d)
  BY DEF Queued, Single

\* The life of a connection does not mind that packets to it get lost, nor that the token is
\* cancelled or the device unplugged.
LEMMA LifeKept ==
    ASSUME Typed, Life, UNCHANGED <<pc, port, peer, reset, devSyn, wq>>,
           canceled => canceled', unplugged => unplugged',
           \A d \in Conns : Routed(d)' => Routed(d)
    PROVE  Life'
  <1> USE DEF Life
  <1>1. /\ \A d, K : Queued(d, K)' <=> Queued(d, K)
        /\ \A d : Single(d)' <=> Single(d)
    BY SameQueue
  <1>2. Unsent' /\ SynAlone' /\ OnlySyn'
    BY <1>1 DEF Unsent, SynAlone, OnlySyn
  <1>3. SynUnanswered'
    <2>1. \A p \in devSyn : peer[p] # None => peer[p] \in Conns
      BY DEF Typed, TypeOK
    <2> QED
      BY <1>1, <2>1 DEF SynUnanswered
  <1>4. PeerOpen'
    BY <1>1 DEF PeerOpen
  <1>5. PacketsForOpenPeers'
    BY DEF PacketsForOpenPeers, PortsDistinct
  <1> QED
    BY <1>2, <1>3, <1>4, <1>5

\* Nor does the order.
LEMMA OrderKept ==
    ASSUME Typed, Order, UNCHANGED <<chan, got, hand, devSent, devOut>>,
           reader' = reader \/ (reader'.st # "blocked" /\ reader'.n = 0)
    PROVE  Order'
  <1> USE DEF Order
  <1>1. \A d \in Conns : \A n \in Nat : Behind(d, n)' <=> Behind(d, n)
    BY DEF Behind
  <1>2. /\ \A x \in 0 .. MaxData : x \in Nat
        /\ reader.n \in 0 .. MaxData /\ reader.conn \in Conns \cup {None}
    BY ConstantsAssumption DEF Typed, ReaderType
  <1>3. devSent \in Nat
    BY <1>2 DEF Typed, TypeOK
  <1>4. \A i \in 1 .. Len(devOut) : devOut[i].n \in Nat /\ devOut[i].conn \in Conns \cup {None}
    BY <1>2, QueueTypes
  <1>5. ChanOrder' /\ Numbered' /\ NoStranger'
    BY <1>3 DEF ChanOrder, Numbered, NoStranger
  <1>6. FlightOrder'
    BY <1>1, <1>2, <1>4 DEF FlightOrder
  <1> QED
    BY <1>5, <1>6

\* A handler before its SYN: nobody has seen anything of it.
LEMMA EarlyLife ==
    ASSUME Typed, Life, PortsDistinct, NEW c \in Conns, pc[c] \in {"idle", "register"},
           pc'[c] \in {"failed", "register", "syn"}, \A d \in Conns : d # c => pc'[d] = pc[d],
           \A d \in Conns : d # c => port'[d] = port[d],
           UNCHANGED <<wq, chan, reader, devOut, peer, reset, devSyn, canceled, unplugged>>
    PROVE  Life'
  <1> USE DEF Life
  <1>1. /\ \A d, K : Queued(d, K)' <=> Queued(d, K)
        /\ \A d : Single(d)' <=> Single(d)
    BY SameQueue
  <1>2. \A d : Routed(d)' <=> Routed(d)
    BY DEF Routed, Flying
  <1>3. ~Queued(c, Kinds) /\ ~Routed(c) /\ \A p \in Ports : peer[p] # c
    BY DEF Unsent
  <1>4. ~Queued(c, {"SYN"})
    BY <1>3 DEF Queued, Kinds
  <1>5. Unsent' /\ SynAlone' /\ OnlySyn'
    BY <1>1, <1>2, <1>3, <1>4 DEF Unsent, SynAlone, OnlySyn
  <1>6. SynUnanswered'
    <2>1. \A p \in devSyn : p \in Ports /\ (peer[p] # None => peer[p] \in Conns)
      BY DEF Typed, TypeOK
    <2> QED
      BY <1>1, <1>2, <1>3, <2>1 DEF SynUnanswered
  <1>7. PeerOpen'
    BY <1>1, <1>2 DEF PeerOpen, Up, Open
  <1>8. PacketsForOpenPeers'
    BY DEF PacketsForOpenPeers
  <1> QED
    BY <1>5, <1>6, <1>7, <1>8

\* get_next_source_port: whoever gets a port had none, so nothing there is its own yet.
LEMMA AllocPortStep ==
    ASSUME IInv, NEW c \in Conns, AllocPort(c)
    PROVE  IInv'
  <1> USE DEF IInv, Basic
  <1>1. /\ pc[c] = "idle" /\ port[c] = 0
        /\ UNCHANGED <<chan, reads, got, hand, router, conns, wq, writer, reader, canceled, closing, todo,
                       registered, unplugged, peer, devOut, devSyn, devSent, reset>>
    BY DEF AllocPort, PortHeld, loopVars, downVars, devVars
  <1>2. /\ pc \in [Conns -> Places] /\ port \in [Conns -> 0 .. PortMod - 1]
        /\ next_source_port \in 0 .. PortMod - 1
    BY DEF Typed, TypeOK, Places
  <1>3. \/ pc' = [pc EXCEPT ![c] = "failed"] /\ port' = port
        \/ /\ pc' = [pc EXCEPT ![c] = "register"] /\ next_source_port # 0
           /\ port' = [port EXCEPT ![c] = next_source_port]
    BY DEF AllocPort, Goto
  <1>4. /\ pc' \in [Conns -> Places] /\ port' \in [Conns -> 0 .. PortMod - 1]
        /\ pc'[c] \in {"failed", "register"} /\ \A d \in Conns : d # c => pc'[d] = pc[d]
        /\ \A d \in Conns : d # c => port'[d] = port[d]
        /\ pc'[c] = "register" => port'[c] # 0
    BY <1>2, <1>3 DEF Places, Connecting, Ended
  <1>5. next_source_port' \in 0 .. PortMod - 1
    BY <1>2, ConstantsAssumption DEF AllocPort
  <1>6. Typed'
    BY <1>1, <1>4, <1>5 DEF Typed, TypeOK, Places
  <1>7. PortHeld'
    BY <1>4 DEF PortHeld
  <1>8. \A d \in Conns : port[d] \in Ports => port'[d] = port[d] /\ d # c
    BY <1>1, <1>4, ConstantsAssumption DEF Ports
  <1>9. RoutesOwn'
    <2>1. \A p \in Ports : /\ router[p] # None => router[p] \in Conns
                           /\ conns[p] # None => conns[p] \in Conns
      BY DEF Typed, TypeOK
    <2>2. \A d \in todo : d \in Conns /\ d # c
      BY <1>1 DEF Typed, TypeOK, RoutesOwn, Past, Open
    <2> QED
      BY <1>1, <1>4, <1>8, <2>1, <2>2 DEF RoutesOwn
  <1>10. PacketsOwn'
    <2>1. \A p \in Ports : peer[p] # None => peer[p] \in Conns
      BY DEF Typed, TypeOK
    <2>2. /\ reader.conn # None => reader.conn \in Conns
          /\ reader.st = "blocked" => reader.port \in Ports
      BY DEF Typed, TypeOK, ReaderType
    <2>3. /\ \A i \in 1 .. Len(wq) : wq[i].conn \in Conns /\ wq[i].port \in Ports
          /\ \A i \in 1 .. Len(devOut) :
                devOut[i].port \in Ports /\ devOut[i].conn \in Conns \cup {None}
      BY QueueTypes
    <2> QED
      BY <1>1, <1>8, <2>1, <2>2, <2>3 DEF PacketsOwn
  <1>11. CanceledFirst'
    BY <1>1 DEF CanceledFirst
  <1>12. PortsDistinct' => PortsDistinct
    BY <1>1, <1>2, <1>4 DEF PortsDistinct
  <1>13. LiveConnRouted'
    BY <1>1, <1>4, <1>12 DEF LiveConnRouted, Alive, Connecting, Open
  <1>14. PortsDistinct' => Life' /\ Order'
    BY <1>1, <1>4, <1>12, EarlyLife, OrderKept
  <1> QED
    BY <1>6, <1>7, <1>9, <1>10, <1>11, <1>13, <1>14

\* register: the new route replaces at most that of an earlier owner of the port.
LEMMA RegisterStep ==
    ASSUME IInv, NEW c \in Conns, Register(c)
    PROVE  IInv'
  <1> USE DEF IInv, Basic
  <1>1. /\ pc[c] = "register" /\ pc' = [pc EXCEPT ![c] = "syn"]
        /\ router' = [router EXCEPT ![port[c]] = c]
        /\ UNCHANGED <<port, chan, reads, got, hand, next_source_port, conns, wq, writer, reader, canceled,
                       closing, todo, registered, unplugged, peer, devOut, devSyn, devSent, reset>>
    BY DEF Register, Goto, loopVars, downVars, devVars
  <1>2. /\ pc \in [Conns -> Places] /\ router \in [Ports -> Conns \cup {None}]
    BY DEF Typed, TypeOK, Places
  <1>3. port[c] \in Ports
    <2>1. port[c] \in 0 .. PortMod - 1 /\ port[c] # 0
      BY <1>1 DEF Typed, TypeOK, PortHeld
    <2> QED
      BY <2>1, ConstantsAssumption DEF Ports
  <1>4. /\ pc' \in [Conns -> Places] /\ pc'[c] = "syn" /\ \A d \in Conns : d # c => pc'[d] = pc[d]
        /\ router' \in [Ports -> Conns \cup {None}] /\ router'[port[c]] = c
        /\ \A p \in Ports : p # port[c] => router'[p] = router[p]
    BY <1>1, <1>2, <1>3 DEF Places, Connecting
  <1>5. Typed'
    BY <1>1, <1>4 DEF Typed, TypeOK, Places
  <1>6. PortHeld'
    BY <1>1, <1>4 DEF PortHeld
  <1>7. RoutesOwn'
    <2>1. \A p \in Ports : conns[p] # None => conns[p] \in Conns /\ conns[p] # c
      BY <1>1 DEF Typed, TypeOK, RoutesOwn, Past, Open
    <2>2. \A d \in todo : d \in Conns /\ d # c
      BY <1>1 DEF Typed, TypeOK, RoutesOwn, Past, Open
    <2>3. \A p \in Ports : router'[p] # None => port[router'[p]] = p
      BY <1>3, <1>4 DEF RoutesOwn
    <2> QED
      BY <1>1, <1>4, <2>1, <2>2, <2>3 DEF RoutesOwn
  <1>8. PacketsOwn' /\ CanceledFirst'
    BY <1>1 DEF PacketsOwn, CanceledFirst
  <1>9. PortsDistinct' <=> PortsDistinct
    BY <1>1 DEF PortsDistinct
  <1>10. LiveConnRouted'
    <2> SUFFICES ASSUME PortsDistinct, closing # "done", NEW d \in Conns, pc'[d] \in Alive
                 PROVE  router'[port[d]] = d
      BY <1>1, <1>9 DEF LiveConnRouted
    <2>1. CASE d = c
      BY <1>4, <2>1
    <2>2. CASE d # c
      <3>1. pc[d] \in Alive /\ router[port[d]] = d
        BY <1>4, <2>2 DEF LiveConnRouted
      <3>2. port[d] # 0 /\ port[d] \in 0 .. PortMod - 1
        BY <3>1 DEF PortHeld, Typed, TypeOK, Alive, Connecting, Open
      <3>3. port[d] \in Ports
        BY <3>2, ConstantsAssumption DEF Ports
      <3>4. port[d] # port[c]
        BY <2>2, <3>2, DistinctPorts
      <3> QED
        BY <1>4, <3>1, <3>3, <3>4
    <2> QED
      BY <2>1, <2>2
  <1>11. PortsDistinct' => Life' /\ Order'
    BY <1>1, <1>4, <1>9, EarlyLife, OrderKept
  <1> QED
    BY <1>5, <1>6, <1>7, <1>8, <1>10, <1>11

\* The reader ends: on an I/O error, or when the token is cancelled.
LEMMA ReaderEndStep ==
    ASSUME IInv, ReaderIoError \/ ReaderStops
    PROVE  IInv'
  <1> USE DEF IInv, Basic
  <1>1. /\ reader' \in {[Idle EXCEPT !.st = "ioerror"], [Idle EXCEPT !.st = "gone"]}
        /\ UNCHANGED <<pc, port, chan, reads, got, hand, next_source_port, router, conns, wq, writer,
                       canceled, closing, todo, registered, unplugged, peer, devOut, devSyn, devSent, reset>>
    BY DEF ReaderIoError, ReaderStops, handlerVars, muxVars, downVars, devVars
  <1>2. reader' \in ReaderType /\ reader'.st \in {"ioerror", "gone"} /\ reader'.n = 0
    BY <1>1, ConstantsAssumption DEF Idle, ReaderType
  <1>3. Typed'
    BY <1>1, <1>2 DEF Typed, TypeOK
  <1>4. PortHeld' /\ RoutesOwn' /\ PacketsOwn' /\ CanceledFirst'
    BY <1>1, <1>2 DEF PortHeld, RoutesOwn, PacketsOwn, CanceledFirst
  <1>5. PortsDistinct' <=> PortsDistinct
    BY <1>1 DEF PortsDistinct
  <1>6. LiveConnRouted'
    BY <1>1, <1>5 DEF LiveConnRouted
  <1>7. \A d \in Conns : Routed(d)' => Routed(d)
    BY <1>1, <1>2 DEF Routed, Flying
  <1>8. PortsDistinct => Life' /\ Order'
    BY <1>1, <1>2, <1>7, LifeKept, OrderKept
  <1> QED
    BY <1>3, <1>4, <1>5, <1>6, <1>8

\* The writer ends, and what it had queued is gone; the token is cancelled by then.
LEMMA WriterStopsStep ==
    ASSUME IInv, WriterStops
    PROVE  IInv'
  <1> USE DEF IInv, Basic
  <1>1. /\ canceled /\ writer' = "gone" /\ wq' = <<>>
        /\ UNCHANGED <<pc, port, chan, reads, got, hand, next_source_port, router, conns, reader,
                       canceled, closing, todo, registered, unplugged, peer, devOut, devSyn, devSent, reset>>
    BY DEF WriterStops, handlerVars, muxVars, downVars, devVars
  <1>2. wq' \in Seq(WqType) /\ Len(wq') = 0 /\ Len(wq') <= TxCap
    BY <1>1, ConstantsAssumption
  <1>3. Typed'
    BY <1>1, <1>2 DEF Typed, TypeOK, WqType, Kinds
  <1>4. PortHeld' /\ RoutesOwn' /\ PacketsOwn' /\ CanceledFirst'
    BY <1>1, <1>2 DEF PortHeld, RoutesOwn, PacketsOwn, CanceledFirst
  <1>5. PortsDistinct' <=> PortsDistinct
    BY <1>1 DEF PortsDistinct
  <1>6. LiveConnRouted'
    BY <1>1, <1>5 DEF LiveConnRouted
  <1>7. /\ \A d, K : ~Queued(d, K)'
        /\ \A d : Routed(d)' <=> Routed(d)
    BY <1>1, <1>2 DEF Queued, Routed, Flying
  <1>8. PortsDistinct => Life'
    BY <1>1, <1>7
       DEF Life, Unsent, SynAlone, SynUnanswered, OnlySyn, PeerOpen, PacketsForOpenPeers
  <1>9. PortsDistinct => Order'
    BY <1>1, OrderKept
  <1> QED
    BY <1>3, <1>4, <1>5, <1>6, <1>8, <1>9

\* shutdown() cancels the token and notes the connections; the entry may be dropped before,
\* or without it.
LEMMA EndingStep ==
    ASSUME IInv, Ending
    PROVE  IInv'
  <1> USE DEF IInv, Basic
  <1>1. /\ UNCHANGED <<pc, port, chan, reads, got, hand, next_source_port, router, conns, wq, writer,
                       reader, unplugged, peer, devOut, devSyn, devSent, reset>>
        /\ \/ UNCHANGED <<canceled, closing, todo>>
           \/ /\ canceled' = TRUE /\ closing = "no" /\ closing' = "rst"
              /\ todo' = {c \in Conns : \E p \in Ports : conns[p] = c}
    BY DEF Ending, RemoveDevice, Cleanup, ForgetDevice, Shutdown, handlerVars, muxVars, loopVars, devVars
  <1>2. registered' \in BOOLEAN
    BY DEF Ending, RemoveDevice, Cleanup, ForgetDevice, Typed, TypeOK
  <1>3. canceled' \in BOOLEAN /\ (canceled => canceled')
    BY <1>1 DEF Typed, TypeOK
  <1>4. closing' \in {"no", "rst", "done", "err"} /\ todo' \subseteq Conns
    BY <1>1 DEF Typed, TypeOK
  <1>5. Typed'
    BY <1>1, <1>2, <1>3, <1>4 DEF Typed, TypeOK
  <1>6. PortHeld' /\ PacketsOwn' /\ CanceledFirst'
    BY <1>1 DEF PortHeld, PacketsOwn, CanceledFirst
  <1>7. RoutesOwn'
    <2>1. \A c \in todo' : pc[c] \in Past
      BY <1>1, ConstantsAssumption DEF RoutesOwn
    <2> QED
      BY <1>1, <2>1 DEF RoutesOwn
  <1>8. PortsDistinct' <=> PortsDistinct
    BY <1>1 DEF PortsDistinct
  <1>9. LiveConnRouted'
    BY <1>1, <1>8 DEF LiveConnRouted
  <1>10. \A d \in Conns : Routed(d)' => Routed(d)
    BY <1>1 DEF Routed, Flying
  <1>11. PortsDistinct => Life' /\ Order'
    BY <1>1, <1>3, <1>10, LifeKept, OrderKept
  <1> QED
    BY <1>5, <1>6, <1>7, <1>8, <1>9, <1>11

\* close_all sends RST to a connection that is past its handshake.
LEMMA CloseAllRstStep ==
    ASSUME IInv, NEW c \in Conns, CloseAllRst(c)
    PROVE  IInv'
  <1> USE DEF IInv, Basic
  <1>1. /\ closing = "rst" /\ c \in todo /\ canceled /\ closing' \in {"rst", "err"}
        /\ todo' = todo \ {c} /\ closing' # "done"
        /\ UNCHANGED <<pc, port, chan, reads, got, hand, next_source_port, router, conns, writer, reader,
                       canceled, registered, unplugged, peer, devOut, devSyn, devSent, reset>>
    BY DEF CloseAllRst, handlerVars, muxVars, devVars, CanceledFirst
  <1>2. pc[c] \in Past /\ port[c] \in Ports
    <2>1. pc[c] \in Past
      BY <1>1 DEF RoutesOwn
    <2>2. port[c] # 0 /\ port[c] \in 0 .. PortMod - 1
      BY <2>1 DEF PortHeld, Typed, TypeOK, Past, Open
    <2> QED
      BY <2>1, <2>2, ConstantsAssumption DEF Ports
  <1>3. wq' = wq \/ (wq' = Append(wq, Packet("RST", port[c], c, 0)) /\ Len(wq) < TxCap)
    BY DEF CloseAllRst, Send, Room
  <1>4. /\ wq' \in Seq(WqType) /\ Len(wq') <= TxCap
        /\ \A d, K : d # c \/ "RST" \notin K => (Queued(d, K)' <=> Queued(d, K))
        /\ \A d \in Conns : d # c => (Single(d) => Single(d)')
        /\ \A i \in 1 .. Len(wq') : wq'[i].port = port[wq'[i].conn]
    <2>1. CASE wq' = wq
      <3>1. wq \in Seq(WqType) /\ Len(wq) <= TxCap
        BY QueueTypes DEF Typed, TypeOK
      <3> QED
        BY <2>1, <3>1, SameQueue DEF PacketsOwn
    <2>2. CASE wq' = Append(wq, Packet("RST", port[c], c, 0)) /\ Len(wq) < TxCap
      <3>1. /\ wq' \in Seq(WqType) /\ Len(wq') = Len(wq) + 1 /\ Len(wq') <= TxCap
            /\ \A i \in 1 .. Len(wq) : wq'[i] = wq[i]
            /\ wq'[Len(wq) + 1] = Packet("RST", port[c], c, 0)
            /\ \A d, K : Queued(d, K)' <=> (Queued(d, K) \/ (d = c /\ "RST" \in K))
            /\ \A d \in Conns : d # c => (Single(d) => Single(d)')
        <4>1. "RST" \in Kinds
          BY DEF Kinds
        <4> QED
          BY <1>2, <2>2, <4>1, WqAppend
      <3>2. \A i \in 1 .. Len(wq') : i \in 1 .. Len(wq) \/ i = Len(wq) + 1
        BY <3>1, QueueTypes
      <3>3. \A i \in 1 .. Len(wq') : wq'[i].port = port[wq'[i].conn]
        BY <3>1, <3>2 DEF Packet, PacketsOwn
      <3> QED
        BY <3>1, <3>3
    <2> QED
      BY <1>3, <2>1, <2>2
  <1>5. Typed'
    BY <1>1, <1>4 DEF Typed, TypeOK, WqType, Kinds
  <1>6. PortHeld' /\ RoutesOwn' /\ PacketsOwn' /\ CanceledFirst'
    BY <1>1, <1>4 DEF PortHeld, RoutesOwn, PacketsOwn, CanceledFirst
  <1>7. PortsDistinct' <=> PortsDistinct
    BY <1>1 DEF PortsDistinct
  <1>8. LiveConnRouted'
    BY <1>1, <1>7 DEF LiveConnRouted
  <1>9. ASSUME PortsDistinct
        PROVE  Life'
    <2> USE <1>9 DEF Life
    <2>1. \A d \in Conns : Routed(d)' <=> Routed(d)
      BY <1>1 DEF Routed, Flying
    <2>2. pc[c] \notin {"idle", "register", "syn", "synack", "failed"}
      BY <1>2 DEF Past, Open
    <2>3. Unsent' /\ OnlySyn' /\ PeerOpen' /\ PacketsForOpenPeers'
      BY <1>1, <1>4, <2>1, <2>2 DEF Unsent, OnlySyn, PeerOpen, PacketsForOpenPeers
    <2>4. SynAlone'
      <3>1. \A d \in Conns : Queued(d, {"SYN"})' <=> Queued(d, {"SYN"})
        BY <1>4
      <3>2. \A d \in Conns : Queued(d, {"SYN"}) => d # c
        BY <2>2 DEF SynAlone
      <3> QED
        BY <1>1, <1>4, <2>1, <3>1, <3>2 DEF SynAlone
    <2>5. SynUnanswered'
      <3>1. \A p \in devSyn : peer[p] # c /\ (peer[p] # None => peer[p] \in Conns)
        BY <2>2, ConstantsAssumption DEF SynUnanswered, Typed, TypeOK
      <3> QED
        BY <1>1, <1>4, <2>1, <3>1 DEF SynUnanswered
    <2> QED
      BY <2>3, <2>4, <2>5
  <1>10. PortsDistinct => Order'
    BY <1>1, OrderKept
  <1> QED
    BY <1>5, <1>6, <1>7, <1>8, <1>9, <1>10

\* router.clear() and conns.clear().
LEMMA CloseAllClearStep ==
    ASSUME IInv, CloseAllClear
    PROVE  IInv'
  <1> USE DEF IInv, Basic
  <1>1. /\ closing = "rst" /\ closing' = "done" /\ canceled
        /\ router' = [p \in Ports |-> None] /\ conns' = [p \in Ports |-> None]
        /\ UNCHANGED <<pc, port, chan, reads, got, hand, next_source_port, wq, writer, reader, canceled,
                       todo, registered, unplugged, peer, devOut, devSyn, devSent, reset>>
    BY DEF CloseAllClear, handlerVars, loopVars, devVars, CanceledFirst
  <1>2. Typed'
    BY <1>1 DEF Typed, TypeOK
  <1>3. PortHeld' /\ RoutesOwn' /\ PacketsOwn' /\ CanceledFirst'
    BY <1>1 DEF PortHeld, RoutesOwn, PacketsOwn, CanceledFirst
  <1>4. PortsDistinct' <=> PortsDistinct
    BY <1>1 DEF PortsDistinct
  <1>5. LiveConnRouted'
    BY <1>1 DEF LiveConnRouted
  <1>6. \A d \in Conns : Routed(d)' => Routed(d)
    BY <1>1 DEF Routed, Flying
  <1>7. PortsDistinct => Life' /\ Order'
    BY <1>1, <1>6, LifeKept, OrderKept
  <1> QED
    BY <1>2, <1>3, <1>4, <1>5, <1>7

\* The device is pulled out.
LEMMA UnplugStep ==
    ASSUME IInv, Unplug
    PROVE  IInv'
  <1> USE DEF IInv, Basic
  <1>1. /\ unplugged' = TRUE /\ devOut' = <<>> /\ devSyn' = {} /\ peer' = [p \in Ports |-> None]
        /\ UNCHANGED <<pc, port, chan, reads, got, hand, next_source_port, router, conns, wq, writer,
                       reader, canceled, closing, todo, registered, devSent, reset>>
    BY DEF Unplug, handlerVars, muxVars, loopVars, downVars
  <1>2. devOut' \in Seq(OutType) /\ Len(devOut') = 0
    BY <1>1
  <1>3. Typed'
    BY <1>1, <1>2 DEF Typed, TypeOK
  <1>4. PortHeld' /\ RoutesOwn' /\ PacketsOwn' /\ CanceledFirst'
    BY <1>1, <1>2 DEF PortHeld, RoutesOwn, PacketsOwn, CanceledFirst
  <1>5. PortsDistinct' <=> PortsDistinct
    BY <1>1 DEF PortsDistinct
  <1>6. LiveConnRouted'
    BY <1>1, <1>5 DEF LiveConnRouted
  <1>7. ASSUME PortsDistinct
        PROVE  Life'
    <2> USE <1>7 DEF Life
    <2>1. \A d \in Conns : Routed(d)' => Routed(d)
      BY <1>1, <1>2 DEF Routed, Flying
    <2>2. \A d \in Conns : \A p \in Ports : peer'[p] # d
      BY <1>1, ConstantsAssumption
    <2>3. /\ \A d, K : Queued(d, K)' <=> Queued(d, K)
          /\ \A d : Single(d)' <=> Single(d)
      BY <1>1, SameQueue
    <2> QED
      BY <1>1, <2>1, <2>2, <2>3
         DEF Unsent, SynAlone, SynUnanswered, OnlySyn, PeerOpen, PacketsForOpenPeers
  <1>8. ASSUME PortsDistinct
        PROVE  Order'
    <2> USE <1>8 DEF Order
    <2>1. ChanOrder' /\ Numbered' /\ NoStranger'
      BY <1>1, <1>2 DEF ChanOrder, Numbered, NoStranger
    <2>2. FlightOrder'
      BY <1>1, <1>2 DEF FlightOrder, Behind
    <2> QED
      BY <2>1, <2>2
  <1> QED
    BY <1>3, <1>4, <1>5, <1>6, <1>7, <1>8

--------------------------------------------------------------------------------
(* The writer loop hands the first packet to the device.                   *)

LEMMA WriterStep ==
    ASSUME IInv, Writer
    PROVE  IInv'
  <1> USE DEF IInv, Basic
  <1>1. /\ wq # <<>> /\ wq' = Tail(wq)
        /\ UNCHANGED <<pc, port, chan, reads, got, hand, next_source_port, router, conns, writer, reader,
                       canceled, closing, todo, registered, unplugged, devOut, devSent, reset>>
    BY DEF Writer, handlerVars, muxVars, downVars
  <1>2. /\ wq' \in Seq(WqType) /\ Len(wq') = Len(wq) - 1 /\ Len(wq) \in Nat /\ Len(wq) >= 1
        /\ Head(wq) = wq[1] /\ 1 \in 1 .. Len(wq)
        /\ \A i \in 1 .. Len(wq') : i + 1 \in 1 .. Len(wq) /\ wq'[i] = wq[i + 1]
        /\ \A d, K : Queued(d, K)' => Queued(d, K)
        /\ \A d \in Conns : Single(d) => Single(d)'
        /\ \A d \in Conns : Single(d) /\ wq[1].conn = d => ~Queued(d, Kinds)'
    BY <1>1, WqTail
  <1>3. PICK k \in Kinds, c \in Conns, x \in Ports :
           k = wq[1].kind /\ c = wq[1].conn /\ x = wq[1].port /\ x = port[c] /\ x # 0
    <2>1. /\ wq[1].kind \in Kinds /\ wq[1].conn \in Conns /\ wq[1].port \in Ports
          /\ wq[1].port = port[wq[1].conn]
      BY <1>2, QueueTypes DEF PacketsOwn
    <2> QED
      BY <2>1, ConstantsAssumption DEF Ports
  <1>4. /\ unplugged => UNCHANGED <<peer, devSyn>>
        /\ ~unplugged /\ k = "SYN" => peer' = [peer EXCEPT ![x] = c] /\ devSyn' = devSyn \cup {x}
        /\ ~unplugged /\ k = "RST" => peer' = [peer EXCEPT ![x] = None] /\ devSyn' = devSyn
        /\ ~unplugged /\ k \notin {"SYN", "RST"} => peer' = peer /\ devSyn' = devSyn
    BY <1>2, <1>3 DEF Writer, Typed, TypeOK
  <1>5. /\ peer \in [Ports -> Conns \cup {None}] /\ devSyn \subseteq Ports /\ None \notin Conns
    BY ConstantsAssumption DEF Typed, TypeOK
  <1>6. /\ peer' \in [Ports -> Conns \cup {None}] /\ devSyn' \subseteq Ports
        /\ \A p \in Ports : p # x => peer'[p] = peer[p]
        /\ \A p \in Ports : peer'[p] \in {peer[p], c, None}
        /\ peer'[x] = c => peer[x] = c \/ k = "SYN"
    BY <1>3, <1>4, <1>5
  <1>7. Typed'
    <2>1. Len(wq') <= TxCap
      BY <1>2, ConstantsAssumption DEF Typed, TypeOK
    <2> QED
      BY <1>1, <1>2, <1>6, <2>1 DEF Typed, TypeOK, WqType, Kinds
  <1>8. PortHeld' /\ RoutesOwn' /\ CanceledFirst'
    BY <1>1 DEF PortHeld, RoutesOwn, CanceledFirst
  <1>9. PacketsOwn'
    <2>1. \A i \in 1 .. Len(wq') : wq'[i].port = port[wq'[i].conn]
      BY <1>2 DEF PacketsOwn
    <2>2. \A p \in Ports : peer'[p] # None => port[peer'[p]] = p
      BY <1>3, <1>4, <1>5, <1>6 DEF PacketsOwn
    <2> QED
      BY <1>1, <2>1, <2>2 DEF PacketsOwn
  <1>10. PortsDistinct' <=> PortsDistinct
    BY <1>1 DEF PortsDistinct
  <1>11. LiveConnRouted'
    BY <1>1, <1>10 DEF LiveConnRouted
  <1>12. ASSUME PortsDistinct
         PROVE  Life'
    <2> USE <1>12 DEF Life
    <2>1. \A d \in Conns : Routed(d)' <=> Routed(d)
      BY <1>1 DEF Routed, Flying
    <2>2. Queued(c, {k}) /\ Queued(c, Kinds)
      BY <1>2, <1>3 DEF Queued
    <2>3. k = "SYN" => /\ pc[c] \in {"synack", "failed"} /\ ~Routed(c) /\ Single(c)
                       /\ ~Queued(c, Kinds)' /\ \A p \in Ports : peer[p] # c
      <3>1. k = "SYN" => Queued(c, {"SYN"})
        BY <2>2
      <3> QED
        BY <1>2, <1>3, <3>1 DEF SynAlone
    <2>4. pc[c] \notin {"idle", "register", "syn"}
      BY <1>3, <2>2 DEF Unsent
    \* Another connection has another port.
    <2>5. \A d \in Conns : d # c => port[d] # x
      BY <1>3, DistinctPorts
    <2>6. Unsent'
      <3> SUFFICES ASSUME NEW d \in Conns, pc[d] \in {"idle", "register", "syn"}
                   PROVE  ~Queued(d, Kinds)' /\ ~Routed(d)' /\ \A p \in Ports : peer'[p] # d
        BY <1>1 DEF Unsent
      <3> QED
        BY <1>2, <1>5, <1>6, <2>1, <2>4 DEF Unsent
    <2>7. SynAlone'
      <3> SUFFICES ASSUME NEW d \in Conns, Queued(d, {"SYN"})'
                   PROVE  /\ pc[d] \in {"synack", "failed"} /\ ~Routed(d)'
                          /\ Single(d)' /\ \A p \in Ports : peer'[p] # d
        BY <1>1 DEF SynAlone
      <3>1. /\ pc[d] \in {"synack", "failed"} /\ ~Routed(d) /\ Single(d)
            /\ \A p \in Ports : peer[p] # d
        BY <1>2 DEF SynAlone
      <3>2. d # c
        <4>1. Queued(d, Kinds)'
          BY DEF Queued, Kinds
        <4> QED
          BY <1>2, <1>3, <3>1, <4>1
      <3> QED
        BY <1>2, <1>5, <1>6, <2>1, <3>1, <3>2
    <2>8. SynUnanswered'
      <3> SUFFICES ASSUME NEW p \in devSyn'
                   PROVE  /\ peer'[p] # None
                          /\ \A d \in Conns : peer'[p] = d =>
                                pc[d] \in {"synack", "failed"} /\ ~Routed(d)' /\ ~Queued(d, Kinds)'
        BY <1>1 DEF SynUnanswered
      <3>1. CASE p = x /\ k = "SYN" /\ ~unplugged
        <4>1. peer'[p] = c
          BY <1>3, <1>4, <1>5, <3>1
        <4> QED
          BY <1>5, <2>1, <2>3, <3>1, <4>1
      <3>2. CASE ~(p = x /\ k = "SYN" /\ ~unplugged)
        <4>1. p \in devSyn /\ p \in Ports
          BY <1>3, <1>4, <1>5, <1>6, <3>2
        <4>2. /\ peer[p] # None /\ peer[p] \in Conns
              /\ \A d \in Conns : peer[p] = d =>
                    pc[d] \in {"synack", "failed"} /\ ~Routed(d) /\ ~Queued(d, Kinds)
          BY <1>5, <4>1 DEF SynUnanswered
        <4>3. peer[p] # c /\ port[peer[p]] = p
          BY <2>2, <4>1, <4>2 DEF PacketsOwn
        <4>4. p # x
          BY <2>5, <4>2, <4>3
        <4>5. peer'[p] = peer[p]
          BY <1>6, <4>1, <4>4
        <4> QED
          BY <1>2, <2>1, <4>2, <4>5
      <3> QED
        BY <3>1, <3>2
    <2>9. OnlySyn'
      BY <1>1, <1>2 DEF OnlySyn
    <2>10. PeerOpen'
      <3> SUFFICES ASSUME ~canceled, ~unplugged, NEW d \in Conns
                   PROVE  /\ pc[d] \in Up => (peer'[port[d]] = d \/ d \in reset) /\ ~Queued(d, {"RST"})'
                          /\ pc[d] = "synack" /\ Routed(d) => peer'[port[d]] = d \/ d \in reset
        BY <1>1, <2>1 DEF PeerOpen
      <3>0. /\ pc[d] \in Up => (peer[port[d]] = d \/ d \in reset) /\ ~Queued(d, {"RST"})
            /\ pc[d] = "synack" /\ Routed(d) => peer[port[d]] = d \/ d \in reset
        BY DEF PeerOpen
      <3>1. pc[d] = "synack" => ~Queued(d, {"RST"})
        BY DEF OnlySyn, Queued, Kinds
      <3>2. CASE d = c
        <4>1. pc[d] \in Up \/ (pc[d] = "synack" /\ Routed(d)) => k # "RST" /\ k # "SYN"
          BY <2>2, <2>3, <3>0, <3>1, <3>2 DEF Up, Open
        <4> QED
          BY <1>2, <1>4, <3>0, <4>1
      <3>3. CASE d # c
        <4>1. pc[d] \in Up \cup {"synack"} => port[d] \in Ports
          <5>1. port[d] \in 0 .. PortMod - 1
            BY DEF Typed, TypeOK
          <5>2. pc[d] \in Up \cup {"synack"} => port[d] # 0
            BY DEF PortHeld, Up, Open
          <5> QED
            BY <5>1, <5>2, ConstantsAssumption DEF Ports
        <4> QED
          BY <1>2, <1>6, <2>5, <3>0, <3>3, <4>1
      <3> QED
        BY <3>2, <3>3
    <2>11. PacketsForOpenPeers'
      <3> SUFFICES ASSUME ~canceled, ~unplugged, NEW i \in 1 .. Len(wq'), wq'[i].kind # "SYN"
                   PROVE  /\ peer'[wq'[i].port] = wq'[i].conn \/ wq'[i].conn \in reset
                          /\ \A j \in 1 .. i - 1 : wq'[j].conn = wq'[i].conn => wq'[j].kind # "RST"
        BY <1>1 DEF PacketsForOpenPeers
      <3>1. i + 1 \in 1 .. Len(wq) /\ wq'[i] = wq[i + 1]
        BY <1>2
      <3>2. /\ peer[wq[i + 1].port] = wq[i + 1].conn \/ wq[i + 1].conn \in reset
            /\ \A j \in 1 .. (i + 1) - 1 : wq[j].conn = wq[i + 1].conn => wq[j].kind # "RST"
        BY <1>12, <3>1 DEF PacketsForOpenPeers
      <3>3. \A j \in 1 .. i - 1 : wq'[j].conn = wq'[i].conn => wq'[j].kind # "RST"
        <4> SUFFICES ASSUME NEW j \in 1 .. i - 1
                     PROVE  wq'[j].conn = wq'[i].conn => wq'[j].kind # "RST"
          OBVIOUS
        <4>1. j \in 1 .. Len(wq') /\ j + 1 \in 1 .. (i + 1) - 1
          BY <1>2, <3>1
        <4>2. wq'[j] = wq[j + 1]
          BY <1>2, <4>1
        <4> QED
          BY <3>1, <3>2, <4>1, <4>2
      <3>4. peer'[wq[i + 1].port] = wq[i + 1].conn \/ wq[i + 1].conn \in reset
        <4>1. /\ wq[i + 1].conn \in Conns /\ wq[i + 1].port \in Ports
              /\ wq[i + 1].port = port[wq[i + 1].conn]
          BY <3>1, QueueTypes DEF PacketsOwn
        <4>2. CASE wq[i + 1].conn = c
          <5>1. k # "RST"
            <6>1. 1 \in 1 .. (i + 1) - 1
              BY <1>2
            <6> QED
              BY <1>3, <3>2, <4>2, <6>1
          <5>2. k # "SYN"
            <6>1. k = "SYN" => i + 1 = 1
              BY <1>2, <1>3, <2>3, <3>1, <4>2 DEF Single
            <6> QED
              BY <1>2, <6>1
          <5> QED
            BY <1>4, <3>2, <5>1, <5>2
        <4>3. CASE wq[i + 1].conn # c
          BY <1>6, <2>5, <3>2, <4>1, <4>3
        <4> QED
          BY <4>2, <4>3
      <3> QED
        BY <3>1, <3>3, <3>4
    <2> QED
      BY <2>6, <2>7, <2>8, <2>9, <2>10, <2>11
  <1>13. PortsDistinct => Order'
    BY <1>1, OrderKept
  <1> QED
    BY <1>7, <1>8, <1>9, <1>10, <1>11, <1>12, <1>13

--------------------------------------------------------------------------------
(* The device sends a packet.                                              *)

\* Appending to what is on its way to the host.
LEMMA OutAppend ==
    ASSUME Typed, NEW e \in OutType, devOut' = Append(devOut, e), UNCHANGED <<reader, chan>>
    PROVE  /\ devOut' \in Seq(OutType) /\ Len(devOut') = Len(devOut) + 1 /\ Len(devOut) \in Nat
           /\ \A i \in 1 .. Len(devOut) : devOut'[i] = devOut[i]
           /\ devOut'[Len(devOut) + 1] = e
           /\ \A i \in 1 .. Len(devOut') : i \in 1 .. Len(devOut) \/ i = Len(devOut) + 1
           /\ \A d \in Conns : Routed(d)' => Routed(d) \/ (d = e.conn /\ e.kind # "RST")
  <1>1. devOut \in Seq(OutType) /\ Len(devOut) \in Nat
    BY QueueTypes
  <1>2. /\ devOut' \in Seq(OutType) /\ Len(devOut') = Len(devOut) + 1
        /\ \A i \in 1 .. Len(devOut) : devOut'[i] = devOut[i]
        /\ devOut'[Len(devOut) + 1] = e
    BY <1>1
  <1>3. \A i \in 1 .. Len(devOut') : i \in 1 .. Len(devOut) \/ i = Len(devOut) + 1
    BY <1>1, <1>2
  <1>4. \A d \in Conns : Routed(d)' => Routed(d) \/ (d = e.conn /\ e.kind # "RST")
    BY <1>2, <1>3 DEF Routed, Flying
  <1> QED
    BY <1>1, <1>2, <1>3, <1>4

\* A packet of connection c is put behind the others; it is an RST, or its number is higher
\* than all that c has seen, or the answer to the SYN of c, of which nothing else is there.
LEMMA DeviceSends ==
    ASSUME Typed, Order, NEW e \in OutType, NEW c \in Conns, devOut' = Append(devOut, e),
           e.conn = c, devSent' \in Nat, devSent <= devSent', e.n <= devSent',
           e.kind # "RST" => \/ ~Routed(c) /\ e.n = 0
                             \/ e.n > devSent,
           UNCHANGED <<reader, chan, got, hand>>
    PROVE  Order'
  <1> USE DEF Order
  <1>1. /\ devOut' \in Seq(OutType) /\ Len(devOut') = Len(devOut) + 1 /\ Len(devOut) \in Nat
        /\ \A i \in 1 .. Len(devOut) : devOut'[i] = devOut[i]
        /\ devOut'[Len(devOut) + 1] = e
        /\ \A i \in 1 .. Len(devOut') : i \in 1 .. Len(devOut) \/ i = Len(devOut) + 1
    BY OutAppend
  <1>2. c # None
    BY ConstantsAssumption
  <1>3. /\ \A d \in Conns : /\ got[d] \in Nat /\ hand[d] \in Nat
                            /\ \A i \in 1 .. Len(chan[d]) : chan[d][i].n \in Nat
        /\ \A i \in 1 .. Len(devOut) : devOut[i].n \in Nat /\ devOut[i].conn \in Conns \cup {None}
        /\ reader.n \in Nat /\ reader.conn \in Conns \cup {None} /\ devSent \in Nat /\ e.n \in Nat
    <2>1. \A x \in 0 .. MaxData : x \in Nat
      BY ConstantsAssumption
    <2>2. \A d \in Conns : got[d] \in 0 .. MaxData /\ hand[d] \in 0 .. MaxData
      BY DEF Typed, TypeOK
    <2>3. devSent \in 0 .. MaxData
      BY DEF Typed, TypeOK
    <2>4. reader.n \in 0 .. MaxData /\ reader.conn \in Conns \cup {None}
      BY DEF Typed, ReaderType
    <2>5. e.n \in 0 .. MaxData
      BY DEF OutType
    <2> QED
      BY <2>1, <2>2, <2>3, <2>4, <2>5, QueueTypes
  <1>4. \A d \in Conns : \A n \in Nat : Behind(d, n)' <=> Behind(d, n)
    BY DEF Behind
  <1>5. ChanOrder' /\ NoStranger'
    BY <1>1, <1>2 DEF ChanOrder, NoStranger
  <1>6. Numbered'
    BY <1>1, <1>3 DEF Numbered
  \* The new packet comes last.
  <1>7. ASSUME e.kind # "RST"
        PROVE  /\ Behind(c, e.n)
               /\ reader.st = "blocked" /\ reader.conn = c => reader.n < e.n
               /\ \A i \in 1 .. Len(devOut) :
                     devOut[i].conn = c /\ devOut[i].kind # "RST" => devOut[i].n < e.n
    <2>1. CASE ~Routed(c) /\ e.n = 0
      <3>1. Len(chan[c]) = 0
        BY <2>1, QueueTypes DEF Routed
      <3> QED
        BY <2>1, <3>1 DEF Behind, Routed, Flying
    <2>2. CASE e.n > devSent
      <3>1. /\ got[c] <= devSent /\ hand[c] <= devSent /\ reader.n <= devSent
            /\ \A i \in 1 .. Len(chan[c]) : chan[c][i].n <= devSent
            /\ \A i \in 1 .. Len(devOut) : devOut[i].n <= devSent
        BY DEF Numbered
      <3>2. /\ got[c] < e.n /\ hand[c] < e.n /\ reader.n < e.n
            /\ \A i \in 1 .. Len(chan[c]) : chan[c][i].n < e.n
            /\ \A i \in 1 .. Len(devOut) : devOut[i].n < e.n
        <4> HIDE DEF Order
        <4>1. devSent \in Nat /\ e.n \in Nat
          BY <1>3
        <4>2. \A x \in Nat : x <= devSent => x < e.n
          BY <2>2, <4>1
        <4>3. /\ got[c] \in Nat /\ hand[c] \in Nat /\ reader.n \in Nat
              /\ \A i \in 1 .. Len(chan[c]) : chan[c][i].n \in Nat
              /\ \A i \in 1 .. Len(devOut) : devOut[i].n \in Nat
          BY <1>3
        <4> QED
          BY <3>1, <4>2, <4>3, Zenon
      <3> QED
        BY <3>2 DEF Behind
    <2> QED
      BY <1>7, <2>1, <2>2
  <1>8. FlightOrder'
    <2>1. reader.st = "blocked" /\ reader.conn # None => Behind(reader.conn, reader.n)'
      BY <1>3, <1>4 DEF FlightOrder
    <2>2. ASSUME NEW i \in 1 .. Len(devOut'), devOut'[i].conn # None, devOut'[i].kind # "RST"
          PROVE  /\ \A d \in Conns : \A n \in Nat :
                       d = devOut'[i].conn /\ n = devOut'[i].n => Behind(d, n)'
                 /\ reader.st = "blocked" /\ reader.conn = devOut'[i].conn => reader.n < devOut'[i].n
      <3>1. CASE i \in 1 .. Len(devOut)
        BY <1>1, <1>3, <1>4, <2>2, <3>1 DEF FlightOrder
      <3>2. CASE i = Len(devOut) + 1
        BY <1>1, <1>3, <1>4, <1>7, <2>2, <3>2
      <3> QED
        BY <1>1, <3>1, <3>2
    <2>3. ASSUME NEW i \in 1 .. Len(devOut'), NEW j \in 1 .. Len(devOut'), i < j,
                 devOut'[i].conn = devOut'[j].conn, devOut'[i].conn # None,
                 devOut'[i].kind # "RST", devOut'[j].kind # "RST"
          PROVE  devOut'[i].n < devOut'[j].n
      <3>1. i \in 1 .. Len(devOut)
        BY <1>1, <2>3
      <3>2. CASE j \in 1 .. Len(devOut)
        BY <1>1, <2>3, <3>1, <3>2 DEF FlightOrder
      <3>3. CASE j = Len(devOut) + 1
        BY <1>1, <1>7, <2>3, <3>1, <3>3
      <3> QED
        BY <1>1, <3>2, <3>3
    <2>4. \A i \in 1 .. Len(devOut') : devOut'[i].conn # None /\ devOut'[i].kind # "RST" =>
             devOut'[i].conn \in Conns /\ devOut'[i].n \in Nat
      BY <1>1, <1>3
    <2> QED
      BY <2>1, <2>2, <2>3, <2>4 DEF FlightOrder
  <1> QED
    BY <1>5, <1>6, <1>8

\* The device answers a SYN: by a SYNACK, or it refuses and forgets the connection.
LEMMA DevAnswerStep ==
    ASSUME IInv, NEW p \in Ports, DevAnswer(p)
    PROVE  IInv'
  <1> USE DEF IInv, Basic
  <1>1. /\ ~unplugged /\ p \in devSyn /\ devSyn' = devSyn \ {p}
        /\ UNCHANGED <<pc, port, chan, reads, got, hand, next_source_port, router, conns, wq, writer,
                       reader, canceled, closing, todo, registered, unplugged, devSent, reset>>
    BY DEF DevAnswer, handlerVars, muxVars, loopVars, downVars
  <1>2. PICK k \in {"SYNACK", "RST"} :
           /\ devOut' = Append(devOut, Packet(k, p, peer[p], 0))
           /\ k = "SYNACK" => peer' = peer
           /\ k = "RST" => peer' = [peer EXCEPT ![p] = None]
    BY DEF DevAnswer, DevSend
  <1>3. /\ peer \in [Ports -> Conns \cup {None}] /\ devSyn \subseteq Ports /\ None \notin Conns
    BY ConstantsAssumption DEF Typed, TypeOK
  <1>4. PICK e \in OutType : /\ devOut' = Append(devOut, e)
                             /\ e.kind = k /\ e.port = p /\ e.conn = peer[p] /\ e.n = 0
    <2>1. /\ Packet(k, p, peer[p], 0) \in OutType
          /\ Packet(k, p, peer[p], 0).kind = k /\ Packet(k, p, peer[p], 0).port = p
          /\ Packet(k, p, peer[p], 0).conn = peer[p] /\ Packet(k, p, peer[p], 0).n = 0
      BY <1>3, ConstantsAssumption DEF Packet, OutType
    <2> QED
      BY <1>2, <2>1
  <1>5. /\ peer' \in [Ports -> Conns \cup {None}] /\ \A x \in Ports : x # p => peer'[x] = peer[x]
        /\ \A x \in Ports : peer'[x] \in {peer[x], None}
    BY <1>2, <1>3
  <1>6. /\ devOut' \in Seq(OutType) /\ Len(devOut') = Len(devOut) + 1 /\ Len(devOut) \in Nat
        /\ \A i \in 1 .. Len(devOut) : devOut'[i] = devOut[i]
        /\ devOut'[Len(devOut) + 1] = e
        /\ \A i \in 1 .. Len(devOut') : i \in 1 .. Len(devOut) \/ i = Len(devOut) + 1
        /\ \A d \in Conns : Routed(d)' => Routed(d) \/ (d = e.conn /\ e.kind # "RST")
    BY <1>1, <1>4, OutAppend
  <1>7. Typed'
    BY <1>1, <1>3, <1>5, <1>6 DEF Typed, TypeOK
  <1>8. PortHeld' /\ RoutesOwn' /\ CanceledFirst'
    BY <1>1 DEF PortHeld, RoutesOwn, CanceledFirst
  <1>9. PacketsOwn'
    <2>1. \A x \in Ports : peer'[x] # None => port[peer'[x]] = x
      BY <1>5 DEF PacketsOwn
    <2>2. \A i \in 1 .. Len(devOut') : devOut'[i].conn # None => devOut'[i].port = port[devOut'[i].conn]
      BY <1>4, <1>6 DEF PacketsOwn
    <2> QED
      BY <1>1, <2>1, <2>2 DEF PacketsOwn
  <1>10. PortsDistinct' <=> PortsDistinct
    BY <1>1 DEF PortsDistinct
  <1>11. LiveConnRouted'
    BY <1>1, <1>10 DEF LiveConnRouted
  <1>12. ASSUME PortsDistinct
         PROVE  Life' /\ Order'
    <2> USE <1>12 DEF Life
    <2>1. PICK c \in Conns : /\ peer[p] = c /\ pc[c] \in {"synack", "failed"}
                             /\ ~Routed(c) /\ ~Queued(c, Kinds) /\ port[c] = p
      <3>1. peer[p] \in Conns /\ port[peer[p]] = p
        BY <1>1, <1>3 DEF SynUnanswered, PacketsOwn
      <3> QED
        BY <1>1, <3>1 DEF SynUnanswered
    <2>2. /\ \A d, K : Queued(d, K)' <=> Queued(d, K)
          /\ \A d : Single(d)' <=> Single(d)
      BY <1>1, SameQueue
    <2>3. \A d \in Conns : d # c => (Routed(d)' => Routed(d))
      BY <1>4, <1>6, <2>1
    <2>4. ~Queued(c, {"SYN"}) /\ ~Queued(c, {"RST"})
      BY <2>1 DEF Queued, Kinds
    <2>5. \A d \in Conns : d # c => port[d] # p
      BY <2>1, DistinctPorts, ConstantsAssumption DEF Ports
    <2>6. Unsent'
      BY <1>1, <1>3, <1>5, <2>1, <2>2, <2>3 DEF Unsent
    <2>7. SynAlone'
      BY <1>1, <1>3, <1>5, <2>1, <2>2, <2>3, <2>4 DEF SynAlone
    <2>8. SynUnanswered'
      <3> SUFFICES ASSUME NEW x \in devSyn, x # p
                   PROVE  /\ peer[x] # None
                          /\ \A d \in Conns : peer[x] = d =>
                                pc[d] \in {"synack", "failed"} /\ ~Routed(d)' /\ ~Queued(d, Kinds)'
        BY <1>1, <1>3, <1>5 DEF SynUnanswered
      <3>1. \A d \in Conns : peer[x] = d => port[d] = x /\ d # c
        BY <1>3, <2>1 DEF PacketsOwn
      <3> QED
        BY <2>2, <2>3, <3>1 DEF SynUnanswered
    <2>9. OnlySyn'
      BY <1>1, <2>2 DEF OnlySyn
    <2>10. PeerOpen'
      <3> SUFFICES ASSUME ~canceled, ~unplugged, NEW d \in Conns
                   PROVE  /\ pc[d] \in Up => (peer'[port[d]] = d \/ d \in reset) /\ ~Queued(d, {"RST"})
                          /\ pc[d] = "synack" /\ Routed(d)' => peer'[port[d]] = d \/ d \in reset
        BY <1>1, <2>2 DEF PeerOpen
      <3>0. /\ pc[d] \in Up => (peer[port[d]] = d \/ d \in reset) /\ ~Queued(d, {"RST"})
            /\ pc[d] = "synack" /\ Routed(d) => peer[port[d]] = d \/ d \in reset
        BY DEF PeerOpen
      <3>1. CASE d = c
        <4>1. pc[d] \notin Up
          BY <2>1, <3>1 DEF Up, Open
        <4>2. Routed(d)' => k # "RST" /\ peer' = peer
          BY <1>2, <1>4, <1>6, <2>1, <3>1
        <4> QED
          BY <2>1, <3>1, <4>1, <4>2
      <3>2. CASE d # c
        <4>1. pc[d] \in Up \cup {"synack"} => port[d] \in Ports
          <5>1. port[d] \in 0 .. PortMod - 1
            BY DEF Typed, TypeOK
          <5>2. pc[d] \in Up \cup {"synack"} => port[d] # 0
            BY DEF PortHeld, Up, Open
          <5> QED
            BY <5>1, <5>2, ConstantsAssumption DEF Ports
        <4> QED
          BY <1>5, <2>3, <2>5, <3>0, <3>2, <4>1
      <3> QED
        BY <3>1, <3>2
    <2>11. PacketsForOpenPeers'
      <3>1. \A i \in 1 .. Len(wq) : /\ wq[i].conn # c /\ wq[i].conn \in Conns
                                    /\ wq[i].port \in Ports /\ wq[i].port = port[wq[i].conn]
        BY <2>1, QueueTypes DEF Queued, PacketsOwn
      <3>2. \A i \in 1 .. Len(wq) : peer'[wq[i].port] = peer[wq[i].port]
        BY <1>5, <2>5, <3>1
      <3> QED
        BY <1>1, <1>10, <3>2 DEF PacketsForOpenPeers
    <2>12. Order'
      <3>1. devSent \in Nat
        BY ConstantsAssumption DEF Typed, TypeOK
      <3> QED
        BY <1>1, <1>4, <2>1, <3>1, DeviceSends
    <2> QED
      BY <2>6, <2>7, <2>8, <2>9, <2>10, <2>11, <2>12
  <1> QED
    BY <1>7, <1>8, <1>9, <1>10, <1>11, <1>12

\* The device sends data on a connection it has open.
LEMMA DevDataStep ==
    ASSUME IInv, NEW p \in Ports, DevData(p)
    PROVE  IInv'
  <1> USE DEF IInv, Basic
  <1>1. /\ ~unplugged /\ p \notin devSyn /\ peer[p] # None /\ devSent < MaxData
        /\ devSent' = devSent + 1
        /\ devOut' = Append(devOut, Packet("DATA", p, peer[p], devSent + 1))
        /\ UNCHANGED <<pc, port, chan, reads, got, hand, next_source_port, router, conns, wq, writer,
                       reader, canceled, closing, todo, registered, unplugged, peer, devSyn, reset>>
    BY DEF DevData, DevSend, handlerVars, muxVars, loopVars, downVars
  <1>2. /\ peer \in [Ports -> Conns \cup {None}] /\ devSent \in Nat /\ devSent + 1 \in 0 .. MaxData
    BY <1>1, ConstantsAssumption DEF Typed, TypeOK
  <1>3. PICK c \in Conns : peer[p] = c /\ port[c] = p
    BY <1>1, <1>2 DEF PacketsOwn
  <1>4. PICK e \in OutType : /\ devOut' = Append(devOut, e)
                             /\ e.kind = "DATA" /\ e.port = p /\ e.conn = c /\ e.n = devSent + 1
    <2> DEFINE x == Packet("DATA", p, peer[p], devSent + 1)
    <2>1. x \in OutType /\ x.kind = "DATA" /\ x.port = p /\ x.conn = c /\ x.n = devSent + 1
      BY <1>2, <1>3 DEF Packet, OutType
    <2> QED
      BY <1>1, <2>1
  <1>5. /\ devOut' \in Seq(OutType) /\ Len(devOut') = Len(devOut) + 1 /\ Len(devOut) \in Nat
        /\ \A i \in 1 .. Len(devOut) : devOut'[i] = devOut[i]
        /\ devOut'[Len(devOut) + 1] = e
        /\ \A i \in 1 .. Len(devOut') : i \in 1 .. Len(devOut) \/ i = Len(devOut) + 1
        /\ \A d \in Conns : Routed(d)' => Routed(d) \/ (d = e.conn /\ e.kind # "RST")
    BY <1>1, <1>4, OutAppend
  <1>6. Typed'
    BY <1>1, <1>2, <1>5 DEF Typed, TypeOK
  <1>7. PortHeld' /\ RoutesOwn' /\ CanceledFirst'
    BY <1>1 DEF PortHeld, RoutesOwn, CanceledFirst
  <1>8. PacketsOwn'
    <2>1. \A i \in 1 .. Len(devOut') : devOut'[i].conn # None => devOut'[i].port = port[devOut'[i].conn]
      BY <1>3, <1>4, <1>5 DEF PacketsOwn
    <2> QED
      BY <1>1, <2>1 DEF PacketsOwn
  <1>9. PortsDistinct' <=> PortsDistinct
    BY <1>1 DEF PortsDistinct
  <1>10. LiveConnRouted'
    BY <1>1, <1>9 DEF LiveConnRouted
  <1>11. ASSUME PortsDistinct
         PROVE  Life'
    <2> USE <1>11 DEF Life
    <2>1. /\ \A d, K : Queued(d, K)' <=> Queued(d, K)
          /\ \A d : Single(d)' <=> Single(d)
      BY <1>1, SameQueue
    <2>2. \A d \in Conns : d # c => (Routed(d)' => Routed(d))
      BY <1>4, <1>5
    \* The SYN of c has been answered.
    <2>3. pc[c] \notin {"idle", "register", "syn"} /\ ~Queued(c, {"SYN"})
      BY <1>3 DEF Unsent, SynAlone
    <2>4. \A x \in devSyn : peer[x] # c
      BY <1>1, <1>3, ConstantsAssumption DEF PacketsOwn, Typed, TypeOK
    <2>5. Unsent' /\ SynAlone' /\ SynUnanswered' /\ OnlySyn'
      BY <1>1, <2>1, <2>2, <2>3, <2>4 DEF Unsent, SynAlone, SynUnanswered, OnlySyn
    <2>6. PeerOpen'
      BY <1>1, <1>3, <2>1, <2>2 DEF PeerOpen
    <2>7. PacketsForOpenPeers'
      BY <1>1, <1>9 DEF PacketsForOpenPeers
    <2> QED
      BY <2>5, <2>6, <2>7
  <1>12. PortsDistinct => Order'
    BY <1>1, <1>2, <1>4, DeviceSends
  <1> QED
    BY <1>6, <1>7, <1>8, <1>9, <1>10, <1>11, <1>12

\* The device resets a connection it has open: its RST is under way, and what the host still
\* sends on it is excused from now on.
LEMMA DevResetStep ==
    ASSUME IInv, NEW p \in Ports, DevReset(p)
    PROVE  IInv'
  <1> USE DEF IInv, Basic
  <1>1. /\ ~unplugged /\ p \notin devSyn /\ peer[p] # None
        /\ devOut' = Append(devOut, Packet("RST", p, peer[p], 0))
        /\ peer' = [peer EXCEPT ![p] = None] /\ reset' = reset \cup {peer[p]}
        /\ UNCHANGED <<pc, port, chan, reads, got, hand, next_source_port, router, conns, wq, writer,
                       reader, canceled, closing, todo, registered, unplugged, devSyn, devSent>>
    BY DEF DevReset, DevSend, handlerVars, muxVars, loopVars, downVars
  <1>2. /\ peer \in [Ports -> Conns \cup {None}] /\ devSyn \subseteq Ports /\ None \notin Conns
        /\ reset \subseteq Conns
    BY ConstantsAssumption DEF Typed, TypeOK
  <1>3. PICK c \in Conns : peer[p] = c /\ port[c] = p
    BY <1>1, <1>2 DEF PacketsOwn
  <1>4. PICK e \in OutType : /\ devOut' = Append(devOut, e)
                             /\ e.kind = "RST" /\ e.port = p /\ e.conn = c /\ e.n = 0
    <2> DEFINE x == Packet("RST", p, peer[p], 0)
    <2>1. x \in OutType /\ x.kind = "RST" /\ x.port = p /\ x.conn = c /\ x.n = 0
      BY <1>3, ConstantsAssumption DEF Packet, OutType
    <2> QED
      BY <1>1, <2>1
  <1>5. /\ peer' \in [Ports -> Conns \cup {None}] /\ reset' \subseteq Conns
        /\ \A x \in Ports : x # p => peer'[x] = peer[x]
        /\ \A x \in Ports : peer'[x] \in {peer[x], None}
    BY <1>1, <1>2, <1>3
  <1>6. /\ devOut' \in Seq(OutType) /\ Len(devOut') = Len(devOut) + 1 /\ Len(devOut) \in Nat
        /\ \A i \in 1 .. Len(devOut) : devOut'[i] = devOut[i]
        /\ devOut'[Len(devOut) + 1] = e
        /\ \A i \in 1 .. Len(devOut') : i \in 1 .. Len(devOut) \/ i = Len(devOut) + 1
        /\ \A d \in Conns : Routed(d)' => Routed(d)
    BY <1>1, <1>4, OutAppend
  <1>7. Typed'
    BY <1>1, <1>5, <1>6 DEF Typed, TypeOK
  <1>8. PortHeld' /\ RoutesOwn' /\ CanceledFirst'
    BY <1>1 DEF PortHeld, RoutesOwn, CanceledFirst
  <1>9. PacketsOwn'
    <2>1. \A x \in Ports : peer'[x] # None => port[peer'[x]] = x
      BY <1>5 DEF PacketsOwn
    <2>2. \A i \in 1 .. Len(devOut') : devOut'[i].conn # None => devOut'[i].port = port[devOut'[i].conn]
      BY <1>3, <1>4, <1>6 DEF PacketsOwn
    <2> QED
      BY <1>1, <2>1, <2>2 DEF PacketsOwn
  <1>10. PortsDistinct' <=> PortsDistinct
    BY <1>1 DEF PortsDistinct
  <1>11. LiveConnRouted'
    BY <1>1, <1>10 DEF LiveConnRouted
  <1>12. ASSUME PortsDistinct
         PROVE  Life'
    <2> USE <1>12 DEF Life
    <2>1. /\ \A d, K : Queued(d, K)' <=> Queued(d, K)
          /\ \A d : Single(d)' <=> Single(d)
      BY <1>1, SameQueue
    <2>2. \A d \in Conns : \A x \in Ports : peer'[x] = d => peer[x] = d
      BY <1>2, <1>5
    <2>3. Unsent' /\ SynAlone' /\ OnlySyn'
      BY <1>1, <1>6, <2>1, <2>2 DEF Unsent, SynAlone, OnlySyn
    <2>4. SynUnanswered'
      BY <1>1, <1>2, <1>5, <1>6, <2>1 DEF SynUnanswered
    \* Whoever had its peer open has it still, or has just been reset.
    <2>5. \A x \in Ports : \A d \in Conns :
             peer[x] = d \/ d \in reset => peer'[x] = d \/ d \in reset'
      BY <1>1, <1>3, <1>5
    <2>6. PeerOpen'
      <3> SUFFICES ASSUME ~canceled, ~unplugged, NEW d \in Conns
                   PROVE  /\ pc[d] \in Up => (peer'[port[d]] = d \/ d \in reset') /\ ~Queued(d, {"RST"})
                          /\ pc[d] = "synack" /\ Routed(d)' => peer'[port[d]] = d \/ d \in reset'
        BY <1>1, <2>1 DEF PeerOpen
      <3>1. /\ pc[d] \in Up => (peer[port[d]] = d \/ d \in reset) /\ ~Queued(d, {"RST"})
            /\ pc[d] = "synack" /\ Routed(d) => peer[port[d]] = d \/ d \in reset
        BY DEF PeerOpen
      <3>2. pc[d] \in Up \cup {"synack"} => port[d] \in Ports
        <4>1. port[d] \in 0 .. PortMod - 1
          BY DEF Typed, TypeOK
        <4>2. pc[d] \in Up \cup {"synack"} => port[d] # 0
          BY DEF PortHeld, Up, Open
        <4> QED
          BY <4>1, <4>2, ConstantsAssumption DEF Ports
      <3> QED
        BY <1>6, <2>5, <3>1, <3>2
    <2>7. PacketsForOpenPeers'
      <3>1. \A i \in 1 .. Len(wq) : wq[i].conn \in Conns /\ wq[i].port \in Ports
        BY QueueTypes
      <3> QED
        BY <1>1, <1>10, <2>5, <3>1 DEF PacketsForOpenPeers
    <2> QED
      BY <2>3, <2>4, <2>6, <2>7
  <1>13. PortsDistinct => Order'
    <2>1. devSent \in Nat
      BY ConstantsAssumption DEF Typed, TypeOK
    <2> QED
      BY <1>1, <1>4, <2>1, DeviceSends
  <1> QED
    BY <1>7, <1>8, <1>9, <1>10, <1>11, <1>12, <1>13

--------------------------------------------------------------------------------
(* The reader loop routes a packet.                                        *)

\* What the device has under way is what it was, from some place on.
Shifted ==
    /\ devOut' \in Seq(OutType) /\ Len(devOut') \in Nat
    /\ \E s \in Nat : \A i \in 1 .. Len(devOut') :
          i + s \in 1 .. Len(devOut) /\ devOut'[i] = devOut[i + s]

\* The reader has a packet that is next for its connection.
InTurn(pkt) ==
    /\ pkt.conn \in Conns /\ Flying(pkt.conn) /\ Behind(pkt.conn, pkt.n) /\ pkt.n <= devSent
    /\ \A i \in 1 .. Len(devOut') :
          devOut'[i].conn = pkt.conn /\ devOut'[i].kind # "RST" => pkt.n < devOut'[i].n

\* Dropping the first packets keeps the order of the others.
LEMMA ShiftedOrder ==
    ASSUME Typed, Order, Shifted, UNCHANGED <<got, hand, devSent, chan, reader>>
    PROVE  Order'
  <1> USE DEF Order
  <1>1. PICK s \in Nat : \A i \in 1 .. Len(devOut') :
                            i + s \in 1 .. Len(devOut) /\ devOut'[i] = devOut[i + s]
    BY DEF Shifted
  <1>2. Len(devOut') \in Nat
    BY DEF Shifted
  <1>3. \A i, j \in 1 .. Len(devOut') : i < j => i + s < j + s
    BY <1>2
  <1>4. ChanOrder' /\ Numbered' /\ NoStranger'
    <2>1. ChanOrder'
      BY DEF ChanOrder
    <2>2. NoStranger'
      BY <1>1 DEF NoStranger
    <2>3. \A i \in 1 .. Len(devOut') : devOut'[i].n <= devSent'
      BY <1>1 DEF Numbered
    <2>4. Numbered'
      BY <2>3 DEF Numbered
    <2> QED
      BY <2>1, <2>2, <2>4
  <1>5. \A d, n : Behind(d, n)' <=> Behind(d, n)
    BY DEF Behind
  <1>6. FlightOrder'
    <2>1. reader.st = "blocked" /\ reader.conn # None => Behind(reader.conn, reader.n)'
      BY <1>5 DEF FlightOrder
    <2>2. \A i \in 1 .. Len(devOut') : devOut'[i].conn # None /\ devOut'[i].kind # "RST" =>
             /\ Behind(devOut[i + s].conn, devOut[i + s].n)
             /\ reader.st = "blocked" /\ reader.conn = devOut'[i].conn => reader.n < devOut'[i].n
      BY <1>1 DEF FlightOrder
    <2>3. \A i, j \in 1 .. Len(devOut') :
             /\ i < j /\ devOut'[i].conn = devOut'[j].conn /\ devOut'[i].conn # None
             /\ devOut'[i].kind # "RST" /\ devOut'[j].kind # "RST"
             => devOut'[i].n < devOut'[j].n
      <3> TAKE i, j \in 1 .. Len(devOut')
      <3> HAVE /\ i < j /\ devOut'[i].conn = devOut'[j].conn /\ devOut'[i].conn # None
               /\ devOut'[i].kind # "RST" /\ devOut'[j].kind # "RST"
      <3>1. /\ i + s \in 1 .. Len(devOut) /\ devOut'[i] = devOut[i + s]
            /\ j + s \in 1 .. Len(devOut) /\ devOut'[j] = devOut[j + s] /\ i + s < j + s
        BY <1>1, <1>3
      <3> QED
        BY <3>1 DEF FlightOrder
    <2>4. \A i \in 1 .. Len(devOut') : devOut'[i].conn # None /\ devOut'[i].kind # "RST" =>
             \A d, n : d = devOut'[i].conn /\ n = devOut'[i].n => Behind(d, n)'
      BY <1>1, <1>5, <2>2
    <2> QED
      BY <2>1, <2>2, <2>3, <2>4 DEF FlightOrder
  <1> QED
    BY <1>4, <1>6

\* A packet that is in turn is dropped, delivered or kept waiting: the others keep their order.
LEMMA RoutedOrder ==
    ASSUME Typed, Order, Shifted, UNCHANGED <<got, hand, devSent>>, NEW pkt \in ReaderType, InTurn(pkt),
           \/ UNCHANGED chan
           \/ /\ chan' = [chan EXCEPT ![pkt.conn] = Append(@, [conn |-> pkt.conn, n |-> pkt.n])]
              /\ reader'.st # "blocked"
           ,
           reader'.st = "blocked" => reader'.conn = pkt.conn,
           reader'.n \in {0, pkt.n}, reader'.st = "blocked" => reader'.n = pkt.n
    PROVE  Order'
  <1> USE DEF Order
  <1>1. PICK s \in Nat : \A i \in 1 .. Len(devOut') :
                            i + s \in 1 .. Len(devOut) /\ devOut'[i] = devOut[i + s]
    BY DEF Shifted
  <1>2. Len(devOut') \in Nat
    BY DEF Shifted
  <1>3. \A i, j \in 1 .. Len(devOut') : i < j => i + s < j + s
    BY <1>2
  <1>4. PICK c \in Conns : c = pkt.conn
    BY DEF InTurn
  <1>5. PICK m \in Nat : m = pkt.n
    BY ConstantsAssumption DEF ReaderType
  <1>6. /\ Flying(c) /\ Behind(c, m) /\ m <= devSent /\ c # None
        /\ \A i \in 1 .. Len(devOut') :
              devOut'[i].conn = c /\ devOut'[i].kind # "RST" => m < devOut'[i].n
    BY <1>4, <1>5, ConstantsAssumption DEF InTurn
  <1>7. /\ \A d \in Conns : /\ Len(chan[d]) \in Nat /\ got[d] \in Nat /\ hand[d] \in Nat
                            /\ \A i \in 1 .. Len(chan[d]) : chan[d][i].n \in Nat
        /\ \A i \in 1 .. Len(devOut) : devOut[i].n \in Nat /\ devOut[i].conn \in Conns \cup {None}
        /\ devSent \in Nat
    <2>1. \A x \in 0 .. MaxData : x \in Nat
      BY ConstantsAssumption
    <2>2. \A d \in Conns : got[d] \in 0 .. MaxData /\ hand[d] \in 0 .. MaxData
      BY DEF Typed, TypeOK
    <2>3. devSent \in 0 .. MaxData
      BY DEF Typed, TypeOK
    <2> QED
      BY <2>1, <2>2, <2>3, QueueTypes
  \* The channels: c may have one packet more, and it is the last.
  <1>8. /\ \A d \in Conns : d # c => chan'[d] = chan[d]
        /\ \/ chan'[c] = chan[c]
           \/ /\ Len(chan'[c]) = Len(chan[c]) + 1 /\ reader'.st # "blocked"
              /\ \A i \in 1 .. Len(chan[c]) : chan'[c][i] = chan[c][i]
              /\ chan'[c][Len(chan[c]) + 1].conn = c /\ chan'[c][Len(chan[c]) + 1].n = m
    <2>1. CASE UNCHANGED chan
      BY <2>1
    <2>2. CASE /\ chan' = [chan EXCEPT ![pkt.conn] = Append(@, [conn |-> pkt.conn, n |-> pkt.n])]
               /\ reader'.st # "blocked"
      <3> DEFINE x == [conn |-> pkt.conn, n |-> pkt.n]
      <3>1. x \in ChanType /\ x.conn = c /\ x.n = m
        BY <1>4, <1>5 DEF ReaderType, ChanType
      <3>2. chan[c] \in Seq(ChanType) /\ DOMAIN chan = Conns
        BY QueueTypes DEF Typed, TypeOK
      <3>3. chan' = [chan EXCEPT ![c] = Append(chan[c], x)]
        BY <1>4, <2>2, <3>2
      <3> HIDE DEF x
      <3>4. chan'[c] = Append(chan[c], x) /\ \A d \in Conns : d # c => chan'[d] = chan[d]
        BY <3>2, <3>3
      <3>5. /\ Len(chan'[c]) = Len(chan[c]) + 1
            /\ \A i \in 1 .. Len(chan[c]) : chan'[c][i] = chan[c][i]
            /\ chan'[c][Len(chan[c]) + 1] = x
        BY <3>1, <3>2, <3>4
      <3> QED
        BY <2>2, <3>1, <3>4, <3>5
    <2> QED
      BY <2>1, <2>2
  <1>9. \A i \in 1 .. Len(chan'[c]) :
           i \in 1 .. Len(chan[c]) \/ (i = Len(chan[c]) + 1 /\ Len(chan'[c]) = Len(chan[c]) + 1)
    BY <1>7, <1>8
  <1>10. ASSUME NEW d \in Conns, NEW n \in Nat, Behind(d, n), d = c /\ chan'[c] # chan[c] => m < n
         PROVE  Behind(d, n)'
    BY <1>8, <1>9, <1>10 DEF Behind
  <1>11. ChanOrder'
    <2> SUFFICES ASSUME NEW d \in Conns
                 PROVE  /\ \A i \in 1 .. Len(chan'[d]) :
                              /\ chan'[d][i].conn = d
                              /\ chan'[d][i].n > 0 => chan'[d][i].n > got[d] /\ chan'[d][i].n > hand[d]
                        /\ \A i, j \in 1 .. Len(chan'[d]) : i < j => chan'[d][i].n < chan'[d][j].n
                        /\ hand[d] > 0 => hand[d] > got[d]
      BY DEF ChanOrder
    <2>1. CASE chan'[d] = chan[d]
      BY <2>1 DEF ChanOrder
    <2>2. CASE chan'[d] # chan[d]
      <3>1. /\ d = c /\ Len(chan'[c]) = Len(chan[c]) + 1 /\ Len(chan[c]) \in Nat
            /\ \A i \in 1 .. Len(chan[c]) : chan'[c][i] = chan[c][i]
            /\ chan'[c][Len(chan[c]) + 1].conn = c /\ chan'[c][Len(chan[c]) + 1].n = m
        BY <1>7, <1>8, <2>2
      <3>2. /\ \A i \in 1 .. Len(chan[c]) :
                  /\ chan[c][i].conn = c
                  /\ chan[c][i].n > 0 => chan[c][i].n > got[c] /\ chan[c][i].n > hand[c]
            /\ \A i, j \in 1 .. Len(chan[c]) : i < j => chan[c][i].n < chan[c][j].n
            /\ hand[c] > 0 => hand[c] > got[c]
        BY DEF ChanOrder
      <3>3. /\ m > 0 => m > got[c] /\ m > hand[c]
            /\ \A i \in 1 .. Len(chan[c]) : chan[c][i].n < m
        BY <1>6 DEF Behind
      <3>4. \A i, j \in 1 .. Len(chan'[c]) : i < j => chan'[c][i].n < chan'[c][j].n
        <4> SUFFICES ASSUME NEW i \in 1 .. Len(chan'[c]), NEW j \in 1 .. Len(chan'[c]), i < j
                     PROVE  chan'[c][i].n < chan'[c][j].n
          OBVIOUS
        <4>1. i \in 1 .. Len(chan[c])
          BY <1>9, <3>1
        <4> QED
          BY <1>9, <3>1, <3>2, <3>3, <4>1
      <3> QED
        BY <1>9, <3>1, <3>2, <3>3, <3>4
    <2> QED
      BY <2>1, <2>2
  <1>12. Numbered'
    <2>1. \A d \in Conns : \A i \in 1 .. Len(chan'[d]) : chan'[d][i].n <= devSent
      BY <1>6, <1>8, <1>9 DEF Numbered
    <2>2. reader'.n <= devSent
      BY <1>5, <1>6, <1>7
    <2> QED
      BY <1>1, <2>1, <2>2 DEF Numbered
  <1>13. NoStranger'
    BY <1>1, <1>4, <1>6 DEF NoStranger
  <1>14. FlightOrder'
    <2>1. ASSUME reader'.st = "blocked"
          PROVE  Behind(c, m)'
      BY <1>6, <1>8, <1>10, <2>1
    <2>2. ASSUME NEW i \in 1 .. Len(devOut'), devOut'[i].conn # None, devOut'[i].kind # "RST"
          PROVE  /\ \A d, n : d = devOut'[i].conn /\ n = devOut'[i].n => Behind(d, n)'
                 /\ reader'.st = "blocked" /\ reader'.conn = devOut'[i].conn => reader'.n < devOut'[i].n
      <3>1. /\ i + s \in 1 .. Len(devOut) /\ devOut'[i] = devOut[i + s]
            /\ devOut'[i].conn \in Conns /\ devOut'[i].n \in Nat
        BY <1>1, <1>7, <2>2
      <3>2. Behind(devOut[i + s].conn, devOut[i + s].n)
        BY <2>2, <3>1 DEF FlightOrder
      <3>3. devOut'[i].conn = c => m < devOut'[i].n
        BY <1>6, <2>2
      <3> QED
        BY <1>4, <1>5, <1>10, <3>1, <3>2, <3>3
    <2>3. \A i, j \in 1 .. Len(devOut') :
             /\ i < j /\ devOut'[i].conn = devOut'[j].conn /\ devOut'[i].conn # None
             /\ devOut'[i].kind # "RST" /\ devOut'[j].kind # "RST"
             => devOut'[i].n < devOut'[j].n
      <3> TAKE i, j \in 1 .. Len(devOut')
      <3> HAVE /\ i < j /\ devOut'[i].conn = devOut'[j].conn /\ devOut'[i].conn # None
               /\ devOut'[i].kind # "RST" /\ devOut'[j].kind # "RST"
      <3>1. /\ i + s \in 1 .. Len(devOut) /\ devOut'[i] = devOut[i + s]
            /\ j + s \in 1 .. Len(devOut) /\ devOut'[j] = devOut[j + s] /\ i + s < j + s
        BY <1>1, <1>3
      <3> QED
        BY <3>1 DEF FlightOrder
    <2>4. reader'.st = "blocked" => \A d, n : d = reader'.conn /\ n = reader'.n => Behind(d, n)'
      BY <1>4, <1>5, <2>1
    <2> QED
      BY <2>2, <2>3, <2>4 DEF FlightOrder
  <1> QED
    BY <1>11, <1>12, <1>13, <1>14

\* The variables the reader does not write.
ReaderFrame ==
    UNCHANGED <<pc, port, reads, got, hand, next_source_port, router, conns, wq, writer, canceled, closing,
                todo, registered, unplugged, peer, devSyn, devSent, reset>>

\* route() with a packet that is in turn.
LEMMA RouteStep ==
    ASSUME IInv, NEW pkt \in ReaderType, pkt.port \in Ports, pkt.conn # None => pkt.port = port[pkt.conn],
           Shifted, PortsDistinct => InTurn(pkt), Route(pkt), ReaderFrame
    PROVE  IInv'
  <1> USE DEF IInv, Basic, ReaderFrame
  <1>1. /\ router \in [Ports -> Conns \cup {None}] /\ None \notin Conns
        /\ chan \in [Conns -> Seq(ChanType)] /\ \A d \in Conns : Len(chan[d]) <= RxCap
    BY ConstantsAssumption DEF Typed, TypeOK, ChanType
  <1>2. /\ Idle \in ReaderType /\ Idle.st = "read" /\ Idle.n = 0
    BY ConstantsAssumption DEF Idle, ReaderType
  <1>3. \A st \in {"wedged", "blocked"} :
           /\ [pkt EXCEPT !.st = st] \in ReaderType /\ [pkt EXCEPT !.st = st].st = st
           /\ [pkt EXCEPT !.st = st].port = pkt.port /\ [pkt EXCEPT !.st = st].conn = pkt.conn
           /\ [pkt EXCEPT !.st = st].n = pkt.n
    BY DEF ReaderType
  <1>4. \/ UNCHANGED chan
        \/ \E c \in Conns : /\ c = router[pkt.port] /\ Len(chan[c]) < RxCap /\ reader'.st # "blocked"
                            /\ chan' = [chan EXCEPT ![c] = Append(@, [conn |-> pkt.conn, n |-> pkt.n])]
    BY <1>1, <1>2 DEF Route
  <1>5. /\ reader' \in ReaderType
        /\ reader'.st \in {"blocked", "wedged"} =>
              reader'.port = pkt.port /\ reader'.conn = pkt.conn /\ reader'.n = pkt.n
        /\ reader'.n \in {0, pkt.n}
    <2>1. reader' = Idle \/ \E st \in {"wedged", "blocked"} : reader' = [pkt EXCEPT !.st = st]
      BY DEF Route
    <2>2. CASE reader' = Idle
      BY <1>2, <2>2
    <2>3. ASSUME NEW st \in {"wedged", "blocked"}, reader' = [pkt EXCEPT !.st = st]
          PROVE  /\ reader' \in ReaderType /\ reader'.n \in {0, pkt.n}
                 /\ reader'.port = pkt.port /\ reader'.conn = pkt.conn /\ reader'.n = pkt.n
      BY <1>3, <2>3
    <2> QED
      BY <2>1, <2>2, <2>3
  <1>6. chan' \in [Conns -> Seq(ChanType)] /\ \A d \in Conns : Len(chan'[d]) <= RxCap
    <2>1. CASE UNCHANGED chan
      BY <1>1, <2>1
    <2>2. ASSUME NEW c \in Conns, Len(chan[c]) < RxCap,
                 chan' = [chan EXCEPT ![c] = Append(@, [conn |-> pkt.conn, n |-> pkt.n])]
          PROVE  chan' \in [Conns -> Seq(ChanType)] /\ \A d \in Conns : Len(chan'[d]) <= RxCap
      <3> DEFINE x == [conn |-> pkt.conn, n |-> pkt.n]
      <3>1. x \in ChanType
        BY DEF ReaderType, ChanType
      <3>2. chan' = [chan EXCEPT ![c] = Append(chan[c], x)]
        BY <1>1, <2>2
      <3> HIDE DEF x
      <3>3. /\ Append(chan[c], x) \in Seq(ChanType) /\ Len(Append(chan[c], x)) = Len(chan[c]) + 1
            /\ Len(chan[c]) \in Nat
        BY <1>1, <3>1
      <3> QED
        BY <1>1, <2>2, <3>2, <3>3, ConstantsAssumption
    <2> QED
      BY <1>4, <2>1, <2>2
  <1>7. Typed'
    <2>1. devOut' \in Seq(OutType)
      BY DEF Shifted
    <2>2. /\ reader'.st \in {"read", "blocked", "wedged", "ioerror", "gone"}
          /\ reader'.st \in {"blocked", "wedged"} => reader'.port \in Ports
      BY <1>5 DEF ReaderType
    <2> QED
      BY <1>5, <1>6, <2>1, <2>2 DEF Typed, TypeOK, ChanType
  <1>8. PortHeld' /\ RoutesOwn' /\ CanceledFirst'
    BY DEF PortHeld, RoutesOwn, CanceledFirst
  <1>9. PacketsOwn'
    <2>1. \A i \in 1 .. Len(devOut') : devOut'[i].conn # None => devOut'[i].port = port[devOut'[i].conn]
      BY DEF PacketsOwn, Shifted
    <2> QED
      BY <1>5, <2>1 DEF PacketsOwn
  <1>10. PortsDistinct' <=> PortsDistinct
    BY DEF PortsDistinct
  <1>11. LiveConnRouted'
    BY <1>10 DEF LiveConnRouted
  <1>12. ASSUME PortsDistinct
         PROVE  Life' /\ Order'
    <2>1. /\ pkt.conn \in Conns /\ Flying(pkt.conn) /\ pkt.port = port[pkt.conn] /\ port[pkt.conn] # 0
      BY <1>1, <1>12, ConstantsAssumption DEF InTurn, Ports
    \* Who has the route is who the packet is for.
    <2>2. \/ UNCHANGED chan
          \/ /\ chan' = [chan EXCEPT ![pkt.conn] = Append(@, [conn |-> pkt.conn, n |-> pkt.n])]
             /\ reader'.st # "blocked"
      <3>1. \A c \in Conns : c = router[pkt.port] => c = pkt.conn
        <4>1. \A c \in Conns : c = router[pkt.port] => port[c] = pkt.port
          BY <1>1 DEF RoutesOwn
        <4> QED
          BY <1>12, <2>1, <4>1, DistinctPorts
      <3> QED
        BY <1>4, <3>1
    <2>3. \A d \in Conns : Routed(d)' => Routed(d)
      <3>1. \A d \in Conns : chan'[d] # <<>> => chan[d] # <<>> \/ d = pkt.conn
        BY <1>1, <2>1, <2>2
      <3>2. \A d \in Conns : Flying(d)' => Flying(d)
        BY <1>5, <2>1 DEF Flying, Shifted
      <3> QED
        BY <2>1, <3>1, <3>2 DEF Routed
    <2>4. Life'
      BY <1>12, <2>3, LifeKept
    <2>5. Order'
      BY <1>5, <1>12, <2>2, RoutedOrder
    <2> QED
      BY <2>4, <2>5
  <1> QED
    BY <1>7, <1>8, <1>9, <1>10, <1>11, <1>12

\* The reader takes the next packet of the device.
LEMMA ReaderPacketStep ==
    ASSUME IInv, ReaderPacket
    PROVE  IInv'
  <1> USE DEF IInv, Basic
  <1>1. /\ reader.st = "read" /\ devOut # <<>> /\ devOut' = Tail(devOut) /\ ReaderFrame
        /\ IF Head(devOut).kind = "RST"
           THEN UNCHANGED <<reader, chan>>
           ELSE Route([st |-> "read", kind |-> Head(devOut).kind, port |-> Head(devOut).port,
                       conn |-> Head(devOut).conn, n |-> Head(devOut).n])
    BY DEF ReaderPacket, ReaderFrame, muxVars, downVars
  <1>2. /\ devOut' \in Seq(OutType) /\ Len(devOut') \in Nat /\ Len(devOut) \in Nat
        /\ \A i \in 1 .. Len(devOut') : i + 1 \in 1 .. Len(devOut) /\ devOut'[i] = devOut[i + 1]
        /\ Head(devOut) = devOut[1] /\ 1 \in 1 .. Len(devOut)
    <2>1. devOut \in Seq(OutType)
      BY QueueTypes
    <2> QED
      BY <1>1, <2>1
  <1>3. Shifted
    BY <1>2 DEF Shifted
  <1>4. CASE Head(devOut).kind = "RST"
    <2> USE DEF ReaderFrame
    <2>1. UNCHANGED <<reader, chan>>
      BY <1>1, <1>4
    <2>2. Typed'
      BY <1>1, <1>2, <2>1 DEF Typed, TypeOK
    <2>3. PortHeld' /\ RoutesOwn' /\ CanceledFirst'
      BY <1>1 DEF PortHeld, RoutesOwn, CanceledFirst
    <2>4. PacketsOwn'
      BY <1>1, <1>2, <2>1 DEF PacketsOwn
    <2>5. PortsDistinct' <=> PortsDistinct
      BY <1>1 DEF PortsDistinct
    <2>6. LiveConnRouted'
      BY <1>1, <2>5 DEF LiveConnRouted
    <2>7. \A d \in Conns : Routed(d)' => Routed(d)
      BY <1>2, <2>1 DEF Routed, Flying
    <2>8. PortsDistinct => Life' /\ Order'
      BY <1>1, <1>3, <2>1, <2>7, LifeKept, ShiftedOrder
    <2> QED
      BY <2>2, <2>3, <2>4, <2>5, <2>6, <2>8
  <1>5. CASE Head(devOut).kind # "RST"
    <2>1. PICK e \in OutType : e = devOut[1]
      BY <1>2, QueueTypes
    <2>2. PICK pkt \in ReaderType : /\ Route(pkt) /\ pkt.port = e.port /\ pkt.conn = e.conn
                                    /\ pkt.n = e.n /\ pkt.port \in Ports
      <3> DEFINE r == [st |-> "read", kind |-> e.kind, port |-> e.port, conn |-> e.conn, n |-> e.n]
      <3>1. /\ r \in ReaderType /\ r.port = e.port /\ r.conn = e.conn /\ r.n = e.n
            /\ r.port \in Ports
        BY <1>2, <1>5, <2>1, ConstantsAssumption DEF ReaderType, OutType, Ports
      <3>2. Route(r)
        BY <1>1, <1>2, <1>5, <2>1
      <3> HIDE DEF r
      <3> QED
        BY <3>1, <3>2
    <2>3. pkt.conn # None => pkt.port = port[pkt.conn]
      BY <1>2, <2>1, <2>2 DEF PacketsOwn
    <2>4. ASSUME PortsDistinct
          PROVE  InTurn(pkt)
      <3> USE <2>4 DEF Order
      <3>1. e.conn # None /\ e.conn \in Conns /\ e.kind # "RST"
        BY <1>2, <1>5, <2>1, QueueTypes DEF NoStranger
      <3>2. Flying(e.conn) /\ Behind(e.conn, e.n) /\ e.n <= devSent
        BY <1>2, <2>1, <3>1 DEF Flying, FlightOrder, Numbered
      <3>3. \A i \in 1 .. Len(devOut') :
               devOut'[i].conn = e.conn /\ devOut'[i].kind # "RST" => e.n < devOut'[i].n
        <4>1. \A i \in 1 .. Len(devOut') : 1 < i + 1
          BY <1>2
        <4> QED
          BY <1>2, <2>1, <3>1, <4>1 DEF FlightOrder
      <3> QED
        BY <2>2, <3>1, <3>2, <3>3 DEF InTurn
    <2> QED
      BY <1>1, <1>3, <2>2, <2>3, <2>4, RouteStep
  <1> QED
    BY <1>4, <1>5

\* The reader goes on with the packet it waits with.
LEMMA ReaderResumeStep ==
    ASSUME IInv, ReaderResume
    PROVE  IInv'
  <1> USE DEF IInv, Basic
  <1>1. /\ reader.st = "blocked" /\ Route(reader) /\ ReaderFrame /\ devOut' = devOut
    BY DEF ReaderResume, ReaderFrame, muxVars, downVars, devVars
  <1>2. /\ reader \in ReaderType /\ reader.port \in Ports
        /\ reader.conn # None => reader.port = port[reader.conn]
    BY <1>1 DEF Typed, TypeOK, PacketsOwn
  <1>3. Shifted
    <2>1. devOut \in Seq(OutType) /\ Len(devOut) \in Nat
      BY QueueTypes
    <2>2. \A i \in 1 .. Len(devOut) : i + 0 = i
      BY <2>1
    <2> QED
      BY <1>1, <2>1, <2>2 DEF Shifted
  <1>4. ASSUME PortsDistinct
        PROVE  InTurn(reader)
    <2>1. reader.conn \in Conns /\ reader.conn # None
      BY <1>1, <1>2, <1>4 DEF ReaderType, Order, NoStranger
    <2> QED
      BY <1>1, <1>4, <2>1 DEF Order, InTurn, Flying, FlightOrder, Numbered
  <1> QED
    BY <1>1, <1>2, <1>3, <1>4, RouteStep

--------------------------------------------------------------------------------
(* The theorems *)

\* A device without connections.
LEMMA InitStep ==
    ASSUME Init
    PROVE  IInv
  <1> USE DEF Init
  <1>1. /\ wq \in Seq(WqType) /\ devOut \in Seq(OutType)
        /\ chan \in [Conns -> Seq(ChanType)]
    OBVIOUS
  <1>2. /\ Len(wq) = 0 /\ Len(devOut) = 0 /\ \A c \in Conns : Len(chan[c]) = 0
    OBVIOUS
  <1>3. reader \in ReaderType /\ reader.st = "read" /\ reader.n = 0
    BY ConstantsAssumption DEF Idle, ReaderType
  <1>4. TypeOK
    <2>1. /\ pc \in [Conns -> Places] /\ port \in [Conns -> 0 .. PortMod - 1]
          /\ reads \in 0 .. MaxReads /\ devSent \in 0 .. MaxData
          /\ got \in [Conns -> 0 .. MaxData] /\ hand \in [Conns -> 0 .. MaxData]
          /\ \A c \in Conns : Len(chan[c]) <= RxCap
          /\ Len(wq) <= TxCap
      BY <1>2, ConstantsAssumption DEF Places
    <2> QED
      BY <1>1, <1>3, <2>1 DEF TypeOK, Places, WqType, ChanType, Kinds
  <1>5. Typed /\ PortHeld /\ RoutesOwn /\ CanceledFirst /\ LiveConnRouted
    BY <1>1, <1>3, <1>4
       DEF Typed, PortHeld, RoutesOwn, CanceledFirst, LiveConnRouted, Alive, Connecting, Open
  <1>6. PacketsOwn
    BY <1>2, <1>3 DEF PacketsOwn
  <1>7. \A c \in Conns : (\A K : ~Queued(c, K)) /\ ~Routed(c) /\ \A p \in Ports : peer[p] # c
    BY <1>2, <1>3, ConstantsAssumption DEF Queued, Routed, Flying
  <1>8. Life
    BY <1>2, <1>7
       DEF Life, Unsent, SynAlone, SynUnanswered, OnlySyn, PeerOpen, PacketsForOpenPeers, Up, Open
  <1>9. Order
    BY <1>2, <1>3 DEF Order, ChanOrder, FlightOrder, Numbered, NoStranger
  <1> QED
    BY <1>5, <1>6, <1>8, <1>9 DEF IInv, Basic

\* The inductive invariant holds in every reachable state.
THEOREM Inductive ==
    Spec => []IInv
  <1>1. IInv /\ [Next]_vars => IInv'
    <2> SUFFICES ASSUME IInv, [Next]_vars
                 PROVE  IInv'
      OBVIOUS
    <2>1. ASSUME NEW c \in Conns, AllocPort(c) \/ Register(c)
          PROVE  IInv'
      BY <2>1, AllocPortStep, RegisterStep
    <2>2. ASSUME NEW c \in Conns,
                 \/ SendSyn(c) \/ RecvSynAck(c) \/ SendHandshakeAck(c)
                 \/ Recv(c) \/ RecvDisconnected(c) \/ AckSent(c) \/ ClientSend(c) \/ SendPending(c)
                 \/ SeeShutdown(c) \/ SendRst(c) \/ DropConn(c) \/ Unregister(c)
                 \/ ClientRead(c) \/ ClientEof(c)
          PROVE  IInv'
      <3>1. PICK l, k, q, g, h : Turn(c, l, k, q, g, h)
        BY <2>2, HandlerTurns DEF IInv, Basic
      <3>2. PortsDistinct' <=> PortsDistinct
        BY <3>1 DEF Turn, PortsDistinct
      <3> QED
        BY <3>1, <3>2, TurnBasic, TurnLife, TurnOrder DEF IInv
    <2>3. CASE ReaderTask
      BY <2>3, ReaderPacketStep, ReaderResumeStep, ReaderEndStep DEF ReaderTask
    <2>4. CASE WriterTask
      BY <2>4, WriterStep, WriterStopsStep DEF WriterTask
    <2>5. CASE CloseAll
      BY <2>5, CloseAllClearStep, CloseAllRstStep DEF CloseAll
    <2>6. CASE Ending
      BY <2>6, EndingStep
    <2>7. CASE Answer
      BY <2>7, DevAnswerStep DEF Answer
    <2>8. CASE Device
      BY <2>8, UnplugStep, DevDataStep, DevResetStep DEF Device
    <2>9. CASE UNCHANGED vars
      <3>1. UNCHANGED <<pc, port, chan, reads, got, hand, next_source_port, router, conns, wq, writer,
                        reader, canceled, closing, todo, registered, unplugged, peer, devOut, devSyn,
                        devSent, reset>>
        BY <2>9 DEF vars, handlerVars, muxVars, loopVars, downVars, devVars
      <3>2. Basic'
        <4>1. Typed'
          BY <3>1 DEF IInv, Basic, Typed, TypeOK
        <4>2. PortHeld' /\ RoutesOwn' /\ PacketsOwn'
          BY <3>1 DEF IInv, Basic, PortHeld, RoutesOwn, PacketsOwn, PortsDistinct
        <4>3. CanceledFirst' /\ LiveConnRouted'
          BY <3>1 DEF IInv, Basic, CanceledFirst, LiveConnRouted, PortsDistinct
        <4> QED
          BY <4>1, <4>2, <4>3 DEF Basic
      <3>3. PortsDistinct' <=> PortsDistinct
        BY <3>1 DEF PortsDistinct
      <3>4. \A d \in Conns : Routed(d)' => Routed(d)
        BY <3>1 DEF Routed, Flying
      <3>5. PortsDistinct => Life' /\ Order'
        BY <3>1, <3>4, LifeKept, OrderKept DEF IInv, Basic
      <3> QED
        BY <3>2, <3>3, <3>5 DEF IInv
    <2> QED
      BY <2>1, <2>2, <2>3, <2>4, <2>5, <2>6, <2>7, <2>8, <2>9 DEF Next, Handler, Clients
  <1> QED
    BY <1>1, InitStep, PTL DEF Spec

\* The handlers, the router, the loops and the device keep their types; no queue exceeds its
\* capacity.
THEOREM TypeCorrect ==
    Spec => []TypeOK
  BY Inductive, PTL DEF IInv, Basic, Typed

\* A connection keeps its route until it unregisters itself or close_all clears the router.
THEOREM RoutesTheorem ==
    Spec => []LiveConnRouted
  BY Inductive, PTL DEF IInv, Basic

\* A channel has only packets of its connection, in order, and none the client has already.
THEOREM StreamsTheorem ==
    Spec => []StreamsInOrder
  <1>1. IInv => StreamsInOrder
    BY DEF IInv, Order, ChanOrder, StreamsInOrder
  <1> QED
    BY <1>1, Inductive, PTL

\* What is queued behind a SYN finds its connection open on the device, unless the device has
\* reset it since: neither a refused connection nor one past its own RST sends anything.
THEOREM PeersTheorem ==
    Spec => []PacketsForOpenPeers
  <1>1. IInv => PacketsForOpenPeers
    BY DEF IInv, Life, PacketsForOpenPeers
  <1> QED
    BY <1>1, Inductive, PTL
================================================================================
