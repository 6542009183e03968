--------------------------- MODULE FlowControl_proofs ---------------------------
(***************************************************************************)
(* Proofs about FlowControl for every size of the counters, the window     *)
(* unit, the packets, the channels and the device's buffer.                *)
(***************************************************************************)
EXTENDS FlowControl, SequenceTheorems, TLAPS

(* Arithmetic *)

\* A remainder modulo W is below W, and a number below W is its own remainder.
LEMMA ModLemma ==
    ASSUME NEW a \in Nat
    PROVE  a % W \in 0 .. W - 1 /\ (a < W => a % W = a)
  BY ConstantsAssumption, Z3

\* A free space rounded down to window units does not exceed the free space.
LEMMA DivLemma ==
    ASSUME NEW a \in Nat
    PROVE  a \div Unit \in 0 .. a /\ (a \div Unit) * Unit <= a
  BY ConstantsAssumption, Z3

\* A window in bytes is a natural number.
LEMMA ProductLemma ==
    ASSUME NEW w \in Nat
    PROVE  w * Unit \in Nat
  BY ConstantsAssumption, Z3

\* calc_sendable_bytes is a packet's payload at most, and what it allows stays inside the
\* window counted from the last acknowledgement.
LEMMA CalcLemma ==
    ASSUME NEW s \in Nat, NEW w \in Nat, NEW r \in Nat
    PROVE  /\ calc_sendable_bytes(s, w, r) \in 0 .. MaxPayload
           /\ r <= s /\ calc_sendable_bytes(s, w, r) > 0
                => s + calc_sendable_bytes(s, w, r) <= r + w * Unit
  <1>1. w * Unit \in Nat
    BY ProductLemma
  <1> DEFINE u == w * Unit
  <1> HIDE DEF u
  <1>2. u \in Nat
    BY <1>1 DEF u
  <1> QED
    BY <1>2, ConstantsAssumption DEF calc_sendable_bytes, SmallerOf, u

\* What the device advertises is a pair of counters in range, and its window in bytes is
\* at most the free part of its buffer.
LEMMA DevViewLemma ==
    ASSUME TypeOK
    PROVE  /\ DevFree \in 0 .. Buf
           /\ DevView = <<(1 + devRcvd) % W, DevFree \div Unit>>
           /\ (1 + devRcvd) % W \in 0 .. W - 1
           /\ DevFree \div Unit \in 0 .. Buf
           /\ (DevFree \div Unit) * Unit <= DevFree
  <1>1. /\ devRcvd \in Nat /\ devRead \in 0 .. devRcvd
        /\ Buf \in Nat /\ W \in Nat \ {0}
    BY ConstantsAssumption DEF TypeOK
  <1>2. DevFree \in 0 .. Buf
    BY <1>1 DEF DevFree
  <1>3. (1 + devRcvd) % W \in 0 .. W - 1
    BY <1>1, ModLemma
  <1>4. DevFree \div Unit \in 0 .. DevFree /\ (DevFree \div Unit) * Unit <= DevFree
    BY <1>1, <1>2, DivLemma
  <1> QED
    BY <1>1, <1>2, <1>3, <1>4 DEF DevView

--------------------------------------------------------------------------------
(* Types *)

\* The initial state of a connection is typed.
LEMMA TypeInit == Init => TypeOK
  BY ConstantsAssumption DEF Init, TypeOK, NoPacket, Packet

\* Every step of the handler, the client and the device keeps the types: the counters
\* stay below W, sendable_bytes within a packet, the channels within their capacities.
LEMMA TypeStep == TypeOK /\ [Next]_vars => TypeOK'
  <1> SUFFICES ASSUME TypeOK, [Next]_vars PROVE TypeOK'
    OBVIOUS
  <1> USE ConstantsAssumption
  <1>c. \A s, w, r \in Nat : calc_sendable_bytes(s, w, r) \in 0 .. MaxPayload
    BY CalcLemma
  <1>m. \A a \in Nat : a % W \in 0 .. W - 1
    BY ModLemma
  <1>r. rx # <<>> => /\ Head(rx).seq \in 0 .. W - 1 /\ Head(rx).ack \in 0 .. W - 1
                     /\ Head(rx).win \in 0 .. Buf /\ Head(rx).len \in Nat
                     /\ Tail(rx) \in Seq(DevicePacket) /\ Len(Tail(rx)) <= RxCap
    <2>1. rx # <<>> => Head(rx) \in DevicePacket /\ Tail(rx) \in Seq(DevicePacket)
                       /\ Len(Tail(rx)) = Len(rx) - 1
      BY DEF TypeOK
    <2>2. Len(rx) \in Nat /\ Len(rx) <= RxCap
      BY DEF TypeOK
    <2>3. \A p \in DevicePacket : /\ p.seq \in 0 .. W - 1 /\ p.ack \in 0 .. W - 1
                                  /\ p.win \in 0 .. Buf /\ p.len \in Nat
      BY DEF DevicePacket
    <2> QED
      BY <2>1, <2>2, <2>3
  <1>t. tx # <<>> => /\ Head(tx).ack \in 0 .. W - 1 /\ Head(tx).len \in 0 .. MaxPayload
                     /\ Tail(tx) \in Seq(Packet) /\ Len(Tail(tx)) <= TxCap
    <2>1. tx # <<>> => Head(tx) \in Packet /\ Tail(tx) \in Seq(Packet)
                       /\ Len(Tail(tx)) = Len(tx) - 1
      BY DEF TypeOK
    <2>2. Len(tx) \in Nat /\ Len(tx) <= TxCap
      BY DEF TypeOK
    <2>3. \A p \in Packet : p.ack \in 0 .. W - 1 /\ p.len \in 0 .. MaxPayload
      BY DEF Packet
    <2> QED
      BY <2>1, <2>2, <2>3
  <1>a. \A p \in Packet : Room => Append(tx, p) \in Seq(Packet) /\ Len(Append(tx, p)) <= TxCap
    BY DEF TypeOK, Room
  <1>b. \A p \in DevicePacket : Len(rx) < RxCap => /\ Append(rx, p) \in Seq(DevicePacket)
                                                    /\ Len(Append(rx, p)) <= RxCap
    BY DEF TypeOK
  <1>p. /\ HostPacket("SYN", 0) \in Packet /\ HostPacket("ACK", 0) \in Packet
        /\ HostPacket("RST", 0) \in Packet /\ NoPacket \in Packet
    BY DEF TypeOK, HostPacket, NoPacket, Packet
  <1>v. /\ sent_bytes \in Nat /\ device_last_window_size \in Nat
        /\ device_last_received_bytes \in Nat /\ received_bytes \in Nat
        /\ devSent \in Nat /\ sentTotal \in Nat
    BY DEF TypeOK
  <1>1. CASE SendSyn
    BY <1>1, <1>a, <1>p DEF TypeOK, SendSyn, connVars, clientVars, devVars, ghosts
  <1>2. CASE RecvSynAck
    <2>0. sent_bytes + Head(rx).ack \in Nat /\ received_bytes + Head(rx).seq \in Nat
      <3>1. rx # <<>>
        BY <1>2 DEF RecvSynAck
      <3> QED
        BY <1>r, <1>v, <3>1, SMTT(30)
    <2>1. sent_bytes' \in 0 .. W - 1
      BY <1>2, <1>m, <2>0 DEF RecvSynAck
    <2>2. received_bytes' \in 0 .. W - 1
      BY <1>2, <1>m, <2>0 DEF RecvSynAck
    <2> QED
      BY <1>2, <1>r, <2>1, <2>2 DEF TypeOK, RecvSynAck, clientVars, devVars, ghosts
  <1>3. CASE SendHandshakeAck
    BY <1>3, <1>a, <1>c, <1>p, <1>v DEF TypeOK, SendHandshakeAck, clientVars, devVars, ghosts
  <1>4. CASE RecvAndAck
    <2>1. [HostPacket("ACK", 0) EXCEPT !.ack = received_bytes'] \in Packet
      <3>1. received_bytes' \in 0 .. W - 1
        BY <1>4, <1>r DEF RecvAndAck, SetFromHeader
      <3> QED
        BY <1>p, <3>1 DEF HostPacket, Packet
    <2>2. calc_sendable_bytes(sent_bytes, Head(rx).win, Head(rx).ack) \in 0 .. MaxPayload
      <3>1. rx # <<>> /\ Head(rx).win \in Nat /\ Head(rx).ack \in Nat
        BY <1>4, <1>r DEF RecvAndAck
      <3> QED
        BY <1>c, <1>v, <3>1
    <2> QED
      BY <1>4, <1>a, <1>r, <2>1, <2>2
         DEF TypeOK, RecvAndAck, SetFromHeader, clientVars, devVars, ghosts
  <1>5. CASE RecvAckPending
    BY <1>5, <1>r DEF TypeOK, RecvAckPending, SetFromHeader, clientVars, devVars, ghosts
  <1>6. CASE AckSent
    BY <1>6, <1>a, <1>c, <1>p, <1>v DEF TypeOK, AckSent, clientVars, devVars, ghosts
  <1>7. CASE ClientSend
    BY <1>7 DEF TypeOK, ClientSend, connVars, clientVars, devVars
  <1>8. CASE SendPending
    <2>1. out.len \in 0 .. MaxPayload
      BY DEF TypeOK, Packet
    <2>2. sent_bytes' \in 0 .. W - 1
      <3>1. sent_bytes + out.len \in Nat
        BY <1>v, <2>1
      <3> QED
        BY <1>8, <1>m, <3>1 DEF SendPending, Enqueue
    <2>3. sendable_bytes' \in 0 .. MaxPayload
      BY <1>8, <1>c, <1>v, <2>2 DEF SendPending, Enqueue
    <2>4. sentTotal' \in Nat
      BY <1>8, <1>v, <2>1, SMTT(30) DEF SendPending, Enqueue
    <2>5. tx' \in Seq(Packet) /\ Len(tx') <= TxCap
      BY <1>8, <1>a DEF TypeOK, SendPending, Enqueue
    <2> QED
      BY <1>8, <1>p, <2>2, <2>3, <2>4, <2>5 DEF TypeOK, SendPending, Enqueue, clientVars, devVars
  <1>9. CASE SendRst
    BY <1>9, <1>a, <1>p DEF TypeOK, SendRst, connVars, clientVars, devVars, ghosts
  <1>10. ASSUME NEW k \in 0 .. MaxRead, ClientRead(k) PROVE TypeOK'
    <2> DEFINE n == SmallerOf(sendable_bytes, read_buf + k)
    <2>1. /\ n \in 0 .. MaxPayload /\ n <= read_buf + k
          /\ read_buf' = read_buf + k - n /\ clientLeft' = clientLeft - k /\ k <= clientLeft
      BY <1>10 DEF TypeOK, ClientRead, SmallerOf
    <2>2. HostPacket("ACK", n) \in Packet
      BY <2>1 DEF TypeOK, HostPacket, Packet
    <2> HIDE DEF n
    <2>3. SendBytes(n)
      BY <1>10 DEF ClientRead, n
    <2>4. CASE Room /\ Enqueue(HostPacket("ACK", n)) /\ UNCHANGED out
      <3>0. HostPacket("ACK", n).len = n
        BY DEF HostPacket
      <3>1. sent_bytes' \in 0 .. W - 1
        <4>1. sent_bytes + n \in Nat
          BY <1>v, <2>1
        <4> QED
          BY <1>m, <2>4, <3>0, <4>1 DEF Enqueue
      <3>2. sendable_bytes' \in 0 .. MaxPayload
        BY <1>c, <1>v, <2>4, <3>1 DEF Enqueue
      <3>3. sentTotal' \in Nat
        BY <1>v, <2>1, <2>4, <3>0, SMTT(30) DEF Enqueue
      <3>4. tx' \in Seq(Packet) /\ Len(tx') <= TxCap
        BY <1>a, <2>2, <2>4 DEF Enqueue
      <3>5. read_buf' \in Nat /\ clientLeft' \in Nat /\ lost' \in Nat /\ hand' \in Nat
        BY <1>10, <2>1 DEF TypeOK, ClientRead, CancelRecv
      <3> QED
        BY <1>10, <2>4, <3>1, <3>2, <3>3, <3>4, <3>5
           DEF TypeOK, ClientRead, Enqueue, devVars
    <2>5. CASE ~ Room /\ out' = HostPacket("ACK", n) /\ pc' = "sending"
                 /\ UNCHANGED <<tx, sent_bytes, sentTotal, sendable_bytes>>
      BY <1>10, <2>1, <2>2, <2>5, SMTT(30) DEF TypeOK, ClientRead, CancelRecv, devVars
    <2> QED
      BY <2>3, <2>4, <2>5 DEF SendBytes
  <1>11. CASE ClientEof
    BY <1>11 DEF TypeOK, ClientEof, CancelRecv, connVars, clientVars, devVars
  <1>12. CASE ClientFails
    BY <1>12, <1>a, <1>p DEF TypeOK, ClientFails, connVars, clientVars, devVars, ghosts
  <1>13. CASE DeviceReceive
    <2>1. /\ devRcvd' \in Nat /\ devRead' \in 0 .. devRcvd' /\ devAcked' \in 0 .. W - 1
          /\ tx' \in Seq(Packet) /\ Len(tx') <= TxCap
      <3>1. devRcvd \in Nat /\ devRead \in 0 .. devRcvd
        BY DEF TypeOK
      <3> QED
        BY <1>13, <1>t, <3>1, SMTT(30) DEF DeviceReceive
    <2>2. devPhase' \in {"listen", "synrcvd", "open", "reset"}
      BY <1>13 DEF TypeOK, DeviceReceive
    <2> QED
      BY <1>13, <2>1, <2>2 DEF TypeOK, DeviceReceive, connVars, clientVars, ghosts
  <1>14. CASE DeviceSynAck
    <2>1. [seq |-> 0, ack |-> DevView[1], win |-> DevView[2], len |-> 0] \in DevicePacket
      BY DevViewLemma DEF DevicePacket
    <2> QED
      BY <1>14, <1>b, <2>1, DevViewLemma, SMTT(30) DEF TypeOK, DeviceSynAck, connVars, clientVars, ghosts
  <1>15. ASSUME NEW n \in Nat, DeviceSend(n) PROVE TypeOK'
    <2>0. (1 + devSent) % W \in 0 .. W - 1
      BY <1>v, ModLemma
    <2>1. [seq |-> (1 + devSent) % W, ack |-> DevView[1], win |-> DevView[2], len |-> n]
            \in DevicePacket
      BY <2>0, DevViewLemma DEF DevicePacket
    <2>2. devSent' \in Nat /\ devTold' \in Nat \X Nat
      BY <1>15, <1>v, DevViewLemma DEF DeviceSend
    <2>3. rx' \in Seq(DevicePacket) /\ Len(rx') <= RxCap
      BY <1>15, <1>b, <2>1 DEF DeviceSend
    <2> QED
      BY <1>15, <2>2, <2>3 DEF TypeOK, DeviceSend, connVars, clientVars, ghosts
  <1>16. ASSUME NEW n \in 1 .. ClientBytes, DeviceRead(n) PROVE TypeOK'
    BY <1>16 DEF TypeOK, DeviceRead, connVars, clientVars, ghosts
  <1>17. CASE UNCHANGED vars
    BY <1>17 DEF TypeOK, vars, connVars, clientVars, devVars, ghosts
  <1> QED
    BY <1>1, <1>2, <1>3, <1>4, <1>5, <1>6, <1>7, <1>8, <1>9, <1>10, <1>11, <1>12, <1>13, <1>14,
       <1>15, <1>16, <1>17 DEF Next, Handler, Client, Device, DeviceUpdate

\* The type invariant holds on every run, for every value of the constants.
THEOREM TypeCorrect == Spec => []TypeOK
  BY TypeInit, TypeStep, PTL DEF Spec

--------------------------------------------------------------------------------
(* The inductive invariant behind the window and the order of the bytes.   *)
(* WindowRespected alone is not inductive: what may be sent next follows   *)
(* from the cached sendable_bytes, that from the last header taken, and    *)
(* that from the headers still waiting in rx.  None of them may reach past *)
(* what the device can hold now.                                           *)

Handshaking == pc \in {"connect", "synack"}

\* The packets of t carry the bytes after the first lo up to the first hi, without a gap.
Chain(t, lo, hi) ==
    /\ lo <= hi
    /\ t = <<>> => lo = hi
    /\ t # <<>> => t[1].seq = 1 + lo /\ t[Len(t)].seq + t[Len(t)].len = 1 + hi
    /\ \A i \in 1 .. Len(t) : t[i].flags # "SYN" /\ t[i].seq + t[i].len <= 1 + hi
    /\ \A i \in 1 .. Len(t) - 1 : t[i + 1].seq = t[i].seq + t[i].len

\* An acknowledgement and a window that promise no more than the device can hold.
EdgeOK(ack, win) ==
    /\ ack <= 1 + devRcvd
    /\ ack + win * Unit <= 1 + devRead + Buf

\* Until the SYN-ACK is taken nothing but the SYN has been sent.
ShakeInv ==
    Handshaking =>
        /\ sentTotal = 0 /\ devRcvd = 0 /\ sent_bytes = 0 /\ sendable_bytes = 0
        /\ pc = "connect" => tx = <<>> /\ devPhase = "listen"
        /\ devPhase = "listen" => rx = <<>>
        /\ pc = "synack" => \/ /\ devPhase = "listen" /\ Len(tx) = 1 /\ tx[1].flags = "SYN"
                              /\ tx[1].len = 0
                            \/ devPhase \in {"synrcvd", "open"} /\ tx = <<>>
        /\ \A i \in 1 .. Len(rx) : rx[i].ack = 1

FlowInv ==
    /\ ~Handshaking => Chain(tx, devRcvd, sentTotal) /\ sent_bytes = 1 + sentTotal
    /\ sentTotal + sendable_bytes <= devRead + Buf
    /\ \A i \in 1 .. Len(rx) : EdgeOK(rx[i].ack, rx[i].win)
    /\ EdgeOK(device_last_received_bytes, device_last_window_size)
    /\ pc = "sending" => /\ out.seq = sent_bytes /\ out.flags = "ACK"
                         /\ sentTotal + out.len <= devRead + Buf

IInv == TypeOK /\ ShakeInv /\ (SentUnwrapped => FlowInv)

\* The fields of a packet of the host are natural numbers.
LEMMA PacketFields ==
    ASSUME NEW p \in Packet
    PROVE  p.seq \in Nat /\ p.ack \in Nat /\ p.len \in Nat
  BY ConstantsAssumption DEF Packet

\* Appending the packet that starts at the next byte extends the chain by its bytes.
LEMMA ChainAppend ==
    ASSUME NEW t \in Seq(Packet), NEW lo \in Nat, NEW hi \in Nat, NEW p \in Packet,
           Chain(t, lo, hi), p.seq = 1 + hi, p.flags # "SYN"
    PROVE  Chain(Append(t, p), lo, hi + p.len)
  <1>1. p.len \in Nat /\ p.seq \in Nat
    BY PacketFields
  <1>2. \A i \in 1 .. Len(t) : t[i].seq \in Nat /\ t[i].len \in Nat
    <2>1. \A i \in 1 .. Len(t) : t[i] \in Packet
      OBVIOUS
    <2> QED
      BY <2>1, PacketFields
  <1> DEFINE u == Append(t, p)
  <1>3. /\ Len(t) \in Nat /\ Len(u) = Len(t) + 1 /\ u[Len(t) + 1] = p /\ u # <<>>
        /\ \A i \in 1 .. Len(t) : u[i] = t[i]
    OBVIOUS
  <1>4. u[1].seq = 1 + lo
    BY <1>3 DEF Chain
  <1>5. \A i \in 1 .. Len(u) : u[i].flags # "SYN" /\ u[i].seq + u[i].len <= 1 + (hi + p.len)
    <2> SUFFICES ASSUME NEW i \in 1 .. Len(u)
                 PROVE  u[i].flags # "SYN" /\ u[i].seq + u[i].len <= 1 + (hi + p.len)
      OBVIOUS
    <2>1. CASE i = Len(t) + 1
      BY <1>1, <1>3, <2>1
    <2>2. CASE i \in 1 .. Len(t)
      <3>1. t[i].flags # "SYN" /\ t[i].seq + t[i].len <= 1 + hi /\ u[i] = t[i]
        BY <1>3, <2>2 DEF Chain
      <3> QED
        BY <1>1, <1>2, <2>2, <3>1, SMTT(30)
    <2> QED
      BY <1>3, <2>1, <2>2
  <1>6. \A i \in 1 .. Len(u) - 1 : u[i + 1].seq = u[i].seq + u[i].len
    <2> SUFFICES ASSUME NEW i \in 1 .. Len(t)
                 PROVE  u[i + 1].seq = u[i].seq + u[i].len
      BY <1>3
    <2>1. CASE i = Len(t)
      BY <1>1, <1>2, <1>3, <2>1 DEF Chain
    <2>2. CASE i \in 1 .. Len(t) - 1
      BY <1>3, <2>2 DEF Chain
    <2> QED
      BY <1>3, <2>1, <2>2
  <1> HIDE DEF u
  <1>7. lo <= hi + p.len /\ u[Len(u)].seq + u[Len(u)].len = 1 + (hi + p.len)
    <2>1. lo <= hi
      BY DEF Chain
    <2> QED
      BY <1>1, <1>3, <2>1
  <1>8. Chain(u, lo, hi + p.len)
    BY <1>3, <1>4, <1>5, <1>6, <1>7 DEF Chain
  <1> QED
    BY <1>8 DEF u

\* Taking the first packet leaves the chain that starts after its bytes.
LEMMA ChainTail ==
    ASSUME NEW t \in Seq(Packet), NEW lo \in Nat, NEW hi \in Nat,
           Chain(t, lo, hi), t # <<>>
    PROVE  Chain(Tail(t), lo + Head(t).len, hi)
  <1>2. \A i \in 1 .. Len(t) : t[i].seq \in Nat /\ t[i].len \in Nat
    <2>1. \A i \in 1 .. Len(t) : t[i] \in Packet
      OBVIOUS
    <2> QED
      BY <2>1, PacketFields
  <1> DEFINE u == Tail(t)
  <1>3. /\ Len(t) \in Nat \ {0} /\ Len(u) = Len(t) - 1 /\ Head(t) = t[1]
        /\ \A i \in 1 .. Len(u) : u[i] = t[i + 1]
        /\ u \in Seq(Packet)
    OBVIOUS
  <1> HIDE DEF u
  <1>4. lo + t[1].len <= hi
    <2>1. 1 \in 1 .. Len(t)
      BY <1>3
    <2>2. t[1].seq + t[1].len <= 1 + hi /\ t[1].seq = 1 + lo
      BY <2>1 DEF Chain
    <2> QED
      BY <1>2, <2>1, <2>2
  <1>5. u = <<>> => lo + t[1].len = hi
    <2>1. u = <<>> => Len(t) = 1
      BY <1>3
    <2>2. t[1].seq = 1 + lo /\ t[Len(t)].seq + t[Len(t)].len = 1 + hi /\ 1 \in 1 .. Len(t)
      BY <1>3 DEF Chain
    <2>3. ASSUME u = <<>> PROVE t[1].seq + t[1].len = 1 + hi
      BY <2>1, <2>2, <2>3
    <2> QED
      BY <1>2, <2>2, <2>3
  <1>6. ASSUME u # <<>> PROVE u[1].seq = 1 + (lo + t[1].len) /\ u[Len(u)] = t[Len(t)]
    <2>1. 1 \in 1 .. Len(t) - 1 /\ Len(u) \in 1 .. Len(u) /\ Len(u) + 1 = Len(t)
      BY <1>3, <1>6
    <2>2. t[1 + 1].seq = t[1].seq + t[1].len /\ t[1].seq = 1 + lo
      BY <1>3, <2>1 DEF Chain
    <2>3. u[1] = t[1 + 1] /\ u[Len(u)] = t[Len(t)]
      BY <1>3, <2>1
    <2>4. t[1].len \in Nat
      BY <1>2, <1>3
    <2>5. 1 + lo + t[1].len = 1 + (lo + t[1].len)
      BY <2>4
    <2> QED
      BY <2>2, <2>3, <2>5
  <1>7. \A i \in 1 .. Len(u) : u[i].flags # "SYN" /\ u[i].seq + u[i].len <= 1 + hi
    <2> SUFFICES ASSUME NEW i \in 1 .. Len(u)
                 PROVE  u[i].flags # "SYN" /\ u[i].seq + u[i].len <= 1 + hi
      OBVIOUS
    <2>1. i + 1 \in 1 .. Len(t) /\ u[i] = t[i + 1]
      BY <1>3
    <2> QED
      BY <2>1 DEF Chain
  <1>8. \A i \in 1 .. Len(u) - 1 : u[i + 1].seq = u[i].seq + u[i].len
    <2> SUFFICES ASSUME NEW i \in 1 .. Len(u) - 1
                 PROVE  u[i + 1].seq = u[i].seq + u[i].len
      OBVIOUS
    <2>0. i \in 1 .. Len(u) /\ i + 1 \in 1 .. Len(u) /\ i + 1 \in 1 .. Len(t) - 1
      BY <1>3
    <2>1. i + 1 \in 1 .. Len(t) - 1 /\ u[i] = t[i + 1] /\ u[i + 1] = t[i + 1 + 1]
      BY <1>3, <2>0
    <2> QED
      BY <2>1 DEF Chain
  <1>9. Chain(u, lo + t[1].len, hi)
    BY <1>3, <1>4, <1>5, <1>6, <1>7, <1>8 DEF Chain
  <1> QED
    BY <1>3, <1>9 DEF u

\* Whatever header it is computed from, sendable_bytes stays within what the device can
\* hold (m), provided the header does and nothing more has been sent already.
LEMMA SendableLemma ==
    ASSUME NEW s \in Nat, NEW w \in Nat, NEW r \in Nat, NEW m \in Nat,
           r <= 1 + s, r + w * Unit <= 1 + m, s <= m
    PROVE  s + calc_sendable_bytes(1 + s, w, r) <= m
  <1>1. w * Unit \in Nat
    BY ProductLemma
  <1>2. /\ calc_sendable_bytes(1 + s, w, r) \in Nat
        /\ calc_sendable_bytes(1 + s, w, r) > 0
             => 1 + s + calc_sendable_bytes(1 + s, w, r) <= r + w * Unit
    BY CalcLemma, ConstantsAssumption
  <1> DEFINE c == calc_sendable_bytes(1 + s, w, r)
             u == w * Unit
  <1> HIDE DEF c, u
  <1>3. u \in Nat /\ c \in Nat /\ (c > 0 => 1 + s + c <= r + u) /\ r + u <= 1 + m
    BY <1>1, <1>2 DEF c, u
  <1>4. s + c <= m
    BY <1>3
  <1> QED
    BY <1>4 DEF c

\* A promise the device has made stays good while it receives and reads more.
LEMMA EdgeMono ==
    ASSUME TypeOK, TypeOK', devRcvd <= devRcvd', devRead <= devRead',
           NEW a \in Nat, NEW w \in Nat, EdgeOK(a, w)
    PROVE  EdgeOK(a, w)'
  <1>1. w * Unit \in Nat
    BY ProductLemma
  <1>2. /\ devRcvd \in Nat /\ devRcvd' \in Nat /\ devRead \in Nat /\ devRead' \in Nat
        /\ Buf \in Nat
    BY ConstantsAssumption DEF TypeOK
  <1>3. \A u, x, y, b \in Nat : a + u <= 1 + x + b /\ x <= y => a + u <= 1 + y + b
    OBVIOUS
  <1>4. a <= 1 + devRcvd'
    <2>1. \A x, y \in Nat : a <= 1 + x /\ x <= y => a <= 1 + y
      OBVIOUS
    <2>2. a <= 1 + devRcvd
      BY DEF EdgeOK
    <2> QED
      BY <1>2, <2>1, <2>2
  <1>5. a + w * Unit <= 1 + devRead' + Buf
    BY <1>1, <1>2, <1>3 DEF EdgeOK
  <1> QED
    BY <1>4, <1>5 DEF EdgeOK

\* The handshake part of the invariant is kept by every step.
LEMMA ShakeStep == TypeOK /\ ShakeInv /\ [Next]_vars => ShakeInv'
  <1> SUFFICES ASSUME TypeOK, ShakeInv, [Next]_vars, Handshaking' PROVE ShakeInv'
    BY DEF ShakeInv
  <1>t. tx \in Seq(Packet) /\ rx \in Seq(DevicePacket) /\ Len(rx) \in Nat /\ Len(tx) \in Nat
    BY DEF TypeOK
  <1>1. CASE SendSyn
    <2>1. tx' = <<HostPacket("SYN", 0)>> /\ pc = "connect" /\ pc' = "synack"
      BY <1>1 DEF SendSyn, ShakeInv, Handshaking
    <2>2. Len(tx') = 1 /\ tx'[1].flags = "SYN" /\ tx'[1].len = 0
      BY <2>1 DEF HostPacket
    <2> QED
      BY <1>1, <2>1, <2>2 DEF SendSyn, ShakeInv, Handshaking, connVars, devVars, ghosts
  <1>2. CASE Handler /\ ~SendSyn
    BY <1>2 DEF Handler, Handshaking, RecvSynAck, SendHandshakeAck, RecvAndAck, RecvAckPending,
                AckSent, ClientSend, SendPending, Enqueue, SendRst
  <1>3. CASE Client
    <2>1. CASE \E k \in 0 .. MaxRead : ClientRead(k)
      BY <2>1 DEF Handshaking, ClientRead, SendBytes, Enqueue
    <2> QED
      BY <1>3, <2>1 DEF Client, Handshaking, ClientEof, ClientFails, Selecting
  <1>4. CASE DeviceReceive
    <2>1. Handshaking /\ pc' = pc /\ tx # <<>>
      BY <1>4 DEF DeviceReceive, Handshaking
    <2>2. /\ pc = "synack" /\ devPhase = "listen" /\ Len(tx) = 1 /\ tx[1].flags = "SYN"
          /\ tx[1].len = 0
      BY <2>1 DEF ShakeInv, Handshaking
    <2>3. Head(tx) = tx[1] /\ Tail(tx) = <<>>
      <3>1. Tail(tx) \in Seq(Packet) /\ Len(Tail(tx)) = 0 /\ Head(tx) = tx[1]
        BY <1>t, <2>1, <2>2
      <3>2. \A q \in Seq(Packet) : Len(q) = 0 => q = <<>>
        BY EmptySeq
      <3> QED
        BY <3>1, <3>2
    <2>4. devRcvd' = 0 /\ devPhase' = "synrcvd" /\ tx' = <<>>
      BY <1>4, <2>1, <2>2, <2>3 DEF DeviceReceive, ShakeInv
    <2> QED
      BY <1>4, <2>1, <2>2, <2>4 DEF DeviceReceive, ShakeInv, Handshaking, connVars, ghosts
  <1>5. ASSUME Handshaking, NEW p, rx' = Append(rx, p), p.ack = DevView[1], devPhase' = "open",
               devPhase # "listen", pc' = pc, UNCHANGED <<tx, devRcvd, connVars, ghosts>>
        PROVE  ShakeInv'
    <2>1. devRcvd = 0
      BY <1>5 DEF ShakeInv
    <2>2. DevView[1] = 1
      BY <2>1, ModLemma, ConstantsAssumption DEF DevView
    <2>3. \A i \in 1 .. Len(rx') : rx'[i].ack = 1
      <3>1. \A i \in 1 .. Len(rx) : rx[i].ack = 1
        BY <1>5 DEF ShakeInv
      <3> QED
        BY <1>t, <1>5, <2>2, <3>1
    <2> QED
      BY <1>5, <2>3 DEF ShakeInv, Handshaking, connVars, ghosts
  <1>6. CASE DeviceSynAck
    BY <1>5, <1>6 DEF DeviceSynAck, Handshaking
  <1>7. ASSUME NEW n \in Nat, DeviceSend(n) PROVE ShakeInv'
    BY <1>5, <1>7 DEF DeviceSend, Handshaking
  <1>8. ASSUME NEW n \in 1 .. ClientBytes, DeviceRead(n) PROVE ShakeInv'
    BY <1>8 DEF DeviceRead, ShakeInv, Handshaking, connVars, ghosts
  <1>9. CASE UNCHANGED vars
    BY <1>9 DEF ShakeInv, Handshaking, vars, connVars, devVars, ghosts
  <1> QED
    BY <1>1, <1>2, <1>3, <1>4, <1>6, <1>7, <1>8, <1>9, ConstantsAssumption
       DEF Next, Device, DeviceUpdate

\* The window and order part of the invariant is kept by every step that leaves
\* sent_bytes unwrapped.
LEMMA FlowStep ==
    ASSUME IInv, TypeOK', [Next]_vars, SentUnwrapped'
    PROVE  FlowInv'
  <1>ty. TypeOK /\ ShakeInv
    BY DEF IInv
  <1>n. /\ sentTotal \in Nat /\ devRcvd \in Nat /\ devRead \in Nat /\ Buf \in Nat /\ W \in Nat
        /\ sent_bytes \in Nat /\ sendable_bytes \in Nat /\ sentTotal' \in Nat
        /\ device_last_received_bytes \in Nat /\ device_last_window_size \in Nat
        /\ tx \in Seq(Packet) /\ rx \in Seq(DevicePacket) /\ Len(tx) \in Nat /\ Len(rx) \in Nat
    <2>1. TypeOK'
      OBVIOUS
    <2>2. sentTotal' \in Nat
      BY <2>1 DEF TypeOK
    <2>3. /\ sentTotal \in Nat /\ devRcvd \in Nat /\ devRead \in Nat /\ sent_bytes \in Nat
          /\ sendable_bytes \in Nat /\ device_last_received_bytes \in Nat
          /\ device_last_window_size \in Nat /\ tx \in Seq(Packet) /\ rx \in Seq(DevicePacket)
      BY <1>ty DEF TypeOK
    <2> QED
      BY <2>2, <2>3, ConstantsAssumption
  <1>p. \A q \in DevicePacket : q.ack \in Nat /\ q.win \in Nat
    BY ConstantsAssumption DEF DevicePacket
  <1>rx. \A i \in 1 .. Len(rx) : rx[i] \in DevicePacket
    BY <1>n
  \* A sent count that is not touched was unwrapped before.
  <1>u. ASSUME sentTotal <= sentTotal' PROVE FlowInv
    <2>0. \A x, y, z \in Nat : x <= y /\ 1 + y < z => 1 + x < z
      OBVIOUS
    <2>1. SentUnwrapped
      BY <1>n, <1>u, <2>0 DEF SentUnwrapped
    <2> QED
      BY <2>1 DEF IInv
  \* Taking the first packet of rx keeps the promises of the others.
  <1>h. ASSUME FlowInv, rx # <<>>, rx' = Tail(rx), UNCHANGED <<devRcvd, devRead>>
        PROVE  /\ \A i \in 1 .. Len(rx') : EdgeOK(rx[i].ack, rx[i].win)'
               /\ EdgeOK(Head(rx).ack, Head(rx).win)
               /\ Head(rx).ack \in Nat /\ Head(rx).win \in Nat
    <2>1. /\ Len(rx') = Len(rx) - 1 /\ Head(rx) = rx[1] /\ 1 \in 1 .. Len(rx)
          /\ \A i \in 1 .. Len(rx') : rx'[i] = rx[i + 1] /\ i + 1 \in 1 .. Len(rx)
      BY <1>h, <1>n
    <2>2. \A i \in 1 .. Len(rx) : EdgeOK(rx[i].ack, rx[i].win)
      BY <1>h DEF FlowInv
    <2>3. \A i \in 1 .. Len(rx') : EdgeOK(rx'[i].ack, rx'[i].win)
      BY <2>1, <2>2
    <2> QED
      BY <1>h, <1>p, <1>rx, <2>1, <2>2, <2>3 DEF EdgeOK
  \* The bound on what may be sent next, from a promise of the device.
  <1>s. ASSUME FlowInv, ~Handshaking, NEW a \in Nat, NEW w \in Nat, EdgeOK(a, w)
        PROVE  sentTotal + calc_sendable_bytes(sent_bytes, w, a) <= devRead + Buf
    <2>1. sent_bytes = 1 + sentTotal /\ devRcvd <= sentTotal
      BY <1>s DEF FlowInv, Chain
    <2>2. a <= 1 + sentTotal
      BY <1>n, <1>s, <2>1 DEF EdgeOK
    <2>3. a + w * Unit <= 1 + (devRead + Buf) /\ w * Unit \in Nat
      BY <1>n, <1>s, ProductLemma DEF EdgeOK
    <2>4. sentTotal <= devRead + Buf /\ devRead + Buf \in Nat
      BY <1>n, <1>s DEF FlowInv
    <2> QED
      BY <1>n, <2>1, <2>2, <2>3, <2>4, SendableLemma
  \* A packet without payload extends the chain by nothing.
  <1>a. ASSUME FlowInv, ~Handshaking, NEW q \in Packet, q.flags # "SYN", q.seq = sent_bytes,
               q.len = 0
        PROVE  Chain(Append(tx, q), devRcvd, sentTotal)
    <2>1. Chain(tx, devRcvd, sentTotal) /\ q.seq = 1 + sentTotal
      BY <1>a DEF FlowInv
    <2>2. Chain(Append(tx, q), devRcvd, sentTotal + q.len)
      BY <1>a, <1>n, <2>1, ChainAppend
    <2>3. sentTotal + q.len = sentTotal
      BY <1>a, <1>n
    <2> QED
      BY <2>2, <2>3
  <1>f. ASSUME NEW f \in {"ACK", "RST"}, NEW n \in 0 .. MaxPayload
        PROVE  /\ HostPacket(f, n) \in Packet /\ HostPacket(f, n).flags = f
               /\ HostPacket(f, n).seq = sent_bytes /\ HostPacket(f, n).len = n
    BY <1>ty DEF TypeOK, HostPacket, Packet
  \* A data packet that starts at the next byte and fits what the device can hold.
  <1>e. ASSUME FlowInv, ~Handshaking, NEW q \in Packet, q.flags = "ACK", q.seq = sent_bytes,
               sentTotal + q.len <= devRead + Buf, Enqueue(q),
               UNCHANGED <<rx, devRcvd, devRead, device_last_received_bytes,
                           device_last_window_size>>
        PROVE  FlowInv'
    <2>1. Chain(tx, devRcvd, sentTotal) /\ sent_bytes = 1 + sentTotal /\ devRcvd <= sentTotal
      BY <1>e DEF FlowInv, Chain
    <2>2. q.len \in Nat /\ sentTotal' = sentTotal + q.len
      BY <1>e, PacketFields DEF Enqueue
    <2>3. Chain(tx', devRcvd', sentTotal')
      BY <1>e, <1>n, <2>1, <2>2, ChainAppend DEF Enqueue
    <2>4. sent_bytes' = 1 + sentTotal'
      <3>1. sent_bytes + q.len = 1 + sentTotal' /\ 1 + sentTotal' \in Nat /\ 1 + sentTotal' < W
        BY <1>n, <2>1, <2>2 DEF SentUnwrapped
      <3> QED
        BY <1>e, <3>1, ModLemma DEF Enqueue
    <2>5. EdgeOK(device_last_received_bytes, device_last_window_size)
      BY <1>e DEF FlowInv
    <2>6. sentTotal' + sendable_bytes' <= devRead + Buf
      <3>1. device_last_received_bytes <= 1 + sentTotal'
        BY <1>n, <2>1, <2>2, <2>5, SMTT(30) DEF EdgeOK
      <3>2. device_last_received_bytes + device_last_window_size * Unit <= 1 + (devRead + Buf)
        BY <1>n, <2>5, ProductLemma DEF EdgeOK
      <3>3. sentTotal' <= devRead + Buf /\ devRead + Buf \in Nat
        BY <1>e, <1>n, <2>2
      <3>4. sentTotal' + calc_sendable_bytes(1 + sentTotal', device_last_window_size,
                                             device_last_received_bytes) <= devRead + Buf
        BY <1>n, <3>1, <3>2, <3>3, SendableLemma
      <3> QED
        BY <1>e, <2>4, <3>4 DEF Enqueue
    <2> QED
      BY <1>e, <2>3, <2>4, <2>5, <2>6 DEF FlowInv, Enqueue, EdgeOK
  \* What the device advertises now is a promise it can keep.
  <1>d. ASSUME FlowInv, NEW q, q.ack = DevView[1], q.win = DevView[2], rx' = Append(rx, q),
               UNCHANGED <<pc, connVars, tx, out, devRcvd, devRead, sentTotal>>
        PROVE  FlowInv'
    <2>1. devRcvd <= sentTotal /\ sentTotal <= devRead + Buf
      BY <1>d, <1>n, <1>ty DEF FlowInv, ShakeInv, Chain
    <2>2. (1 + devRcvd) % W = 1 + devRcvd
      <3>1. 1 + devRcvd \in Nat /\ 1 + devRcvd < W
        BY <1>d, <1>n, <2>1 DEF SentUnwrapped
      <3> QED
        BY <3>1, ModLemma
    <2>3. DevView[1] = 1 + devRcvd /\ DevView[2] = DevFree \div Unit
      BY <1>ty, <2>2, DevViewLemma
    <2>4. 1 + devRcvd + DevFree <= 1 + devRead + Buf
      BY <1>n, <2>1 DEF DevFree
    <2>5. EdgeOK(DevView[1], DevView[2])
      <3>1. DevFree \in Nat /\ (DevFree \div Unit) * Unit <= DevFree
            /\ (DevFree \div Unit) * Unit \in Nat
        BY <1>n, <1>ty, DevViewLemma, ProductLemma
      <3>2. \A x, y, z, v \in Nat : x <= y /\ z + y <= v => z + x <= v
        OBVIOUS
      <3>3. 1 + devRcvd \in Nat /\ 1 + devRead + Buf \in Nat /\ 1 + devRcvd <= 1 + devRcvd
        BY <1>n
      <3>4. 1 + devRcvd + (DevFree \div Unit) * Unit <= 1 + devRead + Buf
        BY <2>4, <3>1, <3>2, <3>3
      <3> QED
        BY <2>3, <3>3, <3>4 DEF EdgeOK
    <2>6. \A i \in 1 .. Len(rx') : EdgeOK(rx'[i].ack, rx'[i].win)
      <3>1. \A i \in 1 .. Len(rx) : EdgeOK(rx[i].ack, rx[i].win)
        BY <1>d DEF FlowInv
      <3> QED
        BY <1>d, <1>n, <2>5, <3>1
    <2> QED
      BY <1>d, <2>6 DEF FlowInv, EdgeOK, Handshaking, connVars
  <1>1. CASE SendSyn
    BY <1>1, <1>n, <1>u DEF SendSyn, FlowInv, EdgeOK, Handshaking, connVars, devVars, ghosts
  <1>2. CASE RecvSynAck
    <2>1. /\ FlowInv /\ rx # <<>> /\ rx' = Tail(rx) /\ pc = "synack" /\ pc' = "hsack"
          /\ UNCHANGED <<devRcvd, devRead, sendable_bytes, sentTotal, tx>>
      BY <1>2, <1>n, <1>u DEF RecvSynAck, devVars, ghosts
    <2>2. Head(rx).ack = 1 /\ tx = <<>> /\ devRcvd = 0 /\ sentTotal = 0 /\ sent_bytes = 0
      BY <1>n, <1>ty, <2>1 DEF ShakeInv, Handshaking
    <2>3. sent_bytes' = 1 + sentTotal'
      <3>1. 1 % W = 1
        BY ModLemma, ConstantsAssumption
      <3> QED
        BY <1>2, <2>1, <2>2, <3>1 DEF RecvSynAck
    <2>4. Chain(tx', devRcvd', sentTotal')
      BY <2>1, <2>2 DEF Chain
    <2>5. EdgeOK(device_last_received_bytes, device_last_window_size)'
      BY <1>2, <1>h, <2>1 DEF RecvSynAck, EdgeOK
    <2> QED
      BY <1>h, <2>1, <2>3, <2>4, <2>5 DEF FlowInv
  <1>3. CASE SendHandshakeAck
    <2>1. FlowInv /\ ~Handshaking /\ UNCHANGED <<sentTotal, devRcvd, devRead, rx, sent_bytes,
                                                 device_last_received_bytes, device_last_window_size>>
      BY <1>3, <1>n, <1>u DEF SendHandshakeAck, Handshaking, devVars, ghosts
    <2>2. Chain(tx', devRcvd, sentTotal)
      BY <1>3, <1>a, <1>f, <2>1, ConstantsAssumption DEF SendHandshakeAck
    <2>3. sentTotal + sendable_bytes' <= devRead + Buf
      BY <1>3, <1>n, <1>s, <2>1 DEF SendHandshakeAck, FlowInv
    <2> QED
      BY <1>3, <2>1, <2>2, <2>3 DEF SendHandshakeAck, FlowInv, EdgeOK
  <1>4. CASE RecvAndAck
    <2>1. /\ FlowInv /\ ~Handshaking /\ rx # <<>> /\ rx' = Tail(rx) /\ pc' = "toclient"
          /\ UNCHANGED <<sentTotal, devRcvd, devRead, sent_bytes>>
      BY <1>4, <1>n, <1>u DEF RecvAndAck, SetFromHeader, Handshaking, devVars, ghosts
    <2>2. /\ \A i \in 1 .. Len(rx') : EdgeOK(rx[i].ack, rx[i].win)'
          /\ EdgeOK(Head(rx).ack, Head(rx).win)
          /\ Head(rx).ack \in Nat /\ Head(rx).win \in Nat
      BY <1>h, <2>1
    <2>3. EdgeOK(device_last_received_bytes, device_last_window_size)'
      BY <1>4, <2>1, <2>2 DEF RecvAndAck, SetFromHeader, EdgeOK
    <2>4. Chain(tx', devRcvd, sentTotal)
      <3> DEFINE q == [HostPacket("ACK", 0) EXCEPT !.ack = received_bytes']
      <3>1. received_bytes' \in 0 .. W - 1
        BY DEF TypeOK
      <3>2. q \in Packet /\ q.flags # "SYN" /\ q.seq = sent_bytes /\ q.len = 0
        BY <1>f, <3>1, ConstantsAssumption DEF HostPacket, Packet
      <3> HIDE DEF q
      <3>3. tx' = Append(tx, q)
        BY <1>4 DEF RecvAndAck, q
      <3> QED
        BY <1>a, <2>1, <3>2, <3>3
    <2>5. sentTotal + sendable_bytes' <= devRead + Buf
      BY <1>4, <1>s, <2>1, <2>2 DEF RecvAndAck
    <2> QED
      BY <2>1, <2>2, <2>3, <2>4, <2>5 DEF FlowInv
  <1>5. CASE RecvAckPending
    <2>1. /\ FlowInv /\ ~Handshaking /\ rx # <<>> /\ rx' = Tail(rx) /\ pc' = "acking"
          /\ UNCHANGED <<sentTotal, devRcvd, devRead, sent_bytes, tx, sendable_bytes>>
      BY <1>5, <1>n, <1>u DEF RecvAckPending, SetFromHeader, Handshaking, devVars, ghosts
    <2>2. EdgeOK(device_last_received_bytes, device_last_window_size)'
      BY <1>5, <1>h, <2>1 DEF RecvAckPending, SetFromHeader, EdgeOK
    <2> QED
      BY <1>h, <2>1, <2>2 DEF FlowInv
  <1>6. CASE AckSent
    <2>1. FlowInv /\ ~Handshaking /\ UNCHANGED <<sentTotal, devRcvd, devRead, rx, sent_bytes,
                                                 device_last_received_bytes, device_last_window_size>>
      BY <1>6, <1>n, <1>u DEF AckSent, Handshaking, devVars, ghosts
    <2>2. Chain(tx', devRcvd, sentTotal)
      BY <1>6, <1>a, <1>f, <2>1, ConstantsAssumption DEF AckSent
    <2>3. sentTotal + sendable_bytes' <= devRead + Buf
      BY <1>6, <1>n, <1>s, <2>1 DEF AckSent, FlowInv
    <2> QED
      BY <1>6, <2>1, <2>2, <2>3 DEF AckSent, FlowInv, EdgeOK
  <1>7. CASE ClientSend
    BY <1>7, <1>n, <1>u DEF ClientSend, FlowInv, EdgeOK, Handshaking, connVars, devVars
  <1>8. CASE SendPending
    <2>1. out \in Packet /\ out.len \in Nat
      BY <1>ty, PacketFields DEF TypeOK
    <2>2. sentTotal <= sentTotal'
      BY <1>8, <1>n, <2>1 DEF SendPending, Enqueue
    <2>3. /\ FlowInv /\ ~Handshaking /\ Enqueue(out) /\ pc = "sending"
          /\ UNCHANGED <<rx, devRcvd, devRead, device_last_received_bytes, device_last_window_size>>
      BY <1>8, <1>u, <2>2 DEF SendPending, Handshaking, devVars
    <2>4. out.seq = sent_bytes /\ out.flags = "ACK" /\ sentTotal + out.len <= devRead + Buf
      BY <2>3 DEF FlowInv
    <2> QED
      BY <1>e, <2>1, <2>3, <2>4
  <1>9. CASE SendRst
    <2>1. FlowInv /\ ~Handshaking /\ UNCHANGED <<connVars, sentTotal, devRcvd, devRead, rx>>
      BY <1>9, <1>n, <1>u DEF SendRst, Handshaking, devVars, ghosts
    <2>2. Chain(tx', devRcvd, sentTotal)
      BY <1>9, <1>a, <1>f, <2>1, ConstantsAssumption DEF SendRst
    <2> QED
      BY <1>9, <2>1, <2>2 DEF SendRst, FlowInv, EdgeOK, connVars
  <1>10. ASSUME NEW k \in 0 .. MaxRead, ClientRead(k) PROVE FlowInv'
    <2> DEFINE n == SmallerOf(sendable_bytes, read_buf + k)
    <2>1. n \in 0 .. MaxPayload /\ n <= sendable_bytes
      BY <1>ty, ConstantsAssumption DEF TypeOK, SmallerOf
    <2>2. SendBytes(n)
      BY <1>10 DEF ClientRead
    <2> HIDE DEF n
    <2>3. HostPacket("ACK", n) \in Packet /\ HostPacket("ACK", n).flags = "ACK"
          /\ HostPacket("ACK", n).seq = sent_bytes /\ HostPacket("ACK", n).len = n
      BY <1>f, <2>1
    <2>4. sentTotal <= sentTotal'
      BY <1>n, <2>1, <2>2, <2>3 DEF SendBytes, Enqueue
    <2>5. /\ FlowInv /\ ~Handshaking
          /\ UNCHANGED <<rx, devRcvd, devRead, device_last_received_bytes, device_last_window_size>>
      BY <1>10, <1>u, <2>4 DEF ClientRead, Selecting, Handshaking, devVars
    <2>6. sentTotal + n <= devRead + Buf
      BY <1>n, <2>1, <2>5, ConstantsAssumption DEF FlowInv
    <2>7. CASE Enqueue(HostPacket("ACK", n))
      BY <1>e, <2>3, <2>5, <2>6, <2>7
    <2>8. CASE out' = HostPacket("ACK", n) /\ pc' = "sending"
               /\ UNCHANGED <<tx, sent_bytes, sentTotal, sendable_bytes>>
      BY <2>3, <2>5, <2>6, <2>8 DEF FlowInv, EdgeOK, Handshaking
    <2> QED
      BY <2>2, <2>7, <2>8 DEF SendBytes
  <1>11. CASE ClientEof
    BY <1>11, <1>n, <1>u DEF ClientEof, Selecting, FlowInv, EdgeOK, Handshaking, connVars, devVars
  <1>12. CASE ClientFails
    <2>1. FlowInv /\ ~Handshaking /\ UNCHANGED <<connVars, sentTotal, devRcvd, devRead, rx>>
      BY <1>12, <1>n, <1>u DEF ClientFails, Selecting, Handshaking, devVars, ghosts
    <2>2. Chain(Append(tx, HostPacket("RST", 0)), devRcvd, sentTotal)
      BY <1>a, <1>f, <2>1, ConstantsAssumption
    <2>3. Chain(tx', devRcvd, sentTotal)
      BY <1>12, <2>1, <2>2 DEF ClientFails, FlowInv
    <2> QED
      BY <1>12, <2>1, <2>3 DEF ClientFails, FlowInv, EdgeOK, connVars
  <1>13. CASE DeviceReceive
    <2>1. /\ FlowInv /\ tx # <<>> /\ devRcvd' = devRcvd + Head(tx).len /\ tx' = Tail(tx)
          /\ UNCHANGED <<pc, connVars, rx, out, devRead, sentTotal>>
      BY <1>13, <1>n, <1>u DEF DeviceReceive, ghosts
    <2>2. Head(tx).len \in Nat
      BY <1>n, <2>1, PacketFields
    <2>3. devRcvd <= devRcvd' /\ devRead <= devRead'
      BY <1>n, <2>1, <2>2
    <2>4. ~Handshaking => Chain(tx', devRcvd', sentTotal')
      BY <1>n, <2>1, ChainTail DEF FlowInv
    <2>5. \A i \in 1 .. Len(rx) : rx[i].ack \in Nat /\ rx[i].win \in Nat
      BY <1>p, <1>rx
    <2>6. \A i \in 1 .. Len(rx) : EdgeOK(rx[i].ack, rx[i].win)'
      <3> SUFFICES ASSUME NEW i \in 1 .. Len(rx) PROVE EdgeOK(rx[i].ack, rx[i].win)'
        OBVIOUS
      <3> DEFINE a == rx[i].ack
                 w == rx[i].win
      <3>1. a \in Nat /\ w \in Nat /\ EdgeOK(a, w) /\ rx' = rx
        BY <2>1, <2>5 DEF FlowInv, connVars
      <3> QED
        BY <1>ty, <2>3, <3>1, EdgeMono DEF EdgeOK
    <2>7. EdgeOK(device_last_received_bytes, device_last_window_size)'
      <3>1. EdgeOK(device_last_received_bytes, device_last_window_size)
        BY <2>1 DEF FlowInv
      <3> QED
        BY <1>n, <1>ty, <2>1, <2>3, <3>1, EdgeMono DEF EdgeOK, connVars
    <2> QED
      BY <2>1, <2>4, <2>6, <2>7 DEF FlowInv, Handshaking, connVars
  <1>14. CASE DeviceSynAck
    BY <1>14, <1>d, <1>n, <1>u DEF DeviceSynAck, ghosts
  <1>15. ASSUME NEW n \in Nat, DeviceSend(n) PROVE FlowInv'
    BY <1>15, <1>d, <1>n, <1>u DEF DeviceSend, ghosts
  <1>16. ASSUME NEW n \in 1 .. ClientBytes, DeviceRead(n) PROVE FlowInv'
    <2>1. /\ FlowInv /\ devRead' = devRead + n
          /\ UNCHANGED <<pc, connVars, tx, rx, out, devRcvd, sentTotal>>
      BY <1>16, <1>n, <1>u DEF DeviceRead, ghosts
    <2>2. devRead <= devRead' /\ devRcvd <= devRcvd'
      BY <1>n, <2>1
    <2>3. \A i \in 1 .. Len(rx) : EdgeOK(rx[i].ack, rx[i].win)'
      <3> SUFFICES ASSUME NEW i \in 1 .. Len(rx) PROVE EdgeOK(rx[i].ack, rx[i].win)'
        OBVIOUS
      <3> DEFINE a == rx[i].ack
                 w == rx[i].win
      <3>1. a \in Nat /\ w \in Nat /\ EdgeOK(a, w) /\ rx' = rx
        BY <1>p, <1>rx, <2>1 DEF FlowInv, connVars
      <3> QED
        BY <1>ty, <2>2, <3>1, EdgeMono DEF EdgeOK
    <2>4. EdgeOK(device_last_received_bytes, device_last_window_size)'
      <3>1. EdgeOK(device_last_received_bytes, device_last_window_size)
        BY <2>1 DEF FlowInv
      <3> QED
        BY <1>n, <1>ty, <2>1, <2>2, <3>1, EdgeMono DEF EdgeOK, connVars
    <2>5. \A x \in Nat : x <= devRead + Buf => x <= devRead' + Buf
      BY <1>n, <2>1
    <2>6. sentTotal + sendable_bytes <= devRead' + Buf
      BY <1>n, <2>1, <2>5 DEF FlowInv
    <2>7. pc = "sending" => sentTotal + out.len <= devRead' + Buf
      <3>1. out.len \in Nat
        BY <1>ty, PacketFields DEF TypeOK
      <3> QED
        BY <1>n, <2>1, <2>5, <3>1 DEF FlowInv
    <2> QED
      BY <2>1, <2>3, <2>4, <2>6, <2>7 DEF FlowInv, Handshaking, connVars
  <1>17. CASE UNCHANGED vars
    BY <1>17, <1>n, <1>u DEF FlowInv, EdgeOK, Handshaking, vars, connVars, devVars, ghosts
  <1> QED
    BY <1>1, <1>2, <1>3, <1>4, <1>5, <1>6, <1>7, <1>8, <1>9, <1>10, <1>11, <1>12, <1>13, <1>14,
       <1>15, <1>16, <1>17, ConstantsAssumption DEF Next, Handler, Client, Device, DeviceUpdate

\* The inductive invariant holds on every run.
THEOREM Inductive == Spec => []IInv
  <1>1. Init => IInv
    <2> SUFFICES ASSUME Init PROVE IInv
      OBVIOUS
    <2>1. TypeOK
      BY TypeInit
    <2>2. ShakeInv
      BY DEF Init, ShakeInv, Handshaking
    <2>3. FlowInv
      <3>1. 0 * Unit = 0
        BY ConstantsAssumption, Z3
      <3> QED
        BY <3>1, ConstantsAssumption DEF Init, FlowInv, Handshaking, EdgeOK
    <2> QED
      BY <2>1, <2>2, <2>3 DEF IInv
  <1>2. IInv /\ [Next]_vars => IInv'
    <2> SUFFICES ASSUME IInv, [Next]_vars PROVE IInv'
      OBVIOUS
    <2>1. TypeOK' /\ ShakeInv'
      BY TypeStep, ShakeStep DEF IInv
    <2>2. SentUnwrapped' => FlowInv'
      BY <2>1, FlowStep
    <2> QED
      BY <2>1, <2>2 DEF IInv
  <1> QED
    BY <1>1, <1>2, PTL DEF Spec

\* The device's buffer is never overrun by what the connection has accepted, for every
\* window, buffer, packet and channel size, until sent_bytes wraps.
THEOREM WindowTheorem == Spec => []WindowRespected
  <1>1. IInv => WindowRespected
    <2> SUFFICES ASSUME TypeOK, SentUnwrapped, FlowInv PROVE sentTotal - devRead <= Buf
      BY DEF IInv, WindowRespected
    <2>1. /\ sentTotal \in Nat /\ devRead \in Nat /\ sendable_bytes \in Nat /\ Buf \in Nat
          /\ sentTotal + sendable_bytes <= devRead + Buf
      BY ConstantsAssumption DEF TypeOK, FlowInv
    <2> QED
      BY <2>1
  <1> QED
    BY <1>1, Inductive, PTL

--------------------------------------------------------------------------------
(* The inductive invariant behind the order and the account of the bytes   *)
(* in both directions.  Nothing is assumed of the counters here: they may  *)
(* wrap.  The properties speak of a drained channel, of the head of a      *)
(* channel or of the last acknowledgement received; to reach them through  *)
(* the steps that append and remove, the invariant numbers every byte that *)
(* is under way.                                                           *)

\* The packets of q carry the bytes after the first lo up to the first hi: those up to the
\* end of packet i are c[i].
Sums(q, lo, hi, c) ==
    /\ c \in [0 .. Len(q) -> Nat] /\ c[0] = lo /\ c[Len(q)] = hi
    /\ \A i \in 1 .. Len(q) : c[i] = c[i - 1] + q[i].len

\* Each packet of q is numbered with its first byte.
TxFlow(q, lo, hi) ==
    \E c \in [0 .. Len(q) -> Nat] :
        /\ Sums(q, lo, hi, c)
        /\ \A i \in 1 .. Len(q) : q[i].flags # "SYN" /\ q[i].seq = (1 + c[i - 1]) % W

\* No packet of q has a number beyond its first byte.
RxFlow(q, lo, hi) ==
    \E c \in [0 .. Len(q) -> Nat] :
        /\ Sums(q, lo, hi, c)
        /\ \A i \in 1 .. Len(q) : q[i].seq <= 1 + c[i - 1]

\* tx carries the bytes from the first the device has not received to the last that was
\* accepted; the packet that waits for room will be the next.
TxOrder ==
    ~Handshaking =>
        /\ TxFlow(tx, devRcvd, sentTotal)
        /\ sent_bytes = (1 + sentTotal) % W
        /\ pc = "sending" => out.seq = sent_bytes /\ out.flags # "SYN"

\* rx carries the bytes from the first that no recv() has popped to the last that was sent.
RxOrder == RxFlow(rx, delivered + lost + hand, devSent)

\* No packet is in hand where the next is popped.
HandEmpty == pc \in {"connect", "synack", "hsack", "select", "sending"} => hand = 0

\* The SYN-ACK comes first, and carries nothing.
AnswerFirst ==
    Handshaking =>
        /\ received_bytes = 0
        /\ devPhase \in {"listen", "synrcvd"} => rx = <<>>
        /\ rx # <<>> => rx[1].len = 0 /\ rx[1].seq = 0
        /\ devPhase = "open" => rx # <<>>

\* No acknowledgement that is kept, queued or received is ahead of the bytes that a recv()
\* has finished with.
Taken ==
    /\ received_bytes <= 1 + delivered + lost /\ out.ack <= 1 + delivered + lost
    /\ devAcked <= 1 + delivered + lost
    /\ \A i \in 1 .. Len(tx) : tx[i].ack <= 1 + delivered + lost

StreamInv == TxOrder /\ RxOrder /\ HandEmpty /\ AnswerFirst /\ Taken

\* Every number is a multiple of W and its remainder.
LEMMA Divide ==
    ASSUME NEW a \in Nat
    PROVE  \E q \in Nat, r \in Nat : r < W /\ a = q * W + r
  <1>w. W \in Nat \ {0}
    BY ConstantsAssumption
  <1> DEFINE q == a \div W
  <1>1. q \in Nat /\ q * W <= a /\ a < q * W + W
    BY <1>w, Z3
  <1> HIDE DEF q
  <1> DEFINE m == q * W
  <1>2. m \in Nat
    BY <1>1, <1>w, Z3
  <1>3. m <= a /\ a < m + W
    BY <1>1
  <1> HIDE DEF m
  <1>4. a - m \in Nat /\ a - m < W /\ a = m + (a - m)
    BY <1>w, <1>2, <1>3
  <1> QED
    BY <1>1, <1>4 DEF m

\* A multiple of W leaves no remainder.
LEMMA Remainder ==
    ASSUME NEW q \in Nat, NEW r \in Nat, r < W
    PROVE  (q * W + r) % W = r
  BY ConstantsAssumption, Z3

\* Adding to a remainder is adding to the number it is the remainder of.
LEMMA ModAdd ==
    ASSUME NEW a \in Nat, NEW n \in Nat
    PROVE  ((a % W) + n) % W = (a + n) % W
  <1>w. W \in Nat \ {0}
    BY ConstantsAssumption
  <1>1. PICK q \in Nat, r \in Nat : r < W /\ a = q * W + r
    BY Divide
  <1>2. PICK t \in Nat, s \in Nat : s < W /\ r + n = t * W + s
    <2>1. r + n \in Nat
      OBVIOUS
    <2> QED
      BY <2>1, Divide
  <1>3. a % W = r
    BY <1>1, Remainder
  <1>4. (r + n) % W = s
    BY <1>2, Remainder
  <1>5. (q + t) * W = q * W + t * W /\ q * W \in Nat /\ t * W \in Nat /\ q + t \in Nat
    BY <1>w, Z3
  <1>6. a + n = (q + t) * W + s
    BY <1>1, <1>2, <1>5
  <1>7. (a + n) % W = s
    BY <1>2, <1>5, <1>6, Remainder
  <1> QED
    BY <1>3, <1>4, <1>7, Zenon

\* The lengths that the channels sum up are natural numbers.
LEMMA LengthsNat == (\A x \in Packet : x.len \in Nat) /\ (\A x \in DevicePacket : x.len \in Nat)
  BY ConstantsAssumption DEF Packet, DevicePacket

\* The sums of q go on as those of q with p appended.
Extended(q, p, lo, hi, c) ==
    \E d \in [0 .. Len(Append(q, p)) -> Nat] :
        /\ Sums(Append(q, p), lo, hi + p.len, d)
        /\ \A i \in 0 .. Len(q) : d[i] = c[i]

\* A packet appended carries the bytes after the last.
LEMMA SumsAppend ==
    ASSUME NEW q, NEW p,
           \/ q \in Seq(Packet) /\ p \in Packet
           \/ q \in Seq(DevicePacket) /\ p \in DevicePacket,
           NEW lo \in Nat, NEW hi \in Nat, NEW c \in [0 .. Len(q) -> Nat], Sums(q, lo, hi, c)
    PROVE  Extended(q, p, lo, hi, c)
  <1> DEFINE u == Append(q, p)
  <1> DEFINE d == [i \in 0 .. Len(u) |-> IF i <= Len(q) THEN c[i] ELSE hi + p.len]
  <1>1. /\ Len(q) \in Nat /\ Len(u) = Len(q) + 1 /\ u[Len(q) + 1] = p
        /\ \A i \in 1 .. Len(q) : u[i] = q[i]
    OBVIOUS
  <1>2. p.len \in Nat
    BY LengthsNat
  <1>3. /\ c \in [0 .. Len(q) -> Nat] /\ c[0] = lo /\ c[Len(q)] = hi
        /\ \A i \in 1 .. Len(q) : c[i] = c[i - 1] + q[i].len
    BY DEF Sums
  <1> HIDE DEF u
  <1>4. d \in [0 .. Len(u) -> Nat] /\ (\A i \in 0 .. Len(q) : d[i] = c[i])
        /\ d[Len(u)] = hi + p.len
    BY <1>1, <1>2, <1>3
  <1> HIDE DEF d
  <1>5. \A i \in 1 .. Len(u) : d[i] = d[i - 1] + u[i].len
    <2> TAKE i \in 1 .. Len(u)
    <2>1. CASE i = Len(u)
      <3>1. i - 1 = Len(q) /\ u[i] = p /\ d[i - 1] = c[Len(q)] /\ d[i] = hi + p.len
        BY <1>1, <1>4, <2>1
      <3> QED
        BY <1>3, <3>1
    <2>2. CASE i # Len(u)
      <3>1. i \in 1 .. Len(q) /\ i - 1 \in 0 .. Len(q) /\ i \in 0 .. Len(q)
        BY <1>1, <2>2
      <3>2. u[i] = q[i] /\ d[i] = c[i] /\ d[i - 1] = c[i - 1]
        BY <1>1, <1>4, <3>1
      <3> QED
        BY <1>3, <3>1, <3>2
    <2> QED
      BY <2>1, <2>2
  <1>6. d[0] = lo
    BY <1>1, <1>3, <1>4
  <1> QED
    BY <1>4, <1>5, <1>6 DEF Sums, Extended, u

\* A packet removed leaves the bytes after its own.
LEMMA SumsTail ==
    ASSUME NEW S \in {Packet, DevicePacket}, NEW q \in Seq(S), q # <<>>,
           NEW lo \in Nat, NEW hi \in Nat, NEW c \in [0 .. Len(q) -> Nat], Sums(q, lo, hi, c)
    PROVE  \E d \in [0 .. Len(Tail(q)) -> Nat] :
               /\ Sums(Tail(q), lo + Head(q).len, hi, d)
               /\ \A i \in 0 .. Len(Tail(q)) : d[i] = c[i + 1]
  <1> DEFINE u == Tail(q)
             d == [i \in 0 .. Len(u) |-> c[i + 1]]
  <1>1. /\ Len(q) \in Nat \ {0} /\ Len(u) = Len(q) - 1 /\ Head(q) = q[1]
        /\ \A i \in 1 .. Len(u) : u[i] = q[i + 1]
    OBVIOUS
  <1>2. Head(q).len \in Nat
    BY LengthsNat
  <1>3. /\ c \in [0 .. Len(q) -> Nat] /\ c[0] = lo /\ c[Len(q)] = hi
        /\ \A i \in 1 .. Len(q) : c[i] = c[i - 1] + q[i].len
    BY DEF Sums
  <1> HIDE DEF u
  <1>4. d \in [0 .. Len(u) -> Nat] /\ \A i \in 0 .. Len(u) : d[i] = c[i + 1]
    BY <1>1, <1>3
  <1> HIDE DEF d
  <1>5. \A i \in 1 .. Len(u) : d[i] = d[i - 1] + u[i].len
    <2> TAKE i \in 1 .. Len(u)
    <2>1. i + 1 \in 1 .. Len(q) /\ i \in 0 .. Len(u) /\ i - 1 \in 0 .. Len(u)
      BY <1>1
    <2>2. c[i + 1] = c[(i + 1) - 1] + q[i + 1].len
      BY <1>3, <2>1
    <2>3. (i + 1) - 1 = i /\ (i - 1) + 1 = i
      OBVIOUS
    <2> QED
      BY <1>1, <1>4, <2>1, <2>2, <2>3
  <1>6. d[0] = lo + Head(q).len /\ d[Len(u)] = hi
    <2>1. c[1] = c[1 - 1] + q[1].len /\ 1 - 1 = 0 /\ 0 + 1 = 1
      BY <1>1, <1>3
    <2>2. 0 \in 0 .. Len(u) /\ Len(u) \in 0 .. Len(u) /\ Len(u) + 1 = Len(q)
      BY <1>1
    <2> QED
      BY <1>1, <1>3, <1>4, <2>1, <2>2
  <1> QED
    BY <1>4, <1>5, <1>6 DEF Sums, u

\* An empty channel carries no byte, in either direction.
LEMMA FlowEmpty ==
    ASSUME NEW lo \in Nat
    PROVE  /\ TxFlow(<<>>, lo, lo) /\ RxFlow(<<>>, lo, lo)
           /\ \A hi \in Nat : RxFlow(<<>>, lo, hi) => hi = lo
  <1> DEFINE c == [i \in 0 .. 0 |-> lo]
  <1>1. Len(<<>>) = 0 /\ c \in [0 .. 0 -> Nat] /\ c[0] = lo
    OBVIOUS
  <1> HIDE DEF c
  <1>2. Sums(<<>>, lo, lo, c)
    BY <1>1 DEF Sums
  <1>3. TxFlow(<<>>, lo, lo) /\ RxFlow(<<>>, lo, lo)
    BY <1>1, <1>2 DEF TxFlow, RxFlow
  <1>4. \A hi \in Nat : RxFlow(<<>>, lo, hi) => hi = lo
    BY <1>1 DEF RxFlow, Sums
  <1> QED
    BY <1>3, <1>4

\* tx stays in order when the packet with the next byte is appended.
LEMMA TxFlowAppend ==
    ASSUME NEW q \in Seq(Packet), NEW p \in Packet, NEW lo \in Nat, NEW hi \in Nat,
           TxFlow(q, lo, hi), p.flags # "SYN", p.seq = (1 + hi) % W
    PROVE  TxFlow(Append(q, p), lo, hi + p.len)
  <1>1. PICK c \in [0 .. Len(q) -> Nat] :
               /\ Sums(q, lo, hi, c)
               /\ \A i \in 1 .. Len(q) : q[i].flags # "SYN" /\ q[i].seq = (1 + c[i - 1]) % W
    BY DEF TxFlow
  <1> DEFINE u == Append(q, p)
  <1>3. /\ Len(q) \in Nat /\ Len(u) = Len(q) + 1 /\ u[Len(q) + 1] = p
        /\ \A i \in 1 .. Len(q) : u[i] = q[i]
    OBVIOUS
  <1>4. c[Len(q)] = hi
    BY <1>1 DEF Sums
  <1>h. Extended(q, p, lo, hi, c)
    BY <1>1, SumsAppend
  <1>2. PICK d \in [0 .. Len(u) -> Nat] :
               /\ Sums(u, lo, hi + p.len, d)
               /\ \A i \in 0 .. Len(q) : d[i] = c[i]
    BY <1>h DEF Extended
  <1> HIDE DEF u
  <1>5. \A i \in 1 .. Len(u) : u[i].flags # "SYN" /\ u[i].seq = (1 + d[i - 1]) % W
    <2> TAKE i \in 1 .. Len(u)
    <2>1. CASE i = Len(u)
      <3>1. i - 1 = Len(q) /\ Len(q) \in 0 .. Len(q) /\ u[i] = p
        BY <1>3, <2>1
      <3>2. d[i - 1] = hi
        BY <1>2, <1>4, <3>1
      <3> QED
        BY <3>1, <3>2
    <2>2. CASE i # Len(u)
      <3>1. i \in 1 .. Len(q) /\ i - 1 \in 0 .. Len(q)
        BY <1>3, <2>2
      <3>2. u[i] = q[i] /\ d[i - 1] = c[i - 1]
        BY <1>2, <1>3, <3>1
      <3> QED
        BY <1>1, <3>1, <3>2
    <2> QED
      BY <2>1, <2>2
  <1> QED
    BY <1>2, <1>5 DEF TxFlow, u

\* The head of tx is the packet the device expects, and the rest stays in order.
LEMMA TxFlowTail ==
    ASSUME NEW q \in Seq(Packet), q # <<>>, NEW lo \in Nat, NEW hi \in Nat, TxFlow(q, lo, hi)
    PROVE  /\ TxFlow(Tail(q), lo + Head(q).len, hi)
           /\ Head(q).flags # "SYN" /\ Head(q).seq = (1 + lo) % W
  <1>1. PICK c \in [0 .. Len(q) -> Nat] :
               /\ Sums(q, lo, hi, c)
               /\ \A i \in 1 .. Len(q) : q[i].flags # "SYN" /\ q[i].seq = (1 + c[i - 1]) % W
    BY DEF TxFlow
  <1>2. PICK d \in [0 .. Len(Tail(q)) -> Nat] :
               /\ Sums(Tail(q), lo + Head(q).len, hi, d)
               /\ \A i \in 0 .. Len(Tail(q)) : d[i] = c[i + 1]
    BY <1>1, SumsTail
  <1> DEFINE u == Tail(q)
  <1>3. /\ Len(q) \in Nat \ {0} /\ Len(u) = Len(q) - 1 /\ Head(q) = q[1]
        /\ \A i \in 1 .. Len(u) : u[i] = q[i + 1]
    OBVIOUS
  <1> HIDE DEF u
  <1>4. \A i \in 1 .. Len(u) : u[i].flags # "SYN" /\ u[i].seq = (1 + d[i - 1]) % W
    <2> TAKE i \in 1 .. Len(u)
    <2>1. i + 1 \in 1 .. Len(q) /\ i - 1 \in 0 .. Len(u) /\ (i + 1) - 1 = (i - 1) + 1
      BY <1>3
    <2>2. d[i - 1] = c[(i + 1) - 1] /\ u[i] = q[i + 1]
      BY <1>2, <1>3, <2>1 DEF u
    <2> QED
      BY <1>1, <2>1, <2>2
  <1>5. c[0] = lo /\ 1 - 1 = 0 /\ 1 \in 1 .. Len(q)
    BY <1>1, <1>3 DEF Sums
  <1>6. q[1].flags # "SYN" /\ q[1].seq = (1 + c[1 - 1]) % W
    BY <1>1, <1>5
  <1> QED
    BY <1>2, <1>3, <1>4, <1>5, <1>6 DEF TxFlow, u

\* rx stays in order when the device sends.
LEMMA RxFlowAppend ==
    ASSUME NEW q \in Seq(DevicePacket), NEW p \in DevicePacket, NEW lo \in Nat, NEW hi \in Nat,
           RxFlow(q, lo, hi), p.seq <= 1 + hi
    PROVE  RxFlow(Append(q, p), lo, hi + p.len)
  <1>1. PICK c \in [0 .. Len(q) -> Nat] :
               /\ Sums(q, lo, hi, c)
               /\ \A i \in 1 .. Len(q) : q[i].seq <= 1 + c[i - 1]
    BY DEF RxFlow
  <1> DEFINE u == Append(q, p)
  <1>3. /\ Len(q) \in Nat /\ Len(u) = Len(q) + 1 /\ u[Len(q) + 1] = p
        /\ \A i \in 1 .. Len(q) : u[i] = q[i]
    OBVIOUS
  <1>4. c[Len(q)] = hi
    BY <1>1 DEF Sums
  <1>h. Extended(q, p, lo, hi, c)
    BY <1>1, SumsAppend
  <1>2. PICK d \in [0 .. Len(u) -> Nat] :
               /\ Sums(u, lo, hi + p.len, d)
               /\ \A i \in 0 .. Len(q) : d[i] = c[i]
    BY <1>h DEF Extended
  <1> HIDE DEF u
  <1>5. \A i \in 1 .. Len(u) : u[i].seq <= 1 + d[i - 1]
    <2> TAKE i \in 1 .. Len(u)
    <2>1. CASE i = Len(u)
      <3>1. i - 1 = Len(q) /\ Len(q) \in 0 .. Len(q) /\ u[i] = p
        BY <1>3, <2>1
      <3>2. d[i - 1] = hi
        BY <1>2, <1>4, <3>1
      <3> QED
        BY <3>1, <3>2
    <2>2. CASE i # Len(u)
      <3>1. i \in 1 .. Len(q) /\ i - 1 \in 0 .. Len(q)
        BY <1>3, <2>2
      <3>2. u[i] = q[i] /\ d[i - 1] = c[i - 1]
        BY <1>2, <1>3, <3>1
      <3> QED
        BY <1>1, <3>1, <3>2
    <2> QED
      BY <2>1, <2>2
  <1> QED
    BY <1>2, <1>5 DEF RxFlow, u

\* The head of rx is not numbered beyond the next byte, and the rest stays in order.
LEMMA RxFlowTail ==
    ASSUME NEW q \in Seq(DevicePacket), q # <<>>, NEW lo \in Nat, NEW hi \in Nat,
           RxFlow(q, lo, hi)
    PROVE  RxFlow(Tail(q), lo + Head(q).len, hi) /\ Head(q).seq <= 1 + lo
  <1>1. PICK c \in [0 .. Len(q) -> Nat] :
               /\ Sums(q, lo, hi, c)
               /\ \A i \in 1 .. Len(q) : q[i].seq <= 1 + c[i - 1]
    BY DEF RxFlow
  <1>2. PICK d \in [0 .. Len(Tail(q)) -> Nat] :
               /\ Sums(Tail(q), lo + Head(q).len, hi, d)
               /\ \A i \in 0 .. Len(Tail(q)) : d[i] = c[i + 1]
    BY <1>1, SumsTail
  <1> DEFINE u == Tail(q)
  <1>3. /\ Len(q) \in Nat \ {0} /\ Len(u) = Len(q) - 1 /\ Head(q) = q[1]
        /\ \A i \in 1 .. Len(u) : u[i] = q[i + 1]
    OBVIOUS
  <1> HIDE DEF u
  <1>4. \A i \in 1 .. Len(u) : u[i].seq <= 1 + d[i - 1]
    <2> TAKE i \in 1 .. Len(u)
    <2>1. i + 1 \in 1 .. Len(q) /\ i - 1 \in 0 .. Len(u) /\ (i + 1) - 1 = (i - 1) + 1
      BY <1>3
    <2>2. d[i - 1] = c[(i + 1) - 1] /\ u[i] = q[i + 1]
      BY <1>2, <1>3, <2>1 DEF u
    <2> QED
      BY <1>1, <2>1, <2>2
  <1>5. c[0] = lo /\ 1 - 1 = 0 /\ 1 \in 1 .. Len(q)
    BY <1>1, <1>3 DEF Sums
  <1>6. q[1].seq <= 1 + c[1 - 1]
    BY <1>1, <1>5
  <1> QED
    BY <1>2, <1>3, <1>4, <1>5, <1>6 DEF RxFlow, u

--------------------------------------------------------------------------------
(* What a step does to the two streams.                                    *)

\* The handler appends p to tx: an acknowledgement, a RST or data.
HostSends(p) ==
    /\ ~Handshaking /\ ~Handshaking' /\ pc' # "sending" /\ p \in Packet
    /\ p.flags # "SYN" /\ p.seq = sent_bytes /\ p.ack \in {received_bytes', out.ack}
    /\ tx' = Append(tx, p) /\ sentTotal' = sentTotal + p.len
    /\ sent_bytes' = (sent_bytes + p.len) % W
    /\ UNCHANGED <<devRcvd, devAcked>>

\* Nothing is appended to tx or taken from it, though a packet may start to wait.
HostKeeps ==
    /\ UNCHANGED <<tx, sentTotal, sent_bytes, devRcvd, devAcked>> /\ (Handshaking' <=> Handshaking)
    /\ ~Handshaking /\ pc' = "sending" => out'.seq = sent_bytes /\ out'.flags # "SYN"

\* recv() pops a packet.
Pops ==
    /\ \/ pc = "synack" /\ pc' = "hsack"
       \/ pc = "select" /\ pc' \in {"toclient", "acking"}
    /\ rx # <<>> /\ rx' = Tail(rx) /\ hand' = hand + Head(rx).len
    /\ received_bytes' = IF pc = "synack" THEN 0 ELSE Head(rx).seq
    /\ UNCHANGED <<delivered, lost, devSent, devPhase>>

\* The device sends q.
Sends(q) ==
    /\ q \in DevicePacket /\ q.seq <= 1 + devSent /\ devSent' = devSent + q.len
    /\ rx' = Append(rx, q) /\ devPhase' = "open"
    /\ devPhase = "synrcvd" => q.seq = 0 /\ q.len = 0
    /\ devPhase \in {"synrcvd", "open"}
    /\ UNCHANGED <<pc, hand, received_bytes, delivered, lost>>

\* The packet in hand is written to the client or lost, or stays in hand.
Finishes ==
    /\ UNCHANGED <<rx, devSent, received_bytes>>
    /\ delivered + lost <= delivered' + lost'
    /\ delivered' + lost' + hand' = delivered + lost + hand
    /\ Handshaking' => /\ Handshaking
                       /\ devPhase' = devPhase \/ (devPhase = "listen" /\ devPhase' = "synrcvd")
    /\ pc' \in {"connect", "synack", "hsack", "select", "sending"}
         => hand' = 0 \/ (hand' = hand /\ pc \in {"connect", "synack", "hsack", "select", "sending"})

\* The types that the steps below need.
StreamTypes ==
    /\ tx \in Seq(Packet) /\ rx \in Seq(DevicePacket) /\ out \in Packet
    /\ sent_bytes \in Nat /\ received_bytes \in Nat /\ hand \in Nat /\ devRcvd \in Nat
    /\ devSent \in Nat /\ devAcked \in Nat /\ sentTotal \in Nat /\ delivered \in Nat /\ lost \in Nat
    /\ out.ack \in Nat /\ out.len \in Nat

\* They follow from the type invariant.
LEMMA StreamTyped == TypeOK => StreamTypes
  <1> SUFFICES ASSUME TypeOK PROVE StreamTypes
    OBVIOUS
  <1>1. out \in Packet
    BY DEF TypeOK
  <1>2. out.ack \in Nat /\ out.len \in Nat
    BY <1>1, PacketFields
  <1> QED
    BY <1>1, <1>2, ConstantsAssumption DEF TypeOK, StreamTypes

\* The header of a packet built now.
LEMMA HeaderLemma ==
    ASSUME TypeOK, NEW f \in {"SYN", "ACK", "RST"}, NEW n \in 0 .. MaxPayload
    PROVE  /\ HostPacket(f, n) \in Packet /\ HostPacket(f, n).flags = f
           /\ HostPacket(f, n).seq = sent_bytes /\ HostPacket(f, n).len = n
           /\ HostPacket(f, n).ack = received_bytes
  BY DEF TypeOK, HostPacket, Packet

\* Appending a packet without payload, built now, is HostSends.
LEMMA EmptySends ==
    ASSUME TypeOK, ~Handshaking, ~Handshaking', pc' # "sending", NEW p \in Packet,
           p.flags # "SYN", p.seq = sent_bytes, p.ack = received_bytes', p.len = 0,
           tx' = Append(tx, p), UNCHANGED <<sentTotal, sent_bytes, devRcvd, devAcked>>
    PROVE  HostSends(p)
  <1>1. sentTotal \in Nat /\ sent_bytes \in Nat /\ sent_bytes < W
    BY ConstantsAssumption DEF TypeOK
  <1>2. sent_bytes % W = sent_bytes
    BY <1>1, ModLemma
  <1>3. sentTotal' = sentTotal + p.len /\ sent_bytes' = (sent_bytes + p.len) % W
    BY <1>1, <1>2
  <1> QED
    BY <1>3 DEF HostSends

\* What a step does to tx.
LEMMA TxEffect ==
    ASSUME TypeOK, TypeOK', TxOrder, [Next]_vars
    PROVE  SendSyn \/ RecvSynAck \/ DeviceReceive \/ HostKeeps \/ \E p \in Packet : HostSends(p)
  <1> USE ConstantsAssumption
  <1>f. 0 \in 0 .. MaxPayload
    OBVIOUS
  <1>h. /\ HostPacket("ACK", 0) \in Packet /\ HostPacket("ACK", 0).flags = "ACK"
        /\ HostPacket("ACK", 0).seq = sent_bytes /\ HostPacket("ACK", 0).len = 0
        /\ HostPacket("ACK", 0).ack = received_bytes
    BY <1>f, HeaderLemma
  <1>r. /\ HostPacket("RST", 0) \in Packet /\ HostPacket("RST", 0).flags = "RST"
        /\ HostPacket("RST", 0).seq = sent_bytes /\ HostPacket("RST", 0).len = 0
        /\ HostPacket("RST", 0).ack = received_bytes
    BY <1>f, HeaderLemma
  <1>1. CASE SendHandshakeAck
    <2>1. /\ ~Handshaking /\ ~Handshaking' /\ pc' # "sending" /\ tx' = Append(tx, HostPacket("ACK", 0))
          /\ UNCHANGED <<sentTotal, sent_bytes, devRcvd, devAcked, received_bytes>>
      BY <1>1 DEF SendHandshakeAck, Handshaking, devVars, ghosts
    <2> QED
      BY <1>h, <2>1, EmptySends
  <1>2. CASE RecvAndAck
    <2> DEFINE p == [HostPacket("ACK", 0) EXCEPT !.ack = received_bytes']
    <2>1. received_bytes' \in 0 .. W - 1
      BY DEF TypeOK
    <2>2. /\ p \in Packet /\ p.flags # "SYN" /\ p.seq = sent_bytes /\ p.len = 0
          /\ p.ack = received_bytes'
      BY <1>h, <2>1 DEF HostPacket, Packet
    <2>3. tx' = Append(tx, p)
      BY <1>2 DEF RecvAndAck
    <2> HIDE DEF p
    <2>4. /\ ~Handshaking /\ ~Handshaking' /\ pc' # "sending"
          /\ UNCHANGED <<sentTotal, sent_bytes, devRcvd, devAcked>>
      BY <1>2 DEF RecvAndAck, SetFromHeader, Handshaking, devVars, ghosts
    <2> QED
      BY <2>2, <2>3, <2>4, EmptySends
  <1>3. CASE AckSent
    <2>1. /\ ~Handshaking /\ ~Handshaking' /\ pc' # "sending" /\ tx' = Append(tx, HostPacket("ACK", 0))
          /\ UNCHANGED <<sentTotal, sent_bytes, devRcvd, devAcked, received_bytes>>
      BY <1>3 DEF AckSent, Handshaking, devVars, ghosts
    <2> QED
      BY <1>h, <2>1, EmptySends
  <1>4. CASE SendRst
    <2>1. /\ ~Handshaking /\ ~Handshaking' /\ pc' # "sending" /\ tx' = Append(tx, HostPacket("RST", 0))
          /\ UNCHANGED <<sentTotal, sent_bytes, devRcvd, devAcked, received_bytes>>
      BY <1>4 DEF SendRst, Handshaking, connVars, devVars, ghosts
    <2> QED
      BY <1>r, <2>1, EmptySends
  <1>5. CASE ClientFails
    <2>1. /\ ~Handshaking /\ ~Handshaking' /\ pc' # "sending"
          /\ UNCHANGED <<sentTotal, sent_bytes, devRcvd, devAcked, received_bytes>>
          /\ tx' = Append(tx, HostPacket("RST", 0)) \/ tx' = tx
      BY <1>5 DEF ClientFails, Selecting, Handshaking, connVars, devVars, ghosts
    <2>2. CASE tx' = tx
      BY <2>1, <2>2 DEF HostKeeps
    <2>3. CASE tx' = Append(tx, HostPacket("RST", 0))
      BY <1>r, <2>1, <2>3, EmptySends
    <2> QED
      BY <2>1, <2>2, <2>3
  <1>6. CASE SendPending
    <2>1. /\ ~Handshaking /\ ~Handshaking' /\ pc' # "sending" /\ pc = "sending"
          /\ tx' = Append(tx, out) /\ sentTotal' = sentTotal + out.len
          /\ sent_bytes' = (sent_bytes + out.len) % W /\ UNCHANGED <<devRcvd, devAcked>>
      BY <1>6 DEF SendPending, Enqueue, Handshaking, devVars
    <2>2. out \in Packet /\ out.seq = sent_bytes /\ out.flags # "SYN"
      BY <2>1 DEF TypeOK, TxOrder
    <2> QED
      BY <2>1, <2>2 DEF HostSends
  <1>7. ASSUME NEW k \in 0 .. MaxRead, ClientRead(k)
        PROVE  HostKeeps \/ \E p \in Packet : HostSends(p)
    <2> DEFINE n == SmallerOf(sendable_bytes, read_buf + k)
    <2>1. n \in 0 .. MaxPayload
      BY DEF TypeOK, SmallerOf
    <2>2. /\ SendBytes(n) /\ ~Handshaking /\ UNCHANGED <<received_bytes, devRcvd, devAcked>>
      BY <1>7 DEF ClientRead, Selecting, Handshaking, devVars
    <2> HIDE DEF n
    <2> DEFINE p == HostPacket("ACK", n)
    <2>3. p \in Packet /\ p.flags = "ACK" /\ p.seq = sent_bytes /\ p.ack = received_bytes
      BY <2>1, HeaderLemma
    <2>4. \/ Enqueue(p)
          \/ out' = p /\ pc' = "sending" /\ UNCHANGED <<tx, sent_bytes, sentTotal>>
      BY <2>2 DEF SendBytes
    <2> HIDE DEF p
    <2>5. CASE Enqueue(p)
      BY <2>2, <2>3, <2>5 DEF HostSends, Enqueue, Handshaking
    <2>6. CASE out' = p /\ pc' = "sending" /\ UNCHANGED <<tx, sent_bytes, sentTotal>>
      BY <2>2, <2>3, <2>6 DEF HostKeeps, Handshaking
    <2> QED
      BY <2>4, <2>5, <2>6
  <1>8. CASE RecvAckPending
    BY <1>8 DEF RecvAckPending, SetFromHeader, HostKeeps, Handshaking, devVars, ghosts
  <1>9. CASE ClientSend
    BY <1>9 DEF ClientSend, HostKeeps, Handshaking, connVars, devVars
  <1>10. CASE ClientEof
    BY <1>10 DEF ClientEof, Selecting, HostKeeps, Handshaking, connVars, devVars
  <1>11. CASE DeviceSynAck
    BY <1>11 DEF DeviceSynAck, HostKeeps, TxOrder, Handshaking, connVars, ghosts
  <1>12. ASSUME NEW n \in Nat, DeviceSend(n) PROVE HostKeeps
    BY <1>12 DEF DeviceSend, HostKeeps, TxOrder, Handshaking, connVars, ghosts
  <1>13. ASSUME NEW n \in 1 .. ClientBytes, DeviceRead(n) PROVE HostKeeps
    BY <1>13 DEF DeviceRead, HostKeeps, TxOrder, Handshaking, connVars, ghosts
  <1>14. CASE UNCHANGED vars
    BY <1>14 DEF HostKeeps, TxOrder, Handshaking, vars, connVars, devVars, ghosts
  <1> QED
    BY <1>1, <1>2, <1>3, <1>4, <1>5, <1>6, <1>7, <1>8, <1>9, <1>10, <1>11, <1>12, <1>13, <1>14
       DEF Next, Handler, Client, Device, DeviceUpdate

\* What a step does to rx and to the packet in hand.
LEMMA RxEffect ==
    ASSUME TypeOK, TypeOK', ShakeInv, HandEmpty, AnswerFirst, [Next]_vars
    PROVE  Pops \/ Finishes \/ \E q \in DevicePacket : Sends(q)
  <1> USE ConstantsAssumption
  <1>n. hand \in Nat /\ delivered \in Nat /\ lost \in Nat /\ devSent \in Nat /\ received_bytes \in Nat
        /\ rx \in Seq(DevicePacket)
    BY DEF TypeOK
  <1>l. rx # <<>> => Head(rx).len \in Nat /\ Head(rx) = rx[1]
    <2>1. rx # <<>> => Head(rx) \in DevicePacket /\ Head(rx) = rx[1]
      BY <1>n
    <2> QED
      BY <2>1, LengthsNat
  <1>1. CASE RecvSynAck
    <2>1. /\ pc = "synack" /\ pc' = "hsack" /\ rx # <<>> /\ rx' = Tail(rx)
          /\ received_bytes' = (received_bytes + Head(rx).seq) % W
          /\ UNCHANGED <<hand, delivered, lost, devSent, devPhase>>
      BY <1>1 DEF RecvSynAck, devVars, ghosts
    <2>2. received_bytes = 0 /\ Head(rx).seq = 0 /\ Head(rx).len = 0
      BY <1>l, <2>1 DEF AnswerFirst, Handshaking
    <2>3. 0 % W = 0
      BY ModLemma
    <2>4. received_bytes' = 0 /\ hand' = hand + Head(rx).len
      BY <1>n, <2>1, <2>2, <2>3
    <2> QED
      BY <2>1, <2>4 DEF Pops
  <1>2. CASE RecvAndAck
    <2>1. hand = 0 /\ hand' = Head(rx).len /\ rx # <<>> /\ pc = "select"
      BY <1>2 DEF RecvAndAck, HandEmpty
    <2>2. hand' = hand + Head(rx).len
      BY <1>l, <2>1
    <2> QED
      BY <1>2, <2>1, <2>2 DEF RecvAndAck, SetFromHeader, Pops, devVars, ghosts
  <1>3. CASE RecvAckPending
    <2>1. hand = 0 /\ hand' = Head(rx).len /\ rx # <<>> /\ pc = "select"
      BY <1>3 DEF RecvAckPending, HandEmpty
    <2>2. hand' = hand + Head(rx).len
      BY <1>l, <2>1
    <2> QED
      BY <1>3, <2>1, <2>2 DEF RecvAckPending, SetFromHeader, Pops, devVars, ghosts
  <1>4. CASE SendSyn
    BY <1>4, <1>n DEF SendSyn, Finishes, Handshaking, connVars, devVars, ghosts
  <1>5. CASE SendHandshakeAck
    BY <1>5, <1>n DEF SendHandshakeAck, Finishes, Handshaking, devVars, ghosts
  <1>6. CASE AckSent
    BY <1>6, <1>n DEF AckSent, Finishes, Handshaking, devVars, ghosts
  <1>7. CASE ClientSend
    <2>1. delivered' = delivered + hand /\ hand' = 0 /\ pc' = "select" /\ lost' = lost
          /\ UNCHANGED <<rx, devSent, received_bytes>>
      BY <1>7 DEF ClientSend, connVars, devVars
    <2> QED
      BY <1>n, <2>1 DEF Finishes, Handshaking
  <1>8. CASE SendPending
    <2>1. UNCHANGED <<rx, devSent, received_bytes, hand, delivered, lost>> /\ pc = "sending"
          /\ pc' = "select"
      BY <1>8 DEF SendPending, Enqueue, devVars
    <2> QED
      BY <1>n, <2>1 DEF Finishes, Handshaking
  <1>9. CASE SendRst
    BY <1>9, <1>n DEF SendRst, Finishes, Handshaking, connVars, devVars, ghosts
  <1>10. ASSUME NEW k \in 0 .. MaxRead, ClientRead(k) PROVE Finishes
    <2>1. lost' = lost + hand /\ hand' = 0 /\ UNCHANGED <<rx, devSent, received_bytes, delivered>>
      BY <1>10 DEF ClientRead, CancelRecv, devVars
    <2>2. pc' \in {"select", "sending"}
      BY <1>10 DEF ClientRead, SendBytes, Enqueue
    <2> QED
      BY <1>n, <2>1, <2>2 DEF Finishes, Handshaking
  <1>11. CASE ClientEof
    <2>1. lost' = lost + hand /\ hand' = 0 /\ UNCHANGED <<rx, devSent, received_bytes, delivered>>
          /\ pc' = "rst"
      BY <1>11 DEF ClientEof, CancelRecv, connVars, devVars
    <2> QED
      BY <1>n, <2>1 DEF Finishes, Handshaking
  <1>12. CASE ClientFails
    BY <1>12, <1>n DEF ClientFails, Finishes, Handshaking, connVars, devVars, ghosts
  <1>13. CASE DeviceReceive
    <2>1. UNCHANGED <<pc, rx, devSent, received_bytes, hand, delivered, lost>>
      BY <1>13 DEF DeviceReceive, connVars, ghosts
    <2>2. Handshaking => devPhase = "listen" /\ devPhase' = "synrcvd"
      <3>1. tx # <<>> /\ tx \in Seq(Packet) /\ Head(tx) = tx[1]
        BY <1>13 DEF DeviceReceive, TypeOK
      <3>2. Handshaking => devPhase = "listen" /\ tx[1].flags = "SYN"
        BY <3>1 DEF ShakeInv, Handshaking
      <3> QED
        BY <1>13, <3>1, <3>2 DEF DeviceReceive
    <2> QED
      BY <1>n, <2>1, <2>2 DEF Finishes, Handshaking
  <1>14. CASE DeviceSynAck
    <2> DEFINE q == [seq |-> 0, ack |-> DevView[1], win |-> DevView[2], len |-> 0]
    <2>1. q \in DevicePacket
      BY DevViewLemma DEF DevicePacket
    <2>2. q.seq = 0 /\ q.len = 0 /\ rx' = Append(rx, q)
      BY <1>14 DEF DeviceSynAck
    <2> HIDE DEF q
    <2>3. /\ devSent' = devSent + q.len /\ q.seq <= 1 + devSent /\ devPhase = "synrcvd"
          /\ devPhase' = "open" /\ UNCHANGED <<pc, hand, received_bytes, delivered, lost>>
      BY <1>14, <1>n, <2>2 DEF DeviceSynAck, connVars, ghosts
    <2> QED
      BY <2>1, <2>2, <2>3 DEF Sends
  <1>15. ASSUME NEW n \in Nat, DeviceSend(n) PROVE \E q \in DevicePacket : Sends(q)
    <2> DEFINE s == (1 + devSent) % W
               q == [seq |-> s, ack |-> DevView[1], win |-> DevView[2], len |-> n]
    <2>0. s \in 0 .. W - 1 /\ s <= 1 + devSent
      <3>1. 1 + devSent \in Nat /\ s \in 0 .. W - 1
        BY <1>n, ModLemma
      <3>2. CASE 1 + devSent < W
        BY <1>n, <3>1, <3>2, ModLemma
      <3>3. CASE ~(1 + devSent < W)
        <4> HIDE DEF s
        <4> QED
          BY <1>n, <3>1, <3>3
      <3> QED
        BY <3>2, <3>3
    <2> HIDE DEF s
    <2>1. q \in DevicePacket
      BY <2>0, DevViewLemma DEF DevicePacket
    <2>2. q.seq = s /\ q.len = n
      OBVIOUS
    <2>3. rx' = Append(rx, q)
      BY <1>15 DEF DeviceSend, s
    <2> HIDE DEF q
    <2>4. /\ devSent' = devSent + n /\ devPhase = "open"
          /\ devPhase' = "open" /\ UNCHANGED <<pc, hand, received_bytes, delivered, lost>>
      BY <1>15 DEF DeviceSend, connVars, ghosts
    <2> QED
      BY <2>0, <2>1, <2>2, <2>3, <2>4 DEF Sends
  <1>16. ASSUME NEW n \in 1 .. ClientBytes, DeviceRead(n) PROVE Finishes
    <2>1. UNCHANGED <<pc, devPhase, rx, devSent, received_bytes, hand, delivered, lost>>
      BY <1>16 DEF DeviceRead, connVars, ghosts
    <2> QED
      BY <1>n, <2>1 DEF Finishes, Handshaking
  <1>17. CASE UNCHANGED vars
    BY <1>17, <1>n DEF Finishes, Handshaking, vars, connVars, devVars, ghosts
  <1> QED
    BY <1>1, <1>2, <1>3, <1>4, <1>5, <1>6, <1>7, <1>8, <1>9, <1>10, <1>11, <1>12, <1>13, <1>14,
       <1>15, <1>16, <1>17 DEF Next, Handler, Client, Device, DeviceUpdate

\* Every step keeps tx in order.
LEMMA TxStep ==
    ASSUME TypeOK, TypeOK', ShakeInv, TxOrder, [Next]_vars
    PROVE  TxOrder'
  <1>ty. StreamTypes
    BY StreamTyped
  <1>n. /\ tx \in Seq(Packet) /\ devRcvd \in Nat /\ sentTotal \in Nat /\ sent_bytes \in Nat
    BY <1>ty DEF StreamTypes
  <1>1. CASE SendSyn
    BY <1>1 DEF SendSyn, TxOrder, Handshaking
  <1>2. CASE RecvSynAck
    <2>1. /\ pc = "synack" /\ pc' = "hsack" /\ rx # <<>>
          /\ sent_bytes' = (sent_bytes + Head(rx).ack) % W
          /\ UNCHANGED <<tx, devRcvd, sentTotal>>
      BY <1>2 DEF RecvSynAck, devVars, ghosts
    <2>2. Head(rx) = rx[1] /\ 1 \in 1 .. Len(rx)
      BY <1>ty, <2>1 DEF StreamTypes
    <2>3. tx = <<>> /\ devRcvd = 0 /\ sentTotal = 0 /\ sent_bytes = 0 /\ Head(rx).ack = 1
      BY <2>1, <2>2 DEF ShakeInv, Handshaking
    <2>4. TxFlow(tx', devRcvd', sentTotal') /\ sent_bytes' = (1 + sentTotal') % W
      BY <2>1, <2>3, FlowEmpty
    <2> QED
      BY <2>1, <2>4 DEF TxOrder
  <1>3. CASE DeviceReceive
    <2>1. /\ tx # <<>> /\ tx' = Tail(tx) /\ devRcvd' = devRcvd + Head(tx).len
          /\ UNCHANGED <<pc, sentTotal, sent_bytes, out>>
      BY <1>3 DEF DeviceReceive, connVars, ghosts
    <2>2. ~Handshaking => TxFlow(tx', devRcvd', sentTotal')
      BY <1>n, <2>1, TxFlowTail DEF TxOrder
    <2> QED
      BY <2>1, <2>2 DEF TxOrder, Handshaking
  <1>4. CASE HostKeeps
    BY <1>4 DEF HostKeeps, TxOrder
  <1>5. ASSUME NEW p \in Packet, HostSends(p) PROVE TxOrder'
    <2>1. /\ ~Handshaking /\ tx' = Append(tx, p) /\ sentTotal' = sentTotal + p.len
          /\ sent_bytes' = (sent_bytes + p.len) % W /\ devRcvd' = devRcvd /\ pc' # "sending"
          /\ p.seq = sent_bytes /\ p.flags # "SYN"
      BY <1>5 DEF HostSends
    <2>2. TxFlow(tx, devRcvd, sentTotal) /\ sent_bytes = (1 + sentTotal) % W
      BY <2>1 DEF TxOrder
    <2>3. TxFlow(tx', devRcvd', sentTotal')
      BY <1>n, <2>1, <2>2, TxFlowAppend
    <2>4. sent_bytes' = (1 + sentTotal') % W
      <3>0. p.len \in Nat
        BY LengthsNat
      <3>1. 1 + sentTotal \in Nat /\ 1 + (sentTotal + p.len) = (1 + sentTotal) + p.len
        BY <1>n, <3>0
      <3>2. (((1 + sentTotal) % W) + p.len) % W = ((1 + sentTotal) + p.len) % W
        BY <3>0, <3>1, ModAdd
      <3> QED
        BY <2>1, <2>2, <3>1, <3>2, Zenon
    <2> QED
      BY <2>1, <2>3, <2>4 DEF TxOrder
  <1> QED
    BY <1>1, <1>2, <1>3, <1>4, <1>5, TxEffect

\* Every step keeps rx in order, the hand empty where it must be and the SYN-ACK first.
LEMMA RxStep ==
    ASSUME TypeOK, TypeOK', ShakeInv, RxOrder, HandEmpty, AnswerFirst, [Next]_vars
    PROVE  RxOrder' /\ HandEmpty' /\ AnswerFirst'
  <1>ty. StreamTypes
    BY StreamTyped
  <1>n. /\ rx \in Seq(DevicePacket) /\ devSent \in Nat /\ delivered \in Nat /\ lost \in Nat
        /\ hand \in Nat /\ delivered + lost + hand \in Nat
    BY <1>ty DEF StreamTypes
  <1>1. CASE Pops
    <2>1. /\ rx # <<>> /\ rx' = Tail(rx) /\ hand' = hand + Head(rx).len
          /\ \/ pc = "synack" /\ pc' = "hsack"
             \/ pc = "select" /\ pc' \in {"toclient", "acking"}
          /\ UNCHANGED <<delivered, lost, devSent>>
      BY <1>1 DEF Pops
    <2>2. RxFlow(Tail(rx), (delivered + lost + hand) + Head(rx).len, devSent)
      BY <1>n, <2>1, RxFlowTail DEF RxOrder
    <2>3. Head(rx).len \in Nat
      <3>1. Head(rx) \in DevicePacket
        BY <1>n, <2>1
      <3> QED
        BY <3>1, LengthsNat
    <2>4. (delivered + lost + hand) + Head(rx).len = delivered' + lost' + hand'
      BY <1>n, <2>1, <2>3
    <2>5. RxOrder'
      BY <2>1, <2>2, <2>4 DEF RxOrder
    <2>6. pc' = "hsack" => hand' = 0
      <3>1. CASE pc = "synack"
        <4>1. Head(rx).len = 0 /\ hand = 0
          BY <1>n, <2>1, <3>1 DEF AnswerFirst, HandEmpty, Handshaking
        <4> QED
          BY <2>1, <4>1
      <3> QED
        BY <2>1, <3>1
    <2> QED
      BY <2>1, <2>5, <2>6 DEF HandEmpty, AnswerFirst, Handshaking
  <1>2. CASE Finishes
    <2>1. RxOrder'
      BY <1>2 DEF Finishes, RxOrder
    <2>2. HandEmpty'
      BY <1>2 DEF Finishes, HandEmpty
    <2>3. AnswerFirst'
      BY <1>2 DEF Finishes, AnswerFirst
    <2> QED
      BY <2>1, <2>2, <2>3
  <1>3. ASSUME NEW q \in DevicePacket, Sends(q) PROVE RxOrder' /\ HandEmpty' /\ AnswerFirst'
    <2>1. /\ rx' = Append(rx, q) /\ devSent' = devSent + q.len /\ q.seq <= 1 + devSent
          /\ devPhase' = "open" /\ devPhase \in {"synrcvd", "open"}
          /\ devPhase = "synrcvd" => q.seq = 0 /\ q.len = 0
          /\ UNCHANGED <<pc, hand, received_bytes, delivered, lost>>
      BY <1>3 DEF Sends
    <2>2. RxFlow(Append(rx, q), delivered + lost + hand, devSent + q.len)
      BY <1>n, <2>1, RxFlowAppend DEF RxOrder
    <2>3. RxOrder'
      BY <2>1, <2>2 DEF RxOrder
    <2>4. rx' # <<>> /\ (rx = <<>> => rx'[1] = q) /\ (rx # <<>> => rx'[1] = rx[1])
      BY <1>n, <2>1
    <2>5. AnswerFirst'
      BY <2>1, <2>4 DEF AnswerFirst, Handshaking
    <2> QED
      BY <2>1, <2>3, <2>5 DEF HandEmpty
  <1> QED
    BY <1>1, <1>2, <1>3, RxEffect

\* A packet starts to wait with the acknowledgement of now, or none waits any more.
LEMMA OutEffect ==
    ASSUME [Next]_vars
    PROVE  out' = out \/ out' = NoPacket \/ out'.ack = received_bytes
  <1>1. ASSUME NEW k \in 0 .. MaxRead, ClientRead(k)
        PROVE  out' = out \/ out'.ack = received_bytes
    <2> DEFINE n == SmallerOf(sendable_bytes, read_buf + k)
    <2>1. SendBytes(n)
      BY <1>1 DEF ClientRead
    <2> HIDE DEF n
    <2>2. out' = out \/ out' = HostPacket("ACK", n)
      BY <2>1 DEF SendBytes
    <2>3. HostPacket("ACK", n).ack = received_bytes
      BY DEF HostPacket
    <2> QED
      BY <2>2, <2>3
  <1>2. CASE SendPending
    BY <1>2 DEF SendPending
  <1>3. CASE SendSyn \/ RecvSynAck \/ SendHandshakeAck \/ RecvAndAck \/ RecvAckPending \/ AckSent
    BY <1>3 DEF SendSyn, RecvSynAck, SendHandshakeAck, RecvAndAck, RecvAckPending, AckSent
  <1>4. CASE ClientSend \/ SendRst \/ ClientEof \/ ClientFails \/ DeviceReceive \/ DeviceSynAck
    BY <1>4 DEF ClientSend, SendRst, ClientEof, ClientFails, DeviceReceive, DeviceSynAck
  <1>5. ASSUME NEW n, DeviceSend(n) \/ DeviceRead(n) PROVE out' = out
    BY <1>5 DEF DeviceSend, DeviceRead
  <1>6. CASE UNCHANGED vars
    BY <1>6 DEF vars
  <1> QED
    BY <1>1, <1>2, <1>3, <1>4, <1>5, <1>6 DEF Next, Handler, Client, Device, DeviceUpdate

\* Every step keeps the acknowledgements behind the bytes that were taken.
LEMMA TakenStep ==
    ASSUME TypeOK, TypeOK', ShakeInv, StreamInv, [Next]_vars
    PROVE  Taken'
  <1> DEFINE m == 1 + delivered + lost
  <1>d. m' = 1 + delivered' + lost'
    OBVIOUS
  <1>ty. StreamTypes
    BY StreamTyped
  <1>n. /\ tx \in Seq(Packet) /\ received_bytes \in Nat /\ devAcked \in Nat /\ m \in Nat
        /\ out \in Packet /\ out.ack \in Nat
    BY <1>ty DEF StreamTypes
  <1>t. \A i \in 1 .. Len(tx) : tx[i].ack \in Nat
    BY <1>n, PacketFields
  <1>m. /\ m' \in Nat /\ m <= m' /\ received_bytes' <= m' /\ received_bytes' \in Nat
    <2>1. delivered' \in Nat /\ lost' \in Nat /\ received_bytes' \in Nat
      BY ConstantsAssumption DEF TypeOK
    <2>2. CASE Pops
      <3>1. /\ rx # <<>> /\ UNCHANGED <<delivered, lost>> /\ pc \in {"synack", "select"}
            /\ received_bytes' = IF pc = "synack" THEN 0 ELSE Head(rx).seq
        BY <2>2 DEF Pops
      <3>2. hand = 0
        BY <3>1 DEF StreamInv, HandEmpty
      <3>3. Head(rx).seq <= 1 + (delivered + lost + hand)
        BY <1>ty, <3>1, RxFlowTail DEF StreamTypes, StreamInv, RxOrder
      <3>4. Head(rx).seq <= m
        BY <1>ty, <3>2, <3>3 DEF StreamTypes
      <3> QED
        BY <1>n, <2>1, <3>1, <3>4
    <2>3. CASE Finishes
      <3>1. /\ delivered + lost <= delivered' + lost' /\ received_bytes' = received_bytes
            /\ received_bytes <= m /\ delivered \in Nat /\ lost \in Nat
        BY <1>ty, <2>3 DEF StreamTypes, Finishes, StreamInv, Taken
      <3>2. m' \in Nat /\ m <= m'
        <4>1. \A a, b, c, d \in Nat : a + b <= c + d => 1 + a + b <= 1 + c + d /\ 1 + c + d \in Nat
          OBVIOUS
        <4>2. m <= 1 + delivered' + lost' /\ 1 + delivered' + lost' \in Nat
          BY <2>1, <3>1, <4>1
        <4> HIDE DEF m
        <4> QED
          BY <1>d, <4>2
      <3>3. received_bytes <= m'
        <4> HIDE DEF m
        <4> QED
          BY <1>n, <3>1, <3>2
      <3> QED
        BY <2>1, <3>1, <3>2, <3>3
    <2>4. ASSUME NEW q \in DevicePacket, Sends(q)
          PROVE  m' = m /\ received_bytes' = received_bytes
      BY <2>4 DEF Sends
    <2>5. received_bytes <= m
      BY DEF StreamInv, Taken
    <2>6. Pops \/ Finishes \/ \E q \in DevicePacket : Sends(q)
      BY RxEffect DEF StreamInv
    <2> HIDE DEF m
    <2>7. m' = m /\ received_bytes' = received_bytes
          => m' \in Nat /\ m <= m' /\ received_bytes' <= m' /\ received_bytes' \in Nat
      BY <1>n, <2>5
    <2> QED
      BY <2>2, <2>3, <2>4, <2>6, <2>7
  <1>k. /\ received_bytes <= m /\ out.ack <= m /\ devAcked <= m
        /\ \A i \in 1 .. Len(tx) : tx[i].ack <= m
    BY DEF StreamInv, Taken
  <1>o. out'.ack <= m'
    <2>1. out'.ack \in {out.ack, 0, received_bytes}
      BY OutEffect DEF NoPacket
    <2> HIDE DEF m
    <2> QED
      BY <1>k, <1>m, <1>n, <2>1
  <1>x. devAcked' <= m' /\ \A i \in 1 .. Len(tx') : tx'[i].ack <= m'
    <2> HIDE DEF m
    <2>p. \A i \in 1 .. Len(tx) : tx[i].ack <= m'
      BY <1>k, <1>m, <1>n, <1>t
    <2>d. devAcked <= m'
      BY <1>k, <1>m, <1>n
    <2>a. ASSUME NEW p \in Packet, tx' = Append(tx, p), p.ack <= m'
          PROVE  \A i \in 1 .. Len(tx') : tx'[i].ack <= m'
      <3> TAKE i \in 1 .. Len(tx')
      <3>1. /\ Len(tx) \in Nat /\ Len(tx') = Len(tx) + 1 /\ tx'[Len(tx) + 1] = p
            /\ \A j \in 1 .. Len(tx) : tx'[j] = tx[j]
        BY <1>n, <2>a
      <3>2. i = Len(tx) + 1 \/ i \in 1 .. Len(tx)
        BY <3>1
      <3> QED
        BY <2>a, <2>p, <3>1, <3>2
    <2>1. CASE SendSyn
      <3>1. /\ HostPacket("SYN", 0) \in Packet /\ HostPacket("SYN", 0).ack = received_bytes
        BY ConstantsAssumption DEF TypeOK, HostPacket, Packet
      <3>2. tx' = Append(tx, HostPacket("SYN", 0)) /\ devAcked' = devAcked
        BY <2>1 DEF SendSyn, devVars
      <3>3. received_bytes <= m'
        BY <1>k, <1>m, <1>n
      <3> QED
        BY <2>a, <2>d, <3>1, <3>2, <3>3
    <2>2. CASE RecvSynAck \/ HostKeeps
      <3>1. tx' = tx /\ devAcked' = devAcked
        BY <2>2 DEF RecvSynAck, HostKeeps, devVars
      <3> QED
        BY <2>d, <2>p, <3>1
    <2>3. CASE DeviceReceive
      <3>1. tx # <<>> /\ tx' = Tail(tx) /\ devAcked' = Head(tx).ack
        BY <2>3 DEF DeviceReceive
      <3>2. /\ Head(tx) = tx[1] /\ Len(tx) \in Nat \ {0} /\ Len(Tail(tx)) = Len(tx) - 1
            /\ \A i \in 1 .. Len(Tail(tx)) : Tail(tx)[i] = tx[i + 1] /\ i + 1 \in 1 .. Len(tx)
        BY <1>n, <3>1
      <3> QED
        BY <2>p, <3>1, <3>2
    <2>4. ASSUME NEW p \in Packet, HostSends(p)
          PROVE  devAcked' <= m' /\ \A i \in 1 .. Len(tx') : tx'[i].ack <= m'
      <3>1. /\ tx' = Append(tx, p) /\ devAcked' = devAcked /\ p.ack \in {received_bytes', out.ack}
        BY <2>4 DEF HostSends
      <3>2. p.ack <= m'
        BY <1>k, <1>m, <1>n, <3>1
      <3> QED
        BY <2>a, <2>d, <3>1, <3>2
    <2> QED
      BY <2>1, <2>2, <2>3, <2>4, TxEffect DEF StreamInv
  <1> QED
    BY <1>m, <1>o, <1>x DEF Taken

\* The account of both streams holds on every run.
THEOREM StreamTheorem == Spec => [](TypeOK /\ ShakeInv /\ StreamInv)
  <1>1. Init => StreamInv
    <2> SUFFICES ASSUME Init PROVE StreamInv
      OBVIOUS
    <2>1. /\ pc = "connect" /\ rx = <<>> /\ tx = <<>> /\ hand = 0 /\ delivered = 0 /\ lost = 0
          /\ devSent = 0 /\ received_bytes = 0 /\ devAcked = 0 /\ out.ack = 0 /\ devPhase = "listen"
      BY DEF Init, NoPacket
    <2>2. RxOrder
      BY <2>1, FlowEmpty DEF RxOrder
    <2> QED
      BY <2>1, <2>2 DEF StreamInv, TxOrder, HandEmpty, AnswerFirst, Taken, Handshaking
  <1>2. /\ TypeOK /\ ShakeInv /\ TypeOK' /\ ShakeInv' /\ StreamInv /\ [Next]_vars
        => StreamInv'
    BY TxStep, RxStep, TakenStep DEF StreamInv
  <1>3. IInv => TypeOK /\ ShakeInv
    BY DEF IInv
  <1> QED
    BY <1>1, <1>2, <1>3, Inductive, PTL DEF Spec

\* Every packet the device receives starts at the byte it expects, also when sent_bytes
\* wraps and however long the packet waited for room (send_packet, add_sent_bytes).
THEOREM OrderTheorem == Spec => []DeviceSeesContiguousBytes
  <1>1. TypeOK /\ ShakeInv /\ StreamInv => DeviceSeesContiguousBytes
    <2> SUFFICES ASSUME TypeOK, ShakeInv, StreamInv, tx # <<>>, Head(tx).flags # "SYN"
                 PROVE  Head(tx).seq = (1 + devRcvd) % W
      BY DEF DeviceSeesContiguousBytes
    <2>1. tx \in Seq(Packet) /\ Head(tx) = tx[1] /\ devRcvd \in Nat /\ sentTotal \in Nat
      BY DEF TypeOK
    <2>2. ~Handshaking
      BY <2>1 DEF ShakeInv, Handshaking
    <2>3. TxFlow(tx, devRcvd, sentTotal)
      BY <2>2 DEF StreamInv, TxOrder
    <2> QED
      BY <2>1, <2>3, TxFlowTail
  <1> QED
    BY <1>1, StreamTheorem, PTL

\* The acknowledgements that reach the device never run ahead of the bytes a recv() has
\* finished with (set_from_header, ack).
THEOREM AckedTheorem == Spec => []AckedBytesTaken
  <1>1. StreamInv => AckedBytesTaken
    BY DEF StreamInv, Taken, AckedBytesTaken
  <1> QED
    BY <1>1, StreamTheorem, PTL

\* Every byte popped from a drained channel was delivered, is in hand or was dropped with
\* the recv() that lost the select!: no other path of the handler loses one.
THEOREM NothingLostTheorem == Spec => []NothingElseLost
  <1>1. TypeOK /\ StreamInv => NothingElseLost
    <2> SUFFICES ASSUME TypeOK, StreamInv, rx = <<>> PROVE devSent = delivered + lost + hand
      BY DEF NothingElseLost
    <2>1. devSent \in Nat /\ delivered + lost + hand \in Nat
      BY DEF TypeOK
    <2>2. RxFlow(<<>>, delivered + lost + hand, devSent)
      BY DEF StreamInv, RxOrder
    <2> QED
      BY <2>1, <2>2, FlowEmpty
  <1> QED
    BY <1>1, StreamTheorem, PTL
================================================================================
