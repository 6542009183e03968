------------------------------- MODULE MCUsbLink -------------------------------
(* UsbLink on a small instance: the packets the device may send, and what a  *)
(* reader that is out of step may take for a header.                         *)
EXTENDS UsbLink

P(protocol, length, size) == [hdr |-> [protocol |-> protocol, length |-> length], size |-> size]

\* Among them one of unknown protocol.
MCDevPackets == {P("Version", 20, 20), P("Tcp", 37, 37), P("Control", 16, 16),
                 P("unknown", 17, 17)}

\* Refused at once, refused for its length, taken for a packet, and one that panics.
MCJunk == {P("unknown", 0, 0).hdr, P("Control", 9, 0).hdr, P("Tcp", 37, 0).hdr, P("Version", 9, 0).hdr}

\* A packet of headers only, one that fills a USB packet, and the largest.
MCPayloads == {0, 476, MAX_PACKET_PAYLOAD_SIZE}
================================================================================
