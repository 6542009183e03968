SPECIFICATION Spec
CONSTANTS
    DevPackets <- MCDevPackets
    Junk <- MCJunk
    Payloads <- MCPayloads
    max_packet_size = 512
    TxCap = 1
    SeqMod = 3
    MaxSent = 3
    MaxWork = 6
INVARIANTS
    TypeOK
    PacketEndVisible
    WriterNeverStuck
    SequenceHonest
PROPERTIES
    PipeSpec
    PacketsArrive
    TransferReleased
CHECK_DEADLOCK FALSE
