----------------------------- MODULE MCFrameCodec ------------------------------
(* Finite instances of FrameCodec: frames of every type, with payloads of no *)
(* byte, of less and of more than a chunk, and one of an unknown type.  The  *)
(* numbers use every octet of their fields.                                  *)
EXTENDS FrameCodec

SomeContent == [i \in 1..12 |-> [payload |-> i]]
SomeBytes == {[payload |-> i] : i \in 1..12}
SomeFrames == {
    Ping({"SYN"}, 258), GoAway(2),
    Frame(1, WindowUpdate({"FIN"}, 262144)),
    Frame(1, Data({}, 0)), Frame(1, Data({"SYN", "FIN"}, 1)),
    Frame(16909060, Data({"ACK"}, 5)),
    Frame(0, [kind |-> "Unknown", flags |-> {"RST"}, code |-> 0])}
AllWays == {"socket", "pop", "take"}
===============================================================================
