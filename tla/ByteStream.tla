------------------------------ MODULE ByteStream ------------------------------
(***************************************************************************)
(* What a logical stream promises the two applications that hold its       *)
(* handles, with no frames, windows or heads: two independent directions,  *)
(* each a sequence of bytes that is read in order and exactly once, and    *)
(* ends for its reader only when its writer has shut it and the reader has *)
(* had everything.  A direction may also break, which hides the rest.      *)
(***************************************************************************)
EXTENDS Naturals, Sequences

CONSTANTS Side,     \* the two ends, a set of two elements
          Byte,
          MaxWrite  \* bytes one write takes at most

VARIABLES written,  \* what each end has written, in order
          shut,     \* it will write nothing more
          read,     \* what it has read
          ended,    \* it has read the end of the stream
          broken    \* it has read an error

vars == <<written, shut, read, ended, broken>>

Peer(x) == CHOOSE y \in Side : y # x

Init ==
    /\ written = [x \in Side |-> <<>>]
    /\ shut = [x \in Side |-> FALSE]
    /\ read = [x \in Side |-> <<>>]
    /\ ended = [x \in Side |-> FALSE]
    /\ broken = [x \in Side |-> FALSE]

Write(x, bytes) ==
    /\ ~shut[x]
    /\ written' = [written EXCEPT ![x] = @ \o bytes]
    /\ UNCHANGED <<shut, read, ended, broken>>

Shut(x) ==
    /\ shut' = [shut EXCEPT ![x] = TRUE]
    /\ UNCHANGED <<written, read, ended, broken>>

Read(x, n) ==
    /\ ~ended[x] /\ ~broken[x]
    /\ Len(read[x]) + n <= Len(written[Peer(x)])
    /\ read' = [read EXCEPT ![x] = SubSeq(written[Peer(x)], 1, Len(@) + n)]
    /\ UNCHANGED <<written, shut, ended, broken>>

End(x) ==
    /\ ~ended[x] /\ ~broken[x]
    /\ shut[Peer(x)] /\ read[x] = written[Peer(x)]
    /\ ended' = [ended EXCEPT ![x] = TRUE]
    /\ UNCHANGED <<written, shut, read, broken>>

Break(x) ==
    /\ broken' = [broken EXCEPT ![x] = TRUE]
    /\ UNCHANGED <<written, shut, read, ended>>

Next ==
    \E x \in Side :
        \/ \E n \in 1..MaxWrite : \E bytes \in [1..n -> Byte] : Write(x, bytes)
        \/ Shut(x)
        \/ \E n \in 1..Len(written[Peer(x)]) : Read(x, n)
        \/ End(x)
        \/ Break(x)

Spec == Init /\ [][Next]_vars
===============================================================================
