------------------------------- MODULE MCSession -------------------------------
(* Finite instances of Session: a client with one stream of its own (1) and  *)
(* one of its peer's (2), and what the peer sends for each.                  *)
EXTENDS Session

CONSTANT b

OneByte == {b}
FirstOnly == 1 :> 1 @@ 2 :> 0

Traffic == 0 :> <<Ping({"SYN"}, 0)>> @@ 1 :> <<>>
           @@ 2 :> <<Frame(2, WindowUpdate({"SYN"}, InitialWindow))>>
Idle == 0 :> <<Ping({"SYN"}, 0)>> @@ 1 :> <<>> @@ 2 :> <<>>
===============================================================================
