----------------------------- MODULE MCStreamPair -----------------------------
(* Finite instances of StreamPair.                                           *)
EXTENDS StreamPair

CONSTANTS FromOpener, FromAcceptor

Written == [x \in {"opener", "acceptor"} |->
              IF x = "opener" THEN FromOpener ELSE FromAcceptor]
Bytes == 1..FromOpener + FromAcceptor
===============================================================================
