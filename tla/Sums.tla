--------------------------------- MODULE Sums ---------------------------------
(***************************************************************************)
(* The sum of the first n values of a function on numbers, which is how    *)
(* the properties count bytes and credit in a sequence of frames.  It is a *)
(* recursive function and not a fold, so that it can be reasoned about.    *)
(***************************************************************************)
EXTENDS Naturals

SumTo(f, n) ==
    LET upTo[k \in 0..n] == IF k = 0 THEN 0 ELSE upTo[k - 1] + f[k]
    IN  upTo[n]
===============================================================================
