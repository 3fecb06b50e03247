--------------------------- MODULE InductionProofs ----------------------------
(***************************************************************************)
(* Induction over the natural numbers, and with it what SumTo computes,    *)
(* how a loop goes on, and how the elements of a queue lead from one state  *)
(* to another.                                                             *)
(*                                                                         *)
(* The library states induction for an operator, NEW P(_), which no        *)
(* backend can instantiate; stated for a set of numbers it follows from    *)
(* the first-order fact that a well-founded relation has minimal elements. *)
(***************************************************************************)
EXTENDS Sums, Integers, SequenceTheorems, WellFoundedInduction, TLAPS

LEMMA LeastNatural ==
  ASSUME NEW T, T \subseteq Nat, T # {}
  PROVE  \E m \in T : \A n \in T : m <= n
<1> DEFINE R == OpToRel(<, Nat)
<1>1. IsWellFoundedOn(R, Nat)
  BY NatLessThanWellFounded
<1> HIDE DEF R
<1>2. PICK m \in T : \A n \in T : ~(<<n, m>> \in R)
  BY <1>1, WFMin
<1>3. \A a, b \in Nat : <<a, b>> \in R <=> a < b
  BY DEF R, OpToRel
<1>4. SUFFICES ASSUME NEW n \in T PROVE m <= n
  OBVIOUS
<1>5. m \in Nat /\ n \in Nat
  OBVIOUS
<1>6. ~(n < m)
  BY <1>2, <1>3, <1>5
<1> QED BY <1>5, <1>6

\* A set that holds 0 and, with a number, the next one holds every number.
LEMMA SetInduction ==
  ASSUME NEW T, 0 \in T, \A n \in Nat : n \in T => n + 1 \in T
  PROVE  \A n \in Nat : n \in T
<1> SUFFICES ASSUME ~ \A n \in Nat : n \in T PROVE FALSE
  OBVIOUS
<1> DEFINE S == {n \in Nat : n \notin T}
<1>1. S # {} /\ S \subseteq Nat
  OBVIOUS
<1> HIDE DEF S
<1>2. PICK m \in S : \A n \in S : m <= n
  BY <1>1, LeastNatural
<1>3. m \in Nat /\ m \notin T /\ m # 0
  BY <1>2 DEF S
<1>4. m - 1 \in Nat /\ m - 1 \notin S
  BY <1>2, <1>3
<1> QED BY <1>3, <1>4 DEF S

-----------------------------------------------------------------------------
\* The recursive function that SumTo evaluates exists, and is the only one.

IsUpTo(f, n, u) ==
    u = [k \in 0..n |-> IF k = 0 THEN 0 ELSE u[k - 1] + f[k]]

LEMMA UpToExists ==
  ASSUME NEW f, NEW n \in Nat
  PROVE  \E u : IsUpTo(f, n, u)
<1> DEFINE T == {m \in Nat : \E u : IsUpTo(f, m, u)}
<1>1. 0 \in T
  <2> DEFINE u == [k \in 0..0 |-> 0]
  <2>1. IsUpTo(f, 0, u)
    BY DEF IsUpTo
  <2> QED BY <2>1
<1>2. ASSUME NEW m \in Nat, m \in T
      PROVE  m + 1 \in T
  <2>1. PICK u : IsUpTo(f, m, u)
    BY <1>2
  <2> DEFINE v == [k \in 0..m + 1 |-> IF k = m + 1 THEN u[m] + f[m + 1]
                                                   ELSE u[k]]
             w == [k \in 0..m + 1 |-> IF k = 0 THEN 0 ELSE v[k - 1] + f[k]]
  <2>2. \A k \in 0..m : u[k] = IF k = 0 THEN 0 ELSE u[k - 1] + f[k]
    BY <2>1 DEF IsUpTo
  <2>3. \A k \in 0..m + 1 : v[k] = w[k]
    <3> TAKE k \in 0..m + 1
    <3>1. CASE k = m + 1
      <4>1. k # 0 /\ k - 1 = m /\ v[k - 1] = u[m]
        BY <3>1
      <4> QED BY <3>1, <4>1
    <3>2. CASE k # m + 1
      <4>1. k \in 0..m /\ v[k] = u[k]
        BY <3>2
      <4>2. k # 0 => k - 1 \in 0..m /\ v[k - 1] = u[k - 1]
        BY <4>1
      <4> QED BY <2>2, <4>1, <4>2
    <3> QED BY <3>1, <3>2
  <2>4. v = w
    BY <2>3
  <2>5. IsUpTo(f, m + 1, v)
    BY <2>4 DEF IsUpTo
  <2> QED BY <2>5
<1> HIDE DEF T
<1>3. n \in T
  BY <1>1, <1>2, SetInduction
<1> QED BY <1>3 DEF T

LEMMA UpToAgrees ==
  ASSUME NEW f, NEW g, NEW n \in Nat, NEW m \in Nat, n <= m,
         NEW u, NEW v, IsUpTo(f, n, u), IsUpTo(g, m, v),
         \A i \in 1..n : f[i] = g[i]
  PROVE  \A k \in 0..n : u[k] = v[k]
<1> DEFINE T == {k \in Nat : k <= n => u[k] = v[k]}
<1>1. \A k \in 0..n : u[k] = IF k = 0 THEN 0 ELSE u[k - 1] + f[k]
  BY DEF IsUpTo
<1>2. \A k \in 0..m : v[k] = IF k = 0 THEN 0 ELSE v[k - 1] + g[k]
  BY DEF IsUpTo
<1>3. 0 \in T
  BY <1>1, <1>2
<1>4. ASSUME NEW k \in Nat, k \in T
      PROVE  k + 1 \in T
  <2> SUFFICES ASSUME k + 1 <= n PROVE u[k + 1] = v[k + 1]
    OBVIOUS
  <2>1. k + 1 \in 0..n /\ k + 1 \in 0..m /\ k + 1 # 0 /\ (k + 1) - 1 = k
    OBVIOUS
  <2>2. u[k + 1] = u[k] + f[k + 1] /\ v[k + 1] = v[k] + g[k + 1]
    BY <1>1, <1>2, <2>1
  <2>3. u[k] = v[k] /\ f[k + 1] = g[k + 1]
    BY <1>4
  <2> QED BY <2>2, <2>3
<1> HIDE DEF T
<1>5. \A k \in Nat : k \in T
  BY <1>3, <1>4, SetInduction
<1> QED BY <1>5 DEF T

LEMMA SumToUp ==
  ASSUME NEW f, NEW n \in Nat
  PROVE  \E u : IsUpTo(f, n, u) /\ SumTo(f, n) = u[n]
<1> DEFINE u == CHOOSE v : IsUpTo(f, n, v)
<1>1. IsUpTo(f, n, u)
  BY UpToExists
<1>2. SumTo(f, n) = u[n]
  BY DEF SumTo, IsUpTo
<1> QED BY <1>1, <1>2

-----------------------------------------------------------------------------
\* What the proofs use.

LEMMA SumZero ==
  ASSUME NEW f
  PROVE  SumTo(f, 0) = 0
<1>1. PICK u : IsUpTo(f, 0, u) /\ SumTo(f, 0) = u[0]
  BY SumToUp
<1> QED BY <1>1 DEF IsUpTo

LEMMA SumAgrees ==
  ASSUME NEW f, NEW g, NEW n \in Nat, \A i \in 1..n : f[i] = g[i]
  PROVE  SumTo(f, n) = SumTo(g, n)
<1>1. PICK u : IsUpTo(f, n, u) /\ SumTo(f, n) = u[n]
  BY SumToUp
<1>2. PICK v : IsUpTo(g, n, v) /\ SumTo(g, n) = v[n]
  BY SumToUp
<1>3. n <= n /\ n \in 0..n
  OBVIOUS
<1>4. \A k \in 0..n : u[k] = v[k]
  <2>1. \A i \in 1..n : f[i] = g[i]
    OBVIOUS
  <2>2. \A m \in Nat : n <= m /\ IsUpTo(g, m, v) => \A k \in 0..n : u[k] = v[k]
    BY <1>1, <2>1, UpToAgrees
  <2> QED BY <1>2, <1>3, <2>2
<1> QED BY <1>1, <1>2, <1>3, <1>4

LEMMA SumStep ==
  ASSUME NEW f, NEW n \in Nat
  PROVE  SumTo(f, n + 1) = SumTo(f, n) + f[n + 1]
<1>1. PICK u : IsUpTo(f, n, u) /\ SumTo(f, n) = u[n]
  BY SumToUp
<1>2. PICK v : IsUpTo(f, n + 1, v) /\ SumTo(f, n + 1) = v[n + 1]
  BY SumToUp
<1>3. u[n] = v[n]
  <2>1. n + 1 \in Nat /\ n <= n + 1 /\ n \in 0..n
    OBVIOUS
  <2>2. \A i \in 1..n : f[i] = f[i]
    OBVIOUS
  <2>3. \A k \in 0..n : u[k] = v[k]
    BY <1>1, <1>2, <2>1, <2>2, UpToAgrees
  <2> QED BY <2>1, <2>3
<1>4. v[n + 1] = v[n] + f[n + 1]
  <2>1. n + 1 \in 0..n + 1 /\ n + 1 # 0 /\ (n + 1) - 1 = n
    OBVIOUS
  <2> QED BY <1>2, <2>1 DEF IsUpTo
<1> QED BY <1>1, <1>2, <1>3, <1>4

LEMMA SumType ==
  ASSUME NEW f, NEW n \in Nat, \A i \in 1..n : f[i] \in Nat
  PROVE  SumTo(f, n) \in Nat
<1> DEFINE T == {m \in Nat : m <= n => SumTo(f, m) \in Nat}
<1>1. 0 \in T
  BY SumZero
<1>2. ASSUME NEW m \in Nat, m \in T
      PROVE  m + 1 \in T
  <2> SUFFICES ASSUME m + 1 <= n PROVE SumTo(f, m + 1) \in Nat
    OBVIOUS
  <2>1. SumTo(f, m) \in Nat /\ f[m + 1] \in Nat
    BY <1>2
  <2>2. SumTo(f, m + 1) = SumTo(f, m) + f[m + 1]
    BY SumStep
  <2> QED BY <2>1, <2>2
<1> HIDE DEF T
<1>3. n \in T
  BY <1>1, <1>2, SetInduction
<1> QED BY <1>3 DEF T

\* The first value apart from the rest.
LEMMA SumFirst ==
  ASSUME NEW f, NEW g, NEW n \in Nat,
         \A i \in 1..n + 1 : f[i] \in Nat,
         \A i \in 1..n : g[i] = f[i + 1]
  PROVE  SumTo(f, n + 1) = f[1] + SumTo(g, n)
<1> DEFINE T == {m \in Nat : m <= n => SumTo(f, m + 1) = f[1] + SumTo(g, m)}
<1>1. 0 \in T
  <2>1. SumTo(f, 0 + 1) = SumTo(f, 0) + f[0 + 1]
    BY SumStep
  <2>2. SumTo(f, 0) = 0 /\ SumTo(g, 0) = 0
    BY SumZero
  <2>3. f[1] \in Nat
    OBVIOUS
  <2> QED BY <2>1, <2>2, <2>3
<1>2. ASSUME NEW m \in Nat, m \in T
      PROVE  m + 1 \in T
  <2> SUFFICES ASSUME m + 1 <= n
               PROVE  SumTo(f, (m + 1) + 1) = f[1] + SumTo(g, m + 1)
    OBVIOUS
  <2>1. /\ SumTo(f, (m + 1) + 1) = SumTo(f, m + 1) + f[(m + 1) + 1]
        /\ SumTo(g, m + 1) = SumTo(g, m) + g[m + 1]
    BY SumStep
  <2>2. SumTo(f, m + 1) = f[1] + SumTo(g, m)
    BY <1>2
  <2>3. m + 1 \in 1..n /\ (m + 1) + 1 \in 1..n + 1
    OBVIOUS
  <2>4. /\ g[m + 1] = f[(m + 1) + 1] /\ g[m + 1] \in Nat /\ f[1] \in Nat
    BY <2>3
  <2>5. SumTo(g, m) \in Nat
    <3>1. \A i \in 1..m : g[i] \in Nat
      <4> TAKE i \in 1..m
      <4>1. i \in 1..n /\ i + 1 \in 1..n + 1
        OBVIOUS
      <4> QED BY <4>1
    <3> QED BY <3>1, SumType
  <2> QED BY <2>1, <2>2, <2>4, <2>5
<1> HIDE DEF T
<1>3. n \in T
  BY <1>1, <1>2, SetInduction
<1> QED BY <1>3 DEF T

-----------------------------------------------------------------------------
\* Both ends of a queue.

LEMMA HeadTailType ==
  ASSUME NEW S, NEW q \in Seq(S), q # <<>>
  PROVE  /\ Head(q) \in S /\ Head(q) = q[1] /\ Tail(q) \in Seq(S)
         /\ Len(q) \in Nat \ {0} /\ Len(Tail(q)) = Len(q) - 1
         /\ \A k \in 1..Len(q) - 1 : Tail(q)[k] = q[k + 1]
  OBVIOUS

LEMMA AppendType ==
  ASSUME NEW S, NEW q \in Seq(S), NEW e \in S
  PROVE  /\ Append(q, e) \in Seq(S) /\ Append(q, e) # <<>>
         /\ Len(q) \in Nat /\ Len(Append(q, e)) = Len(q) + 1
         /\ Append(q, e)[Len(q) + 1] = e
         /\ \A k \in 1..Len(q) : Append(q, e)[k] = q[k]
  OBVIOUS

-----------------------------------------------------------------------------
\* A loop of n turns exists as a function f: step gives, from a turn and what the
\* turns before have left, what this one leaves.
IsLoop(f, n, base, step) ==
    f[0] = base /\ \A k \in 1..n : f[k] = step[<<k, f[k - 1]>>]

LEMMA LoopExists ==
  ASSUME NEW S, NEW base \in S, NEW n \in Nat, NEW step \in [(1..n) \X S -> S]
  PROVE  \E f \in [0..n -> S] : IsLoop(f, n, base, step)
<1> DEFINE T == {m \in Nat : m <= n =>
                    \E f \in [0..m -> S] : IsLoop(f, m, base, step)}
<1>1. 0 \in T
  <2> DEFINE f == [k \in 0..0 |-> base]
  <2>1. f \in [0..0 -> S] /\ f[0] = base
    OBVIOUS
  <2>2. 1..0 = {}
    OBVIOUS
  <2> HIDE DEF f
  <2> QED BY <2>1, <2>2 DEF IsLoop
<1>2. ASSUME NEW m \in Nat, m \in T
      PROVE  m + 1 \in T
  <2> SUFFICES ASSUME m + 1 <= n
               PROVE  \E f \in [0..m + 1 -> S] : IsLoop(f, m + 1, base, step)
    OBVIOUS
  <2>1. PICK f \in [0..m -> S] : IsLoop(f, m, base, step)
    BY <1>2
  <2> DEFINE more == step[<<m + 1, f[m]>>]
             g == [k \in 0..m + 1 |-> IF k = m + 1 THEN more ELSE f[k]]
  <2>2. more \in S
    <3>1. f[m] \in S /\ m + 1 \in 1..n
      OBVIOUS
    <3> QED BY <3>1
  <2>3. g \in [0..m + 1 -> S] /\ g[0] = base
    BY <2>1, <2>2 DEF IsLoop
  <2>4. ASSUME NEW k \in 1..m + 1 PROVE g[k] = step[<<k, g[k - 1]>>]
    <3>1. CASE k = m + 1
      <4>1. k - 1 = m /\ g[k - 1] = f[m] /\ g[k] = more
        BY <3>1
      <4> QED BY <3>1, <4>1
    <3>2. CASE k # m + 1
      <4>1. k \in 1..m /\ k - 1 \in 0..m
        BY <3>2
      <4>2. g[k] = f[k] /\ g[k - 1] = f[k - 1]
        BY <3>2, <4>1
      <4> QED BY <2>1, <4>1, <4>2 DEF IsLoop
    <3> QED BY <3>1, <3>2
  <2> HIDE DEF g
  <2> QED BY <2>3, <2>4 DEF IsLoop
<1> HIDE DEF T
<1>3. n \in T
  BY <1>1, <1>2, SetInduction
<1> QED BY <1>3 DEF T

-----------------------------------------------------------------------------
\* Paths.  A queue is a path from s to t if its elements, in order, lead from
\* one to the other by steps of the relation R.
Path(q, R, s, t) ==
    \E st : /\ st[0] = s /\ st[Len(q)] = t
            /\ \A k \in 1..Len(q) : <<st[k - 1], q[k], st[k]>> \in R

LEMMA PathEmpty ==
  ASSUME NEW R, NEW s, NEW t
  PROVE  Path(<<>>, R, s, t) <=> s = t
<1>1. Len(<<>>) = 0 /\ 1..0 = {}
  OBVIOUS
<1>2. ASSUME s = t PROVE Path(<<>>, R, s, t)
  <2> DEFINE st == [k \in 0..0 |-> s]
  <2>1. st[0] = s /\ st[Len(<<>>)] = t
    BY <1>1, <1>2
  <2> HIDE DEF st
  <2> QED BY <1>1, <2>1 DEF Path
<1> QED BY <1>1, <1>2 DEF Path

LEMMA PathAppend ==
  ASSUME NEW S, NEW q \in Seq(S), NEW e \in S, NEW R, NEW s, NEW t, NEW u,
         Path(q, R, s, t), <<t, e, u>> \in R
  PROVE  Path(Append(q, e), R, s, u)
<1> DEFINE n == Len(q)
           after == Append(q, e)
<1>1. PICK st : /\ st[0] = s /\ st[n] = t
                /\ \A k \in 1..n : <<st[k - 1], q[k], st[k]>> \in R
  BY DEF Path
<1>2. /\ n \in Nat /\ Len(after) = n + 1 /\ after[n + 1] = e
      /\ \A k \in 1..n : after[k] = q[k]
  BY AppendType
<1> HIDE DEF n, after
<1> DEFINE all == [k \in 0..n + 1 |-> IF k = n + 1 THEN u ELSE st[k]]
<1>3. all[0] = s /\ all[n + 1] = u
  BY <1>1, <1>2
<1>4. ASSUME NEW k \in 1..n + 1 PROVE <<all[k - 1], after[k], all[k]>> \in R
  <2>1. CASE k = n + 1
    <3>1. all[k - 1] = t /\ all[k] = u /\ after[k] = e
      BY <1>1, <1>2, <2>1
    <3> QED BY <3>1
  <2>2. CASE k # n + 1
    <3>1. k \in 1..n /\ k - 1 \in 0..n + 1 /\ k - 1 # n + 1
      BY <1>2, <2>2
    <3>2. all[k - 1] = st[k - 1] /\ all[k] = st[k] /\ after[k] = q[k]
      BY <1>2, <2>2, <3>1
    <3> QED BY <1>1, <3>1, <3>2
  <2> QED BY <2>1, <2>2
<1> HIDE DEF all
<1> QED BY <1>2, <1>3, <1>4 DEF Path, after

LEMMA PathTail ==
  ASSUME NEW S, NEW q \in Seq(S), q # <<>>, NEW R, NEW s, NEW t,
         Path(q, R, s, t)
  PROVE  \E u : <<s, Head(q), u>> \in R /\ Path(Tail(q), R, u, t)
<1> DEFINE n == Len(q) - 1
           rest == Tail(q)
<1>1. PICK st : /\ st[0] = s /\ st[Len(q)] = t
                /\ \A k \in 1..Len(q) : <<st[k - 1], q[k], st[k]>> \in R
  BY DEF Path
<1>2. /\ n \in Nat /\ Len(q) = n + 1 /\ Len(rest) = n /\ Head(q) = q[1]
      /\ \A k \in 1..n : rest[k] = q[k + 1]
  BY HeadTailType
<1> HIDE DEF n, rest
<1> DEFINE all == [k \in 0..n |-> st[k + 1]]
<1>3. all[0] = st[1] /\ all[n] = t
  BY <1>1, <1>2
<1>4. ASSUME NEW k \in 1..n PROVE <<all[k - 1], rest[k], all[k]>> \in R
  <2>1. k + 1 \in 1..n + 1 /\ k - 1 \in 0..n /\ k \in 0..n
    BY <1>2
  <2>2. all[k - 1] = st[k + 1 - 1] /\ all[k] = st[k + 1] /\ rest[k] = q[k + 1]
    BY <1>2, <2>1
  <2> QED BY <1>1, <1>2, <2>1, <2>2
<1> HIDE DEF all
<1>5. Path(rest, R, st[1], t)
  BY <1>2, <1>3, <1>4 DEF Path
<1>6. <<s, Head(q), st[1]>> \in R
  <2>1. 1 \in 1..Len(q) /\ 1 - 1 = 0
    BY <1>2
  <2> QED BY <1>1, <1>2, <2>1
<1> QED BY <1>5, <1>6 DEF rest

LEMMA PathCons ==
  ASSUME NEW S, NEW q \in Seq(S), NEW e \in S, NEW R, NEW s, NEW t, NEW u,
         Path(q, R, s, t), <<u, e, s>> \in R
  PROVE  Path(<<e>> \o q, R, u, t)
<1> DEFINE n == Len(q)
           one == <<e>>
           after == one \o q
<1>1. PICK st : /\ st[0] = s /\ st[n] = t
                /\ \A k \in 1..n : <<st[k - 1], q[k], st[k]>> \in R
  BY DEF Path
<1>2. n \in Nat /\ one \in Seq(S) /\ Len(one) = 1 /\ one[1] = e
  OBVIOUS
<1> HIDE DEF one
<1>3. /\ Len(after) = n + 1
      /\ \A k \in 1..n + 1 : after[k] = IF k <= 1 THEN one[k] ELSE q[k - 1]
  <2>1. /\ Len(after) = Len(one) + n
        /\ \A k \in 1..Len(one) + n :
              after[k] = IF k <= Len(one) THEN one[k] ELSE q[k - Len(one)]
    BY <1>2, ConcatProperties
  <2>2. Len(one) + n = n + 1
    BY <1>2
  <2> QED BY <1>2, <2>1, <2>2
<1> HIDE DEF n, after
<1> DEFINE all == [k \in 0..n + 1 |-> IF k = 0 THEN u ELSE st[k - 1]]
<1>4. all[0] = u /\ all[n + 1] = t
  BY <1>1, <1>2
<1>5. ASSUME NEW k \in 1..n + 1 PROVE <<all[k - 1], after[k], all[k]>> \in R
  <2>1. CASE k = 1
    <3>1. all[k - 1] = u /\ all[k] = s /\ after[k] = e
      BY <1>1, <1>2, <1>3, <2>1
    <3> QED BY <3>1
  <2>2. CASE k # 1
    <3>1. k - 1 \in 1..n /\ k - 1 \in 0..n + 1
      BY <1>2, <2>2
    <3>2. all[k - 1] = st[k - 1 - 1] /\ all[k] = st[k - 1]
          /\ after[k] = q[k - 1]
      BY <1>2, <1>3, <2>2, <3>1
    <3> QED BY <1>1, <3>1, <3>2
  <2> QED BY <2>1, <2>2
<1> HIDE DEF all
<1> QED BY <1>3, <1>4, <1>5 DEF Path, after, one

LEMMA PathMore ==
  ASSUME NEW q, NEW R, NEW Q, R \subseteq Q, NEW s, NEW t, Path(q, R, s, t)
  PROVE  Path(q, Q, s, t)
  BY DEF Path
===============================================================================
