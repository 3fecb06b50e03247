--------------------------- MODULE FrameCodecProofs ----------------------------
(***************************************************************************)
(* The invariants of the frame codec, for any header length, chunk         *)
(* capacity, read size and socket, and whatever frames are written.        *)
(***************************************************************************)
EXTENDS FrameCodec, PacketHeaderProofs, InductionProofs, FiniteSetTheorems

-----------------------------------------------------------------------------
\* Sequences of sequences, flattened.

\* A set of sequences, with the facts about \o that the proofs use: kept apart
\* from what sequences are, which the backends then need not look into.
Concatenates(Q) ==
    /\ <<>> \in Q /\ \A x, y \in Q : x \o y \in Q
    /\ \A x \in Q : <<>> \o x = x /\ x \o <<>> = x
    /\ \A x, y, z \in Q : (x \o y) \o z = x \o (y \o z)

LEMMA SeqJoins ==
  ASSUME NEW S
  PROVE  Concatenates(Seq(S))
<1>1. <<>> \in Seq(S)
  OBVIOUS
<1>2. \A x, y \in Seq(S) : x \o y \in Seq(S)
  BY ConcatProperties
<1>3. \A x \in Seq(S) : <<>> \o x = x /\ x \o <<>> = x
  BY ConcatEmptySeq
<1>4. \A x, y, z \in Seq(S) : (x \o y) \o z = x \o (y \o z)
  BY ConcatAssociative
<1> QED BY <1>1, <1>2, <1>3, <1>4 DEF Concatenates

\* What FlattenSeq makes of a sequence of sequences, one after the other.
IsFlat(f, n, ss) ==
    f[0] = <<>> /\ \A k \in 1..n : f[k] = f[k - 1] \o ss[k]

LEMMA FlatTurns ==
  ASSUME NEW Q, Concatenates(Q), NEW ss \in Seq(Q), NEW n, n = Len(ss)
  PROVE  \E f \in [0..n -> Q] : IsFlat(f, n, ss) /\ FlattenSeq(ss) = f[n]
<1>1. n \in Nat /\ \A k \in 1..n : ss[k] \in Q
  OBVIOUS
<1>2. <<>> \in Q /\ \A x, y \in Q : x \o y \in Q
  BY DEF Concatenates
<1> DEFINE step == [p \in (1..n) \X Q |-> p[2] \o ss[p[1]]]
<1>3. step \in [(1..n) \X Q -> Q]
  <2>1. ASSUME NEW p \in (1..n) \X Q PROVE p[2] \o ss[p[1]] \in Q
    <3>1. p[2] \in Q /\ ss[p[1]] \in Q
      BY <1>1
    <3> QED BY <1>2, <3>1
  <2> QED BY <2>1
<1>4. \A k \in 1..n, x \in Q : step[<<k, x>>] = x \o ss[k]
  OBVIOUS
<1> HIDE DEF step
<1>5. PICK f \in [0..n -> Q] : IsLoop(f, n, <<>>, step)
  BY <1>1, <1>2, <1>3, LoopExists
<1>6. IsFlat(f, n, ss)
  <2>1. ASSUME NEW k \in 1..n PROVE f[k] = f[k - 1] \o ss[k]
    <3>1. f[k - 1] \in Q
      BY <1>1
    <3> QED BY <1>4, <1>5, <3>1 DEF IsLoop
  <2> QED BY <1>5, <2>1 DEF IsLoop, IsFlat
<1>7. n > 0 => f[1] = ss[1]
  <2> SUFFICES ASSUME n > 0 PROVE f[1] = ss[1]
    OBVIOUS
  <2>1. 1 \in 1..n /\ 1 - 1 = 0
    BY <1>1
  <2>2. f[1] = <<>> \o ss[1] /\ ss[1] \in Q
    BY <1>1, <1>6, <2>1 DEF IsFlat
  <2> QED BY <2>2 DEF Concatenates
<1>8. CASE n = 0
  <2>1. ss = <<>> /\ Len(ss) = 0
    <3>1. Len(ss) = 0
      BY <1>8
    <3> QED BY <3>1, EmptySeq
  <2>2. FlattenSeq(ss) = <<>>
    BY <2>1 DEF FlattenSeq
  <2> QED BY <1>6, <1>8, <2>2 DEF IsFlat
<1>9. CASE n # 0
  <2> DEFINE Is(u) == u = [i \in 1..n |-> IF i = 1 THEN ss[i] ELSE u[i - 1] \o ss[i]]
             g == [i \in 1..n |-> f[i]]
             flat == CHOOSE u : Is(u)
  <2>1. Is(g)
    <3>1. \A i \in 1..n :
             g[i] = IF i = 1 THEN ss[i] ELSE g[i - 1] \o ss[i]
      <4> TAKE i \in 1..n
      <4>1. CASE i = 1
        BY <1>1, <1>7, <1>9, <4>1
      <4>2. CASE i # 1
        <5>1. i - 1 \in 1..n
          BY <1>1, <4>2
        <5> QED BY <1>6, <4>2, <5>1 DEF IsFlat
      <4> QED BY <4>1, <4>2
    <3> QED BY <3>1
  <2>2. Is(flat)
    BY <2>1
  <2>3. FlattenSeq(ss) = flat[n]
    BY <1>9 DEF FlattenSeq
  <2>4. \A i \in 1..n : flat[i] = IF i = 1 THEN ss[i] ELSE flat[i - 1] \o ss[i]
    BY <2>2
  <2> HIDE DEF flat, g, Is
  <2> DEFINE T == {k \in Nat : k \in 1..n => flat[k] = f[k]}
  <2>5. 0 \in T
    OBVIOUS
  <2>6. ASSUME NEW k \in Nat, k \in T
        PROVE  k + 1 \in T
    <3> SUFFICES ASSUME k + 1 \in 1..n PROVE flat[k + 1] = f[k + 1]
      OBVIOUS
    <3>1. CASE k = 0
      <4>1. k + 1 = 1 /\ 1 \in 1..n /\ n > 0
        BY <1>1, <3>1
      <4>2. flat[1] = ss[1]
        BY <2>4, <4>1
      <4> QED BY <1>7, <4>1, <4>2
    <3>2. CASE k # 0
      <4>1. k \in 1..n /\ (k + 1) - 1 = k /\ k + 1 # 1
        BY <1>1, <3>2
      <4>2. flat[k] = f[k]
        BY <2>6, <4>1
      <4>3. flat[k + 1] = flat[k] \o ss[k + 1]
        BY <2>4, <4>1
      <4>4. f[k + 1] = f[k] \o ss[k + 1]
        BY <1>6, <4>1 DEF IsFlat
      <4> QED BY <4>2, <4>3, <4>4
    <3> QED BY <3>1, <3>2
  <2> HIDE DEF T
  <2>7. n \in T
    BY <1>1, <2>5, <2>6, SetInduction
  <2>8. flat[n] = f[n]
    BY <1>1, <1>9, <2>7 DEF T
  <2> QED BY <1>6, <2>3, <2>8
<1> QED BY <1>8, <1>9

LEMMA FlatEmpty == FlattenSeq(<<>>) = <<>>
  BY DEF FlattenSeq

LEMMA FlatType ==
  ASSUME NEW Q, Concatenates(Q), NEW ss \in Seq(Q)
  PROVE  FlattenSeq(ss) \in Q
<1> DEFINE n == Len(ss)
<1>1. n \in Nat
  OBVIOUS
<1>2. PICK f \in [0..n -> Q] : FlattenSeq(ss) = f[n]
  BY FlatTurns
<1> HIDE DEF n
<1> QED BY <1>1, <1>2

LEMMA FlatOne ==
  ASSUME NEW Q, Concatenates(Q), NEW s \in Q
  PROVE  FlattenSeq(<<s>>) = s
<1> DEFINE ss == <<s>>
<1>1. ss \in Seq(Q) /\ 1 = Len(ss) /\ ss[1] = s
  OBVIOUS
<1> HIDE DEF ss
<1>2. PICK f \in [0..1 -> Q] : IsFlat(f, 1, ss) /\ FlattenSeq(ss) = f[1]
  BY <1>1, FlatTurns
<1>3. 1 \in 1..1 /\ 1 - 1 = 0
  OBVIOUS
<1>4. FlattenSeq(ss) = <<>> \o s
  BY <1>1, <1>2, <1>3 DEF IsFlat
<1> QED BY <1>4 DEF Concatenates, ss

LEMMA FlatConcat ==
  ASSUME NEW Q, Concatenates(Q), NEW ss \in Seq(Q), NEW tt \in Seq(Q)
  PROVE  FlattenSeq(ss \o tt) = FlattenSeq(ss) \o FlattenSeq(tt)
<1> DEFINE m == Len(ss)
           n == Len(tt)
           all == ss \o tt
<1>1. m \in Nat /\ n \in Nat /\ \A k \in 1..n : tt[k] \in Q
  OBVIOUS
<1>2. /\ all \in Seq(Q) /\ m + n = Len(all)
      /\ \A k \in 1..m + n : all[k] = IF k <= m THEN ss[k] ELSE tt[k - m]
  BY ConcatProperties
<1>3. PICK f \in [0..m -> Q] : IsFlat(f, m, ss) /\ FlattenSeq(ss) = f[m]
  BY FlatTurns
<1>4. PICK g \in [0..n -> Q] : IsFlat(g, n, tt) /\ FlattenSeq(tt) = g[n]
  BY FlatTurns
<1> HIDE DEF all, m, n
<1>5. PICK h \in [0..m + n -> Q] :
         IsFlat(h, m + n, all) /\ FlattenSeq(all) = h[m + n]
  <2> DEFINE sum == m + n
  <2>1. sum = Len(all)
    BY <1>2
  <2> HIDE DEF sum
  <2>2. \E h \in [0..sum -> Q] : IsFlat(h, sum, all) /\ FlattenSeq(all) = h[sum]
    BY <1>2, <2>1, FlatTurns
  <2> QED BY <2>2 DEF sum
<1>6. h[m] = f[m]
  <2> DEFINE T == {k \in Nat : k <= m => h[k] = f[k]}
  <2>1. 0 \in T
    BY <1>3, <1>5 DEF IsFlat
  <2>2. ASSUME NEW k \in Nat, k \in T
        PROVE  k + 1 \in T
    <3> SUFFICES ASSUME k + 1 <= m PROVE h[k + 1] = f[k + 1]
      OBVIOUS
    <3>1. k + 1 \in 1..m /\ k + 1 \in 1..m + n /\ (k + 1) - 1 = k /\ k <= m
      BY <1>1
    <3>2. h[k] = f[k]
      BY <2>2, <3>1
    <3>3. all[k + 1] = ss[k + 1]
      BY <1>2, <3>1
    <3>4. f[k + 1] = f[k] \o ss[k + 1]
      BY <1>3, <3>1 DEF IsFlat
    <3>5. h[k + 1] = h[k] \o all[k + 1]
      BY <1>5, <3>1 DEF IsFlat
    <3> QED BY <3>2, <3>3, <3>4, <3>5
  <2> HIDE DEF T
  <2>3. m \in T
    BY <1>1, <2>1, <2>2, SetInduction
  <2> QED BY <1>1, <2>3 DEF T
<1>7. h[m + n] = f[m] \o g[n]
  <2>1. f[m] \in Q
    BY <1>1
  <2> DEFINE front == f[m]
             late == [k \in 0..n |-> h[m + k]]
             T == {k \in Nat : k <= n => late[k] = front \o g[k]}
  <2>2. \A k \in 0..n : late[k] = h[m + k]
    OBVIOUS
  <2>3. front \in Q /\ h[m] = front
    BY <1>6, <2>1
  <2> HIDE DEF late, front
  <2>4. 0 \in T
    <3>1. m + 0 = m /\ g[0] = <<>> /\ 0 \in 0..n
      BY <1>1, <1>4 DEF IsFlat
    <3>2. front \o <<>> = front
      BY <2>3 DEF Concatenates
    <3> QED BY <2>2, <2>3, <3>1, <3>2
  <2>5. ASSUME NEW k \in Nat, k \in T
        PROVE  k + 1 \in T
    <3> SUFFICES ASSUME k + 1 <= n PROVE late[k + 1] = front \o g[k + 1]
      OBVIOUS
    <3>1. /\ k + 1 \in 1..n /\ k \in 0..n /\ k + 1 \in 0..n
          /\ (k + 1) - 1 = k /\ k <= n
          /\ m + (k + 1) \in 1..m + n /\ (m + (k + 1)) - 1 = m + k
          /\ ~(m + (k + 1) <= m) /\ (m + (k + 1)) - m = k + 1
      BY <1>1
    <3>2. late[k] = front \o g[k]
      BY <2>5, <3>1
    <3>3. h[m + (k + 1)] = h[m + k] \o all[m + (k + 1)]
      BY <1>5, <3>1 DEF IsFlat
    <3>4. all[m + (k + 1)] = tt[k + 1]
      BY <1>2, <3>1
    <3>5. g[k + 1] = g[k] \o tt[k + 1]
      BY <1>4, <3>1 DEF IsFlat
    <3>6. g[k] \in Q /\ tt[k + 1] \in Q
      BY <1>1, <3>1
    <3>7. (front \o g[k]) \o tt[k + 1] = front \o (g[k] \o tt[k + 1])
      BY <2>3, <3>6 DEF Concatenates
    <3>8. late[k + 1] = h[m + (k + 1)] /\ late[k] = h[m + k]
      BY <2>2, <3>1
    <3> QED BY <3>2, <3>3, <3>4, <3>5, <3>7, <3>8
  <2> HIDE DEF T
  <2>6. n \in T
    BY <1>1, <2>4, <2>5, SetInduction
  <2>7. late[n] = front \o g[n]
    BY <1>1, <2>6 DEF T
  <2> QED BY <1>1, <2>2, <2>7 DEF front
<1> QED BY <1>3, <1>4, <1>5, <1>7 DEF all

-----------------------------------------------------------------------------
\* The same of a sequence whose elements a function makes sequences of.
Maps(F, D, Q) == F \in [D -> Q]
Images(F, q) == [i \in DOMAIN q |-> F[q[i]]]
FlatImages(F, q) == FlattenSeq(Images(F, q))

LEMMA ImagesType ==
  ASSUME NEW D, NEW Q, NEW F, Maps(F, D, Q), NEW q \in Seq(D)
  PROVE  /\ Images(F, q) \in Seq(Q) /\ Len(Images(F, q)) = Len(q)
         /\ \A i \in 1..Len(q) : Images(F, q)[i] = F[q[i]]
<1> DEFINE n == Len(q)
           images == Images(F, q)
<1>1. n \in Nat /\ DOMAIN q = 1..n /\ \A i \in 1..n : q[i] \in D
  OBVIOUS
<1> HIDE DEF n
<1>2. images \in [1..n -> Q] /\ \A i \in 1..n : images[i] = F[q[i]]
  BY <1>1 DEF Images, Maps
<1> HIDE DEF images
<1>3. images \in Seq(Q) /\ Len(images) = n
  BY <1>1, <1>2
<1> QED BY <1>2, <1>3 DEF n, images

LEMMA FlatImagesEmpty ==
  ASSUME NEW F
  PROVE  FlatImages(F, <<>>) = <<>>
<1>1. Images(F, <<>>) = <<>>
  BY DEF Images
<1> QED BY <1>1, FlatEmpty DEF FlatImages

LEMMA FlatImagesType ==
  ASSUME NEW D, NEW Q, Concatenates(Q), NEW F, Maps(F, D, Q), NEW q \in Seq(D)
  PROVE  FlatImages(F, q) \in Q
<1>1. Images(F, q) \in Seq(Q)
  BY ImagesType
<1> QED BY <1>1, FlatType DEF FlatImages

LEMMA FlatImagesOne ==
  ASSUME NEW D, NEW Q, Concatenates(Q), NEW F, Maps(F, D, Q), NEW d \in D
  PROVE  FlatImages(F, <<d>>) = F[d]
<1> DEFINE one == <<d>>
           image == <<F[d]>>
<1>1. one \in Seq(D) /\ Len(one) = 1 /\ one[1] = d
  OBVIOUS
<1>2. image \in Seq(Q) /\ Len(image) = 1 /\ image[1] = F[d]
  BY DEF Maps
<1> HIDE DEF one, image
<1>3. /\ Images(F, one) \in Seq(Q) /\ Len(Images(F, one)) = 1
      /\ \A i \in 1..1 : Images(F, one)[i] = F[one[i]]
  <2> DEFINE n == Len(one)
  <2>1. /\ Images(F, one) \in Seq(Q) /\ Len(Images(F, one)) = n
        /\ \A i \in 1..n : Images(F, one)[i] = F[one[i]]
    BY <1>1, ImagesType
  <2> QED BY <1>1, <2>1
<1>4. Images(F, one) = image
  <2>1. \A i \in 1..1 : Images(F, one)[i] = image[i]
    BY <1>1, <1>2, <1>3
  <2> QED BY <1>2, <1>3, <2>1, SeqEqual
<1>5. FlattenSeq(image) = F[d]
  BY FlatOne DEF image, Maps
<1> QED BY <1>4, <1>5 DEF FlatImages, one

LEMMA FlatImagesConcat ==
  ASSUME NEW D, NEW Q, Concatenates(Q), NEW F, Maps(F, D, Q),
         NEW p \in Seq(D), NEW q \in Seq(D)
  PROVE  FlatImages(F, p \o q) = FlatImages(F, p) \o FlatImages(F, q)
<1> DEFINE m == Len(p)
           n == Len(q)
           pq == p \o q
           ip == Images(F, p)
           iq == Images(F, q)
           images == Images(F, pq)
<1>1. m \in Nat /\ n \in Nat
  OBVIOUS
<1>2. /\ pq \in Seq(D) /\ Len(pq) = m + n
      /\ \A k \in 1..m + n : pq[k] = IF k <= m THEN p[k] ELSE q[k - m]
  BY ConcatProperties
<1>3. /\ ip \in Seq(Q) /\ Len(ip) = m /\ \A i \in 1..m : ip[i] = F[p[i]]
      /\ iq \in Seq(Q) /\ Len(iq) = n /\ \A i \in 1..n : iq[i] = F[q[i]]
  BY ImagesType
<1> HIDE DEF pq
<1>4. /\ images \in Seq(Q) /\ Len(images) = Len(pq)
      /\ \A i \in 1..Len(pq) : images[i] = F[pq[i]]
  <2>1. pq \in Seq(D)
    BY <1>2
  <2> QED BY <2>1, ImagesType
<1> HIDE DEF m, n, ip, iq, images
<1> DEFINE both == ip \o iq
<1>5. /\ both \in Seq(Q) /\ Len(both) = m + n
      /\ \A k \in 1..m + n : both[k] = IF k <= m THEN ip[k] ELSE iq[k - m]
  <2>1. /\ both \in Seq(Q) /\ Len(both) = Len(ip) + Len(iq)
        /\ \A k \in 1..Len(ip) + Len(iq) :
              both[k] = IF k <= Len(ip) THEN ip[k] ELSE iq[k - Len(ip)]
    BY <1>3, ConcatProperties
  <2> QED BY <1>3, <2>1
<1>6. \A k \in 1..m + n : images[k] = both[k]
  <2> TAKE k \in 1..m + n
  <2>1. CASE k <= m
    <3>1. k \in 1..m
      BY <1>1, <2>1
    <3>2. images[k] = F[pq[k]] /\ pq[k] = p[k] /\ both[k] = ip[k]
      BY <1>2, <1>4, <1>5, <2>1
    <3> QED BY <1>3, <3>1, <3>2
  <2>2. CASE ~(k <= m)
    <3>1. k - m \in 1..n
      BY <1>1, <2>2
    <3>2. images[k] = F[pq[k]] /\ pq[k] = q[k - m] /\ both[k] = iq[k - m]
      BY <1>2, <1>4, <1>5, <2>2
    <3> QED BY <1>3, <3>1, <3>2
  <2> QED BY <2>1, <2>2
<1>7. images = both
  <2> HIDE DEF both
  <2> QED BY <1>2, <1>4, <1>5, <1>6, SeqEqual
<1>8. FlattenSeq(both) = FlattenSeq(ip) \o FlattenSeq(iq)
  BY <1>3, FlatConcat
<1> QED BY <1>7, <1>8 DEF FlatImages, images, pq, ip, iq

\* A queue is its first element and the rest.
LEMMA HeadAndTail ==
  ASSUME NEW D, NEW q \in Seq(D), q # <<>>
  PROVE  /\ Head(q) \in D /\ Tail(q) \in Seq(D) /\ <<Head(q)>> \in Seq(D)
         /\ q = <<Head(q)>> \o Tail(q)
<1> DEFINE h == Head(q)
           one == <<h>>
           t == Tail(q)
           n == Len(q)
           all == one \o t
<1>1. /\ h \in D /\ t \in Seq(D) /\ Len(t) = n - 1 /\ n \in Nat \ {0} /\ h = q[1]
      /\ \A k \in 1..n - 1 : t[k] = q[k + 1]
  BY HeadTailType
<1> HIDE DEF h, t
<1>2. one \in Seq(D) /\ Len(one) = 1 /\ one[1] = h
  BY <1>1
<1> HIDE DEF one
<1>3. /\ all \in Seq(D) /\ Len(all) = n
      /\ \A k \in 1..n : all[k] = IF k <= 1 THEN one[k] ELSE t[k - 1]
  <2>1. /\ all \in Seq(D) /\ Len(all) = Len(one) + Len(t)
        /\ \A k \in 1..Len(one) + Len(t) :
              all[k] = IF k <= Len(one) THEN one[k] ELSE t[k - Len(one)]
    BY <1>1, <1>2, ConcatProperties
  <2>2. Len(one) + Len(t) = n
    BY <1>1, <1>2
  <2> QED BY <1>2, <2>1, <2>2
<1>4. \A k \in 1..n : all[k] = q[k]
  <2> TAKE k \in 1..n
  <2>1. CASE k = 1
    BY <1>1, <1>2, <1>3, <2>1
  <2>2. CASE k # 1
    <3>1. k - 1 \in 1..n - 1 /\ (k - 1) + 1 = k /\ ~(k <= 1)
      BY <1>1, <2>2
    <3> QED BY <1>1, <1>3, <3>1
  <2> QED BY <2>1, <2>2
<1>5. all = q
  <2> HIDE DEF all
  <2>1. Len(q) = n
    OBVIOUS
  <2> HIDE DEF n
  <2> QED BY <1>3, <1>4, <2>1, SeqEqual
<1> QED BY <1>1, <1>2, <1>5 DEF h, t, one

LEMMA FlatImagesHead ==
  ASSUME NEW D, NEW Q, Concatenates(Q), NEW F, Maps(F, D, Q),
         NEW q \in Seq(D), q # <<>>
  PROVE  FlatImages(F, q) = F[Head(q)] \o FlatImages(F, Tail(q))
<1> DEFINE h == Head(q)
           one == <<h>>
           t == Tail(q)
<1>1. h \in D /\ t \in Seq(D) /\ one \in Seq(D) /\ q = one \o t
  BY HeadAndTail
<1> HIDE DEF h, t
<1>2. FlatImages(F, one) = F[h]
  BY <1>1, FlatImagesOne
<1> HIDE DEF one
<1>3. FlatImages(F, one \o t) = FlatImages(F, one) \o FlatImages(F, t)
  BY <1>1, FlatImagesConcat
<1> QED BY <1>1, <1>2, <1>3 DEF h, t

LEMMA FlatImagesAppend ==
  ASSUME NEW D, NEW Q, Concatenates(Q), NEW F, Maps(F, D, Q),
         NEW q \in Seq(D), NEW d \in D
  PROVE  FlatImages(F, Append(q, d)) = FlatImages(F, q) \o F[d]
<1> DEFINE one == <<d>>
<1>1. one \in Seq(D) /\ Append(q, d) = q \o one
  BY AppendIsConcat
<1>2. FlatImages(F, one) = F[d]
  BY FlatImagesOne
<1> HIDE DEF one
<1>3. FlatImages(F, q \o one) = FlatImages(F, q) \o FlatImages(F, one)
  BY <1>1, FlatImagesConcat
<1> QED BY <1>1, <1>2, <1>3

-----------------------------------------------------------------------------
\* The chain a writer appends to.

Wire == Seq(WireByte)

\* A chunk has something that was not consumed; before a reader takes the
\* chain over, nothing was (fresh).
OkChunk(fresh) ==
    {c \in ChunkOwned(WireByte) :
        /\ c.consumed < Len(c.data) /\ Len(c.data) <= ChunkCapacity
        /\ fresh => c.consumed = 0}
Slice(fresh) == [c \in OkChunk(fresh) |-> FilledSlice(c)]
BytesIn(queue) == FlattenSeq([n \in DOMAIN queue |-> FilledSlice(queue[n])])
OkWriter(fresh) ==
    {w \in [queue : Seq(OkChunk(fresh)), filled_len : Nat] :
        w.filled_len = Len(BytesIn(w.queue))}

LEMMA WireJoins == Concatenates(Wire)
  BY SeqJoins DEF Wire

LEMMA WireConcat ==
  ASSUME NEW a \in Wire, NEW b \in Wire
  PROVE  /\ a \o b \in Wire /\ Len(a) \in Nat /\ Len(b) \in Nat
         /\ Len(a \o b) = Len(a) + Len(b)
  BY ConcatProperties DEF Wire

LEMMA SliceType ==
  ASSUME NEW c, c.data \in Wire, c.consumed \in Nat, c.consumed <= Len(c.data)
  PROVE  /\ FilledSlice(c) \in Wire
         /\ Len(FilledSlice(c)) = Len(c.data) - c.consumed
         /\ \A i \in 1..Len(c.data) - c.consumed :
               FilledSlice(c)[i] = c.data[c.consumed + i]
<1> DEFINE d == c.data
           m == c.consumed + 1
           n == Len(d)
<1>1. m \in Nat /\ n \in Nat /\ m <= n + 1 /\ \A i \in m..n : d[i] \in WireByte
  BY DEF Wire
<1>2. FilledSlice(c) = SubSeq(d, m, n)
  BY DEF FilledSlice
<1>3. c.consumed = m - 1
  OBVIOUS
<1> HIDE DEF d, m, n
<1>4. /\ SubSeq(d, m, n) \in Seq(WireByte)
      /\ Len(SubSeq(d, m, n)) = IF m <= n THEN n - m + 1 ELSE 0
      /\ \A i \in 1..n - m + 1 : SubSeq(d, m, n)[i] = d[m + i - 1]
  BY <1>1, SubSeqProperties
<1>5. /\ FilledSlice(c) \in Wire /\ Len(FilledSlice(c)) = n - (m - 1)
      /\ \A i \in 1..n - (m - 1) : FilledSlice(c)[i] = d[(m - 1) + i]
  <2>1. n - m + 1 = n - (m - 1) /\ (IF m <= n THEN n - m + 1 ELSE 0) = n - (m - 1)
    BY <1>1
  <2>2. \A i \in 1..n - (m - 1) : m + i - 1 = (m - 1) + i
    BY <1>1
  <2> QED BY <1>2, <1>4, <2>1, <2>2 DEF Wire
<1> QED BY <1>3, <1>5 DEF d, n

LEMMA OkChunkType ==
  ASSUME NEW fresh, NEW c \in OkChunk(fresh)
  PROVE  /\ c \in [data : Wire, consumed : Nat] /\ c.data \in Wire
         /\ c.consumed \in Nat /\ c.consumed < Len(c.data)
         /\ Len(c.data) \in Nat /\ Len(c.data) <= ChunkCapacity
         /\ fresh => c.consumed = 0
  BY DEF OkChunk, ChunkOwned, Wire

LEMMA OkSlice ==
  ASSUME NEW fresh, NEW c \in OkChunk(fresh)
  PROVE  /\ FilledSlice(c) \in Wire /\ FilledSlice(c) # <<>>
         /\ Len(FilledSlice(c)) = Len(c.data) - c.consumed
         /\ Len(FilledSlice(c)) \in Nat \ {0}
         /\ \A i \in 1..Len(c.data) - c.consumed :
               FilledSlice(c)[i] = c.data[c.consumed + i]
<1>1. /\ c.data \in Wire /\ c.consumed \in Nat /\ c.consumed <= Len(c.data)
      /\ c.consumed < Len(c.data) /\ Len(c.data) \in Nat
  BY OkChunkType
<1> DEFINE s == FilledSlice(c)
<1>2. /\ s \in Wire /\ Len(s) = Len(c.data) - c.consumed
      /\ \A i \in 1..Len(c.data) - c.consumed : s[i] = c.data[c.consumed + i]
  BY <1>1, SliceType
<1> HIDE DEF s
<1>3. Len(s) \in Nat \ {0}
  BY <1>1, <1>2
<1>4. s # <<>>
  BY <1>3, EmptySeq
<1> QED BY <1>2, <1>3, <1>4 DEF s

LEMMA BytesAre ==
  ASSUME NEW fresh, NEW queue \in Seq(OkChunk(fresh))
  PROVE  /\ Maps(Slice(fresh), OkChunk(fresh), Wire)
         /\ BytesIn(queue) = FlatImages(Slice(fresh), queue)
<1>1. Maps(Slice(fresh), OkChunk(fresh), Wire)
  <2>1. \A c \in OkChunk(fresh) : FilledSlice(c) \in Wire
    BY OkSlice
  <2> QED BY <2>1 DEF Maps, Slice
<1>2. \A n \in DOMAIN queue : Slice(fresh)[queue[n]] = FilledSlice(queue[n])
  <2>1. \A n \in DOMAIN queue : queue[n] \in OkChunk(fresh)
    OBVIOUS
  <2> QED BY <2>1 DEF Slice
<1>3. Images(Slice(fresh), queue) = [n \in DOMAIN queue |-> FilledSlice(queue[n])]
  BY <1>2 DEF Images
<1> QED BY <1>1, <1>3 DEF FlatImages, BytesIn

LEMMA BytesEmpty == BytesIn(<<>>) = <<>>
<1>1. [n \in DOMAIN <<>> |-> FilledSlice(<<>>[n])] = <<>>
  OBVIOUS
<1> QED BY <1>1, FlatEmpty DEF BytesIn

LEMMA BytesType ==
  ASSUME NEW fresh, NEW queue \in Seq(OkChunk(fresh))
  PROVE  BytesIn(queue) \in Wire /\ Len(BytesIn(queue)) \in Nat
<1>1. BytesIn(queue) \in Wire
  BY BytesAre, WireJoins, FlatImagesType
<1> QED BY <1>1 DEF Wire

LEMMA BytesHead ==
  ASSUME NEW fresh, NEW queue \in Seq(OkChunk(fresh)), queue # <<>>
  PROVE  BytesIn(queue) = FilledSlice(Head(queue)) \o BytesIn(Tail(queue))
<1> DEFINE h == Head(queue)
           t == Tail(queue)
<1>1. h \in OkChunk(fresh) /\ t \in Seq(OkChunk(fresh))
  BY HeadTailType
<1>2. FlatImages(Slice(fresh), queue)
        = Slice(fresh)[h] \o FlatImages(Slice(fresh), t)
  BY BytesAre, WireJoins, FlatImagesHead
<1>3. Slice(fresh)[h] = FilledSlice(h)
  BY <1>1 DEF Slice
<1> HIDE DEF h, t
<1>4. BytesIn(t) = FlatImages(Slice(fresh), t)
  BY <1>1, BytesAre
<1> QED BY <1>2, <1>3, <1>4, BytesAre DEF h, t

LEMMA BytesAppend ==
  ASSUME NEW fresh, NEW queue \in Seq(OkChunk(fresh)), NEW c \in OkChunk(fresh)
  PROVE  BytesIn(Append(queue, c)) = BytesIn(queue) \o FilledSlice(c)
<1> DEFINE more == Append(queue, c)
<1>1. more \in Seq(OkChunk(fresh))
  BY AppendType
<1>2. FlatImages(Slice(fresh), more)
        = FlatImages(Slice(fresh), queue) \o Slice(fresh)[c]
  BY BytesAre, WireJoins, FlatImagesAppend
<1>3. Slice(fresh)[c] = FilledSlice(c)
  BY DEF Slice
<1> HIDE DEF more
<1>4. BytesIn(more) = FlatImages(Slice(fresh), more)
  BY <1>1, BytesAre
<1> QED BY <1>2, <1>3, <1>4, BytesAre DEF more

LEMMA FrontAndLast ==
  ASSUME NEW D, NEW q \in Seq(D), q # <<>>
  PROVE  /\ Front(q) \in Seq(D) /\ Last(q) \in D
         /\ q = Append(Front(q), Last(q))
<1>1. PICK p \in Seq(D), e \in D : q = Append(p, e)
  BY SequenceEmptyOrAppend
<1> DEFINE n == Len(p)
           f == SubSeq(q, 1, n)
<1>2. /\ n \in Nat /\ Len(q) = n + 1 /\ q[n + 1] = e
      /\ \A k \in 1..n : q[k] = p[k] /\ p[k] \in D
  BY <1>1, AppendType
<1> HIDE DEF n
<1>3. /\ f \in Seq(D) /\ Len(f) = IF 1 <= n THEN n - 1 + 1 ELSE 0
      /\ \A k \in 1..n - 1 + 1 : f[k] = q[1 + k - 1]
  BY <1>2, SubSeqProperties
<1> HIDE DEF f
<1>4. Len(f) = n /\ \A k \in 1..n : f[k] = p[k]
  BY <1>2, <1>3
<1>5. f = p
  BY <1>3, <1>4, SeqEqual DEF n
<1>6. Front(q) = f /\ Last(q) = e
  <2>1. Len(q) - 1 = n
    BY <1>2
  <2> QED BY <1>2, <2>1 DEF Front, Last, f
<1> QED BY <1>1, <1>5, <1>6

LEMMA NewChunkType ==
  /\ NewChunk \in [data : Wire, consumed : Nat]
  /\ NewChunk.data = <<>> /\ NewChunk.consumed = 0 /\ FilledSlice(NewChunk) = <<>>
<1>1. /\ NewChunk \in [data : Wire, consumed : Nat]
      /\ NewChunk.data = <<>> /\ NewChunk.consumed = 0
  BY DEF NewChunk, Wire
<1>2. FilledSlice(NewChunk) = SubSeq(<<>>, 1, 0)
  BY <1>1 DEF FilledSlice
<1>3. SubSeq(<<>>, 1, 0) = <<>>
  BY SubSeqEmpty
<1> QED BY <1>1, <1>2, <1>3

LEMMA FilledEffect ==
  ASSUME NEW fresh, NEW c \in [data : Wire, consumed : Nat],
         c.consumed <= Len(c.data), fresh => c.consumed = 0,
         NEW bytes \in Wire, bytes # <<>>,
         Len(c.data) + Len(bytes) <= ChunkCapacity
  PROVE  /\ Filled(c, bytes) \in OkChunk(fresh)
         /\ FilledSlice(Filled(c, bytes)) = FilledSlice(c) \o bytes
<1> DEFINE d == c.data
           m == c.consumed
           n == Len(d)
           b == Len(bytes)
           more == d \o bytes
           after == Filled(c, bytes)
           s == FilledSlice(c)
           t == FilledSlice(after)
<1>1. /\ d \in Wire /\ m \in Nat /\ n \in Nat /\ m <= n
      /\ b \in Nat \ {0} /\ n + b <= ChunkCapacity
  <2>1. bytes \in Seq(WireByte)
    BY DEF Wire
  <2>2. b \in Nat \ {0}
    BY <2>1, EmptySeq
  <2> QED BY <2>2 DEF Wire
<1>2. /\ more \in Wire /\ Len(more) = n + b
      /\ \A i \in 1..n + b : more[i] = IF i <= n THEN d[i] ELSE bytes[i - n]
  <2>1. d \in Seq(WireByte) /\ bytes \in Seq(WireByte)
    BY <1>1 DEF Wire
  <2>2. /\ d \o bytes \in Seq(WireByte) /\ Len(d \o bytes) = Len(d) + Len(bytes)
        /\ \A i \in 1..Len(d) + Len(bytes) :
              (d \o bytes)[i] = IF i <= Len(d) THEN d[i] ELSE bytes[i - Len(d)]
    <3> HIDE DEF d
    <3> QED BY <2>1, ConcatProperties
  <2> QED BY <2>2 DEF Wire
<1>3. after = [data |-> more, consumed |-> m]
  <2>1. c = [data |-> d, consumed |-> m]
    OBVIOUS
  <2>2. Filled(c, bytes) = [c EXCEPT !.data = c.data \o bytes]
    BY DEF Filled
  <2> QED BY <2>1, <2>2
<1>4. after.data = more /\ after.consumed = m
  BY <1>3
<1>5. /\ s \in Wire /\ Len(s) = n - m
      /\ \A i \in 1..n - m : s[i] = d[m + i]
  BY <1>1, SliceType
<1> HIDE DEF after, d, m, n, b, more, s
<1>6. after \in OkChunk(fresh)
  <2>1. m < n + b /\ (fresh => m = 0)
    BY <1>1 DEF m
  <2>2. after \in ChunkOwned(WireByte)
    BY <1>1, <1>2, <1>3 DEF ChunkOwned, Wire
  <2> QED BY <1>1, <1>2, <1>4, <2>1, <2>2 DEF OkChunk
<1>7. /\ t \in Wire /\ Len(t) = n + b - m
      /\ \A i \in 1..n + b - m : t[i] = more[m + i]
  <2>1. /\ after.data \in Wire /\ after.consumed \in Nat
        /\ after.consumed <= Len(after.data)
    BY <1>1, <1>2, <1>4
  <2>2. /\ t \in Wire /\ Len(t) = Len(after.data) - after.consumed
        /\ \A i \in 1..Len(after.data) - after.consumed :
              t[i] = after.data[after.consumed + i]
    BY <2>1, SliceType
  <2>3. Len(after.data) - after.consumed = n + b - m
    BY <1>1, <1>2, <1>4
  <2> DEFINE l == Len(after.data) - after.consumed
  <2>4. l = n + b - m /\ Len(t) = l /\ \A i \in 1..l : t[i] = more[m + i]
    BY <1>4, <2>2, <2>3
  <2> HIDE DEF l
  <2> QED BY <2>2, <2>4
<1> HIDE DEF t
<1> DEFINE u == s \o bytes
<1>8. /\ u \in Wire /\ Len(u) = n - m + b
      /\ \A i \in 1..n - m + b : u[i] = IF i <= n - m THEN s[i]
                                        ELSE bytes[i - (n - m)]
  <2>1. s \in Seq(WireByte) /\ bytes \in Seq(WireByte)
    BY <1>5 DEF Wire
  <2>2. /\ u \in Seq(WireByte) /\ Len(u) = Len(s) + Len(bytes)
        /\ \A i \in 1..Len(s) + Len(bytes) :
              u[i] = IF i <= Len(s) THEN s[i] ELSE bytes[i - Len(s)]
    BY <2>1, ConcatProperties
  <2> QED BY <1>5, <2>2 DEF Wire, b
<1> HIDE DEF u
<1>9. t = u
  <2>1. Len(t) = Len(u)
    BY <1>1, <1>7, <1>8
  <2>2. ASSUME NEW i \in 1..n + b - m PROVE t[i] = u[i]
    <3>1. m + i \in 1..n + b /\ i \in 1..n - m + b
      BY <1>1
    <3>2. t[i] = more[m + i]
      BY <1>7
    <3>3. CASE i <= n - m
      <4>1. i \in 1..n - m /\ m + i <= n
        BY <1>1, <3>3
      <4> QED BY <1>2, <1>5, <1>8, <3>1, <3>2, <3>3, <4>1
    <3>4. CASE ~(i <= n - m)
      <4>1. ~(m + i <= n) /\ (m + i) - n = i - (n - m)
        BY <1>1, <3>4
      <4> QED BY <1>2, <1>8, <3>1, <3>2, <3>4, <4>1
    <3> QED BY <3>3, <3>4
  <2> QED BY <1>7, <1>8, <2>1, <2>2, SeqEqual DEF Wire
<1> QED BY <1>6, <1>9 DEF t, after, u, s

LEMMA OkWriterType ==
  ASSUME NEW fresh, NEW w \in OkWriter(fresh)
  PROVE  /\ w \in Writer(WireByte) /\ w.queue \in Seq(OkChunk(fresh))
         /\ w.filled_len \in Nat /\ w.filled_len = Len(BytesIn(w.queue))
<1>1. /\ w.queue \in Seq(OkChunk(fresh)) /\ w.filled_len \in Nat
      /\ w.filled_len = Len(BytesIn(w.queue))
      /\ w = [queue |-> w.queue, filled_len |-> w.filled_len]
  BY DEF OkWriter
<1>2. OkChunk(fresh) \subseteq ChunkOwned(WireByte)
  BY DEF OkChunk
<1>3. w.queue \in Seq(ChunkOwned(WireByte))
  BY <1>1, <1>2, SeqMonotonic
<1> QED BY <1>1, <1>3 DEF Writer

\* Put: the bytes come behind those that are there.
LEMMA PutEffect ==
  ASSUME NEW fresh, NEW w \in OkWriter(fresh), NEW bytes \in Wire,
         bytes # <<>>, Len(bytes) <= Room(w)
  PROVE  /\ Put(w, bytes) \in OkWriter(fresh)
         /\ BytesIn(Put(w, bytes).queue) = BytesIn(w.queue) \o bytes
<1> DEFINE q == w.queue
           after == Put(w, bytes)
           whole == BytesIn(q) \o bytes
<1>1. q \in Seq(OkChunk(fresh)) /\ w.filled_len = Len(BytesIn(q))
  BY OkWriterType
<1>2. BytesIn(q) \in Wire /\ Len(bytes) \in Nat
  BY <1>1, BytesType DEF Wire
<1>3. SUFFICES /\ after.queue \in Seq(OkChunk(fresh))
               /\ BytesIn(after.queue) = whole
  <2>1. after = [queue |-> after.queue, filled_len |-> w.filled_len + Len(bytes)]
    BY DEF Put
  <2>2. Len(whole) = Len(BytesIn(q)) + Len(bytes)
    BY <1>2, ConcatProperties DEF Wire
  <2>3. w.filled_len + Len(bytes) = Len(whole) /\ w.filled_len + Len(bytes) \in Nat
    BY <1>1, <1>2, <2>2, OkWriterType
  <2> HIDE DEF after, whole
  <2>4. after.filled_len = Len(whole)
    BY <2>1, <2>3
  <2> QED BY <1>3, <2>1, <2>3, <2>4 DEF OkWriter, after, whole
<1>4. CASE HasRoom(w)
  <2> DEFINE front == Front(q)
             last == Last(q)
             new == Filled(last, bytes)
  <2>1. q # <<>>
    BY <1>4 DEF HasRoom
  <2>2. front \in Seq(OkChunk(fresh)) /\ last \in OkChunk(fresh)
        /\ q = Append(front, last)
    BY <1>1, <2>1, FrontAndLast
  <2>3. after.queue = Append(front, new)
    BY <1>4 DEF Put
  <2>4. Len(bytes) <= ChunkCapacity - Len(last.data)
    BY <1>4 DEF Room, AvailableLen
  <2> HIDE DEF front, last
  <2>5. /\ last \in [data : Wire, consumed : Nat] /\ last.consumed <= Len(last.data)
        /\ fresh => last.consumed = 0
        /\ Len(last.data) \in Nat
    BY <2>2, OkChunkType
  <2>6. Len(last.data) + Len(bytes) <= ChunkCapacity
    BY <1>2, <2>4, <2>5, CapacityAssumption
  <2>7. new \in OkChunk(fresh) /\ FilledSlice(new) = FilledSlice(last) \o bytes
    BY <2>5, <2>6, FilledEffect
  <2> HIDE DEF new
  <2>8. Append(front, new) \in Seq(OkChunk(fresh))
    BY <2>2, <2>7, AppendType
  <2>9. /\ BytesIn(Append(front, new)) = BytesIn(front) \o FilledSlice(new)
        /\ BytesIn(q) = BytesIn(front) \o FilledSlice(last)
    BY <2>2, <2>7, BytesAppend
  <2>10. BytesIn(front) \in Wire /\ FilledSlice(last) \in Wire
    BY <2>2, BytesType, OkSlice
  <2>11. BytesIn(front) \o (FilledSlice(last) \o bytes)
           = (BytesIn(front) \o FilledSlice(last)) \o bytes
    BY <2>10, WireJoins DEF Concatenates
  <2> QED BY <2>3, <2>7, <2>8, <2>9, <2>11
<1>5. CASE ~HasRoom(w)
  <2> DEFINE new == Filled(NewChunk, bytes)
  <2>1. after.queue = Append(q, new)
    BY <1>5 DEF Put
  <2>2. Len(bytes) <= ChunkCapacity
    BY <1>5 DEF Room
  <2>3. /\ NewChunk.consumed <= Len(NewChunk.data) /\ (fresh => NewChunk.consumed = 0)
        /\ Len(NewChunk.data) + Len(bytes) <= ChunkCapacity
    BY <1>2, <2>2, NewChunkType
  <2>4. new \in OkChunk(fresh) /\ FilledSlice(new) = <<>> \o bytes
    BY <2>3, NewChunkType, FilledEffect
  <2>5. <<>> \o bytes = bytes
    BY WireJoins DEF Concatenates
  <2> HIDE DEF new
  <2>6. Append(q, new) \in Seq(OkChunk(fresh))
    BY <1>1, <2>4, AppendType
  <2>7. BytesIn(Append(q, new)) = BytesIn(q) \o FilledSlice(new)
    BY <1>1, <2>4, BytesAppend
  <2> QED BY <2>1, <2>4, <2>5, <2>6, <2>7
<1> QED BY <1>4, <1>5

LEMMA RoomType ==
  ASSUME NEW fresh, NEW w \in OkWriter(fresh)
  PROVE  Room(w) \in Nat \ {0}
<1>1. CASE HasRoom(w)
  <2> DEFINE last == Last(w.queue)
  <2>1. w.queue \in Seq(OkChunk(fresh)) /\ w.queue # <<>> /\ AvailableLen(last) >= 1
    BY <1>1, OkWriterType DEF HasRoom
  <2>2. last \in OkChunk(fresh)
    BY <2>1, FrontAndLast
  <2> HIDE DEF last
  <2>3. Len(last.data) \in Nat
    BY <2>2, OkChunkType
  <2>4. AvailableLen(last) \in Nat \ {0}
    BY <2>1, <2>3, CapacityAssumption DEF AvailableLen
  <2> QED BY <1>1, <2>4 DEF Room, last
<1>2. CASE ~HasRoom(w)
  BY <1>2, CapacityAssumption DEF Room
<1> QED BY <1>1, <1>2

LEMMA WriteU8Effect ==
  ASSUME NEW fresh, NEW w \in OkWriter(fresh), NEW byte \in WireByte
  PROVE  /\ WriteU8(w, byte) \in OkWriter(fresh)
         /\ BytesIn(WriteU8(w, byte).queue) = BytesIn(w.queue) \o <<byte>>
<1> DEFINE one == <<byte>>
<1>1. one \in Wire /\ one # <<>> /\ Len(one) = 1
  BY DEF Wire
<1> HIDE DEF one
<1>2. Len(one) <= Room(w)
  BY <1>1, RoomType
<1>3. /\ Put(w, one) \in OkWriter(fresh)
      /\ BytesIn(Put(w, one).queue) = BytesIn(w.queue) \o one
  BY <1>1, <1>2, PutEffect
<1> QED BY <1>3 DEF WriteU8, one

\* A sequence, cut in two.
LEMMA CutType ==
  ASSUME NEW S, NEW s \in Seq(S), NEW n \in Nat, n <= Len(s)
  PROVE  /\ SubSeq(s, 1, n) \in Seq(S) /\ Len(SubSeq(s, 1, n)) = n
         /\ SubSeq(s, n + 1, Len(s)) \in Seq(S)
         /\ Len(SubSeq(s, n + 1, Len(s))) = Len(s) - n
         /\ \A i \in 1..n : SubSeq(s, 1, n)[i] = s[i]
         /\ \A i \in 1..Len(s) - n : SubSeq(s, n + 1, Len(s))[i] = s[n + i]
         /\ s = SubSeq(s, 1, n) \o SubSeq(s, n + 1, Len(s))
<1> DEFINE l == Len(s)
           a == SubSeq(s, 1, n)
           b == SubSeq(s, n + 1, l)
           ab == a \o b
<1>1. l \in Nat /\ n <= l /\ \A i \in 1..l : s[i] \in S
  OBVIOUS
<1> HIDE DEF l
<1>2. /\ a \in Seq(S) /\ Len(a) = IF 1 <= n THEN n - 1 + 1 ELSE 0
      /\ \A i \in 1..n - 1 + 1 : a[i] = s[1 + i - 1]
  <2>1. \A i \in 1..n : s[i] \in S
    BY <1>1
  <2> QED BY <2>1, SubSeqProperties
<1>3. /\ b \in Seq(S) /\ Len(b) = IF n + 1 <= l THEN l - (n + 1) + 1 ELSE 0
      /\ \A i \in 1..l - (n + 1) + 1 : b[i] = s[(n + 1) + i - 1]
  <2> DEFINE m == n + 1
  <2>1. m \in Int /\ \A i \in m..l : s[i] \in S
    BY <1>1
  <2> HIDE DEF m
  <2>2. /\ SubSeq(s, m, l) \in Seq(S)
        /\ Len(SubSeq(s, m, l)) = IF m <= l THEN l - m + 1 ELSE 0
        /\ \A i \in 1..l - m + 1 : SubSeq(s, m, l)[i] = s[m + i - 1]
    BY <1>1, <2>1, SubSeqProperties
  <2> QED BY <2>2 DEF m
<1> HIDE DEF a, b
<1>4. Len(a) = n /\ \A i \in 1..n : a[i] = s[i]
  BY <1>2
<1>5. Len(b) = l - n /\ \A i \in 1..l - n : b[i] = s[n + i]
  <2>1. l - (n + 1) + 1 = l - n /\ (IF n + 1 <= l THEN l - (n + 1) + 1 ELSE 0) = l - n
    BY <1>1
  <2>2. \A i \in 1..l - n : (n + 1) + i - 1 = n + i
    BY <1>1
  <2> QED BY <1>3, <2>1, <2>2
<1>6. /\ ab \in Seq(S) /\ Len(ab) = l
      /\ \A i \in 1..l : ab[i] = IF i <= n THEN a[i] ELSE b[i - n]
  <2>1. /\ ab \in Seq(S) /\ Len(ab) = Len(a) + Len(b)
        /\ \A i \in 1..Len(a) + Len(b) :
              ab[i] = IF i <= Len(a) THEN a[i] ELSE b[i - Len(a)]
    BY <1>2, <1>3, ConcatProperties
  <2>2. Len(a) + Len(b) = l
    BY <1>1, <1>4, <1>5
  <2> QED BY <1>4, <2>1, <2>2
<1> HIDE DEF ab
<1>7. \A i \in 1..l : ab[i] = s[i]
  <2> TAKE i \in 1..l
  <2>1. CASE i <= n
    BY <1>4, <1>6, <2>1
  <2>2. CASE ~(i <= n)
    <3>1. i - n \in 1..l - n /\ n + (i - n) = i
      BY <1>1, <2>2
    <3> QED BY <1>5, <1>6, <2>2, <3>1
  <2> QED BY <2>1, <2>2
<1>8. ab = s
  BY <1>6, <1>7, SeqEqual DEF l
<1> QED BY <1>2, <1>3, <1>4, <1>5, <1>8 DEF l, a, b, ab

\* One turn of write_slice passes bytes on and comes nearer to the end.
SliceState(fresh) == [writer : OkWriter(fresh), left : Wire]

LEMMA SliceTurnEffect ==
  ASSUME NEW fresh, NEW s \in SliceState(fresh)
  PROVE  LET t == SliceTurn(s) IN
         /\ t \in SliceState(fresh)
         /\ BytesIn(t.writer.queue) \o t.left = BytesIn(s.writer.queue) \o s.left
         /\ s.left = <<>> => t.left = <<>>
         /\ s.left # <<>> => Len(t.left) < Len(s.left)
<1> DEFINE w == s.writer
           left == s.left
           l == Len(left)
           n == Smaller(Room(w), l)
           a == SubSeq(left, 1, n)
           b == SubSeq(left, n + 1, l)
           t == SliceTurn(s)
<1>1. w \in OkWriter(fresh) /\ left \in Wire /\ l \in Nat
  BY DEF SliceState, Wire
<1>2. CASE left = <<>>
  <2>1. t = s
    BY <1>2 DEF SliceTurn
  <2> QED BY <1>2, <2>1
<1>3. CASE left # <<>>
  <2>1. t = [writer |-> Put(w, a), left |-> b]
    BY <1>3 DEF SliceTurn
  <2>2. l \in Nat \ {0}
    BY <1>1, <1>3, EmptySeq DEF Wire
  <2>3. n \in Nat \ {0} /\ n <= l /\ n <= Room(w)
    <3>1. Room(w) \in Nat \ {0}
      BY <1>1, RoomType
    <3> QED BY <2>2, <3>1 DEF Smaller
  <2> HIDE DEF t, n, w, left
  <2>4. /\ a \in Wire /\ Len(a) = n /\ b \in Wire /\ Len(b) = l - n
        /\ left = a \o b
    <3>1. left \in Seq(WireByte) /\ n \in Nat /\ n <= Len(left)
      BY <1>1, <2>3 DEF Wire
    <3>2. /\ a \in Seq(WireByte) /\ Len(a) = n /\ b \in Seq(WireByte)
          /\ Len(b) = Len(left) - n /\ left = a \o b
      BY <3>1, CutType
    <3> QED BY <3>2 DEF Wire
  <2> HIDE DEF a, b, l
  <2>5. a # <<>>
    <3>1. Len(a) # 0
      BY <2>3, <2>4
    <3> QED BY <3>1, EmptySeq
  <2>6. /\ Put(w, a) \in OkWriter(fresh)
        /\ BytesIn(Put(w, a).queue) = BytesIn(w.queue) \o a
    BY <1>1, <2>3, <2>4, <2>5, PutEffect
  <2>7. BytesIn(w.queue) \in Wire
    BY <1>1, OkWriterType, BytesType
  <2>8. (BytesIn(w.queue) \o a) \o b = BytesIn(w.queue) \o (a \o b)
    BY <2>4, <2>7, WireJoins DEF Concatenates
  <2>9. t.writer = Put(w, a) /\ t.left = b /\ t \in SliceState(fresh)
    BY <2>1, <2>4, <2>6 DEF SliceState
  <2>10. Len(b) < l
    BY <2>2, <2>3, <2>4
  <2> QED BY <1>3, <2>4, <2>6, <2>8, <2>9, <2>10 DEF t, w, left, l
<1> QED BY <1>2, <1>3

\* write_slice passes all of it on.
LEMMA WriteSliceEffect ==
  ASSUME NEW fresh, NEW w \in OkWriter(fresh), NEW bytes \in Wire
  PROVE  /\ WriteSlice(w, bytes) \in OkWriter(fresh)
         /\ BytesIn(WriteSlice(w, bytes).queue) = BytesIn(w.queue) \o bytes
<1> DEFINE n == Len(bytes)
           base == [writer |-> w, left |-> bytes]
           S == SliceState(fresh)
           step == [p \in (1..n) \X S |-> SliceTurn(p[2])]
           Is(g) == g = [k \in 0..n |-> IF k = 0 THEN base ELSE SliceTurn(g[k - 1])]
           after == CHOOSE g : Is(g)
           all == BytesIn(w.queue) \o bytes
<1>1. n \in Nat /\ base \in S
  BY DEF SliceState, Wire
<1>2. \A s \in S : SliceTurn(s) \in S
  BY SliceTurnEffect
<1>3. WriteSlice(w, bytes) = after[n].writer
  BY DEF WriteSlice
<1>4. base.writer = w /\ base.left = bytes
  OBVIOUS
<1> HIDE DEF n, base, S
<1>5. step \in [(1..n) \X S -> S]
  BY <1>2
<1>6. \A k \in 1..n, s \in S : step[<<k, s>>] = SliceTurn(s)
  OBVIOUS
<1> HIDE DEF step
<1>7. PICK f \in [0..n -> S] : IsLoop(f, n, base, step)
  BY <1>1, <1>5, LoopExists
<1>8. Is(f)
  <2>1. \A k \in 0..n : f[k] = IF k = 0 THEN base ELSE SliceTurn(f[k - 1])
    <3> TAKE k \in 0..n
    <3>1. CASE k = 0
      BY <1>7, <3>1 DEF IsLoop
    <3>2. CASE k # 0
      <4>1. k \in 1..n /\ k - 1 \in 0..n
        BY <1>1, <3>2
      <4>2. f[k - 1] \in S
        BY <4>1
      <4> QED BY <1>6, <1>7, <3>2, <4>1, <4>2 DEF IsLoop
    <3> QED BY <3>1, <3>2
  <2> QED BY <2>1
<1>9. Is(after)
  BY <1>8
<1>10. /\ after[0] = base
       /\ \A k \in Nat : k + 1 <= n => after[k + 1] = SliceTurn(after[k])
  <2>1. \A k \in 0..n : after[k] = IF k = 0 THEN base ELSE SliceTurn(after[k - 1])
    BY <1>9
  <2> HIDE DEF after, Is
  <2>2. 0 \in 0..n
    BY <1>1
  <2>3. ASSUME NEW k \in Nat, k + 1 <= n PROVE after[k + 1] = SliceTurn(after[k])
    <3>1. k + 1 \in 0..n /\ k + 1 # 0 /\ (k + 1) - 1 = k
      BY <1>1, <2>3
    <3> QED BY <2>1, <3>1
  <2> QED BY <2>1, <2>2, <2>3
<1> HIDE DEF after, Is
<1> DEFINE Passed(s, k) ==
               /\ s \in S /\ BytesIn(s.writer.queue) \o s.left = all
               /\ Len(s.left) <= n - k
           T == {k \in Nat : k <= n => Passed(after[k], k)}
<1>11. 0 \in T
  <2>1. Len(bytes) <= n - 0
    BY <1>1 DEF n
  <2> HIDE DEF all
  <2>2. BytesIn(base.writer.queue) \o base.left = all
    BY <1>4 DEF all
  <2> QED BY <1>1, <1>4, <1>10, <2>1, <2>2
<1>12. ASSUME NEW k \in Nat, k \in T
       PROVE  k + 1 \in T
  <2> DEFINE s == after[k]
             t == SliceTurn(s)
  <2> SUFFICES ASSUME k + 1 <= n PROVE Passed(after[k + 1], k + 1)
    <3> HIDE DEF Passed
    <3> QED OBVIOUS
  <2>1. k <= n
    BY <1>1
  <2>2. /\ s \in S /\ BytesIn(s.writer.queue) \o s.left = all
        /\ Len(s.left) <= n - k
    BY <1>12, <2>1
  <2>3. after[k + 1] = t
    BY <1>10
  <2> HIDE DEF s, all
  <2>4. /\ t \in S
        /\ BytesIn(t.writer.queue) \o t.left = BytesIn(s.writer.queue) \o s.left
        /\ s.left = <<>> => t.left = <<>>
        /\ s.left # <<>> => Len(t.left) < Len(s.left)
    BY <2>2, SliceTurnEffect DEF S
  <2>5. Len(s.left) \in Nat /\ Len(t.left) \in Nat
    BY <2>2, <2>4 DEF S, SliceState, Wire
  <2>6. Len(t.left) <= n - (k + 1)
    <3>1. CASE s.left = <<>>
      <4>1. Len(t.left) = 0
        BY <2>4, <3>1
      <4> QED BY <1>1, <4>1
    <3>2. CASE s.left # <<>>
      BY <1>1, <2>2, <2>4, <2>5, <3>2
    <3> QED BY <3>1, <3>2
  <2> HIDE DEF t
  <2> QED BY <2>2, <2>3, <2>4, <2>6
<1> HIDE DEF T
<1>13. n \in T
  BY <1>1, <1>11, <1>12, SetInduction
<1> DEFINE end == after[n]
<1>14. end \in S /\ BytesIn(end.writer.queue) \o end.left = all /\ Len(end.left) <= n - n
  BY <1>1, <1>13 DEF T
<1> HIDE DEF end
<1>15. end.writer \in OkWriter(fresh) /\ end.left \in Wire
  BY <1>14 DEF S, SliceState
<1>16. end.left = <<>>
  <2>1. Len(end.left) \in Nat
    BY <1>15 DEF Wire
  <2>2. Len(end.left) = 0
    BY <1>1, <1>14, <2>1
  <2> QED BY <1>15, <2>2, EmptySeq DEF Wire
<1>17. BytesIn(end.writer.queue) \in Wire
  BY <1>15, OkWriterType, BytesType
<1>18. BytesIn(end.writer.queue) \o <<>> = BytesIn(end.writer.queue)
  BY <1>17, WireJoins DEF Concatenates
<1> QED BY <1>3, <1>14, <1>15, <1>16, <1>18 DEF end

LEMMA WriteBytesEffect ==
  ASSUME NEW fresh, NEW w \in OkWriter(fresh), NEW bytes \in Wire
  PROVE  /\ WriteBytes(w, bytes) \in OkWriter(fresh)
         /\ BytesIn(WriteBytes(w, bytes).queue) = BytesIn(w.queue) \o bytes
<1> DEFINE n == Len(bytes)
           S == OkWriter(fresh)
           step == [p \in (1..n) \X S |-> WriteU8(p[2], bytes[p[1]])]
           Is(g) == g = [k \in 0..n |-> IF k = 0 THEN w
                                        ELSE WriteU8(g[k - 1], bytes[k])]
           after == CHOOSE g : Is(g)
           front == BytesIn(w.queue)
<1>1. n \in Nat /\ w \in S /\ \A k \in 1..n : bytes[k] \in WireByte
  BY DEF Wire
<1>2. \A s \in S, byte \in WireByte : WriteU8(s, byte) \in S
  BY WriteU8Effect
<1>3. WriteBytes(w, bytes) = after[n]
  BY DEF WriteBytes
<1>4. front \in Wire
  BY OkWriterType, BytesType
<1> HIDE DEF n, S
<1>5. step \in [(1..n) \X S -> S]
  <2>1. ASSUME NEW p \in (1..n) \X S PROVE WriteU8(p[2], bytes[p[1]]) \in S
    <3>1. p[2] \in S /\ bytes[p[1]] \in WireByte
      BY <1>1
    <3> QED BY <1>2, <3>1
  <2> QED BY <2>1
<1>6. \A k \in 1..n, s \in S : step[<<k, s>>] = WriteU8(s, bytes[k])
  OBVIOUS
<1> HIDE DEF step
<1>7. PICK f \in [0..n -> S] : IsLoop(f, n, w, step)
  BY <1>1, <1>5, LoopExists
<1>8. Is(f)
  <2>1. \A k \in 0..n : f[k] = IF k = 0 THEN w ELSE WriteU8(f[k - 1], bytes[k])
    <3> TAKE k \in 0..n
    <3>1. CASE k = 0
      BY <1>7, <3>1 DEF IsLoop
    <3>2. CASE k # 0
      <4>1. k \in 1..n /\ k - 1 \in 0..n
        BY <1>1, <3>2
      <4>2. f[k - 1] \in S
        BY <4>1
      <4> QED BY <1>6, <1>7, <3>2, <4>1, <4>2 DEF IsLoop
    <3> QED BY <3>1, <3>2
  <2> QED BY <2>1
<1>9. Is(after)
  BY <1>8
<1>10. /\ after[0] = w
       /\ \A k \in Nat : k + 1 <= n =>
             after[k + 1] = WriteU8(after[k], bytes[k + 1])
  <2>1. \A k \in 0..n : after[k] = IF k = 0 THEN w ELSE WriteU8(after[k - 1], bytes[k])
    BY <1>9
  <2> HIDE DEF after, Is
  <2>2. 0 \in 0..n
    BY <1>1
  <2>3. ASSUME NEW k \in Nat, k + 1 <= n
        PROVE  after[k + 1] = WriteU8(after[k], bytes[k + 1])
    <3>1. k + 1 \in 0..n /\ k + 1 # 0 /\ (k + 1) - 1 = k
      BY <1>1, <2>3
    <3> QED BY <2>1, <3>1
  <2> QED BY <2>1, <2>2, <2>3
<1> HIDE DEF after, Is
<1> DEFINE T == {k \in Nat : k <= n =>
                    /\ after[k] \in S
                    /\ BytesIn(after[k].queue) = front \o SubSeq(bytes, 1, k)}
<1>11. 0 \in T
  <2>1. SubSeq(bytes, 1, 0) = <<>>
    BY SubSeqEmpty
  <2>2. front \o <<>> = front
    BY <1>4, WireJoins DEF Concatenates
  <2> QED BY <1>1, <1>10, <2>1, <2>2
<1>12. ASSUME NEW k \in Nat, k \in T
       PROVE  k + 1 \in T
  <2> DEFINE s == after[k]
             byte == bytes[k + 1]
             t == WriteU8(s, byte)
             a == SubSeq(bytes, 1, k)
             b == SubSeq(bytes, 1, k + 1)
  <2> SUFFICES ASSUME k + 1 <= n
               PROVE  /\ after[k + 1] \in S
                      /\ BytesIn(after[k + 1].queue) = front \o b
    OBVIOUS
  <2>1. k <= n /\ k + 1 \in 1..n
    BY <1>1
  <2>2. s \in S /\ BytesIn(s.queue) = front \o a
    BY <1>12, <2>1
  <2>3. after[k + 1] = t
    BY <1>10
  <2>4. byte \in WireByte
    BY <1>1, <2>1
  <2>5. b = a \o <<byte>>
    <3>1. bytes \in Seq(WireByte) /\ 1 \in 1..Len(bytes) /\ k + 1 \in 1..Len(bytes)
      BY <1>1, <2>1 DEF Wire, n
    <3>2. SubSeq(bytes, 1, k + 1) = SubSeq(bytes, 1, (k + 1) - 1) \o <<bytes[k + 1]>>
      BY <3>1, SubSeqRecursiveSecond
    <3>3. (k + 1) - 1 = k
      OBVIOUS
    <3> QED BY <3>2, <3>3
  <2>6. a \in Wire
    <3>1. bytes \in Seq(WireByte) /\ k <= Len(bytes)
      BY <2>1 DEF Wire, n
    <3> QED BY <3>1, CutType DEF Wire
  <2>7. <<byte>> \in Wire
    BY <2>4 DEF Wire
  <2> HIDE DEF s, byte, a, b, front
  <2>8. t \in S /\ BytesIn(t.queue) = BytesIn(s.queue) \o <<byte>>
    BY <2>2, <2>4, WriteU8Effect DEF S
  <2>9. (front \o a) \o <<byte>> = front \o (a \o <<byte>>)
    BY <1>4, <2>6, <2>7, WireJoins DEF Concatenates
  <2> HIDE DEF t
  <2> QED BY <2>2, <2>3, <2>5, <2>8, <2>9
<1> HIDE DEF T
<1>13. n \in T
  BY <1>1, <1>11, <1>12, SetInduction
<1>14. after[n] \in S /\ BytesIn(after[n].queue) = front \o SubSeq(bytes, 1, n)
  BY <1>1, <1>13 DEF T
<1>15. SubSeq(bytes, 1, n) = bytes
  BY SubSeqFull DEF Wire, n
<1> QED BY <1>3, <1>14, <1>15 DEF S

LEMMA NewWriterEffect ==
  ASSUME NEW fresh
  PROVE  NewWriter \in OkWriter(fresh) /\ BytesIn(NewWriter.queue) = <<>>
<1>1. NewWriter.queue = <<>> /\ NewWriter.filled_len = 0
      /\ NewWriter \in [queue : Seq(OkChunk(fresh)), filled_len : Nat]
  BY DEF NewWriter
<1>2. BytesIn(NewWriter.queue) = <<>>
  BY <1>1, BytesEmpty
<1>3. Len(<<>>) = 0
  OBVIOUS
<1> QED BY <1>1, <1>2, <1>3 DEF OkWriter

\* A chain without a byte has no chunk.
LEMMA NoBytes ==
  ASSUME NEW fresh, NEW w \in OkWriter(fresh), w.queue # <<>>
  PROVE  BytesIn(w.queue) # <<>>
<1> DEFINE q == w.queue
           slice == FilledSlice(Head(q))
           rest == BytesIn(Tail(q))
<1>1. q \in Seq(OkChunk(fresh))
  BY OkWriterType
<1>2. Head(q) \in OkChunk(fresh) /\ Tail(q) \in Seq(OkChunk(fresh))
  BY <1>1, HeadTailType
<1>3. slice \in Wire /\ slice # <<>> /\ rest \in Wire
  BY <1>2, OkSlice, BytesType
<1>4. BytesIn(q) = slice \o rest
  BY <1>1, BytesHead
<1> HIDE DEF q, slice, rest
<1>5. slice \o rest # <<>>
  BY <1>3, ConcatEqualIffEmpty DEF Wire
<1> QED BY <1>4, <1>5 DEF q

\* Another first element.
LEMMA NewFirst ==
  ASSUME NEW D, NEW q \in Seq(D), q # <<>>, NEW e \in D
  PROVE  LET new == [q EXCEPT ![1] = e] IN
         /\ new \in Seq(D) /\ new # <<>>
         /\ Head(new) = e /\ Tail(new) = Tail(q)
<1> DEFINE n == Len(q)
           new == [q EXCEPT ![1] = e]
           t == Tail(q)
           u == Tail(new)
<1>1. /\ n \in Nat \ {0} /\ q \in [1..n -> D] /\ t \in Seq(D) /\ Len(t) = n - 1
      /\ \A k \in 1..n - 1 : t[k] = q[k + 1]
  BY HeadTailType, LenProperties
<1> HIDE DEF n, t
<1>2. new \in [1..n -> D] /\ \A j \in 1..n : new[j] = IF j = 1 THEN e ELSE q[j]
  BY <1>1
<1> HIDE DEF new
<1>3. new \in Seq(D) /\ Len(new) = n
  BY <1>1, <1>2
<1>4. new # <<>>
  BY <1>1, <1>3, EmptySeq
<1>5. /\ Head(new) = new[1] /\ u \in Seq(D) /\ Len(u) = Len(new) - 1
      /\ \A k \in 1..Len(new) - 1 : u[k] = new[k + 1]
  BY <1>3, <1>4, HeadTailType
<1> HIDE DEF u
<1>6. Head(new) = e
  BY <1>1, <1>2, <1>5
<1>7. Len(u) = n - 1 /\ \A k \in 1..n - 1 : u[k] = t[k]
  <2>1. ASSUME NEW k \in 1..n - 1 PROVE u[k] = t[k]
    <3>1. k + 1 \in 1..n /\ k + 1 # 1 /\ k \in 1..Len(new) - 1
      BY <1>1, <1>3
    <3> QED BY <1>1, <1>2, <1>5, <3>1
  <2> QED BY <1>3, <1>5, <2>1
<1>8. u = t
  BY <1>1, <1>5, <1>7, SeqEqual
<1> QED BY <1>3, <1>4, <1>6, <1>8 DEF new, u, t

\* consume_front leaves what follows the bytes consumed.
LEMMA ConsumeFrontEffect ==
  ASSUME NEW w \in OkWriter(FALSE), w.queue # <<>>,
         NEW n \in Nat \ {0}, n <= Len(FrontSlice(w))
  PROVE  LET v == ConsumeFront(w, n) IN
         /\ v \in OkWriter(FALSE)
         /\ SubSeq(FrontSlice(w), 1, n) \in Wire
         /\ Len(SubSeq(FrontSlice(w), 1, n)) = n
         /\ BytesIn(w.queue) = SubSeq(FrontSlice(w), 1, n) \o BytesIn(v.queue)
<1> DEFINE q == w.queue
           c == Head(q)
           t == Tail(q)
           s == FrontSlice(w)
           a == SubSeq(s, 1, n)
           b == SubSeq(s, n + 1, Len(s))
           v == ConsumeFront(w, n)
           rest == BytesIn(t)
<1>1. q \in Seq(OkChunk(FALSE)) /\ w.filled_len = Len(BytesIn(q))
  BY OkWriterType
<1>2. c \in OkChunk(FALSE) /\ t \in Seq(OkChunk(FALSE))
  BY <1>1, HeadTailType
<1>3. s = FilledSlice(c)
  BY DEF FrontSlice
<1>4. BytesIn(q) = s \o rest
  BY <1>1, <1>3, BytesHead
<1>5. rest \in Wire
  BY <1>2, BytesType
<1> HIDE DEF c, t, s, rest
<1>6. /\ s \in Wire /\ Len(s) = Len(c.data) - c.consumed /\ Len(s) \in Nat \ {0}
      /\ \A i \in 1..Len(c.data) - c.consumed : s[i] = c.data[c.consumed + i]
  BY <1>2, <1>3, OkSlice
<1>7. /\ a \in Wire /\ Len(a) = n /\ b \in Wire /\ Len(b) = Len(s) - n
      /\ s = a \o b
      /\ \A i \in 1..Len(s) - n : b[i] = s[n + i]
  <2>1. s \in Seq(WireByte) /\ n \in Nat /\ n <= Len(s)
    BY <1>6 DEF Wire, s
  <2> QED BY <2>1, CutType DEF Wire
<1> HIDE DEF a, b
<1>8. BytesIn(q) = a \o (b \o rest)
  BY <1>4, <1>5, <1>7, WireJoins DEF Concatenates
<1>9. b \o rest \in Wire
  BY <1>5, <1>7, WireJoins DEF Concatenates
<1>10. SUFFICES /\ v.queue \in Seq(OkChunk(FALSE)) /\ BytesIn(v.queue) = b \o rest
  <2>1. v = [queue |-> v.queue, filled_len |-> w.filled_len - n]
    BY DEF ConsumeFront
  <2> DEFINE br == b \o rest
  <2>2. /\ Len(a \o br) = Len(a) + Len(br) /\ Len(br) \in Nat
    <3>1. a \in Seq(WireByte) /\ br \in Seq(WireByte)
      BY <1>7, <1>9 DEF Wire
    <3> HIDE DEF br
    <3> QED BY <3>1, ConcatProperties
  <2> HIDE DEF v, br
  <2>3. w.filled_len - n = Len(br)
    BY <1>1, <1>7, <1>8, <2>2 DEF br
  <2>4. v.filled_len = Len(br)
    BY <2>1, <2>3
  <2>5. v \in OkWriter(FALSE)
    BY <1>10, <2>1, <2>2, <2>3, <2>4 DEF OkWriter, br
  <2> QED BY <1>7, <1>8, <1>10, <2>5 DEF v, a, s, q
<1>11. FilledLen(c) = Len(s)
  BY <1>6 DEF FilledLen
<1>12. CASE n = Len(s)
  <2>1. v.queue = t
    BY <1>11, <1>12 DEF ConsumeFront, c, t
  <2>2. Len(b) = 0
    BY <1>6, <1>7, <1>12
  <2>3. b = <<>>
    BY <1>7, <2>2, EmptySeq DEF Wire
  <2>4. <<>> \o rest = rest
    BY <1>5, WireJoins DEF Concatenates
  <2> QED BY <1>2, <2>1, <2>3, <2>4 DEF rest
<1>13. CASE n # Len(s)
  <2> DEFINE left == Consumed(c, n)
             d == c.data
             m == c.consumed
             l == Len(d)
  <2>1. /\ d \in Wire /\ m \in Nat /\ l \in Nat /\ m < l /\ l <= ChunkCapacity
        /\ c \in [data : Wire, consumed : Nat]
    BY <1>2, OkChunkType
  <2>2. left = [data |-> d, consumed |-> m + n]
    <3>1. c = [data |-> d, consumed |-> m]
      BY <2>1
    <3>2. left = [c EXCEPT !.consumed = c.consumed + n]
      BY DEF Consumed
    <3> QED BY <3>1, <3>2
  <2>3. left.data = d /\ left.consumed = m + n
    BY <2>2
  <2> HIDE DEF left
  <2>4. m + n \in Nat /\ m + n < l
    <3>1. n < Len(s)
      BY <1>6, <1>13 DEF s
    <3> QED BY <1>6, <2>1, <3>1
  <2>5. left \in OkChunk(FALSE)
    BY <2>1, <2>2, <2>3, <2>4 DEF OkChunk, ChunkOwned, Wire
  <2>6. FilledSlice(left) = b
    <3> DEFINE f == FilledSlice(left)
    <3>1. /\ f \in Wire /\ Len(f) = l - (m + n)
          /\ \A i \in 1..l - (m + n) : f[i] = d[(m + n) + i]
      <4>1. /\ f \in Wire /\ Len(f) = Len(left.data) - left.consumed
            /\ \A i \in 1..Len(left.data) - left.consumed :
                  f[i] = left.data[left.consumed + i]
        BY <2>5, OkSlice
      <4> HIDE DEF f
      <4> DEFINE k == Len(left.data) - left.consumed
      <4>2. k = l - (m + n)
        BY <2>1, <2>3
      <4>3. Len(f) = k /\ \A i \in 1..k : f[i] = d[(m + n) + i]
        BY <2>3, <4>1
      <4> HIDE DEF k
      <4> QED BY <4>1, <4>2, <4>3
    <3> HIDE DEF f, d, m, l
    <3>2. Len(s) - n = l - (m + n)
      BY <1>6, <2>1, <2>4 DEF d, m, l
    <3>3. ASSUME NEW i \in 1..l - (m + n) PROVE f[i] = b[i]
      <4>1. i \in 1..Len(s) - n /\ n + i \in 1..l - m /\ m + (n + i) = (m + n) + i
        BY <2>1, <2>4, <3>2
      <4>2. b[i] = s[n + i] /\ s[n + i] = d[m + (n + i)]
        BY <1>6, <1>7, <4>1 DEF d, m, l
      <4> QED BY <3>1, <4>1, <4>2
    <3>4. f = b
      BY <1>7, <3>1, <3>2, <3>3, SeqEqual DEF Wire
    <3> QED BY <3>4 DEF f
  <2> HIDE DEF d, m, l
  <2> DEFINE new == [q EXCEPT ![1] = left]
  <2>7. v.queue = new
    <3>1. Consumed(q[1], n) = left
      BY <1>1, HeadTailType DEF left, c
    <3>2. v.queue = [q EXCEPT ![1] = Consumed(q[1], n)]
      BY <1>11, <1>13 DEF ConsumeFront, c, q
    <3> QED BY <3>1, <3>2
  <2> HIDE DEF q
  <2>8. /\ new \in Seq(OkChunk(FALSE)) /\ new # <<>>
        /\ Head(new) = left /\ Tail(new) = Tail(q)
    <3>1. q # <<>>
      BY DEF q
    <3> QED BY <1>1, <2>5, <3>1, NewFirst
  <2> HIDE DEF new
  <2>9. BytesIn(new) = FilledSlice(Head(new)) \o BytesIn(Tail(new))
    BY <2>8, BytesHead
  <2>10. BytesIn(Tail(new)) = rest
    BY <2>8 DEF rest, t
  <2> QED BY <2>6, <2>7, <2>8, <2>9, <2>10
<1> QED BY <1>12, <1>13

\* pop_front hands the front chunk on, all of it.
LEMMA PopFrontEffect ==
  ASSUME NEW w \in OkWriter(TRUE), w.queue # <<>>
  PROVE  /\ PopFront(w) \in OkWriter(TRUE)
         /\ FrontView(w) \in Wire /\ FrontView(w) # <<>>
         /\ BytesIn(w.queue) = FrontView(w) \o BytesIn(PopFront(w).queue)
<1> DEFINE q == w.queue
           c == Head(q)
           t == Tail(q)
           v == PopFront(w)
           s == FilledSlice(c)
           rest == BytesIn(t)
<1>1. q \in Seq(OkChunk(TRUE)) /\ w.filled_len = Len(BytesIn(q))
  BY OkWriterType
<1>2. c \in OkChunk(TRUE) /\ t \in Seq(OkChunk(TRUE))
  BY <1>1, HeadTailType
<1>3. BytesIn(q) = s \o rest /\ rest \in Wire
  BY <1>1, <1>2, BytesHead, BytesType
<1>4. v = [queue |-> t, filled_len |-> w.filled_len - FilledLen(c)]
  BY DEF PopFront
<1> HIDE DEF c, t, v, s, rest
<1>5. s \in Wire /\ s # <<>> /\ Len(s) = Len(c.data) - c.consumed /\ Len(s) \in Nat
  BY <1>2, OkSlice DEF s
<1>6. FrontView(w) = s
  <2>1. c.consumed = 0 /\ c.data \in Seq(WireByte)
    BY <1>2, OkChunkType DEF Wire
  <2>2. s = SubSeq(c.data, 1, Len(c.data))
    BY <2>1 DEF s, FilledSlice
  <2>3. FrontView(w) = c.data
    BY DEF FrontView, ToView, c
  <2> QED BY <2>1, <2>2, <2>3, SubSeqFull
<1>7. v.queue = t /\ v.filled_len = Len(rest) /\ Len(rest) \in Nat
  <2>1. Len(s \o rest) = Len(s) + Len(rest) /\ Len(rest) \in Nat
    BY <1>3, <1>5, WireConcat
  <2>2. FilledLen(c) = Len(s)
    BY <1>5 DEF FilledLen
  <2> HIDE DEF q
  <2>3. w.filled_len - FilledLen(c) = Len(rest)
    BY <1>1, <1>3, <1>5, <2>1, <2>2 DEF q
  <2> QED BY <1>4, <2>1, <2>3
<1>8. v \in OkWriter(TRUE)
  <2>1. v \in [queue : Seq(OkChunk(TRUE)), filled_len : Nat]
    BY <1>2, <1>4, <1>7
  <2> QED BY <1>7, <2>1 DEF OkWriter, rest
<1> QED BY <1>3, <1>5, <1>6, <1>7, <1>8 DEF v, rest

-----------------------------------------------------------------------------
\* The chain a reader takes from.

Piece == Wire \ {<<>>}
OkReader ==
    {r \in [chunks : Seq(Piece), len : Nat] : r.len = Len(FlattenSeq(r.chunks))}
Same == [p \in Piece |-> p]

LEMMA SameFlat ==
  ASSUME NEW q \in Seq(Piece)
  PROVE  Maps(Same, Piece, Wire) /\ FlattenSeq(q) = FlatImages(Same, q)
<1>1. Maps(Same, Piece, Wire)
  BY DEF Maps, Same, Piece
<1>2. Images(Same, q) \in Seq(Wire) /\ Len(Images(Same, q)) = Len(q)
      /\ \A i \in 1..Len(q) : Images(Same, q)[i] = Same[q[i]]
  BY <1>1, ImagesType
<1>3. q \in Seq(Wire) /\ \A i \in 1..Len(q) : q[i] \in Piece
  <2>1. Piece \subseteq Wire
    BY DEF Piece
  <2> QED BY <2>1, SeqMonotonic
<1> DEFINE images == Images(Same, q)
<1> HIDE DEF images
<1>4. \A i \in 1..Len(q) : images[i] = q[i]
  BY <1>2, <1>3 DEF Same, images
<1>5. images = q
  BY <1>2, <1>3, <1>4, SeqEqual DEF images
<1> QED BY <1>1, <1>5 DEF FlatImages, images

LEMMA GotType ==
  ASSUME NEW q \in Seq(Piece)
  PROVE  FlattenSeq(q) \in Wire /\ Len(FlattenSeq(q)) \in Nat
<1>1. FlattenSeq(q) \in Wire
  BY SameFlat, WireJoins, FlatImagesType
<1> QED BY <1>1 DEF Wire

LEMMA GotHead ==
  ASSUME NEW q \in Seq(Piece), q # <<>>
  PROVE  /\ Head(q) \in Piece /\ Tail(q) \in Seq(Piece)
         /\ FlattenSeq(q) = Head(q) \o FlattenSeq(Tail(q))
<1> DEFINE h == Head(q)
           t == Tail(q)
<1>1. h \in Piece /\ t \in Seq(Piece)
  BY HeadTailType
<1>2. FlatImages(Same, q) = Same[h] \o FlatImages(Same, t)
  BY SameFlat, WireJoins, FlatImagesHead
<1>3. Same[h] = h
  BY <1>1 DEF Same
<1> HIDE DEF h, t
<1>4. FlattenSeq(t) = FlatImages(Same, t)
  BY <1>1, SameFlat
<1> QED BY <1>1, <1>2, <1>3, <1>4, SameFlat DEF h, t

LEMMA GotAppend ==
  ASSUME NEW q \in Seq(Piece), NEW p \in Piece
  PROVE  /\ Append(q, p) \in Seq(Piece)
         /\ FlattenSeq(Append(q, p)) = FlattenSeq(q) \o p
<1> DEFINE more == Append(q, p)
<1>1. more \in Seq(Piece)
  BY AppendType
<1>2. FlatImages(Same, more) = FlatImages(Same, q) \o Same[p]
  BY SameFlat, WireJoins, FlatImagesAppend
<1>3. Same[p] = p
  BY DEF Same
<1> HIDE DEF more
<1>4. FlattenSeq(more) = FlatImages(Same, more)
  BY <1>1, SameFlat
<1> QED BY <1>1, <1>2, <1>3, <1>4, SameFlat DEF more

LEMMA OkReaderType ==
  ASSUME NEW r \in OkReader
  PROVE  /\ r \in Reader(WireByte) /\ r.chunks \in Seq(Piece)
         /\ r.len \in Nat /\ r.len = Len(FlattenSeq(r.chunks))
         /\ FlattenSeq(r.chunks) \in Wire
         /\ r = [chunks |-> r.chunks, len |-> r.len]
<1>1. /\ r.chunks \in Seq(Piece) /\ r.len \in Nat
      /\ r.len = Len(FlattenSeq(r.chunks))
      /\ r = [chunks |-> r.chunks, len |-> r.len]
  BY DEF OkReader
<1>2. Piece \subseteq Seq(WireByte)
  BY DEF Piece, Wire
<1>3. r.chunks \in Seq(Seq(WireByte))
  BY <1>1, <1>2, SeqMonotonic
<1> QED BY <1>1, <1>3, GotType DEF Reader

\* A chain of views with no byte has none; one with bytes has some.
LEMMA NothingGot ==
  ASSUME NEW r \in OkReader
  PROVE  r.chunks = <<>> <=> FlattenSeq(r.chunks) = <<>>
<1>1. CASE r.chunks = <<>>
  BY <1>1, FlatEmpty
<1>2. CASE r.chunks # <<>>
  <2> DEFINE h == Head(r.chunks)
             rest == FlattenSeq(Tail(r.chunks))
  <2>1. h \in Piece /\ Tail(r.chunks) \in Seq(Piece)
        /\ FlattenSeq(r.chunks) = h \o rest
    BY <1>2, OkReaderType, GotHead
  <2>2. h \in Seq(WireByte) /\ h # <<>> /\ rest \in Seq(WireByte)
    BY <2>1, GotType DEF Piece, Wire
  <2> HIDE DEF h, rest
  <2>3. h \o rest # <<>>
    BY <2>2, ConcatEqualIffEmpty
  <2> QED BY <1>2, <2>1, <2>3
<1> QED BY <1>1, <1>2

LEMMA NewReaderEffect ==
  NewReader \in OkReader /\ FlattenSeq(NewReader.chunks) = <<>>
<1>1. /\ NewReader.chunks = <<>> /\ NewReader.len = 0
      /\ NewReader \in [chunks : Seq(Piece), len : Nat]
  BY DEF NewReader
<1>2. Len(<<>>) = 0
  OBVIOUS
<1> QED BY <1>1, <1>2, FlatEmpty DEF OkReader

LEMMA PushBackEffect ==
  ASSUME NEW r \in OkReader, NEW view \in Piece
  PROVE  /\ PushBack(r, view) \in OkReader
         /\ FlattenSeq(PushBack(r, view).chunks) = FlattenSeq(r.chunks) \o view
<1> DEFINE q == Append(r.chunks, view)
           got == FlattenSeq(r.chunks)
           after == PushBack(r, view)
           n == r.len + Len(view)
<1>1. r.chunks \in Seq(Piece) /\ r.len = Len(got) /\ got \in Wire
  BY OkReaderType
<1>2. q \in Seq(Piece) /\ FlattenSeq(q) = got \o view
  BY <1>1, GotAppend
<1>3. view \in Wire
  BY DEF Piece
<1>4. Len(got \o view) = Len(got) + Len(view) /\ Len(got) \in Nat /\ Len(view) \in Nat
  BY <1>1, <1>3, ConcatProperties DEF Wire
<1>5. after = [chunks |-> q, len |-> n]
  BY DEF PushBack
<1> HIDE DEF q, got, after
<1>6. n \in Nat /\ n = Len(FlattenSeq(q))
  BY <1>1, <1>2, <1>4
<1> HIDE DEF n
<1>7. after.chunks = q /\ after.len = n
      /\ after \in [chunks : Seq(Piece), len : Nat]
  BY <1>2, <1>5, <1>6
<1>8. after \in OkReader
  BY <1>6, <1>7 DEF OkReader
<1> QED BY <1>2, <1>7, <1>8 DEF after, got

\* A writer's chain, taken over.
LEMMA FromWriterEffect ==
  ASSUME NEW w \in OkWriter(TRUE)
  PROVE  /\ FromWriter(w) \in OkReader
         /\ FlattenSeq(FromWriter(w).chunks) = BytesIn(w.queue)
<1> DEFINE q == w.queue
           views == [i \in DOMAIN q |-> ToView(q[i])]
           slices == [i \in DOMAIN q |-> FilledSlice(q[i])]
           after == FromWriter(w)
           n == Len(q)
<1>1. q \in Seq(OkChunk(TRUE)) /\ w.filled_len \in Nat
      /\ w.filled_len = Len(BytesIn(q))
  BY OkWriterType
<1>2. n \in Nat /\ DOMAIN q = 1..n /\ \A i \in 1..n : q[i] \in OkChunk(TRUE)
  <2> DEFINE D == OkChunk(TRUE)
  <2> HIDE DEF q, D
  <2>1. q \in Seq(D)
    BY <1>1 DEF D
  <2>2. n \in Nat /\ DOMAIN q = 1..n /\ \A i \in 1..n : q[i] \in D
    BY <2>1
  <2> QED BY <2>2 DEF D
<1>3. \A c \in OkChunk(TRUE) : ToView(c) = FilledSlice(c) /\ ToView(c) \in Piece
  <2> TAKE c \in OkChunk(TRUE)
  <2>1. c.consumed = 0 /\ c.data \in Seq(WireByte)
    BY OkChunkType DEF Wire
  <2>2. FilledSlice(c) = SubSeq(c.data, 1, Len(c.data))
    BY <2>1 DEF FilledSlice
  <2>3. FilledSlice(c) = c.data
    BY <2>1, <2>2, SubSeqFull
  <2>4. FilledSlice(c) \in Wire /\ FilledSlice(c) # <<>>
    BY OkSlice
  <2> QED BY <2>3, <2>4 DEF ToView, Piece
<1>4. views = slices
  BY <1>2, <1>3
<1>5. after = [chunks |-> views, len |-> w.filled_len]
  BY DEF FromWriter
<1>6. BytesIn(q) = FlattenSeq(slices)
  BY DEF BytesIn
<1> HIDE DEF n
<1>7. views \in [1..n -> Piece]
  BY <1>2, <1>3
<1> HIDE DEF q, views, slices, after
<1>8. views \in Seq(Piece)
  BY <1>2, <1>7
<1>9. after.chunks = views /\ after.len = w.filled_len
      /\ after \in [chunks : Seq(Piece), len : Nat]
  BY <1>1, <1>5, <1>8
<1>10. after \in OkReader
  BY <1>1, <1>4, <1>6, <1>9 DEF OkReader
<1> QED BY <1>4, <1>6, <1>9, <1>10 DEF q, after

\* What next_u8 and next_chunk take is the beginning of what was there.
LEMMA TakeFrontEffect ==
  ASSUME NEW r \in OkReader, r.chunks # <<>>,
         NEW n \in Nat, n <= Len(Head(r.chunks))
  PROVE  LET taken == SubSeq(Head(r.chunks), 1, n)
             after == TakeFront(r, n)
         IN  /\ after \in OkReader
             /\ taken \in Wire /\ Len(taken) = n
             /\ FlattenSeq(r.chunks) = taken \o FlattenSeq(after.chunks)
             /\ after.len = r.len - n
<1> DEFINE h == Head(r.chunks)
           t == Tail(r.chunks)
           l == Len(h)
           a == SubSeq(h, 1, n)
           b == SubSeq(h, n + 1, l)
           after == TakeFront(r, n)
           got == FlattenSeq(r.chunks)
           rest == FlattenSeq(t)
<1>1. r.chunks \in Seq(Piece) /\ r.len \in Nat /\ r.len = Len(got)
  BY OkReaderType
<1>2. h \in Piece /\ t \in Seq(Piece) /\ got = h \o rest
  BY <1>1, GotHead
<1>3. rest \in Wire
  BY <1>2, GotType
<1>4. h \in Seq(WireByte) /\ n <= l
  BY <1>2 DEF Piece, Wire
<1>5. after = [chunks |-> IF n = l THEN t ELSE <<b>> \o t, len |-> r.len - n]
  BY DEF TakeFront, View
<1> HIDE DEF h, t, rest, got, after
<1>6. /\ a \in Wire /\ Len(a) = n /\ b \in Wire /\ Len(b) = l - n /\ h = a \o b
      /\ l \in Nat
  <2>1. /\ a \in Seq(WireByte) /\ Len(a) = n /\ b \in Seq(WireByte)
        /\ Len(b) = Len(h) - n /\ h = a \o b
    BY <1>4, CutType
  <2>2. Len(h) \in Nat
    BY <1>4
  <2> HIDE DEF a, b
  <2> QED BY <2>1, <2>2 DEF Wire
<1> HIDE DEF a, b, l
<1> DEFINE left == b \o rest
<1>7. got = a \o left
  BY <1>2, <1>3, <1>6, WireJoins DEF Concatenates
<1>8. left \in Wire
  BY <1>3, <1>6, WireConcat
<1> DEFINE chunks == IF n = l THEN t ELSE <<b>> \o t
<1>9. chunks \in Seq(Piece) /\ FlattenSeq(chunks) = left
  <2>1. CASE n = l
    <3>1. Len(b) = 0
      BY <1>6, <2>1
    <3>2. b = <<>>
      BY <1>6, <3>1, EmptySeq DEF Wire
    <3>3. <<>> \o rest = rest
      BY <1>3, WireJoins DEF Concatenates
    <3> QED BY <1>2, <2>1, <3>2, <3>3 DEF rest
  <2>2. CASE n # l
    <3>1. Len(b) # 0
      BY <1>4, <1>6, <2>2
    <3>2. b \in Piece
      BY <1>6, <3>1 DEF Piece
    <3> DEFINE one == <<b>>
    <3>3. one \in Seq(Piece) /\ one \in Seq(Wire)
      BY <1>6, <3>2
    <3>4. FlattenSeq(one) = b
      BY <1>6, WireJoins, FlatOne
    <3> HIDE DEF one
    <3>5. one \o t \in Seq(Piece)
      BY <1>2, <3>3, ConcatProperties
    <3>6. t \in Seq(Wire)
      <4>1. Piece \subseteq Wire
        BY DEF Piece
      <4> QED BY <1>2, <4>1, SeqMonotonic
    <3>7. FlattenSeq(one \o t) = FlattenSeq(one) \o FlattenSeq(t)
      BY <3>3, <3>6, WireJoins, FlatConcat
    <3> QED BY <2>2, <3>4, <3>5, <3>7 DEF one, rest
  <2> QED BY <2>1, <2>2
<1>10. Len(left) \in Nat /\ r.len - n = Len(left)
  <2>1. Len(a \o left) = Len(a) + Len(left) /\ Len(left) \in Nat
    BY <1>6, <1>8, WireConcat
  <2> HIDE DEF left
  <2> QED BY <1>1, <1>6, <1>7, <2>1
<1> HIDE DEF chunks, left
<1>11. after.chunks = chunks /\ after.len = r.len - n
       /\ after \in [chunks : Seq(Piece), len : Nat]
  BY <1>5, <1>9, <1>10 DEF chunks
<1>12. after \in OkReader
  BY <1>9, <1>10, <1>11 DEF OkReader
<1> QED BY <1>6, <1>7, <1>9, <1>11, <1>12 DEF after, a, h, got

\* The same beginning leaves the same end.
LEMMA SameStart ==
  ASSUME NEW a \in Wire, NEW x \in Wire, NEW b \in Wire, NEW y \in Wire,
         a \o x = b \o y, Len(a) = Len(b)
  PROVE  a = b /\ x = y
<1> DEFINE n == Len(a)
           s == a \o x
<1>1. n \in Nat /\ a \in Seq(WireByte) /\ b \in Seq(WireByte)
      /\ x \in Seq(WireByte) /\ y \in Seq(WireByte)
  BY DEF Wire
<1>2. \A i \in 1..n : s[i] = a[i]
  <2>1. \A i \in 1..Len(a) + Len(x) : s[i] = IF i <= Len(a) THEN a[i] ELSE x[i - Len(a)]
    BY <1>1, ConcatProperties
  <2>2. Len(a) \in Nat /\ Len(x) \in Nat
    BY <1>1
  <2> HIDE DEF s
  <2>3. \A i \in 1..Len(a) : s[i] = a[i]
    BY <2>1, <2>2
  <2> QED BY <2>3
<1>3. \A i \in 1..n : s[i] = b[i]
  <2> DEFINE u == b \o y
  <2>1. \A i \in 1..Len(b) + Len(y) : u[i] = IF i <= Len(b) THEN b[i] ELSE y[i - Len(b)]
    BY <1>1, ConcatProperties
  <2>2. Len(b) \in Nat /\ Len(y) \in Nat
    BY <1>1
  <2> HIDE DEF u
  <2>3. \A i \in 1..Len(b) : u[i] = b[i]
    BY <2>1, <2>2
  <2> QED BY <2>3 DEF u
<1> HIDE DEF s
<1>4. a = b
  <2>1. \A i \in 1..Len(a) : a[i] = b[i]
    BY <1>2, <1>3
  <2> QED BY <1>1, <2>1, SeqEqual
<1>5. a \o x = a \o y
  BY <1>4
<1>6. x = y
  BY <1>1, <1>5, ConcatSimplifications
<1> QED BY <1>4, <1>6

\* Header::read takes a header's bytes.
LEMMA SkipHeaderEffect ==
  ASSUME NEW r \in OkReader, r.len >= HeaderLen
  PROVE  /\ SkipHeader(r) \in OkReader
         /\ \E a \in Wire : /\ Len(a) = HeaderLen
                            /\ FlattenSeq(r.chunks)
                                 = a \o FlattenSeq(SkipHeader(r).chunks)
<1> DEFINE n == HeaderLen
           Turn(s) == IF s.chunks = <<>> THEN s ELSE TakeFront(s, 1)
           step == [p \in (1..n) \X OkReader |-> Turn(p[2])]
           Is(g) == g = [k \in 0..n |-> IF k = 0 THEN r ELSE TakeFront(g[k - 1], 1)]
           after == CHOOSE g : Is(g)
           got == FlattenSeq(r.chunks)
           Skipped(s, k) ==
               /\ s \in OkReader /\ s.len = r.len - k
               /\ \E a \in Wire : Len(a) = k /\ got = a \o FlattenSeq(s.chunks)
<1>1. n \in Nat
  BY CodecAssumption
<1>2. ASSUME NEW s \in OkReader, s.chunks # <<>>
      PROVE  1 \in Nat /\ 1 <= Len(Head(s.chunks))
  <2>1. Head(s.chunks) \in Piece
    BY <1>2, OkReaderType, GotHead
  <2> DEFINE h == Head(s.chunks)
  <2>2. h \in Seq(WireByte) /\ h # <<>>
    BY <2>1 DEF Piece, Wire
  <2> HIDE DEF h
  <2>3. Len(h) \in Nat \ {0}
    BY <2>2, EmptySeq
  <2> QED BY <2>3 DEF h
<1>3. \A s \in OkReader : Turn(s) \in OkReader
  <2> TAKE s \in OkReader
  <2>1. CASE s.chunks = <<>>
    BY <2>1
  <2>2. CASE s.chunks # <<>>
    BY <1>2, <2>2, TakeFrontEffect
  <2> QED BY <2>1, <2>2
<1>4. SkipHeader(r) = after[n]
  BY DEF SkipHeader
<1>5. step \in [(1..n) \X OkReader -> OkReader]
  <2> HIDE DEF Turn, n
  <2> QED BY <1>3
<1>6. \A k \in 1..n, s \in OkReader : step[<<k, s>>] = Turn(s)
  <2> HIDE DEF Turn, n
  <2> QED OBVIOUS
<1> HIDE DEF step, n
<1>7. PICK f \in [0..n -> OkReader] : IsLoop(f, n, r, step)
  BY <1>1, <1>5, LoopExists
<1>8. \A k \in Nat : k + 1 <= n => f[k] \in OkReader /\ f[k + 1] = Turn(f[k])
  <2> TAKE k \in Nat
  <2> SUFFICES ASSUME k + 1 <= n PROVE f[k] \in OkReader /\ f[k + 1] = Turn(f[k])
    OBVIOUS
  <2>1. k \in 0..n /\ k + 1 \in 1..n /\ (k + 1) - 1 = k
    BY <1>1
  <2>2. f[k] \in OkReader
    BY <2>1
  <2>3. f[k + 1] = step[<<k + 1, f[k]>>]
    BY <1>7, <2>1 DEF IsLoop
  <2> HIDE DEF Turn
  <2> QED BY <1>6, <2>1, <2>2, <2>3
<1>9. f[0] = r
  BY <1>7 DEF IsLoop
\* While the header is not through there is a byte.
<1>10. ASSUME NEW k \in Nat, k + 1 <= n, NEW s, Skipped(s, k)
       PROVE  s.chunks # <<>> /\ Skipped(TakeFront(s, 1), k + 1)
  <2>1. s \in OkReader /\ s.len = r.len - k
    BY <1>10
  <2>2. PICK a \in Wire : Len(a) = k /\ got = a \o FlattenSeq(s.chunks)
    BY <1>10
  <2>3. r.len \in Nat /\ r.len >= n /\ got \in Wire
    BY OkReaderType DEF n
  <2>4. s.chunks # <<>>
    <3>1. s.len # 0
      BY <1>1, <1>10, <2>1, <2>3
    <3>2. FlattenSeq(s.chunks) # <<>>
      BY <2>1, <3>1, OkReaderType
    <3> QED BY <2>1, <3>2, NothingGot
  <2> DEFINE byte == SubSeq(Head(s.chunks), 1, 1)
             t == TakeFront(s, 1)
             rest == FlattenSeq(t.chunks)
             more == a \o byte
  <2>5. /\ t \in OkReader /\ t.len = s.len - 1
        /\ byte \in Wire /\ Len(byte) = 1 /\ FlattenSeq(s.chunks) = byte \o rest
    BY <1>2, <2>1, <2>4, TakeFrontEffect
  <2> HIDE DEF byte, t
  <2>6. rest \in Wire
    BY <2>5, OkReaderType
  <2> HIDE DEF rest, got
  <2>7. a \o (byte \o rest) = more \o rest
    BY <2>5, <2>6, WireJoins DEF Concatenates
  <2>8. more \in Wire /\ Len(more) = k + 1
    BY <2>2, <2>5, WireConcat
  <2> HIDE DEF more
  <2>9. t.len = r.len - (k + 1)
    BY <2>1, <2>3, <2>5
  <2>10. got = more \o rest
    BY <2>2, <2>5, <2>7
  <2> QED BY <2>4, <2>5, <2>8, <2>9, <2>10 DEF t, rest
<1> DEFINE T == {k \in Nat : k <= n => Skipped(f[k], k)}
<1>11. 0 \in T
  <2>1. <<>> \in Wire /\ Len(<<>>) = 0
    BY DEF Wire
  <2>2. <<>> \o got = got /\ r.len - 0 = r.len
    BY OkReaderType, WireJoins DEF Concatenates
  <2>3. Skipped(r, 0)
    <3> HIDE DEF got
    <3> QED BY <2>1, <2>2 DEF got
  <2> HIDE DEF Skipped
  <2> QED BY <1>9, <2>3
<1>12. ASSUME NEW k \in Nat, k \in T
       PROVE  k + 1 \in T
  <2> SUFFICES ASSUME k + 1 <= n PROVE Skipped(f[k + 1], k + 1)
    <3> HIDE DEF Skipped
    <3> QED OBVIOUS
  <2>1. Skipped(f[k], k)
    <3> HIDE DEF Skipped
    <3> QED BY <1>1, <1>12
  <2> HIDE DEF Skipped
  <2>2. f[k].chunks # <<>> /\ Skipped(TakeFront(f[k], 1), k + 1)
    BY <1>10, <2>1
  <2>3. f[k + 1] = TakeFront(f[k], 1)
    BY <1>8, <2>2
  <2> QED BY <2>2, <2>3
<1> HIDE DEF T
<1>13. \A k \in Nat : k \in T
  BY <1>11, <1>12, SetInduction
<1>14. Is(f)
  <2>1. \A k \in 0..n : f[k] = IF k = 0 THEN r ELSE TakeFront(f[k - 1], 1)
    <3> TAKE k \in 0..n
    <3>1. CASE k = 0
      BY <1>9, <3>1
    <3>2. CASE k # 0
      <4> DEFINE j == k - 1
      <4>1. j \in Nat /\ j + 1 = k /\ j + 1 <= n /\ j <= n
        BY <1>1, <3>2
      <4> HIDE DEF j
      <4>2. Skipped(f[j], j)
        <5> HIDE DEF Skipped
        <5> QED BY <1>13, <4>1 DEF T
      <4>3. f[j].chunks # <<>>
        <5> HIDE DEF Skipped
        <5> QED BY <1>10, <4>1, <4>2
      <4>4. f[j + 1] = TakeFront(f[j], 1)
        BY <1>8, <4>1, <4>3
      <4> QED BY <3>2, <4>1, <4>4 DEF j
    <3> QED BY <3>1, <3>2
  <2> QED BY <2>1
<1>15. Is(after)
  BY <1>14
\* Any function that satisfies the equation is this one.
<1>16. \A k \in 0..n : after[k] = IF k = 0 THEN r ELSE TakeFront(after[k - 1], 1)
  BY <1>15
<1>17. \A k \in 0..n : f[k] = IF k = 0 THEN r ELSE TakeFront(f[k - 1], 1)
  BY <1>14
<1> HIDE DEF after, Is
<1> DEFINE U == {k \in Nat : k <= n => after[k] = f[k]}
<1>18. n \in U
  <2>1. 0 \in U
    <3>1. 0 \in 0..n
      BY <1>1
    <3> QED BY <1>16, <1>17, <3>1
  <2>2. ASSUME NEW k \in Nat, k \in U
        PROVE  k + 1 \in U
    <3> SUFFICES ASSUME k + 1 <= n PROVE after[k + 1] = f[k + 1]
      OBVIOUS
    <3>1. k + 1 \in 0..n /\ k + 1 # 0 /\ (k + 1) - 1 = k /\ k <= n
      BY <1>1
    <3>2. after[k] = f[k]
      BY <2>2, <3>1
    <3>3. after[k + 1] = TakeFront(after[k], 1)
      BY <1>16, <3>1
    <3>4. f[k + 1] = TakeFront(f[k], 1)
      BY <1>17, <3>1
    <3> QED BY <3>2, <3>3, <3>4
  <2> HIDE DEF U
  <2> QED BY <1>1, <2>1, <2>2, SetInduction
<1>19. Skipped(f[n], n)
  <2> HIDE DEF Skipped
  <2> QED BY <1>1, <1>13 DEF T
<1>20. after[n] = f[n]
  BY <1>1, <1>18
<1> QED BY <1>4, <1>19, <1>20 DEF n

-----------------------------------------------------------------------------
\* Frames, and their units: a header, or one byte of payload.
HeaderUnit == HeaderFrame \cup UnknownFrame
OneByte(stream, byte) == Frame(stream, DataChunk(<<byte>>))
ByteUnit == {OneByte(p[1], p[2]) : p \in Word \X Byte}
ChunkFrame == {Frame(p[1], DataChunk(p[2])) : p \in Word \X Seq(Byte)}
AnyFrame == HeaderUnit \cup ChunkFrame
Unit == HeaderUnit \cup ByteUnit

Pieces(stream, chunk) == [i \in DOMAIN chunk |-> OneByte(stream, chunk[i])]
CodeOf == [f \in AnyFrame |->
    IF f.event.kind = "DataChunk" THEN f.event.chunk ELSE HeaderBytes(f)]
UnitsOf(frames) == [f \in frames |->
    IF f.event.kind = "DataChunk" THEN Pieces(f.stream, f.event.chunk) ELSE <<f>>]

LEMMA HeaderUnitType ==
  ASSUME NEW f \in HeaderUnit
  PROVE  f.event.kind # "DataChunk" /\ f.stream \in Word
<1>1. 0 \in Word
  BY DEF Word
<1>2. CASE f \in HeaderFrame
  BY <1>1, <1>2 DEF HeaderFrame
<1>3. CASE f \in UnknownFrame
  BY <1>3 DEF UnknownFrame
<1> QED BY <1>2, <1>3 DEF HeaderUnit

LEMMA ChunkFrameType ==
  ASSUME NEW f \in ChunkFrame
  PROVE  /\ f.event.kind = "DataChunk" /\ f.stream \in Word
         /\ f.event.chunk \in Seq(Byte)
BY DEF ChunkFrame, Frame, DataChunk

LEMMA OneByteType ==
  ASSUME NEW s \in Word, NEW b \in Byte
  PROVE  /\ OneByte(s, b) \in ByteUnit /\ OneByte(s, b) \in ChunkFrame
         /\ OneByte(s, b).event.kind = "DataChunk"
         /\ OneByte(s, b).event.chunk = <<b>> /\ OneByte(s, b).stream = s
<1>1. <<b>> \in Seq(Byte)
  OBVIOUS
<1>2. <<s, b>> \in Word \X Byte /\ <<s, <<b>>>> \in Word \X Seq(Byte)
  BY <1>1
<1>3. OneByte(s, b) \in ByteUnit
  BY <1>2 DEF ByteUnit
<1>4. Frame(s, DataChunk(<<b>>)) \in ChunkFrame
  BY <1>2 DEF ChunkFrame
<1> QED BY <1>3, <1>4 DEF OneByte, Frame, DataChunk

LEMMA UnitFrame == Unit \subseteq AnyFrame
<1>1. ASSUME NEW u \in ByteUnit PROVE u \in ChunkFrame
  <2>1. PICK p \in Word \X Byte : u = OneByte(p[1], p[2])
    BY DEF ByteUnit
  <2> QED BY <2>1, OneByteType
<1> QED BY <1>1 DEF Unit, AnyFrame

\* What a header is on the wire.
LEMMA HeaderBytesType ==
  ASSUME NEW f \in HeaderUnit
  PROVE  LET octets == WriteHeader(ToHeader(f)) IN
         /\ octets \in [1..12 -> Octet] /\ ReadHeader(octets) = ToHeader(f)
         /\ HeaderBytes(f) \in Wire /\ Len(HeaderBytes(f)) = HeaderLen
         /\ \A k \in 1..HeaderLen :
               /\ HeaderBytes(f)[k] = HeaderByte(octets, k)
               /\ HeaderBytes(f)[k] \in HeadByte
<1> DEFINE octets == WriteHeader(ToHeader(f))
           bytes == HeaderBytes(f)
<1>1. ToHeader(f) \in HeaderValue
  BY HeaderFits DEF HeaderUnit
<1>2. octets \in [1..12 -> Octet] /\ ReadHeader(octets) = ToHeader(f)
  BY <1>1, HeaderRoundTrip
<1>3. bytes = [k \in 1..HeaderLen |-> HeaderByte(octets, k)]
  BY DEF HeaderBytes
<1> HIDE DEF octets, bytes
<1>4. \A k \in 1..HeaderLen : HeaderByte(octets, k) \in HeadByte
  BY <1>2 DEF HeaderByte, HeadByte
<1>5. \A k \in 1..HeaderLen : bytes[k] = HeaderByte(octets, k)
  BY <1>3
<1>6. HeaderLen \in Nat
  BY CodecAssumption
<1>7. bytes \in [1..HeaderLen -> WireByte]
  BY <1>3, <1>4 DEF WireByte
<1>8. bytes \in Seq(WireByte) /\ Len(bytes) = HeaderLen
  BY <1>6, <1>7
<1> QED BY <1>2, <1>4, <1>5, <1>8 DEF octets, bytes, Wire

LEMMA ByteWire == Seq(Byte) \subseteq Wire
<1>1. Byte \subseteq WireByte
  BY DEF WireByte
<1> QED BY <1>1, SeqMonotonic DEF Wire

LEMMA CodeMaps == Maps(CodeOf, AnyFrame, Wire)
<1>1. ASSUME NEW f \in AnyFrame
      PROVE  (IF f.event.kind = "DataChunk" THEN f.event.chunk
              ELSE HeaderBytes(f)) \in Wire
  <2>1. CASE f \in HeaderUnit
    BY <2>1, HeaderUnitType, HeaderBytesType
  <2>2. CASE f \in ChunkFrame
    BY <2>2, ChunkFrameType, ByteWire
  <2> QED BY <2>1, <2>2 DEF AnyFrame
<1> QED BY <1>1 DEF Maps, CodeOf

LEMMA CodeIs ==
  /\ \A f \in HeaderUnit : f \in AnyFrame /\ CodeOf[f] = HeaderBytes(f)
  /\ \A f \in ChunkFrame : f \in AnyFrame /\ CodeOf[f] = f.event.chunk
<1>1. ASSUME NEW f \in HeaderUnit
      PROVE  f \in AnyFrame /\ CodeOf[f] = HeaderBytes(f)
  BY HeaderUnitType DEF CodeOf, AnyFrame
<1>2. ASSUME NEW f \in ChunkFrame
      PROVE  f \in AnyFrame /\ CodeOf[f] = f.event.chunk
  BY ChunkFrameType DEF CodeOf, AnyFrame
<1> QED BY <1>1, <1>2

\* The pieces of a chunk.
LEMMA PiecesType ==
  ASSUME NEW s \in Word, NEW c \in Seq(Byte)
  PROVE  /\ Pieces(s, c) \in Seq(ByteUnit) /\ Len(Pieces(s, c)) = Len(c)
         /\ \A i \in 1..Len(c) : Pieces(s, c)[i] = OneByte(s, c[i])
<1> DEFINE n == Len(c)
           p == Pieces(s, c)
<1>1. n \in Nat /\ DOMAIN c = 1..n /\ \A i \in 1..n : c[i] \in Byte
  OBVIOUS
<1>2. p = [i \in 1..n |-> OneByte(s, c[i])]
  BY <1>1 DEF Pieces
<1> HIDE DEF n, p
<1>3. p \in [1..n -> ByteUnit]
  BY <1>1, <1>2, OneByteType
<1>4. \A i \in 1..n : p[i] = OneByte(s, c[i])
  BY <1>2
<1>5. p \in Seq(ByteUnit) /\ Len(p) = n
  BY <1>1, <1>3
<1> QED BY <1>4, <1>5 DEF n, p

LEMMA PiecesEmpty ==
  ASSUME NEW s
  PROVE  Pieces(s, <<>>) = <<>>
<1>1. DOMAIN <<>> = {}
  OBVIOUS
<1> QED BY <1>1 DEF Pieces

LEMMA PiecesAppend ==
  ASSUME NEW s \in Word, NEW c \in Seq(Byte), NEW b \in Byte
  PROVE  /\ Append(c, b) \in Seq(Byte)
         /\ Pieces(s, Append(c, b)) = Append(Pieces(s, c), OneByte(s, b))
<1> DEFINE n == Len(c)
           d == Append(c, b)
           p == Pieces(s, c)
           q == Pieces(s, d)
           e == OneByte(s, b)
           r == Append(p, e)
<1>1. d \in Seq(Byte) /\ n \in Nat /\ Len(d) = n + 1 /\ d[n + 1] = b
      /\ \A k \in 1..n : d[k] = c[k]
  BY AppendType
<1>2. q \in Seq(ByteUnit) /\ Len(q) = Len(d) /\ \A i \in 1..Len(d) : q[i] = OneByte(s, d[i])
  BY <1>1, PiecesType
<1>3. p \in Seq(ByteUnit) /\ Len(p) = n /\ \A i \in 1..n : p[i] = OneByte(s, c[i])
  BY PiecesType
<1>4. e \in ByteUnit /\ e = OneByte(s, b)
  BY OneByteType
<1> HIDE DEF n, d, p, q, e
<1>5. r \in Seq(ByteUnit) /\ Len(r) = Len(p) + 1 /\ r[Len(p) + 1] = e
      /\ \A k \in 1..Len(p) : r[k] = p[k]
  BY <1>3, <1>4, AppendType
<1> HIDE DEF r
<1>6. \A i \in 1..Len(q) : q[i] = r[i]
  BY <1>1, <1>2, <1>3, <1>4, <1>5
<1>7. q = r
  BY <1>1, <1>2, <1>3, <1>5, <1>6, SeqEqual
<1> QED BY <1>1, <1>7 DEF d, q, r, p, e

LEMMA UnitMaps ==
  ASSUME NEW K, K \subseteq HeaderUnit
  PROVE  Maps(UnitsOf(K \cup ChunkFrame), K \cup ChunkFrame, Seq(K \cup ByteUnit))
<1> DEFINE V == K \cup ByteUnit
<1>1. ASSUME NEW f \in K \cup ChunkFrame
      PROVE  (IF f.event.kind = "DataChunk"
              THEN Pieces(f.stream, f.event.chunk) ELSE <<f>>) \in Seq(V)
  <2>1. CASE f \in K
    <3>1. f.event.kind # "DataChunk"
      BY <2>1, HeaderUnitType
    <3>2. f \in V
      BY <2>1
    <3> HIDE DEF V
    <3>3. <<f>> \in Seq(V)
      BY <3>2
    <3> QED BY <3>1, <3>3
  <2>2. CASE f \in ChunkFrame
    <3>1. /\ f.event.kind = "DataChunk" /\ f.stream \in Word
          /\ f.event.chunk \in Seq(Byte)
      BY <2>2, ChunkFrameType
    <3>2. Pieces(f.stream, f.event.chunk) \in Seq(ByteUnit)
      BY <3>1, PiecesType
    <3>3. ByteUnit \subseteq V
      OBVIOUS
    <3> HIDE DEF V
    <3>4. Seq(ByteUnit) \subseteq Seq(V)
      BY <3>3, SeqMonotonic
    <3> QED BY <3>1, <3>2, <3>4
  <2> QED BY <2>1, <2>2
<1> QED BY <1>1 DEF Maps, UnitsOf

LEMMA UnitsOfIs ==
  ASSUME NEW K, K \subseteq HeaderUnit, NEW f \in K \cup ChunkFrame
  PROVE  /\ f \in K => UnitsOf(K \cup ChunkFrame)[f] = <<f>>
         /\ f \in ChunkFrame => UnitsOf(K \cup ChunkFrame)[f]
                                  = Pieces(f.stream, f.event.chunk)
<1>1. f \in K => f.event.kind # "DataChunk"
  BY HeaderUnitType
<1>2. f \in ChunkFrame => f.event.kind = "DataChunk"
  BY ChunkFrameType
<1> QED BY <1>1, <1>2 DEF UnitsOf

LEMMA EncodedAre ==
  ASSUME NEW q \in Seq(AnyFrame)
  PROVE  Encoded(q) = FlatImages(CodeOf, q)
<1> DEFINE E == [n \in DOMAIN q |-> IF q[n].event.kind = "DataChunk"
                                    THEN q[n].event.chunk ELSE HeaderBytes(q[n])]
<1>1. \A n \in DOMAIN q : q[n] \in AnyFrame
  OBVIOUS
<1>2. E = Images(CodeOf, q)
  BY <1>1 DEF Images, CodeOf
<1>3. Encoded(q) = FlattenSeq(E)
  BY DEF Encoded
<1> QED BY <1>2, <1>3 DEF FlatImages

LEMMA UnitsAre ==
  ASSUME NEW D, NEW q \in Seq(D)
  PROVE  Units(q) = FlatImages(UnitsOf(D), q)
<1> DEFINE E == [n \in DOMAIN q |->
        IF q[n].event.kind = "DataChunk"
        THEN [i \in DOMAIN q[n].event.chunk |->
                 Frame(q[n].stream, DataChunk(<<q[n].event.chunk[i]>>))]
        ELSE <<q[n]>>]
<1>1. \A n \in DOMAIN q : q[n] \in D
  OBVIOUS
<1>2. E = Images(UnitsOf(D), q)
  BY <1>1 DEF Images, UnitsOf, Pieces, OneByte
<1>3. Units(q) = FlattenSeq(E)
  BY DEF Units
<1> QED BY <1>2, <1>3 DEF FlatImages

LEMMA EncodedType ==
  ASSUME NEW q \in Seq(AnyFrame)
  PROVE  Encoded(q) \in Wire /\ Len(Encoded(q)) \in Nat
<1>1. Encoded(q) \in Wire
  BY EncodedAre, CodeMaps, WireJoins, FlatImagesType
<1> QED BY <1>1 DEF Wire

LEMMA EncodedEmpty == Encoded(<<>>) = <<>>
<1>1. <<>> \in Seq(AnyFrame)
  OBVIOUS
<1> QED BY <1>1, EncodedAre, FlatImagesEmpty

LEMMA EncodedConcat ==
  ASSUME NEW p \in Seq(AnyFrame), NEW q \in Seq(AnyFrame)
  PROVE  Encoded(p \o q) = Encoded(p) \o Encoded(q)
<1>1. p \o q \in Seq(AnyFrame)
  BY ConcatProperties
<1>2. FlatImages(CodeOf, p \o q) = FlatImages(CodeOf, p) \o FlatImages(CodeOf, q)
  BY CodeMaps, WireJoins, FlatImagesConcat
<1> QED BY <1>1, <1>2, EncodedAre

LEMMA EncodedHead ==
  ASSUME NEW q \in Seq(AnyFrame), q # <<>>
  PROVE  /\ Head(q) \in AnyFrame /\ Tail(q) \in Seq(AnyFrame)
         /\ Encoded(q) = CodeOf[Head(q)] \o Encoded(Tail(q))
<1>1. Head(q) \in AnyFrame /\ Tail(q) \in Seq(AnyFrame)
  BY HeadTailType
<1>2. FlatImages(CodeOf, q) = CodeOf[Head(q)] \o FlatImages(CodeOf, Tail(q))
  BY CodeMaps, WireJoins, FlatImagesHead
<1> QED BY <1>1, <1>2, EncodedAre

LEMMA EncodedAppend ==
  ASSUME NEW q \in Seq(AnyFrame), NEW f \in AnyFrame
  PROVE  Encoded(Append(q, f)) = Encoded(q) \o CodeOf[f]
<1>1. Append(q, f) \in Seq(AnyFrame)
  BY AppendType
<1>2. FlatImages(CodeOf, Append(q, f)) = FlatImages(CodeOf, q) \o CodeOf[f]
  BY CodeMaps, WireJoins, FlatImagesAppend
<1> QED BY <1>1, <1>2, EncodedAre

\* The pieces of a chunk are encoded as its bytes.
LEMMA PiecesEncoded ==
  ASSUME NEW s \in Word, NEW c \in Seq(Byte)
  PROVE  Pieces(s, c) \in Seq(AnyFrame) /\ Encoded(Pieces(s, c)) = c
<1> DEFINE T == {k \in Nat : \A d \in Seq(Byte) : Len(d) = k =>
                   Pieces(s, d) \in Seq(AnyFrame) /\ Encoded(Pieces(s, d)) = d}
<1>1. 0 \in T
  <2> SUFFICES ASSUME NEW d \in Seq(Byte), Len(d) = 0
               PROVE  Pieces(s, d) \in Seq(AnyFrame) /\ Encoded(Pieces(s, d)) = d
    OBVIOUS
  <2>1. d = <<>>
    BY EmptySeq
  <2>2. <<>> \in Seq(AnyFrame)
    OBVIOUS
  <2> QED BY <2>1, <2>2, PiecesEmpty, EncodedEmpty
<1>2. ASSUME NEW k \in Nat, k \in T
      PROVE  k + 1 \in T
  <2> SUFFICES ASSUME NEW d \in Seq(Byte), Len(d) = k + 1
               PROVE  Pieces(s, d) \in Seq(AnyFrame) /\ Encoded(Pieces(s, d)) = d
    OBVIOUS
  <2>1. d # <<>>
    BY EmptySeq
  <2> DEFINE e == Front(d)
             b == Last(d)
             p == Pieces(s, e)
             u == OneByte(s, b)
  <2>2. e \in Seq(Byte) /\ b \in Byte /\ d = Append(e, b)
    BY <2>1, FrontAndLast
  <2> HIDE DEF e, b
  <2>3. Len(e) \in Nat /\ Len(d) = Len(e) + 1
    BY <2>2, AppendType
  <2>4. Len(e) = k
    BY <2>3
  <2>5. p \in Seq(AnyFrame) /\ Encoded(p) = e
    BY <1>2, <2>2, <2>4
  <2>6. Pieces(s, d) = Append(p, u)
    BY <2>2, PiecesAppend
  <2>7. u \in ChunkFrame /\ u.event.chunk = <<b>>
    BY <2>2, OneByteType
  <2>8. u \in AnyFrame /\ CodeOf[u] = <<b>>
    BY <2>7, CodeIs
  <2> HIDE DEF p, u
  <2>9. Append(p, u) \in Seq(AnyFrame) /\ Encoded(Append(p, u)) = e \o <<b>>
    BY <2>5, <2>8, AppendType, EncodedAppend
  <2>10. e \o <<b>> = Append(e, b)
    BY <2>2
  <2> QED BY <2>2, <2>6, <2>9, <2>10
<1> HIDE DEF T
<1>3. Len(c) \in T
  BY <1>1, <1>2, SetInduction
<1> QED BY <1>3 DEF T

-----------------------------------------------------------------------------
\* The units of the frames written.
LEMMA UnitsType ==
  ASSUME NEW K, K \subseteq HeaderUnit, NEW q \in Seq(K \cup ChunkFrame)
  PROVE  Units(q) \in Seq(K \cup ByteUnit)
<1> DEFINE D == K \cup ChunkFrame
           V == Seq(K \cup ByteUnit)
<1>1. Maps(UnitsOf(D), D, V)
  BY UnitMaps
<1>2. Concatenates(V)
  BY SeqJoins
<1>3. Units(q) = FlatImages(UnitsOf(D), q)
  BY UnitsAre
<1> HIDE DEF V, D
<1>4. FlatImages(UnitsOf(D), q) \in V
  BY <1>1, <1>2, FlatImagesType DEF D
<1> QED BY <1>3, <1>4 DEF V

LEMMA UnitsEmpty == Units(<<>>) = <<>>
<1>1. <<>> \in Seq(AnyFrame)
  OBVIOUS
<1> QED BY <1>1, UnitsAre, FlatImagesEmpty

LEMMA UnitsAppend ==
  ASSUME NEW q \in Seq(AnyFrame), NEW f \in AnyFrame
  PROVE  /\ Units(q) \in Seq(Unit) /\ UnitsOf(AnyFrame)[f] \in Seq(Unit)
         /\ Units(Append(q, f)) = Units(q) \o UnitsOf(AnyFrame)[f]
         /\ Encoded(UnitsOf(AnyFrame)[f]) = CodeOf[f]
<1> DEFINE D == AnyFrame
           V == Seq(Unit)
           F == UnitsOf(AnyFrame)
           r == Append(q, f)
<1>1. Maps(F, D, V)
  BY UnitMaps DEF AnyFrame, Unit
<1>2. Concatenates(V)
  BY SeqJoins
<1>3. r \in Seq(D)
  BY AppendType
<1>4. Units(q) = FlatImages(F, q) /\ Units(r) = FlatImages(F, r)
  BY <1>3, UnitsAre
<1>5. Units(q) \in V
  BY UnitsType DEF AnyFrame, Unit
<1>6. F[f] \in V
  BY <1>1 DEF Maps
<1>7. Units(r) = Units(q) \o F[f]
  <2> HIDE DEF F, V, D
  <2>1. FlatImages(F, r) = FlatImages(F, q) \o F[f]
    BY <1>1, <1>2, FlatImagesAppend DEF D
  <2> QED BY <1>4, <2>1
<1>8. Encoded(F[f]) = CodeOf[f]
  <2>1. CASE f \in HeaderUnit
    <3>1. F[f] = <<f>>
      BY <2>1, UnitsOfIs DEF AnyFrame
    <3>2. Encoded(<<f>>) = FlatImages(CodeOf, <<f>>)
      <4>1. <<f>> \in Seq(AnyFrame)
        OBVIOUS
      <4> QED BY <4>1, EncodedAre
    <3>3. FlatImages(CodeOf, <<f>>) = CodeOf[f]
      BY CodeMaps, WireJoins, FlatImagesOne
    <3> QED BY <3>1, <3>2, <3>3
  <2>2. CASE f \in ChunkFrame
    <3>1. F[f] = Pieces(f.stream, f.event.chunk)
      BY <2>2, UnitsOfIs DEF AnyFrame
    <3>2. f.stream \in Word /\ f.event.chunk \in Seq(Byte)
      BY <2>2, ChunkFrameType
    <3>3. CodeOf[f] = f.event.chunk
      BY <2>2, CodeIs
    <3> QED BY <3>1, <3>2, <3>3, PiecesEncoded
  <2> QED BY <2>1, <2>2 DEF AnyFrame
<1> QED BY <1>5, <1>6, <1>7, <1>8 DEF V, F, r

\* Payload taken byte by byte is encoded as it was in one piece.
LEMMA EncodedUnits ==
  ASSUME NEW q \in Seq(AnyFrame)
  PROVE  Encoded(Units(q)) = Encoded(q)
<1> DEFINE T == {k \in Nat : \A d \in Seq(AnyFrame) : Len(d) = k =>
                                Encoded(Units(d)) = Encoded(d)}
<1>1. 0 \in T
  <2> SUFFICES ASSUME NEW d \in Seq(AnyFrame), Len(d) = 0
               PROVE  Encoded(Units(d)) = Encoded(d)
    OBVIOUS
  <2>1. d = <<>>
    BY EmptySeq
  <2> QED BY <2>1, UnitsEmpty
<1>2. ASSUME NEW k \in Nat, k \in T
      PROVE  k + 1 \in T
  <2> SUFFICES ASSUME NEW d \in Seq(AnyFrame), Len(d) = k + 1
               PROVE  Encoded(Units(d)) = Encoded(d)
    OBVIOUS
  <2>1. d # <<>>
    BY EmptySeq
  <2> DEFINE e == Front(d)
             f == Last(d)
             u == Units(e)
             v == UnitsOf(AnyFrame)[f]
  <2>2. e \in Seq(AnyFrame) /\ f \in AnyFrame /\ d = Append(e, f)
    BY <2>1, FrontAndLast
  <2> HIDE DEF e, f
  <2>3. Len(e) \in Nat /\ Len(d) = Len(e) + 1
    BY <2>2, AppendType
  <2>4. Len(e) = k
    BY <2>3
  <2>5. Encoded(u) = Encoded(e)
    BY <1>2, <2>2, <2>4
  <2>6. /\ u \in Seq(Unit) /\ v \in Seq(Unit)
        /\ Units(d) = u \o v /\ Encoded(v) = CodeOf[f]
    BY <2>2, UnitsAppend
  <2>7. Seq(Unit) \subseteq Seq(AnyFrame)
    BY UnitFrame, SeqMonotonic
  <2> HIDE DEF u, v
  <2>8. u \in Seq(AnyFrame) /\ v \in Seq(AnyFrame)
    BY <2>6, <2>7
  <2>9. Encoded(u \o v) = Encoded(u) \o Encoded(v)
    BY <2>8, EncodedConcat
  <2>10. Encoded(d) = Encoded(e) \o CodeOf[f]
    BY <2>2, EncodedAppend
  <2> QED BY <2>5, <2>6, <2>9, <2>10
<1> HIDE DEF T
<1>3. Len(q) \in T
  BY <1>1, <1>2, SetInduction
<1> QED BY <1>3 DEF T

-----------------------------------------------------------------------------
\* Which units may follow one another.  What is left of a payload of n bytes is
\* the next n units; a header comes when nothing is left.
Left(stream, n) == IF n = 0 THEN {} ELSE {[stream |-> stream, remain |-> n]}
Due(f) == Left(f.stream, IF f.event.kind = "Data" THEN f.event.size ELSE 0)
Follows ==
    {<<{}, f, Due(f)>> : f \in HeaderUnit}
      \cup {<<Left(p[1], p[2] + 1), OneByte(p[1], p[3]), Left(p[1], p[2])>> :
               p \in Word \X Nat \X Byte}
\* A payload of which nothing is left is as good as none.
Payloads == [stream : Word, remain : Nat]
OneDebt == {{}} \cup {{p} : p \in Payloads}

LEMMA DebtOne ==
  ASSUME NEW s, NEW n \in Nat
  PROVE  /\ Debt({[stream |-> s, remain |-> n]}) = Left(s, n)
         /\ Debt(Left(s, n)) = Left(s, n)
<1> DEFINE p == [stream |-> s, remain |-> n]
<1>1. p.remain = n
  OBVIOUS
<1> HIDE DEF p
<1>2. Debt({}) = {}
  BY DEF Debt
<1>3. CASE n = 0
  <2>1. Debt({p}) = {}
    BY <1>1, <1>3 DEF Debt
  <2>2. Left(s, n) = {}
    BY <1>3 DEF Left
  <2> QED BY <1>2, <2>1, <2>2 DEF p
<1>4. CASE n # 0
  <2>1. Debt({p}) = {p}
    BY <1>1, <1>4 DEF Debt
  <2>2. Left(s, n) = {p}
    BY <1>4 DEF Left, p
  <2> QED BY <2>1, <2>2 DEF p
<1> QED BY <1>3, <1>4

LEMMA OneDebtIs ==
  ASSUME NEW o \in OneDebt, o # {}
  PROVE  \E s \in Word, n \in Nat :
            o = {[stream |-> s, remain |-> n]} /\ Debt(o) = Left(s, n)
<1>1. PICK p \in Payloads : o = {p}
  BY DEF OneDebt
<1>2. p.stream \in Word /\ p.remain \in Nat
      /\ p = [stream |-> p.stream, remain |-> p.remain]
  BY DEF Payloads
<1> QED BY <1>1, <1>2, DebtOne

LEMMA HeaderFollows ==
  ASSUME NEW f \in HeaderUnit
  PROVE  <<{}, f, Due(f)>> \in Follows
BY DEF Follows

LEMMA ByteFollows ==
  ASSUME NEW s \in Word, NEW n \in Nat, NEW b \in Byte
  PROVE  <<Left(s, n + 1), OneByte(s, b), Left(s, n)>> \in Follows
<1>1. <<s, n, b>> \in Word \X Nat \X Byte
  OBVIOUS
<1> QED BY <1>1 DEF Follows

LEMMA LeftIs ==
  ASSUME NEW s, NEW n \in Nat, NEW t, NEW m \in Nat
  PROVE  /\ Left(s, n) = {} <=> n = 0
         /\ n # 0 /\ Left(s, n) = Left(t, m) => s = t /\ n = m
<1> DEFINE p == [stream |-> s, remain |-> n]
           q == [stream |-> t, remain |-> m]
<1>1. p = q => s = t /\ n = m
  <2>1. p.stream = s /\ p.remain = n /\ q.stream = t /\ q.remain = m
    OBVIOUS
  <2> HIDE DEF p, q
  <2> QED BY <2>1
<1>2. Left(s, n) = IF n = 0 THEN {} ELSE {p}
  BY DEF Left
<1>3. Left(t, m) = IF m = 0 THEN {} ELSE {q}
  BY DEF Left
<1> HIDE DEF p, q
<1> QED BY <1>1, <1>2, <1>3

\* What comes next is a header, if nothing is left of a payload, and otherwise
\* the payload's next byte.
LEMMA FollowsHeader ==
  ASSUME NEW u, NEW v, <<{}, u, v>> \in Follows
  PROVE  u \in HeaderUnit /\ v = Due(u)
<1>1. CASE \E f \in HeaderUnit : <<{}, u, v>> = <<{}, f, Due(f)>>
  BY <1>1
<1>2. CASE \E p \in Word \X Nat \X Byte :
             <<{}, u, v>>
               = <<Left(p[1], p[2] + 1), OneByte(p[1], p[3]), Left(p[1], p[2])>>
  <2>1. PICK p \in Word \X Nat \X Byte : {} = Left(p[1], p[2] + 1)
    BY <1>2
  <2>2. p[2] \in Nat
    OBVIOUS
  <2>3. p[2] + 1 \in Nat /\ p[2] + 1 # 0
    BY <2>2
  <2> QED BY <2>1, <2>3, LeftIs
<1> QED BY <1>1, <1>2 DEF Follows

LEMMA FollowsByte ==
  ASSUME NEW s \in Word, NEW n \in Nat, NEW u, NEW v,
         <<Left(s, n + 1), u, v>> \in Follows
  PROVE  \E b \in Byte : u = OneByte(s, b) /\ v = Left(s, n)
<1> DEFINE o == Left(s, n + 1)
<1>0. n + 1 \in Nat /\ n + 1 # 0
  OBVIOUS
<1>1. o # {}
  BY <1>0, LeftIs
<1>2. CASE \E f \in HeaderUnit : <<o, u, v>> = <<{}, f, Due(f)>>
  <2> HIDE DEF o
  <2> QED BY <1>1, <1>2
<1>3. CASE \E p \in Word \X Nat \X Byte :
             <<o, u, v>>
               = <<Left(p[1], p[2] + 1), OneByte(p[1], p[3]), Left(p[1], p[2])>>
  <2> HIDE DEF o
  <2>1. PICK p \in Word \X Nat \X Byte :
             /\ o = Left(p[1], p[2] + 1)
             /\ u = OneByte(p[1], p[3]) /\ v = Left(p[1], p[2])
    BY <1>3
  <2>2. p[2] \in Nat /\ p[3] \in Byte
    OBVIOUS
  <2>3. p[2] + 1 \in Nat
    BY <2>2
  <2>4. s = p[1] /\ n + 1 = p[2] + 1
    BY <1>0, <2>1, <2>3, LeftIs DEF o
  <2>5. n = p[2]
    BY <2>2, <2>4
  <2> QED BY <2>1, <2>2, <2>4, <2>5
<1> QED BY <1>2, <1>3 DEF Follows

\* Payload written goes on with the units of its bytes.
LEMMA PathPieces ==
  ASSUME NEW q \in Seq(Unit), NEW s \in Word, NEW c \in Seq(Byte),
         NEW n \in Nat, Len(c) <= n, NEW o, Path(q, Follows, o, Left(s, n))
  PROVE  /\ q \o Pieces(s, c) \in Seq(Unit)
         /\ Path(q \o Pieces(s, c), Follows, o, Left(s, n - Len(c)))
<1> DEFINE Gone(d) == /\ q \o Pieces(s, d) \in Seq(Unit)
                      /\ Path(q \o Pieces(s, d), Follows, o, Left(s, n - Len(d)))
           T == {k \in Nat : \A d \in Seq(Byte) : Len(d) = k /\ k <= n => Gone(d)}
<1>1. 0 \in T
  <2> SUFFICES ASSUME NEW d \in Seq(Byte), Len(d) = 0
               PROVE  Gone(d)
    <3> HIDE DEF Gone
    <3> QED OBVIOUS
  <2>1. d = <<>>
    BY EmptySeq
  <2>2. q \o <<>> = q
    BY ConcatEmptySeq
  <2>3. n - Len(d) = n
    OBVIOUS
  <2>4. q \o Pieces(s, d) = q
    BY <2>1, <2>2, PiecesEmpty
  <2> QED BY <2>3, <2>4
<1>2. ASSUME NEW k \in Nat, k \in T
      PROVE  k + 1 \in T
  <2> SUFFICES ASSUME NEW d \in Seq(Byte), Len(d) = k + 1, k + 1 <= n
               PROVE  Gone(d)
    <3> HIDE DEF Gone
    <3> QED OBVIOUS
  <2>1. d # <<>>
    BY EmptySeq
  <2> DEFINE e == Front(d)
             b == Last(d)
             p == Pieces(s, e)
             u == OneByte(s, b)
             r == q \o p
  <2>2. e \in Seq(Byte) /\ b \in Byte /\ d = Append(e, b)
    BY <2>1, FrontAndLast
  <2> HIDE DEF e, b
  <2>3. Len(e) \in Nat /\ Len(d) = Len(e) + 1
    BY <2>2, AppendType
  <2>4. Len(e) = k /\ k <= n
    BY <2>3
  <2>5. Gone(e)
    <3> HIDE DEF Gone
    <3> QED BY <1>2, <2>2, <2>4
  <2> DEFINE m == n - (k + 1)
  <2>6. m \in Nat /\ n - Len(e) = m + 1 /\ n - Len(d) = m
    BY <2>4
  <2> HIDE DEF m
  <2>7. r \in Seq(Unit) /\ Path(r, Follows, o, Left(s, m + 1))
    BY <2>5, <2>6
  <2>8. <<Left(s, m + 1), u, Left(s, m)>> \in Follows
    BY <2>2, <2>6, ByteFollows
  <2>9. u \in ByteUnit /\ u \in Unit
    BY <2>2, OneByteType DEF Unit
  <2>10. p \in Seq(ByteUnit)
    BY <2>2, PiecesType
  <2>11. p \in Seq(Unit)
    <3>1. ByteUnit \subseteq Unit
      BY DEF Unit
    <3> QED BY <2>10, <3>1, SeqMonotonic
  <2>12. Pieces(s, d) = Append(p, u)
    BY <2>2, PiecesAppend
  <2> HIDE DEF p, u
  <2>13. q \o Append(p, u) = Append(r, u)
    BY <2>9, <2>11
  <2> HIDE DEF r
  <2>14. Append(r, u) \in Seq(Unit) /\ Path(Append(r, u), Follows, o, Left(s, m))
    BY <2>7, <2>8, <2>9, AppendType, PathAppend
  <2> QED BY <2>6, <2>12, <2>13, <2>14
<1> HIDE DEF T
<1>3. Len(c) \in T
  BY <1>1, <1>2, SetInduction
<1>4. Gone(c)
  <2> HIDE DEF Gone
  <2> QED BY <1>3 DEF T
<1> QED BY <1>4

\* A unit is not without bytes.
LEMMA UnitCode ==
  ASSUME NEW q \in Seq(Unit), q # <<>>
  PROVE  /\ Head(q) \in Unit /\ Tail(q) \in Seq(Unit) /\ q = <<Head(q)>> \o Tail(q)
         /\ CodeOf[Head(q)] \in Wire /\ CodeOf[Head(q)] # <<>>
         /\ Encoded(Tail(q)) \in Wire
         /\ Encoded(q) = CodeOf[Head(q)] \o Encoded(Tail(q))
<1> DEFINE u == Head(q)
           t == Tail(q)
<1>1. u \in Unit /\ t \in Seq(Unit) /\ q = <<u>> \o t
  BY HeadAndTail
<1>2. Seq(Unit) \subseteq Seq(AnyFrame)
  BY UnitFrame, SeqMonotonic
<1>3. Encoded(q) = CodeOf[u] \o Encoded(t)
  BY <1>2, EncodedHead
<1>4. Encoded(t) \in Wire
  BY <1>1, <1>2, EncodedType
<1> HIDE DEF u, t
<1>5. CodeOf[u] \in Wire
  BY <1>1, UnitFrame, CodeMaps DEF Maps
<1>6. CodeOf[u] # <<>>
  <2>1. CASE u \in HeaderUnit
    <3>1. CodeOf[u] = HeaderBytes(u) /\ Len(HeaderBytes(u)) = HeaderLen
      BY <2>1, CodeIs, HeaderBytesType
    <3>2. HeaderLen # 0 /\ Len(<<>>) = 0
      BY CodecAssumption
    <3> QED BY <3>1, <3>2
  <2>2. CASE u \in ByteUnit
    <3>1. PICK p \in Word \X Byte : u = OneByte(p[1], p[2])
      BY <2>2 DEF ByteUnit
    <3>2. u \in ChunkFrame /\ u.event.chunk = <<p[2]>>
      BY <3>1, OneByteType
    <3>3. CodeOf[u] = <<p[2]>>
      BY <3>2, CodeIs
    <3> QED BY <3>3
  <2> QED BY <1>1, <2>1, <2>2 DEF Unit
<1> QED BY <1>1, <1>3, <1>4, <1>5, <1>6 DEF u, t

LEMMA NoUnits ==
  ASSUME NEW q \in Seq(Unit)
  PROVE  Encoded(q) = <<>> <=> q = <<>>
<1>1. ASSUME q # <<>> PROVE Encoded(q) # <<>>
  <2> DEFINE a == CodeOf[Head(q)]
             b == Encoded(Tail(q))
  <2>1. a \in Wire /\ a # <<>> /\ b \in Wire /\ Encoded(q) = a \o b
    BY <1>1, UnitCode
  <2> HIDE DEF a, b
  <2>2. Len(a \o b) = Len(a) + Len(b) /\ Len(a) \in Nat /\ Len(b) \in Nat
    BY <2>1, WireConcat
  <2>3. Len(a) # 0
    BY <2>1, EmptySeq DEF Wire
  <2>4. Len(a \o b) # 0 /\ Len(<<>>) = 0
    BY <2>2, <2>3
  <2> QED BY <2>1, <2>4
<1> QED BY <1>1, EncodedEmpty

\* While a payload is being read, the next byte is one of its bytes.
ByteTaken(q, s, n, o, one, x) ==
    \E b \in Byte :
       /\ one = <<b>> /\ Tail(q) \in Seq(Unit)
       /\ q = <<OneByte(s, b)>> \o Tail(q) /\ x = Encoded(Tail(q))
       /\ Path(Tail(q), Follows, Left(s, n), o)
LEMMA NextByte ==
  ASSUME NEW q \in Seq(Unit), NEW s \in Word, NEW m \in Nat \ {0}, NEW o,
         Path(q, Follows, Left(s, m), o),
         NEW one \in Wire, Len(one) = 1, NEW x \in Wire, one \o x = Encoded(q)
  PROVE  ByteTaken(q, s, m - 1, o, one, x)
<1> DEFINE n == m - 1
           t == Tail(q)
           u == Head(q)
           a == CodeOf[u]
           y == Encoded(t)
<1>2. q # <<>>
  <2>1. Len(one \o x) = Len(one) + Len(x) /\ Len(x) \in Nat
    BY WireConcat
  <2>2. Len(one \o x) # 0 /\ Len(<<>>) = 0
    BY <2>1
  <2>3. Encoded(q) # <<>>
    BY <2>2
  <2> QED BY <2>3, NoUnits
<1>3. /\ u \in Unit /\ t \in Seq(Unit) /\ q = <<u>> \o t
      /\ y \in Wire /\ Encoded(q) = a \o y
  BY <1>2, UnitCode
<1>1. n \in Nat /\ n + 1 = m
  OBVIOUS
<1> HIDE DEF n
<1>4. PICK v : <<Left(s, n + 1), u, v>> \in Follows /\ Path(t, Follows, v, o)
  BY <1>1, <1>2, PathTail
<1> HIDE DEF t, u
<1>5. PICK c \in Byte : u = OneByte(s, c) /\ v = Left(s, n)
  BY <1>1, <1>4, FollowsByte
<1>6. u \in ChunkFrame /\ u.event.chunk = <<c>>
  BY <1>5, OneByteType
<1>7. a = <<c>>
  BY <1>6, CodeIs
<1>8. a \in Wire /\ Len(a) = 1
  <2>1. <<c>> \in Seq(WireByte)
    BY DEF WireByte
  <2> QED BY <1>7, <2>1 DEF Wire
<1> HIDE DEF a, y
<1>9. one = a /\ x = y
  <2>1. one \o x = a \o y
    BY <1>3
  <2> QED BY <1>3, <1>8, <2>1, SameStart
<1> QED BY <1>3, <1>4, <1>5, <1>7, <1>9 DEF t, y, n, ByteTaken

\* What next_chunk takes of a payload is that many of its bytes, and what is then
\* left is the payload's rest.
LEMMA NextBytes ==
  ASSUME NEW q \in Seq(Unit), NEW s \in Word, NEW n \in Nat, NEW o,
         Path(q, Follows, Left(s, n), o),
         NEW c \in Wire, Len(c) <= n, NEW x \in Wire, c \o x = Encoded(q)
  PROVE  /\ c \in Seq(Byte)
         /\ \E rest \in Seq(Unit) :
               /\ q = Pieces(s, c) \o rest /\ x = Encoded(rest)
               /\ Path(rest, Follows, Left(s, n - Len(c)), o)
<1> DEFINE Taken(d, y) ==
               /\ d \in Seq(Byte)
               /\ \E rest \in Seq(Unit) :
                     /\ q = Pieces(s, d) \o rest /\ y = Encoded(rest)
                     /\ Path(rest, Follows, Left(s, n - Len(d)), o)
           Starts(d, y) == d \o y = Encoded(q)
           T == {k \in Nat : \A d \in Wire, y \in Wire :
                    Len(d) = k /\ k <= n /\ Starts(d, y) => Taken(d, y)}
<1>1. 0 \in T
  <2> SUFFICES ASSUME NEW d \in Wire, NEW y \in Wire, Len(d) = 0, Starts(d, y)
               PROVE  Taken(d, y)
    <3> HIDE DEF Taken, Starts
    <3> QED OBVIOUS
  <2>1. d = <<>>
    BY EmptySeq DEF Wire
  <2>2. d \o y = y
    BY <2>1, WireJoins DEF Concatenates
  <2>3. Pieces(s, d) \o q = q
    <3>1. <<>> \o q = q
      BY ConcatEmptySeq
    <3> QED BY <2>1, <3>1, PiecesEmpty
  <2>4. n - Len(d) = n
    OBVIOUS
  <2>5. d \in Seq(Byte)
    BY <2>1
  <2> QED BY <2>2, <2>3, <2>4, <2>5
<1>2. ASSUME NEW k \in Nat, k \in T
      PROVE  k + 1 \in T
  <2> SUFFICES ASSUME NEW d \in Wire, NEW y \in Wire, Len(d) = k + 1,
                      k + 1 <= n, Starts(d, y)
               PROVE  Taken(d, y)
    <3> HIDE DEF Taken, Starts
    <3> QED OBVIOUS
  <2>0. d \in Seq(WireByte) /\ d # <<>>
    BY EmptySeq DEF Wire
  <2> DEFINE e == Front(d)
             b == Last(d)
             one == <<b>>
             z == one \o y
             p == Pieces(s, e)
             u == OneByte(s, b)
  <2>1. e \in Seq(WireByte) /\ b \in WireByte /\ d = Append(e, b)
    BY <2>0, FrontAndLast
  <2> HIDE DEF e, b
  <2>2. Len(e) \in Nat /\ Len(d) = Len(e) + 1 /\ e \in Wire
    BY <2>1, AppendType DEF Wire
  <2>3. Len(e) = k /\ k <= n
    BY <2>2
  <2>4. one \in Wire /\ Len(one) = 1 /\ one[1] = b /\ d = e \o one
    BY <2>1 DEF Wire
  <2> HIDE DEF one
  <2>5. z \in Wire /\ (e \o one) \o y = e \o z
    <3>1. z \in Wire
      BY <2>4, WireConcat
    <3> QED BY <2>2, <2>4, <3>1, WireJoins DEF Concatenates
  <2> HIDE DEF z
  <2>6. Starts(e, z)
    BY <2>4, <2>5
  <2>7. Taken(e, z)
    <3> HIDE DEF Taken, Starts
    <3> QED BY <1>2, <2>2, <2>3, <2>5, <2>6
  <2> DEFINE m == n - (k + 1)
  <2>8. m \in Nat /\ n - Len(e) = m + 1 /\ n - Len(d) = m
    BY <2>3
  <2> HIDE DEF m
  <2>9. PICK r \in Seq(Unit) :
             /\ q = p \o r /\ z = Encoded(r) /\ Path(r, Follows, Left(s, m + 1), o)
    BY <2>7, <2>8
  <2>10. e \in Seq(Byte)
    BY <2>7
  <2> DEFINE t == Tail(r)
  <2>11. one \o y = Encoded(r)
    BY <2>9 DEF z
  <2>12. /\ b \in Byte /\ t \in Seq(Unit)
         /\ r = <<u>> \o t /\ y = Encoded(t)
         /\ Path(t, Follows, Left(s, m), o)
    <3> DEFINE j == m + 1
    <3>1. Path(r, Follows, Left(s, j), o)
      BY <2>9
    <3>4. j \in Nat \ {0} /\ j - 1 = m
      BY <2>8
    <3>5. /\ m \in Nat /\ s \in Word /\ r \in Seq(Unit) /\ y \in Wire
          /\ one \in Wire /\ Len(one) = 1
      BY <2>4, <2>8
    <3> HIDE DEF j, t
    <3>6. ByteTaken(r, s, j - 1, o, one, y)
      BY <2>11, <3>1, <3>4, <3>5, NextByte
    <3>2. PICK c1 \in Byte :
             /\ one = <<c1>> /\ t \in Seq(Unit)
             /\ r = <<OneByte(s, c1)>> \o t /\ y = Encoded(t)
             /\ Path(t, Follows, Left(s, m), o)
      BY <3>4, <3>6 DEF ByteTaken, t
    <3>3. c1 = b
      BY <2>4, <3>2
    <3> QED BY <3>2, <3>3
  <2> HIDE DEF t
  <2>13. d \in Seq(Byte) /\ Pieces(s, d) = Append(p, u)
    BY <2>1, <2>10, <2>12, PiecesAppend
  <2>14. p \in Seq(Unit)
    <3>1. ByteUnit \subseteq Unit
      BY DEF Unit
    <3> QED BY <2>10, <3>1, PiecesType, SeqMonotonic
  <2>15. u \in Unit
    BY <2>12, OneByteType DEF Unit
  <2> HIDE DEF p, u
  <2>16. p \o (<<u>> \o t) = Append(p, u) \o t
    <3>1. <<u>> \in Seq(Unit)
      BY <2>15
    <3>2. Append(p, u) = p \o <<u>>
      BY <2>14, <2>15
    <3>3. Concatenates(Seq(Unit))
      BY SeqJoins
    <3> DEFINE a == <<u>>
               Q == Seq(Unit)
    <3>4. a \in Q /\ t \in Q /\ p \in Q /\ Concatenates(Q) /\ Append(p, u) = p \o a
      BY <2>12, <2>14, <3>1, <3>2, <3>3
    <3> HIDE DEF a, Q
    <3>5. (p \o a) \o t = p \o (a \o t)
      BY <3>4 DEF Concatenates
    <3> QED BY <3>4, <3>5 DEF a
  <2>17. q = Pieces(s, d) \o t
    BY <2>9, <2>12, <2>13, <2>16
  <2> QED BY <2>8, <2>12, <2>13, <2>17
<1> HIDE DEF T
<1>3. Len(c) \in T
  <2>1. Len(c) \in Nat
    BY DEF Wire
  <2> QED BY <1>1, <1>2, <2>1, SetInduction
<1>4. Taken(c, x)
  <2>1. Starts(c, x)
    OBVIOUS
  <2> HIDE DEF Taken, Starts
  <2> QED BY <1>3, <2>1 DEF T
<1> QED BY <1>4

\* When no payload is left, the next bytes are a header.
LEMMA NextHead ==
  ASSUME NEW q \in Seq(Unit), q # <<>>, NEW o, Path(q, Follows, {}, o)
  PROVE  \E f \in HeaderUnit, rest \in Seq(Unit) :
            /\ q = <<f>> \o rest /\ Path(rest, Follows, Due(f), o)
            /\ Encoded(q) = HeaderBytes(f) \o Encoded(rest)
            /\ Encoded(rest) \in Wire
<1> DEFINE u == Head(q)
           t == Tail(q)
<1>1. /\ t \in Seq(Unit) /\ q = <<u>> \o t
      /\ Encoded(t) \in Wire /\ Encoded(q) = CodeOf[u] \o Encoded(t)
  BY UnitCode
<1>2. PICK v : <<{}, u, v>> \in Follows /\ Path(t, Follows, v, o)
  BY PathTail
<1> HIDE DEF u, t
<1>3. u \in HeaderUnit /\ v = Due(u)
  BY <1>2, FollowsHeader
<1>4. CodeOf[u] = HeaderBytes(u)
  BY <1>3, CodeIs
<1> QED BY <1>1, <1>2, <1>3, <1>4

\* Header::read of a header's bytes finds the header, and nothing else.
LEMMA HeaderFound ==
  ASSUME NEW f \in HeaderUnit, NEW x \in Wire
  PROVE  HeadersIn(HeaderBytes(f) \o x) = {ToHeader(f)}
<1> DEFINE octets == WriteHeader(ToHeader(f))
           h == HeaderBytes(f)
           bytes == h \o x
<1>1. /\ ReadHeader(octets) = ToHeader(f)
      /\ h \in Wire /\ Len(h) = HeaderLen
      /\ \A k \in 1..HeaderLen :
            h[k] = HeaderByte(octets, k) /\ h[k] \in HeadByte
  BY HeaderBytesType
<1> HIDE DEF octets, h
<1>2. HeaderLen \in Nat \ {0}
  BY CodecAssumption
<1>3. \A k \in 1..HeaderLen : bytes[k] = h[k]
  <2>1. h \in Seq(WireByte) /\ x \in Seq(WireByte)
    BY <1>1 DEF Wire
  <2>2. \A k \in 1..Len(h) + Len(x) : bytes[k] = IF k <= Len(h) THEN h[k] ELSE x[k - Len(h)]
    BY <2>1, ConcatProperties
  <2>3. Len(h) \in Nat /\ Len(x) \in Nat
    BY <2>1
  <2> HIDE DEF bytes
  <2>4. \A k \in 1..Len(h) : bytes[k] = h[k]
    BY <2>2, <2>3
  <2> QED BY <1>1, <2>4
<1> HIDE DEF bytes
<1> DEFINE b1 == bytes[1]
<1>4. 1 \in 1..HeaderLen
  BY <1>2
<1>5. b1 = HeaderByte(octets, 1) /\ b1 \in HeadByte
  BY <1>1, <1>3, <1>4
<1>6. b1 \notin Byte
  BY <1>5, CodecAssumption
<1>7. b1.octets = octets
  <2> HIDE DEF b1
  <2> QED BY <1>5 DEF HeaderByte
<1>8. \A k \in 1..HeaderLen : bytes[k] = HeaderByte(b1.octets, k)
  <2> HIDE DEF b1
  <2> QED BY <1>1, <1>3, <1>7
<1> DEFINE B == {b \in {bytes[1]} \ Byte :
                    \A k \in 1..HeaderLen : bytes[k] = HeaderByte(b.octets, k)}
<1>9. B = {b1}
  BY <1>6, <1>8
<1>10. HeadersIn(bytes) = {ReadHeader(byte.octets) : byte \in B}
  BY DEF HeadersIn
<1> HIDE DEF B, b1
<1>11. HeadersIn(bytes) = {ReadHeader(octets)}
  BY <1>7, <1>9, <1>10
<1> QED BY <1>1, <1>11 DEF bytes, h

-----------------------------------------------------------------------------
\* FrameReader::next_frame.
LEMMA PayloadRead ==
  ASSUME NEW r \in OkReader, r.chunks # <<>>, NEW s \in Word, NEW m \in Nat,
         NEW q \in Seq(Unit), NEW o, Path(q, Follows, Left(s, m), o),
         NEW more \in Wire, FlattenSeq(r.chunks) \o more = Encoded(q)
  PROVE  LET c == NextChunk(r, m)
             after == TakeFront(r, Len(c))
         IN  /\ after \in OkReader
             /\ c \in Seq(Byte) /\ Len(c) <= m
             /\ \E rest \in Seq(Unit) :
                   /\ q = Pieces(s, c) \o rest
                   /\ FlattenSeq(after.chunks) \o more = Encoded(rest)
                   /\ Path(rest, Follows, Left(s, m - Len(c)), o)
<1> DEFINE h == Head(r.chunks)
           n == FrontLen(r, m)
           c == SubSeq(h, 1, n)
           after == TakeFront(r, n)
           got == FlattenSeq(r.chunks)
           left == FlattenSeq(after.chunks)
           x == left \o more
<1>1. h \in Seq(WireByte)
  BY OkReaderType, GotHead DEF Piece, Wire
<1>2. n \in Nat /\ n <= Len(h) /\ n <= m
  <2> HIDE DEF h
  <2>1. Len(h) \in Nat
    BY <1>1
  <2>2. n = IF m < Len(h) THEN m ELSE Len(h)
    BY DEF FrontLen, Smaller, h
  <2> QED BY <2>1, <2>2
<1> HIDE DEF n
<1>3. /\ after \in OkReader /\ c \in Wire /\ Len(c) = n /\ got = c \o left
  BY <1>2, TakeFrontEffect
<1>4. NextChunk(r, m) = c
  BY DEF NextChunk, View, n
<1> HIDE DEF c, after
<1>5. left \in Wire
  BY <1>3, OkReaderType
<1> HIDE DEF left, got
<1>6. x \in Wire /\ (c \o left) \o more = c \o x
  <2>1. x \in Wire
    BY <1>5, WireConcat
  <2> QED BY <1>3, <1>5, <2>1, WireJoins DEF Concatenates
<1> HIDE DEF x
<1>7. c \o x = Encoded(q)
  BY <1>3, <1>6 DEF got
<1>8. /\ c \in Seq(Byte)
      /\ \E rest \in Seq(Unit) :
            /\ q = Pieces(s, c) \o rest /\ x = Encoded(rest)
            /\ Path(rest, Follows, Left(s, m - Len(c)), o)
  <2>1. Len(c) <= m
    BY <1>2, <1>3
  <2> QED BY <1>3, <1>6, <1>7, <2>1, NextBytes
<1>9. TakeFront(r, Len(c)) = after
  BY <1>3 DEF after
<1>10. Len(c) <= m
  BY <1>2, <1>3
<1> QED BY <1>3, <1>4, <1>8, <1>9, <1>10 DEF x, left

HeaderTaken(q, r, more, o) ==
    \E f \in HeaderUnit, rest \in Seq(Unit) :
       /\ q = <<f>> \o rest
       /\ HeadersIn(FlattenSeq(r.chunks)) = {ToHeader(f)}
       /\ FlattenSeq(SkipHeader(r).chunks) \o more = Encoded(rest)
       /\ Path(rest, Follows, Due(f), o)
LEMMA HeaderRead ==
  ASSUME NEW r \in OkReader, r.len >= HeaderLen,
         NEW q \in Seq(Unit), NEW o, Path(q, Follows, {}, o),
         NEW more \in Wire, FlattenSeq(r.chunks) \o more = Encoded(q)
  PROVE  SkipHeader(r) \in OkReader /\ HeaderTaken(q, r, more, o)
<1> DEFINE after == SkipHeader(r)
           got == FlattenSeq(r.chunks)
           left == FlattenSeq(after.chunks)
           x == left \o more
<1>1. after \in OkReader
  BY SkipHeaderEffect
<1>2. PICK a \in Wire : Len(a) = HeaderLen /\ got = a \o left
  BY SkipHeaderEffect
<1> HIDE DEF after
<1>3. left \in Wire
  BY <1>1, OkReaderType
<1> HIDE DEF left, got
<1>4. x \in Wire /\ (a \o left) \o more = a \o x
  <2>1. x \in Wire
    BY <1>3, WireConcat
  <2> QED BY <1>2, <1>3, <2>1, WireJoins DEF Concatenates
<1> HIDE DEF x
<1>5. a \o x = Encoded(q)
  BY <1>2, <1>4 DEF got
<1>6. q # <<>>
  <2>1. Len(a \o x) = Len(a) + Len(x) /\ Len(x) \in Nat
    BY <1>2, <1>4, WireConcat
  <2>2. HeaderLen \in Nat \ {0}
    BY CodecAssumption
  <2>3. Len(a \o x) # 0 /\ Len(<<>>) = 0
    BY <1>2, <2>1, <2>2
  <2>4. Encoded(q) # <<>>
    BY <1>5, <2>3
  <2> QED BY <2>4, NoUnits
<1>7. PICK f \in HeaderUnit, rest \in Seq(Unit) :
         /\ q = <<f>> \o rest /\ Path(rest, Follows, Due(f), o)
         /\ Encoded(q) = HeaderBytes(f) \o Encoded(rest)
         /\ Encoded(rest) \in Wire
  BY <1>6, NextHead
<1> DEFINE h == HeaderBytes(f)
           y == Encoded(rest)
<1>8. h \in Wire /\ Len(h) = HeaderLen
  BY HeaderBytesType
<1>9. y \in Wire /\ a \o x = h \o y
  BY <1>5, <1>7
<1> HIDE DEF h, y
<1>10. a = h /\ x = y
  BY <1>2, <1>4, <1>8, <1>9, SameStart
<1>11. HeadersIn(HeaderBytes(f) \o left) = {ToHeader(f)}
  BY <1>3, HeaderFound
<1>12. HeadersIn(got) = {ToHeader(f)}
  BY <1>2, <1>10, <1>11 DEF h
<1> QED BY <1>1, <1>7, <1>10, <1>12 DEF after, got, x, y, left, HeaderTaken

\* A Data header's payload is pending from then on.
LEMMA PendingType ==
  ASSUME NEW f \in HeaderUnit
  PROVE  PendingPayload(f) \in OneDebt /\ Debt(PendingPayload(f)) = Due(f)
<1>1. f.stream \in Word /\ (f.event.kind = "Data" => f.event.size \in Nat)
  <2>1. f.stream \in Word
    BY HeaderUnitType
  <2>2. CASE f \in [stream : Word,
                    event : [kind : {"Data"}, flags : SUBSET Flag, size : Word]]
    BY <2>2 DEF Word
  <2>3. CASE f \notin [stream : Word,
                       event : [kind : {"Data"}, flags : SUBSET Flag, size : Word]]
    <3>1. f.event.kind # "Data"
      BY <2>3 DEF HeaderUnit, HeaderFrame, UnknownFrame
    <3> QED BY <2>1, <3>1
  <2> QED BY <2>1, <2>2, <2>3
<1>2. PendingPayload(f) \in OneDebt /\ Debt(PendingPayload(f)) = Due(f)
  <2>1. CASE f.event.kind = "Data"
    <3> DEFINE p == [stream |-> f.stream, remain |-> f.event.size]
    <3>1. PendingPayload(f) = {p}
      BY <2>1 DEF PendingPayload
    <3>2. p \in Payloads
      BY <1>1, <2>1 DEF Payloads
    <3>3. Debt({p}) = Left(f.stream, f.event.size)
      BY <1>1, <2>1, DebtOne
    <3> HIDE DEF p
    <3>4. {p} \in OneDebt
      BY <3>2 DEF OneDebt
    <3> QED BY <2>1, <3>1, <3>3, <3>4 DEF Due
  <2>2. CASE f.event.kind # "Data"
    <3>1. PendingPayload(f) = {} /\ Due(f) = {}
      BY <2>2 DEF PendingPayload, Due, Left
    <3> QED BY <3>1 DEF OneDebt, Debt
  <2> QED BY <2>1, <2>2
<1> QED BY <1>2

\* What is read of a header that was written is the frame, if its type is known,
\* and what it announces is pending.
LEMMA HeaderMeans ==
  ASSUME NEW f \in HeaderUnit
  PROVE  LET header == ToHeader(f) IN
         /\ Known(header.type) =>
               /\ FromHeader(header) = f
               /\ PendingPayload(f) \in OneDebt
               /\ Debt(PendingPayload(f)) = Due(f)
         /\ ~Known(header.type) => f.event.kind = "Unknown"
<1>1. /\ Known(ToHeader(f).type) <=> f.event.kind # "Unknown"
      /\ f \in HeaderFrame => FromHeader(ToHeader(f)) = f
  BY HeaderFits DEF HeaderUnit
<1>2. f \in UnknownFrame => f.event.kind = "Unknown"
  BY DEF UnknownFrame
<1>3. Known(ToHeader(f).type) => FromHeader(ToHeader(f)) = f
  BY <1>1, <1>2 DEF HeaderUnit
<1>4. PendingPayload(f) \in OneDebt /\ Debt(PendingPayload(f)) = Due(f)
  BY PendingType
<1> QED BY <1>1, <1>3, <1>4

\* What is still to be read: the bytes and, given what the reader waits for, the
\* units they are.
Ahead(q, bytes, debts, o) ==
    bytes = Encoded(q) /\ Path(q, Follows, Debt(debts), o)

\* What next_frame reads is the beginning of it, and the rest stays to be read.
FrameTaken(q, more, o) ==
    \E read \in Seq(Unit), rest \in Seq(Unit) :
       /\ q = read \o rest /\ yielded' = yielded \o read
       /\ \/ /\ result' = "open"
             /\ Ahead(rest, FlattenSeq(reader'.chunks) \o more, pending', o)
          \/ /\ result' = "error"
             /\ rest # <<>> /\ rest[1].event.kind = "Unknown"
LEMMA NextFrameEffect ==
  ASSUME NEW STATE r, r \in OkReader, NextFrame(r),
         pending \in OneDebt, result = "open", yielded \in Seq(Unit),
         NEW q \in Seq(Unit), NEW o, NEW STATE more, more \in Wire,
         Ahead(q, FlattenSeq(r.chunks) \o more, pending, o)
  PROVE  /\ reader' \in OkReader /\ pending' \in OneDebt
         /\ FrameTaken(q, more, o)
<1>0. /\ FlattenSeq(r.chunks) \o more = Encoded(q)
      /\ Path(q, Follows, Debt(pending), o)
  BY DEF Ahead
<1>1. CASE NextPayload(r)
  <2>1. PICK s \in Word, m \in Nat :
           pending = {[stream |-> s, remain |-> m]} /\ Debt(pending) = Left(s, m)
    BY <1>1, OneDebtIs DEF NextPayload
  <2> DEFINE p == [stream |-> s, remain |-> m]
             c == NextChunk(r, m)
             k == Len(c)
             after == TakeFront(r, k)
             units == Pieces(s, c)
  <2>2. p.stream = s /\ p.remain = m
    OBVIOUS
  <2>3. r.chunks # <<>>
    BY <1>1 DEF NextPayload, PayloadWaits
  <2>4. /\ after \in OkReader /\ c \in Seq(Byte) /\ k <= m
        /\ \E rest \in Seq(Unit) :
              /\ q = units \o rest
              /\ FlattenSeq(after.chunks) \o more = Encoded(rest)
              /\ Path(rest, Follows, Left(s, m - k), o)
    <3>1. Path(q, Follows, Left(s, m), o)
      BY <1>0, <2>1
    <3> QED BY <1>0, <2>3, <3>1, PayloadRead
  <2>5. /\ reader' = after
        /\ pending' = IF m = k THEN {} ELSE {[p EXCEPT !.remain = @ - k]}
        /\ yielded' = yielded \o
              [i \in DOMAIN c |-> Frame(s, DataChunk(<<c[i]>>))]
        /\ result' = result
    BY <1>1, <2>1, <2>2 DEF NextPayload
  <2>6. yielded' = yielded \o units
    BY <2>5 DEF Pieces, OneByte
  <2>7. k \in Nat /\ units \in Seq(Unit)
    <3>1. units \in Seq(ByteUnit)
      BY <2>4, PiecesType
    <3>2. ByteUnit \subseteq Unit
      BY DEF Unit
    <3> QED BY <2>4, <3>1, <3>2, SeqMonotonic
  <2> HIDE DEF c, k, after, units
  <2> DEFINE n == m - k
  <2>8. n \in Nat /\ (n = 0 <=> m = k)
    BY <2>4, <2>7
  <2>9. pending' = Left(s, n)
    <3>1. [p EXCEPT !.remain = @ - k] = [stream |-> s, remain |-> n]
      OBVIOUS
    <3> HIDE DEF p, n
    <3> QED BY <2>5, <2>8, <3>1 DEF Left
  <2> HIDE DEF p, n
  <2>10. pending' \in OneDebt /\ Debt(pending') = Left(s, n)
    <3>1. Debt(Left(s, n)) = Left(s, n)
      BY <2>8, DebtOne
    <3>2. [stream |-> s, remain |-> n] \in Payloads
      BY <2>8 DEF Payloads
    <3>3. Left(s, n) \in OneDebt
      BY <3>2 DEF Left, OneDebt
    <3> QED BY <2>9, <3>1, <3>3
  <2>11. PICK rest \in Seq(Unit) :
           /\ q = units \o rest
           /\ FlattenSeq(after.chunks) \o more = Encoded(rest)
           /\ Path(rest, Follows, Left(s, n), o)
    BY <2>4 DEF n
  <2>12. Ahead(rest, FlattenSeq(reader'.chunks) \o more, pending', o)
    BY <2>5, <2>10, <2>11 DEF Ahead
  <2>13. result' = "open" /\ reader' \in OkReader
    BY <2>4, <2>5
  <2> QED BY <2>6, <2>7, <2>10, <2>11, <2>12, <2>13 DEF FrameTaken
<1>2. CASE NextHeader(r)
  <2>1. pending = {} /\ ~HeaderWaits(r) /\ reader' = SkipHeader(r)
    BY <1>2 DEF NextHeader
  <2>2. r.len >= HeaderLen
    <3>1. r.len \in Nat /\ HeaderLen \in Nat
      BY OkReaderType, CodecAssumption
    <3> QED BY <2>1, <3>1 DEF HeaderWaits
  <2>3. Debt(pending) = {} /\ pending \in OneDebt
    BY <2>1 DEF Debt, OneDebt
  <2>4. SkipHeader(r) \in OkReader /\ HeaderTaken(q, r, more, o)
    <3>1. Path(q, Follows, {}, o)
      BY <1>0, <2>3
    <3> QED BY <1>0, <2>2, <3>1, HeaderRead
  <2>5. PICK f \in HeaderUnit, rest \in Seq(Unit) :
           /\ q = <<f>> \o rest
           /\ HeadersIn(FlattenSeq(r.chunks)) = {ToHeader(f)}
           /\ FlattenSeq(SkipHeader(r).chunks) \o more = Encoded(rest)
           /\ Path(rest, Follows, Due(f), o)
    BY <2>4 DEF HeaderTaken
  <2> DEFINE header == ToHeader(f)
  <2>6. /\ Known(header.type) =>
              /\ FromHeader(header) = f /\ PendingPayload(f) \in OneDebt
              /\ Debt(PendingPayload(f)) = Due(f)
        /\ ~Known(header.type) => f.event.kind = "Unknown"
    BY HeaderMeans
  <2> HIDE DEF header
  <2>7. HeadersIn(FlattenSeq(r.chunks)) = {header}
    BY <2>5 DEF header
  <2>8. \/ /\ Known(header.type)
           /\ pending' = PendingPayload(FromHeader(header))
           /\ yielded' = Append(yielded, FromHeader(header))
           /\ result' = result
        \/ /\ ~Known(header.type) /\ result' = "error"
           /\ pending' = pending /\ yielded' = yielded
    BY <1>2, <2>7 DEF NextHeader
  <2>9. f \in Unit
    BY DEF Unit
  <2> DEFINE one == <<f>>
  <2>10. one \in Seq(Unit) /\ one # <<>>
    BY <2>9
  <2>11. CASE Known(header.type)
    <3>1. pending' = PendingPayload(f) /\ yielded' = Append(yielded, f)
          /\ result' = "open"
      BY <2>6, <2>8, <2>11
    <3>2. Append(yielded, f) = yielded \o one
      BY <2>9
    <3>3. Ahead(rest, FlattenSeq(reader'.chunks) \o more, pending', o)
      BY <2>1, <2>5, <2>6, <2>11, <3>1 DEF Ahead
    <3>4. q = one \o rest
      BY <2>5
    <3> HIDE DEF one
    <3> QED BY <2>1, <2>4, <2>6, <2>10, <2>11, <3>1, <3>2, <3>3, <3>4 DEF FrameTaken
  <2>12. CASE ~Known(header.type)
    <3>1. <<>> \in Seq(Unit) /\ <<>> \o q = q /\ yielded \o <<>> = yielded
      BY ConcatEmptySeq
    <3>2. q # <<>> /\ q[1] = f
      <4>1. one \o rest # <<>> /\ (one \o rest)[1] = f
        BY <2>9
      <4> QED BY <2>5, <4>1
    <3>3. result' = "error" /\ pending' = pending /\ yielded' = yielded
          /\ f.event.kind = "Unknown"
      BY <2>6, <2>8, <2>12
    <3>4. q = <<>> \o q /\ yielded' = yielded \o <<>>
      BY <3>1, <3>3
    <3> QED BY <2>1, <2>3, <2>4, <3>1, <3>2, <3>3, <3>4 DEF FrameTaken
  <2> QED BY <2>11, <2>12
<1> QED BY <1>1, <1>2 DEF NextFrame

-----------------------------------------------------------------------------
\* FrameWriter::write.
LEMMA WrittenEffect ==
  ASSUME NEW fresh, NEW w \in OkWriter(fresh), NEW f \in AnyFrame
  PROVE  /\ Written(w, f) \in OkWriter(fresh)
         /\ BytesIn(Written(w, f).queue) = BytesIn(w.queue) \o CodeOf[f]
         /\ CodeOf[f] \in Wire
<1>1. CASE f \in HeaderUnit
  <2>1. f.event.kind # "DataChunk" /\ HeaderBytes(f) \in Wire
    BY <1>1, HeaderUnitType, HeaderBytesType
  <2>2. CodeOf[f] = HeaderBytes(f)
    BY <1>1, CodeIs
  <2>3. Written(w, f) = WriteBytes(w, HeaderBytes(f))
    BY <2>1 DEF Written
  <2> QED BY <2>1, <2>2, <2>3, WriteBytesEffect
<1>2. CASE f \in ChunkFrame
  <2>1. f.event.kind = "DataChunk" /\ f.event.chunk \in Wire
    BY <1>2, ChunkFrameType, ByteWire
  <2>2. CodeOf[f] = f.event.chunk
    BY <1>2, CodeIs
  <2>3. Written(w, f) = WriteSlice(w, f.event.chunk)
    BY <2>1 DEF Written
  <2> QED BY <2>1, <2>2, <2>3, WriteSliceEffect
<1> QED BY <1>1, <1>2 DEF AnyFrame

\* A frame that the writer accepts may follow.
LEMMA WriteFollows ==
  ASSUME NEW debts \in OneDebt, NEW f \in AnyFrame, WriterAccepts(debts, f),
         NEW q \in Seq(Unit), NEW o, Path(q, Follows, o, Debt(debts))
  PROVE  LET after == WriterOwes(debts, f)
             more == q \o UnitsOf(AnyFrame)[f]
         IN  /\ after \in OneDebt /\ more \in Seq(Unit)
             /\ Path(more, Follows, o, Debt(after))
<1> DEFINE after == WriterOwes(debts, f)
           more == q \o UnitsOf(AnyFrame)[f]
<1>1. CASE f \in HeaderUnit
  <2>1. f.event.kind # "DataChunk"
    BY <1>1, HeaderUnitType
  <2>2. debts = {}
    <3>1. ASSUME debts # {} PROVE FALSE
      <4>1. PICK p \in Payloads : debts = {p}
        BY <3>1 DEF OneDebt
      <4>2. f.event.kind = "DataChunk"
        BY <3>1, <4>1 DEF WriterAccepts
      <4> QED BY <2>1, <4>2
    <3> QED BY <3>1
  <2>3. after = PendingPayload(f)
    <3>1. CASE f.event.kind = "Data"
      BY <3>1 DEF WriterOwes, PendingPayload
    <3>2. CASE f.event.kind # "Data"
      BY <2>1, <2>2, <3>2 DEF WriterOwes, PendingPayload
    <3> QED BY <3>1, <3>2
  <2>4. after \in OneDebt /\ Debt(after) = Due(f)
    BY <1>1, <2>3, PendingType
  <2>5. Debt(debts) = {}
    BY <2>2 DEF Debt
  <2>6. f \in Unit
    BY <1>1 DEF Unit
  <2>7. <<Debt(debts), f, Due(f)>> \in Follows
    BY <1>1, <2>5, HeaderFollows
  <2>8. Append(q, f) \in Seq(Unit) /\ Path(Append(q, f), Follows, o, Due(f))
    BY <2>6, <2>7, AppendType, PathAppend
  <2>9. more = Append(q, f)
    <3>1. UnitsOf(AnyFrame)[f] = <<f>>
      BY <1>1, UnitsOfIs DEF AnyFrame
    <3>2. q \o <<f>> = Append(q, f)
      BY <2>6
    <3> QED BY <3>1, <3>2
  <2> HIDE DEF more, after
  <2>10. Path(more, Follows, o, Debt(after))
    BY <2>4, <2>8, <2>9
  <2>11. after \in OneDebt /\ more \in Seq(Unit)
    BY <2>4, <2>8, <2>9
  <2> QED BY <2>10, <2>11 DEF more, after
<1>2. CASE f \in ChunkFrame
  <2> DEFINE c == f.event.chunk
             k == Len(c)
  <2>1. f.event.kind = "DataChunk" /\ c \in Seq(Byte)
    BY <1>2, ChunkFrameType
  <2>2. debts # {}
    BY <2>1 DEF WriterAccepts
  <2>3. PICK s \in Word, n \in Nat :
           debts = {[stream |-> s, remain |-> n]} /\ Debt(debts) = Left(s, n)
    BY <2>2, OneDebtIs
  <2> DEFINE p == [stream |-> s, remain |-> n]
             left == [stream |-> s, remain |-> n - k]
  <2>4. p.stream = s /\ p.remain = n /\ [p EXCEPT !.remain = @ - k] = left
    OBVIOUS
  <2>5. f.stream = s /\ k <= n
    BY <2>2, <2>3, <2>4 DEF WriterAccepts
  <2>6. k \in Nat
    BY <2>1
  <2>7. after = {[d EXCEPT !.remain = @ - k] : d \in {e \in debts : e.remain > k}}
    BY <2>1 DEF WriterOwes
  <2> HIDE DEF c, k, left, p
  <2> DEFINE m == n - k
  <2>8. m \in Nat /\ (m = 0 <=> ~(n > k))
    BY <2>5, <2>6
  <2>9. after = Left(s, m)
    <3>1. CASE n > k
      <4>1. {e \in {p} : e.remain > k} = {p}
        BY <2>4, <3>1
      <4>2. after = {left}
        BY <2>3, <2>4, <2>7, <4>1 DEF p
      <4> QED BY <2>8, <3>1, <4>2 DEF left, Left
    <3>2. CASE ~(n > k)
      <4>1. {e \in {p} : e.remain > k} = {}
        BY <2>4, <3>2
      <4>2. after = {}
        BY <2>3, <2>7, <4>1 DEF p
      <4> QED BY <2>8, <3>2, <4>2 DEF Left
    <3> QED BY <3>1, <3>2
  <2> HIDE DEF m, after
  <2>10. after \in OneDebt /\ Debt(after) = Left(s, m)
    <3>1. Debt(Left(s, m)) = Left(s, m)
      BY <2>8, DebtOne
    <3>2. [stream |-> s, remain |-> m] \in Payloads
      BY <2>8 DEF Payloads
    <3>3. Left(s, m) \in OneDebt
      BY <3>2 DEF Left, OneDebt
    <3> QED BY <2>9, <3>1, <3>3
  <2>11. Path(q, Follows, o, Left(s, n))
    BY <2>3
  <2>12. Len(c) <= n
    BY <2>5 DEF k
  <2>13. /\ q \o Pieces(s, c) \in Seq(Unit)
         /\ Path(q \o Pieces(s, c), Follows, o, Left(s, n - Len(c)))
    BY <2>1, <2>11, <2>12, PathPieces
  <2>14. more = q \o Pieces(s, c)
    BY <1>2, <2>5, UnitsOfIs DEF AnyFrame, c
  <2> HIDE DEF more
  <2>15. Path(more, Follows, o, Left(s, m))
    BY <2>13, <2>14 DEF m, k
  <2> QED BY <2>10, <2>13, <2>14, <2>15 DEF more, after
<1> QED BY <1>1, <1>2 DEF AnyFrame

\* The payload written so far is a number of bytes, and the next chunk is some of
\* those after it.
LEMMA UsedType ==
  ASSUME sent \in Seq(AnyFrame)
  PROVE  Used \in Nat
<1> DEFINE E == [i \in DOMAIN sent |-> sent[i].event]
           n == Len(sent)
           F == [i \in 1..Len(E) |-> PayloadOf(E[i])]
<1>1. n \in Nat /\ DOMAIN sent = 1..n /\ \A i \in 1..n : sent[i] \in AnyFrame
  OBVIOUS
<1> HIDE DEF n
<1>2. E = [i \in 1..n |-> sent[i].event]
  BY <1>1
<1>3. Len(E) = n
  <2>1. E \in Seq({sent[i].event : i \in 1..n})
    BY <1>1, <1>2
  <2> QED BY <1>1, <1>2
<1>4. ASSUME NEW i \in 1..n PROVE PayloadOf(E[i]) \in Nat
  <2>1. E[i] = sent[i].event
    BY <1>2
  <2>2. CASE sent[i] \in HeaderUnit
    <3>1. PayloadOf(E[i]) = 0
      BY <2>1, <2>2, HeaderUnitType DEF PayloadOf
    <3> QED BY <3>1
  <2>3. CASE sent[i] \in ChunkFrame
    <3>1. PayloadOf(E[i]) = Len(sent[i].event.chunk)
      BY <2>1, <2>3, ChunkFrameType DEF PayloadOf
    <3>2. sent[i].event.chunk \in Seq(Byte)
      BY <2>3, ChunkFrameType
    <3> QED BY <3>1, <3>2
  <2> QED BY <1>1, <2>2, <2>3 DEF AnyFrame
<1> HIDE DEF E
<1>5. \A i \in 1..n : F[i] \in Nat
  BY <1>3, <1>4
<1>6. Used = SumTo(F, n)
  BY <1>3 DEF Used, Payload, E
<1> HIDE DEF F
<1> QED BY <1>1, <1>5, <1>6, SumType

LEMMA NextChunkType ==
  ASSUME sent \in Seq(AnyFrame), NEW s \in Word, NEW n \in Nat,
         Used + n <= Len(Content)
  PROVE  /\ NextChunkOf(s, n) \in ChunkFrame
         /\ NextChunkOf(s, n).stream = s
         /\ Len(NextChunkOf(s, n).event.chunk) = n
<1> DEFINE u == Used
           c == SubSeq(Content, u + 1, u + n)
<1>1. u \in Nat /\ Content \in Seq(Byte) /\ Len(Content) \in Nat
  BY UsedType, CodecAssumption
<1> HIDE DEF u
<1>2. c \in Seq(Byte) /\ Len(c) = n
  <2>1. u + n <= Len(Content)
    BY DEF u
  <2>2. \A i \in u + 1..u + n : i \in 1..Len(Content)
    BY <1>1, <2>1
  <2>3. \A i \in u + 1..u + n : Content[i] \in Byte
    BY <1>1, <2>2, ElementOfSeq
  <2>4. c \in Seq(Byte)
    BY <1>1, <2>3, SubSeqProperties
  <2>5. Len(c) = IF u + 1 <= u + n THEN (u + n) - (u + 1) + 1 ELSE 0
    BY <1>1, <2>2, SubSeqProperties
  <2> QED BY <1>1, <2>4, <2>5
<1>3. NextChunkOf(s, n) = Frame(s, DataChunk(c))
  BY DEF NextChunkOf, u
<1> HIDE DEF c
<1>4. <<s, c>> \in Word \X Seq(Byte)
  BY <1>2
<1>5. Frame(s, DataChunk(c)) \in ChunkFrame
  BY <1>4 DEF ChunkFrame
<1> QED BY <1>2, <1>3, <1>5 DEF Frame, DataChunk

\* What a frame written adds to what is still to be read.
LEMMA AheadMore ==
  ASSUME NEW q \in Seq(Unit), NEW bytes \in Wire, NEW waiting,
         NEW debts \in OneDebt, NEW f \in AnyFrame, WriterAccepts(debts, f),
         Ahead(q, bytes, waiting, Debt(debts))
  PROVE  LET more == q \o UnitsOf(AnyFrame)[f] IN
         /\ more \in Seq(Unit)
         /\ WriterOwes(debts, f) \in OneDebt
         /\ Ahead(more, bytes \o CodeOf[f], waiting, Debt(WriterOwes(debts, f)))
<1> DEFINE u == UnitsOf(AnyFrame)[f]
           after == WriterOwes(debts, f)
           more == q \o u
<1>1. bytes = Encoded(q) /\ Path(q, Follows, Debt(waiting), Debt(debts))
  BY DEF Ahead
<1>2. /\ after \in OneDebt /\ more \in Seq(Unit)
      /\ Path(more, Follows, Debt(waiting), Debt(after))
  BY <1>1, WriteFollows
<1>3. u \in Seq(Unit) /\ Encoded(u) = CodeOf[f]
  <2>1. <<>> \in Seq(AnyFrame)
    OBVIOUS
  <2> QED BY <2>1, UnitsAppend
<1> HIDE DEF u, after
<1>4. Encoded(more) = Encoded(q) \o Encoded(u)
  <2>1. q \in Seq(AnyFrame) /\ u \in Seq(AnyFrame)
    BY <1>3, UnitFrame, SeqMonotonic
  <2> QED BY <2>1, EncodedConcat
<1> HIDE DEF more
<1>5. Ahead(more, bytes \o CodeOf[f], waiting, Debt(after))
  BY <1>1, <1>2, <1>3, <1>4 DEF Ahead
<1> QED BY <1>2, <1>5 DEF more, after, u

\* A unit of an unknown type comes from a frame of one.
LEMMA UnknownSent ==
  ASSUME NEW frames \in Seq(AnyFrame), NEW y \in Seq(Unit),
         NEW rest \in Seq(Unit), Units(frames) = y \o rest,
         rest # <<>>, rest[1].event.kind = "Unknown"
  PROVE  \E n \in DOMAIN frames : frames[n].event.kind = "Unknown"
<1> SUFFICES ASSUME \A n \in DOMAIN frames : frames[n].event.kind # "Unknown"
             PROVE  FALSE
  OBVIOUS
<1> DEFINE K == HeaderFrame
           D == K \cup ChunkFrame
           V == K \cup ByteUnit
           m == Len(y)
           s == y \o rest
<1>1. ASSUME NEW f \in AnyFrame, f.event.kind # "Unknown" PROVE f \in D
  BY <1>1 DEF AnyFrame, HeaderUnit, UnknownFrame
<1>2. frames \in Seq(D)
  <2> HIDE DEF D
  <2>1. \A n \in 1..Len(frames) : frames[n] \in AnyFrame /\ n \in DOMAIN frames
    OBVIOUS
  <2>2. \A n \in 1..Len(frames) : frames[n] \in D
    BY <1>1, <2>1
  <2>3. Len(frames) \in Nat /\ frames = [n \in 1..Len(frames) |-> frames[n]]
    OBVIOUS
  <2> DEFINE l == Len(frames)
  <2>4. l \in Nat /\ frames \in [1..l -> D]
    BY <2>2, <2>3
  <2> HIDE DEF l
  <2> QED BY <2>4
<1>3. Units(frames) \in Seq(V)
  <2>1. K \subseteq HeaderUnit
    BY DEF HeaderUnit
  <2> HIDE DEF K
  <2> QED BY <1>2, <2>1, UnitsType
<1>4. m + 1 \in 1..Len(s) /\ s[m + 1] = rest[1]
  <2>1. Len(rest) \in Nat \ {0} /\ m \in Nat
    BY EmptySeq
  <2>2. Len(s) = m + Len(rest)
    BY ConcatProperties
  <2>3. \A i \in 1..Len(y) + Len(rest) : s[i] = IF i <= Len(y) THEN y[i] ELSE rest[i - Len(y)]
    BY ConcatProperties
  <2> HIDE DEF s
  <2>4. m + 1 \in 1..m + Len(rest) /\ ~(m + 1 <= m) /\ (m + 1) - m = 1
    BY <2>1
  <2> HIDE DEF m
  <2>5. s[m + 1] = rest[1]
    BY <2>3, <2>4 DEF m
  <2> QED BY <2>2, <2>4, <2>5
<1> HIDE DEF V, s, m
<1>5. rest[1] \in V
  <2>1. s \in Seq(V)
    BY <1>3 DEF s
  <2>2. s[m + 1] \in V
    BY <1>4, <2>1, ElementOfSeq
  <2> QED BY <1>4, <2>2
<1>6. ASSUME NEW u \in V PROVE u.event.kind # "Unknown"
  <2>1. CASE u \in HeaderFrame
    BY <2>1 DEF HeaderFrame
  <2>2. CASE u \in ByteUnit
    <3>1. PICK p \in Word \X Byte : u = OneByte(p[1], p[2])
      BY <2>2 DEF ByteUnit
    <3>2. u.event.kind = "DataChunk"
      BY <3>1, OneByteType
    <3> QED BY <3>2
  <2> QED BY <2>1, <2>2 DEF V
<1> QED BY <1>5, <1>6

\* A reader that waits for bytes that never come has read everything.
LEMMA NothingAhead ==
  ASSUME NEW STATE r, r \in OkReader, Waits(r), pending \in OneDebt,
         NEW q \in Seq(Unit), NEW o, Ahead(q, FlattenSeq(r.chunks), pending, o)
  PROVE  q = <<>>
<1> DEFINE got == FlattenSeq(r.chunks)
<1>1. got = Encoded(q) /\ Path(q, Follows, Debt(pending), o)
  BY DEF Ahead
<1>2. r.len \in Nat /\ r.len = Len(got)
  BY OkReaderType
<1>3. CASE PayloadWaits(r)
  <2>1. got = <<>>
    BY <1>3, NothingGot DEF PayloadWaits
  <2> QED BY <1>1, <2>1, NoUnits
<1>4. CASE HeaderWaits(r)
  <2>1. pending = {} /\ r.len < HeaderLen
    BY <1>4 DEF HeaderWaits
  <2>2. Debt(pending) = {}
    BY <2>1 DEF Debt
  <2> HIDE DEF got
  <2>3. Path(q, Follows, {}, o)
    BY <1>1, <2>2
  <2>4. ASSUME q # <<>> PROVE FALSE
    <3>1. PICK f \in HeaderUnit, rest \in Seq(Unit) :
             /\ q = <<f>> \o rest /\ Path(rest, Follows, Due(f), o)
             /\ Encoded(q) = HeaderBytes(f) \o Encoded(rest)
             /\ Encoded(rest) \in Wire
      BY <2>3, <2>4, NextHead
    <3> DEFINE h == HeaderBytes(f)
               x == Encoded(rest)
    <3>2. h \in Wire /\ Len(h) = HeaderLen
      BY HeaderBytesType
    <3>3. x \in Wire /\ got = h \o x
      BY <1>1, <3>1
    <3> HIDE DEF h, x
    <3>4. Len(h \o x) = Len(h) + Len(x) /\ Len(x) \in Nat
      BY <3>2, <3>3, WireConcat
    <3>5. HeaderLen \in Nat
      BY CodecAssumption
    <3> QED BY <1>2, <2>1, <3>2, <3>3, <3>4, <3>5
  <2> QED BY <2>4
<1> QED BY <1>3, <1>4 DEF Waits

-----------------------------------------------------------------------------
(***************************************************************************)
(* The inductive invariant.  What was written, byte by byte, is what was   *)
(* read and q, which is still to be read: in that order, from the reader's  *)
(* chain, from the connection, and from the writer's chain, or from what   *)
(* was lost with the connection.                                           *)
(***************************************************************************)
Shape ==
    /\ way \in Ways
    /\ way = "socket" => writer \in OkWriter(FALSE)
    /\ way # "socket" => writer \in OkWriter(TRUE)
    /\ owed \in OneDebt /\ pending \in OneDebt
    /\ wire \in Wire /\ Len(wire) <= SocketRoom
    /\ shut \in BOOLEAN /\ broken \in BOOLEAN
    /\ reader \in OkReader
    /\ result \in {"open", "eof", "error"}
    /\ sent \in Seq(AnyFrame) /\ yielded \in Seq(Unit)

Ends ==
    /\ way # "socket" => wire = <<>> /\ ~broken
    /\ way = "take" /\ ~shut => reader = NewReader
    /\ way = "socket" /\ shut => writer.queue = <<>>
    /\ way = "pop" => ~shut

Flight(q, lost) ==
    /\ Units(sent) = yielded \o q
    /\ result # "error" =>
          /\ Ahead(q, Received \o (wire \o lost), pending, Debt(owed))
          /\ ~broken => lost = Unconsumed
    /\ result = "eof" /\ ~broken => shut /\ q = <<>>
InFlight == \E q \in Seq(Unit), lost \in Wire : Flight(q, lost)

Excused ==
    result = "error" =>
        broken \/ \E n \in DOMAIN sent : sent[n].event.kind = "Unknown"

IInv == Shape /\ Ends /\ InFlight /\ Excused

LEMMA OwesType ==
  ASSUME NEW debts \in OneDebt, NEW f \in AnyFrame, WriterAccepts(debts, f)
  PROVE  WriterOwes(debts, f) \in OneDebt
<1>1. <<>> \in Seq(Unit)
  OBVIOUS
<1>2. Path(<<>>, Follows, Debt(debts), Debt(debts))
  BY PathEmpty
<1> QED BY <1>1, <1>2, WriteFollows

\* What the writing side does with a frame, whether a session hands it over or not.
LEMMA FrameWritten ==
  ASSUME Shape, Ends, Send \/ Write
  PROVE  \E f \in AnyFrame :
            /\ WriterAccepts(owed, f) /\ ~shut /\ ~broken
            /\ writer' = Written(writer, f) /\ owed' = WriterOwes(owed, f)
            /\ sent' = Append(sent, f)
            /\ UNCHANGED <<way, wire, shut, broken, reading, result, yielded>>
<1>0. Leading \subseteq HeaderUnit
  BY CodecAssumption DEF HeaderUnit
<1>1. sent \in Seq(AnyFrame) /\ owed \in OneDebt
  BY DEF Shape
<1>2. CASE Send
  <2>1. CASE owed = {}
    <3>1. PICK f \in Leading :
             /\ writer' = Written(writer, f) /\ owed' = WriterOwes(owed, f)
             /\ sent' = Append(sent, f)
      BY <1>2, <2>1 DEF Send
    <3>2. f \in AnyFrame /\ f.event.kind # "DataChunk"
      BY <1>0, HeaderUnitType DEF AnyFrame
    <3>3. WriterAccepts(owed, f)
      BY <2>1, <3>2 DEF WriterAccepts
    <3> QED BY <1>2, <3>1, <3>2, <3>3 DEF Send
  <2>2. CASE owed # {}
    <3>1. PICK s \in Word, n \in Nat : owed = {[stream |-> s, remain |-> n]}
      BY <1>1, <2>2, OneDebtIs
    <3> DEFINE p == [stream |-> s, remain |-> n]
               f == NextChunkOf(s, n)
    <3>2. p.stream = s /\ p.remain = n
      OBVIOUS
    <3> HIDE DEF p
    <3>3. /\ Used + n <= Len(Content)
          /\ writer' = Written(writer, f) /\ owed' = WriterOwes(owed, f)
          /\ sent' = Append(sent, f)
      BY <1>2, <2>2, <3>1, <3>2 DEF Send, p
    <3>4. f \in ChunkFrame /\ f.stream = s /\ Len(f.event.chunk) = n
      BY <1>1, <3>3, NextChunkType
    <3> HIDE DEF f
    <3>5. f \in AnyFrame /\ f.event.kind = "DataChunk"
      BY <3>4, ChunkFrameType DEF AnyFrame
    <3>6. WriterAccepts(owed, f)
      <4>1. \A d \in owed : d.stream = s /\ d.remain = n
        BY <3>1
      <4> QED BY <2>2, <3>4, <3>5, <4>1 DEF WriterAccepts
    <3> QED BY <1>2, <3>3, <3>5, <3>6 DEF Send
  <2> QED BY <2>1, <2>2
<1>3. CASE Write
  <2>0. Used \in Nat /\ Len(Content) \in Nat
    BY <1>1, UsedType, CodecAssumption
  <2>1. PICK f \in Leading \cup {NextChunkOf(g.stream, n) :
                                    g \in Leading, n \in 0..Len(Content) - Used} :
           /\ WriterAccepts(owed, f)
           /\ writer' = Written(writer, f) /\ owed' = WriterOwes(owed, f)
           /\ sent' = Append(sent, f)
    BY <1>3 DEF Write
  <2>2. f \in AnyFrame
    <3>1. CASE f \in Leading
      BY <1>0, <3>1 DEF AnyFrame
    <3>2. CASE f \notin Leading
      <4>1. PICK g \in Leading, n \in 0..Len(Content) - Used :
                f = NextChunkOf(g.stream, n)
        BY <2>1, <3>2
      <4>2. n \in Nat /\ Used + n <= Len(Content)
        BY <2>0
      <4>3. g.stream \in Word
        BY <1>0, HeaderUnitType
      <4>4. NextChunkOf(g.stream, n) \in ChunkFrame
        BY <1>1, <4>2, <4>3, NextChunkType
      <4> QED BY <4>1, <4>4 DEF AnyFrame
    <3> QED BY <3>1, <3>2
  <2>3. ~shut /\ ~broken
    BY <1>3 DEF Write, Ends
  <2> QED BY <1>3, <2>1, <2>2, <2>3 DEF Write
<1> QED BY <1>2, <1>3

\* The chain that the writer holds, in either way of passing it on.
LEMMA WriterIs ==
  ASSUME Shape
  PROVE  \E fresh \in BOOLEAN :
            /\ writer \in OkWriter(fresh)
            /\ Unconsumed = BytesIn(writer.queue) /\ Unconsumed \in Wire
            /\ fresh <=> way # "socket"
<1>1. Unconsumed = BytesIn(writer.queue)
  BY DEF Unconsumed, BytesIn
<1>2. CASE way = "socket"
  <2>1. writer \in OkWriter(FALSE)
    BY <1>2 DEF Shape
  <2>2. BytesIn(writer.queue) \in Wire
    BY <2>1, OkWriterType, BytesType
  <2> QED BY <1>1, <1>2, <2>1, <2>2
<1>3. CASE way # "socket"
  <2>1. writer \in OkWriter(TRUE)
    BY <1>3 DEF Shape
  <2>2. BytesIn(writer.queue) \in Wire
    BY <2>1, OkWriterType, BytesType
  <2> QED BY <1>1, <1>3, <2>1, <2>2
<1> QED BY <1>2, <1>3

LEMMA ReceivedType ==
  ASSUME Shape
  PROVE  Received \in Wire /\ wire \in Wire /\ reader \in OkReader
<1>1. reader \in OkReader /\ wire \in Wire
  BY DEF Shape
<1> QED BY <1>1, OkReaderType DEF Received

\* One step of the writing side.
LEMMA WriteStep ==
  ASSUME IInv, Send \/ Write
  PROVE  IInv'
<1>0. Shape /\ Ends /\ InFlight /\ Excused
  BY DEF IInv
<1>1. PICK f \in AnyFrame :
         /\ WriterAccepts(owed, f) /\ ~shut /\ ~broken
         /\ writer' = Written(writer, f) /\ owed' = WriterOwes(owed, f)
         /\ sent' = Append(sent, f)
         /\ UNCHANGED <<way, wire, shut, broken, reading, result, yielded>>
  BY <1>0, FrameWritten
<1>2. reader' = reader /\ pending' = pending
  BY <1>1 DEF reading
<1>3. PICK q \in Seq(Unit), lost \in Wire : Flight(q, lost)
  BY <1>0 DEF InFlight
<1>4. PICK fresh \in BOOLEAN :
         /\ writer \in OkWriter(fresh)
         /\ Unconsumed = BytesIn(writer.queue) /\ Unconsumed \in Wire
         /\ fresh <=> way # "socket"
  BY <1>0, WriterIs
<1> DEFINE units == UnitsOf(AnyFrame)[f]
           code == CodeOf[f]
           q2 == q \o units
           lost2 == lost \o code
           ahead == Received \o (wire \o lost)
<1>5. /\ writer' \in OkWriter(fresh) /\ code \in Wire
      /\ BytesIn(writer'.queue) = BytesIn(writer.queue) \o code
  BY <1>1, <1>4, WrittenEffect
<1>6. sent \in Seq(AnyFrame) /\ owed \in OneDebt /\ yielded \in Seq(Unit)
      /\ sent' \in Seq(AnyFrame)
  BY <1>0, <1>1, AppendType DEF Shape
<1>7. /\ units \in Seq(Unit) /\ Units(sent') = Units(sent) \o units
  BY <1>1, <1>6, UnitsAppend
<1> HIDE DEF units, code
<1>8. lost2 \in Wire
  BY <1>5, WireConcat
<1>9. Received \in Wire /\ wire \in Wire
  BY <1>0, ReceivedType
<1>10. ahead \in Wire /\ Received \o (wire \o lost2) = ahead \o code
  <2> DEFINE w == wire \o lost
  <2>1. w \in Wire /\ ahead \in Wire
    BY <1>9, WireConcat
  <2>2. wire \o lost2 = w \o code
    BY <1>5, <1>9, WireJoins DEF Concatenates
  <2> HIDE DEF w, lost2
  <2>3. Received \o (w \o code) = (Received \o w) \o code
    BY <1>5, <1>9, <2>1, WireJoins DEF Concatenates
  <2> QED BY <2>1, <2>2, <2>3 DEF w
<1>11. q2 \in Seq(Unit) /\ owed' \in OneDebt
  <2>1. WriterOwes(owed, f) \in OneDebt
    BY <1>1, <1>6, OwesType
  <2>2. q2 \in Seq(Unit)
    BY <1>7, ConcatProperties
  <2> QED BY <1>1, <2>1, <2>2
<1>12. Units(sent') = yielded' \o q2
  <2>1. Units(sent) = yielded \o q /\ yielded' = yielded
    BY <1>1, <1>3 DEF Flight
  <2>2. (yielded \o q) \o units = yielded \o q2
    <3>1. Concatenates(Seq(Unit))
      BY SeqJoins
    <3> QED BY <1>6, <1>7, <3>1 DEF Concatenates
  <2> QED BY <1>7, <2>1, <2>2
<1>13. Received' = Received /\ wire' = wire /\ result' = result /\ broken' = broken
       /\ shut' = shut /\ way' = way
  BY <1>1, <1>2 DEF Received
<1>14. ASSUME result' # "error"
       PROVE  /\ Ahead(q2, Received' \o (wire' \o lost2), pending', Debt(owed'))
              /\ ~broken' => lost2 = Unconsumed'
  <2>1. Ahead(q, ahead, pending, Debt(owed)) /\ (~broken => lost = Unconsumed)
    BY <1>3, <1>13, <1>14 DEF Flight
  <2> HIDE DEF ahead
  <2>2. Ahead(q \o UnitsOf(AnyFrame)[f], ahead \o CodeOf[f], pending,
              Debt(WriterOwes(owed, f)))
    BY <1>1, <1>6, <1>10, <2>1, AheadMore
  <2>3. Ahead(q2, ahead \o code, pending', Debt(owed'))
    BY <1>1, <1>2, <2>2 DEF units, code
  <2>4. Unconsumed' = BytesIn(writer'.queue)
    BY DEF Unconsumed, BytesIn
  <2>5. lost2 = Unconsumed'
    BY <1>1, <1>4, <1>5, <2>1, <2>4
  <2> HIDE DEF lost2, q2
  <2> QED BY <1>10, <1>13, <2>3, <2>5
<1>15. ~(result' = "eof" /\ ~broken')
  BY <1>1, <1>3, <1>13 DEF Flight
<1> HIDE DEF q2, lost2
<1>16. InFlight'
  <2>1. Flight(q2, lost2)'
    BY <1>12, <1>14, <1>15 DEF Flight
  <2> QED BY <1>8, <1>11, <2>1 DEF InFlight
<1>17. Shape'
  <2>1. (way' = "socket" => writer' \in OkWriter(FALSE))
        /\ (way' # "socket" => writer' \in OkWriter(TRUE))
    BY <1>4, <1>5, <1>13
  <2> QED BY <1>0, <1>1, <1>2, <1>6, <1>11, <1>13, <2>1 DEF Shape
<1>18. Ends'
  <2>1. ~shut' /\ reader' = reader /\ wire' = wire /\ way' = way /\ broken' = broken
    BY <1>1, <1>2
  <2> QED BY <1>0, <1>1, <2>1 DEF Ends
<1>19. Excused'
  <2>1. ASSUME NEW n \in DOMAIN sent PROVE n \in DOMAIN sent' /\ sent'[n] = sent[n]
    BY <1>1, <1>6
  <2> QED BY <1>0, <1>13, <2>1 DEF Excused
<1> QED BY <1>16, <1>17, <1>18, <1>19 DEF IInv

\* The socket takes some of the front chunk.
LEMMA PollWriteStep ==
  ASSUME IInv, PollWrite
  PROVE  IInv'
<1>0. Shape /\ Ends /\ InFlight /\ Excused
  BY DEF IInv
<1>1. /\ way = "socket" /\ ~broken /\ writer.queue # <<>>
      /\ UNCHANGED <<way, owed, shut, broken, reading, result, sent, yielded>>
  BY DEF PollWrite
<1>2. PICK n \in 1..Len(FrontSlice(writer)) :
         /\ Len(wire) + n <= SocketRoom
         /\ wire' = wire \o SubSeq(FrontSlice(writer), 1, n)
         /\ writer' = ConsumeFront(writer, n)
  BY DEF PollWrite
<1>3. reader' = reader /\ pending' = pending
  BY <1>1 DEF reading
<1>4. PICK q \in Seq(Unit), lost \in Wire : Flight(q, lost)
  BY <1>0 DEF InFlight
<1> DEFINE a == SubSeq(FrontSlice(writer), 1, n)
<1>14. PICK left : left = BytesIn(writer'.queue)
  OBVIOUS
<1>5. /\ writer' \in OkWriter(FALSE) /\ a \in Wire /\ Len(a) = n
      /\ BytesIn(writer.queue) = a \o left
  <2>1. writer \in OkWriter(FALSE)
    BY <1>0, <1>1 DEF Shape
  <2>2. n \in Nat \ {0} /\ n <= Len(FrontSlice(writer))
    BY <1>2
  <2> QED BY <1>1, <1>2, <1>14, <2>1, <2>2, ConsumeFrontEffect
<1>6. left \in Wire
  BY <1>5, <1>14, OkWriterType, BytesType
<1>7. Unconsumed = BytesIn(writer.queue) /\ Unconsumed' = left
  BY <1>14 DEF Unconsumed, BytesIn
<1>8. wire \in Wire /\ wire' = wire \o a
  BY <1>0, <1>2 DEF Shape
<1> HIDE DEF a
<1>9. wire' \in Wire /\ Len(wire') <= SocketRoom
  BY <1>2, <1>5, <1>8, WireConcat
<1>10. Flight(q, left)'
  <2>1. Units(sent') = yielded' \o q
    BY <1>1, <1>4 DEF Flight
  <2>2. ASSUME result' # "error"
        PROVE  /\ Ahead(q, Received' \o (wire' \o left), pending', Debt(owed'))
               /\ ~broken' => left = Unconsumed'
    <3>1. Ahead(q, Received \o (wire \o lost), pending, Debt(owed))
          /\ lost = Unconsumed
      BY <1>1, <1>4, <2>2 DEF Flight
    <3>2. wire \o lost = wire' \o left
      <4>1. wire \o (a \o left) = (wire \o a) \o left
        BY <1>5, <1>6, <1>8, WireJoins DEF Concatenates
      <4>2. lost = a \o left
        BY <1>5, <1>7, <3>1
      <4> QED BY <1>8, <4>1, <4>2
    <3>3. Received' = Received
      BY <1>3 DEF Received
    <3> QED BY <1>1, <1>3, <1>7, <3>1, <3>2, <3>3
  <2>3. result' = "eof" /\ ~broken' => shut' /\ q = <<>>
    BY <1>1, <1>4 DEF Flight
  <2> QED BY <2>1, <2>2, <2>3 DEF Flight
<1>11. Shape'
  BY <1>0, <1>1, <1>3, <1>5, <1>9 DEF Shape
<1>12. Ends'
  BY <1>0, <1>1, <1>3 DEF Ends
<1>13. InFlight' /\ Excused'
  BY <1>0, <1>1, <1>6, <1>10 DEF InFlight, Excused
<1> QED BY <1>11, <1>12, <1>13 DEF IInv

\* The connection is closed when nothing is left to write.
LEMMA PollCloseStep ==
  ASSUME IInv, PollClose
  PROVE  IInv'
<1>0. Shape /\ Ends /\ InFlight /\ Excused
  BY DEF IInv
<1>1. /\ way = "socket" /\ writer.queue = <<>> /\ shut'
      /\ shut' \in BOOLEAN
      /\ UNCHANGED <<way, writer, owed, wire, broken, reading, result, sent,
                     yielded>>
  BY DEF PollClose, Drained
<1>2. reader' = reader /\ pending' = pending
  BY <1>1 DEF reading
<1>3. PICK q \in Seq(Unit), lost \in Wire : Flight(q, lost)
  BY <1>0 DEF InFlight
<1>4. Received' = Received /\ Unconsumed' = Unconsumed
  BY <1>1, <1>2 DEF Received, Unconsumed
<1>5. Flight(q, lost)'
  BY <1>1, <1>2, <1>3, <1>4 DEF Flight
<1>6. Shape'
  BY <1>0, <1>1, <1>2 DEF Shape
<1>7. Ends'
  BY <1>0, <1>1, <1>2 DEF Ends
<1>8. InFlight' /\ Excused'
  BY <1>0, <1>1, <1>5 DEF InFlight, Excused
<1> QED BY <1>6, <1>7, <1>8 DEF IInv

\* What the connection loses comes before what the writer still holds.
LEMMA BreakStep ==
  ASSUME IInv, Break
  PROVE  IInv'
<1>0. Shape /\ Ends /\ InFlight /\ Excused
  BY DEF IInv
<1>1. /\ way = "socket" /\ broken' = TRUE
      /\ UNCHANGED <<way, writer, owed, shut, reading, result, sent, yielded>>
  BY DEF Break
<1>2. reader' = reader /\ pending' = pending
  BY <1>1 DEF reading
<1>3. PICK n \in 0..Len(wire) : wire' = SubSeq(wire, 1, n)
  BY DEF Break
<1>4. PICK q \in Seq(Unit), lost \in Wire : Flight(q, lost)
  BY <1>0 DEF InFlight
<1>14. PICK b : b = SubSeq(wire, n + 1, Len(wire))
  OBVIOUS
<1> DEFINE lost2 == b \o lost
<1>5. wire \in Seq(WireByte) /\ Len(wire) <= SocketRoom /\ Len(wire) \in Nat
  BY <1>0 DEF Shape, Wire
<1>6. n \in Nat /\ n <= Len(wire)
  BY <1>3, <1>5
<1>7. wire' \in Wire /\ Len(wire') = n /\ b \in Wire /\ wire = wire' \o b
  <2>1. /\ SubSeq(wire, 1, n) \in Seq(WireByte) /\ Len(SubSeq(wire, 1, n)) = n
        /\ b \in Seq(WireByte) /\ wire = SubSeq(wire, 1, n) \o b
    BY <1>5, <1>6, <1>14, CutType
  <2> QED BY <1>3, <2>1 DEF Wire
<1>8. Len(wire') <= SocketRoom
  <2>1. SocketRoom \in Nat
    BY CodecAssumption
  <2> QED BY <1>5, <1>6, <1>7, <2>1
<1>9. lost2 \in Wire /\ wire \o lost = wire' \o lost2
  <2>1. (wire' \o b) \o lost = wire' \o (b \o lost)
    BY <1>7, WireJoins DEF Concatenates
  <2> QED BY <1>7, <2>1, WireConcat
<1> HIDE DEF lost2
<1>10. Flight(q, lost2)'
  <2>1. Units(sent') = yielded' \o q
    BY <1>1, <1>4 DEF Flight
  <2>2. ASSUME result' # "error"
        PROVE  Ahead(q, Received' \o (wire' \o lost2), pending', Debt(owed'))
    <3>1. Ahead(q, Received \o (wire \o lost), pending, Debt(owed))
      BY <1>1, <1>4, <2>2 DEF Flight
    <3>2. Received' = Received
      BY <1>2 DEF Received
    <3> QED BY <1>1, <1>2, <1>9, <3>1, <3>2
  <2> QED BY <1>1, <2>1, <2>2 DEF Flight
<1>11. Shape'
  BY <1>0, <1>1, <1>2, <1>7, <1>8 DEF Shape
<1>12. Ends'
  BY <1>0, <1>1, <1>2 DEF Ends
<1>13. InFlight' /\ Excused'
  BY <1>1, <1>9, <1>10 DEF InFlight, Excused
<1> QED BY <1>11, <1>12, <1>13 DEF IInv

\* The front chunk goes from one chain to the other.
LEMMA PassChunkStep ==
  ASSUME IInv, PassChunk
  PROVE  IInv'
<1>0. Shape /\ Ends /\ InFlight /\ Excused
  BY DEF IInv
<1>1. /\ way = "pop" /\ writer.queue # <<>>
      /\ reader' = PushBack(reader, FrontView(writer))
      /\ writer' = PopFront(writer)
      /\ UNCHANGED <<way, owed, wire, shut, broken, pending, result, sent, yielded>>
  BY DEF PassChunk
<1>2. PICK q \in Seq(Unit), lost \in Wire : Flight(q, lost)
  BY <1>0 DEF InFlight
<1> DEFINE v == FrontView(writer)
<1>14. PICK left : left = BytesIn(writer'.queue)
  OBVIOUS
<1>3. /\ writer' \in OkWriter(TRUE) /\ v \in Wire /\ v # <<>>
      /\ BytesIn(writer.queue) = v \o left
  <2>1. writer \in OkWriter(TRUE)
    BY <1>0, <1>1 DEF Shape
  <2> QED BY <1>1, <1>14, <2>1, PopFrontEffect
<1>4. left \in Wire
  BY <1>3, <1>14, OkWriterType, BytesType
<1>5. Unconsumed = BytesIn(writer.queue) /\ Unconsumed' = left
  BY <1>14 DEF Unconsumed, BytesIn
<1>6. Received \in Wire /\ reader \in OkReader
  BY <1>0, ReceivedType
<1>7. reader' = PushBack(reader, v)
  BY <1>1
<1> HIDE DEF v
<1>8. reader' \in OkReader /\ Received' = Received \o v
  <2>1. v \in Piece
    BY <1>3 DEF Piece
  <2> QED BY <1>6, <1>7, <2>1, PushBackEffect DEF Received
<1>9. wire = <<>> /\ wire' = <<>> /\ ~broken /\ ~shut
  BY <1>0, <1>1 DEF Ends
<1>10. Flight(q, left)'
  <2>1. Units(sent') = yielded' \o q
    BY <1>1, <1>2 DEF Flight
  <2>2. ASSUME result' # "error"
        PROVE  Ahead(q, Received' \o (wire' \o left), pending', Debt(owed'))
    <3>1. Ahead(q, Received \o (wire \o lost), pending, Debt(owed))
          /\ lost = Unconsumed
      BY <1>1, <1>2, <1>9, <2>2 DEF Flight
    <3>2. Received \o (wire \o lost) = Received' \o (wire' \o left)
      <4>1. wire \o lost = v \o left
        BY <1>3, <1>5, <1>9, <3>1, WireJoins DEF Concatenates
      <4>2. wire' \o left = left
        BY <1>4, <1>9, WireJoins DEF Concatenates
      <4>3. Received \o (v \o left) = (Received \o v) \o left
        BY <1>3, <1>4, <1>6, WireJoins DEF Concatenates
      <4> QED BY <1>8, <4>1, <4>2, <4>3
    <3> QED BY <1>1, <3>1, <3>2
  <2>3. ~(result' = "eof" /\ ~broken')
    BY <1>1, <1>2, <1>9 DEF Flight
  <2> QED BY <1>5, <2>1, <2>2, <2>3 DEF Flight
<1>11. Shape'
  BY <1>0, <1>1, <1>3, <1>8 DEF Shape
<1>12. Ends'
  BY <1>0, <1>1 DEF Ends
<1>13. InFlight' /\ Excused'
  BY <1>0, <1>1, <1>4, <1>10 DEF InFlight, Excused
<1> QED BY <1>11, <1>12, <1>13 DEF IInv

\* The writer's chain becomes the reader's.
LEMMA PassAllStep ==
  ASSUME IInv, PassAll
  PROVE  IInv'
<1>0. Shape /\ Ends /\ InFlight /\ Excused
  BY DEF IInv
<1>1. /\ way = "take" /\ ~shut /\ shut' = TRUE
      /\ reader' = FromWriter(writer) /\ writer' = NewWriter
      /\ UNCHANGED <<way, owed, wire, broken, pending, result, sent, yielded>>
  BY DEF PassAll
<1>2. PICK q \in Seq(Unit), lost \in Wire : Flight(q, lost)
  BY <1>0 DEF InFlight
<1>3. writer \in OkWriter(TRUE)
  BY <1>0, <1>1 DEF Shape
<1> DEFINE all == BytesIn(writer.queue)
<1>4. reader' \in OkReader /\ Received' = all
  BY <1>1, <1>3, FromWriterEffect DEF Received
<1>5. writer' \in OkWriter(TRUE) /\ BytesIn(writer'.queue) = <<>>
  BY <1>1, NewWriterEffect
<1>6. Unconsumed = all /\ Unconsumed' = <<>>
  BY <1>5 DEF Unconsumed, BytesIn
<1>7. all \in Wire /\ <<>> \in Wire
  BY <1>3, OkWriterType, BytesType, WireJoins DEF Concatenates
<1>8. wire = <<>> /\ wire' = <<>> /\ ~broken /\ Received = <<>>
  <2>1. reader = NewReader
    BY <1>0, <1>1 DEF Ends
  <2> QED BY <1>0, <1>1, <2>1, NewReaderEffect DEF Ends, Received
<1> HIDE DEF all
<1>9. Flight(q, <<>>)'
  <2>1. Units(sent') = yielded' \o q
    BY <1>1, <1>2 DEF Flight
  <2>2. ASSUME result' # "error"
        PROVE  Ahead(q, Received' \o (wire' \o <<>>), pending', Debt(owed'))
    <3>1. Ahead(q, Received \o (wire \o lost), pending, Debt(owed))
          /\ lost = Unconsumed
      BY <1>1, <1>2, <1>8, <2>2 DEF Flight
    <3>2. Received \o (wire \o lost) = all
      BY <1>6, <1>7, <1>8, <3>1, WireJoins DEF Concatenates
    <3>3. Received' \o (wire' \o <<>>) = all
      BY <1>4, <1>7, <1>8, WireJoins DEF Concatenates
    <3> QED BY <1>1, <3>1, <3>2, <3>3
  <2>3. ~(result' = "eof" /\ ~broken')
    BY <1>1, <1>2, <1>8 DEF Flight
  <2> QED BY <1>6, <2>1, <2>2, <2>3 DEF Flight
<1>10. Shape'
  BY <1>0, <1>1, <1>4, <1>5 DEF Shape
<1>11. Ends'
  BY <1>0, <1>1 DEF Ends
<1>12. InFlight' /\ Excused'
  BY <1>0, <1>1, <1>7, <1>9 DEF InFlight, Excused
<1> QED BY <1>10, <1>11, <1>12 DEF IInv

\* What next_frame does to the invariant, on the reader's chain r with the bytes
\* more behind it.
LEMMA ReadStep ==
  ASSUME IInv, NEW STATE r, r \in OkReader, NextFrame(r), result = "open",
         wire' \in Wire, Len(wire') <= SocketRoom,
         NEW q \in Seq(Unit), NEW lost \in Wire, Flight(q, lost),
         FlattenSeq(r.chunks) \o (wire' \o lost) = Received \o (wire \o lost),
         way # "socket" => wire' = <<>>,
         UNCHANGED <<way, writer, owed, shut, broken, sent>>
  PROVE  Shape' /\ InFlight' /\ Excused'
<1>0. Shape /\ Ends /\ InFlight /\ Excused
  BY DEF IInv
<1>1. pending \in OneDebt /\ yielded \in Seq(Unit) /\ sent \in Seq(AnyFrame)
  BY <1>0 DEF Shape
<1>2. Units(sent) = yielded \o q /\ (~broken => lost = Unconsumed)
      /\ Ahead(q, Received \o (wire \o lost), pending, Debt(owed))
  BY DEF Flight
<1>3. PICK more : more = wire' \o lost
  OBVIOUS
<1>4. more \in Wire
  BY <1>3, WireConcat
<1>5. Ahead(q, FlattenSeq(r.chunks) \o more, pending, Debt(owed))
  BY <1>2, <1>3
<1>6. PICK o : o = Debt(owed)
  OBVIOUS
<1>7. reader' \in OkReader /\ pending' \in OneDebt /\ FrameTaken(q, more, o)
  BY <1>1, <1>4, <1>5, <1>6, NextFrameEffect
<1>8. PICK read \in Seq(Unit), rest \in Seq(Unit) :
         /\ q = read \o rest /\ yielded' = yielded \o read
         /\ \/ /\ result' = "open"
               /\ Ahead(rest, FlattenSeq(reader'.chunks) \o more, pending', o)
            \/ /\ result' = "error"
               /\ rest # <<>> /\ rest[1].event.kind = "Unknown"
  BY <1>7 DEF FrameTaken
<1>9. yielded' \in Seq(Unit) /\ yielded \o q = yielded' \o rest
  <2> DEFINE Q == Seq(Unit)
  <2>1. Concatenates(Q) /\ yielded \in Q /\ read \in Q /\ rest \in Q
    BY <1>1, SeqJoins
  <2> HIDE DEF Q
  <2>2. yielded \o (read \o rest) = (yielded \o read) \o rest /\ yielded \o read \in Q
    BY <2>1 DEF Concatenates
  <2> QED BY <1>8, <2>2 DEF Q
<1>10. Units(sent') = yielded' \o rest
  BY <1>2, <1>9
<1>11. owed' = owed /\ broken' = broken /\ Unconsumed' = Unconsumed
  BY DEF Unconsumed
<1>12. Flight(rest, lost)'
  <2>1. ASSUME result' # "error"
        PROVE  /\ Ahead(rest, Received' \o (wire' \o lost), pending', Debt(owed'))
               /\ ~broken' => lost = Unconsumed'
    <3>1. Ahead(rest, FlattenSeq(reader'.chunks) \o more, pending', o)
      BY <1>8, <2>1
    <3>2. FlattenSeq(reader'.chunks) = Received'
      BY DEF Received
    <3> QED BY <1>2, <1>3, <1>6, <1>11, <3>1, <3>2
  <2>2. result' # "eof"
    BY <1>8
  <2> QED BY <1>10, <2>1, <2>2 DEF Flight
<1>13. InFlight'
  BY <1>12 DEF InFlight
<1>14. Excused'
  <2> SUFFICES ASSUME result' = "error"
               PROVE  \E n \in DOMAIN sent' : sent'[n].event.kind = "Unknown"
    BY DEF Excused
  <2>1. rest # <<>> /\ rest[1].event.kind = "Unknown"
    BY <1>8
  <2>2. Units(sent) = yielded' \o rest
    BY <1>2, <1>9
  <2>3. PICK y : y = yielded'
    OBVIOUS
  <2>4. \E n \in DOMAIN sent : sent[n].event.kind = "Unknown"
    BY <1>1, <1>9, <2>1, <2>2, <2>3, UnknownSent
  <2> QED BY <2>4
<1>15. Shape'
  <2>1. result' \in {"open", "eof", "error"}
    BY <1>8
  <2> QED BY <1>0, <1>7, <1>9, <2>1 DEF Shape
<1> QED BY <1>13, <1>14, <1>15

\* poll_next on what it has, or a FrameReader's next_frame.
LEMMA PollBufferedStep ==
  ASSUME IInv, PollBuffered
  PROVE  IInv'
<1>0. Shape /\ Ends /\ InFlight /\ Excused
  BY DEF IInv
<1>1. /\ result = "open" /\ NextFrame(reader)
      /\ UNCHANGED <<way, writer, owed, wire, shut, broken, sent>>
  BY DEF PollBuffered
<1>2. PICK q \in Seq(Unit), lost \in Wire : Flight(q, lost)
  BY <1>0 DEF InFlight
<1>3. /\ reader \in OkReader /\ wire' \in Wire /\ Len(wire') <= SocketRoom
      /\ wire' = wire
  BY <1>0, <1>1 DEF Shape
<1>4. FlattenSeq(reader.chunks) \o (wire' \o lost) = Received \o (wire \o lost)
  BY <1>3 DEF Received
<1>5. way # "socket" => wire' = <<>>
  BY <1>0, <1>3 DEF Ends
<1>6. Shape' /\ InFlight' /\ Excused'
  BY <1>1, <1>2, <1>3, <1>4, <1>5, ReadStep
\* There is nothing to read before PassAll.
<1>7. ~(way = "take" /\ ~shut)
  <2> SUFFICES ASSUME reader = NewReader PROVE FALSE
    BY <1>0 DEF Ends
  <2>1. reader.chunks = <<>> /\ reader.len = 0
    BY DEF NewReader
  <2>2. HeaderLen \in Nat \ {0}
    BY CodecAssumption
  <2>3. Waits(reader) \/ (pending # {} /\ pending = {})
    BY <2>1, <2>2 DEF Waits, PayloadWaits, HeaderWaits
  <2> QED BY <1>1, <2>1, <2>2, <2>3
          DEF NextFrame, NextPayload, NextHeader, PayloadWaits, HeaderWaits
<1>8. Ends'
  BY <1>0, <1>1, <1>7 DEF Ends
<1> QED BY <1>6, <1>8 DEF IInv

\* poll_next with what the socket gives.
LEMMA PollReadStep ==
  ASSUME IInv, PollRead
  PROVE  IInv'
<1>0. Shape /\ Ends /\ InFlight /\ Excused
  BY DEF IInv
<1>1. /\ result = "open" /\ wire # <<>>
      /\ UNCHANGED <<way, writer, owed, shut, broken, sent>>
  BY DEF PollRead
<1>2. way = "socket"
  BY <1>0, <1>1 DEF Ends
<1>3. PICK n \in 1..ReadSize :
         LET r == PushBack(reader, SubSeq(wire, 1, n)) IN
         /\ n <= Len(wire)
         /\ wire' = SubSeq(wire, n + 1, Len(wire))
         /\ \/ NextFrame(r)
            \/ /\ Waits(r)
               /\ reader' = r
               /\ UNCHANGED <<pending, result, yielded>>
  BY DEF PollRead
<1>4. PICK q \in Seq(Unit), lost \in Wire : Flight(q, lost)
  BY <1>0 DEF InFlight
<1> DEFINE a == SubSeq(wire, 1, n)
           r == PushBack(reader, a)
<1>5. wire \in Seq(WireByte) /\ Len(wire) \in Nat /\ Len(wire) <= SocketRoom
      /\ n \in Nat \ {0} /\ n <= Len(wire)
  <2>1. ReadSize \in Nat
    BY CodecAssumption
  <2> QED BY <1>0, <1>3, <2>1 DEF Shape, Wire
<1>6. /\ a \in Wire /\ Len(a) = n /\ wire' \in Wire
      /\ Len(wire') = Len(wire) - n /\ wire = a \o wire'
  <2>1. /\ a \in Seq(WireByte) /\ Len(a) = n
        /\ SubSeq(wire, n + 1, Len(wire)) \in Seq(WireByte)
        /\ Len(SubSeq(wire, n + 1, Len(wire))) = Len(wire) - n
        /\ wire = a \o SubSeq(wire, n + 1, Len(wire))
    <3>1. wire \in Seq(WireByte) /\ n \in Nat /\ n <= Len(wire)
      BY <1>5
    <3> QED BY <3>1, CutType
  <2> HIDE DEF a
  <2> QED BY <1>3, <2>1 DEF Wire
<1>7. /\ NextFrame(r) \/ (Waits(r) /\ reader' = r
                           /\ UNCHANGED <<pending, result, yielded>>)
  BY <1>3
<1> HIDE DEF a
<1>8. a \in Piece
  BY <1>5, <1>6 DEF Piece
<1>9. Received \in Wire /\ reader \in OkReader
  BY <1>0, ReceivedType
<1>10. r \in OkReader /\ FlattenSeq(r.chunks) = Received \o a
  BY <1>8, <1>9, PushBackEffect DEF Received
<1> HIDE DEF r
<1>11. FlattenSeq(r.chunks) \o (wire' \o lost) = Received \o (wire \o lost)
  <2> DEFINE w == wire' \o lost
  <2>1. w \in Wire
    BY <1>6, WireConcat
  <2>2. (a \o wire') \o lost = a \o w
    BY <1>6, WireJoins DEF Concatenates
  <2> HIDE DEF w
  <2>3. (Received \o a) \o w = Received \o (a \o w)
    BY <1>6, <1>9, <2>1, WireJoins DEF Concatenates
  <2>4. FlattenSeq(r.chunks) \o w = Received \o (wire \o lost)
    BY <1>6, <1>10, <2>2, <2>3
  <2> QED BY <2>4 DEF w
<1>12. Len(wire') <= SocketRoom
  <2>1. SocketRoom \in Nat
    BY CodecAssumption
  <2> QED BY <1>5, <1>6, <2>1
<1>13. Ends'
  BY <1>0, <1>1, <1>2 DEF Ends
<1>14. CASE NextFrame(r)
  <2>1. way # "socket" => wire' = <<>>
    BY <1>2
  <2>2. Shape' /\ InFlight' /\ Excused'
    BY <1>1, <1>4, <1>6, <1>10, <1>11, <1>12, <1>14, <2>1, ReadStep
  <2> QED BY <1>13, <2>2 DEF IInv
<1>15. CASE Waits(r) /\ reader' = r /\ UNCHANGED <<pending, result, yielded>>
  <2>1. Received' = FlattenSeq(r.chunks) /\ Unconsumed' = Unconsumed
    BY <1>1, <1>15 DEF Received, Unconsumed
  <2>2. Flight(q, lost)'
    <3>1. Units(sent') = yielded' \o q
      BY <1>1, <1>4, <1>15 DEF Flight
    <3>2. /\ Ahead(q, Received' \o (wire' \o lost), pending', Debt(owed'))
          /\ ~broken' => lost = Unconsumed'
      BY <1>1, <1>4, <1>11, <1>15, <2>1 DEF Flight
    <3>3. result' = "open"
      BY <1>1, <1>15
    <3> QED BY <3>1, <3>2, <3>3 DEF Flight
  <2>3. Shape'
    BY <1>0, <1>1, <1>6, <1>10, <1>12, <1>15 DEF Shape
  <2>4. InFlight' /\ Excused'
    BY <1>0, <1>1, <1>15, <2>2 DEF InFlight, Excused
  <2> QED BY <1>13, <2>3, <2>4 DEF IInv
<1> QED BY <1>7, <1>14, <1>15

\* The connection gives nothing any more.
LEMMA PollEndStep ==
  ASSUME IInv, PollEnd
  PROVE  IInv'
<1>0. Shape /\ Ends /\ InFlight /\ Excused
  BY DEF IInv
<1>1. /\ way = "socket" /\ result = "open" /\ Waits(reader)
      /\ wire = <<>> /\ (shut \/ broken)
      /\ UNCHANGED <<way, writer, owed, wire, shut, broken, reading, sent, yielded>>
  BY DEF PollEnd
<1>2. result' = "eof" \/ (result' = "error" /\ broken)
  BY DEF PollEnd
<1>3. reader' = reader /\ pending' = pending
  BY <1>1 DEF reading
<1>4. PICK q \in Seq(Unit), lost \in Wire : Flight(q, lost)
  BY <1>0 DEF InFlight
<1>5. Units(sent) = yielded \o q /\ (~broken => lost = Unconsumed)
      /\ Ahead(q, Received \o (wire \o lost), pending, Debt(owed))
  BY <1>1, <1>4 DEF Flight
<1>6. Received' = Received /\ Unconsumed' = Unconsumed
  BY <1>1, <1>3 DEF Received, Unconsumed
<1>7. ASSUME ~broken
      PROVE  shut /\ q = <<>>
  <2>1. shut /\ writer.queue = <<>>
    BY <1>0, <1>1, <1>7 DEF Ends
  <2>2. Unconsumed = <<>>
    BY <2>1, BytesEmpty DEF Unconsumed, BytesIn
  <2>3. Received \in Wire /\ reader \in OkReader /\ <<>> \in Wire
    BY <1>0, ReceivedType, WireJoins DEF Concatenates
  <2>4. Received \o (wire \o lost) = Received
    <3>1. wire = <<>> /\ lost = <<>>
      BY <1>1, <1>5, <1>7, <2>2
    <3>2. wire \o lost = <<>>
      BY <3>1, <2>3, ConcatEmptySeq
    <3> QED BY <2>3, <3>2, ConcatEmptySeq DEF Wire
  <2>5. Ahead(q, FlattenSeq(reader.chunks), pending, Debt(owed))
    BY <1>5, <2>4 DEF Received
  <2>6. PICK o : o = Debt(owed)
    OBVIOUS
  <2>7. pending \in OneDebt
    BY <1>0 DEF Shape
  <2>8. q = <<>>
    BY <1>1, <2>3, <2>5, <2>6, <2>7, NothingAhead
  <2> QED BY <2>1, <2>8
<1>8. Flight(q, lost)'
  <2>1. Units(sent') = yielded' \o q
    BY <1>1, <1>5
  <2>2. /\ Ahead(q, Received' \o (wire' \o lost), pending', Debt(owed'))
        /\ ~broken' => lost = Unconsumed'
    BY <1>1, <1>3, <1>5, <1>6
  <2>3. result' = "eof" /\ ~broken' => shut' /\ q = <<>>
    BY <1>1, <1>7
  <2> QED BY <2>1, <2>2, <2>3 DEF Flight
<1>9. Shape'
  BY <1>0, <1>1, <1>2, <1>3 DEF Shape
<1>10. Ends'
  BY <1>0, <1>1, <1>3 DEF Ends
<1>11. InFlight' /\ Excused'
  BY <1>1, <1>2, <1>8 DEF InFlight, Excused
<1> QED BY <1>9, <1>10, <1>11 DEF IInv

LEMMA PrefixOf ==
  ASSUME NEW S, NEW y \in Seq(S), NEW q \in Seq(S)
  PROVE  IsPrefix(y, y \o q)
<1> DEFINE s == y \o q
           n == Len(y)
           a == SubSeq(y, 1, n)
           b == SubSeq(s, 1, n)
<1>1. /\ n \in Nat /\ n <= Len(s) /\ s \in Seq(S)
      /\ \A i \in 1..n : s[i] = y[i]
  <2>1. Len(y) \in Nat /\ Len(q) \in Nat
    OBVIOUS
  <2>2. /\ s \in Seq(S) /\ Len(s) = Len(y) + Len(q)
        /\ \A i \in 1..Len(y) + Len(q) : s[i] = IF i <= Len(y) THEN y[i] ELSE q[i - Len(y)]
    BY ConcatProperties
  <2> HIDE DEF s
  <2>3. \A i \in 1..Len(y) : s[i] = y[i]
    BY <2>1, <2>2
  <2> QED BY <2>1, <2>2, <2>3
<1>2. n <= Len(y)
  BY <1>1
<1> HIDE DEF s, n
<1>3. a \in Seq(S) /\ Len(a) = n /\ \A i \in 1..n : a[i] = y[i]
  BY <1>1, <1>2, CutType
<1>4. b \in Seq(S) /\ Len(b) = n /\ \A i \in 1..n : b[i] = s[i]
  BY <1>1, CutType
<1> HIDE DEF a, b
<1>5. \A i \in 1..Len(a) : a[i] = b[i]
  BY <1>1, <1>3, <1>4
<1>6. a = b
  BY <1>3, <1>4, <1>5, SeqEqual
<1> QED BY <1>1, <1>6 DEF IsPrefix, a, b, n, s

LEMMA StutterStep ==
  ASSUME IInv, UNCHANGED vars
  PROVE  IInv'
<1>1. /\ reader' = reader /\ pending' = pending
      /\ UNCHANGED <<way, writer, owed, wire, shut, broken, result, sent, yielded>>
  BY DEF vars, reading
<1>2. Shape' /\ Ends'
  BY <1>1 DEF IInv, Shape, Ends
<1>3. Received' = Received /\ Unconsumed' = Unconsumed
  BY <1>1 DEF Received, Unconsumed
<1>4. PICK q \in Seq(Unit), lost \in Wire : Flight(q, lost)
  BY DEF IInv, InFlight
<1>5. Flight(q, lost)'
  BY <1>1, <1>3, <1>4 DEF Flight
<1>6. InFlight' /\ Excused'
  BY <1>1, <1>5 DEF IInv, InFlight, Excused
<1> QED BY <1>2, <1>6 DEF IInv

LEMMA InitInv ==
  ASSUME Init
  PROVE  IInv
<1>1. /\ way \in Ways /\ writer = NewWriter /\ owed = {} /\ wire = <<>>
      /\ shut = FALSE /\ broken = FALSE /\ reader = NewReader /\ pending = {}
      /\ result = "open" /\ sent = <<>> /\ yielded = <<>>
  BY DEF Init
<1>2. writer \in OkWriter(FALSE) /\ writer \in OkWriter(TRUE)
      /\ BytesIn(writer.queue) = <<>>
  BY <1>1, NewWriterEffect
<1>3. reader \in OkReader /\ Received = <<>>
  BY <1>1, NewReaderEffect DEF Received
<1>4. /\ sent \in Seq(AnyFrame) /\ yielded \in Seq(Unit) /\ <<>> \in Seq(Unit)
      /\ wire \in Wire /\ <<>> \in Wire /\ Len(wire) = 0
  BY <1>1 DEF Wire
<1>5. Shape
  <2>1. SocketRoom \in Nat
    BY CodecAssumption
  <2>2. Len(wire) <= SocketRoom
    BY <1>4, <2>1
  <2>3. owed \in OneDebt /\ pending \in OneDebt
    BY <1>1 DEF OneDebt
  <2>4. shut \in BOOLEAN /\ broken \in BOOLEAN /\ result \in {"open", "eof", "error"}
    BY <1>1
  <2> QED BY <1>1, <1>2, <1>3, <1>4, <2>2, <2>3, <2>4 DEF Shape
<1>6. Ends
  BY <1>1 DEF Ends
<1>7. Flight(<<>>, <<>>)
  <2>1. Units(sent) = yielded \o <<>>
    <3>1. <<>> \o <<>> = <<>>
      BY ConcatEmptySeq
    <3> QED BY <1>1, <3>1, UnitsEmpty
  <2>2. Ahead(<<>>, Received \o (wire \o <<>>), pending, Debt(owed))
    <3>1. Received \o (wire \o <<>>) = <<>>
      BY <1>1, <1>3, <1>4, WireJoins DEF Concatenates
    <3>2. Path(<<>>, Follows, Debt(pending), Debt(owed))
      BY <1>1, PathEmpty
    <3> QED BY <3>1, <3>2, EncodedEmpty DEF Ahead
  <2>3. Unconsumed = <<>>
    BY <1>2 DEF Unconsumed, BytesIn
  <2> QED BY <1>1, <2>1, <2>2, <2>3 DEF Flight
<1>8. InFlight /\ Excused
  BY <1>1, <1>4, <1>7 DEF InFlight, Excused
<1> QED BY <1>5, <1>6, <1>8 DEF IInv

LEMMA InvInductive == Spec => []IInv
<1>1. Init => IInv
  BY InitInv
<1>2. IInv /\ [Next]_vars => IInv'
  <2> SUFFICES ASSUME IInv, [Next]_vars PROVE IInv'
    OBVIOUS
  <2>1. CASE Send \/ Write
    BY <2>1, WriteStep
  <2>2. CASE PollWrite
    BY <2>2, PollWriteStep
  <2>3. CASE PollClose
    BY <2>3, PollCloseStep
  <2>4. CASE Break
    BY <2>4, BreakStep
  <2>5. CASE PassChunk
    BY <2>5, PassChunkStep
  <2>6. CASE PassAll
    BY <2>6, PassAllStep
  <2>7. CASE PollBuffered
    BY <2>7, PollBufferedStep
  <2>8. CASE PollRead
    BY <2>8, PollReadStep
  <2>9. CASE PollEnd
    BY <2>9, PollEndStep
  <2>10. CASE UNCHANGED vars
    BY <2>10, StutterStep
  <2> QED BY <2>1, <2>2, <2>3, <2>4, <2>5, <2>6, <2>7, <2>8, <2>9, <2>10 DEF Next
<1> QED BY <1>1, <1>2, PTL DEF Spec

-----------------------------------------------------------------------------
\* The state has its shape: the payload owed and the one pending are of a stream
\* and a number of bytes, and there is never more than one of either, which the
\* Options of FrameWriter and FrameReader and the checks of write keep.
THEOREM TypeCorrect == Spec => []TypeOK
<1>1. IInv => TypeOK
  <2> SUFFICES ASSUME IInv PROVE TypeOK
    OBVIOUS
  <2>1. Shape
    BY DEF IInv
  <2>2. writer \in Writer(WireByte)
    <3>1. PICK fresh \in BOOLEAN : writer \in OkWriter(fresh)
      BY <2>1, WriterIs
    <3> QED BY <3>1, OkWriterType
  <2>3. reader \in Reader(WireByte)
    BY <2>1, OkReaderType DEF Shape
  <2>4. ASSUME NEW o \in OneDebt
        PROVE  o \subseteq [stream : Word, remain : Nat] /\ Cardinality(o) <= 1
    <3>1. CASE o = {}
      <4>1. Cardinality(o) = 0
        BY <3>1, FS_EmptySet
      <4> QED BY <3>1, <4>1
    <3>2. CASE o # {}
      <4>1. PICK p \in Payloads : o = {p}
        BY <3>2 DEF OneDebt
      <4>2. Cardinality({p}) = 1
        BY FS_Singleton
      <4> QED BY <4>1, <4>2 DEF Payloads
    <3> QED BY <3>1, <3>2
  <2>5. /\ owed \subseteq [stream : Word, remain : Nat]
        /\ pending \subseteq [stream : Word, remain : Nat]
        /\ Cardinality(owed) <= 1 /\ Cardinality(pending) <= 1
    BY <2>1, <2>4 DEF Shape
  <2> QED BY <2>1, <2>2, <2>3, <2>5 DEF TypeOK, Shape, Wire
<1> QED BY <1>1, InvInductive, PTL

\* filled_len and len, which backpressure, PollClose and Header::read rely on,
\* count exactly the bytes of the two chains, no chain keeps an empty chunk and
\* no chunk is written beyond its capacity.
THEOREM ChainsCorrect == Spec => []ChainsExact
<1>1. IInv => ChainsExact
  <2> SUFFICES ASSUME IInv PROVE ChainsExact
    OBVIOUS
  <2>1. Shape
    BY DEF IInv
  <2>2. PICK fresh \in BOOLEAN :
           writer \in OkWriter(fresh) /\ Unconsumed = BytesIn(writer.queue)
    BY <2>1, WriterIs
  <2>3. writer.filled_len = Len(Unconsumed) /\ writer.queue \in Seq(OkChunk(fresh))
    BY <2>2, OkWriterType
  <2>4. ASSUME NEW n \in DOMAIN writer.queue
        PROVE  FilledLen(writer.queue[n]) > 0 /\ AvailableLen(writer.queue[n]) >= 0
    <3> DEFINE c == writer.queue[n]
    <3>1. c \in OkChunk(fresh)
      BY <2>3
    <3> HIDE DEF c
    <3>2. /\ c.consumed \in Nat /\ c.consumed < Len(c.data)
          /\ Len(c.data) \in Nat /\ Len(c.data) <= ChunkCapacity
      BY <3>1, OkChunkType
    <3>3. ChunkCapacity \in Nat
      BY CapacityAssumption
    <3>4. FilledLen(c) > 0 /\ AvailableLen(c) >= 0
      BY <3>2, <3>3 DEF FilledLen, AvailableLen
    <3> QED BY <3>4 DEF c
  <2>5. /\ reader.len = Len(Received) /\ reader.chunks \in Seq(Piece)
    BY <2>1, OkReaderType DEF Shape, Received
  <2>6. ASSUME NEW n \in DOMAIN reader.chunks
        PROVE  reader.chunks[n] # <<>>
    <3>1. reader.chunks[n] \in Piece
      BY <2>5
    <3> QED BY <3>1 DEF Piece
  <2> QED BY <2>3, <2>4, <2>5, <2>6 DEF ChainsExact
<1> QED BY <1>1, InvInductive, PTL

\* However chunks and reads cut the bytes, FrameReader::next_frame returns the
\* frames that FrameWriter::write was given, in order and none made up; it fails
\* only on a lost connection or an unknown type.
THEOREM FramesCorrect == Spec => []FramesInOrder
<1>1. IInv => FramesInOrder
  <2> SUFFICES ASSUME IInv PROVE FramesInOrder
    OBVIOUS
  <2>1. Shape /\ Excused /\ InFlight
    BY DEF IInv
  <2>2. PICK q \in Seq(Unit) : Units(sent) = yielded \o q
    BY <2>1 DEF InFlight, Flight
  <2>3. yielded \in Seq(Unit)
    BY <2>1 DEF Shape
  <2>4. IsPrefix(yielded, Units(sent))
    BY <2>2, <2>3, PrefixOf
  <2> QED BY <2>1, <2>4 DEF FramesInOrder, Excused
<1> QED BY <1>1, InvInductive, PTL

\* No byte is lost or doubled between the two chains, in any of the three ways
\* chunks get from one to the other.
THEOREM BytesCorrect == Spec => []BytesConserved
<1>1. IInv => BytesConserved
  <2> SUFFICES ASSUME IInv, ~broken, result # "error"
               PROVE  Encoded(yielded) \o Received \o wire \o Unconsumed
                        = Encoded(sent)
    BY DEF BytesConserved
  <2>1. Shape /\ InFlight
    BY DEF IInv
  <2>2. PICK q \in Seq(Unit), lost \in Wire :
           /\ Units(sent) = yielded \o q /\ lost = Unconsumed
           /\ Received \o (wire \o lost) = Encoded(q)
    BY <2>1 DEF InFlight, Flight, Ahead
  <2>3. /\ yielded \in Seq(Unit) /\ sent \in Seq(AnyFrame)
        /\ wire \in Wire /\ Received \in Wire
    BY <2>1, ReceivedType DEF Shape
  <2>4. yielded \in Seq(AnyFrame) /\ q \in Seq(AnyFrame)
    BY <2>3, UnitFrame, SeqMonotonic
  <2>5. Encoded(sent) = Encoded(yielded) \o Encoded(q)
    <3>1. Encoded(Units(sent)) = Encoded(sent)
      BY <2>3, EncodedUnits
    <3>2. Encoded(yielded \o q) = Encoded(yielded) \o Encoded(q)
      BY <2>4, EncodedConcat
    <3> QED BY <2>2, <3>1, <3>2
  <2> DEFINE e == Encoded(yielded)
             g == Received
  <2>6. e \in Wire /\ g \in Wire /\ wire \in Wire
    BY <2>3, <2>4, EncodedType
  <2> HIDE DEF e, g
  <2>7. ((e \o g) \o wire) \o lost = e \o (g \o (wire \o lost))
    <3>1. wire \o lost \in Wire /\ e \o g \in Wire
      BY <2>6, WireConcat
    <3>2. ((e \o g) \o wire) \o lost = (e \o g) \o (wire \o lost)
      BY <2>6, <3>1, WireJoins DEF Concatenates
    <3>3. (e \o g) \o (wire \o lost) = e \o (g \o (wire \o lost))
      BY <2>6, <3>1, WireJoins DEF Concatenates
    <3> QED BY <3>2, <3>3
  <2> QED BY <2>2, <2>5, <2>7 DEF e, g
<1> QED BY <1>1, InvInductive, PTL

\* An end of file that poll_close made comes after all the frames written, and
\* the reader then waits for what the session still owed, and for nothing else.
THEOREM EofCorrect == Spec => []EofAfterAll
<1>1. IInv => EofAfterAll
  <2> SUFFICES ASSUME IInv, result = "eof", ~broken
               PROVE  yielded = Units(sent) /\ Debt(pending) = Debt(owed)
    BY DEF EofAfterAll
  <2>1. PICK lost \in Wire :
           /\ Units(sent) = yielded \o <<>>
           /\ Ahead(<<>>, Received \o (wire \o lost), pending, Debt(owed))
    BY DEF IInv, InFlight, Flight
  <2>2. yielded \in Seq(Unit)
    BY DEF IInv, Shape
  <2>3. Path(<<>>, Follows, Debt(pending), Debt(owed))
    BY <2>1 DEF Ahead
  <2>4. Debt(pending) = Debt(owed)
    BY <2>3, PathEmpty
  <2> QED BY <2>1, <2>2, <2>4, ConcatEmptySeq
<1> QED BY <1>1, InvInductive, PTL
================================================================================
