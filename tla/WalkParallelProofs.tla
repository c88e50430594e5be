------------------------- MODULE WalkParallelProofs -------------------------
(***************************************************************************)
(* Proofs about the parallel walk, for every tree, every number of         *)
(* workers and segments, and every way calls fail.                         *)
(***************************************************************************)
EXTENDS WalkParallel, SearchLemmas, FiniteSetTheorems

Tokens == Seq(Dirents) \cup {Separator}

-----------------------------------------------------------------------------
(* Segments put together. *)

(* The function by which Flatten is defined: flat[k] is what the first k   *)
(* segments hold, here up to the m-th.                                     *)
IsFlat(flat, segments, m) ==
  /\ DOMAIN flat = 0..m
  /\ flat[0] = <<>>
  /\ \A k \in 1..m : flat[k] = flat[k - 1] \o segments[k]

(* Every sequence of segments has a table of its beginnings. *)
LEMMA FlatExists ==
  ASSUME NEW segments, NEW n \in Nat
  PROVE  \E flat : IsFlat(flat, segments, n)
  <1> DEFINE Holds == {m \in Nat : \E flat : IsFlat(flat, segments, m)}
  <1>1. 0 \in Holds
    <2> DEFINE f == [k \in 0..0 |-> <<>>]
    <2>1. IsFlat(f, segments, 0)
      BY DEF IsFlat
    <2> QED BY <2>1
  <1>2. ASSUME NEW m \in Nat, m \in Holds PROVE m + 1 \in Holds
    <2>1. PICK f : IsFlat(f, segments, m)
      BY <1>2
    <2> DEFINE g == [k \in 0..(m + 1) |-> IF k = m + 1 THEN f[m] \o segments[m + 1] ELSE f[k]]
    <2>2. /\ m + 1 \in Nat /\ m + 1 \in 0..(m + 1)
          /\ \A k \in 0..m : k \in 0..(m + 1) /\ k # m + 1
          /\ \A k \in 1..(m + 1) : k - 1 \in 0..m /\ (k \in 1..m \/ k = m + 1)
          /\ (m + 1) - 1 = m /\ 0 \in 0..m
          /\ \A k \in 1..m : k \in 0..m
      OBVIOUS
    <2>3. DOMAIN g = 0..(m + 1) /\ g[m + 1] = f[m] \o segments[m + 1]
      BY <2>2
    <2>4. \A k \in 0..m : g[k] = f[k]
      BY <2>2
    <2> HIDE DEF g
    <2>5. ASSUME NEW k \in 1..(m + 1) PROVE g[k] = g[k - 1] \o segments[k]
      <3>1. CASE k = m + 1
        BY <2>2, <2>3, <2>4, <3>1
      <3>2. CASE k \in 1..m
        <4>1. f[k] = f[k - 1] \o segments[k]
          BY <2>1, <3>2 DEF IsFlat
        <4> QED BY <2>2, <2>4, <3>2, <4>1
      <3> QED BY <2>2, <3>1, <3>2
    <2>6. g[0] = <<>>
      BY <2>1, <2>2, <2>4 DEF IsFlat
    <2>7. IsFlat(g, segments, m + 1)
      BY <2>3, <2>5, <2>6 DEF IsFlat
    <2> QED BY <2>2, <2>7
  <1> HIDE DEF Holds
  <1>3. n \in Holds
    BY <1>1, <1>2, InductionBySet
  <1> QED BY <1>3 DEF Holds

(* Flatten, which chooses a recursive function, is the last of that table. *)
LEMMA FlattenDef ==
  ASSUME NEW T, NEW segments \in Seq(Seq(T))
  PROVE  \E flat : IsFlat(flat, segments, Len(segments)) /\ Flatten(segments) = flat[Len(segments)]
  <1> DEFINE n == Len(segments)
             flat == CHOOSE f : f = [k \in 0..n |-> IF k = 0 THEN <<>> ELSE f[k - 1] \o segments[k]]
  <1>1. n \in Nat
    BY LenProperties
  <1>2. PICK g : IsFlat(g, segments, n)
    BY <1>1, FlatExists
  <1> DEFINE h == [k \in 0..n |-> g[k]]
  <1>3. h = [k \in 0..n |-> IF k = 0 THEN <<>> ELSE h[k - 1] \o segments[k]]
    <2>1. ASSUME NEW k \in 0..n
          PROVE  h[k] = IF k = 0 THEN <<>> ELSE h[k - 1] \o segments[k]
      <3>1. CASE k = 0
        BY <1>1, <1>2, <3>1 DEF IsFlat
      <3>2. CASE k # 0
        <4>1. k \in 1..n /\ k - 1 \in 0..n
          BY <1>1, <3>2
        <4> QED BY <1>2, <3>2, <4>1 DEF IsFlat
      <3> QED BY <3>1, <3>2
    <2> QED BY <2>1
  <1> HIDE DEF h
  <1>4. flat = [k \in 0..n |-> IF k = 0 THEN <<>> ELSE flat[k - 1] \o segments[k]]
    BY <1>3
  <1>5. Flatten(segments) = flat[n]
    BY DEF Flatten
  <1> HIDE DEF flat
  <1>6. IsFlat(flat, segments, n)
    <2>1. DOMAIN flat = 0..n
      BY <1>4
    <2>2. \A k \in 0..n : flat[k] = IF k = 0 THEN <<>> ELSE flat[k - 1] \o segments[k]
      BY <1>4
    <2>3. \A k \in 1..n : k \in 0..n /\ k # 0
      BY <1>1
    <2>4. 0 \in 0..n
      BY <1>1
    <2> HIDE DEF n
    <2>5. flat[0] = <<>> /\ \A k \in 1..n : flat[k] = flat[k - 1] \o segments[k]
      BY <2>2, <2>3, <2>4
    <2> QED BY <2>1, <2>5 DEF IsFlat
  <1> QED BY <1>5, <1>6

(* The beginnings hold what the segments hold. *)
LEMMA FlatTypes ==
  ASSUME NEW T, NEW segments \in Seq(Seq(T)), NEW flat, NEW m \in 0..Len(segments),
         IsFlat(flat, segments, m)
  PROVE  \A k \in 0..m : flat[k] \in Seq(T)
  <1>1. m \in Nat /\ Len(segments) \in Nat /\ \A k \in 1..m : segments[k] \in Seq(T)
    BY LenProperties
  <1> DEFINE Holds == {k \in Nat : k <= m => flat[k] \in Seq(T)}
  <1>2. 0 \in Holds
    BY EmptySeq DEF IsFlat
  <1>3. ASSUME NEW k \in Nat, k \in Holds PROVE k + 1 \in Holds
    <2>1. CASE k + 1 <= m
      <3>1. k + 1 \in 1..m /\ (k + 1) - 1 = k /\ k <= m
        BY <1>1, <2>1
      <3>2. flat[k + 1] = flat[(k + 1) - 1] \o segments[k + 1]
        BY <3>1 DEF IsFlat
      <3>3. flat[k + 1] \in Seq(T)
        BY <1>1, <1>3, <3>1, <3>2, ConcatProperties
      <3> QED BY <3>3
    <2> QED BY <2>1
  <1> HIDE DEF Holds
  <1>4. \A k \in Nat : k \in Holds
    BY <1>2, <1>3, InductionBySet
  <1> QED BY <1>1, <1>4 DEF Holds

(* What the first segments hold depends on them alone. *)
LEMMA FlatUnique ==
  ASSUME NEW a, NEW b, NEW f, NEW g, NEW m \in Nat, NEW n \in Nat, n <= m,
         IsFlat(f, a, m), IsFlat(g, b, n), \A k \in 1..n : a[k] = b[k]
  PROVE  f[n] = g[n]
  <1> DEFINE Holds == {k \in Nat : k <= n => f[k] = g[k]}
  <1>1. 0 \in Holds
    BY DEF IsFlat
  <1>2. ASSUME NEW k \in Nat, k \in Holds PROVE k + 1 \in Holds
    <2>1. CASE k + 1 <= n
      <3>1. k + 1 \in 1..n /\ k + 1 \in 1..m /\ (k + 1) - 1 = k /\ k <= n
        BY <2>1
      <3>2. /\ f[k + 1] = f[(k + 1) - 1] \o a[k + 1]
            /\ g[k + 1] = g[(k + 1) - 1] \o b[k + 1]
        BY <3>1 DEF IsFlat
      <3>3. f[k + 1] = g[k + 1]
        BY <1>2, <3>1, <3>2
      <3> QED BY <3>3
    <2> QED BY <2>1
  <1> HIDE DEF Holds
  <1>3. n \in Holds
    BY <1>1, <1>2, InductionBySet
  <1> QED BY <1>3 DEF Holds

(* So does the whole. *)
LEMMA FlattenType ==
  ASSUME NEW T, NEW segments \in Seq(Seq(T))
  PROVE  Flatten(segments) \in Seq(T)
  <1>1. Len(segments) \in Nat
    BY LenProperties
  <1>2. PICK flat : IsFlat(flat, segments, Len(segments)) /\ Flatten(segments) = flat[Len(segments)]
    BY FlattenDef
  <1>3. Len(segments) \in 0..Len(segments)
    BY <1>1
  <1> QED BY <1>2, <1>3, FlatTypes

(* No segments hold nothing. *)
LEMMA FlattenEmpty ==
  Flatten(<<>>) = <<>>
  <1>1. <<>> \in Seq(Seq({})) /\ Len(<<>>) = 0
    BY EmptySeq
  <1>2. PICK flat : IsFlat(flat, <<>>, Len(<<>>)) /\ Flatten(<<>>) = flat[Len(<<>>)]
    BY <1>1, FlattenDef
  <1> QED BY <1>1, <1>2 DEF IsFlat

(* The first segments hold the beginning. *)
LEMMA FlattenPrefix ==
  ASSUME NEW T, NEW segments \in Seq(Seq(T)), NEW n \in 0..Len(segments)
  PROVE  \E rest \in Seq(T) : Flatten(segments) = Flatten(SubSeq(segments, 1, n)) \o rest
  <1> DEFINE first == SubSeq(segments, 1, n)
             all == Len(segments)
  <1>1. all \in Nat /\ n \in Nat /\ n <= all /\ \A k \in 1..all : segments[k] \in Seq(T)
    BY LenProperties
  <1>2. first \in Seq(Seq(T)) /\ Len(first) = n
    BY SplitAt
  <1>3. \A k \in 1..n : first[k] = segments[k]
    <2>1. \A i \in 1..n : segments[i] \in Seq(T)
      BY <1>1
    <2>2. \A i \in 1..(n - 1 + 1) : first[i] = segments[1 + i - 1]
      BY <1>1, <2>1, SubSeqProperties
    <2> HIDE DEF first
    <2>3. \A i \in 1..n : i \in 1..(n - 1 + 1) /\ 1 + i - 1 = i
      BY <1>1
    <2> QED BY <2>2, <2>3
  <1> HIDE DEF first
  <1>4. PICK f : IsFlat(f, segments, all) /\ Flatten(segments) = f[all]
    BY FlattenDef
  <1>5. PICK g : IsFlat(g, first, n) /\ Flatten(first) = g[n]
    BY <1>2, FlattenDef
  <1> HIDE DEF all
  <1>6. f[n] = g[n]
    <2>1. \A k \in 1..n : segments[k] = first[k]
      BY <1>3
    <2> QED BY <1>1, <1>4, <1>5, <2>1, FlatUnique
  <1>7. g[n] \in Seq(T)
    BY <1>2, <1>5, FlattenType
  <1> DEFINE Holds == {k \in Nat : n + k <= all => \E rest \in Seq(T) : f[n + k] = g[n] \o rest}
  <1>8. 0 \in Holds
    <2>1. n + 0 = n /\ g[n] = g[n] \o <<>> /\ <<>> \in Seq(T)
      BY <1>1, <1>7, ConcatEmptySeq, EmptySeq
    <2> QED BY <1>6, <2>1
  <1>9. ASSUME NEW k \in Nat, k \in Holds PROVE k + 1 \in Holds
    <2>0. k + 1 \in Nat
      OBVIOUS
    <2> SUFFICES ASSUME n + (k + 1) <= all
                 PROVE  \E rest \in Seq(T) : f[n + (k + 1)] = g[n] \o rest
      BY <2>0
    <2>1. n + k <= all /\ n + (k + 1) \in 1..all /\ (n + (k + 1)) - 1 = n + k
      BY <1>1
    <2>2. PICK rest \in Seq(T) : f[n + k] = g[n] \o rest
      BY <1>9, <2>1
    <2>3. f[n + (k + 1)] = f[n + k] \o segments[n + (k + 1)]
      <3>1. f[n + (k + 1)] = f[(n + (k + 1)) - 1] \o segments[n + (k + 1)]
        BY <1>4, <2>1 DEF IsFlat
      <3> QED BY <2>1, <3>1
    <2>4. segments[n + (k + 1)] \in Seq(T)
      BY <1>1, <2>1
    <2>5. f[n + (k + 1)] = g[n] \o (rest \o segments[n + (k + 1)])
      <3> DEFINE a == g[n]
                 x == segments[n + (k + 1)]
      <3>1. a \in Seq(T) /\ x \in Seq(T)
        BY <1>7, <2>4
      <3> HIDE DEF a, x
      <3>2. Cat(Cat(a, rest), x) = Cat(a, Cat(rest, x))
        BY <3>1, ThreeConcat
      <3> QED BY <2>2, <2>3, <3>2 DEF a, x, Cat
    <2>6. rest \o segments[n + (k + 1)] \in Seq(T)
      BY <2>4, ConcatProperties
    <2> QED BY <2>5, <2>6
  <1> HIDE DEF Holds
  <1>10. all - n \in Holds
    <2>1. all - n \in Nat
      BY <1>1
    <2> QED BY <1>8, <1>9, <2>1, InductionBySet
  <1>11. n + (all - n) = all
    BY <1>1
  <1> HIDE DEF all
  <1>12. \E rest \in Seq(T) : f[all] = g[n] \o rest
    BY <1>1, <1>10, <1>11 DEF Holds
  <1> QED BY <1>4, <1>5, <1>12 DEF first

(* The first segment comes first. *)
LEMMA FlattenFirst ==
  ASSUME NEW T, NEW segments \in Seq(Seq(T)), segments # <<>>
  PROVE  Flatten(segments) = segments[1] \o Flatten(Tail(segments))
  <1> DEFINE tail == Tail(segments)
             n == Len(tail)
  <1>1. /\ tail \in Seq(Seq(T)) /\ n \in Nat /\ Len(segments) = n + 1
        /\ \A i \in 1..n : tail[i] = segments[i + 1]
        /\ \A i \in 1..(n + 1) : segments[i] \in Seq(T)
    <2>1. Len(segments) \in Nat \ {0} /\ \A i \in 1..Len(segments) : segments[i] \in Seq(T)
      BY EmptySeq, LenProperties
    <2>2. /\ tail \in Seq(Seq(T)) /\ n = Len(segments) - 1
          /\ \A i \in 1..n : tail[i] = segments[i + 1]
      BY HeadTailProperties
    <2> HIDE DEF n
    <2>3. n \in Nat /\ Len(segments) = n + 1
      BY <2>1, <2>2
    <2> QED BY <2>1, <2>2, <2>3
  <1>2. PICK f : IsFlat(f, segments, n + 1) /\ Flatten(segments) = f[n + 1]
    BY <1>1, FlattenDef
  <1>3. PICK g : IsFlat(g, tail, n) /\ Flatten(tail) = g[n]
    BY <1>1, FlattenDef
  <1> HIDE DEF n, tail
  <1>4. segments[1] \in Seq(T)
    BY <1>1
  <1>5. \A k \in 0..n : g[k] \in Seq(T)
    <2>1. n \in 0..Len(tail)
      BY <1>1 DEF n
    <2> QED BY <1>1, <1>3, <2>1, FlatTypes
  <1> DEFINE Holds == {k \in Nat : k <= n => f[k + 1] = segments[1] \o g[k]}
  <1>6. 0 \in Holds
    <2>1. 1 \in 1..(n + 1) /\ 1 - 1 = 0 /\ 0 + 1 = 1
      BY <1>1
    <2>2. f[1] = f[1 - 1] \o segments[1]
      BY <1>2, <2>1 DEF IsFlat
    <2>3. f[0] = <<>> /\ g[0] = <<>>
      BY <1>2, <1>3 DEF IsFlat
    <2>4. <<>> \o segments[1] = segments[1] /\ segments[1] \o <<>> = segments[1]
      BY <1>4, ConcatEmptySeq
    <2>5. f[0 + 1] = segments[1] \o g[0]
      BY <2>1, <2>2, <2>3, <2>4
    <2> QED BY <2>5
  <1>7. ASSUME NEW k \in Nat, k \in Holds PROVE k + 1 \in Holds
    <2>0. k + 1 \in Nat
      OBVIOUS
    <2> SUFFICES ASSUME k + 1 <= n PROVE f[(k + 1) + 1] = segments[1] \o g[k + 1]
      BY <2>0
    <2>1. /\ k <= n /\ k \in 0..n /\ k + 1 \in 1..n /\ (k + 1) - 1 = k
          /\ (k + 1) + 1 \in 1..(n + 1) /\ ((k + 1) + 1) - 1 = k + 1
      BY <1>1
    <2>2. f[(k + 1) + 1] = f[((k + 1) + 1) - 1] \o segments[(k + 1) + 1]
      BY <1>2, <2>1 DEF IsFlat
    <2>3. g[k + 1] = g[(k + 1) - 1] \o tail[k + 1]
      BY <1>3, <2>1 DEF IsFlat
    <2>4. f[k + 1] = segments[1] \o g[k]
      BY <1>7, <2>1
    <2>5. tail[k + 1] = segments[(k + 1) + 1] /\ segments[(k + 1) + 1] \in Seq(T)
      BY <1>1, <2>1
    <2>6. (segments[1] \o g[k]) \o segments[(k + 1) + 1]
            = segments[1] \o (g[k] \o segments[(k + 1) + 1])
      <3> DEFINE a == segments[1]
                 b == g[k]
                 x == segments[(k + 1) + 1]
      <3>1. a \in Seq(T) /\ b \in Seq(T) /\ x \in Seq(T)
        BY <1>4, <1>5, <2>1, <2>5
      <3> HIDE DEF a, b, x
      <3>2. Cat(Cat(a, b), x) = Cat(a, Cat(b, x))
        BY <3>1, ThreeConcat
      <3> QED BY <3>2 DEF a, b, x, Cat
    <2> QED BY <2>1, <2>2, <2>3, <2>4, <2>5, <2>6
  <1> HIDE DEF Holds
  <1>8. n \in Holds
    BY <1>1, <1>6, <1>7, InductionBySet
  <1>9. f[n + 1] = segments[1] \o g[n]
    <2>1. n <= n
      BY <1>1
    <2> QED BY <1>8, <2>1 DEF Holds
  <1> QED BY <1>2, <1>3, <1>9 DEF tail

-----------------------------------------------------------------------------
(* The buffers that are gathered. *)

(* The function by which Collected is defined. *)
IsBuilder(builder, buffers, m) ==
  /\ DOMAIN builder = 0..m
  /\ builder[0] = <<>>
  /\ \A k \in 1..m : builder[k] = collect_slot_iovec(builder[k - 1], buffers[k])

(* There is such a function. *)
LEMMA BuilderExists ==
  ASSUME NEW buffers, NEW n \in Nat
  PROVE  \E builder : IsBuilder(builder, buffers, n)
  <1> DEFINE Holds == {m \in Nat : \E builder : IsBuilder(builder, buffers, m)}
  <1>1. 0 \in Holds
    <2> DEFINE f == [k \in 0..0 |-> <<>>]
    <2>1. IsBuilder(f, buffers, 0)
      BY DEF IsBuilder
    <2> QED BY <2>1
  <1>2. ASSUME NEW m \in Nat, m \in Holds PROVE m + 1 \in Holds
    <2>1. PICK f : IsBuilder(f, buffers, m)
      BY <1>2
    <2> DEFINE next == collect_slot_iovec(f[m], buffers[m + 1])
    <2> HIDE DEF next
    <2> DEFINE g == [k \in 0..(m + 1) |-> IF k = m + 1 THEN next ELSE f[k]]
    <2>2. /\ m + 1 \in Nat /\ m + 1 \in 0..(m + 1)
          /\ \A k \in 0..m : k \in 0..(m + 1) /\ k # m + 1
          /\ \A k \in 1..(m + 1) : k - 1 \in 0..m /\ (k \in 1..m \/ k = m + 1)
          /\ (m + 1) - 1 = m /\ 0 \in 0..m /\ m \in 0..m
          /\ \A k \in 1..m : k \in 0..m
      OBVIOUS
    <2>3. DOMAIN g = 0..(m + 1) /\ g[m + 1] = next
      BY <2>2
    <2>4. \A k \in 0..m : g[k] = f[k]
      BY <2>2
    <2> HIDE DEF g
    <2>5. ASSUME NEW k \in 1..(m + 1) PROVE g[k] = collect_slot_iovec(g[k - 1], buffers[k])
      <3>1. CASE k = m + 1
        BY <2>2, <2>3, <2>4, <3>1 DEF next
      <3>2. CASE k \in 1..m
        <4>1. f[k] = collect_slot_iovec(f[k - 1], buffers[k])
          BY <2>1, <3>2 DEF IsBuilder
        <4>2. g[k] = f[k] /\ g[k - 1] = f[k - 1]
          BY <2>2, <2>4, <3>2
        <4> QED BY <4>1, <4>2
      <3> QED BY <2>2, <3>1, <3>2
    <2>6. g[0] = <<>>
      BY <2>1, <2>2, <2>4 DEF IsBuilder
    <2>7. IsBuilder(g, buffers, m + 1)
      BY <2>3, <2>5, <2>6 DEF IsBuilder
    <2> QED BY <2>2, <2>7
  <1> HIDE DEF Holds
  <1>3. n \in Holds
    BY <1>1, <1>2, InductionBySet
  <1> QED BY <1>3 DEF Holds

(* Collected is its last value. *)
LEMMA CollectedDef ==
  ASSUME NEW T, NEW buffers \in Seq(T)
  PROVE  \E builder : /\ IsBuilder(builder, buffers, Len(buffers))
                      /\ Collected(buffers) = builder[Len(buffers)]
  <1> DEFINE n == Len(buffers)
             builder == CHOOSE f : f = [k \in 0..n |->
               IF k = 0 THEN <<>> ELSE collect_slot_iovec(f[k - 1], buffers[k])]
  <1>1. n \in Nat
    BY LenProperties
  <1>2. PICK g : IsBuilder(g, buffers, n)
    BY <1>1, BuilderExists
  <1> DEFINE h == [k \in 0..n |-> g[k]]
  <1>3. h = [k \in 0..n |-> IF k = 0 THEN <<>> ELSE collect_slot_iovec(h[k - 1], buffers[k])]
    <2>1. ASSUME NEW k \in 0..n
          PROVE  h[k] = IF k = 0 THEN <<>> ELSE collect_slot_iovec(h[k - 1], buffers[k])
      <3>1. CASE k = 0
        BY <1>1, <1>2, <3>1 DEF IsBuilder
      <3>2. CASE k # 0
        <4>1. k \in 1..n /\ k - 1 \in 0..n
          BY <1>1, <3>2
        <4>2. g[k] = collect_slot_iovec(g[k - 1], buffers[k])
          BY <1>2, <4>1 DEF IsBuilder
        <4>3. h[k] = g[k] /\ h[k - 1] = g[k - 1]
          BY <4>1
        <4> QED BY <3>2, <4>2, <4>3
      <3> QED BY <3>1, <3>2
    <2> QED BY <2>1
  <1> HIDE DEF h
  <1>4. builder = [k \in 0..n |->
          IF k = 0 THEN <<>> ELSE collect_slot_iovec(builder[k - 1], buffers[k])]
    BY <1>3
  <1>5. Collected(buffers) = builder[n]
    BY DEF Collected
  <1> HIDE DEF builder
  <1>6. IsBuilder(builder, buffers, n)
    <2>1. DOMAIN builder = 0..n
      BY <1>4
    <2>2. \A k \in 0..n : builder[k] = IF k = 0 THEN <<>>
                                       ELSE collect_slot_iovec(builder[k - 1], buffers[k])
      BY <1>4
    <2>3. \A k \in 1..n : k \in 0..n /\ k # 0
      BY <1>1
    <2>4. 0 \in 0..n
      BY <1>1
    <2> HIDE DEF n
    <2>5. /\ builder[0] = <<>>
          /\ \A k \in 1..n : builder[k] = collect_slot_iovec(builder[k - 1], buffers[k])
      BY <2>2, <2>3, <2>4
    <2> QED BY <2>1, <2>5 DEF IsBuilder
  <1> QED BY <1>5, <1>6

(* Only buffers are collected. *)
LEMMA CollectedType ==
  ASSUME NEW T, NEW buffers \in Seq(T)
  PROVE  Collected(buffers) \in Seq(T)
  <1> DEFINE n == Len(buffers)
  <1>1. n \in Nat /\ \A k \in 1..n : buffers[k] \in T
    BY LenProperties
  <1>2. PICK f : IsBuilder(f, buffers, n) /\ Collected(buffers) = f[n]
    BY CollectedDef
  <1> HIDE DEF n
  <1> DEFINE Holds == {k \in Nat : k <= n => f[k] \in Seq(T)}
  <1>3. 0 \in Holds
    BY <1>2, EmptySeq DEF IsBuilder
  <1>4. ASSUME NEW k \in Nat, k \in Holds PROVE k + 1 \in Holds
    <2>1. CASE k + 1 <= n
      <3>1. k + 1 \in 1..n /\ (k + 1) - 1 = k /\ k <= n
        BY <1>1, <2>1
      <3>2. f[k + 1] = collect_slot_iovec(f[(k + 1) - 1], buffers[k + 1])
        BY <1>2, <3>1 DEF IsBuilder
      <3>3. f[k + 1] = f[k] \/ f[k + 1] = Append(f[k], buffers[k + 1])
        BY <3>1, <3>2 DEF collect_slot_iovec
      <3>4. f[k] \in Seq(T) /\ buffers[k + 1] \in T
        BY <1>1, <1>4, <3>1
      <3>5. Append(f[k], buffers[k + 1]) \in Seq(T)
        BY <3>4, AppendProperties
      <3>6. f[k + 1] \in Seq(T)
        BY <3>3, <3>4, <3>5
      <3> QED BY <3>6
    <2> QED BY <2>1
  <1> HIDE DEF Holds
  <1>5. n \in Holds
    BY <1>1, <1>3, <1>4, InductionBySet
  <1> QED BY <1>1, <1>2, <1>5 DEF Holds

(* The function by which SumOfCounts is defined. *)
IsSum(sum, parts, m) ==
  /\ DOMAIN sum = 0..m
  /\ sum[0] = 0
  /\ \A k \in 1..m : sum[k] = sum[k - 1] + parts[k].emitted_count

(* There is such a function. *)
LEMMA SumExists ==
  ASSUME NEW parts, NEW n \in Nat
  PROVE  \E sum : IsSum(sum, parts, n)
  <1> DEFINE Holds == {m \in Nat : \E sum : IsSum(sum, parts, m)}
  <1>1. 0 \in Holds
    <2> DEFINE f == [k \in 0..0 |-> 0]
    <2>1. IsSum(f, parts, 0)
      BY DEF IsSum
    <2> QED BY <2>1
  <1>2. ASSUME NEW m \in Nat, m \in Holds PROVE m + 1 \in Holds
    <2>1. PICK f : IsSum(f, parts, m)
      BY <1>2
    <2> DEFINE next == f[m] + parts[m + 1].emitted_count
    <2> HIDE DEF next
    <2> DEFINE g == [k \in 0..(m + 1) |-> IF k = m + 1 THEN next ELSE f[k]]
    <2>2. /\ m + 1 \in Nat /\ m + 1 \in 0..(m + 1)
          /\ \A k \in 0..m : k \in 0..(m + 1) /\ k # m + 1
          /\ \A k \in 1..(m + 1) : k - 1 \in 0..m /\ (k \in 1..m \/ k = m + 1)
          /\ (m + 1) - 1 = m /\ 0 \in 0..m /\ m \in 0..m
          /\ \A k \in 1..m : k \in 0..m
      OBVIOUS
    <2>3. DOMAIN g = 0..(m + 1) /\ g[m + 1] = next
      BY <2>2
    <2>4. \A k \in 0..m : g[k] = f[k]
      BY <2>2
    <2> HIDE DEF g
    <2>5. ASSUME NEW k \in 1..(m + 1) PROVE g[k] = g[k - 1] + parts[k].emitted_count
      <3>1. CASE k = m + 1
        BY <2>2, <2>3, <2>4, <3>1 DEF next
      <3>2. CASE k \in 1..m
        <4>1. f[k] = f[k - 1] + parts[k].emitted_count
          BY <2>1, <3>2 DEF IsSum
        <4>2. g[k] = f[k] /\ g[k - 1] = f[k - 1]
          BY <2>2, <2>4, <3>2
        <4> QED BY <4>1, <4>2
      <3> QED BY <2>2, <3>1, <3>2
    <2>6. g[0] = 0
      BY <2>1, <2>2, <2>4 DEF IsSum
    <2>7. IsSum(g, parts, m + 1)
      BY <2>3, <2>5, <2>6 DEF IsSum
    <2> QED BY <2>2, <2>7
  <1> HIDE DEF Holds
  <1>3. n \in Holds
    BY <1>1, <1>2, InductionBySet
  <1> QED BY <1>3 DEF Holds

(* SumOfCounts is its last value. *)
LEMMA SumOfCountsDef ==
  ASSUME NEW T, NEW parts \in Seq(T)
  PROVE  \E sum : /\ IsSum(sum, parts, Len(parts))
                      /\ SumOfCounts(parts) = sum[Len(parts)]
  <1> DEFINE n == Len(parts)
             sum == CHOOSE f : f = [k \in 0..n |->
               IF k = 0 THEN 0 ELSE f[k - 1] + parts[k].emitted_count]
  <1>1. n \in Nat
    BY LenProperties
  <1>2. PICK g : IsSum(g, parts, n)
    BY <1>1, SumExists
  <1> DEFINE h == [k \in 0..n |-> g[k]]
  <1>3. h = [k \in 0..n |-> IF k = 0 THEN 0 ELSE h[k - 1] + parts[k].emitted_count]
    <2>1. ASSUME NEW k \in 0..n
          PROVE  h[k] = IF k = 0 THEN 0 ELSE h[k - 1] + parts[k].emitted_count
      <3>1. CASE k = 0
        BY <1>1, <1>2, <3>1 DEF IsSum
      <3>2. CASE k # 0
        <4>1. k \in 1..n /\ k - 1 \in 0..n
          BY <1>1, <3>2
        <4>2. g[k] = g[k - 1] + parts[k].emitted_count
          BY <1>2, <4>1 DEF IsSum
        <4>3. h[k] = g[k] /\ h[k - 1] = g[k - 1]
          BY <4>1
        <4> QED BY <3>2, <4>2, <4>3
      <3> QED BY <3>1, <3>2
    <2> QED BY <2>1
  <1> HIDE DEF h
  <1>4. sum = [k \in 0..n |->
          IF k = 0 THEN 0 ELSE sum[k - 1] + parts[k].emitted_count]
    BY <1>3
  <1>5. SumOfCounts(parts) = sum[n]
    BY DEF SumOfCounts
  <1> HIDE DEF sum
  <1>6. IsSum(sum, parts, n)
    <2>1. DOMAIN sum = 0..n
      BY <1>4
    <2>2. \A k \in 0..n : sum[k] = IF k = 0 THEN 0
                                       ELSE sum[k - 1] + parts[k].emitted_count
      BY <1>4
    <2>3. \A k \in 1..n : k \in 0..n /\ k # 0
      BY <1>1
    <2>4. 0 \in 0..n
      BY <1>1
    <2> HIDE DEF n
    <2>5. /\ sum[0] = 0
          /\ \A k \in 1..n : sum[k] = sum[k - 1] + parts[k].emitted_count
      BY <2>2, <2>3, <2>4
    <2> QED BY <2>1, <2>5 DEF IsSum
  <1> QED BY <1>5, <1>6

(* The counts of slots add up to a number. *)
LEMMA SumOfCountsType ==
  ASSUME NEW parts \in Seq(Slot)
  PROVE  SumOfCounts(parts) \in Nat
  <1> DEFINE n == Len(parts)
  <1>1. n \in Nat /\ \A k \in 1..n : parts[k] \in Slot
    BY LenProperties
  <1>2. PICK f : IsSum(f, parts, n) /\ SumOfCounts(parts) = f[n]
    BY SumOfCountsDef
  <1> HIDE DEF n
  <1> DEFINE Holds == {k \in Nat : k <= n => f[k] \in Nat}
  <1>3. 0 \in Holds
    BY <1>2 DEF IsSum
  <1>4. ASSUME NEW k \in Nat, k \in Holds PROVE k + 1 \in Holds
    <2>0. k + 1 \in Nat
      OBVIOUS
    <2> SUFFICES ASSUME k + 1 <= n PROVE f[k + 1] \in Nat
      BY <2>0
    <2>1. k + 1 \in 1..n /\ (k + 1) - 1 = k /\ k <= n
      BY <1>1
    <2>2. f[k + 1] = f[(k + 1) - 1] + parts[k + 1].emitted_count
      BY <1>2, <2>1 DEF IsSum
    <2>3. f[k] \in Nat /\ parts[k + 1].emitted_count \in Nat
      BY <1>1, <1>4, <2>1 DEF Slot
    <2> QED BY <2>1, <2>2, <2>3
  <1> HIDE DEF Holds
  <1>5. n \in Holds
    BY <1>1, <1>3, <1>4, InductionBySet
  <1> QED BY <1>1, <1>2, <1>5 DEF Holds

-----------------------------------------------------------------------------
(* Types. *)

Job == [path : Seq(Dirents), todo : SUBSET Dirents]

(* What is gathered comes from the main buffer and the slots. *)
LEMMA GatheredType ==
  ASSUME NEW T, main_slot \in T, slots \in [Workers -> T]
  PROVE  Gathered \in Seq(T)
  <1>1. WorkerCount \in Nat
    BY WalkParallelAssumption
  <1>2. slots \in Seq(T)
    BY <1>1 DEF Workers
  <1>3. <<main_slot>> \in Seq(T)
    OBVIOUS
  <1>4. <<main_slot>> \o slots \in Seq(T)
    BY <1>2, <1>3, ConcatProperties
  <1> QED BY <1>4, CollectedType DEF Gathered

(* The slot after an append: its bytes are from the set the path and the   *)
(* separator are from.                                                     *)
LEMMA KeepType ==
  ASSUME NEW T, NEW path \in T, Separator \in T,
         NEW slot \in [initialized : BOOLEAN, output_bytes : Seq(T), emitted_count : Nat],
         NEW r \in append_match(slot.output_bytes, path)
  PROVE  /\ Keep(slot, r) \in [initialized : BOOLEAN, output_bytes : Seq(T), emitted_count : Nat]
         /\ Keep(slot, r).initialized = slot.initialized
         /\ r.ok \in BOOLEAN
         /\ Keep(slot, r).output_bytes = r.bytes
         /\ Keep(slot, r).emitted_count = IF r.ok THEN slot.emitted_count + 1 ELSE slot.emitted_count
  <1> DEFINE b == slot.output_bytes
  <1>1. b \in Seq(T) /\ slot.emitted_count \in Nat /\ slot.initialized \in BOOLEAN
    OBVIOUS
  <1>2. <<path, Separator>> \in Seq(T)
    OBVIOUS
  <1>3. b \o <<path, Separator>> \in Seq(T) /\ Append(b, path) \in Seq(T)
    BY <1>1, <1>2, ConcatProperties, AppendProperties
  <1>4. r.ok \in BOOLEAN /\ r.bytes \in Seq(T)
    <2>1. \/ r = [ok |-> TRUE, bytes |-> b \o <<path, Separator>>]
          \/ r = [ok |-> FALSE, bytes |-> b]
          \/ r = [ok |-> FALSE, bytes |-> Append(b, path)]
      BY DEF append_match
    <2>2. r.bytes \in {b \o <<path, Separator>>, b, Append(b, path)}
      BY <2>1
    <2>3. r.ok = TRUE \/ r.ok = FALSE
      BY <2>1
    <2>4. r.ok \in BOOLEAN
      BY <2>3, Zenon
    <2> QED BY <1>1, <1>3, <2>2, <2>4
  <1> DEFINE count == IF r.ok THEN slot.emitted_count + 1 ELSE slot.emitted_count
  <1>5. count \in Nat
    BY <1>1
  <1>6. Keep(slot, r) = [slot EXCEPT !.output_bytes = r.bytes, !.emitted_count = count]
    BY DEF Keep
  <1> HIDE DEF count
  <1>7. /\ Keep(slot, r) \in [initialized : BOOLEAN, output_bytes : Seq(T), emitted_count : Nat]
        /\ Keep(slot, r).output_bytes = r.bytes /\ Keep(slot, r).emitted_count = count
    BY <1>4, <1>5, <1>6
  <1>8. Keep(slot, r).initialized = slot.initialized
    BY <1>6
  <1> QED BY <1>4, <1>7, <1>8 DEF count

(* The root to handle is an entry. *)
LEMMA RootFacts ==
  ASSUME TypeOK, RootsLeft
  PROVE  /\ config \in Configs
         /\ root_index \in DOMAIN Roots(config)
         /\ Root \in Dirents /\ Root = Roots(config)[root_index]
         /\ <<Root>> \in Seq(Dirents)
         /\ RootStat # NoMeta => RootStat \in MetaRecords
  <1>1. config \in Configs /\ root_index \in Nat \ {0}
    BY DEF TypeOK
  <1>2. Roots(config) \in Seq(Dirents) /\ config.follow_symlinks \in BOOLEAN
    BY <1>1, SearchFacts
  <1>3. root_index \in 1..Len(Roots(config))
    BY <1>1, <1>2 DEF RootsLeft
  <1>4. Root \in Dirents /\ root_index \in DOMAIN Roots(config)
    BY <1>2, <1>3 DEF Root
  <1>5. RootStat # NoMeta => RootStat \in MetaRecords
    BY <1>2, <1>4, StatFacts DEF RootStat
  <1> QED BY <1>1, <1>4, <1>5 DEF Root

(* A busy worker has a directory, and the path of an entry there. *)
LEMMA JobFacts ==
  ASSUME TypeOK, NEW w \in Workers, job[w] # None
  PROVE  /\ job[w] \in Job /\ job[w].path \in Seq(Dirents) /\ job[w].todo \subseteq Dirents
         /\ \A d \in Dirents : Append(job[w].path, d) \in Seq(Dirents)
  <1>1. job[w] \in Job
    BY DEF TypeOK, Job
  <1>2. job[w].path \in Seq(Dirents) /\ job[w].todo \subseteq Dirents
    BY <1>1 DEF Job
  <1> QED BY <1>1, <1>2, AppendProperties

(* The variables of the search keep their types. *)
LEMMA MainKeepsTypes ==
  ASSUME TypeOK,
         \/ Setup \/ SetupFails \/ RootStatFails \/ HandleRoot \/ PoolEnds \/ RootsExhausted
  PROVE  TypeOK'
  <1>0. root_index + 1 \in Nat \ {0}
    BY DEF TypeOK
  <1>1. CASE Setup \/ SetupFails \/ RootsExhausted
    BY <1>1 DEF Setup, SetupFails, RootsExhausted, TypeOK, pool_vars, merge_vars
  <1>4. CASE PoolEnds
    BY <1>0, <1>4 DEF PoolEnds, TypeOK, pool_vars, merge_vars
  <1>2. CASE RootStatFails
    <2>1. <<Root>> \in Seq(Dirents)
      BY <1>2, RootFacts DEF RootStatFails
    <2> QED BY <1>0, <1>2, <2>1 DEF RootStatFails, record_error, TypeOK, pool_vars, merge_vars
  <1>3. CASE HandleRoot
    <2>1. /\ <<Root>> \in Seq(Dirents) /\ RootStat \in MetaRecords /\ pc = "roots"
      BY <1>3, RootFacts DEF HandleRoot, RootsLeft
    <2>2. RootStat.dev \in Devices
      BY <2>1 DEF MetaRecords
    <2>3. root_device' \in Devices \cup {None}
      BY <1>3, <2>2 DEF HandleRoot, TypeOK
    <2>4. main_slot' \in Slot /\ errors' \subseteq Seq(Dirents)
      <3>1. CASE RootVerdict(config, Root, RootStat) = ACCEPT
        <4>1. PICK r \in append_match(main_slot.output_bytes, <<Root>>) :
                main_slot' = Keep(main_slot, r) /\ NoteAppend(<<Root>>, r)
          BY <1>3, <3>1 DEF HandleRoot
        <4>2. main_slot' \in Slot
          <5>1. main_slot \in Slot /\ <<Root>> \in Tokens /\ Separator \in Tokens
            BY <2>1 DEF TypeOK, Tokens
          <5> QED BY <4>1, <5>1, KeepType DEF Slot, Tokens
        <4> QED BY <2>1, <4>1, <4>2 DEF NoteAppend, record_error, TypeOK
      <3>2. CASE RootVerdict(config, Root, RootStat) # ACCEPT
        BY <1>3, <3>2 DEF HandleRoot, TypeOK
      <3> QED BY <3>1, <3>2
    <2>5. /\ pc' \in {"roots", "pool"} /\ queue' \subseteq Seq(Dirents)
          /\ root_index' \in Nat \ {0}
      <3>1. CASE RootIsWalked
        BY <1>3, <2>1, <3>1 DEF HandleRoot, TypeOK
      <3>2. CASE ~RootIsWalked
        BY <1>0, <1>3, <2>1, <3>2 DEF HandleRoot, TypeOK
      <3> QED BY <3>1, <3>2
    <2>6. UNCHANGED <<config, job, aborted, slots, merge_vars, signalled, ok>>
      BY <1>3 DEF HandleRoot
    <2> QED BY <2>1, <2>3, <2>4, <2>5, <2>6 DEF TypeOK, merge_vars
  <1> QED BY <1>1, <1>2, <1>3, <1>4

(* What a visit does to the slots and the errors. *)
LEMMA VisitSlots ==
  ASSUME TypeOK, NEW w \in Workers, NEW d \in Dirents, Visit(w, d)
  PROVE  slots' \in [Workers -> Slot] /\ errors' \subseteq Seq(Dirents)
  <1> DEFINE path == Append(job[w].path, d)
             slot == [slots[w] EXCEPT !.initialized = TRUE]
  <1>1. path \in Seq(Dirents)
    BY JobFacts DEF Visit
  <1>2. slots \in [Workers -> Slot] /\ slot \in Slot /\ errors \subseteq Seq(Dirents)
    BY DEF TypeOK, Slot
  <1>3. CASE Accepted(path, d)
    <2>1. PICK r \in append_match(slot.output_bytes, path) :
            slots' = [slots EXCEPT ![w] = Keep(slot, r)] /\ NoteAppend(path, r)
      BY <1>3 DEF Visit
    <2> HIDE DEF path, slot
    <2>2. Keep(slot, r) \in Slot
      <3>1. path \in Tokens /\ Separator \in Tokens
        BY <1>1 DEF Tokens
      <3> QED BY <1>2, <3>1, KeepType DEF Slot, Tokens
    <2> QED BY <1>1, <1>2, <2>1, <2>2 DEF NoteAppend, record_error
  <1>4. CASE ~Accepted(path, d)
    <2>1. slots' = [slots EXCEPT ![w] = slot] /\ UNCHANGED errors
      BY <1>4 DEF Visit
    <2> HIDE DEF slot
    <2> QED BY <1>2, <2>1
  <1> QED BY <1>3, <1>4

(* The variables of the pool keep their types. *)
LEMMA WorkerKeepsTypes ==
  ASSUME TypeOK, NEW w \in Workers, WorkerStep(w)
  PROVE  TypeOK'
  <1>1. CASE TakeDirectory(w)
    <2>1. PICK path \in queue :
            /\ queue' = queue \ {path}
            /\ job' = [job EXCEPT ![w] = [path |-> path, todo |-> Listed(path)]]
      BY <1>1 DEF TakeDirectory
    <2>2. path \in Seq(Dirents) /\ Listed(path) \subseteq Dirents
      BY <2>1 DEF TypeOK, Listed, EntriesOf
    <2>3. [path |-> path, todo |-> Listed(path)] \in Job
      BY <2>2 DEF Job
    <2>4. job' \in [Workers -> {None} \cup Job]
      BY <2>1, <2>3 DEF TypeOK, Job
    <2> QED BY <1>1, <2>1, <2>4 DEF TakeDirectory, TypeOK, Job, merge_vars
  <1>2. CASE OpenFails(w)
    BY <1>2 DEF OpenFails, record_error, TypeOK, merge_vars
  <1>3. CASE DirectoryDone(w)
    BY <1>3 DEF DirectoryDone, TypeOK, merge_vars
  <1>4. ASSUME NEW d \in Dirents, ReserveFails(w, d) PROVE TypeOK'
    BY <1>4 DEF ReserveFails, TypeOK, merge_vars
  <1>5. ASSUME NEW d \in Dirents, VisitOtherDevice(w, d) \/ Visit(w, d) PROVE TypeOK'
    <2>1. pc = "pool" /\ job[w] # None /\ NextEntry(w, d)
      BY <1>5 DEF VisitOtherDevice, Visit
    <2>2. job[w] \in Job /\ Append(job[w].path, d) \in Seq(Dirents)
      BY <2>1, JobFacts
    <2>3. job' \in [Workers -> {None} \cup Job]
      <3>1. job' = [job EXCEPT ![w].todo = @ \ {d}]
        BY <2>1 DEF NextEntry
      <3>2. [job[w] EXCEPT !.todo = @ \ {d}] \in Job
        BY <2>2 DEF Job
      <3> QED BY <3>1, <3>2 DEF TypeOK, Job
    <2>4. queue' \subseteq Seq(Dirents)
      BY <2>1, <2>2 DEF NextEntry, TypeOK
    <2>5. slots' \in [Workers -> Slot] /\ errors' \subseteq Seq(Dirents)
      <3>1. CASE VisitOtherDevice(w, d)
        BY <3>1 DEF VisitOtherDevice, TypeOK
      <3>2. CASE Visit(w, d)
        BY <3>2, VisitSlots
      <3> QED BY <1>5, <3>1, <3>2
    <2>6. UNCHANGED <<config, pc, root_index, root_device, aborted, main_slot,
                      merge_vars, signalled, ok>>
      BY <2>1 DEF NextEntry
    <2> QED BY <2>1, <2>3, <2>4, <2>5, <2>6 DEF TypeOK, Job, merge_vars
  <1> QED BY <1>1, <1>2, <1>3, <1>4, <1>5 DEF WorkerStep

-----------------------------------------------------------------------------
(* The write loop. *)

BytesOf(parts) == [k \in 1..Len(parts) |-> parts[k].output_bytes]

(* What there is to write. *)
Content == Flatten(BytesOf(Gathered))

(* The buffers that are gathered hold what any set of tokens does that     *)
(* holds the tokens of the main buffer and of the slots.                   *)
LEMMA ContentType ==
  ASSUME TypeOK, NEW T, main_slot.output_bytes \in Seq(T),
         \A w \in Workers : slots[w].output_bytes \in Seq(T)
  PROVE  /\ Gathered \in Seq(Slot) /\ BytesOf(Gathered) \in Seq(Seq(T))
         /\ Len(BytesOf(Gathered)) = Len(Gathered)
         /\ Content \in Seq(T)
  <1> DEFINE U == {s \in Slot : s.output_bytes \in Seq(T)}
  <1>1. main_slot \in U /\ slots \in [Workers -> U]
    BY DEF TypeOK
  <1>2. Gathered \in Seq(U)
    <2> HIDE DEF U
    <2> QED BY <1>1, GatheredType
  <1>3. Gathered \in Seq(Slot) /\ Len(Gathered) \in Nat
    BY <1>2, LenProperties
  <1>4. \A k \in 1..Len(Gathered) : Gathered[k].output_bytes \in Seq(T)
    BY <1>2, LenProperties
  <1>5. BytesOf(Gathered) \in Seq(Seq(T)) /\ Len(BytesOf(Gathered)) = Len(Gathered)
    BY <1>3, <1>4 DEF BytesOf
  <1> QED BY <1>3, <1>5, FlattenType DEF Content

(* A write of the first tokens of what is offered leaves the others. *)
LEMMA WriteStep ==
  ASSUME NEW T, NEW done \in Seq(T), NEW offered \in Seq(T), NEW rest \in Seq(T),
         NEW written \in Nat, written <= Len(offered), NEW whole, whole = Cat(offered, rest)
  PROVE  /\ Cat(Cat(done, Take(offered, written)), Drop(whole, written)) = Cat(done, whole)
         /\ written <= Len(whole)
  <1> DEFINE all == offered \o rest
             a == SubSeq(offered, 1, written)
             b == SubSeq(offered, written + 1, Len(offered))
  <1>1. Len(offered) \in Nat /\ Len(rest) \in Nat /\ written \in Nat
    BY LenProperties
  <1>2. all \in Seq(T) /\ Len(all) = Len(offered) + Len(rest)
    BY ConcatProperties
  <1>3. a \in Seq(T) /\ b \in Seq(T) /\ a \o b = offered
    <2>1. written \in 0..Len(offered)
      BY <1>1
    <2> QED BY <2>1, SplitAt
  <1>4. SubSeq(all, written + 1, Len(all)) = b \o rest
    <2>1. written \in 0..(Len(offered) + Len(rest))
      BY <1>1
    <2> QED BY <1>1, <2>1, DropConcat
  <1> HIDE DEF a, b
  <1>5. a \in Seq(T) /\ b \in Seq(T)
    BY <1>3
  <1>6. Cat(Cat(done, a), Cat(b, rest)) = Cat(done, Cat(Cat(a, b), rest))
    BY <1>5, FourConcat
  <1>7. (done \o a) \o (b \o rest) = done \o ((a \o b) \o rest)
    BY <1>6 DEF Cat
  <1>8. (done \o a) \o SubSeq(all, written + 1, Len(all)) = done \o all
    BY <1>3, <1>4, <1>7
  <1>9. written <= Len(all)
    BY <1>1, <1>2
  <1> QED BY <1>8, <1>9 DEF a, Cat, Take, Drop

CutFirst(segments, n) == [segments EXCEPT ![1] = SubSeq(@, n + 1, Len(@))]

(* Passing over a segment, or a part of it, keeps what is left. *)
LEMMA AdvanceStep ==
  ASSUME NEW T, NEW segments \in Seq(Seq(T)), NEW n \in Nat, n > 0,
         n <= Len(Flatten(segments)),
         NEW left, left = Drop(Flatten(segments), n)
  PROVE  /\ segments # <<>> /\ Len(segments[1]) \in Nat
         /\ n >= Len(segments[1]) =>
              LET tail == Flatten(Tail(segments))
              IN /\ Tail(segments) \in Seq(Seq(T))
                 /\ n - Len(segments[1]) \in Nat
                 /\ n - Len(segments[1]) <= Len(tail)
                 /\ Drop(tail, n - Len(segments[1])) = left
         /\ ~(n >= Len(segments[1])) =>
              CutFirst(segments, n) \in Seq(Seq(T)) /\ Flatten(CutFirst(segments, n)) = left
  <1> DEFINE all == Flatten(segments)
             first == segments[1]
             tail == Flatten(Tail(segments))
  <1>1. segments # <<>>
    <2> SUFFICES ASSUME segments = <<>> PROVE FALSE
      OBVIOUS
    <2>1. Len(all) = 0
      BY FlattenEmpty, EmptySeq
    <2> QED BY <2>1
  <1>2. first \in Seq(T) /\ Tail(segments) \in Seq(Seq(T))
    <2>1. 1 \in 1..Len(segments)
      BY <1>1, EmptySeq, LenProperties
    <2> QED BY <1>1, <2>1, LenProperties, HeadTailProperties
  <1>3. tail \in Seq(T) /\ all = first \o tail
    BY <1>1, <1>2, FlattenFirst, FlattenType
  <1>4. Len(first) \in Nat /\ Len(tail) \in Nat
    BY <1>2, <1>3, LenProperties
  <1>5. Len(all) = Len(first) + Len(tail)
    BY <1>2, <1>3, ConcatProperties
  <1>6. n \in 0..(Len(first) + Len(tail))
    BY <1>4, <1>5
  <1>7. ASSUME n >= Len(first)
        PROVE  /\ n - Len(first) \in Nat /\ n - Len(first) <= Len(tail)
               /\ Drop(tail, n - Len(first)) = left
    <2>1. n - Len(first) \in Nat /\ n - Len(first) <= Len(tail)
      BY <1>4, <1>6, <1>7
    <2> HIDE DEF first, tail, all
    <2>2. SubSeq(first \o tail, n + 1, Len(first \o tail)) = SubSeq(tail, n - Len(first) + 1, Len(tail))
      BY <1>2, <1>3, <1>6, <1>7, DropConcat
    <2> QED BY <1>3, <2>1, <2>2 DEF all, Drop
  <1>8. ASSUME ~(n >= Len(first))
        PROVE  CutFirst(segments, n) \in Seq(Seq(T)) /\ Flatten(CutFirst(segments, n)) = left
    <2> DEFINE rest == SubSeq(first, n + 1, Len(first))
               cut == [segments EXCEPT ![1] = rest]
    <2>1. n \in 0..Len(first) /\ n <= Len(first)
      BY <1>4, <1>8
    <2>2. rest \in Seq(T)
      BY <1>2, <2>1, SplitAt
    <2>3. SubSeq(first \o tail, n + 1, Len(first \o tail)) = rest \o tail
      <3> HIDE DEF first, tail, all
      <3> QED BY <1>2, <1>3, <1>6, <2>1, DropConcat
    <2> HIDE DEF rest
    <2>4. /\ cut \in Seq(Seq(T)) /\ cut[1] = rest /\ Len(cut) = Len(segments)
          /\ \A i \in 2..Len(segments) : cut[i] = segments[i]
      <3>1. 1 \in 1..Len(segments)
        BY <1>1, EmptySeq, LenProperties
      <3> QED BY <2>2, <3>1
    <2> HIDE DEF cut
    <2>5. cut # <<>>
      BY <1>1, <2>4, EmptySeq
    <2>6. Tail(cut) = Tail(segments)
      <3>1. /\ Tail(cut) \in Seq(Seq(T)) /\ Len(Tail(cut)) = Len(cut) - 1
            /\ \A i \in 1..Len(Tail(cut)) : Tail(cut)[i] = cut[i + 1]
        BY <2>4, <2>5, HeadTailProperties
      <3>2. /\ Tail(segments) \in Seq(Seq(T)) /\ Len(Tail(segments)) = Len(segments) - 1
            /\ \A i \in 1..Len(Tail(segments)) : Tail(segments)[i] = segments[i + 1]
        BY <1>1, HeadTailProperties
      <3>3. \A i \in 1..(Len(segments) - 1) : i + 1 \in 2..Len(segments)
        BY LenProperties
      <3>4. \A i \in 1..Len(Tail(cut)) : Tail(cut)[i] = Tail(segments)[i]
        BY <2>4, <3>1, <3>2, <3>3
      <3> QED BY <2>4, <3>1, <3>2, <3>4, SeqEqual
    <2>7. Flatten(cut) = rest \o tail
      <3>1. Flatten(cut) = cut[1] \o Flatten(Tail(cut))
        BY <2>4, <2>5, FlattenFirst
      <3> QED BY <2>4, <2>6, <3>1
    <2>8. Flatten(cut) = left
      BY <1>3, <2>3, <2>7 DEF Drop
    <2>9. cut = CutFirst(segments, n)
      BY DEF cut, rest, CutFirst
    <2> QED BY <2>4, <2>8, <2>9
  <1> QED BY <1>1, <1>2, <1>4, <1>7, <1>8

-----------------------------------------------------------------------------
(* The invariant of the merge. *)

(* The main thread has not begun to write. *)
Gathering == pc \in {"setup", "roots", "pool", "merge"}

(* What is left to write. *)
Left == Drop(Flatten(iov), remaining)

(* What is written is always the beginning of what there is to write.      *)
(* remaining never exceeds what the segments hold: if it could, the inner  *)
(* loop would end with a part of the count unused and the segment after it *)
(* be written again.                                                       *)
Merging ==
  /\ Gathering => iov = <<>> /\ remaining = 0 /\ fd = <<>> /\ emitted_count = 0
  /\ pc = "write" => remaining = 0
  /\ pc = "advance" => remaining <= Len(Flatten(iov))
  /\ pc \in {"write", "advance"} => fd \o Left = Content
  /\ pc = "done" => \E rest \in Seq(Tokens) : fd \o rest = Content
  /\ pc = "done" /\ ok => fd = Content

PInv == TypeOK /\ Merging

(* The steps before the merge leave its variables alone, those after it    *)
(* the slots.                                                              *)
SearchStep ==
  \/ Setup \/ RootStatFails \/ HandleRoot \/ PoolEnds \/ RootsExhausted
  \/ \E w \in Workers : WorkerStep(w)

(* The search leaves the variables of the write loop alone. *)
LEMMA SearchFrame ==
  ASSUME SearchStep
  PROVE  Gathering /\ Gathering' /\ UNCHANGED merge_vars
  <1>1. CASE Setup \/ RootStatFails \/ HandleRoot \/ PoolEnds \/ RootsExhausted
    <2>1. Gathering /\ UNCHANGED merge_vars
      BY <1>1 DEF Setup, RootStatFails, HandleRoot, PoolEnds, RootsExhausted, RootsLeft, Gathering
    <2>2. Gathering'
      BY <1>1 DEF Setup, RootStatFails, HandleRoot, PoolEnds, RootsExhausted, RootsLeft, Gathering
    <2> QED BY <2>1, <2>2
  <1>2. ASSUME NEW w \in Workers, WorkerStep(w)
        PROVE  pc = "pool" /\ pc' = pc /\ UNCHANGED merge_vars
    BY <1>2 DEF WorkerStep, TakeDirectory, OpenFails, DirectoryDone, VisitOtherDevice, Visit,
                ReserveFails, NextEntry
  <1> QED BY <1>1, <1>2 DEF SearchStep, Gathering

(* What there is to write, of the tokens of the slots. *)
LEMMA ContentTokens ==
  ASSUME TypeOK
  PROVE  /\ Gathered \in Seq(Slot) /\ BytesOf(Gathered) \in Seq(Seq(Tokens))
         /\ Content \in Seq(Tokens)
         /\ iov \in Seq(Seq(Tokens)) /\ Flatten(iov) \in Seq(Tokens) /\ fd \in Seq(Tokens)
         /\ SumOfCounts(Gathered) \in Nat
  <1>1. main_slot.output_bytes \in Seq(Tokens) /\ \A w \in Workers : slots[w].output_bytes \in Seq(Tokens)
    BY DEF TypeOK, Slot, Tokens
  <1>2. iov \in Seq(Seq(Tokens)) /\ fd \in Seq(Tokens)
    BY DEF TypeOK, Tokens
  <1> QED BY <1>1, <1>2, ContentType, FlattenType, SumOfCountsType

(* What is gathered depends on the buffers alone. *)
LEMMA ContentStays ==
  ASSUME UNCHANGED <<slots, main_slot>>
  PROVE  Gathered' = Gathered /\ Content' = Content
  <1>1. Gathered' = Gathered
    BY DEF Gathered
  <1> QED BY <1>1 DEF Content, BytesOf

(* The merge starts the write loop with everything still to write. *)
LEMMA MergeKept ==
  ASSUME PInv, Merge
  PROVE  PInv'
  <1>1. /\ TypeOK /\ pc = "merge" /\ pc' = "write" /\ iov' = BytesOf(Gathered)
        /\ remaining = 0 /\ fd = <<>>
        /\ UNCHANGED <<config, root_index, root_device, pool_vars, slots, main_slot,
                       remaining, fd, emitted_count, errors, signalled, ok>>
    BY DEF PInv, Merging, Gathering, Merge, BytesOf
  <1>2. Gathered' = Gathered /\ Content' = Content
    BY <1>1, ContentStays
  <1>3. BytesOf(Gathered) \in Seq(Seq(Tokens)) /\ Content \in Seq(Tokens)
    BY <1>1, ContentTokens
  <1>4. TypeOK'
    BY <1>1, <1>3 DEF TypeOK, Tokens, pool_vars
  <1>5. Left' = Content
    <2>1. Left' = SubSeq(Content, 0 + 1, Len(Content))
      BY <1>1 DEF Left, Content, Drop
    <2> QED BY <1>3, <2>1, SubSeqFull
  <1>6. <<>> \o Content = Content
    BY <1>3, ConcatEmptySeq
  <1>7. (fd \o Left)' = Content'
    BY <1>1, <1>2, <1>5, <1>6
  <1>8. Merging'
    BY <1>1, <1>7 DEF Merging, Gathering
  <1> QED BY <1>4, <1>8 DEF PInv

(* The end: the count is added up, and what is written stays. *)
LEMMA EndKept ==
  ASSUME PInv, FlushFails \/ WritevFails \/ Written \/ SetupFails
  PROVE  PInv'
  <1>1. /\ TypeOK /\ pc' = "done"
        /\ UNCHANGED <<config, root_index, root_device, pool_vars, slots, main_slot,
                       iov, remaining, fd, errors, signalled>>
        /\ emitted_count' = emitted_count \/ emitted_count' = emitted_count + SumOfCounts(Gathered)
    BY DEF PInv, FlushFails, WritevFails, Written, SetupFails, CountMerged, merge_vars
  <1>2. Content' = Content
    BY <1>1, ContentStays
  <1>3. /\ Content \in Seq(Tokens) /\ fd \in Seq(Tokens) /\ Flatten(iov) \in Seq(Tokens)
        /\ SumOfCounts(Gathered) \in Nat /\ emitted_count \in Nat
    BY <1>1, ContentTokens DEF TypeOK
  <1>4. emitted_count' \in Nat
    BY <1>1, <1>3
  <1>5. \A w \in Workers : job[w] = None
    BY <1>1 DEF FlushFails, WritevFails, Written, SetupFails, TypeOK
  <1>6. ok' \in BOOLEAN
    BY <1>1 DEF FlushFails, WritevFails, Written, SetupFails, TypeOK
  <1>7. TypeOK'
    BY <1>1, <1>4, <1>5, <1>6 DEF TypeOK, pool_vars
  <1>8. \E rest \in Seq(Tokens) : fd \o rest = Content
    <2>1. CASE pc = "write"
      <3>1. remaining = 0 /\ fd \o Left = Content
        BY <2>1 DEF PInv, Merging
      <3>2. Left = Flatten(iov)
        BY <1>3, <3>1, SubSeqFull DEF Left, Drop
      <3> QED BY <1>3, <3>1, <3>2
    <2>2. CASE Gathering
      <3>1. fd = <<>> /\ <<>> \o Content = Content
        BY <1>3, <2>2, ConcatEmptySeq DEF PInv, Merging
      <3> QED BY <1>3, <3>1
    <2> QED BY <2>1, <2>2 DEF FlushFails, WritevFails, Written, SetupFails, Gathering
  <1>9. ASSUME ok' PROVE fd = Content
    <2>1. Written
      BY <1>9 DEF FlushFails, WritevFails, SetupFails
    <2>2. pc = "write" /\ iov = <<>> /\ remaining = 0 /\ fd \o Left = Content
      BY <2>1 DEF Written, PInv, Merging
    <2>3. Left = <<>>
      <3>1. Left = SubSeq(<<>>, 0 + 1, Len(<<>>))
        BY <2>2, FlattenEmpty DEF Left, Drop
      <3> QED BY <3>1, EmptySeq
    <2> QED BY <1>3, <2>2, <2>3, ConcatEmptySeq
  <1>10. Merging'
    BY <1>1, <1>2, <1>8, <1>9 DEF Merging, Gathering
  <1> QED BY <1>7, <1>10 DEF PInv

(* writev. *)
LEMMA WritevKept ==
  ASSUME PInv, Writev
  PROVE  PInv'
  <1> DEFINE n == IF Len(iov) > IovMax THEN IovMax ELSE Len(iov)
             offered == Flatten(SubSeq(iov, 1, n))
             all == Flatten(iov)
  <1>1. /\ TypeOK /\ pc = "write" /\ pc' = "advance" /\ iov # <<>>
        /\ remaining = 0 /\ fd \o Left = Content
        /\ UNCHANGED <<config, root_index, root_device, pool_vars, slots, main_slot,
                       iov, emitted_count, errors, signalled, ok>>
    BY DEF PInv, Merging, Writev
  <1>2. /\ iov \in Seq(Seq(Tokens)) /\ all \in Seq(Tokens) /\ fd \in Seq(Tokens)
        /\ Content' = Content
    BY <1>1, ContentTokens, ContentStays
  <1>3. n \in 0..Len(iov)
    BY <1>2, WalkParallelAssumption, LenProperties
  <1>4. PICK rest \in Seq(Tokens) : all = offered \o rest
    <2> HIDE DEF n
    <2> QED BY <1>2, <1>3, FlattenPrefix
  <1>5. offered \in Seq(Tokens)
    <2> HIDE DEF n
    <2>1. SubSeq(iov, 1, n) \in Seq(Seq(Tokens))
      BY <1>2, <1>3, SplitAt
    <2> QED BY <2>1, FlattenType
  <1>6. PICK written \in IF offered = <<>> THEN {0} ELSE 1..Len(offered) :
          fd' = fd \o SubSeq(offered, 1, written) /\ remaining' = written
    BY DEF Writev
  <1> HIDE DEF n, offered, all
  <1>7. written \in Nat /\ written <= Len(offered)
    <2>1. Len(offered) \in Nat
      BY <1>5, LenProperties
    <2> QED BY <1>6, <2>1
  <1>8. SubSeq(offered, 1, written) \in Seq(Tokens)
    <2>1. written \in 0..Len(offered)
      BY <1>5, <1>7, LenProperties
    <2> QED BY <1>5, <2>1, SplitAt
  <1>9. /\ Cat(Cat(fd, Take(offered, written)), Drop(all, written)) = Cat(fd, all)
        /\ written <= Len(all)
    <2>1. all = Cat(offered, rest)
      BY <1>4 DEF Cat
    <2> QED BY <1>2, <1>5, <1>7, <2>1, WriteStep
  <1>10. Left = all
    BY <1>1, <1>2, SubSeqFull DEF Left, all, Drop
  <1>11. (fd \o Left)' = Content'
    <2>1. Left' = Drop(all, written)
      BY <1>1, <1>6 DEF Left, all, Drop
    <2>2. (fd \o Left)' = Cat(Cat(fd, Take(offered, written)), Drop(all, written))
      BY <1>6, <2>1 DEF Cat, Take
    <2>3. Cat(fd, all) = Content
      BY <1>1, <1>10 DEF Cat
    <2> QED BY <1>2, <1>9, <2>2, <2>3
  <1>12. fd' \in Seq(Tokens)
    BY <1>2, <1>6, <1>8, ConcatProperties
  <1>13. TypeOK'
    BY <1>1, <1>6, <1>7, <1>12 DEF TypeOK, Tokens, pool_vars
  <1>14. (remaining <= Len(Flatten(iov)))'
    BY <1>1, <1>6, <1>9 DEF all
  <1>15. Merging'
    BY <1>1, <1>11, <1>14 DEF Merging, Gathering
  <1> QED BY <1>13, <1>15 DEF PInv

(* One turn of the inner loop, and its end. *)
LEMMA AdvanceKept ==
  ASSUME PInv, Advance
  PROVE  PInv'
  <1>1. /\ TypeOK /\ pc = "advance" /\ remaining > 0 /\ remaining \in Nat
        /\ remaining <= Len(Flatten(iov)) /\ fd \o Left = Content
        /\ UNCHANGED <<config, pc, root_index, root_device, pool_vars, slots, main_slot,
                       fd, emitted_count, errors, signalled, ok>>
    BY DEF PInv, Merging, Advance, TypeOK
  <1>2. iov \in Seq(Seq(Tokens)) /\ Content' = Content
    BY <1>1, ContentTokens, ContentStays
  <1>3. Left = Drop(Flatten(iov), remaining)
    BY DEF Left
  <1>4. /\ Len(iov[1]) \in Nat
        /\ remaining >= Len(iov[1]) =>
              LET tail == Flatten(Tail(iov))
              IN /\ Tail(iov) \in Seq(Seq(Tokens))
                 /\ remaining - Len(iov[1]) \in Nat
                 /\ remaining - Len(iov[1]) <= Len(tail)
                 /\ Drop(tail, remaining - Len(iov[1])) = Left
        /\ ~(remaining >= Len(iov[1])) =>
              CutFirst(iov, remaining) \in Seq(Seq(Tokens)) /\ Flatten(CutFirst(iov, remaining)) = Left
    BY <1>1, <1>2, <1>3, AdvanceStep
  <1>5. /\ iov' \in Seq(Seq(Tokens)) /\ remaining' \in Nat
        /\ (remaining <= Len(Flatten(iov)))' /\ Left' = Left
    <2>1. CASE remaining >= Len(iov[1])
      <3>1. iov' = Tail(iov) /\ remaining' = remaining - Len(iov[1])
        BY <2>1 DEF Advance
      <3> DEFINE tail == Flatten(Tail(iov))
                 m == remaining - Len(iov[1])
      <3>2. /\ Tail(iov) \in Seq(Seq(Tokens)) /\ m \in Nat /\ m <= Len(tail)
            /\ Drop(tail, m) = Left
        BY <1>4, <2>1
      <3>3. Left' = Drop(tail, m) /\ (remaining <= Len(Flatten(iov)))' = (m <= Len(tail))
        BY <3>1 DEF Left
      <3> HIDE DEF tail
      <3> QED BY <3>1, <3>2, <3>3
    <2>2. CASE ~(remaining >= Len(iov[1]))
      <3> DEFINE cut == CutFirst(iov, remaining)
      <3>1. iov' = cut /\ remaining' = 0
        BY <2>2 DEF Advance, CutFirst
      <3>2. cut \in Seq(Seq(Tokens)) /\ Flatten(cut) = Left
        BY <1>4, <2>2
      <3> HIDE DEF cut
      <3>3. Flatten(cut) \in Seq(Tokens)
        BY <3>2, FlattenType
      <3>4. Len(Flatten(cut)) \in Nat /\ SubSeq(Flatten(cut), 0 + 1, Len(Flatten(cut))) = Flatten(cut)
        BY <3>3, LenProperties, SubSeqFull
      <3>5. Left' = Left
        BY <3>1, <3>2, <3>4 DEF Left, Drop
      <3> QED BY <3>1, <3>2, <3>4, <3>5
    <2> QED BY <2>1, <2>2
  <1>6. TypeOK'
    BY <1>1, <1>5 DEF TypeOK, Tokens, pool_vars
  <1>7. (fd \o Left)' = Content'
    BY <1>1, <1>2, <1>5
  <1>8. Merging'
    BY <1>1, <1>5, <1>7 DEF Merging, Gathering
  <1> QED BY <1>6, <1>8 DEF PInv

(* The end of the inner loop: the written segments are gone. *)
LEMMA AdvancedKept ==
  ASSUME PInv, Advanced
  PROVE  PInv'
  <1>1. /\ TypeOK /\ pc = "advance" /\ pc' = "write" /\ remaining \in Nat
        /\ remaining <= Len(Flatten(iov)) /\ fd \o Left = Content
        /\ remaining = 0 \/ iov = <<>>
        /\ UNCHANGED <<config, root_index, root_device, pool_vars, slots, main_slot,
                       merge_vars, errors, signalled, ok>>
    BY DEF PInv, Merging, Advanced, TypeOK
  <1>2. remaining = 0
    <2>1. iov = <<>> => Len(Flatten(iov)) = 0
      BY FlattenEmpty, EmptySeq
    <2> QED BY <1>1, <2>1
  <1>3. Content' = Content /\ Left' = Left
    BY <1>1, ContentStays DEF Left, Drop, merge_vars
  <1>4. TypeOK'
    BY <1>1 DEF TypeOK, pool_vars, merge_vars
  <1>5. Merging'
    BY <1>1, <1>2, <1>3 DEF Merging, Gathering, merge_vars
  <1> QED BY <1>4, <1>5 DEF PInv

(* The search, step by step, as far as the types go. *)
LEMMA SearchKept ==
  ASSUME PInv, SearchStep
  PROVE  PInv'
  <1>1. Gathering /\ Gathering' /\ UNCHANGED merge_vars
    BY SearchFrame
  <1>2. TypeOK'
    BY MainKeepsTypes, WorkerKeepsTypes DEF PInv, SearchStep
  <1>3. Merging'
    BY <1>1 DEF PInv, Merging, Gathering, merge_vars
  <1> QED BY <1>2, <1>3 DEF PInv

(* The signal, and steps that do nothing. *)
LEMMA IdleKept ==
  ASSUME PInv, Signal \/ Finished \/ UNCHANGED vars
  PROVE  PInv'
  <1>1. /\ UNCHANGED <<config, pc, root_index, root_device, pool_vars, slots, main_slot,
                       merge_vars, errors, ok>>
        /\ signalled' = signalled \/ signalled' = TRUE
    BY DEF Signal, Finished, vars
  <1>2. signalled' \in BOOLEAN
    BY <1>1, Zenon DEF PInv, TypeOK
  <1>3. TypeOK'
    BY <1>1, <1>2 DEF PInv, TypeOK, pool_vars, merge_vars
  <1>4. Content' = Content /\ Left' = Left
    BY <1>1, ContentStays DEF Left, Drop, merge_vars
  <1>5. Merging'
    BY <1>1, <1>4 DEF PInv, Merging, Gathering, merge_vars
  <1> QED BY <1>3, <1>5 DEF PInv

(* PInv is inductive: types, and the bookkeeping of the write loop. *)
THEOREM ParallelInductive == Spec => []PInv
  <1>1. Init => PInv
    <2> SUFFICES ASSUME Init PROVE PInv
      OBVIOUS
    <2>1. EmptySlot \in Slot /\ [EmptySlot EXCEPT !.initialized = TRUE] \in Slot
      BY EmptySeq DEF EmptySlot, Slot
    <2>2. slots \in [Workers -> Slot] /\ main_slot \in Slot
      BY <2>1 DEF Init
    <2>3. job \in [Workers -> {None} \cup Job] /\ \A w \in Workers : job[w] = None
      BY DEF Init
    <2>4. TypeOK
      <3>1. aborted \in BOOLEAN /\ signalled \in BOOLEAN /\ ok \in BOOLEAN
        BY Zenon DEF Init
      <3>2. iov \in Seq(Seq(Tokens)) /\ fd \in Seq(Tokens)
        BY EmptySeq DEF Init
      <3> QED BY <2>2, <2>3, <3>1, <3>2 DEF Init, TypeOK, Job, Tokens
    <2>5. Merging
      BY DEF Init, Merging, Gathering
    <2> QED BY <2>4, <2>5 DEF PInv
  <1>2. PInv /\ [Next]_vars => PInv'
    <2> SUFFICES ASSUME PInv, [Next]_vars PROVE PInv'
      OBVIOUS
    <2>1. \/ SearchStep \/ Merge \/ Writev \/ Advance \/ Advanced
          \/ FlushFails \/ WritevFails \/ Written \/ SetupFails
          \/ Signal \/ Finished \/ UNCHANGED vars
      BY DEF Next, MainStep, SearchStep
    <2> QED BY <2>1, SearchKept, MergeKept, WritevKept, AdvanceKept, AdvancedKept, EndKept, IdleKept
  <1> QED BY <1>1, <1>2, PTL DEF Spec

(* The parallel walk keeps its types: a worker has a directory only while  *)
(* bc_io_walk_parallel runs.                                               *)
THEOREM TypeCorrect == Spec => []TypeOK
  <1>1. PInv => TypeOK
    BY DEF PInv
  <1> QED BY <1>1, ParallelInductive, PTL

(* write_all_iovec loses and repeats nothing, for every number of segments *)
(* and every IOV_MAX, and however short the writes of writev are.          *)
THEOREM NothingLost == Spec => []WriteLosesNothing
  <1>1. PInv => WriteLosesNothing
    BY DEF PInv, Merging, WriteLosesNothing, Left, Drop, Content, BytesOf
  <1> QED BY <1>1, ParallelInductive, PTL

-----------------------------------------------------------------------------
(* What a step does to the buffers. *)

(* The main thread appends a root to its buffer. *)
RootAppended ==
  /\ RootsLeft /\ RootStat # NoMeta
  /\ RootVerdict(config, Root, RootStat) = ACCEPT
  /\ \E r \in append_match(main_slot.output_bytes, <<Root>>) : main_slot' = Keep(main_slot, r)

(* A worker appends an entry of the directory it reads to its slot. *)
EntryAppended(w) ==
  \E d \in job[w].todo :
    /\ pc = "pool" /\ job[w] # None /\ ~OtherDevice(d)
    /\ Accepted(Append(job[w].path, d), d)
    /\ \E r \in append_match(slots[w].output_bytes, Append(job[w].path, d)) :
         slots'[w] = Keep([slots[w] EXCEPT !.initialized = TRUE], r)

(* Every buffer keeps its bytes and its count but for these appends. *)
LEMMA SlotMoves ==
  ASSUME TypeOK, [Next]_vars
  PROVE  /\ main_slot' = main_slot \/ RootAppended
         /\ \A w \in Workers :
              \/ slots'[w] = slots[w]
              \/ slots'[w] = [slots[w] EXCEPT !.initialized = TRUE]
              \/ EntryAppended(w)
  <1>1. CASE HandleRoot
    BY <1>1 DEF HandleRoot, RootAppended
  <1>2. ASSUME NEW w \in Workers, NEW d \in Dirents, Visit(w, d)
        PROVE  /\ main_slot' = main_slot
               /\ \A v \in Workers :
                    \/ slots'[v] = slots[v]
                    \/ slots'[v] = [slots[v] EXCEPT !.initialized = TRUE]
                    \/ EntryAppended(v)
    <2> DEFINE path == Append(job[w].path, d)
               slot == [slots[w] EXCEPT !.initialized = TRUE]
    <2>1. /\ main_slot' = main_slot /\ pc = "pool" /\ job[w] # None /\ d \in job[w].todo
          /\ ~OtherDevice(d)
      BY <1>2 DEF Visit, NextEntry
    <2>2. slots \in [Workers -> Slot]
      BY DEF TypeOK
    <2>3. slot.output_bytes = slots[w].output_bytes
      BY <2>2 DEF Slot
    <2>4. CASE Accepted(path, d)
      <3>1. PICK r \in append_match(slot.output_bytes, path) :
              slots' = [slots EXCEPT ![w] = Keep(slot, r)]
        BY <1>2, <2>4 DEF Visit
      <3> HIDE DEF slot
      <3>2. slots'[w] = Keep(slot, r) /\ \A v \in Workers : v # w => slots'[v] = slots[v]
        BY <2>2, <3>1
      <3>3. EntryAppended(w)
        BY <2>1, <2>3, <2>4, <3>1, <3>2 DEF EntryAppended, slot
      <3> QED BY <2>1, <3>2, <3>3
    <2>5. CASE ~Accepted(path, d)
      <3>1. slots' = [slots EXCEPT ![w] = slot]
        BY <1>2, <2>5 DEF Visit
      <3> HIDE DEF slot
      <3>2. slots'[w] = slot /\ \A v \in Workers : v # w => slots'[v] = slots[v]
        BY <2>2, <3>1
      <3> QED BY <2>1, <3>2 DEF slot
    <2> QED BY <2>4, <2>5
  <1>3. \/ HandleRoot
        \/ \E w \in Workers : \E d \in Dirents : Visit(w, d)
        \/ UNCHANGED <<main_slot, slots>>
    <2>1. MainStep => HandleRoot \/ UNCHANGED <<main_slot, slots>>
      BY DEF MainStep, Setup, SetupFails, RootStatFails, PoolEnds, RootsExhausted, Merge, FlushFails,
             Writev, WritevFails, Advance, Advanced, Written
    <2>2. ASSUME NEW w \in Workers, WorkerStep(w)
          PROVE  (\E d \in Dirents : Visit(w, d)) \/ UNCHANGED <<main_slot, slots>>
      BY <2>2 DEF WorkerStep, TakeDirectory, OpenFails, DirectoryDone, VisitOtherDevice,
                  ReserveFails, NextEntry
    <2>3. Signal \/ Finished \/ UNCHANGED vars => UNCHANGED <<main_slot, slots>>
      BY DEF Signal, Finished, vars
    <2> QED BY <2>1, <2>2, <2>3 DEF Next
  <1> QED BY <1>1, <1>2, <1>3

-----------------------------------------------------------------------------
(* Whole lines. *)

(* The tokens of whole lines: a path, a separator, and so on. *)
Whole == {s \in Seq(Tokens) : /\ Len(s) % 2 = 0
                              /\ \A i \in 1..Len(s) : s[i] = Separator <=> i % 2 = 0}

(* Even and odd. *)
LEMMA Parity ==
  /\ 1 % 2 = 1 /\ 2 % 2 = 0 /\ 0 % 2 = 0
  /\ \A n \in Nat : (2 * n) % 2 = 0
  /\ \A m, n \in Nat : m % 2 = 0 /\ n % 2 = 0 => (m + n) % 2 = 0
  /\ \A m, i \in Nat : m % 2 = 0 /\ i > m => i % 2 = (i - m) % 2
  OBVIOUS

(* Whole lines after whole lines are whole lines. *)
LEMMA WholeConcat ==
  ASSUME NEW s \in Whole, NEW t \in Whole
  PROVE  s \o t \in Whole
  <1>1. /\ s \in Seq(Tokens) /\ t \in Seq(Tokens)
        /\ Len(s) \in Nat /\ Len(t) \in Nat /\ Len(s) % 2 = 0 /\ Len(t) % 2 = 0
        /\ \A i \in 1..Len(s) : s[i] = Separator <=> i % 2 = 0
        /\ \A i \in 1..Len(t) : t[i] = Separator <=> i % 2 = 0
    BY LenProperties DEF Whole
  <1> DEFINE u == s \o t
  <1>2. /\ u \in Seq(Tokens) /\ Len(u) = Len(s) + Len(t)
        /\ \A i \in 1..(Len(s) + Len(t)) : u[i] = IF i <= Len(s) THEN s[i] ELSE t[i - Len(s)]
    BY <1>1, ConcatProperties
  <1> HIDE DEF u
  <1> DEFINE m == Len(s)
             n == Len(t)
  <1>0. m \in Nat /\ n \in Nat /\ m % 2 = 0 /\ n % 2 = 0 /\ Len(u) = m + n
    BY <1>1, <1>2
  <1> HIDE DEF m, n
  <1>3. ASSUME NEW i \in 1..Len(u) PROVE u[i] = Separator <=> i % 2 = 0
    <2>1. CASE i <= Len(s)
      <3>1. i \in 1..Len(s) /\ i \in 1..(Len(s) + Len(t))
        BY <1>1, <1>2, <2>1
      <3> QED BY <1>1, <1>2, <2>1, <3>1
    <2>2. CASE ~(i <= Len(s))
      <3>0. ~(i <= m)
        BY <2>2 DEF m
      <3>1. i - m \in 1..n /\ i \in 1..(m + n) /\ i \in Nat /\ i > m
        BY <1>0, <3>0
      <3>2. i % 2 = (i - m) % 2
        BY <1>0, <3>1, Parity
      <3>3. i - Len(s) \in 1..Len(t) /\ i \in 1..(Len(s) + Len(t)) /\ i % 2 = (i - Len(s)) % 2
        BY <3>1, <3>2 DEF m, n
      <3>4. u[i] = t[i - Len(s)]
        BY <1>2, <2>2, <3>3
      <3>5. t[i - Len(s)] = Separator <=> (i - Len(s)) % 2 = 0
        BY <1>1, <3>3
      <3> QED BY <3>3, <3>4, <3>5
    <2> QED BY <2>1, <2>2
  <1>4. Len(u) % 2 = 0
    BY <1>0, Parity
  <1> QED BY <1>2, <1>3, <1>4 DEF Whole, u

(* One match is a whole line, and no match is none. *)
LEMMA WholeLine ==
  ASSUME NEW path \in Seq(Dirents)
  PROVE  <<path, Separator>> \in Whole /\ <<>> \in Whole
  <1>1. path # Separator /\ path \in Tokens /\ Separator \in Tokens
    BY WalkParallelAssumption DEF Tokens
  <1> DEFINE s == <<path, Separator>>
  <1>2. s \in Seq(Tokens) /\ Len(s) = 2 /\ s[1] = path /\ s[2] = Separator
    BY <1>1
  <1>3. \A i \in 1..2 : i = 1 \/ i = 2
    OBVIOUS
  <1>4. s \in Whole
    <2> HIDE DEF s
    <2>1. \A i \in 1..2 : s[i] = Separator <=> i % 2 = 0
      BY <1>1, <1>2, <1>3, Parity
    <2>2. Len(s) % 2 = 0
      BY <1>2, Parity
    <2> QED BY <1>2, <2>1, <2>2 DEF Whole
  <1>5. <<>> \in Whole
    BY EmptySeq, Parity DEF Whole
  <1> QED BY <1>4, <1>5

(* What holds of every segment and is kept by concatenation holds of the   *)
(* segments together.                                                      *)
LEMMA FlattenClosed ==
  ASSUME NEW C, <<>> \in C, \A s, t \in C : s \o t \in C, NEW segments \in Seq(C), NEW T, C \subseteq Seq(T)
  PROVE  Flatten(segments) \in C
  <1> DEFINE n == Len(segments)
  <1>1. n \in Nat /\ segments \in Seq(Seq(T)) /\ \A k \in 1..n : segments[k] \in C
    BY LenProperties
  <1>2. PICK flat : IsFlat(flat, segments, n) /\ Flatten(segments) = flat[n]
    BY <1>1, FlattenDef
  <1> HIDE DEF n
  <1> DEFINE Holds == {k \in Nat : k <= n => flat[k] \in C}
  <1>3. 0 \in Holds
    BY <1>2 DEF IsFlat
  <1>4. ASSUME NEW k \in Nat, k \in Holds PROVE k + 1 \in Holds
    <2>0. k + 1 \in Nat
      OBVIOUS
    <2> SUFFICES ASSUME k + 1 <= n PROVE flat[k + 1] \in C
      BY <2>0
    <2>1. k + 1 \in 1..n /\ (k + 1) - 1 = k /\ k <= n
      BY <1>1
    <2>2. flat[k + 1] = flat[(k + 1) - 1] \o segments[k + 1]
      BY <1>2, <2>1 DEF IsFlat
    <2>3. flat[k] \in C /\ segments[k + 1] \in C
      BY <1>1, <1>4, <2>1
    <2> QED BY <2>1, <2>2, <2>3
  <1> HIDE DEF Holds
  <1>5. n \in Holds
    BY <1>1, <1>3, <1>4, InductionBySet
  <1> QED BY <1>1, <1>2, <1>5 DEF Holds

(* If the push of a separator does not fail, every buffer holds whole      *)
(* lines, as many as it counts.                                            *)
LineSlot == {s \in Slot : s.output_bytes \in Whole /\ Len(s.output_bytes) = 2 * s.emitted_count}

LineBuffers == main_slot \in LineSlot /\ slots \in [Workers -> LineSlot]

(* Without a failing push append_match adds a whole line or nothing. *)
LEMMA KeepLines ==
  ASSUME "push" \notin Faults, NEW slot \in LineSlot, NEW path \in Seq(Dirents),
         NEW r \in append_match(slot.output_bytes, path)
  PROVE  Keep(slot, r) \in LineSlot
  <1> DEFINE b == slot.output_bytes
             n == slot.emitted_count
  <1>1. slot \in Slot /\ b \in Whole /\ b \in Seq(Tokens) /\ n \in Nat /\ Len(b) = 2 * n
    BY DEF LineSlot, Whole, Slot
  <1>2. /\ Keep(slot, r) \in Slot /\ r.ok \in BOOLEAN
        /\ Keep(slot, r).output_bytes = r.bytes
        /\ Keep(slot, r).emitted_count = IF r.ok THEN n + 1 ELSE n
    <2>1. path \in Tokens /\ Separator \in Tokens
      BY DEF Tokens
    <2>2. Slot = [initialized : BOOLEAN, output_bytes : Seq(Tokens), emitted_count : Nat]
      BY DEF Slot, Tokens
    <2> HIDE DEF b
    <2> QED BY <1>1, <2>1, <2>2, KeepType
  <1>3. \/ r = [ok |-> TRUE, bytes |-> b \o <<path, Separator>>]
        \/ r = [ok |-> FALSE, bytes |-> b]
    BY DEF append_match
  <1>4. CASE r = [ok |-> TRUE, bytes |-> b \o <<path, Separator>>]
    <2> DEFINE line == <<path, Separator>>
    <2>1. line \in Whole /\ line \in Seq(Tokens) /\ Len(line) = 2
      BY WholeLine DEF Whole
    <2>2. r.bytes = b \o line /\ r.ok
      BY <1>4
    <2> HIDE DEF line, b
    <2>3. b \o line \in Whole
      BY <1>1, <2>1, WholeConcat
    <2>4. Len(b \o line) = Len(b) + Len(line)
      BY <1>1, <2>1, ConcatProperties
    <2>5. Len(r.bytes) = 2 * (n + 1)
      <3>1. \A k \in Nat : 2 * k + 2 = 2 * (k + 1)
        OBVIOUS
      <3>2. Len(r.bytes) = 2 * n + 2
        BY <1>1, <2>1, <2>2, <2>4
      <3> HIDE DEF n
      <3> QED BY <1>1, <3>1, <3>2
    <2> QED BY <1>2, <2>2, <2>3, <2>5 DEF LineSlot
  <1>5. CASE r = [ok |-> FALSE, bytes |-> b]
    <2>1. r.bytes = b /\ ~r.ok
      BY <1>5
    <2> HIDE DEF b
    <2> QED BY <1>1, <1>2, <2>1 DEF LineSlot
  <1> QED BY <1>3, <1>4, <1>5

(* Every step keeps the buffers whole. *)
LEMMA LinesKept ==
  ASSUME "push" \notin Faults, TypeOK, TypeOK', LineBuffers, [Next]_vars
  PROVE  LineBuffers'
  <1>1. main_slot' \in LineSlot
    <2>1. CASE main_slot' = main_slot
      BY <2>1 DEF LineBuffers
    <2>2. CASE RootAppended
      <3>1. PICK r \in append_match(main_slot.output_bytes, <<Root>>) : main_slot' = Keep(main_slot, r)
        BY <2>2 DEF RootAppended
      <3>2. <<Root>> \in Seq(Dirents) /\ main_slot \in LineSlot
        BY <2>2, RootFacts DEF RootAppended, LineBuffers
      <3> QED BY <3>1, <3>2, KeepLines
    <2> QED BY <2>1, <2>2, SlotMoves
  <1>2. ASSUME NEW w \in Workers PROVE slots'[w] \in LineSlot
    <2> DEFINE slot == [slots[w] EXCEPT !.initialized = TRUE]
    <2>1. slots[w] \in LineSlot
      BY DEF LineBuffers
    <2>2. slot \in LineSlot /\ slot.output_bytes = slots[w].output_bytes
      <3>1. slots[w] \in Slot
        BY <2>1 DEF LineSlot
      <3>2. /\ slot \in Slot /\ slot.output_bytes = slots[w].output_bytes
            /\ slot.emitted_count = slots[w].emitted_count
        BY <3>1 DEF Slot
      <3> HIDE DEF slot
      <3> QED BY <2>1, <3>2 DEF LineSlot
    <2>3. CASE EntryAppended(w)
      <3>1. PICK d \in job[w].todo :
              /\ job[w] # None
              /\ \E r \in append_match(slots[w].output_bytes, Append(job[w].path, d)) :
                   slots'[w] = Keep(slot, r)
        BY <2>3 DEF EntryAppended
      <3>2. Append(job[w].path, d) \in Seq(Dirents)
        BY <3>1, JobFacts
      <3> HIDE DEF slot
      <3> QED BY <2>2, <3>1, <3>2, KeepLines
    <2> HIDE DEF slot
    <2>4. slots'[w] = slots[w] \/ slots'[w] = slot \/ EntryAppended(w)
      BY SlotMoves DEF slot
    <2> QED BY <2>1, <2>2, <2>3, <2>4
  <1>3. slots' \in [Workers -> LineSlot]
    BY <1>2 DEF TypeOK
  <1> QED BY <1>1, <1>3 DEF LineBuffers

(* What is written is a beginning of what there is to write, or nothing. *)
LEMMA WrittenIsPrefix ==
  ASSUME PInv
  PROVE  \/ fd = <<>>
         \/ /\ Len(fd) <= Len(Content)
            /\ \A i \in 1..Len(fd) : fd[i] = Content[i]
  <1>1. CASE Gathering
    BY <1>1 DEF PInv, Merging
  <1>2. CASE ~Gathering
    <2>1. /\ fd \in Seq(Tokens) /\ Flatten(iov) \in Seq(Tokens) /\ Content \in Seq(Tokens)
          /\ remaining \in Nat
      BY ContentTokens DEF PInv, TypeOK
    <2>2. PICK rest \in Seq(Tokens) : fd \o rest = Content
      <3>1. CASE pc = "done"
        BY <3>1 DEF PInv, Merging
      <3>2. CASE pc \in {"write", "advance"}
        <4>1. fd \o Left = Content /\ remaining <= Len(Flatten(iov))
          <5>1. Len(Flatten(iov)) \in Nat
            BY <2>1, LenProperties
          <5> QED BY <2>1, <3>2, <5>1 DEF PInv, Merging
        <4>2. Left \in Seq(Tokens)
          <5>1. remaining \in 0..Len(Flatten(iov))
            BY <2>1, <4>1, LenProperties
          <5> QED BY <2>1, <5>1, SplitAt DEF Left, Drop
        <4> QED BY <4>1, <4>2
      <3> QED BY <1>2, <3>1, <3>2 DEF Gathering, PInv, TypeOK
    <2>3. /\ Len(fd \o rest) = Len(fd) + Len(rest) /\ Len(fd) \in Nat /\ Len(rest) \in Nat
          /\ \A i \in 1..(Len(fd) + Len(rest)) :
               (fd \o rest)[i] = IF i <= Len(fd) THEN fd[i] ELSE rest[i - Len(fd)]
      BY <2>1, ConcatProperties, LenProperties
    <2>4. Len(fd) <= Len(Content)
      BY <2>2, <2>3
    <2>5. \A i \in 1..Len(fd) : i \in 1..(Len(fd) + Len(rest)) /\ i <= Len(fd)
      BY <2>3
    <2> QED BY <2>2, <2>3, <2>4, <2>5
  <1> QED BY <1>1, <1>2

(* The gathered buffers, one after the other, are whole lines. *)
LEMMA ContentWhole ==
  ASSUME TypeOK, LineBuffers
  PROVE  Content \in Whole
  <1>1. Gathered \in Seq(LineSlot)
    BY GatheredType DEF LineBuffers
  <1>2. Len(Gathered) \in Nat /\ \A k \in 1..Len(Gathered) : Gathered[k] \in LineSlot
    BY <1>1, LenProperties
  <1>3. \A k \in 1..Len(Gathered) : Gathered[k].output_bytes \in Whole
    BY <1>2 DEF LineSlot
  <1>4. BytesOf(Gathered) \in Seq(Whole)
    BY <1>2, <1>3 DEF BytesOf
  <1>5. <<>> \in Whole /\ Whole \subseteq Seq(Tokens)
    BY EmptySeq, Parity DEF Whole
  <1> QED BY <1>4, <1>5, WholeConcat, FlattenClosed DEF Content

(* One line per match: if the push of a separator never fails, the output  *)
(* alternates between a path and a separator at every moment, for any      *)
(* number of workers, any interleaving and any short write.  The           *)
(* hypothesis is needed: after a failed push a path without its separator  *)
(* stays in the buffer and the next match is appended to it.               *)
THEOREM LinesAreWhole == "push" \notin Faults => (Spec => []WholeLines)
  <1> SUFFICES ASSUME "push" \notin Faults PROVE Spec => []WholeLines
    OBVIOUS
  <1>1. Init => LineBuffers
    <2> SUFFICES ASSUME Init PROVE LineBuffers
      OBVIOUS
    <2>1. EmptySlot \in LineSlot /\ [EmptySlot EXCEPT !.initialized = TRUE] \in LineSlot
      <3>1. <<>> \in Whole /\ <<>> \in Seq(Tokens) /\ Len(<<>>) = 2 * 0
        BY EmptySeq, Parity DEF Whole
      <3> QED BY <3>1 DEF EmptySlot, LineSlot, Slot, Tokens
    <2> QED BY <2>1 DEF Init, LineBuffers
  <1>2. PInv /\ PInv' /\ LineBuffers /\ [Next]_vars => LineBuffers'
    BY LinesKept DEF PInv
  <1>3. PInv /\ LineBuffers => WholeLines
    <2> SUFFICES ASSUME PInv, LineBuffers PROVE WholeLines
      OBVIOUS
    <2>1. fd \in Seq(Tokens) /\ DOMAIN fd = 1..Len(fd) /\ Len(fd) \in Nat
      BY LenProperties DEF PInv, TypeOK, Tokens
    <2>2. CASE fd = <<>>
      BY <2>1, <2>2 DEF WholeLines
    <2>3. CASE Len(fd) <= Len(Content) /\ \A i \in 1..Len(fd) : fd[i] = Content[i]
      <3>1. /\ Content \in Seq(Tokens) /\ Len(Content) \in Nat
            /\ \A i \in 1..Len(Content) : Content[i] = Separator <=> i % 2 = 0
        BY ContentWhole, LenProperties DEF PInv, Whole
      <3>2. \A i \in 1..Len(fd) : i \in 1..Len(Content)
        BY <2>1, <2>3, <3>1
      <3> QED BY <2>1, <2>3, <3>1, <3>2 DEF WholeLines
    <2> QED BY <2>2, <2>3, WrittenIsPrefix
  <1> QED BY <1>1, <1>2, <1>3, ParallelInductive, PTL DEF Spec

-----------------------------------------------------------------------------
(* What the workers find. *)

(* No entry is taken for something else: one that is neither file,         *)
(* directory nor link, or that dangles, is looked up by its name in the    *)
(* working directory (parent_directory_fd is AT_FDCWD), and a link of      *)
(* unknown d_type is matched as a link although links are followed.        *)
EntriesNotMistaken(cfg) ==
  \A d \in Dirents : HolderOf[d] # NoInode =>
    LET again == fstatat(Cwd, NameOf[d], cfg.follow_symlinks)
        kind == Meta[LinkOf[d]].type
    IN /\ cfg.options.type_filter # None =>
            /\ kind = "any" => again = NoMeta \/ again.type = "any"
            /\ ~(kind = "symlink" /\ d \in UnknownDType /\ cfg.follow_symlinks)
       /\ NeedsStat(cfg.options) /\ StatOf(d, cfg.follow_symlinks) = NoMeta => again = NoMeta

(* The pool knows no capacity: the paths of the tree fit. *)
PathsFit(cfg) ==
  \A path \in Seq(Dirents) : IsChain(cfg, path) => PathLength(path) < PathCapacity

(* The verdict of visit on an entry is what the options ask for. *)
LEMMA EntryVerdict ==
  ASSUME TypeOK, EntriesNotMistaken(config), NEW d \in Dirents, HolderOf[d] # NoInode,
         NEW path \in Seq(Dirents), Len(path) > 1, path[Len(path)] = d
  PROVE  Accepted(path, d) <=> Matches(config, path)
  <1> DEFINE o == config.options
             p == predicate_from_options(o, Now)
             c == walk_candidate(path, d)
             st == EntryMeta(d)
             kind == Meta[LinkOf[d]].type
             again == fstatat(Cwd, NameOf[d], config.follow_symlinks)
             e == [path |-> path, basename |-> NameOf[d], depth |-> Len(path) - 1,
                   type |-> TypeOfPath(config, path)]
  <1>1. config \in Configs /\ BoundOptions(o) /\ config.follow_symlinks \in BOOLEAN
    BY SearchFacts DEF TypeOK
  <1>2. st = StatOf(d, config.follow_symlinks) /\ (st = NoMeta \/ st \in MetaRecords)
    BY <1>1, StatFacts DEF EntryMeta
  <1>3. LinkOf[d] \in Inodes /\ kind \in EntryTypes
    BY FileTreeAssumption DEF MetaRecords
  <1>4. /\ c.path = path /\ c.basename = NameOf[d] /\ c.depth = Len(path) - 1
        /\ c.entry_type = kind /\ c.type_resolved = (kind # "any")
        /\ c.stat_populated = (st # NoMeta)
        /\ st # NoMeta => /\ c.size_bytes = st.size /\ c.modification_time = st.mtime
                          /\ c.permission_mask = st.perm
        /\ DOMAIN c = CandidateFields
    BY DEF walk_candidate, CandidateFields
  <1>5. Matches(config, path) <=> Selected(o, Now, e, st)
    BY <1>2 DEF Matches
  <1>6. Accepted(path, d) <=> filter_evaluate(p, c, again).decision = ACCEPT
    BY DEF Accepted, predicate
  <1>7. /\ p.type_filter = o.type_filter /\ p.require_stat = NeedsStat(o)
        /\ o.type_filter # "any"
    <2>1. p.type_filter = o.type_filter /\ p.require_stat = NeedsStat(o)
      BY <1>1, PredicateFields
    <2>2. o.type_filter # "any"
      BY <1>1, FilterAssumption DEF BoundOptions, EntryTypes
    <2> QED BY <2>1, <2>2
  <1>8. /\ o.type_filter # None =>
             /\ kind = "any" => again = NoMeta \/ again.type = "any"
             /\ ~(kind = "symlink" /\ d \in UnknownDType /\ config.follow_symlinks)
        /\ NeedsStat(o) /\ st = NoMeta => again = NoMeta
    BY <1>2 DEF EntriesNotMistaken
  <1>9. /\ kind = "any" => TypeOfPath(config, path) = "any"
        /\ o.type_filter # None /\ kind # "any" => TypeOfPath(config, path) = kind
    <2>1. kind # "symlink" \/ ~config.follow_symlinks => st = Meta[LinkOf[d]]
      BY <1>2, <1>3, FileTreeAssumption DEF StatOf, NodeOf
    <2>2. st # NoMeta \/ kind = "symlink"
      BY <1>3, <2>1, FileTreeAssumption
    <2>3. TypeOfPath(config, path) = IF DType(d) # "any" THEN DType(d)
                                     ELSE IF st = NoMeta THEN "any" ELSE st.type
      BY <1>2 DEF TypeOfPath
    <2>4. DType(d) = IF d \in UnknownDType THEN "any" ELSE kind
      BY DEF DType
    <2>5. kind = "symlink" => kind # "any"
      OBVIOUS
    <2> HIDE DEF st
    <2>6. Meta[LinkOf[d]] \in MetaRecords /\ Meta[LinkOf[d]] # NoMeta
      BY <1>3, FileTreeAssumption
    <2> QED BY <1>8, <2>1, <2>2, <2>3, <2>4, <2>5, <2>6
  <1> HIDE DEF c, p, again, st, kind
  <1>10. ConsistentCandidate(c, st)
    <2>1. c.type_resolved \in BOOLEAN /\ (~c.type_resolved => c.entry_type = "any")
      BY <1>4
    <2>2. c.depth \in Nat
      BY <1>4, LenProperties
    <2>3. c.stat_populated \in BOOLEAN
      BY <1>4
    <2> QED BY <1>2, <1>4, <2>1, <2>2, <2>3 DEF ConsistentCandidate
  <1>11. filter_evaluate(p, c, st).decision = ACCEPT <=> Selected(o, Now, EntryOf(c, st), st)
    BY <1>1, <1>10, EvaluateMeaning DEF p
  <1>12. CASE o.type_filter # None /\ kind = "any"
    <2>1. ~Accepted(path, d)
      <3>1. ~c.type_resolved /\ (again = NoMeta \/ again.type = "any")
        BY <1>4, <1>8, <1>12
      <3> QED BY <1>1, <1>4, <1>6, <1>12, <3>1, UnknownTypeRejected DEF p
    <2>2. ~Selected(o, Now, e, st)
      <3>1. e.type = "any" /\ o.type_filter # "any" /\ o.type_filter # None
        BY <1>7, <1>9, <1>12
      <3> HIDE DEF e, o
      <3> QED BY <3>1, SelectedBounds
    <2> QED BY <2>1, <2>2, <1>5
  <1>13. CASE o.type_filter = None \/ kind # "any"
    <2>1. Selected(o, Now, EntryOf(c, st), st) <=> Selected(o, Now, e, st)
      <3>1. CASE o.type_filter # None
        <4>1. c.type_resolved /\ TypeOfPath(config, path) = kind
          BY <1>4, <1>9, <1>13, <3>1
        <4>2. EntryOf(c, st) = e
          BY <1>4, <4>1 DEF EntryOf
        <4> QED BY <4>2
      <3>2. CASE o.type_filter = None
        <4> DEFINE f == EntryOf(c, st)
        <4>1. f.path = e.path /\ f.basename = e.basename /\ f.depth = e.depth
          BY <1>4 DEF EntryOf
        <4> HIDE DEF e, f
        <4> QED BY <3>2, <4>1 DEF Selected, Asks, f
      <3> QED BY <3>1, <3>2
    <2>2. filter_evaluate(p, c, again).decision = filter_evaluate(p, c, st).decision
      <3>1. CASE st = NoMeta /\ again = NoMeta
        BY <3>1
      <3>2. CASE st # NoMeta \/ ~NeedsStat(o)
        <4>1. p.type_filter = None \/ c.type_resolved
          BY <1>4, <1>7, <1>13
        <4>2. c.stat_populated \/ ~p.require_stat
          BY <1>4, <1>7, <3>2
        <4> QED BY <4>1, <4>2, AnswerUnused
      <3> QED BY <1>8, <3>1, <3>2
    <2> QED BY <1>5, <1>6, <1>11, <2>1, <2>2
  <1> QED BY <1>12, <1>13

(* A directory the pool has: the search was to look into it, and with      *)
(* --one-file-system all of its path is on the device of the first root.   *)
WalkedOn(cfg, device, path) ==
  /\ path \in Seq(Dirents)
  /\ IsChain(cfg, path) /\ Enterable(cfg, path)
  /\ cfg.one_file_system =>
       /\ device # None
       /\ \A k \in 1..Len(path) : StatOf(path[k], cfg.follow_symlinks).dev = device

Walked(path) == WalkedOn(config, root_device, path)

(* The entries of a directory that visit is called for. *)
ListedIn(cfg, path, todo) ==
  \A d \in todo : /\ d \in Dirents /\ Visible(cfg, d)
                  /\ HolderOf[d] = NodeOf(path[Len(path)], cfg.follow_symlinks)

(* What the pool holds is what the search was to look into. *)
PoolInv ==
  /\ \A path \in queue : Walked(path)
  /\ \A w \in Workers : job[w] # None => Walked(job[w].path) /\ ListedIn(config, job[w].path, job[w].todo)
  /\ root_device # None =>
       \E i \in DOMAIN Roots(config) :
         LET st == StatOf(Roots(config)[i], config.follow_symlinks)
         IN st # NoMeta /\ st.dev = root_device

(* An entry of a directory that is walked. *)
LEMMA ChildFacts ==
  ASSUME TypeOK, NEW path, Walked(path), NEW d \in Dirents,
         HolderOf[d] = NodeOf(path[Len(path)], config.follow_symlinks)
  PROVE  LET child == Append(path, d)
         IN /\ child \in Seq(Dirents) /\ IsChain(config, child)
            /\ Len(path) \in Nat /\ Len(path) >= 1
            /\ Len(child) = Len(path) + 1 /\ child[Len(path) + 1] = d
            /\ \A k \in 1..Len(path) : child[k] = path[k]
            /\ HolderOf[d] # NoInode
  <1> DEFINE child == Append(path, d)
             n == Len(path)
  <1>1. /\ path \in Seq(Dirents) /\ IsChain(config, path) /\ Enterable(config, path)
        /\ config \in Configs
    BY DEF Walked, WalkedOn, TypeOK
  <1>2. n \in Nat /\ n >= 1
    BY <1>1, NonEmptyLength DEF IsChain
  <1>3. /\ child \in Seq(Dirents) /\ Len(child) = n + 1 /\ child[n + 1] = d
        /\ \A k \in 1..n : child[k] = path[k]
    BY <1>1, AppendProperties
  <1> HIDE DEF child, n
  <1>4. /\ child # <<>> /\ child[1] = path[1]
        /\ path # <<>> /\ \E i \in DOMAIN Roots(config) : path[1] = Roots(config)[i]
        /\ \A k \in 2..n : /\ HolderOf[path[k]] = NodeOf(path[k - 1], config.follow_symlinks)
                           /\ EnterableAt(config, path, k - 1)
    <2>1. 1 \in 1..n
      BY <1>2
    <2>2. child # <<>>
      BY <1>2, <1>3, EmptySeq
    <2> QED BY <1>1, <1>3, <2>1, <2>2, ChainByEntries DEF n
  <1>5. \A k \in 1..n : EnterableAt(config, child, k) <=> EnterableAt(config, path, k)
    BY <1>3 DEF EnterableAt
  <1>6. EnterableAt(config, path, n)
    BY <1>1, <1>2 DEF Enterable, EnterableAt, n
  <1>7. ASSUME NEW k \in 2..(n + 1)
        PROVE  /\ HolderOf[child[k]] = NodeOf(child[k - 1], config.follow_symlinks)
               /\ EnterableAt(config, child, k - 1)
    <2>1. k \in 2..n \/ k = n + 1
      BY <1>2
    <2>2. CASE k \in 2..n
      <3>1. k \in 1..n /\ k - 1 \in 1..n
        BY <1>2, <2>2
      <3> QED BY <1>3, <1>4, <1>5, <2>2, <3>1
    <2>3. CASE k = n + 1
      <3>1. k - 1 = n /\ n \in 1..n
        BY <1>2, <2>3
      <3> QED BY <1>3, <1>5, <1>6, <2>3, <3>1 DEF n
    <2> QED BY <2>1, <2>2, <2>3
  <1>8. IsChain(config, child)
    BY <1>3, <1>4, <1>7, ChainByEntries
  <1>9. HolderOf[d] # NoInode
    <2>1. config.follow_symlinks \in BOOLEAN
      BY <1>1, SearchFacts
    <2>2. path[n] \in Dirents
      BY <1>1, <1>2, LenProperties DEF n
    <2>3. IsDirectory(config, path[n])
      BY <1>1 DEF Enterable, n
    <2>4. NodeOf(path[n], config.follow_symlinks) \in Inodes
      BY <2>1, <2>2, <2>3, StatFacts DEF IsDirectory
    <2> QED BY <2>4, FileTreeAssumption DEF n
  <1> QED BY <1>2, <1>3, <1>8, <1>9 DEF child, n

(* A directory that NextEntry queues is one the search was to look into. *)
LEMMA QueuedChild ==
  ASSUME TypeOK, NEW path, Walked(path), NEW d \in Dirents, Visible(config, d),
         HolderOf[d] = NodeOf(path[Len(path)], config.follow_symlinks),
         IsDirectory(config, d), should_descend(Append(path, d), d)
  PROVE  Walked(Append(path, d))
  <1> DEFINE child == Append(path, d)
             n == Len(path)
  <1>1. /\ child \in Seq(Dirents) /\ IsChain(config, child) /\ n \in Nat /\ n >= 1
        /\ Len(child) = n + 1 /\ child[n + 1] = d /\ \A k \in 1..n : child[k] = path[k]
    BY ChildFacts
  <1> HIDE DEF child, n
  <1>2. Enterable(config, child)
    BY <1>1 DEF should_descend, Enterable, filter_ignored_directory_name, child
  <1>3. config.one_file_system =>
          /\ root_device # None
          /\ \A k \in 1..(n + 1) : StatOf(child[k], config.follow_symlinks).dev = root_device
    <2> SUFFICES ASSUME config.one_file_system
                 PROVE  /\ root_device # None
                        /\ \A k \in 1..(n + 1) :
                             StatOf(child[k], config.follow_symlinks).dev = root_device
      OBVIOUS
    <2>1. root_device # None /\ \A k \in 1..n : StatOf(path[k], config.follow_symlinks).dev = root_device
      BY DEF Walked, WalkedOn, n
    <2>2. StatOf(d, config.follow_symlinks).dev = root_device
      BY <2>1 DEF should_descend, OtherDevice, EntryMeta, IsDirectory
    <2>3. \A k \in 1..(n + 1) : k \in 1..n \/ k = n + 1
      BY <1>1
    <2> QED BY <1>1, <2>1, <2>2, <2>3
  <1> QED BY <1>1, <1>2, <1>3 DEF Walked, WalkedOn, child

(* A step leaves the search alone; only the first root sets the device. *)
LEMMA DeviceMoves ==
  ASSUME [Next]_vars
  PROVE  /\ config' = config
         /\ HandleRoot \/ root_device' = root_device
         /\ root_device # None => root_device' = root_device
  <1>1. HandleRoot => config' = config /\ (root_device # None => root_device' = root_device)
    BY DEF HandleRoot
  <1>2. MainStep => HandleRoot \/ UNCHANGED <<config, root_device>>
    BY DEF MainStep, Setup, SetupFails, RootStatFails, PoolEnds, RootsExhausted, Merge, FlushFails,
           Writev, WritevFails, Advance, Advanced, Written
  <1>3. ASSUME NEW w \in Workers, WorkerStep(w)
        PROVE  UNCHANGED <<config, root_device>>
    BY <1>3 DEF WorkerStep, TakeDirectory, OpenFails, DirectoryDone, VisitOtherDevice, Visit,
                ReserveFails, NextEntry
  <1>4. Signal \/ Finished \/ UNCHANGED vars => UNCHANGED <<config, root_device>>
    BY DEF Signal, Finished, vars
  <1> QED BY <1>1, <1>2, <1>3, <1>4 DEF Next

(* Directories that were to be walked still are. *)
LEMMA WalkedStays ==
  ASSUME [Next]_vars
  PROVE  \A path : Walked(path) => WalkedOn(config', root_device', path)
  <1>1. config' = config /\ (root_device # None => root_device' = root_device)
    BY DeviceMoves
  <1> QED BY <1>1 DEF Walked, WalkedOn

(* What a step does to the queue and to what a worker reads. *)
LEMMA PoolMoves ==
  ASSUME TypeOK, [Next]_vars
  PROVE  /\ \A path \in queue' :
              \/ path \in queue
              \/ HandleRoot /\ RootIsWalked /\ path = <<Root>>
              \/ \E w \in Workers : \E d \in Dirents :
                   /\ job[w] # None /\ d \in job[w].todo /\ path = Append(job[w].path, d)
                   /\ IsDirectory(config, d) /\ should_descend(path, d)
         /\ \A w \in Workers :
              \/ job'[w] = None
              \/ \E path \in queue : job'[w] = [path |-> path, todo |-> Listed(path)]
              \/ job[w] # None /\ job'[w].path = job[w].path /\ job'[w].todo \subseteq job[w].todo
  <1> DEFINE Queued(path) ==
               \E w \in Workers : \E d \in Dirents :
                 /\ job[w] # None /\ d \in job[w].todo /\ path = Append(job[w].path, d)
                 /\ IsDirectory(config, d) /\ should_descend(path, d)
             Kept(w) ==
               \/ job'[w] = None
               \/ \E path \in queue : job'[w] = [path |-> path, todo |-> Listed(path)]
               \/ job[w] # None /\ job'[w].path = job[w].path /\ job'[w].todo \subseteq job[w].todo
  <1>0. /\ job \in [Workers -> {None} \cup Job]
        /\ \A w \in Workers : job' = job => Kept(w)
    BY DEF TypeOK, Job
  <1>1. CASE HandleRoot
    <2>1. job' = job
      BY <1>1 DEF HandleRoot
    <2>2. \A path \in queue' : path \in queue \/ (RootIsWalked /\ path = <<Root>>)
      <3>1. CASE RootIsWalked
        BY <1>1, <3>1 DEF HandleRoot
      <3>2. CASE ~RootIsWalked
        BY <1>1, <3>2 DEF HandleRoot
      <3> QED BY <3>1, <3>2
    <2> QED BY <1>0, <1>1, <2>1, <2>2
  <1>2. ASSUME NEW w \in Workers, WorkerStep(w)
        PROVE  /\ \A path \in queue' : path \in queue \/ Queued(path)
               /\ \A v \in Workers : Kept(v)
    <2>1. CASE TakeDirectory(w)
      <3>1. PICK path \in queue :
              /\ queue' = queue \ {path}
              /\ job' = [job EXCEPT ![w] = [path |-> path, todo |-> Listed(path)]]
        BY <2>1 DEF TakeDirectory
      <3>2. \A v \in Workers : v # w => job'[v] = job[v]
        BY <1>0, <3>1
      <3>3. job'[w] = [path |-> path, todo |-> Listed(path)]
        BY <1>0, <3>1
      <3> QED BY <3>1, <3>2, <3>3
    <2>2. CASE OpenFails(w)
      BY <1>0, <2>2 DEF OpenFails
    <2>3. CASE DirectoryDone(w) \/ \E d \in Dirents : ReserveFails(w, d)
      <3>1. queue' = queue /\ job' = [job EXCEPT ![w] = None]
        BY <2>3 DEF DirectoryDone, ReserveFails
      <3>2. job'[w] = None /\ \A v \in Workers : v # w => job'[v] = job[v]
        BY <1>0, <3>1
      <3> QED BY <3>1, <3>2
    <2>4. ASSUME NEW d \in Dirents, VisitOtherDevice(w, d) \/ Visit(w, d)
          PROVE  /\ \A path \in queue' : path \in queue \/ Queued(path)
                 /\ \A v \in Workers : Kept(v)
      <3>1. job[w] # None /\ d \in job[w].todo /\ NextEntry(w, d)
        BY <2>4 DEF VisitOtherDevice, Visit
      <3>2. job[w] \in Job
        BY <3>1, JobFacts
      <3>3. job' = [job EXCEPT ![w].todo = @ \ {d}]
        BY <3>1 DEF NextEntry
      <3>4. /\ job'[w].path = job[w].path /\ job'[w].todo = job[w].todo \ {d}
            /\ \A v \in Workers : v # w => job'[v] = job[v]
        BY <1>0, <3>2, <3>3 DEF Job
      <3>5. \A v \in Workers : Kept(v)
        BY <3>1, <3>4
      <3>6. \A path \in queue' : path \in queue \/ Queued(path)
        BY <3>1 DEF NextEntry
      <3> QED BY <3>5, <3>6
    <2> QED BY <1>2, <2>1, <2>2, <2>3, <2>4 DEF WorkerStep
  <1>3. MainStep => HandleRoot \/ (queue' \subseteq queue /\ job' = job)
    BY DEF MainStep, Setup, SetupFails, RootStatFails, PoolEnds, RootsExhausted, Merge, FlushFails,
           Writev, WritevFails, Advance, Advanced, Written, pool_vars
  <1>4. Signal \/ Finished \/ UNCHANGED vars => queue' = queue /\ job' = job
    BY DEF Signal, Finished, vars, pool_vars
  <1>5. CASE queue' \subseteq queue /\ job' = job
    BY <1>0, <1>5
  <1> HIDE DEF Kept, Queued
  <1>6. CASE \E w \in Workers : WorkerStep(w)
    BY <1>2, <1>6 DEF Kept, Queued
  <1> QED BY <1>1, <1>3, <1>4, <1>5, <1>6 DEF Next

(* What is left alone of the pool stays as it should be. *)
LEMMA PoolKept ==
  ASSUME TypeOK, RootsShareDevice(config), PoolInv, [Next]_vars
  PROVE  PoolInv'
  <1>1. config' = config /\ config \in Configs /\ config.follow_symlinks \in BOOLEAN
    BY DeviceMoves, SearchFacts DEF TypeOK
  <1>2. root_device' # None =>
          \E i \in DOMAIN Roots(config) :
            LET st == StatOf(Roots(config)[i], config.follow_symlinks)
            IN st # NoMeta /\ st.dev = root_device'
    <2>1. CASE root_device' = root_device
      BY <2>1 DEF PoolInv
    <2>2. CASE HandleRoot /\ root_device' # root_device
      <3>1. RootsLeft /\ RootStat # NoMeta /\ root_device' = RootStat.dev
        BY <2>2 DEF HandleRoot
      <3>2. root_index \in DOMAIN Roots(config)
            /\ RootStat = StatOf(Roots(config)[root_index], config.follow_symlinks)
        BY <3>1, RootFacts DEF RootStat
      <3> QED BY <3>1, <3>2
    <2> QED BY <2>1, <2>2, DeviceMoves
  <1>3. ASSUME HandleRoot, RootIsWalked
        PROVE  WalkedOn(config', root_device', <<Root>>)
    <2> DEFINE path == <<Root>>
    <2>1. /\ RootsLeft /\ RootStat # NoMeta
          /\ root_device' = IF config.one_file_system /\ root_device = None
                            THEN RootStat.dev ELSE root_device
      BY <1>3 DEF HandleRoot
    <2>2. /\ root_index \in DOMAIN Roots(config) /\ Root \in Dirents
          /\ Root = Roots(config)[root_index] /\ RootStat \in MetaRecords
          /\ RootStat = StatOf(Root, config.follow_symlinks)
      BY <2>1, RootFacts DEF RootStat
    <2>3. path \in Seq(Dirents) /\ Len(path) = 1 /\ path[1] = Root /\ path # <<>>
      BY <2>2
    <2> HIDE DEF path
    <2>4. IsChain(config, path)
      <3>1. \A k \in 2..1 : FALSE
        OBVIOUS
      <3>2. \E i \in DOMAIN Roots(config) : path[1] = Roots(config)[i]
        BY <2>2, <2>3
      <3>3. \A k \in 2..Len(path) : FALSE
        BY <2>3, <3>1
      <3> QED BY <2>3, <3>2, <3>3 DEF IsChain
    <2>5. Enterable(config, path)
      <3>1. IsDirectory(config, Root)
        BY <1>3, <2>1, <2>2 DEF RootIsWalked, IsDirectory
      <3>2. config.options.max_depth # None => 0 < config.options.max_depth
        BY <1>1, <1>3, SearchFacts DEF RootIsWalked
      <3> QED BY <2>3, <3>1, <3>2 DEF Enterable
    <2>6. config.one_file_system =>
            root_device' # None /\ StatOf(Root, config.follow_symlinks).dev = root_device'
      <3> SUFFICES ASSUME config.one_file_system
                   PROVE  root_device' # None /\ RootStat.dev = root_device'
        BY <2>2
      <3>1. CASE root_device = None
        <4>1. RootStat.dev \in Devices /\ None \notin Devices
          BY <2>2, SearchSpaceAssumption DEF MetaRecords
        <4> QED BY <2>1, <3>1, <4>1
      <3>2. CASE root_device # None
        <4>1. PICK i \in DOMAIN Roots(config) :
                LET st == StatOf(Roots(config)[i], config.follow_symlinks)
                IN st # NoMeta /\ st.dev = root_device
          BY <3>2 DEF PoolInv
        <4>2. RootStat.dev = root_device
          BY <2>1, <2>2, <4>1 DEF RootsShareDevice
        <4> QED BY <2>1, <3>2, <4>2
      <3> QED BY <3>1, <3>2
    <2>7. \A k \in 1..1 : k = 1
      OBVIOUS
    <2> QED BY <1>1, <2>3, <2>4, <2>5, <2>6, <2>7 DEF WalkedOn, path
  <1>4. ASSUME NEW path \in queue' PROVE WalkedOn(config', root_device', path)
    <2>1. CASE path \in queue
      BY <2>1, WalkedStays DEF PoolInv
    <2>2. ASSUME NEW w \in Workers, NEW d \in Dirents,
                 job[w] # None, d \in job[w].todo, path = Append(job[w].path, d),
                 IsDirectory(config, d), should_descend(path, d)
          PROVE  WalkedOn(config', root_device', path)
      <3>1. /\ Walked(job[w].path) /\ Visible(config, d)
            /\ HolderOf[d] = NodeOf(job[w].path[Len(job[w].path)], config.follow_symlinks)
        BY <2>2 DEF PoolInv, ListedIn
      <3>2. Walked(path)
        BY <2>2, <3>1, QueuedChild
      <3> QED BY <3>2, WalkedStays
    <2> QED BY <1>3, <2>1, <2>2, PoolMoves
  <1>5. ASSUME NEW w \in Workers, job'[w] # None
        PROVE  /\ WalkedOn(config', root_device', job'[w].path)
               /\ ListedIn(config', job'[w].path, job'[w].todo)
    <2>1. CASE \E path \in queue : job'[w] = [path |-> path, todo |-> Listed(path)]
      <3>1. PICK path \in queue : job'[w] = [path |-> path, todo |-> Listed(path)]
        BY <2>1
      <3>2. job'[w].path = path /\ job'[w].todo = Listed(path)
        BY <3>1
      <3>3. ListedIn(config, path, Listed(path))
        BY DEF ListedIn, Listed, EntriesOf, Visible
      <3>4. WalkedOn(config', root_device', path)
        BY <3>1, WalkedStays DEF PoolInv
      <3> QED BY <1>1, <3>2, <3>3, <3>4
    <2>2. CASE job[w] # None /\ job'[w].path = job[w].path /\ job'[w].todo \subseteq job[w].todo
      <3>1. Walked(job[w].path) /\ ListedIn(config, job[w].path, job[w].todo)
        BY <2>2 DEF PoolInv
      <3>2. ListedIn(config', job'[w].path, job'[w].todo)
        BY <1>1, <2>2, <3>1 DEF ListedIn
      <3> QED BY <2>2, <3>1, <3>2, WalkedStays
    <2> QED BY <1>5, <2>1, <2>2, PoolMoves
  <1>6. (\A path \in queue : Walked(path))' 
    BY <1>4 DEF Walked
  <1>7. (\A w \in Workers : job[w] # None => Walked(job[w].path) /\ ListedIn(config, job[w].path, job[w].todo))'
    BY <1>5 DEF Walked
  <1> QED BY <1>1, <1>2, <1>6, <1>7 DEF PoolInv

(* A search of which the parallel walk can keep the promise, but for what  *)
(* fails on the way.                                                       *)
Ordinary(cfg) == OrdinaryRoots(cfg) /\ EntriesNotMistaken(cfg) /\ PathsFit(cfg)

(* A root that is appended is wanted. *)
LEMMA RootIsWanted ==
  ASSUME TypeOK, Ordinary(config), RootAppended
  PROVE  <<Root>> \in WantedOf[config]
  <1> DEFINE path == <<Root>>
  <1>1. /\ config \in Configs /\ root_index \in DOMAIN Roots(config)
        /\ Root \in Dirents /\ Root = Roots(config)[root_index]
        /\ RootStat # NoMeta /\ RootStat = StatOf(Root, config.follow_symlinks)
        /\ RootVerdict(config, Root, RootStat) = ACCEPT
    BY RootFacts DEF RootAppended, RootStat
  <1>2. path \in Seq(Dirents) /\ Len(path) = 1 /\ path[1] = Root /\ path # <<>>
    BY <1>1
  <1>3. Matches(config, path)
    BY <1>1, RootVerdictMatches DEF Ordinary, OrdinaryRoots
  <1> HIDE DEF path
  <1>4. IsChain(config, path)
    <2>1. \E i \in DOMAIN Roots(config) : path[1] = Roots(config)[i]
      BY <1>1, <1>2
    <2>2. \A k \in 2..1 : FALSE
      OBVIOUS
    <2> QED BY <1>2, <2>1, <2>2 DEF IsChain
  <1>5. OnOneDevice(config, path)
    <2>1. \A k \in 1..(1 - 1) : FALSE
      OBVIOUS
    <2> QED BY <1>2, <2>1 DEF OnOneDevice
  <1>6. IsWanted(config, path)
    BY <1>1, <1>2, <1>3, <1>4, <1>5 DEF IsWanted, Ordinary, PathsFit
  <1> QED BY <1>1, <1>2, <1>6, WantedBySequences DEF path

(* So is an entry that a worker appends. *)
LEMMA EntryIsWanted ==
  ASSUME TypeOK, Ordinary(config), PoolInv, NEW w \in Workers, job[w] # None,
         NEW d \in job[w].todo, Accepted(Append(job[w].path, d), d)
  PROVE  Append(job[w].path, d) \in WantedOf[config]
  <1> DEFINE from == job[w].path
             path == Append(from, d)
             n == Len(from)
  <1>1. /\ Walked(from) /\ d \in Dirents /\ Visible(config, d) /\ config \in Configs
        /\ HolderOf[d] = NodeOf(from[n], config.follow_symlinks)
    BY DEF PoolInv, ListedIn, TypeOK
  <1>2. /\ path \in Seq(Dirents) /\ IsChain(config, path) /\ n \in Nat /\ n >= 1
        /\ Len(path) = n + 1 /\ path[n + 1] = d
        /\ \A k \in 1..n : path[k] = from[k]
        /\ HolderOf[d] # NoInode
    BY <1>1, ChildFacts
  <1>3. Matches(config, path)
    <2> HIDE DEF path, n
    <2>1. Len(path) > 1 /\ path[Len(path)] = d
      BY <1>2
    <2> QED BY <1>1, <1>2, <2>1, EntryVerdict DEF Ordinary, path
  <1>4. config.one_file_system => OnOneDevice(config, path)
    <2> SUFFICES ASSUME config.one_file_system PROVE OnOneDevice(config, path)
      OBVIOUS
    <2>1. \A k \in 1..n : StatOf(from[k], config.follow_symlinks).dev = root_device
      BY <1>1 DEF Walked, WalkedOn
    <2> HIDE DEF path, n, from
    <2>2. Len(path) - 1 = n /\ 1 \in 1..n
      BY <1>2
    <2> QED BY <1>2, <2>1, <2>2 DEF OnOneDevice
  <1> HIDE DEF path, n
  <1>5. /\ Len(path) > 1 /\ Len(path) # 1 /\ path[Len(path)] = d
        /\ PathLength(path) < PathCapacity
    <2>1. n + 1 > 1 /\ n + 1 # 1
      BY <1>2
    <2> QED BY <1>2, <2>1 DEF Ordinary, PathsFit
  <1>6. IsWanted(config, path)
    BY <1>1, <1>2, <1>3, <1>4, <1>5 DEF IsWanted
  <1> QED BY <1>1, <1>2, <1>6, WantedBySequences DEF path

(* The paths in the buffers are wanted. *)
WantedTokens == WantedOf[config] \cup {Separator}

WantedBuffers ==
  /\ main_slot.output_bytes \in Seq(WantedTokens)
  /\ \A w \in Workers : slots[w].output_bytes \in Seq(WantedTokens)

(* Every step keeps the buffers to wanted paths. *)
LEMMA WantedKept ==
  ASSUME TypeOK, Ordinary(config), PoolInv, WantedBuffers, [Next]_vars
  PROVE  WantedBuffers'
  <1> DEFINE T == WantedTokens
             SlotOf == [initialized : BOOLEAN, output_bytes : Seq(T), emitted_count : Nat]
  <1>1. config' = config
    BY DeviceMoves
  <1>2. Separator \in T /\ WantedOf[config] \subseteq T
    BY DEF WantedTokens
  <1>3. main_slot \in SlotOf /\ \A w \in Workers : slots[w] \in SlotOf
    BY DEF TypeOK, Slot, WantedBuffers
  <1> HIDE DEF T
  <1>4. main_slot'.output_bytes \in Seq(T)
    <2>1. CASE main_slot' = main_slot
      BY <1>3, <2>1
    <2>2. CASE RootAppended
      <3>1. PICK r \in append_match(main_slot.output_bytes, <<Root>>) : main_slot' = Keep(main_slot, r)
        BY <2>2 DEF RootAppended
      <3>2. <<Root>> \in T
        BY <1>2, <2>2, RootIsWanted
      <3>3. Keep(main_slot, r) \in SlotOf
        BY <1>2, <1>3, <3>1, <3>2, KeepType
      <3> QED BY <3>1, <3>3
    <2> QED BY <2>1, <2>2, SlotMoves
  <1>5. ASSUME NEW w \in Workers PROVE slots'[w].output_bytes \in Seq(T)
    <2> DEFINE slot == [slots[w] EXCEPT !.initialized = TRUE]
    <2>1. slot \in SlotOf /\ slot.output_bytes = slots[w].output_bytes
      BY <1>3
    <2>2. CASE EntryAppended(w)
      <3>1. PICK d \in job[w].todo :
              /\ job[w] # None /\ Accepted(Append(job[w].path, d), d)
              /\ \E r \in append_match(slots[w].output_bytes, Append(job[w].path, d)) :
                   slots'[w] = Keep(slot, r)
        BY <2>2 DEF EntryAppended
      <3>2. Append(job[w].path, d) \in T
        BY <1>2, <3>1, EntryIsWanted
      <3> HIDE DEF slot
      <3>3. slots'[w] \in SlotOf
        BY <1>2, <2>1, <3>1, <3>2, KeepType
      <3> QED BY <3>3
    <2> HIDE DEF slot
    <2>3. slots'[w] = slots[w] \/ slots'[w] = slot \/ EntryAppended(w)
      BY SlotMoves DEF slot
    <2> QED BY <1>3, <2>1, <2>2, <2>3
  <1> QED BY <1>1, <1>4, <1>5 DEF WantedBuffers, WantedTokens, T

(* What is printed comes from the buffers. *)
LEMMA WantedOutput ==
  ASSUME PInv, WantedBuffers
  PROVE  OutputIsWanted
  <1>1. /\ fd \in Seq(Tokens) /\ DOMAIN fd = 1..Len(fd) /\ Len(fd) \in Nat
    BY LenProperties DEF PInv, TypeOK, Tokens
  <1>2. Content \in Seq(WantedTokens)
    BY ContentType DEF PInv, WantedBuffers
  <1>3. \A i \in DOMAIN fd : fd[i] \in WantedTokens
    <2>1. CASE fd = <<>>
      BY <1>1, <2>1
    <2>2. CASE Len(fd) <= Len(Content) /\ \A i \in 1..Len(fd) : fd[i] = Content[i]
      <3>1. Len(Content) \in Nat /\ \A i \in 1..Len(Content) : Content[i] \in WantedTokens
        BY <1>2, LenProperties
      <3>2. \A i \in 1..Len(fd) : i \in 1..Len(Content)
        BY <1>1, <2>2, <3>1
      <3> QED BY <1>1, <2>2, <3>1, <3>2
    <2> QED BY <2>1, <2>2, WrittenIsPrefix
  <1>4. \A i \in Lines : fd[i] \in WantedOf[config]
    BY <1>3 DEF Lines, WantedTokens
  <1> QED BY <1>4 DEF OutputIsWanted, Printed

(* Nothing is printed that was not asked for: for every tree, every number *)
(* of workers and every interleaving, and whatever fails, the records on   *)
(* the output that have their separator are paths that IsWanted describes, *)
(* if the search is Ordinary.  Without EntriesNotMistaken it is false (run *)
(* fifo_by_basename), without RootsShareDevice too: a mount of the first   *)
(* root's device below a root of another device is entered.                *)
THEOREM ParallelPrintsOnlyWanted == Spec => [](Ordinary(config) => OutputIsWanted)
  <1> DEFINE Inv == Ordinary(config) => PoolInv /\ WantedBuffers
  <1>1. Init => Inv
    <2> SUFFICES ASSUME Init PROVE PoolInv /\ WantedBuffers
      OBVIOUS
    <2>1. PoolInv
      BY DEF Init, PoolInv
    <2>2. WantedBuffers
      BY EmptySeq DEF Init, EmptySlot, WantedBuffers
    <2> QED BY <2>1, <2>2
  <1>2. PInv /\ Inv /\ [Next]_vars => Inv'
    <2> SUFFICES ASSUME PInv, Inv, [Next]_vars, Ordinary(config)' PROVE PoolInv' /\ WantedBuffers'
      OBVIOUS
    <2>1. Ordinary(config)
      BY DeviceMoves
    <2>2. TypeOK /\ PoolInv /\ WantedBuffers /\ RootsShareDevice(config)
      BY <2>1 DEF PInv, Ordinary, OrdinaryRoots
    <2> QED BY <2>1, <2>2, PoolKept, WantedKept
  <1>3. PInv /\ Inv => (Ordinary(config) => OutputIsWanted)
    BY WantedOutput
  <1> HIDE DEF Inv
  <1> QED BY <1>1, <1>2, <1>3, ParallelInductive, PTL DEF Spec

-----------------------------------------------------------------------------
(* Nothing is missing. *)

(* A path and its separator stand somewhere in a buffer. *)
LineIn(bytes, path) ==
  \E i \in 1..Len(bytes) : i + 1 \in 1..Len(bytes) /\ bytes[i] = path /\ bytes[i + 1] = Separator

(* What stands in a part stands in the whole. *)
LEMMA LineInConcat ==
  ASSUME NEW T, NEW s \in Seq(T), NEW t \in Seq(T), NEW path
  PROVE  /\ LineIn(s, path) => LineIn(s \o t, path)
         /\ LineIn(t, path) => LineIn(s \o t, path)
  <1> DEFINE u == s \o t
             m == Len(s)
             n == Len(t)
  <1>1. /\ Len(u) = m + n /\ m \in Nat /\ n \in Nat
        /\ \A i \in 1..(m + n) : u[i] = IF i <= m THEN s[i] ELSE t[i - m]
    BY ConcatProperties, LenProperties
  <1> HIDE DEF u, m, n
  <1>2. \A i \in 1..m : i \in 1..(m + n) /\ u[i] = s[i]
    <2>1. \A i \in 1..m : i \in 1..(m + n) /\ i <= m
      BY <1>1
    <2> QED BY <1>1, <2>1
  <1>3. \A i \in 1..n : i + m \in 1..(m + n) /\ u[i + m] = t[i]
    <2>1. \A i \in 1..n : i + m \in 1..(m + n) /\ ~(i + m <= m) /\ (i + m) - m = i
      BY <1>1
    <2> QED BY <1>1, <2>1
  <1>4. ASSUME LineIn(s, path) PROVE LineIn(u, path)
    <2>1. PICK i \in 1..m : i + 1 \in 1..m /\ s[i] = path /\ s[i + 1] = Separator
      BY <1>4 DEF LineIn, m
    <2> QED BY <1>1, <1>2, <2>1 DEF LineIn
  <1>5. ASSUME LineIn(t, path) PROVE LineIn(u, path)
    <2>1. PICK i \in 1..n : i + 1 \in 1..n /\ t[i] = path /\ t[i + 1] = Separator
      BY <1>5 DEF LineIn, n
    <2>2. (i + m) + 1 = (i + 1) + m
      BY <1>1
    <2> QED BY <1>1, <1>3, <2>1, <2>2 DEF LineIn
  <1> QED BY <1>4, <1>5 DEF u

(* An append takes no line away, and one that succeeds adds a line. *)
LEMMA AppendedLines ==
  ASSUME NEW b \in Seq(Tokens), NEW path \in Seq(Dirents), NEW r \in append_match(b, path)
  PROVE  /\ \A other : LineIn(b, other) => LineIn(r.bytes, other)
         /\ r.ok => LineIn(r.bytes, path)
  <1>1. <<path, Separator>> \in Seq(Tokens) /\ <<path>> \in Seq(Tokens)
    BY DEF Tokens
  <1>2. LineIn(<<path, Separator>>, path)
    <2> DEFINE s == <<path, Separator>>
    <2>1. Len(s) = 2 /\ s[1] = path /\ s[2] = Separator
      OBVIOUS
    <2> HIDE DEF s
    <2>2. 1 \in 1..2 /\ 1 + 1 \in 1..2 /\ 1 + 1 = 2
      OBVIOUS
    <2>3. LineIn(s, path)
      BY <2>1, <2>2 DEF LineIn
    <2> QED BY <2>3 DEF s
  <1>3. \/ r = [ok |-> TRUE, bytes |-> b \o <<path, Separator>>]
        \/ r = [ok |-> FALSE, bytes |-> b]
        \/ r = [ok |-> FALSE, bytes |-> Append(b, path)]
    BY DEF append_match
  <1>4. CASE r = [ok |-> TRUE, bytes |-> b \o <<path, Separator>>]
    <2>1. r.bytes = b \o <<path, Separator>>
      BY <1>4
    <2> QED BY <1>1, <1>2, <2>1, LineInConcat
  <1>5. CASE r = [ok |-> FALSE, bytes |-> b]
    BY <1>5
  <1>6. CASE r = [ok |-> FALSE, bytes |-> Append(b, path)]
    <2>1. r.bytes = b \o <<path>> /\ ~r.ok
      BY <1>6
    <2> QED BY <1>1, <2>1, LineInConcat
  <1> QED BY <1>3, <1>4, <1>5, <1>6

(* A path has been appended to a buffer. *)
Emitted(path) ==
  \/ LineIn(main_slot.output_bytes, path)
  \/ \E w \in Workers : LineIn(slots[w].output_bytes, path)

(* No step takes it back. *)
LEMMA EmittedStays ==
  ASSUME TypeOK, [Next]_vars, NEW path, Emitted(path)
  PROVE  Emitted(path)'
  <1>0. /\ main_slot \in Slot /\ main_slot.output_bytes \in Seq(Tokens)
        /\ \A w \in Workers : slots[w] \in Slot /\ slots[w].output_bytes \in Seq(Tokens)
    BY DEF TypeOK, Slot, Tokens
  <1>1. LineIn(main_slot.output_bytes, path) => LineIn(main_slot'.output_bytes, path)
    <2>1. CASE main_slot' = main_slot
      BY <2>1
    <2>2. CASE RootAppended
      <3>1. PICK r \in append_match(main_slot.output_bytes, <<Root>>) : main_slot' = Keep(main_slot, r)
        BY <2>2 DEF RootAppended
      <3>2. <<Root>> \in Seq(Dirents)
        BY <2>2, RootFacts DEF RootAppended
      <3>3. Keep(main_slot, r).output_bytes = r.bytes
        BY <1>0 DEF Keep, Slot
      <3> QED BY <1>0, <3>1, <3>2, <3>3, AppendedLines
    <2> QED BY <2>1, <2>2, SlotMoves
  <1>2. ASSUME NEW w \in Workers, LineIn(slots[w].output_bytes, path)
        PROVE  LineIn(slots'[w].output_bytes, path)
    <2> DEFINE slot == [slots[w] EXCEPT !.initialized = TRUE]
    <2>1. slot \in Slot /\ slot.output_bytes = slots[w].output_bytes
      BY <1>0 DEF Slot
    <2> HIDE DEF slot
    <2>2. CASE EntryAppended(w)
      <3>1. PICK d \in job[w].todo :
              /\ job[w] # None
              /\ \E r \in append_match(slots[w].output_bytes, Append(job[w].path, d)) :
                   slots'[w] = Keep(slot, r)
        BY <2>2 DEF EntryAppended, slot
      <3>2. PICK r \in append_match(slots[w].output_bytes, Append(job[w].path, d)) :
                   slots'[w] = Keep(slot, r)
        BY <3>1
      <3>3. Append(job[w].path, d) \in Seq(Dirents)
        BY <3>1, JobFacts
      <3>4. Keep(slot, r).output_bytes = r.bytes
        BY <2>1 DEF Keep, Slot
      <3> QED BY <1>0, <1>2, <3>2, <3>3, <3>4, AppendedLines
    <2>3. slots'[w] = slots[w] \/ slots'[w] = slot \/ EntryAppended(w)
      BY SlotMoves DEF slot
    <2> QED BY <1>2, <2>1, <2>2, <2>3
  <1> QED BY <1>1, <1>2 DEF Emitted

(* A line of a segment is a line of the segments together. *)
LEMMA LineInFlatten ==
  ASSUME NEW T, NEW segments \in Seq(Seq(T)), NEW j \in 1..Len(segments), NEW path,
         LineIn(segments[j], path)
  PROVE  LineIn(Flatten(segments), path)
  <1> DEFINE n == Len(segments)
  <1>1. n \in Nat /\ \A k \in 1..n : segments[k] \in Seq(T)
    BY LenProperties
  <1>2. PICK flat : IsFlat(flat, segments, n) /\ Flatten(segments) = flat[n]
    BY FlattenDef
  <1>3. \A k \in 0..n : flat[k] \in Seq(T)
    <2>1. n \in 0..Len(segments)
      BY <1>1
    <2> HIDE DEF n
    <2> QED BY <1>2, <2>1, FlatTypes
  <1>0. j \in 1..n
    OBVIOUS
  <1> HIDE DEF n
  <1> DEFINE Holds == {k \in Nat : j <= k /\ k <= n => LineIn(flat[k], path)}
  <1>4. 0 \in Holds
    BY <1>0, <1>1
  <1>5. ASSUME NEW k \in Nat, k \in Holds PROVE k + 1 \in Holds
    <2>0. k + 1 \in Nat
      OBVIOUS
    <2> SUFFICES ASSUME j <= k + 1, k + 1 <= n PROVE LineIn(flat[k + 1], path)
      BY <2>0
    <2>1. k + 1 \in 1..n /\ (k + 1) - 1 = k /\ k \in 0..n /\ k <= n /\ (j <= k \/ j = k + 1)
      BY <1>0, <1>1
    <2>2. flat[k + 1] = flat[k] \o segments[k + 1]
      BY <1>2, <2>1 DEF IsFlat
    <2>3. flat[k] \in Seq(T) /\ segments[k + 1] \in Seq(T)
      BY <1>1, <1>3, <2>1
    <2>4. LineIn(flat[k], path) \/ LineIn(segments[k + 1], path)
      BY <1>5, <2>1
    <2> QED BY <2>2, <2>3, <2>4, LineInConcat
  <1> HIDE DEF Holds
  <1>6. n \in Holds
    BY <1>1, <1>4, <1>5, InductionBySet
  <1> QED BY <1>0, <1>1, <1>2, <1>6 DEF Holds

(* If the iovec has room for all buffers, every one that holds something   *)
(* is collected.                                                           *)
LEMMA CollectedHolds ==
  ASSUME NEW T, NEW buffers \in Seq(T), Len(buffers) <= MaxIovec, NEW j \in 1..Len(buffers),
         buffers[j].initialized, buffers[j].output_bytes # <<>>
  PROVE  \E k \in 1..Len(Collected(buffers)) : Collected(buffers)[k] = buffers[j]
  <1> DEFINE n == Len(buffers)
  <1>1. n \in Nat /\ n <= MaxIovec /\ MaxIovec \in Nat /\ \A k \in 1..n : buffers[k] \in T
    BY LenProperties, WalkParallelAssumption
  <1>2. PICK f : IsBuilder(f, buffers, n) /\ Collected(buffers) = f[n]
    BY CollectedDef
  <1>0. j \in 1..n
    OBVIOUS
  <1> HIDE DEF n
  <1> DEFINE In(s) == \E i \in 1..Len(s) : s[i] = buffers[j]
             Holds == {k \in Nat : k <= n =>
                         /\ f[k] \in Seq(T) /\ Len(f[k]) <= k
                         /\ j <= k => In(f[k])}
  <1>3. 0 \in Holds
    <2>1. f[0] = <<>> /\ <<>> \in Seq(T) /\ Len(<<>>) = 0 /\ ~(j <= 0)
      BY <1>0, <1>1, <1>2, EmptySeq DEF IsBuilder
    <2>2. Len(f[0]) <= 0 /\ f[0] \in Seq(T)
      BY <2>1
    <2> HIDE DEF In
    <2> QED BY <2>1, <2>2
  <1>4. ASSUME NEW k \in Nat, k \in Holds PROVE k + 1 \in Holds
    <2>0. k + 1 \in Nat
      OBVIOUS
    <2> SUFFICES ASSUME k + 1 <= n
                 PROVE  /\ f[k + 1] \in Seq(T) /\ Len(f[k + 1]) <= k + 1
                        /\ j <= k + 1 => In(f[k + 1])
      BY <2>0
    <2>1. k + 1 \in 1..n /\ (k + 1) - 1 = k /\ k <= n /\ (j <= k + 1 => j <= k \/ j = k + 1)
      BY <1>0, <1>1
    <2>2. f[k + 1] = collect_slot_iovec(f[k], buffers[k + 1])
      BY <1>2, <2>1 DEF IsBuilder
    <2>3. /\ f[k] \in Seq(T) /\ Len(f[k]) <= k /\ (j <= k => In(f[k]))
          /\ buffers[k + 1] \in T
      BY <1>1, <1>4, <2>1
    <2> DEFINE s == f[k]
               b == buffers[k + 1]
               t == Append(s, b)
    <2>4. /\ t \in Seq(T) /\ Len(t) = Len(s) + 1 /\ t[Len(s) + 1] = b
          /\ \A i \in 1..Len(s) : t[i] = s[i]
          /\ Len(s) \in Nat
      BY <2>3, AppendProperties, LenProperties
    <2>5. \/ f[k + 1] = s /\ (b.output_bytes = <<>> \/ ~b.initialized \/ Len(s) >= MaxIovec)
          \/ f[k + 1] = t
      BY <2>2 DEF collect_slot_iovec
    <2>6. ~(Len(s) >= MaxIovec)
      <3> HIDE DEF s
      <3> QED BY <1>1, <2>1, <2>3, <2>4 DEF s
    <2> HIDE DEF t
    <2>7. CASE f[k + 1] = s /\ (b.output_bytes = <<>> \/ ~b.initialized)
      <3>1. j # k + 1
        BY <2>7
      <3>2. Len(s) <= k + 1
        <4> HIDE DEF s
        <4> QED BY <2>3, <2>4 DEF s
      <3> QED BY <2>1, <2>3, <2>7, <3>1, <3>2
    <2>8. CASE f[k + 1] = t
      <3>1. Len(t) <= k + 1
        <4> HIDE DEF s
        <4> QED BY <2>3, <2>4 DEF s
      <3>2. j <= k => In(t)
        <4>1. \A i \in 1..Len(s) : i \in 1..Len(t)
          <5> HIDE DEF s
          <5> QED BY <2>4
        <4> QED BY <2>3, <2>4, <4>1
      <3>3. j = k + 1 => In(t)
        <4>1. Len(s) + 1 \in 1..Len(t)
          <5> HIDE DEF s
          <5> QED BY <2>4
        <4> QED BY <2>4, <4>1
      <3> HIDE DEF In
      <3> QED BY <2>1, <2>4, <2>8, <3>1, <3>2, <3>3
    <2> QED BY <2>5, <2>6, <2>7, <2>8
  <1> HIDE DEF Holds
  <1>5. n \in Holds
    BY <1>1, <1>3, <1>4, InductionBySet
  <1> QED BY <1>0, <1>1, <1>2, <1>5 DEF Holds

(* A path leads through a directory. *)
Through(path, from) ==
  /\ Len(from) < Len(path)
  /\ \A k \in 1..Len(from) : path[k] = from[k]

(* A root that is still to be handled. *)
RootAhead(path) ==
  \E j \in DOMAIN Roots(config) :
    /\ path[1] = Roots(config)[j]
    /\ j > root_index \/ (j = root_index /\ pc \in {"setup", "roots"})

(* A path the walk will come to: its root is still to be handled, it leads *)
(* through a directory in the queue, or through one that a worker reads    *)
(* and has not come so far in.                                             *)
Ahead(path) ==
  \/ RootAhead(path)
  \/ \E from \in queue : Through(path, from)
  \/ \E w \in Workers : /\ job[w] # None /\ Through(path, job[w].path)
                        /\ path[Len(job[w].path) + 1] \in job[w].todo

(* No mount is met where --one-file-system is given: visit drops a mount   *)
(* point, which the sequential walk prints (run mount_point_dropped).      *)
NoMounts(cfg) ==
  cfg.one_file_system =>
    \A path \in Seq(Dirents) :
      LET st == StatOf(path[Len(path)], cfg.follow_symlinks)
      IN IsChain(cfg, path) /\ st # NoMeta => st.dev = StatOf(path[1], cfg.follow_symlinks).dev

(* What stands on a wanted path after a directory that is walked is listed *)
(* and visited, and is accepted if it is the last, entered if it is not.   *)
LEMMA WantedThrough ==
  ASSUME TypeOK, Ordinary(config), NoMounts(config), NEW path \in WantedOf[config],
         NEW from, Walked(from), Through(path, from),
         NEW d, d = path[Len(from) + 1]
  PROVE  /\ d \in Dirents /\ d \in Listed(from) /\ ~OtherDevice(d)
         /\ path = Append(from, d) \/ Through(path, Append(from, d))
         /\ path = Append(from, d) => Accepted(path, d)
         /\ Through(path, Append(from, d)) =>
              IsDirectory(config, d) /\ should_descend(Append(from, d), d)
  <1> DEFINE child == Append(from, d)
             n == Len(from)
             m == Len(path)
  <1>1. /\ config \in Configs /\ path \in Seq(Dirents) /\ IsWanted(config, path)
        /\ IsChain(config, path) /\ from \in Seq(Dirents)
    BY WantedBySequences DEF TypeOK, IsWanted, Walked, WalkedOn
  <1>2. /\ n \in Nat /\ m \in Nat /\ n < m /\ n >= 1
        /\ \A k \in 1..m : path[k] \in Dirents
        /\ \A k \in 1..n : path[k] = from[k]
    <2>1. n >= 1
      BY <1>1, NonEmptyLength DEF Walked, WalkedOn, IsChain
    <2>2. \A k \in 1..m : path[k] \in Dirents
      BY <1>1, LenProperties
    <2> QED BY <1>1, <2>1, <2>2, LenProperties DEF Through
  <1> HIDE DEF n, m
  <1>3. n + 1 \in 1..m /\ n + 1 \in 2..m /\ (n + 1) - 1 = n /\ n \in 1..n
    BY <1>2
  <1>4. /\ d \in Dirents
        /\ HolderOf[d] = NodeOf(from[n], config.follow_symlinks)
    <2>1. HolderOf[path[n + 1]] = NodeOf(path[(n + 1) - 1], config.follow_symlinks)
      BY <1>1, <1>3 DEF IsChain, m
    <2> QED BY <1>2, <1>3, <2>1 DEF n
  <1>5. n + 1 < m => EnterableAt(config, path, n + 1)
    <2> SUFFICES ASSUME n + 1 < m PROVE EnterableAt(config, path, n + 1)
      OBVIOUS
    <2>1. n + 2 \in 2..m /\ (n + 2) - 1 = n + 1
      BY <1>2
    <2> QED BY <1>1, <2>1, ChainByEntries DEF m
  <1>6. Visible(config, d)
    <2>1. CASE n + 1 < m
      BY <1>2, <1>5, <2>1 DEF EnterableAt, n
    <2>2. CASE n + 1 = m
      BY <1>1, <1>2, <2>2 DEF IsWanted, n, m
    <2> QED BY <1>2, <2>1, <2>2
  <1>7. d \in Listed(from)
    BY <1>4, <1>6 DEF Listed, EntriesOf, Visible, n
  <1>8. /\ child \in Seq(Dirents) /\ IsChain(config, child) /\ Len(child) = n + 1
        /\ child[n + 1] = d /\ \A k \in 1..n : child[k] = from[k]
        /\ HolderOf[d] # NoInode
    BY <1>4, ChildFacts DEF n
  <1> HIDE DEF child
  <1>9. \A k \in 1..(n + 1) : path[k] = child[k]
    <2>1. \A k \in 1..(n + 1) : k \in 1..n \/ k = n + 1
      BY <1>2
    <2> QED BY <1>2, <1>8, <2>1 DEF n
  <1>10. ~OtherDevice(d)
    <2> SUFFICES ASSUME config.one_file_system, EntryMeta(d) # NoMeta
                 PROVE  EntryMeta(d).dev = root_device
      BY DEF OtherDevice
    <2>1. StatOf(from[1], config.follow_symlinks).dev = root_device
      BY <1>2 DEF Walked, WalkedOn, n
    <2>2. child[1] = from[1]
      BY <1>2, <1>8
    <2>3. StatOf(d, config.follow_symlinks).dev = StatOf(child[1], config.follow_symlinks).dev
      BY <1>8 DEF NoMounts, EntryMeta
    <2> QED BY <2>1, <2>2, <2>3 DEF EntryMeta
  <1>11. path = child \/ Through(path, child)
    <2>1. CASE n + 1 = m
      BY <1>1, <1>8, <1>9, <2>1, SeqEqual DEF m
    <2>2. CASE n + 1 < m
      BY <1>8, <1>9, <2>2 DEF Through, m
    <2> QED BY <1>2, <2>1, <2>2
  <1>12. path = child => Accepted(path, d)
    <2> SUFFICES ASSUME path = child PROVE Accepted(path, d)
      OBVIOUS
    <2>1. Len(path) > 1 /\ path[Len(path)] = d
      BY <1>2, <1>8
    <2> QED BY <1>1, <1>4, <1>8, <2>1, EntryVerdict DEF IsWanted, Ordinary
  <1>13. Through(path, child) => IsDirectory(config, d) /\ should_descend(child, d)
    <2> SUFFICES ASSUME Through(path, child)
                 PROVE  IsDirectory(config, d) /\ should_descend(child, d)
      OBVIOUS
    <2>1. n + 1 < m
      BY <1>8 DEF Through, m
    <2>2. EnterableAt(config, path, n + 1) /\ path[n + 1] = d
      BY <1>5, <2>1 DEF n
    <2>3. n + 1 > 1 /\ (n + 1) - 1 = Len(child) - 1
      BY <1>2, <1>8
    <2> QED BY <1>6, <1>10, <2>2, <2>3
        DEF EnterableAt, should_descend, Visible, filter_ignored_directory_name
  <1> QED BY <1>4, <1>7, <1>10, <1>11, <1>12, <1>13 DEF child

(* The same for a root. *)
LEMMA WantedRoot ==
  ASSUME TypeOK, Ordinary(config), RootsLeft, RootStat # NoMeta,
         NEW path \in WantedOf[config], path[1] = Root
  PROVE  /\ path = <<Root>> \/ Through(path, <<Root>>)
         /\ path = <<Root>> => RootVerdict(config, Root, RootStat) = ACCEPT
         /\ Through(path, <<Root>>) => RootIsWalked
  <1> DEFINE from == <<Root>>
             m == Len(path)
  <1>1. /\ config \in Configs /\ root_index \in DOMAIN Roots(config)
        /\ Root \in Dirents /\ Root = Roots(config)[root_index]
        /\ RootStat = StatOf(Root, config.follow_symlinks)
    BY RootFacts DEF RootStat
  <1>2. path \in Seq(Dirents) /\ IsWanted(config, path) /\ IsChain(config, path)
    BY <1>1, WantedBySequences DEF IsWanted
  <1>3. m \in Nat /\ (m = 1 \/ m > 1)
    BY <1>2, NonEmptyLength DEF IsChain
  <1>4. from \in Seq(Dirents) /\ Len(from) = 1 /\ from[1] = Root /\ \A k \in 1..1 : k = 1
    BY <1>1
  <1> HIDE DEF m, from
  <1>5. CASE m = 1
    <2>1. path = from
      <3>1. \A k \in 1..1 : path[k] = from[k]
        BY <1>4
      <3> QED BY <1>2, <1>4, <1>5, <3>1, SeqEqual DEF m
    <2>2. ~Through(path, from)
      BY <1>4, <1>5 DEF Through, m
    <2>3. RootVerdict(config, Root, RootStat) = ACCEPT
      BY <1>1, <1>2, <2>1, RootVerdictMatches DEF IsWanted, Ordinary, OrdinaryRoots, from
    <2> QED BY <2>1, <2>2, <2>3 DEF from
  <1>6. CASE m > 1
    <2>1. Through(path, from)
      BY <1>4, <1>6 DEF Through, m
    <2>2. path # from
      <3>1. m # 1
        BY <1>3, <1>6
      <3> QED BY <1>4, <3>1 DEF m
    <2>3. RootIsWalked
      <3>1. 2 \in 2..m /\ 2 - 1 = 1
        BY <1>3, <1>6
      <3>2. EnterableAt(config, path, 2 - 1)
        BY <1>2, <3>1, ChainByEntries DEF m
      <3>3. EnterableAt(config, path, 1)
        BY <3>1, <3>2
      <3>4. config.options.max_depth # None => 0 < config.options.max_depth
        BY <3>3 DEF EnterableAt
      <3>5. IsDirectory(config, Root)
        BY <3>3 DEF EnterableAt
      <3>6. config.options.max_depth # 0
        BY <1>1, <3>4, SearchFacts
      <3> QED BY <1>1, <3>5, <3>6 DEF RootIsWalked, IsDirectory
    <2> QED BY <2>1, <2>2, <2>3 DEF from
  <1> QED BY <1>3, <1>5, <1>6

(* The pool is empty when it does not run, the roots are handled before    *)
(* the merge, and no buffer with bytes is unknown to the merge.            *)
Resting ==
  /\ pc # "pool" => queue = {}
  /\ pc \in {"merge", "write", "advance"} => root_index > Len(Roots(config))
  /\ aborted = FALSE
  /\ main_slot.initialized = TRUE
  /\ \A w \in Workers : slots[w].output_bytes = <<>> \/ slots[w].initialized = TRUE

(* If no slot fails to be reserved, this is kept. *)
LEMMA RestingKept ==
  ASSUME "reserve" \notin Faults, TypeOK, Resting, [Next]_vars
  PROVE  Resting'
  <1>0. /\ main_slot \in Slot
        /\ \A w \in Workers : slots[w] \in Slot
    BY DEF TypeOK
  <1>1. main_slot'.initialized = TRUE
    <2>1. CASE main_slot' = main_slot
      BY <2>1 DEF Resting
    <2>2. CASE RootAppended
      <3>1. PICK r \in append_match(main_slot.output_bytes, <<Root>>) : main_slot' = Keep(main_slot, r)
        BY <2>2 DEF RootAppended
      <3>2. Keep(main_slot, r).initialized = main_slot.initialized
        BY <1>0 DEF Keep, Slot
      <3> QED BY <3>1, <3>2 DEF Resting
    <2> QED BY <2>1, <2>2, SlotMoves
  <1>2. ASSUME NEW w \in Workers
        PROVE  slots'[w].output_bytes = <<>> \/ slots'[w].initialized = TRUE
    <2> DEFINE slot == [slots[w] EXCEPT !.initialized = TRUE]
    <2>1. slot \in Slot /\ slot.initialized = TRUE
      BY <1>0 DEF Slot
    <2> HIDE DEF slot
    <2>2. CASE EntryAppended(w)
      <3>1. PICK r : slots'[w] = Keep(slot, r)
        BY <2>2 DEF EntryAppended, slot
      <3>2. Keep(slot, r).initialized = slot.initialized
        BY <2>1 DEF Keep, Slot
      <3> QED BY <2>1, <3>1, <3>2
    <2>3. slots'[w] = slots[w] \/ slots'[w] = slot \/ EntryAppended(w)
      BY SlotMoves DEF slot
    <2> QED BY <2>1, <2>2, <2>3 DEF Resting
  <1>3. /\ (pc # "pool" => queue = {})'
        /\ (pc \in {"merge", "write", "advance"} => root_index > Len(Roots(config)))'
        /\ aborted' = FALSE
    <2>1. CASE HandleRoot
      <3>1. pc = "roots" /\ queue = {} /\ aborted' = aborted
        BY <2>1 DEF HandleRoot, RootsLeft, Resting
      <3>2. CASE RootIsWalked
        BY <2>1, <3>1, <3>2 DEF HandleRoot, Resting
      <3>3. CASE ~RootIsWalked
        BY <2>1, <3>1, <3>3 DEF HandleRoot, Resting
      <3> QED BY <3>2, <3>3
    <2>2. CASE Setup \/ SetupFails \/ RootStatFails \/ PoolEnds \/ RootsExhausted
      BY <2>2 DEF Setup, SetupFails, RootStatFails, PoolEnds, RootsExhausted, RootsLeft, Resting, pool_vars
    <2>3. CASE \/ Merge \/ FlushFails \/ Writev \/ WritevFails \/ Advance \/ Advanced \/ Written
      BY <2>3 DEF Merge, FlushFails, Writev, WritevFails, Advance, Advanced, Written, Resting, pool_vars
    <2>4. ASSUME NEW w \in Workers, WorkerStep(w)
          PROVE  pc = "pool" /\ pc' = pc /\ aborted' = aborted
      BY <2>4 DEF WorkerStep, TakeDirectory, OpenFails, DirectoryDone, VisitOtherDevice, Visit,
                  ReserveFails, NextEntry
    <2>5. CASE Signal \/ Finished \/ UNCHANGED vars
      BY <2>5 DEF Signal, Finished, vars, Resting, pool_vars
    <2>6. CASE \E w \in Workers : WorkerStep(w)
      BY <2>4, <2>6 DEF Resting
    <2> QED BY <2>1, <2>2, <2>3, <2>5, <2>6 DEF Next, MainStep
  <1> QED BY <1>1, <1>2, <1>3 DEF Resting

(* A walk that still can report success has met no error. *)
LEMMA SuccessBefore ==
  ASSUME TypeOK, [Next]_vars, ReportsSuccess'
  PROVE  /\ ReportsSuccess /\ errors' = {} /\ errors = {} /\ signalled = FALSE
         /\ ~SetupFails /\ ~RootStatFails /\ ~Signal /\ \A w \in Workers : ~OpenFails(w)
  <1>1. ok' /\ errors' = {} /\ ~signalled'
    BY DEF ReportsSuccess
  <1>2. ok \in BOOLEAN /\ signalled \in BOOLEAN
    BY DEF TypeOK
  <1>3. ~SetupFails /\ ~RootStatFails /\ ~Signal /\ ~FlushFails /\ ~WritevFails
    BY <1>1 DEF SetupFails, RootStatFails, Signal, FlushFails, WritevFails
  <1>4. \A w \in Workers : ~OpenFails(w)
    BY <1>1 DEF OpenFails, record_error
  <1>5. errors \subseteq errors' /\ ok' = ok /\ signalled' = signalled
    <2>1. ASSUME NEW w \in Workers, WorkerStep(w) PROVE ok' = ok /\ signalled' = signalled /\ errors \subseteq errors'
      <3>1. ok' = ok /\ signalled' = signalled
        BY <2>1 DEF WorkerStep, TakeDirectory, OpenFails, DirectoryDone, VisitOtherDevice, Visit,
                    ReserveFails, NextEntry
      <3>2. CASE \E d \in Dirents : Visit(w, d)
        BY <3>1, <3>2 DEF Visit, NoteAppend, record_error
      <3>3. CASE ~\E d \in Dirents : Visit(w, d)
        BY <2>1, <3>1, <3>3 DEF WorkerStep, TakeDirectory, OpenFails, DirectoryDone, VisitOtherDevice,
                    ReserveFails, record_error
      <3> QED BY <3>1, <3>2, <3>3
    <2>2. CASE HandleRoot
      BY <2>2 DEF HandleRoot, NoteAppend, record_error
    <2>3. CASE \/ Setup \/ PoolEnds \/ RootsExhausted \/ Merge \/ Writev \/ Advance \/ Advanced \/ Written
               \/ Finished \/ UNCHANGED vars
      BY <2>3 DEF Setup, PoolEnds, RootsExhausted, Merge, Writev, Advance, Advanced, Written, Finished, vars
    <2> QED BY <1>3, <2>1, <2>2, <2>3 DEF Next, MainStep
  <1>6. errors = {}
    BY <1>1, <1>5
  <1>7. ok /\ ~signalled
    BY <1>1, <1>5
  <1>8. signalled = FALSE
    BY <1>2, <1>7
  <1> QED BY <1>1, <1>3, <1>4, <1>6, <1>7, <1>8 DEF ReportsSuccess

(* A worker that reads a directory is busy. *)
LEMMA NoneIsNoJob == None \notin Job
  BY WalkParallelAssumption DEF Job

(* What a worker takes from the queue is a job. *)
LEMMA ListedJob ==
  ASSUME TypeOK, NEW path \in queue
  PROVE  [path |-> path, todo |-> Listed(path)] \in Job
  <1>1. path \in Seq(Dirents) /\ Listed(path) \subseteq Dirents
    BY DEF TypeOK, Listed, EntriesOf
  <1> QED BY <1>1 DEF Job

(* A visit of the entry that a wanted path goes on with. *)
LEMMA VisitMoves ==
  ASSUME TypeOK, Ordinary(config), NoMounts(config), PoolInv, errors' = {},
         NEW w \in Workers, NEW d \in Dirents, VisitOtherDevice(w, d) \/ Visit(w, d),
         NEW path \in WantedOf[config], Through(path, job[w].path), path[Len(job[w].path) + 1] = d
  PROVE  (\E from \in queue' : Through(path, from)) \/ LineIn(slots'[w].output_bytes, path)
  <1> DEFINE from == job[w].path
             child == Append(from, d)
             slot == [slots[w] EXCEPT !.initialized = TRUE]
  <1>1. job[w] # None /\ d \in job[w].todo /\ NextEntry(w, d)
    BY DEF VisitOtherDevice, Visit
  <1>2. Walked(from)
    BY <1>1 DEF PoolInv
  <1>3. /\ ~OtherDevice(d)
        /\ path = child \/ Through(path, child)
        /\ path = child => Accepted(path, d)
        /\ Through(path, child) => IsDirectory(config, d) /\ should_descend(child, d)
    BY <1>2, WantedThrough
  <1>4. Visit(w, d)
    BY <1>3 DEF VisitOtherDevice
  <1>5. CASE Through(path, child)
    <2>1. child \in queue'
      BY <1>1, <1>3, <1>5 DEF NextEntry
    <2> QED BY <1>5, <2>1
  <1>6. CASE path = child
    <2>1. slot \in Slot /\ slot.output_bytes = slots[w].output_bytes /\ slots \in [Workers -> Slot]
      BY DEF TypeOK, Slot
    <2>2. PICK r \in append_match(slot.output_bytes, child) :
            slots' = [slots EXCEPT ![w] = Keep(slot, r)] /\ NoteAppend(child, r)
      BY <1>3, <1>4, <1>6 DEF Visit
    <2> HIDE DEF slot
    <2>3. slots'[w] = Keep(slot, r)
      BY <2>1, <2>2
    <2>4. r.ok
      BY <2>2 DEF NoteAppend, record_error
    <2>5. slot.output_bytes \in Seq(Tokens) /\ Keep(slot, r).output_bytes = r.bytes
      BY <2>1 DEF Slot, Tokens, Keep
    <2>6. child \in Seq(Dirents)
      BY <1>1, JobFacts
    <2> QED BY <1>6, <2>2, <2>3, <2>4, <2>5, <2>6, AppendedLines
  <1> QED BY <1>3, <1>5, <1>6

(* The handling of the root of a wanted path. *)
LEMMA RootMoves ==
  ASSUME TypeOK, Ordinary(config), errors' = {}, HandleRoot,
         NEW path \in WantedOf[config], path[1] = Root
  PROVE  (\E from \in queue' : Through(path, from)) \/ LineIn(main_slot'.output_bytes, path)
  <1>1. RootsLeft /\ RootStat # NoMeta
    BY DEF HandleRoot
  <1>2. CASE Through(path, <<Root>>)
    <2>1. queue' = {<<Root>>}
      BY <1>1, <1>2, WantedRoot DEF HandleRoot
    <2> QED BY <1>2, <2>1
  <1>3. CASE path = <<Root>>
    <2>1. RootVerdict(config, Root, RootStat) = ACCEPT
      BY <1>1, <1>3, WantedRoot
    <2>2. PICK r \in append_match(main_slot.output_bytes, <<Root>>) :
            main_slot' = Keep(main_slot, r) /\ NoteAppend(<<Root>>, r)
      BY <2>1 DEF HandleRoot
    <2>3. r.ok
      BY <2>2 DEF NoteAppend, record_error
    <2>4. /\ main_slot.output_bytes \in Seq(Tokens) /\ Keep(main_slot, r).output_bytes = r.bytes
          /\ <<Root>> \in Seq(Dirents)
      BY <1>1, RootFacts DEF TypeOK, Slot, Tokens, Keep
    <2> QED BY <1>3, <2>2, <2>3, <2>4, AppendedLines
  <1> QED BY <1>1, <1>2, <1>3, WantedRoot

(* A wanted path stays ahead of a walk without errors until it is emitted. *)
LEMMA AheadKept ==
  ASSUME "reserve" \notin Faults, TypeOK, Ordinary(config), NoMounts(config), PoolInv, Resting,
         [Next]_vars, ReportsSuccess', NEW path \in WantedOf[config], Ahead(path)
  PROVE  Ahead(path)' \/ Emitted(path)'
  <1>0. /\ config' = config /\ config \in Configs /\ root_index \in Nat \ {0}
        /\ Len(Roots(config)) \in Nat /\ DOMAIN Roots(config) = 1..Len(Roots(config))
        /\ job \in [Workers -> {None} \cup Job]
    BY DeviceMoves, SearchFacts, LenProperties DEF TypeOK, Job
  <1>1. /\ errors' = {} /\ signalled = FALSE /\ aborted = FALSE
        /\ ~SetupFails /\ ~RootStatFails /\ ~Signal /\ \A w \in Workers : ~OpenFails(w)
    BY SuccessBefore DEF Resting
  <1> DEFINE InQueue == \E from \in queue' : Through(path, from)
             InJob == \E w \in Workers : /\ job'[w] # None /\ Through(path, job'[w].path)
                                         /\ path[Len(job'[w].path) + 1] \in job'[w].todo
  <1>2. InQueue \/ InJob => Ahead(path)'
    BY DEF Ahead
  <1>3. ASSUME NEW w \in Workers, NEW d \in Dirents, ReserveFails(w, d) PROVE FALSE
    BY <1>3 DEF ReserveFails
  <1>4. CASE RootAhead(path)
    <2>1. PICK j \in DOMAIN Roots(config) :
            /\ path[1] = Roots(config)[j]
            /\ j > root_index \/ (j = root_index /\ pc \in {"setup", "roots"})
      BY <1>4 DEF RootAhead
    <2>2. j \in Nat /\ j <= Len(Roots(config)) /\ j \in DOMAIN Roots(config)'
      BY <1>0
    <2>3. ASSUME j > root_index' \/ (j = root_index' /\ pc' \in {"setup", "roots"})
          PROVE  Ahead(path)'
      BY <1>0, <2>1, <2>2, <2>3 DEF Ahead, RootAhead
    <2>4. CASE HandleRoot
      <3>1. pc = "roots"
        BY <2>4 DEF HandleRoot, RootsLeft
      <3>2. CASE j = root_index
        <4>1. path[1] = Root
          BY <2>1, <3>2 DEF Root
        <4> QED BY <1>1, <1>2, <2>4, <4>1, RootMoves DEF Emitted
      <3>3. CASE j > root_index
        <4>1. CASE RootIsWalked
          <5>1. root_index' = root_index
            BY <2>4, <4>1 DEF HandleRoot
          <5> QED BY <2>3, <3>3, <5>1
        <4>2. CASE ~RootIsWalked
          <5>1. root_index' = root_index + 1 /\ pc' = "roots"
            BY <2>4, <3>1, <4>2 DEF HandleRoot
          <5>2. j > root_index' \/ j = root_index'
            BY <1>0, <2>2, <3>3, <5>1
          <5> QED BY <2>3, <5>1, <5>2
        <4> QED BY <4>1, <4>2
      <3> QED BY <2>1, <3>2, <3>3
    <2>5. CASE PoolEnds
      <3>1. root_index' = root_index + 1 /\ pc' = "roots" /\ pc = "pool"
        BY <2>5 DEF PoolEnds
      <3>2. j > root_index
        BY <2>1, <3>1
      <3>3. j > root_index' \/ j = root_index'
        BY <1>0, <2>2, <3>1, <3>2
      <3> QED BY <2>3, <3>1, <3>3
    <2>6. CASE Setup
      BY <2>1, <2>3, <2>6 DEF Setup
    <2>7. CASE RootsExhausted
      <3>1. root_index > Len(Roots(config)) /\ root_index' = root_index
        BY <2>7 DEF RootsExhausted
      <3>2. ~(j = root_index)
        BY <1>0, <2>2, <3>1
      <3> QED BY <2>1, <2>3, <3>1, <3>2
    <2>8. CASE \/ Merge \/ FlushFails \/ Writev \/ WritevFails \/ Advance \/ Advanced \/ Written
      <3>1. pc \notin {"setup", "roots"} /\ root_index' = root_index
        BY <2>8 DEF Merge, FlushFails, Writev, WritevFails, Advance, Advanced, Written
      <3> QED BY <2>1, <2>3, <3>1
    <2>9. ASSUME NEW w \in Workers, WorkerStep(w) PROVE root_index' = root_index /\ pc' = pc
      BY <2>9 DEF WorkerStep, TakeDirectory, OpenFails, DirectoryDone, VisitOtherDevice, Visit,
                  ReserveFails, NextEntry
    <2>10. CASE Finished \/ UNCHANGED vars
      BY <2>1, <2>3, <2>10 DEF Finished, vars
    <2> QED BY <1>1, <2>1, <2>3, <2>4, <2>5, <2>6, <2>7, <2>8, <2>9, <2>10 DEF Next, MainStep
  <1>5. CASE (\E from \in queue : Through(path, from)) \/
             (\E w \in Workers : /\ job[w] # None /\ Through(path, job[w].path)
                                 /\ path[Len(job[w].path) + 1] \in job[w].todo)
    <2>1. pc = "pool"
      BY <1>5 DEF Resting, TypeOK
    <2>2. ~PoolEnds
      BY <1>1, <1>5 DEF PoolEnds
    <2>3. (\E w \in Workers : WorkerStep(w)) \/ UNCHANGED <<queue, job>>
      <3>1. ~MainStep
        BY <2>1, <2>2 DEF MainStep, Setup, SetupFails, RootStatFails, HandleRoot, RootsLeft,
           RootsExhausted, Merge, FlushFails, Writev, WritevFails, Advance, Advanced, Written
      <3>2. Finished \/ UNCHANGED vars => UNCHANGED <<queue, job>>
        BY DEF Finished, vars, pool_vars
      <3> QED BY <1>1, <3>1, <3>2 DEF Next
    <2>4. ASSUME NEW v \in Workers, WorkerStep(v) PROVE Ahead(path)' \/ Emitted(path)'
      <3>1. CASE TakeDirectory(v)
        <4>1. PICK taken \in queue :
                /\ queue' = queue \ {taken}
                /\ job' = [job EXCEPT ![v] = [path |-> taken, todo |-> Listed(taken)]]
          BY <3>1 DEF TakeDirectory
        <4>2. job[v] = None
          BY <3>1 DEF TakeDirectory
        <4>3. /\ job'[v] = [path |-> taken, todo |-> Listed(taken)]
              /\ \A w \in Workers : w # v => job'[w] = job[w]
          BY <1>0, <4>1
        <4>4. job'[v] # None /\ job'[v].path = taken /\ job'[v].todo = Listed(taken)
          <5>1. [path |-> taken, todo |-> Listed(taken)] # None
            BY <4>1, NoneIsNoJob, ListedJob
          <5> QED BY <4>3, <5>1
        <4>5. Through(path, taken) => path[Len(taken) + 1] \in Listed(taken)
          BY <4>1, WantedThrough DEF PoolInv
        <4> QED BY <1>2, <1>5, <4>1, <4>2, <4>3, <4>4, <4>5
      <3>2. CASE DirectoryDone(v)
        <4>1. /\ queue' = queue /\ job' = [job EXCEPT ![v] = None]
              /\ job[v].todo = {}
          BY <1>1, <3>2 DEF DirectoryDone
        <4>2. \A w \in Workers : w # v => job'[w] = job[w]
          BY <1>0, <4>1
        <4> QED BY <1>2, <1>5, <4>1, <4>2
      <3>3. ASSUME NEW d \in Dirents, VisitOtherDevice(v, d) \/ Visit(v, d)
            PROVE  Ahead(path)' \/ Emitted(path)'
        <4>1. job[v] # None /\ NextEntry(v, d)
          BY <3>3 DEF VisitOtherDevice, Visit
        <4>2. job[v] \in Job
          BY <4>1, JobFacts
        <4>3. queue \subseteq queue' /\ job' = [job EXCEPT ![v].todo = @ \ {d}]
          BY <4>1 DEF NextEntry
        <4>4. /\ job'[v] \in Job /\ job'[v].path = job[v].path /\ job'[v].todo = job[v].todo \ {d}
              /\ \A w \in Workers : w # v => job'[w] = job[w]
          BY <1>0, <4>2, <4>3 DEF Job
        <4>5. job'[v] # None
          BY <4>4, NoneIsNoJob
        <4>6. CASE Through(path, job[v].path) /\ path[Len(job[v].path) + 1] = d
          BY <1>1, <1>2, <3>3, <4>6, VisitMoves DEF Emitted
        <4>7. CASE ~(Through(path, job[v].path) /\ path[Len(job[v].path) + 1] = d)
          BY <1>2, <1>5, <4>1, <4>3, <4>4, <4>5, <4>7
        <4> QED BY <4>6, <4>7
      <3> QED BY <1>1, <1>3, <2>4, <3>1, <3>2, <3>3 DEF WorkerStep
    <2>5. CASE UNCHANGED <<queue, job>>
      BY <1>2, <1>5, <2>5
    <2> QED BY <2>3, <2>4, <2>5
  <1> QED BY <1>4, <1>5 DEF Ahead

(* While the walk can still report success, every wanted path is in a      *)
(* buffer or ahead.                                                        *)
NothingMissed ==
  ReportsSuccess => \A path \in WantedOf[config] : Emitted(path) \/ Ahead(path)

(* No step of a walk that can still succeed misses a wanted path. *)
LEMMA MissedKept ==
  ASSUME "reserve" \notin Faults, TypeOK, Ordinary(config), NoMounts(config), PoolInv, Resting,
         NothingMissed, [Next]_vars
  PROVE  NothingMissed'
  <1> SUFFICES ASSUME ReportsSuccess', NEW path \in WantedOf[config]
               PROVE  Emitted(path)' \/ Ahead(path)'
    BY DeviceMoves DEF NothingMissed
  <1>1. Emitted(path) \/ Ahead(path)
    BY SuccessBefore DEF NothingMissed
  <1> QED BY <1>1, EmittedStays, AheadKept

(* If the iovec has room for all buffers, what was emitted is in the       *)
(* content that is written.                                                *)
LEMMA EmittedIsContent ==
  ASSUME TypeOK, Resting, WorkerCount < MaxIovec, NEW path, Emitted(path)
  PROVE  LineIn(Content, path)
  <1> DEFINE buffers == <<main_slot>> \o slots
  <1>1. /\ WorkerCount \in Nat /\ MaxIovec \in Nat /\ 1 + WorkerCount <= MaxIovec
        /\ slots \in Seq(Slot) /\ Len(slots) = WorkerCount /\ main_slot \in Slot
        /\ DOMAIN slots = Workers
    BY WalkParallelAssumption DEF TypeOK, Workers
  <1>2. <<main_slot>> \in Seq(Slot) /\ Len(<<main_slot>>) = 1 /\ <<main_slot>>[1] = main_slot
    BY <1>1
  <1>3. /\ buffers \in Seq(Slot) /\ Len(buffers) = 1 + WorkerCount
        /\ \A i \in 1..(1 + WorkerCount) :
             buffers[i] = IF i <= 1 THEN <<main_slot>>[i] ELSE slots[i - 1]
    BY <1>1, <1>2, ConcatProperties
  <1>4. Gathered = Collected(buffers)
    BY DEF Gathered
  <1> HIDE DEF buffers
  <1>5. PICK j \in 1..Len(buffers) : LineIn(buffers[j].output_bytes, path) /\ buffers[j].initialized
    <2>1. CASE LineIn(main_slot.output_bytes, path)
      <3>1. 1 \in 1..(1 + WorkerCount)
        BY <1>1
      <3>2. buffers[1] = main_slot
        BY <1>2, <1>3, <3>1
      <3> QED BY <1>3, <2>1, <3>1, <3>2 DEF Resting
    <2>2. CASE \E w \in Workers : LineIn(slots[w].output_bytes, path)
      <3>1. PICK w \in Workers : LineIn(slots[w].output_bytes, path)
        BY <2>2
      <3>2. w + 1 \in 1..(1 + WorkerCount) /\ ~(w + 1 <= 1) /\ (w + 1) - 1 = w
        BY <1>1 DEF Workers
      <3>3. buffers[w + 1] = slots[w]
        BY <1>3, <3>2
      <3>4. slots[w].output_bytes # <<>>
        <4>1. Len(<<>>) = 0 /\ \A i \in 1..0 : FALSE
          BY EmptySeq
        <4> QED BY <3>1, <4>1 DEF LineIn
      <3>5. slots[w].initialized
        BY <3>4 DEF Resting
      <3> QED BY <1>3, <3>1, <3>2, <3>3, <3>5
    <2> QED BY <2>1, <2>2 DEF Emitted
  <1>6. buffers[j].output_bytes # <<>>
    <2>1. Len(<<>>) = 0 /\ \A i \in 1..0 : FALSE
      BY EmptySeq
    <2> QED BY <1>5, <2>1 DEF LineIn
  <1>7. PICK k \in 1..Len(Gathered) : Gathered[k] = buffers[j]
    <2>1. Len(buffers) <= MaxIovec
      BY <1>1, <1>3
    <2> QED BY <1>3, <1>4, <1>5, <1>6, <2>1, CollectedHolds
  <1>8. /\ Gathered \in Seq(Slot) /\ BytesOf(Gathered) \in Seq(Seq(Tokens))
        /\ Len(BytesOf(Gathered)) = Len(Gathered)
    <2>1. main_slot.output_bytes \in Seq(Tokens) /\ \A w \in Workers : slots[w].output_bytes \in Seq(Tokens)
      BY DEF TypeOK, Slot, Tokens
    <2> QED BY <2>1, ContentType
  <1>9. k \in 1..Len(BytesOf(Gathered)) /\ BytesOf(Gathered)[k] = buffers[j].output_bytes
    BY <1>7, <1>8 DEF BytesOf
  <1> QED BY <1>5, <1>8, <1>9, LineInFlatten DEF Content

(* What is printed is what stands on the output as a line. *)
LEMMA PrintedByLines ==
  ASSUME TypeOK, NEW path \in Seq(Dirents)
  PROVE  path \in Printed <=> LineIn(fd, path)
  <1>1. fd \in Seq(Tokens) /\ DOMAIN fd = 1..Len(fd) /\ Len(fd) \in Nat
    BY LenProperties DEF TypeOK, Tokens
  <1>2. path # Separator
    BY WalkParallelAssumption
  <1>3. ASSUME LineIn(fd, path) PROVE path \in Printed
    <2>1. PICK i \in 1..Len(fd) : i + 1 \in 1..Len(fd) /\ fd[i] = path /\ fd[i + 1] = Separator
      BY <1>3 DEF LineIn
    <2>2. i < Len(fd)
      BY <1>1, <2>1
    <2>3. i \in Lines
      BY <1>1, <1>2, <2>1, <2>2 DEF Lines
    <2> QED BY <2>1, <2>3 DEF Printed
  <1>4. ASSUME path \in Printed PROVE LineIn(fd, path)
    <2>1. PICK i \in Lines : fd[i] = path
      BY <1>4 DEF Printed
    <2>2. i \in 1..Len(fd) /\ i < Len(fd) /\ fd[i + 1] = Separator
      BY <1>1, <2>1 DEF Lines
    <2>3. i + 1 \in 1..Len(fd)
      BY <1>1, <2>2
    <2> QED BY <2>1, <2>2, <2>3 DEF LineIn
  <1> QED BY <1>3, <1>4

(* No step takes a printed path back, and the last prints none. *)
LEMMA PrintedGrows ==
  ASSUME TypeOK, TypeOK', [Next]_vars
  PROVE  /\ Printed \subseteq Printed'
         /\ pc' = "done" => fd' = fd
         /\ pc = "done" => UNCHANGED vars
  <1>1. fd' = fd \/ (pc' = "advance" /\ \E more \in Seq(Tokens) : fd' = fd \o more)
    <2>1. CASE Writev
      <3> DEFINE offered == Flatten(SubSeq(iov, 1, IF Len(iov) > IovMax THEN IovMax ELSE Len(iov)))
      <3>1. PICK written \in IF offered = <<>> THEN {0} ELSE 1..Len(offered) :
              fd' = fd \o SubSeq(offered, 1, written)
        BY <2>1 DEF Writev
      <3>2. offered \in Seq(Tokens)
        <4> DEFINE n == IF Len(iov) > IovMax THEN IovMax ELSE Len(iov)
        <4>1. iov \in Seq(Seq(Tokens)) /\ Len(iov) \in Nat /\ IovMax \in Nat
          BY LenProperties, WalkParallelAssumption DEF TypeOK, Tokens
        <4>2. n \in 0..Len(iov)
          BY <4>1
        <4> HIDE DEF n
        <4>3. SubSeq(iov, 1, n) \in Seq(Seq(Tokens))
          BY <4>1, <4>2, SplitAt
        <4>4. Flatten(SubSeq(iov, 1, n)) \in Seq(Tokens)
          BY <4>3, FlattenType
        <4> QED BY <4>4 DEF n
      <3> HIDE DEF offered
      <3>3. written \in 0..Len(offered)
        BY <3>1, <3>2, EmptySeq, LenProperties
      <3>4. SubSeq(offered, 1, written) \in Seq(Tokens)
        BY <3>2, <3>3, SplitAt
      <3>5. pc' = "advance"
        BY <2>1 DEF Writev
      <3> QED BY <3>1, <3>4, <3>5
    <2>2. CASE ~Writev
      <3>1. MainStep => fd' = fd
        BY <2>2 DEF MainStep, Setup, SetupFails, RootStatFails, HandleRoot, PoolEnds, RootsExhausted,
           Merge, FlushFails, WritevFails, Advance, Advanced, Written, merge_vars
      <3>2. \A w \in Workers : WorkerStep(w) => fd' = fd
        BY DEF WorkerStep, TakeDirectory, OpenFails, DirectoryDone, VisitOtherDevice, Visit,
               ReserveFails, NextEntry, merge_vars
      <3>3. Signal \/ Finished \/ UNCHANGED vars => fd' = fd
        BY DEF Signal, Finished, vars, merge_vars
      <3> QED BY <3>1, <3>2, <3>3 DEF Next
    <2> QED BY <2>1, <2>2
  <1>2. fd \in Seq(Tokens)
    BY DEF TypeOK, Tokens
  <1>3. \A path : LineIn(fd, path) => LineIn(fd', path)
    BY <1>1, <1>2, LineInConcat
  <1>4. \A path \in Printed : path \in Seq(Dirents)
    <2>1. \A i \in DOMAIN fd : fd[i] \in Tokens
      BY <1>2
    <2> QED BY <2>1 DEF Printed, Lines, Tokens
  <1>5. \A path \in Seq(Dirents) : path \in Printed <=> LineIn(fd, path)
    BY PrintedByLines
  <1>6. \A path \in Seq(Dirents) : LineIn(fd', path) => path \in Printed'
    <2> SUFFICES ASSUME NEW path \in Seq(Dirents), LineIn(fd', path) PROVE path \in Printed'
      OBVIOUS
    <2>1. fd' \in Seq(Tokens) /\ DOMAIN fd' = 1..Len(fd') /\ Len(fd') \in Nat
      BY LenProperties DEF TypeOK, Tokens
    <2>2. PICK i \in 1..Len(fd') : i + 1 \in 1..Len(fd') /\ fd'[i] = path /\ fd'[i + 1] = Separator
      BY DEF LineIn
    <2>3. i < Len(fd') /\ path # Separator
      BY <2>1, <2>2, WalkParallelAssumption
    <2>4. i \in Lines'
      BY <2>1, <2>2, <2>3 DEF Lines
    <2> QED BY <2>2, <2>4 DEF Printed
  <1>7. Printed \subseteq Printed'
    BY <1>3, <1>4, <1>5, <1>6
  <1>8. pc = "done" => UNCHANGED vars
    <2>1. pc = "done" => ~MainStep
      BY DEF MainStep, Setup, SetupFails, RootStatFails, HandleRoot, RootsLeft, PoolEnds,
         RootsExhausted, Merge, FlushFails, Writev, WritevFails, Advance, Advanced, Written
    <2>2. \A w \in Workers : WorkerStep(w) => pc = "pool"
      BY DEF WorkerStep, TakeDirectory, OpenFails, DirectoryDone, VisitOtherDevice, Visit, ReserveFails
    <2>3. pc = "done" => ~Signal
      BY DEF Signal
    <2> QED BY <2>1, <2>2, <2>3 DEF Next, Finished
  <1> QED BY <1>1, <1>7, <1>8

(* The walk ends with success only when all that is wanted is printed. *)
LEMMA SuccessMeansAll ==
  ASSUME PInv, PInv', Resting, NothingMissed, WorkerCount < MaxIovec, [Next]_vars,
         pc # "done", pc' = "done", ReportsSuccess'
  PROVE  WantedOf[config] \subseteq Printed
  <1>1. ReportsSuccess /\ TypeOK /\ TypeOK' /\ config \in Configs
    BY SuccessBefore DEF PInv, TypeOK
  <1>2. Written
    <2>1. ~SetupFails /\ ~FlushFails /\ ~WritevFails
      BY DEF ReportsSuccess, SetupFails, FlushFails, WritevFails
    <2>2. MainStep => Written
      <3>1. ~HandleRoot
        BY DEF HandleRoot, RootsLeft
      <3>2. ~(Setup \/ RootStatFails \/ PoolEnds \/ RootsExhausted \/ Merge \/ Writev \/ Advance \/ Advanced)
        BY DEF Setup, RootStatFails, RootsLeft, PoolEnds, RootsExhausted, Merge, Writev, Advance, Advanced
      <3> QED BY <2>1, <3>1, <3>2 DEF MainStep
    <2>3. \A w \in Workers : ~WorkerStep(w)
      BY DEF WorkerStep, TakeDirectory, OpenFails, DirectoryDone, VisitOtherDevice, Visit, ReserveFails,
             NextEntry
    <2>4. ~(Signal \/ Finished \/ UNCHANGED vars)
      BY DEF Signal, Finished, vars
    <2> QED BY <2>2, <2>3, <2>4 DEF Next
  <1>3. pc = "write" /\ fd' = fd /\ UNCHANGED <<slots, main_slot>>
    BY <1>2 DEF Written
  <1>4. fd = Content
    <2>1. Content' = Content
      BY <1>3, ContentStays
    <2>2. fd' = Content'
      BY DEF PInv, Merging, ReportsSuccess
    <2> QED BY <1>3, <2>1, <2>2
  <1>5. ASSUME NEW path, Ahead(path) PROVE FALSE
    <2>1. queue = {} /\ \A w \in Workers : job[w] = None
      BY <1>1, <1>3 DEF Resting, TypeOK
    <2>2. RootAhead(path)
      BY <1>5, <2>1 DEF Ahead
    <2>3. PICK j \in DOMAIN Roots(config) : j > root_index
      BY <1>3, <2>2 DEF RootAhead
    <2>4. /\ root_index > Len(Roots(config)) /\ root_index \in Nat /\ Len(Roots(config)) \in Nat
          /\ j \in 1..Len(Roots(config))
      BY <1>1, <1>3, SearchFacts, LenProperties DEF Resting, TypeOK
    <2> QED BY <2>3, <2>4
  <1>6. ASSUME NEW path \in WantedOf[config] PROVE path \in Printed
    <2>1. path \in Seq(Dirents)
      BY <1>1, WantedBySequences
    <2>2. Emitted(path)
      BY <1>1, <1>5 DEF NothingMissed
    <2>3. LineIn(fd, path)
      BY <1>1, <1>4, <2>2, EmittedIsContent
    <2> QED BY <1>1, <2>1, <2>3, PrintedByLines
  <1> QED BY <1>6

(* Every step is one of Search, or none. *)
LEMMA StepRefines ==
  ASSUME PInv, PInv', Resting, NothingMissed, OutputIsWanted, OutputIsWanted',
         WorkerCount < MaxIovec, [Next]_vars
  PROVE  [S!Next]_(S!vars)
  <1>1. /\ TypeOK /\ TypeOK' /\ WantedOf[config]' = WantedOf[config]
        /\ Printed \subseteq Printed' /\ Printed' \subseteq WantedOf[config]
        /\ Printed \subseteq WantedOf[config]
    BY DeviceMoves, PrintedGrows DEF PInv, OutputIsWanted
  <1>2. CASE pc = "done"
    <2>1. UNCHANGED vars
      BY <1>1, <1>2, PrintedGrows
    <2>2. Printed' = Printed /\ Outcome' = Outcome
      BY <2>1 DEF vars, merge_vars, Printed, Lines, Outcome, ReportsSuccess
    <2> QED BY <1>1, <2>2 DEF S!vars
  <1>3. CASE pc # "done" /\ pc' # "done"
    <2>1. Outcome = "searching" /\ Outcome' = "searching"
      BY <1>3 DEF Outcome
    <2>2. S!Report
      BY <1>1, <2>1 DEF S!Report
    <2> QED BY <2>2 DEF S!Next
  <1>4. CASE pc # "done" /\ pc' = "done"
    <2>1. fd' = fd
      BY <1>1, <1>4, PrintedGrows
    <2>2. Printed' = Printed /\ Outcome = "searching"
      BY <1>4, <2>1 DEF Printed, Lines, Outcome
    <2>3. CASE ReportsSuccess'
      <3>1. Outcome' = "complete"
        BY <1>4, <2>3 DEF Outcome
      <3>2. Printed = WantedOf[config]
        BY <1>1, <1>4, <2>3, SuccessMeansAll
      <3>3. S!Complete
        BY <1>1, <2>2, <3>1, <3>2 DEF S!Complete
      <3> QED BY <3>3 DEF S!Next
    <2>4. CASE ~ReportsSuccess'
      <3>1. Outcome' = "incomplete"
        BY <1>4, <2>4 DEF Outcome
      <3>2. S!Incomplete
        BY <1>1, <2>2, <3>1 DEF S!Incomplete
      <3> QED BY <3>2 DEF S!Next
    <2> QED BY <2>3, <2>4
  <1> QED BY <1>2, <1>3, <1>4

(* The parallel walk implements Search, for any number of workers and any  *)
(* interleaving, any short write, and if a directory cannot be opened, a   *)
(* match not be appended, the output not be written or the setup fails:    *)
(* only wanted paths are printed, none is taken back, and if it reports    *)
(* success nothing is missing.  Left out are a slot that cannot be         *)
(* reserved, which the walk does not report, an iovec without room for the *)
(* main buffer and a slot of each worker (there are 256 places), and the   *)
(* searches that Ordinary and NoMounts exclude.                            *)
THEOREM ParallelImplementsSearch ==
  "reserve" \notin Faults /\ WorkerCount < MaxIovec =>
    (Spec /\ Ordinary(config) /\ NoMounts(config) => RefinesSearch)
  <1> SUFFICES ASSUME "reserve" \notin Faults, WorkerCount < MaxIovec
               PROVE  Spec /\ Ordinary(config) /\ NoMounts(config) => RefinesSearch
    OBVIOUS
  <1> DEFINE Searchable == Ordinary(config) /\ NoMounts(config)
             Inv == Searchable /\ PoolInv /\ WantedBuffers /\ Resting /\ NothingMissed
  <1>1. Init => PoolInv /\ WantedBuffers /\ Resting /\ NothingMissed
    <2> SUFFICES ASSUME Init PROVE PoolInv /\ WantedBuffers /\ Resting /\ NothingMissed
      OBVIOUS
    <2>1. PoolInv
      BY DEF Init, PoolInv
    <2>2. WantedBuffers
      BY EmptySeq DEF Init, EmptySlot, WantedBuffers
    <2>3. Resting
      BY DEF Init, EmptySlot, Resting
    <2>4. ASSUME NEW path \in WantedOf[config] PROVE Ahead(path)
      <3>1. config \in Configs
        BY DEF Init
      <3>2. PICK j \in DOMAIN Roots(config) : path[1] = Roots(config)[j]
        BY <3>1, WantedBySequences DEF IsWanted, IsChain
      <3>3. j \in Nat /\ (j > 1 \/ j = 1)
        BY <3>1, <3>2, SearchFacts, LenProperties
      <3>4. root_index = 1 /\ pc = "setup"
        BY DEF Init
      <3> QED BY <3>2, <3>3, <3>4 DEF Ahead, RootAhead
    <2> QED BY <2>1, <2>2, <2>3, <2>4 DEF NothingMissed
  <1>2. PInv /\ Inv /\ [Next]_vars => Inv'
    <2> SUFFICES ASSUME PInv, Inv, [Next]_vars PROVE Inv'
      OBVIOUS
    <2>1. TypeOK /\ RootsShareDevice(config)
      BY DEF PInv, Ordinary, OrdinaryRoots
    <2>2. Searchable'
      BY DeviceMoves
    <2>3. PoolInv' /\ WantedBuffers'
      BY <2>1, PoolKept, WantedKept
    <2>4. Resting'
      BY <2>1, RestingKept
    <2>5. NothingMissed'
      BY <2>1, MissedKept
    <2> QED BY <2>2, <2>3, <2>4, <2>5
  <1>3. PInv /\ Inv => OutputIsWanted
    BY WantedOutput
  <1>7. PInv /\ PInv' /\ Inv /\ OutputIsWanted /\ OutputIsWanted' /\ [Next]_vars => [S!Next]_(S!vars)
    BY StepRefines
  <1>4. Init => S!Init
    BY DEF Init, S!Init, Outcome, Printed, Lines
  <1> HIDE DEF Inv
  <1>5. Inv <=> Searchable /\ PoolInv /\ WantedBuffers /\ Resting /\ NothingMissed
    BY DEF Inv
  <1>6. Searchable <=> Ordinary(config) /\ NoMounts(config)
    BY DEF Searchable
  <1> HIDE DEF Searchable
  <1> QED BY <1>1, <1>2, <1>3, <1>4, <1>5, <1>6, <1>7, ParallelInductive, PTL DEF Spec, RefinesSearch, S!Safety

-----------------------------------------------------------------------------
(* Counts. *)

(* The gathered buffers hold two tokens for each match they count. *)
LEMMA TwoTokensEach ==
  ASSUME NEW parts \in Seq(LineSlot)
  PROVE  Len(Flatten(BytesOf(parts))) = 2 * SumOfCounts(parts)
  <1> DEFINE n == Len(parts)
             segments == BytesOf(parts)
  <1>1. /\ n \in Nat
        /\ \A k \in 1..n : /\ parts[k] \in LineSlot /\ parts[k].emitted_count \in Nat
                           /\ parts[k].output_bytes \in Seq(Tokens)
                           /\ Len(parts[k].output_bytes) = 2 * parts[k].emitted_count
    <2>1. n \in Nat /\ \A k \in 1..n : parts[k] \in LineSlot
      BY LenProperties
    <2>2. \A s \in LineSlot : /\ s.emitted_count \in Nat /\ s.output_bytes \in Seq(Tokens)
                              /\ Len(s.output_bytes) = 2 * s.emitted_count
      BY DEF LineSlot, Slot, Tokens
    <2> HIDE DEF n
    <2> QED BY <2>1, <2>2
  <1>2. segments \in Seq(Seq(Tokens)) /\ Len(segments) = n
        /\ \A k \in 1..n : segments[k] = parts[k].output_bytes
    <2> HIDE DEF n
    <2>1. segments = [k \in 1..n |-> parts[k].output_bytes]
      BY DEF BytesOf, n
    <2>2. segments \in [1..n -> Seq(Tokens)]
      BY <1>1, <2>1
    <2>3. \A k \in 1..n : segments[k] = parts[k].output_bytes
      BY <2>1
    <2> HIDE DEF segments
    <2>4. segments \in Seq(Seq(Tokens)) /\ Len(segments) = n
      BY <1>1, <2>2
    <2> QED BY <2>3, <2>4
  <1> HIDE DEF segments
  <1>3. PICK flat : IsFlat(flat, segments, Len(segments)) /\ Flatten(segments) = flat[Len(segments)]
    BY <1>2, FlattenDef
  <1>4. PICK sum : IsSum(sum, parts, Len(parts)) /\ SumOfCounts(parts) = sum[Len(parts)]
    BY SumOfCountsDef
  <1>5. IsFlat(flat, segments, n) /\ Flatten(segments) = flat[n] /\ IsSum(sum, parts, n)
        /\ SumOfCounts(parts) = sum[n]
    BY <1>2, <1>3, <1>4
  <1> HIDE DEF n
  <1> DEFINE Holds == {k \in Nat : k <= n =>
                         flat[k] \in Seq(Tokens) /\ sum[k] \in Nat /\ Len(flat[k]) = 2 * sum[k]}
  <1>6. 0 \in Holds
    <2>1. flat[0] = <<>> /\ sum[0] = 0 /\ <<>> \in Seq(Tokens) /\ Len(<<>>) = 0
      BY <1>5, EmptySeq DEF IsFlat, IsSum
    <2>2. 0 = 2 * 0
      OBVIOUS
    <2>3. flat[0] \in Seq(Tokens) /\ sum[0] \in Nat /\ Len(flat[0]) = 2 * sum[0]
      BY <2>1, <2>2
    <2> QED BY <2>3
  <1>7. ASSUME NEW k \in Nat, k \in Holds PROVE k + 1 \in Holds
    <2>0. k + 1 \in Nat
      OBVIOUS
    <2> SUFFICES ASSUME k + 1 <= n
                 PROVE  /\ flat[k + 1] \in Seq(Tokens) /\ sum[k + 1] \in Nat
                        /\ Len(flat[k + 1]) = 2 * sum[k + 1]
      BY <2>0
    <2>1. k + 1 \in 1..n /\ (k + 1) - 1 = k /\ k <= n
      BY <1>1
    <2>2. /\ flat[k + 1] = flat[k] \o segments[k + 1]
          /\ sum[k + 1] = sum[k] + parts[k + 1].emitted_count
      BY <1>5, <2>1 DEF IsFlat, IsSum
    <2> DEFINE a == flat[k]
               b == segments[k + 1]
               c == parts[k + 1].emitted_count
    <2>3. /\ a \in Seq(Tokens) /\ sum[k] \in Nat /\ Len(a) = 2 * sum[k]
          /\ b \in Seq(Tokens) /\ c \in Nat /\ Len(b) = 2 * c
      BY <1>1, <1>2, <1>7, <2>1
    <2>4. a \o b \in Seq(Tokens) /\ Len(a \o b) = Len(a) + Len(b)
      BY <2>3, ConcatProperties
    <2>5. Len(a) + Len(b) = 2 * (sum[k] + c) /\ sum[k] + c \in Nat
      <3> DEFINE p == sum[k]
                 x == Len(a)
                 y == Len(b)
      <3>1. p \in Nat /\ x = 2 * p /\ c \in Nat /\ y = 2 * c
        BY <2>3
      <3> HIDE DEF a, b, c, p, x, y
      <3>2. x + y = 2 * (p + c) /\ p + c \in Nat
        BY <3>1
      <3> QED BY <3>2 DEF p, x, y
    <2> HIDE DEF a, b, c
    <2> QED BY <2>2, <2>4, <2>5 DEF a, b, c
  <1> HIDE DEF Holds
  <1>8. n \in Holds
    BY <1>1, <1>6, <1>7, InductionBySet
  <1>9. Len(flat[n]) = 2 * sum[n]
    BY <1>1, <1>8 DEF Holds
  <1> QED BY <1>5, <1>9 DEF segments

(* The odd places up to 2 * n are n. *)
LEMMA OddPlaces ==
  ASSUME NEW n \in Nat, NEW Odd, Odd = {i \in 1..(2 * n) : i % 2 = 1}
  PROVE  IsFiniteSet(Odd) /\ Cardinality(Odd) = n
  <1> DEFINE f == [k \in 1..n |-> 2 * k - 1]
  <1>1. \A k \in 1..n : 2 * k - 1 \in Odd
    <2>1. \A k \in 1..n : 2 * k - 1 \in 1..(2 * n) /\ (2 * k - 1) % 2 = 1
      OBVIOUS
    <2> QED BY <2>1
  <1>2. \A i \in Odd : \E k \in 1..n : i = 2 * k - 1
    <2> SUFFICES ASSUME NEW i \in 1..(2 * n), i % 2 = 1
                 PROVE  \E k \in 1..n : i = 2 * k - 1
      OBVIOUS
    <2>1. PICK q \in Int : i = 2 * q + 1
      <3>1. i = 2 * (i \div 2) + (i % 2) /\ i \div 2 \in Int
        OBVIOUS
      <3> QED BY <3>1
    <2>2. q + 1 \in 1..n /\ i = 2 * (q + 1) - 1
      BY <2>1
    <2> QED BY <2>2
  <1>3. \A k, l \in 1..n : 2 * k - 1 = 2 * l - 1 => k = l
    OBVIOUS
  <1>4. f \in Bijection(1..n, Odd)
    <2>1. f \in [1..n -> Odd]
      BY <1>1
    <2>2. \A k, l \in 1..n : f[k] = f[l] => k = l
      BY <1>3
    <2>3. \A i \in Odd : \E k \in 1..n : f[k] = i
      BY <1>2
    <2> HIDE DEF f
    <2> QED BY <2>1, <2>2, <2>3 DEF Bijection, Injection, Surjection, IsInjective
  <1>5. IsFiniteSet(1..n) /\ Cardinality(1..n) = n
    <2>1. /\ IsFiniteSet(1..n)
          /\ Cardinality(1..n) = IF 1 > n THEN 0 ELSE n - 1 + 1
      BY FS_Interval
    <2> HIDE <1>1
    <2> QED BY <2>1
  <1> HIDE DEF f
  <1> QED BY <1>4, <1>5, FS_Bijection DEF ExistsBijection

(* As many lines as are counted. *)
LEMMA LineCount ==
  ASSUME TypeOK, LineBuffers, fd = Content
  PROVE  IsFiniteSet(Lines) /\ Cardinality(Lines) = SumOfCounts(Gathered)
  <1> DEFINE n == SumOfCounts(Gathered)
  <1>1. Gathered \in Seq(LineSlot)
    BY GatheredType DEF LineBuffers
  <1>2. n \in Nat /\ fd \in Seq(Tokens)
    BY ContentTokens
  <1>3. Len(fd) = 2 * n
    BY <1>1, TwoTokensEach DEF Content
  <1>4. fd \in Whole
    BY ContentWhole
  <1> HIDE DEF n
  <1>5. /\ \A i \in 1..Len(fd) : fd[i] = Separator <=> i % 2 = 0
        /\ DOMAIN fd = 1..(2 * n)
    BY <1>2, <1>3, <1>4, LenProperties DEF Whole
  <1>6. \A i \in 1..(2 * n) : fd[i] = Separator <=> i % 2 = 0
    BY <1>3, <1>5
  <1>7. \A i \in 1..(2 * n) : /\ i % 2 = 1 <=> i % 2 # 0
                              /\ i % 2 = 1 => i < 2 * n /\ i + 1 \in 1..(2 * n) /\ (i + 1) % 2 = 0
    BY <1>2
  <1>8. Lines = {i \in 1..(2 * n) : i % 2 = 1}
    BY <1>3, <1>5, <1>6, <1>7 DEF Lines
  <1>9. IsFiniteSet(Lines) /\ Cardinality(Lines) = n
    BY <1>2, <1>8, OddPlaces
  <1> QED BY <1>9 DEF n

-----------------------------------------------------------------------------
(* No path twice. *)

(* The buffers: the main thread's, and one of each worker. *)
Places == 0..WorkerCount
Buffers == [v \in Places |-> IF v = 0 THEN main_slot.output_bytes ELSE slots[v].output_bytes]

(* No path stands at two places. *)
Distinct(buffers) ==
  \A u, v \in Places : \A i \in 1..Len(buffers[u]), j \in 1..Len(buffers[v]) :
    buffers[u][i] # Separator /\ buffers[u][i] = buffers[v][j] => u = v /\ i = j

(* A path stands in a buffer. *)
Held(path) == \E v \in Places : \E i \in 1..Len(Buffers[v]) : Buffers[v][i] = path

(* A directory that has been found and is still to be read, or being read. *)
Pending(path) == path \in queue \/ \E w \in Workers : job[w] # None /\ job[w].path = path

(* The walk has left behind what it has printed and what it has queued,    *)
(* and no two workers read one directory.                                  *)
OnceInv ==
  /\ Distinct(Buffers)
  /\ \A path \in Seq(Dirents) : Held(path) \/ Pending(path) => ~Ahead(path)
  /\ \A path \in Seq(Dirents) : Pending(path) => path # <<>>
  /\ \A w \in Workers : job[w] # None =>
       /\ job[w].path \notin queue
       /\ \A v \in Workers : job[v] # None /\ job[v].path = job[w].path => v = w
  /\ pc # "pool" => queue = {}

(* The visit of an entry, whatever becomes of it. *)
Visited(w, d) ==
  /\ pc = "pool" /\ job[w] # None /\ d \in job[w].todo
  /\ NextEntry(w, d)

(* What a visit does to the pool. *)
LEMMA VisitedFacts ==
  ASSUME TypeOK, NEW w \in Workers, NEW d \in Dirents, Visited(w, d)
  PROVE  /\ job[w] \in Job /\ job'[w] # None
         /\ job'[w].path = job[w].path /\ job'[w].todo = job[w].todo \ {d}
         /\ \A v \in Workers : v # w => job'[v] = job[v]
         /\ queue' = queue \/ queue' = queue \cup {Append(job[w].path, d)}
         /\ UNCHANGED <<config, pc, root_index>>
  <1>1. job[w] # None /\ job' = [job EXCEPT ![w].todo = @ \ {d}]
        /\ job \in [Workers -> {None} \cup Job]
    BY DEF Visited, NextEntry, TypeOK, Job
  <1>2. job[w] \in Job
    BY <1>1, JobFacts
  <1>3. /\ job'[w] = [job[w] EXCEPT !.todo = @ \ {d}]
        /\ \A v \in Workers : v # w => job'[v] = job[v]
    BY <1>1
  <1>4. job'[w].path = job[w].path /\ job'[w].todo = job[w].todo \ {d} /\ job'[w] \in Job
    BY <1>2, <1>3 DEF Job
  <1>5. job'[w] # None
    BY <1>4, NoneIsNoJob
  <1>6. /\ queue' = queue \/ queue' = queue \cup {Append(job[w].path, d)}
        /\ UNCHANGED <<config, pc, root_index>>
    BY DEF Visited, NextEntry
  <1> QED BY <1>2, <1>3, <1>4, <1>5, <1>6

(* A step of the pool takes a directory, drops one, or visits an entry; a  *)
(* step of the main thread leaves it alone but for its roots.              *)
LEMMA PoolStep ==
  ASSUME TypeOK, [Next]_vars
  PROVE  \/ HandleRoot
         \/ \E w \in Workers : \E d \in Dirents : Visited(w, d)
         \/ \E w \in Workers : TakeDirectory(w)
         \/ /\ queue' \subseteq queue
            /\ \A v \in Workers : job'[v] = None \/ job'[v] = job[v]
            /\ config' = config
            /\ \/ root_index' = root_index /\ (pc' \in {"setup", "roots"} => pc \in {"setup", "roots"})
               \/ root_index' = root_index + 1
            /\ pc' # "pool" => pc # "pool" \/ queue' = {}
  <1>0. job \in [Workers -> {None} \cup Job]
    BY DEF TypeOK, Job
  <1>1. ASSUME NEW w \in Workers, WorkerStep(w)
        PROVE  \/ \E d \in Dirents : Visited(w, d)
               \/ TakeDirectory(w)
               \/ /\ queue' \subseteq queue
                  /\ \A v \in Workers : job'[v] = None \/ job'[v] = job[v]
                  /\ UNCHANGED <<config, root_index, pc>> /\ pc = "pool"
    <2>1. CASE OpenFails(w)
      BY <2>1 DEF OpenFails
    <2>2. CASE DirectoryDone(w) \/ \E d \in Dirents : ReserveFails(w, d)
      <3>1. queue' = queue /\ job' = [job EXCEPT ![w] = None]
            /\ UNCHANGED <<config, root_index, pc>> /\ pc = "pool"
        BY <2>2 DEF DirectoryDone, ReserveFails
      <3>2. job'[w] = None /\ \A v \in Workers : v # w => job'[v] = job[v]
        BY <1>0, <3>1
      <3> QED BY <3>1, <3>2
    <2>3. ASSUME NEW d \in Dirents, VisitOtherDevice(w, d) \/ Visit(w, d)
          PROVE  Visited(w, d)
      BY <2>3 DEF VisitOtherDevice, Visit, Visited
    <2> QED BY <1>1, <2>1, <2>2, <2>3 DEF WorkerStep
  <1>2. MainStep => \/ HandleRoot
                    \/ /\ queue' \subseteq queue /\ job' = job /\ config' = config
                       /\ \/ /\ root_index' = root_index
                             /\ pc' \in {"setup", "roots"} => pc \in {"setup", "roots"}
                          \/ root_index' = root_index + 1
                       /\ pc' # "pool" => pc # "pool" \/ queue' = {}
    BY DEF MainStep, Setup, SetupFails, RootStatFails, RootsLeft, PoolEnds, RootsExhausted, Merge,
           FlushFails, Writev, WritevFails, Advance, Advanced, Written, pool_vars
  <1>3. Signal \/ Finished \/ UNCHANGED vars =>
          UNCHANGED <<queue, job, config, root_index, pc>>
    BY DEF Signal, Finished, vars, pool_vars
  <1> QED BY <1>1, <1>2, <1>3 DEF Next

(* What is not ahead does not come to lie ahead: directories are queued    *)
(* below those that lie ahead.                                             *)
LEMMA AheadShrinks ==
  ASSUME TypeOK, [Next]_vars, NEW path \in Seq(Dirents), Ahead(path)'
  PROVE  Ahead(path)
  <1>0. /\ root_index \in Nat /\ config' = config /\ DOMAIN Roots(config) \subseteq Nat
    <2>1. Roots(config) \in Seq(Dirents)
      BY SearchFacts DEF TypeOK
    <2>2. DOMAIN Roots(config) \subseteq Nat
      BY <2>1, LenProperties
    <2> QED BY <2>2, DeviceMoves DEF TypeOK
  <1>1. CASE HandleRoot
    <2>0. RootsLeft /\ RootStat # NoMeta
      BY <1>1 DEF HandleRoot
    <2>1. /\ root_index \in DOMAIN Roots(config) /\ Root = Roots(config)[root_index]
          /\ pc = "roots" /\ job' = job
      BY <1>1, <2>0, RootFacts DEF HandleRoot, RootsLeft
    <2>2. \A from \in queue' : from \in queue \/ from = <<Root>>
      BY <1>1 DEF HandleRoot
    <2>3. root_index' = root_index \/ root_index' = root_index + 1
      BY <1>1 DEF HandleRoot
    <2>4. CASE RootAhead(path)'
      <3>1. PICK j \in DOMAIN Roots(config) : /\ path[1] = Roots(config)[j]
                                              /\ j > root_index' \/ j = root_index'
        BY <1>0, <2>4 DEF RootAhead
      <3>2. j > root_index \/ j = root_index
        BY <1>0, <2>3, <3>1
      <3> QED BY <2>1, <3>1, <3>2 DEF Ahead, RootAhead
    <2>5. CASE \E from \in queue' : Through(path, from)
      <3>1. PICK from \in queue' : Through(path, from)
        BY <2>5
      <3>2. CASE from = <<Root>>
        <4>1. path[1] = Root
          BY <3>1, <3>2 DEF Through
        <4> QED BY <2>1, <4>1 DEF Ahead, RootAhead
      <3> QED BY <2>2, <3>1, <3>2 DEF Ahead
    <2> QED BY <1>1, <2>1, <2>4, <2>5 DEF Ahead
  <1>2. ASSUME NEW w \in Workers, NEW d \in Dirents, Visited(w, d)
        PROVE  Ahead(path)
    <2>1. /\ job[w] \in Job /\ job'[w].path = job[w].path /\ job'[w].todo = job[w].todo \ {d}
          /\ \A v \in Workers : v # w => job'[v] = job[v]
          /\ queue' = queue \/ queue' = queue \cup {Append(job[w].path, d)}
          /\ UNCHANGED <<config, pc, root_index>>
          /\ job[w] # None /\ d \in job[w].todo
      BY <1>2, VisitedFacts DEF Visited
    <2>2. CASE RootAhead(path)'
      BY <2>1, <2>2 DEF RootAhead, Ahead
    <2>3. CASE \E from \in queue' : Through(path, from)
      <3>1. PICK from \in queue' : Through(path, from)
        BY <2>3
      <3>2. CASE from = Append(job[w].path, d)
        <4> DEFINE p == job[w].path
                   n == Len(p)
        <4>1. p \in Seq(Dirents)
          BY <2>1 DEF Job
        <4>2. /\ n \in Nat /\ Len(from) = n + 1 /\ from[n + 1] = d
              /\ \A k \in 1..n : from[k] = p[k]
          BY <3>2, <4>1, AppendProperties, LenProperties
        <4>3. Len(path) \in Nat
          BY LenProperties
        <4> HIDE DEF n
        <4>4. n + 1 \in 1..(n + 1) /\ \A k \in 1..n : k \in 1..(n + 1)
          BY <4>2
        <4>5. n + 1 < Len(path) => n < Len(path)
          BY <4>2, <4>3
        <4>6. n < Len(path) /\ path[n + 1] = d /\ \A k \in 1..n : path[k] = p[k]
          BY <3>1, <4>2, <4>4, <4>5 DEF Through
        <4>7. Through(path, job[w].path) /\ path[Len(job[w].path) + 1] \in job[w].todo
          BY <2>1, <4>6 DEF Through, n
        <4> QED BY <2>1, <4>7 DEF Ahead
      <3> QED BY <2>1, <3>1, <3>2 DEF Ahead
    <2>4. CASE \E v \in Workers : /\ job'[v] # None /\ Through(path, job'[v].path)
                                  /\ path[Len(job'[v].path) + 1] \in job'[v].todo
      <3>1. PICK v \in Workers : /\ job'[v] # None /\ Through(path, job'[v].path)
                                 /\ path[Len(job'[v].path) + 1] \in job'[v].todo
        BY <2>4
      <3>2. job[v] # None /\ job'[v].path = job[v].path /\ job'[v].todo \subseteq job[v].todo
        BY <2>1, <3>1
      <3> QED BY <3>1, <3>2 DEF Ahead
    <2> QED BY <2>2, <2>3, <2>4 DEF Ahead
  <1>3. ASSUME NEW w \in Workers, TakeDirectory(w)
        PROVE  Ahead(path)
    <2>1. PICK p \in queue : /\ queue' = queue \ {p}
                             /\ job' = [job EXCEPT ![w] = [path |-> p, todo |-> Listed(p)]]
      BY <1>3 DEF TakeDirectory
    <2>2. /\ UNCHANGED <<config, pc, root_index>> /\ job \in [Workers -> {None} \cup Job]
      BY <1>3 DEF TakeDirectory, TypeOK, Job
    <2>3. job'[w].path = p /\ \A v \in Workers : v # w => job'[v] = job[v]
      BY <2>1, <2>2
    <2>4. CASE RootAhead(path)'
      BY <2>2, <2>4 DEF RootAhead, Ahead
    <2>5. CASE \E from \in queue' : Through(path, from)
      BY <2>1, <2>5 DEF Ahead
    <2>6. CASE \E v \in Workers : /\ job'[v] # None /\ Through(path, job'[v].path)
                                  /\ path[Len(job'[v].path) + 1] \in job'[v].todo
      BY <2>1, <2>3, <2>6 DEF Ahead
    <2> QED BY <2>4, <2>5, <2>6 DEF Ahead
  <1>4. CASE /\ queue' \subseteq queue
             /\ \A v \in Workers : job'[v] = None \/ job'[v] = job[v]
             /\ \/ root_index' = root_index /\ (pc' \in {"setup", "roots"} => pc \in {"setup", "roots"})
                \/ root_index' = root_index + 1
    <2>1. CASE RootAhead(path)'
      <3>1. PICK j \in DOMAIN Roots(config) :
              /\ path[1] = Roots(config)[j]
              /\ j > root_index' \/ (j = root_index' /\ pc' \in {"setup", "roots"})
        BY <1>0, <2>1 DEF RootAhead
      <3>2. j > root_index \/ (j = root_index /\ pc \in {"setup", "roots"})
        BY <1>0, <1>4, <3>1
      <3> QED BY <3>1, <3>2 DEF Ahead, RootAhead
    <2>2. CASE \E from \in queue' : Through(path, from)
      BY <1>4, <2>2 DEF Ahead
    <2>3. CASE \E v \in Workers : /\ job'[v] # None /\ Through(path, job'[v].path)
                                  /\ path[Len(job'[v].path) + 1] \in job'[v].todo
      BY <1>4, <2>3 DEF Ahead
    <2> QED BY <2>1, <2>2, <2>3 DEF Ahead
  <1> QED BY <1>1, <1>2, <1>3, <1>4, PoolStep

(* The walk comes to a root: it lay ahead and does so no longer. *)
LEMMA RootArrives ==
  ASSUME TypeOK, OnceInv, RootsApart(config), HandleRoot, NEW path, path = <<Root>>
  PROVE  Ahead(path) /\ ~Ahead(path)'
  <1>0. RootsLeft
    BY DEF HandleRoot
  <1>1. /\ root_index \in DOMAIN Roots(config) /\ Root = Roots(config)[root_index]
        /\ pc = "roots" /\ job' = job /\ config' = config /\ \A v \in Workers : job[v] = None
    BY <1>0, RootFacts DEF HandleRoot, RootsLeft, TypeOK
  <1>2. \A i, j \in DOMAIN Roots(config) : Roots(config)[i] = Roots(config)[j] => i = j
    BY ApartIsDistinct DEF TypeOK
  <1>3. path[1] = Root /\ Len(path) = 1
    OBVIOUS
  <1>4. Ahead(path)
    BY <1>1, <1>3 DEF Ahead, RootAhead
  <1>5. \/ root_index' = root_index /\ pc' = "pool" /\ queue' = {path}
        \/ root_index' = root_index + 1 /\ queue' = {}
    BY <1>1 DEF HandleRoot, OnceInv
  <1>6. root_index \in Nat
    BY DEF TypeOK
  <1>7. ~RootAhead(path)'
    <2> SUFFICES ASSUME NEW j \in DOMAIN Roots(config), path[1] = Roots(config)[j],
                        j > root_index' \/ (j = root_index' /\ pc' \in {"setup", "roots"})
                 PROVE  FALSE
      BY <1>1 DEF RootAhead
    <2>1. j = root_index
      BY <1>1, <1>2, <1>3
    <2> QED BY <1>5, <1>6, <2>1
  <1>8. \A from \in queue' : ~Through(path, from)
    BY <1>3, <1>5 DEF Through
  <1> QED BY <1>1, <1>4, <1>7, <1>8 DEF Ahead

(* A path of one entry more. *)
IsChild(path, p) == Len(path) = Len(p) + 1 /\ \A k \in 1..Len(p) : path[k] = p[k]

(* A path through a directory goes through all above it, and what is below *)
(* it by one entry goes through no other of its length.                    *)
LEMMA ThroughChild ==
  ASSUME NEW p \in Seq(Dirents), NEW path \in Seq(Dirents), IsChild(path, p),
         NEW from \in Seq(Dirents), Through(path, from)
  PROVE  \/ from = p
         \/ Through(p, from) /\ path[Len(from) + 1] = p[Len(from) + 1]
  <1> DEFINE m == Len(from)
             n == Len(p)
  <1>1. /\ m \in Nat /\ n \in Nat /\ path \in Seq(Dirents) /\ Len(path) = n + 1
        /\ \A k \in 1..n : path[k] = p[k]
    BY LenProperties DEF IsChild
  <1>2. m < n + 1 /\ \A k \in 1..m : path[k] = from[k]
    BY <1>1 DEF Through
  <1>3. CASE m = n
    <2>1. \A k \in 1..n : p[k] = from[k]
      <3> HIDE DEF m, n
      <3> QED BY <1>1, <1>2, <1>3
    <2>2. from = p
      BY <1>3, <2>1, SeqEqual
    <2> QED BY <2>2
  <1>4. CASE m < n
    <2> HIDE DEF m, n
    <2>1. m + 1 \in 1..n /\ \A k \in 1..m : k \in 1..n
      BY <1>1, <1>4
    <2>2. path[m + 1] = p[m + 1] /\ \A k \in 1..m : p[k] = from[k]
      BY <1>1, <1>2, <2>1
    <2> QED BY <1>4, <2>2 DEF Through, m, n
  <1>5. m = n \/ m < n
    <2> HIDE DEF m, n
    <2> QED BY <1>1, <1>2
  <1> QED BY <1>3, <1>4, <1>5

(* It comes to an entry of a directory that a worker reads. *)
LEMMA EntryArrives ==
  ASSUME TypeOK, OnceInv, NEW w \in Workers, NEW d \in Dirents, Visited(w, d),
         NEW path, path = Append(job[w].path, d)
  PROVE  Ahead(path) /\ ~Ahead(path)' /\ path \in Seq(Dirents) /\ path # <<>>
  <1> DEFINE p == job[w].path
             n == Len(p)
  <1>1. /\ job[w] \in Job /\ job'[w].path = p /\ job'[w].todo = job[w].todo \ {d}
        /\ \A v \in Workers : v # w => job'[v] = job[v]
        /\ queue' = queue \/ queue' = queue \cup {path}
        /\ UNCHANGED <<config, pc, root_index>>
        /\ job[w] # None /\ d \in job[w].todo
    BY VisitedFacts DEF Visited
  <1>2. p \in Seq(Dirents) /\ n \in Nat
    BY <1>1, LenProperties DEF Job
  <1>3. /\ path \in Seq(Dirents) /\ Len(path) = n + 1 /\ path[n + 1] = d
        /\ \A k \in 1..n : path[k] = p[k]
        /\ IsChild(path, p)
    BY <1>2, AppendProperties DEF IsChild
  <1>4. Pending(p) /\ p # <<>> /\ ~Ahead(p)
    BY <1>1, <1>2 DEF Pending, OnceInv
  <1>5. n > 0
    BY <1>2, <1>4, NonEmptyLength
  <1>6. path # <<>>
    <2> HIDE DEF n
    <2>1. Len(path) # 0
      BY <1>2, <1>3
    <2> QED BY <2>1, EmptySeq
  <1>7. Ahead(path)
    <2>1. Through(path, p)
      <3>1. n < n + 1
        BY <1>2
      <3> QED BY <1>3, <3>1 DEF Through
    <2>2. path[Len(job[w].path) + 1] \in job[w].todo
      BY <1>1, <1>3
    <2> QED BY <1>1, <2>1, <2>2 DEF Ahead
  <1>8. ~RootAhead(path)'
    <2>1. path[1] = p[1]
      <3> HIDE DEF n
      <3>1. 1 \in 1..n
        BY <1>2, <1>5
      <3> QED BY <1>3, <3>1
    <2>2. ~RootAhead(p)
      BY <1>4 DEF Ahead
    <2> HIDE DEF p
    <2> QED BY <1>1, <2>1, <2>2 DEF RootAhead
  <1>9. ASSUME NEW from \in queue', Through(path, from) PROVE FALSE
    <2>1. CASE from = path
      <3>1. ~(Len(path) < Len(path))
        BY <1>3, LenProperties
      <3> QED BY <1>9, <2>1, <3>1 DEF Through
    <2>2. CASE from \in queue
      <3>1. from \in Seq(Dirents)
        BY <2>2 DEF TypeOK
      <3>2. p \notin queue
        BY <1>1 DEF OnceInv
      <3>3. Through(p, from)
        BY <1>2, <1>3, <1>9, <2>2, <3>1, <3>2, ThroughChild
      <3> QED BY <1>4, <2>2, <3>3 DEF Ahead
    <2> QED BY <1>1, <1>9, <2>1, <2>2
  <1>10. ASSUME NEW v \in Workers, job'[v] # None, Through(path, job'[v].path),
                path[Len(job'[v].path) + 1] \in job'[v].todo
         PROVE  FALSE
    <2>1. CASE v = w
      BY <1>1, <1>3, <1>10, <2>1
    <2>2. CASE v # w
      <3>1. job'[v] = job[v]
        BY <1>1, <2>2
      <3> DEFINE from == job[v].path
      <3>2. from \in Seq(Dirents)
        BY <1>10, <3>1, JobFacts
      <3>3. from # p
        BY <1>1, <1>10, <2>2, <3>1 DEF OnceInv
      <3>4. Through(path, from) /\ path[Len(from) + 1] \in job[v].todo
        BY <1>10, <3>1
      <3> HIDE DEF from, p
      <3>5. Through(p, from) /\ path[Len(from) + 1] = p[Len(from) + 1]
        BY <1>2, <1>3, <3>2, <3>3, <3>4, ThroughChild
      <3>6. Ahead(p)
        BY <1>10, <3>1, <3>4, <3>5 DEF Ahead, from
      <3> QED BY <1>4, <3>6
    <2> QED BY <2>1, <2>2
  <1> QED BY <1>3, <1>6, <1>7, <1>8, <1>9, <1>10 DEF Ahead

(* What append_match leaves: nothing new, the path, or the path and its    *)
(* separator.                                                              *)
LEMMA AppendOutcomes ==
  ASSUME NEW b \in Seq(Tokens), NEW path \in Seq(Dirents), NEW r \in append_match(b, path)
  PROVE  r.bytes = b \/ \E t \in {<<path>>, <<path, Separator>>} : r.bytes = b \o t
  <1>0. \/ r = [ok |-> TRUE, bytes |-> b \o <<path, Separator>>]
        \/ r = [ok |-> FALSE, bytes |-> b]
        \/ r = [ok |-> FALSE, bytes |-> Append(b, path)]
    BY DEF append_match
  <1>1. r.bytes \in {b \o <<path, Separator>>, b, Append(b, path)}
    BY <1>0
  <1>2. path \in Tokens
    BY DEF Tokens
  <1>3. Append(b, path) = b \o <<path>>
    BY <1>2
  <1> QED BY <1>1, <1>3

(* What is held of the buffers, as sequences. *)
LEMMA BufferFacts ==
  ASSUME TypeOK
  PROVE  /\ Buffers \in [Places -> Seq(Tokens)]
         /\ Buffers[0] = main_slot.output_bytes
         /\ \A w \in Workers : w \in Places /\ Buffers[w] = slots[w].output_bytes
  <1>1. main_slot.output_bytes \in Seq(Tokens) /\ \A w \in Workers : slots[w].output_bytes \in Seq(Tokens)
    BY DEF TypeOK, Slot, Tokens
  <1>2. 0 \in Places /\ \A w \in Workers : w \in Places /\ w # 0
    BY WalkParallelAssumption DEF Places, Workers
  <1>3. \A v \in Places : v = 0 \/ v \in Workers
    BY WalkParallelAssumption DEF Places, Workers
  <1>4. Buffers \in [Places -> Seq(Tokens)]
    BY <1>1, <1>3 DEF Buffers
  <1>5. Buffers[0] = main_slot.output_bytes
    BY <1>2 DEF Buffers
  <1>6. \A w \in Workers : Buffers[w] = slots[w].output_bytes
    BY <1>2 DEF Buffers
  <1> QED BY <1>2, <1>4, <1>5, <1>6

(* A step leaves the buffers alone, or appends to one of them the path the *)
(* walk has come to.                                                       *)
LEMMA BuffersMove ==
  ASSUME TypeOK, TypeOK', OnceInv, RootsApart(config), [Next]_vars
  PROVE  \/ Buffers' = Buffers
         \/ \E v \in Places, path \in Seq(Dirents) :
              /\ Ahead(path) /\ ~Ahead(path)'
              /\ \E t \in {<<path>>, <<path, Separator>>} : Buffers'[v] = Buffers[v] \o t
              /\ \A u \in Places : u # v => Buffers'[u] = Buffers[u]
  <1>0. /\ Buffers \in [Places -> Seq(Tokens)] /\ Buffers[0] = main_slot.output_bytes
        /\ \A w \in Workers : w \in Places /\ Buffers[w] = slots[w].output_bytes
        /\ Buffers' \in [Places -> Seq(Tokens)] /\ Buffers'[0] = main_slot'.output_bytes
        /\ \A w \in Workers : Buffers'[w] = slots'[w].output_bytes
    <2>1. /\ Buffers' \in [Places -> Seq(Tokens)] /\ Buffers'[0] = main_slot'.output_bytes
          /\ \A w \in Workers : Buffers'[w] = slots'[w].output_bytes
      <3>1. main_slot'.output_bytes \in Seq(Tokens)
            /\ \A w \in Workers : slots'[w].output_bytes \in Seq(Tokens)
        BY DEF TypeOK, Slot, Tokens
      <3>2. 0 \in Places /\ \A w \in Workers : w \in Places /\ w # 0
        BY WalkParallelAssumption DEF Places, Workers
      <3>3. \A v \in Places : v = 0 \/ v \in Workers
        BY WalkParallelAssumption DEF Places, Workers
      <3>4. Buffers' \in [Places -> Seq(Tokens)]
        BY <3>1, <3>3 DEF Buffers
      <3> QED BY <3>2, <3>4 DEF Buffers
    <2> QED BY <2>1, BufferFacts
  <1>1. 0 \in Places /\ \A v \in Places : v = 0 \/ v \in Workers
    BY WalkParallelAssumption DEF Places, Workers
  <1>2. CASE HandleRoot
    <2> DEFINE p == <<Root>>
    <2>0. RootsLeft /\ slots' = slots
      BY <1>2 DEF HandleRoot
    <2>1. p \in Seq(Dirents)
      BY <2>0, RootFacts
    <2>2. \E path : path = p /\ Ahead(path) /\ ~Ahead(path)'
      BY <1>2, RootArrives
    <2>3. PICK path : path = p /\ Ahead(path) /\ ~Ahead(path)'
      BY <2>2
    <2>4. \A u \in Places : u # 0 => Buffers'[u] = Buffers[u]
      BY <1>0, <1>1, <2>0
    <2>5. CASE main_slot' = main_slot
      BY <1>0, <1>1, <2>4, <2>5
    <2>6. CASE main_slot' # main_slot
      <3>1. PICK r \in append_match(main_slot.output_bytes, <<Root>>) : main_slot' = Keep(main_slot, r)
        BY <1>2, <2>6 DEF HandleRoot
      <3>2. Keep(main_slot, r).output_bytes = r.bytes
        BY DEF Keep, TypeOK, Slot
      <3>3. r.bytes = Buffers[0] \/ \E t \in {<<path>>, <<path, Separator>>} : r.bytes = Buffers[0] \o t
        BY <1>0, <1>1, <2>1, <2>3, <3>1, AppendOutcomes
      <3>4. Buffers'[0] = r.bytes
        BY <1>0, <3>1, <3>2
      <3>5. CASE r.bytes = Buffers[0]
        BY <1>0, <1>1, <2>4, <3>4, <3>5
      <3> QED BY <1>1, <2>1, <2>3, <2>4, <3>3, <3>4, <3>5
    <2> QED BY <2>5, <2>6
  <1>3. ASSUME NEW w \in Workers, NEW d \in Dirents, Visit(w, d)
        PROVE  \/ Buffers' = Buffers
               \/ \E v \in Places, path \in Seq(Dirents) :
                    /\ Ahead(path) /\ ~Ahead(path)'
                    /\ \E t \in {<<path>>, <<path, Separator>>} : Buffers'[v] = Buffers[v] \o t
                    /\ \A u \in Places : u # v => Buffers'[u] = Buffers[u]
    <2>0. Visited(w, d) /\ main_slot' = main_slot
      BY <1>3 DEF Visit, Visited, NextEntry
    <2>1. \E path : /\ path = Append(job[w].path, d) /\ Ahead(path) /\ ~Ahead(path)'
                    /\ path \in Seq(Dirents)
      BY <2>0, EntryArrives
    <2>2. PICK path : /\ path = Append(job[w].path, d) /\ Ahead(path) /\ ~Ahead(path)'
                      /\ path \in Seq(Dirents)
      BY <2>1
    <2> DEFINE slot == [slots[w] EXCEPT !.initialized = TRUE]
    <2>3. /\ slot \in Slot /\ slot.output_bytes = slots[w].output_bytes
          /\ slots \in [Workers -> Slot]
      BY DEF TypeOK, Slot
    <2>4. \/ slots' = [slots EXCEPT ![w] = slot]
          \/ \E r \in append_match(slot.output_bytes, path) :
               slots' = [slots EXCEPT ![w] = Keep(slot, r)]
      BY <1>3, <2>2 DEF Visit
    <2> HIDE DEF slot
    <2>5. \A v \in Workers : v # w => slots'[v] = slots[v]
      BY <2>3, <2>4
    <2>6. \A u \in Places : u # w => Buffers'[u] = Buffers[u]
      BY <1>0, <1>1, <2>0, <2>5
    <2>7. CASE slots' = [slots EXCEPT ![w] = slot]
      <3>1. slots'[w] = slot
        BY <2>3, <2>7
      <3>2. Buffers'[w] = Buffers[w]
        BY <1>0, <2>3, <3>1
      <3> QED BY <1>0, <2>6, <3>2
    <2>8. ASSUME NEW r \in append_match(slot.output_bytes, path),
                 slots' = [slots EXCEPT ![w] = Keep(slot, r)]
          PROVE  Buffers'[w] = Buffers[w] \/ \E t \in {<<path>>, <<path, Separator>>} : Buffers'[w] = Buffers[w] \o t
      <3>1. slots'[w] = Keep(slot, r)
        BY <2>3, <2>8
      <3>2. Keep(slot, r).output_bytes = r.bytes
        BY <2>3 DEF Keep, Slot
      <3>3. slot.output_bytes = Buffers[w] /\ Buffers[w] \in Seq(Tokens)
        BY <1>0, <2>3
      <3>4. r.bytes = Buffers[w] \/ \E t \in {<<path>>, <<path, Separator>>} : r.bytes = Buffers[w] \o t
        BY <2>2, <2>8, <3>3, AppendOutcomes
      <3> QED BY <1>0, <3>1, <3>2, <3>4
    <2>9. CASE Buffers'[w] = Buffers[w]
      BY <1>0, <2>6, <2>9
    <2>10. w \in Places
      BY <1>0
    <2> QED BY <2>2, <2>4, <2>6, <2>7, <2>8, <2>9, <2>10
  <1>4. \/ HandleRoot
        \/ \E w \in Workers : \E d \in Dirents : Visit(w, d)
        \/ UNCHANGED <<main_slot, slots>>
    <2>1. MainStep => HandleRoot \/ UNCHANGED <<main_slot, slots>>
      BY DEF MainStep, Setup, SetupFails, RootStatFails, PoolEnds, RootsExhausted, Merge, FlushFails,
             Writev, WritevFails, Advance, Advanced, Written
    <2>2. ASSUME NEW w \in Workers, WorkerStep(w)
          PROVE  (\E d \in Dirents : Visit(w, d)) \/ UNCHANGED <<main_slot, slots>>
      BY <2>2 DEF WorkerStep, TakeDirectory, OpenFails, DirectoryDone, VisitOtherDevice,
                  ReserveFails, NextEntry
    <2>3. Signal \/ Finished \/ UNCHANGED vars => UNCHANGED <<main_slot, slots>>
      BY DEF Signal, Finished, vars
    <2> QED BY <2>1, <2>2, <2>3 DEF Next
  <1>5. CASE UNCHANGED <<main_slot, slots>>
    BY <1>5 DEF Buffers
  <1> QED BY <1>2, <1>3, <1>4, <1>5

(* A path that was in no buffer is appended to one of them. *)
LEMMA DistinctKept ==
  ASSUME NEW B \in [Places -> Seq(Tokens)], NEW C \in [Places -> Seq(Tokens)], Distinct(B),
         NEW v \in Places, NEW path \in Seq(Dirents), NEW t \in {<<path>>, <<path, Separator>>},
         C[v] = B[v] \o t, \A u \in Places : u # v => C[u] = B[u],
         \A u \in Places : \A i \in 1..Len(B[u]) : B[u][i] # path
  PROVE  /\ Distinct(C)
         /\ \A u \in Places : \A i \in 1..Len(C[u]) :
              C[u][i] = path \/ C[u][i] = Separator \/ \E j \in 1..Len(B[u]) : C[u][i] = B[u][j]
  <1> DEFINE n == Len(B[v])
             Old(u, i) == i \in 1..Len(B[u]) /\ C[u][i] = B[u][i]
             New(u, i) == u = v /\ i = n + 1 /\ C[u][i] = path
  <1>1. ASSUME NEW i \in 1..Len(C[v]), C[v][i] # Separator
        PROVE  Old(v, i) \/ New(v, i)
    <2>1. path \in Tokens /\ Separator \in Tokens
      BY DEF Tokens
    <2>2. t \in Seq(Tokens) /\ t[1] = path /\ (Len(t) = 1 \/ (Len(t) = 2 /\ t[2] = Separator))
      <3>1. CASE t = <<path>>
        BY <2>1, <3>1
      <3>2. CASE t = <<path, Separator>>
        BY <2>1, <3>2
      <3> QED BY <3>1, <3>2
    <2>3. /\ n \in Nat /\ Len(C[v]) = n + Len(t)
          /\ \A k \in 1..(n + Len(t)) : C[v][k] = IF k <= n THEN B[v][k] ELSE t[k - n]
      BY <2>2, ConcatProperties, LenProperties
    <2> DEFINE m == Len(t)
               z == C[v]
    <2> HIDE DEF n, m, z
    <2>4. /\ i \in 1..(n + m) /\ m \in {1, 2} /\ n \in Nat
          /\ z[i] = IF i <= n THEN B[v][i] ELSE t[i - n]
      BY <1>1, <2>2, <2>3 DEF m, z
    <2>5. i \in 1..n \/ i = n + 1 \/ (i = n + 2 /\ m = 2)
      BY <2>4
    <2>6. CASE i \in 1..n
      <3>1. i <= n
        BY <2>4, <2>6
      <3> QED BY <2>4, <2>6, <3>1 DEF n, z
    <2>7. CASE i = n + 1
      <3>1. ~(i <= n) /\ i - n = 1
        BY <2>4, <2>7
      <3> QED BY <2>2, <2>4, <2>7, <3>1 DEF z
    <2>8. CASE i = n + 2 /\ m = 2
      <3>1. ~(i <= n) /\ i - n = 2
        BY <2>4, <2>8
      <3>2. Len(t) = 2
        BY <2>8 DEF m
      <3>3. t[2] = Separator
        BY <2>2, <3>2
      <3> QED BY <1>1, <2>4, <3>1, <3>3 DEF z
    <2> QED BY <2>5, <2>6, <2>7, <2>8
  <1>2. ASSUME NEW u \in Places, NEW i \in 1..Len(C[u]), C[u][i] # Separator
        PROVE  Old(u, i) \/ New(u, i)
    <2>1. CASE u = v
      BY <1>1, <1>2, <2>1
    <2>2. CASE u # v
      BY <1>2, <2>2
    <2> QED BY <2>1, <2>2
  <1>3. Distinct(C)
    <2> SUFFICES ASSUME NEW a \in Places, NEW b \in Places,
                        NEW i \in 1..Len(C[a]), NEW j \in 1..Len(C[b]),
                        C[a][i] # Separator, C[a][i] = C[b][j]
                 PROVE  a = b /\ i = j
      BY DEF Distinct
    <2>1. (Old(a, i) \/ New(a, i)) /\ (Old(b, j) \/ New(b, j))
      BY <1>2
    <2>2. ~(Old(a, i) /\ New(b, j)) /\ ~(New(a, i) /\ Old(b, j))
      OBVIOUS
    <2>3. CASE Old(a, i) /\ Old(b, j)
      <3>1. /\ i \in 1..Len(B[a]) /\ j \in 1..Len(B[b])
            /\ B[a][i] # Separator /\ B[a][i] = B[b][j]
        BY <2>3, Zenon
      <3> QED BY <3>1, Zenon DEF Distinct
    <2>4. CASE New(a, i) /\ New(b, j)
      BY <2>4
    <2> HIDE DEF Old, New
    <2> QED BY <2>1, <2>2, <2>3, <2>4
  <1> QED BY <1>2, <1>3

(* No step prints a path again or hands out a directory again. *)
LEMMA OnceKept ==
  ASSUME TypeOK, TypeOK', OnceInv, RootsApart(config), [Next]_vars
  PROVE  OnceInv'
  <1>0. /\ Buffers \in [Places -> Seq(Tokens)] /\ Buffers' \in [Places -> Seq(Tokens)]
    <2>1. main_slot'.output_bytes \in Seq(Tokens)
          /\ \A w \in Workers : slots'[w].output_bytes \in Seq(Tokens)
      BY DEF TypeOK, Slot, Tokens
    <2>2. \A v \in Places : v = 0 \/ v \in Workers
      BY WalkParallelAssumption DEF Places, Workers
    <2>3. Buffers' \in [Places -> Seq(Tokens)]
      BY <2>1, <2>2 DEF Buffers
    <2> QED BY <2>3, BufferFacts
  <1>1. /\ Distinct(Buffers')
        /\ \A path \in Seq(Dirents) : Held(path)' => ~Ahead(path)'
    <2>1. CASE Buffers' = Buffers
      <3>1. \A path \in Seq(Dirents) : Held(path)' => Held(path)
        BY <2>1 DEF Held
      <3> QED BY <2>1, <3>1, AheadShrinks DEF OnceInv
    <2>2. ASSUME NEW v \in Places, NEW path \in Seq(Dirents), Ahead(path), ~Ahead(path)',
                 NEW t \in {<<path>>, <<path, Separator>>}, Buffers'[v] = Buffers[v] \o t,
                 \A u \in Places : u # v => Buffers'[u] = Buffers[u]
          PROVE  /\ Distinct(Buffers')
                 /\ \A other \in Seq(Dirents) : Held(other)' => ~Ahead(other)'
      <3>1. \A u \in Places : \A i \in 1..Len(Buffers[u]) : Buffers[u][i] # path
        BY <2>2 DEF OnceInv, Held
      <3>2. Distinct(Buffers)
        BY DEF OnceInv
      <3>3. /\ Distinct(Buffers')
            /\ \A u \in Places : \A i \in 1..Len(Buffers'[u]) :
                 \/ Buffers'[u][i] = path \/ Buffers'[u][i] = Separator
                 \/ \E j \in 1..Len(Buffers[u]) : Buffers'[u][i] = Buffers[u][j]
        <4> DEFINE B == Buffers
                   C == Buffers'
        <4>1. /\ B \in [Places -> Seq(Tokens)] /\ C \in [Places -> Seq(Tokens)] /\ Distinct(B)
              /\ C[v] = B[v] \o t /\ \A u \in Places : u # v => C[u] = B[u]
              /\ \A u \in Places : \A i \in 1..Len(B[u]) : B[u][i] # path
          BY <1>0, <2>2, <3>1, <3>2
        <4> HIDE DEF B, C
        <4>2. /\ Distinct(C)
              /\ \A u \in Places : \A i \in 1..Len(C[u]) :
                   C[u][i] = path \/ C[u][i] = Separator \/ \E j \in 1..Len(B[u]) : C[u][i] = B[u][j]
          BY <4>1, DistinctKept, ZenonT(60)
        <4> QED BY <4>2 DEF B, C
      <3>4. \A other \in Seq(Dirents) : other # Separator
        BY WalkParallelAssumption
      <3>5. ASSUME NEW other \in Seq(Dirents), Held(other)', other # path PROVE Held(other)
        <4>1. PICK u \in Places : \E i \in 1..Len(Buffers'[u]) : Buffers'[u][i] = other
          BY <3>5 DEF Held
        <4>2. PICK i \in 1..Len(Buffers'[u]) : Buffers'[u][i] = other
          BY <4>1
        <4>3. \E j \in 1..Len(Buffers[u]) : Buffers'[u][i] = Buffers[u][j]
          BY <3>3, <3>4, <3>5, <4>2
        <4> QED BY <4>2, <4>3 DEF Held
      <3> QED BY <2>2, <3>3, <3>5, AheadShrinks DEF OnceInv
    <2> QED BY <2>1, <2>2, BuffersMove
  <1>2. Distinct(Buffers)' <=> Distinct(Buffers')
    BY DEF Distinct, Places
  <1>3. queue \subseteq Seq(Dirents) /\ job \in [Workers -> {None} \cup Job]
    BY DEF TypeOK, Job
  <1> DEFINE PoolPart ==
               /\ \A path \in Seq(Dirents) : Pending(path)' => ~Ahead(path)'
               /\ \A path \in Seq(Dirents) : Pending(path)' => path # <<>>
               /\ \A w \in Workers : job'[w] # None =>
                    /\ job'[w].path \notin queue'
                    /\ \A v \in Workers : job'[v] # None /\ job'[v].path = job'[w].path => v = w
               /\ pc' # "pool" => queue' = {}
  <1>4. CASE HandleRoot
    <2>0. RootsLeft
      BY <1>4 DEF HandleRoot
    <2>1. /\ pc = "roots" /\ job' = job /\ \A v \in Workers : job[v] = None
          /\ <<Root>> \in Seq(Dirents)
      BY <1>4, <2>0, RootFacts DEF HandleRoot, RootsLeft, TypeOK
    <2>2. PICK path : path = <<Root>> /\ ~Ahead(path)'
      BY <1>4, RootArrives
    <2>3. \/ pc' = "pool" /\ queue' = {path}
          \/ queue' = {}
      BY <1>4, <2>1, <2>2 DEF HandleRoot, OnceInv
    <2>4. path # <<>>
      BY <2>2
    <2>5. \A other : Pending(other)' => other = path
      BY <2>1, <2>3 DEF Pending
    <2>6. PoolPart
      BY <2>1, <2>2, <2>3, <2>4, <2>5
    <2> QED BY <1>1, <1>2, <2>6 DEF OnceInv
  <1>5. ASSUME NEW w \in Workers, NEW d \in Dirents, Visited(w, d)
        PROVE  PoolPart
    <2>1. /\ job'[w] # None /\ job'[w].path = job[w].path
          /\ \A v \in Workers : v # w => job'[v] = job[v]
          /\ queue' = queue \/ queue' = queue \cup {Append(job[w].path, d)}
          /\ pc' = "pool" /\ job[w] # None
      BY <1>5, VisitedFacts DEF Visited
    <2>2. PICK path : /\ path = Append(job[w].path, d) /\ Ahead(path) /\ ~Ahead(path)'
                      /\ path \in Seq(Dirents) /\ path # <<>>
      BY <1>5, EntryArrives, Zenon
    <2>3. \A v \in Workers : /\ job'[v] # None <=> job[v] # None
                             /\ job'[v] # None => job'[v].path = job[v].path
      BY <2>1
    <2>4. \A other : Pending(other)' => other = path \/ Pending(other)
      BY <2>1, <2>2, <2>3 DEF Pending
    <2>5. \A other \in Seq(Dirents) : Pending(other)' => ~Ahead(other)' /\ other # <<>>
      BY <2>2, <2>4, AheadShrinks DEF OnceInv
    <2>6. \A v \in Workers : job[v] # None => job[v].path # path
      <3> SUFFICES ASSUME NEW v \in Workers, job[v] # None, job[v].path = path PROVE FALSE
        OBVIOUS
      <3> QED BY <2>2 DEF OnceInv, Pending
    <2>7. ASSUME NEW v \in Workers, job'[v] # None PROVE job'[v].path \notin queue'
      <3>1. job[v] # None /\ job'[v].path = job[v].path /\ job[v].path # path
        BY <2>3, <2>6, <2>7
      <3> QED BY <2>1, <2>2, <3>1 DEF OnceInv
    <2>8. \A u, v \in Workers : job'[u] # None /\ job'[v] # None /\ job'[v].path = job'[u].path => v = u
      BY <2>3 DEF OnceInv
    <2> QED BY <2>1, <2>5, <2>7, <2>8
  <1>6. ASSUME NEW w \in Workers, TakeDirectory(w)
        PROVE  PoolPart
    <2>1. PICK p \in queue : /\ queue' = queue \ {p}
                             /\ job' = [job EXCEPT ![w] = [path |-> p, todo |-> Listed(p)]]
      BY <1>6 DEF TakeDirectory
    <2>2. pc' = "pool" /\ job[w] = None
      BY <1>6 DEF TakeDirectory
    <2>3. job'[w].path = p /\ \A v \in Workers : v # w => job'[v] = job[v]
      BY <1>3, <2>1
    <2>4. \A other : Pending(other)' => Pending(other)
      BY <2>1, <2>3 DEF Pending
    <2>5. \A other \in Seq(Dirents) : Pending(other)' => ~Ahead(other)' /\ other # <<>>
      BY <2>4, AheadShrinks DEF OnceInv
    <2>6. \A v \in Workers : v # w /\ job'[v] # None => job'[v].path # p /\ job'[v].path \notin queue
      BY <2>1, <2>3 DEF OnceInv
    <2>7. \A v \in Workers : job'[v] # None => job'[v].path \notin queue'
      BY <2>1, <2>3, <2>6
    <2>8. \A u, v \in Workers : job'[u] # None /\ job'[v] # None /\ job'[v].path = job'[u].path => v = u
      BY <2>3, <2>6 DEF OnceInv
    <2> QED BY <2>2, <2>5, <2>7, <2>8
  <1>7. ASSUME queue' \subseteq queue,
               \A v \in Workers : job'[v] = None \/ job'[v] = job[v],
               pc' # "pool" => pc # "pool" \/ queue' = {}
        PROVE  PoolPart
    <2>1. \A other : Pending(other)' => Pending(other)
      BY <1>7 DEF Pending
    <2>2. \A other \in Seq(Dirents) : Pending(other)' => ~Ahead(other)' /\ other # <<>>
      BY <2>1, AheadShrinks DEF OnceInv
    <2>3. \A v \in Workers : job'[v] # None => job[v] # None /\ job'[v].path = job[v].path
      BY <1>7
    <2>4. \A v \in Workers : job'[v] # None => job'[v].path \notin queue'
      BY <1>7, <2>3 DEF OnceInv
    <2>5. \A u, v \in Workers : job'[u] # None /\ job'[v] # None /\ job'[v].path = job'[u].path => v = u
      BY <2>3 DEF OnceInv
    <2>6. pc' # "pool" => queue' = {}
      BY <1>7 DEF OnceInv
    <2> QED BY <2>2, <2>4, <2>5, <2>6
  <1>8. CASE PoolPart
    BY <1>1, <1>2, <1>8 DEF OnceInv
  <1> HIDE DEF PoolPart
  <1> QED BY <1>4, <1>5, <1>6, <1>7, <1>8, PoolStep

(* The bytes of one slot more. *)
LEMMA BytesOfAppend ==
  ASSUME NEW parts \in Seq(Slot), NEW slot \in Slot
  PROVE  /\ BytesOf(parts) \in Seq(Seq(Tokens)) /\ slot.output_bytes \in Seq(Tokens)
         /\ BytesOf(Append(parts, slot)) = Append(BytesOf(parts), slot.output_bytes)
  <1> DEFINE n == Len(parts)
             more == Append(parts, slot)
             a == BytesOf(parts)
             b == BytesOf(more)
             c == Append(a, slot.output_bytes)
  <1>1. /\ n \in Nat /\ \A k \in 1..n : parts[k] \in Slot
        /\ Len(more) = n + 1 /\ more[n + 1] = slot /\ \A k \in 1..n : more[k] = parts[k]
    BY AppendProperties, LenProperties
  <1>2. \A s \in Slot : s.output_bytes \in Seq(Tokens)
    BY DEF Slot, Tokens
  <1> HIDE DEF more
  <1>3. a = [k \in 1..n |-> parts[k].output_bytes] /\ b = [k \in 1..(n + 1) |-> more[k].output_bytes]
    BY <1>1 DEF BytesOf
  <1> HIDE DEF n, a, b
  <1>4. \A k \in 1..(n + 1) : k \in 1..n \/ k = n + 1
    BY <1>1
  <1>5. \A k \in 1..n : a[k] = parts[k].output_bytes /\ a[k] \in Seq(Tokens)
    BY <1>1, <1>2, <1>3
  <1>6. a \in [1..n -> Seq(Tokens)]
    BY <1>3, <1>5
  <1>7. a \in Seq(Seq(Tokens)) /\ Len(a) = n
    BY <1>1, <1>6
  <1>8. \A k \in 1..(n + 1) : b[k] = more[k].output_bytes /\ b[k] \in Seq(Tokens)
    BY <1>1, <1>2, <1>3, <1>4
  <1>9. b \in [1..(n + 1) -> Seq(Tokens)]
    BY <1>3, <1>8
  <1>10. n + 1 \in Nat
    BY <1>1
  <1>11. b \in Seq(Seq(Tokens)) /\ Len(b) = n + 1
    BY <1>9, <1>10
  <1>12. /\ c \in Seq(Seq(Tokens)) /\ Len(c) = n + 1 /\ c[n + 1] = slot.output_bytes
         /\ \A k \in 1..n : c[k] = a[k]
    BY <1>2, <1>7, AppendProperties
  <1> HIDE DEF c
  <1>13. \A k \in 1..(n + 1) : b[k] = c[k]
    BY <1>1, <1>4, <1>5, <1>8, <1>12
  <1>14. b = c
    BY <1>11, <1>12, <1>13, SeqEqual
  <1> QED BY <1>2, <1>7, <1>14 DEF a, b, c, more

(* A segment more. *)
LEMMA FlattenAppend ==
  ASSUME NEW T, NEW segments \in Seq(Seq(T)), NEW s \in Seq(T)
  PROVE  Flatten(Append(segments, s)) = Flatten(segments) \o s
  <1> DEFINE more == Append(segments, s)
             n == Len(segments)
  <1>1. /\ more \in Seq(Seq(T)) /\ Len(more) = n + 1 /\ more[n + 1] = s /\ n \in Nat
        /\ \A k \in 1..n : more[k] = segments[k]
    BY AppendProperties, LenProperties
  <1>2. PICK f : IsFlat(f, more, Len(more)) /\ Flatten(more) = f[Len(more)]
    BY <1>1, FlattenDef
  <1>3. PICK g : IsFlat(g, segments, n) /\ Flatten(segments) = g[n]
    BY FlattenDef
  <1>4. IsFlat(f, more, n + 1) /\ Flatten(more) = f[n + 1]
    BY <1>1, <1>2
  <1> HIDE DEF more, n
  <1>5. n + 1 \in Nat /\ n <= n + 1 /\ n + 1 \in 1..(n + 1) /\ (n + 1) - 1 = n
    BY <1>1
  <1>6. f[n] = g[n]
    BY <1>1, <1>3, <1>4, <1>5, FlatUnique
  <1>7. f[n + 1] = f[(n + 1) - 1] \o more[n + 1]
    BY <1>4, <1>5 DEF IsFlat
  <1>8. f[n + 1] = g[n] \o s
    BY <1>1, <1>5, <1>6, <1>7
  <1> QED BY <1>3, <1>4, <1>8 DEF more

(* No path stands twice in a sequence of tokens. *)
Single(s) == \A i, j \in 1..Len(s) : s[i] # Separator /\ s[i] = s[j] => i = j

(* Two such sequences with no path in common. *)
LEMMA SingleConcat ==
  ASSUME NEW s \in Seq(Tokens), NEW t \in Seq(Tokens), Single(s), Single(t),
         \A i \in 1..Len(s) : \A j \in 1..Len(t) : s[i] # Separator => s[i] # t[j]
  PROVE  /\ Single(s \o t)
         /\ \A i \in 1..Len(s \o t) : \/ \E k \in 1..Len(s) : (s \o t)[i] = s[k]
                                      \/ \E k \in 1..Len(t) : (s \o t)[i] = t[k]
  <1> DEFINE u == s \o t
             m == Len(s)
             n == Len(t)
             Left1(i) == i \in 1..m /\ u[i] = s[i]
             Right1(i) == i - m \in 1..n /\ u[i] = t[i - m]
  <1>1. /\ Len(u) = m + n /\ m \in Nat /\ n \in Nat
        /\ \A i \in 1..(m + n) : u[i] = IF i <= m THEN s[i] ELSE t[i - m]
    BY ConcatProperties, LenProperties
  <1> HIDE DEF u
  <1>2. \A i \in 1..(m + n) : Left1(i) \/ Right1(i)
    <2> HIDE DEF m, n
    <2>1. \A i \in 1..(m + n) : (i <= m /\ i \in 1..m) \/ (~(i <= m) /\ i - m \in 1..n)
      BY <1>1
    <2> QED BY <1>1, <2>1
  <1>3. Single(u)
    <2> SUFFICES ASSUME NEW i \in 1..(m + n), NEW j \in 1..(m + n), u[i] # Separator, u[i] = u[j]
                 PROVE  i = j
      BY <1>1 DEF Single
    <2>1. (Left1(i) \/ Right1(i)) /\ (Left1(j) \/ Right1(j))
      BY <1>2
    <2>2. CASE Left1(i) /\ Left1(j)
      BY <2>2, Zenon DEF Single
    <2>3. CASE Right1(i) /\ Right1(j)
      <3>1. i - m = j - m
        BY <2>3, Zenon DEF Single
      <3> HIDE DEF m, n
      <3> QED BY <1>1, <3>1
    <2>4. ~(Left1(i) /\ Right1(j)) /\ ~(Right1(i) /\ Left1(j))
      BY Zenon
    <2> HIDE DEF Left1, Right1
    <2> QED BY <2>1, <2>2, <2>3, <2>4
  <1>4. \A i \in 1..(m + n) : \/ \E k \in 1..m : u[i] = s[k]
                              \/ \E k \in 1..n : u[i] = t[k]
    BY <1>2
  <1> QED BY <1>1, <1>3, <1>4 DEF u

(* What is gathered from buffers that share no path holds no path twice.   *)
LEMMA ContentSingle ==
  ASSUME TypeOK, Distinct(Buffers)
  PROVE  Single(Content)
  <1> DEFINE buffers == <<main_slot>> \o slots
             n == WorkerCount + 1
  <1>1. /\ WorkerCount \in Nat /\ main_slot \in Slot /\ slots \in [Workers -> Slot]
    BY WalkParallelAssumption DEF TypeOK
  <1>2. slots \in Seq(Slot) /\ Len(slots) = WorkerCount
    BY <1>1 DEF Workers
  <1>3. <<main_slot>> \in Seq(Slot) /\ Len(<<main_slot>>) = 1
    BY <1>1
  <1>4. /\ buffers \in Seq(Slot) /\ Len(buffers) = n
        /\ \A k \in 1..n : buffers[k] = IF k <= 1 THEN <<main_slot>>[k] ELSE slots[k - 1]
    <2>1. Len(buffers) = Len(<<main_slot>>) + Len(slots) /\ 1 + WorkerCount = n
      BY <1>1, <1>2, <1>3, ConcatProperties
    <2>2. /\ buffers \in Seq(Slot)
          /\ \A k \in 1..(Len(<<main_slot>>) + Len(slots)) :
               buffers[k] = IF k <= Len(<<main_slot>>) THEN <<main_slot>>[k]
                            ELSE slots[k - Len(<<main_slot>>)]
      BY <1>2, <1>3, ConcatProperties
    <2> HIDE DEF buffers, n
    <2> QED BY <1>2, <1>3, <2>1, <2>2
  <1>5. \A k \in 1..n : k - 1 \in Places /\ buffers[k].output_bytes = Buffers[k - 1]
    <2> SUFFICES ASSUME NEW k \in 1..n
                 PROVE  k - 1 \in Places /\ buffers[k].output_bytes = Buffers[k - 1]
      OBVIOUS
    <2> HIDE DEF buffers
    <2>1. CASE k = 1
      <3>1. k <= 1 /\ k - 1 = 0 /\ 0 \in Places
        BY <1>1, <2>1 DEF Places
      <3>2. buffers[k] = main_slot
        BY <1>4, <2>1, <3>1
      <3> QED BY <3>1, <3>2, BufferFacts
    <2>2. CASE k # 1
      <3>1. ~(k <= 1) /\ k - 1 \in Workers /\ k - 1 \in Places
        BY <1>1, <2>2 DEF Places, Workers
      <3> QED BY <1>4, <3>1, BufferFacts
    <2> QED BY <2>1, <2>2
  <1>6. PICK f : IsBuilder(f, buffers, n) /\ Gathered = f[n]
    BY <1>4, CollectedDef DEF Gathered
  <1> HIDE DEF buffers
  <1> DEFINE F(k) == Flatten(BytesOf(f[k]))
             Within(k) == \A i \in 1..Len(F(k)) : F(k)[i] # Separator =>
                            \E v \in Places : v < k /\ \E j \in 1..Len(Buffers[v]) : F(k)[i] = Buffers[v][j]
             Good(k) == f[k] \in Seq(Slot) /\ F(k) \in Seq(Tokens) /\ Single(F(k)) /\ Within(k)
             Holds == {k \in Nat : k <= n => Good(k)}
  <1>7. n \in Nat /\ Buffers \in [Places -> Seq(Tokens)] /\ Places \subseteq Nat
    BY <1>1, BufferFacts DEF Places
  <1> HIDE DEF n
  <1>8. 0 \in Holds
    <2>1. f[0] = <<>> /\ <<>> \in Seq(Slot) /\ <<>> \in Seq(Tokens) /\ Len(<<>>) = 0
      BY <1>6, EmptySeq DEF IsBuilder
    <2>2. BytesOf(<<>>) = <<>>
      BY <2>1 DEF BytesOf
    <2>3. F(0) = <<>>
      BY <2>1, <2>2, FlattenEmpty
    <2>4. \A i \in 1..0 : FALSE
      OBVIOUS
    <2>5. Single(F(0)) /\ Within(0)
      <3> HIDE DEF F
      <3>1. Len(F(0)) = 0
        BY <2>1, <2>3
      <3> QED BY <2>4, <3>1 DEF Single
    <2> QED BY <2>1, <2>3, <2>5
  <1>9. ASSUME NEW k \in Nat, k \in Holds PROVE k + 1 \in Holds
    <2>0. k + 1 \in Nat
      OBVIOUS
    <2> SUFFICES ASSUME k + 1 <= n PROVE Good(k + 1)
      BY <2>0
    <2>1. k + 1 \in 1..n /\ (k + 1) - 1 = k /\ k <= n
      BY <1>7
    <2>2. f[k + 1] = collect_slot_iovec(f[k], buffers[k + 1])
      BY <1>6, <2>1 DEF IsBuilder
    <2>3. Good(k)
      BY <1>9, <2>1
    <2> DEFINE b == buffers[k + 1]
               t == Buffers[k]
    <2>4. b \in Slot /\ k \in Places /\ b.output_bytes = t /\ t \in Seq(Tokens)
      <3>1. b \in Slot
        BY <1>4, <2>1, LenProperties
      <3> QED BY <1>5, <1>7, <2>1, <3>1
    <2>5. f[k + 1] = f[k] \/ f[k + 1] = Append(f[k], b)
      BY <2>2 DEF collect_slot_iovec
    <2>6. \A v \in Places : v < k => v < k + 1 /\ v # k
      BY <1>7
    <2>7. CASE f[k + 1] = f[k]
      <3>1. F(k + 1) = F(k)
        BY <2>7
      <3> HIDE DEF F
      <3> QED BY <2>3, <2>6, <2>7, <3>1
    <2>8. CASE f[k + 1] = Append(f[k], b)
      <3> DEFINE s == F(k)
      <3>1. Append(f[k], b) \in Seq(Slot)
        BY <2>3, <2>4, AppendProperties
      <3>2. F(k + 1) = s \o t
        BY <2>3, <2>4, <2>8, BytesOfAppend, FlattenAppend
      <3>3. s \in Seq(Tokens) /\ Single(s) /\ Within(k)
        BY <2>3
      <3>4. Single(t)
        BY <2>4 DEF Distinct, Single
      <3>5. \A i \in 1..Len(s) : \A j \in 1..Len(t) : s[i] # Separator => s[i] # t[j]
        <4> SUFFICES ASSUME NEW i \in 1..Len(s), NEW j \in 1..Len(t), s[i] # Separator, s[i] = t[j]
                     PROVE  FALSE
          OBVIOUS
        <4>1. PICK v \in Places : v < k /\ \E l \in 1..Len(Buffers[v]) : s[i] = Buffers[v][l]
          BY <3>3
        <4>2. PICK l \in 1..Len(Buffers[v]) : s[i] = Buffers[v][l]
          BY <4>1
        <4>3. v = k
          BY <2>4, <4>2, Zenon DEF Distinct
        <4> QED BY <2>6, <4>1, <4>3
      <3> HIDE DEF F
      <3>6. /\ Single(s \o t) /\ s \o t \in Seq(Tokens)
            /\ \A i \in 1..Len(s \o t) : \/ \E l \in 1..Len(s) : (s \o t)[i] = s[l]
                                         \/ \E l \in 1..Len(t) : (s \o t)[i] = t[l]
        <4> HIDE DEF s, t
        <4> QED BY <2>4, <3>3, <3>4, <3>5, SingleConcat, ConcatProperties
      <3>7. k < k + 1
        OBVIOUS
      <3>8. ASSUME NEW i \in 1..Len(s \o t), (s \o t)[i] # Separator
            PROVE  \E v \in Places : /\ v < k + 1
                                     /\ \E j \in 1..Len(Buffers[v]) : (s \o t)[i] = Buffers[v][j]
        <4>1. CASE \E l \in 1..Len(s) : (s \o t)[i] = s[l]
          <5>1. PICK l \in 1..Len(s) : (s \o t)[i] = s[l] /\ s[l] # Separator
            BY <3>8, <4>1
          <5>2. PICK v \in Places : v < k /\ \E j \in 1..Len(Buffers[v]) : s[l] = Buffers[v][j]
            BY <3>3, <5>1
          <5> QED BY <2>6, <5>1, <5>2
        <4>2. CASE \E l \in 1..Len(t) : (s \o t)[i] = t[l]
          BY <2>4, <3>7, <4>2
        <4> QED BY <3>6, <4>1, <4>2
      <3> DEFINE u == s \o t
      <3>9. Within(k + 1)
        <4>1. /\ F(k + 1) = u
              /\ \A i \in 1..Len(u) : u[i] # Separator =>
                   \E v \in Places : v < k + 1 /\ \E j \in 1..Len(Buffers[v]) : u[i] = Buffers[v][j]
          BY <3>2, <3>8
        <4> HIDE DEF u
        <4> QED BY <4>1
      <3> HIDE DEF s, t, Within
      <3> QED BY <2>8, <3>1, <3>2, <3>6, <3>9
    <2> QED BY <2>5, <2>7, <2>8
  <1> HIDE DEF Holds
  <1>10. n \in Holds
    BY <1>7, <1>8, <1>9, InductionBySet
  <1>11. Single(F(n))
    BY <1>7, <1>10 DEF Holds
  <1> QED BY <1>6, <1>11 DEF Content

(* As many paths are printed as lines. *)
LEMMA PrintedCount ==
  ASSUME TypeOK, Single(fd), IsFiniteSet(Lines)
  PROVE  IsFiniteSet(Printed) /\ Cardinality(Printed) = Cardinality(Lines)
  <1> DEFINE f == [i \in Lines |-> fd[i]]
  <1>1. fd \in Seq(Tokens)
    BY DEF TypeOK, Tokens
  <1>2. \A i \in Lines : i \in 1..Len(fd) /\ fd[i] # Separator
    BY <1>1, LenProperties DEF Lines
  <1>3. f \in [Lines -> Printed]
    BY DEF Printed
  <1>4. \A i, j \in Lines : f[i] = f[j] => i = j
    BY <1>2 DEF Single
  <1>5. \A path \in Printed : \E i \in Lines : f[i] = path
    BY DEF Printed
  <1>6. f \in Bijection(Lines, Printed)
    <2> HIDE DEF f
    <2> QED BY <1>3, <1>4, <1>5 DEF Bijection, Injection, Surjection, IsInjective
  <1> HIDE DEF f
  <1> QED BY <1>6, FS_Bijection DEF ExistsBijection

(* The count is taken once, at the end, from the buffers. *)
Counted ==
  /\ pc # "done" => emitted_count = 0
  /\ pc = "done" /\ ok => emitted_count = SumOfCounts(Gathered)

(* The steps that end the walk count; the others leave the count alone,    *)
(* and none follows them.                                                  *)
LEMMA CountedKept ==
  ASSUME TypeOK, Counted, [Next]_vars
  PROVE  Counted'
  <1>0. SumOfCounts(Gathered) \in Nat
    BY ContentTokens
  <1>1. CASE SearchStep
    <2>1. Gathering /\ Gathering' /\ emitted_count' = emitted_count
      BY <1>1, SearchFrame DEF merge_vars
    <2>2. pc # "done" /\ pc' # "done"
      BY <2>1 DEF Gathering
    <2> QED BY <2>1, <2>2 DEF Counted
  <1>2. CASE Merge \/ Writev \/ Advance \/ Advanced
    <2>1. pc # "done" /\ pc' # "done" /\ emitted_count' = emitted_count
      BY <1>2 DEF Merge, Writev, Advance, Advanced, merge_vars
    <2> QED BY <2>1 DEF Counted
  <1>3. CASE SetupFails \/ FlushFails \/ WritevFails
    <2>1. pc' = "done" /\ ok' = FALSE
      BY <1>3 DEF SetupFails, FlushFails, WritevFails
    <2> QED BY <2>1 DEF Counted
  <1>4. CASE Written
    <2>1. /\ pc # "done" /\ pc' = "done" /\ UNCHANGED <<slots, main_slot>>
          /\ emitted_count' = emitted_count + SumOfCounts(Gathered)
      BY <1>4 DEF Written, CountMerged
    <2>2. Gathered' = Gathered
      BY <2>1, ContentStays
    <2>3. emitted_count' = SumOfCounts(Gathered)
      <3> DEFINE n == SumOfCounts(Gathered)
      <3>1. emitted_count' = 0 + n /\ n \in Nat
        BY <1>0, <2>1 DEF Counted
      <3> HIDE DEF n
      <3>2. emitted_count' = n
        BY <3>1
      <3> QED BY <3>2 DEF n
    <2> QED BY <2>1, <2>2, <2>3 DEF Counted
  <1>5. CASE Signal \/ Finished \/ UNCHANGED vars
    <2>1. UNCHANGED <<pc, emitted_count, ok, slots, main_slot>>
      BY <1>5 DEF Signal, Finished, vars, merge_vars
    <2>2. Gathered' = Gathered
      BY <2>1, ContentStays
    <2> QED BY <2>1, <2>2 DEF Counted
  <1> QED BY <1>1, <1>2, <1>3, <1>4, <1>5 DEF Next, MainStep, SearchStep

(* The walk starts with empty buffers and an idle pool. *)
LEMMA OnceInit ==
  ASSUME Init
  PROVE  OnceInv
  <1>1. /\ queue = {} /\ \A w \in Workers : job[w] = None
        /\ main_slot.output_bytes = <<>> /\ \A w \in Workers : slots[w].output_bytes = <<>>
    BY DEF Init, EmptySlot
  <1>2. \A v \in Places : v = 0 \/ v \in Workers
    BY WalkParallelAssumption DEF Places, Workers
  <1>3. \A v \in Places : Buffers[v] = <<>>
    BY <1>1, <1>2 DEF Buffers
  <1>4. \A v \in Places : \A i \in 1..Len(Buffers[v]) : FALSE
    <2>1. Len(<<>>) = 0 /\ \A i \in 1..0 : FALSE
      OBVIOUS
    <2> QED BY <1>3, <2>1
  <1>5. Distinct(Buffers) /\ \A path : ~Held(path)
    BY <1>4 DEF Distinct, Held
  <1>6. \A path : ~Pending(path)
    BY <1>1 DEF Pending
  <1> QED BY <1>1, <1>5, <1>6 DEF OnceInv

(* A directory that the walk may read: the path to it is linked, and it    *)
(* leads somewhere.                                                        *)
LinkedDirectory(cfg, path) ==
  Linked(cfg, path) /\ NodeOf(path[Len(path)], cfg.follow_symlinks) \in Inodes

(* The paths in the pool and in the buffers are linked, on every device    *)
(* and whatever the entries are taken for.                                 *)
LinkedPool ==
  /\ \A path \in queue : LinkedDirectory(config, path)
  /\ \A w \in Workers : job[w] # None =>
       /\ LinkedDirectory(config, job[w].path)
       /\ \A d \in job[w].todo :
            HolderOf[d] = NodeOf(job[w].path[Len(job[w].path)], config.follow_symlinks)

LinkedTokens == {path \in Seq(Dirents) : Linked(config, path)} \cup {Separator}

LinkedBuffers ==
  /\ main_slot.output_bytes \in Seq(LinkedTokens)
  /\ \A w \in Workers : slots[w].output_bytes \in Seq(LinkedTokens)

(* So is the path of an entry of a directory that is read. *)
LEMMA ChildLinked ==
  ASSUME NEW cfg, NEW path, LinkedDirectory(cfg, path), NEW d \in Dirents,
         HolderOf[d] = NodeOf(path[Len(path)], cfg.follow_symlinks)
  PROVE  LET child == Append(path, d)
         IN Linked(cfg, child) /\ child[Len(child)] = d
  <1> DEFINE child == Append(path, d)
             n == Len(path)
  <1>1. /\ path \in Seq(Dirents) /\ path # <<>>
        /\ \E i \in DOMAIN Roots(cfg) : path[1] = Roots(cfg)[i]
        /\ \A k \in 2..n : /\ HolderOf[path[k]] = NodeOf(path[k - 1], cfg.follow_symlinks)
                           /\ HolderOf[path[k]] \in Inodes
        /\ HolderOf[d] \in Inodes
    BY DEF LinkedDirectory, Linked
  <1>2. n \in Nat /\ n >= 1
    BY <1>1, NonEmptyLength
  <1>3. /\ child \in Seq(Dirents) /\ Len(child) = n + 1 /\ child[n + 1] = d
        /\ \A k \in 1..n : child[k] = path[k]
    BY <1>1, AppendProperties
  <1>4. child # <<>>
    BY <1>2, <1>3, EmptySeq
  <1>5. child[1] = path[1] /\ child[n] = path[n]
    BY <1>2, <1>3
  <1> HIDE DEF child, n
  <1>6. ASSUME NEW k \in 2..(n + 1)
        PROVE  /\ HolderOf[child[k]] = NodeOf(child[k - 1], cfg.follow_symlinks)
               /\ HolderOf[child[k]] \in Inodes
    <2>1. CASE k \in 2..n
      <3>1. k \in 1..n /\ k - 1 \in 1..n
        BY <1>2, <2>1
      <3> QED BY <1>1, <1>3, <2>1, <3>1
    <2>2. CASE k = n + 1
      <3>1. k - 1 = n
        BY <1>2, <2>2
      <3> QED BY <1>1, <1>3, <1>5, <2>2, <3>1 DEF n
    <2> QED BY <1>2, <2>1, <2>2
  <1>7. Linked(cfg, child)
    BY <1>1, <1>3, <1>4, <1>5, <1>6 DEF Linked
  <1> QED BY <1>3, <1>7 DEF child

(* An argument is linked by itself. *)
LEMMA RootLinked ==
  ASSUME TypeOK, RootsLeft
  PROVE  Linked(config, <<Root>>)
  <1>1. /\ root_index \in DOMAIN Roots(config) /\ Root = Roots(config)[root_index]
        /\ <<Root>> \in Seq(Dirents)
    BY RootFacts
  <1>2. <<Root>> # <<>> /\ <<Root>>[1] = Root /\ \A k \in 2..Len(<<Root>>) : FALSE
    OBVIOUS
  <1> QED BY <1>1, <1>2 DEF Linked

(* Every step keeps the pool to linked paths. *)
LEMMA LinkedPoolKept ==
  ASSUME TypeOK, LinkedPool, [Next]_vars
  PROVE  LinkedPool'
  <1>1. config' = config /\ config \in Configs /\ config.follow_symlinks \in BOOLEAN
    BY DeviceMoves, SearchFacts DEF TypeOK
  <1>2. ASSUME NEW path \in queue' PROVE LinkedDirectory(config, path)
    <2>1. CASE path \in queue
      BY <2>1 DEF LinkedPool
    <2>2. CASE HandleRoot /\ RootIsWalked /\ path = <<Root>>
      <3>1. RootsLeft /\ RootStat # NoMeta
        BY <2>2 DEF HandleRoot
      <3>2. Linked(config, <<Root>>)
        BY <3>1, RootLinked
      <3>3. NodeOf(Root, config.follow_symlinks) \in Inodes
        BY <1>1, <3>1, RootFacts, StatFacts DEF RootStat
      <3>4. <<Root>>[Len(<<Root>>)] = Root
        OBVIOUS
      <3> QED BY <2>2, <3>2, <3>3, <3>4 DEF LinkedDirectory
    <2>3. ASSUME NEW w \in Workers, NEW d \in Dirents,
                 job[w] # None, d \in job[w].todo, path = Append(job[w].path, d),
                 IsDirectory(config, d)
          PROVE  LinkedDirectory(config, path)
      <3>1. /\ LinkedDirectory(config, job[w].path)
            /\ HolderOf[d] = NodeOf(job[w].path[Len(job[w].path)], config.follow_symlinks)
        BY <2>3 DEF LinkedPool
      <3>2. Linked(config, path) /\ path[Len(path)] = d
        BY <2>3, <3>1, ChildLinked
      <3>3. NodeOf(d, config.follow_symlinks) \in Inodes
        BY <1>1, <2>3, StatFacts DEF IsDirectory
      <3> QED BY <3>2, <3>3 DEF LinkedDirectory
    <2> QED BY <2>1, <2>2, <2>3, PoolMoves
  <1>3. ASSUME NEW w \in Workers, job'[w] # None
        PROVE  /\ LinkedDirectory(config, job'[w].path)
               /\ \A d \in job'[w].todo :
                    HolderOf[d] = NodeOf(job'[w].path[Len(job'[w].path)], config.follow_symlinks)
    <2>1. CASE \E path \in queue : job'[w] = [path |-> path, todo |-> Listed(path)]
      <3>1. PICK path \in queue : job'[w] = [path |-> path, todo |-> Listed(path)]
        BY <2>1
      <3>2. job'[w].path = path /\ job'[w].todo = Listed(path)
        BY <3>1
      <3>3. \A d \in Listed(path) : HolderOf[d] = NodeOf(path[Len(path)], config.follow_symlinks)
        BY DEF Listed, EntriesOf
      <3> QED BY <3>2, <3>3 DEF LinkedPool
    <2>2. CASE job[w] # None /\ job'[w].path = job[w].path /\ job'[w].todo \subseteq job[w].todo
      BY <2>2 DEF LinkedPool
    <2> QED BY <1>3, <2>1, <2>2, PoolMoves
  <1> QED BY <1>1, <1>2, <1>3 DEF LinkedPool

(* Every step keeps the buffers to linked paths. *)
LEMMA LinkedKept ==
  ASSUME TypeOK, LinkedPool, LinkedBuffers, [Next]_vars
  PROVE  LinkedBuffers'
  <1> DEFINE T == LinkedTokens
             SlotOf == [initialized : BOOLEAN, output_bytes : Seq(T), emitted_count : Nat]
  <1>1. config' = config
    BY DeviceMoves
  <1>2. Separator \in T /\ \A path \in Seq(Dirents) : Linked(config, path) => path \in T
    BY DEF LinkedTokens
  <1>3. main_slot \in SlotOf /\ \A w \in Workers : slots[w] \in SlotOf
    BY DEF TypeOK, Slot, LinkedBuffers
  <1> HIDE DEF T
  <1>4. main_slot'.output_bytes \in Seq(T)
    <2>1. CASE main_slot' = main_slot
      BY <1>3, <2>1
    <2>2. CASE RootAppended
      <3>1. PICK r \in append_match(main_slot.output_bytes, <<Root>>) : main_slot' = Keep(main_slot, r)
        BY <2>2 DEF RootAppended
      <3>2. <<Root>> \in T
        BY <1>2, <2>2, RootLinked, RootFacts DEF RootAppended
      <3>3. Keep(main_slot, r) \in SlotOf
        BY <1>2, <1>3, <3>1, <3>2, KeepType
      <3> QED BY <3>1, <3>3
    <2> QED BY <2>1, <2>2, SlotMoves
  <1>5. ASSUME NEW w \in Workers PROVE slots'[w].output_bytes \in Seq(T)
    <2> DEFINE slot == [slots[w] EXCEPT !.initialized = TRUE]
    <2>1. slot \in SlotOf /\ slot.output_bytes = slots[w].output_bytes
      BY <1>3
    <2>2. CASE EntryAppended(w)
      <3>1. PICK d \in job[w].todo :
              /\ job[w] # None
              /\ \E r \in append_match(slots[w].output_bytes, Append(job[w].path, d)) :
                   slots'[w] = Keep(slot, r)
        BY <2>2 DEF EntryAppended
      <3>2. Append(job[w].path, d) \in T
        <4>1. job[w] \in [path : Seq(Dirents), todo : SUBSET Dirents]
          BY <3>1 DEF TypeOK
        <4>2. d \in Dirents
          BY <3>1, <4>1
        <4>3. Linked(config, Append(job[w].path, d))
          BY <3>1, <4>2, ChildLinked DEF LinkedPool
        <4> QED BY <1>2, <4>3 DEF Linked
      <3> HIDE DEF slot
      <3>3. slots'[w] \in SlotOf
        BY <1>2, <2>1, <3>1, <3>2, KeepType
      <3> QED BY <3>3
    <2> HIDE DEF slot
    <2>3. slots'[w] = slots[w] \/ slots'[w] = slot \/ EntryAppended(w)
      BY SlotMoves DEF slot
    <2> QED BY <1>3, <2>1, <2>2, <2>3
  <1> QED BY <1>1, <1>4, <1>5 DEF LinkedBuffers, LinkedTokens, T

(* What is written comes from the buffers. *)
LEMMA LinkedOutput ==
  ASSUME TypeOK, fd = Content, LinkedBuffers
  PROVE  \A path \in Printed : Linked(config, path)
  <1>1. Content \in Seq(LinkedTokens)
    BY ContentType DEF LinkedBuffers
  <1>2. \A i \in DOMAIN fd : fd[i] \in LinkedTokens
    BY <1>1, LenProperties
  <1>3. \A i \in Lines : fd[i] \in LinkedTokens /\ fd[i] # Separator
    BY <1>2 DEF Lines
  <1>4. \A i \in Lines : Linked(config, fd[i])
    BY <1>3 DEF LinkedTokens
  <1> QED BY <1>4 DEF Printed

(* When the walk ends well, the emitted count is the number of lines on    *)
(* the output, and if no argument lies under another or is repeated no     *)
(* two lines have the same text: no two workers read one directory, and no *)
(* buffer is counted and not written.  The push of a separator must not    *)
(* fail, or a match that was not counted stands in the buffer.             *)
THEOREM CountsAreRight == "push" \notin Faults => (Spec => []CountsMatch)
  <1> SUFFICES ASSUME "push" \notin Faults PROVE Spec => []CountsMatch
    OBVIOUS
  <1> DEFINE Once == RootsApart(config) => OnceInv
             CInv == LineBuffers /\ Counted /\ Once /\ LinkedPool /\ LinkedBuffers
  <1>1. Init => CInv
    <2> SUFFICES ASSUME Init PROVE CInv
      OBVIOUS
    <2>1. EmptySlot \in LineSlot /\ [EmptySlot EXCEPT !.initialized = TRUE] \in LineSlot
      <3>1. <<>> \in Whole /\ <<>> \in Seq(Tokens) /\ Len(<<>>) = 2 * 0
        BY EmptySeq, Parity DEF Whole
      <3> QED BY <3>1 DEF EmptySlot, LineSlot, Slot, Tokens
    <2>2. LineBuffers /\ Counted
      BY <2>1 DEF Init, LineBuffers, Counted
    <2>3. LinkedPool
      BY DEF Init, LinkedPool
    <2>4. LinkedBuffers
      BY EmptySeq DEF Init, EmptySlot, LinkedBuffers
    <2> QED BY <2>2, <2>3, <2>4, OnceInit
  <1>2. PInv /\ PInv' /\ CInv /\ [Next]_vars => CInv'
    <2> SUFFICES ASSUME PInv, PInv', CInv, [Next]_vars PROVE CInv'
      OBVIOUS
    <2>1. TypeOK /\ TypeOK' /\ config' = config
      BY DeviceMoves DEF PInv
    <2>2. RootsApart(config') = RootsApart(config)
      BY <2>1
    <2>3. LineBuffers' /\ Counted'
      BY <2>1, LinesKept, CountedKept
    <2>4. RootsApart(config) => OnceInv'
      BY <2>1, OnceKept
    <2>5. LinkedPool' /\ LinkedBuffers'
      BY <2>1, LinkedPoolKept, LinkedKept
    <2> QED BY <2>2, <2>3, <2>4, <2>5
  <1>3. PInv /\ CInv => CountsMatch
    <2> SUFFICES ASSUME PInv, CInv, pc = "done", ok
                 PROVE  /\ emitted_count = Cardinality(Lines)
                        /\ RootsApart(config) =>
                             emitted_count = Cardinality({PrintedAs(path) : path \in Printed})
      BY DEF CountsMatch
    <2>1. TypeOK /\ fd = Content /\ emitted_count = SumOfCounts(Gathered)
      BY DEF PInv, Merging, Counted
    <2>2. IsFiniteSet(Lines) /\ Cardinality(Lines) = emitted_count
      BY <2>1, LineCount
    <2>3. ASSUME RootsApart(config)
          PROVE  emitted_count = Cardinality({PrintedAs(path) : path \in Printed})
      <3>1. Single(Content)
        BY <2>1, <2>3, ContentSingle DEF OnceInv
      <3>2. IsFiniteSet(Printed) /\ Cardinality(Printed) = Cardinality(Lines)
        BY <2>1, <2>2, <3>1, PrintedCount
      <3>3. \A path \in Printed : Linked(config, path)
        BY <2>1, LinkedOutput
      <3>4. config \in Configs
        BY <2>1 DEF TypeOK
      <3>5. Cardinality({PrintedAs(path) : path \in Printed}) = Cardinality(Printed)
        BY <2>3, <3>2, <3>3, <3>4, LinesCounted
      <3> QED BY <2>2, <3>2, <3>5
    <2> QED BY <2>2, <2>3
  <1> HIDE DEF CInv
  <1> QED BY <1>1, <1>2, <1>3, ParallelInductive, PTL DEF Spec
=============================================================================
