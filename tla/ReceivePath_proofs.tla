-------------------------- MODULE ReceivePath_proofs --------------------------
(***************************************************************************)
(* The chain of a BANetworkBuffer is one tape: unit i holds the positions   *)
(* Base(i) + 1 to Base(i) + Capacity, units before _cur_write are full and  *)
(* those behind it empty, so that the bytes to be read are the positions    *)
(* from _head of the first unit on, _size of them, without a gap (OneTape). *)
(* What UpdateRecv, Read, GetRecvWsaBuf and the kernel do is said of the    *)
(* tape first, one lemma each: UpdateRecvIs, ReadIs, GrownIs, LandedIs.     *)
(*                                                                         *)
(* RecvInv adds what is on the tape: the bytes of the stream from Taken,    *)
(* the end of the last message delivered, to arrived (StreamIs), how much   *)
(* room a posted receive has (ChainIs, PostedIs) and that no message is     *)
(* complete while the receiver waits (PostedIs).  It is inductive, and the  *)
(* theorems at the end follow from it.                                      *)
(***************************************************************************)
EXTENDS ReceivePath, SetInduction, SequenceTheorems

----------------------------------------------------------------------------
(* Sums and sequences of sequences.  An offset function says how much lies  *)
(* before each index; the recursive functions of the model agree with it.   *)

\* off[i] is the sum of the first i - 1 of len.
Offsets(off, len, n) ==
    /\ off \in [1 .. n + 1 -> Nat]
    /\ off[1] = 0
    /\ \A i \in 1 .. n : len[i] \in Nat /\ off[i + 1] = off[i] + len[i]

\* Offsets grow.
LEMMA OffsetsGrow ==
    ASSUME NEW n \in Nat, NEW len, NEW off, Offsets(off, len, n)
    PROVE  \A j \in 1 .. n + 1 : \A i \in 1 .. j : off[i] <= off[j]
  <1> DEFINE S == {j \in 1 .. n + 1 : \A i \in 1 .. j : off[i] <= off[j]}
  <1>1. 1 \in S
    BY DEF Offsets
  <1>2. \A j \in 1 .. n + 1 : j \in S /\ j < n + 1 => j + 1 \in S
    <2> SUFFICES ASSUME NEW j \in 1 .. n, j \in S,
                        NEW i \in 1 .. j + 1
                 PROVE  off[i] <= off[j + 1]
      OBVIOUS
    <2>1. off[j + 1] = off[j] + len[j] /\ off[j] \in Nat /\ off[j + 1] \in Nat
          /\ len[j] \in Nat
      BY DEF Offsets
    <2>2. CASE i = j + 1
      BY <2>1, <2>2
    <2>3. CASE i \in 1 .. j
      <3>1. off[i] <= off[j] /\ off[i] \in Nat
        BY <2>3 DEF Offsets
      <3> QED
        BY <3>1, <2>1
    <2> QED
      BY <2>2, <2>3
  <1> HIDE DEF S
  <1>3. 1 .. n + 1 \subseteq S
    BY <1>1, <1>2, IndexInduction
  <1> QED
    BY <1>3 DEF S

\* What FlattenSeq's recursive function is to satisfy.
IsFlatten(f, s, n) ==
    f = [i \in 1 .. n |-> IF i = 1 THEN s[i] ELSE f[i - 1] \o s[i]]

LEMMA FlattenExists ==
    ASSUME NEW s, NEW n \in Nat
    PROVE  \E f : IsFlatten(f, s, n)
  <1> DEFINE S == {k \in Nat : \E f : IsFlatten(f, s, k)}
  <1>1. 0 \in S
    <2>1. IsFlatten([i \in 1 .. 0 |-> s], s, 0)
      BY DEF IsFlatten
    <2> QED
      BY <2>1
  <1>2. ASSUME NEW k \in Nat, k \in S PROVE k + 1 \in S
    <2>1. PICK f : IsFlatten(f, s, k)
      BY <1>2
    <2> DEFINE g == [i \in 1 .. k + 1 |-> IF i = 1 THEN s[i] ELSE f[i - 1] \o s[i]]
    <2>2. \A i \in 1 .. k + 1 : i # 1 => g[i - 1] = f[i - 1]
      <3>1. \A i \in 1 .. k : f[i] = IF i = 1 THEN s[i] ELSE f[i - 1] \o s[i]
        BY <2>1, Zenon DEF IsFlatten
      <3>2. \A i \in 1 .. k : g[i] = f[i]
        BY <3>1
      <3> HIDE DEF g
      <3> QED
        BY <3>2
    <2>3. g = [i \in 1 .. k + 1 |-> IF i = 1 THEN s[i] ELSE f[i - 1] \o s[i]]
      OBVIOUS
    <2> HIDE DEF g
    <2>4. IsFlatten(g, s, k + 1)
      BY <2>2, <2>3 DEF IsFlatten
    <2> QED
      BY <2>4
  <1> HIDE DEF S
  <1>3. Nat \subseteq S
    BY <1>1, <1>2, NatSetInduction
  <1> QED
    BY <1>3 DEF S

LEMMA FlattenDef ==
    ASSUME NEW s, Len(s) \in Nat \ {0}
    PROVE  \E f : IsFlatten(f, s, Len(s)) /\ FlattenSeq(s) = f[Len(s)]
  <1> DEFINE f == CHOOSE f : IsFlatten(f, s, Len(s))
  <1>1. FlattenSeq(s) = f[Len(s)]
    BY DEF FlattenSeq, IsFlatten
  <1>2. IsFlatten(f, s, Len(s))
    BY FlattenExists
  <1> QED
    BY <1>1, <1>2

\* The n sequences of s have the lengths len.
ArePieces(s, len, n, S) ==
    \A i \in 1 .. n : s[i] \in Seq(S) /\ Len(s[i]) = len[i]

\* f is those sequences one after the other.
IsFlat(f, s, off, len, n, S) ==
    /\ f \in Seq(S)
    /\ Len(f) = off[n + 1]
    /\ \A i \in 1 .. n : \A k \in 1 .. len[i] : f[off[i] + k] = s[i][k]
    /\ \A k \in 1 .. off[n + 1] :
         \E i \in 1 .. n : \E j \in 1 .. len[i] : k = off[i] + j

\* The elements of FlattenSeq(s), and where they come from.
LEMMA FlattenElements ==
    ASSUME NEW S, NEW n \in Nat, n > 0, NEW s, Len(s) = n,
           NEW off, NEW len, Offsets(off, len, n), ArePieces(s, len, n, S)
    PROVE  IsFlat(FlattenSeq(s), s, off, len, n, S)
  <1>0. \A i \in 1 .. n : s[i] \in Seq(S) /\ Len(s[i]) = len[i]
    BY DEF ArePieces
  <1>1. PICK f : IsFlatten(f, s, n) /\ FlattenSeq(s) = f[n]
    BY FlattenDef
  <1>2. \A i \in 1 .. n : f[i] = IF i = 1 THEN s[i] ELSE f[i - 1] \o s[i]
    BY <1>1, Zenon DEF IsFlatten
  <1>3. /\ off \in [1 .. n + 1 -> Nat] /\ off[1] = 0
        /\ \A i \in 1 .. n : len[i] \in Nat /\ off[i + 1] = off[i] + len[i]
    BY DEF Offsets
  <1> DEFINE Flat(i) ==
        /\ f[i] \in Seq(S) /\ Len(f[i]) = off[i + 1]
        /\ \A j \in 1 .. i : \A k \in 1 .. len[j] : f[i][off[j] + k] = s[j][k]
        /\ \A k \in 1 .. off[i + 1] :
             \E j \in 1 .. i : \E m \in 1 .. len[j] : k = off[j] + m
      I == {i \in 1 .. n : Flat(i)}
  <1>4. 1 \in I
    <2>1. f[1] = s[1]
      BY <1>2
    <2>2. off[1 + 1] = len[1]
      BY <1>3
    <2> QED
      BY <2>1, <2>2, <1>0, <1>3
  <1>5. ASSUME NEW i \in 1 .. n, i \in I, i < n PROVE i + 1 \in I
    <2>0. PICK j \in 1 .. n : j = i + 1 /\ j # 1 /\ j - 1 = i
      BY <1>5
    <2>1. f[j] = f[i] \o s[j]
      BY <1>2, <2>0, Zenon
    <2>2. f[i] \in Seq(S) /\ s[j] \in Seq(S) /\ Len(f[i]) = off[j] /\ Len(s[j]) = len[j]
      BY <1>0, <1>5, <2>0
    <2>3. off[j] \in Nat /\ off[j + 1] = off[j] + len[j] /\ len[j] \in Nat
      BY <1>3
    <2>a. PICK a \in Seq(S), b \in Seq(S), p \in Nat, q \in Nat :
            a = f[i] /\ b = s[j] /\ p = off[j] /\ q = len[j]
      BY <2>2, <2>3
    <2>b. Len(a) = p /\ Len(b) = q /\ off[j + 1] = p + q
      BY <2>2, <2>3, <2>a
    <2>c. /\ a \o b \in Seq(S)
          /\ Len(a \o b) = p + q
          /\ \A k \in 1 .. p + q : (a \o b)[k] = IF k <= p THEN a[k] ELSE b[k - p]
      BY <2>b
    <2>d. f[j] = a \o b
      BY <2>1, <2>a
    <2>4. f[j] \in Seq(S) /\ Len(f[j]) = off[j + 1]
      BY <2>b, <2>c, <2>d
    <2>5. \A k \in 1 .. p + q : f[j][k] = IF k <= p THEN a[k] ELSE b[k - p]
      BY <2>c, <2>d
    <2>6. ASSUME NEW h \in 1 .. j, NEW k \in 1 .. len[h]
          PROVE  f[j][off[h] + k] = s[h][k]
      <3>1. CASE h = j
        <4>1. p + k \in 1 .. p + q /\ ~ (p + k <= p) /\ p + k - p = k
          BY <2>a, <3>1
        <4>2. f[j][p + k] = b[k]
          BY <2>5, <4>1
        <4> QED
          BY <4>2, <2>a, <3>1
      <3>2. CASE h \in 1 .. i
        <4>1. a[off[h] + k] = s[h][k]
          BY <1>5, <3>2, <2>a
        <4>2. off[h + 1] <= p
          BY <2>0, <2>a, <3>2, OffsetsGrow
        <4>a. h \in 1 .. n /\ h \in 1 .. n + 1
          BY <3>2
        <4>b. off[h] \in Nat /\ len[h] \in Nat /\ off[h + 1] = off[h] + len[h]
          BY <1>3, <4>a
        <4>3. PICK u \in Nat, l \in Nat :
                u = off[h] /\ l = len[h] /\ off[h + 1] = u + l
          BY <4>b
        <4>4. u + k \in 1 .. p /\ u + k \in 1 .. p + q
          <5>1. k \in 1 .. l /\ u + l <= p
            BY <4>2, <4>3
          <5> QED
            BY <5>1
        <4>5. f[j][u + k] = a[u + k]
          BY <4>4, <2>5
        <4> QED
          BY <4>1, <4>3, <4>5
      <3> QED
        BY <3>1, <3>2, <2>0
    <2>7. ASSUME NEW k \in 1 .. off[j + 1]
          PROVE  \E h \in 1 .. j : \E m \in 1 .. len[h] : k = off[h] + m
      <3>0. k \in 1 .. p + q
        BY <2>b
      <3>1. CASE k <= p
        <4>1. k \in 1 .. off[i + 1]
          BY <3>0, <3>1, <2>0, <2>a
        <4>2. PICK h \in 1 .. i : \E m \in 1 .. len[h] : k = off[h] + m
          BY <1>5, <4>1
        <4> QED
          BY <4>2, <2>0
      <3>2. CASE k > p
        <4>1. k - p \in 1 .. q /\ k = p + (k - p)
          BY <3>0, <3>2
        <4> QED
          BY <4>1, <2>a
      <3> QED
        BY <3>0, <3>1, <3>2
    <2>8. Flat(j)
      BY <2>4, <2>6, <2>7
    <2> QED
      BY <2>8, <2>0
  <1>6. n \in I
    <2> HIDE DEF I
    <2>1. 1 .. n \subseteq I
      BY <1>4, <1>5, IndexInduction
    <2> QED
      BY <2>1
  <1>7. Flat(n)
    BY <1>6
  <1> HIDE DEF Flat
  <1> QED
    BY <1>1, <1>7, Zenon DEF Flat, IsFlat

----------------------------------------------------------------------------
(* The loops over the chain *)

\* What Remaining's recursive function is to satisfy.
IsRemaining(r, room, x, n) ==
    r = [i \in 1 .. n |-> IF i = 1 THEN x ELSE r[i - 1] - room[i - 1]]

LEMMA RemainingExists ==
    ASSUME NEW room, NEW x, NEW n \in Nat
    PROVE  \E r : IsRemaining(r, room, x, n)
  <1> DEFINE S == {k \in Nat : \E r : IsRemaining(r, room, x, k)}
  <1>1. 0 \in S
    <2>1. IsRemaining([i \in 1 .. 0 |-> x], room, x, 0)
      BY DEF IsRemaining
    <2> QED
      BY <2>1
  <1>2. ASSUME NEW k \in Nat, k \in S PROVE k + 1 \in S
    <2>1. PICK r : IsRemaining(r, room, x, k)
      BY <1>2
    <2> DEFINE q == [i \in 1 .. k + 1 |-> IF i = 1 THEN x ELSE r[i - 1] - room[i - 1]]
    <2>2. \A i \in 1 .. k + 1 : i # 1 => q[i - 1] = r[i - 1]
      BY <2>1 DEF IsRemaining
    <2>3. q = [i \in 1 .. k + 1 |-> IF i = 1 THEN x ELSE r[i - 1] - room[i - 1]]
      OBVIOUS
    <2> HIDE DEF q
    <2>4. IsRemaining(q, room, x, k + 1)
      BY <2>2, <2>3 DEF IsRemaining
    <2> QED
      BY <2>4
  <1> HIDE DEF S
  <1>3. Nat \subseteq S
    BY <1>1, <1>2, NatSetInduction
  <1> QED
    BY <1>3 DEF S

\* What remains of x at a unit is what the units before it leave.
LEMMA RemainingIs ==
    ASSUME NEW n \in Nat, NEW room, Len(room) = n, NEW off, Offsets(off, room, n),
           NEW x \in Nat
    PROVE  \A i \in 1 .. n : Remaining(room, x)[i] = x - off[i]
  <1> DEFINE r == Remaining(room, x)
  <1>1. IsRemaining(r, room, x, n)
    <2>1. \E q : IsRemaining(q, room, x, n)
      BY RemainingExists
    <2>2. Remaining(room, x) = CHOOSE q : IsRemaining(q, room, x, n)
      BY DEF Remaining, IsRemaining
    <2> QED
      BY <2>1, <2>2
  <1> HIDE DEF r
  <1>2. \A i \in 1 .. n : r[i] = IF i = 1 THEN x ELSE r[i - 1] - room[i - 1]
    BY <1>1, Zenon DEF IsRemaining
  <1>3. /\ off \in [1 .. n + 1 -> Nat] /\ off[1] = 0
        /\ \A i \in 1 .. n : room[i] \in Nat /\ off[i + 1] = off[i] + room[i]
    BY DEF Offsets
  <1> DEFINE S == {i \in 1 .. n : r[i] = x - off[i]}
  <1>4. n > 0 => 1 \in S
    BY <1>2, <1>3
  <1>5. ASSUME NEW i \in 1 .. n, i \in S, i < n PROVE i + 1 \in S
    <2>1. PICK j \in 1 .. n : j = i + 1 /\ j # 1 /\ j - 1 = i
      BY <1>5
    <2>2. r[j] = IF j = 1 THEN x ELSE r[j - 1] - room[j - 1]
      BY <1>2, Zenon
    <2>a. off[i] \in Nat /\ room[i] \in Nat /\ off[i + 1] = off[i] + room[i]
      BY <1>3
    <2>3. PICK u \in Nat, l \in Nat : u = off[i] /\ l = room[i] /\ off[j] = u + l
      BY <2>a, <2>1
    <2>4. r[j - 1] = x - u /\ room[j - 1] = l
      BY <1>5, <2>1, <2>3
    <2>5. r[j] = x - off[j]
      BY <2>1, <2>2, <2>3, <2>4
    <2> QED
      BY <2>1, <2>5
  <1> HIDE DEF S
  <1>6. 1 .. n \subseteq S
    BY <1>4, <1>5, IndexInduction
  <1> QED
    BY <1>6 DEF S, r

\* The loop ends at the first unit up to whose end there is room for x.
LEMMA EndOfIs ==
    ASSUME NEW n \in Nat, n > 0, NEW room, Len(room) = n,
           NEW off, Offsets(off, room, n),
           NEW x \in Nat, x <= off[n + 1]
    PROVE  /\ Ends(room, x) # {}
           /\ EndOf(room, x) \in 1 .. n
           /\ x <= off[EndOf(room, x) + 1]
           /\ EndOf(room, x) # 1 => off[EndOf(room, x)] < x
           /\ Remaining(room, x)[EndOf(room, x)] = x - off[EndOf(room, x)]
  <1>1. \A i \in 1 .. n : Remaining(room, x)[i] = x - off[i]
    BY RemainingIs
  <1>2. /\ off \in [1 .. n + 1 -> Nat] /\ off[1] = 0
        /\ \A i \in 1 .. n : room[i] \in Nat /\ off[i + 1] = off[i] + room[i]
    BY DEF Offsets
  <1>3. Ends(room, x) = {i \in 1 .. n : x <= off[i + 1]}
    <2>1. ASSUME NEW i \in 1 .. n
          PROVE  Remaining(room, x)[i] <= room[i] <=> x <= off[i + 1]
      <3>1. PICK u \in Nat, l \in Nat : u = off[i] /\ l = room[i] /\ off[i + 1] = u + l
        BY <1>2
      <3>2. Remaining(room, x)[i] = x - u
        BY <1>1, <3>1
      <3> QED
        BY <3>1, <3>2
    <2> QED
      BY <2>1 DEF Ends
  <1> DEFINE E == Ends(room, x)
  <1>4. n \in E /\ E \subseteq Nat
    BY <1>3
  <1>5. \E i \in E : \A j \in E : i <= j
    <2> HIDE DEF E
    <2> QED
      BY <1>4, LeastNat
  <1>6. PICK e : e = EndOf(room, x) /\ e \in E /\ \A j \in E : e <= j
    BY <1>5 DEF EndOf
  <1>7. e \in 1 .. n /\ x <= off[e + 1]
    BY <1>3, <1>6
  <1>8. e # 1 => off[e] < x
    <2>1. ASSUME e # 1 PROVE off[e] < x
      <3>1. PICK d \in 1 .. n : d = e - 1 /\ d + 1 = e
        BY <1>7, <2>1
      <3>2. d \notin E
        BY <1>6, <3>1
      <3>3. ~ (x <= off[e])
        BY <1>3, <3>1, <3>2
      <3>4. off[e] \in Nat
        BY <1>2, <1>7
      <3> QED
        BY <3>3, <3>4
    <2> QED
      BY <2>1
  <1> QED
    BY <1>1, <1>4, <1>6, <1>7, <1>8

----------------------------------------------------------------------------
(* The stream *)

\* What Before's recursive function is to satisfy.
IsBefore(b, s, m) ==
    b = [i \in 1 .. m |-> IF i = 1 THEN 0 ELSE b[i - 1] + s[i - 1]]

LEMMA BeforeExists ==
    ASSUME NEW s, NEW m \in Nat
    PROVE  \E b : IsBefore(b, s, m)
  <1> DEFINE S == {k \in Nat : \E b : IsBefore(b, s, k)}
  <1>1. 0 \in S
    <2>1. IsBefore([i \in 1 .. 0 |-> 0], s, 0)
      BY DEF IsBefore
    <2> QED
      BY <2>1
  <1>2. ASSUME NEW k \in Nat, k \in S PROVE k + 1 \in S
    <2>1. PICK b : IsBefore(b, s, k)
      BY <1>2
    <2> DEFINE c == [i \in 1 .. k + 1 |-> IF i = 1 THEN 0 ELSE b[i - 1] + s[i - 1]]
    <2>2. \A i \in 1 .. k + 1 : i # 1 => c[i - 1] = b[i - 1]
      BY <2>1 DEF IsBefore
    <2>3. c = [i \in 1 .. k + 1 |-> IF i = 1 THEN 0 ELSE b[i - 1] + s[i - 1]]
      OBVIOUS
    <2> HIDE DEF c
    <2>4. IsBefore(c, s, k + 1)
      BY <2>2, <2>3 DEF IsBefore
    <2> QED
      BY <2>4
  <1> HIDE DEF S
  <1>3. Nat \subseteq S
    BY <1>1, <1>2, NatSetInduction
  <1> QED
    BY <1>3 DEF S

LEMMA BeforeDef ==
    ASSUME NEW s, NEW m \in Nat
    PROVE  \E b : IsBefore(b, s, m) /\ Stream!Before(s, m) = b[m]
  <1> DEFINE b == CHOOSE b : IsBefore(b, s, m)
  <1>1. Stream!Before(s, m) = b[m]
    BY DEF Stream!Before, IsBefore
  <1>2. IsBefore(b, s, m)
    BY BeforeExists
  <1> QED
    BY <1>1, <1>2

\* s and t begin with the same m - 1 sizes.
SameBefore(s, t, m) == \A i \in 1 .. m : i < m => s[i] \in Nat /\ t[i] = s[i]

\* Only the first messages count.
LEMMA BeforeAgree ==
    ASSUME NEW s, NEW t, NEW m \in Nat, NEW n \in Nat, m <= n,
           SameBefore(s, t, m),
           NEW b, IsBefore(b, s, m), NEW c, IsBefore(c, t, n)
    PROVE  \A i \in 1 .. m : b[i] \in Nat /\ c[i] = b[i]
  <1>1. \A i \in 1 .. m : b[i] = IF i = 1 THEN 0 ELSE b[i - 1] + s[i - 1]
    BY Zenon DEF IsBefore
  <1>2. \A i \in 1 .. n : c[i] = IF i = 1 THEN 0 ELSE c[i - 1] + t[i - 1]
    BY Zenon DEF IsBefore
  <1> DEFINE S == {i \in 1 .. m : b[i] \in Nat /\ c[i] = b[i]}
  <1>3. m > 0 => 1 \in S
    BY <1>1, <1>2
  <1>4. ASSUME NEW i \in 1 .. m, i \in S, i < m PROVE i + 1 \in S
    <2>1. PICK j \in 1 .. m : j = i + 1 /\ j # 1 /\ j - 1 = i /\ j \in 1 .. n
      BY <1>4
    <2>2. PICK u \in Nat, l \in Nat : u = b[i] /\ u = c[i] /\ l = s[i] /\ l = t[i]
      BY <1>4 DEF SameBefore
    <2>3. b[j] = IF j = 1 THEN 0 ELSE b[j - 1] + s[j - 1]
      BY <1>1, Zenon
    <2>4. c[j] = IF j = 1 THEN 0 ELSE c[j - 1] + t[j - 1]
      BY <1>2, <2>1, Zenon
    <2>5. /\ b[j - 1] = u /\ s[j - 1] = l
          /\ c[j - 1] = u /\ t[j - 1] = l
      BY <2>1, <2>2
    <2>6. b[j] = u + l /\ c[j] = u + l
      BY <2>1, <2>3, <2>4, <2>5
    <2> QED
      BY <2>1, <2>6
  <1> HIDE DEF S
  <1>5. 1 .. m \subseteq S
    BY <1>3, <1>4, IndexInduction
  <1> QED
    BY <1>5 DEF S

LEMMA BeforePrefix ==
    ASSUME NEW s, NEW t, NEW m \in Nat, m > 0,
           SameBefore(s, t, m)
    PROVE  Stream!Before(s, m) \in Nat /\ Stream!Before(t, m) = Stream!Before(s, m)
  <1>1. PICK b : IsBefore(b, s, m) /\ Stream!Before(s, m) = b[m]
    BY BeforeDef
  <1>2. PICK c : IsBefore(c, t, m) /\ Stream!Before(t, m) = c[m]
    BY BeforeDef
  <1>3. \A i \in 1 .. m : b[i] \in Nat /\ c[i] = b[i]
    BY <1>1, <1>2, BeforeAgree
  <1> QED
    BY <1>1, <1>2, <1>3

\* The bytes before the messages are offsets into the stream.
LEMMA BeforeOffsets ==
    ASSUME NEW s \in Seq(Nat)
    PROVE  Offsets([m \in 1 .. Len(s) + 1 |-> Stream!Before(s, m)], s, Len(s))
  <1>1. \A m \in 1 .. Len(s) + 1 : Stream!Before(s, m) \in Nat
    BY BeforePrefix DEF SameBefore
  <1>2. Stream!Before(s, 1) = 0
    <2>1. PICK b : IsBefore(b, s, 1) /\ Stream!Before(s, 1) = b[1]
      BY BeforeDef
    <2> QED
      BY <2>1 DEF IsBefore
  <1>3. ASSUME NEW m \in 1 .. Len(s)
        PROVE  Stream!Before(s, m + 1) = Stream!Before(s, m) + s[m]
    <2>1. PICK j \in Nat : j = m + 1 /\ j # 1 /\ j - 1 = m /\ j \in 1 .. j
      OBVIOUS
    <2>2. PICK b : IsBefore(b, s, m) /\ Stream!Before(s, m) = b[m]
      BY BeforeDef
    <2>3. PICK c : IsBefore(c, s, j) /\ Stream!Before(s, j) = c[j]
      BY BeforeDef
    <2>4. b[m] \in Nat /\ c[m] = b[m]
      <3>1. SameBefore(s, s, m)
        BY DEF SameBefore
      <3>2. m <= j /\ m \in 1 .. m /\ m \in Nat
        BY <2>1
      <3>3. \A i \in 1 .. m : b[i] \in Nat /\ c[i] = b[i]
        BY <2>2, <2>3, <3>1, <3>2, BeforeAgree
      <3> QED
        BY <3>2, <3>3
    <2>5. c[j] = IF j = 1 THEN 0 ELSE c[j - 1] + s[j - 1]
      BY <2>1, <2>3, Zenon DEF IsBefore
    <2>6. PICK u \in Nat, l \in Nat : u = b[m] /\ u = c[m] /\ l = s[m]
      BY <2>4
    <2>7. c[j - 1] = u /\ s[j - 1] = l
      BY <2>1, <2>6
    <2>8. c[j] = u + l
      BY <2>1, <2>5, <2>7
    <2> QED
      BY <2>1, <2>2, <2>3, <2>6, <2>8
  <1> QED
    BY <1>1, <1>2, <1>3 DEF Offsets

----------------------------------------------------------------------------
(* The buffer.  The units are one tape, in which unit i begins at Base(i). *)

Base(i) == (i - 1) * Capacity

LEMMA BaseIs ==
    /\ Base(1) = 0
    /\ \A i \in Nat \ {0} : Base(i) \in Nat /\ Base(i + 1) = Base(i) + Capacity
    /\ \A i, j \in Nat \ {0} : Base(i + j - 1) = Base(i) + Base(j)
    /\ \A i, j \in Nat \ {0} : i < j => Base(i) + Capacity <= Base(j)
  <1> USE CapacityAssumption
  <1>1. Base(1) = 0 /\ \A i \in Nat \ {0} : Base(i) \in Nat
    BY DEF Base
  <1>2. \A i \in Nat \ {0} : Base(i + 1) = Base(i) + Capacity
    BY DEF Base
  <1>3. \A i, j \in Nat \ {0} : Base(i + j - 1) = Base(i) + Base(j)
    BY DEF Base
  <1>4. ASSUME NEW i \in Nat \ {0}, NEW j \in Nat \ {0}, i < j
        PROVE  Base(i) + Capacity <= Base(j)
    <2>1. PICK d \in Nat \ {0} : (i + 1) + d - 1 = j
      <3>1. j - i \in Nat \ {0} /\ (i + 1) + (j - i) - 1 = j
        BY <1>4
      <3> QED
        BY <3>1
    <2>2. Base((i + 1) + d - 1) = Base(i + 1) + Base(d)
      BY <1>3
    <2>3. Base(d) \in Nat /\ Base(i + 1) = Base(i) + Capacity /\ Base(i) \in Nat
      BY <1>1, <1>2
    <2> QED
      BY <2>1, <2>2, <2>3
  <1> QED
    BY <1>1, <1>2, <1>3, <1>4

\* What can be read is one piece of the tape: from the first unit's head over
\* full units to the tail of the unit being written, with nothing behind it.
OneTape(u, w, z) ==
    /\ w \in 1 .. Len(u)
    /\ u[1].head <= u[1].tail
    /\ \A i \in 1 .. Len(u) :
         /\ i < w => u[i].tail = Capacity
         /\ i > w => u[i].tail = 0
         /\ i > 1 => u[i].head = 0
    /\ w > 1 => u[w].tail > 0
    /\ u[1].head + z = Base(w) + u[w].tail

Filled(b) ==
    /\ b \in [units : Seq(Unit), write : Nat, size : Nat]
    /\ OneTape(b.units, b.write, b.size)

LEMMA OpenBuffer ==
    ASSUME NEW b, Filled(b)
    PROVE  \E u \in Seq(Unit), w \in Nat, z \in Nat :
             b = [units |-> u, write |-> w, size |-> z] /\ OneTape(u, w, z)
  BY DEF Filled

LEMMA CloseBuffer ==
    ASSUME NEW u \in Seq(Unit), NEW w \in Nat, NEW z \in Nat, OneTape(u, w, z)
    PROVE  Filled([units |-> u, write |-> w, size |-> z])
  BY DEF Filled

LEMMA UnitIs ==
    \A u \in Unit : /\ u.head \in Nat /\ u.head <= Capacity
                    /\ u.tail \in Nat /\ u.tail <= Capacity
                    /\ u.buf \in [1 .. Capacity -> Nat \cup {None}]
  BY CapacityAssumption DEF Unit

LEMMA UnitRead ==
    ASSUME NEW a \in Unit, NEW x \in 0 .. Capacity
    PROVE  /\ [a EXCEPT !.head = x] \in Unit
           /\ [a EXCEPT !.head = x].head = x
           /\ [a EXCEPT !.head = x].tail = a.tail
           /\ [a EXCEPT !.head = x].buf = a.buf
  BY DEF Unit

LEMMA UnitWritten ==
    ASSUME NEW a \in Unit, NEW x \in 0 .. Capacity
    PROVE  /\ [a EXCEPT !.tail = x] \in Unit
           /\ [a EXCEPT !.tail = x].tail = x
           /\ [a EXCEPT !.tail = x].head = a.head
           /\ [a EXCEPT !.tail = x].buf = a.buf
  BY DEF Unit

\* The units that PushNode adds.
Fresh(n) == [i \in 1 .. n |-> NewUnit]

LEMMA NewUnits ==
    ASSUME NEW n \in Nat
    PROVE  /\ Fresh(n) \in Seq(Unit)
           /\ Len(Fresh(n)) = n
           /\ \A i \in 1 .. n : Fresh(n)[i].head = 0 /\ Fresh(n)[i].tail = 0
  <1>1. NewUnit \in Unit
    BY CapacityAssumption DEF NewUnit, Unit
  <1>2. NewUnit.head = 0 /\ NewUnit.tail = 0
    BY DEF NewUnit
  <1> QED
    BY <1>1, <1>2 DEF Fresh

\* An empty chain.
LEMMA NewBufferFilled ==
    ASSUME NEW n \in Nat, n > 0
    PROVE  Filled(NewBuffer(n))
  <1>1. PICK u \in Seq(Unit) :
          /\ u = Fresh(n) /\ Len(u) = n
          /\ \A i \in 1 .. n : u[i].head = 0 /\ u[i].tail = 0
    BY NewUnits
  <1>2. OneTape(u, 1, 0)
    <2>1. 1 \in 1 .. n /\ u[1].head = 0 /\ u[1].tail = 0 /\ Base(1) = 0
      BY <1>1, BaseIs
    <2> QED
      BY <1>1, <2>1 DEF OneTape
  <1> QED
    BY <1>1, <1>2, CloseBuffer DEF NewBuffer, Fresh

\* GetRecvWsaBuf pushes empty units and changes nothing else.
LEMMA GrownIs ==
    ASSUME NEW b, Filled(b), Len(b.units) <= b.write + BufCount
    PROVE  /\ Filled(Grown(b))
           /\ Grown(b).write = b.write /\ Grown(b).size = b.size
           /\ Len(Grown(b).units) = b.write + BufCount
           /\ \A i \in 1 .. Len(b.units) : Grown(b).units[i] = b.units[i]
  <1> USE BufCountAssumption
  <1>1. PICK u \in Seq(Unit), w \in Nat, z \in Nat :
          b = [units |-> u, write |-> w, size |-> z] /\ OneTape(u, w, z)
    BY OpenBuffer
  <1>2. PICK l \in Nat : l = Len(u) /\ w \in 1 .. l /\ l <= w + BufCount
    BY <1>1 DEF OneTape
  <1>a. PICK k \in Nat : k = w + BufCount - l
    BY <1>2
  <1>3. PICK more \in Seq(Unit) :
          /\ more = Fresh(k) /\ Len(more) = k
          /\ \A i \in 1 .. k : more[i].head = 0 /\ more[i].tail = 0
    BY NewUnits
  <1>4. Grown(b) = [units |-> u \o more, write |-> w, size |-> z]
    <2>1. Grown(b) = [b EXCEPT !.units = u \o Fresh(w + BufCount - Len(u))]
      BY <1>1 DEF Grown, Fresh
    <2> QED
      BY <1>1, <1>2, <1>a, <1>3, <2>1
  <1>5. PICK v \in Seq(Unit) :
          /\ v = u \o more /\ Len(v) = l + k
          /\ \A i \in 1 .. l + k : v[i] = IF i <= l THEN u[i] ELSE more[i - l]
    <2>1. Len(u) \in Nat /\ Len(more) \in Nat
      BY <1>2, <1>3
    <2>2. /\ u \o more \in Seq(Unit) /\ Len(u \o more) = Len(u) + Len(more)
          /\ \A i \in 1 .. Len(u) + Len(more) :
               (u \o more)[i] = IF i <= Len(u) THEN u[i] ELSE more[i - Len(u)]
      OBVIOUS
    <2> QED
      BY <1>2, <1>3, <2>2
  <1>6. /\ Len(v) = w + BufCount
        /\ \A i \in 1 .. l : v[i] = u[i]
        /\ \A i \in 1 .. w + BufCount : i > l => v[i].head = 0 /\ v[i].tail = 0
    BY <1>2, <1>a, <1>3, <1>5
  <1>7. OneTape(v, w, z)
    <2>1. 1 \in 1 .. l /\ v[1] = u[1] /\ v[w] = u[w]
      BY <1>2, <1>6
    <2>2. w \in 1 .. Len(v)
      BY <1>2, <1>6
    <2>3. ASSUME NEW i \in 1 .. Len(v)
          PROVE  /\ i < w => v[i].tail = Capacity
                 /\ i > w => v[i].tail = 0
                 /\ i > 1 => v[i].head = 0
      <3>1. CASE i \in 1 .. l
        <4>1. v[i] = u[i]
          BY <1>6, <3>1
        <4> QED
          BY <1>1, <1>2, <3>1, <4>1 DEF OneTape
      <3>2. CASE i > l
        <4>1. i > w
          BY <1>2, <3>2
        <4>2. v[i].head = 0 /\ v[i].tail = 0
          BY <1>6, <3>2
        <4> QED
          BY <4>1, <4>2
      <3> QED
        BY <3>1, <3>2
    <2> QED
      BY <1>1, <2>1, <2>2, <2>3 DEF OneTape
  <1>8. Grown(b) = [units |-> v, write |-> w, size |-> z]
    BY <1>4, <1>5
  <1> QED
    BY <1>1, <1>2, <1>6, <1>7, <1>8, CloseBuffer

\* The room UpdateRecv's loop looks at, from the unit being written on.
RoomUnits(b) == IF b.write = Len(b.units) THEN 1 ELSE Len(b.units) - b.write

LEMMA WriteRoomIs ==
    ASSUME NEW u \in Seq(Unit), NEW w \in Nat, NEW z \in Nat, OneTape(u, w, z),
           NEW b, b = [units |-> u, write |-> w, size |-> z],
           NEW k, k = RoomUnits(b),
           NEW off, off = [i \in 1 .. k + 1 |-> IF i = 1 THEN 0 ELSE Base(i) - u[w].tail]
    PROVE  /\ k \in Nat /\ k > 0
           /\ w + k - 1 <= Len(u)
           /\ Len(WriteRoom(b)) = k
           /\ Offsets(off, WriteRoom(b), k)
  <1>1. PICK l \in Nat : l = Len(u) /\ w \in 1 .. l
    BY DEF OneTape
  <1>2. k = IF w = l THEN 1 ELSE l - w
    BY <1>1 DEF RoomUnits
  <1>3. k \in Nat /\ k > 0 /\ w + k - 1 <= l
    BY <1>1, <1>2
  <1> DEFINE room == WriteRoom(b)
  <1>4. room = [i \in 1 .. k |-> Capacity - u[w + i - 1].tail]
    BY <1>1, <1>2 DEF WriteRoom, Writeable
  <1>5. Len(room) = k
    BY <1>3, <1>4
  <1> HIDE DEF room
  <1>6. u[w] \in Unit /\ u[w].tail \in Nat /\ u[w].tail <= Capacity
    BY <1>1, UnitIs
  <1>7. PICK t \in Nat : t = u[w].tail /\ t <= Capacity
    BY <1>6
  <1>8. PICK c \in Nat : c = Capacity
    BY CapacityAssumption
  <1>9. Base(1) = 0 /\ \A i \in Nat \ {0} : Base(i) \in Nat /\ Base(i + 1) = Base(i) + c
    BY <1>8, BaseIs
  <1>10. \A i \in 1 .. k + 1 : i > 1 => c <= Base(i)
    <2>1. \A i \in Nat \ {0} : i > 1 => Base(1) + Capacity <= Base(i)
      BY BaseIs
    <2> QED
      BY <1>3, <1>8, <1>9, <2>1
  <1>11. \A i \in 1 .. k + 1 : off[i] = IF i = 1 THEN 0 ELSE Base(i) - t
    BY <1>7
  <1>12. off \in [1 .. k + 1 -> Nat]
    <2>1. ASSUME NEW i \in 1 .. k + 1
          PROVE  (IF i = 1 THEN 0 ELSE Base(i) - t) \in Nat
      <3>1. i \in Nat \ {0} /\ (i # 1 => i > 1)
        BY <1>3
      <3>2. PICK d \in Nat : d = Base(i)
        BY <1>9, <3>1
      <3>3. i # 1 => c <= d
        BY <1>10, <3>1, <3>2
      <3>4. t <= c
        BY <1>7, <1>8
      <3>5. i # 1 => d - t \in Nat
        BY <3>3, <3>4
      <3> QED
        BY <3>2, <3>5
    <2> QED
      BY <2>1, <1>7
  <1>13. ASSUME NEW i \in 1 .. k
         PROVE  room[i] \in Nat /\ off[i + 1] = off[i] + room[i]
    <2>1. room[i] = c - u[w + i - 1].tail
      BY <1>4, <1>8
    <2>2. i \in Nat \ {0} /\ i + 1 \in 1 .. k + 1 /\ i \in 1 .. k + 1 /\ i + 1 # 1
      BY <1>3
    <2>3. off[i + 1] = Base(i) + c - t
      BY <1>9, <1>11, <2>2
    <2>4. CASE i = 1
      <3>1. w + i - 1 = w
        BY <1>1, <2>4
      <3>2. room[i] = c - t
        BY <1>7, <2>1, <3>1
      <3>a. Base(i) = 0
        BY <1>9, <2>4
      <3>b. off[i] = 0
        BY <1>11, <2>2, <2>4
      <3>c. 0 + c - t = c - t
        BY <1>7, <1>8
      <3>3. off[i] = 0 /\ off[i + 1] = c - t
        BY <2>3, <3>a, <3>b, <3>c
      <3>4. c - t \in Nat /\ c - t = 0 + (c - t)
        BY <1>7, <1>8
      <3> QED
        BY <3>2, <3>3, <3>4
    <2>5. CASE i > 1
      <3>1. w + i - 1 \in 1 .. l /\ w + i - 1 > w
        BY <1>1, <1>3, <2>5
      <3>2. u[w + i - 1].tail = 0
        BY <1>1, <3>1 DEF OneTape
      <3>3. c <= Base(i) /\ Base(i) \in Nat
        BY <1>9, <1>10, <2>2, <2>5
      <3>4. off[i] = Base(i) - t
        BY <1>11, <2>2, <2>5
      <3> QED
        BY <1>7, <1>8, <2>1, <2>3, <3>2, <3>3, <3>4
    <2> QED
      BY <2>2, <2>4, <2>5
  <1>14. off[1] = 0
    BY <1>3, <1>11
  <1>15. Offsets(off, room, k)
    BY <1>12, <1>13, <1>14 DEF Offsets
  <1> QED
    BY <1>1, <1>3, <1>5, <1>15 DEF room

\* The units when the writing has moved on from unit w to unit end.
Booked(u, w, end, r) ==
    [i \in 1 .. Len(u) |->
       CASE i \in w .. end - 1 -> [u[i] EXCEPT !.tail = Capacity]
         [] i = end -> [u[i] EXCEPT !.tail = @ + r]
         [] OTHER -> u[i]]

\* UpdateRecv with no more bytes than there is room for moves the end of the
\* tape by n and nothing else.
LEMMA UpdateRecvIs ==
    ASSUME NEW b, Filled(b), NEW n \in Nat,
           n + b.units[b.write].tail <= Base(RoomUnits(b) + 1)
    PROVE  /\ UpdateRecvFits(b, n)
           /\ Filled(UpdateRecv(b, n))
           /\ UpdateRecv(b, n).size = b.size + n
           /\ Len(UpdateRecv(b, n).units) = Len(b.units)
           /\ b.write <= UpdateRecv(b, n).write
           /\ \A i \in 1 .. Len(b.units) :
                /\ UpdateRecv(b, n).units[i].head = b.units[i].head
                /\ UpdateRecv(b, n).units[i].buf = b.units[i].buf
  <1>1. PICK u \in Seq(Unit), w \in Nat, z \in Nat :
          b = [units |-> u, write |-> w, size |-> z] /\ OneTape(u, w, z)
    BY OpenBuffer
  <1>2. PICK l \in Nat : l = Len(u) /\ w \in 1 .. l
    BY <1>1 DEF OneTape
  <1>3. PICK k : k = RoomUnits(b)
    OBVIOUS
  <1> DEFINE off0 == [i \in 1 .. k + 1 |-> IF i = 1 THEN 0 ELSE Base(i) - u[w].tail]
  <1>4. /\ k \in Nat /\ k > 0 /\ w + k - 1 <= l
        /\ Len(WriteRoom(b)) = k
        /\ Offsets(off0, WriteRoom(b), k)
    BY <1>1, <1>2, <1>3, WriteRoomIs
  <1>5. PICK t \in Nat : t = u[w].tail /\ t <= Capacity
    BY <1>2, UnitIs
  <1>6. PICK off : off = off0 /\ Offsets(off, WriteRoom(b), k)
    BY <1>4
  <1>7. \A i \in 1 .. k + 1 : off[i] = IF i = 1 THEN 0 ELSE Base(i) - t
    BY <1>5, <1>6
  <1> HIDE DEF off0
  <1>8. n + t <= Base(k + 1)
    BY <1>1, <1>3, <1>5
  <1>9. Base(k + 1) \in Nat
    BY <1>4, BaseIs
  <1>10. n <= off[k + 1]
    <2>1. off[k + 1] = Base(k + 1) - t
      BY <1>4, <1>7
    <2> QED
      BY <1>8, <1>9, <2>1
  <1> DEFINE e0 == EndOf(WriteRoom(b), n)
             r0 == Remaining(WriteRoom(b), n)[e0]
  <1>11. /\ UpdateRecvFits(b, n)
         /\ e0 \in 1 .. k /\ n <= off[e0 + 1] /\ (e0 # 1 => off[e0] < n)
         /\ r0 = n - off[e0]
    BY <1>4, <1>6, <1>10, EndOfIs DEF UpdateRecvFits
  <1>r. PICK r : r = r0
    OBVIOUS
  <1>12. PICK e \in 1 .. k : e = e0 /\ r = r0 /\ r = n - off[e]
                             /\ n <= off[e + 1] /\ (e # 1 => off[e] < n)
    BY <1>11, <1>r
  <1> HIDE DEF e0, r0
  <1>13. UpdateRecv(b, n) =
           [units |-> Booked(u, w, w + e - 1, r), write |-> w + e - 1, size |-> z + n]
    <2>1. UpdateRecv(b, n) =
            [units |-> Booked(b.units, b.write, b.write + e0 - 1, r0),
             write |-> b.write + e0 - 1, size |-> b.size + n]
      BY DEF UpdateRecv, Booked, e0, r0
    <2>2. b.units = u /\ b.write = w /\ b.size = z
      BY <1>1
    <2> QED
      BY <1>12, <2>1, <2>2
  <1>14. PICK f \in Nat : f = w + e - 1 /\ w <= f /\ f <= l /\ f \in 1 .. l
    BY <1>2, <1>4, <1>12
  <1>15. PICK v : v = Booked(u, w, f, r)
    OBVIOUS
  <1>16. PICK s \in Nat, d \in Nat : s = Base(e) /\ d = Base(w) /\ Base(f) = d + s
                                   /\ Base(e + 1) = s + Capacity
    <2>1. e \in Nat \ {0} /\ w \in Nat \ {0}
      BY <1>2, <1>12
    <2> QED
      BY <1>14, <2>1, BaseIs
  <1>17. /\ n + t - s \in 0 .. Capacity
         /\ u[f].tail + r = n + t - s
         /\ f > 1 => n + t - s > 0
    <2>0. /\ off[e] = IF e = 1 THEN 0 ELSE s - t
          /\ off[e + 1] = s + Capacity - t
      <3>1. e \in 1 .. k + 1 /\ e + 1 \in 1 .. k + 1 /\ e + 1 # 1
        BY <1>4, <1>12
      <3>2. off[e] = IF e = 1 THEN 0 ELSE Base(e) - t
        BY <1>7, <3>1, Zenon
      <3>3. off[e + 1] = IF e + 1 = 1 THEN 0 ELSE Base(e + 1) - t
        BY <1>7, <3>1, Zenon
      <3>4. s = Base(e) /\ Base(e + 1) = s + Capacity
        BY <1>16
      <3>5. off[e] = IF e = 1 THEN 0 ELSE s - t
        BY <3>2, <3>4, Zenon
      <3>6. off[e + 1] = s + Capacity - t
        <4>1. off[e + 1] = (s + Capacity) - t
          BY <3>1, <3>3, <3>4, Zenon
        <4>2. s \in Nat /\ Capacity \in Nat /\ t \in Nat
          BY <1>5, <1>16, CapacityAssumption
        <4> QED
          BY <4>1, <4>2
      <3> QED
        BY <3>5, <3>6
    <2>1. CASE e = 1
      <3>a. Base(1) = 0
        BY BaseIs
      <3>1. s = 0 /\ off[e] = 0 /\ f = w
        BY <1>2, <1>14, <1>16, <2>0, <2>1, <3>a
      <3>2. off[e + 1] = Capacity - t
        BY <1>5, <2>0, <3>1, CapacityAssumption
      <3>3. n <= Capacity - t /\ r = n
        BY <1>12, <3>1, <3>2
      <3>4. w > 1 => t > 0
        BY <1>1, <1>5 DEF OneTape
      <3> QED
        BY <1>5, <3>1, <3>3, <3>4, CapacityAssumption
    <2>2. CASE e > 1
      <3>1. off[e] = s - t /\ off[e + 1] = s + Capacity - t
        BY <2>0, <2>2
      <3>2. s - t < n /\ n <= s + Capacity - t /\ r = n - (s - t)
        BY <1>12, <2>2, <3>1
      <3>3. f > w
        BY <1>12, <1>14, <2>2
      <3>4. u[f].tail = 0
        BY <1>1, <1>2, <1>14, <3>3 DEF OneTape
      <3> QED
        BY <3>2, <3>4, CapacityAssumption
    <2> QED
      BY <1>12, <2>1, <2>2
  <1>18. ASSUME NEW i \in 1 .. l
         PROVE  /\ v[i] \in Unit
                /\ v[i].head = u[i].head /\ v[i].buf = u[i].buf
                /\ v[i].tail = CASE i \in w .. f - 1 -> Capacity
                                 [] i = f -> n + t - s
                                 [] OTHER -> u[i].tail
    <2>1. v[i] = CASE i \in w .. f - 1 -> [u[i] EXCEPT !.tail = Capacity]
                   [] i = f -> [u[i] EXCEPT !.tail = @ + r]
                   [] OTHER -> u[i]
      BY <1>2, <1>15, Zenon DEF Booked
    <2>2. u[i] \in Unit
      BY <1>2
    <2>3. CASE i \in w .. f - 1
      <3>1. v[i] = [u[i] EXCEPT !.tail = Capacity]
        BY <2>1, <2>3
      <3>2. /\ v[i] \in Unit /\ v[i].tail = Capacity
            /\ v[i].head = u[i].head /\ v[i].buf = u[i].buf
        BY <2>2, <3>1, CapacityAssumption, UnitWritten
      <3> QED
        BY <2>3, <3>2
    <2>4. CASE i = f
      <3>1. i \notin w .. f - 1
        BY <1>14, <2>4
      <3>2. v[i] = [u[i] EXCEPT !.tail = u[i].tail + r]
        BY <2>1, <2>4, <3>1
      <3> QED
        BY <1>17, <2>2, <2>4, <3>1, <3>2 DEF Unit
    <2>5. CASE i \notin w .. f - 1 /\ i # f
      BY <2>1, <2>2, <2>5
    <2> QED
      BY <2>3, <2>4, <2>5
  <1>19. v \in Seq(Unit) /\ Len(v) = l
    <2>1. v = [i \in 1 .. l |-> v[i]]
      BY <1>2, <1>15 DEF Booked
    <2> QED
      BY <1>2, <1>18, <2>1
  <1>20. OneTape(v, f, z + n)
    <2>1. 1 \in 1 .. l
      BY <1>2
    <2>2. PICK h \in Nat : h = u[1].head /\ h = v[1].head /\ h <= u[1].tail
                          /\ h + z = d + t /\ h <= Capacity
      <3>1. u[1] \in Unit /\ v[1].head = u[1].head
        <4>1. u[1] \in Unit
          BY <1>2
        <4> QED
          BY <1>18, <2>1, <4>1, Zenon
      <3>2. u[1].head \in Nat /\ u[1].head <= Capacity
        BY <3>1, UnitIs
      <3>3. u[1].head <= u[1].tail /\ u[1].head + z = Base(w) + u[w].tail
        BY <1>1 DEF OneTape
      <3> QED
        BY <1>5, <1>16, <3>1, <3>2, <3>3
    <2>3. h <= v[1].tail
      <3>1. u[1].tail <= v[1].tail
        <4>1. u[1].tail \in Nat /\ u[1].tail <= Capacity
          BY <1>2, <2>1, UnitIs
        <4>2. CASE 1 \in w .. f - 1
          BY <1>18, <2>1, <4>1, <4>2
        <4>3. CASE 1 = f
          <5>1. f \notin w .. f - 1 /\ w = 1
            BY <1>2, <1>14, <4>3
          <5>2. v[1].tail = n + t - s
            BY <1>18, <2>1, <4>3, <5>1
          <5>3. Base(1) = 0 /\ e = 1
            BY <1>12, <1>14, <4>3, <5>1, BaseIs
          <5>4. s = 0 /\ u[1].tail = t
            BY <1>5, <1>16, <5>1, <5>3
          <5> QED
            BY <1>5, <5>2, <5>4
        <4>4. CASE 1 \notin w .. f - 1 /\ 1 # f
          BY <1>18, <2>1, <4>1, <4>4
        <4> QED
          BY <4>2, <4>3, <4>4
      <3>2. u[1].tail \in Nat /\ v[1].tail \in Nat
        <4>1. u[1] \in Unit
          BY <1>2
        <4>2. v[1] \in Unit
          BY <1>18, <2>1, Zenon
        <4> QED
          BY <4>1, <4>2, UnitIs
      <3> QED
        BY <2>2, <3>1, <3>2
    <2>4. ASSUME NEW i \in 1 .. l
          PROVE  /\ i < f => v[i].tail = Capacity
                 /\ i > f => v[i].tail = 0
                 /\ i > 1 => v[i].head = 0
      <3>1. /\ i < w => u[i].tail = Capacity
            /\ i > w => u[i].tail = 0
            /\ i > 1 => u[i].head = 0
        BY <1>1, <1>2 DEF OneTape
      <3>2. i < f => i < w \/ i \in w .. f - 1
        BY <1>14
      <3>3. i > f => i > w /\ i \notin w .. f - 1 /\ i # f
        BY <1>14
      <3>4. i < f => v[i].tail = Capacity
        BY <1>18, <3>1, <3>2
      <3>5. i > f => v[i].tail = 0
        BY <1>18, <3>1, <3>3
      <3> QED
        BY <1>18, <3>1, <3>4, <3>5
    <2>5. v[f].tail = n + t - s
      <3>1. f \notin w .. f - 1 /\ f \in 1 .. l
        BY <1>14
      <3> QED
        BY <1>18, <3>1
    <2>6. h + (z + n) = Base(f) + v[f].tail
      <3>1. h + z = d + t /\ Base(f) = d + s
        BY <1>16, <2>2
      <3>2. h \in Nat /\ z \in Nat /\ d \in Nat /\ s \in Nat /\ t \in Nat
        BY <1>1, <1>5, <1>16, <2>2
      <3>3. h + (z + n) = (d + s) + (n + t - s)
        BY <3>1, <3>2
      <3> QED
        BY <2>5, <3>1, <3>3
    <2> QED
      BY <1>14, <1>17, <1>19, <2>2, <2>3, <2>4, <2>5, <2>6 DEF OneTape
  <1> QED
    <2>0. z + n \in Nat /\ f \in Nat
      BY <1>1, <1>14
    <2>1. Filled([units |-> v, write |-> f, size |-> z + n])
      BY <1>19, <1>20, <2>0, CloseBuffer
    <2>2. b.units = u /\ b.write = w /\ b.size = z
      BY <1>1
    <2>3. UpdateRecv(b, n) = [units |-> v, write |-> f, size |-> z + n]
      BY <1>13, <1>14, <1>15
    <2>4. \A i \in 1 .. l : v[i].head = u[i].head /\ v[i].buf = u[i].buf
      BY <1>18
    <2> QED
      BY <1>2, <1>11, <1>14, <1>19, <2>1, <2>2, <2>3, <2>4

\* What Read's loop takes out of each unit.
HeldIn(u) == [i \in 1 .. Len(u) |-> Readable(u[i])]

LEMMA HeldIs ==
    ASSUME NEW u \in Seq(Unit), NEW w \in Nat, NEW z \in Nat, OneTape(u, w, z),
           NEW l \in Nat, l = Len(u),
           NEW off, off = [i \in 1 .. l + 1 |->
                            IF i = 1 THEN 0
                            ELSE IF i <= w THEN Base(i) - u[1].head ELSE z]
    PROVE  Len(HeldIn(u)) = l /\ Offsets(off, HeldIn(u), l)
  <1>1. w \in 1 .. l
    BY DEF OneTape
  <1> DEFINE room == HeldIn(u)
  <1>2. room = [i \in 1 .. l |-> u[i].tail - u[i].head]
    BY DEF HeldIn, Readable
  <1>3. Len(room) = l /\ \A i \in 1 .. l : room[i] = u[i].tail - u[i].head
    BY <1>2
  <1> HIDE DEF room
  <1>4. PICK h \in Nat : h = u[1].head /\ h <= Capacity
    BY <1>1, UnitIs
  <1>5. PICK c \in Nat : c = Capacity
    BY CapacityAssumption
  <1>6. \A i \in 1 .. l + 1 :
          off[i] = IF i = 1 THEN 0 ELSE IF i <= w THEN Base(i) - h ELSE z
    BY <1>4
  <1>7. ASSUME NEW i \in 1 .. l + 1, i # 1, i <= w
        PROVE  Base(i) \in Nat /\ h <= Base(i)
    <2>1. i \in Nat \ {0} /\ 1 < i
      BY <1>7
    <2>2. Base(1) + Capacity <= Base(i) /\ Base(1) = 0 /\ Base(i) \in Nat
      BY <2>1, BaseIs
    <2> QED
      BY <1>4, <1>5, <2>2
  <1>8. off \in [1 .. l + 1 -> Nat]
    <2>1. ASSUME NEW i \in 1 .. l + 1
          PROVE  (IF i = 1 THEN 0 ELSE IF i <= w THEN Base(i) - h ELSE z) \in Nat
      BY <1>7
    <2> QED
      BY <1>4, <2>1
  <1>9. ASSUME NEW i \in 1 .. l
        PROVE  room[i] \in Nat /\ off[i + 1] = off[i] + room[i]
    <2>1. PICK x \in Nat, y \in Nat : x = u[i].tail /\ y = u[i].head /\ room[i] = x - y
      <3>1. u[i].tail \in Nat /\ u[i].head \in Nat
        BY UnitIs
      <3>2. room[i] = u[i].tail - u[i].head
        BY <1>3
      <3> QED
        BY <3>1, <3>2
    <2>2. PICK a \in Nat : a = Base(i) /\ Base(i + 1) = a + c
      <3>1. i \in Nat \ {0}
        OBVIOUS
      <3>2. Base(i) \in Nat /\ Base(i + 1) = Base(i) + Capacity
        BY <3>1, BaseIs
      <3> QED
        BY <1>5, <3>2
    <2>3. /\ i < w => x = c
          /\ i > w => x = 0
          /\ i > 1 => y = 0
          /\ i = 1 => y = h /\ a = 0 /\ y <= x
      BY <1>4, <1>5, <2>1, <2>2, BaseIs DEF OneTape
    <2>4. i = w => h + z = a + x
      BY <1>4, <2>1, <2>2 DEF OneTape
    <2>5. /\ off[i] = IF i = 1 THEN 0 ELSE IF i <= w THEN a - h ELSE z
          /\ off[i + 1] = IF i < w THEN a + c - h ELSE z
      <3>1. i + 1 \in 1 .. l + 1 /\ i + 1 # 1 /\ i \in 1 .. l + 1
            /\ (i + 1 <= w <=> i < w)
        BY <1>1
      <3>2. off[i] = IF i = 1 THEN 0 ELSE IF i <= w THEN Base(i) - h ELSE z
        BY <1>6, <3>1, Zenon
      <3>3. off[i + 1] = IF i + 1 = 1 THEN 0
                         ELSE IF i + 1 <= w THEN Base(i + 1) - h ELSE z
        BY <1>6, <3>1, Zenon
      <3>4. Base(i + 1) - h = a + c - h
        BY <1>4, <1>5, <2>2
      <3> QED
        BY <2>2, <3>1, <3>2, <3>3, <3>4
    <2>6. i > 1 /\ i <= w => h <= a
      BY <1>7, <2>2
    <2>7. PICK o, q : o = off[i] /\ q = off[i + 1]
      OBVIOUS
    <2>8. /\ o = IF i = 1 THEN 0 ELSE IF i <= w THEN a - h ELSE z
          /\ q = IF i < w THEN a + c - h ELSE z
      BY <2>5, <2>7
    <2>9. x - y \in Nat /\ q = o + (x - y)
      <3>1. CASE i < w
        <4>1. o = IF i = 1 THEN 0 ELSE a - h
          BY <1>1, <2>8, <3>1
        <4>2. q = a + c - h
          BY <2>8, <3>1
        <4>3. /\ x = c /\ (i > 1 => y = 0 /\ h <= a)
              /\ (i = 1 => y = h /\ a = 0)
          BY <1>1, <2>3, <2>6, <3>1
        <4>4. h <= c /\ h \in Nat /\ c \in Nat
          BY <1>4, <1>5
        <4>5. CASE i = 1
          BY <4>1, <4>2, <4>3, <4>4, <4>5
        <4>6. CASE i > 1
          BY <4>1, <4>2, <4>3, <4>4, <4>6
        <4> QED
          BY <4>5, <4>6
      <3>2. CASE i = w
        <4>1. o = IF i = 1 THEN 0 ELSE a - h
          BY <1>1, <2>8, <3>2
        <4>2. q = z
          BY <1>1, <2>8, <3>2
        <4>3. /\ h + z = a + x /\ h \in Nat /\ (i > 1 => y = 0 /\ h <= a)
              /\ (i = 1 => y = h /\ a = 0 /\ y <= x)
          BY <1>1, <1>4, <2>3, <2>4, <2>6, <3>2
        <4>5. CASE i = 1
          BY <4>1, <4>2, <4>3, <4>5
        <4>6. CASE i > 1
          BY <4>1, <4>2, <4>3, <4>6
        <4> QED
          BY <4>5, <4>6
      <3>3. CASE i > w
        BY <1>1, <2>1, <2>3, <2>8, <3>3
      <3> QED
        BY <1>1, <3>1, <3>2, <3>3
    <2> QED
      BY <2>1, <2>7, <2>9
  <1>10. off[1] = 0
    BY <1>6
  <1>11. Offsets(off, room, l)
    BY <1>8, <1>9, <1>10 DEF Offsets
  <1> QED
    BY <1>3, <1>11 DEF room

\* The chain when the reading has moved on from its first unit to unit end.
Freed(u, end, r) == [SubSeq(u, end, Len(u)) EXCEPT ![1].head = @ + r]

\* Read of no more bytes than there are moves the beginning of the tape by n
\* and nothing else; the units before the one it ends in are gone.
LEMMA ReadIs ==
    ASSUME NEW b, Filled(b), NEW n \in Nat, n <= b.size
    PROVE  \E e \in 1 .. b.write :
             /\ Filled(Read(b, n))
             /\ Read(b, n).size = b.size - n
             /\ Read(b, n).write = b.write - e + 1
             /\ e <= Len(b.units)
             /\ Len(Read(b, n).units) = Len(b.units) - e + 1
             /\ Base(e) + Read(b, n).units[1].head = b.units[1].head + n
             /\ \A i \in 1 .. Len(b.units) - e + 1 :
                  Read(b, n).units[i].buf = b.units[i + e - 1].buf
  <1>1. PICK u \in Seq(Unit), w \in Nat, z \in Nat :
          b = [units |-> u, write |-> w, size |-> z] /\ OneTape(u, w, z)
    BY OpenBuffer
  <1>2. PICK l \in Nat : l = Len(u) /\ w \in 1 .. l
    BY <1>1 DEF OneTape
  <1> DEFINE off0 == [i \in 1 .. l + 1 |->
                        IF i = 1 THEN 0
                        ELSE IF i <= w THEN Base(i) - u[1].head ELSE z]
  <1>3. Len(HeldIn(u)) = l /\ Offsets(off0, HeldIn(u), l)
    <2>1. OneTape(u, w, z)
      BY <1>1
    <2>2. l = Len(u)
      BY <1>2
    <2> QED
      BY <2>1, <2>2, HeldIs
  <1>4. PICK h \in Nat : h = u[1].head /\ h <= Capacity
    <2>1. u[1] \in Unit
      BY <1>2
    <2> QED
      BY <2>1, UnitIs
  <1>5. PICK off : off = off0 /\ Offsets(off, HeldIn(u), l)
    BY <1>3
  <1>6. \A i \in 1 .. l + 1 :
          off[i] = IF i = 1 THEN 0 ELSE IF i <= w THEN Base(i) - h ELSE z
    BY <1>4, <1>5
  <1> HIDE DEF off0
  <1>7. n <= off[l + 1]
    <2>1. l + 1 \in 1 .. l + 1 /\ l + 1 # 1 /\ ~ (l + 1 <= w)
      BY <1>2
    <2> QED
      BY <1>1, <1>6, <2>1
  <1> DEFINE e0 == EndOf(HeldIn(u), n)
             r0 == Remaining(HeldIn(u), n)[e0]
  <1>8. /\ e0 \in 1 .. l /\ n <= off[e0 + 1] /\ (e0 # 1 => off[e0] < n)
        /\ r0 = n - off[e0]
    BY <1>2, <1>3, <1>5, <1>7, EndOfIs
  <1>r. PICK r : r = r0
    OBVIOUS
  <1>9. PICK e \in 1 .. l : e = e0 /\ r = r0 /\ r = n - off[e]
                            /\ n <= off[e + 1] /\ (e # 1 => off[e] < n)
    BY <1>8, <1>r
  <1>10. Read(b, n) = [units |-> Freed(u, e, r), write |-> w - e + 1, size |-> z - n]
    <2>1. Read(b, n) =
            [units |-> Freed(b.units, EndOf(HeldIn(b.units), n),
                             Remaining(HeldIn(b.units), n)[EndOf(HeldIn(b.units), n)]),
             write |-> b.write - EndOf(HeldIn(b.units), n) + 1,
             size |-> b.size - n]
      BY DEF Read, HeldIn, Freed
    <2>2. b.units = u /\ b.write = w /\ b.size = z
      BY <1>1
    <2> QED
      BY <1>9, <2>1, <2>2
  <1> HIDE DEF e0, r0
  <1>11. e \in 1 .. w
    <2>1. ASSUME e > w PROVE FALSE
      <3>1. e \in 1 .. l + 1 /\ e # 1 /\ ~ (e <= w)
        BY <1>2, <2>1
      <3>2. off[e] = z
        BY <1>6, <3>1
      <3> QED
        BY <1>1, <1>9, <3>1, <3>2
    <2> QED
      BY <1>2, <1>9, <2>1
  <1>12. PICK s \in Nat, d \in Nat : s = Base(e) /\ d = Base(w - e + 1)
                                   /\ Base(w) = s + d /\ Base(e + 1) = s + Capacity
    <2>1. e \in Nat \ {0} /\ w - e + 1 \in Nat \ {0} /\ e + (w - e + 1) - 1 = w
      BY <1>2, <1>11
    <2>2. Base(e + (w - e + 1) - 1) = Base(e) + Base(w - e + 1)
      BY <2>1, BaseIs
    <2> QED
      BY <2>1, <2>2, BaseIs
  <1>13. PICK t \in Nat : t = u[w].tail /\ t <= Capacity /\ h + z = s + d + t
    <2>1. u[w].tail \in Nat /\ u[w].tail <= Capacity
      BY <1>2, UnitIs
    <2>2. h + z = Base(w) + u[w].tail
      BY <1>1, <1>4 DEF OneTape
    <2> QED
      BY <1>12, <2>1, <2>2
  <1>14. PICK y \in Nat : y = u[e].tail /\ y <= Capacity
    BY <1>2, <1>11, UnitIs
  <1>15. h + n - s \in Nat /\ h + n - s <= y /\ u[e].head + r = h + n - s
    <2>1. off[e] = IF e = 1 THEN 0 ELSE s - h
      <3>1. e \in 1 .. l + 1 /\ e <= w
        BY <1>2, <1>11
      <3> QED
        BY <1>6, <1>12, <3>1
    <2>2. off[e + 1] = IF e < w THEN (s + Capacity) - h ELSE z
      <3>1. e + 1 \in 1 .. l + 1 /\ e + 1 # 1 /\ (e + 1 <= w <=> e < w)
        BY <1>2, <1>11
      <3>2. off[e + 1] = IF e + 1 = 1 THEN 0
                         ELSE IF e + 1 <= w THEN Base(e + 1) - h ELSE z
        BY <1>6, <3>1, Zenon
      <3> QED
        BY <1>12, <3>1, <3>2
    <2>3. /\ e < w => y = Capacity
          /\ e = w => y = t /\ d = 0
          /\ e > 1 => u[e].head = 0
          /\ e = 1 => u[e].head = h /\ s = 0
      <3>1. e = w => d = 0
        <4>1. e = w => w - e + 1 = 1
          BY <1>2, <1>11
        <4> QED
          BY <1>12, <4>1, BaseIs
      <3>2. e = 1 => s = 0
        BY <1>12, BaseIs
      <3> QED
        BY <1>1, <1>2, <1>4, <1>11, <1>13, <1>14, <3>1, <3>2 DEF OneTape
    <2>4. n <= s + y - h
      <3>1. CASE e < w
        BY <1>9, <2>2, <2>3, <3>1
      <3>2. CASE e = w
        <4>1. n <= z /\ y = t /\ h + z = s + t
          BY <1>9, <1>13, <2>2, <2>3, <3>2
        <4>2. z \in Nat
          BY <1>1
        <4>3. s + t - h = z
          BY <4>1, <4>2
        <4> QED
          BY <4>1, <4>3
      <3> QED
        BY <1>2, <1>11, <3>1, <3>2
    <2>5. CASE e = 1
      BY <1>4, <1>9, <1>14, <2>1, <2>3, <2>4, <2>5
    <2>6. CASE e > 1
      <3>1. u[e].head = 0 /\ r = n - (s - h) /\ s - h < n
        BY <1>9, <2>1, <2>3, <2>6
      <3>2. u[e].head + r = h + n - s
        BY <3>1
      <3>3. h + n - s \in Nat
        BY <3>1
      <3>4. h + n - s <= y
        BY <2>4
      <3> QED
        BY <3>2, <3>3, <3>4
    <2> QED
      BY <1>11, <2>5, <2>6
  <1>16. PICK x \in 0 .. Capacity : x = h + n - s /\ x <= y /\ u[e].head + r = x
    BY <1>14, <1>15, CapacityAssumption
  <1>17. PICK v : v = Freed(u, e, r)
    OBVIOUS
  <1>18. PICK rest \in Seq(Unit), m \in Nat :
           /\ rest = SubSeq(u, e, l) /\ m = l - e + 1 /\ Len(rest) = m /\ m > 0
           /\ \A i \in 1 .. m : rest[i] = u[i + e - 1] /\ i + e - 1 \in 1 .. l
    <2>1. l - e + 1 \in Nat \ {0}
      BY <1>2, <1>11
    <2>2. \A i \in 1 .. l - e + 1 : i + e - 1 \in 1 .. l
      BY <1>2, <1>11
    <2>3. /\ SubSeq(u, e, l) \in Seq(Unit)
          /\ Len(SubSeq(u, e, l)) = l - e + 1
          /\ \A i \in 1 .. l - e + 1 : SubSeq(u, e, l)[i] = u[e + i - 1]
      BY <1>2, <1>11, SubSeqProperties
    <2>4. \A i \in 1 .. l - e + 1 : e + i - 1 = i + e - 1
      BY <1>2, <1>11
    <2>5. PICK rest \in Seq(Unit) : rest = SubSeq(u, e, l)
      BY <2>3
    <2>6. PICK m \in Nat : m = l - e + 1 /\ m > 0
      BY <2>1
    <2>7. ASSUME NEW i \in 1 .. m
          PROVE  rest[i] = u[i + e - 1] /\ i + e - 1 \in 1 .. l
      <3>1. i \in 1 .. l - e + 1
        BY <2>6
      <3>2. rest[i] = u[e + i - 1] /\ e + i - 1 = i + e - 1
        BY <2>3, <2>4, <2>5, <3>1
      <3> QED
        BY <2>2, <3>1, <3>2
    <2>8. Len(rest) = m
      BY <2>3, <2>5, <2>6
    <2> QED
      BY <2>5, <2>6, <2>7, <2>8
  <1>19. v = [rest EXCEPT ![1] = [rest[1] EXCEPT !.head = rest[1].head + r]]
    BY <1>2, <1>17, <1>18 DEF Freed
  <1>20. rest[1] = u[e]
    <2>1. 1 \in 1 .. m /\ 1 + e - 1 = e
      BY <1>18
    <2> QED
      BY <1>18, <2>1
  <1>21. v = [rest EXCEPT ![1] = [u[e] EXCEPT !.head = x]]
    BY <1>16, <1>19, <1>20
  <1>22. PICK a \in Unit : /\ a = [u[e] EXCEPT !.head = x]
                           /\ a.head = x /\ a.tail = y /\ a.buf = u[e].buf
    <2>1. u[e] \in Unit
      BY <1>2, <1>11
    <2> QED
      BY <1>14, <1>16, <2>1, UnitRead
  <1>23. /\ v \in Seq(Unit) /\ Len(v) = m
         /\ v[1] = a
         /\ \A i \in 1 .. m : i # 1 => v[i] = u[i + e - 1]
    <2>1. v = [rest EXCEPT ![1] = a]
      BY <1>21, <1>22, Zenon
    <2>2. 1 \in 1 .. Len(rest)
      BY <1>18
    <2>3. /\ v \in Seq(Unit) /\ Len(v) = Len(rest)
          /\ \A i \in 1 .. Len(rest) : v[i] = IF i = 1 THEN a ELSE rest[i]
      BY <2>1, <2>2, ExceptSeq
    <2>4. v[1] = a /\ \A i \in 1 .. m : i # 1 => v[i] = rest[i]
      BY <1>18, <2>2, <2>3
    <2> QED
      BY <1>18, <2>3, <2>4
  <1>24. OneTape(v, w - e + 1, z - n)
    <2>1. PICK f \in Nat : f = w - e + 1 /\ f \in 1 .. m
      BY <1>2, <1>11, <1>18
    <2>2. v[1].head = x /\ v[1].tail = y /\ x <= y
      BY <1>16, <1>22, <1>23
    <2>3. ASSUME NEW i \in 1 .. m
          PROVE  v[i].tail = u[i + e - 1].tail
      <3>1. CASE i = 1
        <4>1. i + e - 1 = e
          BY <3>1
        <4> QED
          BY <1>14, <2>2, <3>1, <4>1
      <3>2. CASE i # 1
        BY <1>23, <3>2
      <3> QED
        BY <3>1, <3>2
    <2>4. ASSUME NEW i \in 1 .. m
          PROVE  /\ i < f => v[i].tail = Capacity
                 /\ i > f => v[i].tail = 0
                 /\ i > 1 => v[i].head = 0
      <3>1. PICK j \in 1 .. l : j = i + e - 1
        BY <1>18
      <3>2. /\ i < f => j < w
            /\ i > f => j > w
            /\ i > 1 => j > 1
        BY <1>2, <1>11, <2>1, <3>1
      <3>3. /\ j < w => u[j].tail = Capacity
            /\ j > w => u[j].tail = 0
            /\ j > 1 => u[j].head = 0
        BY <1>1, <1>2 DEF OneTape
      <3>4. v[i].tail = u[j].tail /\ (i > 1 => v[i] = u[j])
        BY <1>23, <2>3, <3>1
      <3> QED
        BY <3>2, <3>3, <3>4
    <2>5. f + e - 1 = w /\ (f > 1 => w > 1)
      BY <1>2, <1>11, <2>1
    <2>6. v[f].tail = t
      BY <1>13, <2>1, <2>3, <2>5
    <2>7. f > 1 => v[f].tail > 0
      BY <1>1, <1>13, <2>5, <2>6 DEF OneTape
    <2>8. x + (z - n) = Base(f) + v[f].tail
      <3>1. z \in Nat
        BY <1>1
      <3>2. x + (z - n) = d + t
        <4>1. h \in Nat /\ s \in Nat /\ d \in Nat /\ t \in Nat
          BY <1>4, <1>12, <1>13
        <4>2. x = h + n - s /\ h + z = s + d + t
          BY <1>13, <1>16
        <4> QED
          BY <3>1, <4>1, <4>2
      <3> QED
        BY <1>12, <2>1, <2>6, <3>2
    <2> QED
      BY <1>23, <2>1, <2>2, <2>4, <2>7, <2>8 DEF OneTape
  <1>25. Filled(Read(b, n))
    <2>1. w - e + 1 \in Nat /\ z - n \in Nat
      BY <1>1, <1>2, <1>11
    <2>2. Filled([units |-> v, write |-> w - e + 1, size |-> z - n])
      BY <1>23, <1>24, <2>1, CloseBuffer
    <2> QED
      BY <1>10, <1>17, <2>2
  <1>26. Base(e) + v[1].head = h + n
    <2>1. Base(e) = s /\ v[1].head = h + n - s
      BY <1>12, <1>16, <1>22, <1>23
    <2>2. s \in Nat /\ h \in Nat
      BY <1>4, <1>12
    <2> QED
      BY <2>1, <2>2
  <1>27. ASSUME NEW i \in 1 .. m PROVE v[i].buf = u[i + e - 1].buf
    <2>1. CASE i = 1
      <3>1. i + e - 1 = e
        BY <2>1
      <3> QED
        BY <1>22, <1>23, <2>1, <3>1
    <2>2. CASE i # 1
      BY <1>23, <2>2
    <2> QED
      BY <2>1, <2>2
  <1>28. b.units = u /\ b.write = w /\ b.size = z
    BY <1>1
  <1>29. /\ Read(b, n).units = v /\ Read(b, n).write = w - e + 1
         /\ Read(b, n).size = z - n
    BY <1>10, <1>17
  <1>30. Len(Read(b, n).units) = Len(b.units) - e + 1
    BY <1>2, <1>18, <1>23, <1>28, <1>29
  <1>31. Base(e) + Read(b, n).units[1].head = b.units[1].head + n
    BY <1>4, <1>26, <1>28, <1>29
  <1>32. \A i \in 1 .. Len(b.units) - e + 1 :
           Read(b, n).units[i].buf = b.units[i + e - 1].buf
    BY <1>2, <1>18, <1>27, <1>28, <1>29
  <1>33. e \in 1 .. b.write /\ e <= Len(b.units)
    BY <1>2, <1>9, <1>11, <1>28
  <1>34. Read(b, n).size = b.size - n /\ Read(b, n).write = b.write - e + 1
    BY <1>28, <1>29
  <1> QED
    BY <1>25, <1>30, <1>31, <1>32, <1>33, <1>34

----------------------------------------------------------------------------
(* What is in the buffer *)

\* n bytes of the stream, those after the first.
Run(first, n) == [k \in 1 .. n |-> first + k]

LEMMA RunIs ==
    ASSUME NEW first \in Nat, NEW n \in Nat
    PROVE  /\ Run(first, n) \in Seq(Nat)
           /\ Len(Run(first, n)) = n
           /\ \A k \in 1 .. n : Run(first, n)[k] = first + k
  BY DEF Run

\* A sequence of those bytes is that run.
LEMMA RunSame ==
    ASSUME NEW first \in Nat, NEW n \in Nat, NEW s \in Seq(Nat), Len(s) = n,
           \A k \in 1 .. n : s[k] = first + k
    PROVE  s = Run(first, n)
  <1>1. Len(Run(first, n)) = Len(s)
    BY RunIs
  <1>2. \A k \in 1 .. Len(s) : s[k] = Run(first, n)[k]
    BY RunIs
  <1>3. Run(first, n) \in Seq(Nat)
    BY RunIs
  <1> QED
    BY <1>1, <1>2, <1>3, SeqEqual

\* The first n bytes of the tape are the bytes of the stream after the first.
Stored(u, first, n) ==
    \A i \in 1 .. Len(u) : \A p \in 1 .. Capacity :
      u[1].head < Base(i) + p /\ Base(i) + p <= u[1].head + n
        => u[i].buf[p] = first + (Base(i) + p - u[1].head)

\* What Content flattens.
Pieces(u) == [i \in 1 .. Len(u) |-> SubSeq(u[i].buf, u[i].head + 1, u[i].tail)]

\* A unit's piece, byte by byte, and its length.
LEMMA PieceIs ==
    ASSUME NEW f, NEW x \in Nat, NEW y \in Nat, \A p \in y + 1 .. x : f[p] \in Nat
    PROVE  /\ SubSeq(f, y + 1, x) \in Seq(Nat)
           /\ Len(SubSeq(f, y + 1, x)) = IF y + 1 <= x THEN x - (y + 1) + 1 ELSE 0
           /\ \A j \in 1 .. x - (y + 1) + 1 : SubSeq(f, y + 1, x)[j] = f[y + 1 + j - 1]
  <1>1. y + 1 \in Int /\ x \in Int
    OBVIOUS
  <1> QED
    BY <1>1, SubSeqProperties

LEMMA PieceLength ==
    ASSUME NEW x \in Nat, NEW y \in Nat, NEW m \in Nat, m = x - y
    PROVE  (IF y + 1 <= x THEN x - (y + 1) + 1 ELSE 0) = m
  OBVIOUS

\* The arithmetic of a byte's place: the j-th of the m bytes held in a unit
\* that begins at a, with o bytes before it in the tape.
LEMMA PlaceArithmetic ==
    ASSUME NEW x \in Nat, NEW y \in Nat, NEW m \in Nat, NEW c \in Nat,
           NEW a \in Nat, NEW h \in Nat, NEW o \in Nat, NEW z \in Nat,
           m = x - y, x <= c, o = a + y - h, o + m <= z,
           NEW j \in 1 .. m
    PROVE  /\ y + j \in 1 .. c /\ y + j <= x /\ o + j \in 1 .. z
           /\ a + (y + j) - h = o + j
           /\ h < a + (y + j) /\ a + (y + j) <= h + z
  OBVIOUS

LEMMA ContentIs ==
    ASSUME NEW b, Filled(b), NEW first \in Nat, Stored(b.units, first, b.size)
    PROVE  Content(b) = Run(first, b.size)
  <1>1. PICK u \in Seq(Unit), w \in Nat, z \in Nat :
          b = [units |-> u, write |-> w, size |-> z] /\ OneTape(u, w, z)
    BY OpenBuffer
  <1>2. PICK l \in Nat : l = Len(u) /\ w \in 1 .. l
    BY <1>1 DEF OneTape
  <1> DEFINE off0 == [i \in 1 .. l + 1 |->
                        IF i = 1 THEN 0
                        ELSE IF i <= w THEN Base(i) - u[1].head ELSE z]
  <1>3. Len(HeldIn(u)) = l /\ Offsets(off0, HeldIn(u), l)
    <2>1. OneTape(u, w, z)
      BY <1>1
    <2>2. l = Len(u)
      BY <1>2
    <2> QED
      BY <2>1, <2>2, HeldIs
  <1>4. PICK h \in Nat : h = u[1].head /\ h <= Capacity
    BY <1>2, UnitIs
  <1>5. PICK off : off = off0 /\ Offsets(off, HeldIn(u), l)
    BY <1>3
  <1>6. \A i \in 1 .. l + 1 :
          off[i] = IF i = 1 THEN 0 ELSE IF i <= w THEN Base(i) - h ELSE z
    BY <1>4, <1>5
  <1> HIDE DEF off0
  <1>7. off[l + 1] = z
    <2>1. l + 1 \in 1 .. l + 1 /\ l + 1 # 1 /\ ~ (l + 1 <= w)
      BY <1>2
    <2> QED
      BY <1>6, <2>1
  <1>8. PICK len : /\ len = HeldIn(u) /\ Offsets(off, len, l)
                   /\ \A i \in 1 .. l : len[i] = u[i].tail - u[i].head
    <2>1. \A i \in 1 .. l : HeldIn(u)[i] = u[i].tail - u[i].head
      BY <1>2 DEF HeldIn, Readable
    <2> QED
      BY <1>5, <2>1
  <1>9. \A i \in 1 .. l : /\ len[i] \in Nat /\ off[i] \in Nat
                          /\ off[i + 1] = off[i] + len[i]
    <2>1. /\ off \in [1 .. l + 1 -> Nat]
          /\ \A i \in 1 .. l : len[i] \in Nat /\ off[i + 1] = off[i] + len[i]
      BY <1>8 DEF Offsets
    <2>2. \A i \in 1 .. l : i \in 1 .. l + 1
      OBVIOUS
    <2> QED
      BY <2>1, <2>2
  <1>10. b.units = u /\ b.size = z
    BY <1>1
  \* Where a byte of unit i is.
  <1>11. ASSUME NEW i \in 1 .. l, NEW j \in 1 .. len[i]
         PROVE  /\ off[i] + j \in 1 .. z
                /\ u[i].head + j \in 1 .. Capacity
                /\ u[i].head + j <= u[i].tail
                /\ u[i].buf[u[i].head + j] = first + (off[i] + j)
    <2>1. u[i].tail \in Nat /\ u[i].head \in Nat /\ u[i].tail <= Capacity
      BY <1>2, UnitIs
    <2>2. PICK x \in Nat, y \in Nat, m \in Nat, c \in Nat :
            /\ x = u[i].tail /\ y = u[i].head /\ m = len[i] /\ c = Capacity
            /\ m = x - y /\ x <= c
      BY <1>8, <1>9, <2>1, CapacityAssumption
    <2>3. i <= w
      <3>1. i > w => x = 0
        BY <1>1, <1>2, <2>2 DEF OneTape
      <3> QED
        BY <2>2, <3>1
    <2>4. PICK a \in Nat : a = Base(i)
      <3>1. i \in Nat \ {0}
        OBVIOUS
      <3>2. Base(i) \in Nat
        BY <3>1, BaseIs
      <3> QED
        BY <3>2
    <2>5. off[i] = a + y - h
      <3>1. i > 1 => y = 0
        BY <1>1, <1>2, <2>2 DEF OneTape
      <3>2. i = 1 => y = h /\ a = 0
        BY <1>4, <2>2, <2>4, BaseIs
      <3>3. off[i] = IF i = 1 THEN 0 ELSE a - h
        BY <1>6, <2>3, <2>4
      <3> QED
        BY <3>1, <3>2, <3>3
    <2>6. off[i] \in Nat /\ off[i + 1] = off[i] + m /\ off[i + 1] <= z
      <3>1. i + 1 \in 1 .. l + 1 /\ l + 1 \in 1 .. l + 1
        OBVIOUS
      <3>2. off[i + 1] <= off[l + 1]
        <4>1. i + 1 \in 1 .. l + 1 /\ i + 1 <= l + 1 /\ i + 1 \in 1 .. (l + 1)
          OBVIOUS
        <4>2. \A q \in 1 .. l + 1 : \A r \in 1 .. q : off[r] <= off[q]
          BY <1>8, OffsetsGrow
        <4> QED
          BY <3>1, <4>1, <4>2
      <3>3. off[i] \in Nat /\ off[i + 1] = off[i] + len[i]
        BY <1>9
      <3> QED
        BY <1>7, <2>2, <3>2, <3>3
    <2>7. PICK o \in Nat : o = off[i] /\ o = a + y - h /\ o + m <= z
      BY <2>5, <2>6
    <2>8. y + j \in 1 .. c /\ y + j <= x /\ o + j \in 1 .. z
          /\ a + (y + j) - h = o + j
          /\ h < a + (y + j) /\ a + (y + j) <= h + z
      <3>1. j \in 1 .. m
        BY <2>2
      <3>2. m = x - y /\ x <= c /\ o = a + y - h /\ o + m <= z
        BY <2>2, <2>7
      <3> QED
        BY <3>1, <3>2, PlaceArithmetic
    <2>10. u[i].buf[y + j] = first + (a + (y + j) - h)
      BY <1>2, <1>4, <1>10, <2>2, <2>4, <2>8 DEF Stored
    <2> QED
      BY <2>2, <2>7, <2>8, <2>10
  <1>12. ASSUME NEW i \in 1 .. l
         PROVE  /\ Pieces(u)[i] \in Seq(Nat)
                /\ Len(Pieces(u)[i]) = len[i]
                /\ \A j \in 1 .. len[i] : Pieces(u)[i][j] = first + (off[i] + j)
    <2>1. u[i].tail \in Nat /\ u[i].head \in Nat
      BY <1>2, UnitIs
    <2>2. PICK x \in Nat, y \in Nat, m \in Nat :
            x = u[i].tail /\ y = u[i].head /\ m = len[i] /\ m = x - y
      BY <1>8, <1>9, <2>1
    <2>3. Pieces(u)[i] = SubSeq(u[i].buf, y + 1, x)
      BY <1>2, <2>2 DEF Pieces
    <2>4. ASSUME NEW p \in y + 1 .. x PROVE u[i].buf[p] \in Nat
      <3>1. p - y \in 1 .. len[i] /\ y + (p - y) = p
        <4>1. p - y \in 1 .. m /\ y + (p - y) = p
          <5>1. m = x - y
            BY <2>2
          <5> QED
            BY <5>1
        <4> QED
          BY <2>2, <4>1
      <3>2. u[i].buf[p] = first + (off[i] + (p - y)) /\ off[i] + (p - y) \in 1 .. z
        BY <1>11, <2>2, <3>1
      <3>3. PICK k \in Nat : k = off[i] + (p - y)
        BY <3>2
      <3> QED
        BY <3>2, <3>3
    <2>5. /\ SubSeq(u[i].buf, y + 1, x) \in Seq(Nat)
          /\ Len(SubSeq(u[i].buf, y + 1, x)) = IF y + 1 <= x THEN x - (y + 1) + 1 ELSE 0
          /\ \A j \in 1 .. x - (y + 1) + 1 :
               SubSeq(u[i].buf, y + 1, x)[j] = u[i].buf[y + 1 + j - 1]
      BY <2>4, PieceIs
    <2>6. (IF y + 1 <= x THEN x - (y + 1) + 1 ELSE 0) = m
      BY <2>2, PieceLength
    <2>7. ASSUME NEW j \in 1 .. m
          PROVE  Pieces(u)[i][j] = first + (off[i] + j)
      <3>1. j \in 1 .. x - (y + 1) + 1 /\ y + 1 + j - 1 = y + j
        <4>1. m = x - y
          BY <2>2
        <4> QED
          BY <4>1
      <3>2. Pieces(u)[i][j] = u[i].buf[y + j]
        BY <2>3, <2>5, <3>1
      <3>3. u[i].buf[y + j] = first + (off[i] + j)
        BY <1>11, <2>2
      <3> QED
        BY <3>2, <3>3
    <2>8. Pieces(u)[i] \in Seq(Nat)
      BY <2>3, <2>5
    <2>9. Len(Pieces(u)[i]) = m
      BY <2>3, <2>5, <2>6
    <2> QED
      BY <2>2, <2>7, <2>8, <2>9, Zenon
  <1>13. PICK s : s = Pieces(u) /\ Len(s) = l
    <2>1. Len([i \in 1 .. l |-> SubSeq(u[i].buf, u[i].head + 1, u[i].tail)]) = l
      OBVIOUS
    <2> QED
      BY <1>2, <2>1 DEF Pieces
  <1>14. Content(b) = FlattenSeq(s)
    BY <1>10, <1>13 DEF Content, Pieces
  <1>15. /\ FlattenSeq(s) \in Seq(Nat)
         /\ Len(FlattenSeq(s)) = z
         /\ \A i \in 1 .. l : \A k \in 1 .. len[i] :
              FlattenSeq(s)[off[i] + k] = s[i][k]
         /\ \A k \in 1 .. z :
              \E i \in 1 .. l : \E j \in 1 .. len[i] : k = off[i] + j
    <2>1. \A i \in 1 .. l : s[i] \in Seq(Nat) /\ Len(s[i]) = len[i]
      BY <1>12, <1>13
    <2>2. l > 0 /\ Offsets(off, len, l)
      BY <1>2, <1>8
    <2>3. ArePieces(s, len, l, Nat)
      BY <2>1 DEF ArePieces
    <2>4. IsFlat(FlattenSeq(s), s, off, len, l, Nat)
      BY <1>13, <2>2, <2>3, FlattenElements
    <2> QED
      BY <1>7, <2>4, Zenon DEF IsFlat
  <1>16. ASSUME NEW k \in 1 .. z PROVE FlattenSeq(s)[k] = first + k
    <2>1. PICK i \in 1 .. l : \E j \in 1 .. len[i] : k = off[i] + j
      BY <1>15
    <2>2. PICK j \in 1 .. len[i] : k = off[i] + j
      BY <2>1
    <2>3. FlattenSeq(s)[off[i] + j] = s[i][j]
      BY <1>15
    <2>4. s[i][j] = first + (off[i] + j)
      BY <1>12, <1>13
    <2> QED
      BY <2>2, <2>3, <2>4
  <1>17. FlattenSeq(s) = Run(first, z)
    BY <1>15, <1>16, RunSame
  <1> QED
    BY <1>10, <1>14, <1>17

\* What Peek and Read copy out.
LEMMA FirstBytesIs ==
    ASSUME NEW b, Filled(b), NEW first \in Nat, Stored(b.units, first, b.size),
           NEW n \in Nat, n <= b.size
    PROVE  FirstBytes(b, n) = Run(first, n)
  <1>1. PICK z \in Nat : z = b.size
    BY DEF Filled
  <1>2. FirstBytes(b, n) = SubSeq(Run(first, z), 1, n)
    BY <1>1, ContentIs DEF FirstBytes
  <1>3. PICK s \in Seq(Nat) : s = Run(first, z)
    BY RunIs
  <1>4. Len(s) = z /\ \A k \in 1 .. z : s[k] = first + k
    BY <1>3, RunIs
  <1>5. \A k \in 1 .. n : s[k] \in Nat
    BY <1>1, <1>4
  <1>6. /\ SubSeq(s, 1, n) \in Seq(Nat)
        /\ Len(SubSeq(s, 1, n)) = n
        /\ \A k \in 1 .. n : SubSeq(s, 1, n)[k] = s[k]
    <2>1. /\ SubSeq(s, 1, n) \in Seq(Nat)
          /\ Len(SubSeq(s, 1, n)) = IF 1 <= n THEN n - 1 + 1 ELSE 0
          /\ \A k \in 1 .. n - 1 + 1 : SubSeq(s, 1, n)[k] = s[1 + k - 1]
      BY <1>5, SubSeqProperties
    <2>2. \A k \in 1 .. n : 1 + k - 1 = k
      OBVIOUS
    <2> QED
      BY <2>1, <2>2
  <1>7. \A k \in 1 .. n : SubSeq(s, 1, n)[k] = first + k
    BY <1>1, <1>4, <1>6
  <1>8. SubSeq(s, 1, n) = Run(first, n)
    BY <1>6, <1>7, RunSame
  <1> QED
    BY <1>2, <1>3, <1>8

----------------------------------------------------------------------------
(* What the kernel writes *)

\* The places the WSABUFs cover, one sequence for each of them.
PlaceSeqs(ws) == [i \in 1 .. Len(ws) |->
                    [k \in 1 .. ws[i].len |-> <<ws[i].unit, ws[i].at + k>>]]

Places(ws) == FlattenSeq(PlaceSeqs(ws))

\* A place of the tape belongs to one unit.
LEMMA PlaceUnique ==
    ASSUME NEW i \in Nat \ {0}, NEW j \in Nat \ {0},
           NEW p \in 1 .. Capacity, NEW q \in 1 .. Capacity,
           Base(i) + p = Base(j) + q
    PROVE  i = j /\ p = q
  <1> USE CapacityAssumption
  <1>1. PICK a \in Nat, c \in Nat : a = Base(i) /\ c = Base(j) /\ a + p = c + q
    BY BaseIs
  <1>2. ~ (i < j)
    <2>1. i < j => a + Capacity <= c
      BY <1>1, BaseIs
    <2> QED
      BY <1>1, <2>1
  <1>3. ~ (j < i)
    <2>1. j < i => c + Capacity <= a
      BY <1>1, BaseIs
    <2> QED
      BY <1>1, <2>1
  <1>4. i = j
    BY <1>2, <1>3
  <1> QED
    BY <1>1, <1>4

\* The WSABUFs cover the tape from its end to the end of the last unit posted,
\* in order.
LEMMA PlacesIs ==
    ASSUME NEW b, Filled(b), Len(b.units) = b.write + BufCount
    PROVE  /\ Len(Places(WsaBufs(b))) \in Nat
           /\ Len(Places(WsaBufs(b))) = Base(BufCount + 1) - b.units[b.write].tail
           /\ \A k \in 1 .. Len(Places(WsaBufs(b))) :
                \E v \in 1 .. Len(b.units) : \E p \in 1 .. Capacity :
                  /\ Places(WsaBufs(b))[k] = <<v, p>>
                  /\ Base(v) + p = b.units[1].head + b.size + k
  <1> USE BufCountAssumption
  <1>1. PICK u \in Seq(Unit), w \in Nat, z \in Nat :
          b = [units |-> u, write |-> w, size |-> z] /\ OneTape(u, w, z)
    BY OpenBuffer
  <1>2. PICK l \in Nat : l = Len(u) /\ w \in 1 .. l
    BY <1>1 DEF OneTape
  <1>0. PICK m : m = RoomUnits(b)
    OBVIOUS
  <1> DEFINE off0 == [i \in 1 .. m + 1 |-> IF i = 1 THEN 0 ELSE Base(i) - u[w].tail]
  <1>4. Len(WriteRoom(b)) = m /\ Offsets(off0, WriteRoom(b), m)
    BY <1>1, <1>0, WriteRoomIs
  <1>3. m = BufCount /\ m \in Nat /\ m > 0 /\ l = w + m
    <2>1. Len(b.units) = l /\ b.write = w /\ w # l /\ l - w = BufCount
      BY <1>1, <1>2
    <2>2. m = BufCount
      BY <1>0, <2>1 DEF RoomUnits
    <2> QED
      BY <1>2, <2>1, <2>2
  <1>5. PICK t \in Nat : t = u[w].tail /\ t <= Capacity
    BY <1>2, UnitIs
  <1>6. PICK off : off = off0 /\ Offsets(off, WriteRoom(b), m)
    BY <1>4
  <1>7. \A i \in 1 .. m + 1 : off[i] = IF i = 1 THEN 0 ELSE Base(i) - t
    BY <1>5, <1>6
  <1> HIDE DEF off0
  <1>8. b.units = u /\ b.write = w /\ b.size = z
    BY <1>1
  <1>a. PICK len : len = WriteRoom(b)
    OBVIOUS
  <1>9. Offsets(off, len, m)
    BY <1>6, <1>a
  <1>10. \A i \in 1 .. m : /\ len[i] \in Nat /\ off[i] \in Nat
                           /\ off[i + 1] = off[i] + len[i]
    <2>1. /\ off \in [1 .. m + 1 -> Nat]
          /\ \A i \in 1 .. m : len[i] \in Nat /\ off[i + 1] = off[i] + len[i]
      BY <1>9 DEF Offsets
    <2>2. \A i \in 1 .. m : i \in 1 .. m + 1
      BY <1>3
    <2> QED
      BY <2>1, <2>2
  <1>11. \A i \in 1 .. m : len[i] = Writeable(u[w + i - 1])
    <2>1. w # Len(u) /\ Len(u) - w = m
      BY <1>2, <1>3
    <2>2. WriteRoom(b) = [i \in 1 .. m |-> Writeable(u[w + i - 1])]
      BY <1>8, <2>1 DEF WriteRoom
    <2> QED
      BY <1>a, <2>2
  <1>12. PICK ws : ws = WsaBufs(b)
    OBVIOUS
  <1>13. /\ Len(ws) = m
         /\ \A i \in 1 .. m : /\ ws[i].unit = w + i - 1
                              /\ ws[i].at = u[w + i - 1].tail
                              /\ ws[i].len = len[i]
    <2>1. ws = [i \in 1 .. m |-> [unit |-> w + i - 1, at |-> u[w + i - 1].tail,
                                  len |-> Writeable(u[w + i - 1])]]
      BY <1>3, <1>8, <1>12 DEF WsaBufs
    <2>2. Len(ws) = m
      BY <1>3, <2>1
    <2>3. ASSUME NEW i \in 1 .. m
          PROVE  /\ ws[i].unit = w + i - 1
                 /\ ws[i].at = u[w + i - 1].tail
                 /\ ws[i].len = len[i]
      <3>1. ws[i] = [unit |-> w + i - 1, at |-> u[w + i - 1].tail,
                     len |-> Writeable(u[w + i - 1])]
        BY <2>1
      <3> QED
        BY <1>11, <3>1
    <2> QED
      BY <2>2, <2>3
  \* What the i-th WSABUF covers.
  <1>14. ASSUME NEW i \in 1 .. m, NEW j \in 1 .. len[i]
         PROVE  \E v \in 1 .. l : \E p \in 1 .. Capacity :
                  /\ v = w + i - 1 /\ p = u[w + i - 1].tail + j
                  /\ Base(v) + p = u[1].head + z + (off[i] + j)
    <2>1. PICK v \in Nat : v = w + i - 1 /\ v \in 1 .. l
      BY <1>2, <1>3
    <2>2. u[v].tail \in Nat /\ u[v].tail <= Capacity /\ u[1].head \in Nat
          /\ Capacity \in Nat
      <3>1. u[v] \in Unit /\ u[1] \in Unit
        BY <1>2, <2>1
      <3> QED
        BY <3>1, UnitIs, CapacityAssumption
    <2>3. PICK y \in Nat, c \in Nat, h \in Nat :
            y = u[v].tail /\ c = Capacity /\ y <= c /\ h = u[1].head
      BY <2>2
    <2>4. len[i] = c - y
      BY <1>11, <2>1, <2>3 DEF Writeable
    <2>5. PICK a \in Nat, d \in Nat : a = Base(i) /\ d = Base(w) /\ Base(v) = d + a
      <3>1. i \in Nat \ {0} /\ w \in Nat \ {0}
        BY <1>2
      <3>2. Base(i) \in Nat /\ Base(w) \in Nat /\ Base(w + i - 1) = Base(w) + Base(i)
        BY <3>1, BaseIs
      <3> QED
        BY <2>1, <3>2
    <2>6. PICK o \in Nat : o = off[i]
      BY <1>10
    <2>7. o = a + y - t
      <3>1. i = 1 => o = 0 /\ a = 0 /\ y = t
        <4>1. i = 1 => v = w
          BY <1>2, <2>1
        <4>2. i = 1 => o = 0
          BY <1>3, <1>7, <2>6
        <4> QED
          BY <1>5, <2>3, <2>5, <4>1, <4>2, BaseIs
      <3>2. i > 1 => o = a - t /\ y = 0
        <4>1. i > 1 => v > w
          BY <1>2, <2>1
        <4>2. i > 1 => y = 0
          BY <1>1, <1>2, <2>1, <2>3, <4>1 DEF OneTape
        <4>3. i \in 1 .. m + 1
          BY <1>3
        <4> QED
          BY <1>7, <2>5, <2>6, <4>2, <4>3
      <3> QED
        BY <3>1, <3>2
    <2>8. h + z = d + t
      BY <1>1, <1>5, <2>3, <2>5 DEF OneTape
    <2>9. y + j \in 1 .. c
      BY <2>3, <2>4
    <2>10. (d + a) + (y + j) = h + z + (o + j)
      BY <2>7, <2>8
    <2>11. PICK p \in 1 .. Capacity : p = y + j
      BY <2>3, <2>9
    <2>12. p = u[w + i - 1].tail + j
      BY <2>1, <2>3, <2>11
    <2>13. Base(v) + p = u[1].head + z + (off[i] + j)
      BY <2>3, <2>5, <2>6, <2>10, <2>11
    <2> QED
      BY <2>1, <2>12, <2>13
  <1>15. PICK s : s = PlaceSeqs(ws) /\ Len(s) = m
    <2>1. Len([i \in 1 .. m |-> [k \in 1 .. ws[i].len |->
                                  <<ws[i].unit, ws[i].at + k>>]]) = m
      BY <1>3
    <2> QED
      BY <1>13, <2>1 DEF PlaceSeqs
  <1>16. ASSUME NEW i \in 1 .. m
         PROVE  /\ s[i] \in Seq(Nat \X Nat) /\ Len(s[i]) = len[i]
                /\ \A j \in 1 .. len[i] :
                     s[i][j] = <<w + i - 1, u[w + i - 1].tail + j>>
    <2>1. s[i] = [k \in 1 .. len[i] |-> <<w + i - 1, u[w + i - 1].tail + k>>]
      <3>1. s[i] = [k \in 1 .. ws[i].len |-> <<ws[i].unit, ws[i].at + k>>]
        BY <1>13, <1>15 DEF PlaceSeqs
      <3> QED
        BY <1>13, <3>1
    <2>2. \A k \in 1 .. len[i] : <<w + i - 1, u[w + i - 1].tail + k>> \in Nat \X Nat
      BY <1>2, <1>14
    <2>3. PICK k \in Nat : k = len[i]
      BY <1>10
    <2>4. s[i] \in [1 .. k -> Nat \X Nat]
      BY <2>1, <2>2, <2>3
    <2>5. s[i] \in Seq(Nat \X Nat) /\ Len(s[i]) = k
      BY <2>4
    <2> QED
      BY <2>1, <2>3, <2>5
  <1>b. PICK f : f = FlattenSeq(s)
    OBVIOUS
  <1>17. /\ f \in Seq(Nat \X Nat) /\ Len(f) = off[m + 1]
         /\ \A i \in 1 .. m : \A k \in 1 .. len[i] : f[off[i] + k] = s[i][k]
         /\ \A k \in 1 .. off[m + 1] :
              \E i \in 1 .. m : \E j \in 1 .. len[i] : k = off[i] + j
    <2>1. ArePieces(s, len, m, Nat \X Nat)
      BY <1>16 DEF ArePieces
    <2>2. IsFlat(FlattenSeq(s), s, off, len, m, Nat \X Nat)
      <3>1. Len(s) = m /\ Offsets(off, len, m)
        BY <1>9, <1>15
      <3> QED
        BY <1>3, <2>1, <3>1, FlattenElements, Zenon
    <2> QED
      BY <1>b, <2>2, Zenon DEF IsFlat
  <1>18. Len(f) \in Nat /\ Len(f) = Base(m + 1) - t
    <2>1. m + 1 \in 1 .. m + 1 /\ m + 1 # 1
      BY <1>3
    <2> QED
      BY <1>7, <1>17, <2>1
  <1>19. ASSUME NEW k \in 1 .. Len(f)
         PROVE  \E v \in 1 .. l : \E p \in 1 .. Capacity :
                  f[k] = <<v, p>> /\ Base(v) + p = u[1].head + z + k
    <2>0. k \in 1 .. off[m + 1]
      BY <1>17
    <2>1. PICK i \in 1 .. m : \E j \in 1 .. len[i] : k = off[i] + j
      BY <1>17, <2>0, Zenon
    <2>2. PICK j \in 1 .. len[i] : k = off[i] + j
      BY <2>1
    <2>3. f[off[i] + j] = s[i][j]
      BY <1>17
    <2>4. f[k] = <<w + i - 1, u[w + i - 1].tail + j>>
      BY <1>16, <2>2, <2>3
    <2> QED
      BY <1>14, <2>2, <2>4
  <1>20. f = Places(WsaBufs(b))
    BY <1>12, <1>15, <1>b DEF Places
  <1> QED
    BY <1>2, <1>3, <1>5, <1>8, <1>18, <1>19, <1>20

\* The bytes o of unit v when the kernel has put the x + k-th byte of the
\* stream into the k-th of the places, for the first n of them.
LandedIn(o, v, places, n, x) ==
    [p \in 1 .. Capacity |->
       IF \E k \in 1 .. n : places[k] = <<v, p>>
       THEN x + (CHOOSE k \in 1 .. n : places[k] = <<v, p>>)
       ELSE o[p]]

Landed(u, places, n, x) ==
    [v \in 1 .. Len(u) |-> [u[v] EXCEPT !.buf = LandedIn(@, v, places, n, x)]]

\* A completion of n bytes extends what is stored by n bytes.
LEMMA LandedIs ==
    ASSUME NEW b, Filled(b), Len(b.units) = b.write + BufCount,
           NEW places, places = Places(WsaBufs(b)),
           NEW n \in Nat, n <= Len(places),
           NEW first \in Nat, Stored(b.units, first, b.size)
    PROVE  \E c : /\ c = [b EXCEPT !.units = Landed(@, places, n, first + b.size)]
                  /\ Filled(c)
                  /\ c.size = b.size /\ c.write = b.write
                  /\ Len(c.units) = Len(b.units)
                  /\ \A i \in 1 .. Len(b.units) :
                       /\ c.units[i].head = b.units[i].head
                       /\ c.units[i].tail = b.units[i].tail
                  /\ Stored(c.units, first, c.size + n)
  <1>1. PICK u \in Seq(Unit), w \in Nat, z \in Nat :
          b = [units |-> u, write |-> w, size |-> z] /\ OneTape(u, w, z)
    BY OpenBuffer
  <1>2. PICK l \in Nat : l = Len(u) /\ w \in 1 .. l
    BY <1>1 DEF OneTape
  <1>3. b.units = u /\ b.write = w /\ b.size = z
    BY <1>1
  <1>4. PICK h \in Nat : h = u[1].head /\ h <= Capacity
    BY <1>2, UnitIs
  <1>5. PICK x \in Nat : x = first + z
    OBVIOUS
  <1>6. ASSUME NEW k \in 1 .. n
        PROVE  \E v \in 1 .. l : \E p \in 1 .. Capacity :
                 places[k] = <<v, p>> /\ Base(v) + p = h + z + k
    <2>1. Len(places) \in Nat
      BY PlacesIs
    <2>2. k \in 1 .. Len(places)
      BY <2>1
    <2> QED
      BY <1>2, <1>3, <1>4, <2>2, PlacesIs
  \* Which byte lands at a place.
  <1>7. ASSUME NEW v \in 1 .. l, NEW p \in 1 .. Capacity
        PROVE  /\ (\E k \in 1 .. n : places[k] = <<v, p>>) <=>
                    h + z < Base(v) + p /\ Base(v) + p <= h + z + n
               /\ \A k \in 1 .. n : places[k] = <<v, p>> => Base(v) + p = h + z + k
    <2>1. ASSUME NEW k \in 1 .. n, places[k] = <<v, p>>
          PROVE  Base(v) + p = h + z + k
      <3>1. PICK y \in 1 .. l, q \in 1 .. Capacity :
              places[k] = <<y, q>> /\ Base(y) + q = h + z + k
        BY <1>6
      <3>2. y = v /\ q = p
        BY <2>1, <3>1
      <3> QED
        BY <3>1, <3>2
    <2>2. PICK a \in Nat : a = Base(v)
      <3>1. v \in Nat \ {0}
        OBVIOUS
      <3>2. Base(v) \in Nat
        BY <3>1, BaseIs
      <3> QED
        BY <3>2
    <2>3. ASSUME h + z < a + p, a + p <= h + z + n
          PROVE  \E k \in 1 .. n : places[k] = <<v, p>>
      <3>1. PICK k \in 1 .. n : a + p = h + z + k
        <4>1. a + p - (h + z) \in 1 .. n /\ a + p = h + z + (a + p - (h + z))
          BY <2>3, CapacityAssumption
        <4> QED
          BY <4>1
      <3>2. PICK y \in 1 .. l, q \in 1 .. Capacity :
              places[k] = <<y, q>> /\ Base(y) + q = h + z + k
        BY <1>6
      <3>3. y \in Nat \ {0} /\ v \in Nat \ {0} /\ Base(y) + q = Base(v) + p
        BY <2>2, <3>1, <3>2
      <3>4. y = v /\ q = p
        BY <3>3, PlaceUnique
      <3> QED
        BY <3>2, <3>4
    <2>4. ASSUME NEW k \in 1 .. n, places[k] = <<v, p>>
          PROVE  h + z < a + p /\ a + p <= h + z + n
      <3>1. a + p = h + z + k
        BY <2>1, <2>2, <2>4
      <3> QED
        BY <3>1
    <2> QED
      BY <2>1, <2>2, <2>3, <2>4
  <1>8. PICK r : r = Landed(u, places, n, x)
    OBVIOUS
  <1>9. ASSUME NEW v \in 1 .. l
        PROVE  /\ r[v] = [u[v] EXCEPT !.buf = r[v].buf]
               /\ r[v].buf \in [1 .. Capacity -> Nat \cup {None}]
               /\ \A p \in 1 .. Capacity :
                    IF h + z < Base(v) + p /\ Base(v) + p <= h + z + n
                    THEN r[v].buf[p] = first + (Base(v) + p - h)
                    ELSE r[v].buf[p] = u[v].buf[p]
    <2>1. PICK g : g = LandedIn(u[v].buf, v, places, n, x)
      OBVIOUS
    <2>2. u[v] \in Unit
      BY <1>2
    <2>3. r[v] = [u[v] EXCEPT !.buf = g]
      BY <1>2, <1>8, <2>1 DEF Landed
    <2>4. r[v].buf = g
      BY <2>2, <2>3 DEF Unit
    <2>5. PICK a \in Nat : a = Base(v)
      <3>1. v \in Nat \ {0}
        OBVIOUS
      <3>2. Base(v) \in Nat
        BY <3>1, BaseIs
      <3> QED
        BY <3>2
    <2>6. ASSUME NEW p \in 1 .. Capacity
          PROVE  /\ g[p] \in Nat \cup {None}
                 /\ IF h + z < a + p /\ a + p <= h + z + n
                    THEN g[p] = first + (a + p - h)
                    ELSE g[p] = u[v].buf[p]
      <3>1. g[p] = IF \E k \in 1 .. n : places[k] = <<v, p>>
                   THEN x + (CHOOSE k \in 1 .. n : places[k] = <<v, p>>)
                   ELSE u[v].buf[p]
        BY <2>1, Zenon DEF LandedIn
      <3>2. CASE \E k \in 1 .. n : places[k] = <<v, p>>
        <4>1. PICK k : /\ k = CHOOSE j \in 1 .. n : places[j] = <<v, p>>
                       /\ k \in 1 .. n /\ places[k] = <<v, p>>
          BY <3>2
        <4>2. g[p] = x + k
          BY <3>1, <3>2, <4>1
        <4>3. a + p = h + z + k /\ h + z < a + p /\ a + p <= h + z + n
          BY <1>7, <2>5, <3>2, <4>1
        <4>4. x + k = first + (a + p - h) /\ x + k \in Nat
          <5>1. k \in Nat
            BY <4>1
          <5> QED
            BY <1>5, <4>3, <5>1
        <4> QED
          BY <4>2, <4>3, <4>4
      <3>3. CASE ~ \E k \in 1 .. n : places[k] = <<v, p>>
        <4>1. g[p] = u[v].buf[p]
          BY <3>1, <3>3
        <4>2. ~ (h + z < a + p /\ a + p <= h + z + n)
          BY <1>7, <2>5, <3>3
        <4>3. u[v].buf[p] \in Nat \cup {None}
          BY <2>2, UnitIs
        <4> QED
          BY <4>1, <4>2, <4>3
      <3> QED
        BY <3>2, <3>3
    <2>7. g \in [1 .. Capacity -> Nat \cup {None}]
      <3>1. g = [p \in 1 .. Capacity |-> g[p]]
        BY <2>1 DEF LandedIn
      <3> QED
        BY <2>6, <3>1
    <2> QED
      BY <2>3, <2>4, <2>5, <2>6, <2>7
  <1>10. ASSUME NEW v \in 1 .. l
         PROVE  /\ r[v] \in Unit /\ r[v].head = u[v].head /\ r[v].tail = u[v].tail
    <2>1. u[v] \in Unit
      BY <1>2
    <2>2. PICK g \in [1 .. Capacity -> Nat \cup {None}] : r[v] = [u[v] EXCEPT !.buf = g]
      BY <1>9
    <2> QED
      BY <2>1, <2>2 DEF Unit
  <1>11. r \in Seq(Unit) /\ Len(r) = l
    <2>1. r = [v \in 1 .. l |-> r[v]]
      BY <1>2, <1>8 DEF Landed
    <2> QED
      BY <1>2, <1>10, <2>1
  <1>12. OneTape(r, w, z)
    <2>1. 1 \in 1 .. l
      BY <1>2
    <2>2. r[1].head = u[1].head /\ r[1].tail = u[1].tail /\ r[w].tail = u[w].tail
      BY <1>2, <1>10, <2>1
    <2>3. \A i \in 1 .. l : /\ i < w => r[i].tail = Capacity
                            /\ i > w => r[i].tail = 0
                            /\ i > 1 => r[i].head = 0
      BY <1>1, <1>2, <1>10 DEF OneTape
    <2> QED
      BY <1>1, <1>2, <1>11, <2>2, <2>3 DEF OneTape
  <1>13. Stored(r, first, z + n)
    <2>1. r[1].head = h
      BY <1>2, <1>4, <1>10
    <2>2. ASSUME NEW i \in 1 .. l, NEW p \in 1 .. Capacity,
                 h < Base(i) + p, Base(i) + p <= h + (z + n)
          PROVE  r[i].buf[p] = first + (Base(i) + p - h)
      <3>1. PICK a \in Nat : a = Base(i)
        <4>1. i \in Nat \ {0}
          OBVIOUS
        <4>2. Base(i) \in Nat
          BY <4>1, BaseIs
        <4> QED
          BY <4>2
      <3>2. CASE h + z < a + p
        <4>1. a + p <= h + z + n
          BY <2>2, <3>1
        <4> QED
          BY <1>9, <3>1, <3>2, <4>1
      <3>3. CASE ~ (h + z < a + p)
        <4>1. a + p <= h + z
          BY <3>3, CapacityAssumption
        <4>2. r[i].buf[p] = u[i].buf[p]
          BY <1>9, <3>1, <3>3
        <4>3. u[i].buf[p] = first + (Base(i) + p - u[1].head)
          BY <1>2, <1>3, <1>4, <2>2, <3>1, <4>1 DEF Stored
        <4> QED
          BY <1>4, <4>2, <4>3
      <3> QED
        BY <3>2, <3>3
    <2> QED
      BY <1>11, <2>1, <2>2 DEF Stored
  <1>14. PICK c : c = [units |-> r, write |-> w, size |-> z]
    OBVIOUS
  <1>15. c = [b EXCEPT !.units = Landed(@, places, n, first + b.size)]
    BY <1>1, <1>3, <1>5, <1>8, <1>14
  <1>16. Filled(c)
    BY <1>11, <1>12, <1>14, CloseBuffer
  <1>17. c.units = r /\ c.size = z /\ c.write = w
    BY <1>14
  <1>18. /\ c.size = b.size /\ c.write = b.write
         /\ Len(c.units) = Len(b.units)
    BY <1>2, <1>3, <1>11, <1>17
  <1>19. \A i \in 1 .. Len(b.units) :
           /\ c.units[i].head = b.units[i].head
           /\ c.units[i].tail = b.units[i].tail
    BY <1>2, <1>3, <1>10, <1>17
  <1>20. Stored(c.units, first, c.size + n)
    BY <1>13, <1>17
  <1> QED
    BY <1>15, <1>16, <1>18, <1>19, <1>20

----------------------------------------------------------------------------
(* What is stored survives the buffer's operations *)

\* Where only counters change.
LEMMA StoredSame ==
    ASSUME NEW u, NEW v, Len(u) \in Nat, Len(v) = Len(u), v[1].head = u[1].head,
           \A i \in 1 .. Len(u) : v[i].buf = u[i].buf,
           NEW first, NEW n, Stored(u, first, n)
    PROVE  Stored(v, first, n)
  BY DEF Stored

\* The units pushed hold nothing that is stored.
LEMMA StoredGrown ==
    ASSUME NEW b, Filled(b), Len(b.units) <= b.write + BufCount,
           NEW first \in Nat, Stored(b.units, first, b.size)
    PROVE  Stored(Grown(b).units, first, b.size)
  <1>1. PICK u \in Seq(Unit), w \in Nat, z \in Nat :
          b = [units |-> u, write |-> w, size |-> z] /\ OneTape(u, w, z)
    BY OpenBuffer
  <1>2. PICK l \in Nat : l = Len(u) /\ w \in 1 .. l
    BY <1>1 DEF OneTape
  <1>3. b.units = u /\ b.write = w /\ b.size = z
    BY <1>1
  <1>4. PICK v : v = Grown(b).units
    OBVIOUS
  <1>5. Len(v) = w + BufCount /\ \A i \in 1 .. l : v[i] = u[i]
    BY <1>2, <1>3, <1>4, GrownIs
  <1>6. v[1].head = u[1].head
    BY <1>2, <1>5
  <1>7. PICK h \in Nat, t \in Nat : h = u[1].head /\ t = u[w].tail /\ t <= Capacity
    BY <1>2, UnitIs
  <1>8. PICK c \in Nat, d \in Nat : c = Capacity /\ d = Base(w) /\ h + z = d + t
    <2>1. w \in Nat \ {0}
      BY <1>2
    <2>2. Base(w) \in Nat
      BY <2>1, BaseIs
    <2> QED
      BY <1>1, <1>7, <2>2, CapacityAssumption DEF OneTape
  <1>9. ASSUME NEW i \in 1 .. w + BufCount, NEW p \in 1 .. Capacity,
               h < Base(i) + p, Base(i) + p <= h + z
        PROVE  v[i].buf[p] = first + (Base(i) + p - h)
    <2>1. i \in Nat \ {0} /\ w \in Nat \ {0}
      BY <1>2, BufCountAssumption
    <2>2. PICK a \in Nat : a = Base(i)
      BY <2>1, BaseIs
    <2>3. w < i => d + c <= a
      BY <1>8, <2>1, <2>2, BaseIs
    <2>4. i <= w
      <3>1. a + p <= d + t /\ t <= c
        BY <1>7, <1>8, <1>9, <2>2
      <3> QED
        BY <2>1, <2>3, <3>1
    <2>5. i \in 1 .. l
      BY <1>2, <2>1, <2>4
    <2> QED
      BY <1>2, <1>3, <1>5, <1>7, <1>9, <2>5 DEF Stored
  <1> QED
    BY <1>3, <1>4, <1>5, <1>6, <1>7, <1>9 DEF Stored

\* Reading n bytes leaves the bytes after them.
LEMMA StoredRead ==
    ASSUME NEW b, Filled(b), NEW first \in Nat, Stored(b.units, first, b.size),
           NEW n \in Nat, n <= b.size
    PROVE  Stored(Read(b, n).units, first + n, b.size - n)
  <1>1. PICK u \in Seq(Unit), w \in Nat, z \in Nat :
          b = [units |-> u, write |-> w, size |-> z] /\ OneTape(u, w, z)
    BY OpenBuffer
  <1>2. PICK l \in Nat : l = Len(u) /\ w \in 1 .. l
    BY <1>1 DEF OneTape
  <1>3. b.units = u /\ b.write = w /\ b.size = z
    BY <1>1
  <1>4. PICK v : v = Read(b, n).units
    OBVIOUS
  <1>5. PICK e \in 1 .. w :
          /\ Filled(Read(b, n)) /\ e <= l /\ Len(v) = l - e + 1
          /\ Base(e) + v[1].head = u[1].head + n
          /\ \A i \in 1 .. l - e + 1 : v[i].buf = u[i + e - 1].buf
    <2>1. \E e \in 1 .. b.write :
            /\ Filled(Read(b, n)) /\ e <= Len(b.units)
            /\ Len(Read(b, n).units) = Len(b.units) - e + 1
            /\ Base(e) + Read(b, n).units[1].head = b.units[1].head + n
            /\ \A i \in 1 .. Len(b.units) - e + 1 :
                 Read(b, n).units[i].buf = b.units[i + e - 1].buf
      BY ReadIs
    <2> QED
      BY <1>2, <1>3, <1>4, <2>1
  <1>6. PICK m \in Nat : m = l - e + 1 /\ m > 0
    BY <1>2, <1>5
  <1>7. v[1].head \in Nat
    <2>1. v \in Seq(Unit)
      BY <1>4, <1>5 DEF Filled
    <2>2. 1 \in 1 .. Len(v)
      BY <1>5, <1>6
    <2> QED
      BY <2>1, <2>2, UnitIs
  <1>8. PICK h \in Nat, g \in Nat, a \in Nat :
          h = u[1].head /\ g = v[1].head /\ a = Base(e) /\ a + g = h + n
    <2>1. e \in Nat \ {0}
      BY <1>2
    <2>2. Base(e) \in Nat
      BY <2>1, BaseIs
    <2>3. u[1].head \in Nat
      BY <1>2, UnitIs
    <2> QED
      BY <1>5, <1>7, <2>2, <2>3
  <1>9. ASSUME NEW i \in 1 .. m, NEW p \in 1 .. Capacity,
               g < Base(i) + p, Base(i) + p <= g + (z - n)
        PROVE  v[i].buf[p] = (first + n) + (Base(i) + p - g)
    <2>1. PICK j \in 1 .. l : j = i + e - 1
      BY <1>2, <1>6
    <2>2. PICK d \in Nat : d = Base(i) /\ Base(j) = d + a
      <3>1. i \in Nat \ {0} /\ e \in Nat \ {0}
        BY <1>2, <1>6
      <3>2. Base(i) \in Nat /\ Base(i + e - 1) = Base(i) + Base(e)
        BY <3>1, BaseIs
      <3> QED
        BY <1>8, <2>1, <3>2
    <2>3. /\ h < d + a + p /\ d + a + p <= h + z
          /\ first + (d + a + p - h) = first + n + (d + p - g)
      <3>1. g < d + p /\ d + p <= g + (z - n) /\ a + g = h + n /\ z \in Nat
        BY <1>1, <1>8, <1>9, <2>2
      <3> QED
        BY <3>1, CapacityAssumption
    <2>4. u[j].buf[p] = first + (d + a + p - h)
      BY <1>2, <1>3, <1>8, <2>1, <2>2, <2>3 DEF Stored
    <2>5. v[i].buf = u[j].buf
      BY <1>5, <1>6, <2>1
    <2> QED
      BY <2>2, <2>3, <2>4, <2>5
  <1> QED
    BY <1>3, <1>4, <1>5, <1>6, <1>8, <1>9 DEF Stored

----------------------------------------------------------------------------
(* Messages in the stream *)

LEMMA SameStream == \A m : Before(m) = Stream!Before(sent, m)
  BY DEF Before, Stream!Before

LEMMA BeforeFacts ==
    ASSUME NEW s \in Seq(Sizes)
    PROVE  /\ \A m \in 1 .. Len(s) + 1 : Stream!Before(s, m) \in Nat
           /\ Stream!Before(s, 1) = 0
           /\ \A m \in 1 .. Len(s) :
                /\ s[m] \in Nat /\ s[m] >= HeaderSize /\ s[m] > 0
                /\ Stream!Before(s, m + 1) = Stream!Before(s, m) + s[m]
           /\ \A j \in 1 .. Len(s) + 1 : \A i \in 1 .. j :
                /\ Stream!Before(s, i) <= Stream!Before(s, j)
                /\ i < j => Stream!Before(s, i) < Stream!Before(s, j)
  <1>1. s \in Seq(Nat) /\ \A m \in 1 .. Len(s) :
          s[m] \in Nat /\ s[m] >= HeaderSize /\ s[m] > 0
    <2>1. \A m \in 1 .. Len(s) : s[m] \in Nat /\ s[m] >= HeaderSize /\ s[m] > 0
      BY SizesAssumption, HeaderAssumption
    <2> QED
      BY <2>1
  <1>2. PICK n \in Nat : n = Len(s)
    OBVIOUS
  <1>3. PICK off : off = [m \in 1 .. Len(s) + 1 |-> Stream!Before(s, m)]
    OBVIOUS
  <1>4. Offsets(off, s, n)
    BY <1>1, <1>2, <1>3, BeforeOffsets
  <1>5. \A m \in 1 .. n + 1 : off[m] = Stream!Before(s, m)
    BY <1>2, <1>3
  <1>6. /\ \A m \in 1 .. n + 1 : off[m] \in Nat
        /\ off[1] = 0
        /\ \A m \in 1 .. n : off[m + 1] = off[m] + s[m]
    BY <1>4 DEF Offsets
  <1>7. \A j \in 1 .. n + 1 : \A i \in 1 .. j : off[i] <= off[j]
    BY <1>4, OffsetsGrow
  <1>8. ASSUME NEW j \in 1 .. n + 1, NEW i \in 1 .. j, i < j
        PROVE  off[i] < off[j]
    <2>1. i \in 1 .. n /\ i \in 1 .. n + 1 /\ i + 1 \in 1 .. j
      BY <1>8
    <2>2. off[i + 1] <= off[j] /\ off[i + 1] = off[i] + s[i]
      BY <1>6, <1>7, <2>1
    <2>3. off[i] \in Nat /\ off[j] \in Nat /\ s[i] \in Nat /\ s[i] > 0
      BY <1>1, <1>2, <1>6, <2>1
    <2> QED
      BY <2>2, <2>3
  <1>9. \A m \in 1 .. n + 1 : Stream!Before(s, m) \in Nat
    BY <1>5, <1>6
  <1>10. Stream!Before(s, 1) = 0
    BY <1>5, <1>6
  <1>11. \A m \in 1 .. n : Stream!Before(s, m + 1) = Stream!Before(s, m) + s[m]
    <2>1. \A m \in 1 .. n : m \in 1 .. n + 1 /\ m + 1 \in 1 .. n + 1
      OBVIOUS
    <2> QED
      BY <1>5, <1>6, <2>1
  <1>12. ASSUME NEW j \in 1 .. n + 1, NEW i \in 1 .. j
         PROVE  /\ Stream!Before(s, i) <= Stream!Before(s, j)
                /\ i < j => Stream!Before(s, i) < Stream!Before(s, j)
    <2>1. i \in 1 .. n + 1
      OBVIOUS
    <2> QED
      BY <1>5, <1>7, <1>8, <2>1
  <1> QED
    BY <1>1, <1>2, <1>9, <1>10, <1>11, <1>12

\* Sending leaves the places of the messages that were sent before.
LEMMA BeforeAppended ==
    ASSUME NEW s \in Seq(Sizes), NEW z \in Sizes
    PROVE  \A m \in 1 .. Len(s) + 1 :
             Stream!Before(Append(s, z), m) = Stream!Before(s, m)
  <1>1. SUFFICES ASSUME NEW m \in 1 .. Len(s) + 1
                 PROVE  Stream!Before(Append(s, z), m) = Stream!Before(s, m)
    OBVIOUS
  <1>2. SameBefore(s, Append(s, z), m)
    <2>1. ASSUME NEW i \in 1 .. m, i < m
          PROVE  s[i] \in Nat /\ Append(s, z)[i] = s[i]
      <3>1. i \in 1 .. Len(s)
        BY <2>1
      <3> QED
        BY <3>1, SizesAssumption
    <2> QED
      BY <2>1 DEF SameBefore
  <1> QED
    BY <1>2, BeforePrefix

\* The size that the header of the d + 1-st message says is its size.
LEMMA SizeInIs ==
    ASSUME sent \in Seq(Sizes), NEW d \in Nat, d < Len(sent)
    PROVE  SizeIn(Run(Stream!Before(sent, d + 1), HeaderSize)) = {sent[d + 1]}
  <1>1. PICK l \in Nat, e \in Nat : l = Len(sent) /\ e = d + 1 /\ e \in 1 .. l
    OBVIOUS
  <1>2. PICK x \in Nat : x = Stream!Before(sent, e)
    <2>1. e \in 1 .. Len(sent) + 1
      BY <1>1
    <2> QED
      BY <2>1, BeforeFacts
  <1>3. PICK header : header = Run(x, HeaderSize)
    OBVIOUS
  <1>4. header = [k \in 1 .. HeaderSize |-> Before(e) + k]
    BY <1>2, <1>3, SameStream DEF Run
  <1>5. header[1] = x + 1
    <2>1. 1 \in 1 .. HeaderSize
      BY HeaderAssumption
    <2> QED
      BY <1>3, <2>1 DEF Run
  <1>6. ASSUME NEW m \in 1 .. l, header[1] = Before(m) + 1 PROVE m = e
    <2>1. PICK y \in Nat : y = Stream!Before(sent, m)
      <3>1. m \in 1 .. Len(sent) + 1
        BY <1>1
      <3> QED
        BY <3>1, BeforeFacts
    <2>2. y = x
      BY <1>5, <1>6, <2>1, SameStream
    <2>3. \A j \in 1 .. l + 1 : \A i \in 1 .. j :
            i < j => Stream!Before(sent, i) < Stream!Before(sent, j)
      BY <1>1, BeforeFacts
    <2>a. e \in 1 .. l + 1 /\ m \in 1 .. l + 1
      BY <1>1
    <2>4. ~ (m < e)
      <3>1. m < e => m \in 1 .. e
        BY <2>a
      <3>2. m < e => Stream!Before(sent, m) < Stream!Before(sent, e)
        BY <2>3, <2>a, <3>1
      <3> QED
        BY <1>2, <2>1, <2>2, <3>2
    <2>5. ~ (e < m)
      <3>1. e < m => e \in 1 .. m
        BY <2>a
      <3>2. e < m => Stream!Before(sent, e) < Stream!Before(sent, m)
        BY <2>3, <2>a, <3>1
      <3> QED
        BY <1>2, <2>1, <2>2, <3>2
    <2> QED
      BY <2>4, <2>5
  <1>7. header[1] = Before(e) + 1
    BY <1>2, <1>5, SameStream
  <1>8. (CHOOSE m \in 1 .. Len(sent) : header[1] = Before(m) + 1) = e
    BY <1>1, <1>6, <1>7
  <1>9. \E m \in 1 .. Len(sent) : header = [k \in 1 .. HeaderSize |-> Before(m) + k]
    BY <1>1, <1>4
  <1>10. SizeIn(header) = {sent[CHOOSE m \in 1 .. Len(sent) : header[1] = Before(m) + 1]}
    BY <1>9, Zenon DEF SizeIn
  <1> QED
    BY <1>1, <1>2, <1>3, <1>8, <1>10

----------------------------------------------------------------------------
(* The inductive invariant *)

\* Bytes the kernel has written that _size does not count yet.
Unbooked == IF pc = "completed" THEN trans ELSE 0

\* Bytes that were sent before the message that is delivered next.
Taken == Stream!Before(sent, Len(delivered) + 1)

RecvTypes ==
    /\ sent \in Seq(Sizes)
    /\ delivered \in Seq(Seq(Nat))
    /\ Len(delivered) <= Len(sent)
    /\ arrived \in Nat
    /\ trans \in Nat
    /\ pc \in {"accepted", "dialled", "posted", "completed", "parse", "closed"}

\* Nothing has come yet.
NothingYet == arrived = 0 /\ delivered = << >>

\* The chain is one tape, and there is a unit for every WSABUF, with a successor.
ChainIs ==
    /\ Filled(buffer)
    /\ Len(buffer.units) <= buffer.write + BufCount
    /\ pc = "accepted" => buffer = NewBuffer(2)
    /\ pc = "dialled" => buffer = NewBuffer(1)
    /\ pc \in {"posted", "completed"} => Len(buffer.units) = buffer.write + BufCount
    /\ pc = "posted" => wsa = WsaBufs(buffer)

\* What has come and has not been delivered is on the tape.
StreamIs ==
    /\ arrived <= Stream!Before(sent, Len(sent) + 1)
    /\ trans <= arrived
    /\ pc \in {"accepted", "dialled"} => NothingYet
    /\ pc \in {"posted", "completed", "parse"} =>
         /\ arrived = Taken + buffer.size + Unbooked
         /\ Stored(buffer.units, Taken, buffer.size + Unbooked)

\* A completion fits the units posted; a receive is posted only when no message
\* is complete.
PostedIs ==
    /\ pc = "completed" =>
         trans + buffer.units[buffer.write].tail <= Base(BufCount + 1)
    /\ pc = "posted" =>
         (Len(delivered) < Len(sent) => buffer.size < sent[Len(delivered) + 1])

RecvInv == RecvTypes /\ ChainIs /\ StreamIs /\ PostedIs

\* What Recv needs of the buffer it is called with: one that has room for a
\* chain of BufCount units, and no complete message.
Receptive(b) ==
    /\ Filled(b)
    /\ Len(b.units) <= b.write + BufCount
    /\ arrived = Taken + b.size
    /\ Stored(b.units, Taken, b.size)
    /\ Len(delivered) < Len(sent) => b.size < sent[Len(delivered) + 1]

LEMMA RecvKeeps ==
    ASSUME RecvTypes, NEW b, Receptive(b), Recv(b),
           arrived <= Stream!Before(sent, Len(sent) + 1), trans <= arrived,
           UNCHANGED <<sent, arrived, trans, delivered>>
    PROVE  RecvInv'
  <1>1. /\ Filled(b) /\ Len(b.units) <= b.write + BufCount
        /\ arrived = Taken + b.size /\ Stored(b.units, Taken, b.size)
        /\ Len(delivered) < Len(sent) => b.size < sent[Len(delivered) + 1]
    BY DEF Receptive
  <1>2. PICK c : c = Grown(b)
    OBVIOUS
  <1>3. /\ Filled(c) /\ c.write = b.write /\ c.size = b.size
        /\ Len(c.units) = b.write + BufCount
    BY <1>1, <1>2, GrownIs
  <1>4. Taken \in Nat
    <2>1. Len(delivered) + 1 \in 1 .. Len(sent) + 1
      BY DEF RecvTypes
    <2> QED
      BY <2>1, BeforeFacts DEF RecvTypes, Taken
  <1>5. Stored(c.units, Taken, c.size)
    BY <1>1, <1>2, <1>3, <1>4, StoredGrown
  <1>6. /\ buffer' = c /\ wsa' = WsaBufs(c) /\ pc' = "posted"
        /\ sent' = sent /\ arrived' = arrived /\ trans' = trans /\ delivered' = delivered
    BY <1>2 DEF Recv
  <1>7. Taken' = Taken /\ Unbooked' = 0
    BY <1>6 DEF Taken, Unbooked
  <1>8. c.size \in Nat /\ c.size + 0 = c.size /\ Taken + c.size + 0 = Taken + c.size
    BY <1>3, <1>4 DEF Filled
  <1>9. RecvTypes'
    BY <1>6 DEF RecvTypes
  <1>10. ChainIs'
    BY <1>3, <1>6, BufCountAssumption DEF ChainIs, Filled
  <1>11. StreamIs'
    <2>1. arrived' <= Stream!Before(sent', Len(sent') + 1) /\ trans' <= arrived'
      BY <1>6
    <2>2. arrived' = Taken' + buffer'.size + Unbooked'
      BY <1>1, <1>3, <1>6, <1>7, <1>8
    <2>3. Stored(buffer'.units, Taken', buffer'.size + Unbooked')
      BY <1>5, <1>6, <1>7, <1>8
    <2>4. pc' \notin {"accepted", "dialled"}
      BY <1>6
    <2> QED
      BY <2>1, <2>2, <2>3, <2>4 DEF StreamIs
  <1>12. PostedIs'
    BY <1>1, <1>3, <1>6 DEF PostedIs
  <1> QED
    BY <1>9, <1>10, <1>11, <1>12 DEF RecvInv

LEMMA RecvInvInit == Init => RecvInv
  <1> SUFFICES ASSUME Init PROVE RecvInv
    OBVIOUS
  <1>1. /\ sent = << >> /\ arrived = 0 /\ wsa = << >> /\ trans = 0
        /\ delivered = << >>
        /\ \/ pc = "accepted" /\ buffer = NewBuffer(2)
           \/ pc = "dialled" /\ buffer = NewBuffer(1)
    BY DEF Init
  <1>2. RecvTypes
    BY <1>1 DEF RecvTypes
  <1>3. ChainIs
    <2>1. Len(NewBuffer(1).units) = 1 /\ Len(NewBuffer(2).units) = 2
          /\ NewBuffer(1).write = 1 /\ NewBuffer(2).write = 1
      <3>1. Len(Fresh(1)) = 1 /\ Len(Fresh(2)) = 2
        BY NewUnits
      <3> QED
        BY <3>1 DEF NewBuffer, Fresh
    <2>2. Filled(NewBuffer(1)) /\ Filled(NewBuffer(2))
      BY NewBufferFilled
    <2>3. Filled(buffer) /\ Len(buffer.units) <= buffer.write + BufCount
      <3>1. 1 <= 1 + BufCount /\ 2 <= 1 + BufCount
        BY BufCountAssumption
      <3> QED
        BY <1>1, <2>1, <2>2, <3>1
    <2> QED
      BY <1>1, <2>3 DEF ChainIs
  <1>4. StreamIs
    <2>1. Len(sent) + 1 \in 1 .. Len(sent) + 1 /\ sent \in Seq(Sizes)
      BY <1>1
    <2>2. Stream!Before(sent, Len(sent) + 1) \in Nat
      BY <2>1, BeforeFacts
    <2> QED
      BY <1>1, <2>2 DEF StreamIs, NothingYet
  <1>5. PostedIs
    BY <1>1 DEF PostedIs
  <1> QED
    BY <1>2, <1>3, <1>4, <1>5 DEF RecvInv

\* The first receive is posted on an empty buffer.
LEMMA EmptyReceptive ==
    ASSUME RecvTypes, StreamIs, pc \in {"accepted", "dialled"},
           NEW b, Filled(b), b.size = 0, Len(b.units) <= b.write + BufCount
    PROVE  Receptive(b)
  <1>1. arrived = 0 /\ delivered = << >>
    BY DEF StreamIs, NothingYet
  <1>2. Taken = 0
    BY <1>1, BeforeFacts DEF Taken, RecvTypes
  <1>3. Stored(b.units, 0, 0)
    <2>1. b.units \in Seq(Unit) /\ b.write \in 1 .. Len(b.units)
      BY DEF Filled, OneTape
    <2>2. b.units[1].head \in Nat
      BY <2>1, UnitIs
    <2>3. \A i \in 1 .. Len(b.units) : Base(i) \in Nat
      <3>1. \A i \in 1 .. Len(b.units) : i \in Nat \ {0}
        BY <2>1
      <3> QED
        BY <3>1, BaseIs
    <2> QED
      BY <2>2, <2>3, CapacityAssumption DEF Stored
  <1>4. Len(delivered) < Len(sent) => b.size < sent[Len(delivered) + 1]
    BY <1>1, BeforeFacts DEF RecvTypes
  <1> QED
    BY <1>1, <1>2, <1>3, <1>4 DEF Receptive

\* Booking and reading the same bytes of a new chain leaves it empty.
LEMMA UpdateAndRead ==
    ASSUME NEW n \in {1, 2}, NEW x \in 0 .. Capacity
    PROVE  LET b == Read(UpdateRecv(NewBuffer(n), x), x)
           IN  Filled(b) /\ b.size = 0 /\ Len(b.units) <= b.write + BufCount
  <1>1. PICK b : b = NewBuffer(n)
    OBVIOUS
  <1>2. Len(Fresh(n)) = n /\ Fresh(n)[1].tail = 0
    BY NewUnits
  <1>3. /\ Filled(b) /\ Len(b.units) = n /\ b.write = 1 /\ b.size = 0
        /\ b.units[b.write].tail = 0
    <2>1. b = [units |-> Fresh(n), write |-> 1, size |-> 0]
      BY <1>1 DEF NewBuffer, Fresh
    <2>2. Filled(b)
      BY <1>1, NewBufferFilled
    <2> QED
      BY <1>2, <2>1, <2>2
  <1>4. x + b.units[b.write].tail <= Base(RoomUnits(b) + 1)
    <2>1. RoomUnits(b) = 1
      BY <1>3 DEF RoomUnits
    <2>2. Base(1 + 1) = Base(1) + Capacity /\ Base(1) = 0
      BY BaseIs
    <2> QED
      BY <1>3, <2>1, <2>2, CapacityAssumption
  <1>5. PICK c : c = UpdateRecv(b, x)
    OBVIOUS
  <1>6. Filled(c) /\ c.size = x /\ Len(c.units) = n /\ 1 <= c.write
    <2>1. x \in Nat /\ 0 + x = x
      BY CapacityAssumption
    <2> QED
      BY <1>3, <1>4, <1>5, <2>1, UpdateRecvIs
  <1>7. PICK e \in 1 .. c.write :
          /\ Filled(Read(c, x)) /\ Read(c, x).size = c.size - x
          /\ Read(c, x).write = c.write - e + 1
          /\ Len(Read(c, x).units) = Len(c.units) - e + 1
    <2>1. x \in Nat /\ x <= c.size
      BY <1>6, CapacityAssumption
    <2> QED
      BY <1>6, <2>1, ReadIs
  <1>8. c.write \in Nat
    BY <1>6 DEF Filled
  <1> QED
    BY <1>1, <1>5, <1>6, <1>7, <1>8, BufCountAssumption, CapacityAssumption

LEMMA OnAcceptKeeps == RecvInv /\ OnAccept => RecvInv'
  <1> SUFFICES ASSUME RecvInv, OnAccept PROVE RecvInv'
    OBVIOUS
  <1>1. PICK b : b = Read(UpdateRecv(NewBuffer(2), AddressSize), AddressSize)
    OBVIOUS
  <1>2. Filled(b) /\ b.size = 0 /\ Len(b.units) <= b.write + BufCount
    BY <1>1, UpdateAndRead, AddressAssumption
  <1>3. /\ RecvTypes /\ StreamIs /\ pc = "accepted"
        /\ arrived <= Stream!Before(sent, Len(sent) + 1) /\ trans <= arrived
    BY DEF RecvInv, OnAccept, StreamIs
  <1>4. Recv(b) /\ UNCHANGED <<sent, arrived, trans, delivered>>
    <2>1. buffer = NewBuffer(2)
      BY <1>3 DEF RecvInv, ChainIs
    <2> QED
      BY <1>1, <2>1 DEF OnAccept
  <1> QED
    BY <1>2, <1>3, <1>4, EmptyReceptive, RecvKeeps

LEMMA OnConnectKeeps == RecvInv /\ OnConnect => RecvInv'
  <1> SUFFICES ASSUME RecvInv, OnConnect PROVE RecvInv'
    OBVIOUS
  <1>1. PICK b : b = Read(UpdateRecv(NewBuffer(1), 0), 0)
    OBVIOUS
  <1>2. Filled(b) /\ b.size = 0 /\ Len(b.units) <= b.write + BufCount
    BY <1>1, UpdateAndRead, CapacityAssumption
  <1>3. /\ RecvTypes /\ StreamIs /\ pc = "dialled"
        /\ arrived <= Stream!Before(sent, Len(sent) + 1) /\ trans <= arrived
    BY DEF RecvInv, OnConnect, StreamIs
  <1>4. Recv(b) /\ UNCHANGED <<sent, arrived, trans, delivered>>
    <2>1. buffer = NewBuffer(1)
      BY <1>3 DEF RecvInv, ChainIs
    <2> QED
      BY <1>1, <2>1 DEF OnConnect
  <1> QED
    BY <1>2, <1>3, <1>4, EmptyReceptive, RecvKeeps

\* A message more leaves what has come where it is.
LEMMA SendKeeps ==
    ASSUME RecvInv, NEW z \in Sizes, Send(z)
    PROVE  RecvInv'
  <1>1. /\ sent' = Append(sent, z)
        /\ UNCHANGED <<arrived, buffer, wsa, trans, pc, delivered>>
    BY DEF Send
  <1>2. PICK l \in Nat, d \in Nat : l = Len(sent) /\ d = Len(delivered) /\ d <= l
    BY DEF RecvInv, RecvTypes
  <1>3. /\ sent' \in Seq(Sizes) /\ Len(sent') = l + 1
        /\ \A m \in 1 .. l : sent'[m] = sent[m]
        /\ sent'[l + 1] = z
    BY <1>1, <1>2 DEF RecvInv, RecvTypes
  <1>4. \A m \in 1 .. l + 1 : Stream!Before(sent', m) = Stream!Before(sent, m)
    BY <1>1, <1>2, BeforeAppended DEF RecvInv, RecvTypes
  <1>5. Taken' = Taken /\ Unbooked' = Unbooked
    BY <1>1, <1>2, <1>4 DEF Taken, Unbooked
  <1>6. PICK x \in Nat, y \in Nat : /\ x = Stream!Before(sent, l + 1)
                                    /\ y = Stream!Before(sent', l + 2)
                                    /\ x <= y
    <2>1. Stream!Before(sent, l + 1) \in Nat
      BY <1>2, BeforeFacts DEF RecvInv, RecvTypes
    <2>2. l + 2 \in 1 .. Len(sent') + 1 /\ l + 1 \in 1 .. l + 2
          /\ Len(sent') + 1 = l + 2
      BY <1>3
    <2>3. /\ Stream!Before(sent', l + 2) \in Nat
          /\ Stream!Before(sent', l + 1) <= Stream!Before(sent', l + 2)
      BY <1>3, <2>2, BeforeFacts
    <2> QED
      BY <1>4, <2>1, <2>3
  <1>7. RecvTypes'
    BY <1>1, <1>2, <1>3 DEF RecvInv, RecvTypes
  <1>8. ChainIs'
    BY <1>1 DEF RecvInv, ChainIs
  <1>9. StreamIs'
    <2>1. arrived \in Nat /\ arrived <= x
      BY <1>2, <1>6 DEF RecvInv, RecvTypes, StreamIs
    <2>2. arrived' <= Stream!Before(sent', Len(sent') + 1)
      BY <1>1, <1>3, <1>6, <2>1
    <2> QED
      BY <1>1, <1>5, <2>2 DEF RecvInv, StreamIs, NothingYet
  <1>10. PostedIs'
    <2>1. pc = "completed" => trans + buffer.units[buffer.write].tail <= Base(BufCount + 1)
      BY DEF RecvInv, PostedIs
    <2>2. ASSUME pc = "posted", d < l + 1
          PROVE  buffer.size < sent'[d + 1]
      <3>1. CASE d < l
        BY <1>2, <1>3, <2>2, <3>1 DEF RecvInv, PostedIs
      <3>2. CASE d = l
        <4>1. arrived = x + buffer.size + 0 /\ arrived <= x
          BY <1>2, <1>6, <2>2, <3>2 DEF RecvInv, StreamIs, Taken, Unbooked
        <4>2. buffer.size \in Nat
          BY DEF RecvInv, ChainIs, Filled
        <4>3. z \in Nat /\ z > 0
          BY SizesAssumption, HeaderAssumption
        <4> QED
          BY <1>3, <3>2, <4>1, <4>2, <4>3
      <3> QED
        BY <1>2, <2>2, <3>1, <3>2
    <2> QED
      BY <1>1, <1>2, <1>3, <2>1, <2>2 DEF PostedIs
  <1> QED
    BY <1>7, <1>8, <1>9, <1>10 DEF RecvInv

\* The kernel writes the next bytes behind those on the tape.
LEMMA CompleteKeeps ==
    ASSUME RecvInv, NEW n \in 1 .. StreamSize, Complete(n)
    PROVE  RecvInv'
  <1>1. PICK places : places = Places(wsa)
    OBVIOUS
  <1>2. /\ pc = "posted"
        /\ arrived + n <= StreamSize
        /\ n <= Len(places)
        /\ buffer' = [buffer EXCEPT !.units = Landed(@, places, n, arrived)]
        /\ arrived' = arrived + n /\ trans' = n /\ pc' = "completed"
        /\ UNCHANGED <<sent, wsa, delivered>>
    <2>1. buffer' = [buffer EXCEPT !.units = Landed(@, Places(wsa), n, arrived)]
      BY DEF Complete, Places, PlaceSeqs, Landed, LandedIn, Written
    <2>2. n <= Len(Places(wsa))
      BY DEF Complete, Places, PlaceSeqs
    <2> QED
      BY <1>1, <2>1, <2>2 DEF Complete
  <1>3. PICK b : b = buffer
    OBVIOUS
  <1>4. /\ Filled(b) /\ Len(b.units) = b.write + BufCount /\ wsa = WsaBufs(b)
        /\ b.size \in Nat
    BY <1>2, <1>3 DEF RecvInv, ChainIs, Filled
  <1>5. /\ Taken \in Nat /\ StreamSize \in Nat
        /\ StreamSize = Stream!Before(sent, Len(sent) + 1)
    <2>1. Len(delivered) + 1 \in 1 .. Len(sent) + 1
          /\ Len(sent) + 1 \in 1 .. Len(sent) + 1 /\ sent \in Seq(Sizes)
      BY DEF RecvInv, RecvTypes
    <2> QED
      BY <2>1, BeforeFacts, SameStream DEF Taken, StreamSize
  <1>6. n \in Nat
    BY <1>5
  <1>7. arrived = Taken + b.size /\ Stored(b.units, Taken, b.size)
    <2>1. Unbooked = 0
      BY <1>2 DEF Unbooked
    <2>2. b.size + 0 = b.size /\ Taken + b.size + 0 = Taken + b.size
      BY <1>4, <1>5
    <2> QED
      BY <1>2, <1>3, <2>1, <2>2 DEF RecvInv, StreamIs
  <1>8. PICK c : /\ c = [b EXCEPT !.units = Landed(@, places, n, Taken + b.size)]
                 /\ Filled(c)
                 /\ c.size = b.size /\ c.write = b.write
                 /\ Len(c.units) = Len(b.units)
                 /\ \A i \in 1 .. Len(b.units) : c.units[i].tail = b.units[i].tail
                 /\ Stored(c.units, Taken, c.size + n)
    BY <1>1, <1>2, <1>4, <1>5, <1>6, <1>7, LandedIs
  <1>9. buffer' = c
    BY <1>2, <1>3, <1>7, <1>8
  <1>10. Taken' = Taken /\ Unbooked' = n
    BY <1>2 DEF Taken, Unbooked
  <1>11. RecvTypes'
    BY <1>2, <1>6 DEF RecvInv, RecvTypes
  <1>12. ChainIs'
    <2>1. Len(c.units) <= c.write + BufCount
      BY <1>4, <1>8, BufCountAssumption DEF Filled
    <2> QED
      BY <1>2, <1>4, <1>8, <1>9, <2>1 DEF ChainIs
  <1>13. StreamIs'
    <2>1. arrived' = Taken + c.size + n /\ n <= arrived'
      BY <1>2, <1>4, <1>5, <1>6, <1>7, <1>8
    <2>2. arrived' <= Stream!Before(sent', Len(sent') + 1)
      BY <1>2, <1>5
    <2> QED
      BY <1>2, <1>8, <1>9, <1>10, <2>1, <2>2 DEF StreamIs
  <1>14. PostedIs'
    <2>1. c.write \in 1 .. Len(b.units)
      BY <1>4, <1>8 DEF Filled, OneTape
    <2>2. PICK t \in Nat : t = b.units[b.write].tail /\ t = c.units[c.write].tail
      <3>1. b.units[b.write].tail \in Nat
        BY <1>4, <1>8, <2>1, UnitIs DEF Filled
      <3> QED
        BY <1>8, <2>1, <3>1
    <2>3. n <= Base(BufCount + 1) - t
      BY <1>1, <1>2, <1>4, <2>2, PlacesIs
    <2>4. Base(BufCount + 1) \in Nat
      <3>1. BufCount + 1 \in Nat \ {0}
        BY BufCountAssumption
      <3> QED
        BY <3>1, BaseIs
    <2>5. n + t <= Base(BufCount + 1)
      BY <1>6, <2>3, <2>4
    <2> QED
      BY <1>2, <1>9, <2>2, <2>5 DEF PostedIs
  <1> QED
    BY <1>11, <1>12, <1>13, <1>14 DEF RecvInv

\* UpdateRecv finds the room the completion was posted with.
LEMMA OnRecvKeeps == RecvInv /\ OnRecv => RecvInv'
  <1> SUFFICES ASSUME RecvInv, OnRecv PROVE RecvInv'
    OBVIOUS
  <1>1. PICK b : b = buffer
    OBVIOUS
  <1>2. pc = "completed" /\ UNCHANGED <<sent, arrived, wsa, trans, delivered>>
    BY DEF OnRecv
  <1>3. /\ Filled(b) /\ Len(b.units) = b.write + BufCount
        /\ b.write \in Nat /\ b.size \in Nat /\ trans \in Nat
        /\ trans + b.units[b.write].tail <= Base(BufCount + 1)
        /\ arrived = Taken + b.size + trans
        /\ Stored(b.units, Taken, b.size + trans)
    BY <1>1, <1>2 DEF RecvInv, RecvTypes, ChainIs, StreamIs, PostedIs, Filled, Unbooked
  <1>4. RoomUnits(b) = BufCount
    <2>1. b.write # Len(b.units) /\ Len(b.units) - b.write = BufCount
      BY <1>3, BufCountAssumption
    <2> QED
      BY <2>1 DEF RoomUnits
  <1>5. PICK c : c = UpdateRecv(b, trans)
    OBVIOUS
  <1>6. /\ UpdateRecvFits(b, trans)
        /\ Filled(c) /\ c.size = b.size + trans
        /\ Len(c.units) = Len(b.units) /\ b.write <= c.write
        /\ \A i \in 1 .. Len(b.units) : /\ c.units[i].head = b.units[i].head
                                        /\ c.units[i].buf = b.units[i].buf
    BY <1>3, <1>4, <1>5, UpdateRecvIs
  <1>7. buffer' = c /\ pc' = "parse"
    BY <1>1, <1>5, <1>6 DEF OnRecv
  <1>8. Taken' = Taken /\ Unbooked' = 0
    BY <1>2, <1>7 DEF Taken, Unbooked
  <1>9. Taken \in Nat /\ c.size \in Nat
    <2>1. Len(delivered) + 1 \in 1 .. Len(sent) + 1 /\ sent \in Seq(Sizes)
      BY DEF RecvInv, RecvTypes
    <2> QED
      BY <1>3, <1>6, <2>1, BeforeFacts DEF Taken
  <1>10. RecvTypes'
    BY <1>2, <1>7 DEF RecvInv, RecvTypes
  <1>11. ChainIs'
    <2>1. c.write \in Nat
      BY <1>6 DEF Filled
    <2>2. Len(c.units) <= c.write + BufCount
      BY <1>3, <1>6, <2>1, BufCountAssumption
    <2> QED
      BY <1>6, <1>7, <2>2 DEF ChainIs
  <1>12. StreamIs'
    <2>1. Stored(c.units, Taken, c.size + 0)
      <3>1. Stored(b.units, Taken, c.size)
        BY <1>3, <1>6
      <3>2. Len(b.units) \in Nat /\ 1 \in 1 .. Len(b.units)
        BY <1>3 DEF Filled, OneTape
      <3>3. Stored(c.units, Taken, c.size)
        BY <1>6, <3>1, <3>2, StoredSame
      <3> QED
        BY <1>9, <3>3
    <2>2. arrived = Taken + c.size + 0
      BY <1>3, <1>6, <1>9
    <2> QED
      BY <1>2, <1>7, <1>8, <2>1, <2>2 DEF RecvInv, StreamIs
  <1>13. PostedIs'
    BY <1>7 DEF PostedIs
  <1> QED
    BY <1>10, <1>11, <1>12, <1>13 DEF RecvInv

\* What holds while messages are read out of the buffer.
LEMMA ParseFacts ==
    ASSUME RecvInv, pc = "parse"
    PROVE  /\ Taken \in Nat /\ buffer.size \in Nat
           /\ Filled(buffer) /\ Len(buffer.units) <= buffer.write + BufCount
           /\ arrived = Taken + buffer.size
           /\ Stored(buffer.units, Taken, buffer.size)
           /\ arrived \in Nat /\ arrived <= Stream!Before(sent, Len(sent) + 1)
           /\ Len(delivered) \in Nat /\ Len(delivered) <= Len(sent)
           /\ buffer.size > 0 => Len(delivered) < Len(sent)
  <1>1. Taken \in Nat /\ buffer.size \in Nat
    <2>1. Len(delivered) + 1 \in 1 .. Len(sent) + 1 /\ sent \in Seq(Sizes)
      BY DEF RecvInv, RecvTypes
    <2>2. Taken \in Nat
      BY <2>1, BeforeFacts DEF Taken
    <2> QED
      BY <2>2 DEF RecvInv, ChainIs, Filled
  <1>2. Unbooked = 0 /\ buffer.size + 0 = buffer.size
        /\ Taken + buffer.size + 0 = Taken + buffer.size
    BY <1>1 DEF Unbooked
  <1>3. arrived = Taken + buffer.size /\ Stored(buffer.units, Taken, buffer.size)
    BY <1>2 DEF RecvInv, StreamIs
  <1>4. /\ arrived \in Nat /\ arrived <= Stream!Before(sent, Len(sent) + 1)
        /\ Len(delivered) \in Nat /\ Len(delivered) <= Len(sent) /\ Len(sent) \in Nat
    BY DEF RecvInv, RecvTypes, StreamIs
  <1>5. ASSUME Len(delivered) = Len(sent) PROVE buffer.size = 0
    <2>1. arrived <= Taken
      BY <1>4, <1>5 DEF Taken
    <2> QED
      BY <1>1, <1>3, <2>1
  <1> QED
    BY <1>1, <1>3, <1>4, <1>5 DEF RecvInv, ChainIs

\* The size the loop peeks is that of the message delivered next.
LEMMA PeekIs ==
    ASSUME RecvInv, pc = "parse", Holds(buffer, HeaderSize)
    PROVE  /\ Len(delivered) < Len(sent)
           /\ SizeIn(FirstBytes(buffer, HeaderSize)) = {sent[Len(delivered) + 1]}
  <1>1. HeaderSize \in Nat /\ HeaderSize > 0 /\ HeaderSize <= buffer.size
    BY ParseFacts, HeaderAssumption DEF Holds
  <1>2. Len(delivered) < Len(sent)
    BY <1>1, ParseFacts
  <1>3. FirstBytes(buffer, HeaderSize) = Run(Taken, HeaderSize)
    BY <1>1, ParseFacts, FirstBytesIs
  <1>4. sent \in Seq(Sizes) /\ Len(delivered) \in Nat
    BY DEF RecvInv, RecvTypes
  <1>5. SizeIn(Run(Taken, HeaderSize)) = {sent[Len(delivered) + 1]}
    BY <1>2, <1>4, SizeInIs DEF Taken
  <1> QED
    BY <1>2, <1>3, <1>5

\* An iteration of the loop delivers the next message, whole and in order.
LEMMA ParseIs ==
    ASSUME RecvInv, Parse
    PROVE  /\ RecvInv'
           /\ Len(delivered) < Len(sent)
           /\ Stream!Before(sent, Len(delivered) + 1) + sent[Len(delivered) + 1] <= arrived
           /\ delivered' = Append(delivered, Stream!Message(sent, Len(delivered) + 1))
           /\ UNCHANGED <<sent, arrived>>
  <1>1. /\ pc = "parse" /\ Holds(buffer, HeaderSize)
        /\ UNCHANGED <<sent, arrived, wsa, trans, pc>>
    BY DEF Parse
  <1>2. /\ Len(delivered) < Len(sent)
        /\ SizeIn(FirstBytes(buffer, HeaderSize)) = {sent[Len(delivered) + 1]}
    BY <1>1, PeekIs
  <1>3. PICK d \in Nat, l \in Nat : d = Len(delivered) /\ l = Len(sent) /\ d < l
    BY <1>2 DEF RecvInv, RecvTypes
  <1>4. sent \in Seq(Sizes) /\ delivered \in Seq(Seq(Nat))
    BY DEF RecvInv, RecvTypes
  <1>5. PICK z \in Nat : z = sent[d + 1]
    <2>1. d + 1 \in 1 .. Len(sent)
      BY <1>3
    <2> QED
      BY <1>4, <2>1, BeforeFacts
  <1>6. /\ Holds(buffer, z)
        /\ delivered' = Append(delivered, FirstBytes(buffer, z))
        /\ buffer' = Read(buffer, z)
    BY <1>2, <1>3, <1>5 DEF Parse
  <1>7. PICK x \in Nat, s \in Nat :
          /\ x = Taken /\ s = buffer.size /\ z <= s /\ arrived = x + s
    BY <1>1, <1>6, ParseFacts DEF Holds
  <1>8. FirstBytes(buffer, z) = Run(x, z)
    BY <1>1, <1>7, ParseFacts, FirstBytesIs
  <1>9. Run(x, z) = Stream!Message(sent, d + 1)
    BY <1>3, <1>5, <1>7 DEF Run, Stream!Message, Taken
  <1>10. /\ delivered' \in Seq(Seq(Nat)) /\ Len(delivered') = d + 1
    BY <1>3, <1>4, <1>6, <1>8, RunIs
  <1>11. Taken' = x + z /\ Unbooked' = 0
    <2>1. Stream!Before(sent, d + 1 + 1) = Stream!Before(sent, d + 1) + sent[d + 1]
      <3>1. d + 1 \in 1 .. Len(sent)
        BY <1>3
      <3> QED
        BY <1>4, <3>1, BeforeFacts
    <2> QED
      BY <1>1, <1>3, <1>5, <1>7, <1>10, <2>1 DEF Taken, Unbooked
  <1>12. PICK c : c = Read(buffer, z)
    OBVIOUS
  <1>13. PICK e \in 1 .. buffer.write :
           /\ Filled(c) /\ c.size = s - z
           /\ c.write = buffer.write - e + 1
           /\ Len(c.units) = Len(buffer.units) - e + 1
    BY <1>1, <1>7, <1>12, ParseFacts, ReadIs
  <1>14. Stored(c.units, x + z, c.size)
    BY <1>1, <1>7, <1>12, <1>13, ParseFacts, StoredRead
  <1>15. RecvTypes'
    BY <1>1, <1>3, <1>10 DEF RecvInv, RecvTypes
  <1>16. ChainIs'
    <2>1. /\ buffer.write \in Nat /\ Len(buffer.units) \in Nat
          /\ Len(buffer.units) <= buffer.write + BufCount
      BY DEF RecvInv, ChainIs, Filled
    <2>2. Len(c.units) <= c.write + BufCount
      BY <1>13, <2>1, BufCountAssumption
    <2> QED
      BY <1>1, <1>6, <1>12, <1>13, <2>2 DEF ChainIs
  <1>17. StreamIs'
    <2>1. arrived = (x + z) + c.size + 0 /\ c.size + 0 = c.size
      BY <1>7, <1>13
    <2>2. Stored(c.units, x + z, c.size + 0)
      BY <1>14, <2>1
    <2> QED
      BY <1>1, <1>6, <1>11, <1>12, <2>1, <2>2 DEF RecvInv, StreamIs
  <1>18. PostedIs'
    BY <1>1 DEF PostedIs
  <1>19. Stream!Before(sent, d + 1) + sent[d + 1] <= arrived
    BY <1>3, <1>5, <1>7 DEF Taken
  <1> QED
    BY <1>1, <1>2, <1>3, <1>6, <1>8, <1>9, <1>15, <1>16, <1>17, <1>18, <1>19 DEF RecvInv

\* The loop ends only when no message is complete.
LEMMA ParseEndKeeps == RecvInv /\ ParseEnd => RecvInv'
  <1> SUFFICES ASSUME RecvInv, ParseEnd PROVE RecvInv'
    OBVIOUS
  <1>1. /\ pc = "parse" /\ Recv(buffer)
        /\ UNCHANGED <<sent, arrived, trans, delivered>>
    BY DEF ParseEnd
  <1>2. ASSUME Len(delivered) < Len(sent)
        PROVE  buffer.size < sent[Len(delivered) + 1]
    <2>1. PICK z \in Nat : z = sent[Len(delivered) + 1] /\ z >= HeaderSize
      <3>1. Len(delivered) + 1 \in 1 .. Len(sent) /\ sent \in Seq(Sizes)
        BY <1>2 DEF RecvInv, RecvTypes
      <3> QED
        BY <3>1, BeforeFacts
    <2>2. CASE Holds(buffer, HeaderSize)
      <3>1. ~ Holds(buffer, z)
        BY <1>1, <2>1, <2>2, PeekIs DEF ParseEnd
      <3> QED
        BY <1>1, <2>1, <3>1, ParseFacts DEF Holds
    <2>3. CASE ~ Holds(buffer, HeaderSize)
      BY <1>1, <2>1, <2>3, ParseFacts, HeaderAssumption DEF Holds
    <2> QED
      BY <2>2, <2>3
  <1>3. Receptive(buffer)
    BY <1>1, <1>2, ParseFacts DEF Receptive
  <1>4. RecvTypes /\ arrived <= Stream!Before(sent, Len(sent) + 1) /\ trans <= arrived
    BY DEF RecvInv, StreamIs
  <1> QED
    BY <1>1, <1>3, <1>4, RecvKeeps

\* The end of a connection, and steps that change nothing.
LEMMA RestKeeps ==
    RecvInv /\ (HangUp \/ Closed \/ UNCHANGED recvVars) => RecvInv'
  <1> SUFFICES ASSUME RecvInv, HangUp \/ Closed \/ UNCHANGED recvVars
               PROVE  RecvInv'
    OBVIOUS
  <1>1. CASE HangUp
    <2>1. /\ pc = "posted" /\ pc' = "closed"
          /\ UNCHANGED <<sent, arrived, buffer, wsa, trans, delivered>>
      BY <1>1 DEF HangUp
    <2>2. RecvTypes'
      BY <2>1 DEF RecvInv, RecvTypes
    <2>3. ChainIs'
      BY <2>1 DEF RecvInv, ChainIs
    <2>4. StreamIs'
      BY <2>1 DEF RecvInv, StreamIs
    <2>5. PostedIs'
      BY <2>1 DEF PostedIs
    <2> QED
      BY <2>2, <2>3, <2>4, <2>5 DEF RecvInv
  <1>2. CASE Closed \/ UNCHANGED recvVars
    <2>1. UNCHANGED <<sent, arrived, buffer, wsa, trans, pc, delivered>>
      BY <1>2 DEF Closed, recvVars
    <2>2. UNCHANGED <<RecvTypes, ChainIs, StreamIs, PostedIs>>
      BY <2>1 DEF RecvTypes, ChainIs, StreamIs, PostedIs, NothingYet, Taken, Unbooked
    <2> QED
      BY <2>2 DEF RecvInv
  <1> QED
    BY <1>1, <1>2

LEMMA RecvInvNext == RecvInv /\ [Next]_recvVars => RecvInv'
  <1> SUFFICES ASSUME RecvInv, [Next]_recvVars PROVE RecvInv'
    OBVIOUS
  <1>1. ASSUME NEW z \in Sizes, Send(z) PROVE RecvInv'
    BY <1>1, SendKeeps
  <1>2. ASSUME NEW n \in 1 .. StreamSize, Complete(n) PROVE RecvInv'
    BY <1>2, CompleteKeeps
  <1>3. CASE OnAccept
    BY <1>3, OnAcceptKeeps
  <1>4. CASE OnConnect
    BY <1>4, OnConnectKeeps
  <1>5. CASE OnRecv
    BY <1>5, OnRecvKeeps
  <1>6. CASE Parse
    BY <1>6, ParseIs
  <1>7. CASE ParseEnd
    BY <1>7, ParseEndKeeps
  <1>8. CASE HangUp \/ Closed \/ UNCHANGED recvVars
    BY <1>8, RestKeeps
  <1> QED
    BY <1>1, <1>2, <1>3, <1>4, <1>5, <1>6, <1>7, <1>8 DEF Next, Receiver

\* The invariant the other theorems follow from.
THEOREM RecvInvariant == Spec => []RecvInv
  <1> QED
    BY RecvInvInit, RecvInvNext, PTL DEF Spec

----------------------------------------------------------------------------
(* Theorems *)

\* The units' bounds and the room of UpdateRecv give the ranges.
LEMMA InvTypeOK == RecvInv => TypeOK
  <1> SUFFICES ASSUME RecvInv PROVE TypeOK
    OBVIOUS
  <1>1. /\ sent \in Seq(Sizes) /\ arrived \in Nat /\ trans \in Nat
        /\ arrived <= Stream!Before(sent, Len(sent) + 1) /\ trans <= arrived
        /\ pc \in {"accepted", "dialled", "posted", "completed", "parse", "closed"}
    BY DEF RecvInv, RecvTypes, StreamIs
  <1>2. StreamSize \in Nat /\ StreamSize = Stream!Before(sent, Len(sent) + 1)
    <2>1. Len(sent) + 1 \in 1 .. Len(sent) + 1
      BY <1>1
    <2> QED
      BY <1>1, <2>1, BeforeFacts, SameStream DEF StreamSize
  <1>3. arrived \in 0 .. StreamSize /\ trans \in 0 .. StreamSize
    BY <1>1, <1>2
  <1>4. PICK u \in Seq(Unit), w \in Nat, z \in Nat :
          buffer = [units |-> u, write |-> w, size |-> z] /\ OneTape(u, w, z)
    BY OpenBuffer DEF RecvInv, ChainIs
  <1>5. w \in 1 .. Len(u)
    BY <1>4 DEF OneTape
  <1>6. ASSUME NEW i \in 1 .. Len(u) PROVE u[i].head <= u[i].tail
    <2>1. u[i].tail \in Nat /\ u[i].head \in Nat
      BY UnitIs
    <2>2. i > 1 => u[i].head = 0
      BY <1>4 DEF OneTape
    <2>3. i = 1 => u[i].head <= u[i].tail
      BY <1>4 DEF OneTape
    <2> QED
      BY <2>1, <2>2, <2>3
  <1> QED
    BY <1>1, <1>3, <1>4, <1>5, <1>6 DEF TypeOK

\* Every variable keeps to its range, for every size of units, of messages and
\* of addresses: _cur_read never passes _cur_write and no unit is read beyond
\* what was written.
THEOREM TypeCorrect == Spec => []TypeOK
  BY RecvInvariant, InvTypeOK, PTL

\* BASocket.cpp:211, "Never come in!": UpdateRecv finds room for every completion
\* of what GetRecvWsaBuf posted.
THEOREM UpdateRecvNeverFails == Spec => []NeverComeIn
  <1>1. RecvInv => NeverComeIn
    BY DEF RecvInv, RecvTypes, NeverComeIn
  <1> QED
    BY <1>1, RecvInvariant, PTL

\* _size is what the chain holds, and the chain holds exactly the bytes that
\* have come and have not been delivered.
THEOREM SizeIsContent == Spec => []SizeMatchesChain
  <1>1. ASSUME RecvInv PROVE SizeMatchesChain
    <2>1. SUFFICES ASSUME pc \in {"posted", "parse"}
                   PROVE  /\ buffer.size = Len(Content(buffer))
                          /\ Content(buffer) =
                               [k \in 1 .. buffer.size |-> arrived - buffer.size + k]
      BY DEF SizeMatchesChain
    <2>2. PICK x \in Nat, z \in Nat : x = Taken /\ z = buffer.size
      <3>1. Len(delivered) + 1 \in 1 .. Len(sent) + 1 /\ sent \in Seq(Sizes)
        BY <1>1 DEF RecvInv, RecvTypes
      <3> QED
        BY <1>1, <3>1, BeforeFacts DEF RecvInv, ChainIs, Filled, Taken
    <2>3. Filled(buffer) /\ arrived = x + z /\ Stored(buffer.units, x, z)
      <3>1. Unbooked = 0
        BY <2>1 DEF Unbooked
      <3> QED
        BY <1>1, <2>1, <2>2, <3>1 DEF RecvInv, ChainIs, StreamIs
    <2>4. Content(buffer) = Run(x, z)
      BY <2>2, <2>3, ContentIs
    <2>5. Len(Run(x, z)) = z
      BY RunIs
    <2>6. arrived - z = x
      BY <2>3
    <2> QED
      BY <2>2, <2>4, <2>5, <2>6 DEF Run
  <1> QED
    BY <1>1, RecvInvariant, PTL

\* When the receiver goes to wait it has delivered every message that was
\* complete.
THEOREM AllCompleteDelivered == Spec => []NothingLeftUnread
  <1>1. ASSUME RecvInv PROVE NothingLeftUnread
    <2>1. SUFFICES ASSUME pc = "posted", NEW m \in 1 .. Len(sent),
                          Before(m + 1) <= arrived, ~ (Len(delivered) >= m)
                   PROVE  FALSE
      BY DEF NothingLeftUnread
    <2>2. PICK d \in Nat, l \in Nat : d = Len(delivered) /\ l = Len(sent)
      BY <1>1 DEF RecvInv, RecvTypes
    <2>3. d < m /\ d + 1 \in 1 .. l /\ m + 1 \in 1 .. l + 1
          /\ d + 1 + 1 \in 1 .. m + 1 /\ d + 1 \in 1 .. l + 1 /\ sent \in Seq(Sizes)
      BY <1>1, <2>1, <2>2 DEF RecvInv, RecvTypes
    <2>4. /\ Stream!Before(sent, d + 1) \in Nat /\ sent[d + 1] \in Nat
          /\ Stream!Before(sent, d + 1 + 1) = Stream!Before(sent, d + 1) + sent[d + 1]
          /\ Stream!Before(sent, d + 1 + 1) <= Stream!Before(sent, m + 1)
          /\ Stream!Before(sent, m + 1) \in Nat
      BY <2>2, <2>3, BeforeFacts
    <2>5. /\ buffer.size \in Nat /\ buffer.size < sent[d + 1]
          /\ arrived = Stream!Before(sent, d + 1) + buffer.size
      <3>1. Unbooked = 0
        BY <2>1 DEF Unbooked
      <3>2. arrived = Stream!Before(sent, d + 1) + buffer.size + 0
        BY <1>1, <2>1, <2>2, <3>1 DEF RecvInv, StreamIs, Taken
      <3>3. buffer.size \in Nat
        BY <1>1 DEF RecvInv, ChainIs, Filled
      <3>4. buffer.size < sent[d + 1]
        BY <1>1, <2>1, <2>2, <2>3 DEF RecvInv, PostedIs
      <3> QED
        BY <2>4, <3>2, <3>3, <3>4
    <2>6. Stream!Before(sent, m + 1) <= arrived
      BY <2>1, SameStream
    <2>7. PICK x \in Nat, y \in Nat, z \in Nat, q \in Nat :
            /\ x = Stream!Before(sent, d + 1) /\ y = Stream!Before(sent, m + 1)
            /\ z = sent[d + 1] /\ q = buffer.size
            /\ x + z <= y /\ q < z /\ y <= x + q
      BY <2>4, <2>5, <2>6
    <2> QED
      BY <2>7
  <1> QED
    BY <1>1, RecvInvariant, PTL

\* What a quotient is at least.
LEMMA DivBound ==
    ASSUME NEW a \in Nat, NEW c \in Nat, c > 0, NEW q \in Nat, q * c <= a
    PROVE  q <= a \div c
  <1>1. PICK d \in Int, r \in Int : d = a \div c /\ r = a % c /\ a = d * c + r
                                 /\ 0 <= r /\ r < c
    OBVIOUS
  <1>2. ~ (q >= d + 1)
    <2>1. ASSUME q >= d + 1 PROVE q * c >= (d + 1) * c
      <3>1. PICK e \in Nat : q = (d + 1) + e
        <4>1. q - (d + 1) \in Nat /\ q = (d + 1) + (q - (d + 1))
          BY <2>1
        <4> QED
          BY <4>1
      <3>2. q * c = (d + 1) * c + e * c
        BY <3>1
      <3>3. e * c >= 0 /\ e * c \in Int /\ (d + 1) * c \in Int
        OBVIOUS
      <3> QED
        BY <3>2, <3>3
    <2>2. (d + 1) * c = d * c + c /\ d * c \in Int /\ q * c \in Int
      OBVIOUS
    <2> QED
      BY <1>1, <2>1, <2>2
  <1> QED
    BY <1>1, <1>2

\* When a receive is posted, what has not been delivered is less than a message.
LEMMA LessThanMessage ==
    ASSUME RecvInv, pc = "posted", NEW z \in Sizes, \A x \in Sizes : x <= z
    PROVE  buffer.size \in Nat /\ z \in Nat /\ z > 0 /\ buffer.size <= z - 1
  <1>1. z \in Nat /\ z > 0
    BY SizesAssumption, HeaderAssumption
  <1>2. buffer.size \in Nat /\ sent \in Seq(Sizes)
    BY DEF RecvInv, ChainIs, Filled, RecvTypes
  <1>3. PICK d \in Nat, l \in Nat : d = Len(delivered) /\ l = Len(sent) /\ d <= l
    BY DEF RecvInv, RecvTypes
  <1>4. CASE d < l
    <2>1. d + 1 \in 1 .. Len(sent)
      BY <1>3, <1>4
    <2>2. sent[d + 1] \in Sizes /\ sent[d + 1] \in Nat
      BY <1>2, <2>1, SizesAssumption
    <2>3. buffer.size < sent[d + 1]
      BY <1>3, <1>4 DEF RecvInv, PostedIs
    <2>4. sent[d + 1] <= z
      BY <2>2
    <2> QED
      BY <1>1, <1>2, <2>2, <2>3, <2>4
  <1>5. CASE d = l
    <2>1. Unbooked = 0
      BY DEF Unbooked
    <2>2. arrived = Taken + buffer.size + 0 /\ arrived <= Stream!Before(sent, l + 1)
      BY <1>3, <2>1 DEF RecvInv, StreamIs
    <2>3. Taken = Stream!Before(sent, l + 1)
      BY <1>3, <1>5 DEF Taken
    <2>4. Taken \in Nat
      <3>1. l + 1 \in 1 .. Len(sent) + 1
        BY <1>3
      <3> QED
        BY <1>2, <2>3, <3>1, BeforeFacts
    <2>5. buffer.size = 0
      BY <1>2, <2>2, <2>3, <2>4
    <2> QED
      BY <1>1, <1>2, <2>5
  <1> QED
    BY <1>3, <1>4, <1>5

\* A connection's memory is bounded: BufCount units, their successor, and those
\* that a single incomplete message extends over.
THEOREM ChainBound == Spec => []ChainBounded
  <1>1. ASSUME RecvInv PROVE ChainBounded
    <2>1. SUFFICES ASSUME pc = "posted", NEW z \in Sizes, \A x \in Sizes : x <= z
                   PROVE  Len(buffer.units) <=
                            BufCount + 1 + ((z - 1 + Capacity - 1) \div Capacity)
      BY DEF ChainBounded
    <2>2. PICK u \in Seq(Unit), w \in Nat, s \in Nat :
            buffer = [units |-> u, write |-> w, size |-> s] /\ OneTape(u, w, s)
      BY <1>1, OpenBuffer DEF RecvInv, ChainIs
    <2>3. z \in Nat /\ z > 0 /\ s <= z - 1
      BY <2>1, <2>2, <1>1, LessThanMessage
    <2>4. Len(u) = w + BufCount
      BY <1>1, <2>1, <2>2 DEF RecvInv, ChainIs
    <2>5. PICK a \in Nat : a = z - 1 + Capacity - 1
      BY <2>3, CapacityAssumption
    <2>6. w \in 1 .. Len(u)
      BY <2>2 DEF OneTape
    <2>7. PICK v \in Nat : w = v + 1
      <3>1. w - 1 \in Nat /\ w = (w - 1) + 1
        BY <2>6
      <3> QED
        BY <3>1
    <2>8. v * Capacity <= a
      <3>1. CASE v = 0
        BY <3>1, CapacityAssumption
      <3>2. CASE v > 0
        <4>1. 1 \in 1 .. Len(u) /\ w > 1
          BY <2>6, <2>7, <3>2
        <4>2. PICK h \in Nat, t \in Nat :
                h = u[1].head /\ t = u[w].tail /\ h <= Capacity
          BY <2>6, <4>1, UnitIs
        <4>3. t > 0 /\ h + s = Base(w) + t
          BY <2>2, <4>1, <4>2 DEF OneTape
        <4>4. Base(w) = v * Capacity
          BY <2>7 DEF Base
        <4>5. PICK m \in Nat : m = v * Capacity
          BY CapacityAssumption
        <4>6. h + s = m + t
          BY <4>3, <4>4, <4>5
        <4>7. m <= z - 1 + Capacity - 1
          <5>1. PICK c \in Nat : c = Capacity
            BY CapacityAssumption
          <5>2. h <= c /\ t >= 1 /\ z - 1 \in Nat
            BY <2>3, <4>2, <4>3, <5>1
          <5>3. m <= (z - 1) + (c - 1)
            BY <2>3, <4>6, <5>2
          <5> QED
            BY <5>1, <5>3
        <4> QED
          BY <2>5, <4>5, <4>7
      <3> QED
        BY <3>1, <3>2
    <2>9. v <= a \div Capacity
      BY <2>8, CapacityAssumption, DivBound
    <2>10. PICK q \in Int : q = (z - 1 + Capacity - 1) \div Capacity
      BY <2>5, CapacityAssumption
    <2>11. v <= q
      BY <2>5, <2>9, <2>10
    <2> QED
      BY <2>2, <2>4, <2>7, <2>10, <2>11, BufCountAssumption
  <1> QED
    BY <1>1, RecvInvariant, PTL

\* The chain of buffers implements a stream of messages: bytes only arrive, and
\* what EnqueueMsg is given is the next message that was sent, whole.
THEOREM ImplementsStreamCorrect == Spec => ImplementsStream
  <1>1. Init => Stream!StreamInit
    BY DEF Init, Stream!StreamInit
  <1>2. ASSUME RecvInv, [Next]_recvVars
        PROVE  [Stream!StreamNext]_(Stream!streamVars)
    <2>1. ASSUME NEW z \in Sizes, Send(z) PROVE Stream!Write(z)
      BY <2>1 DEF Send, Stream!Write
    <2>2. ASSUME NEW n \in 1 .. StreamSize, Complete(n) PROVE Stream!Arrive
      <3>1. /\ arrived + n <= StreamSize /\ arrived' = arrived + n
            /\ UNCHANGED <<sent, delivered>>
        BY <2>2 DEF Complete
      <3>2. PICK l \in Nat, a \in Nat : l = Len(sent) /\ a = arrived
        BY <1>2 DEF RecvInv, RecvTypes
      <3>3. SameBefore(sent, Append(sent, 0), l + 1)
        <4>1. ASSUME NEW i \in 1 .. l + 1, i < l + 1
              PROVE  sent[i] \in Nat /\ Append(sent, 0)[i] = sent[i]
          <5>1. i \in 1 .. Len(sent) /\ sent \in Seq(Sizes)
            BY <1>2, <3>2, <4>1 DEF RecvInv, RecvTypes
          <5> QED
            BY <5>1, SizesAssumption
        <4> QED
          BY <4>1 DEF SameBefore
      <3>4. /\ Stream!Before(sent, l + 1) \in Nat
            /\ Stream!Before(Append(sent, 0), l + 1) = Stream!Before(sent, l + 1)
        BY <3>2, <3>3, BeforePrefix
      <3>5. PICK y \in Nat : y = StreamSize
                          /\ y = Stream!Before(Append(sent, 0), Len(sent) + 1)
        BY <3>2, <3>4, SameStream DEF StreamSize
      <3>6. n \in 1 .. y
        BY <2>2, <3>5
      <3>7. a + n \in a + 1 .. y
        BY <3>1, <3>2, <3>5, <3>6
      <3> QED
        BY <3>1, <3>2, <3>5, <3>7 DEF Stream!Arrive
    <2>3. ASSUME Parse PROVE Stream!Take
      <3>1. PICK d \in Nat, l \in Nat : d = Len(delivered) /\ l = Len(sent)
        BY <1>2 DEF RecvInv, RecvTypes
      <3>2. /\ Len(delivered) < Len(sent)
            /\ Stream!Before(sent, Len(delivered) + 1) + sent[Len(delivered) + 1] <= arrived
            /\ delivered' = Append(delivered, Stream!Message(sent, Len(delivered) + 1))
            /\ UNCHANGED <<sent, arrived>>
        BY <1>2, <2>3, ParseIs
      <3>3. Len(delivered) + 1 <= Len(sent)
        BY <3>1, <3>2
      <3> QED
        BY <3>2, <3>3 DEF Stream!Take
    <2>4. ASSUME OnAccept \/ OnConnect \/ OnRecv \/ ParseEnd \/ HangUp \/ Closed
                 \/ UNCHANGED recvVars
          PROVE  UNCHANGED Stream!streamVars
      BY <2>4 DEF OnAccept, OnConnect, OnRecv, ParseEnd, HangUp, Closed, recvVars,
                  Stream!streamVars
    <2> QED
      BY <1>2, <2>1, <2>2, <2>3, <2>4 DEF Next, Receiver, Stream!StreamNext
  <1> QED
    BY <1>1, <1>2, RecvInvariant, PTL
       DEF Spec, ImplementsStream, Stream!StreamSpec

\* The messages delivered so far are the first of those sent.
Whole == \A m \in 1 .. Len(delivered) : delivered[m] = Stream!Message(sent, m)

LEMMA WholeNext ==
    ASSUME RecvInv, Whole, [Next]_recvVars
    PROVE  Whole'
  <1>1. PICK d \in Nat, l \in Nat : d = Len(delivered) /\ l = Len(sent) /\ d <= l
    BY DEF RecvInv, RecvTypes
  <1>2. sent \in Seq(Sizes) /\ delivered \in Seq(Seq(Nat))
    BY DEF RecvInv, RecvTypes
  <1>3. ASSUME NEW z \in Sizes, Send(z) PROVE Whole'
    <2>1. sent' = Append(sent, z) /\ delivered' = delivered
      BY <1>3 DEF Send
    <2>2. ASSUME NEW m \in 1 .. d
          PROVE  Stream!Message(Append(sent, z), m) = Stream!Message(sent, m)
      <3>1. m \in 1 .. Len(sent) /\ m \in 1 .. Len(sent) + 1
        BY <1>1
      <3>2. Append(sent, z)[m] = sent[m]
        BY <1>2, <3>1
      <3>3. Stream!Before(Append(sent, z), m) = Stream!Before(sent, m)
        BY <1>2, <3>1, BeforeAppended
      <3> QED
        BY <3>2, <3>3 DEF Stream!Message
    <2> QED
      BY <1>1, <2>1, <2>2 DEF Whole
  <1>4. CASE Parse
    <2>1. /\ delivered' = Append(delivered, Stream!Message(sent, d + 1))
          /\ sent' = sent
      BY <1>1, <1>4, ParseIs
    <2>2. delivered' \in Seq(Seq(Nat))
      BY <1>4, ParseIs DEF RecvInv, RecvTypes
    <2>3. /\ Len(delivered') = d + 1
          /\ \A m \in 1 .. d : delivered'[m] = delivered[m]
          /\ delivered'[d + 1] = Stream!Message(sent, d + 1)
      BY <1>1, <1>2, <2>1
    <2>4. ASSUME NEW m \in 1 .. d + 1 PROVE delivered'[m] = Stream!Message(sent, m)
      BY <1>1, <2>3 DEF Whole
    <2> QED
      BY <2>1, <2>3, <2>4 DEF Whole
  <1>5. CASE UNCHANGED <<sent, delivered>>
    BY <1>5 DEF Whole
  <1>6. CASE (\E n \in 1 .. StreamSize : Complete(n)) \/ OnAccept \/ OnConnect \/ OnRecv
             \/ ParseEnd \/ HangUp \/ Closed \/ UNCHANGED recvVars
    <2>1. UNCHANGED <<sent, delivered>>
      BY <1>6 DEF Complete, OnAccept, OnConnect, OnRecv, ParseEnd, HangUp, Closed,
                  recvVars
    <2> QED
      BY <1>5, <2>1
  <1> QED
    BY <1>3, <1>4, <1>6 DEF Next, Receiver

\* Whatever the pieces in which the stream arrives, EnqueueMsg is given the
\* messages that were sent, each with its own bytes, in their order.
THEOREM MessagesWhole == Spec => []Whole
  <1>1. Init => Whole
    BY DEF Init, Whole
  <1> QED
    BY <1>1, WholeNext, RecvInvariant, PTL DEF Spec

\* There is room in the WSABUFs of every receive: a whole unit at least, whatever
\* the one that is being written has left.
RoomPosted == pc = "posted" => \E i \in 1 .. Len(wsa) : wsa[i].len = Capacity

\* No receive is posted that could only complete with zero bytes, which the engine
\* takes for the end of the connection (BANetworkEngine.cpp:77).
THEOREM ReceivesHaveRoom == Spec => []RoomPosted
  <1>1. ASSUME RecvInv PROVE RoomPosted
    <2>1. SUFFICES ASSUME pc = "posted"
                   PROVE  \E i \in 1 .. Len(wsa) : wsa[i].len = Capacity
      BY DEF RoomPosted
    <2>2. PICK u \in Seq(Unit), w \in Nat, s \in Nat :
            buffer = [units |-> u, write |-> w, size |-> s] /\ OneTape(u, w, s)
      BY <1>1, OpenBuffer DEF RecvInv, ChainIs
    <2>3. /\ wsa = WsaBufs(buffer) /\ Len(u) = w + BufCount
      BY <1>1, <2>1, <2>2 DEF RecvInv, ChainIs
    <2>4. 2 \in 1 .. BufCount /\ w + 1 \in 1 .. Len(u) /\ w + 2 - 1 = w + 1
      BY <2>3, BufCountAssumption
    <2>5. u[w + 1].tail = 0
      <3>1. w + 1 > w
        OBVIOUS
      <3> QED
        BY <2>2, <2>4, <3>1 DEF OneTape
    <2>6. Writeable(u[w + 1]) = Capacity
      BY <2>5, CapacityAssumption DEF Writeable
    <2>7. Len(wsa) = BufCount /\ wsa[2].len = Writeable(u[w + 1])
      BY <2>2, <2>3, <2>4, BufCountAssumption DEF WsaBufs
    <2> QED
      BY <2>4, <2>6, <2>7
  <1> QED
    BY <1>1, RecvInvariant, PTL

=============================================================================
