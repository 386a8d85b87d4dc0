----------------------------- MODULE VaultProofs -----------------------------
(***************************************************************************)
(* Proofs about the vault: its ciphers give back what they were given, and *)
(* its objects are those of the calls on their name, for every number of   *)
(* calls, names and payloads, all ciphers, both drivers, and any number of *)
(* failures and crashes.                                                   *)
(***************************************************************************)
EXTENDS Vault, WellFoundedInduction, TLAPS

-----------------------------------------------------------------------------
(* Numbers and sequences.                                                  *)

LEMMA LeastNumber ==
    ASSUME NEW T \in SUBSET Nat, T # {}
    PROVE  \E n \in T : \A m \in T : n <= m
<1>1. PICK n \in T : \A m \in T : <<m, n>> \notin OpToRel(<, Nat)
    BY WFMin, NatLessThanWellFounded
<1>2. \A m \in T : ~(m < n)
    BY <1>1 DEF OpToRel
<1>3. QED
    BY <1>2

LEMMA AllNumbers ==
    ASSUME NEW T \in SUBSET Nat, 0 \in T, \A n \in T : n + 1 \in T
    PROVE  \A n \in Nat : n \in T
<1>1. SUFFICES ASSUME Nat \ T # {} PROVE FALSE
    OBVIOUS
<1>2. PICK n \in Nat \ T : \A m \in Nat \ T : n <= m
    BY <1>1, LeastNumber
<1>3. n - 1 \in Nat /\ n - 1 \in T
    BY <1>2
<1>4. QED
    BY <1>2, <1>3

LEMMA SequenceOf ==
    ASSUME NEW S, NEW n \in Nat, NEW f, f = [k \in 1..n |-> f[k]], \A k \in 1..n : f[k] \in S
    PROVE  f \in Seq(S) /\ Len(f) = n
<1>1. f \in [1..n -> S]
    OBVIOUS
<1>2. QED
    BY <1>1

LEMMA ElementOf ==
    ASSUME NEW S, NEW s \in Seq(S), NEW j \in 1..Len(s)
    PROVE  s[j] \in S
OBVIOUS

LEMMA ConcatLength ==
    ASSUME NEW S, NEW s \in Seq(S), NEW t \in Seq(S)
    PROVE  s \o t \in Seq(S) /\ Len(s \o t) = Len(s) + Len(t)
OBVIOUS

LEMMA ConcatCell ==
    ASSUME NEW S, NEW s \in Seq(S), NEW t \in Seq(S), NEW j \in 1..Len(t)
    PROVE  (s \o t)[Len(s) + j] = t[j]
OBVIOUS

-----------------------------------------------------------------------------
(* The padding, for every size of blocks.                                  *)

Byte == 0..255

LEMMA Remainder ==
    ASSUME NEW n \in Nat, NEW b \in Nat \ {0}
    PROVE  n % b \in 0..b - 1 /\ n = b * (n \div b) + (n % b) /\ n \div b \in Nat
OBVIOUS

LEMMA Multiple ==
    ASSUME NEW q \in Nat, NEW b \in Nat \ {0}
    PROVE  (b * q) % b = 0
OBVIOUS

\* The least padlen from 1 on that completes a block, as the loop of pad finds it.
LEMMA PadLengthCompletes ==
    ASSUME NEW len \in Nat, NEW b \in 2..255
    PROVE  /\ PadLength(len, b) \in 1..b
           /\ (len + PadLength(len, b)) % b = 0
<1> DEFINE q == len \div b
           r == len % b
<1>1. b \in Nat \ {0}
    OBVIOUS
<1>2. q \in Nat /\ r \in 0..b - 1 /\ len = b * q + r
    BY <1>1, Remainder
<1>3. PadLength(len, b) = b - r
    BY DEF PadLength
<1>4. PadLength(len, b) \in 1..b
    <2>1. b \in Nat /\ r \in Nat /\ r < b
        BY <1>1, <1>2
    <2> HIDE DEF r
    <2>2. QED
        BY <1>3, <2>1
<1>5. (b * (q + 1)) % b = 0
    <2>1. q + 1 \in Nat
        BY <1>2
    <2> HIDE DEF q
    <2>2. QED
        BY <1>1, <2>1, Multiple
<1>6. len + PadLength(len, b) = b * (q + 1)
    <2> HIDE DEF q, r
    <2>1. len + PadLength(len, b) = b * q + b
        BY <1>2, <1>3
    <2>2. b * (q + 1) = b * q + b
        BY <1>2
    <2>3. QED
        BY <2>1, <2>2
<1>7. QED
    BY <1>4, <1>5, <1>6

\* What pad makes: the text, and padlen times padlen.
LEMMA Padded ==
    ASSUME NEW data \in Seq(Byte), NEW b \in 2..255
    PROVE  LET padlen == PadLength(Len(data), b)
               text == pad(data, b)
           IN  /\ text \in Seq(Byte)
               /\ Len(text) = Len(data) + padlen
               /\ \A i \in 1..Len(data) : text[i] = data[i]
               /\ \A i \in Len(data) + 1..Len(text) : text[i] = padlen
<1> DEFINE padlen == PadLength(Len(data), b)
           tail == [i \in 1..padlen |-> padlen]
<1>0. Len(data) \in Nat
    OBVIOUS
<1>1. padlen \in 1..b
    BY <1>0, PadLengthCompletes
<1> HIDE DEF padlen
<1>2. padlen \in Byte /\ padlen \in Nat
    BY <1>1 DEF Byte
<1>3. tail \in Seq(Byte) /\ Len(tail) = padlen
    BY <1>2
<1>4. \A i \in 1..padlen : tail[i] = padlen
    OBVIOUS
<1>5. pad(data, b) = data \o tail
    BY DEF pad, padlen
<1> HIDE DEF tail
<1>6. /\ data \o tail \in Seq(Byte)
      /\ Len(data \o tail) = Len(data) + padlen
      /\ \A i \in 1..Len(data) : (data \o tail)[i] = data[i]
    BY <1>3
<1>7. ASSUME NEW i \in Len(data) + 1..Len(data) + padlen
      PROVE  (data \o tail)[i] = padlen
    <2>1. i - Len(data) \in 1..padlen
        BY <1>2
    <2>2. (data \o tail)[i] = tail[i - Len(data)]
        BY <1>3, <2>1, SMTT(30)
    <2>3. QED
        BY <1>4, <2>1, <2>2
<1>8. QED
    BY <1>5, <1>6, <1>7, SMTT(30) DEF padlen

\* Every text, the empty one and whole blocks too, comes back from its padding,
\* and a text shorter than a block is padded to exactly one block, as the
\* loops of AesCBCEncrypter and AesCBCDecrypter count on.
THEOREM PadRoundTrip ==
    ASSUME NEW data \in Seq(Byte), NEW b \in 2..255
    PROVE  /\ unpad(pad(data, b), b) = Answer(data)
           /\ Len(data) < b => Len(pad(data, b)) = b
<1> DEFINE padlen == PadLength(Len(data), b)
           text == pad(data, b)
<1>0. Len(data) \in Nat
    OBVIOUS
<1>1. padlen \in 1..b /\ (Len(data) + padlen) % b = 0
    BY <1>0, PadLengthCompletes
<1>2. /\ text \in Seq(Byte)
      /\ Len(text) = Len(data) + padlen
      /\ \A i \in 1..Len(data) : text[i] = data[i]
      /\ \A i \in Len(data) + 1..Len(text) : text[i] = padlen
    BY Padded
<1>3. Len(data) < b => padlen = b - Len(data)
    <2>1. ASSUME Len(data) < b PROVE Len(data) % b = Len(data)
        BY <2>1
    <2>2. QED
        BY <2>1 DEF PadLength
<1> HIDE DEF padlen, text
<1>4. Len(text) % b = 0 /\ Len(text) # 0 /\ Len(text) \in Len(data) + 1..Len(text)
    BY <1>1, <1>2
<1>5. text[Len(text)] = padlen
    BY <1>2, <1>4
<1>6. Len(text) - padlen = Len(data)
    BY <1>1, <1>2
<1>7. SubSeq(text, 1, Len(data)) = data
    <2>1. Len(data) <= Len(text)
        BY <1>1, <1>2
    <2>2. SubSeq(text, 1, Len(data)) \in Seq(Byte) /\ Len(SubSeq(text, 1, Len(data))) = Len(data)
        BY <1>2, <2>1
    <2>3. \A i \in 1..Len(data) : SubSeq(text, 1, Len(data))[i] = data[i]
        BY <1>2, <2>1
    <2>4. QED
        BY <2>2, <2>3
<1>8. unpad(text, b) = Answer(data)
    <2>1. \A i \in Len(text) - padlen + 1..Len(text) : text[i] = padlen
        BY <1>2, <1>6
    <2>2. unpad(text, b) = Answer(SubSeq(text, 1, Len(text) - padlen))
        BY <1>1, <1>4, <1>5, <2>1 DEF unpad
    <2>3. QED
        BY <1>6, <1>7, <2>2
<1>9. Len(data) < b => Len(text) = b
    BY <1>2, <1>3
<1>10. QED
    BY <1>8, <1>9 DEF text

-----------------------------------------------------------------------------
(* Pieces put together.                                                    *)

\* g is an account of the first n pieces put together, one after the other.
Upto(S, pieces, n, g) ==
    /\ g \in [0..n -> Seq(S)] /\ g[0] = <<>>
    /\ \A k \in 0..n - 1 : g[k + 1] = g[k] \o pieces[k + 1]

Account(S, pieces, g) == Upto(S, pieces, Len(pieces), g)

\* FlattenSeq comes to what any account of its pieces does.
LEMMA FlattenAccount ==
    ASSUME NEW S, NEW pieces \in Seq(Seq(S)), NEW g, Account(S, pieces, g)
    PROVE  FlattenSeq(pieces) = g[Len(pieces)]
<1> DEFINE N == Len(pieces)
<1>1. N \in Nat /\ \A k \in 1..N : pieces[k] \in Seq(S)
    OBVIOUS
<1>2. CASE N = 0
    <2>1. FlattenSeq(pieces) = pieces
        BY <1>2, Zenon DEF FlattenSeq
    <2>2. pieces = <<>>
        BY <1>2
    <2>3. QED
        BY <1>2, <2>1, <2>2 DEF Account, Upto
<1>3. CASE N # 0
    <2> DEFINE flatten == CHOOSE f : f = [i \in 1..N |->
                              IF i = 1 THEN pieces[i] ELSE f[i - 1] \o pieces[i]]
               h == [i \in 1..N |-> g[i]]
    <2>1. g[1] = pieces[1]
        <3>0. 0 \in 0..N - 1 /\ 0 + 1 = 1
            BY <1>1, <1>3
        <3>1. g[0 + 1] = g[0] \o pieces[0 + 1] /\ g[0] = <<>>
            BY <3>0 DEF Account, Upto
        <3>2. pieces[1] \in Seq(S)
            BY <1>1, <1>3
        <3>3. QED
            BY <3>1, <3>2
    <2>2. ASSUME NEW i \in 1..N, i # 1 PROVE g[i] = g[i - 1] \o pieces[i]
        <3>1. i - 1 \in 0..N - 1 /\ (i - 1) + 1 = i
            BY <1>1, <2>2
        <3>2. g[(i - 1) + 1] = g[i - 1] \o pieces[(i - 1) + 1]
            BY <3>1 DEF Account, Upto
        <3>3. QED
            BY <3>1, <3>2
    <2>3. h = [i \in 1..N |-> IF i = 1 THEN pieces[i] ELSE h[i - 1] \o pieces[i]]
        <3>1. ASSUME NEW i \in 1..N
              PROVE  h[i] = IF i = 1 THEN pieces[i] ELSE h[i - 1] \o pieces[i]
            <4>1. CASE i = 1
                BY <2>1, <4>1
            <4>2. CASE i # 1
                <5>1. i - 1 \in 1..N
                    BY <1>1, <4>2
                <5>2. h[i] = g[i] /\ h[i - 1] = g[i - 1]
                    BY <5>1
                <5>3. QED
                    BY <2>2, <4>2, <5>2
            <4>3. QED
                BY <4>1, <4>2
        <3>2. h = [i \in 1..N |-> h[i]]
            OBVIOUS
        <3> HIDE DEF h
        <3>3. QED
            BY <3>1, <3>2
    <2>4. flatten = [i \in 1..N |-> IF i = 1 THEN pieces[i] ELSE flatten[i - 1] \o pieces[i]]
        BY <2>3
    <2> HIDE DEF flatten, h
    <2>5. flatten[1] = pieces[1]
        BY <1>1, <1>3, <2>4
    <2>6. ASSUME NEW i \in 1..N, i # 1 PROVE flatten[i] = flatten[i - 1] \o pieces[i]
        BY <2>4, <2>6
    <2> DEFINE T == {i \in Nat : i + 1 \in 1..N => flatten[i + 1] = g[i + 1]}
    <2>7. 0 \in T
        BY <2>1, <2>5
    <2>8. ASSUME NEW i \in T PROVE i + 1 \in T
        <3>1. SUFFICES ASSUME (i + 1) + 1 \in 1..N
                       PROVE  flatten[(i + 1) + 1] = g[(i + 1) + 1]
            OBVIOUS
        <3>2. i + 1 \in 1..N /\ (i + 1) + 1 # 1 /\ ((i + 1) + 1) - 1 = i + 1
            BY <1>1, <3>1
        <3>3. flatten[i + 1] = g[i + 1]
            BY <3>2
        <3>4. flatten[(i + 1) + 1] = flatten[i + 1] \o pieces[(i + 1) + 1]
            BY <2>6, <3>1, <3>2
        <3>5. g[(i + 1) + 1] = g[i + 1] \o pieces[(i + 1) + 1]
            BY <2>2, <3>1, <3>2
        <3>6. QED
            BY <3>3, <3>4, <3>5
    <2> HIDE DEF T
    <2>9. \A i \in Nat : i \in T
        BY <2>7, <2>8, AllNumbers DEF T
    <2>10. N - 1 \in Nat /\ (N - 1) + 1 = N /\ N \in 1..N
        BY <1>1, <1>3
    <2>11. flatten[N] = g[N]
        BY <2>9, <2>10 DEF T
    <2>12. FlattenSeq(pieces) = flatten[N]
        BY <1>3 DEF FlattenSeq, flatten
    <2>13. QED
        BY <2>11, <2>12
<1>4. QED
    BY <1>2, <1>3

\* There is an account of all pieces.
LEMMA AccountExists ==
    ASSUME NEW S, NEW pieces \in Seq(Seq(S))
    PROVE  \E g : Account(S, pieces, g)
<1> DEFINE N == Len(pieces)
           T == {n \in Nat : n <= N => \E g : Upto(S, pieces, n, g)}
<1>1. N \in Nat /\ \A k \in 1..N : pieces[k] \in Seq(S)
    OBVIOUS
<1>2. 0 \in T
    <2>1. <<>> \in Seq(S)
        OBVIOUS
    <2>2. Upto(S, pieces, 0, [k \in 0..0 |-> <<>>])
        BY <2>1 DEF Upto
    <2>3. QED
        BY <2>2
<1>3. ASSUME NEW n \in T PROVE n + 1 \in T
    <2>1. SUFFICES ASSUME n + 1 <= N PROVE \E g : Upto(S, pieces, n + 1, g)
        OBVIOUS
    <2>2. n \in Nat /\ n <= N /\ n \in 0..n
        BY <1>1, <2>1
    <2>3. PICK g : Upto(S, pieces, n, g)
        BY <2>2
    <2> DEFINE h == [k \in 0..n + 1 |-> IF k = n + 1 THEN g[n] \o pieces[n + 1] ELSE g[k]]
    <2>4. g[n] \in Seq(S) /\ pieces[n + 1] \in Seq(S)
        BY <1>1, <2>1, <2>2, <2>3 DEF Upto
    <2>5. g[n] \o pieces[n + 1] \in Seq(S)
        BY <2>4
    <2>6. h \in [0..n + 1 -> Seq(S)]
        BY <2>2, <2>3, <2>5 DEF Upto
    <2>7. h[0] = <<>>
        BY <2>2, <2>3 DEF Upto
    <2>8. ASSUME NEW k \in 0..(n + 1) - 1 PROVE h[k + 1] = h[k] \o pieces[k + 1]
        <3>1. CASE k = n
            <4>0. n + 1 \in 0..n + 1
                BY <2>2
            <4>1. h[n + 1] = g[n] \o pieces[n + 1]
                BY <4>0, Zenon
            <4>2. h[n] = g[n]
                BY <2>2
            <4>3. QED
                BY <3>1, <4>1, <4>2
        <3>2. CASE k # n
            <4>1. k \in 0..n - 1 /\ k + 1 # n + 1 /\ k + 1 \in 0..n + 1 /\ k \in 0..n + 1
                BY <2>2, <3>2
            <4>2. h[k + 1] = g[k + 1] /\ h[k] = g[k]
                BY <4>1, <2>2
            <4>3. QED
                BY <2>3, <4>1, <4>2 DEF Upto
        <3>3. QED
            BY <3>1, <3>2
    <2> HIDE DEF h
    <2>9. Upto(S, pieces, n + 1, h)
        BY <2>6, <2>7, <2>8 DEF Upto
    <2>10. QED
        BY <2>9
<1> HIDE DEF T
<1>4. \A n \in Nat : n \in T
    BY <1>2, <1>3, AllNumbers DEF T
<1>5. QED
    BY <1>1, <1>4 DEF Account, T

\* What the first n pieces come to.
LEMMA FlattenPrefix ==
    ASSUME NEW S, NEW pieces \in Seq(Seq(S)), NEW g, Account(S, pieces, g),
           NEW n \in 0..Len(pieces)
    PROVE  FlattenSeq(SubSeq(pieces, 1, n)) = g[n]
<1> DEFINE first == SubSeq(pieces, 1, n)
           h == [k \in 0..n |-> g[k]]
<1>1. /\ first \in Seq(Seq(S)) /\ Len(first) = n /\ n \in Nat /\ n <= Len(pieces)
      /\ \A k \in 1..n : first[k] = pieces[k]
    OBVIOUS
<1> HIDE DEF first
<1>2. h \in [0..n -> Seq(S)] /\ h[0] = <<>>
    <2>1. g \in [0..Len(pieces) -> Seq(S)] /\ g[0] = <<>>
        BY DEF Account, Upto
    <2>2. \A k \in 0..n : k \in 0..Len(pieces)
        BY <1>1
    <2>3. 0 \in 0..n
        BY <1>1
    <2>4. \A k \in 0..n : g[k] \in Seq(S)
        BY <2>1, <2>2
    <2>5. QED
        BY <2>1, <2>3, <2>4, Zenon
<1>3. ASSUME NEW k \in 0..n - 1 PROVE h[k + 1] = h[k] \o first[k + 1]
    <2>1. k \in 0..Len(pieces) - 1 /\ k \in 0..n /\ k + 1 \in 0..n /\ k + 1 \in 1..n
        BY <1>1
    <2>2. g[k + 1] = g[k] \o pieces[k + 1]
        BY <2>1 DEF Account, Upto
    <2>3. h[k + 1] = g[k + 1] /\ h[k] = g[k] /\ first[k + 1] = pieces[k + 1]
        BY <1>1, <2>1
    <2>4. QED
        BY <2>2, <2>3
<1>4. h[n] = g[n]
    BY <1>1
<1> HIDE DEF h
<1>5. Account(S, first, h)
    BY <1>1, <1>2, <1>3 DEF Account, Upto
<1>6. FlattenSeq(first) = h[Len(first)]
    BY <1>1, <1>5, FlattenAccount
<1>7. QED
    BY <1>1, <1>4, <1>6 DEF first

\* One piece more.
LEMMA FlattenStep ==
    ASSUME NEW S, NEW pieces \in Seq(Seq(S)), NEW n \in 0..Len(pieces)
    PROVE  /\ FlattenSeq(SubSeq(pieces, 1, n)) \in Seq(S)
           /\ SubSeq(pieces, 1, 0) = <<>> /\ FlattenSeq(SubSeq(pieces, 1, 0)) = <<>>
           /\ FlattenSeq(SubSeq(pieces, 1, Len(pieces))) = FlattenSeq(pieces)
           /\ n < Len(pieces) =>
                 FlattenSeq(SubSeq(pieces, 1, n + 1))
                    = FlattenSeq(SubSeq(pieces, 1, n)) \o pieces[n + 1]
<1>1. PICK g : Account(S, pieces, g)
    BY AccountExists
<1>2. Len(pieces) \in Nat /\ n \in Nat /\ 0 \in 0..Len(pieces)
    OBVIOUS
<1>3. FlattenSeq(SubSeq(pieces, 1, n)) = g[n] /\ g[n] \in Seq(S)
    BY <1>1, FlattenPrefix DEF Account, Upto
<1>4. FlattenSeq(SubSeq(pieces, 1, 0)) = <<>>
    <2>1. FlattenSeq(SubSeq(pieces, 1, 0)) = g[0]
        BY <1>1, <1>2, FlattenPrefix
    <2>2. QED
        BY <1>1, <2>1 DEF Account, Upto
<1>5. SubSeq(pieces, 1, 0) = <<>>
    OBVIOUS
<1>6. SubSeq(pieces, 1, Len(pieces)) = pieces
    OBVIOUS
<1>7. ASSUME n < Len(pieces)
      PROVE  FlattenSeq(SubSeq(pieces, 1, n + 1)) = FlattenSeq(SubSeq(pieces, 1, n)) \o pieces[n + 1]
    <2>1. n + 1 \in 0..Len(pieces) /\ n \in 0..Len(pieces) - 1
        BY <1>2, <1>7
    <2>2. FlattenSeq(SubSeq(pieces, 1, n + 1)) = g[n + 1]
        BY <1>1, <2>1, FlattenPrefix
    <2>3. g[n + 1] = g[n] \o pieces[n + 1]
        BY <1>1, <2>1 DEF Account, Upto
    <2>4. QED
        BY <1>3, <2>2, <2>3
<1>8. QED
    BY <1>3, <1>4, <1>5, <1>6, <1>7

\* u says where each piece ends: u[k] is the length of the first k pieces.
Ends(pieces, u) ==
    /\ u \in [0..Len(pieces) -> Nat] /\ u[0] = 0
    /\ \A k \in 1..Len(pieces) : u[k] = u[k - 1] + Len(pieces[k])

\* The i-th of all is the one that it was in its piece.
PlacedIn(pieces, u, whole, i) ==
    \E m \in 1..Len(pieces) : \E j \in 1..Len(pieces[m]) :
        whole[i] = pieces[m][j] /\ i = u[m - 1] + j

LEMMA FlattenPlaces ==
    ASSUME NEW S, NEW pieces \in Seq(Seq(S)), NEW u, Ends(pieces, u)
    PROVE  /\ FlattenSeq(pieces) \in Seq(S)
           /\ Len(FlattenSeq(pieces)) = u[Len(pieces)]
           /\ \A i \in 1..u[Len(pieces)] : PlacedIn(pieces, u, FlattenSeq(pieces), i)
<1> DEFINE N == Len(pieces)
<1>1. N \in Nat /\ \A k \in 1..N : pieces[k] \in Seq(S)
    OBVIOUS
<1>2. PICK g : Account(S, pieces, g)
    BY AccountExists
<1> DEFINE Right(k) == Len(g[k]) = u[k] /\ \A i \in 1..u[k] : PlacedIn(pieces, u, g[k], i)
           T == {k \in Nat : k <= N => Right(k)}
<1>3. 0 \in T
    <2>1. g[0] = <<>> /\ u[0] = 0
        BY <1>2 DEF Account, Upto, Ends
    <2>2. QED
        BY <2>1
<1>4. ASSUME NEW k \in T PROVE k + 1 \in T
    <2>1. SUFFICES ASSUME k + 1 <= N PROVE Right(k + 1)
        OBVIOUS
    <2>2. /\ k \in Nat /\ k <= N /\ k \in 0..N - 1 /\ k \in 0..N /\ k + 1 \in 0..N
          /\ k + 1 \in 1..N /\ (k + 1) - 1 = k
        BY <1>1, <2>1
    <2>3. Right(k)
        BY <2>2
    <2> DEFINE a == g[k]
               p == pieces[k + 1]
    <2>4. a \in Seq(S) /\ p \in Seq(S) /\ g[k + 1] = a \o p
        BY <1>1, <1>2, <2>2 DEF Account, Upto
    <2>5. u[k] \in Nat /\ u[k + 1] \in Nat /\ u[k + 1] = u[k] + Len(p) /\ Len(a) = u[k]
        BY <2>2, <2>3 DEF Ends
    <2>5a. \A i \in 1..u[k] : PlacedIn(pieces, u, a, i)
        BY <2>3
    <2> HIDE DEF a, p, T, Right
    <2>6. Len(a \o p) = u[k + 1]
        <3>1. Len(a \o p) = Len(a) + Len(p)
            BY <2>4, ConcatLength
        <3>2. QED
            BY <2>5, <3>1
    <2>7. ASSUME NEW i \in 1..u[k + 1] PROVE PlacedIn(pieces, u, a \o p, i)
        <3>1. CASE i <= u[k]
            <4>1. i \in 1..u[k] /\ (a \o p)[i] = a[i]
                BY <2>4, <2>5, <3>1
            <4>2. PlacedIn(pieces, u, a, i)
                BY <4>1, <2>5a
            <4>3. QED
                BY <4>1, <4>2 DEF PlacedIn
        <3>2. CASE i > u[k]
            <4>0. /\ Len(p) \in Nat /\ i \in Nat /\ i - u[k] \in 1..Len(p) /\ i = u[k] + (i - u[k])
                  /\ i = Len(a) + (i - u[k])
                BY <2>4, <2>5, <3>2
            <4>1. (a \o p)[i] = p[i - u[k]]
                BY <2>4, <4>0, ConcatCell
            <4>2. QED
                BY <4>0, <4>1, <2>2 DEF PlacedIn, p
        <3>3. QED
            BY <2>5, <3>1, <3>2
    <2>8. QED
        BY <2>4, <2>6, <2>7 DEF Right
<1> HIDE DEF T
<1>5. \A k \in Nat : k \in T
    BY <1>3, <1>4, AllNumbers DEF T
<1>6. Right(N)
    BY <1>1, <1>5 DEF T
<1>7. FlattenSeq(pieces) = g[N] /\ g[N] \in Seq(S)
    <2>1. FlattenSeq(pieces) = g[N]
        BY <1>2, FlattenAccount
    <2>2. g \in [0..N -> Seq(S)] /\ N \in 0..N
        BY <1>1, <1>2 DEF Account, Upto
    <2>3. QED
        BY <2>1, <2>2
<1>8. QED
    BY <1>6, <1>7

-----------------------------------------------------------------------------
(* The pieces that a loop of reads sees.                                   *)

LEMMA LeastOfTwo ==
    ASSUME NEW a \in Nat, NEW b \in Nat
    PROVE  Min({a, b}) = IF a <= b THEN a ELSE b
BY DEF Min

LEMMA GreatestOfTwo ==
    ASSUME NEW a \in Nat, NEW b \in Nat
    PROVE  Max({a, b}) = IF a >= b THEN a ELSE b
BY DEF Max

LEMMA Times ==
    ASSUME NEW a \in Nat, NEW b \in Nat, a <= b, NEW s \in Nat
    PROVE  a * s \in Nat /\ b * s \in Nat /\ a * s <= b * s
<1>1. PICK d \in Nat : b = a + d
    <2>1. b - a \in Nat /\ b = a + (b - a)
        OBVIOUS
    <2>2. QED
        BY <2>1
<1>2. (a + d) * s = a * s + d * s
    OBVIOUS
<1>3. a * s \in Nat /\ d * s \in Nat
    OBVIOUS
<1>4. QED
    BY <1>1, <1>2, <1>3

Count(len, size) == (len + size - 1) \div size

\* Where the first k pieces end.
End(len, size, k) == IF k * size <= len THEN k * size ELSE len

LEMMA CountEnough ==
    ASSUME NEW len \in Nat, NEW size \in Nat \ {0}
    PROVE  /\ Count(len, size) \in Nat /\ len <= Count(len, size) * size
           /\ \A k \in 1..Count(len, size) : (k - 1) * size \in Nat /\ (k - 1) * size < len
<1> DEFINE q == (len + size - 1) \div size
           r == (len + size - 1) % size
<1>1. q \in Nat /\ r \in 0..size - 1 /\ len + size - 1 = size * q + r
    <2>1. len + size - 1 \in Nat
        OBVIOUS
    <2> DEFINE n == len + size - 1
    <2> HIDE DEF n
    <2>2. n \in Nat => n % size \in 0..size - 1 /\ n = size * (n \div size) + (n % size) /\ n \div size \in Nat
        BY Remainder
    <2>3. QED
        BY <2>1, <2>2 DEF n
<1> HIDE DEF q, r
<1>2. q * size \in Nat /\ q * size = size * q
    BY <1>1
<1>3. q * size = len + size - 1 - r
    BY <1>1, <1>2
<1>4. len <= q * size
    BY <1>1, <1>2, <1>3
<1>5. ASSUME NEW k \in 1..q PROVE (k - 1) * size \in Nat /\ (k - 1) * size < len
    <2>1. k - 1 \in Nat /\ q - 1 \in Nat /\ k - 1 <= q - 1
        BY <1>1
    <2>2. (k - 1) * size \in Nat /\ (k - 1) * size <= (q - 1) * size
        BY <2>1, Times
    <2>3. (q - 1) * size = q * size - size
        BY <1>1
    <2>4. (q - 1) * size < len
        BY <1>1, <1>3, <2>3
    <2>5. (q - 1) * size \in Nat
        BY <2>1
    <2>6. QED
        BY <2>2, <2>4, <2>5
<1>6. QED
    BY <1>1, <1>4, <1>5 DEF Count, q

\* A piece is what lies between its ends.
LEMMA ChunkAt ==
    ASSUME NEW data \in Seq(Byte), NEW size \in Nat \ {0},
           NEW k \in 1..Count(Len(data), size)
    PROVE  /\ End(Len(data), size, k) \in 0..Len(data)
           /\ End(Len(data), size, k - 1) = (k - 1) * size
           /\ Chunks(data, size)[k] \in Seq(Byte)
           /\ End(Len(data), size, k) = End(Len(data), size, k - 1) + Len(Chunks(data, size)[k])
           /\ \A j \in 1..Len(Chunks(data, size)[k]) :
                 /\ End(Len(data), size, k - 1) + j \in 1..Len(data)
                 /\ Chunks(data, size)[k][j] = data[End(Len(data), size, k - 1) + j]
<1> DEFINE L == Len(data)
           a == (k - 1) * size
           b == k * size
           top == IF b <= L THEN b ELSE L
           piece == Chunks(data, size)[k]
<1>1. L \in Nat /\ Count(L, size) \in Nat /\ k \in Nat
    BY CountEnough
<1>2. a \in Nat /\ a < L
    BY <1>1, CountEnough
<1>3. b \in Nat /\ b = a + size
    BY <1>1
<1>4. piece = SubSeq(data, a + 1, Min({b, L}))
    BY DEF Chunks, Count
<1>5. Min({b, L}) = top
    <2> HIDE DEF b, L
    <2>1. QED
        BY <1>1, <1>3, LeastOfTwo
<1>6. End(L, size, k) = top /\ End(L, size, k - 1) = a
    <2> HIDE DEF L
    <2>1. End(L, size, k - 1) = IF a <= L THEN a ELSE L
        BY DEF End
    <2>2. QED
        BY <1>1, <1>2, <2>1 DEF End
<1> HIDE DEF a, b, piece
<1>7. top \in Nat /\ a < top /\ top <= L
    BY <1>1, <1>2, <1>3
<1> HIDE DEF top, L
<1>8. /\ piece \in Seq(Byte) /\ Len(piece) = top - a
      /\ \A j \in 1..top - a : piece[j] = data[a + j]
    <2>1. \A i \in a + 1..top : data[i] \in Byte
        BY <1>1, <1>2, <1>7 DEF L
    <2>2. piece = SubSeq(data, a + 1, top)
        BY <1>4, <1>5
    <2>3. /\ SubSeq(data, a + 1, top) \in Seq(Byte)
          /\ Len(SubSeq(data, a + 1, top)) = top - a
        BY <1>1, <1>2, <1>7 DEF L
    <2>4. ASSUME NEW j \in 1..top - a
          PROVE  SubSeq(data, a + 1, top)[j] = data[a + j]
        BY <1>1, <1>2, <1>7 DEF L
    <2>5. QED
        BY <2>2, <2>3, <2>4
<1>9. top = a + Len(piece)
    BY <1>2, <1>7, <1>8
<1>10. \A j \in 1..Len(piece) : a + j \in 1..L /\ piece[j] = data[a + j]
    BY <1>1, <1>2, <1>7, <1>8
<1>11. QED
    BY <1>1, <1>6, <1>7, <1>8, <1>9, <1>10 DEF L, a, piece

LEMMA ChunkByte ==
    ASSUME NEW data \in Seq(Byte), NEW size \in Nat \ {0},
           NEW k \in 1..Count(Len(data), size)
    PROVE  /\ \A j \in 1..Len(Chunks(data, size)[k]) :
                 Chunks(data, size)[k][j] = data[End(Len(data), size, k - 1) + j]
           /\ End(Len(data), size, k - 1) = (k - 1) * size
<1>1. End(Len(data), size, k - 1) = (k - 1) * size
    BY ChunkAt
<1>2. \A j \in 1..Len(Chunks(data, size)[k]) :
                 /\ End(Len(data), size, k - 1) + j \in 1..Len(data)
                 /\ Chunks(data, size)[k][j] = data[End(Len(data), size, k - 1) + j]
    BY ChunkAt
<1>3. QED
    BY <1>1, <1>2

\* The pieces of the source, and where they end.
LEMMA ChunksEnd ==
    ASSUME NEW data \in Seq(Byte), NEW size \in Nat \ {0}
    PROVE  LET u == [k \in 0..Count(Len(data), size) |-> End(Len(data), size, k)]
           IN  /\ Chunks(data, size) \in Seq(Seq(Byte))
               /\ Len(Chunks(data, size)) = Count(Len(data), size)
               /\ Count(Len(data), size) \in Nat
               /\ u[Count(Len(data), size)] = Len(data)
               /\ Ends(Chunks(data, size), u)
<1> DEFINE L == Len(data)
           N == Count(L, size)
           u == [k \in 0..N |-> End(L, size, k)]
           pieces == Chunks(data, size)
<1>1. L \in Nat /\ N \in Nat /\ L <= N * size
    <2>1. L \in Nat
        OBVIOUS
    <2> HIDE DEF L
    <2>2. QED
        BY <2>1, CountEnough
<1>2. pieces = [k \in 1..N |-> pieces[k]]
    BY DEF Chunks, Count
<1>3. \A k \in 1..N : pieces[k] \in Seq(Byte) /\ End(L, size, k) \in Nat
                      /\ End(L, size, k) = End(L, size, k - 1) + Len(pieces[k])
    <2>1. ASSUME NEW k \in 1..N
          PROVE pieces[k] \in Seq(Byte) /\ End(L, size, k) \in 0..L
                      /\ End(L, size, k) = End(L, size, k - 1) + Len(pieces[k])
        BY ChunkAt
    <2>2. QED
        BY <2>1
<1>4. End(L, size, 0) = 0
    BY <1>1 DEF End
<1>5. End(L, size, N) = L
    <2> HIDE DEF L, N
    <2>1. CASE N * size = L
        BY <1>1, <2>1 DEF End
    <2>2. CASE N * size # L
        <3>1. N * size \in Nat
            BY <1>1
        <3>2. ~(N * size <= L)
            BY <1>1, <2>2, <3>1
        <3>3. QED
            BY <3>2 DEF End
    <2>3. QED
        BY <2>1, <2>2
<1> HIDE DEF L, N, pieces
<1>6. pieces \in Seq(Seq(Byte)) /\ Len(pieces) = N
    <2>1. \A k \in 1..N : pieces[k] \in Seq(Byte)
        BY <1>3
    <2>2. QED
        BY <1>1, <1>2, <2>1, SequenceOf
<1>7. u[0] = 0 /\ u[N] = L
    BY <1>1, <1>4, <1>5
<1>8. u \in [0..N -> Nat]
    <2>1. \A k \in 0..N : k = 0 \/ k \in 1..N
        BY <1>1
    <2>2. \A k \in 0..N : End(L, size, k) \in Nat
        BY <2>1, <1>3, <1>4
    <2>3. QED
        BY <2>2
<1>9. ASSUME NEW k \in 1..N PROVE u[k] = u[k - 1] + Len(pieces[k])
    <2>1. k \in 0..N /\ k - 1 \in 0..N
        BY <1>1
    <2>2. u[k] = End(L, size, k) /\ u[k - 1] = End(L, size, k - 1)
        BY <2>1
    <2>3. QED
        BY <1>3, <2>2
<1> HIDE DEF u
<1>10. Ends(pieces, u)
    BY <1>6, <1>7, <1>8, <1>9 DEF Ends
<1>11. QED
    BY <1>1, <1>6, <1>7, <1>10 DEF u, L, N, pieces

\* The pieces of the source, put together, are the source.
LEMMA ChunksFlatten ==
    ASSUME NEW data \in Seq(Byte), NEW size \in Nat \ {0}
    PROVE  FlattenSeq(Chunks(data, size)) = data
<1> DEFINE L == Len(data)
           N == Count(L, size)
           u == [k \in 0..N |-> End(L, size, k)]
           pieces == Chunks(data, size)
           whole == FlattenSeq(pieces)
<1>1. /\ pieces \in Seq(Seq(Byte)) /\ Len(pieces) = N /\ N \in Nat
      /\ u[N] = L /\ Ends(pieces, u)
    BY ChunksEnd
<1>2. /\ whole \in Seq(Byte) /\ Len(whole) = L
      /\ \A i \in 1..L : PlacedIn(pieces, u, whole, i)
    <2> HIDE DEF u, pieces, L, N
    <2>1. /\ FlattenSeq(pieces) \in Seq(Byte) /\ Len(FlattenSeq(pieces)) = u[Len(pieces)]
          /\ \A i \in 1..u[Len(pieces)] : PlacedIn(pieces, u, FlattenSeq(pieces), i)
        BY <1>1, FlattenPlaces
    <2>2. QED
        BY <1>1, <2>1
<1>3. ASSUME NEW i \in 1..L PROVE whole[i] = data[i]
    <2> HIDE DEF whole
    <2>1. PICK m \in 1..Len(pieces) : \E j \in 1..Len(pieces[m]) :
                   whole[i] = pieces[m][j] /\ i = u[m - 1] + j
        BY <1>2 DEF PlacedIn
    <2>2. PICK j \in 1..Len(pieces[m]) : whole[i] = pieces[m][j] /\ i = u[m - 1] + j
        BY <2>1
    <2>3. m \in 1..N /\ m - 1 \in 0..N
        BY <1>1
    <2>4. pieces[m][j] = data[End(L, size, m - 1) + j]
        BY <2>3, ChunkByte, Zenon
    <2>5. QED
        BY <2>2, <2>3, <2>4
<1> HIDE DEF whole
<1>4. QED
    BY <1>2, <1>3 DEF whole

-----------------------------------------------------------------------------
(* What is encrypted can be decrypted.                                     *)

Algorithms == {"no_op", "aes_ofb", "aes_ctr", "aes_cbc", "aes_gcm"}

\* What a cell of the ciphers that work by the byte may hold.
Plain == 0..256

CellOf(key) ==
    [key : {key, NoKey}, place : Nat, total : Nat, plain : Plain \cup Seq(Byte)]

\* What is known of the cells that a piece is encrypted to.
Encrypted(key, cells, k, first, total, plain) ==
    /\ cells \in Seq(CellOf(key)) /\ Len(cells) = Len(plain)
    /\ \A j \in 1..Len(plain) : cells[j] = Cell(k, first + j - 1, total, plain[j])

LEMMA CellsAre ==
    ASSUME NEW key, NEW k \in {key, NoKey}, NEW first \in Nat, NEW total \in Nat,
           NEW plain \in Seq(Plain)
    PROVE  Encrypted(key, Cells(k, first, total, plain), k, first, total, plain)
<1> DEFINE cells == Cells(k, first, total, plain)
<1>1. Len(plain) \in Nat
    OBVIOUS
<1>2. cells = [j \in 1..Len(plain) |-> Cell(k, first + j - 1, total, plain[j])]
    BY DEF Cells
<1>3. ASSUME NEW j \in 1..Len(plain)
      PROVE  Cell(k, first + j - 1, total, plain[j]) \in CellOf(key)
    <2>1. first + j - 1 \in Nat
        BY <1>1
    <2>2. plain[j] \in Plain
        BY ElementOf
    <2>3. QED
        BY <2>1, <2>2 DEF Cell, CellOf
<1>4. \A j \in 1..Len(plain) : cells[j] = Cell(k, first + j - 1, total, plain[j])
    BY <1>2
<1> HIDE DEF cells
<1>5. cells = [j \in 1..Len(plain) |-> cells[j]]
    BY <1>2
<1>6. \A j \in 1..Len(plain) : cells[j] \in CellOf(key)
    BY <1>3, <1>4
<1>7. cells \in Seq(CellOf(key)) /\ Len(cells) = Len(plain)
    BY <1>1, <1>5, <1>6, SequenceOf
<1>8. QED
    BY <1>4, <1>7 DEF cells, Encrypted

LEMMA BytesWiden ==
    ASSUME NEW data \in Seq(Byte) PROVE data \in Seq(Plain)
BY DEF Byte, Plain

\* e has a piece of as many cells for every piece of the source.
PerPiece(S, data, size, e) ==
    /\ e \in Seq(Seq(S)) /\ Len(e) = Count(Len(data), size)
    /\ \A m \in 1..Len(e) : Len(e[m]) = Len(Chunks(data, size)[m])

\* The i-th of all is that of the piece that had the i-th byte.
ComesFrom(data, size, e, whole, i) ==
    \E m \in 1..Len(e) : \E j \in 1..Len(e[m]) :
        /\ whole[i] = e[m][j]
        /\ i = (m - 1) * size + j
        /\ Chunks(data, size)[m][j] = data[i]

\* Pieces encrypted one by one, each to cells of the same number, lie where
\* the pieces lay.
LEMMA PieceByPiece ==
    ASSUME NEW S, NEW data \in Seq(Byte), NEW size \in Nat \ {0},
           NEW e, PerPiece(S, data, size, e)
    PROVE  /\ FlattenSeq(e) \in Seq(S) /\ Len(FlattenSeq(e)) = Len(data)
           /\ \A i \in 1..Len(data) : ComesFrom(data, size, e, FlattenSeq(e), i)
<1> DEFINE L == Len(data)
           N == Count(L, size)
           u == [k \in 0..N |-> End(L, size, k)]
           pieces == Chunks(data, size)
           whole == FlattenSeq(e)
<1>1. /\ pieces \in Seq(Seq(Byte)) /\ Len(pieces) = N /\ N \in Nat
      /\ u[N] = L /\ Ends(pieces, u)
    BY ChunksEnd
<1>2. /\ whole \in Seq(S) /\ Len(whole) = L
      /\ \A i \in 1..L : PlacedIn(e, u, whole, i)
    <2>0. e \in Seq(Seq(S)) /\ Len(e) = N /\ \A m \in 1..N : Len(e[m]) = Len(pieces[m])
        BY DEF PerPiece
    <2> HIDE DEF u, pieces, L, N
    <2>1. Ends(e, u)
        BY <1>1, <2>0 DEF Ends
    <2>2. /\ FlattenSeq(e) \in Seq(S) /\ Len(FlattenSeq(e)) = u[Len(e)]
          /\ \A i \in 1..u[Len(e)] : PlacedIn(e, u, FlattenSeq(e), i)
        BY <2>0, <2>1, FlattenPlaces
    <2>3. QED
        BY <1>1, <2>0, <2>2
<1>3. ASSUME NEW i \in 1..L
      PROVE  ComesFrom(data, size, e, whole, i)
    <2> HIDE DEF whole
    <2>1. PICK m \in 1..Len(e) : \E j \in 1..Len(e[m]) :
                   whole[i] = e[m][j] /\ i = u[m - 1] + j
        BY <1>2 DEF PlacedIn
    <2>2. PICK j \in 1..Len(e[m]) : whole[i] = e[m][j] /\ i = u[m - 1] + j
        BY <2>1
    <2>3. m \in 1..N /\ m - 1 \in 0..N /\ j \in 1..Len(pieces[m])
        BY <1>1 DEF PerPiece
    <2>4. /\ pieces[m][j] = data[End(L, size, m - 1) + j]
          /\ End(L, size, m - 1) = (m - 1) * size
        BY <2>3, ChunkByte, Zenon
    <2>5. u[m - 1] = End(L, size, m - 1)
        BY <2>3
    <2> HIDE DEF u, L, N, pieces
    <2>6. i = (m - 1) * size + j
        BY <2>2, <2>4, <2>5
    <2>7. pieces[m][j] = data[i]
        BY <2>2, <2>4, <2>5
    <2>8. QED
        BY <2>2, <2>6, <2>7 DEF ComesFrom, pieces
<1>4. QED
    BY <1>2, <1>3

\* Every piece is encrypted to cells, of places that depend on the piece.
InPieces(k, data, size, first) ==
    [m \in DOMAIN Chunks(data, size) |-> Cells(k, first[m], 0, Chunks(data, size)[m])]

LEMMA Piecewise ==
    ASSUME NEW key, NEW k \in {key, NoKey}, NEW data \in Seq(Byte),
           NEW size \in Nat \ {0}, NEW first,
           \A m \in 1..Count(Len(data), size) : first[m] \in Nat,
           NEW e, e = InPieces(k, data, size, first)
    PROVE  /\ PerPiece(CellOf(key), data, size, e)
           /\ \A m \in 1..Len(e) : \A j \in 1..Len(e[m]) :
                 e[m][j] = Cell(k, first[m] + j - 1, 0, Chunks(data, size)[m][j])
<1> DEFINE pieces == Chunks(data, size)
           N == Count(Len(data), size)
<1>1. pieces \in Seq(Seq(Byte)) /\ Len(pieces) = N /\ N \in Nat
    BY ChunksEnd
<1>2. DOMAIN pieces = 1..N
    BY <1>1
<1>3. e = [m \in 1..N |-> Cells(k, first[m], 0, pieces[m])]
    BY <1>2 DEF InPieces
<1>3a. \A m \in 1..N : first[m] \in Nat
    OBVIOUS
<1> HIDE DEF pieces, N
<1>4. ASSUME NEW m \in 1..N
      PROVE  Encrypted(key, e[m], k, first[m], 0, pieces[m])
    <2>1. pieces[m] \in Seq(Byte)
        BY <1>1
    <2>2. pieces[m] \in Seq(Plain)
        BY <2>1, BytesWiden
    <2>3. e[m] = Cells(k, first[m], 0, pieces[m])
        BY <1>3
    <2>4. Encrypted(key, Cells(k, first[m], 0, pieces[m]), k, first[m], 0, pieces[m])
        <3> DEFINE place == first[m]
                   text == pieces[m]
        <3>1. place \in Nat /\ text \in Seq(Plain) /\ k \in {key, NoKey}
            BY <1>3a, <2>2
        <3> HIDE DEF place, text
        <3>2. Encrypted(key, Cells(k, place, 0, text), k, place, 0, text)
            BY <3>1, CellsAre
        <3>3. QED
            BY <3>2 DEF place, text
    <2>5. QED
        BY <2>3, <2>4
<1>5. e = [m \in 1..N |-> e[m]]
    BY <1>3
<1>6. \A m \in 1..N : e[m] \in Seq(CellOf(key)) /\ Len(e[m]) = Len(pieces[m])
    BY <1>4 DEF Encrypted
<1>7. e \in Seq(Seq(CellOf(key))) /\ Len(e) = N
    <2>1. N \in Nat /\ \A m \in 1..N : e[m] \in Seq(CellOf(key))
        BY <1>1, <1>6
    <2> DEFINE T == Seq(CellOf(key))
    <2>2. \A m \in 1..N : e[m] \in T
        BY <2>1
    <2> HIDE DEF T
    <2>3. e \in Seq(T) /\ Len(e) = N
        BY <1>5, <2>1, <2>2, SequenceOf
    <2>4. QED
        BY <2>3 DEF T
<1>8. PerPiece(CellOf(key), data, size, e)
    BY <1>6, <1>7 DEF PerPiece, pieces, N
<1>9. ASSUME NEW m \in 1..N, NEW j \in 1..Len(e[m])
      PROVE  e[m][j] = Cell(k, first[m] + j - 1, 0, pieces[m][j])
    BY <1>4, <1>6 DEF Encrypted
<1>10. QED
    BY <1>7, <1>8, <1>9 DEF pieces

LEMMA NoopPieces ==
    ASSUME NEW key, NEW data \in Seq(Byte)
    PROVE  /\ PerPiece(CellOf(key), data, CopySize, NoopEncrypter(data))
           /\ \A m \in 1..Len(NoopEncrypter(data)) : \A j \in 1..Len(NoopEncrypter(data)[m]) :
                 NoopEncrypter(data)[m][j].plain = Chunks(data, CopySize)[m][j]
<1> DEFINE e == NoopEncrypter(data)
           first == [m \in 1..Count(Len(data), CopySize) |-> 0]
           k == NoKey
<1>1. CopySize \in Nat \ {0}
    BY CipherAssumption
<1>2. DOMAIN Chunks(data, CopySize) = 1..Count(Len(data), CopySize)
    BY DEF Chunks, Count
<1>3. e = InPieces(k, data, CopySize, first)
    BY <1>2 DEF NoopEncrypter, InPieces
<1>4. \A m \in 1..Count(Len(data), CopySize) : first[m] \in Nat
    OBVIOUS
<1>4a. k \in {key, NoKey}
    OBVIOUS
<1> HIDE DEF first, e, k
<1>5. /\ PerPiece(CellOf(key), data, CopySize, e)
      /\ \A m \in 1..Len(e) : \A j \in 1..Len(e[m]) :
            e[m][j] = Cell(k, first[m] + j - 1, 0, Chunks(data, CopySize)[m][j])
    BY <1>1, <1>3, <1>4, <1>4a, Piecewise
<1>6. ASSUME NEW m \in 1..Len(e), NEW j \in 1..Len(e[m])
      PROVE  e[m][j].plain = Chunks(data, CopySize)[m][j]
    <2>1. e[m][j] = Cell(k, first[m] + j - 1, 0, Chunks(data, CopySize)[m][j])
        BY <1>5
    <2>2. QED
        BY <2>1 DEF Cell
<1>7. QED
    BY <1>5, <1>6 DEF e

\* Every byte is encrypted at its place in the stream.
InStream(key, data, e) ==
    \A m \in 1..Len(e) : \A j \in 1..Len(e[m]) :
        e[m][j] = Cell(key, (m - 1) * CopySize + j, 0, Chunks(data, CopySize)[m][j])

LEMMA StreamPieces ==
    ASSUME NEW key, NEW data \in Seq(Byte)
    PROVE  /\ PerPiece(CellOf(key), data, CopySize, StreamEncrypter(key, data))
           /\ InStream(key, data, StreamEncrypter(key, data))
<1> DEFINE e == StreamEncrypter(key, data)
           N == Count(Len(data), CopySize)
           first == [m \in 1..N |-> (m - 1) * CopySize + 1]
<1>1. CopySize \in Nat \ {0} /\ N \in Nat
    <2>1. CopySize \in Nat \ {0} /\ Len(data) \in Nat
        BY CipherAssumption
    <2>2. QED
        BY <2>1, CountEnough
<1>2. DOMAIN Chunks(data, CopySize) = 1..N
    BY DEF Chunks, Count
<1>3. e = InPieces(key, data, CopySize, first)
    BY <1>2 DEF StreamEncrypter, InPieces
<1>4. ASSUME NEW m \in 1..N PROVE first[m] \in Nat /\ first[m] = (m - 1) * CopySize + 1
    <2>1. m - 1 \in Nat
        BY <1>1
    <2>2. (m - 1) * CopySize \in Nat
        BY <1>1, <2>1
    <2>3. QED
        BY <2>2
<1>4a. Len(e) = N
    BY <1>1, <1>2, <1>3 DEF InPieces
<1> HIDE DEF first, e
<1>5. /\ PerPiece(CellOf(key), data, CopySize, e)
      /\ \A m \in 1..Len(e) : \A j \in 1..Len(e[m]) :
            e[m][j] = Cell(key, first[m] + j - 1, 0, Chunks(data, CopySize)[m][j])
    BY <1>1, <1>3, <1>4, Piecewise
<1> HIDE DEF N
<1>6. ASSUME NEW m \in 1..Len(e), NEW j \in 1..Len(e[m])
      PROVE  e[m][j] = Cell(key, (m - 1) * CopySize + j, 0, Chunks(data, CopySize)[m][j])
    <2>1. first[m] = (m - 1) * CopySize + 1 /\ (m - 1) * CopySize \in Int /\ j \in Int
        BY <1>1, <1>4, <1>4a
    <2>2. first[m] + j - 1 = (m - 1) * CopySize + j
        BY <2>1
    <2>3. QED
        BY <1>5, <2>2
<1>7. QED
    BY <1>5, <1>6 DEF e, InStream

LEMMA NoopRoundTrip ==
    ASSUME NEW data \in Seq(Byte)
    PROVE  NoopDecrypter(FlattenSeq(NoopEncrypter(data))) = Answer(data)
<1> DEFINE e == NoopEncrypter(data)
           whole == FlattenSeq(e)
<1>0. CopySize \in Nat \ {0}
    BY CipherAssumption
<1>1. /\ PerPiece(CellOf(NoKey), data, CopySize, e)
      /\ \A m \in 1..Len(e) : \A j \in 1..Len(e[m]) :
            e[m][j].plain = Chunks(data, CopySize)[m][j]
    BY NoopPieces
<1> HIDE DEF e
<1>2. /\ whole \in Seq(CellOf(NoKey)) /\ Len(whole) = Len(data)
      /\ \A i \in 1..Len(data) : ComesFrom(data, CopySize, e, whole, i)
    BY <1>0, <1>1, PieceByPiece
<1> HIDE DEF whole
<1>3. \A i \in 1..Len(data) : whole[i].plain = data[i]
    BY <1>1, <1>2 DEF ComesFrom
<1>4. DOMAIN whole = 1..Len(data)
    BY <1>2
<1>5. [i \in DOMAIN whole |-> whole[i].plain] = data
    BY <1>3, <1>4
<1>6. QED
    BY <1>5 DEF NoopDecrypter, e, whole

LEMMA StreamRoundTrip ==
    ASSUME NEW key, NEW data \in Seq(Byte)
    PROVE  StreamDecrypter(key, FlattenSeq(StreamEncrypter(key, data))) = Answer(data)
<1> DEFINE e == StreamEncrypter(key, data)
           whole == FlattenSeq(e)
<1>0. CopySize \in Nat \ {0}
    BY CipherAssumption
<1>1. /\ PerPiece(CellOf(key), data, CopySize, e)
      /\ InStream(key, data, e)
    BY StreamPieces, Zenon
<1> HIDE DEF e
<1>2. /\ whole \in Seq(CellOf(key)) /\ Len(whole) = Len(data)
      /\ \A i \in 1..Len(data) : ComesFrom(data, CopySize, e, whole, i)
    BY <1>0, <1>1, PieceByPiece
<1> HIDE DEF whole
<1>3. ASSUME NEW i \in 1..Len(data)
      PROVE  whole[i].key = key /\ whole[i].place = i /\ whole[i].plain = data[i]
    <2>1. PICK m \in 1..Len(e) : \E j \in 1..Len(e[m]) :
                    /\ whole[i] = e[m][j]
                    /\ i = (m - 1) * CopySize + j
                    /\ Chunks(data, CopySize)[m][j] = data[i]
        BY <1>2 DEF ComesFrom
    <2>2. whole[i] = Cell(key, i, 0, data[i])
        BY <1>1, <2>1 DEF InStream
    <2>3. QED
        BY <2>2 DEF Cell
<1>4. DOMAIN whole = 1..Len(data)
    BY <1>2
<1>5. [i \in DOMAIN whole |-> IF whole[i].key = key /\ whole[i].place = i
                              THEN whole[i].plain ELSE Noise] = data
    BY <1>3, <1>4
<1>6. QED
    BY <1>5 DEF StreamDecrypter, e, whole

LEMMA SingleCell ==
    ASSUME NEW x PROVE Len(<<x>>) = 1 /\ <<x>>[1] = x /\ 1..Len(<<x>>) = {1}
OBVIOUS

LEMMA CellFields ==
    ASSUME NEW k, NEW place, NEW total, NEW plain
    PROVE  /\ Cell(k, place, total, plain).key = k
           /\ Cell(k, place, total, plain).place = place
           /\ Cell(k, place, total, plain).total = total
           /\ Cell(k, place, total, plain).plain = plain
BY DEF Cell

LEMMA PiecesOfBlocks ==
    ASSUME NEW key, NEW data \in Seq(Byte)
    PROVE  LET blocks == Chunks(data, BlockSize - 1)
               e == AesCBCEncrypter(key, data)
           IN  /\ Len(e) = Len(blocks) /\ e \in Seq(Seq(CellOf(key)))
               /\ \A m \in 1..Len(blocks) :
                     blocks[m] \in Seq(Byte) /\ e[m] = <<Cell(key, m, 0, pad(blocks[m], BlockSize))>>
<1> DEFINE blocks == Chunks(data, BlockSize - 1)
           e == AesCBCEncrypter(key, data)
           N == Len(blocks)
<1>1. BlockSize \in 2..255 /\ BlockSize - 1 \in Nat \ {0}
    BY CipherAssumption
<1>2. blocks \in Seq(Seq(Byte)) /\ N \in Nat
    BY <1>1, ChunksEnd
<1>3. DOMAIN blocks = 1..N
    BY <1>2
<1>4. e = [m \in DOMAIN blocks |-> <<Cell(key, m, 0, pad(blocks[m], BlockSize))>>]
    BY DEF AesCBCEncrypter
<1> HIDE DEF blocks, e, N
<1>5. ASSUME NEW m \in 1..N
      PROVE  /\ blocks[m] \in Seq(Byte) /\ e[m] = <<Cell(key, m, 0, pad(blocks[m], BlockSize))>>
             /\ e[m] \in Seq(CellOf(key))
    <2>1. blocks[m] \in Seq(Byte)
        BY <1>2 DEF N
    <2>2. pad(blocks[m], BlockSize) \in Seq(Byte)
        BY <1>1, <2>1, Padded
    <2>3. Cell(key, m, 0, pad(blocks[m], BlockSize)) \in CellOf(key)
        <3>1. m \in Nat /\ pad(blocks[m], BlockSize) \in Plain \cup Seq(Byte)
            BY <1>2, <2>2
        <3>2. QED
            BY <3>1 DEF Cell, CellOf
    <2>4. e[m] = <<Cell(key, m, 0, pad(blocks[m], BlockSize))>>
        BY <1>3, <1>4
    <2>5. QED
        BY <2>1, <2>3, <2>4
<1>6. e = [m \in 1..N |-> e[m]]
    BY <1>3, <1>4
<1>7. e \in Seq(Seq(CellOf(key))) /\ Len(e) = N
    <2> DEFINE T == Seq(CellOf(key))
    <2>1. \A m \in 1..N : e[m] \in T
        BY <1>5
    <2> HIDE DEF T
    <2>2. e \in Seq(T) /\ Len(e) = N
        BY <1>2, <1>6, <2>1, SequenceOf
    <2>3. QED
        BY <2>2 DEF T
<1>8. QED
    BY <1>5, <1>7 DEF blocks, e, N

LEMMA CBCRoundTrip ==
    ASSUME NEW key, NEW data \in Seq(Byte)
    PROVE  AesCBCDecrypter(key, FlattenSeq(AesCBCEncrypter(key, data))) = Answer(data)
<1> DEFINE blocks == Chunks(data, BlockSize - 1)
           e == AesCBCEncrypter(key, data)
           whole == FlattenSeq(e)
           N == Len(blocks)
           u == [k \in 0..N |-> k]
<1>1. BlockSize \in 2..255 /\ BlockSize - 1 \in Nat \ {0}
    BY CipherAssumption
<1>2. blocks \in Seq(Seq(Byte)) /\ N \in Nat /\ FlattenSeq(blocks) = data
    BY <1>1, ChunksEnd, ChunksFlatten
<1>3. /\ Len(e) = N /\ e \in Seq(Seq(CellOf(key)))
      /\ \A m \in 1..N :
            blocks[m] \in Seq(Byte) /\ e[m] = <<Cell(key, m, 0, pad(blocks[m], BlockSize))>>
    BY PiecesOfBlocks, Zenon
<1> HIDE DEF blocks, e, N
<1>4. Ends(e, u)
    <2>1. u \in [0..N -> Nat] /\ u[0] = 0
        BY <1>2
    <2>2. ASSUME NEW k \in 1..N PROVE u[k] = u[k - 1] + Len(e[k])
        <3>1. k \in 0..N /\ k - 1 \in 0..N
            BY <1>2
        <3>2. Len(e[k]) = 1
            BY <1>3, SingleCell
        <3>3. QED
            BY <3>1, <3>2
    <2> HIDE DEF u
    <2>3. QED
        BY <1>3, <2>1, <2>2 DEF Ends
<1>5. u[N] = N /\ \A m \in 1..N : u[m - 1] = m - 1
    BY <1>2
<1> HIDE DEF u
<1>6. /\ whole \in Seq(CellOf(key)) /\ Len(whole) = N
      /\ \A i \in 1..N : PlacedIn(e, u, whole, i)
    <2>1. /\ FlattenSeq(e) \in Seq(CellOf(key)) /\ Len(FlattenSeq(e)) = u[Len(e)]
          /\ \A i \in 1..u[Len(e)] : PlacedIn(e, u, FlattenSeq(e), i)
        BY <1>3, <1>4, FlattenPlaces
    <2>2. QED
        BY <1>3, <1>5, <2>1
<1> HIDE DEF whole
<1>7. ASSUME NEW i \in 1..N
      PROVE  whole[i] = Cell(key, i, 0, pad(blocks[i], BlockSize))
    <2>1. PICK m \in 1..N : \E j \in 1..Len(e[m]) : whole[i] = e[m][j] /\ i = u[m - 1] + j
        BY <1>3, <1>6 DEF PlacedIn
    <2>2. e[m] = <<Cell(key, m, 0, pad(blocks[m], BlockSize))>>
        BY <1>3
    <2>3. whole[i] = Cell(key, m, 0, pad(blocks[m], BlockSize)) /\ i = (m - 1) + 1
        BY <1>5, <2>1, <2>2, SingleCell
    <2>4. i = m
        BY <1>2, <2>3
    <2>5. QED
        BY <2>3, <2>4
<1>8. DOMAIN whole = 1..N
    BY <1>6
<1> DEFINE block(i) == IF whole[i].key = key /\ whole[i].place = i
                       THEN unpad(whole[i].plain, BlockSize)
                       ELSE Failure
<1>9. ASSUME NEW i \in 1..N PROVE block(i) = Answer(blocks[i])
    <2>1. /\ whole[i].key = key /\ whole[i].place = i
          /\ whole[i].plain = pad(blocks[i], BlockSize)
        BY <1>7, CellFields
    <2>2. unpad(pad(blocks[i], BlockSize), BlockSize) = Answer(blocks[i])
        BY <1>1, <1>3, PadRoundTrip
    <2>3. QED
        BY <2>1, <2>2
<1>10. AesCBCDecrypter(key, whole) =
           IF \E i \in DOMAIN whole : ~block(i).ok
           THEN Failure ELSE Answer(FlattenSeq([i \in DOMAIN whole |-> block(i).data]))
    BY DEF AesCBCDecrypter
<1> HIDE DEF block
<1>11. \A i \in DOMAIN whole : block(i).ok /\ block(i).data = blocks[i]
    BY <1>8, <1>9 DEF Answer
<1>12. [i \in DOMAIN whole |-> block(i).data] = blocks
    <2>1. blocks = [i \in 1..N |-> blocks[i]]
        BY <1>2 DEF N
    <2>2. QED
        BY <1>8, <1>11, <2>1
<1>13. AesCBCDecrypter(key, whole) = Answer(data)
    BY <1>2, <1>10, <1>11, <1>12
<1>14. QED
    BY <1>13 DEF whole, e

\* What aes_gcm makes of a source: every byte at its place, and the tag.
LEMMA GCMCells ==
    ASSUME NEW key, NEW data \in Seq(Byte)
    PROVE  LET e == AesGCMEncrypter(key, data)
           IN  /\ Len(e) = 1 /\ e \in Seq(Seq(CellOf(key))) /\ FlattenSeq(e) = e[1]
               /\ Len(e[1]) = Len(data) + 1
               /\ \A i \in 1..Len(data) + 1 :
                     e[1][i] = Cell(key, i, Len(data), Append(data, Noise)[i])
<1> DEFINE text == Append(data, Noise)
           p == Cells(key, 1, Len(data), text)
           e == AesGCMEncrypter(key, data)
           L == Len(data)
<1>1. L \in Nat /\ text \in Seq(Plain) /\ Len(text) = L + 1
    <2>1. data \in Seq(Plain) /\ Noise \in Plain
        BY BytesWiden DEF Noise, Plain
    <2>2. QED
        BY <2>1
<1>2. e = <<p>>
    BY DEF AesGCMEncrypter
<1> HIDE DEF text, p, e, L
<1>3. Encrypted(key, p, key, 1, L, text)
    BY <1>1, CellsAre DEF p, L
<1>4. /\ p \in Seq(CellOf(key)) /\ Len(p) = L + 1
      /\ \A i \in 1..L + 1 : p[i] = Cell(key, i, L, text[i])
    <2>1. \A i \in 1..L + 1 : 1 + i - 1 = i
        BY <1>1
    <2>2. QED
        BY <1>1, <1>3, <2>1 DEF Encrypted
<1>5. Len(e) = 1 /\ e[1] = p /\ e \in Seq(Seq(CellOf(key)))
    BY <1>2, <1>4
<1>6. FlattenSeq(e) = p
    <2> DEFINE g == [k \in 0..1 |-> IF k = 0 THEN <<>> ELSE p]
    <2>1. g \in [0..1 -> Seq(CellOf(key))] /\ g[0] = <<>> /\ g[1] = p
        BY <1>4
    <2>2. ASSUME NEW k \in 0..0 PROVE g[k + 1] = g[k] \o e[k + 1]
        <3>1. k = 0 /\ g[0] \o e[1] = p
            BY <1>4, <1>5, <2>1
        <3>2. QED
            BY <2>1, <3>1
    <2> HIDE DEF g
    <2>3. Account(CellOf(key), e, g)
        BY <1>5, <2>1, <2>2 DEF Account, Upto
    <2>4. FlattenSeq(e) = g[Len(e)]
        BY <1>5, <2>3, FlattenAccount
    <2>5. QED
        BY <1>5, <2>1, <2>4
<1>7. QED
    BY <1>4, <1>5, <1>6 DEF e, L, text

LEMMA GCMRoundTrip ==
    ASSUME NEW key, NEW data \in Seq(Byte)
    PROVE  AesGCMDecrypter(key, FlattenSeq(AesGCMEncrypter(key, data))) = Answer(data)
<1> DEFINE L == Len(data)
           whole == FlattenSeq(AesGCMEncrypter(key, data))
           p == AesGCMEncrypter(key, data)[1]
<1>1. /\ whole = p /\ Len(p) = L + 1 /\ p \in Seq(CellOf(key))
      /\ \A i \in 1..L + 1 : p[i] = Cell(key, i, L, Append(data, Noise)[i])
    <2> DEFINE e == AesGCMEncrypter(key, data)
    <2>1. Len(e) = 1 /\ e \in Seq(Seq(CellOf(key))) /\ FlattenSeq(e) = e[1]
        BY GCMCells, Zenon
    <2>2. Len(e[1]) = Len(data) + 1
        BY GCMCells, Zenon
    <2>3. \A i \in 1..Len(data) + 1 : e[1][i] = Cell(key, i, Len(data), Append(data, Noise)[i])
        BY GCMCells, Zenon
    <2> HIDE DEF e
    <2>4. e[1] \in Seq(CellOf(key))
        BY <2>1
    <2>5. QED
        BY <2>1, <2>2, <2>3, <2>4 DEF e
<1>2. L \in Nat /\ \A i \in 1..L : Append(data, Noise)[i] = data[i]
    OBVIOUS
<1> HIDE DEF whole, p, L
<1>3. DOMAIN whole = 1..L + 1 /\ Len(whole) = L + 1 /\ whole # <<>>
    BY <1>1, <1>2
<1>4. ASSUME NEW i \in 1..L + 1
      PROVE  /\ whole[i].key = key /\ whole[i].place = i /\ whole[i].total + 1 = Len(whole)
             /\ whole[i].plain = Append(data, Noise)[i]
    <2>1. PICK byte : byte = Append(data, Noise)[i]
        OBVIOUS
    <2>2. whole[i] = Cell(key, i, L, byte)
        BY <1>1, <2>1
    <2>3. PICK cell : cell = Cell(key, i, L, byte)
        OBVIOUS
    <2>4. cell.key = key /\ cell.place = i /\ cell.total = L /\ cell.plain = byte
        BY <2>3 DEF Cell
    <2>5. whole[i] = cell
        BY <2>2, <2>3
    <2>6. QED
        BY <1>3, <2>1, <2>4, <2>5
<1>5. AesGCMDecrypter(key, whole) = Answer([i \in 1..Len(whole) - 1 |-> whole[i].plain])
    BY <1>3, <1>4 DEF AesGCMDecrypter
<1>6. 1..Len(whole) - 1 = 1..L
    BY <1>2, <1>3
<1>7. [i \in 1..L |-> whole[i].plain] = data
    <2>1. data = [i \in 1..L |-> data[i]]
        BY DEF L
    <2>2. ASSUME NEW i \in 1..L PROVE whole[i].plain = data[i]
        <3>1. i \in 1..L + 1
            BY <1>2
        <3>2. QED
            BY <1>2, <1>4, <3>1
    <2>3. QED
        BY <2>1, <2>2
<1>8. QED
    BY <1>5, <1>6, <1>7 DEF whole

\* What a cipher writes is pieces of cells of its key.
LEMMA EncryptPieces ==
    ASSUME NEW cipher \in Algorithms, NEW key, NEW data \in Seq(Byte)
    PROVE  Encrypt(cipher, key, data) \in Seq(Seq(CellOf(key)))
<1>1. NoopEncrypter(data) \in Seq(Seq(CellOf(key)))
    BY NoopPieces DEF PerPiece
<1>2. StreamEncrypter(key, data) \in Seq(Seq(CellOf(key)))
    BY StreamPieces DEF PerPiece
<1>3. AesCBCEncrypter(key, data) \in Seq(Seq(CellOf(key)))
    BY PiecesOfBlocks, Zenon
<1>4. AesGCMEncrypter(key, data) \in Seq(Seq(CellOf(key)))
    BY GCMCells, Zenon
<1>5. QED
    BY <1>1, <1>2, <1>3, <1>4 DEF Algorithms, Encrypt

\* Every cipher gives back what it encrypted, whatever the length of the source
\* and the sizes of blocks and of copies: the loops of the encrypters in
\* vault_cipher.go cut a source so that those of the decrypters put it together.
THEOREM CipherRoundTrip ==
    ASSUME NEW cipher \in Algorithms, NEW key, NEW data \in Seq(Byte)
    PROVE  Decrypt(cipher, key, FlattenSeq(Encrypt(cipher, key, data))) = Answer(data)
<1>1. CASE cipher = "no_op"
    BY <1>1, NoopRoundTrip DEF Decrypt, Encrypt
<1>2. CASE cipher \in {"aes_ofb", "aes_ctr"}
    BY <1>2, StreamRoundTrip DEF Decrypt, Encrypt
<1>3. CASE cipher = "aes_cbc"
    BY <1>3, CBCRoundTrip DEF Decrypt, Encrypt
<1>4. CASE cipher = "aes_gcm"
    BY <1>4, GCMRoundTrip DEF Decrypt, Encrypt
<1>5. QED
    BY <1>1, <1>2, <1>3, <1>4 DEF Algorithms

-----------------------------------------------------------------------------
(* The objects.                                                            *)

Labels == {"element", "meta", "bin", "copy", "close", "undoElement", "undoMeta", "undoBin",
           "closeFailed", "closeMeta", "closeMetaFailed",
           "removeBin", "removeElement", "removeMeta", "done"}

OfRemove == {"removeBin", "removeElement", "removeMeta"}

\* Where a call has no binary open.
NotOpen == {"element", "meta", "bin", "done"} \cup OfRemove

\* The shape of the state the arguments need.
ShapeOK ==
    /\ pc \in [Calls -> Labels]
    /\ op \in [Calls -> {"none", "put", "remove"}]
    /\ name \in [Calls -> Names]
    /\ handle \in [Calls -> Calls \cup {Absent}]
    /\ bin \in [Names -> Calls \cup {Absent}]
    /\ DOMAIN element = Names /\ DOMAIN meta = Names /\ DOMAIN content = Calls

\* A binary belongs to a Put on its name, whoever has it open.
Owned ==
    /\ \A n \in Names : bin[n] # Absent => op[bin[n]] = "put" /\ name[bin[n]] = n
    /\ \A c \in Calls :
        /\ handle[c] # Absent => op[handle[c]] = "put" /\ name[handle[c]] = name[c]
        /\ pc[c] \notin OfRemove \cup {"done"} => op[c] = "put"
        /\ pc[c] \in OfRemove => op[c] = "remove"
        /\ pc[c] \in NotOpen => handle[c] = Absent

ObjectsInv == ShapeOK /\ Owned

-----------------------------------------------------------------------------
(* The invariant.                                                          *)

LEMMA InitObjects == ASSUME VaultInit PROVE ObjectsInv
<1>1. (CHOOSE n \in Names : TRUE) \in Names
    BY VaultAssumption
<1>2. ShapeOK
    BY <1>1 DEF VaultInit, ShapeOK, Labels
<1>3. Owned
    BY DEF VaultInit, Owned, OfRemove
<1>4. QED
    BY <1>2, <1>3 DEF ObjectsInv

\* A call that goes on, or returns, without opening or creating a binary.
LEMMA GoesOn ==
    ASSUME ObjectsInv, NEW c \in Calls, UNCHANGED <<op, name>>,
           NEW label \in Labels, pc' = [pc EXCEPT ![c] = label],
           pc[c] # "done",
           label \in OfRemove => pc[c] \in OfRemove,
           label \notin OfRemove \cup {"done"} => pc[c] \notin OfRemove,
           \/ UNCHANGED handle /\ label \notin NotOpen
           \/ UNCHANGED handle /\ handle[c] = Absent
           \/ handle' = [handle EXCEPT ![c] = Absent],
           \/ UNCHANGED bin
           \/ bin' = [bin EXCEPT ![name[c]] = Absent]
           \/ bin' = [bin EXCEPT ![name[c]] = c] /\ op[c] = "put",
           DOMAIN element' = Names, DOMAIN meta' = Names, DOMAIN content' = Calls
    PROVE  ObjectsInv'
<1>1. ShapeOK'
    BY DEF ObjectsInv, ShapeOK
<1>2. Owned'
    <2>1. ASSUME NEW n \in Names, bin'[n] # Absent
          PROVE  op'[bin'[n]] = "put" /\ name'[bin'[n]] = n
        BY <2>1 DEF ObjectsInv, ShapeOK, Owned
    <2>2. ASSUME NEW d \in Calls
          PROVE  /\ handle'[d] # Absent => op'[handle'[d]] = "put" /\ name'[handle'[d]] = name'[d]
                 /\ pc'[d] \notin OfRemove \cup {"done"} => op'[d] = "put"
                 /\ pc'[d] \in OfRemove => op'[d] = "remove"
                 /\ pc'[d] \in NotOpen => handle'[d] = Absent
        BY <2>2 DEF ObjectsInv, ShapeOK, Owned
    <2>3. QED
        BY <2>1, <2>2 DEF Owned
<1>3. QED
    BY <1>1, <1>2 DEF ObjectsInv

LEMMA StartObjects ==
    ASSUME ObjectsInv, NEW c \in Calls, NEW n \in Names, NEW o \in {"put", "remove"},
           Start(c, o, n), NEW label \in Labels, pc' = [pc EXCEPT ![c] = label],
           label \in {"element", "done"} => o = "put",
           label \notin {"element", "done"} => o = "remove" /\ label \in OfRemove,
           UNCHANGED <<objects, local>>
    PROVE  ObjectsInv'
<1>1. pc[c] = "done" /\ op[c] = "none" /\ handle[c] = Absent
    BY DEF Start, ObjectsInv, ShapeOK, Owned, OfRemove, NotOpen
<1>2. /\ op' = [op EXCEPT ![c] = o] /\ name' = [name EXCEPT ![c] = n]
      /\ UNCHANGED <<element, meta, bin, content, handle>>
    BY DEF Start, objects, local
<1>3. ShapeOK'
    BY <1>2 DEF ObjectsInv, ShapeOK
<1>4. ASSUME NEW m \in Names, bin'[m] # Absent
      PROVE  op'[bin'[m]] = "put" /\ name'[bin'[m]] = m
    BY <1>1, <1>2, <1>4 DEF ObjectsInv, ShapeOK, Owned
<1>5. ASSUME NEW d \in Calls
      PROVE  /\ handle'[d] # Absent => op'[handle'[d]] = "put" /\ name'[handle'[d]] = name'[d]
             /\ pc'[d] \notin OfRemove \cup {"done"} => op'[d] = "put"
             /\ pc'[d] \in OfRemove => op'[d] = "remove"
             /\ pc'[d] \in NotOpen => handle'[d] = Absent
    BY <1>1, <1>2, <1>5 DEF ObjectsInv, ShapeOK, Owned, OfRemove
<1>6. QED
    BY <1>3, <1>4, <1>5 DEF ObjectsInv, Owned

LEMMA CallsObjects ==
    ASSUME ObjectsInv, NEW c \in Calls, NEW n \in Names,
           (\E u \in Uploads : CallPut(c, n, u)) \/ CallRemove(c, n)
    PROVE  ObjectsInv'
<1>1. ASSUME NEW u \in Uploads, CallPut(c, n, u) PROVE ObjectsInv'
    <2>1. PICK label \in {"done", "element"} : pc' = [pc EXCEPT ![c] = label]
        BY <1>1 DEF CallPut, Return, Goto
    <2>2. Start(c, "put", n) /\ UNCHANGED <<objects, local>> /\ label \in Labels
        BY <1>1, <2>1 DEF CallPut, Labels
    <2>3. QED
        BY <2>1, <2>2, StartObjects
<1>2. CASE CallRemove(c, n)
    <2>1. /\ Start(c, "remove", n) /\ UNCHANGED <<objects, local>>
          /\ pc' = [pc EXCEPT ![c] = "removeBin"]
          /\ "removeBin" \in Labels /\ "removeBin" \in OfRemove
        BY <1>2 DEF CallRemove, Goto, Labels, OfRemove
    <2>2. QED
        BY <2>1, StartObjects
<1>3. QED
    BY <1>1, <1>2

LEMMA CreateVaultElementObjects ==
    ASSUME ObjectsInv, NEW c \in Calls, CreateVaultElement(c) PROVE ObjectsInv'
<1>1. PICK label \in {"meta", "done"} : pc' = [pc EXCEPT ![c] = label]
    BY DEF CreateVaultElement, Goto, Return
<1>2. pc[c] = "element" /\ UNCHANGED <<op, name, meta, bin, content>>
    BY DEF CreateVaultElement, frame
<1>3. DOMAIN element' = Names
    BY DEF CreateVaultElement, ObjectsInv, ShapeOK
<1>4. UNCHANGED handle /\ handle[c] = Absent
    BY <1>2 DEF CreateVaultElement, local, ObjectsInv, Owned, NotOpen
<1>5. label \in Labels /\ label \notin OfRemove /\ pc[c] \notin OfRemove \cup {"done"}
    BY <1>1, <1>2 DEF Labels, OfRemove
<1>6. DOMAIN meta' = Names /\ DOMAIN content' = Calls
    BY <1>2 DEF ObjectsInv, ShapeOK
<1>7. QED
    BY <1>1, <1>2, <1>3, <1>4, <1>5, <1>6, GoesOn

LEMMA WriteMetaObjects ==
    ASSUME ObjectsInv, NEW c \in Calls, WriteMeta(c) PROVE ObjectsInv'
<1>1. PICK label \in {"bin", "undoElement", "done"} : pc' = [pc EXCEPT ![c] = label]
    BY DEF WriteMeta, Goto, Return
<1>2. pc[c] = "meta" /\ UNCHANGED <<op, name, element, bin, content, handle>>
    BY DEF WriteMeta, frame
<1>3. DOMAIN meta' = Names
    BY DEF WriteMeta, ObjectsInv, ShapeOK
<1>4. handle[c] = Absent
    BY <1>2 DEF ObjectsInv, Owned, NotOpen
<1>5. label \in Labels /\ label \notin OfRemove /\ pc[c] \notin OfRemove \cup {"done"}
    BY <1>1, <1>2 DEF Labels, OfRemove
<1>6. DOMAIN element' = Names /\ DOMAIN content' = Calls
    BY <1>2 DEF ObjectsInv, ShapeOK
<1>7. QED
    BY <1>1, <1>2, <1>3, <1>4, <1>5, <1>6, GoesOn

\* A Put opens its own file, or the one that is there.
LEMMA OpenBinObjects ==
    ASSUME ObjectsInv, NEW c \in Calls, OpenBin(c) PROVE ObjectsInv'
<1>1. pc[c] = "bin" /\ UNCHANGED <<op, name, element, meta, content>>
    BY DEF OpenBin, frame
<1>2. handle[c] = Absent /\ op[c] = "put" /\ c # Absent
    BY <1>1, VaultAssumption DEF ObjectsInv, Owned, NotOpen, OfRemove
<1>3. CASE /\ pc' = [pc EXCEPT ![c] = "copy"]
           /\ \/ bin[name[c]] = Absent /\ bin' = [bin EXCEPT ![name[c]] = c]
              \/ UNCHANGED bin
           /\ \/ handle' = [handle EXCEPT ![c] = c]
              \/ handle' = [handle EXCEPT ![c] = bin'[name[c]]]
    <2>1. bin' \in [Names -> Calls \cup {Absent}]
        BY <1>3 DEF ObjectsInv, ShapeOK
    <2>2. bin'[name[c]] \in Calls \cup {Absent}
        BY <2>1 DEF ObjectsInv, ShapeOK
    <2>3. handle' \in [Calls -> Calls \cup {Absent}]
        BY <1>3, <2>2 DEF ObjectsInv, ShapeOK
    <2>4. pc' \in [Calls -> Labels]
        BY <1>3 DEF ObjectsInv, ShapeOK, Labels
    <2>5. ShapeOK'
        BY <1>1, <2>1, <2>3, <2>4 DEF ObjectsInv, ShapeOK
    <2>6. ASSUME NEW n \in Names, bin'[n] # Absent
          PROVE  op'[bin'[n]] = "put" /\ name'[bin'[n]] = n
        BY <1>1, <1>2, <1>3, <2>6 DEF ObjectsInv, ShapeOK, Owned
    <2>7. handle'[c] # Absent => op[handle'[c]] = "put" /\ name[handle'[c]] = name[c]
        <3>1. CASE handle' = [handle EXCEPT ![c] = c]
            BY <3>1, <1>2 DEF ObjectsInv, ShapeOK
        <3>2. CASE handle' = [handle EXCEPT ![c] = bin'[name[c]]]
            <4>1. handle'[c] = bin'[name[c]] /\ name[c] \in Names
                BY <3>2 DEF ObjectsInv, ShapeOK
            <4>2. QED
                BY <4>1, <2>6, <1>1
        <3>3. QED
            BY <1>3, <3>1, <3>2
    <2>8. ASSUME NEW d \in Calls
          PROVE  /\ handle'[d] # Absent => op'[handle'[d]] = "put" /\ name'[handle'[d]] = name'[d]
                 /\ pc'[d] \notin OfRemove \cup {"done"} => op'[d] = "put"
                 /\ pc'[d] \in OfRemove => op'[d] = "remove"
                 /\ pc'[d] \in NotOpen => handle'[d] = Absent
        <3>1. CASE d = c
            BY <3>1, <1>1, <1>2, <1>3, <2>7 DEF ObjectsInv, ShapeOK, OfRemove, NotOpen
        <3>2. CASE d # c
            <4>1. handle'[d] = handle[d] /\ pc'[d] = pc[d]
                BY <3>2, <1>3 DEF ObjectsInv, ShapeOK
            <4>2. QED
                BY <4>1, <1>1 DEF ObjectsInv, Owned
        <3>3. QED
            BY <3>1, <3>2
    <2>9. QED
        BY <2>5, <2>6, <2>8 DEF ObjectsInv, Owned
<1>4. CASE pc' = [pc EXCEPT ![c] = "undoElement"] /\ UNCHANGED <<bin, handle>>
    <2>1. "undoElement" \in Labels /\ "undoElement" \notin OfRemove
          /\ pc[c] \notin OfRemove \cup {"done"}
        BY <1>1 DEF Labels, OfRemove
    <2>2. DOMAIN element' = Names /\ DOMAIN meta' = Names /\ DOMAIN content' = Calls
        BY <1>1 DEF ObjectsInv, ShapeOK
    <2>3. QED
        BY <1>1, <1>2, <1>4, <2>1, <2>2, GoesOn
<1>5. QED
    BY <1>3, <1>4 DEF OpenBin, Goto

LEMMA CopyObjects ==
    ASSUME ObjectsInv, NEW c \in Calls, CopyPiece(c) \/ Copied(c) \/ CopyFails(c)
    PROVE  ObjectsInv'
<1>1. PICK label \in {"copy", "close", "undoElement"} : pc' = [pc EXCEPT ![c] = label]
    <2>1. CASE CopyPiece(c)
        BY <2>1 DEF CopyPiece, ObjectsInv, ShapeOK
    <2>2. CASE Copied(c) \/ CopyFails(c)
        BY <2>2 DEF Copied, CopyFails, Goto
    <2>3. QED
        BY <2>1, <2>2
<1>2. pc[c] = "copy" /\ UNCHANGED <<op, name, element, meta, bin, handle>>
    BY DEF CopyPiece, Copied, CopyFails, frame, objects, local
<1>3. DOMAIN content' = Calls
    BY DEF CopyPiece, Copied, CopyFails, objects, ObjectsInv, ShapeOK
<1>4. /\ label \in Labels /\ label \notin OfRemove /\ label \notin NotOpen
      /\ pc[c] \notin OfRemove \cup {"done"}
    BY <1>1, <1>2 DEF Labels, OfRemove, NotOpen
<1>5. DOMAIN element' = Names /\ DOMAIN meta' = Names
    BY <1>2 DEF ObjectsInv, ShapeOK
<1>6. QED
    BY <1>1, <1>2, <1>3, <1>4, <1>5, GoesOn

LEMMA UndoObjects ==
    ASSUME ObjectsInv, NEW c \in Calls, UndoElement(c) \/ UndoMeta(c) \/ UndoBin(c)
    PROVE  ObjectsInv'
<1>1. PICK label \in {"undoMeta", "undoBin", "closeFailed"} : pc' = [pc EXCEPT ![c] = label]
    BY DEF Removed, Missed, UndoElement, UndoMeta, UndoBin, Goto
<1>2. pc[c] \in {"undoElement", "undoMeta", "undoBin"} /\ UNCHANGED <<op, name, content, handle>>
    BY DEF Removed, Missed, UndoElement, UndoMeta, UndoBin, frame, local
<1>3. \/ UNCHANGED bin
      \/ bin' = [bin EXCEPT ![name[c]] = Absent]
    BY DEF Removed, Missed, UndoElement, UndoMeta, UndoBin
<1>4. DOMAIN element' = Names /\ DOMAIN meta' = Names /\ DOMAIN content' = Calls
    BY <1>2 DEF Removed, Missed, UndoElement, UndoMeta, UndoBin, ObjectsInv, ShapeOK
<1>5. /\ label \in Labels /\ label \notin OfRemove /\ label \notin NotOpen
      /\ pc[c] \notin OfRemove \cup {"done"}
    BY <1>1, <1>2 DEF Labels, OfRemove, NotOpen
<1>6. QED
    BY <1>1, <1>2, <1>3, <1>4, <1>5, GoesOn

LEMMA CloseBinObjects ==
    ASSUME ObjectsInv, NEW c \in Calls, CloseBin(c) PROVE ObjectsInv'
<1>1. pc[c] \in {"close", "closeFailed"} /\ UNCHANGED <<op, name, element, meta, content>>
    BY DEF CloseBin, frame
<1>2. PICK label \in {"done", "closeMeta", "closeMetaFailed"} : pc' = [pc EXCEPT ![c] = label]
    BY DEF CloseBin, Goto, Return
<1>3. /\ label \in Labels /\ label \notin OfRemove /\ pc[c] \notin OfRemove \cup {"done"}
    BY <1>1, <1>2 DEF Labels, OfRemove
<1>4. op[c] = "put"
    BY <1>3 DEF ObjectsInv, Owned
<1>5. \/ UNCHANGED bin
      \/ bin' = [bin EXCEPT ![name[c]] = c] /\ op[c] = "put"
    BY <1>4 DEF CloseBin
<1>6. \/ UNCHANGED handle /\ label \notin NotOpen
      \/ handle' = [handle EXCEPT ![c] = Absent]
    <2>1. pc'[c] = label
        BY <1>2 DEF ObjectsInv, ShapeOK
    <2>2. CASE driver = "fs"
        BY <2>2 DEF CloseBin, Forget
    <2>3. CASE driver # "fs"
        BY <2>1, <2>3 DEF CloseBin, Goto, local, NotOpen, OfRemove, ObjectsInv, ShapeOK
    <2>4. QED
        BY <2>2, <2>3
<1>7. DOMAIN element' = Names /\ DOMAIN meta' = Names /\ DOMAIN content' = Calls
    BY <1>1 DEF ObjectsInv, ShapeOK
<1>8. QED
    BY <1>1, <1>2, <1>3, <1>5, <1>6, <1>7, GoesOn

LEMMA CloseMetaObjects ==
    ASSUME ObjectsInv, NEW c \in Calls, CloseMeta(c) PROVE ObjectsInv'
<1>1. /\ pc[c] \in {"closeMeta", "closeMetaFailed"}
      /\ UNCHANGED <<op, name, element, bin, content>>
      /\ pc' = [pc EXCEPT ![c] = "done"] /\ handle' = [handle EXCEPT ![c] = Absent]
    BY DEF CloseMeta, frame, Return, Goto, Forget
<1>2. "done" \in Labels /\ "done" \notin OfRemove /\ pc[c] # "done"
    BY <1>1 DEF Labels, OfRemove
<1>3. DOMAIN element' = Names /\ DOMAIN meta' = Names /\ DOMAIN content' = Calls
    BY <1>1 DEF CloseMeta, ObjectsInv, ShapeOK
<1>4. QED
    BY <1>1, <1>2, <1>3, GoesOn

LEMMA RemoveObjectsObjects ==
    ASSUME ObjectsInv, NEW c \in Calls, RemoveObjects(c) PROVE ObjectsInv'
<1>1. PICK label \in {"removeElement", "removeMeta", "done"} : pc' = [pc EXCEPT ![c] = label]
    BY DEF RemoveObjects, Removed, Goto, Return
<1>2. pc[c] \in OfRemove /\ UNCHANGED <<op, name, content, handle>>
    BY DEF RemoveObjects, Removed, OfRemove, frame, local
<1>3. pc[c] # "done" /\ label \in Labels /\ (label \in OfRemove \/ label = "done")
    BY <1>1, <1>2 DEF Labels, OfRemove
<1>4. handle[c] = Absent
    BY <1>2 DEF ObjectsInv, Owned, NotOpen
<1>5. \/ UNCHANGED bin
      \/ bin' = [bin EXCEPT ![name[c]] = Absent]
    BY DEF RemoveObjects, Removed
<1>6. DOMAIN element' = Names /\ DOMAIN meta' = Names /\ DOMAIN content' = Calls
    BY <1>2 DEF RemoveObjects, Removed, ObjectsInv, ShapeOK
<1>7. QED
    BY <1>1, <1>2, <1>3, <1>4, <1>5, <1>6, GoesOn

LEMMA CrashObjects ==
    ASSUME ObjectsInv, Crash PROVE ObjectsInv'
<1>1. /\ pc' = [c \in Calls |-> "done"] /\ handle' = [c \in Calls |-> Absent]
      /\ UNCHANGED <<op, name, element, meta, bin, content>>
    BY DEF Crash, frame, objects
<1>2. ShapeOK'
    BY <1>1 DEF ObjectsInv, ShapeOK, Labels
<1>3. Owned'
    BY <1>1 DEF ObjectsInv, Owned, OfRemove
<1>4. QED
    BY <1>2, <1>3 DEF ObjectsInv

LEMMA StutterObjects ==
    ASSUME ObjectsInv, UNCHANGED vars PROVE ObjectsInv'
BY DEF ObjectsInv, ShapeOK, Owned, vars, objects, frame, local

LEMMA NextObjects ==
    ASSUME ObjectsInv, [VaultNext]_vars PROVE ObjectsInv'
<1>1. ASSUME NEW c \in Calls, NEW n \in Names,
             (\E u \in Uploads : CallPut(c, n, u)) \/ CallRemove(c, n)
      PROVE  ObjectsInv'
    BY <1>1, CallsObjects
<1>2. ASSUME NEW c \in Calls,
             \/ CreateVaultElement(c) \/ WriteMeta(c) \/ OpenBin(c) \/ CopyPiece(c)
             \/ Copied(c) \/ CopyFails(c) \/ UndoElement(c) \/ UndoMeta(c) \/ UndoBin(c)
             \/ CloseBin(c) \/ CloseMeta(c) \/ RemoveObjects(c)
      PROVE  ObjectsInv'
    BY <1>2, CreateVaultElementObjects, WriteMetaObjects, OpenBinObjects, CopyObjects,
       UndoObjects, CloseBinObjects, CloseMetaObjects, RemoveObjectsObjects
<1>3. QED
    BY <1>1, <1>2, CrashObjects, StutterObjects DEF VaultNext

\* A binary is the work of a Put on its name, and so is what a call has open.
THEOREM ObjectsInvariant == VaultSpec => []ObjectsInv
<1>1. VaultInit => ObjectsInv
    BY InitObjects
<1>2. ObjectsInv /\ [VaultNext]_vars => ObjectsInv'
    BY NextObjects
<1>3. QED
    BY <1>1, <1>2, PTL DEF VaultSpec

-----------------------------------------------------------------------------
(* What fails leaves nothing, on the file system.                          *)

Written(n, c) == Contains(meta[n], c)

FsShape ==
    /\ alone \in [Calls -> BOOLEAN] /\ dropped \in [Calls -> BOOLEAN]
    /\ metaLength \in [Calls -> Nat]
    /\ meta \in [Names -> Seq(Calls) \cup {Absent}]
    /\ DOMAIN result = Calls
    /\ \A c \in Calls : pc[c] \notin {"closeMeta", "closeMetaFailed"}

\* Keys and metadata are of a call that got that far.
Unwritten ==
    \A c \in Calls, n \in Names :
        /\ op[c] = "none" \/ pc[c] \in {"element", "meta"} => ~Written(n, c)
        /\ op[c] = "none" \/ pc[c] = "element" => element[n] # c

AloneAtWork ==
    \A c, d \in Calls :
        alone[c] /\ pc[c] # "done" /\ pc[d] # "done" /\ name[d] = name[c] => d = c

\* What a Put that nobody meddles with finds, and what it has removed again.
Progress(c) ==
    op[c] = "put" /\ alone[c] /\ ~dropped[c] =>
        /\ pc[c] \in {"element", "meta", "bin"} => bin[name[c]] = Absent
        /\ pc[c] = "copy" => handle[c] # Absent
        /\ pc[c] \in {"undoElement", "undoMeta"} /\ handle[c] = Absent => bin[name[c]] = Absent
        /\ pc[c] \in {"undoMeta", "undoBin", "closeFailed"} => element[name[c]] = Absent
        /\ pc[c] \in {"undoBin", "closeFailed"} => meta[name[c]] = Absent
        /\ pc[c] = "closeFailed" => bin[name[c]] = Absent

FailInv ==
    driver = "fs" => FsShape /\ Unwritten /\ AloneAtWork /\ \A c \in Calls : Progress(c)

LEMMA AbsentNamesNobody ==
    ASSUME NEW c \in Calls PROVE ~Contains(Absent, c)
<1>1. Len(Absent) = 1 /\ Absent[1] = "absent"
    BY DEF Absent
<1>2. QED
    BY <1>1, VaultAssumption DEF Contains

LEMMA InitFail == ASSUME VaultInit PROVE FailInv
<1>1. FsShape
    BY DEF VaultInit, FsShape
<1>2. Unwritten
    <2>1. ASSUME NEW c \in Calls, NEW n \in Names PROVE ~Written(n, c) /\ element[n] # c
        BY AbsentNamesNobody, VaultAssumption DEF VaultInit, Written
    <2>2. QED
        BY <2>1 DEF Unwritten
<1>3. AloneAtWork /\ \A c \in Calls : Progress(c)
    BY DEF VaultInit, AloneAtWork, Progress
<1>4. QED
    BY <1>1, <1>2, <1>3 DEF FailInv

\* A step of a call that was under way, on the objects of its name.
LEMMA OwnStep ==
    ASSUME ObjectsInv, FailInv, driver = "fs", NEW c \in Calls,
           pc[c] # "done", UNCHANGED <<driver, op, name, alone, metaLength>>,
           NEW label \in Labels \ {"element", "closeMeta", "closeMetaFailed"},
           pc' = [pc EXCEPT ![c] = label],
           DOMAIN result' = Calls,
           UNCHANGED handle \/ \E e : handle' = [handle EXCEPT ![c] = e],
           UNCHANGED dropped \/ \E b \in BOOLEAN : dropped' = [dropped EXCEPT ![c] = b],
           \/ UNCHANGED element
           \/ \E e \in {c, Absent, Partial, element[name[c]]} :
                 element' = [element EXCEPT ![name[c]] = e],
           label = "meta" => pc[c] = "element" /\ UNCHANGED meta,
           UNCHANGED bin \/ \E e : bin' = [bin EXCEPT ![name[c]] = e],
           NEW m \in Seq(Calls) \cup {Absent}, meta' = [meta EXCEPT ![name[c]] = m],
           \A d \in Calls \ {c} : Contains(m, d) => Written(name[c], d),
           Progress(c)'
    PROVE  FailInv'
<1> USE DEF ObjectsInv
<1>1. FsShape'
    <2>1. dropped' \in [Calls -> BOOLEAN]
        BY DEF FailInv, FsShape
    <2>2. meta' \in [Names -> Seq(Calls) \cup {Absent}]
        BY DEF FailInv, FsShape, ShapeOK
    <2>3. \A d \in Calls : pc'[d] \notin {"closeMeta", "closeMetaFailed"}
        BY DEF FailInv, FsShape, ShapeOK
    <2>4. QED
        BY <2>1, <2>2, <2>3 DEF FailInv, FsShape
<1>2. Unwritten'
    <2>1. op[c] # "none" /\ pc'[c] = label
        BY DEF ShapeOK, Owned
    <2>2. ASSUME NEW d \in Calls, NEW n \in Names,
                 op'[d] = "none" \/ pc'[d] \in {"element", "meta"}, Contains(meta'[n], d)
          PROVE  FALSE
        <3>1. CASE d = c
            <4>1. pc[c] = "element" /\ UNCHANGED meta
                BY <2>1, <2>2, <3>1
            <4>2. QED
                BY <2>2, <3>1, <4>1 DEF FailInv, Unwritten, Written
        <3>2. CASE d # c
            <4>1. op[d] = "none" \/ pc[d] \in {"element", "meta"}
                BY <2>2, <3>2 DEF ShapeOK
            <4>2. ~Written(n, d)
                BY <4>1 DEF FailInv, Unwritten
            <4>3. meta'[n] = IF n = name[c] THEN m ELSE meta[n]
                BY DEF ShapeOK
            <4>4. QED
                BY <2>2, <3>2, <4>2, <4>3 DEF Written
        <3>3. QED
            BY <3>1, <3>2
    <2>3. ASSUME NEW d \in Calls, NEW n \in Names,
                 op'[d] = "none" \/ pc'[d] = "element"
          PROVE  element'[n] # d
        <3>1. d # c
            BY <2>1, <2>3
        <3>2. element[n] # d
            BY <2>3, <3>1 DEF FailInv, Unwritten, ShapeOK
        <3>3. element'[n] \in {c, Absent, Partial, element[n]}
            BY DEF ShapeOK
        <3>4. QED
            BY <3>1, <3>2, <3>3, VaultAssumption
    <2>4. QED
        BY <2>2, <2>3 DEF Unwritten, Written
<1>3. AloneAtWork'
    BY DEF FailInv, AloneAtWork, ShapeOK
<1>4. ASSUME NEW d \in Calls PROVE Progress(d)'
    <2>1. CASE d = c
        BY <2>1
    <2>2. CASE d # c /\ op[d] = "put" /\ alone[d] /\ pc[d] # "done"
        <3>1. name[d] # name[c]
            BY <2>2 DEF FailInv, AloneAtWork
        <3>2. /\ bin'[name[d]] = bin[name[d]] /\ element'[name[d]] = element[name[d]]
              /\ meta'[name[d]] = meta[name[d]]
            BY <3>1 DEF ShapeOK
        <3>3. handle'[d] = handle[d] /\ pc'[d] = pc[d] /\ dropped'[d] = dropped[d]
            BY <2>2 DEF ShapeOK, FailInv, FsShape
        <3>4. QED
            BY <3>2, <3>3 DEF FailInv, Progress
    <2>3. CASE d # c /\ pc[d] = "done"
        BY <2>3 DEF Progress, ShapeOK
    <2>4. CASE ~(op[d] = "put" /\ alone[d])
        BY <2>4 DEF Progress
    <2>5. QED
        BY <2>1, <2>2, <2>3, <2>4
<1>5. QED
    BY <1>1, <1>2, <1>3, <1>4 DEF FailInv

\* What is written over an older file has nobody's metadata but theirs.
LEMMA MetaOverMentions ==
    ASSUME NEW c \in Calls, NEW k \in Nat,
           meta[name[c]] \in Seq(Calls) \cup {Absent}
    PROVE  /\ MetaOver(c, k) \in Seq(Calls)
           /\ \A d \in Calls \ {c} : Contains(MetaOver(c, k), d) => Written(name[c], d)
<1> DEFINE old == IF meta[name[c]] = Absent THEN <<>> ELSE meta[name[c]]
           top == Max({k, Len(old)})
<1>1. old \in Seq(Calls) /\ Len(old) \in Nat
    BY DEF Absent
<1>2. top \in Nat /\ \A i \in 1..top : i > k => i \in 1..Len(old)
    <2>1. top = IF k >= Len(old) THEN k ELSE Len(old)
        <3> HIDE DEF old
        <3>1. \A x \in Nat : Max({k, x}) = IF k >= x THEN k ELSE x
            BY DEF Max
        <3>2. QED
            BY <1>1, <3>1
    <2> HIDE DEF old, top
    <2>2. QED
        BY <1>1, <2>1
<1>3. MetaOver(c, k) = [i \in 1..top |-> IF i <= k THEN c ELSE old[i]]
    BY DEF MetaOver
<1> HIDE DEF old, top
<1>4. \A i \in 1..top : (IF i <= k THEN c ELSE old[i]) \in Calls
    BY <1>1, <1>2
<1>5. MetaOver(c, k) \in Seq(Calls) /\ Len(MetaOver(c, k)) = top
    BY <1>2, <1>3, <1>4
<1>6. ASSUME NEW d \in Calls \ {c}, Contains(MetaOver(c, k), d) PROVE Written(name[c], d)
    <2>1. PICK i \in 1..top : MetaOver(c, k)[i] = d
        BY <1>5, <1>6 DEF Contains
    <2>2. i \in 1..Len(old) /\ old[i] = d
        BY <1>2, <1>3, <2>1, <1>6
    <2>3. old = meta[name[c]]
        BY <2>2 DEF old
    <2>4. QED
        BY <2>2, <2>3 DEF Written, Contains
<1>7. QED
    BY <1>5, <1>6

\* A step that leaves the metadata alone, or removes them.
LEMMA OwnStepNoMeta ==
    ASSUME ObjectsInv, FailInv, driver = "fs", NEW c \in Calls,
           pc[c] # "done", UNCHANGED <<driver, op, name, alone, metaLength>>,
           NEW label \in Labels \ {"element", "closeMeta", "closeMetaFailed"},
           pc' = [pc EXCEPT ![c] = label],
           DOMAIN result' = Calls,
           UNCHANGED handle \/ \E e : handle' = [handle EXCEPT ![c] = e],
           UNCHANGED dropped \/ \E b \in BOOLEAN : dropped' = [dropped EXCEPT ![c] = b],
           \/ UNCHANGED element
           \/ \E e \in {c, Absent, Partial, element[name[c]]} :
                 element' = [element EXCEPT ![name[c]] = e],
           label = "meta" => pc[c] = "element" /\ UNCHANGED meta,
           UNCHANGED bin \/ \E e : bin' = [bin EXCEPT ![name[c]] = e],
           UNCHANGED meta \/ meta' = [meta EXCEPT ![name[c]] = Absent],
           Progress(c)'
    PROVE  FailInv'
<1>1. CASE UNCHANGED meta
    <2>1. meta[name[c]] \in Seq(Calls) \cup {Absent}
        BY DEF ObjectsInv, ShapeOK, FailInv, FsShape
    <2>2. meta' = [meta EXCEPT ![name[c]] = meta[name[c]]]
        BY <1>1 DEF FailInv, FsShape
    <2>3. \A d \in Calls \ {c} : Contains(meta[name[c]], d) => Written(name[c], d)
        BY DEF Written
    <2>4. QED
        BY <2>1, <2>2, <2>3, OwnStep
<1>2. CASE meta' = [meta EXCEPT ![name[c]] = Absent]
    <2>1. \A d \in Calls \ {c} : Contains(Absent, d) => Written(name[c], d)
        BY AbsentNamesNobody
    <2>2. Absent \in Seq(Calls) \cup {Absent}
        OBVIOUS
    <2>3. QED
        BY <1>2, <2>1, <2>2, OwnStep
<1>3. QED
    BY <1>1, <1>2

LEMMA CreateVaultElementFail ==
    ASSUME ObjectsInv, FailInv, driver = "fs", NEW c \in Calls, CreateVaultElement(c)
    PROVE  FailInv'
<1>1. pc[c] = "element" /\ UNCHANGED <<driver, op, name, alone, metaLength, handle, bin, meta>>
    BY DEF CreateVaultElement, frame, local, config
<1>2. PICK label \in {"meta", "done"} : pc' = [pc EXCEPT ![c] = label]
    BY DEF CreateVaultElement, Goto, Return
<1>3. \/ UNCHANGED element
      \/ \E e \in {c, Absent, Partial, element[name[c]]} :
            element' = [element EXCEPT ![name[c]] = e]
    BY DEF CreateVaultElement
<1>4. /\ DOMAIN result' = Calls
      /\ UNCHANGED dropped \/ \E b \in BOOLEAN : dropped' = [dropped EXCEPT ![c] = b]
      /\ dropped[c] => dropped'[c]
    BY DEF CreateVaultElement, Return, FailInv, FsShape
<1>5. Progress(c)'
    <2>1. pc'[c] = label
        BY <1>2 DEF ObjectsInv, ShapeOK
    <2>2. QED
        BY <1>1, <1>2, <1>4, <2>1 DEF FailInv, Progress
<1>6. label \in Labels \ {"element", "closeMeta", "closeMetaFailed"} /\ pc[c] # "done"
    BY <1>1, <1>2 DEF Labels
<1>7. QED
    BY <1>1, <1>2, <1>3, <1>4, <1>5, <1>6, OwnStepNoMeta

LEMMA WriteMetaFail ==
    ASSUME ObjectsInv, FailInv, driver = "fs", NEW c \in Calls, WriteMeta(c) PROVE FailInv'
<1>1. /\ pc[c] = "meta"
      /\ UNCHANGED <<driver, op, name, alone, metaLength, handle, element, bin, dropped>>
    BY DEF WriteMeta, frame, config
<1>2. PICK label \in {"bin", "undoElement", "done"} : pc' = [pc EXCEPT ![c] = label]
    BY DEF WriteMeta, Goto, Return
<1>3. Progress(c)'
    <2>1. pc'[c] = label
        BY <1>2 DEF ObjectsInv, ShapeOK
    <2>2. QED
        BY <1>1, <1>2, <2>1 DEF FailInv, Progress
<1>4. label \in Labels \ {"element", "closeMeta", "closeMetaFailed"} /\ pc[c] # "done"
    BY <1>1, <1>2 DEF Labels
<1>5. DOMAIN result' = Calls /\ label # "meta"
    BY <1>1, <1>2 DEF WriteMeta, Return, FailInv, FsShape
<1>6. ASSUME NEW k \in Nat, meta' = [meta EXCEPT ![name[c]] = MetaOver(c, k)] PROVE FailInv'
    <2>1. meta[name[c]] \in Seq(Calls) \cup {Absent}
        BY DEF ObjectsInv, ShapeOK, FailInv, FsShape
    <2>2. /\ MetaOver(c, k) \in Seq(Calls) \cup {Absent}
          /\ \A d \in Calls \ {c} : Contains(MetaOver(c, k), d) => Written(name[c], d)
        BY <2>1, MetaOverMentions
    <2>3. QED
        BY <1>1, <1>2, <1>3, <1>4, <1>5, <1>6, <2>2, OwnStep
<1>7. CASE UNCHANGED meta
    BY <1>1, <1>2, <1>3, <1>4, <1>5, <1>7, OwnStepNoMeta
<1>8. UNCHANGED meta \/ \E k \in Nat : meta' = [meta EXCEPT ![name[c]] = MetaOver(c, k)]
    <2>1. metaLength[c] \in Nat
        BY DEF FailInv, FsShape
    <2>2. QED
        BY <2>1 DEF WriteMeta
<1>9. QED
    BY <1>6, <1>7, <1>8

LEMMA OpenBinFail ==
    ASSUME ObjectsInv, FailInv, driver = "fs", NEW c \in Calls, OpenBin(c) PROVE FailInv'
<1>1. /\ pc[c] = "bin" /\ handle[c] = Absent
      /\ UNCHANGED <<driver, op, name, alone, metaLength, element, meta, result, dropped>>
    BY DEF OpenBin, frame, config, ObjectsInv, Owned, NotOpen
<1>2. CASE pc' = [pc EXCEPT ![c] = "undoElement"] /\ UNCHANGED <<bin, handle>>
    <2>1. Progress(c)'
        <3>1. pc'[c] = "undoElement"
            BY <1>2 DEF ObjectsInv, ShapeOK
        <3>2. QED
            BY <1>1, <1>2, <3>1 DEF FailInv, Progress
    <2>2. "undoElement" \in Labels \ {"element", "closeMeta", "closeMetaFailed"} /\ pc[c] # "done"
        BY <1>1 DEF Labels
    <2>3. DOMAIN result' = Calls
        BY <1>1 DEF FailInv, FsShape
    <2>4. QED
        BY <1>1, <1>2, <2>1, <2>2, <2>3, OwnStepNoMeta
<1>3. CASE /\ IF bin[name[c]] = Absent THEN bin' = [bin EXCEPT ![name[c]] = c] ELSE UNCHANGED bin
           /\ handle' = [handle EXCEPT ![c] = bin'[name[c]]]
           /\ pc' = [pc EXCEPT ![c] = "copy"]
    <2>1. bin'[name[c]] # Absent
        BY <1>3, VaultAssumption DEF ObjectsInv, ShapeOK
    <2>2. pc'[c] = "copy" /\ handle'[c] # Absent
        BY <1>3, <2>1 DEF ObjectsInv, ShapeOK
    <2>3. Progress(c)'
        BY <2>2 DEF Progress
    <2>4. "copy" \in Labels \ {"element", "closeMeta", "closeMetaFailed"} /\ pc[c] # "done"
        BY <1>1 DEF Labels
    <2>5. DOMAIN result' = Calls
        BY <1>1 DEF FailInv, FsShape
    <2>6. UNCHANGED bin \/ \E e : bin' = [bin EXCEPT ![name[c]] = e]
        BY <1>3
    <2>7. QED
        BY <1>1, <1>3, <2>3, <2>4, <2>5, <2>6, OwnStepNoMeta
<1>4. QED
    BY <1>2, <1>3 DEF OpenBin, Goto

LEMMA CopyFail ==
    ASSUME ObjectsInv, FailInv, driver = "fs", NEW c \in Calls,
           CopyPiece(c) \/ Copied(c) \/ CopyFails(c)
    PROVE  FailInv'
<1>1. /\ pc[c] = "copy"
      /\ UNCHANGED <<driver, op, name, alone, metaLength, handle, element, bin, meta, result>>
    BY DEF CopyPiece, Copied, CopyFails, frame, config, objects, local, ghosts
<1>2. PICK label \in {"copy", "close", "undoElement"} : pc' = [pc EXCEPT ![c] = label]
    <2>1. CASE CopyPiece(c)
        BY <2>1 DEF CopyPiece, ObjectsInv, ShapeOK
    <2>2. CASE Copied(c) \/ CopyFails(c)
        BY <2>2 DEF Copied, CopyFails, Goto
    <2>3. QED
        BY <2>1, <2>2
<1>9. dropped[c] => dropped'[c]
    BY DEF CopyPiece, Copied, CopyFails, ghosts, FailInv, FsShape
<1>3. Progress(c)'
    <2>1. pc'[c] = label
        BY <1>2 DEF ObjectsInv, ShapeOK
    <2>2. QED
        BY <1>1, <1>2, <1>9, <2>1 DEF FailInv, Progress
<1>4. label \in Labels \ {"element", "closeMeta", "closeMetaFailed"} /\ pc[c] # "done"
    BY <1>1, <1>2 DEF Labels
<1>5. /\ DOMAIN result' = Calls
      /\ UNCHANGED dropped \/ \E b \in BOOLEAN : dropped' = [dropped EXCEPT ![c] = b]
    BY <1>1 DEF CopyPiece, Copied, CopyFails, ghosts, FailInv, FsShape
<1>6. QED
    BY <1>1, <1>2, <1>3, <1>4, <1>5, OwnStepNoMeta

\* What is not removed is not reported either.
LEMMA UndoFail ==
    ASSUME ObjectsInv, FailInv, driver = "fs", NEW c \in Calls,
           UndoElement(c) \/ UndoMeta(c) \/ UndoBin(c)
    PROVE  FailInv'
<1>1. /\ pc[c] \in {"undoElement", "undoMeta", "undoBin"}
      /\ UNCHANGED <<driver, op, name, alone, metaLength, handle, result>>
    BY DEF UndoElement, UndoMeta, UndoBin, frame, config, local
<1>2. PICK label \in {"undoMeta", "undoBin", "closeFailed"} : pc' = [pc EXCEPT ![c] = label]
    BY DEF UndoElement, UndoMeta, UndoBin, Goto
<1>3. /\ DOMAIN element = Names /\ DOMAIN meta = Names /\ DOMAIN bin = Names
      /\ name[c] \in Names
    BY DEF ObjectsInv, ShapeOK
<1>4. Progress(c)'
    <2>1. pc'[c] = label
        BY <1>2 DEF ObjectsInv, ShapeOK
    <2>2. CASE UndoElement(c)
        <3>1. pc[c] = "undoElement" /\ label = "undoMeta"
            BY <2>1, <2>2 DEF UndoElement, Goto, ObjectsInv, ShapeOK
        <3>2. UNCHANGED bin /\ dropped'[c] = (dropped[c] \/ element'[name[c]] # Absent)
            BY <2>2 DEF UndoElement, Missed, FailInv, FsShape
        <3>3. QED
            BY <1>1, <2>1, <3>1, <3>2 DEF FailInv, Progress
    <2>3. CASE UndoMeta(c)
        <3>1. /\ pc[c] = "undoMeta"
              /\ label = IF handle[c] = Absent THEN "closeFailed" ELSE "undoBin"
            BY <2>1, <2>3 DEF UndoMeta, Goto, ObjectsInv, ShapeOK
        <3>2. /\ UNCHANGED <<element, bin>>
              /\ dropped'[c] = (dropped[c] \/ meta'[name[c]] # Absent)
            BY <2>3 DEF UndoMeta, Missed, FailInv, FsShape
        <3>3. QED
            BY <1>1, <2>1, <3>1, <3>2 DEF FailInv, Progress
    <2>4. CASE UndoBin(c)
        <3>1. pc[c] = "undoBin" /\ label = "closeFailed"
            BY <2>1, <2>4 DEF UndoBin, Goto, ObjectsInv, ShapeOK
        <3>2. /\ UNCHANGED <<element, meta>>
              /\ dropped'[c] = (dropped[c] \/ bin'[name[c]] # Absent)
            BY <2>4 DEF UndoBin, Missed, FailInv, FsShape
        <3>3. QED
            BY <1>1, <2>1, <3>1, <3>2 DEF FailInv, Progress
    <2>5. QED
        BY <2>2, <2>3, <2>4
<1>5. label \in Labels \ {"element", "meta", "closeMeta", "closeMetaFailed"} /\ pc[c] # "done"
    BY <1>1, <1>2 DEF Labels
<1>6. /\ DOMAIN result' = Calls
      /\ \E b \in BOOLEAN : dropped' = [dropped EXCEPT ![c] = b]
    <2>1. UNCHANGED dropped \/ \E x : dropped' = [dropped EXCEPT ![c] = dropped[c] \/ x # Absent]
        BY DEF UndoElement, UndoMeta, UndoBin, Missed
    <2>2. QED
        BY <1>1, <2>1 DEF FailInv, FsShape
<1>7. /\ \/ UNCHANGED element
         \/ \E e \in {c, Absent, Partial, element[name[c]]} :
               element' = [element EXCEPT ![name[c]] = e]
      /\ UNCHANGED bin \/ \E e : bin' = [bin EXCEPT ![name[c]] = e]
      /\ UNCHANGED meta \/ meta' = [meta EXCEPT ![name[c]] = Absent]
    BY DEF UndoElement, UndoMeta, UndoBin, Removed
<1>8. QED
    BY <1>1, <1>2, <1>4, <1>5, <1>6, <1>7, OwnStepNoMeta

LEMMA ReturnFail ==
    ASSUME ObjectsInv, FailInv, driver = "fs", NEW c \in Calls,
           CloseBin(c) \/ CloseMeta(c) \/ RemoveObjects(c)
    PROVE  FailInv'
<1>1. ~CloseMeta(c)
    BY DEF CloseMeta, FailInv, FsShape
<1>2. /\ pc[c] \in {"close", "closeFailed"} \cup OfRemove
      /\ UNCHANGED <<driver, op, name, alone, metaLength>>
    BY <1>1 DEF CloseBin, RemoveObjects, OfRemove, frame, config, ghosts
<1>3. PICK label \in {"done", "removeElement", "removeMeta"} : pc' = [pc EXCEPT ![c] = label]
    BY <1>1 DEF CloseBin, RemoveObjects, Goto, Return
<1>4. Progress(c)'
    <2>1. pc'[c] = label
        BY <1>3 DEF ObjectsInv, ShapeOK
    <2>2. QED
        BY <1>3, <2>1 DEF Progress
<1>5. label \in Labels \ {"element", "closeMeta", "closeMetaFailed"} /\ pc[c] # "done"
    BY <1>2, <1>3 DEF Labels, OfRemove
<1>6. DOMAIN result' = Calls /\ UNCHANGED dropped
    BY <1>1 DEF CloseBin, RemoveObjects, Return, FailInv, FsShape, ghosts
<1>7. UNCHANGED handle \/ \E e : handle' = [handle EXCEPT ![c] = e]
    BY <1>1 DEF CloseBin, RemoveObjects, Forget, local
<1>8. /\ \/ UNCHANGED element
         \/ \E e \in {c, Absent, Partial, element[name[c]]} :
               element' = [element EXCEPT ![name[c]] = e]
      /\ UNCHANGED bin \/ \E e : bin' = [bin EXCEPT ![name[c]] = e]
      /\ UNCHANGED meta \/ meta' = [meta EXCEPT ![name[c]] = Absent]
    BY <1>1 DEF CloseBin, RemoveObjects, Removed
<1>9. QED
    BY <1>2, <1>3, <1>4, <1>5, <1>6, <1>7, <1>8, OwnStepNoMeta

\* A call that begins has written nothing, and is alone if nobody else and no
\* binary is there.
LEMMA StartFail ==
    ASSUME ObjectsInv, FailInv, driver = "fs", NEW c \in Calls, NEW n \in Names,
           NEW o \in {"put", "remove"}, Start(c, o, n),
           UNCHANGED <<driver, objects, handle>>,
           metaLength' \in [Calls -> Nat], DOMAIN result' = Calls,
           UNCHANGED dropped \/ dropped' = [dropped EXCEPT ![c] = TRUE],
           \/ pc' = [pc EXCEPT ![c] = "done"] /\ UNCHANGED alone
           \/ pc' = [pc EXCEPT ![c] = "element"] /\ Enter(c, n)
           \/ pc' = [pc EXCEPT ![c] = "removeBin"] /\ Enter(c, n)
    PROVE  FailInv'
<1> USE DEF ObjectsInv
<1>1. /\ op[c] = "none" /\ pc[c] = "done"
      /\ op' = [op EXCEPT ![c] = o] /\ name' = [name EXCEPT ![c] = n]
      /\ UNCHANGED <<element, meta, bin>>
    BY DEF Start, Owned, OfRemove, objects, ShapeOK
<1>2. FsShape'
    BY <1>1, ZenonT(40) DEF FailInv, FsShape, Enter, ShapeOK
<1>3. Unwritten'
    BY <1>1 DEF FailInv, Unwritten, Written, ShapeOK
<1>4. AloneAtWork'
    <2>1. CASE pc' = [pc EXCEPT ![c] = "done"] /\ UNCHANGED alone
        BY <1>1, <2>1 DEF FailInv, AloneAtWork, ShapeOK
    <2>2. CASE Enter(c, n)
        <3>1. SUFFICES ASSUME NEW d \in Calls, NEW e \in Calls, alone'[d],
                              pc'[d] # "done", pc'[e] # "done", name'[e] = name'[d], e # d
                       PROVE  FALSE
            BY DEF AloneAtWork
        <3>2. \A x \in Calls \ {c} : name'[x] = name[x] /\ pc'[x] = pc[x]
            BY <1>1 DEF ShapeOK
        <3>3. name'[c] = n
            BY <1>1 DEF ShapeOK
        <3>4. CASE d = c
            <4>1. e \in Active(n)
                BY <3>1, <3>2, <3>3, <3>4 DEF Active
            <4>2. QED
                BY <2>2, <3>1, <3>4, <4>1 DEF Enter
        <3>5. CASE d # c
            <4>1. alone[d] /\ name[d] # n
                BY <2>2, <3>1, <3>5 DEF Enter
            <4>2. e # c
                BY <3>1, <3>2, <3>3, <3>5, <4>1
            <4>3. QED
                BY <3>1, <3>2, <3>5, <4>1, <4>2 DEF FailInv, AloneAtWork
        <3>6. QED
            BY <3>4, <3>5
    <2>3. QED
        BY <2>1, <2>2
<1>5. ASSUME NEW d \in Calls PROVE Progress(d)'
    <2>1. CASE d = c
        <3>1. pc'[c] \in {"element", "removeBin", "done"} /\ name'[c] = n
            BY <1>1 DEF ShapeOK
        <3>2. pc'[c] = "element" /\ alone'[c] => bin[n] = Absent
            BY DEF Enter, ShapeOK
        <3>3. QED
            BY <1>1, <2>1, <3>1, <3>2 DEF Progress
    <2>2. CASE d # c
        <3>1. /\ op'[d] = op[d] /\ name'[d] = name[d] /\ pc'[d] = pc[d]
              /\ handle'[d] = handle[d] /\ dropped'[d] = dropped[d]
            BY <1>1, <2>2 DEF ShapeOK, FailInv, FsShape
        <3>2. alone'[d] => alone[d]
            BY <2>2 DEF Enter
        <3>3. QED
            BY <1>1, <3>1, <3>2 DEF FailInv, Progress
    <2>3. QED
        BY <2>1, <2>2
<1>6. QED
    BY <1>2, <1>3, <1>4, <1>5 DEF FailInv

LEMMA CallsFail ==
    ASSUME ObjectsInv, FailInv, driver = "fs", NEW c \in Calls, NEW n \in Names,
           (\E u \in Uploads : CallPut(c, n, u)) \/ CallRemove(c, n)
    PROVE  FailInv'
<1>1. metaLength \in [Calls -> Nat] /\ DOMAIN result = Calls
    BY DEF FailInv, FsShape
<1>2. ASSUME NEW u \in Uploads, CallPut(c, n, u) PROVE FailInv'
    <2>1. metaLength' \in [Calls -> Nat] /\ DOMAIN result' = Calls
        BY <1>1, <1>2, VaultAssumption DEF CallPut, Return
    <2>2. /\ "put" \in {"put", "remove"} /\ Start(c, "put", n)
          /\ UNCHANGED <<driver, objects, handle>>
        BY <1>2 DEF CallPut, config, local
    <2>3. /\ \/ pc' = [pc EXCEPT ![c] = "done"] /\ UNCHANGED alone
             \/ pc' = [pc EXCEPT ![c] = "element"] /\ Enter(c, n)
          /\ UNCHANGED dropped \/ dropped' = [dropped EXCEPT ![c] = TRUE]
        BY <1>2 DEF CallPut, Return, Goto, ghosts
    <2>4. QED
        BY <2>1, <2>2, <2>3, StartFail
<1>3. CASE CallRemove(c, n)
    <2>1. /\ "remove" \in {"put", "remove"} /\ Start(c, "remove", n)
          /\ UNCHANGED <<driver, objects, handle, metaLength, result, dropped>>
          /\ pc' = [pc EXCEPT ![c] = "removeBin"] /\ Enter(c, n)
        BY <1>3 DEF CallRemove, config, local, Goto
    <2>2. metaLength' \in [Calls -> Nat] /\ DOMAIN result' = Calls
        BY <1>1, <2>1
    <2>3. QED
        BY <2>1, <2>2, StartFail
<1>4. QED
    BY <1>2, <1>3

LEMMA CrashFail ==
    ASSUME ObjectsInv, FailInv, driver = "fs", Crash PROVE FailInv'
<1>1. /\ pc' = [c \in Calls |-> "done"]
      /\ UNCHANGED <<op, name, element, meta, bin, alone, dropped, metaLength>>
    BY DEF Crash, frame, objects
<1>2. FsShape'
    BY <1>1 DEF Crash, FailInv, FsShape
<1>3. Unwritten'
    BY <1>1 DEF FailInv, Unwritten, Written
<1>4. AloneAtWork' /\ \A c \in Calls : Progress(c)'
    BY <1>1 DEF AloneAtWork, Progress
<1>5. QED
    BY <1>2, <1>3, <1>4 DEF FailInv

LEMMA NextFail ==
    ASSUME ObjectsInv, FailInv, [VaultNext]_vars PROVE FailInv'
<1>1. UNCHANGED driver
    BY DEF VaultNext, vars, config, CallPut, CallRemove, CreateVaultElement, WriteMeta,
       OpenBin, CopyPiece, Copied, CopyFails, UndoElement, UndoMeta, UndoBin, CloseBin,
       CloseMeta, RemoveObjects, Crash
<1>2. CASE driver # "fs"
    BY <1>1, <1>2 DEF FailInv
<1>3. CASE driver = "fs"
    <2>1. ASSUME NEW c \in Calls, NEW n \in Names,
                 (\E u \in Uploads : CallPut(c, n, u)) \/ CallRemove(c, n)
          PROVE  FailInv'
        BY <1>3, <2>1, CallsFail
    <2>2. ASSUME NEW c \in Calls,
                 \/ CreateVaultElement(c) \/ WriteMeta(c) \/ OpenBin(c) \/ CopyPiece(c)
                 \/ Copied(c) \/ CopyFails(c) \/ UndoElement(c) \/ UndoMeta(c) \/ UndoBin(c)
                 \/ CloseBin(c) \/ CloseMeta(c) \/ RemoveObjects(c)
          PROVE  FailInv'
        BY <1>3, <2>2, CreateVaultElementFail, WriteMetaFail, OpenBinFail, CopyFail, UndoFail,
           ReturnFail
    <2>3. CASE UNCHANGED vars
        BY <2>3 DEF vars, config, objects, frame, local, ghosts, FailInv, FsShape, Unwritten,
           Written, AloneAtWork, Progress
    <2>4. QED
        BY <1>3, <2>1, <2>2, <2>3, CrashFail DEF VaultNext
<1>4. QED
    BY <1>2, <1>3

\* The step with which a Put returns its error.
LEMMA LeavesNothing ==
    ASSUME ObjectsInv, FailInv, [VaultNext]_vars, NEW c \in Calls,
           op[c] = "put", result[c] = "none", result'[c] = "error",
           alone[c], ~dropped'[c], driver = "fs"
    PROVE  /\ bin'[name[c]] = Absent
           /\ ~Contains(meta'[name[c]], c)
           /\ element'[name[c]] = c => pc[c] = "meta"
<1> USE DEF ObjectsInv
<1>1. name[c] \in Names
    BY DEF ShapeOK
<1>2. /\ DOMAIN element = Names /\ DOMAIN result = Calls
      /\ dropped \in [Calls -> BOOLEAN]
    BY DEF ShapeOK, FailInv, FsShape
<1>3. ASSUME NEW d \in Calls, CreateVaultElement(d) \/ WriteMeta(d) PROVE d = c
    BY <1>2, <1>3 DEF CreateVaultElement, WriteMeta, Return
<1>4. CASE CreateVaultElement(c)
    <2>1. pc[c] = "element" /\ UNCHANGED <<meta, bin>> /\ ~dropped[c]
        BY <1>2, <1>4 DEF CreateVaultElement
    <2>2. element'[name[c]] \in {element[name[c]], Absent, Partial}
        BY <1>1, <1>2, <1>4 DEF CreateVaultElement
    <2>3. bin[name[c]] = Absent /\ ~Written(name[c], c) /\ element[name[c]] # c
        BY <1>1, <2>1 DEF FailInv, Progress, Unwritten
    <2>4. QED
        BY <2>1, <2>2, <2>3, VaultAssumption DEF Written
<1>5. CASE WriteMeta(c)
    <2>1. pc[c] = "meta" /\ UNCHANGED <<meta, bin>> /\ ~dropped[c]
        BY <1>5 DEF WriteMeta
    <2>2. bin[name[c]] = Absent /\ ~Written(name[c], c)
        BY <1>1, <2>1 DEF FailInv, Progress, Unwritten
    <2>3. QED
        BY <2>1, <2>2 DEF Written
<1>6. ASSUME NEW d \in Calls, CloseBin(d) PROVE d = c /\ pc[c] = "closeFailed"
    BY <1>2, <1>6 DEF CloseBin, Return, Verdict
<1>7. CASE CloseBin(c)
    <2>1. pc[c] = "closeFailed" /\ UNCHANGED <<element, meta, bin, dropped>>
        BY <1>6, <1>7 DEF CloseBin
    <2>2. element[name[c]] = Absent /\ bin[name[c]] = Absent /\ meta[name[c]] = Absent
        BY <2>1 DEF FailInv, Progress
    <2>3. QED
        BY <2>1, <2>2, AbsentNamesNobody, VaultAssumption
<1>8. ASSUME NEW d \in Calls PROVE ~CloseMeta(d)
    BY DEF CloseMeta, FailInv, FsShape
<1>9. ASSUME NEW d \in Calls, RemoveObjects(d) PROVE FALSE
    BY <1>2, <1>9 DEF RemoveObjects, Return
<1>10. ASSUME NEW d \in Calls, NEW n \in Names,
              (\E u \in Uploads : CallPut(d, n, u)) \/ CallRemove(d, n)
       PROVE  FALSE
    BY <1>2, <1>10 DEF CallPut, CallRemove, Return
<1>11. ASSUME NEW d \in Calls,
              \/ OpenBin(d) \/ CopyPiece(d) \/ Copied(d) \/ CopyFails(d)
              \/ UndoElement(d) \/ UndoMeta(d) \/ UndoBin(d)
       PROVE  FALSE
    BY <1>11 DEF OpenBin, CopyPiece, Copied, CopyFails, UndoElement, UndoMeta, UndoBin
<1>12. ~Crash /\ ~UNCHANGED vars
    BY DEF Crash, vars
<1>13. QED
    BY <1>3, <1>4, <1>5, <1>6, <1>7, <1>8, <1>9, <1>10, <1>11, <1>12 DEF VaultNext

\* On the file system a Put that fails, however often it or others fail, leaves
\* no binary and nothing of its own, unless another call was on its name, an
\* error was dropped (vault.go:288-290), or its metadata could not be encoded,
\* when its keys stay (vault.go:171-173).
THEOREM FailedPutLeavesNothing == VaultSpec => FailedLeavesNothing
<1>1. VaultInit => FailInv
    BY InitFail
<1>2. ObjectsInv /\ FailInv /\ [VaultNext]_vars => FailInv'
    BY NextFail
<1>3. ObjectsInv /\ FailInv /\ [VaultNext]_vars =>
          [\A c \in Calls :
              op[c] = "put" /\ result[c] = "none" /\ result'[c] = "error"
                            /\ alone[c] /\ ~dropped'[c] /\ driver = "fs" =>
                  /\ bin'[name[c]] = Absent
                  /\ ~Contains(meta'[name[c]], c)
                  /\ element'[name[c]] = c => pc[c] = "meta"]_vars
    BY LeavesNothing
<1>4. QED
    BY <1>1, <1>2, <1>3, ObjectsInvariant, PTL DEF VaultSpec, FailedLeavesNothing

-----------------------------------------------------------------------------
(* The types.                                                              *)

Results == {"none", "ok", "error", "exists", "crashed"}

\* Where a call has written nothing of its binary, and where it has no
\* temporary file.
NothingWritten == {"element", "meta", "bin", "done"} \cup OfRemove
NothingSpooled == {"element", "meta", "done"} \cup OfRemove

TypesInv ==
    /\ driver \in Drivers /\ algo \in Algos
    /\ element \in [Names -> Calls \cup {Absent, Partial}]
    /\ meta \in [Names -> Seq(Calls) \cup {Absent}]
    /\ result \in [Calls -> Results]
    /\ spooled \in [Calls -> Seq(Calls) \cup {Absent}]
    /\ written \in [Calls -> Nat]
    /\ payload \in [Calls -> Seq(Byte)]
    /\ metaLength \in [Calls -> Nat]
    /\ dropped \in [Calls -> BOOLEAN] /\ alone \in [Calls -> BOOLEAN]
    /\ \A c \in Calls :
        /\ pc[c] \in NothingWritten => written[c] = 0
        /\ pc[c] \in NothingSpooled => spooled[c] = Absent
        /\ pc[c] # "done" => result[c] = "none"
        /\ op[c] = "none" => result[c] = "none" /\ ~dropped[c] /\ ~alone[c]

LEMMA InitTypes == ASSUME VaultInit PROVE TypesInv
<1>1. <<>> \in Seq(Byte)
    OBVIOUS
<1>2. QED
    BY <1>1 DEF VaultInit, TypesInv, Results

\* A call that goes on, or returns.
LEMMA TypesStep ==
    ASSUME ObjectsInv, TypesInv, NEW c \in Calls, pc[c] # "done",
           UNCHANGED <<driver, algo, op, payload, metaLength, alone>>,
           NEW label \in Labels, pc' = [pc EXCEPT ![c] = label],
           \/ UNCHANGED element
           \/ \E e \in Calls \cup {Absent, Partial} : element' = [element EXCEPT ![name[c]] = e],
           \/ UNCHANGED meta
           \/ \E m \in Seq(Calls) \cup {Absent} : meta' = [meta EXCEPT ![name[c]] = m],
           \/ UNCHANGED result /\ label # "done"
           \/ \E r \in Results : result' = [result EXCEPT ![c] = r] /\ label = "done",
           \/ UNCHANGED spooled
           \/ \E s \in Seq(Calls) \cup {Absent} : spooled' = [spooled EXCEPT ![c] = s],
           \/ UNCHANGED written
           \/ \E w \in Nat : written' = [written EXCEPT ![c] = w],
           \/ UNCHANGED dropped
           \/ \E b \in BOOLEAN : dropped' = [dropped EXCEPT ![c] = b],
           label \in NothingWritten => written'[c] = 0,
           label \in NothingSpooled => spooled'[c] = Absent
    PROVE  TypesInv'
<1>1. name[c] \in Names /\ pc \in [Calls -> Labels]
    BY DEF ObjectsInv, ShapeOK
<1>2. element' \in [Names -> Calls \cup {Absent, Partial}]
    BY <1>1 DEF TypesInv
<1>3. meta' \in [Names -> Seq(Calls) \cup {Absent}]
    BY <1>1 DEF TypesInv
<1>4. result' \in [Calls -> Results]
    BY DEF TypesInv
<1>5. spooled' \in [Calls -> Seq(Calls) \cup {Absent}]
    BY DEF TypesInv
<1>6. written' \in [Calls -> Nat]
    BY DEF TypesInv
<1>7. dropped' \in [Calls -> BOOLEAN]
    BY DEF TypesInv
<1>8. ASSUME NEW d \in Calls
      PROVE  /\ pc'[d] \in NothingWritten => written'[d] = 0
             /\ pc'[d] \in NothingSpooled => spooled'[d] = Absent
             /\ pc'[d] # "done" => result'[d] = "none"
             /\ op'[d] = "none" => result'[d] = "none" /\ ~dropped'[d] /\ ~alone'[d]
    <2>1. CASE d = c
        <3>1. pc'[d] = label /\ result[c] = "none"
            BY <1>1, <2>1 DEF TypesInv
        <3>2. op[c] # "none"
            BY DEF ObjectsInv, ShapeOK, Owned
        <3>3. QED
            BY <2>1, <3>1, <3>2
    <2>2. CASE d # c
        <3>1. pc'[d] = pc[d] /\ written'[d] = written[d]
            BY <1>1, <2>2 DEF TypesInv
        <3>2. spooled'[d] = spooled[d]
            BY <2>2 DEF TypesInv
        <3>3. result'[d] = result[d]
            BY <2>2 DEF TypesInv
        <3>4. dropped'[d] = dropped[d]
            BY <2>2 DEF TypesInv
        <3>5. QED
            BY <3>1, <3>2, <3>3, <3>4 DEF TypesInv
    <2>3. QED
        BY <2>1, <2>2
<1>9. QED
    BY <1>2, <1>3, <1>4, <1>5, <1>6, <1>7, <1>8 DEF TypesInv

LEMMA CallsTypes ==
    ASSUME ObjectsInv, TypesInv, NEW c \in Calls, NEW n \in Names,
           (\E u \in Uploads : CallPut(c, n, u)) \/ CallRemove(c, n)
    PROVE  TypesInv'
<1>1. /\ op[c] = "none" /\ pc[c] = "done"
      /\ UNCHANGED <<driver, algo, element, meta, spooled, written>>
      /\ UNCHANGED dropped \/ dropped' = [dropped EXCEPT ![c] = TRUE]
    BY DEF CallPut, CallRemove, Start, config, objects, local, ghosts, ObjectsInv, ShapeOK, Owned,
       OfRemove
<1>2. payload' \in [Calls -> Seq(Byte)] /\ metaLength' \in [Calls -> Nat]
    <2>1. CASE CallRemove(c, n)
        BY <2>1 DEF CallRemove, TypesInv
    <2>2. ASSUME NEW u \in Uploads, CallPut(c, n, u)
          PROVE  payload' \in [Calls -> Seq(Byte)] /\ metaLength' \in [Calls -> Nat]
        <3>1. u.payload \in Seq(Byte) /\ u.metaLength \in Nat
            BY VaultAssumption DEF Byte
        <3>2. QED
            BY <2>2, <3>1 DEF CallPut, TypesInv
    <2>3. QED
        BY <2>1, <2>2
<1>3. \/ pc' = [pc EXCEPT ![c] = "done"] /\ result' = [result EXCEPT ![c] = "exists"]
      \/ pc' = [pc EXCEPT ![c] = "element"] /\ UNCHANGED result
      \/ pc' = [pc EXCEPT ![c] = "removeBin"] /\ UNCHANGED result
    BY DEF CallPut, CallRemove, Goto, Return
<1>4. alone' \in [Calls -> BOOLEAN] /\ dropped' \in [Calls -> BOOLEAN]
    BY <1>1 DEF CallPut, CallRemove, Enter, ghosts, TypesInv
<1>5. result' \in [Calls -> Results]
    BY <1>3 DEF TypesInv, Results
<1>6. ASSUME NEW d \in Calls
      PROVE  /\ pc'[d] \in NothingWritten => written[d] = 0
             /\ pc'[d] \in NothingSpooled => spooled[d] = Absent
             /\ pc'[d] # "done" => result'[d] = "none"
             /\ op'[d] = "none" => result'[d] = "none" /\ ~dropped'[d] /\ ~alone'[d]
    <2>1. CASE d = c
        <3>1. written[c] = 0 /\ spooled[c] = Absent /\ result[c] = "none"
            BY <1>1 DEF TypesInv, NothingWritten, NothingSpooled
        <3>2. op'[c] # "none"
            BY DEF CallPut, CallRemove, Start, ObjectsInv, ShapeOK
        <3>3. pc'[c] # "done" => result'[c] = "none"
            BY <1>3, <3>1 DEF ObjectsInv, ShapeOK
        <3>4. QED
            BY <2>1, <3>1, <3>2, <3>3
    <2>2. CASE d # c
        <3>1. pc'[d] = pc[d] /\ result'[d] = result[d]
            BY <1>3, <2>2 DEF ObjectsInv, ShapeOK, TypesInv
        <3>2. op'[d] = op[d]
            BY <2>2 DEF CallPut, CallRemove, Start, ObjectsInv, ShapeOK
        <3>3. (alone'[d] => alone[d]) /\ dropped'[d] = dropped[d]
            BY <1>1, <2>2 DEF CallPut, CallRemove, Enter, ghosts, TypesInv
        <3>4. QED
            BY <3>1, <3>2, <3>3 DEF TypesInv
    <2>3. QED
        BY <2>1, <2>2
<1>7. QED
    BY <1>1, <1>2, <1>4, <1>5, <1>6 DEF TypesInv

LEMMA CreateVaultElementTypes ==
    ASSUME ObjectsInv, TypesInv, NEW c \in Calls, CreateVaultElement(c) PROVE TypesInv'
<1>1. /\ pc[c] = "element"
      /\ UNCHANGED <<driver, algo, op, payload, metaLength, alone, meta, spooled, written>>
    BY DEF CreateVaultElement, config, frame, local
<1>2. PICK label \in {"meta", "done"} :
          /\ pc' = [pc EXCEPT ![c] = label]
          /\ \/ UNCHANGED result /\ label # "done"
             \/ \E r \in Results : result' = [result EXCEPT ![c] = r] /\ label = "done"
    BY DEF CreateVaultElement, Goto, Return, Results
<1>3. \/ UNCHANGED element
      \/ \E e \in Calls \cup {Absent, Partial} : element' = [element EXCEPT ![name[c]] = e]
    <2>1. element[name[c]] \in Calls \cup {Absent, Partial}
        BY DEF ObjectsInv, ShapeOK, TypesInv
    <2>2. QED
        BY <2>1 DEF CreateVaultElement
<1>4. \/ UNCHANGED dropped
      \/ \E b \in BOOLEAN : dropped' = [dropped EXCEPT ![c] = b]
    BY DEF CreateVaultElement, TypesInv
<1>5. written'[c] = 0 /\ spooled'[c] = Absent
    BY <1>1 DEF TypesInv, NothingWritten, NothingSpooled
<1>6. pc[c] # "done" /\ label \in Labels
    BY <1>1 DEF Labels
<1>7. QED
    BY <1>1, <1>2, <1>3, <1>4, <1>5, <1>6, TypesStep

\* What WriteMeta puts in the file, or the temporary file.
LEMMA MetaTexts ==
    ASSUME TypesInv, NEW c \in Calls, name[c] \in Names, NEW k \in Nat
    PROVE  MetaOver(c, k) \in Seq(Calls) /\ MetaText(c, k) \in Seq(Calls)
<1>1. MetaOver(c, k) \in Seq(Calls)
    BY MetaOverMentions DEF TypesInv
<1>2. MetaText(c, k) \in Seq(Calls)
    BY DEF MetaText
<1>3. QED
    BY <1>1, <1>2

LEMMA WriteMetaTypes ==
    ASSUME ObjectsInv, TypesInv, NEW c \in Calls, WriteMeta(c) PROVE TypesInv'
<1>1. /\ pc[c] = "meta"
      /\ UNCHANGED <<driver, algo, op, payload, metaLength, alone, element, written, dropped>>
    BY DEF WriteMeta, config, frame
<1>2. PICK label \in {"bin", "undoElement", "done"} :
          /\ pc' = [pc EXCEPT ![c] = label]
          /\ \/ UNCHANGED result /\ label # "done"
             \/ \E r \in Results : result' = [result EXCEPT ![c] = r] /\ label = "done"
          /\ label = "done" => UNCHANGED spooled
    BY DEF WriteMeta, Goto, Return, Results
<1>3. \A k \in Nat : MetaOver(c, k) \in Seq(Calls) /\ MetaText(c, k) \in Seq(Calls)
    BY MetaTexts DEF ObjectsInv, ShapeOK
<1>4. metaLength[c] \in Nat /\ 0..(metaLength[c] - 1) \subseteq Nat
    BY DEF TypesInv
<1>5. \/ UNCHANGED meta
      \/ \E m \in Seq(Calls) \cup {Absent} : meta' = [meta EXCEPT ![name[c]] = m]
    BY <1>3, <1>4 DEF WriteMeta
<1>6. \/ UNCHANGED spooled
      \/ \E s \in Seq(Calls) \cup {Absent} : spooled' = [spooled EXCEPT ![c] = s]
    BY <1>3, <1>4 DEF WriteMeta
<1>7. written'[c] = 0
    BY <1>1 DEF TypesInv, NothingWritten
<1>8. label \in NothingSpooled => spooled'[c] = Absent
    BY <1>1, <1>2 DEF TypesInv, NothingSpooled, OfRemove
<1>9. pc[c] # "done" /\ label \in Labels
    BY <1>1, <1>2 DEF Labels
<1>10. QED
    BY <1>1, <1>2, <1>5, <1>6, <1>7, <1>8, <1>9, TypesStep

LEMMA BinTypes ==
    ASSUME ObjectsInv, TypesInv, NEW c \in Calls,
           OpenBin(c) \/ CopyPiece(c) \/ Copied(c) \/ CopyFails(c)
    PROVE  TypesInv'
<1>1. /\ pc[c] \in {"bin", "copy"}
      /\ UNCHANGED <<driver, algo, op, payload, metaLength, alone, element, meta, spooled, result>>
    BY DEF OpenBin, CopyPiece, Copied, CopyFails, config, frame, objects, local, ghosts
<1>2. PICK label \in {"copy", "close", "undoElement"} : pc' = [pc EXCEPT ![c] = label]
    <2>1. CASE CopyPiece(c)
        BY <2>1 DEF CopyPiece, ObjectsInv, ShapeOK
    <2>2. CASE OpenBin(c) \/ Copied(c) \/ CopyFails(c)
        BY <2>2 DEF OpenBin, Copied, CopyFails, Goto
    <2>3. QED
        BY <2>1, <2>2
<1>3. \/ UNCHANGED written
      \/ \E w \in Nat : written' = [written EXCEPT ![c] = w]
    <2>1. CASE CopyPiece(c)
        <3>1. written[c] + 1 \in Nat
            BY DEF TypesInv
        <3>2. QED
            BY <2>1, <3>1 DEF CopyPiece
    <2>2. CASE OpenBin(c) \/ Copied(c) \/ CopyFails(c)
        BY <2>2 DEF OpenBin, Copied, CopyFails, local
    <2>3. QED
        BY <2>1, <2>2
<1>4. UNCHANGED dropped \/ dropped' = [dropped EXCEPT ![c] = TRUE]
    BY DEF OpenBin, CopyPiece, Copied, CopyFails, ghosts
<1>5. pc[c] # "done" /\ label \in Labels /\ label \notin NothingSpooled \cup NothingWritten
      /\ label # "done"
    BY <1>1, <1>2 DEF Labels, NothingSpooled, NothingWritten, OfRemove
<1>6. QED
    BY <1>1, <1>2, <1>3, <1>4, <1>5, TypesStep

LEMMA UndoTypes ==
    ASSUME ObjectsInv, TypesInv, NEW c \in Calls, UndoElement(c) \/ UndoMeta(c) \/ UndoBin(c)
    PROVE  TypesInv'
<1>1. /\ pc[c] \in {"undoElement", "undoMeta", "undoBin"}
      /\ UNCHANGED <<driver, algo, op, payload, metaLength, alone, spooled, written, result>>
    BY DEF UndoElement, UndoMeta, UndoBin, config, frame, local
<1>2. PICK label \in {"undoMeta", "undoBin", "closeFailed"} : pc' = [pc EXCEPT ![c] = label]
    BY DEF UndoElement, UndoMeta, UndoBin, Goto
<1>3. \/ UNCHANGED element
      \/ \E e \in Calls \cup {Absent, Partial} : element' = [element EXCEPT ![name[c]] = e]
    BY DEF UndoElement, UndoMeta, UndoBin, Removed
<1>4. \/ UNCHANGED meta
      \/ \E m \in Seq(Calls) \cup {Absent} : meta' = [meta EXCEPT ![name[c]] = m]
    BY DEF UndoElement, UndoMeta, UndoBin, Removed
<1>5. \E b \in BOOLEAN : dropped' = [dropped EXCEPT ![c] = b]
    <2>1. \E x : dropped' = [dropped EXCEPT ![c] = dropped[c] \/ x # Absent]
        BY DEF UndoElement, UndoMeta, UndoBin, Missed
    <2>2. QED
        BY <2>1 DEF TypesInv
<1>6. pc[c] # "done" /\ label \in Labels /\ label \notin NothingSpooled \cup NothingWritten
      /\ label # "done"
    BY <1>1, <1>2 DEF Labels, NothingSpooled, NothingWritten, OfRemove
<1>7. QED
    BY <1>1, <1>2, <1>3, <1>4, <1>5, <1>6, TypesStep

LEMMA CloseBinTypes ==
    ASSUME ObjectsInv, TypesInv, NEW c \in Calls, CloseBin(c) PROVE TypesInv'
<1>1. /\ pc[c] \in {"close", "closeFailed"}
      /\ UNCHANGED <<driver, algo, op, payload, metaLength, alone, element, meta>>
    BY DEF CloseBin, config, frame
<1>2. UNCHANGED dropped \/ dropped' = [dropped EXCEPT ![c] = TRUE]
    BY DEF CloseBin
<1>3. CASE driver = "fs"
    <2>1. /\ pc' = [pc EXCEPT ![c] = "done"] /\ result' = [result EXCEPT ![c] = Verdict(c)]
          /\ spooled' = [spooled EXCEPT ![c] = Absent] /\ written' = [written EXCEPT ![c] = 0]
        BY <1>3 DEF CloseBin, Return, Goto, Forget
    <2>2. Verdict(c) \in Results
        BY DEF Verdict, Results
    <2>3. written'[c] = 0 /\ spooled'[c] = Absent /\ 0 \in Nat
        BY <2>1 DEF TypesInv
    <2>4. "done" \in Labels /\ pc[c] # "done"
        BY <1>1 DEF Labels
    <2>5. QED
        BY <1>1, <1>2, <2>1, <2>2, <2>3, <2>4, TypesStep
<1>4. CASE driver # "fs"
    <2>1. UNCHANGED <<spooled, written, result>>
        BY <1>4 DEF CloseBin, local
    <2>2. PICK label \in {"closeMeta", "closeMetaFailed"} : pc' = [pc EXCEPT ![c] = label]
        BY <1>4 DEF CloseBin, Goto
    <2>3. pc[c] # "done" /\ label \in Labels /\ label \notin NothingSpooled \cup NothingWritten
          /\ label # "done"
        BY <1>1, <2>2 DEF Labels, NothingSpooled, NothingWritten, OfRemove
    <2>4. QED
        BY <1>1, <1>2, <2>1, <2>2, <2>3, TypesStep
<1>5. QED
    BY <1>3, <1>4

LEMMA CloseMetaTypes ==
    ASSUME ObjectsInv, TypesInv, NEW c \in Calls, CloseMeta(c) PROVE TypesInv'
<1>1. /\ pc[c] \in {"closeMeta", "closeMetaFailed"}
      /\ UNCHANGED <<driver, algo, op, payload, metaLength, alone, element>>
    BY DEF CloseMeta, config, frame
<1>2. UNCHANGED dropped \/ dropped' = [dropped EXCEPT ![c] = TRUE]
    BY DEF CloseMeta
<1>3. /\ pc' = [pc EXCEPT ![c] = "done"] /\ result' = [result EXCEPT ![c] = Verdict(c)]
      /\ spooled' = [spooled EXCEPT ![c] = Absent] /\ written' = [written EXCEPT ![c] = 0]
    BY DEF CloseMeta, Return, Goto, Forget
<1>4. Verdict(c) \in Results
    BY DEF Verdict, Results
<1>5. written'[c] = 0 /\ spooled'[c] = Absent /\ 0 \in Nat
    BY <1>3 DEF TypesInv
<1>6. "done" \in Labels /\ pc[c] # "done"
    BY <1>1 DEF Labels
<1>7. spooled[c] \in Seq(Calls) \cup {Absent}
    BY DEF TypesInv
<1>8. \/ UNCHANGED meta
      \/ \E m \in Seq(Calls) \cup {Absent} : meta' = [meta EXCEPT ![name[c]] = m]
    BY <1>7 DEF CloseMeta
<1>9. QED
    BY <1>1, <1>2, <1>3, <1>4, <1>5, <1>6, <1>8, TypesStep

LEMMA RemoveObjectsTypes ==
    ASSUME ObjectsInv, TypesInv, NEW c \in Calls, RemoveObjects(c) PROVE TypesInv'
<1>1. /\ pc[c] \in OfRemove
      /\ UNCHANGED <<driver, algo, op, payload, metaLength, alone, spooled, written, dropped>>
    BY DEF RemoveObjects, Removed, OfRemove, config, frame, local, ghosts
<1>2. PICK label \in {"removeElement", "removeMeta", "done"} :
          /\ pc' = [pc EXCEPT ![c] = label]
          /\ \/ UNCHANGED result /\ label # "done"
             \/ \E r \in Results : result' = [result EXCEPT ![c] = r] /\ label = "done"
    BY DEF RemoveObjects, Removed, Goto, Return, Results
<1>3. \/ UNCHANGED element
      \/ \E e \in Calls \cup {Absent, Partial} : element' = [element EXCEPT ![name[c]] = e]
    BY DEF RemoveObjects, Removed
<1>4. \/ UNCHANGED meta
      \/ \E m \in Seq(Calls) \cup {Absent} : meta' = [meta EXCEPT ![name[c]] = m]
    BY DEF RemoveObjects, Removed
<1>5. written'[c] = 0 /\ spooled'[c] = Absent
    BY <1>1 DEF TypesInv, NothingWritten, NothingSpooled
<1>6. pc[c] # "done" /\ label \in Labels
    BY <1>1 DEF Labels, OfRemove
<1>7. QED
    BY <1>1, <1>2, <1>3, <1>4, <1>5, <1>6, TypesStep

LEMMA CrashTypes ==
    ASSUME ObjectsInv, TypesInv, Crash PROVE TypesInv'
<1>1. /\ pc' = [c \in Calls |-> "done"] /\ spooled' = [c \in Calls |-> Absent]
      /\ written' = [c \in Calls |-> 0]
      /\ result' = [c \in Calls |-> IF pc[c] # "done" THEN "crashed" ELSE result[c]]
      /\ UNCHANGED <<driver, algo, op, payload, metaLength, alone, dropped, element, meta>>
    BY DEF Crash, config, objects, frame
<1>2. result' \in [Calls -> Results]
    BY <1>1 DEF TypesInv, Results
<1>3. ASSUME NEW c \in Calls, op[c] = "none" PROVE pc[c] = "done"
    BY <1>3 DEF ObjectsInv, ShapeOK, Owned, OfRemove
<1>4. QED
    BY <1>1, <1>2, <1>3 DEF TypesInv

LEMMA NextTypes ==
    ASSUME ObjectsInv, TypesInv, [VaultNext]_vars PROVE TypesInv'
<1>1. ASSUME NEW c \in Calls, NEW n \in Names,
             (\E u \in Uploads : CallPut(c, n, u)) \/ CallRemove(c, n)
      PROVE  TypesInv'
    BY <1>1, CallsTypes
<1>2. ASSUME NEW c \in Calls,
             \/ CreateVaultElement(c) \/ WriteMeta(c) \/ OpenBin(c) \/ CopyPiece(c)
             \/ Copied(c) \/ CopyFails(c) \/ UndoElement(c) \/ UndoMeta(c) \/ UndoBin(c)
             \/ CloseBin(c) \/ CloseMeta(c) \/ RemoveObjects(c)
      PROVE  TypesInv'
    BY <1>2, CreateVaultElementTypes, WriteMetaTypes, BinTypes, UndoTypes, CloseBinTypes,
       CloseMetaTypes, RemoveObjectsTypes
<1>3. CASE UNCHANGED vars
    BY <1>3 DEF vars, config, objects, frame, local, ghosts, TypesInv
<1>4. QED
    BY <1>1, <1>2, <1>3, CrashTypes DEF VaultNext

LEMMA TypesInvariant == VaultSpec => []TypesInv
<1>1. VaultInit => TypesInv
    BY InitTypes
<1>2. ObjectsInv /\ TypesInv /\ [VaultNext]_vars => TypesInv'
    BY NextTypes
<1>3. QED
    BY <1>1, <1>2, ObjectsInvariant, PTL DEF VaultSpec

\* The vault keeps its shape: an entry's objects name calls, a call that has
\* returned holds no open file (the deferred Close of Put), and a binary is
\* filed under the name of the Put that created it.
THEOREM VaultTypes == VaultSpec => []VaultTypeOK
<1>1. ObjectsInv /\ TypesInv => VaultTypeOK
    <2> SUFFICES ASSUME ObjectsInv, TypesInv PROVE VaultTypeOK
        OBVIOUS
    <2>1. \A n \in Names : meta[n] # Absent => \A i \in DOMAIN meta[n] : meta[n][i] \in Calls
        BY DEF TypesInv
    <2>2. \A c \in Calls : pc[c] = "done" =>
              handle[c] = Absent /\ spooled[c] = Absent /\ written[c] = 0
        BY DEF ObjectsInv, Owned, NotOpen, TypesInv, NothingWritten, NothingSpooled
    <2>3. QED
        BY <2>1, <2>2 DEF VaultTypeOK, ObjectsInv, ShapeOK, Owned, TypesInv, Results
<1>2. QED
    BY <1>1, ObjectsInvariant, TypesInvariant, PTL

-----------------------------------------------------------------------------
(* What is settled stays.                                                  *)

StaysAt(n) ==
    /\ element'[n] = element[n] /\ meta'[n] = meta[n] /\ bin'[n] = bin[n]
    /\ content'[bin[n]] = content[bin[n]]
    /\ \A c \in Active(n)' : op'[c] = "remove" \/ dropped'[c]

\* A call writes the objects of its name and the file it has open, which is of
\* its name too.
LEMMA WritesItsOwn ==
    ASSUME ObjectsInv, NEW n \in Names, Active(n) = {}, bin[n] # Absent,
           NEW c \in Calls, pc[c] # "done", UNCHANGED <<op, name>>,
           NEW label \in Labels, pc' = [pc EXCEPT ![c] = label],
           UNCHANGED element \/ \E e : element' = [element EXCEPT ![name[c]] = e],
           UNCHANGED meta \/ \E e : meta' = [meta EXCEPT ![name[c]] = e],
           UNCHANGED bin \/ \E e : bin' = [bin EXCEPT ![name[c]] = e],
           UNCHANGED content \/ \E e : content' = [content EXCEPT ![handle[c]] = e]
    PROVE  StaysAt(n)
<1>1. name[c] # n /\ name[c] \in Names
    BY DEF Active, ObjectsInv, ShapeOK
<1>2. bin[n] \in Calls /\ name[bin[n]] = n
    BY DEF ObjectsInv, ShapeOK, Owned
<1>3. handle[c] # bin[n]
    BY <1>1, <1>2 DEF ObjectsInv, Owned
<1>4. element'[n] = element[n]
    BY <1>1 DEF ObjectsInv, ShapeOK
<1>5. meta'[n] = meta[n]
    BY <1>1 DEF ObjectsInv, ShapeOK
<1>6. bin'[n] = bin[n]
    BY <1>1 DEF ObjectsInv, ShapeOK
<1>7. content'[bin[n]] = content[bin[n]]
    BY <1>2, <1>3 DEF ObjectsInv, ShapeOK
<1>8. ASSUME NEW d \in Calls, name'[d] = n, pc'[d] # "done" PROVE FALSE
    <2>1. d # c
        BY <1>1, <1>8
    <2>2. pc[d] # "done"
        BY <2>1, <1>8 DEF ObjectsInv, ShapeOK
    <2>3. QED
        BY <1>8, <2>2 DEF Active
<1>9. Active(n)' = {}
    BY <1>8 DEF Active
<1>10. QED
    BY <1>4, <1>5, <1>6, <1>7, <1>9 DEF StaysAt

\* A Put that begins on the name finds the binary and returns at once, unless it
\* cannot look.
LEMMA StartsSettled ==
    ASSUME ObjectsInv, TypesInv, NEW n \in Names, Active(n) = {}, bin[n] # Absent,
           NEW c \in Calls, NEW m \in Names,
           (\E u \in Uploads : CallPut(c, m, u)) \/ CallRemove(c, m)
    PROVE  StaysAt(n)
<1>1. UNCHANGED <<element, meta, bin, content>>
    BY DEF CallPut, CallRemove, objects
<1>2. op[c] = "none" /\ name' = [name EXCEPT ![c] = m]
    BY DEF CallPut, CallRemove, Start
<1>3. ASSUME NEW d \in Calls, name'[d] = n, pc'[d] # "done"
      PROVE  op'[d] = "remove" \/ dropped'[d]
    <2>1. CASE d # c
        <3>1. pc'[d] = pc[d] /\ name[d] = n
            BY <2>1, <1>2, <1>3 DEF CallPut, CallRemove, Goto, Return, ObjectsInv, ShapeOK
        <3>2. QED
            BY <3>1, <1>3 DEF Active
    <2>2. CASE d = c
        <3>1. m = n
            BY <2>2, <1>2, <1>3 DEF ObjectsInv, ShapeOK
        <3>2. CASE CallRemove(c, m)
            BY <2>2, <3>2 DEF CallRemove, Start, ObjectsInv, ShapeOK
        <3>3. CASE \E u \in Uploads : CallPut(c, m, u)
            <4>1. \/ pc' = [pc EXCEPT ![c] = "done"]
                  \/ dropped' = [dropped EXCEPT ![c] = TRUE]
                BY <3>1, <3>3 DEF CallPut, Has, Return, Goto
            <4>2. QED
                BY <4>1, <2>2, <1>3 DEF ObjectsInv, ShapeOK, TypesInv
        <3>4. QED
            BY <3>2, <3>3
    <2>3. QED
        BY <2>1, <2>2
<1>4. \A d \in Active(n)' : op'[d] = "remove" \/ dropped'[d]
    BY <1>3 DEF Active
<1>5. QED
    BY <1>1, <1>4 DEF StaysAt

LEMMA WritesSettled ==
    ASSUME ObjectsInv, NEW n \in Names, Active(n) = {}, bin[n] # Absent, NEW c \in Calls,
           \/ CreateVaultElement(c) \/ WriteMeta(c) \/ OpenBin(c) \/ CopyPiece(c)
           \/ Copied(c) \/ CopyFails(c)
    PROVE  StaysAt(n)
<1>1. PICK label \in Labels : pc' = [pc EXCEPT ![c] = label]
    <2>1. CASE CopyPiece(c)
        BY <2>1 DEF CopyPiece, ObjectsInv, ShapeOK
    <2>2. CASE ~CopyPiece(c)
        BY <2>2 DEF CreateVaultElement, WriteMeta, OpenBin, Copied, CopyFails, Goto, Return, Labels
    <2>3. QED
        BY <2>1, <2>2
<1>2. pc[c] # "done" /\ UNCHANGED <<op, name>>
    BY DEF CreateVaultElement, WriteMeta, OpenBin, CopyPiece, Copied, CopyFails, frame
<1>3. UNCHANGED element \/ \E e : element' = [element EXCEPT ![name[c]] = e]
    BY DEF CreateVaultElement, WriteMeta, OpenBin, CopyPiece, Copied, CopyFails, objects
<1>4. UNCHANGED meta \/ \E e : meta' = [meta EXCEPT ![name[c]] = e]
    BY DEF CreateVaultElement, WriteMeta, OpenBin, CopyPiece, Copied, CopyFails, objects
<1>5. UNCHANGED bin \/ \E e : bin' = [bin EXCEPT ![name[c]] = e]
    BY DEF CreateVaultElement, WriteMeta, OpenBin, CopyPiece, Copied, CopyFails, objects
<1>6. UNCHANGED content \/ \E e : content' = [content EXCEPT ![handle[c]] = e]
    BY DEF CreateVaultElement, WriteMeta, OpenBin, CopyPiece, Copied, CopyFails, objects
<1>7. QED
    BY <1>1, <1>2, <1>3, <1>4, <1>5, <1>6, WritesItsOwn

LEMMA ClosesSettled ==
    ASSUME ObjectsInv, NEW n \in Names, Active(n) = {}, bin[n] # Absent, NEW c \in Calls,
           \/ UndoElement(c) \/ UndoMeta(c) \/ UndoBin(c)
           \/ CloseBin(c) \/ CloseMeta(c) \/ RemoveObjects(c)
    PROVE  StaysAt(n)
<1>1. PICK label \in Labels : pc' = [pc EXCEPT ![c] = label]
    BY DEF UndoElement, UndoMeta, UndoBin, CloseBin, CloseMeta, RemoveObjects, Removed, Missed, Goto, Return, Labels
<1>2. pc[c] # "done" /\ UNCHANGED <<op, name, content>>
    BY DEF UndoElement, UndoMeta, UndoBin, CloseBin, CloseMeta, RemoveObjects, Removed, Missed, frame
<1>3. UNCHANGED element \/ \E e : element' = [element EXCEPT ![name[c]] = e]
    BY DEF UndoElement, UndoMeta, UndoBin, CloseBin, CloseMeta, RemoveObjects, Removed, Missed
<1>4. UNCHANGED meta \/ \E e : meta' = [meta EXCEPT ![name[c]] = e]
    BY DEF UndoElement, UndoMeta, UndoBin, CloseBin, CloseMeta, RemoveObjects, Removed, Missed
<1>5. UNCHANGED bin \/ \E e : bin' = [bin EXCEPT ![name[c]] = e]
    BY DEF UndoElement, UndoMeta, UndoBin, CloseBin, CloseMeta, RemoveObjects, Removed, Missed
<1>6. QED
    BY <1>1, <1>2, <1>3, <1>4, <1>5, WritesItsOwn

LEMMA CrashSettled ==
    ASSUME NEW n \in Names, Crash \/ UNCHANGED vars, Active(n) = {} PROVE StaysAt(n)
<1>1. UNCHANGED <<element, meta, bin, content, op, name>>
    BY DEF Crash, vars, objects, frame
<1>2. Active(n)' = {}
    BY DEF Crash, Active, vars, frame
<1>3. QED
    BY <1>1, <1>2 DEF StaysAt

LEMMA NextSettled ==
    ASSUME ObjectsInv, TypesInv, [VaultNext]_vars, NEW n \in Names, Active(n) = {}, bin[n] # Absent
    PROVE  StaysAt(n)
<1>1. ASSUME NEW c \in Calls, NEW m \in Names,
             (\E u \in Uploads : CallPut(c, m, u)) \/ CallRemove(c, m)
      PROVE  StaysAt(n)
    BY <1>1, StartsSettled
<1>2. ASSUME NEW c \in Calls,
             \/ CreateVaultElement(c) \/ WriteMeta(c) \/ OpenBin(c) \/ CopyPiece(c)
             \/ Copied(c) \/ CopyFails(c)
      PROVE  StaysAt(n)
    BY <1>2, WritesSettled
<1>3. ASSUME NEW c \in Calls,
             \/ UndoElement(c) \/ UndoMeta(c) \/ UndoBin(c)
             \/ CloseBin(c) \/ CloseMeta(c) \/ RemoveObjects(c)
      PROVE  StaysAt(n)
    BY <1>3, ClosesSettled
<1>4. QED
    BY <1>1, <1>2, <1>3, CrashSettled DEF VaultNext

\* Whatever runs on other names, fails or crashes: a name nobody works on that
\* has a binary keeps its keys, metadata and binary, and a Put on it is refused
\* unless the driver's Has could not look (vault.go:90-92, 156).
THEOREM SettledEntryStays == VaultSpec => SettledStays
<1>1. ObjectsInv /\ TypesInv /\ [VaultNext]_vars =>
          [\A n \in Names :
             Active(n) = {} /\ bin[n] # Absent =>
              /\ element'[n] = element[n] /\ meta'[n] = meta[n] /\ bin'[n] = bin[n]
              /\ content'[bin[n]] = content[bin[n]]
              /\ \A c \in Active(n)' : op'[c] = "remove" \/ dropped'[c]]_vars
    BY NextSettled DEF StaysAt
<1>2. QED
    BY <1>1, ObjectsInvariant, TypesInvariant, PTL DEF VaultSpec, SettledStays

-----------------------------------------------------------------------------
(* What was acknowledged can be read.                                      *)

\* Nobody is on the name of a call that was alone, not even after it.
Solo ==
    \A c, d \in Calls :
        alone[c] /\ pc[d] # "done" /\ name[d] = name[c] => d = c

Untouched == \A c \in Calls : op[c] = "none" => content[c] = <<>>

MetaWritten(c) ==
    IF driver = "fs"
    THEN /\ spooled[c] = Absent /\ meta[name[c]] # Absent
         /\ IsPrefix(MetaText(c, metaLength[c]), meta[name[c]])
    ELSE spooled[c] = MetaText(c, metaLength[c])

OpenOwn(c) == handle[c] = c /\ bin[name[c]] = IF driver = "fs" THEN c ELSE Absent

Keyed(c) == ~dropped[c] => element[name[c]] = c
Full(c) == ~dropped[c] => content[c] = FlattenSeq(Pieces(c))

\* The objects of an acknowledged Put.
Kept(c) ==
    /\ element[name[c]] = c /\ bin[name[c]] = c
    /\ meta[name[c]] # Absent /\ IsPrefix(MetaText(c, metaLength[c]), meta[name[c]])
    /\ driver = "s3" => meta[name[c]] = MetaText(c, metaLength[c])
    /\ Full(c)

\* What a Put that was alone has done at each of its steps.
PutAt(c) ==
    /\ pc[c] \in {"element", "meta", "bin"} => bin[name[c]] = Absent /\ content[c] = <<>>
    /\ pc[c] = "element" => ~dropped[c]
    /\ pc[c] \in {"meta", "bin", "copy", "close", "closeMeta"} => Keyed(c)
    /\ pc[c] \in {"bin", "copy", "close", "closeMeta"} => MetaWritten(c)
    /\ pc[c] \in {"copy", "close"} => OpenOwn(c)
    /\ pc[c] = "copy" =>
          /\ content[c] = FlattenSeq(SubSeq(Pieces(c), 1, written[c]))
          /\ written[c] \in 0..Len(Pieces(c))
    /\ pc[c] \in {"close", "closeMeta"} => Full(c)
    /\ pc[c] = "closeMeta" /\ ~dropped[c] => bin[name[c]] = c
    /\ result[c] = "ok" /\ ~dropped[c] => Kept(c)

PutInv == \A c \in Calls : op[c] = "put" /\ alone[c] => PutAt(c)

ReadInv == Solo /\ Untouched /\ PutInv

LEMMA PiecesOf ==
    ASSUME TypesInv, NEW c \in Calls
    PROVE  /\ Pieces(c) \in Seq(Seq(CellOf(c))) /\ algo \in Algorithms
           /\ Decrypt(algo, c, FlattenSeq(Pieces(c))) = Answer(payload[c])
<1>1. algo \in Algorithms /\ payload[c] \in Seq(Byte)
    BY VaultAssumption DEF TypesInv, Algorithms
<1>2. QED
    BY <1>1, EncryptPieces, CipherRoundTrip DEF Pieces

\* Nothing that PutAt looks at changes.
LEMMA PutAtStays ==
    ASSUME NEW c \in Calls, PutAt(c), TypesInv, ObjectsInv,
           UNCHANGED <<driver, algo>>,
           pc'[c] = pc[c], name'[c] = name[c], payload'[c] = payload[c],
           metaLength'[c] = metaLength[c], handle'[c] = handle[c],
           spooled'[c] = spooled[c], written'[c] = written[c], result'[c] = result[c],
           dropped'[c] = dropped[c], content'[c] = content[c],
           element'[name[c]] = element[name[c]], meta'[name[c]] = meta[name[c]],
           bin'[name[c]] = bin[name[c]]
    PROVE  PutAt(c)'
<1>1. Pieces(c)' = Pieces(c) /\ MetaText(c, metaLength[c])' = MetaText(c, metaLength[c])
    BY DEF Pieces, MetaText
<1>2. /\ Keyed(c)' <=> Keyed(c)
      /\ MetaWritten(c)' <=> MetaWritten(c)
      /\ OpenOwn(c)' <=> OpenOwn(c)
      /\ Full(c)' <=> Full(c)
    BY <1>1 DEF Keyed, MetaWritten, OpenOwn, Full
<1>3. Kept(c)' <=> Kept(c)
    BY <1>1, <1>2 DEF Kept
<1>4. QED
    BY <1>1, <1>2, <1>3 DEF PutAt

LEMMA InitRead == ASSUME VaultInit PROVE ReadInv
BY DEF VaultInit, ReadInv, Solo, Untouched, PutInv

\* A step of a call under way that keeps PutAt of its own.
LEMMA ReadStep ==
    ASSUME ObjectsInv, TypesInv, ReadInv, NEW c \in Calls, pc[c] # "done",
           UNCHANGED <<driver, algo, op, name, payload, metaLength, alone>>,
           NEW label \in Labels, pc' = [pc EXCEPT ![c] = label],
           UNCHANGED element \/ \E e : element' = [element EXCEPT ![name[c]] = e],
           UNCHANGED meta \/ \E e : meta' = [meta EXCEPT ![name[c]] = e],
           UNCHANGED bin \/ \E e : bin' = [bin EXCEPT ![name[c]] = e],
           UNCHANGED content \/ \E e : content' = [content EXCEPT ![handle[c]] = e],
           UNCHANGED handle \/ \E e : handle' = [handle EXCEPT ![c] = e],
           UNCHANGED spooled \/ \E e : spooled' = [spooled EXCEPT ![c] = e],
           UNCHANGED written \/ \E e : written' = [written EXCEPT ![c] = e],
           UNCHANGED result \/ \E e : result' = [result EXCEPT ![c] = e],
           UNCHANGED dropped \/ \E e : dropped' = [dropped EXCEPT ![c] = e],
           op[c] = "put" /\ alone[c] => PutAt(c)'
    PROVE  ReadInv'
<1>1. Solo'
    BY DEF ReadInv, Solo, ObjectsInv, ShapeOK
<1>2. Untouched'
    <2>1. SUFFICES ASSUME NEW d \in Calls, op[d] = "none" PROVE content'[d] = <<>>
        BY DEF Untouched
    <2>2. handle[c] # d
        BY <2>1, VaultAssumption DEF ObjectsInv, Owned
    <2>3. content'[d] = content[d]
        BY <2>2 DEF ObjectsInv, ShapeOK
    <2>4. QED
        BY <2>1, <2>3 DEF ReadInv, Untouched
<1>3. ASSUME NEW d \in Calls, op[d] = "put", alone[d] PROVE PutAt(d)'
    <2>1. CASE d = c
        BY <1>3, <2>1
    <2>2. CASE d # c
        <3>1. name[d] # name[c] /\ name[d] \in Names /\ name[c] \in Names
            BY <1>3, <2>2 DEF ReadInv, Solo, ObjectsInv, ShapeOK
        <3>2. handle[c] # d
            BY <3>1, VaultAssumption DEF ObjectsInv, Owned
        <3>3. /\ element'[name[d]] = element[name[d]] /\ meta'[name[d]] = meta[name[d]]
              /\ bin'[name[d]] = bin[name[d]]
            BY <3>1 DEF ObjectsInv, ShapeOK
        <3>4. content'[d] = content[d]
            BY <3>2 DEF ObjectsInv, ShapeOK
        <3>5. pc'[d] = pc[d] /\ handle'[d] = handle[d]
            BY <2>2 DEF ObjectsInv, ShapeOK
        <3>6. /\ spooled'[d] = spooled[d] /\ written'[d] = written[d]
              /\ result'[d] = result[d] /\ dropped'[d] = dropped[d]
            BY <2>2 DEF TypesInv
        <3>7. PutAt(d)
            BY <1>3 DEF ReadInv, PutInv
        <3>8. QED
            BY <3>3, <3>4, <3>5, <3>6, <3>7, PutAtStays
    <2>3. QED
        BY <2>1, <2>2
<1>4. QED
    BY <1>1, <1>2, <1>3 DEF ReadInv, PutInv

\* A call that begins is alone only if nobody else is there and no binary, and
\* ends the loneliness of those that were on its name.
LEMMA CallsRead ==
    ASSUME ObjectsInv, TypesInv, ReadInv, NEW c \in Calls, NEW n \in Names,
           (\E u \in Uploads : CallPut(c, n, u)) \/ CallRemove(c, n)
    PROVE  ReadInv'
<1>1. /\ op[c] = "none" /\ pc[c] = "done" /\ ~alone[c] /\ ~dropped[c] /\ content[c] = <<>>
      /\ result[c] = "none"
    BY DEF CallPut, CallRemove, Start, ObjectsInv, ShapeOK, Owned, OfRemove, TypesInv,
       ReadInv, Untouched
<1>2. /\ name' = [name EXCEPT ![c] = n]
      /\ UNCHANGED <<driver, algo, element, meta, bin, content, handle, spooled, written>>
    BY DEF CallPut, CallRemove, Start, config, objects, local
<1>3. ASSUME NEW d \in Calls \ {c}
      PROVE  /\ op'[d] = op[d] /\ name'[d] = name[d] /\ payload'[d] = payload[d]
             /\ metaLength'[d] = metaLength[d] /\ pc'[d] = pc[d] /\ result'[d] = result[d]
             /\ dropped'[d] = dropped[d]
    <2>1. CASE CallRemove(c, n)
        BY <2>1 DEF CallRemove, Start, Goto, ObjectsInv, ShapeOK
    <2>2. ASSUME NEW u \in Uploads, CallPut(c, n, u)
          PROVE  /\ op'[d] = op[d] /\ name'[d] = name[d] /\ payload'[d] = payload[d]
                 /\ metaLength'[d] = metaLength[d] /\ pc'[d] = pc[d] /\ result'[d] = result[d]
                 /\ dropped'[d] = dropped[d]
        <3>1. op'[d] = op[d] /\ name'[d] = name[d] /\ pc'[d] = pc[d]
            BY <2>2 DEF CallPut, Start, Goto, Return, ObjectsInv, ShapeOK
        <3>2. payload'[d] = payload[d] /\ metaLength'[d] = metaLength[d]
            BY <2>2 DEF CallPut, TypesInv
        <3>3. result'[d] = result[d] /\ dropped'[d] = dropped[d]
            BY <2>2 DEF CallPut, Return, ghosts, TypesInv
        <3>4. QED
            BY <3>1, <3>2, <3>3
    <2>3. QED
        BY <2>1, <2>2
<1>4. \/ pc'[c] = "done" /\ UNCHANGED alone
      \/ /\ Enter(c, n) /\ UNCHANGED result
         /\ \/ /\ pc'[c] = "element" /\ op'[c] = "put"
               /\ bin[n] = Absent => UNCHANGED dropped
            \/ op'[c] = "remove"
    <2>1. CASE CallRemove(c, n)
        BY <2>1 DEF CallRemove, Start, ObjectsInv, ShapeOK
    <2>2. CASE \E u \in Uploads : CallPut(c, n, u)
        BY <2>2 DEF CallPut, Start, Goto, Return, Has, ghosts, ObjectsInv, ShapeOK
    <2>3. QED
        BY <2>1, <2>2
<1>5. name'[c] = n
    BY <1>2 DEF ObjectsInv, ShapeOK
<1>6. ASSUME NEW d \in Calls \ {c}
      PROVE  alone'[d] => alone[d] /\ (pc'[c] = "done" \/ name[d] # n)
    BY <1>4 DEF Enter
<1>7. alone'[c] => (Active(n) = {} /\ bin[n] = Absent /\ pc'[c] # "done") \/ op'[c] = "remove"
    BY <1>1, <1>4 DEF Enter
<1>8. Solo'
    <2>1. SUFFICES ASSUME NEW x \in Calls, NEW d \in Calls, alone'[x], pc'[d] # "done",
                          name'[d] = name'[x], d # x
                   PROVE  FALSE
        BY DEF Solo
    <2>2. CASE x = c
        <3>1. pc[d] # "done" /\ name[d] = n
            BY <1>3, <1>5, <2>1, <2>2
        <3>2. Active(n) # {}
            BY <3>1 DEF Active
        <3>3. Enter(c, n)
            BY <1>1, <1>4, <2>1, <2>2
        <3>4. QED
            BY <2>1, <2>2, <3>2, <3>3 DEF Enter
    <2>3. CASE x # c
        <3>1. alone[x] /\ (pc'[c] = "done" \/ name[x] # n) /\ name'[x] = name[x]
            BY <1>3, <1>6, <2>1, <2>3
        <3>2. CASE d = c
            BY <1>5, <2>1, <3>1, <3>2
        <3>3. CASE d # c
            <4>1. pc[d] # "done" /\ name[d] = name[x]
                BY <1>3, <2>1, <3>1, <3>3
            <4>2. QED
                BY <2>1, <3>1, <4>1 DEF ReadInv, Solo
        <3>4. QED
            BY <3>2, <3>3
    <2>4. QED
        BY <2>2, <2>3
<1>9. Untouched'
    BY <1>1, <1>2, <1>3 DEF ReadInv, Untouched
<1>10. ASSUME NEW d \in Calls, op'[d] = "put", alone'[d] PROVE PutAt(d)'
    <2>1. CASE d = c
        <3>1. pc'[c] = "element" /\ bin[n] = Absent /\ UNCHANGED <<result, dropped>>
            BY <1>1, <1>4, <1>7, <1>10, <2>1
        <3>2. QED
            BY <1>1, <1>2, <1>5, <2>1, <3>1 DEF PutAt
    <2>2. CASE d # c
        <3>1. PutAt(d)
            BY <1>3, <1>6, <1>10, <2>2 DEF ReadInv, PutInv
        <3>2. QED
            BY <1>2, <1>3, <2>2, <3>1, PutAtStays
    <2>3. QED
        BY <2>1, <2>2
<1>11. QED
    BY <1>8, <1>9, <1>10 DEF ReadInv, PutInv

LEMMA CreateVaultElementRead ==
    ASSUME ObjectsInv, TypesInv, ReadInv, NEW c \in Calls, CreateVaultElement(c)
    PROVE  ReadInv'
<1>1. /\ pc[c] = "element"
      /\ UNCHANGED <<driver, algo, op, name, payload, metaLength, alone, meta, bin, content,
                     handle, spooled, written>>
    BY DEF CreateVaultElement, config, frame, local
<1>2. PICK label \in {"meta", "done"} :
          /\ pc' = [pc EXCEPT ![c] = label]
          /\ UNCHANGED result \/ \E e : result' = [result EXCEPT ![c] = e]
          /\ label = "done" => result'[c] # "ok"
          /\ label = "meta" => UNCHANGED result /\ (dropped'[c] \/ element'[name[c]] = c)
    <2>1. DOMAIN element = Names /\ name[c] \in Names /\ DOMAIN result = Calls /\ DOMAIN dropped = Calls
        BY DEF ObjectsInv, ShapeOK, TypesInv
    <2>2. QED
        BY <2>1 DEF CreateVaultElement, Goto, Return
<1>3. UNCHANGED element \/ \E e : element' = [element EXCEPT ![name[c]] = e]
    BY DEF CreateVaultElement
<1>4. UNCHANGED dropped \/ \E e : dropped' = [dropped EXCEPT ![c] = e]
    BY DEF CreateVaultElement
<1>5. pc[c] # "done" /\ label \in Labels /\ pc'[c] = label /\ result[c] = "none"
    BY <1>1, <1>2 DEF Labels, ObjectsInv, ShapeOK, TypesInv
<1>6. ASSUME op[c] = "put", alone[c] PROVE PutAt(c)'
    <2>1. bin[name[c]] = Absent /\ content[c] = <<>>
        BY <1>1, <1>6 DEF ReadInv, PutInv, PutAt
    <2>2. label = "meta" => Keyed(c)'
        BY <1>1, <1>2 DEF Keyed
    <2>3. QED
        BY <1>1, <1>2, <1>5, <2>1, <2>2 DEF PutAt
<1>7. QED
    BY <1>1, <1>2, <1>3, <1>4, <1>5, <1>6, ReadStep

\* What a call writes as metadata begins with its own.
LEMMA MetaOverBegins ==
    ASSUME TypesInv, NEW c \in Calls, name[c] \in Names, NEW k \in Nat
    PROVE  /\ MetaOver(c, k) # Absent /\ MetaText(c, k) # Absent
           /\ IsPrefix(MetaText(c, k), MetaOver(c, k)) /\ IsPrefix(MetaText(c, k), MetaText(c, k))
<1>1. Absent \notin Seq(Calls)
    <2>1. Len(Absent) = 1 /\ Absent[1] = "absent"
        BY DEF Absent
    <2>2. QED
        BY <2>1, VaultAssumption, ElementOf
<1>2. MetaOver(c, k) \in Seq(Calls) /\ MetaText(c, k) \in Seq(Calls)
    BY MetaTexts
<1> DEFINE old == IF meta[name[c]] = Absent THEN <<>> ELSE meta[name[c]]
           top == Max({k, Len(old)})
<1>3. Len(old) \in Nat
    BY DEF TypesInv
<1>4. top \in Nat /\ k <= top
    <2> HIDE DEF old
    <2>1. top = IF k >= Len(old) THEN k ELSE Len(old)
        BY <1>3, GreatestOfTwo
    <2>2. QED
        BY <1>3, <2>1
<1>5. /\ MetaOver(c, k) = [i \in 1..top |-> IF i <= k THEN c ELSE old[i]]
      /\ MetaText(c, k) = [i \in 1..k |-> c]
    BY DEF MetaOver, MetaText
<1> DEFINE over == MetaOver(c, k)
           text == MetaText(c, k)
<1> HIDE DEF old, top
<1>6. /\ Len(text) = k /\ \A i \in 1..k : text[i] = c
      /\ Len(over) = top /\ \A i \in 1..k : over[i] = c
    BY <1>3, <1>4, <1>5
<1> HIDE DEF over, text
<1>7. text \in Seq(Calls) /\ over \in Seq(Calls)
    BY <1>2 DEF over, text
<1>8. SubSeq(text, 1, k) = SubSeq(over, 1, k) /\ k <= top
    BY <1>3, <1>4, <1>6, <1>7
<1>9. IsPrefix(text, over)
    BY <1>6, <1>8 DEF IsPrefix
<1>10. IsPrefix(text, text)
    BY <1>3, <1>6 DEF IsPrefix
<1>11. QED
    BY <1>1, <1>2, <1>9, <1>10 DEF over, text

LEMMA WriteMetaRead ==
    ASSUME ObjectsInv, TypesInv, ReadInv, NEW c \in Calls, WriteMeta(c) PROVE ReadInv'
<1>1. /\ pc[c] = "meta"
      /\ UNCHANGED <<driver, algo, op, name, payload, metaLength, alone, element, bin, content,
                     handle, written, dropped>>
    BY DEF WriteMeta, config, frame
<1>2. PICK label \in {"bin", "undoElement", "done"} :
          /\ pc' = [pc EXCEPT ![c] = label]
          /\ UNCHANGED result \/ \E e : result' = [result EXCEPT ![c] = e]
          /\ IF label = "done" THEN result' = [result EXCEPT ![c] = "error"] ELSE UNCHANGED result
          /\ label = "bin" =>
                IF driver = "fs"
                THEN meta' = [meta EXCEPT ![name[c]] = MetaOver(c, metaLength[c])] /\ UNCHANGED spooled
                ELSE spooled' = [spooled EXCEPT ![c] = MetaText(c, metaLength[c])] /\ UNCHANGED meta
    BY DEF WriteMeta, Goto, Return
<1>3. UNCHANGED meta \/ \E e : meta' = [meta EXCEPT ![name[c]] = e]
    BY DEF WriteMeta
<1>4. UNCHANGED spooled \/ \E e : spooled' = [spooled EXCEPT ![c] = e]
    BY DEF WriteMeta
<1>5. /\ pc[c] # "done" /\ label \in Labels /\ pc'[c] = label /\ result[c] = "none"
      /\ name[c] \in Names /\ spooled[c] = Absent /\ result'[c] # "ok" /\ metaLength[c] \in Nat
    BY <1>1, <1>2 DEF Labels, ObjectsInv, ShapeOK, TypesInv, NothingSpooled
<1>6. ASSUME label = "bin" PROVE MetaWritten(c)'
    <2>1. MetaText(c, metaLength[c])' = MetaText(c, metaLength[c])
        BY <1>1 DEF MetaText
    <2>2. CASE driver = "fs"
        <3>1. meta'[name[c]] = MetaOver(c, metaLength[c]) /\ spooled'[c] = Absent
            BY <1>2, <1>5, <1>6, <2>2 DEF TypesInv
        <3>2. QED
            BY <1>1, <1>5, <2>1, <2>2, <3>1, MetaOverBegins DEF MetaWritten
    <2>3. CASE driver # "fs"
        <3>1. spooled'[c] = MetaText(c, metaLength[c])
            BY <1>2, <1>6, <2>3 DEF TypesInv
        <3>2. QED
            BY <1>1, <2>1, <2>3, <3>1 DEF MetaWritten
    <2>4. QED
        BY <2>2, <2>3
<1>7. ASSUME op[c] = "put", alone[c] PROVE PutAt(c)'
    <2>1. bin[name[c]] = Absent /\ content[c] = <<>> /\ Keyed(c)
        BY <1>1, <1>7 DEF ReadInv, PutInv, PutAt
    <2>2. Keyed(c)'
        BY <1>1, <2>1 DEF Keyed
    <2>3. QED
        BY <1>1, <1>2, <1>5, <1>6, <2>1, <2>2 DEF PutAt
<1>8. QED
    BY <1>1, <1>2, <1>3, <1>4, <1>5, <1>7, ReadStep

LEMMA OpenBinRead ==
    ASSUME ObjectsInv, TypesInv, ReadInv, NEW c \in Calls, OpenBin(c) PROVE ReadInv'
<1>1. /\ pc[c] = "bin"
      /\ UNCHANGED <<driver, algo, op, name, payload, metaLength, alone, element, meta, content,
                     spooled, written, result, dropped>>
    BY DEF OpenBin, config, frame
<1>2. PICK label \in {"copy", "undoElement"} :
          /\ pc' = [pc EXCEPT ![c] = label]
          /\ label = "copy" =>
               /\ IF driver = "fs" /\ bin[name[c]] = Absent
                  THEN bin' = [bin EXCEPT ![name[c]] = c] ELSE UNCHANGED bin
               /\ handle' = [handle EXCEPT ![c] = IF driver = "fs" THEN bin'[name[c]] ELSE c]
    BY DEF OpenBin, Goto
<1>3. UNCHANGED bin \/ \E e : bin' = [bin EXCEPT ![name[c]] = e]
    BY DEF OpenBin
<1>4. UNCHANGED handle \/ \E e : handle' = [handle EXCEPT ![c] = e]
    BY DEF OpenBin
<1>5. /\ pc[c] # "done" /\ label \in Labels /\ pc'[c] = label /\ result[c] = "none"
      /\ name[c] \in Names /\ written[c] = 0
    BY <1>1, <1>2 DEF Labels, ObjectsInv, ShapeOK, TypesInv, NothingWritten
<1>6. ASSUME op[c] = "put", alone[c] PROVE PutAt(c)'
    <2>1. bin[name[c]] = Absent /\ content[c] = <<>> /\ Keyed(c) /\ MetaWritten(c)
        BY <1>1, <1>6 DEF ReadInv, PutInv, PutAt
    <2>2. Keyed(c)' /\ MetaWritten(c)' /\ Pieces(c)' = Pieces(c)
        BY <1>1, <2>1 DEF Keyed, MetaWritten, MetaText, Pieces
    <2>3. ASSUME label = "copy" PROVE OpenOwn(c)'
        <3>1. bin'[name[c]] = IF driver = "fs" THEN c ELSE Absent
            BY <1>2, <1>5, <2>1, <2>3 DEF ObjectsInv, ShapeOK
        <3>2. handle'[c] = c
            BY <1>2, <2>3, <3>1 DEF ObjectsInv, ShapeOK
        <3>3. QED
            BY <1>1, <3>1, <3>2 DEF OpenOwn
    <2>4. Pieces(c) \in Seq(Seq(CellOf(c)))
        BY PiecesOf
    <2>5. 0 \in 0..Len(Pieces(c))
        BY <2>4
    <2>6. FlattenSeq(SubSeq(Pieces(c), 1, 0)) = <<>>
        BY <2>4, <2>5, FlattenStep
    <2>7. /\ content'[c] = FlattenSeq(SubSeq(Pieces(c)', 1, written'[c]))
          /\ written'[c] \in 0..Len(Pieces(c)')
        BY <1>1, <1>5, <2>1, <2>2, <2>5, <2>6
    <2>8. QED
        BY <1>2, <1>5, <1>1, <2>2, <2>3, <2>7 DEF PutAt
<1>7. QED
    BY <1>1, <1>2, <1>3, <1>4, <1>5, <1>6, ReadStep

\* What is written behind the last cell is appended.
LEMMA WriteAtEnd ==
    ASSUME NEW S, NEW file \in Seq(S), NEW piece \in Seq(S)
    PROVE  WriteAt(file, Len(file), piece) = file \o piece
<1> DEFINE n == Len(file)
           m == Len(piece)
<1>1. n \in Nat /\ m \in Nat
    OBVIOUS
<1>2. Max({n, n + m}) = n + m
    <2> HIDE DEF n, m
    <2>1. n + m \in Nat
        BY <1>1
    <2>2. Max({n, n + m}) = IF n >= n + m THEN n ELSE n + m
        BY <1>1, <2>1, GreatestOfTwo
    <2>3. QED
        BY <1>1, <2>2
<1>3. WriteAt(file, n, piece) =
          [i \in 1..n + m |-> IF i > n /\ i <= n + m THEN piece[i - n] ELSE file[i]]
    BY <1>2 DEF WriteAt
<1>4. /\ file \o piece \in Seq(S) /\ Len(file \o piece) = n + m
      /\ \A i \in 1..n + m :
            (file \o piece)[i] = IF i > n /\ i <= n + m THEN piece[i - n] ELSE file[i]
    OBVIOUS
<1> HIDE DEF n, m
<1>5. file \o piece = [i \in 1..n + m |-> (file \o piece)[i]]
    <2> DEFINE both == file \o piece
    <2>1. both \in Seq(S) /\ Len(both) = n + m
        BY <1>4
    <2> HIDE DEF both
    <2>2. both = [i \in 1..n + m |-> both[i]]
        BY <2>1
    <2>3. QED
        BY <2>2 DEF both
<1>6. QED
    BY <1>3, <1>4, <1>5 DEF n

LEMMA CopyPieceRead ==
    ASSUME ObjectsInv, TypesInv, ReadInv, NEW c \in Calls, CopyPiece(c) PROVE ReadInv'
<1>1. /\ pc[c] = "copy" /\ written[c] < Len(Pieces(c))
      /\ UNCHANGED <<driver, algo, op, name, payload, metaLength, alone, element, meta, bin, pc,
                     handle, spooled, result, dropped>>
      /\ content' = [content EXCEPT ![handle[c]] =
                        WriteAt(content[handle[c]], Offset(c), Pieces(c)[written[c] + 1])]
      /\ written' = [written EXCEPT ![c] = written[c] + 1]
    BY DEF CopyPiece, config, frame, ghosts
<1>2. /\ \E e : content' = [content EXCEPT ![handle[c]] = e]
      /\ \E e : written' = [written EXCEPT ![c] = e]
    BY <1>1
<1>3. /\ pc' = [pc EXCEPT ![c] = "copy"] /\ pc[c] # "done" /\ "copy" \in Labels
      /\ result[c] = "none" /\ written[c] \in Nat
    BY <1>1 DEF Labels, ObjectsInv, ShapeOK, TypesInv
<1>4. ASSUME op[c] = "put", alone[c] PROVE PutAt(c)'
    <2>1. /\ Keyed(c) /\ MetaWritten(c) /\ OpenOwn(c)
          /\ content[c] = FlattenSeq(SubSeq(Pieces(c), 1, written[c]))
          /\ written[c] \in 0..Len(Pieces(c))
        BY <1>1, <1>4 DEF ReadInv, PutInv, PutAt
    <2>2. Keyed(c)' /\ MetaWritten(c)' /\ OpenOwn(c)' /\ Pieces(c)' = Pieces(c)
        BY <1>1, <2>1 DEF Keyed, MetaWritten, OpenOwn, MetaText, Pieces
    <2>3. handle[c] = c /\ c # Absent
        BY <2>1, VaultAssumption DEF OpenOwn
    <2> DEFINE pieces == Pieces(c)
               k == written[c]
               begun == FlattenSeq(SubSeq(pieces, 1, k))
    <2>4. pieces \in Seq(Seq(CellOf(c))) /\ k \in 0..Len(pieces) /\ k < Len(pieces)
        BY <1>1, <2>1, PiecesOf
    <2>5. /\ begun \in Seq(CellOf(c))
          /\ FlattenSeq(SubSeq(pieces, 1, k + 1)) = begun \o pieces[k + 1]
        <3> HIDE DEF pieces, k
        <3>1. QED
            BY <2>4, FlattenStep
    <2>6. pieces[k + 1] \in Seq(CellOf(c)) /\ k + 1 \in 0..Len(pieces)
        <3> HIDE DEF pieces, k
        <3>1. k + 1 \in 1..Len(pieces) /\ k + 1 \in 0..Len(pieces)
            BY <2>4
        <3>2. QED
            BY <2>4, <3>1
    <2>7. content'[c] = WriteAt(begun, Len(begun), pieces[k + 1])
        <3>1. Offset(c) = Len(begun)
            BY DEF Offset
        <3>2. content'[c] = WriteAt(content[c], Offset(c), pieces[k + 1])
            BY <1>1, <2>3 DEF ObjectsInv, ShapeOK
        <3>3. QED
            BY <2>1, <3>1, <3>2
    <2>8. content'[c] = begun \o pieces[k + 1]
        <3> HIDE DEF begun, pieces, k
        <3>1. QED
            BY <2>5, <2>6, <2>7, WriteAtEnd
    <2>9. written'[c] = k + 1
        BY <1>1 DEF TypesInv
    <2>10. /\ content'[c] = FlattenSeq(SubSeq(Pieces(c)', 1, written'[c]))
           /\ written'[c] \in 0..Len(Pieces(c)')
        BY <2>2, <2>5, <2>6, <2>8, <2>9
    <2>11. QED
        BY <1>1, <1>3, <2>2, <2>3, <2>10 DEF PutAt
<1>5. QED
    BY <1>1, <1>2, <1>3, <1>4, ReadStep

LEMMA CopyEndsRead ==
    ASSUME ObjectsInv, TypesInv, ReadInv, NEW c \in Calls, Copied(c) \/ CopyFails(c)
    PROVE  ReadInv'
<1>1. /\ pc[c] = "copy"
      /\ UNCHANGED <<driver, algo, op, name, payload, metaLength, alone, element, meta, bin,
                     content, handle, spooled, written, result>>
    BY DEF Copied, CopyFails, config, frame, objects, local, ghosts
<1>2. PICK label \in {"close", "undoElement"} :
          /\ pc' = [pc EXCEPT ![c] = label]
          /\ UNCHANGED dropped \/ dropped' = [dropped EXCEPT ![c] = TRUE]
          /\ label = "close" =>
                \/ UNCHANGED dropped /\ written[c] = Len(Pieces(c))
                \/ dropped' = [dropped EXCEPT ![c] = TRUE]
    BY DEF Copied, CopyFails, Goto, ghosts
<1>3. UNCHANGED dropped \/ \E e : dropped' = [dropped EXCEPT ![c] = e]
    BY <1>2
<1>4. pc[c] # "done" /\ label \in Labels /\ pc'[c] = label /\ result[c] = "none"
    BY <1>1, <1>2 DEF Labels, ObjectsInv, ShapeOK, TypesInv
<1>5. ASSUME op[c] = "put", alone[c] PROVE PutAt(c)'
    <2>1. /\ Keyed(c) /\ MetaWritten(c) /\ OpenOwn(c)
          /\ content[c] = FlattenSeq(SubSeq(Pieces(c), 1, written[c]))
        BY <1>1, <1>5 DEF ReadInv, PutInv, PutAt
    <2>2. MetaWritten(c)' /\ OpenOwn(c)' /\ Pieces(c)' = Pieces(c)
        BY <1>1, <2>1 DEF MetaWritten, OpenOwn, MetaText, Pieces
    <2>3. ~dropped'[c] => ~dropped[c]
        BY <1>2 DEF TypesInv
    <2>4. Keyed(c)'
        BY <1>1, <2>1, <2>3 DEF Keyed
    <2>5. ASSUME label = "close" PROVE Full(c)'
        <3>1. CASE dropped'[c]
            BY <3>1 DEF Full
        <3>2. CASE ~dropped'[c]
            <4>1. written[c] = Len(Pieces(c))
                BY <1>2, <2>5, <3>2 DEF TypesInv
            <4>2. Pieces(c) \in Seq(Seq(CellOf(c)))
                BY PiecesOf
            <4>3. Len(Pieces(c)) \in 0..Len(Pieces(c))
                BY <4>2
            <4>4. FlattenSeq(SubSeq(Pieces(c), 1, Len(Pieces(c)))) = FlattenSeq(Pieces(c))
                BY <4>2, <4>3, FlattenStep
            <4>5. QED
                BY <1>1, <2>1, <2>2, <4>1, <4>4 DEF Full
        <3>3. QED
            BY <3>1, <3>2
    <2>6. QED
        BY <1>1, <1>2, <1>4, <2>2, <2>4, <2>5 DEF PutAt
<1>6. QED
    BY <1>1, <1>2, <1>3, <1>4, <1>5, ReadStep

LEMMA UndoRead ==
    ASSUME ObjectsInv, TypesInv, ReadInv, NEW c \in Calls,
           UndoElement(c) \/ UndoMeta(c) \/ UndoBin(c) \/ RemoveObjects(c)
    PROVE  ReadInv'
<1>1. /\ pc[c] \in {"undoElement", "undoMeta", "undoBin"} \cup OfRemove
      /\ UNCHANGED <<driver, algo, op, name, payload, metaLength, alone, content, handle,
                     spooled, written>>
      /\ UNCHANGED dropped \/ \E e : dropped' = [dropped EXCEPT ![c] = e]
    BY DEF UndoElement, UndoMeta, UndoBin, RemoveObjects, Missed, OfRemove, config, frame, local,
       ghosts
<1>2. PICK label \in {"undoMeta", "undoBin", "closeFailed", "removeElement", "removeMeta", "done"} :
          pc' = [pc EXCEPT ![c] = label]
    BY DEF UndoElement, UndoMeta, UndoBin, RemoveObjects, Removed, Missed, Goto, Return
<1>3. /\ UNCHANGED element \/ \E e : element' = [element EXCEPT ![name[c]] = e]
      /\ UNCHANGED meta \/ \E e : meta' = [meta EXCEPT ![name[c]] = e]
      /\ UNCHANGED bin \/ \E e : bin' = [bin EXCEPT ![name[c]] = e]
    BY DEF UndoElement, UndoMeta, UndoBin, RemoveObjects, Removed, Missed
<1>4. UNCHANGED result \/ \E e : result' = [result EXCEPT ![c] = e]
    BY DEF UndoElement, UndoMeta, UndoBin, RemoveObjects, Removed, Missed, Return
<1>5. pc[c] # "done" /\ label \in Labels /\ pc'[c] = label /\ result[c] = "none"
    BY <1>1, <1>2 DEF Labels, OfRemove, ObjectsInv, ShapeOK, TypesInv
<1>6. ASSUME op[c] = "put", alone[c] PROVE PutAt(c)'
    <2>1. ~RemoveObjects(c)
        BY <1>6 DEF RemoveObjects, Removed, OfRemove, ObjectsInv, Owned
    <2>2. UNCHANGED result
        BY <2>1 DEF UndoElement, UndoMeta, UndoBin
    <2>3. QED
        BY <1>2, <1>5, <2>2 DEF PutAt
<1>7. QED
    BY <1>1, <1>2, <1>3, <1>4, <1>5, <1>6, ReadStep

LEMMA CloseBinRead ==
    ASSUME ObjectsInv, TypesInv, ReadInv, NEW c \in Calls, CloseBin(c) PROVE ReadInv'
<1>1. /\ pc[c] \in {"close", "closeFailed"}
      /\ UNCHANGED <<driver, algo, op, name, payload, metaLength, alone, element, meta, content>>
    BY DEF CloseBin, config, frame
<1>2. /\ UNCHANGED bin \/ \E e : bin' = [bin EXCEPT ![name[c]] = e]
      /\ UNCHANGED handle \/ \E e : handle' = [handle EXCEPT ![c] = e]
      /\ UNCHANGED spooled \/ \E e : spooled' = [spooled EXCEPT ![c] = e]
      /\ UNCHANGED written \/ \E e : written' = [written EXCEPT ![c] = e]
      /\ UNCHANGED result \/ \E e : result' = [result EXCEPT ![c] = e]
      /\ UNCHANGED dropped \/ dropped' = [dropped EXCEPT ![c] = TRUE]
    BY DEF CloseBin, Forget, Return, local
<1>3. UNCHANGED dropped \/ \E e : dropped' = [dropped EXCEPT ![c] = e]
    BY <1>2
<1>4. PICK label \in {"done", "closeMeta", "closeMetaFailed"} :
          /\ pc' = [pc EXCEPT ![c] = label]
          /\ label = "done" => driver = "fs" /\ UNCHANGED <<bin, dropped>>
                               /\ result' = [result EXCEPT ![c] = Verdict(c)]
          /\ label # "done" => driver # "fs" /\ UNCHANGED <<spooled, result>>
          /\ label = "closeMeta" =>
                /\ pc[c] = "close"
                /\ \/ handle[c] = Absent
                   \/ bin' = [bin EXCEPT ![name[c]] = c] /\ UNCHANGED dropped
                   \/ dropped' = [dropped EXCEPT ![c] = TRUE]
    BY DEF CloseBin, Goto, Return, local
<1>5. /\ pc[c] # "done" /\ label \in Labels /\ pc'[c] = label /\ result[c] = "none"
      /\ name[c] \in Names
    BY <1>1, <1>4 DEF Labels, ObjectsInv, ShapeOK, TypesInv
<1>6. ASSUME op[c] = "put", alone[c] PROVE PutAt(c)'
    <2>1. pc[c] = "close" => Keyed(c) /\ MetaWritten(c) /\ OpenOwn(c) /\ Full(c)
        BY <1>6 DEF ReadInv, PutInv, PutAt
    <2>2. Pieces(c)' = Pieces(c) /\ MetaText(c, metaLength[c])' = MetaText(c, metaLength[c])
        BY <1>1 DEF Pieces, MetaText
    <2>3. ~dropped'[c] => ~dropped[c]
        BY <1>2 DEF TypesInv
    <2>4. pc[c] = "close" => Keyed(c)' /\ Full(c)'
        BY <1>1, <2>1, <2>2, <2>3 DEF Keyed, Full
    <2>5. CASE label = "done"
        <3>1. result'[c] = Verdict(c)
            BY <1>4, <2>5 DEF TypesInv
        <3>2. ASSUME result'[c] = "ok", ~dropped'[c] PROVE Kept(c)'
            <4>1. pc[c] = "close"
                BY <1>1, <3>1, <3>2 DEF Verdict
            <4>2. element'[name[c]] = c
                BY <1>1, <2>4, <3>2, <4>1 DEF Keyed
            <4>3. bin[name[c]] = c /\ UNCHANGED bin /\ driver = "fs"
                BY <1>4, <2>1, <2>5, <4>1 DEF OpenOwn
            <4>4. meta[name[c]] # Absent /\ IsPrefix(MetaText(c, metaLength[c]), meta[name[c]])
                BY <2>1, <4>1, <4>3 DEF MetaWritten
            <4>5. QED
                BY <1>1, <2>2, <2>4, <4>1, <4>2, <4>3, <4>4 DEF Kept
        <3>3. QED
            BY <1>5, <2>5, <3>2 DEF PutAt
    <2>6. CASE label = "closeMeta"
        <3>1. pc[c] = "close"
            BY <1>4, <2>6
        <3>2. MetaWritten(c)'
            BY <1>1, <1>4, <2>1, <2>2, <2>6, <3>1 DEF MetaWritten
        <3>3. handle[c] = c /\ c # Absent
            BY <2>1, <3>1, VaultAssumption DEF OpenOwn
        <3>4. ~dropped'[c] => bin'[name[c]] = c
            BY <1>4, <1>5, <2>6, <3>3 DEF TypesInv, ObjectsInv, ShapeOK
        <3>5. result'[c] # "ok"
            BY <1>4, <1>5, <2>6
        <3>6. QED
            BY <1>1, <1>5, <2>4, <2>6, <3>1, <3>2, <3>4, <3>5 DEF PutAt
    <2>7. CASE label = "closeMetaFailed"
        BY <1>4, <1>5, <2>7 DEF PutAt
    <2>8. QED
        BY <2>5, <2>6, <2>7
<1>7. QED
    BY <1>1, <1>2, <1>3, <1>4, <1>5, <1>6, ReadStep

LEMMA CloseMetaRead ==
    ASSUME ObjectsInv, TypesInv, ReadInv, NEW c \in Calls, CloseMeta(c) PROVE ReadInv'
<1>1. /\ pc[c] \in {"closeMeta", "closeMetaFailed"}
      /\ UNCHANGED <<driver, algo, op, name, payload, metaLength, alone, element, bin, content>>
      /\ pc' = [pc EXCEPT ![c] = "done"] /\ result' = [result EXCEPT ![c] = Verdict(c)]
    BY DEF CloseMeta, config, frame, Return, Goto
<1>2. /\ UNCHANGED meta \/ \E e : meta' = [meta EXCEPT ![name[c]] = e]
      /\ \E e : handle' = [handle EXCEPT ![c] = e]
      /\ \E e : spooled' = [spooled EXCEPT ![c] = e]
      /\ \E e : written' = [written EXCEPT ![c] = e]
      /\ UNCHANGED dropped \/ dropped' = [dropped EXCEPT ![c] = TRUE]
    BY DEF CloseMeta, Forget
<1>3. UNCHANGED dropped \/ \E e : dropped' = [dropped EXCEPT ![c] = e]
    BY <1>2
<1>4. \/ spooled[c] = Absent /\ UNCHANGED <<meta, dropped>>
      \/ spooled[c] # Absent /\ meta' = [meta EXCEPT ![name[c]] = spooled[c]] /\ UNCHANGED dropped
      \/ dropped' = [dropped EXCEPT ![c] = TRUE]
    BY DEF CloseMeta
<1>5. /\ pc[c] # "done" /\ "done" \in Labels /\ pc'[c] = "done" /\ result'[c] = Verdict(c)
      /\ name[c] \in Names /\ \E e : result' = [result EXCEPT ![c] = e]
    BY <1>1 DEF Labels, ObjectsInv, ShapeOK, TypesInv
<1>6. ASSUME op[c] = "put", alone[c] PROVE PutAt(c)'
    <2>1. SUFFICES ASSUME result'[c] = "ok", ~dropped'[c] PROVE Kept(c)'
        BY <1>5 DEF PutAt
    <2>2. pc[c] = "closeMeta" /\ ~dropped[c]
        BY <1>1, <1>2, <1>5, <2>1 DEF Verdict, TypesInv
    <2>3. element[name[c]] = c /\ bin[name[c]] = c /\ MetaWritten(c) /\ Full(c)
        BY <1>6, <2>2 DEF ReadInv, PutInv, PutAt, Keyed
    <2>4. MetaText(c, metaLength[c])' = MetaText(c, metaLength[c]) /\ Pieces(c)' = Pieces(c)
        BY <1>1 DEF MetaText, Pieces
    <2>5. Full(c)'
        BY <1>1, <2>2, <2>3, <2>4 DEF Full
    <2>6. CASE driver = "fs"
        <3>1. meta'[name[c]] = meta[name[c]]
            BY <1>4, <2>1, <2>3, <2>6 DEF MetaWritten, TypesInv
        <3>2. QED
            BY <1>1, <2>3, <2>4, <2>5, <2>6, <3>1 DEF Kept, MetaWritten
    <2>7. CASE driver # "fs"
        <3>1. spooled[c] = MetaText(c, metaLength[c]) /\ MetaText(c, metaLength[c]) # Absent
              /\ IsPrefix(MetaText(c, metaLength[c]), MetaText(c, metaLength[c]))
            BY <1>5, <2>3, <2>7, MetaOverBegins DEF MetaWritten, TypesInv
        <3>2. meta'[name[c]] = MetaText(c, metaLength[c])
            BY <1>4, <1>5, <2>1, <3>1 DEF TypesInv
        <3>3. QED
            BY <1>1, <2>3, <2>4, <2>5, <3>1, <3>2 DEF Kept
    <2>8. QED
        BY <2>6, <2>7
<1>7. QED
    BY <1>1, <1>2, <1>3, <1>5, <1>6, ReadStep

LEMMA CrashRead ==
    ASSUME ObjectsInv, TypesInv, ReadInv, Crash PROVE ReadInv'
<1>1. /\ pc' = [c \in Calls |-> "done"]
      /\ result' = [c \in Calls |-> IF pc[c] # "done" THEN "crashed" ELSE result[c]]
      /\ UNCHANGED <<driver, algo, op, name, payload, metaLength, alone, dropped, element, meta,
                     bin, content>>
    BY DEF Crash, config, objects, frame
<1>2. ASSUME NEW c \in Calls, op[c] = "put", alone[c] PROVE PutAt(c)'
    <2>1. pc'[c] = "done"
        BY <1>1
    <2>2. ASSUME result'[c] = "ok", ~dropped'[c] PROVE Kept(c)'
        <3>1. result[c] = "ok" /\ ~dropped[c]
            BY <1>1, <2>2
        <3>2. Kept(c)
            BY <1>2, <3>1 DEF ReadInv, PutInv, PutAt
        <3>3. Pieces(c)' = Pieces(c) /\ MetaText(c, metaLength[c])' = MetaText(c, metaLength[c])
            BY <1>1 DEF Pieces, MetaText
        <3>4. QED
            BY <1>1, <3>2, <3>3 DEF Kept, Full
    <2>3. QED
        BY <2>1, <2>2 DEF PutAt
<1>3. Solo' /\ Untouched'
    BY <1>1 DEF ReadInv, Solo, Untouched
<1>4. QED
    BY <1>1, <1>2, <1>3 DEF ReadInv, PutInv

LEMMA NextRead ==
    ASSUME ObjectsInv, TypesInv, ReadInv, [VaultNext]_vars PROVE ReadInv'
<1>1. ASSUME NEW c \in Calls, NEW n \in Names,
             (\E u \in Uploads : CallPut(c, n, u)) \/ CallRemove(c, n)
      PROVE  ReadInv'
    BY <1>1, CallsRead
<1>2. ASSUME NEW c \in Calls,
             \/ CreateVaultElement(c) \/ WriteMeta(c) \/ OpenBin(c) \/ CopyPiece(c)
             \/ Copied(c) \/ CopyFails(c) \/ UndoElement(c) \/ UndoMeta(c) \/ UndoBin(c)
             \/ CloseBin(c) \/ CloseMeta(c) \/ RemoveObjects(c)
      PROVE  ReadInv'
    BY <1>2, CreateVaultElementRead, WriteMetaRead, OpenBinRead, CopyPieceRead, CopyEndsRead,
       UndoRead, CloseBinRead, CloseMetaRead
<1>3. CASE UNCHANGED vars
    <2>1. /\ UNCHANGED <<driver, algo, op, name, payload, metaLength, pc, handle, spooled, written>>
          /\ UNCHANGED <<result, alone, dropped, element, meta, bin, content>>
        BY <1>3 DEF vars, config, objects, frame, local, ghosts
    <2>2. ASSUME NEW c \in Calls, op[c] = "put", alone[c] PROVE PutAt(c)'
        <3>1. PutAt(c)
            BY <2>2 DEF ReadInv, PutInv
        <3>2. QED
            BY <2>1, <3>1, PutAtStays
    <2>3. QED
        BY <2>1, <2>2 DEF ReadInv, Solo, Untouched, PutInv
<1>4. QED
    BY <1>1, <1>2, <1>3, CrashRead DEF VaultNext

LEMMA ReadInvariant == VaultSpec => []ReadInv
<1>1. VaultInit => ReadInv
    BY InitRead
<1>2. ObjectsInv /\ TypesInv /\ ReadInv /\ [VaultNext]_vars => ReadInv'
    BY NextRead
<1>3. QED
    BY <1>1, <1>2, ObjectsInvariant, TypesInvariant, PTL DEF VaultSpec

\* A Put that answered without an error, that no other call met on its name and
\* that lost no error in a deferred Close can be read back, byte for byte, with
\* any of the ciphers on either driver (Put and Get of vault.go).
THEOREM AcknowledgedIsReadable == VaultSpec => []AcknowledgedReadable
<1>1. ObjectsInv /\ TypesInv /\ ReadInv => AcknowledgedReadable
    <2> SUFFICES ASSUME ObjectsInv, TypesInv, ReadInv, NEW c \in Calls,
                        op[c] = "put", result[c] = "ok", alone[c], ~dropped[c]
                 PROVE  /\ ReadBack(name[c]) = Answer(payload[c])
                        /\ IsPrefix(MetaText(c, metaLength[c]), meta[name[c]])
                        /\ driver = "s3" =>
                              GetMeta(getVaultElement(name[c]), name[c]) = Answer(MetaText(c, metaLength[c]))
        BY DEF AcknowledgedReadable
    <2>1. Kept(c)
        BY DEF ReadInv, PutInv, PutAt
    <2>2. getVaultElement(name[c]) = c /\ bin[name[c]] = c /\ c # Absent
        BY <2>1, VaultAssumption DEF Kept, getVaultElement
    <2>3. content[c] = FlattenSeq(Pieces(c))
        BY <2>1 DEF Kept, Full
    <2>4. ReadBack(name[c]) = Answer(payload[c])
        BY <2>2, <2>3, PiecesOf DEF ReadBack, Get
    <2>5. ASSUME driver = "s3"
          PROVE  GetMeta(getVaultElement(name[c]), name[c]) = Answer(MetaText(c, metaLength[c]))
        <3>1. meta[name[c]] = MetaText(c, metaLength[c]) /\ meta[name[c]] # Absent
            BY <2>1, <2>5 DEF Kept
        <3>2. QED
            BY <2>2, <3>1 DEF GetMeta
    <2>6. QED
        BY <2>1, <2>4, <2>5 DEF Kept
<1>2. QED
    BY <1>1, ObjectsInvariant, TypesInvariant, ReadInvariant, PTL

-----------------------------------------------------------------------------
(* With aes_gcm nothing is read that was not put.                          *)

\* x is what the encrypter of the Put k made of byte i of its source.
Sealed(k, i, x) ==
    /\ op[k] = "put" /\ i \in 1..Len(payload[k]) + 1
    /\ x = Cell(k, i, Len(payload[k]), Append(payload[k], Noise)[i])

IsText(s) == \E n \in Nat : s = [i \in 1..n |-> s[i]]

\* A binary may be a patchwork of several Puts, all of them on its name, and
\* each of them has left its cells at their places.
Genuine(f) ==
    /\ IsText(content[f])
    /\ \A i \in DOMAIN content[f] :
          \E k \in Calls : name[k] = name[f] /\ Sealed(k, i, content[f][i])

GenuineInv == algo = "aes_gcm" => \A f \in Calls : Genuine(f)

LEMMA TextLength ==
    ASSUME NEW s, IsText(s) PROVE Len(s) \in Nat /\ DOMAIN s = 1..Len(s)
<1>1. PICK n \in Nat : s = [i \in 1..n |-> s[i]]
    BY DEF IsText
<1>2. \A i \in 1..n : s[i] \in {s[j] : j \in 1..n}
    OBVIOUS
<1>3. Len(s) = n
    BY <1>1, <1>2, SequenceOf
<1>4. QED
    BY <1>1, <1>3

LEMMA NoText == IsText(<<>>) /\ DOMAIN <<>> = {}
<1>1. <<>> = [i \in 1..0 |-> <<>>[i]]
    OBVIOUS
<1>2. QED
    BY <1>1 DEF IsText

LEMMA InitGenuine == ASSUME VaultInit PROVE GenuineInv
BY NoText DEF VaultInit, GenuineInv, Genuine

\* A binary that a step leaves alone stays genuine: a call that has begun stays
\* what it is, and one that has not has no binary.
LEMMA StaysGenuine ==
    ASSUME ReadInv, GenuineInv, algo = "aes_gcm", NEW f \in Calls, content'[f] = content[f],
           \A k \in Calls : op[k] # "none" =>
               op'[k] = op[k] /\ name'[k] = name[k] /\ payload'[k] = payload[k]
    PROVE  Genuine(f)'
<1>1. CASE op[f] = "none"
    BY <1>1, NoText DEF ReadInv, Untouched, Genuine
<1>2. CASE op[f] # "none"
    <2>1. Genuine(f)
        BY DEF GenuineInv
    <2>2. ASSUME NEW i \in DOMAIN content'[f]
          PROVE  \E k \in Calls : name'[k] = name'[f] /\ Sealed(k, i, content[f][i])'
        <3>1. PICK k \in Calls : name[k] = name[f] /\ Sealed(k, i, content[f][i])
            BY <2>1 DEF Genuine
        <3>2. op[k] = "put"
            BY <3>1 DEF Sealed
        <3>3. op'[k] = op[k] /\ name'[k] = name[k] /\ payload'[k] = payload[k]
            BY <3>2
        <3>4. name'[f] = name[f]
            BY <1>2
        <3>5. Sealed(k, i, content[f][i])'
            BY <3>1, <3>3 DEF Sealed
        <3>6. QED
            BY <3>1, <3>3, <3>4, <3>5
    <2>3. QED
        BY <2>1, <2>2 DEF Genuine
<1>3. QED
    BY <1>1, <1>2

\* The only write of the encrypter goes to the beginning of the file.
LEMMA OnlyPiece ==
    ASSUME TypesInv, algo = "aes_gcm", NEW c \in Calls, written[c] < Len(Pieces(c))
    PROVE  /\ written[c] = 0 /\ Offset(c) = 0
           /\ Len(Pieces(c)[1]) = Len(payload[c]) + 1
           /\ \A i \in 1..Len(payload[c]) + 1 :
                 Pieces(c)[1][i] = Cell(c, i, Len(payload[c]), Append(payload[c], Noise)[i])
<1> DEFINE e == AesGCMEncrypter(c, payload[c])
<1>1. payload[c] \in Seq(Byte) /\ written[c] \in Nat
    BY DEF TypesInv
<1>2. Pieces(c) = e
    BY DEF Pieces, Encrypt
<1>3. Len(e) = 1 /\ e \in Seq(Seq(CellOf(c)))
    BY <1>1, GCMCells, Zenon
<1>4. Len(e[1]) = Len(payload[c]) + 1
    BY <1>1, GCMCells, Zenon
<1>5. \A i \in 1..Len(payload[c]) + 1 :
          e[1][i] = Cell(c, i, Len(payload[c]), Append(payload[c], Noise)[i])
    BY <1>1, GCMCells, Zenon
<1> HIDE DEF e
<1>6. written[c] = 0
    BY <1>1, <1>2, <1>3
<1>7. FlattenSeq(SubSeq(e, 1, 0)) = <<>>
    <2>1. 0 \in 0..Len(e)
        BY <1>3
    <2>2. QED
        BY <1>3, <2>1, FlattenStep
<1>8. Offset(c) = 0
    BY <1>2, <1>6, <1>7 DEF Offset
<1>9. QED
    BY <1>2, <1>4, <1>5, <1>6, <1>8

LEMMA WriteAtBeginning ==
    ASSUME NEW file, IsText(file), NEW piece, Len(piece) \in Nat
    PROVE  /\ IsText(WriteAt(file, 0, piece))
           /\ \A i \in DOMAIN WriteAt(file, 0, piece) :
                 \/ i \in 1..Len(piece) /\ WriteAt(file, 0, piece)[i] = piece[i]
                 \/ i \in DOMAIN file /\ WriteAt(file, 0, piece)[i] = file[i]
<1> DEFINE n == Len(file)
           m == Len(piece)
           top == Max({n, 0 + m})
           over == WriteAt(file, 0, piece)
<1>1. n \in Nat /\ m \in Nat /\ DOMAIN file = 1..n
    BY TextLength
<1>2. top = IF n >= m THEN n ELSE m
    <2>1. 0 + m = m
        BY <1>1
    <2> HIDE DEF n, m
    <2>2. QED
        BY <1>1, <2>1, GreatestOfTwo
<1>3. over = [i \in 1..top |-> IF i > 0 /\ i <= 0 + m THEN piece[i - 0] ELSE file[i]]
    BY DEF WriteAt
<1> HIDE DEF n, m, top, over
<1>4. top \in Nat
    BY <1>1, <1>2
<1>5. DOMAIN over = 1..top
    BY <1>3
<1>6. over = [i \in 1..top |-> over[i]]
    BY <1>3
<1>7. ASSUME NEW i \in 1..top
      PROVE  (i \in 1..m /\ over[i] = piece[i]) \/ (i \in 1..n /\ over[i] = file[i])
    <2>1. over[i] = IF i > 0 /\ i <= 0 + m THEN piece[i - 0] ELSE file[i]
        BY <1>3
    <2>2. i \in Nat /\ i > 0 /\ i - 0 = i /\ 0 + m = m
        BY <1>1, <1>4
    <2>3. CASE i <= m
        BY <1>1, <2>1, <2>2, <2>3
    <2>4. CASE ~(i <= m)
        BY <1>1, <1>2, <2>1, <2>2, <2>4
    <2>5. QED
        BY <2>3, <2>4
<1>8. QED
    BY <1>1, <1>4, <1>5, <1>6, <1>7 DEF IsText, over, n, m

LEMMA CopyPieceGenuine ==
    ASSUME ObjectsInv, TypesInv, ReadInv, GenuineInv, NEW c \in Calls, CopyPiece(c)
    PROVE  GenuineInv'
<1>1. /\ pc[c] = "copy" /\ written[c] < Len(Pieces(c))
      /\ UNCHANGED <<algo, op, name, payload>>
      /\ content' = [content EXCEPT ![handle[c]] =
                        WriteAt(content[handle[c]], Offset(c), Pieces(c)[written[c] + 1])]
    BY DEF CopyPiece, config, frame
<1>2. SUFFICES ASSUME algo = "aes_gcm", NEW f \in Calls PROVE Genuine(f)'
    BY <1>1 DEF GenuineInv
<1>3. CASE f # handle[c]
    <2>1. content'[f] = content[f]
        BY <1>1, <1>3 DEF ObjectsInv, ShapeOK
    <2>2. QED
        BY <1>1, <1>2, <2>1, StaysGenuine
<1>4. CASE f = handle[c]
    <2> DEFINE piece == Pieces(c)[1]
               over == WriteAt(content[f], 0, piece)
               L == Len(payload[c])
    <2>1. op[c] = "put" /\ name[c] = name[f]
        BY <1>1, <1>4, VaultAssumption DEF ObjectsInv, Owned, OfRemove
    <2>2. /\ written[c] = 0 /\ Offset(c) = 0 /\ Len(piece) = L + 1
          /\ \A i \in 1..L + 1 : piece[i] = Cell(c, i, L, Append(payload[c], Noise)[i])
        BY <1>1, <1>2, OnlyPiece
    <2>3. content'[f] = over
        <3>1. written[c] + 1 = 1
            BY <2>2
        <3>2. content'[f] = WriteAt(content[f], Offset(c), Pieces(c)[written[c] + 1])
            BY <1>1, <1>4 DEF ObjectsInv, ShapeOK
        <3>3. QED
            BY <2>2, <3>1, <3>2
    <2>4. Genuine(f) /\ IsText(content[f])
        BY <1>2 DEF GenuineInv, Genuine
    <2>5. L \in Nat /\ Len(piece) \in Nat
        <3>1. payload[c] \in Seq(Byte)
            BY DEF TypesInv
        <3>2. L \in Nat
            BY <3>1
        <3> HIDE DEF L, piece
        <3>3. QED
            BY <2>2, <3>2
    <2>6. /\ IsText(over)
          /\ \A i \in DOMAIN over :
                \/ i \in 1..Len(piece) /\ over[i] = piece[i]
                \/ i \in DOMAIN content[f] /\ over[i] = content[f][i]
        <3> HIDE DEF piece
        <3>1. QED
            BY <2>4, <2>5, WriteAtBeginning
    <2> HIDE DEF piece, over
    <2>7. ASSUME NEW i \in DOMAIN over
          PROVE  \E k \in Calls : name[k] = name[f] /\ Sealed(k, i, over[i])
        <3>1. CASE i \in 1..Len(piece) /\ over[i] = piece[i]
            <4>1. Sealed(c, i, over[i])
                BY <2>1, <2>2, <3>1 DEF Sealed
            <4>2. QED
                BY <2>1, <4>1
        <3>2. CASE i \in DOMAIN content[f] /\ over[i] = content[f][i]
            BY <2>4, <3>2 DEF Genuine
        <3>3. QED
            BY <2>6, <3>1, <3>2
    <2>8. ASSUME NEW i \in DOMAIN content'[f]
          PROVE  \E k \in Calls : name'[k] = name'[f] /\ Sealed(k, i, content[f][i])'
        <3>1. PICK k \in Calls : name[k] = name[f] /\ Sealed(k, i, over[i])
            BY <2>3, <2>7
        <3>2. Sealed(k, i, content[f][i])'
            BY <1>1, <2>3, <3>1 DEF Sealed
        <3>3. QED
            BY <1>1, <3>1, <3>2
    <2>9. QED
        BY <2>3, <2>6, <2>8 DEF Genuine
<1>5. QED
    BY <1>3, <1>4

\* Every other step leaves the binaries and the calls that have begun alone.
LEMMA OtherStepsGenuine ==
    ASSUME ObjectsInv, TypesInv,
           \/ \E c \in Calls, n \in Names :
                 (\E u \in Uploads : CallPut(c, n, u)) \/ CallRemove(c, n)
           \/ \E c \in Calls :
                 \/ CreateVaultElement(c) \/ WriteMeta(c) \/ OpenBin(c)
                 \/ Copied(c) \/ CopyFails(c) \/ UndoElement(c) \/ UndoMeta(c) \/ UndoBin(c)
                 \/ CloseBin(c) \/ CloseMeta(c) \/ RemoveObjects(c)
           \/ Crash \/ UNCHANGED vars
    PROVE  /\ UNCHANGED <<algo, content>>
           /\ \A k \in Calls : op[k] # "none" =>
                 op'[k] = op[k] /\ name'[k] = name[k] /\ payload'[k] = payload[k]
<1>1. ASSUME NEW c \in Calls, NEW n \in Names,
             (\E u \in Uploads : CallPut(c, n, u)) \/ CallRemove(c, n)
      PROVE  /\ UNCHANGED <<algo, content>>
             /\ \A k \in Calls : op[k] # "none" =>
                   op'[k] = op[k] /\ name'[k] = name[k] /\ payload'[k] = payload[k]
    <2>1. UNCHANGED <<algo, content>> /\ op[c] = "none"
        BY <1>1 DEF CallPut, CallRemove, Start, config, objects
    <2>2. \A k \in Calls : k # c => op'[k] = op[k] /\ name'[k] = name[k]
        BY <1>1 DEF CallPut, CallRemove, Start, ObjectsInv, ShapeOK
    <2>3. \A k \in Calls : k # c => payload'[k] = payload[k]
        BY <1>1 DEF CallPut, CallRemove, TypesInv
    <2>4. QED
        BY <2>1, <2>2, <2>3
<1>2. ASSUME NEW c \in Calls,
             \/ CreateVaultElement(c) \/ WriteMeta(c) \/ OpenBin(c)
             \/ Copied(c) \/ CopyFails(c) \/ UndoElement(c) \/ UndoMeta(c) \/ UndoBin(c)
             \/ CloseBin(c) \/ CloseMeta(c) \/ RemoveObjects(c)
      PROVE  UNCHANGED <<algo, content, op, name, payload>>
    <2>1. CASE CreateVaultElement(c) \/ WriteMeta(c) \/ OpenBin(c)
        BY <2>1 DEF CreateVaultElement, WriteMeta, OpenBin, config, frame
    <2>2. CASE Copied(c) \/ CopyFails(c) \/ UndoElement(c) \/ UndoMeta(c) \/ UndoBin(c)
        BY <2>2 DEF Copied, CopyFails, UndoElement, UndoMeta, UndoBin, config, frame, objects
    <2>3. CASE CloseBin(c) \/ CloseMeta(c) \/ RemoveObjects(c)
        BY <2>3 DEF CloseBin, CloseMeta, RemoveObjects, config, frame
    <2>4. QED
        BY <1>2, <2>1, <2>2, <2>3
<1>3. CASE Crash \/ UNCHANGED vars
    BY <1>3 DEF Crash, vars, config, frame, objects
<1>4. QED
    BY <1>1, <1>2, <1>3

LEMMA NextGenuine ==
    ASSUME ObjectsInv, TypesInv, ReadInv, GenuineInv, [VaultNext]_vars PROVE GenuineInv'
<1>1. CASE \E c \in Calls : CopyPiece(c)
    BY <1>1, CopyPieceGenuine
<1>2. CASE /\ UNCHANGED <<algo, content>>
           /\ \A k \in Calls : op[k] # "none" =>
                 op'[k] = op[k] /\ name'[k] = name[k] /\ payload'[k] = payload[k]
    BY <1>2, StaysGenuine DEF GenuineInv
<1>3. QED
    BY <1>1, <1>2, OtherStepsGenuine DEF VaultNext

LEMMA GenuineInvariant == VaultSpec => []GenuineInv
<1>1. VaultInit => GenuineInv
    BY InitGenuine
<1>2. ObjectsInv /\ TypesInv /\ ReadInv /\ GenuineInv /\ [VaultNext]_vars => GenuineInv'
    BY NextGenuine
<1>3. QED
    BY <1>1, <1>2, ObjectsInvariant, TypesInvariant, ReadInvariant, PTL DEF VaultSpec

\* What the decrypter accepts of a genuine binary is the source of one Put.
LEMMA AuthenticSource ==
    ASSUME ObjectsInv, TypesInv, NEW f \in Calls, Genuine(f), NEW key \in Calls,
           AesGCMDecrypter(key, content[f]).ok
    PROVE  /\ op[key] = "put" /\ name[key] = name[f]
           /\ AesGCMDecrypter(key, content[f]).data = payload[key]
<1> DEFINE cells == content[f]
           L == Len(payload[key])
<1>1. Len(cells) \in Nat /\ DOMAIN cells = 1..Len(cells)
    BY TextLength DEF Genuine
<1>2. /\ cells # <<>>
      /\ \A i \in DOMAIN cells :
            cells[i].key = key /\ cells[i].place = i /\ cells[i].total + 1 = Len(cells)
      /\ AesGCMDecrypter(key, cells).data = [i \in 1..Len(cells) - 1 |-> cells[i].plain]
    BY DEF AesGCMDecrypter, Answer, Failure
<1>3. ASSUME NEW i \in DOMAIN cells
      PROVE  /\ op[key] = "put" /\ name[key] = name[f] /\ i \in 1..L + 1
             /\ L + 1 = Len(cells) /\ cells[i].plain = Append(payload[key], Noise)[i]
    <2>1. PICK k \in Calls : name[k] = name[f] /\ Sealed(k, i, cells[i])
        BY <1>3 DEF Genuine
    <2>2. PICK byte : byte = Append(payload[k], Noise)[i]
        OBVIOUS
    <2>3. PICK size : size = Len(payload[k])
        OBVIOUS
    <2>4. cells[i] = Cell(k, i, size, byte)
        BY <2>1, <2>2, <2>3 DEF Sealed
    <2>5. cells[i].key = k /\ cells[i].total = size /\ cells[i].plain = byte
        BY <2>4, CellFields
    <2>6. k = key
        BY <1>2, <2>5
    <2>7. op[k] = "put" /\ i \in 1..size + 1
        BY <2>1, <2>3 DEF Sealed
    <2>8. QED
        BY <1>2, <2>1, <2>2, <2>3, <2>5, <2>6, <2>7
<1>4. 1 \in DOMAIN cells
    <2>1. Len(cells) # 0
        <3>1. PICK n \in Nat : cells = [i \in 1..n |-> cells[i]]
            BY DEF Genuine, IsText
        <3>2. DOMAIN cells = 1..n
            BY <3>1
        <3>3. ASSUME Len(cells) = 0 PROVE FALSE
            <4>1. 1..n = 1..0
                BY <1>1, <3>2, <3>3
            <4>2. n = 0
                BY <4>1
            <4>3. cells = [i \in 1..0 |-> cells[i]]
                BY <3>1, <4>2
            <4>4. [i \in 1..0 |-> cells[i]] = <<>>
                OBVIOUS
            <4>5. QED
                BY <1>2, <4>3, <4>4
        <3>4. QED
            BY <3>3
    <2>2. QED
        BY <1>1, <2>1
<1>5. op[key] = "put" /\ name[key] = name[f] /\ L + 1 = Len(cells)
    BY <1>3, <1>4
<1>6. payload[key] \in Seq(Byte) /\ L \in Nat
    BY DEF TypesInv
<1>7. \A i \in 1..L : Append(payload[key], Noise)[i] = payload[key][i]
    BY <1>6
<1>8. Len(cells) - 1 = L
    BY <1>5, <1>6
<1> HIDE DEF cells
<1>9. ASSUME NEW i \in 1..L PROVE cells[i].plain = payload[key][i]
    <2> HIDE DEF L
    <2>1. i \in 1..L + 1
        BY <1>6
    <2>2. i \in DOMAIN cells
        BY <1>1, <1>5, <2>1
    <2>3. QED
        BY <1>3, <1>7, <2>2
<1>10. [i \in 1..L |-> cells[i].plain] = payload[key]
    <2>1. payload[key] = [i \in 1..L |-> payload[key][i]]
        BY <1>6
    <2> HIDE DEF L
    <2>2. QED
        BY <1>9, <2>1
<1>11. QED
    BY <1>2, <1>5, <1>8, <1>10 DEF cells

\* With aes_gcm a Get answers with a whole binary that was put under this name
\* with these keys, or with an error: not with half of one and not with one of
\* other keys, whatever calls run beside it, fail, or were cut short by the end
\* of the process (AesGCMDecrypter of vault_cipher.go, Get of vault.go).
THEOREM ReadsAreAuthentic == VaultSpec => []AuthenticatedRead
<1>1. ObjectsInv /\ TypesInv /\ GenuineInv => AuthenticatedRead
    <2> SUFFICES ASSUME ObjectsInv, TypesInv, GenuineInv, NEW n \in Names, NEW key \in Calls,
                        algo = "aes_gcm", Get(key, n).ok
                 PROVE  \E c \in Calls :
                            op[c] = "put" /\ name[c] = n /\ Get(key, n).data = payload[c]
        BY DEF AuthenticatedRead
    <2>1. bin[n] # Absent
        BY DEF Get, Failure
    <2>2. bin[n] \in Calls /\ name[bin[n]] = n
        BY <2>1 DEF ObjectsInv, ShapeOK, Owned
    <2>3. Get(key, n) = AesGCMDecrypter(key, content[bin[n]])
        BY <2>1 DEF Get, Decrypt
    <2>4. Genuine(bin[n])
        BY <2>2 DEF GenuineInv
    <2>5. /\ op[key] = "put" /\ name[key] = name[bin[n]]
          /\ AesGCMDecrypter(key, content[bin[n]]).data = payload[key]
        BY <2>2, <2>3, <2>4, AuthenticSource
    <2>6. QED
        BY <2>2, <2>3, <2>5
<1>2. QED
    BY <1>1, ObjectsInvariant, TypesInvariant, GenuineInvariant, PTL

-----------------------------------------------------------------------------
(* An entry is written once.                                               *)

\* The binary under a name is of the Put that has the name to itself, and
\* every Put was given one of the uploads.
OwnBin ==
    \A c \in Calls :
        op[c] = "put" /\ alone[c] /\ pc[c] # "done" => bin[name[c]] \in {Absent, c}

Loaded == \A c \in Calls : op[c] = "put" => payload[c] \in {u.payload : u \in Uploads}

OnceInv == OwnBin /\ Loaded /\ faults \in Nat

\* A step of a call under way, which works on its own name.
WorksOn(c) ==
    /\ pc[c] # "done"
    /\ UNCHANGED <<algo, op, name, payload, alone>>
    /\ \E label \in Labels : pc' = [pc EXCEPT ![c] = label]
    /\ UNCHANGED element \/ \E e : element' = [element EXCEPT ![name[c]] = e]
    /\ UNCHANGED meta \/ \E e : meta' = [meta EXCEPT ![name[c]] = e]
    /\ UNCHANGED bin \/ \E e \in {Absent, c} : bin' = [bin EXCEPT ![name[c]] = e]
    /\ UNCHANGED content \/ \E e : content' = [content EXCEPT ![handle[c]] = e]
    /\ pc'[c] = "done" => UNCHANGED bin
    /\ faults' \in {faults, faults + 1}

LEMMA WritesItsName ==
    ASSUME ObjectsInv, NEW c \in Calls,
           \/ CreateVaultElement(c) \/ WriteMeta(c) \/ OpenBin(c) \/ CopyPiece(c)
           \/ Copied(c) \/ CopyFails(c)
    PROVE  WorksOn(c)
<1>1. \E label \in Labels : pc' = [pc EXCEPT ![c] = label]
    <2>1. CASE CopyPiece(c)
        BY <2>1 DEF CopyPiece, ObjectsInv, ShapeOK
    <2>2. CASE ~CopyPiece(c)
        BY <2>2 DEF CreateVaultElement, WriteMeta, OpenBin, Copied, CopyFails, Goto, Return, Labels
    <2>3. QED
        BY <2>1, <2>2
<1>2. pc[c] # "done" /\ UNCHANGED <<algo, op, name, payload, alone>>
    BY DEF CreateVaultElement, WriteMeta, OpenBin, CopyPiece, Copied, CopyFails, frame, config,
           ghosts
<1>3. UNCHANGED element \/ \E e : element' = [element EXCEPT ![name[c]] = e]
    BY DEF CreateVaultElement, WriteMeta, OpenBin, CopyPiece, Copied, CopyFails, objects
<1>4. UNCHANGED meta \/ \E e : meta' = [meta EXCEPT ![name[c]] = e]
    BY DEF CreateVaultElement, WriteMeta, OpenBin, CopyPiece, Copied, CopyFails, objects
<1>5. UNCHANGED bin \/ \E e \in {Absent, c} : bin' = [bin EXCEPT ![name[c]] = e]
    BY DEF CreateVaultElement, WriteMeta, OpenBin, CopyPiece, Copied, CopyFails, objects
<1>6. UNCHANGED content \/ \E e : content' = [content EXCEPT ![handle[c]] = e]
    BY DEF CreateVaultElement, WriteMeta, OpenBin, CopyPiece, Copied, CopyFails, objects
<1>7. pc'[c] = "done" => UNCHANGED bin
    <2>1. CASE OpenBin(c)
        BY <2>1 DEF OpenBin, Goto, ObjectsInv, ShapeOK
    <2>2. CASE ~OpenBin(c)
        BY <2>2 DEF CreateVaultElement, WriteMeta, CopyPiece, Copied, CopyFails, objects
    <2>3. QED
        BY <2>1, <2>2
<1>8. faults' \in {faults, faults + 1}
    BY DEF CreateVaultElement, WriteMeta, OpenBin, CopyPiece, Copied, CopyFails, ghosts, Fault
<1>9. QED
    BY <1>1, <1>2, <1>3, <1>4, <1>5, <1>6, <1>7, <1>8 DEF WorksOn

LEMMA ClosesItsName ==
    ASSUME ObjectsInv, NEW c \in Calls,
           \/ UndoElement(c) \/ UndoMeta(c) \/ UndoBin(c)
           \/ CloseBin(c) \/ CloseMeta(c) \/ RemoveObjects(c)
    PROVE  WorksOn(c)
<1>1. \E label \in Labels : pc' = [pc EXCEPT ![c] = label]
    BY DEF UndoElement, UndoMeta, UndoBin, CloseBin, CloseMeta, RemoveObjects, Goto, Return, Labels
<1>2. pc[c] # "done" /\ UNCHANGED <<algo, op, name, payload, alone, content>>
    BY DEF UndoElement, UndoMeta, UndoBin, CloseBin, CloseMeta, RemoveObjects, frame, config,
           ghosts
<1>3. UNCHANGED element \/ \E e : element' = [element EXCEPT ![name[c]] = e]
    BY DEF UndoElement, UndoMeta, UndoBin, CloseBin, CloseMeta, RemoveObjects, Removed
<1>4. UNCHANGED meta \/ \E e : meta' = [meta EXCEPT ![name[c]] = e]
    BY DEF UndoElement, UndoMeta, UndoBin, CloseBin, CloseMeta, RemoveObjects, Removed
<1>5. UNCHANGED bin \/ \E e \in {Absent, c} : bin' = [bin EXCEPT ![name[c]] = e]
    BY DEF UndoElement, UndoMeta, UndoBin, CloseBin, CloseMeta, RemoveObjects, Removed
<1>6. pc'[c] = "done" => UNCHANGED bin
    <2>1. CASE UndoElement(c) \/ UndoMeta(c) \/ CloseMeta(c)
        BY <2>1 DEF UndoElement, UndoMeta, CloseMeta
    <2>2. CASE UndoBin(c) \/ CloseBin(c) \/ RemoveObjects(c)
        BY <2>2 DEF UndoBin, CloseBin, RemoveObjects, Goto, Return, ObjectsInv, ShapeOK
    <2>3. QED
        BY <2>1, <2>2
<1>7. faults' \in {faults, faults + 1}
    BY DEF UndoElement, UndoMeta, UndoBin, CloseBin, CloseMeta, RemoveObjects, ghosts, Fault
<1>8. QED
    BY <1>1, <1>2, <1>3, <1>4, <1>5, <1>6, <1>7 DEF WorksOn

LEMMA InitOnce == ASSUME VaultInit PROVE OnceInv
BY DEF VaultInit, OnceInv, OwnBin, Loaded

LEMMA WorksOnce ==
    ASSUME ObjectsInv, ReadInv, OnceInv, NEW c \in Calls, WorksOn(c) PROVE OnceInv'
<1>1. Loaded' /\ faults' \in Nat
    BY DEF OnceInv, Loaded, WorksOn
<1>2. ASSUME NEW d \in Calls, op[d] = "put", alone[d], pc'[d] # "done"
      PROVE  bin'[name[d]] \in {Absent, d}
    <2>1. pc[d] # "done" /\ name[d] \in Names /\ name[c] \in Names
        BY <1>2 DEF WorksOn, ObjectsInv, ShapeOK
    <2>2. bin[name[d]] \in {Absent, d}
        BY <1>2, <2>1 DEF OnceInv, OwnBin
    <2>3. d # c => name[d] # name[c]
        BY <1>2 DEF ReadInv, Solo, WorksOn
    <2>4. UNCHANGED bin \/ \E e \in {Absent, c} : bin' = [bin EXCEPT ![name[c]] = e]
        BY DEF WorksOn
    <2>5. QED
        BY <2>1, <2>2, <2>3, <2>4 DEF ObjectsInv, ShapeOK
<1>3. OwnBin'
    BY <1>2 DEF OwnBin, WorksOn
<1>4. QED
    BY <1>1, <1>3 DEF OnceInv

\* What a call that begins changes.
LEMMA Begins ==
    ASSUME ObjectsInv, TypesInv, NEW c \in Calls, NEW n \in Names,
           (\E u \in Uploads : CallPut(c, n, u)) \/ CallRemove(c, n)
    PROVE  /\ op[c] = "none" /\ pc[c] = "done" /\ name'[c] = n
           /\ UNCHANGED <<algo, element, meta, bin, content>>
           /\ \A d \in Calls \ {c} : /\ op'[d] = op[d] /\ name'[d] = name[d] /\ pc'[d] = pc[d]
                                     /\ payload'[d] = payload[d]
           /\ \/ pc'[c] = "done" /\ op'[c] = "put" /\ UNCHANGED alone
              \/ /\ Enter(c, n) /\ pc'[c] = "element" /\ op'[c] = "put"
                 /\ bin[n] = Absent \/ faults' = faults + 1
              \/ Enter(c, n) /\ pc'[c] = "removeBin" /\ op'[c] = "remove"
           /\ faults' \in {faults, faults + 1}
           /\ op'[c] = "put" => payload'[c] \in {u.payload : u \in Uploads}
<1>1. op[c] = "none" /\ pc[c] = "done"
    BY DEF CallPut, CallRemove, Start, ObjectsInv, ShapeOK, Owned, OfRemove
<1>2. /\ name'[c] = n /\ UNCHANGED <<algo, element, meta, bin, content>>
      /\ faults' \in {faults, faults + 1}
    BY DEF CallPut, CallRemove, Start, config, objects, ghosts, Fault, ObjectsInv, ShapeOK
<1>3. ASSUME NEW d \in Calls \ {c}
      PROVE  op'[d] = op[d] /\ name'[d] = name[d] /\ pc'[d] = pc[d] /\ payload'[d] = payload[d]
    <2>1. op'[d] = op[d] /\ name'[d] = name[d] /\ pc'[d] = pc[d]
        BY DEF CallPut, CallRemove, Start, Goto, Return, ObjectsInv, ShapeOK
    <2>2. payload'[d] = payload[d]
        BY DEF CallPut, CallRemove, TypesInv
    <2>3. QED
        BY <2>1, <2>2
<1>4. ASSUME NEW u \in Uploads, CallPut(c, n, u)
      PROVE  /\ payload'[c] = u.payload
             /\ \/ pc'[c] = "done" /\ op'[c] = "put" /\ UNCHANGED alone
                \/ /\ Enter(c, n) /\ pc'[c] = "element" /\ op'[c] = "put"
                   /\ bin[n] = Absent \/ faults' = faults + 1
    <2>1. payload'[c] = u.payload
        BY <1>4 DEF CallPut, TypesInv
    <2>2. op'[c] = "put"
        BY <1>4 DEF CallPut, Start, ObjectsInv, ShapeOK
    <2>3. \/ pc' = [pc EXCEPT ![c] = "done"] /\ UNCHANGED alone
          \/ /\ pc' = [pc EXCEPT ![c] = "element"] /\ Enter(c, n)
             /\ bin[n] = Absent \/ faults' = faults + 1
        BY <1>4 DEF CallPut, Return, Goto, Has, Fault, ghosts
    <2>4. QED
        BY <2>1, <2>2, <2>3 DEF ObjectsInv, ShapeOK
<1>5. CASE CallRemove(c, n)
    <2>1. op'[c] = "remove" /\ pc'[c] = "removeBin" /\ Enter(c, n)
        BY <1>5 DEF CallRemove, Start, Goto, ObjectsInv, ShapeOK
    <2>2. QED
        BY <1>1, <1>2, <1>3, <2>1
<1>6. CASE \E u \in Uploads : CallPut(c, n, u)
    BY <1>1, <1>2, <1>3, <1>4, <1>6
<1>7. QED
    BY <1>5, <1>6

LEMMA CallsOnce ==
    ASSUME ObjectsInv, TypesInv, OnceInv, NEW c \in Calls, NEW n \in Names,
           (\E u \in Uploads : CallPut(c, n, u)) \/ CallRemove(c, n)
    PROVE  OnceInv'
<1>1. Loaded'
    <2>1. ASSUME NEW d \in Calls, op'[d] = "put" PROVE payload'[d] \in {u.payload : u \in Uploads}
        <3>1. CASE d = c
            BY <2>1, <3>1, Begins
        <3>2. CASE d # c
            <4>1. op[d] = "put" /\ payload'[d] = payload[d]
                BY <2>1, <3>2, Begins
            <4>2. QED
                BY <4>1 DEF OnceInv, Loaded
        <3>3. QED
            BY <3>1, <3>2
    <2>2. QED
        BY <2>1 DEF Loaded
<1>2. faults' \in Nat
    BY Begins DEF OnceInv
<1>3. ASSUME NEW d \in Calls, op'[d] = "put", alone'[d], pc'[d] # "done"
      PROVE  bin'[name'[d]] \in {Absent, d}
    <2>1. CASE d = c
        <3>1. name'[c] = n /\ UNCHANGED bin /\ Enter(c, n)
            BY <1>3, <2>1, Begins
        <3>2. QED
            BY <1>3, <2>1, <3>1 DEF Enter
    <2>2. CASE d # c
        <3>1. op[d] = "put" /\ pc[d] # "done" /\ name'[d] = name[d] /\ UNCHANGED bin
            BY <1>3, <2>2, Begins
        <3>2. alone[d]
            BY <1>3, <2>2, Begins DEF Enter
        <3>3. QED
            BY <3>1, <3>2 DEF OnceInv, OwnBin
    <2>3. QED
        BY <2>1, <2>2
<1>4. QED
    BY <1>1, <1>2, <1>3 DEF OnceInv, OwnBin

LEMMA NextOnce ==
    ASSUME ObjectsInv, TypesInv, ReadInv, OnceInv, [VaultNext]_vars PROVE OnceInv'
<1>1. ASSUME NEW c \in Calls, NEW n \in Names,
             (\E u \in Uploads : CallPut(c, n, u)) \/ CallRemove(c, n)
      PROVE  OnceInv'
    BY <1>1, CallsOnce
<1>2. ASSUME NEW c \in Calls,
             \/ CreateVaultElement(c) \/ WriteMeta(c) \/ OpenBin(c) \/ CopyPiece(c)
             \/ Copied(c) \/ CopyFails(c) \/ UndoElement(c) \/ UndoMeta(c) \/ UndoBin(c)
             \/ CloseBin(c) \/ CloseMeta(c) \/ RemoveObjects(c)
      PROVE  OnceInv'
    BY <1>2, WritesItsName, ClosesItsName, WorksOnce
<1>3. CASE Crash
    BY <1>3 DEF Crash, Fault, frame, objects, OnceInv, OwnBin, Loaded
<1>4. CASE UNCHANGED vars
    BY <1>4 DEF vars, frame, objects, ghosts, OnceInv, OwnBin, Loaded
<1>5. QED
    BY <1>1, <1>2, <1>3, <1>4 DEF VaultNext

LEMMA OnceInvariant == VaultSpec => []OnceInv
<1>1. VaultInit => OnceInv
    BY InitOnce
<1>2. ObjectsInv /\ TypesInv /\ ReadInv /\ OnceInv /\ [VaultNext]_vars => OnceInv'
    BY NextOnce
<1>3. QED
    BY <1>1, <1>2, ObjectsInvariant, TypesInvariant, ReadInvariant, PTL DEF VaultSpec

\* How an entry stands after a step, by who is at work on it.
LEMMA NobodyThere ==
    ASSUME ObjectsInv', NEW n \in Names, Active(n)' = {}
    PROVE  \/ EntryOf(n)' \in {Once!Bare("none"), Once!Bare("broken")}
           \/ bin'[n] \in Calls /\ EntryOf(n)' = Once!Entry("whole", payload'[bin'[n]])
<1>1. bin'[n] \in Calls \cup {Absent}
    BY DEF ObjectsInv, ShapeOK
<1>2. CASE bin'[n] = Absent
    BY <1>2 DEF EntryOf, Once!Bare
<1>3. CASE bin'[n] # Absent /\ Whole(n)' = {}
    BY <1>3 DEF EntryOf, Once!Bare
<1>4. CASE bin'[n] # Absent /\ Whole(n)' # {}
    <2>1. \A c \in Whole(n)' : c = bin'[n]
        BY DEF Whole
    <2>2. (CHOOSE c \in Whole(n)' : TRUE) = bin'[n]
        BY <1>4, <2>1
    <2>3. EntryOf(n)' = [state |-> "whole", content |-> payload'[CHOOSE c \in Whole(n)' : TRUE]]
        BY <1>4 DEF EntryOf
    <2>4. QED
        BY <1>1, <1>4, <2>2, <2>3 DEF Once!Entry
<1>5. QED
    BY <1>2, <1>3, <1>4

LEMMA NothingThere ==
    ASSUME NEW n \in Names, Active(n) = {}, bin[n] = Absent
    PROVE  EntryOf(n) = Once!Bare("none")
BY DEF EntryOf, Once!Bare

LEMMA SomethingThere ==
    ASSUME NEW n \in Names, Active(n) = {}, bin[n] # Absent
    PROVE  EntryOf(n) # Once!Bare("none")
BY DEF EntryOf, Once!Bare

LEMMA OneAlone ==
    ASSUME NEW n \in Names, NEW c \in Calls, Active(n)' = {c}, op'[c] = "put", alone'[c]
    PROVE  EntryOf(n)' = Once!Entry("writing", payload'[c])
<1>1. (CHOOSE d \in Active(n)' : TRUE) = c
    OBVIOUS
<1>2. Active(n)' # {} /\ \E d \in Active(n)' : op'[d] = "put" /\ alone'[d]
    OBVIOUS
<1>3. EntryOf(n)' = [state |-> "writing", content |-> payload'[CHOOSE d \in Active(n)' : TRUE]]
    BY <1>2 DEF EntryOf
<1>4. QED
    BY <1>1, <1>3 DEF Once!Entry

LEMMA Together ==
    ASSUME NEW n \in Names, Active(n)' # {}, \A d \in Active(n)' : op'[d] = "put" => ~alone'[d]
    PROVE  EntryOf(n)' = Once!Bare("shared")
BY DEF EntryOf, Once!Bare

\* How it stands before one, while somebody is.
LEMMA AtWork ==
    ASSUME ReadInv, NEW n \in Names, NEW c \in Active(n)
    PROVE  \/ /\ op[c] = "put" /\ Active(n) = {c}
              /\ EntryOf(n) = Once!Entry("writing", payload[c])
              /\ alone[c]
           \/ EntryOf(n) = Once!Bare("shared")
<1>1. CASE \E d \in Active(n) : op[d] = "put" /\ alone[d]
    <2>1. PICK d \in Active(n) : op[d] = "put" /\ alone[d]
        BY <1>1
    <2>2. \A x \in Active(n) : x = d
        BY <2>1 DEF Active, ReadInv, Solo
    <2>3. c = d /\ Active(n) = {c}
        BY <2>1, <2>2
    <2>4. (CHOOSE x \in Active(n) : TRUE) = c
        BY <2>3
    <2>5. EntryOf(n) = [state |-> "writing", content |-> payload[CHOOSE x \in Active(n) : TRUE]]
        BY <1>1 DEF EntryOf
    <2>6. QED
        BY <2>1, <2>3, <2>4, <2>5 DEF Once!Entry
<1>2. CASE ~\E d \in Active(n) : op[d] = "put" /\ alone[d]
    BY <1>2 DEF EntryOf, Once!Bare
<1>3. QED
    BY <1>1, <1>2

Same(n) == Active(n)' = Active(n) /\ EntryOf(n)' = EntryOf(n)

\* An entry stands as before when those at work on it are the same, or when
\* there is nobody and what is stored has not changed.
LEMMA EntryKept ==
    ASSUME NEW n \in Names, Active(n)' = Active(n),
           \A d \in Active(n) : op'[d] = op[d] /\ alone'[d] = alone[d] /\ payload'[d] = payload[d],
           Active(n) = {} => bin'[n] = bin[n],
           Active(n) = {} /\ bin[n] # Absent =>
               ReadBack(n)' = ReadBack(n) /\ payload'[bin[n]] = payload[bin[n]]
    PROVE  Same(n)
<1>1. CASE Active(n) # {}
    <2>1. (\E d \in Active(n)' : op'[d] = "put" /\ alone'[d])
              <=> \E d \in Active(n) : op[d] = "put" /\ alone[d]
        OBVIOUS
    <2>2. PICK k : k = CHOOSE d \in Active(n) : TRUE
        OBVIOUS
    <2>3. k \in Active(n) /\ payload'[k] = payload[k]
        BY <1>1, <2>2
    <2>4. payload'[CHOOSE d \in Active(n)' : TRUE] = payload[CHOOSE d \in Active(n) : TRUE]
        BY <2>2, <2>3
    <2>5. CASE \E d \in Active(n) : op[d] = "put" /\ alone[d]
        <3>1. EntryOf(n) = [state |-> "writing", content |-> payload[CHOOSE d \in Active(n) : TRUE]]
            BY <1>1, <2>5 DEF EntryOf
        <3>2. EntryOf(n)' = [state |-> "writing",
                             content |-> payload'[CHOOSE d \in Active(n)' : TRUE]]
            BY <1>1, <2>1, <2>5 DEF EntryOf
        <3>3. QED
            BY <2>4, <3>1, <3>2 DEF Same
    <2>6. CASE ~\E d \in Active(n) : op[d] = "put" /\ alone[d]
        <3>1. EntryOf(n) = [state |-> "shared"] /\ EntryOf(n)' = [state |-> "shared"]
            BY <1>1, <2>1, <2>6 DEF EntryOf
        <3>2. QED
            BY <3>1 DEF Same
    <2>7. QED
        BY <2>5, <2>6
<1>2. CASE Active(n) = {} /\ bin[n] = Absent
    BY <1>2 DEF EntryOf, Same
<1>3. CASE Active(n) = {} /\ bin[n] # Absent
    <2>1. Whole(n)' = Whole(n)
        BY <1>3 DEF Whole
    <2>2. CASE Whole(n) = {}
        BY <1>3, <2>1, <2>2 DEF EntryOf, Same
    <2>3. CASE Whole(n) # {}
        <3>1. (CHOOSE c \in Whole(n) : TRUE) = bin[n]
            BY <2>3 DEF Whole
        <3>2. EntryOf(n) = [state |-> "whole", content |-> payload[CHOOSE c \in Whole(n) : TRUE]]
            BY <1>3, <2>3 DEF EntryOf
        <3>3. EntryOf(n)' = [state |-> "whole", content |-> payload'[CHOOSE c \in Whole(n)' : TRUE]]
            BY <1>3, <2>1, <2>3 DEF EntryOf
        <3>4. (CHOOSE c \in Whole(n)' : TRUE) = bin[n]
            BY <2>1, <3>1
        <3>5. EntryOf(n)' = [state |-> "whole", content |-> payload'[bin[n]]]
            BY <3>3, <3>4
        <3>6. EntryOf(n) = [state |-> "whole", content |-> payload[bin[n]]]
            BY <3>1, <3>2
        <3>7. QED
            BY <1>3, <3>5, <3>6 DEF Same
    <2>4. QED
        BY <2>2, <2>3
<1>4. QED
    BY <1>1, <1>2, <1>3

\* A step on one name leaves the entries of the others as they are.
LEMMA OthersSame ==
    ASSUME ObjectsInv, NEW c \in Calls, WorksOn(c), NEW n \in Names, n # name[c]
    PROVE  Same(n)
<1>1. UNCHANGED <<algo, op, name, payload, alone>> /\ name[c] \in Names
    BY DEF WorksOn, ObjectsInv, ShapeOK
<1>2. PICK label \in Labels : pc' = [pc EXCEPT ![c] = label]
    BY DEF WorksOn
<1>3. Active(n)' = Active(n)
    BY <1>1, <1>2 DEF Active, ObjectsInv, ShapeOK
<1>4. bin'[n] = bin[n]
    BY <1>1 DEF WorksOn, ObjectsInv, ShapeOK
<1>5. ASSUME Active(n) = {}, bin[n] # Absent PROVE ReadBack(n)' = ReadBack(n)
    <2>1. StaysAt(n)
        <3>1. UNCHANGED bin \/ \E e : bin' = [bin EXCEPT ![name[c]] = e]
            BY DEF WorksOn
        <3>2. QED
            BY <1>1, <1>2, <1>5, <3>1, WritesItsOwn DEF WorksOn
    <2>2. QED
        BY <1>1, <2>1 DEF StaysAt, ReadBack, Get, getVaultElement
<1>6. QED
    BY <1>1, <1>3, <1>4, <1>5, EntryKept

\* Until it returns, a call leaves its own entry as it is, too.
LEMMA GoesOnSame ==
    ASSUME ObjectsInv, NEW c \in Calls, WorksOn(c), pc'[c] # "done", NEW n \in Names
    PROVE  Same(n)
<1>1. CASE n # name[c]
    BY <1>1, OthersSame
<1>2. CASE n = name[c]
    <2>1. UNCHANGED <<op, name, payload, alone>> /\ c \in Active(n)
        BY <1>2 DEF WorksOn, Active
    <2>2. PICK label \in Labels : pc' = [pc EXCEPT ![c] = label]
        BY DEF WorksOn
    <2>3. pc[c] # "done" /\ \A d \in Calls : pc'[d] # "done" <=> pc[d] # "done"
        BY <2>2 DEF WorksOn, ObjectsInv, ShapeOK
    <2>4. Active(n)' = Active(n)
        BY <2>1, <2>3 DEF Active
    <2>5. QED
        BY <2>1, <2>4, EntryKept
<1>3. QED
    BY <1>1, <1>2

LEMMA AllSame ==
    ASSUME \A n \in Names : Same(n) PROVE UNCHANGED <<entry, busy>>
BY DEF Same, entry, busy

\* A step of one entry, in which only its workers and its state change.
LEMMA OnlyOne ==
    ASSUME NEW n \in Names, \A m \in Names \ {n} : Same(m)
    PROVE  /\ entry' = [entry EXCEPT ![n] = EntryOf(n)']
           /\ busy' = [busy EXCEPT ![n] = Active(n)']
           /\ entry[n] = EntryOf(n) /\ busy[n] = Active(n)
<1>1. \A m \in Names \ {n} : EntryOf(m)' = EntryOf(m) /\ Active(m)' = Active(m)
    BY DEF Same
<1>2. entry' = [m \in Names |-> EntryOf(m)'] /\ busy' = [m \in Names |-> Active(m)']
    BY DEF entry, busy
<1>3. QED
    BY <1>1, <1>2 DEF entry, busy

\* The states in which an entry settles.
LEMMA SettlesAs ==
    ASSUME ObjectsInv', OnceInv', NEW n \in Names, Active(n)' = {}
    PROVE  EntryOf(n)' \in Once!Settled
<1>1. CASE EntryOf(n)' \in {Once!Bare("none"), Once!Bare("broken")}
    BY <1>1 DEF Once!Settled
<1>2. CASE bin'[n] \in Calls /\ EntryOf(n)' = Once!Entry("whole", payload'[bin'[n]])
    <2>1. op'[bin'[n]] = "put"
        BY <1>2, VaultAssumption DEF ObjectsInv, Owned
    <2>2. payload'[bin'[n]] \in {u.payload : u \in Uploads}
        BY <1>2, <2>1 DEF OnceInv, Loaded
    <2>3. QED
        BY <1>2, <2>2 DEF Once!Settled
<1>3. QED
    BY <1>1, <1>2, NobodyThere

\* A name that one Put had to itself has its binary, or none, and so settles as
\* what that Put was given, as something broken, or as nothing.
LEMMA Outcome ==
    ASSUME ObjectsInv, ReadInv, OnceInv, ObjectsInv', OnceInv', NEW n \in Names,
           Active(n) # {}, Active(n)' = {}, UNCHANGED <<bin, payload>>
    PROVE  EntryOf(n)' \in Once!Outcomes(EntryOf(n))
<1>1. PICK c \in Active(n) : TRUE
    OBVIOUS
<1>2. EntryOf(n)' \in Once!Settled
    BY SettlesAs
<1>3. CASE EntryOf(n) = Once!Bare("shared")
    BY <1>2, <1>3 DEF Once!Outcomes, Once!Bare
<1>4. CASE /\ op[c] = "put" /\ alone[c]
           /\ EntryOf(n) = Once!Entry("writing", payload[c])
    <2>1. bin[n] \in {Absent, c}
        BY <1>4 DEF Active, OnceInv, OwnBin
    <2>2. EntryOf(n)' \in {Once!Bare("none"), Once!Bare("broken"), Once!Entry("whole", payload[c])}
        BY <2>1, NobodyThere, VaultAssumption
    <2>3. QED
        BY <1>4, <2>2 DEF Once!Outcomes, Once!Entry
<1>5. QED
    BY <1>1, <1>3, <1>4, AtWork

LEMMA StepReturns ==
    ASSUME ObjectsInv, ReadInv, OnceInv, ObjectsInv', OnceInv',
           NEW c \in Calls, WorksOn(c), pc'[c] = "done"
    PROVE  \E e \in Once!Settled \cup {Once!Bare("shared")} : Once!EndCall(name[c], c, e)
<1>1. PICK n \in Names : n = name[c]
    BY DEF ObjectsInv, ShapeOK
<1>2. c \in Active(n) /\ UNCHANGED <<algo, op, name, payload, alone, bin>>
    BY <1>1 DEF WorksOn, Active
<1>3. \A m \in Names \ {n} : Same(m)
    BY <1>1, OthersSame
<1>4. Active(n)' = Active(n) \ {c}
    <2>1. PICK label \in Labels : pc' = [pc EXCEPT ![c] = label]
        BY DEF WorksOn
    <2>2. \A d \in Calls \ {c} : pc'[d] = pc[d]
        BY <2>1 DEF ObjectsInv, ShapeOK
    <2>3. QED
        BY <1>2, <2>2 DEF Active
<1>5. /\ entry' = [entry EXCEPT ![n] = EntryOf(n)']
      /\ busy' = [busy EXCEPT ![n] = Active(n)']
      /\ entry[n] = EntryOf(n) /\ busy[n] = Active(n)
    BY <1>3, OnlyOne
<1>6. CASE Active(n) = {c}
    <2>1. Active(n) # {} /\ Active(n)' = {}
        BY <1>4, <1>6
    <2>2. EntryOf(n)' \in Once!Outcomes(EntryOf(n))
        BY <1>2, <2>1, Outcome
    <2>3. EntryOf(n)' \in Once!Settled
        BY <2>1, SettlesAs
    <2>4. Once!EndCall(n, c, EntryOf(n)')
        BY <1>2, <1>4, <1>5, <1>6, <2>2 DEF Once!EndCall
    <2>5. QED
        BY <1>1, <2>3, <2>4
<1>7. CASE Active(n) # {c}
    <2>1. PICK d \in Active(n) : d # c
        BY <1>2, <1>7
    <2>2. \A x \in Active(n)' : op'[x] = "put" => ~alone'[x]
        BY <1>2, <1>4, <2>1 DEF Active, ReadInv, Solo
    <2>3. Active(n)' # {}
        BY <1>4, <2>1
    <2>4. EntryOf(n)' = Once!Bare("shared")
        BY <2>2, <2>3, Together
    <2>5. Once!EndCall(n, c, EntryOf(n)')
        BY <1>2, <1>4, <1>5, <1>7, <2>4 DEF Once!EndCall
    <2>6. QED
        BY <1>1, <2>4, <2>5
<1>8. QED
    BY <1>6, <1>7

LEMMA StepWorks ==
    ASSUME ObjectsInv, ReadInv, OnceInv, ObjectsInv', OnceInv', NEW c \in Calls, WorksOn(c)
    PROVE  Once!OnceNext \/ UNCHANGED <<entry, busy>>
<1>1. CASE pc'[c] # "done"
    BY <1>1, GoesOnSame, AllSame
<1>2. CASE pc'[c] = "done"
    BY <1>2, StepReturns DEF Once!OnceNext, ObjectsInv, ShapeOK
<1>3. QED
    BY <1>1, <1>2

LEMMA StepBegins ==
    ASSUME ObjectsInv, TypesInv, ReadInv, OnceInv, NEW c \in Calls, NEW n \in Names,
           (\E u \in Uploads : CallPut(c, n, u)) \/ CallRemove(c, n)
    PROVE  Once!OnceNext \/ UNCHANGED <<entry, busy>>
<1>1. /\ op[c] = "none" /\ pc[c] = "done" /\ name'[c] = n
      /\ UNCHANGED <<algo, element, meta, bin, content>>
      /\ \A d \in Calls \ {c} : /\ op'[d] = op[d] /\ name'[d] = name[d] /\ pc'[d] = pc[d]
                                /\ payload'[d] = payload[d]
      /\ op'[c] = "put" => payload'[c] \in {u.payload : u \in Uploads}
    <2>1. op[c] = "none" /\ pc[c] = "done" /\ name'[c] = n
        BY Begins
    <2>2. UNCHANGED <<algo, element, meta, bin, content>>
        BY Begins
    <2>3. \A d \in Calls \ {c} : /\ op'[d] = op[d] /\ name'[d] = name[d] /\ pc'[d] = pc[d]
                                 /\ payload'[d] = payload[d]
        BY Begins
    <2>4. op'[c] = "put" => payload'[c] \in {u.payload : u \in Uploads}
        BY Begins
    <2>5. QED
        BY <2>1, <2>2, <2>3, <2>4
<1>2. \A m \in Names : c \notin Active(m)
    BY <1>1 DEF Active
<1>3. ASSUME NEW m \in Names, Active(m)' = Active(m),
             \A d \in Active(m) : alone'[d] = alone[d]
      PROVE  Same(m)
    <2>1. \A d \in Active(m) : op'[d] = op[d] /\ payload'[d] = payload[d]
        BY <1>1, <1>2 DEF Active
    <2>2. ReadBack(m)' = ReadBack(m)
        BY <1>1 DEF ReadBack, Get, getVaultElement
    <2>3. bin[m] # Absent => payload'[bin[m]] = payload[bin[m]]
        <3>1. bin[m] # Absent => bin[m] \in Calls \ {c}
            BY <1>1 DEF ObjectsInv, ShapeOK, Owned
        <3>2. QED
            BY <1>1, <3>1
    <2>4. QED
        BY <1>1, <1>3, <2>1, <2>2, <2>3, EntryKept
<1>4. CASE pc'[c] = "done" /\ UNCHANGED alone
    <2>1. ASSUME NEW m \in Names PROVE Same(m)
        <3>1. Active(m)' = Active(m)
            BY <1>1, <1>4 DEF Active
        <3>2. QED
            BY <1>3, <1>4, <3>1
    <2>2. QED
        BY <2>1, AllSame
<1>5. ASSUME Enter(c, n), pc'[c] # "done", op'[c] \in {"put", "remove"},
             op'[c] = "put" => bin[n] = Absent \/ faults' = faults + 1
      PROVE  Once!OnceNext
    <2>1. /\ \A d \in Calls \ {c} : name[d] # n => alone'[d] = alone[d]
          /\ \A d \in Calls \ {c} : name[d] = n => ~alone'[d]
          /\ alone'[c] <=> Active(n) = {} /\ bin[n] = Absent
        BY <1>5 DEF Enter, TypesInv
    <2>2. ASSUME NEW m \in Names \ {n} PROVE Same(m)
        <3>1. Active(m)' = Active(m)
            BY <1>1, <2>2 DEF Active
        <3>2. \A d \in Active(m) : alone'[d] = alone[d]
            BY <1>2, <2>1, <2>2 DEF Active
        <3>3. QED
            BY <1>3, <3>1, <3>2
    <2>3. Active(n)' = Active(n) \cup {c}
        BY <1>1, <1>5 DEF Active
    <2>4. /\ entry' = [entry EXCEPT ![n] = EntryOf(n)']
          /\ busy' = [busy EXCEPT ![n] = busy[n] \cup {c}]
          /\ entry[n] = EntryOf(n) /\ busy[n] = Active(n) /\ c \notin busy[n]
        BY <1>2, <2>2, <2>3, OnlyOne
    <2>5. Once!Enter(n, c, EntryOf(n)')
        BY <2>4 DEF Once!Enter
    <2>6. CASE op'[c] = "put" /\ Active(n) = {} /\ bin[n] = Absent
        <3>1. EntryOf(n) = Once!Bare("none")
            BY <1>5, <2>6, NothingThere
        <3>2. EntryOf(n)' = Once!Entry("writing", payload'[c])
            <4>1. Active(n)' = {c} /\ alone'[c]
                BY <2>1, <2>3, <2>6
            <4>2. QED
                BY <2>6, <4>1, OneAlone
        <3>3. Once!BeginPut(n, c, payload'[c])
            <4>1. busy[n] = {} /\ entry[n] = Once!Bare("none")
                BY <2>4, <2>6, <3>1
            <4>2. Once!Enter(n, c, Once!Entry("writing", payload'[c]))
                BY <2>5, <3>2
            <4>3. QED
                BY <2>6, <4>1, <4>2 DEF Once!BeginPut
        <3>4. QED
            BY <1>1, <2>6, <3>3 DEF Once!OnceNext
    <2>7. CASE ~(op'[c] = "put" /\ Active(n) = {} /\ bin[n] = Absent)
        <3>1. EntryOf(n)' = Once!Bare("shared")
            <4>1. ASSUME NEW d \in Active(n)', op'[d] = "put" PROVE ~alone'[d]
                <5>1. CASE d = c
                    BY <2>1, <2>7, <4>1, <5>1
                <5>2. CASE d # c
                    BY <2>1, <2>3, <5>2 DEF Active
                <5>3. QED
                    BY <5>1, <5>2
            <4>2. QED
                BY <2>3, <4>1, Together
        <3>2. CASE op'[c] = "remove"
            <4>1. Once!BeginRemove(n, c)
                BY <2>5, <3>1, <3>2 DEF Once!BeginRemove
            <4>2. QED
                BY <4>1 DEF Once!OnceNext
        <3>3. CASE op'[c] = "put"
            <4>1. \/ busy[n] # {}
                  \/ faults' # faults /\ entry[n] # Once!Bare("none")
                <5>1. CASE Active(n) # {}
                    BY <2>4, <5>1
                <5>2. CASE Active(n) = {}
                    <6>1. bin[n] # Absent /\ faults' = faults + 1 /\ faults \in Nat
                        BY <1>5, <2>7, <3>3, <5>2 DEF OnceInv
                    <6>2. entry[n] # Once!Bare("none")
                        BY <2>4, <5>2, <6>1, SomethingThere
                    <6>3. QED
                        BY <6>1, <6>2
                <5>3. QED
                    BY <5>1, <5>2
            <4>2. Once!BeginPut(n, c, payload'[c])
                BY <2>5, <3>1, <3>3, <4>1 DEF Once!BeginPut
            <4>3. QED
                BY <1>1, <3>3, <4>2 DEF Once!OnceNext
        <3>4. QED
            BY <1>5, <3>2, <3>3
    <2>8. QED
        BY <2>6, <2>7
<1>6. \/ pc'[c] = "done" /\ UNCHANGED alone
      \/ /\ Enter(c, n) /\ pc'[c] = "element" /\ op'[c] = "put"
         /\ bin[n] = Absent \/ faults' = faults + 1
      \/ Enter(c, n) /\ pc'[c] = "removeBin" /\ op'[c] = "remove"
    BY Begins
<1>7. QED
    BY <1>4, <1>5, <1>6

LEMMA StepCrashes ==
    ASSUME ObjectsInv, ReadInv, OnceInv, ObjectsInv', OnceInv', Crash
    PROVE  Once!CrashAll
<1>1. /\ pc' = [c \in Calls |-> "done"]
      /\ UNCHANGED <<algo, op, name, payload, alone, element, meta, bin, content>>
    BY DEF Crash, config, objects, frame
<1>2. \A n \in Names : Active(n)' = {}
    BY <1>1 DEF Active
<1>3. \A n \in Names : EntryOf(n)' \in Once!Settled
    BY <1>2, SettlesAs
<1>4. ASSUME NEW n \in Names, Active(n) = {} PROVE EntryOf(n)' = EntryOf(n)
    <2>1. ReadBack(n)' = ReadBack(n) /\ Active(n)' = Active(n)
        BY <1>1, <1>2, <1>4 DEF ReadBack, Get, getVaultElement
    <2>2. Same(n)
        BY <1>1, <1>4, <2>1, EntryKept
    <2>3. QED
        BY <2>2 DEF Same
<1>5. ASSUME NEW n \in Names, Active(n) # {}
      PROVE  EntryOf(n)' \in Once!Outcomes(EntryOf(n))
    BY <1>1, <1>2, <1>5, Outcome
<1>6. busy' = [n \in Names |-> {}] /\ \A n \in Names : busy[n] = Active(n)
    BY <1>2 DEF busy
<1>7. entry' \in [Names -> Once!Settled]
    BY <1>3 DEF entry
<1>8. \A n \in Names : entry'[n] = EntryOf(n)' /\ entry[n] = EntryOf(n)
    BY DEF entry
<1>9. QED
    BY <1>4, <1>5, <1>6, <1>7, <1>8 DEF Once!CrashAll

LEMMA InitMapsOnce ==
    ASSUME VaultInit PROVE Once!OnceInit
BY DEF VaultInit, Once!OnceInit, entry, busy, EntryOf, Active, Once!Bare

LEMMA StepMapsOnce ==
    ASSUME ObjectsInv, TypesInv, ReadInv, OnceInv, ObjectsInv', OnceInv', [VaultNext]_vars
    PROVE  [Once!OnceNext]_Once!onceVars
<1>1. ASSUME NEW c \in Calls, NEW n \in Names,
             (\E u \in Uploads : CallPut(c, n, u)) \/ CallRemove(c, n)
      PROVE  Once!OnceNext \/ UNCHANGED <<entry, busy>>
    BY <1>1, StepBegins
<1>2. ASSUME NEW c \in Calls,
             \/ CreateVaultElement(c) \/ WriteMeta(c) \/ OpenBin(c) \/ CopyPiece(c)
             \/ Copied(c) \/ CopyFails(c) \/ UndoElement(c) \/ UndoMeta(c) \/ UndoBin(c)
             \/ CloseBin(c) \/ CloseMeta(c) \/ RemoveObjects(c)
      PROVE  Once!OnceNext \/ UNCHANGED <<entry, busy>>
    BY <1>2, WritesItsName, ClosesItsName, StepWorks
<1>3. ASSUME Crash PROVE Once!OnceNext
    BY <1>3, StepCrashes DEF Once!OnceNext
<1>4. ASSUME UNCHANGED vars PROVE UNCHANGED <<entry, busy>>
    <2>1. UNCHANGED <<algo, element, meta, bin, content, op, pc, name, payload, alone>>
        BY <1>4 DEF vars, config, objects, frame, ghosts
    <2>2. ASSUME NEW n \in Names PROVE Same(n)
        <3>1. Active(n)' = Active(n) /\ ReadBack(n)' = ReadBack(n)
            BY <2>1 DEF Active, ReadBack, Get, getVaultElement
        <3>2. \A d \in Active(n) :
                 op'[d] = op[d] /\ alone'[d] = alone[d] /\ payload'[d] = payload[d]
            BY <2>1
        <3>3. bin'[n] = bin[n] /\ payload'[bin[n]] = payload[bin[n]]
            BY <2>1
        <3>4. QED
            BY <3>1, <3>2, <3>3, EntryKept
    <2>3. QED
        BY <2>2, AllSame
<1>5. Once!OnceNext \/ UNCHANGED <<entry, busy>>
    BY <1>1, <1>2, <1>3, <1>4 DEF VaultNext
<1>6. QED
    BY <1>5 DEF Once!onceVars

\* The vault is WriteOnce, for any number of calls and names, on both drivers:
\* whichever calls meet, fail or are cut off by a crash, an entry that one Put
\* has to itself holds what that Put was given, or is broken, or is not there,
\* and a settled one is touched only by removals, or by a Put whose look at it
\* failed (Put and Remove of vault.go).
THEOREM VaultImplementsWriteOnce == VaultSpec => ImplementsWriteOnce
<1>1. VaultInit => Once!OnceInit
    BY InitMapsOnce
<1>2. ObjectsInv /\ TypesInv /\ ReadInv /\ OnceInv /\ ObjectsInv' /\ OnceInv' /\ [VaultNext]_vars
          => [Once!OnceNext]_Once!onceVars
    BY StepMapsOnce
<1>3. QED
    BY <1>1, <1>2, ObjectsInvariant, TypesInvariant, ReadInvariant, OnceInvariant, PTL
       DEF VaultSpec, ImplementsWriteOnce, Once!OnceSpec

=============================================================================
