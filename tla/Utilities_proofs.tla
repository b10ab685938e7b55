--------------------------- MODULE Utilities_proofs ---------------------------
(* Two of the utilities: a MsgBuffer is a queue of bytes, for buffers, chunks   *)
(* and offsets of any size, and a ConcurrentTaskQueue has every task taken once, *)
(* for any number of workers, users and tasks.                                   *)
EXTENDS MsgBuffer, ConcurrentTaskQueue, SequenceTheorems, FiniteSetTheorems, TLAPS

-----------------------------------------------------------------------------
(* MsgBuffer: the bytes between two places of a vector                       *)

\* Vectors of n bytes
Vectors(n) == [0 .. n - 1 -> Byte]

\* The bytes of buf from h up to t
Slice(buf, h, t) == [i \in 1 .. t - h |-> buf[h + i - 1]]

LEMMA SliceLemma ==
  ASSUME NEW n \in Nat, NEW h \in Nat, NEW t \in Nat, h <= t, t <= n
  PROVE  \A buf \in Vectors(n) :
           /\ Slice(buf, h, t) \in Seq(Byte)
           /\ Len(Slice(buf, h, t)) = t - h
           /\ \A i \in 1 .. t - h : Slice(buf, h, t)[i] = buf[h + i - 1]
<1> TAKE buf \in Vectors(n)
<1> DEFINE k == t - h
<1>1. k \in Nat
  OBVIOUS
<1>2. \A i \in 1 .. k : h + i - 1 \in 0 .. n - 1
  OBVIOUS
<1>3. Slice(buf, h, t) \in [1 .. k -> Byte]
  BY Zenon, <1>2 DEF Slice, Vectors
<1>4. \A i \in 1 .. k : Slice(buf, h, t)[i] = buf[h + i - 1]
  BY Zenon DEF Slice
<1> HIDE DEF k
<1>5. Slice(buf, h, t) \in Seq(Byte) /\ Len(Slice(buf, h, t)) = k
  BY <1>1, <1>3
<1> QED
  BY Zenon, <1>4, <1>5 DEF k

\* Two sequences with the same length and elements are equal.
LEMMA SameSeq ==
  ASSUME NEW s \in Seq(Byte), NEW r \in Seq(Byte), Len(s) = Len(r),
         \A i \in 1 .. Len(s) : s[i] = r[i]
  PROVE  s = r
BY Zenon, SeqEqual

LEMMA WrittenLemma ==
  ASSUME NEW n \in Nat, NEW buf \in Vectors(n), NEW at \in Nat, NEW s \in Seq(Byte)
  PROVE  /\ Written(buf, n, at, s) \in Vectors(n)
         /\ \A j \in 0 .. n - 1 :
              Written(buf, n, at, s)[j] =
                IF at <= j /\ j < at + Len(s) THEN s[j - at + 1] ELSE buf[j]
<1>1. ASSUME NEW j \in 0 .. n - 1, at <= j, j < at + Len(s)
      PROVE  s[j - at + 1] \in Byte
  <2>1. j - at + 1 \in 1 .. Len(s)
    BY <1>1
  <2> QED
    BY Zenon, <2>1, ElementOfSeq
<1> QED
  BY Zenon, <1>1 DEF Written, Vectors

LEMMA FreshLemma ==
  ASSUME NEW n \in Nat, NEW s \in Seq(Byte)
  PROVE  /\ Fresh(n, s) \in Vectors(n)
         /\ \A j \in 0 .. n - 1 :
              Fresh(n, s)[j] =
                IF kBufferOffset <= j /\ j < kBufferOffset + Len(s)
                  THEN s[j - kBufferOffset + 1] ELSE 0
<1>1. ASSUME NEW j \in 0 .. n - 1, kBufferOffset <= j, j < kBufferOffset + Len(s)
      PROVE  s[j - kBufferOffset + 1] \in Byte
  <2>1. j - kBufferOffset + 1 \in 1 .. Len(s)
    BY <1>1, SizesAssumption
  <2> QED
    BY Zenon, <2>1, ElementOfSeq
<1> QED
  BY Zenon, <1>1, ChunksAssumption DEF Fresh, Vectors

\* What is written can be read.
LEMMA ReadBack ==
  ASSUME NEW n \in Nat, NEW buf \in Vectors(n), NEW at \in Nat, NEW s \in Seq(Byte),
         at + Len(s) <= n
  PROVE  Slice(Written(buf, n, at, s), at, at + Len(s)) = s
<1>1. Len(s) \in Nat
  OBVIOUS
<1>2. PICK w \in Vectors(n) : w = Written(buf, n, at, s)
  BY Zenon, WrittenLemma
<1>3. ASSUME NEW i \in 1 .. Len(s)
      PROVE  w[at + i - 1] = s[i]
  <2>1. PICK j \in 0 .. n - 1 : j = at + i - 1
    BY <1>1
  <2>2. at <= j /\ j < at + Len(s) /\ j - at + 1 = i
    BY <1>1, <2>1
  <2>3. w[j] = IF at <= j /\ j < at + Len(s) THEN s[j - at + 1] ELSE buf[j]
    BY ZenonT(30), <1>2, WrittenLemma
  <2> QED
    BY <2>1, <2>2, <2>3, Zenon
<1>4. /\ Slice(w, at, at + Len(s)) \in Seq(Byte)
      /\ Len(Slice(w, at, at + Len(s))) = Len(s)
      /\ \A i \in 1 .. Len(s) : Slice(w, at, at + Len(s))[i] = w[at + i - 1]
  <2>1. PICK m \in Nat : m = at + Len(s) /\ at <= m /\ m <= n /\ m - at = Len(s)
    BY <1>1
  <2>2. at <= m /\ m <= n
    BY Zenon, <2>1
  <2>3. \A b \in Vectors(n) :
          /\ Slice(b, at, m) \in Seq(Byte)
          /\ Len(Slice(b, at, m)) = m - at
          /\ \A i \in 1 .. m - at : Slice(b, at, m)[i] = b[at + i - 1]
    BY ZenonT(30), <2>2, SliceLemma
  <2> QED
    BY <2>1, <2>3, Zenon
<1> QED
  BY Zenon, <1>3, <1>4, SameSeq, <1>1, <1>2

LEMMA ReadFresh ==
  ASSUME NEW n \in Nat, NEW s \in Seq(Byte), kBufferOffset + Len(s) <= n
  PROVE  Slice(Fresh(n, s), kBufferOffset, kBufferOffset + Len(s)) = s
<1>1. PICK at \in Nat : at = kBufferOffset /\ Len(s) \in Nat
  BY SizesAssumption
<1>2. PICK w \in Vectors(n) : w = Fresh(n, s)
  BY Zenon, FreshLemma
<1>3. ASSUME NEW i \in 1 .. Len(s)
      PROVE  w[at + i - 1] = s[i]
  <2>1. PICK j \in 0 .. n - 1 : j = at + i - 1
    BY <1>1
  <2>2. at <= j /\ j < at + Len(s) /\ j - at + 1 = i
    BY <1>1, <2>1
  <2>3. w[j] = IF at <= j /\ j < at + Len(s) THEN s[j - at + 1] ELSE 0
    BY Zenon, <1>1, <1>2, FreshLemma
  <2> QED
    BY <2>1, <2>2, <2>3, Zenon
<1>4. /\ Slice(w, at, at + Len(s)) \in Seq(Byte)
      /\ Len(Slice(w, at, at + Len(s))) = Len(s)
      /\ \A i \in 1 .. Len(s) : Slice(w, at, at + Len(s))[i] = w[at + i - 1]
  <2>1. PICK m \in Nat : m = at + Len(s) /\ at <= m /\ m <= n /\ m - at = Len(s)
    BY <1>1
  <2>2. at <= m /\ m <= n
    BY Zenon, <2>1
  <2>3. \A b \in Vectors(n) :
          /\ Slice(b, at, m) \in Seq(Byte)
          /\ Len(Slice(b, at, m)) = m - at
          /\ \A i \in 1 .. m - at : Slice(b, at, m)[i] = b[at + i - 1]
    BY ZenonT(30), <2>2, SliceLemma
  <2> QED
    BY <2>1, <2>3, Zenon
<1> QED
  BY ZenonT(30), <1>3, <1>4, SameSeq, <1>1, <1>2

\* A part of a vector is the sequence with its length and its elements.
LEMMA SliceIs ==
  ASSUME NEW n \in Nat, NEW h \in Nat, NEW t \in Nat, h <= t, t <= n,
         NEW w \in Vectors(n), NEW q \in Seq(Byte), Len(q) = t - h,
         \A i \in 1 .. t - h : w[h + i - 1] = q[i]
  PROVE  Slice(w, h, t) = q
<1>1. \A b \in Vectors(n) :
        /\ Slice(b, h, t) \in Seq(Byte)
        /\ Len(Slice(b, h, t)) = t - h
        /\ \A i \in 1 .. t - h : Slice(b, h, t)[i] = b[h + i - 1]
  BY ZenonT(30), SliceLemma
<1>2. PICK r \in Seq(Byte) : r = Slice(w, h, t)
  BY Zenon, <1>1
<1>3. Len(r) = Len(q) /\ \A i \in 1 .. Len(r) : r[i] = q[i]
  BY Zenon, <1>1, <1>2
<1> QED
  BY Zenon, <1>2, <1>3, SameSeq

LEMMA ConcatLemma ==
  ASSUME NEW a \in Seq(Byte), NEW b \in Seq(Byte)
  PROVE  /\ a \o b \in Seq(Byte)
         /\ Len(a \o b) = Len(a) + Len(b)
         /\ \A i \in 1 .. Len(a) + Len(b) :
              (a \o b)[i] = IF i <= Len(a) THEN a[i] ELSE b[i - Len(a)]
BY Zenon, ConcatProperties

\* What is written behind the bytes is at their end.
LEMMA WriteBehind ==
  ASSUME NEW n \in Nat, NEW buf \in Vectors(n), NEW h \in Nat, NEW t \in Nat,
         NEW s \in Seq(Byte), h <= t, t + Len(s) <= n
  PROVE  Slice(Written(buf, n, t, s), h, t + Len(s)) = Slice(buf, h, t) \o s
<1>1. PICK m \in Nat : m = t + Len(s) /\ h <= m /\ m <= n /\ t <= n
  OBVIOUS
<1>2. PICK w \in Vectors(n) :
        /\ w = Written(buf, n, t, s)
        /\ \A j \in 0 .. n - 1 :
             w[j] = IF t <= j /\ j < t + Len(s) THEN s[j - t + 1] ELSE buf[j]
  BY ZenonT(30), WrittenLemma
<1>3. PICK r \in Seq(Byte) :
        /\ r = Slice(buf, h, t) /\ Len(r) = t - h
        /\ \A i \in 1 .. t - h : r[i] = buf[h + i - 1]
  <2>1. t <= n
    BY Zenon, <1>1
  <2>2. \A b \in Vectors(n) :
          /\ Slice(b, h, t) \in Seq(Byte)
          /\ Len(Slice(b, h, t)) = t - h
          /\ \A i \in 1 .. t - h : Slice(b, h, t)[i] = b[h + i - 1]
    BY ZenonT(30), <2>1, SliceLemma
  <2> QED
    BY <2>2, Zenon
<1>4. PICK q \in Seq(Byte) :
        /\ q = r \o s /\ Len(q) = Len(r) + Len(s)
        /\ \A i \in 1 .. Len(r) + Len(s) :
             q[i] = IF i <= Len(r) THEN r[i] ELSE s[i - Len(r)]
  BY Zenon, ConcatLemma
<1>5. Len(q) = m - h
  BY <1>1, <1>3, <1>4
<1>6. ASSUME NEW i \in 1 .. m - h
      PROVE  w[h + i - 1] = q[i]
  <2>1. PICK j \in 0 .. n - 1 : j = h + i - 1
    BY <1>1
  <2>2. CASE i <= t - h
    <3>1. w[j] = buf[j]
      BY <1>2, <2>1, <2>2
    <3>2. q[i] = r[i] /\ r[i] = buf[h + i - 1]
      BY <1>1, <1>3, <1>4, <2>2
    <3> QED
      BY <2>1, <3>1, <3>2, Zenon
  <2>3. CASE ~(i <= t - h)
    <3>1. w[j] = s[j - t + 1]
      <4>1. t <= j /\ j < t + Len(s)
        BY <1>1, <2>1, <2>3
      <4> QED
        BY <1>2, <4>1, Zenon
    <3>2. q[i] = s[i - (t - h)]
      BY SMTT(30), <1>1, <1>3, <1>4, <2>3
    <3>3. j - t + 1 = i - (t - h)
      BY <2>1
    <3> QED
      BY <2>1, <3>1, <3>2, <3>3, Zenon
  <2> QED
    BY Zenon, <2>2, <2>3
<1>7. h <= m /\ m <= n
  BY Zenon, <1>1
<1>8. Slice(w, h, m) = q
  <2>1. \A i \in 1 .. m - h : w[h + i - 1] = q[i]
    BY <1>6, Zenon
  <2> QED
    BY <1>5, <1>7, <2>1, SliceIs, Zenon
<1> QED
  BY <1>1, <1>2, <1>3, <1>4, <1>8, Zenon

\* What is written in front of the bytes is at their beginning.
LEMMA WriteInFront ==
  ASSUME NEW n \in Nat, NEW buf \in Vectors(n), NEW h \in Nat, NEW t \in Nat,
         NEW s \in Seq(Byte), h <= t, t <= n, Len(s) <= h
  PROVE  Slice(Written(buf, n, h - Len(s), s), h - Len(s), t)
           = s \o Slice(buf, h, t)
<1>1. PICK g \in Nat : g = h - Len(s) /\ g <= t /\ g + Len(s) = h
  OBVIOUS
<1>2. PICK w \in Vectors(n) :
        /\ w = Written(buf, n, g, s)
        /\ \A j \in 0 .. n - 1 :
             w[j] = IF g <= j /\ j < g + Len(s) THEN s[j - g + 1] ELSE buf[j]
  BY ZenonT(30), WrittenLemma
<1>3. PICK r \in Seq(Byte) :
        /\ r = Slice(buf, h, t) /\ Len(r) = t - h
        /\ \A i \in 1 .. t - h : r[i] = buf[h + i - 1]
  <2>1. \A b \in Vectors(n) :
          /\ Slice(b, h, t) \in Seq(Byte)
          /\ Len(Slice(b, h, t)) = t - h
          /\ \A i \in 1 .. t - h : Slice(b, h, t)[i] = b[h + i - 1]
    BY ZenonT(30), SliceLemma
  <2> QED
    BY <2>1, Zenon
<1>4. PICK q \in Seq(Byte) :
        /\ q = s \o r /\ Len(q) = Len(s) + Len(r)
        /\ \A i \in 1 .. Len(s) + Len(r) :
             q[i] = IF i <= Len(s) THEN s[i] ELSE r[i - Len(s)]
  BY Zenon, ConcatLemma
<1>5. Len(q) = t - g
  BY SMTT(30), <1>1, <1>3, <1>4
<1>6. ASSUME NEW i \in 1 .. t - g
      PROVE  w[g + i - 1] = q[i]
  <2>1. PICK j \in 0 .. n - 1 : j = g + i - 1
    <3>1. g + i - 1 \in 0 .. n - 1
      OBVIOUS
    <3> QED
      BY Zenon, <3>1
  <2>2. CASE i <= Len(s)
    <3>0. g <= j /\ j < g + Len(s)
      BY <1>1, <2>1, <2>2
    <3>1. w[j] = s[j - g + 1]
      BY Zenon, <1>2, <3>0
    <3>2. q[i] = s[i]
      BY <1>1, <1>3, <1>4, <2>2
    <3>3. j - g + 1 = i
      BY <2>1
    <3> QED
      BY <2>1, <3>1, <3>2, <3>3, Zenon
  <2>3. CASE ~(i <= Len(s))
    <3>0. ~(j < g + Len(s))
      BY <1>1, <2>1, <2>3
    <3>1. w[j] = buf[j]
      BY Zenon, <1>2, <3>0
    <3>2. PICK k \in 1 .. t - h : k = i - Len(s)
      BY SMTT(30), <1>1, <2>3
    <3>3. q[i] = r[k] /\ r[k] = buf[h + k - 1]
      BY <1>1, <1>3, <1>4, <2>3, <3>2
    <3>4. h + k - 1 = j
      BY <1>1, <2>1, <3>2
    <3> QED
      BY <2>1, <3>1, <3>3, <3>4, Zenon
  <2> QED
    BY Zenon, <2>2, <2>3
<1>7. Slice(w, g, t) = q
  <2>1. g <= t
    BY <1>1, Zenon
  <2>2. \A i \in 1 .. t - g : w[g + i - 1] = q[i]
    BY <1>6, Zenon
  <2> QED
    BY <1>5, <2>1, <2>2, SliceIs, ZenonT(30)
<1> QED
  BY <1>1, <1>2, <1>3, <1>4, <1>7, Zenon
-----------------------------------------------------------------------------
\* The inductive invariant: retrieveAll() shrinks the vector to initCap_ and puts
\* head_ and tail_ at kBufferOffset, so neither the vector nor initCap_ may be
\* shorter than that.
BufferInv ==
  /\ size \in Nat /\ head \in Nat /\ tail \in Nat /\ initCap \in Nat
  /\ buffer \in Vectors(size)
  /\ head <= tail /\ tail <= size
  /\ kBufferOffset <= initCap /\ kBufferOffset <= size

LEMMA DataIsSlice == Data = Slice(buffer, head, tail)
BY Zenon DEF Data, Slice

LEMMA DataType ==
  ASSUME BufferInv
  PROVE  Data \in Seq(Byte) /\ Len(Data) = tail - head
<1>1. \A b \in Vectors(size) :
        /\ Slice(b, head, tail) \in Seq(Byte)
        /\ Len(Slice(b, head, tail)) = tail - head
        /\ \A i \in 1 .. tail - head : Slice(b, head, tail)[i] = b[head + i - 1]
  BY ZenonT(30), SliceLemma DEF BufferInv
<1>2. buffer \in Vectors(size)
  BY Zenon DEF BufferInv
<1> QED
  BY <1>1, <1>2, DataIsSlice, Zenon

\* ensureWritableBytes() moves the bytes or not; either way they are followed by
\* what is written behind them.
LEMMA EnsureLemma ==
  ASSUME BufferInv, NEW b \in Vectors(size), NEW t \in Nat, head <= t, t <= size,
         NEW len \in Nat, NEW s \in Seq(Byte), Len(s) <= len,
         EnsureAndWrite(b, t, len, s)
  PROVE  BufferInv' /\ Data' = Slice(b, head, t) \o s
<1>1. PICK r \in Seq(Byte) : r = Slice(b, head, t) /\ Len(r) = t - head
  <2>1. head \in Nat /\ size \in Nat
    BY Zenon DEF BufferInv
  <2>2. \A c \in Vectors(size) :
          /\ Slice(c, head, t) \in Seq(Byte)
          /\ Len(Slice(c, head, t)) = t - head
          /\ \A i \in 1 .. t - head : Slice(c, head, t)[i] = c[head + i - 1]
    BY ZenonT(30), <2>1, SliceLemma
  <2> QED
    BY <2>2, Zenon
<1>2. Bytes(b, t) = r
  BY Zenon, <1>1 DEF Bytes, Slice
<1>3. PICK q \in Seq(Byte) : q = r \o s /\ Len(q) = (t - head) + Len(s)
  <2>1. r \o s \in Seq(Byte) /\ Len(r \o s) = Len(r) + Len(s)
    BY Zenon, ConcatLemma
  <2> QED
    BY Zenon, <1>1, <2>1
<1>4. Data' = Slice(buffer', head', tail')
  BY Zenon DEF Data, Slice
<1> USE SizesAssumption
<1>5. CASE /\ size - t >= len
           /\ buffer' = Written(b, size, t, s)
           /\ tail' = t + Len(s)
           /\ UNCHANGED <<size, head, initCap>>
  <2>1. size \in Nat /\ head \in Nat /\ t + Len(s) <= size /\ Len(s) \in Nat
    BY <1>5 DEF BufferInv
  <2>2. buffer' \in Vectors(size)
    BY Zenon, <1>5, <2>1, WrittenLemma
  <2>3. BufferInv'
    BY <1>5, <2>1, <2>2 DEF BufferInv
  <2>4. Slice(Written(b, size, t, s), head, t + Len(s)) = Slice(b, head, t) \o s
    BY SMTT(30), <2>1, WriteBehind
  <2> QED
    BY Zenon, <1>4, <1>5, <2>3, <2>4
<1>6. CASE /\ size - t < len /\ Movable(t, len)
           /\ buffer' = Written(b, size, kBufferOffset, Bytes(b, t) \o s)
           /\ head' = kBufferOffset
           /\ tail' = kBufferOffset + (t - head) + Len(s)
           /\ UNCHANGED <<size, initCap>>
  <2>1. /\ size \in Nat /\ head \in Nat /\ Len(s) \in Nat
        /\ kBufferOffset + Len(q) <= size
        /\ kBufferOffset + Len(q) = kBufferOffset + (t - head) + Len(s)
    BY <1>3, <1>6 DEF BufferInv, Movable
  <2>2. buffer' = Written(b, size, kBufferOffset, q)
    BY Zenon, <1>2, <1>3, <1>6
  <2>3. buffer' \in Vectors(size)
    BY Zenon, <2>1, <2>2, WrittenLemma
  <2>4. BufferInv'
    BY <1>6, <2>1, <2>3 DEF BufferInv
  <2>5. Slice(Written(b, size, kBufferOffset, q), kBufferOffset,
              kBufferOffset + Len(q)) = q
    BY Zenon, <2>1, ReadBack
  <2> QED
    BY Zenon, <1>1, <1>3, <1>4, <1>6, <2>1, <2>2, <2>4, <2>5
<1>7. CASE /\ size - t < len /\ ~Movable(t, len)
           /\ buffer' = Fresh(NewLen(t, len) + kBufferOffset, Bytes(b, t) \o s)
           /\ size' = NewLen(t, len) + kBufferOffset
           /\ head' = kBufferOffset
           /\ tail' = kBufferOffset + (t - head) + Len(s)
           /\ initCap' = NewLen(t, len)
  <2>1. PICK n \in Nat :
          /\ n = NewLen(t, len) + kBufferOffset
          /\ kBufferOffset + (t - head) + len <= n
          /\ NewLen(t, len) \in Nat /\ kBufferOffset <= NewLen(t, len)
    <3>1. PICK k \in Nat : k = t - head
      BY DEF BufferInv
    <3>2. /\ NewLen(t, len) \in Nat
          /\ kBufferOffset + k + len <= NewLen(t, len)
      BY <3>1 DEF BufferInv, NewLen
    <3> QED
      BY SMTT(30), <3>1, <3>2
  <2>2. /\ Len(s) \in Nat
        /\ kBufferOffset + Len(q) <= n
        /\ kBufferOffset + Len(q) = kBufferOffset + (t - head) + Len(s)
    BY SMTT(30), <1>3, <2>1 DEF BufferInv
  <2>3. buffer' = Fresh(n, q)
    BY Zenon, <1>2, <1>3, <1>7, <2>1
  <2>4. buffer' \in Vectors(n)
    BY Zenon, <2>3, FreshLemma
  <2>5. BufferInv'
    BY SMTT(30), <1>7, <2>1, <2>2, <2>4 DEF BufferInv
  <2>6. Slice(Fresh(n, q), kBufferOffset, kBufferOffset + Len(q)) = q
    BY Zenon, <2>2, ReadFresh
  <2> QED
    BY Zenon, <1>1, <1>3, <1>4, <1>7, <2>2, <2>3, <2>5, <2>6
<1> QED
  BY Zenon, <1>5, <1>6, <1>7 DEF EnsureAndWrite

LEMMA ChunkType ==
  ASSUME NEW s \in Chunks
  PROVE  s \in Seq(Byte) /\ Len(s) \in Nat
BY ChunksAssumption

LEMMA AppendStep ==
  ASSUME BufferInv, NEW s \in Chunks, DoAppend(s)
  PROVE  BufferInv' /\ Data' = Data \o s
<1>1. s \in Seq(Byte) /\ Len(s) \in Nat /\ Len(s) <= Len(s)
  BY ChunkType
<1>2. buffer \in Vectors(size) /\ tail \in Nat /\ head <= tail /\ tail <= size
  BY Zenon DEF BufferInv
<1>3. EnsureAndWrite(buffer, tail, Len(s), s)
  BY Zenon DEF DoAppend
<1> QED
  BY Zenon, <1>1, <1>2, <1>3, EnsureLemma, DataIsSlice

LEMMA EnsureStep ==
  ASSUME BufferInv, NEW len \in Lens, EnsureWritableBytes(len)
  PROVE  BufferInv' /\ Data' = Data
<1>1. len \in Nat /\ <<>> \in Seq(Byte) /\ Len(<<>>) <= len
  BY SizesAssumption
<1>2. buffer \in Vectors(size) /\ tail \in Nat /\ head <= tail /\ tail <= size
  BY Zenon DEF BufferInv
<1>3. EnsureAndWrite(buffer, tail, len, <<>>)
  BY Zenon DEF EnsureWritableBytes
<1>4. BufferInv' /\ Data' = Data \o <<>>
  BY Zenon, <1>1, <1>2, <1>3, EnsureLemma, DataIsSlice
<1>5. Data \o <<>> = Data
  BY Zenon, DataType, ConcatEmptySeq
<1> QED
  BY Zenon, <1>4, <1>5

LEMMA HasWrittenStep ==
  ASSUME BufferInv, NEW s \in Chunks, HasWritten(s)
  PROVE  BufferInv' /\ Data' = Data \o s
<1>1. s \in Seq(Byte) /\ Len(s) \in Nat
  BY Zenon, ChunkType
<1>2. /\ buffer \in Vectors(size) /\ size \in Nat /\ head \in Nat /\ tail \in Nat
      /\ head <= tail /\ tail + Len(s) <= size
  BY <1>1 DEF BufferInv, HasWritten, writableBytes
<1>3. Slice(Written(buffer, size, tail, s), head, tail + Len(s))
        = Slice(buffer, head, tail) \o s
  BY <1>1, <1>2, WriteBehind
<1>4. buffer' \in Vectors(size)
  BY Zenon, <1>1, <1>2, WrittenLemma DEF HasWritten
<1>5. BufferInv'
  BY <1>1, <1>2, <1>4 DEF BufferInv, HasWritten
<1>6. Data' = Slice(buffer', head', tail')
  BY Zenon DEF Data, Slice
<1> QED
  BY Zenon, <1>3, <1>5, <1>6, DataIsSlice DEF HasWritten

\* A sequence is its first n elements followed by the rest.
LEMMA FirstRest ==
  ASSUME NEW s \in Seq(Byte), NEW n \in Nat, n <= Len(s)
  PROVE  /\ First(s, n) \in Seq(Byte) /\ Len(First(s, n)) = n
         /\ Rest(s, n) \in Seq(Byte) /\ Len(Rest(s, n)) = Len(s) - n
         /\ First(s, n) \o Rest(s, n) = s
<1>1. PICK L \in Nat : L = Len(s)
  OBVIOUS
<1>2. \A i \in 1 .. L : s[i] \in Byte
  BY Zenon, <1>1, ElementOfSeq
<1>3. First(s, n) \in [1 .. n -> Byte] /\ \A i \in 1 .. n : First(s, n)[i] = s[i]
  BY <1>1, <1>2 DEF First
<1>4. PICK k \in Nat : k = L - n
  <2>1. n <= L
    BY Zenon, <1>1
  <2>2. L - n \in Nat
    BY <2>1
  <2> QED
    BY Zenon, <2>2
<1>5. \A i \in 1 .. k : n + i \in 1 .. L
  BY <1>1, <1>4
<1>6. Rest(s, n) \in [1 .. k -> Byte] /\ \A i \in 1 .. k : Rest(s, n)[i] = s[n + i]
  BY Zenon, <1>1, <1>2, <1>4, <1>5 DEF Rest
<1>7. PICK a \in Seq(Byte) :
        a = First(s, n) /\ Len(a) = n /\ \A i \in 1 .. n : a[i] = s[i]
  BY <1>3
<1>8. PICK b \in Seq(Byte) :
        b = Rest(s, n) /\ Len(b) = k /\ \A i \in 1 .. k : b[i] = s[n + i]
  BY <1>6
<1>9. PICK q \in Seq(Byte) :
        /\ q = a \o b /\ Len(q) = Len(a) + Len(b)
        /\ \A i \in 1 .. Len(a) + Len(b) :
             q[i] = IF i <= Len(a) THEN a[i] ELSE b[i - Len(a)]
  BY Zenon, ConcatLemma
<1>10. Len(q) = L
  BY <1>4, <1>7, <1>8, <1>9
<1>11. ASSUME NEW i \in 1 .. L
       PROVE  q[i] = s[i]
  <2>1. CASE i <= n
    BY SMTT(30), <1>4, <1>7, <1>8, <1>9, <2>1
  <2>2. CASE ~(i <= n)
    <3>1. PICK j \in 1 .. k : j = i - n /\ n + j = i
      BY <1>4, <2>2
    <3>2. q[i] = b[j]
      BY <1>4, <1>7, <1>8, <1>9, <2>2, <3>1
    <3> QED
      BY <1>8, <3>1, <3>2, Zenon
  <2> QED
    BY Zenon, <2>1, <2>2
<1>12. q = s
  BY Zenon, <1>1, <1>10, <1>11, SameSeq
<1> QED
  BY Zenon, <1>1, <1>4, <1>7, <1>8, <1>9, <1>12

LEMMA ReadFdExtStep ==
  ASSUME BufferInv, NEW s \in Chunks, ReadFdExt(s)
  PROVE  BufferInv' /\ Data' = Data \o s
<1>1. s \in Seq(Byte) /\ Len(s) \in Nat
  BY Zenon, ChunkType
<1>2. /\ buffer \in Vectors(size) /\ size \in Nat /\ head \in Nat /\ tail \in Nat
      /\ head <= tail /\ tail <= size
  BY Zenon DEF BufferInv
<1>3. PICK w \in Nat : w = writableBytes /\ w <= Len(s) /\ tail + w = size
  BY <1>1, <1>2 DEF ReadFdExt, writableBytes
<1>4. PICK a \in Seq(Byte) : a = First(s, w) /\ Len(a) = w
  BY Zenon, <1>1, <1>3, FirstRest
<1>5. PICK r \in Seq(Byte) : r = Rest(s, w) /\ Len(r) = Len(s) - w
  BY Zenon, <1>1, <1>3, FirstRest
<1>6. a \o r = s
  BY Zenon, <1>1, <1>3, <1>4, <1>5, FirstRest
<1>7. PICK b \in Vectors(size) : b = Written(buffer, size, tail, a)
  BY Zenon, <1>2, WrittenLemma
<1>8. Slice(b, head, size) = Data \o a
  <2>1. tail + Len(a) = size /\ tail + Len(a) <= size
    BY <1>2, <1>3, <1>4
  <2>2. Slice(Written(buffer, size, tail, a), head, tail + Len(a))
          = Slice(buffer, head, tail) \o a
    BY SMTT(30), <1>2, <2>1, WriteBehind
  <2> QED
    BY Zenon, <1>7, <2>1, <2>2, DataIsSlice
<1>9. PICK len \in Nat : len = Len(s) - w /\ Len(r) <= len
  BY SMTT(30), <1>1, <1>3, <1>5
<1>10. EnsureAndWrite(b, size, len, r)
  BY Zenon, <1>3, <1>4, <1>5, <1>7, <1>9 DEF ReadFdExt
<1>11. head <= size /\ size <= size
  BY <1>2
<1>12. BufferInv' /\ Data' = Slice(b, head, size) \o r
  BY Zenon, <1>2, <1>9, <1>10, <1>11, EnsureLemma
<1>13. (Data \o a) \o r = Data \o (a \o r)
  BY SMTT(30), DataType, ConcatAssociative
<1> QED
  BY Zenon, <1>6, <1>8, <1>12, <1>13

LEMMA AddInFrontStep ==
  ASSUME BufferInv, NEW s \in Chunks, AddInFront(s)
  PROVE  BufferInv' /\ Data' = s \o Data
<1>1. s \in Seq(Byte) /\ Len(s) \in Nat
  BY Zenon, ChunkType
<1>2. /\ buffer \in Vectors(size) /\ size \in Nat /\ head \in Nat /\ tail \in Nat
      /\ head <= tail /\ tail <= size
  BY Zenon DEF BufferInv
<1>3. PICK q \in Seq(Byte) : q = s \o Data /\ Len(q) = Len(s) + (tail - head)
  <2>1. /\ s \o Data \in Seq(Byte)
        /\ Len(s \o Data) = Len(s) + Len(Data)
        /\ Len(Data) = tail - head
    BY Zenon, <1>1, DataType, ConcatLemma
  <2> QED
    BY Zenon, <2>1
<1>4. Data' = Slice(buffer', head', tail')
  BY Zenon DEF Data, Slice
<1>5. CASE /\ head >= Len(s)
           /\ buffer' = Written(buffer, size, head - Len(s), s)
           /\ head' = head - Len(s)
           /\ UNCHANGED <<size, tail, initCap>>
  <2>1. Len(s) <= head /\ head - Len(s) \in Nat
    BY <1>1, <1>2, <1>5
  <2>2. buffer' \in Vectors(size)
    BY ZenonT(30), <1>1, <1>2, <1>5, <2>1, WrittenLemma
  <2>3. BufferInv'
    BY <1>1, <1>2, <1>5, <2>1, <2>2 DEF BufferInv
  <2>4. Slice(Written(buffer, size, head - Len(s), s), head - Len(s), tail)
          = s \o Slice(buffer, head, tail)
    BY <1>1, <1>2, <2>1, WriteInFront
  <2> QED
    BY Zenon, <1>4, <1>5, <2>3, <2>4, DataIsSlice
<1>6. CASE /\ head < Len(s) /\ Fits(Len(s))
           /\ buffer' = Written(buffer, size, head, Behind(s))
           /\ tail' = tail + Len(s)
           /\ UNCHANGED <<size, head, initCap>>
  <2>1. head + Len(q) = tail + Len(s) /\ head + Len(q) <= size
    BY <1>1, <1>2, <1>3, <1>6 DEF Fits, writableBytes
  <2>2. buffer' = Written(buffer, size, head, q)
    BY Zenon, <1>3, <1>6 DEF Behind
  <2>3. buffer' \in Vectors(size)
    BY Zenon, <1>2, <2>2, WrittenLemma
  <2>4. BufferInv'
    BY <1>1, <1>2, <1>6, <2>1, <2>3 DEF BufferInv
  <2>5. Slice(Written(buffer, size, head, q), head, head + Len(q)) = q
    BY Zenon, <1>2, <2>1, ReadBack
  <2> QED
    BY Zenon, <1>3, <1>4, <1>6, <2>1, <2>2, <2>4, <2>5
<1>7. ASSUME NEW n, n = IF Len(s) + readableBytes < initCap THEN initCap
                        ELSE Len(s) + readableBytes,
             buffer' = Fresh(n + kBufferOffset, s \o Data),
             size' = n + kBufferOffset,
             initCap' = n,
             head' = kBufferOffset,
             tail' = kBufferOffset + Len(s) + readableBytes
      PROVE  BufferInv' /\ Data' = s \o Data
  <2>1. kBufferOffset \in Nat
    BY Zenon, SizesAssumption
  <2>2. PICK k \in Nat : k = Len(s) + readableBytes /\ k = Len(q)
    <3>1. Len(q) \in Nat
      OBVIOUS
    <3>2. Len(q) = Len(s) + readableBytes
      BY Zenon, <1>3 DEF readableBytes
    <3> QED
      BY Zenon, <3>1, <3>2
  <2>3. n \in Nat /\ k <= n /\ kBufferOffset <= n
    BY <1>7, <2>1, <2>2 DEF BufferInv
  <2>4. PICK m \in Nat : m = n + kBufferOffset /\ kBufferOffset + Len(q) <= m
    BY <2>1, <2>2, <2>3
  <2>5. buffer' = Fresh(m, q)
    BY Zenon, <1>3, <1>7, <2>4
  <2>6. buffer' \in Vectors(m)
    BY Zenon, <2>5, FreshLemma
  <2>7. tail' = kBufferOffset + Len(q)
    <3>1. readableBytes \in Int /\ Len(s) \in Int
      BY <1>1, <1>2 DEF readableBytes
    <3>2. tail' = kBufferOffset + (Len(s) + readableBytes)
      BY <1>7, <2>1, <3>1
    <3> QED
      BY Zenon, <2>2, <3>2
  <2>8. BufferInv'
    BY SMTT(30), <1>7, <2>1, <2>2, <2>3, <2>4, <2>6, <2>7 DEF BufferInv
  <2>9. Slice(Fresh(m, q), kBufferOffset, kBufferOffset + Len(q)) = q
    BY Zenon, <2>4, ReadFresh
  <2> QED
    BY Zenon, <1>3, <1>4, <1>7, <2>5, <2>7, <2>8, <2>9
<1> QED
  BY Zenon, <1>5, <1>6, <1>7 DEF AddInFront

LEMMA RetrieveAllStep ==
  ASSUME BufferInv, RetrieveAll
  PROVE  BufferInv' /\ Data' = Rest(Data, Len(Data))
<1>1. /\ Shrunk \in Nat /\ Shrunk <= size /\ kBufferOffset <= Shrunk
  BY DEF BufferInv, Shrunk
<1>2. buffer' \in Vectors(Shrunk)
  BY <1>1 DEF RetrieveAll, BufferInv, Vectors
<1>3. BufferInv'
  BY <1>1, <1>2, SizesAssumption DEF BufferInv, RetrieveAll
<1>4. tail' - head' = 0
  BY SizesAssumption DEF RetrieveAll
<1>5. Data' = <<>>
  BY <1>4 DEF Data
<1>6. Len(Data) - Len(Data) = 0
  BY DataType
<1>7. Rest(Data, Len(Data)) = <<>>
  BY <1>6 DEF Rest
<1> QED
  BY Zenon, <1>3, <1>5, <1>7

LEMMA RetrieveStep ==
  ASSUME BufferInv, NEW len \in Lens, Retrieve(len)
  PROVE  BufferInv' /\ \E n \in 0 .. Len(Data) : Data' = Rest(Data, n)
<1>1. /\ size \in Nat /\ head \in Nat /\ tail \in Nat /\ head <= tail
      /\ len \in Nat /\ Len(Data) = tail - head
  BY Zenon, SizesAssumption, DataType DEF BufferInv
<1>2. CASE RetrieveAll
  BY <1>1, <1>2, RetrieveAllStep
<1>3. CASE /\ len < readableBytes
           /\ head' = head + len
           /\ UNCHANGED <<buffer, size, tail, initCap>>
  <2>1. len \in 0 .. Len(Data)
    BY <1>1, <1>3 DEF readableBytes
  <2>2. BufferInv'
    BY <1>1, <1>3 DEF BufferInv, readableBytes
  <2>3. tail' - head' = Len(Data) - len
    BY <1>1, <1>3
  <2>4. ASSUME NEW i \in 1 .. Len(Data) - len
        PROVE  buffer'[head' + i - 1] = Data[len + i]
    <3>1. PICK j \in 1 .. tail - head : j = len + i /\ head + j - 1 = head' + i - 1
      BY <1>1, <1>3, <2>1
    <3>2. Data[j] = buffer[head + j - 1]
      BY Zenon, <3>1 DEF Data
    <3> QED
      BY Zenon, <1>3, <3>1, <3>2
  <2>5. Data' = Rest(Data, len)
    BY Zenon, <2>3, <2>4 DEF Data, Rest
  <2> QED
    BY Zenon, <2>1, <2>2, <2>5
<1> QED
  BY Zenon, <1>2, <1>3 DEF Retrieve

LEMMA UnwriteStep ==
  ASSUME BufferInv, NEW offset \in Lens, Unwrite(offset)
  PROVE  BufferInv' /\ \E n \in 0 .. Len(Data) : Data' = First(Data, n)
<1>1. /\ size \in Nat /\ head \in Nat /\ tail \in Nat /\ head <= tail
      /\ offset \in Nat /\ Len(Data) = tail - head
  BY Zenon, SizesAssumption, DataType DEF BufferInv
<1>2. PICK n \in 0 .. Len(Data) : n = tail - offset - head
  BY <1>1 DEF Unwrite, readableBytes
<1>3. BufferInv'
  BY <1>1 DEF BufferInv, Unwrite, readableBytes
<1>4. tail' - head' = n
  BY Zenon, <1>1, <1>2 DEF Unwrite
<1>5. ASSUME NEW i \in 1 .. n
      PROVE  buffer'[head' + i - 1] = Data[i]
  <2>1. i \in 1 .. tail - head
    BY <1>1, <1>2
  <2> QED
    BY Zenon, <2>1 DEF Data, Unwrite
<1>6. Data' = First(Data, n)
  BY Zenon, <1>4, <1>5 DEF Data, First
<1> QED
  BY Zenon, <1>3, <1>6
-----------------------------------------------------------------------------
LEMMA InitBuffer ==
  ASSUME kBufferOffset <= initLen, BufferInit
  PROVE  BufferInv
BY SizesAssumption, ChunksAssumption DEF BufferInit, BufferInv, Vectors

\* Every step is one of the byte queue, or none.
LEMMA NextStep ==
  ASSUME BufferInv, [BufferNext]_bufferVars
  PROVE  BufferInv' /\ [Queue!Next]_Data
<1>1. ASSUME NEW s \in Chunks, DoAppend(s) \/ HasWritten(s) \/ ReadFdExt(s)
      PROVE  BufferInv' /\ Data' = Data \o s
  BY Zenon, <1>1, AppendStep, HasWrittenStep, ReadFdExtStep
<1>2. ASSUME NEW s \in Chunks, AddInFront(s)
      PROVE  BufferInv' /\ Data' = s \o Data
  BY Zenon, <1>2, AddInFrontStep
<1>3. ASSUME NEW len \in Lens, EnsureWritableBytes(len)
      PROVE  BufferInv' /\ Data' = Data
  BY Zenon, <1>3, EnsureStep
<1>4. ASSUME NEW len \in Lens, Retrieve(len)
      PROVE  BufferInv' /\ \E n \in 0 .. Len(Data) : Data' = Rest(Data, n)
  BY Zenon, <1>4, RetrieveStep
<1>5. ASSUME NEW len \in Lens, Unwrite(len)
      PROVE  BufferInv' /\ \E n \in 0 .. Len(Data) : Data' = First(Data, n)
  BY Zenon, <1>5, UnwriteStep
<1>6. ASSUME RetrieveAll
      PROVE  BufferInv' /\ \E n \in 0 .. Len(Data) : Data' = Rest(Data, n)
  <2>1. Len(Data) \in 0 .. Len(Data)
    BY DataType
  <2> QED
    BY Zenon, <1>6, <2>1, RetrieveAllStep
<1>7. ASSUME UNCHANGED bufferVars
      PROVE  BufferInv' /\ Data' = Data
  BY Zenon, <1>7 DEF bufferVars, BufferInv, Data
<1>8. \/ \E s \in Chunks : Data' = Data \o s \/ Data' = s \o Data
      \/ \E n \in 0 .. Len(Data) : Data' = Rest(Data, n) \/ Data' = First(Data, n)
      \/ Data' = Data
  BY Zenon, <1>1, <1>2, <1>3, <1>4, <1>5, <1>6, <1>7 DEF BufferNext
<1>9. [Queue!Next]_Data
  BY Zenon, <1>8
     DEF Queue!Next, Queue!Put, Queue!PutInFront, Queue!Drop, Queue!Cut,
         Queue!Rest, Queue!First, Rest, First
<1>10. BufferInv'
  BY Zenon, <1>1, <1>2, <1>3, <1>4, <1>5, <1>6, <1>7 DEF BufferNext
<1> QED
  BY Zenon, <1>9, <1>10

\* The bytes always lie in the vector, whatever the chunks and however long, for
\* every buffer that was constructed with at least kBufferOffset.
THEOREM InBoundsHolds ==
  ASSUME kBufferOffset <= initLen
  PROVE  BufferSpec => []InBounds
<1>1. BufferInit => BufferInv
  BY Zenon, InitBuffer
<1>2. BufferInv /\ [BufferNext]_bufferVars => BufferInv'
  BY Zenon, NextStep
<1>3. BufferInv => InBounds
  BY Zenon DEF BufferInv, InBounds
<1> QED
  BY <1>1, <1>2, <1>3, PTL DEF BufferSpec

\* The buffer implements the byte queue: moving, growing and shrinking the vector
\* never changes, loses or reorders a byte.
THEOREM ByteQueueRefinement ==
  ASSUME kBufferOffset <= initLen
  PROVE  BufferSpec => IsByteQueue
<1>1. BufferInit => BufferInv
  BY Zenon, InitBuffer
<1>2. BufferInv /\ [BufferNext]_bufferVars => BufferInv'
  BY Zenon, NextStep
<1>3. BufferInit => Queue!Init
  <2>1. BufferInit => tail - head = 0
    BY SizesAssumption DEF BufferInit
  <2> QED
    BY <2>1 DEF Queue!Init, Data
<1>4. BufferInv /\ [BufferNext]_bufferVars => [Queue!Next]_Data
  BY Zenon, NextStep
<1> QED
  BY <1>1, <1>2, <1>3, <1>4, PTL DEF BufferSpec, IsByteQueue, Queue!Spec

-----------------------------------------------------------------------------
(* ConcurrentTaskQueue: what was submitted is taken once and in order        *)

Seen == taken \o taskQueue
Submitted == {x \in Tasks : x[2] <= submitted[x[1]]}

\* A worker that is going to wait holds the mutex, and nothing was submitted
\* since it looked at the queue; who is in the wait set waits.
MutexInv ==
  /\ \A w \in Workers :
       /\ pc[w] \in {"loop", "lock", "check", "wait", "waiting", "run", "sync", "exit"}
       /\ pc[w] \in {"check", "wait"} => mutex = {w}
       /\ pc[w] = "wait" => taskQueue = <<>>
       /\ w \in waiting => pc[w] = "waiting"
       /\ pc[w] = "exit" => stop
  /\ \A t \in Users :
       pc[t] \in {"idle", "sync", "synced", "stopping", "notify", "join", "stopped"}

\* The tasks submitted so far are those that were taken and those in the queue,
\* each once, those of one thread in their order.
OrderInv ==
  /\ IsInjective(Seen)
  /\ Range(Seen) = Submitted
  /\ \A i, j \in 1 .. Len(Seen) :
       i < j /\ Seen[i][1] = Seen[j][1] => Seen[i][2] < Seen[j][2]

\* What was taken is with one worker or was run.
HandsInv ==
  /\ finished \subseteq Range(taken)
  /\ \A w \in Workers : task[w] # NoTask => task[w] \in Range(taken) /\ task[w] \notin finished
  /\ \A v, w \in Workers : task[v] # NoTask /\ task[v] = task[w] => v = w
  /\ \A t \in Users : pc[t] = "synced" => <<t, submitted[t]>> \in finished

IInv == TypeOK /\ MutexInv /\ NoIdleWorker /\ OrderInv /\ HandsInv

-----------------------------------------------------------------------------
(* Sequences and sets                                                      *)

\* Take() moves the first task of taskQueue_ to the end of those taken: Seen
\* stays the same.
LEMMA TakeKeepsSeen ==
  ASSUME NEW S, NEW a \in Seq(S), NEW q \in Seq(S), q # <<>>
  PROVE  Append(a, Head(q)) \o Tail(q) = a \o q
<1> DEFINE l == Append(a, Head(q)) \o Tail(q)
           r == a \o q
<1>1. /\ Head(q) \in S /\ Tail(q) \in Seq(S) /\ Len(Tail(q)) = Len(q) - 1 /\ Len(q) >= 1
      /\ Head(q) = q[1] /\ \A i \in 1 .. Len(Tail(q)) : Tail(q)[i] = q[i + 1]
  OBVIOUS
<1>2. Append(a, Head(q)) \in Seq(S)
  BY <1>1
<1>3. l \in Seq(S) /\ r \in Seq(S) /\ Len(l) = Len(r) /\ Len(r) = Len(a) + Len(q)
  BY <1>1, <1>2
<1>4. ASSUME NEW i \in 1 .. Len(l) PROVE l[i] = r[i]
  <2>1. CASE i <= Len(a)
    BY <2>1, <1>1, <1>2, <1>3
  <2>2. CASE i = Len(a) + 1
    BY <2>2, <1>1, <1>2, <1>3
  <2>3. CASE i > Len(a) + 1
    <3> DEFINE k == i - (Len(a) + 1)
    <3>1. k \in 1 .. Len(Tail(q)) /\ l[i] = Tail(q)[k]
      BY <2>3, <1>1, <1>2, <1>3
    <3>2. Tail(q)[k] = q[k + 1] /\ r[i] = q[k + 1]
      BY <3>1, <2>3, <1>1, <1>3
    <3> QED BY Zenon, <3>1, <3>2
  <2> QED BY <2>1, <2>2, <2>3, <1>3
<1> QED BY Zenon, <1>3, <1>4, SeqEqual

\* runTaskInQueue() puts a task behind all others.
LEMMA AppendToSeen ==
  ASSUME NEW S, NEW a \in Seq(S), NEW q \in Seq(S), NEW e \in S
  PROVE  a \o Append(q, e) = Append(a \o q, e)
<1>1. Append(q, e) = q \o <<e>> /\ Append(a \o q, e) = (a \o q) \o <<e>>
  BY Zenon, AppendIsConcat, ConcatProperties
<1>2. <<e>> \in Seq(S)
  OBVIOUS
<1> QED BY <1>1, <1>2, ConcatAssociative

\* A task more in a sequence is that task more among its elements.
LEMMA RangeOfAppend ==
  ASSUME NEW S, NEW s \in Seq(S), NEW e \in S
  PROVE  Range(Append(s, e)) = Range(s) \cup {e}
<1>1. /\ DOMAIN s = 1 .. Len(s) /\ Len(s) \in Nat
      /\ DOMAIN Append(s, e) = 1 .. Len(s) + 1
      /\ \A i \in 1 .. Len(s) : Append(s, e)[i] = s[i]
      /\ Append(s, e)[Len(s) + 1] = e
  OBVIOUS
<1>2. \A i \in 1 .. Len(s) + 1 : i \in 1 .. Len(s) \/ i = Len(s) + 1
  BY <1>1
<1>3. Len(s) + 1 \in 1 .. Len(s) + 1 /\ 1 .. Len(s) \subseteq 1 .. Len(s) + 1
  BY <1>1
<1> QED BY <1>1, <1>2, <1>3, Zenon DEF Range

\* Awake is a set of workers: its number is a natural number, and grows with it.
LEMMA AwakeIsFinite ==
  /\ IsFiniteSet(Awake) /\ Cardinality(Awake) \in Nat
  /\ IsFiniteSet(Awake') /\ Cardinality(Awake') \in Nat
<1>1. Awake \subseteq Workers /\ Awake' \subseteq Workers
  BY Zenon DEF Awake
<1> QED BY Zenon, <1>1, ThreadsAssumption, FS_Subset, FS_CardinalityType

\* 1 .. n has n elements.
LEMMA IntervalFromOne ==
  ASSUME NEW n \in Nat
  PROVE  IsFiniteSet(1 .. n) /\ Cardinality(1 .. n) = n
<1>1. 1 \in Int /\ n \in Int
  OBVIOUS
<1>2. IsFiniteSet(1 .. n) /\ Cardinality(1 .. n) = IF 1 > n THEN 0 ELSE n - 1 + 1
  BY <1>1, FS_Interval, Zenon
<1> QED BY <1>2

\* A thread that may submit one more task has not submitted MaxTasks yet.
LEMMA RoomForTask ==
  ASSUME IInv, NEW t \in Threads, Len(taken \o taskQueue) < MaxTasks
  PROVE  submitted[t] + 1 \in 1 .. MaxTasks
<1> DEFINE n == submitted[t]
           place == [k \in 1 .. n |-> CHOOSE i \in 1 .. Len(Seen) : Seen[i] = <<t, k>>]
<1>1. n \in 0 .. MaxTasks /\ MaxTasks \in Nat
  BY Zenon, TasksAssumption DEF IInv, TypeOK
<1>2. Seen \in Seq(Tasks) /\ Len(Seen) \in Nat /\ DOMAIN Seen = 1 .. Len(Seen)
  BY DEF IInv, TypeOK, Seen
<1>3. ASSUME NEW k \in 1 .. n
      PROVE  place[k] \in 1 .. Len(Seen) /\ Seen[place[k]] = <<t, k>>
  <2>1. <<t, k>> \in Submitted
    BY <1>1 DEF Submitted, Tasks
  <2>2. \E i \in 1 .. Len(Seen) : Seen[i] = <<t, k>>
    BY <2>1, <1>2, Zenon DEF IInv, OrderInv, Range
  <2> QED BY Zenon, <2>2
<1>4. place \in Injection(1 .. n, 1 .. Len(Seen))
  <2>1. place \in [1 .. n -> 1 .. Len(Seen)]
    BY Zenon, <1>3
  <2> HIDE DEF place
  <2>2. ASSUME NEW a \in 1 .. n, NEW b \in 1 .. n, place[a] = place[b] PROVE a = b
    BY <2>2, <1>3
  <2> QED BY Zenon, <2>1, <2>2 DEF Injection, IsInjective
<1> HIDE DEF place
<1>5. IsFiniteSet(1 .. Len(Seen)) /\ Cardinality(1 .. Len(Seen)) = Len(Seen)
  BY Zenon, <1>2, IntervalFromOne
<1>6. Cardinality(1 .. n) <= Cardinality(1 .. Len(Seen)) /\ Cardinality(1 .. n) = n
  BY <1>1, <1>4, <1>5, FS_Injection, IntervalFromOne
<1> QED BY <1>1, <1>2, <1>5, <1>6 DEF Seen

-----------------------------------------------------------------------------
(* The steps                                                               *)

\* The initial state: an empty queue, and workers that have just started.
LEMMA InitInv == Init => IInv
<1> SUFFICES ASSUME Init PROVE IInv
  BY Zenon
<1> USE ThreadsAssumption, TasksAssumption DEF Init
<1>1. TypeOK
  <2>1. pc \in [Threads -> {"loop", "idle"}] /\ \A w \in Workers : pc[w] = "loop"
    BY Zenon DEF Threads
  <2>2. task \in [Workers -> Tasks \cup {NoTask}] /\ submitted \in [Threads -> 0 .. MaxTasks]
    OBVIOUS
  <2>3. \A w \in Workers : task[w] # NoTask <=> pc[w] \in {"run", "sync"}
    BY Zenon, <2>1
  <2>4. taskQueue \in Seq(Tasks) /\ taken \in Seq(Tasks)
    OBVIOUS
  <2>5. pc \in [Threads -> {"loop", "lock", "check", "wait", "waiting", "run",
                           "exit", "idle", "sync", "synced", "stopping", "notify",
                           "join", "stopped"}]
    BY Zenon, <2>1
  <2> HIDE ThreadsAssumption, TasksAssumption
  <2> QED BY Zenon, <2>2, <2>3, <2>4, <2>5 DEF TypeOK
<1>2. MutexInv
  BY Zenon DEF MutexInv, Threads
<1>3. NoIdleWorker
  BY Zenon DEF NoIdleWorker
<1>4. Seen = <<>> /\ Range(taken) = {} /\ Submitted = {}
  BY DEF Seen, Range, Submitted, Tasks, Threads
<1>5. OrderInv
  BY <1>4 DEF OrderInv, IsInjective, Range
<1>6. HandsInv
  BY Zenon, <1>4 DEF HandsInv, Threads
<1> QED BY Zenon, <1>1, <1>2, <1>3, <1>5, <1>6 DEF IInv

\* Each action keeps the types.
LEMMA TypeStep == IInv /\ [Next]_vars => TypeOK'
<1> SUFFICES ASSUME IInv, [Next]_vars PROVE TypeOK'
  BY Zenon
<1> USE ThreadsAssumption, TasksAssumption DEF IInv, TypeOK, Goto, Threads
<1>1. ASSUME NEW w \in Workers, WorkerStep(w) \/ SpuriousWakeUp(w) PROVE TypeOK'
  <2>1. CASE LoopTest(w) \/ Lock(w) \/ Wait(w) \/ WakeUp(w) \/ SpuriousWakeUp(w)
    BY ZenonT(30), <2>1 DEF LoopTest, Lock, Wait, WakeUp, SpuriousWakeUp
  <2>2. CASE Check(w)
    <3>1. CASE MustWait \/ taskQueue = <<>>
      BY ZenonT(30), <2>2, <3>1 DEF Check, MustWait
    <3>2. CASE taskQueue # <<>>
      <4>1. Head(taskQueue) \in Tasks /\ Tail(taskQueue) \in Seq(Tasks)
        BY <3>2
      <4>2. Head(taskQueue) # NoTask
        BY Zenon, <4>1 DEF Tasks
      <4>3. /\ taken' = Append(taken, Head(taskQueue)) /\ taskQueue' = Tail(taskQueue)
            /\ task' = [task EXCEPT ![w] = Head(taskQueue)] /\ mutex' = {}
            /\ pc' = [pc EXCEPT ![w] = "run"]
            /\ UNCHANGED <<stop, waiting, submitted, finished>>
        BY Zenon, <2>2, <3>2 DEF Check, Take, MustWait
      <4>4. \A v \in Workers : task'[v] # NoTask <=> pc'[v] \in {"run", "sync"}
        BY Zenon, <4>1, <4>2, <4>3
      <4> QED BY <4>1, <4>3, <4>4
    <3> QED BY Zenon, <3>1, <3>2
  <2>3. CASE TaskReturns(w)
    BY Zenon, <2>3 DEF TaskReturns
  <2>4. CASE SyncReturns(w)
    BY Zenon, <2>4 DEF SyncReturns
  <2> QED BY Zenon, <1>1, <2>1, <2>2, <2>3, <2>4 DEF WorkerStep
<1>2. ASSUME NEW t \in Threads, RunTaskInQueue(t) \/ SyncTaskInQueue(t) PROVE TypeOK'
  <2>1. submitted[t] + 1 \in 1 .. MaxTasks
    BY Zenon, <1>2, RoomForTask DEF RunTaskInQueue, SyncTaskInQueue, Submit
  <2>2. <<t, submitted[t] + 1>> \in Tasks
    BY Zenon, <2>1 DEF Tasks
  <2>3. Append(taskQueue, <<t, submitted[t] + 1>>) \in Seq(Tasks)
    BY <2>2
  <2>4. waiting' \subseteq Workers
    BY Zenon, <1>2 DEF RunTaskInQueue, SyncTaskInQueue, Submit, NotifyOne
  <2>5. t \in Workers => pc[t] = "run"
    BY ZenonT(30), <1>2 DEF RunTaskInQueue, SyncTaskInQueue, MutexInv
  <2>6. /\ submitted' = [submitted EXCEPT ![t] = @ + 1]
        /\ taskQueue' = Append(taskQueue, <<t, submitted[t] + 1>>)
        /\ UNCHANGED <<stop, mutex, task, taken, finished>>
        /\ pc' = pc \/ pc' = [pc EXCEPT ![t] = "sync"]
    BY Zenon, <1>2 DEF RunTaskInQueue, SyncTaskInQueue, Submit
  <2>7. ASSUME NEW w \in Workers PROVE task'[w] # NoTask <=> pc'[w] \in {"run", "sync"}
    <3>1. task'[w] = task[w] /\ (pc'[w] = pc[w] \/ (w = t /\ pc'[w] = "sync"))
      BY Zenon, <2>6
    <3> QED BY Zenon, <2>5, <3>1
  <2>8. submitted' \in [Threads -> 0 .. MaxTasks]
    BY <2>1, <2>6
  <2> QED BY ZenonT(30), <2>3, <2>4, <2>6, <2>7, <2>8
<1>3. ASSUME NEW t \in Users, Stop(t) \/ UserStep(t) PROVE TypeOK'
  BY ZenonT(30), <1>3 DEF Stop, UserStep, SyncReturns, SyncUsed, StopSet, StopNotify, StopJoined
<1>4. CASE UNCHANGED vars
  BY Zenon, <1>4 DEF vars
<1> QED BY Zenon, <1>1, <1>2, <1>3, <1>4 DEF Next

\* Each action keeps to the mutex: who holds it is not disturbed.
LEMMA MutexStep == IInv /\ [Next]_vars => MutexInv'
<1> SUFFICES ASSUME IInv, [Next]_vars PROVE MutexInv'
  BY Zenon
<1> USE ThreadsAssumption DEF IInv, TypeOK, MutexInv, Goto, Threads, Free
<1>1. ASSUME NEW w \in Workers, WorkerStep(w) \/ SpuriousWakeUp(w) PROVE MutexInv'
  <2>1. CASE LoopTest(w)
    BY Zenon, <2>1 DEF LoopTest
  <2>2. CASE WakeUp(w)
    BY Zenon, <2>2 DEF WakeUp
  <2>3. CASE SpuriousWakeUp(w)
    BY Zenon, <2>3 DEF SpuriousWakeUp
  <2>4. CASE TaskReturns(w)
    BY Zenon, <2>4 DEF TaskReturns
  <2>5. CASE SyncReturns(w)
    BY ZenonT(30), <2>5 DEF SyncReturns
  <2>6. CASE Lock(w)
    BY Zenon, <2>6 DEF Lock
  <2>7. CASE Wait(w)
    <3>1. /\ pc[w] = "wait" /\ mutex' = {} /\ waiting' = waiting \cup {w}
          /\ pc' = [pc EXCEPT ![w] = "waiting"] /\ UNCHANGED <<stop, taskQueue>>
      BY Zenon, <2>7 DEF Wait
    <3>2. \A v \in Workers \ {w} : pc[v] \notin {"check", "wait"}
      BY ZenonT(30), <3>1
    <3> QED BY Zenon, <3>1, <3>2
  <2>8. CASE Check(w)
    <3>1. /\ pc[w] = "check" /\ UNCHANGED <<stop, waiting>>
          /\ \/ pc' = [pc EXCEPT ![w] = "wait"] /\ UNCHANGED <<taskQueue, mutex>> /\ taskQueue = <<>>
             \/ \E l \in {"run", "loop"} : pc' = [pc EXCEPT ![w] = l] /\ mutex' = {}
      BY Zenon, <2>8 DEF Check, MustWait
    <3>2. \A v \in Workers \ {w} : pc[v] \notin {"check", "wait"}
      BY ZenonT(30), <3>1
    <3> QED BY ZenonT(30), <3>1, <3>2
  <2> QED BY Zenon, <1>1, <2>1, <2>2, <2>3, <2>4, <2>5, <2>6, <2>7, <2>8 DEF WorkerStep
<1>2. ASSUME NEW t \in Threads, RunTaskInQueue(t) \/ SyncTaskInQueue(t) PROVE MutexInv'
  <2>1. waiting' \subseteq waiting
    BY <1>2 DEF RunTaskInQueue, SyncTaskInQueue, Submit, NotifyOne
  <2>2. /\ mutex = {} /\ UNCHANGED <<stop, mutex>> /\ pc[t] \in {"idle", "run"}
        /\ pc' = pc \/ pc' = [pc EXCEPT ![t] = "sync"]
    BY Zenon, <1>2 DEF RunTaskInQueue, SyncTaskInQueue, Submit
  <2>3. \A w \in Workers : pc[w] \notin {"check", "wait"}
    BY Zenon, <2>2
  <2> QED BY <2>1, <2>2, <2>3
<1>3. ASSUME NEW t \in Users, Stop(t) \/ UserStep(t) PROVE MutexInv'
  <2>1. CASE Stop(t) \/ StopJoined(t)
    BY ZenonT(30), <2>1 DEF Stop, StopJoined
  <2>2. CASE SyncReturns(t)
    BY <2>2 DEF SyncReturns
  <2>3. CASE SyncUsed(t)
    BY Zenon, <2>3 DEF SyncUsed
  <2>4. CASE StopSet(t)
    BY Zenon, <2>4 DEF StopSet
  <2>5. CASE StopNotify(t)
    BY Zenon, <2>5 DEF StopNotify
  <2> QED BY Zenon, <1>3, <2>1, <2>2, <2>3, <2>4, <2>5 DEF UserStep
<1>4. CASE UNCHANGED vars
  BY Zenon, <1>4 DEF vars
<1> QED BY Zenon, <1>1, <1>2, <1>3, <1>4 DEF Next

\* A worker more that is awake, or one less, is one more or less in Awake.
LEMMA AwakeCount ==
  ASSUME NEW w
  PROVE  /\ Awake \subseteq Awake' => Cardinality(Awake) <= Cardinality(Awake')
         /\ Awake' = Awake \cup {w} /\ w \notin Awake
              => Cardinality(Awake') = Cardinality(Awake) + 1
         /\ Awake' = Awake \ {w} /\ w \in Awake
              => Cardinality(Awake') = Cardinality(Awake) - 1
<1> HIDE DEF Awake
<1>1. Awake \subseteq Awake' => Cardinality(Awake) <= Cardinality(Awake')
  BY Zenon, AwakeIsFinite, FS_Subset
<1>2. Awake' = Awake \cup {w} /\ w \notin Awake => Cardinality(Awake') = Cardinality(Awake) + 1
  BY Zenon, AwakeIsFinite, FS_AddElement
<1>3. Awake' = Awake \ {w} /\ w \in Awake => Cardinality(Awake') = Cardinality(Awake) - 1
  BY Zenon, AwakeIsFinite, FS_RemoveElement
<1> QED BY Zenon, <1>1, <1>2, <1>3

\* No step lets a worker sleep while a task waits for one.
LEMMA NoIdleStep == IInv /\ [Next]_vars => NoIdleWorker'
<1> SUFFICES ASSUME IInv, [Next]_vars, ~stop', waiting' # {}
             PROVE  Len(taskQueue') <= Cardinality(Awake')
  BY Zenon DEF NoIdleWorker
<1> USE ThreadsAssumption DEF IInv, TypeOK, Goto, Threads
<1>1. /\ Cardinality(Awake) \in Nat /\ Cardinality(Awake') \in Nat
      /\ taskQueue \in Seq(Tasks) /\ Len(taskQueue) \in Nat
  BY AwakeIsFinite
<1>2. ASSUME waiting # {}, ~stop, Awake \subseteq Awake', taskQueue' = taskQueue
      PROVE  Len(taskQueue') <= Cardinality(Awake')
  <2>1. Cardinality(Awake) <= Cardinality(Awake')
    BY <1>2, AwakeCount, Zenon
  <2>2. Len(taskQueue) <= Cardinality(Awake)
    BY <1>2, Zenon DEF NoIdleWorker
  <2> QED BY <1>1, <1>2, <2>1, <2>2
<1>3. ASSUME taskQueue' = <<>> PROVE Len(taskQueue') <= Cardinality(Awake')
  BY <1>1, <1>3
<1>4. ASSUME NEW w \in Workers, WorkerStep(w) \/ SpuriousWakeUp(w)
      PROVE  Len(taskQueue') <= Cardinality(Awake')
  <2>1. CASE LoopTest(w) \/ Lock(w) \/ WakeUp(w) \/ SpuriousWakeUp(w) \/ TaskReturns(w) \/ SyncReturns(w)
    <3>1. waiting # {} /\ ~stop /\ taskQueue' = taskQueue
      BY Zenon, <2>1 DEF LoopTest, Lock, WakeUp, SpuriousWakeUp, TaskReturns, SyncReturns
    <3>2. Awake \subseteq Awake'
      BY ZenonT(30), <2>1, <3>1 DEF LoopTest, Lock, WakeUp, SpuriousWakeUp, TaskReturns, SyncReturns, Awake
    <3> QED BY Zenon, <3>1, <3>2, <1>2
  <2>2. CASE Wait(w)
    BY Zenon, <2>2, <1>3 DEF Wait, MutexInv
  <2>3. CASE Check(w)
    <3>1. CASE taskQueue = <<>>
      BY Zenon, <2>3, <3>1, <1>3 DEF Check, MustWait
    <3>2. CASE taskQueue # <<>>
      <4>1. /\ pc[w] = "check" /\ pc' = [pc EXCEPT ![w] = "run"]
            /\ UNCHANGED <<waiting, stop>> /\ taskQueue' = Tail(taskQueue)
        BY Zenon, <2>3, <3>2 DEF Check, MustWait, Take
      <4>2. Awake' = Awake \ {w} /\ w \in Awake
        BY Zenon, <4>1 DEF Awake
      <4>3. Len(Tail(taskQueue)) = Len(taskQueue) - 1
        BY <1>1, <3>2
      <4>4. Cardinality(Awake') = Cardinality(Awake) - 1
        BY <4>2, AwakeCount, Zenon
      <4>5. Len(taskQueue) <= Cardinality(Awake)
        BY Zenon, <4>1 DEF NoIdleWorker
      <4> QED BY <1>1, <4>1, <4>3, <4>4, <4>5
    <3> QED BY Zenon, <3>1, <3>2
  <2> QED BY Zenon, <1>4, <2>1, <2>2, <2>3 DEF WorkerStep
<1>5. ASSUME NEW t \in Threads, RunTaskInQueue(t) \/ SyncTaskInQueue(t)
      PROVE  Len(taskQueue') <= Cardinality(Awake')
  <2>1. /\ pc[t] \in {"idle", "run"} /\ stop' = stop /\ NotifyOne
        /\ taskQueue' = Append(taskQueue, <<t, submitted[t] + 1>>)
        /\ pc' = pc \/ pc' = [pc EXCEPT ![t] = "sync"]
    BY Zenon, <1>5 DEF RunTaskInQueue, SyncTaskInQueue, Submit
  <2>2. PICK w \in waiting : waiting' = waiting \ {w}
    BY Zenon, <2>1 DEF NotifyOne
  <2>3. w \in Workers /\ pc[w] = "waiting" /\ w # t
    BY Zenon, <2>1 DEF MutexInv
  <2>4. Awake' = Awake \cup {w} /\ w \notin Awake
    BY <2>1, <2>2, <2>3 DEF Awake
  <2>5. Len(taskQueue') = Len(taskQueue) + 1
    BY <2>1, <1>1
  <2>6. Cardinality(Awake') = Cardinality(Awake) + 1
    BY <2>4, AwakeCount, Zenon
  <2>7. Len(taskQueue) <= Cardinality(Awake)
    BY Zenon, <2>1, <2>2 DEF NoIdleWorker
  <2> QED BY <1>1, <2>5, <2>6, <2>7
<1>6. ASSUME NEW t \in Users, Stop(t) \/ UserStep(t)
      PROVE  Len(taskQueue') <= Cardinality(Awake')
  <2>1. /\ stop' = stop /\ waiting' = waiting /\ taskQueue' = taskQueue
        /\ \A w \in Workers : pc'[w] = pc[w]
    BY Zenon, <1>6 DEF Stop, UserStep, SyncReturns, SyncUsed, StopSet, StopNotify, StopJoined
  <2>2. Awake \subseteq Awake'
    BY Zenon, <2>1 DEF Awake
  <2> QED BY Zenon, <2>1, <2>2, <1>2
<1>7. CASE UNCHANGED vars
  BY Zenon, <1>2, <1>7 DEF vars, Awake
<1> QED BY Zenon, <1>4, <1>5, <1>6, <1>7 DEF Next

\* A step that submits nothing keeps Seen and submitted.
LEMMA SeenStep ==
  ASSUME IInv, [Next]_vars, submitted' = submitted
  PROVE  Seen' = Seen
<1> USE DEF IInv, TypeOK, Threads
<1>1. ASSUME NEW w \in Workers, WorkerStep(w) \/ SpuriousWakeUp(w) PROVE Seen' = Seen
  <2>1. CASE Check(w) /\ taskQueue # <<>>
    <3>1. taken' = Append(taken, Head(taskQueue)) /\ taskQueue' = Tail(taskQueue)
      BY Zenon, <2>1 DEF Check, MustWait, Take
    <3> QED BY ZenonT(30), <2>1, <3>1, TakeKeepsSeen DEF Seen
  <2>2. CASE Check(w) /\ taskQueue = <<>>
    BY Zenon, <2>2 DEF Check, MustWait, Seen
  <2> QED BY Zenon, <1>1, <2>1, <2>2
        DEF WorkerStep, LoopTest, Lock, Wait, WakeUp, SpuriousWakeUp, TaskReturns,
            SyncReturns, Seen
<1>2. ASSUME NEW t \in Threads, RunTaskInQueue(t) \/ SyncTaskInQueue(t) PROVE FALSE
  <2>1. submitted' = [submitted EXCEPT ![t] = @ + 1] /\ submitted[t] \in Nat
    BY <1>2 DEF RunTaskInQueue, SyncTaskInQueue, Submit
  <2> QED BY <2>1
<1>3. ASSUME NEW t \in Users, Stop(t) \/ UserStep(t) PROVE Seen' = Seen
  BY ZenonT(30), <1>3 DEF Stop, UserStep, SyncReturns, SyncUsed, StopSet, StopNotify, StopJoined, Seen
<1>4. CASE UNCHANGED vars
  BY Zenon, <1>4 DEF vars, Seen
<1> QED BY Zenon, <1>1, <1>2, <1>3, <1>4 DEF Next

\* Each step keeps the order of the tasks, and loses and repeats none.
LEMMA OrderStep == IInv /\ [Next]_vars => OrderInv'
<1> SUFFICES ASSUME IInv, [Next]_vars PROVE OrderInv'
  BY Zenon
<1>1. CASE submitted' = submitted
  <2>1. Seen' = Seen /\ Submitted' = Submitted
    BY Zenon, <1>1, SeenStep DEF Submitted
  <2> QED BY Zenon, <2>1 DEF IInv, OrderInv
<1>2. ASSUME NEW t \in Threads, RunTaskInQueue(t) \/ SyncTaskInQueue(t) PROVE OrderInv'
  <2> DEFINE n == submitted[t]
             e == <<t, n + 1>>
  <2>1. /\ Seen \in Seq(Tasks) /\ Len(Seen) \in Nat /\ DOMAIN Seen = 1 .. Len(Seen)
        /\ taken \in Seq(Tasks) /\ taskQueue \in Seq(Tasks)
        /\ submitted \in [Threads -> 0 .. MaxTasks] /\ MaxTasks \in Nat
    BY TasksAssumption DEF IInv, TypeOK, Seen
  <2>2. e \in Tasks /\ n \in Nat
    BY <1>2, <2>1, RoomForTask DEF RunTaskInQueue, SyncTaskInQueue, Submit, Tasks
  <2>3. Seen' = Append(Seen, e) /\ submitted' = [submitted EXCEPT ![t] = n + 1]
    <3>1. /\ taskQueue' = Append(taskQueue, e) /\ taken' = taken
          /\ submitted' = [submitted EXCEPT ![t] = n + 1]
      BY Zenon, <1>2 DEF RunTaskInQueue, SyncTaskInQueue, Submit
    <3> QED BY SMTT(30), <2>1, <2>2, <3>1, AppendToSeen DEF Seen
  <2>4. Submitted' = Submitted \cup {e} /\ e \notin Submitted
    BY <2>1, <2>2, <2>3 DEF Submitted, Tasks
  <2>5. Range(Seen) = Submitted
    BY Zenon DEF IInv, OrderInv
  <2>6. /\ DOMAIN Seen' = 1 .. Len(Seen) + 1 /\ Len(Seen') = Len(Seen) + 1
        /\ \A i \in 1 .. Len(Seen) : Seen'[i] = Seen[i] /\ Seen[i] \in Tasks
        /\ Seen'[Len(Seen) + 1] = e
    BY <2>1, <2>2, <2>3
  <2>7. \A i \in 1 .. Len(Seen) : Seen[i] \in Submitted
    BY Zenon, <2>1, <2>5 DEF Range
  <2>8. Range(Seen') = Submitted'
    BY <2>1, <2>2, <2>3, <2>4, <2>5, RangeOfAppend
  <2>9. IsInjective(Seen')
    <3>1. \A i, j \in 1 .. Len(Seen) : Seen[i] = Seen[j] => i = j
      BY ZenonT(30), <2>1 DEF IInv, OrderInv, IsInjective
    <3>2. \A i \in 1 .. Len(Seen) : Seen'[i] # Seen'[Len(Seen) + 1]
      BY Zenon, <2>4, <2>6, <2>7
    <3>3. \A i \in 1 .. Len(Seen) + 1 : i \in 1 .. Len(Seen) \/ i = Len(Seen) + 1
      BY <2>1
    <3>4. \A i, j \in 1 .. Len(Seen) + 1 : Seen'[i] = Seen'[j] => i = j
      BY <2>6, <3>1, <3>2, <3>3, Zenon
    <3> QED BY Zenon, <2>6, <3>4 DEF IsInjective
  <2>10. ASSUME NEW i \in 1 .. Len(Seen'), NEW j \in 1 .. Len(Seen'), i < j,
                Seen'[i][1] = Seen'[j][1]
         PROVE  Seen'[i][2] < Seen'[j][2]
    <3>1. CASE j \in 1 .. Len(Seen)
      <4>1. i \in 1 .. Len(Seen)
        BY <2>1, <2>6, <2>10, <3>1
      <4>2. Seen[i][1] = Seen[j][1] => Seen[i][2] < Seen[j][2]
        BY <2>10, <3>1, <4>1, Zenon DEF IInv, OrderInv
      <4>3. Seen'[i] = Seen[i] /\ Seen'[j] = Seen[j]
        BY Zenon, <2>6, <3>1, <4>1
      <4> QED BY <2>10, <4>2, <4>3, Zenon
    <3>2. CASE j = Len(Seen) + 1
      <4>1. i \in 1 .. Len(Seen) /\ Seen'[i] = Seen[i] /\ Seen'[j] = e
        BY <2>1, <2>6, <2>10, <3>2
      <4>2. Seen[i] \in Submitted /\ Seen[i][1] = t
        BY <2>7, <2>10, <4>1
      <4>3. Seen[i][2] <= n /\ Seen[i][2] \in Nat
        BY <4>2 DEF Submitted, Tasks
      <4> QED BY <2>2, <4>1, <4>3
    <3> QED BY <2>1, <2>6, <3>1, <3>2
  <2> QED BY Zenon, <2>8, <2>9, <2>10 DEF OrderInv
<1>3. submitted' = submitted \/ \E t \in Threads : RunTaskInQueue(t) \/ SyncTaskInQueue(t)
  BY ZenonT(30) DEF Next, WorkerStep, LoopTest, Lock, Check, Wait, WakeUp, SpuriousWakeUp, TaskReturns,
         SyncReturns, Stop, UserStep, SyncUsed, StopSet, StopNotify, StopJoined, vars
<1> QED BY Zenon, <1>1, <1>2, <1>3

\* Each step keeps a task with one worker until it was run.
LEMMA HandsStep == IInv /\ [Next]_vars => HandsInv'
<1> SUFFICES ASSUME IInv, [Next]_vars PROVE HandsInv'
  BY Zenon
<1> USE ThreadsAssumption, TasksAssumption DEF IInv, TypeOK, HandsInv, Goto, Threads
<1>1. ASSUME NEW w \in Workers, Check(w), taskQueue # <<>> PROVE HandsInv'
  <2> DEFINE h == Head(taskQueue)
  <2>1. /\ taken' = Append(taken, h) /\ task' = [task EXCEPT ![w] = h]
        /\ pc' = [pc EXCEPT ![w] = "run"] /\ UNCHANGED <<submitted, finished>>
    BY ZenonT(30), <1>1 DEF Check, MustWait, Take
  <2>2. h \in Tasks /\ h # NoTask
    BY <1>1 DEF Tasks
  <2>3. Range(taken') = Range(taken) \cup {h}
    BY <2>1, <2>2, RangeOfAppend
  <2>4. h \notin Range(taken)
    <3>1. /\ Len(taken) + 1 \in 1 .. Len(Seen) /\ Seen[Len(taken) + 1] = h
          /\ \A i \in 1 .. Len(taken) : i \in 1 .. Len(Seen) /\ Seen[i] = taken[i] /\ i # Len(taken) + 1
          /\ DOMAIN Seen = 1 .. Len(Seen) /\ DOMAIN taken = 1 .. Len(taken)
      BY <1>1 DEF Seen
    <3>2. \A i, j \in 1 .. Len(Seen) : Seen[i] = Seen[j] => i = j
      BY <3>1, Zenon DEF OrderInv, IsInjective
    <3>3. \A i \in 1 .. Len(taken) : taken[i] # h
      BY ZenonT(30), <3>1, <3>2
    <3> QED BY Zenon, <3>1, <3>3 DEF Range
  <2> HIDE DEF h
  <2>5. \A v \in Workers : task'[v] = IF v = w THEN h ELSE task[v]
    BY ZenonT(30), <2>1
  <2>6. \A t \in Users : pc'[t] = pc[t]
    BY ZenonT(30), <2>1
  <2> QED BY <2>1, <2>2, <2>3, <2>4, <2>5, <2>6
<1>2. ASSUME NEW w \in Workers, TaskReturns(w) PROVE HandsInv'
  <2>1. /\ finished' = finished \cup {task[w]} /\ task' = [task EXCEPT ![w] = NoTask]
        /\ task[w] # NoTask /\ pc' = [pc EXCEPT ![w] = "loop"] /\ UNCHANGED <<submitted, taken>>
    BY Zenon, <1>2 DEF TaskReturns
  <2>2. \A v \in Workers : task'[v] = IF v = w THEN NoTask ELSE task[v]
    BY Zenon, <2>1
  <2>3. \A t \in Users : pc'[t] = pc[t]
    BY Zenon, <2>1
  <2> QED BY <2>1, <2>2, <2>3
<1>3. ASSUME NEW t \in Threads, RunTaskInQueue(t) \/ SyncTaskInQueue(t) PROVE HandsInv'
  <2>1. /\ pc[t] \in {"idle", "run"} /\ UNCHANGED <<task, taken, finished>>
        /\ pc' = pc \/ pc' = [pc EXCEPT ![t] = "sync"]
        /\ submitted' = [submitted EXCEPT ![t] = @ + 1]
    BY Zenon, <1>3 DEF RunTaskInQueue, SyncTaskInQueue, Submit
  <2>2. \A u \in Users : pc'[u] = "synced" => pc[u] = "synced" /\ submitted'[u] = submitted[u]
    BY Zenon, <2>1
  <2> QED BY Zenon, <2>1, <2>2
<1>4. ASSUME UNCHANGED <<task, taken, finished, submitted>>,
             \A t \in Users : pc'[t] = "synced" => pc[t] = "synced" \/ MayReturn(t)
      PROVE  HandsInv'
  BY Zenon, <1>4 DEF MayReturn
<1>5. ASSUME NEW w \in Workers, WorkerStep(w) \/ SpuriousWakeUp(w) PROVE HandsInv'
  <2>1. CASE Check(w) /\ taskQueue = <<>>
    BY Zenon, <2>1, <1>4 DEF Check, MustWait
  <2>2. CASE LoopTest(w) \/ Lock(w) \/ Wait(w) \/ WakeUp(w) \/ SpuriousWakeUp(w) \/ SyncReturns(w)
    <3>1. \A t \in Users : pc'[t] = pc[t]
      BY ZenonT(30), <2>2 DEF LoopTest, Lock, Wait, WakeUp, SpuriousWakeUp, SyncReturns
    <3> QED BY Zenon, <2>2, <3>1, <1>4 DEF LoopTest, Lock, Wait, WakeUp, SpuriousWakeUp, SyncReturns
  <2> QED BY Zenon, <1>1, <1>2, <1>5, <2>1, <2>2 DEF WorkerStep
<1>6. ASSUME NEW t \in Users, Stop(t) \/ UserStep(t) PROVE HandsInv'
  BY ZenonT(30), <1>6, <1>4 DEF Stop, UserStep, SyncReturns, SyncUsed, StopSet, StopNotify, StopJoined
<1>7. CASE UNCHANGED vars
  BY Zenon, <1>7, <1>4 DEF vars
<1> QED BY ZenonT(30), <1>3, <1>5, <1>6, <1>7 DEF Next

\* TasksAreTaken holds in every state of every ConcurrentTaskQueue: queueFunc()
\* and runTaskInQueue() never leave a worker asleep while a task has nobody on
\* its way to it, and no task is lost, run twice or, among the tasks of one
\* thread, taken out of order, whoever stops the queue and when.
THEOREM TasksAreTakenHolds == Spec => []TasksAreTaken
<1>1. IInv /\ [Next]_vars => IInv'
  BY Zenon, TypeStep, MutexStep, NoIdleStep, OrderStep, HandsStep DEF IInv
<1>2. IInv => TasksAreTaken
  <2> SUFFICES ASSUME IInv PROVE TasksAreTaken
    BY Zenon
  <2>1. ASSUME NEW w \in Workers, NEW t \in Users, pc[t] = "synced"
        PROVE  task[w] # <<t, submitted[t]>>
    <3>1. <<t, submitted[t]>> \in finished /\ <<t, submitted[t]>> # NoTask
      BY Zenon, <2>1, TasksAssumption DEF IInv, HandsInv, TypeOK, Tasks, Threads
    <3> QED BY Zenon, <3>1 DEF IInv, HandsInv
  <2>2. \A w \in Workers : task[w] # NoTask => task[w] \notin finished
    BY Zenon DEF IInv, HandsInv
  <2>3. TasksOnce
    BY <2>1, <2>2, Zenon DEF IInv, OrderInv, TasksOnce, Seen, Submitted
  <2> QED BY Zenon, <2>3 DEF IInv, TasksAreTaken
<1> QED BY InitInv, <1>1, <1>2, PTL DEF Spec
=============================================================================
