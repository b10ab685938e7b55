------------------------------- MODULE Hashing -------------------------------
(***************************************************************************)
(* trantor::utils' digests and random bytes when no TLS library gives them *)
(* (utils/crypto/*.cc, utils/Utilities.cc): how MD5, SHA-1, SHA-256, SHA-3 *)
(* and BLAKE2b cut a message into blocks, pad it and count it, and how     *)
(* secureRandomBytes() fills a buffer with digests.                        *)
(*                                                                         *)
(* The compression functions are left out: a chaining value is the         *)
(* sequence of the blocks that it was made from.  The sizes are scaled: a  *)
(* byte has ByteBits bits, a length field LenBytes bytes, a uint32_t half  *)
(* of them and a size_t or a uint64_t all of them.                         *)
(***************************************************************************)
EXTENDS Integers, Sequences, SequencesExt

CONSTANTS BlockBytes,  \* 64; 128 for BLAKE2b, 200 - 2 * mdlen for SHA-3
          LenBytes,    \* 8: bytes of the length at the end of the padding
          ByteBits,    \* 8
          HashBytes,   \* 32: sizeof(Hash256)
          ReseedCalls, \* 1024
          MaxMessage,  \* bound: bytes of a message
          MaxCalls     \* bound: calls of secureRandomBytes()

Algorithms == {"md5", "sha1", "sha256", "sha3", "blake2b"}
Radix == 2^ByteBits
Word == Radix^(LenBytes \div 2)

VARIABLES
  algo,   \* the digest that is computed
  msgLen, \* bytes of the message, -1 before the update
  ctx,    \* the context of the digest
  final,  \* the digest is done
  rng,    \* secureRandomBytes(): useCount, state.counter, and the seed's age
  filled  \* the last buffer: the digest that each byte comes from, and its index

hashVars == <<algo, msgLen, ctx, final>>
vars == <<hashVars, rng, filled>>

Garbage == -1        \* a byte of a buffer that nothing has written
Zero == 0
One == Radix \div 2  \* 0x80
\* The bytes of a message differ from those of the padding.
Message(n) == [i \in 1 .. n |-> Radix + i]
Zeros(n) == [i \in 1 .. n |-> Zero]
Blank == [i \in 1 .. BlockBytes |-> Garbage]

\* memcpy(&buf[at], bytes, Len(bytes))
Copy(buf, at, bytes) ==
  [k \in DOMAIN buf |-> IF k \in at + 1 .. at + Len(bytes) THEN bytes[k - at] ELSE buf[k]]

\* The bytes of a number, the least significant one first.
Bytes(n) == [i \in 1 .. LenBytes |-> (n \div Radix^(i - 1)) % Radix]

\* A message cut into blocks
Cut(bytes) ==
  [i \in 1 .. Len(bytes) \div BlockBytes |->
     SubSeq(bytes, (i - 1) * BlockBytes + 1, i * BlockBytes)]

-----------------------------------------------------------------------------
\* trantor_md5_init(), trantor_sha256_init(): data is not set.
Md5Init == [data |-> Blank, datalen |-> 0, bitlen |-> 0, state |-> <<>>]

\* One round of the loop of update()
Md5Byte(c, x) ==
  LET data == Copy(c.data, c.datalen, <<x>>)
  IN IF c.datalen + 1 = BlockBytes
       THEN [data |-> data, datalen |-> 0, bitlen |-> c.bitlen + BlockBytes * ByteBits,
             state |-> Append(c.state, data)]
       ELSE [c EXCEPT !.data = data, !.datalen = @ + 1]

Md5Update(c, bytes) == FoldLeft(Md5Byte, c, bytes)

MutRoomForLength(c) == c.datalen <= BlockBytes - LenBytes
RoomForLength(c) == c.datalen < BlockBytes - LenBytes

\* final() up to the length: the padding, with one more block when the length
\* has no room behind it.
Padded(c) ==
  LET To(n) == Copy(c.data, c.datalen, <<One>> \o Zeros(n - c.datalen - 1))
      whole == To(BlockBytes)
  IN IF RoomForLength(c)
       THEN [c EXCEPT !.data = To(BlockBytes - LenBytes)]
       ELSE [c EXCEPT !.data = Copy(whole, 0, Zeros(BlockBytes - LenBytes)),
                      !.state = Append(@, whole)]

\* final(): the length and the last block
Finish(c, length) ==
  Append(c.state, Copy(c.data, BlockBytes - LenBytes, length))

BitLen(c) == Bytes(c.bitlen + c.datalen * ByteBits)

Md5Final(c) == Finish(Padded(c), BitLen(c))

Sha256Init == Md5Init
Sha256Update(c, bytes) == FoldLeft(Md5Byte, c, bytes)
\* The index of the loop of trantor_sha256_update() is a uint32_t, the length a
\* size_t: the index never gets to a length that it cannot hold.
Sha256Ends(len) == len < Word
Sha256Final(c) == Finish(Padded(c), Reverse(BitLen(c)))

-----------------------------------------------------------------------------
\* SHA-1: count is a pair of size_t.
Sha1Init == [buffer |-> Blank, count |-> <<0, 0>>, state |-> <<>>]

Sha1Update(c, bytes) ==
  LET len == Len(bytes)
      count0 == (c.count[1] + len * ByteBits) % (Word * Word)
      carry == IF count0 < c.count[1] THEN 1 ELSE 0
      count1 == c.count[2] + carry + len \div (Word \div ByteBits)
      j == (c.count[1] \div ByteBits) % BlockBytes
      i == BlockBytes - j
      block == Copy(c.buffer, j, SubSeq(bytes, 1, i))
      whole == (len - i) \div BlockBytes
      rest == SubSeq(bytes, i + whole * BlockBytes + 1, len)
  IN IF j + len > BlockBytes - 1
       THEN [buffer |-> Copy(block, 0, rest), count |-> <<count0, count1>>,
             state |-> Append(c.state, block)
                         \o Cut(SubSeq(bytes, i + 1, i + whole * BlockBytes))]
       ELSE [c EXCEPT !.buffer = Copy(@, j, bytes), !.count = <<count0, count1>>]

\* trantor_sha1_final(): the padding goes through update() byte by byte.
Sha1Final(c) ==
  LET finalcount == Reverse(Bytes((c.count[2] % Word) * Word + (c.count[1] % Word)))
      Room(d) == (d.count[1] \div ByteBits) % BlockBytes = BlockBytes - LenBytes
      first == Sha1Update(c, <<One>>)
      Pad[k \in 0 .. BlockBytes] ==
        IF k = 0 THEN first
        ELSE IF Room(Pad[k - 1]) THEN Pad[k - 1] ELSE Sha1Update(Pad[k - 1], <<Zero>>)
  IN Sha1Update(Pad[BlockBytes], finalcount).state

-----------------------------------------------------------------------------
\* SHA-3: a byte of the state is the set of what was xored into it since the
\* last permutation.
Sha3Init == [st |-> [i \in 1 .. BlockBytes |-> {}], pt |-> 0, state |-> <<>>]

Xor(st, at, x) == [st EXCEPT ![at + 1] = (@ \ {x}) \cup ({x} \ @)]

Sha3Permute(c) ==
  [st |-> Sha3Init.st, pt |-> 0, state |-> Append(c.state, c.st)]

Sha3Byte(c, x) ==
  LET d == [c EXCEPT !.st = Xor(@, c.pt, x), !.pt = @ + 1]
  IN IF d.pt >= BlockBytes THEN Sha3Permute(d) ELSE d

Sha3Update(c, bytes) == FoldLeft(Sha3Byte, c, bytes)

Suffix == 1  \* 0x06

Sha3Final(c) ==
  Sha3Permute([c EXCEPT !.st = Xor(Xor(@, c.pt, Suffix), BlockBytes - 1, One)]).state

-----------------------------------------------------------------------------
\* BLAKE2b: a block is compressed with the counter t and the flag f.
Blake2bInit == [buf |-> Zeros(BlockBytes), buflen |-> 0, t |-> 0, h |-> <<>>]

Compress(s, block, n, f) ==
  [s EXCEPT !.t = @ + n, !.h = Append(@, [block |-> block, t |-> s.t + n, f |-> f])]

\* The buffer is kept even when it is full: the last block has a flag.
Overflows(s, len) == len > BlockBytes - s.buflen

Blake2bUpdate(s, bytes) ==
  LET fill == BlockBytes - s.buflen
      inlen == Len(bytes) - fill
      whole == (inlen - 1) \div BlockBytes
      blocks == <<Copy(s.buf, s.buflen, SubSeq(bytes, 1, fill))>>
                  \o Cut(SubSeq(bytes, fill + 1, fill + whole * BlockBytes))
      rest == SubSeq(bytes, fill + whole * BlockBytes + 1, Len(bytes))
      More(d, block) == Compress(d, block, BlockBytes, FALSE)
  IN IF Overflows(s, Len(bytes))
       THEN [FoldLeft(More, s, blocks) EXCEPT !.buf = Copy(blocks[1], 0, rest),
                                              !.buflen = Len(rest)]
       ELSE [s EXCEPT !.buf = Copy(@, s.buflen, bytes), !.buflen = @ + Len(bytes)]

Blake2bFinal(s) ==
  Compress(s, Copy(s.buf, s.buflen, Zeros(BlockBytes - s.buflen)), s.buflen, TRUE).h

-----------------------------------------------------------------------------
Contexts == [md5 |-> Md5Init, sha1 |-> Sha1Init, sha256 |-> Sha256Init,
             sha3 |-> Sha3Init, blake2b |-> Blake2bInit]

HInit ==
  /\ algo \in Algorithms /\ msgLen = -1 /\ ctx = Contexts[algo] /\ final = FALSE
  /\ rng = [useCount |-> 0, counter |-> 0, age |-> ReseedCalls + 1]
  /\ filled = <<>>

\* utils::md5() and the others: update() with the whole message, if it returns.
Update(n) ==
  /\ msgLen = -1
  /\ algo = "sha256" => Sha256Ends(n)
  /\ msgLen' = n
  /\ ctx' = CASE algo = "md5" -> Md5Update(ctx, Message(n))
             [] algo = "sha1" -> Sha1Update(ctx, Message(n))
             [] algo = "sha256" -> Sha256Update(ctx, Message(n))
             [] algo = "sha3" -> Sha3Update(ctx, Message(n))
             [] algo = "blake2b" -> Blake2bUpdate(ctx, Message(n))
  /\ UNCHANGED <<algo, final, rng, filled>>

\* Then final(): ctx becomes what the digest is made from.
Final ==
  /\ msgLen # -1 /\ ~final
  /\ final' = TRUE
  /\ ctx' = CASE algo = "md5" -> Md5Final(ctx)
             [] algo = "sha1" -> Sha1Final(ctx)
             [] algo = "sha256" -> Sha256Final(ctx)
             [] algo = "sha3" -> Sha3Final(ctx)
             [] algo = "blake2b" -> Blake2bFinal(ctx)
  /\ UNCHANGED <<algo, msgLen, rng, filled>>

\* secureRandomBytes(data, len): a digest for every HashBytes of the buffer,
\* of a state with a counter that no other digest had.
Fill(len, counter) ==
  LET Digest(c) == [i \in 1 .. HashBytes |-> <<c, i>>]
      PutDigest(buf, i) == Copy(buf, i * HashBytes, Digest(counter + i))
      whole == len \div HashBytes
      buf == FoldLeft(PutDigest, [i \in 1 .. len |-> <<>>], [i \in 1 .. whole |-> i - 1])
  IN Copy(buf, len - (len % HashBytes),
          SubSeq(Digest(counter + whole), 1, len % HashBytes))

SecureRandomBytes(len, entropy) ==
  /\ rng.counter < MaxCalls
  /\ IF rng.useCount = 0 /\ ~entropy
       THEN UNCHANGED <<rng, filled>>  \* returns false
       ELSE /\ filled' = Fill(len, rng.counter)
            /\ rng' = [useCount |-> (rng.useCount + 1) % ReseedCalls,
                       counter |-> rng.counter + len \div HashBytes
                                     + (IF len % HashBytes = 0 THEN 0 ELSE 1),
                       age |-> IF rng.useCount = 0 THEN 1 ELSE rng.age + 1]
  /\ UNCHANGED hashVars

HNext ==
  \/ \E n \in 0 .. MaxMessage : Update(n)
  \/ Final
  \/ /\ msgLen = -1
     /\ \E len \in 1 .. 2 * HashBytes + 1, entropy \in BOOLEAN :
          SecureRandomBytes(len, entropy)

-----------------------------------------------------------------------------
\* What the standards say that a message of n bytes becomes.
PaddedMessage(n, length) ==
  LET k == CHOOSE k \in 0 .. BlockBytes - 1 : (n + 1 + k + LenBytes) % BlockBytes = 0
  IN Cut(Message(n) \o <<One>> \o Zeros(k) \o length)

PaddedState(n) ==
  LET size == (n \div BlockBytes + 1) * BlockBytes
  IN Cut([i \in 1 .. size |-> (IF i <= n THEN {Message(n)[i]} ELSE {})
                                \cup (IF i = n + 1 THEN {Suffix} ELSE {})
                                \cup (IF i = size THEN {One} ELSE {})])

PaddedChunks(n) ==
  LET count == IF n = 0 THEN 1 ELSE (n + BlockBytes - 1) \div BlockBytes
      bytes == Message(n) \o Zeros(count * BlockBytes - n)
  IN [i \in 1 .. count |->
        [block |-> Cut(bytes)[i], t |-> IF i = count THEN n ELSE i * BlockBytes,
         f |-> i = count]]

\* Each digest is made from the message, all of it and in order, with the
\* padding and the length of its standard, for every length of the message:
\* around the end of a block, where the length has no room left, and past the
\* 32 bits of a word of SHA-1's count.  For SHA-256 this is every length below
\* 2^32 bytes: with a longer message there is no digest, as update() does not
\* return.
DigestInput ==
  final => ctx = CASE algo = "md5" -> PaddedMessage(msgLen, Bytes(msgLen * ByteBits))
                   [] algo \in {"sha1", "sha256"} ->
                        PaddedMessage(msgLen, Reverse(Bytes(msgLen * ByteBits)))
                   [] algo = "sha3" -> PaddedState(msgLen)
                   [] algo = "blake2b" -> PaddedChunks(msgLen)

\* secureRandomBytes() that returns true has set every byte of the buffer, no
\* two from the same byte of a digest, and its secret is at most 1024 calls old.
RandomIsWhole ==
  /\ filled # <<>> => rng.age <= ReseedCalls
  /\ \A i, j \in DOMAIN filled :
       filled[i] # <<>> /\ (filled[i] = filled[j] => i = j)
=============================================================================
