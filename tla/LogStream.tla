------------------------------ MODULE LogStream ------------------------------
(***************************************************************************)
(* trantor::LogStream (utils/LogStream.h, utils/LogStream.cc): the text of *)
(* a log line is put into a buffer of fixed size and, from the first item  *)
(* on that might not fit, into a string that takes over what is there.     *)
(*                                                                         *)
(* A character is a number: the digits are themselves, and every item of   *)
(* text has a character of its own.  The sizes and the widths are scaled.  *)
(***************************************************************************)
EXTENDS Integers, Sequences, SequencesExt

CONSTANTS Capacity,   \* kSmallBuffer
          IntBits,    \* bits of an int and of a uintptr_t
          Digits10,   \* numeric_limits<int>::digits10
          Ints,       \* the integers that are logged
          RealSize,   \* kMaxNumericSize of a double
          Texts,      \* the lengths of the texts that are logged
          MaxItems    \* bound: items of a line

Minus == -1
Ex == 16   \* the x of 0x

VARIABLES
  buffer,    \* the first length() bytes of buffer_
  exBuffer,  \* exBuffer_
  written,   \* history: every character that was logged
  items,     \* the items logged so far
  overrun    \* history: a byte was written behind the room that there was

vars == <<buffer, exBuffer, written, items, overrun>>

LInit ==
  /\ buffer = <<>> /\ exBuffer = <<>> /\ written = <<>>
  /\ items = 0 /\ overrun = FALSE

Avail == Capacity - Len(buffer)

-----------------------------------------------------------------------------
\* The digits of a number, the last one first, until nothing is left: the
\* remainder of a negative number is negative, its digit is the opposite.
DigitsOf(v, base) ==
  LET n == IF v < 0 THEN -v ELSE v
      count == CHOOSE k \in 1 .. IntBits :
                 n < base^k /\ (k = 1 \/ n >= base^(k - 1))
  IN [i \in 1 .. count |-> (n \div base^(i - 1)) % base]

\* convert(), without the character that ends the string
Convert(v) == Reverse(DigitsOf(v, 10) \o (IF v < 0 THEN <<Minus>> ELSE <<>>))

ConvertHex(v) == Reverse(DigitsOf(v, 16))

\* append(): FixedBuffer::append() refuses what would fill the buffer.
MutAppend(data) ==
  /\ IF exBuffer = <<>> /\ Avail > Len(data)
       THEN buffer' = buffer \o data /\ UNCHANGED exBuffer
       ELSE exBuffer' = exBuffer \o data /\ UNCHANGED buffer
  /\ UNCHANGED overrun
Append_(data) ==
  /\ IF exBuffer = <<>>
       THEN IF Avail > Len(data)
              THEN buffer' = buffer \o data /\ UNCHANGED exBuffer
              ELSE exBuffer' = buffer \o data /\ UNCHANGED buffer
       ELSE exBuffer' = exBuffer \o data /\ UNCHANGED buffer
  /\ UNCHANGED overrun

\* formatInteger() and the operators for pointers and reals: the characters and
\* the one that ends them are written in place, into room for size characters.
FormatNumber(size, chars) ==
  /\ IF exBuffer = <<>> /\ Avail >= size
       THEN buffer' = buffer \o chars /\ UNCHANGED exBuffer
       ELSE /\ exBuffer' = (IF exBuffer = <<>> THEN buffer ELSE exBuffer) \o chars
            /\ UNCHANGED buffer
  /\ overrun' = (overrun \/ Len(chars) + 1 > size)

Item(chars) ==
  /\ items < MaxItems
  /\ items' = items + 1 /\ written' = written \o chars

Text(n) ==
  LET chars == [i \in 1 .. n |-> 100 + items]
  IN Item(chars) /\ Append_(chars)

Integer(v) == Item(Convert(v)) /\ FormatNumber(Digits10 + 4, Convert(v))

Pointer(v) ==
  LET chars == <<0, Ex>> \o ConvertHex(v)
  IN Item(chars) /\ FormatNumber(IntBits \div 4 + 4, chars)

\* snprintf("%.12g") never makes as many characters as there is room for.
Real(n) ==
  LET chars == [i \in 1 .. n |-> 100 + items]
  IN Item(chars) /\ FormatNumber(RealSize, chars)

ResetBuffer ==
  /\ items > 0
  /\ buffer' = <<>> /\ exBuffer' = <<>> /\ written' = <<>>
  /\ UNCHANGED <<items, overrun>>

LNext ==
  \/ \E n \in Texts : Text(n)
  \/ \E v \in Ints : Integer(v)
  \/ \E v \in Ints : v >= 0 /\ Pointer(v + 2^(IntBits - 1))
  \/ \E n \in {1, RealSize - 1} : Real(n)
  \/ ResetBuffer

-----------------------------------------------------------------------------
\* bufferData() and bufferLength()
BufferData == IF exBuffer # <<>> THEN exBuffer ELSE buffer

\* The number that a string of digits stands for
ValueOf(chars) ==
  LET Magnitude(digits) == FoldLeft(LAMBDA n, digit : n * 10 + digit, 0, digits)
  IN IF chars[1] = Minus THEN -Magnitude(Tail(chars)) ELSE Magnitude(chars)

\* The text that a logger hands to its output function is every item in order,
\* whether it fitted into the buffer or went on into the string; an integer is
\* printed as itself; nothing is written behind the end of either buffer.
LineIsWhole ==
  /\ BufferData = written /\ ~overrun
  /\ Len(buffer) <= Capacity
  /\ \A v \in Ints : ValueOf(Convert(v)) = v
=============================================================================
