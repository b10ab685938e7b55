------------------------------- MODULE Strings -------------------------------
(***************************************************************************)
(* The loops over strings of utils/Utilities.cc and utils/Funcs.h: from    *)
(* wide characters to UTF-8 and back (as built for C++17), the digits of a *)
(* digest, and splitString().  A step is one round of the loop.            *)
(*                                                                         *)
(* A byte and a wide character are numbers; a wchar_t has 32 bits.         *)
(***************************************************************************)
EXTENDS Naturals, Sequences, SequencesExt

CONSTANTS Chars,       \* the wide characters of a text
          MaxText,     \* bound: characters of a text
          MaxString    \* bound: characters of a string that is split

VARIABLES
  job,    \* the function that runs, or the result that there is
  input,  \* what it reads
  pos,    \* characters read
  out,    \* what it has made
  origin  \* what the first function was called with

vars == <<job, input, pos, out, origin>>

Letter == 97
Delim == 58
Given(text, delimiter, acceptEmpty) ==
  [text |-> text, delimiter |-> delimiter, acceptEmpty |-> acceptEmpty, cut |-> FALSE]

StInit ==
  /\ pos = 0 /\ out = <<>>
  /\ \/ /\ job \in {"toUtf8", "toHexString"}
        /\ input \in SeqOf(Chars, MaxText)
        /\ job = "toHexString" => \A i \in DOMAIN input : input[i] < 256
        /\ origin = Given(input, <<>>, FALSE)
     \/ /\ job = "splitString"
        /\ input \in SeqOf({Letter, Delim}, MaxString)
        /\ \E delimiter \in {<<>>, <<Delim>>, <<Delim, Delim>>, <<Delim, Letter>>}, b \in BOOLEAN :
             origin = Given(input, delimiter, b)

Left == Len(input) - pos
At(k) == input[pos + 1 + k]

-----------------------------------------------------------------------------
\* utf16Toutf8(): the bytes of one character
Encode(c) ==
  IF c <= 127 THEN <<c>>
  ELSE IF c <= 2047 THEN <<192 + ((c \div 64) % 32), 128 + (c % 64)>>
  ELSE <<224 + ((c \div 4096) % 16), 128 + ((c \div 64) % 64), 128 + (c % 64)>>

ToUtf8 ==
  /\ job = "toUtf8"
  /\ IF Left > 0
       THEN out' = out \o Encode(At(0)) /\ pos' = pos + 1 /\ UNCHANGED <<job, input>>
       ELSE /\ job' = "fromUtf8" /\ input' = out /\ out' = <<>> /\ pos' = 0
  /\ UNCHANGED origin

\* utf8Toutf16(): the bytes that the first one asks for; 0 for one that begins
\* no character of up to three bytes
MutWidth(byte) == IF byte < 128 THEN 1 ELSE IF byte < 224 THEN 2 ELSE 3
Width(byte) ==
  IF byte < 128 THEN 1
  ELSE IF byte \div 32 = 6 THEN 2
  ELSE IF byte \div 16 = 14 THEN 3 ELSE 0

Decode(width) ==
  IF width = 1 THEN At(0)
  ELSE IF width = 2 THEN (At(0) % 32) * 64 + (At(1) % 64)
  ELSE (At(0) % 16) * 4096 + (At(1) % 64) * 64 + (At(2) % 64)

FromUtf8 ==
  /\ job = "fromUtf8"
  /\ IF Left = 0 THEN job' = "text" /\ UNCHANGED <<out, pos>>
     ELSE LET width == Width(At(0))
          IN IF width = 0 \/ width > Left
               THEN job' = "text" /\ out' = <<>> /\ UNCHANGED pos
               ELSE /\ out' = Append(out, Decode(width)) /\ pos' = pos + width
                    /\ UNCHANGED job
  /\ UNCHANGED <<input, origin>>

\* The bytes are read again without the first or the last one.
Cut(bytes) ==
  /\ job = "text" /\ ~origin.cut /\ input # <<>>
  /\ job' = "fromUtf8" /\ input' = bytes /\ pos' = 0 /\ out' = <<>>
  /\ origin' = [origin EXCEPT !.cut = TRUE]

\* toHexString()
ToHexString ==
  /\ job = "toHexString"
  /\ IF Left > 0
       THEN out' = out \o <<At(0) \div 16, At(0) % 16>> /\ pos' = pos + 1 /\ UNCHANGED job
       ELSE job' = "hex" /\ UNCHANGED <<out, pos>>
  /\ UNCHANGED <<input, origin>>

-----------------------------------------------------------------------------
\* std::string::find() from pos on: where the delimiter begins
Found(delimiter) ==
  {k \in pos .. Len(input) - Len(delimiter) :
     SubSeq(input, k + 1, k + Len(delimiter)) = delimiter}

\* splitString()
SplitString ==
  LET delimiter == origin.delimiter
      Push(part) == IF part # <<>> \/ origin.acceptEmpty THEN Append(out, part) ELSE out
  IN /\ job = "splitString"
     /\ IF delimiter = <<>> THEN job' = "split" /\ UNCHANGED <<out, pos>>
        ELSE IF Found(delimiter) = {}
          THEN job' = "split" /\ out' = Push(SubSeq(input, pos + 1, Len(input))) /\ UNCHANGED pos
          ELSE LET next == CHOOSE k \in Found(delimiter) : \A l \in Found(delimiter) : k <= l
               IN /\ out' = Push(SubSeq(input, pos + 1, next))
                  /\ pos' = next + Len(delimiter) /\ UNCHANGED job
     /\ UNCHANGED <<input, origin>>

StNext ==
  \/ ToUtf8 \/ FromUtf8 \/ ToHexString \/ SplitString
  \/ Cut(Front(input)) \/ Cut(Tail(input))

-----------------------------------------------------------------------------
\* What fromUtf8() makes of the bytes of toUtf8() is the text, if no character
\* is above 0xFFFF; without its first or last byte the text loses one character
\* of one byte, or nothing of it is returned.  (A first byte that is missing
\* leaves a continuation byte in front, which begins no character.)
TextReadBack ==
  job = "text" /\ (\A i \in DOMAIN origin.text : origin.text[i] <= 65535) =>
    IF ~origin.cut THEN out = origin.text
    ELSE out \in {<<>>, Front(origin.text), Tail(origin.text)}

\* The parts of splitString(), put together with the delimiter, are the string;
\* no part has the delimiter inside; an empty part is kept only on demand, and
\* without the empty ones the others are the same.  Parts[i] is the string from
\* character i on, cut at each delimiter.
PartsOfString ==
  LET delimiter == origin.delimiter
      Parts[i \in 0 .. Len(origin.text)] ==
        LET cuts == {k \in i .. Len(origin.text) - Len(delimiter) :
                       SubSeq(origin.text, k + 1, k + Len(delimiter)) = delimiter}
            first == CHOOSE k \in cuts : \A l \in cuts : k <= l
        IN IF cuts = {} THEN <<SubSeq(origin.text, i + 1, Len(origin.text))>>
           ELSE <<SubSeq(origin.text, i + 1, first)>> \o Parts[first + Len(delimiter)]
      Joined == FoldLeft(LAMBDA s, part : s \o delimiter \o part, Head(out), Tail(out))
  IN job = "split" /\ delimiter # <<>> =>
       /\ \A i \in DOMAIN out : ~\E k \in 0 .. Len(out[i]) - Len(delimiter) :
            SubSeq(out[i], k + 1, k + Len(delimiter)) = delimiter
       /\ IF origin.acceptEmpty THEN Joined = origin.text
          ELSE out = SelectSeq(Parts[0], LAMBDA part : part # <<>>)

\* Two digits for every byte, the high one first
DigitsOfBytes ==
  job = "hex" =>
    /\ Len(out) = 2 * Len(origin.text)
    /\ \A i \in DOMAIN origin.text : origin.text[i] = 16 * out[2 * i - 1] + out[2 * i]

\* What the string functions return keeps what they were given: see the three
\* above.
StringsAreKept == TextReadBack /\ PartsOfString /\ DigitsOfBytes
=============================================================================
