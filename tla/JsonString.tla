----------------------------- MODULE JsonString -----------------------------
(***************************************************************************)
(* The string routines of cJSON.c: parse_string measures a literal,        *)
(* allocates its output and copies the literal to it, undoing the escapes; *)
(* print_string_ptr makes a literal of a string.  Offsets count from zero, *)
(* from the opening quote; a byte is a number.                             *)
(***************************************************************************)
EXTENDS Integers, Sequences, FiniteSets

CONSTANTS Literals,   \* the texts at which parse_string is called, each with
                      \* its meaning, and the marks that show that it means
                      \* this; or NoMeaning if it is not well formed
          Printed,    \* the strings that are printed and parsed again
          NoMeaning

Bytes == 0 .. 255

Quote == 34
Backslash == 92
LetterU == 117

(* The value of a hexadecimal digit, or -1. *)
Hex(b) ==
    IF b \in 48 .. 57 THEN b - 48
    ELSE IF b \in 65 .. 70 THEN b - 55
    ELSE IF b \in 97 .. 102 THEN b - 87
    ELSE -1

(* What a literal means, by the grammar of JSON and the tables of UTF-8:   *)
(* u is the encoding of code point c, of as few bytes as c needs,          *)
Follower == 128 .. 191
LeadOfTwo == 194 .. 223
LeadOfThree == 224 .. 239
LeadOfFour == 240 .. 244

OfTwo(i, j) == 64 * (i - 192) + (j - 128)
OfThree(i, j, k) == 4096 * (i - 224) + 64 * (j - 128) + (k - 128)
OfFour(i, j, k, l) ==
    262144 * (i - 240) + 4096 * (j - 128) + 64 * (k - 128) + (l - 128)

NeedsThree(c) == c >= 2048
NeedsFour(c) == c >= 65536

Encodes(u, c) ==
    /\ \A k \in 2 .. Len(u) : u[k] \in Follower
    /\ \/ Len(u) = 1 /\ u[1] \in 0 .. 127 /\ c = u[1]
       \/ Len(u) = 2 /\ u[1] \in LeadOfTwo /\ c = OfTwo(u[1], u[2])
       \/ /\ Len(u) = 3 /\ u[1] \in LeadOfThree
          /\ c = OfThree(u[1], u[2], u[3]) /\ NeedsThree(c)
       \/ /\ Len(u) = 4 /\ u[1] \in LeadOfFour
          /\ c = OfFour(u[1], u[2], u[3], u[4]) /\ NeedsFour(c)

(* an escape from offset o gives a unit of UTF-16,                         *)
IsEscape(l, o) ==
    /\ l[o + 1] = Backslash /\ l[o + 2] = LetterU
    /\ \A k \in 3 .. 6 : Hex(l[o + k]) # -1

Unit(l, o) == 4096 * Hex(l[o + 3]) + 256 * Hex(l[o + 4])
                  + 16 * Hex(l[o + 5]) + Hex(l[o + 6])

HighSurrogates == 55296 .. 56319
LowSurrogates == 56320 .. 57343
OfPair(c, d) == 65536 + 1024 * (c - 55296) + (d - 56320)

ShortEscapes ==
    {<<98, 8>>, <<102, 12>>, <<110, 10>>, <<114, 13>>, <<116, 9>>,
     <<Quote, Quote>>, <<Backslash, Backslash>>, <<47, 47>>}

(* and u is what the character from offset o up to p stands for.           *)
Character(l, o, p, u) ==
    \/ /\ p = o + 1 /\ l[o + 1] \in (32 .. 255) \ {Quote, Backslash}
       /\ u = <<l[o + 1]>>
    \/ /\ p = o + 2 /\ l[o + 1] = Backslash
       /\ \E e \in ShortEscapes : l[o + 2] = e[1] /\ u = <<e[2]>>
    \/ /\ p = o + 6 /\ IsEscape(l, o)
       /\ Unit(l, o) \notin HighSurrogates \cup LowSurrogates
       /\ Encodes(u, Unit(l, o))
    \/ /\ p = o + 12 /\ IsEscape(l, o) /\ IsEscape(l, o + 6)
       /\ Unit(l, o) \in HighSurrogates /\ Unit(l, o + 6) \in LowSurrogates
       /\ Encodes(u, OfPair(Unit(l, o), Unit(l, o + 6)))

(* The marks lie between the characters of a literal: how far it is there, *)
(* and how far its meaning.                                                *)
AreMarks(l, m, marks) ==
    LET last == marks[Len(marks)]
    IN  /\ marks \in Seq([at : Nat, of : Nat]) /\ marks # <<>>
        /\ marks[1] = [at |-> 1, of |-> 0]
        /\ \A k \in DOMAIN marks :
               marks[k].at \in 1 .. last.at /\ marks[k].of \in 0 .. Len(m)
        /\ \A k \in 1 .. Len(marks) - 1 :
               Character(l, marks[k].at, marks[k + 1].at,
                         SubSeq(m, marks[k].of + 1, marks[k + 1].of))

Means(l, m, marks) ==
    LET last == marks[Len(marks)]
    IN  /\ AreMarks(l, m, marks)
        /\ last.at < Len(l) /\ l[last.at + 1] = Quote
        /\ last.of = Len(m)

ASSUME JsonStringAssumption ==
    /\ \A l \in Literals :
           /\ l.bytes \in Seq(Bytes) /\ l.bytes # <<>>
           /\ l.meaning \in Seq(Bytes) \cup {NoMeaning}
           /\ l.meaning # NoMeaning => Means(l.bytes, l.meaning, l.marks)
    /\ Printed \subseteq Seq(1 .. 255)
    /\ NoMeaning \notin Seq(Bytes)

VARIABLES literal,         \* the bytes of the buffer from the literal on
          meaning,         \* what the literal stands for
          phase,
          unprinted,       \* what is left to print
          output_length,   \* what print_string_ptr has asked for
          input_end, input_pointer,
          escapes,         \* the backslashes that skipped_bytes counts
          allocation,      \* the size of the output
          output

printing_vars == <<unprinted, output_length>>
string_vars == <<literal, meaning, phase, printing_vars, input_end,
                 input_pointer, escapes, allocation, output>>

Byte(o) == literal[o + 1]

(* The second byte of an escape of two, and what it stands for. *)
Unescaped ==
    [b \in {98, 102, 110, 114, 116, Quote, Backslash, 47} |->
        CASE b = 98 -> 8 [] b = 102 -> 12 [] b = 110 -> 10
          [] b = 114 -> 13 [] b = 116 -> 9 [] OTHER -> b]

(* What print_string_ptr writes for a byte. *)
HexDigit(d) == IF d < 10 THEN 48 + d ELSE 87 + d

Escaped(b) ==
    IF b = 8 THEN <<Backslash, 98>>
    ELSE IF b = 9 THEN <<Backslash, 116>>
    ELSE IF b = 10 THEN <<Backslash, 110>>
    ELSE IF b = 12 THEN <<Backslash, 102>>
    ELSE IF b = 13 THEN <<Backslash, 114>>
    ELSE IF b \in {Quote, Backslash} THEN <<Backslash, b>>
    ELSE IF b > 31 THEN <<b>>
    ELSE <<Backslash, LetterU, 48, 48, HexDigit(b \div 16), HexDigit(b % 16)>>

(* The five more bytes of a control character are taken for one. *)
FaultyEscapeCharacters(b) == IF b < 32 \/ b \in {Quote, Backslash} THEN 1 ELSE 0

(* What it counts for the byte beforehand. *)
EscapeCharacters(b) ==
    IF b \in {8, 9, 10, 12, 13, Quote, Backslash} THEN 1
    ELSE IF b < 32 THEN 5 ELSE 0

(* parse_hex4: zero when a digit is invalid. *)
parse_hex4(o) ==
    IF \E k \in 0 .. 3 : Hex(Byte(o + k)) = -1 THEN 0
    ELSE 4096 * Hex(Byte(o)) + 256 * Hex(Byte(o + 1))
             + 16 * Hex(Byte(o + 2)) + Hex(Byte(o + 3))

High(code) == code \in 55296 .. 56319
Low(code) == code \in 56320 .. 57343

(* A surrogate pair is taken for two characters. *)
FaultyCodepoint(first, second) == first

Codepoint(first, second) ==
    IF High(first) THEN 65536 + 1024 * (first % 1024) + (second % 1024)
    ELSE first

(* Codepoint to UTF-8. *)
Utf8(c) ==
    IF c < 128 THEN <<c>>
    ELSE IF c < 2048 THEN <<192 + (c \div 64), 128 + (c % 64)>>
    ELSE IF c < 65536 THEN
        <<224 + (c \div 4096), 128 + ((c \div 64) % 64), 128 + (c % 64)>>
    ELSE <<240 + (c \div 262144), 128 + ((c \div 4096) % 64),
           128 + ((c \div 64) % 64), 128 + (c % 64)>>

StringInit ==
    /\ \/ /\ \E l \in Literals : literal = l.bytes /\ meaning = l.meaning
          /\ phase = "scan"
          /\ unprinted = <<>>
       \/ /\ literal = <<Quote>>
          /\ meaning \in Printed
          /\ phase = "print"
          /\ unprinted = meaning
    /\ output_length = 0
    /\ input_end = 1 /\ input_pointer = 1
    /\ escapes = {} /\ allocation = 0 /\ output = <<>>
-----------------------------------------------------------------------------
(* print_string_ptr: the next byte is counted and, later, written. *)
PrintByte ==
    /\ phase = "print" /\ unprinted # <<>>
    /\ literal' = literal \o Escaped(Head(unprinted))
    /\ output_length' = output_length + 1 + EscapeCharacters(Head(unprinted))
    /\ unprinted' = Tail(unprinted)
    /\ UNCHANGED <<meaning, phase, input_end, input_pointer, escapes,
                   allocation, output>>

(* The closing quote goes where the count says; the NUL follows it. *)
PrintEnd ==
    /\ phase = "print" /\ unprinted = <<>>
    /\ literal' = literal \o <<Quote, 0>>
    /\ phase' = "scan"
    /\ UNCHANGED <<meaning, printing_vars, input_end, input_pointer, escapes,
                   allocation, output>>

NoOutput == phase' = "refused" /\ UNCHANGED <<input_end, escapes>>

(* parse_string: the search for the closing quote, which skips escapes. *)
Scan ==
    /\ phase = "scan"
    /\ input_end < Len(literal) /\ Byte(input_end) # Quote
    /\ \/ /\ Byte(input_end) = Backslash
          /\ input_end + 1 >= Len(literal)
          /\ NoOutput
       \/ /\ Byte(input_end) = Backslash => input_end + 1 < Len(literal)
          /\ IF Byte(input_end) = Backslash
             THEN /\ escapes' = escapes \cup {input_end}
                  /\ input_end' = input_end + 2
             ELSE input_end' = input_end + 1 /\ UNCHANGED escapes
          /\ UNCHANGED phase
    /\ UNCHANGED <<literal, meaning, printing_vars, input_pointer, allocation,
                   output>>

(* Room for the bytes between the quotes, forgetting the quote and the NUL. *)
FaultyAllocated == input_end - 2 * Cardinality(escapes)

(* The literal and its opening quote, less the backslashes, and the NUL. *)
Allocated == input_end - Cardinality(escapes) + 1

(* The literal is not closed, memory is refused, or it is allocated. *)
ScanEnd ==
    /\ phase = "scan"
    /\ \/ input_end >= Len(literal) /\ NoOutput /\ UNCHANGED allocation
       \/ /\ input_end < Len(literal) /\ Byte(input_end) = Quote
          /\ \/ NoOutput /\ UNCHANGED allocation
             \/ /\ allocation' = Allocated
                /\ phase' = "unescape"
                /\ UNCHANGED <<input_end, escapes>>
    /\ UNCHANGED <<literal, meaning, printing_vars, input_pointer, output>>

Emit(bytes, consumed) ==
    /\ output' = output \o bytes
    /\ input_pointer' = input_pointer + consumed
    /\ UNCHANGED <<literal, meaning, phase, printing_vars, input_end, escapes,
                   allocation>>

Unescaping == phase = "unescape" /\ input_pointer < input_end

Copy ==
    /\ Unescaping
    /\ Byte(input_pointer) # Backslash
    /\ Emit(<<Byte(input_pointer)>>, 1)

ShortEscape ==
    /\ Unescaping
    /\ Byte(input_pointer) = Backslash
    /\ Byte(input_pointer + 1) \in DOMAIN Unescaped
    /\ Emit(<<Unescaped[Byte(input_pointer + 1)]>>, 2)

(* The two bytes of the escape are forgotten. *)
FaultyLeft(o, n) == input_end - o >= n - 2

(* At least n bytes are left of the literal. *)
Left(o, n) == input_end - o >= n

(* utf16_literal_to_utf8, when it converts: one escape, or a pair. *)
ConvertsOne ==
    /\ Left(input_pointer, 6)
    /\ ~ High(parse_hex4(input_pointer + 2))
    /\ ~ Low(parse_hex4(input_pointer + 2))

ConvertsPair ==
    /\ Left(input_pointer, 6)
    /\ High(parse_hex4(input_pointer + 2))
    /\ Left(input_pointer + 6, 6)
    /\ Byte(input_pointer + 6) = Backslash
    /\ Byte(input_pointer + 7) = LetterU
    /\ Low(parse_hex4(input_pointer + 8))

Utf16Escape ==
    /\ Unescaping
    /\ Byte(input_pointer) = Backslash
    /\ Byte(input_pointer + 1) = LetterU
    /\ LET first == parse_hex4(input_pointer + 2)
       IN \/ ConvertsOne /\ Emit(Utf8(Codepoint(first, 0)), 6)
          \/ /\ ConvertsPair
             /\ Emit(Utf8(Codepoint(first, parse_hex4(input_pointer + 8))), 12)

(* Any other escape; the output is freed. *)
BadEscape ==
    /\ Unescaping
    /\ Byte(input_pointer) = Backslash
    /\ \/ Byte(input_pointer + 1) \notin DOMAIN Unescaped \cup {LetterU}
       \/ /\ Byte(input_pointer + 1) = LetterU
          /\ ~ ConvertsOne /\ ~ ConvertsPair
    /\ phase' = "failed"
    /\ allocation' = 0 /\ output' = <<>>
    /\ UNCHANGED <<literal, meaning, printing_vars, input_end, input_pointer,
                   escapes>>

(* The NUL is written, and the item gets the output. *)
Finish ==
    /\ phase = "unescape" /\ input_pointer >= input_end
    /\ phase' = "parsed"
    /\ UNCHANGED <<literal, meaning, printing_vars, input_end, input_pointer,
                   escapes, allocation, output>>

StringEnded == phase \in {"parsed", "failed", "refused"} /\ UNCHANGED string_vars

StringNext ==
    \/ PrintByte \/ PrintEnd \/ Scan \/ ScanEnd
    \/ Copy \/ ShortEscape \/ Utf16Escape \/ BadEscape \/ Finish
    \/ StringEnded

StringSpec == StringInit /\ [][StringNext]_string_vars
-----------------------------------------------------------------------------
(* Every variable keeps its type, and the ends stay inside the buffer: the *)
(* pointer passes the closing quote by one byte at most.                   *)
StringTypeOK ==
    /\ literal \in Seq(Bytes) /\ literal # <<>>
    /\ meaning \in Seq(Bytes) \cup {NoMeaning}
    /\ phase \in {"print", "scan", "unescape", "parsed", "failed",
               "refused"}
    /\ unprinted \in Seq(1 .. 255)
    /\ output_length \in Nat
    /\ input_end \in 1 .. Len(literal)
    /\ input_pointer \in 1 .. input_end + 1
    /\ escapes \subseteq 1 .. input_end
    /\ allocation \in Nat
    /\ output \in Seq(Bytes)

(* What parse_string claims of its estimate, "this is at most how much we  *)
(* need for the output": at every moment the bytes written and the NUL fit *)
(* in the allocation, also when escapes are cut, overlap or are malformed. *)
OutputFits ==
    phase \in {"unescape", "parsed"} => Len(output) + 1 <= allocation

(* print_string_ptr writes exactly as many bytes as it has counted.        *)
PrintedFits ==
    phase = "print" => Len(literal) = output_length + 1

(* A well formed literal that memory suffices for is parsed to what it     *)
(* means, and a string that was printed is parsed to itself.               *)
MeaningKept ==
    /\ phase = "parsed" => meaning \in {output, NoMeaning}
    /\ phase = "failed" => meaning = NoMeaning
=============================================================================
