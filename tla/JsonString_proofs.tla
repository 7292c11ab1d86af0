-------------------------- MODULE JsonString_proofs --------------------------
(***************************************************************************)
(* Proofs about JsonString, for literals and strings of every length and   *)
(* content: nothing is read or written outside the buffers, and what is    *)
(* well formed is parsed to what it means.                                 *)
(*                                                                         *)
(* The estimate of parse_string counts the backslashes that its first loop *)
(* skips.  That loop and the one that writes need not agree on where an    *)
(* escape begins, but no two of the skipped backslashes are adjacent: of   *)
(* an even number of bytes at most half are skipped, and no escape of 2,   *)
(* 6 or 12 bytes writes more than the other half.                          *)
(***************************************************************************)
EXTENDS JsonString, SequenceTheorems, FiniteSetTheorems, TLAPS

(* The skipped backslashes before an offset. *)
Before(p) == {e \in escapes : e < p}
Skipped(p) == Cardinality(Before(p))

Spaced ==
    \A e \in escapes :
        /\ e + 1 \notin escapes
        /\ e + 2 <= input_end
        /\ literal[e + 1] = Backslash

Inside ==
    /\ phase = "print" => escapes = {} /\ input_end = 1
    /\ phase \in {"print", "scan"} => output = <<>> /\ input_pointer = 1
    /\ phase = "unescape" =>
           /\ input_end < Len(literal)
           /\ allocation = Allocated
           /\ Len(output) <= input_pointer - 1 - Skipped(input_pointer)

StringIInv ==
    /\ StringTypeOK
    /\ Spaced
    /\ Inside
    /\ OutputFits
    /\ PrintedFits
-----------------------------------------------------------------------------
(***************************************************************************)
(* What the helpers return.                                                *)
(***************************************************************************)
LEMMA BeforeFinite ==
    ASSUME StringTypeOK, NEW p
    PROVE  /\ IsFiniteSet(escapes) /\ Cardinality(escapes) \in 0 .. input_end
           /\ IsFiniteSet(Before(p)) /\ Skipped(p) \in Nat
           /\ Skipped(p) <= Cardinality(escapes)
<1>1. input_end \in Nat /\ escapes \in SUBSET (1 .. input_end)
  BY DEF StringTypeOK
<1>2. /\ IsFiniteSet(1 .. input_end)
      /\ Cardinality(1 .. input_end) <= input_end
  BY <1>1, FS_Interval
<1>3. IsFiniteSet(escapes) /\ Cardinality(escapes) \in 0 .. input_end
  <2>1. /\ IsFiniteSet(escapes)
        /\ Cardinality(escapes) <= Cardinality(1 .. input_end)
    BY <1>1, <1>2, FS_Subset
  <2>2. Cardinality(escapes) \in Nat /\ Cardinality(1 .. input_end) \in Nat
    BY <1>2, <2>1, FS_CardinalityType
  <2> QED
    BY <1>1, <1>2, <2>1, <2>2
<1>4. Before(p) \in SUBSET escapes
  BY DEF Before
<1>5. /\ IsFiniteSet(Before(p))
      /\ Cardinality(Before(p)) <= Cardinality(escapes)
  BY <1>3, <1>4, FS_Subset
<1> QED
  BY <1>1, <1>3, <1>5, FS_CardinalityType DEF Skipped

(* A byte that is no backslash was not skipped. *)
LEMMA SkippedOne ==
    ASSUME StringTypeOK, Spaced, NEW p \in Nat, Byte(p) # Backslash
    PROVE  Skipped(p + 1) = Skipped(p)
<1>1. p \notin escapes
  BY DEF Spaced, Byte
<1>2. Before(p + 1) = Before(p)
  <2>1. escapes \subseteq Int
    BY DEF StringTypeOK
  <2>2. ASSUME NEW e \in escapes PROVE e < p + 1 <=> e < p
    BY <1>1, <2>1
  <2> QED
    BY <2>2 DEF Before
<1> QED
  BY <1>2 DEF Skipped

(* Of two adjacent bytes at most one was skipped. *)
LEMMA SkippedTwo ==
    ASSUME StringTypeOK, Spaced, NEW p \in Nat
    PROVE  Skipped(p + 2) <= Skipped(p) + 1
<1>1. PICK q : q = IF p \in escapes THEN p ELSE p + 1
  OBVIOUS
<1>2. Before(p + 2) \in SUBSET (Before(p) \cup {q})
  <2>1. escapes \subseteq Int
    BY DEF StringTypeOK
  <2>2. p \in escapes => p + 1 \notin escapes
    BY DEF Spaced
  <2>3. ASSUME NEW e \in escapes, e < p + 2 PROVE e < p \/ e = q
    BY <1>1, <2>1, <2>2, <2>3
  <2> QED
    BY <2>3 DEF Before
<1>3. IsFiniteSet(Before(p)) /\ Skipped(p) \in Nat
  BY BeforeFinite
<1>4. /\ IsFiniteSet(Before(p) \cup {q})
      /\ Cardinality(Before(p) \cup {q}) <= Skipped(p) + 1
  BY <1>3, FS_AddElement DEF Skipped
<1>5. Skipped(p + 2) <= Cardinality(Before(p) \cup {q})
  BY <1>2, <1>4, FS_Subset DEF Skipped
<1>6. Skipped(p + 2) \in Nat /\ Cardinality(Before(p) \cup {q}) \in Nat
  BY <1>4, BeforeFinite, FS_CardinalityType
<1> QED
  BY <1>3, <1>4, <1>5, <1>6

LEMMA SkippedSix ==
    ASSUME StringTypeOK, Spaced, NEW p \in Nat
    PROVE  Skipped(p + 6) <= Skipped(p) + 3
<1>1. /\ Skipped(p + 2) <= Skipped(p) + 1
      /\ Skipped((p + 2) + 2) <= Skipped(p + 2) + 1
      /\ Skipped((p + 4) + 2) <= Skipped(p + 4) + 1
  BY SkippedTwo
<1>2. (p + 2) + 2 = p + 4 /\ (p + 4) + 2 = p + 6
  OBVIOUS
<1>3. /\ Skipped(p) \in Nat /\ Skipped(p + 2) \in Nat
      /\ Skipped(p + 4) \in Nat /\ Skipped(p + 6) \in Nat
  BY BeforeFinite
<1> QED
  BY <1>1, <1>2, <1>3

LEMMA HexType ==
    ASSUME NEW b \in Bytes
    PROVE  Hex(b) \in -1 .. 15
BY DEF Hex, Bytes

LEMMA Hex4Type ==
    ASSUME NEW o \in Nat, literal \in Seq(Bytes), o + 4 <= Len(literal)
    PROVE  parse_hex4(o) \in Nat /\ parse_hex4(o) < 65536
<1>1. /\ Byte(o) \in Bytes /\ Byte(o + 1) \in Bytes
      /\ Byte(o + 2) \in Bytes /\ Byte(o + 3) \in Bytes
  BY SMT DEF Byte
<1>2. /\ Hex(Byte(o)) \in -1 .. 15 /\ Hex(Byte(o + 1)) \in -1 .. 15
      /\ Hex(Byte(o + 2)) \in -1 .. 15 /\ Hex(Byte(o + 3)) \in -1 .. 15
  BY SMT, <1>1, HexType
<1>3. CASE \E k \in 0 .. 3 : Hex(Byte(o + k)) = -1
  BY SMT, <1>3 DEF parse_hex4
<1>4. CASE ~ \E k \in 0 .. 3 : Hex(Byte(o + k)) = -1
  <2>1. /\ Hex(Byte(o + 0)) # -1 /\ Hex(Byte(o + 1)) # -1
        /\ Hex(Byte(o + 2)) # -1 /\ Hex(Byte(o + 3)) # -1
    BY SMT, <1>4
  <2>2. o + 0 = o
    BY SMT
  <2>3. parse_hex4(o) = 4096 * Hex(Byte(o)) + 256 * Hex(Byte(o + 1))
                           + 16 * Hex(Byte(o + 2)) + Hex(Byte(o + 3))
    BY SMT, <1>4 DEF parse_hex4
  <2>4. /\ Hex(Byte(o)) \in 0 .. 15 /\ Hex(Byte(o + 1)) \in 0 .. 15
        /\ Hex(Byte(o + 2)) \in 0 .. 15 /\ Hex(Byte(o + 3)) \in 0 .. 15
    BY SMT, <1>2, <2>1, <2>2
  <2> DEFINE h == Hex(Byte(o))
             i == Hex(Byte(o + 1))
             j == Hex(Byte(o + 2))
             k == Hex(Byte(o + 3))
  <2>5. /\ h \in 0 .. 15 /\ i \in 0 .. 15 /\ j \in 0 .. 15 /\ k \in 0 .. 15
        /\ parse_hex4(o) = 4096 * h + 256 * i + 16 * j + k
    BY SMT, <2>3, <2>4
  <2> HIDE DEF h, i, j, k
  <2> QED
    BY SMT, <2>5
<1> QED
  BY SMT, <1>3, <1>4

(* Sequences of a few bytes. *)
LEMMA FewBytes ==
    ASSUME NEW S, NEW a \in S, NEW b \in S, NEW c \in S, NEW d \in S,
           NEW e \in S, NEW f \in S
    PROVE  /\ <<a>> \in Seq(S) /\ Len(<<a>>) = 1
           /\ <<a, b>> \in Seq(S) /\ Len(<<a, b>>) = 2
           /\ <<a, b, c>> \in Seq(S) /\ Len(<<a, b, c>>) = 3
           /\ <<a, b, c, d>> \in Seq(S) /\ Len(<<a, b, c, d>>) = 4
           /\ <<a, b, c, d, e, f>> \in Seq(S)
           /\ Len(<<a, b, c, d, e, f>>) = 6
OBVIOUS

(* One escape gives at most three bytes, a pair gives four. *)
LEMMA Utf8Type ==
    ASSUME NEW c \in Nat, c < 1114112
    PROVE  /\ Utf8(c) \in Seq(Bytes)
           /\ Len(Utf8(c)) <= 4
           /\ c < 65536 => Len(Utf8(c)) <= 3
<1>1. CASE c < 128
  BY SMT, <1>1 DEF Utf8, Bytes
<1>2. CASE c >= 128 /\ c < 2048
  <2>1. 192 + (c \div 64) \in Bytes /\ 128 + (c % 64) \in Bytes
    BY SMT, <1>2 DEF Bytes
  <2> QED
    BY SMT, <1>2, <2>1 DEF Utf8
<1>3. CASE c >= 2048 /\ c < 65536
  <2>1. /\ 224 + (c \div 4096) \in Bytes
        /\ 128 + ((c \div 64) % 64) \in Bytes
        /\ 128 + (c % 64) \in Bytes
    BY SMT, <1>3 DEF Bytes
  <2> QED
    BY SMT, <1>3, <2>1 DEF Utf8
<1>4. CASE c >= 65536
  <2>1. /\ 240 + (c \div 262144) \in Bytes
        /\ 128 + ((c \div 4096) % 64) \in Bytes
        /\ 128 + ((c \div 64) % 64) \in Bytes
        /\ 128 + (c % 64) \in Bytes
    BY SMT, <1>4 DEF Bytes
  <2> QED
    BY SMT, <1>4, <2>1 DEF Utf8
<1> QED
  BY SMT, <1>1, <1>2, <1>3, <1>4

(* print_string_ptr counts what it writes. *)
LEMMA EscapedType ==
    ASSUME NEW b \in 1 .. 255
    PROVE  /\ Escaped(b) \in Seq(Bytes)
           /\ Len(Escaped(b)) = 1 + EscapeCharacters(b)
           /\ EscapeCharacters(b) \in Nat
<1> USE DEF Bytes, Quote, Backslash, LetterU
<1>1. CASE b \in {8, 9, 10, 12, 13, Quote, Backslash}
  <2>1. \E x \in Bytes : Escaped(b) = <<Backslash, x>>
    BY <1>1 DEF Escaped
  <2>2. Backslash \in Bytes
    OBVIOUS
  <2> QED
    BY <1>1, <2>1, <2>2, FewBytes DEF EscapeCharacters
<1>2. CASE b \notin {8, 9, 10, 12, 13, Quote, Backslash} /\ b > 31
  <2>1. Escaped(b) = <<b>> /\ EscapeCharacters(b) = 0
    BY <1>2 DEF Escaped, EscapeCharacters
  <2> QED
    BY <2>1
<1>3. CASE b \notin {8, 9, 10, 12, 13, Quote, Backslash} /\ b <= 31
  <2>1. b \div 16 \in 0 .. 15 /\ b % 16 \in 0 .. 15
    BY <1>3
  <2>2. HexDigit(b \div 16) \in Bytes /\ HexDigit(b % 16) \in Bytes
    BY <2>1 DEF HexDigit
  <2>3. Escaped(b) = <<Backslash, LetterU, 48, 48, HexDigit(b \div 16),
                       HexDigit(b % 16)>>
    BY <1>3 DEF Escaped
  <2> QED
    BY <1>3, <2>2, <2>3 DEF EscapeCharacters
<1> QED
  BY <1>1, <1>2, <1>3
-----------------------------------------------------------------------------
(***************************************************************************)
(* The first state and the steps.                                          *)
(***************************************************************************)
LEMMA StringInitIInv == StringInit => StringIInv
<1> SUFFICES ASSUME StringInit PROVE StringIInv
  OBVIOUS
<1> USE JsonStringAssumption
<1>1. /\ output_length = 0 /\ input_end = 1 /\ input_pointer = 1
      /\ escapes = {} /\ allocation = 0 /\ output = <<>>
  BY DEF StringInit
<1>2. /\ literal \in Seq(Bytes) /\ Len(literal) >= 1
      /\ meaning \in Seq(Bytes) \cup {NoMeaning}
      /\ phase \in {"print", "scan"}
      /\ unprinted \in Seq(1 .. 255)
      /\ phase = "print" => Len(literal) = 1
  <2>1. CASE /\ \E l \in Literals : literal = l.bytes /\ meaning = l.meaning
             /\ phase = "scan"
             /\ unprinted = <<>>
    BY <2>1
  <2>2. CASE /\ literal = <<Quote>>
             /\ meaning \in Printed
             /\ phase = "print"
             /\ unprinted = meaning
    <3>1. Quote \in Bytes
      BY DEF Quote, Bytes
    <3>2. meaning \in Seq(1 .. 255) /\ 1 .. 255 \subseteq Bytes
      BY <2>2 DEF Bytes
    <3>3. meaning \in Seq(Bytes)
      BY <3>2, SeqMonotonic
    <3> QED
      BY <2>2, <3>1, <3>2, <3>3
  <2> QED
    BY <2>1, <2>2 DEF StringInit
<1>3. StringTypeOK
  BY <1>1, <1>2 DEF StringTypeOK
<1> QED
  BY <1>1, <1>2, <1>3
  DEF StringIInv, Spaced, Inside, OutputFits, PrintedFits

(* The bytes that are left have room for the backslashes among them. *)
LEMMA Room ==
    ASSUME StringTypeOK, NEW p \in Nat, p <= input_end + 1
    PROVE  Cardinality(escapes) <= Skipped(p) + (input_end + 1 - p)
<1> DEFINE rest == p .. input_end
<1>1. input_end \in Nat /\ escapes \subseteq 1 .. input_end
  BY DEF StringTypeOK
<1>2. IsFiniteSet(rest) /\ Cardinality(rest) = input_end + 1 - p
  BY <1>1, FS_Interval
<1>3. IsFiniteSet(Before(p)) /\ Skipped(p) \in Nat
  BY BeforeFinite
<1>4. escapes \in SUBSET (Before(p) \cup rest)
  BY <1>1 DEF Before
<1>5. /\ IsFiniteSet(Before(p) \cup rest)
      /\ Cardinality(Before(p) \cup rest)
             = Cardinality(Before(p)) + Cardinality(rest)
                   - Cardinality(Before(p) \cap rest)
  BY <1>2, <1>3, FS_Union
<1>6. Cardinality(Before(p) \cap rest) \in Nat
  BY <1>3, FS_Intersection, FS_CardinalityType
<1>7. Cardinality(escapes) <= Cardinality(Before(p) \cup rest)
  BY <1>4, <1>5, FS_Subset
<1>8. Cardinality(escapes) \in Nat
  BY BeforeFinite
<1> HIDE DEF rest
<1> QED
  BY <1>1, <1>2, <1>3, <1>5, <1>6, <1>7, <1>8 DEF Skipped

(* What parse_string writes for n bytes of the literal. *)
LEMMA EmitIInv ==
    ASSUME StringIInv, Unescaping,
           NEW bytes \in Seq(Bytes), NEW n \in Nat \ {0},
           Emit(bytes, n),
           input_pointer + n <= input_end + 1,
           Len(bytes) + Skipped(input_pointer + n)
               <= n + Skipped(input_pointer)
    PROVE  StringIInv'
<1>1. /\ output' = output \o bytes
      /\ input_pointer' = input_pointer + n
      /\ UNCHANGED <<literal, meaning, phase, printing_vars, input_end,
                     escapes, allocation>>
      /\ phase = "unescape"
  BY DEF Emit, Unescaping
<1>2. /\ input_pointer \in Nat /\ input_end \in Nat /\ output \in Seq(Bytes)
      /\ input_pointer >= 1
      /\ StringTypeOK
  BY DEF StringIInv, StringTypeOK
<1>3. output' \in Seq(Bytes) /\ Len(output') = Len(output) + Len(bytes)
  BY <1>1, <1>2, ConcatProperties
<1>4. StringTypeOK'
  BY <1>1, <1>2, <1>3 DEF StringTypeOK, printing_vars
<1>5. /\ input_end < Len(literal)
      /\ allocation = Allocated
      /\ Len(output) <= input_pointer - 1 - Skipped(input_pointer)
  BY <1>1 DEF StringIInv, Inside
<1>6. /\ Skipped(input_pointer) \in Nat
      /\ Skipped(input_pointer + n) \in Nat
      /\ Cardinality(escapes) \in Nat
  BY <1>2, BeforeFinite
<1>7. Skipped(input_pointer)' = Skipped(input_pointer + n)
  BY <1>1 DEF Skipped, Before
<1>8. /\ Len(output) \in Nat /\ Len(bytes) \in Nat
  BY <1>2
<1>9. Len(output') <= input_pointer' - 1 - Skipped(input_pointer + n)
  BY <1>1, <1>2, <1>3, <1>5, <1>6, <1>8
<1>10. Inside'
  BY <1>1, <1>5, <1>7, <1>9 DEF Inside, Allocated
<1>11. OutputFits'
  <2>1. Cardinality(escapes)
            <= Skipped(input_pointer + n) + (input_end + 1 - (input_pointer + n))
    BY <1>2, Room
  <2>2. allocation' = input_end - Cardinality(escapes) + 1
    BY <1>1, <1>5 DEF Allocated
  <2>3. Len(output') <= input_pointer + n - 1 - Skipped(input_pointer + n)
    BY <1>1, <1>2, <1>6, <1>9
  <2>4. Len(output') \in Nat
    BY <1>3
  <2>5. Len(output') + 1 <= input_end - Cardinality(escapes) + 1
    BY <1>2, <1>6, <2>1, <2>3, <2>4
  <2> QED
    BY <2>2, <2>5 DEF OutputFits
<1> QED
  BY <1>1, <1>4, <1>10, <1>11 DEF StringIInv, Spaced, PrintedFits

LEMMA PrintIInv == ASSUME StringIInv, PrintByte PROVE StringIInv'
<1> DEFINE b == Head(unprinted)
<1>1. /\ phase = "print" /\ phase' = "print"
      /\ literal' = literal \o Escaped(b)
      /\ output_length' = output_length + 1 + EscapeCharacters(b)
      /\ unprinted # <<>> /\ unprinted' = Tail(unprinted)
      /\ UNCHANGED <<meaning, input_end, input_pointer, escapes, allocation,
                     output>>
  BY DEF PrintByte
<1>2. StringTypeOK /\ literal \in Seq(Bytes) /\ unprinted \in Seq(1 .. 255)
      /\ output_length \in Nat
  BY DEF StringIInv, StringTypeOK
<1>3. b \in 1 .. 255 /\ unprinted' \in Seq(1 .. 255)
  BY <1>1, <1>2, HeadTailProperties
<1> HIDE DEF b
<1>4. /\ Escaped(b) \in Seq(Bytes)
      /\ Len(Escaped(b)) = 1 + EscapeCharacters(b)
      /\ EscapeCharacters(b) \in Nat
  BY <1>3, EscapedType
<1>5. /\ literal' \in Seq(Bytes)
      /\ Len(literal') = Len(literal) + 1 + EscapeCharacters(b)
      /\ Len(literal) \in Nat
  <2>1. /\ literal \o Escaped(b) \in Seq(Bytes)
        /\ Len(literal \o Escaped(b)) = Len(literal) + Len(Escaped(b))
    BY <1>2, <1>4, ConcatProperties
  <2>2. Len(literal) \in Nat
    BY <1>2
  <2> QED
    BY <1>1, <1>4, <2>1, <2>2
<1>6. literal' # <<>> /\ input_end' \in 1 .. Len(literal')
  BY <1>1, <1>2, <1>4, <1>5 DEF StringTypeOK
<1>7. StringTypeOK'
  BY <1>1, <1>2, <1>3, <1>4, <1>5, <1>6 DEF StringTypeOK
<1>8. PrintedFits'
  <2>1. Len(literal) = output_length + 1
    BY <1>1 DEF StringIInv, PrintedFits
  <2>2. Len(literal') = output_length' + 1
    BY <1>1, <1>2, <1>4, <1>5, <2>1
  <2> QED
    BY <2>2 DEF PrintedFits
<1> QED
  BY <1>1, <1>7, <1>8 DEF StringIInv, Spaced, Inside, OutputFits

LEMMA PrintEndIInv == ASSUME StringIInv, PrintEnd PROVE StringIInv'
<1>1. /\ phase = "print" /\ phase' = "scan"
      /\ literal' = literal \o <<Quote, 0>>
      /\ UNCHANGED <<meaning, printing_vars, input_end, input_pointer, escapes,
                     allocation, output>>
  BY DEF PrintEnd
<1>2. literal \in Seq(Bytes)
  BY DEF StringIInv, StringTypeOK
<1>3. <<Quote, 0>> \in Seq(Bytes) /\ Len(<<Quote, 0>>) = 2
  BY DEF Quote, Bytes
<1>4. literal' \in Seq(Bytes) /\ Len(literal') = Len(literal) + 2
      /\ Len(literal) \in Nat
  BY <1>1, <1>2, <1>3, ConcatProperties
<1>5. literal' # <<>> /\ input_end' \in 1 .. Len(literal')
  BY <1>1, <1>2, <1>4 DEF StringIInv, StringTypeOK
<1>6. StringTypeOK'
  BY <1>1, <1>4, <1>5 DEF StringIInv, StringTypeOK, printing_vars
<1> QED
  BY <1>1, <1>6 DEF StringIInv, Spaced, Inside, OutputFits, PrintedFits
LEMMA ScanIInv == ASSUME StringIInv, Scan PROVE StringIInv'
<1>1. /\ phase = "scan" /\ input_end < Len(literal)
      /\ UNCHANGED <<literal, meaning, printing_vars, input_pointer,
                     allocation, output>>
  BY DEF Scan
<1>2. /\ input_end \in Nat /\ input_end >= 1 /\ Len(literal) \in Nat
      /\ escapes \subseteq 1 .. input_end
      /\ output = <<>> /\ input_pointer = 1
  BY <1>1 DEF StringIInv, StringTypeOK, Inside
<1>3. CASE NoOutput
  BY <1>1, <1>2, <1>3
  DEF NoOutput, StringIInv, StringTypeOK, Spaced, Inside, OutputFits,
      PrintedFits, printing_vars
<1>4. CASE /\ Byte(input_end) = Backslash
           /\ input_end + 1 < Len(literal)
           /\ escapes' = escapes \cup {input_end}
           /\ input_end' = input_end + 2
           /\ UNCHANGED phase
  <2>1. /\ input_end' \in 1 .. Len(literal)
        /\ input_pointer' \in 1 .. input_end' + 1
        /\ escapes' \subseteq 1 .. input_end'
    BY <1>1, <1>2, <1>4
  <2>2. StringTypeOK'
    BY <1>1, <1>4, <2>1 DEF StringIInv, StringTypeOK, printing_vars
  <2>3. Spaced'
    <3> SUFFICES ASSUME NEW e \in escapes'
                 PROVE  /\ e + 1 \notin escapes'
                        /\ e + 2 <= input_end'
                        /\ literal'[e + 1] = Backslash
      BY DEF Spaced
    <3>1. CASE e = input_end
      BY <1>1, <1>2, <1>4, <3>1 DEF Byte
    <3>2. CASE e \in escapes
      BY <1>1, <1>2, <1>4, <3>2 DEF StringIInv, Spaced
    <3> QED
      BY <1>4, <3>1, <3>2
  <2> QED
    BY <1>1, <1>2, <1>4, <2>2, <2>3
    DEF StringIInv, Inside, OutputFits, PrintedFits
<1>5. CASE /\ input_end' = input_end + 1
           /\ UNCHANGED <<escapes, phase>>
  <2>1. /\ input_end' \in 1 .. Len(literal)
        /\ input_pointer' \in 1 .. input_end' + 1
        /\ escapes' \subseteq 1 .. input_end'
    BY <1>1, <1>2, <1>5
  <2>2. StringTypeOK'
    BY <1>1, <1>5, <2>1 DEF StringIInv, StringTypeOK, printing_vars
  <2>3. Spaced'
    BY <1>1, <1>2, <1>5 DEF StringIInv, Spaced
  <2> QED
    BY <1>1, <1>2, <1>5, <2>2, <2>3
    DEF StringIInv, Inside, OutputFits, PrintedFits
<1> QED
  BY <1>3, <1>4, <1>5 DEF Scan

LEMMA ScanEndIInv == ASSUME StringIInv, ScanEnd PROVE StringIInv'
<1>1. /\ phase = "scan"
      /\ UNCHANGED <<literal, meaning, printing_vars, input_pointer, output>>
      /\ output = <<>> /\ input_pointer = 1
      /\ StringTypeOK
  BY DEF ScanEnd, StringIInv, Inside
<1>2. CASE NoOutput /\ UNCHANGED allocation
  BY <1>1, <1>2
  DEF NoOutput, StringIInv, StringTypeOK, Spaced, Inside, OutputFits,
      PrintedFits, printing_vars
<1>3. CASE /\ input_end < Len(literal)
           /\ allocation' = Allocated
           /\ phase' = "unescape"
           /\ UNCHANGED <<input_end, escapes>>
  <2>1. Cardinality(escapes) \in 0 .. input_end /\ input_end \in Nat
    BY <1>1, BeforeFinite DEF StringTypeOK
  <2>2. Allocated \in Nat /\ Allocated >= 1
    BY <2>1 DEF Allocated
  <2>3. StringTypeOK'
    BY <1>1, <1>3, <2>2 DEF StringTypeOK, printing_vars
  <2>4. Skipped(input_pointer)' = 0
    <3>1. \A e \in escapes : ~ (e < 1)
      BY <1>1 DEF StringTypeOK
    <3>2. Before(1) = {}
      BY <3>1 DEF Before
    <3> QED
      BY <1>1, <1>3, <3>2, FS_EmptySet DEF Skipped, Before
  <2>5. Inside'
    BY <1>1, <1>3, <2>4 DEF Inside, Allocated
  <2>6. OutputFits' /\ PrintedFits' /\ Spaced'
    BY <1>1, <1>3, <2>2
    DEF OutputFits, PrintedFits, StringIInv, Spaced
  <2> QED
    BY <2>3, <2>5, <2>6 DEF StringIInv
<1> QED
  BY <1>2, <1>3 DEF ScanEnd

(* Inside the literal the bytes are bytes. *)
LEMMA UnescapingFacts ==
    ASSUME StringIInv, Unescaping
    PROVE  /\ StringTypeOK /\ Spaced
           /\ literal \in Seq(Bytes)
           /\ input_end \in Nat /\ input_end < Len(literal)
           /\ input_pointer \in Nat /\ input_pointer >= 1
           /\ input_pointer < input_end
           /\ \A p \in Nat : p <= input_end => Byte(p) \in Bytes
           /\ \A p \in Nat : Skipped(p) \in Nat
<1>1. /\ StringTypeOK /\ Spaced
      /\ literal \in Seq(Bytes)
      /\ input_end \in Nat /\ input_end < Len(literal)
      /\ input_pointer \in Nat /\ input_pointer >= 1
      /\ input_pointer < input_end
  BY DEF StringIInv, StringTypeOK, Unescaping, Inside
<1>2. \A p \in Nat : p <= input_end => Byte(p) \in Bytes
  BY <1>1 DEF Byte
<1> QED
  BY <1>1, <1>2, BeforeFinite

LEMMA CopyIInv == ASSUME StringIInv, Copy PROVE StringIInv'
<1> DEFINE p == input_pointer
           bytes == <<Byte(p)>>
<1>1. Unescaping /\ Byte(p) # Backslash /\ Emit(bytes, 1)
  BY DEF Copy
<1>2. /\ StringTypeOK /\ Spaced
      /\ p \in Nat /\ input_end \in Nat /\ p < input_end
      /\ Byte(p) \in Bytes /\ Skipped(p) \in Nat
  BY <1>1, UnescapingFacts
<1>3. bytes \in Seq(Bytes) /\ Len(bytes) = 1
  BY <1>2
<1>4. Skipped(p + 1) = Skipped(p)
  BY <1>1, <1>2, SkippedOne
<1>5. p + 1 <= input_end + 1 /\ Len(bytes) + Skipped(p + 1) <= 1 + Skipped(p)
  BY <1>2, <1>3, <1>4
<1>6. Unescaping /\ Emit(bytes, 1) /\ 1 \in Nat \ {0}
  BY <1>1
<1> HIDE DEF bytes
<1> QED
  BY <1>3, <1>5, <1>6, EmitIInv

LEMMA ShortEscapeIInv == ASSUME StringIInv, ShortEscape PROVE StringIInv'
<1> DEFINE p == input_pointer
           bytes == <<Unescaped[Byte(p + 1)]>>
<1>1. /\ Unescaping /\ Emit(bytes, 2)
      /\ Byte(p + 1) \in DOMAIN Unescaped
  BY DEF ShortEscape
<1>2. /\ StringTypeOK /\ Spaced
      /\ p \in Nat /\ input_end \in Nat /\ p < input_end
      /\ Skipped(p) \in Nat /\ Skipped(p + 2) \in Nat
  BY <1>1, UnescapingFacts, BeforeFinite
<1>3. bytes \in Seq(Bytes) /\ Len(bytes) = 1
  <2>1. ASSUME NEW b \in DOMAIN Unescaped PROVE Unescaped[b] \in Bytes
    BY DEF Unescaped, Bytes, Quote, Backslash
  <2> QED
    BY <1>1, <2>1
<1>4. Skipped(p + 2) <= Skipped(p) + 1
  BY <1>2, SkippedTwo
<1>5. p + 2 <= input_end + 1 /\ Len(bytes) + Skipped(p + 2) <= 2 + Skipped(p)
  BY <1>2, <1>3, <1>4
<1>6. Unescaping /\ Emit(bytes, 2) /\ 2 \in Nat \ {0}
  BY <1>1
<1> HIDE DEF bytes
<1> QED
  BY <1>3, <1>5, <1>6, EmitIInv

LEMMA Utf16EscapeIInv == ASSUME StringIInv, Utf16Escape PROVE StringIInv'
<1> DEFINE p == input_pointer
           first == parse_hex4(p + 2)
           second == parse_hex4(p + 8)
<1>1. /\ Unescaping
      /\ \/ ConvertsOne /\ Emit(Utf8(Codepoint(first, 0)), 6)
         \/ ConvertsPair /\ Emit(Utf8(Codepoint(first, second)), 12)
  BY DEF Utf16Escape
<1>2. /\ StringTypeOK /\ Spaced
      /\ literal \in Seq(Bytes) /\ input_end < Len(literal)
      /\ p \in Nat /\ input_end \in Nat
      /\ Skipped(p) \in Nat /\ Skipped(p + 6) \in Nat
      /\ Skipped(p + 12) \in Nat
  BY <1>1, UnescapingFacts, BeforeFinite
<1>3. CASE ConvertsOne /\ Emit(Utf8(Codepoint(first, 0)), 6)
  <2> DEFINE bytes == Utf8(Codepoint(first, 0))
  <2>1. input_end - p >= 6 /\ ~ High(first)
    BY <1>3 DEF ConvertsOne, Left
  <2>2. (p + 2) + 4 <= Len(literal)
    BY <1>2, <2>1
  <2>3. first \in Nat /\ first < 65536
    BY SMT, <1>2, <2>2, Hex4Type
  <2>4. Codepoint(first, 0) = first
    BY SMT, <2>1 DEF Codepoint
  <2>5. bytes \in Seq(Bytes) /\ Len(bytes) <= 3
    BY SMT, <2>3, <2>4, Utf8Type
  <2>6. Skipped(p + 6) <= Skipped(p) + 3
    BY <1>2, SkippedSix
  <2>7. Len(bytes) \in Nat
    BY <2>5
  <2> HIDE DEF bytes
  <2>8. p + 6 <= input_end + 1 /\ Len(bytes) + Skipped(p + 6) <= 6 + Skipped(p)
    BY <1>2, <2>1, <2>5, <2>6, <2>7
  <2>9. Emit(bytes, 6)
    BY <1>3 DEF bytes
  <2> QED
    BY <1>1, <2>5, <2>8, <2>9, EmitIInv
<1>4. CASE ConvertsPair /\ Emit(Utf8(Codepoint(first, second)), 12)
  <2> DEFINE bytes == Utf8(Codepoint(first, second))
  <2>1. input_end - (p + 6) >= 6 /\ High(first)
    BY <1>4 DEF ConvertsPair, Left
  <2>2. (p + 2) + 4 <= Len(literal) /\ (p + 8) + 4 <= Len(literal)
    BY <1>2, <2>1
  <2>3. first \in Nat /\ second \in Nat
    BY SMT, <1>2, <2>2, Hex4Type
  <2>4. Codepoint(first, second) \in Nat
            /\ Codepoint(first, second) < 1114112
    <3>1. Codepoint(first, second)
              = 65536 + 1024 * (first % 1024) + (second % 1024)
      BY SMT, <2>1 DEF Codepoint
    <3>2. first % 1024 \in 0 .. 1023 /\ second % 1024 \in 0 .. 1023
      BY SMT, <2>3
    <3> HIDE DEF first, second
    <3> QED
      BY SMT, <2>3, <3>1, <3>2
  <2>5. bytes \in Seq(Bytes) /\ Len(bytes) <= 4
    BY SMT, <2>4, Utf8Type
  <2>6. Skipped(p + 12) <= Skipped(p) + 6
    <3>1. /\ Skipped(p + 6) <= Skipped(p) + 3
          /\ Skipped((p + 6) + 6) <= Skipped(p + 6) + 3
      BY <1>2, SkippedSix
    <3>2. (p + 6) + 6 = p + 12
      BY <1>2
    <3> QED
      BY <1>2, <3>1, <3>2
  <2>7. Len(bytes) \in Nat
    BY <2>5
  <2> HIDE DEF bytes
  <2>8. p + 12 <= input_end + 1
            /\ Len(bytes) + Skipped(p + 12) <= 12 + Skipped(p)
    BY <1>2, <2>1, <2>5, <2>6, <2>7
  <2>9. Emit(bytes, 12)
    BY <1>4 DEF bytes
  <2> QED
    BY <1>1, <2>5, <2>8, <2>9, EmitIInv
<1> QED
  BY <1>1, <1>3, <1>4

LEMMA StringStepIInv == StringIInv /\ [StringNext]_string_vars => StringIInv'
<1> SUFFICES ASSUME StringIInv, [StringNext]_string_vars PROVE StringIInv'
  OBVIOUS
<1>1. CASE BadEscape
  BY <1>1
  DEF BadEscape, Unescaping, StringIInv, StringTypeOK, Spaced, Inside,
      OutputFits, PrintedFits, printing_vars
<1>2. CASE Finish
  <2>1. StringTypeOK' /\ Spaced'
    BY <1>2 DEF Finish, StringIInv, StringTypeOK, Spaced, printing_vars
  <2>2. Inside' /\ OutputFits' /\ PrintedFits'
    BY <1>2 DEF Finish, StringIInv, Inside, OutputFits, PrintedFits
  <2> QED
    BY <2>1, <2>2 DEF StringIInv
<1>3. CASE UNCHANGED string_vars
  BY <1>3
  DEF string_vars, printing_vars, StringIInv, StringTypeOK, Spaced, Inside,
      Allocated, Skipped, Before, OutputFits, PrintedFits
<1> QED
  BY <1>1, <1>2, <1>3, PrintIInv, PrintEndIInv, ScanIInv, ScanEndIInv,
     CopyIInv, ShortEscapeIInv, Utf16EscapeIInv
  DEF StringNext, StringEnded

LEMMA StringInvariance == StringSpec => []StringIInv
BY StringInitIInv, StringStepIInv, PTL DEF StringSpec

(* The types of parse_string (cJSON.c:824-951) for literals of any length: *)
(* both pointers stay within the buffer, whatever the literal contains.    *)
THEOREM StringTypeCorrect == StringSpec => []StringTypeOK
<1>1. StringIInv => StringTypeOK
  BY DEF StringIInv
<1> QED
  BY <1>1, StringInvariance, PTL

(* "This is at most how much we need for the output" (cJSON.c:861): no     *)
(* literal, however its escapes are cut or overlap, makes parse_string     *)
(* write past what it has allocated.                                       *)
THEOREM OutputBounded == StringSpec => []OutputFits
<1>1. StringIInv => OutputFits
  BY DEF StringIInv
<1> QED
  BY <1>1, StringInvariance, PTL

(* print_string_ptr (cJSON.c:982-1071) writes exactly what it counts, for  *)
(* every string.                                                           *)
THEOREM PrintedBounded == StringSpec => []PrintedFits
<1>1. StringIInv => PrintedFits
  BY DEF StringIInv
<1> QED
  BY <1>1, StringInvariance, PTL
-----------------------------------------------------------------------------
(***************************************************************************)
(* MeaningKept.  The marks of a literal exist whether or not they are      *)
(* known: in the first pass input_end is at a mark or inside an escape of  *)
(* UTF-16, behind its first two bytes; in the second one input_pointer is  *)
(* at a mark and the output is what the literal means up to there.         *)
(***************************************************************************)
(* A number with six more bits: both parts can be read off it. *)
Six(a, r) == 64 * a + (r - 128)

LEMMA SixBits ==
    ASSUME NEW a \in Nat, NEW r \in Follower
    PROVE  /\ Six(a, r) \in Nat
           /\ Six(a, r) \div 64 = a /\ 128 + (Six(a, r) % 64) = r
<1>1. PICK s \in 0 .. 63 : r = s + 128
  <2>1. r \in 128 .. 191
    BY DEF Follower
  <2>2. r - 128 \in 0 .. 63 /\ r = (r - 128) + 128
    BY <2>1
  <2> QED
    BY <2>2
<1>2. Six(a, r) = 64 * a + s /\ 64 * a + s \in Nat
  BY <1>1 DEF Six
<1>3. (64 * a + s) \div 64 = a /\ (64 * a + s) % 64 = s
  OBVIOUS
<1> QED
  BY <1>1, <1>2, <1>3

LEMMA Divided ==
    ASSUME NEW c \in Nat
    PROVE  /\ c \div 4096 = (c \div 64) \div 64
           /\ c \div 262144 = ((c \div 64) \div 64) \div 64
OBVIOUS

LEMMA TwoBytes ==
    ASSUME NEW i \in LeadOfTwo, NEW j \in Follower
    PROVE  Utf8(OfTwo(i, j)) = <<i, j>>
<1>1. i \in 194 .. 223 /\ j \in 128 .. 191
  BY DEF LeadOfTwo, Follower
<1> DEFINE a == i - 192
           c == Six(a, j)
<1>2. a \in Nat /\ 192 + a = i
  BY <1>1
<1>3. ~ (c < 128) /\ c < 2048 /\ c = OfTwo(i, j)
  BY <1>1 DEF OfTwo, Six
<1> HIDE DEF a
<1>4. c \div 64 = a /\ 128 + (c % 64) = j
  BY <1>2, SixBits
<1> HIDE DEF c
<1>5. Utf8(c) = <<192 + (c \div 64), 128 + (c % 64)>>
  BY <1>3 DEF Utf8
<1>6. Utf8(c) = <<i, j>>
  BY <1>2, <1>4, <1>5
<1> QED
  BY <1>3, <1>6

LEMMA ThreeBytes ==
    ASSUME NEW i \in LeadOfThree, NEW j \in Follower, NEW k \in Follower,
           NeedsThree(OfThree(i, j, k))
    PROVE  Utf8(OfThree(i, j, k)) = <<i, j, k>>
<1>1. i \in 224 .. 239 /\ j \in 128 .. 191 /\ k \in 128 .. 191
  BY DEF LeadOfThree, Follower
<1> DEFINE a == i - 224
           b == Six(a, j)
           c == Six(b, k)
<1>2. a \in Nat /\ 224 + a = i
  BY <1>1
<1>3. c = OfThree(i, j, k)
  BY <1>1 DEF OfThree, Six
<1>4. ~ (c < 128) /\ ~ (c < 2048) /\ c < 65536
  <2>1. c >= 2048
    BY <1>3 DEF NeedsThree
  <2>2. c \in Int /\ c < 65536
    BY <1>1 DEF Six
  <2> HIDE DEF c
  <2> QED
    BY <2>1, <2>2
<1> HIDE DEF a
<1>5. b \in Nat /\ b \div 64 = a /\ 128 + (b % 64) = j
  BY <1>2, SixBits
<1> HIDE DEF b
<1>6. c \in Nat /\ c \div 64 = b /\ 128 + (c % 64) = k
  BY <1>5, SixBits
<1> HIDE DEF c
<1>7. c \div 4096 = a
  BY <1>5, <1>6, Divided
<1>8. Utf8(c) = <<224 + (c \div 4096), 128 + ((c \div 64) % 64),
                  128 + (c % 64)>>
  BY <1>4 DEF Utf8
<1>9. Utf8(c) = <<i, j, k>>
  BY <1>2, <1>5, <1>6, <1>7, <1>8
<1> QED
  BY <1>3, <1>9

LEMMA FourBytes ==
    ASSUME NEW i \in LeadOfFour, NEW j \in Follower, NEW k \in Follower,
           NEW l \in Follower, NeedsFour(OfFour(i, j, k, l))
    PROVE  Utf8(OfFour(i, j, k, l)) = <<i, j, k, l>>
<1>1. /\ i \in 240 .. 244 /\ j \in 128 .. 191 /\ k \in 128 .. 191
      /\ l \in 128 .. 191
  BY DEF LeadOfFour, Follower
<1> DEFINE a == i - 240
           b == Six(a, j)
           d == Six(b, k)
           c == Six(d, l)
<1>2. a \in Nat /\ 240 + a = i
  BY <1>1
<1>3. c = OfFour(i, j, k, l)
  BY <1>1 DEF OfFour, Six
<1>4. ~ (c < 128) /\ ~ (c < 2048) /\ ~ (c < 65536)
  <2>1. c >= 65536
    BY <1>3 DEF NeedsFour
  <2>2. c \in Int
    BY <1>1 DEF Six
  <2> HIDE DEF c
  <2> QED
    BY <2>1, <2>2
<1> HIDE DEF a
<1>5. b \in Nat /\ b \div 64 = a /\ 128 + (b % 64) = j
  BY <1>2, SixBits
<1> HIDE DEF b
<1>6. d \in Nat /\ d \div 64 = b /\ 128 + (d % 64) = k
  BY <1>5, SixBits
<1> HIDE DEF d
<1>7. c \in Nat /\ c \div 64 = d /\ 128 + (c % 64) = l
  BY <1>6, SixBits
<1> HIDE DEF c
<1>8. c \div 4096 = b /\ c \div 262144 = a
  BY <1>5, <1>6, <1>7, Divided
<1>9. Utf8(c) = <<240 + (c \div 262144), 128 + ((c \div 4096) % 64),
                  128 + ((c \div 64) % 64), 128 + (c % 64)>>
  BY <1>4 DEF Utf8
<1>10. Utf8(c) = <<i, j, k, l>>
  BY <1>2, <1>5, <1>6, <1>7, <1>8, <1>9
<1> QED
  BY <1>3, <1>10

(* UTF-8 has one encoding of a code point, and the code finds it.          *)
LEMMA EncodingIsUtf8 ==
    ASSUME NEW u \in Seq(Bytes), NEW c, Encodes(u, c)
    PROVE  u = Utf8(c) /\ Len(u) >= 1
<1>1. CASE Len(u) = 1
  <2>1. PICK i \in 0 .. 127 : u[1] = i /\ c = i
    BY <1>1 DEF Encodes
  <2>2. u = <<i>>
    BY <1>1, <2>1
  <2>3. i < 128
    OBVIOUS
  <2> QED
    BY <1>1, <2>1, <2>2, <2>3 DEF Utf8
<1>2. CASE Len(u) = 2
  <2>1. /\ u[1] \in LeadOfTwo /\ u[2] \in Follower
        /\ c = OfTwo(u[1], u[2])
    BY <1>2 DEF Encodes
  <2>2. u = <<u[1], u[2]>>
    BY <1>2
  <2>3. Utf8(c) = <<u[1], u[2]>>
    BY <2>1, TwoBytes, Zenon
  <2> QED
    BY <1>2, <2>2, <2>3
<1>3. CASE Len(u) = 3
  <2>1. /\ u[1] \in LeadOfThree /\ u[2] \in Follower /\ u[3] \in Follower
        /\ c = OfThree(u[1], u[2], u[3]) /\ NeedsThree(c)
    BY <1>3 DEF Encodes
  <2>2. u = <<u[1], u[2], u[3]>>
    BY <1>3
  <2>3. Utf8(c) = <<u[1], u[2], u[3]>>
    BY <2>1, ThreeBytes, Zenon
  <2> QED
    BY <1>3, <2>2, <2>3
<1>4. CASE Len(u) = 4
  <2>1. /\ u[1] \in LeadOfFour /\ u[2] \in Follower /\ u[3] \in Follower
        /\ u[4] \in Follower
        /\ c = OfFour(u[1], u[2], u[3], u[4]) /\ NeedsFour(c)
    BY <1>4 DEF Encodes
  <2>2. u = <<u[1], u[2], u[3], u[4]>>
    BY <1>4
  <2>3. Utf8(c) = <<u[1], u[2], u[3], u[4]>>
    BY <2>1, FourBytes, Zenon
  <2> QED
    BY <1>4, <2>2, <2>3
<1> QED
  BY <1>1, <1>2, <1>3, <1>4 DEF Encodes

(* A character looks at nothing beyond its end.                            *)
LEMMA CharacterKept ==
    ASSUME NEW l, NEW k, NEW o \in Nat, NEW p \in Nat, NEW u,
           \A i \in 1 .. p : k[i] = l[i], Character(l, o, p, u)
    PROVE  Character(k, o, p, u)
<1>1. CASE p = o + 1
  <2>1. k[o + 1] = l[o + 1]
    BY <1>1
  <2> QED
    BY <1>1, <2>1 DEF Character
<1>2. CASE p = o + 2
  <2>1. k[o + 1] = l[o + 1] /\ k[o + 2] = l[o + 2]
    BY <1>2
  <2> QED
    BY <1>2, <2>1 DEF Character
<1>3. ASSUME NEW q \in Nat, q + 6 <= p
      PROVE  (IsEscape(l, q) => IsEscape(k, q)) /\ Unit(k, q) = Unit(l, q)
  <2>1. \A i \in 1 .. 6 : k[q + i] = l[q + i]
    BY <1>3
  <2> QED
    BY <2>1 DEF IsEscape, Unit
<1>4. CASE p = o + 6
  BY <1>3, <1>4 DEF Character
<1>5. CASE p = o + 12
  <2>1. o + 6 \in Nat /\ o + 6 <= p /\ (o + 6) + 6 <= p
    BY <1>5
  <2>2. /\ IsEscape(l, o) => IsEscape(k, o)
        /\ IsEscape(l, o + 6) => IsEscape(k, o + 6)
        /\ Unit(k, o) = Unit(l, o) /\ Unit(k, o + 6) = Unit(l, o + 6)
    BY <1>3, <2>1
  <2>3. p # o + 1 /\ p # o + 2 /\ p # o + 6
    BY <1>5
  <2> QED
    BY <1>5, <2>2, <2>3 DEF Character
<1> QED
  BY <1>1, <1>2, <1>4, <1>5 DEF Character

(* The four kinds of characters, as parse_string finds them.               *)
Escape(o) ==
    /\ Byte(o) = Backslash /\ Byte(o + 1) = LetterU
    /\ \A k \in 2 .. 5 : Hex(Byte(o + k)) # -1

Raw(o, p, u) ==
    /\ p = o + 1 /\ Byte(o) \notin {Quote, Backslash} /\ u = <<Byte(o)>>

Short(o, p, u) ==
    /\ p = o + 2 /\ Byte(o) = Backslash
    /\ Byte(o + 1) \in DOMAIN Unescaped /\ u = <<Unescaped[Byte(o + 1)]>>

Single(o, p, u) ==
    /\ p = o + 6 /\ Escape(o)
    /\ ~ High(parse_hex4(o + 2)) /\ ~ Low(parse_hex4(o + 2))
    /\ u = Utf8(Codepoint(parse_hex4(o + 2), 0))

Paired(o, p, u) ==
    /\ p = o + 12 /\ Escape(o) /\ Escape(o + 6)
    /\ High(parse_hex4(o + 2)) /\ Low(parse_hex4(o + 8))
    /\ u = Utf8(Codepoint(parse_hex4(o + 2), parse_hex4(o + 8)))

LEMMA EscapeIs ==
    ASSUME NEW o \in Nat, IsEscape(literal, o)
    PROVE  Escape(o) /\ parse_hex4(o + 2) = Unit(literal, o)
<1>1. /\ (o + 2) + 0 = o + 2 /\ (o + 2) + 1 = o + 3
      /\ (o + 2) + 2 = o + 4 /\ (o + 2) + 3 = o + 5
      /\ (o + 1) + 1 = o + 2 /\ (o + 2) + 1 = o + 3 /\ (o + 3) + 1 = o + 4
      /\ (o + 4) + 1 = o + 5 /\ (o + 5) + 1 = o + 6
  OBVIOUS
<1>2. /\ Byte(o) = literal[o + 1] /\ Byte(o + 1) = literal[o + 2]
      /\ Byte(o + 2) = literal[o + 3] /\ Byte(o + 3) = literal[o + 4]
      /\ Byte(o + 4) = literal[o + 5] /\ Byte(o + 5) = literal[o + 6]
  BY <1>1 DEF Byte
<1>3. /\ Hex(literal[o + 3]) # -1 /\ Hex(literal[o + 4]) # -1
      /\ Hex(literal[o + 5]) # -1 /\ Hex(literal[o + 6]) # -1
  BY DEF IsEscape
<1>4. ASSUME NEW k \in 2 .. 5 PROVE Hex(Byte(o + k)) # -1
  <2>1. k = 2 \/ k = 3 \/ k = 4 \/ k = 5
    OBVIOUS
  <2> QED
    BY <1>2, <1>3, <2>1
<1>5. ASSUME NEW k \in 0 .. 3 PROVE Hex(Byte((o + 2) + k)) # -1
  <2>1. k = 0 \/ k = 1 \/ k = 2 \/ k = 3
    OBVIOUS
  <2> QED
    BY <1>1, <1>2, <1>3, <2>1
<1>6. parse_hex4(o + 2) = Unit(literal, o)
  BY <1>1, <1>2, <1>5 DEF parse_hex4, Unit
<1> QED
  BY <1>2, <1>4, <1>6 DEF Escape, IsEscape

LEMMA PairCode ==
    ASSUME NEW c \in HighSurrogates, NEW d \in LowSurrogates
    PROVE  High(c) /\ Low(d) /\ Codepoint(c, d) = OfPair(c, d)
<1>1. c \in 55296 .. 56319 /\ d \in 56320 .. 57343
  BY DEF HighSurrogates, LowSurrogates
<1>2. High(c) /\ Low(d)
  BY <1>1 DEF High, Low
<1>3. c % 1024 = c - 55296 /\ d % 1024 = d - 56320
  BY <1>1
<1> QED
  BY <1>2, <1>3 DEF Codepoint, OfPair

LEMMA SingleCode ==
    ASSUME NEW c, c \notin HighSurrogates \cup LowSurrogates
    PROVE  ~ High(c) /\ ~ Low(c) /\ Codepoint(c, 0) = c
BY DEF HighSurrogates, LowSurrogates, High, Low, Codepoint

LEMMA KindsAre ==
    ASSUME NEW o \in Nat, NEW p, NEW u \in Seq(Bytes),
           Character(literal, o, p, u)
    PROVE  /\ Len(u) >= 1
           /\ Raw(o, p, u) \/ Short(o, p, u) \/ Single(o, p, u)
                  \/ Paired(o, p, u)
<1>1. CASE /\ p = o + 1
           /\ literal[o + 1] \in (32 .. 255) \ {Quote, Backslash}
           /\ u = <<literal[o + 1]>>
  BY <1>1 DEF Raw, Byte
<1>2. CASE /\ p = o + 2 /\ literal[o + 1] = Backslash
           /\ \E e \in ShortEscapes : literal[o + 2] = e[1] /\ u = <<e[2]>>
  <2>1. PICK e \in ShortEscapes : literal[o + 2] = e[1] /\ u = <<e[2]>>
    BY <1>2
  <2>2. e[1] \in DOMAIN Unescaped /\ Unescaped[e[1]] = e[2]
    BY DEF ShortEscapes, Unescaped, Quote, Backslash
  <2>3. (o + 1) + 1 = o + 2
    OBVIOUS
  <2>4. Byte(o + 1) = e[1] /\ Byte(o) = Backslash
    BY <1>2, <2>1, <2>3 DEF Byte
  <2> QED
    BY <1>2, <2>1, <2>2, <2>4 DEF Short
<1>3. CASE /\ p = o + 6 /\ IsEscape(literal, o)
           /\ Unit(literal, o) \notin HighSurrogates \cup LowSurrogates
           /\ Encodes(u, Unit(literal, o))
  <2>1. Escape(o) /\ parse_hex4(o + 2) = Unit(literal, o)
    BY <1>3, EscapeIs
  <2>2. /\ ~ High(parse_hex4(o + 2)) /\ ~ Low(parse_hex4(o + 2))
        /\ Codepoint(parse_hex4(o + 2), 0) = parse_hex4(o + 2)
    BY <1>3, <2>1, SingleCode, Zenon
  <2>3. u = Utf8(parse_hex4(o + 2)) /\ Len(u) >= 1
    BY <1>3, <2>1, EncodingIsUtf8, Zenon
  <2> QED
    BY <1>3, <2>1, <2>2, <2>3 DEF Single
<1>4. CASE /\ p = o + 12 /\ IsEscape(literal, o) /\ IsEscape(literal, o + 6)
           /\ Unit(literal, o) \in HighSurrogates
           /\ Unit(literal, o + 6) \in LowSurrogates
           /\ Encodes(u, OfPair(Unit(literal, o), Unit(literal, o + 6)))
  <2>1. o + 6 \in Nat /\ (o + 6) + 2 = o + 8
    OBVIOUS
  <2>2. Escape(o) /\ parse_hex4(o + 2) = Unit(literal, o)
    BY <1>4, EscapeIs
  <2>3. Escape(o + 6) /\ parse_hex4(o + 8) = Unit(literal, o + 6)
    BY <1>4, <2>1, EscapeIs
  <2>4. /\ High(parse_hex4(o + 2)) /\ Low(parse_hex4(o + 8))
        /\ Codepoint(parse_hex4(o + 2), parse_hex4(o + 8))
               = OfPair(parse_hex4(o + 2), parse_hex4(o + 8))
    BY <1>4, <2>2, <2>3, PairCode, Zenon
  <2>5. u = Utf8(OfPair(parse_hex4(o + 2), parse_hex4(o + 8))) /\ Len(u) >= 1
    BY <1>4, <2>2, <2>3, EncodingIsUtf8, Zenon
  <2> QED
    BY <1>4, <2>2, <2>3, <2>4, <2>5 DEF Paired
<1> QED
  BY <1>1, <1>2, <1>3, <1>4 DEF Character

(* From one mark to the next.                                              *)
Text(marks, k) == SubSeq(meaning, marks[k].of + 1, marks[k + 1].of)
Meant(marks, k) == SubSeq(meaning, 1, marks[k].of)

LEMMA MarkTypes ==
    ASSUME NEW l, NEW marks, AreMarks(l, meaning, marks),
           NEW k \in DOMAIN marks
    PROVE  /\ marks \in Seq([at : Nat, of : Nat]) /\ marks # <<>>
           /\ DOMAIN marks = 1 .. Len(marks) /\ Len(marks) \in Nat \ {0}
           /\ marks[k].at \in Nat /\ marks[k].of \in Nat
           /\ marks[k].at >= 1 /\ marks[k].of <= Len(meaning)
           /\ marks[Len(marks)].at \in Nat /\ marks[Len(marks)].of \in Nat
           /\ marks[Len(marks)].of <= Len(meaning)
           /\ marks[k].at <= marks[Len(marks)].at
           /\ marks[1] = [at |-> 1, of |-> 0]
<1>1. /\ marks \in Seq([at : Nat, of : Nat]) /\ marks # <<>>
      /\ DOMAIN marks = 1 .. Len(marks) /\ Len(marks) \in Nat \ {0}
      /\ marks[1] = [at |-> 1, of |-> 0]
  BY DEF AreMarks
<1>2. k \in 1 .. Len(marks) /\ Len(marks) \in DOMAIN marks
  BY <1>1
<1>3. /\ marks[k] \in [at : Nat, of : Nat]
      /\ marks[Len(marks)] \in [at : Nat, of : Nat]
  BY <1>1, <1>2, ElementOfSeq
<1>4. /\ marks[k].at \in 1 .. marks[Len(marks)].at
      /\ marks[k].of \in 0 .. Len(meaning)
      /\ marks[Len(marks)].of \in 0 .. Len(meaning)
  BY <1>2 DEF AreMarks
<1> QED
  BY <1>1, <1>3, <1>4

LEMMA NextMark ==
    ASSUME NEW marks, AreMarks(literal, meaning, marks),
           meaning \in Seq(Bytes), NEW k \in DOMAIN marks, k # Len(marks)
    PROVE  /\ k + 1 \in DOMAIN marks
           /\ LET o == marks[k].at
                  p == marks[k + 1].at
                  u == Text(marks, k)
              IN  Raw(o, p, u) \/ Short(o, p, u) \/ Single(o, p, u)
                      \/ Paired(o, p, u)
           /\ Meant(marks, k + 1) = Meant(marks, k) \o Text(marks, k)
<1> DEFINE n == marks[k].of
           m == marks[k + 1].of
           u == Text(marks, k)
           t == Meant(marks, k)
           v == Meant(marks, k + 1)
<1>1. k + 1 \in DOMAIN marks /\ k \in 1 .. Len(marks) - 1
  BY MarkTypes
<1>2. /\ n \in Nat /\ m \in Nat /\ n <= Len(meaning) /\ m <= Len(meaning)
      /\ marks[k].at \in Nat
  BY <1>1, MarkTypes
<1>3. \A i \in 1 .. Len(meaning) : meaning[i] \in Bytes
  OBVIOUS
<1>4. /\ u \in Seq(Bytes) /\ Len(u) = IF n + 1 <= m THEN m - n ELSE 0
      /\ \A i \in 1 .. m - n : u[i] = meaning[n + i]
  <2>1. n + 1 \in Int /\ m \in Int /\ \A i \in n + 1 .. m : meaning[i] \in Bytes
    BY <1>2, <1>3
  <2>2. /\ SubSeq(meaning, n + 1, m) \in Seq(Bytes)
        /\ Len(SubSeq(meaning, n + 1, m))
               = IF n + 1 <= m THEN m - (n + 1) + 1 ELSE 0
        /\ \A i \in 1 .. m - (n + 1) + 1 :
               SubSeq(meaning, n + 1, m)[i] = meaning[n + 1 + i - 1]
    BY <2>1, SubSeqProperties
  <2> HIDE DEF n, m
  <2>3. u = SubSeq(meaning, n + 1, m)
    BY DEF Text, n, m
  <2> HIDE DEF u
  <2> QED
    BY <1>2, <2>2, <2>3
<1>5. Character(literal, marks[k].at, marks[k + 1].at, u)
  BY <1>1 DEF AreMarks, Text
<1>6. /\ Len(u) >= 1
      /\ Raw(marks[k].at, marks[k + 1].at, u)
             \/ Short(marks[k].at, marks[k + 1].at, u)
             \/ Single(marks[k].at, marks[k + 1].at, u)
             \/ Paired(marks[k].at, marks[k + 1].at, u)
  BY <1>2, <1>4, <1>5, KindsAre
<1>7. /\ t \in Seq(Bytes) /\ Len(t) = n
      /\ \A i \in 1 .. n : t[i] = meaning[i]
  BY <1>2, <1>3, SubSeqProperties DEF Meant
<1>8. /\ v \in Seq(Bytes) /\ Len(v) = m
      /\ \A i \in 1 .. m : v[i] = meaning[i]
  BY <1>2, <1>3, SubSeqProperties DEF Meant
<1> HIDE DEF n, m, u, t, v
<1>9. t \o u = v
  <2>1. Len(u) = m - n /\ n < m
    BY <1>2, <1>4, <1>6
  <2>2. /\ t \o u \in Seq(Bytes) /\ Len(t \o u) = m
        /\ \A i \in 1 .. m : (t \o u)[i] = IF i <= n THEN t[i] ELSE u[i - n]
    <3>1. /\ t \o u \in Seq(Bytes) /\ Len(t \o u) = Len(t) + Len(u)
          /\ \A i \in 1 .. Len(t) + Len(u) :
                 (t \o u)[i] = IF i <= Len(t) THEN t[i] ELSE u[i - Len(t)]
      BY <1>4, <1>7, ConcatProperties
    <3>2. Len(t) = n /\ Len(t) + Len(u) = m
      BY <1>2, <1>7, <2>1
    <3> QED
      BY <3>1, <3>2
  <2>3. ASSUME NEW i \in 1 .. m PROVE (t \o u)[i] = v[i]
    <3>1. CASE i <= n
      BY <1>2, <1>7, <1>8, <2>2, <3>1
    <3>2. CASE i > n
      <4>1. i - n \in 1 .. m - n /\ n + (i - n) = i
        BY <1>2, <2>1, <3>2
      <4>2. u[i - n] = meaning[n + (i - n)]
        BY <1>4, <4>1
      <4> QED
        BY <1>2, <1>8, <2>2, <3>2, <4>1, <4>2
    <3>3. i <= n \/ i > n
      BY <1>2
    <3> QED
      BY <3>1, <3>2, <3>3, Zenon
  <2> QED
    BY <1>2, <1>8, <2>2, <2>3, SeqEqual
<1> QED
  BY <1>1, <1>6, <1>9 DEF u, t, v

(* What print_string_ptr writes for a byte is a character that stands for  *)
(* the byte.                                                               *)
LEMMA HexDigitRead ==
    ASSUME NEW d \in 0 .. 15
    PROVE  Hex(HexDigit(d)) = d
BY DEF Hex, HexDigit

LEMMA ControlUnit ==
    ASSUME NEW l, NEW o, NEW b \in 1 .. 31, l[o + 3] = 48, l[o + 4] = 48,
           l[o + 5] = HexDigit(b \div 16), l[o + 6] = HexDigit(b % 16)
    PROVE  Unit(l, o) = b /\ b \notin HighSurrogates \cup LowSurrogates
<1> DEFINE i == b \div 16
           j == b % 16
<1>1. i \in 0 .. 15 /\ j \in 0 .. 15 /\ 16 * i + j = b
  OBVIOUS
<1>2. Hex(HexDigit(i)) = i /\ Hex(HexDigit(j)) = j
  BY <1>1, HexDigitRead
<1>3. Hex(48) = 0
  BY DEF Hex
<1>4. Unit(l, o) = 4096 * 0 + 256 * 0 + 16 * i + j
  BY <1>2, <1>3 DEF Unit
<1> HIDE DEF i, j
<1>5. Unit(l, o) = b
  BY <1>1, <1>4
<1>6. b \notin HighSurrogates \cup LowSurrogates
  BY DEF HighSurrogates, LowSurrogates
<1> QED
  BY <1>5, <1>6

LEMMA CharacterPrinted ==
    ASSUME NEW l \in Seq(Bytes), NEW b \in 1 .. 255
    PROVE  Character(l \o Escaped(b), Len(l), Len(l) + Len(Escaped(b)), <<b>>)
<1> DEFINE o == Len(l)
           e == Escaped(b)
           s == l \o e
           p == o + Len(e)
<1>1. e \in Seq(Bytes) /\ Len(e) \in Nat /\ o \in Nat
  <2>1. Escaped(b) \in Seq(Bytes)
    BY EscapedType
  <2> QED
    BY <2>1, LenProperties
<1>2. \A i \in 1 .. Len(e) : s[o + i] = e[i]
  <2> HIDE DEF e
  <2>1. \A i \in 1 .. o + Len(e) : s[i] = IF i <= o THEN l[i] ELSE e[i - o]
    BY <1>1, ConcatProperties
  <2>2. ASSUME NEW i \in 1 .. Len(e) PROVE s[o + i] = e[i]
    <3>1. o + i \in 1 .. o + Len(e) /\ ~ (o + i <= o) /\ (o + i) - o = i
      BY <1>1
    <3> QED
      BY <2>1, <3>1
  <2> QED
    BY <2>2
<1> SUFFICES Character(s, o, p, <<b>>)
  OBVIOUS
<1> HIDE DEF s, o
<1>3. CASE b \in {8, 9, 10, 12, 13, Quote, Backslash}
  <2>1. PICK x : e = <<Backslash, x>> /\ <<x, b>> \in ShortEscapes
    BY <1>3 DEF Escaped, ShortEscapes, Quote, Backslash
  <2>2. Len(e) = 2 /\ e[1] = Backslash /\ e[2] = x
    BY <2>1
  <2> HIDE DEF e
  <2>3. s[o + 1] = Backslash /\ s[o + 2] = x /\ p = o + 2
    BY <1>2, <2>2
  <2> HIDE DEF p
  <2>4. \E d \in ShortEscapes : s[o + 2] = d[1] /\ <<b>> = <<d[2]>>
    <3>1. <<x, b>>[1] = x /\ <<x, b>>[2] = b
      OBVIOUS
    <3> QED
      BY <2>1, <2>3, <3>1
  <2> QED
    BY <2>3, <2>4 DEF Character
<1>4. CASE b \notin {8, 9, 10, 12, 13, Quote, Backslash} /\ b > 31
  <2>1. e = <<b>>
    BY <1>4 DEF Escaped
  <2>2. Len(e) = 1 /\ e[1] = b
    BY <2>1
  <2> HIDE DEF e
  <2>3. s[o + 1] = b /\ p = o + 1
    BY <1>2, <2>2
  <2> HIDE DEF p
  <2>4. s[o + 1] \in (32 .. 255) \ {Quote, Backslash}
    BY <1>4, <2>3
  <2>5. <<b>> = <<s[o + 1]>>
    BY <2>3
  <2> QED
    BY <2>3, <2>4, <2>5 DEF Character
<1>5. CASE b \notin {8, 9, 10, 12, 13, Quote, Backslash} /\ b <= 31
  <2>1. e = <<Backslash, LetterU, 48, 48, HexDigit(b \div 16),
              HexDigit(b % 16)>>
    BY <1>5 DEF Escaped
  <2>2. /\ Len(e) = 6 /\ e[1] = Backslash /\ e[2] = LetterU
        /\ e[3] = 48 /\ e[4] = 48
        /\ e[5] = HexDigit(b \div 16) /\ e[6] = HexDigit(b % 16)
    BY <2>1
  <2> HIDE DEF e
  <2>3. /\ s[o + 1] = Backslash /\ s[o + 2] = LetterU
        /\ s[o + 3] = 48 /\ s[o + 4] = 48
        /\ s[o + 5] = HexDigit(b \div 16) /\ s[o + 6] = HexDigit(b % 16)
        /\ p = o + 6
    BY <1>2, <2>2
  <2> HIDE DEF p
  <2>4. b \in 1 .. 31
    BY <1>5
  <2>5. Unit(s, o) = b /\ b \notin HighSurrogates \cup LowSurrogates
    BY <2>3, <2>4, ControlUnit, Zenon
  <2>6. IsEscape(s, o)
    <3>1. b \div 16 \in 0 .. 15 /\ b % 16 \in 0 .. 15
      BY <2>4
    <3>2. /\ Hex(HexDigit(b \div 16)) = b \div 16
          /\ Hex(HexDigit(b % 16)) = b % 16
      BY <3>1, HexDigitRead, Zenon
    <3>3. Hex(48) # -1
      BY DEF Hex
    <3>4. b \div 16 # -1 /\ b % 16 # -1
      BY <3>1
    <3>5. ASSUME NEW k \in 3 .. 6 PROVE Hex(s[o + k]) # -1
      <4>1. k = 3 \/ k = 4 \/ k = 5 \/ k = 6
        OBVIOUS
      <4> QED
        BY <2>3, <3>2, <3>3, <3>4, <4>1, Zenon
    <3> QED
      BY <2>3, <3>5 DEF IsEscape
  <2>7. Encodes(<<b>>, b)
    <3>1. Len(<<b>>) = 1 /\ <<b>>[1] = b /\ 2 .. 1 = {} /\ b \in 0 .. 127
      BY <2>4
    <3> QED
      BY <3>1 DEF Encodes
  <2> QED
    BY <2>3, <2>5, <2>6, <2>7 DEF Character
<1> QED
  BY <1>3, <1>4, <1>5

(* The first pass is at a mark, or inside an escape of UTF-16. *)
AtMark(marks, k) == input_end = marks[k].at

InEscape(marks, k) ==
    /\ k # Len(marks)
    /\ marks[k].at + 2 <= input_end /\ input_end < marks[k + 1].at
    /\ input_end # marks[k].at + 7

LeftToPrint(marks) ==
    LET last == marks[Len(marks)]
    IN  /\ last.at = Len(literal)
        /\ Len(unprinted) = Len(meaning) - last.of
        /\ \A i \in 1 .. Len(unprinted) : unprinted[i] = meaning[last.of + i]

Standing(marks) ==
    /\ AreMarks(literal, meaning, marks)
    /\ phase = "print" => LeftToPrint(marks)
    /\ phase \in {"scan", "unescape"} => Means(literal, meaning, marks)
    /\ phase = "scan" =>
           \E k \in DOMAIN marks : AtMark(marks, k) \/ InEscape(marks, k)
    /\ phase = "unescape" =>
           /\ input_end = marks[Len(marks)].at
           /\ \E k \in DOMAIN marks :
                  input_pointer = marks[k].at /\ output = Meant(marks, k)
    /\ phase = "parsed" => output = meaning
    /\ phase # "failed"

MeaningInv == meaning # NoMeaning => \E marks : Standing(marks)

LEMMA MeaningInit == StringInit => MeaningInv
<1> SUFFICES ASSUME StringInit, meaning # NoMeaning
             PROVE  \E marks : Standing(marks)
  BY DEF MeaningInv
<1>1. CASE /\ \E l \in Literals : literal = l.bytes /\ meaning = l.meaning
           /\ phase = "scan"
           /\ unprinted = <<>>
  <2>1. PICK l \in Literals : literal = l.bytes /\ meaning = l.meaning
    BY <1>1
  <2>2. Means(literal, meaning, l.marks)
    BY <2>1, JsonStringAssumption
  <2>3. AreMarks(literal, meaning, l.marks)
    BY <2>2 DEF Means
  <2>4. 1 \in DOMAIN l.marks /\ AtMark(l.marks, 1)
    <3>1. l.marks \in Seq([at : Nat, of : Nat]) /\ l.marks # <<>>
      BY <2>3 DEF AreMarks
    <3>2. l.marks[1].at = 1
      BY <2>3 DEF AreMarks
    <3> QED
      BY <3>1, <3>2 DEF AtMark, StringInit
  <2>5. Standing(l.marks)
    BY <1>1, <2>2, <2>3, <2>4 DEF Standing
  <2> QED
    BY <2>5
<1>2. CASE /\ literal = <<Quote>>
           /\ meaning \in Printed
           /\ phase = "print"
           /\ unprinted = meaning
  <2> DEFINE start == [at |-> 1, of |-> 0]
             marks == <<start>>
  <2>1. meaning \in Seq(1 .. 255)
    BY <1>2, JsonStringAssumption
  <2>2. start \in [at : Nat, of : Nat] /\ start.at = 1 /\ start.of = 0
    OBVIOUS
  <2>3. /\ marks \in Seq([at : Nat, of : Nat]) /\ marks # <<>>
        /\ Len(marks) = 1 /\ marks[1] = start /\ DOMAIN marks = 1 .. 1
    <3> HIDE DEF start
    <3> QED
      BY <2>2
  <2>4. Len(literal) = 1 /\ Len(meaning) \in Nat
    BY <1>2, <2>1
  <2> HIDE DEF marks
  <2>5. AreMarks(literal, meaning, marks)
    <3>1. \A k \in DOMAIN marks :
              marks[k].at \in 1 .. 1 /\ marks[k].of \in 0 .. Len(meaning)
      BY <2>2, <2>3, <2>4
    <3>2. 1 .. Len(marks) - 1 = {}
      BY <2>3
    <3> QED
      BY <2>2, <2>3, <3>1, <3>2 DEF AreMarks
  <2>6. LeftToPrint(marks)
    BY <1>2, <2>1, <2>2, <2>3, <2>4 DEF LeftToPrint
  <2>7. Standing(marks)
    BY <1>2, <2>5, <2>6 DEF Standing
  <2> QED
    BY <2>7
<1> QED
  BY <1>1, <1>2 DEF StringInit

(* The marks of what is there stay marks when more is written.             *)
LEMMA MarksKept ==
    ASSUME NEW marks, AreMarks(literal, meaning, marks),
           marks[Len(marks)].at <= Len(literal), literal \in Seq(Bytes),
           NEW more \in Seq(Bytes)
    PROVE  AreMarks(literal \o more, meaning, marks)
<1> DEFINE last == marks[Len(marks)]
           s == literal \o more
<1>1. \A i \in 1 .. Len(literal) : s[i] = literal[i]
  BY ConcatProperties
<1> HIDE DEF s
<1>2. ASSUME NEW k \in 1 .. Len(marks) - 1
      PROVE  Character(s, marks[k].at, marks[k + 1].at,
                       SubSeq(meaning, marks[k].of + 1, marks[k + 1].of))
  <2>1. marks \in Seq([at : Nat, of : Nat])
    BY DEF AreMarks
  <2>2. k \in DOMAIN marks /\ k + 1 \in DOMAIN marks
    BY <2>1
  <2>3. /\ marks[k].at \in Nat /\ marks[k + 1].at \in Nat
        /\ marks[k + 1].at <= last.at /\ last.at \in Nat
    BY <2>2, MarkTypes
  <2>4. \A i \in 1 .. marks[k + 1].at : s[i] = literal[i]
    BY <1>1, <2>3
  <2>5. Character(literal, marks[k].at, marks[k + 1].at,
                  SubSeq(meaning, marks[k].of + 1, marks[k + 1].of))
    BY DEF AreMarks
  <2> QED
    BY <2>3, <2>4, <2>5, CharacterKept
<1>3. AreMarks(s, meaning, marks)
  BY <1>2 DEF AreMarks
<1> QED
  BY <1>3 DEF s

LEMMA MarkAdded ==
    ASSUME NEW l, NEW marks, AreMarks(l, meaning, marks),
           meaning \in Seq(Bytes), marks[Len(marks)].of < Len(meaning),
           NEW p \in Nat, marks[Len(marks)].at <= p,
           Character(l, marks[Len(marks)].at, p,
                     <<meaning[marks[Len(marks)].of + 1]>>)
    PROVE  AreMarks(l, meaning,
                    Append(marks, [at |-> p, of |-> marks[Len(marks)].of + 1]))
<1> DEFINE n == Len(marks)
           last == marks[n]
           new == [at |-> p, of |-> last.of + 1]
           more == Append(marks, new)
<1>1. /\ marks \in Seq([at : Nat, of : Nat]) /\ marks # <<>>
      /\ n \in Nat \ {0} /\ DOMAIN marks = 1 .. n /\ n \in DOMAIN marks
  BY DEF AreMarks
<1>2. last.at \in Nat /\ last.of \in Nat
  BY <1>1, MarkTypes
<1>3. new \in [at : Nat, of : Nat] /\ new.at = p /\ new.of = last.of + 1
  BY <1>2
<1> HIDE DEF new
<1>4. /\ more \in Seq([at : Nat, of : Nat]) /\ more # <<>>
      /\ Len(more) = n + 1 /\ DOMAIN more = 1 .. n + 1
      /\ \A k \in 1 .. n : more[k] = marks[k]
      /\ more[n + 1] = new
  <2>1. /\ more \in Seq([at : Nat, of : Nat]) /\ more # <<>>
        /\ Len(more) = n + 1
        /\ \A k \in 1 .. n : more[k] = marks[k]
        /\ more[n + 1] = new
    <3> DEFINE R == [at : Nat, of : Nat]
    <3>1. marks \in Seq(R) /\ new \in R
      BY <1>1, <1>3
    <3> HIDE DEF R
    <3>2. /\ more \in Seq(R) /\ more # <<>>
          /\ Len(more) = n + 1
          /\ \A k \in 1 .. n : more[k] = marks[k]
          /\ more[n + 1] = new
      BY <3>1, AppendProperties
    <3> QED
      BY <3>2 DEF R
  <2> HIDE DEF more
  <2> QED
    BY <2>1
<1> HIDE DEF more
<1>5. more[1] = [at |-> 1, of |-> 0]
  BY <1>1, <1>4 DEF AreMarks
<1>6. ASSUME NEW k \in 1 .. n + 1
      PROVE  more[k].at \in 1 .. p /\ more[k].of \in 0 .. Len(meaning)
  <2>1. CASE k \in 1 .. n
    <3>1. marks[k].at \in 1 .. last.at /\ marks[k].of \in 0 .. Len(meaning)
      BY <1>1, <2>1 DEF AreMarks
    <3>2. more[k] = marks[k]
      BY <1>4, <2>1, Zenon
    <3>3. \A j \in 1 .. last.at : j \in 1 .. p
      BY <1>2
    <3> QED
      BY <3>1, <3>2, <3>3, Zenon
  <2>2. CASE k = n + 1
    <3>1. p >= 1
      <4>1. last.at \in 1 .. last.at
        BY <1>1 DEF AreMarks
      <4> QED
        BY <1>2, <4>1
    <3> QED
      BY <1>2, <1>3, <1>4, <2>2, <3>1
  <2> QED
    BY <1>1, <2>1, <2>2
<1>7. ASSUME NEW k \in 1 .. n
      PROVE  Character(l, more[k].at, more[k + 1].at,
                       SubSeq(meaning, more[k].of + 1, more[k + 1].of))
  <2>1. CASE k \in 1 .. n - 1
    <3>1. more[k] = marks[k] /\ more[k + 1] = marks[k + 1]
      <4>1. k \in 1 .. n /\ k + 1 \in 1 .. n
        BY <1>1, <2>1
      <4> QED
        BY <1>4, <4>1, Zenon
    <3> QED
      BY <2>1, <3>1 DEF AreMarks
  <2>2. CASE k = n
    <3>1. more[k] = last /\ more[k + 1] = new
      BY <1>1, <1>4, <2>2
    <3> DEFINE i == last.of + 1
    <3>2. i \in 1 .. Len(meaning)
      BY <1>2
    <3> HIDE DEF i
    <3>3. SubSeq(meaning, i, i) = <<meaning[i]>>
      <4>1. meaning[i] \in Bytes /\ i \in Int
        BY <3>2
      <4>2. \A j \in i .. i : meaning[j] \in Bytes
        BY <4>1
      <4>3. /\ SubSeq(meaning, i, i) \in Seq(Bytes)
            /\ Len(SubSeq(meaning, i, i)) = 1
            /\ SubSeq(meaning, i, i)[1] = meaning[i]
        BY <4>1, <4>2, SubSeqProperties
      <4>4. /\ <<meaning[i]>> \in Seq(Bytes) /\ Len(<<meaning[i]>>) = 1
            /\ <<meaning[i]>>[1] = meaning[i]
        BY <4>1
      <4>5. \A j \in 1 .. 1 : SubSeq(meaning, i, i)[j] = <<meaning[i]>>[j]
        BY <4>3, <4>4
      <4> QED
        BY <4>3, <4>4, <4>5, SeqEqual, Zenon
    <3>4. <<meaning[i]>> = SubSeq(meaning, last.of + 1, new.of)
      BY <1>3, <3>3 DEF i
    <3>5. Character(l, last.at, p, <<meaning[i]>>)
      BY DEF i
    <3> QED
      BY <1>3, <3>1, <3>4, <3>5
  <2> QED
    BY <1>1, <2>1, <2>2
<1>8. more[Len(more)].at = p /\ Len(more) - 1 = n
  BY <1>1, <1>3, <1>4
<1>9. AreMarks(l, meaning, more)
  BY <1>4, <1>5, <1>6, <1>7, <1>8 DEF AreMarks
<1> QED
  BY <1>9 DEF more, new

(* One lemma for each action.                                              *)
LEMMA MeaningPrintByte ==
    ASSUME StringIInv, PrintByte, meaning # NoMeaning,
           NEW marks, Standing(marks)
    PROVE  \E more : Standing(more)'
<1> DEFINE last == marks[Len(marks)]
           n == last.of
           o == Len(literal)
           b == Head(unprinted)
           e == Escaped(b)
           p == o + Len(e)
<1>1. /\ phase = "print" /\ phase' = "print" /\ meaning' = meaning
      /\ literal' = literal \o e
      /\ unprinted # <<>> /\ unprinted' = Tail(unprinted)
  BY DEF PrintByte
<1>2. /\ AreMarks(literal, meaning, marks)
      /\ last.at = o /\ Len(unprinted) = Len(meaning) - n
      /\ \A i \in 1 .. Len(unprinted) : unprinted[i] = meaning[n + i]
  BY <1>1 DEF Standing, LeftToPrint
<1>3. /\ literal \in Seq(Bytes) /\ meaning \in Seq(Bytes)
      /\ unprinted \in Seq(1 .. 255)
  BY DEF StringIInv, StringTypeOK
<1>4. n \in Nat /\ o \in Nat /\ Len(meaning) \in Nat
  <2>1. 1 \in DOMAIN marks
    BY <1>2 DEF AreMarks
  <2> QED
    BY <1>2, <1>3, <2>1, MarkTypes
<1>5. /\ b \in 1 .. 255 /\ b = unprinted[1] /\ Len(unprinted) >= 1
      /\ Len(unprinted') = Len(unprinted) - 1
      /\ \A i \in 1 .. Len(unprinted') : unprinted'[i] = unprinted[i + 1]
  <2>1. /\ Head(unprinted) \in 1 .. 255
        /\ Len(Tail(unprinted)) = Len(unprinted) - 1
        /\ \A i \in 1 .. Len(Tail(unprinted)) :
               Tail(unprinted)[i] = unprinted[i + 1]
    BY <1>1, <1>3, HeadTailProperties
  <2>2. Head(unprinted) = unprinted[1] /\ Len(unprinted) >= 1
    BY <1>1, <1>3
  <2> QED
    BY <1>1, <2>1, <2>2
<1>6. e \in Seq(Bytes) /\ Len(e) \in Nat /\ Len(literal') = p
  <2>1. e \in Seq(Bytes)
    BY <1>5, EscapedType
  <2> HIDE DEF e
  <2> QED
    BY <1>1, <1>3, <2>1, ConcatProperties, LenProperties
<1>7. b = meaning[n + 1] /\ n < Len(meaning)
  <2> HIDE DEF n, b
  <2>1. 1 \in 1 .. Len(unprinted)
    BY <1>5
  <2> QED
    BY <1>2, <1>4, <1>5, <2>1
<1>8. Character(literal', o, p, <<b>>)
  <2> HIDE DEF b
  <2> QED
    BY <1>1, <1>3, <1>5, CharacterPrinted
<1> HIDE DEF e, b, o
<1>9. AreMarks(literal', meaning, marks)
  <2>1. marks[Len(marks)].at <= Len(literal)
    BY <1>2, <1>4 DEF o
  <2>2. AreMarks(literal \o e, meaning, marks)
    BY <1>2, <1>3, <1>6, <2>1, MarksKept
  <2> QED
    BY <1>1, <2>2
<1>10. PICK more :
           more = Append(marks, [at |-> p, of |-> marks[Len(marks)].of + 1])
  OBVIOUS
<1>11. AreMarks(literal', meaning, more)
  <2>1. p \in Nat /\ marks[Len(marks)].at <= p
    BY <1>2, <1>4, <1>6
  <2>2. marks[Len(marks)].of < Len(meaning)
    BY <1>7
  <2>3. Character(literal', marks[Len(marks)].at, p,
                  <<meaning[marks[Len(marks)].of + 1]>>)
    BY <1>2, <1>7, <1>8
  <2> HIDE DEF p
  <2> QED
    BY <1>3, <1>9, <1>10, <2>1, <2>2, <2>3, MarkAdded
<1>12. more[Len(more)].at = p /\ more[Len(more)].of = n + 1
  <2>1. marks \in Seq([at : Nat, of : Nat])
    BY <1>2 DEF AreMarks
  <2> HIDE DEF p
  <2>2. PICK new : new = [at |-> p, of |-> marks[Len(marks)].of + 1]
    OBVIOUS
  <2>3. more = Append(marks, new)
    BY <1>10, <2>2
  <2>4. more[Len(more)] = new
    BY <2>1, <2>3
  <2> QED
    BY <2>2, <2>4
<1>13. LeftToPrint(more)'
  <2>1. Len(unprinted') = Len(meaning) - (n + 1)
    <3> HIDE DEF n
    <3> QED
      BY <1>2, <1>3, <1>4, <1>5
  <2>2. ASSUME NEW i \in 1 .. Len(unprinted')
        PROVE  unprinted'[i] = meaning[(n + 1) + i]
    <3> HIDE DEF n
    <3>1. i + 1 \in 1 .. Len(unprinted) /\ n + (i + 1) = (n + 1) + i
      BY <1>3, <1>4, <1>5
    <3> QED
      BY <1>2, <1>5, <3>1
  <2> HIDE DEF n, p
  <2> QED
    BY <1>1, <1>6, <1>12, <2>1, <2>2 DEF LeftToPrint
<1> QED
  BY <1>1, <1>11, <1>13 DEF Standing

LEMMA MeaningPrintEnd ==
    ASSUME StringIInv, PrintEnd, meaning # NoMeaning,
           NEW marks, Standing(marks)
    PROVE  Standing(marks)'
<1> DEFINE last == marks[Len(marks)]
           o == Len(literal)
           more == <<Quote, 0>>
<1>1. /\ phase = "print" /\ phase' = "scan" /\ meaning' = meaning
      /\ literal' = literal \o more
      /\ unprinted = <<>> /\ input_end' = input_end
  BY DEF PrintEnd
<1>2. /\ AreMarks(literal, meaning, marks)
      /\ last.at = o /\ Len(unprinted) = Len(meaning) - last.of
  BY <1>1 DEF Standing, LeftToPrint
<1>3. literal \in Seq(Bytes) /\ meaning \in Seq(Bytes) /\ input_end = 1
  BY <1>1 DEF StringIInv, StringTypeOK, Inside
<1>4. /\ o \in Nat /\ last.of \in Nat /\ Len(meaning) \in Nat
      /\ 1 \in DOMAIN marks
  <2>1. 1 \in DOMAIN marks
    BY <1>2 DEF AreMarks
  <2> QED
    BY <1>2, <1>3, <2>1, MarkTypes
<1>5. more \in Seq(Bytes) /\ Len(more) = 2 /\ more[1] = Quote
  BY DEF Bytes, Quote
<1> HIDE DEF more
<1>6. AreMarks(literal', meaning, marks)
  <2>1. marks[Len(marks)].at <= Len(literal)
    BY <1>2, <1>4
  <2> QED
    BY <1>1, <1>2, <1>3, <1>5, <2>1, MarksKept
<1>7. last.at < Len(literal') /\ literal'[last.at + 1] = Quote
  <2>1. /\ Len(literal') = Len(literal) + 2
        /\ \A i \in 1 .. Len(literal) + 2 :
               literal'[i] = IF i <= Len(literal) THEN literal[i]
                             ELSE more[i - Len(literal)]
    <3>1. /\ Len(literal \o more) = Len(literal) + Len(more)
          /\ \A i \in 1 .. Len(literal) + Len(more) :
                 (literal \o more)[i] = IF i <= Len(literal) THEN literal[i]
                                        ELSE more[i - Len(literal)]
      BY <1>3, <1>5, ConcatProperties
    <3> QED
      BY <1>1, <1>5, <3>1
  <2> QED
    BY <1>2, <1>4, <1>5, <2>1
<1>8. last.of = Len(meaning)
  BY <1>1, <1>2, <1>4
<1>9. Means(literal', meaning, marks)
  BY <1>6, <1>7, <1>8 DEF Means
<1>10. AtMark(marks, 1)'
  BY <1>1, <1>2, <1>3 DEF AtMark, AreMarks
<1> QED
  BY <1>1, <1>4, <1>6, <1>9, <1>10 DEF Standing

(* The first pass leaves an escape where the second one does.              *)
Passed(o) == IF Byte(o) = Backslash THEN o + 2 ELSE o + 1

LEMMA DigitPassed ==
    ASSUME NEW i, Hex(Byte(i)) # -1
    PROVE  Byte(i) # Quote /\ Passed(i) = i + 1
BY DEF Hex, Quote, Backslash, Passed

LEMMA DigitsOfEscape ==
    ASSUME NEW o \in Nat, Escape(o), NEW i \in Nat, o + 2 <= i, i <= o + 5
    PROVE  Byte(i) # Quote /\ Passed(i) = i + 1
<1>1. i - o \in 2 .. 5 /\ o + (i - o) = i
  OBVIOUS
<1>2. Hex(Byte(i)) # -1
  BY <1>1 DEF Escape
<1> QED
  BY <1>2, DigitPassed, Zenon

LEMMA EscapePassed ==
    ASSUME NEW o \in Nat, NEW p, NEW u, NEW i \in Nat,
           Raw(o, p, u) \/ Short(o, p, u) \/ Single(o, p, u)
               \/ Paired(o, p, u),
           o + 2 <= i, i < p, i # o + 7
    PROVE  /\ Byte(i) # Quote
           /\ Passed(i) = p \/ (Passed(i) < p /\ Passed(i) # o + 7)
           /\ Passed(i) \in Nat /\ i < Passed(i)
<1>1. CASE Raw(o, p, u) \/ Short(o, p, u)
  BY <1>1 DEF Raw, Short
<1>2. CASE Single(o, p, u)
  <2>1. p = o + 6 /\ Escape(o)
    BY <1>2 DEF Single
  <2>2. Byte(i) # Quote /\ Passed(i) = i + 1
    BY <2>1, DigitsOfEscape
  <2> QED
    BY <2>1, <2>2
<1>3. CASE Paired(o, p, u)
  <2>1. p = o + 12 /\ Escape(o) /\ Escape(o + 6)
    BY <1>3 DEF Paired
  <2>2. CASE i <= o + 5
    <3>1. Byte(i) # Quote /\ Passed(i) = i + 1
      BY <2>1, <2>2, DigitsOfEscape
    <3> QED
      BY <2>1, <2>2, <3>1
  <2>3. CASE i = o + 6
    <3>1. Byte(i) = Backslash /\ Passed(i) = i + 2
      BY <2>1, <2>3 DEF Escape, Passed
    <3>2. Backslash # Quote
      BY DEF Backslash, Quote
    <3> QED
      BY <2>1, <2>3, <3>1, <3>2
  <2>4. CASE i >= o + 8
    <3>1. o + 6 \in Nat /\ (o + 6) + 2 <= i /\ i <= (o + 6) + 5
      BY <2>1, <2>4
    <3>2. Byte(i) # Quote /\ Passed(i) = i + 1
      BY <2>1, <3>1, DigitsOfEscape
    <3> QED
      BY <2>1, <2>4, <3>2
  <2> QED
    BY <2>1, <2>2, <2>3, <2>4
<1> QED
  BY <1>1, <1>2, <1>3

LEMMA CharacterPassed ==
    ASSUME NEW o \in Nat, NEW p, NEW u,
           Raw(o, p, u) \/ Short(o, p, u) \/ Single(o, p, u)
               \/ Paired(o, p, u)
    PROVE  /\ Byte(o) # Quote
           /\ Passed(o) = p
                  \/ (o + 2 = Passed(o) /\ Passed(o) < p /\ Passed(o) # o + 7)
<1>1. CASE Raw(o, p, u) \/ Short(o, p, u)
  BY <1>1 DEF Raw, Short, Passed, Quote, Backslash
<1>2. CASE Single(o, p, u) \/ Paired(o, p, u)
  <2>1. Byte(o) = Backslash /\ (p = o + 6 \/ p = o + 12)
    BY <1>2 DEF Single, Paired, Escape
  <2> QED
    BY <2>1 DEF Passed, Quote, Backslash
<1> QED
  BY <1>1, <1>2

LEMMA MeaningScan ==
    ASSUME StringIInv, Scan, meaning # NoMeaning,
           NEW marks, Standing(marks)
    PROVE  Standing(marks)'
<1>1. /\ phase = "scan" /\ literal' = literal /\ meaning' = meaning
      /\ AreMarks(literal, meaning, marks)
      /\ Means(literal, meaning, marks)
      /\ Byte(input_end) # Quote
  BY DEF Scan, Standing
<1>2. input_end \in Nat /\ meaning \in Seq(Bytes)
  BY DEF StringIInv, StringTypeOK
<1>3. CASE phase' = "refused"
  BY <1>1, <1>3 DEF Standing
<1>4. CASE phase' = phase
  <2>1. input_end' = Passed(input_end)
    BY <1>1, <1>4 DEF Scan, NoOutput, Passed
  <2>2. PICK k \in DOMAIN marks : AtMark(marks, k) \/ InEscape(marks, k)
    BY <1>1 DEF Standing
  <2>3. k # Len(marks)
    BY <1>1, <2>2 DEF AtMark, InEscape, Means, Byte
  <2>4. PICK u : /\ k + 1 \in DOMAIN marks
                 /\ Raw(marks[k].at, marks[k + 1].at, u)
                        \/ Short(marks[k].at, marks[k + 1].at, u)
                        \/ Single(marks[k].at, marks[k + 1].at, u)
                        \/ Paired(marks[k].at, marks[k + 1].at, u)
    BY <1>1, <1>2, <2>3, NextMark, Zenon
  <2>5. marks[k].at \in Nat
    BY <1>1, MarkTypes
  <2>6. AtMark(marks, k + 1)' \/ InEscape(marks, k)'
    <3>1. CASE AtMark(marks, k)
      <4>1. input_end = marks[k].at
        BY <3>1 DEF AtMark
      <4>2. \/ Passed(input_end) = marks[k + 1].at
            \/ /\ marks[k].at + 2 = Passed(input_end)
               /\ Passed(input_end) < marks[k + 1].at
               /\ Passed(input_end) # marks[k].at + 7
        BY <2>4, <2>5, <4>1, CharacterPassed, Zenon
      <4> QED
        BY <2>1, <2>3, <2>5, <4>2 DEF AtMark, InEscape
    <3>2. CASE InEscape(marks, k)
      <4>1. /\ marks[k].at + 2 <= input_end /\ input_end < marks[k + 1].at
            /\ input_end # marks[k].at + 7
        BY <3>2 DEF InEscape
      <4>2. /\ Passed(input_end) \in Nat /\ input_end < Passed(input_end)
            /\ \/ Passed(input_end) = marks[k + 1].at
               \/ /\ Passed(input_end) < marks[k + 1].at
                  /\ Passed(input_end) # marks[k].at + 7
        BY <1>2, <2>4, <2>5, <4>1, EscapePassed, Zenon
      <4>3. marks[k].at + 2 <= Passed(input_end)
        BY <1>2, <2>5, <4>1, <4>2
      <4> QED
        BY <2>1, <2>3, <4>2, <4>3 DEF AtMark, InEscape
    <3> QED
      BY <2>2, <3>1, <3>2
  <2> QED
    BY <1>1, <1>4, <2>4, <2>6 DEF Standing
<1> QED
  BY <1>3, <1>4 DEF Scan, NoOutput

LEMMA MeaningScanEnd ==
    ASSUME StringIInv, ScanEnd, meaning # NoMeaning,
           NEW marks, Standing(marks)
    PROVE  Standing(marks)'
<1>1. /\ phase = "scan" /\ literal' = literal /\ meaning' = meaning
      /\ input_pointer' = input_pointer /\ output' = output
      /\ AreMarks(literal, meaning, marks)
      /\ Means(literal, meaning, marks)
  BY DEF ScanEnd, Standing
<1>2. /\ input_end \in Nat /\ meaning \in Seq(Bytes)
      /\ input_pointer = 1 /\ output = <<>>
  BY <1>1 DEF StringIInv, StringTypeOK, Inside
<1>3. CASE phase' = "refused"
  BY <1>1, <1>3 DEF Standing
<1>4. CASE /\ phase' = "unescape" /\ input_end' = input_end
           /\ Byte(input_end) = Quote
  <2>1. PICK k \in DOMAIN marks : AtMark(marks, k) \/ InEscape(marks, k)
    BY <1>1 DEF Standing
  <2>2. k = Len(marks)
    <3> SUFFICES ASSUME k # Len(marks) PROVE FALSE
      OBVIOUS
    <3>1. PICK u : Raw(marks[k].at, marks[k + 1].at, u)
                       \/ Short(marks[k].at, marks[k + 1].at, u)
                       \/ Single(marks[k].at, marks[k + 1].at, u)
                       \/ Paired(marks[k].at, marks[k + 1].at, u)
      BY <1>1, <1>2, NextMark, Zenon
    <3>2. marks[k].at \in Nat
      BY <1>1, MarkTypes
    <3>3. CASE AtMark(marks, k)
      BY <1>4, <3>1, <3>2, <3>3, CharacterPassed, Zenon DEF AtMark
    <3>4. CASE InEscape(marks, k)
      BY <1>2, <1>4, <3>1, <3>2, <3>4, EscapePassed, Zenon DEF InEscape
    <3> QED
      BY <2>1, <3>3, <3>4
  <2>3. input_end' = marks[Len(marks)].at
    BY <1>4, <2>1, <2>2 DEF AtMark, InEscape
  <2>4. 1 \in DOMAIN marks /\ input_pointer' = marks[1].at
    BY <1>1, <1>2 DEF AreMarks
  <2>5. output' = Meant(marks, 1)'
    <3>1. marks[1].of = 0
      BY <1>1 DEF AreMarks
    <3>2. SubSeq(meaning, 1, 0) = <<>>
      BY SubSeqEmpty
    <3> QED
      BY <1>1, <1>2, <3>1, <3>2 DEF Meant
  <2> QED
    BY <1>1, <1>4, <2>3, <2>4, <2>5 DEF Standing
<1> QED
  BY <1>3, <1>4 DEF ScanEnd, NoOutput

(* The second pass is at a mark, and the next character is u, up to p.     *)
NextCharacter(marks, p, u) ==
    /\ Raw(input_pointer, p, u) \/ Short(input_pointer, p, u)
           \/ Single(input_pointer, p, u) \/ Paired(input_pointer, p, u)
    /\ p <= input_end
    /\ \E k \in DOMAIN marks :
           p = marks[k].at /\ output \o u = Meant(marks, k)

LEMMA HasNextCharacter ==
    ASSUME StringIInv, Unescaping, meaning # NoMeaning,
           NEW marks, Standing(marks)
    PROVE  \E p, u : NextCharacter(marks, p, u)
<1>1. /\ AreMarks(literal, meaning, marks)
      /\ input_end = marks[Len(marks)].at
      /\ input_pointer < input_end
  BY DEF Standing, Unescaping
<1>2. PICK k \in DOMAIN marks :
          input_pointer = marks[k].at /\ output = Meant(marks, k)
  BY DEF Standing, Unescaping
<1>3. /\ meaning \in Seq(Bytes)
      /\ input_pointer \in Nat /\ input_end \in Nat
  BY DEF StringIInv, StringTypeOK
<1>4. k # Len(marks)
  BY <1>1, <1>2, <1>3
<1>5. /\ k + 1 \in DOMAIN marks
      /\ \/ Raw(marks[k].at, marks[k + 1].at, Text(marks, k))
         \/ Short(marks[k].at, marks[k + 1].at, Text(marks, k))
         \/ Single(marks[k].at, marks[k + 1].at, Text(marks, k))
         \/ Paired(marks[k].at, marks[k + 1].at, Text(marks, k))
      /\ Meant(marks, k + 1) = Meant(marks, k) \o Text(marks, k)
  BY <1>1, <1>3, <1>4, NextMark, Zenon
<1>6. marks[k + 1].at <= input_end
  BY <1>1, <1>5, MarkTypes
<1>7. NextCharacter(marks, marks[k + 1].at, Text(marks, k))
  BY <1>2, <1>5, <1>6, Zenon DEF NextCharacter
<1> QED
  BY <1>7

LEMMA EmitMeaning ==
    ASSUME Unescaping, NEW marks, Standing(marks),
           NEW p, NEW u, NextCharacter(marks, p, u),
           NEW n, Emit(u, n), input_pointer + n = p
    PROVE  Standing(marks)'
<1>1. PICK k \in DOMAIN marks :
          p = marks[k].at /\ output \o u = Meant(marks, k)
  BY DEF NextCharacter
<1>2. /\ phase = "unescape" /\ phase' = phase /\ input_end' = input_end
      /\ literal' = literal /\ meaning' = meaning
      /\ output' = output \o u /\ input_pointer' = p
  BY DEF Emit, Unescaping
<1>3. output' = Meant(marks, k)'
  BY <1>1, <1>2 DEF Meant
<1> QED
  BY <1>1, <1>2, <1>3 DEF Standing

LEMMA Letters ==
    /\ Quote # Backslash /\ LetterU \notin DOMAIN Unescaped
BY DEF Quote, Backslash, LetterU, Unescaped

LEMMA MeaningCopy ==
    ASSUME StringIInv, Copy, meaning # NoMeaning,
           NEW marks, Standing(marks)
    PROVE  Standing(marks)'
<1>1. PICK p, u : NextCharacter(marks, p, u)
  BY HasNextCharacter DEF Copy
<1>2. Raw(input_pointer, p, u)
  BY <1>1 DEF Copy, NextCharacter, Short, Single, Paired, Escape
<1> QED
  BY <1>1, <1>2, EmitMeaning DEF Copy, Raw

LEMMA MeaningShortEscape ==
    ASSUME StringIInv, ShortEscape, meaning # NoMeaning,
           NEW marks, Standing(marks)
    PROVE  Standing(marks)'
<1>1. PICK p, u : NextCharacter(marks, p, u)
  BY HasNextCharacter DEF ShortEscape
<1>2. Short(input_pointer, p, u)
  BY <1>1, Letters
  DEF ShortEscape, NextCharacter, Raw, Single, Paired, Escape
<1> QED
  BY <1>1, <1>2, EmitMeaning DEF ShortEscape, Short

LEMMA MeaningUtf16Escape ==
    ASSUME StringIInv, Utf16Escape, meaning # NoMeaning,
           NEW marks, Standing(marks)
    PROVE  Standing(marks)'
<1>1. PICK p, u : NextCharacter(marks, p, u)
  BY HasNextCharacter DEF Utf16Escape
<1>2. Single(input_pointer, p, u) \/ Paired(input_pointer, p, u)
  BY <1>1, Letters DEF Utf16Escape, NextCharacter, Raw, Short
<1>3. CASE ConvertsOne /\ Emit(Utf8(Codepoint(parse_hex4(input_pointer + 2),
                                              0)), 6)
  <2>1. Single(input_pointer, p, u)
    BY <1>2, <1>3 DEF ConvertsOne, Paired
  <2> QED
    BY <1>1, <1>3, <2>1, EmitMeaning DEF Utf16Escape, Single
<1>4. CASE /\ ConvertsPair
           /\ Emit(Utf8(Codepoint(parse_hex4(input_pointer + 2),
                                  parse_hex4(input_pointer + 8))), 12)
  <2>1. Paired(input_pointer, p, u)
    BY <1>2, <1>4 DEF ConvertsPair, Single
  <2> QED
    BY <1>1, <1>4, <2>1, EmitMeaning DEF Utf16Escape, Paired
<1> QED
  BY <1>3, <1>4 DEF Utf16Escape

(* No escape of a well formed literal is bad.                              *)
LEMMA MeaningBadEscape ==
    ASSUME StringIInv, BadEscape, meaning # NoMeaning,
           NEW marks, Standing(marks)
    PROVE  FALSE
<1>1. PICK p, u : NextCharacter(marks, p, u)
  BY HasNextCharacter DEF BadEscape
<1>2. Single(input_pointer, p, u) \/ Paired(input_pointer, p, u)
  BY <1>1, Letters DEF BadEscape, NextCharacter, Raw, Short
<1>3. input_pointer \in Nat /\ input_end \in Nat /\ p <= input_end
  BY <1>1 DEF StringIInv, StringTypeOK, NextCharacter
<1>4. Byte(input_pointer + 1) = LetterU
  BY <1>2 DEF Single, Paired, Escape
<1>5. CASE Single(input_pointer, p, u)
  <2>1. p = input_pointer + 6
    BY <1>5 DEF Single
  <2>2. Left(input_pointer, 6)
    BY <1>3, <2>1 DEF Left
  <2> QED
    BY <1>4, <1>5, <2>2, Letters DEF BadEscape, ConvertsOne, Single
<1>6. CASE Paired(input_pointer, p, u)
  <2>1. p = input_pointer + 12
    BY <1>6 DEF Paired
  <2>2. Left(input_pointer, 6) /\ Left(input_pointer + 6, 6)
    BY <1>3, <2>1 DEF Left
  <2>3. (input_pointer + 6) + 1 = input_pointer + 7
    BY <1>3
  <2>4. /\ Byte(input_pointer + 6) = Backslash
        /\ Byte(input_pointer + 7) = LetterU
    BY <1>6, <2>3 DEF Paired, Escape
  <2> QED
    BY <1>4, <1>6, <2>2, <2>4, Letters DEF BadEscape, ConvertsPair, Paired
<1> QED
  BY <1>2, <1>5, <1>6

LEMMA MeaningFinish ==
    ASSUME StringIInv, Finish, meaning # NoMeaning,
           NEW marks, Standing(marks)
    PROVE  Standing(marks)'
<1>1. /\ phase = "unescape" /\ phase' = "parsed"
      /\ literal' = literal /\ meaning' = meaning /\ output' = output
      /\ AreMarks(literal, meaning, marks)
      /\ Means(literal, meaning, marks)
      /\ input_end = marks[Len(marks)].at
      /\ input_pointer >= input_end
  BY DEF Finish, Standing
<1>2. PICK k \in DOMAIN marks :
          input_pointer = marks[k].at /\ output = Meant(marks, k)
  BY <1>1 DEF Standing
<1>3. /\ meaning \in Seq(Bytes)
      /\ input_pointer \in Nat /\ input_end \in Nat
  BY DEF StringIInv, StringTypeOK
<1>4. k = Len(marks)
  <2> SUFFICES ASSUME k # Len(marks) PROVE FALSE
    OBVIOUS
  <2>1. k + 1 \in DOMAIN marks
    BY <1>1, <1>3, NextMark, Zenon
  <2>2. PICK u : Raw(marks[k].at, marks[k + 1].at, u)
                     \/ Short(marks[k].at, marks[k + 1].at, u)
                     \/ Single(marks[k].at, marks[k + 1].at, u)
                     \/ Paired(marks[k].at, marks[k + 1].at, u)
    BY <1>1, <1>3, NextMark, Zenon
  <2>3. marks[k + 1].at > marks[k].at
    BY <1>2, <1>3, <2>2 DEF Raw, Short, Single, Paired
  <2>4. marks[k + 1].at <= input_end /\ marks[k + 1].at \in Nat
    BY <1>1, <2>1, MarkTypes
  <2> QED
    BY <1>1, <1>2, <1>3, <2>3, <2>4
<1>5. output = SubSeq(meaning, 1, Len(meaning))
  BY <1>1, <1>2, <1>4 DEF Meant, Means
<1>6. output = meaning
  BY <1>3, <1>5
<1> QED
  BY <1>1, <1>6 DEF Standing

LEMMA MeaningStep ==
    StringIInv /\ MeaningInv /\ [StringNext]_string_vars => MeaningInv'
<1> SUFFICES ASSUME StringIInv, MeaningInv, [StringNext]_string_vars,
                    meaning' # NoMeaning
             PROVE  \E marks : Standing(marks)'
  BY DEF MeaningInv
<1>1. meaning' = meaning
  BY DEF StringNext, PrintByte, PrintEnd, Scan, ScanEnd, Copy, ShortEscape,
         Utf16Escape, BadEscape, Finish, StringEnded, Emit, string_vars
<1>2. PICK marks : Standing(marks)
  BY <1>1 DEF MeaningInv
<1>3. CASE StringEnded \/ UNCHANGED string_vars
  <2>1. UNCHANGED <<literal, meaning, phase, printing_vars, input_end,
                    input_pointer, output>>
    BY <1>3 DEF StringEnded, string_vars
  <2>2. Standing(marks)'
    BY <1>2, <2>1
    DEF Standing, LeftToPrint, AtMark, InEscape, Meant, printing_vars
  <2> QED
    BY <2>2
<1> QED
  BY <1>1, <1>2, <1>3, MeaningPrintByte, MeaningPrintEnd, MeaningScan,
     MeaningScanEnd, MeaningCopy, MeaningShortEscape, MeaningUtf16Escape,
     MeaningBadEscape, MeaningFinish, Zenon
  DEF StringNext

(* A literal of JSON that memory suffices for is parsed to what it means,  *)
(* whatever its length, its escapes and its code points (cJSON.c:824-951   *)
(* and :675-821), and a string that was printed (:982-1071) to itself.     *)
THEOREM MeaningIsKept == StringSpec => []MeaningKept
<1>1. StringInit => StringIInv /\ MeaningInv
  BY StringInitIInv, MeaningInit
<1>2. /\ StringIInv /\ MeaningInv
      /\ [StringNext]_string_vars
      => (StringIInv /\ MeaningInv)'
  BY StringStepIInv, MeaningStep
<1>3. MeaningInv => MeaningKept
  BY DEF MeaningInv, Standing, MeaningKept
<1> QED
  BY <1>1, <1>2, <1>3, PTL DEF StringSpec
=============================================================================
