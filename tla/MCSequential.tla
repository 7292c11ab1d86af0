---------------------------- MODULE MCSequential ----------------------------
(***************************************************************************)
(* The parts that one thread runs on its own, for TLC: the two halves of   *)
(* cJSON, the monitor's clock and log, and its CPU figure.  They share no  *)
(* state: a behaviour is one of one part, and the others rest.             *)
(*                                                                         *)
(* The parser gets all texts of up to three characters, and documents with *)
(* every change of one character, each with and without a NUL.  The string *)
(* routines get the literals made of three pieces, well formed or not,     *)
(* with and without a closing quote, and every string of three bytes.      *)
(***************************************************************************)
EXTENDS JsonParse, JsonString, MetricsLog, CpuSample

Short(n) == UNION {[1 .. k -> Characters] : k \in 1 .. n}

Documents ==
    {<<"{", "kind", ":", "commit", ",", "commit", ":", "1", "}">>,
     <<"{", "commit", ":", "{", "kind", ":", "commit", "}", "}">>,
     <<"{", "kind", ":", "1", ",", "kind", ":", "commit", "}">>,
     <<"[", "[", "1", ",", " ", "null", "]", ",", "{", "}", "]">>,
     <<"{", "t", ":", "#commit", ",", "commit", ":", "{", "}", "}">>,
     <<" ", "[", "{", "kind", ":", "[", "]", "}", "]">>,
     <<"[", "[", "[", "1", "]", "]", "]">>}

Changed(d) ==
    {[d EXCEPT ![k] = c] : k \in DOMAIN d, c \in Characters}
        \cup {SubSeq(d, 1, k) : k \in DOMAIN d}
        \cup {SubSeq(d, 1, k - 1) \o SubSeq(d, k + 1, Len(d)) :
                  k \in DOMAIN d}
        \cup {SubSeq(d, 1, k) \o <<" ">> \o SubSeq(d, k + 1, Len(d)) :
                  k \in DOMAIN d}

MCTexts ==
    LET bare == Short(3) \cup UNION {Changed(d) : d \in Documents}
    IN bare \cup {Append(t, "NUL") : t \in bare}

Piece(bytes, value) == [bytes |-> bytes, meaning |-> value, marks |-> <<>>]

(* a, \n, \\, \", \u0041, \u00e9, \u20Ac and the pair \uD83d\uDE00. *)
WellFormed ==
    {Piece(<<>>, <<>>), Piece(<<97>>, <<97>>), Piece(<<92, 110>>, <<10>>),
     Piece(<<92, 92>>, <<92>>), Piece(<<92, 34>>, <<34>>),
     Piece(<<92, 117, 48, 48, 52, 49>>, <<65>>),
     Piece(<<92, 117, 48, 48, 101, 57>>, <<195, 169>>),
     Piece(<<92, 117, 50, 48, 65, 99>>, <<226, 130, 172>>),
     Piece(<<92, 117, 68, 56, 51, 100, 92, 117, 68, 69, 48, 48>>,
           <<240, 159, 152, 128>>)}

(* \, \x, \u, \u1, \uabc, and each half of the pair alone. *)
Malformed ==
    {<<92>>, <<92, 120>>, <<92, 117>>, <<92, 117, 49>>,
     <<92, 117, 97, 98, 99>>,
     <<92, 117, 68, 56, 51, 100>>, <<92, 117, 68, 69, 48, 48>>}

(* One piece after another, with a mark after each that is not empty. *)
Empty == [Piece(<<>>, <<>>) EXCEPT !.marks = <<[at |-> 1, of |-> 0]>>]

Joined(l, p) ==
    LET bytes == l.bytes \o p.bytes
        value == l.meaning \o p.meaning
    IN  [bytes |-> bytes, meaning |-> value,
         marks |-> IF p.bytes = <<>> THEN l.marks
                   ELSE Append(l.marks, [at |-> Len(bytes) + 1,
                                         of |-> Len(value)])]

(* A literal is followed by more text, unless the text ends within it. *)
Closed(bytes) == <<Quote>> \o bytes \o <<Quote, 44, 49, 49, 0>>
Unclosed(bytes) == <<Quote>> \o bytes

Meaningful ==
    {Joined(Joined(Joined(Empty, p), q), r) :
        p \in WellFormed, q \in WellFormed, r \in WellFormed}

Contents == {p.bytes : p \in WellFormed} \cup Malformed

MCLiterals ==
    {[l EXCEPT !.bytes = Closed(@)] : l \in Meaningful}
        \cup {Piece(bytes, NoMeaning) :
                bytes \in {Closed(b \o c \o d) :
                             b \in Contents, c \in Contents, d \in Contents}
                   \cup {Unclosed(b \o c \o d) :
                             b \in Contents, c \in Contents, d \in Contents}}

MCPrinted ==
    UNION {[1 .. k -> {97, 34, 92, 8, 10, 1, 31, 195}] : k \in 0 .. 3}

ParserRests ==
    /\ text = <<"NUL">> /\ require_null_terminated = FALSE
    /\ offset = 0 /\ depth = 0
    /\ heap = [n \in 1 .. 2 |-> Free] /\ born = 0 /\ strings = 0
    /\ stack = <<>> /\ item = Null
    /\ at = "deleted" /\ category = "info" /\ refused = TRUE

StringsRest ==
    /\ phase = "refused" /\ literal = <<Quote>>
    /\ meaning = NoMeaning /\ unprinted = <<>>
    /\ output_length = 0 /\ input_end = 1 /\ input_pointer = 1
    /\ escapes = {} /\ allocation = 0 /\ output = <<>>

CpuRests == CpuInit /\ busy = 1 /\ idle = 0

MCInit ==
    \/ Init /\ StringsRest /\ LogInit /\ CpuRests
    \/ ParserRests /\ StringInit /\ LogInit /\ CpuRests
    \/ ParserRests /\ StringsRest /\ LogInit /\ CpuInit

MCNext ==
    \/ Next /\ UNCHANGED <<string_vars, log_state, cpu_vars>>
    \/ StringNext /\ UNCHANGED <<vars, log_state, cpu_vars>>
    \/ /\ ParserRests /\ StringsRest
       /\ \/ CpuRests /\ LogNext /\ UNCHANGED <<vars, string_vars, cpu_vars>>
          \/ LogInit /\ CpuNext /\ UNCHANGED <<vars, string_vars, log_state>>

all_vars == <<vars, string_vars, log_state, cpu_vars>>

MCSpec == MCInit /\ [][MCNext]_all_vars /\ WF_vars(Next)
=============================================================================
