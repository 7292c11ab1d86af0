-------------------------- MODULE JsonGrammar_proofs --------------------------
(***************************************************************************)
(* What the parser accepts, for texts of every length and nesting: exactly *)
(* the values of the grammar; and what the consumer counts as a commit:    *)
(* what the first member "kind" at the top level says.  The proof follows  *)
(* the parser through the text.  GrammarInv says for each of its positions *)
(* what must still come, CategoryInv which names stood in the text so far. *)
(***************************************************************************)
EXTENDS JsonParse_proofs

(***************************************************************************)
(* Blanks.                                                                 *)
(***************************************************************************)
TextOK == text \in Seq(Characters) /\ text # <<>>

(* No blank at d, unless it is the end, and only blanks from o to d.       *)
DarkAt(d, o) ==
    /\ d \in Nat /\ d <= Length
    /\ d < Length => o <= d /\ Char(d) \notin Blanks
    /\ d = Length => Char(d) = "outside"
    /\ o <= Length => o <= d
    /\ \A q \in o .. Length - 1 : q < d => Char(q) \in Blanks

LEMMA DarkIs ==
    ASSUME TextOK, NEW o \in Nat
    PROVE  DarkAt(Dark(o), o)
<1> DEFINE dark == {q \in o .. Length - 1 : Char(q) \notin Blanks}
<1>1. Length \in Nat \ {0} /\ Char(Length) = "outside"
  BY DEF TextOK, Length, Char
<1>2. CASE dark = {}
  <2>1. Dark(o) = Length
    BY <1>2 DEF Dark
  <2>2. \A q \in o .. Length - 1 : Char(q) \in Blanks
    BY <1>2
  <2> QED
    BY <1>1, <2>1, <2>2 DEF DarkAt
<1>3. CASE dark # {}
  <2>1. dark \in SUBSET Nat
    BY <1>1
  <2>2. Dark(o) = CHOOSE q \in dark : \A r \in dark : q <= r
    BY <1>3 DEF Dark
  <2> HIDE DEF dark
  <2>3. \E q \in dark : \A r \in dark : q <= r
    BY <1>3, <2>1, Least
  <2>4. Dark(o) \in dark /\ \A r \in dark : Dark(o) <= r
    BY <2>2, <2>3
  <2>5. /\ Dark(o) \in o .. Length - 1 /\ Char(Dark(o)) \notin Blanks
        /\ \A q \in o .. Length - 1 : q < Dark(o) => Char(q) \in Blanks
    BY <1>1, <2>4 DEF dark
  <2> QED
    BY <1>1, <2>5 DEF DarkAt
<1> QED
  BY <1>2, <1>3

LEMMA DarkUnique ==
    ASSUME TextOK, NEW o \in Nat, NEW d, NEW e, DarkAt(d, o), DarkAt(e, o)
    PROVE  d = e
<1>1. Length \in Nat
  BY DEF TextOK, Length
<1>2. ASSUME NEW i, NEW j, DarkAt(i, o), DarkAt(j, o), i < j
      PROVE  FALSE
  <2>1. i \in o .. Length - 1
    BY <1>1, <1>2 DEF DarkAt
  <2> QED
    BY <1>1, <1>2, <2>1 DEF DarkAt
<1>3. d \in Nat /\ e \in Nat
  BY DEF DarkAt
<1>4. ~ (d < e) /\ ~ (e < d)
  BY <1>2
<1> QED
  BY <1>3, <1>4

(* Where the search begins among the blanks makes no difference.           *)
LEMMA DarkFrom ==
    ASSUME TextOK, NEW o \in Nat, NEW p \in Nat, o <= p, p <= Dark(o)
    PROVE  Dark(p) = Dark(o)
<1>1. Length \in Nat
  BY DEF TextOK, Length
<1>2. DarkAt(Dark(o), o)
  BY DarkIs
<1>3. DarkAt(Dark(o), p)
  BY <1>1, <1>2 DEF DarkAt
<1> QED
  BY <1>3, DarkIs, DarkUnique

(* The code stops at the last byte if all that follows is blank: what is   *)
(* looked for there is not found, as it would not be at the end.           *)
LEMMA SkipDark ==
    ASSUME TextOK, NEW o \in 0 .. Length
    PROVE  /\ Skip(o) \in 0 .. Length /\ o <= Skip(o) /\ Skip(o) <= Dark(o)
           /\ o < Length => Skip(o) < Length
           /\ Dark(Skip(o)) = Dark(o)
           /\ \/ Skip(o) = Dark(o)
              \/ /\ Dark(o) = Length /\ Skip(o) = Length - 1 /\ o < Length
                 /\ Char(Skip(o)) \in Blanks
<1> DEFINE dark == {q \in o .. Length - 1 : Char(q) \notin Blanks}
<1>1. Length \in Nat /\ o \in Nat
  BY DEF TextOK, Length
<1>2. DarkAt(Dark(o), o)
  BY DarkIs, <1>1
<1>3. /\ Skip(o) \in o .. Length
      /\ o < Length => Skip(o) \in o .. Length - 1
  BY SkipIs DEF TextOK
<1>4. \/ Skip(o) = Dark(o)
      \/ /\ Dark(o) = Length /\ Skip(o) = Length - 1 /\ o < Length
         /\ Char(Skip(o)) \in Blanks
  <2>1. CASE o >= Length
    <3>1. Dark(o) = o
      BY <1>1, <1>2, <2>1 DEF DarkAt
    <3> QED
      BY <1>1, <2>1, <3>1 DEF Skip
  <2>2. CASE o < Length /\ dark = {}
    <3>1. Dark(o) = Length /\ Skip(o) = Length - 1
      BY <1>1, <2>2 DEF Dark, Skip
    <3>2. Length - 1 \in o .. Length - 1
      BY <1>1, <2>2
    <3>3. Char(Length - 1) \in Blanks
      BY <2>2, <3>2
    <3> QED
      BY <2>2, <3>1, <3>3
  <2>3. CASE o < Length /\ dark # {}
    BY <1>1, <2>3 DEF Dark, Skip
  <2> QED
    BY <1>1, <2>1, <2>2, <2>3
<1>5. o <= Skip(o) /\ Skip(o) <= Dark(o) /\ Skip(o) \in Nat
  BY <1>1, <1>3, <1>4
<1>6. Dark(Skip(o)) = Dark(o)
  BY <1>1, <1>5, DarkFrom
<1> QED
  BY <1>1, <1>3, <1>4, <1>5, <1>6

(* What is no blank is found by both.                                      *)
LEMMA SkipFinds ==
    ASSUME TextOK, NEW o \in 0 .. Length, NEW c,
           c \notin Blanks \cup {"outside"}
    PROVE  /\ Char(Skip(o)) = c <=> Char(Dark(o)) = c
           /\ Char(Skip(o)) = c => Skip(o) = Dark(o) /\ Skip(o) < Length
<1>1. Length \in Nat /\ o \in Nat
  BY DEF TextOK, Length
<1>2. DarkAt(Dark(o), o)
  BY DarkIs, <1>1
<1>3. Char(Length) = "outside"
  BY <1>1 DEF Char
<1> QED
  BY <1>1, <1>2, <1>3, SkipDark DEF DarkAt
-----------------------------------------------------------------------------
(***************************************************************************)
(* The grammar.  What it derives at an offset depends on what it derives   *)
(* further on, so there is one such function.                              *)
(***************************************************************************)
Rules == {"value", "elements", "members"}
Starts == 0 .. Length + 1

(* A rule that reads something ends behind it, and in the text.            *)
Forward(v, o) == v \in Nat /\ (v # 0 => o < v /\ v <= Length)

ReadsForward(g) ==
    /\ g \in [Starts -> [Rules -> Nat]]
    /\ \A o \in Starts, r \in Rules : Forward(g[o][r], o)

Derived(g, o) ==
    [rule \in Rules |->
        CASE rule = "value" -> Value(g, o)
          [] rule = "elements" -> Elements(g, o)
          [] rule = "members" -> Members(g, o)]

LEMMA DerivedIs ==
    ASSUME NEW g, NEW o
    PROVE  /\ Derived(g, o)["value"] = Value(g, o)
           /\ Derived(g, o)["elements"] = Elements(g, o)
           /\ Derived(g, o)["members"] = Members(g, o)
BY DEF Derived, Rules

LEMMA ValueForward ==
    ASSUME TextOK, NEW g, ReadsForward(g), NEW o \in Nat
    PROVE  Forward(Value(g, o), o)
<1> DEFINE first == Dark(o)
           inner == Dark(first + 1)
<1>1. Length \in Nat
  BY DEF TextOK, Length
<1>2. DarkAt(first, o) /\ first \in Nat
  BY DarkIs DEF DarkAt
<1>3. first + 1 \in Nat
  BY <1>2
<1>4. DarkAt(inner, first + 1)
  BY <1>3, DarkIs
<1>5. Value(g, o) = IF Char(first) \in Scalars THEN first + 1
        ELSE IF Char(first) = "[" THEN
            IF Char(inner) = "]" THEN inner + 1 ELSE g[first + 1]["elements"]
        ELSE IF Char(first) = "{" THEN
            IF Char(inner) = "}" THEN inner + 1 ELSE g[first + 1]["members"]
        ELSE 0
  BY DEF Value
<1> HIDE DEF first, inner
<1>6. CASE Char(first) \notin Scalars \cup {"[", "{"}
  <2>1. Value(g, o) = 0
    BY <1>5, <1>6, Zenon
  <2> QED
    BY <2>1 DEF Forward
<1>7. CASE Char(first) \in Scalars \cup {"[", "{"}
  <2>1. first < Length /\ o <= first
    <3>1. Char(first) # "outside"
      BY <1>7 DEF Scalars, Strings
    <3> QED
      BY <1>1, <1>2, <3>1 DEF DarkAt
  <2>2. Char(inner) \in {"]", "}"} => inner < Length /\ first + 1 <= inner
    <3>1. Char(inner) \in {"]", "}"} => Char(inner) # "outside"
      OBVIOUS
    <3>2. Char(inner) # "outside" => inner < Length /\ first + 1 <= inner
      BY <1>1, <1>2, <1>4 DEF DarkAt
    <3> QED
      BY <3>1, <3>2, Zenon
  <2>3. first + 1 \in Starts
    BY <1>1, <1>2, <2>1 DEF Starts
  <2>4. /\ Forward(g[first + 1]["elements"], first + 1)
        /\ Forward(g[first + 1]["members"], first + 1)
    BY <2>3 DEF ReadsForward, Rules
  <2>5. inner \in Nat
    BY <1>4 DEF DarkAt
  <2>6. /\ Forward(first + 1, o) /\ Forward(0, o)
        /\ Char(inner) \in {"]", "}"} => Forward(inner + 1, o)
    <3>1. Forward(first + 1, o) /\ Forward(0, o)
      BY <1>1, <1>2, <2>1 DEF Forward
    <3>2. inner < Length /\ first + 1 <= inner => Forward(inner + 1, o)
      BY <1>1, <1>2, <2>1, <2>5 DEF Forward
    <3> QED
      BY <2>2, <3>1, <3>2, Zenon
  <2>7. /\ Forward(g[first + 1]["elements"], o)
        /\ Forward(g[first + 1]["members"], o)
    <3>1. ASSUME NEW w, Forward(w, first + 1) PROVE Forward(w, o)
      BY <1>1, <1>2, <2>1, <3>1 DEF Forward
    <3> QED
      BY <2>4, <3>1
  <2> QED
    BY <1>5, <2>6, <2>7, Zenon
<1> QED
  BY <1>6, <1>7

LEMMA RestForward ==
    ASSUME TextOK, NEW g, ReadsForward(g), NEW o \in Nat, NEW v,
           Forward(v, o), NEW rule \in Rules, NEW close,
           close \notin Blanks \cup {"outside"}
    PROVE  Forward(Rest(v, g[Dark(v) + 1][rule], close), o)
<1>1. Length \in Nat
  BY DEF TextOK, Length
<1>2. CASE v = 0 \/ Char(Dark(v)) \notin {",", close}
  BY <1>2 DEF Rest, Forward
<1>3. CASE v # 0 /\ Char(Dark(v)) \in {",", close}
  <2> DEFINE d == Dark(v)
  <2>1. v \in Nat /\ o < v /\ v <= Length
    BY <1>3 DEF Forward
  <2>2. DarkAt(d, v)
    BY <2>1, DarkIs
  <2> HIDE DEF d
  <2>3. Char(d) # "outside"
    BY <1>3 DEF d
  <2>4. d \in Nat /\ d < Length /\ v <= d
    BY <1>1, <2>2, <2>3 DEF DarkAt
  <2>5. d + 1 \in Starts
    BY <1>1, <2>4 DEF Starts
  <2>6. Forward(g[d + 1][rule], d + 1)
    BY <2>5 DEF ReadsForward
  <2>7. Forward(d + 1, o) /\ Forward(g[d + 1][rule], o)
    BY <1>1, <2>1, <2>4, <2>6 DEF Forward
  <2>8. Forward(0, o)
    BY DEF Forward
  <2> QED
    BY <2>7, <2>8, Zenon DEF Rest, d
<1> QED
  BY <1>2, <1>3

LEMMA DerivesForward ==
    ASSUME TextOK, NEW g, ReadsForward(g), NEW o \in Nat
    PROVE  /\ Forward(Value(g, o), o) /\ Forward(Elements(g, o), o)
           /\ Forward(Members(g, o), o)
<1>1. Length \in Nat
  BY DEF TextOK, Length
<1>2. Forward(Value(g, o), o)
  BY ValueForward
<1>3. Forward(Elements(g, o), o)
  <2>1. "elements" \in Rules /\ "]" \notin Blanks \cup {"outside"}
    BY DEF Rules, Blanks
  <2> QED
    BY <1>2, <2>1, RestForward DEF Elements
<1>4. Forward(Members(g, o), o)
  <2> DEFINE name == Dark(o)
             colon == Dark(name + 1)
             v == Value(g, colon + 1)
  <2>1. CASE ~ (Char(name) \in Strings /\ Char(colon) = ":")
    <3>1. Members(g, o) = 0
      BY <2>1 DEF Members
    <3> QED
      BY <3>1 DEF Forward
  <2>2. CASE Char(name) \in Strings /\ Char(colon) = ":"
    <3>1. DarkAt(name, o) /\ name \in Nat
      BY DarkIs DEF DarkAt
    <3>2. name + 1 \in Nat
      BY <3>1
    <3>3. DarkAt(colon, name + 1) /\ colon \in Nat
      BY <3>2, DarkIs DEF DarkAt
    <3> HIDE DEF name, colon
    <3>4. o <= name /\ name < Length /\ name < colon
      BY <1>1, <2>2, <3>1, <3>3 DEF DarkAt, Strings
    <3>5. Forward(v, colon + 1)
      BY <3>3, ValueForward
    <3>6. Forward(v, o)
      <4> HIDE DEF v
      <4> QED
        BY <3>1, <3>3, <3>4, <3>5 DEF Forward
    <3> HIDE DEF v
    <3>7. "members" \in Rules /\ "}" \notin Blanks \cup {"outside"}
      BY DEF Rules, Blanks
    <3>8. Forward(Rest(v, g[Dark(v) + 1]["members"], "}"), o)
      BY <3>6, <3>7, RestForward
    <3> QED
      BY <2>2, <3>8 DEF Members, name, colon, v
  <2> QED
    BY <2>1, <2>2
<1> QED
  BY <1>2, <1>3, <1>4

(* What is derived at an offset is settled by what is derived further on.  *)
AgreeFrom(g, h, o) == \A p \in Starts : o < p => g[p] = h[p]

LEMMA RestAgrees ==
    ASSUME TextOK, NEW g, NEW h, NEW o \in Nat, AgreeFrom(g, h, o),
           NEW v, Forward(v, o), NEW rule, NEW close
    PROVE  Rest(v, g[Dark(v) + 1][rule], close)
               = Rest(v, h[Dark(v) + 1][rule], close)
<1>1. Length \in Nat
  BY DEF TextOK, Length
<1>2. CASE v = 0 \/ Char(Dark(v)) # ","
  BY <1>2, Zenon DEF Rest
<1>3. CASE v # 0 /\ Char(Dark(v)) = ","
  <2> DEFINE d == Dark(v)
  <2>1. v \in Nat /\ o < v /\ v <= Length
    BY <1>3 DEF Forward
  <2>2. DarkAt(d, v)
    BY <2>1, DarkIs
  <2> HIDE DEF d
  <2>3. d \in Nat /\ d <= Length /\ v <= d
    BY <1>1, <2>1, <2>2 DEF DarkAt
  <2>4. d + 1 \in Starts /\ o < d + 1
    BY <1>1, <2>1, <2>3 DEF Starts
  <2>5. g[d + 1] = h[d + 1]
    BY <2>4 DEF AgreeFrom
  <2> QED
    BY <2>5, Zenon DEF d
<1> QED
  BY <1>2, <1>3

LEMMA ValueAgrees ==
    ASSUME TextOK, NEW g, NEW h, NEW o \in Nat, AgreeFrom(g, h, o)
    PROVE  Value(g, o) = Value(h, o)
<1> DEFINE first == Dark(o)
<1>1. Length \in Nat
  BY DEF TextOK, Length
<1>2. DarkAt(first, o) /\ first \in Nat
  BY DarkIs DEF DarkAt
<1>3. CASE Char(first) \in {"[", "{"}
  <2>1. Char(first) # "outside"
    BY <1>3
  <2> HIDE DEF first
  <2>2. first < Length /\ o <= first
    BY <1>1, <1>2, <2>1 DEF DarkAt
  <2>3. first + 1 \in Starts /\ o < first + 1
    BY <1>1, <1>2, <2>2 DEF Starts
  <2>4. g[first + 1] = h[first + 1]
    BY <2>3 DEF AgreeFrom
  <2> QED
    BY <2>4, Zenon DEF Value, first
<1>4. CASE Char(first) \notin {"[", "{"}
  BY <1>4, Zenon DEF Value
<1> QED
  BY <1>3, <1>4

LEMMA DerivesAgree ==
    ASSUME TextOK, NEW g, ReadsForward(g), NEW h, NEW o \in Nat,
           AgreeFrom(g, h, o)
    PROVE  Derived(g, o) = Derived(h, o)
<1>1. Length \in Nat
  BY DEF TextOK, Length
<1>2. Value(g, o) = Value(h, o)
  BY ValueAgrees
<1>3. Elements(g, o) = Elements(h, o)
  <2>1. Forward(Value(g, o), o)
    BY ValueForward
  <2>2. Rest(Value(g, o), g[Dark(Value(g, o)) + 1]["elements"], "]")
            = Rest(Value(g, o), h[Dark(Value(g, o)) + 1]["elements"], "]")
    BY <2>1, RestAgrees
  <2> QED
    BY <1>2, <2>2, Zenon DEF Elements
<1>4. Members(g, o) = Members(h, o)
  <2> DEFINE name == Dark(o)
             colon == Dark(name + 1)
             v == Value(g, colon + 1)
  <2>1. CASE ~ (Char(name) \in Strings /\ Char(colon) = ":")
    BY <2>1, Zenon DEF Members
  <2>2. CASE Char(name) \in Strings /\ Char(colon) = ":"
    <3>1. DarkAt(name, o) /\ name \in Nat
      BY DarkIs DEF DarkAt
    <3>2. name + 1 \in Nat
      BY <3>1
    <3>3. DarkAt(colon, name + 1) /\ colon \in Nat
      BY <3>2, DarkIs DEF DarkAt
    <3>4. Char(name) # "outside"
      BY <2>2 DEF Strings
    <3> HIDE DEF name, colon
    <3>5. o <= name /\ name < colon
      BY <1>1, <3>1, <3>3, <3>4 DEF DarkAt
    <3>6. o < colon + 1 /\ colon + 1 \in Nat
      BY <3>1, <3>3, <3>5
    <3>7. AgreeFrom(g, h, colon + 1)
      BY <1>1, <3>6 DEF AgreeFrom, Starts
    <3>8. v = Value(h, colon + 1)
      BY <3>6, <3>7, ValueAgrees
    <3>9. Forward(v, o)
      <4>1. Forward(v, colon + 1)
        BY <3>6, ValueForward
      <4> HIDE DEF v
      <4> QED
        BY <3>6, <4>1 DEF Forward
    <3> HIDE DEF v
    <3>10. Rest(v, g[Dark(v) + 1]["members"], "}")
               = Rest(v, h[Dark(v) + 1]["members"], "}")
      <4>1. \A w : Forward(w, o)
                => Rest(w, g[Dark(w) + 1]["members"], "}")
                       = Rest(w, h[Dark(w) + 1]["members"], "}")
        <5> TAKE w
        <5> HAVE Forward(w, o)
        <5>1. \A rule, close :
                  Rest(w, g[Dark(w) + 1][rule], close)
                      = Rest(w, h[Dark(w) + 1][rule], close)
          BY RestAgrees
        <5> QED
          BY <5>1
      <4> QED
        BY <3>9, <4>1
    <3>11. /\ Members(g, o) = Rest(v, g[Dark(v) + 1]["members"], "}")
           /\ Members(h, o) = Rest(v, h[Dark(v) + 1]["members"], "}")
      BY <2>2, <3>8, Zenon DEF Members, name, colon, v
    <3> QED
      BY <3>10, <3>11
  <2> QED
    BY <2>1, <2>2
<1> QED
  BY <1>2, <1>3, <1>4 DEF Derived

LEMMA DerivedForward ==
    ASSUME TextOK, NEW g, ReadsForward(g), NEW o \in Nat
    PROVE  /\ Derived(g, o) \in [Rules -> Nat]
           /\ \A r \in Rules : Forward(Derived(g, o)[r], o)
<1>1. /\ Forward(Value(g, o), o) /\ Forward(Elements(g, o), o)
      /\ Forward(Members(g, o), o)
  BY DerivesForward
<1>2. ASSUME NEW r \in Rules PROVE Forward(Derived(g, o)[r], o)
  BY <1>1, DerivedIs DEF Rules
<1>3. \A r \in Rules : Derived(g, o)[r] \in Nat
  BY <1>2 DEF Forward
<1>4. Derived(g, o) = [r \in Rules |-> Derived(g, o)[r]]
  <2> DEFINE c(rule) == CASE rule = "value" -> Value(g, o)
                          [] rule = "elements" -> Elements(g, o)
                          [] rule = "members" -> Members(g, o)
  <2>1. Derived(g, o) = [r \in Rules |-> c(r)]
    BY DEF Derived
  <2> HIDE DEF c
  <2> QED
    BY <2>1
<1> QED
  BY <1>2, <1>3, <1>4

LEMMA GrammarExists ==
    ASSUME TextOK
    PROVE  \E g : /\ g = [o \in Starts |-> Derived(g, o)]
                  /\ ReadsForward(g)
<1> DEFINE Good(n) == \E g : /\ ReadsForward(g)
                             /\ \A o \in Starts :
                                    o + n > Length + 1 => g[o] = Derived(g, o)
           Bad == {n \in Nat : ~ Good(n)}
<1>1. Length \in Nat
  BY DEF TextOK, Length
<1>2. Good(0)
  <2> DEFINE z == [r \in Rules |-> 0]
             g == [o \in Starts |-> z]
  <2>1. z \in [Rules -> Nat] /\ \A r \in Rules : Forward(z[r], 0)
    BY DEF Forward
  <2>2. \A o \in Starts, r \in Rules : Forward(g[o][r], o)
    BY DEF Forward
  <2>3. ReadsForward(g)
    <3> HIDE DEF z
    <3>1. g \in [Starts -> [Rules -> Nat]]
      BY <2>1
    <3> HIDE DEF g
    <3> QED
      BY <2>2, <3>1 DEF ReadsForward
  <2>4. \A o \in Starts : ~ (o + 0 > Length + 1)
    BY <1>1 DEF Starts
  <2> HIDE DEF g
  <2> QED
    BY <2>3, <2>4
<1>3. ASSUME NEW n \in Nat, Good(n)
      PROVE  Good(n + 1)
  <2>1. PICK g : /\ ReadsForward(g)
                 /\ \A o \in Starts :
                        o + n > Length + 1 => g[o] = Derived(g, o)
    BY <1>3
  <2> DEFINE h == [o \in Starts |-> Derived(g, o)]
  <2>2. \A o \in Starts : o \in Nat
    BY <1>1 DEF Starts
  <2>3. ReadsForward(h)
    BY <2>1, <2>2, DerivedForward DEF ReadsForward
  <2>4. \A o \in Starts : h[o] = Derived(g, o)
    OBVIOUS
  <2> HIDE DEF h
  <2>5. ASSUME NEW o \in Starts, o + (n + 1) > Length + 1
        PROVE  h[o] = Derived(h, o)
    <3>1. AgreeFrom(g, h, o)
      <4> SUFFICES ASSUME NEW p \in Starts, o < p PROVE g[p] = h[p]
        BY DEF AgreeFrom
      <4>1. p + n > Length + 1
        BY <1>1, <2>2, <2>5
      <4> QED
        BY <2>1, <2>4, <4>1
    <3>2. Derived(g, o) = Derived(h, o)
      BY <2>1, <2>2, <3>1, DerivesAgree
    <3> QED
      BY <2>4, <3>2
  <2> QED
    BY <2>3, <2>5
<1> HIDE DEF Good
<1>4. Bad = {}
  <2> SUFFICES ASSUME Bad # {} PROVE FALSE
    OBVIOUS
  <2>1. PICK m \in Bad : \A k \in Bad : m <= k
    BY Least
  <2>2. m # 0 /\ m \in Nat
    BY <1>2
  <2>3. m - 1 \in Nat /\ ~ (m <= m - 1) /\ (m - 1) + 1 = m
    BY <2>2
  <2>4. Good(m - 1)
    BY <2>1, <2>3
  <2>5. Good(m)
    BY <1>3, <2>3, <2>4
  <2> QED
    BY <2>5
<1>5. Good(Length + 2)
  BY <1>1, <1>4
<1>6. PICK g : /\ ReadsForward(g)
               /\ \A o \in Starts :
                      o + (Length + 2) > Length + 1 => g[o] = Derived(g, o)
  BY <1>5 DEF Good
<1>7. \A o \in Starts : g[o] = Derived(g, o)
  BY <1>1, <1>6 DEF Starts
<1>8. g = [o \in Starts |-> Derived(g, o)]
  <2>1. g = [o \in Starts |-> g[o]]
    BY <1>6 DEF ReadsForward
  <2> QED
    BY <1>7, <2>1
<1> QED
  BY <1>6, <1>8

(* What the property calls the grammar is that function.                   *)
IsGrammar(g) ==
    /\ ReadsForward(g)
    /\ \A o \in Starts : /\ g[o]["value"] = Value(g, o)
                         /\ g[o]["elements"] = Elements(g, o)
                         /\ g[o]["members"] = Members(g, o)

GrammarFacts ==
    TextOK => /\ IsGrammar(Grammar)
              /\ \A g : IsGrammar(g) => g = Grammar

LEMMA GrammarEquation ==
    ASSUME TextOK
    PROVE  /\ Grammar = [o \in Starts |-> Grammar[o]]
           /\ \A o \in Starts : Grammar[o] = Derived(Grammar, o)
<1> DEFINE eq(g) == g = [o \in Starts |-> Derived(g, o)]
<1>1. Grammar = CHOOSE g : eq(g)
  BY Zenon DEF Grammar, Derived, Rules, Starts
<1>2. \E g : eq(g)
  BY GrammarExists
<1>3. eq(Grammar)
  <2> HIDE DEF eq
  <2> QED
    BY <1>1, <1>2
<1>4. Grammar = [o \in Starts |-> Derived(Grammar, o)]
  BY <1>3
<1>5. \A o \in Starts : Grammar[o] = Derived(Grammar, o)
  BY <1>4
<1> QED
  BY <1>4, <1>5

(* Two functions that satisfy the rules do not differ at a last offset.    *)
LEMMA OneGrammar ==
    ASSUME TextOK, NEW g, ReadsForward(g), NEW h,
           \A o \in Starts : g[o] = Derived(g, o),
           \A o \in Starts : h[o] = Derived(h, o),
           h = [o \in Starts |-> h[o]]
    PROVE  g = h
<1> DEFINE Bad == {n \in Nat : \E o \in Starts :
                       n = Length + 1 - o /\ g[o] # h[o]}
<1>1. Length \in Nat /\ \A o \in Starts : o \in Nat /\ o <= Length + 1
  BY DEF TextOK, Length, Starts
<1>2. CASE Bad # {}
  <2>1. PICK n \in Bad : \A k \in Bad : n <= k
    BY <1>2, Least
  <2>2. PICK o \in Starts : n = Length + 1 - o /\ g[o] # h[o]
    OBVIOUS
  <2>3. ASSUME NEW p \in Starts, o < p PROVE g[p] = h[p]
    <3>1. Length + 1 - p \in Nat /\ ~ (n <= Length + 1 - p)
      BY <1>1, <2>2, <2>3
    <3> QED
      BY <2>1, <3>1
  <2>4. Derived(g, o) = Derived(h, o)
    <3>1. AgreeFrom(g, h, o)
      BY <2>3 DEF AgreeFrom
    <3> QED
      BY <1>1, <3>1, DerivesAgree
  <2> QED
    BY <2>2, <2>4
<1>3. CASE Bad = {}
  <2>1. ASSUME NEW o \in Starts PROVE g[o] = h[o]
    <3> SUFFICES ASSUME g[o] # h[o] PROVE FALSE
      OBVIOUS
    <3>1. Length + 1 - o \in Nat
      BY <1>1
    <3>2. Length + 1 - o \in Bad
      BY <3>1
    <3> QED
      BY <1>3, <3>2
  <2>2. g = [o \in Starts |-> g[o]]
    BY DEF ReadsForward
  <2> QED
    BY <2>1, <2>2
<1> QED
  BY <1>2, <1>3

LEMMA GrammarIs == GrammarFacts
<1> SUFFICES ASSUME TextOK
             PROVE  /\ IsGrammar(Grammar)
                    /\ \A g : IsGrammar(g) => g = Grammar
  BY DEF GrammarFacts
<1>1. /\ Grammar = [o \in Starts |-> Grammar[o]]
      /\ \A o \in Starts : Grammar[o] = Derived(Grammar, o)
  BY GrammarEquation
<1>2. PICK g : /\ ReadsForward(g)
               /\ \A o \in Starts : g[o] = Derived(g, o)
  <2>1. PICK g : /\ g = [o \in Starts |-> Derived(g, o)]
                 /\ ReadsForward(g)
    BY GrammarExists
  <2>2. \A o \in Starts : g[o] = Derived(g, o)
    BY <2>1
  <2> QED
    BY <2>1, <2>2
<1>3. g = Grammar
  BY <1>1, <1>2, OneGrammar
<1>4. ASSUME NEW h, IsGrammar(h) PROVE h = Grammar
  <2>1. ReadsForward(h)
    BY <1>4 DEF IsGrammar
  <2>2. ASSUME NEW o \in Starts PROVE h[o] = Derived(h, o)
    <3>1. h[o] = [r \in Rules |-> h[o][r]]
      BY <2>1 DEF ReadsForward
    <3>2. /\ h[o]["value"] = Value(h, o) /\ h[o]["elements"] = Elements(h, o)
          /\ h[o]["members"] = Members(h, o)
      BY <1>4 DEF IsGrammar
    <3>3. \A r \in Rules : h[o][r] = Derived(h, o)[r]
      BY <3>2, DerivedIs DEF Rules
    <3>4. Derived(h, o) = [r \in Rules |-> Derived(h, o)[r]]
      BY <2>1, DerivedForward DEF TextOK, Starts, Length
    <3> QED
      BY <3>1, <3>3, <3>4
  <2> QED
    BY <1>1, <2>1, <2>2, OneGrammar
<1>5. IsGrammar(Grammar)
  BY <1>1, <1>2, <1>3, DerivedIs DEF IsGrammar
<1> QED
  BY <1>4, <1>5

LEMMA GrammarPrimed == GrammarFacts'
BY GrammarIs, PTL

LEMMA TextKept ==
    ASSUME text' = text
    PROVE  /\ Length' = Length /\ (TextOK => TextOK')
           /\ \A o : /\ Char(o)' = Char(o) /\ Skip(o)' = Skip(o)
                     /\ Dark(o)' = Dark(o)
BY DEF TextOK, Length, Char, Skip, Dark

LEMMA GrammarKept ==
    ASSUME TextOK, text' = text
    PROVE  Grammar' = Grammar
<1>1. PICK g : g = Grammar
  OBVIOUS
<1>2. IsGrammar(g)
  BY <1>1, GrammarIs DEF GrammarFacts
<1>3. IsGrammar(g)'
  <2>1. /\ Length' = Length
        /\ \A o : Char(o)' = Char(o) /\ Dark(o)' = Dark(o)
    BY TextKept
  <2>2. Starts' = Starts
    BY <2>1 DEF Starts
  <2>3. \A o : /\ Value(g, o)' = Value(g, o)
               /\ Elements(g, o)' = Elements(g, o)
               /\ Members(g, o)' = Members(g, o)
    <3>1. \A o : Value(g, o)' = Value(g, o)
      BY <2>1 DEF Value
    <3>2. \A v, more, close : Rest(v, more, close)' = Rest(v, more, close)
      BY <2>1 DEF Rest
    <3>3. \A o : Elements(g, o)' = Elements(g, o)
      BY <2>1, <3>1, <3>2 DEF Elements
    <3>4. \A o : Members(g, o)' = Members(g, o)
      BY <2>1, <3>1, <3>2 DEF Members
    <3> QED
      BY <3>1, <3>3, <3>4
  <2>4. ReadsForward(g)'
    BY <1>2, <2>1, <2>2 DEF IsGrammar, ReadsForward, Forward
  <2> QED
    BY <1>2, <2>2, <2>3, <2>4 DEF IsGrammar
<1>4. g = Grammar'
  BY <1>3, TextKept, GrammarPrimed DEF GrammarFacts
<1> QED
  BY <1>1, <1>4
-----------------------------------------------------------------------------
(***************************************************************************)
(* The depth of nesting before an offset.                                  *)
(***************************************************************************)
Openings == {"[", "{"}
Closings == {"]", "}"}

(* Of the brackets before p, n are open, and never were too many.          *)
Deep(p, n) ==
    /\ Depth(p - 1) = n
    /\ \A o \in 0 .. p - 1 : Depth(o) <= NestingLimit

LEMMA BracketsMore ==
    ASSUME NEW S, NEW p \in Nat
    PROVE  /\ Brackets(S, p - 1) \in Nat
           /\ Brackets(S, p) = Brackets(S, p - 1)
                                   + IF Char(p) \in S THEN 1 ELSE 0
<1> DEFINE A == {q \in 0 .. p - 1 : Char(q) \in S}
           B == {q \in 0 .. p : Char(q) \in S}
<1>1. IsFiniteSet(A) /\ Cardinality(A) \in Nat
  <2>1. IsFiniteSet(0 .. p - 1)
    BY FS_Interval
  <2>2. IsFiniteSet(A)
    BY <2>1, FS_Subset
  <2> QED
    BY <2>2, FS_CardinalityType
<1>2. p \notin A
  OBVIOUS
<1>3. B = IF Char(p) \in S THEN A \cup {p} ELSE A
  <2>1. \A q : q \in 0 .. p <=> q \in 0 .. p - 1 \/ q = p
    OBVIOUS
  <2> QED
    BY <2>1
<1>4. Brackets(S, p - 1) = Cardinality(A) /\ Brackets(S, p) = Cardinality(B)
  BY DEF Brackets
<1> HIDE DEF A, B
<1>5. Cardinality(A \cup {p}) = Cardinality(A) + 1
  BY <1>1, <1>2, FS_AddElement
<1> QED
  BY <1>1, <1>3, <1>4, <1>5

LEMMA DepthMore ==
    ASSUME NEW p \in Nat
    PROVE  /\ Depth(p - 1) \in Int
           /\ Char(p) \in Openings => Depth(p) = Depth(p - 1) + 1
           /\ Char(p) \in Closings => Depth(p) = Depth(p - 1) - 1
           /\ Char(p) \notin Openings \cup Closings =>
                  Depth(p) = Depth(p - 1)
<1> DEFINE a == Brackets(Openings, p - 1)
           b == Brackets(Closings, p - 1)
           x == IF Char(p) \in Openings THEN 1 ELSE 0
           y == IF Char(p) \in Closings THEN 1 ELSE 0
<1>1. a \in Nat /\ Brackets(Openings, p) = a + x
  BY BracketsMore
<1>2. b \in Nat /\ Brackets(Closings, p) = b + y
  BY BracketsMore
<1>3. Depth(p - 1) = a - b
  BY DEF Depth, Openings, Closings
<1>4. Depth(p) = (a + x) - (b + y)
  BY <1>1, <1>2 DEF Depth, Openings, Closings
<1>5. Char(p) \in Openings => Char(p) \notin Closings
  BY DEF Openings, Closings
<1> HIDE DEF a, b
<1> QED
  BY <1>1, <1>2, <1>3, <1>4, <1>5

LEMMA DeepStart == Deep(0, 0)
<1>1. Brackets(Openings, 0 - 1) = 0 /\ Brackets(Closings, 0 - 1) = 0
  <2>1. \A S : {q \in 0 .. 0 - 1 : Char(q) \in S} = {}
    OBVIOUS
  <2> QED
    BY <2>1, FS_EmptySet DEF Brackets
<1>2. Depth(0 - 1) = 0
  <2>1. Depth(0 - 1) = Brackets(Openings, 0 - 1) - Brackets(Closings, 0 - 1)
    BY Zenon DEF Depth, Openings, Closings
  <2> QED
    BY <1>1, <2>1
<1> QED
  BY <1>2 DEF Deep

LEMMA DeepNext ==
    ASSUME NEW p \in Nat, NEW n \in Int, NEW m \in Int, Deep(p, n),
           m <= NestingLimit,
           \/ Char(p) \in Openings /\ m = n + 1
           \/ Char(p) \in Closings /\ m = n - 1
           \/ Char(p) \notin Openings \cup Closings /\ m = n
    PROVE  Deep(p + 1, m)
<1>1. Depth(p) = m
  BY DepthMore DEF Deep
<1>2. (p + 1) - 1 = p
  OBVIOUS
<1>3. \A o \in 0 .. p : o = p \/ o \in 0 .. p - 1
  OBVIOUS
<1> QED
  BY <1>1, <1>2, <1>3 DEF Deep

(* Where there are no brackets the depth stays the same.                   *)
LEMMA DeepSame ==
    ASSUME NEW p \in Nat, NEW r \in Nat, p <= r, NEW n \in Nat, Deep(p, n),
           n <= NestingLimit,
           \A q \in p .. r - 1 : Char(q) \notin Openings \cup Closings
    PROVE  Deep(r, n)
<1> DEFINE Bad == {q \in Nat : p <= q /\ q <= r /\ ~ Deep(q, n)}
<1>1. CASE Bad = {}
  BY <1>1
<1>2. CASE Bad # {}
  <2>1. PICK m \in Bad : \A k \in Bad : m <= k
    BY <1>2, Least
  <2>2. m \in Nat /\ p <= m /\ m <= r /\ m # p
    OBVIOUS
  <2> DEFINE k == m - 1
  <2>3. k \in Nat /\ p <= k /\ k <= r /\ k + 1 = m /\ k \in p .. r - 1
        /\ ~ (m <= k)
    BY <2>2
  <2> HIDE DEF k
  <2>4. Deep(k, n)
    BY <2>1, <2>3
  <2>5. Deep(k + 1, n)
    BY <2>3, <2>4, DeepNext
  <2> QED
    BY <2>1, <2>3, <2>5
<1> QED
  BY <1>1, <1>2
-----------------------------------------------------------------------------
(***************************************************************************)
(* What a container at an offset, and a container that is under way,       *)
(* amount to in the grammar.                                               *)
(***************************************************************************)
RuleOf == [Array |-> "elements", Object |-> "members"]

(* Where a container ends that has read an element up to v.                *)
Continued(v, type) ==
    Rest(v, Grammar[Dark(v) + 1][RuleOf[type]], Closing[type])

LEMMA RulesAre ==
    /\ RuleOf["Array"] = "elements" /\ RuleOf["Object"] = "members"
    /\ Closing["Array"] = "]" /\ Closing["Object"] = "}"
    /\ Opening["Array"] = "[" /\ Opening["Object"] = "{"
    /\ \A type \in Containers : /\ RuleOf[type] \in Rules
                                /\ Closing[type] \notin Blanks
                                /\ Closing[type] # "outside"
BY DEF RuleOf, Closing, Opening, Containers, Rules, Blanks

LEMMA GrammarForward ==
    ASSUME TextOK, NEW o \in Starts, NEW rule \in Rules
    PROVE  /\ Grammar[o][rule] \in Nat
           /\ Forward(Grammar[o][rule], o)
           /\ Grammar[o][rule] \in 0 .. Length
<1>1. Length \in Nat
  BY DEF TextOK, Length
<1>2. Forward(Grammar[o][rule], o)
  BY GrammarIs DEF GrammarFacts, IsGrammar, ReadsForward
<1> QED
  BY <1>1, <1>2 DEF Forward

(* The rules skip blanks first.                                            *)
LEMMA GrammarSkips ==
    ASSUME TextOK, NEW o \in Starts, NEW p \in Starts, Dark(o) = Dark(p),
           NEW rule \in Rules
    PROVE  Grammar[o][rule] = Grammar[p][rule]
<1>1. Value(Grammar, o) = Value(Grammar, p)
  BY Zenon DEF Value
<1>2. Elements(Grammar, o) = Elements(Grammar, p)
  BY <1>1, Zenon DEF Elements
<1>3. Members(Grammar, o) = Members(Grammar, p)
  BY Zenon DEF Members
<1> QED
  BY <1>1, <1>2, <1>3, GrammarIs DEF GrammarFacts, IsGrammar, Rules

LEMMA ContinuedForward ==
    ASSUME TextOK, NEW v \in 0 .. Length, NEW type \in Containers
    PROVE  /\ Continued(v, type) \in 0 .. Length
           /\ Continued(v, type) # 0 => v # 0 /\ v <= Continued(v, type)
<1>1. Length \in Nat
  BY DEF TextOK, Length
<1>2. CASE v = 0
  <2>1. Continued(v, type) = 0
    BY <1>2, Zenon DEF Continued, Rest
  <2> QED
    BY <1>1, <1>2, <2>1
<1>3. CASE v # 0
  <2> DEFINE o == v - 1
  <2>1. o \in Nat /\ o < v /\ v <= Length /\ v \in Nat
    BY <1>1, <1>3
  <2>2. Forward(v, o)
    BY <2>1 DEF Forward
  <2>3. ReadsForward(Grammar)
    BY GrammarIs DEF GrammarFacts, IsGrammar
  <2>4. RuleOf[type] \in Rules /\ Closing[type] \notin Blanks \cup {"outside"}
    BY RulesAre
  <2>5. \A p \in Nat, rule \in Rules : \A close :
            Forward(v, p) /\ close \notin Blanks \cup {"outside"}
                => Forward(Rest(v, Grammar[Dark(v) + 1][rule], close), p)
    BY <2>3, RestForward
  <2> HIDE DEF o
  <2>6. Forward(Continued(v, type), o)
    BY <2>1, <2>2, <2>4, <2>5 DEF Continued
  <2>7. Forward(Continued(v, type), v - 1)
    BY <2>6 DEF o
  <2> HIDE DEF Continued
  <2> QED
    BY <1>1, <1>3, <2>7 DEF Forward
<1> QED
  BY <1>2, <1>3

(* Elements end as the first of them lets them.                            *)
LEMMA ElementsAre ==
    ASSUME TextOK, NEW o \in Starts
    PROVE  Grammar[o]["elements"] = Continued(Grammar[o]["value"], "Array")
BY GrammarIs, RulesAre DEF GrammarFacts, IsGrammar, Elements, Continued

LEMMA MembersAre ==
    ASSUME TextOK, NEW o \in Starts, NEW name, name = Dark(o),
           NEW colon, colon = Dark(name + 1), colon + 1 \in Starts
    PROVE  Grammar[o]["members"] =
               IF Char(name) \in Strings /\ Char(colon) = ":"
               THEN Continued(Grammar[colon + 1]["value"], "Object") ELSE 0
<1>1. /\ Grammar[o]["members"] = Members(Grammar, o)
      /\ Grammar[colon + 1]["value"] = Value(Grammar, colon + 1)
  BY GrammarIs DEF GrammarFacts, IsGrammar
<1>2. /\ RuleOf["Object"] = "members" /\ Closing["Object"] = "}"
  BY RulesAre
<1> QED
  BY <1>1, <1>2, Zenon DEF Members, Continued

(* Without a name nothing is read.                                         *)
LEMMA NoMembers ==
    ASSUME TextOK, NEW o \in Starts, Char(Dark(o)) \notin Strings
    PROVE  Grammar[o]["members"] = 0
BY GrammarIs, Zenon DEF GrammarFacts, IsGrammar, Members

-----------------------------------------------------------------------------
(* The value under way at the n-th level of nesting, if it ends at e, lets *)
(* the levels around it end where the grammar has them end.                *)
Leads(n, types, e) ==
    \E w \in [0 .. n -> 0 .. Length] :
        /\ w[0] = ValueEnd /\ w[n] = e
        /\ \A i \in 1 .. n : w[i - 1] = Continued(w[i], types[i])

LEMMA LeadsStart ==
    ASSUME TextOK, NEW types
    PROVE  Leads(0, types, ValueEnd)
<1> DEFINE w == [i \in 0 .. 0 |-> ValueEnd]
<1>1. ValueEnd \in 0 .. Length
  <2>1. 0 \in Starts /\ "value" \in Rules
    BY DEF TextOK, Starts, Length, Rules
  <2> QED
    BY <2>1, GrammarForward DEF ValueEnd
<1>2. w \in [0 .. 0 -> 0 .. Length] /\ w[0] = ValueEnd
  BY <1>1
<1>3. 1 .. 0 = {}
  OBVIOUS
<1> HIDE DEF w
<1> QED
  BY <1>2, <1>3 DEF Leads

LEMMA LeadsRoot ==
    ASSUME NEW types, NEW e, Leads(0, types, e)
    PROVE  e = ValueEnd
BY DEF Leads

LEMMA LeadsIn ==
    ASSUME NEW n \in Nat, NEW types, NEW e, Leads(n, types, e),
           NEW v \in 0 .. Length, NEW more,
           \A i \in 1 .. n : more[i] = types[i],
           e = Continued(v, more[n + 1])
    PROVE  Leads(n + 1, more, v)
<1>1. PICK w \in [0 .. n -> 0 .. Length] :
          /\ w[0] = ValueEnd /\ w[n] = e
          /\ \A i \in 1 .. n : w[i - 1] = Continued(w[i], types[i])
  BY DEF Leads
<1> DEFINE x == [i \in 0 .. n + 1 |-> IF i = n + 1 THEN v ELSE w[i]]
<1>2. \A i \in 0 .. n + 1 : i # n + 1 => i \in 0 .. n
  OBVIOUS
<1>3. x \in [0 .. n + 1 -> 0 .. Length]
  BY <1>1, <1>2
<1>4. x[0] = ValueEnd /\ x[n + 1] = v /\ x[n] = e
  BY <1>1
<1>5. \A i \in 1 .. n : x[i] = w[i] /\ x[i - 1] = w[i - 1]
  OBVIOUS
<1> HIDE DEF x
<1>6. ASSUME NEW i \in 1 .. n + 1
      PROVE  x[i - 1] = Continued(x[i], more[i])
  <2>1. CASE i \in 1 .. n
    BY <1>1, <1>5, <2>1
  <2>2. CASE i \notin 1 .. n
    <3>1. i = n + 1 /\ i - 1 = n
      BY <2>2
    <3> QED
      BY <1>4, <3>1
  <2> QED
    BY <2>1, <2>2
<1> QED
  BY <1>3, <1>4, <1>6 DEF Leads

LEMMA LeadsOut ==
    ASSUME NEW n \in Nat, n # 0, NEW types, NEW v, Leads(n, types, v)
    PROVE  Leads(n - 1, types, Continued(v, types[n]))
<1>1. PICK w \in [0 .. n -> 0 .. Length] :
          /\ w[0] = ValueEnd /\ w[n] = v
          /\ \A i \in 1 .. n : w[i - 1] = Continued(w[i], types[i])
  BY DEF Leads
<1> DEFINE x == [i \in 0 .. n - 1 |-> w[i]]
<1>2. \A i \in 0 .. n - 1 : i \in 0 .. n
  OBVIOUS
<1>3. x \in [0 .. n - 1 -> 0 .. Length]
  BY <1>1, <1>2
<1>4. x[0] = ValueEnd /\ n \in 1 .. n /\ x[n - 1] = w[n - 1]
  BY <1>1
<1>5. x[n - 1] = Continued(v, types[n])
  BY <1>1, <1>4
<1>6. \A i \in 1 .. n - 1 : /\ x[i] = w[i] /\ x[i - 1] = w[i - 1]
                            /\ i \in 1 .. n
  OBVIOUS
<1> HIDE DEF x
<1> QED
  BY <1>1, <1>3, <1>4, <1>5, <1>6 DEF Leads

LEMMA LeadsAgree ==
    ASSUME NEW n \in Nat, NEW types, NEW e, Leads(n, types, e),
           NEW more, \A i \in 1 .. n : more[i] = types[i]
    PROVE  Leads(n, more, e)
BY DEF Leads

(* What reads nothing lets no level around it read anything, and what is   *)
(* read ends before they do.                                               *)
LEMMA LeadsForward ==
    ASSUME TextOK, NEW n \in Nat, NEW types,
           \A i \in 1 .. n : types[i] \in Containers,
           NEW e, Leads(n, types, e)
    PROVE  /\ e \in 0 .. Length
           /\ ValueEnd # 0 => e # 0 /\ e <= ValueEnd
<1>1. Length \in Nat
  BY DEF TextOK, Length
<1>2. PICK w \in [0 .. n -> 0 .. Length] :
          /\ w[0] = ValueEnd /\ w[n] = e
          /\ \A i \in 1 .. n : w[i - 1] = Continued(w[i], types[i])
  BY DEF Leads
<1>3. e \in 0 .. Length /\ \A i \in 0 .. n : w[i] \in 0 .. Length
  BY <1>2
<1>4. ASSUME ValueEnd # 0
      PROVE  e # 0 /\ e <= ValueEnd
  <2> DEFINE Bad == {i \in 0 .. n : w[i] = 0 \/ w[i] > ValueEnd}
  <2>1. CASE Bad = {}
    <3>1. n \in 0 .. n
      OBVIOUS
    <3>2. w[n] # 0 /\ ~ (w[n] > ValueEnd)
      BY <2>1, <3>1
    <3>3. w[n] \in 0 .. Length /\ ValueEnd \in 0 .. Length
      BY <1>2, <1>3
    <3> QED
      BY <1>1, <1>2, <3>2, <3>3
  <2>2. CASE Bad # {}
    <3>0. Bad \in SUBSET Nat
      OBVIOUS
    <3> HIDE DEF Bad
    <3>1. PICK m \in Bad : \A k \in Bad : m <= k
      BY <2>2, <3>0, Least
    <3> USE DEF Bad
    <3>2. m \in 0 .. n /\ m # 0
      BY <1>1, <1>2, <1>3, <1>4
    <3>3. m \in 1 .. n /\ m - 1 \in 0 .. n /\ ~ (m <= m - 1)
      BY <3>2
    <3>4. w[m - 1] # 0 /\ ~ (w[m - 1] > ValueEnd)
      BY <3>1, <3>3
    <3>5. w[m - 1] = Continued(w[m], types[m])
      BY <1>2, <3>3
    <3>6. w[m] \in 0 .. Length /\ types[m] \in Containers
      BY <1>3, <3>2, <3>3
    <3>7. w[m] # 0 /\ w[m] <= w[m - 1] /\ w[m - 1] \in 0 .. Length
      BY <3>4, <3>5, <3>6, ContinuedForward
    <3>8. ValueEnd \in 0 .. Length
      BY <1>2, <1>3
    <3>9. w[m] = 0 \/ w[m] > ValueEnd
      OBVIOUS
    <3> QED
      BY <1>1, <3>4, <3>6, <3>7, <3>8, <3>9
  <2> QED
    BY <2>1, <2>2
<1> QED
  BY <1>3, <1>4
-----------------------------------------------------------------------------
(***************************************************************************)
(* Where the parser may be, in a text whose value is under way at the      *)
(* levels of nesting types, and how it moves on.                           *)
(***************************************************************************)
(* A value is to be read from o on, with no blanks before it.              *)
ValuePoint(o, types) ==
    /\ o \in 0 .. Length /\ Dark(o) \in {o, Length}
    /\ Deep(o, Len(types))
    /\ Leads(Len(types), types, Grammar[o]["value"])

(* A value was read up to o.                                               *)
TruePoint(o, types) ==
    /\ o \in 1 .. Length /\ Char(o - 1) \notin Blanks
    /\ Deep(o, Len(types))
    /\ Leads(Len(types), types, o)

(* Elements of the innermost container are to be read behind o.            *)
ElementPoint(o, types) ==
    /\ types # <<>>
    /\ o + 1 \in 0 .. Length
    /\ Deep(o + 1, Len(types))
    /\ Leads(Len(types) - 1, types,
             Grammar[o + 1][RuleOf[types[Len(types)]]])

NotAccepted == ValueEnd = 0 \/ TooDeep

(* What the moves below are about.                                         *)
Within(types) ==
    TextOK /\ types \in Seq(Containers) /\ Len(types) <= NestingLimit

LEMMA WithinFacts ==
    ASSUME NEW types, Within(types)
    PROVE  /\ TextOK /\ Len(types) \in Nat /\ Length \in Nat
           /\ Len(types) <= NestingLimit /\ NestingLimit \in Nat
           /\ \A i \in 1 .. Len(types) : types[i] \in Containers
           /\ types # <<>> => Len(types) \in 1 .. Len(types)
           /\ Len(types) \in 0 .. Len(types)
BY JsonParseAssumption DEF Within, TextOK, Length

LEMMA DarkHere ==
    ASSUME TextOK, NEW o \in Nat, Char(o) \notin Blanks \cup {"outside"}
    PROVE  Dark(o) = o /\ o < Length
<1>1. Length \in Nat
  BY DEF TextOK, Length
<1>2. o < Length
  BY <1>1 DEF Char
<1>3. DarkAt(o, o)
  BY <1>1, <1>2 DEF DarkAt
<1> QED
  BY <1>2, <1>3, DarkIs, DarkUnique

LEMMA DarkEnd ==
    ASSUME TextOK
    PROVE  Char(Length) = "outside"
BY DEF TextOK, Length, Char

LEMMA DeepBlanks ==
    ASSUME TextOK, NEW o \in 0 .. Length, NEW n \in Nat, n <= NestingLimit,
           Deep(o, n)
    PROVE  Deep(Skip(o), n)
<1>1. Length \in Nat /\ o \in Nat
  BY DEF TextOK, Length
<1>2. Skip(o) \in 0 .. Length /\ o <= Skip(o) /\ Skip(o) <= Dark(o)
  BY SkipDark
<1>3. DarkAt(Dark(o), o) /\ Dark(o) \in Nat
  BY <1>1, DarkIs DEF DarkAt
<1>4. ASSUME NEW q \in o .. Skip(o) - 1
      PROVE  Char(q) \notin Openings \cup Closings
  <2>1. q \in o .. Length - 1 /\ q < Dark(o)
    BY <1>1, <1>2, <1>3
  <2>2. Char(q) \in Blanks
    BY <1>3, <2>1 DEF DarkAt
  <2> QED
    BY <2>2 DEF Blanks, Openings, Closings
<1> QED
  BY <1>1, <1>2, <1>4, DeepSame

(* If the value at hand reads nothing, so does the whole text.             *)
LEMMA NothingRead ==
    ASSUME NEW types, Within(types), NEW n \in 0 .. Len(types),
           Leads(n, types, 0)
    PROVE  NotAccepted
<1>1. \A i \in 1 .. n : types[i] \in Containers
  BY WithinFacts
<1>2. n \in Nat /\ TextOK
  BY WithinFacts
<1> QED
  BY <1>1, <1>2, LeadsForward DEF NotAccepted

LEMMA ValueStarts ==
    ASSUME TextOK
    PROVE  ValuePoint(Skip(0), <<>>)
<1>1. Length \in Nat /\ 0 \in 0 .. Length /\ 0 \in Starts
  BY DEF TextOK, Length, Starts
<1>2. /\ Skip(0) \in 0 .. Length /\ Dark(Skip(0)) = Dark(0)
      /\ Skip(0) = Dark(0) \/ Dark(0) = Length
  BY <1>1, SkipDark
<1>3. Deep(Skip(0), 0)
  BY <1>1, DeepStart, DeepBlanks, JsonParseAssumption
<1>4. Grammar[Skip(0)]["value"] = ValueEnd
  <2>1. Skip(0) \in Starts /\ "value" \in Rules
    BY <1>1, <1>2 DEF Starts, Rules
  <2> QED
    BY <1>1, <1>2, <2>1, GrammarSkips DEF ValueEnd
<1>5. Leads(0, <<>>, ValueEnd)
  BY LeadsStart
<1>6. Len(<<>>) = 0
  OBVIOUS
<1> QED
  BY <1>2, <1>3, <1>4, <1>5, <1>6 DEF ValuePoint

LEMMA ValueAt ==
    ASSUME TextOK, NEW o \in 0 .. Length
    PROVE  o \in Starts /\ Grammar[o]["value"] = Value(Grammar, o)
<1>1. o \in Starts
  BY DEF TextOK, Length, Starts
<1> QED
  BY <1>1, GrammarIs DEF GrammarFacts, IsGrammar

LEMMA ScalarRead ==
    ASSUME NEW types, Within(types), NEW o, ValuePoint(o, types),
           Char(o) \in Scalars
    PROVE  TruePoint(o + 1, types)
<1>1. /\ Length \in Nat /\ o \in 0 .. Length /\ Deep(o, Len(types))
      /\ o \in Nat /\ TextOK /\ Len(types) \in Nat
      /\ Len(types) <= NestingLimit
      /\ Leads(Len(types), types, Grammar[o]["value"])
  BY WithinFacts DEF ValuePoint
<1>2. /\ Char(o) \notin Blanks \cup {"outside"}
      /\ Char(o) \notin Openings \cup Closings
  BY DEF Scalars, Strings, Blanks, Openings, Closings
<1>3. Dark(o) = o /\ o < Length
  BY <1>1, <1>2, DarkHere
<1>4. Grammar[o]["value"] = o + 1
  <2>1. Value(Grammar, o) = o + 1
    BY <1>3, Zenon DEF Value
  <2> QED
    BY <1>1, <2>1, ValueAt
<1>5. Deep(o + 1, Len(types))
  BY <1>1, <1>2, DeepNext
<1>6. (o + 1) - 1 = o /\ o + 1 \in 1 .. Length
  BY <1>1, <1>3
<1>7. Leads(Len(types), types, o + 1)
  BY <1>1, <1>4
<1> QED
  BY <1>2, <1>5, <1>6, <1>7 DEF TruePoint

LEMMA NoValueRead ==
    ASSUME NEW types, Within(types), NEW o, ValuePoint(o, types),
           Char(o) \notin Scalars \cup {"[", "{"}
    PROVE  NotAccepted
<1>1. /\ o \in 0 .. Length /\ TextOK /\ Len(types) \in Nat
      /\ Dark(o) \in {o, Length}
      /\ Leads(Len(types), types, Grammar[o]["value"])
  BY WithinFacts DEF ValuePoint
<1>2. Char(Dark(o)) \notin Scalars \cup {"[", "{"}
  <2>1. Char(Length) \notin Scalars \cup {"[", "{"}
    BY <1>1, DarkEnd DEF Scalars, Strings
  <2> QED
    BY <1>1, <2>1
<1>3. Value(Grammar, o) = 0
  BY <1>2, Zenon DEF Value
<1>4. Grammar[o]["value"] = 0
  BY <1>1, <1>3, ValueAt
<1>5. Leads(Len(types), types, 0) /\ Len(types) \in 0 .. Len(types)
  <2>1. Leads(Len(types), types, 0)
    BY <1>1, <1>4, Zenon
  <2>2. Len(types) \in 0 .. Len(types)
    BY WithinFacts, Zenon
  <2> QED
    BY <2>1, <2>2, Zenon
<1>6. \A n \in 0 .. Len(types) : Leads(n, types, 0) => NotAccepted
  BY NothingRead
<1> QED
  BY <1>5, <1>6

(* An array or object that begins at o.                                    *)
LEMMA ContainerAt ==
    ASSUME TextOK, NEW o \in 0 .. Length, NEW type \in Containers,
           Char(o) = Opening[type]
    PROVE  /\ Dark(o) = o /\ o < Length /\ o + 1 \in 0 .. Length
           /\ Grammar[o]["value"] =
                  IF Char(Dark(o + 1)) = Closing[type] THEN Dark(o + 1) + 1
                  ELSE Grammar[o + 1][RuleOf[type]]
<1>1. Length \in Nat /\ o \in Nat
  BY DEF TextOK, Length
<1>2. Char(o) \in {"[", "{"}
  BY BracketsAre
<1>3. Char(o) \notin Blanks \cup {"outside"} /\ Char(o) \notin Scalars
  BY <1>2 DEF Blanks, Scalars, Strings
<1>4. Dark(o) = o /\ o < Length
  BY <1>1, <1>3, DarkHere
<1>5. Value(Grammar, o) =
          IF Char(Dark(o + 1)) = Closing[type] THEN Dark(o + 1) + 1
          ELSE Grammar[o + 1][RuleOf[type]]
  <2>1. CASE type = "Array"
    <3>1. /\ Char(o) = "[" /\ Closing[type] = "]"
          /\ RuleOf[type] = "elements"
      BY <2>1, RulesAre
    <3> QED
      BY <1>3, <1>4, <3>1, Zenon DEF Value
  <2>2. CASE type = "Object"
    <3>1. /\ Char(o) = "{" /\ Closing[type] = "}"
          /\ RuleOf[type] = "members" /\ "{" # "["
      BY <2>2, RulesAre
    <3> QED
      BY <1>3, <1>4, <3>1, Zenon DEF Value
  <2> QED
    BY <2>1, <2>2 DEF Containers
<1>6. o + 1 \in 0 .. Length
  BY <1>1, <1>4
<1> QED
  BY <1>4, <1>5, <1>6, ValueAt

(* One level too many, unless the text is none anyway.                     *)
LEMMA LimitReached ==
    ASSUME NEW types, Within(types), NEW o, ValuePoint(o, types),
           NEW type \in Containers, Char(o) = Opening[type],
           Len(types) >= NestingLimit
    PROVE  NotAccepted
<1> DEFINE e == Grammar[o]["value"]
           n == Len(types)
<1>1. /\ Length \in Nat /\ o \in 0 .. Length /\ o \in Nat /\ TextOK
      /\ n \in Nat /\ Deep(o, n) /\ Leads(n, types, e)
      /\ NestingLimit \in Nat
      /\ \A i \in 1 .. n : types[i] \in Containers
  BY WithinFacts DEF ValuePoint
<1>2. Forward(e, o)
  <2>1. "value" \in Rules
    BY DEF Rules
  <2> QED
    BY <1>1, <2>1, ValueAt, GrammarForward
<1> HIDE DEF e, n
<1>3. CASE ValueEnd = 0
  BY <1>3 DEF NotAccepted
<1>4. CASE ValueEnd # 0
  <2>1. e # 0 /\ e <= ValueEnd
    BY <1>1, <1>4, LeadsForward
  <2>2. o < e /\ e \in Nat
    BY <1>2, <2>1 DEF Forward
  <2>3. ValueEnd \in Nat
    <3>1. 0 \in Starts /\ "value" \in Rules
      BY <1>1 DEF Starts, Rules
    <3> QED
      BY <1>1, <3>1, GrammarForward DEF ValueEnd
  <2>4. o \in 0 .. ValueEnd - 1
    BY <1>1, <2>1, <2>2, <2>3
  <2>5. Depth(o) = n + 1
    <3>1. Depth(o - 1) = n
      BY <1>1 DEF Deep
    <3>2. Char(o) \in Openings
      BY BracketsAre DEF Openings
    <3> QED
      BY <1>1, <3>1, <3>2, DepthMore
  <2>6. Depth(o) > NestingLimit
    BY <1>1, <2>5 DEF n
  <2> QED
    BY <2>4, <2>6 DEF NotAccepted, TooDeep
<1> QED
  BY <1>3, <1>4

(* Behind the opening bracket.                                             *)
LEMMA OpeningRead ==
    ASSUME NEW types, Within(types), NEW o, ValuePoint(o, types),
           NEW type \in Containers, Char(o) = Opening[type],
           Len(types) < NestingLimit
    PROVE  Deep(Skip(o + 1), Len(types) + 1)
<1>1. /\ o \in 0 .. Length /\ o \in Nat /\ TextOK /\ Length \in Nat
      /\ Len(types) \in Nat /\ Deep(o, Len(types)) /\ NestingLimit \in Nat
  BY WithinFacts DEF ValuePoint
<1>2. Char(o) \in Openings
  BY BracketsAre DEF Openings
<1>3. o + 1 \in 0 .. Length
  BY <1>1, ContainerAt
<1> DEFINE n == Len(types) + 1
<1>4. n \in Nat /\ n <= NestingLimit
  BY <1>1
<1>5. Deep(o + 1, n)
  BY <1>1, <1>2, <1>4, DeepNext
<1> HIDE DEF n
<1>6. Deep(Skip(o + 1), n)
  BY <1>1, <1>3, <1>4, <1>5, DeepBlanks
<1> QED
  BY <1>6 DEF n

LEMMA EmptyRead ==
    ASSUME NEW types, Within(types), NEW o, ValuePoint(o, types),
           NEW type \in Containers, Char(o) = Opening[type],
           Len(types) < NestingLimit, Char(Skip(o + 1)) = Closing[type]
    PROVE  TruePoint(Skip(o + 1) + 1, types)
<1> DEFINE d == Skip(o + 1)
           n == Len(types)
<1>1. /\ o \in 0 .. Length /\ o \in Nat /\ TextOK /\ Length \in Nat
      /\ n \in Nat /\ n <= NestingLimit
      /\ Leads(n, types, Grammar[o]["value"])
  BY WithinFacts DEF ValuePoint
<1>2. o + 1 \in 0 .. Length
  BY <1>1, ContainerAt
<1>3. Closing[type] \notin Blanks \cup {"outside"}
  BY RulesAre
<1>4. d = Dark(o + 1) /\ d < Length /\ d \in 0 .. Length
  BY <1>1, <1>2, <1>3, SkipFinds, SkipDark
<1>5. Grammar[o]["value"] = d + 1
  BY <1>1, <1>4, ContainerAt
<1>6. Deep(d, n + 1)
  BY OpeningRead
<1> HIDE DEF d, n
<1>7. Char(d) \in Closings /\ Char(d) \notin Blanks
  BY <1>3, BracketsAre DEF Closings, d
<1>8. Deep(d + 1, n)
  <2>1. d \in Nat /\ n + 1 \in Int /\ n \in Int /\ n = (n + 1) - 1
    BY <1>1, <1>4
  <2> QED
    BY <1>1, <1>6, <1>7, <2>1, DeepNext
<1>9. (d + 1) - 1 = d /\ d + 1 \in 1 .. Length
  BY <1>1, <1>4
<1>10. Leads(n, types, d + 1)
  BY <1>1, <1>5
<1>11. Char((d + 1) - 1) \notin Blanks
  BY <1>7, <1>9
<1> QED
  BY <1>8, <1>9, <1>10, <1>11 DEF TruePoint, d, n

LEMMA CutRead ==
    ASSUME NEW types, Within(types), NEW o, ValuePoint(o, types),
           NEW type \in Containers, Char(o) = Opening[type],
           Skip(o + 1) >= Length
    PROVE  NotAccepted
<1>1. /\ o \in 0 .. Length /\ o \in Nat /\ TextOK /\ Length \in Nat
      /\ Len(types) \in Nat
      /\ Leads(Len(types), types, Grammar[o]["value"])
  BY WithinFacts DEF ValuePoint
<1>2. o + 1 \in 0 .. Length /\ o < Length
  BY <1>1, ContainerAt
<1>3. o + 1 = Length
  BY <1>1, <1>2, SkipDark
<1>4. Dark(o + 1) = Length
  BY <1>1, <1>2, <1>3, DarkIs DEF DarkAt
<1>5. Char(Dark(o + 1)) = "outside"
  BY <1>1, <1>4, DarkEnd
<1>6. Char(Dark(o + 1)) \notin Scalars \cup {"[", "{", "]", "}"}
  BY <1>5 DEF Scalars, Strings
<1>7. o + 1 \in Starts /\ Value(Grammar, o + 1) = 0
  <2>1. Value(Grammar, o + 1) = 0
    BY <1>6, Zenon DEF Value
  <2> QED
    BY <1>1, <1>2, <2>1, ValueAt
<1>8. Grammar[o + 1]["elements"] = 0 /\ Grammar[o + 1]["members"] = 0
  <2>1. Grammar[o + 1]["value"] = 0
    BY <1>1, <1>2, <1>7, ValueAt
  <2>2. Grammar[o + 1]["elements"] = Continued(0, "Array")
    BY <1>1, <1>7, <2>1, ElementsAre
  <2>3. Continued(0, "Array") = 0
    BY Zenon DEF Continued, Rest
  <2>4. Char(Dark(o + 1)) \notin Strings
    BY <1>6 DEF Scalars
  <2> QED
    BY <1>1, <1>7, <2>2, <2>3, <2>4, NoMembers
<1>9. Grammar[o]["value"] = 0
  <2>1. Char(Dark(o + 1)) # Closing[type]
    BY <1>5, RulesAre
  <2>2. Grammar[o]["value"] = Grammar[o + 1][RuleOf[type]]
    BY <1>1, <2>1, ContainerAt
  <2> QED
    BY <1>8, <2>2, RulesAre DEF Containers
<1>10. Leads(Len(types), types, 0) /\ Len(types) \in 0 .. Len(types)
  BY <1>1, <1>9
<1>11. \A n \in 0 .. Len(types) : Leads(n, types, 0) => NotAccepted
  BY NothingRead
<1> QED
  BY <1>10, <1>11

LEMMA OpenRead ==
    ASSUME NEW types, Within(types), NEW o, ValuePoint(o, types),
           NEW type \in Containers, Char(o) = Opening[type],
           Len(types) < NestingLimit, Char(Skip(o + 1)) # Closing[type]
    PROVE  ElementPoint(Skip(o + 1) - 1, Append(types, type))
<1> DEFINE d == Skip(o + 1)
           n == Len(types)
           more == Append(types, type)
           e == Grammar[o]["value"]
<1>1. /\ o \in 0 .. Length /\ o \in Nat /\ TextOK /\ Length \in Nat
      /\ n \in Nat /\ n <= NestingLimit /\ Leads(n, types, e)
  BY WithinFacts DEF ValuePoint
<1>2. o + 1 \in 0 .. Length
  BY <1>1, ContainerAt
<1>3. Closing[type] \notin Blanks \cup {"outside"}
  BY RulesAre
<1>4. d \in 0 .. Length /\ Dark(d) = Dark(o + 1)
  BY <1>1, <1>2, SkipDark
<1>5. Char(Dark(o + 1)) # Closing[type]
  BY <1>1, <1>2, <1>3, SkipFinds
<1>6. e = Grammar[o + 1][RuleOf[type]]
  BY <1>1, <1>5, ContainerAt
<1>7. e = Grammar[d][RuleOf[type]]
  <2>1. RuleOf[type] \in Rules /\ d \in Starts /\ o + 1 \in Starts
    BY <1>1, <1>2, <1>4, RulesAre, ValueAt
  <2> HIDE DEF d, e
  <2>2. \A rule \in Rules : Grammar[d][rule] = Grammar[o + 1][rule]
    BY <1>1, <1>4, <2>1, GrammarSkips
  <2> QED
    BY <1>6, <2>1, <2>2
<1>8. Deep(d, n + 1)
  BY OpeningRead
<1>9. types \in Seq(Containers)
  BY DEF Within
<1>10. /\ Len(more) = n + 1 /\ more[n + 1] = type /\ more # <<>>
       /\ \A i \in 1 .. n : more[i] = types[i]
  BY <1>9
<1> HIDE DEF d, n, more, e
<1>11. Leads(n, more, e)
  BY <1>1, <1>10, LeadsAgree
<1>12. (d - 1) + 1 = d /\ Len(more) - 1 = n
  BY <1>1, <1>4, <1>10
<1>13. Leads(Len(more) - 1, more, Grammar[d][RuleOf[more[Len(more)]]])
  BY <1>7, <1>10, <1>11, <1>12
<1>14. Deep(d, Len(more))
  BY <1>8, <1>10
<1>15. ElementPoint(d - 1, more)
  BY <1>4, <1>10, <1>12, <1>13, <1>14 DEF ElementPoint
<1> QED
  BY <1>15 DEF d, more

LEMMA ElementFacts ==
    ASSUME NEW types, Within(types), NEW o, ElementPoint(o, types),
           NEW n, n = Len(types)
    PROVE  /\ TextOK /\ Length \in Nat /\ o + 1 \in 0 .. Length
           /\ o + 1 \in Nat /\ o + 1 \in Starts
           /\ n \in Nat /\ n - 1 \in Nat /\ n <= NestingLimit
           /\ n - 1 \in 0 .. n /\ types[n] \in Containers
           /\ Deep(o + 1, n)
           /\ Leads(n - 1, types, Grammar[o + 1][RuleOf[types[n]]])
<1>1. /\ TextOK /\ Length \in Nat /\ n \in Nat /\ n <= NestingLimit
      /\ n \in 1 .. n /\ types[n] \in Containers
  BY WithinFacts DEF ElementPoint
<1>2. /\ o + 1 \in 0 .. Length /\ Deep(o + 1, n)
      /\ Leads(n - 1, types, Grammar[o + 1][RuleOf[types[n]]])
  BY DEF ElementPoint
<1>3. o + 1 \in Starts
  BY <1>1, <1>2, ValueAt
<1> QED
  BY <1>1, <1>2, <1>3

(* The value that an element consists of, read from p on.                  *)
LEMMA ElementValue ==
    ASSUME NEW types, Within(types), NEW n, n = Len(types), n \in Nat \ {0},
           NEW p \in 0 .. Length, Deep(p, n),
           Leads(n - 1, types, Continued(Grammar[p]["value"], types[n]))
    PROVE  ValuePoint(Skip(p), types)
<1>1. /\ TextOK /\ Length \in Nat /\ n <= NestingLimit
      /\ types[n] \in Containers
  BY WithinFacts
<1>2. /\ Skip(p) \in 0 .. Length /\ Dark(Skip(p)) = Dark(p)
      /\ Skip(p) = Dark(p) \/ Dark(p) = Length
  BY <1>1, SkipDark
<1>3. Deep(Skip(p), n)
  BY <1>1, DeepBlanks
<1>4. /\ Grammar[Skip(p)]["value"] = Grammar[p]["value"]
      /\ Grammar[p]["value"] \in 0 .. Length
  <2>1. Skip(p) \in Starts /\ p \in Starts /\ "value" \in Rules
    BY <1>1, <1>2, ValueAt DEF Rules
  <2> QED
    BY <1>1, <1>2, <2>1, GrammarSkips, GrammarForward
<1> DEFINE v == Grammar[p]["value"]
<1>5. n - 1 \in Nat /\ (n - 1) + 1 = n
  OBVIOUS
<1>6. Leads(n, types, v)
  <2> DEFINE k == n - 1
  <2>1. k \in Nat /\ n = k + 1 /\ Leads(k, types, Continued(v, types[k + 1]))
    BY <1>5
  <2>2. v \in 0 .. Length
    BY <1>4
  <2> HIDE DEF k, v
  <2>3. Leads(k + 1, types, v)
    BY <2>1, <2>2, LeadsIn
  <2> QED
    BY <2>1, <2>3
<1> QED
  BY <1>2, <1>3, <1>4, <1>6 DEF ValuePoint

(* The element of an array is a value.                                     *)
LEMMA ArrayRead ==
    ASSUME NEW types, Within(types), NEW o, ElementPoint(o, types),
           types[Len(types)] = "Array"
    PROVE  ValuePoint(Skip(o + 1), types)
<1> DEFINE n == Len(types)
           p == o + 1
<1>1. /\ TextOK /\ Length \in Nat /\ p \in 0 .. Length
      /\ p \in Starts /\ n \in Nat /\ n - 1 \in Nat /\ Deep(p, n)
      /\ Leads(n - 1, types, Grammar[p][RuleOf[types[n]]])
  BY ElementFacts
<1>2. Grammar[p][RuleOf[types[n]]] = Continued(Grammar[p]["value"], types[n])
  <2>1. RuleOf[types[n]] = "elements" /\ types[n] = "Array"
    BY RulesAre
  <2> HIDE DEF p, n
  <2> QED
    BY <1>1, <2>1, ElementsAre
<1>3. n \in Nat \ {0}
  BY <1>1
<1>4. Leads(n - 1, types, Continued(Grammar[p]["value"], types[n]))
  BY <1>1, <1>2
<1> HIDE DEF p
<1>5. ValuePoint(Skip(p), types)
  BY <1>1, <1>3, <1>4, ElementValue
<1> QED
  BY <1>5 DEF p

(* An object whose members do not go on as such.                           *)
LEMMA NoMembersRead ==
    ASSUME NEW types, Within(types), NEW o, ElementPoint(o, types),
           types[Len(types)] = "Object", Grammar[o + 1]["members"] = 0
    PROVE  NotAccepted
<1> DEFINE n == Len(types)
<1>1. /\ n - 1 \in 0 .. n
      /\ Leads(n - 1, types, Grammar[o + 1][RuleOf[types[n]]])
  BY ElementFacts
<1>2. RuleOf[types[n]] = "members"
  BY RulesAre
<1>3. Leads(n - 1, types, 0)
  BY <1>1, <1>2
<1>4. \A k \in 0 .. n : Leads(k, types, 0) => NotAccepted
  BY NothingRead
<1> QED
  BY <1>1, <1>3, <1>4

LEMMA NoNameRead ==
    ASSUME NEW types, Within(types), NEW o, ElementPoint(o, types),
           types[Len(types)] = "Object",
           \/ o + 1 >= Length
           \/ Char(Skip(o + 1)) \notin Strings
    PROVE  NotAccepted
<1> DEFINE p == o + 1
<1>1. TextOK /\ Length \in Nat /\ p \in 0 .. Length /\ p \in Starts
  BY ElementFacts
<1>2. p >= Length \/ Char(Skip(p)) \notin Strings
  OBVIOUS
<1> HIDE DEF p
<1>3. Char(Dark(p)) \notin Strings
  <2>1. CASE p >= Length
    <3>1. Dark(p) = Length
      BY <1>1, <2>1, DarkIs DEF DarkAt
    <3> QED
      BY <1>1, <3>1, DarkEnd DEF Strings
  <2>2. CASE Char(Skip(p)) \notin Strings
    <3>1. \A c \in Strings : c \notin Blanks \cup {"outside"}
      BY DEF Strings, Blanks
    <3> QED
      BY <1>1, <2>2, <3>1, SkipFinds
  <2> QED
    BY <1>2, <2>1, <2>2
<1>4. Grammar[p]["members"] = 0
  BY <1>1, <1>3, NoMembers
<1> QED
  BY <1>4, NoMembersRead DEF p

LEMMA NameIs ==
    ASSUME NEW types, Within(types), NEW o, ElementPoint(o, types),
           types[Len(types)] = "Object", o + 1 < Length,
           NEW name, name = Skip(o + 1), Char(name) \in Strings
    PROVE  /\ name = Dark(o + 1) /\ name \in Nat /\ name < Length
           /\ name + 1 \in 0 .. Length /\ Dark(name + 1) + 1 \in Starts
           /\ Deep(name + 1, Len(types))
<1> DEFINE n == Len(types)
<1>1. /\ TextOK /\ Length \in Nat /\ o + 1 \in 0 .. Length
      /\ n \in Nat /\ n <= NestingLimit /\ Deep(o + 1, n)
  BY ElementFacts
<1>2. /\ Char(name) \notin Blanks \cup {"outside"}
      /\ Char(name) \notin Openings \cup Closings
  BY DEF Strings, Blanks, Openings, Closings
<1>3. name = Dark(o + 1) /\ name < Length /\ name \in Nat
  BY <1>1, <1>2, SkipFinds, SkipDark
<1>4. name + 1 \in 0 .. Length
  BY <1>1, <1>3
<1>5. Dark(name + 1) + 1 \in Starts
  <2>1. name + 1 \in Nat
    BY <1>1, <1>4
  <2> DEFINE colon == Dark(name + 1)
  <2>2. colon \in Nat /\ colon <= Length
    BY <1>1, <2>1, DarkIs DEF DarkAt
  <2> HIDE DEF colon
  <2>3. colon + 1 \in Starts
    BY <1>1, <2>2 DEF Starts
  <2> QED
    BY <2>3 DEF colon
<1>6. Deep(name, n)
  BY <1>1, DeepBlanks
<1>7. Deep(name + 1, n)
  <2> HIDE DEF n
  <2> QED
    BY <1>1, <1>2, <1>3, <1>6, DeepNext
<1> QED
  BY <1>3, <1>4, <1>5, <1>7

(* No colon after the name.                                                *)
LEMMA NoColonRead ==
    ASSUME NEW types, Within(types), NEW o, ElementPoint(o, types),
           types[Len(types)] = "Object", o + 1 < Length,
           NEW name, name = Skip(o + 1), Char(name) \in Strings,
           Char(Skip(name + 1)) # ":"
    PROVE  NotAccepted
<1>1. TextOK /\ Length \in Nat /\ o + 1 \in Starts
  BY ElementFacts
<1>2. /\ name = Dark(o + 1) /\ name + 1 \in 0 .. Length
      /\ Dark(name + 1) + 1 \in Starts
  BY NameIs
<1>3. Char(Dark(name + 1)) # ":"
  <2>1. ":" \notin Blanks \cup {"outside"}
    BY DEF Blanks
  <2> QED
    BY <1>1, <1>2, <2>1, SkipFinds
<1>4. Grammar[o + 1]["members"] = 0
  BY <1>1, <1>2, <1>3, MembersAre
<1> QED
  BY <1>4, NoMembersRead

(* The member of an object is a value behind a name and a colon.           *)
LEMMA MemberRead ==
    ASSUME NEW types, Within(types), NEW o, ElementPoint(o, types),
           types[Len(types)] = "Object", o + 1 < Length,
           NEW name, name = Skip(o + 1), Char(name) \in Strings,
           NEW colon, colon = Skip(name + 1), Char(colon) = ":"
    PROVE  ValuePoint(Skip(colon + 1), types)
<1> DEFINE n == Len(types)
           p == o + 1
<1>1. /\ TextOK /\ Length \in Nat /\ p \in Starts
      /\ n \in Nat /\ n - 1 \in Nat /\ n <= NestingLimit
      /\ Leads(n - 1, types, Grammar[p][RuleOf[types[n]]])
  BY ElementFacts
<1>2. /\ name = Dark(p) /\ name + 1 \in 0 .. Length
      /\ Dark(name + 1) + 1 \in Starts /\ Deep(name + 1, n)
  BY NameIs
<1> HIDE DEF p
<1>3. /\ ":" \notin Blanks \cup {"outside"}
      /\ ":" \notin Openings \cup Closings
  BY DEF Blanks, Openings, Closings
<1>4. colon = Dark(name + 1) /\ colon < Length /\ colon \in Nat
  BY <1>1, <1>2, <1>3, SkipFinds, SkipDark
<1>5. colon + 1 \in 0 .. Length
  BY <1>1, <1>4
<1>6. Deep(colon, n)
  BY <1>1, <1>2, DeepBlanks
<1>7. Deep(colon + 1, n)
  <2> HIDE DEF n
  <2> QED
    BY <1>1, <1>3, <1>4, <1>6, DeepNext
<1>8. Grammar[p][RuleOf[types[n]]]
          = Continued(Grammar[colon + 1]["value"], types[n])
  <2>1. RuleOf[types[n]] = "members" /\ types[n] = "Object"
    BY RulesAre
  <2>2. Grammar[p]["members"]
            = Continued(Grammar[colon + 1]["value"], "Object")
    BY <1>1, <1>2, <1>4, MembersAre
  <2> HIDE DEF n
  <2> QED
    BY <2>1, <2>2
<1>9. n \in Nat \ {0}
  BY <1>1
<1>10. Leads(n - 1, types, Continued(Grammar[colon + 1]["value"], types[n]))
  BY <1>1, <1>8
<1> QED
  BY <1>5, <1>7, <1>9, <1>10, ElementValue

LEMMA TrueFacts ==
    ASSUME NEW types, Within(types), NEW o, TruePoint(o, types),
           NEW n, n = Len(types)
    PROVE  /\ TextOK /\ Length \in Nat /\ o \in 1 .. Length
           /\ o \in 0 .. Length /\ o \in Nat /\ o # 0
           /\ n \in Nat /\ n <= NestingLimit
           /\ types # <<>> => n # 0 /\ n - 1 \in Nat
                              /\ n - 1 \in 0 .. n /\ types[n] \in Containers
           /\ Deep(o, n) /\ Leads(n, types, o)
           /\ Deep(Skip(o), n) /\ Skip(o) \in 0 .. Length
           /\ Skip(o) \in Nat /\ n \in Int
           /\ Skip(o) < Length => Skip(o) + 1 \in 0 .. Length
<1>1. /\ TextOK /\ Length \in Nat /\ n \in Nat /\ n <= NestingLimit
      /\ types # <<>> => n \in 1 .. n /\ types[n] \in Containers
  BY WithinFacts
<1>2. /\ o \in 1 .. Length /\ Deep(o, n) /\ Leads(n, types, o)
  BY DEF TruePoint
<1>3. o \in 0 .. Length
  BY <1>1, <1>2
<1>4. Deep(Skip(o), n) /\ Skip(o) \in 0 .. Length
  BY <1>1, <1>2, <1>3, DeepBlanks, SkipDark
<1> QED
  BY <1>1, <1>2, <1>3, <1>4

(* What comes after an element.                                            *)
LEMMA CloseRead ==
    ASSUME NEW types, Within(types), NEW o, TruePoint(o, types),
           types # <<>>, NEW n, n = Len(types),
           Char(Skip(o)) = Closing[types[n]],
           NEW fewer, fewer = SubSeq(types, 1, n - 1)
    PROVE  TruePoint(Skip(o) + 1, fewer)
<1> DEFINE d == Skip(o)
           m == n - 1
<1>1. /\ TextOK /\ Length \in Nat /\ o \in 0 .. Length /\ o # 0
      /\ n \in Nat /\ n <= NestingLimit /\ n # 0 /\ m \in Nat
      /\ types[n] \in Containers
      /\ Leads(n, types, o) /\ Deep(d, n) /\ d \in 0 .. Length
  BY TrueFacts
<1>2. /\ Closing[types[n]] \notin Blanks \cup {"outside"}
      /\ Closing[types[n]] \in {"]", "}"}
  BY <1>1, RulesAre, BracketsAre
<1>3. d = Dark(o) /\ d < Length
  BY <1>1, <1>2, SkipFinds
<1>4. Char(d) \in Closings /\ Char(d) \notin Blanks
  BY <1>2 DEF Closings
<1> HIDE DEF d
<1>5. Continued(o, types[n]) = d + 1
  <2>1. Char(Dark(o)) = Closing[types[n]] /\ Char(Dark(o)) # ","
    BY <1>2, <1>3 DEF d
  <2> QED
    BY <1>1, <1>3, <2>1, Zenon DEF Continued, Rest
<1>6. Leads(m, types, d + 1)
  BY <1>1, <1>5, LeadsOut
<1> HIDE DEF m
<1>7. n - 1 = m /\ n \in Int /\ m \in Int /\ m <= NestingLimit
  BY <1>1, JsonParseAssumption DEF m
<1>8. Deep(d + 1, m)
  BY <1>1, <1>4, <1>7, DeepNext
<1>9. Len(fewer) = m /\ \A i \in 1 .. m : fewer[i] = types[i]
  <2>1. types \in Seq(Containers) /\ m \in 0 .. Len(types)
    BY <1>1, <1>7 DEF Within
  <2> QED
    BY <1>7, <2>1
<1>10. Leads(m, fewer, d + 1)
  BY <1>1, <1>6, <1>9, LeadsAgree
<1>11. (d + 1) - 1 = d /\ d + 1 \in 1 .. Length
  BY <1>1, <1>3
<1>12. TruePoint(d + 1, fewer)
  BY <1>4, <1>8, <1>9, <1>10, <1>11 DEF TruePoint
<1> QED
  BY <1>12 DEF d

LEMMA CommaRead ==
    ASSUME NEW types, Within(types), NEW o, TruePoint(o, types),
           types # <<>>, Char(Skip(o)) = ","
    PROVE  ElementPoint(Skip(o), types)
<1> DEFINE d == Skip(o)
           n == Len(types)
<1>1. /\ TextOK /\ Length \in Nat /\ o \in 0 .. Length /\ o # 0
      /\ n \in Nat /\ n <= NestingLimit /\ n # 0
      /\ types[n] \in Containers
      /\ Leads(n, types, o) /\ Deep(d, n) /\ d \in 0 .. Length
      /\ d \in Nat /\ n \in Int /\ (d < Length => d + 1 \in 0 .. Length)
  BY TrueFacts
<1>2. /\ "," \notin Blanks \cup {"outside"}
      /\ "," \notin Openings \cup Closings
  BY DEF Blanks, Openings, Closings
<1>3. d = Dark(o) /\ d < Length
  BY <1>1, <1>2, SkipFinds
<1>4. Char(d) = ","
  OBVIOUS
<1> HIDE DEF d, n
<1>5. Continued(o, types[n]) = Grammar[d + 1][RuleOf[types[n]]]
  BY <1>1, <1>3, <1>4, Zenon DEF Continued, Rest
<1>6. Leads(n - 1, types, Grammar[d + 1][RuleOf[types[n]]])
  <2>1. Leads(n - 1, types, Continued(o, types[n]))
    BY <1>1, LeadsOut
  <2> QED
    BY <1>5, <2>1
<1>7. Deep(d + 1, n)
  BY <1>1, <1>2, <1>4, DeepNext
<1>8. d + 1 \in 0 .. Length
  BY <1>1, <1>3, Zenon
<1>9. ElementPoint(d, types)
  BY <1>6, <1>7, <1>8 DEF ElementPoint, n
<1> QED
  BY <1>9 DEF d

LEMMA NeitherRead ==
    ASSUME NEW types, Within(types), NEW o, TruePoint(o, types),
           types # <<>>,
           Char(Skip(o)) \notin {",", Closing[types[Len(types)]]}
    PROVE  NotAccepted
<1> DEFINE n == Len(types)
<1>1. /\ TextOK /\ Length \in Nat /\ o \in 0 .. Length /\ o # 0
      /\ n \in Nat /\ n # 0 /\ n - 1 \in 0 .. n
      /\ types[n] \in Containers /\ Leads(n, types, o)
  BY TrueFacts
<1>2. /\ "," \notin Blanks \cup {"outside"}
      /\ Closing[types[n]] \notin Blanks \cup {"outside"}
  BY <1>1, RulesAre DEF Blanks
<1>3. Char(Dark(o)) # "," /\ Char(Dark(o)) # Closing[types[n]]
  BY <1>1, <1>2, SkipFinds
<1>4. Continued(o, types[n]) = 0
  BY <1>3, Zenon DEF Continued, Rest
<1> HIDE DEF n
<1>5. Leads(n - 1, types, 0)
  <2>1. Leads(n - 1, types, Continued(o, types[n]))
    BY <1>1, LeadsOut
  <2> QED
    BY <1>4, <2>1
<1>6. \A k \in 0 .. Len(types) : Leads(k, types, 0) => NotAccepted
  BY NothingRead
<1> QED
  BY <1>1, <1>5, <1>6 DEF n

(* Only the NUL is left.                                                   *)
OnlyNul == Dark(ValueEnd) = Length /\ Char(Length - 1) = "NUL"

LEMMA EndRead ==
    ASSUME NEW types, Within(types), NEW o, TruePoint(o, types),
           types = <<>>
    PROVE  ~ NotAccepted /\ (OnlyNul <=> Char(Skip(o)) = "NUL")
<1>1. /\ TextOK /\ Length \in Nat /\ o \in 0 .. Length /\ o # 0
      /\ o \in Nat
      /\ Deep(o, 0) /\ Leads(0, types, o) /\ Skip(o) \in 0 .. Length
  <2>1. Len(types) = 0
    OBVIOUS
  <2> QED
    BY <2>1, TrueFacts
<1>2. Char(o - 1) \notin Blanks
  BY DEF TruePoint
<1>3. ValueEnd = o
  BY <1>1, LeadsRoot
<1>4. ~ NotAccepted
  <2>1. ASSUME NEW q \in 0 .. o - 1
        PROVE  ~ (Depth(q) > NestingLimit)
    <3>1. q + 1 \in Nat /\ (q + 1) - 1 = q
      OBVIOUS
    <3>2. Depth(q) \in Int
      BY <3>1, DepthMore
    <3>3. Depth(q) <= NestingLimit
      BY <1>1 DEF Deep
    <3> QED
      BY <3>2, <3>3, JsonParseAssumption
  <2> QED
    BY <1>1, <1>3, <2>1 DEF NotAccepted, TooDeep
<1>5. /\ o < Length => Skip(o) < Length
      /\ \/ Skip(o) = Dark(o)
         \/ /\ Dark(o) = Length /\ Skip(o) = Length - 1 /\ o < Length
            /\ Char(Skip(o)) \in Blanks
  BY <1>1, SkipDark
<1>6. "NUL" \in Blanks /\ Char(Length) # "NUL"
  BY <1>1, DarkEnd DEF Blanks
<1>7. ASSUME Dark(o) = Length, Char(Length - 1) = "NUL"
      PROVE  Char(Skip(o)) = "NUL"
  <2>1. o # Length
    BY <1>2, <1>6, <1>7
  <2>2. Skip(o) = Length - 1
    BY <1>1, <1>5, <1>7, <2>1
  <2> QED
    BY <1>7, <2>2
<1>8. ASSUME Char(Skip(o)) = "NUL"
      PROVE  Dark(o) = Length /\ Char(Length - 1) = "NUL"
  <2>1. Skip(o) # Dark(o)
    <3>1. DarkAt(Dark(o), o)
      BY <1>1, DarkIs
    <3>2. Dark(o) = Length \/ Char(Dark(o)) \notin Blanks
      BY <1>1, <3>1 DEF DarkAt
    <3> QED
      BY <1>6, <1>8, <3>2
  <2> QED
    BY <1>5, <1>8, <2>1
<1> QED
  BY <1>3, <1>4, <1>7, <1>8 DEF OnlyNul
-----------------------------------------------------------------------------
(***************************************************************************)
(* The inductive invariant: as long as memory lasts the parser is at one   *)
(* of those points, or has failed because the text is not to be accepted.  *)
(***************************************************************************)
Nesting == [i \in 1 .. Len(stack) |-> stack[i].type]

GrammarInv ==
    ~ refused =>
        /\ at = "value" => ValuePoint(offset, Nesting)
        /\ at = "true" => TruePoint(offset, Nesting)
        /\ at \in {"element", "name"} => ElementPoint(offset, Nesting)
        /\ at = "name" => Top.type = "Object"
        /\ at \in {"fail", "false"} => NotAccepted
        /\ at = "accepted" =>
               ~ NotAccepted /\ (require_null_terminated => OnlyNul)
        /\ at = "rejected" =>
               NotAccepted \/ (require_null_terminated /\ ~ OnlyNul)

LEMMA NestingIs ==
    ASSUME JsonInv
    PROVE  /\ TextOK /\ Nesting \in Seq(Containers)
           /\ Len(Nesting) = Len(stack) /\ Len(stack) \in Nat
           /\ Nesting = <<>> <=> stack = <<>>
           /\ stack # <<>> => Nesting[Len(Nesting)] = Top.type
           /\ Within(Nesting) /\ depth \in 0 .. NestingLimit
<1>1. /\ TextOK /\ stack \in Seq(Frames)
      /\ depth \in 0 .. NestingLimit /\ Len(stack) <= depth
      /\ NestingLimit \in Nat
  BY TypesAre, JsonParseAssumption DEF JsonInv, TypeOK, TextOK
<1>2. Len(stack) \in Nat /\ \A i \in 1 .. Len(stack) : stack[i] \in Frames
  BY <1>1
<1>3. \A i \in 1 .. Len(stack) : stack[i].type \in Containers
  BY <1>2 DEF Frames
<1>4. Nesting \in Seq(Containers) /\ Len(Nesting) = Len(stack)
  BY <1>2, <1>3 DEF Nesting
<1>5. Nesting = <<>> <=> stack = <<>>
  BY <1>1, <1>2, <1>4
<1>6. stack # <<>> => Nesting[Len(Nesting)] = Top.type
  BY <1>1, <1>2, <1>4 DEF Nesting, Top
<1>7. Within(Nesting)
  BY <1>1, <1>2, <1>4 DEF Within
<1> QED
  BY <1>1, <1>2, <1>4, <1>5, <1>6, <1>7

(* All this is about the text, which stays.                                *)
LEMMA PointsKept ==
    ASSUME TextOK, text' = text
    PROVE  /\ \A o, types :
                  /\ ValuePoint(o, types)' <=> ValuePoint(o, types)
                  /\ TruePoint(o, types)' <=> TruePoint(o, types)
                  /\ ElementPoint(o, types)' <=> ElementPoint(o, types)
           /\ NotAccepted' <=> NotAccepted
           /\ OnlyNul' <=> OnlyNul
<1>1. /\ Length' = Length /\ Grammar' = Grammar
      /\ \A o : Char(o)' = Char(o) /\ Dark(o)' = Dark(o)
  BY TextKept, GrammarKept
<1>2. ValueEnd' = ValueEnd
  BY <1>1 DEF ValueEnd
<1>3. \A o : Depth(o)' = Depth(o)
  <2>1. \A S, o : Brackets(S, o)' = Brackets(S, o)
    BY <1>1 DEF Brackets
  <2> QED
    BY <2>1 DEF Depth
<1>4. \A p, n : Deep(p, n)' <=> Deep(p, n)
  BY <1>3 DEF Deep
<1>5. \A v, type : Continued(v, type)' = Continued(v, type)
  <2>1. \A v, more, close : Rest(v, more, close)' = Rest(v, more, close)
    BY <1>1 DEF Rest
  <2> QED
    BY <1>1, <2>1 DEF Continued
<1>6. \A n, types, e : Leads(n, types, e)' <=> Leads(n, types, e)
  BY <1>1, <1>2, <1>5 DEF Leads
<1>7. TooDeep' <=> TooDeep
  BY <1>2, <1>3 DEF TooDeep
<1>8. \A o, types : ValuePoint(o, types)' <=> ValuePoint(o, types)
  BY <1>1, <1>4, <1>6 DEF ValuePoint
<1>9. \A o, types : TruePoint(o, types)' <=> TruePoint(o, types)
  BY <1>1, <1>4, <1>6 DEF TruePoint
<1>10. \A o, types : ElementPoint(o, types)' <=> ElementPoint(o, types)
  BY <1>1, <1>4, <1>6 DEF ElementPoint
<1>11. /\ NotAccepted' <=> NotAccepted
       /\ OnlyNul' <=> OnlyNul
  BY <1>1, <1>2, <1>7 DEF NotAccepted, OnlyNul
<1> QED
  BY <1>8, <1>9, <1>10, <1>11

(* Where a step may lead.                                                  *)
LEMMA ToValue ==
    ASSUME TextOK, text' = text, at' = "value",
           NEW o, offset' = o, NEW types, Nesting' = types,
           ValuePoint(o, types)
    PROVE  GrammarInv'
BY PointsKept DEF GrammarInv

LEMMA ToTrue ==
    ASSUME TextOK, text' = text, at' = "true",
           NEW o, offset' = o, NEW types, Nesting' = types,
           TruePoint(o, types)
    PROVE  GrammarInv'
BY PointsKept DEF GrammarInv

LEMMA ToElement ==
    ASSUME TextOK, text' = text,
           \/ at' = "element"
           \/ at' = "name" /\ Top'.type = "Object",
           NEW o, offset' = o, NEW types, Nesting' = types,
           ElementPoint(o, types)
    PROVE  GrammarInv'
BY PointsKept DEF GrammarInv

LEMMA ToFailure ==
    ASSUME TextOK, text' = text, at' \in {"fail", "false", "rejected"},
           NotAccepted
    PROVE  GrammarInv'
BY PointsKept DEF GrammarInv

LEMMA NestingKept ==
    ASSUME stack' = stack
    PROVE  Nesting' = Nesting /\ Top' = Top
BY DEF Nesting, Top

LEMMA NestingGrows ==
    ASSUME NEW S, stack \in Seq(S), NEW f, stack' = Append(stack, f)
    PROVE  Nesting' = Append(Nesting, f.type)
<1> DEFINE n == Len(stack)
<1>1. /\ n \in Nat /\ Len(stack') = n + 1 /\ stack'[n + 1] = f
      /\ \A i \in 1 .. n : stack'[i] = stack[i]
  OBVIOUS
<1>2. Nesting' = [i \in 1 .. n + 1 |-> stack'[i].type]
  BY <1>1 DEF Nesting
<1> DEFINE T == {stack[i].type : i \in 1 .. n}
<1>3. Nesting \in Seq(T) /\ Len(Nesting) = n
  BY <1>1 DEF Nesting
<1>4. \A i \in 1 .. n : Nesting[i] = stack[i].type
  BY DEF Nesting
<1> HIDE DEF T, n
<1>5. Append(Nesting, f.type) =
          [i \in 1 .. n + 1 |-> IF i = n + 1 THEN f.type ELSE Nesting[i]]
  BY <1>1, <1>3
<1>6. \A i \in 1 .. n + 1 : i # n + 1 => i \in 1 .. n
  BY <1>1
<1> QED
  BY <1>1, <1>2, <1>4, <1>5, <1>6

LEMMA NestingShrinks ==
    ASSUME NEW S, stack \in Seq(S), stack # <<>>, stack' = Pop
    PROVE  Nesting' = SubSeq(Nesting, 1, Len(Nesting) - 1)
<1> DEFINE n == Len(stack)
<1>1. /\ n \in Nat /\ n # 0 /\ Len(stack') = n - 1
      /\ \A i \in 1 .. n - 1 : stack'[i] = stack[i]
  <2>1. n \in Nat /\ n # 0
    OBVIOUS
  <2>2. stack' = SubSeq(stack, 1, n - 1)
    BY DEF Pop
  <2>3. stack' = [i \in 1 .. n - 1 |-> stack[i]]
    BY <2>1, <2>2
  <2>4. Len(stack') = n - 1
    BY <2>1, <2>3
  <2> QED
    BY <2>1, <2>3, <2>4
<1>2. Nesting' = [i \in 1 .. n - 1 |-> stack'[i].type]
  BY <1>1 DEF Nesting
<1> DEFINE T == {stack[i].type : i \in 1 .. n}
<1>3. Nesting \in Seq(T) /\ Len(Nesting) = n
  BY <1>1 DEF Nesting
<1>4. \A i \in 1 .. n : Nesting[i] = stack[i].type
  BY DEF Nesting
<1> HIDE DEF T, n
<1>5. SubSeq(Nesting, 1, n - 1) = [i \in 1 .. n - 1 |-> Nesting[i]]
  BY <1>1, <1>3
<1>6. \A i \in 1 .. n - 1 : i \in 1 .. n
  BY <1>1
<1> QED
  BY <1>1, <1>2, <1>3, <1>4, <1>5, <1>6
-----------------------------------------------------------------------------
(***************************************************************************)
(* Each step, in memory that suffices.                                     *)
(***************************************************************************)
LEMMA GrammarStart ==
    ASSUME JsonInv, Start, ~ refused'
    PROVE  GrammarInv'
<1>1. /\ offset' = Skip(0) /\ at' = "value" /\ stack' = stack
      /\ text' = text /\ at = "start"
  BY DEF Start, Refuse, buffer_vars
<1>2. Nesting = <<>> /\ TextOK
  BY <1>1, NestingIs DEF JsonInv, Progress
<1>3. Nesting' = <<>>
  BY <1>1, <1>2, NestingKept
<1> QED
  BY <1>1, <1>2, <1>3, ValueStarts, ToValue

LEMMA GrammarScalar ==
    ASSUME JsonInv, GrammarInv, ParseLiteral \/ ParseNumber \/ ParseString,
           ~ refused'
    PROVE  GrammarInv'
<1>1. /\ at = "value" /\ Char(offset) \in Scalars /\ ~ refused
      /\ offset' = offset + 1 /\ at' = "true" /\ stack' = stack
      /\ text' = text
  BY DEF ParseLiteral, ParseNumber, ParseString, Refuse, buffer_vars, Scalars
<1>2. Within(Nesting) /\ TextOK
  BY NestingIs
<1>3. ValuePoint(offset, Nesting)
  BY <1>1 DEF GrammarInv
<1>4. TruePoint(offset + 1, Nesting)
  BY <1>1, <1>2, <1>3, ScalarRead
<1>5. Nesting' = Nesting
  BY <1>1, NestingKept
<1> QED
  BY <1>1, <1>2, <1>4, <1>5, ToTrue

LEMMA GrammarNoValue ==
    ASSUME JsonInv, GrammarInv, NoValue, ~ refused'
    PROVE  GrammarInv'
<1>1. /\ at = "value" /\ Char(offset) \notin Scalars \cup {"[", "{"}
      /\ at' = "false" /\ text' = text /\ ~ refused
  BY DEF NoValue, buffer_vars
<1>2. Within(Nesting) /\ TextOK
  BY NestingIs
<1>3. ValuePoint(offset, Nesting)
  BY <1>1 DEF GrammarInv
<1>4. NotAccepted
  BY <1>1, <1>2, <1>3, NoValueRead
<1> QED
  BY <1>1, <1>2, <1>4, ToFailure

LEMMA GrammarContainer ==
    ASSUME JsonInv, GrammarInv, NEW type \in Containers,
           ParseContainer(type), ~ refused'
    PROVE  GrammarInv'
<1> DEFINE first == Skip(offset + 1)
<1>1. /\ at = "value" /\ Char(offset) = Opening[type] /\ ~ refused
      /\ text' = text
  BY DEF ParseContainer, buffer_vars
<1>2. /\ Within(Nesting) /\ TextOK /\ Len(Nesting) = depth
      /\ NestingLimit \in Nat /\ depth \in 0 .. NestingLimit
      /\ stack \in Seq(Frames)
  BY <1>1, NestingIs, TypesAre, JsonParseAssumption DEF JsonInv, TypeOK
<1>3. ValuePoint(offset, Nesting)
  BY <1>1 DEF GrammarInv
<1>4. CASE AtLimit
  <2>1. at' = "false"
    BY <1>4 DEF ParseContainer
  <2>2. Len(Nesting) >= NestingLimit
    BY <1>2, <1>4 DEF AtLimit
  <2>3. NotAccepted
    BY <1>1, <1>2, <1>3, <2>2, LimitReached
  <2> QED
    BY <1>1, <1>2, <2>1, <2>3, ToFailure
<1>5. ASSUME ~ AtLimit PROVE Len(Nesting) < NestingLimit
  BY <1>2, <1>5 DEF AtLimit
<1>6. CASE /\ ~ AtLimit /\ Char(first) = Closing[type]
           /\ offset' = first + 1 /\ at' = "true" /\ stack' = stack
  <2>1. TruePoint(first + 1, Nesting)
    BY <1>1, <1>2, <1>3, <1>5, <1>6, EmptyRead
  <2>2. Nesting' = Nesting
    BY <1>6, NestingKept
  <2> QED
    BY <1>1, <1>2, <1>6, <2>1, <2>2, ToTrue
<1>7. CASE ~ AtLimit /\ first >= Length /\ at' = "false"
  <2>1. NotAccepted
    BY <1>1, <1>2, <1>3, <1>7, CutRead
  <2> QED
    BY <1>1, <1>2, <1>7, <2>1, ToFailure
<1>8. CASE /\ ~ AtLimit /\ Char(first) # Closing[type]
           /\ stack' = Append(stack, [type |-> type, item |-> item,
                                      head |-> Null, current |-> Null])
           /\ offset' = first - 1 /\ at' = "element"
  <2>1. ElementPoint(first - 1, Append(Nesting, type))
    BY <1>1, <1>2, <1>3, <1>5, <1>8, OpenRead
  <2>2. Nesting' = Append(Nesting, type)
    BY <1>2, <1>8, NestingGrows
  <2> QED
    BY <1>1, <1>2, <1>8, <2>1, <2>2, ToElement
<1>9. \/ AtLimit
      \/ /\ ~ AtLimit /\ Char(first) = Closing[type]
         /\ offset' = first + 1 /\ at' = "true" /\ stack' = stack
      \/ ~ AtLimit /\ first >= Length /\ at' = "false"
      \/ /\ ~ AtLimit /\ Char(first) # Closing[type]
         /\ stack' = Append(stack, [type |-> type, item |-> item,
                                    head |-> Null, current |-> Null])
         /\ offset' = first - 1 /\ at' = "element"
  BY DEF ParseContainer
<1> QED
  BY <1>4, <1>6, <1>7, <1>8, <1>9

LEMMA ReplacedAt ==
    ASSUME NEW S, NEW s \in Seq(S), NEW g \in S, NEW t \in 1 .. Len(s),
           NEW r, r = [s EXCEPT ![t] = g]
    PROVE  /\ Len(r) = Len(s) /\ r[t] = g
           /\ \A i \in 1 .. Len(s) : i # t => r[i] = s[i]
<1>1. r \in Seq(S) /\ Len(r) = Len(s)
  OBVIOUS
<1> QED
  BY <1>1

LEMMA NestingReplaced ==
    ASSUME stack \in Seq(Frames), stack # <<>>, NEW g, g.type = Top.type,
           stack' = [stack EXCEPT ![Len(stack)] = g]
    PROVE  Nesting' = Nesting /\ Top'.type = Top.type
<1> DEFINE t == Len(stack)
           S == Frames \cup {g}
<1>1. /\ t \in Nat /\ t \in 1 .. t /\ Top = stack[t]
      /\ \A i \in 1 .. t : stack[i] \in S
  BY TopIs DEF Top
<1>2. g \in S
  OBVIOUS
<1> HIDE DEF S
<1>3. stack \in Seq(S)
  BY <1>1
<1>4. /\ Len(stack') = t /\ stack'[t] = g
      /\ \A i \in 1 .. t : i # t => stack'[i] = stack[i]
  <2>1. \A s \in Seq(S) : \A r :
            Len(s) \in 1 .. Len(s) /\ r = [s EXCEPT ![Len(s)] = g]
                => /\ Len(r) = Len(s) /\ r[Len(s)] = g
                   /\ \A i \in 1 .. Len(s) : i # Len(s) => r[i] = s[i]
    <3> TAKE s \in Seq(S)
    <3> TAKE r
    <3> HAVE Len(s) \in 1 .. Len(s) /\ r = [s EXCEPT ![Len(s)] = g]
    <3> QED
      BY <1>2, ReplacedAt
  <2> QED
    BY <1>1, <1>3, <2>1
<1> HIDE DEF t
<1>5. \A i \in 1 .. t : stack'[i].type = stack[i].type
  BY <1>1, <1>4
<1>6. Nesting' = Nesting
  BY <1>4, <1>5 DEF Nesting, t
<1>7. Top' = g
  BY <1>4 DEF Top
<1> QED
  BY <1>6, <1>7

LEMMA NestingAttaches ==
    ASSUME stack \in Seq(Frames), stack # <<>>, NEW n,
           stack' = [stack EXCEPT ![Len(stack)].current = n,
                       ![Len(stack)].head = IF @ = Null THEN n ELSE @]
    PROVE  Nesting' = Nesting /\ Top'.type = Top.type
<1> DEFINE t == Len(stack)
           g == [Top EXCEPT !.current = n,
                            !.head = IF @ = Null THEN n ELSE @]
<1>1. /\ t \in Nat /\ t \in DOMAIN stack /\ Top \in Frames
      /\ DOMAIN stack = 1 .. t /\ Top = stack[t]
  BY TopIs DEF Top
<1>2. stack' = [stack EXCEPT ![t] = g]
  BY <1>1 DEF Frames
<1>3. g.type = Top.type
  BY <1>1 DEF Frames
<1> HIDE DEF g
<1>4. \A f : f.type = Top.type /\ stack' = [stack EXCEPT ![Len(stack)] = f]
                => Nesting' = Nesting /\ Top'.type = Top.type
  BY NestingReplaced, Zenon
<1> QED
  BY <1>2, <1>3, <1>4, Zenon

LEMMA GrammarNewElement ==
    ASSUME JsonInv, GrammarInv, NewElement, ~ refused'
    PROVE  GrammarInv'
<1>1. /\ at = "element" /\ ~ refused /\ text' = text /\ stack # <<>>
      /\ stack \in Seq(Frames)
      /\ stack' = [stack EXCEPT ![Len(stack)].current = born + 1,
                       ![Len(stack)].head = IF @ = Null THEN born + 1 ELSE @]
      /\ IF Top.type = "Object"
         THEN at' = "name" /\ offset' = offset
         ELSE at' = "value" /\ offset' = Skip(offset + 1)
  BY TypesAre DEF NewElement, Attach, Refuse, buffer_vars, JsonInv, Progress
<1>2. /\ Within(Nesting) /\ TextOK /\ Nesting # <<>>
      /\ Nesting[Len(Nesting)] = Top.type /\ Len(stack) \in Nat
      /\ Len(Nesting) = Len(stack)
  BY <1>1, NestingIs
<1>3. ElementPoint(offset, Nesting)
  BY <1>1 DEF GrammarInv
<1>4. Top.type \in Containers
  <2>1. stack \in Seq(Frames) /\ stack # <<>>
    BY <1>1, Zenon
  <2>2. Top \in Frames
    BY <2>1, TopIs
  <2> QED
    BY <2>2 DEF Frames
<1>5. Nesting' = Nesting /\ Top'.type = Top.type
  <2>1. \A n : stack' = [stack EXCEPT ![Len(stack)].current = n,
                       ![Len(stack)].head = IF @ = Null THEN n ELSE @]
            => Nesting' = Nesting /\ Top'.type = Top.type
    BY <1>1, NestingAttaches
  <2> QED
    BY <1>1, <2>1, Zenon
<1>6. CASE Top.type = "Object"
  <2>1. at' = "name" /\ offset' = offset /\ Top'.type = "Object"
    BY <1>1, <1>5, <1>6
  <2> QED
    BY <1>1, <1>2, <1>3, <1>5, <2>1, ToElement
<1>7. CASE Top.type # "Object"
  <2>1. Top.type = "Array"
    BY <1>4, <1>7 DEF Containers
  <2>2. ValuePoint(Skip(offset + 1), Nesting)
    BY <1>2, <1>3, <2>1, ArrayRead
  <2>3. at' = "value" /\ offset' = Skip(offset + 1)
    BY <1>1, <1>7
  <2> QED
    BY <1>1, <1>2, <1>5, <2>2, <2>3, ToValue
<1> QED
  BY <1>6, <1>7

LEMMA AtName ==
    ASSUME JsonInv, GrammarInv, at = "name", ~ refused
    PROVE  /\ Within(Nesting) /\ TextOK /\ ElementPoint(offset, Nesting)
           /\ Nesting[Len(Nesting)] = "Object"
           /\ offset \in Nat /\ Length \in Nat
<1>1. stack # <<>> /\ Top.type = "Object" /\ ElementPoint(offset, Nesting)
  BY DEF GrammarInv, JsonInv, Progress
<1>2. offset \in Nat /\ Length \in Nat
  BY DEF JsonInv, TypeOK, Length
<1> QED
  BY <1>1, <1>2, NestingIs

LEMMA GrammarNoName ==
    ASSUME JsonInv, GrammarInv, NoName, ~ refused'
    PROVE  GrammarInv'
<1>1. /\ at = "name" /\ ~ refused /\ text' = text /\ at' = "fail"
      /\ NothingFollows \/ Char(Skip(offset + 1)) \notin Strings
  BY DEF NoName, buffer_vars
<1>2. /\ Within(Nesting) /\ TextOK /\ ElementPoint(offset, Nesting)
      /\ Nesting[Len(Nesting)] = "Object"
  BY <1>1, AtName
<1>3. NotAccepted
  BY <1>1, <1>2, NoNameRead DEF NothingFollows
<1> QED
  BY <1>1, <1>2, <1>3, ToFailure

LEMMA GrammarName ==
    ASSUME JsonInv, GrammarInv, Name, ~ refused'
    PROVE  GrammarInv'
<1> DEFINE name == Skip(offset + 1)
           colon == Skip(name + 1)
<1>1. /\ at = "name" /\ ~ refused /\ text' = text /\ stack' = stack
      /\ ~ NothingFollows /\ Char(name) \in Strings
      /\ \/ Char(colon) # ":" /\ at' = "fail"
         \/ /\ Char(colon) = ":" /\ at' = "value"
            /\ offset' = Skip(colon + 1)
  BY DEF Name, Refuse, buffer_vars
<1>2. /\ Within(Nesting) /\ TextOK /\ ElementPoint(offset, Nesting)
      /\ Nesting[Len(Nesting)] = "Object"
      /\ offset \in Nat /\ Length \in Nat
  BY <1>1, AtName
<1>3. offset + 1 < Length
  BY <1>1, <1>2 DEF NothingFollows
<1>4. CASE Char(colon) # ":" /\ at' = "fail"
  <2>1. NotAccepted
    BY <1>1, <1>2, <1>3, <1>4, NoColonRead
  <2> QED
    BY <1>1, <1>2, <1>4, <2>1, ToFailure
<1>5. CASE /\ Char(colon) = ":" /\ at' = "value"
           /\ offset' = Skip(colon + 1)
  <2>1. ValuePoint(Skip(colon + 1), Nesting)
    BY <1>1, <1>2, <1>3, <1>5, MemberRead
  <2>2. Nesting' = Nesting
    BY <1>1, NestingKept
  <2> QED
    BY <1>1, <1>2, <1>5, <2>1, <2>2, ToValue
<1> QED
  BY <1>1, <1>4, <1>5

LEMMA AtTrue ==
    ASSUME JsonInv, GrammarInv, at = "true", ~ refused
    PROVE  /\ Within(Nesting) /\ TextOK /\ TruePoint(offset, Nesting)
           /\ Nesting = <<>> <=> stack = <<>>
           /\ stack # <<>> => Nesting[Len(Nesting)] = Top.type
           /\ stack \in Seq(Frames)
<1>1. TruePoint(offset, Nesting)
  BY DEF GrammarInv
<1> QED
  BY <1>1, NestingIs, TypesAre DEF JsonInv

LEMMA GrammarClose ==
    ASSUME JsonInv, GrammarInv, Close, ~ refused'
    PROVE  GrammarInv'
<1>1. /\ at = "true" /\ stack # <<>> /\ ~ refused /\ text' = text
      /\ Char(Skip(offset)) = Closing[Top.type] /\ at' = "true"
      /\ stack' = Pop /\ offset' = Skip(offset) + 1
  BY DEF Close, buffer_vars
<1>2. /\ Within(Nesting) /\ TextOK /\ TruePoint(offset, Nesting)
      /\ Nesting # <<>> /\ Nesting[Len(Nesting)] = Top.type
      /\ stack \in Seq(Frames)
  BY <1>1, AtTrue
<1> DEFINE fewer == SubSeq(Nesting, 1, Len(Nesting) - 1)
<1>3. TruePoint(Skip(offset) + 1, fewer)
  BY <1>1, <1>2, CloseRead
<1>4. Nesting' = fewer
  BY <1>1, <1>2, NestingShrinks
<1> QED
  BY <1>1, <1>2, <1>3, <1>4, ToTrue

LEMMA GrammarAfterElement ==
    ASSUME JsonInv, GrammarInv, AfterElement, ~ refused'
    PROVE  GrammarInv'
<1>1. /\ at = "true" /\ stack # <<>> /\ ~ refused /\ text' = text
      /\ stack' = stack /\ offset' = Skip(offset)
      /\ \/ Char(Skip(offset)) = "," /\ at' = "element"
         \/ /\ Char(Skip(offset)) \notin {",", Closing[Top.type]}
            /\ at' = "fail"
  BY DEF AfterElement, buffer_vars
<1>2. /\ Within(Nesting) /\ TextOK /\ TruePoint(offset, Nesting)
      /\ Nesting # <<>> /\ Nesting[Len(Nesting)] = Top.type
  BY <1>1, AtTrue
<1>3. CASE Char(Skip(offset)) = "," /\ at' = "element"
  <2>1. ElementPoint(Skip(offset), Nesting)
    BY <1>2, <1>3, CommaRead
  <2>2. Nesting' = Nesting
    BY <1>1, NestingKept
  <2> QED
    BY <1>1, <1>2, <1>3, <2>1, <2>2, ToElement
<1>4. CASE /\ Char(Skip(offset)) \notin {",", Closing[Top.type]}
           /\ at' = "fail"
  <2>1. NotAccepted
    BY <1>2, <1>4, NeitherRead
  <2> QED
    BY <1>1, <1>2, <1>4, <2>1, ToFailure
<1> QED
  BY <1>1, <1>3, <1>4

LEMMA GrammarFail ==
    ASSUME JsonInv, GrammarInv, Fail, ~ refused'
    PROVE  GrammarInv'
<1>1. /\ at \in {"fail", "false"} /\ ~ refused /\ text' = text
      /\ at' = "false"
  BY DEF Fail, buffer_vars
<1>2. NotAccepted /\ TextOK
  BY <1>1, NestingIs DEF GrammarInv
<1> QED
  BY <1>1, <1>2, ToFailure

LEMMA GrammarAccept ==
    ASSUME JsonInv, GrammarInv, Accept, ~ refused'
    PROVE  GrammarInv'
<1>1. /\ at = "true" /\ stack = <<>> /\ ~ refused /\ text' = text
      /\ require_null_terminated => Char(Skip(offset)) = "NUL"
      /\ require_null_terminated' = require_null_terminated
      /\ at' = "accepted"
  BY DEF Accept, buffer_vars
<1>2. /\ Within(Nesting) /\ TextOK /\ TruePoint(offset, Nesting)
      /\ Nesting = <<>>
  BY <1>1, AtTrue
<1>3. ~ NotAccepted /\ (OnlyNul <=> Char(Skip(offset)) = "NUL")
  BY <1>2, EndRead
<1>4. (NotAccepted' <=> NotAccepted) /\ (OnlyNul' <=> OnlyNul)
  BY <1>1, <1>2, PointsKept
<1> QED
  BY <1>1, <1>3, <1>4 DEF GrammarInv

LEMMA GrammarReject ==
    ASSUME JsonInv, GrammarInv, Reject, ~ refused'
    PROVE  GrammarInv'
<1>1. /\ stack = <<>> /\ ~ refused /\ text' = text
      /\ \/ at = "false"
         \/ /\ at = "true" /\ require_null_terminated
            /\ Char(Skip(offset)) # "NUL"
      /\ require_null_terminated' = require_null_terminated
      /\ at' = "rejected"
  BY DEF Reject, buffer_vars
<1>2. TextOK
  BY NestingIs
<1>3. CASE at = "false"
  <2>1. NotAccepted
    BY <1>1, <1>3 DEF GrammarInv
  <2> QED
    BY <1>1, <1>2, <2>1, ToFailure
<1>4. CASE /\ at = "true" /\ require_null_terminated
           /\ Char(Skip(offset)) # "NUL"
  <2>1. /\ Within(Nesting) /\ TruePoint(offset, Nesting)
        /\ Nesting = <<>>
    BY <1>1, <1>4, AtTrue
  <2>2. ~ OnlyNul
    BY <1>4, <2>1, EndRead
  <2>3. OnlyNul' <=> OnlyNul
    BY <1>1, <1>2, PointsKept
  <2> QED
    BY <1>1, <1>4, <2>2, <2>3 DEF GrammarInv
<1> QED
  BY <1>1, <1>3, <1>4

LEMMA GrammarStep ==
    ASSUME JsonInv, GrammarInv, [Next]_vars
    PROVE  GrammarInv'
<1> SUFFICES ASSUME ~ refused'
             PROVE  GrammarInv'
  BY DEF GrammarInv
<1>1. CASE Start
  BY <1>1, GrammarStart
<1>2. CASE ParseLiteral \/ ParseNumber \/ ParseString
  BY <1>2, GrammarScalar
<1>3. CASE NoValue
  BY <1>3, GrammarNoValue
<1>4. CASE \E type \in Containers : ParseContainer(type)
  BY <1>4, GrammarContainer
<1>5. CASE NewElement
  BY <1>5, GrammarNewElement
<1>6. CASE NoName
  BY <1>6, GrammarNoName
<1>7. CASE Name
  BY <1>7, GrammarName
<1>8. CASE Close
  BY <1>8, GrammarClose
<1>9. CASE AfterElement
  BY <1>9, GrammarAfterElement
<1>10. CASE Fail
  BY <1>10, GrammarFail
<1>11. CASE Accept
  BY <1>11, GrammarAccept
<1>12. CASE Reject
  BY <1>12, GrammarReject
<1>13. CASE Categorize \/ CategorizeFailure
  <2>1. at' = "deleted"
    BY <1>13 DEF Categorize, CategorizeFailure
  <2> QED
    BY <2>1 DEF GrammarInv
<1>14. CASE Ended \/ UNCHANGED vars
  <2>1. /\ text' = text /\ stack' = stack /\ offset' = offset
        /\ at' = at /\ refused' = refused
        /\ require_null_terminated' = require_null_terminated
    BY <1>14 DEF Ended, vars, buffer_vars
  <2>2. TextOK
    BY NestingIs
  <2>3. Nesting' = Nesting /\ Top' = Top
    BY <2>1, NestingKept
  <2>4. /\ ValuePoint(offset, Nesting)' <=> ValuePoint(offset, Nesting)
        /\ TruePoint(offset, Nesting)' <=> TruePoint(offset, Nesting)
        /\ ElementPoint(offset, Nesting)' <=> ElementPoint(offset, Nesting)
    BY <2>1, <2>2, <2>3, PointsKept
  <2>5. /\ NotAccepted' <=> NotAccepted
        /\ OnlyNul' <=> OnlyNul
    BY <2>1, <2>2, PointsKept
  <2> QED
    BY <2>1, <2>3, <2>4, <2>5 DEF GrammarInv
<1> QED
  BY <1>1, <1>2, <1>3, <1>4, <1>5, <1>6, <1>7, <1>8, <1>9, <1>10, <1>11,
     <1>12, <1>13, <1>14 DEF Next

(* If memory does not run out, the parser accepts of all texts of whatever *)
(* length exactly those that begin with a value of the grammar that is     *)
(* nested no deeper than the limit, and, if the NUL is asked for, have     *)
(* nothing but blanks up to it: the loops of parse_array and parse_object, *)
(* which skip blanks, step back and go on, are the rules of JSON.          *)
THEOREM JsonAcceptsTheGrammar == Spec => []AcceptsTheGrammar
<1>1. Init => GrammarInv
  BY DEF Init, GrammarInv
<1>2. JsonInv /\ GrammarInv /\ [Next]_vars => GrammarInv'
  BY GrammarStep
<1>3. JsonInv /\ GrammarInv => AcceptsTheGrammar
  BY DEF GrammarInv, AcceptsTheGrammar, NotAccepted, OnlyNul
<1> QED
  BY <1>1, <1>2, <1>3, JsonInvariant, PTL DEF Spec
-----------------------------------------------------------------------------
(***************************************************************************)
(* The category.  The members of the object at the top level are linked in *)
(* the order in which their names stand in the text.                       *)
(***************************************************************************)
(* A name of such a member: a colon follows, and one bracket is open.      *)
TopName(o) ==
    /\ o \in 0 .. Length - 1 /\ Char(o) \in Strings
    /\ Depth(o) = 1 /\ Char(Dark(0)) = "{" /\ Char(Dark(o + 1)) = ":"

(* Where the value that belongs to a name begins.                          *)
ValueOf(o) == Dark(Dark(o + 1) + 1)

(* p has the k names whose colons stand before pos.                        *)
Covers(k, p, pos) ==
    /\ k \in Nat /\ p \in [1 .. k -> 0 .. Length - 1]
    /\ \A i \in 1 .. k : TopName(p[i]) /\ Dark(p[i] + 1) < pos
    /\ \A i, j \in 1 .. k : i < j => p[i] < p[j]
    /\ \A o : TopName(o) /\ Dark(o + 1) < pos
                  => \E i \in 1 .. k : p[i] = o

NoColons(from, to) == \A c \in from .. to - 1 : Char(c) # ":"

LEMMA TopNameIs ==
    ASSUME TextOK, NEW o, TopName(o)
    PROVE  /\ o \in Nat /\ o + 1 \in Nat /\ Dark(o + 1) \in Nat
           /\ o < Dark(o + 1) /\ Dark(o + 1) < Length
           /\ Char(Dark(o + 1)) = ":" /\ Length \in Nat
<1>1. Length \in Nat /\ o \in Nat /\ o + 1 \in Nat /\ o < Length
  <2>1. Length \in Nat
    BY DEF TextOK, Length
  <2>2. o \in 0 .. Length - 1
    BY Zenon DEF TopName
  <2> QED
    BY <2>1, <2>2
<1> DEFINE d == Dark(o + 1)
<1>2. DarkAt(d, o + 1)
  BY <1>1, DarkIs
<1>3. Char(d) = ":"
  BY DEF TopName
<1>4. d # Length
  <2>1. Char(Length) # ":"
    BY DarkEnd
  <2> QED
    BY <1>3, <2>1
<1> HIDE DEF d
<1>5. d \in Nat /\ o < d /\ d < Length
  BY <1>1, <1>2, <1>4 DEF DarkAt
<1> QED
  BY <1>1, <1>3, <1>5 DEF d

LEMMA CoversNone ==
    ASSUME TextOK, NEW pos \in Nat, NoColons(0, pos), NEW p
    PROVE  Covers(0, [i \in 1 .. 0 |-> p], pos)
<1>1. 1 .. 0 = {}
  OBVIOUS
<1>2. ASSUME NEW o, TopName(o), Dark(o + 1) < pos PROVE FALSE
  <2>1. Dark(o + 1) \in Nat /\ Char(Dark(o + 1)) = ":"
    BY <1>2, TopNameIs
  <2>2. Dark(o + 1) \in 0 .. pos - 1
    BY <1>2, <2>1
  <2> QED
    BY <2>1, <2>2 DEF NoColons
<1> QED
  BY <1>1, <1>2 DEF Covers

LEMMA CoversOn ==
    ASSUME TextOK, NEW k, NEW p, NEW pos \in Nat, NEW to \in Nat,
           Covers(k, p, pos), pos <= to, NoColons(pos, to)
    PROVE  Covers(k, p, to)
<1>1. \A i \in 1 .. k : Dark(p[i] + 1) < to
  <2> TAKE i \in 1 .. k
  <2>1. TopName(p[i]) /\ Dark(p[i] + 1) < pos
    BY DEF Covers
  <2>2. Dark(p[i] + 1) \in Nat
    BY <2>1, TopNameIs
  <2> QED
    BY <2>1, <2>2
<1>2. ASSUME NEW o, TopName(o), Dark(o + 1) < to
      PROVE  Dark(o + 1) < pos
  <2>1. Dark(o + 1) \in Nat /\ Char(Dark(o + 1)) = ":"
    BY <1>2, TopNameIs
  <2>2. Dark(o + 1) \notin pos .. to - 1
    BY <2>1 DEF NoColons
  <2> QED
    BY <1>2, <2>1, <2>2
<1> QED
  BY <1>1, <1>2 DEF Covers

(* Blanks are no colons.                                                   *)
LEMMA NoColonsSkipped ==
    ASSUME TextOK, NEW o \in 0 .. Length
    PROVE  NoColons(o, Skip(o))
<1>1. Length \in Nat /\ o \in Nat
  BY DEF TextOK, Length
<1>2. Skip(o) \in 0 .. Length /\ o <= Skip(o) /\ Skip(o) <= Dark(o)
  BY SkipDark
<1>3. DarkAt(Dark(o), o) /\ Dark(o) \in Nat
  BY <1>1, DarkIs DEF DarkAt
<1>4. ASSUME NEW q \in o .. Skip(o) - 1
      PROVE  Char(q) # ":"
  <2>1. q \in o .. Length - 1 /\ q < Dark(o)
    BY <1>1, <1>2, <1>3
  <2>2. Char(q) \in Blanks
    BY <1>3, <2>1 DEF DarkAt
  <2> QED
    BY <2>2 DEF Blanks
<1> QED
  BY <1>4 DEF NoColons

LEMMA NoColonsFrom ==
    ASSUME NEW from \in Nat, NEW to \in Nat, Char(from) # ":",
           NoColons(from + 1, to)
    PROVE  NoColons(from, to)
<1>1. \A c \in from .. to - 1 : c = from \/ c \in from + 1 .. to - 1
  OBVIOUS
<1> QED
  BY <1>1 DEF NoColons

LEMMA NoColonsTo ==
    ASSUME NEW from \in Nat, NEW to \in Nat, Char(to) # ":",
           NoColons(from, to)
    PROVE  NoColons(from, to + 1)
<1>1. \A c \in from .. (to + 1) - 1 : c = to \/ c \in from .. to - 1
  OBVIOUS
<1> QED
  BY <1>1 DEF NoColons

(* A name and its colon are read.                                          *)
LEMMA CoversName ==
    ASSUME TextOK, NEW k, NEW p, NEW pos \in 0 .. Length,
           Covers(k, p, pos), NEW name, name = Skip(pos),
           Char(name) \in Strings,
           NEW colon, colon = Skip(name + 1), Char(colon) = ":",
           NEW more, more[k + 1] = name,
           more = [i \in 1 .. k + 1 |-> more[i]],
           \A i \in 1 .. k : more[i] = p[i]
    PROVE  /\ TopName(name) => Covers(k + 1, more, Skip(colon + 1))
           /\ ~ TopName(name) => Covers(k, p, Skip(colon + 1))
<1>1. Length \in Nat /\ pos \in Nat /\ k \in Nat
  BY DEF TextOK, Length, Covers
<1>2. /\ Char(name) \notin Blanks \cup {"outside"} /\ Char(name) # ":"
      /\ ":" \notin Blanks \cup {"outside"}
  BY DEF Strings, Blanks
<1>3. /\ name = Dark(pos) /\ name < Length /\ name \in Nat
      /\ pos <= name /\ NoColons(pos, name)
  BY <1>1, <1>2, SkipFinds, SkipDark, NoColonsSkipped
<1>4. name + 1 \in 0 .. Length
  BY <1>1, <1>3
<1>5. /\ colon = Dark(name + 1) /\ colon < Length /\ colon \in Nat
      /\ name + 1 <= colon /\ NoColons(name + 1, colon)
  BY <1>1, <1>2, <1>4, SkipFinds, SkipDark, NoColonsSkipped
<1>6. colon + 1 \in 0 .. Length
  BY <1>1, <1>5
<1> DEFINE to == Skip(colon + 1)
<1>7. /\ to \in Nat /\ colon + 1 <= to /\ NoColons(colon + 1, to)
  BY <1>1, <1>6, SkipDark, NoColonsSkipped
<1> HIDE DEF to
(* The only colon is the one behind the name.                              *)
<1>8. ASSUME NEW o, TopName(o), Dark(o + 1) < to
      PROVE  Dark(o + 1) < pos \/ o = name
  <2> DEFINE d == Dark(o + 1)
  <2>1. /\ o \in Nat /\ o + 1 \in Nat /\ d \in Nat /\ o < d
        /\ d < Length /\ Char(d) = ":"
    BY <1>8, TopNameIs
  <2>2. DarkAt(d, o + 1)
    BY <2>1, DarkIs
  <2>3. Char(o) \notin Blanks
    BY <1>8 DEF TopName, Strings, Blanks
  <2> HIDE DEF d
  <2>4. d < pos \/ d = colon
    <3>1. d \notin pos .. name - 1 /\ d # name
          /\ d \notin name + 1 .. colon - 1 /\ d \notin colon + 1 .. to - 1
      BY <1>2, <1>3, <1>5, <1>7, <2>1 DEF NoColons
    <3>2. d < to
      BY <1>8 DEF d
    <3> QED
      BY <1>1, <1>3, <1>5, <1>7, <2>1, <3>1, <3>2
  <2>5. ASSUME d = colon PROVE o = name
    <3>1. ~ (o < name)
      <4>1. ASSUME o < name PROVE FALSE
        <5>1. name \in o + 1 .. Length - 1 /\ name < d
          BY <1>1, <1>3, <1>5, <2>1, <2>5, <4>1
        <5>2. Char(name) \in Blanks
          BY <2>2, <5>1 DEF DarkAt
        <5> QED
          BY <1>2, <5>2
      <4> QED
        BY <4>1
    <3>2. ~ (name < o)
      <4>1. ASSUME name < o PROVE FALSE
        <5>1. o \in name + 1 .. Length - 1 /\ o < colon
          BY <1>1, <1>3, <1>5, <2>1, <2>5, <4>1
        <5>2. name + 1 \in Nat
          BY <1>3
        <5>3. DarkAt(colon, name + 1)
          BY <1>5, <5>2, DarkIs
        <5>4. Char(o) \in Blanks
          BY <5>1, <5>3 DEF DarkAt
        <5> QED
          BY <2>3, <5>4
      <4> QED
        BY <4>1
    <3> QED
      BY <1>3, <2>1, <3>1, <3>2
  <2> QED
    BY <2>4, <2>5 DEF d
<1>9. \A i \in 1 .. k : /\ TopName(p[i]) /\ Dark(p[i] + 1) < to
                        /\ p[i] < name
  <2> TAKE i \in 1 .. k
  <2>1. TopName(p[i]) /\ Dark(p[i] + 1) < pos
    BY DEF Covers
  <2>2. p[i] \in Nat /\ Dark(p[i] + 1) \in Nat /\ p[i] < Dark(p[i] + 1)
    BY <2>1, TopNameIs
  <2> QED
    BY <1>1, <1>3, <1>5, <1>7, <2>1, <2>2
<1>10. CASE TopName(name)
  <2>1. name \in 0 .. Length - 1 /\ Dark(name + 1) < to
    BY <1>1, <1>3, <1>5, <1>7
  <2>2. /\ k + 1 \in Nat /\ \A i \in 1 .. k + 1 : i = k + 1 \/ i \in 1 .. k
        /\ \A i \in 1 .. k : i \in 1 .. k + 1 /\ i # k + 1
        /\ k + 1 \in 1 .. k + 1
        /\ \A i, j \in 1 .. k + 1 : i < j => i \in 1 .. k
    BY <1>1
  <2>3. /\ \A i \in 1 .. k : more[i] = p[i]
        /\ more[k + 1] = name
    OBVIOUS
  <2>4. more \in [1 .. k + 1 -> 0 .. Length - 1]
    <3>1. \A i \in 1 .. k + 1 : more[i] \in 0 .. Length - 1
      BY <2>1, <2>2, <2>3 DEF Covers
    <3> QED
      BY <3>1
  <2>5. \A i \in 1 .. k + 1 : TopName(more[i]) /\ Dark(more[i] + 1) < to
    BY <1>9, <1>10, <2>1, <2>2, <2>3
  <2>6. ASSUME NEW i \in 1 .. k + 1, NEW j \in 1 .. k + 1, i < j
        PROVE  more[i] < more[j]
    <3>1. i \in 1 .. k /\ more[i] = p[i]
      BY <2>2, <2>3, <2>6
    <3>2. CASE j = k + 1
      BY <1>9, <2>3, <3>1, <3>2
    <3>3. CASE j \in 1 .. k
      <4>1. p[i] < p[j]
        BY <2>6, <3>1, <3>3 DEF Covers
      <4> QED
        BY <2>3, <3>1, <3>3, <4>1
    <3> QED
      BY <2>2, <3>2, <3>3
  <2>7. ASSUME NEW o, TopName(o), Dark(o + 1) < to
        PROVE  \E i \in 1 .. k + 1 : more[i] = o
    <3>1. CASE o = name
      BY <2>2, <2>3, <3>1
    <3>2. CASE Dark(o + 1) < pos
      <4>1. PICK i \in 1 .. k : p[i] = o
        BY <2>7, <3>2 DEF Covers
      <4> QED
        BY <2>2, <2>3, <4>1
    <3> QED
      BY <1>8, <2>7, <3>1, <3>2
  <2> QED
    BY <1>10, <2>2, <2>4, <2>5, <2>6, <2>7 DEF Covers, to
<1>11. CASE ~ TopName(name)
  BY <1>8, <1>9, <1>11 DEF Covers, to
<1> QED
  BY <1>10, <1>11
-----------------------------------------------------------------------------
(***************************************************************************)
(* The list of the items at the top level, which the first call builds and *)
(* the root takes over.                                                    *)
(***************************************************************************)
ListHead == IF stack = <<>> THEN heap[Root].child ELSE stack[1].head

Listed(n, q) ==
    /\ n \in Nat /\ q \in [1 .. n -> 1 .. born]
    /\ \A i \in 1 .. n : /\ heap[q[i]].next = IF i = n THEN Null ELSE q[i + 1]
                         /\ i # n => q[i] < q[n]
    /\ ListHead = IF n = 0 THEN Null ELSE q[1]
    /\ stack # <<>> => stack[1].current = IF n = 0 THEN Null ELSE q[n]

(* What the consumer looks for.                                            *)
IsCommit(m) == heap[m].type = "String" /\ heap[m].valuestring = "commit"

(* The last item of the list gets its name, or its value.                  *)
Naming == at = "name" /\ Len(stack) = 1
Valuing == at = "value" /\ Len(stack) = 1

NamedOf(n) == IF Naming THEN n - 1 ELSE n

(* How far the text is read.                                               *)
Pos == IF at = "accepted" THEN ValueEnd
       ELSE IF at \in {"element", "name"} THEN offset + 1 ELSE offset

Mates(n, q, p) ==
    \A i \in 1 .. NamedOf(n) :
        /\ heap[q[i]].string = Char(p[i])
        /\ Valuing /\ i = n => Dark(offset) = ValueOf(p[i])
        /\ ~ (Valuing /\ i = n) =>
               (IsCommit(q[i]) <=> Char(ValueOf(p[i])) = "commit")

InObject == Char(Dark(0)) = "{"

TopOK(n, q, p) ==
    /\ Listed(n, q)
    /\ InObject => Covers(NamedOf(n), p, Pos) /\ Mates(n, q, p)
    /\ ~ InObject => \A i \in 1 .. n : heap[q[i]].string = Absent

(* The calls are for items without a value, the first one for the root.    *)
Outermost ==
    /\ stack # <<>> => /\ stack[1].item = Root
                       /\ Char(Dark(0)) = Opening[stack[1].type]
    /\ \A j \in DOMAIN stack : heap[stack[j].item].valuestring = Absent
    /\ stack = <<>> /\ at = "value" =>
           item = Root /\ Dark(offset) = Dark(0)

LEMMA TextOnly ==
    ASSUME TextOK, text' = text
    PROVE  /\ ValueEnd' = ValueEnd /\ (InObject' <=> InObject)
           /\ \A o : /\ TopName(o)' <=> TopName(o)
                     /\ ValueOf(o)' = ValueOf(o)
                     /\ Char(o)' = Char(o) /\ Dark(o)' = Dark(o)
           /\ \A k, p, pos : Covers(k, p, pos)' <=> Covers(k, p, pos)
<1>1. /\ Length' = Length /\ Grammar' = Grammar
      /\ \A o : Char(o)' = Char(o) /\ Dark(o)' = Dark(o)
  BY TextKept, GrammarKept
<1>2. ValueEnd' = ValueEnd /\ (InObject' <=> InObject)
  BY <1>1 DEF ValueEnd, InObject
<1>3. \A o : Depth(o)' = Depth(o)
  <2>1. \A S, o : Brackets(S, o)' = Brackets(S, o)
    BY <1>1 DEF Brackets
  <2> QED
    BY <2>1 DEF Depth
<1>4. \A o : TopName(o)' <=> TopName(o)
  BY <1>1, <1>3 DEF TopName
<1>5. \A o : ValueOf(o)' = ValueOf(o)
  BY <1>1 DEF ValueOf
<1>6. \A k, p, pos : Covers(k, p, pos)' <=> Covers(k, p, pos)
  BY <1>1, <1>4 DEF Covers
<1> QED
  BY <1>1, <1>2, <1>4, <1>5, <1>6

LEMMA ListKept ==
    ASSUME JsonInv, NEW n, NEW q, Listed(n, q), ListHead' = ListHead,
           born' \in Nat, born <= born',
           stack' # <<>> =>
               stack'[1].current = IF n = 0 THEN Null ELSE q[n],
           \A i \in 1 .. n : heap'[q[i]].next = heap[q[i]].next
    PROVE  Listed(n, q)'
<1>1. born \in Nat
  BY DEF JsonInv, TypeOK
<1>2. q \in [1 .. n -> 1 .. born']
  BY <1>1 DEF Listed
<1> QED
  BY <1>2 DEF Listed

(* Where the item at hand is in that list, if it is.                       *)
LEMMA ItemPlace ==
    ASSUME JsonInv, at \in {"value", "name"}, NEW n, NEW q, Listed(n, q)
    PROVE  /\ Len(stack) \in Nat /\ n \in Nat /\ item \in Ids
           /\ at = "value" /\ stack = <<>> => n = 0 \/ item # Root
           /\ Len(stack) = 1 => n # 0 /\ n \in 1 .. n /\ q[n] = item
           /\ \A i \in 1 .. n : q[i] = item /\ stack # <<>> =>
                                    Len(stack) = 1 /\ i = n
           /\ \A i \in 1 .. n : q[i] \in Ids
           /\ \A j \in DOMAIN stack : stack[j].item # item
                                      /\ stack[j].item \in Ids
<1>1. /\ stack \in Seq(Frames) /\ born \in Nat /\ HeapOK /\ item = born
      /\ item \in Ids /\ heap[item].child = Null
      /\ 1 .. born \subseteq Ids /\ Null \notin Ids /\ Ids \subseteq Nat
      /\ stack # <<>> => Top.current = item
      /\ Live \subseteq 1 .. born
  BY TypesAre, BornWithin, LiveIsWithin
     DEF JsonInv, ItemOK, TypeOK, Live, Ids, Null
<1>2. n \in Nat /\ \A i \in 1 .. n : q[i] \in 1 .. born
  BY DEF Listed
<1>3. Len(stack) \in Nat /\ DOMAIN stack = 1 .. Len(stack)
  BY <1>1
<1>4. at = "value" /\ stack = <<>> => n = 0 \/ item # Root
  BY <1>1, <1>2 DEF Listed, ListHead
<1>5. stack = <<>> \/ Len(stack) # 0
  BY <1>1
<1>6. ASSUME NEW j \in DOMAIN stack
      PROVE  /\ stack[j].item \in Ids /\ stack[j].item < item
             /\ j # Len(stack) => stack[j].current < item
             /\ stack[j].current \in Nat
  <2> DEFINE t == Len(stack)
  <2>1. t \in DOMAIN stack /\ Top = stack[t] /\ j <= t /\ j \in Nat
    BY <1>3 DEF Top
  <2>2. /\ CallOK(stack[j]) /\ CallOK(stack[t])
        /\ j < t => /\ stack[j].head # Null
                    /\ stack[j].current <= stack[t].item
    BY <2>1 DEF JsonInv, CallsOK
  <2>3. stack[j] \in Frames /\ stack[t] \in Frames
    BY <1>1, <2>1
  <2>4. /\ stack[j].item \in Nat /\ stack[j].head \in Nat
        /\ stack[j].current \in Nat /\ stack[j].item \in Ids
        /\ stack[t].item \in Nat /\ stack[t].head \in Nat
        /\ stack[t].current = item
    <3>1. ASSUME NEW f \in Frames
          PROVE  /\ f.item \in Nat /\ f.head \in Nat
                 /\ f.current \in Nat /\ f.item \in Ids
      <4>1. /\ f.item \in Ids /\ f.head \in Ids \cup {Null}
            /\ f.current \in Ids \cup {Null}
        BY DEF Frames
      <4>2. Null \in Nat /\ Ids \subseteq Nat
        BY DEF Null, Ids
      <4> QED
        BY <4>1, <4>2
    <3>2. stack # <<>>
      BY <1>3
    <3> QED
      BY <1>1, <2>1, <2>3, <3>1, <3>2
  <2>5. stack[t].item < stack[t].head /\ stack[t].head <= item
    <3>1. stack[t].head # Null
      BY <1>1, <2>2, <2>4 DEF CallOK
    <3> QED
      BY <2>2, <2>4, <3>1 DEF CallOK
  <2>6. stack[t].item < item
    BY <1>1, <2>4, <2>5
  <2>7. CASE j = t
    BY <2>4, <2>6, <2>7
  <2>8. CASE j < t
    <3>1. stack[j].item < stack[j].head /\ stack[j].head <= stack[j].current
      BY <2>2, <2>8 DEF CallOK
    <3>2. stack[j].current < item
      BY <1>1, <2>2, <2>4, <2>6, <2>8
    <3> QED
      BY <1>1, <2>4, <3>1, <3>2
  <2> QED
    BY <1>3, <2>1, <2>7, <2>8
<1>7. ASSUME Len(stack) = 1
      PROVE  n # 0 /\ n \in 1 .. n /\ q[n] = item
  <2>1. stack # <<>> /\ stack[1].current = item
    BY <1>1, <1>7 DEF Top
  <2>2. n # 0 /\ q[n] = item
    BY <1>1, <2>1 DEF Listed
  <2> QED
    BY <1>2, <2>2
<1>8. ASSUME NEW i \in 1 .. n, q[i] = item, stack # <<>>
      PROVE  Len(stack) = 1 /\ i = n
  <2>1. 1 \in DOMAIN stack /\ n # 0
    BY <1>2, <1>3, <1>5, <1>8
  <2>2. stack[1].current = q[n] /\ (i # n => q[i] < q[n])
    BY <1>8, <2>1 DEF Listed
  <2>3. q[n] \in 1 .. born
    BY <1>2, <2>1
  <2>4. i = n
    BY <1>1, <1>8, <2>2, <2>3
  <2>5. ~ (stack[1].current < item)
    BY <1>1, <1>8, <2>2, <2>4
  <2> QED
    BY <1>3, <1>6, <2>1, <2>4, <2>5
<1>9. \A j \in DOMAIN stack : stack[j].item # item /\ stack[j].item \in Ids
  <2> TAKE j \in DOMAIN stack
  <2>1. stack[j].item \in Ids /\ stack[j].item < item
    BY <1>6
  <2> QED
    BY <1>1, <2>1
<1> QED
  BY <1>1, <1>2, <1>3, <1>4, <1>7, <1>8, <1>9

(* Other items than those of the list change, or only its last one does.   *)
LEMMA TopKept ==
    ASSUME JsonInv, text' = text, NEW n, NEW q, NEW p, TopOK(n, q, p),
           Listed(n, q)', NEW to, Pos' = to,
           NamedOf(n)' = NamedOf(n), ~ Valuing',
           InObject => Covers(NamedOf(n), p, to),
           \A i \in 1 .. n : heap'[q[i]].string = heap[q[i]].string,
           InObject => \A i \in 1 .. n :
               IF Valuing /\ i = n
               THEN IsCommit(q[i])' <=> Char(Dark(offset)) = "commit"
               ELSE IsCommit(q[i])' <=> IsCommit(q[i])
    PROVE  TopOK(n, q, p)'
<1>1. TextOK /\ n \in Nat
  BY NestingIs DEF TopOK, Listed
<1>2. /\ InObject' <=> InObject
      /\ \A o : ValueOf(o)' = ValueOf(o) /\ Char(o)' = Char(o)
      /\ \A k, pos : Covers(k, p, pos)' <=> Covers(k, p, pos)
  BY <1>1, TextOnly
<1>3. \A i \in 1 .. NamedOf(n) : i \in 1 .. n
  BY <1>1 DEF NamedOf
<1>4. CASE InObject
  <2>1. Covers(NamedOf(n), p, Pos)'
    BY <1>2, <1>4
  <2>2. ASSUME NEW i \in 1 .. NamedOf(n)
        PROVE  /\ heap'[q[i]].string = Char(p[i])
               /\ IsCommit(q[i])' <=> Char(ValueOf(p[i])) = "commit"
    <3>1. /\ heap[q[i]].string = Char(p[i])
          /\ Valuing /\ i = n => Dark(offset) = ValueOf(p[i])
          /\ ~ (Valuing /\ i = n) =>
                 (IsCommit(q[i]) <=> Char(ValueOf(p[i])) = "commit")
      BY <1>4 DEF TopOK, Mates
    <3>2. IF Valuing /\ i = n
          THEN IsCommit(q[i])' <=> Char(Dark(offset)) = "commit"
          ELSE IsCommit(q[i])' <=> IsCommit(q[i])
      BY <1>3, <1>4
    <3>3. heap'[q[i]].string = heap[q[i]].string
      BY <1>3
    <3>4. CASE Valuing /\ i = n
      BY <3>1, <3>2, <3>3, <3>4
    <3>5. CASE ~ (Valuing /\ i = n)
      BY <3>1, <3>2, <3>3, <3>5
    <3> QED
      BY <3>4, <3>5
  <2>3. Mates(n, q, p)'
    BY <1>2, <2>2 DEF Mates
  <2> QED
    BY <1>2, <1>4, <2>1, <2>3 DEF TopOK
<1>5. CASE ~ InObject
  BY <1>2, <1>5 DEF TopOK
<1> QED
  BY <1>4, <1>5

(* A value is read into the item at hand.                                  *)
LEMMA TopFilled ==
    ASSUME JsonInv, Outermost, at = "value", text' = text,
           NEW n, NEW q, NEW p, TopOK(n, q, p),
           stack' = stack, born' = born, at' = "true",
           heap' \in [Ids -> Items],
           \A m \in Ids \ {item} : heap'[m] = heap[m],
           heap'[item].next = heap[item].next, heap'[item].child = Null,
           heap'[item].string = heap[item].string,
           (heap'[item].type = "String" /\ heap'[item].valuestring = "commit")
               <=> Char(Dark(offset)) = "commit",
           offset' \in Nat, offset <= offset', NoColons(offset, offset')
    PROVE  Outermost' /\ TopOK(n, q, p)'
<1>1. /\ Len(stack) \in Nat /\ n \in Nat /\ item \in Ids
      /\ Len(stack) = 1 => n # 0 /\ n \in 1 .. n /\ q[n] = item
      /\ \A i \in 1 .. n : q[i] = item /\ stack # <<>> =>
                               Len(stack) = 1 /\ i = n
      /\ \A i \in 1 .. n : q[i] \in Ids
      /\ \A j \in DOMAIN stack : stack[j].item # item
                                 /\ stack[j].item \in Ids
  BY ItemPlace DEF TopOK
<1>2. /\ TextOK /\ offset \in Nat /\ born \in Nat
      /\ heap[item].child = Null /\ stack \in Seq(Frames)
  BY NestingIs, TypesAre DEF JsonInv, TypeOK, ItemOK
<1>3. Listed(n, q) /\ (stack = <<>> => item = Root /\ n = 0)
  <2>1. Listed(n, q)
    BY DEF TopOK
  <2>2. stack = <<>> => item = Root
    BY DEF Outermost
  <2> QED
    BY <2>1, <2>2, ItemPlace
<1>4. ListHead' = ListHead
  BY <1>2, <1>3 DEF ListHead
<1>5. \A i \in 1 .. n : /\ heap'[q[i]].next = heap[q[i]].next
                        /\ heap'[q[i]].string = heap[q[i]].string
  <2> TAKE i \in 1 .. n
  <2>1. CASE q[i] = item
    BY <2>1
  <2>2. CASE q[i] # item
    BY <1>1, <2>2
  <2> QED
    BY <2>1, <2>2
<1>6. Listed(n, q)'
  <2>1. stack' # <<>> => stack'[1].current = IF n = 0 THEN Null ELSE q[n]
    BY <1>3 DEF Listed
  <2> QED
    BY <1>2, <1>3, <1>4, <1>5, <2>1, ListKept
<1>7. Pos' = offset' /\ Pos = offset
  BY DEF Pos
<1>8. /\ NamedOf(n)' = n /\ NamedOf(n) = n /\ ~ Valuing'
      /\ Valuing <=> Len(stack) = 1
  BY DEF NamedOf, Naming, Valuing
<1>9. InObject => Covers(NamedOf(n), p, offset')
  <2>1. InObject => Covers(NamedOf(n), p, offset)
    BY <1>7 DEF TopOK
  <2> QED
    BY <1>2, <2>1, CoversOn
<1>10. ASSUME NEW i \in 1 .. n
       PROVE  IF Valuing /\ i = n
              THEN IsCommit(q[i])' <=> Char(Dark(offset)) = "commit"
              ELSE IsCommit(q[i])' <=> IsCommit(q[i])
  <2>1. CASE Valuing /\ i = n
    <3>1. q[i] = item
      BY <1>1, <1>8, <2>1
    <3>2. IsCommit(q[i])' <=> Char(Dark(offset)) = "commit"
      BY <3>1 DEF IsCommit
    <3> QED
      BY <2>1, <3>2
  <2>2. CASE ~ (Valuing /\ i = n)
    <3>1. stack # <<>>
      BY <1>3
    <3>2. q[i] # item /\ q[i] \in Ids
      BY <1>1, <1>8, <2>2, <3>1
    <3>3. heap'[q[i]] = heap[q[i]]
      BY <3>2
    <3> QED
      BY <2>2, <3>3 DEF IsCommit
  <2> QED
    BY <2>1, <2>2
<1>11. TopOK(n, q, p)'
  <2>1. NamedOf(n)' = NamedOf(n)
    BY <1>8
  <2> QED
    BY <1>5, <1>6, <1>7, <1>8, <1>9, <1>10, <2>1, TopKept
<1>12. Outermost'
  <2>1. \A j \in DOMAIN stack' :
            heap'[stack'[j].item].valuestring = Absent
    BY <1>1 DEF Outermost
  <2>2. stack' # <<>> => /\ stack'[1].item = Root
                         /\ Char(Dark(0))' = Opening[stack'[1].type]
    BY <1>2, TextOnly DEF Outermost
  <2> QED
    BY <2>1, <2>2 DEF Outermost
<1> QED
  BY <1>11, <1>12

LEMMA CategoryScalar ==
    ASSUME JsonInv, GrammarInv, Outermost,
           ParseLiteral \/ ParseNumber \/ ParseString, ~ refused',
           NEW n, NEW q, NEW p, TopOK(n, q, p)
    PROVE  Outermost' /\ TopOK(n, q, p)'
<1>1. /\ at = "value" /\ Char(offset) \in Scalars
      /\ offset' = offset + 1 /\ at' = "true" /\ stack' = stack
      /\ text' = text /\ born' = born
  BY DEF ParseLiteral, ParseNumber, ParseString, Refuse, buffer_vars, Scalars
<1>2. /\ TextOK /\ offset \in Nat /\ HeapOK
      /\ item \in Ids /\ heap[item].child = Null
      /\ heap[item].valuestring = Absent
  BY <1>1, NestingIs, TypesAre DEF JsonInv, TypeOK, ItemOK, Live
<1>3. Dark(offset) = offset
  <2>1. Char(offset) \notin Blanks \cup {"outside"}
    BY <1>1 DEF Scalars, Strings, Blanks
  <2> QED
    BY <1>2, <2>1, DarkHere
<1>4. heap \in [Ids -> Items] /\ heap[item] \in Items
  BY <1>2 DEF HeapOK
<1>5. \/ /\ Char(offset) = "null"
         /\ heap' = [heap EXCEPT ![item].type = "NULL"]
      \/ /\ Char(offset) = "1"
         /\ heap' = [heap EXCEPT ![item].type = "Number"]
      \/ /\ Char(offset) \in Strings
         /\ heap' = [heap EXCEPT ![item].type = "String",
                                 ![item].valuestring = Char(offset)]
  BY DEF ParseLiteral, ParseNumber, ParseString, Refuse
<1>6. /\ heap' \in [Ids -> Items]
      /\ \A m \in Ids \ {item} : heap'[m] = heap[m]
      /\ heap'[item].next = heap[item].next
      /\ heap'[item].child = heap[item].child
      /\ heap'[item].string = heap[item].string
      /\ (heap'[item].type = "String" /\ heap'[item].valuestring = "commit")
             <=> Char(offset) = "commit"
  <2>1. CASE /\ Char(offset) = "null"
             /\ heap' = [heap EXCEPT ![item].type = "NULL"]
    BY <1>2, <1>4, <2>1 DEF Items
  <2>2. CASE /\ Char(offset) = "1"
             /\ heap' = [heap EXCEPT ![item].type = "Number"]
    BY <1>2, <1>4, <2>2 DEF Items
  <2>3. CASE /\ Char(offset) \in Strings
             /\ heap' = [heap EXCEPT ![item].type = "String",
                                     ![item].valuestring = Char(offset)]
    BY <1>2, <1>4, <2>3 DEF Items
  <2> QED
    BY <1>5, <2>1, <2>2, <2>3
<1>7. offset' \in Nat /\ offset <= offset'
  BY <1>1, <1>2
<1>8. NoColons(offset, offset')
  <2>1. Char(offset) # ":"
    BY <1>1 DEF Scalars, Strings
  <2>2. NoColons(offset, offset)
    BY <1>2 DEF NoColons
  <2> QED
    BY <1>1, <1>2, <2>1, <2>2, NoColonsTo
<1>9. heap'[item].child = Null
  BY <1>2, <1>6
<1>10. (heap'[item].type = "String" /\ heap'[item].valuestring = "commit")
           <=> Char(Dark(offset)) = "commit"
  BY <1>3, <1>6
<1> QED
  BY <1>1, <1>6, <1>7, <1>8, <1>9, <1>10, TopFilled

LEMMA CategoryEmpty ==
    ASSUME JsonInv, Outermost, NEW type \in Containers,
           at = "value", Char(offset) = Opening[type],
           Char(Skip(offset + 1)) = Closing[type],
           heap' = [heap EXCEPT ![item].type = type, ![item].child = Null],
           offset' = Skip(offset + 1) + 1, at' = "true",
           stack' = stack, born' = born, text' = text,
           NEW n, NEW q, NEW p, TopOK(n, q, p)
    PROVE  Outermost' /\ TopOK(n, q, p)'
<1>1. /\ TextOK /\ offset \in Nat /\ HeapOK /\ offset \in 0 .. Length
      /\ item \in Ids /\ heap[item].child = Null
      /\ heap[item].valuestring = Absent /\ Length \in Nat
  BY NestingIs, TypesAre DEF JsonInv, TypeOK, ItemOK, Live, Length
<1>2. Dark(offset) = offset /\ offset + 1 \in 0 .. Length
  BY <1>1, ContainerAt
<1>3. heap \in [Ids -> Items] /\ heap[item] \in Items
  BY <1>1 DEF HeapOK
<1>4. /\ heap' \in [Ids -> Items]
      /\ \A m \in Ids \ {item} : heap'[m] = heap[m]
      /\ heap'[item].next = heap[item].next
      /\ heap'[item].child = Null
      /\ heap'[item].string = heap[item].string
      /\ heap'[item].type # "String"
  <2>1. type # "String" /\ type \in Containers
    BY DEF Containers
  <2>2. Null \in Ids \cup {Null}
    OBVIOUS
  <2> QED
    BY <1>1, <1>3, <2>1, <2>2 DEF Items
<1>5. Char(offset) \in {"[", "{"} /\ Char(Skip(offset + 1)) \in {"]", "}"}
  BY BracketsAre
<1>6. Char(Dark(offset)) # "commit"
  BY <1>2, <1>5
<1>7. /\ Skip(offset + 1) \in Nat /\ offset' \in Nat
      /\ offset <= offset' /\ offset + 1 <= Skip(offset + 1)
  BY <1>1, <1>2, SkipDark
<1>8. NoColons(offset, offset')
  <2> DEFINE first == Skip(offset + 1)
  <2>1. NoColons(offset + 1, first)
    BY <1>1, <1>2, NoColonsSkipped
  <2>2. Char(offset) # ":" /\ Char(first) # ":"
    BY <1>5
  <2>3. first \in Nat /\ offset \in Nat /\ offset' = first + 1
    BY <1>1, <1>7
  <2> HIDE DEF first
  <2>4. NoColons(offset, first)
    BY <2>1, <2>2, <2>3, NoColonsFrom
  <2>5. NoColons(offset, first + 1)
    BY <2>2, <2>3, <2>4, NoColonsTo
  <2> QED
    BY <2>3, <2>5
<1>9. (heap'[item].type = "String" /\ heap'[item].valuestring = "commit")
           <=> Char(Dark(offset)) = "commit"
  BY <1>4, <1>6
<1> QED
  BY <1>4, <1>7, <1>8, <1>9, TopFilled

(* An array or object is entered.                                          *)
LEMMA CategoryOpen ==
    ASSUME JsonInv, Outermost, NEW type \in Containers,
           at = "value", Char(offset) = Opening[type],
           NEW f, f.item = item, f.type = type, f.head = Null,
           f.current = Null,
           stack' = Append(stack, f), heap' = heap, born' = born,
           offset' = Skip(offset + 1) - 1, at' = "element", text' = text,
           NEW n, NEW q, NEW p, TopOK(n, q, p)
    PROVE  Outermost' /\ TopOK(n, q, p)'
<1>1. /\ TextOK /\ offset \in Nat /\ offset \in 0 .. Length
      /\ item \in Ids /\ heap[item].child = Null
      /\ heap[item].valuestring = Absent /\ born \in Nat
      /\ stack \in Seq(Frames) /\ Len(stack) \in Nat /\ Length \in Nat
  BY NestingIs, TypesAre DEF JsonInv, TypeOK, ItemOK, Live, Length
<1>2. Dark(offset) = offset /\ offset + 1 \in 0 .. Length
  BY <1>1, ContainerAt
<1>3. Char(Dark(offset)) = Opening[type] /\ Char(Dark(offset)) \in {"[", "{"}
  BY <1>2, BracketsAre
<1>4. /\ Listed(n, q) /\ n \in Nat
      /\ Len(stack) = 1 => n # 0 /\ n \in 1 .. n /\ q[n] = item
      /\ \A j \in DOMAIN stack : stack[j].item \in Ids
      /\ stack = <<>> => n = 0 /\ item = Root
                         /\ Dark(offset) = Dark(0)
  <2>1. Listed(n, q)
    BY DEF TopOK
  <2>2. stack = <<>> => item = Root /\ Dark(offset) = Dark(0)
    BY DEF Outermost
  <2> QED
    BY <2>1, <2>2, ItemPlace
<1>5. /\ Len(stack') = Len(stack) + 1 /\ stack' # <<>>
      /\ \A j \in DOMAIN stack : stack'[j] = stack[j]
      /\ stack'[Len(stack) + 1] = f
      /\ DOMAIN stack' = DOMAIN stack \cup {Len(stack) + 1}
      /\ stack # <<>> => 1 \in DOMAIN stack
  BY <1>1
<1>6. stack'[1] = IF stack = <<>> THEN f ELSE stack[1]
  <2>1. CASE stack = <<>>
    BY <1>1, <1>5, <2>1
  <2>2. CASE stack # <<>>
    BY <1>5, <2>2
  <2> QED
    BY <2>1, <2>2
<1>7. ListHead' = ListHead
  BY <1>1, <1>4, <1>5, <1>6 DEF ListHead
<1>8. Listed(n, q)'
  <2>1. stack'[1].current = IF n = 0 THEN Null ELSE q[n]
    BY <1>4, <1>6 DEF Listed
  <2> QED
    BY <1>1, <1>4, <1>7, <2>1, ListKept
<1>9. /\ Skip(offset + 1) \in Nat /\ offset + 1 <= Skip(offset + 1)
      /\ Pos' = Skip(offset + 1) /\ Pos = offset
  BY <1>1, <1>2, SkipDark DEF Pos
<1>10. /\ NamedOf(n)' = n /\ NamedOf(n) = n /\ ~ Valuing'
       /\ Valuing <=> Len(stack) = 1
  BY DEF NamedOf, Naming, Valuing
<1>11. InObject => Covers(NamedOf(n), p, Skip(offset + 1))
  <2> DEFINE first == Skip(offset + 1)
  <2>1. InObject => Covers(NamedOf(n), p, offset)
    BY <1>9 DEF TopOK
  <2>2. NoColons(offset + 1, first)
    BY <1>1, <1>2, NoColonsSkipped
  <2>3. Char(offset) # ":"
    BY BracketsAre
  <2>4. offset <= first /\ first \in Nat
    BY <1>1, <1>9
  <2> HIDE DEF first
  <2>5. NoColons(offset, first)
    BY <1>1, <2>2, <2>3, <2>4, NoColonsFrom
  <2>6. InObject => Covers(NamedOf(n), p, first)
    BY <1>1, <2>1, <2>4, <2>5, CoversOn
  <2> QED
    BY <2>6 DEF first
<1>12. ASSUME NEW i \in 1 .. n
       PROVE  IF Valuing /\ i = n
              THEN IsCommit(q[i])' <=> Char(Dark(offset)) = "commit"
              ELSE IsCommit(q[i])' <=> IsCommit(q[i])
  <2>1. IsCommit(q[i])' <=> IsCommit(q[i])
    BY DEF IsCommit
  <2>2. CASE Valuing /\ i = n
    <3>1. heap[q[i]].valuestring = Absent
      BY <1>1, <1>4, <1>10, <2>2
    <3>2. ~ IsCommit(q[i])
      BY <3>1 DEF IsCommit, Absent
    <3>3. Char(Dark(offset)) # "commit"
      BY <1>3
    <3> QED
      BY <2>1, <2>2, <3>2, <3>3
  <2> QED
    BY <2>1, <2>2
<1>13. TopOK(n, q, p)'
  <2>1. NamedOf(n)' = NamedOf(n)
    BY <1>10
  <2> QED
    BY <1>8, <1>9, <1>10, <1>11, <1>12, <2>1, TopKept
<1>14. Outermost'
  <2>1. \A j \in DOMAIN stack' :
            heap'[stack'[j].item].valuestring = Absent
    BY <1>1, <1>5 DEF Outermost
  <2>2. /\ stack'[1].item = Root
        /\ Char(Dark(0)) = Opening[stack'[1].type]
    BY <1>3, <1>4, <1>6 DEF Outermost
  <2>3. Char(Dark(0))' = Char(Dark(0))
    BY <1>1, TextOnly
  <2> QED
    BY <1>5, <2>1, <2>2, <2>3 DEF Outermost
<1> QED
  BY <1>13, <1>14

(* The end of an array or object with elements.                            *)
LEMMA CategoryClose ==
    ASSUME JsonInv, Outermost, Close,
           NEW n, NEW q, NEW p, TopOK(n, q, p)
    PROVE  Outermost' /\ TopOK(n, q, p)'
<1> DEFINE d == Skip(offset)
           t == Len(stack)
<1>1. /\ at = "true" /\ stack # <<>> /\ text' = text
      /\ Char(d) = Closing[Top.type] /\ at' = "true"
      /\ stack' = Pop /\ offset' = d + 1 /\ born' = born
      /\ heap' = [heap EXCEPT ![Top.head].prev = Top.current,
                              ![Top.item].type = Top.type,
                              ![Top.item].child = Top.head]
  BY DEF Close, buffer_vars
<1>2. /\ TextOK /\ offset \in Nat /\ offset \in 0 .. Length
      /\ stack \in Seq(Frames) /\ born \in Nat
      /\ heap \in [Ids -> Items] /\ 1 .. born \subseteq Ids
  BY NestingIs, TypesAre, BornWithin DEF JsonInv, TypeOK, HeapOK, Items, Ids
<1>3. Closed(Top.head, Top.current, Top.item, t)
  BY CloseDoes
<1>4. /\ Top.item \in Ids /\ Top = stack[t] /\ t \in DOMAIN stack
      /\ \A m \in Ids :
             /\ heap'[m].next = heap[m].next
             /\ heap'[m].string = heap[m].string
             /\ heap'[m].valuestring = heap[m].valuestring
             /\ heap'[m].child = IF m = Top.item THEN Top.head
                                 ELSE heap[m].child
  BY <1>1, <1>2, <1>3, TopIs DEF Closed, Live, Top
<1>5. \A m \in Ids : m # Top.item => heap'[m].type = heap[m].type
  BY <1>1, <1>2 DEF Items
<1>6. /\ t \in Nat /\ t # 0 /\ Len(stack') = t - 1 /\ DOMAIN stack = 1 .. t
      /\ DOMAIN stack' = 1 .. t - 1
      /\ \A j \in DOMAIN stack' : stack'[j] = stack[j] /\ j \in DOMAIN stack
      /\ stack' \in Seq(Frames)
  BY <1>1, <1>2, PopIs
<1>7. Listed(n, q) /\ n \in Nat /\ \A i \in 1 .. n : q[i] \in Ids
  BY <1>2 DEF TopOK, Listed
<1>8. ListHead' = ListHead
  <2>1. CASE t = 1
    <3>1. stack' = <<>> /\ Top = stack[1] /\ Top.item = Root
      BY <1>1, <1>4, <1>6, <2>1 DEF Outermost
    <3>2. Root \in Ids
      BY <1>4, <3>1
    <3> QED
      BY <1>1, <1>4, <3>1, <3>2 DEF ListHead
  <2>2. CASE t # 1
    <3>1. 1 \in DOMAIN stack' /\ stack' # <<>>
      BY <1>6, <2>2
    <3> QED
      BY <1>1, <1>6, <3>1 DEF ListHead
  <2> QED
    BY <2>1, <2>2
<1>9. Listed(n, q)'
  <2>1. stack' # <<>> => stack'[1].current = IF n = 0 THEN Null ELSE q[n]
    <3>1. ASSUME stack' # <<>> PROVE 1 \in DOMAIN stack'
      BY <1>6, <3>1
    <3> QED
      BY <1>1, <1>6, <1>7, <3>1 DEF Listed
  <2>2. \A i \in 1 .. n : heap'[q[i]].next = heap[q[i]].next
    BY <1>4, <1>7
  <2>3. born' \in Nat /\ born <= born'
    <3>1. born' = born
      BY <1>1, Zenon
    <3> QED
      BY <1>2, <3>1
  <2> QED
    BY <1>7, <1>8, <2>1, <2>2, <2>3, ListKept
<1>10. Pos' = d + 1 /\ Pos = offset /\ d \in Nat /\ offset <= d
  BY <1>1, <1>2, SkipDark DEF Pos
<1>11. NamedOf(n)' = NamedOf(n) /\ ~ Valuing' /\ ~ Valuing
  BY <1>1 DEF NamedOf, Naming, Valuing
<1>12. InObject => Covers(NamedOf(n), p, d + 1)
  <2>1. InObject => Covers(NamedOf(n), p, offset)
    BY <1>10 DEF TopOK
  <2>2. NoColons(offset, d)
    BY <1>2, NoColonsSkipped
  <2>3. Char(d) # ":"
    <3>1. Top.type \in Containers
      <4>1. stack \in Seq(Frames) /\ stack # <<>>
        BY <1>1, <1>2, Zenon
      <4>2. Top \in Frames
        BY <4>1, TopIs
      <4> QED
        BY <4>2 DEF Frames
    <3> QED
      BY <1>1, <3>1, BracketsAre
  <2> HIDE DEF d
  <2>4. NoColons(offset, d + 1)
    BY <1>2, <1>10, <2>2, <2>3, NoColonsTo
  <2>5. d + 1 \in Nat /\ offset <= d + 1
    BY <1>2, <1>10
  <2> QED
    BY <1>2, <2>1, <2>4, <2>5, CoversOn
<1>13. ASSUME NEW i \in 1 .. n
       PROVE  /\ heap'[q[i]].string = heap[q[i]].string
              /\ IsCommit(q[i])' <=> IsCommit(q[i])
  <2>1. q[i] \in Ids
    BY <1>7
  <2>2. CASE q[i] # Top.item
    BY <1>4, <1>5, <2>1, <2>2 DEF IsCommit
  <2>3. CASE q[i] = Top.item
    <3>1. heap[q[i]].valuestring = Absent
      BY <1>4, <2>3 DEF Outermost
    <3>2. heap'[q[i]].valuestring = Absent
      BY <1>4, <2>1, <3>1
    <3> QED
      BY <1>4, <2>1, <3>1, <3>2 DEF IsCommit, Absent
  <2> QED
    BY <2>2, <2>3
<1> HIDE DEF d, t
<1>14. TopOK(n, q, p)'
  BY <1>1, <1>9, <1>10, <1>11, <1>12, <1>13, TopKept
<1>15. Outermost'
  <2>1. ASSUME NEW j \in DOMAIN stack'
        PROVE  heap'[stack'[j].item].valuestring = Absent
    <3>1. /\ stack'[j] = stack[j] /\ j \in DOMAIN stack
          /\ stack'[j] \in Frames
      BY <1>6
    <3>2. stack[j].item \in Ids
      BY <3>1 DEF Frames
    <3> QED
      BY <1>4, <3>1, <3>2 DEF Outermost
  <2>2. stack' # <<>> => /\ stack'[1].item = Root
                         /\ Char(Dark(0)) = Opening[stack'[1].type]
    <3>1. ASSUME stack' # <<>> PROVE 1 \in DOMAIN stack'
      BY <1>6, <3>1
    <3> QED
      BY <1>1, <1>6, <3>1 DEF Outermost
  <2>3. Char(Dark(0))' = Char(Dark(0))
    BY <1>1, <1>2, TextOnly
  <2> QED
    BY <1>1, <2>1, <2>2, <2>3 DEF Outermost
<1> QED
  BY <1>14, <1>15

(* Outside the first call the list of the top level is left alone.         *)
LEMMA DeeperCall ==
    ASSUME JsonInv, stack # <<>>, Len(stack) # 1, NEW n, NEW q,
           Listed(n, q)
    PROVE  \A i \in 1 .. n : q[i] # Top.current
<1>1. /\ stack \in Seq(Frames) /\ stack # <<>> /\ born \in Nat
      /\ 1 .. born \subseteq Ids
  <2>1. stack \in Seq(Frames) /\ HeapOK
    BY TypesAre DEF JsonInv
  <2> QED
    BY <2>1, BornWithin
<1>2. /\ Len(stack) \in DOMAIN stack /\ DOMAIN stack = 1 .. Len(stack)
      /\ Len(stack) \in Nat /\ Top \in Frames /\ CallOK(Top)
  BY <1>1, TopIs DEF JsonInv, CallsOK, Top
<1>3. 1 \in DOMAIN stack /\ 1 # Len(stack)
  BY <1>2
<1>4. /\ stack[1].current <= Top.item /\ stack[1].head # Null
      /\ stack[1].current \in Nat /\ Top.item \in Nat
  BY <1>1, <1>3, CallsAscend
<1>5. Top.current \in Nat /\ Top.head \in Nat
  BY <1>2 DEF Frames, Ids, Null
<1>6. n \in Nat /\ \A i \in 1 .. n : q[i] \in 1 .. born
  BY DEF Listed
<1>7. CASE Top.head = Null
  <2>1. Top.current = 0
    BY <1>2, <1>7 DEF CallOK, Null
  <2> QED
    BY <1>6, <2>1
<1>8. CASE Top.head # Null
  <2>1. Top.item < Top.head /\ Top.head <= Top.current
    BY <1>2, <1>8 DEF CallOK
  <2>2. stack[1].current < Top.current
    BY <1>4, <1>5, <2>1
  <2> TAKE i \in 1 .. n
  <2>3. n # 0 /\ n \in 1 .. n /\ q[n] \in 1 .. born /\ q[i] \in 1 .. born
    BY <1>6
  <2>4. stack[1].current = q[n] /\ (i # n => q[i] < q[n])
    BY <1>1, <2>3 DEF Listed
  <2>5. q[i] \in Nat /\ q[n] \in Nat
    BY <1>1, <2>3
  <2> QED
    BY <1>5, <2>2, <2>4, <2>5
<1> QED
  BY <1>7, <1>8

(* One more index.                                                         *)
LEMMA OneMore ==
    ASSUME NEW n \in Nat
    PROVE  /\ \A i \in 1 .. n + 1 : i = n + 1 \/ i \in 1 .. n
           /\ \A i \in 1 .. n : i # n + 1 /\ i \in 1 .. n + 1 /\ n # 0
           /\ \A i \in 1 .. n : i # n => i + 1 \in 1 .. n
           /\ n + 1 \in 1 .. n + 1 /\ n + 1 # 0 /\ n + 1 \in Nat
           /\ n # 0 => 1 \in 1 .. n /\ n \in 1 .. n
           /\ n = 0 => n + 1 = 1
<1>1. \A i \in 1 .. n : i # n => i + 1 \in 1 .. n
  OBVIOUS
<1>2. \A i \in 1 .. n + 1 : i = n + 1 \/ i \in 1 .. n
  OBVIOUS
<1> QED
  BY <1>1, <1>2

(* The first call links a new item behind the list.                        *)
LEMMA ListGrows ==
    ASSUME JsonInv, Len(stack) = 1, Attached(born + 1, Len(stack)),
           NEW n, NEW q, Listed(n, q), NEW more \in [1 .. n + 1 -> Ids],
           more[n + 1] = born + 1, \A i \in 1 .. n : more[i] = q[i]
    PROVE  Listed(n + 1, more)'
<1>1. /\ born \in Nat /\ HeapOK /\ 1 .. born \subseteq Ids
      /\ stack # <<>> /\ stack' # <<>>
  <2>1. born \in Nat /\ HeapOK /\ 1 .. born \subseteq Ids
    BY TypesAre, BornWithin DEF JsonInv
  <2>2. Len(stack') = 1 /\ Len(<<>>) = 0 /\ 0 # 1
    BY DEF Attached
  <2> QED
    BY <2>1, <2>2
<1>2. /\ n \in Nat /\ \A i \in 1 .. n : q[i] \in 1 .. born
      /\ \A i \in 1 .. n : heap[q[i]].next = IF i = n THEN Null
                                             ELSE q[i + 1]
      /\ \A i \in 1 .. n : i # n => q[i] < q[n]
      /\ ListHead = IF n = 0 THEN Null ELSE q[1]
      /\ stack[1].current = IF n = 0 THEN Null ELSE q[n]
  BY <1>1 DEF Listed
<1>3. /\ born' = born + 1 /\ born + 1 \in Ids
      /\ heap'[born + 1].next = Null
      /\ \A m \in Ids \ {born + 1} :
             heap'[m].next = IF m = stack[1].current THEN born + 1
                             ELSE heap[m].next
      /\ stack'[1].current = born + 1
      /\ stack'[1].head = IF stack[1].head = Null THEN born + 1
                          ELSE stack[1].head
  <2>1. Top = stack[1]
    BY DEF Top
  <2> QED
    BY <2>1 DEF Attached, Blank, Free
<1>4. /\ \A i \in 1 .. n + 1 : i = n + 1 \/ i \in 1 .. n
      /\ \A i \in 1 .. n : i # n + 1 /\ i \in 1 .. n + 1 /\ n # 0
      /\ \A i \in 1 .. n : i # n => i + 1 \in 1 .. n
      /\ n + 1 \in 1 .. n + 1 /\ n + 1 # 0 /\ n + 1 \in Nat
      /\ n # 0 => 1 \in 1 .. n /\ n \in 1 .. n
      /\ n = 0 => n + 1 = 1
  BY <1>2, OneMore
<1>5. \A i \in 1 .. n : /\ q[i] \in Ids \ {born + 1} /\ q[i] < born + 1
                        /\ q[i] \in 1 .. born + 1 /\ q[i] \in Nat
  <2> TAKE i \in 1 .. n
  <2>1. q[i] \in 1 .. born
    BY <1>2
  <2>2. /\ q[i] < born + 1 /\ q[i] \in 1 .. born + 1 /\ q[i] \in Nat
        /\ q[i] # born + 1
    BY <1>1, <2>1
  <2> QED
    BY <1>1, <2>1, <2>2
<1>6. more \in [1 .. n + 1 -> 1 .. born']
  <2>1. ASSUME NEW i \in 1 .. n + 1
        PROVE  more[i] \in 1 .. born + 1
    <3>1. born + 1 \in 1 .. born + 1
      BY <1>1
    <3>2. CASE i = n + 1
      BY <3>1, <3>2
    <3>3. CASE i \in 1 .. n
      BY <1>5, <3>3
    <3> QED
      BY <1>4, <3>2, <3>3
  <2> QED
    BY <1>3, <2>1
<1>7. ASSUME NEW i \in 1 .. n
      PROVE  /\ heap'[more[i]].next = more[i + 1]
             /\ more[i] < more[n + 1]
  <2>1. more[i] = q[i] /\ more[i] < more[n + 1]
    BY <1>5
  <2>2. stack[1].current = q[n]
    BY <1>2, <1>4
  <2>3. CASE i = n
    <3>1. heap'[q[i]].next = born + 1
      BY <1>3, <1>5, <2>2, <2>3
    <3> QED
      BY <2>1, <2>3, <3>1
  <2>4. CASE i # n
    <3>1. q[i] # q[n]
      <4>1. q[i] < q[n] /\ n \in 1 .. n
        BY <1>2, <1>4, <2>4
      <4> QED
        BY <1>5, <4>1
    <3>2. heap'[q[i]].next = heap[q[i]].next
      BY <1>3, <1>5, <2>2, <3>1
    <3>3. heap[q[i]].next = q[i + 1] /\ i + 1 \in 1 .. n
      BY <1>2, <1>4, <2>4
    <3> QED
      BY <2>1, <3>2, <3>3
  <2> QED
    BY <2>1, <2>3, <2>4
<1>8. heap'[more[n + 1]].next = Null
  BY <1>3
<1>9. \A i \in 1 .. n + 1 :
          /\ heap'[more[i]].next = IF i = n + 1 THEN Null ELSE more[i + 1]
          /\ i # n + 1 => more[i] < more[n + 1]
  BY <1>4, <1>7, <1>8
<1>10. ListHead' = IF n + 1 = 0 THEN Null ELSE more[1]
  <2>1. ListHead = stack[1].head /\ ListHead' = stack'[1].head
    BY <1>1 DEF ListHead
  <2>2. CASE n = 0
    <3>1. ListHead' = born + 1
      BY <1>2, <1>3, <2>1, <2>2
    <3> QED
      BY <1>4, <2>2, <3>1
  <2>3. CASE n # 0
    <3>1. q[1] # Null /\ more[1] = q[1]
      BY <1>4, <1>5, <1>2, <2>3 DEF Null
    <3> QED
      BY <1>2, <1>3, <1>4, <2>1, <2>3, <3>1
  <2> QED
    BY <2>2, <2>3
<1>11. stack'[1].current = IF n + 1 = 0 THEN Null ELSE more[n + 1]
  BY <1>3, <1>4
<1> QED
  BY <1>4, <1>6, <1>9, <1>10, <1>11 DEF Listed

(* The next element or member.                                             *)
LEMMA ElementStep ==
    ASSUME JsonInv, Outermost, NewElement, ~ refused'
    PROVE  /\ at = "element" /\ text' = text /\ TextOK /\ stack # <<>>
           /\ stack \in Seq(Frames) /\ Attached(born + 1, Len(stack))
           /\ Len(stack) \in Nat \ {0} /\ 1 \in DOMAIN stack
           /\ stack'[1].item = stack[1].item
           /\ stack'[1].type = stack[1].type
           /\ \A j \in DOMAIN stack' : stack'[j].item = stack[j].item
           /\ DOMAIN stack' = DOMAIN stack
           /\ IF Top.type = "Object"
              THEN at' = "name" /\ offset' = offset
              ELSE at' = "value" /\ offset' = Skip(offset + 1)
           /\ offset + 1 \in 0 .. Length /\ born \in Nat
<1>1. /\ at = "element" /\ text' = text
      /\ stack' = [stack EXCEPT ![Len(stack)].current = born + 1,
                       ![Len(stack)].head = IF @ = Null THEN born + 1 ELSE @]
      /\ IF Top.type = "Object"
         THEN at' = "name" /\ offset' = offset
         ELSE at' = "value" /\ offset' = Skip(offset + 1)
      /\ born' = born + 1 /\ Attach(born + 1)
  BY DEF NewElement, Attach, Refuse, buffer_vars
<1>2. /\ stack \in Seq(Frames) /\ stack # <<>> /\ TextOK
      /\ offset \in 0 .. Length /\ offset < Length /\ born \in Nat
  BY <1>1, TypesAre, NestingIs DEF JsonInv, Progress, TypeOK
<1>3. Attached(born + 1, Len(stack))
  BY <1>1, AttachDoes
<1>4. Len(stack) \in Nat \ {0} /\ 1 \in DOMAIN stack
      /\ DOMAIN stack = 1 .. Len(stack) /\ Len(stack) \in DOMAIN stack
  BY <1>2, TopIs
<1>5. Nesting' = Nesting
  <2>1. \A m : stack' = [stack EXCEPT ![Len(stack)].current = m,
                       ![Len(stack)].head = IF @ = Null THEN m ELSE @]
            => Nesting' = Nesting /\ Top'.type = Top.type
    BY <1>2, NestingAttaches
  <2> QED
    BY <1>1, <2>1, Zenon
<1>6. stack'[1].type = stack[1].type
  <2>1. 1 \in 1 .. Len(stack) /\ Len(stack') = Len(stack)
    BY <1>3, <1>4 DEF Attached
  <2>2. Nesting[1] = stack[1].type
    BY <2>1 DEF Nesting
  <2>3. Nesting'[1] = stack'[1].type
    BY <2>1 DEF Nesting
  <2> QED
    BY <1>5, <2>2, <2>3
<1>7. /\ \A j \in DOMAIN stack' : stack'[j].item = stack[j].item
      /\ DOMAIN stack' = DOMAIN stack
  BY <1>3 DEF Attached
<1>8. offset + 1 \in 0 .. Length
  <2>1. Length \in Nat
    BY <1>2 DEF TextOK, Length
  <2> QED
    BY <1>2, <2>1
<1> QED
  BY <1>1, <1>2, <1>3, <1>4, <1>6, <1>7, <1>8

LEMMA OpeningsAre ==
    ASSUME NEW type \in Containers
    PROVE  Opening[type] = "{" <=> type = "Object"
<1>1. CASE type = "Array"
  BY <1>1 DEF Opening
<1>2. CASE type = "Object"
  BY <1>2 DEF Opening
<1> QED
  BY <1>1, <1>2 DEF Containers

LEMMA CategoryNewElement ==
    ASSUME JsonInv, Outermost, NewElement, ~ refused',
           NEW n, NEW q, NEW p, TopOK(n, q, p)
    PROVE  Outermost' /\ \E m, r : TopOK(m, r, p)'
<1> DEFINE b == born + 1
           t == Len(stack)
<1>1. /\ at = "element" /\ text' = text /\ TextOK /\ stack # <<>>
      /\ stack \in Seq(Frames) /\ Attached(b, t)
      /\ t \in Nat \ {0} /\ 1 \in DOMAIN stack
      /\ stack'[1].item = stack[1].item
      /\ stack'[1].type = stack[1].type
      /\ \A j \in DOMAIN stack' : stack'[j].item = stack[j].item
      /\ DOMAIN stack' = DOMAIN stack
      /\ offset + 1 \in 0 .. Length /\ born \in Nat
  BY ElementStep
<1>2. IF Top.type = "Object"
      THEN at' = "name" /\ offset' = offset
      ELSE at' = "value" /\ offset' = Skip(offset + 1)
  BY ElementStep
<1>3. /\ Listed(n, q) /\ n \in Nat /\ 1 .. born \subseteq Ids
      /\ \A i \in 1 .. n : q[i] \in Ids \ {b}
  <2>1. Listed(n, q) /\ 1 .. born \subseteq Ids
    BY TypesAre, BornWithin DEF TopOK, JsonInv
  <2>2. n \in Nat /\ \A i \in 1 .. n : q[i] \in 1 .. born
    BY <2>1 DEF Listed
  <2>3. \A x \in 1 .. born : x # b
    BY <1>1
  <2> QED
    BY <2>1, <2>2, <2>3
<1>4. /\ \A m \in Ids \ {b} :
             /\ heap'[m].type = heap[m].type
             /\ heap'[m].string = heap[m].string
             /\ heap'[m].valuestring = heap[m].valuestring
             /\ m # Top.current => heap'[m] = heap[m]
      /\ heap'[b].string = Absent /\ born' = b
      /\ Len(stack') = t /\ b \notin Live /\ Top = stack[t]
  BY <1>1 DEF Attached, Blank, Free
<1>5. \A i \in 1 .. n : /\ heap'[q[i]].string = heap[q[i]].string
                        /\ IsCommit(q[i])' <=> IsCommit(q[i])
  BY <1>3, <1>4 DEF IsCommit
<1>6. Outermost'
  <2>1. ASSUME NEW j \in DOMAIN stack'
        PROVE  heap'[stack'[j].item].valuestring = Absent
    <3>1. j \in DOMAIN stack /\ stack'[j].item = stack[j].item
      BY <1>1
    <3>2. stack[j].item \in Live
      BY <3>1 DEF JsonInv, CallsOK, CallOK
    <3>3. stack[j].item \in Ids \ {b}
      BY <1>4, <3>2 DEF Live
    <3> QED
      BY <1>4, <3>1, <3>3 DEF Outermost
  <2>2. /\ stack'[1].item = Root
        /\ Char(Dark(0)) = Opening[stack'[1].type]
    BY <1>1 DEF Outermost
  <2>3. Char(Dark(0))' = Char(Dark(0))
    BY <1>1, TextOnly
  <2>4. stack' # <<>>
    BY <1>1
  <2> QED
    BY <2>1, <2>2, <2>3, <2>4 DEF Outermost
<1>7. CASE t # 1
  <2>1. \A i \in 1 .. n : q[i] # Top.current
    <3>1. stack # <<>> /\ Len(stack) # 1
      BY <1>1, <1>7
    <3> QED
      BY <1>3, <3>1, DeeperCall
  <2>2. \A i \in 1 .. n : heap'[q[i]].next = heap[q[i]].next
    <3>1. \A i \in 1 .. n : heap'[q[i]] = heap[q[i]]
      BY <1>3, <1>4, <2>1
    <3> QED
      BY <3>1
  <2>3. stack'[1] = stack[1] /\ stack' # <<>>
    BY <1>1, <1>7 DEF Attached
  <2>4. ListHead' = ListHead
    BY <1>1, <2>3 DEF ListHead
  <2>5. born' \in Nat /\ born <= born'
    <3>1. born' = born + 1 /\ born \in Nat
      BY <1>1, <1>4
    <3> QED
      BY <3>1
  <2>6. stack'[1].current = IF n = 0 THEN Null ELSE q[n]
    BY <1>1, <1>3, <2>3 DEF Listed
  <2>7. Listed(n, q)'
    BY <1>3, <2>2, <2>4, <2>5, <2>6, ListKept
  <2>8. /\ NamedOf(n)' = n /\ NamedOf(n) = n /\ ~ Valuing' /\ ~ Valuing
        /\ NamedOf(n)' = NamedOf(n)
    BY <1>1, <1>4, <1>7 DEF NamedOf, Naming, Valuing
  <2>9. InObject => Covers(n, p, offset + 1)
    <3>1. Pos = offset + 1
      BY <1>1 DEF Pos
    <3> QED
      BY <2>8, <3>1 DEF TopOK
  <2>10. CASE at' = "name" /\ offset' = offset
    <3>1. Pos' = offset + 1
      BY <2>10 DEF Pos
    <3> QED
      BY <1>1, <1>5, <1>6, <2>7, <2>8, <2>9, <3>1, TopKept
  <2>11. CASE at' = "value" /\ offset' = Skip(offset + 1)
    <3>1. Pos' = Skip(offset + 1)
      BY <2>11 DEF Pos
    <3>2. /\ NoColons(offset + 1, Skip(offset + 1))
          /\ Skip(offset + 1) \in Nat /\ offset + 1 <= Skip(offset + 1)
          /\ offset + 1 \in Nat
      BY <1>1, NoColonsSkipped, SkipDark
    <3>3. InObject => Covers(n, p, Skip(offset + 1))
      BY <1>1, <2>9, <3>2, CoversOn
    <3> QED
      BY <1>1, <1>5, <1>6, <2>7, <2>8, <3>1, <3>3, TopKept
  <2> QED
    BY <1>2, <2>10, <2>11
<1>8. CASE t = 1
  <2>0. PICK more :
            more = [i \in 1 .. n + 1 |-> IF i = n + 1 THEN b ELSE q[i]]
    OBVIOUS
  <2>1. /\ n + 1 \in 1 .. n + 1 /\ (n + 1) - 1 = n
        /\ \A i \in 1 .. n : i # n + 1 /\ i \in 1 .. n + 1
        /\ \A i \in 1 .. n + 1 : i = n + 1 \/ i \in 1 .. n
    BY <1>3, OneMore
  <2>2. more[n + 1] = b /\ \A i \in 1 .. n : more[i] = q[i]
    BY <2>0, <2>1
  <2>3. more \in [1 .. n + 1 -> Ids]
    <3>1. b \in Ids
      BY <1>1 DEF Attached
    <3>2. \A i \in 1 .. n + 1 : more[i] \in Ids
      BY <1>3, <2>1, <2>2, <3>1
    <3> QED
      BY <2>0, <3>2
  <2>4. Listed(n + 1, more)'
    BY <1>1, <1>3, <1>8, <2>2, <2>3, ListGrows
  <2>5. /\ InObject' <=> InObject
        /\ \A o : ValueOf(o)' = ValueOf(o) /\ Char(o)' = Char(o)
        /\ \A k, pos : Covers(k, p, pos)' <=> Covers(k, p, pos)
    BY <1>1, TextOnly
  <2>6. InObject <=> Top.type = "Object"
    <3>1. Top = stack[1] /\ Top \in Frames
      BY <1>1, <1>4, <1>8, TopIs
    <3>2. Char(Dark(0)) = Opening[Top.type] /\ Top.type \in Containers
      BY <1>1, <3>1 DEF Outermost, Frames
    <3> QED
      BY <3>2, OpeningsAre DEF InObject
  <2>7. CASE InObject
    <3>1. at' = "name" /\ offset' = offset
      BY <1>2, <2>6, <2>7
    <3>2. Pos' = offset + 1 /\ Pos = offset + 1
      BY <1>1, <3>1 DEF Pos
    <3>3. NamedOf(n + 1)' = n /\ ~ Valuing'
      BY <1>4, <1>8, <2>1, <3>1 DEF NamedOf, Naming, Valuing
    <3>4. NamedOf(n) = n /\ ~ Valuing
      BY <1>1 DEF NamedOf, Naming, Valuing
    <3>5. Covers(n, p, offset + 1) /\ Mates(n, q, p)
      BY <2>7, <3>2, <3>4 DEF TopOK
    <3>6. Covers(NamedOf(n + 1), p, Pos)'
      BY <2>5, <3>2, <3>3, <3>5
    <3>7. ASSUME NEW i \in 1 .. n
          PROVE  /\ heap'[more[i]].string = Char(p[i])
                 /\ IsCommit(more[i])' <=> Char(ValueOf(p[i])) = "commit"
      <4>1. /\ heap[q[i]].string = Char(p[i])
            /\ IsCommit(q[i]) <=> Char(ValueOf(p[i])) = "commit"
        BY <3>4, <3>5 DEF Mates
      <4>2. /\ more[i] = q[i] /\ heap'[q[i]].string = heap[q[i]].string
            /\ IsCommit(q[i])' <=> IsCommit(q[i])
        BY <1>5, <2>2
      <4>3. IsCommit(more[i])' <=> IsCommit(q[i])'
        BY <4>2 DEF IsCommit
      <4> QED
        BY <4>1, <4>2, <4>3
    <3>8. Mates(n + 1, more, p)'
      BY <2>5, <3>3, <3>7 DEF Mates
    <3> QED
      BY <1>6, <2>4, <2>5, <2>7, <3>6, <3>8 DEF TopOK
  <2>8. CASE ~ InObject
    <3>1. ASSUME NEW i \in 1 .. n + 1
          PROVE  heap'[more[i]].string = Absent
      <4>1. CASE i = n + 1
        BY <1>4, <2>2, <4>1
      <4>2. CASE i \in 1 .. n
        <5>1. heap[q[i]].string = Absent
          BY <2>8, <4>2 DEF TopOK
        <5> QED
          BY <1>5, <2>2, <4>2, <5>1
      <4> QED
        BY <2>1, <4>1, <4>2
    <3> QED
      BY <1>6, <2>4, <2>5, <2>8, <3>1 DEF TopOK
  <2> QED
    BY <2>7, <2>8
<1> QED
  BY <1>7, <1>8

(* A name is one of the top level if only one call is under way.           *)
LEMMA MemberStep ==
    ASSUME JsonInv, GrammarInv, Outermost, Name, ~ refused', at' = "value",
           NEW name, name = Skip(offset + 1),
           NEW colon, colon = Skip(name + 1)
    PROVE  /\ at = "name" /\ text' = text /\ TextOK /\ stack # <<>>
           /\ stack' = stack /\ born' = born /\ born \in Nat
           /\ item \in Ids /\ heap \in [Ids -> Items]
           /\ heap' = [heap EXCEPT ![item].type = "String",
                                   ![item].string = Char(name)]
           /\ Char(name) \in Strings /\ Char(colon) = ":"
           /\ offset' = Skip(colon + 1) /\ offset + 1 \in 0 .. Length
           /\ TopName(name) <=> Len(stack) = 1
           /\ Len(stack) = 1 => InObject
           /\ Dark(offset') = ValueOf(name)
<1>1. /\ at = "name" /\ text' = text /\ stack' = stack /\ born' = born
      /\ heap' = [heap EXCEPT ![item].type = "String",
                              ![item].string = Char(name)]
      /\ Char(name) \in Strings /\ Char(colon) = ":"
      /\ offset' = Skip(colon + 1) /\ ~ NothingFollows /\ ~ refused
  BY DEF Name, Refuse, buffer_vars
<1>2. /\ TextOK /\ stack # <<>> /\ stack \in Seq(Frames) /\ born \in Nat
      /\ item \in Ids /\ heap \in [Ids -> Items]
  BY <1>1, TypesAre, NestingIs
     DEF JsonInv, Progress, TypeOK, ItemOK, Live, HeapOK
<1>3. /\ Within(Nesting) /\ ElementPoint(offset, Nesting)
      /\ Nesting[Len(Nesting)] = "Object"
      /\ offset \in Nat /\ Length \in Nat
  BY <1>1, AtName
<1>4. /\ Len(Nesting) = Len(stack) /\ Nesting[Len(Nesting)] = Top.type
      /\ Len(stack) \in Nat
  BY <1>2, NestingIs
<1>5. offset + 1 < Length /\ offset + 1 \in 0 .. Length
  BY <1>1, <1>3 DEF NothingFollows
<1>6. /\ name \in Nat /\ name < Length /\ name + 1 \in 0 .. Length
      /\ Deep(name + 1, Len(Nesting))
  BY <1>1, <1>3, <1>5, NameIs
<1>7. Depth(name) = Len(stack)
  <2>1. (name + 1) - 1 = name
    BY <1>6
  <2> QED
    BY <1>4, <1>6, <2>1 DEF Deep
<1>8. colon = Dark(name + 1) /\ colon < Length /\ colon \in Nat
  <2>1. ":" \notin Blanks \cup {"outside"}
    BY DEF Blanks
  <2> QED
    BY <1>1, <1>2, <1>6, <2>1, SkipFinds, SkipDark
<1>9. Dark(offset') = ValueOf(name)
  <2>1. colon + 1 \in 0 .. Length
    BY <1>3, <1>8
  <2>2. Dark(Skip(colon + 1)) = Dark(colon + 1)
    BY <1>2, <2>1, SkipDark
  <2> QED
    BY <1>1, <1>8, <2>2 DEF ValueOf
<1>10. Len(stack) = 1 => InObject
  <2>1. ASSUME Len(stack) = 1 PROVE InObject
    <3>1. Top = stack[1] /\ Top.type = "Object"
      BY <1>3, <1>4, <2>1 DEF Top
    <3>2. Char(Dark(0)) = Opening["Object"]
      BY <1>2, <3>1 DEF Outermost
    <3> QED
      BY <3>2 DEF InObject, Opening
  <2> QED
    BY <2>1
<1>11. TopName(name) <=> Len(stack) = 1
  <2>1. name \in 0 .. Length - 1
    BY <1>3, <1>6
  <2> QED
    BY <1>1, <1>7, <1>8, <1>10, <2>1, Zenon DEF TopName, InObject
<1> QED
  BY <1>1, <1>2, <1>5, <1>9, <1>10, <1>11

LEMMA CategoryName ==
    ASSUME JsonInv, GrammarInv, Outermost, Name, ~ refused', at' = "value",
           NEW n, NEW q, NEW p, TopOK(n, q, p)
    PROVE  Outermost' /\ \E r : TopOK(n, q, r)'
<1>0. PICK name, colon : name = Skip(offset + 1) /\ colon = Skip(name + 1)
  OBVIOUS
<1>1. /\ at = "name" /\ text' = text /\ TextOK /\ stack # <<>>
      /\ stack' = stack /\ born' = born /\ born \in Nat
      /\ Char(name) \in Strings /\ Char(colon) = ":"
      /\ offset' = Skip(colon + 1) /\ offset + 1 \in 0 .. Length
      /\ TopName(name) <=> Len(stack) = 1
      /\ Len(stack) = 1 => InObject
      /\ Dark(offset') = ValueOf(name)
  BY <1>0, MemberStep
<1>2. /\ item \in Ids /\ heap'[item].next = heap[item].next
      /\ heap'[item].string = Char(name)
      /\ heap'[item].valuestring = heap[item].valuestring
      /\ \A m \in Ids : m # item => heap'[m] = heap[m]
  <2>1. /\ item \in Ids /\ heap \in [Ids -> Items]
        /\ heap' = [heap EXCEPT ![item].type = "String",
                                ![item].string = Char(name)]
    BY <1>0, MemberStep
  <2> QED
    BY <2>1 DEF Items
<1>3. /\ Listed(n, q) /\ n \in Nat /\ Len(stack) \in Nat
      /\ Len(stack) = 1 => n # 0 /\ n \in 1 .. n /\ q[n] = item
      /\ \A i \in 1 .. n : q[i] = item => Len(stack) = 1 /\ i = n
      /\ \A i \in 1 .. n : q[i] \in Ids
      /\ \A j \in DOMAIN stack : stack[j].item # item
                                 /\ stack[j].item \in Ids
  <2>1. Listed(n, q)
    BY DEF TopOK
  <2> QED
    BY <1>1, <2>1, ItemPlace
<1>4. Listed(n, q)'
  <2>1. ListHead' = ListHead
    BY <1>1 DEF ListHead
  <2>2. \A i \in 1 .. n : heap'[q[i]].next = heap[q[i]].next
    <3> TAKE i \in 1 .. n
    <3>1. CASE q[i] = item
      BY <1>2, <3>1
    <3>2. CASE q[i] # item
      BY <1>2, <1>3, <3>2
    <3> QED
      BY <3>1, <3>2
  <2>3. born' \in Nat /\ born <= born'
    BY <1>1
  <2>4. stack' # <<>> => stack'[1].current = IF n = 0 THEN Null ELSE q[n]
    BY <1>1, <1>3 DEF Listed
  <2> QED
    BY <1>3, <2>1, <2>2, <2>3, <2>4, ListKept
<1>5. Outermost'
  <2>1. \A j \in DOMAIN stack' :
            heap'[stack'[j].item].valuestring = Absent
    BY <1>1, <1>2, <1>3 DEF Outermost
  <2>2. /\ stack'[1].item = Root
        /\ Char(Dark(0)) = Opening[stack'[1].type]
    BY <1>1 DEF Outermost
  <2>3. Char(Dark(0))' = Char(Dark(0))
    BY <1>1, TextOnly
  <2> QED
    BY <1>1, <2>1, <2>2, <2>3 DEF Outermost
<1>6. Pos' = Skip(colon + 1) /\ Pos = offset + 1
  BY <1>1 DEF Pos
<1>7. CASE Len(stack) # 1
  <2>1. /\ NamedOf(n)' = n /\ NamedOf(n) = n /\ ~ Valuing' /\ ~ Valuing
        /\ NamedOf(n)' = NamedOf(n)
    BY <1>1, <1>7 DEF NamedOf, Naming, Valuing
  <2>2. \A i \in 1 .. n : /\ heap'[q[i]].string = heap[q[i]].string
                          /\ IsCommit(q[i])' <=> IsCommit(q[i])
    BY <1>2, <1>3, <1>7 DEF IsCommit
  <2>3. InObject => Covers(n, p, Skip(colon + 1))
    <3>1. \A k : Covers(k, p, offset + 1) /\ ~ TopName(name)
                     => Covers(k, p, Skip(colon + 1))
      <4> TAKE k
      <4> HAVE Covers(k, p, offset + 1) /\ ~ TopName(name)
      <4>1. k \in Nat
        BY DEF Covers
      <4>2. PICK more :
                more = [i \in 1 .. k + 1 |-> IF i = k + 1 THEN name ELSE p[i]]
        OBVIOUS
      <4>3. more[k + 1] = name /\ \A i \in 1 .. k : more[i] = p[i]
        BY <4>1, <4>2, OneMore
      <4>4. more = [i \in 1 .. k + 1 |-> more[i]]
        BY <4>2
      <4> QED
        BY <1>0, <1>1, <4>3, <4>4, CoversName
    <3> QED
      BY <1>1, <1>6, <1>7, <2>1, <3>1 DEF TopOK
  <2>4. TopOK(n, q, p)'
    BY <1>1, <1>4, <1>6, <2>1, <2>2, <2>3, TopKept
  <2> QED
    BY <1>5, <2>4
<1>8. CASE Len(stack) = 1
  <2>1. PICK k : k = n - 1
    OBVIOUS
  <2>2. /\ k \in Nat /\ k + 1 = n /\ 1 .. k + 1 = 1 .. n
        /\ \A i \in 1 .. n : i = n \/ i \in 1 .. k
        /\ \A i \in 1 .. k : i \in 1 .. n /\ i # n
    <3>1. n \in Nat /\ n # 0
      BY <1>3, <1>8
    <3> QED
      BY <2>1, <3>1
  <2>3. NamedOf(n) = k /\ NamedOf(n)' = n /\ Valuing' /\ ~ Valuing
    BY <1>1, <1>8, <2>1 DEF NamedOf, Naming, Valuing
  <2>4. Covers(k, p, offset + 1) /\ Mates(n, q, p) /\ InObject
    BY <1>1, <1>6, <1>8, <2>3 DEF TopOK
  <2>5. PICK more :
            more = [i \in 1 .. k + 1 |-> IF i = k + 1 THEN name ELSE p[i]]
    OBVIOUS
  <2>6. more[k + 1] = name /\ \A i \in 1 .. k : more[i] = p[i]
    BY <2>2, <2>5, OneMore
  <2>7. Covers(n, more, Skip(colon + 1))
    <3>1. more = [i \in 1 .. k + 1 |-> more[i]]
      BY <2>5
    <3>2. Covers(k + 1, more, Skip(colon + 1))
      BY <1>0, <1>1, <1>8, <2>4, <2>6, <3>1, CoversName
    <3> QED
      BY <2>2, <3>2
  <2>8. /\ InObject' <=> InObject
        /\ \A o : /\ ValueOf(o)' = ValueOf(o) /\ Char(o)' = Char(o)
                  /\ Dark(o)' = Dark(o)
        /\ \A j, r, pos : Covers(j, r, pos)' <=> Covers(j, r, pos)
    BY <1>1, TextOnly
  <2>9. Covers(NamedOf(n), more, Pos)'
    BY <1>6, <2>3, <2>7, <2>8
  <2>10. ASSUME NEW i \in 1 .. n
         PROVE  /\ heap'[q[i]].string = Char(more[i])
                /\ i = n => Dark(offset') = ValueOf(more[i])
                /\ i # n => (IsCommit(q[i])' <=>
                                 Char(ValueOf(more[i])) = "commit")
    <3>1. CASE i = n
      <4>1. q[i] = item /\ more[i] = name
        BY <1>3, <1>8, <2>2, <2>6, <3>1
      <4> QED
        BY <1>1, <1>2, <3>1, <4>1
    <3>2. CASE i # n
      <4>1. i \in 1 .. k /\ more[i] = p[i]
        BY <2>2, <2>6, <3>2
      <4>2. /\ heap[q[i]].string = Char(p[i])
            /\ IsCommit(q[i]) <=> Char(ValueOf(p[i])) = "commit"
        BY <2>3, <2>4, <4>1 DEF Mates
      <4>3. heap'[q[i]] = heap[q[i]]
        BY <1>2, <1>3, <3>2
      <4>4. IsCommit(q[i])' <=> IsCommit(q[i])
        BY <4>3 DEF IsCommit
      <4> QED
        BY <3>2, <4>1, <4>2, <4>3, <4>4
    <3> QED
      BY <3>1, <3>2
  <2>11. Mates(n, q, more)'
    <3>1. Dark(offset)' = Dark(offset')
      BY <1>1 DEF Dark, Char, Length
    <3> QED
      BY <2>3, <2>8, <2>10, <3>1 DEF Mates
  <2> QED
    BY <1>4, <1>5, <2>4, <2>8, <2>9, <2>11 DEF TopOK
<1> QED
  BY <1>7, <1>8

(* The list stays, and the parser moves on.                                *)
LEMMA CategoryMoves ==
    ASSUME JsonInv, Outermost, at = "true", text' = text, stack' = stack,
           heap' = heap, born' = born, at' \in {"element", "accepted"},
           NEW to \in Nat, Pos' = to, offset <= to, NoColons(offset, to),
           NEW n, NEW q, NEW p, TopOK(n, q, p)
    PROVE  Outermost' /\ TopOK(n, q, p)'
<1>1. TextOK /\ offset \in Nat /\ born \in Nat
  BY NestingIs DEF JsonInv, TypeOK
<1>2. Listed(n, q) /\ n \in Nat
  BY DEF TopOK, Listed
<1>3. Listed(n, q)'
  <2>1. ListHead' = ListHead
    BY DEF ListHead
  <2>2. stack' # <<>> => stack'[1].current = IF n = 0 THEN Null ELSE q[n]
    BY <1>2 DEF Listed
  <2>3. born' \in Nat /\ born <= born'
    BY <1>1
  <2> QED
    BY <1>2, <2>1, <2>2, <2>3, ListKept
<1>4. /\ NamedOf(n)' = n /\ NamedOf(n) = n /\ ~ Valuing' /\ ~ Valuing
      /\ NamedOf(n)' = NamedOf(n) /\ Pos = offset
  BY DEF NamedOf, Naming, Valuing, Pos
<1>5. InObject => Covers(n, p, to)
  <2>1. InObject => Covers(n, p, offset)
    BY <1>4 DEF TopOK
  <2> QED
    BY <1>1, <2>1, CoversOn
<1>6. \A i \in 1 .. n : /\ heap'[q[i]].string = heap[q[i]].string
                        /\ IsCommit(q[i])' <=> IsCommit(q[i])
  BY DEF IsCommit
<1>7. TopOK(n, q, p)'
  BY <1>2, <1>3, <1>4, <1>5, <1>6, TopKept
<1>8. Char(Dark(0))' = Char(Dark(0))
  BY <1>1, TextOnly
<1> QED
  BY <1>7, <1>8 DEF Outermost

LEMMA CategoryAfterElement ==
    ASSUME JsonInv, Outermost, AfterElement, at' = "element",
           NEW n, NEW q, NEW p, TopOK(n, q, p)
    PROVE  Outermost' /\ TopOK(n, q, p)'
<1> DEFINE comma == Skip(offset)
<1>1. /\ at = "true" /\ text' = text /\ stack' = stack /\ heap' = heap
      /\ born' = born /\ offset' = comma /\ Char(comma) = ","
  BY DEF AfterElement, buffer_vars
<1>2. TextOK /\ offset \in 0 .. Length /\ offset \in Nat
  BY NestingIs DEF JsonInv, TypeOK
<1>3. /\ comma \in Nat /\ offset <= comma /\ NoColons(offset, comma)
  BY <1>2, SkipDark, NoColonsSkipped
<1>4. Pos' = comma + 1
  BY <1>1 DEF Pos
<1> HIDE DEF comma
<1>5. comma + 1 \in Nat /\ offset <= comma + 1 /\ NoColons(offset, comma + 1)
  <2>1. Char(comma) # ":"
    BY <1>1
  <2>2. NoColons(offset, comma + 1)
    BY <1>2, <1>3, <2>1, NoColonsTo
  <2> QED
    BY <1>2, <1>3, <2>2
<1> QED
  BY <1>1, <1>4, <1>5, CategoryMoves

LEMMA CategoryAccept ==
    ASSUME JsonInv, GrammarInv, Outermost, Accept, ~ refused,
           NEW n, NEW q, NEW p, TopOK(n, q, p)
    PROVE  /\ Outermost' /\ TopOK(n, q, p)'
           /\ TruePoint(ValueEnd, <<>>)'
<1>1. /\ at = "true" /\ text' = text /\ stack' = stack /\ heap' = heap
      /\ born' = born /\ at' = "accepted" /\ stack = <<>>
  BY DEF Accept, buffer_vars
<1>2. /\ TextOK /\ TruePoint(offset, Nesting) /\ Nesting = <<>>
      /\ Within(Nesting)
  BY <1>1, AtTrue
<1>3. ValueEnd = offset /\ offset \in Nat
  <2>1. Len(<<>>) = 0
    OBVIOUS
  <2>2. Leads(0, <<>>, offset) /\ offset \in Nat
    BY <1>2, <2>1, TrueFacts
  <2> QED
    BY <1>2, <2>2, LeadsRoot
<1>4. ValueEnd' = ValueEnd
  BY <1>1, <1>2, TextOnly
<1>5. Pos' = offset
  BY <1>1, <1>3, <1>4 DEF Pos
<1>6. offset <= offset /\ NoColons(offset, offset)
  BY <1>3 DEF NoColons
<1>7. TruePoint(ValueEnd, <<>>)'
  <2>1. \A o, types : TruePoint(o, types)' <=> TruePoint(o, types)
    BY <1>1, <1>2, PointsKept
  <2>2. TruePoint(ValueEnd, <<>>)
    BY <1>2, <1>3
  <2>3. \A o : o = ValueEnd' => (TruePoint(o, <<>>)' <=>
                                     TruePoint(ValueEnd, <<>>)')
    OBVIOUS
  <2> QED
    BY <1>4, <2>1, <2>2, <2>3
<1> QED
  BY <1>1, <1>3, <1>5, <1>6, <1>7, CategoryMoves

LEMMA CategoryStart ==
    ASSUME JsonInv, Start, ~ refused'
    PROVE  Outermost' /\ \E n, q, p : TopOK(n, q, p)'
<1>1. /\ at' = "value" /\ text' = text /\ stack' = stack /\ item' = Root
      /\ born' = Root /\ heap' = [heap EXCEPT ![Root] = Blank]
      /\ offset' = Skip(0) /\ at = "start"
  BY DEF Start, Refuse, buffer_vars
<1>2. /\ TextOK /\ stack = <<>> /\ heap \in [Ids -> Items]
      /\ Length \in Nat \ {0}
  BY <1>1, TypesAre, NestingIs, BornWithin DEF JsonInv, Progress, HeapOK
<1>3. Root \in Ids /\ 0 \in 0 .. Length
  BY <1>2 DEF Root, Ids
<1>4. heap'[Root].child = Null
  BY <1>1, <1>2, <1>3 DEF Blank, Free
<1>5. /\ Dark(Skip(0)) = Dark(0) /\ NoColons(0, Skip(0)) /\ Skip(0) \in Nat
  BY <1>2, <1>3, SkipDark, NoColonsSkipped
<1>6. PICK none : none = [i \in 1 .. 0 |-> 0]
  OBVIOUS
<1>7. Covers(0, none, Skip(0))
  BY <1>2, <1>5, <1>6, CoversNone
<1>8. /\ \A k, pos : Covers(k, none, pos)' <=> Covers(k, none, pos)
      /\ \A o : Dark(o)' = Dark(o)
  BY <1>1, <1>2, TextOnly
<1>9. Listed(0, none)'
  <2>1. 1 .. 0 = {} /\ 0 \in Nat
    OBVIOUS
  <2>2. none \in [1 .. 0 -> 1 .. born']
    BY <1>6, <2>1
  <2>3. ListHead' = Null /\ stack' = <<>>
    BY <1>1, <1>2, <1>4 DEF ListHead
  <2> QED
    BY <2>1, <2>2, <2>3 DEF Listed
<1>10. /\ NamedOf(0)' = 0 /\ Pos' = Skip(0)
  BY <1>1 DEF NamedOf, Naming, Pos
<1>11. TopOK(0, none, none)'
  <2>1. Covers(NamedOf(0), none, Pos)'
    BY <1>7, <1>8, <1>10
  <2>2. Mates(0, none, none)'
    BY <1>10 DEF Mates
  <2>3. 1 .. 0 = {}
    OBVIOUS
  <2> QED
    BY <1>9, <2>1, <2>2, <2>3 DEF TopOK
<1>12. Outermost'
  <2>1. Dark(offset)' = Dark(0)'
    <3>1. Dark(offset)' = Dark(offset')
      BY <1>1 DEF Dark, Char, Length
    <3> QED
      BY <1>1, <1>5, <1>8, <3>1
  <2>2. DOMAIN <<>> = {}
    OBVIOUS
  <2> QED
    BY <1>1, <1>2, <2>1, <2>2 DEF Outermost
<1> QED
  BY <1>11, <1>12
-----------------------------------------------------------------------------
(***************************************************************************)
(* The search for a member goes along the list to the first hit.           *)
(***************************************************************************)
Searches(f, b, Stop, next) ==
    f = [n \in 0 .. b |-> IF n = 0 \/ n \in Stop THEN n ELSE f[next[n]]]

LEMMA SearchExists ==
    ASSUME NEW b \in Nat, NEW Stop, NEW next \in [1 .. b -> Nat],
           \A m \in 1 .. b : next[m] = 0 \/ next[m] \in m + 1 .. b
    PROVE  \E f : Searches(f, b, Stop, next)
<1> DEFINE Found(f, n) == IF n = 0 \/ n \in Stop THEN n ELSE f[next[n]]
           Good(j) == \E f \in [0 .. b -> Nat] :
                          /\ f[0] = 0
                          /\ \A n \in 1 .. b : n + j > b => f[n] = Found(f, n)
           Bad == {j \in Nat : ~ Good(j)}
<1>1. Good(0)
  <2>1. [n \in 0 .. b |-> 0] \in [0 .. b -> Nat]
    OBVIOUS
  <2>2. \A n \in 1 .. b : ~ (n + 0 > b)
    OBVIOUS
  <2>3. [n \in 0 .. b |-> 0][0] = 0
    OBVIOUS
  <2> QED
    BY <2>1, <2>2, <2>3
<1>2. ASSUME NEW j \in Nat, Good(j)
      PROVE  Good(j + 1)
  <2>1. PICK f \in [0 .. b -> Nat] :
            /\ f[0] = 0
            /\ \A n \in 1 .. b : n + j > b => f[n] = Found(f, n)
    BY <1>2
  <2>2. PICK k : k = b - j
    OBVIOUS
  <2>3. k \in Int
    BY <2>2
  <2>4. PICK g : g = [n \in 0 .. b |-> IF n = k /\ n # 0 THEN Found(f, n)
                                       ELSE f[n]]
    OBVIOUS
  <2>5. ASSUME NEW n \in 1 .. b
        PROVE  /\ next[n] \in 0 .. b /\ next[n] \in Nat
               /\ next[n] = 0 \/ n < next[n]
               /\ Found(f, n) \in Nat
    <3>1. next[n] = 0 \/ next[n] \in n + 1 .. b
      OBVIOUS
    <3>2. next[n] \in 0 .. b /\ (next[n] = 0 \/ n < next[n])
      BY <3>1
    <3> QED
      BY <3>2
  <2>6. \A n \in 0 .. b : n = 0 \/ n \in 1 .. b
    OBVIOUS
  <2>7. g \in [0 .. b -> Nat] /\ g[0] = 0
    <3>1. \A n \in 0 .. b : g[n] \in Nat
      BY <2>1, <2>4, <2>5, <2>6
    <3> QED
      BY <2>1, <2>4, <3>1
  <2>8. ASSUME NEW n \in 1 .. b, n + (j + 1) > b
        PROVE  g[n] = Found(g, n)
    <3>1. n >= k /\ n \in 0 .. b /\ n # 0
      BY <2>2, <2>8
    <3>2. next[n] = 0 \/ next[n] # k
      BY <2>3, <2>5, <3>1
    <3>3. g[next[n]] = f[next[n]]
      BY <2>4, <2>5, <3>2
    <3>4. Found(g, n) = Found(f, n)
      BY <3>3
    <3>5. CASE n = k
      BY <2>4, <3>1, <3>4, <3>5
    <3>6. CASE n # k
      <4>1. n + j > b
        BY <2>2, <2>8, <3>6
      <4>2. f[n] = Found(f, n) /\ g[n] = f[n]
        BY <2>1, <2>4, <3>1, <3>6, <4>1
      <4> QED
        BY <3>4, <4>2
    <3> QED
      BY <3>5, <3>6
  <2> QED
    BY <2>7, <2>8
<1> HIDE DEF Good
<1>3. Bad = {}
  <2> SUFFICES ASSUME Bad # {} PROVE FALSE
    OBVIOUS
  <2>1. Bad \in SUBSET Nat
    OBVIOUS
  <2> HIDE DEF Bad
  <2>2. PICK m \in Bad : \A j \in Bad : m <= j
    BY <2>1, Least
  <2> USE DEF Bad
  <2>3. m # 0 /\ m \in Nat
    BY <1>1
  <2>4. m - 1 \in Nat /\ ~ (m <= m - 1) /\ (m - 1) + 1 = m
    BY <2>3
  <2>5. Good(m - 1)
    BY <2>2, <2>4
  <2>6. Good(m)
    BY <1>2, <2>4, <2>5
  <2> QED
    BY <2>6
<1>4. Good(b)
  BY <1>3
<1>5. PICK f \in [0 .. b -> Nat] :
          /\ f[0] = 0
          /\ \A n \in 1 .. b : n + b > b => f[n] = Found(f, n)
  BY <1>4 DEF Good
<1>6. \A n \in 0 .. b : f[n] = Found(f, n)
  <2>1. \A n \in 0 .. b : n = 0 \/ (n \in 1 .. b /\ n + b > b)
    OBVIOUS
  <2> QED
    BY <1>5, <2>1
<1>7. f = [n \in 0 .. b |-> Found(f, n)]
  BY <1>6
<1> QED
  BY <1>7 DEF Searches

LEMMA MemberIs ==
    ASSUME HeapOK, Upward, NEW name
    PROVE  \E f : /\ \A n \in 0 .. born :
                         f[n] = IF n = Null
                                   \/ heap[n].string \in {name, Absent}
                                THEN n ELSE f[heap[n].next]
                  /\ Member(name) = f[heap[Root].child]
<1> DEFINE eq(v) == v = [n \in 0 .. born |->
                             IF n = Null
                                \/ heap[n].string \in {name, Absent} THEN n
                             ELSE v[heap[n].next]]
           v0 == CHOOSE v : eq(v)
           Stop == {n \in 1 .. born : heap[n].string \in {name, Absent}}
           next == [m \in 1 .. born |-> heap[m].next]
<1>1. born \in Nat /\ 1 .. born \subseteq Ids
  BY BornWithin
<1>2. \A m \in 1 .. born : heap[m].next \in {0} \cup (m + 1 .. born)
  BY <1>1 DEF Upward, Null
<1>3. /\ next \in [1 .. born -> Nat]
      /\ \A m \in 1 .. born : next[m] = 0 \/ next[m] \in m + 1 .. born
      /\ \A m \in 1 .. born : next[m] = heap[m].next
  BY <1>1, <1>2
<1>4. \A n \in 0 .. born : n = 0 \/ n \in 1 .. born
  BY <1>1
<1> HIDE DEF next
<1>5. \E v : eq(v)
  <2>1. /\ \A n \in 1 .. born :
               n \in Stop <=> heap[n].string \in {name, Absent}
        /\ Stop \subseteq 1 .. born
    OBVIOUS
  <2> HIDE DEF Stop, eq
  <2>a. \E f : Searches(f, born, Stop, next)
    BY <1>1, <1>3, SearchExists
  <2>2. PICK f : f = [n \in 0 .. born |->
                          IF n = 0 \/ n \in Stop THEN n ELSE f[next[n]]]
    BY <2>a DEF Searches
  <2>3. \A n \in 0 .. born :
            (IF n = 0 \/ n \in Stop THEN n ELSE f[next[n]])
              = IF n = Null \/ heap[n].string \in {name, Absent} THEN n
                ELSE f[heap[n].next]
    BY <1>3, <1>4, <2>1 DEF Null
  <2>4. eq(f)
    BY <2>2, <2>3 DEF eq
  <2> QED
    BY <2>4
<1>6. eq(v0)
  BY <1>5
<1>7. Member(name) = v0[heap[Root].child]
  BY DEF Member
<1> HIDE DEF v0
<1> QED
  BY <1>6, <1>7

(* It ends at the first item of the list that has the name, or has none.   *)
Hit(q, i, name) == heap[q[i]].string \in {name, Absent}

LEMMA FirstMember ==
    ASSUME HeapOK, Upward, NEW name, stack = <<>>,
           NEW n, NEW q, Listed(n, q)
    PROVE  \/ /\ Member(name) = Null
              /\ \A i \in 1 .. n : ~ Hit(q, i, name)
           \/ \E i \in 1 .. n : /\ Member(name) = q[i] /\ Hit(q, i, name)
                                /\ \A j \in 1 .. i - 1 : ~ Hit(q, j, name)
<1>1. PICK f : /\ \A m \in 0 .. born :
                      f[m] = IF m = Null \/ heap[m].string \in {name, Absent}
                             THEN m ELSE f[heap[m].next]
               /\ Member(name) = f[heap[Root].child]
  BY MemberIs
<1>2. /\ n \in Nat /\ born \in Nat
      /\ \A i \in 1 .. n : /\ q[i] \in 0 .. born /\ q[i] # Null
                           /\ heap[q[i]].next = IF i = n THEN Null
                                                ELSE q[i + 1]
      /\ heap[Root].child = IF n = 0 THEN Null ELSE q[1]
  BY BornWithin DEF Listed, ListHead, Null
<1>3. f[Null] = Null
  BY <1>1, <1>2 DEF Null
<1>4. \A i \in 1 .. n :
          f[q[i]] = IF Hit(q, i, name) THEN q[i]
                    ELSE IF i = n THEN Null ELSE f[q[i + 1]]
  <2> TAKE i \in 1 .. n
  <2>1. f[q[i]] = IF Hit(q, i, name) THEN q[i] ELSE f[heap[q[i]].next]
    BY <1>1, <1>2 DEF Hit
  <2> QED
    BY <1>2, <1>3, <2>1
<1> DEFINE Good(k) == (\A j \in 1 .. k : ~ Hit(q, j, name)) =>
                          Member(name) = IF k = n THEN Null ELSE f[q[k + 1]]
           Bad == {k \in Nat : k <= n /\ ~ Good(k)}
<1>5. Good(0)
  BY <1>1, <1>2, <1>3
<1>6. ASSUME NEW k \in Nat, k + 1 <= n, Good(k)
      PROVE  Good(k + 1)
  <2> SUFFICES ASSUME \A j \in 1 .. k + 1 : ~ Hit(q, j, name)
               PROVE  Member(name) = IF k + 1 = n THEN Null
                                     ELSE f[q[(k + 1) + 1]]
    OBVIOUS
  <2>1. /\ \A j \in 1 .. k : j \in 1 .. k + 1
        /\ k + 1 \in 1 .. k + 1 /\ k + 1 \in 1 .. n /\ k # n
    BY <1>2, <1>6
  <2>2. Member(name) = f[q[k + 1]]
    BY <1>6, <2>1
  <2>3. ~ Hit(q, k + 1, name)
    BY <2>1
  <2> QED
    BY <1>4, <2>1, <2>2, <2>3
<1> HIDE DEF Good
<1>7. \A k \in 0 .. n : Good(k)
  <2> SUFFICES ASSUME Bad # {} PROVE FALSE
    BY <1>2
  <2>1. Bad \in SUBSET Nat
    OBVIOUS
  <2> HIDE DEF Bad
  <2>2. PICK m \in Bad : \A k \in Bad : m <= k
    BY <2>1, Least
  <2> USE DEF Bad
  <2>3. m # 0 /\ m \in Nat /\ m <= n
    BY <1>5
  <2>4. /\ m - 1 \in Nat /\ ~ (m <= m - 1) /\ (m - 1) + 1 = m
        /\ m - 1 <= n
    BY <1>2, <2>3
  <2>5. Good(m - 1)
    BY <2>2, <2>4
  <2>6. Good(m)
    BY <1>6, <2>3, <2>4, <2>5
  <2> QED
    BY <2>6
<1> DEFINE Hits == {i \in Nat : i \in 1 .. n /\ Hit(q, i, name)}
<1>8. CASE Hits = {}
  <2>1. \A i \in 1 .. n : ~ Hit(q, i, name)
    BY <1>8
  <2>2. n \in 0 .. n
    BY <1>2
  <2>3. Member(name) = Null
    BY <1>7, <2>1, <2>2 DEF Good
  <2> QED
    BY <2>1, <2>3
<1>9. CASE Hits # {}
  <2>1. Hits \in SUBSET Nat
    OBVIOUS
  <2> HIDE DEF Hits
  <2>2. PICK i \in Hits : \A j \in Hits : i <= j
    BY <1>9, <2>1, Least
  <2> USE DEF Hits
  <2>3. i \in 1 .. n /\ Hit(q, i, name)
    OBVIOUS
  <2>4. /\ i - 1 \in 0 .. n /\ i - 1 # n /\ (i - 1) + 1 = i
        /\ \A j \in 1 .. i - 1 : j \in 1 .. n /\ j \in Nat /\ ~ (i <= j)
    BY <1>2, <2>3
  <2>5. \A j \in 1 .. i - 1 : ~ Hit(q, j, name)
    BY <2>2, <2>4
  <2>6. Member(name) = f[q[i]]
    BY <1>7, <2>4, <2>5 DEF Good
  <2>7. Member(name) = q[i]
    BY <1>4, <2>3, <2>6
  <2> QED
    BY <2>3, <2>5, <2>7
<1> QED
  BY <1>8, <1>9
-----------------------------------------------------------------------------
(***************************************************************************)
(* What the consumer finds in the list is what stands in the text.         *)
(***************************************************************************)
KindIsCommit ==
    \E o \in TopLevel("kind") :
        /\ o < ValueEnd
        /\ \A p \in TopLevel("kind") : o <= p
        /\ Char(ValueOf(o)) = "commit"

LEMMA TopLevelIs ==
    \A o : o \in TopLevel("kind") <=> TopName(o) /\ Char(o) = "kind"
BY DEF TopLevel, TopName, Strings

(* The colon of a name within the value is within it, too.                 *)
LEMMA ColonWithin ==
    ASSUME TextOK, TruePoint(ValueEnd, <<>>), NEW o, TopName(o),
           o < ValueEnd
    PROVE  Dark(o + 1) < ValueEnd
<1>1. PICK end : end = ValueEnd
  OBVIOUS
<1>2. /\ end \in 1 .. Length /\ Char(end - 1) \notin Blanks
      /\ Depth(end - 1) = 0
  <2>1. Len(<<>>) = 0
    OBVIOUS
  <2> QED
    BY <1>1, <2>1 DEF TruePoint, Deep
<1>3. PICK d : d = Dark(o + 1)
  OBVIOUS
<1>4. /\ o \in Nat /\ o + 1 \in Nat /\ d \in Nat /\ Length \in Nat
      /\ DarkAt(d, o + 1) /\ Depth(o) = 1
  BY <1>3, TopNameIs, DarkIs DEF TopName
<1>5. o # end - 1
  BY <1>2, <1>4
<1>6. ASSUME ~ (d < end) PROVE FALSE
  <2>1. o < end
    BY <1>1
  <2>2. end - 1 \in o + 1 .. Length - 1 /\ end - 1 < d
    BY <1>2, <1>4, <1>5, <1>6, <2>1
  <2> QED
    BY <1>2, <1>4, <2>2 DEF DarkAt
<1> QED
  BY <1>1, <1>3, <1>6

LEMMA FirstKind ==
    ASSUME TextOK, TruePoint(ValueEnd, <<>>), NEW n, NEW p,
           Covers(n, p, ValueEnd)
    PROVE  KindIsCommit <=>
               \E i \in 1 .. n :
                   /\ Char(p[i]) = "kind"
                   /\ \A j \in 1 .. i - 1 : Char(p[j]) # "kind"
                   /\ Char(ValueOf(p[i])) = "commit"
<1>0. PICK end : end = ValueEnd
  OBVIOUS
<1>1. /\ n \in Nat /\ end \in Nat
      /\ \A i, j \in 1 .. n : i < j => p[i] < p[j]
      /\ \A o : TopName(o) /\ Dark(o + 1) < end
                    => \E i \in 1 .. n : p[i] = o
  BY <1>0 DEF Covers, TruePoint
<1>2. \A i \in 1 .. n : TopName(p[i]) /\ p[i] < end /\ p[i] \in Nat
  <2> TAKE i \in 1 .. n
  <2>1. TopName(p[i]) /\ Dark(p[i] + 1) < end
    BY <1>0 DEF Covers
  <2>2. /\ p[i] \in Nat /\ Dark(p[i] + 1) \in Nat
        /\ p[i] < Dark(p[i] + 1)
    BY <2>1, TopNameIs
  <2> QED
    BY <1>1, <2>1, <2>2
<1>3. ASSUME NEW i \in 1 .. n, Char(p[i]) = "kind",
             \A j \in 1 .. i - 1 : Char(p[j]) # "kind",
             Char(ValueOf(p[i])) = "commit"
      PROVE  KindIsCommit
  <2>1. p[i] \in TopLevel("kind") /\ p[i] < ValueEnd
    BY <1>0, <1>2, <1>3, TopLevelIs
  <2>2. ASSUME NEW o \in TopLevel("kind"), ~ (p[i] <= o)
        PROVE  FALSE
    <3>1. TopName(o) /\ Char(o) = "kind"
      BY TopLevelIs
    <3>2. o \in Nat
      BY <3>1, TopNameIs
    <3>3. o < p[i] /\ o < end
      BY <1>1, <1>2, <2>2, <3>2
    <3>4. Dark(o + 1) < end
      BY <1>0, <3>1, <3>3, ColonWithin
    <3>5. PICK j \in 1 .. n : p[j] = o
      BY <1>1, <3>1, <3>4
    <3>6. ~ (i < j) /\ i # j
      <4>1. i < j => p[i] < p[j]
        BY <1>1
      <4> QED
        BY <1>2, <3>2, <3>3, <3>5, <4>1
    <3>7. j \in 1 .. i - 1
      BY <1>1, <3>6
    <3> QED
      BY <1>3, <3>1, <3>5, <3>7
  <2> QED
    BY <1>3, <2>1, <2>2 DEF KindIsCommit
<1>4. ASSUME KindIsCommit
      PROVE  \E i \in 1 .. n :
                   /\ Char(p[i]) = "kind"
                   /\ \A j \in 1 .. i - 1 : Char(p[j]) # "kind"
                   /\ Char(ValueOf(p[i])) = "commit"
  <2>1. PICK o \in TopLevel("kind") :
            /\ o < end
            /\ \A r \in TopLevel("kind") : o <= r
            /\ Char(ValueOf(o)) = "commit"
    BY <1>0, <1>4 DEF KindIsCommit
  <2>2. TopName(o) /\ Char(o) = "kind"
    BY TopLevelIs
  <2>3. Dark(o + 1) < end
    BY <1>0, <2>1, <2>2, ColonWithin
  <2>4. PICK i \in 1 .. n : p[i] = o
    BY <1>1, <2>2, <2>3
  <2>5. ASSUME NEW j \in 1 .. i - 1, Char(p[j]) = "kind"
        PROVE  FALSE
    <3>1. j \in 1 .. n /\ j < i
      BY <1>1
    <3>2. p[j] < p[i]
      BY <1>1, <3>1
    <3>3. p[j] \in TopLevel("kind")
      BY <1>2, <2>5, <3>1, TopLevelIs
    <3>4. o <= p[j]
      BY <2>1, <3>3
    <3> QED
      BY <1>2, <2>4, <3>1, <3>2, <3>4
  <2> QED
    BY <2>1, <2>2, <2>4, <2>5
<1> QED
  BY <1>3, <1>4

(* Outside of an object no name is a member's.                             *)
LEMMA NoKind ==
    ASSUME ~ InObject
    PROVE  ~ KindIsCommit
BY DEF InObject, KindIsCommit, TopLevel

TakenAsCommit(kind) ==
    kind # Null /\ heap[kind].string # Absent /\ IsCommit(kind)

LEMMA KindFound ==
    ASSUME JsonInv, at = "accepted", TruePoint(ValueEnd, <<>>),
           NEW n, NEW q, NEW p, TopOK(n, q, p)
    PROVE  TakenAsCommit(Member("kind")) <=> KindIsCommit
<1>1. /\ HeapOK /\ Upward /\ stack = <<>> /\ TextOK
  BY TypesAre, NestingIs DEF JsonInv, Progress
<1>2. Listed(n, q)
  BY DEF TopOK
<1>3. PICK kind : kind = Member("kind")
  OBVIOUS
<1>4. \/ /\ kind = Null /\ \A i \in 1 .. n : ~ Hit(q, i, "kind")
      \/ \E i \in 1 .. n : /\ kind = q[i] /\ Hit(q, i, "kind")
                           /\ \A j \in 1 .. i - 1 : ~ Hit(q, j, "kind")
  BY <1>1, <1>2, <1>3, FirstMember
<1>5. /\ n \in Nat /\ \A i \in 1 .. n : q[i] # Null
      /\ \A i \in 1 .. n : \A j \in 1 .. i - 1 : j \in 1 .. n /\ j < i
  BY <1>1, BornWithin DEF Listed, Null, TopOK
<1>6. CASE InObject
  <2>1. NamedOf(n) = n /\ Pos = ValueEnd /\ ~ Valuing
    BY DEF NamedOf, Naming, Pos, Valuing
  <2>2. Covers(n, p, ValueEnd) /\ Mates(n, q, p)
    BY <1>6, <2>1 DEF TopOK
  <2>3. \A i \in 1 .. n :
            /\ heap[q[i]].string = Char(p[i])
            /\ IsCommit(q[i]) <=> Char(ValueOf(p[i])) = "commit"
            /\ Char(p[i]) # Absent
    <3>1. \A i \in 1 .. n : Char(p[i]) \in Strings
      BY <2>2 DEF Covers, TopName
    <3>2. Absent \notin Strings
      BY DEF Absent, Strings
    <3> QED
      BY <2>1, <2>2, <3>1, <3>2 DEF Mates
  <2>4. \A i \in 1 .. n : Hit(q, i, "kind") <=> Char(p[i]) = "kind"
    BY <2>3 DEF Hit
  <2>5. KindIsCommit <=>
            \E i \in 1 .. n : /\ Char(p[i]) = "kind"
                              /\ \A j \in 1 .. i - 1 : Char(p[j]) # "kind"
                              /\ Char(ValueOf(p[i])) = "commit"
    BY <1>1, <2>2, FirstKind
  <2>6. CASE kind = Null /\ \A i \in 1 .. n : ~ Hit(q, i, "kind")
    BY <1>3, <2>4, <2>5, <2>6 DEF TakenAsCommit
  <2>7. ASSUME NEW i \in 1 .. n, kind = q[i], Hit(q, i, "kind"),
               \A j \in 1 .. i - 1 : ~ Hit(q, j, "kind")
        PROVE  TakenAsCommit(kind) <=> KindIsCommit
    <3>1. TakenAsCommit(kind) <=> Char(ValueOf(p[i])) = "commit"
      BY <1>5, <2>3, <2>7 DEF TakenAsCommit
    <3>2. Char(p[i]) = "kind" /\ \A j \in 1 .. i - 1 : Char(p[j]) # "kind"
      BY <1>5, <2>4, <2>7
    <3>3. ASSUME NEW k \in 1 .. n, Char(p[k]) = "kind",
                 \A j \in 1 .. k - 1 : Char(p[j]) # "kind"
          PROVE  k = i
      <4>1. i \notin 1 .. k - 1 /\ k \notin 1 .. i - 1
        BY <3>2, <3>3
      <4> QED
        BY <1>5, <4>1
    <3> QED
      BY <2>5, <3>1, <3>2, <3>3
  <2> QED
    BY <1>3, <1>4, <2>6, <2>7
<1>7. CASE ~ InObject
  <2>1. ~ KindIsCommit
    BY <1>7, NoKind
  <2>2. \A i \in 1 .. n : heap[q[i]].string = Absent
    BY <1>7 DEF TopOK
  <2>3. ~ TakenAsCommit(kind)
    BY <1>4, <2>2 DEF TakenAsCommit
  <2> QED
    BY <1>3, <2>1, <2>3
<1> QED
  BY <1>6, <1>7

AcceptedText ==
    /\ ValueEnd # 0 /\ ~ TooDeep
    /\ require_null_terminated => OnlyNul

CategoryIs ==
    CategoryOfTheText <=>
        (at = "deleted" =>
            (category = "commit" <=>
                 ~ refused /\ AcceptedText /\ KindIsCommit))

LEMMA CategoryMeans == CategoryIs
BY Zenon DEF CategoryIs, CategoryOfTheText, AcceptedText, KindIsCommit,
             OnlyNul, ValueOf

LEMMA CategoryPrimed == CategoryIs'
BY CategoryMeans, PTL

LEMMA AcceptedIs ==
    AcceptedText <=> ~ NotAccepted /\ (require_null_terminated => OnlyNul)
BY DEF AcceptedText, NotAccepted

LEMMA KindKept ==
    ASSUME TextOK, text' = text,
           require_null_terminated' = require_null_terminated
    PROVE  (KindIsCommit' <=> KindIsCommit)
           /\ (AcceptedText' <=> AcceptedText)
<1>1. /\ ValueEnd' = ValueEnd
      /\ \A o : /\ TopName(o)' <=> TopName(o)
                /\ ValueOf(o)' = ValueOf(o)
                /\ Char(o)' = Char(o) /\ Dark(o)' = Dark(o)
      /\ NotAccepted' <=> NotAccepted
      /\ OnlyNul' <=> OnlyNul
  BY TextOnly, PointsKept
<1>2. TopLevel("kind")' = TopLevel("kind")
  <2>1. Length' = Length /\ \A o : Depth(o)' = Depth(o)
    <3>1. Length' = Length
      BY DEF Length
    <3>2. \A S, o : Brackets(S, o)' = Brackets(S, o)
      BY <1>1 DEF Brackets
    <3> QED
      BY <3>1, <3>2 DEF Depth
  <2> QED
    BY <1>1, <2>1 DEF TopLevel
<1>3. KindIsCommit' <=> KindIsCommit
  <2>1. \A o : Char(ValueOf(o))' = Char(ValueOf(o))
    <3> TAKE o
    <3>1. PICK v : v = ValueOf(o)
      OBVIOUS
    <3>2. ValueOf(o)' = v /\ Char(v)' = Char(v)
      BY <1>1, <3>1
    <3>3. Char(ValueOf(o))' = Char(v)'
      BY <3>2 DEF Char
    <3> QED
      BY <3>1, <3>2, <3>3
  <2> QED
    BY <1>1, <1>2, <2>1 DEF KindIsCommit
<1>4. AcceptedText' <=> AcceptedText
  BY <1>1, AcceptedIs DEF AcceptedText, NotAccepted
<1> QED
  BY <1>3, <1>4
-----------------------------------------------------------------------------
(***************************************************************************)
(* The inductive invariant: while a value is read, or accepted, the list   *)
(* at the top level is that of the text so far.                            *)
(***************************************************************************)
CategoryInv ==
    /\ refused => at \in {"fail", "false", "rejected", "deleted"}
    /\ at \in {"value", "element", "name", "true", "accepted"} =>
           Outermost /\ \E n, q, p : TopOK(n, q, p)
    /\ at = "accepted" => TruePoint(ValueEnd, <<>>)
    /\ CategoryOfTheText

(* Where a step may lead.                                                  *)
LEMMA ToGivenUp ==
    ASSUME at' \in {"fail", "false", "rejected"}
    PROVE  CategoryInv'
BY Zenon DEF CategoryInv, CategoryOfTheText

LEMMA ToReading ==
    ASSUME at' \in {"value", "element", "name", "true"}, ~ refused',
           Outermost', \E n, q, p : TopOK(n, q, p)'
    PROVE  CategoryInv'
<1>1. at' # "accepted" /\ at' # "deleted"
  OBVIOUS
<1> QED
  BY <1>1, Zenon DEF CategoryInv, CategoryOfTheText

(* While a value is read no allocation was refused.                        *)
LEMMA Reading ==
    ASSUME CategoryInv,
           at \in {"value", "element", "name", "true", "accepted"}
    PROVE  ~ refused /\ Outermost /\ \E n, q, p : TopOK(n, q, p)
<1>1. at \notin {"fail", "false", "rejected", "deleted"}
  OBVIOUS
<1> QED
  BY <1>1, Zenon DEF CategoryInv

LEMMA CategorizeTells ==
    ASSUME JsonInv, GrammarInv, CategoryInv, Categorize
    PROVE  CategoryInv'
<1>1. /\ at = "accepted" /\ at' = "deleted" /\ text' = text
      /\ require_null_terminated' = require_null_terminated
      /\ refused' = refused
      /\ category' = IF TakenAsCommit(Member("kind"))
                     THEN "commit" ELSE "info"
  BY DEF Categorize, TakenAsCommit, IsCommit, buffer_vars
<1>2. TextOK
  BY NestingIs
<1>3. ~ refused /\ TruePoint(ValueEnd, <<>>)
      /\ \E n, q, p : TopOK(n, q, p)
  BY <1>1, Reading DEF CategoryInv
<1>4. PICK n, q, p : TopOK(n, q, p)
  BY <1>3
<1>5. TakenAsCommit(Member("kind")) <=> KindIsCommit
  BY <1>1, <1>3, <1>4, KindFound
<1>6. AcceptedText
  BY <1>1, <1>3, AcceptedIs DEF GrammarInv
<1>7. (KindIsCommit' <=> KindIsCommit) /\ (AcceptedText' <=> AcceptedText)
  BY <1>1, <1>2, KindKept
<1>8. category' = "commit" <=> TakenAsCommit(Member("kind"))
  <2>1. "commit" # "info"
    OBVIOUS
  <2> QED
    BY <1>1, <2>1
<1>9. CategoryOfTheText'
  BY <1>1, <1>3, <1>5, <1>6, <1>7, <1>8, CategoryPrimed DEF CategoryIs
<1> QED
  BY <1>1, <1>9 DEF CategoryInv

LEMMA FailureTells ==
    ASSUME JsonInv, GrammarInv, CategoryInv, CategorizeFailure
    PROVE  CategoryInv'
<1>1. /\ at = "rejected" /\ at' = "deleted" /\ text' = text
      /\ require_null_terminated' = require_null_terminated
      /\ refused' = refused /\ category' # "commit"
  BY DEF CategorizeFailure, buffer_vars
<1>2. TextOK
  BY NestingIs
<1>3. ~ refused => ~ AcceptedText
  BY <1>1, AcceptedIs DEF GrammarInv
<1>4. AcceptedText' <=> AcceptedText
  BY <1>1, <1>2, KindKept
<1>5. CategoryOfTheText'
  BY <1>1, <1>3, <1>4, CategoryPrimed DEF CategoryIs
<1> QED
  BY <1>1, <1>5 DEF CategoryInv

LEMMA CategoryContainer ==
    ASSUME JsonInv, CategoryInv, NEW type \in Containers,
           ParseContainer(type)
    PROVE  CategoryInv'
<1>1. /\ at = "value" /\ Char(offset) = Opening[type]
      /\ text' = text /\ born' = born /\ refused' = refused
  BY DEF ParseContainer, buffer_vars
<1>2. ~ refused /\ Outermost /\ \E n, q, p : TopOK(n, q, p)
  BY <1>1, Reading
<1>3. PICK n, q, p : TopOK(n, q, p)
  BY <1>2
<1>4. \/ at' = "false"
      \/ /\ Char(Skip(offset + 1)) = Closing[type]
         /\ heap' = [heap EXCEPT ![item].type = type, ![item].child = Null]
         /\ offset' = Skip(offset + 1) + 1
         /\ at' = "true"
         /\ stack' = stack
      \/ /\ stack' = Append(stack, [type |-> type, item |-> item,
                                    head |-> Null, current |-> Null])
         /\ offset' = Skip(offset + 1) - 1
         /\ at' = "element"
         /\ heap' = heap
  BY Zenon DEF ParseContainer
<1>5. CASE at' = "false"
  BY <1>5, ToGivenUp
<1>6. CASE /\ Char(Skip(offset + 1)) = Closing[type]
           /\ heap' = [heap EXCEPT ![item].type = type,
                                   ![item].child = Null]
           /\ offset' = Skip(offset + 1) + 1
           /\ at' = "true"
           /\ stack' = stack
  <2>1. Outermost' /\ TopOK(n, q, p)'
    BY <1>1, <1>2, <1>3, <1>6, CategoryEmpty
  <2> QED
    BY <1>1, <1>2, <1>6, <2>1, ToReading
<1>7. CASE /\ stack' = Append(stack, [type |-> type, item |-> item,
                                      head |-> Null, current |-> Null])
           /\ offset' = Skip(offset + 1) - 1
           /\ at' = "element"
           /\ heap' = heap
  <2>1. PICK f : f = [type |-> type, item |-> item,
                      head |-> Null, current |-> Null]
    OBVIOUS
  <2>2. /\ f.item = item /\ f.type = type /\ f.head = Null
        /\ f.current = Null /\ stack' = Append(stack, f)
    BY <1>7, <2>1
  <2>3. Outermost' /\ TopOK(n, q, p)'
    BY <1>1, <1>2, <1>3, <1>7, <2>2, CategoryOpen
  <2> QED
    BY <1>1, <1>2, <1>7, <2>3, ToReading
<1> QED
  BY <1>4, <1>5, <1>6, <1>7

LEMMA CategoryKept ==
    ASSUME JsonInv, CategoryInv, Ended \/ UNCHANGED vars
    PROVE  CategoryInv'
<1>1. /\ text' = text /\ heap' = heap /\ stack' = stack /\ born' = born
      /\ offset' = offset /\ item' = item /\ at' = at
      /\ category' = category /\ refused' = refused
      /\ require_null_terminated' = require_null_terminated
  BY DEF Ended, vars, buffer_vars
<1>2. TextOK
  BY NestingIs
<1>3. /\ ValueEnd' = ValueEnd /\ (InObject' <=> InObject)
      /\ \A o : /\ ValueOf(o)' = ValueOf(o)
                /\ Char(o)' = Char(o) /\ Dark(o)' = Dark(o)
      /\ \A k, p, pos : Covers(k, p, pos)' <=> Covers(k, p, pos)
  BY <1>1, <1>2, TextOnly
<1>4. Dark(offset)' = Dark(offset)
  BY <1>1 DEF Dark, Char, Length
<1>5. Outermost' <=> Outermost
  BY <1>1, <1>3, <1>4 DEF Outermost
<1>6. ASSUME NEW n, NEW q, NEW p
      PROVE  TopOK(n, q, p)' <=> TopOK(n, q, p)
  <2>1. Listed(n, q)' <=> Listed(n, q)
    BY <1>1 DEF Listed, ListHead
  <2>2. /\ NamedOf(n)' = NamedOf(n) /\ Pos' = Pos
        /\ Valuing' <=> Valuing
    BY <1>1, <1>3 DEF NamedOf, Naming, Pos, Valuing
  <2>3. Covers(NamedOf(n), p, Pos)' <=> Covers(NamedOf(n), p, Pos)
    BY <1>3, <2>2
  <2>4. \A m : IsCommit(m)' <=> IsCommit(m)
    BY <1>1 DEF IsCommit
  <2>5. Mates(n, q, p)' <=> Mates(n, q, p)
    BY <1>1, <1>3, <1>4, <2>2, <2>4 DEF Mates
  <2> QED
    BY <1>1, <1>3, <2>1, <2>3, <2>5 DEF TopOK
<1>7. TruePoint(ValueEnd, <<>>)' <=> TruePoint(ValueEnd, <<>>)
  BY <1>1, <1>2, <1>3, PointsKept
<1>8. CategoryOfTheText' <=> CategoryOfTheText
  BY <1>1, <1>2, KindKept, CategoryMeans, CategoryPrimed DEF CategoryIs
<1> QED
  BY <1>1, <1>5, <1>6, <1>7, <1>8 DEF CategoryInv

LEMMA CategoryStep ==
    ASSUME JsonInv, GrammarInv, CategoryInv, [Next]_vars
    PROVE  CategoryInv'
<1>1. CASE Start
  <2>1. /\ at = "start"
        /\ \/ at' = "rejected"
           \/ at' = "value" /\ refused' = refused
    BY <1>1 DEF Start, Refuse
  <2>2. CASE at' = "value" /\ refused' = refused
    <3>1. ~ refused
      BY <2>1 DEF CategoryInv
    <3>2. Outermost' /\ \E n, q, p : TopOK(n, q, p)'
      BY <1>1, <2>2, <3>1, CategoryStart
    <3> QED
      BY <2>2, <3>1, <3>2, ToReading
  <2> QED
    BY <2>1, <2>2, ToGivenUp
<1>2. CASE ParseLiteral \/ ParseNumber \/ ParseString
  <2>1. /\ at = "value"
        /\ \/ at' = "false"
           \/ at' = "true" /\ refused' = refused
    BY <1>2 DEF ParseLiteral, ParseNumber, ParseString, Refuse
  <2>2. CASE at' = "true" /\ refused' = refused
    <3>1. ~ refused /\ Outermost /\ \E n, q, p : TopOK(n, q, p)
      BY <2>1, Reading
    <3>2. PICK n, q, p : TopOK(n, q, p)
      BY <3>1
    <3>3. Outermost' /\ TopOK(n, q, p)'
      BY <1>2, <2>2, <3>1, <3>2, CategoryScalar
    <3> QED
      BY <2>2, <3>1, <3>3, ToReading
  <2> QED
    BY <2>1, <2>2, ToGivenUp
<1>3. CASE NoValue \/ NoName \/ Fail \/ Reject
  <2>1. at' \in {"fail", "false", "rejected"}
    BY <1>3 DEF NoValue, NoName, Fail, Reject
  <2> QED
    BY <2>1, ToGivenUp
<1>4. CASE \E type \in Containers : ParseContainer(type)
  BY <1>4, CategoryContainer
<1>5. CASE NewElement
  <2>1. /\ at = "element"
        /\ \/ at' = "fail"
           \/ at' \in {"name", "value"} /\ refused' = refused
    BY <1>5 DEF NewElement, Refuse
  <2>2. CASE at' \in {"name", "value"} /\ refused' = refused
    <3>1. ~ refused /\ Outermost /\ \E n, q, p : TopOK(n, q, p)
      BY <2>1, Reading
    <3>2. PICK n, q, p : TopOK(n, q, p)
      BY <3>1
    <3>3. Outermost' /\ \E m, r : TopOK(m, r, p)'
      BY <1>5, <2>2, <3>1, <3>2, CategoryNewElement
    <3> QED
      BY <2>2, <3>1, <3>3, ToReading
  <2> QED
    BY <2>1, <2>2, ToGivenUp
<1>6. CASE Name
  <2>1. /\ at = "name"
        /\ \/ at' = "fail"
           \/ at' = "value" /\ refused' = refused
    BY <1>6 DEF Name, Refuse
  <2>2. CASE at' = "value" /\ refused' = refused
    <3>1. ~ refused /\ Outermost /\ \E n, q, p : TopOK(n, q, p)
      BY <2>1, Reading
    <3>2. PICK n, q, p : TopOK(n, q, p)
      BY <3>1
    <3>3. Outermost' /\ \E r : TopOK(n, q, r)'
      BY <1>6, <2>2, <3>1, <3>2, CategoryName
    <3> QED
      BY <2>2, <3>1, <3>3, ToReading
  <2> QED
    BY <2>1, <2>2, ToGivenUp
<1>7. CASE Close
  <2>1. at = "true" /\ at' = at /\ refused' = refused
    BY <1>7 DEF Close
  <2>2. ~ refused /\ Outermost /\ \E n, q, p : TopOK(n, q, p)
    BY <2>1, Reading
  <2>3. PICK n, q, p : TopOK(n, q, p)
    BY <2>2
  <2>4. Outermost' /\ TopOK(n, q, p)'
    BY <1>7, <2>2, <2>3, CategoryClose
  <2> QED
    BY <2>1, <2>2, <2>4, ToReading
<1>8. CASE AfterElement
  <2>1. at = "true" /\ at' \in {"element", "fail"} /\ refused' = refused
    BY <1>8 DEF AfterElement
  <2>2. CASE at' = "element"
    <3>1. ~ refused /\ Outermost /\ \E n, q, p : TopOK(n, q, p)
      BY <2>1, Reading
    <3>2. PICK n, q, p : TopOK(n, q, p)
      BY <3>1
    <3>3. Outermost' /\ TopOK(n, q, p)'
      BY <1>8, <2>2, <3>1, <3>2, CategoryAfterElement
    <3> QED
      BY <2>1, <2>2, <3>1, <3>3, ToReading
  <2> QED
    BY <2>1, <2>2, ToGivenUp
<1>9. CASE Accept
  <2>1. at = "true" /\ at' = "accepted" /\ refused' = refused
    BY <1>9 DEF Accept
  <2>2. ~ refused /\ Outermost /\ \E n, q, p : TopOK(n, q, p)
    BY <2>1, Reading
  <2>3. PICK n, q, p : TopOK(n, q, p)
    BY <2>2
  <2>4. Outermost' /\ TopOK(n, q, p)' /\ TruePoint(ValueEnd, <<>>)'
    BY <1>9, <2>2, <2>3, CategoryAccept
  <2>5. CategoryOfTheText'
    BY <2>1 DEF CategoryOfTheText
  <2> QED
    BY <2>1, <2>2, <2>4, <2>5 DEF CategoryInv
<1>10. CASE Categorize
  BY <1>10, CategorizeTells
<1>11. CASE CategorizeFailure
  BY <1>11, FailureTells
<1>12. CASE Ended \/ UNCHANGED vars
  BY <1>12, CategoryKept
<1> QED
  BY <1>1, <1>2, <1>3, <1>4, <1>5, <1>6, <1>7, <1>8, <1>9, <1>10, <1>11,
     <1>12 DEF Next

(* Of all texts of whatever length, and whatever allocation is refused,    *)
(* the consumer counts those as commits that the parser accepts and whose  *)
(* first member "kind" at the top level is "commit": what it finds in the  *)
(* tree, along the next pointers of the root's children, is what stands    *)
(* in the text, however deep the values before it are nested.              *)
THEOREM JsonCategoryOfTheText == Spec => []CategoryOfTheText
<1>1. Init => CategoryInv
  BY DEF Init, CategoryInv, CategoryOfTheText
<1>2. JsonInv /\ GrammarInv /\ CategoryInv /\ [Next]_vars => CategoryInv'
  BY CategoryStep
<1>3. Init => GrammarInv
  BY DEF Init, GrammarInv
<1>4. JsonInv /\ GrammarInv /\ [Next]_vars => GrammarInv'
  BY GrammarStep
<1>5. CategoryInv => CategoryOfTheText
  BY DEF CategoryInv
<1> QED
  BY <1>1, <1>2, <1>3, <1>4, <1>5, JsonInvariant, PTL DEF Spec
=============================================================================
