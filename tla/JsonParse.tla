------------------------------ MODULE JsonParse ------------------------------
(***************************************************************************)
(* The parser of cJSON.c as the consumer uses it: a payload becomes a tree *)
(* of items on the heap, the consumer looks for the member "kind" at its   *)
(* top level and deletes the tree (consumer.c:9-49).                       *)
(*                                                                         *)
(* A text is a sequence of characters in which a literal (a string, a      *)
(* number, null) stands as one character: JsonString has the inside of the *)
(* strings.  Offsets count from zero, as in the code.  The calls that      *)
(* parse_array and parse_object make through parse_value are frames of an  *)
(* explicit stack, and any allocation may be refused.                      *)
(***************************************************************************)
EXTENDS Integers, Sequences, FiniteSets

CONSTANTS Texts,         \* what is parsed, the NUL included if there is one
          NestingLimit   \* CJSON_NESTING_LIMIT

Containers == {"Array", "Object"}
Opening == [Array |-> "[", Object |-> "{"]
FaultyClosing == [Array |-> "]", Object |-> "]"]
Closing == [Array |-> "]", Object |-> "}"]
Strings == {"kind", "commit", "t", "#commit"}
Scalars == {"null", "1"} \cup Strings
Blanks == {" ", "NUL"}   \* every byte up to 32
Characters == {"[", "]", "{", "}", ",", ":", "?"} \cup Scalars \cup Blanks

ASSUME JsonParseAssumption ==
    /\ Texts \subseteq Seq(Characters) \ {<<>>}
    /\ NestingLimit \in Nat

VARIABLES text, offset, depth,
          require_null_terminated,
          heap,       \* heap[n]: the n-th item allocated
          born,       \* how many items were allocated
          strings,    \* how many strings are allocated
          stack,      \* the calls of parse_array and parse_object
          item,       \* the item that parse_value is to fill
          at,         \* where the parser and its caller are
          category,   \* what the consumer counts the text as
          refused     \* history: an allocation was refused

buffer_vars == <<text, require_null_terminated>>
vars == <<buffer_vars, offset, depth, heap, born, strings, stack, item, at,
          category, refused>>

Null == 0
Absent == "absent"   \* a string pointer that is NULL
Root == 1

Length == Len(text)

(* The character at an offset: there is none past the end. *)
Char(o) == IF o < Length THEN text[o + 1] ELSE "outside"

(* buffer_skip_whitespace: to the first byte above 32, or to the last byte. *)
Skip(o) ==
    IF o >= Length THEN o
    ELSE LET dark == {q \in o .. Length - 1 : Char(q) \notin Blanks}
         IN IF dark = {} THEN Length - 1
                         ELSE CHOOSE q \in dark : \A r \in dark : q <= r

Free == [type |-> "free", next |-> Null, prev |-> Null, child |-> Null,
         string |-> Absent, valuestring |-> Absent]

Blank == [Free EXCEPT !.type = "Invalid"]

Ids == 1 .. Length + 1

Live == {n \in Ids : heap[n].type # "free"}

(* What cJSON_Delete visits from an item: its siblings and all below them. *)
Visited(n) ==
    LET visited[k \in 0 .. born] ==
            IF k = 0 THEN {n} \ {Null}
            ELSE visited[k - 1] \cup
                 ((UNION {{heap[m].next, heap[m].child} :
                              m \in visited[k - 1]}) \ {Null})
    IN visited[born]

Held(S) == Cardinality({n \in S : heap[n].string # Absent})
             + Cardinality({n \in S : heap[n].valuestring # Absent})

(* The name of the last member is forgotten. *)
FaultyDelete(n) ==
    /\ heap' = [m \in Ids |-> IF m \in Visited(n) THEN Free ELSE heap[m]]
    /\ strings' = strings -
           Cardinality({m \in Visited(n) : heap[m].valuestring # Absent})

Delete(n) ==
    /\ heap' = [m \in Ids |-> IF m \in Visited(n) THEN Free ELSE heap[m]]
    /\ strings' = strings - Held(Visited(n))

Top == stack[Len(stack)]

Pop == SubSeq(stack, 1, Len(stack) - 1)

Init ==
    /\ text \in Texts
    /\ require_null_terminated \in BOOLEAN
    /\ offset = 0 /\ depth = 0
    /\ heap = [n \in Ids |-> Free] /\ born = 0 /\ strings = 0
    /\ stack = <<>> /\ item = Null
    /\ at = "start" /\ category = "none"
    /\ refused = FALSE

(* The bracket at hand is not counted. *)
FaultyAtLimit == depth > NestingLimit

AtLimit == depth >= NestingLimit

(* parse_object: cannot_access_at_index(input_buffer, 1) *)
NothingFollows == offset + 1 >= Length

Refuse(where) == refused' = TRUE /\ at' = where
-----------------------------------------------------------------------------
(* cJSON_ParseWithLengthOpts, up to its call of parse_value. *)
Start ==
    /\ at = "start"
    /\ \/ /\ Refuse("rejected")
          /\ UNCHANGED <<offset, heap, born, item>>
       \/ /\ born' = Root
          /\ heap' = [heap EXCEPT ![Root] = Blank]
          /\ item' = Root
          /\ offset' = Skip(0)
          /\ at' = "value"
          /\ UNCHANGED refused
    /\ UNCHANGED <<buffer_vars, depth, strings, stack, category>>

(* parse_value: null, true and false are one scalar here. *)
ParseLiteral ==
    /\ at = "value" /\ Char(offset) = "null"
    /\ heap' = [heap EXCEPT ![item].type = "NULL"]
    /\ offset' = offset + 1
    /\ at' = "true"
    /\ UNCHANGED <<buffer_vars, depth, born, strings, stack, item, category,
                   refused>>

(* parse_number copies the digits to a buffer that it frees again; what   *)
(* strtod makes of them is not kept, and what it rejects is no value.     *)
ParseNumber ==
    /\ at = "value" /\ Char(offset) = "1"
    /\ \/ Refuse("false") /\ UNCHANGED <<heap, offset>>
       \/ /\ heap' = [heap EXCEPT ![item].type = "Number"]
          /\ offset' = offset + 1
          /\ at' = "true"
          /\ UNCHANGED refused
    /\ UNCHANGED <<buffer_vars, depth, born, strings, stack, item, category>>

ParseString ==
    /\ at = "value" /\ Char(offset) \in Strings
    /\ offset' = offset + 1
    /\ \/ Refuse("false") /\ UNCHANGED <<heap, strings>>
       \/ /\ strings' = strings + 1
          /\ heap' = [heap EXCEPT ![item].type = "String",
                                  ![item].valuestring = Char(offset)]
          /\ at' = "true"
          /\ UNCHANGED refused
    /\ UNCHANGED <<buffer_vars, depth, born, stack, item, category>>

(* Nothing that begins a value, or a sign without a number behind it. *)
NoValue ==
    /\ at = "value"
    /\ Char(offset) \notin Scalars \cup {"[", "{"}
    /\ at' = "false"
    /\ UNCHANGED <<buffer_vars, offset, depth, heap, born, strings, stack,
                   item, category, refused>>

(* The entry of parse_array and of parse_object. *)
ParseContainer(type) ==
    /\ at = "value" /\ Char(offset) = Opening[type]
    /\ LET first == Skip(offset + 1) IN
       \/ /\ AtLimit
          /\ at' = "false"
          /\ UNCHANGED <<offset, depth, heap, stack>>
       \/ /\ ~ AtLimit
          /\ Char(first) = Closing[type]
          /\ heap' = [heap EXCEPT ![item].type = type, ![item].child = Null]
          /\ offset' = first + 1
          /\ at' = "true"
          /\ UNCHANGED <<depth, stack>>
       \/ /\ ~ AtLimit
          /\ first >= Length
          /\ depth' = depth + 1
          /\ offset' = first - 1
          /\ at' = "false"
          /\ UNCHANGED <<heap, stack>>
       \/ /\ ~ AtLimit
          /\ first < Length /\ Char(first) # Closing[type]
          /\ depth' = depth + 1
          /\ stack' = Append(stack, [type |-> type, item |-> item,
                                     head |-> Null, current |-> Null])
          /\ offset' = first - 1
          /\ at' = "element"
          /\ UNCHANGED heap
    /\ UNCHANGED <<buffer_vars, born, strings, item, category, refused>>
-----------------------------------------------------------------------------
(* The next item is linked behind the current one. *)
Attach(n) ==
    /\ heap' = [m \in Ids |->
                    IF m = n THEN [Blank EXCEPT !.prev = Top.current]
                    ELSE IF m = Top.current THEN [heap[m] EXCEPT !.next = n]
                    ELSE heap[m]]
    /\ stack' = [stack EXCEPT ![Len(stack)].current = n,
                              ![Len(stack)].head = IF @ = Null THEN n ELSE @]
    /\ item' = n

NewElement ==
    /\ at = "element"
    /\ \/ /\ Refuse("fail")
          /\ UNCHANGED <<offset, heap, born, stack, item>>
       \/ /\ born' = born + 1
          /\ Attach(born + 1)
          /\ IF Top.type = "Object"
             THEN at' = "name" /\ UNCHANGED offset
             ELSE at' = "value" /\ offset' = Skip(offset + 1)
          /\ UNCHANGED refused
    /\ UNCHANGED <<buffer_vars, depth, strings, category>>

(* parse_object: no name comes after the brace or the comma. *)
NoName ==
    /\ at = "name"
    /\ LET name == Skip(offset + 1) IN
       \/ /\ NothingFollows
          /\ UNCHANGED offset
       \/ /\ ~ NothingFollows
          /\ Char(name) \notin Strings
          /\ offset' = name + 1
    /\ at' = "fail"
    /\ UNCHANGED <<buffer_vars, depth, heap, born, strings, stack, item,
                   category, refused>>

(* The name, which ends up in string, and the colon. *)
Name ==
    /\ at = "name"
    /\ ~ NothingFollows
    /\ LET name == Skip(offset + 1)
           colon == Skip(name + 1)
       IN /\ Char(name) \in Strings
          /\ \/ Refuse("fail") /\ offset' = name + 1
                               /\ UNCHANGED <<heap, strings>>
             \/ /\ strings' = strings + 1
                /\ heap' = [heap EXCEPT ![item].type = "String",
                                        ![item].string = Char(name)]
                /\ \/ Char(colon) # ":" /\ at' = "fail" /\ offset' = colon
                   \/ /\ Char(colon) = ":"
                      /\ at' = "value"
                      /\ offset' = Skip(colon + 1)
                /\ UNCHANGED refused
    /\ UNCHANGED <<buffer_vars, depth, born, stack, item, category>>

(* The head of the list does not learn which item is the last. *)
FaultyClose ==
    /\ at = "true" /\ stack # <<>> /\ Char(Skip(offset)) = Closing[Top.type]
    /\ heap' = [heap EXCEPT ![Top.item].type = Top.type,
                            ![Top.item].child = Top.head]
    /\ depth' = depth - 1
    /\ stack' = Pop
    /\ offset' = Skip(offset) + 1
    /\ UNCHANGED <<buffer_vars, born, strings, item, at, category, refused>>

(* The end of an array or object with elements. *)
Close ==
    /\ at = "true" /\ stack # <<>> /\ Char(Skip(offset)) = Closing[Top.type]
    /\ heap' = [heap EXCEPT ![Top.head].prev = Top.current,
                            ![Top.item].type = Top.type,
                            ![Top.item].child = Top.head]
    /\ depth' = depth - 1
    /\ stack' = Pop
    /\ offset' = Skip(offset) + 1
    /\ UNCHANGED <<buffer_vars, born, strings, item, at, category, refused>>

(* After an element: another one, or neither a comma nor the end. *)
AfterElement ==
    /\ at = "true" /\ stack # <<>>
    /\ offset' = Skip(offset)
    /\ \/ Char(Skip(offset)) = "," /\ at' = "element"
       \/ /\ Char(Skip(offset)) \notin {",", Closing[Top.type]}
          /\ at' = "fail"
    /\ UNCHANGED <<buffer_vars, depth, heap, born, strings, stack, item,
                   category, refused>>

(* The call does not return. *)
FaultyFail ==
    /\ stack # <<>>
    /\ at \in {"fail", "false"}
    /\ Delete(Top.head)
    /\ at' = "false"
    /\ UNCHANGED <<buffer_vars, offset, depth, born, stack, item, category,
                   refused>>

(* The label fail of parse_array and parse_object, where a value that was *)
(* not parsed leads as well.                                              *)
Fail ==
    /\ stack # <<>>
    /\ at \in {"fail", "false"}
    /\ Delete(Top.head)
    /\ stack' = Pop
    /\ at' = "false"
    /\ UNCHANGED <<buffer_vars, offset, depth, born, item, category, refused>>
-----------------------------------------------------------------------------
(* cJSON_ParseWithLengthOpts, after its call of parse_value. *)
Accept ==
    /\ at = "true" /\ stack = <<>>
    /\ require_null_terminated => Char(Skip(offset)) = "NUL"
    /\ offset' = IF require_null_terminated THEN Skip(offset) ELSE offset
    /\ at' = "accepted"
    /\ UNCHANGED <<buffer_vars, depth, heap, born, strings, stack, item,
                   category, refused>>

Reject ==
    /\ stack = <<>>
    /\ \/ at = "false" /\ UNCHANGED offset
       \/ /\ at = "true" /\ require_null_terminated
          /\ Char(Skip(offset)) # "NUL"
          /\ offset' = Skip(offset)
    /\ Delete(Root)
    /\ at' = "rejected"
    /\ UNCHANGED <<buffer_vars, depth, born, stack, item, category, refused>>

(* The whole tree is searched. *)
FaultyMember(name) ==
    LET named == {n \in Live : heap[n].string = name}
    IN IF named = {} THEN Null ELSE CHOOSE n \in named : \A m \in named : n <= m

(* get_object_item: the first member of the name, or the first without. *)
Member(name) ==
    LET member[n \in 0 .. born] ==
            IF n = Null \/ heap[n].string \in {name, Absent} THEN n
            ELSE member[heap[n].next]
    IN member[heap[Root].child]

(* The consumer takes the kind, and deletes the tree. *)
Categorize ==
    /\ at = "accepted"
    /\ LET kind == Member("kind") IN
           category' = IF kind # Null /\ heap[kind].string # Absent
                          /\ heap[kind].type = "String"
                          /\ heap[kind].valuestring = "commit"
                       THEN "commit" ELSE "info"
    /\ Delete(Root)
    /\ at' = "deleted"
    /\ UNCHANGED <<buffer_vars, offset, depth, born, stack, item, refused>>

CategorizeFailure ==
    /\ at = "rejected"
    /\ category' = "info"
    /\ at' = "deleted"
    /\ UNCHANGED <<buffer_vars, offset, depth, heap, born, strings, stack,
                   item, refused>>

Ended == at = "deleted" /\ UNCHANGED vars

Next ==
    \/ Start
    \/ ParseLiteral \/ ParseNumber \/ ParseString \/ NoValue
    \/ \E type \in Containers : ParseContainer(type)
    \/ NewElement \/ NoName \/ Name \/ Close \/ AfterElement \/ Fail
    \/ Accept \/ Reject \/ Categorize \/ CategorizeFailure
    \/ Ended

Spec == Init /\ [][Next]_vars

(* One thread parses, and it keeps running. *)
FairSpec == Spec /\ WF_vars(Next)
-----------------------------------------------------------------------------
Places == {"start", "value", "element", "name", "true", "false", "fail",
           "accepted", "rejected", "deleted"}

(* Every variable keeps its type: the offset never leaves the text, and    *)
(* the calls under way are never more than the limit.                      *)
TypeOK ==
    /\ text \in Seq(Characters) /\ text # <<>>
    /\ require_null_terminated \in BOOLEAN
    /\ offset \in 0 .. Length
    /\ depth \in 0 .. NestingLimit
    /\ Len(stack) <= depth
    /\ at \notin {"fail", "false", "rejected", "deleted"} =>
           depth = Len(stack)
    /\ heap \in [Ids -> [type : {"free", "Invalid", "NULL", "Number",
                                 "String"} \cup Containers,
                         next : Ids \cup {Null}, prev : Ids \cup {Null},
                         child : Ids \cup {Null},
                         string : Strings \cup {Absent},
                         valuestring : Strings \cup {Absent}]]
    /\ born \in 0 .. Length + 1
    /\ strings \in Nat
    /\ stack \in Seq([type : Containers, item : Ids, head : Ids \cup {Null},
                      current : Ids \cup {Null}])
    /\ item \in Ids \cup {Null}
    /\ at \in Places
    /\ category \in {"none", "commit", "info"}
    /\ refused \in BOOLEAN

(* What leads to an item: a sibling or a parent allocated before it, a     *)
(* call that is building its list, or the caller of the parser.            *)
Owners(n) ==
    {<<"sibling", m>> : m \in {k \in 1 .. n - 1 : heap[k].next = n}} \cup
    {<<"parent", m>> : m \in {k \in 1 .. n - 1 : heap[k].child = n}} \cup
    {<<"call", k>> : k \in {j \in DOMAIN stack : stack[j].head = n}} \cup
    {<<"caller", 0>> : k \in {Root} \cap {n}}

(* At every moment each item has exactly one owner and each string is held *)
(* by an item, whatever fails and wherever: a deletion frees everything,   *)
(* and nothing twice.  When the consumer has done with the text nothing is *)
(* left of it.                                                             *)
EveryItemOwned ==
    /\ \A n \in Live : Cardinality(Owners(n)) = 1
    /\ \A n \in Ids \ (Live \cup {Root}) : Owners(n) = {}
    /\ strings = Held(Live)
    /\ at = "deleted" => Live = {}

Siblings(n) ==
    LET siblings[k \in 0 .. born] ==
            IF k = 0 THEN {n}
            ELSE siblings[k - 1] \cup
                 ({heap[m].next : m \in siblings[k - 1]} \ {Null})
    IN siblings[born]

(* The lists that are handed on are linked both ways, and their head leads *)
(* to their last item: cJSON_AddItemToArray relies on it.                  *)
ListsLinked ==
    \A n \in Live :
        /\ heap[n].next # Null => heap[heap[n].next].prev = n
        /\ heap[n].child # Null =>
               LET last == heap[heap[n].child].prev
               IN /\ last \in Siblings(heap[n].child)
                  /\ heap[last].next = Null
-----------------------------------------------------------------------------
(* The grammar of JSON, for reference.  Grammar[o][rule] is the offset     *)
(* behind what the rule reads from o on, or 0 if it reads nothing.         *)
Dark(o) ==
    LET dark == {q \in o .. Length - 1 : Char(q) \notin Blanks}
    IN IF dark = {} THEN Length ELSE CHOOSE q \in dark : \A r \in dark : q <= r

Value(g, o) ==
    LET first == Dark(o)
        inner == Dark(first + 1)
    IN  IF Char(first) \in Scalars THEN first + 1
        ELSE IF Char(first) = "[" THEN
            IF Char(inner) = "]" THEN inner + 1 ELSE g[first + 1]["elements"]
        ELSE IF Char(first) = "{" THEN
            IF Char(inner) = "}" THEN inner + 1 ELSE g[first + 1]["members"]
        ELSE 0

(* A value ends at v: more of them, or the end of the array or object. *)
Rest(v, more, close) ==
    IF v = 0 THEN 0
    ELSE IF Char(Dark(v)) = "," THEN more
    ELSE IF Char(Dark(v)) = close THEN Dark(v) + 1
    ELSE 0

Elements(g, o) ==
    LET v == Value(g, o)
    IN  Rest(v, g[Dark(v) + 1]["elements"], "]")

Members(g, o) ==
    LET name == Dark(o)
        colon == Dark(name + 1)
        v == Value(g, colon + 1)
    IN  IF Char(name) \in Strings /\ Char(colon) = ":"
        THEN Rest(v, g[Dark(v) + 1]["members"], "}")
        ELSE 0

Grammar[o \in 0 .. Length + 1] ==
    [rule \in {"value", "elements", "members"} |->
        CASE rule = "value" -> Value(Grammar, o)
          [] rule = "elements" -> Elements(Grammar, o)
          [] rule = "members" -> Members(Grammar, o)]

ValueEnd == Grammar[0]["value"]

Brackets(S, o) == Cardinality({q \in 0 .. o : Char(q) \in S})

Depth(o) == Brackets({"[", "{"}, o) - Brackets({"]", "}"}, o)

TooDeep == \E o \in 0 .. ValueEnd - 1 : Depth(o) > NestingLimit

(* If memory does not run out the parser accepts exactly the texts that    *)
(* begin with a value of the grammar within the nesting limit, and, when   *)
(* that is asked for, have nothing but blanks up to the NUL after it.      *)
AcceptsTheGrammar ==
    at \in {"accepted", "rejected"} /\ ~ refused =>
        (at = "accepted" <=>
            /\ ValueEnd # 0 /\ ~ TooDeep
            /\ require_null_terminated =>
                   /\ Dark(ValueEnd) = Length /\ Char(Length - 1) = "NUL")

(* The members of the object at the top level that have a name. *)
TopLevel(name) ==
    {o \in 0 .. Length - 1 :
        /\ Char(o) = name /\ Depth(o) = 1
        /\ Char(Dark(0)) = "{" /\ Char(Dark(o + 1)) = ":"}

(* A payload is a commit exactly when it is accepted and the first member  *)
(* "kind" of the object itself, not of one inside it, has that value.      *)
CategoryOfTheText ==
    at = "deleted" =>
        (category = "commit" <=>
            /\ ~ refused
            /\ ValueEnd # 0 /\ ~ TooDeep
            /\ require_null_terminated =>
                   /\ Dark(ValueEnd) = Length /\ Char(Length - 1) = "NUL"
            /\ \E o \in TopLevel("kind") :
                   /\ o < ValueEnd
                   /\ \A p \in TopLevel("kind") : o <= p
                   /\ Char(Dark(Dark(o + 1) + 1)) = "commit")

(* The report has the consumer go by the member "t", and its schemas have   *)
(* no "kind": a document whose first "t" is "#commit" would be a commit    *)
(* (report.tex:35 and 75).                                                 *)
DocumentedCategory ==
    at = "deleted" /\ ~ refused /\ ~ require_null_terminated
        /\ ValueEnd = Length /\ ~ TooDeep
        /\ (\E o \in TopLevel("t") :
               /\ \A p \in TopLevel("t") : o <= p
               /\ Char(Dark(Dark(o + 1) + 1)) = "#commit")
        => category = "commit"

(* Skipping blanks may step the offset back: still every parse ends.       *)
Terminates == <>(at = "deleted")
=============================================================================
