-------------------------------- MODULE Json --------------------------------
(***************************************************************************)
(* components/source/utils/json.c: trees of nodes, their text, and the     *)
(* parser.  A character is a string of one character; "w" stands for every *)
(* character that means nothing to the parser.  Allocations succeed while  *)
(* there are nodes left; a caller appends only roots, never below          *)
(* themselves, and prints and deletes what it may.                         *)
(***************************************************************************)
EXTENDS Integers, SequencesExt

CONSTANTS JNode, JNull,
          JNames,               \* what callers name nodes,
          JStrings, JIntegers, JDoubles \* and set them to; doubles in millionths

VARIABLE jn                     \* the cJSON of each node; type "free": not allocated

JLive == {n \in JNode : jn[n].type # "free"}
JRoots == {n \in JLive : jn[n].parent = JNull}
Blank(type, name, value) ==
  [type |-> type, name |-> name, value |-> value, parent |-> JNull, child |-> JNull,
   next |-> JNull, prev |-> JNull, childNum |-> 0]
FreeNode == Blank("free", <<>>, <<>>)

JInit == jn = [n \in JNode |-> FreeNode]

-----------------------------------------------------------------------------
\* n->f = v, where n may be null and nothing is written then.
JPut(s, n, f, v) == IF n = JNull THEN s ELSE [s EXCEPT ![n][f] = v]

\* The nodes met from n by the steps of nextOf; a walk without an end is cut.
JWalk(n, nextOf(_)) ==
  LET at[i \in 0 .. Cardinality(JNode)] ==
        IF i = 0 THEN n ELSE LET m == at[i - 1] IN IF m = JNull THEN JNull ELSE nextOf(m)
  IN SelectSeq([i \in 1 .. Cardinality(JNode) + 1 |-> at[i - 1]], LAMBDA m : m # JNull)

Children(s, n) == JWalk(s[n].child, LAMBDA m : s[m].next)

GetIndex(s, n, idx) == IF idx >= s[n].childNum THEN JNull ELSE Children(s, n)[idx + 1]

GetField(s, n, name) ==
  LET same == SelectSeq(Children(s, n), LAMBDA m : s[m].name = name)
  IN IF same = <<>> THEN JNull ELSE Head(same)

Appended(s, p, n) ==
  LET c == Children(s, p)
      linked == IF c = <<>> THEN JPut(s, p, "child", n)
                            ELSE JPut(JPut(s, Last(c), "next", n), n, "prev", Last(c))
  IN JPut(JPut(linked, n, "parent", p), p, "childNum", s[p].childNum + 1)

\* Mutant: the next sibling still points back to the node.
DetachedHalf(s, n) ==
  LET p == s[n].parent
      out == IF p = JNull THEN s ELSE
               LET t == IF s[p].child = n THEN JPut(s, p, "child", s[n].next) ELSE s
               IN JPut(t, p, "childNum", s[p].childNum - 1)
      closed == JPut(out, s[n].prev, "next", s[n].next)
  IN JPut(JPut(JPut(closed, n, "parent", JNull), n, "prev", JNull), n, "next", JNull)

Detached(s, n) ==
  LET p == s[n].parent
      out == IF p = JNull THEN s ELSE
               LET t == IF s[p].child = n THEN JPut(s, p, "child", s[n].next) ELSE s
               IN JPut(t, p, "childNum", s[p].childNum - 1)
      closed == JPut(JPut(out, s[n].prev, "next", s[n].next), s[n].next, "prev", s[n].prev)
  IN JPut(JPut(JPut(closed, n, "parent", JNull), n, "prev", JNull), n, "next", JNull)

\* cJSON_TreeBegin, cJSON_TreeNext: children before their parents.
TreeBegin(s, n) == Last(JWalk(n, LAMBDA m : s[m].child))
TreeNext(s, n) == IF s[n].next # JNull THEN TreeBegin(s, s[n].next) ELSE s[n].parent

Deleted(s, n) ==
  LET alone == Detached(s, n)
      gone == ToSet(JWalk(TreeBegin(alone, n), LAMBDA m : TreeNext(alone, m)))
  IN [x \in JNode |-> IF x \in gone THEN FreeNode ELSE alone[x]]

-----------------------------------------------------------------------------
\* A number's digits, and the room cJSON_IntegerStrlen counts for them.
DigitChars == <<"0", "1", "2", "3", "4", "5", "6", "7", "8", "9">>
Abs(v) == IF v < 0 THEN -v ELSE v
Decimal(v) ==
  LET d[m \in 0 .. Abs(v)] == IF m < 10 THEN <<DigitChars[m + 1]>>
                              ELSE Append(d[m \div 10], DigitChars[(m % 10) + 1])
  IN (IF v < 0 THEN <<"-">> ELSE <<>>) \o d[Abs(v)]
IntegerStrlen(v) ==
  LET l[m \in 0 .. Abs(v)] == 1 + IF m < 10 THEN 0 ELSE l[m \div 10]
  IN l[Abs(v)] + IF v < 0 THEN 1 ELSE 0

\* Of a value that was read.  As in the code a sign counts as a digit anywhere;
\* the texts here are printed decimals, which have it in front.
GetInteger(text) ==
  LET signed == text # <<>> /\ text[1] \in {"-", "+"}
      digits == SelectInSeq(text, LAMBDA c : c \notin ToSet(DigitChars) \cup {"-", "+"})
      upTo == IF digits = 0 THEN Len(text) ELSE digits - 1
      v == FoldLeft(LAMBDA a, c : 10 * a + SelectInSeq(DigitChars, LAMBDA d : d = c) - 1, 0,
                    SubSeq(text, IF signed THEN 2 ELSE 1, upTo))
  IN IF signed /\ text[1] = "-" THEN -v ELSE v

\* "%lf" of v millionths.
Fixed(v) ==
  LET part == Decimal(1000000 + (Abs(v) % 1000000))
  IN (IF v < 0 THEN <<"-">> ELSE <<>>) \o Decimal(Abs(v) \div 1000000) \o <<".">> \o Tail(part)

Shifted(v, places) == IF places < 0 THEN v \div 10 ^ (-places) ELSE v * 10 ^ places

\* cJSON_GetDouble of a value that was read, in millionths: digits with a dot
\* among them, and an exponent, up to the first character that is neither.
GetDouble(text) ==
  LET digit(c) == SelectInSeq(DigitChars, LAMBDA d : d = c) - 1
      turn(d, i) ==
        LET c == text[i]
            next == IF i < Len(text) THEN text[i + 1] ELSE "end" IN
        IF i < d.i THEN d
        ELSE IF c = "." /\ ~ d.dot THEN [d EXCEPT !.dot = TRUE, !.i = i + 1]
        ELSE IF c \in {"e", "E"} /\ d.sign = 0 /\ next \in {"-", "+"} \cup ToSet(DigitChars)
          THEN [d EXCEPT !.sign = IF next = "-" THEN -1 ELSE 1,
                         !.i = IF next \in {"-", "+"} THEN i + 2 ELSE i + 1]
        ELSE IF digit(c) < 0 THEN [d EXCEPT !.i = Len(text) + 1]
        ELSE IF d.sign # 0 THEN [d EXCEPT !.e = 10 * @ + digit(c), !.i = i + 1]
        ELSE [d EXCEPT !.v = 10 * @ + digit(c), !.num = IF d.dot THEN @ + 1 ELSE @, !.i = i + 1]
      read == FoldLeft(turn, [v |-> 0, dot |-> FALSE, num |-> 0, sign |-> 0, e |-> 0,
                              i |-> IF text[1] \in {"-", "+"} THEN 2 ELSE 1],
                       [i \in DOMAIN text |-> i])
      v == Shifted(read.v, 6 - read.num + read.sign * read.e)
  IN IF text[1] = "-" THEN -v ELSE v

\* A value is <<"integer", v>>, <<"double", v>>, <<"string", text>> or <<"weak", text>>.
ValueText(value) ==
  CASE value[1] = "integer" -> Decimal(value[2])
    [] value[1] = "double" -> Fixed(value[2])
    [] value[1] = "string" -> <<"q">> \o value[2] \o <<"q">>
    [] value[1] = "weak" -> value[2]
ValueStrlen(value) ==
  CASE value[1] = "integer" -> IntegerStrlen(value[2])
    [] value[1] = "double" -> Len(Fixed(value[2]))      \* snprintf counts
    [] value[1] = "string" -> Len(value[2]) + 2
    [] value[1] = "weak" -> Len(value[2])

Opening == [Object |-> "{", Array |-> "["]
Closing == [Object |-> "}", Array |-> "]"]

RECURSIVE Text(_, _)
Text(s, n) ==                   \* cJSON_ToString
  LET kids == Children(s, n)
      joined == FoldLeftDomain(LAMBDA t, i : (IF i = 1 THEN t ELSE Append(t, ",")) \o Text(s, kids[i]),
                               <<>>, kids)
  IN (IF s[n].name = <<>> THEN <<>> ELSE <<"q">> \o s[n].name \o <<"q", ":">>)
       \o IF s[n].type = "Value" THEN ValueText(s[n].value)
          ELSE <<Opening[s[n].type]>> \o joined \o <<Closing[s[n].type]>>

BytesNum(s, n) ==               \* cJSON_BytesNum
  FoldLeft(LAMBDA len, m :
             len + (IF s[m].name = <<>> THEN 0 ELSE Len(s[m].name) + 3)
                 + IF s[m].type = "Value" THEN ValueStrlen(s[m].value)
                   ELSE 2 + IF s[m].childNum > 1 THEN s[m].childNum - 1 ELSE 0,
           0, JWalk(TreeBegin(s, n), LAMBDA m : TreeNext(s, m)))
-----------------------------------------------------------------------------
(* The parser.  Its result is an outline: for every node, before those     *)
(* below it, its depth, type, name and value.  A position is that of a     *)
(* character of the text, or one past its end.                             *)

Specials == {"{", "}", "[", "]", ",", "q", ":"}
At(t, i) == IF i <= Len(t) THEN t[i] ELSE "end"
Skip(t, i) == CHOOSE j \in i .. Len(t) + 1 :
                At(t, j) # " " /\ \A k \in i .. j - 1 : t[k] = " "

\* Mutant of Strpbrk: a special character counts after a backslash too.
StrpbrkPlain(t, i) ==
  LET found == {j \in i .. Len(t) : t[j] \in Specials}
  IN IF found = {} THEN Len(t) + 1 ELSE Min(found)

\* The first special character from i on that no backslash precedes.
Strpbrk(t, i) ==
  LET found == {j \in i .. Len(t) : t[j] \in Specials /\ ~ (j > i /\ t[j - 1] = "\\")}
  IN IF found = {} THEN Len(t) + 1 ELSE Min(found)

\* What is between from and to, without the blanks before to.
Trimmed(t, from, to) ==
  SubSeq(t, from, CHOOSE j \in from - 1 .. to - 1 :
                    (j >= from => t[j] # " ") /\ \A k \in j + 1 .. to - 1 : t[k] = " ")

Failed(p) == [p EXCEPT !.state = "failed"]

\* The value at i, after a name when the node that is open is an object.
ReadValue(t, p, name, i) ==
  LET c == At(t, i)
      quoted == IF c = "q" THEN i + 1 ELSE i
      end == Strpbrk(t, quoted)
      Child(type, value) == Append(p.out, <<Len(p.open), type, name, value>>) IN
  IF c \in {"{", "["}
    THEN LET type == IF c = "{" THEN "Object" ELSE "Array" IN
         [p EXCEPT !.pos = i + 1, !.open = Append(@, type), !.out = Child(type, <<>>)]
  ELSE IF end > Len(t) \/ (c = "q" /\ t[end] # "q") THEN Failed(p)
  ELSE LET text == Trimmed(t, quoted, end) IN
       [p EXCEPT !.pos = IF c = "q" THEN end + 1 ELSE end,
                 !.out = Child("Value", <<IF c = "q" THEN "string" ELSE "weak", text>>)]

\* One turn of the loop of cJSON_FromString.
Turn(t, p) ==
  LET i == Skip(t, p.pos)
      c == At(t, i)
      type == Last(p.open)
      nameEnd == Strpbrk(t, i + 1)
      colon == Skip(t, nameEnd + 1) IN
  CASE c = "end" -> [p EXCEPT !.state = IF Len(p.open) > 1 THEN "failed" ELSE "read"]
    [] c = "," -> [p EXCEPT !.pos = i + 1]
    [] c \in {"}", "]"} ->
         IF c # Closing[type] THEN Failed(p)
         ELSE [p EXCEPT !.pos = i + 1, !.open = Front(@),
                        !.state = IF Len(p.open) = 1 THEN "read" ELSE @]
    [] c \notin {"end", ",", "}", "]"} /\ type = "Array" -> ReadValue(t, p, <<>>, i)
    [] c \notin {"end", ",", "}", "]"} /\ type = "Object" ->
         IF c # "q" \/ At(t, nameEnd) # "q" \/ At(t, colon) # ":" THEN Failed(p)
         ELSE ReadValue(t, p, SubSeq(t, i + 1, nameEnd - 1), Skip(t, colon + 1))

\* Each turn but one that meets a colon in an array takes a character.
FromString(t) ==
  LET i == Skip(t, 1)
      type == IF At(t, i) = "{" THEN "Object" ELSE "Array" IN
  IF At(t, i) \notin {"{", "["} THEN [state |-> "failed"]
  ELSE FoldLeft(LAMBDA p, turn : IF p.state = "reading" THEN Turn(t, p) ELSE p,
                [state |-> "reading", pos |-> i + 1, open |-> <<type>>,
                 out |-> <<<<0, type, <<>>, <<>>>>>>],
                [turn \in 1 .. Len(t) + 1 |-> turn])

-----------------------------------------------------------------------------
NewRoot(type) ==                \* cJSON_NewRoot, cJSON_NewRootArray
  \E n \in JNode \ JLive : jn' = [jn EXCEPT ![n] = Blank(type, <<>>, <<>>)]

NameFits(p, name) == jn[p].type = "Array" <=> name = <<>>

AppendNew(p, type, name, value) ==
  /\ jn[p].type # "Value" /\ NameFits(p, name)
  /\ \E n \in JNode \ JLive : jn' = Appended([jn EXCEPT ![n] = Blank(type, name, value)], p, n)

SetValue(n, value) == jn[n].type = "Value" /\ jn' = [jn EXCEPT ![n].value = value]

Under(n) == ToSet(JWalk(TreeBegin(jn, n), LAMBDA m : TreeNext(jn, m)))   \* n is a root

JAppend(p, n) ==
  /\ n \in JRoots /\ p \notin Under(n) /\ jn[p].type # "Value" /\ NameFits(p, jn[n].name)
  /\ jn' = Appended(jn, p, n)
JDetach(n) == jn' = Detached(jn, n)
JDelete(n) == jn' = Deleted(jn, n)

JValues == {<<"integer", v>> : v \in JIntegers} \cup {<<"double", v>> : v \in JDoubles}
             \cup {<<"string", t>> : t \in JStrings}

JNext ==
  \/ \E type \in {"Object", "Array"} : NewRoot(type)
  \/ \E p \in JLive, name \in JNames \cup {<<>>} :
       \/ \E type \in {"Object", "Array"} : AppendNew(p, type, name, <<>>)
       \/ \E value \in JValues : AppendNew(p, "Value", name, value)
  \/ \E n \in JLive, value \in JValues : SetValue(n, value)
  \/ \E p, n \in JLive : JAppend(p, n)
  \/ \E n \in JLive : JDetach(n) \/ JDelete(n)

JSpec == JInit /\ [][JNext]_jn

-----------------------------------------------------------------------------
\* Through every order of appending, detaching and deleting, the children of a
\* node are linked both ways, know their parent and are as many as it counts;
\* no node that is not freed hangs from one that is, or from none; and every
\* child is found by its index, and by its name unless one before it has it too.
JsonLinked ==
  \A n \in JLive :
    LET kids == Children(jn, n) IN
    /\ jn[n].childNum = Len(kids)
    /\ ToSet(kids) = {m \in JLive : jn[m].parent = n}
    /\ \A i \in DOMAIN kids : jn[kids[i]].prev = IF i = 1 THEN JNull ELSE kids[i - 1]
    /\ jn[n].parent \in JLive \cup {JNull}
    /\ \A i \in DOMAIN kids :
         /\ GetIndex(jn, n, i - 1) = kids[i]
         /\ LET m == GetField(jn, n, jn[kids[i]].name)
            IN m = kids[i] \/ \E k \in 1 .. i - 1 : m = kids[k]

RECURSIVE Outline(_, _)
Outline(n, depth) ==
  LET value == jn[n].value IN
  <<<<depth, jn[n].type, jn[n].name,
      IF jn[n].type = "Value" /\ value[1] \in {"integer", "double"}
        THEN <<"weak", ValueText(value)>> ELSE value>>>>
    \o FoldLeft(LAMBDA t, m : t \o Outline(m, depth + 1), <<>>, Children(jn, n))

\* The parser ends a string at the first special character that no backslash
\* precedes, and drops the blanks at its end.
Readable(t) ==
  /\ t # <<>> => Last(t) \notin {" ", "\\"}
  /\ \A i \in DOMAIN t : t[i] \in Specials => i > 1 /\ t[i - 1] = "\\"

\* The text of a tree is as long as cJSON_BytesNum says, which sizes its
\* buffer, and the parser reads the tree back from it while its strings are
\* readable; a number that was read is the one that was set, as an integer and
\* as a double, with an exponent behind it or without.
JsonReadsBack ==
  \A r \in {n \in JRoots : jn[n].type # "Value" /\ jn[n].name = <<>>} :
    LET text == Text(jn, r)
        outline == Outline(r, 0)
        read == FromString(text) IN
    /\ Len(text) = BytesNum(jn, r)
    /\ (\A i \in DOMAIN outline : outline[i][2] = "Value" => Readable(outline[i][4][2]))
         => read.state = "read" /\ read.out = outline
    /\ \A n \in JLive : jn[n].type = "Value" =>
         LET v == jn[n].value[2] IN
         /\ jn[n].value[1] = "integer" => /\ GetInteger(Decimal(v)) = v
                                          /\ GetDouble(Decimal(v)) = v * 1000000
         /\ jn[n].value[1] = "double" =>
              /\ GetDouble(Fixed(v)) = v
              /\ GetDouble(Fixed(v) \o <<"e", "-", "2">>) = v \div 100
              /\ GetDouble(Fixed(v) \o <<"E", "2">>) = v * 100
=============================================================================
