-------------------------------- MODULE Xml ---------------------------------
(***************************************************************************)
(* components/source/utils/cXML.c: trees of elements and their attributes, *)
(* how they are printed, and the parser.  A character is a string; a whole *)
(* comment or a whole <? ?> hint is one character, and letters stand for   *)
(* all that mean nothing to the parser.  Allocations succeed while there   *)
(* are nodes left; callers add, delete and print roots, never add one      *)
(* below itself, and give a text that does not stop inside a tag.          *)
(***************************************************************************)
EXTENDS Integers, SequencesExt

CONSTANTS XNode, XAttr, XNull,
          XNames, XContents,    \* the names and contents that callers give nodes
          XAttrNames, XValues   \* and attributes

VARIABLES xn,                   \* the cXML_t of each node
          xa                    \* the cXMLAttr_t of each attribute

xmlVars == <<xn, xa>>

XLive == {n \in XNode : xn[n].live}
XLiveAttrs == {a \in XAttr : xa[a].live}
XRoots == {n \in XLive : xn[n].parent = XNull}

NewNode(live, name, content) ==
  [live |-> live, name |-> name, content |-> content, parent |-> XNull, child |-> XNull,
   left |-> XNull, right |-> XNull, attr |-> XNull]
NewAttr(live, name, value) ==
  [live |-> live, name |-> name, value |-> value, node |-> XNull, prev |-> XNull, next |-> XNull]

XInit ==
  /\ xn = [n \in XNode |-> NewNode(FALSE, <<>>, <<>>)]
  /\ xa = [a \in XAttr |-> NewAttr(FALSE, <<>>, <<>>)]

-----------------------------------------------------------------------------
\* n->f = v, where n may be null and nothing is written then.
XPut(s, n, f, v) == IF n = XNull THEN s ELSE [s EXCEPT ![n][f] = v]

\* The nodes from first along the field f; a walk without an end is cut.
XWalk(s, first, f) ==
  LET N == Cardinality(DOMAIN s)
      at[i \in 0 .. N] == IF i = 0 THEN first
                          ELSE LET m == at[i - 1] IN IF m = XNull THEN XNull ELSE s[m][f]
  IN SelectSeq([i \in 1 .. N + 1 |-> at[i - 1]], LAMBDA m : m # XNull)

Kids(n) == XWalk(xn, xn[n].child, "right")
Attrs(n) == XWalk(xa, xn[n].attr, "next")

Added(s, p, n) ==               \* cXML_Add
  LET kids == XWalk(s, s[p].child, "right")
      linked == IF kids = <<>> THEN XPut(s, p, "child", n)
                ELSE XPut(XPut(s, Last(kids), "right", n), n, "left", Last(kids))
  IN XPut(linked, n, "parent", p)

\* Mutant: the parent is not told that its first child is gone.
DetachedInside(s, n) ==
  LET closed == XPut(XPut(s, s[n].left, "right", s[n].right), s[n].right, "left", s[n].left)
  IN XPut(XPut(XPut(closed, n, "parent", XNull), n, "left", XNull), n, "right", XNull)

XDetached(s, n) ==              \* cXML_Detach
  LET p == s[n].parent
      out == IF p # XNull /\ s[p].child = n THEN XPut(s, p, "child", s[n].right) ELSE s
      closed == XPut(XPut(out, s[n].left, "right", s[n].right), s[n].right, "left", s[n].left)
  IN XPut(XPut(XPut(closed, n, "parent", XNull), n, "left", XNull), n, "right", XNull)

RECURSIVE Below(_)
Below(n) ==                     \* what cXML_Delete frees: n, and all below it and right of it
  {n} \cup (IF xn[n].child = XNull THEN {} ELSE Below(xn[n].child))
      \cup (IF xn[n].right = XNull THEN {} ELSE Below(xn[n].right))

-----------------------------------------------------------------------------
RECURSIVE PrintOf(_), PrintSize(_)
PrintOf(n) ==                   \* xt_print
  LET name == xn[n].name
      attrs == FlattenSeq([i \in DOMAIN Attrs(n) |-> LET a == xa[Attrs(n)[i]] IN
                  <<" ">> \o a.name \o <<"=", "q">> \o a.value \o <<"q">>])
      inside == IF Kids(n) = <<>> THEN xn[n].content
                ELSE FlattenSeq([i \in DOMAIN Kids(n) |-> PrintOf(Kids(n)[i])])
  IN IF name = <<>> THEN inside
     ELSE <<"<">> \o name \o attrs \o <<">">> \o inside \o <<"<", "/">> \o name \o <<">">>

PrintSize(n) ==                 \* xt_get_print_size, but for the byte that ends the text
  LET name == xn[n].name
      attrs == MapThenSumSet(LAMBDA i : LET a == xa[Attrs(n)[i]] IN 4 + Len(a.name) + Len(a.value),
                             DOMAIN Attrs(n))
      tags == 1 + Len(name) + attrs + 1 + 3 + Len(name)
      inside == IF name # <<>> /\ Kids(n) # <<>>
                  THEN MapThenSumSet(LAMBDA i : PrintSize(Kids(n)[i]), DOMAIN Kids(n))
                  ELSE Len(xn[n].content)
  IN inside + IF name = <<>> THEN 0 ELSE tags

-----------------------------------------------------------------------------
(* The parser gives a tree of records; None when it fails.                 *)

None == [tree |-> <<>>, at |-> 0]
XAt(t, i) == IF i <= Len(t) THEN t[i] ELSE "end"
SkipAll(t, i, what) == CHOOSE j \in i .. Len(t) + 1 :
                         XAt(t, j) \notin what /\ \A k \in i .. j - 1 : t[k] \in what
SkipWs(t, i) == SkipAll(t, i, {" "})
SkipWsc(t, i) == SkipAll(t, i, {" ", "comment"})
SkipUntil(t, i, what) == CHOOSE j \in i .. Len(t) + 1 :
                           XAt(t, j) \in what \cup {"end"} /\ \A k \in i .. j - 1 : t[k] \notin what

\* Mutant of SkipString: a quote ends the string whatever is before it.
SkipStringPlain(t, i) == SkipUntil(t, i, {"q"})

\* The first quote from i on before which there is an even number of backslashes.
SkipString(t, i) ==
  LET slashes(j) == j - 1 - SelectLastInSubSeq(t, 1, j - 1, LAMBDA c : c # "\\")
      ends == {j \in i .. Len(t) : t[j] = "q" /\ slashes(j) % 2 = 0}
  IN IF ends = {} THEN Len(t) + 1 ELSE Min(ends)

\* The attributes from i on, the last one first.
RECURSIVE ReadAttrs(_, _, _)
ReadAttrs(t, i, got) ==
  LET end == SkipUntil(t, i, {" ", "=", "/", ">"})
      eq == SkipWs(t, end)
      quote == SkipWs(t, eq + 1)
      close == SkipString(t, quote + 1)
      With(value) == <<[name |-> SubSeq(t, i, end - 1), value |-> value]>> \o got IN
  CASE XAt(t, i) \in {">", "/"} -> [tree |-> got, at |-> i]
    [] XAt(t, i) \notin {">", "/"} /\ XAt(t, eq) = "=" ->
         IF XAt(t, quote) # "q" \/ XAt(t, close) # "q" THEN None
         ELSE ReadAttrs(t, SkipWs(t, close + 1), With(SubSeq(t, quote + 1, close - 1)))
    [] XAt(t, i) \notin {">", "/"} /\ XAt(t, eq) # "=" ->
         IF XAt(t, end) = "end" THEN None ELSE ReadAttrs(t, eq, With(<<>>))

Leaf(name, attrs, content) == [name |-> name, attrs |-> attrs, content |-> content, kids |-> <<>>]

RECURSIVE ReadNode(_, _), ReadKids(_, _, _, _)
ReadNode(t, start) ==           \* xt_parse_node
  LET i == SkipWsc(t, start)
      from == SkipWs(t, i + 1)
      end == SkipUntil(t, from, {" ", "/", ">"})
      name == SubSeq(t, from, end - 1)
      attrs == ReadAttrs(t, SkipWs(t, end), <<>>)
      node == Leaf(name, attrs.tree, <<>>) IN
  CASE XAt(t, i) # "<" \/ XAt(t, end) = "end" \/ attrs = None -> None
    [] XAt(t, i) = "<" /\ XAt(t, end) # "end" /\ attrs # None ->
         IF t[attrs.at] = "/"
           THEN IF XAt(t, attrs.at + 1) = ">" THEN [tree |-> node, at |-> attrs.at + 2] ELSE None
         ELSE LET inside == SkipWsc(t, attrs.at + 1) IN
              IF XAt(t, inside) = "end" THEN None ELSE ReadKids(t, inside, 0, node)

\* The loop over what is between the tags; content is where a text began, or 0.
ReadKids(t, i, content, node) ==
  LET text == SubSeq(t, content, i - 1)
      WithText == IF content = 0 THEN node
                  ELSE [node EXCEPT !.kids = Append(@, Leaf(<<>>, <<>>, text))]
      Closed == IF content # 0 /\ node.kids = <<>> THEN [node EXCEPT !.content = text] ELSE WithText
      from == SkipWs(t, i + 2)
      end == SkipUntil(t, from, {" ", ">"}) IN
  CASE XAt(t, i) = "end" -> [tree |-> node, at |-> i]
    [] XAt(t, i) = "<" /\ XAt(t, i + 1) = "/" ->
         IF XAt(t, end) = "end" \/ SubSeq(t, from, end - 1) # node.name THEN None
         ELSE [tree |-> Closed, at |-> end + 1]
    [] XAt(t, i) = "<" /\ XAt(t, i + 1) # "/" ->
         LET kid == ReadNode(t, i) IN
         IF kid = None THEN None
         ELSE ReadKids(t, kid.at, 0, [WithText EXCEPT !.kids = Append(@, kid.tree)])
    [] XAt(t, i) \notin {"end", "<"} -> ReadKids(t, i + 1, IF content = 0 THEN i ELSE content, node)

XParse(t) ==                    \* cXML_Parse
  LET i == SkipWsc(t, 1)
  IN ReadNode(t, IF XAt(t, i) = "hint" THEN SkipWsc(t, i + 1) ELSE i)

\* cXML_GetAttr and cXML_FirstChild compare as many characters as the name in
\* the tree has: the index of the first one whose name begins name, or 0.
Lookup(list, name) ==
  SelectInSeq(list, LAMBDA x : x.name # <<>> /\ IsPrefix(x.name, name))

-----------------------------------------------------------------------------
XCreate(name, content) ==
  /\ \E n \in XNode \ XLive : xn' = [xn EXCEPT ![n] = NewNode(TRUE, name, content)]
  /\ UNCHANGED xa
XCreateAttr(name, value) ==
  /\ \E a \in XAttr \ XLiveAttrs : xa' = [xa EXCEPT ![a] = NewAttr(TRUE, name, value)]
  /\ UNCHANGED xn

XAdd(p, n) == n \in XRoots /\ p \notin Below(n) /\ xn' = Added(xn, p, n) /\ UNCHANGED xa
XDetach(n) == xn' = XDetached(xn, n) /\ UNCHANGED xa

XDelete(n) ==
  LET gone == Below(n) IN
  /\ n \in XRoots
  /\ xa' = [a \in XAttr |-> IF \E m \in gone : a \in ToSet(Attrs(m))
                              THEN NewAttr(FALSE, <<>>, <<>>) ELSE xa[a]]
  /\ xn' = [m \in XNode |-> IF m \in gone THEN NewNode(FALSE, <<>>, <<>>) ELSE xn[m]]

XAddAttr(n, a) ==
  /\ xa[a].node = XNull
  /\ LET first == xn[n].attr
         linked == XPut(XPut(XPut(xa, a, "prev", XNull), a, "next", first), first, "prev", a)
     IN xa' = XPut(linked, a, "node", n)
  /\ xn' = XPut(xn, n, "attr", a)

\* The detached attribute keeps its own links, which adding it sets again.
XDetachAttr(a) ==
  LET n == xa[a].node IN
  /\ n # XNull
  /\ xn' = IF xn[n].attr = a THEN XPut(xn, n, "attr", xa[a].next) ELSE xn
  /\ xa' = LET gone == XPut(xa, a, "node", XNull)
           IN XPut(XPut(gone, xa[a].prev, "next", xa[a].next), xa[a].next, "prev", xa[a].prev)

XDeleteAttr(a) ==
  xa[a].node = XNull /\ xa' = [xa EXCEPT ![a] = NewAttr(FALSE, <<>>, <<>>)] /\ UNCHANGED xn

XNext ==
  \/ \E name \in XNames \cup {<<>>}, content \in XContents \cup {<<>>} : XCreate(name, content)
  \/ \E name \in XAttrNames, value \in XValues : XCreateAttr(name, value)
  \/ \E n \in XLive : XDetach(n) \/ XDelete(n) \/ \E p \in XLive : XAdd(p, n)
  \/ \E a \in XLiveAttrs : XDetachAttr(a) \/ XDeleteAttr(a) \/ \E n \in XLive : XAddAttr(n, a)

XSpec == XInit /\ [][XNext]_xmlVars

-----------------------------------------------------------------------------
\* The nodes of list are linked both ways by the fields back, and point at owner.
TwoWay(s, list, back, owner, n) ==
  /\ \A i \in DOMAIN list : s[list[i]][back] = IF i = 1 THEN XNull ELSE list[i - 1]
  /\ ToSet(list) = {m \in DOMAIN s : s[m].live /\ s[m][owner] = n}

\* Through every order of adding, detaching and deleting, the children and the
\* attributes of a node are linked both ways and know their node; none that is
\* not freed hangs from one that is.
XmlLinked ==
  /\ \A n \in XLive : /\ TwoWay(xn, Kids(n), "left", "parent", n)
                      /\ TwoWay(xa, Attrs(n), "prev", "node", n)
                      /\ xn[n].parent \in XLive \cup {XNull}
  /\ \A a \in XLiveAttrs : xa[a].node \in XLive \cup {XNull}

RECURSIVE TreeOf(_)
TreeOf(n) ==                    \* as the parser would give it
  [name |-> xn[n].name, content |-> xn[n].content,
   attrs |-> Reverse([i \in DOMAIN Attrs(n) |->
               [name |-> xa[Attrs(n)[i]].name, value |-> xa[Attrs(n)[i]].value]]),
   kids |-> [i \in DOMAIN Kids(n) |-> TreeOf(Kids(n)[i])]]

\* A text node has no name; it cannot be told from the content of its parent when
\* it is alone, nor from the text next to it, and blanks after a tag are lost.
RECURSIVE Tellable(_)
Tellable(tree) ==
  LET isText(k) == k.name = <<>> IN
  /\ tree.name # <<>> \/ (tree.kids = <<>> /\ tree.attrs = <<>> /\ tree.content # <<>>)
  /\ tree.kids = <<>> \/ (tree.content = <<>> /\ (Len(tree.kids) = 1 => ~ isText(tree.kids[1])))
  /\ \A i \in DOMAIN tree.kids :
       /\ Tellable(tree.kids[i])
       /\ i > 1 => ~ (isText(tree.kids[i]) /\ isText(tree.kids[i - 1]))
       /\ i = 1 /\ isText(tree.kids[i]) => tree.kids[i].content[1] # " "
  /\ tree.name # <<>> /\ tree.content # <<>> => tree.content[1] # " "

\* A tree is printed in as many bytes as cXML_ByteSize says, which sizes the
\* buffer, while every node with children has a name; and the parser reads it
\* back behind any hint and comment, its attributes the other way round; what
\* is looked up by name in it is the first with that name, when no name of
\* another begins it.
XmlReadsBack ==
  \A r \in XRoots :
    LET text == PrintOf(r) IN
    /\ (\A n \in Below(r) : xn[n].child # XNull => xn[n].name # <<>>) => Len(text) = PrintSize(r)
    /\ (xn[r].name # <<>> /\ Tellable(TreeOf(r))) =>
         \A before \in {<<>>, <<"hint", "comment", " ">>} :
           LET tree == XParse(before \o text).tree IN
           /\ tree = TreeOf(r)
           /\ \A list \in {tree.attrs, tree.kids} : \A i \in DOMAIN list :
                list[i].name # <<>> =>
                  LET found == Lookup(list, list[i].name)
                  IN found \in 1 .. i /\ list[found].name = list[i].name
=============================================================================
