-------------------------------- MODULE List --------------------------------
(***************************************************************************)
(* components/source/datastructs/list.c: doubly linked lists whose nodes   *)
(* belong to the caller.  A node that is in no list keeps whatever its     *)
(* links last held, and no operation may depend on it.                     *)
(*                                                                         *)
(* head, tail, prev and next are the code's; contents is what the caller   *)
(* of each operation is promised: the nodes of each list, in order.  The   *)
(* callers are correct: a node that is put in a list is in none, and a     *)
(* node named as a position is in the list it is said to be in.            *)
(***************************************************************************)
EXTENDS Integers, SequencesExt

CONSTANTS ListId, Node, Null,
          Wild,                 \* what a link holds that was never written
          Rank(_)               \* what the caller's cmp compares nodes by

ASSUME ListAssumption == /\ Null \notin Node /\ Wild \notin Node /\ Wild # Null
                         /\ \A n \in Node : Rank(n) \in Int

VARIABLES head, tail,           \* of a List_t
          prev, next,           \* of a ListNode_t
          contents

links == <<head, tail, prev, next>>
listVars == <<links, contents>>

ListInit ==                         \* listInit; the nodes are not initialised
  /\ head = [l \in ListId |-> Null] /\ tail = [l \in ListId |-> Null]
  /\ prev = [n \in Node |-> Wild] /\ next = [n \in Node |-> Wild]
  /\ contents = [l \in ListId |-> <<>>]

Free(n) == \A l \in ListId : n \notin ToSet(contents[l])

\* n->f = v; where the code tests "if (n)" first, n may be Null here.
With(f, n, v) == [x \in Node |-> IF x = n THEN v ELSE f[x]]

\* Mutant: the first node of a list keeps its old links.
BecomesOnlyKeepsLinks(l, m) ==
  /\ head' = [head EXCEPT ![l] = m] /\ tail' = [tail EXCEPT ![l] = m]
  /\ UNCHANGED <<prev, next>>
  /\ contents' = [contents EXCEPT ![l] = <<m>>]

BecomesOnly(l, m) ==
  /\ head' = [head EXCEPT ![l] = m] /\ tail' = [tail EXCEPT ![l] = m]
  /\ prev' = With(prev, m, Null) /\ next' = With(next, m, Null)
  /\ contents' = [contents EXCEPT ![l] = <<m>>]

\* In the following, n is the node the code is given, i the place where the
\* caller takes it to be.

\* listInsertNodeFront: m goes before n; it tests head for empty.
InsertBefore(l, n, i, m) ==
  /\ head[l] # Null
  /\ head' = [head EXCEPT ![l] = IF @ = n THEN m ELSE @]
  /\ next' = With(With(next, m, n), prev[n], m)
  /\ prev' = With(With(prev, m, prev[n]), n, m)
  /\ contents' = [contents EXCEPT ![l] = InsertAt(@, i, m)]
  /\ UNCHANGED tail

\* listInsertNodeBack: m goes behind n; it tests tail for empty.
InsertBehind(l, n, i, m) ==
  /\ tail[l] # Null
  /\ tail' = [tail EXCEPT ![l] = IF @ = n THEN m ELSE @]
  /\ prev' = With(With(prev, m, n), next[n], m)
  /\ next' = With(With(next, m, next[n]), n, m)
  /\ contents' = [contents EXCEPT ![l] = InsertAt(@, i + 1, m)]
  /\ UNCHANGED head

InsertNodeFront(l, m) ==
  /\ Free(m)
  /\ \/ head[l] = Null /\ BecomesOnly(l, m)
     \/ \E i \in DOMAIN contents[l] : InsertBefore(l, contents[l][i], i, m)
     \/ InsertBefore(l, head[l], 1, m)                \* listPushNodeFront

InsertNodeBack(l, m) ==
  /\ Free(m)
  /\ \/ tail[l] = Null /\ BecomesOnly(l, m)
     \/ \E i \in DOMAIN contents[l] : InsertBehind(l, contents[l][i], i, m)
     \/ InsertBehind(l, tail[l], Len(contents[l]), m) \* listPushNodeBack

\* listInsertNodeSorted: before the first node that compares greater, else at
\* the end.
Greater(l, m) == {i \in DOMAIN contents[l] : Rank(contents[l][i]) > Rank(m)}

InsertNodeSorted(l, m) ==
  /\ Free(m)
  /\ \/ \E i \in Greater(l, m) :
          (\A j \in Greater(l, m) : i <= j) /\ InsertBefore(l, contents[l][i], i, m)
     \/ /\ Greater(l, m) = {}
        /\ IF tail[l] = Null THEN BecomesOnly(l, m)
                             ELSE InsertBehind(l, tail[l], Len(contents[l]), m)

\* Mutant: the node behind the removed one is not told.
RemoveNodeOneWay(l, n, i) ==
  /\ head' = [head EXCEPT ![l] = IF @ = n THEN next[n] ELSE @]
  /\ tail' = [tail EXCEPT ![l] = IF @ = n THEN prev[n] ELSE @]
  /\ next' = With(next, prev[n], next[n])
  /\ contents' = [contents EXCEPT ![l] = RemoveAt(@, i)]
  /\ UNCHANGED prev

\* listRemoveNode.  The removed node keeps its links.
RemoveNode(l, n, i) ==
  /\ head' = [head EXCEPT ![l] = IF @ = n THEN next[n] ELSE @]
  /\ tail' = [tail EXCEPT ![l] = IF @ = n THEN prev[n] ELSE @]
  /\ next' = With(next, prev[n], next[n])
  /\ prev' = With(prev, next[n], prev[n])
  /\ contents' = [contents EXCEPT ![l] = RemoveAt(@, i)]

PopNodeFront(l) == head[l] # Null /\ RemoveNode(l, head[l], 1)
PopNodeBack(l)  == tail[l] # Null /\ RemoveNode(l, tail[l], Len(contents[l]))

\* listReplaceNode, of a node of the list.
ReplaceNode(l, i, m) ==
  LET n == contents[l][i] IN
  /\ Free(m)
  /\ head' = [head EXCEPT ![l] = IF @ = n THEN m ELSE @]
  /\ tail' = [tail EXCEPT ![l] = IF @ = n THEN m ELSE @]
  /\ next' = With(With(next, prev[n], m), m, next[n])
  /\ prev' = With(With(prev, next[n], m), m, prev[n])
  /\ contents' = [contents EXCEPT ![l] = ReplaceAt(@, i, m)]

\* listReplaceNode of a null node: an empty list gets m, another is left alone.
ReplaceNullNode(l, m) ==
  /\ Free(m)
  /\ IF head[l] = Null
       THEN BecomesOnly(l, m)
       ELSE /\ prev' = With(prev, m, Null) /\ next' = With(next, m, Null)
            /\ UNCHANGED <<head, tail, contents>>

\* Mutant: the emptied list keeps its tail.
AppendKeepsTail(to, from) ==
  /\ to # from
  /\ head' = [head EXCEPT ![to] = IF @ = Null THEN head[from] ELSE @, ![from] = Null]
  /\ tail' = [tail EXCEPT ![to] = IF tail[from] = Null THEN @ ELSE tail[from]]
  /\ next' = With(next, tail[to], head[from])
  /\ prev' = With(prev, head[from], tail[to])
  /\ contents' = [contents EXCEPT ![to] = @ \o contents[from], ![from] = <<>>]

\* listAppend: the nodes of from go behind those of to.
ListAppend(to, from) ==
  /\ to # from
  /\ head' = [head EXCEPT ![to] = IF @ = Null THEN head[from] ELSE @, ![from] = Null]
  /\ tail' = [tail EXCEPT ![to] = IF tail[from] = Null THEN @ ELSE tail[from], ![from] = Null]
  /\ next' = With(next, tail[to], head[from])
  /\ prev' = With(prev, head[from], tail[to])
  /\ contents' = [contents EXCEPT ![to] = @ \o contents[from], ![from] = <<>>]

ListSwap(one, two) ==
  LET swapped(f) == [f EXCEPT ![one] = f[two], ![two] = f[one]] IN
  /\ head' = swapped(head) /\ tail' = swapped(tail)
  /\ contents' = swapped(contents)
  /\ UNCHANGED <<prev, next>>

\* listReverse: the loop turns round the links of every node it passes.
Reversed(l) ==
  LET passed == ToSet(contents[l]) IN
  /\ head' = [head EXCEPT ![l] = tail[l]] /\ tail' = [tail EXCEPT ![l] = head[l]]
  /\ next' = [n \in Node |-> IF n \in passed THEN prev[n] ELSE next[n]]
  /\ prev' = [n \in Node |-> IF n \in passed THEN next[n] ELSE prev[n]]
  /\ contents' = [contents EXCEPT ![l] = Reverse(@)]

\* The lists that the splits return are put in an empty list of the caller's.

\* listSplit: the i-th to the j-th node are taken out.
Split(old, i, j, new) ==
  LET first == contents[old][i]
      last  == contents[old][j]
  IN /\ old # new /\ contents[new] = <<>> /\ i <= j
     /\ head' = [head EXCEPT ![old] = IF prev[first] = Null THEN next[last] ELSE @,
                             ![new] = first]
     /\ tail' = [tail EXCEPT ![old] = IF next[last] = Null THEN prev[first] ELSE @,
                             ![new] = last]
     /\ next' = With(With(next, prev[first], next[last]), last, Null)
     /\ prev' = With(With(prev, next[last], prev[first]), first, Null)
     /\ contents' = [contents EXCEPT
                       ![old] = SubSeq(@, 1, i - 1) \o SubSeq(@, j + 1, Len(@)),
                       ![new] = SubSeq(contents[old], i, j)]

\* listSplitByHead: from the i-th node on.
SplitByHead(old, i, new) ==
  LET n == contents[old][i] IN
  /\ old # new /\ contents[new] = <<>>
  /\ head' = [head EXCEPT ![old] = IF @ = n THEN Null ELSE @, ![new] = n]
  /\ tail' = [tail EXCEPT ![old] = prev[n], ![new] = tail[old]]
  /\ next' = With(next, prev[n], Null)
  /\ prev' = With(prev, n, Null)
  /\ contents' = [contents EXCEPT ![old] = SubSeq(@, 1, i - 1),
                                  ![new] = SubSeq(contents[old], i, Len(contents[old]))]

\* listSplitByTail: up to the i-th node.
SplitByTail(old, i, new) ==
  LET n == contents[old][i] IN
  /\ old # new /\ contents[new] = <<>>
  /\ head' = [head EXCEPT ![old] = next[n], ![new] = head[old]]
  /\ tail' = [tail EXCEPT ![old] = IF @ = n THEN Null ELSE @, ![new] = n]
  /\ prev' = With(prev, next[n], Null)
  /\ next' = With(next, n, Null)
  /\ contents' = [contents EXCEPT ![old] = SubSeq(@, i + 1, Len(@)),
                                  ![new] = SubSeq(contents[old], 1, i)]

\* Either of them at a null node takes all there is.
SplitAll(old, new) == contents[new] = <<>> /\ ListSwap(old, new)

OfOne(l) ==
  \/ \E m \in Node : InsertNodeFront(l, m) \/ InsertNodeBack(l, m) \/ InsertNodeSorted(l, m)
                     \/ ReplaceNullNode(l, m)
  \/ \E i \in DOMAIN contents[l] : RemoveNode(l, contents[l][i], i)
                                   \/ \E m \in Node : ReplaceNode(l, i, m)
  \/ PopNodeFront(l) \/ PopNodeBack(l)
  \/ Reversed(l)

OfTwo(k, l) ==
  \/ ListAppend(k, l) \/ ListSwap(k, l) \/ SplitAll(k, l)
  \/ \E i \in DOMAIN contents[k] :
        \/ SplitByHead(k, i, l) \/ SplitByTail(k, i, l)
        \/ \E j \in DOMAIN contents[k] : Split(k, i, j, l)

ListNext == \E k \in ListId : OfOne(k) \/ \E l \in ListId : OfTwo(k, l)

ListSpec == ListInit /\ [][ListNext]_listVars

-----------------------------------------------------------------------------

NodeOrNull == Node \cup {Null}

ListTypeOK ==
  /\ head \in [ListId -> NodeOrNull] /\ tail \in [ListId -> NodeOrNull]
  /\ prev \in [Node -> NodeOrNull \cup {Wild}]
  /\ next \in [Node -> NodeOrNull \cup {Wild}]
  /\ contents \in [ListId -> Seq(Node)]

\* No node is twice in a list, or in two lists.
NodesApart ==
  \A k, l \in ListId : \A i \in DOMAIN contents[k], j \in DOMAIN contents[l] :
    contents[k][i] = contents[l][j] => k = l /\ i = j

NodeAt(s, i) == IF i \in DOMAIN s THEN s[i] ELSE Null

\* From the first node h and the last node t, the links p and q go both ways
\* through the nodes of s and end.
Chain(h, t, p, q, s) ==
  /\ h = NodeAt(s, 1) /\ t = NodeAt(s, Len(s))
  /\ \A i \in DOMAIN s : p[s[i]] = NodeAt(s, i - 1) /\ q[s[i]] = NodeAt(s, i + 1)

\* Both ways through every list pass exactly the nodes the operations promised,
\* in order, and end, whatever the links of the nodes held before they were put
\* in (list.c:8-96, 143-241).
Linked == /\ NodesApart
          /\ \A l \in ListId : Chain(head[l], tail[l], prev, next, contents[l])

\* The pointer that the loops of listAt, listAtMost and listNodeCount hold after
\* i turns.
Walk(l) ==
  LET at[i \in 0 .. Cardinality(Node)] ==
        IF i = 0 THEN head[l] ELSE LET n == at[i - 1] IN IF n = Null THEN Null ELSE next[n]
  IN at

\* Mutant: past the end, the first node.
AtMostFirst(l, i) == IF Walk(l)[i] # Null THEN Walk(l)[i] ELSE head[l]

\* listAtMost: the node at i, or the one passed last.
AtMost(l, i) ==
  LET before == {j \in 0 .. i : Walk(l)[j] # Null} IN
  IF before = {} THEN Null ELSE Walk(l)[Max(before)]

\* listNodeCount
NodeCount(l) == Cardinality({i \in 0 .. Cardinality(Node) : Walk(l)[i] # Null})

\* Reading never runs off a list: an index past the end gives no node, or the
\* last one where the nearest was asked for (list.c:122-139).
ReadsStayInside ==
  \A l \in ListId, i \in 0 .. Cardinality(Node) :
    /\ Walk(l)[i] = NodeAt(contents[l], i + 1)
    /\ AtMost(l, i) = NodeAt(contents[l], IF i < Len(contents[l]) THEN i + 1 ELSE Len(contents[l]))
    /\ NodeCount(l) = Len(contents[l])

\* An operation writes no link of a node of a list it leaves as it was, so that
\* lists with a lock each can be used next to each other, although nodes that
\* moved from one to the other kept links into it (list.c:61-75, 143-158).
OthersUntouched ==
  [][\A l \in ListId : UNCHANGED contents[l] =>
       \A n \in ToSet(contents[l]) : prev'[n] = prev[n] /\ next'[n] = next[n]]_listVars

=============================================================================
