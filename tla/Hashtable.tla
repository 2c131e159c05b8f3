------------------------------ MODULE Hashtable ------------------------------
(***************************************************************************)
(* components/source/datastructs/hashtable.c: hash tables whose nodes      *)
(* belong to the caller.  Every node is on two lists: the list of its      *)
(* bucket (prev, next) and the list of all elements (ele_prev, ele_next).  *)
(* The caller may free a removed node: its links are wiped here.           *)
(*                                                                         *)
(* An operation is an operator on a state s: the fields of one table and   *)
(* the links of the nodes.  members is what the callers put in each table, *)
(* newest first; rehashed counts its rehashes that were not of an empty    *)
(* table.  The callers are correct: a node put in is in no table, one that *)
(* is removed or replaced can be found, its substitute has the same key.   *)
(***************************************************************************)
EXTENDS Integers, SequencesExt, Selection

CONSTANTS HtId, HtNode, HtNull,
          HtKey(_),             \* the key of a node
          HtHash(_),            \* keyhash
          HtSizes,              \* the sizes of the bucket arrays that callers give
          HtWord,               \* count is an unsigned number below this one
          HtMaxRehashes         \* bound: rehashes of tables that are not empty

\* The counter is as wide as a pointer, so that it can count what fits in memory.
ASSUME HtAssumption ==
  /\ IsFiniteSet(HtNode) /\ HtNull \notin HtNode
  /\ \A n \in HtNode : HtHash(HtKey(n)) \in Nat
  /\ HtSizes \subseteq Nat \ {0} /\ HtSizes # {}
  /\ HtWord \in Nat /\ Cardinality(HtNode) < HtWord

VARIABLES table,                \* of a Hashtable_t: buckets, head, count
          htLinks,              \* of a HashtableNode_t
          members, rehashed

htVars == <<table, htLinks, members, rehashed>>

HtKeys == {HtKey(n) : n \in HtNode}

InitTable(size) == [buckets |-> [b \in 0 .. size - 1 |-> HtNull], head |-> HtNull, count |-> 0]

HtInit ==
  /\ table = [h \in HtId |-> InitTable(CHOOSE z \in HtSizes : \A y \in HtSizes : z <= y)]
  /\ htLinks = LET none == [n \in HtNode |-> HtNull] IN
       [prev |-> none, next |-> none, elePrev |-> none, eleNext |-> none,
        index |-> [n \in HtNode |-> 0]]
  /\ members = [h \in HtId |-> <<>>]
  /\ rehashed = [h \in HtId |-> 0]

-----------------------------------------------------------------------------
\* n->f = v, where n may be null and nothing is written then.
Put(f, n, v) == IF n = HtNull THEN f ELSE [f EXCEPT ![n] = v]

\* The nodes from first along the links f; a walk that goes round in circles
\* is cut, and shows by its length.
WalkFrom(first, f) ==
  LET N == Cardinality(HtNode)
      at[i \in 0 .. N] == IF i = 0 THEN first
                          ELSE LET n == at[i - 1] IN IF n = HtNull THEN HtNull ELSE f[n]
  IN Only([i \in 1 .. N + 1 |-> at[i - 1]], HtNode)

BucketOf(t, k) == HtHash(k) % Cardinality(DOMAIN t.buckets)

GetNode(t, l, k) ==             \* hashtableSearchKey
  LET same == Only(WalkFrom(t.buckets[BucketOf(t, k)], l.next), {n \in HtNode : HtKey(n) = k})
  IN IF same = <<>> THEN HtNull ELSE Head(same)

State(h) == [t |-> table[h], l |-> htLinks]

\* Mutant: the head of all elements is not told of the node before it.
InsertedOneWay(s, n) ==
  LET b == BucketOf(s.t, HtKey(n))
      first == s.t.buckets[b] IN
  [t |-> [buckets |-> [s.t.buckets EXCEPT ![b] = n], head |-> n,
          count |-> (s.t.count + 1) % HtWord],
   l |-> [prev |-> Put(Put(s.l.prev, first, n), n, HtNull), next |-> Put(s.l.next, n, first),
          elePrev |-> Put(s.l.elePrev, n, HtNull),
          eleNext |-> Put(s.l.eleNext, n, s.t.head), index |-> Put(s.l.index, n, b)]]

\* hashtableInsertNode of a key that is not there.
Inserted(s, n) ==
  LET b == BucketOf(s.t, HtKey(n))
      first == s.t.buckets[b] IN
  [t |-> [buckets |-> [s.t.buckets EXCEPT ![b] = n], head |-> n,
          count |-> (s.t.count + 1) % HtWord],
   l |-> [prev |-> Put(Put(s.l.prev, first, n), n, HtNull), next |-> Put(s.l.next, n, first),
          elePrev |-> Put(Put(s.l.elePrev, s.t.head, n), n, HtNull),
          eleNext |-> Put(s.l.eleNext, n, s.t.head), index |-> Put(s.l.index, n, b)]]

\* Mutant: the bucket goes on beginning with the node.
RemovedFromBehind(s, n) ==
  [t |-> [buckets |-> s.t.buckets,
          head |-> IF s.t.head = n THEN s.l.eleNext[n] ELSE s.t.head,
          count |-> (s.t.count - 1) % HtWord],
   l |-> [prev |-> Put(s.l.prev, s.l.next[n], s.l.prev[n]),
          next |-> Put(s.l.next, s.l.prev[n], s.l.next[n]),
          elePrev |-> Put(s.l.elePrev, s.l.eleNext[n], s.l.elePrev[n]),
          eleNext |-> Put(s.l.eleNext, s.l.elePrev[n], s.l.eleNext[n]), index |-> s.l.index]]

Removed(s, n) ==
  [t |-> [buckets |-> [s.t.buckets EXCEPT ![s.l.index[n]] = IF @ = n THEN s.l.next[n] ELSE @],
          head |-> IF s.t.head = n THEN s.l.eleNext[n] ELSE s.t.head,
          count |-> (s.t.count - 1) % HtWord],
   l |-> [prev |-> Put(s.l.prev, s.l.next[n], s.l.prev[n]),
          next |-> Put(s.l.next, s.l.prev[n], s.l.next[n]),
          elePrev |-> Put(s.l.elePrev, s.l.eleNext[n], s.l.elePrev[n]),
          eleNext |-> Put(s.l.eleNext, s.l.elePrev[n], s.l.eleNext[n]), index |-> s.l.index]]

Replaced(s, o, n) ==
  [t |-> [buckets |-> IF s.l.prev[o] = HtNull
                        THEN [s.t.buckets EXCEPT ![s.l.index[o]] = n] ELSE s.t.buckets,
          head |-> IF s.l.elePrev[o] = HtNull THEN n ELSE s.t.head, count |-> s.t.count],
   l |-> [prev |-> Put(Put(s.l.prev, s.l.next[o], n), n, s.l.prev[o]),
          next |-> Put(Put(s.l.next, s.l.prev[o], n), n, s.l.next[o]),
          elePrev |-> Put(Put(s.l.elePrev, s.l.eleNext[o], n), n, s.l.elePrev[o]),
          eleNext |-> Put(Put(s.l.eleNext, s.l.elePrev[o], n), n, s.l.eleNext[o]),
          index |-> Put(s.l.index, n, s.l.index[o])]]

\* An element goes from a table to a temporary one.
Moved(m, n) ==
  LET out == Removed([t |-> m.t, l |-> m.l], n)
      in  == Inserted([t |-> m.tb, l |-> out.l], n)
  IN [t |-> out.t, tb |-> in.t, l |-> in.l]

\* hashtableRehash: each element goes to the temporary table, of which the table
\* takes the buckets, and neither the head nor the count.
Rehashed(s, size) ==
  LET walk == WalkFrom(s.t.head, s.l.eleNext)
      moved[i \in 0 .. Len(walk)] ==
        IF i = 0 THEN [t |-> s.t, tb |-> InitTable(size), l |-> s.l]
                 ELSE Moved(moved[i - 1], walk[i])
      last == moved[Len(walk)]
  IN [t |-> [last.t EXCEPT !.buckets = last.tb.buckets], l |-> last.l]

-----------------------------------------------------------------------------
Becomes(h, s) == table' = [table EXCEPT ![h] = s.t] /\ htLinks' = s.l

Wiped(l, n) == [prev |-> Put(l.prev, n, HtNull), next |-> Put(l.next, n, HtNull),
                elePrev |-> Put(l.elePrev, n, HtNull), eleNext |-> Put(l.eleNext, n, HtNull),
                index |-> Put(l.index, n, 0)]

Outside(n) == \A h \in HtId : n \notin ToSet(members[h])

HtInsertNode(h, n) ==
  /\ Outside(n)
  /\ IF GetNode(table[h], htLinks, HtKey(n)) = HtNull
       THEN /\ Becomes(h, Inserted(State(h), n))
            /\ members' = [members EXCEPT ![h] = <<n>> \o @]
       ELSE UNCHANGED <<table, htLinks, members>>
  /\ UNCHANGED rehashed

HtRemoveKey(h, k) ==
  LET n == GetNode(table[h], htLinks, k) IN
  /\ IF n = HtNull
       THEN UNCHANGED <<table, htLinks, members>>
       ELSE /\ LET s == Removed(State(h), n) IN Becomes(h, [s EXCEPT !.l = Wiped(@, n)])
            /\ members' = [members EXCEPT ![h] = Only(@, HtNode \ {n})]
  /\ UNCHANGED rehashed

HtReplaceNode(h, k, n) ==
  LET o == GetNode(table[h], htLinks, k) IN
  /\ o # HtNull /\ Outside(n) /\ HtKey(n) = k
  /\ LET s == Replaced(State(h), o, n) IN Becomes(h, [s EXCEPT !.l = Wiped(@, o)])
  /\ members' = [members EXCEPT ![h] = [i \in DOMAIN @ |-> IF @[i] = o THEN n ELSE @[i]]]
  /\ UNCHANGED rehashed

HtRehash(h, size) ==
  /\ members[h] # <<>> => SumFunction(rehashed) < HtMaxRehashes
  /\ Becomes(h, Rehashed(State(h), size))
  /\ rehashed' = [rehashed EXCEPT ![h] = IF members[h] = <<>> THEN @ ELSE @ + 1]
  /\ UNCHANGED members

HtSwap(one, two) ==
  LET swapped(f) == [f EXCEPT ![one] = f[two], ![two] = f[one]] IN
  /\ table' = swapped(table) /\ members' = swapped(members) /\ rehashed' = swapped(rehashed)
  /\ UNCHANGED htLinks

HtNext ==
  \E h \in HtId :
    \/ \E n \in HtNode : HtInsertNode(h, n)
    \/ \E k \in HtKeys : HtRemoveKey(h, k)
    \/ \E k \in HtKeys, n \in HtNode : HtReplaceNode(h, k, n)
    \/ \E size \in HtSizes : HtRehash(h, size)
    \/ \E g \in HtId \ {h} : HtSwap(h, g)

HtSpec == HtInit /\ [][HtNext]_htVars

-----------------------------------------------------------------------------
HtTypeOK ==
  /\ \A h \in HtId : /\ DOMAIN table[h].buckets \in {0 .. z - 1 : z \in HtSizes}
                     /\ table[h].head \in HtNode \cup {HtNull}
                     /\ table[h].count \in 0 .. HtWord - 1
  /\ \A n \in HtNode : htLinks.next[n] \in HtNode \cup {HtNull}

\* A key is found exactly when a node with it was put in, and then it is that
\* node: through every order of insertions, removals, replacements, swaps and
\* one rehash.  The second rehash walks the element list that the first one
\* forgot, and loses what was in it.
HtFinds ==
  \A h \in HtId : rehashed[h] < 2 =>
    \A k \in HtKeys :
      LET n == GetNode(table[h], htLinks, k) IN
        IF n = HtNull THEN \A m \in ToSet(members[h]) : HtKey(m) # k
                      ELSE n \in ToSet(members[h]) /\ HtKey(n) = k

\* Until the first rehash, walking the elements gives every member once, newest
\* first, the links back agree, and count tells how many there are.
HtIterates ==
  \A h \in HtId : rehashed[h] = 0 =>
    LET walk == WalkFrom(table[h].head, htLinks.eleNext) IN
    /\ walk = members[h]
    /\ table[h].count = Len(walk)
    /\ \A i \in DOMAIN walk :
         htLinks.elePrev[walk[i]] = IF i = 1 THEN HtNull ELSE walk[i - 1]

\* Both views of a table, its buckets and its list of elements, are what was put
\* in and not taken out since (hashtable.c:75-110, 205-232).
HtAgrees == HtTypeOK /\ HtFinds /\ HtIterates
=============================================================================
