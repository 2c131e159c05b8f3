----------------------------- MODULE MCTrees -----------------------------
(* The two kinds of tree with their texts, side by side: they share nothing, *)
(* and a behaviour uses one of them.  Three or four nodes, and texts that    *)
(* have in them what the parsers treat specially.                            *)
EXTENDS TLC, Json, Xml

MCJNames == {<<"k">>}
MCJStrings == {<<"\\", ",", "w">>}
MCJIntegers == {-10}
MCJDoubles == {-2500000}

MCXNames == {<<"n">>}
MCXContents == {<<"c", " ">>}
MCXAttrNames == {<<"a">>, <<"b">>}
MCXValues == {<<"\\", "q">>}

MCSymmetry == Permutations(XNode) \cup Permutations(XAttr)

VARIABLE using

treesVars == <<using, jn, xmlVars>>

TreesInit == using \in {"json", "xml"} /\ JInit /\ XInit

TreesNext ==
  /\ UNCHANGED using
  /\ \/ using = "json" /\ JNext /\ UNCHANGED xmlVars
     \/ using = "xml" /\ XNext /\ UNCHANGED jn

TreesSpec == TreesInit /\ [][TreesNext]_treesVars

\* The links of both kinds of tree agree with each other, whatever is added and
\* detached where (json.c:468-567, cXML.c:177-277).
TreesLinked == JsonLinked /\ XmlLinked

\* What is printed can be parsed, and gives the tree that was printed (json.c,
\* cXML.c).
TextsReadBack == JsonReadsBack /\ XmlReadsBack
============================================================================
