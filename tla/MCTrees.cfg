SPECIFICATION TreesSpec
CONSTANTS
  JNode = {n1, n2, n3, n4}
  JNull = JNull
  JNames <- MCJNames
  JStrings <- MCJStrings
  JIntegers <- MCJIntegers
  JDoubles <- MCJDoubles
  XNode = {n1, n2, n3}
  XAttr = {a1, a2}
  XNull = XNull
  XNames <- MCXNames
  XContents <- MCXContents
  XAttrNames <- MCXAttrNames
  XValues <- MCXValues
INVARIANTS TreesLinked TextsReadBack
SYMMETRY MCSymmetry
