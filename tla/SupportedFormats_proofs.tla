------------------------ MODULE SupportedFormats_proofs ------------------------
(***************************************************************************)
(* Proofs about SupportedFormats: what a camera offers can be told in      *)
(* numbers and cut from its active array, whatever limits are configured.  *)
(* What is chosen or computed from a finite set is proved by looking at a  *)
(* least counterexample: a smallest set for which it would be wrong.       *)
(***************************************************************************)
EXTENDS SupportedFormats, FiniteSetTheorems, TLAPS

-----------------------------------------------------------------------------
(* Least counterexamples.                                                  *)
LEMMA LeastNumber ==
    ASSUME NEW T \in SUBSET Nat, T # {}
    PROVE  \E n \in T : \A m \in T : n <= m
<1> DEFINE R == OpToRel(<, Nat)
<1>1. IsWellFoundedOn(R, Nat)
    BY NatLessThanWellFounded
<1>2. R = {ss \in Nat \X Nat : ss[1] < ss[2]}
    BY DEF OpToRel
<1> HIDE DEF R
<1>3. PICK n \in T : \A m \in T : <<m, n>> \notin R
    BY <1>1, WFMin
<1>4. ASSUME NEW m \in T PROVE n <= m
  <2>1. <<m, n>> \in Nat \X Nat /\ <<m, n>>[1] = m /\ <<m, n>>[2] = n
      OBVIOUS
  <2>2. ~(m < n)
      BY <1>2, <1>3, <2>1, Zenon
  <2> QED BY <2>2
<1> QED BY <1>4

(* Of some finite sets one has least elements.                             *)
LEMMA LeastSet ==
    ASSUME NEW Sets, Sets # {}, \A S \in Sets : IsFiniteSet(S)
    PROVE  \E S \in Sets : \A U \in Sets : Cardinality(S) <= Cardinality(U)
<1> DEFINE sizes == {Cardinality(S) : S \in Sets}
<1>1. sizes \in SUBSET Nat /\ sizes # {}
    BY FS_CardinalityType
<1>2. PICK n \in sizes : \A m \in sizes : n <= m
    BY <1>1, LeastNumber
<1> QED BY <1>2

(* Without one of its elements a finite set is smaller.                    *)
LEMMA Smaller ==
    ASSUME NEW S, IsFiniteSet(S), NEW x \in S
    PROVE  /\ IsFiniteSet(S \ {x}) /\ Cardinality(S \ {x}) = Cardinality(S) - 1
           /\ Cardinality(S) \in Nat /\ Cardinality(S \ {x}) \in Nat
           /\ ~(Cardinality(S) <= Cardinality(S \ {x}))
<1>1. IsFiniteSet(S \ {x}) /\ Cardinality(S \ {x}) = Cardinality(S) - 1
    BY FS_RemoveElement
<1>2. Cardinality(S) \in Nat /\ Cardinality(S \ {x}) \in Nat
    BY <1>1, FS_CardinalityType
<1> QED BY <1>1, <1>2

-----------------------------------------------------------------------------
(* The order of sizes.                                                     *)
IsSize(a) == a.w \in Nat /\ a.h \in Nat /\ a.w > 0 /\ a.h > 0

LEMMA NotAboveOrders ==
    ASSUME NEW crop, NEW a, NEW b, NEW c, IsSize(a), IsSize(b), IsSize(c)
    PROVE  /\ NotAbove(crop, a, a)
           /\ NotAbove(crop, a, b) \/ NotAbove(crop, b, a)
           /\ NotAbove(crop, a, b) /\ NotAbove(crop, b, c) => NotAbove(crop, a, c)
BY DEF IsSize, NotAbove

(* std::sort has a last one.                                               *)
LEMMA LargestExists ==
    ASSUME NEW crop, NEW G, IsFiniteSet(G), G # {}, NEW size, \A k \in G : IsSize(size[k])
    PROVE  \E k \in G : \A j \in G : NotAbove(crop, size[j], size[k])
<1> DEFINE Top(k, S) == \A j \in S : NotAbove(crop, size[j], size[k])
           Bad == {S \in SUBSET G : S # {} /\ \A k \in S : ~Top(k, S)}
<1> SUFFICES ASSUME Bad # {} PROVE FALSE
    OBVIOUS
<1>1. \A S \in Bad : IsFiniteSet(S)
    BY FS_Subset
<1>2. PICK S \in Bad : \A U \in Bad : Cardinality(S) <= Cardinality(U)
    BY <1>1, LeastSet
<1>3. PICK x \in S : TRUE
    OBVIOUS
<1> DEFINE rest == S \ {x}
<1>4. rest \notin Bad
    BY <1>1, <1>2, <1>3, Smaller
<1>5. CASE rest = {}
  <2>1. S = {x} /\ IsSize(size[x])
      BY <1>5
  <2>2. Top(x, S)
      BY <2>1, NotAboveOrders
  <2> QED BY <2>2
<1>6. CASE rest # {}
  <2>1. PICK m \in rest : Top(m, rest)
      BY <1>4, <1>6
  <2>2. IsSize(size[x]) /\ \A j \in rest : IsSize(size[j])
      OBVIOUS
  <2>3. CASE NotAbove(crop, size[x], size[m])
    <3>1. Top(m, S)
        BY <2>1, <2>3
    <3> QED BY <3>1
  <2>4. CASE ~NotAbove(crop, size[x], size[m])
    <3>1. NotAbove(crop, size[m], size[x]) /\ NotAbove(crop, size[x], size[x])
        BY <2>2, <2>4, NotAboveOrders
    <3>2. ASSUME NEW j \in rest PROVE NotAbove(crop, size[j], size[x])
        BY <2>1, <2>2, <3>1, NotAboveOrders
    <3>3. Top(x, S)
        BY <3>1, <3>2
    <3> QED BY <3>3
  <2> QED BY <2>3, <2>4
<1> QED BY <1>5, <1>6

LEMMA LastIsLargest ==
    ASSUME NEW crop, NEW S, IsFiniteSet(S), S # {}, \A f \in S : IsSize(f)
    PROVE  LastOf(crop, S) \in S /\ \A f \in S : NotAbove(crop, f, LastOf(crop, S))
<1> DEFINE size == [f \in S |-> f]
<1>1. \A f \in S : size[f] = f
    OBVIOUS
<1> HIDE DEF size
<1>2. \E k \in S : \A j \in S : NotAbove(crop, size[j], size[k])
    BY <1>1, LargestExists
<1>3. \E a \in S : \A b \in S : NotAbove(crop, b, a)
    BY <1>1, <1>2
<1> QED BY <1>3 DEF LastOf

-----------------------------------------------------------------------------
(* The active array.  What is kept after each set of formats, the smallest *)
(* first, is a function of the set.                                        *)
NoFormat == [w |-> 0, h |-> 0, rates |-> {}]

Later(last, before) == IF NoSmaller(last, before) THEN last ELSE before
KeptAfter(crop, g, some) ==
    IF some = {} THEN NoFormat
    ELSE Later(LastOf(crop, some), g[some \ {LastOf(crop, some)}])

IsKept(crop, sets, g) == g = [some \in sets |-> KeptAfter(crop, g, some)]

Kept(crop, formats) == CHOOSE g : IsKept(crop, SUBSET formats, g)

LEMMA ActiveArrayIsKept ==
    ASSUME NEW crop, NEW formats PROVE ActiveArray(crop, formats) = Kept(crop, formats)[formats]
BY DEF ActiveArray, Kept, IsKept, KeptAfter, Later, NoFormat

UpTo(n, formats) == {S \in SUBSET formats : Cardinality(S) <= n}

LEMMA KeptSome ==
    ASSUME NEW crop, NEW formats, IsFiniteSet(formats), \A f \in formats : IsSize(f), NEW n \in Nat
    PROVE  \E g : IsKept(crop, UpTo(n, formats), g)
<1> DEFINE Bad == {k \in Nat : ~ \E g : IsKept(crop, UpTo(k, formats), g)}
<1> SUFFICES ASSUME Bad # {} PROVE FALSE
    OBVIOUS
<1>1. PICK k \in Bad : \A m \in Bad : k <= m
    BY LeastNumber
<1>2. CASE k = 0
  <2>1. ASSUME NEW S \in UpTo(0, formats) PROVE S = {}
    <3>1. IsFiniteSet(S) /\ Cardinality(S) <= 0
        BY FS_Subset DEF UpTo
    <3>2. Cardinality(S) \in Nat
        BY <3>1, FS_CardinalityType
    <3> QED BY <3>1, <3>2, FS_EmptySet
  <2> DEFINE g == [some \in UpTo(0, formats) |-> NoFormat]
  <2>2. g = [some \in UpTo(0, formats) |-> KeptAfter(crop, g, some)]
      BY <2>1 DEF KeptAfter
  <2>3. IsKept(crop, UpTo(0, formats), g)
      BY <2>2 DEF IsKept
  <2> QED BY <1>2, <2>3
<1>3. CASE k # 0
  <2>1. k \in Nat /\ k - 1 \in Nat /\ k - 1 \notin Bad
      BY <1>1, <1>3
  <2>2. PICK g : IsKept(crop, UpTo(k - 1, formats), g)
      BY <2>1
  <2> DEFINE h == [some \in UpTo(k, formats) |-> KeptAfter(crop, g, some)]
  <2>3. ASSUME NEW some \in UpTo(k, formats), some # {}
        PROVE  h[some \ {LastOf(crop, some)}] = g[some \ {LastOf(crop, some)}]
    <3> DEFINE rest == some \ {LastOf(crop, some)}
    <3>1. some \in SUBSET formats /\ IsFiniteSet(some) /\ Cardinality(some) <= k
        BY FS_Subset DEF UpTo
    <3>2. LastOf(crop, some) \in some
        BY <2>3, <3>1, LastIsLargest
    <3>3. Cardinality(rest) = Cardinality(some) - 1 /\ Cardinality(some) \in Nat
        BY <3>1, <3>2, Smaller
    <3>4. rest \in UpTo(k, formats) /\ rest \in UpTo(k - 1, formats)
        BY <2>1, <3>1, <3>3 DEF UpTo
    <3>5. g[rest] = KeptAfter(crop, g, rest)
        BY <2>2, <3>4 DEF IsKept
    <3> QED BY <3>4, <3>5
  <2>4. ASSUME NEW some \in UpTo(k, formats)
        PROVE  KeptAfter(crop, g, some) = KeptAfter(crop, h, some)
    <3>1. CASE some = {}
        BY <3>1 DEF KeptAfter
    <3>2. CASE some # {}
        BY <2>3, <3>2 DEF KeptAfter
    <3> QED BY <3>1, <3>2
  <2> DEFINE again == [some \in UpTo(k, formats) |-> KeptAfter(crop, h, some)]
  <2>5. h = again
      BY <2>4
  <2>6. IsKept(crop, UpTo(k, formats), h)
      BY <2>5 DEF IsKept
  <2> QED BY <1>1, <2>6
<1> QED BY <1>2, <1>3

(* What is kept after some formats, and that it is one of them.            *)
LEMMA KeptIs ==
    ASSUME NEW crop, NEW formats, IsFiniteSet(formats), \A f \in formats : IsSize(f)
    PROVE  \A some \in SUBSET formats :
              /\ Kept(crop, formats)[some] = KeptAfter(crop, Kept(crop, formats), some)
              /\ Kept(crop, formats)[some] \in some \cup {NoFormat}
<1>1. IsKept(crop, SUBSET formats, Kept(crop, formats))
  <2>1. Cardinality(formats) \in Nat
      BY FS_CardinalityType
  <2>2. UpTo(Cardinality(formats), formats) = SUBSET formats
      BY FS_Subset DEF UpTo
  <2>3. \E g : IsKept(crop, SUBSET formats, g)
    <3>1. \E g : IsKept(crop, UpTo(Cardinality(formats), formats), g)
        BY <2>1, KeptSome
    <3> QED BY <2>2, <3>1
  <2> QED BY <2>3, Zenon DEF Kept, IsKept
<1> DEFINE g == Kept(crop, formats)
<1>2. \A some \in SUBSET formats : g[some] = KeptAfter(crop, g, some)
    BY <1>1 DEF IsKept
<1> HIDE DEF g
<1>3. ASSUME NEW any \in SUBSET formats, g[any] \notin any \cup {NoFormat} PROVE FALSE
  <2> DEFINE Bad == {S \in SUBSET formats : g[S] \notin S \cup {NoFormat}}
  <2>1. Bad # {} /\ \A S \in Bad : IsFiniteSet(S)
      BY <1>3, FS_Subset
  <2>2. PICK S \in Bad : \A U \in Bad : Cardinality(S) <= Cardinality(U)
      BY <2>1, LeastSet
  <2>3. S # {}
      BY <1>2 DEF KeptAfter
  <2>4. LastOf(crop, S) \in S
      BY <2>1, <2>3, LastIsLargest
  <2> DEFINE rest == S \ {LastOf(crop, S)}
  <2>5. rest \in SUBSET formats /\ rest \notin Bad
      BY <2>1, <2>2, <2>4, Smaller
  <2>6. g[rest] \in S \cup {NoFormat}
      BY <2>5
  <2>7. g[S] = Later(LastOf(crop, S), g[rest])
      BY <1>2, <2>3 DEF KeptAfter
  <2> QED BY <2>4, <2>6, <2>7 DEF Later
<1> QED BY <1>2, <1>3 DEF g

(* The array is the largest size, or one that is larger in one direction.  *)
LEMMA ActiveArrayIs ==
    ASSUME NEW crop, NEW formats, IsFiniteSet(formats), formats # {}, \A f \in formats : IsSize(f)
    PROVE  /\ LastOf(crop, formats) \in formats
           /\ \A f \in formats : NotAbove(crop, f, LastOf(crop, formats))
           /\ ActiveArray(crop, formats) \in formats
           /\ \/ ActiveArray(crop, formats) = LastOf(crop, formats)
              \/ ~NoSmaller(LastOf(crop, formats), ActiveArray(crop, formats))
<1> DEFINE g    == Kept(crop, formats)
           last == LastOf(crop, formats)
           rest == formats \ {last}
<1>1. last \in formats /\ \A f \in formats : NotAbove(crop, f, last)
    BY LastIsLargest
<1>2. g[formats] = KeptAfter(crop, g, formats) /\ g[rest] \in rest \cup {NoFormat}
    BY KeptIs
<1>5. g[formats] = Later(last, g[rest])
    BY <1>2 DEF KeptAfter
<1>3. NoSmaller(last, NoFormat)
    BY <1>1 DEF NoSmaller, NoFormat, IsSize
<1>4. ActiveArray(crop, formats) = g[formats]
    BY ActiveArrayIsKept
<1> QED BY <1>1, <1>2, <1>3, <1>4, <1>5 DEF Later

-----------------------------------------------------------------------------
(* Cutting a format from the array.                                        *)
LEMMA EvenIs ==
    ASSUME NEW n \in Nat PROVE Even(n) \in Nat /\ Even(n) <= n
BY DEF Even

LEMMA QuotientBound ==
    ASSUME NEW x \in Nat, NEW y \in Nat, y > 0, NEW h \in Nat, x <= h * y
    PROVE  x \div y \in Nat /\ x \div y <= h
<1> DEFINE q == x \div y
<1>1. q \in Nat /\ q * y <= x
    OBVIOUS
<1> HIDE DEF q
<1>2. CASE q >= h + 1
  <2>1. q * y >= (h + 1) * y
      BY <1>1, <1>2
  <2>2. (h + 1) * y = h * y + y /\ h * y \in Nat /\ q * y \in Nat
      BY <1>1
  <2> QED BY <1>1, <2>1, <2>2
<1> QED BY <1>1, <1>2 DEF q

(* What is of a ratio close to the array's, or is cut from the side that   *)
(* is too long, lies inside.                                               *)
LEMMA CutIsInside ==
    ASSUME NEW crop \in CroppingTypes, NEW array, NEW format, IsSize(array), IsSize(format),
           \/ isAspectRatioClose(array, format)
           \/ crop = "VERTICAL" /\ ~Wider(array, format)
           \/ crop = "HORIZONTAL" /\ ~Wider(format, array)
    PROVE  Inside(getCropRect(crop, array, format), array)
<1>1. CASE isAspectRatioClose(array, format)
    BY <1>1 DEF getCropRect, Inside, NoRect, IsSize
<1>2. CASE ~isAspectRatioClose(array, format) /\ crop = "VERTICAL"
  <2> DEFINE scaled == (format.h * array.w) \div format.w
             height == Even(scaled)
             top    == Even((array.h - height) \div 2)
  <2>1. format.h * array.w \in Nat /\ format.h * array.w <= array.h * format.w
      BY <1>2 DEF Wider, IsSize
  <2>2. scaled \in Nat /\ scaled <= array.h
      BY <2>1, QuotientBound DEF IsSize
  <2> HIDE DEF scaled
  <2>3. height \in Nat /\ height <= array.h
      BY <2>2, EvenIs DEF IsSize
  <2> HIDE DEF height
  <2>4. (array.h - height) \div 2 \in Nat /\ 2 * ((array.h - height) \div 2) <= array.h - height
      BY <2>3 DEF IsSize
  <2>5. top \in Nat /\ top <= (array.h - height) \div 2
      BY <2>4, EvenIs
  <2> HIDE DEF top
  <2>6. top + height <= array.h
      BY <2>3, <2>4, <2>5 DEF IsSize
  <2>7. getCropRect(crop, array, format)
           = [left |-> 0, top |-> top, width |-> array.w, height |-> height]
      BY <1>2, <2>2 DEF getCropRect, IsSize, scaled, height, top
  <2> QED BY <2>3, <2>5, <2>6, <2>7 DEF Inside, NoRect, IsSize
<1>3. CASE ~isAspectRatioClose(array, format) /\ crop = "HORIZONTAL"
  <2> DEFINE scaled == (format.w * array.h) \div format.h
             width  == Even(scaled)
             side   == Even((array.w - width) \div 2)
  <2>1. format.w * array.h \in Nat /\ format.w * array.h <= array.w * format.h
      BY <1>3 DEF Wider, IsSize
  <2>2. scaled \in Nat /\ scaled <= array.w
      BY <2>1, QuotientBound DEF IsSize
  <2> HIDE DEF scaled
  <2>3. width \in Nat /\ width <= array.w
      BY <2>2, EvenIs DEF IsSize
  <2> HIDE DEF width
  <2>4. (array.w - width) \div 2 \in Nat /\ 2 * ((array.w - width) \div 2) <= array.w - width
      BY <2>3 DEF IsSize
  <2>5. side \in Nat /\ side <= (array.w - width) \div 2
      BY <2>4, EvenIs
  <2> HIDE DEF side
  <2>6. side + width <= array.w
      BY <2>3, <2>4, <2>5 DEF IsSize
  <2>7. getCropRect(crop, array, format)
           = [left |-> side, top |-> 0, width |-> width, height |-> array.h]
      BY <1>3, <2>2 DEF getCropRect, IsSize, scaled, width, side
  <2> QED BY <2>3, <2>5, <2>6, <2>7 DEF Inside, NoRect, IsSize
<1> QED BY <1>1, <1>2, <1>3 DEF CroppingTypes

(* A ratio between two that are close is close to both: f/e <= b/a <= n/m, *)
(* or, with the signs turned, f/e >= b/a >= n/m.                           *)
LEMMA BetweenIsClose ==
    ASSUME NEW a \in Nat, NEW b \in Int, NEW e \in Nat, NEW f \in Int, NEW m \in Nat, NEW n \in Int,
           a > 0, e > 0, m > 0,
           b * m <= n * a, 40 * (n * e - f * m) < m * e
    PROVE  40 * (b * e - f * a) < a * e
<1> SUFFICES ASSUME 40 * (b * e - f * a) >= a * e PROVE FALSE
    OBVIOUS
<1>1. (b * m) * e <= (n * a) * e
    OBVIOUS
<1>2. m * (40 * (b * e - f * a)) >= m * (a * e)
    OBVIOUS
<1>3. a * (40 * (n * e - f * m)) < a * (m * e)
    OBVIOUS
<1> QED BY <1>1, <1>2, <1>3

(* The sizes that cross are of close ratios, and none holds the other.     *)
Crosses(a, b) == isAspectRatioClose(a, b) /\ ~NoSmaller(a, b) /\ ~NoSmaller(b, a)

(* An array other than the largest size crosses it.                        *)
LEMMA ArrayCrosses ==
    ASSUME NEW crop \in CroppingTypes, NEW last, NEW array, IsSize(last), IsSize(array),
           Croppable(crop, array, last), NotAbove(crop, array, last), ~NoSmaller(last, array)
    PROVE  /\ Crosses(array, last)
           /\ crop = "VERTICAL" => array.w < last.w /\ array.h > last.h
                                   /\ array.w * last.h <= last.w * array.h
           /\ crop = "HORIZONTAL" => array.h < last.h /\ array.w > last.w
                                     /\ last.w * array.h <= array.w * last.h
<1>1. CASE crop = "VERTICAL"
  <2>1. array.w < last.w /\ array.h > last.h
      BY <1>1 DEF NotAbove, NoSmaller, IsSize
  <2>2. array.w * last.h <= last.w * last.h /\ last.w * last.h <= last.w * array.h
      BY <2>1 DEF IsSize
  <2>3. array.w * last.h <= last.w * array.h
      BY <2>2 DEF IsSize
  <2>4. isAspectRatioClose(array, last)
      BY <1>1, <2>3 DEF Croppable, Wider, IsSize
  <2> QED BY <1>1, <2>1, <2>3, <2>4 DEF Crosses, NoSmaller, IsSize
<1>2. CASE crop = "HORIZONTAL"
  <2>1. array.h < last.h /\ array.w > last.w
      BY <1>2 DEF NotAbove, NoSmaller, IsSize
  <2>2. last.w * array.h <= last.w * last.h /\ last.w * last.h <= array.w * last.h
      BY <2>1 DEF IsSize
  <2>3. last.w * array.h <= array.w * last.h
      BY <2>2 DEF IsSize
  <2>4. isAspectRatioClose(array, last)
      BY <1>2, <2>3 DEF Croppable, Wider, IsSize
  <2> QED BY <1>2, <2>1, <2>3, <2>4 DEF Crosses, NoSmaller, IsSize
<1> QED BY <1>1, <1>2 DEF CroppingTypes

(* r(a) <= r(b) and r(b) <= r(c).                                          *)
LEMMA NotWiderOrders ==
    ASSUME NEW a, NEW b, NEW c, IsSize(a), IsSize(b), IsSize(c), ~Wider(a, b), ~Wider(b, c)
    PROVE  ~Wider(a, c)
<1>1. a.w * b.h <= b.w * a.h /\ b.w * c.h <= c.w * b.h
    BY DEF Wider, IsSize
<1>2. (a.w * b.h) * c.h <= (b.w * a.h) * c.h /\ (b.w * c.h) * a.h <= (c.w * b.h) * a.h
    BY <1>1 DEF IsSize
<1>3. b.h * (a.w * c.h) <= b.h * (c.w * a.h)
    BY <1>2 DEF IsSize
<1> DEFINE x == a.w * c.h
           y == c.w * a.h
<1>4. x \in Nat /\ y \in Nat
    BY DEF IsSize
<1>5. b.h * x <= b.h * y
    BY <1>3
<1> HIDE DEF x, y
<1>6. CASE x > y
  <2>1. b.h * x > b.h * y
      BY <1>4, <1>6 DEF IsSize
  <2> QED BY <1>4, <1>5, <2>1 DEF IsSize
<1>7. CASE x <= y
    BY <1>7 DEF x, y, Wider, IsSize
<1> QED BY <1>4, <1>6, <1>7

(* What was kept for the largest size can be cut from the array.           *)
LEMMA CroppableFromArray ==
    ASSUME NEW crop \in CroppingTypes, NEW last, NEW array, NEW format,
           IsSize(last), IsSize(array), IsSize(format),
           Croppable(crop, array, last), NotAbove(crop, array, last),
           Croppable(crop, format, last), NotAbove(crop, format, last),
           array = last \/ ~NoSmaller(last, array)
    PROVE  \/ isAspectRatioClose(array, format)
           \/ crop = "VERTICAL" /\ ~Wider(array, format)
           \/ crop = "HORIZONTAL" /\ ~Wider(format, array)
<1>1. CASE array = last
    BY <1>1 DEF Croppable, isAspectRatioClose, Wider, IsSize, CroppingTypes
<1>2. CASE array # last /\ crop = "VERTICAL"
  <2>1. ~Wider(array, last) /\ array.w * last.h <= last.w * array.h
      BY <1>2, ArrayCrosses DEF Wider, IsSize
  <2>2. CASE Wider(format, last)
    <3>1. ~Wider(last, format)
        BY <2>2 DEF Wider, IsSize
    <3> QED BY <1>2, <2>1, <3>1, NotWiderOrders
  <2>3. CASE isAspectRatioClose(format, last) /\ Wider(array, format)
    <3>1. 40 * (last.w * format.h - format.w * last.h) < last.h * format.h
        BY <2>3 DEF isAspectRatioClose, IsSize
    <3>2. 40 * (array.w * format.h - format.w * array.h) < array.h * format.h
        BY <2>1, <3>1, BetweenIsClose DEF IsSize
    <3>3. format.w * array.h < array.w * format.h /\ array.h * format.h > 0
        BY <2>3 DEF Wider, IsSize
    <3> QED BY <3>2, <3>3 DEF isAspectRatioClose, IsSize
  <2> QED BY <1>2, <2>2, <2>3 DEF Croppable
<1>3. CASE array # last /\ crop = "HORIZONTAL"
  <2>1. ~Wider(last, array) /\ last.w * array.h <= array.w * last.h
      BY <1>3, ArrayCrosses DEF Wider, IsSize
  <2>2. CASE Wider(last, format)
    <3>1. ~Wider(format, last)
        BY <2>2 DEF Wider, IsSize
    <3> QED BY <1>3, <2>1, <3>1, NotWiderOrders
  <2>3. CASE isAspectRatioClose(format, last) /\ Wider(format, array)
    <3> DEFINE b == -array.w
               f == -format.w
               n == -last.w
    <3>1. 40 * (format.w * last.h - last.w * format.h) < last.h * format.h
        BY <2>3 DEF isAspectRatioClose, IsSize
    <3>2. /\ b \in Int /\ f \in Int /\ n \in Int
          /\ b * last.h <= n * array.h
          /\ 40 * (n * format.h - f * last.h) < last.h * format.h
        BY <2>1, <3>1 DEF IsSize
    <3>3. 40 * (b * format.h - f * array.h) < array.h * format.h
        BY <3>2, BetweenIsClose DEF IsSize
    <3>4. 40 * (format.w * array.h - array.w * format.h) < array.h * format.h
        BY <3>3 DEF IsSize
    <3>5. array.w * format.h < format.w * array.h /\ array.h * format.h > 0
        BY <2>3 DEF Wider, IsSize
    <3> QED BY <3>4, <3>5 DEF isAspectRatioClose, IsSize
  <2> QED BY <1>3, <2>2, <2>3 DEF Croppable
<1> QED BY <1>1, <1>2, <1>3 DEF CroppingTypes

(* Nothing kept is larger than the array but for sizes that cross.         *)
LEMMA ArrayHolds ==
    ASSUME NEW crop \in CroppingTypes, NEW last, NEW array, NEW format,
           IsSize(last), IsSize(array), IsSize(format),
           Croppable(crop, array, last), NotAbove(crop, array, last),
           Croppable(crop, format, last), NotAbove(crop, format, last),
           array = last \/ ~NoSmaller(last, array)
    PROVE  Crosses(array, last) \/ Crosses(format, last) \/ NoSmaller(array, format)
<1>1. CASE array # last
    BY <1>1, ArrayCrosses
<1>2. CASE ~NoSmaller(last, format)
    BY <1>2, ArrayCrosses
<1> QED BY <1>1, <1>2

-----------------------------------------------------------------------------
(* The formats made of a list of limits.                                   *)
Limits == [w : Nat, h : Nat, fps : Int]

SizedLimits(limits) == limits \in Seq(Limits) /\ \A k \in DOMAIN limits : IsSize(limits[k])

(* The last format has the size of the largest limit, and all are kept for *)
(* that size.                                                              *)
FormatsFor(crop, limits) == {SupportedFormat(crop, limits, k) : k \in Candidates(crop, limits)}

LEMMA FormatsMade ==
    ASSUME NEW crop \in CroppingTypes, NEW limits, SizedLimits(limits)
    PROVE  LET formats == FormatsFor(crop, limits)
           IN  /\ IsFiniteSet(formats)
               /\ \A f \in formats :
                     /\ f \in [w : Nat, h : Nat, rates : SUBSET FrameRates]
                     /\ IsSize(f) /\ f.rates # {}
                     /\ Croppable(crop, f, LastOf(crop, formats))
               /\ formats # {} => LastOf(crop, formats) \in formats
               /\ \A f \in formats : NotAbove(crop, f, LastOf(crop, formats))
<1> DEFINE with    == WithRates(crop, limits)
           kept    == Candidates(crop, limits)
           formats == FormatsFor(crop, limits)
           largest == Largest(crop, limits, with)
<1>1. with \subseteq DOMAIN limits /\ kept \subseteq with /\ IsFiniteSet(with) /\ IsFiniteSet(kept)
  <2>1. with \subseteq DOMAIN limits /\ kept \subseteq with
      BY DEF WithRates, Candidates, trimSupportedFormats
  <2>2. DOMAIN limits = 1 .. Len(limits) /\ Len(limits) \in Nat
      BY DEF SizedLimits
  <2>3. IsFiniteSet(DOMAIN limits)
      BY <2>2, FS_Interval
  <2> QED BY <2>1, <2>3, FS_Subset
<1>2. IsFiniteSet(formats)
  <2> DEFINE make == [k \in kept |-> SupportedFormat(crop, limits, k)]
  <2>1. formats = {make[k] : k \in kept}
      BY DEF FormatsFor
  <2>2. make \in Surjection(kept, formats)
      BY <2>1 DEF Surjection
  <2> QED BY <1>1, <2>2, FS_Surjection
<1>3. ASSUME NEW k \in kept
      PROVE  LET f == SupportedFormat(crop, limits, k)
             IN  /\ f \in [w : Nat, h : Nat, rates : SUBSET FrameRates]
                 /\ IsSize(f) /\ f.rates # {}
                 /\ f.w = limits[k].w /\ f.h = limits[k].h
  <2>1. limits[k] \in Limits /\ IsSize(limits[k]) /\ k \in with
      BY <1>1 DEF SizedLimits
  <2>2. updateFpsBounds(crop, limits, k) \subseteq FrameRates /\ updateFpsBounds(crop, limits, k) # {}
      BY <2>1 DEF WithRates, updateFpsBounds
  <2> QED BY <2>1, <2>2 DEF SupportedFormat, Limits, IsSize
<1>4. SUFFICES ASSUME formats # {}
               PROVE  /\ LastOf(crop, formats) \in formats
                      /\ \A f \in formats : /\ Croppable(crop, f, LastOf(crop, formats))
                                            /\ NotAbove(crop, f, LastOf(crop, formats))
    BY <1>2, <1>3 DEF FormatsFor
<1>5. largest \in with /\ \A j \in with : NotAbove(crop, limits[j], limits[largest])
  <2>1. with # {} /\ \A k \in with : IsSize(limits[k])
      BY <1>1, <1>4 DEF FormatsFor, SizedLimits
  <2>2. \E k \in with : \A j \in with : NotAbove(crop, limits[j], limits[k])
      BY <1>1, <2>1, LargestExists
  <2> QED BY <2>2 DEF Largest
<1>6. IsSize(limits[largest])
    BY <1>1, <1>5 DEF SizedLimits
<1>7. kept = {k \in with : Croppable(crop, limits[k], limits[largest])}
    BY DEF Candidates, trimSupportedFormats
<1>8. largest \in kept
    BY <1>5, <1>6, <1>7 DEF Croppable, isAspectRatioClose, IsSize
<1> DEFINE last == LastOf(crop, formats)
<1>9. last \in formats /\ \A f \in formats : NotAbove(crop, f, last)
    BY <1>2, <1>3, <1>4, LastIsLargest DEF FormatsFor
<1>10. PICK k \in kept : last = SupportedFormat(crop, limits, k)
    BY <1>9 DEF FormatsFor
<1>11. NotAbove(crop, limits[largest], last) /\ NotAbove(crop, last, limits[largest])
  <2>1. SupportedFormat(crop, limits, largest) \in formats
      BY <1>8 DEF FormatsFor
  <2> QED BY <1>1, <1>3, <1>5, <1>8, <1>9, <1>10, <2>1 DEF NotAbove
<1>12. last.w = limits[largest].w /\ last.h = limits[largest].h
    BY <1>3, <1>6, <1>10, <1>11 DEF NotAbove, IsSize
<1>13. ASSUME NEW f \in formats PROVE Croppable(crop, f, last)
  <2>1. PICK j \in kept : f = SupportedFormat(crop, limits, j)
      BY DEF FormatsFor
  <2>2. f.w = limits[j].w /\ f.h = limits[j].h /\ Croppable(crop, limits[j], limits[largest])
      BY <1>3, <1>7, <2>1
  <2> QED BY <1>12, <2>2 DEF Croppable, isAspectRatioClose, Wider
<1> QED BY <1>9, <1>13

(* Some of the formats' rates is the lowest, and is 10 at least; the       *)
(* default one is among them.                                              *)
LEMMA RatesMade ==
    ASSUME NEW formats, formats # {}, \A f \in formats : f.rates \subseteq FrameRates /\ f.rates # {}
    PROVE  /\ FrameDurationDivisor(formats) > 0
           /\ DefaultFpsRange(formats) \in TargetFpsRanges(formats)
<1> DEFINE all == AllRates(formats)
<1>1. all \subseteq FrameRates /\ all # {}
    BY DEF AllRates
<1>2. all \in SUBSET Nat
    BY <1>1 DEF FrameRates
<1>3. MinFps(formats) \in FrameRates
  <2>1. \E rate \in all : \A other \in all : rate <= other
      BY <1>1, <1>2, LeastNumber
  <2> QED BY <1>1, <2>1 DEF MinFps
<1>4. DefaultFramerate(formats) \in all
  <2>1. \E rate \in all : \A other \in all : other <= rate
    <3>1. CASE 60 \in all
        BY <1>1, <3>1 DEF FrameRates
    <3>2. CASE 60 \notin all /\ 30 \in all
        BY <1>1, <3>2 DEF FrameRates
    <3>3. CASE 60 \notin all /\ 30 \notin all /\ 15 \in all
        BY <1>1, <3>3 DEF FrameRates
    <3>4. CASE 60 \notin all /\ 30 \notin all /\ 15 \notin all
        BY <1>1, <3>4 DEF FrameRates
    <3> QED BY <3>1, <3>2, <3>3, <3>4
  <2> QED BY <2>1 DEF DefaultFramerate
<1>5. MinFps(formats) \div 2 > 0
    BY <1>3 DEF FrameRates
<1> QED BY <1>4, <1>5 DEF FrameDurationDivisor, DefaultFpsRange, TargetFpsRanges

(* What FormatsUsable says of the formats made of a list of limits.        *)
LEMMA FormatsAreUsable ==
    ASSUME NEW crop \in CroppingTypes, NEW limits, SizedLimits(limits), NEW formats,
           formats = FormatsFor(crop, limits), formats # {}
    PROVE  LET array == ActiveArray(crop, formats)
           IN  /\ FrameDurationDivisor(formats) > 0
               /\ DefaultFpsRange(formats) \in TargetFpsRanges(formats)
               /\ \A format \in formats :
                     /\ Inside(getCropRect(crop, array, format), array)
                     /\ (\E a, b \in formats : Crosses(a, b)) \/ NoSmaller(array, format)
<1> DEFINE array == ActiveArray(crop, formats)
           last  == LastOf(crop, formats)
<1>1. /\ IsFiniteSet(formats)
      /\ \A f \in formats : IsSize(f) /\ f.rates # {} /\ f.rates \subseteq FrameRates
      /\ \A f \in formats : Croppable(crop, f, last) /\ NotAbove(crop, f, last)
      /\ last \in formats
    BY FormatsMade
<1>2. array \in formats /\ (array = last \/ ~NoSmaller(last, array))
    BY <1>1, ActiveArrayIs
<1> HIDE DEF array, last
<1>3. FrameDurationDivisor(formats) > 0 /\ DefaultFpsRange(formats) \in TargetFpsRanges(formats)
    BY <1>1, RatesMade
<1>4. ASSUME NEW format \in formats
      PROVE  /\ Inside(getCropRect(crop, array, format), array)
             /\ Crosses(array, last) \/ Crosses(format, last) \/ NoSmaller(array, format)
  <2>1. \/ isAspectRatioClose(array, format)
        \/ crop = "VERTICAL" /\ ~Wider(array, format)
        \/ crop = "HORIZONTAL" /\ ~Wider(format, array)
      BY <1>1, <1>2, CroppableFromArray
  <2>2. Inside(getCropRect(crop, array, format), array)
      BY <1>1, <1>2, <2>1, CutIsInside
  <2> QED BY <1>1, <1>2, <2>2, ArrayHolds
<1> QED BY <1>1, <1>2, <1>3, <1>4 DEF array

-----------------------------------------------------------------------------
(* The states of a device that is made.  Limits are a file's good rows or  *)
(* the default ones, and the formats offered are those made of them.       *)
FormatsInv ==
    /\ FormatsTypeOK
    /\ SizedLimits(fpsLimits)
    /\ mSupportedFormats # {} => mSupportedFormats = FormatsFor(mCroppingType, fpsLimits)

LEMMA LimitsRead ==
    ASSUME NEW elements, NEW rows \in FileRows PROVE SizedLimits(loadFromCfg(elements, rows))
<1>1. rows \in Seq(Limits) /\ \A k \in DOMAIN rows : rows[k] \in Limits
  <2>1. rows \in Seq(Limits)
      BY FormatsAssumption DEF Limits
  <2> QED BY <2>1
<1>2. SizedLimits(DefaultLimits)
    BY DEF DefaultLimits, SizedLimits, Limits, IsSize
<1>3. ASSUME \A k \in DOMAIN rows : GoodRow(rows[k]) PROVE SizedLimits(rows)
    BY <1>1, <1>3 DEF GoodRow, SizedLimits, Limits, IsSize
<1> QED BY <1>2, <1>3 DEF loadFromCfg, updateFpsList

LEMMA FormatsInvInit ==
    ASSUME FormatsInit PROVE FormatsInv
BY DEF FormatsInit, FormatsInv, FormatsTypeOK, CroppingTypes, SizedLimits

LEMMA FormatsInvNext ==
    ASSUME FormatsInv, [FormatsNext]_formatVars PROVE FormatsInv'
<1>1. CASE LoadConfiguration
  <2>1. SizedLimits(fpsLimits') /\ UNCHANGED <<mCroppingType, mSupportedFormats>>
      BY <1>1, LimitsRead DEF LoadConfiguration
  <2>2. mSupportedFormats = {}
    <3>1. fpsLimits = <<>>
        BY <1>1 DEF LoadConfiguration
    <3>2. FormatsFor(mCroppingType, fpsLimits) = {}
        BY <3>1 DEF FormatsFor, Candidates, trimSupportedFormats, WithRates
    <3> QED BY <3>2 DEF FormatsInv
  <2> QED BY <2>1, <2>2 DEF FormatsInv, FormatsTypeOK, SizedLimits, Limits
<1>2. CASE initSupportedFormatsLocked
  <2> DEFINE crop == CroppingTypeOf(fpsLimits)
  <2>1. /\ fpsLimits' = fpsLimits /\ mCroppingType' = crop
        /\ mSupportedFormats' = FormatsFor(crop, fpsLimits)
      BY <1>2 DEF initSupportedFormatsLocked, initSupportedFormats, FormatsFor
  <2>2. crop \in CroppingTypes
      BY DEF CroppingTypeOf, CroppingTypes
  <2> HIDE DEF crop
  <2>3. FormatsFor(crop, fpsLimits) \subseteq [w : Nat, h : Nat, rates : SUBSET FrameRates]
      BY <2>2, FormatsMade DEF FormatsInv
  <2> QED BY <2>1, <2>2, <2>3 DEF FormatsInv, FormatsTypeOK
<1>3. CASE UNCHANGED formatVars
    BY <1>3 DEF formatVars, FormatsInv, FormatsTypeOK
<1> QED BY <1>1, <1>2, <1>3 DEF FormatsNext

LEMMA FormatsInvGives ==
    ASSUME FormatsInv PROVE FormatsTypeOK /\ FormatsUsable
<1>1. CASE mSupportedFormats = {}
    BY <1>1 DEF FormatsInv, FormatsUsable
<1>2. CASE mSupportedFormats # {}
  <2>1. /\ mCroppingType \in CroppingTypes /\ SizedLimits(fpsLimits)
        /\ mSupportedFormats = FormatsFor(mCroppingType, fpsLimits)
      BY <1>2 DEF FormatsInv, FormatsTypeOK
  <2> DEFINE array == ActiveArray(mCroppingType, mSupportedFormats)
  <2>2. /\ FrameDurationDivisor(mSupportedFormats) > 0
        /\ DefaultFpsRange(mSupportedFormats) \in TargetFpsRanges(mSupportedFormats)
        /\ \A format \in mSupportedFormats :
              /\ Inside(getCropRect(mCroppingType, array, format), array)
              /\ (\E a, b \in mSupportedFormats : Crosses(a, b)) \/ NoSmaller(array, format)
      BY <1>2, <2>1, FormatsAreUsable
  <2>3. FormatsUsable
      BY <2>2, Zenon DEF FormatsUsable, Crosses
  <2> QED BY <2>3 DEF FormatsInv
<1> QED BY <1>1, <1>2
=============================================================================
