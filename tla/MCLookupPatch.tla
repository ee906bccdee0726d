---------------------------- MODULE MCLookupPatch ----------------------------
(* Images of two byte values that differ in one of two bits; every plain    *)
(* patch of one to three such bytes, masked patches of two, patches larger  *)
(* than the image, and a list of three.                                     *)
EXTENDS LookupPatch

Low == {0}
High == {0, 1}

Strings(k) == [0 .. k - 1 -> {Low, High}]

MCImages == [Offset -> {Low, High}]

APatch(find, mask, replace, replaceMask, k, count, skips) ==
  [find |-> find, findMask |-> mask, replace |-> replace, replaceMask |-> replaceMask,
   size |-> k, count |-> count, skip |-> skips]

PlainPatches(k, counts) ==
  {APatch(f, NoMask, r, NoMask, k, c, 0) : f \in Strings(k), r \in Strings(k), c \in counts}

(* The second byte under a mask: all of it, the bit that is always set, or  *)
(* nothing; the replacement may keep the bit that varies.                   *)
Masks == {NoMask} \cup {[j \in 0 .. 1 |-> IF j = 0 THEN High ELSE m] : m \in {High, {0}, {}}}
ReplaceMasks == {NoMask, [j \in 0 .. 1 |-> {j}]}

MaskedPatches ==
  {APatch([j \in 0 .. 1 |-> IF m = NoMask THEN f[j] ELSE f[j] \cap m[j]], m, r, rm, 2, c, s) :
     f \in Strings(2), m \in Masks, r \in Strings(2), rm \in ReplaceMasks,
     c \in {0, 2}, s \in 0 .. 1}

TooLarge == [j \in 0 .. Size |-> High]
LargePatches == {APatch(TooLarge, NoMask, [TooLarge EXCEPT ![0] = Low], NoMask, Size + 1, 1, s) : s \in 0 .. 1}

One == [j \in 0 .. 0 |-> High]
Other == [j \in 0 .. 0 |-> Low]
Mixed == <<APatch(One, NoMask, Other, NoMask, 1, 1, 0),
           APatch(Other, NoMask, One, NoMask, 1, 2, 1),
           APatch(One, One, Other, One, 1, 0, 0)>>

MCPatches ==
  {p \in PlainPatches(1, {1}) \cup PlainPatches(2, 0 .. 2) \cup PlainPatches(3, {0, 1})
           \cup MaskedPatches \cup LargePatches : p.find # p.replace}
    \cup {Mixed[i] : i \in DOMAIN Mixed}

MCLists == {<<p>> : p \in MCPatches} \cup {Mixed}
===============================================================================
