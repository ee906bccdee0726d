--------------------------- MODULE LookupPatchProofs ---------------------------
(***************************************************************************)
(* The two searches for every image and every list of patches.             *)
(***************************************************************************)
EXTENDS LookupPatch, FiniteSetTheorems, TLAPS

Taken == skipped \cup places
Working == {"enable", "scan", "restore", "find"}

(* Where the searches are, and what they may have done by then.            *)
Control ==
  /\ list \in Seq(Patches) /\ n \in 0 .. Len(list)
  /\ pc \in Working \cup {"next", "done"}
  /\ pc \in Working => n > 0 /\ Len(reports) = n - 1
  /\ pc \notin Working => Len(reports) = n
  /\ pc \in {"enable", "scan", "restore"} => Plain(patch)
  /\ pc = "find" => ~Plain(patch)
  /\ pc = "scan" => cursor < EndingAddress(patch)
  /\ reports \in Seq(BOOLEAN)

Shape ==
  /\ image = [o \in Offset |-> image[o]]
  /\ cursor \in Nat /\ changes \in Nat /\ skip \in Nat
  /\ \A q \in Taken : q \in Nat /\ q + patch.size <= Size
  /\ Plain(patch) => skipped = {} /\ skip = 0
  /\ ~Plain(patch) => \A q \in Taken : q + patch.size <= cursor

(* Bytes outside of the places are those of the image before.              *)
Outside ==
  \A o \in Offset : (\A q \in places : o \notin Window(patch, q)) => image[o] = before[o]

(* The matches taken lie behind the cursor, or at it, and apart; each is a *)
(* match of the image before, and none of those was passed over.           *)
TakenInv ==
  /\ Plain(patch) => \A q \in places : q <= cursor
  /\ \A q, r \in Taken : q < r => q + patch.size <= r
  /\ \A q \in places : \A j \in 0 .. patch.size - 1 :
       image[q + j] = NewByte(before[q + j], patch, j)
  /\ \A q \in Taken : Match(before, patch, q)
  /\ \A m \in 0 .. LastOffset(patch) : m < cursor /\ Match(before, patch, m) =>
       m \in Taken \/ Overlapped(m)

(* Skipping comes first, and the counters count.                           *)
Counted ==
  /\ \A a \in skipped, b \in places : a < b
  /\ skip > 0 => places = {}
  /\ IsFiniteSet(skipped) /\ Cardinality(skipped) = patch.skip - skip
  /\ IsFiniteSet(places) /\ Cardinality(places) = changes

(* The number asked for is a limit; a search ends there or at the end.     *)
Limits ==
  /\ patch.count > 0 => changes <= patch.count
  /\ patch.count > 0 /\ pc \in {"enable", "scan", "find"} => changes < patch.count
  /\ pc = "restore" => \/ patch.count > 0 /\ changes = patch.count
                       \/ cursor >= EndingAddress(patch)

(* What Apply has answered, and that nothing was left to look at.          *)
Reported ==
  pc \notin Working /\ ~refused =>
    /\ reports[n] <=> IF Plain(patch) THEN changes = patch.count ELSE changes > 0
    /\ \/ patch.count > 0 /\ changes = patch.count
       \/ \A m \in Searched : m < cursor

SearchInv == n > 0 => Shape /\ Outside /\ (Steady(patch) => TakenInv /\ Counted)
EndInv == n > 0 => Limits /\ Reported
IInv == Control /\ SearchInv /\ EndInv /\ image = [o \in Offset |-> image[o]]

(* What is known of the patch in hand.                                     *)
LEMMA PatchFacts ==
  ASSUME Control, n > 0
  PROVE  /\ patch \in Patches /\ patch.size \in Nat \ {0} /\ patch.count \in Nat /\ patch.skip \in Nat
         /\ Size \in Nat \ {0} /\ Offset = 0 .. Size - 1 /\ LastOffset(patch) = Size - patch.size
         /\ EndingAddress(patch) = Size - patch.size
<1>1. patch \in Patches
  BY DEF Control, patch
<1> QED
  BY <1>1, PatchAssumption, ImageAssumption, Zenon DEF PatchType, Offset, LastOffset, EndingAddress

(* A patch that does not change gives the same answers.                    *)
LEMMA SamePatch == ASSUME UNCHANGED <<list, n>> PROVE patch' = patch
BY Zenon DEF patch

(* A step that neither searches nor writes.                                *)
LEMMA QuietKeeps ==
  ASSUME SearchInv, UNCHANGED <<image, list, n, search, before>> PROVE SearchInv'
<1>1. UNCHANGED <<cursor, changes, skip, skipped, places>>
  BY Zenon DEF search
<1>2. n' > 0 => n > 0 /\ patch' = patch
  BY SamePatch, Zenon
<1>3. n > 0 => Shape' /\ Outside'
  BY <1>1, <1>2, Zenon DEF SearchInv, Shape, Outside, Taken
<1>4. n > 0 /\ Steady(patch) => TakenInv' /\ Counted'
  BY <1>1, <1>2 DEF SearchInv, TakenInv, Counted, Taken, Overlapped
<1> QED
  BY <1>2, <1>3, <1>4, Zenon DEF SearchInv

(* ApplyAll takes up a patch with nothing taken.                           *)
LEMMA ApplyStarts ==
  ASSUME Control, image = [o \in Offset |-> image[o]], Apply PROVE SearchInv'
<1>1. /\ cursor' = 0 /\ changes' = 0 /\ skip' = patch'.skip /\ skipped' = {} /\ places' = {}
      /\ before' = image /\ UNCHANGED <<image, list>>
  BY Zenon DEF Apply, patch
<1>2. patch' \in Patches /\ Size \in Nat \ {0}
  BY ImageAssumption DEF Control, Apply, patch
<1>3. patch'.skip \in Nat
  BY <1>2, PatchAssumption, Zenon DEF PatchType
<1>4. Plain(patch') => patch'.skip = 0
  BY Zenon DEF Plain
<1>5. Shape' /\ Outside'
  BY <1>1, <1>3, <1>4, Zenon DEF Shape, Outside, Taken
<1>6. TakenInv'
  BY <1>1 DEF TakenInv, Taken
<1>7. Counted'
  BY <1>1, <1>3, FS_EmptySet DEF Counted
<1> QED
  BY <1>5, <1>6, <1>7, Zenon DEF SearchInv

(* Behind all places the image is as it was before the patch.              *)
LEMMA Untouched ==
  ASSUME Control, SearchInv, n > 0, NEW c \in Nat, c <= LastOffset(patch),
         \A q \in places : q + patch.size <= c
  PROVE  /\ \A j \in 0 .. patch.size - 1 : c + j \in Offset /\ image[c + j] = before[c + j]
         /\ Match(image, patch, c) <=> Match(before, patch, c)
<1>1. ASSUME NEW j \in 0 .. patch.size - 1 PROVE c + j \in Offset /\ image[c + j] = before[c + j]
  <2>1. c + j \in Offset
    <3>1. /\ patch.size \in Nat \ {0} /\ Size \in Nat \ {0} /\ Offset = 0 .. Size - 1
          /\ c <= Size - patch.size
      BY PatchFacts, Zenon
    <3> QED
      BY <3>1
  <2>2. ASSUME NEW q \in places PROVE c + j \notin Window(patch, q)
    <3>1. q \in Nat /\ patch.size \in Nat \ {0} /\ q + patch.size <= c
      BY PatchFacts, Zenon DEF SearchInv, Shape, Taken
    <3> QED
      BY <3>1 DEF Window
  <2> QED
    BY <2>1, <2>2, Zenon DEF SearchInv, Outside
<1> QED
  BY <1>1, Zenon DEF Match

(* A plain search does not find what it has written: no match at or before *)
(* the end of a place.                                                     *)
LEMMA HitApart ==
  ASSUME Control, SearchInv, n > 0, Plain(patch), Steady(patch), Match(image, patch, cursor),
         NEW q \in places
  PROVE  q + patch.size <= cursor
<1> DEFINE s == patch.size
           k == cursor - q
<1>1. /\ s \in Nat \ {0} /\ q \in Nat /\ cursor \in Nat /\ q <= cursor
      /\ \A j \in 0 .. s - 1 : image[q + j] = patch.replace[j]
      /\ \A j \in 0 .. s - 1 : image[cursor + j] = patch.find[j]
  BY PatchFacts DEF SearchInv, Shape, TakenInv, Taken, NewByte, Plain, Match, Same
<1>2. SUFFICES ASSUME q + s > cursor PROVE FALSE
  BY <1>1
<1>3. k \in 0 .. s - 1 /\ cursor = q + k
  BY <1>1, <1>2
<1>4. CASE k = 0
  <2>1. patch.find \in Bytes(s) /\ patch.replace \in Bytes(s) /\ patch.find # patch.replace
    BY PatchFacts, PatchAssumption, Zenon DEF PatchType
  <2>2. \A j \in 0 .. s - 1 : patch.find[j] = patch.replace[j]
    BY <1>1, <1>3, <1>4
  <2>3. patch.find = [j \in 0 .. s - 1 |-> patch.find[j]]
    BY <2>1, Zenon DEF Bytes
  <2>4. patch.replace = [j \in 0 .. s - 1 |-> patch.replace[j]]
    BY <2>1, Zenon DEF Bytes
  <2> QED
    BY <2>1, <2>2, <2>3, <2>4, Zenon
<1>5. CASE k # 0
  <2>1. PICK j \in 0 .. s - 1 - k : patch.replace[j + k] # patch.find[j]
    BY <1>3, <1>5 DEF Steady
  <2>2. j \in 0 .. s - 1 /\ j + k \in 0 .. s - 1 /\ q + (j + k) = cursor + j
    BY <1>1, <1>3, <2>1
  <2> QED
    BY <1>1, <2>1, <2>2, Zenon
<1> QED
  BY <1>4, <1>5, Zenon

(* An offset that does not match is passed over rightly: where it did in   *)
(* the image before, it overlaps a match that was taken.                   *)
LEMMA MissKeeps ==
  ASSUME Control, SearchInv, n > 0, ~Match(image, patch, cursor), cursor <= LastOffset(patch),
         cursor' = cursor + 1, UNCHANGED <<image, list, n, before>>,
         UNCHANGED <<changes, skip, skipped, places>>
  PROVE  SearchInv'
<1>1. patch' = patch /\ cursor \in Nat /\ patch.size \in Nat \ {0} /\ n' = n
  BY SamePatch, PatchFacts, Zenon DEF SearchInv, Shape
<1>2. \A q \in Taken : q \in Nat
  BY Zenon DEF SearchInv, Shape
<1>3. Shape'
  <2>1. ~Plain(patch) => \A q \in Taken : q + patch.size <= cursor + 1
    BY <1>1, <1>2 DEF SearchInv, Shape
  <2> QED
    BY <1>1, <2>1 DEF SearchInv, Shape, Taken
<1>4. Outside'
  BY <1>1, Zenon DEF SearchInv, Outside
<1>5. ASSUME Steady(patch) PROVE TakenInv' /\ Counted'
  <2>1. TakenInv /\ Counted
    BY <1>5, Zenon DEF SearchInv
  <2>2. Match(before, patch, cursor) => cursor \in Taken \/ Overlapped(cursor)
    <3>1. SUFFICES ASSUME cursor \notin Taken, ~Overlapped(cursor), Match(before, patch, cursor)
                   PROVE  FALSE
      OBVIOUS
    <3>2. ASSUME NEW q \in places PROVE q + patch.size <= cursor
      <4>1. q # cursor /\ ~(q < cursor /\ cursor < q + patch.size) /\ q \in Nat
        BY <1>2, <3>1, Zenon DEF Taken, Overlapped
      <4>2. q <= cursor
        <5>1. CASE Plain(patch)
          BY <2>1, <5>1, Zenon DEF TakenInv
        <5>2. CASE ~Plain(patch)
          BY <1>1, <4>1, <5>2 DEF SearchInv, Shape, Taken
        <5> QED
          BY <5>1, <5>2, Zenon
      <4> QED
        BY <1>1, <4>1, <4>2
    <3> QED
      BY <1>1, <3>1, <3>2, Untouched, Zenon
  <2>3. Plain(patch) => \A q \in places : q <= cursor + 1
    BY <1>1, <1>2, <2>1 DEF TakenInv, Taken
  <2>4. ASSUME NEW m \in 0 .. LastOffset(patch), m < cursor + 1, Match(before, patch, m)
        PROVE  m \in Taken \/ Overlapped(m)
    <3>1. m < cursor \/ m = cursor
      BY <1>1, <2>4
    <3> QED
      BY <2>1, <2>2, <2>4, <3>1, Zenon DEF TakenInv
  <2>5. TakenInv'
    BY <1>1, <2>1, <2>3, <2>4, Zenon DEF TakenInv, Taken, Overlapped
  <2>6. Counted'
    BY <1>1, <2>1, Zenon DEF Counted
  <2> QED
    BY <2>5, <2>6, Zenon
<1> QED
  BY <1>1, <1>3, <1>4, <1>5, Zenon DEF SearchInv

(* A match is rewritten: it lies behind all that were taken, so that its   *)
(* bytes are those of the image before.                                    *)
LEMMA HitKeeps ==
  ASSUME Control, SearchInv, n > 0, Match(image, patch, cursor), cursor <= LastOffset(patch),
         skip = 0, image' = Rewritten(image, patch, cursor), changes' = changes + 1,
         places' = places \cup {cursor},
         cursor' = IF Plain(patch) THEN cursor ELSE cursor + patch.size,
         UNCHANGED <<list, n, before, skip, skipped>>
  PROVE  SearchInv'
<1> DEFINE s == patch.size
<1>1. /\ patch' = patch /\ n' = n /\ cursor \in Nat /\ s \in Nat \ {0} /\ Size \in Nat \ {0}
      /\ cursor + s <= Size /\ changes \in Nat /\ Taken' = Taken \cup {cursor}
      /\ cursor' \in Nat /\ cursor <= cursor' /\ (~Plain(patch) => cursor' = cursor + s)
  <2>1. cursor \in Nat /\ s \in Nat \ {0} /\ Size \in Nat \ {0} /\ changes \in Nat
        /\ cursor <= Size - s
    BY PatchFacts, Zenon DEF SearchInv, Shape
  <2>2. Taken' = Taken \cup {cursor}
    BY Zenon DEF Taken
  <2> QED
    BY <2>1, <2>2, SamePatch
<1>2. \A q \in Taken : q \in Nat /\ q + s <= Size /\ (~Plain(patch) => q + s <= cursor)
  BY Zenon DEF SearchInv, Shape
<1>3. /\ image' = [o \in Offset |-> image'[o]]
      /\ \A o \in Offset : image'[o] = IF o \in Window(patch, cursor)
                                       THEN NewByte(image[o], patch, o - cursor) ELSE image[o]
  BY Zenon DEF Rewritten
<1>4. Shape'
  <2>1. \A q \in Taken' : q \in Nat /\ q + s <= Size
    BY <1>1, <1>2, Zenon
  <2>2. ~Plain(patch) => \A q \in Taken' : q + s <= cursor'
    BY <1>1, <1>2
  <2>3. cursor' \in Nat /\ changes' \in Nat /\ skip' \in Nat
    BY <1>1
  <2>4. Plain(patch) => skipped' = {} /\ skip' = 0
    BY Zenon DEF SearchInv, Shape
  <2> QED
    BY <1>1, <1>3, <2>1, <2>2, <2>3, <2>4 DEF Shape
<1>5. Outside'
  BY <1>1, <1>3, Zenon DEF SearchInv, Outside
<1>6. ASSUME Steady(patch) PROVE TakenInv' /\ Counted'
  <2>1. TakenInv /\ Counted
    BY <1>6, Zenon DEF SearchInv
  <2>2. \A q \in Taken : q + s <= cursor
    <3>1. CASE Plain(patch)
      BY <1>6, <3>1, HitApart, Zenon DEF SearchInv, Shape, Taken
    <3>2. CASE ~Plain(patch)
      BY <1>2, <3>2, Zenon
    <3> QED
      BY <3>1, <3>2, Zenon
  <2>3. /\ \A j \in 0 .. s - 1 : cursor + j \in Offset /\ image[cursor + j] = before[cursor + j]
        /\ Match(before, patch, cursor)
    BY <1>1, <2>2, Untouched, Zenon DEF Taken
  <2>4. \A q, r \in Taken' : q < r => q + s <= r
    <3>1. \A r \in Taken : r < cursor
      BY <1>1, <1>2, <2>2
    <3> QED
      BY <1>1, <1>2, <2>1, <2>2, <3>1 DEF TakenInv
  <2>5. ASSUME NEW q \in places', NEW j \in 0 .. s - 1
        PROVE  image'[q + j] = NewByte(before[q + j], patch, j)
    <3>1. CASE q = cursor
      <4>1. cursor + j \in Window(patch, cursor) /\ (cursor + j) - cursor = j
        BY <1>1 DEF Window
      <4> QED
        BY <1>3, <2>3, <3>1, <4>1
    <3>2. CASE q \in places
      <4>1. q \in Nat /\ q + s <= Size /\ q + s <= cursor
        BY <1>2, <2>2, <3>2 DEF Taken
      <4>2. q + j \in Offset /\ q + j \notin Window(patch, cursor)
        BY <1>1, <4>1 DEF Window, Offset
      <4> QED
        BY <1>3, <2>1, <3>2, <4>2 DEF TakenInv
    <3> QED
      BY <3>1, <3>2, Zenon
  <2>6. ASSUME NEW m \in 0 .. LastOffset(patch), m < cursor', Match(before, patch, m)
        PROVE  m \in Taken' \/ Overlapped(m)'
    <3>1. CASE m < cursor
      BY <1>1, <2>1, <2>6, <3>1 DEF TakenInv, Taken, Overlapped
    <3>2. CASE m = cursor
      BY <1>1, <3>2, Zenon
    <3>3. CASE m > cursor
      <4>1. cursor < m /\ m < cursor + s
        BY <1>1, <2>6, <3>3
      <4> QED
        BY <1>1, <4>1, Zenon DEF Overlapped, Taken
    <3> QED
      BY <1>1, <3>1, <3>2, <3>3
  <2>7. Plain(patch) => \A q \in places' : q <= cursor'
    BY <1>1, <1>2, <2>1, Zenon DEF TakenInv, Taken
  <2>8. TakenInv'
    <3>1. \A q \in Taken' : Match(before, patch, q)
      BY <1>1, <2>1, <2>3 DEF TakenInv
    <3> QED
      BY <1>1, <2>4, <2>5, <2>6, <2>7, <3>1 DEF TakenInv
  <2>9. Counted'
    <3>1. \A a \in skipped' : \A b \in places' : a < b
      BY <1>1, <1>2, <2>1, <2>2 DEF Counted, Taken
    <3>2. cursor \notin places
      BY <1>1, <2>2 DEF Taken
    <3>3. IsFiniteSet(places') /\ Cardinality(places') = changes + 1
      BY <2>1, <3>2, FS_AddElement, Zenon DEF Counted
    <3> QED
      BY <1>1, <2>1, <3>1, <3>3 DEF Counted
  <2> QED
    BY <2>8, <2>9, Zenon
<1> QED
  BY <1>1, <1>4, <1>5, <1>6, Zenon DEF SearchInv

(* A match is skipped, before any is rewritten.                            *)
LEMMA SkipKeeps ==
  ASSUME Control, SearchInv, n > 0, FindSkipped PROVE SearchInv'
<1> DEFINE s == patch.size
<1>1. /\ patch' = patch /\ n' = n /\ cursor \in Nat /\ s \in Nat \ {0} /\ Size \in Nat \ {0}
      /\ cursor + s <= Size /\ Taken' = Taken \cup {cursor} /\ cursor' = cursor + s
      /\ ~Plain(patch) /\ skip \in Nat /\ skip > 0 /\ skip' = skip - 1
      /\ skipped' = skipped \cup {cursor} /\ cursor <= LastOffset(patch)
  <2>1. cursor \in Nat /\ s \in Nat \ {0} /\ Size \in Nat \ {0} /\ cursor <= Size - s /\ skip \in Nat
    BY PatchFacts, Zenon DEF SearchInv, Shape, FindSkipped, Found
  <2>2. Taken' = Taken \cup {cursor} /\ UNCHANGED <<list, n>> /\ ~Plain(patch)
    BY Zenon DEF Taken, FindSkipped, Found, Continue, Control
  <2> QED
    BY <2>1, <2>2, SamePatch DEF FindSkipped, Found, Past
<1>2. \A q \in Taken : q \in Nat /\ q + s <= Size /\ q + s <= cursor
  BY <1>1, Zenon DEF SearchInv, Shape
<1>3. UNCHANGED <<image, before, places, changes>> /\ Match(image, patch, cursor)
  BY Zenon DEF FindSkipped, Found, Continue
<1>4. Shape'
  <2>1. \A q \in Taken' : q \in Nat /\ q + s <= Size /\ q + s <= cursor'
    BY <1>1, <1>2
  <2> QED
    BY <1>1, <1>3, <2>1 DEF SearchInv, Shape
<1>5. Outside'
  BY <1>1, <1>3, Zenon DEF SearchInv, Outside
<1>6. ASSUME Steady(patch) PROVE TakenInv' /\ Counted'
  <2>1. TakenInv /\ Counted /\ places = {}
    BY <1>1, <1>6, Zenon DEF SearchInv, Counted
  <2>2. Match(before, patch, cursor)
    BY <1>1, <1>3, <2>1, Untouched, Zenon
  <2>3. \A q, r \in Taken' : q < r => q + s <= r
    <3>1. \A r \in Taken : r < cursor
      BY <1>1, <1>2
    <3> QED
      BY <1>1, <1>2, <2>1, <3>1 DEF TakenInv
  <2>4. ASSUME NEW m \in 0 .. LastOffset(patch), m < cursor', Match(before, patch, m)
        PROVE  m \in Taken' \/ Overlapped(m)'
    <3>1. CASE m < cursor
      BY <1>1, <1>3, <2>1, <2>4, <3>1 DEF TakenInv, Taken, Overlapped
    <3>2. CASE m = cursor
      BY <1>1, <3>2, Zenon
    <3>3. CASE m > cursor
      <4>1. cursor < m /\ m < cursor + s
        BY <1>1, <2>4, <3>3
      <4> QED
        BY <1>1, <4>1, Zenon DEF Overlapped, Taken
    <3> QED
      BY <1>1, <3>1, <3>2, <3>3
  <2>5. TakenInv'
    <3>1. \A q \in Taken' : Match(before, patch, q)
      BY <1>1, <2>1, <2>2 DEF TakenInv
    <3> QED
      BY <1>1, <1>3, <2>1, <2>3, <2>4, <3>1 DEF TakenInv
  <2>6. Counted'
    <3>1. cursor \notin skipped /\ IsFiniteSet(skipped) /\ Cardinality(skipped) = patch.skip - skip
      BY <1>1, <1>2, <2>1 DEF Counted, Taken
    <3>2. IsFiniteSet(skipped') /\ Cardinality(skipped') = patch.skip - skip + 1
      BY <1>1, <3>1, FS_AddElement, Zenon
    <3>3. patch.skip \in Nat
      BY PatchFacts, Zenon
    <3>4. Cardinality(skipped') = patch.skip - skip'
      BY <1>1, <3>2, <3>3
    <3> QED
      BY <1>1, <1>3, <2>1, <3>2, <3>4 DEF Counted
  <2> QED
    BY <2>5, <2>6, Zenon
<1> QED
  BY <1>1, <1>4, <1>5, <1>6, Zenon DEF SearchInv

(* Every step keeps what the searches have done in order.                  *)
LEMMA SearchStep ==
  ASSUME Control, SearchInv, image = [o \in Offset |-> image[o]], [Next]_vars PROVE SearchInv'
<1>1. CASE Apply
  BY <1>1, ApplyStarts, Zenon
<1>2. CASE ApplyAllReturns \/ UNCHANGED vars
  BY <1>2, QuietKeeps, Zenon DEF ApplyAllReturns, vars
<1>3. CASE Enable \/ EnableFails \/ Restore \/ RestoreFails \/ FindRefused \/ FindEnds
  <2>1. UNCHANGED <<image, list, n, search, before>>
    BY <1>3, Zenon
       DEF Enable, EnableFails, Restore, RestoreFails, FindRefused, FindEnds, Return, Continue
  <2> QED
    BY <2>1, QuietKeeps, Zenon
<1>4. CASE ScanMiss \/ FindMiss
  <2>1. n > 0 /\ cursor <= LastOffset(patch)
    <3>1. n > 0
      BY <1>4, Zenon DEF Control, Working, ScanMiss, FindMiss
    <3>2. cursor \in Nat /\ Size \in Nat /\ patch.size \in Nat
      BY <3>1, PatchFacts, Zenon DEF SearchInv, Shape
    <3> QED
      BY <1>4, <3>1, <3>2 DEF Control, ScanMiss, FindMiss, EndingAddress, LastOffset
  <2>2. UNCHANGED <<image, list, n, before>> /\ UNCHANGED <<changes, skip, skipped, places>>
    BY <1>4, Zenon DEF ScanMiss, FindMiss, Continue
  <2> QED
    BY <1>4, <2>1, <2>2, MissKeeps DEF ScanMiss, FindMiss
<1>5. CASE ScanHit
  <2>1. n > 0 /\ Plain(patch) /\ skip = 0
    BY <1>5, Zenon DEF Control, Working, ScanHit, SearchInv, Shape
  <2>2. cursor <= LastOffset(patch)
    <3>1. cursor \in Nat /\ Size \in Nat /\ patch.size \in Nat
      BY <2>1, PatchFacts, Zenon DEF SearchInv, Shape
    <3> QED
      BY <1>5, <3>1 DEF Control, ScanHit, EndingAddress, LastOffset
  <2>3. UNCHANGED <<list, n, before, skip, skipped, cursor>>
    BY <1>5, Zenon DEF ScanHit, Continue
  <2> QED
    BY <1>5, <2>1, <2>2, <2>3, HitKeeps DEF ScanHit
<1>6. CASE FindReplaced
  <2>1. n > 0 /\ ~Plain(patch) /\ skip = 0 /\ cursor <= LastOffset(patch) /\ Match(image, patch, cursor)
    BY <1>6, Zenon DEF Control, Working, FindReplaced, Found
  <2>2. UNCHANGED <<list, n, before, skip, skipped>> /\ cursor' = cursor + patch.size
    BY <1>6, Zenon DEF FindReplaced, Continue, Return, Past
  <2> QED
    BY <1>6, <2>1, <2>2, HitKeeps DEF FindReplaced
<1>7. CASE FindSkipped
  <2>1. n > 0
    BY <1>7, Zenon DEF Control, Working, FindSkipped, Found
  <2> QED
    BY <1>7, <2>1, SkipKeeps, Zenon
<1> QED
  BY <1>1, <1>2, <1>3, <1>4, <1>5, <1>6, <1>7 DEF Next

(* Apply returns to ApplyAll.                                              *)
LEMMA ReturnEffect ==
  ASSUME reports \in Seq(BOOLEAN), NEW ok \in BOOLEAN, Return(ok)
  PROVE  /\ reports' \in Seq(BOOLEAN) /\ Len(reports') = Len(reports) + 1
         /\ reports'[Len(reports) + 1] = ok /\ pc' \in {"next", "done"}
         /\ UNCHANGED <<list, n, before>>
<1>1. reports' = Append(reports, ok)
  BY Zenon DEF Return
<1>2. reports' \in Seq(BOOLEAN) /\ Len(reports') = Len(reports) + 1
      /\ reports'[Len(reports) + 1] = ok
  BY <1>1
<1> QED
  BY <1>2, Zenon DEF Return

(* A step that goes on within the patch in hand.                           *)
LEMMA ContinueControl ==
  ASSUME Control, pc \in Working, NEW here \in Working, Continue(here),
         here \in {"enable", "scan", "restore"} => Plain(patch), here = "find" => ~Plain(patch),
         here = "scan" => cursor' < EndingAddress(patch)
  PROVE  Control' /\ patch' = patch /\ n' = n /\ n > 0 /\ pc' = here
<1>1. pc' = here /\ UNCHANGED <<list, n, reports>>
  BY Zenon DEF Continue
<1>2. patch' = patch
  BY <1>1, SamePatch, Zenon
<1> QED
  BY <1>1, <1>2, Zenon DEF Control, Working

(* A step that ends it.                                                    *)
LEMMA ReturnControl ==
  ASSUME Control, pc \in Working, NEW ok \in BOOLEAN, Return(ok)
  PROVE  Control' /\ patch' = patch /\ n' = n /\ n > 0 /\ pc' \notin Working /\ reports'[n] = ok
<1>1. n > 0 /\ n \in Nat /\ reports \in Seq(BOOLEAN) /\ Len(reports) = n - 1
  BY DEF Control
<1>2. /\ reports' \in Seq(BOOLEAN) /\ Len(reports') = n /\ reports'[n] = ok
      /\ pc' \in {"next", "done"} /\ UNCHANGED <<list, n>>
  BY <1>1, ReturnEffect
<1>3. patch' = patch
  BY <1>2, SamePatch, Zenon
<1> QED
  BY <1>1, <1>2, <1>3 DEF Control, Working

(* A search that goes on has not come to a limit.                          *)
LEMMA ContinueEnd ==
  ASSUME NEW here \in Working, patch' = patch, n' = n, pc' = here,
         patch.count > 0 => changes' <= patch.count,
         patch.count > 0 /\ here # "restore" => changes' < patch.count,
         here = "restore" => \/ patch.count > 0 /\ changes' = patch.count
                             \/ cursor' >= EndingAddress(patch)
  PROVE  EndInv'
BY Zenon DEF EndInv, Limits, Reported, Working

(* The plain search.                                                       *)
LEMMA ScanStep ==
  ASSUME Control, SearchInv, EndInv,
         Enable \/ EnableFails \/ ScanMiss \/ ScanHit \/ Restore \/ RestoreFails
  PROVE  Control' /\ EndInv'
<1>1. /\ pc \in {"enable", "scan", "restore"} /\ pc \in Working /\ n > 0 /\ Plain(patch)
  BY Zenon DEF Enable, EnableFails, ScanMiss, ScanHit, Restore, RestoreFails, Control, Working
<1>2. /\ cursor \in Nat /\ changes \in Nat /\ patch.count \in Nat /\ EndingAddress(patch) \in Int
      /\ LastOffset(patch) = EndingAddress(patch) /\ Limits
  BY <1>1, PatchFacts DEF SearchInv, Shape, EndInv
<1>3. CASE Enable
  <2> DEFINE here == IF cursor < EndingAddress(patch) THEN "scan" ELSE "restore"
  <2>1. here \in Working /\ Continue(here) /\ UNCHANGED <<cursor, changes>> /\ pc = "enable"
    BY <1>3, Zenon DEF Enable, search, Working
  <2>2. Control' /\ patch' = patch /\ n' = n /\ pc' = here
    BY <1>1, <2>1, ContinueControl, Zenon
  <2>3. EndInv'
    BY <1>2, <2>1, <2>2, ContinueEnd DEF Limits
  <2> QED
    BY <2>2, <2>3, Zenon
<1>4. CASE ScanMiss
  <2> DEFINE here == IF cursor + 1 < EndingAddress(patch) THEN "scan" ELSE "restore"
  <2>1. here \in Working /\ Continue(here) /\ cursor' = cursor + 1 /\ UNCHANGED changes /\ pc = "scan"
    BY <1>4, Zenon DEF ScanMiss, Working
  <2>2. Control' /\ patch' = patch /\ n' = n /\ pc' = here
    BY <1>1, <2>1, ContinueControl, Zenon
  <2>3. here = "restore" => cursor' >= EndingAddress(patch)
    BY <1>2, <2>1
  <2>4. EndInv'
    BY <1>2, <2>1, <2>2, <2>3, ContinueEnd DEF Limits
  <2> QED
    BY <2>2, <2>4, Zenon
<1>5. CASE ScanHit
  <2> DEFINE here == IF patch.count = 0 \/ changes + 1 < patch.count THEN "scan" ELSE "restore"
  <2>1. /\ here \in Working /\ Continue(here) /\ UNCHANGED cursor /\ changes' = changes + 1
        /\ pc = "scan"
    BY <1>5, Zenon DEF ScanHit, Working
  <2>2. cursor' < EndingAddress(patch)
    BY <2>1, Zenon DEF Control
  <2>3. Control' /\ patch' = patch /\ n' = n /\ pc' = here
    BY <1>1, <2>1, <2>2, ContinueControl
  <2>4. /\ patch.count > 0 => changes' <= patch.count
        /\ patch.count > 0 /\ here # "restore" => changes' < patch.count
        /\ here = "restore" => patch.count > 0 /\ changes' = patch.count
    BY <1>2, <2>1 DEF Limits
  <2>5. EndInv'
    BY <2>1, <2>3, <2>4, ContinueEnd
  <2> QED
    BY <2>3, <2>5, Zenon
<1>6. CASE EnableFails \/ RestoreFails
  <2>1. Return(FALSE) /\ refused' = TRUE /\ UNCHANGED changes
    BY <1>6, Zenon DEF EnableFails, RestoreFails, search
  <2>2. Control' /\ patch' = patch /\ pc' \notin Working
    BY <1>1, <2>1, ReturnControl, Zenon
  <2> QED
    BY <1>2, <2>1, <2>2, Zenon DEF EndInv, Limits, Reported, Working
<1>7. CASE Restore
  <2> DEFINE ok == changes = patch.count
  <2>1. ok \in BOOLEAN /\ Return(ok) /\ UNCHANGED <<changes, cursor>> /\ pc = "restore"
    BY <1>7, Zenon DEF Restore, search
  <2>2. Control' /\ patch' = patch /\ n' = n /\ pc' \notin Working /\ reports'[n] = ok
    BY <1>1, <2>1, ReturnControl
  <2>3. \/ patch.count > 0 /\ changes = patch.count
        \/ \A m \in 0 .. LastOffset(patch) - 1 : m < cursor
    <3>1. CASE cursor >= EndingAddress(patch)
      BY <1>2, <3>1
    <3> QED
      BY <1>2, <2>1, <3>1 DEF Limits
  <2>4. Searched' = 0 .. LastOffset(patch) - 1
    BY <1>1, <2>2, Zenon DEF Searched
  <2>5. Reported'
    BY <1>1, <2>1, <2>2, <2>3, <2>4 DEF Reported
  <2>6. Limits'
    BY <1>2, <2>1, <2>2 DEF Limits, Working
  <2> QED
    BY <2>2, <2>5, <2>6 DEF EndInv
<1> QED
  BY <1>3, <1>4, <1>5, <1>6, <1>7, Zenon

(* The search under masks.                                                 *)
LEMMA FindStep ==
  ASSUME Control, SearchInv, EndInv,
         FindMiss \/ FindSkipped \/ FindReplaced \/ FindRefused \/ FindEnds
  PROVE  Control' /\ EndInv'
<1>1. pc = "find" /\ pc \in Working /\ n > 0 /\ ~Plain(patch)
  BY Zenon DEF FindMiss, FindSkipped, FindReplaced, FindRefused, FindEnds, Found, Control, Working
<1>2. cursor \in Nat /\ changes \in Nat /\ patch.count \in Nat /\ LastOffset(patch) \in Int /\ Limits
  BY <1>1, PatchFacts DEF SearchInv, Shape, EndInv
<1>3. CASE FindMiss \/ FindSkipped
  <2>1. Continue("find") /\ UNCHANGED changes /\ "find" \in Working
    BY <1>3, Zenon DEF FindMiss, FindSkipped, Working
  <2>2. Control' /\ patch' = patch /\ n' = n /\ pc' = "find"
    BY <1>1, <2>1, ContinueControl
  <2>3. EndInv'
    BY <1>1, <1>2, <2>1, <2>2, ContinueEnd DEF Limits
  <2> QED
    BY <2>2, <2>3, Zenon
<1>4. CASE FindReplaced
  <2>1. changes' = changes + 1
    BY <1>4, Zenon DEF FindReplaced
  <2>2. CASE patch.count > 0 /\ changes + 1 = patch.count
    <3>1. Return(TRUE)
      BY <1>4, <2>2, Zenon DEF FindReplaced
    <3>2. Control' /\ patch' = patch /\ n' = n /\ pc' \notin Working /\ reports'[n] = TRUE
      BY <1>1, <3>1, ReturnControl
    <3>3. Reported'
      BY <1>1, <1>2, <2>1, <2>2, <3>2 DEF Reported
    <3>4. Limits'
      BY <1>2, <2>1, <2>2, <3>2 DEF Limits, Working
    <3> QED
      BY <3>2, <3>3, <3>4 DEF EndInv
  <2>3. CASE ~(patch.count > 0 /\ changes + 1 = patch.count)
    <3>1. Continue("find") /\ "find" \in Working
      BY <1>4, <2>3, Zenon DEF FindReplaced, Working
    <3>2. Control' /\ patch' = patch /\ n' = n /\ pc' = "find"
      BY <1>1, <3>1, ContinueControl
    <3>3. patch.count > 0 => changes' < patch.count
      BY <1>1, <1>2, <2>1, <2>3 DEF Limits
    <3>4. EndInv'
      BY <1>2, <2>1, <3>1, <3>2, <3>3, ContinueEnd
    <3> QED
      BY <3>2, <3>4
  <2> QED
    BY <2>2, <2>3
<1>5. CASE FindRefused
  <2>1. Return(FALSE) /\ refused' = TRUE /\ UNCHANGED changes
    BY <1>5, Zenon DEF FindRefused, search
  <2>2. Control' /\ patch' = patch /\ pc' \notin Working
    BY <1>1, <2>1, ReturnControl
  <2> QED
    BY <1>2, <2>1, <2>2 DEF EndInv, Limits, Reported, Working
<1>6. CASE FindEnds
  <2> DEFINE ok == changes > 0
  <2>1. ok \in BOOLEAN /\ Return(ok) /\ UNCHANGED <<changes, cursor>> /\ cursor > LastOffset(patch)
    BY <1>6 DEF FindEnds, search
  <2>2. Control' /\ patch' = patch /\ n' = n /\ pc' \notin Working /\ reports'[n] = ok
    BY <1>1, <2>1, ReturnControl, Zenon
  <2>3. Searched' = 0 .. LastOffset(patch) /\ \A m \in 0 .. LastOffset(patch) : m < cursor
    BY <1>1, <1>2, <2>1, <2>2 DEF Searched
  <2>4. Reported'
    BY <1>1, <2>1, <2>2, <2>3 DEF Reported
  <2>5. Limits'
    BY <1>2, <2>1, <2>2, Zenon DEF Limits, Working
  <2> QED
    BY <2>2, <2>4, <2>5, Zenon DEF EndInv
<1> QED
  BY <1>3, <1>4, <1>5, <1>6

(* ApplyAll, and stuttering.                                               *)
LEMMA ApplyAllStep ==
  ASSUME Control, EndInv, Apply \/ ApplyAllReturns \/ UNCHANGED vars PROVE Control' /\ EndInv'
<1>1. CASE Apply
  <2>1. /\ pc = "next" /\ n < Len(list) /\ n' = n + 1 /\ UNCHANGED <<list, reports>>
        /\ pc' = IF Plain(patch') THEN "enable" ELSE "find"
        /\ cursor' = 0 /\ changes' = 0
    BY <1>1, Zenon DEF Apply, patch
  <2>2. list \in Seq(Patches) /\ n \in 0 .. Len(list) /\ Len(reports) = n /\ reports \in Seq(BOOLEAN)
    BY <2>1, Zenon DEF Control, Working
  <2>3. Control'
    <3>1. n' \in 0 .. Len(list) /\ n' > 0 /\ Len(reports') = n' - 1
      BY <2>1, <2>2
    <3> QED
      BY <2>1, <2>2, <3>1 DEF Control, Working
  <2>4. EndInv'
    <3>1. patch' \in Patches
      BY <2>1, <2>2 DEF patch
    <3>2. patch'.count \in Nat
      BY <3>1, PatchAssumption DEF PatchType
    <3> QED
      BY <2>1, <3>2 DEF EndInv, Limits, Reported, Working
  <2> QED
    BY <2>3, <2>4, Zenon
<1>2. CASE ApplyAllReturns
  <2>1. /\ pc = "next" /\ pc' = "done" /\ UNCHANGED <<list, n, reports, refused>>
        /\ UNCHANGED <<cursor, changes>>
    BY <1>2, Zenon DEF ApplyAllReturns, search
  <2>2. patch' = patch
    BY <2>1, SamePatch, Zenon
  <2>3. Control'
    BY <2>1, <2>2, Zenon DEF Control, Working
  <2>4. EndInv'
    BY <2>1, <2>2, Zenon DEF EndInv, Limits, Reported, Working, Searched
  <2> QED
    BY <2>3, <2>4
<1>3. CASE UNCHANGED vars
  <2>1. UNCHANGED <<list, n, reports, refused, pc>> /\ UNCHANGED <<cursor, changes>>
    BY <1>3, Zenon DEF vars, search
  <2>2. patch' = patch
    BY <2>1, SamePatch, Zenon
  <2> QED
    BY <2>1, <2>2, Zenon DEF Control, EndInv, Limits, Reported, Searched
<1> QED
  BY <1>1, <1>2, <1>3

(* Every step keeps the inductive invariant.                               *)
LEMMA NextIInv == IInv /\ [Next]_vars => IInv'
<1> SUFFICES ASSUME IInv, [Next]_vars PROVE IInv'
  OBVIOUS
<1>1. Control /\ SearchInv /\ EndInv /\ image = [o \in Offset |-> image[o]]
  BY Zenon DEF IInv
<1>2. SearchInv'
  BY <1>1, SearchStep, Zenon
<1>3. Control' /\ EndInv'
  BY <1>1, ScanStep, FindStep, ApplyAllStep DEF Next
<1>4. image' = [o \in Offset |-> image'[o]]
  <2>1. CASE UNCHANGED vars
    BY <1>1, <2>1, Zenon DEF vars
  <2>2. CASE Apply \/ ApplyAllReturns \/ Enable \/ EnableFails \/ ScanMiss \/ Restore \/ RestoreFails
               \/ FindMiss \/ FindSkipped \/ FindRefused \/ FindEnds
    <3>1. UNCHANGED image
      BY <2>2, Zenon
         DEF Apply, ApplyAllReturns, Enable, EnableFails, ScanMiss, Restore, RestoreFails, FindMiss,
             FindSkipped, FindRefused, FindEnds
    <3> QED
      BY <1>1, <3>1, Zenon
  <2>3. CASE ScanHit \/ FindReplaced
    <3>1. image' = Rewritten(image, patch, cursor)
      BY <2>3, Zenon DEF ScanHit, FindReplaced
    <3> QED
      BY <3>1, Zenon DEF Rewritten
  <2> QED
    BY <2>1, <2>2, <2>3 DEF Next
<1> QED
  BY <1>2, <1>3, <1>4 DEF IInv

(* ApplyAll starts before its first patch.                                 *)
LEMMA InitIInv == Init => IInv
<1> SUFFICES ASSUME Init PROVE IInv
  OBVIOUS
<1>1. image = [o \in Offset |-> image[o]]
  <2>1. image \in [Offset -> Byte]
    BY ImageAssumption, Zenon DEF Init
  <2> QED
    BY <2>1, Zenon
<1>2. n = 0 /\ pc = "next" /\ reports = <<>> /\ list \in Seq(Patches)
  BY ImageAssumption, Zenon DEF Init
<1>3. Control
  BY <1>2 DEF Control, Working
<1> QED
  BY <1>1, <1>2, <1>3 DEF IInv, SearchInv, EndInv

(* Both searches take every match of the image they began with, from the   *)
(* left and apart, skip the first ones as asked and rewrite the others,    *)
(* for every image and every patch whose replacement makes no new match.   *)
THEOREM TakesLeftmostFirst == Spec => []LeftmostFirst
<1>1. ASSUME IInv PROVE LeftmostFirst
  <2>1. SUFFICES ASSUME n > 0, Steady(patch)
                 PROVE  /\ \A m \in 0 .. LastOffset(patch) : m < cursor =>
                             (m \in Taken <=> Match(before, patch, m) /\ ~Overlapped(m))
                        /\ Counted
    BY Zenon DEF LeftmostFirst, Counted, Taken
  <2>2. TakenInv /\ Counted /\ Shape /\ patch.size \in Nat
    BY <1>1, <2>1, PatchFacts, Zenon DEF IInv, SearchInv
  <2>3. ASSUME NEW m \in Taken PROVE ~Overlapped(m)
    <3>1. SUFFICES ASSUME NEW q \in Taken, q < m, m < q + patch.size PROVE FALSE
      BY Zenon DEF Overlapped, Taken
    <3>2. q + patch.size <= m /\ q \in Nat /\ m \in Nat
      BY <2>2, <2>3, <3>1 DEF TakenInv, Shape
    <3> QED
      BY <2>2, <3>1, <3>2
  <2> QED
    BY <2>2, <2>3, Zenon DEF TakenInv
<1> QED
  BY <1>1, InitIInv, NextIInv, PTL DEF Spec

(* A patch changes the bytes of the places it found to the replacement and *)
(* no other byte of the kext, failures included.                           *)
THEOREM OthersAreKept == Spec => []OnlyPlacesChange
<1>1. ASSUME IInv PROVE OnlyPlacesChange
  <2>1. SUFFICES ASSUME n > 0, NEW o \in Offset, NEW q \in places, o \in Window(patch, q), Steady(patch)
                 PROVE  image[o] = NewByte(before[o], patch, o - q)
    BY <1>1, Zenon DEF OnlyPlacesChange, IInv, SearchInv, Outside
  <2>2. TakenInv /\ q \in Nat /\ patch.size \in Nat
    BY <1>1, <2>1, PatchFacts DEF IInv, SearchInv, Shape, Taken
  <2>3. o - q \in 0 .. patch.size - 1 /\ q + (o - q) = o
    BY <2>1, <2>2 DEF Window
  <2> QED
    BY <2>1, <2>2, <2>3, Zenon DEF TakenInv
<1> QED
  BY <1>1, InitIInv, NextIInv, PTL DEF Spec

(* Apply reports what was done: the exact number for a plain patch, some   *)
(* for a masked one, never more than asked for, and fewer only if nothing  *)
(* is left among the offsets that the search compares.                     *)
THEOREM ReportsAreTrue == Spec => []ReportIsTrue
<1>1. ASSUME IInv PROVE ReportIsTrue
  <2> DEFINE made == Cardinality(places)
  <2>1. SUFFICES ASSUME n > 0, Len(reports) = n, ~refused, Steady(patch)
                 PROVE  /\ reports[n] <=> IF Plain(patch) THEN made = patch.count ELSE made > 0
                        /\ patch.count > 0 => made <= patch.count
                        /\ patch.count = 0 \/ made < patch.count =>
                             \A m \in Searched : Match(before, patch, m) =>
                               m \in Taken \/ Overlapped(m)
    BY Zenon DEF ReportIsTrue, Taken
  <2>2. /\ pc \notin Working /\ made = changes /\ Limits /\ Reported /\ TakenInv
        /\ changes \in Nat /\ patch.count \in Nat
    BY <1>1, <2>1, PatchFacts DEF IInv, Control, SearchInv, EndInv, Counted, Shape
  <2>3. Searched \subseteq 0 .. LastOffset(patch)
    BY <1>1, <2>1, PatchFacts DEF Searched, IInv
  <2> HIDE DEF made
  <2>4. reports[n] <=> IF Plain(patch) THEN made = patch.count ELSE made > 0
    BY <2>1, <2>2, Zenon DEF Reported
  <2>5. ASSUME patch.count = 0 \/ made < patch.count, NEW m \in Searched, Match(before, patch, m)
        PROVE  m \in Taken \/ Overlapped(m)
    <3>1. m < cursor
      BY <2>1, <2>2, <2>5 DEF Reported
    <3> QED
      BY <2>2, <2>3, <2>5, <3>1, Zenon DEF TakenInv
  <2> QED
    BY <2>2, <2>4, <2>5 DEF Limits
<1> QED
  BY <1>1, InitIInv, NextIInv, PTL DEF Spec
-------------------------------------------------------------------------------
(* The steps that Apply takes at most from where it is.  The scan counts   *)
(* each offset twice, since it comes back to one where it wrote.           *)
WorkLeft ==
  CASE pc = "enable" -> 2 * Size + 4
    [] pc = "scan" -> 2 * (Size - cursor) + 2 + (IF Match(image, patch, cursor) THEN 1 ELSE 0)
    [] pc = "restore" -> 2
    [] pc = "find" -> (Size - cursor) + 2
    [] pc = "next" -> 1
    [] pc = "done" -> 0

(* findAndReplaceWithMask steps over a finding to the end at the most.     *)
CursorInv == pc = "find" => cursor <= Size

(* ApplyAll takes up its next patch, or has less to do on this one.        *)
SearchAdvances == n' = n + 1 \/ (n' = n /\ WorkLeft' < WorkLeft)

(* Two byte strings that differ do so at some place.                       *)
LEMMA Differ ==
  ASSUME NEW s, NEW f \in Bytes(s), NEW g \in Bytes(s), f # g
  PROVE  \E j \in 0 .. s - 1 : f[j] # g[j]
<1>1. SUFFICES ASSUME \A j \in 0 .. s - 1 : f[j] = g[j] PROVE FALSE
  BY Zenon
<1>2. f = [j \in 0 .. s - 1 |-> f[j]] /\ g = [j \in 0 .. s - 1 |-> g[j]]
  BY Zenon DEF Bytes
<1>3. [j \in 0 .. s - 1 |-> f[j]] = [j \in 0 .. s - 1 |-> g[j]]
  BY <1>1, Zenon
<1> QED
  BY <1>2, <1>3, Zenon

(* Where applyLookupPatch wrote it finds nothing when it looks again.      *)
LEMMA HitClears ==
  ASSUME Control, SearchInv, ScanHit
  PROVE  ~Match(image', patch, cursor)
<1>1. /\ pc = "scan" /\ n > 0 /\ Plain(patch) /\ cursor < EndingAddress(patch)
      /\ image' = Rewritten(image, patch, cursor)
  BY Zenon DEF ScanHit, Control, Working
<1>2. PICK p : p = patch
  OBVIOUS
<1>3. /\ p \in Patches /\ p.size \in Nat \ {0} /\ Size \in Nat \ {0} /\ Offset = 0 .. Size - 1
      /\ cursor \in Nat /\ cursor < Size - p.size
  BY <1>1, <1>2, PatchFacts, Zenon DEF SearchInv, Shape
<1>4. p.find \in Bytes(p.size) /\ p.replace \in Bytes(p.size) /\ p.find # p.replace
  BY <1>3, PatchAssumption, Zenon DEF PatchType
<1>5. PICK j \in 0 .. p.size - 1 : p.find[j] # p.replace[j]
  <2>1. PICK s, f, g : s = p.size /\ f = p.find /\ g = p.replace
    OBVIOUS
  <2>2. f \in Bytes(s) /\ g \in Bytes(s) /\ f # g
    BY <1>4, <2>1, Zenon
  <2>3. \E j \in 0 .. s - 1 : f[j] # g[j]
    BY <2>2, Differ, Zenon
  <2> QED
    BY <2>1, <2>3, Zenon
<1>6. cursor + j \in Offset /\ cursor + j \in Window(p, cursor) /\ (cursor + j) - cursor = j
  BY <1>3 DEF Window
<1>7. image'[cursor + j] = p.replace[j]
  BY <1>1, <1>2, <1>6, Zenon DEF Rewritten, NewByte, Plain
<1>8. ~Same(image'[cursor + j], p, j)
  BY <1>1, <1>2, <1>5, <1>7, Zenon DEF Same, Plain
<1> QED
  BY <1>2, <1>8, Zenon DEF Match

(* What a step knows of the numbers it moves.                              *)
LEMMA Numbers ==
  ASSUME IInv, CursorInv, n > 0
  PROVE  /\ Size \in Nat \ {0} /\ patch.size \in Nat \ {0} /\ cursor \in Nat
         /\ EndingAddress(patch) = Size - patch.size /\ LastOffset(patch) = Size - patch.size
         /\ pc = "scan" => cursor < Size - patch.size
         /\ pc = "find" => cursor <= Size
BY PatchFacts, Zenon DEF IInv, SearchInv, Shape, Control, CursorInv

(* The steps of the plain search.                                          *)
LEMMA ScanAdvances ==
  ASSUME IInv, CursorInv, Enable \/ ScanMiss \/ ScanHit
  PROVE  CursorInv' /\ SearchAdvances
<1>1. n > 0 /\ UNCHANGED <<list, n>> /\ patch' = patch /\ pc \in {"enable", "scan"}
  BY SamePatch, Zenon DEF IInv, Control, Working, Enable, ScanMiss, ScanHit, Continue
<1>2. PICK z \in Nat, c \in Nat, e \in Int :
        /\ z = Size /\ c = cursor /\ e = EndingAddress(patch) /\ e < z
        /\ pc = "scan" => c < e
  BY <1>1, Numbers
<1>3. pc' \in {"scan", "restore"}
  BY Zenon DEF Enable, ScanMiss, ScanHit, Continue
<1>4. CASE Enable
  <2>1. pc = "enable" /\ cursor' = cursor /\ (pc' = "scan" => cursor < EndingAddress(patch))
    BY <1>4, Zenon DEF Enable, Continue, search
  <2>2. WorkLeft = 2 * z + 4
    BY <1>2, <2>1 DEF WorkLeft
  <2>3. WorkLeft' \in {2, 2 * (z - c) + 2, 2 * (z - c) + 3}
    BY <1>2, <1>3, <2>1 DEF WorkLeft
  <2> QED
    BY <1>1, <1>2, <1>3, <2>2, <2>3 DEF SearchAdvances, CursorInv
<1>5. CASE ScanMiss
  <2>1. pc = "scan" /\ ~Match(image, patch, cursor) /\ cursor' = cursor + 1
    BY <1>5, Zenon DEF ScanMiss
  <2>2. WorkLeft = 2 * (z - c) + 2
    BY <1>2, <2>1 DEF WorkLeft
  <2>3. WorkLeft' \in {2, 2 * (z - (c + 1)) + 2, 2 * (z - (c + 1)) + 3}
    BY <1>2, <1>3, <2>1 DEF WorkLeft
  <2> QED
    BY <1>1, <1>2, <1>3, <2>1, <2>2, <2>3 DEF SearchAdvances, CursorInv
<1>6. CASE ScanHit
  <2>1. pc = "scan" /\ Match(image, patch, cursor) /\ cursor' = cursor
    BY <1>6, Zenon DEF ScanHit
  <2>2. ~Match(image', patch', cursor')
    BY <1>1, <1>6, <2>1, HitClears, Zenon DEF IInv
  <2>3. WorkLeft = 2 * (z - c) + 3
    BY <1>2, <2>1 DEF WorkLeft
  <2>4. WorkLeft' \in {2, 2 * (z - c) + 2}
    BY <1>2, <1>3, <2>1, <2>2 DEF WorkLeft
  <2> QED
    BY <1>1, <1>2, <1>3, <2>1, <2>3, <2>4 DEF SearchAdvances, CursorInv
<1> QED
  BY <1>4, <1>5, <1>6, Zenon

(* The steps of the search under masks.                                    *)
LEMMA FindAdvances ==
  ASSUME IInv, CursorInv, FindMiss \/ FindSkipped \/ FindReplaced, pc' = "find"
  PROVE  CursorInv' /\ SearchAdvances
<1>1. /\ n > 0 /\ UNCHANGED <<list, n>> /\ pc = "find" /\ cursor <= LastOffset(patch)
      /\ cursor' = cursor + 1 \/ cursor' = Past(patch, cursor)
  BY Zenon DEF IInv, Control, Working, FindMiss, FindSkipped, FindReplaced, Found, Continue, Return
<1>2. PICK z \in Nat, c \in Nat, s \in Nat \ {0} :
        z = Size /\ c = cursor /\ s = patch.size /\ c <= z - s
  BY <1>1, Numbers
<1>3. PICK d \in Nat : d = cursor' /\ d > c /\ d <= z
  BY <1>1, <1>2 DEF Past
<1>4. PICK a \in Int, b \in Int : a = WorkLeft /\ b = WorkLeft' /\ b < a
  BY <1>1, <1>2, <1>3 DEF WorkLeft
<1>5. WorkLeft' < WorkLeft
  BY <1>4, Zenon
<1> QED
  BY <1>1, <1>2, <1>3, <1>5, Zenon DEF SearchAdvances, CursorInv

(* Apply's answer leaves nothing to do but ApplyAll's own steps.           *)
LEMMA ReturnAdvances ==
  ASSUME IInv, CursorInv, pc \in Working, NEW ok, Return(ok)
  PROVE  CursorInv' /\ SearchAdvances
<1>1. n > 0 /\ n' = n /\ pc' \in {"next", "done"}
  BY Zenon DEF IInv, Control, Return
<1>2. PICK z \in Nat, c \in Nat : z = Size /\ c = cursor /\ (pc \in {"scan", "find"} => c <= z)
  BY <1>1, Numbers
<1>3. WorkLeft' \in {0, 1}
  BY <1>1 DEF WorkLeft
<1>4. WorkLeft \in {2 * z + 4, 2 * (z - c) + 2, 2 * (z - c) + 3, 2, (z - c) + 2}
  BY <1>2 DEF WorkLeft, Working
<1>5. WorkLeft \in Int /\ WorkLeft >= 2
  <2>1. CASE pc \in {"scan", "find"}
    BY <1>2, <1>4, <2>1
  <2>2. CASE pc \in {"enable", "restore"}
    BY <1>2, <2>2 DEF WorkLeft
  <2> QED
    BY <2>1, <2>2, Zenon DEF Working
<1> QED
  BY <1>1, <1>3, <1>5 DEF SearchAdvances, CursorInv

(* ApplyAll and both searches come to an end for every image and every     *)
(* list of patches, although applyLookupPatch looks again where it wrote:  *)
(* each step takes up the next patch of the list or lowers a bound on what *)
(* is left of this one.  With the fairness of the thread this is why       *)
(* ApplyAll returns.                                                       *)
THEOREM SearchIsShort ==
  Spec => [](n \in 0 .. Len(list) /\ WorkLeft \in 0 .. 2 * Size + 4) /\ [][SearchAdvances]_vars
<1>1. Init => CursorInv
  BY Zenon DEF Init, CursorInv
<1>2. ASSUME IInv, CursorInv, [Next]_vars PROVE CursorInv' /\ [SearchAdvances]_vars
  <2>1. CASE Enable \/ ScanMiss \/ ScanHit
    BY <1>2, <2>1, ScanAdvances, Zenon
  <2>2. CASE EnableFails \/ Restore \/ RestoreFails \/ FindRefused \/ FindEnds
    <3>1. pc \in Working /\ \E ok : Return(ok)
      BY <2>2, Zenon DEF EnableFails, Restore, RestoreFails, FindRefused, FindEnds, Found, Working
    <3> QED
      BY <1>2, <3>1, ReturnAdvances, Zenon
  <2>3. CASE FindMiss \/ FindSkipped \/ FindReplaced
    <3>1. pc' = "find" \/ (pc \in Working /\ Return(TRUE))
      BY <2>3, Zenon DEF FindMiss, FindSkipped, FindReplaced, Found, Continue, Working
    <3> QED
      BY <1>2, <2>3, <3>1, FindAdvances, ReturnAdvances, Zenon
  <2>4. CASE Apply
    <3>1. n' = n + 1 /\ cursor' = 0 /\ Size \in Nat
      BY <2>4, ImageAssumption, Zenon DEF Apply
    <3> QED
      BY <3>1 DEF SearchAdvances, CursorInv
  <2>5. CASE ApplyAllReturns
    <3>1. pc = "next" /\ pc' = "done" /\ n' = n
      BY <2>5, Zenon DEF ApplyAllReturns
    <3> QED
      BY <3>1 DEF SearchAdvances, CursorInv, WorkLeft
  <2>6. CASE UNCHANGED vars
    BY <1>2, <2>6, Zenon DEF vars, search, CursorInv
  <2> QED
    BY <1>2, <2>1, <2>2, <2>3, <2>4, <2>5, <2>6, Zenon DEF Next
<1>3. IInv /\ CursorInv => n \in 0 .. Len(list) /\ WorkLeft \in 0 .. 2 * Size + 4
  <2>1. SUFFICES ASSUME IInv, CursorInv PROVE WorkLeft \in 0 .. 2 * Size + 4
    BY Zenon DEF IInv, Control
  <2>2. pc \in {"enable", "scan", "restore", "find", "next", "done"}
    BY <2>1 DEF IInv, Control, Working
  <2>3. CASE pc \in {"scan", "find"}
    <3>1. n > 0
      BY <2>1, <2>3, Zenon DEF IInv, Control, Working
    <3>2. PICK z \in Nat, c \in Nat : z = Size /\ c = cursor /\ c <= z
      BY <2>1, <2>3, <3>1, Numbers
    <3>3. WorkLeft \in {2 * (z - c) + 2, 2 * (z - c) + 3, (z - c) + 2}
      BY <2>3, <3>2 DEF WorkLeft
    <3> QED
      BY <3>2, <3>3
  <2>4. CASE pc \in {"enable", "restore", "next", "done"}
    BY <2>4, ImageAssumption DEF WorkLeft
  <2> QED
    BY <2>2, <2>3, <2>4, Zenon
<1> QED
  BY <1>1, <1>2, <1>3, InitIInv, NextIInv, PTL DEF Spec
===============================================================================
