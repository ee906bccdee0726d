------------------------------ MODULE LookupPatch ------------------------------
(***************************************************************************)
(* Searching and rewriting the image of a loaded kext:                     *)
(* MaskedLookupPatch::ApplyAll and Apply over the patcher's two searches.  *)
(* applyLookupPatch compares whole bytes, keeps its cursor where it wrote  *)
(* and wants an exact number of changes; findAndReplaceWithMask compares   *)
(* under masks, can skip findings, moves behind what it wrote and is       *)
(* content with one.  Both write with the write protection lifted.         *)
(*                                                                         *)
(* A byte is the set of its bits that are 1.                               *)
(***************************************************************************)
EXTENDS Integers, Sequences, FiniteSets

CONSTANTS
  Bits,         \* the bits of a byte
  Size,         \* bytes in the kext's image
  Images,       \* images that kexts have
  Patches,      \* lookup patches
  Lists,        \* the arrays of them given to ApplyAll
  NoMask        \* a null findMask or replaceMask

Byte == SUBSET Bits
Offset == 0 .. Size - 1
Bytes(n) == [0 .. n - 1 -> Byte]

PatchType(p) ==
  /\ p.size \in Nat \ {0} /\ p.count \in Nat /\ p.skip \in Nat
  /\ p.find \in Bytes(p.size) /\ p.replace \in Bytes(p.size)
  /\ p.findMask \in Bytes(p.size) \cup {NoMask}
  /\ p.replaceMask \in Bytes(p.size) \cup {NoMask}

(* Every patch of the plug-in replaces its bytes by others.                *)
ASSUME PatchAssumption == \A p \in Patches : PatchType(p) /\ p.find # p.replace
ASSUME ImageAssumption ==
  /\ Size \in Nat \ {0}
  /\ Images \subseteq [Offset -> Byte]
  /\ Lists \subseteq Seq(Patches)

VARIABLES
  image,        \* the bytes of the kext
  memory,       \* write protection: "protected", "writing" or "open" (a restore failed)
  list, force,  \* ApplyAll: its patches, and whether it goes on after a failure
  n, reports,   \* ApplyAll: the patch it is at, what Apply returned for each
  pc, cursor,   \* the search and where it is
  changes,      \* changes, replCount: replacements made
  skip,         \* findings still to be skipped
  before,       \* the image this patch began with (history)
  skipped, places,  \* offsets this patch skipped and rewrote (history)
  refused       \* the patch failed on the write protection (history)

search == <<cursor, changes, skip, skipped, places>>
vars == <<image, memory, list, force, n, reports, pc, search, before, refused>>

patch == list[n]

(* Which of the two searches Apply chooses.                                *)
Plain(p) == p.findMask = NoMask /\ p.replaceMask = NoMask /\ p.skip = 0

(* memcmp, and findPattern's comparison at one offset.                     *)
Same(byte, p, j) ==
  IF p.findMask = NoMask THEN byte = p.find[j] ELSE byte \cap p.findMask[j] = p.find[j]
Match(img, p, m) == \A j \in 0 .. p.size - 1 : Same(img[m + j], p, j)

Window(p, m) == m .. m + p.size - 1
NewByte(byte, p, j) ==
  IF p.replaceMask = NoMask
    THEN p.replace[j]
    ELSE (byte \ p.replaceMask[j]) \cup (p.replace[j] \cap p.replaceMask[j])
RewrittenShort(img, p, m) ==
  [o \in Offset |-> IF o \in m .. m + p.size - 2 THEN NewByte(img[o], p, o - m) ELSE img[o]]
Rewritten(img, p, m) ==
  [o \in Offset |-> IF o \in Window(p, m) THEN NewByte(img[o], p, o - m) ELSE img[o]]

(* The first offset applyLookupPatch does not look at, and the last one    *)
(* findPattern does: the same.                                             *)
EndsEarly(p) == Size - p.size - 1
EndingAddress(p) == Size - p.size
LastOffset(p) == Size - p.size

(* Where findAndReplaceWithMask goes on after a finding.                   *)
PastOne(p, m) == m + 1
Past(p, m) == m + p.size

(* The write-protect bit follows, or it stays as it was.                   *)
SetKernelWriting(enable, ok) ==
  memory' = IF enable THEN (IF ok THEN "writing" ELSE memory)
                      ELSE (IF ok THEN "protected" ELSE "open")

Init ==
  /\ image \in Images /\ memory = "protected"
  /\ list \in Lists /\ force \in BOOLEAN
  /\ n = 0 /\ reports = <<>> /\ pc = "next"
  /\ cursor = 0 /\ changes = 0 /\ skip = 0
  /\ before = image /\ skipped = {} /\ places = {} /\ refused = FALSE

(* ApplyAll takes up its next patch.                                       *)
Apply ==
  /\ pc = "next" /\ n < Len(list)
  /\ n' = n + 1
  /\ pc' = IF Plain(list[n + 1]) THEN "enable" ELSE "find"
  /\ cursor' = 0 /\ changes' = 0 /\ skip' = list[n + 1].skip
  /\ before' = image /\ skipped' = {} /\ places' = {} /\ refused' = FALSE
  /\ UNCHANGED <<image, memory, list, force, reports>>

(* Apply returns; ApplyAll stops at a failure unless it is forced on.      *)
Return(ok) ==
  /\ reports' = Append(reports, ok)
  /\ pc' = IF ok \/ force THEN "next" ELSE "done"
  /\ UNCHANGED <<list, force, n, before>>

Continue(here) == pc' = here /\ UNCHANGED <<list, force, n, before, reports>>

ApplyAllReturns ==
  /\ pc = "next" /\ n = Len(list)
  /\ pc' = "done"
  /\ UNCHANGED <<image, memory, list, force, n, reports, search, before, refused>>

(* applyLookupPatch lifts the protection for the whole search.             *)
Enable ==
  /\ pc = "enable"
  /\ SetKernelWriting(TRUE, TRUE)
  /\ Continue(IF cursor < EndingAddress(patch) THEN "scan" ELSE "restore")
  /\ UNCHANGED <<image, search, refused>>

EnableFails ==
  /\ pc = "enable"
  /\ SetKernelWriting(TRUE, FALSE) /\ refused' = TRUE
  /\ Return(FALSE)
  /\ UNCHANGED <<image, search>>

ScanMiss ==
  /\ pc = "scan" /\ ~Match(image, patch, cursor)
  /\ cursor' = cursor + 1
  /\ Continue(IF cursor + 1 < EndingAddress(patch) THEN "scan" ELSE "restore")
  /\ UNCHANGED <<image, memory, changes, skip, skipped, places, refused>>

(* The cursor stays: the next comparison is at the same offset.            *)
ScanHit ==
  /\ pc = "scan" /\ Match(image, patch, cursor)
  /\ image' = Rewritten(image, patch, cursor)
  /\ changes' = changes + 1 /\ places' = places \cup {cursor}
  /\ Continue(IF patch.count = 0 \/ changes + 1 < patch.count THEN "scan" ELSE "restore")
  /\ UNCHANGED <<memory, cursor, skip, skipped, refused>>

RestoreIfDone ==
  /\ pc = "restore"
  /\ memory' = IF changes = patch.count THEN "protected" ELSE memory
  /\ Return(changes = patch.count)
  /\ UNCHANGED <<image, search, refused>>

Restore ==
  /\ pc = "restore"
  /\ SetKernelWriting(FALSE, TRUE)
  /\ Return(changes = patch.count)
  /\ UNCHANGED <<image, search, refused>>

RestoreFails ==
  /\ pc = "restore"
  /\ SetKernelWriting(FALSE, FALSE) /\ refused' = TRUE
  /\ Return(FALSE)
  /\ UNCHANGED <<image, search>>

(* findPattern, one offset at a time, and findAndReplaceWithMask around it.*)
Found == pc = "find" /\ cursor <= LastOffset(patch) /\ Match(image, patch, cursor)

FindMiss ==
  /\ pc = "find" /\ cursor <= LastOffset(patch) /\ ~Match(image, patch, cursor)
  /\ cursor' = cursor + 1
  /\ Continue("find")
  /\ UNCHANGED <<image, memory, changes, skip, skipped, places, refused>>

FindSkipped ==
  /\ Found /\ skip > 0
  /\ skip' = skip - 1 /\ cursor' = Past(patch, cursor)
  /\ skipped' = skipped \cup {cursor}
  /\ Continue("find")
  /\ UNCHANGED <<image, memory, changes, places, refused>>

(* A failure to restore the protection is only logged here.                *)
FindReplaced ==
  /\ Found /\ skip = 0
  /\ image' = Rewritten(image, patch, cursor)
  /\ \E ok \in BOOLEAN : SetKernelWriting(FALSE, ok)
  /\ changes' = changes + 1 /\ places' = places \cup {cursor}
  /\ cursor' = Past(patch, cursor)
  /\ IF patch.count > 0 /\ changes + 1 = patch.count THEN Return(TRUE) ELSE Continue("find")
  /\ UNCHANGED <<skip, skipped, refused>>

FindRefused ==
  /\ Found /\ skip = 0
  /\ SetKernelWriting(TRUE, FALSE) /\ refused' = TRUE
  /\ Return(FALSE)
  /\ UNCHANGED <<image, search>>

FindEnds ==
  /\ pc = "find" /\ cursor > LastOffset(patch)
  /\ Return(changes > 0)
  /\ UNCHANGED <<image, memory, search, refused>>

Next == \/ Apply \/ ApplyAllReturns \/ Enable \/ EnableFails \/ ScanMiss \/ ScanHit
        \/ Restore \/ RestoreFails \/ FindMiss \/ FindSkipped \/ FindReplaced
        \/ FindRefused \/ FindEnds

(* The searches run on one thread and wait for nothing.                    *)
Spec == Init /\ [][Next]_vars /\ WF_vars(Next)
-------------------------------------------------------------------------------
(* No rewritten place makes a new match with the bytes that follow it.     *)
Steady(p) ==
  Plain(p) => \A k \in 1 .. p.size - 1 :
                \E j \in 0 .. p.size - 1 - k : p.replace[j + k] # p.find[j]

Overlapped(m) == \E q \in skipped \cup places : q < m /\ m < q + patch.size

(* What both searches do: going by the image as it was before the patch,   *)
(* they take every match from the left that does not overlap one they took *)
(* before, skip the first ones as asked and rewrite the others.            *)
LeftmostFirst ==
  n > 0 /\ Steady(patch) =>
    /\ \A m \in 0 .. LastOffset(patch) : m < cursor =>
         (m \in skipped \cup places <=> Match(before, patch, m) /\ ~Overlapped(m))
    /\ \A a \in skipped, b \in places : a < b
    /\ Cardinality(skipped) = patch.skip - skip

(* The patch changes the bytes at its places to the replacement and no     *)
(* other byte, failures included; with replacements that make new matches  *)
(* the places can run into each other, and still no other byte changes.    *)
OnlyPlacesChange ==
  n > 0 => \A o \in Offset :
    IF \E q \in places : o \in Window(patch, q)
      THEN Steady(patch) => \E q \in places : /\ o \in Window(patch, q)
                                              /\ image[o] = NewByte(before[o], patch, o - q)
      ELSE image[o] = before[o]

(* Offsets applyLookupPatch compares, and those findAndReplaceWithMask     *)
(* does: the former leaves out the last at which the patch would fit.      *)
Searched == IF Plain(patch) THEN 0 .. LastOffset(patch) - 1 ELSE 0 .. LastOffset(patch)

(* Apply's answer is right unless the write protection failed it: it       *)
(* reports an exact number of changes for a plain patch and at least one   *)
(* for a masked one, never makes more than were asked for, and stops short *)
(* of that number only if no match is left among the offsets it searches.  *)
ReportIsTrue ==
  n > 0 /\ Len(reports) = n /\ ~refused /\ Steady(patch) =>
    LET made == Cardinality(places)
    IN /\ reports[n] <=> IF Plain(patch) THEN made = patch.count ELSE made > 0
       /\ patch.count > 0 => made <= patch.count
       /\ patch.count = 0 \/ made < patch.count =>
            \A m \in Searched : Match(before, patch, m) =>
              m \in skipped \cup places \/ Overlapped(m)

(* ApplyAll returns, although applyLookupPatch does not step over what it  *)
(* wrote, and leaves the image protected unless a restore failed.          *)
SearchEnds == <>[](pc = "done" /\ memory # "writing")
===============================================================================
