--------------------------- MODULE ConnectorsProofs ---------------------------
(***************************************************************************)
(* The compaction of the connector table is right for tables of any size   *)
(* and any number of callers, as long as one of them found the flag clear. *)
(***************************************************************************)
EXTENDS Connectors, FiniteSetTheorems, TLAPS

Call == [pc : {"idle", "set", "walk", "org"}, n : Nat, i : Nat, j : Nat, late : BOOLEAN, count : Nat]

Good ==
  /\ pathCount <= size
  /\ \A k \in 1..pathCount : paths[k] # Invalid
  /\ \A k \in 1..size : orig[k] # Invalid => \E m \in 1..pathCount : paths[m] = orig[k]

(* Where the walk of r stands: the paths before j are connected and hold   *)
(* every connected path before i, and those from i on are untouched.       *)
Walking(r) ==
  /\ r.n = size /\ r.i \in 1..(size + 1) /\ r.j \in 1..r.i
  /\ pathCount = size - (r.i - r.j)
  /\ \A k \in 1..(r.j - 1) : paths[k] # Invalid
  /\ \A k \in r.i..size : paths[k] = orig[k]
  /\ \A k \in 1..(r.i - 1) : orig[k] # Invalid => \E m \in 1..(r.j - 1) : paths[m] = orig[k]

Weak ==
  /\ size \in Nat /\ size < 256 /\ pathCount \in Nat /\ fixers \subseteq Callers
  /\ call \in [Callers -> Call]
  /\ \A c \in Callers : call[c].pc \in {"set", "walk"} => c \in fixers
  /\ \A c \in fixers : call[c].pc # "set" => fixedVBIOS

Stage(c) ==
  /\ call[c].pc = "set" => paths = orig /\ pathCount = size /\ call[c].i = 1 /\ call[c].j = 1
  /\ call[c].pc = "walk" => Walking(call[c])
  /\ call[c].pc \in {"idle", "org"} /\ known => Good

Sole ==
  /\ DOMAIN paths = 1..size
  /\ fixers = {} => paths = orig /\ pathCount = size
  /\ \A c \in fixers : Stage(c)

IInv == Weak /\ (Alone => Sole)

-------------------------------------------------------------------------------
(* Updating the call of one caller leaves the others as they are.          *)
LEMMA UpdateCall ==
  ASSUME Weak, NEW c \in Callers, NEW r \in Call, Becomes(c, r)
  PROVE  /\ call' \in [Callers -> Call]
         /\ call'[c] = r
         /\ \A d \in Callers : d # c => call'[d] = call[d]
BY DEF Weak, Becomes

(* Where no table changes, a call that does not change keeps its stage, and *)
(* so does one that goes from outside the walk to outside the walk.        *)
LEMMA StageKept ==
  ASSUME UNCHANGED <<size, orig, known, paths, pathCount>>, NEW d, Stage(d),
         \/ call'[d] = call[d]
         \/ call[d].pc \in {"idle", "org"} /\ call'[d].pc \in {"idle", "org"}
  PROVE  Stage(d)'
<1>1. CASE call'[d] = call[d]
  BY <1>1 DEF Stage, Walking, Good
<1>2. CASE call[d].pc \in {"idle", "org"} /\ call'[d].pc \in {"idle", "org"}
  BY <1>2, Zenon DEF Stage, Good
<1> QED
  BY <1>1, <1>2, Zenon

(* The invariant holds when the driver has not asked yet.                  *)
LEMMA InitIInv == Init => IInv
<1> SUFFICES ASSUME Init PROVE IInv
  OBVIOUS
<1>1. Idle \in Call
  BY Zenon DEF Idle, Call
<1>2. size \in Nat /\ size < 256 /\ pathCount \in Nat
  BY ConnectorsAssumption DEF Init
<1>3. Weak
  BY <1>1, <1>2, Zenon DEF Init, Weak, Idle
<1>4. Sole
  BY Zenon DEF Init, Sole
<1> QED
  BY <1>3, <1>4, Zenon DEF IInv

(* The byte of the count stays a number.                                   *)
LEMMA DecrementNat == \A x \in Nat : Decrement(x) \in Nat
BY DEF Decrement

(* While paths are left to count, it goes down by one.                     *)
LEMMA DecrementByOne == \A x \in 1..255 : Decrement(x) = x - 1
BY DEF Decrement

-------------------------------------------------------------------------------
(* The test of the flag.                                                   *)
LEMMA CheckIInv == ASSUME IInv, NEW c \in Callers, Check(c) PROVE IInv'
<1> DEFINE r == [Idle EXCEPT !.pc = IF fixedVBIOS THEN "org" ELSE "set", !.late = Finished]
<1>1. Finished \in BOOLEAN
  BY Zenon DEF Finished
<1>2. r \in Call
  BY <1>1, Zenon DEF Idle, Call
<1>3. /\ call' \in [Callers -> Call] /\ call'[c] = r
      /\ \A d \in Callers : d # c => call'[d] = call[d]
  BY <1>2, UpdateCall, Zenon DEF IInv, Check
<1>4. /\ r.pc = IF fixedVBIOS THEN "org" ELSE "set"
      /\ r.i = 1 /\ r.j = 1
  BY Zenon DEF Idle
<1>5. call[c].pc = "idle" /\ UNCHANGED <<size, orig, known, paths, pathCount, fixedVBIOS>>
      /\ fixers' = IF fixedVBIOS THEN fixers ELSE fixers \cup {c}
  BY Zenon DEF Check, table
<1>6. CASE fixedVBIOS
  <2>1. fixers' = fixers /\ r.pc = "org"
    BY <1>4, <1>5, <1>6, Zenon
  <2>2. Weak'
    BY <1>3, <1>5, <1>6, <2>1, Zenon DEF IInv, Weak
  <2>3. ASSUME Alone' PROVE Sole'
    <3>1. Sole
      BY <2>1, <2>3, Zenon DEF Alone, IInv
    <3>2. \A d \in fixers : d \in Callers
      BY Zenon DEF IInv, Weak
    <3>3. ASSUME NEW d \in fixers PROVE Stage(d)'
      <4>1. Stage(d)
        BY <3>1, <3>3, Zenon DEF Sole
      <4>2. \/ call'[d] = call[d]
            \/ call[d].pc \in {"idle", "org"} /\ call'[d].pc \in {"idle", "org"}
        BY <1>3, <1>5, <2>1, <3>2, Zenon
      <4> QED
        BY <1>5, <4>1, <4>2, StageKept, Zenon
    <3> QED
      BY <1>5, <2>1, <3>1, <3>3, Zenon DEF Sole
  <2> QED
    BY <2>2, <2>3, Zenon DEF IInv
<1>7. CASE ~fixedVBIOS
  <2>1. fixers' = fixers \cup {c} /\ r.pc = "set"
    BY <1>4, <1>5, <1>7
  <2>2. Weak'
    BY <1>3, <1>5, <1>7, <2>1, Zenon DEF IInv, Weak
  <2>3. c \notin fixers
    BY <1>5, <1>7 DEF IInv, Weak
  <2>4. ASSUME Alone' PROVE Sole'
    <3>1. fixers = {}
      BY <2>1, <2>3, <2>4 DEF Alone
    <3>2. Sole
      BY <3>1, Zenon DEF Alone, IInv
    <3>3. paths' = orig' /\ pathCount' = size' /\ DOMAIN paths' = 1..size'
      BY <3>1, <3>2, <1>5, Zenon DEF Sole
    <3>4. fixers' = {c} /\ call'[c].pc = "set" /\ call'[c].i = 1 /\ call'[c].j = 1
      BY <3>1, <2>1, <1>3, <1>4
    <3> QED
      BY <3>3, <3>4, Zenon DEF Sole, Stage
  <2> QED
    BY <2>2, <2>4 DEF IInv
<1> QED
  BY <1>6, <1>7, Zenon

(* Setting the flag, and the start of the walk.                            *)
LEMMA SetFlagIInv == ASSUME IInv, NEW c \in Callers, SetFlag(c) PROVE IInv'
<1> DEFINE r == [call[c] EXCEPT !.pc = IF known THEN "walk" ELSE "org", !.n = pathCount]
<1>1. call[c] \in Call
  BY DEF IInv, Weak
<1>2. r \in Call
  BY <1>1, Zenon DEF IInv, Weak, Call
<1>3. /\ call' \in [Callers -> Call] /\ call'[c] = r
      /\ \A d \in Callers : d # c => call'[d] = call[d]
  BY <1>2, UpdateCall, Zenon DEF IInv, SetFlag
<1>4. /\ r.pc = IF known THEN "walk" ELSE "org"
      /\ r.i = call[c].i /\ r.j = call[c].j /\ r.n = pathCount
  BY <1>1, Zenon DEF Call
<1>5. call[c].pc = "set" /\ fixedVBIOS' = TRUE
      /\ UNCHANGED <<size, orig, known, paths, pathCount, fixers>>
  BY Zenon DEF SetFlag, table
<1>6. c \in fixers
  BY <1>5, Zenon DEF IInv, Weak
<1>7. Weak'
  BY <1>3, <1>4, <1>5, <1>6, Zenon DEF IInv, Weak
<1>8. ASSUME Alone' PROVE Sole'
  <2>1. Sole /\ fixers = {c}
    BY <1>5, <1>6, <1>8, Zenon DEF Alone, IInv
  <2>2. paths = orig /\ pathCount = size /\ call[c].i = 1 /\ call[c].j = 1 /\ size \in Nat
    BY <2>1, <1>5, Zenon DEF Sole, Stage, IInv, Weak
  <2>3. DOMAIN paths' = 1..size' /\ fixers' = {c}
    BY <1>5, <2>1, Zenon DEF Sole
  <2>4. CASE known
    <3>1. call'[c].pc = "walk"
      BY <1>3, <1>4, <2>4, Zenon
    <3>2. Walking(call[c])'
      BY <1>3, <1>4, <1>5, <2>2 DEF Walking
    <3> QED
      BY <2>3, <3>1, <3>2, Zenon DEF Sole, Stage
  <2>5. CASE ~known
    <3>1. call'[c].pc = "org" /\ ~known'
      BY <1>3, <1>4, <1>5, <2>5, Zenon
    <3> QED
      BY <2>3, <3>1, Zenon DEF Sole, Stage
  <2> QED
    BY <2>4, <2>5, Zenon
<1> QED
  BY <1>7, <1>8 DEF IInv

(* One turn of the loop.                                                   *)
LEMMA WalkIInv == ASSUME IInv, NEW c \in Callers, Walk(c) PROVE IInv'
<1> DEFINE i == call[c].i
           j == call[c].j
           moved == [call[c] EXCEPT !.i = i + 1, !.j = j + 1]
           skipped == [call[c] EXCEPT !.i = i + 1]
<1>1. call[c] \in Call /\ i \in Nat /\ j \in Nat
  BY Zenon DEF IInv, Weak, Call
<1>2. moved \in Call /\ skipped \in Call
  <2>1. i + 1 \in Nat /\ j + 1 \in Nat
    BY <1>1
  <2> HIDE DEF i, j
  <2> QED
    BY <1>1, <2>1, Zenon DEF Call
<1>3. /\ moved.pc = call[c].pc /\ moved.n = call[c].n /\ moved.i = i + 1 /\ moved.j = j + 1
      /\ skipped.pc = call[c].pc /\ skipped.n = call[c].n /\ skipped.i = i + 1 /\ skipped.j = j
  BY <1>1, Zenon DEF Call
<1>4. /\ call[c].pc = "walk" /\ i <= call[c].n
      /\ UNCHANGED <<size, orig, known, fixedVBIOS, fixers>>
  BY Zenon DEF Walk, table
<1>5. c \in fixers
  BY <1>4, Zenon DEF IInv, Weak
<1>6. ASSUME Alone' PROVE Sole /\ fixers = {c} /\ Walking(call[c]) /\ i <= size
  BY <1>4, <1>5, <1>6, Zenon DEF Alone, IInv, Sole, Stage, Walking
<1> HIDE DEF moved, skipped
<1>7. CASE paths[i] # Invalid
  <2>1. paths' = [paths EXCEPT ![j] = paths[i]] /\ pathCount' = pathCount /\ Becomes(c, moved)
    BY <1>7, Zenon DEF Walk, moved
  <2>2. /\ call' \in [Callers -> Call] /\ call'[c] = moved
        /\ \A d \in Callers : d # c => call'[d] = call[d]
    BY <1>2, <2>1, UpdateCall, Zenon DEF IInv
  <2>3. Weak'
    BY <1>3, <1>4, <1>5, <2>1, <2>2, Zenon DEF IInv, Weak
  <2>4. ASSUME Alone' PROVE Sole'
    <3>1. Sole /\ fixers = {c} /\ Walking(call[c]) /\ i <= size /\ size \in Nat
      BY <1>6, <2>4, Zenon DEF IInv, Weak
    <3>2. /\ i \in 1..size /\ j \in 1..i /\ pathCount = size - (i - j) /\ call[c].n = size
          /\ paths[i] = orig[i] /\ DOMAIN paths = 1..size
      BY <3>1, <1>1 DEF Walking, Sole
    <3>3. /\ DOMAIN paths' = 1..size /\ paths'[j] = orig[i]
          /\ \A k \in 1..size : k # j => paths'[k] = paths[k]
      BY <3>2, <3>1, <2>1
    <3>4. /\ moved.n = size /\ moved.i \in 1..(size + 1) /\ moved.j \in 1..moved.i
          /\ pathCount' = size - (moved.i - moved.j)
      <4> HIDE DEF i, j
      <4> QED
        BY <1>1, <1>3, <2>1, <3>1, <3>2
    <3>5. /\ \A k \in 1..(j - 1) : paths[k] # Invalid
          /\ \A k \in i..size : paths[k] = orig[k]
          /\ \A k \in 1..(i - 1) : orig[k] # Invalid => \E m \in 1..(j - 1) : paths[m] = orig[k]
      BY <3>1, Zenon DEF Walking
    <3> HIDE DEF i, j
    <3>6. /\ i \in Nat /\ j \in Nat /\ size \in Nat /\ 1 <= j /\ j <= i /\ i <= size
          /\ moved.i = i + 1 /\ moved.i - 1 = i /\ moved.j - 1 = j
      <4>1. i \in Nat /\ j \in Nat /\ size \in Nat /\ i \in 1..size /\ j \in 1..i
        BY <1>1, <3>1, <3>2, Zenon
      <4>2. moved.i = i + 1 /\ moved.j = j + 1
        BY <1>3, Zenon
      <4>3. 1 <= j /\ j <= i /\ i <= size /\ (i + 1) - 1 = i /\ (j + 1) - 1 = j
        BY <4>1
      <4> QED
        BY <4>1, <4>2, <4>3, Zenon
    <3>7. \A k \in 1..(moved.j - 1) : paths'[k] # Invalid
      <4>1. ASSUME NEW k \in 1..j PROVE paths'[k] # Invalid
        <5>1. CASE k = j
          BY <5>1, <1>7, <3>2, <3>3, Zenon
        <5>2. CASE k # j
          <6>1. k \in 1..(j - 1) /\ k \in 1..size
            BY <5>2, <3>6
          <6> QED
            BY <6>1, <5>2, <3>5, <3>3, Zenon
        <5> QED
          BY <5>1, <5>2, Zenon
      <4> QED
        BY <3>6, <4>1, Zenon
    <3>8. \A k \in moved.i..size : paths'[k] = orig[k]
      <4>1. ASSUME NEW k \in (i + 1)..size PROVE paths'[k] = orig[k]
        <5>1. k \in i..size /\ k \in 1..size /\ k # j
          BY <3>6
        <5> QED
          BY <5>1, <3>5, <3>3, Zenon
      <4> QED
        BY <3>6, <4>1, Zenon
    <3>9. \A k \in 1..(moved.i - 1) : orig[k] # Invalid => \E m \in 1..(moved.j - 1) : paths'[m] = orig[k]
      <4>1. ASSUME NEW k \in 1..i, orig[k] # Invalid PROVE \E m \in 1..j : paths'[m] = orig[k]
        <5>1. CASE k = i
          <6>1. j \in 1..j
            BY <3>6
          <6> QED
            BY <6>1, <5>1, <3>3, Zenon
        <5>2. CASE k # i
          <6>1. k \in 1..(i - 1)
            BY <5>2, <3>6
          <6>2. PICK m \in 1..(j - 1) : paths[m] = orig[k]
            BY <6>1, <4>1, <3>5, Zenon
          <6>3. m \in 1..j /\ m \in 1..size /\ m # j
            BY <3>6
          <6> QED
            BY <6>2, <6>3, <3>3, Zenon
        <5> QED
          BY <5>1, <5>2, Zenon
      <4> QED
        BY <3>6, <4>1, Zenon
    <3>10. Walking(call[c])'
      BY <1>4, <2>2, <3>4, <3>7, <3>8, <3>9 DEF Walking
    <3>11. Stage(c)'
      BY <1>3, <1>4, <2>2, <3>10 DEF Stage
    <3> QED
      BY <1>4, <3>1, <3>3, <3>11, Zenon DEF Sole
  <2> QED
    BY <2>3, <2>4 DEF IInv
<1>8. CASE paths[i] = Invalid
  <2>1. paths' = paths /\ pathCount' = Decrement(pathCount) /\ Becomes(c, skipped)
    BY <1>8, Zenon DEF Walk, skipped
  <2>2. /\ call' \in [Callers -> Call] /\ call'[c] = skipped
        /\ \A d \in Callers : d # c => call'[d] = call[d]
    BY <1>2, <2>1, UpdateCall, Zenon DEF IInv
  <2>3. pathCount' \in Nat
    BY <2>1, DecrementNat, Zenon DEF IInv, Weak
  <2>4. Weak'
    BY <1>3, <1>4, <1>5, <2>2, <2>3 DEF IInv, Weak
  <2>5. ASSUME Alone' PROVE Sole'
    <3>1. Sole /\ fixers = {c} /\ Walking(call[c]) /\ i <= size /\ size \in Nat /\ size < 256
      BY <1>6, <2>5, Zenon DEF IInv, Weak
    <3>2. /\ i \in 1..size /\ j \in 1..i /\ pathCount = size - (i - j) /\ call[c].n = size
          /\ paths[i] = orig[i] /\ DOMAIN paths = 1..size
      BY <3>1, <1>1 DEF Walking, Sole
    <3>3. pathCount' = pathCount - 1
      <4>1. pathCount \in 1..255
        <5>1. size \in Nat /\ size < 256 /\ i \in 1..size /\ j \in 1..i /\ pathCount = size - (i - j)
          BY <3>1, <3>2, Zenon
        <5> HIDE DEF i, j
        <5>2. \A s \in Nat : \A x \in 1..s : \A y \in 1..x : s < 256 => s - (x - y) \in 1..255
          OBVIOUS
        <5> QED
          BY <5>1, <5>2
      <4> QED
        BY <4>1, <2>1, DecrementByOne, Zenon
    <3>4. /\ skipped.n = size /\ skipped.i \in 1..(size + 1) /\ skipped.j \in 1..skipped.i
          /\ pathCount' = size - (skipped.i - skipped.j)
      <4> HIDE DEF i, j
      <4> QED
        BY <1>1, <1>3, <3>1, <3>2, <3>3
    <3>5. \A k \in 1..(skipped.j - 1) : paths'[k] # Invalid
      BY <1>3, <2>1, <3>1, Zenon DEF Walking
    <3>6. \A k \in skipped.i..size : paths'[k] = orig[k]
      BY <1>1, <1>3, <2>1, <3>1, <3>2 DEF Walking
    <3>7. ASSUME NEW k \in 1..(skipped.i - 1), orig[k] # Invalid
          PROVE  \E m \in 1..(skipped.j - 1) : paths'[m] = orig[k]
      <4>1. k \in 1..(i - 1)
        BY <1>1, <1>3, <1>8, <3>2, <3>7
      <4> QED
        BY <4>1, <1>3, <2>1, <3>1, <3>7, Zenon DEF Walking
    <3>8. Walking(call[c])'
      BY <1>4, <2>2, <3>4, <3>5, <3>6, <3>7, Zenon DEF Walking
    <3>9. Stage(c)'
      BY <1>3, <1>4, <2>2, <3>8, Zenon DEF Stage
    <3> QED
      BY <1>4, <2>1, <3>1, <3>2, <3>9 DEF Sole
  <2> QED
    BY <2>4, <2>5 DEF IInv
<1> QED
  BY <1>7, <1>8, Zenon

(* The end of the loop: the walk has covered the table.                    *)
LEMMA WalkEndsIInv == ASSUME IInv, NEW c \in Callers, WalkEnds(c) PROVE IInv'
<1> DEFINE r == [call[c] EXCEPT !.pc = "org"]
<1>1. call[c] \in Call
  BY DEF IInv, Weak
<1>2. r \in Call /\ r.pc = "org"
  BY <1>1, Zenon DEF Call
<1>3. /\ call' \in [Callers -> Call] /\ call'[c] = r
      /\ \A d \in Callers : d # c => call'[d] = call[d]
  BY <1>2, UpdateCall, Zenon DEF IInv, WalkEnds
<1>4. /\ call[c].pc = "walk" /\ call[c].i > call[c].n
      /\ UNCHANGED <<size, orig, known, paths, pathCount, fixedVBIOS, fixers>>
  BY Zenon DEF WalkEnds, table
<1>5. c \in fixers
  BY <1>4, Zenon DEF IInv, Weak
<1>6. Weak'
  BY <1>2, <1>3, <1>4, <1>5, Zenon DEF IInv, Weak
<1>7. ASSUME Alone' PROVE Sole'
  <2>1. Sole /\ fixers = {c} /\ Walking(call[c]) /\ size \in Nat
    BY <1>4, <1>5, <1>7 DEF Alone, IInv, Sole, Stage, Weak
  <2>2. call[c].i = size + 1 /\ call[c].j \in 1..(size + 1) /\ pathCount = call[c].j - 1
    BY <1>1, <1>4, <2>1 DEF Walking, Call
  <2>3. Good
    BY <2>1, <2>2 DEF Walking, Good
  <2>4. Stage(c)'
    BY <1>2, <1>3, <1>4, <2>3 DEF Stage, Good
  <2> QED
    BY <1>4, <2>1, <2>4, Zenon DEF Sole
<1> QED
  BY <1>6, <1>7 DEF IInv

(* Counting the table changes nothing but the caller's result.             *)
LEMMA OriginalIInv == ASSUME IInv, NEW c \in Callers, Original(c) PROVE IInv'
<1> DEFINE r == [call[c] EXCEPT !.pc = "idle", !.count = pathCount]
<1>1. call[c] \in Call
  BY DEF IInv, Weak
<1>2. r \in Call /\ r.pc = "idle"
  BY <1>1, Zenon DEF Call, IInv, Weak
<1>3. /\ call' \in [Callers -> Call] /\ call'[c] = r
      /\ \A d \in Callers : d # c => call'[d] = call[d]
  BY <1>2, UpdateCall, Zenon DEF IInv, Original
<1>4. /\ call[c].pc = "org"
      /\ UNCHANGED <<size, orig, known, paths, pathCount, fixedVBIOS, fixers>>
  BY Zenon DEF Original, table
<1>5. Weak'
  BY <1>2, <1>3, <1>4, Zenon DEF IInv, Weak
<1>6. ASSUME Alone' PROVE Sole'
  <2>1. Sole
    BY <1>4, <1>6, Zenon DEF Alone, IInv
  <2>2. ASSUME NEW d \in fixers PROVE Stage(d)'
    <3>1. Stage(d) /\ d \in Callers
      BY <2>1, <2>2 DEF Sole, IInv, Weak
    <3>2. \/ call'[d] = call[d]
          \/ call[d].pc \in {"idle", "org"} /\ call'[d].pc \in {"idle", "org"}
      BY <1>2, <1>3, <1>4, <3>1, Zenon
    <3> QED
      BY <1>4, <3>1, <3>2, StageKept, Zenon
  <2> QED
    BY <1>4, <2>1, <2>2, Zenon DEF Sole
<1> QED
  BY <1>5, <1>6 DEF IInv

(* Every step of every call preserves the invariant.                       *)
LEMMA NextIInv == IInv /\ [Next]_vars => IInv'
<1> SUFFICES ASSUME IInv, [Next]_vars PROVE IInv'
  OBVIOUS
<1>1. CASE Next
  BY <1>1, CheckIInv, SetFlagIInv, WalkIInv, WalkEndsIInv, OriginalIInv DEF Next
<1>2. CASE UNCHANGED vars
  BY <1>2 DEF vars, table, IInv, Weak, Alone, Sole, Stage, Walking, Good
<1> QED
  BY <1>1, <1>2, Zenon

-------------------------------------------------------------------------------
(* The paths with a tag among the first k are finitely many.               *)
LEMMA RankIsCount ==
  ASSUME NEW t, NEW k \in Nat
  PROVE  IsFiniteSet({m \in 1..k : t[m] # Invalid}) /\ Rank(t, k) \in Nat
<1>1. IsFiniteSet(1..k)
  BY FS_Interval
<1>2. {m \in 1..k : t[m] # Invalid} \in SUBSET (1..k)
  OBVIOUS
<1>3. IsFiniteSet({m \in 1..k : t[m] # Invalid})
  BY <1>1, <1>2, FS_Subset, Zenon
<1> QED
  BY <1>3, FS_CardinalityType, Zenon DEF Rank

(* No path is ranked before the first.                                     *)
LEMMA RankZero == ASSUME NEW t PROVE Rank(t, 0) = 0
<1>1. {m \in 1..0 : t[m] # Invalid} = {}
  OBVIOUS
<1> QED
  BY <1>1, FS_EmptySet, Zenon DEF Rank

(* A path with a tag is one more, a path without one none.                 *)
LEMMA RankNext ==
  ASSUME NEW t, NEW k \in Nat
  PROVE  Rank(t, k + 1) = IF t[k + 1] # Invalid THEN Rank(t, k) + 1 ELSE Rank(t, k)
<1> DEFINE S == {m \in 1..k : t[m] # Invalid}
           T == {m \in 1..(k + 1) : t[m] # Invalid}
<1>1. IsFiniteSet(S)
  BY RankIsCount, Zenon
<1>2. CASE t[k + 1] # Invalid
  <2>1. T = S \cup {k + 1} /\ k + 1 \notin S
    BY <1>2
  <2>2. Cardinality(S \cup {k + 1}) = Cardinality(S) + 1
    BY <1>1, <2>1, FS_AddElement, Zenon
  <2> QED
    BY <1>2, <2>1, <2>2, Zenon DEF Rank
<1>3. CASE ~ t[k + 1] # Invalid
  <2>1. T = S
    BY <1>3
  <2> QED
    BY <1>3, <2>1, Zenon DEF Rank
<1> QED
  BY <1>2, <1>3, Zenon

(* A longer part of the table has no fewer paths with a tag, and at most   *)
(* as many more as it is longer.                                           *)
LEMMA RankGrows ==
  ASSUME NEW t, NEW k \in Nat, NEW n \in Nat, k <= n
  PROVE  Rank(t, k) <= Rank(t, n) /\ Rank(t, n) <= Rank(t, k) + (n - k)
<1> DEFINE S == {m \in 1..k : t[m] # Invalid}
           T == {m \in 1..n : t[m] # Invalid}
           R == (k + 1)..n
<1>1. IsFiniteSet(S) /\ IsFiniteSet(T) /\ Cardinality(S) \in Nat /\ Cardinality(T) \in Nat
  BY RankIsCount, Zenon DEF Rank
<1>2. S \in SUBSET T
  OBVIOUS
<1>3. Cardinality(S) <= Cardinality(T)
  BY <1>1, <1>2, FS_Subset, Zenon
<1>4. IsFiniteSet(R) /\ Cardinality(R) = n - k
  <2>1. k + 1 \in Int /\ n \in Int
    OBVIOUS
  <2>2. IsFiniteSet(R) /\ Cardinality(R) = IF k + 1 > n THEN 0 ELSE n - (k + 1) + 1
    BY <2>1, FS_Interval, Zenon
  <2> QED
    BY <2>2
<1>5. T \ S \in SUBSET R
  OBVIOUS
<1>6. IsFiniteSet(T \ S) /\ Cardinality(T \ S) <= n - k
  BY <1>4, <1>5, FS_Subset
<1>7. Cardinality(T \ S) = Cardinality(T) - Cardinality(S)
  <2>1. T \cap S = S
    BY <1>2, Zenon
  <2>2. Cardinality(T \ S) = Cardinality(T) - Cardinality(T \cap S)
    BY <1>1, FS_Difference, Zenon
  <2> QED
    BY <2>1, <2>2, Zenon
<1> HIDE DEF S, T, R
<1>8. Cardinality(T) <= Cardinality(S) + (n - k)
  BY <1>1, <1>6, <1>7
<1> QED
  BY <1>3, <1>8, Zenon DEF Rank, S, T

-------------------------------------------------------------------------------
(* The connected paths among the first n of the VBIOS are where their rank *)
(* puts them.                                                              *)
Placed(n) == \A k \in 1..n : orig[k] # Invalid => paths[Rank(orig, k)] = orig[k]

(* While it walks, a fixer has ranked and placed the paths before i; when  *)
(* it is done, all of them.                                                *)
Ranked(c) ==
  /\ call[c].pc = "walk" => call[c].j = Rank(orig, call[c].i - 1) + 1 /\ Placed(call[c].i - 1)
  /\ call[c].pc \in {"idle", "org"} => pathCount = Rank(orig, size) /\ Placed(size)

OrderInv == Alone /\ known => \A c \in fixers : Ranked(c)

(* As StageKept, for the order of the paths.                               *)
LEMMA RankedKept ==
  ASSUME UNCHANGED <<size, orig, known, paths, pathCount>>, NEW d, Ranked(d),
         \/ call'[d] = call[d]
         \/ call[d].pc \in {"idle", "org"} /\ call'[d].pc \in {"idle", "org"}
  PROVE  Ranked(d)'
<1>1. CASE call'[d] = call[d]
  BY <1>1, Zenon DEF Ranked, Placed
<1>2. CASE call[d].pc \in {"idle", "org"} /\ call'[d].pc \in {"idle", "org"}
  BY <1>2, Zenon DEF Ranked, Placed
<1> QED
  BY <1>1, <1>2

(* What the test of the flag does to the record of its caller.             *)
LEMMA CheckMoves ==
  ASSUME IInv, NEW c \in Callers, Check(c)
  PROVE  /\ call[c].pc = "idle" /\ UNCHANGED <<size, orig, known, paths, pathCount, fixedVBIOS>>
         /\ \A d \in Callers : d # c => call'[d] = call[d]
         /\ call'[c].pc = (IF fixedVBIOS THEN "org" ELSE "set") /\ call'[c].late = Finished
         /\ fixers' = IF fixedVBIOS THEN fixers ELSE fixers \cup {c}
<1> DEFINE r == [Idle EXCEPT !.pc = IF fixedVBIOS THEN "org" ELSE "set", !.late = Finished]
<1>1. Finished \in BOOLEAN
  BY DEF Finished
<1>2. r \in Call /\ r.pc = (IF fixedVBIOS THEN "org" ELSE "set") /\ r.late = Finished
  BY <1>1, Zenon DEF Idle, Call
<1>3. call'[c] = r /\ \A d \in Callers : d # c => call'[d] = call[d]
  BY <1>2, UpdateCall, Zenon DEF IInv, Check
<1> QED
  BY <1>2, <1>3, Zenon DEF Check, table

(* What setting the flag does to it.                                       *)
LEMMA SetFlagMoves ==
  ASSUME IInv, NEW c \in Callers, SetFlag(c)
  PROVE  /\ call[c].pc = "set" /\ UNCHANGED <<size, orig, known, paths, pathCount, fixers>>
         /\ \A d \in Callers : d # c => call'[d] = call[d]
         /\ call'[c].pc = (IF known THEN "walk" ELSE "org") /\ call'[c].late = call[c].late
         /\ call'[c].i = call[c].i /\ call'[c].j = call[c].j /\ c \in fixers
<1> DEFINE r == [call[c] EXCEPT !.pc = IF known THEN "walk" ELSE "org", !.n = pathCount]
<1>1. call[c] \in Call /\ pathCount \in Nat
  BY Zenon DEF IInv, Weak
<1>2. /\ r \in Call /\ r.pc = (IF known THEN "walk" ELSE "org") /\ r.late = call[c].late
      /\ r.i = call[c].i /\ r.j = call[c].j
  BY <1>1, Zenon DEF Call
<1>3. call'[c] = r /\ \A d \in Callers : d # c => call'[d] = call[d]
  BY <1>2, UpdateCall, Zenon DEF IInv, SetFlag
<1>4. call[c].pc = "set" /\ UNCHANGED <<size, orig, known, paths, pathCount, fixers>>
  BY Zenon DEF SetFlag, table
<1> QED
  BY <1>2, <1>3, <1>4, Zenon DEF IInv, Weak

(* What a turn of the loop does to it and to the table.                    *)
LEMMA WalkMoves ==
  ASSUME IInv, NEW c \in Callers, Walk(c)
  PROVE  /\ call[c].pc = "walk" /\ call[c].i <= call[c].n
         /\ UNCHANGED <<size, orig, known, fixedVBIOS, fixers>>
         /\ \A d \in Callers : d # c => call'[d] = call[d]
         /\ call'[c].pc = "walk" /\ call'[c].late = call[c].late /\ c \in fixers
         /\ call'[c].i = call[c].i + 1
         /\ \/ /\ paths[call[c].i] # Invalid /\ call'[c].j = call[c].j + 1
               /\ paths' = [paths EXCEPT ![call[c].j] = paths[call[c].i]]
            \/ /\ paths[call[c].i] = Invalid /\ call'[c].j = call[c].j
               /\ paths' = paths
<1> DEFINE moved == [call[c] EXCEPT !.i = call[c].i + 1, !.j = call[c].j + 1]
           skipped == [call[c] EXCEPT !.i = call[c].i + 1]
<1>1. call[c] \in Call
  BY DEF IInv, Weak
<1>2. /\ moved.pc = call[c].pc /\ moved.late = call[c].late
      /\ moved.i = call[c].i + 1 /\ moved.j = call[c].j + 1
      /\ skipped.pc = call[c].pc /\ skipped.late = call[c].late
      /\ skipped.i = call[c].i + 1 /\ skipped.j = call[c].j
  BY <1>1, Zenon DEF Call
<1>3. moved \in Call /\ skipped \in Call
  <2>1. PICK i \in Nat, j \in Nat : i = call[c].i /\ j = call[c].j
    BY <1>1, Zenon DEF Call
  <2>2. i + 1 \in Nat /\ j + 1 \in Nat
    OBVIOUS
  <2>3. [call[c] EXCEPT !.i = i + 1, !.j = j + 1] \in Call /\ [call[c] EXCEPT !.i = i + 1] \in Call
    BY <1>1, <2>2, Zenon DEF Call
  <2> QED
    BY <2>1, <2>3, Zenon
<1>4. call[c].pc = "walk" /\ call[c].i <= call[c].n /\ UNCHANGED <<size, orig, known, fixedVBIOS, fixers>>
  BY Zenon DEF Walk, table
<1>5. c \in fixers
  BY <1>4, Zenon DEF IInv, Weak
<1>6. \/ Becomes(c, moved) /\ paths[call[c].i] # Invalid /\ paths' = [paths EXCEPT ![call[c].j] = paths[call[c].i]]
      \/ Becomes(c, skipped) /\ paths[call[c].i] = Invalid /\ paths' = paths
  BY Zenon DEF Walk
<1> HIDE DEF moved, skipped
<1>7. /\ Becomes(c, moved) => call'[c] = moved /\ \A d \in Callers : d # c => call'[d] = call[d]
      /\ Becomes(c, skipped) => call'[c] = skipped /\ \A d \in Callers : d # c => call'[d] = call[d]
  BY <1>3, UpdateCall, Zenon DEF IInv
<1> QED
  BY <1>2, <1>4, <1>5, <1>6, <1>7, Zenon

(* What the end of the loop does to it.                                    *)
LEMMA WalkEndsMoves ==
  ASSUME IInv, NEW c \in Callers, WalkEnds(c)
  PROVE  /\ call[c].pc = "walk" /\ call[c].i > call[c].n
         /\ UNCHANGED <<size, orig, known, paths, pathCount, fixedVBIOS, fixers>>
         /\ \A d \in Callers : d # c => call'[d] = call[d]
         /\ call'[c].pc = "org" /\ call'[c].late = call[c].late /\ c \in fixers
<1> DEFINE r == [call[c] EXCEPT !.pc = "org"]
<1>1. call[c] \in Call
  BY DEF IInv, Weak
<1>2. r \in Call /\ r.pc = "org" /\ r.late = call[c].late
  BY <1>1, Zenon DEF Call
<1>3. call'[c] = r /\ \A d \in Callers : d # c => call'[d] = call[d]
  BY <1>2, UpdateCall, Zenon DEF IInv, WalkEnds
<1>4. call[c].pc = "walk" /\ call[c].i > call[c].n
      /\ UNCHANGED <<size, orig, known, paths, pathCount, fixedVBIOS, fixers>>
  BY Zenon DEF WalkEnds, table
<1> QED
  BY <1>2, <1>3, <1>4 DEF IInv, Weak

(* What the original function does to it.                                  *)
LEMMA OriginalMoves ==
  ASSUME IInv, NEW c \in Callers, Original(c)
  PROVE  /\ call[c].pc = "org"
         /\ UNCHANGED <<size, orig, known, paths, pathCount, fixedVBIOS, fixers>>
         /\ \A d \in Callers : d # c => call'[d] = call[d]
         /\ call'[c].pc = "idle" /\ call'[c].late = call[c].late /\ call'[c].count = pathCount
<1> DEFINE r == [call[c] EXCEPT !.pc = "idle", !.count = pathCount]
<1>1. call[c] \in Call /\ pathCount \in Nat
  BY DEF IInv, Weak
<1>2. r \in Call /\ r.pc = "idle" /\ r.late = call[c].late /\ r.count = pathCount
  BY <1>1, Zenon DEF Call
<1>3. call'[c] = r /\ \A d \in Callers : d # c => call'[d] = call[d]
  BY <1>2, UpdateCall, Zenon DEF IInv, Original
<1> QED
  BY <1>2, <1>3, Zenon DEF Original, table

-------------------------------------------------------------------------------
(* A turn of the only fixer's walk ranks and places one more path.         *)
LEMMA WalkRanks ==
  ASSUME IInv, NEW c \in Callers, Walk(c), Walking(call[c]), Ranked(c), DOMAIN paths = 1..size
  PROVE  Ranked(c)'
<1>1. PICK i \in Nat, j \in Nat : i = call[c].i /\ j = call[c].j
  BY DEF IInv, Weak, Call
<1>2. size \in Nat /\ i \in 1..size /\ j \in 1..i /\ paths[i] = orig[i]
  <2>1. size \in Nat /\ i <= size /\ i \in 1..(size + 1) /\ j \in 1..i
    BY <1>1, WalkMoves DEF Walking, IInv, Weak
  <2>2. i \in 1..size /\ i \in i..size
    BY <2>1
  <2> QED
    BY <1>1, <2>1, <2>2, Zenon DEF Walking
<1>3. /\ call[c].pc = "walk" /\ call'[c].pc = "walk" /\ orig' = orig /\ call'[c].i = i + 1
      /\ \/ orig[i] # Invalid /\ call'[c].j = j + 1 /\ paths' = [paths EXCEPT ![j] = orig[i]]
         \/ orig[i] = Invalid /\ call'[c].j = j /\ paths' = paths
  BY <1>1, <1>2, WalkMoves
<1>4. PICK p \in Nat : p + 1 = i /\ i - 1 = p /\ (i + 1) - 1 = i
  BY <1>2
<1>5. j = Rank(orig, p) + 1 /\ Placed(p)
  BY <1>1, <1>3, <1>4 DEF Ranked
<1>6. /\ Rank(orig, p) \in Nat
      /\ Rank(orig, i) = IF orig[i] # Invalid THEN Rank(orig, p) + 1 ELSE Rank(orig, p)
  BY <1>4, RankNext, RankIsCount, Zenon
<1>7. CASE orig[i] # Invalid
  <2>1. call'[c].j = j + 1 /\ paths' = [paths EXCEPT ![j] = orig[i]] /\ Rank(orig, i) = j
    BY <1>3, <1>5, <1>6, <1>7, Zenon
  <2>2. paths'[j] = orig[i] /\ \A m \in 1..size : m # j => paths'[m] = paths[m]
    <3>1. j \in 1..size
      BY <1>2
    <3> QED
      BY <2>1, <3>1, Zenon
  <2>3. ASSUME NEW k \in 1..i, orig[k] # Invalid PROVE paths'[Rank(orig, k)] = orig[k]
    <3>1. CASE k = i
      BY <2>1, <2>2, <3>1, Zenon
    <3>2. CASE k # i
      <4>1. k \in 1..p /\ k \in Nat /\ k <= p
        BY <1>4, <3>2
      <4>2. PICK q \in Nat : q + 1 = k
        <5>1. k - 1 \in Nat /\ (k - 1) + 1 = k
          BY <4>1
        <5> QED
          BY <5>1, Zenon
      <4>3. PICK x \in Nat, y \in Nat, z \in Nat :
                   x = Rank(orig, q) /\ y = Rank(orig, k) /\ z = Rank(orig, p)
        BY <4>1, RankIsCount, Zenon
      <4>4. y = x + 1 /\ y <= z
        BY <2>3, <4>1, <4>2, <4>3, RankNext, RankGrows, Zenon
      <4>5. y # j /\ y \in 1..size
        BY <1>2, <1>5, <4>3, <4>4
      <4>6. paths[y] = orig[k]
        BY <1>5, <2>3, <4>1, <4>3 DEF Placed
      <4> QED
        BY <2>2, <4>3, <4>5, <4>6, Zenon
    <3> QED
      BY <3>1, <3>2, Zenon
  <2> QED
    BY <1>3, <1>4, <2>1, <2>3 DEF Ranked, Placed
<1>8. CASE ~ orig[i] # Invalid
  <2>1. call'[c].j = j /\ paths' = paths /\ j = Rank(orig, i) + 1
    BY <1>3, <1>5, <1>6, <1>8
  <2>2. ASSUME NEW k \in 1..i, orig[k] # Invalid PROVE paths'[Rank(orig, k)] = orig[k]
    <3>1. k \in 1..p
      BY <1>4, <1>8, <2>2
    <3> QED
      BY <1>5, <2>1, <2>2, <3>1 DEF Placed
  <2> QED
    BY <1>3, <1>4, <2>1, <2>2 DEF Ranked, Placed
<1> QED
  BY <1>7, <1>8, Zenon

(* A table nobody has touched is in order.                                 *)
LEMMA InitOrder == Init => OrderInv
BY Zenon DEF Init, OrderInv

(* Every step of every call keeps the order.                               *)
LEMMA NextOrder == IInv /\ OrderInv /\ [Next]_vars => OrderInv'
<1> SUFFICES ASSUME IInv, OrderInv, [Next]_vars, Alone', known' PROVE \A d \in fixers' : Ranked(d)'
  BY Zenon DEF OrderInv
<1>1. \A d \in fixers : d \in Callers
  BY DEF IInv, Weak
<1>2. ASSUME NEW c \in Callers, Check(c) PROVE \A d \in fixers' : Ranked(d)'
  <2>1. CASE fixedVBIOS
    <3>1. fixers' = fixers /\ call[c].pc = "idle" /\ call'[c].pc = "org"
      BY <1>2, <2>1, CheckMoves, Zenon
    <3>2. \A d \in fixers : Ranked(d)
      BY <1>2, <3>1, CheckMoves, Zenon DEF OrderInv, Alone
    <3> QED
      BY <1>1, <1>2, <3>1, <3>2, CheckMoves, RankedKept, Zenon
  <2>2. CASE ~fixedVBIOS
    <3>1. fixers' = fixers \cup {c} /\ call'[c].pc = "set"
      BY <1>2, <2>2, CheckMoves, Zenon
    <3>2. fixers' = {c}
      BY <3>1, Zenon DEF Alone
    <3> QED
      BY <3>1, <3>2, Zenon DEF Ranked
  <2> QED
    BY <2>1, <2>2, Zenon
<1>3. ASSUME NEW c \in Callers, c \in fixers, UNCHANGED <<fixers, known>>
      PROVE  Alone /\ known /\ fixers = {c} /\ Sole /\ Stage(c) /\ Ranked(c)
  <2>1. Alone /\ known /\ fixers = {c}
    BY <1>3, Zenon DEF Alone
  <2> QED
    BY <2>1, Zenon DEF IInv, Sole, OrderInv
<1>4. ASSUME NEW c \in Callers, SetFlag(c) PROVE \A d \in fixers' : Ranked(d)'
  <2>1. fixers' = {c} /\ Stage(c) /\ known
    BY <1>3, <1>4, SetFlagMoves, Zenon
  <2>2. call'[c].pc = "walk" /\ call'[c].i = 1 /\ call'[c].j = 1
    BY <1>4, <2>1, SetFlagMoves DEF Stage
  <2>3. Rank(orig', 0) = 0
    BY RankZero, Zenon
  <2>4. call'[c].i - 1 = 0 /\ call'[c].j = Rank(orig', call'[c].i - 1) + 1 /\ 1..0 = {}
    BY <2>2, <2>3
  <2> QED
    BY <2>1, <2>2, <2>4 DEF Ranked, Placed
<1>5. ASSUME NEW c \in Callers, Walk(c) PROVE \A d \in fixers' : Ranked(d)'
  <2>1. fixers' = {c} /\ Sole /\ Stage(c) /\ Ranked(c) /\ call[c].pc = "walk"
    BY <1>3, <1>5, WalkMoves, Zenon
  <2> QED
    BY <1>5, <2>1, WalkRanks DEF Stage, Sole
<1>6. ASSUME NEW c \in Callers, WalkEnds(c) PROVE \A d \in fixers' : Ranked(d)'
  <2>1. fixers' = {c} /\ Stage(c) /\ Ranked(c) /\ call[c].pc = "walk" /\ call'[c].pc = "org"
        /\ UNCHANGED <<orig, size, paths, pathCount>>
    BY <1>3, <1>6, WalkEndsMoves, Zenon
  <2>2. Walking(call[c]) /\ call[c].i > call[c].n /\ size \in Nat
    BY <1>6, <2>1, WalkEndsMoves, Zenon DEF Stage, IInv, Weak
  <2>3. PICK i \in Nat, j \in Nat : i = call[c].i /\ j = call[c].j
    BY Zenon DEF IInv, Weak, Call
  <2>4. i - 1 = size /\ pathCount = j - 1
    BY <2>2, <2>3 DEF Walking
  <2>5. j = Rank(orig, size) + 1 /\ Placed(size)
    BY <2>1, <2>3, <2>4, Zenon DEF Ranked
  <2>6. pathCount = Rank(orig, size)
    <3>1. PICK x \in Nat : x = Rank(orig, size)
      BY <2>2, RankIsCount, Zenon
    <3>2. j = x + 1
      BY <2>5, <3>1, Zenon
    <3> QED
      BY <2>4, <3>1, <3>2
  <2>7. pathCount' = Rank(orig', size') /\ Placed(size)'
    BY <2>1, <2>5, <2>6, Zenon DEF Placed
  <2> QED
    BY <2>1, <2>7, Zenon DEF Ranked
<1>7. ASSUME NEW c \in Callers, Original(c) PROVE \A d \in fixers' : Ranked(d)'
  <2>1. fixers' = fixers /\ call[c].pc = "org" /\ call'[c].pc = "idle"
    BY <1>7, OriginalMoves, Zenon
  <2>2. \A d \in fixers : Ranked(d)
    BY <1>7, <2>1, OriginalMoves, Zenon DEF OrderInv, Alone
  <2> QED
    BY <1>1, <1>7, <2>1, <2>2, OriginalMoves, RankedKept, Zenon
<1>8. CASE UNCHANGED vars
  BY <1>8, Zenon DEF vars, table, OrderInv, Alone, Ranked, Placed
<1> QED
  BY <1>2, <1>4, <1>5, <1>6, <1>7, <1>8 DEF Next

(* Whatever the size of the table and the number of callers: the walk of   *)
(* the only fixer leaves the connected paths in the order of the VBIOS,    *)
(* each of them once, and counts them exactly.                             *)
THEOREM ConnectorsInOrder == Spec => []OrderIsKept
<1>1. IInv /\ OrderInv => OrderIsKept
  <2> SUFFICES ASSUME IInv, OrderInv, Alone, Finished, known
               PROVE  pathCount = Rank(orig, size) /\ Placed(size)
    BY Zenon DEF OrderIsKept, Placed
  <2>1. PICK c \in fixers : call[c].pc \notin {"set", "walk"}
    BY Zenon DEF Finished
  <2>2. call[c].pc \in {"idle", "org"}
    BY <2>1, Zenon DEF IInv, Weak, Call
  <2> QED
    BY <2>2, Zenon DEF OrderInv, Ranked
<1> QED
  BY <1>1, InitIInv, NextIInv, InitOrder, NextOrder, PTL DEF Spec

-------------------------------------------------------------------------------
(* A call that has returned was told a count between the connectors and    *)
(* the size of the table, a late one the connectors.                       *)
Told(r) ==
  \/ r = Idle
  \/ r.count \in Rank(orig, size)..size /\ (r.late => r.count = Rank(orig, size))

(* A call is late only if the walk is over, and it stays over.             *)
CountInv ==
  Alone /\ known => \A c \in Callers : (call[c].late => Finished) /\ (call[c].pc = "idle" => Told(call[c]))

(* At every moment of a sole fixer's walk the count is between the number  *)
(* of connectors and the size of the table; after it, it is that number.   *)
LEMMA PathCountBounds ==
  ASSUME IInv, OrderInv, Alone, known
  PROVE  /\ pathCount \in Rank(orig, size)..size
         /\ Finished => pathCount = Rank(orig, size)
<1>1. PICK s \in Nat, x \in Nat : s = size /\ x = Rank(orig, size)
  BY RankIsCount, Zenon DEF IInv, Weak
<1>2. 0 <= x /\ x <= s
  <2>1. Rank(orig, 0) = 0 /\ Rank(orig, s) <= Rank(orig, 0) + (s - 0)
    BY RankZero, RankGrows
  <2> QED
    BY <1>1, <2>1
<1>3. ASSUME NEW c \in fixers, call[c].pc \in {"idle", "org"} PROVE pathCount = x
  BY <1>1, <1>3, Zenon DEF OrderInv, Ranked
<1>4. Finished => pathCount = x
  BY <1>3, Zenon DEF Finished, IInv, Weak, Call
<1>5. Sole /\ \A c \in fixers : c \in Callers /\ call[c].pc \in {"idle", "set", "walk", "org"}
  BY Zenon DEF IInv, Weak, Call
<1>6. pathCount \in x..s
  <2>1. CASE pathCount = s
    BY <1>2, <2>1
  <2>2. CASE pathCount = x
    BY <1>2, <2>2
  <2>3. ASSUME NEW c \in fixers, call[c].pc = "walk" PROVE pathCount \in x..s
    <3>1. Walking(call[c]) /\ Ranked(c)
      BY <1>5, <2>3, Zenon DEF Sole, Stage, OrderInv
    <3>2. PICK i \in Nat, j \in Nat : i = call[c].i /\ j = call[c].j
      BY <1>5, Zenon DEF IInv, Weak, Call
    <3>3. i \in 1..(s + 1) /\ j \in 1..i /\ pathCount = s - (i - j)
      BY <1>1, <3>1, <3>2 DEF Walking
    <3>4. PICK p \in Nat : p + 1 = i /\ i - 1 = p /\ p <= s
      BY <3>3
    <3>5. PICK y \in Nat : y = Rank(orig, p)
      BY RankIsCount, Zenon
    <3>6. j = y + 1
      BY <2>3, <3>1, <3>2, <3>4, <3>5 DEF Ranked
    <3>7. x <= y + (s - p)
      BY <1>1, <3>4, <3>5, RankGrows
    <3> QED
      BY <3>3, <3>4, <3>6, <3>7
  <2>4. CASE fixers = {}
    BY <1>1, <1>5, <2>1, <2>4 DEF Sole
  <2>5. ASSUME NEW c \in fixers, call[c].pc = "set" PROVE pathCount = s
    BY <1>1, <1>5, <2>5 DEF Sole, Stage
  <2> QED
    BY <1>3, <1>5, <2>1, <2>2, <2>3, <2>4, <2>5
<1> QED
  BY <1>1, <1>4, <1>6, Zenon

(* Nobody has asked, so nobody was told anything.                          *)
LEMMA InitCount == Init => CountInv
BY DEF Init, CountInv, Told, Idle

(* Every step of every call keeps what was told, and the walk over.        *)
LEMMA NextCount == IInv /\ OrderInv /\ CountInv /\ [Next]_vars => CountInv'
<1> DEFINE Fine(c) == (call[c].late => Finished) /\ (call[c].pc = "idle" => Told(call[c]))
<1> SUFFICES ASSUME IInv, OrderInv, CountInv, [Next]_vars, Alone', known'
             PROVE  \A d \in Callers : Fine(d)'
  BY Zenon DEF CountInv
<1>1. \A d \in fixers : d \in Callers
  BY Zenon DEF IInv, Weak
<1>2. ASSUME fixers \subseteq fixers', UNCHANGED known PROVE Alone /\ known /\ \A d \in Callers : Fine(d)
  BY <1>2, Zenon DEF CountInv, Alone
<1>3. ASSUME NEW c \in Callers, Check(c) PROVE \A d \in Callers : Fine(d)'
  <2>1. \A d \in Callers : Fine(d)
    BY <1>2, <1>3, CheckMoves, Zenon
  <2>2. CASE fixedVBIOS
    <3>1. fixers' = fixers /\ call[c].pc = "idle" /\ call'[c].pc = "org" /\ UNCHANGED <<orig, size>>
          /\ (call'[c].late <=> Finished) /\ \A d \in Callers : d # c => call'[d] = call[d]
      BY <1>3, <2>2, CheckMoves, Zenon
    <3>2. Finished => Finished'
      BY <1>1, <3>1, Zenon DEF Finished
    <3> QED
      BY <2>1, <3>1, <3>2, Zenon DEF Told
  <2>3. CASE ~fixedVBIOS
    <3>1. ~Finished
      BY <2>3, Zenon DEF Finished, IInv, Weak
    <3>2. call'[c].pc = "set" /\ UNCHANGED <<orig, size>>
          /\ (call'[c].late <=> Finished) /\ \A d \in Callers : d # c => call'[d] = call[d]
      BY <1>3, <2>3, CheckMoves, Zenon
    <3> QED
      BY <2>1, <3>1, <3>2, Zenon DEF Told
  <2> QED
    BY <2>2, <2>3, Zenon
<1>4. ASSUME NEW c \in fixers, call[c].pc \in {"set", "walk"}, call'[c].pc # "idle",
             UNCHANGED <<orig, size, known, fixers>>, call'[c].late = call[c].late,
             \A d \in Callers : d # c => call'[d] = call[d]
      PROVE  \A d \in Callers : Fine(d)'
  <2>1. ~Finished
    BY <1>4, Zenon DEF Finished
  <2>2. \A d \in Callers : Fine(d)
    BY <1>2, <1>4, Zenon
  <2> QED
    BY <1>1, <1>4, <2>1, <2>2, Zenon DEF Told
<1>5. ASSUME NEW c \in Callers, SetFlag(c) PROVE \A d \in Callers : Fine(d)'
  BY <1>4, <1>5, SetFlagMoves, Zenon
<1>6. ASSUME NEW c \in Callers, Walk(c) PROVE \A d \in Callers : Fine(d)'
  BY <1>4, <1>6, WalkMoves, Zenon
<1>7. ASSUME NEW c \in Callers, WalkEnds(c) PROVE \A d \in Callers : Fine(d)'
  BY <1>4, <1>7, WalkEndsMoves, Zenon
<1>8. ASSUME NEW c \in Callers, Original(c) PROVE \A d \in Callers : Fine(d)'
  <2>1. /\ call[c].pc = "org" /\ call'[c].pc = "idle" /\ call'[c].late = call[c].late
        /\ call'[c].count = pathCount /\ UNCHANGED <<orig, size, known, fixers>>
        /\ \A d \in Callers : d # c => call'[d] = call[d]
    BY <1>8, OriginalMoves, Zenon
  <2>2. Alone /\ known /\ \A d \in Callers : Fine(d)
    BY <1>2, <2>1, Zenon
  <2>3. Finished => Finished'
    BY <1>1, <2>1 DEF Finished
  <2>4. /\ call'[c].count \in Rank(orig, size)..size
        /\ call'[c].late => call'[c].count = Rank(orig, size)
    BY <2>1, <2>2, PathCountBounds
  <2> QED
    BY <2>1, <2>2, <2>3, <2>4 DEF Told
<1>9. CASE UNCHANGED vars
  BY <1>2, <1>9, Zenon DEF vars, table, Finished, Told
<1> QED
  BY <1>3, <1>5, <1>6, <1>7, <1>8, <1>9, Zenon DEF Next

(* Whatever the size of the table and the number of callers: with one      *)
(* fixer, every caller is told at least the number of connectors and at    *)
(* most the size of the table, and one that comes after the walk exactly   *)
(* the number of connectors.                                               *)
THEOREM CallersAreTold == Spec => []CountsAreBounded
<1>1. CountInv => CountsAreBounded
  BY Zenon DEF CountInv, CountsAreBounded, Told
<1> QED
  BY <1>1, InitIInv, NextIInv, InitOrder, NextOrder, InitCount, NextCount, PTL DEF Spec
===============================================================================
