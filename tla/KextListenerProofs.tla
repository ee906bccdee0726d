-------------------------- MODULE KextListenerProofs --------------------------
(***************************************************************************)
(* Theorems about KextListener, for every list of KextInfos, every set of  *)
(* kexts and every number of loads and unloads, and about Registration,    *)
(* which comes before it, for every set of plugins with any numbers of     *)
(* requests and every set of console threads.                              *)
(***************************************************************************)
EXTENDS KextListener, Registration, FiniteSetTheorems, TLAPS

(* An element of a list is of the kind the list is of.                     *)
LEMMA ElementOf == ASSUME NEW S, NEW s \in Seq(S), NEW n \in 1..Len(s) PROVE s[n] \in S
OBVIOUS

(* A part of a list has the elements of the list it is cut from.           *)
LEMMA PartOf ==
  ASSUME NEW S, NEW s, NEW m \in Int, NEW n \in Int, \A x \in m..n : s[x] \in S
  PROVE  /\ SubSeq(s, m, n) \in Seq(S)
         /\ Len(SubSeq(s, m, n)) = IF m <= n THEN n - m + 1 ELSE 0
         /\ \A x \in 1..(n - m + 1) : SubSeq(s, m, n)[x] = s[m + x - 1]
OBVIOUS

(* Two lists joined have the elements of the first, then of the second.    *)
LEMMA Joined ==
  ASSUME NEW S, NEW a \in Seq(S), NEW b \in Seq(S)
  PROVE  /\ a \o b \in Seq(S) /\ Len(a \o b) = Len(a) + Len(b)
         /\ \A x \in 1..(Len(a) + Len(b)) : (a \o b)[x] = IF x <= Len(a) THEN a[x] ELSE b[x - Len(a)]
OBVIOUS

Handlers == [id : Kexts, index : Nat \ {0}]

(* The part of the state that the argument needs.                          *)
ListsTyped ==
  /\ kinfos \in Seq(Kexts)
  /\ loadIndex \in [InfoIds -> Nat]
  /\ notified \in [InfoIds -> Nat]
  /\ khandlers \subseteq Handlers
  /\ queued \in Nat

(* Each kext has one index; KextInfos and handlers carry their kext's.     *)
IndexesMatch ==
  /\ \A m, n \in DOMAIN kinfos : kinfos[m] = kinfos[n] => m = n
  /\ \A i \in InfoIds : loadIndex[i] > 0 =>
       loadIndex[i] \in DOMAIN kinfos /\ kinfos[loadIndex[i]] = Infos[i].kext
  /\ \A h \in khandlers : h.index \in DOMAIN kinfos /\ kinfos[h.index] = h.id

(* Where the init thread stands bounds what can have happened: nothing is  *)
(* queued before the GPU is known and nothing is told before all is queued.*)
PhasesInOrder ==
  /\ pc = "callbacks" => GPU = FALSE
  /\ pc \notin {"callbacks", "panic"} => GPU = TRUE
  /\ pc \in {"callbacks", "panic"} => khandlers = {}
  /\ \A i \in InfoIds : notified[i] > 0 => pc \in {"walk", "flags"}
  /\ activated => pc = "flags"
  /\ rMMIO => GPU = TRUE

(* A module that heard has an index, and no handler is left with it.       *)
HeardIsErased ==
  \A i \in InfoIds : notified[i] > 0 =>
    loadIndex[i] > 0 /\ \A h \in khandlers : h.index # loadIndex[i]

IInv == ListsTyped /\ IndexesMatch /\ PhasesInOrder /\ HeardIsErased
          /\ NotifiedOnce /\ HeardTogether

(* Before anything is queued or told, the invariant holds.                 *)
LEMMA InitIInv == Init => IInv
<1> SUFFICES ASSUME Init PROVE IInv
  OBVIOUS
<1>1. ListsTyped
  BY DEF Init, ListsTyped
<1>2. IndexesMatch /\ HeardIsErased /\ NotifiedOnce /\ HeardTogether
  BY DEF Init, IndexesMatch, HeardIsErased, NotifiedOnce, HeardTogether
<1>3. PhasesInOrder
  BY DEF Init, PhasesInOrder
<1>4. QED
  BY <1>1, <1>2, <1>3, Zenon DEF IInv

(* A step that leaves the lists alone only has to keep the phases.         *)
LEMMA FrameKeeps ==
  ASSUME IInv, UNCHANGED <<initVars, khandlers, notified>>, PhasesInOrder'
  PROVE  IInv'
BY Zenon DEF IInv, ListsTyped, IndexesMatch, HeardIsErased, NotifiedOnce, HeardTogether, initVars

(* Steps of the init thread between the phases, and the kernel's own.      *)
LEMMA OtherSteps ==
  ASSUME IInv,
         \/ ProcessPatcher \/ ProcessPatcherPanics \/ UserPatcherInit \/ ReadHead
         \/ WalkEnds \/ ClearWaiting \/ Activate \/ HookTooEarly
         \/ \E k \in Kexts : LoadKext(k) \/ UnloadKext(k)
         \/ UNCHANGED vars
  PROVE  IInv'
<1>0. PhasesInOrder
  BY Zenon DEF IInv
<1>1. CASE ProcessPatcher
  <2>1. PhasesInOrder'
    BY <1>0, <1>1, Zenon DEF PhasesInOrder, ProcessPatcher, Go
  <2>2. QED
    BY <1>1, <2>1, FrameKeeps, Zenon DEF ProcessPatcher
<1>2. CASE ProcessPatcherPanics
  <2>1. PhasesInOrder'
    BY <1>0, <1>2, Zenon DEF PhasesInOrder, ProcessPatcherPanics, Go
  <2>2. QED
    BY <1>2, <2>1, FrameKeeps, Zenon DEF ProcessPatcherPanics
<1>3. CASE UserPatcherInit
  <2>1. PhasesInOrder'
    BY <1>0, <1>3, Zenon DEF PhasesInOrder, UserPatcherInit, Go
  <2>2. QED
    BY <1>3, <2>1, FrameKeeps, Zenon DEF UserPatcherInit
<1>4. CASE ReadHead
  <2>1. PhasesInOrder'
    BY <1>0, <1>4, Zenon DEF PhasesInOrder, ReadHead, Go
  <2>2. QED
    BY <1>4, <2>1, FrameKeeps, Zenon DEF ReadHead
<1>5. CASE WalkEnds
  <2>1. PhasesInOrder'
    BY <1>0, <1>5, Zenon DEF PhasesInOrder, WalkEnds, Go
  <2>2. QED
    BY <1>5, <2>1, FrameKeeps, Zenon DEF WalkEnds
<1>6. CASE ClearWaiting \/ Activate
  <2>1. PhasesInOrder'
    BY <1>0, <1>6, Zenon DEF PhasesInOrder, ClearWaiting, Activate
  <2>2. QED
    BY <1>6, <2>1, FrameKeeps, Zenon DEF ClearWaiting, Activate
<1>7. CASE HookTooEarly \/ \E k \in Kexts : LoadKext(k) \/ UnloadKext(k)
  <2>1. UNCHANGED <<pc, activated, khandlers, GPU, rMMIO, initVars, notified>>
    BY <1>7, Zenon DEF HookTooEarly, Hook, LoadKext, UnloadKext
  <2>2. PhasesInOrder'
    BY <1>0, <2>1, Zenon DEF PhasesInOrder
  <2>3. QED
    BY <2>1, <2>2, FrameKeeps, Zenon
<1>8. CASE UNCHANGED vars
  <2>1. PhasesInOrder'
    BY <1>0, <1>8, Zenon DEF PhasesInOrder, vars
  <2>2. QED
    BY <1>8, <2>1, FrameKeeps, Zenon DEF vars
<1>9. QED
  BY <1>1, <1>2, <1>3, <1>4, <1>5, <1>6, <1>7, <1>8, Zenon

(* Queueing happens before anything was told.                              *)
LEMMA QueueSteps ==
  ASSUME IInv, QueueKnown \/ QueueUnavailable \/ QueueNew \/ QueueAborts
  PROVE  IInv'
<1>1. /\ pc = "queue" /\ pc' = pc
      /\ UNCHANGED <<activated, GPU, rMMIO, notified>>
  BY Zenon DEF QueueKnown, QueueUnavailable, QueueNew, QueueAborts, QueueNext
<1>2. \A i \in InfoIds : notified[i] = 0
  BY <1>1 DEF IInv, PhasesInOrder, ListsTyped
<1>3. HeardIsErased' /\ NotifiedOnce' /\ HeardTogether'
  BY <1>1, <1>2 DEF HeardIsErased, NotifiedOnce, HeardTogether
<1>4. PhasesInOrder'
  BY <1>1, <1>2, Zenon DEF IInv, PhasesInOrder
<1>5. Infos \in Seq([kext : Kexts, initHW : BOOLEAN]) /\ queued \in Nat
  BY InfosAssumption, Zenon DEF IInv, ListsTyped
<1>6. queued < Len(Infos)
  BY Zenon DEF QueueKnown, QueueUnavailable, QueueNew, QueueAborts, QueueNext
<1>7. queued + 1 \in InfoIds /\ Len(Infos) \in Nat
  BY <1>5, <1>6 DEF InfoIds
<1>8. Wanted \in Kexts
  <2>1. queued + 1 \in 1..Len(Infos)
    BY <1>5, <1>6
  <2>2. Infos[queued + 1] \in [kext : Kexts, initHW : BOOLEAN]
    BY <1>5, <2>1, ElementOf, Zenon
  <2>3. QED
    BY <2>2, Zenon DEF Wanted
<1>9. queued' = queued + 1 \/ queued' = Len(Infos)
  BY Zenon DEF QueueKnown, QueueUnavailable, QueueNew, QueueAborts, QueueNext
<1>10. queued' \in Nat
  BY <1>5, <1>7, <1>9
<1>11. CASE QueueUnavailable
  BY <1>1, <1>3, <1>4, <1>10, <1>11, Zenon DEF QueueUnavailable, IInv, ListsTyped, IndexesMatch
<1>12. CASE QueueKnown
  <2>1. IndexOf(Wanted) \in DOMAIN kinfos /\ kinfos[IndexOf(Wanted)] = Wanted
    BY <1>12, Zenon DEF QueueKnown, IndexOf, Range
  <2>2. ListsTyped'
    BY <1>1, <1>7, <1>10, <1>12, <2>1 DEF QueueKnown, Indexed, IInv, ListsTyped
  <2>3. IndexesMatch'
    BY <1>7, <1>12, <2>1, Zenon DEF QueueKnown, Indexed, Wanted, IInv, ListsTyped, IndexesMatch
  <2>4. QED
    BY <1>3, <1>4, <2>2, <2>3, Zenon DEF IInv
<1>13. CASE QueueNew \/ QueueAborts
  <2>1. /\ kinfos' = Append(kinfos, Wanted)
        /\ loadIndex' = [loadIndex EXCEPT ![queued + 1] = FreshIndex]
        /\ khandlers' \subseteq khandlers \cup {[id |-> Wanted, index |-> FreshIndex]}
        /\ Wanted \notin Range(kinfos)
    BY <1>13, Zenon DEF QueueNew, QueueAborts, Indexed
  <2>2. /\ DOMAIN kinfos = 1..Len(kinfos) /\ Len(kinfos) \in Nat
        /\ DOMAIN kinfos' = 1..(Len(kinfos) + 1)
        /\ FreshIndex = Len(kinfos) + 1
        /\ kinfos'[FreshIndex] = Wanted
        /\ \A n \in DOMAIN kinfos : kinfos'[n] = kinfos[n] /\ kinfos[n] # Wanted
    BY <1>8, <2>1 DEF IInv, ListsTyped, FreshIndex, Range
  <2>3. ListsTyped'
    <3>1. kinfos' \in Seq(Kexts)
      BY <1>8, <2>1 DEF IInv, ListsTyped
    <3>2. FreshIndex \in Nat \ {0}
      BY <2>2
    <3>3. [id |-> Wanted, index |-> FreshIndex] \in Handlers
      BY <1>8, <3>2, Zenon DEF Handlers
    <3>4. loadIndex' \in [InfoIds -> Nat] /\ khandlers' \subseteq Handlers
      BY <2>1, <3>2, <3>3, Zenon DEF IInv, ListsTyped
    <3>5. QED
      BY <1>1, <1>10, <3>1, <3>4, Zenon DEF IInv, ListsTyped
  <2>4. \A m, n \in DOMAIN kinfos' : kinfos'[m] = kinfos'[n] => m = n
    BY <2>2 DEF IInv, IndexesMatch
  <2>5. \A i \in InfoIds : loadIndex'[i] > 0 =>
          loadIndex'[i] \in DOMAIN kinfos' /\ kinfos'[loadIndex'[i]] = Infos[i].kext
    BY <1>7, <2>1, <2>2 DEF IInv, IndexesMatch, ListsTyped, Wanted
  <2>6. \A h \in khandlers' : h.index \in DOMAIN kinfos' /\ kinfos'[h.index] = h.id
    BY <2>1, <2>2 DEF IInv, IndexesMatch
  <2>7. QED
    BY <1>3, <1>4, <2>3, <2>4, <2>5, <2>6, Zenon DEF IInv, IndexesMatch
<1>14. QED
  BY <1>11, <1>12, <1>13, Zenon

(* Telling the modules of a set of kexts, in a phase that allows it.       *)
LEMMA ProcessSteps ==
  ASSUME IInv, pc \in {"walk", "flags"}, pc' = pc, activated' = activated,
         NEW ks, ProcessKexts(ks)
  PROVE  /\ IInv'
         /\ \A i \in Told(ks) : notified[i] = 0 /\ loadIndex[i] > 0
<1>1. /\ notified' = [i \in InfoIds |-> IF i \in Told(ks) THEN notified[i] + 1 ELSE notified[i]]
      /\ khandlers' = khandlers \ HandlersFor(ks)
      /\ UNCHANGED <<queued, kinfos, loadIndex, GPU>>
  BY Zenon DEF ProcessKexts, EraseHandlers, initVars
<1>2. HandlersFor(ks) \subseteq khandlers
  BY Zenon DEF HandlersFor
<1>3. /\ kinfos \in Seq(Kexts) /\ queued \in Nat
      /\ loadIndex \in [InfoIds -> Nat] /\ notified \in [InfoIds -> Nat]
      /\ khandlers \subseteq Handlers
  BY Zenon DEF IInv, ListsTyped
<1>4. \A i \in Told(ks) : /\ i \in InfoIds
                          /\ \E h \in HandlersFor(ks) : h.index = loadIndex[i]
  BY Zenon DEF Told
<1>5. \A i \in Told(ks) : notified[i] = 0
  BY <1>2, <1>3, <1>4 DEF IInv, HeardIsErased
<1>6. \A i \in Told(ks) : loadIndex[i] > 0
  BY <1>2, <1>3, <1>4 DEF Handlers
<1>7. \A i, j \in InfoIds :
        loadIndex[i] > 0 /\ loadIndex[j] > 0 /\ Infos[i].kext = Infos[j].kext
          => loadIndex[i] = loadIndex[j]
  BY <1>3 DEF IInv, IndexesMatch
<1>8. \A i \in Told(ks), j \in InfoIds :
        loadIndex[j] > 0 /\ Infos[i].kext = Infos[j].kext => j \in Told(ks)
  BY <1>4, <1>6, <1>7, Zenon DEF Told
<1>9. \A g, h \in khandlers : g.index = h.index => g.id = h.id
  BY Zenon DEF IInv, IndexesMatch
<1>10. \A g \in HandlersFor(ks), h \in khandlers : g.index = h.index => h \in HandlersFor(ks)
  BY <1>2, <1>9, Zenon DEF HandlersFor
<1>11. \A i \in InfoIds : notified'[i] = IF i \in Told(ks) THEN 1 ELSE notified[i]
  BY <1>1, <1>3, <1>5
<1>12. ListsTyped'
  BY <1>1, <1>2, <1>3, <1>11 DEF ListsTyped
<1>13. IndexesMatch'
  BY <1>1, Zenon DEF IInv, IndexesMatch
<1>14. HeardIsErased'
  BY <1>1, <1>2, <1>4, <1>6, <1>10, <1>11, Zenon DEF IInv, HeardIsErased
<1>15. NotifiedOnce'
  BY <1>11 DEF IInv, NotifiedOnce
<1>16. HeardTogether'
  BY <1>1, <1>3, <1>5, <1>8, <1>11 DEF IInv, HeardTogether
<1>17. PhasesInOrder'
  <2>1. GPU = TRUE /\ GPU' = TRUE
    BY <1>1, Zenon DEF IInv, PhasesInOrder
  <2>2. QED
    BY <2>1, Zenon DEF IInv, PhasesInOrder
<1>18. QED
  BY <1>5, <1>6, <1>12, <1>13, <1>14, <1>15, <1>16, <1>17, Zenon DEF IInv

(* The three steps that tell modules, and when they happen.                *)
LEMMA TellingSteps ==
  ASSUME IInv, WalkStep \/ HookVisitsAll \/ HookNewest
  PROVE  /\ pc \in {"walk", "flags"} /\ pc' = pc /\ activated' = activated
         /\ \E ks : ProcessKexts(ks)
<1>1. CASE WalkStep
  BY <1>1, Zenon DEF WalkStep
<1>2. CASE HookVisitsAll \/ HookNewest
  <2>1. activated = TRUE
    BY <1>2, Zenon DEF HookVisitsAll, HookNewest
  <2>2. pc = "flags"
    BY <2>1, Zenon DEF IInv, PhasesInOrder
  <2>3. QED
    BY <1>2, <2>2, Zenon DEF HookVisitsAll, HookNewest, Hook
<1>3. QED
  BY <1>1, <1>2, Zenon

(* Every step of the init thread and of the kernel's threads keeps it.     *)
LEMMA NextIInv == IInv /\ [Next]_vars => IInv'
<1> SUFFICES ASSUME IInv, [Next]_vars PROVE IInv'
  OBVIOUS
<1>1. CASE WalkStep \/ HookVisitsAll \/ HookNewest
  BY <1>1, TellingSteps, ProcessSteps, Zenon
<1>2. CASE QueueKnown \/ QueueUnavailable \/ QueueNew \/ QueueAborts
  BY <1>2, QueueSteps, Zenon
<1>3. CASE ~(WalkStep \/ HookVisitsAll \/ HookNewest
               \/ QueueKnown \/ QueueUnavailable \/ QueueNew \/ QueueAborts)
  BY <1>3, OtherSteps, Zenon DEF Next, InitThread, KernelThread
<1>4. QED
  BY <1>1, <1>2, <1>3, Zenon

(* A module acts on its kext at most once, whatever is loaded and unloaded *)
(* around the visit and the activation.                                    *)
THEOREM ActsAtMostOnce == Spec => []NotifiedOnce
<1>1. IInv => NotifiedOnce
  BY Zenon DEF IInv
<1>2. QED
  BY <1>1, InitIInv, NextIInv, PTL DEF Spec

(* Modules with an index for the same kext hear of it in the same step, so *)
(* none of them is ever ahead of another one.                              *)
THEOREM ModulesHearTogether == Spec => []HeardTogether
<1>1. IInv => HeardTogether
  BY Zenon DEF IInv
<1>2. QED
  BY <1>1, InitIInv, NextIInv, PTL DEF Spec

(* No module runs, and no register is mapped, before the GPU was found.    *)
THEOREM GPUIsFoundFirst == Spec => []GPUFirst
<1>1. IInv => GPUFirst
  BY Zenon DEF IInv, PhasesInOrder, GPUFirst
<1>2. QED
  BY <1>1, InitIInv, NextIInv, PTL DEF Spec

(* The kernel's list has a kext once, and a kext whose load is under way   *)
(* is the newest.                                                          *)
KmodsInv ==
  /\ kmods \in Seq(Kexts) /\ walk \in Seq(Kexts)
  /\ \A m, n \in DOMAIN kmods : kmods[m] = kmods[n] => m = n
  /\ loading # None => kmods # <<>> /\ Head(kmods) = loading

(* The kexts that some step has still to announce, or nobody ever will.    *)
Accounted ==
  missed \cup Mismatched \cup Range(walk) \cup (IF activated THEN {loading} ELSE {})

(* Before the visit a handler asks for it; from then on a kext that is     *)
(* there and has a handler is ahead of the visit, is being loaded or was   *)
(* missed.                                                                 *)
WindowInv ==
  /\ pc \in {"callbacks", "queue", "activate"} /\ khandlers # {} =>
       waitingForAlreadyLoadedKexts
  /\ pc = "flags" => walk = <<>>
  /\ pc \in {"walk", "flags"} =>
       \A h \in khandlers : h.id \in Range(kmods) => h.id \in Accounted

(* Unlinking a kext from a list leaves every other kext in it.             *)
LEMMA UnlinkedKexts ==
  ASSUME NEW list \in Seq(Kexts), NEW k
  PROVE  /\ Unlinked(list, k) \in Seq(Kexts)
         /\ Range(Unlinked(list, k)) \subseteq Range(list)
         /\ Range(list) \ {k} \subseteq Range(Unlinked(list, k))
         /\ list = <<>> => Unlinked(list, k) = <<>>
         /\ (\A m, n \in DOMAIN list : list[m] = list[n] => m = n) =>
              /\ k \notin Range(Unlinked(list, k))
              /\ \A m, n \in DOMAIN Unlinked(list, k) :
                   Unlinked(list, k)[m] = Unlinked(list, k)[n] => m = n
<1>1. CASE k \notin Range(list)
  BY <1>1, Zenon DEF Unlinked
<1>2. CASE k \in Range(list)
  <2>1. PICK p : p = CHOOSE q \in DOMAIN list : list[q] = k
    OBVIOUS
  <2>2. p \in DOMAIN list /\ list[p] = k
    BY <1>2, <2>1, Zenon DEF Range
  <2>3. PICK u : u = SubSeq(list, 1, p - 1) \o SubSeq(list, p + 1, Len(list))
    OBVIOUS
  <2>4. Unlinked(list, k) = u
    BY <1>2, <2>1, <2>3, Zenon DEF Unlinked
  <2>5. DOMAIN list = 1..Len(list) /\ Len(list) \in Nat
    OBVIOUS
  <2>6. PICK a, b : a = SubSeq(list, 1, p - 1) /\ b = SubSeq(list, p + 1, Len(list))
    OBVIOUS
  <2>7. a \in Seq(Kexts) /\ Len(a) = p - 1 /\ \A n \in 1..(p - 1) : a[n] = list[n]
    BY <2>2, <2>5, <2>6
  <2>8. b \in Seq(Kexts) /\ Len(b) = Len(list) - p /\ \A n \in 1..(Len(list) - p) : b[n] = list[p + n]
    <3>1. p + 1 \in Int /\ Len(list) \in Int /\ \A n \in (p + 1)..Len(list) : list[n] \in Kexts
      BY <2>2, <2>5
    <3>2. /\ b \in Seq(Kexts)
          /\ Len(b) = IF p + 1 <= Len(list) THEN Len(list) - (p + 1) + 1 ELSE 0
          /\ \A n \in 1..(Len(list) - (p + 1) + 1) : b[n] = list[(p + 1) + n - 1]
      BY <2>6, <3>1, PartOf
    <3>3. p \in Nat /\ p <= Len(list)
      BY <2>2, <2>5
    <3>4. Len(list) - (p + 1) + 1 = Len(list) - p /\ \A n \in Nat : (p + 1) + n - 1 = p + n
      BY <2>5, <3>3
    <3>5. Len(b) = Len(list) - p
      <4>1. CASE p + 1 <= Len(list)
        BY <3>2, <3>4, <4>1, Zenon
      <4>2. CASE ~(p + 1 <= Len(list))
        <5>0. \A x, y \in Nat : y <= x /\ ~(y + 1 <= x) => x - y = 0
          OBVIOUS
        <5>1. Len(list) - p = 0
          BY <2>5, <3>3, <4>2, <5>0, Zenon
        <5>2. Len(b) = 0
          BY <3>2, <4>2, Zenon
        <5>3. QED
          BY <5>1, <5>2, Zenon
      <4>3. QED
        BY <4>1, <4>2, Zenon
    <3>6. QED
      BY <3>2, <3>4, <3>5
  <2>9. /\ u \in Seq(Kexts) /\ Len(u) = Len(list) - 1
        /\ \A n \in 1..(Len(list) - 1) : u[n] = IF n < p THEN list[n] ELSE list[n + 1]
    <3>1. /\ u \in Seq(Kexts) /\ Len(u) = Len(a) + Len(b)
          /\ \A n \in 1..(Len(a) + Len(b)) : u[n] = IF n <= Len(a) THEN a[n] ELSE b[n - Len(a)]
      <4>1. a \in Seq(Kexts) /\ b \in Seq(Kexts) /\ u = a \o b
        BY <2>3, <2>6, <2>7, <2>8, Zenon
      <4>2. QED
        BY <4>1, Joined, Zenon
    <3>2. p \in Nat /\ Len(a) + Len(b) = Len(list) - 1
      BY <2>2, <2>5, <2>7, <2>8
    <3>3. ASSUME NEW n \in 1..(Len(list) - 1)
          PROVE  u[n] = IF n < p THEN list[n] ELSE list[n + 1]
      <4>1. u[n] = IF n <= p - 1 THEN a[n] ELSE b[n - (p - 1)]
        BY <2>7, <3>1, <3>2, Zenon
      <4>2. CASE n < p
        BY <2>7, <3>2, <4>1, <4>2
      <4>3. CASE ~(n < p)
        <5>1. n - (p - 1) \in 1..(Len(list) - p) /\ p + (n - (p - 1)) = n + 1
          BY <2>5, <3>2, <4>3
        <5>2. u[n] = b[n - (p - 1)]
          BY <2>5, <3>2, <4>1, <4>3
        <5>3. QED
          BY <2>8, <4>3, <5>1, <5>2, Zenon
      <4>4. QED
        BY <4>2, <4>3, Zenon
    <3>4. QED
      BY <3>1, <3>2, <3>3, Zenon
  <2>10. DOMAIN u = 1..(Len(list) - 1)
    BY <2>9
  <2>11. Range(u) \subseteq Range(list)
    <3>1. ASSUME NEW n \in 1..(Len(list) - 1) PROVE \E x \in DOMAIN list : u[n] = list[x]
      <4>1. u[n] = list[n] \/ u[n] = list[n + 1]
        BY <2>9, Zenon
      <4>2. n \in DOMAIN list /\ n + 1 \in DOMAIN list
        BY <2>2, <2>5
      <4>3. QED
        BY <4>1, <4>2, Zenon
    <3>2. QED
      BY <2>10, <3>1, Zenon DEF Range
  <2>12. ASSUME NEW n \in DOMAIN list, list[n] # k PROVE list[n] \in Range(u)
    <3>1. n # p
      BY <2>2, <2>12, Zenon
    <3>2. CASE n < p
      <4>1. n \in DOMAIN u /\ u[n] = list[n]
        BY <2>2, <2>5, <2>9, <2>10, <3>2
      <4>2. QED
        BY <4>1, Zenon DEF Range
    <3>3. CASE n > p
      <4>1. n - 1 \in DOMAIN u /\ u[n - 1] = list[n]
        BY <2>2, <2>5, <2>9, <2>10, <3>3
      <4>2. QED
        BY <4>1, Zenon DEF Range
    <3>4. QED
      BY <2>2, <2>5, <3>1, <3>2, <3>3
  <2>13. Range(list) \ {k} \subseteq Range(u)
    BY <2>12, Zenon DEF Range
  <2>14. PICK place : place = [n \in DOMAIN u |-> IF n < p THEN n ELSE n + 1]
    OBVIOUS
  <2>15. \A n \in DOMAIN u :
           /\ place[n] \in DOMAIN list /\ place[n] # p /\ u[n] = list[place[n]]
           /\ \A m \in DOMAIN u : place[m] = place[n] => m = n
    <3>1. p \in Nat /\ Len(list) \in Nat /\ p <= Len(list) /\ p >= 1
      BY <2>2, <2>5
    <3>2. \A n \in DOMAIN u : place[n] = IF n < p THEN n ELSE n + 1
      BY <2>14, Zenon
    <3>3. \A n \in DOMAIN u : u[n] = IF n < p THEN list[n] ELSE list[n + 1]
      BY <2>9, <2>10, Zenon
    <3>4. \A n \in DOMAIN u : n \in Nat /\ n >= 1 /\ n < Len(list)
      BY <2>10, <3>1
    <3>5. QED
      BY <2>5, <3>1, <3>2, <3>3, <3>4
  <2>16. (\A m, n \in DOMAIN list : list[m] = list[n] => m = n) =>
           /\ \A n \in DOMAIN u : u[n] # k
           /\ \A m, n \in DOMAIN u : u[m] = u[n] => m = n
    BY <2>2, <2>15
  <2>17. k \in Range(u) => \E n \in DOMAIN u : u[n] = k
    BY Zenon DEF Range
  <2>18. list # <<>>
    BY <2>2
  <2>19. QED
    BY <2>4, <2>9, <2>11, <2>13, <2>16, <2>17, <2>18, Zenon
<1>3. QED
  BY <1>1, <1>2, Zenon

(* Before the kernel loads anything, nothing is missed.                    *)
LEMMA InitWindow == Init => KmodsInv /\ WindowInv
BY DEF Init, KmodsInv, WindowInv

(* Steps of the init thread that tell nobody.                              *)
LEMMA WindowInitThread ==
  ASSUME IInv, KmodsInv, WindowInv,
         \/ ProcessPatcher \/ ProcessPatcherPanics \/ UserPatcherInit \/ ReadHead
         \/ QueueKnown \/ QueueUnavailable \/ QueueNew \/ QueueAborts
         \/ WalkEnds \/ ClearWaiting \/ Activate \/ UNCHANGED vars
  PROVE  KmodsInv' /\ WindowInv'
<1>1. CASE ReadHead
  <2>1. KmodsInv'
    BY <1>1 DEF ReadHead, FromHead, listVars, KmodsInv
  <2>2. pc = "activate" /\ pc' = "walk"
    BY <1>1, Zenon DEF ReadHead, Go
  <2>3. khandlers' = khandlers /\ kmods' = kmods
    BY <1>1, Zenon DEF ReadHead, listVars
  <2>4. khandlers # {} => walk' = kmods
    BY <1>1, <2>2, Zenon DEF ReadHead, FromHead, WindowInv
  <2>5. QED
    BY <2>1, <2>2, <2>3, <2>4, Zenon DEF WindowInv, Accounted
<1>2. CASE QueueKnown \/ QueueUnavailable \/ QueueNew \/ QueueAborts
  <2>1. pc = "queue" /\ pc' = pc /\ UNCHANGED <<walk, listVars>>
    BY <1>2, Zenon DEF QueueKnown, QueueUnavailable, QueueNew, QueueAborts, QueueNext
  <2>2. \/ waitingForAlreadyLoadedKexts'
        \/ /\ khandlers' = khandlers
           /\ waitingForAlreadyLoadedKexts => waitingForAlreadyLoadedKexts'
    BY <1>2, Zenon DEF QueueKnown, QueueUnavailable, QueueNew, QueueAborts
  <2>3. KmodsInv'
    BY <2>1, Zenon DEF KmodsInv, listVars
  <2>4. WindowInv'
    BY <2>1, <2>2, Zenon DEF WindowInv
  <2>5. QED
    BY <2>3, <2>4, Zenon
<1>3. CASE ClearWaiting \/ Activate
  <2>1. /\ pc = "flags" /\ pc' = pc
        /\ UNCHANGED <<khandlers, walk, kmods, loading, missed>>
    BY <1>3, Zenon DEF ClearWaiting, Activate, listVars
  <2>2. activated => activated'
    BY <1>3, Zenon DEF ClearWaiting, Activate
  <2>3. Accounted \subseteq Accounted'
    BY <2>1, <2>2, Zenon DEF Accounted
  <2>4. QED
    BY <2>1, <2>3, Zenon DEF KmodsInv, WindowInv
<1>4. CASE ProcessPatcher \/ ProcessPatcherPanics \/ UserPatcherInit \/ WalkEnds \/ UNCHANGED vars
  <2>1. UNCHANGED <<khandlers, waitingForAlreadyLoadedKexts, activated, walk, kmods, loading, missed>>
    BY <1>4, Zenon
       DEF ProcessPatcher, ProcessPatcherPanics, UserPatcherInit, WalkEnds, vars, listVars
  <2>2. \/ pc' \in {"panic", "failed"}
        \/ pc \in {"callbacks", "queue"} /\ pc' \in {"queue", "activate"}
        \/ pc = "walk" /\ pc' = "flags" /\ walk = <<>>
        \/ pc' = pc
    BY <1>4, Zenon DEF ProcessPatcher, ProcessPatcherPanics, UserPatcherInit, WalkEnds, vars, Go
  <2>3. Accounted' = Accounted
    BY <2>1, Zenon DEF Accounted
  <2>4. KmodsInv'
    BY <2>1, Zenon DEF KmodsInv
  <2>5. WindowInv'
    BY <2>1, <2>2, <2>3, Zenon DEF WindowInv
  <2>6. QED
    BY <2>4, <2>5
<1>5. QED
  BY <1>1, <1>2, <1>3, <1>4, Zenon

(* Steps that tell modules: who still waits does not wait for these kexts. *)
LEMMA WindowTelling ==
  ASSUME IInv, KmodsInv, WindowInv, WalkStep \/ HookVisitsAll \/ HookNewest
  PROVE  KmodsInv' /\ WindowInv'
<1>1. pc \in {"walk", "flags"} /\ pc' = pc /\ activated' = activated
  BY TellingSteps, Zenon
<1>2. CASE WalkStep
  <2>1. /\ pc = "walk" /\ walk # <<>> /\ walk' = Tail(walk)
        /\ khandlers' = khandlers \ HandlersFor({Head(walk)})
        /\ UNCHANGED <<kmods, loading, missed>>
    BY <1>2, Zenon DEF WalkStep, ProcessKexts, EraseHandlers, listVars
  <2>2. walk' \in Seq(Kexts)
    BY <2>1 DEF KmodsInv
  <2>3. Range(walk) \subseteq {Head(walk)} \cup Range(walk')
    <3>1. ASSUME NEW n \in DOMAIN walk PROVE walk[n] \in {Head(walk)} \cup Range(walk')
      <4>1. walk \in Seq(Kexts) /\ n \in 1..Len(walk) /\ Len(walk) \in Nat
        BY DEF KmodsInv
      <4>2. CASE n = 1
        BY <4>1, <4>2
      <4>3. CASE n # 1
        <5>1. n - 1 \in DOMAIN Tail(walk) /\ Tail(walk)[n - 1] = walk[n]
          BY <2>1, <4>1, <4>3
        <5>2. QED
          BY <2>1, <5>1, Zenon DEF Range
      <4>4. QED
        BY <4>2, <4>3, Zenon
    <3>2. QED
      BY <3>1, Zenon DEF Range
  <2>4. \A h \in khandlers' : h \in khandlers /\ (h.id \in Mismatched \/ h.id # Head(walk))
    BY <2>1, Zenon DEF HandlersFor
  <2>5. Accounted \subseteq Accounted' \cup {Head(walk)}
    BY <1>1, <2>1, <2>3, Zenon DEF Accounted
  <2>6. Mismatched \subseteq Accounted'
    BY Zenon DEF Accounted
  <2>7. KmodsInv'
    BY <2>1, <2>2, Zenon DEF KmodsInv
  <2>8. QED
    BY <1>1, <2>1, <2>4, <2>5, <2>6, <2>7, Zenon DEF WindowInv
<1>3. CASE HookVisitsAll \/ HookNewest
  <2>1. PICK ks : /\ ProcessKexts(ks)
                  /\ ks = Range(kmods) \/ ks = {Head(kmods)}
    BY <1>3, Zenon DEF HookVisitsAll, HookNewest
  <2>2. loading # None /\ loading' = None /\ UNCHANGED <<walk, kmods>> /\ missed' = missed
    BY <1>3, <2>1, Zenon DEF HookVisitsAll, HookNewest, Hook, ProcessKexts
  <2>3. khandlers' = khandlers \ HandlersFor(ks)
    BY <2>1, Zenon DEF ProcessKexts, EraseHandlers
  <2>4. kmods # <<>> /\ Head(kmods) = loading
    BY <2>2, Zenon DEF KmodsInv
  <2>5. Head(kmods) \in Range(kmods)
    <3>1. kmods \in Seq(Kexts) /\ 1 \in DOMAIN kmods /\ Head(kmods) = kmods[1]
      BY <2>4 DEF KmodsInv
    <3>2. QED
      BY <3>1, Zenon DEF Range
  <2>6. \A h \in khandlers' : h \in khandlers /\ (h.id \in Mismatched \/ h.id # loading)
    BY <2>1, <2>3, <2>4, <2>5, Zenon DEF HandlersFor
  <2>7. Accounted \subseteq Accounted' \cup {loading}
    BY <1>1, <2>2, Zenon DEF Accounted
  <2>8. Mismatched \subseteq Accounted'
    BY DEF Accounted
  <2>9. KmodsInv'
    BY <2>2, Zenon DEF KmodsInv
  <2>10. QED
    BY <1>1, <2>2, <2>6, <2>7, <2>8, <2>9, Zenon DEF WindowInv
<1>4. QED
  BY <1>2, <1>3, Zenon

(* Loads and unloads: a kext that enters the list is missed, or its load   *)
(* has the hook still to call.                                             *)
LEMMA WindowKernel ==
  ASSUME IInv, KmodsInv, WindowInv,
         HookTooEarly \/ \E k \in Kexts : LoadKext(k) \/ UnloadKext(k)
  PROVE  KmodsInv' /\ WindowInv'
<1>1. CASE HookTooEarly
  <2>1. /\ UNCHANGED <<pc, khandlers, waitingForAlreadyLoadedKexts, activated, walk, kmods, missed>>
        /\ loading' = None /\ ~activated
    BY <1>1, Zenon DEF HookTooEarly, Hook
  <2>2. Accounted' = Accounted
    BY <2>1, Zenon DEF Accounted
  <2>3. QED
    BY <2>1, <2>2, Zenon DEF KmodsInv, WindowInv
<1>2. ASSUME NEW k \in Kexts, LoadKext(k) PROVE KmodsInv' /\ WindowInv'
  <2>1. /\ UNCHANGED <<pc, khandlers, waitingForAlreadyLoadedKexts, activated, walk>>
        /\ loading = None /\ loading' = k /\ kmods' = <<k>> \o kmods
        /\ k \notin Range(kmods)
        /\ missed' = IF pc \in {"walk", "flags"} /\ ~activated THEN missed \cup {k} ELSE missed
    BY <1>2, Zenon DEF LoadKext
  <2>2. kmods \in Seq(Kexts) /\ walk \in Seq(Kexts)
    BY Zenon DEF KmodsInv
  <2>3. /\ kmods' \in Seq(Kexts) /\ Len(kmods') = Len(kmods) + 1
        /\ kmods'[1] = k
        /\ \A n \in 1..Len(kmods) : kmods'[n + 1] = kmods[n]
    BY <2>1, <2>2
  <2>4. DOMAIN kmods' = 1..(Len(kmods) + 1) /\ DOMAIN kmods = 1..Len(kmods) /\ Len(kmods) \in Nat
    BY <2>2, <2>3
  <2>5. \A n \in DOMAIN kmods' : n = 1 \/ (n - 1 \in DOMAIN kmods /\ kmods'[n] = kmods[n - 1])
    BY <2>3, <2>4
  <2>6. \A n \in DOMAIN kmods : kmods[n] # k
    BY <2>1, Zenon DEF Range
  <2>7. \A m, n \in DOMAIN kmods' : kmods'[m] = kmods'[n] => m = n
    <3> SUFFICES ASSUME NEW m \in DOMAIN kmods', NEW n \in DOMAIN kmods', kmods'[m] = kmods'[n]
                 PROVE  m = n
      OBVIOUS
    <3>1. CASE m = 1 \/ n = 1
      BY <2>3, <2>5, <2>6, <3>1, Zenon
    <3>2. CASE m # 1 /\ n # 1
      <4>1. m - 1 = n - 1
        BY <2>5, <3>2, Zenon DEF KmodsInv
      <4>2. QED
        BY <2>4, <4>1
    <3>3. QED
      BY <3>1, <3>2, Zenon
  <2>8. kmods' # <<>> /\ Head(kmods') = k
    BY <2>3
  <2>9. Range(kmods') \subseteq Range(kmods) \cup {k}
    BY <2>3, <2>5 DEF Range
  <2>10. KmodsInv'
    BY <2>1, <2>2, <2>3, <2>7, <2>8, Zenon DEF KmodsInv
  <2>11. pc \in {"walk", "flags"} => k \in Accounted'
    BY <2>1, Zenon DEF Accounted
  <2>12. Accounted \subseteq Accounted' \cup {None}
    BY <2>1, Zenon DEF Accounted
  <2>13. \A h \in khandlers : h.id # None
    BY InfosAssumption, Zenon DEF IInv, ListsTyped, Handlers
  <2>14. QED
    BY <2>1, <2>9, <2>10, <2>11, <2>12, <2>13, Zenon DEF WindowInv
<1>3. ASSUME NEW k \in Kexts, UnloadKext(k) PROVE KmodsInv' /\ WindowInv'
  <2>1. /\ UNCHANGED <<pc, khandlers, waitingForAlreadyLoadedKexts, activated, loading, missed>>
        /\ loading = None
        /\ kmods' = Unlinked(kmods, k) /\ walk' = Unlinked(walk, k)
    BY <1>3, Zenon DEF UnloadKext
  <2>2. /\ kmods \in Seq(Kexts) /\ walk \in Seq(Kexts)
        /\ \A m, n \in DOMAIN kmods : kmods[m] = kmods[n] => m = n
    BY Zenon DEF KmodsInv
  <2>3. /\ kmods' \in Seq(Kexts) /\ Range(kmods') \subseteq Range(kmods)
        /\ k \notin Range(kmods')
        /\ \A m, n \in DOMAIN kmods' : kmods'[m] = kmods'[n] => m = n
    BY <2>1, <2>2, UnlinkedKexts
  <2>4. /\ walk' \in Seq(Kexts) /\ Range(walk) \ {k} \subseteq Range(walk')
        /\ walk = <<>> => walk' = <<>>
    BY <2>1, <2>2, UnlinkedKexts, Zenon
  <2>5. Accounted \subseteq Accounted' \cup {k}
    BY <2>1, <2>4, Zenon DEF Accounted
  <2>6. KmodsInv'
    BY <2>1, <2>3, <2>4, Zenon DEF KmodsInv
  <2>7. QED
    BY <2>1, <2>3, <2>4, <2>5, <2>6, Zenon DEF WindowInv
<1>4. QED
  BY <1>1, <1>2, <1>3, Zenon

(* Every step keeps the list and the account of who is waited for.         *)
LEMMA WindowStep ==
  ASSUME IInv, KmodsInv, WindowInv, [Next]_vars
  PROVE  KmodsInv' /\ WindowInv'
BY WindowInitThread, WindowTelling, WindowKernel, Zenon DEF Next, InitThread, KernelThread

(* A module in wait misses a kext that is there only if the kext was       *)
(* loaded between the visit and the activation, or is another binary: the  *)
(* early return of the hook costs no other load, in any order of the two   *)
(* flag stores.                                                            *)
THEOREM MissesOnlyTheWindow == Spec => []OnlyTheWindowIsMissed
<1>1. IInv /\ KmodsInv /\ WindowInv /\ [Next]_vars => KmodsInv' /\ WindowInv'
  BY WindowStep, Zenon
<1>2. IInv /\ KmodsInv /\ WindowInv => OnlyTheWindowIsMissed
  <2> SUFFICES ASSUME IInv, KmodsInv, WindowInv, Settled, NEW i \in InfoIds, Unheard(i)
               PROVE  Infos[i].kext \in missed \cup Mismatched
    BY Zenon DEF OnlyTheWindowIsMissed
  <2>1. PICK h \in khandlers : h.index = loadIndex[i]
    BY Zenon DEF Unheard
  <2>2. h.id = Infos[i].kext /\ h.id \in Kexts
    BY <2>1 DEF IInv, ListsTyped, IndexesMatch, Handlers
  <2>3. pc = "flags" /\ walk = <<>>
    BY Zenon DEF Settled, IInv, PhasesInOrder, WindowInv
  <2>4. h.id \in Accounted
    BY <2>2, <2>3, Zenon DEF Unheard, WindowInv
  <2>5. Range(walk) = {} /\ loading = None /\ h.id # None
    BY <2>2, <2>3, InfosAssumption DEF Settled, Range
  <2>6. QED
    BY <2>2, <2>4, <2>5, Zenon DEF Accounted
<1>3. QED
  BY <1>1, <1>2, InitIInv, NextIInv, InitWindow, PTL DEF Spec

(* What the visit has ahead is in the kernel, and each kext of it once.    *)
AheadInv ==
  /\ Range(walk) \subseteq Range(kmods)
  /\ \A m, n \in DOMAIN walk : walk[m] = walk[n] => m = n

(* The list with a new kext in front has that kext besides what it had.    *)
LEMMA LoadedKexts ==
  ASSUME NEW list \in Seq(Kexts), NEW k \in Kexts
  PROVE  Range(<<k>> \o list) = Range(list) \cup {k}
<1>1. PICK l : l = <<k>> \o list
  OBVIOUS
<1>2. /\ DOMAIN l = 1..(Len(list) + 1) /\ l[1] = k /\ Len(list) \in Nat
      /\ DOMAIN list = 1..Len(list)
      /\ \A n \in 1..Len(list) : l[n + 1] = list[n]
  BY <1>1
<1>3. \A n \in DOMAIN l : n = 1 \/ (n - 1 \in DOMAIN list /\ l[n] = list[n - 1])
  BY <1>2
<1>4. \A n \in DOMAIN list : n + 1 \in DOMAIN l /\ l[n + 1] = list[n]
  BY <1>2
<1>5. 1 \in DOMAIN l
  BY <1>2
<1>6. Range(l) \subseteq Range(list) \cup {k}
  BY <1>2, <1>3 DEF Range
<1>7. Range(list) \subseteq Range(l)
  BY <1>4, Zenon DEF Range
<1>8. k \in Range(l)
  BY <1>2, <1>5, Zenon DEF Range
<1>9. QED
  BY <1>1, <1>6, <1>7, <1>8, Zenon

(* The visit goes down the list it has, and an unload takes a kext from    *)
(* the kernel's list and from the visit's.                                 *)
LEMMA AheadStep ==
  ASSUME KmodsInv, AheadInv, [Next]_vars
  PROVE  AheadInv'
<1>1. CASE ReadHead
  <2>1. (walk' = kmods \/ walk' = <<>>) /\ kmods' = kmods
    BY <1>1, Zenon DEF ReadHead, FromHead, listVars
  <2>2. walk' = <<>> => DOMAIN walk' = {}
    OBVIOUS
  <2>3. QED
    BY <2>1, <2>2, Zenon DEF AheadInv, KmodsInv, Range
<1>2. CASE WalkStep
  <2>1. walk # <<>> /\ walk' = Tail(walk) /\ kmods' = kmods
    BY <1>2, Zenon DEF WalkStep, listVars
  <2>2. \A n \in DOMAIN walk' : n + 1 \in DOMAIN walk /\ walk'[n] = walk[n + 1] /\ n \in Nat
    BY <2>1 DEF KmodsInv
  <2>3. \A m, n \in DOMAIN walk' : walk'[m] = walk'[n] => m = n
    <3> SUFFICES ASSUME NEW m \in DOMAIN walk', NEW n \in DOMAIN walk', walk'[m] = walk'[n]
                 PROVE  m = n
      OBVIOUS
    <3>1. m + 1 = n + 1
      BY <2>2, Zenon DEF AheadInv
    <3>2. QED
      BY <2>2, <3>1
  <2>4. Range(walk') \subseteq Range(walk)
    BY <2>2 DEF Range
  <2>5. QED
    BY <2>1, <2>3, <2>4, Zenon DEF AheadInv
<1>3. ASSUME NEW k \in Kexts, LoadKext(k) PROVE AheadInv'
  <2>1. walk' = walk /\ kmods' = <<k>> \o kmods
    BY <1>3, Zenon DEF LoadKext
  <2>2. Range(kmods') = Range(kmods) \cup {k}
    BY <2>1, LoadedKexts, Zenon DEF KmodsInv
  <2>3. QED
    BY <2>1, <2>2, Zenon DEF AheadInv
<1>4. ASSUME NEW k \in Kexts, UnloadKext(k) PROVE AheadInv'
  <2>1. kmods' = Unlinked(kmods, k) /\ walk' = Unlinked(walk, k)
    BY <1>4, Zenon DEF UnloadKext
  <2>2. Range(kmods) \ {k} \subseteq Range(kmods')
    BY <2>1, UnlinkedKexts, Zenon DEF KmodsInv
  <2>3. /\ Range(walk') \subseteq Range(walk) /\ k \notin Range(walk')
        /\ \A m, n \in DOMAIN walk' : walk'[m] = walk'[n] => m = n
    BY <2>1, UnlinkedKexts, Zenon DEF KmodsInv, AheadInv
  <2>4. QED
    BY <2>2, <2>3, Zenon DEF AheadInv
<1>5. CASE ~(ReadHead \/ WalkStep \/ \E k \in Kexts : LoadKext(k) \/ UnloadKext(k))
  <2>1. UNCHANGED <<walk, kmods>>
    BY <1>5, Zenon
       DEF Next, InitThread, KernelThread, vars, listVars, ProcessPatcher, ProcessPatcherPanics,
           QueueKnown, QueueUnavailable, QueueNew, QueueAborts, QueueNext, UserPatcherInit, WalkEnds,
           ClearWaiting, Activate, HookTooEarly, HookVisitsAll, HookNewest, Hook
  <2>2. QED
    BY <2>1, Zenon DEF AheadInv
<1>6. QED
  BY <1>1, <1>2, <1>3, <1>4, <1>5, Zenon

Asked == {i \in InfoIds : loadIndex[i] > 0}

(* processKext tells of kexts that are there, to all who asked for one of  *)
(* them, none of whom heard before.                                        *)
LEMMA TellingAnnounces ==
  ASSUME IInv, KmodsInv, AheadInv, WalkStep \/ HookVisitsAll \/ HookNewest
  PROVE  \E ks \in SUBSET Kexts : Promise!Announce(ks)
<1>1. PICK ks : ProcessKexts(ks) /\ ks \subseteq Range(kmods) /\ kmods' = kmods
  <2>1. CASE WalkStep
    <3>1. walk # <<>> /\ ProcessKexts({Head(walk)}) /\ kmods' = kmods
      BY <2>1, Zenon DEF WalkStep, listVars
    <3>2. 1 \in DOMAIN walk /\ Head(walk) = walk[1]
      BY <3>1 DEF KmodsInv
    <3>3. QED
      BY <3>1, <3>2, Zenon DEF AheadInv, Range
  <2>2. CASE HookVisitsAll
    BY <2>2, Zenon DEF HookVisitsAll, Hook
  <2>3. CASE HookNewest
    <3>1. loading # None /\ ProcessKexts({Head(kmods)}) /\ kmods' = kmods
      BY <2>3, Zenon DEF HookNewest, Hook
    <3>2. 1 \in DOMAIN kmods /\ Head(kmods) = kmods[1]
      BY <3>1 DEF KmodsInv
    <3>3. QED
      BY <3>1, <3>2, Zenon DEF Range
  <2>4. QED
    BY <2>1, <2>2, <2>3, Zenon
<1>2. \A i \in Told(ks) : notified[i] = 0 /\ loadIndex[i] > 0
  BY <1>1, TellingSteps, ProcessSteps, Zenon
<1>3. PICK those : those = {h.id : h \in HandlersFor(ks)}
  OBVIOUS
<1>4. those \in SUBSET Kexts /\ those \subseteq Range(kmods)
  BY <1>1, <1>3, Zenon DEF HandlersFor, IInv, ListsTyped, Handlers
<1>5. Told(ks) = {i \in Asked : [n \in InfoIds |-> Infos[n].kext][i] \in those}
  <2>1. ASSUME NEW i \in Told(ks) PROVE i \in Asked /\ Infos[i].kext \in those
    <3>1. PICK h \in HandlersFor(ks) : h.index = loadIndex[i]
      BY Zenon DEF Told
    <3>2. i \in InfoIds /\ h \in khandlers /\ loadIndex[i] > 0
      BY <1>2, Zenon DEF Told, HandlersFor
    <3>3. Infos[i].kext = h.id
      BY <3>1, <3>2, Zenon DEF IInv, IndexesMatch
    <3>4. QED
      BY <1>3, <3>2, <3>3, Zenon DEF Asked
  <2>2. ASSUME NEW i \in Asked, Infos[i].kext \in those PROVE i \in Told(ks)
    <3>1. PICK h \in HandlersFor(ks) : h.id = Infos[i].kext
      BY <1>3, <2>2, Zenon
    <3>2. i \in InfoIds /\ h \in khandlers /\ loadIndex[i] > 0
      BY Zenon DEF Asked, HandlersFor
    <3>3. /\ h.index \in DOMAIN kinfos /\ kinfos[h.index] = h.id
          /\ loadIndex[i] \in DOMAIN kinfos /\ kinfos[loadIndex[i]] = Infos[i].kext
      BY <3>2, Zenon DEF IInv, IndexesMatch
    <3>4. \A m, n \in DOMAIN kinfos : kinfos[m] = kinfos[n] => m = n
      BY Zenon DEF IInv, IndexesMatch
    <3>5. h.index = loadIndex[i]
      BY <3>1, <3>3, <3>4, Zenon
    <3>6. QED
      BY <3>2, <3>5, Zenon DEF Told
  <2>3. \A i \in Asked : i \in InfoIds
    BY Zenon DEF Asked
  <2>4. QED
    BY <2>1, <2>2, <2>3, Zenon
<1>6. Promise!Concerned(those) = Told(ks)
  BY <1>5, Zenon DEF Promise!Concerned, Asked
<1>7. GPU = TRUE /\ UNCHANGED <<GPU, kmods, loadIndex>>
  BY <1>1, TellingSteps, Zenon DEF IInv, PhasesInOrder, ProcessKexts, initVars
<1>8. notified' = [i \in InfoIds |-> IF i \in Told(ks) THEN notified[i] + 1 ELSE notified[i]]
  BY <1>1, Zenon DEF ProcessKexts
<1>9. Range(kmods)' = Range(kmods) /\ {i \in InfoIds : loadIndex[i] > 0}' = {i \in InfoIds : loadIndex[i] > 0}
  BY <1>7, Zenon
<1>10. \A i \in Promise!Concerned(those) : notified[i] = 0
  BY <1>2, <1>6, Zenon
<1>11. Promise!Announce(those)
  BY <1>4, <1>6, <1>7, <1>8, <1>9, <1>10, Zenon DEF Promise!Announce
<1>12. QED
  BY <1>4, <1>11, Zenon

(* A KextInfo that gets an index, which loadKinfo gives only while nobody  *)
(* has heard, asks.                                                        *)
LEMMA QueueingAsks ==
  ASSUME IInv, QueueKnown \/ QueueUnavailable \/ QueueNew \/ QueueAborts
  PROVE  (\E i \in InfoIds : Promise!Ask(i)) \/ UNCHANGED <<GPU, kmods, Asked, notified>>
<1>1. pc = "queue" /\ UNCHANGED <<GPU, kmods, notified>>
  BY Zenon DEF QueueKnown, QueueUnavailable, QueueNew, QueueAborts, QueueNext, listVars
<1>2. \A i \in InfoIds : notified[i] = 0
  BY <1>1 DEF IInv, PhasesInOrder, ListsTyped
<1>3. CASE QueueUnavailable
  BY <1>1, <1>3, Zenon DEF QueueUnavailable, Asked
<1>4. CASE QueueKnown \/ QueueNew \/ QueueAborts
  <2>1. queued \in Nat /\ queued < Len(Infos) /\ Infos \in Seq([kext : Kexts, initHW : BOOLEAN])
    BY <1>4, InfosAssumption, Zenon DEF QueueKnown, QueueNew, QueueAborts, QueueNext, IInv, ListsTyped
  <2>2. queued + 1 \in InfoIds
    BY <2>1 DEF InfoIds
  <2>3. kinfos \in Seq(Kexts)
    BY Zenon DEF IInv, ListsTyped
  <2>4. FreshIndex > 0
    BY <2>3 DEF FreshIndex
  <2>5. QueueKnown => IndexOf(Wanted) > 0
    <3>1. QueueKnown => IndexOf(Wanted) \in DOMAIN kinfos
      BY Zenon DEF QueueKnown, IndexOf, Range
    <3>2. \A n \in DOMAIN kinfos : n > 0
      BY <2>3
    <3>3. QED
      BY <3>1, <3>2, Zenon
  <2>6. PICK n : n > 0 /\ loadIndex' = [loadIndex EXCEPT ![queued + 1] = n]
    BY <1>4, <2>4, <2>5, Zenon DEF QueueKnown, QueueNew, QueueAborts, Indexed
  <2>7. Asked' = Asked \cup {queued + 1}
    BY <2>2, <2>6, Zenon DEF Asked, IInv, ListsTyped
  <2>8. QED
    BY <1>1, <1>2, <2>2, <2>7, Zenon DEF Promise!Ask, Asked
<1>5. QED
  BY <1>3, <1>4, Zenon

(* Each step of the listener is a step of the promise or changes nothing   *)
(* that the promise speaks of.                                             *)
LEMMA StepKeepsPromise ==
  ASSUME IInv, KmodsInv, AheadInv, [Next]_vars
  PROVE  Promise!Next \/ UNCHANGED <<GPU, Range(kmods), Asked, notified>>
<1>1. CASE WalkStep \/ HookVisitsAll \/ HookNewest
  BY <1>1, TellingAnnounces, Zenon DEF Promise!Next
<1>2. CASE QueueKnown \/ QueueUnavailable \/ QueueNew \/ QueueAborts
  BY <1>2, QueueingAsks, Zenon DEF Promise!Next
<1>3. CASE ProcessPatcher
  <2>1. GPU' = TRUE /\ UNCHANGED <<kmods, loadIndex, notified>>
    BY <1>3, Zenon DEF ProcessPatcher, initVars, listVars
  <2>2. GPU = FALSE
    BY <1>3, Zenon DEF ProcessPatcher, Go, IInv, PhasesInOrder
  <2>3. QED
    BY <2>1, <2>2, Zenon DEF Promise!Next, Promise!Probe
<1>4. ASSUME NEW k \in Kexts, LoadKext(k) PROVE Promise!Next
  <2>1. UNCHANGED <<GPU, loadIndex, notified>> /\ kmods' = <<k>> \o kmods
    BY <1>4, Zenon DEF LoadKext, initVars
  <2>2. Range(kmods') = Range(kmods) \cup {k}
    BY <2>1, LoadedKexts, Zenon DEF KmodsInv
  <2>3. QED
    BY <2>1, <2>2, Zenon DEF Promise!Next, Promise!Load
<1>5. ASSUME NEW k \in Kexts, UnloadKext(k) PROVE Promise!Next
  <2>1. UNCHANGED <<GPU, loadIndex, notified>> /\ kmods' = Unlinked(kmods, k)
    BY <1>5, Zenon DEF UnloadKext, initVars
  <2>2. /\ Range(kmods') \subseteq Range(kmods) /\ Range(kmods) \ {k} \subseteq Range(kmods')
        /\ k \notin Range(kmods')
    BY <2>1, UnlinkedKexts, Zenon DEF KmodsInv
  <2>3. Range(kmods') = Range(kmods) \ {k}
    BY <2>2, Zenon
  <2>4. QED
    BY <2>1, <2>3, Zenon DEF Promise!Next, Promise!Unload
<1>6. CASE ~(\/ WalkStep \/ HookVisitsAll \/ HookNewest \/ ProcessPatcher
             \/ QueueKnown \/ QueueUnavailable \/ QueueNew \/ QueueAborts
             \/ \E k \in Kexts : LoadKext(k) \/ UnloadKext(k))
  <2>1. UNCHANGED <<GPU, kmods, loadIndex, notified>>
    BY <1>6, Zenon
       DEF Next, InitThread, KernelThread, vars, initVars, listVars, ProcessPatcherPanics,
           UserPatcherInit, ReadHead, WalkEnds, ClearWaiting, Activate, HookTooEarly, Hook
  <2>2. QED
    BY <2>1, Zenon DEF Asked
<1>7. QED
  BY <1>1, <1>2, <1>3, <1>4, <1>5, <1>6, Zenon

(* The listener implements KextNotification: only a kext that is in the    *)
(* kernel is announced, when the GPU is known, to all modules that have    *)
(* its index in one step, and to none of them again when it is unloaded    *)
(* and loaded, or met by the visit and by its own load.                    *)
THEOREM ListenerKeepsPromise == Spec => KeepsPromise
<1>1. Init => Promise!Init /\ AheadInv
  BY DEF Init, Promise!Init, AheadInv, Range
<1>2. IInv /\ KmodsInv /\ AheadInv /\ [Next]_vars =>
        [Promise!Next]_<<GPU, Range(kmods), Asked, notified>>
  BY StepKeepsPromise, Zenon
<1>3. IInv /\ KmodsInv /\ WindowInv /\ [Next]_vars => KmodsInv' /\ WindowInv'
  BY WindowStep, Zenon
<1>4. KmodsInv /\ AheadInv /\ [Next]_vars => AheadInv'
  BY AheadStep, Zenon
<1>5. QED
  BY <1>1, <1>2, <1>3, <1>4, InitIInv, NextIInv, InitWindow, PTL
     DEF Spec, KeepsPromise, Promise!Spec, Promise!promiseVars, Asked
-------------------------------------------------------------------------------
(* The access lock belongs to the plugin in the middle of its start; what  *)
(* a plugin has in the lists follows from where it is; and no plugin is    *)
(* registering once registration is closed.                                *)
AccessInv ==
  /\ \A p \in Plugins : pluginPc[p] \in {"granted", "starting"} <=> access = p
  /\ \A p \in Plugins : pluginPc[p] \in {"start", "granted", "refused"} => Registered(p) = 0
  /\ \A p \in Plugins : pluginPc[p] = "started" => Registered(p) = Len(Requests[p])
  /\ apiRequestsOver => \A p \in Plugins : pluginPc[p] # "starting"

(* The policy lock belongs to the thread between its test and its unlock;  *)
(* a thread on the way to fire finds that none was fired.                  *)
PolicyInv ==
  /\ \A c \in Consoles :
       consolePc[c] \in {"test", "finalise", "mark", "fire", "unlock"} <=> policyLock = c
  /\ \A c \in Consoles : consolePc[c] \in {"finalise", "mark"} => ~initialised
  /\ \A c \in Consoles : consolePc[c] = "fire" => initialised
  /\ \A c \in Consoles : consolePc[c] \in {"finalise", "mark", "fire"} => initThreads = 0
  /\ ~initialised => initThreads = 0
  /\ initThreads <= 1

(* A plugin's count goes up by one when its request is appended, and the   *)
(* others' stay (onPatcherLoad, onKextLoad).                               *)
LEMMA CountAppended ==
  ASSUME TypeOK, NEW p \in Plugins, NEW q \in Plugins, q # p,
         \/ patcherLoadedCallbacks' = Append(patcherLoadedCallbacks, p) /\ UNCHANGED storedKexts
         \/ storedKexts' = Append(storedKexts, p) /\ UNCHANGED patcherLoadedCallbacks
  PROVE  Registered(q)' = Registered(q)
<1> DEFINE Of(list) == {k \in DOMAIN list : list[k] = q}
<1>1. ASSUME NEW list \in Seq(Plugins) PROVE Of(Append(list, p)) = Of(list)
  OBVIOUS
<1>2. Of(patcherLoadedCallbacks') = Of(patcherLoadedCallbacks) /\ Of(storedKexts') = Of(storedKexts)
  <2> HIDE DEF Of
  <2> QED
    BY <1>1, Zenon DEF TypeOK
<1> QED
  BY <1>2, Zenon DEF Registered

(* A list of plugins stays one.                                            *)
LEMMA AppendedTo ==
  ASSUME NEW p \in Plugins, NEW list \in Seq(Plugins)
  PROVE  Append(list, p) \in Seq(Plugins)
OBVIOUS

(* Lists that do not change leave every count as it is.                    *)
LEMMA CountKept ==
  ASSUME NEW q \in Plugins, UNCHANGED <<patcherLoadedCallbacks, storedKexts>>
  PROVE  Registered(q)' = Registered(q)
BY Zenon DEF Registered

(* Before any plugin starts, the lists are empty and both locks are free.  *)
LEMMA InitInv == RegistrationInit => TypeOK /\ AccessInv /\ PolicyInv
<1> SUFFICES ASSUME RegistrationInit PROVE TypeOK /\ AccessInv /\ PolicyInv
  OBVIOUS
<1>1. TypeOK
  <2>1. /\ pluginPc \in [Plugins -> PluginPcs] /\ consolePc \in [Consoles -> ConsolePcs]
        /\ patcherLoadedCallbacks \in Seq(Plugins) /\ storedKexts \in Seq(Plugins)
    BY DEF RegistrationInit, PluginPcs, ConsolePcs
  <2>2. /\ access \in Plugins \cup {Free} /\ policyLock \in Consoles \cup {Free}
        /\ initThreads \in Nat /\ ran \in Nat /\ taken \in Nat
    BY Zenon DEF RegistrationInit
  <2> QED
    BY <2>1, <2>2, Zenon DEF RegistrationInit, TypeOK
<1>2. AccessInv
  <2>1. \A p \in Plugins : /\ {k \in DOMAIN patcherLoadedCallbacks : patcherLoadedCallbacks[k] = p} = {}
                            /\ {k \in DOMAIN storedKexts : storedKexts[k] = p} = {}
    BY DEF RegistrationInit
  <2>2. \A p \in Plugins : Registered(p) = 0
    BY <2>1, FS_EmptySet, SMTT(30) DEF Registered
  <2> QED
    BY <2>2, ThreadsAssumption, Zenon DEF RegistrationInit, AccessInv
<1>3. PolicyInv
  BY ThreadsAssumption, SMTT(30) DEF RegistrationInit, PolicyInv
<1> QED
  BY <1>1, <1>2, <1>3, Zenon

(* Every step keeps the types (kern_start, initConsole).                   *)
LEMMA TypeStep == TypeOK /\ [RegistrationNext]_registrationVars => TypeOK'
<1> SUFFICES ASSUME TypeOK, [RegistrationNext]_registrationVars PROVE TypeOK'
  BY SMTT(30)
<1> USE DEF TypeOK, PluginPcs, ConsolePcs, locks, flags, lists, progress
<1>1. ASSUME NEW p \in Plugins, PluginStep(p) PROVE TypeOK'
  <2>1. CASE Offline(p)
    BY <2>1, SMTT(30) DEF Offline, PluginGo
  <2>2. CASE RequestAccess(p)
    BY <2>2, SMTT(30) DEF RequestAccess, PluginGo
  <2>3. CASE TooLate(p)
    BY <2>3, Zenon DEF TooLate, PluginGo
  <2>4. CASE ShouldLoad(p)
    BY <2>4, SMTT(30) DEF ShouldLoad, PluginGo
  <2>5. CASE ShouldNotLoad(p)
    BY <2>5, SMTT(30) DEF ShouldNotLoad, PluginGo
  <2>6. CASE Register(p)
    <3>1. /\ patcherLoadedCallbacks' \in {patcherLoadedCallbacks, Append(patcherLoadedCallbacks, p)}
          /\ storedKexts' \in {storedKexts, Append(storedKexts, p)}
      BY <2>6, Zenon DEF Register
    <3>2. patcherLoadedCallbacks' \in Seq(Plugins) /\ storedKexts' \in Seq(Plugins)
      BY <1>1, <3>1, AppendedTo, Zenon
    <3> QED
      BY <2>6, <3>2, SMTT(30) DEF Register, PluginGo
  <2>7. CASE RegisterPanics(p)
    BY <2>7, SMTT(30) DEF RegisterPanics
  <2>8. CASE ReleaseAccess(p)
    BY <2>8, SMTT(30) DEF ReleaseAccess, PluginGo
  <2> HIDE DEF TypeOK
  <2> QED
    BY <1>1, <2>1, <2>2, <2>3, <2>4, <2>5, <2>6, <2>7, <2>8, Zenon DEF PluginStep
<1>2. ASSUME NEW c \in Consoles, PassThrough(c) \/ ConsoleStep(c) PROVE TypeOK'
  <2>1. CASE PassThrough(c)
    BY <2>1, SMTT(30) DEF PassThrough, ConsoleGo
  <2>2. CASE FirstTest(c)
    BY <2>2, Zenon DEF FirstTest, ConsoleGo
  <2>3. CASE LockPolicy(c)
    BY <2>3, Zenon DEF LockPolicy, ConsoleGo
  <2>4. CASE SecondTest(c)
    BY <2>4, SMTT(30) DEF SecondTest, ConsoleGo
  <2>5. CASE FinaliseRequests(c)
    BY <2>5, Zenon DEF FinaliseRequests, ConsoleGo
  <2>6. CASE MarkInitialised(c)
    BY <2>6, Zenon DEF MarkInitialised, ConsoleGo
  <2>7. CASE FireInit(c)
    BY <2>7 DEF FireInit, ConsoleGo
  <2>8. CASE UnlockPolicy(c)
    BY <2>8, Zenon DEF UnlockPolicy, ConsoleGo
  <2> HIDE DEF TypeOK
  <2> QED
    BY <1>2, <2>1, <2>2, <2>3, <2>4, <2>5, <2>6, <2>7, <2>8, Zenon DEF ConsoleStep
<1>3. CASE ConfigurePCI \/ CommonInit
  <2>1. ran + 1 \in Nat /\ taken + 1 \in Nat
    OBVIOUS
  <2> QED
    BY <1>3, <2>1, Zenon
       DEF ConfigurePCI, CommonInit, CreateDevices, CreatePanics, RunCallback, CallbackPanics,
           CallbacksOver, TakeKexts, KextsAborted, KextsOver, InitGo, InitPanics, InitAt
<1>4. CASE RegistrationDone \/ UNCHANGED registrationVars
  BY <1>4, Zenon DEF RegistrationDone, registrationVars
<1> QED
  BY <1>1, <1>2, <1>3, <1>4, SMTT(30) DEF RegistrationNext

(* The init thread and PCI leave both protocols alone.                     *)
LEMMA InitKeeps ==
  ASSUME ConfigurePCI \/ CommonInit
  PROVE  UNCHANGED <<access, policyLock, apiRequestsOver, initialised, pluginPc, consolePc,
                     patcherLoadedCallbacks, storedKexts, initThreads>>
BY Zenon
   DEF ConfigurePCI, CommonInit, CreateDevices, CreatePanics, RunCallback, CallbackPanics,
       CallbacksOver, TakeKexts, KextsAborted, KextsOver, InitGo, InitPanics, InitAt, locks, flags, lists

(* A plugin's step keeps the access lock's protocol, since only the holder *)
(* of the lock registers.                                                  *)
LEMMA PluginKeepsAccess ==
  ASSUME TypeOK, AccessInv, NEW p \in Plugins, PluginStep(p)
  PROVE  AccessInv'
<1> USE ThreadsAssumption DEF TypeOK, PluginPcs, flags, locks, lists, progress
<1>1. CASE Offline(p)
  BY <1>1, CountKept, SMTT(30) DEF Offline, PluginGo, AccessInv
<1>2. CASE RequestAccess(p)
  BY <1>2, CountKept, SMTT(30) DEF RequestAccess, PluginGo, AccessInv
<1>3. CASE TooLate(p)
  BY <1>3, CountKept, SMTT(30) DEF TooLate, PluginGo, AccessInv
<1>4. CASE ShouldLoad(p)
  BY <1>4, CountKept, SMTT(30) DEF ShouldLoad, TooLateWhen, PluginGo, AccessInv
<1>5. CASE ShouldNotLoad(p)
  BY <1>5, CountKept, SMTT(30) DEF ShouldNotLoad, PluginGo, AccessInv
<1>6. CASE Register(p)
  <2>1. pluginPc' = pluginPc /\ pluginPc[p] = "starting"
    BY <1>6, SMTT(30) DEF Register, PluginGo
  <2>2. \A q \in Plugins \ {p} : Registered(q)' = Registered(q)
    BY <1>6, CountAppended, SMTT(30) DEF Register
  <2> QED
    BY <1>6, <2>1, <2>2, SMTT(30) DEF Register, PluginGo, AccessInv
<1>7. CASE RegisterPanics(p)
  BY <1>7, CountKept, SMTT(30) DEF RegisterPanics, AccessInv
<1>8. CASE ReleaseAccess(p)
  BY <1>8, CountKept, SMTT(30) DEF ReleaseAccess, PluginGo, AccessInv
<1> QED
  BY <1>1, <1>2, <1>3, <1>4, <1>5, <1>6, <1>7, <1>8, SMTT(30) DEF PluginStep

(* A console thread changes what the plugins see only in finaliseRequests, *)
(* which waits until no plugin holds the lock.                             *)
LEMMA ConsoleKeepsAccess ==
  ASSUME TypeOK, AccessInv, NEW c \in Consoles, PassThrough(c) \/ ConsoleStep(c)
  PROVE  AccessInv'
<1>1. UNCHANGED <<access, pluginPc, patcherLoadedCallbacks, storedKexts>>
  BY Zenon
     DEF PassThrough, ConsoleStep, FirstTest, LockPolicy, SecondTest, FinaliseRequests,
         MarkInitialised, FireInit, UnlockPolicy, ConsoleGo, locks, lists
<1>2. (apiRequestsOver' = apiRequestsOver) \/ access = Free
  BY Zenon
     DEF PassThrough, ConsoleStep, FirstTest, LockPolicy, SecondTest, FinaliseRequests,
         MarkInitialised, FireInit, UnlockPolicy, MayFinalise, flags
<1> QED
  BY <1>1, <1>2, CountKept, ThreadsAssumption, SMTT(30) DEF AccessInv

(* The access lock's protocol is kept by every step.                       *)
LEMMA AccessStep == TypeOK /\ AccessInv /\ [RegistrationNext]_registrationVars => AccessInv'
<1> SUFFICES ASSUME TypeOK, AccessInv, [RegistrationNext]_registrationVars PROVE AccessInv'
  OBVIOUS
<1>1. CASE \E p \in Plugins : PluginStep(p)
  BY <1>1, PluginKeepsAccess, Zenon
<1>2. CASE \E c \in Consoles : PassThrough(c) \/ ConsoleStep(c)
  BY <1>2, ConsoleKeepsAccess, SMTT(30)
<1>3. CASE ConfigurePCI \/ CommonInit \/ RegistrationDone \/ UNCHANGED registrationVars
  <2>1. UNCHANGED <<access, pluginPc, patcherLoadedCallbacks, storedKexts, apiRequestsOver>>
    BY <1>3, InitKeeps, Zenon DEF RegistrationDone, registrationVars
  <2> QED
    BY <2>1, CountKept, SMTT(30) DEF AccessInv
<1> QED
  BY <1>1, <1>2, <1>3, SMTT(30) DEF RegistrationNext

(* A console thread keeps the policy lock's protocol: its second test is   *)
(* under the lock, so at most one thread passes it.                        *)
LEMMA ConsoleKeepsPolicy ==
  ASSUME TypeOK, PolicyInv, NEW c \in Consoles, PassThrough(c) \/ ConsoleStep(c)
  PROVE  PolicyInv'
<1> USE ThreadsAssumption DEF TypeOK, ConsolePcs, flags, locks
<1>1. CASE PassThrough(c)
  BY <1>1, SMTT(30) DEF PassThrough, ConsoleGo, PolicyInv
<1>2. CASE FirstTest(c)
  BY <1>2, SMTT(30) DEF FirstTest, ConsoleGo, PolicyInv
<1>3. CASE LockPolicy(c)
  BY <1>3, Zenon DEF LockPolicy, ConsoleGo, PolicyInv
<1>4. CASE SecondTest(c)
  <2>1. CASE initialised
    BY <1>4, <2>1, SMTT(30) DEF SecondTest, AlreadyInitialised, ConsoleGo, PolicyInv
  <2>2. CASE ~initialised
    BY <1>4, <2>2, SMTT(30) DEF SecondTest, AlreadyInitialised, ConsoleGo, PolicyInv
  <2> QED
    BY <2>1, <2>2, SMTT(30)
<1>5. CASE FinaliseRequests(c)
  BY <1>5, SMTT(30) DEF FinaliseRequests, ConsoleGo, PolicyInv
<1>6. CASE MarkInitialised(c)
  BY <1>6, SMTT(30) DEF MarkInitialised, ConsoleGo, PolicyInv
<1>7. CASE FireInit(c)
  <2>1. initThreads = 0 /\ initialised /\ initThreads' \in {0, 1}
    BY <1>7 DEF FireInit, ConsoleGo, PolicyInv
  <2>2. \A d \in Consoles : consolePc'[d] \notin {"finalise", "mark", "fire"}
    BY <1>7, SMTT(30) DEF FireInit, ConsoleGo, PolicyInv
  <2> QED
    BY <1>7, <2>1, <2>2, SMTT(30) DEF FireInit, ConsoleGo, PolicyInv
<1>8. CASE UnlockPolicy(c)
  BY <1>8, Zenon DEF UnlockPolicy, ConsoleGo, PolicyInv
<1> QED
  BY <1>1, <1>2, <1>3, <1>4, <1>5, <1>6, <1>7, <1>8, SMTT(30) DEF ConsoleStep

(* The policy lock's protocol is kept by every step.                       *)
LEMMA PolicyStep == TypeOK /\ PolicyInv /\ [RegistrationNext]_registrationVars => PolicyInv'
<1> SUFFICES ASSUME TypeOK, PolicyInv, [RegistrationNext]_registrationVars PROVE PolicyInv'
  OBVIOUS
<1>1. CASE \E c \in Consoles : PassThrough(c) \/ ConsoleStep(c)
  BY <1>1, ConsoleKeepsPolicy, Zenon
<1>2. CASE \/ \E p \in Plugins : PluginStep(p)
           \/ ConfigurePCI \/ CommonInit \/ RegistrationDone \/ UNCHANGED registrationVars
  <2>1. UNCHANGED <<policyLock, consolePc, initialised, initThreads>>
    BY <1>2, InitKeeps, Zenon
       DEF PluginStep, Offline, RequestAccess, TooLate, ShouldLoad, ShouldNotLoad, Register,
           RegisterPanics, ReleaseAccess, PluginGo, RegistrationDone, registrationVars, locks, flags
  <2> QED
    BY <2>1, SMTT(30) DEF PolicyInv
<1> QED
  BY <1>1, <1>2, SMTT(30) DEF RegistrationNext

(* finaliseRequests never cuts a plugin's kern_start in two: once          *)
(* registration is closed, each plugin has all its requests in the lists   *)
(* or none, for any plugins and console threads.                           *)
THEOREM StartsAreWhole == RegistrationSpec => []StartedWholly
<1>1. TypeOK /\ AccessInv => StartedWholly
  BY RequestsAssumption DEF TypeOK, PluginPcs, AccessInv, StartedWholly
<1> QED
  BY <1>1, InitInv, TypeStep, AccessStep, PTL DEF RegistrationSpec

(* initConsole fires at most one init thread, however many threads enable  *)
(* the console at once.                                                    *)
THEOREM InitialisesOnce == RegistrationSpec => []InitialisedOnce
<1>1. PolicyInv => InitialisedOnce
  BY Zenon DEF PolicyInv, InitialisedOnce
<1> QED
  BY <1>1, InitInv, TypeStep, PolicyStep, PTL DEF RegistrationSpec
===============================================================================
