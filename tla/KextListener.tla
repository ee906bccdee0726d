----------------------------- MODULE KextListener -----------------------------
(***************************************************************************)
(* Lilu's kext listener on the kernels NootedDeck supports, and what the   *)
(* modules of NootedDeck see of it.  The init thread runs the patcher      *)
(* callback (NDeck::ProcessPatcher), queues one handler for each kext that *)
(* some module asked for, visits the kexts that are already loaded and     *)
(* then sets "activated".  Meanwhile other threads load and unload kexts   *)
(* under the kernel's kext lock, which the init thread does not take; their *)
(* hook ignores everything until "activated" is set.                       *)
(*                                                                         *)
(* A handler calls every module; a module acts if its own KextInfo has the *)
(* index of the kext, and the modules that need the GPU map its registers. *)
(***************************************************************************)
EXTENDS Naturals, Sequences, Functions

CONSTANTS
  Kexts,            \* bundles that get loaded
  Infos,            \* the KextInfos in the order they were registered
  Mismatched,       \* kexts whose running binary has another UUID
  MaxLoads,         \* bound: kext loads in one behaviour
  None

ASSUME InfosAssumption ==
  /\ Infos \in Seq([kext : Kexts, initHW : BOOLEAN])
  /\ None \notin Kexts
  /\ Mismatched \subseteq Kexts
  /\ MaxLoads \in Nat

VARIABLES
  pc,               \* of the init thread
  queued,           \* KextInfos looked at so far
  kinfos,           \* kexts with a MachInfo; the kernel has index 0
  loadIndex,        \* of each KextInfo; 0 is Unloaded
  khandlers,        \* handlers that wait for a kext
  waitingForAlreadyLoadedKexts, activated,
  walk,             \* kexts the visit has still ahead
  GPU, rMMIO,       \* are NDeck's fields set?
  kmods,            \* the kernel's list, newest first
  loading,          \* kext in the list whose load has not called the hook yet
  loads,            \* loads so far
  notified,         \* how often each KextInfo's module acted (history)
  missed            \* kexts that were loaded between visit and activation (history)

initVars == <<queued, kinfos, loadIndex>>
listVars == <<kmods, loading, loads>>
vars == <<pc, initVars, khandlers, waitingForAlreadyLoadedKexts, activated, walk,
          GPU, rMMIO, listVars, notified, missed>>

InfoIds == DOMAIN Infos

Init ==
  /\ pc = "callbacks"
  /\ queued = 0 /\ kinfos = <<>>
  /\ loadIndex = [i \in InfoIds |-> 0]
  /\ khandlers = {}
  /\ waitingForAlreadyLoadedKexts = FALSE /\ activated = FALSE
  /\ walk = <<>>
  /\ GPU = FALSE /\ rMMIO = FALSE
  /\ kmods = <<>> /\ loading = None /\ loads = 0
  /\ notified = [i \in InfoIds |-> 0]
  /\ missed = {}

Go(from, to) == pc = from /\ pc' = to

(* processPatcherLoadCallbacks first runs the patcher callbacks.  NDeck's   *)
(* finds the GPU or panics.                                                 *)
ProcessPatcherForgets ==
  /\ Go("callbacks", "queue")
  /\ UNCHANGED <<initVars, khandlers, waitingForAlreadyLoadedKexts, activated,
                 walk, GPU, rMMIO, listVars, notified, missed>>

ProcessPatcher ==
  /\ Go("callbacks", "queue")
  /\ GPU' = TRUE
  /\ UNCHANGED <<initVars, khandlers, waitingForAlreadyLoadedKexts, activated,
                 walk, rMMIO, listVars, notified, missed>>

ProcessPatcherPanics ==
  /\ Go("callbacks", "panic")
  /\ UNCHANGED <<initVars, khandlers, waitingForAlreadyLoadedKexts, activated,
                 walk, GPU, rMMIO, listVars, notified, missed>>

(* Then it goes through the KextInfos.                                      *)
QueueNext ==
  /\ pc = "queue" /\ queued < Len(Infos)
  /\ queued' = queued + 1
  /\ UNCHANGED <<pc, activated, walk, GPU, rMMIO, listVars, notified, missed>>

Wanted == Infos[queued + 1].kext

Indexed(n) == loadIndex' = [loadIndex EXCEPT ![queued + 1] = n]

(* A new kinfo goes to the end; index 0 is the kernel's.                    *)
FreshIndex == Len(kinfos) + 1

(* loadKinfo finds the kext among the kinfos (AlreadyDone).                 *)
NextIndex(k) == FreshIndex
IndexOf(k) == CHOOSE n \in DOMAIN kinfos : kinfos[n] = k

QueueKnown ==
  /\ QueueNext
  /\ Wanted \in Range(kinfos)
  /\ Indexed(IndexOf(Wanted))
  /\ UNCHANGED <<kinfos, khandlers, waitingForAlreadyLoadedKexts>>

(* It cannot load the kext's binary: missing, unused or out of memory.      *)
QueueUnavailable ==
  /\ QueueNext
  /\ Wanted \notin Range(kinfos)
  /\ UNCHANGED <<kinfos, loadIndex, khandlers, waitingForAlreadyLoadedKexts>>

QueueNew ==
  /\ QueueNext
  /\ Wanted \notin Range(kinfos)
  /\ kinfos' = Append(kinfos, Wanted)
  /\ Indexed(FreshIndex)
  /\ khandlers' = khandlers \cup {[id |-> Wanted, index |-> FreshIndex]}
  /\ waitingForAlreadyLoadedKexts' = TRUE

(* Hooking the kext loader or storing the handler fails: the kext has an    *)
(* index and no handler, and the KextInfos after it are not looked at.      *)
QueueAborts ==
  /\ pc = "queue" /\ queued < Len(Infos)
  /\ Wanted \notin Range(kinfos)
  /\ kinfos' = Append(kinfos, Wanted)
  /\ Indexed(FreshIndex)
  /\ queued' = Len(Infos)
  /\ waitingForAlreadyLoadedKexts' \in {waitingForAlreadyLoadedKexts, TRUE}
  /\ UNCHANGED <<pc, khandlers, activated, walk, GPU, rMMIO, listVars, notified, missed>>

(* userPatcher.init decides whether Lilu goes on or gives up for good.      *)
UserPatcherInit ==
  /\ queued = Len(Infos)
  /\ Go("queue", "activate") \/ Go("queue", "failed")
  /\ UNCHANGED <<initVars, khandlers, waitingForAlreadyLoadedKexts, activated, walk,
                 GPU, rMMIO, listVars, notified, missed>>

(* The handlers for the kexts of a set, and the call of one of them: every  *)
(* module compares the index; the handler is not reloadable and is erased.  *)
HandlersAny(ks) == {h \in khandlers : h.id \notin Mismatched}
HandlersFor(ks) == {h \in khandlers : h.id \in ks \ Mismatched}

Told(ks) == {i \in InfoIds : \E h \in HandlersFor(ks) : h.index = loadIndex[i]}

KeepHandlers(ks) == khandlers
EraseHandlers(ks) == khandlers \ HandlersFor(ks)

ProcessKexts(ks) ==
  /\ notified' = [i \in InfoIds |-> IF i \in Told(ks) THEN notified[i] + 1 ELSE notified[i]]
  /\ rMMIO' = (rMMIO \/ \E i \in Told(ks) : Infos[i].initHW)
  /\ khandlers' = EraseHandlers(ks)
  /\ UNCHANGED <<initVars, GPU, missed>>

(* processAlreadyLoadedKexts reads the head of the list, if some handler    *)
(* asks for it, and follows the links.                                      *)
AfterHead(list) == IF list = <<>> THEN list ELSE Tail(list)
FromHead(list) == list

ReadHead ==
  /\ Go("activate", "walk")
  /\ walk' = IF waitingForAlreadyLoadedKexts THEN FromHead(kmods) ELSE <<>>
  /\ UNCHANGED <<initVars, khandlers, waitingForAlreadyLoadedKexts, activated,
                 GPU, rMMIO, listVars, notified, missed>>

WalkStep ==
  /\ pc = "walk" /\ walk # <<>>
  /\ walk' = Tail(walk)
  /\ ProcessKexts({Head(walk)})
  /\ UNCHANGED <<pc, waitingForAlreadyLoadedKexts, activated, listVars>>

WalkEnds ==
  /\ walk = <<>> /\ Go("walk", "flags")
  /\ UNCHANGED <<initVars, khandlers, waitingForAlreadyLoadedKexts, activated, walk,
                 GPU, rMMIO, listVars, notified, missed>>

(* A plain store and a relaxed one: nothing keeps them in program order.    *)
ClearWaiting ==
  /\ pc = "flags" /\ waitingForAlreadyLoadedKexts
  /\ waitingForAlreadyLoadedKexts' = FALSE
  /\ UNCHANGED <<pc, initVars, khandlers, activated, walk, GPU, rMMIO, listVars, notified, missed>>

Activate ==
  /\ pc = "flags" /\ ~activated
  /\ activated' = TRUE
  /\ UNCHANGED <<pc, initVars, khandlers, waitingForAlreadyLoadedKexts, walk, GPU,
                 rMMIO, listVars, notified, missed>>

(* The kernel loads a kext: it enters the list ...                          *)
LoadKext(k) ==
  /\ pc # "panic" /\ loading = None
  /\ loads < MaxLoads /\ k \notin Range(kmods)
  /\ loads' = loads + 1
  /\ kmods' = <<k>> \o kmods
  /\ loading' = k
  /\ missed' = IF pc \in {"walk", "flags"} /\ ~activated THEN missed \cup {k} ELSE missed
  /\ UNCHANGED <<pc, initVars, khandlers, waitingForAlreadyLoadedKexts, activated,
                 walk, GPU, rMMIO, notified>>

(* ... and OSKext::saveLoadedKextPanicList is called, and is hooked.        *)
Hook ==
  /\ pc # "panic" /\ loading # None
  /\ loading' = None
  /\ UNCHANGED <<pc, activated, walk, kmods, loads>>

HookTooEarly ==
  /\ Hook
  /\ ~activated
  /\ UNCHANGED <<initVars, khandlers, waitingForAlreadyLoadedKexts, GPU, rMMIO, notified, missed>>

HookVisitsAll ==
  /\ Hook
  /\ activated /\ waitingForAlreadyLoadedKexts
  /\ ProcessKexts(Range(kmods))
  /\ waitingForAlreadyLoadedKexts' = FALSE

HookNewest ==
  /\ Hook
  /\ activated /\ ~waitingForAlreadyLoadedKexts
  /\ ProcessKexts({Head(kmods)})
  /\ UNCHANGED waitingForAlreadyLoadedKexts

(* The list without the link of k, which is in it once.                     *)
Unlinked(list, k) ==
  IF k \in Range(list)
  THEN LET p == CHOOSE q \in DOMAIN list : list[q] = k
       IN  SubSeq(list, 1, p - 1) \o SubSeq(list, p + 1, Len(list))
  ELSE list

(* OSKext::unload: isKextUnloading makes the hook ignore the call that the  *)
(* original makes.  The kmod that the visit stands on is not unloaded here. *)
UnloadKext(k) ==
  /\ pc # "panic" /\ loading = None
  /\ k \in Range(kmods)
  /\ walk # <<>> => Head(walk) # k
  /\ kmods' = Unlinked(kmods, k)
  /\ walk' = Unlinked(walk, k)
  /\ UNCHANGED <<pc, initVars, khandlers, waitingForAlreadyLoadedKexts, activated,
                 GPU, rMMIO, loading, loads, notified, missed>>

InitThread ==
  \/ ProcessPatcher \/ ProcessPatcherPanics
  \/ QueueKnown \/ QueueUnavailable \/ QueueNew \/ QueueAborts
  \/ UserPatcherInit \/ ReadHead \/ WalkStep \/ WalkEnds \/ ClearWaiting \/ Activate

KernelThread ==
  \/ \E k \in Kexts : LoadKext(k) \/ UnloadKext(k)
  \/ HookTooEarly \/ HookVisitsAll \/ HookNewest

Next == InitThread \/ KernelThread

Spec == Init /\ [][Next]_vars
-------------------------------------------------------------------------------
(* A module patches its kext at most once, although a kext can be seen by   *)
(* the visit and by its own load, and can be unloaded and loaded again.    *)
NotifiedOnce == \A i \in InfoIds : notified[i] <= 1

(* Modules that asked for the same kext hear of it together: none that has  *)
(* an index is left out because its KextInfo came after another one.       *)
HeardTogether ==
  \A i, j \in InfoIds :
    notified[i] > 0 /\ loadIndex[j] > 0 /\ Infos[i].kext = Infos[j].kext
      => notified[j] > 0

(* NDeck's registers are mapped, and its modules run, only after the       *)
(* patcher callback found the GPU that they dereference.                   *)
GPUFirst == (rMMIO \/ \E i \in InfoIds : notified[i] > 0) => GPU

(* The listener has settled: both flags have their final value.            *)
Settled == activated /\ ~waitingForAlreadyLoadedKexts /\ loading = None

(* Its module has a handler in place, its kext is there, and it never heard.*)
Unheard(i) ==
  /\ \E h \in khandlers : h.index = loadIndex[i]
  /\ Infos[i].kext \in Range(kmods)
  /\ notified[i] = 0

(* A module in wait never hears of a kext that is there only if the kext   *)
(* was loaded after the visit had read the head of the list and before the *)
(* activation, or is another binary.                                       *)
OnlyTheWindowIsMissed ==
  Settled => \A i \in InfoIds : Unheard(i) => Infos[i].kext \in missed \cup Mismatched

(* "Loaded: invoke for kext if it is already loaded", as every KextInfo of *)
(* NootedDeck asks: no module in wait misses a kext that is there.         *)
LoadedIsInvoked == Settled => \A i \in InfoIds : ~Unheard(i)

(* The listener keeps the promise of KextNotification: processKext tells   *)
(* of a kext only while it is in the kernel, tells at once every module    *)
(* whose KextInfo got its index, and tells none of them again.             *)
Promise == INSTANCE KextNotification
             WITH KextOf <- [i \in InfoIds |-> Infos[i].kext],
                  present <- Range(kmods),
                  asked <- {i \in InfoIds : loadIndex[i] > 0},
                  heard <- notified
KeepsPromise == Promise!Spec
===============================================================================
