----------------------------- MODULE Registration -----------------------------
(***************************************************************************)
(* How plugins register with Lilu and how Lilu starts working for them.     *)
(* Each plugin's kern_start takes Lilu's access lock, is told whether it may*)
(* load, and then registers patcher callbacks and kext lists (NootedDeck:   *)
(* those of every module, then ProcessPatcher).  The first kernel thread    *)
(* that enables the console closes registration and fires performCommonInit *)
(* on a thread of its own.  That thread waits for PCI, builds the device    *)
(* list, runs the callbacks one by one and then takes the kext lists; it    *)
(* may panic on the way, and may give the kext lists up.                    *)
(***************************************************************************)
EXTENDS Naturals, Sequences, FiniteSets

CONSTANTS
  Plugins,          \* plugins, each in its own kern_start
  Requests,         \* plugin -> what it registers, in order
  Consoles,         \* threads that call PE_initialize_console
  Free              \* no holder of a lock

ASSUME RequestsAssumption == Requests \in [Plugins -> Seq({"patcher", "kexts"})]
ASSUME ThreadsAssumption == Plugins \cap Consoles = {} /\ Free \notin Plugins \cup Consoles

VARIABLES
  startSuccess,     \* Lilu came up: it hooked PE_initialize_console
  access,           \* holder of the API's access lock
  policyLock,       \* holder of Lilu's policy lock
  apiRequestsOver, initialised,
  pluginPc,         \* where each plugin's kern_start is
  consolePc,        \* where each console call is
  patcherLoadedCallbacks, storedKexts,   \* what is registered, by plugin
  initThreads,      \* how many init threads were fired
  pciConfigured,    \* IOPCIConfigured is set on every PCI root
  initPc,           \* where the init thread is
  ran, taken,       \* callbacks it has run, kext lists it has taken
  halted

registrationVars == <<startSuccess, access, policyLock, apiRequestsOver, initialised,
          pluginPc, consolePc, patcherLoadedCallbacks, storedKexts, initThreads,
          pciConfigured, initPc, ran, taken, halted>>
locks == <<access, policyLock>>
flags == <<apiRequestsOver, initialised>>
lists == <<patcherLoadedCallbacks, storedKexts>>
progress == <<pciConfigured, initPc, ran, taken>>

Registered(p) ==
  Cardinality({k \in DOMAIN patcherLoadedCallbacks : patcherLoadedCallbacks[k] = p})
    + Cardinality({k \in DOMAIN storedKexts : storedKexts[k] = p})

RegistrationInit ==
  /\ startSuccess \in BOOLEAN
  /\ access = Free /\ policyLock = Free
  /\ apiRequestsOver = FALSE /\ initialised = FALSE
  /\ pluginPc = [p \in Plugins |-> "start"]
  /\ consolePc = [c \in Consoles |-> "call"]
  /\ patcherLoadedCallbacks = <<>> /\ storedKexts = <<>>
  /\ initThreads = 0
  /\ pciConfigured = FALSE /\ initPc = "devices" /\ ran = 0 /\ taken = 0
  /\ halted = FALSE

PluginGo(p, from, to) ==
  /\ ~halted
  /\ pluginPc[p] = from
  /\ pluginPc' = [pluginPc EXCEPT ![p] = to]
  /\ UNCHANGED <<startSuccess, policyLock, flags, consolePc, initThreads, progress, halted>>

(* requestAccess without check: blocks on the lock, or finds Lilu offline.  *)
Offline(p) == ~startSuccess /\ PluginGo(p, "start", "refused") /\ UNCHANGED <<access, lists>>

RequestAccess(p) ==
  /\ startSuccess
  /\ access = Free
  /\ PluginGo(p, "start", "granted")
  /\ access' = p
  /\ UNCHANGED lists

IgnoresOver == FALSE
TooLateWhen == apiRequestsOver

TooLate(p) ==
  /\ TooLateWhen
  /\ PluginGo(p, "granted", "refused")
  /\ access' = Free
  /\ UNCHANGED lists

(* shouldLoad says yes, and pluginStart begins ...                          *)
ShouldLoad(p) ==
  /\ ~TooLateWhen
  /\ PluginGo(p, "granted", "starting")
  /\ UNCHANGED <<access, lists>>

(* ... or no: run mode, a boot argument or the kernel's version.            *)
ShouldNotLoad(p) ==
  /\ ~TooLateWhen
  /\ PluginGo(p, "granted", "refused")
  /\ access' = Free
  /\ UNCHANGED lists

(* onPatcherLoadForce and onKextLoadForce append to Lilu's lists ...        *)
Register(p) ==
  /\ Registered(p) < Len(Requests[p])
  /\ PluginGo(p, "starting", "starting")
  /\ LET kind == Requests[p][Registered(p) + 1]
     IN \/ /\ kind = "patcher"
           /\ patcherLoadedCallbacks' = Append(patcherLoadedCallbacks, p)
           /\ UNCHANGED storedKexts
        \/ /\ kind = "kexts"
           /\ storedKexts' = Append(storedKexts, p)
           /\ UNCHANGED patcherLoadedCallbacks
  /\ UNCHANGED access

(* ... or panic, when a list cannot grow; pluginStart may panic before.     *)
RegisterPanics(p) ==
  /\ ~halted /\ pluginPc[p] = "starting"
  /\ Registered(p) < Len(Requests[p])
  /\ halted' = TRUE
  /\ UNCHANGED <<startSuccess, locks, flags, pluginPc, consolePc, lists, initThreads, progress>>

ReleaseAccess(p) ==
  /\ Registered(p) = Len(Requests[p])
  /\ PluginGo(p, "starting", "started")
  /\ access' = Free
  /\ UNCHANGED lists

ConsoleGo(c, from, to) ==
  /\ ~halted /\ startSuccess
  /\ consolePc[c] = from
  /\ consolePc' = [consolePc EXCEPT ![c] = to]
  /\ UNCHANGED <<startSuccess, pluginPc, lists, progress, halted>>

(* initConsole: another operation, or the unlocked test finds the flag set: *)
(* only the original function is called.                                    *)
PassThrough(c) ==
  /\ ConsoleGo(c, "call", "original")
  /\ UNCHANGED <<locks, flags, initThreads>>

FirstTest(c) ==
  /\ ~initialised
  /\ ConsoleGo(c, "call", "lock")
  /\ UNCHANGED <<locks, flags, initThreads>>

LockPolicy(c) ==
  /\ policyLock = Free
  /\ ConsoleGo(c, "lock", "test")
  /\ policyLock' = c
  /\ UNCHANGED <<access, flags, initThreads>>

NeverInitialised == FALSE
AlreadyInitialised == initialised

SecondTest(c) ==
  /\ ConsoleGo(c, "test", IF AlreadyInitialised THEN "unlock" ELSE "finalise")
  /\ UNCHANGED <<locks, flags, initThreads>>

(* finaliseRequests waits for the plugin that holds the access lock.        *)
MayFinalise == access = Free

FinaliseRequests(c) ==
  /\ MayFinalise
  /\ ConsoleGo(c, "finalise", "mark")
  /\ apiRequestsOver' = TRUE
  /\ UNCHANGED <<locks, initialised, initThreads>>

MarkInitialised(c) ==
  /\ ConsoleGo(c, "mark", "fire")
  /\ initialised' = TRUE
  /\ UNCHANGED <<locks, apiRequestsOver, initThreads>>

(* thread_call_allocate may give no thread, and then nothing is fired.      *)
FireInit(c) ==
  /\ ConsoleGo(c, "fire", "unlock")
  /\ initThreads' \in {initThreads, initThreads + 1}
  /\ UNCHANGED <<locks, flags>>

UnlockPolicy(c) ==
  /\ ConsoleGo(c, "unlock", "original")
  /\ policyLock' = Free
  /\ UNCHANGED <<access, flags, initThreads>>

(* The kernel configures PCI in its own time.                               *)
ConfigurePCI ==
  /\ ~halted /\ ~pciConfigured
  /\ pciConfigured' = TRUE
  /\ UNCHANGED <<startSuccess, locks, flags, pluginPc, consolePc, lists, initThreads, initPc,
                 ran, taken, halted>>

(* A step of performCommonInit.                                             *)
InitAt(from) ==
  /\ ~halted /\ initThreads > 0 /\ initPc = from
  /\ UNCHANGED <<startSuccess, locks, flags, pluginPc, consolePc, lists, initThreads, pciConfigured>>

InitGo(from, to) == InitAt(from) /\ initPc' = to /\ UNCHANGED halted
InitPanics(from) == InitAt(from) /\ halted' = TRUE /\ UNCHANGED <<initPc, ran, taken>>

(* createCached waits for IOPCIConfigured without a bound, and panics when  *)
(* it gets no list.                                                         *)
CreateDevices == pciConfigured /\ InitGo("devices", "callbacks") /\ UNCHANGED <<ran, taken>>
CreatePanics == InitPanics("devices")

(* processPatcherLoadCallbacks runs the callbacks one after the other: each *)
(* returns or panics.                                                       *)
StopsEarly == ran + 1 < Len(patcherLoadedCallbacks)
MoreToRun == ran < Len(patcherLoadedCallbacks)

RunCallback ==
  /\ MoreToRun
  /\ InitGo("callbacks", "callbacks")
  /\ ran' = ran + 1 /\ UNCHANGED taken
CallbackPanics == MoreToRun /\ InitPanics("callbacks")

CallbacksOver == ~MoreToRun /\ InitGo("callbacks", "kexts") /\ UNCHANGED <<ran, taken>>

(* Then it queues the kexts of each list, and gives up the rest when one    *)
(* cannot be waited on.                                                     *)
TakesTooFew == taken + 1 < Len(storedKexts)
MoreToTake == taken < Len(storedKexts)

TakeKexts ==
  /\ MoreToTake
  /\ InitGo("kexts", "kexts")
  /\ taken' = taken + 1 /\ UNCHANGED ran
KextsAborted == MoreToTake /\ InitGo("kexts", "aborted") /\ UNCHANGED <<ran, taken>>
KextsOver == ~MoreToTake /\ InitGo("kexts", "over") /\ UNCHANGED <<ran, taken>>

CommonInit ==
  \/ CreateDevices \/ CreatePanics \/ RunCallback \/ CallbackPanics \/ CallbacksOver
  \/ TakeKexts \/ KextsAborted \/ KextsOver

PluginStep(p) ==
  \/ Offline(p) \/ RequestAccess(p) \/ TooLate(p) \/ ShouldLoad(p)
  \/ ShouldNotLoad(p) \/ Register(p) \/ RegisterPanics(p) \/ ReleaseAccess(p)

ConsoleStep(c) ==
  \/ FirstTest(c) \/ LockPolicy(c) \/ SecondTest(c) \/ FinaliseRequests(c)
  \/ MarkInitialised(c) \/ FireInit(c) \/ UnlockPolicy(c)

Quiet ==
  \/ halted
  \/ /\ \A p \in Plugins : pluginPc[p] \in {"started", "refused"}
     /\ \A c \in Consoles : consolePc[c] = "original" \/ ~startSuccess
     /\ initThreads = 0 \/ initPc \in {"over", "aborted"}

RegistrationDone == Quiet /\ UNCHANGED registrationVars

RegistrationNext ==
  \/ \E p \in Plugins : PluginStep(p)
  \/ \E c \in Consoles : PassThrough(c) \/ ConsoleStep(c)
  \/ ConfigurePCI \/ CommonInit \/ RegistrationDone

RegistrationSpec == RegistrationInit /\ [][RegistrationNext]_registrationVars
-------------------------------------------------------------------------------
PluginPcs == {"start", "granted", "starting", "started", "refused"}
ConsolePcs == {"call", "lock", "test", "finalise", "mark", "fire", "unlock", "original"}

(* The values the two lock protocols' variables take.                      *)
TypeOK ==
  /\ startSuccess \in BOOLEAN /\ halted \in BOOLEAN
  /\ apiRequestsOver \in BOOLEAN /\ initialised \in BOOLEAN
  /\ access \in Plugins \cup {Free}
  /\ policyLock \in Consoles \cup {Free}
  /\ pluginPc \in [Plugins -> PluginPcs]
  /\ consolePc \in [Consoles -> ConsolePcs]
  /\ patcherLoadedCallbacks \in Seq(Plugins) /\ storedKexts \in Seq(Plugins)
  /\ pciConfigured \in BOOLEAN
  /\ initPc \in {"devices", "callbacks", "kexts", "over", "aborted"}
  /\ initThreads \in Nat /\ ran \in Nat /\ taken \in Nat

(* Once registration is closed, every plugin is in the lists with all it     *)
(* registers or not at all, and has left its start: closing never cuts a   *)
(* start in two, and the init thread never walks a list that is growing.   *)
StartedWholly ==
  apiRequestsOver =>
    \A p \in Plugins : /\ Registered(p) \in {0, Len(Requests[p])}
                       /\ Registered(p) > 0 => pluginPc[p] = "started"

(* However the console calls interleave, Lilu initialises at most once.    *)
InitialisedOnce == initThreads <= 1

(* Once an init thread was fired and PCI is configured, a plugin that      *)
(* started gets all its patcher callbacks run and all its kext lists       *)
(* taken, unless something panics; only the kext lists may be given up.    *)
Pending(list, done) == {list[k] : k \in done + 1 .. Len(list)}
StartedGetsCalled ==
  \A p \in Plugins :
    (pluginPc[p] = "started" /\ initThreads > 0 /\ pciConfigured)
      ~> \/ halted
         \/ /\ p \notin Pending(patcherLoadedCallbacks, ran)
            /\ p \in Pending(storedKexts, taken) => initPc = "aborted"
===============================================================================
