---------------------------------- MODULE Boot ----------------------------------
(***************************************************************************)
(* Registration and Probe as one machine.  NootedDeck is one of the        *)
(* plugins: shouldLoad decides on it, StartModule runs inside its start,   *)
(* the device search is the init thread's first work, and ProcessPatcher   *)
(* is the last patcher callback it registers.  Where it panics, everything *)
(* halts.  Each step is a step of one part, or of both at once.            *)
(***************************************************************************)
EXTENDS Registration, Probe

CONSTANT NootedDeck

ASSUME DeckAssumption == NootedDeck \in Plugins

bootVars == <<registrationVars, probeVars>>

BootInit == RegistrationInit /\ ProbeInit

(* kern_start of NootedDeck: the plugin has no argument that disables it   *)
(* and runs in every mode, so that only the kernel can refuse it.          *)
DeckAsks ==
  /\ Offline(NootedDeck) \/ RequestAccess(NootedDeck) \/ TooLate(NootedDeck)
  /\ UNCHANGED probeVars

DeckLoads ==
  /\ Load
  /\ \/ stage' = "start" /\ ShouldLoad(NootedDeck)
     \/ stage' = "refused" /\ ShouldNotLoad(NootedDeck)

DeckStarts ==
  /\ ~halted /\ pluginPc[NootedDeck] = "starting"
  /\ StartModule
  /\ \/ stage' = "create" /\ UNCHANGED registrationVars
     \/ stage' = "panic" /\ RegisterPanics(NootedDeck)

DeckRegisters ==
  /\ stage = "create"
  /\ Register(NootedDeck) \/ RegisterPanics(NootedDeck) \/ ReleaseAccess(NootedDeck)
  /\ UNCHANGED probeVars

OthersStep ==
  /\ \/ \E p \in Plugins \ {NootedDeck} : PluginStep(p)
     \/ \E c \in Consoles : PassThrough(c) \/ ConsoleStep(c)
     \/ ConfigurePCI
  /\ UNCHANGED probeVars
-------------------------------------------------------------------------------
(* createCached looks at the devices once PCI is configured.  Without the  *)
(* plugin nobody asks what it found.                                       *)
StillSearched == stage \in {"create", "grab"}

SearchDevices ==
  /\ ~halted /\ initThreads > 0 /\ initPc = "devices" /\ pciConfigured
  /\ Create \/ Grab
  /\ UNCHANGED registrationVars

DevicesFound == CreateDevices /\ (Grabbed \/ (~StillSearched /\ UNCHANGED probeVars))
DevicesPanic == CreatePanics /\ stage # "grab" /\ UNCHANGED probeVars

(* It is ProcessPatcher's turn.                                            *)
DeckTurn ==
  /\ ~halted /\ initThreads > 0 /\ initPc = "callbacks" /\ MoreToRun
  /\ patcherLoadedCallbacks[ran + 1] = NootedDeck
  /\ \A k \in ran + 2 .. Len(patcherLoadedCallbacks) : patcherLoadedCallbacks[k] # NootedDeck

ProcessPatcher ==
  /\ DeckTurn
  /\ SwitchOff \/ SwitchOffInternal \/ FindGPU \/ RenameExternal \/ RouteKernel
  /\ CASE stage' = "panic" -> CallbackPanics
       [] stage' = "routed" -> RunCallback
       [] OTHER -> UNCHANGED registrationVars

OtherCallback == ~DeckTurn /\ RunCallback /\ UNCHANGED probeVars
OtherPanics == ~DeckTurn /\ CallbackPanics /\ UNCHANGED probeVars

QueueKexts ==
  /\ CallbacksOver \/ TakeKexts \/ KextsAborted \/ KextsOver
  /\ UNCHANGED probeVars

(* The init thread goes on, in its own code or in a callback's.            *)
InitGoesOn == SearchDevices \/ DevicesFound \/ ProcessPatcher \/ OtherCallback \/ QueueKexts

BootDone == Quiet /\ UNCHANGED bootVars

BootNext ==
  \/ DeckAsks \/ DeckLoads \/ DeckStarts \/ DeckRegisters \/ OthersStep
  \/ InitGoesOn \/ DevicesPanic \/ OtherPanics \/ BootDone

(* The init thread, once fired, is scheduled.  Its one wait without a      *)
(* bound is for PCI, which nothing here makes happen.                      *)
BootSpec == BootInit /\ [][BootNext]_bootVars /\ WF_bootVars(InitGoesOn)
-------------------------------------------------------------------------------
(* Lilu queues the first kext only when ProcessPatcher has found the GPU   *)
(* and hooked the kernel, if NootedDeck started: no module of it is told   *)
(* of a kext before.                                                       *)
KextsComeAfterProbe ==
  (pluginPc[NootedDeck] = "started" /\ initPc \in {"kexts", "over", "aborted"})
    => stage = "routed"
===============================================================================
