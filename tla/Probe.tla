--------------------------------- MODULE Probe ---------------------------------
(***************************************************************************)
(* How the plugin meets the machine: the kernel it is let into, Lilu's     *)
(* search for the video devices and the ones the user switched off, then   *)
(* ProcessPatcher: the GPU is found, renamed and described, the external   *)
(* devices after it, and the kernel is hooked.  A child of the PCI root is *)
(* a device or a bridge with devices behind it.  The kernel and the        *)
(* machine are chosen where the code first looks at them.                  *)
(***************************************************************************)
EXTENDS Integers, Sequences

CONSTANTS
  Kernels,      \* the major versions that may boot
  Machines,     \* sequences of [bridge, devices, audio]
  Slots,        \* where a device sits: its identity
  NoDevice

(* Every device sits in a slot of its own.                                 *)
OwnSlots(m) ==
  /\ Len(m) \in Nat /\ DOMAIN m = 1..Len(m)
  /\ \A a, c \in DOMAIN m : \A x \in DOMAIN m[a].devices, y \in DOMAIN m[c].devices :
       /\ m[a].devices[x] # NoDevice /\ m[a].devices[x].slot \in Slots
       /\ m[a].devices[x].slot = m[c].devices[y].slot => a = c /\ x = y

ASSUME MachinesAssumption == \A m \in Machines : OwnSlots(m)

VARIABLES
  kernel, machine,                     \* what is booted, and
  switchOffAll, gpuSwitch,             \* what was asked of it: fixed
  stage, reason,                          \* where the boot is; why it panicked
  i, j,                                \* the loop counters
  videoBuiltin, videoExternal,         \* of DeviceInfo
  terminated,                          \* slots of the devices switched off
  name, model                          \* of each slot: its name, its "model" property

boot == <<kernel, machine, switchOffAll, gpuSwitch>>
info == <<videoBuiltin, videoExternal, terminated>>
described == <<name, model>>
probeVars == <<boot, stage, reason, i, j, info, described>>

ProbeInit ==
  /\ kernel = 0 /\ machine = <<>> /\ switchOffAll = FALSE /\ gpuSwitch = FALSE
  /\ stage = "load" /\ reason = "none" /\ i = 1 /\ j = 0
  /\ videoBuiltin = NoDevice /\ videoExternal = <<>> /\ terminated = {}
  /\ name = [s \in Slots |-> <<>>] /\ model = [s \in Slots |-> "none"]

PanicOver(why) == stage' = "panic" /\ reason' = why
-------------------------------------------------------------------------------
(* The plugin configuration admits Big Sur to Tahoe.                       *)
BigSur == 20
Monterey == 21
Ventura == 22
Sonoma == 23
Sequoia == 24
Tahoe == 25

(* shouldLoad lets in another kernel only under -lilubetaall.              *)
Load ==
  /\ stage = "load"
  /\ kernel' \in Kernels
  /\ \E betaForAll \in BOOLEAN :
       stage' = IF kernel' \in BigSur..Tahoe \/ betaForAll THEN "start" ELSE "refused"
  /\ UNCHANGED <<machine, switchOffAll, gpuSwitch, reason, i, j, info, described>>

(* StartModule takes its attributes from the version, or does not know it. *)
StartModule ==
  /\ stage = "start"
  /\ IF kernel \in {BigSur, Monterey, Ventura, Sonoma, Sequoia, Tahoe}
       THEN stage' = "create" /\ UNCHANGED reason
       ELSE PanicOver("kernel")
  /\ UNCHANGED <<boot, i, j, info, described>>
-------------------------------------------------------------------------------
(* DeviceInfo::create reads what the boot arguments ask for.               *)
Create ==
  /\ stage = "create"
  /\ machine' \in Machines /\ switchOffAll' \in BOOLEAN /\ gpuSwitch' \in BOOLEAN
  /\ stage' = "grab"
  /\ UNCHANGED <<kernel, reason, i, j, info, described>>

(* checkForAndSetAMDiGPU goes by the high byte of the device.              *)
IsIGPU(d) ==
  d.vendor = "AMD" /\ d.family \in {"13", "14", "15", "16", "19", "96", "98", "99"}

(* The last of the devices at the places ks, each found replacing the one  *)
(* before.                                                                 *)
LastAt(devices, ks) ==
  IF ks = {} THEN {NoDevice} ELSE {devices[k] : k \in {l \in ks : \A m \in ks : m <= l}}
Builtins(child) ==
  {k \in DOMAIN child.devices :
     IsIGPU(child.devices[k]) \/ (~child.bridge /\ child.devices[k].vendor = "Intel")}
Externals(child) == {k \in DOMAIN child.devices : ~IsIGPU(child.devices[k])}

(* grabDevicesFromPciRoot, one child of the root: behind a bridge the last *)
(* video device that is no iGPU is the external one, unless the bridge has *)
(* AZAL audio.                                                             *)
Grab ==
  /\ stage = "grab" /\ i <= Len(machine)
  /\ \E builtin \in LastAt(machine[i].devices, Builtins(machine[i])) :
       videoBuiltin' = IF builtin = NoDevice THEN videoBuiltin ELSE builtin
  /\ \E external \in LastAt(machine[i].devices, Externals(machine[i])) :
       videoExternal' = IF machine[i].bridge /\ external # NoDevice /\ machine[i].audio # "AZAL"
                          THEN Append(videoExternal, external) ELSE videoExternal
  /\ i' = i + 1
  /\ UNCHANGED <<boot, stage, reason, j, terminated, described>>

Grabbed ==
  /\ stage = "grab" /\ i > Len(machine)
  /\ stage' = "off" /\ i' = 1
  /\ UNCHANGED <<boot, reason, j, info, described>>

(* processSwitchOff: a device that is terminated leaves the vector, and    *)
(* the same index is looked at again.                                      *)
RemoveAt(s, k) == [x \in 1..(Len(s) - 1) |-> IF x < k THEN s[x] ELSE s[x + 1]]

SwitchOffSkipping ==
  /\ stage = "off" /\ i <= Len(videoExternal)
  /\ LET d == videoExternal[i]
     IN IF (switchOffAll \/ d.off) /\ d.service
          THEN videoExternal' = RemoveAt(videoExternal, i) /\ terminated' = terminated \cup {d.slot}
          ELSE UNCHANGED <<videoExternal, terminated>>
  /\ i' = i + 1
  /\ UNCHANGED <<boot, stage, reason, j, videoBuiltin, described>>

SwitchOff ==
  /\ stage = "off" /\ i <= Len(videoExternal)
  /\ LET d == videoExternal[i]
     IN IF (switchOffAll \/ d.off) /\ d.service
          THEN /\ videoExternal' = RemoveAt(videoExternal, i)
               /\ terminated' = terminated \cup {d.slot}
               /\ UNCHANGED i
          ELSE i' = i + 1 /\ UNCHANGED <<videoExternal, terminated>>
  /\ UNCHANGED <<boot, stage, reason, j, videoBuiltin, described>>

SwitchOffInternal ==
  /\ stage = "off" /\ i > Len(videoExternal)
  /\ IF videoBuiltin # NoDevice /\ videoBuiltin.service
          /\ (videoBuiltin.off \/ (gpuSwitch /\ videoExternal # <<>>))
       THEN videoBuiltin' = NoDevice /\ terminated' = terminated \cup {videoBuiltin.slot}
       ELSE UNCHANGED <<videoBuiltin, terminated>>
  /\ stage' = "gpu" /\ i' = 1
  /\ UNCHANGED <<boot, reason, j, videoExternal, described>>
-------------------------------------------------------------------------------
(* GetSKUForDevice gives a device of the table one of its strings.         *)
SKUs == {"163F", "1435"}
GetSKUForDevice(d) == IF d.id \in SKUs THEN "SKU" ELSE "none"

(* Rename, await publishing, UpdateProperties.                             *)
Describe(d, newName) ==
  /\ name' = [name EXCEPT ![d.slot] = newName]
  /\ model' = [model EXCEPT ![d.slot] = GetSKUForDevice(d)]

IsPCI(d) == IF d = NoDevice THEN FALSE ELSE d.pci

FindGPUAmong(ids) ==
  /\ stage = "gpu"
  /\ CASE ~IsPCI(videoBuiltin) -> PanicOver("not PCI") /\ UNCHANGED described
       [] IsPCI(videoBuiltin) /\ videoBuiltin.vendor # "AMD" ->
            PanicOver("not AMD") /\ UNCHANGED described
       [] OTHER ->
            /\ Describe(videoBuiltin, <<"IGPU">>)
            /\ IF videoBuiltin.id \in ids
                 THEN stage' = "externals" /\ UNCHANGED reason
                 ELSE PanicOver("device")
  /\ UNCHANGED <<boot, i, j, info>>

FindAerithOnly == FindGPUAmong({"163F"})
FindGPU == FindGPUAmong({"163F", "1640"})

(* GFXj for the j-th external device that is a PCI device.                 *)
External(number) ==
  /\ stage = "externals" /\ i <= Len(videoExternal)
  /\ IF videoExternal[i].pci
       THEN Describe(videoExternal[i], <<"GFX", number>>) /\ j' = j + 1
       ELSE UNCHANGED <<described, j>>
  /\ i' = i + 1
  /\ UNCHANGED <<boot, stage, reason, info>>

RenameExternalByIndex == External(i - 1)
RenameExternal == External(j)

(* routeMultipleLong on the kernel; deleting DevInfo changes nothing here. *)

RouteKernel ==
  /\ stage = "externals" /\ i > Len(videoExternal)
  /\ (stage' = "routed" /\ UNCHANGED reason) \/ PanicOver("route")
  /\ UNCHANGED <<boot, i, j, info, described>>

ProbeDone == stage \in {"routed", "panic", "refused"} /\ UNCHANGED probeVars

ProbeNext == Load \/ StartModule \/ Create \/ Grab \/ Grabbed \/ SwitchOff \/ SwitchOffInternal
          \/ FindGPU \/ RenameExternal \/ RouteKernel \/ ProbeDone

ProbeSpec == ProbeInit /\ [][ProbeNext]_probeVars
-------------------------------------------------------------------------------
Devices == UNION {{machine[k].devices[x] : x \in DOMAIN machine[k].devices} : k \in DOMAIN machine}
Candidates ==
  UNION {{machine[k].devices[x] : x \in Builtins(machine[k])} : k \in DOMAIN machine}

(* Every kernel the configuration admits is one that StartModule knows.    *)
(* Where Lilu has one candidate for the built-in GPU, and that is an AMD   *)
(* PCI device with an id ProcessPatcher names (0x163F, 0x1640) that was    *)
(* left on, nothing panics before the kernel is hooked, wherever the GPU   *)
(* sits and whatever sits behind the bridges.                              *)
PanicIsEarned ==
  /\ reason = "kernel" => kernel \notin BigSur..Tahoe
  /\ /\ ~gpuSwitch
     /\ \E d \in Candidates : /\ Candidates = {d} /\ d.pci /\ ~d.off
                              /\ d.vendor = "AMD" /\ d.id \in {"163F", "1640"}
     => reason \in {"none", "route"}

(* A device that the SKU table describes as a Van Gogh, "Aerith" or        *)
(* "Sephiroth", is not one that ProcessPatcher calls unknown.              *)
ListedIsKnown == reason = "device" => videoBuiltin.id \notin SKUs

(* No two devices get the same name, and the external ones are numbered    *)
(* from 0 without gaps.                                                    *)
NamesAreDistinct ==
  /\ \A s, t \in Slots : name[s] = name[t] /\ name[s] # <<>> => s = t
  /\ {name[s] : s \in {t \in Slots : name[t] # <<>> /\ name[t] # <<"IGPU">>}}
       = {<<"GFX", n>> : n \in 0..(j - 1)}

(* Once the switching off is over, no device that was asked off and can be *)
(* terminated is renamed, described or used as the GPU.                    *)
SwitchedOffIsLeftAlone ==
  stage \in {"gpu", "externals", "routed"} =>
    /\ \A k \in DOMAIN videoExternal :
         (switchOffAll \/ videoExternal[k].off) => ~videoExternal[k].service
    /\ \A s \in terminated : name[s] = <<>> /\ model[s] = "none"
===============================================================================
