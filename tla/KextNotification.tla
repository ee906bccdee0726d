--------------------------- MODULE KextNotification ---------------------------
(***************************************************************************)
(* What the modules of NootedDeck may rely on.  Modules ask for kexts; when *)
(* the GPU is found, a kext that is in the kernel is announced to all that *)
(* asked for it in one step, and to each of them once.  When the first one *)
(* has heard, nobody can ask any more.  A kext may never be announced.     *)
(***************************************************************************)
EXTENDS Naturals

CONSTANTS InfoIds, Kexts, KextOf
VARIABLES
  GPU,
  present,          \* kexts in the kernel
  asked,            \* KextInfos whose module waits for its kext, or did
  heard             \* how often each of them was announced

promiseVars == <<GPU, present, asked, heard>>

Init ==
  /\ GPU = FALSE /\ present = {} /\ asked = {}
  /\ heard = [i \in InfoIds |-> 0]

Probe ==
  /\ GPU = FALSE /\ GPU' = TRUE
  /\ UNCHANGED <<present, asked, heard>>

Ask(i) ==
  /\ \A n \in InfoIds : heard[n] = 0
  /\ asked' = asked \cup {i}
  /\ UNCHANGED <<GPU, present, heard>>

Load(k) == present' = present \cup {k} /\ UNCHANGED <<GPU, asked, heard>>
Unload(k) == present' = present \ {k} /\ UNCHANGED <<GPU, asked, heard>>

(* Those that asked for one of the kexts ks.                               *)
Concerned(ks) == {i \in asked : KextOf[i] \in ks}

Announce(ks) ==
  /\ GPU = TRUE /\ ks \subseteq present
  /\ \A i \in Concerned(ks) : heard[i] = 0
  /\ heard' = [i \in InfoIds |-> IF i \in Concerned(ks) THEN heard[i] + 1 ELSE heard[i]]
  /\ UNCHANGED <<GPU, present, asked>>

Next ==
  \/ Probe
  \/ \E i \in InfoIds : Ask(i)
  \/ \E k \in Kexts : Load(k) \/ Unload(k)
  \/ \E ks \in SUBSET Kexts : Announce(ks)

Spec == Init /\ [][Next]_promiseVars
===============================================================================
