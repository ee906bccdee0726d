----------------------------- MODULE KextPatching -----------------------------
(***************************************************************************)
(* What the modules of NootedDeck do to a kext once it is announced: the   *)
(* ProcessKext of each is a list of requests to the one KernelPatcher,     *)
(* through Patcher+ or directly.  The modules on a kext run one after the  *)
(* other, in the order they were started, and share the patcher's error    *)
(* code and its pool of trampolines.  A hook can be called by the driver   *)
(* as soon as its jump is written, while later requests are still open.    *)
(***************************************************************************)
EXTENDS Naturals, Sequences, Functions, FiniteSets

CONSTANT MaxLost    \* bound: functions that cannot be routed for want of memory

ASSUME LostAssumption == MaxLost \in Nat

(* A request: its kind, what it names, whether a byte pattern stands in for *)
(* the symbol, and how many requests a failure skips (0 is a panic).        *)
Request(op, names, pattern, onFail) ==
  [op |-> op, names |-> names, pattern |-> pattern, onFail |-> onFail]
Solve(n, pattern) == Request("solve", <<n>>, pattern, 0)
Route(n, pattern) == Request("route", <<n>>, pattern, 0)
Patch(n)          == Request("patch", <<n>>, FALSE, 0)      \* plain bytes
MaskedPatch(n)    == Request("masked", <<n>>, FALSE, 0)
KernelWrite(n)    == Request("write", <<n>>, FALSE, 0)
ClearError        == Request("clear", <<>>, FALSE, 1)
OrLog(r)          == [r EXCEPT !.onFail = 1]
OrSkipNext(r)     == [r EXCEPT !.onFail = 2]
When(b, rs)       == IF b THEN rs ELSE <<>>

AGDP == <<OrLog(Patch("boardID")), OrLog(Patch("fbCount"))>>

HotfixX6000FB(c) ==
  When(c.dpDelay, <<Route("dpReceiverPowerCtrl", TRUE)>>) \o
  When(c.venturaPlus,
    <<Solve("messageAccelerator", FALSE), Route("powerUp", FALSE),
      MaskedPatch("powerUpCount"), Patch("detailedTiming")>>)

BacklightRoutesFirst ==
  <<Route("linkCreate", TRUE), Route("setAttribute", FALSE), Route("getAttribute", FALSE),
    Solve("setBacklightLevel", TRUE), Solve("setBacklightLevelNits", TRUE)>>

BacklightOnFB ==
  <<Solve("setBacklightLevel", TRUE), Solve("setBacklightLevelNits", TRUE),
    Route("linkCreate", TRUE), Route("setAttribute", FALSE), Route("getAttribute", FALSE)>>

BacklightOnAppleBacklight ==
  <<OrSkipNext(Request("routeMultiple", <<"applePanelSetDisplay">>, FALSE, 1)),
    OrLog(Patch("panelName")), ClearError>>

BacklightOnMCCS ==
  <<Request("routeMultiple", <<"gibraltarProbe", "celloProbe">>, FALSE, 1), ClearError>>

DebugOnFB ==
  <<Route("initWithPciInfo", FALSE), Route("doGPUPanic", FALSE), Route("dmLoggerWrite", TRUE),
    Request("find", <<"logEnableMaskMinors">>, TRUE, 0), KernelWrite("logEnableMaskMinors"),
    Patch("populateDcInitData"), Patch("biosParserHelper")>>

X6000FB ==
  <<Solve("asicCapsTable", TRUE), Route("populateVramInfo", TRUE),
    Route("getEnumeratedRevision", FALSE), Route("getNumberOfConnectors", TRUE),
    Request("routeMultiple", <<"createRegisterAccess">>, FALSE, 0),
    MaskedPatch("populateDeviceInfo"), MaskedPatch("firmwareInfoNullCheck"),
    MaskedPatch("vendorInfo"), KernelWrite("asicCapsTable")>>

AppleGFXHDA ==
  <<Patch("hdmiProbe"),
    Request("solveMultiple", <<"functionGroupTahiti", "widget1002AAA0">>, FALSE, 0),
    Request("routeMultiple", <<"createFunctionGroup", "createWidget">>, FALSE, 0)>>

(* The modules in the order NDeck::StartModule starts them.                 *)
Kexts == {"agdp", "framebuffer", "appleBacklight", "mccs", "gfxhda"}
Script(k, c) ==
  CASE k = "agdp"           -> AGDP
    [] k = "framebuffer"    -> HotfixX6000FB(c) \o When(c.backlight, BacklightOnFB)
                                 \o When(c.debug, DebugOnFB) \o X6000FB
    [] k = "appleBacklight" -> When(c.backlight, BacklightOnAppleBacklight)
    [] k = "mccs"           -> When(c.backlight, BacklightOnMCCS)
    [] k = "gfxhda"         -> AppleGFXHDA

(* Hooks that replace a function outright, and what the others dereference: *)
(* the original function and the pointers ProcessKext solved.               *)
NoOriginal == {"doGPUPanic", "dmLoggerWrite", "populateVramInfo", "getEnumeratedRevision",
               "gibraltarProbe", "celloProbe"}
Needs(h) ==
  CASE h \in NoOriginal -> {}
    [] h = "powerUp" -> {h, "messageAccelerator"}
    [] h = "setAttribute" -> {h, "setBacklightLevel", "setBacklightLevelNits"}
    [] h = "createFunctionGroup" -> {h, "functionGroupTahiti"}
    [] h = "createWidget" -> {"createFunctionGroup", "widget1002AAA0"}
    [] OTHER -> {h}

VARIABLES
  config,           \* the boot arguments and the kernel version
  kexts,            \* kexts to come
  kext,             \* the kext in hand
  todo,             \* its requests still open
  queue,            \* functions of the first of them that are solved and to be routed
  code,             \* is the patcher's error code set?
  known,            \* pointers that are not null
  live,             \* functions whose jump is written
  panicked,
  lost,             \* functions that could not be routed for want of memory (history)
  failed            \* did the last request really fail? (history)

vars == <<config, kexts, kext, todo, queue, code, known, live, panicked, lost, failed>>

Configs == [venturaPlus : BOOLEAN, dpDelay : BOOLEAN, debug : BOOLEAN, backlight : BOOLEAN]

Init ==
  /\ config \in Configs
  /\ kexts = Kexts /\ kext = "agdp"
  /\ todo = <<>> /\ queue = <<>>
  /\ code = FALSE
  /\ known = {} /\ live = {}
  /\ panicked = FALSE /\ lost = {} /\ failed = FALSE

(* The listener announces a kext; updateRunningInfo can leave an error.     *)
Announce(k) ==
  /\ ~panicked /\ todo = <<>> /\ k \in kexts
  /\ kexts' = kexts \ {k} /\ kext' = k
  /\ todo' = Script(k, config)
  /\ code' \in {code, TRUE}
  /\ UNCHANGED <<config, queue, known, live, panicked, lost, failed>>

Asked(op) == ~panicked /\ todo # <<>> /\ queue = <<>> /\ Head(todo).op = op
Names == Head(todo).names
Drop(n) == todo' = SubSeq(todo, n + 1, Len(todo))

Succeeds(c) ==
  /\ Drop(1) /\ code' = c /\ failed' = FALSE
  /\ UNCHANGED <<config, kexts, kext, queue, live, panicked, lost>>

(* A request reports a failure: PANIC_COND, or the module goes on.          *)
Fails(c) ==
  /\ code' = c
  /\ IF Head(todo).onFail = 0
       THEN panicked' = TRUE /\ UNCHANGED todo
       ELSE Drop(Head(todo).onFail) /\ UNCHANGED panicked
  /\ queue' = <<>>
  /\ UNCHANGED <<config, kexts, kext, known>>

FailsUnrouted(c) == Fails(c) /\ failed' = TRUE /\ UNCHANGED <<live, lost>>

(* PatternSolveRequest::Solve: by symbol, else by pattern, which leaves the *)
(* symbol's error behind.                                                   *)
PatternSolve ==
  /\ Asked("solve")
  /\ \/ Succeeds(FALSE) /\ known' = known \cup Range(Names)
     \/ Head(todo).pattern /\ Succeeds(TRUE) /\ known' = known \cup Range(Names)
     \/ FailsUnrouted(TRUE)

(* DebugEnabler's own version of it clears the error.                       *)
FindMask ==
  /\ Asked("find")
  /\ \/ Succeeds(FALSE) /\ known' = known \cup Range(Names)
     \/ FailsUnrouted(FALSE)

SolveMultiple ==
  /\ Asked("solveMultiple")
  /\ \/ Succeeds(code) /\ known' = known \cup Range(Names)
     \/ FailsUnrouted(FALSE)

Found(c) ==
  /\ queue' = Names /\ code' = c
  /\ UNCHANGED <<config, kexts, kext, todo, known, live, panicked, lost, failed>>

(* PatternRouteRequest::Route finds the function, then has it routed.       *)
PatternRouteUnchecked ==
  /\ Asked("route")
  /\ \/ Found(FALSE)
     \/ Head(todo).pattern /\ Found(TRUE)
     \/ Succeeds(TRUE) /\ UNCHANGED known

PatternRoute ==
  /\ Asked("route")
  /\ \/ Found(FALSE)
     \/ Head(todo).pattern /\ Found(TRUE)
     \/ FailsUnrouted(TRUE)

(* routeMultiple solves every symbol before it routes the first function.   *)
RouteMultipleForced ==
  /\ Asked("routeMultiple")
  /\ \/ Found(code)
     \/ \E n \in Range(Names) :
          /\ queue' = SelectSeq(Names, LAMBDA m : m # n) /\ queue' # <<>> /\ code' = FALSE
          /\ UNCHANGED <<config, kexts, kext, todo, known, live, panicked, lost, failed>>
     \/ FailsUnrouted(FALSE)

RouteMultiple ==
  /\ Asked("routeMultiple")
  /\ \/ Found(code)
     \/ FailsUnrouted(FALSE)

(* routeFunctionInternal for the first function of the queue: a trampoline  *)
(* for the original, its address to the caller, then the jump.              *)
Routing == ~panicked /\ queue # <<>>
HasTrampoline == Head(queue) \in NoOriginal \cup known

CreateTrampoline ==
  /\ Routing /\ ~HasTrampoline
  /\ known' = known \cup {Head(queue)}
  /\ code' = FALSE
  /\ UNCHANGED <<config, kexts, kext, todo, queue, live, panicked, lost, failed>>

(* The request ends with the last function of the queue.                    *)
Routed ==
  /\ queue' = Tail(queue)
  /\ IF Len(queue) = 1 THEN Drop(1) /\ failed' = FALSE ELSE UNCHANGED <<todo, failed>>
  /\ UNCHANGED <<config, kexts, kext, known, panicked>>

WriteJump ==
  /\ Routing /\ HasTrampoline
  /\ live' = live \cup {Head(queue)}
  /\ Routed
  /\ UNCHANGED <<code, lost>>

(* It returns EINVAL when memory runs out; routeMultiple takes any value    *)
(* but 0 for the address of a trampoline.                                   *)
WrapFails ==
  /\ Routing /\ Head(queue) \notin NoOriginal
  /\ Cardinality(lost) < MaxLost
  /\ lost' = lost \cup {Head(queue)}
  /\ code' = TRUE
  /\ Routed
  /\ UNCHANGED live

RouteFails ==
  /\ Routing /\ Head(queue) \in NoOriginal
  /\ Cardinality(lost) < MaxLost
  /\ lost' = lost \cup {Head(queue)}
  /\ Fails(FALSE) /\ failed' = TRUE
  /\ UNCHANGED live

(* MaskedLookupPatch::Apply without masks asks the patcher's error code;    *)
(* with masks it goes by the replacements it made.                          *)
CodeNotCleared == code
CodeBefore == FALSE

ApplyPatch ==
  /\ Asked("patch")
  /\ \E missed \in BOOLEAN :
       IF CodeBefore \/ missed
         THEN Fails(TRUE) /\ failed' = missed /\ UNCHANGED <<live, lost>>
         ELSE Succeeds(FALSE) /\ UNCHANGED known

(* Masked patches, and writes under setKernelWriting.                       *)
ApplyMasked ==
  /\ Asked("masked") \/ Asked("write")
  /\ \/ Succeeds(code) /\ UNCHANGED known
     \/ FailsUnrouted(code)

Clear ==
  /\ Asked("clear")
  /\ Succeeds(FALSE) /\ UNCHANGED known

Next ==
  \/ \E k \in Kexts : Announce(k)
  \/ PatternSolve \/ FindMask \/ SolveMultiple \/ PatternRoute \/ RouteMultiple
  \/ CreateTrampoline \/ WriteJump \/ WrapFails \/ RouteFails
  \/ ApplyPatch \/ ApplyMasked \/ Clear

Spec == Init /\ [][Next]_vars
-------------------------------------------------------------------------------
Through == Kexts \ (kexts \cup IF todo # <<>> THEN {kext} ELSE {})

RequestsFor(k) == Range(Script(k, config))
Hooks(rs) == UNION {Range(r.names) : r \in {q \in rs : q.op \in {"route", "routeMultiple"}}}

(* A hook that the driver can call finds every pointer it dereferences: its *)
(* original and the functions solved for it, whatever is still to be done.  *)
(* Only memory that ran out before can leave one null.                      *)
HooksFindPointers == \A h \in live : Needs(h) \subseteq known \cup lost

(* A module panics only over a request that failed, never over the error    *)
(* that an earlier request, another module or the listener left in the code.*)
PanicIsEarned == panicked => failed

(* When the modules are through with a kext, every hook they insist on is   *)
(* in place, unless memory ran out.                                         *)
HooksAreLive ==
  \A k \in Through : Hooks({r \in RequestsFor(k) : r.onFail = 0}) \subseteq live \cup lost

(* routeMultiple without "force" hooks all its functions or none, unless    *)
(* memory ran out for one of them: whichever symbol is missing, MCCS is not *)
(* left with one of its two probes replaced.  When the second route fails   *)
(* for want of memory, the first stays: nothing undoes it.                  *)
AllOrNothing ==
  \A k \in Through : \A r \in {q \in RequestsFor(k) : q.op = "routeMultiple"} :
    \/ Range(r.names) \cap lost # {}
    \/ Range(r.names) \subseteq live
    \/ Range(r.names) \cap live = {}

(* "false if it at least one error happened": a route that NootedDeck        *)
(* insists on and that was reported as made is made.                        *)
SuccessMeansRouted ==
  \A k \in Through : Hooks({r \in RequestsFor(k) : r.onFail = 0}) \subseteq live
===============================================================================
