-------------------------- MODULE KextPatchingProofs --------------------------
(***************************************************************************)
(* Theorems about KextPatching, for every configuration, every order of    *)
(* the kexts and any number of functions lost for want of memory.          *)
(***************************************************************************)
EXTENDS KextPatching, TLAPS

RouteOps == {"route", "routeMultiple"}
SolveOps == {"solve", "find", "solveMultiple"}
Probes == <<"gibraltarProbe", "celloProbe">>

(* What a hook needs is solved by an earlier request, or it is the original *)
(* of the function routed before it by the same request.                   *)
Supported(s, x) ==
  \A h \in Range(s[x].names) : \A n \in Needs(h) \ {h} :
    \/ \E y \in 1..(x - 1) : s[y].op \in SolveOps /\ s[y].onFail = 0 /\ n \in Range(s[y].names)
    \/ s[x].names = <<n, h>> /\ n \notin NoOriginal

(* What a list of requests is like: a route is of one or two functions, a  *)
(* hook is supported, only MCCS routes the two probes, and what a failure  *)
(* skips is borne.                                                         *)
Shaped(r, kx) ==
  /\ r.onFail \in {0, 1, 2}
  /\ r.op \in RouteOps =>
       /\ (\E n : r.names = <<n>>) \/ (\E m, n : r.names = <<m, n>> /\ m # n)
       /\ (kx = "mccs" /\ r.names = Probes) \/ Range(r.names) \cap Range(Probes) = {}
  /\ r.op = "routeMultiple" /\ r.onFail # 0 => (\E n : r.names = <<n>>) \/ (kx = "mccs" /\ r.names = Probes)
FitAt(s, x, kx) ==
  /\ Shaped(s[x], kx)
  /\ s[x].op \in RouteOps => Supported(s, x)
  /\ s[x].onFail = 2 => x + 1 \in DOMAIN s /\ s[x + 1].onFail # 0
Fit(s, kx) == (\E S : s \in Seq(S)) /\ \A x \in DOMAIN s : FitAt(s, x, kx)

(* A request that is fit wherever it stands.                                *)
Plain(r) ==
  /\ Shaped(r, "none") /\ r.onFail # 2
  /\ r.op \in RouteOps => \A h \in Range(r.names) : Needs(h) \subseteq {h}

(* The one function of a list of one.                                       *)
LEMMA RangeOne == \A n : Range(<<n>>) = {n}
BY DEF Range

(* The functions of a list of two.                                          *)
LEMMA RangeTwo == \A m, n : Range(<<m, n>>) = {m, n}
BY DEF Range

(* A request that routes nothing and panics or is logged is plain           *)
(* (PatternSolveRequest, MaskedLookupPatch).                                *)
LEMMA PlainRequest ==
  ASSUME NEW r, r.op \notin RouteOps, r.onFail \in {0, 1} PROVE Plain(r)
<1>1. r.onFail # 2 /\ r.op # "routeMultiple" /\ r.onFail \in {0, 1, 2}
  BY DEF RouteOps
<1> QED
  BY <1>1, Zenon DEF Plain, Shaped

(* The requests that solve, patch and write are plain (PatternSolveRequest, *)
(* MaskedLookupPatch).                                                      *)
LEMMA PlainKinds ==
  ASSUME NEW n, NEW b
  PROVE  /\ Plain(Solve(n, b)) /\ Plain(Patch(n)) /\ Plain(MaskedPatch(n)) /\ Plain(KernelWrite(n))
         /\ Plain(OrLog(Patch(n))) /\ Plain(ClearError)
         /\ Plain(Request("find", <<n>>, b, 0))
<1>1. /\ Solve(n, b).op \notin RouteOps /\ Solve(n, b).onFail \in {0, 1}
      /\ Patch(n).op \notin RouteOps /\ Patch(n).onFail \in {0, 1}
      /\ MaskedPatch(n).op \notin RouteOps /\ MaskedPatch(n).onFail \in {0, 1}
      /\ KernelWrite(n).op \notin RouteOps /\ KernelWrite(n).onFail \in {0, 1}
      /\ ClearError.op \notin RouteOps /\ ClearError.onFail \in {0, 1}
      /\ Request("find", <<n>>, b, 0).op \notin RouteOps /\ Request("find", <<n>>, b, 0).onFail \in {0, 1}
  BY Zenon DEF Solve, Patch, MaskedPatch, KernelWrite, ClearError, Request, RouteOps
<1>2. OrLog(Patch(n)).op \notin RouteOps /\ OrLog(Patch(n)).onFail \in {0, 1}
  BY Zenon DEF OrLog, Patch, Request, RouteOps
<1> QED
  BY <1>1, <1>2, PlainRequest, Zenon

(* A route of one function whose hook needs at most its own original is     *)
(* plain (PatternRouteRequest).                                             *)
LEMMA PlainRoute ==
  ASSUME NEW n, NEW b, Needs(n) \subseteq {n}, n # "gibraltarProbe", n # "celloProbe"
  PROVE  Plain(Route(n, b)) /\ Plain(Request("routeMultiple", <<n>>, b, 0))
<1>1. n \notin Range(Probes)
  BY RangeTwo DEF Probes
<1>2. ASSUME NEW r, r.names = <<n>>, r.onFail = 0 PROVE Plain(r)
  <2>1. r.onFail \in {0, 1, 2} /\ r.onFail # 2 /\ Range(r.names) = {n}
    BY <1>2, RangeOne
  <2>2. Range(r.names) \cap Range(Probes) = {}
    BY <1>1, <2>1, Zenon
  <2>3. Shaped(r, "none")
    BY <1>2, <2>1, <2>2, Zenon DEF Shaped
  <2> QED
    BY <2>1, <2>3, Zenon DEF Plain
<1>3. /\ Route(n, b).names = <<n>> /\ Route(n, b).onFail = 0
      /\ Request("routeMultiple", <<n>>, b, 0).names = <<n>>
      /\ Request("routeMultiple", <<n>>, b, 0).onFail = 0
  BY Zenon DEF Route, Request
<1> QED
  BY <1>2, <1>3, Zenon

(* A plain request is fit in any list.                                      *)
LEMMA PlainFits ==
  ASSUME NEW s, NEW x, NEW kx, Plain(s[x]) PROVE FitAt(s, x, kx)
<1>1. PICK r : r = s[x]
  OBVIOUS
<1>2. Shaped(r, "none") /\ "none" # "mccs"
  BY <1>1, Zenon DEF Plain
<1>3. Shaped(r, kx)
  BY <1>2, Zenon DEF Shaped
<1>4. s[x].onFail # 2
  BY Zenon DEF Plain
<1>5. s[x].op \in RouteOps => Supported(s, x)
  BY Zenon DEF Plain, Supported
<1> QED
  BY <1>1, <1>3, <1>4, <1>5, Zenon DEF FitAt

(* A module that is switched off asks for nothing, which is fit.            *)
LEMMA FitEmpty == \A kx : Fit(<<>>, kx)
<1>1. <<>> \in Seq({}) /\ DOMAIN <<>> = {}
  OBVIOUS
<1> QED
  BY <1>1, Zenon DEF Fit

(* Two fit lists are fit one after the other: the modules on one kext run   *)
(* in turn (processKext).                                                   *)
LEMMA FitConcat ==
  ASSUME NEW s, NEW t, NEW kx, Fit(s, kx), Fit(t, kx) PROVE Fit(s \o t, kx)
<1>1. PICK S, T : s \in Seq(S) /\ t \in Seq(T)
  BY Zenon DEF Fit
<1>2. PICK m \in Nat, n \in Nat : m = Len(s) /\ n = Len(t)
  BY <1>1
<1>3. PICK u : u = s \o t
  BY Zenon
<1>4. /\ u \in Seq(S \cup T) /\ Len(u) = m + n /\ DOMAIN u = 1..(m + n)
      /\ \A x \in 1..m : u[x] = s[x]
      /\ \A x \in 1..n : u[m + x] = t[x]
      /\ DOMAIN s = 1..m /\ DOMAIN t = 1..n
  BY <1>1, <1>2, <1>3
<1>5. ASSUME NEW x \in 1..m PROVE FitAt(u, x, kx)
  <2>1. FitAt(s, x, kx) /\ u[x] = s[x]
    BY <1>4, <1>5, Zenon DEF Fit
  <2>2. \A y \in 1..(x - 1) : u[y] = s[y]
    BY <1>4
  <2>3. Shaped(u[x], kx)
    BY <2>1, Zenon DEF FitAt
  <2>4. u[x].op \in RouteOps => Supported(u, x)
    BY <2>1, <2>2, Zenon DEF FitAt, Supported
  <2>5. u[x].onFail = 2 => x + 1 \in DOMAIN u /\ u[x + 1].onFail # 0
    BY <1>4, <2>1 DEF FitAt
  <2> QED
    BY <2>3, <2>4, <2>5, Zenon DEF FitAt
<1>6. ASSUME NEW z \in 1..n PROVE FitAt(u, m + z, kx)
  <2>1. FitAt(t, z, kx) /\ u[m + z] = t[z]
    BY <1>4, <1>6, SMTT(30) DEF Fit
  <2>2. \A y \in 1..(z - 1) : m + y \in 1..((m + z) - 1) /\ u[m + y] = t[y]
    BY <1>4
  <2>3. Shaped(u[m + z], kx)
    BY <2>1, Zenon DEF FitAt
  <2>4. u[m + z].op \in RouteOps => Supported(u, m + z)
    <3> SUFFICES ASSUME u[m + z].op \in RouteOps PROVE Supported(u, m + z)
      OBVIOUS
    <3>1. Supported(t, z)
      BY <2>1, Zenon DEF FitAt
    <3>2. ASSUME NEW h \in Range(t[z].names), NEW k \in Needs(h) \ {h}
          PROVE  \/ \E y \in 1..((m + z) - 1) : u[y].op \in SolveOps /\ u[y].onFail = 0 /\ k \in Range(u[y].names)
                 \/ t[z].names = <<k, h>> /\ k \notin NoOriginal
      <4>1. CASE \E y \in 1..(z - 1) : t[y].op \in SolveOps /\ t[y].onFail = 0 /\ k \in Range(t[y].names)
        <5>1. PICK y \in 1..(z - 1) : t[y].op \in SolveOps /\ t[y].onFail = 0 /\ k \in Range(t[y].names)
          BY <4>1, Zenon
        <5>2. m + y \in 1..((m + z) - 1) /\ u[m + y] = t[y]
          BY <2>2, Zenon
        <5> QED
          BY <5>1, <5>2, Zenon
      <4>2. CASE t[z].names = <<k, h>> /\ k \notin NoOriginal
        BY <4>2, Zenon
      <4> QED
        BY <3>1, <3>2, <4>1, <4>2, Zenon DEF Supported
    <3> QED
      BY <2>1, <3>2, Zenon DEF Supported
  <2>5. u[m + z].onFail = 2 => (m + z) + 1 \in DOMAIN u /\ u[(m + z) + 1].onFail # 0
    <3> SUFFICES ASSUME u[m + z].onFail = 2 PROVE (m + z) + 1 \in DOMAIN u /\ u[(m + z) + 1].onFail # 0
      OBVIOUS
    <3>1. z + 1 \in 1..n /\ t[z + 1].onFail # 0
      BY <1>4, <2>1, Zenon DEF FitAt
    <3>2. (m + z) + 1 = m + (z + 1) /\ m + (z + 1) \in 1..(m + n)
      BY <3>1
    <3> QED
      BY <1>4, <3>1, <3>2, Zenon
  <2> QED
    BY <2>3, <2>4, <2>5, Zenon DEF FitAt
<1>7. \A x \in 1..(m + n) : x \in 1..m \/ \E z \in 1..n : x = m + z
  <2> SUFFICES ASSUME NEW x \in 1..(m + n), x \notin 1..m PROVE \E z \in 1..n : x = m + z
    OBVIOUS
  <2>1. x - m \in 1..n /\ x = m + (x - m)
    OBVIOUS
  <2> QED
    BY <2>1, Zenon
<1>8. \A x \in 1..(m + n) : FitAt(u, x, kx)
  BY <1>5, <1>6, <1>7, Zenon
<1>9. Fit(u, kx)
  BY <1>4, <1>8, Zenon DEF Fit
<1> QED
  BY <1>3, <1>9, Zenon

(* A fit list stays fit when a boot argument or the kernel version decides  *)
(* about it.                                                                *)
LEMMA FitWhen == ASSUME NEW b, NEW s, NEW kx, Fit(s, kx) PROVE Fit(When(b, s), kx)
BY FitEmpty, Zenon DEF When

(* Four hooks need what another request has solved.                        *)
LEMMA NeedsOwn ==
  ASSUME NEW h, h \notin {"powerUp", "setAttribute", "createFunctionGroup", "createWidget"}
  PROVE  Needs(h) \subseteq {h}
<1>1. h # "powerUp" /\ h # "setAttribute" /\ h # "createFunctionGroup" /\ h # "createWidget"
  OBVIOUS
<1> QED
  BY <1>1, Zenon DEF Needs

(* What those four need (Backlight.cpp, HotfixX6000FB.cpp,                  *)
(* AppleGFXHDA.cpp).                                                        *)
LEMMA NeedsMore ==
  /\ Needs("powerUp") = {"powerUp", "messageAccelerator"}
  /\ Needs("setAttribute") = {"setAttribute", "setBacklightLevel", "setBacklightLevelNits"}
  /\ Needs("createFunctionGroup") = {"createFunctionGroup", "functionGroupTahiti"}
  /\ Needs("createWidget") = {"createFunctionGroup", "widget1002AAA0"}
  /\ "createFunctionGroup" \notin NoOriginal
BY Zenon DEF Needs, NoOriginal

(* Ten hooks of the framebuffer that are plain to route (X6000FB,           *)
(* DebugEnabler, Backlight).                                                *)
LEMMA PlainHooks ==
  ASSUME NEW h \in {"dpReceiverPowerCtrl", "linkCreate", "getAttribute", "initWithPciInfo", "doGPUPanic",
                    "dmLoggerWrite", "populateVramInfo", "getEnumeratedRevision",
                    "getNumberOfConnectors", "createRegisterAccess"},
         NEW b
  PROVE  Plain(Route(h, b)) /\ Plain(Request("routeMultiple", <<h>>, b, 0))
<1>1. h \notin {"powerUp", "setAttribute", "createFunctionGroup", "createWidget"}
      /\ h # "gibraltarProbe" /\ h # "celloProbe"
  OBVIOUS
<1>2. Needs(h) \subseteq {h}
  BY <1>1, NeedsOwn, Zenon
<1> QED
  BY <1>1, <1>2, PlainRoute, Zenon

(* The list of AGDP is fit.                                                 *)
LEMMA FitAGDP == Fit(AGDP, "agdp")
<1>1. /\ AGDP \in Seq({OrLog(Patch("boardID")), OrLog(Patch("fbCount"))}) /\ DOMAIN AGDP = 1..2
      /\ AGDP[1] = OrLog(Patch("boardID")) /\ AGDP[2] = OrLog(Patch("fbCount"))
  BY DEF AGDP
<1>2. Plain(AGDP[1]) /\ Plain(AGDP[2])
  BY <1>1, PlainKinds, Zenon
<1>3. \A x \in DOMAIN AGDP : FitAt(AGDP, x, "agdp")
  BY <1>1, <1>2, PlainFits
<1> QED
  BY <1>1, <1>3, Zenon DEF Fit

(* The list of X6000FB is fit.                                              *)
LEMMA FitX6000FB == Fit(X6000FB, "framebuffer")
<1> DEFINE r1 == Solve("asicCapsTable", TRUE)
           r2 == Route("populateVramInfo", TRUE)
           r3 == Route("getEnumeratedRevision", FALSE)
           r4 == Route("getNumberOfConnectors", TRUE)
           r5 == Request("routeMultiple", <<"createRegisterAccess">>, FALSE, 0)
           r6 == MaskedPatch("populateDeviceInfo")
           r7 == MaskedPatch("firmwareInfoNullCheck")
           r8 == MaskedPatch("vendorInfo")
           r9 == KernelWrite("asicCapsTable")
<1>1. X6000FB = <<r1, r2, r3, r4, r5, r6, r7, r8, r9>>
  BY Zenon DEF X6000FB
<1>2. Plain(r1) /\ Plain(r6) /\ Plain(r7) /\ Plain(r8) /\ Plain(r9)
  BY PlainKinds, Zenon
<1>3. Plain(r2) /\ Plain(r3) /\ Plain(r4) /\ Plain(r5)
  BY PlainHooks, Zenon
<1> HIDE DEF r1, r2, r3, r4, r5, r6, r7, r8, r9
<1>4. /\ X6000FB \in Seq({r1, r2, r3, r4, r5, r6, r7, r8, r9}) /\ DOMAIN X6000FB = 1..9
      /\ X6000FB[1] = r1 /\ X6000FB[2] = r2 /\ X6000FB[3] = r3 /\ X6000FB[4] = r4 /\ X6000FB[5] = r5
      /\ X6000FB[6] = r6 /\ X6000FB[7] = r7 /\ X6000FB[8] = r8 /\ X6000FB[9] = r9
  BY <1>1
<1>5. \A x \in DOMAIN X6000FB : Plain(X6000FB[x])
  BY <1>2, <1>3, <1>4
<1> QED
  BY <1>4, <1>5, PlainFits, Zenon DEF Fit

(* The two routes of the framebuffer that need an earlier request have the  *)
(* right shape.                                                             *)
LEMMA SpecialRoute ==
  ASSUME NEW n \in {"powerUp", "setAttribute"}, NEW b
  PROVE  /\ Shaped(Route(n, b), "framebuffer") /\ Route(n, b).onFail = 0 /\ Route(n, b).names = <<n>>
         /\ Range(Route(n, b).names) = {n}
<1>1. n \notin Range(Probes)
  BY RangeTwo DEF Probes
<1>2. Route(n, b).onFail = 0 /\ Route(n, b).names = <<n>>
  BY Zenon DEF Route, Request
<1>3. Range(<<n>>) = {n}
  BY RangeOne, Zenon
<1>4. Range(<<n>>) \cap Range(Probes) = {}
  BY <1>1, <1>3, Zenon
<1>5. Shaped(Route(n, b), "framebuffer")
  BY <1>2, <1>4, Zenon DEF Shaped
<1> QED
  BY <1>2, <1>3, <1>5, Zenon

(* PatternSolveRequest panics unless it solves its one symbol.              *)
LEMMA SolveNames ==
  ASSUME NEW n, NEW b
  PROVE  Solve(n, b).op \in SolveOps /\ Solve(n, b).onFail = 0 /\ n \in Range(Solve(n, b).names)
<1>1. Solve(n, b).op \in SolveOps /\ Solve(n, b).onFail = 0 /\ Solve(n, b).names = <<n>>
  BY Zenon DEF Solve, Request, SolveOps
<1> QED
  BY <1>1, RangeOne, Zenon

(* The hotfixes on the framebuffer are fit: messageAccelerator is solved    *)
(* before powerUp is routed.                                                *)
LEMMA FitHotfix == ASSUME NEW c PROVE Fit(HotfixX6000FB(c), "framebuffer")
<1>1. Fit(<<Route("dpReceiverPowerCtrl", TRUE)>>, "framebuffer")
  <2> DEFINE r1 == Route("dpReceiverPowerCtrl", TRUE)
  <2>1. Plain(r1)
    BY PlainHooks, Zenon
  <2> HIDE DEF r1
  <2>2. <<r1>> \in Seq({r1}) /\ DOMAIN <<r1>> = 1..1 /\ <<r1>>[1] = r1
    OBVIOUS
  <2>3. \A x \in DOMAIN <<r1>> : Plain(<<r1>>[x])
    BY <2>1, <2>2
  <2>4. Fit(<<r1>>, "framebuffer")
    BY <2>2, <2>3, PlainFits, Zenon DEF Fit
  <2> QED
    BY <2>4, Zenon DEF r1
<1> DEFINE r1 == Solve("messageAccelerator", FALSE)
           r2 == Route("powerUp", FALSE)
           r3 == MaskedPatch("powerUpCount")
           r4 == Patch("detailedTiming")
<1>2. Fit(<<r1, r2, r3, r4>>, "framebuffer")
  <2>1. Plain(r1) /\ Plain(r3) /\ Plain(r4)
    BY PlainKinds, Zenon
  <2>2. Shaped(r2, "framebuffer") /\ r2.onFail = 0 /\ Range(r2.names) = {"powerUp"}
    BY SpecialRoute, Zenon
  <2>3. r1.op \in SolveOps /\ r1.onFail = 0 /\ "messageAccelerator" \in Range(r1.names)
    BY SolveNames, Zenon
  <2> HIDE DEF r1, r2, r3, r4
  <2>4. PICK s : s = <<r1, r2, r3, r4>>
    BY Zenon
  <2>5. s \in Seq({r1, r2, r3, r4}) /\ DOMAIN s = 1..4 /\ s[1] = r1 /\ s[2] = r2 /\ s[3] = r3 /\ s[4] = r4
    BY <2>4
  <2>6. Supported(s, 2)
    <3>1. 1 \in 1..(2 - 1) /\ Needs("powerUp") \ {"powerUp"} = {"messageAccelerator"}
      BY NeedsMore
    <3> QED
      BY <2>2, <2>3, <2>5, <3>1 DEF Supported
  <2>7. FitAt(s, 1, "framebuffer") /\ FitAt(s, 3, "framebuffer") /\ FitAt(s, 4, "framebuffer")
    BY <2>1, <2>5, PlainFits, Zenon
  <2>8. FitAt(s, 2, "framebuffer")
    BY <2>2, <2>5, <2>6 DEF FitAt
  <2>9. \A x \in DOMAIN s : FitAt(s, x, "framebuffer")
    BY <2>5, <2>7, <2>8
  <2> QED
    BY <2>4, <2>5, <2>9, Zenon DEF Fit
<1> HIDE DEF r1, r2, r3, r4
<1>3. HotfixX6000FB(c) = When(c.dpDelay, <<Route("dpReceiverPowerCtrl", TRUE)>>)
                           \o When(c.venturaPlus, <<r1, r2, r3, r4>>)
  BY Zenon DEF HotfixX6000FB, r1, r2, r3, r4
<1> QED
  BY <1>1, <1>2, <1>3, FitWhen, FitConcat, Zenon

(* Backlight's list on the framebuffer is fit: both levels are solved       *)
(* before setAttribute is routed.                                           *)
LEMMA FitBacklightOnFB == Fit(BacklightOnFB, "framebuffer")
<1> DEFINE r1 == Solve("setBacklightLevel", TRUE)
           r2 == Solve("setBacklightLevelNits", TRUE)
           r3 == Route("linkCreate", TRUE)
           r4 == Route("setAttribute", FALSE)
           r5 == Route("getAttribute", FALSE)
           s == BacklightOnFB
<1>1. s = <<r1, r2, r3, r4, r5>>
  BY Zenon DEF BacklightOnFB
<1>2. Plain(r1) /\ Plain(r2) /\ Plain(r3) /\ Plain(r5)
  BY PlainKinds, PlainHooks, Zenon
<1>3. Shaped(r4, "framebuffer") /\ r4.onFail = 0 /\ Range(r4.names) = {"setAttribute"}
  BY SpecialRoute, Zenon
<1>4. /\ r1.op \in SolveOps /\ r1.onFail = 0 /\ "setBacklightLevel" \in Range(r1.names)
      /\ r2.op \in SolveOps /\ r2.onFail = 0 /\ "setBacklightLevelNits" \in Range(r2.names)
  BY SolveNames, Zenon
<1> HIDE DEF r1, r2, r3, r4, r5, s
<1>5. /\ s \in Seq({r1, r2, r3, r4, r5}) /\ DOMAIN s = 1..5
      /\ s[1] = r1 /\ s[2] = r2 /\ s[3] = r3 /\ s[4] = r4 /\ s[5] = r5
  BY <1>1
<1>6. Supported(s, 4)
  <2>1. /\ 1 \in 1..(4 - 1) /\ 2 \in 1..(4 - 1)
        /\ Needs("setAttribute") \ {"setAttribute"} = {"setBacklightLevel", "setBacklightLevelNits"}
    BY NeedsMore
  <2> QED
    BY <1>3, <1>4, <1>5, <2>1, Zenon DEF Supported
<1>7. FitAt(s, 1, "framebuffer") /\ FitAt(s, 2, "framebuffer") /\ FitAt(s, 3, "framebuffer") /\ FitAt(s, 5, "framebuffer")
  BY <1>2, <1>5, PlainFits, Zenon
<1>8. FitAt(s, 4, "framebuffer")
  BY <1>3, <1>5, <1>6 DEF FitAt
<1>9. \A x \in DOMAIN s : FitAt(s, x, "framebuffer")
  BY <1>5, <1>7, <1>8
<1>10. Fit(s, "framebuffer")
  BY <1>5, <1>9, Zenon DEF Fit
<1> QED
  BY <1>10, Zenon DEF s

(* Backlight's list on AppleBacklight is fit: the request that is skipped   *)
(* only logs.                                                               *)
LEMMA FitAppleBacklight == Fit(BacklightOnAppleBacklight, "appleBacklight")
<1> DEFINE r1 == OrSkipNext(Request("routeMultiple", <<"applePanelSetDisplay">>, FALSE, 1))
           r2 == OrLog(Patch("panelName"))
           s == BacklightOnAppleBacklight
<1>1. s = <<r1, r2, ClearError>>
  BY Zenon DEF BacklightOnAppleBacklight
<1>2. Plain(r2) /\ Plain(ClearError)
  BY PlainKinds, Zenon
<1>3. r1.onFail = 2 /\ r1.names = <<"applePanelSetDisplay">> /\ r2.onFail = 1
  BY Zenon DEF OrSkipNext, OrLog, Patch, Request
<1>4. Range(r1.names) = {"applePanelSetDisplay"} /\ Range(Probes) = {"gibraltarProbe", "celloProbe"}
  BY <1>3, RangeOne, RangeTwo, Zenon DEF Probes
<1> HIDE DEF r1, r2, s
<1>5. Shaped(r1, "appleBacklight")
  <2>1. r1.onFail \in {0, 1, 2} /\ Range(r1.names) \cap Range(Probes) = {}
    BY <1>3, <1>4, Zenon
  <2> QED
    BY <1>3, <2>1, Zenon DEF Shaped
<1>6. s \in Seq({r1, r2, ClearError}) /\ DOMAIN s = 1..3 /\ s[1] = r1 /\ s[2] = r2 /\ s[3] = ClearError
  BY <1>1
<1>7. Supported(s, 1)
  <2>1. Needs("applePanelSetDisplay") \subseteq {"applePanelSetDisplay"}
    BY NeedsOwn, Zenon
  <2> QED
    BY <1>4, <1>6, <2>1, Zenon DEF Supported
<1>8. FitAt(s, 1, "appleBacklight")
  <2>1. 1 + 1 \in DOMAIN s /\ s[1 + 1].onFail # 0
    BY <1>3, <1>6
  <2> QED
    BY <1>5, <1>6, <1>7, <2>1, Zenon DEF FitAt
<1>9. FitAt(s, 2, "appleBacklight") /\ FitAt(s, 3, "appleBacklight")
  BY <1>2, <1>6, PlainFits, Zenon
<1>10. Fit(s, "appleBacklight")
  BY <1>6, <1>8, <1>9 DEF Fit
<1> QED
  BY <1>10, Zenon DEF s

(* Backlight's list on MCCS is fit: neither probe has an original.          *)
LEMMA FitMCCS == Fit(BacklightOnMCCS, "mccs")
<1> DEFINE r1 == Request("routeMultiple", <<"gibraltarProbe", "celloProbe">>, FALSE, 1)
           s == BacklightOnMCCS
<1>1. s = <<r1, ClearError>>
  BY Zenon DEF BacklightOnMCCS
<1>2. Plain(ClearError)
  BY PlainKinds, Zenon
<1>3. r1.onFail = 1 /\ r1.names = Probes
  BY Zenon DEF Request, Probes
<1>4. Range(r1.names) = {"gibraltarProbe", "celloProbe"}
  BY <1>3, RangeTwo, Zenon DEF Probes
<1> HIDE DEF r1, s
<1>5. Shaped(r1, "mccs")
  <2>1. r1.onFail \in {0, 1, 2} /\ \E m, n : r1.names = <<m, n>> /\ m # n
    BY <1>3 DEF Probes
  <2> QED
    BY <1>3, <2>1, Zenon DEF Shaped
<1>6. s \in Seq({r1, ClearError}) /\ DOMAIN s = 1..2 /\ s[1] = r1 /\ s[2] = ClearError
  BY <1>1
<1>7. Supported(s, 1)
  <2>1. Needs("gibraltarProbe") = {} /\ Needs("celloProbe") = {}
    BY Zenon DEF Needs, NoOriginal
  <2> QED
    BY <1>4, <1>6, <2>1, Zenon DEF Supported
<1>8. FitAt(s, 1, "mccs")
  BY <1>3, <1>5, <1>6, <1>7 DEF FitAt
<1>9. FitAt(s, 2, "mccs")
  BY <1>2, <1>6, PlainFits, Zenon
<1>10. Fit(s, "mccs")
  BY <1>6, <1>8, <1>9 DEF Fit
<1> QED
  BY <1>10, Zenon DEF s

(* DebugEnabler's list on the framebuffer is fit.                           *)
LEMMA FitDebug == Fit(DebugOnFB, "framebuffer")
<1> DEFINE r1 == Route("initWithPciInfo", FALSE)
           r2 == Route("doGPUPanic", FALSE)
           r3 == Route("dmLoggerWrite", TRUE)
           r4 == Request("find", <<"logEnableMaskMinors">>, TRUE, 0)
           r5 == KernelWrite("logEnableMaskMinors")
           r6 == Patch("populateDcInitData")
           r7 == Patch("biosParserHelper")
           s == DebugOnFB
<1>1. s = <<r1, r2, r3, r4, r5, r6, r7>>
  BY Zenon DEF DebugOnFB
<1>2. Plain(r4) /\ Plain(r5) /\ Plain(r6) /\ Plain(r7)
  BY PlainKinds, Zenon
<1>3. Plain(r1) /\ Plain(r2) /\ Plain(r3)
  BY PlainHooks, Zenon
<1> HIDE DEF r1, r2, r3, r4, r5, r6, r7, s
<1>4. /\ s \in Seq({r1, r2, r3, r4, r5, r6, r7}) /\ DOMAIN s = 1..7
      /\ s[1] = r1 /\ s[2] = r2 /\ s[3] = r3 /\ s[4] = r4 /\ s[5] = r5 /\ s[6] = r6 /\ s[7] = r7
  BY <1>1
<1>5. \A x \in DOMAIN s : Plain(s[x])
  BY <1>2, <1>3, <1>4
<1>6. Fit(s, "framebuffer")
  BY <1>4, <1>5, PlainFits, Zenon DEF Fit
<1> QED
  BY <1>6 DEF s

(* AppleGFXHDA's list is fit: createWidget needs the original of the        *)
(* function routed before it.                                               *)
LEMMA FitHDA == Fit(AppleGFXHDA, "gfxhda")
<1> DEFINE r1 == Patch("hdmiProbe")
           r2 == Request("solveMultiple", <<"functionGroupTahiti", "widget1002AAA0">>, FALSE, 0)
           r3 == Request("routeMultiple", <<"createFunctionGroup", "createWidget">>, FALSE, 0)
           s == AppleGFXHDA
<1>1. s = <<r1, r2, r3>>
  BY Zenon DEF AppleGFXHDA
<1>2. Plain(r1)
  BY PlainKinds, Zenon
<1>3. /\ r2.op = "solveMultiple" /\ r2.onFail = 0 /\ r2.names = <<"functionGroupTahiti", "widget1002AAA0">>
      /\ r3.onFail = 0 /\ r3.names = <<"createFunctionGroup", "createWidget">>
  BY Zenon DEF Request
<1> HIDE DEF r1, r2, r3, s
<1>4. /\ Range(r2.names) = {"functionGroupTahiti", "widget1002AAA0"}
      /\ Range(r3.names) = {"createFunctionGroup", "createWidget"}
      /\ Range(Probes) = {"gibraltarProbe", "celloProbe"}
  BY <1>3, RangeTwo, Zenon DEF Probes
<1>5. Plain(r2) /\ r2.op \in SolveOps
  <2>1. r2.op \notin RouteOps /\ r2.op \in SolveOps /\ r2.onFail \in {0, 1}
    BY <1>3, Zenon DEF RouteOps, SolveOps
  <2> QED
    BY <2>1, PlainRequest, Zenon
<1>6. Shaped(r3, "gfxhda")
  <2>1. r3.onFail \in {0, 1, 2} /\ Range(r3.names) \cap Range(Probes) = {}
    BY <1>3, <1>4, Zenon
  <2>2. "createFunctionGroup" # "createWidget"
    OBVIOUS
  <2> QED
    BY <1>3, <2>1, <2>2, Zenon DEF Shaped
<1>7. s \in Seq({r1, r2, r3}) /\ DOMAIN s = 1..3 /\ s[1] = r1 /\ s[2] = r2 /\ s[3] = r3
  BY <1>1
<1>8. Supported(s, 3)
  <2>1. 2 \in 1..(3 - 1)
    OBVIOUS
  <2>2. ASSUME NEW h \in Range(s[3].names), NEW n \in Needs(h) \ {h}
        PROVE  \/ n \in Range(r2.names)
               \/ s[3].names = <<n, h>> /\ n \notin NoOriginal
    <3>1. CASE h = "createFunctionGroup"
      BY <1>4, <2>2, <3>1, NeedsMore, Zenon
    <3>2. CASE h = "createWidget"
      <4>1. n = "createFunctionGroup" \/ n = "widget1002AAA0"
        BY <2>2, <3>2, NeedsMore, Zenon
      <4> QED
        BY <1>3, <1>4, <1>7, <3>2, <4>1, NeedsMore
    <3> QED
      BY <1>4, <1>7, <2>2, <3>1, <3>2, Zenon
  <2> QED
    BY <1>3, <1>5, <1>7, <2>1, <2>2, Zenon DEF Supported
<1>9. FitAt(s, 1, "gfxhda") /\ FitAt(s, 2, "gfxhda")
  BY <1>2, <1>5, <1>7, PlainFits, Zenon
<1>10. FitAt(s, 3, "gfxhda")
  BY <1>3, <1>6, <1>7, <1>8 DEF FitAt
<1>11. Fit(s, "gfxhda")
  BY <1>7, <1>9, <1>10 DEF Fit
<1> QED
  BY <1>11, Zenon DEF s

(* The list of every kext is fit, under every configuration.                *)
LEMMA FitScript == ASSUME NEW k \in Kexts, NEW c PROVE Fit(Script(k, c), k)
<1>1. CASE k = "agdp"
  BY <1>1, FitAGDP, Zenon DEF Script
<1>2. CASE k = "framebuffer"
  <2>1. Script(k, c) = ((HotfixX6000FB(c) \o When(c.backlight, BacklightOnFB))
                          \o When(c.debug, DebugOnFB)) \o X6000FB
    BY <1>2, Zenon DEF Script
  <2>2. Fit(HotfixX6000FB(c) \o When(c.backlight, BacklightOnFB), k)
    BY <1>2, FitHotfix, FitBacklightOnFB, FitWhen, FitConcat, Zenon
  <2>3. Fit((HotfixX6000FB(c) \o When(c.backlight, BacklightOnFB)) \o When(c.debug, DebugOnFB), k)
    BY <1>2, <2>2, FitDebug, FitWhen, FitConcat, Zenon
  <2> QED
    BY <1>2, <2>1, <2>3, FitX6000FB, FitConcat, Zenon
<1>3. CASE k = "appleBacklight"
  BY <1>3, FitAppleBacklight, FitWhen, Zenon DEF Script
<1>4. CASE k = "mccs"
  BY <1>4, FitMCCS, FitWhen, Zenon DEF Script
<1>5. CASE k = "gfxhda"
  BY <1>5, FitHDA, Zenon DEF Script
<1> QED
  BY <1>1, <1>2, <1>3, <1>4, <1>5, Zenon DEF Kexts
-------------------------------------------------------------------------------
(* What a request that is through has left, unless its failure is borne.   *)
Done(r) ==
  /\ r.op \in SolveOps /\ r.onFail = 0 => Range(r.names) \subseteq known
  /\ r.op \in RouteOps /\ r.onFail = 0 => Range(r.names) \subseteq live \cup lost

(* The requests of s before the p-th are done, the others are open.        *)
At(s, p) ==
  /\ p \in 1..(Len(s) + 1) /\ todo = SubSeq(s, p, Len(s))
  /\ \A x \in 1..(p - 1) : Done(s[x])

PlaceInv ==
  /\ kext \in Kexts
  /\ \/ kext \in kexts /\ todo = <<>>
     \/ kext \notin kexts /\ \E p \in Nat : At(Script(kext, config), p)

PastInv ==
  \A k \in Kexts \ kexts : k # kext => \A x \in DOMAIN Script(k, config) : Done(Script(k, config)[x])

(* The queue holds the functions of the request in hand, the first of two  *)
(* possibly behind it.                                                     *)
Half(m, n) ==
  /\ Names = <<m, n>> /\ queue = <<n>>
  /\ m \in live \cup lost /\ m \in NoOriginal \cup known \cup lost
QueueInv ==
  queue # <<>> => todo # <<>> /\ Head(todo).op \in RouteOps /\ (queue = Names \/ \E m, n : Half(m, n))

Together ==
  \/ Range(Probes) \cap lost # {} \/ Range(Probes) \subseteq live \/ Range(Probes) \cap live = {}
ProbesInv == Together \/ (todo # <<>> /\ Names = Probes /\ queue = <<"celloProbe">>)

IInv == PlaceInv /\ PastInv /\ QueueInv /\ ProbesInv /\ HooksFindPointers

(* The kinds of step.                                                      *)
Same == UNCHANGED <<config, kexts, kext>>
Solved ==
  /\ Same /\ queue = <<>> /\ queue' = <<>> /\ todo # <<>> /\ Head(todo).op \notin RouteOps /\ Drop(1)
  /\ Head(todo).op \in SolveOps => Range(Names) \subseteq known'
  /\ known \subseteq known' /\ UNCHANGED <<live, lost>>
Failed ==
  /\ Same /\ queue' = <<>> /\ UNCHANGED <<known, live>>
  /\ \/ queue = <<>> /\ todo # <<>> /\ lost' = lost
     \/ queue # <<>> /\ lost' = lost \cup {Head(queue)}
  /\ \/ Head(todo).onFail = 0 /\ UNCHANGED todo
     \/ Head(todo).onFail # 0 /\ Drop(Head(todo).onFail)
Begun ==
  /\ Same /\ queue = <<>> /\ queue' = Names /\ todo # <<>> /\ Head(todo).op \in RouteOps
  /\ UNCHANGED <<todo, known, live, lost>>
Kept ==
  /\ Same /\ queue # <<>> /\ known \subseteq known' /\ UNCHANGED <<todo, queue, live, lost>>
Hooked ==
  /\ Same /\ queue # <<>> /\ queue' = Tail(queue) /\ UNCHANGED known
  /\ \/ /\ Head(queue) \in NoOriginal \cup known
        /\ live' = live \cup {Head(queue)} /\ UNCHANGED lost
     \/ /\ Head(queue) \notin NoOriginal
        /\ lost' = lost \cup {Head(queue)} /\ UNCHANGED live
  /\ IF Len(queue) = 1 THEN Drop(1) ELSE UNCHANGED todo

(* Every step announces a kext or is of one of those kinds.                 *)
LEMMA StepKinds ==
  ASSUME Next PROVE (\E k \in Kexts : Announce(k)) \/ Solved \/ Failed \/ Begun \/ Kept \/ Hooked
<1> USE DEF Same
<1>1. /\ "route" \in RouteOps /\ "routeMultiple" \in RouteOps /\ "solve" \notin RouteOps /\ "find" \notin RouteOps
      /\ "solveMultiple" \notin RouteOps /\ "patch" \notin RouteOps /\ "masked" \notin RouteOps
      /\ "write" \notin RouteOps /\ "clear" \notin RouteOps
      /\ "patch" \notin SolveOps /\ "masked" \notin SolveOps /\ "write" \notin SolveOps /\ "clear" \notin SolveOps
  BY Zenon DEF RouteOps, SolveOps
<1>2. \A S, T : S \subseteq S \cup T /\ T \subseteq S \cup T
  OBVIOUS
<1>3. CASE PatternSolve
  BY <1>1, <1>2, <1>3, Zenon
     DEF PatternSolve, Asked, Succeeds, FailsUnrouted, Fails, Solved, Failed, Names
<1>4. CASE FindMask
  BY <1>1, <1>2, <1>4, Zenon
     DEF FindMask, Asked, Succeeds, FailsUnrouted, Fails, Solved, Failed, Names
<1>5. CASE SolveMultiple
  BY <1>1, <1>2, <1>5, Zenon
     DEF SolveMultiple, Asked, Succeeds, FailsUnrouted, Fails, Solved, Failed, Names
<1>6. CASE PatternRoute
  BY <1>1, <1>6, Zenon DEF PatternRoute, Asked, Found, FailsUnrouted, Fails, Begun, Failed
<1>7. CASE RouteMultiple
  BY <1>1, <1>7, Zenon DEF RouteMultiple, Asked, Found, FailsUnrouted, Fails, Begun, Failed
<1>8. CASE CreateTrampoline
  BY <1>2, <1>8, Zenon DEF CreateTrampoline, Routing, Kept
<1>9. CASE WriteJump
  BY <1>9, Zenon DEF WriteJump, Routing, HasTrampoline, Routed, Hooked
<1>10. CASE WrapFails
  BY <1>10, Zenon DEF WrapFails, Routing, Routed, Hooked
<1>11. CASE RouteFails
  BY <1>11, Zenon DEF RouteFails, Routing, Fails, Failed
<1>12. CASE ApplyPatch
  BY <1>1, <1>2, <1>12, Zenon DEF ApplyPatch, Asked, Succeeds, Fails, Solved, Failed
<1>13. CASE ApplyMasked
  BY <1>1, <1>2, <1>13, Zenon DEF ApplyMasked, Asked, Succeeds, FailsUnrouted, Fails, Solved, Failed
<1>14. CASE Clear
  BY <1>1, <1>2, <1>14, Zenon DEF Clear, Asked, Succeeds, Solved
<1> QED
  BY <1>3, <1>4, <1>5, <1>6, <1>7, <1>8, <1>9, <1>10, <1>11, <1>12, <1>13, <1>14, ZenonT(30)
     DEF Next

Grows == known \subseteq known' /\ live \subseteq live' /\ lost \subseteq lost'

(* What is done stays done: no pointer is cleared and no jump removed.      *)
LEMMA DoneGrows == ASSUME NEW r, Grows, Done(r) PROVE Done(r)'
BY Zenon DEF Grows, Done

(* Lists of one and of two functions.                                       *)
LEMMA Tuples ==
  /\ \A n : Head(<<n>>) = n /\ Tail(<<n>>) = <<>> /\ Len(<<n>>) = 1 /\ <<n>> # <<>>
  /\ \A m, n : Head(<<m, n>>) = m /\ Tail(<<m, n>>) = <<n>> /\ Len(<<m, n>>) = 2 /\ <<m, n>> # <<>>
  /\ \A k, m, n : <<k>> # <<m, n>>
  /\ \A j, k, m, n : <<j, k>> = <<m, n>> => j = m /\ k = n
<1>1. \A n : Head(<<n>>) = n /\ Tail(<<n>>) = <<>> /\ Len(<<n>>) = 1 /\ <<n>> # <<>>
  OBVIOUS
<1>2. \A m, n : Head(<<m, n>>) = m /\ Tail(<<m, n>>) = <<n>> /\ Len(<<m, n>>) = 2 /\ <<m, n>> # <<>>
  OBVIOUS
<1>3. \A k, m, n : <<k>> # <<m, n>>
  OBVIOUS
<1>4. \A j, k, m, n : <<j, k>> = <<m, n>> => j = m /\ k = n
  OBVIOUS
<1> QED
  BY <1>1, <1>2, <1>3, <1>4, Zenon

(* Lists with the same requests are the same.                              *)
LEMMA SameList ==
  ASSUME NEW S, NEW s \in Seq(S), NEW t \in Seq(S), Len(s) = Len(t), \A x \in 1..Len(s) : s[x] = t[x]
  PROVE  s = t
OBVIOUS

(* All of a list.                                                          *)
LEMMA WholeList ==
  ASSUME NEW S, NEW s \in Seq(S)
  PROVE  SubSeq(s, 1, Len(s)) = s
<1>1. PICK l \in Nat : l = Len(s)
  OBVIOUS
<1>2. PICK t : t = SubSeq(s, 1, l)
  BY Zenon
<1>3. t \in Seq(S) /\ Len(t) = l /\ \A x \in 1..l : t[x] = s[x]
  BY <1>1, <1>2
<1> QED
  BY <1>1, <1>2, <1>3, SameList, Zenon

(* The part of a list from p on.                                           *)
LEMMA Suffix ==
  ASSUME NEW S, NEW s \in Seq(S), NEW p \in 1..(Len(s) + 1), NEW t, t = SubSeq(s, p, Len(s))
  PROVE  /\ t = <<>> => p = Len(s) + 1
         /\ t # <<>> => /\ p \in 1..Len(s) /\ Head(t) = s[p]
                        /\ \A n \in 1..2 : p + n <= Len(s) + 1 =>
                             SubSeq(t, n + 1, Len(t)) = SubSeq(s, p + n, Len(s))
<1>1. PICK l \in Nat : l = Len(s)
  OBVIOUS
<1>2. t \in Seq(S) /\ Len(t) = (l - p) + 1 /\ \A x \in 1..((l - p) + 1) : t[x] = s[(p + x) - 1]
  BY <1>1
<1>3. t = <<>> => p = l + 1
  BY <1>1, <1>2
<1>4. ASSUME t # <<>> PROVE p \in 1..l /\ Head(t) = s[p]
  BY <1>1, <1>2, <1>4
<1>5. ASSUME t # <<>>, NEW n \in 1..2, p + n <= l + 1
      PROVE  SubSeq(t, n + 1, Len(t)) = SubSeq(s, p + n, l)
  <2>1. PICK a, b : a = SubSeq(t, n + 1, Len(t)) /\ b = SubSeq(s, p + n, l)
    BY Zenon
  <2>2. PICK k \in Nat : k + (p + n) = l + 1
    <3>1. (l + 1) - (p + n) \in Nat /\ ((l + 1) - (p + n)) + (p + n) = l + 1
      BY <1>5
    <3> QED
      BY <3>1, Zenon
  <2>3. a \in Seq(S) /\ Len(a) = k /\ \A x \in 1..k : a[x] = t[n + x]
    <3>1. PICK q \in Nat : q = Len(t) /\ q = k + n
      BY <1>2, <2>2, SMTT(30)
    <3>2. a = SubSeq(t, n + 1, q) /\ n + 1 \in 1..(q + 1) /\ (q - (n + 1)) + 1 = k
      BY <2>1, <3>1
    <3>3. a \in Seq(S) /\ Len(a) = k /\ \A x \in 1..k : a[x] = t[((n + 1) + x) - 1]
      BY <1>2, <3>1, <3>2
    <3>4. \A x \in 1..k : ((n + 1) + x) - 1 = n + x
      OBVIOUS
    <3> QED
      BY <3>3, <3>4, Zenon
  <2>4. b \in Seq(S) /\ Len(b) = k /\ \A x \in 1..k : b[x] = s[((p + n) + x) - 1]
    <3>1. PICK m \in Nat : m = p + n
      OBVIOUS
    <3>2. b = SubSeq(s, m, l) /\ m \in 1..(l + 1) /\ (l - m) + 1 = k
      BY <2>1, <2>2, <3>1
    <3>3. b \in Seq(S) /\ Len(b) = k /\ \A x \in 1..k : b[x] = s[(m + x) - 1]
      BY <1>1, <3>2
    <3> QED
      BY <3>1, <3>3, Zenon
  <2>5. \A x \in 1..k : t[n + x] = s[((p + n) + x) - 1]
    <3> TAKE x \in 1..k
    <3>1. n + x \in 1..((l - p) + 1) /\ (p + (n + x)) - 1 = ((p + n) + x) - 1
      BY <2>2
    <3> QED
      BY <1>2, <3>1, Zenon
  <2>6. a = b
    <3>1. \A x \in 1..Len(a) : a[x] = b[x]
      BY <2>3, <2>4, <2>5, Zenon
    <3> QED
      BY <2>3, <2>4, <3>1, SameList, Zenon
  <2> QED
    BY <2>1, <2>6, Zenon
<1> QED
  BY <1>1, <1>3, <1>4, <1>5, Zenon

(* A fit list is a sequence.                                                *)
LEMMA FitSeq == ASSUME NEW s, NEW k, Fit(s, k) PROVE \E S : s \in Seq(S)
BY Zenon DEF Fit

(* A step inside a request leaves its place.                                *)
LEMMA AtKept ==
  ASSUME NEW s, NEW p \in Nat, At(s, p), Grows, todo' = todo PROVE At(s, p)'
BY DoneGrows, Zenon DEF At

(* A request that ends, with the next one when its failure skips that,      *)
(* moves the place on.                                                      *)
LEMMA Advance ==
  ASSUME NEW s, NEW k, Fit(s, k), NEW p \in Nat, At(s, p), Grows, todo # <<>>,
         NEW n \in 1..2, Drop(n), p + n <= Len(s) + 1,
         Done(s[p])', n = 2 => Done(s[p + 1])'
  PROVE  At(s, p + n)'
<1>1. PICK S : s \in Seq(S)
  BY FitSeq, Zenon
<1>2. PICK l \in Nat : l = Len(s)
  BY <1>1
<1>3. todo' = SubSeq(s, p + n, l)
  BY <1>1, <1>2, Suffix DEF At, Drop
<1>4. p + n \in 1..(l + 1)
  BY <1>2
<1>5. ASSUME NEW x \in 1..((p + n) - 1) PROVE Done(s[x])'
  <2>1. x \in 1..(p - 1) \/ x = p \/ (x = p + 1 /\ n = 2)
    OBVIOUS
  <2>2. CASE x \in 1..(p - 1)
    BY <2>2, DoneGrows, Zenon DEF At
  <2> QED
    BY <2>1, <2>2, Zenon
<1> QED
  BY <1>2, <1>3, <1>4, <1>5, Zenon DEF At

(* Where a list is being worked on, its head is the p-th request.          *)
LEMMA InHand ==
  ASSUME PlaceInv, todo # <<>>
  PROVE  \E s : \E p \in Nat :
                           /\ s = Script(kext, config) /\ Fit(s, kext) /\ At(s, p) /\ kext \notin kexts
                           /\ p \in DOMAIN s /\ DOMAIN s = 1..Len(s) /\ Len(s) \in Nat
                           /\ Head(todo) = s[p] /\ FitAt(s, p, kext)
<1>1. PICK s : s = Script(kext, config)
  OBVIOUS
<1>2. kext \notin kexts /\ \E p \in Nat : At(s, p)
  BY <1>1, Zenon DEF PlaceInv
<1>3. PICK p \in Nat : At(s, p)
  BY <1>2, Zenon
<1>4. Fit(s, kext)
  BY <1>1, FitScript, Zenon DEF PlaceInv
<1>5. PICK S : s \in Seq(S)
  BY <1>4, FitSeq, Zenon
<1>6. p \in DOMAIN s /\ DOMAIN s = 1..Len(s) /\ Len(s) \in Nat /\ Head(todo) = s[p]
  BY <1>3, <1>5, Suffix DEF At
<1>7. FitAt(s, p, kext)
  BY <1>4, <1>6, Zenon DEF Fit
<1> QED
  BY <1>1, <1>2, <1>3, <1>4, <1>6, <1>7, SMTT(30)

(* The kexts that are through stay so.                                      *)
LEMMA PastKept == ASSUME PastInv, Same, Grows PROVE PastInv'
<1> SUFFICES ASSUME NEW k \in Kexts \ kexts, k # kext, NEW x \in DOMAIN Script(k, config)
             PROVE  Done(Script(k, config)[x])'
  BY Zenon DEF PastInv, Same
<1>1. PICK r : r = Script(k, config)[x]
  OBVIOUS
<1>2. Done(r)
  BY <1>1, Zenon DEF PastInv
<1>3. Done(r)'
  BY <1>2, DoneGrows, Zenon
<1>4. config' = config
  BY Zenon DEF Same
<1> QED
  BY <1>1, <1>3, <1>4, Zenon

(* A step inside a request keeps the place in the list (Kept, Begun, a      *)
(* route of two half done).                                                 *)
LEMMA PlaceKept == ASSUME PlaceInv, Same, Grows, todo' = todo PROVE PlaceInv'
<1>1. PICK s : s = Script(kext, config)
  OBVIOUS
<1>2. Script(kext, config)' = s /\ kext' = kext /\ kexts' = kexts
  BY <1>1, Zenon DEF Same
<1>3. \A p \in Nat : At(s, p) => At(s, p)'
  BY AtKept, Zenon
<1>4. \/ kext \in kexts /\ todo = <<>>
      \/ kext \notin kexts /\ \E p \in Nat : At(s, p)
  BY <1>1, Zenon DEF PlaceInv
<1>5. kext \in Kexts
  BY Zenon DEF PlaceInv
<1> QED
  BY <1>2, <1>3, <1>4, <1>5, Zenon DEF PlaceInv

(* A step that ends a request moves the place to the next open one.         *)
LEMMA PlaceAdvances ==
  ASSUME PlaceInv, Same, Grows, todo # <<>>, NEW n \in 1..2, Drop(n),
         NEW r, r = Head(todo), Done(r)', n = 2 => r.onFail = 2
  PROVE  PlaceInv'
<1>1. PICK s : \E p \in Nat : /\ s = Script(kext, config) /\ Fit(s, kext) /\ At(s, p) /\ kext \notin kexts
                              /\ p \in DOMAIN s /\ DOMAIN s = 1..Len(s) /\ Len(s) \in Nat
                              /\ Head(todo) = s[p] /\ FitAt(s, p, kext)
  BY InHand, Zenon
<1>2. PICK p \in Nat : /\ s = Script(kext, config) /\ Fit(s, kext) /\ At(s, p) /\ kext \notin kexts
                       /\ p \in DOMAIN s /\ DOMAIN s = 1..Len(s) /\ Len(s) \in Nat
                       /\ Head(todo) = s[p] /\ FitAt(s, p, kext)
  BY <1>1, Zenon
<1>3. CASE n = 1
  <2>1. p + 1 <= Len(s) + 1 /\ n \in 1..2 /\ n # 2
    BY <1>2, <1>3
  <2>2. At(s, p + n)'
    BY <1>2, <1>3, <2>1, Advance, SMTT(30)
  <2> QED
    BY <1>2, <1>3, <2>2, SMT DEF PlaceInv, Same
<1>4. CASE n = 2
  <2>1. p + 1 \in DOMAIN s /\ s[p + 1].onFail # 0
    BY <1>2, <1>4, Zenon DEF FitAt
  <2>2. p + 2 <= Len(s) + 1
    BY <1>2, <2>1
  <2>3. Done(s[p + 1])'
    BY <2>1, Zenon DEF Done
  <2>4. At(s, p + n)'
    BY <1>2, <1>4, <2>2, <2>3, Advance, SMTT(30)
  <2> QED
    BY <1>2, <1>4, <2>4, SMT DEF PlaceInv, Same
<1> QED
  BY <1>3, <1>4

(* When no request is open, all of the kext in hand are done (ProcessKext   *)
(* returned).                                                               *)
LEMMA AllDone ==
  ASSUME PlaceInv, todo = <<>>, kext \notin kexts
  PROVE  \A x \in DOMAIN Script(kext, config) : Done(Script(kext, config)[x])
<1>1. PICK s : s = Script(kext, config)
  OBVIOUS
<1>2. PICK p \in Nat : At(s, p)
  BY <1>1, Zenon DEF PlaceInv
<1>3. PICK S : s \in Seq(S)
  BY <1>1, FitScript, FitSeq, Zenon DEF PlaceInv
<1>4. p = Len(s) + 1 /\ DOMAIN s = 1..Len(s) /\ Len(s) \in Nat
  <2>1. PICK t : t = todo
    OBVIOUS
  <2>2. p \in 1..(Len(s) + 1) /\ t = SubSeq(s, p, Len(s)) /\ t = <<>>
    BY <1>2, <2>1, Zenon DEF At
  <2>3. p = Len(s) + 1
    BY <1>3, <2>2, Suffix, Zenon
  <2> QED
    BY <1>3, <2>3
<1>5. \A x \in DOMAIN s : x \in 1..(p - 1)
  BY <1>4
<1> QED
  BY <1>1, <1>2, <1>5, Zenon DEF At

(* The listener announces the next kext only when the last one is done.     *)
LEMMA AnnounceIInv == ASSUME IInv, NEW k \in Kexts, Announce(k) PROVE IInv'
<1>1. /\ todo = <<>> /\ k \in kexts /\ kexts' = kexts \ {k} /\ kext' = k /\ todo' = Script(k, config)
      /\ UNCHANGED <<config, queue, known, live, lost>>
  BY Zenon DEF Announce
<1>2. queue = <<>>
  BY <1>1, Zenon DEF IInv, QueueInv
<1>3. PlaceInv'
  <2>1. PICK s : s = Script(k, config)
    OBVIOUS
  <2>2. PICK S : s \in Seq(S)
    BY <2>1, FitScript, FitSeq, Zenon
  <2>3. s = SubSeq(s, 1, Len(s)) /\ 1 \in 1..(Len(s) + 1) /\ 1..(1 - 1) = {}
    BY <2>2, WholeList
  <2>4. At(s, 1)'
    BY <1>1, <2>1, <2>3, Zenon DEF At
  <2>5. Script(kext, config)' = s /\ kext' \notin kexts'
    BY <1>1, <2>1, Zenon
  <2> QED
    BY <1>1, <2>4, <2>5, Zenon DEF PlaceInv
<1>4. PastInv'
  <2> SUFFICES ASSUME NEW j \in Kexts \ kexts', j # k, NEW x \in DOMAIN Script(j, config)
               PROVE  Done(Script(j, config)[x])
    BY <1>1, Zenon DEF PastInv, Done
  <2>1. j \in Kexts \ kexts
    BY <1>1, Zenon
  <2>2. CASE j = kext
    BY <1>1, <2>1, <2>2, AllDone, Zenon DEF IInv
  <2>3. CASE j # kext
    BY <2>1, <2>3, Zenon DEF IInv, PastInv
  <2> QED
    BY <2>2, <2>3, Zenon
<1>5. QueueInv'
  BY <1>1, <1>2, Zenon DEF QueueInv
<1>6. ProbesInv'
  BY <1>1, Zenon DEF IInv, ProbesInv, Together
<1>7. HooksFindPointers'
  BY <1>1, Zenon DEF IInv, HooksFindPointers
<1> QED
  BY <1>3, <1>4, <1>5, <1>6, <1>7, Zenon DEF IInv

(* A request without a route that succeeds keeps the invariant.             *)
LEMMA SolvedIInv == ASSUME IInv, Solved PROVE IInv'
<1>1. /\ Same /\ queue = <<>> /\ queue' = <<>> /\ todo # <<>> /\ Head(todo).op \notin RouteOps /\ Drop(1)
      /\ Head(todo).op \in SolveOps => Range(Head(todo).names) \subseteq known'
      /\ known \subseteq known' /\ UNCHANGED <<live, lost>>
  BY Zenon DEF Solved, Names
<1>2. Grows
  BY <1>1, Zenon DEF Grows
<1>3. PICK r : r = Head(todo)
  OBVIOUS
<1>4. Done(r)'
  BY <1>1, <1>3, Zenon DEF Done
<1>5. PlaceInv'
  <2>1. 1 \in 1..2 /\ 1 # 2
    OBVIOUS
  <2> QED
    BY <1>1, <1>2, <1>3, <1>4, <2>1, PlaceAdvances, SMTT(30) DEF IInv
<1>6. PastInv'
  BY <1>1, <1>2, PastKept, Zenon DEF IInv
<1>7. QueueInv'
  BY <1>1, Zenon DEF QueueInv
<1>8. ProbesInv'
  <2>1. Together
    BY <1>1, Zenon DEF IInv, ProbesInv
  <2> QED
    BY <1>1, <2>1, Zenon DEF ProbesInv, Together
<1>9. HooksFindPointers'
  BY <1>1, SMTT(30) DEF IInv, HooksFindPointers
<1> QED
  BY <1>5, <1>6, <1>7, <1>8, <1>9, SMTT(30) DEF IInv

(* A request that fails keeps it: it stays open (PANIC_COND), or it is      *)
(* skipped and may be.                                                      *)
LEMMA FailedIInv == ASSUME IInv, Failed PROVE IInv'
<1>1. /\ Same /\ queue' = <<>> /\ UNCHANGED <<known, live>>
      /\ \/ queue = <<>> /\ todo # <<>> /\ lost' = lost
         \/ queue # <<>> /\ lost' = lost \cup {Head(queue)}
      /\ \/ Head(todo).onFail = 0 /\ UNCHANGED todo
         \/ Head(todo).onFail # 0 /\ Drop(Head(todo).onFail)
  BY Zenon DEF Failed
<1>2. Grows
  BY <1>1, Zenon DEF Grows
<1>3. todo # <<>>
  BY <1>1, Zenon DEF IInv, QueueInv
<1>4. PlaceInv'
  <2>1. CASE UNCHANGED todo
    BY <1>1, <1>2, <2>1, PlaceKept DEF IInv
  <2>2. CASE Head(todo).onFail # 0 /\ Drop(Head(todo).onFail)
    <3>1. PICK r : r = Head(todo)
      OBVIOUS
    <3>2. r.onFail \in {0, 1, 2}
      BY <1>3, <3>1, InHand DEF IInv, FitAt, Shaped
    <3>3. PICK n \in 1..2 : n = r.onFail
      BY <2>2, <3>1, <3>2
    <3>4. Done(r)'
      BY <2>2, <3>1, Zenon DEF Done
    <3>5. Drop(n) /\ (n = 2 => r.onFail = 2)
      BY <2>2, <3>1, <3>3, Zenon
    <3> QED
      BY <1>1, <1>2, <1>3, <3>1, <3>4, <3>5, PlaceAdvances, SMTT(30) DEF IInv
  <2> QED
    BY <1>1, <2>1, <2>2, Zenon
<1>5. PastInv'
  BY <1>1, <1>2, PastKept, Zenon DEF IInv
<1>6. QueueInv'
  BY <1>1, Zenon DEF QueueInv
<1>7. ProbesInv'
  <2>1. CASE Together
    BY <1>1, <2>1, Zenon DEF ProbesInv, Together
  <2>2. CASE queue = <<"celloProbe">>
    <3>1. "celloProbe" \in lost'
      BY <1>1, <2>2, Tuples, Zenon
    <3>2. "celloProbe" \in Range(Probes)
      BY RangeTwo, Zenon DEF Probes
    <3> QED
      BY <3>1, <3>2, Zenon DEF ProbesInv, Together
  <2> QED
    BY <2>1, <2>2, Zenon DEF IInv, ProbesInv
<1>8. HooksFindPointers'
  BY <1>1, <1>2, Zenon DEF IInv, HooksFindPointers, Grows
<1> QED
  BY <1>4, <1>5, <1>6, <1>7, <1>8, SMTT(30) DEF IInv

(* Finding the functions and making a trampoline keep it: nothing can be    *)
(* called yet.                                                              *)
LEMMA BegunIInv == ASSUME IInv, Begun \/ Kept PROVE IInv'
<1>1. /\ Same /\ known \subseteq known' /\ UNCHANGED <<todo, live, lost>>
      /\ \/ queue = <<>> /\ queue' = Names /\ todo # <<>> /\ Head(todo).op \in RouteOps
         \/ queue' = queue
  BY Zenon DEF Begun, Kept
<1>2. Grows
  BY <1>1, Zenon DEF Grows
<1>3. PlaceInv' /\ PastInv'
  BY <1>1, <1>2, PlaceKept, PastKept, Zenon DEF IInv
<1>4. QueueInv'
  <2>1. Names' = Names /\ Head(todo)' = Head(todo)
    BY <1>1, Zenon DEF Names
  <2>2. CASE queue' = Names /\ todo # <<>> /\ Head(todo).op \in RouteOps
    BY <1>1, <2>1, <2>2 DEF QueueInv
  <2>3. CASE queue' = queue
    <3>1. \A m, n : Half(m, n) => Half(m, n)'
      BY <1>1, <2>1, <2>3, Zenon DEF Half
    <3> QED
      BY <1>1, <2>1, <2>3, <3>1, Zenon DEF IInv, QueueInv
  <2> QED
    BY <1>1, <2>2, <2>3, Zenon
<1>5. ProbesInv'
  <2>1. CASE Together
    BY <1>1, <2>1, Zenon DEF ProbesInv, Together
  <2>2. CASE todo # <<>> /\ Names = Probes /\ queue = <<"celloProbe">>
    <3>1. queue # <<>>
      BY <2>2, Zenon
    <3> QED
      BY <1>1, <2>2, <3>1, Zenon DEF ProbesInv, Names
  <2> QED
    BY <2>1, <2>2, Zenon DEF IInv, ProbesInv
<1>6. HooksFindPointers'
  BY <1>1 DEF IInv, HooksFindPointers
<1> QED
  BY <1>3, <1>4, <1>5, <1>6, Zenon DEF IInv

One(n) == Names = <<n>> /\ queue = <<n>>
Both(m, n) == Names = <<m, n>> /\ queue = <<m, n>>

(* Where a route is: before its one function, the first of two, or the      *)
(* second.                                                                  *)
LEMMA QueueCases ==
  ASSUME IInv, queue # <<>>
  PROVE  /\ todo # <<>> /\ Head(todo).op \in RouteOps
         /\ (\E n : One(n)) \/ (\E m, n : m # n /\ (Both(m, n) \/ Half(m, n)))
         /\ (kext = "mccs" /\ Names = Probes) \/ Range(Names) \cap Range(Probes) = {}
<1>1. todo # <<>> /\ Head(todo).op \in RouteOps /\ (queue = Names \/ \E m, n : Half(m, n))
  BY Zenon DEF IInv, QueueInv
<1>2. PICK r : r = Head(todo)
  BY SMTT(30)
<1>3. Shaped(r, kext)
  BY <1>1, <1>2, InHand, SMTT(30) DEF IInv, FitAt
<1>4. r.names = Names /\ r.op \in RouteOps
  BY <1>1, <1>2, Zenon DEF Names
<1>5. /\ (\E n : Names = <<n>>) \/ (\E m, n : Names = <<m, n>> /\ m # n)
      /\ (kext = "mccs" /\ Names = Probes) \/ Range(Names) \cap Range(Probes) = {}
  BY <1>3, <1>4, Zenon DEF Shaped
<1>6. CASE queue = Names
  BY <1>1, <1>5, <1>6, Zenon DEF One, Both
<1>7. CASE \E m, n : Half(m, n)
  <2>1. PICK m, n : Half(m, n)
    BY <1>7, Zenon
  <2>2. Names = <<m, n>>
    BY <2>1, Zenon DEF Half
  <2>3. PICK i, j : Names = <<i, j>> /\ i # j
    BY <1>5, <2>2, Tuples, Zenon
  <2>4. m # n
    BY <2>2, <2>3, Tuples
  <2> QED
    BY <1>1, <1>5, <2>1, <2>4, Zenon
<1> QED
  BY <1>1, <1>6, <1>7, SMTT(30)

(* The hook of another function does not part the probes.                   *)
LEMMA TogetherKept ==
  ASSUME Together, NEW h, h \notin Range(Probes), live' \in {live, live \cup {h}}, lost \subseteq lost'
  PROVE  Together'
BY Zenon DEF Together

(* The two probes are different, and their hooks call no original.          *)
LEMMA TheProbes ==
  /\ Range(Probes) = {"gibraltarProbe", "celloProbe"} /\ "gibraltarProbe" # "celloProbe"
  /\ Range(Probes) \subseteq NoOriginal
  /\ \A n : Probes # <<n>>
  /\ \A m, n : Probes = <<m, n>> => m = "gibraltarProbe" /\ n = "celloProbe"
<1>1. Range(Probes) = {"gibraltarProbe", "celloProbe"}
  BY RangeTwo, Zenon DEF Probes
<1>2. Range(Probes) \subseteq NoOriginal
  BY <1>1, Zenon DEF NoOriginal
<1> QED
  BY <1>1, <1>2, Tuples, Zenon DEF Probes

(* routeFunctionInternal leaves the function hooked or, without memory for  *)
(* a trampoline, lost.                                                      *)
LEMMA HookedEffect ==
  ASSUME Hooked, NEW h, h = Head(queue)
  PROVE  /\ Grows /\ h \in live' \cup lost' /\ h \in NoOriginal \cup known' \cup lost'
         /\ live' \in {live, live \cup {h}} /\ known' = known
         /\ h \in live' => h \in live \/ h \in NoOriginal \cup known
         /\ h \in NoOriginal => h \in live' /\ lost' = lost
<1>1. /\ known' = known
      /\ \/ h \in NoOriginal \cup known /\ live' = live \cup {h} /\ lost' = lost
         \/ h \notin NoOriginal /\ lost' = lost \cup {h} /\ live' = live
  BY Zenon DEF Hooked
<1>2. CASE h \in NoOriginal \cup known /\ live' = live \cup {h} /\ lost' = lost
  BY <1>1, <1>2, Zenon DEF Grows
<1>3. CASE h \notin NoOriginal /\ lost' = lost \cup {h} /\ live' = live
  BY <1>1, <1>3, Zenon DEF Grows
<1> QED
  BY <1>1, <1>2, <1>3, Zenon

(* Routing a function keeps the place, and the queue holds what is left of  *)
(* the request.                                                             *)
LEMMA HookedPlace == ASSUME IInv, Hooked PROVE PlaceInv' /\ PastInv' /\ QueueInv'
<1>1. Same /\ queue # <<>> /\ queue' = Tail(queue) /\ IF Len(queue) = 1 THEN Drop(1) ELSE UNCHANGED todo
  BY Zenon DEF Hooked
<1>2. PICK h : h = Head(queue)
  OBVIOUS
<1>3. /\ Grows /\ h \in live' \cup lost' /\ h \in NoOriginal \cup known' \cup lost'
  BY <1>2, HookedEffect, Zenon
<1>4. PastInv'
  BY <1>1, <1>3, PastKept, SMTT(30) DEF IInv
<1>5. /\ todo # <<>> /\ Head(todo).op \in RouteOps
      /\ (\E n : One(n)) \/ (\E m, n : m # n /\ (Both(m, n) \/ Half(m, n)))
  BY <1>1, QueueCases, Zenon
<1>6. PICK r : r = Head(todo)
  OBVIOUS
<1>7. r.names = Names /\ r.op \in RouteOps /\ r.op \notin SolveOps
  BY <1>5, <1>6, Zenon DEF Names, RouteOps, SolveOps
<1>8. ASSUME Drop(1), queue' = <<>>, Range(Names) \subseteq live' \cup lost'
      PROVE  PlaceInv' /\ QueueInv'
  <2>1. Done(r)'
    BY <1>7, <1>8, Zenon DEF Done
  <2>2. 1 \in 1..2 /\ 1 # 2
    OBVIOUS
  <2>3. PlaceInv'
    BY <1>1, <1>3, <1>5, <1>6, <1>8, <2>1, <2>2, PlaceAdvances, SMTT(30) DEF IInv
  <2> QED
    BY <1>8, <2>3, Zenon DEF QueueInv
<1>9. CASE \E n : One(n)
  <2>1. PICK n : Names = <<n>> /\ queue = <<n>>
    BY <1>9, Zenon DEF One
  <2>2. h = n /\ Len(queue) = 1 /\ Tail(queue) = <<>> /\ Range(Names) = {n}
    BY <1>2, <2>1, Tuples, RangeOne, SMTT(30)
  <2> QED
    BY <1>1, <1>3, <1>4, <1>8, <2>2, SMTT(30)
<1>10. CASE \E m, n : m # n /\ Both(m, n)
  <2>1. PICK m, n : Names = <<m, n>> /\ queue = <<m, n>>
    BY <1>10, Zenon DEF Both
  <2>2. h = m /\ Len(queue) # 1 /\ Tail(queue) = <<n>>
    BY <1>2, <2>1, Tuples
  <2>3. todo' = todo /\ Names' = Names /\ queue' = <<n>>
    BY <1>1, <2>2, Zenon DEF Names
  <2>4. Half(m, n)'
    BY <1>3, <2>1, <2>2, <2>3, SMTT(30) DEF Half
  <2>5. QueueInv'
    BY <1>5, <2>3, <2>4, Zenon DEF QueueInv
  <2> QED
    BY <1>1, <1>3, <1>4, <2>3, <2>5, PlaceKept, SMTT(30) DEF IInv
<1>11. CASE \E m, n : m # n /\ Half(m, n)
  <2>1. PICK m, n : Names = <<m, n>> /\ queue = <<n>> /\ m \in live \cup lost
    BY <1>11, Zenon DEF Half
  <2>2. h = n /\ Len(queue) = 1 /\ Tail(queue) = <<>> /\ Range(Names) = {m, n}
    BY <1>2, <2>1, Tuples, RangeTwo, SMTT(30)
  <2>3. m \in live' \cup lost'
    BY <1>3, <2>1, Zenon DEF Grows
  <2> QED
    BY <1>1, <1>3, <1>4, <1>8, <2>2, <2>3, SMTT(30)
<1> QED
  BY <1>5, <1>9, <1>10, <1>11, SMTT(30)

(* Routing a function parts the probes only while the second is about to    *)
(* follow.                                                                  *)
LEMMA HookedProbes == ASSUME IInv, Hooked PROVE ProbesInv'
<1>1. queue # <<>> /\ queue' = Tail(queue) /\ (Len(queue) # 1 => todo' = todo)
  BY Zenon DEF Hooked
<1>2. PICK h : h = Head(queue)
  OBVIOUS
<1>3. /\ Grows /\ h \in live' \cup lost'
      /\ live' \in {live, live \cup {h}}
      /\ h \in NoOriginal => h \in live' /\ lost' = lost
  BY <1>2, HookedEffect, Zenon
<1>4. /\ todo # <<>>
      /\ (\E n : One(n)) \/ (\E m, n : m # n /\ (Both(m, n) \/ Half(m, n)))
      /\ Names = Probes \/ Range(Names) \cap Range(Probes) = {}
  BY <1>1, QueueCases, Zenon
<1>5. CASE Names # Probes
  <2>1. Together
    BY <1>5, Zenon DEF IInv, ProbesInv
  <2>2. h \in Range(Names)
    <3>1. CASE \E n : One(n)
      BY <1>2, <3>1, Tuples, RangeOne, SMTT(30) DEF One
    <3>2. CASE \E m, n : Both(m, n) \/ Half(m, n)
      BY <1>2, <3>2, Tuples, RangeTwo, SMTT(30) DEF Both, Half
    <3> QED
      BY <1>4, <3>1, <3>2, Zenon
  <2>3. h \notin Range(Probes) /\ lost \subseteq lost'
    BY <1>3, <1>4, <1>5, <2>2, SMTT(30) DEF Grows
  <2> QED
    BY <1>3, <2>1, <2>3, TogetherKept, SMTT(30) DEF ProbesInv
<1>6. CASE Names = Probes
  <2>1. PICK m, n : Both(m, n) \/ Half(m, n)
    BY <1>4, <1>6, TheProbes DEF One
  <2>2. m = "gibraltarProbe" /\ n = "celloProbe"
    BY <1>6, <2>1, TheProbes, SMTT(30) DEF Both, Half
  <2>3. CASE Both(m, n)
    <3>1. queue' = <<n>> /\ todo' = todo
      BY <1>1, <2>3, Tuples DEF Both
    <3> QED
      BY <1>4, <1>6, <2>2, <3>1, SMTT(30) DEF ProbesInv, Names
  <2>4. CASE Half(m, n)
    <3>1. h = n /\ m \in live \cup lost
      BY <1>2, <2>4, Tuples, SMTT(30) DEF Half
    <3>2. n \in live' /\ lost' = lost /\ m \in live' \cup lost'
      BY <1>3, <2>2, <3>1, TheProbes, SMTT(30) DEF Grows
    <3>3. Range(Probes) = {m, n}
      BY <2>2, TheProbes, Zenon
    <3>4. Together'
      BY <3>2, <3>3, Zenon DEF Together
    <3> QED
      BY <3>4, Zenon DEF ProbesInv
  <2> QED
    BY <2>1, <2>3, <2>4, SMTT(30)
<1> QED
  BY <1>5, <1>6, Zenon

(* A function is hooked only after everything its hook dereferences is      *)
(* there (routeFunctionInternal).                                           *)
LEMMA HookedPointers == ASSUME IInv, Hooked PROVE HooksFindPointers'
<1>1. queue # <<>>
  BY Zenon DEF Hooked
<1>2. PICK h : h = Head(queue)
  OBVIOUS
<1>3. /\ Grows /\ live' \in {live, live \cup {h}} /\ known' = known
      /\ h \in live' => h \in live \/ h \in NoOriginal \cup known
  BY <1>2, HookedEffect, Zenon
<1>4. SUFFICES ASSUME h \in NoOriginal \cup known, NEW n \in Needs(h) PROVE n \in known \cup lost
  BY <1>3, Zenon DEF IInv, HooksFindPointers, Grows
<1>5. h \notin NoOriginal
  BY <1>4, Zenon DEF Needs, NoOriginal
<1>6. CASE n = h
  BY <1>4, <1>5, <1>6, SMTT(30)
<1>7. CASE n # h
  <2>1. /\ todo # <<>> /\ Head(todo).op \in RouteOps
        /\ (\E i : One(i)) \/ (\E i, j : i # j /\ (Both(i, j) \/ Half(i, j)))
    BY <1>1, QueueCases, Zenon
  <2>2. PICK s : \E p \in Nat : At(s, p) /\ Head(todo) = s[p] /\ FitAt(s, p, kext)
    BY <2>1, InHand, Zenon DEF IInv
  <2>3. PICK p \in Nat : At(s, p) /\ Head(todo) = s[p] /\ FitAt(s, p, kext)
    BY <2>2, SMTT(30)
  <2>4. Supported(s, p) /\ s[p].names = Names
    BY <2>1, <2>3, Zenon DEF FitAt, Names
  <2>5. h \in Range(Names)
    <3>1. CASE \E i : One(i)
      BY <1>2, <3>1, Tuples, RangeOne, SMTT(30) DEF One
    <3>2. CASE \E i, j : Both(i, j) \/ Half(i, j)
      BY <1>2, <3>2, Tuples, RangeTwo, SMTT(30) DEF Both, Half
    <3> QED
      BY <2>1, <3>1, <3>2, Zenon
  <2>6. \/ \E y \in 1..(p - 1) : s[y].op \in SolveOps /\ s[y].onFail = 0 /\ n \in Range(s[y].names)
        \/ Names = <<n, h>> /\ n \notin NoOriginal
    BY <1>4, <1>7, <2>4, <2>5, SMTT(30) DEF Supported
  <2>7. CASE \E y \in 1..(p - 1) : s[y].op \in SolveOps /\ s[y].onFail = 0 /\ n \in Range(s[y].names)
    BY <2>3, <2>7 DEF At, Done
  <2>8. CASE Names = <<n, h>> /\ n \notin NoOriginal
    <3>1. PICK i, j : i # j /\ (Both(i, j) \/ Half(i, j))
      BY <2>1, <2>8, Tuples, SMTT(30) DEF One
    <3>2. i = n /\ j = h
      BY <2>8, <3>1, Tuples, SMTT(30) DEF Both, Half
    <3>3. Half(i, j)
      BY <1>2, <3>1, <3>2, Tuples, SMTT(30) DEF Both
    <3> QED
      BY <2>8, <3>2, <3>3, SMTT(30) DEF Half
  <2> QED
    BY <2>6, <2>7, <2>8, SMTT(30)
<1> QED
  BY <1>6, <1>7, Zenon

(* Before the first kext, nothing is hooked.                                *)
LEMMA InitIInv == ASSUME Init PROVE IInv
<1>1. kexts = Kexts /\ kext \in Kexts /\ todo = <<>> /\ queue = <<>> /\ live = {}
  BY Zenon DEF Init, Kexts
<1> QED
  BY <1>1, Zenon DEF IInv, PlaceInv, PastInv, QueueInv, ProbesInv, Together, HooksFindPointers

(* Nothing happens.                                                         *)
LEMMA StutterIInv == ASSUME IInv, UNCHANGED vars PROVE IInv'
<1>1. UNCHANGED <<config, kexts, kext, todo, queue, known, live, lost>>
  BY Zenon DEF vars
<1>2. Grows /\ Same
  BY <1>1, Zenon DEF Grows, Same
<1>3. PlaceInv' /\ PastInv'
  BY <1>1, <1>2, PlaceKept, PastKept, SMTT(30) DEF IInv
<1>4. QueueInv'
  BY <1>1, Zenon DEF IInv, QueueInv, Half, Names
<1>5. ProbesInv' /\ HooksFindPointers'
  BY <1>1, Zenon DEF IInv, ProbesInv, Together, Names, HooksFindPointers
<1> QED
  BY <1>3, <1>4, <1>5 DEF IInv

(* Every step keeps the invariant.                                          *)
LEMMA NextIInv == ASSUME IInv, [Next]_vars PROVE IInv'
<1>1. CASE Next
  <2>1. CASE Hooked
    BY <2>1, HookedPlace, HookedProbes, HookedPointers, SMTT(30) DEF IInv
  <2> QED
    BY <1>1, <2>1, StepKinds, AnnounceIInv, SolvedIInv, FailedIInv, BegunIInv, SMTT(30)
<1> QED
  BY <1>1, StutterIInv, Zenon

(* What the modules have left of a kext they are through with.             *)
LEMMA ThroughDone ==
  ASSUME IInv, NEW k \in Through PROVE k \in Kexts /\ \A r \in RequestsFor(k) : Done(r)
<1>1. k \in Kexts \ kexts /\ (k = kext => todo = <<>>)
  BY Zenon DEF Through
<1>2. \A x \in DOMAIN Script(k, config) : Done(Script(k, config)[x])
  <2>1. CASE k = kext
    BY <1>1, <2>1, AllDone, Zenon DEF IInv
  <2>2. CASE k # kext
    BY <1>1, <2>2, Zenon DEF IInv, PastInv
  <2> QED
    BY <2>1, <2>2, Zenon
<1> QED
  BY <1>1, <1>2, Zenon DEF RequestsFor, Range

(* The hooks that are insisted on are among what is done.                   *)
LEMMA LiveInv == ASSUME IInv PROVE HooksAreLive
<1> SUFFICES ASSUME NEW k \in Through, NEW r \in RequestsFor(k), r.onFail = 0, r.op \in RouteOps
             PROVE  Range(r.names) \subseteq live \cup lost
  BY DEF HooksAreLive, Hooks, RouteOps
<1> QED
  BY ThroughDone, Zenon DEF Done

(* routeMultiple of two functions is insisted on, or is of the probes.      *)
LEMMA AllInv == ASSUME IInv PROVE AllOrNothing
<1> SUFFICES ASSUME NEW k \in Through, NEW r \in RequestsFor(k), r.op = "routeMultiple"
             PROVE  \/ Range(r.names) \cap lost # {}
                    \/ Range(r.names) \subseteq live
                    \/ Range(r.names) \cap live = {}
  BY Zenon DEF AllOrNothing
<1>1. k \in Kexts /\ Done(r) /\ r.op \in RouteOps
  BY ThroughDone, SMTT(30) DEF RouteOps
<1>2. Shaped(r, k)
  BY <1>1, FitScript, Zenon DEF Fit, FitAt, RequestsFor, Range
<1>3. CASE r.onFail = 0
  BY <1>1, <1>3, Zenon DEF Done
<1>4. CASE \E n : r.names = <<n>>
  BY <1>4, RangeOne
<1>5. CASE k = "mccs" /\ r.names = Probes
  <2>1. CASE Together
    BY <1>5, <2>1, Zenon DEF Together
  <2>2. CASE todo # <<>> /\ Names = Probes /\ queue = <<"celloProbe">>
    <3>1. queue # <<>>
      BY <2>2, Tuples, Zenon
    <3>2. kext = "mccs"
      BY <2>2, <3>1, QueueCases, TheProbes, Zenon
    <3> QED
      BY <1>5, <2>2, <3>2, Zenon DEF Through
  <2> QED
    BY <2>1, <2>2, Zenon DEF IInv, ProbesInv
<1> QED
  BY <1>2, <1>3, <1>4, <1>5, SMTT(30) DEF Shaped

(* The invariant holds throughout.                                          *)
LEMMA InvariantHolds == Spec => []IInv
BY InitIInv, NextIInv, PTL DEF Spec

(* A hook the driver can call finds its original and every pointer          *)
(* ProcessKext solves for it, at every moment of the patching, under every  *)
(* configuration and whatever fails, unless memory ran out.                 *)
THEOREM PointersFound == Spec => []HooksFindPointers
<1>1. IInv => HooksFindPointers
  BY Zenon DEF IInv
<1> QED
  BY <1>1, InvariantHolds, PTL

(* When ProcessKext is through with a kext, every hook whose failure would  *)
(* panic is in place or was lost for want of memory, under every            *)
(* configuration and in any order of the kexts.                             *)
THEOREM InsistedHooksLive == Spec => []HooksAreLive
BY LiveInv, InvariantHolds, PTL

(* routeMultiple without "force" has hooked all its functions or none once  *)
(* the kext is done, unless memory ran out for one of them, so that no      *)
(* missing symbol leaves MCCS with one of its two probes.                   *)
THEOREM RoutedTogether == Spec => []AllOrNothing
BY AllInv, InvariantHolds, PTL

(* A module panics only over a request that failed, whatever error an       *)
(* earlier request, another module or the listener left in the patcher's    *)
(* code.                                                                    *)
THEOREM PanicEarned == Spec => []PanicIsEarned
<1>1. Init => PanicIsEarned
  BY Zenon DEF Init, PanicIsEarned
<1>2. PanicIsEarned /\ [Next]_vars => PanicIsEarned'
  <2> SUFFICES ASSUME PanicIsEarned, [Next]_vars, panicked' PROVE failed'
    BY Zenon DEF PanicIsEarned
  <2>1. CASE Next
    BY <2>1, ZenonT(30)
       DEF Next, Announce, PatternSolve, Asked, Succeeds, FailsUnrouted, Fails, FindMask,
           SolveMultiple, PatternRoute, Found, RouteMultiple, Routing, CreateTrampoline, WriteJump,
           WrapFails, RouteFails, ApplyPatch, ApplyMasked, Clear, Routed, CodeBefore
  <2>2. CASE UNCHANGED vars
    BY <2>2, Zenon DEF vars, PanicIsEarned
  <2> QED
    BY <2>1, <2>2, Zenon
<1> QED
  BY <1>1, <1>2, PTL DEF Spec
===============================================================================
