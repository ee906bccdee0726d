---------------------------- MODULE BacklightProofs ----------------------------
(***************************************************************************)
(* The brightness of the panel for any setters, links and displays, any    *)
(* values and maxima, and any scale whose hundredfold fits UInt32.         *)
(***************************************************************************)
EXTENDS Backlight, TLAPS

Calls ==
  [pc : {"idle", "check", "percent", "path", "send"}, percentage : Nat,
   from : [value : Nat, max : Nat], aux : BOOLEAN, raced : BOOLEAN, alone : BOOLEAN,
   ret : {"none", "InternalError", "Success", "DeviceError"}]

(* A percentage p of value v and maximum m: too high never, too low by     *)
(* less than one unless the product wrapped around.                        *)
Worked(p, v, m) ==
  /\ m > 0 /\ p * m <= v * 100
  /\ v * 100 < Modulus => v * 100 < p * m + m

(* The maximum is never 0; a percentage is that of the value and maximum   *)
(* it was worked out from; a call that no link creation overlaps has the   *)
(* path of the link that it will find.                                     *)
FieldsInv ==
  /\ CurrentPwmBacklightLevel \in Nat
  /\ MaxPwmBacklightLevel \in Nat \ {0}
CallsInv ==
  /\ call \in [Setters -> Calls]
  /\ \A t \in Setters : call[t].pc \in {"path", "send"}
                           => Worked(call[t].percentage, call[t].from.value, call[t].from.max)
  /\ SupportsAUX \in BOOLEAN /\ creating \in Links \cup {NoLink}
LinkInv ==
  /\ creating = NoLink /\ EmbeddedPanelLink # NoLink => SupportsAUX = EmbeddedPanelLink.oled
  /\ creating # NoLink => EmbeddedPanelLink = creating
  /\ \A t \in Setters : creating # NoLink /\ call[t].pc # "idle" => call[t].raced
  /\ \A t \in Setters : call[t].pc = "send" /\ ~call[t].raced /\ EmbeddedPanelLink # NoLink
                         => call[t].aux = EmbeddedPanelLink.oled
IInv == FieldsInv /\ CallsInv /\ LinkInv

(* What is left of a product that wraps around is no more than it.         *)
LEMMA Wraps ==
  ASSUME NEW a \in Nat, NEW b \in Nat
  PROVE  /\ Mul32(a, b) \in Nat /\ Mul32(a, b) <= a * b
         /\ a * b < Modulus => Mul32(a, b) = a * b
<1> DEFINE x == a * b
<1>1. x \in Nat /\ Modulus \in Nat \ {0}
  BY BacklightAssumption
<1> HIDE DEF x
<1>2. x % Modulus \in Nat /\ x % Modulus <= x /\ (x < Modulus => x % Modulus = x)
  BY <1>1
<1>3. Mul32(a, b) = x % Modulus
  BY Zenon DEF Mul32, x
<1> QED
  BY <1>2, <1>3, Zenon DEF x

(* A quotient, times the divisor, is the dividend but for the remainder.   *)
LEMMA Quotient ==
  ASSUME NEW x \in Nat, NEW m \in Nat \ {0}
  PROVE  x \div m \in Nat /\ (x \div m) * m <= x /\ x < (x \div m) * m + m
OBVIOUS

(* The percentage that the call works out.                                 *)
LEMMA PercentageWorked ==
  ASSUME NEW v \in Nat, NEW m \in Nat \ {0}
  PROVE  Mul32(v, 100) \div m \in Nat /\ Worked(Mul32(v, 100) \div m, v, m)
<1> DEFINE x == Mul32(v, 100)
           p == x \div m
<1>1. x \in Nat /\ x <= v * 100 /\ (v * 100 < Modulus => x = v * 100)
  BY Wraps
<1> HIDE DEF x
<1>2. p \in Nat /\ p * m <= x /\ x < p * m + m
  BY <1>1, Quotient
<1> HIDE DEF p
<1>3. p \in Nat /\ Worked(p, v, m)
  BY <1>1, <1>2 DEF Worked
<1> QED
  BY <1>3, Zenon DEF x, p

(* The level l of percentage p on a scale s: never above the share that    *)
(* the value v is of the maximum m, and close to it if nothing wrapped.    *)
Follows(l, s, v, m) ==
  /\ m > 0 /\ l * m <= s * v
  /\ v <= m /\ v * 100 < Modulus => 100 * s * v <= (100 * l + s + 99) * m

(* A share of the maximum that is at most the whole is at most 100 percent. *)
LEMMA AtMostWhole ==
  ASSUME NEW p \in Nat, NEW v \in Nat, NEW m \in Nat \ {0}, p * m <= v * 100, v <= m
  PROVE  p <= 100
<1> SUFFICES ASSUME p >= 101 PROVE FALSE
  OBVIOUS
<1>1. p * m >= 101 * m
  OBVIOUS
<1> QED
  BY <1>1

(* A product grows with its factor, and the order of factors is free.      *)
LEMMA Monotone ==
  ASSUME NEW a \in Nat, NEW b \in Nat, NEW m \in Nat, a <= b
  PROVE  a * m <= b * m
OBVIOUS

(* Level scales the percentage to the path's scale.                        *)
LEMMA LevelFollows ==
  ASSUME NEW aux \in BOOLEAN, NEW p \in Nat, NEW v \in Nat, NEW m \in Nat, Worked(p, v, m)
  PROVE  Follows(Level(aux, p), Scale(IF aux THEN "AUX" ELSE "PWM"), v, m)
<1> DEFINE s == Scale(IF aux THEN "AUX" ELSE "PWM")
           x == Mul32(s, p)
           l == Level(aux, p)
<1>1. s \in Nat /\ s * 100 < Modulus /\ Modulus \in Nat
  BY BacklightAssumption, Zenon DEF Scale
<1>2. l = x \div 100
  BY Zenon DEF Level, Scale
<1> HIDE DEF s, l
<1>3. x \in Nat /\ x <= s * p /\ (s * p < Modulus => x = s * p)
  BY <1>1, Wraps
<1> HIDE DEF x
<1>4. l \in Nat /\ l * 100 <= x /\ x < l * 100 + 100
  BY <1>2, <1>3
<1>5. m > 0 /\ p * m <= v * 100 /\ (v * 100 < Modulus => v * 100 < p * m + m)
  BY DEF Worked
<1>6. l * m <= s * v
  <2> DEFINE shown == l * m
             worked == (s * p) * m
             asked == s * v
  <2>1. l * 100 \in Nat /\ s * p \in Nat /\ l * 100 <= s * p
    BY <1>1, <1>3, <1>4
  <2>2. (l * 100) * m <= worked
    BY <2>1, Monotone
  <2>3. (l * 100) * m = 100 * shown
    BY <1>4
  <2>4. s * (p * m) <= s * (v * 100)
    BY <1>1, <1>5
  <2>5. worked = s * (p * m) /\ s * (v * 100) = 100 * asked
    BY <1>1
  <2>6. shown \in Nat /\ worked \in Nat /\ asked \in Nat
    BY <1>1, <1>4
  <2>7. 100 * shown <= worked
    BY <2>2, <2>3, Zenon
  <2>8. worked <= 100 * asked
    BY <2>4, <2>5, Zenon
  <2> HIDE DEF shown, worked, asked
  <2>9. shown <= asked
    BY <2>6, <2>7, <2>8
  <2> QED
    BY <2>9, Zenon DEF shown, asked
<1>7. ASSUME v <= m, v * 100 < Modulus PROVE 100 * s * v <= (100 * l + s + 99) * m
  <2>1. p <= 100
    BY <1>5, <1>7, AtMostWhole
  <2>2. s * p <= s * 100
    BY <1>1, <2>1
  <2>3. x = s * p
    BY <1>1, <1>3, <2>2
  <2>4. s * p <= l * 100 + 99
    BY <1>1, <1>4, <2>3
  <2>5. (s * p) * m + s * m <= (l * 100 + 99) * m + s * m
    BY <1>1, <1>4, <2>4
  <2>6. s * (v * 100) <= s * (p * m + m)
    BY <1>1, <1>5, <1>7
  <2>7. /\ s * (p * m + m) = (s * p) * m + s * m
        /\ s * (v * 100) = 100 * s * v
        /\ (l * 100 + 99) * m + s * m = (100 * l + s + 99) * m
    BY <1>1, <1>4
  <2> QED
    BY <1>1, <1>4, <2>5, <2>6, <2>7
<1> QED
  BY <1>5, <1>6, <1>7, Zenon DEF Follows, s, l

(* The module starts at full scale, with no link and no call.              *)
LEMMA InitIInv == Init => IInv /\ LevelFollowsValue /\ PathFitsLink
<1> SUFFICES ASSUME Init PROVE IInv /\ LevelFollowsValue /\ PathFitsLink
  OBVIOUS
<1>1. FieldsInv
  BY BacklightAssumption DEF Init, FieldsInv
<1>2. Idle \in Calls
  BY DEF Idle, Calls
<1>3. CallsInv
  BY <1>2, Zenon DEF Init, CallsInv, Idle
<1>4. LinkInv
  BY Zenon DEF Init, LinkInv, Idle
<1>5. LevelFollowsValue
  <2>1. panel.level = 0 /\ basis.value = 0 /\ basis.max = FullScale /\ Scale(panel.path) \in Nat
    BY BacklightAssumption DEF Init, Scale
  <2> QED
    BY <2>1, BacklightAssumption DEF LevelFollowsValue
<1>6. PathFitsLink
  BY Zenon DEF Init, PathFitsLink
<1> QED
  BY <1>1, <1>3, <1>4, <1>5, <1>6, Zenon DEF IInv

(* A display that attaches leaves the brightness alone, as does stuttering.*)
LEMMA AloneStep ==
  ASSUME IInv, UNCHANGED brightness PROVE IInv'
<1>1. UNCHANGED <<CurrentPwmBacklightLevel, MaxPwmBacklightLevel>>
  BY Zenon DEF brightness, fields
<1>2. UNCHANGED <<EmbeddedPanelLink, SupportsAUX, creating, call>>
  BY Zenon DEF brightness, fields
<1> QED
  BY <1>1, <1>2, Zenon DEF IInv, FieldsInv, CallsInv, LinkInv

(* The notification stores no maximum of 0.                                *)
LEMMA DisplayLoadStep == ASSUME IInv, OnAppleBacklightDisplayLoad PROVE IInv'
<1>1. FieldsInv'
  BY BacklightAssumption, Zenon DEF IInv, FieldsInv, OnAppleBacklightDisplayLoad
<1>2. UNCHANGED <<EmbeddedPanelLink, SupportsAUX, creating, call>>
  BY Zenon DEF OnAppleBacklightDisplayLoad, linkVars
<1> QED
  BY <1>1, <1>2, Zenon DEF IInv, CallsInv, LinkInv

(* Marking a call changes the mark.                                        *)
LEMMA RacedSet ==
  ASSUME NEW c \in Calls, NEW b \in BOOLEAN, NEW d, d = [c EXCEPT !.raced = b]
  PROVE  d \in Calls /\ d.raced = b /\ d.pc = c.pc /\ d.percentage = c.percentage /\ d.from = c.from
BY DEF Calls

(* WrapLinkCreate marks the calls under way before its second store.       *)
LEMMA StoreLinkStep == ASSUME IInv, NEW l \in Links, StoreLink(l) PROVE IInv'
<1>1. FieldsInv'
  BY Zenon DEF IInv, FieldsInv, StoreLink
<1>2. ASSUME NEW t \in Setters
      PROVE  /\ call'[t] \in Calls /\ call'[t].pc = call[t].pc
             /\ call'[t].raced = (call[t].pc # "idle")
             /\ call'[t].percentage = call[t].percentage /\ call'[t].from = call[t].from
  <2>1. call[t] \in Calls /\ call'[t] = [call[t] EXCEPT !.raced = (call[t].pc # "idle")]
    BY Zenon DEF IInv, CallsInv, StoreLink
  <2>2. (call[t].pc # "idle") \in BOOLEAN
    BY Zenon
  <2> QED
    BY <2>1, <2>2, RacedSet, Zenon
<1>3. CallsInv'
  <2>1. call' \in [Setters -> Calls]
    BY <1>2, Zenon DEF StoreLink
  <2>2. UNCHANGED SupportsAUX /\ creating' \in Links \cup {NoLink}
    BY Zenon DEF StoreLink
  <2> QED
    BY <1>2, <2>1, <2>2, Zenon DEF IInv, CallsInv
<1>4. \A t \in Setters : call'[t].pc # "idle" => call'[t].raced
  <2>1. ASSUME NEW t \in Setters, call'[t].pc # "idle" PROVE call'[t].raced
    <3>1. call[t].pc # "idle"
      BY <1>2, <2>1, Zenon
    <3>2. call'[t].raced = (call[t].pc # "idle")
      BY <1>2, Zenon
    <3> QED
      BY <3>1, <3>2, Zenon
  <2> QED
    BY <2>1, Zenon
<1>5. LinkInv'
  <2>1. CASE l.type \in {"LVDS", "EDP"}
    BY <1>4, <2>1, BacklightAssumption, Zenon DEF LinkInv, StoreLink
  <2>2. CASE l.type \notin {"LVDS", "EDP"}
    <3>1. creating = NoLink /\ UNCHANGED <<EmbeddedPanelLink, SupportsAUX, creating>>
      BY <2>2, Zenon DEF StoreLink
    <3> QED
      BY <1>4, <3>1, Zenon DEF IInv, LinkInv
  <2> QED
    BY <2>1, <2>2, Zenon
<1> QED
  BY <1>1, <1>3, <1>5, Zenon DEF IInv

(* The second store gives the link its own capability.                     *)
LEMMA StoreAUXStep == ASSUME IInv, StoreAUX PROVE IInv'
<1>1. /\ creating \in Links /\ creating # NoLink /\ creating' = NoLink
      /\ SupportsAUX' = creating.oled /\ SupportsAUX' \in BOOLEAN
      /\ UNCHANGED <<CurrentPwmBacklightLevel, MaxPwmBacklightLevel, EmbeddedPanelLink, call>>
  BY BacklightAssumption, Zenon DEF IInv, CallsInv, StoreAUX
<1>2. FieldsInv' /\ CallsInv'
  BY <1>1, Zenon DEF IInv, FieldsInv, CallsInv
<1>3. LinkInv'
  BY <1>1, Zenon DEF IInv, LinkInv
<1> QED
  BY <1>2, <1>3, Zenon DEF IInv

(* The call of t moves on; the others, the fields and the links stay.      *)
LEMMA BecomesStep ==
  ASSUME IInv, NEW t \in Setters, NEW r \in Calls, Becomes(t, r),
         UNCHANGED <<fields, creating>>,
         creating # NoLink /\ r.pc # "idle" => r.raced,
         r.pc = "send" /\ ~r.raced /\ EmbeddedPanelLink # NoLink => r.aux = EmbeddedPanelLink.oled,
         r.pc \in {"path", "send"} => Worked(r.percentage, r.from.value, r.from.max)
  PROVE  IInv'
<1>1. /\ UNCHANGED <<CurrentPwmBacklightLevel, MaxPwmBacklightLevel>>
      /\ UNCHANGED <<EmbeddedPanelLink, SupportsAUX, creating>>
  BY Zenon DEF fields
<1>2. FieldsInv'
  BY <1>1, Zenon DEF IInv, FieldsInv
<1>3. call' \in [Setters -> Calls] /\ \A u \in Setters : call'[u] = IF u = t THEN r ELSE call[u]
  BY Zenon DEF IInv, CallsInv, Becomes
<1>4. CallsInv'
  BY <1>1, <1>3, Zenon DEF IInv, CallsInv
<1>5. LinkInv'
  BY <1>1, <1>3 DEF IInv, LinkInv
<1> QED
  BY <1>2, <1>4, <1>5, Zenon DEF IInv

(* A new call notes whether a link is being created.                       *)
LEMMA StoreCurrentStep == ASSUME IInv, NEW t \in Setters, StoreCurrent(t) PROVE IInv'
<1>1. UNCHANGED <<MaxPwmBacklightLevel, EmbeddedPanelLink, SupportsAUX, creating>>
  BY Zenon DEF StoreCurrent, linkVars
<1>2. FieldsInv'
  <2>1. PICK v \in Values : CurrentPwmBacklightLevel' = v % Modulus
    BY Zenon DEF StoreCurrent
  <2>2. v % Modulus \in Nat
    BY BacklightAssumption
  <2> QED
    BY <1>1, <2>1, <2>2, Zenon DEF IInv, FieldsInv
<1>3. ASSUME NEW u \in Setters, u # t
      PROVE  /\ call'[u] \in Calls /\ call'[u].pc = call[u].pc /\ call'[u].raced = call[u].raced
             /\ call'[u].aux = call[u].aux
             /\ call'[u].percentage = call[u].percentage /\ call'[u].from = call[u].from
  <2>1. call'[u] = [call[u] EXCEPT !.alone = FALSE] /\ call[u] \in Calls
    BY <1>3, Zenon DEF StoreCurrent, IInv, CallsInv
  <2> QED
    BY <2>1 DEF Calls
<1>4. /\ call'[t] \in Calls /\ call'[t].pc = "check"
      /\ call'[t].raced = (creating # NoLink)
  <2> DEFINE b == creating # NoLink
             a == \A o \in Setters \ {t} : call[o].pc = "idle"
  <2>1. call'[t] = [Idle EXCEPT !.pc = "check", !.raced = b, !.alone = a]
    BY Zenon DEF StoreCurrent
  <2>2. a \in BOOLEAN /\ b \in BOOLEAN
    BY Zenon
  <2> HIDE DEF a, b
  <2>3. call'[t] = [pc |-> "check", percentage |-> 0, from |-> [value |-> 0, max |-> 0],
                    aux |-> FALSE, raced |-> b, alone |-> a, ret |-> "none"]
    BY <2>1 DEF Idle
  <2>4. call'[t] \in Calls /\ call'[t].pc = "check" /\ call'[t].raced = b
    BY <2>2, <2>3 DEF Calls
  <2> QED
    BY <2>4, Zenon DEF b
<1>5. CallsInv'
  <2>1. call' \in [Setters -> Calls]
    BY <1>3, <1>4, Zenon DEF StoreCurrent
  <2>2. ASSUME NEW u \in Setters, call'[u].pc \in {"path", "send"}
        PROVE  Worked(call'[u].percentage, call'[u].from.value, call'[u].from.max)
    BY <1>3, <1>4, <2>2, Zenon DEF IInv, CallsInv
  <2> QED
    BY <1>1, <2>1, <2>2, Zenon DEF IInv, CallsInv
<1>6. LinkInv'
  <2>1. ASSUME NEW u \in Setters, creating # NoLink, call'[u].pc # "idle" PROVE call'[u].raced
    <3>1. CASE u = t
      BY <1>4, <2>1, <3>1, Zenon
    <3>2. CASE u # t
      BY <1>3, <2>1, <3>2, Zenon DEF IInv, LinkInv
    <3> QED
      BY <3>1, <3>2, Zenon
  <2>2. ASSUME NEW u \in Setters, call'[u].pc = "send", ~call'[u].raced, EmbeddedPanelLink # NoLink
        PROVE  call'[u].aux = EmbeddedPanelLink.oled
    <3>1. u # t
      BY <1>4, <2>2, Zenon
    <3> QED
      BY <1>3, <2>2, <3>1, Zenon DEF IInv, LinkInv
  <2> QED
    BY <1>1, <2>1, <2>2, Zenon DEF IInv, LinkInv
<1> QED
  BY <1>2, <1>5, <1>6 DEF IInv

(* The check, the percentage and the choice of the path.                   *)
LEMMA WorkStep ==
  ASSUME IInv, NEW t \in Setters, CheckMax(t) \/ Percentage(t) \/ ChoosePath(t) PROVE IInv'
<1>1. call[t] \in Calls /\ SupportsAUX \in BOOLEAN
  BY Zenon DEF IInv, CallsInv
<1>2. creating # NoLink /\ call[t].pc # "idle" => call[t].raced
  BY Zenon DEF IInv, LinkInv
<1>3. UNCHANGED <<fields, creating>>
  BY Zenon DEF CheckMax, Percentage, ChoosePath
<1>4. CASE CheckMax(t)
  <2> DEFINE r == [call[t] EXCEPT !.pc = "percent"]
  <2>1. Becomes(t, r)
    BY <1>4, Zenon DEF IInv, FieldsInv, CheckMax
  <2>2. r \in Calls /\ r.pc = "percent" /\ r.raced = call[t].raced
    BY <1>1 DEF Calls
  <2> HIDE DEF r
  <2> QED
    BY <1>2, <1>3, <1>4, <2>1, <2>2, BecomesStep, Zenon DEF CheckMax
<1>5. CASE Percentage(t)
  <2> DEFINE p == Mul32(CurrentPwmBacklightLevel, 100) \div MaxPwmBacklightLevel
             f == [value |-> CurrentPwmBacklightLevel, max |-> MaxPwmBacklightLevel]
             r == [call[t] EXCEPT !.pc = "path", !.percentage = p, !.from = f]
  <2>1. /\ p \in Nat /\ f \in [value : Nat, max : Nat] /\ MaxPwmBacklightLevel # 0
        /\ Worked(p, f.value, f.max)
    BY PercentageWorked, Zenon DEF IInv, FieldsInv
  <2>2. Becomes(t, r)
    BY <1>5, <2>1, Zenon DEF Percentage
  <2> HIDE DEF p, f
  <2>3. r \in Calls /\ r.pc = "path" /\ r.raced = call[t].raced /\ r.percentage = p /\ r.from = f
    BY <1>1, <2>1 DEF Calls
  <2> HIDE DEF r
  <2> QED
    BY <1>2, <1>3, <1>5, <2>1, <2>2, <2>3, BecomesStep DEF Percentage
<1>6. CASE ChoosePath(t)
  <2> DEFINE r == [call[t] EXCEPT !.pc = "send", !.aux = SupportsAUX]
  <2>1. Becomes(t, r)
    BY <1>6, Zenon DEF ChoosePath
  <2>2. /\ r \in Calls /\ r.pc = "send" /\ r.raced = call[t].raced /\ r.aux = SupportsAUX
        /\ r.percentage = call[t].percentage /\ r.from = call[t].from
    BY <1>1 DEF Calls
  <2>5. Worked(call[t].percentage, call[t].from.value, call[t].from.max)
    BY <1>6, Zenon DEF IInv, CallsInv, ChoosePath
  <2>3. call[t].pc = "path" /\ creating # NoLink => call[t].raced
    BY <1>2, Zenon
  <2>4. ~r.raced /\ EmbeddedPanelLink # NoLink => r.aux = EmbeddedPanelLink.oled
    BY <1>6, <2>2, <2>3, Zenon DEF IInv, LinkInv, ChoosePath
  <2> HIDE DEF r
  <2> QED
    BY <1>3, <1>6, <2>1, <2>2, <2>3, <2>4, <2>5, BecomesStep, Zenon DEF ChoosePath
<1> QED
  BY <1>4, <1>5, <1>6, Zenon

(* A level that is sent follows its value, by the path of its link.        *)
LEMMA SendStep ==
  ASSUME IInv, LevelFollowsValue, PathFitsLink, NEW t \in Setters, Send(t)
  PROVE  IInv' /\ LevelFollowsValue' /\ PathFitsLink'
<1>1. PICK accepted \in BOOLEAN :
        Accepting(t, accepted, IF accepted /\ ~call[t].aux THEN "Success" ELSE "DeviceError")
  BY Zenon DEF Send
<1> DEFINE result == IF accepted /\ ~call[t].aux THEN "Success" ELSE "DeviceError"
           r == [call[t] EXCEPT !.pc = "idle", !.ret = result]
<1>2. call[t] \in Calls /\ call[t].pc = "send" /\ UNCHANGED <<fields, creating>> /\ Becomes(t, r)
  BY <1>1, Zenon DEF IInv, CallsInv, Accepting
<1>3. result \in {"Success", "DeviceError"}
  OBVIOUS
<1> HIDE DEF result
<1>4. r \in Calls /\ r.pc = "idle"
  BY <1>2, <1>3 DEF Calls
<1> HIDE DEF r
<1>5. IInv'
  BY <1>2, <1>4, BecomesStep, Zenon
<1>6. CASE ~accepted
  <2>1. UNCHANGED <<panel, basis>>
    BY <1>1, <1>6, Zenon DEF Accepting
  <2> QED
    BY <1>5, <2>1, Zenon DEF LevelFollowsValue, Scale, PathFitsLink
<1>7. CASE accepted
  <2> DEFINE level == Level(call[t].aux, call[t].percentage)
  <2>1. /\ panel' = [link |-> EmbeddedPanelLink, path |-> IF call[t].aux THEN "AUX" ELSE "PWM",
                     level |-> level, raced |-> call[t].raced]
        /\ basis' = call[t].from
    BY <1>1, <1>7, Zenon DEF Accepting
  <2>2. /\ call[t].aux \in BOOLEAN /\ call[t].percentage \in Nat
        /\ call[t].from.value \in Nat /\ call[t].from.max \in Nat
    BY <1>2 DEF Calls
  <2>7. Worked(call[t].percentage, call[t].from.value, call[t].from.max)
    BY <1>2, Zenon DEF IInv, CallsInv
  <2>3. Follows(level, Scale(IF call[t].aux THEN "AUX" ELSE "PWM"), call[t].from.value, call[t].from.max)
    BY <2>2, <2>7, LevelFollows, Zenon
  <2>4. ~call[t].raced /\ EmbeddedPanelLink # NoLink => call[t].aux = EmbeddedPanelLink.oled
    BY <1>2, Zenon DEF IInv, LinkInv
  <2> HIDE DEF level
  <2>5. LevelFollowsValue'
    BY <2>1, <2>2, <2>3, Zenon DEF LevelFollowsValue, Follows, Scale
  <2>6. PathFitsLink'
    BY <2>1, <2>2, <2>4, Zenon DEF PathFitsLink
  <2> QED
    BY <1>5, <2>5, <2>6, Zenon
<1> QED
  BY <1>6, <1>7, Zenon

(* All steps keep the invariant, and only Send tells the panel anything.   *)
LEMMA NextIInv ==
  IInv /\ LevelFollowsValue /\ PathFitsLink /\ [Next]_vars => IInv' /\ LevelFollowsValue' /\ PathFitsLink'
<1> SUFFICES ASSUME IInv, LevelFollowsValue, PathFitsLink, [Next]_vars
             PROVE  IInv' /\ LevelFollowsValue' /\ PathFitsLink'
  OBVIOUS
<1>1. CASE \E t \in Setters : Send(t)
  BY <1>1, SendStep, Zenon
<1>2. CASE ~(\E t \in Setters : Send(t))
  <2>1. UNCHANGED <<panel, basis>>
    BY <1>2
       DEF Next, OnAppleBacklightDisplayLoad, StoreLink, StoreAUX, AttachDisplay, StoreCurrent,
           CheckMax, Percentage, ChoosePath, brightness, vars
  <2>2. IInv'
    BY <1>2, DisplayLoadStep, StoreLinkStep, StoreAUXStep, AloneStep, StoreCurrentStep, WorkStep,
       Zenon
       DEF Next, AttachDisplay, vars
  <2> QED
    BY <2>1, <2>2, Zenon DEF LevelFollowsValue, Scale, PathFitsLink
<1> QED
  BY <1>1, <1>2, Zenon

(* Whatever value is asked for and whatever maximum a display names: the   *)
(* level that wrapSetAttributeForConnection sends is never a greater share *)
(* of its scale than the value is of the maximum, and close to it for a    *)
(* value of at most the maximum whose product fits UInt32, however setters,*)
(* notifications and link creation interleave.                             *)
THEOREM LevelsFollowValues == Spec => []LevelFollowsValue
BY InitIInv, NextIInv, PTL DEF Spec

(* It drives a link by the path the link supports, unless WrapLinkCreate   *)
(* ran while the call was under way.                                       *)
THEOREM PathsFitLinks == Spec => []PathFitsLink
BY InitIInv, NextIInv, PTL DEF Spec
-------------------------------------------------------------------------------
(* The property of a service that has one is Apple's panels with some of   *)
(* the module's over them, and all of these once it counts as whole.       *)
Whole == Overlay(Apples, ModulesNames)
Mixed(f) == \E some \in SUBSET ModulesNames : f = Overlay(Apples, some)

PropertyInv ==
  /\ ApplePanels = [s \in Services |-> ApplePanels[s]]
  /\ \A s \in Listing : Mixed(ApplePanels[s])
  /\ \A s \in Services \ Listing : ApplePanels[s] = Missing
  /\ \A s \in whole : ApplePanels[s] = Whole

(* A call works on a copy of such a property; what it is entitled to is    *)
(* there until the original has seen it.                                   *)
CallShaped(c) ==
  c = [pc |-> c.pc, service |-> c.service, panels |-> c.panels, added |-> c.added,
       entitled |-> c.entitled, seen |-> c.seen]
CallFits(c) ==
  /\ CallShaped(c)
  /\ c.entitled \in BOOLEAN
  /\ c.pc # "idle" => c.service \in Services
  /\ c.pc = "merge" => c.service \in Listing /\ Mixed(c.panels)
  /\ c.pc = "property" => /\ c.service \in Listing /\ Mixed(c.panels)
                          /\ c.added = ModulesNames => c.panels = Whole
  /\ c.entitled /\ c.pc \notin {"idle", "done"} => ApplePanels[c.service] = Whole
  /\ c.pc = "done" => /\ c.service \in Listing => Mixed(c.seen)
                      /\ c.entitled => c.seen = Whole

AttachInv ==
  /\ attach = [d \in Displays |-> attach[d]]
  /\ \A d \in Displays : CallFits(attach[d])

PanelsInv == PropertyInv /\ AttachInv

(* Adding panels to such a property gives another; adding all gives all.   *)
LEMMA OverlayTwice ==
  ASSUME NEW a \in SUBSET ModulesNames, NEW b \in SUBSET ModulesNames
  PROVE  Overlay(Overlay(Apples, a), b) = Overlay(Apples, a \cup b)
<1>1. DOMAIN Overlay(Apples, a) = ApplesNames \cup a
  BY Zenon DEF Overlay, Apples
<1>2. \A n \in ApplesNames \cup a \cup b :
        (IF n \in b THEN "module" ELSE Overlay(Apples, a)[n])
          = (IF n \in a \cup b THEN "module" ELSE Apples[n])
  BY Zenon DEF Overlay, Apples
<1>3. DOMAIN Apples = ApplesNames
  BY Zenon DEF Apples
<1> QED
  BY <1>1, <1>2, <1>3, Zenon DEF Overlay

(* A copy stays such a property when panels are added.                     *)
LEMMA MergeMixed ==
  ASSUME NEW f, Mixed(f), NEW added \in SUBSET ModulesNames
  PROVE  /\ Mixed(Overlay(f, added))
         /\ added = ModulesNames => Overlay(f, added) = Whole
<1>1. PICK some \in SUBSET ModulesNames : f = Overlay(Apples, some)
  BY Zenon DEF Mixed
<1>2. Overlay(f, added) = Overlay(Apples, some \cup added)
  BY <1>1, OverlayTwice, Zenon
<1>3. some \cup added \in SUBSET ModulesNames
  BY <1>1, Zenon
<1>4. added = ModulesNames => some \cup added = ModulesNames
  BY <1>1, Zenon
<1> QED
  BY <1>2, <1>3, <1>4, Zenon DEF Mixed, Whole

(* Such a property has all of Apple's panels.                              *)
LEMMA MixedHasApples == ASSUME NEW f, Mixed(f) PROVE ApplesNames \subseteq DOMAIN f
BY Zenon DEF Mixed, Overlay, Apples

(* All services are as they came, and no call has been made.               *)
LEMMA PanelsInit == Init => PanelsInv
<1> SUFFICES ASSUME Init PROVE PanelsInv
  OBVIOUS
<1>1. /\ ApplePanels = [s \in Services |-> IF s \in Listing THEN Apples ELSE Missing]
      /\ attach = [d \in Displays |-> NotYet] /\ whole = {}
  BY Zenon DEF Init, ApplePanelsInit
<1>2. Apples = Overlay(Apples, {})
  BY Zenon DEF Apples, Overlay
<1>3. Mixed(Apples)
  BY <1>2, Zenon DEF Mixed
<1>4. PropertyInv
  BY <1>1, <1>3, ApplePanelsAssumption, Zenon DEF PropertyInv
<1>5. CallFits(NotYet)
  BY Zenon DEF CallFits, CallShaped, NotYet
<1>6. AttachInv
  BY <1>1, <1>5, Zenon DEF AttachInv
<1> QED
  BY <1>4, <1>6, Zenon DEF PanelsInv

(* The call of d moves on; the properties stay.                            *)
LEMMA AttachMoves ==
  ASSUME PanelsInv, NEW d \in Displays, NEW c, attach' = [attach EXCEPT ![d] = c],
         UNCHANGED <<ApplePanels, whole>>, CallFits(c)
  PROVE  PanelsInv'
<1>1. PropertyInv'
  BY Zenon DEF PanelsInv, PropertyInv, Mixed
<1>2. \A e \in Displays : attach'[e] = IF e = d THEN c ELSE attach[e]
  BY Zenon DEF PanelsInv, AttachInv
<1>3. \A e \in Displays : CallFits(attach'[e])
  BY <1>2, Zenon DEF PanelsInv, AttachInv
<1>4. \A e \in Displays : CallFits(attach[e])'
  BY <1>3 DEF CallFits, CallShaped
<1>5. attach' = [e \in Displays |-> attach'[e]]
  BY Zenon DEF PanelsInv, AttachInv
<1> QED
  BY <1>1, <1>4, <1>5, Zenon DEF PanelsInv, AttachInv

(* The call begins, and a first one looks the property up and copies it.   *)
LEMMA BeginStep ==
  ASSUME PanelsInv, NEW d \in Displays, SetDisplay(d) \/ FirstTime(d) PROVE PanelsInv'
<1>1. CallFits(attach[d]) /\ attach = [e \in Displays |-> attach[e]]
  BY Zenon DEF PanelsInv, AttachInv
<1>2. UNCHANGED <<ApplePanels, whole>>
  BY Zenon DEF SetDisplay, FirstTime
<1>3. CASE SetDisplay(d)
  <2>1. PICK s \in Services : attach' = [attach EXCEPT ![d] =
          [NotYet EXCEPT !.pc = IF once THEN "original" ELSE "flag",
                         !.service = s, !.entitled = s \in whole]]
    BY <1>3, Zenon DEF SetDisplay
  <2> DEFINE b == s \in whole
             p == IF once THEN "original" ELSE "flag"
  <2>2. b \in BOOLEAN
    OBVIOUS
  <2>3. p \in {"original", "flag"}
    OBVIOUS
  <2>4. b => ApplePanels[s] = Whole
    BY Zenon DEF PanelsInv, PropertyInv
  <2>5. attach' = [attach EXCEPT ![d] = [NotYet EXCEPT !.pc = p, !.service = s, !.entitled = b]]
    BY <2>1, Zenon
  <2> HIDE DEF b, p
  <2>6. PICK c : c = [NotYet EXCEPT !.pc = p, !.service = s, !.entitled = b]
    OBVIOUS
  <2>7. CallShaped(c) /\ c.pc = p /\ c.service = s /\ c.entitled = b
    BY <2>2, <2>6, Zenon DEF NotYet, CallShaped
  <2>8. CallFits(c)
    BY <2>2, <2>3, <2>4, <2>7, Zenon DEF CallFits
  <2> QED
    BY <1>2, <2>5, <2>6, <2>8, AttachMoves, Zenon
<1>4. CASE FirstTime(d)
  <2> DEFINE s == attach[d].service
  <2>1. attach[d].pc = "flag" /\ s \in Services
    BY <1>1, <1>4, Zenon DEF FirstTime, CallFits
  <2>2. attach[d].entitled \in BOOLEAN /\ (attach[d].entitled => ApplePanels[s] = Whole)
    BY <1>1, <2>1, Zenon DEF CallFits
  <2>3. PICK merge : merge = [attach[d] EXCEPT !.pc = "merge", !.panels = ApplePanels[s]]
    OBVIOUS
  <2>4. PICK original : original = [attach[d] EXCEPT !.pc = "original"]
    OBVIOUS
  <2>5. \/ ApplePanels[s] # Missing /\ attach' = [attach EXCEPT ![d] = merge]
        \/ attach' = [attach EXCEPT ![d] = original]
    BY <1>1, <1>4, <2>3, <2>4, Zenon DEF FirstTime
  <2>6. /\ CallShaped(merge) /\ merge.pc = "merge" /\ merge.panels = ApplePanels[s]
        /\ merge.service = s /\ merge.entitled = attach[d].entitled
    BY <1>1, <2>3, Zenon DEF CallFits, CallShaped
  <2>7. /\ CallShaped(original) /\ original.pc = "original"
        /\ original.service = s /\ original.entitled = attach[d].entitled
    BY <1>1, <2>4, Zenon DEF CallFits, CallShaped
  <2>8. ApplePanels[s] # Missing => s \in Listing /\ Mixed(ApplePanels[s])
    BY <2>1, Zenon DEF PanelsInv, PropertyInv
  <2>9. CallFits(original)
    BY <2>1, <2>2, <2>7, Zenon DEF CallFits
  <2>10. ApplePanels[s] # Missing => CallFits(merge)
    BY <2>1, <2>2, <2>6, <2>8, Zenon DEF CallFits
  <2> QED
    BY <1>2, <2>5, <2>9, <2>10, AttachMoves, Zenon
<1> QED
  BY <1>3, <1>4, Zenon

(* Panels are added to the copy.                                           *)
LEMMA MergeStep == ASSUME PanelsInv, NEW d \in Displays, Merge(d) PROVE PanelsInv'
<1>1. CallFits(attach[d]) /\ attach = [e \in Displays |-> attach[e]] /\ attach[d].pc = "merge"
  BY Zenon DEF PanelsInv, AttachInv, Merge
<1>2. PICK added \in SUBSET ModulesNames :
        attach' = [attach EXCEPT ![d].pc = "property", ![d].added = added,
                                 ![d].panels = Overlay(attach[d].panels, added)]
  BY Zenon DEF Merge
<1> DEFINE panels == Overlay(attach[d].panels, added)
<1>3. Mixed(panels) /\ (added = ModulesNames => panels = Whole)
  BY <1>1, MergeMixed, Zenon DEF CallFits
<1> HIDE DEF panels
<1>4. PICK c : c = [attach[d] EXCEPT !.pc = "property", !.added = added, !.panels = panels]
  OBVIOUS
<1>5. attach' = [attach EXCEPT ![d] = c]
  BY <1>1, <1>2, <1>4, Zenon DEF panels
<1>6. /\ CallShaped(c) /\ c.pc = "property" /\ c.added = added /\ c.panels = panels
      /\ c.service = attach[d].service /\ c.entitled = attach[d].entitled
  BY <1>1, <1>4, Zenon DEF CallFits, CallShaped
<1>7. CallFits(c)
  BY <1>1, <1>3, <1>6, Zenon DEF CallFits
<1> QED
  BY <1>5, <1>7, AttachMoves, Zenon DEF Merge

(* The original looks at the property.                                     *)
LEMMA OriginalStep == ASSUME PanelsInv, NEW d \in Displays, Original(d) PROVE PanelsInv'
<1>1. CallFits(attach[d]) /\ attach = [e \in Displays |-> attach[e]] /\ attach[d].pc = "original"
  BY Zenon DEF PanelsInv, AttachInv, Original
<1> DEFINE s == attach[d].service
<1>0. PICK c : c = [attach[d] EXCEPT !.pc = "done", !.seen = ApplePanels[s]]
  OBVIOUS
<1>2. attach' = [attach EXCEPT ![d] = c]
  BY <1>0, <1>1, Zenon DEF Original
<1>3. s \in Services /\ (attach[d].entitled => ApplePanels[s] = Whole) /\ attach[d].entitled \in BOOLEAN
  BY <1>1, Zenon DEF CallFits
<1>4. s \in Listing => Mixed(ApplePanels[s])
  BY Zenon DEF PanelsInv, PropertyInv
<1>5. /\ CallShaped(c) /\ c.pc = "done" /\ c.seen = ApplePanels[s]
      /\ c.service = s /\ c.entitled = attach[d].entitled
  BY <1>0, <1>1, Zenon DEF CallFits, CallShaped
<1>6. CallFits(c)
  BY <1>3, <1>4, <1>5, Zenon DEF CallFits
<1> QED
  BY <1>2, <1>6, AttachMoves, Zenon DEF Original

(* The copy becomes the property: who was entitled to the panels is so no  *)
(* longer if they are not all in it.                                       *)
LEMMA SetPropertyStep == ASSUME PanelsInv, NEW d \in Displays, SetProperty(d) PROVE PanelsInv'
<1> DEFINE s == attach[d].service
           complete == attach[d].added = ModulesNames
<1>1. /\ CallFits(attach[d]) /\ attach[d].pc = "property"
      /\ ApplePanels' = [ApplePanels EXCEPT ![s] = attach[d].panels]
      /\ whole' = IF complete THEN whole \cup {s} ELSE whole \ {s}
  BY Zenon DEF PanelsInv, AttachInv, SetProperty
<1>2. s \in Listing /\ s \in Services /\ Mixed(attach[d].panels)
  BY <1>1, Zenon DEF CallFits
<1>3. complete => attach[d].panels = Whole
  BY <1>1, Zenon DEF CallFits
<1>4. \A r \in Services : ApplePanels'[r] = IF r = s THEN attach[d].panels ELSE ApplePanels[r]
  BY <1>1, Zenon DEF PanelsInv, PropertyInv
<1>5. PropertyInv'
  <2>1. ApplePanels' = [r \in Services |-> ApplePanels'[r]]
    BY <1>1, Zenon DEF PanelsInv, PropertyInv
  <2>2. \A r \in Listing : Mixed(ApplePanels'[r])
    BY <1>2, <1>4, ApplePanelsAssumption, Zenon DEF PanelsInv, PropertyInv
  <2>3. \A r \in Services \ Listing : ApplePanels'[r] = Missing
    BY <1>2, <1>4, Zenon DEF PanelsInv, PropertyInv
  <2>4. \A r \in whole' : ApplePanels'[r] = Whole
    <3>1. ASSUME NEW r \in whole', r # s PROVE ApplePanels'[r] = Whole
      <4>1. r \in whole /\ ApplePanels[r] = Whole
        BY <1>1, <3>1, Zenon DEF PanelsInv, PropertyInv
      <4> QED
        BY <1>1, <3>1, <4>1 DEF PanelsInv, PropertyInv
    <3>2. ASSUME s \in whole' PROVE ApplePanels'[s] = Whole
      BY <1>1, <1>2, <1>3, <1>4, <3>2, Zenon
    <3> QED
      BY <3>1, <3>2, Zenon
  <2> QED
    BY <2>1, <2>2, <2>3, <2>4, Zenon DEF PropertyInv, Mixed, Whole
<1>6. /\ attach'[d] = [attach[d] EXCEPT !.pc = "original", !.entitled = complete]
      /\ \A e \in Displays \ {d} : attach'[e] =
           [attach[e] EXCEPT !.entitled = attach[e].entitled /\ (complete \/ attach[e].service # s)]
      /\ attach' = [e \in Displays |-> attach'[e]]
  BY Zenon DEF SetProperty
<1>7. complete \in BOOLEAN
  OBVIOUS
<1>8. CallFits(attach[d])'
  <2>0. complete => ApplePanels'[s] = Whole
    BY <1>2, <1>3, <1>4, Zenon
  <2> HIDE DEF complete
  <2>1. /\ CallShaped(attach'[d]) /\ attach'[d].pc = "original"
        /\ attach'[d].entitled = complete /\ attach'[d].service = s
    BY <1>1, <1>6, <1>7, Zenon DEF CallFits, CallShaped
  <2> QED
    BY <1>2, <1>7, <2>0, <2>1, Zenon DEF CallFits, CallShaped, Whole
<1>9. ASSUME NEW e \in Displays \ {d} PROVE CallFits(attach[e])'
  <2> DEFINE b == attach[e].entitled /\ (complete \/ attach[e].service # s)
  <2>1. CallFits(attach[e])
    BY Zenon DEF PanelsInv, AttachInv
  <2>2. b \in BOOLEAN /\ (b => attach[e].entitled)
    BY Zenon
  <2>3. attach'[e] = [attach[e] EXCEPT !.entitled = b]
    BY <1>6, Zenon
  <2>4. b /\ attach[e].service \in Services /\ ApplePanels[attach[e].service] = Whole
          => ApplePanels'[attach[e].service] = Whole
    BY <1>3, <1>4, Zenon
  <2> HIDE DEF b
  <2>5. /\ CallShaped(attach'[e]) /\ attach'[e].pc = attach[e].pc /\ attach'[e].entitled = b
        /\ attach'[e].service = attach[e].service /\ attach'[e].panels = attach[e].panels
        /\ attach'[e].added = attach[e].added /\ attach'[e].seen = attach[e].seen
    BY <2>1, <2>2, <2>3 DEF CallFits, CallShaped
  <2> QED
    BY <2>1, <2>2, <2>4, <2>5 DEF CallFits, CallShaped, Mixed, Whole
<1> QED
  BY <1>5, <1>6, <1>8, <1>9, Zenon DEF PanelsInv, AttachInv

(* Every step keeps the properties and the calls in order.                 *)
LEMMA PanelsNext == PanelsInv /\ [Next]_vars => PanelsInv'
<1> SUFFICES ASSUME PanelsInv, [Next]_vars PROVE PanelsInv'
  OBVIOUS
<1>1. ASSUME NEW d \in Displays, AttachDisplay(d) PROVE PanelsInv'
  BY <1>1, BeginStep, MergeStep, SetPropertyStep, OriginalStep, Zenon DEF AttachDisplay, Attach
<1>2. CASE ~(\E d \in Displays : AttachDisplay(d))
  <2>1. UNCHANGED panelVars
    BY <1>2
       DEF Next, OnAppleBacklightDisplayLoad, StoreLink, StoreAUX, StoreCurrent, CheckMax,
           Percentage, ChoosePath, Send, Accepting, vars
  <2>2. UNCHANGED <<ApplePanels, attach, whole>>
    BY <2>1, Zenon DEF panelVars
  <2> QED
    BY <2>2 DEF PanelsInv, PropertyInv, AttachInv, CallFits, Mixed, Whole
<1> QED
  BY <1>1, <1>2, Zenon

(* However many displays attach at once to however many services, and     *)
(* whichever allocations fail, ApplePanel::setDisplay never loses a panel  *)
(* of Apple's, and a display that is due the module's panels gets them.    *)
THEOREM PanelsAreSeen == Spec => []PanelsSeen
<1>1. PanelsInv => PanelsSeen
  <2> SUFFICES ASSUME PanelsInv, NEW d \in Displays, attach[d].pc = "done"
               PROVE  /\ attach[d].service \in Listing => ApplesNames \subseteq DOMAIN attach[d].seen
                      /\ attach[d].entitled => attach[d].seen = Overlay(Apples, ModulesNames)
    BY Zenon DEF PanelsSeen
  <2>1. CallFits(attach[d])
    BY Zenon DEF PanelsInv, AttachInv
  <2> QED
    BY <2>1, MixedHasApples, Zenon DEF CallFits, Whole
<1> QED
  BY <1>1, PanelsInit, PanelsNext, PTL DEF Spec
-------------------------------------------------------------------------------
(* A change that is still alone has no other one under way beside it: it   *)
(* works with the value as it is now, and so did the panel once it is over.*)
PercentOf(from) == Mul32(from.value, 100) \div from.max
Shown == /\ basis.value = CurrentPwmBacklightLevel
         /\ panel.level = Level(FALSE, PercentOf(basis))
AloneInv ==
  \A t \in Setters : call[t].alone =>
    /\ \A o \in Setters \ {t} : call[o].pc = "idle"
    /\ call[t].pc \in {"path", "send"} =>
         /\ call[t].from.value = CurrentPwmBacklightLevel
         /\ call[t].percentage = PercentOf(call[t].from)
    /\ call[t].pc = "idle" /\ call[t].ret = "Success" => Shown

(* A new change takes the mark of being alone from all others.             *)
LEMMA AloneStore == ASSUME IInv, AloneInv, NEW t \in Setters, StoreCurrent(t) PROVE AloneInv'
<1> DEFINE a == \A o \in Setters \ {t} : call[o].pc = "idle"
<1>1. ASSUME NEW u \in Setters \ {t} PROVE call'[u].alone = FALSE /\ call'[u].pc = call[u].pc
  <2>1. call'[u] = [call[u] EXCEPT !.alone = FALSE] /\ call[u] \in Calls
    BY Zenon DEF StoreCurrent, IInv, CallsInv
  <2> QED
    BY <2>1, Zenon DEF Calls
<1>2. call'[t] = [Idle EXCEPT !.pc = "check", !.raced = (creating # NoLink), !.alone = a]
  BY Zenon DEF StoreCurrent
<1>3. a \in BOOLEAN
  BY Zenon
<1> HIDE DEF a
<1>4. call'[t].pc = "check" /\ call'[t].alone = a
  BY <1>2, <1>3, Zenon DEF Idle
<1>5. call'[t].alone => \A o \in Setters \ {t} : call'[o].pc = "idle"
  BY <1>1, <1>4, Zenon DEF a
<1> QED
  BY <1>1, <1>4, <1>5, Zenon DEF AloneInv

(* The change of t moves on: if another one is alone, t is not under way.  *)
LEMMA AloneMoves ==
  ASSUME AloneInv, IInv, NEW t \in Setters, NEW c \in Calls, Becomes(t, c), call[t].pc # "idle",
         c.alone = call[t].alone, UNCHANGED CurrentPwmBacklightLevel,
         call[t].alone /\ c.pc \in {"path", "send"} =>
           c.from.value = CurrentPwmBacklightLevel /\ c.percentage = PercentOf(c.from),
         call[t].alone /\ c.pc = "idle" /\ c.ret = "Success" => Shown'
  PROVE  AloneInv'
<1>1. \A u \in Setters : call'[u] = IF u = t THEN c ELSE call[u]
  BY Zenon DEF IInv, CallsInv, Becomes
<1>2. \A u \in Setters \ {t} : ~call[u].alone
  BY Zenon DEF AloneInv
<1>3. call[t].alone => \A o \in Setters \ {t} : call[o].pc = "idle"
  BY Zenon DEF AloneInv
<1>4. \A u \in Setters \ {t} : ~call'[u].alone /\ call'[u].pc = call[u].pc
  BY <1>1, <1>2, Zenon
<1>5. call'[t] = c
  BY <1>1, Zenon
<1> QED
  BY <1>3, <1>4, <1>5 DEF AloneInv, PercentOf

(* The check, the percentage and the path.                                 *)
LEMMA AloneWorks ==
  ASSUME AloneInv, IInv, NEW t \in Setters, CheckMax(t) \/ Percentage(t) \/ ChoosePath(t)
  PROVE  AloneInv'
<1>1. call[t] \in Calls /\ SupportsAUX \in BOOLEAN
  BY Zenon DEF IInv, CallsInv
<1>2. UNCHANGED CurrentPwmBacklightLevel
  BY Zenon DEF CheckMax, Percentage, ChoosePath, fields
<1>3. CASE CheckMax(t)
  <2>1. PICK c : c = [call[t] EXCEPT !.pc = "percent"]
    OBVIOUS
  <2>2. Becomes(t, c) /\ call[t].pc # "idle"
    BY <1>3, <2>1, Zenon DEF IInv, FieldsInv, CheckMax
  <2>3. c \in Calls /\ c.pc = "percent" /\ c.alone = call[t].alone
    BY <1>1, <2>1 DEF Calls
  <2> QED
    BY <1>2, <2>2, <2>3, AloneMoves, Zenon
<1>4. CASE Percentage(t)
  <2> DEFINE f == [value |-> CurrentPwmBacklightLevel, max |-> MaxPwmBacklightLevel]
             p == Mul32(CurrentPwmBacklightLevel, 100) \div MaxPwmBacklightLevel
  <2>1. p \in Nat /\ f \in [value : Nat, max : Nat] /\ MaxPwmBacklightLevel # 0
    BY PercentageWorked, Zenon DEF IInv, FieldsInv
  <2>2. p = PercentOf(f) /\ f.value = CurrentPwmBacklightLevel
    BY Zenon DEF PercentOf
  <2>3. Becomes(t, [call[t] EXCEPT !.pc = "path", !.percentage = p, !.from = f])
    BY <1>4, <2>1, Zenon DEF Percentage
  <2> HIDE DEF p, f
  <2>4. PICK c : c = [call[t] EXCEPT !.pc = "path", !.percentage = p, !.from = f]
    OBVIOUS
  <2>5. /\ c \in Calls /\ c.pc = "path" /\ c.alone = call[t].alone
        /\ c.percentage = p /\ c.from = f
    BY <1>1, <2>1, <2>4 DEF Calls
  <2>6. Becomes(t, c) /\ call[t].pc # "idle"
    BY <1>4, <2>3, <2>4, Zenon DEF Percentage
  <2> QED
    BY <1>2, <2>2, <2>5, <2>6, AloneMoves, Zenon
<1>5. CASE ChoosePath(t)
  <2>1. PICK c : c = [call[t] EXCEPT !.pc = "send", !.aux = SupportsAUX]
    OBVIOUS
  <2>2. Becomes(t, c) /\ call[t].pc = "path"
    BY <1>5, <2>1, Zenon DEF ChoosePath
  <2>3. /\ c \in Calls /\ c.pc = "send" /\ c.alone = call[t].alone
        /\ c.percentage = call[t].percentage /\ c.from = call[t].from
    BY <1>1, <2>1 DEF Calls
  <2>4. call[t].alone => /\ call[t].from.value = CurrentPwmBacklightLevel
                         /\ call[t].percentage = PercentOf(call[t].from)
    BY <2>2, Zenon DEF AloneInv
  <2> QED
    BY <1>2, <2>2, <2>3, <2>4, AloneMoves, Zenon
<1> QED
  BY <1>3, <1>4, <1>5, Zenon

(* The level is sent: success means that the driver took it by PWM.        *)
LEMMA AloneSends ==
  ASSUME AloneInv, IInv, NEW t \in Setters, Send(t) PROVE AloneInv'
<1>1. PICK accepted \in BOOLEAN :
        Accepting(t, accepted, IF accepted /\ ~call[t].aux THEN "Success" ELSE "DeviceError")
  BY Zenon DEF Send
<1> DEFINE result == IF accepted /\ ~call[t].aux THEN "Success" ELSE "DeviceError"
<1>2. result \in {"Success", "DeviceError"} /\ (result = "Success" => accepted /\ ~call[t].aux)
  OBVIOUS
<1>3. /\ call[t] \in Calls /\ call[t].pc = "send" /\ UNCHANGED CurrentPwmBacklightLevel
      /\ Becomes(t, [call[t] EXCEPT !.pc = "idle", !.ret = result])
  BY <1>1, Zenon DEF IInv, CallsInv, Accepting, fields
<1>4. accepted => /\ panel'.level = Level(call[t].aux, call[t].percentage)
                  /\ basis' = call[t].from
  BY <1>1 DEF Accepting
<1> HIDE DEF result
<1>5. PICK c : c = [call[t] EXCEPT !.pc = "idle", !.ret = result]
  OBVIOUS
<1>6. c \in Calls /\ c.pc = "idle" /\ c.ret = result /\ c.alone = call[t].alone
  BY <1>2, <1>3, <1>5 DEF Calls
<1>7. call[t].alone => /\ call[t].from.value = CurrentPwmBacklightLevel
                       /\ call[t].percentage = PercentOf(call[t].from)
  BY <1>3, Zenon DEF AloneInv
<1>8. ASSUME call[t].alone, result = "Success" PROVE Shown'
  <2>1. call[t].aux = FALSE
    BY <1>2, <1>3, <1>8, Zenon DEF Calls
  <2>2. panel'.level = Level(FALSE, PercentOf(call[t].from)) /\ basis' = call[t].from
    BY <1>2, <1>4, <1>7, <1>8, <2>1, Zenon
  <2> QED
    BY <1>3, <1>7, <1>8, <2>2, Zenon DEF Shown, PercentOf, Level, Mul32
<1> QED
  BY <1>3, <1>5, <1>6, <1>8, AloneMoves, Zenon

(* What the panel shows depends on these alone.                            *)
LEMMA ShownStays ==
  ASSUME UNCHANGED <<CurrentPwmBacklightLevel, panel, basis>> PROVE Shown' <=> Shown
BY Zenon DEF Shown, PercentOf, Level, Mul32

(* All others leave the changes, the value and the panel alone.            *)
LEMMA AloneNext == IInv /\ AloneInv /\ [Next]_vars => AloneInv'
<1> SUFFICES ASSUME IInv, AloneInv, [Next]_vars PROVE AloneInv'
  OBVIOUS
<1>1. ASSUME NEW l \in Links, StoreLink(l) PROVE AloneInv'
  <2>1. ASSUME NEW t \in Setters
        PROVE  /\ call'[t].pc = call[t].pc /\ call'[t].alone = call[t].alone
               /\ call'[t].from = call[t].from /\ call'[t].percentage = call[t].percentage
               /\ call'[t].ret = call[t].ret
    <3>1. call[t] \in Calls /\ call'[t] = [call[t] EXCEPT !.raced = (call[t].pc # "idle")]
      BY <1>1, Zenon DEF IInv, CallsInv, StoreLink
    <3> QED
      BY <3>1, Zenon DEF Calls
  <2>2. UNCHANGED <<CurrentPwmBacklightLevel, panel, basis>>
    BY <1>1, Zenon DEF StoreLink
  <2>3. Shown' <=> Shown
    BY <2>2, ShownStays, Zenon
  <2> QED
    BY <2>1, <2>2, <2>3 DEF AloneInv, PercentOf
<1>2. ASSUME UNCHANGED <<CurrentPwmBacklightLevel, call, panel, basis>> PROVE AloneInv'
  <2>1. Shown' <=> Shown
    BY <1>2, ShownStays, Zenon
  <2> QED
    BY <1>2, <2>1 DEF AloneInv, PercentOf
<1>3. CASE OnAppleBacklightDisplayLoad \/ StoreAUX
  BY <1>2, <1>3, Zenon DEF OnAppleBacklightDisplayLoad, StoreAUX
<1>4. CASE UNCHANGED vars \/ \E d \in Displays : AttachDisplay(d)
  <2>1. UNCHANGED <<fields, call, panel, basis>>
    BY <1>4, Zenon DEF vars, brightness, AttachDisplay
  <2> QED
    BY <1>2, <2>1, Zenon DEF fields
<1> QED
  BY <1>1, <1>3, <1>4, AloneStore, AloneWorks, AloneSends, Zenon DEF Next

(* After wrapSetAttributeForConnection succeeded and no other change       *)
(* overlapped it, the panel shows what the attribute reads back, whatever  *)
(* notification or link creation came in between.                          *)
THEOREM PanelFollowsCurrent == Spec => []PanelShowsCurrent
<1>1. Init => AloneInv
  BY DEF Init, Idle, AloneInv
<1>2. AloneInv => PanelShowsCurrent
  BY DEF AloneInv, PanelShowsCurrent, Quiet, Shown, PercentOf
<1>3. IInv /\ LevelFollowsValue /\ PathFitsLink /\ AloneInv /\ [Next]_vars
        => (IInv /\ LevelFollowsValue /\ PathFitsLink /\ AloneInv)'
  BY NextIInv, AloneNext, Zenon
<1> QED
  BY <1>1, <1>2, <1>3, InitIInv, PTL DEF Spec
===============================================================================
