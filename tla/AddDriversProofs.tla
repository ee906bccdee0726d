--------------------------- MODULE AddDriversProofs ---------------------------
(***************************************************************************)
(* Theorems about AddDrivers, for every set of threads and identifiers,    *)
(* every table of XML files, every array the callers pass and every number *)
(* of calls.                                                               *)
(***************************************************************************)
EXTENDS AddDrivers, TLAPS

(* Array a is array with driver put in behind its first i elements.        *)
Shifted(a, array, i, driver) ==
  /\ a \in Seq(Driver) /\ Len(a) = Len(array) + 1
  /\ \A k \in 1..i : a[k] = array[k]
  /\ a[i + 1] = driver
  /\ \A k \in (i + 1)..Len(array) : a[k + 1] = array[k]

(* setObject makes room at its index and moves what follows by one place.  *)
LEMMA SetObjectShifts ==
  ASSUME NEW array \in Seq(Driver), NEW i \in Nat, i <= Len(array),
         NEW driver \in Driver
  PROVE  Shifted(SetObject(array, i, driver), array, i, driver)
<1> DEFINE front == SubSeq(array, 1, i)
           rest == SubSeq(array, i + 1, Len(array))
<1>1. /\ front \in Seq(Driver) /\ Len(front) = i
      /\ \A k \in 1..i : front[k] = array[k]
  OBVIOUS
<1>2. /\ rest \in Seq(Driver) /\ Len(rest) = Len(array) - i
      /\ \A k \in 1..(Len(array) - i) : rest[k] = array[i + k]
  OBVIOUS
<1>4. SetObject(array, i, driver) = front \o <<driver>> \o rest
  BY Zenon DEF SetObject
<1>5. Len(array) \in Nat
  OBVIOUS
<1> HIDE DEF front, rest
<1>6. PICK b : b = front \o <<driver>>
  BY Zenon
<1>7. /\ b \in Seq(Driver) /\ Len(b) = i + 1
      /\ \A k \in 1..i : b[k] = array[k]
      /\ b[i + 1] = driver
  BY <1>1, <1>6, SMTT(30)
<1>8. PICK a : a = b \o rest
  BY Zenon
<1>9. /\ a \in Seq(Driver) /\ Len(a) = Len(array) + 1
      /\ \A k \in 1..(i + 1) : a[k] = b[k]
      /\ \A k \in 1..(Len(array) - i) : a[i + 1 + k] = rest[k]
  BY <1>2, <1>5, <1>7, <1>8
<1>10. \A k \in (i + 1)..Len(array) : a[k + 1] = array[k]
  <2> SUFFICES ASSUME NEW k \in (i + 1)..Len(array) PROVE a[k + 1] = array[k]
    OBVIOUS
  <2>1. PICK j \in 1..(Len(array) - i) : k = i + j
    <3>1. k - i \in 1..(Len(array) - i) /\ k = i + (k - i)
      BY <1>5
    <3> QED
      BY <3>1, Zenon
  <2>2. k + 1 = i + 1 + j
    BY <2>1, <1>5
  <2>3. QED
    BY <1>2, <1>9, <2>1, <2>2
<1>11. /\ \A k \in 1..i : a[k] = array[k]
       /\ a[i + 1] = driver
  BY <1>7, <1>9
<1>12. a = SetObject(array, i, driver)
  BY <1>4, <1>6, <1>8, Zenon
<1>13. QED
  BY <1>9, <1>10, <1>11, <1>12, Zenon DEF Shifted

(* A fresh activation is well typed.                                       *)
LEMMA ActivationTyped ==
  ASSUME NEW pc \in PCs, NEW ids \in Seq(Identifiers \cup {Other})
  PROVE  Activation(pc, ids) \in ActivationType
<1>1. Supplied(ids) \in Seq(Driver)
  <2>1. \A k \in DOMAIN ids : [id |-> ids[k], xml |-> 0] \in Driver
    BY DEF Driver
  <2>2. Supplied(ids) \in [1..Len(ids) -> Driver]
    BY <2>1 DEF Supplied
  <2>3. QED
    BY <2>2
<1>2. QED
  BY <1>1 DEF Activation, ActivationType

(* The loop's counters stay natural numbers.                               *)
LEMMA CountersTyped ==
  ASSUME NEW c \in ActivationType
  PROVE  /\ c.index + 1 \in Nat
         /\ c.done + 1 \in Nat
         /\ CountAdvanced(c.count) \in Nat
BY DEF ActivationType, CountAdvanced

(* Each change a step makes to an activation leaves it well typed.         *)
LEMMA UpdatesTyped ==
  ASSUME NEW c \in ActivationType, NEW pc \in PCs
  PROVE  /\ [c EXCEPT !.at = pc] \in ActivationType
         /\ \A n \in Nat : /\ [c EXCEPT !.index = n] \in ActivationType
                           /\ [c EXCEPT !.at = pc, !.index = n] \in ActivationType
                           /\ [c EXCEPT !.at = pc, !.done = n] \in ActivationType
         /\ \A bits \in SUBSET Identifiers :
              /\ [c EXCEPT !.at = pc, !.seen = bits] \in ActivationType
              /\ \A i \in Identifiers :
                   [c EXCEPT !.at = pc, !.id = i, !.seen = bits] \in ActivationType
         /\ \A a \in Seq(Driver), n, m, k \in Nat :
              [c EXCEPT !.array = a, !.done = n, !.index = m, !.count = k]
                \in ActivationType
BY Zenon DEF ActivationType

(* Replacing a thread's activation by a well-typed one.                    *)
LEMMA BecomesTyped ==
  ASSUME call \in [Threads -> ActivationType], NEW t \in Threads,
         NEW c \in ActivationType, Becomes(t, c)
  PROVE  /\ call' \in [Threads -> ActivationType]
         /\ call'[t] = c
         /\ \A u \in Threads \ {t} : call'[u] = call[u]
BY Zenon DEF Becomes

(* From the match on, a thread works on a bundle of the table.             *)
Working == {"matched", "reloaded", "inject", "insert"}

IdKnown == \A t \in Threads : call[t].at \in Working => call[t].id \in Identifiers

TypeInv == TypeOK /\ IdKnown

(* Init and every step keep the types and IdKnown; OR-ing a bit into the   *)
(* byte is typed only because the thread works on a bundle of the table.   *)
LEMMA TypeInvInit == Init => TypeInv
<1> SUFFICES ASSUME Init PROVE TypeInv
  OBVIOUS
<1>1. <<>> \in Seq(Identifiers \cup {Other})
  OBVIOUS
<1>2. Activation("idle", <<>>) \in ActivationType
  BY <1>1, ActivationTyped, Zenon DEF PCs
<1>3. call \in [Threads -> ActivationType]
  BY <1>2, Zenon DEF Init
<1>4. /\ MatchedDrivers \subseteq Identifiers
      /\ calls \in [Threads -> Nat]
      /\ injections \in [Identifiers -> Nat]
  BY Zenon DEF Init
<1>5. panicked \in BOOLEAN
  BY Zenon DEF Init
<1>6. IdKnown
  BY Zenon DEF Init, Activation, IdKnown, Working
<1>7. QED
  BY <1>3, <1>4, <1>5, <1>6, Zenon DEF TypeOK, TypeInv

(* A step that only replaces one activation keeps the type invariant.      *)
LEMMA BecomesKeeps ==
  ASSUME TypeInv, NEW t \in Threads, NEW c \in ActivationType, Becomes(t, c),
         c.at \in Working => c.id \in Identifiers,
         MatchedDrivers' \subseteq Identifiers, calls' \in [Threads -> Nat],
         injections' \in [Identifiers -> Nat], panicked' = panicked
  PROVE  TypeInv'
BY BecomesTyped, Zenon DEF TypeInv, TypeOK, IdKnown

(* Every step of every thread keeps the types, one case for each action.   *)
LEMMA TypeInvStep == TypeInv /\ [Next]_vars => TypeInv'
<1> SUFFICES ASSUME TypeInv, [Next]_vars PROVE TypeInv'
  OBVIOUS
<1>0. /\ \A t \in Threads : call[t] \in ActivationType
      /\ MatchedDrivers \in SUBSET Identifiers
      /\ \A t \in Threads : call[t].at \in Working => call[t].id \in Identifiers
  BY Zenon DEF TypeInv, TypeOK, IdKnown
<1>1. ASSUME NEW t \in Threads, Enter(t) PROVE TypeInv'
  <2>1. PICK ids \in Inputs : Becomes(t, Activation("scan", ids))
    BY <1>1, Zenon DEF Enter
  <2>2. Activation("scan", ids) \in ActivationType
    BY ActivationTyped, InputAssumption, Zenon DEF PCs
  <2>3. Activation("scan", ids).at \notin Working
    BY Zenon DEF Activation, Working
  <2>4. QED
    BY <1>1, <2>1, <2>2, <2>3, BecomesKeeps DEF Enter, TypeInv, TypeOK
<1>2. ASSUME NEW t \in Threads, ScanOutOfBounds(t) PROVE TypeInv'
  BY <1>2, Zenon DEF ScanOutOfBounds, TypeInv, TypeOK, IdKnown
<1>3. ASSUME NEW t \in Threads, ScanSkip(t) PROVE TypeInv'
  <2> DEFINE c == [call[t] EXCEPT !.index = @ + 1]
  <2>0. call[t].index + 1 \in Nat
    BY <1>0, CountersTyped, Zenon
  <2>1. c \in ActivationType
    BY <1>0, <2>0, UpdatesTyped, Zenon DEF PCs
  <2>2. c.at \in Working => c.id \in Identifiers
    BY <1>0, Zenon DEF ActivationType
  <2>3. QED
    BY <1>3, <2>1, <2>2, BecomesKeeps, Zenon DEF ScanSkip, TypeInv, TypeOK
<1>4. ASSUME NEW t \in Threads, ScanMatch(t) PROVE TypeInv'
  <2> DEFINE c == [call[t] EXCEPT !.at = "matched", !.id = Current(t),
                                  !.seen = MatchedDrivers]
  <2>1. Current(t) \in Identifiers
    BY <1>4, Zenon DEF ScanMatch, Matches
  <2>2. c \in ActivationType
    BY <1>0, <2>1, UpdatesTyped, Zenon DEF PCs
  <2>3. c.id \in Identifiers
    BY <1>0, <2>1, Zenon DEF ActivationType
  <2>4. QED
    BY <1>4, <2>2, <2>3, BecomesKeeps, Zenon DEF ScanMatch, TypeInv, TypeOK
<1>5. ASSUME NEW t \in Threads, Reload(t) PROVE TypeInv'
  <2> DEFINE c == [call[t] EXCEPT !.at = "reloaded", !.seen = MatchedDrivers]
  <2>1. c \in ActivationType
    BY <1>0, UpdatesTyped, Zenon DEF PCs
  <2>2. c.id \in Identifiers
    BY <1>0, <1>5, Zenon DEF ActivationType, Reload, At, Working
  <2>3. QED
    BY <1>5, <2>1, <2>2, BecomesKeeps, Zenon DEF Reload, TypeInv, TypeOK
<1>6. ASSUME NEW t \in Threads, Store(t) PROVE TypeInv'
  <2> DEFINE c == [call[t] EXCEPT !.at = "inject"]
  <2>1. call[t].id \in Identifiers
    BY <1>0, <1>6, Zenon DEF Store, At, Working
  <2>2. c \in ActivationType
    BY <1>0, UpdatesTyped, Zenon DEF PCs
  <2>5. c.id \in Identifiers
    BY <1>0, <2>1, Zenon DEF ActivationType
  <2>3. MatchedDrivers' \subseteq Identifiers
    BY <1>0, <1>6, <2>1, Zenon DEF Store, WithBit, ActivationType
  <2>4. QED
    BY <1>6, <2>2, <2>5, <2>3, BecomesKeeps, Zenon DEF Store, TypeInv, TypeOK
<1>7. ASSUME NEW t \in Threads, InjectPanics(t) PROVE TypeInv'
  BY <1>7, Zenon DEF InjectPanics, TypeInv, TypeOK, IdKnown
<1>8. ASSUME NEW t \in Threads, Inject(t) PROVE TypeInv'
  <2> DEFINE c == [call[t] EXCEPT !.at = "insert", !.done = 0]
  <2>1. call[t].id \in Identifiers
    BY <1>0, <1>8, Zenon DEF Inject, At, Working
  <2>2. c \in ActivationType
    BY <1>0, UpdatesTyped, Zenon DEF PCs
  <2>5. c.id \in Identifiers
    BY <1>0, <2>1, Zenon DEF ActivationType
  <2>3. injections' \in [Identifiers -> Nat]
    BY <1>8, <2>1 DEF Inject, TypeInv, TypeOK
  <2>4. QED
    BY <1>8, <2>2, <2>5, <2>3, BecomesKeeps, Zenon DEF Inject, TypeInv, TypeOK
<1>9. ASSUME NEW t \in Threads, NEW a \in Seq(Driver), Advance(t, a)
      PROVE  TypeInv'
  <2> DEFINE c == [call[t] EXCEPT !.array = a, !.done = @ + 1, !.index = @ + 1,
                                  !.count = CountAdvanced(@)]
  <2>0. /\ call[t].index + 1 \in Nat
        /\ call[t].done + 1 \in Nat
        /\ CountAdvanced(call[t].count) \in Nat
    BY <1>0, CountersTyped, Zenon
  <2>1. c \in ActivationType
    BY <1>0, <2>0, UpdatesTyped, Zenon DEF PCs
  <2>2. c.id \in Identifiers
    BY <1>0, <1>9, Zenon DEF Advance, At, Working, ActivationType
  <2>3. QED
    BY <1>9, <2>1, <2>2, BecomesKeeps, Zenon DEF Advance, TypeInv, TypeOK
<1>10. ASSUME NEW t \in Threads, Insert(t) PROVE TypeInv'
  <2> DEFINE d == [id |-> call[t].id, xml |-> call[t].done + 1]
  <2>1. /\ call[t].array \in Seq(Driver)
        /\ call[t].index \in Nat
        /\ call[t].id \in Identifiers \cup {Other}
        /\ call[t].done + 1 \in Nat
    BY <1>0 DEF ActivationType
  <2>3. d \in Driver
    BY <2>1, Zenon DEF Driver
  <2>2. SetObject(call[t].array, call[t].index, d) \in Seq(Driver)
    BY <1>10, <2>1, <2>3, SetObjectShifts, Zenon DEF Insert, Shifted
  <2>4. QED
    BY <1>9, <1>10, <2>2, Zenon DEF Insert
<1>11. ASSUME NEW t \in Threads, InsertFails(t) PROVE TypeInv'
  BY <1>0, <1>9, <1>11, Zenon DEF InsertFails, ActivationType
<1>12. ASSUME NEW t \in Threads, InjectDone(t) PROVE TypeInv'
  <2> DEFINE c == [call[t] EXCEPT !.at = "scan", !.index = @ + 1]
  <2>0. call[t].index + 1 \in Nat
    BY <1>0, CountersTyped
  <2>1. c \in ActivationType
    BY <1>0, <2>0, UpdatesTyped, Zenon DEF PCs
  <2>2. c.at \notin Working
    BY <1>0, Zenon DEF ActivationType, Working
  <2>3. QED
    BY <1>12, <2>1, <2>2, BecomesKeeps, Zenon DEF InjectDone, TypeInv, TypeOK
<1>13. ASSUME NEW t \in Threads, Deliver(t) PROVE TypeInv'
  <2> DEFINE c == [call[t] EXCEPT !.at = "idle"]
  <2>1. c \in ActivationType
    BY <1>0, UpdatesTyped, Zenon DEF PCs
  <2>2. c.at \notin Working
    BY <1>0, Zenon DEF ActivationType, Working
  <2>3. QED
    BY <1>13, <2>1, <2>2, BecomesKeeps, Zenon DEF Deliver, TypeInv, TypeOK
<1>14. CASE UNCHANGED vars
  BY <1>14, Zenon DEF vars, TypeInv, TypeOK, IdKnown
<1>15. QED
  BY <1>1, <1>2, <1>3, <1>4, <1>5, <1>6, <1>7, <1>8, <1>10, <1>11, <1>12, <1>13, <1>14, Zenon
     DEF Next, Step, Finished

(* WrapAddDrivers keeps its variables within their types: the array stays  *)
(* an array of personalities whatever is inserted, and the byte holds no   *)
(* bit that stands for no bundle.                                          *)
THEOREM TypeCorrect == Spec => []TypeOK
<1>1. TypeInv => TypeOK
  BY Zenon DEF TypeInv
<1>2. QED
  BY <1>1, TypeInvInit, TypeInvStep, PTL DEF Spec
-------------------------------------------------------------------------------
(* The value of the byte that a thread holds between load and store has    *)
(* only bits of served bundles.                                            *)
SeenServed ==
  \A t \in Threads : call[t].at \in {"matched", "reloaded"} =>
    \A i \in call[t].seen : Served(i)

BitInv == TypeInv /\ BitMeansInjection /\ SeenServed

(* A bundle stays served by a step of a thread that is not about to insert.*)
LEMMA ServedByOthers ==
  ASSUME TypeInv, NEW t \in Threads, call[t].at # "inject", NEW c,
         Becomes(t, c), injections' = injections
  PROVE  \A i \in Identifiers : Served(i) => Served(i)'
BY Zenon DEF TypeInv, TypeOK, Becomes, Served

(* A bundle, once served, stays served.                                    *)
LEMMA ServedStable ==
  ASSUME TypeInv, [Next]_vars
  PROVE  \A i \in Identifiers : Served(i) => Served(i)'
<1> DEFINE Keeps == \A i \in Identifiers : Served(i) => Served(i)'
<1>1. ASSUME NEW t \in Threads, At(t, "idle") \/ At(t, "scan") \/ At(t, "matched")
                                  \/ At(t, "reloaded") \/ At(t, "insert"),
             NEW c, Becomes(t, c), injections' = injections
      PROVE  Keeps
  BY <1>1, ServedByOthers, Zenon DEF At
<1>2. ASSUME NEW t \in Threads, Enter(t) PROVE Keeps
  BY <1>1, <1>2, Zenon DEF Enter
<1>3. ASSUME NEW t \in Threads, ScanSkip(t) \/ ScanMatch(t) PROVE Keeps
  BY <1>1, <1>3, Zenon DEF ScanSkip, ScanMatch
<1>4. ASSUME NEW t \in Threads, Reload(t) \/ Store(t) PROVE Keeps
  BY <1>1, <1>4, Zenon DEF Reload, Store
<1>5. ASSUME NEW t \in Threads, Insert(t) \/ InsertFails(t) PROVE Keeps
  BY <1>1, <1>5, Zenon DEF Insert, InsertFails, Advance
<1>6. ASSUME NEW t \in Threads, InjectDone(t) \/ Deliver(t) PROVE Keeps
  BY <1>1, <1>6, Zenon DEF InjectDone, Deliver, Delivering
<1>7. ASSUME NEW t \in Threads, Inject(t) PROVE Keeps
  <2>1. injections \in [Identifiers -> Nat] /\ call[t].id \in Identifiers
    BY <1>7, Zenon DEF Inject, At, TypeInv, TypeOK, IdKnown, Working
  <2>2. injections' = [injections EXCEPT ![call[t].id] = @ + 1]
    BY <1>7, Zenon DEF Inject
  <2>3. \A u \in Threads \ {t} : call'[u] = call[u]
    BY <1>7, Zenon DEF Inject, Becomes, TypeInv, TypeOK
  <2>4. SUFFICES ASSUME NEW i \in Identifiers, Served(i) PROVE Served(i)'
    OBVIOUS
  <2>5. CASE injections[i] > 0 \/ call[t].id = i
    <3>1. injections'[i] > 0
      BY <2>1, <2>2, <2>5
    <3>2. QED
      BY <3>1, Zenon DEF Served
  <2>6. CASE ~(injections[i] > 0 \/ call[t].id = i)
    BY <2>3, <2>4, <2>6, Zenon DEF Served
  <2>7. QED
    BY <2>5, <2>6, Zenon
<1>8. ASSUME UNCHANGED <<call, injections>> PROVE Keeps
  BY <1>8, Zenon DEF Served
<1>9. QED
  BY <1>2, <1>3, <1>4, <1>5, <1>6, <1>7, <1>8, Zenon
     DEF Next, Step, ScanOutOfBounds, InjectPanics, Finished, vars

(* What a step must show of the thread that takes it.                      *)
LEMMA SeenByOne ==
  ASSUME BitInv, [Next]_vars, NEW t \in Threads, NEW c, Becomes(t, c),
         c.at \in {"matched", "reloaded"} => \A i \in c.seen : Served(i),
         c.at \in {"matched", "reloaded"} => c.seen \subseteq Identifiers
  PROVE  SeenServed'
<1>1. \A i \in Identifiers : Served(i) => Served(i)'
  BY ServedStable, Zenon DEF BitInv
<1>2. \A u \in Threads : call[u].seen \subseteq Identifiers
  BY Zenon DEF BitInv, TypeInv, TypeOK, ActivationType
<1>3. call'[t] = c /\ \A u \in Threads \ {t} : call'[u] = call[u]
  BY Zenon DEF Becomes, BitInv, TypeInv, TypeOK
<1>4. QED
  BY <1>1, <1>2, <1>3, Zenon DEF BitInv, SeenServed

(* Every step keeps the bits, in the byte and in the threads' copies, earned. *)
LEMMA BitInvStep == BitInv /\ [Next]_vars => BitInv'
<1> SUFFICES ASSUME BitInv, [Next]_vars PROVE BitInv'
  OBVIOUS
<1>1. TypeInv /\ TypeInv'
  BY TypeInvStep, Zenon DEF BitInv
<1>2. \A i \in Identifiers : Served(i) => Served(i)'
  BY ServedStable, <1>1, Zenon
<1>3. /\ \A t \in Threads : call[t] \in ActivationType
      /\ MatchedDrivers \subseteq Identifiers
      /\ \A i \in MatchedDrivers : Served(i)
  BY Zenon DEF BitInv, TypeInv, TypeOK, BitMeansInjection
<1>4. ASSUME UNCHANGED MatchedDrivers PROVE BitMeansInjection'
  BY <1>2, <1>3, <1>4, Zenon DEF BitMeansInjection
<1>5. ASSUME NEW t \in Threads, NEW c, Becomes(t, c),
             c.at \notin {"matched", "reloaded"}
      PROVE  SeenServed'
  BY <1>5, SeenByOne, Zenon
<1>6. ASSUME NEW t \in Threads, NEW c, Becomes(t, c), c.seen = MatchedDrivers
      PROVE  SeenServed'
  BY <1>3, <1>6, SeenByOne, Zenon
<1>7. ASSUME NEW t \in Threads, Enter(t) PROVE BitInv'
  <2>1. PICK ids \in Inputs : Becomes(t, Activation("scan", ids))
    BY <1>7 DEF Enter
  <2>2. Activation("scan", ids).at = "scan"
    BY Zenon DEF Activation
  <2>3. QED
    BY <1>1, <1>4, <1>5, <1>7, <2>1, <2>2, Zenon DEF Enter, BitInv
<1>8. ASSUME NEW t \in Threads, ScanSkip(t) PROVE BitInv'
  <2>1. [call[t] EXCEPT !.index = @ + 1].at = "scan"
    BY <1>3, <1>8, Zenon DEF ScanSkip, At, ActivationType
  <2>2. QED
    BY <1>1, <1>4, <1>5, <1>8, <2>1, Zenon DEF ScanSkip, BitInv
<1>9. ASSUME NEW t \in Threads, ScanMatch(t) PROVE BitInv'
  <2>1. [call[t] EXCEPT !.at = "matched", !.id = Current(t),
                        !.seen = MatchedDrivers].seen = MatchedDrivers
    BY <1>3, Zenon DEF ActivationType
  <2>2. QED
    BY <1>1, <1>4, <1>6, <1>9, <2>1, Zenon DEF ScanMatch, BitInv
<1>10. ASSUME NEW t \in Threads, Reload(t) PROVE BitInv'
  <2>1. [call[t] EXCEPT !.at = "reloaded", !.seen = MatchedDrivers].seen
          = MatchedDrivers
    BY <1>3, Zenon DEF ActivationType
  <2>2. QED
    BY <1>1, <1>4, <1>6, <1>10, <2>1, Zenon DEF Reload, BitInv
<1>11. ASSUME NEW t \in Threads, Store(t) PROVE BitInv'
  <2> DEFINE c == [call[t] EXCEPT !.at = "inject"]
  <2>1. c.at = "inject" /\ c.id = call[t].id
    BY <1>3, Zenon DEF ActivationType
  <2>2. SeenServed'
    BY <1>5, <1>11, <2>1, Zenon DEF Store
  <2>3. call'[t] = c
    BY <1>1, <1>11, Zenon DEF Store, Becomes, TypeInv, TypeOK
  <2>4. \A i : i = call[t].id => Served(i)'
    BY <2>1, <2>3, Zenon DEF Served
  <2>5. \A i \in call[t].seen : Served(i) /\ i \in Identifiers
    BY <1>3, <1>11, Zenon DEF Store, At, BitInv, SeenServed, ActivationType
  <2>6. MatchedDrivers' = call[t].seen \cup {call[t].id}
    BY <1>11, Zenon DEF Store, WithBit
  <2>7. BitMeansInjection'
    BY <1>2, <2>4, <2>5, <2>6, Zenon DEF BitMeansInjection
  <2>8. QED
    BY <1>1, <2>2, <2>7, Zenon DEF BitInv
<1>12. ASSUME NEW t \in Threads, Inject(t) PROVE BitInv'
  <2>1. [call[t] EXCEPT !.at = "insert", !.done = 0].at = "insert"
    BY <1>3, Zenon DEF ActivationType
  <2>2. QED
    BY <1>1, <1>4, <1>5, <1>12, <2>1, Zenon DEF Inject, BitInv
<1>13. ASSUME NEW t \in Threads, NEW a, Advance(t, a) PROVE BitInv'
  <2>1. [call[t] EXCEPT !.array = a, !.done = @ + 1, !.index = @ + 1,
                        !.count = CountAdvanced(@)].at = "insert"
    BY <1>3, <1>13, Zenon DEF Advance, At, ActivationType
  <2>2. QED
    BY <1>1, <1>4, <1>5, <1>13, <2>1, Zenon DEF Advance, BitInv
<1>14. ASSUME NEW t \in Threads, InjectDone(t) PROVE BitInv'
  <2>1. [call[t] EXCEPT !.at = "scan", !.index = @ + 1].at = "scan"
    BY <1>3, Zenon DEF ActivationType
  <2>2. QED
    BY <1>1, <1>4, <1>5, <1>14, <2>1, Zenon DEF InjectDone, BitInv
<1>15. ASSUME NEW t \in Threads, Deliver(t) PROVE BitInv'
  <2>1. [call[t] EXCEPT !.at = "idle"].at = "idle"
    BY <1>3, Zenon DEF ActivationType
  <2>2. QED
    BY <1>1, <1>4, <1>5, <1>15, <2>1, Zenon DEF Deliver, BitInv
<1>16. ASSUME UNCHANGED <<call, MatchedDrivers, injections>> PROVE BitInv'
  BY <1>1, <1>16, Zenon DEF BitInv, BitMeansInjection, SeenServed, Served
<1>17. QED
  BY <1>7, <1>8, <1>9, <1>10, <1>11, <1>12, <1>13, <1>14, <1>15, <1>16, Zenon
     DEF Next, Step, ScanOutOfBounds, InjectPanics, Insert, InsertFails, Finished, vars

(* However many threads race on the byte, a bit that is set has its        *)
(* injection done or about to be done by the thread that set it: lost      *)
(* updates of the byte can repeat an injection and never suppress one.     *)
THEOREM BitsAreEarned == Spec => []BitMeansInjection
<1>1. Init => BitInv
  BY TypeInvInit DEF BitInv, BitMeansInjection, SeenServed, Init, Activation
<1>2. BitInv => BitMeansInjection
  BY Zenon DEF BitInv
<1>3. QED
  BY <1>1, <1>2, BitInvStep, PTL DEF Spec
-------------------------------------------------------------------------------
(* Until a store races: a thread between test and store holds the byte as  *)
(* it is, without its bundle's bit; a bundle about to be inserted has its  *)
(* bit, no insertion so far and one thread only; what was inserted has its *)
(* bit and was inserted once.                                              *)
Testing == {"matched", "reloaded"}
OnceBody ==
  /\ \A t \in Threads : call[t].at \in Testing =>
       call[t].seen = MatchedDrivers /\ call[t].id \notin MatchedDrivers
  /\ \A t \in Threads : call[t].at = "inject" =>
       call[t].id \in MatchedDrivers /\ injections[call[t].id] = 0
  /\ \A t, u \in Threads : call[t].at = "inject" /\ call[u].at = "inject" /\ t # u =>
       call[t].id # call[u].id
  /\ \A i \in Identifiers : injections[i] > 0 => i \in MatchedDrivers
  /\ \A i \in Identifiers : injections[i] <= 1
OnceInv == TypeInv /\ (~raced => OnceBody)

(* A thread that moves to a place where it holds nothing disturbs nobody.  *)
LEMMA OnceElsewhere ==
  ASSUME OnceBody, TypeInv, NEW t \in Threads, NEW c, Becomes(t, c),
         c.at \notin Testing, c.at # "inject", UNCHANGED <<MatchedDrivers, injections>>
  PROVE  OnceBody'
<1>1. call'[t] = c /\ \A u \in Threads \ {t} : call'[u] = call[u]
  BY Zenon DEF Becomes, TypeInv, TypeOK
<1>2. QED
  BY <1>1 DEF OnceBody

(* A thread that reads the byte holds it as it is.                         *)
LEMMA OnceTesting ==
  ASSUME OnceBody, TypeInv, NEW t \in Threads, NEW c, Becomes(t, c), c.at \in Testing,
         c.seen = MatchedDrivers, c.id \notin MatchedDrivers,
         UNCHANGED <<MatchedDrivers, injections>>
  PROVE  OnceBody'
<1>1. call'[t] = c /\ \A u \in Threads \ {t} : call'[u] = call[u]
  BY Zenon DEF Becomes, TypeInv, TypeOK
<1>2. c.at # "inject"
  BY Zenon DEF Testing
<1>3. QED
  BY <1>1, <1>2 DEF OnceBody

(* Every step keeps the promise until a store races.                       *)
LEMMA OnceStep == OnceInv /\ [Next]_vars => OnceInv'
<1> SUFFICES ASSUME OnceInv, [Next]_vars PROVE OnceInv'
  OBVIOUS
<1>1. TypeInv /\ TypeInv'
  BY TypeInvStep, Zenon DEF OnceInv
<1>2. \A t \in Threads : call[t] \in ActivationType
  BY <1>1, Zenon DEF TypeInv, TypeOK
<1>3. SUFFICES ASSUME ~raced' PROVE OnceBody'
  BY <1>1, Zenon DEF OnceInv
<1>4. ~raced
  BY <1>3, Zenon
     DEF Next, Step, Enter, ScanOutOfBounds, ScanSkip, ScanMatch, Reload, Store, InjectPanics,
         Inject, Insert, InsertFails, Advance, InjectDone, Deliver, Finished, vars
<1>5. OnceBody
  BY <1>4, Zenon DEF OnceInv
<1>6. ASSUME NEW t \in Threads, Enter(t) PROVE OnceBody'
  <2>1. PICK ids \in Inputs : Becomes(t, Activation("scan", ids))
    BY <1>6 DEF Enter
  <2>2. Activation("scan", ids).at = "scan"
    BY DEF Activation
  <2>3. QED
    BY <1>1, <1>5, <1>6, <2>1, <2>2, OnceElsewhere, Zenon DEF Enter, Testing
<1>7. ASSUME NEW t \in Threads, ScanSkip(t) PROVE OnceBody'
  <2>1. [call[t] EXCEPT !.index = @ + 1].at = "scan"
    BY <1>2, <1>7, Zenon DEF ScanSkip, At, ActivationType
  <2>2. QED
    BY <1>1, <1>5, <1>7, <2>1, OnceElsewhere, Zenon DEF ScanSkip, Testing
<1>8. ASSUME NEW t \in Threads, ScanMatch(t) PROVE OnceBody'
  <2> DEFINE c == [call[t] EXCEPT !.at = "matched", !.id = Current(t), !.seen = MatchedDrivers]
  <2>1. c.at = "matched" /\ c.id = Current(t) /\ c.seen = MatchedDrivers
    BY <1>2, Zenon DEF ActivationType
  <2>2. Current(t) \notin MatchedDrivers
    BY <1>8, Zenon DEF ScanMatch, Matches
  <2>3. QED
    BY <1>1, <1>5, <1>8, <2>1, <2>2, OnceTesting, Zenon DEF ScanMatch, Testing
<1>9. ASSUME NEW t \in Threads, Reload(t) PROVE OnceBody'
  <2> DEFINE c == [call[t] EXCEPT !.at = "reloaded", !.seen = MatchedDrivers]
  <2>1. c.at = "reloaded" /\ c.id = call[t].id /\ c.seen = MatchedDrivers
    BY <1>2, Zenon DEF ActivationType
  <2>2. call[t].id \notin MatchedDrivers
    BY <1>5, <1>9, Zenon DEF Reload, At, OnceBody, Testing
  <2>3. QED
    BY <1>1, <1>5, <1>9, <2>1, <2>2, OnceTesting, Zenon DEF Reload, Testing
<1>10. ASSUME NEW t \in Threads, Store(t) PROVE OnceBody'
  <2> DEFINE c == [call[t] EXCEPT !.at = "inject"]
  <2>1. c.at = "inject" /\ c.id = call[t].id
    BY <1>2, Zenon DEF ActivationType
  <2>2. call'[t] = c /\ \A u \in Threads \ {t} : call'[u] = call[u]
    BY <1>1, <1>10, Zenon DEF Store, Becomes, TypeInv, TypeOK
  <2>3. call[t].at \in Testing /\ UNCHANGED injections
    BY <1>10, Zenon DEF Store, At, Testing
  <2>4. \A u \in Threads \ {t} : call[u].at \notin Testing
    BY <1>3, <1>10, Zenon DEF Store, Testing
  <2>5. call[t].seen = MatchedDrivers /\ call[t].id \notin MatchedDrivers
    BY <1>5, <2>3, Zenon DEF OnceBody
  <2>6. MatchedDrivers' = MatchedDrivers \cup {call[t].id}
    BY <1>10, <2>5, Zenon DEF Store, WithBit
  <2>7. call[t].id \in Identifiers /\ injections \in [Identifiers -> Nat]
    BY <1>1, <2>3, Zenon DEF TypeInv, TypeOK, IdKnown, Testing, Working
  <2>8. injections[call[t].id] = 0
    BY <1>5, <2>5, <2>7 DEF OnceBody
  <2>9. "inject" \notin Testing
    BY Zenon DEF Testing
  <2> HIDE DEF c
  <2>10. /\ \A u \in Threads : call'[u].at \notin Testing
         /\ \A u \in Threads \ {t} : call'[u].at = "inject" =>
              call'[u].id \in MatchedDrivers /\ injections[call'[u].id] = 0
    <3>1. \A u \in Threads : call'[u].at \notin Testing
      BY <2>1, <2>2, <2>4, <2>9, Zenon
    <3>2. \A u \in Threads \ {t} : call[u].at = "inject" =>
            call[u].id \in MatchedDrivers /\ injections[call[u].id] = 0
      BY <1>5, Zenon DEF OnceBody
    <3> QED
      BY <2>2, <3>1, <3>2, Zenon
  <2>11. \A u \in Threads : call'[u].at = "inject" =>
           call'[u].id \in MatchedDrivers' /\ injections'[call'[u].id] = 0
    BY <2>1, <2>2, <2>3, <2>6, <2>8, <2>10, Zenon
  <2>12. \A u, v \in Threads : call'[u].at = "inject" /\ call'[v].at = "inject" /\ u # v =>
           call'[u].id # call'[v].id
    <3>1. \A u \in Threads \ {t} : call'[u].at = "inject" => call'[u].id # call'[t].id
      BY <2>1, <2>2, <2>5, <2>10, Zenon
    <3>2. \A u, v \in Threads \ {t} :
            call'[u].at = "inject" /\ call'[v].at = "inject" /\ u # v => call'[u].id # call'[v].id
      BY <1>5, <2>2 DEF OnceBody
    <3> QED
      BY <3>1, <3>2, Zenon
  <2>13. \A i \in Identifiers :
           (injections'[i] > 0 => i \in MatchedDrivers') /\ injections'[i] <= 1
    BY <1>5, <2>3, <2>6, Zenon DEF OnceBody
  <2>14. QED
    BY <2>10, <2>11, <2>12, <2>13, Zenon DEF OnceBody
<1>11. ASSUME NEW t \in Threads, Inject(t) PROVE OnceBody'
  <2> DEFINE c == [call[t] EXCEPT !.at = "insert", !.done = 0]
  <2>1. c.at = "insert"
    BY <1>2, Zenon DEF ActivationType
  <2>2. call'[t] = c /\ \A u \in Threads \ {t} : call'[u] = call[u]
    BY <1>1, <1>11, Zenon DEF Inject, Becomes, TypeInv, TypeOK
  <2>3. call[t].at = "inject" /\ UNCHANGED MatchedDrivers
    BY <1>11, Zenon DEF Inject, At
  <2>4. call[t].id \in Identifiers /\ injections \in [Identifiers -> Nat]
    BY <1>1, <2>3, Zenon DEF TypeInv, TypeOK, IdKnown, Working
  <2>5. injections' = [injections EXCEPT ![call[t].id] = injections[call[t].id] + 1]
    BY <1>11 DEF Inject
  <2>6. call[t].id \in MatchedDrivers /\ injections[call[t].id] = 0
    BY <1>5, <2>3, Zenon DEF OnceBody
  <2>7. /\ injections'[call[t].id] = 1
        /\ \A i \in Identifiers : i # call[t].id => injections'[i] = injections[i]
    BY <2>4, <2>5, <2>6
  <2>8. \A u \in Threads \ {t} : call[u].at = "inject" =>
          call[u].id # call[t].id /\ call[u].id \in Identifiers
    BY <1>1, <1>5, <2>3, Zenon DEF OnceBody, TypeInv, IdKnown, Working
  <2>9. c.at \notin Testing /\ c.at # "inject"
    BY <2>1, Zenon DEF Testing
  <2> HIDE DEF c
  <2>10. \A u \in Threads : call'[u].at \in Testing =>
           call'[u].seen = MatchedDrivers' /\ call'[u].id \notin MatchedDrivers'
    BY <1>5, <2>2, <2>3, <2>9 DEF OnceBody
  <2>11. \A u \in Threads : call'[u].at = "inject" =>
           /\ u # t /\ call'[u] = call[u]
           /\ call'[u].id \in MatchedDrivers' /\ injections'[call'[u].id] = 0
    <3>1. \A u \in Threads : call'[u].at = "inject" => u # t /\ call'[u] = call[u]
      BY <2>2, <2>9, Zenon
    <3>2. \A u \in Threads \ {t} : call[u].at = "inject" =>
            call[u].id \in MatchedDrivers /\ injections[call[u].id] = 0
      BY <1>5 DEF OnceBody
    <3>3. \A u \in Threads \ {t} : call[u].at = "inject" =>
            call[u].id \in MatchedDrivers /\ injections'[call[u].id] = 0
      BY <2>7, <2>8, <3>2, Zenon
    <3> QED
      BY <2>3, <3>1, <3>3
  <2>12. \A u, v \in Threads : call'[u].at = "inject" /\ call'[v].at = "inject" /\ u # v =>
           call'[u].id # call'[v].id
    BY <1>5, <2>11 DEF OnceBody
  <2>13. \A i \in Identifiers :
           (injections'[i] > 0 => i \in MatchedDrivers') /\ injections'[i] <= 1
    BY <1>5, <2>3, <2>6, <2>7 DEF OnceBody
  <2>14. QED
    BY <2>10, <2>11, <2>12, <2>13, Zenon DEF OnceBody
<1>12. ASSUME NEW t \in Threads, NEW a, Advance(t, a) PROVE OnceBody'
  <2>1. [call[t] EXCEPT !.array = a, !.done = @ + 1, !.index = @ + 1,
                        !.count = CountAdvanced(@)].at = "insert"
    BY <1>2, <1>12, Zenon DEF Advance, At, ActivationType
  <2>2. QED
    BY <1>1, <1>5, <1>12, <2>1, OnceElsewhere, Zenon DEF Advance, Testing
<1>13. ASSUME NEW t \in Threads, InjectDone(t) PROVE OnceBody'
  <2>1. [call[t] EXCEPT !.at = "scan", !.index = @ + 1].at = "scan"
    BY <1>2, Zenon DEF ActivationType
  <2>2. QED
    BY <1>1, <1>5, <1>13, <2>1, OnceElsewhere, Zenon DEF InjectDone, Testing
<1>14. ASSUME NEW t \in Threads, Deliver(t) PROVE OnceBody'
  <2>1. [call[t] EXCEPT !.at = "idle"].at = "idle"
    BY <1>2, Zenon DEF ActivationType
  <2>2. QED
    BY <1>1, <1>5, <1>14, <2>1, OnceElsewhere, Zenon DEF Deliver, Testing
<1>15. ASSUME UNCHANGED <<call, MatchedDrivers, injections>> PROVE OnceBody'
  BY <1>5, <1>15, Zenon DEF OnceBody
<1>16. QED
  BY <1>6, <1>7, <1>8, <1>9, <1>10, <1>11, <1>12, <1>13, <1>14, <1>15, Zenon
     DEF Next, Step, ScanOutOfBounds, InjectPanics, Insert, InsertFails, Finished, vars

(* WrapAddDrivers inserts a bundle's XML at most once, over all calls and  *)
(* threads, until one thread stores the byte between another's test and    *)
(* store: nothing else in the hook can duplicate.                          *)
THEOREM InjectsOnce == Spec => []InjectedAtMostOnce
<1>1. Init => OnceInv
  <2> SUFFICES ASSUME Init PROVE OnceInv
    OBVIOUS
  <2>1. TypeInv
    BY TypeInvInit, Zenon
  <2>2. OnceBody
    BY DEF Init, Activation, OnceBody, Testing
  <2>3. QED
    BY <2>1, <2>2, Zenon DEF OnceInv
<1>2. OnceInv => InjectedAtMostOnce
  BY Zenon DEF OnceInv, OnceBody, InjectedAtMostOnce
<1>3. QED
  BY <1>1, <1>2, OnceStep, PTL DEF Spec
-------------------------------------------------------------------------------
(* What one step of the hook does to the activation o of the thread that    *)
(* takes it, giving c: one clause for each kind of turn of the two loops.   *)
SameArray(o, c) == c.given = o.given /\ c.array = o.array /\ c.count = o.count

Inside(o) == o.index < o.count /\ o.index < Len(o.array)

Enters(o, c) == o.at = "idle" /\ \E ids \in Inputs : c = Activation("scan", ids)
Passes(o, c) ==
  /\ o.at = "scan" /\ c.at = "scan" /\ Inside(o) /\ SameArray(o, c)
  /\ c.index = o.index + 1 /\ ~Matches(o.array[o.index + 1].id)
Finds(o, c) ==
  /\ o.at = "scan" /\ c.at = "matched" /\ Inside(o) /\ SameArray(o, c)
  /\ c.index = o.index /\ c.id = o.array[o.index + 1].id /\ c.id \in Identifiers
Holds(o, c) ==
  /\ SameArray(o, c) /\ c.index = o.index /\ c.id = o.id
  /\ \/ o.at = "matched" /\ c.at = "reloaded"
     \/ o.at \in Testing /\ c.at = "inject"
     \/ o.at = "scan" /\ c.at = "idle"
Starts(o, c) ==
  /\ o.at = "inject" /\ c.at = "insert" /\ SameArray(o, c)
  /\ c.index = o.index /\ c.id = o.id /\ c.done = 0 /\ XML[c.id] \in Nat
Grows(o, c) ==
  /\ o.at = "insert" /\ c.at = "insert" /\ c.given = o.given /\ c.id = o.id
  /\ o.done < XML[o.id] /\ c.done = o.done + 1
  /\ c.index = o.index + 1 /\ c.count = o.count + 1
Puts(o, c) ==
  /\ Grows(o, c) /\ o.index <= Len(o.array)
  /\ c.array = SetObject(o.array, o.index, [id |-> o.id, xml |-> o.done + 1])
Fails(o, c) == Grows(o, c) /\ c.array = o.array
Ends(o, c) ==
  /\ o.at = "insert" /\ c.at = "scan" /\ SameArray(o, c)
  /\ c.index = o.index + 1 /\ c.id = o.id /\ o.done = XML[o.id]

Turn(o, c) == \/ Enters(o, c) \/ Passes(o, c) \/ Finds(o, c) \/ Holds(o, c)
              \/ Starts(o, c) \/ Puts(o, c) \/ Fails(o, c) \/ Ends(o, c)

(* A step leaves every activation alone or is a turn of one thread.         *)
LEMMA StepIsTurn ==
  ASSUME TypeInv, TypeInv', [Next]_vars
  PROVE  \/ UNCHANGED call
         \/ \E t \in Threads : /\ Turn(call[t], call'[t])
                               /\ \A u \in Threads \ {t} : call'[u] = call[u]
<1> DEFINE Goal == \E t \in Threads : /\ Turn(call[t], call'[t])
                                      /\ \A u \in Threads \ {t} : call'[u] = call[u]
<1>1. \A t \in Threads : call[t] \in ActivationType
  BY Zenon DEF TypeInv, TypeOK
<1>2. ASSUME NEW t \in Threads, NEW c, Becomes(t, c)
      PROVE  call'[t] = c /\ \A u \in Threads \ {t} : call'[u] = call[u]
  BY <1>2, Zenon DEF Becomes, TypeInv, TypeOK
<1>3. ASSUME NEW t \in Threads, NEW c, Becomes(t, c), Turn(call[t], c) PROVE Goal
  BY <1>2, <1>3, Zenon
<1>4. ASSUME NEW t \in Threads, Enter(t) PROVE Goal
  <2>1. PICK ids \in Inputs : Becomes(t, Activation("scan", ids))
    BY <1>4, Zenon DEF Enter
  <2>2. Turn(call[t], Activation("scan", ids))
    BY <1>4, Zenon DEF Turn, Enters, Enter, At
  <2>3. QED
    BY <1>3, <2>1, <2>2, Zenon
<1>5. ASSUME NEW t \in Threads, ScanSkip(t) PROVE Goal
  <2>1. PICK c : c = [call[t] EXCEPT !.index = @ + 1]
    BY Zenon
  <2>2. c.at = call[t].at /\ SameArray(call[t], c) /\ c.index = call[t].index + 1
    BY <1>1, <2>1, Zenon DEF SameArray, ActivationType
  <2>3. call[t].at = "scan" /\ Inside(call[t]) /\ ~Matches(call[t].array[call[t].index + 1].id)
    BY <1>5, Zenon DEF ScanSkip, At, Inside, InRange, Current
  <2>4. Turn(call[t], c)
    BY <2>2, <2>3, Zenon DEF Turn, Passes
  <2>5. QED
    BY <1>3, <1>5, <2>1, <2>4, Zenon DEF ScanSkip
<1>6. ASSUME NEW t \in Threads, ScanMatch(t) PROVE Goal
  <2>1. PICK c : c = [call[t] EXCEPT !.at = "matched", !.id = Current(t), !.seen = MatchedDrivers]
    OBVIOUS
  <2>2. c.at = "matched" /\ SameArray(call[t], c) /\ c.index = call[t].index /\ c.id = Current(t)
    BY <1>1, <2>1, Zenon DEF SameArray, ActivationType
  <2>3. call[t].at = "scan" /\ Inside(call[t]) /\ Matches(Current(t))
    BY <1>6, Zenon DEF ScanMatch, At, Inside, InRange
  <2>4. Turn(call[t], c)
    BY <2>2, <2>3, Zenon DEF Turn, Finds, Current, Matches
  <2>5. QED
    BY <1>3, <1>6, <2>1, <2>4, Zenon DEF ScanMatch
<1>7. ASSUME NEW t \in Threads, Reload(t) PROVE Goal
  <2>1. PICK c : c = [call[t] EXCEPT !.at = "reloaded", !.seen = MatchedDrivers]
    OBVIOUS
  <2>2. c.at = "reloaded" /\ SameArray(call[t], c) /\ c.index = call[t].index /\ c.id = call[t].id
    BY <1>1, <2>1, Zenon DEF SameArray, ActivationType
  <2>3. call[t].at = "matched"
    BY <1>7, Zenon DEF Reload, At
  <2>4. Turn(call[t], c)
    BY <2>2, <2>3, Zenon DEF Turn, Holds
  <2>5. QED
    BY <1>3, <1>7, <2>1, <2>4, Zenon DEF Reload
<1>8. ASSUME NEW t \in Threads, Store(t) PROVE Goal
  <2>1. PICK c : c = [call[t] EXCEPT !.at = "inject"]
    BY Zenon
  <2>2. c.at = "inject" /\ SameArray(call[t], c) /\ c.index = call[t].index /\ c.id = call[t].id
    BY <1>1, <2>1, Zenon DEF SameArray, ActivationType
  <2>3. call[t].at \in Testing
    BY <1>8, Zenon DEF Store, At, Testing
  <2>4. Turn(call[t], c)
    BY <2>2, <2>3, Zenon DEF Turn, Holds
  <2>5. QED
    BY <1>3, <1>8, <2>1, <2>4, Zenon DEF Store
<1>9. ASSUME NEW t \in Threads, Inject(t) PROVE Goal
  <2>1. PICK c : c = [call[t] EXCEPT !.at = "insert", !.done = 0]
    OBVIOUS
  <2>2. /\ c.at = "insert" /\ SameArray(call[t], c) /\ c.index = call[t].index
        /\ c.id = call[t].id /\ c.done = 0
    BY <1>1, <2>1, Zenon DEF SameArray, ActivationType
  <2>3. call[t].at = "inject" /\ XML[call[t].id] # NoXML
    BY <1>9, Zenon DEF Inject, At
  <2>4. XML[c.id] \in Nat
    BY <2>2, <2>3, XMLAssumption, Zenon DEF TypeInv, IdKnown, Working
  <2>5. Turn(call[t], c)
    BY <2>2, <2>3, <2>4, Zenon DEF Turn, Starts
  <2>6. QED
    BY <1>3, <1>9, <2>1, <2>5, Zenon DEF Inject
<1>10. ASSUME NEW t \in Threads, NEW a, Advance(t, a)
       PROVE  \E c : Becomes(t, c) /\ Grows(call[t], c) /\ c.array = a
  <2>1. PICK c : c = [call[t] EXCEPT !.array = a, !.done = @ + 1, !.index = @ + 1,
                                     !.count = CountAdvanced(@)]
    OBVIOUS
  <2>2. /\ c.at = call[t].at /\ c.given = call[t].given /\ c.id = call[t].id
        /\ c.done = call[t].done + 1 /\ c.index = call[t].index + 1
        /\ c.count = call[t].count + 1 /\ c.array = a
    BY <1>1, <2>1, Zenon DEF ActivationType, CountAdvanced
  <2>3. call[t].at = "insert" /\ call[t].done < XML[call[t].id]
    BY <1>10, Zenon DEF Advance, At
  <2>4. Grows(call[t], c)
    BY <2>2, <2>3, Zenon DEF Grows
  <2>5. QED
    BY <1>10, <2>1, <2>2, <2>4, Zenon DEF Advance
<1>11. ASSUME NEW t \in Threads, Insert(t) PROVE Goal
  <2>1. PICK c : /\ Becomes(t, c) /\ Grows(call[t], c)
                 /\ c.array = SetObject(call[t].array, call[t].index,
                                        [id |-> call[t].id, xml |-> call[t].done + 1])
    BY <1>10, <1>11, Zenon DEF Insert
  <2>2. Turn(call[t], c)
    BY <1>11, <2>1, Zenon DEF Insert, Turn, Puts
  <2>3. QED
    BY <1>3, <2>1, <2>2, Zenon
<1>12. ASSUME NEW t \in Threads, InsertFails(t) PROVE Goal
  <2>1. PICK c : Becomes(t, c) /\ Grows(call[t], c) /\ c.array = call[t].array
    BY <1>10, <1>12, Zenon DEF InsertFails
  <2>2. Turn(call[t], c)
    BY <2>1, Zenon DEF Turn, Fails
  <2>3. QED
    BY <1>3, <2>1, <2>2, Zenon
<1>13. ASSUME NEW t \in Threads, InjectDone(t) PROVE Goal
  <2>1. PICK c : c = [call[t] EXCEPT !.at = "scan", !.index = @ + 1]
    OBVIOUS
  <2>2. c.at = "scan" /\ SameArray(call[t], c) /\ c.index = call[t].index + 1 /\ c.id = call[t].id
    BY <1>1, <2>1, Zenon DEF SameArray, ActivationType
  <2>3. call[t].at = "insert" /\ call[t].done = XML[call[t].id]
    BY <1>13, Zenon DEF InjectDone, At
  <2>4. Turn(call[t], c)
    BY <2>2, <2>3, Zenon DEF Turn, Ends
  <2>5. QED
    BY <1>3, <1>13, <2>1, <2>4, Zenon DEF InjectDone
<1>14. ASSUME NEW t \in Threads, Deliver(t) PROVE Goal
  <2>1. PICK c : c = [call[t] EXCEPT !.at = "idle"]
    BY Zenon
  <2>2. c.at = "idle" /\ SameArray(call[t], c) /\ c.index = call[t].index /\ c.id = call[t].id
    BY <1>1, <2>1, Zenon DEF SameArray, ActivationType
  <2>3. call[t].at = "scan"
    BY <1>14, Zenon DEF Deliver, Delivering, At
  <2>4. Turn(call[t], c)
    BY <2>2, <2>3, Zenon DEF Turn, Holds
  <2>5. QED
    BY <1>3, <1>14, <2>1, <2>4, Zenon DEF Deliver
<1> HIDE DEF Goal
<1>15. (\E t \in Threads : ScanOutOfBounds(t) \/ InjectPanics(t)) \/ Finished \/ UNCHANGED vars
         => UNCHANGED call
  BY Zenon DEF ScanOutOfBounds, InjectPanics, Finished, vars
<1>16. UNCHANGED call \/ Goal
  BY <1>4, <1>5, <1>6, <1>7, <1>8, <1>9, <1>11, <1>12, <1>13, <1>14, <1>15, Zenon DEF Next, Step
<1>17. QED
  BY <1>16, Zenon DEF Goal
-------------------------------------------------------------------------------
(* Inserting a personality of the XML keeps what the caller supplied: those *)
(* behind the insertion move by one place.                                  *)
LEMMA SetObjectKeeps ==
  ASSUME NEW array \in Seq(Driver), NEW ids \in Seq(Identifiers \cup {Other}),
         NEW i \in Nat, i <= Len(array), NEW driver \in Driver, driver.xml > 0,
         HoldsSupplied(array, ids)
  PROVE  HoldsSupplied(SetObject(array, i, driver), ids)
<1>1. PICK a : a = SetObject(array, i, driver)
  OBVIOUS
<1>2. /\ a \in Seq(Driver) /\ Len(a) = Len(array) + 1
      /\ \A k \in 1..i : a[k] = array[k]
      /\ a[i + 1] = driver
      /\ \A k \in (i + 1)..Len(array) : a[k + 1] = array[k]
  <2>1. Shifted(SetObject(array, i, driver), array, i, driver)
    BY SetObjectShifts, Zenon
  <2> QED
    BY <1>1, <2>1, Zenon DEF Shifted
<1>3. PICK place \in [DOMAIN ids -> DOMAIN array] :
        /\ \A j, k \in DOMAIN ids : j < k => place[j] < place[k]
        /\ \A k \in DOMAIN ids : array[place[k]] = [id |-> ids[k], xml |-> 0]
        /\ \A p \in DOMAIN array : array[p].xml = 0 => \E k \in DOMAIN ids : place[k] = p
  BY Zenon DEF HoldsSupplied
<1>4. DOMAIN array = 1..Len(array) /\ DOMAIN a = 1..(Len(array) + 1) /\ Len(array) \in Nat
  BY <1>2
<1>5. DOMAIN ids \subseteq Nat
  OBVIOUS
<1> DEFINE moved == [k \in DOMAIN ids |-> IF place[k] <= i THEN place[k] ELSE place[k] + 1]
<1>6. \A k \in DOMAIN ids : place[k] \in 1..Len(array)
  BY <1>3, <1>4, Zenon
<1>7. moved \in [DOMAIN ids -> DOMAIN a]
  BY <1>4, <1>6
<1>8. \A j, k \in DOMAIN ids : j < k => moved[j] < moved[k]
  BY <1>3, <1>4, <1>6
<1>9. \A k \in DOMAIN ids : a[moved[k]] = array[place[k]]
  <2> SUFFICES ASSUME NEW k \in DOMAIN ids PROVE a[moved[k]] = array[place[k]]
    OBVIOUS
  <2>1. CASE place[k] <= i
    BY <1>2, <1>4, <1>6, <2>1
  <2>2. CASE ~(place[k] <= i)
    <3>1. place[k] \in (i + 1)..Len(array)
      BY <1>4, <1>6, <2>2
    <3>2. moved[k] = place[k] + 1
      BY <2>2, Zenon
    <3> QED
      BY <1>2, <3>1, <3>2, Zenon
  <2>3. QED
    BY <2>1, <2>2, Zenon
<1>10. ASSUME NEW p \in DOMAIN a, a[p].xml = 0
       PROVE  \E k \in DOMAIN ids : moved[k] = p
  <2>1. CASE p <= i
    <3>1. p \in DOMAIN array /\ array[p].xml = 0
      BY <1>2, <1>4, <1>10, <2>1
    <3>2. PICK k \in DOMAIN ids : place[k] = p
      BY <1>3, <3>1, Zenon
    <3> QED
      BY <2>1, <3>2, Zenon
  <2>2. CASE p = i + 1
    <3>1. a[p] = driver
      BY <1>2, <2>2, Zenon
    <3>2. driver.xml # 0
      BY DEF Driver
    <3> QED
      BY <1>10, <3>1, <3>2, Zenon
  <2>3. CASE p > i + 1
    <3>1. p - 1 \in (i + 1)..Len(array) /\ (p - 1) + 1 = p
      BY <1>4, <2>3
    <3>2. a[p] = array[p - 1]
      BY <1>2, <3>1, SMTT(30)
    <3>3. p - 1 \in DOMAIN array /\ array[p - 1].xml = 0
      BY <1>4, <1>10, <3>1, <3>2
    <3>4. PICK k \in DOMAIN ids : place[k] = p - 1
      BY <1>3, <3>3, Zenon
    <3> QED
      BY <3>1, <3>4, <1>4
  <2>4. QED
    BY <1>4, <2>1, <2>2, <2>3
<1> HIDE DEF moved
<1>11. \A k \in DOMAIN ids : a[moved[k]] = [id |-> ids[k], xml |-> 0]
  BY <1>3, <1>9, Zenon
<1>12. HoldsSupplied(a, ids)
  BY <1>7, <1>8, <1>10, <1>11, Zenon DEF HoldsSupplied
<1>13. QED
  BY <1>1, <1>12, Zenon

(* A caller's array holds what the caller supplied.                         *)
LEMMA SuppliedKeeps ==
  ASSUME NEW ids \in Seq(Identifiers \cup {Other})
  PROVE  HoldsSupplied(Supplied(ids), ids)
<1> DEFINE place == [k \in DOMAIN ids |-> k]
<1>1. DOMAIN Supplied(ids) = DOMAIN ids
  BY Zenon DEF Supplied
<1>2. place \in [DOMAIN ids -> DOMAIN Supplied(ids)]
  BY <1>1, Zenon
<1>3. \A k \in DOMAIN ids : Supplied(ids)[place[k]] = [id |-> ids[k], xml |-> 0]
  BY Zenon DEF Supplied
<1>4. \A k \in DOMAIN ids : place[k] = k
  OBVIOUS
<1> HIDE DEF place
<1>5. \A j, k \in DOMAIN ids : j < k => place[j] < place[k]
  BY <1>4, Zenon
<1>6. \A p \in DOMAIN Supplied(ids) : Supplied(ids)[p].xml = 0 =>
        \E k \in DOMAIN ids : place[k] = p
  BY <1>1, <1>4, Zenon
<1>7. QED
  BY <1>2, <1>3, <1>5, <1>6, Zenon DEF HoldsSupplied

(* What a caller supplied is in its array, in order, throughout the call.   *)
KeptInv == TypeInv /\ \A t \in Threads : HoldsSupplied(call[t].array, call[t].given)

(* Every step keeps it: only an insertion changes an array.                 *)
LEMMA KeptStep == KeptInv /\ [Next]_vars => KeptInv'
<1> SUFFICES ASSUME KeptInv, [Next]_vars PROVE KeptInv'
  OBVIOUS
<1>1. TypeInv /\ TypeInv'
  BY TypeInvStep, Zenon DEF KeptInv
<1>2. \A t \in Threads : HoldsSupplied(call[t].array, call[t].given)
  BY Zenon DEF KeptInv
<1>3. CASE UNCHANGED call
  BY <1>1, <1>2, <1>3, Zenon DEF KeptInv
<1>4. ASSUME NEW t \in Threads, Turn(call[t], call'[t]) 
      PROVE  HoldsSupplied(call'[t].array, call'[t].given)
  <2>1. PICK o, c : o = call[t] /\ c = call'[t]
    OBVIOUS
  <2>2. HoldsSupplied(o.array, o.given) /\ Turn(o, c) /\ o \in ActivationType
    BY <1>1, <1>2, <1>4, <2>1, Zenon DEF TypeInv, TypeOK
  <2>8. o.at \in Working => o.id \in Identifiers
    BY <1>1, <2>1, Zenon DEF TypeInv, IdKnown
  <2>3. CASE Enters(o, c)
    <3>1. PICK ids \in Inputs : c = Activation("scan", ids)
      BY <2>3, Zenon DEF Enters
    <3>2. c.array = Supplied(ids) /\ c.given = ids
      BY <3>1, Zenon DEF Activation
    <3> QED
      BY <2>1, <3>2, SuppliedKeeps, InputAssumption, Zenon
  <2>4. CASE c.given = o.given /\ c.array = o.array
    BY <2>1, <2>2, <2>4, Zenon
  <2>5. CASE Puts(o, c)
    <3>1. /\ o.array \in Seq(Driver) /\ o.given \in Seq(Identifiers \cup {Other})
          /\ o.index \in Nat /\ o.done \in Nat /\ o.id \in Identifiers \cup {Other}
      BY <2>2, Zenon DEF ActivationType
    <3>2. PICK d : d = [id |-> o.id, xml |-> o.done + 1]
      BY Zenon
    <3>3. d \in Driver /\ d.xml > 0
      BY <3>1, <3>2 DEF Driver
    <3>4. /\ o.index <= Len(o.array) /\ c.given = o.given
          /\ c.array = SetObject(o.array, o.index, d)
      BY <2>5, <3>2, Zenon DEF Puts, Grows
    <3> QED
      BY <2>1, <2>2, <3>1, <3>3, <3>4, SetObjectKeeps
  <2>6. QED
    BY <2>2, <2>3, <2>4, <2>5, Zenon
       DEF Turn, Passes, Finds, Holds, Starts, Fails, Grows, Ends, SameArray
<1>5. ASSUME NEW t \in Threads, Turn(call[t], call'[t]),
             \A u \in Threads \ {t} : call'[u] = call[u]
      PROVE  KeptInv'
  <2>1. \A u \in Threads \ {t} : HoldsSupplied(call'[u].array, call'[u].given)
    BY <1>2, <1>5, Zenon
  <2>2. \A u \in Threads : HoldsSupplied(call'[u].array, call'[u].given)
    BY <1>4, <1>5, <2>1, Zenon
  <2>3. QED
    BY <1>1, <2>2, Zenon DEF KeptInv
<1>6. QED
  BY <1>1, <1>3, <1>5, StepIsTurn, Zenon

(* The personalities a caller passes reach the original addDrivers, all of  *)
(* them and in their order, wherever the kext inserts its own in between    *)
(* and whichever insertions fail.                                           *)
THEOREM SuppliedSurvive == Spec => []SuppliedDriversKept
<1>1. Init => KeptInv
  <2> SUFFICES ASSUME Init PROVE KeptInv
    OBVIOUS
  <2>1. <<>> \in Seq(Identifiers \cup {Other})
    OBVIOUS
  <2>2. HoldsSupplied(Supplied(<<>>), <<>>)
    BY <2>1, SuppliedKeeps, Zenon
  <2>3. \A t \in Threads : call[t].array = Supplied(<<>>) /\ call[t].given = <<>>
    BY Zenon DEF Init, Activation
  <2>4. QED
    BY <2>2, <2>3, TypeInvInit, Zenon DEF KeptInv
<1>2. KeptInv => SuppliedDriversKept
  BY Zenon DEF KeptInv, SuppliedDriversKept
<1>3. QED
  BY <1>1, <1>2, KeptStep, PTL DEF Spec
-------------------------------------------------------------------------------
(* The bundles that need no more: served, or not of the table.              *)
Settled == {i \in Identifiers \cup {Other} : i # Other => Served(i)}

(* The turns left, count - index, are those of the array as given, although *)
(* both counters move with every insertion, and one is left while the       *)
(* matched personality is not passed.                                       *)
Bounded(c) ==
  /\ Len(c.array) <= c.count /\ c.index <= c.count
  /\ c.count <= c.index + Len(c.given)
  /\ c.at \in Working => c.index < c.count

(* While no insertion failed, the array from index on is the rest of what   *)
(* the caller gave, and every personality passed is settled (S).            *)
InStep(c, S) ==
  c.count = Len(c.array) =>
    /\ \A k \in DOMAIN c.array : k > c.index =>
         c.array[k] = [id |-> c.given[k + Len(c.given) - c.count], xml |-> 0]
    /\ \A k \in DOMAIN c.given : k + c.count <= Len(c.given) + c.index => c.given[k] \in S
    /\ c.at \in Working => c.id = c.given[c.index + Len(c.given) - c.count + 1]
    /\ c.at \in {"inject", "insert"} => c.id \in S

(* Once an insertion failed, the count is ahead of the array: getObject     *)
(* gives null before the loop ends, unless this is the last turn.           *)
OutOfStep(c, S) ==
  /\ c.count > Len(c.array)
  /\ c.index = c.count \/ (c.at \in Working /\ c.index + 1 = c.count)
  => \A k \in DOMAIN c.given : c.given[k] \in S

Progress(c, S) == Bounded(c) /\ InStep(c, S) /\ OutOfStep(c, S)

(* Progress is kept by every turn that settles what it passes.              *)
LEMMA TurnProgress ==
  ASSUME NEW o \in ActivationType, NEW c \in ActivationType, Turn(o, c),
         NEW S, NEW T, S \subseteq T, Progress(o, S),
         Passes(o, c) => o.array[o.index + 1].id \in S,
         c.at = "inject" => c.id \in T
  PROVE  Progress(c, T)
<1>1. /\ o.array \in Seq(Driver) /\ o.given \in Seq(Identifiers \cup {Other})
      /\ o.index \in Nat /\ o.count \in Nat /\ o.done \in Nat
      /\ c.array \in Seq(Driver) /\ c.given \in Seq(Identifiers \cup {Other})
      /\ c.index \in Nat /\ c.count \in Nat /\ c.done \in Nat
      /\ o.id \in Identifiers \cup {Other}
  BY Zenon DEF ActivationType
<1>2. /\ Len(o.array) \in Nat /\ Len(o.given) \in Nat
      /\ Len(c.array) \in Nat /\ Len(c.given) \in Nat
      /\ DOMAIN o.array = 1..Len(o.array) /\ DOMAIN o.given = 1..Len(o.given)
      /\ DOMAIN c.array = 1..Len(c.array) /\ DOMAIN c.given = 1..Len(c.given)
  BY <1>1, SMTT(30)
<1>0. /\ o.index \in Nat /\ o.count \in Nat /\ c.index \in Nat /\ c.count \in Nat
      /\ Len(o.array) \in Nat /\ Len(o.given) \in Nat
      /\ Len(c.array) \in Nat /\ Len(c.given) \in Nat
  BY <1>1, <1>2, Zenon
<1>13. PICK i \in Nat, n \in Nat, m \in Nat, l \in Nat :
         o.index = i /\ Len(o.given) = n /\ o.count = m /\ Len(o.array) = l
  BY <1>0, Zenon
<1>3. Bounded(o) /\ InStep(o, S) /\ OutOfStep(o, S)
  BY Zenon DEF Progress
<1>4. "scan" \notin Working /\ "idle" \notin Working /\ "insert" \in Working
  BY Zenon DEF Working
<1>5. CASE Enters(o, c)
  <2>1. PICK ids \in Inputs : c = Activation("scan", ids)
    BY <1>5, Zenon DEF Enters
  <2>2. /\ c.given = ids /\ c.array = Supplied(ids) /\ c.index = 0 /\ c.count = Len(ids)
        /\ c.at = "scan"
    BY <2>1, Zenon DEF Activation
  <2>3. ids \in Seq(Identifiers \cup {Other}) /\ Len(ids) \in Nat
    BY InputAssumption
  <2>4. /\ DOMAIN c.array = 1..Len(ids)
        /\ \A k \in 1..Len(ids) : c.array[k] = [id |-> ids[k], xml |-> 0]
    BY <2>2, <2>3 DEF Supplied
  <2>5. Len(c.array) = Len(ids)
    BY <1>2, <2>3, <2>4
  <2>6. Bounded(c)
    BY <1>4, <2>2, <2>3, <2>5 DEF Bounded
  <2>7. \A k \in 1..Len(ids) : k + Len(ids) - Len(ids) = k
    BY <2>3
  <2>8. InStep(c, T)
    BY <1>4, <1>2, <2>2, <2>3, <2>4, <2>7 DEF InStep
  <2>9. OutOfStep(c, T)
    BY <2>2, <2>3, <2>5 DEF OutOfStep
  <2>10. QED
    BY <2>6, <2>8, <2>9, Zenon DEF Progress
<1>6. CASE Passes(o, c)
  <2>1. /\ o.at = "scan" /\ c.at = "scan" /\ o.index < o.count /\ o.index < Len(o.array)
        /\ c.given = o.given /\ c.array = o.array /\ c.count = o.count /\ c.index = o.index + 1
    BY <1>6, Zenon DEF Passes, SameArray, Inside
  <2>2. Bounded(c)
    BY <1>1, <1>2, <1>3, <1>4, <2>1, SMTT(30) DEF Bounded
  <2>3. ASSUME c.count = Len(c.array), NEW k \in DOMAIN c.given,
               k + c.count <= Len(c.given) + c.index
        PROVE  c.given[k] \in T
    <3>1. CASE k + o.count <= Len(o.given) + o.index
      BY <1>3, <2>1, <2>3, <3>1, Zenon DEF InStep
    <3>2. CASE ~(k + o.count <= Len(o.given) + o.index)
      <4>0. k \in Nat /\ k + o.count <= Len(o.given) + (o.index + 1)
        BY <1>2, <2>1, <2>3
      <4>1. k = (o.index + 1) + Len(o.given) - o.count
        <5>1. k = (i + 1) + n - m
          BY <1>13, <3>2, <4>0
        <5> QED
          BY <1>13, <5>1, Zenon
      <4>2. o.index + 1 \in DOMAIN o.array /\ o.index + 1 > o.index
        BY <1>1, <1>2, <2>1
      <4>3. o.array[o.index + 1] = [id |-> o.given[k], xml |-> 0]
        BY <1>3, <2>1, <2>3, <4>1, <4>2, Zenon DEF InStep
      <4>4. o.given[k] \in S
        BY <1>6, <4>3
      <4> QED
        BY <2>1, <4>4, Zenon
    <3> QED
      BY <3>1, <3>2, Zenon
  <2>4. InStep(c, T)
    <3>1. c.count = Len(c.array) => \A k \in DOMAIN c.array : k > c.index =>
            c.array[k] = [id |-> c.given[k + Len(c.given) - c.count], xml |-> 0]
      BY <1>1, <1>2, <1>3, <2>1 DEF InStep
    <3> QED
      BY <1>4, <2>1, <2>3, <3>1, Zenon DEF InStep
  <2>5. OutOfStep(c, T)
    BY <1>1, <1>2, <1>4, <2>1 DEF OutOfStep
  <2>6. QED
    BY <2>2, <2>4, <2>5, Zenon DEF Progress
<1>7. CASE Finds(o, c)
  <2>1. /\ o.at = "scan" /\ c.at = "matched" /\ o.index < o.count /\ o.index < Len(o.array)
        /\ c.given = o.given /\ c.array = o.array /\ c.count = o.count /\ c.index = o.index
        /\ c.id = o.array[o.index + 1].id
    BY <1>7, Zenon DEF Finds, SameArray, Inside
  <2>2. Bounded(c)
    BY <1>3, <2>1, Zenon DEF Bounded
  <2>3. ASSUME c.count = Len(c.array)
        PROVE  c.id = c.given[c.index + Len(c.given) - c.count + 1]
    <3>1. o.index + 1 \in DOMAIN o.array /\ o.index + 1 > o.index
      BY <1>1, <1>2, <2>1, SMTT(30)
    <3>2. (o.index + 1) + Len(o.given) - o.count = o.index + Len(o.given) - o.count + 1
      <4>1. (i + 1) + n - m = i + n - m + 1
        OBVIOUS
      <4> QED
        BY <1>13, <4>1, Zenon
    <3>3. o.array[o.index + 1]
            = [id |-> o.given[(o.index + 1) + Len(o.given) - o.count], xml |-> 0]
      BY <1>3, <2>1, <2>3, <3>1, SMTT(30) DEF InStep
    <3> QED
      BY <2>1, <3>2, <3>3
  <2>4. InStep(c, T)
    BY <1>3, <2>1, <2>3 DEF InStep
  <2>5. OutOfStep(c, T)
    BY <1>1, <1>2, <2>1, SMTT(30) DEF OutOfStep
  <2>6. QED
    BY <2>2, <2>4, <2>5 DEF Progress
<1>8. CASE Holds(o, c) \/ Starts(o, c)
  <2>1. /\ c.given = o.given /\ c.array = o.array /\ c.count = o.count
        /\ c.index = o.index /\ c.id = o.id
    BY <1>8, Zenon DEF Holds, Starts, SameArray
  <2>2. c.at \in Working => o.at \in Working
    BY <1>8, Zenon DEF Holds, Starts, Working, Testing
  <2>3. c.at \in {"inject", "insert"} => c.at = "inject" \/ o.at = "inject"
    BY <1>8, Zenon DEF Holds, Starts
  <2>4. Bounded(c)
    BY <1>3, <2>1, <2>2, SMTT(30) DEF Bounded
  <2>5. InStep(c, T)
    BY <1>3, <2>1, <2>2, <2>3, Zenon DEF InStep
  <2>6. OutOfStep(c, T)
    BY <1>3, <2>1, <2>2, Zenon DEF OutOfStep
  <2>7. QED
    BY <2>4, <2>5, <2>6 DEF Progress
<1>9. CASE Puts(o, c)
  <2>1. /\ o.at = "insert" /\ c.at = "insert" /\ c.given = o.given /\ c.id = o.id
        /\ c.index = o.index + 1 /\ c.count = o.count + 1 /\ o.index <= Len(o.array)
        /\ c.array = SetObject(o.array, o.index, [id |-> o.id, xml |-> o.done + 1])
    BY <1>9, Zenon DEF Puts, Grows
  <2>2. PICK d \in Driver : c.array = SetObject(o.array, o.index, d)
    <3>1. [id |-> o.id, xml |-> o.done + 1] \in Driver
      BY <1>1 DEF Driver
    <3> QED
      BY <2>1, <3>1, Zenon
  <2>3. /\ Len(c.array) = Len(o.array) + 1
        /\ \A k \in (o.index + 1)..Len(o.array) : c.array[k + 1] = o.array[k]
    <3>1. PICK a, x : a = o.array /\ x = o.index
      OBVIOUS
    <3>2. a \in Seq(Driver) /\ x \in Nat /\ x <= Len(a)
      BY <1>1, <2>1, <3>1, Zenon
    <3>3. PICK b : b = SetObject(a, x, d)
      OBVIOUS
    <3>4. Len(b) = Len(a) + 1 /\ \A k \in (x + 1)..Len(a) : b[k + 1] = a[k]
      <4>1. Shifted(SetObject(a, x, d), a, x, d)
        BY <3>2, SetObjectShifts, Zenon
      <4> QED
        BY <3>3, <4>1, Zenon DEF Shifted
    <3> QED
      BY <2>2, <3>1, <3>3, <3>4, Zenon
  <2>4. Bounded(c)
    <3>1. Len(o.array) <= o.count /\ o.index < o.count /\ o.count <= o.index + Len(o.given)
      BY <1>3, <1>4, <2>1, Zenon DEF Bounded
    <3>2. /\ Len(c.array) <= c.count /\ c.index < c.count
          /\ c.count <= c.index + Len(o.given)
      <4>1. l <= m /\ i < m /\ m <= i + n
        BY <1>13, <3>1, Zenon
      <4>2. l + 1 <= m + 1 /\ i + 1 < m + 1 /\ m + 1 <= (i + 1) + n
        BY <4>1
      <4> QED
        BY <1>13, <2>1, <2>3, <4>2, Zenon
    <3> QED
      BY <1>0, <2>1, <3>2, SMTT(30) DEF Bounded
  <2>5. ASSUME c.count = Len(c.array), NEW k \in DOMAIN c.array, k > c.index
        PROVE  c.array[k] = [id |-> c.given[k + Len(c.given) - c.count], xml |-> 0]
    <3>1. PICK j \in (o.index + 1)..Len(o.array) : k = j + 1
      <4>0. k \in 1..(Len(o.array) + 1) /\ k > o.index + 1
        BY <1>2, <2>1, <2>3, <2>5, Zenon
      <4>1. k - 1 \in (i + 1)..l /\ k = (k - 1) + 1
        BY <1>13, <4>0
      <4> QED
        BY <1>13, <4>1, SMTT(30)
    <3>2. o.count = Len(o.array) /\ j \in DOMAIN o.array /\ j > o.index
      <4>1. o.count = Len(o.array)
        BY <1>0, <2>1, <2>3, <2>5
      <4>2. j \in 1..Len(o.array) /\ j > o.index
        BY <1>0, SMTT(30)
      <4> QED
        BY <1>2, <4>1, <4>2, Zenon
    <3>3. o.array[j] = [id |-> o.given[j + Len(o.given) - o.count], xml |-> 0]
      BY <1>3, <3>2, Zenon DEF InStep
    <3>4. j + Len(o.given) - o.count = k + Len(c.given) - c.count
      <4>1. j \in Nat
        BY <1>0, SMTT(30)
      <4>2. j + Len(o.given) - o.count = (j + 1) + Len(o.given) - (o.count + 1)
        <5>1. j + n - m = (j + 1) + n - (m + 1)
          BY <4>1
        <5> QED
          BY <1>13, <5>1, Zenon
      <4> QED
        BY <2>1, <3>1, <4>2, Zenon
    <3> QED
      BY <2>1, <2>3, <3>1, <3>3, <3>4, Zenon
  <2>6. c.count = Len(c.array) => o.count = Len(o.array)
    BY <1>0, <2>1, <2>3
  <2>7. \A k \in DOMAIN c.given : k + c.count <= Len(c.given) + c.index
          => k + o.count <= Len(o.given) + o.index
    <3>1. \A k \in Nat : k + (m + 1) <= n + (i + 1) => k + m <= n + i
      OBVIOUS
    <3>2. DOMAIN c.given \subseteq Nat
      BY <1>2
    <3> QED
      BY <1>13, <2>1, <3>1, <3>2, Zenon
  <2>8. c.index + Len(c.given) - c.count + 1 = o.index + Len(o.given) - o.count + 1
    <3>1. (o.index + 1) + Len(o.given) - (o.count + 1) + 1
            = o.index + Len(o.given) - o.count + 1
      <4>1. (i + 1) + n - (m + 1) + 1 = i + n - m + 1
        BY SMTT(30)
      <4> QED
        BY <1>13, <4>1, Zenon
    <3> QED
      BY <2>1, <3>1, Zenon
  <2>9. InStep(c, T)
    <3>1. ASSUME c.count = Len(c.array)
          PROVE  /\ \A k \in DOMAIN c.given : k + c.count <= Len(c.given) + c.index
                       => c.given[k] \in T
                 /\ c.id = c.given[c.index + Len(c.given) - c.count + 1]
                 /\ c.id \in T
      BY <1>3, <1>4, <2>1, <2>6, <2>7, <2>8, <3>1, Zenon DEF InStep
    <3> QED
      BY <2>5, <3>1, SMTT(30) DEF InStep
  <2>10. OutOfStep(c, T)
    <3>1. ASSUME c.count > Len(c.array), c.index = c.count \/ c.index + 1 = c.count
          PROVE  \A k \in DOMAIN c.given : c.given[k] \in T
      <4>1. o.count > Len(o.array) /\ (o.index = o.count \/ o.index + 1 = o.count)
        BY <1>0, <2>1, <2>3, <3>1
      <4> QED
        BY <1>3, <1>4, <2>1, <4>1, SMTT(30) DEF OutOfStep
    <3> QED
      BY <3>1, SMTT(30) DEF OutOfStep
  <2>11. QED
    BY <2>4, <2>9, <2>10, Zenon DEF Progress
<1>10. CASE Fails(o, c)
  <2>1. /\ o.at = "insert" /\ c.at = "insert" /\ c.given = o.given /\ c.array = o.array
        /\ c.index = o.index + 1 /\ c.count = o.count + 1
    BY <1>10, Zenon DEF Fails, Grows
  <2>2. Len(o.array) <= o.count /\ o.index < o.count /\ o.count <= o.index + Len(o.given)
    BY <1>3, <1>4, <2>1, Zenon DEF Bounded
  <2>3. Bounded(c)
    BY <1>0, <2>1, <2>2, SMTT(30) DEF Bounded
  <2>4. InStep(c, T)
    BY <1>0, <2>1, <2>2, SMTT(30) DEF InStep
  <2>5. ASSUME o.index + 1 = o.count, NEW k \in DOMAIN c.given PROVE c.given[k] \in T
    <3>1. CASE o.count > Len(o.array)
      BY <1>3, <1>4, <2>1, <2>5, <3>1, SMTT(30) DEF OutOfStep
    <3>2. CASE o.count = Len(o.array) /\ k < Len(o.given)
      <4>1. k + o.count <= Len(o.given) + o.index
        BY <1>1, <1>2, <2>1, <2>5, <3>2, SMTT(30)
      <4> QED
        BY <1>3, <2>1, <3>2, <4>1, Zenon DEF InStep
    <3>3. CASE o.count = Len(o.array) /\ k = Len(o.given)
      <4>1. o.index + Len(o.given) - o.count + 1 = k
        <5>1. i + n - m + 1 = k
          BY <1>13, <2>5, <3>3
        <5> QED
          BY <1>13, <5>1, Zenon
      <4>2. o.id \in S /\ o.id = o.given[k]
        BY <1>3, <1>4, <2>1, <3>3, <4>1, Zenon DEF InStep
      <4> QED
        BY <2>1, <4>2, Zenon
    <3> QED
      BY <1>1, <1>2, <2>1, <2>2, <3>1, <3>2, <3>3, SMTT(30)
  <2>6. OutOfStep(c, T)
    BY <1>1, <1>2, <2>1, <2>2, <2>5, SMTT(30) DEF OutOfStep
  <2>7. QED
    BY <2>3, <2>4, <2>6 DEF Progress
<1>11. CASE Ends(o, c)
  <2>1. /\ o.at = "insert" /\ c.at = "scan" /\ c.given = o.given /\ c.array = o.array
        /\ c.index = o.index + 1 /\ c.count = o.count
    BY <1>11, Zenon DEF Ends, SameArray
  <2>2. Len(o.array) <= o.count /\ o.index < o.count /\ o.count <= o.index + Len(o.given)
    BY <1>3, <1>4, <2>1, Zenon DEF Bounded
  <2>3. Bounded(c)
    BY <1>0, <1>4, <2>1, <2>2, SMTT(30) DEF Bounded
  <2>4. ASSUME c.count = Len(c.array), NEW k \in DOMAIN c.given,
               k + c.count <= Len(c.given) + c.index
        PROVE  c.given[k] \in T
    <3>1. CASE k + o.count <= Len(o.given) + o.index
      BY <1>3, <2>1, <2>4, <3>1, Zenon DEF InStep
    <3>2. CASE ~(k + o.count <= Len(o.given) + o.index)
      <4>0. k \in Nat /\ k + o.count <= Len(o.given) + (o.index + 1)
        BY <1>2, <2>1, <2>4
      <4>1. k = o.index + Len(o.given) - o.count + 1
        <5>1. k = i + n - m + 1
          BY <1>13, <3>2, <4>0, SMTT(30)
        <5> QED
          BY <1>13, <5>1, Zenon
      <4>2. o.id \in S /\ o.id = o.given[k]
        BY <1>3, <1>4, <2>1, <2>4, <4>1, Zenon DEF InStep
      <4> QED
        BY <2>1, <4>2, Zenon
    <3> QED
      BY <3>1, <3>2
  <2>5. InStep(c, T)
    <3>1. c.count = Len(c.array) => \A k \in DOMAIN c.array : k > c.index =>
            c.array[k] = [id |-> c.given[k + Len(c.given) - c.count], xml |-> 0]
      BY <1>1, <1>2, <1>3, <2>1, SMTT(30) DEF InStep
    <3> QED
      BY <1>4, <2>1, <2>4, <3>1, Zenon DEF InStep
  <2>6. OutOfStep(c, T)
    BY <1>3, <1>4, <2>1, Zenon DEF OutOfStep
  <2>7. QED
    BY <2>3, <2>5, <2>6 DEF Progress
<1>12. QED
  BY <1>5, <1>6, <1>7, <1>8, <1>9, <1>10, <1>11, Zenon DEF Turn

ProgressInv == BitInv /\ \A t \in Threads : Progress(call[t], Settled)

(* Every step keeps every thread's progress: what is settled stays settled, *)
(* a personality passed over has its bit set, and a bit is earned.          *)
LEMMA ProgressStep == ProgressInv /\ [Next]_vars => ProgressInv'
<1> SUFFICES ASSUME ProgressInv, [Next]_vars PROVE ProgressInv'
  OBVIOUS
<1>1. /\ BitInv /\ BitInv' /\ TypeInv /\ TypeInv'
      /\ \A t \in Threads : Progress(call[t], Settled)
  BY BitInvStep, Zenon DEF ProgressInv, BitInv
<1>2. /\ \A t \in Threads : call[t] \in ActivationType
      /\ \A t \in Threads : call'[t] \in ActivationType
  BY <1>1, Zenon DEF TypeInv, TypeOK
<1>3. PICK S, T : S = Settled /\ T = Settled'
  OBVIOUS
<1>4. S \subseteq T
  BY <1>1, <1>3, ServedStable, Zenon DEF Settled
<1>5. \A c : Progress(c, S) => Bounded(c) /\ InStep(c, S) /\ OutOfStep(c, S)
  BY SMTT(30) DEF Progress
<1>6. ASSUME NEW c, Progress(c, S) PROVE Progress(c, T)
  BY <1>4, <1>6, Zenon DEF Progress, InStep, OutOfStep
<1>7. ASSUME NEW t \in Threads, Turn(call[t], call'[t]) PROVE Progress(call'[t], T)
  <2>1. PICK o, c : o = call[t] /\ c = call'[t]
    OBVIOUS
  <2>2. o \in ActivationType /\ c \in ActivationType /\ Turn(o, c) /\ Progress(o, S)
    BY <1>1, <1>2, <1>3, <1>7, <2>1, Zenon
  <2>3. ASSUME Passes(o, c) PROVE o.array[o.index + 1].id \in S
    <3>1. o.array \in Seq(Driver) /\ o.index \in Nat /\ o.index < Len(o.array)
      BY <2>2, <2>3, Zenon DEF ActivationType, Passes, Inside
    <3>2. PICK i : i = o.array[o.index + 1].id
      OBVIOUS
    <3>3. i \in Identifiers \cup {Other}
      <4>1. o.index + 1 \in 1..Len(o.array)
        BY <3>1
      <4>2. o.array[o.index + 1] \in Driver
        BY <3>1, <4>1
      <4> QED
        BY <3>2, <4>2, Zenon DEF Driver
    <3>4. ~Matches(i)
      BY <2>3, <3>2, Zenon DEF Passes
    <3>5. i # Other => i \in MatchedDrivers
      BY <3>3, <3>4, Zenon DEF Matches
    <3>6. i # Other => Served(i)
      BY <1>1, <3>5, Zenon DEF BitInv, BitMeansInjection
    <3> QED
      BY <1>3, <3>2, <3>3, <3>6, Zenon DEF Settled
  <2>4. ASSUME c.at = "inject" PROVE c.id \in T
    <3>1. Served(c.id)'
      BY <2>1, <2>4, Zenon DEF Served
    <3>2. c.id \in Identifiers \cup {Other}
      BY <2>2, Zenon DEF ActivationType
    <3> QED
      BY <1>3, <3>1, <3>2, Zenon DEF Settled
  <2>5. Progress(c, T)
    BY <1>4, <2>2, <2>3, <2>4, TurnProgress, Zenon
  <2>6. QED
    BY <2>1, <2>5, Zenon
<1>8. CASE UNCHANGED call
  <2>1. \A t \in Threads : Progress(call'[t], T)
    BY <1>1, <1>3, <1>6, <1>8, Zenon
  <2>2. QED
    BY <1>1, <1>3, <2>1, Zenon DEF ProgressInv
<1>9. ASSUME NEW t \in Threads, Turn(call[t], call'[t]),
             \A u \in Threads \ {t} : call'[u] = call[u]
      PROVE  ProgressInv'
  <2>1. \A u \in Threads \ {t} : Progress(call'[u], T)
    BY <1>1, <1>3, <1>6, <1>9, Zenon
  <2>2. \A u \in Threads : Progress(call'[u], T)
    BY <1>7, <1>9, <2>1, Zenon
  <2>3. QED
    BY <1>1, <1>3, <2>2, Zenon DEF ProgressInv
<1>10. QED
  BY <1>1, <1>8, <1>9, StepIsTurn, Zenon

(* A thread that has not called yet has nothing to settle.                  *)
LEMMA ProgressInit == Init => ProgressInv
<1> SUFFICES ASSUME Init PROVE ProgressInv
  OBVIOUS
<1>1. BitInv
  BY TypeInvInit, Zenon DEF BitInv, BitMeansInjection, SeenServed, Init, Activation
<1>2. ASSUME NEW t \in Threads PROVE Progress(call[t], Settled)
  <2>1. call[t] = Activation("idle", <<>>)
    BY Zenon DEF Init
  <2>2. /\ call[t].given = <<>> /\ call[t].index = 0 /\ call[t].count = 0
        /\ call[t].at = "idle" /\ call[t].array = Supplied(<<>>)
    BY <2>1 DEF Activation
  <2>3. call[t].array = <<>>
    BY <2>2 DEF Supplied
  <2>4. QED
    BY <2>2, <2>3 DEF Progress, Bounded, InStep, OutOfStep, Working
<1>3. QED
  BY <1>1, <1>2, SMTT(30) DEF ProgressInv

(* When WrapAddDrivers hands an array on, every bundle of the table in it   *)
(* was served by this thread or another one: for any number of threads, of  *)
(* bits lost to their races and of failed insertions.                       *)
THEOREM DeliversServed == Spec => []DeliveredMeansServed
<1>1. ProgressInv => DeliveredMeansServed
  <2> SUFFICES ASSUME ProgressInv, NEW t \in Threads, Delivering(t),
                      NEW k \in DOMAIN call[t].given, call[t].given[k] # Other
               PROVE  Served(call[t].given[k])
    BY Zenon DEF DeliveredMeansServed
  <2>1. /\ call[t] \in ActivationType
        /\ Bounded(call[t]) /\ InStep(call[t], Settled) /\ OutOfStep(call[t], Settled)
    BY Zenon DEF ProgressInv, BitInv, TypeInv, TypeOK, Progress
  <2>2. PICK c : c = call[t]
    OBVIOUS
  <2>3. /\ c.index \in Nat /\ c.count \in Nat /\ Len(c.array) \in Nat
        /\ Len(c.given) \in Nat /\ k \in 1..Len(c.given)
    BY <2>1, <2>2 DEF ActivationType
  <2>4. c.index >= c.count /\ c.index <= c.count /\ Len(c.array) <= c.count
    BY <2>1, <2>2, Zenon DEF Delivering, Bounded
  <2>5. c.index = c.count
    BY <2>3, <2>4
  <2>6. CASE c.count = Len(c.array)
    <3>1. k + c.count <= Len(c.given) + c.index
      BY <2>3, <2>5, SMTT(30)
    <3>2. c.given[k] \in Settled
      BY <2>1, <2>2, <2>6, <3>1, Zenon DEF InStep
    <3> QED
      BY <2>2, <3>2, Zenon DEF Settled
  <2>7. CASE c.count > Len(c.array)
    <3>1. c.given[k] \in Settled
      BY <2>1, <2>2, <2>5, <2>7, Zenon DEF OutOfStep
    <3> QED
      BY <2>2, <3>1 DEF Settled
  <2>8. QED
    BY <2>3, <2>4, <2>6, <2>7
<1>2. QED
  BY <1>1, ProgressInit, ProgressStep, PTL DEF Spec
-------------------------------------------------------------------------------
(* The length of the run being inserted, and the invariant of its loop:     *)
(* behind b passed personalities, all of them linked and the last one not   *)
(* of an XML, comes the part of the XML inserted so far.                    *)
Run(c) == IF c.at = "insert" THEN c.done ELSE 0

Whole(c) ==
  c.count = Len(c.array) =>
    \E b \in Nat :
      /\ c.index = b + Run(c)
      /\ \A k \in 1..b : Linked(c.array, k)
      /\ b > 0 => c.array[b].xml = 0
      /\ c.at = "insert" => XML[c.id] \in Nat /\ c.done <= XML[c.id]
      /\ \A j \in 1..Run(c) : c.array[b + j] = [id |-> c.id, xml |-> j]

(* Links in front of a supplied personality do not depend on what follows.  *)
LEMMA LinkedKept ==
  ASSUME NEW a \in Seq(Driver), NEW d \in Seq(Driver), NEW b \in Nat,
         b <= Len(a), Len(a) <= Len(d), \A k \in 1..b : d[k] = a[k],
         a[b].xml = 0, NEW k \in 1..b, Linked(a, k)
  PROVE  Linked(d, k)
<1> SUFFICES ASSUME d[k].xml > 0
             PROVE  /\ k < Len(d) /\ d[k + 1].id = d[k].id
                    /\ d[k + 1].xml = IF d[k].xml = XML[d[k].id] THEN 0 ELSE d[k].xml + 1
                    /\ d[k].xml > 1 => k > 1 /\ d[k - 1] = [d[k] EXCEPT !.xml = @ - 1]
  BY Zenon DEF Linked
<1>1. d[k] = a[k] /\ Len(a) \in Nat /\ Len(d) \in Nat
  OBVIOUS
<1>2. k # b
  BY <1>1
<1>3. k + 1 \in 1..b /\ k < Len(d) /\ (k > 1 => k - 1 \in 1..b)
  BY <1>1, <1>2
<1>4. d[k + 1] = a[k + 1] /\ (k > 1 => d[k - 1] = a[k - 1])
  BY <1>3, Zenon
<1>5. /\ a[k + 1].id = a[k].id
      /\ a[k + 1].xml = IF a[k].xml = XML[a[k].id] THEN 0 ELSE a[k].xml + 1
      /\ a[k].xml > 1 => k > 1 /\ a[k - 1] = [a[k] EXCEPT !.xml = @ - 1]
  BY <1>1, Zenon DEF Linked
<1>6. QED
  BY <1>1, <1>3, <1>4, <1>5, Zenon

(* Every turn keeps the runs whole.                                         *)
LEMMA TurnWhole ==
  ASSUME NEW o \in ActivationType, NEW c \in ActivationType, Turn(o, c), Whole(o),
         NEW S, Progress(o, S), o.at \in Working => o.id \in Identifiers
  PROVE  Whole(c)
<1> SUFFICES ASSUME c.count = Len(c.array)
             PROVE  \E b \in Nat :
                      /\ c.index = b + Run(c)
                      /\ \A k \in 1..b : Linked(c.array, k)
                      /\ b > 0 => c.array[b].xml = 0
                      /\ c.at = "insert" => XML[c.id] \in Nat /\ c.done <= XML[c.id]
                      /\ \A j \in 1..Run(c) : c.array[b + j] = [id |-> c.id, xml |-> j]
  BY Zenon DEF Whole
<1>1. /\ o.array \in Seq(Driver) /\ c.array \in Seq(Driver) /\ o.id \in Identifiers \cup {Other}
      /\ o.index \in Nat /\ o.count \in Nat /\ o.done \in Nat
      /\ Len(o.array) \in Nat /\ Len(c.array) \in Nat
      /\ DOMAIN o.array = 1..Len(o.array)
  BY DEF ActivationType
<1>2. Bounded(o) /\ InStep(o, S)
  BY Zenon DEF Progress
<1>3. ASSUME o.count = Len(o.array), o.index < o.count
      PROVE  /\ o.index + 1 \in DOMAIN o.array
             /\ o.array[o.index + 1].xml = 0
             /\ Linked(o.array, o.index + 1)
  <2>1. o.index + 1 \in DOMAIN o.array /\ o.index + 1 > o.index
    BY <1>1, <1>3
  <2>2. o.array[o.index + 1].xml = 0
    <3>1. o.array[o.index + 1]
            = [id |-> o.given[(o.index + 1) + Len(o.given) - o.count], xml |-> 0]
      BY <1>2, <1>3, <2>1, Zenon DEF InStep
    <3> QED
      BY <3>1
  <2>3. QED
    BY <2>1, <2>2 DEF Linked
<1>4. CASE Enters(o, c)
  <2>1. PICK ids \in Inputs : c = Activation("scan", ids)
    BY <1>4, Zenon DEF Enters
  <2>2. c.index = 0 /\ c.at = "scan"
    BY <2>1, Zenon DEF Activation
  <2>3. Run(c) = 0
    BY <2>2, Zenon DEF Run
  <2>4. /\ 0 \in Nat /\ c.index = 0 + Run(c) /\ 1..0 = {} /\ 1..Run(c) = {} /\ ~(0 > 0)
        /\ c.at # "insert"
    BY <2>2, <2>3, SMTT(30)
  <2>5. QED
    BY <2>4, Zenon
<1>5. CASE Passes(o, c)
  <2>1. /\ o.at = "scan" /\ c.at = "scan" /\ o.index < o.count
        /\ c.array = o.array /\ c.count = o.count /\ c.index = o.index + 1
    BY <1>5, Zenon DEF Passes, SameArray, Inside
  <2>2. Run(o) = 0 /\ Run(c) = 0
    BY <2>1, SMTT(30) DEF Run
  <2>3. PICK b \in Nat : o.index = b + Run(o) /\ \A k \in 1..b : Linked(o.array, k)
    BY <2>1, Zenon DEF Whole
  <2>4. o.index = b
    BY <2>2, <2>3
  <2>5. c.array[b + 1].xml = 0 /\ Linked(c.array, b + 1)
    BY <1>3, <2>1, <2>4, Zenon
  <2>6. \A k \in 1..(b + 1) : Linked(c.array, k)
    <3>1. \A k \in 1..(b + 1) : k \in 1..b \/ k = b + 1
      OBVIOUS
    <3> QED
      BY <2>1, <2>3, <2>5, <3>1, Zenon
  <2>7. b + 1 \in Nat /\ c.index = (b + 1) + Run(c) /\ 1..Run(c) = {}
    BY <2>1, <2>2, <2>4, SMTT(30)
  <2>8. QED
    BY <2>1, <2>5, <2>6, <2>7, Zenon
<1>6. CASE Finds(o, c) \/ Holds(o, c) \/ Starts(o, c)
  <2>1. /\ c.array = o.array /\ c.count = o.count /\ c.index = o.index
        /\ o.at # "insert" /\ (c.at = "insert" => c.done = 0 /\ XML[c.id] \in Nat)
    BY <1>6, Zenon DEF Finds, Holds, Starts, SameArray, Testing
  <2>2. Run(o) = 0 /\ Run(c) = 0
    BY <2>1, SMTT(30) DEF Run
  <2>3. PICK b \in Nat : /\ o.index = b + Run(o) /\ \A k \in 1..b : Linked(o.array, k)
                         /\ b > 0 => o.array[b].xml = 0
    BY <2>1, Zenon DEF Whole
  <2>4. c.at = "insert" => XML[c.id] \in Nat /\ c.done <= XML[c.id]
    BY <2>1
  <2>5. 1..Run(c) = {}
    BY <2>2, SMTT(30)
  <2>6. QED
    BY <2>1, <2>2, <2>3, <2>4, <2>5, SMTT(30)
<1>7. CASE Puts(o, c)
  <2>1. /\ o.at = "insert" /\ c.at = "insert" /\ c.id = o.id
        /\ c.index = o.index + 1 /\ c.count = o.count + 1 /\ o.index <= Len(o.array)
        /\ o.done < XML[o.id] /\ c.done = o.done + 1
        /\ c.array = SetObject(o.array, o.index, [id |-> o.id, xml |-> o.done + 1])
    BY <1>7, Zenon DEF Puts, Grows
  <2>2. PICK d \in Driver : d = [id |-> o.id, xml |-> o.done + 1]
    <3>1. [id |-> o.id, xml |-> o.done + 1] \in Driver
      BY <1>1 DEF Driver
    <3> QED
      BY <3>1, Zenon
  <2>3. /\ Len(c.array) = Len(o.array) + 1
        /\ \A k \in 1..o.index : c.array[k] = o.array[k]
        /\ c.array[o.index + 1] = d
    <3>1. PICK a, i : a = o.array /\ i = o.index
      BY SMTT(30)
    <3>2. a \in Seq(Driver) /\ i \in Nat /\ i <= Len(a)
      BY <1>1, <2>1, <3>1, Zenon
    <3>3. PICK e : e = SetObject(a, i, d)
      OBVIOUS
    <3>4. Len(e) = Len(a) + 1 /\ (\A k \in 1..i : e[k] = a[k]) /\ e[i + 1] = d
      BY <3>2, <3>3, SetObjectShifts DEF Shifted
    <3>5. c.array = e
      BY <2>1, <2>2, <3>1, <3>3, Zenon
    <3> QED
      BY <3>1, <3>4, <3>5, Zenon
  <2>4. o.count = Len(o.array)
    <3>1. o.count \in Nat /\ Len(o.array) \in Nat
      BY <1>1, Zenon
    <3>2. o.count + 1 = Len(o.array) + 1
      BY <2>1, <2>3, Zenon
    <3> QED
      BY <3>1, <3>2
  <2>5. Run(o) = o.done /\ Run(c) = o.done + 1
    BY <2>1, SMTT(30) DEF Run
  <2>6. PICK b \in Nat : /\ o.index = b + o.done /\ \A k \in 1..b : Linked(o.array, k)
                         /\ b > 0 => o.array[b].xml = 0
                         /\ XML[o.id] \in Nat
                         /\ \A j \in 1..o.done : o.array[b + j] = [id |-> o.id, xml |-> j]
    BY <2>1, <2>4, <2>5, SMTT(30) DEF Whole
  <2>7. b <= o.index /\ b <= Len(o.array)
    BY <1>1, <2>1, <2>6, SMTT(30)
  <2>8. \A k \in 1..b : c.array[k] = o.array[k]
    BY <1>1, <2>3, <2>7
  <2>9. \A k \in 1..b : Linked(c.array, k)
    <3> SUFFICES ASSUME NEW k \in 1..b PROVE Linked(c.array, k)
      BY SMTT(30)
    <3>1. o.array[b].xml = 0 /\ Len(o.array) <= Len(c.array)
      BY <1>1, <2>3, <2>6, SMTT(30)
    <3>2. Linked(o.array, k)
      BY <2>6, SMTT(30)
    <3> QED
      BY <1>1, <2>7, <2>8, <3>1, <3>2, LinkedKept, Zenon
  <2>10. b > 0 => c.array[b].xml = 0
    BY <2>6, <2>8, SMTT(30)
  <2>11. c.index = b + Run(c) /\ c.done <= XML[c.id] /\ XML[c.id] \in Nat
    <3>1. o.index \in Nat /\ o.done \in Nat
      BY <1>1, Zenon
    <3>2. (b + o.done) + 1 = b + (o.done + 1)
      BY <3>1
    <3>3. c.index = b + Run(c)
      BY <2>1, <2>5, <2>6, <3>2, Zenon
    <3>4. XML[o.id] \in Nat /\ o.done < XML[o.id] /\ c.id = o.id /\ c.done = o.done + 1
      BY <2>1, <2>6, Zenon
    <3> QED
      BY <3>1, <3>3, <3>4, SMTT(30)
  <2>12. ASSUME NEW j \in 1..Run(c) PROVE c.array[b + j] = [id |-> c.id, xml |-> j]
    <3>1. CASE j \in 1..o.done
      <4>1. b + j \in 1..o.index
        BY <1>1, <2>6, <3>1
      <4>2. c.array[b + j] = o.array[b + j]
        BY <2>3, <4>1, Zenon
      <4>3. o.array[b + j] = [id |-> o.id, xml |-> j]
        BY <2>6, <3>1, Zenon
      <4> QED
        BY <2>1, <4>2, <4>3, Zenon
    <3>2. CASE j = o.done + 1
      <4>1. b + j = o.index + 1
        BY <1>1, <2>6, <3>2, SMTT(30)
      <4> QED
        BY <2>1, <2>2, <2>3, <3>2, <4>1, SMTT(30)
    <3> QED
      BY <1>1, <2>5, <3>1, <3>2
  <2>13. QED
    BY <2>9, <2>10, <2>11, <2>12, SMTT(30)
<1>8. CASE Fails(o, c)
  <2>1. c.array = o.array /\ c.count = o.count + 1 /\ Len(o.array) <= o.count
    BY <1>2, <1>8, SMTT(30) DEF Fails, Grows, Bounded
  <2>2. QED
    BY <1>1, <2>1, SMTT(30)
<1>9. CASE Ends(o, c)
  <2>1. /\ o.at = "insert" /\ c.at = "scan" /\ c.array = o.array /\ c.count = o.count
        /\ c.index = o.index + 1 /\ o.done = XML[o.id]
    BY <1>9, SMTT(30) DEF Ends, SameArray
  <2>2. o.index < o.count /\ o.count = Len(o.array)
    BY <1>2, <2>1, Zenon DEF Bounded, Working
  <2>3. Run(o) = o.done /\ Run(c) = 0
    BY <2>1, SMTT(30) DEF Run
  <2>4. PICK b \in Nat : /\ o.index = b + o.done /\ \A k \in 1..b : Linked(o.array, k)
                         /\ \A j \in 1..o.done : o.array[b + j] = [id |-> o.id, xml |-> j]
    BY <2>2, <2>3, SMTT(30) DEF Whole
  <2>5. /\ o.array[o.index + 1].xml = 0 /\ Linked(o.array, o.index + 1)
        /\ o.array[o.index + 1].id = o.id
    <3>1. o.index + 1 \in DOMAIN o.array /\ o.index + 1 > o.index
      BY <1>1, <2>2, SMTT(30)
    <3>2. o.array[o.index + 1]
            = [id |-> o.given[(o.index + 1) + Len(o.given) - o.count], xml |-> 0]
      BY <1>2, <2>2, <3>1, SMTT(30) DEF InStep
    <3>3. o.id = o.given[o.index + Len(o.given) - o.count + 1]
      BY <1>2, <2>1, <2>2, Zenon DEF InStep, Working
    <3>4. PICK i \in Nat, n \in Nat, m \in Nat : o.index = i /\ Len(o.given) = n /\ o.count = m
      BY <1>1, SMTT(30) DEF ActivationType
    <3>5. (i + 1) + n - m = i + n - m + 1
      OBVIOUS
    <3>6. o.array[o.index + 1].id = o.id
      BY <3>2, <3>3, <3>4, <3>5
    <3> QED
      BY <1>3, <2>2, <3>6, Zenon
  <2>6. ASSUME NEW j \in 1..o.done PROVE Linked(o.array, b + j)
    <3>1. PICK a, k : a = o.array /\ k = b + j
      OBVIOUS
    <3>2. k \in Nat /\ j \in Nat /\ j > 0 /\ k < Len(a) /\ a[k] = [id |-> o.id, xml |-> j]
      BY <1>1, <2>2, <2>4, <3>1, SMTT(30)
    <3>3. /\ a[k + 1].id = a[k].id
          /\ a[k + 1].xml = IF a[k].xml = XML[a[k].id] THEN 0 ELSE a[k].xml + 1
      <4>1. CASE j = o.done
        <5>1. k + 1 = o.index + 1
          BY <2>4, <3>1, <4>1, Zenon
        <5>2. a[k + 1].id = o.id /\ a[k + 1].xml = 0
          BY <2>5, <3>1, <5>1, Zenon
        <5>3. j = XML[o.id]
          BY <2>1, <4>1, Zenon
        <5> QED
          BY <3>2, <5>2, <5>3
      <4>2. CASE j # o.done
        <5>1. j + 1 \in 1..o.done /\ b + (j + 1) = k + 1
          BY <1>1, <3>1, <3>2, <4>2, SMTT(30)
        <5>2. a[k + 1] = [id |-> o.id, xml |-> j + 1]
          BY <2>4, <3>1, <5>1, Zenon
        <5>3. j # XML[o.id]
          BY <2>1, <4>2, Zenon
        <5> QED
          BY <3>2, <5>2, <5>3, SMTT(30)
      <4> QED
        BY <4>1, <4>2, SMTT(30)
    <3>4. ASSUME a[k].xml > 1 PROVE k > 1 /\ a[k - 1] = [a[k] EXCEPT !.xml = @ - 1]
      <4>1. j > 1
        BY <3>2, <3>4, SMTT(30)
      <4>2. j - 1 \in 1..o.done /\ b + (j - 1) = k - 1 /\ k > 1
        BY <1>1, <3>1, <3>2, <4>1, SMTT(30)
      <4>3. a[k - 1] = [id |-> o.id, xml |-> j - 1]
        BY <2>4, <3>1, <4>2, Zenon
      <4>4. [a[k] EXCEPT !.xml = @ - 1] = [id |-> o.id, xml |-> j - 1]
        BY <3>2
      <4> QED
        BY <4>2, <4>3, <4>4, Zenon
    <3>5. Linked(a, k)
      BY <3>2, <3>3, <3>4 DEF Linked
    <3> QED
      BY <3>1, <3>5, Zenon
  <2>7. \A k \in 1..(o.index + 1) : Linked(c.array, k)
    <3> SUFFICES ASSUME NEW k \in 1..(o.index + 1) PROVE Linked(o.array, k)
      BY <2>1, SMTT(30)
    <3>1. CASE k \in 1..b
      BY <2>4, <3>1, SMTT(30)
    <3>2. CASE k = o.index + 1
      BY <2>5, <3>2, Zenon
    <3>3. CASE k > b /\ k <= o.index
      <4>1. PICK j \in 1..o.done : k = b + j
        <5>1. k - b \in 1..o.done /\ k = b + (k - b)
          BY <1>1, <2>4, <3>3, SMTT(30)
        <5> QED
          BY <5>1, SMTT(30)
      <4> QED
        BY <2>6, <4>1, Zenon
    <3> QED
      BY <1>1, <3>1, <3>2, <3>3, SMTT(30)
  <2>8. o.index + 1 \in Nat /\ c.index = (o.index + 1) + Run(c) /\ 1..Run(c) = {}
    BY <1>1, <2>1, <2>3
  <2>9. QED
    BY <2>1, <2>5, <2>7, <2>8, Zenon
<1>10. QED
  BY <1>4, <1>5, <1>6, <1>7, <1>8, <1>9, Zenon DEF Turn

WholeInv == ProgressInv /\ \A t \in Threads : Whole(call[t])

(* Every step keeps the runs of every array whole.                          *)
LEMMA WholeStep == WholeInv /\ [Next]_vars => WholeInv'
<1> SUFFICES ASSUME WholeInv, [Next]_vars PROVE WholeInv'
  OBVIOUS
<1>1. /\ ProgressInv /\ ProgressInv' /\ TypeInv /\ TypeInv'
      /\ \A t \in Threads : Whole(call[t])
  BY ProgressStep, Zenon DEF WholeInv, ProgressInv, BitInv
<1>2. ASSUME NEW t \in Threads, Turn(call[t], call'[t]) PROVE Whole(call'[t])
  <2>1. PICK o, c, S : o = call[t] /\ c = call'[t] /\ S = Settled
    OBVIOUS
  <2>2. /\ o \in ActivationType /\ c \in ActivationType /\ Turn(o, c) /\ Whole(o)
        /\ o.at \in Working => o.id \in Identifiers
    BY <1>1, <1>2, <2>1, SMTT(30) DEF TypeInv, TypeOK, IdKnown
  <2>3. Progress(o, S)
    BY <1>1, <2>1, Zenon DEF ProgressInv
  <2>4. Whole(c)
    BY <2>2, <2>3, TurnWhole, Zenon
  <2>5. QED
    BY <2>1, <2>4, Zenon
<1>3. CASE UNCHANGED call
  BY <1>1, <1>3, Zenon DEF WholeInv
<1>4. ASSUME NEW t \in Threads, Turn(call[t], call'[t]),
             \A u \in Threads \ {t} : call'[u] = call[u]
      PROVE  WholeInv'
  <2>1. \A u \in Threads : Whole(call'[u])
    BY <1>1, <1>2, <1>4, SMTT(30)
  <2>2. QED
    BY <1>1, <2>1 DEF WholeInv
<1>5. QED
  BY <1>1, <1>3, <1>4, StepIsTurn, Zenon

(* Unless an insertion failed, an array that WrapAddDrivers hands on holds  *)
(* each XML it inserted whole, in order and in front of the personality     *)
(* that asked for it: no insertion of a later turn splits a run.            *)
THEOREM InjectsWhole == Spec => []InjectionsWhole
<1>1. Init => WholeInv
  <2> SUFFICES ASSUME Init, NEW t \in Threads PROVE Whole(call[t])
    BY ProgressInit, SMTT(30) DEF WholeInv
  <2>1. call[t] = Activation("idle", <<>>)
    BY DEF Init
  <2>2. call[t].index = 0 /\ call[t].at = "idle"
    BY <2>1 DEF Activation
  <2>3. QED
    BY <2>2 DEF Whole, Run
<1>2. WholeInv => InjectionsWhole
  <2> SUFFICES ASSUME WholeInv, NEW t \in Threads, Delivering(t),
                      call[t].count = Len(call[t].array),
                      NEW k \in DOMAIN call[t].array
               PROVE  Linked(call[t].array, k)
    BY Zenon DEF InjectionsWhole
  <2>1. PICK c : c = call[t]
    OBVIOUS
  <2>2. /\ c \in ActivationType /\ Whole(c) /\ c.count = Len(c.array)
        /\ c.at = "scan" /\ c.index >= c.count
    BY <2>1, Zenon DEF WholeInv, ProgressInv, BitInv, TypeInv, TypeOK, Delivering, At
  <2>3. Run(c) = 0
    BY <2>2, SMTT(30) DEF Run
  <2>4. PICK b \in Nat : c.index = b + Run(c) /\ \A i \in 1..b : Linked(c.array, i)
    BY <2>2, Zenon DEF Whole
  <2>5. k \in 1..Len(c.array) /\ Len(c.array) \in Nat
    BY <2>1, <2>2 DEF ActivationType
  <2>6. k \in 1..b
    BY <2>2, <2>3, <2>4, <2>5
  <2>7. QED
    BY <2>1, <2>4, <2>6, Zenon
<1>3. QED
  BY <1>1, <1>2, WholeStep, PTL DEF Spec
-------------------------------------------------------------------------------
(* The place of a step in a turn of the loop: it falls until the next turn. *)
Phase(c) == CASE c.at = "scan" -> 5
              [] c.at = "matched" -> 4
              [] c.at = "reloaded" -> 3
              [] c.at = "inject" -> 2
              [] c.at = "insert" -> 1
              [] c.at = "idle" -> 0

(* A call goes on to the next turn of its loop, or to a later place in this *)
(* one, or has fewer personalities of the XML left to insert.  The count    *)
(* that bounds the loop grows with every insertion, and so does the index.  *)
Shrinks(o, c) ==
  /\ c.given = o.given /\ c.count - c.index <= o.count - o.index
  /\ \/ c.count - c.index < o.count - o.index
     \/ Phase(c) < Phase(o)
     \/ /\ o.at = "insert" /\ c.at = "insert" /\ c.id = o.id
        /\ XML[c.id] - c.done \in Nat /\ XML[c.id] - c.done < XML[o.id] - o.done

CallShrinks ==
  \A t \in Threads : \/ call'[t] = call[t]
                     \/ Enters(call[t], call'[t])
                     \/ Shrinks(call[t], call'[t])

(* The XML in hand is one that parsed.                                      *)
Inserting(c) == c.at = "insert" => XML[c.id] \in Nat
ShrinkInv == ProgressInv /\ \A t \in Threads : Inserting(call[t])

LoopBounded == \A t \in Threads : call[t].count - call[t].index \in 0 .. Len(call[t].given)

(* Every turn shrinks what is left of a call, but for entering one.         *)
LEMMA TurnShrinks ==
  ASSUME NEW o \in ActivationType, NEW c \in ActivationType, Turn(o, c),
         Inserting(o)
  PROVE  Enters(o, c) \/ Shrinks(o, c)
<1>1. PICK i \in Nat, m \in Nat, j \in Nat, k \in Nat :
        i = o.index /\ m = o.count /\ j = c.index /\ k = c.count
  BY Zenon DEF ActivationType
<1>2. CASE Passes(o, c) \/ Ends(o, c)
  <2>1. c.given = o.given /\ j = i + 1 /\ k = m
    BY <1>1, <1>2, Zenon DEF Passes, Ends, SameArray
  <2>2. k - j < m - i /\ k - j <= m - i
    BY <2>1
  <2> QED
    BY <1>1, <2>1, <2>2, Zenon DEF Shrinks
<1>3. CASE Finds(o, c) \/ Holds(o, c) \/ Starts(o, c)
  <2>1. c.given = o.given /\ j = i /\ k = m
    BY <1>1, <1>3, Zenon DEF Finds, Holds, Starts, SameArray
  <2>2. k - j <= m - i
    BY <2>1
  <2>3. \/ o.at = "scan" /\ c.at = "matched"
        \/ o.at = "matched" /\ c.at = "reloaded"
        \/ o.at = "matched" /\ c.at = "inject"
        \/ o.at = "reloaded" /\ c.at = "inject"
        \/ o.at = "scan" /\ c.at = "idle"
        \/ o.at = "inject" /\ c.at = "insert"
    BY <1>3 DEF Finds, Holds, Starts, Testing
  <2>4. Phase(c) < Phase(o)
    BY <2>3 DEF Phase
  <2> QED
    BY <1>1, <2>1, <2>2, <2>4, Zenon DEF Shrinks
<1>4. CASE Grows(o, c)
  <2>1. /\ c.given = o.given /\ j = i + 1 /\ k = m + 1 /\ c.id = o.id
        /\ o.at = "insert" /\ c.at = "insert"
    BY <1>1, <1>4, Zenon DEF Grows
  <2>2. k - j <= m - i
    BY <1>1, <2>1
  <2>3. PICK d \in Nat, x \in Nat : d = o.done /\ x = XML[o.id] /\ c.done = d + 1 /\ d < x
    BY <1>4, <2>1, Zenon DEF Grows, ActivationType, Inserting
  <2>4. x - (d + 1) \in Nat /\ x - (d + 1) < x - d
    BY <2>3
  <2> QED
    BY <1>1, <2>1, <2>2, <2>3, <2>4, Zenon DEF Shrinks
<1> QED
  BY <1>2, <1>3, <1>4, Zenon DEF Turn, Puts, Fails

(* An XML is inserted only after it parsed.                                 *)
LEMMA TurnInserts ==
  ASSUME NEW o, NEW c, Turn(o, c), Inserting(o)
  PROVE  Inserting(c)
<1>1. SUFFICES ASSUME c.at = "insert" PROVE XML[c.id] \in Nat
  BY Zenon DEF Inserting
<1>2. Starts(o, c) \/ Grows(o, c)
  <2>1. ASSUME Enters(o, c) PROVE c.at = "scan"
    <3>1. PICK ids \in Inputs : c = Activation("scan", ids)
      BY <2>1, Zenon DEF Enters
    <3> QED
      BY <3>1, Zenon DEF Activation
  <2>2. Passes(o, c) \/ Finds(o, c) \/ Holds(o, c) \/ Ends(o, c)
          => c.at \in {"scan", "matched", "reloaded", "inject", "idle"}
    BY Zenon DEF Passes, Finds, Holds, Ends
  <2>3. c.at \notin {"scan", "matched", "reloaded", "inject", "idle"}
    BY <1>1
  <2> QED
    BY <2>1, <2>2, <2>3, Zenon DEF Turn, Puts, Fails
<1> QED
  BY <1>2, Zenon DEF Inserting, Starts, Grows

(* A call of WrapAddDrivers comes to an end for every array and every XML,  *)
(* although the loop lengthens the array it walks and counts insertions     *)
(* that setObject refuses: each step of a call shrinks what is left of it,  *)
(* whatever other threads do in between, and only an idle thread enters.    *)
(* With the fairness of the callers this is why a bundle is served at last. *)
THEOREM CallsShrink == Spec => []LoopBounded /\ [][CallShrinks]_vars
<1>1. ShrinkInv => LoopBounded
  <2> SUFFICES ASSUME ShrinkInv, NEW t \in Threads
               PROVE  call[t].count - call[t].index \in 0 .. Len(call[t].given)
    BY Zenon DEF LoopBounded
  <2>1. PICK c : c = call[t]
    OBVIOUS
  <2>2. c \in ActivationType /\ Bounded(c)
    BY <2>1, Zenon DEF ShrinkInv, ProgressInv, Progress, BitInv, TypeInv, TypeOK
  <2>3. PICK i \in Nat, m \in Nat, g \in Nat : i = c.index /\ m = c.count /\ g = Len(c.given)
    BY <2>2 DEF ActivationType
  <2>4. i <= m /\ m <= i + g
    BY <2>2, <2>3, Zenon DEF Bounded
  <2>5. m - i \in 0 .. g
    BY <2>3, <2>4
  <2> QED
    BY <2>1, <2>3, <2>5, Zenon
<1>2. ASSUME ShrinkInv, [Next]_vars PROVE ShrinkInv' /\ CallShrinks
  <2>1. ProgressInv' /\ TypeInv /\ TypeInv' /\ \A t \in Threads : Inserting(call[t])
    BY <1>2, ProgressStep, Zenon DEF ShrinkInv, ProgressInv, BitInv
  <2>2. ASSUME NEW t \in Threads, Turn(call[t], call'[t])
        PROVE  /\ Inserting(call'[t])
               /\ Enters(call[t], call'[t]) \/ Shrinks(call[t], call'[t])
    <3>1. call[t] \in ActivationType /\ call'[t] \in ActivationType
      BY <2>1, Zenon DEF TypeInv, TypeOK
    <3> QED
      BY <2>1, <2>2, <3>1, TurnShrinks, TurnInserts, Zenon
  <2>3. \A t \in Threads : Inserting(call'[t])
    BY <1>2, <2>1, <2>2, StepIsTurn, Zenon
  <2>4. CallShrinks
    BY <1>2, <2>1, <2>2, StepIsTurn, Zenon DEF CallShrinks
  <2> QED
    BY <2>1, <2>3, <2>4, Zenon DEF ShrinkInv
<1>3. Init => ShrinkInv
  <2>1. ASSUME Init, NEW t \in Threads PROVE Inserting(call[t])
    <3>1. call[t].at = "idle"
      BY <2>1, Zenon DEF Init, Activation
    <3> QED
      BY <3>1 DEF Inserting
  <2> QED
    BY <2>1, ProgressInit, Zenon DEF ShrinkInv
<1> QED
  BY <1>1, <1>2, <1>3, PTL DEF Spec
===============================================================================
