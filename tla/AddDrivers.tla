------------------------------ MODULE AddDrivers ------------------------------
(***************************************************************************)
(* NDeck::WrapAddDrivers, the hook on IOCatalogue::addDrivers.  A call gets *)
(* an array of driver personalities, inserts the personalities of the      *)
(* kext's own XML in front of the first one of each bundle it knows, and   *)
(* passes the array on to the original function.                           *)
(*                                                                         *)
(* Bundles already served are remembered in one static byte that concurrent*)
(* callers test and update without a lock (IOCatalogue locks only inside   *)
(* the original function).  The array is the caller's own, so a step is one*)
(* access to that byte together with the private work around it.           *)
(***************************************************************************)
EXTENDS Naturals, Sequences

CONSTANTS
  Threads,          \* kernel threads that may call addDrivers
  Identifiers,      \* DriverBundleIdentifiers
  Other,            \* any object without an identifier of that table
  XML,              \* identifier -> number of personalities in its XML,
  NoXML,            \* or this: no such firmware, or data that does not parse
  Inputs,           \* arrays a caller passes: sequences of identifiers
  MaxCalls,         \* bound: calls made by one thread
  InsertCanFail     \* may OSArray::setObject run out of memory?

ASSUME XMLAssumption ==
  /\ Other \notin Identifiers
  /\ NoXML \notin Nat
  /\ XML \in [Identifiers -> Nat \cup {NoXML}]
ASSUME InputAssumption ==
  /\ Inputs \subseteq Seq(Identifiers \cup {Other})
  /\ MaxCalls \in Nat
  /\ InsertCanFail \in BOOLEAN

VARIABLES
  MatchedDrivers,   \* the static byte, as the set of identifiers whose bit is set
  call,             \* each thread's activation of the hook
  calls,            \* calls each thread has made
  injections,       \* how often the insertion of each identifier's XML was begun (history)
  raced,            \* a store came between another thread's test and store (history)
  panicked,         \* PANIC was reached: the machine has stopped
  added,            \* identifiers whose whole XML the original function was given (history)
  failed            \* identifiers of whose XML an insertion failed (history)

outcome == <<added, failed>>
vars == <<MatchedDrivers, call, calls, injections, raced, panicked, outcome>>

(* A personality: its bundle, and 0 if the caller supplied it or else its   *)
(* position in the kext's XML.                                              *)
Driver == [id : Identifiers \cup {Other}, xml : Nat]

Supplied(ids) == [k \in DOMAIN ids |-> [id |-> ids[k], xml |-> 0]]

(* An activation: the array as given and as it is now, the loop's 0-based   *)
(* index and its own count, the bundle matched last, the value of           *)
(* MatchedDrivers read last and the number of personalities inserted.       *)
Activation(pc, ids) == [at |-> pc, given |-> ids, array |-> Supplied(ids),
                        index |-> 0, count |-> Len(ids), id |-> Other,
                        seen |-> {}, done |-> 0]

Current(t) == call[t].array[call[t].index + 1].id

Becomes(t, activation) == call' = [call EXCEPT ![t] = activation]

At(t, pc) == ~panicked /\ call[t].at = pc

Init ==
  /\ MatchedDrivers = {}
  /\ call = [t \in Threads |-> Activation("idle", <<>>)]
  /\ calls = [t \in Threads |-> 0]
  /\ injections = [i \in Identifiers |-> 0]
  /\ raced = FALSE /\ panicked = FALSE
  /\ added = {} /\ failed = {}

(* The count is read once, before the loop.                                 *)
Enter(t) ==
  /\ At(t, "idle")
  /\ calls[t] < MaxCalls
  /\ calls' = [calls EXCEPT ![t] = @ + 1]
  /\ \E ids \in Inputs : Becomes(t, Activation("scan", ids))
  /\ UNCHANGED <<MatchedDrivers, injections, raced, panicked, outcome>>

(* getObject returns null: the count the loop keeps exceeds the array's.    *)
ScanOutOfBounds(t) ==
  /\ At(t, "scan")
  /\ Len(call[t].array) <= call[t].index /\ call[t].index < call[t].count
  /\ panicked' = TRUE
  /\ UNCHANGED <<MatchedDrivers, call, calls, injections, raced, outcome>>

InRange(t) == call[t].index < call[t].count /\ call[t].index < Len(call[t].array)

MatchesServed(id) == id \in Identifiers
Matches(id) == id \in Identifiers \ MatchedDrivers

(* Not a bundle of the table, or its bit is set.                            *)
ScanSkip(t) ==
  /\ At(t, "scan") /\ InRange(t)
  /\ ~Matches(Current(t))
  /\ Becomes(t, [call[t] EXCEPT !.index = @ + 1])
  /\ UNCHANGED <<MatchedDrivers, calls, injections, raced, panicked, outcome>>

(* The bit is clear and the name compares equal.                            *)
ScanMatch(t) ==
  /\ At(t, "scan") /\ InRange(t)
  /\ Matches(Current(t))
  /\ Becomes(t, [call[t] EXCEPT !.at = "matched", !.id = Current(t),
                               !.seen = MatchedDrivers])
  /\ UNCHANGED <<MatchedDrivers, calls, injections, raced, panicked, outcome>>

(* "MatchedDrivers |= bit" on an unlocked byte: the build may load it again *)
(* before the store, or reuse the value that was tested.                    *)
Reload(t) ==
  /\ At(t, "matched")
  /\ Becomes(t, [call[t] EXCEPT !.at = "reloaded", !.seen = MatchedDrivers])
  /\ UNCHANGED <<MatchedDrivers, calls, injections, raced, panicked, outcome>>

WithAllBits(seen, id) == seen \cup Identifiers
WithBit(seen, id) == seen \cup {id}

Store(t) ==
  /\ At(t, "matched") \/ At(t, "reloaded")
  /\ MatchedDrivers' = WithBit(call[t].seen, call[t].id)
  /\ raced' = (raced \/ \E u \in Threads \ {t} : call[u].at \in {"matched", "reloaded"})
  /\ Becomes(t, [call[t] EXCEPT !.at = "inject"])
  /\ UNCHANGED <<calls, injections, panicked, outcome>>

(* GetFirmwareNamed finds no file, or OSUnserializeXML gives no array.      *)
InjectPanics(t) ==
  /\ At(t, "inject")
  /\ XML[call[t].id] = NoXML
  /\ panicked' = TRUE
  /\ UNCHANGED <<MatchedDrivers, call, calls, injections, raced, outcome>>

Inject(t) ==
  /\ At(t, "inject")
  /\ XML[call[t].id] # NoXML
  /\ Becomes(t, [call[t] EXCEPT !.at = "insert", !.done = 0])
  /\ injections' = [injections EXCEPT ![call[t].id] = @ + 1]
  /\ UNCHANGED <<MatchedDrivers, calls, raced, panicked, outcome>>

(* OSArray::setObject inserts at a 0-based index and shifts what follows.   *)
Overwrites(array, i, driver) == [array EXCEPT ![i + 1] = driver]
InsertsAfter(array, i, driver) ==
  SubSeq(array, 1, i + 1) \o <<driver>> \o SubSeq(array, i + 2, Len(array))
SetObject(array, i, driver) ==
  SubSeq(array, 1, i) \o <<driver>> \o SubSeq(array, i + 1, Len(array))

(* One personality of the XML; index and count advance whether or not the   *)
(* insertion succeeds, since its result is not looked at.                   *)
CountKept(count) == count
CountAdvanced(count) == count + 1

Advance(t, array) ==
  /\ At(t, "insert")
  /\ call[t].done < XML[call[t].id]
  /\ Becomes(t, [call[t] EXCEPT !.array = array, !.done = @ + 1,
                                !.index = @ + 1, !.count = CountAdvanced(@)])
  /\ UNCHANGED <<MatchedDrivers, calls, injections, raced, panicked, added>>

Insert(t) ==
  /\ call[t].index <= Len(call[t].array)
  /\ Advance(t, SetObject(call[t].array, call[t].index,
                          [id |-> call[t].id, xml |-> call[t].done + 1]))
  /\ UNCHANGED failed

InsertFails(t) ==
  /\ InsertCanFail \/ call[t].index > Len(call[t].array)
  /\ Advance(t, call[t].array)
  /\ failed' = failed \cup {call[t].id}

(* The inner loop breaks; the outer one passes the matched personality.     *)
InjectDone(t) ==
  /\ At(t, "insert")
  /\ call[t].done = XML[call[t].id]
  /\ Becomes(t, [call[t] EXCEPT !.at = "scan", !.index = @ + 1])
  /\ UNCHANGED <<MatchedDrivers, calls, injections, raced, panicked, outcome>>

(* The loop is over: the original addDrivers gets the array.                *)
Delivering(t) == At(t, "scan") /\ call[t].index >= call[t].count

(* The XML of identifier i, from its first personality to its last.         *)
HoldsXML(a, i) ==
  /\ XML[i] # NoXML
  /\ \E k \in 0..Len(a) : /\ k + XML[i] <= Len(a)
                          /\ \A n \in 1..XML[i] : a[k + n] = [id |-> i, xml |-> n]

DeliverUnchanged(t) ==
  /\ Delivering(t)
  /\ Becomes(t, [call[t] EXCEPT !.at = "idle"])
  /\ added' = added \cup {i \in Identifiers : HoldsXML(Supplied(call[t].given), i)}
  /\ UNCHANGED <<MatchedDrivers, calls, injections, raced, panicked, failed>>

Deliver(t) ==
  /\ Delivering(t)
  /\ Becomes(t, [call[t] EXCEPT !.at = "idle"])
  /\ added' = added \cup {i \in Identifiers : HoldsXML(call[t].array, i)}
  /\ UNCHANGED <<MatchedDrivers, calls, injections, raced, panicked, failed>>

Step(t) == \/ ScanOutOfBounds(t) \/ ScanSkip(t) \/ ScanMatch(t) \/ Reload(t)
           \/ Store(t) \/ InjectPanics(t) \/ Inject(t) \/ Insert(t)
           \/ InsertFails(t) \/ InjectDone(t) \/ Deliver(t)

(* Nothing is left to do: the machine panicked or every call was made.      *)
Finished ==
  /\ panicked \/ \A t \in Threads : call[t].at = "idle" /\ calls[t] = MaxCalls
  /\ UNCHANGED vars

Next == (\E t \in Threads : Enter(t) \/ Step(t)) \/ Finished

Spec == Init /\ [][Next]_vars

(* The hook never blocks, so a thread that is inside it keeps running.      *)
FairSpec == Spec /\ \A t \in Threads : WF_vars(Step(t))
-------------------------------------------------------------------------------
PCs == {"idle", "scan", "matched", "reloaded", "inject", "insert"}

ActivationType ==
  [at : PCs, given : Seq(Identifiers \cup {Other}), array : Seq(Driver),
   index : Nat, count : Nat, id : Identifiers \cup {Other},
   seen : SUBSET Identifiers, done : Nat]

(* The values the hook's variables take.                                   *)
TypeOK ==
  /\ MatchedDrivers \subseteq Identifiers
  /\ call \in [Threads -> ActivationType]
  /\ calls \in [Threads -> Nat]
  /\ injections \in [Identifiers -> Nat]
  /\ panicked \in BOOLEAN

(* Array a holds the personalities ids, in their order, at increasing       *)
(* positions, and everywhere else personalities that were inserted.         *)
HoldsSupplied(a, ids) ==
  \E place \in [DOMAIN ids -> DOMAIN a] :
    /\ \A j, k \in DOMAIN ids : j < k => place[j] < place[k]
    /\ \A k \in DOMAIN ids : a[place[k]] = [id |-> ids[k], xml |-> 0]
    /\ \A p \in DOMAIN a : a[p].xml = 0 => \E k \in DOMAIN ids : place[k] = p

(* What the caller passed reaches the original function unharmed: leaving  *)
(* out the inserted personalities gives the caller's array, in its order.  *)
SuppliedDriversKept ==
  \A t \in Threads : Delivering(t) => HoldsSupplied(call[t].array, call[t].given)

(* An inserted personality at position k of a has its successor in the XML *)
(* behind it, or after the last one a supplied personality of its bundle,   *)
(* and its predecessor in the XML in front of it.                           *)
Linked(a, k) ==
  a[k].xml > 0 =>
    /\ k < Len(a) /\ a[k + 1].id = a[k].id
    /\ a[k + 1].xml = IF a[k].xml = XML[a[k].id] THEN 0 ELSE a[k].xml + 1
    /\ a[k].xml > 1 => k > 1 /\ a[k - 1] = [a[k] EXCEPT !.xml = @ - 1]

(* Every run of inserted personalities in a delivered array is a whole XML, *)
(* in order, right before a personality of the same bundle, unless an       *)
(* insertion failed: then the loop's count has run ahead of the array.      *)
InjectionsWhole ==
  \A t \in Threads : Delivering(t) /\ call[t].count = Len(call[t].array) =>
    \A k \in DOMAIN call[t].array : Linked(call[t].array, k)

(* The insertion of identifier i's XML was begun, or some thread set its    *)
(* bit and is about to begin it.                                           *)
Served(i) == \/ injections[i] > 0
             \/ \E t \in Threads : call[t].at = "inject" /\ call[t].id = i

(* A bit never runs ahead of its injection, although threads overwrite each*)
(* other's bits: a personality the hook passes over because the bit is set *)
(* was served by some thread.                                              *)
BitMeansInjection == \A i \in MatchedDrivers : Served(i)

(* Delivery is never premature: when an array goes to the original         *)
(* function, every bundle of the table it was given has been taken on by   *)
(* this thread or by another one that is past its store, even if the bit   *)
(* was lost again.  Whether each insertion then succeeds is another matter *)
(* (SuppliedGetsInjected).                                                 *)
DeliveredMeansServed ==
  \A t \in Threads : Delivering(t) =>
    \A k \in DOMAIN call[t].given :
      call[t].given[k] # Other => Served(call[t].given[k])

(* The insertion of an identifier's XML is begun at most once, over all    *)
(* calls and however often the bundle occurs in them, until a thread stores*)
(* the byte between another one's test and store: that race alone          *)
(* duplicates.                                                             *)
InjectedAtMostOnce == ~raced => \A i \in Identifiers : injections[i] <= 1

(* For a bundle that any caller supplies, some original function is given  *)
(* the whole XML, unless an insertion of it fails, which nothing reports,  *)
(* or the machine stops first; the caller that sees the bit set relies on  *)
(* another one for this.                                                   *)
SuppliedGetsInjected ==
  \A i \in Identifiers, t \in Threads :
    (\E k \in DOMAIN call[t].given : call[t].given[k] = i)
      ~> (i \in added \/ i \in failed \/ panicked)
===============================================================================
