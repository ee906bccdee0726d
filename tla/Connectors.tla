------------------------------ MODULE Connectors ------------------------------
(***************************************************************************)
(* The first call of getNumberOfConnectors removes, in place, the display  *)
(* paths of the VBIOS object table that have no device tag; every call     *)
(* then asks the original function, which counts the paths.  The flag that *)
(* marks the table as fixed is set before the walk and is no lock: a call  *)
(* that comes meanwhile sees the table half done, and two calls may both   *)
(* find the flag clear.                                                    *)
(***************************************************************************)
EXTENDS Integers, Sequences, FiniteSets

CONSTANTS
  Callers,     \* threads that ask for the number of connectors
  Tags,        \* device tags
  Invalid,     \* the tag 0
  MaxPaths     \* paths of the largest table

ASSUME ConnectorsAssumption ==
  Invalid \notin Tags /\ MaxPaths \in Nat /\ MaxPaths < 256

VARIABLES
  size, orig,          \* the table as the VBIOS has it: fixed
  known,               \* its revision is 1.4 or 1.5: fixed
  paths, pathCount,    \* the table now
  fixedVBIOS,
  fixers,              \* callers that found the flag clear (history)
  call

table == <<size, orig, known>>
vars == <<table, paths, pathCount, fixedVBIOS, fixers, call>>

Idle == [pc |-> "idle", n |-> 0, i |-> 1, j |-> 1, late |-> FALSE, count |-> 0]

Init ==
  /\ size \in 0..MaxPaths /\ orig \in [1..size -> Tags \cup {Invalid}] /\ known \in BOOLEAN
  /\ paths = orig /\ pathCount = size
  /\ fixedVBIOS = FALSE /\ fixers = {}
  /\ call = [c \in Callers |-> Idle]

Becomes(c, r) == call' = [call EXCEPT ![c] = r]

(* The one fixer, if there is only one, is past its walk.                  *)
Alone == \A c, d \in fixers : c = d
Finished == fixers # {} /\ \A c \in fixers : call[c].pc \notin {"set", "walk"}

(* if (!fixedVBIOS)                                                        *)
Check(c) ==
  /\ call[c].pc = "idle"
  /\ Becomes(c, [Idle EXCEPT !.pc = IF fixedVBIOS THEN "org" ELSE "set", !.late = Finished])
  /\ fixers' = IF fixedVBIOS THEN fixers ELSE fixers \cup {c}
  /\ UNCHANGED <<table, paths, pathCount, fixedVBIOS>>

(* fixedVBIOS = true; a table of another revision is left as it is.        *)
SetFlag(c) ==
  /\ call[c].pc = "set"
  /\ fixedVBIOS' = TRUE
  /\ Becomes(c, [call[c] EXCEPT !.pc = IF known THEN "walk" ELSE "org", !.n = pathCount])
  /\ UNCHANGED <<table, paths, pathCount, fixers>>

Decrement(n) == (n + 255) % 256

WalkSwapping(c) ==
  /\ call[c].pc = "walk"
  /\ CASE call[c].i > pathCount -> Becomes(c, [call[c] EXCEPT !.pc = "org"]) /\ UNCHANGED <<paths, pathCount>>
       [] call[c].i <= pathCount /\ paths[call[c].i] # Invalid ->
            Becomes(c, [call[c] EXCEPT !.i = call[c].i + 1]) /\ UNCHANGED <<paths, pathCount>>
       [] OTHER -> /\ paths' = [paths EXCEPT ![call[c].i] = paths[pathCount]]
                   /\ pathCount' = Decrement(pathCount) /\ UNCHANGED call
  /\ UNCHANGED <<table, fixedVBIOS, fixers>>

Walk(c) ==
  /\ call[c].pc = "walk" /\ call[c].i <= call[c].n
  /\ LET i == call[c].i
         j == call[c].j
     IN IF paths[i] # Invalid
          THEN /\ paths' = [paths EXCEPT ![j] = paths[i]]
               /\ Becomes(c, [call[c] EXCEPT !.i = i + 1, !.j = j + 1])
               /\ UNCHANGED pathCount
          ELSE /\ pathCount' = Decrement(pathCount)
               /\ Becomes(c, [call[c] EXCEPT !.i = i + 1])
               /\ UNCHANGED paths
  /\ UNCHANGED <<table, fixedVBIOS, fixers>>

WalkEnds(c) ==
  /\ call[c].pc = "walk" /\ call[c].i > call[c].n
  /\ Becomes(c, [call[c] EXCEPT !.pc = "org"])
  /\ UNCHANGED <<table, paths, pathCount, fixedVBIOS, fixers>>

(* The original function, which counts the paths of the table.             *)
OriginalCached(c) ==
  /\ call[c].pc = "org"
  /\ Becomes(c, [call[c] EXCEPT !.pc = "idle", !.count = size])
  /\ UNCHANGED <<table, paths, pathCount, fixedVBIOS, fixers>>

Original(c) ==
  /\ call[c].pc = "org"
  /\ Becomes(c, [call[c] EXCEPT !.pc = "idle", !.count = pathCount])
  /\ UNCHANGED <<table, paths, pathCount, fixedVBIOS, fixers>>

Next == \E c \in Callers : Check(c) \/ SetFlag(c) \/ Walk(c) \/ WalkEnds(c) \/ Original(c)

Spec == Init /\ [][Next]_vars
-------------------------------------------------------------------------------
(* How many of the first k paths of table t have a device tag.             *)
Rank(t, k) == Cardinality({m \in 1..k : t[m] # Invalid})

(* After the walk of the only fixer, the paths of the VBIOS that have a    *)
(* device tag are counted, in their order and none of them twice, and no   *)
(* others: the r-th path with a tag is now the r-th path.                  *)
OrderIsKept ==
  Alone /\ Finished /\ known =>
    /\ pathCount = Rank(orig, size)
    /\ \A k \in 1..size : orig[k] # Invalid => paths[Rank(orig, k)] = orig[k]

(* While there is only one fixer, a call that begins after its walk is     *)
(* told the number of connectors; one that overlaps it is told a number    *)
(* between that and the size of the table.                                 *)
CountsAreBounded ==
  Alone /\ known =>
    \A c \in Callers : call[c].pc = "idle" /\ call[c] # Idle =>
      /\ call[c].count \in Rank(orig, size)..size
      /\ call[c].late => call[c].count = Rank(orig, size)

===============================================================================
