------------------------------- MODULE SMUProofs -------------------------------
(***************************************************************************)
(* The mailbox for every mapping, any number of polls, messages and rings, *)
(* and a firmware of any speed.                                            *)
(***************************************************************************)
EXTENDS SMU, TLAPS

(* The shape of the variables.                                             *)
Shaped ==
  /\ reg = [r \in Register |-> reg[r]]
  /\ call = [pc |-> call.pc, polls |-> call.polls, ret |-> call.ret, out |-> call.out]
  /\ call.pc \in {"idle", "wait", "parameter", "clear", "message", "answer", "read"}
  /\ smu = [pc |-> smu.pc, m |-> smu.m, in |-> smu.in]
  /\ smu.pc \in {"idle", "work", "reply"}
  /\ ring = [pc |-> ring.pc, inits |-> ring.inits, value |-> ring.value, left |-> ring.left]
  /\ ring.pc \in {"idle", "read", "write"}
  /\ calls \in Nat
  /\ rMMIO \in BOOLEAN /\ doorbell \in BOOLEAN /\ crossed \in BOOLEAN /\ overlapped \in BOOLEAN
  /\ selected \subseteq {"mailbox", "ring"}

(* Until an access is crossed, the index belongs to the one user between   *)
(* its two accesses and names the register it needs; InitHWLate comes      *)
(* before all users.                                                       *)
IndexOwned ==
  /\ ~rMMIO => selected = {} /\ call.pc = "idle" /\ ring.pc = "idle"
  /\ ~crossed =>
       /\ ~({"mailbox", "ring"} \subseteq selected)
       /\ "mailbox" \in selected => call.pc # "idle" /\ index = Needs(call.pc)
       /\ "ring" \in selected => ring.pc # "idle" /\ index = "IH_CHICKEN"

(* The message last written to the mailbox.                                *)
Last == IF call.pc \in {"wait", "parameter", "clear", "message"} THEN calls - 1 ELSE calls

(* While no first wait gave up on a busy unit: a message is written to an  *)
(* idle unit; until its answer is there the response reads as none and the *)
(* unit works on it with its own parameter; an answer that is there is the *)
(* last message's, with its result.                                        *)
MailboxBody ==
  /\ call.pc \in {"parameter", "clear", "message"} => ~Busy
  /\ call.pc # "idle" => calls > 0
  /\ call.pc = "message" => reg["C2PMSG_90"] = NoResponse
  /\ call.pc \in {"clear", "message"} => reg["C2PMSG_82"] = In(calls)
  /\ smu.pc # "idle" => ~doorbell
  /\ Busy => Last \in 1..calls /\ reg["C2PMSG_90"] = NoResponse
  /\ doorbell => reg["C2PMSG_66"] = MsgOf(Last) /\ reg["C2PMSG_82"] = In(Last)
  /\ smu.pc # "idle" => smu.m = MsgOf(Last) /\ smu.in = In(Last)
  /\ smu.pc = "reply" => reg["C2PMSG_82"] = Out(Last)
  /\ call.pc \in {"answer", "read", "idle"} /\ calls > 0 /\ reg["C2PMSG_90"] # NoResponse =>
       reg["C2PMSG_90"] = AnswerTo(calls) /\ reg["C2PMSG_82"] = Out(calls)
  /\ call.pc = "read" /\ call.ret # NoResponse =>
       call.ret = AnswerTo(calls) /\ reg["C2PMSG_90"] = call.ret
Clean == ~crossed /\ ~overlapped
MailboxInv == Clean => MailboxBody /\ OwnAnswer

IInv == Shaped /\ IndexOwned /\ MailboxInv

Place == {"idle", "wait", "parameter", "clear", "message", "answer", "read"}

(* What SendMessageToSMC does to the registers, and to itself, in a poll.  *)
LEMMA PollEffect ==
  ASSUME Shaped, NEW here, NEW next \in Place, NEW more, PollOver(here, next, more)
  PROVE  /\ Access("mailbox", "C2PMSG_90") /\ UNCHANGED <<reg, doorbell, ring, smu, calls>>
         /\ call' = [pc |-> call'.pc, polls |-> call'.polls, ret |-> call'.ret, out |-> call'.out]
         /\ call.pc = here /\ call'.pc \in {here, next} /\ call'.out = call.out
         /\ call'.ret = Read("C2PMSG_90")
         /\ Read("C2PMSG_90") # NoResponse => call'.pc = next
<1> DEFINE response == Read("C2PMSG_90")
<1>1. call' = IF response # NoResponse
                THEN [call EXCEPT !.pc = next, !.polls = 0, !.ret = response]
              ELSE IF more
                THEN [call EXCEPT !.polls = call.polls + 1, !.ret = NoResponse]
                ELSE [call EXCEPT !.pc = next, !.polls = 0, !.ret = NoResponse]
  BY Zenon DEF PollOver
<1>2. /\ Access("mailbox", "C2PMSG_90") /\ UNCHANGED <<reg, doorbell, ring, smu, calls>>
      /\ call.pc = here
  BY Zenon DEF PollOver, ReadRegion32Bit
<1> HIDE DEF response
<1>3. /\ call' = [pc |-> call'.pc, polls |-> call'.polls, ret |-> call'.ret, out |-> call'.out]
      /\ call'.pc \in {here, next} /\ call'.out = call.out
      /\ call'.ret = response
      /\ response # NoResponse => call'.pc = next
  BY <1>1, <1>2, Zenon DEF Shaped
<1> QED
  BY <1>2, <1>3, Zenon DEF response

(* A write changes one register and keeps the rest.                        *)
LEMMA WriteShaped ==
  ASSUME Shaped, NEW u, NEW r, NEW v, WriteRegion32Bit(u, r, v)
  PROVE  /\ reg' = [x \in Register |-> reg'[x]] /\ doorbell' \in BOOLEAN
         /\ Access(u, r)
<1>1. reg' = [reg EXCEPT ![Reached(r)] = v] /\ Access(u, r)
  BY Zenon DEF WriteRegion32Bit
<1>2. reg' = [x \in Register |-> reg'[x]]
  BY <1>1, Zenon DEF Shaped
<1>3. doorbell' \in BOOLEAN
  BY Zenon DEF WriteRegion32Bit
<1> QED
  BY <1>1, <1>2, <1>3, Zenon

(* An access keeps the shape of the window.                                *)
LEMMA AccessShaped ==
  ASSUME Shaped, NEW u, NEW r, Access(u, r)
  PROVE  /\ rMMIO' \in BOOLEAN /\ crossed' \in BOOLEAN /\ selected' \subseteq {"mailbox", "ring"}
BY Zenon DEF Access, Shaped

(* The mailbox's steps keep the shape (SendMessageToSMC).                  *)
LEMMA MailboxShaped == ASSUME Shaped, Mailbox PROVE Shaped'
<1>1. CASE Send
  <2>1. calls' \in Nat
    BY <1>1 DEF Send, Shaped
  <2>2. /\ call' = [pc |-> call'.pc, polls |-> call'.polls, ret |-> call'.ret, out |-> call'.out]
        /\ call'.pc = "wait"
    BY <1>1, Zenon DEF Send, Shaped
  <2>3. UNCHANGED <<rMMIO, selected, crossed, reg, doorbell, ring, smu, overlapped>>
    BY <1>1, Zenon DEF Send, registers, window
  <2> QED
    BY <2>1, <2>2, <2>3 DEF Shaped
<1>2. CASE MailboxSelect
  <2>1. UNCHANGED <<reg, doorbell, rMMIO, ring, smu, calls, call, overlapped>>
    BY <1>2, Zenon DEF MailboxSelect, Select
  <2>2. crossed' \in BOOLEAN /\ selected' \subseteq {"mailbox", "ring"}
    BY <1>2, Zenon DEF MailboxSelect, Select, Shaped
  <2> QED
    BY <2>1, <2>2 DEF Shaped
<1>3. ASSUME NEW here \in Place, NEW next \in Place, NEW more, PollOver(here, next, more)
      PROVE  Shaped'
  <2>1. overlapped' \in BOOLEAN
    BY <1>3, Zenon DEF PollOver
  <2>2. call'.pc \in Place
    BY <1>3, PollEffect, Zenon
  <2>3. /\ Access("mailbox", "C2PMSG_90") /\ UNCHANGED <<reg, doorbell, ring, smu, calls>>
        /\ call' = [pc |-> call'.pc, polls |-> call'.polls, ret |-> call'.ret, out |-> call'.out]
    BY <1>3, PollEffect, Zenon
  <2>4. rMMIO' \in BOOLEAN /\ crossed' \in BOOLEAN /\ selected' \subseteq {"mailbox", "ring"}
    BY <2>3, AccessShaped, Zenon
  <2> QED
    BY <2>1, <2>2, <2>3, <2>4, Zenon DEF Shaped, Place
<1>4. ASSUME NEW here \in Place, NEW next \in Place, NEW v, Store(here, next, v)
      PROVE  Shaped'
  <2>1. WriteRegion32Bit("mailbox", Needs(here), v) /\ UNCHANGED <<ring, smu, calls, overlapped>>
    BY <1>4, Zenon DEF Store
  <2>2. /\ call' = [pc |-> call'.pc, polls |-> call'.polls, ret |-> call'.ret, out |-> call'.out]
        /\ call'.pc \in Place
    BY <1>4, Zenon DEF Store, Shaped
  <2> QED
    BY <2>1, <2>2, WriteShaped, AccessShaped DEF Shaped, Place
<1>5. CASE ReadParameter
  <2>1. /\ Access("mailbox", "C2PMSG_82") /\ UNCHANGED <<reg, doorbell, ring, smu, calls, overlapped>>
    BY <1>5, Zenon DEF ReadParameter, ReadRegion32Bit
  <2>2. /\ call' = [pc |-> call'.pc, polls |-> call'.polls, ret |-> call'.ret, out |-> call'.out]
        /\ call'.pc = "idle"
    BY <1>5, Zenon DEF ReadParameter, Shaped
  <2> QED
    BY <2>1, <2>2, AccessShaped, Zenon DEF Shaped
<1> QED
  BY <1>1, <1>2, <1>3, <1>4, <1>5, Zenon
     DEF Mailbox, Poll, WriteParameter, ClearResponse, WriteMessage, Place

(* So do the other users and the firmware.                                 *)
LEMMA OthersShaped ==
  ASSUME Shaped, \/ RegistersNext /\ UNCHANGED <<smu, calls, call, overlapped>>
                 \/ PickUp \/ LeaveResult \/ Answer \/ UNCHANGED vars
  PROVE  Shaped'
<1>1. CASE InitHWLate /\ UNCHANGED <<smu, calls, call, overlapped>>
  BY <1>1 DEF InitHWLate, Shaped
<1>2. CASE RingInit /\ UNCHANGED <<smu, calls, call, overlapped>>
  <2>1. reg' = [x \in Register |-> reg'[x]]
    BY <1>2, Zenon DEF RingInit, Shaped
  <2>2. /\ ring' = [pc |-> ring'.pc, inits |-> ring'.inits, value |-> ring'.value, left |-> ring'.left]
        /\ ring'.pc = "read"
    BY <1>2, Zenon DEF RingInit, Shaped
  <2>3. UNCHANGED <<rMMIO, selected, crossed, doorbell>>
    BY <1>2, Zenon DEF RingInit, window
  <2> QED
    BY <1>2, <2>1, <2>2, <2>3 DEF Shaped
<1>3. CASE RingSelect /\ UNCHANGED <<smu, calls, call, overlapped>>
  <2>1. UNCHANGED <<reg, doorbell, rMMIO, ring>>
    BY <1>3, Zenon DEF RingSelect, Select
  <2>2. crossed' \in BOOLEAN /\ selected' \subseteq {"mailbox", "ring"}
    BY <1>3, Zenon DEF RingSelect, Select, Shaped
  <2> QED
    BY <1>3, <2>1, <2>2 DEF Shaped
<1>4. CASE RingRead /\ UNCHANGED <<smu, calls, call, overlapped>>
  <2>1. Access("ring", "IH_CHICKEN") /\ UNCHANGED <<reg, doorbell>>
    BY <1>4, Zenon DEF RingRead, ReadRegion32Bit
  <2>2. /\ ring' = [pc |-> ring'.pc, inits |-> ring'.inits, value |-> ring'.value, left |-> ring'.left]
        /\ ring'.pc = "write"
    BY <1>4, Zenon DEF RingRead, Shaped
  <2> QED
    BY <1>4, <2>1, <2>2, AccessShaped DEF Shaped
<1>5. CASE RingWrite /\ UNCHANGED <<smu, calls, call, overlapped>>
  <2>1. WriteRegion32Bit("ring", "IH_CHICKEN", OrBit(ring.value, "MC_SPACE_GPA_ENABLE"))
    BY <1>5, Zenon DEF RingWrite
  <2>2. /\ ring' = [pc |-> ring'.pc, inits |-> ring'.inits, value |-> ring'.value, left |-> ring'.left]
        /\ ring'.pc = "idle"
    BY <1>5, Zenon DEF RingWrite, Shaped
  <2> QED
    BY <1>5, <2>1, <2>2, WriteShaped, AccessShaped DEF Shaped
<1>6. CASE IRQMGRWriteRegister /\ UNCHANGED <<smu, calls, call, overlapped>>
  <2>1. reg' = [x \in Register |-> reg'[x]]
    BY <1>6, Zenon DEF IRQMGRWriteRegister, Shaped
  <2> QED
    BY <1>6, <2>1 DEF IRQMGRWriteRegister, Shaped, window
<1>7. CASE PickUp
  BY <1>7 DEF PickUp, Shaped, window
<1>8. CASE LeaveResult \/ Answer
  <2>1. reg' = [x \in Register |-> reg'[x]]
    BY <1>8, Zenon DEF LeaveResult, Answer, Shaped
  <2>2. smu' = [pc |-> smu'.pc, m |-> smu'.m, in |-> smu'.in] /\ smu'.pc \in {"idle", "reply"}
    BY <1>8 DEF LeaveResult, Answer, Shaped
  <2>3. UNCHANGED <<rMMIO, selected, crossed, doorbell, ring, calls, call, overlapped>>
    BY <1>8, Zenon DEF LeaveResult, Answer, window
  <2> QED
    BY <2>1, <2>2, <2>3 DEF Shaped
<1>9. CASE UNCHANGED vars
  BY <1>9 DEF vars, registers, window, Shaped
<1> QED
  BY <1>1, <1>2, <1>3, <1>4, <1>5, <1>6, <1>7, <1>8, <1>9, Zenon DEF RegistersNext, RingStep

(* A user that has written the index keeps it until its data access, or    *)
(* the access is crossed: SendMessageToSMC ...                             *)
LEMMA MailboxOwns == ASSUME Shaped, IndexOwned, Mailbox PROVE IndexOwned'
<1>1. CASE Send
  <2>1. /\ UNCHANGED <<rMMIO, selected, crossed, index, ring>> /\ rMMIO /\ call.pc = "idle"
    BY <1>1, Zenon DEF Send, registers, window
  <2> QED
    BY <2>1, Zenon DEF IndexOwned
<1>2. CASE MailboxSelect
  <2>1. /\ UNCHANGED <<rMMIO, call, ring>> /\ index' = Needs(call.pc) /\ call.pc # "idle"
        /\ crossed' = (crossed \/ selected # {}) /\ selected' = selected \cup {"mailbox"}
    BY <1>2, Zenon DEF MailboxSelect, Select
  <2>2. CASE selected = {}
    BY <2>1, <2>2, Zenon DEF IndexOwned, Shaped
  <2>3. CASE selected # {}
    BY <2>1, <2>3, Zenon DEF IndexOwned, Shaped
  <2> QED
    BY <2>2, <2>3, Zenon
<1>3. ASSUME NEW r, Access("mailbox", r), call.pc # "idle", UNCHANGED ring
      PROVE  IndexOwned'
  <2>1. /\ UNCHANGED <<rMMIO, index, crossed>> /\ selected' = selected \ {"mailbox"}
    BY <1>3, Zenon DEF Access
  <2> QED
    BY <1>3, <2>1, Zenon DEF IndexOwned
<1>4. ASSUME NEW here \in Place \ {"idle"}, NEW next \in Place, NEW more, PollOver(here, next, more)
      PROVE  IndexOwned'
  BY <1>3, <1>4, PollEffect, Zenon
<1>5. ASSUME NEW here \in Place \ {"idle"}, NEW next, NEW v, Store(here, next, v)
      PROVE  IndexOwned'
  BY <1>3, <1>5, Zenon DEF Store, WriteRegion32Bit
<1>6. CASE ReadParameter
  BY <1>3, <1>6, Zenon DEF ReadParameter, ReadRegion32Bit
<1> QED
  BY <1>1, <1>2, <1>4, <1>5, <1>6, Zenon
     DEF Mailbox, Poll, WriteParameter, ClearResponse, WriteMessage, Place

(* ... and WrapIH40IVRingInitHardware; InitHWLate has no user beside it.   *)
LEMMA OthersOwn ==
  ASSUME Shaped, IndexOwned,
         \/ RegistersNext /\ UNCHANGED <<smu, calls, call, overlapped>>
         \/ PickUp \/ LeaveResult \/ Answer \/ UNCHANGED vars
  PROVE  IndexOwned'
<1>1. CASE InitHWLate /\ UNCHANGED call
  <2>1. UNCHANGED <<selected, crossed, ring>> /\ rMMIO' = TRUE /\ rMMIO = FALSE
    BY <1>1, Zenon DEF InitHWLate, Shaped
  <2> QED
    BY <1>1, <2>1, Zenon DEF IndexOwned
<1>2. CASE RingInit /\ UNCHANGED call
  <2>1. UNCHANGED <<rMMIO, selected, crossed, index>> /\ rMMIO /\ ring.pc = "idle"
    BY <1>2, Zenon DEF RingInit, window
  <2> QED
    BY <1>2, <2>1, Zenon DEF IndexOwned
<1>3. CASE RingSelect /\ UNCHANGED call
  <2>1. /\ UNCHANGED <<rMMIO, ring>> /\ index' = "IH_CHICKEN" /\ ring.pc # "idle"
        /\ crossed' = (crossed \/ selected # {}) /\ selected' = selected \cup {"ring"}
    BY <1>3, Zenon DEF RingSelect, Select
  <2>2. CASE selected = {}
    BY <1>3, <2>1, <2>2, Zenon DEF IndexOwned, Shaped
  <2>3. CASE selected # {}
    BY <1>3, <2>1, <2>3, Zenon DEF IndexOwned, Shaped
  <2> QED
    BY <2>2, <2>3, Zenon
<1>4. CASE (RingRead \/ RingWrite) /\ UNCHANGED call
  <2>1. /\ UNCHANGED <<rMMIO, index, crossed>> /\ selected' = selected \ {"ring"} /\ ring.pc # "idle"
    BY <1>4, Zenon DEF RingRead, RingWrite, ReadRegion32Bit, WriteRegion32Bit, Access
  <2> QED
    BY <1>4, <2>1, Zenon DEF IndexOwned
<1>5. CASE UNCHANGED <<rMMIO, selected, crossed, index, ring, call>>
  BY <1>5, Zenon DEF IndexOwned
<1>6. CASE IRQMGRWriteRegister /\ UNCHANGED call
  BY <1>5, <1>6, Zenon DEF IRQMGRWriteRegister, window
<1>7. CASE PickUp \/ LeaveResult \/ Answer \/ UNCHANGED vars
  BY <1>5, <1>7, Zenon DEF PickUp, LeaveResult, Answer, vars, registers, window
<1> QED
  BY <1>1, <1>2, <1>3, <1>4, <1>6, <1>7, Zenon DEF RegistersNext, RingStep

(* The values of the mailbox are told apart.                               *)
LEMMA ValuesDiffer ==
  /\ \A m \in Nat : AnswerTo(m) # NoResponse
  /\ \A m, n \in Nat : MsgOf(m) = MsgOf(n) => m = n
BY Zenon DEF AnswerTo, NoResponse, Zero, MsgOf, Value

(* The register that each place needs.                                     *)
LEMMA NeedsOf ==
  /\ Needs("wait") = "C2PMSG_90" /\ Needs("clear") = "C2PMSG_90" /\ Needs("answer") = "C2PMSG_90"
  /\ Needs("parameter") = "C2PMSG_82" /\ Needs("read") = "C2PMSG_82"
  /\ Needs("message") = "C2PMSG_66"
BY Zenon DEF Needs

(* An access that is not crossed reaches its own register.                 *)
LEMMA ReachesOwn ==
  ASSUME IndexOwned, Clean
  PROVE  /\ call.pc # "idle" /\ Access("mailbox", Needs(call.pc))
              => Reached(Needs(call.pc)) = Needs(call.pc)
         /\ Access("ring", "IH_CHICKEN") => Reached("IH_CHICKEN") = "IH_CHICKEN"
BY Zenon DEF IndexOwned, Clean, Access, Reached

(* Sending begins with the mailbox as the last message left it.            *)
LEMMA SendKeeps ==
  ASSUME Shaped, Clean, MailboxBody, OwnAnswer, Send PROVE MailboxBody' /\ OwnAnswer'
<1>1. /\ UNCHANGED <<reg, doorbell, smu>> /\ call.pc = "idle" /\ call'.pc = "wait"
      /\ calls' = calls + 1 /\ calls \in Nat
  BY Zenon DEF Send, registers, Shaped
<1>2. Last' = calls /\ Last = calls /\ Busy' = Busy
  BY <1>1 DEF Last, Busy
<1>3. MailboxBody'
  BY <1>1, <1>2 DEF MailboxBody
<1> QED
  BY <1>1, <1>3, Zenon DEF OwnAnswer

(* SMUWaitForResponse before the message: it leaves with an idle unit.     *)
LEMMA WaitKeeps ==
  ASSUME Shaped, IndexOwned, Clean, MailboxBody, OwnAnswer, Clean', Poll("wait", "parameter")
  PROVE  MailboxBody' /\ OwnAnswer'
<1>1. /\ Access("mailbox", "C2PMSG_90") /\ UNCHANGED <<reg, doorbell, smu, calls>>
      /\ call.pc = "wait" /\ call'.pc \in {"wait", "parameter"}
  BY PollEffect, Zenon DEF Poll, Place
<1>2. Read("C2PMSG_90") = reg["C2PMSG_90"]
  BY <1>1, NeedsOf, ReachesOwn, Zenon DEF Read
<1>3. call'.pc = "parameter" => ~Busy
  <2>1. SUFFICES ASSUME call'.pc = "parameter", reg["C2PMSG_90"] = NoResponse, Busy PROVE FALSE
    BY Zenon DEF MailboxBody
  <2>2. overlapped' = TRUE
    BY <1>2, <2>1, Zenon DEF Poll, PollOver
  <2> QED
    BY <2>2, Zenon DEF Clean
<1>4. Last' = Last /\ Busy' = Busy
  BY <1>1, Zenon DEF Last, Busy
<1>5. MailboxBody'
  BY <1>1, <1>3, <1>4, Zenon DEF MailboxBody
<1> QED
  BY <1>1, <1>5, Zenon DEF OwnAnswer

(* SMUWaitForResponse after it: what it returns is the last answer.        *)
LEMMA AnswerKeeps ==
  ASSUME Shaped, IndexOwned, Clean, MailboxBody, OwnAnswer, Poll("answer", "read")
  PROVE  MailboxBody' /\ OwnAnswer'
<1>1. /\ Access("mailbox", "C2PMSG_90") /\ UNCHANGED <<reg, doorbell, smu, calls>>
      /\ call.pc = "answer" /\ call'.pc \in {"answer", "read"} /\ call'.ret = Read("C2PMSG_90")
  BY PollEffect, Zenon DEF Poll, Place
<1>2. call'.ret = reg["C2PMSG_90"]
  BY <1>1, NeedsOf, ReachesOwn, Zenon DEF Read
<1>3. Last' = Last /\ Busy' = Busy
  BY <1>1, Zenon DEF Last, Busy
<1>4. MailboxBody'
  BY <1>1, <1>2, <1>3, Zenon DEF MailboxBody
<1> QED
  BY <1>1, <1>4, Zenon DEF OwnAnswer

(* The parameter is written while the unit is idle.                        *)
LEMMA ParameterKeeps ==
  ASSUME Shaped, IndexOwned, Clean, MailboxBody, OwnAnswer, WriteParameter
  PROVE  MailboxBody' /\ OwnAnswer'
<1>1. /\ call.pc = "parameter" /\ call'.pc = "clear" /\ UNCHANGED <<smu, calls>>
      /\ reg' = [reg EXCEPT ![Reached("C2PMSG_82")] = In(calls)]
      /\ doorbell' = (doorbell \/ Reached("C2PMSG_82") = "C2PMSG_66")
      /\ Access("mailbox", "C2PMSG_82") /\ calls \in Nat
  BY NeedsOf, Zenon DEF WriteParameter, Store, WriteRegion32Bit, Shaped
<1>2. Reached("C2PMSG_82") = "C2PMSG_82"
  BY <1>1, NeedsOf, ReachesOwn, Zenon
<1>3. reg'["C2PMSG_82"] = In(calls) /\ \A r \in Register \ {"C2PMSG_82"} : reg'[r] = reg[r]
  BY <1>1, <1>2, Zenon DEF Shaped, Register
<1>4. ~Busy /\ calls > 0
  BY <1>1, Zenon DEF MailboxBody
<1>5. ~Busy' /\ smu'.pc = "idle" /\ doorbell' = FALSE
  BY <1>1, <1>2, <1>4, Zenon DEF Busy, Shaped
<1>6. reg'["C2PMSG_90"] = reg["C2PMSG_90"]
  BY <1>3, Zenon DEF Register
<1>7. MailboxBody'
  BY <1>1, <1>3, <1>4, <1>5, <1>6, Zenon DEF MailboxBody
<1> QED
  BY <1>1, <1>7, Zenon DEF OwnAnswer

(* The response is cleared while the unit is idle.                         *)
LEMMA ClearKeeps ==
  ASSUME Shaped, IndexOwned, Clean, MailboxBody, OwnAnswer, ClearResponse
  PROVE  MailboxBody' /\ OwnAnswer'
<1>1. /\ call.pc = "clear" /\ call'.pc = "message" /\ UNCHANGED <<smu, calls>>
      /\ reg' = [reg EXCEPT ![Reached("C2PMSG_90")] = NoResponse]
      /\ doorbell' = (doorbell \/ Reached("C2PMSG_90") = "C2PMSG_66")
      /\ Access("mailbox", "C2PMSG_90") /\ calls \in Nat
  BY NeedsOf, Zenon DEF ClearResponse, Store, WriteRegion32Bit, Shaped
<1>2. Reached("C2PMSG_90") = "C2PMSG_90"
  BY <1>1, NeedsOf, ReachesOwn, Zenon
<1>3. reg'["C2PMSG_90"] = NoResponse /\ \A r \in Register \ {"C2PMSG_90"} : reg'[r] = reg[r]
  BY <1>1, <1>2, Zenon DEF Shaped, Register
<1>4. ~Busy /\ calls > 0
  BY <1>1, Zenon DEF MailboxBody
<1>5. ~Busy' /\ smu'.pc = "idle" /\ doorbell' = FALSE
  BY <1>1, <1>2, <1>4, Zenon DEF Busy, Shaped
<1>6. reg'["C2PMSG_82"] = reg["C2PMSG_82"]
  BY <1>3, Zenon DEF Register
<1>7. MailboxBody'
  BY <1>1, <1>3, <1>4, <1>5, <1>6, Zenon DEF MailboxBody
<1> QED
  BY <1>1, <1>7, Zenon DEF OwnAnswer

(* The message is written with its parameter there and no response.        *)
LEMMA MessageKeeps ==
  ASSUME Shaped, IndexOwned, Clean, MailboxBody, OwnAnswer, WriteMessage
  PROVE  MailboxBody' /\ OwnAnswer'
<1>1. /\ call.pc = "message" /\ call'.pc = "answer" /\ UNCHANGED <<smu, calls>>
      /\ reg' = [reg EXCEPT ![Reached("C2PMSG_66")] = MsgOf(calls)]
      /\ doorbell' = (doorbell \/ Reached("C2PMSG_66") = "C2PMSG_66")
      /\ Access("mailbox", "C2PMSG_66") /\ calls \in Nat
  BY NeedsOf, Zenon DEF WriteMessage, Store, WriteRegion32Bit, Shaped
<1>2. Reached("C2PMSG_66") = "C2PMSG_66"
  BY <1>1, NeedsOf, ReachesOwn, Zenon
<1>3. reg'["C2PMSG_66"] = MsgOf(calls) /\ \A r \in Register \ {"C2PMSG_66"} : reg'[r] = reg[r]
  BY <1>1, <1>2, Zenon DEF Shaped, Register
<1>4. ~Busy /\ calls > 0
  BY <1>1, Zenon DEF MailboxBody
<1>5. smu'.pc = "idle" /\ doorbell'
  BY <1>1, <1>2, <1>4, Zenon DEF Busy
<1>6. reg'["C2PMSG_82"] = reg["C2PMSG_82"] /\ reg'["C2PMSG_90"] = reg["C2PMSG_90"]
  BY <1>3, Zenon DEF Register
<1>7. Last' = calls
  BY <1>1, Zenon DEF Last
<1>8. MailboxBody'
  <2>1. reg'["C2PMSG_90"] = NoResponse /\ reg'["C2PMSG_82"] = In(calls)
    BY <1>1, <1>6, Zenon DEF MailboxBody
  <2>2. calls' = calls /\ calls \in 1..calls /\ calls > 0
    BY <1>1, <1>4
  <2>3. call'.pc = "answer" /\ reg'["C2PMSG_66"] = MsgOf(calls)
    BY <1>1, <1>3, Zenon
  <2> QED
    BY <1>5, <1>7, <2>1, <2>2, <2>3, Zenon DEF MailboxBody
<1> QED
  BY <1>1, <1>8, Zenon DEF OwnAnswer

(* The result is read after the answer of the same message.                *)
LEMMA ResultKeeps ==
  ASSUME Shaped, IndexOwned, Clean, MailboxBody, OwnAnswer, ReadParameter
  PROVE  MailboxBody' /\ OwnAnswer'
<1>1. /\ call.pc = "read" /\ call'.pc = "idle" /\ call'.ret = call.ret
      /\ call'.out = Read("C2PMSG_82") /\ UNCHANGED <<reg, doorbell, smu, calls>>
      /\ Access("mailbox", "C2PMSG_82")
  BY Zenon DEF ReadParameter, ReadRegion32Bit, Shaped
<1>2. call'.out = reg["C2PMSG_82"]
  BY <1>1, NeedsOf, ReachesOwn, Zenon DEF Read
<1>3. Last' = Last /\ Busy' = Busy
  BY <1>1, Zenon DEF Last, Busy
<1>4. MailboxBody'
  BY <1>1, <1>3, Zenon DEF MailboxBody
<1> QED
  BY <1>1, <1>2, <1>4, Zenon DEF OwnAnswer, MailboxBody

(* A step that touches neither the mailbox registers nor the call.         *)
LEMMA ElsewhereKeeps ==
  ASSUME MailboxBody, OwnAnswer, UNCHANGED <<doorbell, smu, calls, call>>, Clean,
         \A r \in {"C2PMSG_66", "C2PMSG_82", "C2PMSG_90"} : reg'[r] = reg[r]
  PROVE  MailboxBody' /\ OwnAnswer'
<1>1. Last' = Last /\ Busy' = Busy
  BY Zenon DEF Last, Busy
<1>2. /\ reg'["C2PMSG_66"] = reg["C2PMSG_66"] /\ reg'["C2PMSG_82"] = reg["C2PMSG_82"]
      /\ reg'["C2PMSG_90"] = reg["C2PMSG_90"]
  OBVIOUS
<1>3. MailboxBody'
  BY <1>1, <1>2 DEF MailboxBody
<1> QED
  BY <1>3, Zenon DEF OwnAnswer, Clean

(* The firmware takes the last message with its own parameter.             *)
LEMMA PickUpKeeps ==
  ASSUME Shaped, Clean, MailboxBody, OwnAnswer, PickUp PROVE MailboxBody' /\ OwnAnswer'
<1>1. /\ smu.pc = "idle" /\ doorbell /\ doorbell' = FALSE /\ UNCHANGED <<reg, calls, call>>
      /\ smu'.pc = "work" /\ smu'.m = reg["C2PMSG_66"] /\ smu'.in = reg["C2PMSG_82"]
  BY Zenon DEF PickUp
<1>2. Last' = Last /\ Busy /\ Busy'
  BY <1>1, Zenon DEF Last, Busy
<1>3. MailboxBody'
  BY <1>1, <1>2, Zenon DEF MailboxBody
<1> QED
  BY <1>1, <1>3, Zenon DEF OwnAnswer, Clean

(* The message that the unit works on is the last one, and no other.       *)
LEMMA OneNumber ==
  ASSUME Shaped, MailboxBody, smu.pc # "idle" PROVE Number = {Last} /\ Last \in Nat
<1>1. Last \in 1..calls /\ calls \in Nat /\ smu.m = MsgOf(Last)
  BY Zenon DEF MailboxBody, Busy, Shaped
<1>2. ASSUME NEW m \in 1..calls, smu.m = MsgOf(m) PROVE m = Last
  <2>1. m \in Nat /\ Last \in Nat
    BY <1>1
  <2>2. MsgOf(m) = MsgOf(Last)
    BY <1>1, <1>2, Zenon
  <2> QED
    BY <2>1, <2>2, ValuesDiffer, Zenon
<1> QED
  BY <1>1, <1>2 DEF Number

(* Its result replaces the parameter.                                      *)
LEMMA LeaveResultKeeps ==
  ASSUME Shaped, Clean, MailboxBody, OwnAnswer, LeaveResult PROVE MailboxBody' /\ OwnAnswer'
<1>1. /\ smu.pc = "work" /\ smu'.pc = "reply" /\ smu'.m = smu.m /\ smu'.in = smu.in
      /\ UNCHANGED <<doorbell, calls, call>>
  BY Zenon DEF LeaveResult, Shaped
<1>2. smu.in = In(Last) /\ Number = {Last}
  BY <1>1, OneNumber, Zenon DEF MailboxBody
<1>3. reg' = [reg EXCEPT !["C2PMSG_82"] = Out(Last)]
  BY <1>2, Zenon DEF LeaveResult
<1>4. /\ reg'["C2PMSG_82"] = Out(Last) /\ reg'["C2PMSG_90"] = reg["C2PMSG_90"]
      /\ reg'["C2PMSG_66"] = reg["C2PMSG_66"]
  BY <1>3, Zenon DEF Shaped, Register
<1>5. Last' = Last /\ Busy /\ Busy' /\ ~doorbell
  BY <1>1, Zenon DEF Last, Busy, MailboxBody
<1>6. MailboxBody'
  BY <1>1, <1>4, <1>5, Zenon DEF MailboxBody
<1> QED
  BY <1>1, <1>6, Zenon DEF OwnAnswer, Clean

(* Its answer comes with its result in place.                              *)
LEMMA AnsweringKeeps ==
  ASSUME Shaped, Clean, MailboxBody, OwnAnswer, Answer PROVE MailboxBody' /\ OwnAnswer'
<1>1. smu.pc = "reply" /\ smu'.pc = "idle" /\ UNCHANGED <<doorbell, calls, call>>
  BY Zenon DEF Answer
<1>2. Number = {Last}
  BY <1>1, OneNumber, Zenon
<1>3. reg' = [reg EXCEPT !["C2PMSG_90"] = AnswerTo(Last)]
  BY <1>2, Zenon DEF Answer
<1>4. reg'["C2PMSG_90"] = AnswerTo(Last) /\ reg'["C2PMSG_82"] = reg["C2PMSG_82"]
  BY <1>3, Zenon DEF Shaped, Register
<1>5. Busy /\ ~doorbell /\ ~Busy' /\ ~doorbell'
  BY <1>1, Zenon DEF Busy, MailboxBody
<1>6. reg["C2PMSG_82"] = Out(Last) /\ reg["C2PMSG_90"] = NoResponse
  BY <1>1, <1>5, Zenon DEF MailboxBody
<1>7. /\ call.pc \in {"wait", "answer", "read", "idle"}
      /\ call.pc = "read" => call.ret = NoResponse
      /\ call.pc # "idle" => calls > 0
  BY <1>5, <1>6, Zenon DEF MailboxBody, Shaped
<1>8. call.pc # "wait" => Last = calls
  BY <1>7, Zenon DEF Last
<1>9. MailboxBody'
  BY <1>1, <1>4, <1>5, <1>6, <1>7, <1>8, Zenon DEF MailboxBody
<1> QED
  BY <1>1, <1>9, Zenon DEF OwnAnswer, Clean

(* A history variable that is set stays set.                               *)
LEMMA CleanBefore == ASSUME Next, Clean' PROVE Clean
<1>1. ASSUME NEW u, NEW r, Select(u, r) PROVE crossed => crossed'
  BY <1>1, Zenon DEF Select
<1>2. ASSUME NEW u, NEW r, Access(u, r) PROVE crossed' = crossed
  BY <1>2, Zenon DEF Access
<1>3. CASE RegistersNext /\ UNCHANGED <<smu, calls, call, overlapped>>
  <2>1. CASE InitHWLate \/ RingInit \/ IRQMGRWriteRegister
    BY <1>3, <2>1 DEF Clean, InitHWLate, RingInit, IRQMGRWriteRegister, window
  <2>2. CASE RingSelect
    <3>1. crossed => crossed'
      BY <1>1, <2>2, Zenon DEF RingSelect
    <3> QED
      BY <1>3, <3>1, Zenon DEF Clean
  <2>3. CASE RingRead \/ RingWrite
    <3>1. Access("ring", "IH_CHICKEN")
      BY <2>3, Zenon DEF RingRead, RingWrite, ReadRegion32Bit, WriteRegion32Bit
    <3> QED
      BY <1>2, <1>3, <3>1, Zenon DEF Clean
  <2> QED
    BY <1>3, <2>1, <2>2, <2>3, Zenon DEF RegistersNext, RingStep
<1>4. CASE Send
  BY <1>4, Zenon DEF Clean, Send, registers, window
<1>5. CASE MailboxSelect
  <2>1. crossed => crossed'
    BY <1>1, <1>5, Zenon DEF MailboxSelect
  <2> QED
    BY <1>5, <2>1, Zenon DEF Clean, MailboxSelect
<1>6. CASE Poll("wait", "parameter") \/ Poll("answer", "read")
  <2>1. overlapped => overlapped'
    BY <1>6, Zenon DEF Poll, PollOver
  <2>2. Access("mailbox", "C2PMSG_90")
    BY <1>6, Zenon DEF Poll, PollOver, ReadRegion32Bit
  <2> QED
    BY <1>2, <2>1, <2>2, Zenon DEF Clean
<1>7. CASE WriteParameter \/ ClearResponse \/ WriteMessage \/ ReadParameter
  <2>1. (\E r : Access("mailbox", r)) /\ UNCHANGED overlapped
    BY <1>7, Zenon
       DEF WriteParameter, ClearResponse, WriteMessage, ReadParameter, Store, ReadRegion32Bit,
           WriteRegion32Bit
  <2> QED
    BY <1>2, <2>1, Zenon DEF Clean
<1>8. CASE PickUp \/ LeaveResult \/ Answer
  BY <1>8 DEF Clean, PickUp, LeaveResult, Answer, window
<1> QED
  BY <1>3, <1>4, <1>5, <1>6, <1>7, <1>8, Zenon DEF Next, Mailbox

(* The hooks on the interrupt block stay out of the mailbox.               *)
LEMMA HooksKeep ==
  ASSUME Shaped, IndexOwned, Clean, MailboxBody, OwnAnswer, RegistersNext,
         UNCHANGED <<smu, calls, call, overlapped>>
  PROVE  MailboxBody' /\ OwnAnswer'
<1>1. SUFFICES /\ UNCHANGED doorbell
               /\ \A r \in {"C2PMSG_66", "C2PMSG_82", "C2PMSG_90"} : reg'[r] = reg[r]
  BY ElsewhereKeeps, Zenon
<1>2. CASE InitHWLate \/ RingSelect \/ RingRead
  BY <1>2, Zenon DEF InitHWLate, RingSelect, RingRead, Select, ReadRegion32Bit
<1>3. CASE RingInit
  <2>1. PICK v : reg' = [reg EXCEPT !["IH_CHICKEN"] = v]
    BY <1>3, Zenon DEF RingInit
  <2> QED
    BY <1>3, <2>1 DEF RingInit, Shaped, Register
<1>4. CASE RingWrite
  <2>1. PICK v : WriteRegion32Bit("ring", "IH_CHICKEN", v)
    BY <1>4, Zenon DEF RingWrite
  <2>2. Reached("IH_CHICKEN") = "IH_CHICKEN"
    BY <2>1, ReachesOwn, Zenon DEF WriteRegion32Bit
  <2> QED
    BY <2>1, <2>2, Zenon DEF WriteRegion32Bit, Shaped, Register
<1>5. CASE IRQMGRWriteRegister
  <2>1. PICK v : reg' = [reg EXCEPT !["IH_CLK_CTRL"] = v]
    BY <1>5, Zenon DEF IRQMGRWriteRegister
  <2> QED
    BY <1>5, <2>1, Zenon DEF IRQMGRWriteRegister, Shaped, Register
<1> QED
  BY <1>2, <1>3, <1>4, <1>5, Zenon DEF RegistersNext, RingStep

(* Every step of the system keeps the mailbox in order.                    *)
LEMMA NextKeeps == ASSUME IInv, Next PROVE MailboxInv'
<1>1. SUFFICES ASSUME Clean' PROVE MailboxBody' /\ OwnAnswer'
  BY Zenon DEF MailboxInv
<1>2. Shaped /\ IndexOwned /\ Clean /\ MailboxBody /\ OwnAnswer
  BY <1>1, CleanBefore, Zenon DEF IInv, MailboxInv
<1>3. CASE RegistersNext /\ UNCHANGED <<smu, calls, call, overlapped>>
  BY <1>2, <1>3, HooksKeep, Zenon
<1>4. CASE Send
  BY <1>2, <1>4, SendKeeps, Zenon
<1>5. CASE MailboxSelect
  <2>1. UNCHANGED <<reg, doorbell, smu, calls, call>>
    BY <1>5, Zenon DEF MailboxSelect, Select
  <2> QED
    BY <1>2, <2>1, ElsewhereKeeps, Zenon
<1>6. CASE Poll("wait", "parameter")
  BY <1>1, <1>2, <1>6, WaitKeeps, Zenon
<1>7. CASE WriteParameter
  BY <1>2, <1>7, ParameterKeeps, Zenon
<1>8. CASE ClearResponse
  BY <1>2, <1>8, ClearKeeps, Zenon
<1>9. CASE WriteMessage
  BY <1>2, <1>9, MessageKeeps
<1>10. CASE Poll("answer", "read")
  BY <1>2, <1>10, AnswerKeeps, Zenon
<1>11. CASE ReadParameter
  BY <1>2, <1>11, ResultKeeps
<1>12. CASE PickUp
  BY <1>2, <1>12, PickUpKeeps
<1>13. CASE LeaveResult
  BY <1>2, <1>13, LeaveResultKeeps
<1>14. CASE Answer
  BY <1>2, <1>14, AnsweringKeeps
<1> QED
  BY <1>3, <1>4, <1>5, <1>6, <1>7, <1>8, <1>9, <1>10, <1>11, <1>12, <1>13, <1>14, Zenon
     DEF Next, Mailbox

(* The unit is idle before the first message.                              *)
LEMMA InitIInv == Init => IInv
<1>1. SUFFICES ASSUME Init PROVE IInv
  OBVIOUS
<1>2. /\ rMMIO = FALSE /\ doorbell = FALSE /\ selected = {} /\ crossed = FALSE
      /\ ring = [pc |-> "idle", inits |-> 0, value |-> Zero, left |-> Zero]
      /\ smu = [pc |-> "idle", m |-> Zero, in |-> Zero] /\ calls = 0 /\ overlapped = FALSE
      /\ call = [pc |-> "idle", polls |-> 0, ret |-> NoResponse, out |-> Zero]
  BY <1>1, Zenon DEF Init, RegistersInit
<1>3. reg = [r \in Register |-> reg[r]]
  <2>1. PICK last : reg = [r \in Register |-> IF r = "C2PMSG_90" THEN last ELSE Zero]
    BY <1>1, Zenon DEF Init, RegistersInit
  <2> QED
    BY <2>1, Zenon
<1>4. Shaped
  BY <1>2, <1>3, Zenon DEF Shaped
<1>5. IndexOwned
  BY <1>2, Zenon DEF IndexOwned
<1>6. MailboxBody /\ OwnAnswer
  BY <1>2 DEF MailboxBody, OwnAnswer, Busy
<1> QED
  BY <1>4, <1>5, <1>6, Zenon DEF IInv, MailboxInv

(* Every step, and stuttering, keeps the inductive invariant.              *)
LEMMA NextIInv == IInv /\ [Next]_vars => IInv'
<1>1. SUFFICES ASSUME IInv, [Next]_vars PROVE IInv'
  OBVIOUS
<1>2. CASE Next
  <2>1. Shaped'
    BY <1>1, <1>2, MailboxShaped, OthersShaped, Zenon DEF Next, IInv
  <2>2. IndexOwned'
    BY <1>1, <1>2, MailboxOwns, OthersOwn, Zenon DEF Next, IInv
  <2> QED
    BY <1>1, <1>2, <2>1, <2>2, NextKeeps, Zenon DEF IInv
<1>3. CASE UNCHANGED vars
  <2>1. UNCHANGED <<rMMIO, mapped, index, selected, crossed, reg, doorbell, ring, smu, calls, call,
                    overlapped>>
    BY <1>3, Zenon DEF vars, registers, window
  <2>2. Shaped'
    BY <1>1, <2>1 DEF IInv, Shaped
  <2>3. IndexOwned'
    BY <1>1, <2>1, Zenon DEF IInv, IndexOwned, Needs
  <2>4. MailboxBody' <=> MailboxBody
    BY <2>1 DEF MailboxBody, Busy, Last
  <2>5. OwnAnswer' <=> OwnAnswer
    BY <2>1, Zenon DEF OwnAnswer
  <2>6. MailboxInv'
    BY <1>1, <2>1, <2>4, <2>5, Zenon DEF IInv, MailboxInv, Clean
  <2> QED
    BY <2>2, <2>3, <2>6, Zenon DEF IInv
<1> QED
  BY <1>1, <1>2, <1>3, Zenon

(* SendMessageToSMC takes only its own answer and result, for any mapping, *)
(* number of polls and of messages, until a first wait gives up on a busy  *)
(* unit or another user crosses an access to the index and data pair.      *)
THEOREM AnswersAreOwn == Spec => []OwnAnswer
<1>1. IInv => OwnAnswer
  BY Zenon DEF IInv, MailboxInv, Clean, OwnAnswer
<1> QED
  BY <1>1, InitIInv, NextIInv, PTL DEF Spec

(* Until an access is crossed, what WrapIH40IVRingInitHardware works on is *)
(* what the driver's own set-up left.                                      *)
HooksInv ==
  /\ ~crossed /\ ring.pc # "idle" => reg["IH_CHICKEN"] = ring.left
  /\ ~crossed /\ ring.pc = "write" => ring.value = ring.left
  /\ InterruptsSetUp

(* A step that leaves the two registers of the interrupt block alone.      *)
LEMMA BlockAlone ==
  ASSUME HooksInv, crossed => crossed', UNCHANGED ring,
         reg'["IH_CHICKEN"] = reg["IH_CHICKEN"], reg'["IH_CLK_CTRL"] = reg["IH_CLK_CTRL"]
  PROVE  HooksInv'
BY Zenon DEF HooksInv, InterruptsSetUp

(* The call to the unit writes only the registers of the mailbox.          *)
LEMMA MailboxLeavesBlock == ASSUME Shaped, IndexOwned, HooksInv, Mailbox PROVE HooksInv'
<1>1. UNCHANGED ring
  BY Zenon
     DEF Mailbox, Send, MailboxSelect, Poll, PollOver, WriteParameter, ClearResponse, WriteMessage,
         ReadParameter, Store, registers
<1>2. ASSUME NEW here \in {"parameter", "clear", "message"}, NEW next, NEW v, Store(here, next, v)
      PROVE  HooksInv'
  <2>1. /\ Access("mailbox", Needs(here)) /\ call.pc = here
        /\ reg' = [reg EXCEPT ![Reached(Needs(here))] = v]
    BY <1>2, Zenon DEF Store, WriteRegion32Bit
  <2>2. crossed' = crossed
    BY <2>1, Zenon DEF Access
  <2>3. CASE crossed
    BY <2>2, <2>3, Zenon DEF HooksInv, InterruptsSetUp
  <2>4. CASE ~crossed
    <3>1. Reached(Needs(here)) = Needs(here)
      BY <2>1, <2>4, Zenon DEF IndexOwned, Access, Reached
    <3>2. Needs(here) \in {"C2PMSG_66", "C2PMSG_82", "C2PMSG_90"}
      BY NeedsOf, Zenon
    <3>3. reg'["IH_CHICKEN"] = reg["IH_CHICKEN"] /\ reg'["IH_CLK_CTRL"] = reg["IH_CLK_CTRL"]
      BY <2>1, <3>1, <3>2, Zenon DEF Shaped, Register
    <3> QED
      BY <1>1, <2>2, <3>3, BlockAlone, Zenon
  <2> QED
    BY <2>3, <2>4, Zenon
<1>3. CASE WriteParameter \/ ClearResponse \/ WriteMessage
  BY <1>2, <1>3, Zenon DEF WriteParameter, ClearResponse, WriteMessage
<1>4. CASE Send \/ MailboxSelect \/ Poll("wait", "parameter") \/ Poll("answer", "read")
             \/ ReadParameter
  <2>1. UNCHANGED reg
    BY <1>4, Zenon
       DEF Send, MailboxSelect, Select, Poll, PollOver, ReadParameter, ReadRegion32Bit, registers
  <2>2. crossed => crossed'
    <3>1. CASE Send \/ Poll("wait", "parameter") \/ Poll("answer", "read") \/ ReadParameter
      BY <3>1, Zenon
         DEF Send, Poll, PollOver, ReadParameter, ReadRegion32Bit, Access, registers, window
    <3>2. CASE MailboxSelect
      BY <3>2, Zenon DEF MailboxSelect, Select
    <3> QED
      BY <1>4, <3>1, <3>2, Zenon
  <2> QED
    BY <1>1, <2>1, <2>2, BlockAlone, Zenon
<1> QED
  BY <1>3, <1>4, Zenon DEF Mailbox

(* The hooks, and the driver's writes on their way.                        *)
LEMMA HooksKeepBlock == ASSUME Shaped, IndexOwned, HooksInv, RegistersNext PROVE HooksInv'
<1>1. CASE InitHWLate
  <2>1. UNCHANGED <<reg, ring, crossed>>
    BY <1>1, Zenon DEF InitHWLate
  <2> QED
    BY <2>1, BlockAlone, Zenon
<1>2. CASE RingInit
  <2>1. PICK v : /\ reg' = [reg EXCEPT !["IH_CHICKEN"] = v] /\ UNCHANGED crossed
                 /\ ring'.pc = "read" /\ ring'.left = v
    BY <1>2, Zenon DEF RingInit, window, Shaped
  <2>2. reg'["IH_CHICKEN"] = v /\ reg'["IH_CLK_CTRL"] = reg["IH_CLK_CTRL"]
    BY <2>1, Zenon DEF Shaped, Register
  <2> QED
    BY <2>1, <2>2, Zenon DEF HooksInv, InterruptsSetUp
<1>3. CASE RingSelect
  <2>1. crossed => crossed'
    BY <1>3, Zenon DEF RingSelect, Select
  <2>2. UNCHANGED <<reg, ring>>
    BY <1>3, Zenon DEF RingSelect, Select
  <2> QED
    BY <2>1, <2>2, BlockAlone, Zenon
<1>4. CASE RingRead
  <2>1. /\ UNCHANGED <<reg, crossed>> /\ Access("ring", "IH_CHICKEN") /\ ring.pc = "read"
        /\ ring'.pc = "write" /\ ring'.left = ring.left /\ ring'.value = reg[Reached("IH_CHICKEN")]
    BY <1>4, Zenon DEF RingRead, ReadRegion32Bit, Access, Read, Shaped
  <2>2. ~crossed => Reached("IH_CHICKEN") = "IH_CHICKEN"
    BY <2>1, Zenon DEF IndexOwned, Access, Reached
  <2> QED
    BY <2>1, <2>2, Zenon DEF HooksInv, InterruptsSetUp
<1>5. CASE RingWrite
  <2> DEFINE v == OrBit(ring.value, "MC_SPACE_GPA_ENABLE")
  <2>1. /\ UNCHANGED crossed /\ Access("ring", "IH_CHICKEN") /\ ring.pc = "write"
        /\ ring'.pc = "idle" /\ ring'.left = ring.left
        /\ reg' = [reg EXCEPT ![Reached("IH_CHICKEN")] = v]
    BY <1>5, Zenon DEF RingWrite, WriteRegion32Bit, Access, Shaped
  <2>2. CASE crossed
    BY <2>1, <2>2, Zenon DEF HooksInv, InterruptsSetUp
  <2>3. CASE ~crossed
    <3>1. Reached("IH_CHICKEN") = "IH_CHICKEN"
      BY <2>1, <2>3, Zenon DEF IndexOwned, Access, Reached
    <3>2. reg'["IH_CHICKEN"] = v /\ reg'["IH_CLK_CTRL"] = reg["IH_CLK_CTRL"]
      BY <2>1, <3>1, Zenon DEF Shaped, Register
    <3>3. v = OrBit(ring.left, "MC_SPACE_GPA_ENABLE")
      BY <2>1, <2>3, Zenon DEF HooksInv
    <3> QED
      BY <2>1, <3>2, <3>3, Zenon DEF HooksInv, InterruptsSetUp
  <2> QED
    BY <2>2, <2>3, Zenon
<1>6. CASE IRQMGRWriteRegister
  <2>1. PICK bits \in SUBSET {"DBUS_MUX"} :
          reg' = [reg EXCEPT !["IH_CLK_CTRL"] = ClockValue([Zero EXCEPT !.bits = bits])]
    BY <1>6, Zenon DEF IRQMGRWriteRegister
  <2> DEFINE v == ClockValue([Zero EXCEPT !.bits = bits])
  <2>2. "DBUS_MUX" \in v.bits => "BUFFER_MEM" \in v.bits
    BY Zenon DEF ClockValue, OrBit, Zero, Value
  <2>3. reg'["IH_CHICKEN"] = reg["IH_CHICKEN"] /\ reg'["IH_CLK_CTRL"] = v
    BY <2>1, Zenon DEF Shaped, Register
  <2>4. UNCHANGED <<ring, crossed>>
    BY <1>6, Zenon DEF IRQMGRWriteRegister, window
  <2> HIDE DEF v
  <2> QED
    BY <2>2, <2>3, <2>4, Zenon DEF HooksInv, InterruptsSetUp
<1> QED
  BY <1>1, <1>2, <1>3, <1>4, <1>5, <1>6, Zenon DEF RegistersNext, RingStep

(* The interrupt block is set up as the hooks mean it, whatever the call to*)
(* the unit does meanwhile, until one of them crosses the other's use of   *)
(* the index and data pair.                                                *)
THEOREM BlockIsSetUp == Spec => []InterruptsSetUp
<1>1. Init => HooksInv
  <2>1. SUFFICES ASSUME Init PROVE HooksInv
    OBVIOUS
  <2>2. ring = [pc |-> "idle", inits |-> 0, value |-> Zero, left |-> Zero]
    BY <2>1, Zenon DEF Init, RegistersInit
  <2>3. reg["IH_CLK_CTRL"].bits = {}
    BY <2>1 DEF Init, RegistersInit, Register, Zero, Value
  <2> QED
    BY <2>2, <2>3 DEF HooksInv, InterruptsSetUp
<1>2. ASSUME IInv, HooksInv, [Next]_vars PROVE HooksInv'
  <2>1. CASE RegistersNext
    BY <1>2, <2>1, HooksKeepBlock, Zenon DEF IInv
  <2>2. CASE Mailbox
    BY <1>2, <2>2, MailboxLeavesBlock, Zenon DEF IInv
  <2>3. CASE PickUp \/ UNCHANGED vars
    <3>1. UNCHANGED <<reg, ring, crossed>>
      BY <2>3, Zenon DEF PickUp, vars, registers, window
    <3> QED
      BY <1>2, <3>1, BlockAlone, Zenon
  <2>4. CASE LeaveResult \/ Answer
    <3>1. PICK r \in {"C2PMSG_82", "C2PMSG_90"} : \E v : reg' = [reg EXCEPT ![r] = v]
      BY <2>4, Zenon DEF LeaveResult, Answer
    <3>2. reg'["IH_CHICKEN"] = reg["IH_CHICKEN"] /\ reg'["IH_CLK_CTRL"] = reg["IH_CLK_CTRL"]
      BY <1>2, <3>1, Zenon DEF IInv, Shaped, Register
    <3>3. UNCHANGED <<ring, crossed>>
      BY <2>4, Zenon DEF LeaveResult, Answer, window
    <3> QED
      BY <1>2, <3>2, <3>3, BlockAlone, Zenon
  <2> QED
    BY <1>2, <2>1, <2>2, <2>3, <2>4, Zenon DEF Next
<1>3. HooksInv => InterruptsSetUp
  BY Zenon DEF HooksInv
<1> QED
  BY <1>1, <1>2, <1>3, InitIInv, NextIInv, PTL DEF Spec
-------------------------------------------------------------------------------
(* The register accesses that a call makes at most from a place on, its    *)
(* polls there included, and the steps they take: two where the register   *)
(* is reached through the index, which may be written already.             *)
Rest(place) ==
  CASE place = "idle" -> 0
    [] place = "read" -> 1
    [] place = "answer" -> MaxPolls + 1
    [] place = "message" -> MaxPolls + 2
    [] place = "clear" -> MaxPolls + 3
    [] place = "parameter" -> MaxPolls + 4
    [] place = "wait" -> 2 * MaxPolls + 4
StepsLeft == 2 * (Rest(call.pc) - call.polls) - (IF "mailbox" \in selected THEN 1 ELSE 0)

(* A wait counts its polls and gives up at the last; there is no half of   *)
(* an access left when a call returns.                                     *)
PollsInv ==
  /\ call.polls \in 0..(MaxPolls - 1)
  /\ call.pc \notin {"wait", "answer"} => call.polls = 0
  /\ "mailbox" \in selected => call.pc # "idle"

(* Every step of a call brings its end nearer, and no step of the firmware *)
(* or of another user of the registers takes it away again.                *)
CallAdvances ==
  /\ Mailbox => call.pc = "idle" \/ StepsLeft' < StepsLeft
  /\ ~Mailbox => StepsLeft' = StepsLeft

(* What a place has left, as numbers.                                      *)
LEMMA RestOf ==
  /\ Rest("idle") = 0 /\ Rest("read") = 1 /\ Rest("answer") = MaxPolls + 1
  /\ Rest("message") = MaxPolls + 2 /\ Rest("clear") = MaxPolls + 3
  /\ Rest("parameter") = MaxPolls + 4 /\ Rest("wait") = 2 * MaxPolls + 4
BY DEF Rest

(* An access that leaves fewer of them leaves fewer steps.                 *)
LEMMA AccessFalls ==
  ASSUME NEW a \in Int, NEW b \in Int, b < a, "mailbox" \notin selected',
         a = Rest(call.pc) - call.polls, b = (Rest(call.pc) - call.polls)'
  PROVE  StepsLeft' < StepsLeft
<1>1. StepsLeft \in {2 * a, 2 * a - 1} /\ StepsLeft' = 2 * b
  BY DEF StepsLeft
<1> QED
  BY <1>1

(* A poll is one of MaxPolls, or the last of its wait.                     *)
LEMMA PollAdvances ==
  ASSUME Shaped, PollsInv, NEW here, NEW next, Poll(here, next),
         (here = "wait" /\ next = "parameter") \/ (here = "answer" /\ next = "read")
  PROVE  PollsInv' /\ StepsLeft' < StepsLeft
<1>1. call.pc = here /\ "mailbox" \notin selected'
  BY Zenon DEF Poll, PollOver, ReadRegion32Bit, Access
<1>2. \/ call'.pc = next /\ call'.polls = 0
      \/ call'.pc = here /\ call'.polls = call.polls + 1 /\ call.polls + 1 < MaxPolls
  <2>1. \/ \E v : call' = [call EXCEPT !.pc = next, !.polls = 0, !.ret = v]
        \/ /\ call' = [call EXCEPT !.polls = call.polls + 1, !.ret = NoResponse]
           /\ call.polls + 1 < MaxPolls
    BY Zenon DEF Poll, PollOver
  <2> QED
    BY <1>1, <2>1, Zenon DEF Shaped
<1>3. PICK m \in Nat, p \in Nat : m = MaxPolls /\ p = call.polls /\ p < m
  BY SMUAssumption DEF PollsInv
<1>4. PICK h \in Int, x \in Int : h = Rest(here) /\ x = Rest(next) /\ x = h - m
  BY <1>3, RestOf
<1>5. PollsInv'
  BY <1>1, <1>2, <1>3 DEF PollsInv
<1>6. ASSUME NEW q \in Nat, NEW r \in Int, q = call'.polls, r = Rest(call'.pc), r - q < h - p
      PROVE  StepsLeft' < StepsLeft
  <2>1. PICK a \in Int, b \in Int : a = h - p /\ b = r - q /\ b < a
    BY <1>6
  <2>2. a = Rest(call.pc) - call.polls /\ b = (Rest(call.pc) - call.polls)'
    BY <1>1, <1>3, <1>4, <1>6, <2>1, Zenon DEF Rest
  <2> QED
    BY <1>1, <2>1, <2>2, AccessFalls, Zenon
<1>7. CASE call'.pc = next /\ call'.polls = 0
  <2>1. 0 \in Nat /\ x - 0 < h - p
    BY <1>3, <1>4
  <2> QED
    BY <1>4, <1>5, <1>6, <1>7, <2>1, Zenon
<1>8. CASE call'.pc = here /\ call'.polls = call.polls + 1
  <2>1. p + 1 \in Nat /\ h - (p + 1) < h - p
    OBVIOUS
  <2> QED
    BY <1>3, <1>4, <1>5, <1>6, <1>8, <2>1, Zenon
<1> QED
  BY <1>2, <1>7, <1>8, Zenon

(* The other accesses take a place each.                                   *)
LEMMA PlaceAdvances ==
  ASSUME Shaped, PollsInv, NEW here, NEW next, call.pc = here, call'.pc = next,
         call'.polls = call.polls, "mailbox" \notin selected',
         \/ here = "parameter" /\ next = "clear"
         \/ here = "clear" /\ next = "message"
         \/ here = "message" /\ next = "answer"
         \/ here = "read" /\ next = "idle"
  PROVE  PollsInv' /\ StepsLeft' < StepsLeft
<1>1. call.polls = 0
  BY DEF PollsInv
<1>2. PollsInv'
  BY <1>1 DEF PollsInv
<1>3. PICK m \in Nat : m = MaxPolls
  BY SMUAssumption
<1>4. PICK h \in Int, x \in Int : h = Rest(here) /\ x = Rest(next) /\ x = h - 1
  BY <1>3, RestOf
<1> QED
  BY <1>1, <1>2, <1>4, AccessFalls

(* Each step of SendMessageToSMC is a poll, a place, the first half of an  *)
(* access or the start of a call.                                          *)
LEMMA MailboxAdvances ==
  ASSUME Shaped, PollsInv, Mailbox
  PROVE  PollsInv' /\ (call.pc = "idle" \/ StepsLeft' < StepsLeft)
<1>1. CASE Send
  <2>1. call.pc = "idle" /\ call'.polls = call.polls /\ call'.pc = "wait" /\ selected' = selected
    BY <1>1, Zenon DEF Send, Shaped, registers, window
  <2> QED
    BY <2>1 DEF PollsInv
<1>2. CASE MailboxSelect
  <2>1. /\ call' = call /\ call.pc # "idle"
        /\ "mailbox" \notin selected /\ "mailbox" \in selected'
    BY <1>2, Zenon DEF MailboxSelect, Select
  <2>2. call.pc \in {"wait", "parameter", "clear", "message", "answer", "read"}
    BY <2>1, Zenon DEF Shaped
  <2>3. PICK a \in Int : a = Rest(call.pc) - call.polls
    BY <2>2, RestOf, SMUAssumption DEF PollsInv
  <2>4. StepsLeft = 2 * a /\ StepsLeft' = 2 * a - 1
    BY <2>1, <2>3 DEF StepsLeft
  <2> QED
    BY <2>1, <2>4 DEF PollsInv
<1>3. CASE Poll("wait", "parameter") \/ Poll("answer", "read")
  BY <1>3, PollAdvances, Zenon
<1>4. ASSUME NEW here, NEW next, NEW v, Store(here, next, v),
             \/ here = "parameter" /\ next = "clear"
             \/ here = "clear" /\ next = "message"
             \/ here = "message" /\ next = "answer"
      PROVE  PollsInv' /\ StepsLeft' < StepsLeft
  <2>1. /\ call.pc = here /\ call'.pc = next /\ call'.polls = call.polls
        /\ "mailbox" \notin selected'
    BY <1>4, Zenon DEF Store, WriteRegion32Bit, Access, Shaped
  <2> QED
    BY <1>4, <2>1, PlaceAdvances, Zenon
<1>5. CASE ReadParameter
  <2>1. /\ call.pc = "read" /\ call'.pc = "idle" /\ call'.polls = call.polls
        /\ "mailbox" \notin selected'
    BY <1>5, Zenon DEF ReadParameter, ReadRegion32Bit, Access, Shaped
  <2> QED
    BY <2>1, PlaceAdvances, Zenon
<1> QED
  BY <1>1, <1>2, <1>3, <1>4, <1>5, Zenon DEF Mailbox, WriteParameter, ClearResponse, WriteMessage

(* The hooks on the interrupt block use the pair as "ring", and the        *)
(* firmware does not use it.                                               *)
LEMMA OthersLeaveCall ==
  ASSUME Next, ~Mailbox
  PROVE  call' = call /\ ("mailbox" \in selected' <=> "mailbox" \in selected)
<1>1. CASE RegistersNext /\ UNCHANGED <<smu, calls, call, overlapped>>
  BY <1>1, Zenon DEF RegistersNext, InitHWLate, RingInit, RingStep, RingSelect, RingRead, RingWrite,
     IRQMGRWriteRegister, Select, Access, ReadRegion32Bit, WriteRegion32Bit, window
<1>2. CASE PickUp \/ LeaveResult \/ Answer
  BY <1>2, Zenon DEF PickUp, LeaveResult, Answer, window
<1> QED
  BY <1>1, <1>2, Zenon DEF Next

(* SendMessageToSMC ends after at most 4 * MaxPolls + 8 steps of its own,  *)
(* whether or not the unit ever answers and whatever the others do to the  *)
(* registers: the bound holds throughout, and every step of a call lowers  *)
(* it.  With the fairness of the caller's thread this is why calls return. *)
THEOREM CallsAreShort == Spec => [](StepsLeft \in 0..(4 * MaxPolls + 8)) /\ [][CallAdvances]_vars
<1>1. Init => PollsInv
  <2>1. SUFFICES ASSUME Init PROVE PollsInv
    OBVIOUS
  <2>2. /\ call = [pc |-> "idle", polls |-> 0, ret |-> NoResponse, out |-> Zero]
        /\ selected = {}
    BY <2>1, Zenon DEF Init, RegistersInit
  <2> QED
    BY <2>2, SMUAssumption DEF PollsInv
<1>2. ASSUME IInv, PollsInv, [Next]_vars PROVE PollsInv' /\ [CallAdvances]_vars
  <2>1. CASE Mailbox
    BY <1>2, <2>1, MailboxAdvances, Zenon DEF IInv, CallAdvances
  <2>2. CASE Next /\ ~Mailbox
    <3>1. call' = call /\ ("mailbox" \in selected' <=> "mailbox" \in selected)
      BY <2>2, OthersLeaveCall, Zenon
    <3>2. PollsInv' /\ StepsLeft' = StepsLeft
      BY <1>2, <3>1 DEF PollsInv, StepsLeft, Rest
    <3> QED
      BY <2>2, <3>2, Zenon DEF CallAdvances
  <2>3. CASE UNCHANGED vars
    <3>1. UNCHANGED <<call, selected>>
      BY <2>3, Zenon DEF vars, registers, window
    <3> QED
      BY <1>2, <2>3, <3>1 DEF PollsInv
  <2> QED
    BY <1>2, <2>1, <2>2, <2>3, Zenon
<1>3. IInv /\ PollsInv => StepsLeft \in 0..(4 * MaxPolls + 8)
  <2>1. SUFFICES ASSUME IInv, PollsInv PROVE StepsLeft \in 0..(4 * MaxPolls + 8)
    OBVIOUS
  <2>2. PICK m \in Nat, p \in Nat : m = MaxPolls /\ p = call.polls /\ p < m
    BY <2>1, SMUAssumption DEF PollsInv
  <2>3. PICK h \in Nat : h = Rest(call.pc) /\ p <= h /\ h <= 2 * m + 4 /\ (call.pc # "idle" => p < h)
    BY <2>1, <2>2, RestOf DEF IInv, Shaped, PollsInv
  <2> QED
    BY <2>1, <2>2, <2>3 DEF StepsLeft, PollsInv
<1> QED
  BY <1>1, <1>2, <1>3, InitIInv, NextIInv, PTL DEF Spec
===============================================================================
