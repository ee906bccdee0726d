---------------------------------- MODULE SMU ----------------------------------
(***************************************************************************)
(* The mailbox of the system management unit: the driver waits for the     *)
(* last answer, writes the parameter, clears the response, writes the      *)
(* message and waits again.  Both waits give up after a number of polls,   *)
(* and the driver goes on either way, so an answer may come late.  The     *)
(* mailbox is reached through Registers, whose other users run meanwhile.  *)
(***************************************************************************)
EXTENDS Registers

CONSTANTS
  MaxPolls,     \* AMD_MAX_USEC_TIMEOUT
  MaxCalls      \* bound: messages sent in one behaviour

ASSUME SMUAssumption == MaxPolls \in Nat \ {0} /\ MaxCalls \in Nat

VARIABLES
  smu,          \* the firmware: what it is doing, for which message and parameter
  calls,        \* messages sent so far: a message is its number
  call,         \* SendMessageToSMC
  overlapped    \* a first wait gave up on a busy unit (history)

registers == <<window, reg, doorbell, ring>>
vars == <<registers, smu, calls, call, overlapped>>

NoResponse == Zero
MsgOf(m) == Value(<<"message", m>>)
In(m) == Value(<<"in", m>>)
Out(m) == Value(<<"out", m>>)
AnswerTo(m) == Value(<<"answer", m>>)
Other == 0      \* in place of a number: not one message and its own parameter

Init ==
  /\ \E last \in {NoResponse, AnswerTo(Other)} :
       RegistersInit([r \in Register |-> IF r = "C2PMSG_90" THEN last ELSE Zero])
  /\ smu = [pc |-> "idle", m |-> Zero, in |-> Zero]
  /\ calls = 0 /\ overlapped = FALSE
  /\ call = [pc |-> "idle", polls |-> 0, ret |-> NoResponse, out |-> Zero]

Busy == smu.pc # "idle" \/ doorbell

(* The register that the call accesses next.                               *)
Needs(place) ==
  CASE place \in {"wait", "clear", "answer"} -> "C2PMSG_90"
    [] place \in {"parameter", "read"} -> "C2PMSG_82"
    [] place = "message" -> "C2PMSG_66"

MailboxSelect ==
  /\ call.pc # "idle" /\ Select("mailbox", Needs(call.pc))
  /\ UNCHANGED <<ring, smu, calls, call, overlapped>>

(* SMUWaitForResponse: one turn of its loop.  The value last read is kept. *)
PollOver(here, next, more) ==
  LET response == Read("C2PMSG_90")
  IN /\ call.pc = here
     /\ ReadRegion32Bit("mailbox", "C2PMSG_90")
     /\ call' = IF response # NoResponse
                  THEN [call EXCEPT !.pc = next, !.polls = 0, !.ret = response]
                ELSE IF more
                  THEN [call EXCEPT !.polls = call.polls + 1, !.ret = NoResponse]
                  ELSE [call EXCEPT !.pc = next, !.polls = 0, !.ret = NoResponse]
     /\ overlapped' = (overlapped \/ (here = "wait" /\ call'.pc = next
                                       /\ response = NoResponse /\ Busy))
     /\ UNCHANGED <<ring, smu, calls>>

PollForever(here, next) == Read("C2PMSG_90") # NoResponse /\ PollOver(here, next, FALSE)
Poll(here, next) == PollOver(here, next, call.polls + 1 < MaxPolls)

(* SendMessageToSMC, register access by register access.                   *)
Send ==
  /\ rMMIO /\ call.pc = "idle" /\ calls < MaxCalls
  /\ calls' = calls + 1
  /\ call' = [call EXCEPT !.pc = "wait", !.ret = NoResponse, !.out = Zero]
  /\ UNCHANGED <<registers, smu, overlapped>>

Store(here, next, value) ==
  /\ call.pc = here
  /\ WriteRegion32Bit("mailbox", Needs(here), value)
  /\ call' = [call EXCEPT !.pc = next]
  /\ UNCHANGED <<ring, smu, calls, overlapped>>

WriteParameter == Store("parameter", "clear", In(calls))

ClearResponseNot ==
  /\ call.pc = "clear"
  /\ call' = [call EXCEPT !.pc = "message"]
  /\ selected' = selected \ {"mailbox"}
  /\ UNCHANGED <<rMMIO, mapped, index, crossed, reg, doorbell, ring, smu, calls, overlapped>>
ClearResponse == Store("clear", "message", NoResponse)

WriteMessage == Store("message", "answer", MsgOf(calls))

ReadParameter ==
  /\ call.pc = "read"
  /\ ReadRegion32Bit("mailbox", "C2PMSG_82")
  /\ call' = [call EXCEPT !.pc = "idle", !.out = Read("C2PMSG_82")]
  /\ UNCHANGED <<ring, smu, calls, overlapped>>

(* The firmware takes a message with the parameter it finds, leaves its    *)
(* result in the parameter register and then answers.                      *)
PickUp ==
  /\ smu.pc = "idle" /\ doorbell
  /\ doorbell' = FALSE
  /\ smu' = [pc |-> "work", m |-> reg["C2PMSG_66"], in |-> reg["C2PMSG_82"]]
  /\ UNCHANGED <<window, reg, ring, calls, call, overlapped>>

Number == {m \in 1..calls : smu.m = MsgOf(m)}
LeaveResult ==
  /\ smu.pc = "work"
  /\ \E m \in IF \E k \in Number : smu.in = In(k) THEN Number ELSE {Other} :
       reg' = [reg EXCEPT !["C2PMSG_82"] = Out(m)]
  /\ smu' = [smu EXCEPT !.pc = "reply"]
  /\ UNCHANGED <<window, doorbell, ring, calls, call, overlapped>>

Answer ==
  /\ smu.pc = "reply"
  /\ \E m \in IF Number # {} THEN Number ELSE {Other} :
       reg' = [reg EXCEPT !["C2PMSG_90"] = AnswerTo(m)]
  /\ smu' = [pc |-> "idle", m |-> Zero, in |-> Zero]
  /\ UNCHANGED <<window, doorbell, ring, calls, call, overlapped>>

Mailbox == Send \/ MailboxSelect \/ Poll("wait", "parameter") \/ WriteParameter \/ ClearResponse
             \/ WriteMessage \/ Poll("answer", "read") \/ ReadParameter
Next ==
  \/ RegistersNext /\ UNCHANGED <<smu, calls, call, overlapped>>
  \/ Mailbox
  \/ PickUp \/ LeaveResult \/ Answer

(* The caller's thread runs; nothing is assumed of the others.             *)
Spec == Init /\ [][Next]_vars /\ WF_vars(Mailbox)
-------------------------------------------------------------------------------
(* SendMessageToSMC never takes the answer or the result of one message    *)
(* for another's, late answers included, until its first wait has given up *)
(* on a unit that was still busy or another thread has used the index and  *)
(* data pair in the middle of an access.                                   *)
OwnAnswer ==
  call.pc = "idle" /\ calls > 0 /\ ~overlapped /\ ~crossed /\ call.ret # NoResponse
    => call.ret = AnswerTo(calls) /\ call.out = Out(calls)

(* SendMessageToSMC returns, even if the unit never answers.               *)
CallsReturn == [](call.pc # "idle" => <>(call.pc = "idle"))
===============================================================================
