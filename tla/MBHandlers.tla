----------------------------- MODULE MBHandlers -----------------------------
(***************************************************************************)
(* The table of function handlers of mb.c, and the slave identifier that   *)
(* one of the handlers reports.  An application thread registers and       *)
(* removes handlers and sets the identifier, while the thread that polls   *)
(* dispatches requests.                                                    *)
(*                                                                         *)
(* eMBRegisterCB works under ENTER_CRITICAL_SECTION, which port.h defines  *)
(* as nothing; eMBPoll and eMBSetSlaveID have no critical section at all.  *)
(* So the calls interleave at each access to what they share.  The two     *)
(* stores into an entry may reach the other thread in either order.        *)
(***************************************************************************)
EXTENDS Integers, Sequences

CONSTANTS
  MB_FUNC_HANDLERS_MAX,          \* entries of the table
  Codes,                         \* function codes to try
  Handlers, NULL,                \* handler functions, and none
  eMBFuncReportSlaveID,          \* the handler that reports the identifier
  BuiltIn,                       \* the entries that mb.c initialises, in order
  MB_FUNC_OTHER_REP_SLAVEID_BUF, \* size of ucMBSlaveID
  AdditionalLens,                \* values of usAdditionalLen to try
  MaxCalls                       \* bound: calls of the application

MaxCode == 127
Entry(code, handler) == [ucFunctionCode |-> code, pxHandler |-> handler]
Unused == Entry(0, NULL)

ASSUME HandlersAssumption ==
  /\ MB_FUNC_HANDLERS_MAX \in Nat \ {0}
  /\ Codes \subseteq 0 .. 255
  /\ NULL \notin Handlers /\ eMBFuncReportSlaveID \in Handlers
  /\ BuiltIn \in Seq([ucFunctionCode : 1 .. MaxCode, pxHandler : Handlers])
  /\ Len(BuiltIn) <= MB_FUNC_HANDLERS_MAX
  /\ \A i, j \in 1 .. Len(BuiltIn) : i # j =>
       /\ BuiltIn[i].ucFunctionCode # BuiltIn[j].ucFunctionCode
       /\ BuiltIn[i].pxHandler # BuiltIn[j].pxHandler
  /\ MB_FUNC_OTHER_REP_SLAVEID_BUF \in Nat
  /\ AdditionalLens \subseteq Nat /\ MaxCalls \in Nat

VARIABLES
  xFuncHandlers,
  app,             \* what the application thread is doing
  ucMBSlaveID,     \* which identifier each byte belongs to, 0 for none
  usMBSlaveIDLen,
  version,         \* identifiers set so far
  calls,           \* calls of the application so far
  poll,            \* where the dispatch is: idle, or its step, entry and request
  reply,           \* of ReportSlaveID: the bytes in the frame and the length of the PDU
  bound,           \* history: the handler of each code, as the calls ask for it
  untidy,          \* history: the table has had a gap or a code twice
  overlapped,      \* history: the application called something during this dispatch
  whole            \* history: the identifier that was set last, and its length

appVars  == <<xFuncHandlers, app, ucMBSlaveID, usMBSlaveIDLen, version, calls, bound, untidy,
              whole>>
pollVars == <<poll, reply>>
vars == <<appVars, pollVars, overlapped>>

Slots == 0 .. MB_FUNC_HANDLERS_MAX - 1
ValidCodes == { c \in Codes : 0 < c /\ c <= MaxCode }

AppIdle  == [step |-> "idle"]
PollIdle == [step |-> "idle"]
Busy     == app.step # "idle"
NoReply  == [bytes |-> <<>>, usLen |-> 0]

Init ==
  /\ xFuncHandlers = [i \in Slots |-> IF i < Len(BuiltIn) THEN BuiltIn[i + 1] ELSE Unused]
  /\ app = AppIdle
  /\ ucMBSlaveID = [i \in 0 .. MB_FUNC_OTHER_REP_SLAVEID_BUF - 1 |-> 0]
  /\ usMBSlaveIDLen = 0 /\ version = 0 /\ calls = 0
  /\ poll = PollIdle /\ reply = NoReply
  /\ bound = [c \in ValidCodes |->
                IF \E k \in 1 .. Len(BuiltIn) : BuiltIn[k].ucFunctionCode = c
                THEN BuiltIn[CHOOSE k \in 1 .. Len(BuiltIn) :
                               BuiltIn[k].ucFunctionCode = c].pxHandler
                ELSE NULL]
  /\ untidy = FALSE /\ overlapped = FALSE
  /\ whole = [version |-> 0, len |-> 0]

-----------------------------------------------------------------------------
(***************************************************************************)
(* eMBRegisterCB.  Codes outside of 1 .. 127 are refused with MB_EINVAL.   *)
(***************************************************************************)
Calls == ~ Busy /\ calls < MaxCalls /\ calls' = calls + 1

\* The entry at which a loop over the table stops that looks for one of these.
IsFirst(i, slots) == i \in slots /\ \A j \in slots : i <= j

\* An entry is written in two stores, one now and one in EndEntry.
BeginEntry(i, new) ==
  /\ app' = [step |-> "entry", slot |-> i, new |-> new]
  /\ \/ xFuncHandlers' = [xFuncHandlers EXCEPT ![i].ucFunctionCode = new.ucFunctionCode]
     \/ xFuncHandlers' = [xFuncHandlers EXCEPT ![i].pxHandler = new.pxHandler]
  /\ overlapped' = TRUE
  /\ UNCHANGED <<ucMBSlaveID, usMBSlaveIDLen, version, untidy, whole, pollVars>>

\* Mutant of Taking: an entry that has the handler already is not looked for.
TakingUnused(handler) == { i \in Slots : xFuncHandlers[i].pxHandler = NULL }

Taking(handler) == { i \in Slots : xFuncHandlers[i].pxHandler \in {NULL, handler} }

With(code) == { i \in Slots : xFuncHandlers[i].ucFunctionCode = code }

Register ==
  /\ Calls
  /\ \E code \in ValidCodes, handler \in Handlers, i \in Slots :
       /\ IsFirst(i, Taking(handler))
       /\ BeginEntry(i, Entry(code, handler))
       /\ bound' = [c \in ValidCodes |-> IF c = code THEN handler
                                         ELSE IF bound[c] = handler THEN NULL
                                         ELSE bound[c]]

Remove ==
  /\ Calls
  /\ \E code \in ValidCodes, i \in Slots :
       /\ IsFirst(i, With(code))
       /\ BeginEntry(i, Unused)
       /\ bound' = [bound EXCEPT ![code] = NULL]

\* Each code once, and no gap in which the search of eMBPoll ends.
Tidy(table) ==
  /\ \A i, j \in Slots : i < j /\ table[j].ucFunctionCode # 0 =>
       table[i].ucFunctionCode \notin {0, table[j].ucFunctionCode}
  /\ \A i \in Slots : table[i].ucFunctionCode = 0 <=> table[i].pxHandler = NULL

EndEntry ==
  /\ app.step = "entry"
  /\ xFuncHandlers' = [xFuncHandlers EXCEPT ![app.slot] = app.new]
  /\ app' = AppIdle
  /\ untidy' = (untidy \/ ~ Tidy(xFuncHandlers'))
  /\ UNCHANGED <<ucMBSlaveID, usMBSlaveIDLen, version, calls, bound, whole, pollVars,
                 overlapped>>

-----------------------------------------------------------------------------
(***************************************************************************)
(* eMBSetSlaveID: the identifier and the running flag, then the rest.  An  *)
(* identifier that is too long is refused with MB_ENORES.                  *)
(***************************************************************************)
\* Mutant of Fits: the two bytes before the additional ones are forgotten.
FitsAlone(usAdditionalLen) == usAdditionalLen <= MB_FUNC_OTHER_REP_SLAVEID_BUF

Fits(usAdditionalLen) == usAdditionalLen + 2 < MB_FUNC_OTHER_REP_SLAVEID_BUF

WithBytes(from, to, v) ==
  [i \in DOMAIN ucMBSlaveID \cup from .. to - 1 |->
     IF i \in from .. to - 1 THEN v ELSE ucMBSlaveID[i]]

SetSlaveID ==
  /\ Calls
  /\ \E n \in AdditionalLens :
       /\ Fits(n)
       /\ app' = [step |-> "head", len |-> n]
  /\ version' = version + 1
  /\ usMBSlaveIDLen' = 0
  /\ overlapped' = TRUE
  /\ UNCHANGED <<xFuncHandlers, ucMBSlaveID, bound, untidy, whole, pollVars>>

SetHead ==
  /\ app.step = "head"
  /\ ucMBSlaveID' = WithBytes(0, 2, version)
  /\ usMBSlaveIDLen' = 2
  /\ app' = [app EXCEPT !.step = "rest"]
  /\ UNCHANGED <<xFuncHandlers, version, calls, bound, untidy, whole, pollVars, overlapped>>

\* Mutant of SetRest: the length of the additional bytes is not added.
SetRestWithoutLength ==
  /\ app.step = "rest"
  /\ ucMBSlaveID' = WithBytes(2, 2 + app.len, version)
  /\ app' = AppIdle
  /\ whole' = [version |-> version, len |-> 2 + app.len]
  /\ UNCHANGED <<xFuncHandlers, usMBSlaveIDLen, version, calls, bound, untidy, pollVars,
                 overlapped>>

SetRest ==
  /\ app.step = "rest"
  /\ ucMBSlaveID' = WithBytes(2, 2 + app.len, version)
  /\ usMBSlaveIDLen' = 2 + app.len
  /\ app' = AppIdle
  /\ whole' = [version |-> version, len |-> 2 + app.len]
  /\ UNCHANGED <<xFuncHandlers, version, calls, bound, untidy, pollVars, overlapped>>

Application == Register \/ Remove \/ EndEntry \/ SetSlaveID \/ SetHead \/ SetRest

-----------------------------------------------------------------------------
(***************************************************************************)
(* eMBPoll, EV_EXECUTE.                                                    *)
(***************************************************************************)
Execute ==
  /\ poll.step = "idle"
  /\ \E code \in Codes : poll' = [step |-> "search", code |-> code, slot |-> 0]
  /\ overlapped' = Busy
  /\ UNCHANGED <<appVars, reply>>

\* Mutant of NoMore: the search passes over unused entries.
NoMoreSlots(i) == i \notin Slots

\* No more function handlers registered.
NoMore(i) == i \in Slots => xFuncHandlers[i].ucFunctionCode = 0

Searching == poll.step = "search"

\* The exception "illegal function" is the answer.
SearchEnds ==
  /\ Searching /\ NoMore(poll.slot)
  /\ poll' = [step |-> "done", code |-> poll.code, called |-> NULL]

SearchFinds ==
  /\ Searching /\ ~ NoMore(poll.slot)
  /\ xFuncHandlers[poll.slot].ucFunctionCode = poll.code
  /\ poll' = [poll EXCEPT !.step = "call"]

\* Mutant of SearchGoesOn: the loop does not go on.
SearchStays ==
  /\ Searching /\ ~ NoMore(poll.slot)
  /\ xFuncHandlers[poll.slot].ucFunctionCode # poll.code
  /\ UNCHANGED poll

SearchGoesOn ==
  /\ Searching /\ ~ NoMore(poll.slot)
  /\ xFuncHandlers[poll.slot].ucFunctionCode # poll.code
  /\ poll' = [poll EXCEPT !.slot = @ + 1]

Search ==
  /\ SearchEnds \/ SearchFinds \/ SearchGoesOn
  /\ UNCHANGED <<appVars, reply, overlapped>>

\* A handler that is NULL ends the program.
Call ==
  /\ poll.step = "call"
  /\ LET pxHandler == xFuncHandlers[poll.slot].pxHandler
     IN  poll' = [step |-> CASE pxHandler = NULL -> "crashed"
                             [] pxHandler = eMBFuncReportSlaveID -> "copy"
                             [] OTHER -> "done",
                  code |-> poll.code, called |-> pxHandler]
  /\ UNCHANGED <<appVars, reply, overlapped>>

\* memcpy, then the length of the reply: each reads usMBSlaveIDLen.
ReportCopies ==
  /\ poll.step = "copy"
  /\ reply' = [reply EXCEPT !.bytes = [i \in 1 .. usMBSlaveIDLen |-> ucMBSlaveID[i - 1]]]
  /\ poll' = [poll EXCEPT !.step = "length"]
  /\ UNCHANGED <<appVars, overlapped>>

ReportLength ==
  /\ poll.step = "length"
  /\ reply' = [reply EXCEPT !.usLen = 1 + usMBSlaveIDLen]
  /\ poll' = [poll EXCEPT !.step = "done"]
  /\ UNCHANGED <<appVars, overlapped>>

\* The reply is sent.
Done ==
  /\ poll.step = "done"
  /\ poll' = PollIdle
  /\ reply' = NoReply
  /\ overlapped' = FALSE
  /\ UNCHANGED appVars

eMBPoll == Execute \/ Search \/ Call \/ ReportCopies \/ ReportLength \/ Done

Next == Application \/ eMBPoll

Spec == Init /\ [][Next]_vars

\* The polling thread keeps polling, and a call of the application comes to its end.
FairSpec ==
  /\ Spec
  /\ WF_vars(eMBPoll)
  /\ WF_vars(EndEntry \/ SetHead \/ SetRest)

-----------------------------------------------------------------------------
Steps == {"idle", "search", "call", "copy", "length", "done", "crashed"}

\* Types; the search stays in the table and the identifier in its buffer.
TypeOK ==
  /\ DOMAIN xFuncHandlers = Slots
  /\ \A i \in Slots : /\ xFuncHandlers[i].ucFunctionCode \in 0 .. MaxCode
                      /\ xFuncHandlers[i].pxHandler \in Handlers \cup {NULL}
  /\ app.step \in {"idle", "entry", "head", "rest"}
  /\ poll.step \in Steps
  /\ poll.step \in {"search", "call"} => poll.slot \in 0 .. MB_FUNC_HANDLERS_MAX
  /\ DOMAIN ucMBSlaveID = 0 .. MB_FUNC_OTHER_REP_SLAVEID_BUF - 1
  /\ usMBSlaveIDLen <= MB_FUNC_OTHER_REP_SLAVEID_BUF
  /\ version \in 0 .. calls /\ calls \in 0 .. MaxCalls
  /\ {untidy, overlapped} \subseteq BOOLEAN

\* The handler that the search of eMBPoll finds for a code, NULL if none.
Stops(code) == With(0) \cup With(code)
Found(code) == IF Stops(code) = {} THEN NULL
               ELSE xFuncHandlers[CHOOSE i \in Slots : IsFirst(i, Stops(code))].pxHandler

\* Between two calls of eMBRegisterCB the handler of each code is the one that was
\* registered for it last and not removed, until a removal has left a gap or a
\* second handler was registered for a code.
RegisteredIsServed ==
  ~ Busy /\ ~ untidy => \A code \in ValidCodes : Found(code) = bound[code]

\* A request that nothing interferes with is given to the handler of its code and
\* to no other, also after the table has become untidy; and only registering or
\* removing in the middle of a dispatch makes eMBPoll call NULL.
CallsTheHandler ==
  ~ overlapped =>
    /\ poll.step # "crashed"
    /\ poll.step = "done" => poll.called = Found(poll.code)

\* A report that nothing interferes with is the identifier that was set last, whole.
ReportIsWhole ==
  poll.step = "done" /\ poll.called = eMBFuncReportSlaveID /\ ~ overlapped =>
    /\ reply.usLen = 1 + whole.len
    /\ reply.bytes = [i \in 1 .. whole.len |-> whole.version]

\* Every dispatch comes to its end, whatever is registered meanwhile.
DispatchEnds == poll.step # "idle" ~> poll.step \in {"idle", "crashed"}
=============================================================================
