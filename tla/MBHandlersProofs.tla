-------------------------- MODULE MBHandlersProofs --------------------------
(***************************************************************************)
(* MBHandlers for every table, every set of handlers and every number of   *)
(* calls: its types, and what a request is answered with.                  *)
(***************************************************************************)
EXTENDS MBHandlers, SequenceTheorems, WellFoundedInduction, TLAPS

Entries == [ucFunctionCode : 0 .. MaxCode, pxHandler : Handlers \cup {NULL}]

\* An entry is used or unused in both of its fields.
Paired(entry) == entry.ucFunctionCode = 0 <=> entry.pxHandler = NULL

AppStates ==
  {AppIdle} \cup [step : {"entry"}, slot : Slots, new : { e \in Entries : Paired(e) }]
    \cup [step : {"head", "rest"}, len : { n \in AdditionalLens : Fits(n) }]

PollStates ==
  {PollIdle} \cup [step : {"search"}, code : Codes, slot : 0 .. MB_FUNC_HANDLERS_MAX]
    \cup [step : {"call"}, code : Codes, slot : Slots]
    \cup [step : {"copy", "length", "done", "crashed"}, code : Codes,
          called : Handlers \cup {NULL}]

(***************************************************************************)
(* The types with the shapes of the records, which TypeOK leaves open, and *)
(* the domain of the mapping that the calls ask for.                       *)
(***************************************************************************)
TableTypes ==
  /\ xFuncHandlers \in [Slots -> Entries]
  /\ app \in AppStates
  /\ bound \in [ValidCodes -> Handlers \cup {NULL}]
  /\ untidy \in BOOLEAN

IdTypes ==
  /\ ucMBSlaveID \in [0 .. MB_FUNC_OTHER_REP_SLAVEID_BUF - 1 -> Nat]
  /\ usMBSlaveIDLen \in 0 .. MB_FUNC_OTHER_REP_SLAVEID_BUF
  /\ calls \in 0 .. MaxCalls
  /\ version \in 0 .. calls
  /\ whole \in [version : Nat, len : Nat]

PollTypes ==
  /\ poll \in PollStates
  /\ reply \in [bytes : Seq(Nat), usLen : Nat]
  /\ overlapped \in BOOLEAN

TypeInv == TableTypes /\ IdTypes /\ PollTypes

\* The constants that the steps below need, without the sequence of entries.
LEMMA Constants ==
  /\ MB_FUNC_HANDLERS_MAX \in Nat \ {0}
  /\ Codes \subseteq 0 .. 255
  /\ NULL \notin Handlers /\ eMBFuncReportSlaveID \in Handlers
  /\ MB_FUNC_OTHER_REP_SLAVEID_BUF \in Nat
  /\ AdditionalLens \subseteq Nat /\ MaxCalls \in Nat
BY HandlersAssumption DEF HandlersAssumption

\* The entries of mb.c are used ones, no two with a code or a handler in common.
LEMMA BuiltInEntries ==
  /\ Len(BuiltIn) \in Nat
  /\ \A k \in 1 .. Len(BuiltIn) :
       /\ BuiltIn[k] \in Entries
       /\ BuiltIn[k].ucFunctionCode # 0 /\ BuiltIn[k].pxHandler # NULL
  /\ \A i, j \in 1 .. Len(BuiltIn) : i # j =>
       /\ BuiltIn[i].ucFunctionCode # BuiltIn[j].ucFunctionCode
       /\ BuiltIn[i].pxHandler # BuiltIn[j].pxHandler
<1>1. BuiltIn \in Seq([ucFunctionCode : 1 .. MaxCode, pxHandler : Handlers])
  BY HandlersAssumption DEF HandlersAssumption
<1>2. Len(BuiltIn) \in Nat
  BY <1>1
<1>3. ASSUME NEW k \in 1 .. Len(BuiltIn)
      PROVE  /\ BuiltIn[k] \in Entries
             /\ BuiltIn[k].ucFunctionCode # 0 /\ BuiltIn[k].pxHandler # NULL
  <2>1. BuiltIn[k] \in [ucFunctionCode : 1 .. MaxCode, pxHandler : Handlers]
    BY <1>1, ElementOfSeq, Zenon
  <2>2. /\ BuiltIn[k].ucFunctionCode \in 1 .. 127
        /\ BuiltIn[k].pxHandler \in Handlers
    BY <2>1 DEF MaxCode
  <2>3. BuiltIn[k] \in [ucFunctionCode : 0 .. 127, pxHandler : Handlers \cup {NULL}]
    BY <2>1, <2>2 DEF MaxCode
  <2>4. BuiltIn[k] \in Entries
    BY <2>3 DEF Entries, MaxCode
  <2>5. BuiltIn[k].ucFunctionCode # 0
    <3>1. \A n \in 1 .. 127 : n # 0
      OBVIOUS
    <3>. QED
      BY <2>2, <3>1, Zenon
  <2>6. BuiltIn[k].pxHandler # NULL
    BY <2>2, Constants, Zenon
  <2>. QED
    BY <2>4, <2>5, <2>6
<1>. QED
  BY <1>2, <1>3, HandlersAssumption DEF HandlersAssumption

-----------------------------------------------------------------------------
(***************************************************************************)
(* Types.                                                                  *)
(***************************************************************************)
LEMMA UnusedEntry == Unused \in Entries /\ Paired(Unused)
BY Constants DEF Unused, Entry, Entries, Paired, MaxCode

\* What BeginEntry does with an entry of the table.
LEMMA BeginEntryTypes ==
  ASSUME TypeInv, NEW i \in Slots, NEW new \in Entries, Paired(new), BeginEntry(i, new)
  PROVE  /\ xFuncHandlers' \in [Slots -> Entries]
         /\ app' \in AppStates
         /\ \A j \in Slots \ {i} : xFuncHandlers'[j] = xFuncHandlers[j]
<1>1. app' \in AppStates
  BY DEF BeginEntry, AppStates
<1>2. xFuncHandlers \in [Slots -> Entries]
  BY DEF TypeInv, TableTypes
<1>3. CASE xFuncHandlers' = [xFuncHandlers EXCEPT ![i].ucFunctionCode = new.ucFunctionCode]
  BY <1>1, <1>2, <1>3 DEF Entries
<1>4. CASE xFuncHandlers' = [xFuncHandlers EXCEPT ![i].pxHandler = new.pxHandler]
  BY <1>1, <1>2, <1>4 DEF Entries
<1>. QED
  BY <1>3, <1>4 DEF BeginEntry

\* A code and a handler make an entry.
LEMMA EntryIsPaired ==
  ASSUME NEW code \in ValidCodes, NEW handler \in Handlers
  PROVE  Entry(code, handler) \in Entries /\ Paired(Entry(code, handler))
BY Constants DEF Entry, Entries, Paired, ValidCodes, MaxCode

\* Bytes up to the end of an identifier that fits.
LEMMA WithBytesTypes ==
  ASSUME TypeInv, NEW from \in Nat, NEW to \in Nat, NEW v \in Nat,
         to <= MB_FUNC_OTHER_REP_SLAVEID_BUF
  PROVE  WithBytes(from, to, v) \in [0 .. MB_FUNC_OTHER_REP_SLAVEID_BUF - 1 -> Nat]
<1>1. ucMBSlaveID \in [0 .. MB_FUNC_OTHER_REP_SLAVEID_BUF - 1 -> Nat]
  BY DEF TypeInv, IdTypes
<1>2. DOMAIN ucMBSlaveID \cup from .. to - 1 = 0 .. MB_FUNC_OTHER_REP_SLAVEID_BUF - 1
  BY <1>1, Constants
<1>. QED
  BY <1>1, <1>2 DEF WithBytes

\* The bytes from one place to another, and the others as they were.
LEMMA WithBytesValues ==
  ASSUME NEW from, NEW to, NEW v, NEW i \in DOMAIN ucMBSlaveID \cup from .. to - 1
  PROVE  /\ i \in from .. to - 1 => WithBytes(from, to, v)[i] = v
         /\ i \notin from .. to - 1 => WithBytes(from, to, v)[i] = ucMBSlaveID[i]
BY Zenon DEF WithBytes

\* A reply without bytes is a reply.
LEMMA NoReplyType == NoReply \in [bytes : Seq(Nat), usLen : Nat]
<1>1. <<>> \in Seq(Nat) /\ 0 \in Nat
  OBVIOUS
<1>. QED
  BY <1>1, Zenon DEF NoReply

\* The table that mb.c initialises, nothing under way.
LEMMA InitTypes == Init => TypeInv
<1>. SUFFICES ASSUME Init PROVE TypeInv
  OBVIOUS
<1>1. xFuncHandlers \in [Slots -> Entries]
  <2>1. ASSUME NEW i \in Slots, i < Len(BuiltIn) PROVE BuiltIn[i + 1] \in Entries
    <3>1. i + 1 \in 1 .. Len(BuiltIn)
      BY <2>1, BuiltInEntries, Constants DEF Slots
    <3>. QED
      BY <3>1, BuiltInEntries
  <2>. QED
    BY <2>1, UnusedEntry DEF Init
<1>2. bound \in [ValidCodes -> Handlers \cup {NULL}]
  <2>1. ASSUME NEW c \in ValidCodes, NEW K,
               K = CHOOSE k \in 1 .. Len(BuiltIn) : BuiltIn[k].ucFunctionCode = c,
               \E k \in 1 .. Len(BuiltIn) : BuiltIn[k].ucFunctionCode = c
        PROVE  BuiltIn[K].pxHandler \in Handlers \cup {NULL}
    <3>1. K \in 1 .. Len(BuiltIn)
      BY <2>1, Zenon
    <3>. QED
      BY <3>1, BuiltInEntries, Zenon DEF Entries
  <2>. QED
    BY <2>1 DEF Init
<1>3. TableTypes
  BY <1>1, <1>2 DEF TableTypes, Init, AppStates
<1>4. IdTypes
  BY Constants DEF Init, IdTypes
<1>5. PollTypes
  BY NoReplyType DEF Init, PollTypes, PollStates
<1>. QED
  BY <1>3, <1>4, <1>5 DEF TypeInv

\* The calls of the application keep the types.
LEMMA ApplicationTypes == TypeInv /\ Application => TypeInv'
<1>. SUFFICES ASSUME TypeInv, Application PROVE TypeInv'
  OBVIOUS
<1>. USE Constants
<1>1. CASE Register
  <2>1. PICK code \in ValidCodes, handler \in Handlers, i \in Slots :
          /\ BeginEntry(i, Entry(code, handler))
          /\ bound' = [c \in ValidCodes |-> IF c = code THEN handler
                                            ELSE IF bound[c] = handler THEN NULL
                                            ELSE bound[c]]
    BY <1>1 DEF Register
  <2>2. bound' \in [ValidCodes -> Handlers \cup {NULL}]
    BY <2>1 DEF TypeInv, TableTypes
  <2>3. TableTypes'
    BY <2>1, <2>2, BeginEntryTypes, EntryIsPaired DEF TypeInv, TableTypes, BeginEntry
  <2>4. IdTypes'
    BY <1>1, <2>1 DEF Register, Calls, BeginEntry, TypeInv, IdTypes
  <2>5. PollTypes'
    BY <2>1 DEF BeginEntry, TypeInv, PollTypes, pollVars
  <2>. QED
    BY <2>3, <2>4, <2>5 DEF TypeInv
<1>2. CASE Remove
  <2>1. PICK code \in ValidCodes, i \in Slots :
          BeginEntry(i, Unused) /\ bound' = [bound EXCEPT ![code] = NULL]
    BY <1>2 DEF Remove
  <2>2. bound' \in [ValidCodes -> Handlers \cup {NULL}]
    BY <2>1 DEF TypeInv, TableTypes
  <2>3. TableTypes'
    BY <2>1, <2>2, BeginEntryTypes, UnusedEntry DEF TypeInv, TableTypes, BeginEntry
  <2>4. IdTypes'
    BY <1>2, <2>1 DEF Remove, Calls, BeginEntry, TypeInv, IdTypes
  <2>5. PollTypes'
    BY <2>1 DEF BeginEntry, TypeInv, PollTypes, pollVars
  <2>. QED
    BY <2>3, <2>4, <2>5 DEF TypeInv
<1>3. CASE EndEntry
  <2>1. app.slot \in Slots /\ app.new \in Entries
    BY <1>3 DEF EndEntry, TypeInv, TableTypes, AppStates, AppIdle
  <2>2. TableTypes'
    BY <1>3, <2>1 DEF EndEntry, TypeInv, TableTypes, AppStates
  <2>3. IdTypes' /\ PollTypes'
    BY <1>3 DEF EndEntry, TypeInv, IdTypes, PollTypes, pollVars
  <2>. QED
    BY <2>2, <2>3 DEF TypeInv
<1>4. CASE SetSlaveID
  <2>1. TableTypes'
    BY <1>4 DEF SetSlaveID, TypeInv, TableTypes, AppStates
  <2>2. IdTypes'
    BY <1>4 DEF SetSlaveID, Calls, TypeInv, IdTypes
  <2>3. PollTypes'
    BY <1>4 DEF SetSlaveID, TypeInv, PollTypes, pollVars
  <2>. QED
    BY <2>1, <2>2, <2>3 DEF TypeInv
<1>5. CASE SetHead
  <2>1. PICK n \in AdditionalLens : Fits(n) /\ app = [step |-> "head", len |-> n]
    BY <1>5 DEF SetHead, TypeInv, TableTypes, AppStates, AppIdle
  <2>2. app' = [step |-> "rest", len |-> n]
    BY <1>5, <2>1 DEF SetHead
  <2>3. TableTypes'
    BY <1>5, <2>1, <2>2 DEF SetHead, TypeInv, TableTypes, AppStates
  <2>4. version \in Nat /\ 2 <= MB_FUNC_OTHER_REP_SLAVEID_BUF
    BY <2>1 DEF TypeInv, IdTypes, Fits
  <2>5. ucMBSlaveID' \in [0 .. MB_FUNC_OTHER_REP_SLAVEID_BUF - 1 -> Nat]
    BY <1>5, <2>4, WithBytesTypes DEF SetHead
  <2>6. IdTypes'
    BY <1>5, <2>4, <2>5 DEF SetHead, TypeInv, IdTypes
  <2>7. PollTypes'
    BY <1>5 DEF SetHead, TypeInv, PollTypes, pollVars
  <2>. QED
    BY <2>3, <2>6, <2>7 DEF TypeInv
<1>6. CASE SetRest
  <2>1. PICK n \in AdditionalLens : Fits(n) /\ app = [step |-> "rest", len |-> n]
    <3>1. app.step = "rest" /\ app \in AppStates
      BY <1>6 DEF SetRest, TypeInv, TableTypes
    <3>2. app \in [step : {"head", "rest"}, len : { n \in AdditionalLens : Fits(n) }]
      BY <3>1 DEF AppStates, AppIdle
    <3>3. app = [step |-> "rest", len |-> app.len]
      BY <3>1, <3>2
    <3>. QED
      BY <3>2, <3>3
  <2>2. /\ version \in Nat /\ 2 + app.len \in Nat
        /\ 2 + app.len <= MB_FUNC_OTHER_REP_SLAVEID_BUF
    BY <2>1 DEF TypeInv, IdTypes, Fits
  <2>3. TableTypes'
    BY <1>6 DEF SetRest, TypeInv, TableTypes, AppStates
  <2>4. ucMBSlaveID' \in [0 .. MB_FUNC_OTHER_REP_SLAVEID_BUF - 1 -> Nat]
    BY <1>6, <2>2, WithBytesTypes DEF SetRest
  <2>5. IdTypes'
    BY <1>6, <2>2, <2>4 DEF SetRest, TypeInv, IdTypes
  <2>6. PollTypes'
    BY <1>6 DEF SetRest, TypeInv, PollTypes, pollVars
  <2>. QED
    BY <2>3, <2>5, <2>6 DEF TypeInv
<1>. QED
  BY <1>1, <1>2, <1>3, <1>4, <1>5, <1>6 DEF Application

\* The steps of a dispatch keep them.
LEMMA PollStepTypes == TypeInv /\ eMBPoll => TypeInv'
<1>. SUFFICES ASSUME TypeInv, eMBPoll PROVE TypeInv'
  OBVIOUS
<1>. USE Constants
<1>1. TableTypes' /\ IdTypes'
  BY DEF eMBPoll, Execute, Search, Call, ReportCopies, ReportLength, Done, appVars,
         TypeInv, TableTypes, IdTypes
<1>2. CASE Execute
  BY <1>1, <1>2 DEF Execute, Busy, TypeInv, PollTypes, PollStates
<1>3. CASE SearchEnds /\ UNCHANGED <<reply, overlapped>>
  BY <1>1, <1>3 DEF SearchEnds, Searching, TypeInv, PollTypes, PollStates, PollIdle
<1>4. CASE SearchFinds /\ UNCHANGED <<reply, overlapped>>
  <2>1. PICK c \in Codes, i \in 0 .. MB_FUNC_HANDLERS_MAX :
          poll = [step |-> "search", code |-> c, slot |-> i]
    BY <1>4 DEF SearchFinds, Searching, TypeInv, PollTypes, PollStates, PollIdle
  <2>2. poll' = [step |-> "call", code |-> c, slot |-> i] /\ i \in Slots
    BY <1>4, <2>1 DEF SearchFinds, NoMore
  <2>. QED
    BY <1>1, <1>4, <2>2 DEF TypeInv, PollTypes, PollStates
<1>5. CASE SearchGoesOn /\ UNCHANGED <<reply, overlapped>>
  <2>1. PICK c \in Codes, i \in 0 .. MB_FUNC_HANDLERS_MAX :
          poll = [step |-> "search", code |-> c, slot |-> i]
    BY <1>5 DEF SearchGoesOn, Searching, TypeInv, PollTypes, PollStates, PollIdle
  <2>2. poll' = [step |-> "search", code |-> c, slot |-> i + 1] /\ i \in Slots
    BY <1>5, <2>1 DEF SearchGoesOn, NoMore
  <2>. QED
    BY <1>1, <1>5, <2>2 DEF TypeInv, PollTypes, PollStates, Slots
<1>6. CASE Call
  <2>1. poll.code \in Codes /\ poll.slot \in Slots
    BY <1>6 DEF Call, TypeInv, PollTypes, PollStates, PollIdle
  <2>2. xFuncHandlers[poll.slot].pxHandler \in Handlers \cup {NULL}
    BY <2>1 DEF TypeInv, TableTypes, Entries
  <2>. QED
    BY <1>1, <1>6, <2>1, <2>2 DEF Call, TypeInv, PollTypes, PollStates
<1>7. CASE ReportCopies
  <2>1. poll' \in PollStates
    BY <1>7 DEF ReportCopies, TypeInv, PollTypes, PollStates, PollIdle
  <2>2. [i \in 1 .. usMBSlaveIDLen |-> ucMBSlaveID[i - 1]] \in Seq(Nat)
    BY DEF TypeInv, IdTypes
  <2>3. reply' \in [bytes : Seq(Nat), usLen : Nat]
    BY <1>7, <2>2 DEF ReportCopies, TypeInv, PollTypes
  <2>. QED
    BY <1>1, <1>7, <2>1, <2>3 DEF ReportCopies, TypeInv, PollTypes
<1>8. CASE ReportLength
  <2>1. poll' \in PollStates
    BY <1>8 DEF ReportLength, TypeInv, PollTypes, PollStates, PollIdle
  <2>2. reply' \in [bytes : Seq(Nat), usLen : Nat]
    <3>1. reply \in [bytes : Seq(Nat), usLen : Nat] /\ 1 + usMBSlaveIDLen \in Nat
      BY DEF TypeInv, PollTypes, IdTypes
    <3>. QED
      BY <1>8, <3>1 DEF ReportLength
  <2>. QED
    BY <1>1, <1>8, <2>1, <2>2 DEF ReportLength, TypeInv, PollTypes
<1>9. CASE Done
  BY <1>1, <1>9, NoReplyType DEF Done, TypeInv, PollTypes, PollStates
<1>. QED
  BY <1>2, <1>3, <1>4, <1>5, <1>6, <1>7, <1>8, <1>9 DEF eMBPoll, Search

\* TypeOK is the part of this that can be read at the variables.
LEMMA TypesAreOK == TypeInv => TypeOK
<1>. SUFFICES ASSUME TypeInv PROVE TypeOK
  OBVIOUS
<1>1. DOMAIN xFuncHandlers = Slots
  BY DEF TypeInv, TableTypes
<1>2. \A i \in Slots : /\ xFuncHandlers[i].ucFunctionCode \in 0 .. MaxCode
                       /\ xFuncHandlers[i].pxHandler \in Handlers \cup {NULL}
  BY DEF TypeInv, TableTypes, Entries
<1>3. app.step \in {"idle", "entry", "head", "rest"}
  BY DEF TypeInv, TableTypes, AppStates, AppIdle
<1>4. /\ poll.step \in Steps
      /\ poll.step \in {"search", "call"} => poll.slot \in 0 .. MB_FUNC_HANDLERS_MAX
  BY Constants DEF TypeInv, PollTypes, PollStates, PollIdle, Steps, Slots
<1>5. /\ DOMAIN ucMBSlaveID = 0 .. MB_FUNC_OTHER_REP_SLAVEID_BUF - 1
      /\ usMBSlaveIDLen <= MB_FUNC_OTHER_REP_SLAVEID_BUF
      /\ version \in 0 .. calls /\ calls \in 0 .. MaxCalls
  BY Constants DEF TypeInv, IdTypes
<1>6. {untidy, overlapped} \subseteq BOOLEAN
  BY DEF TypeInv, TableTypes, PollTypes
<1>. QED
  BY <1>1, <1>2, <1>3, <1>4, <1>5, <1>6 DEF TypeOK

\* No step leaves the types.
LEMMA NextTypes == TypeInv /\ [Next]_vars => TypeInv'
<1>. SUFFICES ASSUME TypeInv, [Next]_vars PROVE TypeInv'
  OBVIOUS
<1>1. CASE UNCHANGED vars
  BY <1>1 DEF vars, appVars, pollVars, TypeInv, TableTypes, IdTypes, PollTypes
<1>. QED
  BY <1>1, ApplicationTypes, PollStepTypes DEF Next

\* The table, the identifier and the dispatch keep their types: a search ends
\* within the table and an identifier within its buffer.
THEOREM TypeCorrect == Spec => []TypeOK
<1>1. Spec => []TypeInv
  BY InitTypes, NextTypes, PTL DEF Spec
<1>. QED
  BY <1>1, TypesAreOK, PTL

-----------------------------------------------------------------------------
(***************************************************************************)
(* What a dispatch calls.  CallsTheHandler says where a dispatch arrives;  *)
(* the invariant says how far it has come, and that outside of the entry   *)
(* that is being written no code is without its handler.                   *)
(***************************************************************************)
\* Outside of the entry that is being written every entry is used or unused.
EntriesInv ==
  \A i \in Slots : Paired(xFuncHandlers[i]) \/ (app.step = "entry" /\ app.slot = i)

\* How far a dispatch that nothing interferes with has come.
DispatchInv ==
  ~ overlapped =>
    /\ poll.step # "idle" => ~ Busy
    /\ poll.step # "crashed"
    /\ poll.step = "search" =>
         \A j \in Slots : j < poll.slot =>
           xFuncHandlers[j].ucFunctionCode \notin {0, poll.code}
    /\ poll.step = "call" =>
         /\ xFuncHandlers[poll.slot].ucFunctionCode # 0
         /\ IsFirst(poll.slot, Stops(poll.code))
    /\ poll.step \in {"copy", "length", "done"} => poll.called = Found(poll.code)

HandlerInv == TypeInv /\ EntriesInv /\ DispatchInv

\* A loop over the table has one entry at which it stops.
LEMMA FoundAtFirst ==
  ASSUME NEW code, NEW i \in Slots, IsFirst(i, Stops(code))
  PROVE  Found(code) = xFuncHandlers[i].pxHandler
<1>1. i \in Stops(code)
  BY DEF IsFirst
<1>2. \A j \in Slots : IsFirst(j, Stops(code)) => j = i
  BY Constants DEF IsFirst, Slots
<1>3. (CHOOSE j \in Slots : IsFirst(j, Stops(code))) = i
  BY <1>2
<1>. QED
  BY <1>1, <1>3 DEF Found

LEMMA InitHandlerInv == Init => HandlerInv
<1>. SUFFICES ASSUME Init PROVE HandlerInv
  OBVIOUS
<1>1. ASSUME NEW i \in Slots PROVE Paired(xFuncHandlers[i])
  <2>1. CASE i < Len(BuiltIn)
    <3>1. i + 1 \in 1 .. Len(BuiltIn) /\ xFuncHandlers[i] = BuiltIn[i + 1]
      BY <2>1, BuiltInEntries, Constants DEF Slots, Init
    <3>. QED
      BY <3>1, BuiltInEntries, Zenon DEF Paired
  <2>2. CASE ~ (i < Len(BuiltIn))
    BY <2>2, UnusedEntry DEF Init
  <2>. QED
    BY <2>1, <2>2
<1>2. DispatchInv
  BY DEF Init, DispatchInv, PollIdle
<1>. QED
  BY <1>1, <1>2, InitTypes DEF HandlerInv, EntriesInv

\* Only the entry that is being written can be without one of its fields.
LEMMA EntriesStay == TypeInv /\ EntriesInv /\ [Next]_vars => EntriesInv'
<1>. SUFFICES ASSUME TypeInv, EntriesInv, [Next]_vars PROVE EntriesInv'
  OBVIOUS
<1>1. ASSUME NEW i \in Slots, NEW new \in Entries, Paired(new), BeginEntry(i, new),
             app.step = "idle"
      PROVE  EntriesInv'
  <2>1. app'.step = "entry" /\ app'.slot = i
    BY <1>1 DEF BeginEntry
  <2>2. \A j \in Slots \ {i} : xFuncHandlers'[j] = xFuncHandlers[j]
    BY <1>1, BeginEntryTypes
  <2>. QED
    BY <1>1, <2>1, <2>2 DEF EntriesInv, Paired
<1>2. CASE Register
  BY <1>1, <1>2, EntryIsPaired DEF Register, Calls, Busy
<1>3. CASE Remove
  BY <1>1, <1>3, UnusedEntry DEF Remove, Calls, Busy
<1>4. CASE EndEntry
  <2>1. app.slot \in Slots /\ Paired(app.new)
    BY <1>4 DEF EndEntry, TypeInv, TableTypes, AppStates, AppIdle
  <2>2. /\ xFuncHandlers \in [Slots -> Entries]
        /\ xFuncHandlers' = [xFuncHandlers EXCEPT ![app.slot] = app.new]
    BY <1>4 DEF EndEntry, TypeInv, TableTypes
  <2>. QED
    BY <2>1, <2>2 DEF EntriesInv, Paired
<1>5. CASE SetSlaveID \/ SetHead \/ SetRest
  BY <1>5 DEF SetSlaveID, SetHead, SetRest, Calls, Busy, EntriesInv, Paired
<1>6. CASE eMBPoll \/ UNCHANGED vars
  BY <1>6 DEF eMBPoll, Execute, Search, Call, ReportCopies, ReportLength, Done, vars,
              appVars, EntriesInv, Paired
<1>. QED
  BY <1>2, <1>3, <1>4, <1>5, <1>6 DEF Next, Application

\* A dispatch goes to the first entry with its code, unless it is interfered with.
LEMMA DispatchStays == HandlerInv /\ [Next]_vars => DispatchInv'
<1>. SUFFICES ASSUME HandlerInv, [Next]_vars, ~ overlapped' PROVE DispatchInv'
  BY DEF DispatchInv
<1>. USE Constants DEF HandlerInv
<1>1. CASE Register \/ Remove \/ SetSlaveID
  BY <1>1 DEF Register, Remove, BeginEntry, SetSlaveID
<1>2. CASE EndEntry \/ SetHead \/ SetRest
  <2>1. ~ overlapped /\ Busy /\ UNCHANGED poll
    BY <1>2 DEF EndEntry, SetHead, SetRest, Busy, pollVars
  <2>2. poll = PollIdle
    BY <2>1 DEF DispatchInv, TypeInv, PollTypes, PollStates
  <2>. QED
    BY <2>1, <2>2 DEF DispatchInv, PollIdle
<1>3. CASE Execute
  <2>1. PICK code \in Codes : poll' = [step |-> "search", code |-> code, slot |-> 0]
    BY <1>3 DEF Execute
  <2>2. ~ Busy'
    BY <1>3 DEF Execute, Busy, appVars
  <2>. QED
    BY <2>1, <2>2 DEF DispatchInv, Slots
<1>4. CASE SearchEnds /\ UNCHANGED <<appVars, reply, overlapped>>
  <2>1. /\ ~ Busy /\ poll.slot \in 0 .. MB_FUNC_HANDLERS_MAX
        /\ \A j \in Slots : j < poll.slot =>
              xFuncHandlers[j].ucFunctionCode \notin {0, poll.code}
    BY <1>4 DEF SearchEnds, Searching, DispatchInv, TypeInv, PollTypes, PollStates,
                PollIdle
  <2>2. CASE poll.slot \notin Slots
    <3>1. Stops(poll.code) = {}
      BY <2>1, <2>2 DEF Stops, With, Slots
    <3>. QED
      BY <1>4, <2>1, <3>1 DEF SearchEnds, Found, Stops, With, appVars, DispatchInv, Busy
  <2>3. CASE poll.slot \in Slots
    <3>1. /\ xFuncHandlers[poll.slot].ucFunctionCode = 0
          /\ xFuncHandlers[poll.slot].pxHandler = NULL
      BY <1>4, <2>1, <2>3 DEF SearchEnds, NoMore, EntriesInv, Paired, Busy
    <3>2. IsFirst(poll.slot, Stops(poll.code))
      BY <2>1, <2>3, <3>1 DEF IsFirst, Stops, With, Slots
    <3>3. Found(poll.code) = NULL
      BY <2>3, <3>1, <3>2, FoundAtFirst
    <3>. QED
      BY <1>4, <2>1, <3>3 DEF SearchEnds, Found, Stops, With, appVars, DispatchInv, Busy
  <2>. QED
    BY <2>2, <2>3
<1>5. CASE SearchFinds /\ UNCHANGED <<appVars, reply, overlapped>>
  <2>1. /\ ~ Busy /\ poll.slot \in Slots
        /\ xFuncHandlers[poll.slot].ucFunctionCode # 0
        /\ xFuncHandlers[poll.slot].ucFunctionCode = poll.code
        /\ \A j \in Slots : j < poll.slot =>
              xFuncHandlers[j].ucFunctionCode \notin {0, poll.code}
    BY <1>5 DEF SearchFinds, Searching, NoMore, DispatchInv
  <2>2. IsFirst(poll.slot, Stops(poll.code))
    BY <2>1 DEF IsFirst, Stops, With, Slots
  <2>3. poll'.step = "call" /\ poll'.slot = poll.slot /\ poll'.code = poll.code
    BY <1>5 DEF SearchFinds, Searching, TypeInv, PollTypes, PollStates, PollIdle
  <2>. QED
    BY <1>5, <2>1, <2>2, <2>3 DEF DispatchInv, Stops, With, appVars, Busy
<1>6. CASE SearchGoesOn /\ UNCHANGED <<appVars, reply, overlapped>>
  <2>1. /\ ~ Busy /\ poll.slot \in Slots
        /\ xFuncHandlers[poll.slot].ucFunctionCode \notin {0, poll.code}
        /\ \A j \in Slots : j < poll.slot =>
              xFuncHandlers[j].ucFunctionCode \notin {0, poll.code}
    BY <1>6 DEF SearchGoesOn, Searching, NoMore, DispatchInv
  <2>2. poll'.step = "search" /\ poll'.slot = poll.slot + 1 /\ poll'.code = poll.code
    BY <1>6 DEF SearchGoesOn, Searching, TypeInv, PollTypes, PollStates, PollIdle
  <2>3. \A j \in Slots : j < poll.slot + 1 => j < poll.slot \/ j = poll.slot
    BY <2>1 DEF Slots
  <2>. QED
    BY <1>6, <2>1, <2>2, <2>3 DEF DispatchInv, appVars, Busy
<1>7. CASE Call
  <2>1. /\ ~ overlapped /\ ~ Busy /\ poll.slot \in Slots
        /\ xFuncHandlers[poll.slot].ucFunctionCode # 0
        /\ IsFirst(poll.slot, Stops(poll.code))
    BY <1>7 DEF Call, DispatchInv, TypeInv, PollTypes, PollStates, PollIdle
  <2>2. xFuncHandlers[poll.slot].pxHandler # NULL
    BY <2>1 DEF EntriesInv, Paired, Busy
  <2>3. xFuncHandlers[poll.slot].pxHandler = Found(poll.code)
    BY <2>1, FoundAtFirst
  <2>4. /\ poll'.step \in {"copy", "done"} /\ poll'.code = poll.code
        /\ poll'.called = Found(poll.code)
    BY <1>7, <2>2, <2>3 DEF Call
  <2>5. ~ Busy' /\ Found(poll.code)' = Found(poll.code)
    BY <1>7, <2>1, <2>4 DEF Call, Found, Stops, With, appVars, Busy
  <2>. QED
    BY <2>4, <2>5 DEF DispatchInv
<1>8. CASE ReportCopies \/ ReportLength
  <2>1. /\ ~ overlapped /\ ~ Busy /\ poll.called = Found(poll.code)
        /\ poll'.step \in {"length", "done"} /\ poll'.code = poll.code
        /\ poll'.called = poll.called
    BY <1>8 DEF ReportCopies, ReportLength, DispatchInv, TypeInv, PollTypes, PollStates,
                PollIdle
  <2>2. ~ Busy' /\ Found(poll.code)' = Found(poll.code)
    <3>1. UNCHANGED <<xFuncHandlers, app>>
      BY <1>8 DEF ReportCopies, ReportLength, appVars
    <3>. QED
      BY <2>1, <3>1 DEF Found, Stops, With, Busy
  <2>. QED
    BY <2>1, <2>2 DEF DispatchInv
<1>9. CASE Done
  BY <1>9 DEF Done, PollIdle, DispatchInv
<1>10. CASE UNCHANGED vars
  BY <1>10 DEF vars, appVars, pollVars, DispatchInv, Busy, Found, Stops, With
<1>. QED
  BY <1>1, <1>2, <1>3, <1>4, <1>5, <1>6, <1>7, <1>8, <1>9, <1>10
  DEF Next, Application, eMBPoll, Search

LEMMA NextHandlerInv == HandlerInv /\ [Next]_vars => HandlerInv'
BY NextTypes, EntriesStay, DispatchStays DEF HandlerInv

\* A dispatch that no call of the application interferes with is given to the
\* handler that the table has for its code, and eMBPoll never calls NULL in one.
THEOREM RequestsAreDispatched == Spec => []CallsTheHandler
<1>1. Spec => []HandlerInv
  BY InitHandlerInv, NextHandlerInv, PTL DEF Spec
<1>2. HandlerInv => CallsTheHandler
  BY DEF HandlerInv, DispatchInv, CallsTheHandler
<1>. QED
  BY <1>1, <1>2, PTL

-----------------------------------------------------------------------------
(***************************************************************************)
(* What ReportSlaveID answers.  ReportIsWhole speaks of the end of a       *)
(* dispatch; the invariant adds what the buffer holds between two calls    *)
(* of eMBSetSlaveID and after the first half of one.                       *)
(***************************************************************************)
\* What the bytes hold at each step of eMBSetSlaveID.
SlaveIDInv ==
  /\ ~ Busy \/ app.step = "entry" =>
       /\ usMBSlaveIDLen = whole.len /\ whole.len <= MB_FUNC_OTHER_REP_SLAVEID_BUF
       /\ \A i \in 0 .. whole.len - 1 : ucMBSlaveID[i] = whole.version
  /\ app.step = "rest" => ucMBSlaveID[0] = version /\ ucMBSlaveID[1] = version

\* How far a report that nothing interferes with has come.
IsWhole(bytes) == bytes = [i \in 1 .. whole.len |-> whole.version]

ReportInv ==
  ~ overlapped =>
    /\ poll.step \in {"copy", "length"} => poll.called = eMBFuncReportSlaveID
    /\ poll.step = "length" => IsWhole(reply.bytes)
    /\ poll.step = "done" /\ poll.called = eMBFuncReportSlaveID =>
         IsWhole(reply.bytes) /\ reply.usLen = 1 + whole.len

IdentifierInv == TypeInv /\ EntriesInv /\ DispatchInv /\ SlaveIDInv /\ ReportInv

LEMMA InitIdentifierInv == Init => IdentifierInv
<1>. SUFFICES ASSUME Init PROVE IdentifierInv
  OBVIOUS
<1>1. HandlerInv
  BY InitHandlerInv
<1>2. SlaveIDInv
  BY Constants DEF Init, SlaveIDInv, AppIdle
<1>3. ReportInv
  BY DEF Init, ReportInv, PollIdle
<1>. QED
  BY <1>1, <1>2, <1>3 DEF HandlerInv, IdentifierInv

\* A call of eMBSetSlaveID leaves all bytes of its identifier.
LEMMA SlaveIDStays == TypeInv /\ SlaveIDInv /\ [Next]_vars => SlaveIDInv'
<1>. SUFFICES ASSUME TypeInv, SlaveIDInv, [Next]_vars PROVE SlaveIDInv'
  OBVIOUS
<1>. USE Constants
<1>1. CASE Register \/ Remove
  <2>1. ~ Busy /\ app'.step = "entry" /\ UNCHANGED <<ucMBSlaveID, usMBSlaveIDLen, whole>>
    BY <1>1 DEF Register, Remove, Calls, BeginEntry
  <2>. QED
    BY <2>1 DEF SlaveIDInv
<1>2. CASE EndEntry
  <2>1. app.step = "entry" /\ app'.step = "idle"
        /\ UNCHANGED <<ucMBSlaveID, usMBSlaveIDLen, whole>>
    BY <1>2 DEF EndEntry, AppIdle
  <2>. QED
    BY <2>1 DEF SlaveIDInv
<1>3. CASE SetSlaveID
  <2>1. app'.step = "head"
    BY <1>3 DEF SetSlaveID
  <2>. QED
    BY <2>1 DEF SlaveIDInv, Busy
<1>4. CASE SetHead
  <2>1. app.step = "head" /\ app' = [app EXCEPT !.step = "rest"]
    BY <1>4 DEF SetHead
  <2>2. app'.step = "rest"
    BY <2>1 DEF TypeInv, TableTypes, AppStates, AppIdle
  <2>3. ucMBSlaveID'[0] = version /\ ucMBSlaveID'[1] = version /\ version' = version
    BY <1>4 DEF SetHead, WithBytes
  <2>. QED
    BY <2>2, <2>3 DEF SlaveIDInv, Busy
<1>5. CASE SetRest
  <2>1. /\ app.step = "rest" /\ app.len \in Nat
        /\ 2 + app.len <= MB_FUNC_OTHER_REP_SLAVEID_BUF
    <3>1. app.step = "rest" /\ app \in AppStates
      BY <1>5 DEF SetRest, TypeInv, TableTypes
    <3>2. app \in [step : {"head", "rest"}, len : { n \in AdditionalLens : Fits(n) }]
      BY <3>1 DEF AppStates, AppIdle
    <3>3. app.len \in AdditionalLens /\ Fits(app.len)
      BY <3>2
    <3>4. \A n \in Nat : Fits(n) => 2 + n <= MB_FUNC_OTHER_REP_SLAVEID_BUF
      BY DEF Fits
    <3>5. app.len \in Nat
      BY <3>3
    <3>. QED
      BY <3>1, <3>3, <3>4, <3>5, Zenon
  <2>2. app'.step = "idle"
    BY <1>5 DEF SetRest, AppIdle
  <2>3. usMBSlaveIDLen' = 2 + app.len /\ whole'.len = 2 + app.len /\ whole'.version = version
    BY <1>5 DEF SetRest
  <2>4. ucMBSlaveID' = WithBytes(2, 2 + app.len, version)
    BY <1>5 DEF SetRest
  <2>5. DOMAIN ucMBSlaveID = 0 .. MB_FUNC_OTHER_REP_SLAVEID_BUF - 1
    BY DEF TypeInv, IdTypes
  <2>6. ASSUME NEW i \in 0 .. (2 + app.len) - 1 PROVE ucMBSlaveID'[i] = version
    <3>1. CASE i \in 2 .. (2 + app.len) - 1
      <4>1. i \in DOMAIN ucMBSlaveID \cup 2 .. (2 + app.len) - 1
        BY <3>1
      <4>2. WithBytes(2, 2 + app.len, version)[i] = version
        BY <3>1, <4>1, WithBytesValues
      <4>. QED
        BY <2>4, <4>2
    <3>2. CASE i \in {0, 1}
      <4>1. ucMBSlaveID[i] = version
        BY <2>1, <3>2 DEF SlaveIDInv
      <4>2. i \in DOMAIN ucMBSlaveID /\ i \notin 2 .. (2 + app.len) - 1
        BY <2>1, <2>5, <3>2
      <4>3. WithBytes(2, 2 + app.len, version)[i] = ucMBSlaveID[i]
        BY <4>2, WithBytesValues
      <4>. QED
        BY <2>4, <4>1, <4>3
    <3>. QED
      BY <2>1, <3>1, <3>2
  <2>. QED
    BY <2>1, <2>2, <2>3, <2>6 DEF SlaveIDInv
<1>6. CASE eMBPoll \/ UNCHANGED vars
  <2>1. UNCHANGED <<app, ucMBSlaveID, usMBSlaveIDLen, whole, version>>
    BY <1>6 DEF eMBPoll, Execute, Search, Call, ReportCopies, ReportLength, Done, vars,
                appVars
  <2>. QED
    BY <2>1 DEF SlaveIDInv, Busy
<1>. QED
  BY <1>1, <1>2, <1>3, <1>4, <1>5, <1>6 DEF Next, Application

\* A report copies what the buffer holds, and then the length of it.
LEMMA ReportStays == IdentifierInv /\ [Next]_vars => ReportInv'
<1>. SUFFICES ASSUME IdentifierInv, [Next]_vars, ~ overlapped' PROVE ReportInv'
  BY DEF ReportInv
<1>. USE Constants DEF IdentifierInv
<1>1. CASE Register \/ Remove \/ SetSlaveID
  BY <1>1 DEF Register, Remove, BeginEntry, SetSlaveID
<1>2. CASE EndEntry \/ SetHead \/ SetRest
  <2>1. ~ overlapped /\ Busy /\ UNCHANGED poll
    BY <1>2 DEF EndEntry, SetHead, SetRest, Busy, pollVars
  <2>2. poll = PollIdle
    BY <2>1 DEF DispatchInv, TypeInv, PollTypes, PollStates
  <2>. QED
    BY <2>1, <2>2 DEF ReportInv, PollIdle
<1>3. CASE Execute
  BY <1>3 DEF Execute, ReportInv
<1>4. CASE Search
  <2>1. \/ poll'.step \in {"search", "call"}
        \/ poll'.step = "done" /\ poll'.called = NULL
    BY <1>4 DEF Search, SearchEnds, SearchFinds, SearchGoesOn, Searching, TypeInv,
                PollTypes, PollStates, PollIdle
  <2>. QED
    BY <2>1 DEF ReportInv
<1>5. CASE Call
  <2>1. /\ poll'.step \in {"copy", "done", "crashed"}
        /\ poll'.step = "copy" => poll'.called = eMBFuncReportSlaveID
        /\ poll'.step = "done" => poll'.called # eMBFuncReportSlaveID
    BY <1>5 DEF Call
  <2>. QED
    BY <2>1 DEF ReportInv
<1>6. CASE ReportCopies
  <2>1. /\ ~ Busy /\ poll.called = eMBFuncReportSlaveID
        /\ poll'.step = "length" /\ poll'.called = poll.called
    BY <1>6 DEF ReportCopies, ReportInv, DispatchInv, TypeInv, PollTypes, PollStates,
                PollIdle
  <2>2. reply'.bytes = [i \in 1 .. usMBSlaveIDLen |-> ucMBSlaveID[i - 1]]
    BY <1>6 DEF ReportCopies, TypeInv, PollTypes
  <2>3. usMBSlaveIDLen = whole.len /\ whole.len \in Nat
        /\ \A i \in 0 .. whole.len - 1 : ucMBSlaveID[i] = whole.version
    BY <2>1 DEF SlaveIDInv, TypeInv, IdTypes
  <2>4. [i \in 1 .. usMBSlaveIDLen |-> ucMBSlaveID[i - 1]]
          = [i \in 1 .. whole.len |-> whole.version]
    BY <2>3
  <2>5. whole' = whole
    BY <1>6 DEF ReportCopies, appVars
  <2>. QED
    BY <2>1, <2>2, <2>4, <2>5 DEF ReportInv, IsWhole
<1>7. CASE ReportLength
  <2>1. /\ ~ Busy /\ IsWhole(reply.bytes)
        /\ poll'.step = "done"
    BY <1>7 DEF ReportLength, ReportInv, DispatchInv, TypeInv, PollTypes, PollStates,
                PollIdle
  <2>2. reply'.bytes = reply.bytes /\ reply'.usLen = 1 + usMBSlaveIDLen
    BY <1>7 DEF ReportLength, TypeInv, PollTypes
  <2>3. usMBSlaveIDLen = whole.len
    BY <2>1 DEF SlaveIDInv
  <2>4. whole' = whole
    BY <1>7 DEF ReportLength, appVars
  <2>. QED
    BY <2>1, <2>2, <2>3, <2>4 DEF ReportInv, IsWhole
<1>8. CASE Done
  BY <1>8 DEF Done, PollIdle, ReportInv
<1>9. CASE UNCHANGED vars
  BY <1>9 DEF vars, appVars, pollVars, ReportInv, IsWhole
<1>. QED
  BY <1>1, <1>2, <1>3, <1>4, <1>5, <1>6, <1>7, <1>8, <1>9 DEF Next, Application, eMBPoll

LEMMA NextIdentifierInv == IdentifierInv /\ [Next]_vars => IdentifierInv'
BY NextHandlerInv, SlaveIDStays, ReportStays DEF IdentifierInv, HandlerInv

\* A report that no call of eMBSetSlaveID interferes with has all bytes of the
\* identifier that was set last, none of another one, and its length.
THEOREM ReportsAreWhole == Spec => []ReportIsWhole
<1>1. Spec => []IdentifierInv
  BY InitIdentifierInv, NextIdentifierInv, PTL DEF Spec
<1>2. IdentifierInv => ReportIsWhole
  BY DEF IdentifierInv, ReportInv, IsWhole, ReportIsWhole
<1>. QED
  BY <1>1, <1>2, PTL

-----------------------------------------------------------------------------
(***************************************************************************)
(* Which handler the table has for a code.  RegisteredIsServed compares    *)
(* the table with what the calls ask for between two calls only, and says  *)
(* nothing of the handlers being different ones, without which a handler   *)
(* that is registered for another code would stay with its old one.        *)
(***************************************************************************)
\* The table as the call that is under way leaves it.
Written ==
  IF app.step = "entry" THEN [xFuncHandlers EXCEPT ![app.slot] = app.new]
  ELSE xFuncHandlers

\* Each handler once, each code with the handler that the calls ask for.
Serves(table, b) ==
  /\ \A i, j \in Slots :
       table[i].pxHandler = table[j].pxHandler => i = j \/ table[i].pxHandler = NULL
  /\ \A c \in ValidCodes :
       /\ \A i \in Slots : table[i].ucFunctionCode = c => b[c] = table[i].pxHandler
       /\ (\A i \in Slots : table[i].ucFunctionCode # c) => b[c] = NULL

BindingInv ==
  ~ untidy =>
    /\ app.step # "entry" => Tidy(xFuncHandlers)
    /\ Tidy(Written) => Serves(Written, bound)

ServiceInv == TypeInv /\ BindingInv

\* A set of numbers has a least one.
LEMMA LeastNat ==
  ASSUME NEW S \in SUBSET Nat, S # {}
  PROVE  \E i \in S : \A j \in S : i <= j
<1>. DEFINE Less == { p \in Nat \X Nat : p[1] < p[2] }
<1>1. IsWellFoundedOn(Less, Nat)
  BY NatLessThanWellFounded DEF OpToRel
<1>2. PICK i \in S : \A j \in S : ~ (<<j, i>> \in Less)
  BY <1>1, WFMin
<1>3. \A j \in S : ~ (j < i)
  <2>1. ASSUME NEW j \in S, j < i PROVE <<j, i>> \in Less
    BY <2>1
  <2>. QED
    BY <1>2, <2>1
<1>. QED
  BY <1>3

\* In a tidy table that serves, the search finds what is asked for.
LEMMA TidyServes ==
  ASSUME TypeInv, Tidy(xFuncHandlers), Serves(xFuncHandlers, bound), NEW code \in ValidCodes
  PROVE  Found(code) = bound[code]
<1>1. code # 0
  BY Constants DEF ValidCodes
<1>2. CASE \E i \in Slots : xFuncHandlers[i].ucFunctionCode = code
  <2>1. PICK i \in Slots : xFuncHandlers[i].ucFunctionCode = code
    BY <1>2
  <2>2. \A j \in Slots : j < i => xFuncHandlers[j].ucFunctionCode \notin {0, code}
    BY <1>1, <2>1 DEF Tidy
  <2>3. IsFirst(i, Stops(code))
    BY <2>1, <2>2, Constants DEF IsFirst, Stops, With, Slots
  <2>4. Found(code) = xFuncHandlers[i].pxHandler
    BY <2>3, FoundAtFirst
  <2>. QED
    BY <2>1, <2>4 DEF Serves
<1>3. CASE ~ \E i \in Slots : xFuncHandlers[i].ucFunctionCode = code
  <2>1. bound[code] = NULL
    BY <1>3 DEF Serves
  <2>2. CASE Stops(code) = {}
    BY <2>1, <2>2 DEF Found
  <2>3. CASE Stops(code) # {}
    <3>1. Stops(code) = With(0)
      BY <1>3 DEF Stops, With
    <3>2. \A i \in Stops(code) : xFuncHandlers[i].pxHandler = NULL
      BY <3>1 DEF With, Tidy
    <3>3. Stops(code) \subseteq Nat /\ Stops(code) \subseteq Slots
      BY Constants DEF Stops, With, Slots
    <3>4. PICK i \in Stops(code) : \A j \in Stops(code) : i <= j
      BY <2>3, <3>3, LeastNat
    <3>5. IsFirst(i, Stops(code)) /\ i \in Slots
      BY <3>3, <3>4 DEF IsFirst
    <3>. QED
      BY <2>1, <3>2, <3>4, <3>5, FoundAtFirst
  <2>. QED
    BY <2>2, <2>3
<1>. QED
  BY <1>2, <1>3

\* Registering takes the handler from the code that it had, and replaces it.
LEMMA RegisterServes ==
  ASSUME NEW T \in [Slots -> Entries], NEW b \in [ValidCodes -> Handlers \cup {NULL}],
         Tidy(T), Serves(T, b),
         NEW code \in ValidCodes, NEW handler \in Handlers, NEW i \in Slots,
         T[i].pxHandler \in {NULL, handler},
         \A k \in Slots : k < i => T[k].pxHandler \notin {NULL, handler},
         NEW U, U = [T EXCEPT ![i] = Entry(code, handler)], Tidy(U)
  PROVE  Serves(U, [c \in ValidCodes |-> IF c = code THEN handler
                                         ELSE IF b[c] = handler THEN NULL ELSE b[c]])
<1>. DEFINE bb == [c \in ValidCodes |-> IF c = code THEN handler
                                       ELSE IF b[c] = handler THEN NULL ELSE b[c]]
<1>. USE Constants
<1>1. ASSUME NEW k \in Slots, k # i PROVE T[k].pxHandler # handler
  <2>1. CASE k < i
    BY <2>1
  <2>2. CASE i < k /\ T[i].pxHandler = handler
    BY <1>1, <2>2 DEF Serves
  <2>3. CASE i < k /\ T[i].pxHandler = NULL
    BY <2>3 DEF Tidy
  <2>. QED
    BY <1>1, <2>1, <2>2, <2>3 DEF Slots
<1>2. /\ U[i].ucFunctionCode = code /\ U[i].pxHandler = handler
      /\ \A k \in Slots : k # i => U[k] = T[k]
  BY DEF Entry
<1>3. \A k, l \in Slots :
        U[k].pxHandler = U[l].pxHandler => k = l \/ U[k].pxHandler = NULL
  BY <1>1, <1>2 DEF Serves
<1>4. ASSUME NEW c \in ValidCodes, NEW k \in Slots, U[k].ucFunctionCode = c
      PROVE  bb[c] = U[k].pxHandler
  <2>1. CASE k = i
    BY <1>2, <1>4, <2>1
  <2>2. CASE k # i
    <3>1. c # code
      <4>1. k < i \/ i < k
        BY <2>2 DEF Slots
      <4>2. code # 0
        BY DEF ValidCodes
      <4>. QED
        BY <1>2, <1>4, <4>1, <4>2 DEF Tidy
    <3>2. b[c] = T[k].pxHandler /\ T[k].pxHandler # handler
      BY <1>1, <1>2, <1>4, <2>2 DEF Serves
    <3>. QED
      BY <1>2, <2>2, <3>1, <3>2
  <2>. QED
    BY <2>1, <2>2
<1>5. ASSUME NEW c \in ValidCodes, \A k \in Slots : U[k].ucFunctionCode # c
      PROVE  bb[c] = NULL
  <2>1. c # code
    BY <1>2, <1>5
  <2>2. CASE T[i].ucFunctionCode = c
    <3>1. c # 0
      BY DEF ValidCodes
    <3>2. T[i].pxHandler = handler
      BY <2>2, <3>1 DEF Tidy
    <3>3. b[c] = handler
      BY <2>2, <3>2 DEF Serves
    <3>. QED
      BY <2>1, <3>3
  <2>3. CASE T[i].ucFunctionCode # c
    <3>1. \A k \in Slots : T[k].ucFunctionCode # c
      BY <1>2, <1>5, <2>3
    <3>2. b[c] = NULL
      BY <3>1 DEF Serves
    <3>. QED
      BY <2>1, <3>2
  <2>. QED
    BY <2>2, <2>3
<1>. QED
  BY <1>3, <1>4, <1>5 DEF Serves

\* Removing a code leaves the others.
LEMMA RemoveServes ==
  ASSUME NEW T \in [Slots -> Entries], NEW b \in [ValidCodes -> Handlers \cup {NULL}],
         Tidy(T), Serves(T, b),
         NEW code \in ValidCodes, NEW i \in Slots, T[i].ucFunctionCode = code,
         NEW U, U = [T EXCEPT ![i] = Unused]
  PROVE  Serves(U, [b EXCEPT ![code] = NULL])
<1>. DEFINE bb == [b EXCEPT ![code] = NULL]
<1>. USE Constants
<1>1. code # 0 /\ 0 \notin ValidCodes
  BY DEF ValidCodes
<1>2. /\ U[i].ucFunctionCode = 0 /\ U[i].pxHandler = NULL
      /\ \A k \in Slots : k # i => U[k] = T[k]
  BY DEF Unused, Entry
<1>3. \A k, l \in Slots :
        U[k].pxHandler = U[l].pxHandler => k = l \/ U[k].pxHandler = NULL
  BY <1>2 DEF Serves
<1>4. ASSUME NEW c \in ValidCodes, NEW k \in Slots, U[k].ucFunctionCode = c
      PROVE  bb[c] = U[k].pxHandler
  <2>1. k # i /\ T[k].ucFunctionCode = c
    BY <1>1, <1>2, <1>4
  <2>2. c # code
    <3>1. k < i \/ i < k
      BY <2>1 DEF Slots
    <3>. QED
      BY <1>1, <2>1, <3>1 DEF Tidy
  <2>. QED
    BY <1>2, <2>1, <2>2 DEF Serves
<1>5. ASSUME NEW c \in ValidCodes, \A k \in Slots : U[k].ucFunctionCode # c
      PROVE  bb[c] = NULL
  <2>1. CASE c = code
    BY <2>1
  <2>2. CASE c # code
    <3>1. \A k \in Slots : T[k].ucFunctionCode # c
      BY <1>2, <1>5, <2>2
    <3>. QED
      BY <2>2, <3>1 DEF Serves
  <2>. QED
    BY <2>1, <2>2
<1>. QED
  BY <1>3, <1>4, <1>5 DEF Serves

LEMMA InitServiceInv == Init => ServiceInv
<1>. SUFFICES ASSUME Init PROVE ServiceInv
  OBVIOUS
<1>. USE Constants
<1>1. /\ TypeInv /\ EntriesInv
      /\ app.step = "idle" /\ Written = xFuncHandlers
  BY InitHandlerInv DEF HandlerInv, Init, AppIdle, Written
<1>2. ASSUME NEW i \in Slots
      PROVE  \/ /\ i < Len(BuiltIn) /\ i + 1 \in 1 .. Len(BuiltIn)
                /\ xFuncHandlers[i] = BuiltIn[i + 1]
                /\ xFuncHandlers[i].ucFunctionCode # 0
                /\ xFuncHandlers[i].pxHandler # NULL
             \/ /\ ~ (i < Len(BuiltIn)) /\ xFuncHandlers[i].ucFunctionCode = 0
                /\ xFuncHandlers[i].pxHandler = NULL
  <2>1. CASE i < Len(BuiltIn)
    <3>1. i + 1 \in 1 .. Len(BuiltIn) /\ xFuncHandlers[i] = BuiltIn[i + 1]
      BY <2>1, BuiltInEntries DEF Slots, Init
    <3>. QED
      BY <2>1, <3>1, BuiltInEntries, Zenon
  <2>2. CASE ~ (i < Len(BuiltIn))
    BY <2>2 DEF Init, Unused, Entry
  <2>. QED
    BY <2>1, <2>2
<1>3. ASSUME NEW i \in Slots, NEW j \in Slots, i # j,
             i < Len(BuiltIn), j < Len(BuiltIn)
      PROVE  /\ xFuncHandlers[i].ucFunctionCode # xFuncHandlers[j].ucFunctionCode
             /\ xFuncHandlers[i].pxHandler # xFuncHandlers[j].pxHandler
  <2>1. /\ i + 1 \in 1 .. Len(BuiltIn) /\ j + 1 \in 1 .. Len(BuiltIn) /\ i + 1 # j + 1
        /\ xFuncHandlers[i] = BuiltIn[i + 1] /\ xFuncHandlers[j] = BuiltIn[j + 1]
    BY <1>2, <1>3 DEF Slots
  <2>. QED
    BY <2>1, BuiltInEntries, Zenon
<1>4. Tidy(xFuncHandlers)
  <2>1. ASSUME NEW i \in Slots, NEW j \in Slots, i < j,
               xFuncHandlers[j].ucFunctionCode # 0
        PROVE  xFuncHandlers[i].ucFunctionCode \notin {0, xFuncHandlers[j].ucFunctionCode}
    <3>1. j < Len(BuiltIn)
      BY <1>2, <2>1
    <3>2. i < Len(BuiltIn) /\ i # j
      BY <2>1, <3>1, BuiltInEntries DEF Slots
    <3>. QED
      BY <1>2, <1>3, <3>1, <3>2
  <2>. QED
    BY <1>2, <2>1 DEF Tidy
<1>5. \A i, j \in Slots : xFuncHandlers[i].pxHandler = xFuncHandlers[j].pxHandler
        => i = j \/ xFuncHandlers[i].pxHandler = NULL
  BY <1>2, <1>3
<1>6. ASSUME NEW c \in ValidCodes
      PROVE  /\ \A i \in Slots : xFuncHandlers[i].ucFunctionCode = c =>
                  bound[c] = xFuncHandlers[i].pxHandler
             /\ (\A i \in Slots : xFuncHandlers[i].ucFunctionCode # c) => bound[c] = NULL
  <2>1. bound[c] = IF \E k \in 1 .. Len(BuiltIn) : BuiltIn[k].ucFunctionCode = c
                   THEN BuiltIn[CHOOSE k \in 1 .. Len(BuiltIn) :
                                  BuiltIn[k].ucFunctionCode = c].pxHandler
                   ELSE NULL
    BY DEF Init
  <2>2. ASSUME NEW i \in Slots, xFuncHandlers[i].ucFunctionCode = c
        PROVE  bound[c] = xFuncHandlers[i].pxHandler
    <3>1. c # 0
      BY DEF ValidCodes
    <3>2. /\ i + 1 \in 1 .. Len(BuiltIn) /\ BuiltIn[i + 1].ucFunctionCode = c
          /\ xFuncHandlers[i] = BuiltIn[i + 1]
      BY <1>2, <2>2, <3>1
    <3>3. \A k \in 1 .. Len(BuiltIn) : BuiltIn[k].ucFunctionCode = c => k = i + 1
      BY <3>2, BuiltInEntries, Zenon
    <3>4. (CHOOSE k \in 1 .. Len(BuiltIn) : BuiltIn[k].ucFunctionCode = c) = i + 1
      BY <3>2, <3>3, Zenon
    <3>. QED
      BY <2>1, <3>2, <3>4, Zenon
  <2>3. ASSUME \A i \in Slots : xFuncHandlers[i].ucFunctionCode # c PROVE bound[c] = NULL
    <3>1. ASSUME NEW k \in 1 .. Len(BuiltIn) PROVE BuiltIn[k].ucFunctionCode # c
      <4>1. k - 1 \in Slots /\ k - 1 < Len(BuiltIn) /\ (k - 1) + 1 = k
        BY BuiltInEntries, HandlersAssumption DEF Slots, HandlersAssumption
      <4>2. xFuncHandlers[k - 1] = BuiltIn[(k - 1) + 1]
        BY <1>2, <4>1
      <4>3. xFuncHandlers[k - 1] = BuiltIn[k]
        BY <4>1, <4>2, Zenon
      <4>. QED
        BY <2>3, <4>1, <4>3, Zenon
    <3>. QED
      BY <2>1, <3>1, Zenon
  <2>. QED
    BY <2>2, <2>3
<1>7. Serves(xFuncHandlers, bound)
  BY <1>5, <1>6 DEF Serves
<1>. QED
  BY <1>1, <1>4, <1>7 DEF ServiceInv, BindingInv

\* The table that a call leaves is that of before with one entry changed.
LEMMA WrittenByCall ==
  ASSUME TypeInv, NEW i \in Slots, NEW new \in Entries, Paired(new), BeginEntry(i, new)
  PROVE  app'.step = "entry" /\ Written' = [xFuncHandlers EXCEPT ![i] = new]
<1>1. app' = [step |-> "entry", slot |-> i, new |-> new]
  BY DEF BeginEntry
<1>2. /\ xFuncHandlers \in [Slots -> Entries] /\ xFuncHandlers' \in [Slots -> Entries]
      /\ \A j \in Slots \ {i} : xFuncHandlers'[j] = xFuncHandlers[j]
  BY BeginEntryTypes DEF TypeInv, TableTypes
<1>3. Written' = [xFuncHandlers' EXCEPT ![i] = new]
  BY <1>1 DEF Written
<1>4. [xFuncHandlers' EXCEPT ![i] = new] = [xFuncHandlers EXCEPT ![i] = new]
  BY <1>2
<1>. QED
  BY <1>1, <1>3, <1>4

\* Each call leaves the table that it asks for, as long as that is a tidy one.
LEMMA BindingStays == ServiceInv /\ [Next]_vars => BindingInv'
<1>. SUFFICES ASSUME ServiceInv, [Next]_vars, ~ untidy' PROVE BindingInv'
  BY DEF BindingInv
<1>. USE Constants DEF ServiceInv
<1>1. CASE Register
  <2>1. PICK code \in ValidCodes, handler \in Handlers, i \in Slots :
          /\ IsFirst(i, Taking(handler))
          /\ BeginEntry(i, Entry(code, handler))
          /\ bound' = [c \in ValidCodes |-> IF c = code THEN handler
                                            ELSE IF bound[c] = handler THEN NULL
                                            ELSE bound[c]]
    BY <1>1 DEF Register
  <2>2. /\ ~ untidy /\ app.step = "idle"
        /\ Tidy(xFuncHandlers) /\ Serves(xFuncHandlers, bound)
    BY <1>1, <2>1 DEF Register, Calls, Busy, BeginEntry, BindingInv, Written
  <2>3. app'.step = "entry" /\ Written' = [xFuncHandlers EXCEPT ![i] = Entry(code, handler)]
    BY <2>1, EntryIsPaired, WrittenByCall
  <2>4. /\ xFuncHandlers[i].pxHandler \in {NULL, handler}
        /\ \A k \in Slots : k < i => xFuncHandlers[k].pxHandler \notin {NULL, handler}
    BY <2>1 DEF IsFirst, Taking, Slots
  <2>5. ASSUME Tidy(Written)' PROVE Serves(Written, bound)'
    <3>1. Tidy(Written')
      BY <2>5 DEF Tidy
    <3>2. Serves(Written', bound')
      BY <2>1, <2>2, <2>3, <2>4, <3>1, RegisterServes, ZenonT(60) DEF TypeInv, TableTypes
    <3>. QED
      BY <3>2 DEF Serves
  <2>. QED
    BY <2>3, <2>5 DEF BindingInv
<1>2. CASE Remove
  <2>1. PICK code \in ValidCodes, i \in Slots :
          /\ IsFirst(i, With(code))
          /\ BeginEntry(i, Unused)
          /\ bound' = [bound EXCEPT ![code] = NULL]
    BY <1>2 DEF Remove
  <2>2. /\ ~ untidy /\ app.step = "idle"
        /\ Tidy(xFuncHandlers) /\ Serves(xFuncHandlers, bound)
    BY <1>2, <2>1 DEF Remove, Calls, Busy, BeginEntry, BindingInv, Written
  <2>3. app'.step = "entry" /\ Written' = [xFuncHandlers EXCEPT ![i] = Unused]
    BY <2>1, UnusedEntry, WrittenByCall
  <2>4. xFuncHandlers[i].ucFunctionCode = code
    BY <2>1 DEF IsFirst, With
  <2>5. Serves(Written', bound')
    BY <2>1, <2>2, <2>3, <2>4, RemoveServes DEF TypeInv, TableTypes
  <2>6. Serves(Written, bound)'
    BY <2>5 DEF Serves
  <2>. QED
    BY <2>3, <2>6 DEF BindingInv
<1>3. CASE EndEntry
  <2>1. /\ app.step = "entry" /\ app'.step = "idle"
        /\ xFuncHandlers' = Written /\ bound' = bound
    BY <1>3 DEF EndEntry, AppIdle, Written
  <2>2. ~ untidy /\ Tidy(xFuncHandlers')
    BY <1>3 DEF EndEntry, TypeInv, TableTypes
  <2>3. Written' = xFuncHandlers'
    BY <2>1 DEF Written
  <2>4. Serves(Written, bound)
    BY <2>1, <2>2 DEF BindingInv
  <2>5. Serves(Written', bound')
    BY <2>1, <2>3, <2>4
  <2>6. Serves(Written, bound)' /\ Tidy(xFuncHandlers)'
    BY <2>2, <2>5 DEF Serves, Tidy
  <2>. QED
    BY <2>6 DEF BindingInv
<1>4. CASE SetSlaveID \/ SetHead \/ SetRest \/ eMBPoll \/ UNCHANGED vars
  <2>1. /\ UNCHANGED <<xFuncHandlers, bound, untidy>>
        /\ app' = app \/ (app.step # "entry" /\ app'.step # "entry")
    <3>1. CASE SetSlaveID \/ SetRest
      BY <3>1 DEF SetSlaveID, Calls, Busy, SetRest, AppIdle
    <3>2. CASE SetHead
      <4>1. app.step = "head" /\ app' = [app EXCEPT !.step = "rest"]
        BY <3>2 DEF SetHead
      <4>2. app'.step = "rest"
        BY <4>1 DEF TypeInv, TableTypes, AppStates, AppIdle
      <4>. QED
        BY <3>2, <4>1, <4>2 DEF SetHead
    <3>3. CASE eMBPoll \/ UNCHANGED vars
      BY <3>3 DEF eMBPoll, Execute, Search, Call, ReportCopies, ReportLength, Done, vars,
                  appVars
    <3>. QED
      BY <1>4, <3>1, <3>2, <3>3
  <2>2. Written' = Written
    BY <2>1 DEF Written
  <2>3. /\ Tidy(Written)' <=> Tidy(Written)
        /\ Serves(Written, bound)' <=> Serves(Written, bound)
        /\ Tidy(xFuncHandlers)' <=> Tidy(xFuncHandlers)
    BY <2>1, <2>2 DEF Tidy, Serves
  <2>4. (app.step = "entry") <=> (app'.step = "entry")
    BY <2>1
  <2>. QED
    BY <2>1, <2>3, <2>4 DEF BindingInv
<1>. QED
  BY <1>1, <1>2, <1>3, <1>4 DEF Next, Application

\* For every code the search finds what the calls asked for last, until a removal
\* has left a gap or two handlers were registered for one code.
THEOREM RegisteredHandlers == Spec => []RegisteredIsServed
<1>1. ServiceInv /\ [Next]_vars => ServiceInv'
  BY NextTypes, BindingStays DEF ServiceInv
<1>2. Spec => []ServiceInv
  BY InitServiceInv, <1>1, PTL DEF Spec
<1>3. ServiceInv => RegisteredIsServed
  <2>. SUFFICES ASSUME ServiceInv, ~ Busy, ~ untidy, NEW code \in ValidCodes
                PROVE  Found(code) = bound[code]
    BY DEF RegisteredIsServed
  <2>1. Tidy(xFuncHandlers) /\ Written = xFuncHandlers
    BY DEF ServiceInv, BindingInv, Busy, Written
  <2>2. Serves(xFuncHandlers, bound)
    BY <2>1 DEF ServiceInv, BindingInv
  <2>. QED
    BY <2>1, <2>2, TidyServes DEF ServiceInv
<1>. QED
  BY <1>2, <1>3, PTL
=============================================================================
