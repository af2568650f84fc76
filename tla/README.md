# A TLA+ development of ccr4

`ccr4` is the program that runs on the application processor (APU) of a climbing
robot. It serves Modbus TCP clients from an array of holding registers, whose
first bytes are at the same time the command structure of the robot, brings up
the real-time core (R5) that drives the motors, sends it commands over RPMsg, and
stops it on SIGINT. The modules here model the parts of it where ordering,
partial input, failure and concurrency decide whether it is right.

## 1. Inventory

| component | code | state | operations |
|---|---|---|---|
| function handlers, register callbacks | `lib/freemodbus/modbus/functions/`, `freemodbus_tcp.c` | `usRegHoldingBuf` (496 words), the reply under construction in the frame buffer | one handler for each function code of `xFuncHandlers`, four callbacks |
| protocol stack | `mb.c` | `eMBState`, the static variables of `eMBPoll`, the table `xFuncHandlers` | `eMBInit`, `eMBTCPInit`, `eMBEnable`, `eMBDisable`, `eMBRegisterCB`, `eMBPoll` |
| MBAP layer | `mbtcp.c` | none | `eMBTCPReceive`, `eMBTCPSend` |
| TCP port | `porttcp.c`, `portevent.c` | `xClientSocket`, `aucTCPBuf`, `usTCPBufPos`, `usTCPFrameBytesLeft`; a queue of one event | init, `xMBPortTCPPool` (accept, receive), `xMBTCPPortGetRequest`, `xMBTCPPortSendResponse`, post and get |
| serial modes | `mbrtu.c`, `mbcrc.c`, `mbascii.c` | receiver, transmitter, one buffer for both, timer | start, stop, receive, send; the interrupts for a character, an empty transmitter and the timer |
| process | `main.cc` | the threads, the SIGINT disposition | `main`, `modbus_task`, `signalHandler` |
| robot | `robot.cc` | `r5_cmd_` and `r5_state_`, pointers into the holding registers | `Init`, `Stop`, `SetR5_0Cmd`; the loops `MotionControl` (with `MotionFSM`) and `ReadR5_0State`, whose calls are commented out |
| OpenAMP | `openamp.c` | `fd`, `charfd`, the sysfs state of the R5 | `OpenAMPInit`, `OpenAMPStop`, `RPMsgSend`, `RPMsgRead`; the echo tests have no caller |
| R5 commands, echo tests, utilities | `r5_controllers.cc`, `echo_test.c`, `delay.cc` | | not called |

**How they interact.** `modbus_task` calls `eMBPoll` for ever. `eMBPoll` takes an
event from the queue; if there is none, `xMBPortEventGet` calls `xMBPortTCPPool`,
which blocks until it has a client and a complete frame (then it posts
`EV_FRAME_RECEIVED`) or the client is gone. The next poll has `eMBTCPReceive` take
the buffer and posts `EV_EXECUTE`; the one after it runs the handler, which calls
the register callback, and sends the reply from the same buffer. Meanwhile the
main thread (in `robot::Init`) or whichever thread a SIGINT is delivered to (in
`robot::Stop`) writes `r5_cmd_`, that is, the first holding registers, and
`RPMsgSend` copies them to the R5. There is no lock between the two. `MotionControl`
executes the motion command that a client writes into the same structure and sends
it; `ReadR5_0State` asks for the state, which lies in the second half of the registers.

The same `eMBPoll` runs over the two serial modes, which this program is built
without. There characters, the empty transmitter and the timer are interrupts, which
fill the buffer that `eMBPoll` executes from and post into the same queue of one.

**What is hard.** Partial `recv` and `send`; a client that closes or resets at any
moment, in the middle of a frame or of its reply; two clients that follow one another on
one buffer; an event queue with a single slot; handlers that trust fields of a frame;
failures of start-up that are reported and then ignored; descriptor numbers that outlive
their descriptors; a signal handler that runs beside the other threads; structures that
two threads write byte by byte; messages lost in a full queue; lines that lose, damage
and delay characters, and masters that do not wait; a table of handlers that changes
while it is searched. `PROJECT.json` lists each of these hazards at its line with the
properties that cover it.

**What makes each component correct.**

- Handlers: a request writes inside of the window it names, wholly or not at all,
  the answer tells which, reads return what is there, replies fit.
- TCP port: the buffer is in step with the client's stream; what is executed came
  from one frame of one client; nothing disturbs a request being served.
- Stack: every request is performed once, in order, on the registers that the
  ones before it left, and answered to its sender alone.
- Serial modes: whatever the line does to them, only requests to this slave are executed,
  each as it was sent, once and in order (but for a zero byte that is added, which the
  sums do not tell), replies go out whole, and the slave comes back to listening.
- Handler table: a request gets the handler registered for its code and no other.
- Robot in motion: a command given stays given and reaches the R5; a stop that the
  endpoint took prevails.
- Robot and process: the motors' NMT is stopped before the core, if the R5 got the
  message; the stop comes to its end, and the core is off if its file took the stop;
  descriptors are not confused; a restarted process gets the R5 going.

## 2. Modules

| module | what it is |
|---|---|
| `MBFunc` | the handlers and callbacks as operators from a request and registers to `[ex, len, regs, out]` |
| `RegisterServer` | the registers under any sequence of requests; `MCRegisterServer` gives the requests |
| `ModbusService` | abstract: what the server promises its clients |
| `ModbusTcp` | the Modbus thread, its socket calls, the clients and the network; `MCModbusTcp` gives the frames |
| `SerialPort` | what RTU and ASCII share: states, the buffer, port, timer, event queue |
| `MBRtu`, `MBAscii` | the receivers, transmitters and timers of the two modes |
| `MBSerial` | `mb.c` over either mode, with the line and its masters; `MCMBSerial` gives the frames |
| `SerialService` | abstract: what a slave on a serial line promises |
| `MBCodec` | checksums, hexadecimal characters and bit fields as functions |
| `MBHandlers` | the handler table and the slave identifier between two threads; `MCMBHandlers` gives the handlers |
| `RobotLifecycle` | start and stop of the process and the R5, descriptors, SIGINT, shared command registers |
| `RobotMotion` | the loops that command a running R5, beside clients that write the command |
| `Overlay` | what a register holds after its low byte is or'ed in |
| `MBFuncProofs`, `RegisterServerProofs`, `ModbusTcpProofs`, `ModbusServiceProofs`, `MBHandlersProofs`, `RobotLifecycleProofs`, `RobotMotionProofs`, `MBSerialProofs` | theorems and proofs |

### MBFunc and RegisterServer

A request is the record of the fields the handlers pick from the frame. Words keep
their width: the increment of the address wraps at 2^16 (`Inc`), the count of a read
of holding registers loses its high byte, byte counts are compared as UCHARs. A
handler reads its fields whatever the length of the PDU; `WithStaleWords` lets the
words that a short request did not bring be any that the buffer may hold. The
callbacks for coils and discrete inputs always refuse in this program, so that the
packing of bits is never reached. In `RegisterServer` one step is one `EV_EXECUTE`.

### ModbusTcp

`pc` is the place of the thread: the poll loop (`"poll"`), the `select` for a client
(`"listen"`), the receive loop (`"pool"`), the send loop (`"send"`), or one of its ends.
Each socket call that may block or return less than it was asked for is a step of its
own; the code between two of them is one step, as only this thread touches its
state. Bytes are counted and not spelled out: a frame is its Length, its protocol
identifier and its PDU, and of the buffer's content the model keeps the one byte that
survives from one frame to the next and matters, the function code (`bufFunc`), and
the history `from` of whose bytes the rest is. `conn`, `backlog` and `issued` are the
kernel's and the clients' side; a closed client's bytes still arrive (`"fin"`), a
reset client's may be lost (`"reset"`), and a `send` on a connection that already
returned an error raises SIGPIPE (`"broken"`).

`Enable` to `RecvEnd` are the code's functions: `PollPort` is `xMBPortEventGet` with an
empty queue; `Accept` and `AcceptFails` the first half of `xMBPortTCPPool`; `RecvPart`,
`RecvFrame` and `RecvBeyond` the three branches after `recv`; `RecvEnd` the one where
it returned 0 or -1; `FrameReceived` and `Execute` the two cases of `eMBPoll`;
`Send...` the switch of `xMBTCPPortSendResponse`.

Not in it, because it is not reachable: a `send` that returns 0 (its length is never
0), `eMBDisable` after a poll (`eMBPoll` always returns `MB_ENOERR`), `EV_READY` and
`EV_FRAME_SENT` (nobody posts them), the broadcast address. Not in it, and a
limit of the model: a client that does not read its replies until `send` blocks; a
process that runs out of anything else than what `accept` reports; writes of the
registers by another thread (see `RobotLifecycle`).

**Length.** A frame's Length field is any word. The code never holds it against
`MB_TCP_BUF_SIZE`: a frame that announces more than the buffer holds is received past
its end (`RecvPastEnd`). What the memory behind the buffer then does to the process is
not modelled, and the thread goes no further (`pc` is `"overrun"`). `BufferBound` says
that this is the only way there: the frame that is being received is one whose own
Length goes past the end. For the liveness properties the thread has come to an end then
(`Down`).

### ModbusService

The abstract specification: frames are asked, taken in order, performed in one step
each, answered to the sender or lost with the connection. `ModbusTcp!ImplementsService`
is the refinement: the request counts as taken when it is performed (so
that `FrameReceived` of a Modbus frame is a stuttering step and `Execute` is
`Perform`), the answer is pending while `pc` is `"send"`.

### SerialPort, MBRtu, MBAscii, MBSerial

One set of variables stands for the statics of whichever mode `eMBInit` selected;
`MBSerial` instantiates both modules and chooses between them where `mb.c` calls through
its pointers (`ByMode`). A byte is a value that tells where it comes from: the i-th of
frame n, an address, a byte of the sum over given bytes, or noise, so that a frame is
executed as sent exactly when the buffer holds its bytes (`Content`). A character of
ASCII is a nibble of such a byte or a control character.

`TransmitterEmpty`, `Heard` and `Expire` are the three interrupts. `eMBPoll` is cut at its
critical sections: taking the event, `eMBRTUReceive`/`eMBASCIIReceive`, the posting of
`EV_EXECUTE`, the handler (which leaves an echo or a reply of its own in the buffer),
`eMBRTUSend`/`eMBASCIISend`. `eMBEnable` is two steps, as `eMBASCIIStart` posts `EV_READY`
after its critical section (`EnableEnds`). A failed assertion ends the program (`failed`).

The port for a serial line is external. This program has only that for TCP, under which
`mbconfig.h:49-52` switches both serial modes off, and whose files serve one thread:
`ENTER_CRITICAL_SECTION` is empty (`port.h:42`), and `xMBPortEventGet` reads the event and
clears the queue in two steps (`portevent.c:60-65`). With interrupts an event posted
between the two would be lost, and with it a frame. `MBSerial` takes a port as the comments
of the stack ask for, with critical sections that exclude the interrupts and a queue
whose event is taken at once; that a later event overwrites one that waits is modelled.

The checksums are zero for a frame with its sum, and stay so when zero bytes are added: to
the end of a frame of RTU (the address of a broadcast is such a byte), anywhere in one of
ASCII (`SumIsZero`, and `AddedZeros` in `MCMBSerial` for the real ones).

The line and the masters are external: frames follow one another; a fault loses,
damages or adds a character (a zero one, too), pauses in the middle of a frame or leaves out
the pause between two; a master overtakes when it begins before the slave is done. Faults,
overtakings and calls of `eMBDisable` are bounded together by `MaxMishaps`.

Some of what the model shows is no property, as the code promises nothing about it.
A master that does not wait can have the slave execute a frame that was meant for
another one, or execute one twice. The comment in `eMBRTUSend` and `eMBASCIISend`
(`mbrtu.c:193`, `mbascii.c:190`) says that a reply is aborted when the master has sent
another frame meanwhile: it is when that frame is still coming in, but one that has ended
between `Execute` and `SendReply` is not noticed, and what goes out is the reply with its
characters in it, under a sum made of both. `RepliesAreWhole` is about replies that no
character came between (`overheard`).

Three of the four kinds of `assert` do fail, and `AssertionsFailOnly` says exactly when:
at a character while the transmitter is not idle (`mbrtu.c:230`), when `eMBDisable` has cut
off the last transmission (`cutOff`, gone with the next one); when the timer of ASCII
expires with its receiver idle (`mbascii.c:423`), when something else than LF came after a
CR and left it running (`unended`, gone with the next colon); when the buffer is full
(`mbrtu.c:156`, `mbascii.c:156`), where no shorter frame that is heard undisturbed leads to.
That of the transmitters never fails, nor does the timer's in RTU.

### SerialService

The abstract slave: it accepts requests to its own address or to all, newer ones only,
executes what it accepted, once, and answers what it executed, at most once. When a
frame is heard while a request is served (`disturbed`), the slave may execute what it
did not accept, or a request again, until a frame begins that finds it at rest: that is
the concession to a shared buffer. The concession to the checksums is that a zero byte
heard in a frame (`Padding`) disturbs, too: the slave executes the frame as a longer
request, which nobody sent. The first covers a poll that comes late, for the frame
before: `eMBRTUReceive` looks at the buffer and not at the state of the receiver
(`mbrtu.c:159`), so that a frame all of whose bytes are there is accepted before its
silence is over, and once more after it. In MBSerial `Hearing` and `Serving` say when a
frame is heard while one is served; without any of the three TLC finds the refinement
violated.

### MBCodec

The tables of `mbcrc.c` are written out as they are. The named assumptions of
`MCMBSerial`, which TLC evaluates at the start of `Serial`, hold the functions against
reference definitions: the tables against the shift register of the polynomial,
the sums against every changed byte of short frames, the characters against the bytes
they stand for, the bit utilities against sets of bits.

### MBHandlers

The application's thread registers and removes handlers and sets the slave
identifier; `eMBPoll` searches entry by entry and calls. `ENTER_CRITICAL_SECTION` is
empty in this port (`port.h:42`): the two stores into an entry are two steps, in either
order, and so is each access of the search. `bound` is what the calls ask for,
`untidy` becomes true once the table has a gap or a code twice.

After that the code no longer serves what was registered: the search ends at the gap
that a removal leaves, and of two handlers for a code the first is called, although
`eMBRegisterCB` returned `MB_ENOERR` (`mb.h:255-260`). A dispatch that overlaps a call may
call `NULL`, or the handler of another code; a report that overlaps `eMBSetSlaveID`
may be torn. The properties are about everything else.

### RobotMotion

`MotionControl` in five steps: the look at the command, the decision, the write back (by
reference into the register), the copy, the write. Clients write a command in two
steps, high byte and low byte, as in `RobotLifecycle`. The endpoint has room for
`QueueMax` messages; one more is lost, as `RPMsgSend` fails and its callers ignore it.
`SetR5_0Cmd` and `ReadR5_0State` pass `sizeof` of a pointer: eight bytes, which is the type
and the NMT command but not the motion. For the same reason the motors' parameters are
never read from the R5: they are what clients write there, and `Decide` takes either
outcome.

A command given while `MotionFSM` is at work on another (`Torn`) may be lost, or become
the or of both (`UPCLAW_HOLD` and `UPCLAW_LOOSE` are 1 and 2, and 3 is `UpwheelMoveUp`).
A client that overwrites the type of `r5_cmd_` makes the R5 ignore what `MotionControl`
sends, as that sets the type of `r5_state_` instead (`robot.cc:152`); clients do not
write it here. If a request for the state is lost, `RPMsgRead` spins for ever.

`robot::Stop` sets and sends the stop, sleeps, stops the core and ends the process
(`OpenAMPStop`; `main.cc:30`), and no loop runs after that. It sends the stop once, and
does not know what became of it (`fate`): the endpoint may have had no room for it, or
`MotionControl` may have copied a start before and send it afterwards. Then the loop's
next message, which carries the stop, repairs it if the process lives long enough for
one; nothing makes it, and the state file of the core may refuse its stop as well.
`StopPrevails` says what is left: no further start is made, and a stop that was taken
and not overtaken stays.

### RobotLifecycle

`main` runs `robot::Init` (firmware, driver, mutex, then the NMT start command), starts
the threads, installs the handler. A SIGINT moves any thread that runs to
`robot::Stop`, step by step; the others go on, and a second SIGINT may start a second
`Stop`. The write of a command is three steps, as in the code: the
assignment of a field, the copy of the structure, the write of the copy; the Modbus
thread writes the high byte and the low byte of a register in between.
Descriptors are numbers handed out lowest first, because `fd` and `charfd` keep
their numbers after `close`. The directory in which `get_rpmsg_chrdev_fd` looks is never
closed, and the ways the driver may fail to load differ in what else they leave open.

`RPMsgSend` and `file_write` may fail, and nobody looks at what they return: the
endpoint does not take a message, a state file cannot be opened or does not take the
stop. The history `mishaps` remembers it, and the properties name it where it matters.
`file_write` opens, writes and closes in three steps, with a number of its own that
another handler's `OpenAMPStop` may close between them. A process that was killed leaves
the R5 as it was: the initial states include a running R5. `OpenAMPInit` reports success
even if the firmware or the driver could not be loaded: "R5@0 INIT SUCCESS." is printed
with a core that is not running (`openamp.c:446`, `robot.cc:36`).

The five threads are three here: the echo thread ends at once. The R5 is external:
it obeys NMT commands that reach its endpoint. `SetType`'s field is one byte and
is never the one a client's write is modelled on.

## 3. Runs

| run | instance | shows |
|---|---|---|
| `RegisterServer` | bytes of 8 values, 3 registers, about 600 requests at and around every bound | the safety of the handlers; 15 248 states |
| `ModbusTcpOrder` | 2 connections, 2 requests each, a write and a read, any splitting of reads and writes, fairness | frame assembly, order, refinement; requests answered, closed clients released, waiting ones accepted; 136 500 states |
| `ModbusTcpMixed` | 1 connection, 2 frames: a write of too few words, frames of another protocol, the shortest frames (empty ones among them), one longer than the buffer; `accept` and `send` failing | stale words, skipped frames, retries, both ends of the length arithmetic; 37 897 states |
| `Serial` | both modes, a buffer of 6 bytes, 2 frames of 4 kinds, 2 mishaps in RTU and 1 in ASCII | assertions, whole replies, refinement, progress; the codec; 634 418 states |
| `Handlers` | a table of 3, 3 handlers, 4 calls of the application | registration, dispatch, reports; 453 184 states |
| `Robot` | 5 descriptor numbers, any driver outcome, an endpoint and a state file that may refuse, two SIGINTs, or one too early, clients writing the NMT register | when the motors' NMT is stopped before the core, descriptors, end of the stop, start of the R5; 469 712 states |
| `Motion` | two commands, given any number of times, room for two messages, a stop | commands kept and obeyed, what a stop comes to; 301 580 states |

**Why the bounds are enough.** In `RegisterServer` three registers are a first, a last
and one between, windows of one to four reach past both ends, the address 63 wraps, and
counts 9 and 18 differ from their low byte. In `ModbusTcp` a frame is received in any
partition of its bytes, two requests on a connection are the least that can be swapped,
merged or doubled, and two connections the least that can follow one another on the
buffer; the buffer has exactly the size of the longest frame. `SEND_RETRIES` of 1 or 2
has a retry and its exhaustion. In `MBSerial` six bytes are the shortest frame of RTU
and two more, so that there are frames that fit, that fit with a zero added, that fill
the buffer and, with an added character, that do not fit; two frames are the least that
can overtake, be joined or swapped. In ASCII a frame has more than twice as many
characters, so that one mishap must do: an added zero byte takes two, and what it does
is shown for ASCII by the theorem alone. In `RobotLifecycle` five numbers are as many as
the program has open at once with one handler (the directory, the control device, the
endpoint, a listening socket and a client). Three entries are the least with a gap
between two, a first, a last and a full table, with one handler less than codes. In
`RobotMotion` no count is bounded; two messages are the least room that lets a command
and a request wait together (with one, requests can keep a command out for ever).
`MaxRequests`, `MaxSignals`, `MaxFrames`, `MaxMishaps`, `MaxCalls` and the sets of
requests and frames are the only bounds on behaviours. Only `RegisterServer` is checked
for deadlock: the other programs may really stop (aborted, killed, exited) and clients
are never forced to act.

Five further runs have the expectation `violation`: each checks one statement of a
comment or a message of the program that the code does not keep. They are the
entries under `findings` in `PROJECT.json`: `ReadCountIsChecked`, `NeverBeyondFrame`,
`LostClientIsReleased`, `FreeSlotAccepts`, `StopMessageStops`.

Three more divergences are in the model as the code has them, without a run: a
write of several registers that is too short for its words is performed with what
the buffer held (`mbfuncholding.c:118`), a read of exactly 0x7D input registers or
0x7D0 coils is refused (`mbfuncinput.c:80`, `mbfunccoils.c:91`), and a frame with a
Length of 1 is executed under the function code that the buffer held (`mbtcp.c:119`).

**Fairness.** `ModbusTcp!FairSpec` is weak fairness of the thread: it is never blocked
by another thread of the process, and each of its steps that is enabled is one the
kernel has made ready (a frame's bytes have arrived, a client waits). Nothing is assumed
of clients but that they read their replies (`send` does not block for ever).
`RobotLifecycle!FairSpec` is weak fairness of `main`'s start and of every running
handler; signals and clients are not forced. `RobotMotion!FairSpec`: the two loops and
the R5 go on until the process or the core ends, `robot::Stop` goes on once it has
begun, and a client that wrote one byte of a register writes the other, which is the
next statement of `eMBRegHoldingCB`. `MBSerial!FairSpec`: the application returns from
`eMBEnable` and calls `eMBPoll`, the port's transmitter interrupt comes, a frame begun
is sent to its end and a silence lets the timer expire. `MBHandlers!FairSpec`: polling
goes on, and a call of the application comes to its end.

**Scope of what holds.** `FreeSlotAccepts` holds as long as `accept` does not fail
(`AcceptMayFail` FALSE in `ModbusTcpOrder`); the run of the same name shows what
happens when it does. `BufferBound` is about what earlier frames and clients leave: the
code does not hold a frame's own Length against its buffer. `NMTStoppedBeforeCore` is about
processes in which no client has written the register of `nmt_control` and the endpoint
has taken the stop (`mishaps`): a stop that it does not take is lost, and the core is
switched off with its motors enabled. `StopMessageStops` shows what happens when a client
does write. `StopCompletes` ends with the core stopped unless its state file refused the
stop or another handler closed that file, and `RobotStarts` gets the R5 started unless the
endpoint refused the start; nobody looks at either result. `OwnDescriptors` is about one
SIGINT and a `charfd` that is open or was never opened: a second `OpenAMPStop` may close a
number the Modbus thread has got in the meantime, and so may the first when opening the
endpoint failed; the code makes no promise about either. `CommandIsKept` leaves out a
command given while `MotionFSM` is at work (`Torn`), and `StopPrevails` a stop that was lost
or overtaken. `FramesAreServed` needs a port that loses no event (see above).

## 4. Proofs

TLAPS proves the following for every value of the constants that satisfies the
assumptions `MBFuncAssumption` (what the C constants satisfy: byte counts fit one
byte, replies fit a PDU), `RegisterServerAssumption`, `ModbusTcpAssumption`,
`HandlersAssumption`, `MotionAssumption`, `SerialAssumption` (frames and the buffer are at
least `MB_SER_PDU_SIZE_MIN`, 4 bytes, and replies fit the buffer) and `RobotAssumption` (of
which one part is about the machine: a process has descriptor numbers for at least three
more files, as many as `OpenAMPLoadDriver` opens before the rest of the program does).
`ModbusTcpAssumption` has frames with any Length, longer than the buffer, too; what the
code writes past the buffer then is beyond the model, which ends there (`pc` = "overrun").

- `MBFuncProofs`: every handler returns registers of the same type and a reply that fits
  (`DispatchIsResult`), by one lemma for each handler over lemmas on the callbacks.
- `RegisterServerProofs`: `TypeOK`, `ReplyFits`, `WritesStayInWindow`, `WritesAreWhole`,
  `AnswerTellsTheWrite` and `ReadsAreCurrent` of `Spec`. The invariant needs to say little
  (types, and that the last reply is a result of a handler); the work is in lemmas
  that relate the callbacks' index arithmetic to the windows of the protocol.
- `ModbusTcpProofs`: `TypeOK`, `FrameSync`, `BufferBound`, `OneSource`,
  `ExecutesWhatWasSent`, `ServedUndisturbed` and `RepliesInOrder` of `Spec`.
  `BufferIsBounded` says that room past the buffer is given only to a frame whose own
  Length is too large: that what is left of earlier frames and clients never adds to a
  frame. None of the safety properties is inductive. `IInv` adds which values of `pc`,
  the queue and the client socket go together (`ControlInv`: this is what makes the
  single slot enough), the bounds of positions (`BoundsInv`), what the buffer holds
  while a frame is received (`ReceivingInv`), when it is complete (`ReceivedInv`), while
  it is executed and while its reply is sent (`ServingInv`, `ExecutingInv`). It was
  checked with TLC on the instances of the runs before it was proved, one lemma for each
  action. `RepliesInOrder` has a second invariant on top (`OrderInv`): the last reply of
  a connection is to a request before the one under way.

- `MBHandlersProofs`: the four safety properties of `MBHandlers`, for a table of any
  size, any handlers, any built-in entries without a code or handler twice, and any
  number of calls. `TypeInv` adds the shapes of the records to `TypeOK`. For
  `CallsTheHandler`, `HandlerInv` adds that outside of the entry being written an entry
  is used in both fields or in none (`EntriesInv`), and how far an undisturbed search
  has come (`DispatchInv`: no entry before its slot stops it). For `ReportIsWhole`,
  `IdentifierInv` adds what the buffer holds between two calls and after the first half
  of one. For `RegisteredIsServed`, `BindingInv` speaks of the table as the call under
  way will leave it, and adds that no handler is in a tidy table twice: without this,
  registering a handler for another code would leave it with its old one
  (`RegisterServes`, `RemoveServes`). All were checked with TLC on the instance of
  `Handlers` before they were proved.

- `ModbusServiceProofs`: `ModbusTcp` implements `ModbusService` (`ServiceIsImplemented`,
  the property `ImplementsService`), on top of the invariants of `ModbusTcpProofs`. The
  handlers that `ModbusService` performs are the same definitions, instantiated
  (`SameDispatch`). `Execute` is `Perform` with the result in `pending`, `Send` is
  `Deliver`, `SendAbort` and `SendKilled` are `Lose`, a client's request is `Ask`, a
  frame that is thrown away for its protocol identifier is `Skip` (`FrameReceived`; of a
  frame that will be executed it is a stutter), and the other steps are stutters. It
  needs that the frame about to be executed is the next one of its client, whole and of
  the Modbus protocol (`ExecutingInv`, and `LengthInv`: it has a function code), and
  that the registers and the result do not change while the reply is sent in pieces.

- `RobotLifecycleProofs`: `TypeOK`, `NMTStoppedBeforeCore` and `OwnDescriptors` for any
  descriptor numbers, any number of SIGINTs on any threads, and whatever fails while the
  driver is loaded, a message is sent or a state file is written. `TypeOK` also holds
  that the endpoint and the control device are never one descriptor, which needs
  `TableInv`: the driver is loaded before anything else is open, therefore a number is
  free whenever it opens one. `PlacesInv` says where the threads may be together (nobody
  else runs while main initialises, no handler before main has installed it),
  `SignalsInv` that one SIGINT makes one handler. `StopInv` carries the stop through the
  handler, step by step: from when it has set `nmt_control` it stays, the message that
  it copied is the stop, and after it was written an R5 that runs has stopped, whatever
  other handlers do in between, unless the endpoint lost one of their messages.
  `DescriptorInv` follows `fd` and `charfd` until a handler closes them, and the state
  file of a handler that is alone (`StateInv`).

- `RobotMotionProofs`: `TypeOK` and `CommandIsKept` for any commands and an endpoint of any
  size: of commands that no work of `MotionFSM` overlaps, the others being lost or torn.
  That there is never more than one answer to read follows from `OneRequest`: a
  request under way, an answer and a reader that waits come one after the other.
  `CommandIsKept` needs what the control loop has read and is about to write back while
  a client is between its two bytes (`KeptInv`).

- `MBSerialProofs`: `TypeOK`, `AssertionsFailOnly` and `RepliesAreWhole` of both serial
  modes, for a buffer, frames and replies of any length, and any number of frames,
  faults, overtakings and calls of `eMBDisable`. `IInv` has three layers. `MInv` is
  about the slave: which states of receiver and transmitter go with which mode and which
  switches of the port (`StackInv`, `PortInv`, `MachineInv`: a transmission runs with
  the receiver idle), where the positions may be (`BoundsInv`: a request that was
  accepted leaves room for its sum, and so does its reply), and the transmitter. Of a
  reply that no character came between and no later request has followed (`Replying`),
  `PreparedInv` says that the buffer holds it from when the handler has left it,
  `ReplyInv` that it holds it with its checksum, and `WireInv` that what is on the line
  are its first characters, as many as the state and the position say; `AnswersInv`
  tells the reply that is about to be sent from the one sent last, and by `SendingInv`
  nothing is received meanwhile. `CutOffInv` says that a transmitter that is not idle is
  switched on unless `eMBDisable` stopped it, and `EndInv` that the timer of ASCII runs
  with the receiver idle only when something else than LF came after a CR. The line:
  `LineInv` counts the characters of a frame that are out, and `HeardInv` says what a
  receiver can have heard without faults: no more bytes than the longest frame has, in
  ASCII the digits in pairs and `CR LF` last. Without these three `AssertionsFailOnly`
  is not inductive. The lemmas are about sequences: what `Encoded` puts at each place
  (`DigitsAre`), and where a frame's characters can be control characters
  (`CharactersAre`).

  `MBSerial` implements `SerialService` (`ServiceIsImplemented`, the property
  `ImplementsService`) because of what the buffer holds, which `RInv` says on top of
  `IInv`. While a frame waits to be received and nothing disturbed it, each byte came
  over the line, none is a zero that the checksum would not tell (`NoPads`), and no PDU
  begins that is not newer than what was executed (`BytesInv`). A checksum tells which
  frame it is of (`WholeFrameFound`): what passes has its sum, with zeros added or not,
  and as there are none it is a frame that was sent. Nothing is executed before its
  first byte has come (`KnownInv`), so the first byte of a frame is newer than all that
  was executed (`NovelIsNewer`). The request stays in the buffer from when it is
  accepted until it is executed (`ServeInv`), as undisturbed no frame is heard meanwhile
  (`AtRestInv`); `AnswerInv` has the addresses, and that a reply follows each request
  once. `RInv` holds while the program runs and not after: a character that makes an
  assertion fail may be the beginning of a frame (`Begins`) which is never stored. TLC
  checked it on the instance of `Serial`, and with three frames. eMBInit is `Join`, a
  frame that begins is `Request`, `ReceiveFrame` is `Accept`, a character is `Hear`,
  `SendReply` is `Answer` unless the reply is dropped, and the steps of the transmitter,
  the timer and the event queue are stutters.

Only model-checked: the liveness properties (`FramesAreServed`, `ListensAgain` and those of
the other modules), as fairness and `ENABLED` are out of the prover's reach, and
`MBCodec`, whose functions are recursive: what the tables and sums compute for every
input would be an induction over data.

## 5. Not modelled

`eMBClose` and `vMBTCPPortClose`: no caller in this program. `OpenAMPTest`, the echo
tests and `r5_controllers.cc`: demonstrations, or no caller. The serial port layer:
not in the repository, external. The contents of coils and discrete inputs: their
callbacks always refuse. The byte stream a client sees after a reply that was given
up half way.

## 6. Plan

Every invariant, every action property and both refinements that the runs check are
theorems. What may follow is the safety that the liveness properties rest on: that while
`FramesAreServed` waits for a frame heard undisturbed, the frame is in the buffer as it
was sent (the converse of `BytesInv`: then it is received), and that the receiver never
waits with its timer off (`ListensAgain`); in `RobotMotion`, that one read of a command
that stands is enough for the R5 to be sent it.
