# net-bmp: TLA+ models and proofs

A verification development of the firmware in `src/firmware`: an Ethernet-connected debug adapter that
speaks the GDB Remote Serial Protocol over TCP. The modules follow the C code function by function; `PROJECT.json`
maps every definition to the lines it stands for, and lists the runs, the mutants that show each property can fail,
the hazards, the findings and the theorems.

## Inventory

The program is small: about 2300 lines of compiled C, of which some 1200 carry logic, and as many of pin tables and
build options. One thread does the work. What makes it hard is not its size but that one output buffer, one error
variable and one session record serve every connection in turn, while the network decides how the bytes are cut and
when a write fails; and that the rest of the probe, from the pin tables to the USB descriptors, is a set of values in
different files that must agree and calls that must come in one order.

| Component | State | Operations |
| --- | --- | --- |
| Packet reader (`gdb/gdb_packet.c`) | `input_packet`: buffer, length, two checksums, state | `gdb_packet_read_stream` and the per-character functions below it |
| Packet writer (same file) | `output_packet` | `write_start`, `write_payload`, `write_payload_as_hex`, `write_stop`, `write_ack`, `mark_sent` |
| Hex conversions (`common/hex.c`) | none | nibble to digit, digit to nibble, strings |
| Commands (`gdb/gdb.c`) | session properties | `gdb_execute`, `gdb_execute_sub`, one handler per command character |
| Queries, monitor commands (`gdb/query/*.c`) | session properties | one callback per query, `help` and `version` |
| Session (`gdb/gdb_session.c`) | `g_gdb_session`: lock, state, transport, callback, properties, both packets | `lock`, `release`, `init`, `handle`, `flush` |
| TCP server (`network/network.c`) | `p_conn`, `err` | accept loop, receive loop, `network_serve_gdb`, write callback |
| Boot (`main.c`, `board/board.c`) | the place in `main`, GPIO registers, what is initialised | `__early_init`, `halInit`, `chSysInit`, the calls of `main`, the blinking loop |
| Board (`board/board.h`) | none | the pin table |
| Shell interface (`usb_cdc/shell_interface.c`) | the shell's working area | create, wait, sleep, again |
| USB CDC (`usb_cdc/usbcfg.c`) | serial driver, USB driver | `usbcfg_init`, `usb_event`, `get_descriptor` |
| Build configuration (`cfg/*.h`) | none | clock tree, drivers, kernel subsystems, lwIP's options |
| lwIP, ChibiOS (external) | netconns, mailboxes, semaphores | as used by `network.c` and `gdb_session.c` |

Interactions. The TCP thread blocks in `netconn_accept`, takes the session's binary semaphore without waiting, then
alternates between `netconn_recv` and `gdb_session_handle`. `gdb_session_handle` reads one frame, flushes an
acknowledgement, and calls `gdb_execute`; a handler writes its reply into the output packet and flushes it through the
write callback of the transport, which stores lwIP's result in `err`. A failed flush over TCP sets the session to
ABORTED, which `network_serve_gdb` looks at after the handler has returned. A second transport (USB CDC) is provided
for in the session's interface; its file is not compiled. `main` initialises the session, starts lwIP and the TCP
thread, and then the shell interface thread, which brings up USB and keeps a shell running on it; the USB driver calls
`usb_event` from its interrupt at any moment. The shell shares nothing with the GDB server but the processor.

What is hard here, and what makes each component correct:

* Reader: frames cut anywhere, control characters in any state, a wrapping checksum, a full buffer. It must stop at
  exactly the first frame's end, and accept exactly the frames whose digits match.
* Writer: no writer reports overflow. What reaches the client must be whole frames with the intended payload.
* Commands: prefix search in table order, properties that belong to one session. Every command must be answered
  once.
* Session and server: failures between two flushes, an error variable that outlives connections, netbufs of several
  packets, competing transports. A client must be answered in order, in a session of its own, lose nothing it sent,
  and its connection must be deleted in the end.
* Session lock: several threads between single statements. Nobody may see half a session, and the LED must mean it.
* Boot: nothing may be used before it is initialised, and no pin may drive a wrong level on the way, above all not the
  reset line of the debugged target.
* Shell and USB: bus events in any order against the life of the shell. What the host was told must be what it finds,
  and a shell must be there again whenever the port is.

## Modules

| Module | Models | Code |
| --- | --- | --- |
| `Hex` | nibble conversions in byte arithmetic | `common/hex.c`, `common/common.h` |
| `GdbPacket` | the packet and the per-character functions | `gdb/gdb_packet.{c,h}` |
| `PacketReader` | `gdb_packet_read_stream`, an action per character | `gdb_packet.c:96-173` |
| `PacketWriter` | the writers and the flush, an action per character or call | `gdb_packet.c:181-291`, `gdb_session.c:30-53` |
| `StreamItems` | one call of the reader over whole items (a packet, a part of one, a `+`) | `gdb_packet.c:152-173` |
| `ItemReader` | the link between the two readers: `PacketReader` on the characters of an array of items | `gdb_packet.c:152-173`, `gdb_packet.h:147-171` |
| `GdbCommands` | command and query tables, handlers, as functions from a text to an outcome | `gdb/gdb.c`, `gdb/query/*.c` |
| `CommandLoop` | commands of one client after another, and the session properties | `gdb_session.c:73-80` |
| `Netconn` | clients and lwIP, external | used by `network.c` |
| `RemoteCommand` | one monitor command from its hex digits to the reply, cell by cell | `gdb_query_remote.c`, `hex.c:84-97`, `gdb.c:27-50` |
| `SessionLock` | lock, handle and release statement by statement, any number of transports, both LEDs | `gdb_session.c` |
| `AtomicSession` | what lock and release promise a transport | abstract specification of `SessionLock` |
| `Console` | shell interface thread, shell, USB and serial driver, bus events, descriptors | `usb_cdc/*.c` |
| `BoardPins` | the pin table, the pins after reset, what a pin drives | `board/board.h`, `board/board.c:94-139` |
| `Configuration` | clock tree, drivers, peripherals, kernel services, and what the microcontroller asks of them | `cfg/mcuconf.h`, `halconf.h`, `chconf.h` |
| `Firmware` | the whole probe from reset: boot, main, set-up of the TCP thread, over `SessionLock`, `Console`, `BoardPins` and `Configuration` | `main.c`, `board/board.c`, `network.c:94-142` |
| `GdbServer` | TCP thread, session, commands over `Netconn` and `StreamItems` | `network.c`, `gdb_session.c` |
| `SingleSession` | what the server promises its clients | abstract specification of `GdbServer` |
| `SampleItems`, `MC*` | finite instances | |
| `CommonLemmas`, `GdbCommandsProofs` | lemmas the proofs share | |
| `PacketReaderProofs`, `PacketWriterProofs`, `CommandLoopProofs`, `RemoteCommandProofs`, `GdbServerProofs`, `FirmwareProofs` | theorems; those about `SessionLock`, `Console` and `BoardPins` are in the last | |

How the code's state appears. `packet` and `output` are `struct gdb_packet` with `buffer[0..length-1]` as a sequence;
`session` is `g_gdb_session` without its packets; `p_conn` and `err` are the fields of `g_network_gdb_session`;
`pc` is the place of the TCP thread, one label per call that other actors can observe; `data` is the part of the
current pbuf behind `total_consumed_size`; `pending` is what `gdb_session_handle` has still to flush. A failed
assertion stops the system (`CH_DBG_ENABLE_ASSERTS` is TRUE, `cfg/chconf.h:612`): `fault`, `halted`, or `pc = "halted"`.
Variables called history record what was sent, handled and answered; no guard reads them, except the bounds.

Levels of detail. The server model would not be checkable character by character, so it reads items. `ItemReader`
runs the character reader on the characters of an array of items, each step one of `PacketReader`'s, and compares
verdict, place and payload with what `StreamItems` says of the items; that they agree is proved for arrays of any length. `GdbServer` handles one frame between two flushes in one action: nothing in between
blocks or touches shared state. In `GdbServer` the output packet is its state only; `PacketWriter` has its contents.
`GdbCommands` cuts texts into fragments at the names of the tables; `RemoteCommand` has the bytes of a monitor command
and its answer is the table's (`MatchesCommandTable`), for texts cut as `FragmentsAssumption` says: the names of the
table and `$` are fragments, no fragment begins another, and a delimiter is one of its own. `GdbServer` locks and releases in one step each;
`SessionLock` shows why that is allowed (`ImplementsAtomicSession`). `Firmware` has the server's thread up to its
loop and then only its use of the session; what it says over a connection is `GdbServer`.

In `Firmware`, `boot` is the next call of `__early_init` or `main`, `pc[t]` the next statement of thread `t` in
`gdb_session.c`, `net` the place in the set-up of the TCP thread, `interface` the place in
`shell_interface_thread`, `gpio[i]` how many registers of port `i` are written (the pins follow from it), `ready`
what is initialised; `usb`, `saved`, `endpoints`, `stream`, `sdu`, `woken` are the USB driver's state and that of the
serial layer's queues, `announced` what the host has read of the configuration. `writer` is history.

## Runs

A failed assertion really stops the system and bounded clients leave in the end, so the runs of those modules say
`CHECK_DEADLOCK FALSE`, as does `MCItemReader`, whose one call ends; `MCFirmware`, which blinks for ever, checks deadlock.

* **MCPacketReader** - every stream of at most 8 characters over `$ # ^C + 0` and byte 208, against a buffer of 7. Six
  characters hold a complete packet of two payload characters, two starts, a frame without start, or a frame cut off;
  `0` and 208 make the sum wrap to the digits `00`; `+` and 208 are rejected as digits. With seven and eight the
  buffer is full at the NUL, at a digit, at a start or at the last character. Shows: a call stops at the first frame's
  end, full buffer or not (`StopsAtFirstFrame`); accepts by the sum of the characters it counts
  (`AcceptedIffSumMatches`); accepts every well-formed packet and leaves it whole (`WellFormedAccepted`); an accepted
  packet was compared and terminated (`AcceptedIsVerified`); the buffer is the text, cut at its end
  (`BufferHoldsInput`). The acceptance properties speak of data shorter than the buffer: at a full buffer the code
  returns OK without comparing (`gdb_packet.c:133`), but one pbuf has at most `TCP_MSS` = 1480 bytes and the buffer
  2048.
* **MCPacketReaderOverhead** - violation, see findings.
* **MCPacketWriter** - payloads of at most 7 characters, plain or in hex, two packets through the transport and any
  number refused, and a buffer of 7: it holds a text whose sum wraps, or one character in hex, and longer replies
  overflow it at the NUL, a digit, the stop character or in the payload. `WireIsFramed`: the client gets
  whole frames with the payload the handler meant; `ReaderAcceptsReply`: the firmware's own reader accepts what the
  writer completes; `HaltsOnlyOverlong`: the assertions of this path stop the system for a payload that does not fit
  and for nothing else. The reply is followed by its NUL on the wire, which the protocol does not have; clients skip
  characters between packets.
* **MCItemReader** - every array of up to 4 of the 12 sample items: whole packets, one of each fault, a packet cut in two, `+`,
  Ctrl-C. Four let a cut packet's parts have something before them and between them. `VerdictsMatchCharacters`: reader and
  items agree on the verdict and on the place, always behind a whole item; `TextsMatchCharacters`: the handlers find the
  text of the item. TLC also evaluates `ItemReaderAssumption`, which says what it is that an item stands for its
  characters, on the sample items.
* **MCCommandLoop** - 27 texts: each handler, each query with and without arguments, each way out of a monitor
  command; two commands per session, any number of sessions. Outcomes depend only on the text and the two properties,
  so two commands reach every combination. Types are proved (`TypeOKAlways`) and not checked again here. `HasTarget` is FALSE: no code assigns `p_target`. `OneReplyPerCommand`
  excepts the breakpoint commands: their handler sends its three alternative results (`gdb.c:153-160`) one after the
  other; nor does it speak of a monitor command without a word, which is not answered, and of one that stops the system.
  `HaltsOnlyOnDollar`: of what this module
  models only a monitor command that begins with `$` stops the system; `gdb_breakpoint`, which takes the length of
  the *output* packet, gets away with it because the acknowledgement of the same command went through that packet.
* **MCCommandLoopNoAck** - violation, see findings.
* **MCRemoteCommand** - a buffer of 14 bytes and room for 2 arguments (256 and 32 in the code), so that texts just fit
  and just do not and arguments are cut off; the texts are those of up to five bytes over NUL, tab, blank, `$` and `a`,
  every string of up to three characters at the edges of the hex digits, every character in either place of a pair, and
  the named commands. Every kind of delimiter run and of damage is among them. `HaltsExactlyUndecodable`: the decoder's
  assertions stop the system for a text of odd length, one that does not fit with its NUL, and one with a character
  outside two sets, and for nothing else. The sets are written down independently of the decoder: the 22 hex digits, and
  the 17 characters `:` to `@` and `W` to `` ` `` that its two corrections turn into values of digits although they are
  none (see findings). The payload length that counts the NUL is what makes the odd text fail and the even one
  not. `ArgumentsAreWords`: the handler sees the first
  words of the text, although the tokenizer cuts the buffer it reads from; `MatchesCommandTable`.
* **MCFirmware** - TCP and one more transport, and one of the three session properties, since they are cleared alike.
  Two threads are enough for every interleaving around one lock: a third would only be another one that fails to get
  it. `NoPinGlitch`: written register by register, no pin drives anything on the way that it does not drive before or
  after; in particular IRST, open drain, never pulls the target's reset. `ReadyBeforeUse`: order of initialisation, and that
  drivers, clocks (48 MHz for USB, the limits of the chip) and pin functions of the four headers fit together; the pins of
  USART2 too, whose driver is built and initialised but never started.
  `SessionIsOwn`, `AmberExplained`, `ImplementsAtomicSession`: the session's statements under any interleaving. The LED of
  a new session can be switched off by the previous owner's last statement; with the one transport of today's build it
  cannot (`AmberShowsSession`, proved). `ServesWhatItAnnounced`: descriptors against endpoints. `ShellReturns`: if the
  port stays configured, there is a shell on it again and again.
* **MCGdbServer** - two clients, two netbufs each: a damaged packet with a command behind it, a command with one behind
  it that fails an assertion, a lone `+`, a checksum that is not hex. Orderly closes and resets at any moment, writes
  that fail for lack of memory, accept errors, a transport that locks and releases the session at any moment.
  `SessionExclusive`, `OnlyOwnerWritten`, `FreshSession`; for sessions that are still active `AnsweredInOrder` and
  `NothingSkipped`; `NothingLostAtClose`: a client that closed in order and got every answer it was owed had everything
  it sent handled, so that data is given up only behind a write that failed; `AssertionsExplained`: no failed write
  leaves a packet the next reply trips over, "Session inactive." takes an aborted session whose failed write was the
  last, and the other assertions that packet or that command; `ImplementsSingleSession`: clients are looked at in order,
  one at a time is spoken to, a deleted connection stays deleted.
* **MCGdbServerLive** - `EveryConnectionEnds` under `FairSpec`, with everything of the previous run able to happen and
  one netbuf per client: whether a connection ends depends on what its last write returned, not on how many there were.
* **MCGdbServerInactive**, **MCGdbServerChained** - violations, see findings.

Two clients are enough for the server's state: it has one connection at a time, and the second one is waiting, refused
or next. Two netbufs let one be handled while another is queued, the situation behind every hazard of the receive
loop. The mailbox sizes of `lwipopts.h` are larger than what two clients can fill. Where clients are interchangeable
and no liveness is checked the runs use symmetry.

Fairness. `FairSpec` gives the thread weak fairness: it runs at LOWPRIO+2 (`network.c:110`) below threads that sleep
or block, so a step that stays enabled is taken. Each client closes in the end (weak fairness of `Fin`): receive has no
timeout and keep-alive is off (`lwipopts.h:1442`), so without it a silent client keeps the session for good. Nothing
is assumed of resets, failing writes or the other transport. `Firmware`'s specification has weak fairness of main's calls, of the
shell interface thread and of a shell whose read has failed: they run above the TCP server's final priority, nothing
they execute waits for it, and they wait for nothing but each other. Nothing is assumed of the host, of a user who
leaves the shell, of the clients or of the second transport.

## Findings

Statements of the sources the code does not keep; each has a run that TLC violates.

| Run | Statement | Code |
| --- | --- | --- |
| MCPacketReaderOverhead | checksum only for payload characters (`gdb_packet.c:41-42`) | every character outside a frame counts too |
| MCCommandLoopNoAck | "Supported query commands." (`gdb_query.c:114`), among them one to "Start the no-ACK mode." (`gdb_query.c:98`, `:125`) | `G_COMMANDS` sends every `Q` packet to `gdb_set` (`gdb.c:181`), which supports nothing |
| MCGdbServerInactive | "Session inactive." never fails (`gdb_session.c:63`) | it does, after a failed write with data queued |
| MCGdbServerChained | a transparent channel (`gdb_session.c:7-8`) | only the first pbuf of a netbuf is read |

The cause of MCGdbServerInactive is that `network_serve_gdb` returns `ERR_OK` on a write error, since `RETURN_IF_NOT`
returns its second argument (`common.h:36-41`), and the loop that means to "Break the loop, if there is a connection
error." (`network.c:70`) goes on. The run assumes of lwIP that data queued before a reset can still be received; its
version is not part of the sources. The model allows it, and does not require it.

Because no-ACK mode can never start (MCCommandLoopNoAck; `AcknowledgesAlways` proves it for every sequence of commands),
every complete frame causes a write, and that write refreshes the error that `network.c:53` tests (`NothingSkipped`).

Smaller things met while modelling, without a run of their own: `char_from_hex_nibble`, documented to "Convert a single
hex nibble to a character." (`hex.c:57`) and to reject an "Invalid hex nibble." (`hex.c:71`), takes `:` to `@` for 3 to 9 and
`W` to `` ` `` for 0 to 9 (`TakenForDigits` in `RemoteCommand`; `NibbleCharacters` proves that there are no others); a `$` does not empty the buffer
(`gdb_packet.c:98-102`), and the handlers take the payload from the buffer's second character on (`gdb_packet.h:148`), so a
packet that was started again, or that follows characters whose sum is a multiple of 256, is accepted and read at the wrong
place; other characters in front of a packet are counted, which makes the reader refuse it; `qCRC`, a table entry without handler, is answered by
the handler of `qC` in front of it (`gdb_query.c:119-120`); a packet cut by a segment boundary is not put together
again (`gdb_packet.c:158` starts every call from an empty packet); the interrupt endpoint is announced with 8-byte
packets and configured with 16 (`usbcfg.c:77`, `usbcfg.c:271`); the comments of the pin table in `board.h` call PA8
and PB4 "input pullup", their settings are a floating input and an alternate function with pull-up; what
`netconn_listen` returns is not looked at (`network.c:107`).

## Proofs

The theorems hold for every value of the constants under the named assumptions of the modules, which give the
constants their types (`BufferAssumption`, `ReaderAssumption`, `WriterAssumption`, `LoopAssumption`, `NetconnAssumption`,
`LockAssumption` and the like). Three theorems about the server and one about
the items have a hypothesis more; it is named below with the reason.

What a loop over data computes is proved without induction over the data: either the model is a step per character, and
the invariant says what the loop has computed of the part it has passed, or a lemma looks at the least place where a
claim about all places would fail (`NoLeast`, `NoSmallest` in `CommonLemmas`). `CommonLemmas` also has what the proofs
need of the community modules' folds (`FlattenSeq`, `FoldLeft` as sums over a growing sequence), and of byte
arithmetic.

Reader (`PacketReaderProofs`), for texts and buffers of any length:

* `ReaderTypeOK`, `ReaderVerifies`: the buffer bound and `AcceptedIsVerified`. Neither is inductive alone; `ReaderInv` adds that while
  reading the buffer has at most as many characters as the input, so that there is room for the NUL when a frame
  completes and the comparison is reached.
* `StopsAtFirstFrameAlways`, `AcceptedIffSumMatchesAlways`, `WellFormedAcceptedAlways`, `BufferHoldsInputAlways`. The properties define frame,
  sum and digits over the whole text; `ScanInv` relates them to the state after each character: the state is the place in
  the frame (`Scanned`), `checksum` the sum so far modulo 256 (`Summed`), `checksum_ref` the digits read so far
  (`Referenced`), a verdict what the comparison gave (`Compared`), and the buffer the stored characters (`BufferHoldsInput`).

Items (also in `PacketReaderProofs`), for any set of items that fit their characters and arrays of any length:

* `ItemReaderReads`: `ItemSpec` implements the reader's `Spec`, so that everything above holds of it.
* `VerdictsMatchAlways`: the link on which the server's model rests. `ItemInv` follows the loop: the characters read are those of
  the items passed and of a part of the current one, and so is their sum (`Spelling`); everything passed was open, and what the
  reader knows of the text it has read, the `#` it may end in and the digit behind it, it knows of the part alone (`Alike` in
  `Verdict`), since only the end of an item closes a frame. On the other side `StreamOfItems` computes the call on the
  items from its first item that is not open.
* `TextsMatchAlways`, if the closing frame stands alone (`FrameStandsAlone`): it is whole, its digits are right, and what is in
  front of it either adds something to the checksum or is nothing that the buffer stores. The first two leave out frames
  cut in two, which stay with the run; the third is how the code is: a second `$`, for one, is stored
  and not counted (see findings). In all other cases the
  agreement of the checksums forces the sum in front to be zero, hence the buffer to hold the frame only (`KeptBehind`).

Writer (`PacketWriterProofs`):

* `WriterTypeOK`, `OnlyOverlongHalts`: `WriterInv` relates the open buffer to the message: `1 + Len(message)` characters, or full. A packet
  left unfinished at the flush is then too long by arithmetic, and a flushed one is marked whatever the transport said.
* `WireIsFramedAlways`: `Contents` says what the output packet holds at every stage, so that a flush appends one more frame to
  a wire that is a sequence of them.
* `ReaderAcceptsReplyAlways`: reader and writer fit. `Contents` says what text a complete packet holds, and `Readable` that it has none of
  the protocol's characters; the lemmas on `FoldLeft` (`FedInOrder`) then let the reader be fed one character at a time, and its
  sum is the writer's.

Commands (`GdbCommandsProofs`, `CommandLoopProofs`), for texts of any kind and sessions of any length: `TypeOKAlways`, `AcknowledgesAlways`,
`ExtendedByRequestAlways`, `HaltsOnDollarAlways`, `OneReplyAlways`, `NoneShadowedAlways`. Lemmas give the outcome of every handler (none sets
no-ACK mode, only `!` sets extended mode, only a monitor command halts, all but breakpoints and wordless monitor commands that do not halt answer once); the
invariant adds that the last outcome is that of the last text and that the properties are the sum of the outcomes.

Monitor commands (`RemoteCommandProofs`), for digits of any length, any buffer and any number of arguments:

* `NibbleCharacters`: character by character, what the decoder's byte arithmetic accepts is `HexDigits` and `TakenForDigits`.
* `TypeOKAlways`, `HaltsExactlyUndecodableAlways`: `ConvertInv` says that the cells written so far are the bytes of the digit pairs
  passed, all of them valid; that the loop ends inside the buffer follows from the length test, which counts the NUL.
* `ArgumentsAreWordsAlways`: `SplitInv`. The tokenizer cuts the buffer it reads from, so the invariant (`IsSplit`) says what it has
  left alone: from the cursor on the buffer is still the text, the arguments start where the text's first words start, in order,
  and each is followed by its NUL. The next word of the rest is then the next word of the text (`TokenIsNextWord`), and the
  end of an argument, which the code finds by searching for a NUL, the end of the word (`ArgumentString`).
* `MatchesCommandTableAlways`: characters and fragments agree. `FirstFragment` (by a shortest counterexample): a text is blank, or a
  number of delimiters is followed by a fragment that is none. That fragment begins the first argument (`FirstArgument`), and as no
  fragment begins another, `strncmp` finds a name exactly where the fragment *is* the name (`NameMatches`). On the side of
  `GdbCommands` the same fragment is the head of the command name (`CommandOpens`). `FragmentsAssumption` is what these proofs
  take of the fragments; TLC evaluates it in MCRemoteCommand.

Server (`GdbServerProofs`), for any number of clients, netbufs and resets:

* `OneSession`, `OwnerWritten`: `SessionExclusive` needs, besides itself, that the backlog holds only live connections, each once and
  never the thread's own (`BacklogInv`), that the thread's connection is live (`OwnerInv`), and the session's shape
  (`SessionRecord`): without them a deleted connection could be accepted again. The action property follows from the same invariant.
* `TypeOKAlways`: with `FlowInv`, which bounds the netbufs on their way.
* `AssertionsExplainedAlways`: `AbortInv`, an aborted session the thread still works for was aborted by the write whose error is in
  `err`; and `CauseInv`, what fails behind the answers belongs to the command that was accepted last.
* `FreshSessionAlways`: `PropertiesInv`, extended mode comes from the connection's own answered commands.
* `AnsweredInOrderAlways`: inductive, given that one handled frame appends what it calls for.
* `NothingSkippedAlways`, if every netbuf is one pbuf (`OnePbuf`): `TransparentChannel` is violated for chained ones, and then
  the rest of the chain *is* skipped. `HandledInv` says that the loop goes on after a frame only without an error or without data.
* `NothingLostAtCloseAlways`, if every netbuf is one pbuf: a failed write ends a session with data unread, which the code does on
  purpose, but its client then lacks an answer for good. `CloseInv` counts: in an aborted session what was written and what is still
  to be written is less than what is owed (`AnswerLost`), and no later step makes up for it.
* `NoAssertionFailsWhenLegal`, for `LegalTraffic`: no write fails, no client resets, no checksum has a digit the reader rejects
  and no command halts. Without any of them the system does stop: MCGdbServerInactive shows it for a failed write, the
  items `nonhex` and `mon$` of MCGdbServer for the digit and the command. Chained netbufs and a competing transport are
  allowed.
* `ImplementsSingleSessionAlways`: the refinement. A connection that is established is `Arrive`, locking the session for it `Begin`,
  a refused one `Refuse`, every write `Speak`, its deletion `End`; whatever only moves data is a stutter.

Session and firmware (`FirmwareProofs`), for any number of transports:

* `OneHolderAlways`, `SessionIsOwnAlways`, `BeginsFreshAlways`, `AmberExplainedAlways`, `AmberShowsAlways`, `SessionRefinesAtomic`: the invariant says
  member by member what lock has set and release has cleared at each statement (`ContentInv`), that the boot's order keeps
  everybody away before `gdb_session_init` (`BootInv`), and who has lit which LED. In the refinement the step that sets
  the last member is `Acquire`, the one that enters release is `Release`, and every other one stutters or acts on the
  owner's session.
* `FirmwareUsesSessionLock`: every step of the firmware is one of `SessionLock`'s or leaves its variables alone, given that main's
  calls come in their order (`OrderInv`); so `FirmwareSessionIsOwn`, `FirmwareAmberExplained` and `FirmwareRefinesAtomic` follow.
* `FirmwareTypeOK`, `ServesWhatItAnnouncedAlways`, `NoPinGlitchAlways`, `ReadyBeforeUseAlways`: `FirmwareInv` adds the life of the shell and of
  the USB driver against each other (`ConsoleInv`), how many registers of which ports are written at each place of the boot
  (`PinsInv`), what is initialised there (`MainInv`, `ReadyInv`), and that threads start where `main` starts them (`ThreadsInv`).
  The pin table, the clock tree and the descriptors are constants of the code: these proofs compute with them.

Only model-checked: liveness (`EveryConnectionEnds`, `ShellReturns`), which is out of the prover's reach; and
`TextsMatchCharacters` for frames cut in two, whose parts would have to be related to each other by another
assumption on the items.

## Not modelled

* Logging, thread names, stack sizes, interrupt priorities: output or resources without influence on the order of
  calls. The data of the shell and `sof_handler`, which flushes it.
* `hex_from_str`: no caller. The card detection of `board.c`: not compiled.
* Settings of drivers that are not in the build (most of `mcuconf.h`, `halconf.h`), the kernel's hooks (empty) and lwIP's
  options other than those named above (`lwipopts.h`): libraries outside the repository give them their meaning.
* The `._c` files under `platform/` and `usb_cdc/` (not compiled), the test script, hardware.

## Plan

Done: reader, writer, commands, monitor commands, session, server, boot, board, shell and USB, the three abstract
specifications, the theorems above. What would come next:

1. A retransmitting GDB client over `GdbServer`: command and reply stay paired although frames are damaged or segments cut.
2. The items of `TextsMatchAlways` for frames cut in two or more parts.
3. lwIP's pools (`MEMP_NUM_NETCONN`, `MEMP_NUM_NETBUF`) as limits in `Netconn`.
