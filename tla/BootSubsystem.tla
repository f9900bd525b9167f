--------------------------- MODULE BootSubsystem ---------------------------
(***************************************************************************)
(* The boot loader (rtl/soc/boot): commands from the private DMI window or *)
(* from the byte stream of the boot UART, their arbiter, and the           *)
(* controller that writes the instruction memory and holds the core.       *)
(*                                                                         *)
(* The receiver is seen at its bytes: between two of them lie ByteGap      *)
(* clock edges at least.  A word is its four bytes, the least significant  *)
(* first; an address is the first byte of its word, modulo Depth.          *)
(***************************************************************************)
EXTENDS Integers, Sequences

CONSTANTS BootModes,   \* the values of boot_mode_i: "bypass", "jtag", "uart"
          Depth,       \* words of instruction memory
          File,        \* the image: directives "@" and words, in their order
          ByteGap,     \* clock edges between two bytes
          Typed,       \* bytes a terminal may receive after the boot
          Typing       \* how many of them

ASSUME BootAssumption ==
  /\ BootModes \subseteq {"bypass", "jtag", "uart"}
  /\ Depth \in 1 .. 256 /\ ByteGap \in Nat \ {0, 1} /\ Typing \in Nat
  /\ Typed \subseteq 0 .. 255
  /\ File \in Seq([kind : {"@", "word"}, word : [1 .. 4 -> 0 .. 255]])

NoByte == -1
Zero == <<0, 0, 0, 0>>
Blank == <<165, 90, 165, 90>>   \* what the memory holds before the boot
AddrOf(word) == word[1] % Depth
Advance(addr) == (addr + 1) % Depth

\* What the file says, read line by line: the next address and the words.
Reading[k \in 0 .. Len(File)] ==
  IF k = 0 THEN [next |-> 0, words |-> [a \in {} |-> Zero]]
  ELSE LET r == Reading[k - 1] IN
       IF File[k].kind = "@" THEN [r EXCEPT !.next = AddrOf(File[k].word)]
       ELSE [next |-> Advance(r.next),
             words |-> [a \in DOMAIN r.words \cup {r.next} |->
                          IF a = r.next THEN File[k].word ELSE r.words[a]]]
Image == Reading[Len(File)].words

VARIABLES
  bootMode,   \* boot_mode_i
  parser,     \* state_q and shift_q of uart_boot_slave
  uartCmd,    \* the command it has registered
  boot,       \* boot_addr_q, auto_inc_q, fetch_released_q
  port,       \* the registered write port to the instruction memory
  imem,
  line, quiet \* bytes the loader has still to send; clock edges since the last

bootVars == <<bootMode, parser, uartCmd, boot, port, imem, line, quiet>>

-----------------------------------------------------------------------------
(* Commands: what a pulse does, and its address and data.                  *)

Command(does, addr, word) == [does |-> does, addr |-> addr, word |-> word]
NoCommand == Command({}, 0, Zero)

BootRegs == {"boot_addr", "boot_wdata", "boot_ctrl", "boot_status"}

\* A write to the DMI window.
DmiCommand(r) ==
  IF r.op # "write" THEN NoCommand
  ELSE CASE r.reg = "boot_addr" -> Command({"set_addr"}, AddrOf(r.word), Zero)
         [] r.reg = "boot_wdata" -> Command({"write"}, 0, r.word)
         [] r.reg = "boot_ctrl" ->
              Command((r.bits \cap {"set_addr", "hold", "release"})
                      \cup {IF "auto_inc" \in r.bits THEN "auto" ELSE "still"}, 0, Zero)
         [] OTHER -> NoCommand

\* What the window answers.
BootAnswer(r) ==
  [op |-> "ok",
   word |-> IF r.reg = "boot_addr" THEN <<boot.addr, 0, 0, 0>> ELSE Zero,
   bits |-> IF r.reg \in {"boot_ctrl", "boot_status"}
              THEN {"present", "holds"} \cup (IF boot.auto THEN {"auto_inc"} ELSE {})
                   \cup (IF boot.released THEN {"released"} ELSE {})
              ELSE {}]

DmiBootEnabled == bootMode = "jtag"
BootSelected(r) == DmiBootEnabled /\ r.reg \in BootRegs

\* Wrong: the boot UART goes on listening after the release.
UartEnabledAlways == bootMode = "uart"

UartEnabled == bootMode = "uart" /\ ~boot.released
FetchEnabled == bootMode = "bypass" \/ boot.released

-----------------------------------------------------------------------------
(* The parser takes a byte and makes at most one command of it.            *)

Expecting(what) == [state |-> what, shift |-> <<>>]

Opcode(b) ==
  CASE b = 1 -> [next |-> Expecting("addr"), cmd |-> NoCommand]
    [] b = 2 -> [next |-> Expecting("data"), cmd |-> NoCommand]
    [] b = 3 -> [next |-> parser, cmd |-> Command({"hold"}, 0, Zero)]
    [] b = 4 -> [next |-> parser, cmd |-> Command({"release"}, 0, Zero)]
    [] b = 5 -> [next |-> Expecting("auto"), cmd |-> NoCommand]
    [] b = 6 -> [next |-> parser, cmd |-> Command({"set_addr"}, 0, Zero)]
    [] OTHER -> [next |-> parser, cmd |-> NoCommand]   \* protocol_error_o

Payload(b) ==
  CASE parser.state = "auto" ->
         Command({IF b % 2 = 1 THEN "auto" ELSE "still"}, 0, Zero)
    [] parser.state = "addr" -> Command({"set_addr"}, AddrOf(parser.shift), Zero)
    [] parser.state = "data" -> Command({"write"}, 0, Append(parser.shift, b))

Parsed(b) ==
  IF parser.state = "opcode" THEN Opcode(b)
  ELSE IF parser.state \in {"addr", "data"} /\ Len(parser.shift) < 3
         THEN [next |-> [parser EXCEPT !.shift = Append(@, b)], cmd |-> NoCommand]
         ELSE [next |-> Expecting("opcode"), cmd |-> Payload(b)]

\* The DMI window comes first.
Arbitrated(dmiCmd) ==
  IF DmiBootEnabled /\ dmiCmd.does # {} THEN dmiCmd
  ELSE IF UartEnabled THEN uartCmd ELSE NoCommand

BootNext(c) ==
  [addr |-> IF "write" \in c.does /\ boot.auto THEN Advance(boot.addr)
            ELSE IF "set_addr" \in c.does THEN c.addr ELSE boot.addr,
   auto |-> "auto" \in c.does \/ (boot.auto /\ "still" \notin c.does),
   released |-> "release" \in c.does \/ (boot.released /\ "hold" \notin c.does)]

\* A clock edge with a DMI command and with a byte from the receiver.
BootClock(dmiCmd, b) ==
  LET c == Arbitrated(dmiCmd)
      p == IF b # NoByte /\ UartEnabled THEN Parsed(b)
           ELSE [next |-> parser, cmd |-> NoCommand]
  IN /\ parser' = p.next /\ uartCmd' = p.cmd
     /\ boot' = BootNext(c)
     /\ port' = IF "write" \in c.does
                  THEN [we |-> TRUE, addr |-> boot.addr, word |-> c.word]
                  ELSE [port EXCEPT !.we = FALSE]
     /\ imem' = IF port.we THEN [imem EXCEPT ![port.addr] = port.word] ELSE imem

-----------------------------------------------------------------------------
(* The loader at the other end of the line, and a terminal after it.       *)

LineOf(l) == <<IF l.kind = "@" THEN 1 ELSE 2>> \o l.word

Sent[k \in 0 .. Len(File)] ==
  IF k = 0 THEN <<3, 6, 5, 1>> ELSE Sent[k - 1] \o LineOf(File[k])

Loader == IF bootMode = "uart"
            THEN [left |-> Append(Sent[Len(File)], 4), typed |-> 0]
            ELSE [left |-> <<>>, typed |-> 0]

\* The byte that arrives with a clock edge, if any.
Arrives(b) ==
  \/ /\ b = NoByte /\ line' = line
     /\ quiet' = IF quiet < ByteGap THEN quiet + 1 ELSE quiet
  \/ /\ b # NoByte /\ quiet = ByteGap /\ quiet' = 0
     /\ \/ /\ line.left # <<>> /\ b = Head(line.left)
           /\ line' = [line EXCEPT !.left = Tail(@)]
        \/ /\ bootMode = "uart" /\ line.left = <<>> /\ line.typed < Typing /\ b \in Typed
           /\ line' = [line EXCEPT !.typed = @ + 1]

Bytes == {NoByte} \cup (IF line.left # <<>> THEN {Head(line.left)} ELSE Typed)

BootRegsAtReset ==
  [parser |-> Expecting("opcode"), boot |-> [addr |-> 0, auto |-> TRUE, released |-> FALSE],
   port |-> [we |-> FALSE, addr |-> 0, word |-> Zero]]

\* Reset of the registers; the memory keeps its words, the loader starts again.
BootReset ==
  /\ parser' = BootRegsAtReset.parser /\ uartCmd' = NoCommand
  /\ boot' = BootRegsAtReset.boot /\ port' = BootRegsAtReset.port
  /\ line' = Loader /\ quiet' = 0
  /\ UNCHANGED <<bootMode, imem>>

BootInit ==
  /\ bootMode \in BootModes
  /\ parser = BootRegsAtReset.parser /\ uartCmd = NoCommand
  /\ boot = BootRegsAtReset.boot /\ port = BootRegsAtReset.port
  /\ imem = [a \in 0 .. Depth - 1 |-> Blank]
  /\ line = Loader /\ quiet = 0

-----------------------------------------------------------------------------
(* Type invariant.                                                         *)
BootTypeOK ==
  /\ bootMode \in BootModes
  /\ parser.state \in {"opcode", "addr", "data", "auto"} /\ Len(parser.shift) \in 0 .. 3
  /\ boot.addr \in 0 .. Depth - 1 /\ quiet \in 0 .. ByteGap
  /\ imem \in [0 .. Depth - 1 -> [1 .. 4 -> 0 .. 255]]

(* memory-architecture-spec:80, "a UART or DMI boot transport writes the   *)
(* complete IMEM image": when a loader lets the core fetch, every word of  *)
(* the file is in its place, whatever resets came before; and it stays     *)
(* there, whatever is typed on the line that was the loader's.             *)
BootedImage ==
  FetchEnabled /\ bootMode # "bypass" =>
    \A a \in DOMAIN Image : imem[a] = Image[a]
=============================================================================
