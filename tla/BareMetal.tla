----------------------------- MODULE BareMetal -----------------------------
(***************************************************************************)
(* The bare-metal images that sleep in WFI (sw/examples): timer_clint,     *)
(* irq_timer_uart and wfi_tickless, woken by the timer of the CLINT, and   *)
(* dma_irq_wfi and dma_descriptor_irq_wfi, woken by the DMA channel.  With *)
(* them the helpers of eriscv_mcu.h that read and set 64-bit registers in  *)
(* halves, and the trap handlers of sw/lib/trap.c and irq_timer_uart.      *)
(*                                                                         *)
(* mtime and mtimecmp have two digits to the base Base instead of two      *)
(* words.  Every register access is an action: the clock may advance       *)
(* between any two.  MaxTime bounds the clock; it never reaches the last   *)
(* value of the high digit, as 64 bits never do.                           *)
(***************************************************************************)
EXTENDS Integers

CONSTANTS Images,    \* the images that may be loaded
          Base, MaxTime,
          Interval   \* TICK_INTERVAL, SLEEP_TICKS

TickImages == {"timer_clint", "irq_timer_uart", "wfi_tickless"}
DmaImages == {"dma_irq_wfi", "dma_descriptor_irq_wfi"}

ASSUME BareMetalAssumption ==
  /\ Images \subseteq TickImages \cup DmaImages
  /\ {Base, MaxTime, Interval} \subseteq Nat \ {0}
  /\ MaxTime + Interval < Base * (Base - 1)

VARIABLES
  image,
  pc,        \* where main and the handler are; "none": no handler runs
  asleep,    \* the core has executed WFI and waits
  mie,       \* mstatus.MIE with the image's bits of mie
  mtime, cmp,          \* the clock; mtimecmp as [hi, lo]
  read,      \* the halves that read_mtime has loaded, [hi, lo]
  deadline,  \* the value of the last call of set_mtimecmp
  asked,     \* the time at which the current call of read_mtime began
  counted, last, shown, \* g_tick or g_wake_count; main's copy; what it printed
  channel,   \* STATUS of the DMA channel: "idle", "busy" or "done"
  pending,   \* source 5 is pending in the PLIC
  completion \* dma_completion_status is not 0

clint == <<mtime, cmp, deadline>>
time == <<clint, read, asked>>
dma == <<channel, pending, completion>>
imageVars == <<image, pc, asleep, mie, time, counted, last, shown, dma>>

-----------------------------------------------------------------------------
(* The CLINT, the PLIC and WFI.                                            *)

Hi(t) == t \div Base
Lo(t) == t % Base
Mtip == mtime >= cmp.hi * Base + cmp.lo
IrqLine == Mtip \/ pending

MtimeCounts ==
  /\ mtime < MaxTime
  /\ mtime' = mtime + 1
  /\ UNCHANGED <<image, pc, asleep, mie, cmp, deadline, read, asked, counted, last,
                 shown, dma>>

DmaEnds ==
  /\ channel = "busy"
  /\ channel' = "done" /\ pending' = TRUE
  /\ UNCHANGED <<image, pc, asleep, mie, time, counted, last, shown, completion>>

Contexts == {"main", "handler"}
Running == IF pc.handler # "none" THEN "handler" ELSE "main"
Interrupted == mie /\ IrqLine /\ pc.handler = "none"
\* A pending interrupt is taken before main goes on.
StepsAt(c, where) == c = Running /\ ~asleep /\ ~Interrupted /\ pc[c] = where
Goto(c, where) == pc' = [pc EXCEPT ![c] = where]

\* WFI: an interrupt that is pending keeps the core awake, or wakes it.
WfiGoesTo(next) ==
  /\ StepsAt("main", "wfi")
  /\ asleep' = ~IrqLine
  /\ Goto("main", next)
  /\ UNCHANGED <<image, mie, time, counted, last, shown, dma>>

Wakes ==
  /\ asleep /\ IrqLine
  /\ asleep' = FALSE
  /\ UNCHANGED <<image, pc, mie, time, counted, last, shown, dma>>

\* eriscv_mcu_trap_handler: the external interrupt comes first.
TakeIrq ==
  /\ Interrupted /\ ~asleep
  /\ Goto("handler", IF pending THEN "external" ELSE "read_hi")
  /\ UNCHANGED <<image, asleep, mie, time, counted, last, shown, dma>>

-----------------------------------------------------------------------------
(* eriscv_mcu_clint_read_mtime and eriscv_mcu_clint_set_mtimecmp, called   *)
(* one after the other by main and by the handler.                         *)

ReadHi(c) ==
  /\ StepsAt(c, "read_hi")
  /\ read' = [read EXCEPT !.hi = Hi(mtime)]
  /\ asked' = mtime
  /\ Goto(c, "read_lo")
  /\ UNCHANGED <<image, asleep, mie, clint, counted, last, shown, dma>>

ReadLo(c) ==
  /\ StepsAt(c, "read_lo")
  /\ read' = [read EXCEPT !.lo = Lo(mtime)]
  /\ Goto(c, "read_again")
  /\ UNCHANGED <<image, asleep, mie, clint, asked, counted, last, shown, dma>>

\* The high half is read again, and everything if it has changed.
ReadAgain(c) ==
  /\ StepsAt(c, "read_again")
  /\ Goto(c, IF Hi(mtime) = read.hi THEN "set_ones" ELSE "read_hi")
  /\ UNCHANGED <<image, asleep, mie, time, counted, last, shown, dma>>

ReadValue == read.hi * Base + read.lo

\* A wrong first write: the high half is left as it is.
SetOnesNot(c) ==
  /\ StepsAt(c, "set_ones")
  /\ deadline' = ReadValue + Interval
  /\ Goto(c, "set_lo")
  /\ UNCHANGED <<image, asleep, mie, mtime, cmp, read, asked, counted, last, shown, dma>>

\* The argument is computed, and the high half goes to all ones.
SetOnes(c) ==
  /\ StepsAt(c, "set_ones")
  /\ deadline' = ReadValue + Interval
  /\ cmp' = [cmp EXCEPT !.hi = Base - 1]
  /\ Goto(c, "set_lo")
  /\ UNCHANGED <<image, asleep, mie, mtime, read, asked, counted, last, shown, dma>>

SetLo(c) ==
  /\ StepsAt(c, "set_lo")
  /\ cmp' = [cmp EXCEPT !.lo = Lo(deadline)]
  /\ Goto(c, "set_hi")
  /\ UNCHANGED <<image, asleep, mie, mtime, deadline, read, asked, counted, last,
                 shown, dma>>

SetHi(c) ==
  /\ StepsAt(c, "set_hi")
  /\ cmp' = [cmp EXCEPT !.hi = Hi(deadline)]
  /\ Goto(c, IF c = "main" THEN "enable" ELSE "count")
  /\ UNCHANGED <<image, asleep, mie, mtime, deadline, read, asked, counted, last,
                 shown, dma>>

Helpers(c) == \/ ReadHi(c) \/ ReadLo(c) \/ ReadAgain(c)
              \/ SetOnes(c) \/ SetLo(c) \/ SetHi(c)

\* The end of the handler of the timer.
Counts ==
  /\ StepsAt("handler", "count")
  /\ counted' = counted + 1
  /\ Goto("handler", "none")
  /\ UNCHANGED <<image, asleep, mie, time, last, shown, dma>>

\* The external handler: claim, eriscv_mcu_dma_irq_handler with the image's
\* callback, complete.
DmaHandler ==
  /\ StepsAt("handler", "external")
  /\ completion' = (channel = "done")
  /\ channel' = "idle" /\ pending' = FALSE
  /\ Goto("handler", "none")
  /\ UNCHANGED <<image, asleep, mie, time, counted, last, shown>>

-----------------------------------------------------------------------------
(* The loops of main.                                                      *)

EnableIrqs ==
  /\ StepsAt("main", "enable")
  /\ mie' = TRUE
  /\ Goto("main", CASE image \in DmaImages -> "start"
                    [] image = "wfi_tickless" -> "wfi"
                    [] OTHER -> "note")
  /\ UNCHANGED <<image, asleep, time, counted, last, shown, dma>>

Note ==
  /\ StepsAt("main", "note")
  /\ last' = counted
  /\ Goto("main", "check")
  /\ UNCHANGED <<image, asleep, mie, time, counted, shown, dma>>

\* A wrong loop: the tick is noted again whenever it is checked.
CheckAndNote ==
  /\ StepsAt("main", "check") /\ image \in TickImages
  /\ last' = counted
  /\ Goto("main", IF counted = last THEN "wfi" ELSE "check")
  /\ UNCHANGED <<image, asleep, mie, time, counted, shown, dma>>

Check ==
  /\ StepsAt("main", "check") /\ image \in TickImages
  /\ Goto("main", IF counted = last THEN "wfi" ELSE "show")
  /\ UNCHANGED <<image, asleep, mie, time, counted, last, shown, dma>>

Show ==
  /\ StepsAt("main", "show")
  /\ shown' = counted
  /\ Goto("main", IF image = "wfi_tickless" THEN "wfi" ELSE "note")
  /\ UNCHANGED <<image, asleep, mie, time, counted, last, dma>>

\* eriscv_mcu_dma_start or eriscv_mcu_dma_start_descriptor, interrupt enabled.
DmaStart ==
  /\ StepsAt("main", "start")
  /\ channel' = "busy"
  /\ Goto("main", "check")
  /\ UNCHANGED <<image, asleep, mie, time, counted, last, shown, pending, completion>>

DmaCheck ==
  /\ StepsAt("main", "check") /\ image \in DmaImages
  /\ Goto("main", IF completion THEN "pass" ELSE "wfi")
  /\ UNCHANGED <<image, asleep, mie, time, counted, last, shown, dma>>

Main == EnableIrqs \/ Note \/ Check \/ Show \/ DmaStart \/ DmaCheck
          \/ WfiGoesTo(IF image = "wfi_tickless" THEN "show" ELSE "check")

-----------------------------------------------------------------------------
ImageInit ==
  /\ image \in Images
  /\ pc = [main |-> IF image \in DmaImages THEN "enable" ELSE "read_hi",
           handler |-> "none"]
  /\ asleep = FALSE /\ mie = FALSE
  /\ mtime = 0 /\ cmp = [hi |-> Base - 1, lo |-> Base - 1]
  /\ read = [hi |-> 0, lo |-> 0]
  /\ deadline = Base * Base - 1 /\ asked = 0
  /\ counted = 0 /\ last = 0 /\ shown = 0
  /\ channel = "idle" /\ pending = FALSE /\ completion = FALSE

Software == Main \/ (\E c \in Contexts : Helpers(c)) \/ Counts \/ DmaHandler

ImageNext == MtimeCounts \/ DmaEnds \/ Wakes \/ TakeIrq \/ Software

\* Main, unlike the handler, can be interrupted again and again.
ImageFairness ==
  /\ WF_imageVars(MtimeCounts) /\ WF_imageVars(DmaEnds) /\ WF_imageVars(Wakes)
  /\ WF_imageVars(TakeIrq) /\ SF_imageVars(Software)

ImageSpec == ImageInit /\ [][ImageNext]_imageVars /\ ImageFairness

-----------------------------------------------------------------------------
(* Type invariant: registers and counters keep their ranges, and the       *)
(* clock never comes to the high half that stands for "never".             *)
ImageTypeOK ==
  /\ image \in Images
  /\ {asleep, mie, pending, completion} \subseteq BOOLEAN
  /\ mtime \in 0 .. MaxTime /\ Hi(mtime) < Base - 1
  /\ {cmp, read} \subseteq [hi : 0 .. Base - 1, lo : 0 .. Base - 1]
  /\ channel \in {"idle", "busy", "done"}

(* eriscv_mcu.h:202, "set the compare value safely": at no moment between  *)
(* the three writes is the timer interrupt raised before the time asked    *)
(* for.                                                                    *)
NeverEarly == Mtip => mtime >= deadline

(* eriscv_mcu.h:274, "read the stable counter": what read_mtime returns is *)
(* a time at which it was running, also when the low half overflows        *)
(* between its reads.                                                      *)
ReadIsNow ==
  \A c \in Contexts : pc[c] = "set_ones" => ReadValue \in asked .. mtime

(* A 64-bit register that is set or read in halves never shows, to the     *)
(* comparator or to the program, a value that nobody meant.                *)
HalvesAgree == NeverEarly /\ ReadIsNow

(* The tick for which the core is woken is counted and printed, whatever   *)
(* ticks came before it: one that falls between the check of the loop and  *)
(* WFI is printed late, with the next one, never lost.  Ticks are an       *)
(* interval apart.                                                         *)
TicksShown ==
  \A n \in 0 .. MaxTime \div Interval :
    (asleep /\ Mtip /\ counted = n) ~> (shown > n)

(* sw/README.md:49, "DMA source-5 PLIC interrupt wakes WFI": the images    *)
(* come to the end of their transfer.                                      *)
DmaWakes == image \in DmaImages ~> pc.main = "pass"
=============================================================================
