----------------------------- MODULE MCDataPath -----------------------------
(***************************************************************************)
(* One word of each target for the program, one more DTCM word for the     *)
(* debugger, and one more System SRAM word, in the other bank.             *)
(***************************************************************************)
EXTENDS DataPath

MCAddrs == {0, 1}
MCData == {0, 1}
MCInitMem == [a \in MCAddrs |-> a]
D == <<"DMEM", 0>>
S == <<"SRAM", 0>>
P == <<"APB", 0>>
C == <<"CLINT", 0>>
U == <<"NONE", 0>>

Work(used, mul, debugger, channel) ==
  [addrs |-> used, cycles |-> mul, sba |-> debugger, dma |-> channel]

\* The targets in pairs, then the debugger and the DMA channel.
MCWorkloads ==
  {Work(used, {1, 2}, {}, FALSE) : used \in {{D, S}, {D, P}, {D, C}, {D, U},
                                                {S, P}, {S, C}, {P, C}}} \cup
  {Work({D}, {1}, {D}, FALSE), Work({}, {}, {D}, FALSE), Work({S}, {1}, {}, TRUE)}

\* One hazard each: the DMA channel in the program's bank, a debugger that does
\* not wait for the program, a program at a peripheral.
MCContention == {Work({S}, {}, {}, TRUE)}
MCDebugged == {Work({D}, {}, {D}, FALSE)}
MCPeripheral == {Work({P}, {1}, {}, FALSE)}

MCSbaStores == {<<"DMEM", 1>>}

=============================================================================
