-------------------------- MODULE SystemSram_proofs --------------------------
(***************************************************************************)
(* System SRAM is an atomic memory, for every number of banks, words and   *)
(* values, with and without the load bypass; and no request waits longer   *)
(* than one access of the other master.                                    *)
(***************************************************************************)
EXTENDS SystemSram, TLAPS

-----------------------------------------------------------------------------
(* The inductive invariant.                                                *)

ArbType    == [state : {"IDLE", "REQUEST", "RESPONSE"}, owner : Masters,
               last : Masters, we : BOOLEAN, addr : Addrs, data : Data]
BankType   == [valid : BOOLEAN, rdata : Data]
FabType    == [bank : [Masters -> Banks], cpuWe : BOOLEAN, loadValid : BOOLEAN,
               loadData : Data]
MasterType == [phase : {"idle", "request", "wait"}, we : BOOLEAN, addr : Addrs,
               data : Data]

\* The bank that master m addresses.
Home(m) == BankOf(master[m].addr)

\* Bank b works on the access of m.
Serves(b, m) == arb[b].state # "IDLE" /\ arb[b].owner = m

\* The output register of a bank holds a new word exactly in the answer's cycle.
BanksInStep == \A b \in Banks : sram[b].valid <=> arb[b].state = "RESPONSE"

\* A bank that works does so for a master that waits for just that access, and
\* the way back to that master is set.
BankServes ==
  \A b \in Banks, m \in Masters :
    Serves(b, m) =>
      /\ master[m].phase = "wait" /\ Home(m) = b /\ fab.bank[m] = b
      /\ arb[b].last = m
      /\ arb[b].we = master[m].we /\ arb[b].addr = master[m].addr
      /\ arb[b].data = master[m].data
      /\ m = "cpu" => fab.cpuWe = master[m].we

\* A load of the CPU whose word is in the load-response register.
Loaded == ~LoadBypass /\ fab.loadValid

\* A master that waits is served, or its word is in the load-response register.
WaiterServed ==
  \A m \in Masters :
    master[m].phase = "wait" => Serves(Home(m), m) \/ (m = "cpu" /\ Loaded)

LoadRegister ==
  Loaded =>
    /\ master["cpu"].phase = "wait" /\ ~master["cpu"].we
    /\ \A b \in Banks : ~Serves(b, "cpu")

Fabric == BanksInStep /\ BankServes /\ WaiterServed /\ LoadRegister

\* A request that was passed over is next: the bank is with the other master.
Turn ==
  \A m \in Masters :
    master[m].phase = "request" /\ waited[m] > 0 =>
      LET a == arb[Home(m)]
      IN  /\ a.last # m
          /\ a.state = "REQUEST"  => waited[m] <= 1
          /\ a.state = "RESPONSE" => waited[m] <= 2
          /\ a.state = "IDLE"     => waited[m] <= 3

NotAsking == \A m \in Masters : master[m].phase # "request" => waited[m] = 0

IInv == TypeOK /\ Fabric /\ Turn /\ NotAsking

-----------------------------------------------------------------------------
LEMMA BankInBanks == ASSUME NEW a \in Addrs PROVE BankOf(a) \in Banks
BY FabricAssumption DEF BankOf, Banks

LEMMA Homes == TypeOK => \A m \in Masters : Home(m) \in Banks
BY BankInBanks DEF TypeOK, Home

-----------------------------------------------------------------------------
(* What the masters drive and may do next.                                 *)

Fresh == {IdleMaster} \cup NewRequests

LEMMA FreshMasters ==
  ASSUME NEW n \in Fresh
  PROVE  n \in MasterType /\ n.phase \in {"idle", "request"}
<1>1. IdleMaster \in MasterType /\ IdleMaster.phase = "idle"
  BY FabricAssumption DEF IdleMaster, MasterType
<1>2. ASSUME NEW a \in Addrs
      PROVE  Request(FALSE, a, 0) \in MasterType /\ Request(FALSE, a, 0).phase = "request"
  BY FabricAssumption DEF Request, MasterType
<1>3. ASSUME NEW s \in Stores
      PROVE  /\ Request(TRUE, s[1], s[2]) \in MasterType
             /\ Request(TRUE, s[1], s[2]).phase = "request"
  BY MasterAssumption DEF Request, MasterType
<1>. QED  BY <1>1, <1>2, <1>3 DEF Fresh, NewRequests

\* The idle arbiter of the addressed bank admits the master that it selects.
LEMMA Admission ==
  ASSUME TypeOK, NEW m \in Masters
  PROVE  /\ Port[m].valid <=> master[m].phase = "request"
         /\ Port[m].we = master[m].we /\ Port[m].addr = master[m].addr
         /\ Port[m].data = master[m].data
         /\ \A b \in Banks : Wants(m, b, Port) <=> master[m].phase = "request" /\ Home(m) = b
         /\ Ready(m, Port) <=> /\ master[m].phase = "request"
                               /\ arb[Home(m)].state = "IDLE"
                               /\ Selected(Home(m), Port) = m
BY DEF Port, Wants, Ready, Home

LEMMA MasterMoves ==
  ASSUME TypeOK, Clock, NEW m \in Masters
  PROVE  /\ master[m].phase = "idle" => master'[m] \in Fresh
         /\ master[m].phase = "request" /\ Ready(m, Port) =>
              master'[m] = [master[m] EXCEPT !.phase = "wait"]
         /\ master[m].phase = "request" /\ ~Ready(m, Port) =>
              master'[m] = master[m] \/ (m = "dma" /\ master'[m] \in Fresh)
         /\ master[m].phase = "wait" =>
              IF RespValid(m) THEN master'[m] \in Fresh ELSE master'[m] = master[m]
<1>1. PICK c \in Moves("cpu", Ready("cpu", Port)), d \in Moves("dma", Ready("dma", Port)) :
        master' = [n \in Masters |-> IF n = "cpu" THEN c ELSE d]
  BY DEF Clock, Masters
<1>2. master'[m] \in Moves(m, Ready(m, Port))
  BY <1>1 DEF Masters
<1>. QED  BY <1>2 DEF Moves, Fresh

-----------------------------------------------------------------------------
(* Types.                                                                  *)

LEMMA ArbTypes == TypeOK /\ Clock => arb' \in [Banks -> ArbType]
<1>. SUFFICES ASSUME TypeOK, Clock, NEW b \in Banks PROVE ArbiterStep(b, Port) \in ArbType
  BY DEF Clock, FabricClock
<1>1. arb[b] \in ArbType
  BY DEF TypeOK, ArbType
<1>2. Selected(b, Port) \in Masters
  BY DEF Selected, Masters
<1>3. \A m \in Masters : Port[m].we \in BOOLEAN /\ Port[m].addr \in Addrs
                         /\ Port[m].data \in Data
  BY DEF Port, TypeOK
<1>. QED  BY <1>1, <1>2, <1>3 DEF ArbiterStep, ArbType

LEMMA TypeStep == TypeOK /\ Clock => TypeOK'
<1>. SUFFICES ASSUME TypeOK, Clock PROVE TypeOK'
  OBVIOUS
<1>1. arb' \in [Banks -> ArbType]
  BY ArbTypes
<1>2. \A b \in Banks : mem[arb[b].addr] \in Data
  BY DEF TypeOK
<1>3. sram' \in [Banks -> BankType]
  BY <1>2 DEF Clock, FabricClock, Accessed, TypeOK, BankType
<1>4. mem' \in [Addrs -> Data]
  BY BankInBanks DEF Clock, FabricClock, TypeOK
<1>5. fab' \in FabType
  <2>1. \A m \in Masters : AnswerBank(m, Port) \in Banks
    BY BankInBanks DEF AnswerBank, Port, TypeOK
  <2>2. \A m \in Masters : sram[fab.bank[m]].rdata \in Data /\ Port[m].we \in BOOLEAN
    BY DEF TypeOK, Port
  <2>3. (CpuRaw /\ ~fab.cpuWe) \in BOOLEAN
    OBVIOUS
  <2>. QED  BY <2>1, <2>2, <2>3 DEF Clock, FabricClock, TypeOK, FabType, Masters
<1>6. master' \in [Masters -> MasterType]
  <2>1. ASSUME NEW m \in Masters
        PROVE  master'[m] \in MasterType
    <3>1. master[m] \in MasterType /\ master[m].phase \in {"idle", "request", "wait"}
      BY DEF TypeOK, MasterType
    <3>2. [master[m] EXCEPT !.phase = "wait"] \in MasterType
      BY <3>1 DEF MasterType
    <3>. QED  BY <3>1, <3>2, MasterMoves, FreshMasters
  <2>2. PICK c \in Moves("cpu", Ready("cpu", Port)), d \in Moves("dma", Ready("dma", Port)) :
          master' = [m \in Masters |-> IF m = "cpu" THEN c ELSE d]
    BY DEF Clock, Masters
  <2>3. master' = [m \in Masters |-> master'[m]]
    BY <2>2
  <2>. QED  BY <2>1, <2>3
<1>7. waited' \in [Masters -> 0 .. WaitLimit]
  <2>. DEFINE W(n, reset) == IF reset THEN 0 ELSE IF n < WaitLimit THEN n + 1 ELSE n
  <2>1. \A n \in 0 .. WaitLimit, reset \in BOOLEAN : W(n, reset) \in 0 .. WaitLimit
    BY MasterAssumption
  <2>2. \A m \in Masters : waited[m] \in 0 .. WaitLimit
    BY DEF TypeOK
  <2>3. waited' = [m \in Masters |->
                     W(waited[m], master[m].phase # "request" \/ master'[m] # master[m])]
    BY DEF Clock
  <2>. HIDE DEF W
  <2>. QED  BY <2>1, <2>2, <2>3
<1>. QED  BY <1>1, <1>3, <1>4, <1>5, <1>6, <1>7
          DEF TypeOK, ArbType, BankType, FabType, MasterType

-----------------------------------------------------------------------------
(* Answers.                                                                *)

LEMMA Responding ==
  ASSUME TypeOK, BanksInStep, BankServes, NEW m \in Masters
  PROVE  /\ BankResponds(m, fab.bank[m]) <=>
              Serves(Home(m), m) /\ arb[Home(m)].state = "RESPONSE"
         /\ Serves(Home(m), m) => master[m].phase = "wait" /\ fab.bank[m] = Home(m)
         /\ m = "cpu" /\ Serves(Home(m), m) => fab.cpuWe = master[m].we
<1>1. Home(m) \in Banks /\ fab.bank[m] \in Banks
  BY Homes DEF TypeOK
<1>2. BankResponds(m, fab.bank[m]) => Serves(fab.bank[m], m)
  BY DEF BankResponds, Serves
<1>. QED  BY <1>1, <1>2 DEF BankServes, BanksInStep, BankResponds, Serves

\* An answer comes to a master that waits, when its bank responds; the load of a
\* CPU without the bypass is answered by the load-response register.
LEMMA Answers ==
  ASSUME TypeOK, Fabric, NEW m \in Masters
  PROVE  RespValid(m) <=>
           /\ master[m].phase = "wait"
           /\ IF m = "cpu" /\ ~LoadBypass /\ ~master[m].we THEN Loaded
              ELSE Serves(Home(m), m) /\ arb[Home(m)].state = "RESPONSE"
<1>. BanksInStep /\ BankServes /\ LoadRegister
  BY DEF Fabric
<1>1. CASE m = "dma"
  BY <1>1, Responding DEF RespValid
<1>2. CASE m = "cpu"
  <2>1. CpuRaw <=> Serves(Home(m), m) /\ arb[Home(m)].state = "RESPONSE"
    BY <1>2, Responding DEF CpuRaw
  <2>. QED  BY <1>2, <2>1, Responding DEF RespValid, Loaded, LoadRegister
<1>. QED  BY <1>1, <1>2 DEF Masters

-----------------------------------------------------------------------------
(* One edge.                                                               *)

\* The arbiter of bank b works on what master m asked for.
WorksFor(b, m) ==
  /\ arb[b].owner = m /\ arb[b].last = m /\ arb[b].we = master[m].we
  /\ arb[b].addr = master[m].addr /\ arb[b].data = master[m].data

\* ... and goes on with what it had.
Keeps(b) ==
  /\ arb'[b].owner = arb[b].owner /\ arb'[b].last = arb[b].last
  /\ arb'[b].we = arb[b].we /\ arb'[b].addr = arb[b].addr
  /\ arb'[b].data = arb[b].data

\* The arbiter of a bank admits, accesses, answers, and is idle again.
LEMMA BankEdge ==
  ASSUME TypeOK, BanksInStep, Clock, NEW b \in Banks
  PROVE  /\ sram'[b].valid <=> arb[b].state = "REQUEST"
         /\ \A m \in Masters :
              Ready(m, Port) /\ Home(m) = b => arb'[b].state = "REQUEST" /\ WorksFor(b, m)'
         /\ arb[b].state = "IDLE" /\ (\A m \in Masters : Ready(m, Port) => Home(m) # b) =>
              arb'[b] = arb[b]
         /\ arb[b].state = "REQUEST"  => arb'[b].state = "RESPONSE" /\ Keeps(b)
         /\ arb[b].state = "RESPONSE" => arb'[b].state = "IDLE" /\ Keeps(b)
<1>1. /\ arb'[b] = ArbiterStep(b, Port) /\ sram'[b].valid = Accessed(b)
      /\ arb[b] \in ArbType
  BY DEF Clock, FabricClock, TypeOK, ArbType
<1>2. Selected(b, Port) \in Masters
  BY DEF Selected, Masters
<1>3. ASSUME NEW m \in Masters, Ready(m, Port), Home(m) = b
      PROVE  arb'[b].state = "REQUEST" /\ WorksFor(b, m)'
  <2>1. arb'[b] = [state |-> "REQUEST", owner |-> m, last |-> m,
                   we |-> master[m].we, addr |-> master[m].addr,
                   data |-> master[m].data]
    BY <1>1, <1>3, Admission DEF ArbiterStep
  <2>2. master'[m] = [master[m] EXCEPT !.phase = "wait"] /\ master[m] \in MasterType
    BY <1>3, MasterMoves, Admission DEF TypeOK, MasterType
  <2>3. master'[m].we = master[m].we /\ master'[m].addr = master[m].addr
        /\ master'[m].data = master[m].data
    BY <2>2 DEF MasterType
  <2>. QED  BY <2>1, <2>3 DEF WorksFor
<1>4. ASSUME arb[b].state = "IDLE", \A m \in Masters : Ready(m, Port) => Home(m) # b
      PROVE  arb'[b] = arb[b]
  <2>1. ~Wants(Selected(b, Port), b, Port)
    BY <1>2, <1>4, Admission
  <2>. QED  BY <1>1, <1>4, <2>1 DEF ArbiterStep
<1>5. ASSUME arb[b].state = "REQUEST" PROVE arb'[b].state = "RESPONSE" /\ Keeps(b)
  <2>1. arb'[b] = [arb[b] EXCEPT !.state = "RESPONSE"]
    BY <1>1, <1>5 DEF ArbiterStep
  <2>. QED  BY <1>1, <2>1 DEF Keeps, ArbType
<1>6. ASSUME arb[b].state = "RESPONSE" PROVE arb'[b].state = "IDLE" /\ Keeps(b)
  <2>1. arb'[b] = [arb[b] EXCEPT !.state = "IDLE"]
    BY <1>1, <1>6 DEF ArbiterStep, BanksInStep
  <2>. QED  BY <1>1, <2>1 DEF Keeps, ArbType
<1>. QED  BY <1>1, <1>3, <1>4, <1>5, <1>6 DEF Accessed

\* Who is served after the edge was admitted on it or has had his access on it.
LEMMA ServedNext ==
  ASSUME TypeOK, BanksInStep, Clock, NEW b \in Banks, NEW m \in Masters
  PROVE  Serves(b, m)' <=>
           \/ Ready(m, Port) /\ Home(m) = b /\ arb'[b].state = "REQUEST"
           \/ Serves(b, m) /\ arb[b].state = "REQUEST" /\ arb'[b].state = "RESPONSE"
<1>0. arb[b].state \in {"IDLE", "REQUEST", "RESPONSE"}
  BY DEF TypeOK
<1>1. CASE \E n \in Masters : Ready(n, Port) /\ Home(n) = b
  <2>1. PICK n \in Masters : Ready(n, Port) /\ Home(n) = b
    BY <1>1
  <2>2. arb'[b].state = "REQUEST" /\ arb'[b].owner = n
    BY <2>1, BankEdge DEF WorksFor
  <2>3. Ready(m, Port) /\ Home(m) = b => m = n
    BY <2>1, Admission
  <2>4. arb[b].state = "IDLE"
    BY <2>1, Admission
  <2>. QED  BY <2>1, <2>2, <2>3, <2>4 DEF Serves
<1>2. CASE arb[b].state = "IDLE" /\ \A n \in Masters : Ready(n, Port) => Home(n) # b
  BY <1>2, BankEdge DEF Serves
<1>3. CASE arb[b].state = "REQUEST"
  <2>1. arb'[b].state = "RESPONSE" /\ Keeps(b)
    BY <1>3, BankEdge
  <2>. QED  BY <1>3, <2>1, Admission DEF Serves, Keeps
<1>4. CASE arb[b].state = "RESPONSE"
  <2>1. arb'[b].state = "IDLE"
    BY <1>4, BankEdge
  <2>. QED  BY <1>4, <2>1 DEF Serves
<1>. QED  BY <1>0, <1>1, <1>2, <1>3, <1>4

\* The way back to a master changes only when it is admitted.
LEMMA WayBack ==
  ASSUME TypeOK, Clock, NEW m \in Masters
  PROVE  /\ fab'.bank[m] = IF Ready(m, Port) THEN Home(m) ELSE fab.bank[m]
         /\ fab'.cpuWe = IF Ready("cpu", Port) THEN master["cpu"].we ELSE fab.cpuWe
         /\ fab'.loadValid = (CpuRaw /\ ~fab.cpuWe)
         /\ fab'.loadData = IF CpuRaw /\ ~fab.cpuWe THEN sram[fab.bank["cpu"]].rdata
                            ELSE fab.loadData
<1>1. Port["cpu"].we = master["cpu"].we /\ Port[m].addr = master[m].addr
  BY Admission DEF Masters
<1>. QED  BY <1>1 DEF Clock, FabricClock, AnswerBank, Home

\* Nothing moves for a master between its admission and its access.
LEMMA InAccess ==
  ASSUME TypeOK, Fabric, Clock, NEW m \in Masters, Serves(Home(m), m),
         arb[Home(m)].state = "REQUEST"
  PROVE  /\ master[m].phase = "wait" /\ ~RespValid(m) /\ master'[m] = master[m]
         /\ ~Ready(m, Port)
<1>1. master[m].phase = "wait"
  BY Responding DEF Fabric
<1>2. ~(m = "cpu" /\ Loaded)
  BY Homes DEF Fabric, LoadRegister
<1>. QED  BY <1>1, <1>2, Answers, MasterMoves, Admission

LEMMA FabricStart == Init => TypeOK /\ Fabric
<1>. SUFFICES ASSUME Init PROVE TypeOK /\ Fabric
  OBVIOUS
<1>1. TypeOK
  <2>1. 0 \in Banks
    BY FabricAssumption DEF Banks
  <2>2. IdleMaster \in MasterType
    BY FreshMasters DEF Fresh
  <2>. QED  BY <2>1, <2>2, FabricAssumption, MasterAssumption
            DEF Init, FabricInit, TypeOK, Masters, MasterType
<1>2. Fabric
  BY DEF Init, FabricInit, Fabric, BanksInStep, BankServes, WaiterServed, LoadRegister,
         Loaded, Serves, IdleMaster
<1>. QED  BY <1>1, <1>2

LEMMA FabricStep == TypeOK /\ Fabric /\ Clock => Fabric'
<1>. SUFFICES ASSUME TypeOK, Fabric, Clock PROVE Fabric'
  OBVIOUS
<1>. BanksInStep /\ BankServes /\ WaiterServed /\ LoadRegister
  BY DEF Fabric
<1>1. BanksInStep'
  <2>. SUFFICES ASSUME NEW b \in Banks
                PROVE  sram'[b].valid <=> arb'[b].state = "RESPONSE"
    BY DEF BanksInStep
  <2>0. arb[b].state \in {"IDLE", "REQUEST", "RESPONSE"}
        /\ (sram'[b].valid <=> arb[b].state = "REQUEST")
    BY BankEdge DEF TypeOK
  <2>1. CASE \E m \in Masters : Ready(m, Port) /\ Home(m) = b
    <3>1. PICK m \in Masters : Ready(m, Port) /\ Home(m) = b
      BY <2>1
    <3>2. arb'[b].state = "REQUEST" /\ arb[b].state = "IDLE"
      BY <3>1, BankEdge, Admission
    <3>. QED  BY <2>0, <3>2
  <2>2. CASE arb[b].state = "IDLE" /\ \A m \in Masters : Ready(m, Port) => Home(m) # b
    <3>1. arb'[b] = arb[b]
      BY <2>2, BankEdge
    <3>. QED  BY <2>0, <2>2, <3>1
  <2>3. CASE arb[b].state = "REQUEST"
    <3>1. arb'[b].state = "RESPONSE"
      BY <2>3, BankEdge
    <3>. QED  BY <2>0, <2>3, <3>1
  <2>4. CASE arb[b].state = "RESPONSE"
    <3>1. arb'[b].state = "IDLE"
      BY <2>4, BankEdge
    <3>. QED  BY <2>0, <2>4, <3>1
  <2>. QED  BY <2>0, <2>1, <2>2, <2>3, <2>4
<1>2. BankServes'
  <2>. SUFFICES ASSUME NEW b \in Banks, NEW m \in Masters, Serves(b, m)'
                PROVE  /\ master'[m].phase = "wait" /\ Home(m)' = b /\ fab'.bank[m] = b
                       /\ arb'[b].last = m
                       /\ arb'[b].we = master'[m].we /\ arb'[b].addr = master'[m].addr
                       /\ arb'[b].data = master'[m].data
                       /\ m = "cpu" => fab'.cpuWe = master'[m].we
    BY DEF BankServes
  <2>0. master[m] \in MasterType
    BY DEF TypeOK, MasterType
  <2>1. CASE Ready(m, Port) /\ Home(m) = b
    <3>1. master'[m] = [master[m] EXCEPT !.phase = "wait"]
      BY <2>1, MasterMoves, Admission
    <3>2. master'[m].phase = "wait" /\ master'[m].we = master[m].we
          /\ master'[m].addr = master[m].addr /\ master'[m].data = master[m].data
      BY <2>0, <3>1 DEF MasterType
    <3>3. WorksFor(b, m)'
      BY <2>1, BankEdge
    <3>. QED  BY <2>1, <3>2, <3>3, WayBack DEF Home, WorksFor
  <2>2. CASE Serves(b, m) /\ arb[b].state = "REQUEST"
    <3>1. Home(m) = b /\ fab.bank[m] = b
      BY <2>2 DEF BankServes
    <3>2. master'[m] = master[m] /\ ~Ready(m, Port)
      BY <2>2, <3>1, InAccess
    <3>4. Keeps(b)
      BY <2>2, BankEdge
    <3>5. Home(m)' = Home(m)
      BY <3>2 DEF Home
    <3>6. m = "cpu" => fab'.cpuWe = fab.cpuWe
      BY <3>2, WayBack
    <3>. QED  BY <2>2, <3>1, <3>2, <3>4, <3>5, <3>6, WayBack DEF BankServes, Keeps
  <2>. QED  BY <2>1, <2>2, ServedNext
<1>3. WaiterServed'
  <2>. SUFFICES ASSUME NEW m \in Masters, master'[m].phase = "wait"
                PROVE  Serves(Home(m), m)' \/ (m = "cpu" /\ Loaded')
    BY DEF WaiterServed
  <2>0. master[m] \in MasterType /\ Home(m) \in Banks
    BY Homes DEF TypeOK, MasterType
  <2>1. CASE master[m].phase = "request" /\ Ready(m, Port)
    <3>1. master'[m] = [master[m] EXCEPT !.phase = "wait"]
      BY <2>1, MasterMoves
    <3>2. Home(m)' = Home(m)
      BY <2>0, <3>1 DEF MasterType, Home
    <3>3. PICK b \in Banks : b = Home(m)
      BY <2>0
    <3>4. arb'[b].state = "REQUEST" /\ WorksFor(b, m)'
      BY <2>1, <3>3, BankEdge
    <3>. QED  BY <3>2, <3>3, <3>4 DEF Serves, WorksFor
  <2>2. CASE master[m].phase = "wait" /\ ~RespValid(m)
    <3>1. master'[m] = master[m] /\ Home(m)' = Home(m)
      BY <2>2, MasterMoves DEF Home
    <3>2. ~(m = "cpu" /\ Loaded)
      BY <2>2, Answers DEF LoadRegister, Loaded
    <3>3. Serves(Home(m), m)
      BY <2>2, <3>2 DEF WaiterServed
    <3>4. CASE arb[Home(m)].state = "REQUEST"
      <4>1. arb'[Home(m)].state = "RESPONSE" /\ Keeps(Home(m))
        BY <2>0, <3>4, BankEdge
      <4>. QED  BY <3>1, <3>3, <4>1 DEF Serves, Keeps
    <3>5. CASE arb[Home(m)].state = "RESPONSE"
      <4>1. m = "cpu" /\ ~LoadBypass /\ ~master[m].we
        BY <2>2, <3>3, <3>5, Answers
      <4>2. CpuRaw /\ ~fab.cpuWe
        BY <3>3, <3>5, <4>1, Responding DEF CpuRaw
      <4>. QED  BY <4>1, <4>2, WayBack DEF Loaded
    <3>. QED  BY <2>0, <3>3, <3>4, <3>5 DEF Serves, TypeOK
  <2>3. CASE \/ master[m].phase = "idle"
             \/ master[m].phase = "request" /\ ~Ready(m, Port)
             \/ master[m].phase = "wait" /\ RespValid(m)
    BY <2>3, MasterMoves, FreshMasters
  <2>. QED  BY <2>0, <2>1, <2>2, <2>3 DEF MasterType
<1>4. LoadRegister'
  <2>. SUFFICES ASSUME Loaded'
                PROVE  /\ master'["cpu"].phase = "wait" /\ ~master'["cpu"].we
                       /\ \A b \in Banks : ~Serves(b, "cpu")'
    BY DEF LoadRegister
  <2>. "cpu" \in Masters
    BY DEF Masters
  <2>1. ~LoadBypass /\ CpuRaw /\ ~fab.cpuWe
    BY WayBack DEF Loaded
  <2>2. /\ Serves(Home("cpu"), "cpu") /\ arb[Home("cpu")].state = "RESPONSE"
        /\ master["cpu"].phase = "wait" /\ ~master["cpu"].we
    BY <2>1, Responding DEF CpuRaw
  <2>3. ~Loaded
    BY <2>2, Homes DEF LoadRegister
  <2>4. master'["cpu"] = master["cpu"]
    BY <2>1, <2>2, <2>3, Answers, MasterMoves
  <2>5. ASSUME NEW b \in Banks, Serves(b, "cpu")'
        PROVE  FALSE
    <3>1. ~Ready("cpu", Port)
      BY <2>2, Admission
    <3>2. Serves(b, "cpu") /\ arb[b].state = "REQUEST"
      BY <2>5, <3>1, ServedNext
    <3>3. Home("cpu") = b
      BY <3>2 DEF BankServes
    <3>. QED  BY <2>2, <3>2, <3>3
  <2>. QED  BY <2>2, <2>4, <2>5
<1>. QED  BY <1>1, <1>2, <1>3, <1>4 DEF Fabric

\* Two masters at one bank take turns.
LEMMA TurnStep == TypeOK /\ Fabric /\ Turn /\ NotAsking /\ Clock => Turn' /\ NotAsking'
<1>. SUFFICES ASSUME TypeOK, Fabric, Turn, NotAsking, Clock PROVE Turn' /\ NotAsking'
  OBVIOUS
<1>0. \A m \in Masters :
        waited'[m] = IF master[m].phase # "request" \/ master'[m] # master[m] THEN 0
                     ELSE IF waited[m] < WaitLimit THEN waited[m] + 1 ELSE waited[m]
  BY DEF Clock
<1>1. NotAsking'
  <2>. SUFFICES ASSUME NEW m \in Masters, master'[m].phase # "request" PROVE waited'[m] = 0
    BY DEF NotAsking
  <2>. QED  BY <1>0
<1>2. Turn'
  <2>. SUFFICES ASSUME NEW m \in Masters, master'[m].phase = "request", waited'[m] > 0
                PROVE  LET a == arb'[Home(m)']
                       IN  /\ a.last # m
                           /\ a.state = "REQUEST"  => waited'[m] <= 1
                           /\ a.state = "RESPONSE" => waited'[m] <= 2
                           /\ a.state = "IDLE"     => waited'[m] <= 3
    BY DEF Turn
  <2>. BanksInStep /\ BankServes
    BY DEF Fabric
  <2>a. PICK b \in Banks : b = Home(m)
    BY Homes
  <2>0. /\ waited[m] \in Nat /\ waited'[m] \in Nat
        /\ master[m] \in MasterType /\ arb[b] \in ArbType
        /\ arb[b].state \in {"IDLE", "REQUEST", "RESPONSE"}
    <3>1. waited'[m] \in 0 .. WaitLimit
      BY TypeStep DEF TypeOK
    <3>. QED  BY <3>1, MasterAssumption DEF TypeOK, MasterType, ArbType
  <2>1. /\ master[m].phase = "request" /\ master'[m] = master[m] /\ Home(m)' = b
        /\ waited'[m] <= waited[m] + 1
    BY <1>0, <2>0, <2>a DEF Home
  <2>2. ~Ready(m, Port)
    <3>1. [master[m] EXCEPT !.phase = "wait"].phase = "wait"
      BY <2>0 DEF MasterType
    <3>. QED  BY <2>1, <3>1, MasterMoves
  <2>3. CASE arb[b].state = "IDLE"
    <3>1. Selected(b, Port) # m /\ Wants(m, b, Port)
      BY <2>0, <2>1, <2>2, <2>3, Admission, <2>a
    <3>2. PICK n \in Masters : n # m /\ Selected(b, Port) = n /\ Wants(n, b, Port)
      BY <3>1 DEF Selected, Masters
    <3>3. Ready(n, Port) /\ Home(n) = b
      BY <2>0, <2>3, <3>2, Admission
    <3>4. arb'[b].state = "REQUEST" /\ WorksFor(b, n)'
      BY <2>0, <3>3, BankEdge
    <3>5. arb'[b].state = "REQUEST" /\ arb'[b].last # m
      BY <3>2, <3>4 DEF WorksFor
    <3>6. waited[m] = 0
      <4>. SUFFICES ASSUME waited[m] # 0 PROVE FALSE
        OBVIOUS
      <4>1. arb[b].last # m
        BY <2>0, <2>1, <2>a DEF Turn
      <4>2. arb[b].last \in Masters
        BY <2>0 DEF ArbType
      <4>. QED  BY <3>1, <4>1, <4>2 DEF Selected, Masters
    <3>. QED  BY <2>0, <2>1, <3>5, <3>6
  <2>4. CASE arb[b].state # "IDLE"
    <3>1. arb[b].owner # m /\ arb[b].last # m
      <4>1. arb[b].owner \in Masters
        BY <2>0 DEF ArbType
      <4>2. arb[b].owner # m
        BY <2>0, <2>1, <2>4 DEF BankServes, Serves
      <4>3. arb[b].last = arb[b].owner
        BY <2>0, <2>4, <4>1 DEF BankServes, Serves
      <4>. QED  BY <4>2, <4>3
    <3>2. /\ arb'[b].last # m
          /\ arb[b].state = "REQUEST"  => arb'[b].state = "RESPONSE"
          /\ arb[b].state = "RESPONSE" => arb'[b].state = "IDLE"
      <4>1. /\ arb[b].state = "REQUEST"  => arb'[b].state = "RESPONSE" /\ Keeps(b)
            /\ arb[b].state = "RESPONSE" => arb'[b].state = "IDLE" /\ Keeps(b)
        BY <2>0, BankEdge
      <4>. QED  BY <2>0, <2>4, <3>1, <4>1 DEF Keeps
    <3>3. arb[b].state = "REQUEST" => waited[m] <= 1
      BY <2>0, <2>1, <2>a DEF Turn
    <3>4. arb[b].state = "RESPONSE" => waited[m] <= 2
      BY <2>0, <2>1, <2>a DEF Turn
    <3>. QED  BY <2>0, <2>1, <2>4, <3>2, <3>3, <3>4
  <2>. QED  BY <2>3, <2>4
<1>. QED  BY <1>1, <1>2

LEMMA Invariance == Spec => []IInv
<1>1. Init => IInv
  <2>1. Init => Turn /\ NotAsking
    BY DEF Init, Turn, NotAsking
  <2>. QED  BY <2>1, FabricStart DEF IInv
<1>2. IInv /\ [Clock]_vars => IInv'
  <2>1. CASE Clock
    BY <2>1, TypeStep, FabricStep, TurnStep DEF IInv
  <2>2. CASE UNCHANGED vars
    BY <2>2 DEF vars, fabricVars, IInv, TypeOK, Fabric, BanksInStep, BankServes,
                WaiterServed, LoadRegister, Loaded, Serves, Home, Turn, NotAsking
  <2>. QED  BY <2>1, <2>2
<1>. QED  BY <1>1, <1>2, PTL DEF Spec

\* Whatever the masters ask for, every register of the fabric keeps its type.
THEOREM TypeCorrect == Spec => []TypeOK
<1>1. IInv => TypeOK
  BY DEF IInv
<1>. QED  BY <1>1, Invariance, PTL

\* No answer goes astray: it reaches a master that waits for it.
THEOREM AnswersReach == Spec => []AnswersExpected
<1>1. IInv => AnswersExpected
  BY Answers DEF IInv, AnswersExpected
<1>. QED  BY <1>1, Invariance, PTL

\* A request is passed over at most once: it waits three cycles at most.
THEOREM WaitIsBounded == Spec => []WaitBounded
<1>1. IInv => WaitBounded
  <2>. SUFFICES ASSUME IInv, NEW m \in Masters PROVE waited[m] <= 3
    BY DEF WaitBounded
  <2>1. waited[m] \in Nat /\ arb[Home(m)].state \in {"IDLE", "REQUEST", "RESPONSE"}
    BY Homes DEF IInv, TypeOK
  <2>. QED  BY <2>1 DEF IInv, Turn, NotAsking
<1>. QED  BY <1>1, Invariance, PTL

-----------------------------------------------------------------------------
(* System SRAM implements the atomic memory.                               *)

\* The access of m is made on this edge.
InBank(m) ==
  master[m].phase = "wait" /\ Serves(Home(m), m) /\ arb[Home(m)].state = "REQUEST"

Pending == [st : {"pending"}, we : BOOLEAN, addr : Addrs, data : Data]

LEMMA PerformedIff ==
  ASSUME NEW m \in Masters
  PROVE  Performed(m) <=> master[m].phase = "wait" /\ ~InBank(m)
BY DEF Performed, InBank, Serves, Home

\* An access that starts has not been made.
LEMMA FreshOp ==
  ASSUME TypeOK, Fabric, Clock, NEW m \in Masters, master'[m] \in Fresh
  PROVE  Op(m)' \in {[st |-> "idle"]} \cup Pending
<1>1. master'[m] \in MasterType /\ master'[m].phase \in {"idle", "request"}
  BY FreshMasters
<1>2. ~Performed(m)'
  BY <1>1 DEF Performed
<1>. QED  BY <1>1, <1>2 DEF Op, Pending, MasterType

\* The access of m is made: the store's value, or the word that the load reads.
LEMMA AccessMade ==
  ASSUME TypeOK, Fabric, Clock, NEW m \in Masters, InBank(m)
  PROVE  /\ Op(m) = [st |-> "pending", we |-> master[m].we, addr |-> master[m].addr,
                     data |-> master[m].data]
         /\ Op(m)' = [st |-> "done", we |-> master[m].we,
                      value |-> IF master[m].we THEN master[m].data
                                ELSE mem[master[m].addr]]
<1>. BanksInStep /\ BankServes
  BY DEF Fabric
<1>1. PICK b \in Banks : b = Home(m)
  BY Homes
<1>2. Serves(b, m) /\ arb[b].state = "REQUEST" /\ master[m].phase = "wait"
  BY <1>1 DEF InBank
<1>3. master'[m] = master[m] /\ ~Ready(m, Port) /\ Home(m)' = b
  BY <1>1, <1>2, InAccess DEF Home
<1>4. arb'[b].state = "RESPONSE" /\ Keeps(b)
  BY <1>2, BankEdge
<1>5. Performed(m)'
  BY <1>2, <1>3, <1>4 DEF Performed, Home
<1>6. fab'.bank[m] = b /\ sram'[b].rdata = mem[master[m].addr]
  <2>1. fab'.bank[m] = b /\ arb[b].addr = master[m].addr
    BY <1>2, <1>3, WayBack DEF BankServes
  <2>2. sram'[b].rdata = mem[arb[b].addr]
    BY <1>2 DEF Clock, FabricClock, Accessed
  <2>. QED  BY <2>1, <2>2
<1>7. m = "cpu" => ~CpuRaw /\ (LoadBypass \/ ~fab'.loadValid)
  BY <1>1, <1>2, Responding, WayBack DEF CpuRaw
<1>8. ~master[m].we => Answer(m)' = mem[master[m].addr]
  <2>. SUFFICES ASSUME ~master[m].we PROVE Answer(m)' = mem[master[m].addr]
    OBVIOUS
  <2>1. ~master'[m].we
    BY <1>3
  <2>2. m = "cpu" /\ ~LoadBypass => ~RespValid(m)'
    <3>. SUFFICES ASSUME m = "cpu", ~LoadBypass PROVE ~RespValid(m)'
      OBVIOUS
    <3>1. ~fab'.cpuWe
      BY <1>2, <1>3, WayBack DEF BankServes
    <3>. QED  BY <1>7, <3>1 DEF RespValid
  <2>3. RespValid(m)' => RespData(m)' = sram'[b].rdata
    BY <1>6, <2>2 DEF RespData
  <2>. QED  BY <1>6, <2>1, <2>3 DEF Answer
<1>9. master[m].we => Answer(m)' = master[m].data
  BY <1>3 DEF Answer
<1>10. ~Performed(m)
  BY PerformedIff
<1>. QED  BY <1>2, <1>3, <1>5, <1>8, <1>9, <1>10 DEF Op

\* On any other edge a master's access begins, goes on, is taken back or ends.
LEMMA AccessElsewhere ==
  ASSUME TypeOK, Fabric, Clock, NEW m \in Masters, ~InBank(m)
  PROVE  \/ Op(m)' = Op(m)
         \/ /\ Op(m).st = "idle" \/ Op(m).st = "done" \/ (m = "dma" /\ Op(m).st = "pending")
            /\ Op(m)' \in {[st |-> "idle"]} \cup Pending
<1>. BanksInStep /\ BankServes /\ WaiterServed /\ LoadRegister
  BY DEF Fabric
<1>0. master[m] \in MasterType /\ master[m].phase \in {"idle", "request", "wait"}
  BY DEF TypeOK, MasterType
<1>1. CASE master[m].phase = "idle"
  <2>1. Op(m).st = "idle"
    BY <1>1 DEF Op
  <2>. QED  BY <1>1, <2>1, MasterMoves, FreshOp
<1>2. CASE master[m].phase = "request"
  <2>1. Op(m) = [st |-> "pending", we |-> master[m].we, addr |-> master[m].addr,
                 data |-> master[m].data]
    BY <1>2 DEF Op, Performed
  <2>2. CASE Ready(m, Port)
    <3>1. master'[m] = [master[m] EXCEPT !.phase = "wait"]
      BY <1>2, <2>2, MasterMoves
    <3>2. /\ master'[m].phase = "wait" /\ master'[m].we = master[m].we
          /\ master'[m].addr = master[m].addr /\ master'[m].data = master[m].data
      BY <1>0, <3>1 DEF MasterType
    <3>3. PICK b \in Banks : b = Home(m) /\ b = Home(m)'
      BY <3>2, Homes DEF Home
    <3>4. arb'[b].state = "REQUEST" /\ WorksFor(b, m)'
      BY <2>2, <3>3, BankEdge
    <3>5. ~Performed(m)'
      BY <3>3, <3>4 DEF Performed, WorksFor, Home
    <3>. QED  BY <2>1, <3>2, <3>5 DEF Op
  <2>3. CASE ~Ready(m, Port)
    <3>1. CASE master'[m] = master[m]
      <4>1. ~Performed(m)'
        BY <1>2, <3>1 DEF Performed
      <4>. QED  BY <1>2, <2>1, <3>1, <4>1 DEF Op
    <3>2. CASE m = "dma" /\ master'[m] \in Fresh
      <4>1. Op(m).st = "pending"
        BY <2>1
      <4>. QED  BY <3>2, <4>1, FreshOp
    <3>. QED  BY <1>2, <2>3, <3>1, <3>2, MasterMoves
  <2>. QED  BY <2>2, <2>3
<1>3. CASE master[m].phase = "wait" /\ RespValid(m)
  <2>1. Op(m).st = "done"
    BY <1>3, PerformedIff DEF Op
  <2>. QED  BY <1>3, <2>1, MasterMoves, FreshOp
<1>4. CASE master[m].phase = "wait" /\ ~RespValid(m)
  <2>1. master'[m] = master[m]
    BY <1>4, MasterMoves
  <2>2. PICK b \in Banks : b = Home(m) /\ b = Home(m)'
    BY <2>1, Homes DEF Home
  <2>3. ~(m = "cpu" /\ Loaded)
    BY <1>4, Answers DEF LoadRegister, Loaded
  <2>4. Serves(b, m) /\ arb[b].state = "RESPONSE"
    <3>1. Serves(Home(m), m)
      BY <1>4, <2>3 DEF WaiterServed
    <3>2. arb[b].state \in {"IDLE", "REQUEST", "RESPONSE"}
      BY DEF TypeOK
    <3>. QED  BY <1>4, <2>2, <3>1, <3>2 DEF InBank, Serves
  <2>5. m = "cpu" /\ ~LoadBypass /\ ~master[m].we
    BY <1>4, <2>2, <2>4, Answers
  <2>6. CpuRaw /\ ~fab.cpuWe /\ fab.bank["cpu"] = b
    BY <2>2, <2>4, <2>5, Responding DEF CpuRaw
  <2>7. fab'.loadValid /\ fab'.loadData = sram[b].rdata
    BY <2>5, <2>6, WayBack
  <2>8. Answer(m) = sram[b].rdata
    BY <1>4, <2>5, <2>6 DEF Answer
  <2>9. Answer(m)' = sram[b].rdata
    <3>1. RespValid(m)' /\ RespData(m)' = sram[b].rdata
      BY <2>5, <2>7 DEF RespValid, RespData
    <3>. QED  BY <2>1, <2>5, <3>1 DEF Answer
  <2>10. arb'[b].state = "IDLE"
    BY <2>4, BankEdge
  <2>11. Performed(m)'
    BY <1>4, <2>1, <2>2, <2>10 DEF Performed, Home
  <2>12. Performed(m)
    BY <1>4, PerformedIff
  <2>. QED  BY <1>4, <2>1, <2>8, <2>9, <2>11, <2>12 DEF Op
<1>. QED  BY <1>0, <1>1, <1>2, <1>3, <1>4

\* The cells change by the stores whose access is made, each at its own word.
LEMMA CellsStored ==
  ASSUME TypeOK, Fabric, Clock, NEW a \in Addrs
  PROVE  /\ \A m \in Masters :
              InBank(m) /\ master[m].we /\ master[m].addr = a => mem'[a] = master[m].data
         /\ (\A m \in Masters : ~(InBank(m) /\ master[m].we /\ master[m].addr = a)) =>
              mem'[a] = mem[a]
<1>. BankServes
  BY DEF Fabric
<1>. DEFINE b == BankOf(a)
<1>1. b \in Banks /\ arb[b].owner \in Masters
  BY BankInBanks DEF TypeOK
<1>2. mem'[a] = IF arb[b].state = "REQUEST" /\ arb[b].we /\ arb[b].addr = a
                THEN arb[b].data ELSE mem[a]
  BY DEF Clock, FabricClock, Accessed
<1>3. ASSUME NEW m \in Masters, InBank(m), master[m].we, master[m].addr = a
      PROVE  mem'[a] = master[m].data
  <2>1. Home(m) = b
    BY <1>3 DEF Home
  <2>2. arb[b].state = "REQUEST" /\ Serves(b, m)
    BY <1>3, <2>1 DEF InBank
  <2>. QED  BY <1>1, <1>2, <1>3, <2>2 DEF BankServes
<1>4. ASSUME arb[b].state = "REQUEST", arb[b].we, arb[b].addr = a
      PROVE  \E m \in Masters : InBank(m) /\ master[m].we /\ master[m].addr = a
  <2>1. Serves(b, arb[b].owner)
    BY <1>4 DEF Serves
  <2>2. /\ master[arb[b].owner].phase = "wait" /\ Home(arb[b].owner) = b
        /\ master[arb[b].owner].we /\ master[arb[b].owner].addr = a
    BY <1>1, <1>4, <2>1 DEF BankServes
  <2>. QED  BY <1>1, <1>4, <2>1, <2>2 DEF InBank
<1>. QED  BY <1>2, <1>3, <1>4

\* Two accesses are never made to one word on one edge.
LEMMA OneAtAWord ==
  ASSUME TypeOK, NEW m \in Masters, NEW n \in Masters, m # n, InBank(m), InBank(n)
  PROVE  master[m].addr # master[n].addr
BY DEF InBank, Serves, Home

\* The atomic memory's actions, with Op for its variable.
LEMMA AtomicActions ==
  ASSUME NEW m \in Masters
  PROVE  /\ Atomic!Performs(m) <=>
              /\ Op(m).st = "pending"
              /\ \/ Op(m).we /\ Op(m)' = [st |-> "done", we |-> TRUE, value |-> Op(m).data]
                 \/ /\ ~Op(m).we
                    /\ Op(m)' = [st |-> "done", we |-> FALSE, value |-> mem[Op(m).addr]]
         /\ Atomic!Issues(m) <=> Op(m).st = "idle" /\ Op(m)' \in Pending
         /\ Atomic!Cancels(m) <=> /\ m = "dma" /\ Op(m).st = "pending"
                                  /\ Op(m)' \in {[st |-> "idle"]} \cup Pending
         /\ Atomic!Returns(m) <=> /\ Op(m).st = "done"
                                  /\ Op(m)' \in {[st |-> "idle"]} \cup Pending
BY DEF Atomic!Performs, Atomic!Done, Atomic!Issues, Atomic!Cancels, Atomic!Returns,
       Atomic!NoOp, Atomic!PendingOps, Pending

LEMMA AtomicStep ==
  ASSUME TypeOK, Fabric, [Clock]_vars
  PROVE  [Atomic!AtomicNext]_<<mem, [m \in Masters |-> Op(m)]>>
<1>1. CASE UNCHANGED vars
  BY <1>1 DEF vars, fabricVars, Op, Performed, Answer, RespValid, RespData, CpuRaw, BankResponds
<1>2. CASE Clock
  <2>. DEFINE performing == {m \in Masters : Atomic!Performs(m)}
              stored(a) == {m \in performing : Op(m).we /\ Op(m).addr = a}
  <2>1. ASSUME NEW m \in Masters, InBank(m)
        PROVE  /\ Atomic!Performs(m)
               /\ Op(m).we = master[m].we /\ Op(m).addr = master[m].addr
               /\ Op(m).data = master[m].data
    <3>1. master[m].we \in BOOLEAN
      BY DEF TypeOK
    <3>. QED  BY <1>2, <2>1, <3>1, AccessMade, AtomicActions
  <2>2. ASSUME NEW m \in Masters, ~InBank(m)
        PROVE  /\ ~Atomic!Performs(m)
               /\ \/ Atomic!Issues(m) \/ Atomic!Cancels(m) \/ Atomic!Returns(m)
                  \/ Op(m)' = Op(m)
    <3>1. \/ Op(m)' = Op(m)
          \/ /\ Op(m).st = "idle" \/ Op(m).st = "done" \/ (m = "dma" /\ Op(m).st = "pending")
             /\ Op(m)' \in {[st |-> "idle"]} \cup Pending
      BY <1>2, <2>2, AccessElsewhere
    <3>2. Op(m)' \in {[st |-> "idle"]} \cup Pending => Op(m)'.st \in {"idle", "pending"}
      BY DEF Pending
    <3>3. ~Atomic!Performs(m)
      <4>1. Atomic!Performs(m) => Op(m).st = "pending" /\ Op(m)'.st = "done"
        BY AtomicActions
      <4>. QED  BY <3>1, <3>2, <4>1
    <3>4. Op(m).st = "idle" /\ Op(m)' = [st |-> "idle"] => Op(m)' = Op(m)
      BY DEF Op
    <3>. QED  BY <3>1, <3>3, <3>4, AtomicActions
  <2>3. \A m \in Masters : m \in performing <=> InBank(m)
    BY <2>1, <2>2
  <2>4. \A m \in Masters \ performing :
          \/ Atomic!Issues(m) \/ Atomic!Cancels(m) \/ Atomic!Returns(m)
          \/ Op(m)' = Op(m)
    BY <2>2, <2>3
  <2>5. \A m, n \in performing : m # n => Op(m).addr # Op(n).addr
    BY <2>1, <2>3, OneAtAWord
  <2>6. ASSUME NEW a \in Addrs
        PROVE  mem'[a] = IF stored(a) = {} THEN mem[a] ELSE Op(CHOOSE m \in stored(a) : TRUE).data
    <3>1. \A m \in Masters :
            m \in stored(a) <=> InBank(m) /\ master[m].we /\ master[m].addr = a
      BY <2>1, <2>3
    <3>2. stored(a) \subseteq Masters
      OBVIOUS
    <3>. HIDE DEF stored, performing
    <3>3. CASE stored(a) = {}
      BY <1>2, <3>1, <3>3, CellsStored
    <3>4. CASE stored(a) # {}
      <4>. DEFINE c == CHOOSE m \in stored(a) : TRUE
      <4>1. c \in stored(a)
        BY <3>4
      <4>. HIDE DEF c
      <4>2. mem'[a] = master[c].data /\ Op(c).data = master[c].data
        BY <1>2, <2>1, <3>1, <3>2, <4>1, CellsStored
      <4>. QED  BY <3>4, <4>2 DEF c
    <3>. QED  BY <3>3, <3>4
  <2>7. mem' = [a \in Addrs |-> mem'[a]]
    BY <1>2 DEF Clock, FabricClock
  <2>8. mem' = [a \in Addrs |->
                  IF stored(a) = {} THEN mem[a] ELSE Op(CHOOSE m \in stored(a) : TRUE).data]
    BY <2>6, <2>7
  <2>. HIDE DEF performing
  <2>9. Atomic!AtomicNext
    BY <2>4, <2>5, <2>8 DEF Atomic!AtomicNext, performing
  <2>. QED  BY <2>9
<1>. QED  BY <1>1, <1>2

\* System SRAM with its arbiters and its shared way back is an atomic memory.
THEOREM ImplementsAtomicMemory == Spec => AtomicSpec
<1>1. Init => Atomic!AtomicInit
  BY DEF Init, FabricInit, Atomic!AtomicInit, Atomic!NoOp, Op, IdleMaster
<1>2. IInv /\ [Clock]_vars => [Atomic!AtomicNext]_<<mem, [m \in Masters |-> Op(m)]>>
  BY AtomicStep DEF IInv
<1>. QED  BY <1>1, <1>2, Invariance, PTL DEF Spec, AtomicSpec, Atomic!AtomicSpec

=============================================================================
