--------------------------- MODULE Drivers_proofs ---------------------------
(***************************************************************************)
(* Two sets of drivers, for every size of their FIFOs and rings and every  *)
(* interleaving of calls, handlers and lines.  UartDriver: nothing is lost *)
(* and nothing reordered.  ZephyrDrivers: no update of a register that     *)
(* several read, change and write back is lost, and every SPI transfer     *)
(* ends with the answers to its own bytes.                                 *)
(***************************************************************************)
EXTENDS UartDriver, ZephyrDrivers, SequenceTheorems, WellFoundedInduction, TLAPS
-----------------------------------------------------------------------------
(* Sequences that hand over their first element, and numbered bytes.       *)

IsConcat(s, a, b) ==
  /\ s \in Seq(Nat) /\ a \in Seq(Nat) /\ b \in Seq(Nat)
  /\ Len(a) \in Nat /\ Len(b) \in Nat /\ Len(s) = Len(a) + Len(b)
  /\ \A i \in 1 .. Len(a) : s[i] = a[i]
  /\ \A i \in 1 .. Len(b) : s[Len(a) + i] = b[i]

LEMMA ConcatIs ==
  ASSUME NEW a \in Seq(Nat), NEW b \in Seq(Nat)
  PROVE  IsConcat(a \o b, a, b)
<1>. DEFINE s == a \o b
<1>1. Len(a) \in Nat /\ Len(b) \in Nat
  BY LenProperties
<1>2. /\ s \in Seq(Nat) /\ Len(s) = Len(a) + Len(b)
      /\ \A i \in 1 .. Len(a) + Len(b) : s[i] = IF i <= Len(a) THEN a[i] ELSE b[i - Len(a)]
  BY ConcatProperties
<1>. HIDE DEF s
<1>3. \A i \in 1 .. Len(a) : s[i] = a[i]
  BY <1>1, <1>2
<1>4. ASSUME NEW i \in 1 .. Len(b)
      PROVE  s[Len(a) + i] = b[i]
  <2>1. PICK k \in Int : k = Len(a) + i
    BY <1>1
  <2>2. k \in 1 .. Len(a) + Len(b) /\ ~(k <= Len(a)) /\ k - Len(a) = i
    BY <1>1, <2>1
  <2>. QED  BY <1>2, <2>1, <2>2
<1>. QED  BY <1>1, <1>2, <1>3, <1>4 DEF IsConcat, s

LEMMA SameConcat ==
  ASSUME NEW a, NEW b, NEW c, NEW p, NEW q, NEW l, NEW r,
         IsConcat(p, a, b), IsConcat(q, b, c), IsConcat(l, a, q), IsConcat(r, p, c)
  PROVE  l = r
<1>. DEFINE la == Len(a) lb == Len(b) lc == Len(c)
<1>1. /\ la \in Nat /\ lb \in Nat /\ lc \in Nat
      /\ Len(p) = la + lb /\ Len(q) = lb + lc
      /\ l \in Seq(Nat) /\ r \in Seq(Nat) /\ Len(l) = la + Len(q) /\ Len(r) = Len(p) + lc
  BY DEF IsConcat
<1>2. /\ \A i \in 1 .. la : p[i] = a[i] /\ l[i] = a[i]
      /\ \A i \in 1 .. lb : p[la + i] = b[i] /\ q[i] = b[i]
      /\ \A i \in 1 .. lc : q[lb + i] = c[i] /\ r[Len(p) + i] = c[i]
      /\ \A i \in 1 .. Len(q) : l[la + i] = q[i]
      /\ \A i \in 1 .. Len(p) : r[i] = p[i]
  BY DEF IsConcat
<1>. HIDE DEF la, lb, lc
<1>3. ASSUME NEW i \in 1 .. la
      PROVE  l[i] = r[i]
  <2>. i \in 1 .. Len(p)
    BY <1>1
  <2>. QED  BY <1>2
<1>4. ASSUME NEW i \in 1 .. lb
      PROVE  l[la + i] = r[la + i]
  <2>1. PICK k \in Int : k = la + i
    BY <1>1
  <2>2. k \in 1 .. Len(p) /\ i \in 1 .. Len(q)
    BY <1>1, <2>1
  <2>3. p[k] = b[i] /\ l[k] = q[i] /\ q[i] = b[i] /\ r[k] = p[k]
    BY <1>2, <2>1, <2>2
  <2>. QED  BY <2>1, <2>3
<1>5. ASSUME NEW i \in 1 .. lc
      PROVE  l[Len(p) + i] = r[Len(p) + i]
  <2>1. PICK k \in Int : k = lb + i
    BY <1>1
  <2>2. k \in 1 .. Len(q) /\ la + k = Len(p) + i
    BY <1>1, <2>1
  <2>3. l[la + k] = q[k] /\ q[k] = c[i] /\ r[Len(p) + i] = c[i]
    BY <1>2, <2>1, <2>2
  <2>. QED  BY <2>2, <2>3
<1>6. ASSUME NEW i \in 1 .. Len(l)
      PROVE  l[i] = r[i]
  <2>1. i \in 1 .. la + lb + lc
    BY <1>1
  <2>2. CASE i <= la
    <3>. i \in 1 .. la
      BY <1>1, <2>1, <2>2
    <3>. QED  BY <1>3
  <2>3. CASE i > la /\ i <= la + lb
    <3>. i - la \in 1 .. lb /\ la + (i - la) = i
      BY <1>1, <2>1, <2>3
    <3>. QED  BY <1>4
  <2>4. CASE i > la + lb
    <3>. i - Len(p) \in 1 .. lc /\ Len(p) + (i - Len(p)) = i
      BY <1>1, <2>1, <2>4
    <3>. QED  BY <1>5
  <2>. QED  BY <1>1, <2>1, <2>2, <2>3, <2>4
<1>7. Len(l) = Len(r)
  BY <1>1
<1>. QED  BY <1>1, <1>6, <1>7, SeqEqual

LEMMA Associates ==
  ASSUME NEW a \in Seq(Nat), NEW b \in Seq(Nat), NEW c \in Seq(Nat)
  PROVE  a \o (b \o c) = (a \o b) \o c
<1>. DEFINE p == a \o b
            q == b \o c
            l == a \o q
            r == p \o c
<1>1. IsConcat(p, a, b) /\ IsConcat(q, b, c)
  BY ConcatIs
<1>2. p \in Seq(Nat) /\ q \in Seq(Nat)
  BY <1>1 DEF IsConcat
<1>. HIDE DEF p, q
<1>3. IsConcat(l, a, q) /\ IsConcat(r, p, c)
  BY <1>2, ConcatIs
<1>. HIDE DEF l, r
<1>4. l = r
  BY <1>1, <1>3, SameConcat
<1>. QED  BY <1>4 DEF l, r, p, q

LEMMA ConcatAppend ==
  ASSUME NEW a \in Seq(Nat), NEW b \in Seq(Nat), NEW x \in Nat
  PROVE  a \o Append(b, x) = Append(a \o b, x)
<1>. <<x>> \in Seq(Nat) /\ a \o b \in Seq(Nat)
  BY ConcatProperties, EmptySeq, AppendProperties
<1>. QED  BY AppendIsConcat, Associates

\* A byte that moves from the front of one queue to the end of the queue
\* before it stays where it was in the stream.
LEMMA HandOver ==
  ASSUME NEW a \in Seq(Nat), NEW b \in Seq(Nat), b # <<>>
  PROVE  Append(a, Head(b)) \o Tail(b) = a \o b
<1>. DEFINE h == Head(b)
            r == Tail(b)
<1>1. h \in Nat /\ r \in Seq(Nat) /\ Len(r) = Len(b) - 1 /\ Len(b) \in Nat
  BY HeadTailProperties, LenProperties
<1>2. Append(a, h) \in Seq(Nat) /\ Len(Append(a, h)) = Len(a) + 1 /\ Len(a) \in Nat
  BY <1>1, AppendProperties, LenProperties
<1>3. Append(a, h) \o r \in Seq(Nat) /\ a \o b \in Seq(Nat)
  BY <1>1, <1>2, ConcatProperties
<1>4. Len(Append(a, h) \o r) = Len(a \o b) /\ Len(a \o b) = Len(a) + Len(b)
  BY <1>1, <1>2, ConcatProperties
<1>5. ASSUME NEW i \in 1 .. Len(a) + Len(b)
      PROVE  (Append(a, h) \o r)[i] = (a \o b)[i]
  <2>1. (a \o b)[i] = IF i <= Len(a) THEN a[i] ELSE b[i - Len(a)]
    BY <1>1, <1>2, ConcatProperties
  <2>2. (Append(a, h) \o r)[i] =
          IF i <= Len(a) + 1 THEN Append(a, h)[i] ELSE r[i - (Len(a) + 1)]
    BY <1>1, <1>2, ConcatProperties
  <2>3. CASE i <= Len(a)
    <3>. Append(a, h)[i] = a[i]
      BY <1>1, <1>2, <2>3, AppendProperties
    <3>. QED  BY <1>2, <2>1, <2>2, <2>3
  <2>4. CASE i = Len(a) + 1
    <3>. Append(a, h)[i] = b[1]
      BY <1>1, <2>4, AppendProperties
    <3>. QED  BY <1>2, <2>1, <2>2, <2>4
  <2>5. CASE i > Len(a) + 1
    <3>. r[i - (Len(a) + 1)] = b[i - Len(a)]
      BY <1>1, <1>2, <2>5, HeadTailProperties
    <3>. QED  BY <1>2, <2>1, <2>2, <2>5
  <2>. QED  BY <1>2, <2>3, <2>4, <2>5
<1>. HIDE DEF h, r
<1>. QED  BY <1>3, <1>4, <1>5, SeqEqual DEF h, r

LEMMA UptoIsSeq ==
  ASSUME NEW n \in Nat
  PROVE  /\ Upto(n) \in Seq(Nat) /\ Len(Upto(n)) = n
         /\ \A i \in 1 .. n : Upto(n)[i] = i
BY DEF Upto

\* The next numbers, written behind the numbers so far.
LEMMA UptoGrows ==
  ASSUME NEW n \in Nat, NEW k \in Nat
  PROVE  LET more == [i \in 1 .. k |-> n + i]
         IN more \in Seq(Nat) /\ Len(more) = k /\ Upto(n) \o more = Upto(n + k)
<1>. DEFINE more == [i \in 1 .. k |-> n + i]
<1>1. more \in Seq(Nat) /\ Len(more) = k
  <2>. more \in [1 .. k -> Nat]
    OBVIOUS
  <2>. HIDE DEF more
  <2>1. more \in Seq(Nat)
    BY SeqDef
  <2>. QED  BY <2>1, LenProperties
<1>2. \A i \in 1 .. k : more[i] = n + i
  OBVIOUS
<1>. HIDE DEF more
<1>3. /\ Upto(n) \in Seq(Nat) /\ Len(Upto(n)) = n /\ \A i \in 1 .. n : Upto(n)[i] = i
      /\ Upto(n + k) \in Seq(Nat) /\ Len(Upto(n + k)) = n + k
      /\ \A i \in 1 .. n + k : Upto(n + k)[i] = i
  <2>. n + k \in Nat
    OBVIOUS
  <2>. QED  BY UptoIsSeq
<1>. HIDE DEF Upto
<1>4. Upto(n) \o more \in Seq(Nat) /\ Len(Upto(n) \o more) = n + k
  BY <1>1, <1>3, ConcatProperties
<1>5. ASSUME NEW i \in 1 .. n + k
      PROVE  (Upto(n) \o more)[i] = Upto(n + k)[i]
  <2>1. (Upto(n) \o more)[i] = IF i <= n THEN Upto(n)[i] ELSE more[i - n]
    <3>. i \in 1 .. Len(Upto(n)) + Len(more)
      BY <1>1, <1>3
    <3>1. (Upto(n) \o more)[i] =
            IF i <= Len(Upto(n)) THEN Upto(n)[i] ELSE more[i - Len(Upto(n))]
      BY <1>1, <1>3, ConcatProperties
    <3>. QED  BY <1>3, <3>1
  <2>. QED  BY <1>2, <1>3, <2>1
<1>6. Upto(n) \o more = Upto(n + k)
  BY <1>3, <1>4, <1>5, SeqEqual
<1>. QED  BY <1>1, <1>6 DEF more

LEMMA UptoNext ==
  ASSUME NEW n \in Nat
  PROVE  Append(Upto(n), n + 1) = Upto(n + 1)
<1>1. /\ Append(Upto(n), n + 1) \in Seq(Nat) /\ Len(Append(Upto(n), n + 1)) = n + 1
      /\ \A i \in 1 .. n : Append(Upto(n), n + 1)[i] = i
      /\ Append(Upto(n), n + 1)[n + 1] = n + 1
  BY UptoIsSeq, AppendProperties
<1>2. Upto(n + 1) \in Seq(Nat) /\ Len(Upto(n + 1)) = n + 1
  BY UptoIsSeq
<1>3. \A i \in 1 .. n + 1 : Append(Upto(n), n + 1)[i] = Upto(n + 1)[i]
  BY <1>1, UptoIsSeq
<1>. QED  BY <1>1, <1>2, <1>3, SeqEqual
-----------------------------------------------------------------------------
(* Rising sequences: what is left of one that loses a byte still rises.    *)

Rising(s) == \A i, j \in 1 .. Len(s) : i < j => s[i] < s[j]

LEMMA RisingAppend ==
  ASSUME NEW s \in Seq(Nat), Rising(s), NEW n \in Nat,
         \A i \in 1 .. Len(s) : s[i] < n
  PROVE  Rising(Append(s, n))
<1>1. /\ Len(s) \in Nat /\ Len(Append(s, n)) = Len(s) + 1
      /\ \A i \in 1 .. Len(s) : Append(s, n)[i] = s[i]
      /\ Append(s, n)[Len(s) + 1] = n
  BY AppendProperties, LenProperties
<1>. QED  BY <1>1 DEF Rising

\* What taking out the first byte of the second part leaves.
LEMMA Without ==
  ASSUME NEW a \in Seq(Nat), NEW b \in Seq(Nat), b # <<>>
  PROVE  /\ a \o Tail(b) \in Seq(Nat) /\ Len(a) \in Nat
         /\ Len(a \o Tail(b)) \in Nat /\ Len(a \o b) = Len(a \o Tail(b)) + 1
         /\ \A i \in 1 .. Len(a \o Tail(b)) :
              (a \o Tail(b))[i] = (a \o b)[IF i <= Len(a) THEN i ELSE i + 1]
<1>. DEFINE r == Tail(b)
<1>1. r \in Seq(Nat) /\ Len(r) = Len(b) - 1 /\ Len(a) \in Nat /\ Len(b) \in Nat
  BY HeadTailProperties, LenProperties
<1>2. \A i \in 1 .. Len(r) : r[i] = b[i + 1]
  BY HeadTailProperties
<1>3. Len(a \o b) = Len(a) + Len(b) /\ Len(a \o r) = Len(a) + Len(r)
  BY <1>1, ConcatProperties
<1>4. ASSUME NEW i \in 1 .. Len(a) + Len(r)
      PROVE  (a \o r)[i] = (a \o b)[IF i <= Len(a) THEN i ELSE i + 1]
  <2>1. (a \o r)[i] = IF i <= Len(a) THEN a[i] ELSE r[i - Len(a)]
    BY <1>1, ConcatProperties
  <2>2. \A j \in 1 .. Len(a) + Len(b) :
          (a \o b)[j] = IF j <= Len(a) THEN a[j] ELSE b[j - Len(a)]
    BY ConcatProperties
  <2>3. CASE i <= Len(a)
    BY <1>1, <2>1, <2>2, <2>3
  <2>4. CASE i > Len(a)
    <3>. i - Len(a) \in 1 .. Len(r) /\ i + 1 \in 1 .. Len(a) + Len(b)
      BY <1>1, <2>4
    <3>. r[i - Len(a)] = b[(i - Len(a)) + 1]
      BY <1>2
    <3>. (i - Len(a)) + 1 = (i + 1) - Len(a)
      BY <1>1
    <3>. QED  BY <1>1, <2>1, <2>2, <2>4
  <2>. QED  BY <1>1, <2>3, <2>4
<1>5. a \o r \in Seq(Nat)
  BY <1>1, ConcatProperties
<1>. HIDE DEF r
<1>. QED  BY <1>1, <1>3, <1>4, <1>5 DEF r

LEMMA RisingWithout ==
  ASSUME NEW a \in Seq(Nat), NEW b \in Seq(Nat), b # <<>>, Rising(a \o b)
  PROVE  Rising(a \o Tail(b))
<1>. DEFINE s == a \o Tail(b)
            Old(i) == IF i <= Len(a) THEN i ELSE i + 1
<1>1. Len(a) \in Nat /\ Len(s) \in Nat /\ Len(a \o b) = Len(s) + 1
  BY Without
<1>3. \A i \in 1 .. Len(s) : s[i] = (a \o b)[Old(i)]
  BY Without
<1>. HIDE DEF s
<1>2. ASSUME NEW i \in 1 .. Len(s), NEW j \in 1 .. Len(s), i < j
      PROVE  s[i] < s[j]
  <2>. Old(i) \in 1 .. Len(a \o b) /\ Old(j) \in 1 .. Len(a \o b) /\ Old(i) < Old(j)
    BY <1>1, <1>2
  <2>. s[i] = (a \o b)[Old(i)] /\ s[j] = (a \o b)[Old(j)]
    BY <1>3
  <2>. QED  BY DEF Rising
<1>. QED  BY <1>2 DEF Rising, s

\* Numbers of bytes that have arrived.
Known(s, n) == \A i \in 1 .. Len(s) : s[i] \in 1 .. n

LEMMA KnownAppend ==
  ASSUME NEW n \in Nat, NEW s \in Seq(Nat), Known(s, n)
  PROVE  Known(Append(s, n + 1), n + 1)
<1>1. /\ Len(s) \in Nat /\ Len(Append(s, n + 1)) = Len(s) + 1
      /\ \A i \in 1 .. Len(s) : Append(s, n + 1)[i] = s[i]
      /\ Append(s, n + 1)[Len(s) + 1] = n + 1
  BY AppendProperties, LenProperties
<1>. QED  BY <1>1 DEF Known

LEMMA KnownWithout ==
  ASSUME NEW n \in Nat, NEW a \in Seq(Nat), NEW b \in Seq(Nat), b # <<>>, Known(a \o b, n)
  PROVE  Known(a \o Tail(b), n)
<1>. DEFINE s == a \o Tail(b)
<1>1. /\ Len(a) \in Nat /\ Len(s) \in Nat /\ Len(a \o b) = Len(s) + 1
      /\ \A i \in 1 .. Len(s) : s[i] = (a \o b)[IF i <= Len(a) THEN i ELSE i + 1]
  BY Without
<1>. HIDE DEF s
<1>2. ASSUME NEW i \in 1 .. Len(s)
      PROVE  s[i] \in 1 .. n
  <2>. DEFINE j == IF i <= Len(a) THEN i ELSE i + 1
  <2>. j \in 1 .. Len(a \o b) /\ s[i] = (a \o b)[j]
    BY <1>1
  <2>. QED  BY DEF Known
<1>. Known(s, n)
  BY <1>2 DEF Known
<1>. QED  BY DEF s
-----------------------------------------------------------------------------
(* The inductive invariant.                                                *)

\* Inside these the driver has interrupts off.
Calls == {"direct", "fill", "serve", "control", "leave"}
Polling == {"poll", "busy?"}

\* The transmit side: queues within their depths, and one stream of bytes.
TxState ==
  /\ wire \in Seq(Nat) /\ engine \in Seq(Nat) /\ txFifo \in Seq(Nat) /\ ring \in Seq(Nat)
  /\ accepted \in Nat
  /\ Len(engine) <= 1 /\ Len(txFifo) <= TxDepth /\ Len(ring) <= TxRing
  /\ engine = <<>> => txFifo = <<>>
  /\ TxInOrder

Received == delivered \o rxRing \o rxFifo

\* The receive side: what is there rises, has arrived, and is counted.
RxState ==
  /\ delivered \in Seq(Nat) /\ rxRing \in Seq(Nat) /\ rxFifo \in Seq(Nat)
  /\ arrived \in Nat /\ lost \in Nat /\ rxDropped \in Nat
  /\ Len(rxRing) <= RxRing /\ Len(rxFifo) <= RxDepth
  /\ Rising(Received) /\ Known(Received, arrived)
  /\ Len(Received) + rxDropped + lost = arrived

\* Where the program and the handler are, and what that says of the driver:
\* a call and the boot are not interrupted, a caller that saw the driver idle
\* has offered nothing since except by polling, and polling finds an empty ring.
Turns ==
  /\ product \in Products
  /\ overrun \in BOOLEAN /\ pending \in BOOLEAN /\ inService \in BOOLEAN /\ mie \in BOOLEAN
  /\ txIrqEn \in BOOLEAN /\ rxIrqEn \in BOOLEAN /\ sawIdle \in BOOLEAN
  /\ main \in {"boot", "app"} \cup Calls \cup Polling
  /\ isr \in {"none", "claim", "status", "rx", "tx", "end"}
  /\ irqStatus \subseteq {"rx", "tx", "overrun"}
  /\ left \in Nat /\ (main = "poll" => left > 0)
  /\ isr # "none" \/ main \in Calls \cup {"boot"} => ~mie
  /\ main \in Calls \cup {"boot"} => isr = "none"
  /\ main = "boot" => ring = <<>> /\ rxRing = <<>> /\ rxDropped = 0
  /\ sawIdle => main \in {"app"} \cup Polling
  /\ sawIdle \/ main \in Polling => ring = <<>>
  /\ sawIdle /\ main = "app" => engine = <<>>

IInv == TxState /\ RxState /\ Turns

LEMMA InitIInv == Init => IInv
<1>. SUFFICES ASSUME Init PROVE IInv
  OBVIOUS
<1>1. <<>> \in Seq(Nat) /\ Len(<<>>) = 0 /\ <<>> \o <<>> = <<>>
  BY EmptySeq, ConcatEmptySeq
<1>2. Upto(0) = <<>>
  BY UptoIsSeq, EmptySeq
<1>3. TxState
  BY <1>1, <1>2, UartAssumption DEF Init, TxState, TxInOrder
<1>4. RxState
  BY <1>1, UartAssumption DEF Init, RxState, Received, Rising, Known
<1>5. Turns
  BY DEF Init, Turns, Calls, Polling
<1>. QED  BY <1>3, <1>4, <1>5 DEF IInv
-----------------------------------------------------------------------------
(* The transmit side.                                                      *)

\* A write of TXDATA puts a byte at the end of what the peripheral holds.
LEMMA WriteTxAppends ==
  ASSUME TxState, TxReady, NEW b \in Nat, WriteTx(b)
  PROVE  /\ engine' \in Seq(Nat) /\ txFifo' \in Seq(Nat)
         /\ Len(engine') <= 1 /\ Len(txFifo') <= TxDepth
         /\ engine' # <<>>
         /\ wire \o engine' \o txFifo' = Append(wire \o engine \o txFifo, b)
<1>. /\ wire \in Seq(Nat) /\ engine \in Seq(Nat) /\ txFifo \in Seq(Nat)
     /\ wire \o engine \in Seq(Nat) /\ wire \o engine \o txFifo \in Seq(Nat)
     /\ Len(txFifo) \in Nat /\ TxDepth \in Nat
  BY ConcatProperties, LenProperties, UartAssumption DEF TxState
<1>1. CASE engine = <<>> /\ txFifo = <<>>
  <2>1. engine' = <<b>> /\ txFifo' = <<>>
    BY <1>1 DEF WriteTx
  <2>2. wire \o <<b>> = Append(wire, b) /\ Append(wire, b) \in Seq(Nat)
    BY AppendIsConcat, AppendProperties
  <2>3. wire \o engine \o txFifo = wire /\ wire \o engine' \o txFifo' = Append(wire, b)
    BY <1>1, <2>1, <2>2, ConcatEmptySeq
  <2>. QED  BY <1>1, <2>1, <2>3 DEF TxState
<1>2. CASE engine # <<>> \/ txFifo # <<>>
  <2>1. engine' = engine /\ txFifo' = Append(txFifo, b) /\ engine # <<>>
    BY <1>2 DEF WriteTx, TxState
  <2>2. txFifo' \in Seq(Nat) /\ Len(txFifo') = Len(txFifo) + 1
    BY <2>1, AppendProperties
  <2>3. wire \o engine' \o txFifo' = Append(wire \o engine \o txFifo, b)
    BY <2>1, ConcatAppend
  <2>. QED  BY <2>1, <2>2, <2>3 DEF TxState, TxReady
<1>. QED  BY <1>1, <1>2

LEMMA ServeTxState ==
  ASSUME TxState, ServeTx, UNCHANGED <<wire, accepted>>
  PROVE  TxState'
<1>. DEFINE held == wire \o engine \o txFifo
            held2 == wire \o engine' \o txFifo'
<1>1. /\ wire \in Seq(Nat) /\ engine \in Seq(Nat) /\ txFifo \in Seq(Nat) /\ held \in Seq(Nat)
      /\ ring \in Seq(Nat) /\ ring # <<>> /\ Len(ring) \in Nat /\ TxRing \in Nat
  BY ConcatProperties, LenProperties, UartAssumption DEF TxState, ServeTx
<1>2. Head(ring) \in Nat /\ ring' = Tail(ring) /\ ring' \in Seq(Nat) /\ Len(ring') = Len(ring) - 1
  BY <1>1, HeadTailProperties DEF ServeTx
<1>3. /\ engine' \in Seq(Nat) /\ txFifo' \in Seq(Nat)
      /\ Len(engine') <= 1 /\ Len(txFifo') <= TxDepth
      /\ engine' # <<>> /\ held2 = Append(held, Head(ring))
  BY <1>2, WriteTxAppends DEF ServeTx
<1>4. held2 \o ring' = held \o ring
  BY <1>1, <1>2, <1>3, HandOver
<1>5. TxInOrder'
  BY <1>4 DEF TxState, TxInOrder, Upto
<1>. QED  BY <1>1, <1>2, <1>3, <1>5 DEF TxState

\* The direct path and the polled call: past an empty ring.
LEMMA DirectTxState ==
  ASSUME TxState, ring = <<>>, TxReady, WriteTx(accepted + 1), accepted' = accepted + 1,
         UNCHANGED <<wire, ring>>
  PROVE  TxState'
<1>. DEFINE held == wire \o engine \o txFifo
            held2 == wire \o engine' \o txFifo'
<1>1. wire \in Seq(Nat) /\ engine \in Seq(Nat) /\ txFifo \in Seq(Nat) /\ held \in Seq(Nat)
  BY ConcatProperties DEF TxState
<1>2. accepted \in Nat /\ accepted + 1 \in Nat /\ held \o <<>> = Upto(accepted)
  BY DEF TxState, TxInOrder
<1>3. /\ engine' \in Seq(Nat) /\ txFifo' \in Seq(Nat)
      /\ Len(engine') <= 1 /\ Len(txFifo') <= TxDepth
      /\ engine' # <<>> /\ held2 = Append(held, accepted + 1)
  BY <1>2, WriteTxAppends
<1>4. held2 \o <<>> = Append(held, accepted + 1) /\ held = Upto(accepted)
  BY <1>1, <1>2, <1>3, ConcatEmptySeq, AppendProperties
<1>5. held2 \o <<>> = Upto(accepted + 1)
  BY <1>2, <1>4, UptoNext
<1>6. TxInOrder'
  BY <1>5 DEF TxInOrder, Upto
<1>. QED  BY <1>2, <1>3, <1>6 DEF TxState

LEMMA FillTxState ==
  ASSUME TxState, left \in Nat, FillRing
  PROVE  TxState'
<1>. DEFINE held == wire \o engine \o txFifo
            room == TxRing - Len(ring)
            n == IF left < room THEN left ELSE room
            more == [i \in 1 .. n |-> accepted + i]
<1>1. /\ wire \in Seq(Nat) /\ engine \in Seq(Nat) /\ txFifo \in Seq(Nat) /\ held \in Seq(Nat)
      /\ ring \in Seq(Nat) /\ Len(ring) \in Nat /\ TxRing \in Nat /\ accepted \in Nat
  BY ConcatProperties, LenProperties, UartAssumption DEF TxState
<1>2. n \in Nat /\ Len(ring) + n <= TxRing
  BY <1>1 DEF TxState
<1>3. ring' = ring \o more /\ accepted' = accepted + n /\ UNCHANGED <<wire, engine, txFifo>>
  BY DEF FillRing, hwVars, histVars
<1>. HIDE DEF n
<1>4. more \in Seq(Nat) /\ Len(more) = n /\ Upto(accepted) \o more = Upto(accepted + n)
  BY <1>1, <1>2, UptoGrows
<1>. HIDE DEF more
<1>5. ring' \in Seq(Nat) /\ Len(ring') = Len(ring) + n
  BY <1>1, <1>3, <1>4, ConcatProperties
<1>6. held \o (ring \o more) = (held \o ring) \o more
  <2>1. held \in Seq(Nat) /\ ring \in Seq(Nat) /\ more \in Seq(Nat)
    BY <1>1, <1>4
  <2>2. \A s, t, u \in Seq(Nat) : s \o (t \o u) = (s \o t) \o u
    BY Associates, Zenon
  <2>. HIDE DEF held
  <2>. QED  BY ONLY <2>1, <2>2
<1>7. TxInOrder'
  BY <1>3, <1>4, <1>6 DEF TxState, TxInOrder, Upto
<1>. QED  BY <1>1, <1>2, <1>3, <1>5, <1>7 DEF TxState

LEMMA LineSentTxState ==
  ASSUME TxState, LineSent
  PROVE  TxState'
<1>. DEFINE sent == wire \o engine
<1>1. /\ wire \in Seq(Nat) /\ engine \in Seq(Nat) /\ txFifo \in Seq(Nat) /\ sent \in Seq(Nat)
      /\ Len(txFifo) \in Nat /\ TxDepth \in Nat
  BY ConcatProperties, LenProperties, UartAssumption DEF TxState
<1>2. wire' = sent /\ UNCHANGED <<ring, accepted>>
  BY DEF LineSent
<1>3. CASE txFifo = <<>>
  <2>1. engine' = <<>> /\ txFifo' = <<>>
    BY <1>3 DEF LineSent
  <2>2. sent \o <<>> \o <<>> = sent \o <<>>
    BY <1>1, ConcatEmptySeq
  <2>3. TxInOrder'
    BY <1>2, <1>3, <2>1, <2>2 DEF TxState, TxInOrder, Upto
  <2>. QED  BY <1>1, <1>2, <2>1, <2>3, EmptySeq DEF TxState
<1>4. CASE txFifo # <<>>
  <2>. DEFINE h == Head(txFifo)
  <2>1. engine' = <<h>> /\ txFifo' = Tail(txFifo)
    BY <1>4 DEF LineSent
  <2>2. h \in Nat /\ txFifo' \in Seq(Nat) /\ Len(txFifo') = Len(txFifo) - 1
    BY <1>1, <1>4, <2>1, HeadTailProperties
  <2>3. <<h>> \in Seq(Nat) /\ Len(<<h>>) = 1 /\ <<h>> # <<>> /\ sent \o <<h>> = Append(sent, h)
    BY <1>1, <2>2, AppendIsConcat
  <2>4. sent \o engine' \o txFifo' = sent \o txFifo
    BY <1>1, <1>4, <2>1, <2>3, HandOver
  <2>5. TxInOrder'
    BY <1>2, <2>4 DEF TxState, TxInOrder, Upto
  <2>. QED  BY <1>1, <1>2, <2>1, <2>2, <2>3, <2>5 DEF TxState
<1>. QED  BY <1>3, <1>4
-----------------------------------------------------------------------------
(* The receive side.                                                       *)

LEMMA LineReceivesState ==
  ASSUME RxState, LineReceives
  PROVE  RxState'
<1>. DEFINE read == delivered \o rxRing
<1>1. /\ delivered \in Seq(Nat) /\ rxRing \in Seq(Nat) /\ rxFifo \in Seq(Nat)
      /\ read \in Seq(Nat) /\ Received \in Seq(Nat) /\ Received = read \o rxFifo
      /\ Len(rxFifo) \in Nat /\ RxDepth \in Nat /\ Len(Received) \in Nat
  BY ConcatProperties, LenProperties, UartAssumption DEF RxState, Received
<1>2. arrived' = arrived + 1 /\ UNCHANGED <<delivered, rxRing, rxDropped>> /\ arrived \in Nat
  BY DEF LineReceives, rxVars, RxState
<1>3. CASE Len(rxFifo) < RxDepth
  <2>1. rxFifo' = Append(rxFifo, arrived + 1) /\ lost' = lost
    BY <1>3 DEF LineReceives
  <2>2. rxFifo' \in Seq(Nat) /\ Len(rxFifo') = Len(rxFifo) + 1
    BY <1>1, <1>2, <2>1, AppendProperties
  <2>3. Received' = Append(Received, arrived + 1)
    BY <1>1, <1>2, <2>1, ConcatAppend DEF Received
  <2>4. Len(Received') = Len(Received) + 1
    BY <1>1, <1>2, <2>3, AppendProperties
  <2>5. \A i \in 1 .. Len(Received) : Received[i] < arrived + 1
    BY <1>2 DEF RxState, Known
  <2>6. Rising(Append(Received, arrived + 1)) /\ Known(Append(Received, arrived + 1), arrived + 1)
    <3>1. Received \in Seq(Nat) /\ arrived \in Nat /\ arrived + 1 \in Nat
      BY <1>1, <1>2
    <3>2. Rising(Received) /\ Known(Received, arrived)
      BY DEF RxState
    <3>. HIDE DEF Received
    <3>. QED  BY ONLY <2>5, <3>1, <3>2, RisingAppend, KnownAppend
  <2>7. Rising(Received') /\ Known(Received', arrived')
    BY <1>2, <2>3, <2>6
  <2>8. Len(Received') + rxDropped' + lost' = arrived'
    BY <1>1, <1>2, <2>1, <2>4 DEF RxState
  <2>9. delivered' \in Seq(Nat) /\ rxRing' \in Seq(Nat) /\ Len(rxRing') <= RxRing
    BY <1>1, <1>2 DEF RxState
  <2>10. arrived' \in Nat /\ lost' \in Nat /\ rxDropped' \in Nat /\ Len(rxFifo') <= RxDepth
    BY <1>1, <1>2, <1>3, <2>1, <2>2 DEF RxState
  <2>. QED  BY <2>2, <2>7, <2>8, <2>9, <2>10 DEF RxState
<1>4. CASE ~(Len(rxFifo) < RxDepth)
  <2>1. rxFifo' = rxFifo /\ lost' = lost + 1 /\ Received' = Received
    BY <1>2, <1>4 DEF LineReceives, Received
  <2>2. Known(Received, arrived + 1)
    BY <1>2 DEF RxState, Known
  <2>. QED  BY <1>1, <1>2, <2>1, <2>2 DEF RxState
<1>. QED  BY <1>1, <1>3, <1>4

LEMMA ServeRxState ==
  ASSUME RxState, ServeRx, UNCHANGED <<delivered, arrived, lost>>
  PROVE  RxState'
<1>. DEFINE read == delivered \o rxRing
<1>1. /\ delivered \in Seq(Nat) /\ rxRing \in Seq(Nat) /\ rxFifo \in Seq(Nat) /\ rxFifo # <<>>
      /\ read \in Seq(Nat) /\ Received \in Seq(Nat) /\ Received = read \o rxFifo
      /\ Len(rxRing) \in Nat /\ RxRing \in Nat /\ Len(Received) \in Nat
  BY ConcatProperties, LenProperties, UartAssumption DEF RxState, Received, ServeRx
<1>2. /\ Head(rxFifo) \in Nat /\ rxFifo' = Tail(rxFifo) /\ rxFifo' \in Seq(Nat)
      /\ Len(rxFifo') = Len(rxFifo) - 1 /\ Len(rxFifo) \in Nat /\ RxDepth \in Nat
  BY <1>1, HeadTailProperties, LenProperties, UartAssumption DEF ServeRx
<1>3. CASE Len(rxRing) = RxRing
  <2>1. rxRing' = rxRing /\ rxDropped' = rxDropped + 1 /\ Received' = read \o Tail(rxFifo)
    BY <1>2, <1>3 DEF ServeRx, Received
  <2>2. Len(Received) = Len(Received') + 1 /\ Len(Received') \in Nat
    BY <1>1, <2>1, Without
  <2>3. Rising(Received') /\ Known(Received', arrived)
    BY <1>1, <2>1, RisingWithout, KnownWithout DEF RxState
  <2>. QED  BY <1>1, <1>2, <2>1, <2>2, <2>3 DEF RxState
<1>4. CASE Len(rxRing) # RxRing
  <2>. DEFINE h == Head(rxFifo)
  <2>1. rxRing' = Append(rxRing, Head(rxFifo)) /\ rxDropped' = rxDropped
    BY <1>4 DEF ServeRx
  <2>2. rxRing' \in Seq(Nat) /\ Len(rxRing') = Len(rxRing) + 1
    BY <1>1, <1>2, <2>1, AppendProperties
  <2>3. delivered \o Append(rxRing, h) = Append(read, h)
    <3>1. delivered \in Seq(Nat) /\ rxRing \in Seq(Nat) /\ h \in Nat
      BY <1>1, <1>2
    <3>. HIDE DEF h
    <3>. QED  BY ONLY <3>1, ConcatAppend
  <2>4. Append(read, h) \o Tail(rxFifo) = read \o rxFifo
    BY <1>1, HandOver
  <2>5. Received' = Received
    BY <1>2, <2>1, <2>3, <2>4 DEF Received
  <2>. QED  BY <1>1, <1>2, <1>4, <2>1, <2>2, <2>5 DEF RxState
<1>. QED  BY <1>3, <1>4

LEMMA AsyncGetcState ==
  ASSUME RxState, AsyncGetc
  PROVE  RxState'
<1>1. /\ delivered \in Seq(Nat) /\ rxRing \in Seq(Nat) /\ rxFifo \in Seq(Nat) /\ rxRing # <<>>
      /\ Len(rxRing) \in Nat /\ RxRing \in Nat
  BY LenProperties, UartAssumption DEF RxState, AsyncGetc
<1>2. /\ delivered' = Append(delivered, Head(rxRing)) /\ rxRing' = Tail(rxRing)
      /\ UNCHANGED <<rxFifo, rxDropped, arrived, lost>>
  BY DEF AsyncGetc, hwVars, histVars
<1>3. /\ Head(rxRing) \in Nat /\ rxRing' \in Seq(Nat) /\ Len(rxRing') = Len(rxRing) - 1
      /\ delivered' \in Seq(Nat)
  BY <1>1, <1>2, HeadTailProperties, AppendProperties
<1>4. Received' = Received
  BY <1>1, <1>2, HandOver DEF Received
<1>. QED  BY <1>1, <1>2, <1>3, <1>4 DEF RxState
-----------------------------------------------------------------------------
(* Every step.                                                             *)

\* What a step may do to the stream of bytes that are sent.
TxMove ==
  \/ LineSent
  \/ ServeTx /\ UNCHANGED <<wire, accepted>>
  \/ /\ ring = <<>> /\ TxReady /\ WriteTx(accepted + 1)
     /\ accepted' = accepted + 1 /\ UNCHANGED <<wire, ring>>
  \/ FillRing
  \/ UNCHANGED <<wire, engine, txFifo, ring, accepted>>

LEMMA NextTxMove ==
  ASSUME IInv, Next
  PROVE  TxMove
<1>1. CASE Hardware
  BY <1>1 DEF Hardware, LineReceives, PlicSamples, hwVars, histVars, TxMove
<1>2. CASE WriteDirect \/ FillRing \/ CallServes \/ CallLeaves
  BY <1>2 DEF WriteDirect, CallServes, CallLeaves, ServeTxEnd, hwVars, histVars, TxMove
<1>3. CASE PutsWrites \/ PutsSeesBusy
  <2>. main \in Polling => ring = <<>>
    BY DEF IInv, Turns
  <2>. QED  BY <1>3 DEF PutsWrites, PutsSeesBusy, Polling, hwVars, histVars, TxMove
<1>4. CASE TakeIrq
  BY <1>4 DEF TakeIrq, hwVars, histVars, TxMove
<1>5. CASE Handler
  BY <1>5 DEF Handler, IrqClaim, IrqReadsStatus, IrqServesRx, IrqServesTx, IrqCompletes,
              ServeTxEnd, hwVars, histVars, TxMove
<1>6. CASE AsyncInit
  BY <1>6 DEF AsyncInit, IInv, Turns, histVars, TxMove
<1>7. CASE CallWrite \/ CallPutc \/ AsyncGetc \/ AsyncTxIdle \/ CallPuts
  BY <1>7 DEF CallWrite, CallPutc, BeginWrite, AsyncGetc, AsyncTxIdle, CallPuts,
              hwVars, histVars, TxMove
<1>. QED  BY <1>1, <1>2, <1>3, <1>4, <1>5, <1>6, <1>7 DEF Next, Call, Application

\* What a step may do to the bytes that are received.
RxMove ==
  \/ LineReceives
  \/ ServeRx /\ UNCHANGED <<delivered, arrived, lost>>
  \/ AsyncGetc
  \/ UNCHANGED <<delivered, rxRing, rxFifo, rxDropped, arrived, lost>>

LEMMA NextRxMove ==
  ASSUME IInv, Next
  PROVE  RxMove
<1>1. CASE Hardware
  BY <1>1 DEF Hardware, LineSent, PlicSamples, rxVars, hwVars, histVars, RxMove
<1>2. CASE Call
  BY <1>2 DEF Call, WriteDirect, FillRing, CallServes, CallLeaves, PutsWrites, PutsSeesBusy,
              rxVars, hwVars, histVars, RxMove
<1>3. CASE TakeIrq
  BY <1>3 DEF TakeIrq, rxVars, hwVars, histVars, RxMove
<1>4. CASE Handler
  BY <1>4 DEF Handler, IrqClaim, IrqReadsStatus, IrqServesRx, IrqServesTx, IrqCompletes,
              rxVars, hwVars, histVars, RxMove
<1>5. CASE AsyncInit
  BY <1>5 DEF AsyncInit, IInv, Turns, histVars, RxMove
<1>6. CASE CallWrite \/ CallPutc \/ AsyncGetc \/ AsyncTxIdle \/ CallPuts
  BY <1>6 DEF CallWrite, CallPutc, BeginWrite, AsyncTxIdle, CallPuts,
              rxVars, hwVars, histVars, RxMove
<1>. QED  BY <1>1, <1>2, <1>3, <1>4, <1>5, <1>6 DEF Next, Application

LEMMA NextTxState ==
  ASSUME IInv, Next
  PROVE  TxState'
<1>. TxState /\ TxMove /\ left \in Nat
  BY NextTxMove DEF IInv, Turns
<1>1. CASE UNCHANGED <<wire, engine, txFifo, ring, accepted>>
  BY <1>1 DEF TxState, TxInOrder, Upto
<1>. QED  BY <1>1, LineSentTxState, ServeTxState, DirectTxState, FillTxState DEF TxMove

LEMMA NextRxState ==
  ASSUME IInv, Next
  PROVE  RxState'
<1>. RxState /\ RxMove
  BY NextRxMove DEF IInv
<1>1. CASE UNCHANGED <<delivered, rxRing, rxFifo, rxDropped, arrived, lost>>
  BY <1>1 DEF RxState, Received, Rising, Known
<1>. QED  BY <1>1, LineReceivesState, ServeRxState, AsyncGetcState DEF RxMove

LEMMA HardwareTurns ==
  ASSUME IInv, Hardware \/ TakeIrq
  PROVE  Turns'
<1>. Turns
  BY DEF IInv
<1>1. CASE LineSent
  BY <1>1 DEF LineSent, rxVars, Turns, Calls, Polling
<1>2. CASE LineReceives
  <2>. overrun' \in BOOLEAN
    BY <1>2 DEF LineReceives, Turns
  <2>. QED  BY <1>2 DEF LineReceives, rxVars, Turns, Calls, Polling
<1>3. CASE PlicSamples
  BY <1>3 DEF PlicSamples, rxVars, hwVars, histVars, Turns, Calls, Polling
<1>4. CASE TakeIrq
  BY <1>4 DEF TakeIrq, rxVars, hwVars, histVars, Turns, Calls, Polling
<1>. QED  BY <1>1, <1>2, <1>3, <1>4 DEF Hardware

LEMMA CallTurns ==
  ASSUME IInv, Call
  PROVE  Turns'
<1>. Turns /\ accepted \in Nat
  BY DEF IInv, TxState
<1>1. CASE WriteDirect
  BY <1>1 DEF WriteDirect, WriteTx, rxVars, histVars, Turns, Calls, Polling
<1>2. CASE FillRing
  BY <1>2 DEF FillRing, rxVars, hwVars, histVars, Turns, Calls, Polling
<1>3. CASE CallServes
  BY <1>3 DEF CallServes, ServeTx, ServeTxEnd, rxVars, histVars, Turns, Calls, Polling
<1>4. CASE CallLeaves
  BY <1>4 DEF CallLeaves, rxVars, hwVars, histVars, Turns, Calls, Polling
<1>5. CASE PutsWrites
  BY <1>5 DEF PutsWrites, rxVars, histVars, Turns, Calls, Polling
<1>6. CASE PutsSeesBusy
  BY <1>6 DEF PutsSeesBusy, rxVars, hwVars, histVars, Turns, Calls, Polling
<1>. QED  BY <1>1, <1>2, <1>3, <1>4, <1>5, <1>6 DEF Call

LEMMA HandlerTurns ==
  ASSUME IInv, Handler
  PROVE  Turns'
<1>. Turns
  BY DEF IInv
<1>1. CASE IrqClaim
  BY <1>1 DEF IrqClaim, rxVars, hwVars, histVars, Turns, Calls, Polling
<1>2. CASE IrqServesRx
  BY <1>2 DEF IrqServesRx, ServeRx, histVars, Turns, Calls, Polling
<1>3. CASE IrqServesTx
  BY <1>3 DEF IrqServesTx, ServeTx, ServeTxEnd, rxVars, histVars, Turns, Calls, Polling
<1>4. CASE IrqCompletes
  BY <1>4 DEF IrqCompletes, rxVars, histVars, Turns, Calls, Polling
<1>5. CASE IrqReadsStatus
  <2>. irqStatus' \subseteq {"rx", "tx", "overrun"}
    BY <1>5 DEF IrqReadsStatus, Conditions
  <2>. QED  BY <1>5 DEF IrqReadsStatus, rxVars, hwVars, histVars, Turns, Calls, Polling
<1>. QED  BY <1>1, <1>2, <1>3, <1>4, <1>5 DEF Handler

LEMMA ApplicationTurns ==
  ASSUME IInv, Application
  PROVE  Turns'
<1>. Turns /\ WriteLengths \subseteq Nat \ {0}
  BY UartAssumption DEF IInv
<1>1. CASE AsyncInit
  BY <1>1 DEF AsyncInit, histVars, Turns, Calls, Polling
<1>2. ASSUME NEW n \in Nat, BeginWrite(n)
      PROVE  Turns'
  BY <1>2 DEF BeginWrite, AppRuns, rxVars, hwVars, histVars, Turns, Calls, Polling
<1>3. CASE CallWrite \/ CallPutc
  BY <1>2, <1>3 DEF CallWrite, CallPutc
<1>4. CASE AsyncGetc
  BY <1>4 DEF AsyncGetc, AppRuns, hwVars, histVars, Turns, Calls, Polling
<1>5. CASE AsyncTxIdle
  BY <1>5 DEF AsyncTxIdle, AppRuns, TxBusy, rxVars, hwVars, histVars, Turns, Calls, Polling
<1>6. CASE CallPuts
  BY <1>6 DEF CallPuts, AppRuns, rxVars, hwVars, histVars, Turns, Calls, Polling
<1>. QED  BY <1>1, <1>3, <1>4, <1>5, <1>6 DEF Application

LEMMA NextIInv == IInv /\ [Next]_vars => IInv'
<1>. SUFFICES ASSUME IInv, [Next]_vars PROVE IInv'
  OBVIOUS
<1>1. CASE Next
  BY <1>1, NextTxState, NextRxState, HardwareTurns, CallTurns, HandlerTurns, ApplicationTurns
     DEF Next, IInv
<1>2. CASE UNCHANGED vars
  <2>1. TxState'
    BY <1>2 DEF vars, IInv, TxState, TxInOrder, Upto
  <2>2. RxState'
    BY <1>2 DEF vars, rxVars, hwVars, histVars, IInv, RxState, Received, Rising, Known
  <2>3. Turns'
    BY <1>2 DEF vars, IInv, Turns
  <2>. QED  BY <2>1, <2>2, <2>3 DEF IInv
<1>. QED  BY <1>1, <1>2
-----------------------------------------------------------------------------
(* What the driver guarantees.                                             *)

\* The rings and the FIFOs stay within their sizes, and a handler runs with
\* interrupts off.
THEOREM TypeCorrect == Spec => []TypeOK
<1>1. IInv => TypeOK
  <2>. SUFFICES ASSUME IInv PROVE TypeOK
    OBVIOUS
  <2>1. Len(ring) \in 0 .. TxRing /\ Len(txFifo) \in 0 .. TxDepth
    BY LenProperties, UartAssumption DEF IInv, TxState
  <2>3. Len(engine) \in 0 .. 1
    <3>1. Len(engine) \in Nat /\ Len(engine) <= 1
      BY LenProperties DEF IInv, TxState
    <3>2. \A n \in Nat : n <= 1 => n \in 0 .. 1
      OBVIOUS
    <3>. QED  BY <3>1, <3>2
  <2>2. Len(rxRing) \in 0 .. RxRing /\ Len(rxFifo) \in 0 .. RxDepth
    BY LenProperties, UartAssumption DEF IInv, RxState
  <2>. QED  BY <2>1, <2>2, <2>3 DEF IInv, TxState, Turns, TypeOK, Calls, Polling
<1>. QED  BY <1>1, InitIInv, NextIInv, PTL DEF Spec

\* Bytes leave in the order in which they were accepted, none twice and none
\* lost; and who was told that nothing is pending has all of them on the line.
THEOREM TransmitsInOrder == Spec => []TxSound
<1>1. IInv => TxSound
  <2>. SUFFICES ASSUME IInv PROVE TxSound
    OBVIOUS
  <2>1. TxInOrder
    BY DEF IInv, TxState
  <2>2. ASSUME sawIdle, main = "app"
        PROVE  Len(wire) = accepted
    <3>1. ring = <<>> /\ engine = <<>> /\ txFifo = <<>> /\ wire \in Seq(Nat) /\ accepted \in Nat
      BY <2>2 DEF IInv, Turns, TxState
    <3>2. wire \o engine \o txFifo \o ring = wire
      BY <3>1, ConcatEmptySeq
    <3>. QED  BY <2>1, <3>1, <3>2, UptoIsSeq DEF TxInOrder
  <2>. QED  BY <2>1, <2>2 DEF TxSound, IdleMeansSent
<1>. QED  BY <1>1, InitIInv, NextIInv, PTL DEF Spec

\* Every byte that arrived is with the program or on its way to it in order,
\* or counted as dropped or lost.
THEOREM ReceivesAll == Spec => []RxAccounted
<1>1. IInv => RxAccounted
  <2>. SUFFICES ASSUME IInv PROVE RxAccounted
    OBVIOUS
  <2>1. Received \in Seq(Nat) /\ Len(Received) \in Nat
    BY ConcatProperties, LenProperties DEF IInv, RxState, Received
  <2>2. ASSUME NEW i \in 1 .. Len(Received) - 1
        PROVE  Received[i] < Received[i + 1]
    <3>. i \in 1 .. Len(Received) /\ i + 1 \in 1 .. Len(Received) /\ i < i + 1
      BY <2>1
    <3>. QED  BY DEF IInv, RxState, Rising
  <2>. QED  BY <2>2 DEF IInv, RxState, RxAccounted, Received
<1>. QED  BY <1>1, InitIInv, NextIInv, PTL DEF Spec
-----------------------------------------------------------------------------
(* The drivers of Zephyr.  The invariant: who is between the read and the  *)
(* write of a register holds the lock, or is alone with the device, and    *)
(* what it has read is still what the register holds, or more.             *)

GpioType == [out : SUBSET AllPins, dir : SUBSET AllPins, want : SUBSET AllPins,
             drive : SUBSET AllPins]
UartType == [ctrl : SUBSET UartIrqs, cb : BOOLEAN, fifo : 0 .. Depth, engine : BOOLEAN,
             rxn : 0 .. Depth, over : BOOLEAN, promised : SUBSET UartIrqs]
SpiType(s) ==
  [active : BOOLEAN, x : {s.x}, rx : {s.rx}, index : Nat, to : Slaves \cup {Open},
   then : {s.then}, irqEn : BOOLEAN, ss : Slaves \cup {Open}, busy : BOOLEAN,
   done : BOOLEAN, out : {s.out}, data : {s.data}, last : {s.last}]

SpiShape ==
  /\ at \in [Apps -> {"idle", "setup", "send", "poll", "write", "level", "direction",
                      "update", "busy"}]
  /\ call \in [Apps -> {call[a] : a \in Apps}]
  /\ got \in [Apps -> {got[a] : a \in Apps}]
  /\ spi0 \in SpiType(spi0)
  /\ \A a \in Apps : at[a] = "setup" => call[a].slave \in Slaves

DrvShape ==
  /\ device \in Devices /\ locked \in Apps \cup {"none"} /\ latched \in BOOLEAN
  /\ SpiShape /\ gpio0 \in GpioType /\ uart0 \in UartType

\* Who holds the lock has read the port and writes it next.
PortLocked ==
  /\ \A a \in Apps : at[a] = "write" => /\ locked = a /\ call[a] \in Changes
                                        /\ got[a] = gpio0.out
  /\ locked # "none" => locked \in Apps /\ at[locked] = "write"

\* Who configures a pin is alone with the port.
ConfiguresAlone ==
  \A a \in Apps : at[a] \in {"level", "direction"} =>
    /\ Alone(a) /\ call[a].kind = "configure" /\ call[a].pin \in PortPins
    /\ at[a] = "level" => got[a] = gpio0.out
    /\ at[a] = "direction" => got[a] = gpio0.dir

\* Who updates the control register is alone with the UART, and has read at
\* least the interrupts that are to stay enabled.
UpdatesAlone ==
  \A a \in Apps : at[a] = "update" =>
    /\ Alone(a) /\ uart0.promised \subseteq got[a]
    /\ got[a] \subseteq UartIrqs /\ call[a].set \subseteq UartIrqs

\* Where the applications are goes with the device in use.
PlacesOf == [none |-> {"idle"}, spi |-> {"idle", "setup", "send", "poll"},
             gpio |-> {"idle", "write", "level", "direction"},
             uart |-> {"idle", "update", "busy"}]
AtTheirDevice == \A a \in Apps : at[a] \in PlacesOf[device]

DrvInv == /\ DrvShape /\ PortLocked /\ ConfiguresAlone /\ UpdatesAlone
          /\ AtTheirDevice /\ UpdatesKept
-----------------------------------------------------------------------------
(* SPI.                                                                    *)

LEMMA TransmitsType ==
  ASSUME NEW s, s \in SpiType(s), NEW byte
  PROVE  Transmits(s, byte) \in SpiType(Transmits(s, byte)) /\ Transmits(s, byte).to = s.to
<1>1. CASE s.busy
  BY <1>1 DEF Transmits
<1>2. CASE ~s.busy
  <2>. DEFINE r == [s EXCEPT !.busy = TRUE, !.done = FALSE, !.out = byte]
  <2>1. Transmits(s, byte) = r
    BY <1>2 DEF Transmits
  <2>2. r \in SpiType(r) /\ r.to = s.to
    BY DEF SpiType
  <2>. QED  BY <2>1, <2>2
<1>. QED  BY <1>1, <1>2

LEMMA PreparedType ==
  ASSUME NEW s, s \in SpiType(s), NEW x, NEW slave \in Slaves
  PROVE  Prepared(s, x, slave) \in SpiType(Prepared(s, x, slave))
<1>. DEFINE b == Buffers(x.rx)
            r == [s EXCEPT !.x = x, !.rx = b, !.index = 0, !.to = slave]
<1>1. Prepared(s, x, slave) = r
  BY DEF Prepared
<1>. HIDE DEF b
<1>2. r \in SpiType(r)
  BY DEF SpiType
<1>. QED  BY <1>1, <1>2

LEMMA StartAsyncType ==
  ASSUME NEW s, s \in SpiType(s), NEW x, NEW slave \in Slaves \cup {Open}, NEW then
  PROVE  StartAsync(s, x, slave, then) \in SpiType(StartAsync(s, x, slave, then))
<1>. DEFINE p == Prepared(s, x, slave)
            r == [p EXCEPT !.active = TRUE, !.then = then, !.irqEn = TRUE, !.ss = slave]
<1>1. p \in SpiType(p)
  <2>. DEFINE b == Buffers(x.rx)
              q == [s EXCEPT !.x = x, !.rx = b, !.index = 0, !.to = slave]
  <2>1. Prepared(s, x, slave) = q
    BY DEF Prepared
  <2>. HIDE DEF b
  <2>2. q \in SpiType(q)
    BY DEF SpiType
  <2>. QED  BY <2>1, <2>2
<1>. HIDE DEF p
<1>2. r \in SpiType(r)
  BY <1>1 DEF SpiType
<1>. HIDE DEF r
<1>3. Transmits(r, TxByte(x.tx, 0)) \in SpiType(Transmits(r, TxByte(x.tx, 0)))
  BY <1>2, TransmitsType
<1>. QED  BY <1>3 DEF StartAsync, r, p

LEMMA OverType ==
  ASSUME NEW s, s \in SpiType(s)
  PROVE  Over(s) \in SpiType(Over(s)) /\ Over(s).to = s.to
<1>. DEFINE l == [x |-> s.x, to |-> s.to, rx |-> s.rx]
            r == [s EXCEPT !.ss = Open, !.last = l]
<1>1. Over(s) = r
  BY DEF Over
<1>. HIDE DEF l
<1>2. r \in SpiType(r) /\ r.to = s.to
  BY DEF SpiType
<1>. QED  BY <1>1, <1>2

LEMMA CompletedType ==
  ASSUME NEW s, s \in SpiType(s)
  PROVE  Completed(s) \in SpiType(Completed(s))
<1>. DEFINE idle == [Over(s) EXCEPT !.active = FALSE, !.then = NoCall]
<1>1. idle \in SpiType(idle)
  <2>. DEFINE o == Over(s)
  <2>1. o \in SpiType(o)
    BY OverType
  <2>. HIDE DEF o
  <2>2. [o EXCEPT !.active = FALSE, !.then = NoCall]
          \in SpiType([o EXCEPT !.active = FALSE, !.then = NoCall])
    BY <2>1 DEF SpiType
  <2>. QED  BY <2>2 DEF o
<1>2. s.to \in Slaves \cup {Open}
  BY DEF SpiType
<1>. HIDE DEF idle
<1>3. StartAsync(idle, s.then, s.to, NoCall) \in SpiType(StartAsync(idle, s.then, s.to, NoCall))
  BY <1>1, <1>2, StartAsyncType
<1>4. Completed(s) = IF s.then = NoCall THEN idle ELSE StartAsync(idle, s.then, s.to, NoCall)
  BY DEF Completed, idle
<1>. QED  BY <1>1, <1>3, <1>4

LEMMA ServesType ==
  ASSUME spi0 \in SpiType(spi0)
  PROVE  SpiServes \in SpiType(SpiServes)
<1>. DEFINE rx == RxByte(spi0.rx, spi0.index, spi0.data)
            i == spi0.index + 1
            s == [spi0 EXCEPT !.done = FALSE, !.index = i, !.rx = rx]
            t == Transmits(s, TxByte(s.x.tx, s.index))
<1>0. i \in Nat
  BY DEF SpiType
<1>. HIDE DEF rx, i
<1>1. s \in SpiType(s)
  BY <1>0 DEF SpiType
<1>. HIDE DEF s
<1>2. Completed(s) \in SpiType(Completed(s)) /\ t \in SpiType(t)
  BY <1>1, CompletedType, TransmitsType
<1>3. SpiServes = IF ~spi0.active \/ ~spi0.done THEN spi0
                  ELSE IF s.index = TransferLen(s.x) THEN Completed(s) ELSE t
  BY DEF SpiServes, s, rx, i
<1>. HIDE DEF t
<1>. QED  BY <1>2, <1>3

\* What a step of another device leaves alone.
LEMMA KeepsUpdates ==
  ASSUME DrvInv, DrvShape', AtTheirDevice', device \notin {"gpio", "uart"},
         gpio0' = gpio0, uart0' = uart0, device' = device, locked' = locked
  PROVE  DrvInv'
<1>1. \A a \in Apps : at'[a] \in {"idle", "setup", "send", "poll"}
  <2>1. device' \in {"none", "spi"}
    BY DriversAssumption DEF DrvInv, DrvShape, SpiShape
  <2>. QED  BY <2>1 DEF AtTheirDevice, PlacesOf
<1>2. locked = "none"
  <2>1. device \in {"none", "spi"}
    BY DriversAssumption DEF DrvInv, DrvShape, SpiShape
  <2>. QED  BY <2>1 DEF DrvInv, PortLocked, AtTheirDevice, PlacesOf
<1>3. PortLocked' /\ ConfiguresAlone' /\ UpdatesAlone'
  BY <1>1, <1>2 DEF PortLocked, ConfiguresAlone, UpdatesAlone
<1>4. UpdatesKept'
  BY DEF DrvInv, UpdatesKept, PinsAsSet, EnablesKept
<1>. QED  BY <1>3, <1>4 DEF DrvInv

LEMMA AsyncStep ==
  ASSUME SpiShape, NEW a \in Apps, Async(a)
  PROVE  SpiShape'
<1>1. PICK x \in Accepted, slave \in Slaves, then \in Accepted \cup {NoCall} :
        spi0' = StartAsync(spi0, x, slave, then)
  BY DEF Async
<1>2. (spi0 \in SpiType(spi0))'
  BY <1>1, StartAsyncType DEF SpiShape
<1>. QED  BY <1>2 DEF SpiShape, Async

LEMMA SyncStep ==
  ASSUME SpiShape, NEW a \in Apps, Sync(a)
  PROVE  SpiShape'
<1>1. SpiShape
  OBVIOUS
<1>2. CASE SyncBegins(a)
  <2>1. PICK x \in Accepted, slave \in Slaves :
          Begins(a, "setup", [kind |-> "sync", x |-> x, slave |-> slave])
    BY <1>2 DEF SyncBegins
  <2>. QED  BY <1>1, <1>2, <2>1 DEF SpiShape, SyncBegins, Begins, Enters
<1>3. CASE SyncSetup(a)
  <2>1. call[a].slave \in Slaves
    BY <1>1, <1>3 DEF SpiShape, SyncSetup, In
  <2>. DEFINE p == Prepared(spi0, call[a].x, call[a].slave)
  <2>2. p \in SpiType(p)
    BY <1>1, <2>1, PreparedType DEF SpiShape
  <2>. HIDE DEF p
  <2>. DEFINE q == [p EXCEPT !.irqEn = FALSE, !.ss = call[a].slave]
  <2>3. q \in SpiType(q)
    BY <2>1, <2>2 DEF SpiType
  <2>4. spi0' = q
    BY <1>3 DEF SyncSetup, p
  <2>. HIDE DEF q
  <2>5. (spi0 \in SpiType(spi0))'
    BY <2>3, <2>4
  <2>6. at' = [at EXCEPT ![a] = "send"] /\ UNCHANGED <<call, got, latched>>
    BY <1>3 DEF SyncSetup, Enters
  <2>. QED  BY <1>1, <2>5, <2>6 DEF SpiShape
<1>4. CASE SyncSends(a)
  <2>1. (spi0 \in SpiType(spi0))'
    BY <1>1, <1>4, TransmitsType DEF SpiShape, SyncSends
  <2>. QED  BY <1>1, <1>4, <2>1 DEF SpiShape, SyncSends, Enters
<1>5. CASE SyncReceives(a)
  <2>. DEFINE rx == RxByte(spi0.rx, spi0.index, spi0.data)
              i == spi0.index + 1
              s == [spi0 EXCEPT !.rx = rx, !.index = i]
  <2>0. i \in Nat
    <3>1. spi0 \in SpiType(spi0)
      BY <1>1 DEF SpiShape
    <3>. QED  BY <3>1 DEF SpiType
  <2>. HIDE DEF rx, i
  <2>1. s \in SpiType(s)
    BY <1>1, <2>0 DEF SpiShape, SpiType
  <2>2. Over(s) \in SpiType(Over(s))
    BY <2>1, OverType
  <2>. HIDE DEF s
  <2>3. \/ Ends(a) /\ spi0' = Over(s)
        \/ Enters(a, "send") /\ spi0' = s /\ UNCHANGED <<call, got>>
    BY <1>5 DEF SyncReceives, s, rx, i
  <2>4. latched' = latched
    BY <1>5 DEF SyncReceives
  <2>. QED  BY <1>1, <2>1, <2>2, <2>3, <2>4 DEF SpiShape, Ends, Enters
<1>. QED  BY <1>2, <1>3, <1>4, <1>5 DEF Sync

LEMMA SpiStep ==
  ASSUME DrvInv, SpiNext
  PROVE  DrvInv'
<1>1. DrvShape /\ AtTheirDevice /\ device = "spi"
  BY DEF DrvInv, SpiNext
<1>2. device' = device /\ locked' = locked /\ gpio0' = gpio0 /\ uart0' = uart0
  BY DEF SpiNext
<1>3. ASSUME NEW a \in Callers, Async(a)
      PROVE  DrvShape' /\ AtTheirDevice'
  <2>1. a \in Apps
    BY DEF Apps
  <2>2. SpiShape' /\ latched' \in BOOLEAN
    <3>1. latched \in BOOLEAN /\ spi0 \in SpiType(spi0)
      BY <1>1 DEF DrvShape, SpiShape
    <3>2. latched' \in {latched, latched \/ spi0.done} /\ spi0.done \in BOOLEAN
      BY <1>3, <3>1 DEF Async, SpiType
    <3>. QED  BY <1>1, <1>3, <2>1, <3>1, <3>2, AsyncStep DEF DrvShape
  <2>. QED  BY <1>1, <1>2, <1>3, <2>2 DEF Async, DrvShape, SpiShape, AtTheirDevice
<1>4. ASSUME NEW a \in Callers, Sync(a)
      PROVE  DrvShape' /\ AtTheirDevice'
  <2>1. a \in Apps
    BY DEF Apps
  <2>2. DrvShape'
    <3>1. SpiShape' /\ latched' = latched
      BY <1>1, <1>4, <2>1, SyncStep
      DEF DrvShape, Sync, SyncBegins, SyncSetup, SyncSends, SyncReceives
    <3>. QED  BY <1>1, <1>2, <3>1 DEF DrvShape
  <2>3. PICK p \in {"idle", "setup", "send", "poll"} : at' = [at EXCEPT ![a] = p]
    BY <1>4 DEF Sync, SyncBegins, SyncSetup, SyncSends, SyncReceives, Begins, Enters, Ends
  <2>. QED  BY <1>1, <1>2, <2>1, <2>2, <2>3 DEF AtTheirDevice, PlacesOf, DrvShape, SpiShape
<1>5. ASSUME SpiInterrupt
      PROVE  DrvShape' /\ AtTheirDevice'
  BY <1>1, <1>2, <1>5, ServesType DEF SpiInterrupt, DrvShape, SpiShape, AtTheirDevice
<1>6. ASSUME Exchanges
      PROVE  DrvShape' /\ AtTheirDevice'
  <2>. DEFINE d == <<spi0.ss, spi0.out>>
              s == [spi0 EXCEPT !.busy = FALSE, !.done = TRUE, !.data = d]
  <2>. HIDE DEF d
  <2>1. s \in SpiType(s)
    BY <1>1 DEF DrvShape, SpiShape, SpiType
  <2>2. spi0' = s
    BY <1>6 DEF Exchanges, d
  <2>. HIDE DEF s
  <2>. QED  BY <1>1, <1>2, <1>6, <2>1, <2>2 DEF Exchanges, DrvShape, SpiShape, AtTheirDevice
<1>7. ASSUME latched' = TRUE, UNCHANGED <<at, call, got, spi0>>
      PROVE  DrvShape' /\ AtTheirDevice'
  BY <1>1, <1>2, <1>7 DEF DrvShape, SpiShape, AtTheirDevice
<1>8. DrvShape' /\ AtTheirDevice'
  BY <1>3, <1>4, <1>5, <1>6, <1>7 DEF SpiNext
<1>. QED  BY <1>1, <1>2, <1>8, KeepsUpdates
-----------------------------------------------------------------------------
(* GPIO.                                                                   *)

LEMMA GpioOut ==
  ASSUME gpio0 \in GpioType, NEW o \in SUBSET AllPins, NEW w \in SUBSET AllPins
  PROVE  LET g == [gpio0 EXCEPT !.out = o, !.want = w]
         IN /\ g \in GpioType /\ g.out = o /\ g.want = w /\ g.dir = gpio0.dir
            /\ g.drive = gpio0.drive
BY DEF GpioType

LEMMA ChangedPins ==
  ASSUME NEW c \in Changes, NEW out \in SUBSET PortPins
  PROVE  Changed(out, c) \subseteq PortPins
BY DEF Changes, Changed

\* What a step of the GPIO driver keeps, but for where one application is.
LEMMA GpioKept ==
  ASSUME DrvInv, GpioNext
  PROVE  /\ device = "gpio" /\ device' = device /\ latched' = latched /\ spi0' = spi0
         /\ uart0' = uart0 /\ EnablesKept'
         /\ \A a \in Apps : at[a] \in {"idle", "write", "level", "direction"}
BY DEF GpioNext, DrvInv, UpdatesKept, EnablesKept, AtTheirDevice, PlacesOf

LEMMA ReadsStep ==
  ASSUME DrvInv, ~ConfigureAnytime, GpioNext, NEW a \in Apps, PortReads(a),
         Configuring => ConfigureAnytime
  PROVE  DrvInv'
<1>1. /\ DrvShape /\ PortLocked /\ ConfiguresAlone /\ UpdatesAlone /\ AtTheirDevice
      /\ PinsAsSet
  BY DEF DrvInv, UpdatesKept
<1>2. PICK c \in Changes : Begins(a, "write", c)
  BY DEF PortReads
<1>3. /\ at' = [at EXCEPT ![a] = "write"] /\ call' = [call EXCEPT ![a] = c]
      /\ got' = [got EXCEPT ![a] = gpio0.out] /\ locked' = a /\ gpio0' = gpio0
  BY <1>2 DEF PortReads, Begins, Enters, Reads
<1>4. /\ device = "gpio" /\ device' = device /\ latched' = latched /\ spi0' = spi0
      /\ uart0' = uart0 /\ EnablesKept'
  BY GpioKept
<1>5. \A b \in Apps : at[b] \notin {"level", "direction"}
  BY <1>1 DEF ConfiguresAlone, Configuring
<1>6. locked = "none"
  BY <1>1 DEF PortReads, Idle, Active, PortLocked
<1>7. \A b \in Apps : at[b] \in {"idle", "write", "level", "direction"}
  BY GpioKept
<1>8. \A b \in Apps : at[b] = "idle"
  <2>1. a # "none" /\ \A b \in Apps : b # "none"
    BY DriversAssumption DEF Apps
  <2>. QED  BY <1>1, <1>5, <1>6, <1>7, <2>1 DEF PortLocked
<1>9. DrvShape'
  BY <1>1, <1>3, <1>4, <1>8 DEF DrvShape, SpiShape
<1>10. PortLocked'
  BY <1>1, <1>3, <1>8 DEF PortLocked, DrvShape, SpiShape
<1>11. ConfiguresAlone' /\ UpdatesAlone' /\ AtTheirDevice'
  BY <1>1, <1>3, <1>4, <1>8 DEF ConfiguresAlone, UpdatesAlone, AtTheirDevice, PlacesOf, DrvShape, SpiShape
<1>12. PinsAsSet'
  BY <1>1, <1>3 DEF PinsAsSet
<1>. QED  BY <1>4, <1>9, <1>10, <1>11, <1>12 DEF DrvInv, UpdatesKept

LEMMA WritesStep ==
  ASSUME DrvInv, GpioNext, NEW a \in Apps, PortWrites(a)
  PROVE  DrvInv'
<1>1. /\ DrvShape /\ PortLocked /\ ConfiguresAlone /\ UpdatesAlone /\ AtTheirDevice
      /\ PinsAsSet
  BY DEF DrvInv, UpdatesKept
<1>. DEFINE o == Changed(gpio0.out, call[a])
<1>2. /\ at[a] = "write" /\ locked = a /\ call[a] \in Changes /\ got[a] = gpio0.out
  BY <1>1 DEF PortWrites, In, PortLocked
<1>3. /\ at' = [at EXCEPT ![a] = "idle"] /\ call' = [call EXCEPT ![a] = NoCall]
      /\ got' = [got EXCEPT ![a] = {}] /\ locked' = "none"
  BY DEF PortWrites, Ends, Enters
<1>4. /\ device = "gpio" /\ device' = device /\ latched' = latched /\ spi0' = spi0
      /\ uart0' = uart0 /\ EnablesKept'
      /\ \A b \in Apps : at[b] \in {"idle", "write", "level", "direction"}
  BY GpioKept
<1>5. gpio0' = [gpio0 EXCEPT !.out = o, !.want = o]
  BY <1>1, <1>2 DEF PortWrites, PinsAsSet
<1>6. o \subseteq PortPins /\ gpio0.dir \subseteq PortPins /\ o \subseteq AllPins
  BY <1>1, <1>2, ChangedPins, DriversAssumption DEF PinsAsSet
<1>7. gpio0' \in GpioType /\ gpio0'.out = o /\ gpio0'.want = o /\ gpio0'.dir = gpio0.dir
      /\ gpio0'.drive = gpio0.drive
  <2>1. gpio0 \in GpioType
    BY <1>1 DEF DrvShape
  <2>2. o \in SUBSET AllPins
    BY <1>6
  <2>. HIDE DEF o
  <2>. DEFINE g == [gpio0 EXCEPT !.out = o, !.want = o]
  <2>3. g \in GpioType /\ g.out = o /\ g.want = o /\ g.dir = gpio0.dir /\ g.drive = gpio0.drive
    BY <2>1, <2>2 DEF GpioType
  <2>4. gpio0' = g
    BY <1>5
  <2>. HIDE DEF g
  <2>. QED  BY <2>3, <2>4
<1>8. \A b \in Apps \ {a} : at[b] = "idle"
  <2>1. \A b \in Apps \ {a} : at[b] # "write"
    BY <1>1, <1>2 DEF PortLocked
  <2>2. \A b \in Apps : at[b] \notin {"level", "direction"}
    BY <1>1, <1>2 DEF ConfiguresAlone, Alone
  <2>. QED  BY <1>4, <2>1, <2>2
<1>9. \A b \in Apps : at'[b] = "idle"
  BY <1>1, <1>3, <1>8 DEF DrvShape, SpiShape
<1>10. DrvShape'
  BY <1>1, <1>3, <1>4, <1>7, <1>9 DEF DrvShape, SpiShape
<1>11. PortLocked' /\ ConfiguresAlone' /\ UpdatesAlone' /\ AtTheirDevice'
  BY <1>3, <1>4, <1>9 DEF PortLocked, ConfiguresAlone, UpdatesAlone, AtTheirDevice, PlacesOf
<1>12. PinsAsSet'
  BY <1>1, <1>6, <1>7 DEF PinsAsSet
<1>. QED  BY <1>4, <1>10, <1>11, <1>12 DEF DrvInv, UpdatesKept

\* While a pin is configured its caller is alone, and nobody holds the lock.
LEMMA ConfigureStep ==
  ASSUME DrvInv, ~ConfigureAnytime, GpioNext, NEW a \in Callers,
         Configures(a) \/ SetsLevel(a) \/ SetsDirection(a)
  PROVE  DrvInv'
<1>0. a \in Apps
  BY DEF Apps
<1>1. /\ DrvShape /\ PortLocked /\ ConfiguresAlone /\ UpdatesAlone /\ AtTheirDevice
      /\ PinsAsSet
  BY DEF DrvInv, UpdatesKept
<1>2. /\ device = "gpio" /\ device' = device /\ latched' = latched /\ spi0' = spi0
      /\ uart0' = uart0 /\ EnablesKept'
      /\ \A b \in Apps : at[b] \in {"idle", "write", "level", "direction"}
  BY GpioKept
<1>3. Alone(a) /\ locked = "none" /\ locked' = locked /\ at[a] # "write"
  <2>1. Alone(a) /\ at[a] # "write" /\ locked' = locked
    BY <1>0, <1>1 DEF Configures, SetsLevel, SetsDirection, In, Idle, ConfiguresAlone
  <2>. QED  BY <1>0, <1>1, <2>1 DEF PortLocked, Alone
<1>4. CASE Configures(a)
  <2>1. PICK pin \in PortPins, level \in Levels, drives \in BOOLEAN :
          Begins(a, "level", [kind |-> "configure", pin |-> pin, level |-> level,
                              drives |-> drives])
    BY <1>4 DEF Configures
  <2>2. /\ at' = [at EXCEPT ![a] = "level"]
        /\ call' = [call EXCEPT ![a] = [kind |-> "configure", pin |-> pin, level |-> level,
                                        drives |-> drives]]
        /\ got' = [got EXCEPT ![a] = gpio0.out] /\ gpio0' = gpio0
    BY <1>4, <2>1 DEF Configures, Begins, Enters, Reads
  <2>3. DrvShape'
    BY <1>0, <1>1, <1>2, <1>3, <2>2 DEF DrvShape, SpiShape
  <2>4. PortLocked' /\ UpdatesAlone' /\ AtTheirDevice' /\ PinsAsSet'
    BY <1>0, <1>1, <1>2, <1>3, <2>2
       DEF PortLocked, UpdatesAlone, AtTheirDevice, PlacesOf, PinsAsSet, DrvShape, SpiShape, Alone
  <2>5. ConfiguresAlone'
    BY <1>0, <1>1, <1>3, <2>2 DEF ConfiguresAlone, Alone, DrvShape, SpiShape
  <2>. QED  BY <1>2, <2>3, <2>4, <2>5 DEF DrvInv, UpdatesKept
<1>5. CASE SetsLevel(a)
  <2>. DEFINE o == AsLevel(gpio0.out, call[a])
  <2>1. /\ at[a] = "level" /\ got[a] = gpio0.out /\ call[a].kind = "configure"
        /\ call[a].pin \in PortPins
    BY <1>0, <1>1, <1>5 DEF SetsLevel, In, ConfiguresAlone
  <2>2. /\ at' = [at EXCEPT ![a] = "direction"] /\ call' = call
        /\ got' = [got EXCEPT ![a] = gpio0.dir]
    BY <1>5 DEF SetsLevel, Enters, Reads
  <2>3. o \subseteq PortPins /\ o \subseteq AllPins
    BY <1>1, <2>1, DriversAssumption DEF AsLevel, PinsAsSet
  <2>4. gpio0' = gpio0 \/ gpio0' = [gpio0 EXCEPT !.out = o, !.want = o]
    BY <1>1, <1>5, <2>1 DEF SetsLevel, PinsAsSet
  <2>. HIDE DEF o
  <2>5. gpio0' \in GpioType /\ gpio0'.dir = gpio0.dir /\ PinsAsSet'
    <3>1. gpio0 \in GpioType /\ gpio0.dir \subseteq PortPins
      BY <1>1 DEF DrvShape, SpiShape, PinsAsSet
    <3>2. CASE gpio0' = gpio0
      BY <1>1, <3>1, <3>2 DEF PinsAsSet
    <3>3. CASE gpio0' = [gpio0 EXCEPT !.out = o, !.want = o]
      <4>1. /\ gpio0' \in GpioType /\ gpio0'.out = o /\ gpio0'.want = o
            /\ gpio0'.dir = gpio0.dir /\ gpio0'.drive = gpio0.drive
        BY <2>3, <3>1, <3>3 DEF GpioType
      <4>. QED  BY <1>1, <2>3, <3>1, <4>1 DEF PinsAsSet
    <3>. QED  BY <2>4, <3>2, <3>3
  <2>6. DrvShape'
    BY <1>0, <1>1, <1>2, <1>3, <2>2, <2>5 DEF DrvShape, SpiShape
  <2>7. PortLocked' /\ UpdatesAlone' /\ AtTheirDevice'
    BY <1>0, <1>1, <1>2, <1>3, <2>2
       DEF PortLocked, UpdatesAlone, AtTheirDevice, PlacesOf, DrvShape, SpiShape, Alone
  <2>8. ConfiguresAlone'
    BY <1>0, <1>1, <1>3, <2>1, <2>2, <2>5 DEF ConfiguresAlone, Alone, DrvShape, SpiShape
  <2>. QED  BY <1>2, <2>5, <2>6, <2>7, <2>8 DEF DrvInv, UpdatesKept
<1>6. CASE SetsDirection(a)
  <2>. DEFINE o == AsDirection(gpio0.dir, call[a])
  <2>1. /\ at[a] = "direction" /\ got[a] = gpio0.dir /\ call[a].pin \in PortPins
    BY <1>0, <1>1, <1>6 DEF SetsDirection, In, ConfiguresAlone
  <2>2. /\ at' = [at EXCEPT ![a] = "idle"] /\ call' = [call EXCEPT ![a] = NoCall]
        /\ got' = [got EXCEPT ![a] = {}]
    BY <1>6 DEF SetsDirection, Ends, Enters
  <2>3. o \subseteq PortPins /\ o \subseteq AllPins
    BY <1>1, <2>1, DriversAssumption DEF AsDirection, PinsAsSet
  <2>4. gpio0' = [gpio0 EXCEPT !.dir = o, !.drive = o]
    BY <1>1, <1>6, <2>1 DEF SetsDirection, PinsAsSet
  <2>. HIDE DEF o
  <2>5. gpio0' \in GpioType /\ PinsAsSet'
    <3>1. gpio0 \in GpioType /\ gpio0.out \subseteq PortPins
      BY <1>1 DEF DrvShape, SpiShape, PinsAsSet
    <3>2. /\ gpio0' \in GpioType /\ gpio0'.dir = o /\ gpio0'.drive = o
          /\ gpio0'.out = gpio0.out /\ gpio0'.want = gpio0.want
      BY <2>3, <2>4, <3>1 DEF GpioType
    <3>. QED  BY <1>1, <2>3, <3>1, <3>2 DEF PinsAsSet
  <2>6. DrvShape'
    BY <1>0, <1>1, <1>2, <1>3, <2>2, <2>5 DEF DrvShape, SpiShape
  <2>7. PortLocked' /\ UpdatesAlone' /\ AtTheirDevice' /\ ConfiguresAlone'
    BY <1>0, <1>1, <1>2, <1>3, <2>2
       DEF PortLocked, UpdatesAlone, AtTheirDevice, PlacesOf, DrvShape, SpiShape, Alone, ConfiguresAlone
  <2>. QED  BY <1>2, <2>5, <2>6, <2>7 DEF DrvInv, UpdatesKept
<1>. QED  BY <1>4, <1>5, <1>6

LEMMA GpioStep ==
  ASSUME DrvInv, ~ConfigureAnytime, GpioNext
  PROVE  DrvInv'
BY ReadsStep, WritesStep, ConfigureStep DEF GpioNext
-----------------------------------------------------------------------------
(* UART.                                                                   *)

LEMMA FilledType ==
  ASSUME uart0 \in UartType, NEW k \in 0 .. Room
  PROVE  /\ Filled(uart0, k) \in UartType
         /\ Filled(uart0, k).ctrl = uart0.ctrl /\ Filled(uart0, k).promised = uart0.promised
         /\ Filled(uart0, k).rxn = uart0.rxn
<1>1. Depth \in Nat /\ uart0.fifo \in 0 .. Depth /\ uart0.engine \in BOOLEAN
  BY DriversAssumption DEF UartType
<1>2. CASE k = 0
  BY <1>2 DEF Filled
<1>3. CASE k # 0
  <2>. DEFINE f == uart0.fifo + k - (IF uart0.engine THEN 0 ELSE 1)
  <2>1. f \in 0 .. Depth
    BY <1>1, <1>3 DEF Room, Busy
  <2>2. Filled(uart0, k) = [uart0 EXCEPT !.engine = TRUE, !.fifo = f]
    BY <1>3 DEF Filled
  <2>. HIDE DEF f
  <2>. QED  BY <2>1, <2>2 DEF UartType
<1>. QED  BY <1>2, <1>3

\* What a step of the UART driver has to show.
LEMMA UartKept ==
  ASSUME DrvInv, UartNext, uart0' \in UartType, NEW a \in Apps, Alone(a),
         NEW p \in {"idle", "update", "busy"}, at' = [at EXCEPT ![a] = p],
         NEW c, call' = [call EXCEPT ![a] = c], NEW g, got' = [got EXCEPT ![a] = g],
         uart0'.promised \subseteq uart0'.ctrl,
         p = "update" => /\ uart0'.promised \subseteq g /\ g \subseteq UartIrqs
                         /\ c.set \subseteq UartIrqs
  PROVE  DrvInv'
<1>1. /\ DrvShape /\ PortLocked /\ AtTheirDevice /\ PinsAsSet
      /\ device = "uart" /\ device' = device /\ locked' = locked /\ latched' = latched
      /\ spi0' = spi0 /\ gpio0' = gpio0
  BY DEF DrvInv, UpdatesKept, UartNext
<1>2. \A b \in Apps : at'[b] \in {"idle", "update", "busy"}
  BY <1>1 DEF AtTheirDevice, PlacesOf, DrvShape, SpiShape
<1>3. locked = "none"
  BY <1>1 DEF PortLocked, AtTheirDevice, PlacesOf
<1>4. DrvShape'
  BY <1>1, <1>2 DEF DrvShape, SpiShape
<1>5. PortLocked' /\ ConfiguresAlone' /\ AtTheirDevice'
  BY <1>1, <1>2, <1>3 DEF PortLocked, ConfiguresAlone, AtTheirDevice, PlacesOf
<1>6. UpdatesAlone'
  BY <1>1 DEF UpdatesAlone, Alone, DrvShape, SpiShape
<1>. QED  BY <1>1, <1>4, <1>5, <1>6 DEF DrvInv, UpdatesKept, PinsAsSet, EnablesKept

\* The same of a step in which no application moves.
LEMMA UartStays ==
  ASSUME DrvInv, UartNext, uart0' \in UartType, UNCHANGED <<at, call, got>>,
         uart0'.promised \subseteq uart0'.ctrl, uart0'.promised \subseteq uart0.promised
  PROVE  DrvInv'
<1>1. /\ DrvShape /\ PortLocked /\ ConfiguresAlone /\ AtTheirDevice /\ PinsAsSet
      /\ UpdatesAlone
      /\ device = "uart" /\ device' = device /\ locked' = locked /\ latched' = latched
      /\ spi0' = spi0 /\ gpio0' = gpio0
  BY DEF DrvInv, UpdatesKept, UartNext
<1>2. DrvShape'
  BY <1>1 DEF DrvShape, SpiShape
<1>3. PortLocked' /\ ConfiguresAlone' /\ AtTheirDevice' /\ UpdatesAlone'
  BY <1>1 DEF PortLocked, ConfiguresAlone, AtTheirDevice, UpdatesAlone, Alone
<1>. QED  BY <1>1, <1>2, <1>3 DEF DrvInv, UpdatesKept, PinsAsSet, EnablesKept

LEMMA UpdatedSets ==
  \A x, y, c : x \subseteq y => Updated(x, c) \subseteq Updated(y, c)
BY DEF Updated

LEMMA CtrlStep ==
  ASSUME DrvInv, UartNext, NEW a \in Callers, Alone(a), CtrlReads(a) \/ CtrlWrites(a)
  PROVE  DrvInv'
<1>0. a \in Apps
  BY DEF Apps
<1>1. DrvShape /\ UpdatesAlone /\ uart0 \in UartType /\ EnablesKept
  BY DEF DrvInv, DrvShape, SpiShape, UpdatesKept
<1>2. CASE CtrlReads(a)
  <2>1. PICK irq \in UartIrqs, enable \in BOOLEAN :
          Begins(a, "update", [kind |-> "ctrl", set |-> IF enable THEN {irq} ELSE {},
                               clear |-> IF enable THEN {} ELSE {irq}])
    BY <1>2 DEF CtrlReads
  <2>2. uart0' = uart0 /\ got' = [got EXCEPT ![a] = uart0.ctrl]
    BY <1>2 DEF CtrlReads, Reads
  <2>. DEFINE c == [kind |-> "ctrl", set |-> IF enable THEN {irq} ELSE {},
                    clear |-> IF enable THEN {} ELSE {irq}]
  <2>3. at' = [at EXCEPT ![a] = "update"] /\ call' = [call EXCEPT ![a] = c]
    BY <2>1 DEF Begins, Enters
  <2>4. c.set \subseteq UartIrqs
    OBVIOUS
  <2>. HIDE DEF c
  <2>5. uart0.ctrl \subseteq UartIrqs /\ uart0.promised \subseteq uart0.ctrl
    BY <1>1 DEF UartType, EnablesKept
  <2>. QED  BY <1>0, <1>1, <2>2, <2>3, <2>4, <2>5, UartKept
<1>3. CASE CtrlWrites(a)
  <2>. DEFINE c == Updated(got[a], call[a])
              p == Updated(uart0.promised, call[a])
  <2>1. at[a] = "update" /\ uart0.promised \subseteq got[a]
    BY <1>0, <1>1, <1>3 DEF CtrlWrites, In, UpdatesAlone
  <2>2. p \subseteq c
    BY <2>1, UpdatedSets
  <2>3. /\ at' = [at EXCEPT ![a] = "idle"] /\ call' = [call EXCEPT ![a] = NoCall]
        /\ got' = [got EXCEPT ![a] = {}]
    BY <1>3 DEF CtrlWrites, Ends, Enters
  <2>4. uart0' = [uart0 EXCEPT !.ctrl = c, !.promised = p]
    BY <1>3 DEF CtrlWrites
  <2>5. c \subseteq UartIrqs
    BY <1>0, <1>1, <2>1 DEF UpdatesAlone, Updated
  <2>. HIDE DEF c, p
  <2>6. uart0' \in UartType /\ uart0'.ctrl = c /\ uart0'.promised = p
    BY <1>1, <2>2, <2>4, <2>5 DEF UartType
  <2>. QED  BY <1>0, <2>2, <2>3, <2>6, UartKept
<1>. QED  BY <1>2, <1>3

LEMMA CallStep ==
  ASSUME DrvInv, UartNext, NEW a \in Callers, Alone(a),
         CallbackSet(a) \/ PollOut(a) \/ PollIn(a) \/ ErrCheck(a)
  PROVE  DrvInv'
<1>0. a \in Apps
  BY DEF Apps
<1>1. /\ DrvShape /\ uart0 \in UartType /\ uart0.promised \subseteq uart0.ctrl
      /\ Depth \in Nat \ {0}
  BY DriversAssumption DEF DrvInv, DrvShape, SpiShape, UpdatesKept, EnablesKept
<1>2. CASE CallbackSet(a)
  <2>1. uart0' = [uart0 EXCEPT !.cb = TRUE] /\ UNCHANGED <<at, call, got>>
    BY <1>2 DEF CallbackSet
  <2>2. uart0' \in UartType /\ uart0'.promised = uart0.promised /\ uart0'.ctrl = uart0.ctrl
    BY <1>1, <2>1 DEF UartType
  <2>. QED  BY <1>1, <2>1, <2>2, UartStays
<1>3. CASE PollIn(a)
  <2>. DEFINE n == uart0.rxn - 1
  <2>1. uart0' = [uart0 EXCEPT !.rxn = n] /\ UNCHANGED <<at, call, got>>
    BY <1>3 DEF PollIn
  <2>2. n \in 0 .. Depth
    BY <1>1, <1>3 DEF PollIn, UartType
  <2>. HIDE DEF n
  <2>3. uart0' \in UartType /\ uart0'.promised = uart0.promised /\ uart0'.ctrl = uart0.ctrl
    BY <1>1, <2>1, <2>2 DEF UartType
  <2>. QED  BY <1>1, <2>1, <2>3, UartStays
<1>4. CASE ErrCheck(a)
  <2>1. uart0' = [uart0 EXCEPT !.over = FALSE] /\ UNCHANGED <<at, call, got>>
    BY <1>4 DEF ErrCheck
  <2>2. uart0' \in UartType /\ uart0'.promised = uart0.promised /\ uart0'.ctrl = uart0.ctrl
    BY <1>1, <2>1 DEF UartType
  <2>. QED  BY <1>1, <2>1, <2>2, UartStays
<1>5. CASE Idle(a) /\ HasRoom /\ Begins(a, "busy", [kind |-> "poll"])
           /\ uart0' = Filled(uart0, 1) /\ UNCHANGED got
  <2>1. 1 \in 0 .. Room
    BY <1>1, <1>5 DEF HasRoom, Room, UartType
  <2>2. /\ uart0' \in UartType /\ uart0'.promised = uart0.promised
        /\ uart0'.ctrl = uart0.ctrl
    BY <1>1, <1>5, <2>1, FilledType
  <2>3. got' = [got EXCEPT ![a] = got[a]]
    BY <1>0, <1>1, <1>5 DEF DrvShape, SpiShape
  <2>. QED  BY <1>0, <1>1, <1>5, <2>2, <2>3, UartKept DEF Begins, Enters
<1>6. CASE In(a, "busy") /\ Busy /\ Ends(a) /\ UNCHANGED uart0
  BY <1>0, <1>1, <1>6, UartKept DEF Ends, Enters
<1>. QED  BY <1>2, <1>3, <1>4, <1>5, <1>6 DEF PollOut

LEMMA ServesStep ==
  ASSUME DrvInv, UartNext, ~CallbackEnables, UartServes
  PROVE  DrvInv'
<1>1. uart0 \in UartType /\ uart0.promised \subseteq uart0.ctrl /\ Depth \in Nat \ {0}
  BY DriversAssumption DEF DrvInv, DrvShape, SpiShape, UpdatesKept, EnablesKept
<1>2. UNCHANGED <<at, call, got>>
  BY DEF UartServes
<1>3. CASE uart0.cb /\ Callback(uart0)
  <2>1. PICK n \in 0 .. (IF "rx" \in uart0.ctrl THEN uart0.rxn ELSE 0),
             k \in 0 .. (IF "tx" \in uart0.ctrl /\ HasRoom THEN Room ELSE 0),
             checked \in SUBSET UartIrqs, disabled \in SUBSET UartIrqs,
             enabled \in SUBSET (IF CallbackEnables THEN UartIrqs ELSE {}) :
          /\ checked \subseteq {"err"}
          /\ uart0' = [Filled(uart0, k) EXCEPT !.rxn = @ - n, !.over = @ /\ checked = {},
                         !.ctrl = (@ \ disabled) \cup enabled,
                         !.promised = (@ \ disabled) \cup enabled]
    BY <1>3, Zenon DEF Callback
  <2>2. k \in 0 .. Room
    BY <1>1, <2>1 DEF HasRoom, Room, UartType
  <2>. DEFINE u == Filled(uart0, k)
              r == u.rxn - n
              c == (u.ctrl \ disabled) \cup enabled
              p == (u.promised \ disabled) \cup enabled
              v == (u.over /\ checked = {})
  <2>3. u \in UartType /\ u.ctrl = uart0.ctrl /\ u.promised = uart0.promised
        /\ u.rxn = uart0.rxn
    BY <1>1, <2>2, FilledType
  <2>. HIDE DEF u
  <2>4. r \in 0 .. Depth
    BY <1>1, <2>1, <2>3 DEF UartType
  <2>0. enabled = {}
    BY <2>1
  <2>5. c \in SUBSET UartIrqs /\ p \in SUBSET UartIrqs /\ p \subseteq c
        /\ p \subseteq uart0.promised
    BY <1>1, <2>0, <2>3 DEF UartType
  <2>6. uart0' = [u EXCEPT !.rxn = r, !.over = v, !.ctrl = c, !.promised = p]
    BY <2>1 DEF u
  <2>7. v \in BOOLEAN
    OBVIOUS
  <2>. HIDE DEF r, c, p, v
  <2>8. uart0' \in UartType /\ uart0'.ctrl = c /\ uart0'.promised = p
    BY <2>3, <2>4, <2>5, <2>6, <2>7 DEF UartType
  <2>. QED  BY <1>2, <2>5, <2>8, UartStays
<1>4. CASE uart0' = [uart0 EXCEPT !.ctrl = {}, !.promised = {}]
  <2>1. uart0' \in UartType /\ uart0'.ctrl = {} /\ uart0'.promised = {}
    BY <1>1, <1>4 DEF UartType
  <2>. QED  BY <1>2, <2>1, UartStays
<1>. QED  BY <1>3, <1>4 DEF UartServes

LEMMA LineStep ==
  ASSUME DrvInv, UartNext, LineMoves
  PROVE  DrvInv'
<1>1. uart0 \in UartType /\ uart0.promised \subseteq uart0.ctrl /\ Depth \in Nat \ {0}
  BY DriversAssumption DEF DrvInv, DrvShape, SpiShape, UpdatesKept, EnablesKept
<1>2. UNCHANGED <<at, call, got>>
  BY DEF LineMoves
<1>. DEFINE n == uart0.rxn + 1
            e == (uart0.fifo > 0)
            f == IF uart0.fifo > 0 THEN uart0.fifo - 1 ELSE 0
<1>3. \/ n \in 0 .. Depth /\ uart0' = [uart0 EXCEPT !.rxn = n]
      \/ uart0' = [uart0 EXCEPT !.over = TRUE]
      \/ f \in 0 .. Depth /\ e \in BOOLEAN /\ uart0' = [uart0 EXCEPT !.engine = e, !.fifo = f]
  BY <1>1 DEF LineMoves, UartType
<1>. HIDE DEF n, e, f
<1>4. uart0' \in UartType /\ uart0'.ctrl = uart0.ctrl /\ uart0'.promised = uart0.promised
  BY <1>1, <1>3 DEF UartType
<1>. QED  BY <1>1, <1>2, <1>4, UartStays

LEMMA UartStep ==
  ASSUME DrvInv, ~CallbackEnables, UartNext
  PROVE  DrvInv'
BY CtrlStep, CallStep, ServesStep, LineStep DEF UartNext
-----------------------------------------------------------------------------
LEMMA DrvInitially == DrvInit => DrvInv
<1>. SUFFICES ASSUME DrvInit PROVE DrvInv
  OBVIOUS
<1>1. \A a \in Apps : at[a] = "idle"
  BY DEF DrvInit
<1>2. spi0 \in SpiType(spi0)
  BY DEF DrvInit, SpiType
<1>3. gpio0 \in GpioType /\ uart0 \in UartType
  BY DriversAssumption DEF DrvInit, GpioType, UartType
<1>4. DrvShape
  BY <1>1, <1>2, <1>3 DEF DrvInit, DrvShape, SpiShape
<1>5. PortLocked /\ ConfiguresAlone /\ UpdatesAlone /\ AtTheirDevice
  BY <1>1, DriversAssumption
     DEF DrvInit, PortLocked, ConfiguresAlone, UpdatesAlone, AtTheirDevice, PlacesOf
<1>6. UpdatesKept
  BY DEF DrvInit, UpdatesKept, PinsAsSet, EnablesKept
<1>. QED  BY <1>4, <1>5, <1>6 DEF DrvInv

LEMMA DrvStutters ==
  ASSUME DrvInv, UNCHANGED drvVars
  PROVE  DrvInv'
<1>1. DrvShape' /\ PortLocked' /\ ConfiguresAlone'
  BY DEF DrvInv, drvVars, DrvShape, SpiShape, PortLocked, ConfiguresAlone, Alone
<1>2. UpdatesAlone' /\ AtTheirDevice' /\ UpdatesKept'
  BY DEF DrvInv, drvVars, UpdatesAlone, Alone, AtTheirDevice, UpdatesKept, PinsAsSet, EnablesKept
<1>. QED  BY <1>1, <1>2 DEF DrvInv

(* No bits of a caller are lost from a register that several read, change  *)
(* and write back: not by a tick between the read of the GPIO port and its *)
(* write, which irq_lock keeps out, nor by the UART's ISR between the read *)
(* and the write of its control register; for any callers, pins and depth  *)
(* of the FIFOs, where applications configure pins alone and callbacks     *)
(* only disable interrupts.  Without either the runs find a lost update.   *)
THEOREM UpdatesStay ==
  ASSUME ~CallbackEnables, ~ConfigureAnytime
  PROVE  DrvSpec => []UpdatesKept
<1>1. DrvInv /\ [DrvNext]_drvVars => DrvInv'
  BY SpiStep, GpioStep, UartStep, DrvStutters DEF DrvNext
<1>2. DrvInv => UpdatesKept
  BY DEF DrvInv
<1>. QED  BY DrvInitially, <1>1, <1>2, PTL DEF DrvSpec
-----------------------------------------------------------------------------
(* Induction over the natural numbers, as a fact about sets.               *)

Less == {ss \in Nat \X Nat : ss[1] < ss[2]}

LEMMA LessWF == IsWellFoundedOn(Less, Nat)
<1>1. OpToRel(<, Nat) = Less
  BY Zenon DEF OpToRel, Less
<1>. QED  BY <1>1, NatLessThanWellFounded, Zenon

LEMMA LessIs == \A u, v \in Nat : u < v => <<u, v>> \in Less
<1>. TAKE u, v \in Nat
<1>. HAVE u < v
<1>. DEFINE p == <<u, v>>
<1>1. p \in Nat \X Nat /\ p[1] = u /\ p[2] = v
  OBVIOUS
<1>. QED  BY <1>1 DEF Less

LEMMA Induct ==
  ASSUME NEW S, 0 \in S, \A n \in Nat : n \in S => n + 1 \in S
  PROVE  Nat \subseteq S
<1>. DEFINE T == Nat \ S
<1>. SUFFICES ASSUME T # {} PROVE FALSE
  OBVIOUS
<1>1. T \subseteq Nat
  OBVIOUS
<1>. HIDE DEF T
<1>2. PICK x \in T : \A y \in T : ~(<<y, x>> \in Less)
  BY <1>1, LessWF, WFMin, Zenon
<1>3. x # 0 /\ x - 1 \in Nat /\ x - 1 < x
  BY <1>1 DEF T
<1>4. x - 1 \in S
  BY <1>1, <1>2, <1>3, LessIs DEF T
<1>. QED  BY <1>3, <1>4 DEF T
-----------------------------------------------------------------------------
(* Where the bytes of a list of buffers lie.                               *)

\* f counts the bytes before each of the first n buffers, and in them.
Counts(f, s, n) ==
  /\ f \in [1 .. n + 1 -> Nat]
  /\ \A i \in 1 .. n + 1 : f[i] = IF i = 1 THEN 0 ELSE f[i - 1] + s[i - 1]

LEMMA CountsExist ==
  ASSUME NEW s \in Seq(Nat)
  PROVE  \E f : Counts(f, s, Len(s))
<1>. DEFINE S == {n \in Nat : n <= Len(s) => \E f : Counts(f, s, n)}
<1>1. Len(s) \in Nat /\ \A i \in 1 .. Len(s) : s[i] \in Nat
  BY ElementOfSeq, LenProperties
<1>2. 0 \in S
  <2>. DEFINE f == [i \in 1 .. 1 |-> 0]
  <2>. Counts(f, s, 0)
    BY DEF Counts
  <2>. QED  OBVIOUS
<1>3. ASSUME NEW n \in Nat, n \in S, n + 1 <= Len(s)
      PROVE  \E f : Counts(f, s, n + 1)
  <2>1. PICK f : Counts(f, s, n)
    BY <1>1, <1>3
  <2>. DEFINE g == [i \in 1 .. n + 2 |-> IF i = n + 2 THEN f[n + 1] + s[n + 1] ELSE f[i]]
  <2>2. f[n + 1] + s[n + 1] \in Nat
    BY <1>1, <1>3, <2>1 DEF Counts
  <2>3. g \in [1 .. n + 2 -> Nat]
    BY <1>3, <2>1, <2>2 DEF Counts
  <2>4. ASSUME NEW i \in 1 .. n + 2
        PROVE  g[i] = IF i = 1 THEN 0 ELSE g[i - 1] + s[i - 1]
    <3>1. CASE i = n + 2
      <4>. i - 1 = n + 1 /\ i # 1 /\ i - 1 # n + 2 /\ i - 1 \in 1 .. n + 2
        BY <3>1
      <4>. QED  BY <3>1
    <3>2. CASE i = 1
      BY <3>2, <2>1 DEF Counts
    <3>3. CASE i # 1 /\ i # n + 2
      <4>. i - 1 \in 1 .. n + 2 /\ i - 1 # n + 2 /\ i \in 1 .. n + 1
        BY <3>3
      <4>. QED  BY <3>3, <2>1 DEF Counts
    <3>. QED  BY <3>1, <3>2, <3>3
  <2>. HIDE DEF g
  <2>5. Counts(g, s, n + 1)
    BY <2>3, <2>4 DEF Counts
  <2>. QED  BY <2>5
<1>4. \A n \in Nat : n \in S => n + 1 \in S
  BY <1>1, <1>3
<1>. HIDE DEF S
<1>5. Len(s) \in S
  BY <1>1, <1>2, <1>4, Induct
<1>. QED  BY <1>5 DEF S

LEMMA BeforeIs ==
  ASSUME NEW s \in Seq(Nat)
  PROVE  /\ Before(s) \in [1 .. Len(s) + 1 -> Nat] /\ Len(s) \in Nat
         /\ Before(s)[1] = 0 /\ SpiSize(s) = Before(s)[Len(s) + 1]
         /\ \A i \in 1 .. Len(s) : /\ Before(s)[i + 1] = Before(s)[i] + s[i]
                                   /\ s[i] \in Nat
<1>. DEFINE Step(f) == [i \in 1 .. Len(s) + 1 |-> IF i = 1 THEN 0 ELSE f[i - 1] + s[i - 1]]
<1>0. Len(s) \in Nat /\ \A i \in 1 .. Len(s) : s[i] \in Nat
  BY ElementOfSeq, LenProperties
<1>1. PICK f : Counts(f, s, Len(s))
  BY CountsExist
<1>2. f = Step(f)
  BY <1>0, <1>1 DEF Counts
<1>3. Before(s) = Step(Before(s))
  BY <1>2, Zenon DEF Before
<1>. DEFINE b == Before(s)
<1>. HIDE DEF b
<1>4. \A i \in 1 .. Len(s) + 1 : b[i] = IF i = 1 THEN 0 ELSE b[i - 1] + s[i - 1]
  BY <1>0, <1>3 DEF b
<1>5. b[1] = 0 /\ \A i \in 1 .. Len(s) : b[i + 1] = b[i] + s[i]
  BY <1>0, <1>4
<1>. DEFINE S == {n \in Nat : n <= Len(s) => b[n + 1] \in Nat}
<1>6. 0 \in S /\ \A n \in Nat : n \in S => n + 1 \in S
  BY <1>0, <1>5
<1>. HIDE DEF S
<1>7. Nat \subseteq S
  BY <1>6, Induct
<1>8. \A i \in 1 .. Len(s) + 1 : b[i] \in Nat
  <2>. TAKE i \in 1 .. Len(s) + 1
  <2>1. i - 1 \in S
    BY <1>0, <1>7
  <2>. QED  BY <1>0, <2>1 DEF S
<1>9. b \in [1 .. Len(s) + 1 -> Nat]
  BY <1>3, <1>8 DEF b
<1>. QED  BY <1>0, <1>5, <1>9 DEF b, SpiSize

\* b rises by the entries of s.
Rises(b, s, n) == /\ b \in [1 .. n + 1 -> Nat]
                  /\ \A i \in 1 .. n : s[i] \in Nat /\ b[i + 1] = b[i] + s[i]

LEMMA RisesStep ==
  ASSUME NEW n \in Nat, NEW b, NEW s, Rises(b, s, n), NEW i \in 1 .. n
  PROVE  /\ i \in 1 .. n + 1 /\ i + 1 \in 1 .. n + 1
         /\ b[i] \in Nat /\ b[i + 1] \in Nat /\ s[i] \in Nat /\ b[i + 1] = b[i] + s[i]
<1>1. i \in 1 .. n + 1 /\ i + 1 \in 1 .. n + 1
  OBVIOUS
<1>. QED  BY <1>1 DEF Rises

LEMMA RisesAll ==
  ASSUME NEW n \in Nat, NEW b, NEW s, Rises(b, s, n), NEW i \in 1 .. n + 1
  PROVE  \A m \in Nat : i + m <= n + 1 => b[i] <= b[i + m]
<1>. DEFINE S == {m \in Nat : i + m <= n + 1 => b[i] <= b[i + m]}
<1>1. b[i] \in Nat
  BY DEF Rises
<1>2. 0 \in S
  BY <1>1
<1>3. ASSUME NEW m \in S
      PROVE  m + 1 \in S
  <2>. SUFFICES ASSUME i + (m + 1) <= n + 1 PROVE b[i] <= b[i + (m + 1)]
    OBVIOUS
  <2>. DEFINE h == i + m
  <2>1. h \in 1 .. n /\ h + 1 = i + (m + 1) /\ b[i] <= b[h]
    OBVIOUS
  <2>. HIDE DEF h
  <2>2. b[h] \in Nat /\ b[h + 1] \in Nat /\ s[h] \in Nat /\ b[h + 1] = b[h] + s[h]
    BY <2>1, RisesStep
  <2>. QED  BY <1>1, <2>1, <2>2
<1>. HIDE DEF S
<1>4. Nat \subseteq S
  BY <1>2, <1>3, Induct
<1>. QED  BY <1>4 DEF S

LEMMA BeforeRises ==
  ASSUME NEW s \in Seq(Nat)
  PROVE  Len(s) \in Nat /\ Rises(Before(s), s, Len(s))
BY BeforeIs DEF Rises

LEMMA RisesTo ==
  ASSUME NEW n \in Nat, NEW b, NEW s, Rises(b, s, n),
         NEW i \in 1 .. n + 1, NEW k \in 1 .. n + 1, i <= k
  PROVE  b[i] <= b[k] /\ b[i] \in Nat /\ b[k] \in Nat
<1>1. k - i \in Nat /\ i + (k - i) = k
  OBVIOUS
<1>2. b[i] \in Nat /\ b[k] \in Nat
  BY DEF Rises
<1>. QED  BY <1>1, <1>2, RisesAll

\* Between the first and the last value of b every number lies in one step.
LEMMA StepOf ==
  ASSUME NEW n \in Nat, NEW b, NEW s, Rises(b, s, n), b[1] = 0,
         NEW index \in Nat, index < b[n + 1]
  PROVE  \E i \in 1 .. n : index \in b[i] .. b[i + 1] - 1
<1>. DEFINE S == {m \in Nat : m <= n /\ index < b[m + 1] =>
                    \E i \in 1 .. n : index \in b[i] .. b[i + 1] - 1}
<1>1. 0 \in S
  OBVIOUS
<1>2. ASSUME NEW m \in S
      PROVE  m + 1 \in S
  <2>. SUFFICES ASSUME m + 1 <= n, index < b[(m + 1) + 1]
                PROVE  \E i \in 1 .. n : index \in b[i] .. b[i + 1] - 1
    OBVIOUS
  <2>. DEFINE h == m + 1
  <2>1. h \in 1 .. n
    OBVIOUS
  <2>2. b[h] \in Nat /\ b[h + 1] \in Nat
    BY <2>1, RisesStep
  <2>3. CASE b[h] <= index
    BY <2>1, <2>2, <2>3
  <2>4. CASE index < b[h]
    BY <2>1, <2>4
  <2>. QED  BY <2>2, <2>3, <2>4
<1>. HIDE DEF S
<1>3. n \in S
  BY <1>1, <1>2, Induct
<1>. QED  BY <1>3 DEF S

\* And in one only.
LEMMA StepUnique ==
  ASSUME NEW n \in Nat, NEW b, NEW s, Rises(b, s, n),
         NEW i \in 1 .. n, NEW k \in 1 .. n, NEW index \in Int,
         index \in b[i] .. b[i + 1] - 1, index \in b[k] .. b[k + 1] - 1
  PROVE  i = k
<1>1. /\ b[i] \in Nat /\ b[i + 1] \in Nat /\ b[k] \in Nat /\ b[k + 1] \in Nat
      /\ i \in 1 .. n + 1 /\ i + 1 \in 1 .. n + 1 /\ k \in 1 .. n + 1 /\ k + 1 \in 1 .. n + 1
  BY RisesStep
<1>2. CASE i < k
  <2>1. i + 1 <= k
    BY <1>2
  <2>2. b[i + 1] <= b[k]
    BY <1>1, <2>1, RisesTo
  <2>. QED  BY <1>1, <2>2
<1>3. CASE k < i
  <2>1. k + 1 <= i
    BY <1>3
  <2>2. b[k + 1] <= b[i]
    BY <1>1, <2>1, RisesTo
  <2>. QED  BY <1>1, <2>2
<1>. QED  BY <1>2, <1>3

\* The search for the buffer of a byte finds it.
LEMMA SpotFound ==
  ASSUME NEW s \in Seq(Nat), NEW i \in 1 .. Len(s), NEW j \in 1 .. s[i]
  PROVE  LET p == Spot(s, Before(s)[i] + j - 1) IN p[1] = i /\ p[2] = j
<1>. DEFINE b == Before(s)
            n == Len(s)
            k == b[i] + j - 1
            here == {h \in 1 .. n : k \in b[h] .. b[h + 1] - 1}
            m == CHOOSE h \in here : TRUE
            d == k - b[m] + 1
<1>1. Spot(s, k) = IF here = {} THEN <<0, 0>> ELSE <<m, d>>
  BY Zenon DEF Spot
<1>2. n \in Nat /\ Rises(b, s, n)
  BY BeforeRises
<1>. HIDE DEF b, n
<1>3. b[i] \in Nat /\ b[i + 1] \in Nat /\ s[i] \in Nat /\ b[i + 1] = b[i] + s[i] /\ i \in 1 .. n
  BY <1>2, RisesStep DEF n
<1>4. k \in Int /\ k \in b[i] .. b[i + 1] - 1 /\ k - b[i] + 1 = j
  <2>. DEFINE u == b[i] v == b[i + 1] l == s[i]
  <2>1. u \in Nat /\ v \in Nat /\ l \in Nat /\ v = u + l /\ j \in 1 .. l
    BY <1>3
  <2>. HIDE DEF u, v, l
  <2>2. u + j - 1 \in Int /\ u + j - 1 \in u .. v - 1 /\ (u + j - 1) - u + 1 = j
    BY <2>1
  <2>. QED  BY <2>2 DEF u, v
<1>. HIDE DEF k
<1>5. \A h \in here : h = i
  BY <1>2, <1>3, <1>4, StepUnique
<1>6. i \in here
  BY <1>3, <1>4
<1>. HIDE DEF here
<1>7. m = i
  BY <1>5, <1>6
<1>8. d = j
  BY <1>4, <1>7
<1>. HIDE DEF m, d
<1>9. Spot(s, k) = <<m, d>>
  BY <1>1, <1>6
<1>. QED  BY <1>7, <1>8, <1>9 DEF b, k

LEMMA SpotNone ==
  ASSUME NEW s \in Seq(Nat), NEW index \in Nat, index >= SpiSize(s)
  PROVE  Spot(s, index)[1] = 0
<1>. DEFINE b == Before(s)
            n == Len(s)
            here == {h \in 1 .. n : index \in b[h] .. b[h + 1] - 1}
            m == CHOOSE h \in here : TRUE
            d == index - b[m] + 1
<1>1. Spot(s, index) = IF here = {} THEN <<0, 0>> ELSE <<m, d>>
  BY Zenon DEF Spot
<1>2. n \in Nat /\ Rises(b, s, n) /\ index >= b[n + 1]
  BY BeforeRises, BeforeIs
<1>. HIDE DEF b, n
<1>3. ASSUME NEW h \in here
      PROVE  FALSE
  <2>1. b[h] \in Nat /\ b[h + 1] \in Nat /\ h + 1 \in 1 .. n + 1
    BY <1>2, RisesStep
  <2>2. h + 1 <= n + 1 /\ n + 1 \in 1 .. n + 1
    BY <1>2, <2>1
  <2>3. b[h + 1] <= b[n + 1] /\ b[n + 1] \in Nat
    BY <1>2, <2>1, <2>2, RisesTo
  <2>. QED  BY <1>2, <2>1, <2>3
<1>. HIDE DEF m, d, here
<1>4. Spot(s, index) = <<0, 0>>
  BY <1>1, <1>3
<1>. QED  BY <1>4
-----------------------------------------------------------------------------
(* The bytes of a list of buffers, one buffer after the other.             *)

\* g joins the first sequences of s, up to each of the first n.
Joins(g, s, n) == g = [i \in 1 .. n |-> IF i = 1 THEN s[i] ELSE g[i - 1] \o s[i]]

LEMMA JoinsExist ==
  ASSUME NEW s, NEW n \in Nat
  PROVE  \E g : Joins(g, s, n)
<1>. DEFINE S == {m \in Nat : \E g : Joins(g, s, m)}
<1>1. 0 \in S
  <2>. DEFINE g == [i \in 1 .. 0 |-> s[i]]
  <2>1. g = [i \in 1 .. 0 |-> IF i = 1 THEN s[i] ELSE g[i - 1] \o s[i]]
    <3>. ASSUME NEW i \in 1 .. 0 PROVE FALSE
      OBVIOUS
    <3>. QED  OBVIOUS
  <2>. HIDE DEF g
  <2>. QED  BY <2>1 DEF Joins
<1>2. ASSUME NEW m \in S
      PROVE  m + 1 \in S
  <2>1. PICK g : Joins(g, s, m)
    OBVIOUS
  <2>. DEFINE next == IF m = 0 THEN s[1] ELSE g[m] \o s[m + 1]
              f == [i \in 1 .. m + 1 |-> IF i = m + 1 THEN next ELSE g[i]]
              r(i) == IF i = 1 THEN s[i] ELSE f[i - 1] \o s[i]
  <2>2. ASSUME NEW i \in 1 .. m + 1
        PROVE  f[i] = r(i)
    <3>1. CASE i = m + 1 /\ m = 0
      BY <3>1
    <3>2. CASE i = m + 1 /\ m # 0
      <4>1. f[i - 1] = g[m] /\ i # 1
        BY <3>2
      <4>2. f[i] = g[m] \o s[m + 1]
        BY <3>2
      <4>. QED  BY <3>2, <4>1, <4>2
    <3>3. CASE i # m + 1
      <4>1. i \in 1 .. m /\ f[i] = g[i]
        BY <3>3
      <4>2. g[i] = IF i = 1 THEN s[i] ELSE g[i - 1] \o s[i]
        BY <2>1, <4>1 DEF Joins
      <4>3. i # 1 => f[i - 1] = g[i - 1]
        BY <4>1
      <4>. QED  BY <4>1, <4>2, <4>3
    <3>. QED  BY <3>1, <3>2, <3>3
  <2>3. f = [i \in 1 .. m + 1 |-> f[i]]
    OBVIOUS
  <2>4. f = [i \in 1 .. m + 1 |-> r(i)]
    BY <2>2
  <2>. HIDE DEF f
  <2>5. Joins(f, s, m + 1)
    BY <2>4 DEF Joins
  <2>. QED  BY <2>5
<1>. HIDE DEF S
<1>3. n \in S
  BY <1>1, <1>2, Induct
<1>. QED  BY <1>3 DEF S

LEMMA SizesIs ==
  ASSUME NEW V, NEW s \in Seq(Seq(V))
  PROVE  /\ Sizes(s) \in Seq(Nat) /\ Len(Sizes(s)) = Len(s) /\ Len(s) \in Nat
         /\ \A i \in 1 .. Len(s) : /\ s[i] \in Seq(V) /\ Sizes(s)[i] = Len(s[i])
                                   /\ Len(s[i]) \in Nat
<1>1. Len(s) \in Nat /\ DOMAIN s = 1 .. Len(s)
  BY LenProperties
<1>2. \A i \in 1 .. Len(s) : s[i] \in Seq(V) /\ Len(s[i]) \in Nat
  BY ElementOfSeq, LenProperties
<1>3. Sizes(s) = [i \in 1 .. Len(s) |-> Len(s[i])]
  BY <1>1 DEF Sizes
<1>4. Sizes(s) \in [1 .. Len(s) -> Nat]
  BY <1>2, <1>3
<1>. HIDE DEF Sizes
<1>5. Sizes(s) \in Seq(Nat) /\ Len(Sizes(s)) = Len(s)
  BY <1>1, <1>4, IsASeq, LenProperties
<1>. QED  BY <1>1, <1>2, <1>3, <1>5

\* What has been joined up to m: every byte is where the count says.
Joined(g, s, m) ==
  LET b == Before(Sizes(s))
  IN /\ Len(g[m]) = b[m + 1]
     /\ \A i \in 1 .. m : \A j \in 1 .. Len(s[i]) : g[m][b[i] + j] = s[i][j]

LEMMA JoinStep ==
  ASSUME NEW V, NEW s \in Seq(Seq(V)), NEW g, Joins(g, s, Len(s)),
         NEW m \in 1 .. Len(s), m > 1 => g[m - 1] \in Seq(V) /\ Joined(g, s, m - 1)
  PROVE  g[m] \in Seq(V) /\ Joined(g, s, m)
<1>. DEFINE n == Len(s)
            b == Before(Sizes(s))
<1>1. n \in Nat /\ m \in Nat /\ m \in 1 .. n + 1 /\ m + 1 \in 1 .. n + 1
  BY SizesIs
<1>2. /\ Sizes(s) \in Seq(Nat) /\ Len(Sizes(s)) = n
      /\ \A i \in 1 .. n : s[i] \in Seq(V) /\ Sizes(s)[i] = Len(s[i]) /\ Len(s[i]) \in Nat
  BY SizesIs
<1>3. Rises(b, Sizes(s), n) /\ b[1] = 0
  BY <1>2, BeforeRises, BeforeIs
<1>4. g[m] = IF m = 1 THEN s[m] ELSE g[m - 1] \o s[m]
  BY <1>1 DEF Joins
<1>. HIDE DEF n, b
<1>5. \A i \in 1 .. n : b[i] \in Nat /\ b[i + 1] \in Nat /\ b[i + 1] = b[i] + Len(s[i])
  <2>. TAKE i \in 1 .. n
  <2>. DEFINE z == Sizes(s)
  <2>1. Rises(b, z, n) /\ z[i] = Len(s[i])
    BY <1>2, <1>3
  <2>. HIDE DEF z
  <2>. QED  BY <1>1, <2>1, RisesStep
<1>6. m \in 1 .. n
  BY DEF n
<1>7. CASE m = 1
  <2>1. g[1] = s[1] /\ s[1] \in Seq(V)
    BY <1>2, <1>4, <1>6, <1>7
  <2>2. Len(g[m]) = b[m + 1]
    BY <1>2, <1>3, <1>5, <1>6, <1>7, <2>1
  <2>3. ASSUME NEW i \in 1 .. m, NEW j \in 1 .. Len(s[i])
        PROVE  g[m][b[i] + j] = s[i][j]
    <3>1. i = 1
      BY <1>7
    <3>2. Len(s[i]) \in Nat
      BY <1>2, <1>6, <1>7, <3>1
    <3>3. b[i] + j = j
      BY <1>3, <3>1, <3>2
    <3>. QED  BY <1>7, <2>1, <3>1, <3>3
  <2>. QED  BY <1>7, <2>1, <2>2, <2>3 DEF Joined, b
<1>8. CASE m > 1
  <2>. DEFINE p == g[m - 1]
              q == s[m]
              h == m - 1
  <2>1. h \in 1 .. n /\ h + 1 = m
    BY <1>1, <1>6, <1>8
  <2>2. p \in Seq(V) /\ Len(p) = b[m] /\ q \in Seq(V) /\ Len(q) \in Nat
    BY <1>2, <1>6, <1>8, <2>1 DEF Joined, b
  <2>3. \A i \in 1 .. h : \A j \in 1 .. Len(s[i]) : p[b[i] + j] = s[i][j]
    BY <1>8 DEF Joined, b
  <2>4. g[m] = p \o q
    <3>. m # 1
      BY <1>1, <1>8
    <3>. QED  BY <1>4
  <2>5. /\ p \o q \in Seq(V) /\ Len(p \o q) = Len(p) + Len(q)
        /\ \A i \in 1 .. Len(p) + Len(q) :
             (p \o q)[i] = IF i <= Len(p) THEN p[i] ELSE q[i - Len(p)]
    BY <2>2, ConcatProperties
  <2>6. b[m + 1] = b[m] + Len(q) /\ b[m] \in Nat
    BY <1>5, <1>6
  <2>. HIDE DEF p, q
  <2>7. Len(g[m]) = b[m + 1]
    BY <2>2, <2>4, <2>5, <2>6
  <2>8. ASSUME NEW i \in 1 .. m, NEW j \in 1 .. Len(s[i])
        PROVE  g[m][b[i] + j] = s[i][j]
    <3>1. i \in 1 .. n /\ Len(s[i]) \in Nat
      BY <1>1, <1>2, <1>6
    <3>2. b[i] \in Nat /\ b[i + 1] \in Nat /\ b[i + 1] = b[i] + Len(s[i]) /\ j \in Nat
      BY <1>5, <3>1
    <3>3. CASE i = m
      <4>1. PICK k \in Nat : k = b[i] + j
        BY <3>2
      <4>2. k \in 1 .. Len(p) + Len(q) /\ ~(k <= Len(p)) /\ k - Len(p) = j
        <5>1. Len(p) = b[i]
          BY <2>2, <3>3, Zenon
        <5>2. Len(q) = Len(s[i])
          BY <3>3, Zenon DEF q
        <5>. DEFINE u == b[i] l == Len(s[i])
        <5>3. u \in Nat /\ l \in Nat /\ j \in 1 .. l /\ k = u + j
          BY <3>1, <3>2, <4>1
        <5>. HIDE DEF u, l
        <5>4. k \in 1 .. u + l /\ ~(k <= u) /\ k - u = j
          BY <5>3
        <5>. QED  BY <5>1, <5>2, <5>4 DEF u, l
      <4>3. (p \o q)[k] = IF k <= Len(p) THEN p[k] ELSE q[k - Len(p)]
        BY <2>5, <4>2, Zenon
      <4>4. g[m][k] = q[k - Len(p)]
        BY <2>4, <4>2, <4>3, Zenon
      <4>. QED  BY <3>3, <4>1, <4>2, <4>4, Zenon DEF q
    <3>4. CASE i # m
      <4>1. i \in 1 .. h /\ i + 1 <= m /\ i + 1 \in 1 .. n + 1
        BY <1>1, <2>1, <3>1, <3>4
      <4>2. b[i + 1] <= b[m]
        BY <1>1, <1>3, <4>1, RisesTo
      <4>3. b[i] + j <= b[i + 1] /\ b[m] \in Nat /\ Len(q) \in Nat /\ Len(p) = b[m]
        BY <2>2, <2>6, <3>1, <3>2
      <4>4. b[i] + j \in 1 .. Len(p) + Len(q) /\ b[i] + j <= Len(p)
        <5>. DEFINE u == b[i] v == b[i + 1] w == b[m] lp == Len(p) lq == Len(q)
        <5>1. u \in Nat /\ j \in Nat /\ j >= 1 /\ v \in Nat /\ w \in Nat /\ lq \in Nat
          BY <3>2, <4>3
        <5>2. v <= w /\ u + j <= v /\ lp = w
          BY <4>2, <4>3
        <5>. HIDE DEF u, v, w, lp, lq
        <5>3. u + j \in 1 .. lp + lq /\ u + j <= lp
          BY <5>1, <5>2
        <5>. QED  BY <5>3 DEF u, lp, lq
      <4>. QED  BY <2>3, <2>4, <2>5, <4>1, <4>4
    <3>. QED  BY <3>3, <3>4
  <2>. QED  BY <2>4, <2>5, <2>7, <2>8 DEF Joined, b
<1>. QED  BY <1>1, <1>7, <1>8

LEMMA FlattenIs ==
  ASSUME NEW V, NEW s \in Seq(Seq(V))
  PROVE  LET f == Seqs!FlattenSeq(s) b == Before(Sizes(s))
         IN /\ f \in Seq(V) /\ Len(f) = SpiSize(Sizes(s))
            /\ \A i \in 1 .. Len(s) : \A j \in 1 .. Len(s[i]) : f[b[i] + j] = s[i][j]
<1>. DEFINE n == Len(s)
            b == Before(Sizes(s))
            flat == Seqs!FlattenSeq(s)
<1>1. n \in Nat /\ Sizes(s) \in Seq(Nat) /\ Len(Sizes(s)) = n
  BY SizesIs
<1>2. b[1] = 0 /\ SpiSize(Sizes(s)) = b[n + 1]
  BY <1>1, BeforeIs
<1>3. CASE n = 0
  <2>1. s = <<>>
    BY <1>3, EmptySeq
  <2>2. flat = <<>>
    BY <1>3, <2>1 DEF Seqs!FlattenSeq
  <2>. QED  BY <1>2, <1>3, <2>2
<1>4. CASE n # 0
  <2>1. PICK f : Joins(f, s, n)
    BY <1>1, JoinsExist
  <2>2. PICK g : Joins(g, s, n) /\ flat = g[n]
    <3>1. f = [i \in 1 .. Len(s) |-> IF i = 1 THEN s[i] ELSE f[i - 1] \o s[i]]
      BY <2>1 DEF Joins
    <3>. DEFINE g == CHOOSE g : g = [i \in 1 .. Len(s) |->
                                       IF i = 1 THEN s[i] ELSE g[i - 1] \o s[i]]
    <3>2. g = [i \in 1 .. Len(s) |-> IF i = 1 THEN s[i] ELSE g[i - 1] \o s[i]]
      BY <3>1, Zenon
    <3>3. flat = g[n]
      BY <1>4, Zenon DEF Seqs!FlattenSeq
    <3>. HIDE DEF g
    <3>. QED  BY <3>2, <3>3 DEF Joins
  <2>. DEFINE S == {m \in Nat : m \in 1 .. n => g[m] \in Seq(V) /\ Joined(g, s, m)}
  <2>3. 0 \in S
    BY <1>1
  <2>4. ASSUME NEW m \in S
        PROVE  m + 1 \in S
    <3>. SUFFICES ASSUME m + 1 \in 1 .. n
                  PROVE  g[m + 1] \in Seq(V) /\ Joined(g, s, m + 1)
      OBVIOUS
    <3>1. m + 1 > 1 => m \in 1 .. n /\ (m + 1) - 1 = m
      BY <1>1
    <3>2. m + 1 > 1 => g[(m + 1) - 1] \in Seq(V) /\ Joined(g, s, (m + 1) - 1)
      BY <3>1
    <3>. QED  BY <2>2, <3>2, JoinStep
  <2>. HIDE DEF S
  <2>5. n \in S
    BY <1>1, <2>3, <2>4, Induct
  <2>6. g[n] \in Seq(V) /\ Joined(g, s, n)
    BY <1>1, <1>4, <2>5 DEF S
  <2>. QED  BY <1>2, <2>2, <2>6 DEF Joined
<1>. QED  BY <1>3, <1>4
-----------------------------------------------------------------------------
(* The byte of a transfer, and where the answer to it goes.                *)

Byte == 0 .. 255

LEMMA InStep ==
  ASSUME NEW u \in Nat, NEW v \in Nat, NEW l \in Nat, v = u + l
  PROVE  /\ \A k \in u .. v - 1 : k - u + 1 \in 1 .. l /\ k = u + (k - u + 1) - 1
         /\ \A j \in 1 .. l : u + j - 1 \in u .. v - 1 /\ u + j \in 1 .. v /\ u + j - 1 < v
OBVIOUS

LEMMA IsSeqOf ==
  ASSUME NEW V, NEW n \in Nat, NEW q \in [1 .. n -> V]
  PROVE  q \in Seq(V) /\ Len(q) = n /\ DOMAIN q = 1 .. n
<1>1. q \in Seq(V)
  BY IsASeq
<1>. QED  BY <1>1, LenProperties

\* The count of the buffers of a list.
LEMMA SizesRise ==
  ASSUME NEW V, NEW s \in Seq(Seq(V))
  PROVE  LET b == Before(Sizes(s)) n == Len(s)
         IN /\ Rises(b, Sizes(s), n) /\ b[1] = 0 /\ SpiSize(Sizes(s)) = b[n + 1]
            /\ b[n + 1] \in Nat /\ n \in Nat
            /\ \A i \in 1 .. n : /\ b[i] \in Nat /\ b[i + 1] \in Nat /\ Len(s[i]) \in Nat
                                /\ b[i + 1] = b[i] + Len(s[i]) /\ b[i + 1] <= b[n + 1]
<1>. DEFINE z == Sizes(s)
            b == Before(z)
            n == Len(s)
<1>1. /\ z \in Seq(Nat) /\ Len(z) = n /\ n \in Nat
      /\ \A i \in 1 .. n : z[i] = Len(s[i]) /\ Len(s[i]) \in Nat
  BY SizesIs
<1>. HIDE DEF z, n
<1>2. Rises(b, z, n) /\ b[1] = 0 /\ SpiSize(z) = b[n + 1]
  BY <1>1, BeforeRises, BeforeIs
<1>. HIDE DEF b
<1>3. n + 1 \in 1 .. n + 1
  BY <1>1
<1>4. b[n + 1] \in Nat
  BY <1>2, <1>3 DEF Rises
<1>5. ASSUME NEW i \in 1 .. n
      PROVE  /\ b[i] \in Nat /\ b[i + 1] \in Nat /\ Len(s[i]) \in Nat
             /\ b[i + 1] = b[i] + Len(s[i]) /\ b[i + 1] <= b[n + 1]
  <2>1. z[i] = Len(s[i]) /\ Len(s[i]) \in Nat
    BY <1>1
  <2>2. b[i] \in Nat /\ b[i + 1] \in Nat /\ b[i + 1] = b[i] + z[i] /\ i + 1 \in 1 .. n + 1
    <3>. n \in Nat /\ Rises(b, z, n)
      BY <1>1, <1>2
    <3>. QED  BY RisesStep
  <2>3. i + 1 <= n + 1
    BY <1>1
  <2>4. b[i + 1] <= b[n + 1]
    BY <1>1, <1>2, <1>3, <2>2, <2>3, RisesTo
  <2>. QED  BY <2>1, <2>2, <2>4
<1>. QED  BY <1>1, <1>2, <1>4, <1>5 DEF z, b, n

\* A byte below the size of the buffers has a buffer and a place in it.
LEMMA PlaceOf ==
  ASSUME NEW z \in Seq(Nat), NEW k \in Nat, k < SpiSize(z)
  PROVE  \E i \in 1 .. Len(z) : \E j \in 1 .. z[i] :
           /\ k = Before(z)[i] + j - 1
           /\ Spot(z, k)[1] = i /\ Spot(z, k)[2] = j
<1>. DEFINE b == Before(z)
            n == Len(z)
<1>1. n \in Nat /\ Rises(b, z, n) /\ b[1] = 0 /\ k < b[n + 1]
  BY BeforeRises, BeforeIs
<1>. HIDE DEF b, n
<1>2. PICK i \in 1 .. n : k \in b[i] .. b[i + 1] - 1
  BY <1>1, StepOf
<1>3. b[i] \in Nat /\ b[i + 1] \in Nat /\ z[i] \in Nat /\ b[i + 1] = b[i] + z[i]
  BY <1>1, RisesStep
<1>. DEFINE j == k - b[i] + 1
<1>4. j \in 1 .. z[i] /\ k = b[i] + j - 1
  BY <1>2, <1>3, InStep
<1>. HIDE DEF j
<1>5. Spot(z, b[i] + j - 1)[1] = i /\ Spot(z, b[i] + j - 1)[2] = j
  BY <1>4, SpotFound DEF b, n
<1>. QED  BY <1>4, <1>5 DEF b, n

LEMMA TxByteIs ==
  ASSUME NEW tx \in Seq(Seq(Byte)), NEW k \in Nat
  PROVE  LET f == Seqs!FlattenSeq(tx)
         IN /\ TxByte(tx, k) = IF k < Len(f) THEN f[k + 1] ELSE Filler
            /\ TxByte(tx, k) \in Byte
<1>. DEFINE f == Seqs!FlattenSeq(tx)
            z == Sizes(tx)
            b == Before(z)
            spot == Spot(z, k)
<1>1. /\ z \in Seq(Nat) /\ Len(z) = Len(tx)
      /\ \A i \in 1 .. Len(tx) : tx[i] \in Seq(Byte) /\ z[i] = Len(tx[i])
  BY SizesIs
<1>2. /\ f \in Seq(Byte) /\ Len(f) = SpiSize(z)
      /\ \A i \in 1 .. Len(tx) : \A j \in 1 .. Len(tx[i]) : f[b[i] + j] = tx[i][j]
  BY FlattenIs
<1>3. TxByte(tx, k) = IF spot[1] = 0 THEN Filler ELSE tx[spot[1]][spot[2]]
  BY DEF TxByte
<1>. HIDE DEF z, b, f, spot
<1>4. Len(tx) \in Nat /\ Len(f) \in Nat /\ SpiSize(z) \in Nat
  BY <1>2, LenProperties
<1>5. CASE k < SpiSize(z)
  <2>0. PICK i \in 1 .. Len(z) : \E j \in 1 .. z[i] :
          k = b[i] + j - 1 /\ spot[1] = i /\ spot[2] = j
    BY <1>1, <1>5, PlaceOf DEF spot, b
  <2>1. PICK j \in 1 .. z[i] : k = b[i] + j - 1 /\ spot[1] = i /\ spot[2] = j
    BY <2>0
  <2>2. i \in 1 .. Len(tx) /\ j \in 1 .. Len(tx[i]) /\ i # 0
    BY <1>1, <1>4, <2>1
  <2>3. TxByte(tx, k) = tx[i][j] /\ f[b[i] + j] = tx[i][j]
    BY <1>2, <1>3, <2>1, <2>2
  <2>4. tx[i][j] \in Byte
    BY <1>1, <2>2, ElementOfSeq
  <2>5. b[i] \in Nat /\ j \in Nat
    <3>. i \in 1 .. Len(z) + 1
      BY <1>1, <1>4, <2>2
    <3>1. b[i] \in Nat
      BY <1>1, BeforeIs DEF b
    <3>2. Len(tx[i]) \in Nat
      BY <1>1, <2>2, LenProperties
    <3>. QED  BY <3>1, <3>2, <2>2
  <2>6. b[i] + j = k + 1
    BY <2>1, <2>5
  <2>. QED  BY <1>2, <1>5, <2>3, <2>4, <2>6 DEF f
<1>6. CASE ~(k < SpiSize(z))
  <2>1. spot[1] = 0
    BY <1>1, <1>4, <1>6, SpotNone DEF spot
  <2>. QED  BY <1>2, <1>3, <1>6, <2>1 DEF f, Filler, Byte
<1>. QED  BY <1>5, <1>6

\* A byte that arrives goes to its place and nowhere else.
PutInto(rx, r, z, k, v) ==
  \A i \in 1 .. Len(rx) : \A j \in 1 .. Len(rx[i]) :
    r[i][j] = IF Before(z)[i] + j - 1 = k THEN v ELSE rx[i][j]

LEMMA RxByteIs ==
  ASSUME NEW V, NEW rx \in Seq(Seq(V)), NEW z, Sizes(rx) = z, NEW k \in Nat, NEW v \in V
  PROVE  /\ RxByte(rx, k, v) \in Seq(Seq(V)) /\ Sizes(RxByte(rx, k, v)) = z
         /\ PutInto(rx, RxByte(rx, k, v), z, k, v)
<1>. DEFINE b == Before(z)
            n == Len(rx)
            spot == Spot(z, k)
            r == RxByte(rx, k, v)
<1>1. /\ z \in Seq(Nat) /\ Len(z) = n /\ n \in Nat
      /\ \A i \in 1 .. n : rx[i] \in Seq(V) /\ z[i] = Len(rx[i]) /\ Len(rx[i]) \in Nat
  BY SizesIs
<1>2. r = IF spot[1] = 0 THEN rx
          ELSE [rx EXCEPT ![spot[1]] = [rx[spot[1]] EXCEPT ![spot[2]] = v]]
  BY DEF RxByte
<1>3. Rises(b, z, n) /\ SpiSize(z) = b[n + 1] /\ SpiSize(z) \in Nat
  BY SizesRise
<1>4. rx \in [1 .. n -> Seq(V)] /\ DOMAIN rx = 1 .. n
  BY LenProperties
<1>. HIDE DEF b, n, r, spot
<1>5. \A i \in 1 .. n : /\ b[i] \in Nat /\ b[i + 1] \in Nat /\ Len(rx[i]) \in Nat
                       /\ b[i + 1] = b[i] + Len(rx[i]) /\ b[i + 1] <= b[n + 1]
  BY SizesRise DEF b, n
<1>6. CASE k < SpiSize(z)
  <2>0. PICK i \in 1 .. n : \E j \in 1 .. z[i] :
          k = b[i] + j - 1 /\ spot[1] = i /\ spot[2] = j
    <3>1. \E i \in 1 .. Len(z) : \E j \in 1 .. z[i] :
            k = Before(z)[i] + j - 1 /\ Spot(z, k)[1] = i /\ Spot(z, k)[2] = j
      <4>1. z \in Seq(Nat)
        BY <1>1
      <4>. QED  BY <4>1, <1>6, PlaceOf
    <3>. QED  BY <1>1, <3>1 DEF spot, b
  <2>1. PICK j \in 1 .. z[i] : k = b[i] + j - 1 /\ spot[1] = i /\ spot[2] = j
    BY <2>0
  <2>. DEFINE q == [rx[i] EXCEPT ![j] = v]
  <2>2. r = [rx EXCEPT ![i] = q]
    BY <1>1, <1>2, <2>1
  <2>3. /\ rx[i] \in Seq(V) /\ j \in 1 .. Len(rx[i])
        /\ rx[i] \in [1 .. Len(rx[i]) -> V] /\ Len(rx[i]) \in Nat
    BY <1>1, <2>1, LenProperties
  <2>4. q \in [1 .. Len(rx[i]) -> V] /\ q[j] = v
        /\ \A m \in 1 .. Len(rx[i]) : m # j => q[m] = rx[i][m]
    BY <2>3
  <2>. HIDE DEF q
  <2>5. q \in Seq(V) /\ Len(q) = Len(rx[i])
    BY <2>3, <2>4, IsSeqOf
  <2>6. r \in [1 .. n -> Seq(V)] /\ r[i] = q /\ \A h \in 1 .. n : h # i => r[h] = rx[h]
    BY <1>4, <2>2, <2>5
  <2>7. r \in Seq(Seq(V)) /\ Len(r) = n /\ DOMAIN r = 1 .. n
    BY <1>1, <2>6, IsSeqOf
  <2>8. Sizes(r) = Sizes(rx)
    <3>1. \A h \in 1 .. n : Len(r[h]) = Len(rx[h])
      BY <2>5, <2>6
    <3>. QED  BY <1>4, <2>7, <3>1 DEF Sizes
  <2>9. ASSUME NEW h \in 1 .. n, NEW m \in 1 .. Len(rx[h])
        PROVE  r[h][m] = IF b[h] + m - 1 = k THEN v ELSE rx[h][m]
    <3>1. b[h] \in Nat /\ b[h + 1] \in Nat /\ b[h + 1] = b[h] + Len(rx[h]) /\ m \in Nat
          /\ Len(rx[h]) \in Nat
      BY <1>1, <1>5
    <3>2. CASE b[h] + m - 1 = k
      <4>1. k \in b[h] .. b[h + 1] - 1
        BY <3>1, <3>2, InStep
      <4>2. k \in b[i] .. b[i + 1] - 1
        BY <1>5, <2>1, <2>3, InStep
      <4>3. h = i
        BY <1>1, <1>3, <4>1, <4>2, StepUnique
      <4>4. m = j
        <5>. DEFINE u == b[i]
        <5>1. u \in Nat /\ u + m - 1 = k /\ u + j - 1 = k
          BY <1>5, <2>1, <3>2, <4>3
        <5>2. m \in Int /\ j \in Int
          BY <2>3, <3>1
        <5>. HIDE DEF u
        <5>. QED  BY <5>1, <5>2
      <4>. QED  BY <2>4, <2>6, <3>2, <4>3, <4>4
    <3>3. CASE b[h] + m - 1 # k
      <4>1. ~(h = i /\ m = j)
        BY <2>1, <3>3
      <4>. QED  BY <2>4, <2>6, <3>3, <4>1
    <3>. QED  BY <3>2, <3>3
  <2>. QED  BY <1>1, <2>7, <2>8, <2>9 DEF n, b, r, PutInto
<1>7. CASE ~(k < SpiSize(z))
  <2>1. r = rx
    BY <1>1, <1>2, <1>3, <1>7, SpotNone DEF spot
  <2>2. ASSUME NEW h \in 1 .. n, NEW m \in 1 .. Len(rx[h])
        PROVE  b[h] + m - 1 # k
    <3>1. b[h] \in Nat /\ b[h + 1] \in Nat /\ b[h + 1] = b[h] + Len(rx[h])
          /\ m \in Nat /\ Len(rx[h]) \in Nat
      BY <1>1, <1>5
    <3>2. b[h + 1] <= b[n + 1]
      BY <1>5
    <3>3. b[h] + m - 1 < b[h + 1] /\ b[h] + m - 1 \in Int
      BY <3>1, InStep
    <3>. QED  BY <1>3, <1>7, <3>1, <3>2, <3>3
  <2>. QED  BY <1>1, <2>1, <2>2 DEF n, b, r, PutInto
<1>. QED  BY <1>6, <1>7
-----------------------------------------------------------------------------
(* A transfer's answers.                                                   *)

\* The bytes up to index are answered, each in its place.
Answers == (Slaves \cup {Open}) \X Byte
Answered(x, to, rx, index) ==
  /\ rx \in Seq(Seq(Answers)) /\ Sizes(rx) = x.rx
  /\ \A i \in 1 .. Len(rx) : \A j \in 1 .. Len(rx[i]) :
       LET k == Before(x.rx)[i] + j - 1
       IN k < index => rx[i][j] = <<to, TxByte(x.tx, k)>>

\* Its buffers, joined, are the slave's answers to the bytes it has sent.
RightOf(x, to, rx) ==
  LET sent == Seqs!FlattenSeq(x.tx)
      r == Seqs!FlattenSeq(rx)
  IN \A i \in DOMAIN r :
       r[i] = <<to, IF i <= Len(sent) THEN sent[i] ELSE Filler>>

LEMMA TransferIs ==
  ASSUME NEW x \in Transfers
  PROVE  /\ x.tx \in Seq(Seq(Byte)) /\ x.rx \in Seq(Nat)
         /\ TransferLen(x) \in Nat /\ TransferLen(x) >= SpiSize(x.rx) /\ SpiSize(x.rx) \in Nat
<1>1. x.tx \in Seq(Seq(Byte)) /\ x.rx \in Seq(Nat)
  BY DriversAssumption DEF Byte
<1>2. SpiSize(Sizes(x.tx)) \in Nat
  BY <1>1, SizesRise
<1>3. SpiSize(x.rx) \in Nat
  <2>1. Len(x.rx) + 1 \in 1 .. Len(x.rx) + 1
    BY <1>1, BeforeIs
  <2>. QED  BY <1>1, <2>1, BeforeIs
<1>. DEFINE t == SpiSize(Sizes(x.tx))
            r == SpiSize(x.rx)
<1>4. TransferLen(x) = IF t > r THEN t ELSE r
  BY DEF TransferLen
<1>. HIDE DEF t, r
<1>5. TransferLen(x) \in Nat /\ TransferLen(x) >= r
  BY <1>2, <1>3, <1>4 DEF t, r
<1>. QED  BY <1>1, <1>3, <1>5 DEF r

LEMMA IsAnswer ==
  ASSUME NEW to \in Slaves \cup {Open}, NEW v \in Byte
  PROVE  <<to, v>> \in Answers
BY Zenon DEF Answers

LEMMA BuffersAnswered ==
  ASSUME NEW x \in Transfers, NEW to
  PROVE  Answered(x, to, Buffers(x.rx), 0)
<1>. DEFINE z == x.rx
            rx == Buffers(z)
            n == Len(z)
<1>1. z \in Seq(Nat) /\ n \in Nat /\ \A i \in 1 .. n : z[i] \in Nat
  BY TransferIs, BeforeIs
<1>2. DOMAIN z = 1 .. n
  BY <1>1, LenProperties
<1>3. Blank \in Answers
  <2>1. Filler \in Byte /\ Open \in Slaves \cup {Open}
    BY DEF Filler, Byte
  <2>2. <<Open, Filler>> \in Answers
    BY <2>1, IsAnswer
  <2>. QED  BY <2>2 DEF Blank
<1>. HIDE DEF z, n
<1>4. rx = [i \in 1 .. n |-> [j \in 1 .. z[i] |-> Blank]]
  BY <1>2 DEF Buffers
<1>5. \A i \in 1 .. n : rx[i] \in Seq(Answers) /\ Len(rx[i]) = z[i]
  <2>. TAKE i \in 1 .. n
  <2>. DEFINE q == [j \in 1 .. z[i] |-> Blank]
  <2>1. q \in [1 .. z[i] -> Answers] /\ z[i] \in Nat
    BY <1>1, <1>3
  <2>2. rx[i] = q
    BY <1>4
  <2>. HIDE DEF q
  <2>. QED  BY <2>1, <2>2, IsSeqOf
<1>. HIDE DEF rx
<1>6. rx \in [1 .. n -> Seq(Answers)]
  BY <1>4, <1>5
<1>7. rx \in Seq(Seq(Answers)) /\ Len(rx) = n /\ DOMAIN rx = 1 .. n
  BY <1>1, <1>6, IsSeqOf
<1>8. Sizes(rx) = z
  <2>1. Sizes(rx) = [i \in 1 .. n |-> Len(rx[i])]
    BY <1>7 DEF Sizes
  <2>2. z = [i \in 1 .. n |-> z[i]]
    BY <1>1, <1>2, LenProperties
  <2>. QED  BY <1>5, <2>1, <2>2
<1>9. ASSUME NEW i \in 1 .. Len(rx), NEW j \in 1 .. Len(rx[i])
      PROVE  ~(Before(z)[i] + j - 1 < 0)
  <2>1. Before(z)[i] \in Nat /\ Len(rx[i]) \in Nat
    BY <1>7, <1>8, SizesRise
  <2>. DEFINE u == Before(z)[i]
              l == Len(rx[i])
  <2>2. u \in Nat /\ l \in Nat /\ j \in 1 .. l
    BY <2>1
  <2>. HIDE DEF u, l
  <2>3. ~(u + j - 1 < 0)
    BY <2>2
  <2>. QED  BY <2>3 DEF u
<1>. QED  BY <1>7, <1>8, <1>9 DEF Answered, z, rx

LEMMA PlaceIn ==
  ASSUME NEW z \in Seq(Nat), NEW k \in Nat, k < SpiSize(z)
  PROVE  \E i \in 1 .. Len(z) : \E j \in 1 .. z[i] : k = Before(z)[i] + j - 1
BY PlaceOf

\* The answer to the next byte adds to those that have come.
LEMMA AnswerCounts ==
  ASSUME NEW x \in Transfers, NEW to \in Slaves \cup {Open}, NEW index \in Nat, NEW rx,
         Answered(x, to, rx, index), NEW data
  PROVE  data = <<to, TxByte(x.tx, index)>> =>
           Answered(x, to, RxByte(rx, index, data), index + 1)
<1>a. SUFFICES ASSUME data = <<to, TxByte(x.tx, index)>>
               PROVE  Answered(x, to, RxByte(rx, index, data), index + 1)
  OBVIOUS
<1>. DEFINE b == Before(x.rx)
            r == RxByte(rx, index, data)
            Answer(k) == <<to, TxByte(x.tx, k)>>
<1>1. rx \in Seq(Seq(Answers)) /\ Sizes(rx) = x.rx
  BY DEF Answered
<1>2. data \in Answers
  BY <1>a, TransferIs, TxByteIs, IsAnswer
<1>3. /\ r \in Seq(Seq(Answers)) /\ Sizes(r) = x.rx
      /\ \A i \in 1 .. Len(rx) : \A j \in 1 .. Len(rx[i]) :
           r[i][j] = IF b[i] + j - 1 = index THEN data ELSE rx[i][j]
  <2>1. /\ RxByte(rx, index, data) \in Seq(Seq(Answers)) /\ Sizes(RxByte(rx, index, data)) = x.rx
        /\ PutInto(rx, RxByte(rx, index, data), x.rx, index, data)
    BY <1>1, <1>2, RxByteIs
  <2>. QED  BY <2>1 DEF PutInto
<1>4. \A i \in 1 .. Len(rx) : \A j \in 1 .. Len(rx[i]) :
        b[i] + j - 1 < index => rx[i][j] = Answer(b[i] + j - 1)
  BY DEF Answered
<1>5. Len(r) = Len(rx) /\ Len(rx) \in Nat
      /\ \A i \in 1 .. Len(rx) : Len(r[i]) = Len(rx[i]) /\ b[i] \in Nat /\ Len(rx[i]) \in Nat
  <2>1. Len(r) = Len(Sizes(r)) /\ Len(rx) = Len(Sizes(rx)) /\ Len(rx) \in Nat
    BY <1>1, <1>3, SizesIs
  <2>2. \A i \in 1 .. Len(rx) : Sizes(r)[i] = Len(r[i]) /\ Sizes(rx)[i] = Len(rx[i])
    BY <1>1, <1>3, <2>1, SizesIs
  <2>3. \A i \in 1 .. Len(rx) : b[i] \in Nat /\ Len(rx[i]) \in Nat
    BY <1>1, SizesRise
  <2>. QED  BY <1>1, <1>3, <2>1, <2>2, <2>3
<1>. HIDE DEF b, r, Answer
<1>6. ASSUME NEW i \in 1 .. Len(r), NEW j \in 1 .. Len(r[i]), b[i] + j - 1 < index + 1
      PROVE  r[i][j] = Answer(b[i] + j - 1)
  <2>1. i \in 1 .. Len(rx) /\ j \in 1 .. Len(rx[i])
    BY <1>5
  <2>2. PICK k \in Int : k = b[i] + j - 1
    <3>. b[i] \in Nat /\ Len(rx[i]) \in Nat
      BY <1>5, <2>1
    <3>. QED  BY <2>1
  <2>3. r[i][j] = IF k = index THEN data ELSE rx[i][j]
    BY <1>3, <2>1, <2>2
  <2>4. k < index => rx[i][j] = Answer(k)
    BY <1>4, <2>1, <2>2
  <2>5. k < index \/ k = index
    BY <1>6, <2>2
  <2>6. r[i][j] = Answer(k)
    BY <1>a, <2>3, <2>4, <2>5 DEF Answer
  <2>. QED  BY <2>2, <2>6
<1>. QED  BY <1>3, <1>6 DEF Answered, b, r, Answer

\* When every byte has been answered the buffers are right.
LEMMA AllAnswered ==
  ASSUME NEW x \in Transfers, NEW to, NEW rx, NEW index \in Nat,
         Answered(x, to, rx, index), index >= SpiSize(x.rx)
  PROVE  RightOf(x, to, rx)
<1>. DEFINE z == x.rx
            sent == Seqs!FlattenSeq(x.tx)
            f == Seqs!FlattenSeq(rx)
            b == Before(z)
<1>1. rx \in Seq(Seq(Answers)) /\ Sizes(rx) = z /\ z \in Seq(Nat)
  BY TransferIs DEF Answered
<1>2. /\ f \in Seq(Answers) /\ Len(f) = SpiSize(z)
      /\ \A i \in 1 .. Len(rx) : \A j \in 1 .. Len(rx[i]) : f[b[i] + j] = rx[i][j]
  BY <1>1, FlattenIs
<1>3. DOMAIN f = 1 .. SpiSize(z) /\ SpiSize(z) \in Nat
  BY <1>2, LenProperties
<1>4. /\ Len(z) = Len(rx)
      /\ \A i \in 1 .. Len(rx) : z[i] = Len(rx[i]) /\ Len(rx[i]) \in Nat /\ b[i] \in Nat
  <2>1. Len(Sizes(rx)) = Len(rx) /\ \A i \in 1 .. Len(rx) : Sizes(rx)[i] = Len(rx[i])
    BY <1>1, SizesIs
  <2>2. \A i \in 1 .. Len(rx) : Before(Sizes(rx))[i] \in Nat /\ Len(rx[i]) \in Nat
    BY <1>1, SizesRise
  <2>. HIDE DEF z
  <2>. QED  BY <1>1, <2>1, <2>2
<1>5. \A i \in 1 .. Len(rx) : \A j \in 1 .. Len(rx[i]) :
        b[i] + j - 1 < index => rx[i][j] = <<to, TxByte(x.tx, b[i] + j - 1)>>
  BY DEF Answered
<1>6. \A k \in Nat : TxByte(x.tx, k) = IF k < Len(sent) THEN sent[k + 1] ELSE Filler
  BY TransferIs, TxByteIs
<1>7. Len(sent) \in Nat
  <2>1. sent \in Seq(Byte)
    BY TransferIs, FlattenIs
  <2>. QED  BY <2>1, LenProperties
<1>. HIDE DEF z, sent, f, b
<1>8. ASSUME NEW m \in DOMAIN f
      PROVE  f[m] = <<to, IF m <= Len(sent) THEN sent[m] ELSE Filler>>
  <2>1. PICK k \in Nat : m = k + 1 /\ k < SpiSize(z) /\ k < index
    <3>. m - 1 \in Nat /\ m = (m - 1) + 1 /\ m - 1 < SpiSize(z) /\ m - 1 < index
      BY <1>3, <1>8 DEF z
    <3>. QED  OBVIOUS
  <2>2. PICK i \in 1 .. Len(z) : \E j \in 1 .. z[i] : k = b[i] + j - 1
    BY <1>1, <2>1, PlaceIn DEF b
  <2>3. PICK j \in 1 .. z[i] : k = b[i] + j - 1
    BY <2>2
  <2>4. i \in 1 .. Len(rx) /\ j \in 1 .. Len(rx[i]) /\ b[i] \in Nat
    BY <1>4
  <2>5. b[i] + j = m
    <3>. j \in Int
      BY <1>4, <2>4
    <3>. QED  BY <2>1, <2>3, <2>4
  <2>6. f[m] = rx[i][j]
    BY <1>2, <2>4, <2>5
  <2>7. rx[i][j] = <<to, TxByte(x.tx, k)>>
    BY <1>5, <2>1, <2>3, <2>4
  <2>8. TxByte(x.tx, k) = IF m <= Len(sent) THEN sent[m] ELSE Filler
    BY <1>6, <1>7, <2>1
  <2>. QED  BY <2>6, <2>7, <2>8
<1>. QED  BY <1>8 DEF RightOf, f, sent
-----------------------------------------------------------------------------
(* The inductive invariant of transfers: who is in a call of the SPI is    *)
(* alone with it; the buffers of a transfer under way hold the answers to  *)
(* its first index bytes, and the next byte is on the wire, or its answer  *)
(* is in the data register; and the last transfer is as it should be.      *)

\* A transfer that has begun, and what it waits for.
Underway(s) == /\ s.x \in Accepted /\ s.to \in Slaves /\ s.ss = s.to
               /\ s.index \in Nat /\ s.index < TransferLen(s.x)
               /\ Answered(s.x, s.to, s.rx, s.index)
Awaits(s) == \/ s.busy /\ s.out = TxByte(s.x.tx, s.index)
             \/ ~s.busy /\ s.data = <<s.to, TxByte(s.x.tx, s.index)>>
LastRight(s) == RightOf(s.last.x, s.last.to, s.last.rx)

SpiProtocol ==
  /\ spi0.done => ~spi0.busy
  /\ spi0.then \in Accepted \cup {NoCall}
  /\ spi0.active => /\ Underway(spi0) /\ Awaits(spi0)
                    /\ \A a \in Apps : at[a] = "idle"
  /\ ~spi0.active /\ (\A a \in Apps : at[a] # "poll") => ~spi0.busy
  /\ \A a \in Apps : at[a] \in {"setup", "send", "poll"} =>
       Alone(a) /\ call[a].x \in Accepted /\ call[a].slave \in Slaves
  /\ \A a \in Apps : at[a] \in {"send", "poll"} => Underway(spi0) /\ spi0.x = call[a].x
  /\ \A a \in Apps : at[a] = "poll" => Awaits(spi0)
  /\ LastRight(spi0)

LEMMA AcceptedIs ==
  ASSUME NEW x \in Accepted
  PROVE  x \in Transfers /\ TransferLen(x) \in Nat /\ TransferLen(x) > 0
BY TransferIs DEF Accepted

\* What a transfer begins with.
LEMMA BeginsUnderway ==
  ASSUME NEW x \in Accepted, NEW slave \in Slaves, NEW r,
         r.x = x, r.to = slave, r.ss = slave, r.index = 0, r.rx = Buffers(x.rx)
  PROVE  Underway(r)
<1>1. x \in Transfers /\ TransferLen(x) \in Nat /\ TransferLen(x) > 0
  BY AcceptedIs
<1>2. Answered(x, slave, Buffers(x.rx), 0)
  BY <1>1, BuffersAnswered
<1>. QED  BY <1>1, <1>2 DEF Underway

LEMMA StartAsyncIs ==
  ASSUME NEW s, s \in SpiType(s), ~s.busy, NEW x \in Accepted, NEW slave \in Slaves,
         NEW then, NEW r, r = StartAsync(s, x, slave, then)
  PROVE  /\ r.active /\ Underway(r) /\ Awaits(r)
         /\ r.then = then /\ ~r.done /\ r.last = s.last
<1>. DEFINE b == Buffers(x.rx)
            o == TxByte(x.tx, 0)
            p == [s EXCEPT !.x = x, !.rx = b, !.index = 0, !.to = slave]
            q == [p EXCEPT !.active = TRUE, !.then = then, !.irqEn = TRUE, !.ss = slave]
            t == [q EXCEPT !.busy = TRUE, !.done = FALSE, !.out = o]
<1>1. r = IF q.busy THEN q ELSE t
  BY Zenon DEF StartAsync, Prepared, Transmits
<1>. HIDE DEF b, o
<1>2. /\ p \in SpiType(p) /\ ~p.busy /\ p.x = x /\ p.rx = b /\ p.index = 0
      /\ p.to = slave /\ p.last = s.last
  BY DEF SpiType
<1>. HIDE DEF p
<1>3. /\ q \in SpiType(q) /\ ~q.busy /\ q.x = x /\ q.rx = b /\ q.index = 0
      /\ q.to = slave /\ q.last = s.last /\ q.active /\ q.then = then /\ q.ss = slave
  BY <1>2 DEF SpiType
<1>. HIDE DEF q
<1>4. /\ t.busy /\ ~t.done /\ t.out = o /\ t.x = x /\ t.rx = b /\ t.index = 0
      /\ t.to = slave /\ t.last = s.last /\ t.active /\ t.then = then /\ t.ss = slave
  BY <1>3 DEF SpiType
<1>. HIDE DEF t
<1>5. r = t
  BY <1>1, <1>3
<1>6. Underway(t)
  BY <1>4, BeginsUnderway DEF b
<1>7. Awaits(t)
  BY <1>4 DEF Awaits, o
<1>. QED  BY <1>4, <1>5, <1>6, <1>7

\* The answer to a byte is in: one byte more is answered.
LEMMA OneMore ==
  ASSUME NEW s, Underway(s), Awaits(s), ~s.busy, NEW r,
         r.x = s.x, r.to = s.to, r.ss = s.ss, r.index = s.index + 1,
         r.rx = RxByte(s.rx, s.index, s.data)
  PROVE  /\ Answered(r.x, r.to, r.rx, r.index) /\ r.index \in Nat
         /\ r.index # TransferLen(r.x) => Underway(r)
         /\ r.index = TransferLen(r.x) => RightOf(r.x, r.to, r.rx)
<1>1. s.x \in Transfers /\ s.x \in Accepted /\ TransferLen(s.x) \in Nat /\ s.index \in Nat
      /\ s.to \in Slaves \cup {Open} /\ s.to \in Slaves /\ s.index < TransferLen(s.x)
  BY AcceptedIs DEF Underway
<1>2. s.data = <<s.to, TxByte(s.x.tx, s.index)>>
  BY Zenon DEF Awaits
<1>3. Answered(s.x, s.to, s.rx, s.index)
  BY DEF Underway
<1>4. Answered(s.x, s.to, RxByte(s.rx, s.index, s.data), s.index + 1)
  BY <1>1, <1>2, <1>3, AnswerCounts
<1>5. Answered(r.x, r.to, r.rx, r.index) /\ r.index \in Nat
  BY <1>1, <1>4
<1>6. r.index # TransferLen(r.x) => Underway(r)
  <2>. SUFFICES ASSUME r.index # TransferLen(r.x) PROVE Underway(r)
    OBVIOUS
  <2>1. r.index < TransferLen(r.x)
    BY <1>1
  <2>. QED  BY <1>1, <1>5, <2>1 DEF Underway
<1>7. r.index = TransferLen(r.x) => RightOf(r.x, r.to, r.rx)
  BY <1>1, <1>5, TransferIs, AllAnswered
<1>. QED  BY <1>5, <1>6, <1>7

LEMMA OverIs ==
  ASSUME NEW s, s \in SpiType(s), NEW r, r = Over(s), RightOf(s.x, s.to, s.rx)
  PROVE  /\ LastRight(r) /\ r \in SpiType(r) /\ r.to = s.to /\ r.then = s.then
         /\ r.busy = s.busy /\ r.active = s.active /\ r.done = s.done
<1>. DEFINE l == [x |-> s.x, to |-> s.to, rx |-> s.rx]
            o == [s EXCEPT !.ss = Open, !.last = l]
<1>1. r = o
  BY DEF Over
<1>2. l.x = s.x /\ l.to = s.to /\ l.rx = s.rx
  OBVIOUS
<1>. HIDE DEF l
<1>3. /\ o.last = l /\ o \in SpiType(o) /\ o.to = s.to /\ o.then = s.then
      /\ o.busy = s.busy /\ o.active = s.active /\ o.done = s.done
  BY DEF SpiType
<1>. HIDE DEF o
<1>. QED  BY <1>1, <1>2, <1>3 DEF LastRight

LEMMA CompletedIs ==
  ASSUME NEW s, s \in SpiType(s), ~s.busy, ~s.done, s.to \in Slaves,
         s.then \in Accepted \cup {NoCall},
         RightOf(s.x, s.to, s.rx), NEW r, r = Completed(s)
  PROVE  /\ LastRight(r) /\ ~r.done
         /\ r.then \in Accepted \cup {NoCall}
         /\ r.active => Underway(r) /\ Awaits(r)
         /\ ~r.active => ~r.busy
<1>. DEFINE o == Over(s)
            i == [o EXCEPT !.active = FALSE, !.then = NoCall]
<1>1. r = IF s.then = NoCall THEN i ELSE StartAsync(i, s.then, s.to, NoCall)
  BY DEF Completed
<1>2. LastRight(o) /\ o \in SpiType(o) /\ o.to = s.to /\ ~o.busy /\ ~o.done
  BY OverIs
<1>. HIDE DEF o
<1>. DEFINE n == NoCall
<1>3. /\ i \in SpiType(i) /\ ~i.busy /\ ~i.done /\ ~i.active /\ i.then = NoCall
      /\ i.last = o.last
  <2>. HIDE DEF n
  <2>. QED  BY <1>2 DEF SpiType
<1>. HIDE DEF i
<1>4. LastRight(i)
  BY <1>2, <1>3 DEF LastRight
<1>5. CASE s.then = NoCall
  BY <1>1, <1>3, <1>4, <1>5
<1>6. CASE s.then # NoCall
  <2>1. s.then \in Accepted /\ r = StartAsync(i, s.then, s.to, NoCall)
    BY <1>1, <1>6
  <2>2. /\ r.active /\ Underway(r) /\ Awaits(r)
        /\ r.then = NoCall /\ ~r.done /\ r.last = i.last
    BY <1>3, <2>1, StartAsyncIs
  <2>. QED  BY <1>4, <2>2 DEF LastRight
<1>. QED  BY <1>5, <1>6
-----------------------------------------------------------------------------
(* Steps that move no call.                                                *)

\* What a step leaves to be shown when no call moves.
LEMMA NoCallMoves ==
  ASSUME SpiProtocol, at' = at, call' = call,
         spi0'.done => ~spi0'.busy,
         spi0'.then \in Accepted \cup {NoCall},
         spi0'.active => /\ Underway(spi0') /\ Awaits(spi0')
                         /\ \A a \in Apps : at[a] = "idle",
         ~spi0'.active /\ (\A a \in Apps : at[a] # "poll") => ~spi0'.busy,
         \A a \in Apps : at[a] \in {"send", "poll"} => Underway(spi0') /\ spi0'.x = spi0.x,
         \A a \in Apps : at[a] = "poll" => Awaits(spi0'),
         LastRight(spi0')
  PROVE  SpiProtocol'
<1>1. \A a \in Apps : at[a] \in {"setup", "send", "poll"} =>
        Alone(a)' /\ call'[a].x \in Accepted /\ call'[a].slave \in Slaves
  BY DEF SpiProtocol, Alone
<1>2. \A a \in Apps : at[a] \in {"send", "poll"} => spi0'.x = call'[a].x
  BY DEF SpiProtocol
<1>3. Underway(spi0)' = Underway(spi0') /\ Awaits(spi0)' = Awaits(spi0')
      /\ LastRight(spi0)' = LastRight(spi0')
  BY DEF Underway, Awaits, LastRight, Answered, RightOf
<1>. QED  BY <1>1, <1>2, <1>3 DEF SpiProtocol

LEMMA AsyncProtocol ==
  ASSUME SpiShape, SpiProtocol, NEW a \in Apps, Async(a), Alone(a)
  PROVE  SpiProtocol'
<1>1. spi0 \in SpiType(spi0) /\ \A b \in Apps : at[b] = "idle"
  BY DEF SpiShape, Async, Idle, Alone
<1>2. ~spi0.active /\ ~spi0.busy /\ LastRight(spi0)
  BY <1>1 DEF SpiProtocol, Async
<1>3. PICK x \in Accepted, slave \in Slaves, then \in Accepted \cup {NoCall} :
        spi0' = StartAsync(spi0, x, slave, then)
  BY DEF Async
<1>4. /\ spi0'.active /\ Underway(spi0') /\ Awaits(spi0')
      /\ spi0'.then = then /\ ~spi0'.done /\ spi0'.last = spi0.last
  BY <1>1, <1>2, <1>3, StartAsyncIs
<1>5. LastRight(spi0')
  BY <1>2, <1>4 DEF LastRight
<1>6. at' = at /\ call' = call
  BY DEF Async
<1>. QED  BY <1>1, <1>4, <1>5, <1>6, NoCallMoves

LEMMA InterruptProtocol ==
  ASSUME SpiShape, SpiProtocol, SpiInterrupt
  PROVE  SpiProtocol'
<1>1. at' = at /\ call' = call /\ spi0' = SpiServes
  BY DEF SpiInterrupt
<1>2. CASE ~spi0.active \/ ~spi0.done
  <2>1. spi0' = spi0
    BY <1>1, <1>2 DEF SpiServes
  <2>. QED  BY <1>1, <2>1, NoCallMoves DEF SpiProtocol
<1>3. CASE spi0.active /\ spi0.done
  <2>. DEFINE rx == RxByte(spi0.rx, spi0.index, spi0.data)
              s == [spi0 EXCEPT !.done = FALSE, !.index = @ + 1, !.rx = rx]
              o == TxByte(s.x.tx, s.index)
              t == [s EXCEPT !.busy = TRUE, !.done = FALSE, !.out = o]
  <2>1. spi0' = IF s.index = TransferLen(s.x) THEN Completed(s) ELSE Transmits(s, o)
    BY <1>1, <1>3 DEF SpiServes
  <2>2. /\ ~spi0.busy /\ Underway(spi0) /\ Awaits(spi0) /\ spi0.then \in Accepted \cup {NoCall}
        /\ LastRight(spi0) /\ spi0 \in SpiType(spi0) /\ \A a \in Apps : at[a] = "idle"
    BY <1>3 DEF SpiProtocol, SpiShape
  <2>. HIDE DEF rx
  <2>3. /\ s.x = spi0.x /\ s.to = spi0.to /\ s.ss = spi0.ss /\ s.index = spi0.index + 1
        /\ s.rx = rx /\ ~s.busy /\ ~s.done /\ s.active /\ s.then = spi0.then
        /\ s.last = spi0.last /\ s \in SpiType(s)
    <3>1. spi0.index + 1 \in Nat
      BY <2>2 DEF Underway
    <3>. DEFINE i == spi0.index + 1
    <3>. HIDE DEF i
    <3>2. i \in Nat
      BY <3>1 DEF i
    <3>. DEFINE z == [spi0 EXCEPT !.done = FALSE, !.index = i, !.rx = rx]
    <3>3. /\ z.x = spi0.x /\ z.to = spi0.to /\ z.ss = spi0.ss /\ z.index = i
          /\ z.rx = rx /\ ~z.busy /\ ~z.done /\ z.active /\ z.then = spi0.then
          /\ z.last = spi0.last /\ z \in SpiType(z)
      BY <1>3, <2>2, <3>2 DEF SpiType
    <3>4. s = z
      BY DEF i
    <3>. HIDE DEF z, s
    <3>. QED  BY <3>3, <3>4 DEF i
  <2>. HIDE DEF s, o
  <2>4. /\ s.index # TransferLen(s.x) => Underway(s)
        /\ s.index = TransferLen(s.x) => RightOf(s.x, s.to, s.rx)
    BY <2>2, <2>3, OneMore DEF rx
  <2>5. CASE s.index = TransferLen(s.x)
    <3>1. spi0' = Completed(s) /\ RightOf(s.x, s.to, s.rx) /\ s.to \in Slaves
      BY <2>1, <2>2, <2>3, <2>4, <2>5 DEF Underway
    <3>2. /\ LastRight(spi0') /\ ~spi0'.done
          /\ spi0'.then \in Accepted \cup {NoCall}
          /\ spi0'.active => Underway(spi0') /\ Awaits(spi0')
          /\ ~spi0'.active => ~spi0'.busy
      BY <2>2, <2>3, <3>1, CompletedIs
    <3>. QED  BY <1>1, <2>2, <3>2, NoCallMoves
  <2>6. CASE s.index # TransferLen(s.x)
    <3>1. spi0' = t
      BY <2>1, <2>3, <2>6, Zenon DEF Transmits
    <3>2. /\ t.x = s.x /\ t.to = s.to /\ t.ss = s.ss /\ t.index = s.index /\ t.rx = s.rx
          /\ t.busy /\ ~t.done /\ t.active /\ t.then = s.then /\ t.last = s.last /\ t.out = o
      BY <2>3 DEF SpiType
    <3>. HIDE DEF t
    <3>3. Underway(t)
      BY <2>4, <2>6, <3>2 DEF Underway
    <3>4. Awaits(t) /\ LastRight(t)
      BY <2>2, <2>3, <3>2 DEF Awaits, LastRight, o
    <3>. QED  BY <1>1, <2>2, <2>3, <3>1, <3>2, <3>3, <3>4, NoCallMoves
  <2>. QED  BY <2>5, <2>6
<1>. QED  BY <1>2, <1>3

LEMMA ExchangeProtocol ==
  ASSUME SpiShape, SpiProtocol, Exchanges
  PROVE  SpiProtocol'
<1>. DEFINE d == <<spi0.ss, spi0.out>>
            s == [spi0 EXCEPT !.busy = FALSE, !.done = TRUE, !.data = d]
<1>1. spi0' = s /\ spi0.busy /\ at' = at /\ call' = call
  BY DEF Exchanges
<1>2. spi0 \in SpiType(spi0)
  BY DEF SpiShape
<1>. HIDE DEF d
<1>3. /\ s.x = spi0.x /\ s.to = spi0.to /\ s.ss = spi0.ss /\ s.index = spi0.index
      /\ s.rx = spi0.rx /\ ~s.busy /\ s.done /\ s.active = spi0.active
      /\ s.then = spi0.then /\ s.last = spi0.last /\ s.data = d
  BY <1>2 DEF SpiType
<1>. HIDE DEF s
<1>4. Underway(spi0) => Underway(s)
  BY <1>3 DEF Underway
<1>5. Underway(spi0) /\ Awaits(spi0) => Awaits(s)
  <2>. SUFFICES ASSUME Underway(spi0), Awaits(spi0) PROVE Awaits(s)
    OBVIOUS
  <2>1. spi0.out = TxByte(spi0.x.tx, spi0.index) /\ spi0.ss = spi0.to
    BY <1>1 DEF Awaits, Underway
  <2>2. d = <<s.to, TxByte(s.x.tx, s.index)>>
    BY <1>3, <2>1 DEF d
  <2>. QED  BY <1>3, <2>2 DEF Awaits
<1>6. LastRight(s)
  BY <1>3 DEF SpiProtocol, LastRight
<1>7. \A a \in Apps : at[a] \in {"send", "poll"} => Underway(s)
  BY <1>4 DEF SpiProtocol
<1>8. \A a \in Apps : at[a] = "poll" => Awaits(s)
  BY <1>5 DEF SpiProtocol
<1>9. s.active => /\ Underway(s) /\ Awaits(s) /\ \A a \in Apps : at[a] = "idle"
  BY <1>3, <1>4, <1>5 DEF SpiProtocol
<1>10. s.then \in Accepted \cup {NoCall}
  BY <1>3 DEF SpiProtocol
<1>. QED  BY <1>1, <1>3, <1>6, <1>7, <1>8, <1>9, <1>10, NoCallMoves
-----------------------------------------------------------------------------
(* Steps of the synchronous transfer.                                      *)

\* What the step of the one who is alone with the SPI leaves to be shown.
LEMMA OneCallMoves ==
  ASSUME SpiShape, NEW a \in Apps, Alone(a), NEW p, at' = [at EXCEPT ![a] = p],
         spi0'.done => ~spi0'.busy,
         spi0'.then \in Accepted \cup {NoCall}, ~spi0'.active,
         p # "poll" => ~spi0'.busy,
         p \in {"setup", "send", "poll"} =>
           call'[a].x \in Accepted /\ call'[a].slave \in Slaves,
         p \in {"send", "poll"} => Underway(spi0') /\ spi0'.x = call'[a].x,
         p = "poll" => Awaits(spi0'),
         LastRight(spi0')
  PROVE  SpiProtocol'
<1>1. at'[a] = p /\ \A b \in Apps : b # a => at'[b] = "idle"
  BY DEF SpiShape, Alone
<1>2. Alone(a)'
  BY <1>1 DEF Alone
<1>3. Underway(spi0)' = Underway(spi0') /\ Awaits(spi0)' = Awaits(spi0')
      /\ LastRight(spi0)' = LastRight(spi0')
  BY DEF Underway, Awaits, LastRight, Answered, RightOf
<1>4. \A b \in Apps : at'[b] \in {"setup", "send", "poll"} => b = a
  BY <1>1
<1>5. (\A b \in Apps : at'[b] # "poll") => ~spi0'.busy
  BY <1>1
<1>. QED  BY <1>1, <1>2, <1>3, <1>4, <1>5 DEF SpiProtocol

LEMMA SyncProtocol ==
  ASSUME SpiShape, SpiProtocol, NEW a \in Apps, Sync(a), Alone(a)
  PROVE  SpiProtocol'
<1>1. /\ spi0 \in SpiType(spi0) /\ spi0.then \in Accepted \cup {NoCall} /\ LastRight(spi0)
      /\ spi0.done => ~spi0.busy
  BY DEF SpiShape, SpiProtocol
<1>2. at \in [Apps -> {"idle", "setup", "send", "poll", "write", "level", "direction",
                      "update", "busy"}]
      /\ call \in [Apps -> {call[b] : b \in Apps}]
  BY DEF SpiShape
<1>3. at[a] # "poll" /\ ~spi0.active => ~spi0.busy
  BY DEF SpiProtocol, Alone
<1>4. at[a] # "idle" => ~spi0.active
  BY DEF SpiProtocol
<1>5. CASE SyncBegins(a)
  <2>1. PICK x \in Accepted, slave \in Slaves :
          Begins(a, "setup", [kind |-> "sync", x |-> x, slave |-> slave])
    BY <1>5 DEF SyncBegins
  <2>2. at' = [at EXCEPT ![a] = "setup"] /\ spi0' = spi0 /\ at[a] = "idle" /\ ~spi0.active
    BY <1>5, <2>1 DEF SyncBegins, Begins, Enters, Idle
  <2>3. call'[a].x = x /\ call'[a].slave = slave
    <3>. DEFINE c == [kind |-> "sync", x |-> x, slave |-> slave]
    <3>1. c.x = x /\ c.slave = slave
      OBVIOUS
    <3>2. call' = [call EXCEPT ![a] = c]
      BY <2>1 DEF Begins
    <3>. HIDE DEF c
    <3>. QED  BY <1>2, <3>1, <3>2
  <2>. QED  BY <1>1, <1>3, <2>2, <2>3, OneCallMoves
<1>6. CASE SyncSetup(a)
  <2>. DEFINE x == call[a].x
              slave == call[a].slave
              b == Buffers(x.rx)
              p == [spi0 EXCEPT !.x = x, !.rx = b, !.index = 0, !.to = slave]
              s == [p EXCEPT !.irqEn = FALSE, !.ss = slave]
  <2>1. /\ at[a] = "setup" /\ at' = [at EXCEPT ![a] = "send"] /\ call' = call
        /\ spi0' = s
    BY <1>6 DEF SyncSetup, In, Enters, Prepared
  <2>2. x \in Accepted /\ slave \in Slaves
    BY <2>1 DEF SpiProtocol
  <2>. HIDE DEF x, slave
  <2>3. ~spi0.active /\ ~spi0.busy
    BY <1>3, <1>4, <2>1
  <2>. HIDE DEF b
  <2>4. /\ p \in SpiType(p) /\ p.x = x /\ p.rx = b /\ p.index = 0 /\ p.to = slave
        /\ ~p.busy /\ ~p.active /\ p.then = spi0.then /\ p.last = spi0.last
    BY <1>1, <2>2, <2>3 DEF SpiType
  <2>. HIDE DEF p
  <2>5. /\ s.x = x /\ s.rx = b /\ s.index = 0 /\ s.to = slave /\ s.ss = slave
        /\ ~s.busy /\ ~s.active /\ s.then = spi0.then /\ s.last = spi0.last
    BY <2>4 DEF SpiType
  <2>. HIDE DEF s
  <2>6. Underway(s)
    BY <2>2, <2>5, BeginsUnderway DEF b
  <2>7. LastRight(s)
    BY <1>1, <2>5 DEF LastRight
  <2>8. call'[a].x = x /\ call'[a].slave = slave
    BY <2>1 DEF x, slave
  <2>. QED  BY <1>1, <2>1, <2>2, <2>5, <2>6, <2>7, <2>8, OneCallMoves
<1>7. CASE SyncSends(a)
  <2>. DEFINE o == TxByte(call[a].x.tx, spi0.index)
              s == [spi0 EXCEPT !.busy = TRUE, !.done = FALSE, !.out = o]
  <2>1. /\ at[a] = "send" /\ at' = [at EXCEPT ![a] = "poll"] /\ call' = call
        /\ spi0' = Transmits(spi0, o)
    BY <1>7 DEF SyncSends, In, Enters
  <2>2. ~spi0.active /\ ~spi0.busy
    BY <1>3, <1>4, <2>1
  <2>3. /\ call[a].x \in Accepted /\ call[a].slave \in Slaves
        /\ Underway(spi0) /\ spi0.x = call[a].x
    BY <2>1 DEF SpiProtocol
  <2>. HIDE DEF o
  <2>4. spi0' = s
    BY <2>1, <2>2, Zenon DEF Transmits
  <2>5. /\ s.x = spi0.x /\ s.to = spi0.to /\ s.ss = spi0.ss /\ s.index = spi0.index
        /\ s.rx = spi0.rx /\ s.busy /\ ~s.done /\ ~s.active /\ s.then = spi0.then
        /\ s.last = spi0.last /\ s.out = o
    BY <1>1, <2>2 DEF SpiType
  <2>. HIDE DEF s
  <2>6. Underway(s)
    BY <2>3, <2>5 DEF Underway
  <2>7. Awaits(s) /\ LastRight(s)
    BY <1>1, <2>3, <2>5 DEF Awaits, LastRight, o
  <2>. QED  BY <1>1, <2>1, <2>3, <2>4, <2>5, <2>6, <2>7, OneCallMoves
<1>8. CASE SyncReceives(a)
  <2>. DEFINE rx == RxByte(spi0.rx, spi0.index, spi0.data)
              i == spi0.index + 1
              s == [spi0 EXCEPT !.rx = rx, !.index = i]
  <2>1. /\ at[a] = "poll" /\ ~spi0.busy
        /\ IF s.index = TransferLen(call[a].x) THEN Ends(a) /\ spi0' = Over(s)
           ELSE Enters(a, "send") /\ spi0' = s /\ UNCHANGED <<call, got>>
    BY <1>8 DEF SyncReceives, In
  <2>2. /\ call[a].x \in Accepted /\ call[a].slave \in Slaves /\ ~spi0.active
        /\ Underway(spi0) /\ spi0.x = call[a].x /\ Awaits(spi0)
    BY <1>4, <2>1 DEF SpiProtocol
  <2>3. i \in Nat
    BY <2>2 DEF Underway
  <2>. HIDE DEF rx, i
  <2>4. /\ s.x = spi0.x /\ s.to = spi0.to /\ s.ss = spi0.ss /\ s.index = i
        /\ s.rx = rx /\ ~s.busy /\ s.done = spi0.done /\ ~s.active /\ s.then = spi0.then
        /\ s.last = spi0.last /\ s \in SpiType(s)
    BY <1>1, <2>1, <2>2, <2>3 DEF SpiType
  <2>. HIDE DEF s
  <2>5. /\ s.index # TransferLen(s.x) => Underway(s)
        /\ s.index = TransferLen(s.x) => RightOf(s.x, s.to, s.rx)
    BY <2>1, <2>2, <2>4, OneMore DEF rx, i
  <2>6. CASE s.index = TransferLen(call[a].x)
    <3>1. at' = [at EXCEPT ![a] = "idle"] /\ spi0' = Over(s) /\ RightOf(s.x, s.to, s.rx)
      BY <2>1, <2>2, <2>4, <2>5, <2>6 DEF Ends, Enters
    <3>2. /\ LastRight(spi0') /\ spi0'.then = spi0.then /\ ~spi0'.busy /\ ~spi0'.active
      BY <2>4, <3>1, OverIs
    <3>. QED  BY <1>1, <3>1, <3>2, OneCallMoves
  <2>7. CASE s.index # TransferLen(call[a].x)
    <3>1. at' = [at EXCEPT ![a] = "send"] /\ spi0' = s /\ call' = call
      BY <2>1, <2>7 DEF Enters
    <3>2. Underway(s) /\ LastRight(s)
      BY <1>1, <2>2, <2>4, <2>5, <2>7 DEF LastRight
    <3>. QED  BY <1>1, <2>2, <2>4, <3>1, <3>2, OneCallMoves
  <2>. QED  BY <2>6, <2>7
<1>. QED  BY <1>5, <1>6, <1>7, <1>8 DEF Sync
-----------------------------------------------------------------------------
(* Every transfer.                                                         *)

\* While the SPI is not the device in use, nothing of it changes.
SpiInv == LastRight(spi0) /\ (device = "spi" => SpiShape /\ SpiProtocol)

LEMMA SpiInitially == DrvInit => SpiInv
<1>. SUFFICES ASSUME DrvInit PROVE SpiInv
  OBVIOUS
<1>1. SpiShape
  BY DrvInitially DEF DrvInv, DrvShape
<1>2. ~spi0.active /\ ~spi0.busy /\ ~spi0.done /\ spi0.then = NoCall
      /\ \A a \in Apps : at[a] = "idle"
  BY DEF DrvInit
<1>3. LastRight(spi0)
  <2>. DEFINE l == [x |-> NoTransfer, to |-> Open, rx |-> <<>>]
  <2>1. spi0.last = l /\ l.rx = <<>>
    BY DEF DrvInit
  <2>. HIDE DEF l
  <2>2. Seqs!FlattenSeq(<<>>) = <<>>
    <3>. Len(<<>>) = 0
      OBVIOUS
    <3>. QED  BY Zenon DEF Seqs!FlattenSeq
  <2>3. DOMAIN Seqs!FlattenSeq(spi0.last.rx) = {}
    BY <2>1, <2>2
  <2>. QED  BY <2>3 DEF LastRight, RightOf
<1>. QED  BY <1>1, <1>2, <1>3 DEF SpiProtocol, SpiInv

LEMMA SpiKeptShape ==
  ASSUME SpiShape, SpiNext
  PROVE  SpiShape'
<1>1. ASSUME NEW a \in Callers, Async(a) \/ Sync(a)
      PROVE  SpiShape'
  <2>1. a \in Apps
    BY DEF Apps
  <2>. QED  BY <1>1, <2>1, AsyncStep, SyncStep
<1>2. CASE SpiInterrupt
  <2>1. (spi0 \in SpiType(spi0))'
    BY <1>2, ServesType DEF SpiInterrupt, SpiShape
  <2>. QED  BY <1>2, <2>1 DEF SpiInterrupt, SpiShape
<1>3. CASE Exchanges
  <2>. DEFINE d == <<spi0.ss, spi0.out>>
              s == [spi0 EXCEPT !.busy = FALSE, !.done = TRUE, !.data = d]
  <2>. HIDE DEF d
  <2>1. s \in SpiType(s)
    BY DEF SpiShape, SpiType
  <2>2. spi0' = s
    BY <1>3 DEF Exchanges, d
  <2>. HIDE DEF s
  <2>3. (spi0 \in SpiType(spi0))'
    BY <2>1, <2>2
  <2>. QED  BY <1>3, <2>3 DEF Exchanges, SpiShape
<1>4. CASE UNCHANGED <<at, call, got, spi0>>
  BY <1>4 DEF SpiShape
<1>. QED  BY <1>1, <1>2, <1>3, <1>4 DEF SpiNext

LEMMA SpiStays ==
  ASSUME SpiShape, SpiProtocol, SpiNext, ~SpiShared
  PROVE  SpiProtocol'
<1>1. SpiShape /\ SpiProtocol
  OBVIOUS
<1>2. ASSUME NEW a \in Callers, Alone(a), Async(a) \/ Sync(a)
      PROVE  SpiProtocol'
  <2>1. a \in Apps
    BY DEF Apps
  <2>. QED  BY <1>1, <1>2, <2>1, AsyncProtocol, SyncProtocol
<1>3. CASE SpiInterrupt
  BY <1>1, <1>3, InterruptProtocol
<1>4. CASE Exchanges
  BY <1>1, <1>4, ExchangeProtocol
<1>5. CASE UNCHANGED <<at, call, got, spi0>>
  BY <1>1, <1>5, NoCallMoves DEF SpiProtocol
<1>. QED  BY <1>2, <1>3, <1>4, <1>5 DEF SpiNext

\* Every SPI transfer, synchronous, asynchronous, or started by a callback in
\* the ISR, ends with the answers of its own slave to its own bytes, in order
\* and in its own buffers, whatever sizes these have, when one thread at a
\* time uses the SPI.
THEOREM TransfersAnswered ==
  ASSUME ~SpiShared
  PROVE  DrvSpec => []SpiAnswers
<1>1. DrvInit => SpiInv
  BY SpiInitially
<1>2. SpiInv /\ [DrvNext]_drvVars => SpiInv'
  <2>. SUFFICES ASSUME SpiInv, [DrvNext]_drvVars PROVE SpiInv'
    OBVIOUS
  <2>1. CASE SpiNext
    <3>1. SpiShape /\ SpiProtocol
      BY <2>1 DEF SpiInv, SpiNext
    <3>2. SpiShape' /\ SpiProtocol'
      BY <2>1, <3>1, SpiKeptShape, SpiStays
    <3>. QED  BY <3>2 DEF SpiInv, SpiProtocol
  <2>2. CASE GpioNext \/ UartNext
    <3>1. device' # "spi" /\ spi0' = spi0
      BY <2>2 DEF GpioNext, UartNext
    <3>. QED  BY <3>1 DEF SpiInv, LastRight, RightOf
  <2>3. CASE UNCHANGED drvVars
    <3>1. /\ at' = at /\ call' = call /\ got' = got /\ spi0' = spi0 /\ device' = device
      BY <2>3 DEF drvVars
    <3>2. CASE device = "spi"
      <4>1. SpiShape /\ SpiProtocol
        BY <3>2 DEF SpiInv
      <4>2. SpiProtocol'
        BY <3>1, <4>1, NoCallMoves DEF SpiProtocol
      <4>. QED  BY <3>1, <4>1, <4>2 DEF SpiInv, SpiShape, SpiProtocol
    <3>3. CASE device # "spi"
      BY <3>1, <3>3 DEF SpiInv, LastRight, RightOf
    <3>. QED  BY <3>2, <3>3
  <2>. QED  BY <2>1, <2>2, <2>3 DEF DrvNext
<1>3. SpiInv => SpiAnswers
  BY DEF SpiInv, LastRight, RightOf, SpiAnswers
<1>. QED  BY <1>1, <1>2, <1>3, PTL DEF DrvSpec
=============================================================================
