-------------------------- MODULE UserCallsProofs --------------------------
(***************************************************************************)
(* Proofs about Uart, Console, UserMemory and Umalloc, as MCUserCalls has  *)
(* them: for any number of processes, any ring whose size divides the      *)
(* range of its indices, any sequence of writes, typing, editing and       *)
(* killing, any memory, sizes of a page and calls, and any malloc(),       *)
(* free() and sbrk().                                                      *)
(*                                                                         *)
(* Each has an inductive invariant of its own.  That of Uart adds to the   *)
(* properties what the holder of uart_tx_lock knows between its look at    *)
(* LSR and its write to THR: that the ring is not empty, and that nothing  *)
(* has come into the device since but an echo, which goes round the lock.  *)
(* That of Console says who has cons.lock, that nobody sleeps over bytes,  *)
(* and that the line that is being edited has no newline in it: that is    *)
(* why ^U goes back to the w index and takes the line as a whole.  That of *)
(* UserMemory says how far the loops of sys_pgaccess() and of the copies   *)
(* have come.  That of Umalloc says what is on the ring while malloc() and *)
(* free() walk it, and that each header is on it, taken, or on its way.    *)
(***************************************************************************)
EXTENDS MCUserCalls, Integers, SequenceTheorems, WellFoundedInduction, TLAPS

-----------------------------------------------------------------------------
(* Uart.                                                                   *)

Hart  == Proc \cup {Intr}
UPlace == {"user", "put", "start", "send", "no", "input", "idle", "echo"}

ULocked == \A h \in Hart : ulock = h <=> upc[h] \in {"start", "send"}

\* The device has one character of the ring at most, and none that it has not
\* been found without.
Looked ==
    /\ \A i, j \in U!InDevice : i = j
    /\ \A h \in Hart : upc[h] = "send" => uw # ur /\ U!InDevice = {}

\* Output waits for the device, or for a look at it.
Watched == ulock = None /\ uw # ur /\ U!LSR_TX_IDLE => irq \/ upc[Intr] # "no"

\* A writer sleeps over a full ring, also while another has the lock.
Asleep == uasleep # {} => U!Full

UIInv == U!TypeOK /\ ULocked /\ Looked /\ Watched /\ Asleep
-----------------------------------------------------------------------------
(* The indices of the ring.                                                *)

LEMMA Division ==
    ASSUME NEW a \in Int, NEW b \in Nat \ {0}
    PROVE  /\ a % b \in 0 .. b - 1 /\ a \div b \in Int
           /\ a = b * (a \div b) + (a % b)
OBVIOUS

LEMMA Remainder ==
    ASSUME NEW b \in Nat \ {0}, NEW q \in Int, NEW r \in 0 .. b - 1, NEW a \in Int, a = b * q + r
    PROVE  a % b = r
<1>1. a % b \in 0 .. b - 1 /\ a \div b \in Int /\ a = b * (a \div b) + (a % b)
  BY Division
<1> DEFINE d == a \div b
           m == a % b
<1>2. m \in 0 .. b - 1 /\ d \in Int /\ b * d + m = b * q + r
  BY <1>1
<1> HIDE DEF d, m
<1>3. b * (d - q) = r - m
  BY <1>2
<1>4. d - q \in Int /\ d - q < 1 /\ d - q > -1
  BY <1>2, <1>3
<1>5. d = q
  BY <1>2, <1>4
<1>6. m = r
  BY <1>2, <1>5
<1> QED
  BY <1>6 DEF m

LEMMA UNextIndex ==
    ASSUME U!UartConstants, NEW i \in 0 .. UINT64 - 1
    PROVE  /\ (i + 1) % UINT64 = IF i + 1 = UINT64 THEN 0 ELSE i + 1
           /\ (i + 1) % UINT64 \in 0 .. UINT64 - 1
BY DEF U!UartConstants

LEMMA Distance ==
    ASSUME U!UartConstants, NEW a \in 0 .. UINT64 - 1, NEW b \in 0 .. UINT64 - 1
    PROVE  (b + UINT64 - a) % UINT64 = IF a <= b THEN b - a ELSE b - a + UINT64
BY DEF U!UartConstants

LEMMA FullIs ==
    ASSUME U!UartConstants, U!TypeOK
    PROVE  /\ U!InRing \in 0 .. UART_TX_BUF_SIZE
           /\ U!Full <=> U!InRing = UART_TX_BUF_SIZE
           /\ U!InRing = 0 <=> uw = ur
<1>1. ur \in 0 .. UINT64 - 1 /\ uw \in 0 .. UINT64 - 1 /\ U!InRing <= UART_TX_BUF_SIZE
  BY DEF U!TypeOK
<1>2. U!InRing = IF ur <= uw THEN uw - ur
               ELSE uw - ur + UINT64
  BY <1>1, Distance DEF U!InRing
<1>3. (ur + UART_TX_BUF_SIZE) % UINT64
        = IF ur + UART_TX_BUF_SIZE < UINT64 THEN ur + UART_TX_BUF_SIZE
          ELSE ur + UART_TX_BUF_SIZE - UINT64
  BY <1>1 DEF U!UartConstants
<1> HIDE DEF U!InRing
<1>4. UINT64 \in Nat /\ UART_TX_BUF_SIZE \in Nat \ {0} /\ UINT64 > UART_TX_BUF_SIZE
  BY DEF U!UartConstants
<1> QED
  BY <1>1, <1>2, <1>3, <1>4 DEF U!Full

LEMMA USlotType ==
    ASSUME U!UartConstants, NEW i \in Int
    PROVE  U!Slot(i) \in 0 .. UART_TX_BUF_SIZE - 1
BY Division DEF U!Slot, U!UartConstants

LEMMA USlotWraps ==
    ASSUME U!UartConstants, NEW c \in Int
    PROVE  U!Slot(c + UINT64) = U!Slot(c)
<1> DEFINE N == UART_TX_BUF_SIZE
           q == c \div N
           k == UINT64 \div N
           r == c % N
<1>1. N \in Nat \ {0} /\ UINT64 \in Nat /\ UINT64 % N = 0
  BY DEF U!UartConstants
<1>2. c = N * q + r /\ UINT64 = N * k /\ q \in Int /\ k \in Int /\ r \in 0 .. N - 1
  BY <1>1, Division
<1> HIDE DEF q, k, r
<1>3. c + UINT64 = N * (q + k) + r
  BY <1>1, <1>2
<1>4. q + k \in Int /\ c + UINT64 \in Int
  BY <1>1, <1>2
<1>5. (c + UINT64) % N = r
  BY <1>1, <1>2, <1>3, <1>4, Remainder
<1> QED
  BY <1>5 DEF r, U!Slot

LEMMA USlotsDiffer ==
    ASSUME U!UartConstants, NEW c \in Int, NEW d \in Int, c < d, d < c + UART_TX_BUF_SIZE
    PROVE  U!Slot(c) # U!Slot(d)
<1> DEFINE N == UART_TX_BUF_SIZE
           q == c \div N
           k == d \div N
<1>1. N \in Nat \ {0}
  BY DEF U!UartConstants
<1>2. c = N * q + (c % N) /\ d = N * k + (d % N) /\ q \in Int /\ k \in Int
  BY <1>1, Division
<1> SUFFICES ASSUME c % N = d % N PROVE FALSE
  BY DEF U!Slot
<1> HIDE DEF q, k
<1>3. d - c = N * k - N * q
  BY <1>1, <1>2, Division
<1>4. d - c = N * (k - q)
  BY <1>1, <1>2, <1>3
<1>5. k - q \in Int /\ k - q > 0 /\ k - q < 1
  BY <1>1, <1>2, <1>4
<1> QED
  BY <1>5

LEMMA RingKept ==
    ASSUME UNCHANGED U!ring
    PROVE  U!InRing' = U!InRing /\ U!Full' = U!Full /\ U!Waiting' = U!Waiting
BY DEF U!ring, U!InRing, U!Full, U!Waiting

LEMMA DeviceKept == ASSUME fifo' = fifo PROVE U!InDevice' = U!InDevice /\ U!Sent' = U!Sent
BY DEF U!InDevice, U!Sent
-----------------------------------------------------------------------------
LEMMA UGotoIs ==
    ASSUME NEW h \in Hart, NEW l \in UPlace, upc \in [Hart -> UPlace], U!Goto(h, l)
    PROVE  /\ upc' \in [Hart -> UPlace] /\ upc'[h] = l
           /\ \A g \in Hart : g # h => upc'[g] = upc[g]
BY DEF U!Goto, Hart

\* A step of one that does not hold the lock, and leaves the ring alone.
LEMMA OutsideKeeps ==
    ASSUME U!UartConstants, UIInv, NEW h \in Hart, NEW l \in UPlace, UNCHANGED <<U!ring, ulock>>,
           U!Goto(h, l), upc[h] \notin {"start", "send"}, l \notin {"start", "send"}
    PROVE  /\ upc' \in [Hart -> UPlace] /\ \A g \in Hart : g # h => upc'[g] = upc[g]
           /\ upc'[h] = l /\ ULocked' /\ (uasleep' = uasleep => Asleep')
           /\ (fifo' = fifo => Looked')
<1>1. upc' \in [Hart -> UPlace] /\ upc'[h] = l /\ \A g \in Hart : g # h => upc'[g] = upc[g]
  BY UGotoIs DEF UIInv, U!TypeOK, Hart, UPlace
<1>2. ULocked'
  BY <1>1 DEF UIInv, ULocked
<1>3. ASSUME fifo' = fifo PROVE Looked'
  <2>1. U!InDevice' = U!InDevice /\ uw' = uw /\ ur' = ur
    BY <1>3, DeviceKept DEF U!ring
  <2> QED
    BY <1>1, <2>1 DEF UIInv, Looked
<1>4. ASSUME uasleep' = uasleep PROVE Asleep'
  BY <1>4, RingKept DEF UIInv, Asleep
<1> QED
  BY <1>1, <1>2, <1>3, <1>4

LEMMA WriteKeeps == ASSUME U!UartConstants, UIInv, NEW p \in Proc, U!Write(p) PROVE UIInv'
<1>1. p \in Hart /\ p # Intr /\ "put" \in UPlace /\ upc[p] = "user"
  BY DEF Hart, UPlace, U!UartConstants, U!Write, U!At
<1>2. U!Goto(p, "put") /\ UNCHANGED <<U!ring, ulock, uasleep, U!dev>> /\ fifo' = fifo
  BY DEF U!Write, U!dev
<1>3. /\ upc' \in [Hart -> UPlace] /\ \A g \in Hart : g # p => upc'[g] = upc[g]
      /\ ULocked' /\ Asleep' /\ Looked'
  BY <1>1, <1>2, OutsideKeeps
<1>4. uleft' \in [Proc -> 0 .. MaxWrite]
  BY DEF U!Write, UIInv, U!TypeOK, U!UartConstants
<1>5. U!TypeOK'
  BY <1>2, <1>3, <1>4, RingKept DEF UIInv, U!TypeOK, U!ring, U!dev, Hart, UPlace
<1>6. Watched'
  BY <1>1, <1>2, <1>3 DEF UIInv, Watched, U!ring, U!dev, U!LSR_TX_IDLE, Hart
<1> QED
  BY <1>3, <1>5, <1>6 DEF UIInv

LEMMA WriteDoneKeeps == ASSUME U!UartConstants, UIInv, NEW p \in Proc, U!WriteDone(p) PROVE UIInv'
<1>1. p \in Hart /\ p # Intr /\ "user" \in UPlace /\ upc[p] = "put"
  BY DEF Hart, UPlace, U!UartConstants, U!WriteDone, U!At
<1>2. U!Goto(p, "user") /\ UNCHANGED <<U!ring, ulock, uasleep, U!dev>> /\ fifo' = fifo
  BY DEF U!WriteDone, U!dev
<1>3. /\ upc' \in [Hart -> UPlace] /\ \A g \in Hart : g # p => upc'[g] = upc[g]
      /\ ULocked' /\ Asleep' /\ Looked'
  BY <1>1, <1>2, OutsideKeeps
<1>4. uleft' \in [Proc -> 0 .. MaxWrite]
  BY DEF U!WriteDone, UIInv, U!TypeOK, U!UartConstants
<1>5. U!TypeOK'
  BY <1>2, <1>3, <1>4, RingKept DEF UIInv, U!TypeOK, U!ring, U!dev, Hart, UPlace
<1>6. Watched'
  BY <1>1, <1>2, <1>3 DEF UIInv, Watched, U!ring, U!dev, U!LSR_TX_IDLE, Hart
<1> QED
  BY <1>3, <1>5, <1>6 DEF UIInv

LEMMA PutSleepKeeps == ASSUME U!UartConstants, UIInv, NEW p \in Proc, U!PutSleep(p) PROVE UIInv'
<1>1. U!Full /\ uasleep' = uasleep \cup {p} /\ UNCHANGED <<U!ring, ulock, upc, uleft, U!dev>>
  BY DEF U!PutSleep
<1>2. U!TypeOK'
  BY <1>1, RingKept DEF UIInv, U!TypeOK, U!ring, U!dev
<1>3. ULocked' /\ Watched'
  BY <1>1 DEF UIInv, ULocked, Watched, U!ring, U!dev, U!LSR_TX_IDLE
<1>4. Looked'
  BY <1>1, DeviceKept DEF UIInv, Looked, U!ring, U!dev
<1>5. Asleep'
  BY <1>1, RingKept DEF Asleep
<1> QED
  BY <1>2, <1>3, <1>4, <1>5 DEF UIInv

\* One more in the ring.
LEMMA AfterPut ==
    ASSUME U!UartConstants, U!TypeOK, ~ U!Full, uw' = (uw + 1) % UINT64,
           ur' = ur
    PROVE  /\ uw' \in 0 .. UINT64 - 1
           /\ U!InRing' = U!InRing + 1 /\ U!InRing < UART_TX_BUF_SIZE
<1> DEFINE W == uw
           V == (uw + 1) % UINT64
           R == ur
<1>1. W \in 0 .. UINT64 - 1 /\ R \in 0 .. UINT64 - 1
  BY DEF U!TypeOK
<1>2. V \in 0 .. UINT64 - 1 /\ V = IF W + 1 = UINT64 THEN 0 ELSE W + 1
  BY <1>1, UNextIndex
<1>3. U!InRing = IF R <= W THEN W - R ELSE W - R + UINT64
  BY <1>1, Distance DEF U!InRing
<1>4. U!InRing' = (V + UINT64 - R) % UINT64
  BY DEF U!InRing
<1>5. U!InRing \in 0 .. UART_TX_BUF_SIZE /\ U!InRing # UART_TX_BUF_SIZE
  BY FullIs
<1>6. UINT64 \in Nat /\ UART_TX_BUF_SIZE \in Nat \ {0} /\ UINT64 > UART_TX_BUF_SIZE
  BY DEF U!UartConstants
<1> HIDE DEF W, V, R, U!InRing
<1>7. U!InRing' = IF R <= V THEN V - R ELSE V - R + UINT64
  BY <1>1, <1>2, <1>4, Distance
<1>8. U!InRing' = U!InRing + 1
  BY <1>1, <1>2, <1>3, <1>5, <1>6, <1>7
<1>9. uw' = V
  BY DEF V
<1> QED
  BY <1>2, <1>5, <1>6, <1>8, <1>9

LEMMA AfterSend ==
    ASSUME U!UartConstants, U!TypeOK, uw # ur, ur' = (ur + 1) % UINT64,
           uw' = uw
    PROVE  /\ ur' \in 0 .. UINT64 - 1
           /\ U!InRing' = U!InRing - 1 /\ U!InRing > 0
<1> DEFINE W == uw
           V == (ur + 1) % UINT64
           R == ur
<1>1. W \in 0 .. UINT64 - 1 /\ R \in 0 .. UINT64 - 1 /\ W # R
  BY DEF U!TypeOK
<1>2. V \in 0 .. UINT64 - 1 /\ V = IF R + 1 = UINT64 THEN 0 ELSE R + 1
  BY <1>1, UNextIndex
<1>3. U!InRing = IF R <= W THEN W - R ELSE W - R + UINT64
  BY <1>1, Distance DEF U!InRing
<1>4. U!InRing' = (W + UINT64 - V) % UINT64
  BY DEF U!InRing
<1>5. U!InRing \in 0 .. UART_TX_BUF_SIZE /\ U!InRing # 0
  BY FullIs
<1>6. UINT64 \in Nat /\ UART_TX_BUF_SIZE \in Nat \ {0} /\ UINT64 > UART_TX_BUF_SIZE
  BY DEF U!UartConstants
<1> HIDE DEF W, V, R, U!InRing
<1>7. U!InRing' = IF V <= W THEN W - V ELSE W - V + UINT64
  BY <1>1, <1>2, <1>4, Distance
<1>8. U!InRing' = U!InRing - 1
  BY <1>1, <1>2, <1>3, <1>5, <1>6, <1>7
<1>9. ur' = V
  BY DEF V
<1> QED
  BY <1>2, <1>5, <1>6, <1>8, <1>9

LEMMA PutKeeps == ASSUME U!UartConstants, UIInv, NEW p \in Proc, U!Put(p) PROVE UIInv'
<1>1. p \in Hart /\ p # Intr /\ "start" \in UPlace /\ p # None
  BY DEF Hart, UPlace, U!UartConstants
<1>2. /\ ~ U!Full /\ U!Goto(p, "start") /\ ulock = None /\ ulock' = p
      /\ UNCHANGED <<ur, uasleep, U!dev>> /\ fifo' = fifo
  BY DEF U!Put, U!dev
<1>3. /\ upc' \in [Hart -> UPlace] /\ upc'[p] = "start"
      /\ \A g \in Hart : g # p => upc'[g] = upc[g]
  BY <1>1, <1>2, UGotoIs DEF UIInv, U!TypeOK, Hart, UPlace
<1>4. uleft' \in [Proc -> 0 .. MaxWrite]
  <2>1. uleft[p] - 1 \in 0 .. MaxWrite
    BY DEF U!Put, UIInv, U!TypeOK, U!UartConstants
  <2> QED
    BY <2>1 DEF U!Put, UIInv, U!TypeOK
<1>5. ubuf' \in [0 .. UART_TX_BUF_SIZE - 1 -> Byte]
  BY DEF U!Put, UIInv, U!TypeOK
<1>6. uw' \in 0 .. UINT64 - 1 /\ U!InRing' <= UART_TX_BUF_SIZE
  <2>1. /\ uw' \in 0 .. UINT64 - 1
        /\ U!InRing' = U!InRing + 1 /\ U!InRing < UART_TX_BUF_SIZE /\ U!InRing \in 0 .. UART_TX_BUF_SIZE
    BY <1>2, AfterPut, FullIs DEF U!Put, UIInv
  <2> QED
    BY <2>1 DEF U!UartConstants
<1>7. U!TypeOK'
  BY <1>1, <1>2, <1>3, <1>4, <1>5, <1>6 DEF UIInv, U!TypeOK, U!dev, Hart, UPlace
<1>8. ULocked'
  BY <1>1, <1>2, <1>3 DEF UIInv, ULocked, U!UartConstants, Hart
<1>9. Looked'
  BY <1>1, <1>2, <1>3, DeviceKept DEF UIInv, Looked, ULocked, U!UartConstants, Hart
<1>10. Watched'
  BY <1>1, <1>2 DEF Watched
<1>11. Asleep'
  BY <1>2 DEF UIInv, Asleep
<1> QED
  BY <1>7, <1>8, <1>9, <1>10, <1>11 DEF UIInv

LEMMA StartKeeps == ASSUME U!UartConstants, UIInv, NEW h \in Hart, U!Start(h) PROVE UIInv'
<1>1. /\ upc[h] = "start" /\ ulock = h /\ h # None /\ fifo' = fifo
      /\ UNCHANGED <<U!ring, uleft, uasleep, U!dev>>
  BY DEF U!Start, U!At, UIInv, ULocked, U!dev, Hart, U!UartConstants
<1>2. PICK l \in UPlace :
        /\ U!Goto(h, l)
        /\ \/ /\ uw = ur \/ ~ U!LSR_TX_IDLE
              /\ ulock' = None /\ l \notin {"start", "send"}
           \/ /\ uw # ur /\ U!LSR_TX_IDLE
              /\ ulock' = ulock /\ l = "send"
  BY DEF U!Start, UPlace
<1>3. upc' \in [Hart -> UPlace] /\ upc'[h] = l /\ \A g \in Hart : g # h => upc'[g] = upc[g]
  BY <1>2, UGotoIs DEF UIInv, U!TypeOK, Hart, UPlace
<1>4. U!TypeOK'
  BY <1>1, <1>2, <1>3, RingKept DEF UIInv, U!TypeOK, U!ring, U!dev, Hart, UPlace
<1>5. ULocked'
  BY <1>1, <1>2, <1>3 DEF UIInv, ULocked, U!UartConstants, Hart
<1>6. Looked'
  <2>1. U!LSR_TX_IDLE => U!InDevice = {}
    BY DEF U!LSR_TX_IDLE, U!InDevice
  <2> QED
    BY <1>1, <1>2, <1>3, <2>1, DeviceKept DEF UIInv, Looked, U!ring
<1>7. Watched'
  BY <1>1, <1>2 DEF Watched, U!ring, U!LSR_TX_IDLE
<1>8. Asleep'
  BY <1>1, RingKept DEF UIInv, Asleep
<1> QED
  BY <1>4, <1>5, <1>6, <1>7, <1>8 DEF UIInv

\* What a character adds to the device.
LEMMA DeviceAppend ==
    ASSUME U!TypeOK, NEW c \in Byte \cup {Echo}, fifo' = Append(fifo, c)
    PROVE  /\ fifo' \in Seq(Byte \cup {Echo})
           /\ Len(fifo) \in Nat /\ Len(fifo') = Len(fifo) + 1 /\ fifo'[Len(fifo) + 1] = c
           /\ \A i \in 1 .. Len(fifo) : fifo'[i] = fifo[i]
           /\ U!InDevice' = IF c = Echo THEN U!InDevice ELSE U!InDevice \cup {Len(fifo) + 1}
<1>1. fifo \in Seq(Byte \cup {Echo})
  BY DEF U!TypeOK
<1>2. /\ fifo' \in Seq(Byte \cup {Echo})
      /\ Len(fifo) \in Nat /\ Len(fifo') = Len(fifo) + 1 /\ fifo'[Len(fifo) + 1] = c
      /\ \A i \in 1 .. Len(fifo) : fifo'[i] = fifo[i]
      /\ DOMAIN fifo = 1 .. Len(fifo) /\ DOMAIN fifo' = 1 .. Len(fifo) + 1
  BY <1>1
<1>3. U!InDevice' = IF c = Echo THEN U!InDevice ELSE U!InDevice \cup {Len(fifo) + 1}
  <2>1. ASSUME NEW i PROVE i \in U!InDevice' <=> i \in U!InDevice \/ (c # Echo /\ i = Len(fifo) + 1)
    BY <1>2 DEF U!InDevice
  <2> QED
    BY <2>1
<1> QED
  BY <1>2, <1>3

LEMMA SendKeeps == ASSUME U!UartConstants, UIInv, NEW h \in Hart, U!Send(h) PROVE UIInv'
<1> DEFINE c == ubuf[U!Slot(ur)]
<1>1. /\ upc[h] = "send" /\ ulock = h /\ h # None /\ "start" \in UPlace
      /\ uw # ur /\ U!InDevice = {}
      /\ UNCHANGED <<ubuf, uw, ulock, uleft, rx, irq>>
      /\ uasleep' = {} /\ U!Goto(h, "start") /\ fifo' = Append(fifo, c)
      /\ ur' = (ur + 1) % UINT64
  BY DEF U!Send, U!At, UIInv, ULocked, Looked, Hart, U!UartConstants, UPlace
<1>2. upc' \in [Hart -> UPlace] /\ upc'[h] = "start" /\ \A g \in Hart : g # h => upc'[g] = upc[g]
  BY <1>1, UGotoIs DEF UIInv, U!TypeOK, Hart, UPlace
<1>3. c \in Byte
  <2>1. ur \in Int /\ ubuf \in [0 .. UART_TX_BUF_SIZE - 1 -> Byte]
    BY DEF UIInv, U!TypeOK, U!UartConstants
  <2> QED
    BY <2>1, USlotType
<1> HIDE DEF c
<1>4. fifo' \in Seq(Byte \cup {Echo}) /\ U!InDevice' = {Len(fifo) + 1}
  BY <1>1, <1>3, DeviceAppend DEF UIInv, U!UartConstants
<1>5. ur' \in 0 .. UINT64 - 1 /\ U!InRing' <= UART_TX_BUF_SIZE
  <2>1. /\ ur' \in 0 .. UINT64 - 1
        /\ U!InRing' = U!InRing - 1 /\ U!InRing > 0 /\ U!InRing \in 0 .. UART_TX_BUF_SIZE
    BY <1>1, AfterSend, FullIs DEF UIInv
  <2> QED
    BY <2>1 DEF U!UartConstants
<1>6. U!TypeOK'
  BY <1>1, <1>2, <1>4, <1>5 DEF UIInv, U!TypeOK, Hart, UPlace
<1>7. ULocked'
  BY <1>1, <1>2 DEF UIInv, ULocked
<1>8. Looked'
  BY <1>1, <1>2, <1>4 DEF UIInv, Looked, ULocked
<1>9. Watched' /\ Asleep'
  BY <1>1 DEF Watched, Asleep
<1> QED
  BY <1>6, <1>7, <1>8, <1>9 DEF UIInv

\* The interrupt handler outside uart_tx_lock, when it does not go home.
LEMMA HandlerKeeps ==
    ASSUME U!UartConstants, UIInv, NEW l \in {"input", "idle", "echo"}, U!Goto(Intr, l),
           upc[Intr] \notin {"start", "send"}, UNCHANGED <<U!ring, ulock, uleft, uasleep>>,
           rx' \in BOOLEAN, irq' \in BOOLEAN, fifo' \in Seq(Byte \cup {Echo}),
           U!InDevice' = U!InDevice
    PROVE  UIInv'
<1>1. Intr \in Hart /\ l \in UPlace /\ l \notin {"start", "send"}
  BY DEF Hart, UPlace
<1>2. /\ upc' \in [Hart -> UPlace] /\ \A g \in Hart : g # Intr => upc'[g] = upc[g]
      /\ upc'[Intr] = l /\ ULocked' /\ Asleep'
  BY <1>1, OutsideKeeps
<1>3. U!TypeOK'
  BY <1>2, RingKept DEF UIInv, U!TypeOK, U!ring, Hart, UPlace
<1>4. Looked'
  BY <1>1, <1>2 DEF UIInv, Looked, U!ring
<1>5. Watched'
  BY <1>2 DEF Watched
<1> QED
  BY <1>2, <1>3, <1>4, <1>5 DEF UIInv

LEMMA ClaimKeeps == ASSUME U!UartConstants, UIInv, U!Claim PROVE UIInv'
<1>1. /\ U!Goto(Intr, "input") /\ upc[Intr] = "no" /\ UNCHANGED <<U!ring, ulock, uleft, uasleep>>
      /\ fifo' = fifo /\ rx' = rx /\ irq' = FALSE
  BY DEF U!Claim, U!At
<1> QED
  BY <1>1, DeviceKept, HandlerKeeps DEF UIInv, U!TypeOK

LEMMA GetcKeeps == ASSUME U!UartConstants, UIInv, U!Getc PROVE UIInv'
<1>1. PICK l \in {"input", "idle"} : U!Goto(Intr, l)
  BY DEF U!Getc
<1>2. /\ upc[Intr] = "input" /\ UNCHANGED <<U!ring, ulock, uleft, uasleep>>
      /\ fifo' = fifo /\ rx' = FALSE /\ irq' = irq
  BY DEF U!Getc, U!At
<1> QED
  BY <1>1, <1>2, DeviceKept, HandlerKeeps DEF UIInv, U!TypeOK

LEMMA SyncIdleKeeps == ASSUME U!UartConstants, UIInv, U!SyncIdle PROVE UIInv'
<1>1. /\ U!Goto(Intr, "echo") /\ upc[Intr] = "idle" /\ UNCHANGED <<U!ring, ulock, uleft, uasleep>>
      /\ fifo' = fifo /\ rx' = rx /\ irq' = irq
  BY DEF U!SyncIdle, U!At, U!dev
<1> QED
  BY <1>1, DeviceKept, HandlerKeeps DEF UIInv, U!TypeOK

LEMMA SyncSendKeeps == ASSUME U!UartConstants, UIInv, U!SyncSend PROVE UIInv'
<1>1. /\ U!Goto(Intr, "input") /\ upc[Intr] = "echo" /\ UNCHANGED <<U!ring, ulock, uleft, uasleep>>
      /\ fifo' = Append(fifo, Echo) /\ rx' = rx /\ irq' = irq
  BY DEF U!SyncSend, U!At
<1>2. fifo' \in Seq(Byte \cup {Echo}) /\ U!InDevice' = U!InDevice
  BY <1>1, DeviceAppend DEF UIInv
<1> QED
  BY <1>1, <1>2, HandlerKeeps DEF UIInv, U!TypeOK

LEMMA StartIntrKeeps == ASSUME U!UartConstants, UIInv, U!StartIntr PROVE UIInv'
<1>1. /\ U!Goto(Intr, "start") /\ upc[Intr] = "input" /\ ulock = None /\ ulock' = Intr
      /\ UNCHANGED <<U!ring, uleft, uasleep, U!dev>> /\ fifo' = fifo
      /\ Intr \in Hart /\ Intr # None /\ "start" \in UPlace
  BY DEF U!StartIntr, U!At, U!dev, Hart, UPlace, U!UartConstants
<1>2. /\ upc' \in [Hart -> UPlace] /\ upc'[Intr] = "start"
      /\ \A g \in Hart : g # Intr => upc'[g] = upc[g]
  BY <1>1, UGotoIs DEF UIInv, U!TypeOK, Hart, UPlace
<1>3. U!TypeOK'
  BY <1>1, <1>2, RingKept DEF UIInv, U!TypeOK, U!ring, U!dev, Hart, UPlace
<1>4. ULocked'
  BY <1>1, <1>2 DEF UIInv, ULocked, U!UartConstants, Hart
<1>5. Looked'
  BY <1>1, <1>2, DeviceKept DEF UIInv, Looked, U!ring
<1>6. Watched' /\ Asleep'
  BY <1>1, RingKept DEF UIInv, Watched, Asleep
<1> QED
  BY <1>3, <1>4, <1>5, <1>6 DEF UIInv

\* What is left in the device when its first character has gone.
LEMMA DeviceTail ==
    ASSUME U!TypeOK, fifo # <<>>, fifo' = Tail(fifo)
    PROVE  /\ fifo' \in Seq(Byte \cup {Echo})
           /\ Len(fifo) \in Nat \ {0} /\ Len(fifo') = Len(fifo) - 1
           /\ \A i \in 1 .. Len(fifo) - 1 : fifo'[i] = fifo[i + 1]
           /\ U!InDevice = {i \in 1 .. Len(fifo) : fifo[i] # Echo}
           /\ U!InDevice' = {i \in 1 .. Len(fifo) - 1 : fifo[i + 1] # Echo}
<1>1. fifo \in Seq(Byte \cup {Echo})
  BY DEF U!TypeOK
<1>2. /\ fifo' \in Seq(Byte \cup {Echo})
      /\ Len(fifo) \in Nat \ {0} /\ Len(fifo') = Len(fifo) - 1
      /\ \A i \in 1 .. Len(fifo) - 1 : fifo'[i] = fifo[i + 1]
      /\ DOMAIN fifo = 1 .. Len(fifo) /\ DOMAIN fifo' = 1 .. Len(fifo) - 1
  BY <1>1
<1> QED
  BY <1>2 DEF U!InDevice

LEMMA TransmitKeeps == ASSUME U!UartConstants, UIInv, U!Transmit PROVE UIInv'
<1>1. /\ fifo # <<>> /\ fifo' = Tail(fifo) /\ irq' = (irq \/ Len(fifo) = 1)
      /\ UNCHANGED <<U!ring, ulock, upc, uleft, uasleep, rx>>
  BY DEF U!Transmit
<1>2. /\ fifo' \in Seq(Byte \cup {Echo}) /\ Len(fifo) \in Nat \ {0} /\ Len(fifo') = Len(fifo) - 1
      /\ U!InDevice = {i \in 1 .. Len(fifo) : fifo[i] # Echo}
      /\ U!InDevice' = {i \in 1 .. Len(fifo) - 1 : fifo[i + 1] # Echo}
  BY <1>1, DeviceTail DEF UIInv
<1>3. irq' \in BOOLEAN
  BY <1>1 DEF UIInv, U!TypeOK
<1>4. U!TypeOK'
  BY <1>1, <1>2, <1>3, RingKept DEF UIInv, U!TypeOK, U!ring
<1>5. ULocked' /\ Asleep'
  BY <1>1, RingKept DEF UIInv, ULocked, Asleep
<1>6. Looked'
  <2>1. \A i \in U!InDevice' : i \in Nat /\ i + 1 \in U!InDevice
    BY <1>2
  <2> QED
    BY <1>1, <2>1 DEF UIInv, Looked, U!ring
<1>7. Watched'
  <2>1. fifo' = <<>> => Len(fifo) = 1
    BY <1>2
  <2>2. Len(fifo) = 1 => irq'
    BY <1>1
  <2> QED
    BY <2>1, <2>2 DEF Watched, U!LSR_TX_IDLE
<1> QED
  BY <1>4, <1>5, <1>6, <1>7 DEF UIInv

LEMMA ArriveKeeps == ASSUME U!UartConstants, UIInv, U!Arrive PROVE UIInv'
<1>1. /\ fifo' = fifo /\ rx' = TRUE /\ irq' = TRUE /\ UNCHANGED <<U!ring, ulock, upc, uleft, uasleep>>
  BY DEF U!Arrive
<1>2. U!TypeOK'
  BY <1>1, RingKept DEF UIInv, U!TypeOK, U!ring
<1>3. ULocked' /\ Asleep' /\ Watched'
  BY <1>1, RingKept DEF UIInv, ULocked, Asleep, Watched
<1>4. Looked'
  BY <1>1, DeviceKept DEF UIInv, Looked, U!ring
<1> QED
  BY <1>2, <1>3, <1>4 DEF UIInv
-----------------------------------------------------------------------------
LEMMA UInitHolds == ASSUME U!UartConstants, U!Init PROVE UIInv
<1>1. uw = 0 /\ ur = 0 /\ ulock = None /\ uasleep = {} /\ fifo = <<>>
  BY DEF U!Init
<1>2. UINT64 \in Nat \ {0} /\ UART_TX_BUF_SIZE \in Nat \ {0}
  BY DEF U!UartConstants
<1>3. U!InRing = 0
  BY <1>1, <1>2, Distance DEF U!InRing
<1>4. ubuf \in [0 .. UART_TX_BUF_SIZE - 1 -> Byte]
  <2>1. (CHOOSE c \in Byte : TRUE) \in Byte
    BY DEF U!UartConstants
  <2> QED
    BY <2>1 DEF U!Init
<1>5. upc \in [Hart -> UPlace] /\ \A h \in Hart : upc[h] \notin {"start", "send"}
  BY DEF U!Init, Hart, UPlace
<1>6. uleft \in [Proc -> 0 .. MaxWrite]
  BY DEF U!Init, U!UartConstants
<1>7. U!TypeOK
  <2>1. {ur, uw} \subseteq 0 .. UINT64 - 1 /\ U!InRing <= UART_TX_BUF_SIZE
    BY <1>1, <1>2, <1>3
  <2>2. fifo \in Seq(Byte \cup {Echo})
    BY <1>1
  <2>3. rx \in BOOLEAN /\ irq \in BOOLEAN
    BY DEF U!Init
  <2> QED
    BY <1>1, <1>4, <1>5, <1>6, <2>1, <2>2, <2>3 DEF U!TypeOK, Hart, UPlace
<1>8. U!InDevice = {}
  BY <1>1 DEF U!InDevice
<1>9. ULocked /\ Looked /\ Watched /\ Asleep
  BY <1>1, <1>5, <1>8 DEF ULocked, Looked, Watched, Asleep, Hart, U!UartConstants
<1> QED
  BY <1>7, <1>9 DEF UIInv

LEMMA UStepKeeps == ASSUME U!UartConstants, UIInv, [U!Next]_(U!vars) PROVE UIInv'
<1>1. CASE UNCHANGED U!vars
  <2>1. UNCHANGED <<U!ring, ulock, upc, uleft, uasleep, U!dev>> /\ fifo' = fifo
    BY <1>1 DEF U!vars, U!dev
  <2>2. U!TypeOK'
    BY <2>1, RingKept DEF UIInv, U!TypeOK, U!ring, U!dev
  <2>3. ULocked' /\ Watched' /\ Asleep'
    BY <2>1, RingKept DEF UIInv, ULocked, Watched, Asleep, U!ring, U!dev, U!LSR_TX_IDLE
  <2>4. Looked'
    BY <2>1, DeviceKept DEF UIInv, Looked, U!ring
  <2> QED
    BY <2>2, <2>3, <2>4 DEF UIInv
<1>2. CASE \E p \in Proc : U!Write(p) \/ U!Uartputc(p)
  BY <1>2, WriteKeeps, WriteDoneKeeps, PutSleepKeeps, PutKeeps, StartKeeps, SendKeeps
  DEF U!Uartputc, Hart
<1>3. CASE U!Uartintr
  BY <1>3, ClaimKeeps, GetcKeeps, SyncIdleKeeps, SyncSendKeeps, StartIntrKeeps, StartKeeps,
     SendKeeps
  DEF U!Uartintr, Hart
<1> QED
  BY <1>1, <1>2, <1>3, TransmitKeeps, ArriveKeeps DEF U!Next

LEMMA UartInvariant == ASSUME U!UartConstants PROVE U!Spec => []UIInv
<1>1. U!Init => UIInv
  BY UInitHolds
<1>2. UIInv /\ [U!Next]_(U!vars) => UIInv'
  BY UStepKeeps
<1> QED
  BY <1>1, <1>2, PTL DEF U!Spec

\* The indices of the ring stay within it, also when they overflow, and the states of
\* uart.c are those of the model.
THEOREM UartTypeOK == ASSUME U!UartConstants PROVE U!Spec => []U!TypeOK
<1>1. UIInv => U!TypeOK
  BY DEF UIInv
<1> QED
  BY <1>1, UartInvariant, PTL

\* Whenever uart_tx_lock is free, output that waits for an idle device is about to be
\* started by an interrupt, also when uartputc_sync() has gone round the lock, and
\* uartputc() sleeps only for room.
THEOREM UartNeverStalls == ASSUME U!UartConstants PROVE U!Spec => []U!NeverStalls
<1>1. UIInv => U!NeverStalls
  <2> SUFFICES ASSUME UIInv PROVE U!NeverStalls
    OBVIOUS
  <2>1. Intr \notin uasleep
    BY DEF UIInv, U!TypeOK, U!UartConstants
  <2> QED
    BY <2>1 DEF UIInv, U!NeverStalls, Watched, Asleep, U!At
<1> QED
  BY <1>1, UartInvariant, PTL
-----------------------------------------------------------------------------
(* The refinement.                                                         *)

LEMMA WaitingIs ==
    ASSUME U!UartConstants, U!TypeOK
    PROVE  /\ U!InRing \in 0 .. UART_TX_BUF_SIZE
           /\ U!Waiting \in Seq(Byte) /\ Len(U!Waiting) = U!InRing
<1>1. U!InRing \in 0 .. UART_TX_BUF_SIZE
  BY FullIs
<1>2. ASSUME NEW k \in 1 .. U!InRing PROVE ubuf[U!Slot(ur + k - 1)] \in Byte
  <2>1. ur + k - 1 \in Int /\ ubuf \in [0 .. UART_TX_BUF_SIZE - 1 -> Byte]
    BY <1>1 DEF U!TypeOK, U!UartConstants
  <2>2. U!Slot(ur + k - 1) \in 0 .. UART_TX_BUF_SIZE - 1
    BY <2>1, USlotType
  <2> QED
    BY <2>1, <2>2
<1> HIDE DEF U!InRing
<1>3. U!Waiting \in [1 .. U!InRing -> Byte]
  BY <1>2 DEF U!Waiting
<1> QED
  BY <1>1, <1>3 DEF U!UartConstants

LEMMA WaitingPut ==
    ASSUME U!UartConstants, U!TypeOK, ~ U!Full, NEW c \in Byte,
           ubuf' = [ubuf EXCEPT ![U!Slot(uw)] = c],
           uw' = (uw + 1) % UINT64, ur' = ur
    PROVE  U!Waiting' = Append(U!Waiting, c)
<1> DEFINE N       == U!InRing
           slot(k) == U!Slot(ur + k - 1)
<1>1. /\ ur \in 0 .. UINT64 - 1 /\ uw \in 0 .. UINT64 - 1
      /\ ubuf \in [0 .. UART_TX_BUF_SIZE - 1 -> Byte]
      /\ UINT64 \in Nat /\ UART_TX_BUF_SIZE \in Nat \ {0}
  BY DEF U!TypeOK, U!UartConstants
<1>2. N \in Nat /\ N < UART_TX_BUF_SIZE /\ U!InRing' = N + 1
  BY AfterPut, WaitingIs
<1>3. uw = ur + N \/ uw + UINT64 = ur + N
  <2>1. N = IF ur <= uw THEN uw - ur
            ELSE uw - ur + UINT64
    BY <1>1, Distance DEF U!InRing
  <2> HIDE DEF N
  <2> QED
    BY <1>1, <1>2, <2>1
<1>4. U!Slot(uw) = U!Slot(ur + N)
  <2>1. U!Slot(uw + UINT64) = U!Slot(uw)
    <3>1. uw \in Int
      BY <1>1
    <3> QED
      BY <3>1, USlotWraps
  <2> QED
    BY <1>3, <2>1
<1>5. ASSUME NEW k \in 1 .. N PROVE ubuf'[slot(k)] = ubuf[slot(k)]
  <2>1. /\ ur + k - 1 \in Int /\ ur + N \in Int /\ ur + k - 1 < ur + N
        /\ ur + N < ur + k - 1 + UART_TX_BUF_SIZE
    BY <1>1, <1>2, <1>5
  <2>2. slot(k) # U!Slot(uw)
    BY <1>4, <2>1, USlotsDiffer
  <2>3. slot(k) \in 0 .. UART_TX_BUF_SIZE - 1
    BY <2>1, USlotType
  <2> QED
    BY <1>1, <2>2, <2>3
<1>6. ubuf'[slot(N + 1)] = c
  <2>1. ur + (N + 1) - 1 = ur + N /\ ur + N \in Int
    BY <1>1, <1>2
  <2>2. U!Slot(ur + N) \in 0 .. UART_TX_BUF_SIZE - 1
    BY <2>1, USlotType
  <2> QED
    BY <1>1, <1>4, <2>1, <2>2
<1>7. U!Waiting' = [k \in 1 .. N + 1 |-> ubuf'[slot(k)]]
  BY <1>2 DEF U!Waiting, U!Slot
<1>8. U!Waiting = [k \in 1 .. N |-> ubuf[slot(k)]] /\ Len(U!Waiting) = N /\ U!Waiting \in Seq(Byte)
  BY WaitingIs DEF U!Waiting
<1> HIDE DEF N, slot
<1>9. U!Waiting' = [k \in 1 .. N + 1 |-> IF k <= N THEN U!Waiting[k] ELSE c]
  <2>1. ASSUME NEW k \in 1 .. N + 1
        PROVE  ubuf'[slot(k)] = IF k <= N THEN U!Waiting[k] ELSE c
    <3>1. k \in 1 .. N \/ k = N + 1
      BY <1>2, <2>1
    <3> QED
      BY <1>2, <1>5, <1>6, <1>8, <3>1
  <2> QED
    BY <1>7, <2>1
<1> QED
  BY <1>2, <1>8, <1>9

LEMMA TailIs ==
    ASSUME NEW S, NEW s \in Seq(S), Len(s) > 0
    PROVE  s # <<>> /\ Head(s) = s[1] /\ Tail(s) = [k \in 1 .. Len(s) - 1 |-> s[k + 1]]
<1>1. s # <<>>
  BY EmptySeq
<1>2. Head(s) = s[1]
  BY <1>1
<1>3. /\ Tail(s) \in Seq(S) /\ Len(Tail(s)) = Len(s) - 1 /\ Len(s) \in Nat
      /\ \A k \in 1 .. Len(Tail(s)) : Tail(s)[k] = s[k + 1]
  BY <1>1, HeadTailProperties, LenProperties
<1>4. Tail(s) \in [1 .. Len(Tail(s)) -> S]
  BY <1>3, LenProperties
<1>5. Tail(s) = [k \in 1 .. Len(s) - 1 |-> Tail(s)[k]]
  BY <1>3, <1>4
<1> QED BY <1>1, <1>2, <1>3, <1>5

LEMMA OneOf == ASSUME NEW S, NEW s \in Seq(S), Len(s) = 1 PROVE \E c \in S : s = <<c>>
<1>1. s[1] \in S
  BY ElementOfSeq
<1>2. PICK c \in S : c = s[1]
  BY <1>1
<1>3. <<c>> \in Seq(S) /\ Len(<<c>>) = 1 /\ <<c>>[1] = c
  OBVIOUS
<1>4. \A k \in 1 .. Len(s) : s[k] = <<c>>[k]
  <2>1. ASSUME NEW k \in 1 .. Len(s) PROVE s[k] = <<c>>[k]
    <3>1. k = 1
      OBVIOUS
    <3> QED BY <1>2, <1>3, <3>1
  <2> QED BY <2>1
<1>5. s = <<c>>
  BY <1>3, <1>4, SeqEqual
<1> QED BY <1>5

LEMMA WaitingSend ==
    ASSUME U!UartConstants, U!TypeOK, uw # ur,
           ur' = (ur + 1) % UINT64, uw' = uw,
           ubuf' = ubuf
    PROVE  /\ U!Waiting # <<>> /\ U!Waiting' = Tail(U!Waiting)
           /\ Head(U!Waiting) = ubuf[U!Slot(ur)]
<1> DEFINE N       == U!InRing
           slot(k) == U!Slot(ur + k - 1)
<1>1. /\ ur \in 0 .. UINT64 - 1 /\ uw \in 0 .. UINT64 - 1
      /\ UINT64 \in Nat /\ UART_TX_BUF_SIZE \in Nat \ {0}
  BY DEF U!TypeOK, U!UartConstants
<1>2. N \in Nat /\ N > 0 /\ U!InRing' = N - 1
  BY AfterSend, WaitingIs
<1>3. ur' = ur + 1 \/ (ur' = 0 /\ ur + 1 = UINT64)
  BY <1>1, UNextIndex
<1>4. ASSUME NEW k \in 1 .. N - 1 PROVE U!Slot(ur' + k - 1) = slot(k + 1)
  <2>1. k \in Int
    BY <1>2
  <2>2. CASE ur' = ur + 1
    <3>1. ur' + k - 1 = ur + (k + 1) - 1
      BY <1>1, <2>1, <2>2
    <3> QED
      BY <3>1
  <2>3. CASE ur' = 0 /\ ur + 1 = UINT64
    <3>1. ur + (k + 1) - 1 = (ur' + k - 1) + UINT64 /\ ur' + k - 1 \in Int
      BY <1>1, <2>1, <2>3
    <3> QED
      BY <3>1, USlotWraps
  <2> QED
    BY <1>3, <2>2, <2>3
<1>5. U!Waiting' = [k \in 1 .. N - 1 |-> ubuf[U!Slot(ur' + k - 1)]]
  BY <1>2 DEF U!Waiting, U!Slot
<1>6. U!Waiting = [k \in 1 .. N |-> ubuf[slot(k)]] /\ Len(U!Waiting) = N /\ U!Waiting \in Seq(Byte)
  BY WaitingIs DEF U!Waiting
<1>7. slot(1) = U!Slot(ur)
  <2>1. ur + 1 - 1 = ur
    BY <1>1
  <2> QED
    BY <2>1
<1> HIDE DEF N, slot
<1>8. U!Waiting' = [k \in 1 .. N - 1 |-> U!Waiting[k + 1]]
  <2>1. ASSUME NEW k \in 1 .. N - 1 PROVE ubuf[U!Slot(ur' + k - 1)] = U!Waiting[k + 1]
    BY <1>2, <1>4, <1>6
  <2> QED
    BY <1>5, <2>1
<1>9. /\ U!Waiting # <<>> /\ Head(U!Waiting) = U!Waiting[1]
      /\ Tail(U!Waiting) = [k \in 1 .. N - 1 |-> U!Waiting[k + 1]]
  BY <1>2, <1>6, TailIs
<1>10. U!Waiting[1] = ubuf[slot(1)]
  BY <1>2, <1>6
<1> QED
  BY <1>7, <1>8, <1>9, <1>10

LEMMA SentOne ==
    ASSUME NEW i \in U!InDevice, U!InDevice = {i}
    PROVE  U!Sent = <<fifo[i]>>
BY DEF U!Sent

LEMMA SentNone == ASSUME U!InDevice = {} PROVE U!Sent = <<>>
BY DEF U!Sent

LEMMA SentIs ==
    ASSUME U!UartConstants, U!TypeOK, Looked
    PROVE  U!Sent \in Seq(Byte) /\ Len(U!Sent) <= 1
<1>1. CASE U!InDevice = {}
  BY <1>1, SentNone
<1>2. CASE U!InDevice # {}
  <2> PICK i \in U!InDevice : TRUE
    BY <1>2
  <2>1. U!InDevice = {i}
    BY DEF Looked
  <2>2. U!Sent = <<fifo[i]>>
    BY <2>1, SentOne
  <2>3. fifo[i] \in Byte
    BY DEF U!InDevice, U!TypeOK
  <2> QED
    BY <2>2, <2>3
<1> QED
  BY <1>1, <1>2

\* An echo is not part of the output.
LEMMA SentEcho ==
    ASSUME U!UartConstants, U!TypeOK, Looked, fifo' = Append(fifo, Echo)
    PROVE  U!Sent' = U!Sent
<1>1. U!InDevice' = U!InDevice /\ \A i \in 1 .. Len(fifo) : fifo'[i] = fifo[i]
  BY DeviceAppend
<1>2. \A i \in U!InDevice : fifo'[i] = fifo[i]
  BY <1>1 DEF U!InDevice, U!TypeOK
<1>3. CASE U!InDevice = {}
  BY <1>1, <1>3 DEF U!Sent
<1>4. CASE U!InDevice # {}
  <2> PICK i \in U!InDevice : TRUE
    BY <1>4
  <2>1. U!InDevice = {i}
    BY DEF Looked
  <2>2. U!Sent = <<fifo[i]>> /\ U!Sent' = <<fifo'[i]>>
    BY <1>1, <2>1, SentOne DEF U!Sent
  <2> QED
    BY <1>2, <2>2
<1> QED
  BY <1>3, <1>4

\* The device sends a character of the ring, or an echo.
LEMMA SentTail ==
    ASSUME U!UartConstants, U!TypeOK, Looked, fifo # <<>>, fifo' = Tail(fifo)
    PROVE  \/ Len(U!Sent) = 1 /\ U!Sent' = <<>>
           \/ U!Sent' = U!Sent
<1>1. /\ Len(fifo) \in Nat \ {0}
      /\ \A i \in 1 .. Len(fifo) - 1 : fifo'[i] = fifo[i + 1]
      /\ U!InDevice = {i \in 1 .. Len(fifo) : fifo[i] # Echo}
      /\ U!InDevice' = {i \in 1 .. Len(fifo) - 1 : fifo[i + 1] # Echo}
  BY DeviceTail
<1>2. CASE 1 \in U!InDevice
  <2>1. U!InDevice = {1}
    BY <1>2 DEF Looked
  <2>2. U!InDevice' = {}
    <3> SUFFICES ASSUME NEW i \in U!InDevice' PROVE FALSE
      OBVIOUS
    <3>1. i \in Nat \ {0} /\ i + 1 \in U!InDevice
      BY <1>1
    <3> QED
      BY <2>1, <3>1
  <2>3. U!Sent = <<fifo[1]>> /\ U!Sent' = <<>>
    BY <2>1, <2>2, SentOne DEF U!Sent
  <2> QED
    BY <2>3
<1>3. CASE U!InDevice = {}
  <2>1. U!InDevice' = {}
    <3> SUFFICES ASSUME NEW i \in U!InDevice' PROVE FALSE
      OBVIOUS
    <3> QED
      BY <1>1, <1>3
  <2> QED
    BY <1>3, <2>1 DEF U!Sent
<1>4. CASE 1 \notin U!InDevice /\ U!InDevice # {}
  <2> PICK i \in U!InDevice : TRUE
    BY <1>4
  <2>1. U!InDevice = {i} /\ i \in 2 .. Len(fifo)
    BY <1>1, <1>4 DEF Looked
  <2>2. i - 1 \in 1 .. Len(fifo) - 1 /\ (i - 1) + 1 = i
    BY <1>1, <2>1
  <2>3. U!InDevice' = {i - 1}
    <3>1. i - 1 \in U!InDevice'
      BY <1>1, <2>2
    <3>2. ASSUME NEW j \in U!InDevice' PROVE j = i - 1
      <4>1. j \in Nat /\ j + 1 \in U!InDevice
        BY <1>1
      <4> QED
        BY <2>1, <4>1
    <3> QED
      BY <3>1, <3>2
  <2>4. fifo'[i - 1] = fifo[i]
    BY <1>1, <2>2
  <2>5. U!Sent = <<fifo[i]>> /\ U!Sent' = <<fifo'[i - 1]>>
    BY <2>1, <2>3, SentOne DEF U!Sent
  <2> QED
    BY <2>4, <2>5
<1> QED
  BY <1>2, <1>3, <1>4

Queue == U!Sent \o U!Waiting

LEMMA QueueKept == ASSUME UNCHANGED U!ring, fifo' = fifo PROVE Queue' = Queue
BY RingKept, DeviceKept DEF Queue

\* Every step puts a character into the queue, takes one from it, or does nothing to it.
LEMMA StepMaps ==
    ASSUME U!UartConstants, UIInv, U!Next
    PROVE  \/ /\ Len(Queue) < UART_TX_BUF_SIZE + 1
              /\ \E c \in Byte : Queue' = Append(Queue, c)
           \/ Queue # <<>> /\ Queue' = Tail(Queue)
           \/ Queue' = Queue
<1>1. /\ U!Sent \in Seq(Byte) /\ Len(U!Sent) <= 1 /\ Len(U!Sent) \in Nat
      /\ U!Waiting \in Seq(Byte) /\ Len(U!Waiting) = U!InRing /\ U!InRing \in Nat
  BY SentIs, WaitingIs DEF UIInv
<1>2. ASSUME NEW p \in Proc, U!Put(p)
      PROVE  /\ Len(Queue) < UART_TX_BUF_SIZE + 1
             /\ \E c \in Byte : Queue' = Append(Queue, c)
  <2> PICK c \in Byte : ubuf' = [ubuf EXCEPT ![U!Slot(uw)] = c]
    BY <1>2 DEF U!Put
  <2>1. U!Waiting' = Append(U!Waiting, c) /\ U!Sent' = U!Sent /\ U!InRing < UART_TX_BUF_SIZE
    BY <1>2, WaitingPut, AfterPut, DeviceKept DEF U!Put, UIInv, U!dev
  <2>2. Queue' = Append(Queue, c)
    BY <1>1, <2>1 DEF Queue
  <2>3. Len(Queue) = Len(U!Sent) + U!InRing
    BY <1>1 DEF Queue
  <2>4. UART_TX_BUF_SIZE \in Nat
    BY DEF U!UartConstants
  <2> HIDE DEF U!InRing
  <2> QED
    BY <1>1, <2>1, <2>2, <2>3, <2>4
<1>3. ASSUME NEW h \in Hart, U!Send(h) PROVE Queue' = Queue
  <2> DEFINE c == ubuf[U!Slot(ur)]
  <2>1. /\ upc[h] = "send" /\ uw # ur /\ U!InDevice = {}
        /\ ubuf' = ubuf /\ uw' = uw
        /\ fifo' = Append(fifo, c) /\ ur' = (ur + 1) % UINT64
    BY <1>3 DEF U!Send, U!At, UIInv, Looked
  <2>2. U!Waiting # <<>> /\ U!Waiting' = Tail(U!Waiting) /\ Head(U!Waiting) = c
    BY <2>1, WaitingSend DEF UIInv
  <2> HIDE DEF c
  <2>3. c \in Byte
    BY <1>1, <2>2
  <2>4. U!InDevice' = {Len(fifo) + 1} /\ fifo'[Len(fifo) + 1] = c
    BY <2>1, <2>3, DeviceAppend DEF UIInv, U!UartConstants
  <2>5. U!Sent' = <<c>> /\ U!Sent = <<>>
    BY <2>1, <2>4 DEF U!Sent
  <2> QED
    BY <1>1, <2>2, <2>5 DEF Queue
<1>4. ASSUME U!SyncSend PROVE Queue' = Queue
  BY <1>4, SentEcho, RingKept DEF U!SyncSend, UIInv, Queue
<1>5. ASSUME U!Transmit PROVE (Queue # <<>> /\ Queue' = Tail(Queue)) \/ Queue' = Queue
  <2>1. U!Waiting' = U!Waiting
    BY <1>5, RingKept DEF U!Transmit
  <2>2. CASE U!Sent' = U!Sent
    BY <2>1, <2>2 DEF Queue
  <2>3. CASE Len(U!Sent) = 1 /\ U!Sent' = <<>>
    <3> PICK c \in Byte : U!Sent = <<c>>
      BY <1>1, <2>3, OneOf
    <3>1. Queue' = U!Waiting
      BY <1>1, <2>1, <2>3 DEF Queue
    <3>2. <<c>> \o U!Waiting # <<>> /\ Tail(<<c>> \o U!Waiting) = U!Waiting
      BY <1>1
    <3> QED
      BY <3>1, <3>2 DEF Queue
  <2> QED
    BY <1>5, <2>2, <2>3, SentTail DEF U!Transmit, UIInv
<1>6. ASSUME NEW p \in Proc, U!Write(p) \/ U!WriteDone(p) \/ U!PutSleep(p) PROVE Queue' = Queue
  BY <1>6, QueueKept DEF U!Write, U!WriteDone, U!PutSleep, U!dev
<1>7. ASSUME NEW h \in Hart, U!Start(h) PROVE Queue' = Queue
  BY <1>7, QueueKept DEF U!Start, U!dev
<1>8. ASSUME U!Claim \/ U!Getc \/ U!SyncIdle \/ U!StartIntr \/ U!Arrive PROVE Queue' = Queue
  BY <1>8, QueueKept DEF U!Claim, U!Getc, U!SyncIdle, U!StartIntr, U!Arrive, U!dev
<1> QED
  BY <1>2, <1>3, <1>4, <1>5, <1>6, <1>7, <1>8 DEF U!Next, U!Uartputc, U!Uartintr, Hart

\* The characters of all writes leave the machine in the order in which uartputc() took
\* them, each once, whatever echo consoleintr() sends in between, and whatever
\* interrupt or writer it is that calls uartstart().
THEOREM UartIsFifo == ASSUME U!UartConstants PROVE U!Spec => U!InOrder
<1>1. U!Init => U!Output!Init
  <2> SUFFICES ASSUME U!Init PROVE U!Output!Init
    OBVIOUS
  <2>1. UIInv /\ uw = ur /\ fifo = <<>>
    BY UInitHolds DEF U!Init
  <2>2. U!Waiting = <<>>
    BY <2>1, FullIs, WaitingIs DEF UIInv
  <2>3. U!Sent = <<>>
    BY <2>1 DEF U!Sent, U!InDevice
  <2> QED
    BY <2>2, <2>3 DEF U!Output!Init
<1>2. UIInv /\ [U!Next]_(U!vars) => [U!Output!Next]_(U!Output!vars)
  <2> SUFFICES ASSUME UIInv, [U!Next]_(U!vars) PROVE [U!Output!Next]_(U!Output!vars)
    OBVIOUS
  <2>1. CASE UNCHANGED U!vars
    <3>1. Queue' = Queue
      BY <2>1, QueueKept DEF U!vars, U!dev
    <3> QED
      BY <3>1 DEF U!Output!vars, Queue
  <2>2. CASE U!Next
    <3>1. CASE /\ Len(Queue) < UART_TX_BUF_SIZE + 1
               /\ \E c \in Byte : Queue' = Append(Queue, c)
      BY <3>1 DEF U!Output!Next, U!Output!Put, Queue
    <3>2. CASE Queue # <<>> /\ Queue' = Tail(Queue)
      BY <3>2 DEF U!Output!Next, U!Output!Get, Queue
    <3>3. CASE Queue' = Queue
      BY <3>3 DEF U!Output!vars, Queue
    <3> QED
      BY <2>2, <3>1, <3>2, <3>3, StepMaps
  <2> QED
    BY <2>1, <2>2
<1> QED
  BY <1>1, <1>2, UartInvariant, PTL DEF U!Spec, U!InOrder, U!Output!Spec

-----------------------------------------------------------------------------
(* Console.                                                                *)

CPlace == {"user", "read", "reading", "empty"}
Ops    == [pc : CPlace, i : 0 .. MaxRead, n : 0 .. MaxRead]
Index  == 0 .. UINT - 1
Char   == Key \cup {"nul", "nl", "^D"}
RingOf == [0 .. INPUT_BUF_SIZE - 1 -> Key \cup {"nul", "nl", "^D"}]

\* A part of the ring: n bytes from index a on.
Part(f, a, n) == [k \in 1 .. n |-> f[C!Slot(a + k - 1)]]

Ready == Part(cbuf, cr, C!Minus(cw, cr))
Line  == Part(cbuf, cw, C!Minus(ce, cw))
Got   == [p \in Proc |-> IF cop[p].pc = "user" THEN None ELSE cop[p].i]

RingOK ==
    /\ cr \in Index /\ cw \in Index /\ ce \in Index /\ cbuf \in RingOf
    /\ C!Minus(cw, cr) <= C!Minus(ce, cr) /\ C!Minus(ce, cr) <= INPUT_BUF_SIZE

ProcsOK ==
    /\ clock \in Proc \cup {None} /\ casleep \subseteq Proc
    /\ ckilled \in [Proc -> BOOLEAN] /\ cop \in [Proc -> Ops]

CLocked == \A p \in Proc : clock = p <=> cop[p].pc \in {"reading", "empty"}

Waiting ==
    /\ casleep # {} => cr = cw
    /\ \A p \in Proc : cop[p].pc = "empty" => cr = cw

OneLine == \A k \in DOMAIN Line : Line[k] # "nl"

CIInv == RingOK /\ ProcsOK /\ CLocked /\ Waiting /\ OneLine
-----------------------------------------------------------------------------
(* The indices of the ring.                                                *)

LEMMA CSizes ==
    ASSUME C!ConsoleConstants
    PROVE  /\ UINT \in Nat /\ INPUT_BUF_SIZE \in Nat \ {0} /\ UINT > INPUT_BUF_SIZE
           /\ UINT % INPUT_BUF_SIZE = 0 /\ MaxRead \in Nat
BY DEF C!ConsoleConstants

LEMMA CNextIndex ==
    ASSUME C!ConsoleConstants, NEW a \in Index
    PROVE  /\ (a + 1) % UINT = IF a + 1 = UINT THEN 0 ELSE a + 1
           /\ (a + 1) % UINT \in Index
BY DEF C!ConsoleConstants, Index

LEMMA MinusIs ==
    ASSUME C!ConsoleConstants, NEW a \in Index, NEW b \in Index
    PROVE  /\ C!Minus(b, a) = IF a <= b THEN b - a ELSE b - a + UINT
           /\ C!Minus(b, a) \in Index
           /\ C!Minus(b, a) = 0 <=> a = b
           /\ a + C!Minus(b, a) = b \/ a + C!Minus(b, a) = b + UINT
BY DEF C!ConsoleConstants, C!Minus, Index

LEMMA BackIs ==
    ASSUME C!ConsoleConstants, NEW a \in Index, NEW k \in Index
    PROVE  /\ C!Minus(a, k) = IF k <= a THEN a - k ELSE a - k + UINT
           /\ C!Minus(a, k) \in Index
BY MinusIs

LEMMA CSlotType ==
    ASSUME C!ConsoleConstants, NEW c \in Int
    PROVE  C!Slot(c) \in 0 .. INPUT_BUF_SIZE - 1
BY Division DEF C!Slot, C!ConsoleConstants

LEMMA CSlotWraps ==
    ASSUME C!ConsoleConstants, NEW c \in Int
    PROVE  C!Slot(c + UINT) = C!Slot(c)
<1> DEFINE N == INPUT_BUF_SIZE
           q == c \div N
           k == UINT \div N
           m == c % N
<1>1. N \in Nat \ {0} /\ UINT \in Nat /\ UINT % N = 0
  BY CSizes
<1>2. c = N * q + m /\ UINT = N * k /\ q \in Int /\ k \in Int /\ m \in 0 .. N - 1
  BY <1>1, Division
<1> HIDE DEF q, k, m
<1>3. c + UINT = N * (q + k) + m
  BY <1>1, <1>2
<1>4. q + k \in Int /\ c + UINT \in Int
  BY <1>1, <1>2
<1>5. (c + UINT) % N = m
  BY <1>1, <1>2, <1>3, <1>4, Remainder
<1> QED
  BY <1>5 DEF m, C!Slot

LEMMA CSlotsDiffer ==
    ASSUME C!ConsoleConstants, NEW c \in Int, NEW d \in Int, c < d, d < c + INPUT_BUF_SIZE
    PROVE  C!Slot(c) # C!Slot(d)
<1> DEFINE N == INPUT_BUF_SIZE
           q == c \div N
           k == d \div N
<1>1. N \in Nat \ {0}
  BY CSizes
<1>2. c = N * q + (c % N) /\ d = N * k + (d % N) /\ q \in Int /\ k \in Int
  BY <1>1, Division
<1> SUFFICES ASSUME c % N = d % N PROVE FALSE
  BY DEF C!Slot
<1> HIDE DEF q, k
<1>3. d - c = N * k - N * q
  BY <1>1, <1>2, Division
<1>4. d - c = N * (k - q)
  BY <1>1, <1>2, <1>3
<1>5. k - q \in Int /\ k - q > 0 /\ k - q < 1
  BY <1>1, <1>2, <1>4
<1> QED
  BY <1>5

\* The same slot, counted from two indices.
LEMMA SlotFrom ==
    ASSUME C!ConsoleConstants, NEW c \in Int, NEW d \in Int, c = d \/ c = d + UINT
    PROVE  C!Slot(c) = C!Slot(d)
BY CSlotWraps
-----------------------------------------------------------------------------
(* Parts of the ring.                                                      *)

LEMMA SameSeq ==
    ASSUME NEW S, NEW s \in Seq(S), NEW t \in Seq(S), NEW n \in Nat, Len(s) = n, Len(t) = n,
           \A k \in 1 .. n : s[k] = t[k]
    PROVE  s = t
OBVIOUS

LEMMA AppendConcat ==
    ASSUME NEW S, NEW s \in Seq(S), NEW t \in Seq(S), NEW c \in S
    PROVE  Append(s \o t, c) = s \o Append(t, c)
<1>1. s \o t \in Seq(S) /\ <<c>> \in Seq(S)
  OBVIOUS
<1>2. Append(s \o t, c) = (s \o t) \o <<c>> /\ Append(t, c) = t \o <<c>>
  BY <1>1, AppendIsConcat
<1>3. (s \o t) \o <<c>> = s \o (t \o <<c>>)
  BY <1>1, ConcatAssociative
<1> QED
  BY <1>2, <1>3

LEMMA AppendIs ==
    ASSUME NEW S, NEW s \in Seq(S), NEW c \in S, NEW n \in Nat, Len(s) = n,
           NEW t \in Seq(S), Len(t) = n + 1,
           \A k \in 1 .. n : t[k] = s[k], t[n + 1] = c
    PROVE  t = Append(s, c)
OBVIOUS

LEMMA PartType ==
    ASSUME C!ConsoleConstants, NEW f \in RingOf, NEW a \in Int, NEW n \in Nat
    PROVE  Part(f, a, n) \in Seq(Char) /\ Len(Part(f, a, n)) = n
<1>1. ASSUME NEW k \in 1 .. n PROVE f[C!Slot(a + k - 1)] \in Char
  <2>1. a + k - 1 \in Int
    OBVIOUS
  <2>2. C!Slot(a + k - 1) \in 0 .. INPUT_BUF_SIZE - 1
    BY <2>1, CSlotType
  <2> QED
    BY <2>2 DEF RingOf, Char
<1>2. Part(f, a, n) \in [1 .. n -> Char]
  BY <1>1 DEF Part
<1> QED
  BY <1>2

LEMMA PartTail ==
    ASSUME C!ConsoleConstants, NEW f \in RingOf, NEW a \in Int, NEW b \in Int, NEW n \in Nat \ {0},
           a + 1 = b \/ a + 1 = b + UINT
    PROVE  /\ Part(f, a, n) # <<>> /\ Head(Part(f, a, n)) = f[C!Slot(a)]
           /\ Part(f, b, n - 1) = Tail(Part(f, a, n))
<1>1. Part(f, a, n) \in Seq(Char) /\ Len(Part(f, a, n)) = n
  BY PartType
<1>2. ASSUME NEW k \in 1 .. n PROVE Part(f, a, n)[k] = f[C!Slot(a + k - 1)]
  BY DEF Part
<1>3. Part(f, a, n)[1] = f[C!Slot(a)]
  <2>1. 1 \in 1 .. n /\ a + 1 - 1 = a
    OBVIOUS
  <2> QED
    BY <1>2, <2>1
<1>4. ASSUME NEW k \in 1 .. n - 1 PROVE f[C!Slot(b + k - 1)] = Part(f, a, n)[k + 1]
  <2> DEFINE c == a + (k + 1) - 1
             d == b + k - 1
  <2>0. UINT \in Int /\ k \in Int
    BY CSizes
  <2>1. c \in Int /\ d \in Int /\ (c = d \/ c = d + UINT)
    BY <2>0
  <2> HIDE DEF c, d
  <2>2. C!Slot(c) = C!Slot(d)
    BY <2>1, SlotFrom
  <2>3. k + 1 \in 1 .. n
    OBVIOUS
  <2> QED
    BY <1>2, <2>2, <2>3 DEF c, d
<1>5. Part(f, b, n - 1) = [k \in 1 .. n - 1 |-> Part(f, a, n)[k + 1]]
  BY <1>4 DEF Part
<1> HIDE DEF Part
<1> QED
  BY <1>1, <1>3, <1>5

LEMMA PartConcat ==
    ASSUME C!ConsoleConstants, NEW f \in RingOf, NEW a \in Int, NEW b \in Int,
           NEW m \in Nat, NEW n \in Nat, a + m = b \/ a + m = b + UINT
    PROVE  Part(f, a, m) \o Part(f, b, n) = Part(f, a, m + n)
<1>1. /\ Part(f, a, m) \in Seq(Char) /\ Len(Part(f, a, m)) = m
      /\ Part(f, b, n) \in Seq(Char) /\ Len(Part(f, b, n)) = n
      /\ Part(f, a, m + n) \in Seq(Char) /\ Len(Part(f, a, m + n)) = m + n
  BY PartType
<1>2. ASSUME NEW k \in 1 .. m PROVE Part(f, a, m)[k] = Part(f, a, m + n)[k]
  BY DEF Part
<1>3. ASSUME NEW k \in 1 .. n PROVE Part(f, b, n)[k] = Part(f, a, m + n)[m + k]
  <2> DEFINE c == a + (m + k) - 1
             d == b + k - 1
  <2>0. UINT \in Int /\ k \in Int
    BY CSizes
  <2>1. c \in Int /\ d \in Int /\ (c = d \/ c = d + UINT)
    BY <2>0
  <2> HIDE DEF c, d
  <2>2. C!Slot(c) = C!Slot(d)
    BY <2>1, SlotFrom
  <2>3. m + k \in 1 .. m + n
    OBVIOUS
  <2> QED
    BY <2>2, <2>3 DEF Part, c, d
<1> HIDE DEF Part
<1>4. ASSUME NEW k \in 1 .. m + n
      PROVE  (Part(f, a, m) \o Part(f, b, n))[k] = Part(f, a, m + n)[k]
  <2>1. CASE k <= m
    BY <1>1, <1>2, <2>1
  <2>2. CASE k > m
    <3>1. k - m \in 1 .. n /\ m + (k - m) = k
      BY <2>2
    <3>2. Part(f, b, n)[k - m] = Part(f, a, m + n)[k]
      BY <1>3, <3>1
    <3> QED
      BY <1>1, <2>2, <3>1, <3>2
  <2>3. k <= m \/ k > m
    OBVIOUS
  <2> QED
    BY <2>1, <2>2, <2>3
<1>5. Part(f, a, m) \o Part(f, b, n) \in Seq(Char) /\ Len(Part(f, a, m) \o Part(f, b, n)) = m + n
  BY <1>1
<1> DEFINE s == Part(f, a, m) \o Part(f, b, n)
           t == Part(f, a, m + n)
           l == m + n
<1>6. /\ l \in Nat /\ s \in Seq(Char) /\ t \in Seq(Char) /\ Len(s) = l /\ Len(t) = l
      /\ \A k \in 1 .. l : s[k] = t[k]
  BY <1>1, <1>4, <1>5
<1> HIDE DEF s, t, l
<1>7. s = t
  BY ONLY <1>6, SameSeq
<1> QED
  BY <1>7 DEF s, t

LEMMA PartCut ==
    ASSUME C!ConsoleConstants, NEW f \in RingOf, NEW a \in Int, NEW n \in Nat, NEW m \in 0 .. n
    PROVE  Part(f, a, m) = SubSeq(Part(f, a, n), 1, m)
<1>1. Part(f, a, n) \in Seq(Char) /\ Len(Part(f, a, n)) = n
  BY PartType
<1>2. \A k \in 1 .. m : Part(f, a, n)[k] = f[C!Slot(a + k - 1)]
  BY DEF Part
<1>3. Part(f, a, m) = [k \in 1 .. m |-> Part(f, a, n)[k]]
  BY <1>2 DEF Part
<1> HIDE DEF Part
<1> QED
  BY <1>1, <1>3

Stored(f, b, c, g) == g = [f EXCEPT ![C!Slot(b)] = c]

\* A byte stored behind the part, and within the ring.
LEMMA PartPut ==
    ASSUME C!ConsoleConstants, NEW f \in RingOf, NEW a \in Int, NEW b \in Int,
           NEW n \in 0 .. INPUT_BUF_SIZE - 1, a + n = b \/ a + n = b + UINT, NEW c \in Char,
           NEW g, Stored(f, b, c, g), NEW l, l = n + 1
    PROVE  /\ g \in RingOf /\ Part(g, a, n) = Part(f, a, n)
           /\ Part(g, a, l) = Append(Part(f, a, n), c)
<1>1. n \in Nat /\ n + 1 \in Nat /\ INPUT_BUF_SIZE \in Nat /\ n < INPUT_BUF_SIZE
  BY CSizes
<1>2. g \in RingOf /\ g = [f EXCEPT ![C!Slot(b)] = c]
  BY DEF RingOf, Char, Stored
<1>3. C!Slot(b) = C!Slot(a + n)
  <2>1. CASE a + n = b
    BY <2>1
  <2>2. CASE a + n = b + UINT
    BY <2>2, CSlotWraps
  <2> QED
    BY <2>1, <2>2
<1>4. ASSUME NEW k \in 1 .. n PROVE g[C!Slot(a + k - 1)] = f[C!Slot(a + k - 1)]
  <2>1. a + k - 1 \in Int /\ a + n \in Int /\ a + k - 1 < a + n /\ a + n < a + k - 1 + INPUT_BUF_SIZE
    BY <1>1
  <2>2. C!Slot(a + k - 1) # C!Slot(a + n) /\ C!Slot(a + k - 1) \in 0 .. INPUT_BUF_SIZE - 1
    BY <2>1, CSlotsDiffer, CSlotType
  <2> QED
    BY <1>2, <1>3, <2>2 DEF RingOf
<1>5. g[C!Slot(a + (n + 1) - 1)] = c
  <2>1. a + (n + 1) - 1 = a + n /\ a + n \in Int
    BY <1>1
  <2>2. C!Slot(a + n) \in 0 .. INPUT_BUF_SIZE - 1
    BY <2>1, CSlotType
  <2> QED
    BY <1>2, <1>3, <2>1, <2>2 DEF RingOf
<1>6. Part(g, a, n) = Part(f, a, n)
  BY <1>4 DEF Part
<1> DEFINE s == Part(f, a, n)
           t == Part(g, a, n + 1)
<1>7. s \in Seq(Char) /\ Len(s) = n /\ t \in Seq(Char) /\ Len(t) = n + 1
  BY <1>1, <1>2, PartType
<1>8. /\ \A k \in 1 .. n : s[k] = f[C!Slot(a + k - 1)]
      /\ \A k \in 1 .. n + 1 : t[k] = g[C!Slot(a + k - 1)]
  BY DEF Part
<1> HIDE DEF s, t
<1>9. t[n + 1] = c /\ \A k \in 1 .. n : t[k] = s[k]
  <2>1. n + 1 \in 1 .. n + 1
    BY <1>1
  <2>2. t[n + 1] = c
    BY <1>5, <1>8, <2>1
  <2>3. ASSUME NEW k \in 1 .. n PROVE t[k] = s[k]
    <3>1. k \in 1 .. n + 1
      BY <1>1
    <3> QED
      BY <1>4, <1>8, <3>1
  <2> QED
    BY <2>2, <2>3
<1>10. t = Append(s, c)
  BY <1>1, <1>7, <1>9, AppendIs
<1> QED
  BY <1>2, <1>6, <1>10 DEF s, t

-----------------------------------------------------------------------------
(* What the steps do to the lines.                                         *)

LEMMA ForwardIs ==
    ASSUME C!ConsoleConstants, NEW a \in Index, NEW b \in Index, C!Minus(b, a) < INPUT_BUF_SIZE,
           NEW c, c = (b + 1) % UINT
    PROVE  c \in Index /\ C!Minus(c, a) = C!Minus(b, a) + 1
<1>1. UINT \in Nat /\ INPUT_BUF_SIZE \in Nat \ {0} /\ UINT > INPUT_BUF_SIZE
  BY CSizes
<1>2. c \in Index /\ c = IF b + 1 = UINT THEN 0 ELSE b + 1
  BY CNextIndex
<1>3. C!Minus(b, a) = IF a <= b THEN b - a ELSE b - a + UINT
  BY MinusIs
<1>4. C!Minus(c, a) = IF a <= c THEN c - a ELSE c - a + UINT
  BY <1>2, MinusIs
<1> HIDE DEF Index
<1>5. a \in 0 .. UINT - 1 /\ b \in 0 .. UINT - 1
  BY DEF Index
<1> QED
  BY <1>1, <1>2, <1>3, <1>4, <1>5

LEMMA BackwardIs ==
    ASSUME C!ConsoleConstants, NEW a \in Index, NEW b \in Index, NEW k \in 0 .. C!Minus(b, a),
           NEW c, c = C!Minus(b, k)
    PROVE  c \in Index /\ C!Minus(c, a) = C!Minus(b, a) - k
<1>1. UINT \in Nat
  BY CSizes
<1>2. C!Minus(b, a) = (IF a <= b THEN b - a ELSE b - a + UINT) /\ C!Minus(b, a) \in Index
  BY MinusIs
<1>3. k \in Index
  BY <1>1, <1>2 DEF Index
<1>4. c = (IF k <= b THEN b - k ELSE b - k + UINT) /\ c \in Index
  BY <1>3, BackIs
<1>5. C!Minus(c, a) = IF a <= c THEN c - a ELSE c - a + UINT
  BY <1>4, MinusIs
<1>6. a \in 0 .. UINT - 1 /\ b \in 0 .. UINT - 1
  BY DEF Index
<1> QED
  BY <1>1, <1>2, <1>4, <1>5, <1>6

LEMMA OnwardIs ==
    ASSUME C!ConsoleConstants, NEW a \in Index, NEW b \in Index, a # b,
           NEW c, c = (a + 1) % UINT
    PROVE  /\ c \in Index /\ C!Minus(b, c) = C!Minus(b, a) - 1
           /\ a + 1 = c \/ a + 1 = c + UINT
<1>1. UINT \in Nat
  BY CSizes
<1>2. c \in Index /\ c = IF a + 1 = UINT THEN 0 ELSE a + 1
  BY CNextIndex
<1>3. C!Minus(b, a) = IF a <= b THEN b - a ELSE b - a + UINT
  BY MinusIs
<1>4. C!Minus(b, c) = IF c <= b THEN b - c ELSE b - c + UINT
  BY <1>2, MinusIs
<1>5. a \in 0 .. UINT - 1 /\ b \in 0 .. UINT - 1
  BY DEF Index
<1> QED
  BY <1>1, <1>2, <1>3, <1>4, <1>5

LEMMA RingIs ==
    ASSUME C!ConsoleConstants, RingOK
    PROVE  /\ C!Minus(cw, cr) \in Nat /\ C!Minus(ce, cw) \in Nat /\ C!Minus(ce, cr) \in Nat
           /\ C!Minus(ce, cr) = C!Minus(cw, cr) + C!Minus(ce, cw)
           /\ cr + C!Minus(cw, cr) = cw \/ cr + C!Minus(cw, cr) = cw + UINT
           /\ cw + C!Minus(ce, cw) = ce \/ cw + C!Minus(ce, cw) = ce + UINT
           /\ cr + C!Minus(ce, cr) = ce \/ cr + C!Minus(ce, cr) = ce + UINT
           /\ cr \in Int /\ cw \in Int /\ ce \in Int
<1>1. UINT \in Nat
  BY CSizes
<1>2. /\ C!Minus(cw, cr) = IF cr <= cw THEN cw - cr ELSE cw - cr + UINT
      /\ C!Minus(ce, cr) = IF cr <= ce THEN ce - cr ELSE ce - cr + UINT
      /\ C!Minus(ce, cw) = IF cw <= ce THEN ce - cw ELSE ce - cw + UINT
      /\ cr \in 0 .. UINT - 1 /\ cw \in 0 .. UINT - 1 /\ ce \in 0 .. UINT - 1
      /\ C!Minus(cw, cr) <= C!Minus(ce, cr)
  BY MinusIs DEF RingOK, Index
<1> QED
  BY <1>1, <1>2

LEMMA LinesAre ==
    ASSUME C!ConsoleConstants, RingOK
    PROVE  /\ Ready \in Seq(Char) /\ Len(Ready) = C!Minus(cw, cr)
           /\ Line \in Seq(Char) /\ Len(Line) = C!Minus(ce, cw)
           /\ Ready \o Line = Part(cbuf, cr, C!Minus(ce, cr))
<1>1. /\ C!Minus(cw, cr) \in Nat /\ C!Minus(ce, cw) \in Nat
      /\ C!Minus(ce, cr) = C!Minus(cw, cr) + C!Minus(ce, cw)
      /\ cr + C!Minus(cw, cr) = cw \/ cr + C!Minus(cw, cr) = cw + UINT
      /\ cr \in Int /\ cw \in Int /\ cbuf \in RingOf
  BY RingIs DEF RingOK
<1> DEFINE m == C!Minus(cw, cr)
           n == C!Minus(ce, cw)
<1>2. m \in Nat /\ n \in Nat /\ C!Minus(ce, cr) = m + n /\ (cr + m = cw \/ cr + m = cw + UINT)
  BY <1>1
<1>3. Ready = Part(cbuf, cr, m) /\ Line = Part(cbuf, cw, n)
  BY DEF Ready, Line
<1> HIDE DEF m, n
<1>4. Ready \in Seq(Char) /\ Len(Ready) = m /\ Line \in Seq(Char) /\ Len(Line) = n
  BY <1>1, <1>2, <1>3, PartType
<1>5. Ready \o Line = Part(cbuf, cr, m + n)
  BY <1>1, <1>2, <1>3, PartConcat
<1>6. m = C!Minus(cw, cr) /\ n = C!Minus(ce, cw) /\ m + n = C!Minus(ce, cr)
  BY <1>2 DEF m, n
<1>7. Ready \o Line = Part(cbuf, cr, C!Minus(ce, cr))
  BY <1>5, <1>6
<1> QED
  BY <1>4, <1>6, <1>7

LEMMA LinesKept == ASSUME UNCHANGED C!cons PROVE Ready' = Ready /\ Line' = Line /\ RingOK' = RingOK
BY DEF C!cons, Ready, Line, Part, C!Minus, C!Slot, RingOK

\* A character typed is appended to the line, which may end with it.
LEMMA TypeEffect ==
    ASSUME C!ConsoleConstants, RingOK, NEW k \in Char, C!Minus(ce, cr) < INPUT_BUF_SIZE,
           cbuf' = [cbuf EXCEPT ![C!Slot(ce)] = k], ce' = (ce + 1) % UINT, cr' = cr, cw' \in {cw, ce'}
    PROVE  /\ RingOK' /\ C!Minus(ce', cr) = C!Minus(ce, cr) + 1
           /\ cw' = cw => Ready' = Ready /\ Line' = Append(Line, k)
           /\ cw' = ce' => Ready' = Ready \o Append(Line, k) /\ Line' = <<>>
<1>1. /\ C!Minus(cw, cr) \in Nat /\ C!Minus(ce, cw) \in Nat /\ C!Minus(ce, cr) \in Nat
      /\ C!Minus(ce, cr) = C!Minus(cw, cr) + C!Minus(ce, cw)
      /\ cr + C!Minus(cw, cr) = cw \/ cr + C!Minus(cw, cr) = cw + UINT
      /\ cw + C!Minus(ce, cw) = ce \/ cw + C!Minus(ce, cw) = ce + UINT
      /\ cr + C!Minus(ce, cr) = ce \/ cr + C!Minus(ce, cr) = ce + UINT
      /\ cr \in Int /\ cw \in Int /\ ce \in Int
  BY RingIs
<1>2. INPUT_BUF_SIZE \in Nat \ {0}
  BY CSizes
<1>3. /\ C!Minus(cw, cr) \in 0 .. INPUT_BUF_SIZE - 1
      /\ C!Minus(ce, cw) \in 0 .. INPUT_BUF_SIZE - 1
      /\ C!Minus(ce, cr) \in 0 .. INPUT_BUF_SIZE - 1
  BY <1>1, <1>2
<1>4. /\ ce' \in Index /\ C!Minus(ce', cr) = C!Minus(ce, cr) + 1 /\ C!Minus(ce', cw) = C!Minus(ce, cw) + 1
  <2>1. C!Minus(ce, cr) < INPUT_BUF_SIZE /\ C!Minus(ce, cw) < INPUT_BUF_SIZE
    BY <1>2, <1>3
  <2> QED
    BY <2>1, ForwardIs DEF RingOK
<1>5. /\ cbuf' \in RingOf
      /\ Part(cbuf', cw, C!Minus(ce, cw)) = Line /\ Part(cbuf', cw, C!Minus(ce, cw) + 1) = Append(Line, k)
      /\ Part(cbuf', cr, C!Minus(ce, cr)) = Part(cbuf, cr, C!Minus(ce, cr))
      /\ Part(cbuf', cr, C!Minus(ce, cr) + 1) = Append(Ready \o Line, k)
  <2> DEFINE m == C!Minus(ce, cw)
             n == C!Minus(ce, cr)
             g == cbuf'
             m1 == m + 1
             n1 == n + 1
  <2>1. /\ m \in 0 .. INPUT_BUF_SIZE - 1 /\ n \in 0 .. INPUT_BUF_SIZE - 1
        /\ cw + m = ce \/ cw + m = ce + UINT
        /\ cr + n = ce \/ cr + n = ce + UINT
        /\ Line = Part(cbuf, cw, m) /\ Ready \o Line = Part(cbuf, cr, n) /\ cbuf \in RingOf
    BY <1>1, <1>3, LinesAre DEF Line, RingOK
  <2>a. Stored(cbuf, ce, k, g)
    BY DEF Stored
  <2>b. m1 = m + 1 /\ n1 = n + 1
    OBVIOUS
  <2> HIDE DEF m, n, g, m1, n1
  <2>2. /\ g \in RingOf /\ Part(g, cw, m) = Part(cbuf, cw, m)
        /\ Part(g, cw, m1) = Append(Part(cbuf, cw, m), k)
    <3>1. /\ cw \in Int /\ ce \in Int /\ cbuf \in RingOf /\ k \in Char /\ Stored(cbuf, ce, k, g)
          /\ m1 = m + 1 /\ m \in 0 .. INPUT_BUF_SIZE - 1
          /\ cw + m = ce \/ cw + m = ce + UINT
      BY <1>1, <2>1, <2>a, <2>b
    <3> QED
      BY ONLY C!ConsoleConstants, <3>1, PartPut
  <2>3. /\ g \in RingOf /\ Part(g, cr, n) = Part(cbuf, cr, n)
        /\ Part(g, cr, n1) = Append(Part(cbuf, cr, n), k)
    <3>1. /\ cr \in Int /\ ce \in Int /\ cbuf \in RingOf /\ k \in Char /\ Stored(cbuf, ce, k, g)
          /\ n1 = n + 1 /\ n \in 0 .. INPUT_BUF_SIZE - 1
          /\ cr + n = ce \/ cr + n = ce + UINT
      BY <1>1, <2>1, <2>a, <2>b
    <3> QED
      BY ONLY C!ConsoleConstants, <3>1, PartPut
  <2> QED
    BY <2>1, <2>2, <2>3 DEF m, n, g, m1, n1
<1>6. Part(cbuf', cr, C!Minus(cw, cr)) = Ready
  <2>1. Part(cbuf', cr, C!Minus(ce, cr)) = Part(cbuf, cr, C!Minus(ce, cr))
    BY <1>5
  <2>2. C!Minus(cw, cr) \in 0 .. C!Minus(ce, cr)
    BY <1>1
  <2>3. Part(cbuf', cr, C!Minus(cw, cr)) = SubSeq(Part(cbuf', cr, C!Minus(ce, cr)), 1, C!Minus(cw, cr))
    BY <1>1, <1>5, <2>2, PartCut
  <2>4. Part(cbuf, cr, C!Minus(cw, cr)) = SubSeq(Part(cbuf, cr, C!Minus(ce, cr)), 1, C!Minus(cw, cr))
    BY <1>1, <2>2, PartCut DEF RingOK
  <2> QED
    BY <2>1, <2>3, <2>4 DEF Ready
<1>7. CASE cw' = cw
  <2>1. Ready' = Part(cbuf', cr, C!Minus(cw, cr)) /\ Line' = Part(cbuf', cw, C!Minus(ce', cw))
    BY <1>7 DEF Ready, Line, Part, C!Minus, C!Slot
  <2>2. RingOK'
    <3>1. C!Minus(cw, cr)' = C!Minus(cw, cr) /\ C!Minus(ce, cr)' = C!Minus(ce', cr)
      BY <1>7 DEF C!Minus
    <3>2. C!Minus(cw, cr) <= C!Minus(ce', cr) /\ C!Minus(ce', cr) <= INPUT_BUF_SIZE
      BY <1>1, <1>2, <1>3, <1>4
    <3> QED
      BY <1>4, <1>5, <1>7, <3>1, <3>2 DEF RingOK
  <2>3. Ready' = Ready /\ Line' = Append(Line, k)
    BY <1>4, <1>5, <1>6, <2>1
  <2>4. cw' # ce'
    <3>1. C!Minus(ce', cw) # 0
      BY <1>1, <1>4
    <3> QED
      BY <1>4, <1>7, <3>1, MinusIs DEF RingOK
  <2> QED
    BY <1>4, <2>2, <2>3, <2>4
<1>8. CASE cw' = ce'
  <2>1. C!Minus(ce', ce') = 0
    BY <1>4, MinusIs
  <2>2. Ready' = Part(cbuf', cr, C!Minus(ce', cr)) /\ Line' = Part(cbuf', ce', C!Minus(ce', ce'))
    BY <1>8 DEF Ready, Line, Part, C!Minus, C!Slot
  <2>3. RingOK'
    <3>1. C!Minus(cw, cr)' = C!Minus(ce', cr) /\ C!Minus(ce, cr)' = C!Minus(ce', cr)
      BY <1>8 DEF C!Minus
    <3>2. C!Minus(ce', cr) <= C!Minus(ce', cr) /\ C!Minus(ce', cr) <= INPUT_BUF_SIZE
      BY <1>1, <1>2, <1>3, <1>4
    <3> QED
      BY <1>4, <1>5, <1>8, <3>1, <3>2 DEF RingOK
  <2>4. Line' = <<>>
    BY <2>1, <2>2 DEF Part
  <2>5. Ready' = Append(Ready \o Line, k)
    BY <1>4, <1>5, <2>2
  <2>6. Append(Ready \o Line, k) = Ready \o Append(Line, k)
    <3>1. Ready \in Seq(Char) /\ Line \in Seq(Char)
      BY LinesAre
    <3> QED
      BY <3>1, AppendConcat
  <2>7. cw' # cw
    <3>1. C!Minus(ce', cw) # 0
      BY <1>1, <1>4
    <3> QED
      BY <1>4, <1>8, <3>1, MinusIs DEF RingOK
  <2> QED
    BY <1>4, <2>3, <2>4, <2>5, <2>6, <2>7
<1> QED
  BY <1>7, <1>8

\* Editing takes characters from the end of the line.
LEMMA EraseEffect ==
    ASSUME C!ConsoleConstants, RingOK, NEW k \in 0 .. C!Minus(ce, cw), ce' = C!Minus(ce, k),
           UNCHANGED <<cbuf, cr, cw>>
    PROVE  /\ RingOK' /\ Ready' = Ready
           /\ Line' = SubSeq(Line, 1, Len(Line) - k)
<1>1. /\ C!Minus(cw, cr) \in Nat /\ C!Minus(ce, cw) \in Nat /\ C!Minus(ce, cr) \in Nat
      /\ C!Minus(ce, cr) = C!Minus(cw, cr) + C!Minus(ce, cw) /\ cw \in Int
  BY RingIs
<1>2. INPUT_BUF_SIZE \in Nat \ {0}
  BY CSizes
<1>3. ce' \in Index /\ C!Minus(ce', cw) = C!Minus(ce, cw) - k
  BY BackwardIs DEF RingOK
<1>4. C!Minus(ce', cr) = C!Minus(ce, cr) - k
  <2>1. k \in 0 .. C!Minus(ce, cr)
    BY <1>1
  <2> QED
    BY <2>1, BackwardIs DEF RingOK
<1>5. RingOK'
  <2>1. C!Minus(cw, cr)' = C!Minus(cw, cr) /\ C!Minus(ce, cr)' = C!Minus(ce', cr)
    BY DEF C!Minus
  <2>2. C!Minus(cw, cr) <= C!Minus(ce, cr) - k /\ C!Minus(ce, cr) - k <= INPUT_BUF_SIZE
    BY <1>1, <1>2 DEF RingOK
  <2> QED
    BY <1>3, <1>4, <2>1, <2>2 DEF RingOK
<1>6. Ready' = Ready /\ Line' = Part(cbuf, cw, C!Minus(ce', cw))
  BY DEF Ready, Line, Part, C!Minus, C!Slot
<1>7. Part(cbuf, cw, C!Minus(ce, cw) - k) = SubSeq(Line, 1, C!Minus(ce, cw) - k)
  <2>1. C!Minus(ce, cw) - k \in 0 .. C!Minus(ce, cw)
    BY <1>1
  <2> QED
    BY <1>1, <2>1, PartCut DEF Line, RingOK
<1>8. Len(Line) = C!Minus(ce, cw)
  BY LinesAre
<1> QED
  BY <1>3, <1>5, <1>6, <1>7, <1>8

\* Reading takes bytes from the front of what is ready.
LEMMA TakeEffect ==
    ASSUME C!ConsoleConstants, RingOK, cr # cw, cr' = (cr + 1) % UINT, UNCHANGED <<cbuf, cw, ce>>
    PROVE  /\ RingOK' /\ Line' = Line
           /\ Ready # <<>> /\ Head(Ready) = C!Next1 /\ Ready' = Tail(Ready)
<1>1. /\ C!Minus(cw, cr) \in Nat /\ C!Minus(ce, cw) \in Nat /\ C!Minus(ce, cr) \in Nat
      /\ C!Minus(ce, cr) = C!Minus(cw, cr) + C!Minus(ce, cw) /\ cr \in Int
  BY RingIs
<1>2. INPUT_BUF_SIZE \in Nat \ {0}
  BY CSizes
<1>3. /\ cr' \in Index /\ C!Minus(cw, cr') = C!Minus(cw, cr) - 1
      /\ cr + 1 = cr' \/ cr + 1 = cr' + UINT
  BY OnwardIs DEF RingOK
<1>4. C!Minus(cw, cr) \in Nat \ {0} /\ cr # ce
  <2>1. C!Minus(cw, cr) # 0
    BY MinusIs DEF RingOK
  <2>2. C!Minus(ce, cr) # 0
    BY <1>1, <2>1
  <2> QED
    BY <1>1, <2>1, <2>2, MinusIs DEF RingOK
<1>5. C!Minus(ce, cr') = C!Minus(ce, cr) - 1
  BY <1>4, OnwardIs DEF RingOK
<1>6. RingOK'
  <2>1. C!Minus(cw, cr)' = C!Minus(cw, cr') /\ C!Minus(ce, cr)' = C!Minus(ce, cr')
    BY DEF C!Minus
  <2>2. C!Minus(cw, cr) - 1 <= C!Minus(ce, cr) - 1 /\ C!Minus(ce, cr) - 1 <= INPUT_BUF_SIZE
    BY <1>1, <1>2 DEF RingOK
  <2> QED
    BY <1>3, <1>5, <2>1, <2>2 DEF RingOK
<1>7. Line' = Line /\ Ready' = Part(cbuf, cr', C!Minus(cw, cr'))
  BY DEF Ready, Line, Part, C!Minus, C!Slot
<1>8. cr' \in Int
  BY <1>3, CSizes DEF Index
<1>9. /\ Ready # <<>> /\ Head(Ready) = C!Next1
      /\ Part(cbuf, cr', C!Minus(cw, cr) - 1) = Tail(Ready)
  <2>1. cbuf \in RingOf /\ cr \in Int /\ cr' \in Int
    BY <1>1, <1>8 DEF RingOK
  <2> QED BY <1>1, <1>3, <1>4, <2>1, PartTail DEF Ready, C!Next1
<1> QED
  BY <1>3, <1>6, <1>7, <1>9

-----------------------------------------------------------------------------
(* The steps.                                                              *)

Others(p) == \A q \in Proc : q # p => cop'[q] = cop[q]

LEMMA CGotoIs ==
    ASSUME NEW p \in Proc, NEW l \in CPlace, cop \in [Proc -> Ops], C!Goto(p, l)
    PROVE  /\ cop' \in [Proc -> Ops] /\ Others(p)
           /\ cop'[p].pc = l /\ cop'[p].i = cop[p].i
BY DEF C!Goto, Others, Ops

LEMMA LeaveIs ==
    ASSUME C!ConsoleConstants, NEW p \in Proc, cop \in [Proc -> Ops], C!Leave(p)
    PROVE  cop' \in [Proc -> Ops] /\ Others(p) /\ cop'[p].pc = "user" /\ clock' = None
BY CSizes DEF C!Leave, Others, Ops, C!User, CPlace

LEMMA GotIs ==
    ASSUME NEW p \in Proc, Others(p)
    PROVE  Got' = [Got EXCEPT ![p] = IF cop'[p].pc = "user" THEN None ELSE cop'[p].i]
BY DEF Got, Others

LEMMA GotKept ==
    ASSUME NEW p \in Proc, Others(p), cop[p].pc # "user", cop'[p].pc # "user", cop'[p].i = cop[p].i
    PROVE  Got' = Got
BY DEF Got, Others

LEMMA TypeKeeps ==
    ASSUME C!ConsoleConstants, CIInv, NEW c \in Key \cup {"nl", "cr", "^D"}, C!Type(c)
    PROVE  /\ CIInv' /\ Got' = Got
           /\ \E k \in Key \cup {"nl", "^D"} :
                /\ Len(Ready \o Line) < INPUT_BUF_SIZE
                /\ IF k \in {"nl", "^D"} \/ Len(Ready \o Line) + 1 = INPUT_BUF_SIZE
                   THEN Ready' = Ready \o Append(Line, k) /\ Line' = <<>>
                   ELSE Line' = Append(Line, k) /\ Ready' = Ready
<1> DEFINE k    == IF c = "cr" THEN "nl" ELSE c
           ends == k \in {"nl", "^D"} \/ C!Minus(ce, cr) + 1 = INPUT_BUF_SIZE
<1>1. k \in Key \cup {"nl", "^D"} /\ k \in Char
  BY DEF Char
<1>2. /\ clock = None /\ C!Minus(ce, cr) < INPUT_BUF_SIZE
      /\ cbuf' = [cbuf EXCEPT ![C!Slot(ce)] = k] /\ ce' = (ce + 1) % UINT
      /\ cr' = cr /\ clock' = clock /\ cop' = cop /\ ckilled' = ckilled
      /\ IF k \in {"nl", "^D"} \/ C!Minus(ce', cr) = INPUT_BUF_SIZE
         THEN cw' = ce' /\ casleep' = {}
         ELSE cw' = cw /\ casleep' = casleep
  BY DEF C!Type
<1> HIDE DEF k
<1>3. /\ RingOK' /\ C!Minus(ce', cr) = C!Minus(ce, cr) + 1
      /\ cw' = cw => Ready' = Ready /\ Line' = Append(Line, k)
      /\ cw' = ce' => Ready' = Ready \o Append(Line, k) /\ Line' = <<>>
  <2>1. cw' \in {cw, ce'}
    BY <1>2
  <2> QED
    BY <1>1, <1>2, <2>1, TypeEffect DEF CIInv
<1>4. /\ ends => casleep' = {} /\ Ready' = Ready \o Append(Line, k) /\ Line' = <<>>
      /\ ~ ends => cw' = cw /\ casleep' = casleep /\ Ready' = Ready /\ Line' = Append(Line, k)
  BY <1>2, <1>3
<1>5. Line \in Seq(Char) /\ Len(Line) \in Nat /\ Len(Ready \o Line) = C!Minus(ce, cr)
  <2>1. /\ Ready \in Seq(Char) /\ Len(Ready) = C!Minus(cw, cr)
        /\ Line \in Seq(Char) /\ Len(Line) = C!Minus(ce, cw)
        /\ C!Minus(ce, cr) = C!Minus(cw, cr) + C!Minus(ce, cw)
    BY LinesAre, RingIs DEF CIInv
  <2> QED
    BY <2>1
<1>6. ProcsOK' /\ CLocked'
  BY <1>2, <1>4 DEF CIInv, ProcsOK, CLocked
<1>7. Waiting'
  <2>1. \A p \in Proc : cop'[p].pc # "empty"
    BY <1>2 DEF CIInv, CLocked, C!ConsoleConstants
  <2> QED
    BY <1>2, <1>4, <2>1 DEF CIInv, Waiting
<1>8. OneLine'
  <2>1. CASE ends
    BY <1>4, <2>1 DEF OneLine
  <2>2. CASE ~ ends
    <3>1. k # "nl" /\ Line' = Append(Line, k)
      BY <1>4, <2>2
    <3>2. DOMAIN Line = 1 .. Len(Line) /\ DOMAIN Append(Line, k) = 1 .. Len(Line) + 1
      BY <1>1, <1>5
    <3>3. /\ \A j \in 1 .. Len(Line) : Append(Line, k)[j] = Line[j]
          /\ Append(Line, k)[Len(Line) + 1] = k
      BY <1>1, <1>5
    <3>4. \A j \in 1 .. Len(Line) + 1 : j \in 1 .. Len(Line) \/ j = Len(Line) + 1
      BY <1>5
    <3>5. \A j \in DOMAIN Append(Line, k) : Append(Line, k)[j] # "nl"
      BY <3>1, <3>2, <3>3, <3>4 DEF CIInv, OneLine
    <3> QED
      BY <3>1, <3>5 DEF OneLine
  <2> QED
    BY <2>1, <2>2
<1>9. Got' = Got
  BY <1>2 DEF Got
<1>10. CIInv'
  BY <1>3, <1>6, <1>7, <1>8 DEF CIInv
<1> QED
  BY <1>1, <1>2, <1>4, <1>5, <1>9, <1>10

\* ^H, delete and ^U.
LEMMA EraseKeeps ==
    ASSUME C!ConsoleConstants, CIInv, clock = None, NEW k \in 0 .. C!Minus(ce, cw), ce' = C!Minus(ce, k),
           UNCHANGED <<cbuf, cr, cw, clock, cop, casleep, ckilled>>
    PROVE  /\ CIInv' /\ Got' = Got /\ Ready' = Ready
           /\ Line' = SubSeq(Line, 1, Len(Line) - k) /\ Len(Line) = C!Minus(ce, cw)
<1>1. /\ RingOK' /\ Ready' = Ready
      /\ Line' = SubSeq(Line, 1, Len(Line) - k)
  BY EraseEffect DEF CIInv
<1>2. Line \in Seq(Char) /\ Len(Line) = C!Minus(ce, cw) /\ Len(Line) \in Nat
  BY LinesAre DEF CIInv
<1>3. ProcsOK' /\ CLocked' /\ Waiting' /\ Got' = Got
  BY DEF CIInv, ProcsOK, CLocked, Waiting, Got
<1>4. OneLine'
  <2>1. /\ DOMAIN Line = 1 .. Len(Line) /\ DOMAIN Line' = 1 .. Len(Line) - k
        /\ \A j \in 1 .. Len(Line) - k : Line'[j] = Line[j] /\ j \in 1 .. Len(Line)
    BY <1>1, <1>2
  <2> QED
    BY <2>1 DEF CIInv, OneLine
<1> QED
  BY <1>1, <1>2, <1>3, <1>4 DEF CIInv

LEMMA BackspaceKeeps ==
    ASSUME C!ConsoleConstants, CIInv, C!Backspace
    PROVE  /\ CIInv' /\ Got' = Got /\ Ready' = Ready
           /\ 1 <= Len(Line) /\ Line' = SubSeq(Line, 1, Len(Line) - 1)
<1>1. C!Minus(ce, cw) \in Nat /\ C!Minus(ce, cw) # 0
  BY RingIs, MinusIs DEF CIInv, RingOK, C!Backspace
<1>2. 1 \in 0 .. C!Minus(ce, cw)
  BY <1>1
<1>3. /\ clock = None /\ ce' = C!Minus(ce, 1) /\ UNCHANGED <<cbuf, cr, cw, clock, cop, casleep, ckilled>>
  BY DEF C!Backspace
<1>4. /\ CIInv' /\ Got' = Got /\ Ready' = Ready
      /\ Line' = SubSeq(Line, 1, Len(Line) - 1) /\ Len(Line) = C!Minus(ce, cw)
  BY <1>2, <1>3, EraseKeeps
<1> QED
  BY <1>1, <1>4

\* ^U finds no newline, and takes the whole line.
LEMMA KillLineKeeps ==
    ASSUME C!ConsoleConstants, CIInv, C!KillLine
    PROVE  /\ CIInv' /\ Got' = Got /\ Ready' = Ready
           /\ Line' = SubSeq(Line, 1, Len(Line) - Len(Line))
<1> PICK k \in 0 .. C!Minus(ce, cw) :
      /\ k = C!Minus(ce, cw) \/ cbuf[C!Slot(C!Minus(ce, k + 1))] = "nl"
      /\ ce' = C!Minus(ce, k)
  BY DEF C!KillLine
<1>1. /\ clock = None /\ UNCHANGED <<cbuf, cr, cw, clock, cop, casleep, ckilled>>
  BY DEF C!KillLine
<1>2. /\ CIInv' /\ Got' = Got /\ Ready' = Ready
      /\ Line' = SubSeq(Line, 1, Len(Line) - k) /\ Len(Line) = C!Minus(ce, cw)
  BY <1>1, EraseKeeps
<1>3. k = C!Minus(ce, cw)
  <2> SUFFICES ASSUME k # C!Minus(ce, cw) PROVE FALSE
    OBVIOUS
  <2> DEFINE c == cw + (C!Minus(ce, cw) - k) - 1
             d == C!Minus(ce, k + 1)
  <2>1. /\ C!Minus(ce, cw) \in Nat /\ cw \in Int /\ ce \in 0 .. UINT - 1 /\ UINT \in Nat
        /\ cw + C!Minus(ce, cw) = ce \/ cw + C!Minus(ce, cw) = ce + UINT
        /\ C!Minus(ce, cw) \in 0 .. UINT - 1
    BY RingIs, MinusIs, CSizes DEF CIInv, RingOK, Index
  <2>2. k \in Int /\ k < C!Minus(ce, cw) /\ k + 1 \in Index /\ C!Minus(ce, cw) - k \in 1 .. C!Minus(ce, cw)
    BY <2>1 DEF Index
  <2>3. d = (IF k + 1 <= ce THEN ce - (k + 1) ELSE ce - (k + 1) + UINT) /\ d \in Index
    BY <2>2, BackIs DEF CIInv, RingOK
  <2>4. c \in Int /\ d \in Int /\ (c = d \/ c = d + UINT \/ d = c + UINT)
    BY <2>1, <2>2, <2>3
  <2>5. Line[C!Minus(ce, cw) - k] = cbuf[C!Slot(c)] /\ C!Minus(ce, cw) - k \in DOMAIN Line
    BY <2>2 DEF Line, Part
  <2>6. cbuf[C!Slot(d)] = "nl"
    OBVIOUS
  <2> HIDE DEF c, d
  <2>7. C!Slot(c) = C!Slot(d)
    BY <2>4, SlotFrom
  <2> QED
    BY <2>5, <2>6, <2>7 DEF CIInv, OneLine
<1> QED
  BY <1>2, <1>3

LEMMA CallKeeps ==
    ASSUME C!ConsoleConstants, CIInv, NEW p \in Proc, C!Call(p)
    PROVE  /\ CIInv' /\ Ready' = Ready /\ Line' = Line
           /\ Got[p] = None /\ Got' = [Got EXCEPT ![p] = 0]
<1>1. PICK n \in 1 .. MaxRead : cop' = [cop EXCEPT ![p] = [pc |-> "read", i |-> 0, n |-> n]]
  BY DEF C!Call
<1>2. cop[p].pc = "user" /\ UNCHANGED <<C!cons, clock, casleep, ckilled>>
  BY DEF C!Call, C!At
<1>3. Ready' = Ready /\ Line' = Line /\ RingOK' /\ cr' = cr /\ cw' = cw
  BY <1>2, LinesKept DEF CIInv, C!cons
<1>4. [pc |-> "read", i |-> 0, n |-> n] \in Ops
  BY CSizes DEF Ops, CPlace
<1>5. cop' \in [Proc -> Ops] /\ Others(p) /\ cop'[p].pc = "read" /\ cop'[p].i = 0
  BY <1>1, <1>4 DEF CIInv, ProcsOK, Others
<1>6. ProcsOK' /\ CLocked' /\ Waiting' /\ OneLine'
  BY <1>2, <1>3, <1>5 DEF CIInv, ProcsOK, CLocked, Waiting, OneLine, Others
<1>7. Got[p] = None /\ Got' = [Got EXCEPT ![p] = 0]
  BY <1>2, <1>5, GotIs DEF Got
<1> QED
  BY <1>3, <1>6, <1>7 DEF CIInv

LEMMA AcquireKeeps ==
    ASSUME C!ConsoleConstants, CIInv, NEW p \in Proc, C!Acquire(p)
    PROVE  CIInv' /\ Ready' = Ready /\ Line' = Line /\ Got' = Got
<1>1. /\ cop[p].pc = "read" /\ clock = None /\ clock' = p /\ C!Goto(p, "reading")
      /\ UNCHANGED <<C!cons, casleep, ckilled>>
  BY DEF C!Acquire, C!At
<1>2. Ready' = Ready /\ Line' = Line /\ RingOK' /\ cr' = cr /\ cw' = cw
  BY <1>1, LinesKept DEF CIInv, C!cons
<1>3. cop' \in [Proc -> Ops] /\ Others(p) /\ cop'[p].pc = "reading" /\ cop'[p].i = cop[p].i
  BY <1>1, CGotoIs DEF CIInv, ProcsOK, CPlace
<1>4. ProcsOK' /\ Waiting' /\ OneLine'
  BY <1>1, <1>2, <1>3 DEF CIInv, ProcsOK, Waiting, OneLine, Others
<1>5. CLocked'
  BY <1>1, <1>3 DEF CIInv, CLocked, Others, C!ConsoleConstants
<1> QED
  BY <1>1, <1>2, <1>3, <1>4, <1>5, GotKept DEF CIInv

LEMMA ReadTestKeeps ==
    ASSUME C!ConsoleConstants, CIInv, NEW p \in Proc, C!ReadTest(p)
    PROVE  /\ CIInv' /\ Ready' = Ready /\ Line' = Line
           /\ \/ Got' = Got
              \/ Got[p] # None /\ Ready = <<>> /\ Got' = [Got EXCEPT ![p] = None]
<1>1. /\ cop[p].pc = "reading" /\ cr = cw /\ UNCHANGED <<C!cons, casleep, ckilled>>
      /\ \/ C!Leave(p)
         \/ C!Goto(p, "empty") /\ clock' = clock
  BY DEF C!ReadTest, C!At
<1>2. Ready' = Ready /\ Line' = Line /\ RingOK' /\ cr' = cr /\ cw' = cw
  BY <1>1, LinesKept DEF CIInv, C!cons
<1>3. CASE C!Leave(p)
  <2>1. cop' \in [Proc -> Ops] /\ Others(p) /\ cop'[p].pc = "user" /\ clock' = None
    BY <1>3, LeaveIs DEF CIInv, ProcsOK
  <2>2. ProcsOK' /\ Waiting' /\ OneLine'
    BY <1>1, <1>2, <2>1 DEF CIInv, ProcsOK, Waiting, OneLine, Others
  <2>3. CLocked'
    BY <1>1, <2>1 DEF CIInv, CLocked, Others, C!ConsoleConstants
  <2>4. Got[p] # None
    BY <1>1 DEF Got, CIInv, ProcsOK, Ops, C!ConsoleConstants
  <2>5. Ready = <<>>
    <3>1. C!Minus(cw, cr) = 0
      BY <1>1, MinusIs DEF CIInv, RingOK
    <3> QED
      BY <3>1 DEF Ready, Part
  <2> QED
    BY <1>2, <2>1, <2>2, <2>3, <2>4, <2>5, GotIs DEF CIInv
<1>4. CASE C!Goto(p, "empty") /\ clock' = clock
  <2>1. cop' \in [Proc -> Ops] /\ Others(p) /\ cop'[p].pc = "empty" /\ cop'[p].i = cop[p].i
    BY <1>4, CGotoIs DEF CIInv, ProcsOK, CPlace
  <2>2. ProcsOK' /\ Waiting' /\ OneLine' /\ CLocked'
    BY <1>1, <1>2, <1>4, <2>1 DEF CIInv, ProcsOK, Waiting, OneLine, CLocked, Others
  <2> QED
    BY <1>1, <1>2, <2>1, <2>2, GotKept DEF CIInv
<1> QED
  BY <1>1, <1>3, <1>4

LEMMA ReadSleepKeeps ==
    ASSUME C!ConsoleConstants, CIInv, NEW p \in Proc, C!ReadSleep(p)
    PROVE  CIInv' /\ Ready' = Ready /\ Line' = Line /\ Got' = Got
<1>1. /\ cop[p].pc = "empty" /\ clock' = None /\ C!Goto(p, "read") /\ casleep' = casleep \cup {p}
      /\ UNCHANGED <<C!cons, ckilled>>
  BY DEF C!ReadSleep, C!At
<1>2. Ready' = Ready /\ Line' = Line /\ RingOK' /\ cr' = cr /\ cw' = cw
  BY <1>1, LinesKept DEF CIInv, C!cons
<1>3. cop' \in [Proc -> Ops] /\ Others(p) /\ cop'[p].pc = "read" /\ cop'[p].i = cop[p].i
  BY <1>1, CGotoIs DEF CIInv, ProcsOK, CPlace
<1>4. ProcsOK' /\ Waiting' /\ OneLine'
  BY <1>1, <1>2, <1>3 DEF CIInv, ProcsOK, Waiting, OneLine, Others
<1>5. CLocked'
  BY <1>1, <1>3 DEF CIInv, CLocked, Others, C!ConsoleConstants
<1> QED
  BY <1>1, <1>2, <1>3, <1>4, <1>5, GotKept DEF CIInv

\* One that has the lock, and takes a byte or leaves.
LEMMA ReadingKeeps ==
    ASSUME C!ConsoleConstants, CIInv, NEW p \in Proc, cop[p].pc = "reading", cr # cw,
           RingOK', Line' = Line, UNCHANGED <<cbuf, cw, ce, casleep, ckilled>>,
           cop' \in [Proc -> Ops], Others(p),
           \/ cop'[p].pc = "user" /\ clock' = None
           \/ cop'[p].pc = "reading" /\ clock' = clock
    PROVE  CIInv'
<1>1. ProcsOK' /\ OneLine'
  BY DEF CIInv, ProcsOK, OneLine
<1>2. CLocked'
  BY DEF CIInv, CLocked, Others, C!ConsoleConstants
<1>3. Waiting'
  BY DEF CIInv, Waiting, Others
<1> QED
  BY <1>1, <1>2, <1>3 DEF CIInv

LEMMA ReadyIs ==
    ASSUME C!ConsoleConstants, RingOK, cr # cw
    PROVE  Ready # <<>> /\ Head(Ready) = C!Next1
<1>1. C!Minus(cw, cr) \in Nat /\ cr \in Int /\ C!Minus(cw, cr) # 0
  BY RingIs, MinusIs DEF RingOK
<1>2. C!Minus(cw, cr) \in Nat \ {0}
  BY <1>1
<1> DEFINE c == (cr + 1) % UINT
<1>3. c \in Int /\ (cr + 1 = c \/ cr + 1 = c + UINT)
  BY CSizes, CNextIndex DEF RingOK, Index
<1> HIDE DEF c
<1> QED
  BY <1>1, <1>2, <1>3, PartTail DEF Ready, C!Next1, RingOK

LEMMA ReadEofKeeps ==
    ASSUME C!ConsoleConstants, CIInv, NEW p \in Proc, C!ReadEof(p)
    PROVE  /\ CIInv' /\ Line' = Line /\ Got[p] # None
           /\ Ready # <<>> /\ Head(Ready) = "^D"
           /\ Ready' = (IF Got[p] = 0 THEN Tail(Ready) ELSE Ready)
           /\ Got' = [Got EXCEPT ![p] = None]
<1>1. /\ cop[p].pc = "reading" /\ cr # cw /\ C!Next1 = "^D" /\ C!Leave(p)
      /\ cr' = IF cop[p].i > 0 THEN cr ELSE (cr + 1) % UINT
      /\ UNCHANGED <<cbuf, cw, ce, casleep, ckilled>>
  BY DEF C!ReadEof, C!At
<1>2. cop' \in [Proc -> Ops] /\ Others(p) /\ cop'[p].pc = "user" /\ clock' = None
  BY <1>1, LeaveIs DEF CIInv, ProcsOK
<1>3. Got[p] = cop[p].i /\ cop[p].i \in Nat /\ Got[p] # None
  BY <1>1, CSizes DEF Got, CIInv, ProcsOK, Ops, C!ConsoleConstants
<1>4. Ready # <<>> /\ Head(Ready) = "^D"
  BY <1>1, ReadyIs DEF CIInv
<1>5. RingOK' /\ Line' = Line /\ Ready' = (IF cop[p].i > 0 THEN Ready ELSE Tail(Ready))
  <2>1. CASE cop[p].i > 0
    BY <1>1, <2>1, LinesKept DEF CIInv, C!cons
  <2>2. CASE ~ cop[p].i > 0
    BY <1>1, <2>2, TakeEffect DEF CIInv
  <2> QED
    BY <2>1, <2>2
<1>6. CIInv'
  BY <1>1, <1>2, <1>5, ReadingKeeps
<1>7. Ready' = IF Got[p] = 0 THEN Tail(Ready) ELSE Ready
  BY <1>3, <1>5
<1> QED
  BY <1>2, <1>3, <1>4, <1>5, <1>6, <1>7, GotIs

LEMMA ReadByteKeeps ==
    ASSUME C!ConsoleConstants, CIInv, NEW p \in Proc, C!ReadByte(p)
    PROVE  /\ CIInv' /\ Line' = Line /\ Got[p] # None
           /\ Ready # <<>> /\ Head(Ready) # "^D" /\ Ready' = Tail(Ready)
           /\ \/ Got' = [Got EXCEPT ![p] = None]
              \/ Head(Ready) # "nl" /\ Got' = [Got EXCEPT ![p] = Got[p] + 1]
<1>1. /\ cop[p].pc = "reading" /\ cr # cw /\ C!Next1 # "^D"
      /\ cr' = (cr + 1) % UINT
      /\ UNCHANGED <<cbuf, cw, ce, casleep, ckilled>>
  BY DEF C!ReadByte, C!At
<1>2. Got[p] = cop[p].i /\ cop[p].i \in Nat /\ cop[p].n \in 0 .. MaxRead /\ Got[p] # None
  BY <1>1, CSizes DEF Got, CIInv, ProcsOK, Ops, C!ConsoleConstants
<1>3. /\ RingOK' /\ Line' = Line
      /\ Ready # <<>> /\ Head(Ready) = C!Next1 /\ Ready' = Tail(Ready)
  BY <1>1, TakeEffect DEF CIInv
<1>4. CASE C!Leave(p)
  <2>1. cop' \in [Proc -> Ops] /\ Others(p) /\ cop'[p].pc = "user" /\ clock' = None
    BY <1>4, LeaveIs DEF CIInv, ProcsOK
  <2>2. CIInv'
    BY <1>1, <1>3, <2>1, ReadingKeeps
  <2> QED
    BY <1>1, <1>2, <1>3, <2>1, <2>2, GotIs
<1>5. CASE /\ C!Next1 # "nl" /\ cop[p].i + 1 < cop[p].n
           /\ cop' = [cop EXCEPT ![p].i = @ + 1] /\ clock' = clock
  <2>1. cop[p].i + 1 \in 0 .. MaxRead
    BY <1>2, <1>5, CSizes
  <2>2. cop' \in [Proc -> Ops] /\ Others(p) /\ cop'[p].pc = "reading" /\ cop'[p].i = cop[p].i + 1
    BY <1>1, <1>5, <2>1 DEF CIInv, ProcsOK, Ops, Others
  <2>3. CIInv'
    BY <1>1, <1>3, <1>5, <2>2, ReadingKeeps
  <2>4. Got' = [Got EXCEPT ![p] = Got[p] + 1]
    BY <1>2, <2>2, GotIs
  <2> QED
    BY <1>1, <1>2, <1>3, <1>5, <2>3, <2>4
<1> QED
  BY <1>4, <1>5 DEF C!ReadByte

LEMMA KillKeeps ==
    ASSUME C!ConsoleConstants, CIInv, NEW p \in Proc, C!Kill(p)
    PROVE  CIInv' /\ Ready' = Ready /\ Line' = Line /\ Got' = Got
<1>1. /\ ckilled' = [ckilled EXCEPT ![p] = TRUE] /\ casleep' = casleep \ {p}
      /\ UNCHANGED <<C!cons, clock, cop>>
  BY DEF C!Kill
<1>2. Ready' = Ready /\ Line' = Line /\ RingOK' /\ cr' = cr /\ cw' = cw
  BY <1>1, LinesKept DEF CIInv, C!cons
<1>3. ProcsOK' /\ CLocked' /\ Waiting' /\ OneLine' /\ Got' = Got
  BY <1>1, <1>2 DEF CIInv, ProcsOK, CLocked, Waiting, OneLine, Got
<1> QED
  BY <1>2, <1>3 DEF CIInv
-----------------------------------------------------------------------------
LEMMA CInitHolds ==
    ASSUME C!ConsoleConstants, C!Init
    PROVE  CIInv /\ Ready = <<>> /\ Line = <<>> /\ Got = [p \in Proc |-> None]
<1>1. cr = 0 /\ cw = 0 /\ ce = 0 /\ 0 \in Index
  BY CSizes DEF C!Init, Index
<1>2. C!Minus(cw, cr) = 0 /\ C!Minus(ce, cr) = 0 /\ C!Minus(ce, cw) = 0
  BY <1>1, MinusIs
<1>3. RingOK
  BY <1>1, <1>2, CSizes DEF C!Init, RingOK, RingOf
<1>4. Ready = <<>> /\ Line = <<>>
  BY <1>2 DEF Ready, Line, Part
<1>5. C!User \in Ops /\ C!User.pc = "user"
  BY CSizes DEF C!User, Ops, CPlace
<1>6. ProcsOK /\ CLocked /\ Waiting
  BY <1>1, <1>5 DEF C!Init, ProcsOK, CLocked, Waiting, C!ConsoleConstants
<1>7. OneLine
  BY <1>4 DEF OneLine
<1>8. Got = [p \in Proc |-> None]
  BY <1>5 DEF C!Init, Got
<1> QED
  BY <1>3, <1>4, <1>6, <1>7, <1>8 DEF CIInv

LEMMA CStepKeeps == ASSUME C!ConsoleConstants, CIInv, [C!Next]_(C!vars) PROVE CIInv'
<1>1. CASE UNCHANGED C!vars
  <2>1. UNCHANGED <<C!cons, clock, cop, casleep, ckilled>> /\ cr' = cr /\ cw' = cw
    BY <1>1 DEF C!vars, C!cons
  <2>2. RingOK' /\ Line' = Line
    BY <2>1, LinesKept DEF CIInv
  <2>3. ProcsOK' /\ CLocked' /\ Waiting' /\ OneLine'
    BY <2>1, <2>2 DEF CIInv, ProcsOK, CLocked, Waiting, OneLine
  <2> QED
    BY <2>2, <2>3 DEF CIInv
<1> QED
  BY <1>1, TypeKeeps, BackspaceKeeps, KillLineKeeps, CallKeeps, AcquireKeeps, ReadTestKeeps,
     ReadSleepKeeps, ReadEofKeeps, ReadByteKeeps, KillKeeps DEF C!Next

LEMMA ConsoleInvariant == ASSUME C!ConsoleConstants PROVE C!Spec => []CIInv
<1>1. C!Init => CIInv
  BY CInitHolds
<1>2. CIInv /\ [C!Next]_(C!vars) => CIInv'
  BY CStepKeeps
<1> QED
  BY <1>1, <1>2, PTL DEF C!Spec

\* The three indices of cons stay in order and within one ring of each other, also
\* when they overflow, and the states of console.c are those of the model.
THEOREM ConsoleTypeOK == ASSUME C!ConsoleConstants PROVE C!Spec => []C!TypeOK
<1>1. CIInv => C!TypeOK
  BY DEF CIInv, C!TypeOK, RingOK, ProcsOK, Index, RingOf, Ops, CPlace
<1> QED
  BY <1>1, ConsoleInvariant, PTL

\* No reader sleeps over bytes that it could read, also when another reader takes a
\* part of a line, or consoleread() gives ^D back.
THEOREM ConsoleReadersAwake == ASSUME C!ConsoleConstants PROVE C!Spec => []C!ReadersAwake
<1>1. CIInv => C!ReadersAwake
  BY DEF CIInv, Waiting, C!ReadersAwake
<1> QED
  BY <1>1, ConsoleInvariant, PTL

\* The ring and its three indices are the queue of edited lines that LineInput
\* promises: consoleintr() and consoleread() show their readers every character that
\* is not erased, once and in order, a line at a time, and each ^D as one end of file.
THEOREM ConsoleEditsLines == ASSUME C!ConsoleConstants PROVE C!Spec => C!EditedLines
<1>1. C!Bytes(cr, cw) = Ready /\ C!Bytes(cw, ce) = Line
  BY DEF C!Bytes, Ready, Line, Part
<1>2. C!Bytes(cr, cw)' = Ready' /\ C!Bytes(cw, ce)' = Line'
  BY DEF C!Bytes, Ready, Line, Part, C!Minus, C!Slot
<1>3. C!Init => C!Lines!Init
  BY <1>1, CInitHolds DEF C!Lines!Init, Got
<1>4. CIInv /\ [C!Next]_(C!vars) => [C!Lines!Next]_(C!Lines!vars)
  <2> SUFFICES ASSUME CIInv, [C!Next]_(C!vars) PROVE [C!Lines!Next]_(C!Lines!vars)
    OBVIOUS
  <2>1. CASE Ready' = Ready /\ Line' = Line /\ Got' = Got
    BY <1>1, <1>2, <2>1 DEF C!Lines!vars, Got
  <2>2. CASE UNCHANGED C!vars
    <3>1. Ready' = Ready /\ Line' = Line /\ Got' = Got
      BY <2>2, LinesKept DEF C!vars, Got
    <3> QED
      BY <2>1, <3>1
  <2>3. CASE \E c \in Key \cup {"nl", "cr", "^D"} : C!Type(c)
    <3>1. /\ Got' = Got
          /\ \E k \in Key \cup {"nl", "^D"} :
               /\ Len(Ready \o Line) < INPUT_BUF_SIZE
               /\ IF k \in {"nl", "^D"} \/ Len(Ready \o Line) + 1 = INPUT_BUF_SIZE
                  THEN Ready' = Ready \o Append(Line, k) /\ Line' = <<>>
                  ELSE Line' = Append(Line, k) /\ Ready' = Ready
      BY <2>3, TypeKeeps
    <3> QED
      BY <1>1, <1>2, <3>1 DEF C!Lines!Next, C!Lines!Type, Got
  <2>4. CASE C!Backspace
    BY <1>1, <1>2, <2>4, BackspaceKeeps DEF C!Lines!Next, C!Lines!Erase, Got
  <2>5. CASE C!KillLine
    BY <1>1, <1>2, <2>5, KillLineKeeps, LinesAre, RingIs DEF CIInv, C!Lines!Next, C!Lines!Erase, Got
  <2>6. ASSUME NEW p \in Proc, C!Call(p) PROVE C!Lines!Begin(p)
    BY <1>1, <1>2, <2>6, CallKeeps DEF C!Lines!Begin, Got
  <2>7. ASSUME NEW p \in Proc, C!ReadEof(p) PROVE C!Lines!EndOfFile(p)
    BY <1>1, <1>2, <2>7, ReadEofKeeps DEF C!Lines!EndOfFile, Got
  <2>8. ASSUME NEW p \in Proc, C!ReadByte(p) PROVE C!Lines!TakeByte(p)
    BY <1>1, <1>2, <2>8, ReadByteKeeps DEF C!Lines!TakeByte, Got
  <2>9. ASSUME NEW p \in Proc, C!ReadTest(p)
        PROVE  C!Lines!GiveUp(p) \/ (Ready' = Ready /\ Line' = Line /\ Got' = Got)
    BY <1>1, <1>2, <2>9, ReadTestKeeps DEF C!Lines!GiveUp, Got
  <2>10. ASSUME NEW p \in Proc, C!Acquire(p) \/ C!ReadSleep(p) \/ C!Kill(p)
         PROVE  Ready' = Ready /\ Line' = Line /\ Got' = Got
    BY <2>10, AcquireKeeps, ReadSleepKeeps, KillKeeps
  <2> QED
    BY <2>1, <2>2, <2>3, <2>4, <2>5, <2>6, <2>7, <2>8, <2>9, <2>10 DEF C!Next, C!Lines!Next
<1> QED
  BY <1>3, <1>4, ConsoleInvariant, PTL DEF C!Spec, C!EditedLines, C!Lines!Spec

-----------------------------------------------------------------------------
(* UserMemory: the copies to and from user memory, and pgaccess().         *)

\* What a process may have used, and pgaccess() may find.
User_Page == {v \in A!Page : Kind[v] \in {"code", "data"}}

Copying == {"copy", "ok", "failed"}
ScanType ==
    [pc : {"scan"}, op : {"pgaccess"}, base : Nat, mask : Nat, num : Nat, i : Nat, bitmap : SUBSET Nat]
CopyType ==
    [pc : Copying, op : {"copyin", "copyout", "copyinstr"}, start : Nat, size : Nat, va : Nat,
     len : Nat, done : SUBSET Nat]
ReportType ==
    [pc : Copying, op : {"pgaccess"}, base : Nat, num : Nat, bitmap : SUBSET Nat, start : Nat,
     size : Nat, va : Nat, len : Nat, done : SUBSET Nat]

Recent == touched \ lost
\* The pages from base on that i turns of the loop have looked at.
Seen(i) == {v \in A!Page : \E j \in 0 .. i - 1 : v = A!PageOf(call.base) + j}
Bits(i) == {j \in 0 .. i - 1 : A!PageOf(call.base) + j \in Recent}

Scanning  == call \in ScanType /\ call.i <= call.num
Reporting == call \in ReportType

UserInv == A!At("user") => call = A!User /\ accessed = Recent /\ tlb \subseteq accessed
ScanInv ==
    A!At("scan") => Scanning /\ accessed = Recent \ Seen(call.i) /\ call.bitmap = Bits(call.i)
ReportInv ==
    Reporting => accessed = Recent \ Seen(call.num) /\ call.bitmap = Bits(call.num)
CopyInv == call \in CopyType => accessed = Recent

\* What copyin(), copyout() and copyinstr() have done, up to va.
Before == call.start .. call.va - 1
Passed ==
    /\ call.done = Before /\ \A a \in Before : A!Usable(a)
    /\ call.start <= call.va /\ call.va + call.len = call.start + call.size
    /\ call.op = "copyinstr" => Before \cap Nul = {}
LoopInv == A!At("copy") => Passed

CallShape == A!At("user") \/ A!At("scan") \/ call \in CopyType \/ Reporting

MemoryInv ==
    /\ accessed \subseteq User_Page /\ touched \subseteq User_Page /\ lost \subseteq touched
    /\ CallShape /\ UserInv /\ ScanInv /\ ReportInv /\ CopyInv /\ LoopInv /\ A!CopyExact
\* The order by which least numbers are found.
Less == {ss \in Nat \X Nat : ss[1] < ss[2]}
LEMMA Least == ASSUME NEW S \in SUBSET Nat, S # {} PROVE \E a \in S : \A b \in S : a <= b
<1>1. IsWellFoundedOn(Less, Nat)
  BY NatLessThanWellFounded DEF OpToRel, Less
<1>2. PICK a \in S : \A b \in S : ~ (<<b, a>> \in Less)
  BY <1>1, WFMin
<1>3. ASSUME NEW b \in S PROVE a <= b
  <2>1. a \in Nat /\ b \in Nat /\ ~ (b < a)
    BY <1>2 DEF Less
  <2> QED BY <2>1
<1> QED BY <1>3

-----------------------------------------------------------------------------
(* Pages.                                                                  *)

LEMMA ProductGrows == ASSUME NEW a \in Int, NEW b \in Int, NEW c \in Nat, a <= b PROVE c * a <= c * b
OBVIOUS

LEMMA Multiple == ASSUME NEW a \in Nat, NEW b \in Nat PROVE a * b \in Nat
OBVIOUS

LEMMA Quotient ==
    ASSUME NEW b \in Nat \ {0}, NEW q \in Int, NEW r \in 0 .. b - 1, NEW a \in Int, a = b * q + r
    PROVE  a \div b = q
<1>1. PICK d \in Int, m \in 0 .. b - 1 : d = a \div b /\ m = a % b /\ a = b * d + m
  BY Division
<1>2. m = r
  BY <1>1, Remainder
<1>3. b * d = b * q
  BY <1>1, <1>2
<1>4. ASSUME d + 1 <= q PROVE FALSE
  <2>1. b * (d + 1) <= b * q /\ b * (d + 1) = b * d + b
    BY <1>4, ProductGrows
  <2>2. PICK x \in Int, y \in Int : x = b * d /\ y = b * q
    OBVIOUS
  <2> QED BY ONLY <1>3, <2>1, <2>2, b \in Nat \ {0}
<1>5. ASSUME q + 1 <= d PROVE FALSE
  <2>1. b * (q + 1) <= b * d /\ b * (q + 1) = b * q + b
    BY <1>5, ProductGrows
  <2>2. PICK x \in Int, y \in Int : x = b * d /\ y = b * q
    OBVIOUS
  <2> QED BY ONLY <1>3, <2>1, <2>2, b \in Nat \ {0}
<1> QED BY <1>1, <1>4, <1>5

LEMMA PageSizes ==
    ASSUME A!UserMemoryConstants
    PROVE  /\ NPAGE \in Nat \ {0} /\ PGSIZE \in Nat \ {0} /\ MAX_PAGES \in Nat /\ BitmapSize \in Nat
           /\ A!MAXVA \in Nat /\ A!Va \subseteq Nat /\ Counts \subseteq Nat /\ Lengths \subseteq Nat
<1>1. NPAGE \in Nat \ {0} /\ PGSIZE \in Nat \ {0}
  BY DEF A!UserMemoryConstants
<1>2. A!MAXVA \in Nat
  BY <1>1 DEF A!MAXVA
<1> QED BY <1>1, <1>2 DEF A!UserMemoryConstants, A!Va

\* An address is in the page where the hart looks for it.
LEMMA PageIs ==
    ASSUME A!UserMemoryConstants, NEW a \in Nat
    PROVE  /\ A!PageOf(a) \in Nat /\ a % PGSIZE \in 0 .. PGSIZE - 1
           /\ a = PGSIZE * A!PageOf(a) + (a % PGSIZE)
           /\ a < A!MAXVA <=> A!PageOf(a) \in A!Page
<1>1. PICK n \in Nat \ {0} : n = PGSIZE
  BY PageSizes
<1>2. PICK q \in Int, r \in 0 .. n - 1 : q = a \div n /\ r = a % n /\ a = n * q + r
  BY Division
<1>3. q \in Nat
  <2>1. SUFFICES ASSUME q + 1 <= 0 PROVE FALSE
    BY <1>2
  <2>2. n * (q + 1) <= n * 0 /\ n * (q + 1) = n * q + n /\ n * 0 = 0
    BY <2>1, ProductGrows
  <2>3. PICK x \in Int : x = n * q
    OBVIOUS
  <2> QED BY ONLY <1>2, <2>2, <2>3, n \in Nat \ {0}, a \in Nat
<1>4. ASSUME a < A!MAXVA PROVE q < NPAGE
  <2>1. SUFFICES ASSUME q >= NPAGE PROVE FALSE
    BY <1>3, PageSizes
  <2>2. n * NPAGE <= n * q /\ n * NPAGE = A!MAXVA
    BY <1>1, <1>3, <2>1, PageSizes, ProductGrows DEF A!MAXVA
  <2>3. PICK x \in Int : x = n * q
    OBVIOUS
  <2> QED BY <1>2, <1>4, <2>2, <2>3, PageSizes
<1>5. ASSUME q < NPAGE PROVE a < A!MAXVA
  <2>1. n * (q + 1) <= n * NPAGE /\ n * (q + 1) = n * q + n /\ n * NPAGE = A!MAXVA
    BY <1>1, <1>3, <1>5, PageSizes, ProductGrows DEF A!MAXVA
  <2>2. PICK x \in Int : x = n * q
    OBVIOUS
  <2> QED BY <1>2, <2>1, <2>2, PageSizes
<1> QED BY <1>1, <1>2, <1>3, <1>4, <1>5, PageSizes DEF A!PageOf, A!Page

\* Turn i of the loop of sys_pgaccess() looks at the page i after that of base.
LEMMA PageAfter ==
    ASSUME A!UserMemoryConstants, NEW a \in Nat, NEW i \in Nat
    PROVE  a + i * PGSIZE \in Nat /\ A!PageOf(a + i * PGSIZE) = A!PageOf(a) + i
<1>1. PICK n \in Nat \ {0} : n = PGSIZE
  BY PageSizes
<1>2. PICK q \in Nat, r \in 0 .. n - 1 : q = A!PageOf(a) /\ a = n * q + r
  BY <1>1, PageIs
<1>3. PICK x \in Nat, y \in Nat : x = n * q /\ y = i * n
  BY Multiple
<1>4. n * (q + i) = n * q + i * n
  OBVIOUS
<1>5. a + i * n = n * (q + i) + r /\ a + i * n \in Nat
  BY <1>2, <1>3, <1>4
<1>6. (a + i * n) \div n = q + i
  BY <1>5, Quotient
<1> QED BY <1>1, <1>2, <1>5, <1>6 DEF A!PageOf

\* What is copied at once is in one page.
LEMMA OnePage ==
    ASSUME A!UserMemoryConstants, NEW a \in Nat, NEW b \in Nat, a <= b,
           b < a + (PGSIZE - (a % PGSIZE))
    PROVE  A!PageOf(b) = A!PageOf(a) /\ (a < A!MAXVA <=> b < A!MAXVA)
<1>1. PICK n \in Nat \ {0} : n = PGSIZE
  BY PageSizes
<1>2. PICK q \in Nat, r \in 0 .. n - 1 : q = A!PageOf(a) /\ r = a % n /\ a = n * q + r
  BY <1>1, PageIs
<1>3. PICK s \in 0 .. n - 1 : s = r + (b - a)
  BY <1>1, <1>2
<1>4. b = n * q + s
  <2>1. PICK x \in Nat : x = n * q
    BY Multiple
  <2>2. a = x + r /\ s = r + (b - a)
    BY <1>2, <1>3, <2>1
  <2>3. b = x + s
    BY <2>2
  <2> QED BY <2>1, <2>3
<1>5. b \div n = q
  BY <1>4, Quotient
<1> QED BY <1>1, <1>2, <1>5, PageIs DEF A!PageOf

-----------------------------------------------------------------------------
(* pgaccess().                                                             *)

Other == {"copyin", "copyout", "copyinstr"}

\* The fields of a call that the steps change.
LEMMA CallFields ==
    /\ call \in ScanType => /\ call.pc = "scan" /\ call.op = "pgaccess" /\ call.base \in Nat
                            /\ call.mask \in Nat /\ call.num \in Nat /\ call.i \in Nat
                            /\ call.bitmap \in SUBSET Nat
    /\ call \in CopyType \/ Reporting =>
          /\ call.pc \in Copying /\ call.start \in Nat /\ call.size \in Nat /\ call.va \in Nat
          /\ call.len \in Nat /\ call.done \in SUBSET Nat
    /\ call \in CopyType => call.op \in Other
    /\ Reporting => /\ call.op = "pgaccess" /\ call.base \in Nat /\ call.num \in Nat
                    /\ call.bitmap \in SUBSET Nat
BY DEF ScanType, CopyType, ReportType, Reporting, Other

LEMMA AtUser ==
    ASSUME MemoryInv, A!At("user")
    PROVE  call = A!User /\ accessed = Recent /\ tlb \subseteq accessed
BY DEF MemoryInv, UserInv

LEMMA AtScan ==
    ASSUME MemoryInv, A!At("scan")
    PROVE  /\ call \in ScanType /\ call.i <= call.num
           /\ accessed = Recent \ Seen(call.i) /\ call.bitmap = Bits(call.i)
BY DEF MemoryInv, ScanInv, Scanning

LEMMA AtCopy ==
    ASSUME MemoryInv, A!At("copy") \/ A!At("ok") \/ A!At("failed")
    PROVE  /\ call \in CopyType \/ Reporting
           /\ call \in CopyType => accessed = Recent
           /\ Reporting => accessed = Recent \ Seen(call.num) /\ call.bitmap = Bits(call.num)
<1>1. ~ A!At("user") /\ ~ A!At("scan")
  BY DEF A!At
<1> QED BY <1>1 DEF MemoryInv, CallShape, CopyInv, ReportInv

\* While the process is in user space.
LEMMA UserKeeps ==
    ASSUME MemoryInv, call' = A!User, accessed' \subseteq User_Page, touched' \subseteq User_Page,
           lost' \subseteq touched', accessed' = Recent', tlb' \subseteq accessed'
    PROVE  MemoryInv'
<1>1. A!At("user")' /\ ~ A!At("scan")' /\ ~ A!At("copy")' /\ ~ A!At("ok")' /\ ~ A!At("failed")'
  BY DEF A!At, A!User
<1>2. ~ (call \in CopyType)' /\ ~ Reporting'
  BY <1>1, CallFields DEF CopyType, ReportType, Reporting, A!At, Copying
<1> QED BY <1>1, <1>2 DEF MemoryInv, CallShape, UserInv, ScanInv, ReportInv, CopyInv, LoopInv,
           A!CopyExact

LEMMA TouchKeeps == ASSUME MemoryInv, NEW v \in A!Page, A!Touch(v) PROVE MemoryInv'
<1>1. /\ call = A!User /\ accessed = Recent /\ tlb \subseteq accessed /\ call' = A!User
      /\ v \in User_Page
  BY AtUser DEF A!Touch, User_Page
<1>2. /\ accessed' = (IF v \in tlb THEN accessed ELSE accessed \cup {v}) /\ tlb' = tlb \cup {v}
      /\ touched' = touched \cup {v} /\ lost' = lost \ {v}
  BY DEF A!Touch
<1>3. /\ accessed \subseteq User_Page /\ touched \subseteq User_Page /\ lost \subseteq touched
  BY DEF MemoryInv
<1>4. accessed' = accessed \cup {v}
  BY <1>1, <1>2
<1>5. accessed' = Recent'
  BY <1>1, <1>2, <1>4 DEF Recent
<1>6. tlb' \subseteq accessed' /\ accessed' \subseteq User_Page /\ touched' \subseteq User_Page
  BY <1>1, <1>2, <1>3, <1>4
<1>7. lost' \subseteq touched'
  BY <1>2, <1>3
<1> QED BY <1>1, <1>5, <1>6, <1>7, UserKeeps

LEMMA CopyCallKeeps ==
    ASSUME A!UserMemoryConstants, MemoryInv, NEW o \in Other, A!Call(o) PROVE MemoryInv'
<1>1. PICK va \in A!Va, len \in Lengths :
          call' = [pc |-> "copy", op |-> o, start |-> va, size |-> len,
                   va |-> va, len |-> len, done |-> {}]
  BY DEF A!Call
<1>2. accessed = Recent /\ UNCHANGED <<accessed, tlb, touched, lost>>
  BY AtUser DEF A!Call
<1>3. va \in Nat /\ len \in Nat
  BY PageSizes
<1>4. (call \in CopyType)'
  BY <1>1, <1>3 DEF CopyType, Copying, Other
<1>5. A!At("copy")' /\ ~ A!At("user")' /\ ~ A!At("scan")' /\ ~ A!At("ok")' /\ ~ A!At("failed")'
  BY <1>1 DEF A!At
<1>6. ~ Reporting'
  BY <1>1 DEF Reporting, ReportType, Other
<1>7. Passed'
  <2>1. /\ call'.start = va /\ call'.va = va /\ call'.len = len /\ call'.size = len
        /\ call'.done = {}
    BY <1>1
  <2>2. Before' = {}
    BY <2>1, <1>3 DEF Before
  <2> QED BY <2>1, <2>2, <1>3 DEF Passed
<1>8. (accessed = Recent)'
  BY <1>2 DEF Recent
<1> QED
  BY <1>2, <1>4, <1>5, <1>6, <1>7, <1>8
  DEF MemoryInv, CallShape, UserInv, ScanInv, ReportInv, CopyInv, LoopInv, A!CopyExact

LEMMA PgaccessKeeps == ASSUME A!UserMemoryConstants, MemoryInv, A!Pgaccess PROVE MemoryInv'
<1>1. PICK base \in A!Va, num \in Counts, mask \in A!Va :
          call' = [pc |-> "scan", op |-> "pgaccess", base |-> base, mask |-> mask,
                   num |-> IF num > MAX_PAGES THEN MAX_PAGES ELSE num,
                   i |-> 0, bitmap |-> {}]
  BY DEF A!Pgaccess
<1>2. accessed = Recent /\ UNCHANGED <<accessed, tlb, touched, lost>>
  BY AtUser DEF A!Pgaccess
<1>3. base \in Nat /\ mask \in Nat /\ num \in Nat /\ MAX_PAGES \in Nat
  BY PageSizes
<1>4. Scanning'
  BY <1>1, <1>3 DEF Scanning, ScanType
<1>5. A!At("scan")' /\ ~ A!At("user")' /\ ~ A!At("copy")' /\ ~ A!At("ok")' /\ ~ A!At("failed")'
  BY <1>1 DEF A!At
<1>6. ~ Reporting' /\ ~ (call \in CopyType)'
  BY <1>5, CallFields DEF Reporting, ReportType, CopyType, Copying, A!At
<1>7. call'.i = 0 /\ call'.bitmap = {}
  BY <1>1
<1>8. Seen(call.i)' = {} /\ Bits(call.i)' = {}
  BY <1>7 DEF Seen, Bits
<1>9. (accessed = Recent \ Seen(call.i))'
  BY <1>2, <1>8 DEF Recent
<1> QED
  BY <1>2, <1>4, <1>5, <1>6, <1>7, <1>8, <1>9
  DEF MemoryInv, CallShape, UserInv, ScanInv, ReportInv, CopyInv, LoopInv, A!CopyExact

LEMMA ScanKeeps == ASSUME A!UserMemoryConstants, MemoryInv, A!Scan PROVE MemoryInv'
<1>1. /\ call \in ScanType /\ accessed = Recent \ Seen(call.i) /\ call.bitmap = Bits(call.i)
      /\ call.i < call.num /\ A!At("scan") /\ UNCHANGED <<tlb, touched, lost>>
  BY AtScan DEF A!Scan
<1>2. /\ call.base \in Nat /\ call.i \in Nat /\ call.num \in Nat /\ call.bitmap \in SUBSET Nat
  BY <1>1, CallFields
<1>3. PICK va : va = call.base + call.i * PGSIZE
  OBVIOUS
<1>4. PICK v : v = A!PageOf(va)
  OBVIOUS
<1>5. va \in Nat /\ v = A!PageOf(call.base) + call.i /\ A!PageOf(call.base) \in Nat
  BY <1>2, <1>3, <1>4, PageAfter, PageIs
<1>6. CASE va >= A!MAXVA
  <2>1. UNCHANGED <<accessed, call>>
    BY <1>3, <1>6 DEF A!Scan
  <2> QED
    BY <1>1, <2>1
    DEF MemoryInv, CallShape, UserInv, ScanInv, ReportInv, CopyInv, LoopInv, A!CopyExact, A!At, Scanning,
        Reporting, Recent, Seen, Bits
<1>7. CASE ~ (va >= A!MAXVA)
  <2>1. /\ accessed' = accessed \ {v}
        /\ call' = [call EXCEPT !.i = @ + 1,
                                !.bitmap = IF A!Mapped(va) /\ v \in accessed
                                           THEN @ \cup {call.i} ELSE @]
    BY <1>3, <1>4, <1>7 DEF A!Scan
  <2>2. v \in A!Page /\ va < A!MAXVA
    <3>1. va < A!MAXVA
      BY <1>5, <1>7, PageSizes
    <3> QED BY <1>4, <1>5, <3>1, PageIs
  <2>3. v \in accessed <=> v \in Recent
    <3>1. v \notin Seen(call.i)
      BY <1>2, <1>5 DEF Seen
    <3> QED BY <1>1, <3>1
  <2>4. v \in accessed => A!Mapped(va)
    BY <1>4, <2>2 DEF MemoryInv, User_Page, A!Mapped
  <2>5. PICK B : B = IF v \in Recent THEN call.bitmap \cup {call.i} ELSE call.bitmap
    OBVIOUS
  <2>6. call' = [call EXCEPT !.i = call.i + 1, !.bitmap = B]
    BY <2>1, <2>3, <2>4, <2>5
  <2>7. B \in SUBSET Nat
    BY <2>5, <1>2
  <2>8. /\ call' \in ScanType /\ call'.i = call.i + 1 /\ call'.bitmap = B /\ call'.base = call.base
        /\ call'.num = call.num
    <3>1. call.i + 1 \in Nat
      BY <1>2
    <3>2. PICK c \in ScanType : c = call
      BY <1>1
    <3>3. [c EXCEPT !.i = call.i + 1] \in ScanType
      BY <3>1, <3>2 DEF ScanType
    <3>4. PICK d \in ScanType : d = [c EXCEPT !.i = call.i + 1]
      BY <3>3
    <3>5. call' = [d EXCEPT !.bitmap = B]
      BY <2>6, <3>2, <3>4
    <3>6. call' \in ScanType /\ call'.bitmap = B
      BY <2>7, <3>4, <3>5 DEF ScanType
    <3>7. call'.i = d.i /\ call'.base = d.base /\ call'.num = d.num
      BY <3>4, <3>5 DEF ScanType
    <3>8. d.i = call.i + 1 /\ d.base = call.base /\ d.num = call.num
      BY <3>2, <3>4 DEF ScanType
    <3> QED BY <3>6, <3>7, <3>8
  <2>9. Seen(call.i)' = Seen(call.i) \cup {v}
    BY <1>2, <1>5, <2>2, <2>8 DEF Seen
  <2>10. Recent' = Recent
    BY <1>1 DEF Recent
  <2>11. Bits(call.i)' = B
    BY <1>1, <1>2, <1>5, <2>5, <2>8, <2>10 DEF Bits
  <2>12. A!At("scan")' /\ ~ A!At("user")' /\ ~ A!At("copy")' /\ ~ A!At("ok")' /\ ~ A!At("failed")'
    BY <2>8 DEF A!At, ScanType
  <2>13. ~ Reporting' /\ ~ (call \in CopyType)'
    BY <2>12, CallFields DEF Reporting, ReportType, CopyType, Copying, A!At
  <2>14. Scanning'
    BY <2>8, <1>1, <1>2 DEF Scanning
  <2>15. (accessed = Recent \ Seen(call.i))'
    BY <1>1, <2>1, <2>9, <2>10
  <2>16. (accessed \subseteq User_Page)'
    BY <2>1 DEF MemoryInv
  <2>17. (call.bitmap = Bits(call.i))'
    BY <2>8, <2>11
  <2> QED
    BY <1>1, <2>12, <2>13, <2>14, <2>15, <2>16, <2>17
    DEF MemoryInv, CallShape, UserInv, ScanInv, ReportInv, CopyInv, LoopInv, A!CopyExact
<1> QED BY <1>6, <1>7

LEMMA ScanDoneKeeps == ASSUME A!UserMemoryConstants, MemoryInv, A!ScanDone PROVE MemoryInv'
<1>1. /\ call \in ScanType /\ accessed = Recent \ Seen(call.i) /\ call.bitmap = Bits(call.i)
      /\ call.i = call.num /\ A!At("scan") /\ UNCHANGED <<accessed, tlb, touched, lost>>
  BY AtScan DEF A!ScanDone
<1>2. /\ call.base \in Nat /\ call.mask \in Nat /\ call.num \in Nat /\ call.bitmap \in SUBSET Nat
  BY <1>1, CallFields
<1>3. call' = [pc |-> "copy", op |-> "pgaccess", base |-> call.base, num |-> call.num,
               bitmap |-> call.bitmap, start |-> call.mask, size |-> BitmapSize,
               va |-> call.mask, len |-> BitmapSize, done |-> {}]
  BY DEF A!ScanDone
<1>4. Reporting'
  BY <1>2, <1>3, PageSizes DEF Reporting, ReportType, Copying
<1>5. A!At("copy")' /\ ~ A!At("user")' /\ ~ A!At("scan")' /\ ~ A!At("ok")' /\ ~ A!At("failed")'
  BY <1>3 DEF A!At
<1>6. ~ (call \in CopyType)'
  BY <1>3, CallFields DEF CopyType
<1>7. call'.base = call.base /\ call'.num = call.num /\ call'.bitmap = call.bitmap
  BY <1>3
<1>8. Recent' = Recent
  BY <1>1 DEF Recent
<1>9. (accessed = Recent \ Seen(call.num))'
  BY <1>1, <1>7, <1>8 DEF Seen
<1>10. (call.bitmap = Bits(call.num))'
  BY <1>1, <1>7, <1>8 DEF Bits
<1>11. Passed'
  <2>1. /\ call'.start = call.mask /\ call'.va = call.mask /\ call'.len = BitmapSize
        /\ call'.size = BitmapSize /\ call'.done = {} /\ call'.op = "pgaccess"
    BY <1>3
  <2>2. Before' = {}
    BY <2>1, <1>2 DEF Before
  <2> QED BY <2>1, <2>2, <1>2 DEF Passed
<1> QED
  BY <1>1, <1>4, <1>5, <1>6, <1>9, <1>10, <1>11
  DEF MemoryInv, CallShape, UserInv, ScanInv, ReportInv, CopyInv, LoopInv, A!CopyExact

-----------------------------------------------------------------------------
(* copyin(), copyout() and copyinstr().                                    *)

\* A step that changes no more of the call than its copy.
SameCall ==
    /\ call' \in CopyType <=> call \in CopyType
    /\ call' \in ReportType <=> call \in ReportType
    /\ call'.op = call.op /\ call'.start = call.start /\ call'.size = call.size
    /\ Reporting => call'.base = call.base /\ call'.num = call.num /\ call'.bitmap = call.bitmap

LEMMA Disjoint == ~ (call \in CopyType /\ call \in ReportType)
BY DEF CopyType, ReportType

LEMMA Advance ==
    ASSUME call \in CopyType \/ Reporting, NEW d \in SUBSET Nat, NEW v \in Nat, NEW l \in Nat,
           call' = [call EXCEPT !.done = d, !.va = v, !.len = l]
    PROVE  SameCall /\ call'.pc = call.pc /\ call'.done = d /\ call'.va = v /\ call'.len = l
<1>1. CASE call \in CopyType
  <2>1. PICK c \in CopyType : c = call
    BY <1>1
  <2>2. PICK e \in CopyType : e = [c EXCEPT !.done = d]
    BY DEF CopyType
  <2>3. PICK f \in CopyType : f = [e EXCEPT !.va = v]
    BY DEF CopyType
  <2>4. PICK g \in CopyType : g = [f EXCEPT !.len = l]
    BY DEF CopyType
  <2>5. call' = g
    BY <2>1, <2>2, <2>3, <2>4
  <2>6. g.pc = c.pc /\ g.op = c.op /\ g.start = c.start /\ g.size = c.size /\ g.done = d /\ g.va = v /\ g.len = l
    BY <2>2, <2>3, <2>4 DEF CopyType
  <2>7. call' \notin ReportType /\ ~ Reporting
    BY <1>1, <2>5, Disjoint DEF CopyType, ReportType, Reporting
  <2> QED BY <1>1, <2>1, <2>5, <2>6, <2>7 DEF SameCall, Reporting
<1>2. CASE Reporting
  <2>1. PICK c \in ReportType : c = call
    BY <1>2 DEF Reporting
  <2>2. PICK e \in ReportType : e = [c EXCEPT !.done = d]
    BY DEF ReportType
  <2>3. PICK f \in ReportType : f = [e EXCEPT !.va = v]
    BY DEF ReportType
  <2>4. PICK g \in ReportType : g = [f EXCEPT !.len = l]
    BY DEF ReportType
  <2>5. call' = g
    BY <2>1, <2>2, <2>3, <2>4
  <2>6. /\ g.pc = c.pc /\ g.op = c.op /\ g.start = c.start /\ g.size = c.size /\ g.done = d
        /\ g.va = v /\ g.len = l /\ g.base = c.base /\ g.num = c.num /\ g.bitmap = c.bitmap
    BY <2>2, <2>3, <2>4 DEF ReportType
  <2>7. g \notin CopyType /\ c \notin CopyType
    BY DEF CopyType, ReportType
  <2> QED BY <1>2, <2>1, <2>5, <2>6, <2>7 DEF SameCall, Reporting
<1> QED BY <1>1, <1>2

LEMMA Ends ==
    ASSUME call \in CopyType \/ Reporting, NEW d \in SUBSET Nat, NEW l \in {"ok", "failed"},
           call' = [call EXCEPT !.pc = l, !.done = d]
    PROVE  SameCall /\ call'.pc = l /\ call'.done = d
<1>1. CASE call \in CopyType
  <2>1. PICK c \in CopyType : c = call
    BY <1>1
  <2>2. PICK e \in CopyType : e = [c EXCEPT !.pc = l]
    BY DEF CopyType, Copying
  <2>3. PICK g \in CopyType : g = [e EXCEPT !.done = d]
    BY DEF CopyType
  <2>4. call' = g
    BY <2>1, <2>2, <2>3
  <2>5. g.pc = l /\ g.op = c.op /\ g.start = c.start /\ g.size = c.size /\ g.done = d
    BY <2>2, <2>3 DEF CopyType
  <2>6. call' \notin ReportType /\ ~ Reporting
    BY <1>1, <2>4, Disjoint DEF CopyType, ReportType, Reporting
  <2> QED BY <1>1, <2>1, <2>4, <2>5, <2>6 DEF SameCall, Reporting
<1>2. CASE Reporting
  <2>1. PICK c \in ReportType : c = call
    BY <1>2 DEF Reporting
  <2>2. PICK e \in ReportType : e = [c EXCEPT !.pc = l]
    BY DEF ReportType, Copying
  <2>3. PICK g \in ReportType : g = [e EXCEPT !.done = d]
    BY DEF ReportType
  <2>4. call' = g
    BY <2>1, <2>2, <2>3
  <2>5. /\ g.pc = l /\ g.op = c.op /\ g.start = c.start /\ g.size = c.size /\ g.done = d
        /\ g.base = c.base /\ g.num = c.num /\ g.bitmap = c.bitmap
    BY <2>2, <2>3 DEF ReportType
  <2>6. g \notin CopyType /\ c \notin CopyType
    BY DEF CopyType, ReportType
  <2> QED BY <1>2, <2>1, <2>4, <2>5, <2>6 DEF SameCall, Reporting
<1> QED BY <1>1, <1>2

LEMMA CopyKeeps ==
    ASSUME MemoryInv, A!At("copy"), SameCall, call'.pc \in Copying,
           UNCHANGED <<accessed, tlb, touched, lost>>, LoopInv', A!CopyExact'
    PROVE  MemoryInv'
<1>1. /\ call \in CopyType \/ Reporting
      /\ call \in CopyType => accessed = Recent
      /\ Reporting => accessed = Recent \ Seen(call.num) /\ call.bitmap = Bits(call.num)
  BY AtCopy
<1>2. ~ A!At("user")' /\ ~ A!At("scan")'
  BY DEF A!At, Copying
<1>3. (Reporting <=> Reporting') /\ Recent' = Recent
  BY DEF SameCall, Reporting, Recent
<1>4. ReportInv'
  <2>1. SUFFICES ASSUME Reporting
                 PROVE  (accessed = Recent \ Seen(call.num))' /\ (call.bitmap = Bits(call.num))'
    BY <1>3 DEF ReportInv
  <2>2. call'.base = call.base /\ call'.num = call.num /\ call'.bitmap = call.bitmap
    BY <2>1 DEF SameCall
  <2>3. Seen(call.num)' = Seen(call.num) /\ Bits(call.num)' = Bits(call.num)
    BY <1>3, <2>2 DEF Seen, Bits
  <2> QED BY <1>1, <1>3, <2>1, <2>2, <2>3
<1>5. CopyInv'
  BY <1>1, <1>3 DEF CopyInv, SameCall
<1>6. CallShape'
  BY <1>1, <1>3 DEF CallShape, SameCall
<1> QED BY <1>2, <1>4, <1>5, <1>6 DEF MemoryInv, UserInv, ScanInv

\* Readable() or Writable().
LEMMA UsableIs ==
    /\ call.op = "copyin" => \A a : A!Usable(a) <=> A!Readable(a)
    /\ call.op = "copyinstr" => \A a : A!Usable(a) <=> A!Readable(a)
    /\ call.op \in {"copyout", "pgaccess"} => \A a : A!Usable(a) <=> A!Writable(a)
BY DEF A!Usable

LEMMA PartIs ==
    ASSUME A!UserMemoryConstants, call \in CopyType \/ Reporting
    PROVE  /\ A!Part \in Nat /\ A!Part <= call.len /\ (call.len > 0 => A!Part > 0)
           /\ \A a \in call.va .. call.va + A!Part - 1 : A!Usable(a) <=> A!Usable(call.va)
<1>1. call.va \in Nat /\ call.len \in Nat
  BY CallFields
<1>2. PICK n \in Nat \ {0}, r \in Nat : n = PGSIZE /\ r = call.va % n /\ r < n
  <2>1. PGSIZE \in Nat \ {0} /\ call.va % PGSIZE \in 0 .. PGSIZE - 1
    BY <1>1, PageIs, PageSizes
  <2> QED BY <2>1
<1>3. A!Part = IF n - r > call.len THEN call.len ELSE n - r
  BY <1>2 DEF A!Part
<1>4. A!Part \in Nat /\ A!Part <= call.len /\ A!Part <= n - r /\ (call.len > 0 => A!Part > 0)
  BY <1>1, <1>2, <1>3
<1>5. ASSUME NEW a \in call.va .. call.va + A!Part - 1 PROVE A!Usable(a) <=> A!Usable(call.va)
  <2>1. a \in Nat /\ call.va <= a /\ a < call.va + (n - r)
    BY <1>1, <1>2, <1>4
  <2>2. A!PageOf(a) = A!PageOf(call.va) /\ (call.va < A!MAXVA <=> a < A!MAXVA)
    BY <1>1, <1>2, <2>1, OnePage
  <2> QED BY <2>2 DEF A!Usable, A!Readable, A!Writable, A!Mapped
<1> QED BY <1>4, <1>5

LEMMA AtLoop ==
    ASSUME MemoryInv, A!At("copy")
    PROVE  /\ call \in CopyType \/ Reporting
           /\ Passed /\ Before \subseteq Nat /\ call.done = Before
           /\ call.start \in Nat /\ call.va \in Nat /\ call.len \in Nat /\ call.size \in Nat
           /\ call.start <= call.va /\ call.va + call.len = call.start + call.size
           /\ call.op \in Other \cup {"pgaccess"}
<1>1. call \in CopyType \/ Reporting
  BY AtCopy
<1>2. Passed
  BY DEF MemoryInv, LoopInv
<1> QED BY <1>1, <1>2, CallFields DEF Passed, Before, Other

\* A page is copied.
LEMMA PageCopied ==
    ASSUME A!UserMemoryConstants, MemoryInv, A!At("copy"), A!Usable(call.va),
           call.op = "copyinstr" => (call.va .. call.va + A!Part - 1) \cap Nul = {},
           call' = [call EXCEPT !.done = @ \cup (call.va .. call.va + A!Part - 1),
                                !.va = @ + A!Part, !.len = @ - A!Part],
           UNCHANGED <<accessed, tlb, touched, lost>>
    PROVE  MemoryInv'
<1>1. /\ call \in CopyType \/ Reporting
      /\ Passed /\ Before \subseteq Nat /\ call.done = Before
      /\ call.start \in Nat /\ call.va \in Nat /\ call.len \in Nat /\ call.size \in Nat
      /\ call.start <= call.va /\ call.va + call.len = call.start + call.size
  BY AtLoop
<1>2. A!Part \in Nat /\ A!Part <= call.len
  BY <1>1, PartIs
<1>3. PICK n \in Nat, v \in Nat, l \in Nat : n = A!Part /\ v = call.va + n /\ l = call.len - n
  BY <1>1, <1>2
<1>4. PICK d \in SUBSET Nat : d = call.done \cup (call.va .. call.va + n - 1)
  <2>1. call.va .. call.va + n - 1 \subseteq Nat
    BY <1>1
  <2>2. call.done \cup (call.va .. call.va + n - 1) \in SUBSET Nat
    BY <1>1, <2>1
  <2> QED BY <2>2
<1>5. call' = [call EXCEPT !.done = d, !.va = v, !.len = l]
  BY <1>3, <1>4
<1>6. SameCall /\ call'.pc = call.pc /\ call'.done = d /\ call'.va = v /\ call'.len = l
  <2>1. call \in CopyType \/ Reporting
    BY <1>1
  <2> QED BY ONLY Advance, <1>5, <2>1, d \in SUBSET Nat, v \in Nat, l \in Nat, Zenon
<1>7. Before' = Before \cup (call.va .. call.va + n - 1)
  BY <1>1, <1>3, <1>6 DEF Before, SameCall
<1>8. Passed'
  <2>1. \A a : A!Usable(a)' <=> A!Usable(a)
    BY <1>6 DEF SameCall, A!Usable, A!Readable, A!Writable, A!Mapped
  <2>2. \A a \in Before : A!Usable(a)
    BY <1>1 DEF Passed
  <2>3. \A a \in call.va .. call.va + n - 1 : A!Usable(a)
    BY <1>1, <1>3, PartIs
  <2>4. \A a \in Before' : A!Usable(a)'
    BY <1>7, <2>1, <2>2, <2>3
  <2>5. (call.done = Before)'
    BY <1>1, <1>4, <1>6, <1>7
  <2>6. call'.start <= call'.va /\ call'.va + call'.len = call'.start + call'.size
    BY <1>1, <1>3, <1>6 DEF SameCall
  <2>7. call'.op = "copyinstr" => Before' \cap Nul = {}
    BY <1>1, <1>3, <1>6, <1>7 DEF Passed, SameCall
  <2> QED BY <2>4, <2>5, <2>6, <2>7 DEF Passed
<1>9. call'.pc = "copy"
  BY <1>6 DEF A!At
<1>10. LoopInv' /\ A!CopyExact'
  BY <1>8, <1>9 DEF LoopInv, A!CopyExact, A!At
<1> QED BY <1>6, <1>9, <1>10, CopyKeeps DEF Copying

\* Where the loop stops: everything is copied, or the next byte cannot be.
LEMMA Stopped ==
    ASSUME MemoryInv, A!At("copy"), call.len = 0 \/ ~ A!Usable(call.va)
    PROVE  /\ call.done = {a \in A!Wanted : \A b \in call.start .. a : A!Usable(b)}
           /\ call.len = 0 <=> call.done = A!Wanted
<1>1. /\ Passed /\ call.done = Before
      /\ call.start \in Nat /\ call.va \in Nat /\ call.len \in Nat /\ call.size \in Nat
      /\ call.start <= call.va /\ call.va + call.len = call.start + call.size
  BY AtLoop
<1>2. PICK s \in Nat, v \in Nat, l \in Nat, n \in Nat :
          s = call.start /\ v = call.va /\ l = call.len /\ n = call.size /\ s <= v /\ v + l = s + n
  BY <1>1
<1>3. A!Wanted = s .. s + n - 1 /\ call.done = s .. v - 1 /\ \A a \in s .. v - 1 : A!Usable(a)
  <2>1. A!Wanted = s .. s + n - 1
    BY <1>2 DEF A!Wanted
  <2>2. Before = s .. v - 1
    BY <1>2 DEF Before
  <2> QED BY <1>1, <2>1, <2>2 DEF Passed
<1>4. ASSUME NEW a \in A!Wanted PROVE a \in call.done <=> \A b \in s .. a : A!Usable(b)
  <2>0. a \in Int /\ s <= a /\ a < s + n
    BY <1>2, <1>3
  <2>1. CASE a < v
    <3>1. a \in call.done
      BY ONLY <1>2, <1>3, <2>0, <2>1
    <3>2. ASSUME NEW b \in s .. a PROVE b \in s .. v - 1
      BY ONLY <1>2, <2>0, <2>1, <3>2
    <3> QED BY <1>3, <3>1, <3>2
  <2>2. CASE a >= v
    <3>1. v \in s .. a /\ l # 0
      BY ONLY <1>2, <2>0, <2>2
    <3>2. a \notin call.done
      BY ONLY <1>2, <1>3, <2>0, <2>2
    <3> QED BY <1>2, <3>1, <3>2
  <2> QED BY <1>2, <2>0, <2>1, <2>2
<1>5. call.done \subseteq A!Wanted
  <2>1. ASSUME NEW a \in s .. v - 1 PROVE a \in s .. s + n - 1
    BY <1>2
  <2> QED BY <1>3, <2>1
<1>6. call.len # 0 => v \in A!Wanted /\ v \notin call.done
  <2>1. ASSUME l # 0 PROVE v \in s .. s + n - 1
    BY ONLY s \in Nat, v \in Nat, l \in Nat, n \in Nat, <1>2, <2>1
  <2>2. v \notin s .. v - 1
    BY ONLY s \in Nat, v \in Nat
  <2> QED BY <1>2, <1>3, <2>1, <2>2
<1>7. call.len = 0 => call.done = A!Wanted
  BY <1>2, <1>3
<1> QED BY <1>2, <1>4, <1>5, <1>6, <1>7

\* The copy ends, having done what a copy byte by byte would have.
LEMMA CopyEnds ==
    ASSUME MemoryInv, A!At("copy"), NEW d \in SUBSET Nat, NEW l \in {"ok", "failed"},
           call' = [call EXCEPT !.pc = l, !.done = d], UNCHANGED <<accessed, tlb, touched, lost>>,
           call.op = "copyin" => d = A!Copied(A!Readable) /\ (l = "ok" <=> d = A!Wanted),
           call.op \in {"copyout", "pgaccess"} =>
               d = A!Copied(A!Writable) /\ (l = "ok" <=> d = A!Wanted),
           call.op = "copyinstr" => d = A!Copied(A!NoNulBefore) /\ (l = "ok" <=> d \cap Nul # {})
    PROVE  MemoryInv'
<1>1. call \in CopyType \/ Reporting
  BY AtCopy
<1>2. SameCall /\ call'.pc = l /\ call'.done = d
  BY <1>1, Ends, Zenon
<1>3. /\ call'.op = call.op /\ call'.start = call.start /\ call'.size = call.size
  BY <1>2 DEF SameCall
<1>4. (A!At("ok")' <=> l = "ok") /\ ~ A!At("copy")'
  BY <1>2 DEF A!At
<1>5. A!CopyExact'
  <2>1. A!Wanted' = A!Wanted
    BY <1>3 DEF A!Wanted
  <2>2. A!Copied(A!Readable)' = A!Copied(A!Readable)
    BY <1>3, <2>1 DEF A!Copied, A!Readable, A!Mapped
  <2>3. A!Copied(A!Writable)' = A!Copied(A!Writable)
    BY <1>3, <2>1 DEF A!Copied, A!Writable, A!Mapped
  <2>4. A!Copied(A!NoNulBefore)' = A!Copied(A!NoNulBefore)
    BY <1>3, <2>1 DEF A!Copied, A!NoNulBefore, A!Readable, A!Mapped
  <2>5. call.op \in Other \cup {"pgaccess"}
    BY AtLoop
  <2> QED BY <1>2, <1>3, <1>4, <2>1, <2>2, <2>3, <2>4, <2>5 DEF A!CopyExact, Other
<1>6. LoopInv'
  BY <1>4 DEF LoopInv
<1> QED BY <1>2, <1>5, <1>6, CopyKeeps DEF Copying

\* What copyin() and copyout() have done when their loop stops.
LEMMA StoppedPlain ==
    ASSUME MemoryInv, A!At("copy"), call.len = 0 \/ ~ A!Usable(call.va)
    PROVE  /\ call.op = "copyin" => call.done = A!Copied(A!Readable)
           /\ call.op \in {"copyout", "pgaccess"} => call.done = A!Copied(A!Writable)
<1>1. call.done = {a \in A!Wanted : \A b \in call.start .. a : A!Usable(b)}
  BY Stopped
<1> QED BY <1>1, UsableIs DEF A!Copied

\* And copyinstr(), when it has found no zero.
LEMMA StoppedString ==
    ASSUME MemoryInv, A!At("copy"), call.len = 0 \/ ~ A!Usable(call.va), call.op = "copyinstr"
    PROVE  call.done = A!Copied(A!NoNulBefore) /\ call.done \cap Nul = {}
<1>1. call.done = {a \in A!Wanted : \A b \in call.start .. a : A!Usable(b)}
  BY Stopped
<1>2. /\ Passed /\ call.done = Before /\ Before \cap Nul = {}
      /\ call.start \in Nat /\ call.va \in Nat
  BY AtLoop DEF Passed
<1>3. ASSUME NEW a \in call.done, NEW b \in call.start .. a PROVE A!NoNulBefore(b)
  <2>1. A!Readable(b)
    BY <1>1, <1>3, UsableIs
  <2>2. \A c \in call.start .. b - 1 : c \in Before
    BY <1>2, <1>3 DEF Before
  <2> QED BY <1>2, <2>1, <2>2 DEF A!NoNulBefore
<1>4. ASSUME NEW a \in A!Wanted, \A b \in call.start .. a : A!NoNulBefore(b) PROVE a \in call.done
  BY <1>1, <1>4, UsableIs DEF A!NoNulBefore
<1>5. call.done \subseteq A!Wanted
  BY <1>1
<1> QED BY <1>2, <1>3, <1>4, <1>5 DEF A!Copied

LEMMA CopyPageKeeps == ASSUME A!UserMemoryConstants, MemoryInv, A!CopyPage PROVE MemoryInv'
<1>1. /\ A!At("copy") /\ call.op # "copyinstr" /\ call.len > 0
      /\ UNCHANGED <<accessed, tlb, touched, lost>>
  BY DEF A!CopyPage
<1>2. CASE A!Usable(call.va)
  BY <1>1, <1>2, PageCopied DEF A!CopyPage
<1>3. CASE ~ A!Usable(call.va)
  <2>1. call' = [call EXCEPT !.pc = "failed", !.done = call.done]
    BY <1>3 DEF A!CopyPage, A!Returning
  <2>2. call.done \in SUBSET Nat /\ call.len \in Nat /\ call.len # 0
    BY <1>1, AtLoop
  <2>3. call.done # A!Wanted
    BY <1>1, <1>3, <2>2, Stopped
  <2>4. /\ call.op = "copyin" => call.done = A!Copied(A!Readable)
        /\ call.op \in {"copyout", "pgaccess"} => call.done = A!Copied(A!Writable)
    BY <1>1, <1>3, StoppedPlain
  <2>5. PICK d \in SUBSET Nat : d = call.done
    BY <2>2
  <2>6. call' = [call EXCEPT !.pc = "failed", !.done = d]
    BY <2>1, <2>5
  <2> QED BY <1>1, <2>3, <2>4, <2>5, <2>6, CopyEnds, Zenon
<1> QED BY <1>2, <1>3

LEMMA CopyDoneKeeps == ASSUME A!UserMemoryConstants, MemoryInv, A!CopyDone PROVE MemoryInv'
<1>1. A!At("copy") /\ call.len = 0 /\ UNCHANGED <<accessed, tlb, touched, lost>>
  BY DEF A!CopyDone
<1>2. PICK d \in SUBSET Nat : d = call.done
  BY <1>1, AtLoop
<1>3. PICK l \in {"ok", "failed"} : l = IF call.op # "copyinstr" THEN "ok" ELSE "failed"
  OBVIOUS
<1>4. call' = [call EXCEPT !.pc = l, !.done = d]
  BY <1>2, <1>3 DEF A!CopyDone, A!Returning
<1>5. d = A!Wanted
  BY <1>1, <1>2, Stopped
<1>6. /\ call.op = "copyin" => d = A!Copied(A!Readable)
      /\ call.op \in {"copyout", "pgaccess"} => d = A!Copied(A!Writable)
  BY <1>1, <1>2, StoppedPlain
<1>7. call.op = "copyinstr" => d = A!Copied(A!NoNulBefore) /\ d \cap Nul = {}
  BY <1>1, <1>2, StoppedString
<1>8. call.op \in Other \cup {"pgaccess"}
  BY <1>1, AtLoop
<1>9. call.op = "copyin" => d = A!Copied(A!Readable) /\ (l = "ok" <=> d = A!Wanted)
  BY <1>3, <1>5, <1>6
<1>10. call.op \in {"copyout", "pgaccess"} => d = A!Copied(A!Writable) /\ (l = "ok" <=> d = A!Wanted)
  BY <1>3, <1>5, <1>6
<1>11. call.op = "copyinstr" => d = A!Copied(A!NoNulBefore) /\ (l = "ok" <=> d \cap Nul # {})
  BY <1>3, <1>7
<1> QED BY <1>1, <1>4, <1>9, <1>10, <1>11, CopyEnds, Zenon

LEMMA CopyStringKeeps == ASSUME A!UserMemoryConstants, MemoryInv, A!CopyStringPage PROVE MemoryInv'
<1>1. /\ A!At("copy") /\ call.op = "copyinstr" /\ call.len > 0
      /\ UNCHANGED <<accessed, tlb, touched, lost>>
  BY DEF A!CopyStringPage
<1>2. /\ call \in CopyType \/ Reporting
      /\ Passed /\ Before \subseteq Nat /\ call.done = Before
      /\ call.start \in Nat /\ call.va \in Nat /\ call.len \in Nat /\ call.size \in Nat
      /\ call.start <= call.va /\ call.va + call.len = call.start + call.size
  BY <1>1, AtLoop
<1>3. /\ A!Part \in Nat /\ A!Part <= call.len /\ A!Part > 0
      /\ \A a \in call.va .. call.va + A!Part - 1 : A!Usable(a) <=> A!Usable(call.va)
  BY <1>1, <1>2, PartIs
<1> DEFINE part == call.va .. call.va + A!Part - 1
           nul  == {a \in part \cap Nul : \A b \in part \cap Nul : a <= b}
<1>4. call' = IF ~ A!Usable(call.va) THEN A!Returning(FALSE, call.done)
              ELSE IF nul = {}
              THEN [call EXCEPT !.done = @ \cup part, !.va = @ + A!Part, !.len = @ - A!Part]
              ELSE A!Returning(TRUE, call.done \cup {a \in part : \E b \in nul : a <= b})
  BY DEF A!CopyStringPage
<1>5. part \subseteq Nat
  BY <1>2, <1>3
<1>6. CASE ~ A!Usable(call.va)
  <2>1. PICK d \in SUBSET Nat : d = call.done
    BY <1>2
  <2>2. call' = [call EXCEPT !.pc = "failed", !.done = d]
    BY <1>4, <1>6, <2>1 DEF A!Returning
  <2>3. d = A!Copied(A!NoNulBefore) /\ d \cap Nul = {}
    BY <1>1, <1>6, <2>1, StoppedString
  <2> QED BY <1>1, <2>2, <2>3, CopyEnds, Zenon
<1>7. CASE A!Usable(call.va) /\ nul = {}
  <2>1. part \cap Nul = {}
    <3>1. SUFFICES ASSUME part \cap Nul # {} PROVE FALSE
      OBVIOUS
    <3>2. part \cap Nul \in SUBSET Nat
      BY <1>5
    <3>3. PICK a \in part \cap Nul : \A b \in part \cap Nul : a <= b
      BY <3>1, <3>2, Least
    <3> QED BY <1>7, <3>3
  <2>2. call' = [call EXCEPT !.done = @ \cup part, !.va = @ + A!Part, !.len = @ - A!Part]
    BY <1>4, <1>7
  <2> QED BY <1>1, <1>7, <2>1, <2>2, PageCopied, Zenon
<1>8. CASE A!Usable(call.va) /\ nul # {}
  <2>1. PICK z \in part \cap Nul : \A b \in part \cap Nul : z <= b
    BY <1>8
  <2>2. z \in Nat /\ nul = {z}
    <3>1. ASSUME NEW b \in nul PROVE b = z
      <4>1. b <= z /\ z <= b /\ b \in Nat /\ z \in Nat
        BY <1>5, <2>1, <3>1
      <4> QED BY <4>1
    <3> QED BY <1>5, <2>1, <3>1
  <2>3. PICK d \in SUBSET Nat : d = call.done \cup {a \in part : a <= z}
    <3>1. call.done \cup {a \in part : a <= z} \in SUBSET Nat
      BY <1>2, <1>5
    <3> QED BY <3>1
  <2>4. call' = [call EXCEPT !.pc = "ok", !.done = d]
    <3>1. d = call.done \cup {a \in part : \E b \in nul : a <= b}
      BY <2>2, <2>3
    <3> HIDE DEF nul, part
    <3> QED BY <1>4, <1>8, <3>1 DEF A!Returning
  <2>5. PICK s \in Nat, v \in Nat, m \in Nat, n \in Nat, l \in Nat :
            /\ s = call.start /\ v = call.va /\ m = A!Part /\ n = call.size /\ l = call.len
            /\ s <= v /\ v + l = s + n /\ m <= l
    BY <1>2, <1>3
  <2>6. /\ A!Wanted = s .. s + n - 1 /\ Before = s .. v - 1 /\ part = v .. v + m - 1
        /\ v <= z /\ z < v + m /\ z \in Nul
    BY <2>1, <2>2, <2>5 DEF A!Wanted, Before
  <2>7. d = s .. z
    <3>1. d = (s .. v - 1) \cup {a \in v .. v + m - 1 : a <= z}
      BY <1>2, <2>3, <2>6
    <3> HIDE DEF part, nul
    <3>2. z \in Nat /\ v <= z /\ z < v + m /\ s <= v
      BY <2>2, <2>5, <2>6
    <3>3. (s .. v - 1) \cup {a \in v .. v + m - 1 : a <= z} = s .. z
      <4>1. ASSUME NEW x \in s .. v - 1 PROVE x \in s .. z
        BY ONLY <3>2, s \in Nat, v \in Nat, <4>1
      <4>2. ASSUME NEW x \in v .. v + m - 1, x <= z PROVE x \in s .. z
        BY ONLY <3>2, s \in Nat, v \in Nat, m \in Nat, <4>2
      <4>3. ASSUME NEW x \in s .. z PROVE x \in s .. v - 1 \/ (x \in v .. v + m - 1 /\ x <= z)
        BY ONLY <3>2, s \in Nat, v \in Nat, m \in Nat, <4>3
      <4> QED BY <4>1, <4>2, <4>3
    <3> QED BY <3>1, <3>3
  <2>8. \A a \in s .. z : A!Readable(a)
    <3>1. \A a \in Before : A!Usable(a)
      BY <1>2 DEF Passed
    <3>2. ASSUME NEW a \in s .. z PROVE a \in Before \/ a \in part
      <4>1. a \in Int /\ s <= a /\ a < v + m
        BY <2>2, <2>5, <2>6
      <4>2. a < v => a \in s .. v - 1
        BY <2>5, <4>1
      <4>3. a >= v => a \in v .. v + m - 1
        BY <2>5, <4>1
      <4>4. a < v \/ a >= v
        BY <2>5, <4>1
      <4> QED BY ONLY <2>6, <4>2, <4>3, <4>4
    <3> QED BY <1>1, <1>3, <1>8, <3>1, <3>2, UsableIs
  <2>9. \A a \in s .. z - 1 : a \notin Nul
    <3>1. Before \cap Nul = {}
      BY <1>1, <1>2 DEF Passed
    <3> HIDE DEF part, nul
    <3>2. ASSUME NEW a \in s .. z - 1, a \in Nul PROVE FALSE
      <4>1. a \in Int /\ s <= a /\ a < z
        <5>1. z \in Nat
          BY <2>2
        <5> QED BY ONLY s \in Nat, <3>2, <5>1
      <4>2. a \in s .. v - 1 \/ a \in v .. v + m - 1
        BY ONLY s \in Nat, v \in Nat, m \in Nat, <2>2, <2>6, <4>1
      <4>3. a \in part
        BY <2>6, <3>1, <3>2, <4>2
      <4>4. z <= a
        BY <2>1, <3>2, <4>3
      <4> QED BY ONLY <2>2, <4>1, <4>4
    <3> QED BY <3>2
  <2> HIDE DEF part, nul
  <2>20. z \in Nat /\ s <= z /\ z < s + n
    <3>1. z \in Nat /\ s <= v /\ v <= z /\ z < v + m /\ m <= l /\ v + l = s + n
      BY <2>2, <2>5, <2>6
    <3> QED BY ONLY s \in Nat, v \in Nat, m \in Nat, n \in Nat, l \in Nat, <3>1
  <2>10. ASSUME NEW a \in A!Wanted PROVE a \in s .. z <=> \A b \in s .. a : A!NoNulBefore(b)
    <3>1. ASSUME a \in s .. z, NEW b \in s .. a PROVE A!NoNulBefore(b)
      <4>1. a \in Int /\ b \in Int /\ s <= b /\ b <= a /\ a <= z
        BY ONLY s \in Nat, <2>20, <3>1
      <4>2. b \in s .. z
        BY ONLY s \in Nat, <2>20, <4>1
      <4>3. ASSUME NEW c \in s .. b - 1 PROVE c \in s .. z - 1
        BY ONLY s \in Nat, <2>20, <4>1, <4>3
      <4> QED BY <2>5, <2>8, <2>9, <4>2, <4>3 DEF A!NoNulBefore
    <3>2. ASSUME a \notin s .. z PROVE ~ A!NoNulBefore(a) /\ a \in s .. a
      <4>1. a \in Int /\ s <= a /\ z < a
        BY ONLY s \in Nat, n \in Nat, a \in A!Wanted, <2>6, <2>20, <3>2
      <4>2. a \in s .. a /\ z \in s .. a - 1
        BY ONLY s \in Nat, <2>20, <4>1
      <4> QED BY <2>5, <2>6, <4>2 DEF A!NoNulBefore
    <3> QED BY <3>1, <3>2
  <2>11. s .. z \subseteq A!Wanted
    <3>1. ASSUME NEW a \in s .. z PROVE a \in s .. s + n - 1
      BY ONLY s \in Nat, n \in Nat, <2>20, <3>1
    <3> QED BY <2>6, <3>1
  <2>12. d = A!Copied(A!NoNulBefore)
    BY <2>5, <2>7, <2>10, <2>11 DEF A!Copied
  <2>13. d \cap Nul # {}
    <3>1. z \in s .. z
      BY ONLY s \in Nat, <2>20
    <3> QED BY <2>6, <2>7, <3>1
  <2> QED BY <1>1, <2>4, <2>12, <2>13, CopyEnds, Zenon
<1> QED BY <1>6, <1>7, <1>8

-----------------------------------------------------------------------------
LEMMA ReturnKeeps == ASSUME A!UserMemoryConstants, MemoryInv, A!Return PROVE MemoryInv'
<1>1. /\ A!At("ok") \/ A!At("failed")
      /\ tlb' = {} /\ call' = A!User /\ accessed' = accessed
      /\ touched' = IF A!At("ok") /\ call.op = "pgaccess" THEN touched \ A!Reported ELSE touched
      /\ lost' = IF A!At("failed") /\ call.op = "pgaccess" THEN lost \cup (touched \cap A!Reported)
                 ELSE lost \cap touched'
  BY DEF A!Return
<1>2. /\ call \in CopyType \/ Reporting
      /\ call \in CopyType => accessed = Recent
      /\ Reporting => accessed = Recent \ Seen(call.num)
  BY <1>1, AtCopy
<1>3. accessed \subseteq User_Page /\ touched \subseteq User_Page /\ lost \subseteq touched
  BY DEF MemoryInv
<1>4. CASE call \in CopyType
  <2>1. call.op # "pgaccess" /\ accessed = Recent
    BY <1>2, <1>4, CallFields DEF Other
  <2>2. touched' = touched /\ lost' = lost
    BY <1>1, <1>3, <2>1
  <2>3. Recent' = Recent
    BY <2>2 DEF Recent
  <2> QED BY <1>1, <1>3, <2>1, <2>2, <2>3, UserKeeps
<1>5. CASE Reporting
  <2>1. call.op = "pgaccess" /\ accessed = Recent \ Seen(call.num) /\ Seen(call.num) = A!Reported
    BY <1>2, <1>5, CallFields DEF Seen, A!Reported
  <2>2. touched' \subseteq touched /\ lost' \subseteq touched' /\ Recent' = Recent \ A!Reported
    <3>1. CASE A!At("ok")
      <4>1. touched' = touched \ A!Reported /\ lost' = lost \cap touched'
        BY <1>1, <2>1, <3>1 DEF A!At
      <4> QED BY <4>1 DEF Recent
    <3>2. CASE A!At("failed")
      <4>1. touched' = touched /\ lost' = lost \cup (touched \cap A!Reported)
        BY <1>1, <2>1, <3>2 DEF A!At
      <4> QED BY <1>3, <4>1 DEF Recent
    <3> QED BY <1>1, <3>1, <3>2
  <2>3. accessed' = Recent' /\ tlb' \subseteq accessed' /\ accessed' \subseteq User_Page
    BY <1>1, <1>3, <2>1, <2>2
  <2>4. touched' \subseteq User_Page
    BY <1>3, <2>2
  <2> QED BY <1>1, <2>2, <2>3, <2>4, UserKeeps
<1> QED BY <1>2, <1>4, <1>5

LEMMA MemoryInit == ASSUME A!Init PROVE MemoryInv
<1>1. call = A!User /\ accessed = {} /\ tlb = {} /\ touched = {} /\ lost = {}
  BY DEF A!Init
<1>2. A!At("user") /\ ~ A!At("scan") /\ ~ A!At("copy") /\ ~ A!At("ok") /\ ~ A!At("failed")
  BY <1>1 DEF A!At, A!User
<1>3. ~ (call \in CopyType) /\ ~ Reporting
  BY <1>2, CallFields DEF A!At, Copying
<1>4. accessed = Recent
  BY <1>1 DEF Recent
<1>5. CallShape /\ UserInv /\ ScanInv /\ ReportInv /\ CopyInv /\ LoopInv
  BY <1>1, <1>2, <1>3, <1>4, Zenon DEF CallShape, UserInv, ScanInv, ReportInv, CopyInv, LoopInv
<1>6. A!CopyExact
  BY <1>2, Zenon DEF A!CopyExact
<1> QED
  BY <1>1, <1>5, <1>6 DEF MemoryInv

LEMMA MemoryStepKeeps == ASSUME A!UserMemoryConstants, MemoryInv, [A!Next]_(A!vars) PROVE MemoryInv'
<1>1. CASE UNCHANGED A!vars
  BY <1>1 DEF A!vars, MemoryInv, CallShape, UserInv, ScanInv, ReportInv, CopyInv, LoopInv,
     A!CopyExact, A!At,
              Scanning, Reporting, Recent, Seen, Bits, Passed, Before, A!Usable, A!Readable, A!Writable,
              A!Mapped, A!Wanted, A!Copied, A!NoNulBefore
<1>2. CASE A!Next
  BY <1>2, TouchKeeps, CopyCallKeeps, PgaccessKeeps, ScanKeeps, ScanDoneKeeps, CopyPageKeeps,
     CopyStringKeeps, CopyDoneKeeps, ReturnKeeps DEF A!Next, Other
<1> QED BY <1>1, <1>2

LEMMA MemoryInvariant == ASSUME A!UserMemoryConstants PROVE A!Spec => []MemoryInv
<1>1. A!Init => MemoryInv
  BY MemoryInit
<1>2. MemoryInv /\ [A!Next]_(A!vars) => MemoryInv'
  BY MemoryStepKeeps
<1> QED BY <1>1, <1>2, PTL DEF A!Spec

LEMMA PgaccessIsExact == ASSUME A!UserMemoryConstants PROVE A!Spec => []A!PgaccessExact
<1>1. MemoryInv => A!PgaccessExact
  <2>1. SUFFICES ASSUME MemoryInv, A!At("ok"), call.op = "pgaccess"
                 PROVE  call.bitmap = {i \in 0 .. call.num - 1 : A!PageOf(call.base) + i \in touched \ lost}
    BY DEF A!PgaccessExact
  <2>2. Reporting
    BY <2>1, AtCopy, CallFields DEF Other
  <2>3. call.bitmap = Bits(call.num)
    BY <2>1, <2>2, AtCopy
  <2> QED BY <2>3 DEF Bits, Recent
<1> QED BY <1>1, MemoryInvariant, PTL

LEMMA CopyIsExact == ASSUME A!UserMemoryConstants PROVE A!Spec => []A!CopyExact
<1>1. MemoryInv => A!CopyExact
  BY DEF MemoryInv
<1> QED BY <1>1, MemoryInvariant, PTL

-----------------------------------------------------------------------------
(* Umalloc: malloc() and free().                                            *)

Header == [ptr : Int, size : Nat]

\* The units that a header stands for.
Extent(h, a) == a .. a + h[a].size - 1

\* Headers as they are at any time: base is empty, no other is, and no two overlap.
Blocks(h) ==
    /\ h \in [DOMAIN h -> Header] /\ DOMAIN h \subseteq Nat /\ H!Base \in DOMAIN h
    /\ h[H!Base].size = 0 /\ \A a \in DOMAIN h \ {H!Base} : h[a].size > 0
    /\ \A a, b \in DOMAIN h : a # b => Extent(h, a) \cap Extent(h, b) = {}

Units(h) == UNION {Extent(h, a) : a \in DOMAIN h}

\* q comes after a on the ring of S.
Follows(S, a, q) ==
    /\ q \in S
    /\ \/ q > a /\ \A c \in S : c > a => q <= c
       \/ q = H!Base /\ \A c \in S : c <= a

\* The free blocks are on a ring, and no two of them side by side.
Ring(h, S) ==
    /\ S \subseteq DOMAIN h /\ H!Base \in S
    /\ \A a \in S : Follows(S, a, h[a].ptr)
    /\ \A a, b \in S : a = b \/ a + h[a].size # b

OpType == [pc : {"user", "scan", "free"}, n : Nat, p : Int, prevp : Int, bp : Int]

Unused == freep = H!Null => hdr = [a \in {H!Base} |-> [ptr |-> H!Null, size |-> 0]] /\ taken = {} /\ hop = H!User
OpInv ==
    /\ hop \in OpType
    /\ H!At("user") => hop = H!User
    /\ H!At("scan") =>
          hop.n > 0 /\ hop.bp = H!Null /\ hop.prevp \in H!OnList /\ hop.p = hdr[hop.prevp].ptr
    /\ H!At("free") => hop.p \in H!OnList /\ hop.bp \in DOMAIN hdr \ (taken \cup {H!Base})

Heap ==
    /\ Blocks(hdr) /\ core = Units(hdr) /\ brk \in Nat \ {0} /\ core \subseteq 1 .. brk - 1
    /\ taken \subseteq DOMAIN hdr \ {H!Base}
HeapInv == Heap /\ Unused /\ OpInv /\ (freep # H!Null => freep \in H!OnList /\ Ring(hdr, H!OnList))

-----------------------------------------------------------------------------
(* The ring.                                                               *)

\* There is one block after each.
LEMMA OneFollows ==
    ASSUME NEW S \in SUBSET Nat, NEW a \in S, NEW q, NEW r, Follows(S, a, q), Follows(S, a, r)
    PROVE  q = r
<1>1. q \in Nat /\ r \in Nat /\ a \in Nat /\ H!Base = 0
  BY DEF Follows, H!Base
<1>2. CASE q > a
  <2>1. r > a /\ q <= r /\ r <= q
    BY <1>1, <1>2 DEF Follows
  <2> QED BY <1>1, <2>1
<1>3. CASE ~ (q > a)
  BY <1>1, <1>3 DEF Follows
<1> QED BY <1>2, <1>3

LEMMA AfterFollows ==
    ASSUME H!OnList \subseteq Nat, H!Base \in H!OnList, NEW a \in H!OnList
    PROVE  Follows(H!OnList, a, H!After(a))
<1>1. PICK up : up = {b \in H!OnList : b > a}
  OBVIOUS
<1>2. H!After(a) = IF up = {} THEN H!Base ELSE CHOOSE b \in up : \A c \in up : b <= c
  BY <1>1 DEF H!After
<1>3. CASE up = {}
  <2>1. \A c \in H!OnList : c <= a
    BY <1>1, <1>3
  <2> QED BY <1>2, <1>3, <2>1 DEF Follows
<1>4. CASE up # {}
  <2>1. up \in SUBSET Nat
    BY <1>1
  <2>2. \E b \in up : \A c \in up : b <= c
    BY <1>4, <2>1, Least
  <2>3. H!After(a) \in up /\ \A c \in up : H!After(a) <= c
    BY <1>2, <1>4, <2>2
  <2> QED BY <1>1, <2>3 DEF Follows
<1> QED BY <1>3, <1>4

LEMMA NextIs ==
    ASSUME Heap, Ring(hdr, H!OnList), NEW a \in H!OnList
    PROVE  hdr[a].ptr = H!After(a)
<1>1. H!OnList \subseteq Nat /\ H!Base \in H!OnList /\ Follows(H!OnList, a, hdr[a].ptr)
  BY DEF Heap, Blocks, Ring
<1>2. Follows(H!OnList, a, H!After(a))
  BY <1>1, AfterFollows
<1> QED BY <1>1, <1>2, OneFollows

-----------------------------------------------------------------------------
(* Headers.                                                                *)

LEMMA HeaderIs ==
    ASSUME NEW h, Blocks(h), NEW a \in DOMAIN h
    PROVE  /\ a \in Nat /\ h[a].size \in Nat /\ h[a].ptr \in Int /\ h[a] \in Header
           /\ a # H!Base => a > 0 /\ h[a].size > 0 /\ a \in Extent(h, a)
<1>1. a \in Nat /\ h[a] \in Header
  BY DEF Blocks
<1>2. h[a].size \in Nat /\ h[a].ptr \in Int
  BY <1>1 DEF Header
<1>3. ASSUME a # H!Base PROVE a > 0 /\ h[a].size > 0
  BY <1>1, <1>3 DEF Blocks, H!Base
<1> QED BY <1>1, <1>2, <1>3 DEF Extent

\* No block begins within another.
LEMMA Outside ==
    ASSUME NEW h, Blocks(h), NEW a \in DOMAIN h, NEW b \in DOMAIN h, a < b
    PROVE  a + h[a].size <= b
<1>1. /\ a \in Nat /\ h[a].size \in Nat /\ b \in Nat
      /\ b # H!Base => b > 0 /\ h[b].size > 0 /\ b \in Extent(h, b)
  BY HeaderIs
<1>2. b # H!Base
  BY <1>1 DEF H!Base
<1>3. b \notin Extent(h, a)
  BY <1>1, <1>2 DEF Blocks
<1> QED BY <1>1, <1>3 DEF Extent

Headers(h) == h \in [DOMAIN h -> Header]
IsSet(g, h, a, s, t) ==
    /\ DOMAIN g = DOMAIN h \cup {a} /\ g \in [DOMAIN g -> Header]
    /\ g[a].size = s /\ g[a].ptr = t
    /\ \A x \in DOMAIN h \ {a} : g[x] = h[x]

LEMMA SetIs ==
    ASSUME NEW h, Headers(h), NEW a, NEW s \in Nat, NEW t \in Int
    PROVE  IsSet(H!Set(h, a, s, t), h, a, s, t)
<1> DEFINE g == H!Set(h, a, s, t)
<1>1. DOMAIN g = DOMAIN h \cup {a} /\ g[a] = [ptr |-> t, size |-> s]
  BY DEF H!Set
<1>2. \A x \in DOMAIN h \ {a} : g[x] = h[x]
  BY DEF H!Set
<1>3. \A x \in DOMAIN g : g[x] \in Header
  BY <1>1, <1>2 DEF Header, Headers
<1>4. g = [x \in DOMAIN g |-> g[x]]
  BY DEF H!Set
<1> HIDE DEF g
<1>5. IsSet(g, h, a, s, t)
  BY <1>1, <1>2, <1>3, <1>4 DEF IsSet
<1> QED BY <1>5 DEF g

\* A header that is new, or that changes its pointer.
LEMMA Resized ==
    ASSUME NEW h, NEW g, Blocks(h), DOMAIN g = DOMAIN h, g \in [DOMAIN g -> Header],
           \A a \in DOMAIN h : g[a].size = h[a].size
    PROVE  Blocks(g) /\ Units(g) = Units(h)
<1>1. \A a \in DOMAIN h : Extent(g, a) = Extent(h, a)
  BY DEF Extent
<1>2. {Extent(g, a) : a \in DOMAIN g} = {Extent(h, a) : a \in DOMAIN h}
  BY <1>1
<1> QED BY <1>1, <1>2 DEF Blocks, Units

-----------------------------------------------------------------------------
(* Steps that leave the headers alone.                                     *)

LEMMA Wider == ASSUME NEW m \in Nat, NEW k \in Nat, m <= k PROVE 1 .. m - 1 \subseteq 1 .. k - 1
OBVIOUS

LEMMA AtOp ==
    ASSUME HeapInv, ~ H!At("user")
    PROVE  /\ freep # H!Null /\ freep \in H!OnList /\ Ring(hdr, H!OnList) /\ Heap
BY DEF HeapInv, Unused, H!User, H!At

LEMMA OnListIs ==
    ASSUME HeapInv
    PROVE  /\ H!OnList \subseteq DOMAIN hdr /\ DOMAIN hdr \subseteq Nat /\ H!OnList \cap taken = {}
           /\ \A a \in H!OnList : hdr[a].ptr \in Int /\ hdr[a].size \in Nat /\ a \in Nat
           /\ freep # H!Null =>
                /\ H!Base \in H!OnList /\ freep \in H!OnList
                /\ \A a \in H!OnList : hdr[a].ptr \in H!OnList
<1>1. H!OnList \subseteq DOMAIN hdr /\ DOMAIN hdr \subseteq Nat /\ H!OnList \cap taken = {} /\ Blocks(hdr)
  BY DEF H!OnList, HeapInv, Heap, Blocks
<1>2. \A a \in H!OnList : hdr[a].ptr \in Int /\ hdr[a].size \in Nat /\ a \in Nat
  BY <1>1, HeaderIs
<1>3. freep # H!Null =>
     /\ H!Base \in H!OnList /\ freep \in H!OnList
     /\ \A a \in H!OnList : hdr[a].ptr \in H!OnList
  BY DEF HeapInv, Ring, Follows
<1> QED BY <1>1, <1>2, <1>3

LEMMA HeapSame ==
    ASSUME HeapInv, UNCHANGED <<hdr, freep, core>>, brk' \in Nat, brk' >= brk, freep # H!Null,
           taken' \subseteq taken, H!OnList' = H!OnList, OpInv'
    PROVE  HeapInv'
<1>1. Heap'
  <2>1. core \subseteq 1 .. brk' - 1
    <3>1. core \subseteq 1 .. brk - 1 /\ brk \in Nat
      BY DEF HeapInv, Heap
    <3>2. PICK m \in Nat, k \in Nat : m = brk /\ k = brk' /\ m <= k
      BY <3>1
    <3>3. 1 .. m - 1 \subseteq 1 .. k - 1
      BY <3>2, Wider
    <3> QED BY <3>1, <3>2, <3>3
  <2>2. brk' \in Nat \ {0}
    BY DEF HeapInv, Heap
  <2> QED BY <2>1, <2>2 DEF HeapInv, Heap, Blocks, Units, Extent
<1>2. (freep \in H!OnList /\ Ring(hdr, H!OnList))'
  BY DEF HeapInv, Ring, Follows
<1> QED BY <1>1, <1>2 DEF HeapInv, Unused

LEMMA SbrkKeeps == ASSUME H!UmallocConstants, HeapInv, H!Sbrk PROVE HeapInv'
<1>1. UNCHANGED <<hdr, freep, core, taken, hop>> /\ brk' = brk + 1 /\ brk \in Nat
  BY DEF H!Sbrk, HeapInv, Heap
<1>2. H!OnList' = H!OnList /\ OpInv'
  BY <1>1 DEF H!OnList, OpInv, HeapInv, H!At
<1>3. CASE freep # H!Null
  BY <1>1, <1>2, <1>3, HeapSame
<1>4. CASE freep = H!Null
  <2>1. core \subseteq 1 .. brk' - 1
    <3>1. core \subseteq 1 .. brk - 1
      BY DEF HeapInv, Heap
    <3>2. ASSUME NEW x \in 1 .. brk - 1 PROVE x \in 1 .. brk' - 1
      BY <1>1
    <3> QED BY <3>1, <3>2
  <2>2. Heap'
    BY <1>1, <2>1 DEF HeapInv, Heap, Blocks, Units, Extent
  <2> QED BY <1>1, <1>2, <1>4, <2>2 DEF HeapInv, Unused
<1> QED BY <1>3, <1>4

LEMMA FreeKeeps == ASSUME HeapInv, H!Free PROVE HeapInv'
<1>1. PICK b \in taken : /\ taken' = taken \ {b}
                         /\ hop' = [H!User EXCEPT !.pc = "free", !.bp = b, !.p = freep]
  BY DEF H!Free
<1>2. H!At("user") /\ hop = H!User /\ freep # H!Null /\ UNCHANGED <<hdr, freep, brk, core>>
  BY DEF H!Free, HeapInv, Unused, OpInv
<1>3. b \in DOMAIN hdr \ {H!Base} /\ b \in Nat /\ H!Null \notin DOMAIN hdr
  BY DEF HeapInv, Heap, Blocks, H!Null
<1>4. hop' = [pc |-> "free", n |-> 0, p |-> freep, prevp |-> H!Null, bp |-> b]
  BY <1>1 DEF H!User
<1>5. H!OnList' = H!OnList
  BY <1>1, <1>2, <1>3, <1>4 DEF H!OnList, H!User
<1>6. OpInv'
  <2>1. freep \in H!OnList /\ freep \in Nat
    BY <1>2, OnListIs
  <2>2. hop' \in OpType
    BY <1>3, <1>4, <2>1 DEF OpType, H!Null
  <2>3. ~ H!At("user")' /\ ~ H!At("scan")'
    BY <1>4 DEF H!At
  <2> QED BY <1>1, <1>2, <1>3, <1>4, <1>5, <2>1, <2>2, <2>3 DEF OpInv
<1> QED BY <1>1, <1>2, <1>5, <1>6, HeapSame DEF HeapInv, Heap

LEMMA ScanFields ==
    ASSUME HeapInv, H!At("scan")
    PROVE  /\ hop \in OpType /\ hop.n \in Nat /\ hop.n > 0 /\ hop.bp = H!Null /\ freep # H!Null
           /\ hop.prevp \in H!OnList /\ hop.p \in H!OnList /\ hop.p = hdr[hop.prevp].ptr
           /\ H!OnList = DOMAIN hdr \ taken
<1>1. freep # H!Null
  BY AtOp DEF H!At
<1>2. /\ hop \in OpType /\ hop.n > 0 /\ hop.bp = H!Null /\ hop.prevp \in H!OnList /\ hop.p = hdr[hop.prevp].ptr
  BY DEF HeapInv, OpInv
<1>3. H!Null \notin DOMAIN hdr
  BY DEF HeapInv, Heap, Blocks, H!Null
<1> QED BY <1>1, <1>2, <1>3, OnListIs DEF OpType, H!OnList

LEMMA FreeFields ==
    ASSUME HeapInv, H!At("free")
    PROVE  /\ hop \in OpType /\ hop.n \in Nat /\ freep # H!Null
           /\ hop.p \in H!OnList /\ hop.bp \in DOMAIN hdr /\ hop.bp \notin taken /\ hop.bp # H!Base
           /\ hop.bp \notin H!OnList /\ H!OnList = DOMAIN hdr \ (taken \cup {hop.bp})
<1>1. freep # H!Null
  BY AtOp DEF H!At
<1> QED BY <1>1 DEF HeapInv, OpInv, OpType, H!OnList

LEMMA NextBlockKeeps == ASSUME HeapInv, H!NextBlock PROVE HeapInv'
<1>1. H!At("scan") /\ UNCHANGED <<hdr, freep, brk, taken, core>>
  BY DEF H!NextBlock
<1>2. PICK p \in H!OnList : p = hop.p
  BY <1>1, ScanFields
<1>3. PICK q \in H!OnList : q = hdr[p].ptr
  BY <1>1, <1>2, ScanFields, OnListIs
<1>4. hop' = [hop EXCEPT !.prevp = p, !.p = q]
  BY <1>2, <1>3 DEF H!NextBlock
<1>5. p \in Int /\ q \in Int
  BY <1>2, <1>3, OnListIs
<1>6. hop' \in OpType /\ hop'.pc = "scan" /\ hop'.n = hop.n /\ hop'.bp = H!Null /\ hop'.prevp = p /\ hop'.p = q
  BY <1>1, <1>4, <1>5, ScanFields DEF OpType, H!At
<1>7. H!OnList' = H!OnList
  BY <1>1, <1>6, ScanFields DEF H!OnList
<1>8. OpInv'
  BY <1>1, <1>2, <1>3, <1>6, <1>7, ScanFields DEF OpInv, H!At
<1> QED BY <1>1, <1>7, <1>8, ScanFields, HeapSame DEF HeapInv, Heap

LEMMA FindPlaceKeeps == ASSUME HeapInv, H!FindPlace PROVE HeapInv'
<1>1. H!At("free") /\ UNCHANGED <<hdr, freep, brk, taken, core>>
  BY DEF H!FindPlace
<1>2. PICK q \in H!OnList : q = hdr[hop.p].ptr /\ q \in Int
  BY <1>1, FreeFields, OnListIs
<1>3. hop' = [hop EXCEPT !.p = q]
  BY <1>2 DEF H!FindPlace
<1>4. hop' \in OpType /\ hop'.pc = "free" /\ hop'.bp = hop.bp /\ hop'.p = q
  BY <1>1, <1>2, <1>3, FreeFields DEF OpType, H!At
<1>5. H!OnList' = H!OnList
  BY <1>1, <1>4 DEF H!OnList
<1>6. OpInv'
  BY <1>1, <1>2, <1>4, <1>5, FreeFields DEF OpInv, H!At
<1> QED BY <1>1, <1>5, <1>6, FreeFields, HeapSame DEF HeapInv, Heap

LEMMA MallocKeeps == ASSUME H!UmallocConstants, HeapInv, H!Malloc PROVE HeapInv'
<1>1. H!At("user") /\ hop = H!User /\ UNCHANGED <<brk, taken, core>>
  BY DEF H!Malloc, HeapInv, OpInv
<1>2. PICK n \in Nat :
          /\ n > 0
          /\ IF freep = H!Null
             THEN /\ hdr' = H!Set(hdr, H!Base, 0, H!Base) /\ freep' = H!Base
                  /\ hop' = [H!User EXCEPT !.pc = "scan", !.n = n, !.prevp = H!Base, !.p = H!Base]
             ELSE /\ hop' = [H!User EXCEPT !.pc = "scan", !.n = n, !.prevp = freep, !.p = hdr[freep].ptr]
                  /\ UNCHANGED <<hdr, freep>>
  <2>1. \A n \in 1 .. MaxUnits : n \in Nat /\ n > 0
    BY DEF H!UmallocConstants
  <2> QED BY <2>1 DEF H!Malloc
<1>3. CASE freep # H!Null
  <2>1. PICK q \in H!OnList : q = hdr[freep].ptr /\ q \in Int
    BY <1>3, OnListIs
  <2>2. hop' = [pc |-> "scan", n |-> n, p |-> q, prevp |-> freep, bp |-> H!Null]
    BY <1>2, <1>3, <2>1 DEF H!User
  <2>3. UNCHANGED <<hdr, freep>> /\ freep \in H!OnList /\ freep \in Int
    BY <1>2, <1>3, OnListIs
  <2>4. H!OnList' = H!OnList
    BY <1>1, <2>2, <2>3 DEF H!OnList, H!User
  <2>5. OpInv'
    <3>1. hop' \in OpType
      BY <2>1, <2>2, <2>3 DEF OpType, H!Null
    <3>2. ~ H!At("user")' /\ ~ H!At("free")'
      BY <2>2 DEF H!At
    <3> QED BY <1>2, <2>1, <2>2, <2>3, <2>4, <3>1, <3>2 DEF OpInv
  <2> QED BY <1>1, <1>3, <2>3, <2>4, <2>5, HeapSame DEF HeapInv, Heap
<1>4. CASE freep = H!Null
  <2>1. hdr = [a \in {H!Base} |-> [ptr |-> H!Null, size |-> 0]] /\ taken = {}
    BY <1>4 DEF HeapInv, Unused
  <2>2. DOMAIN hdr = {H!Base} /\ hdr[H!Base].size = 0
    BY <2>1
  <2>3. hop' = [pc |-> "scan", n |-> n, p |-> H!Base, prevp |-> H!Base, bp |-> H!Null]
    BY <1>2, <1>4 DEF H!User
  <2>4. hdr' = H!Set(hdr, H!Base, 0, H!Base) /\ freep' = H!Base /\ H!Base # H!Null
    BY <1>2, <1>4 DEF H!Base, H!Null
  <2>5. DOMAIN hdr' = {H!Base} /\ hdr'[H!Base].size = 0 /\ hdr'[H!Base].ptr = H!Base
    <3>1. hdr \in [DOMAIN hdr -> Header]
      BY DEF HeapInv, Heap, Blocks
    <3>2. 0 \in Nat /\ H!Base \in Int
      BY DEF H!Base
    <3>3. IsSet(hdr', hdr, H!Base, 0, H!Base)
      BY <2>4, <3>1, <3>2, SetIs DEF Headers
    <3> QED BY <2>2, <3>3 DEF IsSet
  <2>6. H!OnList' = {H!Base}
    BY <1>1, <2>1, <2>3, <2>4, <2>5 DEF H!OnList
  <2>7. hdr' \in [DOMAIN hdr' -> Header]
    <3>1. hdr \in [DOMAIN hdr -> Header]
      BY DEF HeapInv, Heap, Blocks
    <3>2. 0 \in Nat /\ H!Base \in Int
      BY DEF H!Base
    <3>3. IsSet(hdr', hdr, H!Base, 0, H!Base)
      BY <2>4, <3>1, <3>2, SetIs DEF Headers
    <3> QED BY <3>3 DEF IsSet
  <2>8. Blocks(hdr') /\ Units(hdr') = Units(hdr)
    BY <2>2, <2>5, <2>7, Resized DEF HeapInv, Heap
  <2>9. Heap'
    BY <1>1, <2>1, <2>2, <2>5, <2>8 DEF HeapInv, Heap, Blocks, Units, Extent
  <2>10. (freep \in H!OnList /\ Ring(hdr, H!OnList))'
    BY <2>4, <2>5, <2>6 DEF Ring, Follows, H!Base
  <2>11. OpInv'
    <3>1. hop' \in OpType
      BY <1>2, <2>3 DEF OpType, H!Null, H!Base
    <3>2. ~ H!At("user")' /\ ~ H!At("free")'
      BY <2>3 DEF H!At
    <3> QED BY <1>2, <2>3, <2>5, <2>6, <3>1, <3>2 DEF OpInv
  <2> QED BY <2>4, <2>9, <2>10, <2>11 DEF HeapInv, Unused
<1> QED BY <1>3, <1>4

-----------------------------------------------------------------------------
(* Blocks that are cut, that are new, and that are put together.           *)

\* The ring without the block after v.
LEMMA Unlinked ==
    ASSUME NEW h, NEW g, NEW S, Blocks(h), Ring(h, S), NEW v \in S, NEW p, p = h[v].ptr, p # H!Base,
           DOMAIN g = DOMAIN h, \A a \in DOMAIN h : g[a].size = h[a].size,
           g[v].ptr = h[p].ptr, \A a \in S \ {v, p} : g[a].ptr = h[a].ptr
    PROVE  p \in S /\ v # p /\ Ring(g, S \ {p})
<1>1. S \in SUBSET Nat /\ H!Base = 0
  BY DEF Blocks, Ring, H!Base
<1>2. p \in S /\ p \in Nat /\ v \in Nat /\ p > v /\ \A c \in S : c > v => p <= c
  BY <1>1 DEF Ring, Follows
<1>3. PICK r : r = h[p].ptr /\ Follows(S, p, r)
  BY <1>2 DEF Ring
<1>4. Follows(S \ {p}, v, g[v].ptr)
  <2>1. r \in S /\ r \in Nat /\ r # p
    BY <1>1, <1>2, <1>3 DEF Follows
  <2>2. CASE r > p /\ \A c \in S : c > p => r <= c
    <3>1. ASSUME NEW c \in S \ {p}, c > v PROVE r <= c
      <4>1. c \in Nat /\ p <= c
        BY <1>1, <1>2, <3>1
      <4> QED BY <1>2, <2>2, <3>1, <4>1
    <3> QED BY <1>2, <1>3, <2>1, <2>2, <3>1 DEF Follows
  <2>3. CASE r = H!Base /\ \A c \in S : c <= p
    <3>1. ASSUME NEW c \in S \ {p} PROVE c <= v
      <4>1. c \in Nat /\ c <= p /\ (c > v => p <= c)
        BY <1>1, <1>2, <2>3
      <4> QED BY <1>2, <3>1, <4>1
    <3> QED BY <1>3, <2>1, <2>3, <3>1 DEF Follows
  <2> QED BY <1>3, <2>2, <2>3 DEF Follows
<1>5. ASSUME NEW a \in S \ {v, p} PROVE Follows(S \ {p}, a, g[a].ptr)
  <2>1. PICK x : x = h[a].ptr /\ Follows(S, a, x)
    BY DEF Ring
  <2>2. x # p
    <3>1. SUFFICES ASSUME x = p PROVE FALSE
      OBVIOUS
    <3>2. p > a /\ (v > a => p <= v) /\ (a > v => p <= a) /\ a \in Nat /\ a # v
      BY <1>1, <1>2, <2>1, <3>1 DEF Follows
    <3> QED BY <1>2, <3>2
  <2> QED BY <1>5, <2>1, <2>2 DEF Follows
<1>6. v # p
  BY <1>2
<1>7. \A a \in S \ {p} : Follows(S \ {p}, a, g[a].ptr)
  BY <1>4, <1>5
<1>8. \A a, b \in S \ {p} : a = b \/ a + g[a].size # b
  BY DEF Ring
<1>9. S \ {p} \subseteq DOMAIN g /\ H!Base \in S \ {p}
  BY DEF Ring
<1> QED BY <1>2, <1>6, <1>7, <1>8, <1>9 DEF Ring

\* malloc() takes the end of a block.
LEMMA CutIs ==
    ASSUME NEW h, NEW g, Blocks(h), NEW p \in DOMAIN h, NEW n \in Nat, n > 0, n < h[p].size,
           NEW x, x = p + h[p].size - n, DOMAIN g = DOMAIN h \cup {x}, g \in [DOMAIN g -> Header],
           g[p].size = h[p].size - n, g[x].size = n,
           \A a \in DOMAIN h \ {p} : g[a].size = h[a].size
    PROVE  x \notin DOMAIN h /\ x # H!Base /\ Blocks(g) /\ Units(g) = Units(h)
<1>1. PICK s \in Nat : s = h[p].size
  BY HeaderIs
<1>2. p \in Nat /\ x \in Nat /\ x > p /\ x < p + s /\ x = p + s - n
  BY <1>1, HeaderIs
<1>3. x \in Extent(h, p)
  BY <1>1, <1>2 DEF Extent
<1>4. x \notin DOMAIN h /\ x # H!Base
  <2>1. ASSUME x \in DOMAIN h PROVE FALSE
    <3>1. x + h[x].size \in Nat /\ p + h[p].size <= x
      BY <1>2, <2>1, Outside, HeaderIs
    <3> QED BY <1>1, <1>2, <3>1
  <2> QED BY <1>2, <2>1 DEF H!Base
<1>5. /\ Extent(g, p) = p .. x - 1 /\ Extent(g, x) = x .. p + s - 1 /\ Extent(h, p) = p .. p + s - 1
      /\ \A a \in DOMAIN h \ {p} : Extent(g, a) = Extent(h, a)
  <2>1. g[p].size = s - n /\ p + (s - n) - 1 = x - 1 /\ x + n - 1 = p + s - 1
    BY <1>1, <1>2
  <2> QED BY <1>1, <2>1 DEF Extent
<1>6. /\ Extent(h, p) = Extent(g, p) \cup Extent(g, x) /\ Extent(g, p) \cap Extent(g, x) = {}
  <2>1. p .. p + s - 1 = (p .. x - 1) \cup (x .. p + s - 1) /\ (p .. x - 1) \cap (x .. p + s - 1) = {}
    BY <1>2
  <2> QED BY <1>5, <2>1
<1>7. \A a, b \in DOMAIN g : a # b => Extent(g, a) \cap Extent(g, b) = {}
  <2>1. ASSUME NEW a \in DOMAIN h \ {p} PROVE Extent(g, a) \cap (Extent(g, p) \cup Extent(g, x)) = {}
    BY <1>5, <1>6 DEF Blocks
  <2>2. ASSUME NEW a \in DOMAIN h \ {p}, NEW b \in DOMAIN h \ {p}, a # b
        PROVE  Extent(g, a) \cap Extent(g, b) = {}
    BY <1>5, <2>2 DEF Blocks
  <2>3. \A a \in DOMAIN g : a = p \/ a = x \/ a \in DOMAIN h \ {p}
    OBVIOUS
  <2> QED BY <1>6, <2>1, <2>2, <2>3
<1>8. Units(g) = Units(h)
  <2>1. ASSUME NEW u PROVE (\E a \in DOMAIN g : u \in Extent(g, a)) <=> \E a \in DOMAIN h : u \in Extent(h, a)
    BY <1>4, <1>5, <1>6
  <2> QED BY <2>1 DEF Units
<1>9. /\ DOMAIN g \subseteq Nat /\ H!Base \in DOMAIN g /\ g[H!Base].size = 0
      /\ \A a \in DOMAIN g \ {H!Base} : g[a].size > 0
  <2>1. p # H!Base
    BY <1>1 DEF Blocks
  <2>2. g[p].size > 0
    BY <1>1
  <2> QED BY <1>2, <1>4, <2>1, <2>2 DEF Blocks
<1> QED BY <1>4, <1>7, <1>8, <1>9 DEF Blocks

\* morecore()
LEMMA NewIs ==
    ASSUME NEW h, NEW g, Blocks(h), NEW x \in Nat \ {0}, Units(h) \subseteq 1 .. x - 1,
           NEW n \in Nat \ {0}, DOMAIN g = DOMAIN h \cup {x}, g \in [DOMAIN g -> Header],
           g[x].size = n, \A a \in DOMAIN h : a # x => g[a].size = h[a].size
    PROVE  x \notin DOMAIN h /\ Blocks(g) /\ Units(g) = Units(h) \cup (x .. x + n - 1)
<1>1. \A a \in DOMAIN h : Extent(h, a) \subseteq Units(h)
  BY DEF Units
<1>2. x \notin DOMAIN h
  <2>1. SUFFICES ASSUME x \in DOMAIN h PROVE FALSE
    OBVIOUS
  <2>2. x \in Extent(h, x)
    BY <2>1, HeaderIs DEF H!Base
  <2>3. x \in 1 .. x - 1
    BY <1>1, <2>1, <2>2
  <2> QED BY <2>3
<1>3. Extent(g, x) = x .. x + n - 1 /\ \A a \in DOMAIN h : Extent(g, a) = Extent(h, a)
  BY <1>2 DEF Extent
<1>4. \A a \in DOMAIN h : Extent(g, a) \cap Extent(g, x) = {}
  <2>1. ASSUME NEW a \in DOMAIN h, NEW u \in Extent(g, a), u \in Extent(g, x) PROVE FALSE
    <3>1. u \in 1 .. x - 1 /\ u \in x .. x + n - 1
      BY <1>1, <1>3, <2>1
    <3> QED BY <3>1
  <2> QED BY <2>1
<1>5. \A a, b \in DOMAIN g : a # b => Extent(g, a) \cap Extent(g, b) = {}
  <2>1. \A a, b \in DOMAIN h : a # b => Extent(g, a) \cap Extent(g, b) = {}
    BY <1>3 DEF Blocks
  <2>2. \A a \in DOMAIN g : a = x \/ a \in DOMAIN h
    OBVIOUS
  <2> QED BY <1>4, <2>1, <2>2
<1>6. Units(g) = Units(h) \cup (x .. x + n - 1)
  BY <1>3 DEF Units
<1>7. /\ DOMAIN g \subseteq Nat /\ H!Base \in DOMAIN g /\ g[H!Base].size = 0
      /\ \A a \in DOMAIN g \ {H!Base} : g[a].size > 0
  BY <1>2 DEF Blocks
<1> QED BY <1>2, <1>5, <1>6, <1>7 DEF Blocks

\* free() puts the block q to the one before it.
LEMMA MergedIs ==
    ASSUME NEW h, NEW g, Blocks(h), NEW a \in DOMAIN h, NEW q \in DOMAIN h, q # H!Base,
           a + h[a].size = q, DOMAIN g = DOMAIN h \ {q}, g \in [DOMAIN g -> Header],
           g[a].size = h[a].size + h[q].size, \A x \in DOMAIN g \ {a} : g[x].size = h[x].size
    PROVE  a # H!Base /\ a # q /\ a < q /\ Blocks(g) /\ Units(g) = Units(h)
<1>1. PICK s \in Nat, t \in Nat : s = h[a].size /\ t = h[q].size /\ t > 0 /\ a \in Nat /\ q \in Nat
  BY HeaderIs
<1>2. a # H!Base /\ a < q /\ a # q
  <2>1. a # H!Base
    BY <1>1 DEF Blocks, H!Base
  <2>2. s > 0
    BY <1>1, <2>1 DEF Blocks
  <2> QED BY <1>1, <2>1, <2>2
<1>3. Extent(g, a) = Extent(h, a) \cup Extent(h, q)
  <2>1. Extent(g, a) = a .. a + (s + t) - 1 /\ Extent(h, a) = a .. q - 1 /\ Extent(h, q) = q .. q + t - 1
    BY <1>1 DEF Extent
  <2>2. a .. a + (s + t) - 1 = (a .. q - 1) \cup (q .. q + t - 1)
    BY <1>1, <1>2
  <2> QED BY <2>1, <2>2
<1>4. \A x \in DOMAIN g \ {a} : Extent(g, x) = Extent(h, x) /\ x \in DOMAIN h /\ x # q
  BY DEF Extent
<1>5. \A x, y \in DOMAIN g : x # y => Extent(g, x) \cap Extent(g, y) = {}
  <2>1. ASSUME NEW x \in DOMAIN g \ {a} PROVE Extent(g, x) \cap Extent(g, a) = {}
    <3>1. Extent(h, x) \cap Extent(h, a) = {} /\ Extent(h, x) \cap Extent(h, q) = {}
      BY <1>4, <2>1 DEF Blocks
    <3> QED BY <1>3, <1>4, <2>1, <3>1
  <2>2. ASSUME NEW x \in DOMAIN g \ {a}, NEW y \in DOMAIN g \ {a}, x # y
        PROVE  Extent(g, x) \cap Extent(g, y) = {}
    BY <1>4, <2>2 DEF Blocks
  <2> QED BY <2>1, <2>2
<1>6. Units(g) = Units(h)
  <2>1. ASSUME NEW u PROVE (\E x \in DOMAIN g : u \in Extent(g, x)) <=> \E x \in DOMAIN h : u \in Extent(h, x)
    BY <1>2, <1>3, <1>4
  <2> QED BY <2>1 DEF Units
<1>7. /\ DOMAIN g \subseteq Nat /\ H!Base \in DOMAIN g /\ g[H!Base].size = 0
      /\ \A x \in DOMAIN g \ {H!Base} : g[x].size > 0
  <2>1. g[a].size > 0
    BY <1>1
  <2> QED BY <1>2, <2>1 DEF Blocks
<1> QED BY <1>2, <1>5, <1>6, <1>7 DEF Blocks

-----------------------------------------------------------------------------
(* malloc() and morecore().                                                *)

\* The free blocks, and with them the ring, stay as they are.
LEMMA RingSame ==
    ASSUME NEW h, NEW g, NEW S, Ring(h, S), S \subseteq DOMAIN g, \A a \in S : g[a] = h[a]
    PROVE  Ring(g, S)
BY DEF Ring, Follows

LEMMA TakeKeeps == ASSUME H!UmallocConstants, HeapInv, H!Take PROVE HeapInv'
<1>1. /\ H!At("scan") /\ hdr[hop.p].size >= hop.n /\ freep' = hop.prevp /\ hop' = H!User
      /\ UNCHANGED <<brk, core>>
  BY DEF H!Take
<1>2. PICK p \in H!OnList, v \in H!OnList, n \in Nat :
          p = hop.p /\ v = hop.prevp /\ n = hop.n /\ n > 0 /\ p = hdr[v].ptr
  BY <1>1, ScanFields
<1>3. Heap /\ Ring(hdr, H!OnList) /\ H!OnList = DOMAIN hdr \ taken /\ Blocks(hdr)
  BY <1>1, ScanFields, AtOp DEF H!At, Heap
<1>4. /\ p \in DOMAIN hdr /\ v \in DOMAIN hdr /\ p \in Nat /\ v \in Nat /\ hdr[p].ptr \in Int
  BY OnListIs
<1>5. PICK s \in Nat : s = hdr[p].size
  BY <1>3, <1>4, HeaderIs
<1>6. p # H!Base
  BY <1>1, <1>2, <1>3, <1>5 DEF Blocks
<1>7. OpInv'
  BY <1>1 DEF OpInv, H!User, H!At, OpType, H!Null
<1>8. hop'.bp = H!Null /\ freep' = v /\ v # H!Null
  BY <1>1, <1>2, <1>4 DEF H!User, H!Null
<1>9. CASE s = n
  <2>1. hdr' = [hdr EXCEPT ![v].ptr = hdr[p].ptr, ![p].ptr = H!Null] /\ taken' = taken \cup {p}
    BY <1>2, <1>5, <1>9 DEF H!Take
  <2>2. v # p
    <3>1. Follows(H!OnList, v, p) /\ H!Base \in H!OnList
      BY <1>2, <1>3 DEF Ring
    <3> QED BY <1>3, <1>4, <1>6, <3>1 DEF Follows, Blocks
  <2>3. hdr \in [DOMAIN hdr -> Header]
    BY <1>3 DEF Blocks
  <2>4. PICK g : g = [hdr EXCEPT ![v].ptr = hdr[p].ptr]
    OBVIOUS
  <2>5. /\ g \in [DOMAIN hdr -> Header] /\ DOMAIN g = DOMAIN hdr /\ g[v].ptr = hdr[p].ptr
        /\ g[v].size = hdr[v].size /\ \A a \in DOMAIN hdr \ {v} : g[a] = hdr[a]
    BY <1>4, <2>3, <2>4 DEF Header
  <2>6. hdr' = [g EXCEPT ![p].ptr = H!Null]
    BY <2>1, <2>4
  <2>7. /\ hdr' \in [DOMAIN hdr -> Header] /\ DOMAIN hdr' = DOMAIN hdr
        /\ hdr'[p].size = hdr[p].size /\ \A a \in DOMAIN hdr \ {p} : hdr'[a] = g[a]
    BY <1>4, <2>2, <2>5, <2>6 DEF Header, H!Null
  <2>8. \A a \in DOMAIN hdr : hdr'[a].size = hdr[a].size
    BY <2>5, <2>7
  <2>9. hdr'[v].ptr = hdr[p].ptr /\ \A a \in H!OnList \ {v, p} : hdr'[a].ptr = hdr[a].ptr
    BY <1>3, <1>4, <2>2, <2>5, <2>7
  <2>10. Blocks(hdr') /\ Units(hdr') = Units(hdr)
    BY <1>3, <2>7, <2>8, Resized
  <2>11. Ring(hdr', H!OnList \ {p})
    BY <1>2, <1>3, <1>6, <2>7, <2>8, <2>9, Unlinked
  <2>12. H!Null \notin DOMAIN hdr
    BY <1>3 DEF Blocks, H!Null
  <2>13. H!OnList' = H!OnList \ {p}
    BY <1>3, <1>8, <2>1, <2>7, <2>12 DEF H!OnList
  <2>14. Heap'
    BY <1>1, <1>3, <1>4, <1>6, <2>1, <2>7, <2>10 DEF Heap
  <2>15. (freep \in H!OnList /\ Ring(hdr, H!OnList))'
    BY <1>8, <2>2, <2>11, <2>13
  <2> QED BY <1>7, <1>8, <2>14, <2>15 DEF HeapInv, Unused
<1>10. CASE s > n
  <2>1. PICK x \in Nat : x = p + s - n
    BY <1>4, <1>10
  <2>2. PICK m \in Nat : m = s - n
    BY <1>10
  <2>3. PICK g : g = [hdr EXCEPT ![p].size = m]
    OBVIOUS
  <2>4. hdr' = H!Set(g, x, n, H!Null) /\ taken' = taken \cup {x}
    <3>1. /\ hdr' = H!Set([hdr EXCEPT ![hop.p].size = hdr[hop.p].size - hop.n],
                          hop.p + hdr[hop.p].size - hop.n, hop.n, H!Null)
          /\ taken' = taken \cup {hop.p + hdr[hop.p].size - hop.n}
      BY <1>2, <1>4, <1>5, <1>10 DEF H!Take
    <3> QED BY <1>2, <1>5, <2>1, <2>2, <2>3, <3>1
  <2>5. hdr \in [DOMAIN hdr -> Header]
    BY <1>3 DEF Blocks
  <2>6. /\ g \in [DOMAIN hdr -> Header] /\ DOMAIN g = DOMAIN hdr /\ g[p].ptr = hdr[p].ptr
        /\ g[p].size = m /\ \A a \in DOMAIN hdr \ {p} : g[a] = hdr[a]
    BY <1>4, <2>2, <2>3, <2>5 DEF Header
  <2>7. /\ DOMAIN hdr' = DOMAIN hdr \cup {x} /\ hdr'[x].size = n
        /\ \A a \in DOMAIN hdr \ {x} : hdr'[a] = g[a]
        /\ hdr' \in [DOMAIN hdr' -> Header]
    <3>1. g \in [DOMAIN g -> Header] /\ H!Null \in Int
      BY <2>6 DEF H!Null
    <3>2. /\ DOMAIN hdr' = DOMAIN g \cup {x} /\ hdr'[x].size = n
          /\ \A a \in DOMAIN g \ {x} : hdr'[a] = g[a]
          /\ hdr' \in [DOMAIN hdr' -> Header]
      <4>1. IsSet(hdr', g, x, n, H!Null)
        BY <2>4, <3>1, SetIs DEF Headers
      <4> QED BY <4>1 DEF IsSet
    <3> QED BY <2>6, <3>2
  <2>8. hdr' \in [DOMAIN hdr' -> Header]
    BY <2>7
  <2>9. p # x
    BY <1>4, <1>10, <2>1
  <2>10. hdr'[p].size = hdr[p].size - n /\ \A a \in DOMAIN hdr \ {p} : a # x => hdr'[a].size = hdr[a].size
    BY <1>4, <1>5, <2>2, <2>6, <2>7, <2>9
  <2>11. x \notin DOMAIN hdr
    <3>1. x > p /\ x < p + s
      BY <1>2, <1>4, <1>10, <2>1
    <3>2. ASSUME x \in DOMAIN hdr PROVE FALSE
      BY <1>3, <1>4, <1>5, <3>1, <3>2, Outside
    <3> QED BY <3>2
  <2>12. \A a \in DOMAIN hdr \ {p} : hdr'[a].size = hdr[a].size
    BY <2>10, <2>11
  <2>13. n < hdr[p].size /\ x = p + hdr[p].size - n
    BY <1>5, <1>10, <2>1
  <2>14. x # H!Base /\ Blocks(hdr') /\ Units(hdr') = Units(hdr)
    BY <1>2, <1>3, <1>4, <2>7, <2>8, <2>10, <2>12, <2>13, CutIs, SMTT(30)
  <2>15. H!Null \notin DOMAIN hdr
    BY <1>3 DEF Blocks, H!Null
  <2>16. H!OnList' = H!OnList
    BY <1>3, <1>8, <2>1, <2>4, <2>7, <2>11, <2>15 DEF H!OnList, H!Null
  <2>17. \A a \in H!OnList : hdr'[a].ptr = hdr[a].ptr /\ (a # p => hdr'[a].size = hdr[a].size)
    BY <1>3, <2>6, <2>7, <2>11
  <2>18. Ring(hdr', H!OnList)
    <3>1. \A a \in H!OnList : Follows(H!OnList, a, hdr'[a].ptr)
      BY <1>3, <2>17 DEF Ring
    <3>2. ASSUME NEW a \in H!OnList, NEW b \in H!OnList, a # b PROVE a + hdr'[a].size # b
      <4>1. CASE a # p
        BY <1>3, <2>17, <3>2, <4>1 DEF Ring
      <4>2. CASE a = p
        <5>1. a + hdr'[a].size = x
          BY <1>4, <1>5, <2>10, <2>13, <4>2
        <5> QED BY <1>3, <2>11, <5>1
      <4> QED BY <4>1, <4>2
    <3> QED BY <1>3, <2>7, <3>1, <3>2 DEF Ring
  <2>19. Heap'
    BY <1>1, <1>3, <1>4, <2>4, <2>7, <2>14 DEF Heap
  <2>20. (freep \in H!OnList /\ Ring(hdr, H!OnList))'
    BY <1>8, <2>16, <2>18
  <2> QED BY <1>7, <1>8, <2>19, <2>20 DEF HeapInv, Unused
<1> QED
  <2>1. s >= n
    BY <1>1, <1>2, <1>5
  <2> QED BY <1>2, <1>5, <1>9, <1>10, <2>1

LEMMA MorecoreKeeps == ASSUME H!UmallocConstants, HeapInv, H!Morecore PROVE HeapInv'
<1>1. H!At("scan") /\ hop.p = freep /\ UNCHANGED <<freep, taken>>
  BY DEF H!Morecore
<1>2. Heap /\ Ring(hdr, H!OnList) /\ H!OnList = DOMAIN hdr \ taken /\ freep \in H!OnList /\ freep # H!Null
  BY <1>1, ScanFields, AtOp DEF H!At
<1>3. PICK nu \in Nat : nu > 0 /\ nu = IF hop.n < MORECORE THEN MORECORE ELSE hop.n
  BY <1>1, ScanFields DEF H!UmallocConstants
<1>4. brk \in Nat \ {0} /\ Blocks(hdr) /\ core = Units(hdr) /\ core \subseteq 1 .. brk - 1
  BY <1>2 DEF Heap
<1>5. CASE brk + nu > LIMIT
  <2>1. hop' = H!User /\ UNCHANGED <<hdr, brk, core>>
    BY <1>3, <1>5 DEF H!Morecore
  <2>2. H!Null \notin DOMAIN hdr
    BY <1>4 DEF Blocks, H!Null
  <2>3. H!OnList' = H!OnList
    BY <1>1, <1>2, <2>1, <2>2 DEF H!OnList, H!User
  <2>4. OpInv'
    BY <2>1 DEF OpInv, H!User, H!At, OpType, H!Null
  <2> QED BY <1>1, <1>2, <1>4, <2>1, <2>3, <2>4, HeapSame
<1>6. CASE ~ (brk + nu > LIMIT)
  <2>1. /\ hdr' = H!Set(hdr, brk, nu, H!Null)
        /\ brk' = brk + nu /\ core' = core \cup (brk .. brk + nu - 1)
        /\ hop' = [hop EXCEPT !.pc = "free", !.bp = brk, !.p = freep]
    BY <1>3, <1>6 DEF H!Morecore
  <2>2. hdr \in [DOMAIN hdr -> Header]
    BY <1>4 DEF Blocks
  <2>3. /\ DOMAIN hdr' = DOMAIN hdr \cup {brk} /\ hdr'[brk].size = nu
        /\ \A a \in DOMAIN hdr \ {brk} : hdr'[a] = hdr[a]
    <3>1. H!Null \in Int /\ hdr' = H!Set(hdr, brk, nu, H!Null)
      BY <2>1 DEF H!Null
    <3>2. IsSet(hdr', hdr, brk, nu, H!Null)
      BY <2>2, <3>1, SetIs DEF Headers
    <3> QED BY <3>2 DEF IsSet
  <2>4. hdr' \in [DOMAIN hdr' -> Header]
    <3>1. H!Null \in Int /\ hdr' = H!Set(hdr, brk, nu, H!Null)
      BY <2>1 DEF H!Null
    <3>2. IsSet(hdr', hdr, brk, nu, H!Null)
      BY <2>2, <3>1, SetIs DEF Headers
    <3> QED BY <3>2 DEF IsSet
  <2>5. \A a \in DOMAIN hdr : a # brk => hdr'[a].size = hdr[a].size
    BY <2>3
  <2>6. Units(hdr) \subseteq 1 .. brk - 1
    BY <1>4
  <2>7. brk \notin DOMAIN hdr /\ Blocks(hdr') /\ Units(hdr') = Units(hdr) \cup (brk .. brk + nu - 1)
    BY <1>3, <1>4, <2>3, <2>4, <2>5, <2>6, NewIs
  <2>8. /\ hop' \in OpType /\ hop'.pc = "free" /\ hop'.bp = brk /\ hop'.p = freep
    <3>1. freep \in Int /\ brk \in Int
      BY <1>2, <1>4, OnListIs
    <3> QED BY <1>1, <2>1, <3>1, ScanFields DEF OpType
  <2>9. H!OnList' = H!OnList
    <3>1. taken \subseteq DOMAIN hdr
      BY <1>2 DEF Heap
    <3> QED BY <1>1, <1>2, <2>3, <2>7, <2>8 DEF H!OnList
  <2>10. Heap'
    <3>1. core' \subseteq 1 .. brk' - 1
      <4>1. PICK m \in Nat \ {0} : m = brk
        BY <1>4
      <4>2. 1 .. m - 1 \subseteq 1 .. m + nu - 1 /\ m .. m + nu - 1 \subseteq 1 .. m + nu - 1
        BY <1>3
      <4> QED BY <1>4, <2>1, <4>1, <4>2
    <3>2. brk' \in Nat \ {0}
      BY <1>3, <1>4, <2>1
    <3> QED BY <1>1, <1>2, <1>4, <2>1, <2>3, <2>7, <3>1, <3>2 DEF Heap
  <2>11. Ring(hdr', H!OnList)
    <3>1. H!OnList \subseteq DOMAIN hdr' /\ \A a \in H!OnList : hdr'[a] = hdr[a]
      BY <1>2, <2>3, <2>7
    <3> QED BY <1>2, <3>1, RingSame
  <2>12. OpInv'
    <3>1. brk # H!Base /\ brk \notin taken
      BY <1>2, <1>4, <2>7 DEF H!Base, Heap
    <3> QED BY <1>1, <1>2, <2>3, <2>8, <2>9, <3>1 DEF OpInv, H!At
  <2> QED BY <1>1, <1>2, <2>9, <2>10, <2>11, <2>12 DEF HeapInv, Unused
<1> QED BY <1>5, <1>6

-----------------------------------------------------------------------------
(* free(): the place for a block, and the two blocks next to it.           *)

\* Only b is between p and the next block.
Gap(S, p, b) == p \in S /\ p < b /\ \A c \in S : c <= p \/ c > b

\* b is where it belongs, with the block after it, and p is to be put before it.
Placed(h, S, p, b) ==
    /\ S \subseteq DOMAIN h /\ H!Base \in S /\ b \in DOMAIN h \ S /\ Gap(S, p, b)
    /\ Follows(S \cup {b}, b, h[b].ptr)
    /\ \A a \in S \ {p} : Follows(S \cup {b}, a, h[a].ptr)
    /\ \A a, c \in S : a = c \/ a + h[a].size # c
    /\ \A c \in S : b + h[b].size # c
    /\ \A c \in S \ {p} : c + h[c].size # b

LEMMA PlaceIs ==
    ASSUME NEW S \in SUBSET Nat, NEW p \in S, NEW q, Follows(S, p, q), NEW b \in Nat,
           \/ b > p /\ b < q
           \/ p >= q /\ (b > p \/ b < q)
    PROVE  Gap(S, p, b) /\ Follows(S \cup {b}, b, q)
<1>1. q \in Nat /\ p \in Nat /\ H!Base = 0 /\ q \in S
  BY DEF Follows, H!Base
<1>2. CASE q > p /\ \A c \in S : c > p => q <= c
  <2>1. b > p /\ b < q
    BY <1>1, <1>2
  <2>2. ASSUME NEW c \in S PROVE c <= p \/ c > b
    <3>1. c \in Nat /\ (c > p => q <= c)
      BY <1>2, <2>2
    <3> QED BY <1>1, <2>1, <3>1
  <2>3. ASSUME NEW c \in S \cup {b}, c > b PROVE q <= c
    <3>1. c \in S /\ c \in Nat /\ c > p
      BY <1>1, <2>1, <2>3
    <3> QED BY <1>2, <3>1
  <2> QED BY <1>1, <2>1, <2>2, <2>3 DEF Gap, Follows
<1>3. CASE q = H!Base /\ \A c \in S : c <= p
  <2>1. b > p
    BY <1>1, <1>3
  <2>2. ASSUME NEW c \in S PROVE c <= b
    <3>1. c \in Nat /\ c <= p
      BY <1>3, <2>2
    <3> QED BY <1>1, <2>1, <3>1
  <2> QED BY <1>1, <1>3, <2>1, <2>2 DEF Gap, Follows
<1> QED BY <1>2, <1>3 DEF Follows

\* The others stay in their order when b comes in, and when q goes.
LEMMA OthersFollow ==
    ASSUME NEW S \in SUBSET Nat, NEW p, NEW b \in Nat, Gap(S, p, b), NEW a \in S \ {p},
           NEW x, Follows(S, a, x)
    PROVE  Follows(S \cup {b}, a, x)
<1>1. a \in Nat /\ p \in Nat /\ p \in S /\ p < b /\ x \in S /\ x \in Nat /\ (a <= p \/ a > b) /\ a # p
  BY DEF Gap, Follows
<1>2. CASE x > a /\ \A c \in S : c > a => x <= c
  <2>1. b > a => x <= b
    <3>1. p > a => x <= p
      BY <1>1, <1>2
    <3> QED BY <1>1, <3>1
  <2> QED BY <1>1, <1>2, <2>1 DEF Follows
<1>3. CASE x = H!Base /\ \A c \in S : c <= a
  <2>1. b <= a
    <3>1. p <= a
      BY <1>1, <1>3
    <3> QED BY <1>1, <3>1
  <2> QED BY <1>1, <1>3, <2>1 DEF Follows
<1> QED BY <1>2, <1>3 DEF Follows

LEMMA StillFollows ==
    ASSUME NEW S, NEW q, NEW a, NEW x, Follows(S, a, x), x # q
    PROVE  Follows(S \ {q}, a, x)
BY DEF Follows

\* One block is before q.
LEMMA OneBefore ==
    ASSUME NEW S \in SUBSET Nat, NEW p \in S, NEW a \in S, a # p, NEW q, q # H!Base,
           Follows(S, p, q), NEW x, Follows(S, a, x)
    PROVE  x # q
<1>1. SUFFICES ASSUME x = q PROVE FALSE
  OBVIOUS
<1>2. a \in Nat /\ p \in Nat /\ q \in Nat
  BY DEF Follows
<1>3. q > p /\ q > a /\ (a > p => q <= a) /\ (p > a => q <= p)
  BY <1>1 DEF Follows
<1> QED BY <1>2, <1>3

\* The block that q is followed by follows b, if there is only q between them.
LEMMA NextFollows ==
    ASSUME NEW S \in SUBSET Nat, NEW b \in Nat, NEW q, Follows(S \cup {b}, b, q), q # H!Base,
           NEW r, Follows(S, q, r), q \in S, b \notin S
    PROVE  Follows((S \ {q}) \cup {b}, b, r)
<1>1. q \in Nat /\ q > b /\ \A c \in S : c > b => q <= c
  BY DEF Follows
<1>2. r \in S /\ r \in Nat /\ H!Base = 0
  BY DEF Follows, H!Base
<1>3. CASE r > q /\ \A c \in S : c > q => r <= c
  <2>1. ASSUME NEW c \in (S \ {q}) \cup {b}, c > b PROVE r <= c
    <3>1. c \in S /\ c \in Nat /\ c # q /\ q <= c
      BY <1>1, <2>1
    <3> QED BY <1>1, <1>3, <3>1
  <2>2. r > b /\ r # q
    BY <1>1, <1>2, <1>3
  <2> QED BY <1>2, <1>3, <2>1, <2>2 DEF Follows
<1>4. CASE r = H!Base /\ \A c \in S : c <= q
  <2>1. ASSUME NEW c \in (S \ {q}) \cup {b} PROVE c <= b
    <3>1. CASE c = b
      BY <3>1
    <3>2. CASE c \in S /\ c # q
      <4>1. c \in Nat /\ c <= q /\ (c > b => q <= c)
        BY <1>1, <1>4, <3>2
      <4> QED BY <1>1, <3>2, <4>1
    <3> QED BY <2>1, <3>1, <3>2
  <2> QED BY <1>2, <1>4, <2>1 DEF Follows
<1> QED BY <1>3, <1>4 DEF Follows

\* Where b goes, its neighbours are p and q.
LEMMA Neighbours ==
    ASSUME NEW h, Blocks(h), NEW S, Ring(h, S), NEW p \in S, NEW q, q = h[p].ptr,
           NEW b \in DOMAIN h \ S, Gap(S, p, b), Follows(S \cup {b}, b, q)
    PROVE  /\ \A c \in S : b + h[b].size = c => c = q
           /\ \A c \in S \ {p} : c + h[c].size # b
<1>1. b \in Nat /\ S \in SUBSET Nat /\ S \subseteq DOMAIN h /\ b # H!Base
  BY DEF Blocks, Ring
<1>2. h[b].size \in Nat /\ h[b].size > 0
  BY <1>1, HeaderIs
<1>3. ASSUME NEW c \in S, b + h[b].size = c PROVE c = q
  <2>1. c \in Nat /\ c > b
    BY <1>1, <1>2, <1>3
  <2>2. q > b /\ q <= c /\ q \in S
    BY <1>1, <2>1 DEF Follows
  <2>3. q \in Nat /\ q \in DOMAIN h
    BY <1>1, <2>2
  <2>4. b + h[b].size <= q
    BY <1>1, <2>2, <2>3, Outside
  <2> QED BY <1>1, <1>2, <1>3, <2>1, <2>2, <2>3, <2>4
<1>4. ASSUME NEW c \in S \ {p} PROVE c + h[c].size # b
  <2>1. c \in Nat /\ p \in Nat /\ p < b /\ (c <= p \/ c > b) /\ c # p
    BY <1>1 DEF Gap
  <2>2. h[c].size \in Nat
    BY <1>1, HeaderIs
  <2>3. CASE c > b
    BY <1>1, <2>1, <2>2, <2>3
  <2>4. CASE c < p
    <3>1. c + h[c].size <= p
      BY <1>1, <2>4, Outside
    <3> QED BY <1>1, <2>1, <2>2, <3>1
  <2> QED BY <2>1, <2>3, <2>4
<1> QED BY <1>3, <1>4

\* b is to go between p and q.
Between(h, S, p, q, b) ==
    /\ Blocks(h) /\ Ring(h, S) /\ p \in S /\ q = h[p].ptr /\ b \in DOMAIN h \ S
    /\ Gap(S, p, b) /\ Follows(S \cup {b}, b, q)

Known(h, S, p, q, b) ==
    /\ S \in SUBSET Nat /\ S \subseteq DOMAIN h /\ H!Base \in S /\ b \in Nat /\ b # H!Base
    /\ p \in Nat /\ p < b /\ q # b
    /\ \A a \in S : Follows(S, a, h[a].ptr)
    /\ \A a \in S \ {p} : Follows(S \cup {b}, a, h[a].ptr) /\ (q # H!Base => h[a].ptr # q)
    /\ \A a, c \in S : a = c \/ a + h[a].size # c
    /\ \A c \in S : b + h[b].size = c => c = q
    /\ \A c \in S \ {p} : c + h[c].size # b

LEMMA BetweenIs ==
    ASSUME NEW h, NEW S, NEW p, NEW q, NEW b, Between(h, S, p, q, b)
    PROVE  Known(h, S, p, q, b)
<1>1. S \in SUBSET Nat /\ S \subseteq DOMAIN h /\ H!Base \in S /\ b \in Nat /\ p \in S /\ b \notin S /\ b # H!Base
  BY DEF Between, Blocks, Ring
<1>2. p \in Nat /\ p < b
  BY <1>1 DEF Between, Gap
<1>3. q # b
  BY <1>1 DEF Between, Follows
<1>4. \A a \in S : Follows(S, a, h[a].ptr)
  BY DEF Between, Ring
<1>5. Follows(S, p, q)
  BY <1>1, <1>4 DEF Between
<1>6. ASSUME NEW a \in S \ {p}
      PROVE  Follows(S \cup {b}, a, h[a].ptr) /\ (q # H!Base => h[a].ptr # q)
  <2>1. Follows(S, a, h[a].ptr) /\ Gap(S, p, b)
    BY <1>4 DEF Between
  <2>2. Follows(S \cup {b}, a, h[a].ptr)
    BY <1>1, <2>1, OthersFollow
  <2>3. ASSUME q # H!Base PROVE h[a].ptr # q
    BY <1>1, <1>5, <2>1, <2>3, OneBefore
  <2> QED BY <2>2, <2>3
<1>7. /\ \A c \in S : b + h[b].size = c => c = q
      /\ \A c \in S \ {p} : c + h[c].size # b
  <2>1. /\ Blocks(h) /\ Ring(h, S) /\ p \in S /\ q = h[p].ptr /\ b \in DOMAIN h \ S
        /\ Gap(S, p, b) /\ Follows(S \cup {b}, b, q)
    BY DEF Between
  <2> QED BY <2>1, Neighbours, SMTT(30)
<1>8. \A a, c \in S : a = c \/ a + h[a].size # c
  BY DEF Between, Ring
<1> QED BY <1>1, <1>2, <1>3, <1>4, <1>6, <1>7, <1>8 DEF Known

\* The block q becomes a part of a; or a only gets another pointer.
Swallows(g, h, a, q) ==
    /\ DOMAIN g = DOMAIN h \ {q} /\ g \in [DOMAIN g -> Header]
    /\ g[a].size = h[a].size + h[q].size /\ g[a].ptr = h[q].ptr
    /\ \A x \in DOMAIN g \ {a} : g[x] = h[x]
Points(g, h, a, t) ==
    /\ DOMAIN g = DOMAIN h /\ g \in [DOMAIN g -> Header]
    /\ g[a].size = h[a].size /\ g[a].ptr = t
    /\ \A x \in DOMAIN h \ {a} : g[x] = h[x]

\* bp takes in the block after it, which leaves the ring.
LEMMA UpperJoined ==
    ASSUME NEW h, NEW S, NEW p, NEW q, NEW b, Between(h, S, p, q, b), b + h[b].size = q,
           NEW g, Swallows(g, h, b, q)
    PROVE  q \in S /\ Blocks(g) /\ Units(g) = Units(h) /\ Placed(g, S \ {q}, p, b)
<1>0. /\ DOMAIN g = DOMAIN h \ {q} /\ g \in [DOMAIN g -> Header]
      /\ g[b].size = h[b].size + h[q].size /\ g[b].ptr = h[q].ptr
      /\ \A a \in DOMAIN g \ {b} : g[a] = h[a]
  BY DEF Swallows
<1>1. /\ S \in SUBSET Nat /\ S \subseteq DOMAIN h /\ H!Base \in S /\ b \in Nat /\ b # H!Base
      /\ p \in Nat /\ p < b /\ q # b
      /\ \A a \in S : Follows(S, a, h[a].ptr)
      /\ \A a \in S \ {p} : Follows(S \cup {b}, a, h[a].ptr) /\ (q # H!Base => h[a].ptr # q)
      /\ \A a, c \in S : a = c \/ a + h[a].size # c
      /\ \A c \in S \ {p} : c + h[c].size # b
  <2>1. Known(h, S, p, q, b)
    BY <1>0, BetweenIs
  <2> QED BY <1>0, <2>1 DEF Known
<1>2. /\ Blocks(h) /\ p \in S /\ b \in DOMAIN h \ S /\ Gap(S, p, b) /\ Follows(S \cup {b}, b, q)
  BY DEF Between
<1>3. h[b].size \in Nat /\ h[b].size > 0
  BY <1>0, <1>1, <1>2, HeaderIs
<1>4. q \in S /\ q \in Nat /\ q > b /\ q # H!Base /\ q # p
  <2>1. q \in S
    BY <1>0, <1>1, <1>2 DEF Follows
  <2>2. q \in Nat /\ q > b
    BY <1>0, <1>1, <1>3, <2>1
  <2> QED BY <1>0, <1>1, <2>1, <2>2 DEF H!Base
<1>5. q \in DOMAIN h /\ h[q].size \in Nat
  BY <1>0, <1>1, <1>2, <1>4, HeaderIs
<1>6. \A a \in DOMAIN g \ {b} : g[a].size = h[a].size
  BY <1>0
<1>7. Blocks(g) /\ Units(g) = Units(h)
  BY <1>0, <1>2, <1>4, <1>5, <1>6, MergedIs
<1>8. \A a \in S \ {q} : a \in DOMAIN g \ {b} /\ g[a] = h[a]
  BY <1>0, <1>1, <1>2
<1>9. (S \ {q}) \cup {b} = (S \cup {b}) \ {q}
  BY <1>0, <1>4
<1>10. Follows((S \ {q}) \cup {b}, b, g[b].ptr)
  <2>1. Follows(S, q, h[q].ptr)
    BY <1>0, <1>1, <1>4
  <2> QED BY <1>0, <1>1, <1>2, <1>4, <2>1, NextFollows
<1>11. ASSUME NEW a \in (S \ {q}) \ {p} PROVE Follows((S \ {q}) \cup {b}, a, g[a].ptr)
  <2>1. g[a].ptr = h[a].ptr /\ Follows(S \cup {b}, a, h[a].ptr) /\ h[a].ptr # q
    BY <1>0, <1>1, <1>4, <1>8
  <2>2. Follows((S \cup {b}) \ {q}, a, h[a].ptr)
    BY <1>0, <2>1, StillFollows
  <2> QED BY <1>0, <1>9, <2>1, <2>2
<1>12. \A a, c \in S \ {q} : a = c \/ a + g[a].size # c
  BY <1>0, <1>1, <1>8
<1>13. ASSUME NEW c \in S \ {q} PROVE b + g[b].size # c
  <2>1. q + h[q].size # c
    BY <1>0, <1>1, <1>4
  <2>2. b + g[b].size = q + h[q].size
    BY <1>0, <1>1, <1>3, <1>5
  <2> QED BY <1>0, <2>1, <2>2
<1>14. \A c \in (S \ {q}) \ {p} : c + g[c].size # b
  BY <1>0, <1>1, <1>8
<1>15. Gap(S \ {q}, p, b)
  BY <1>0, <1>2, <1>4 DEF Gap
<1>16. S \ {q} \subseteq DOMAIN g /\ H!Base \in S \ {q} /\ b \in DOMAIN g \ (S \ {q})
  BY <1>0, <1>1, <1>2, <1>4
<1> QED BY <1>0, <1>4, <1>7, <1>10, <1>11, <1>12, <1>13, <1>14, <1>15, <1>16 DEF Placed

\* Or it is not next to it.
LEMMA UpperApart ==
    ASSUME NEW h, NEW S, NEW p, NEW q, NEW b, Between(h, S, p, q, b), b + h[b].size # q,
           NEW g, Points(g, h, b, q)
    PROVE  Blocks(g) /\ Units(g) = Units(h) /\ Placed(g, S, p, b)
<1>0. /\ DOMAIN g = DOMAIN h /\ g \in [DOMAIN g -> Header]
      /\ g[b].size = h[b].size /\ g[b].ptr = q /\ \A a \in DOMAIN h \ {b} : g[a] = h[a]
  BY DEF Points
<1>1. /\ S \in SUBSET Nat /\ S \subseteq DOMAIN h /\ H!Base \in S
      /\ \A a \in S \ {p} : Follows(S \cup {b}, a, h[a].ptr)
      /\ \A a, c \in S : a = c \/ a + h[a].size # c
      /\ \A c \in S : b + h[b].size = c => c = q
      /\ \A c \in S \ {p} : c + h[c].size # b
  <2>1. Known(h, S, p, q, b)
    BY <1>0, BetweenIs
  <2> QED BY <1>0, <2>1 DEF Known
<1>2. /\ Blocks(h) /\ p \in S /\ b \in DOMAIN h \ S /\ Gap(S, p, b) /\ Follows(S \cup {b}, b, q)
  BY DEF Between
<1>3. \A a \in DOMAIN h : g[a].size = h[a].size
  BY <1>0, <1>2
<1>4. Blocks(g) /\ Units(g) = Units(h)
  BY <1>0, <1>2, <1>3, Resized
<1>5. \A a \in S : a \in DOMAIN h \ {b} /\ g[a] = h[a]
  BY <1>0, <1>1, <1>2
<1>6. \A a \in S \ {p} : Follows(S \cup {b}, a, g[a].ptr)
  BY <1>0, <1>1, <1>5
<1>7. \A a, c \in S : a = c \/ a + g[a].size # c
  BY <1>0, <1>1, <1>5
<1>8. (\A c \in S : b + g[b].size # c) /\ \A c \in S \ {p} : c + g[c].size # b
  BY <1>0, <1>1, <1>5
<1> QED BY <1>0, <1>1, <1>2, <1>4, <1>6, <1>7, <1>8 DEF Placed

\* p takes in bp, or bp comes into the ring.
LEMMA LowerJoined ==
    ASSUME NEW h, Blocks(h), NEW S, NEW p, NEW b, Placed(h, S, p, b), p + h[p].size = b,
           NEW g, Swallows(g, h, p, b)
    PROVE  Blocks(g) /\ Units(g) = Units(h) /\ Ring(g, S)
<1>0. /\ DOMAIN g = DOMAIN h \ {b} /\ g \in [DOMAIN g -> Header]
      /\ g[p].size = h[p].size + h[b].size /\ g[p].ptr = h[b].ptr
      /\ \A a \in DOMAIN g \ {p} : g[a] = h[a]
  BY DEF Swallows
<1>1. /\ S \subseteq DOMAIN h /\ H!Base \in S /\ b \in DOMAIN h \ S /\ Gap(S, p, b) /\ b # H!Base
      /\ Follows(S \cup {b}, b, h[b].ptr)
      /\ \A a \in S \ {p} : Follows(S \cup {b}, a, h[a].ptr)
      /\ \A a, c \in S : a = c \/ a + h[a].size # c
      /\ \A c \in S : b + h[b].size # c
  BY DEF Placed
<1>2. S \in SUBSET Nat /\ b \in Nat /\ p \in S /\ p \in Nat /\ p < b /\ p \in DOMAIN h /\ p # b
  BY <1>0, <1>1 DEF Blocks, Gap
<1>3. h[p].size \in Nat /\ h[b].size \in Nat
  BY <1>0, <1>1, <1>2, HeaderIs
<1>4. \A a \in DOMAIN g \ {p} : g[a].size = h[a].size
  BY <1>0
<1>5. Blocks(g) /\ Units(g) = Units(h)
  BY <1>0, <1>1, <1>2, <1>4, MergedIs
<1>6. \A a \in S \ {p} : a \in DOMAIN g \ {p} /\ g[a] = h[a]
  BY <1>0, <1>1
<1>7. Follows(S, p, g[p].ptr)
  <2>1. PICK r : r = h[b].ptr /\ Follows(S \cup {b}, b, r)
    BY <1>0, <1>1
  <2>2. r \in S /\ r \in Nat
    BY <1>0, <1>1, <1>2, <2>1 DEF Follows
  <2>3. CASE r > b /\ \A c \in S \cup {b} : c > b => r <= c
    <3>1. ASSUME NEW c \in S, c > p PROVE r <= c
      <4>1. c \in Nat /\ (c <= p \/ c > b)
        BY <1>0, <1>1, <1>2 DEF Gap
      <4> QED BY <1>0, <1>2, <2>3, <3>1, <4>1
    <3>2. r > p
      BY <1>0, <1>2, <2>2, <2>3
    <3> QED BY <1>0, <2>1, <2>2, <3>1, <3>2 DEF Follows
  <2>4. CASE r = H!Base /\ \A c \in S \cup {b} : c <= b
    <3>1. ASSUME NEW c \in S PROVE c <= p
      <4>1. c \in Nat /\ (c <= p \/ c > b) /\ c <= b
        BY <1>0, <1>1, <1>2, <2>4 DEF Gap
      <4> QED BY <1>0, <1>2, <4>1
    <3> QED BY <1>0, <2>1, <2>2, <2>4, <3>1 DEF Follows
  <2> QED BY <1>0, <2>1, <2>3, <2>4 DEF Follows
<1>8. ASSUME NEW a \in S \ {p} PROVE Follows(S, a, g[a].ptr)
  <2>1. PICK x : x = h[a].ptr /\ Follows(S \cup {b}, a, x)
    BY <1>0, <1>1
  <2>2. a \in Nat /\ a # p /\ (a <= p \/ a > b)
    BY <1>0, <1>1, <1>2 DEF Gap
  <2>3. x # b
    <3>1. SUFFICES ASSUME x = b PROVE FALSE
      OBVIOUS
    <3>2. b > a /\ (p > a => b <= p)
      BY <1>0, <1>1, <1>2, <2>1, <3>1 DEF Follows
    <3> QED BY <1>0, <1>2, <2>2, <3>2
  <2>4. Follows((S \cup {b}) \ {b}, a, x)
    BY <1>0, <2>1, <2>3, StillFollows
  <2>5. (S \cup {b}) \ {b} = S
    BY <1>0, <1>1
  <2> QED BY <1>0, <1>6, <2>1, <2>4, <2>5
<1>9. ASSUME NEW a \in S, NEW c \in S, a # c PROVE a + g[a].size # c
  <2>1. CASE a = p
    <3>1. p + g[p].size = b + h[b].size
      BY <1>0, <1>2, <1>3
    <3> QED BY <1>0, <1>1, <2>1, <3>1
  <2>2. CASE a # p
    BY <1>0, <1>1, <1>6, <1>9, <2>2
  <2> QED BY <1>0, <2>1, <2>2
<1>10. S \subseteq DOMAIN g
  BY <1>0, <1>1
<1> QED BY <1>0, <1>1, <1>5, <1>7, <1>8, <1>9, <1>10 DEF Ring

LEMMA LowerApart ==
    ASSUME NEW h, Blocks(h), NEW S, NEW p, NEW b, Placed(h, S, p, b), p + h[p].size # b,
           NEW g, Points(g, h, p, b)
    PROVE  Blocks(g) /\ Units(g) = Units(h) /\ Ring(g, S \cup {b})
<1>0. /\ DOMAIN g = DOMAIN h /\ g \in [DOMAIN g -> Header]
      /\ g[p].size = h[p].size /\ g[p].ptr = b /\ \A a \in DOMAIN h \ {p} : g[a] = h[a]
  BY DEF Points
<1>1. /\ S \subseteq DOMAIN h /\ H!Base \in S /\ b \in DOMAIN h \ S /\ Gap(S, p, b)
      /\ Follows(S \cup {b}, b, h[b].ptr)
      /\ \A a \in S \ {p} : Follows(S \cup {b}, a, h[a].ptr)
      /\ \A a, c \in S : a = c \/ a + h[a].size # c
      /\ \A c \in S : b + h[b].size # c
      /\ \A c \in S \ {p} : c + h[c].size # b
  BY DEF Placed
<1>2. S \in SUBSET Nat /\ b \in Nat /\ p \in S /\ p \in Nat /\ p < b /\ p \in DOMAIN h /\ p # b
  BY <1>0, <1>1 DEF Blocks, Gap
<1>3. \A a \in DOMAIN h : g[a].size = h[a].size
  BY <1>0, <1>2
<1>4. Blocks(g) /\ Units(g) = Units(h)
  BY <1>0, <1>3, Resized
<1>5. Follows(S \cup {b}, p, g[p].ptr)
  <2>1. ASSUME NEW c \in S \cup {b}, c > p PROVE b <= c
    <3>1. CASE c = b
      BY <1>0, <1>2, <3>1
    <3>2. CASE c \in S
      <4>1. c \in Nat /\ (c <= p \/ c > b)
        BY <1>0, <1>1, <1>2, <3>2 DEF Gap
      <4> QED BY <1>0, <1>2, <2>1, <4>1
    <3> QED BY <1>0, <3>1, <3>2
  <2> QED BY <1>0, <1>2, <2>1 DEF Follows
<1>6. ASSUME NEW a \in S \cup {b} PROVE Follows(S \cup {b}, a, g[a].ptr)
  <2>1. CASE a = p
    BY <1>0, <1>5, <2>1
  <2>2. CASE a = b
    BY <1>0, <1>1, <1>2, <2>2
  <2>3. CASE a \in S \ {p}
    BY <1>0, <1>1, <2>3
  <2> QED BY <1>0, <2>1, <2>2, <2>3
<1>7. ASSUME NEW a \in S \cup {b}, NEW c \in S \cup {b}, a # c PROVE a + g[a].size # c
  <2>1. g[a].size = h[a].size
    BY <1>0, <1>1, <1>3
  <2>2. CASE a = b
    BY <1>0, <1>1, <1>7, <2>1, <2>2
  <2>3. CASE a # b /\ c = b
    BY <1>0, <1>1, <1>7, <2>1, <2>3
  <2>4. CASE a # b /\ c # b
    BY <1>0, <1>1, <1>7, <2>1, <2>4
  <2> QED BY <1>0, <2>2, <2>3, <2>4
<1>8. S \cup {b} \subseteq DOMAIN g /\ H!Base \in S \cup {b}
  BY <1>0, <1>1
<1> QED BY <1>0, <1>4, <1>6, <1>7, <1>8 DEF Ring

\* What the two joins leave of the ring.
LeavesUpper(g, h, S, p, b) ==
    \E T \in SUBSET S : /\ Blocks(g) /\ Units(g) = Units(h) /\ Placed(g, T, p, b)
                        /\ DOMAIN g = (DOMAIN h \ S) \cup T
LeavesLower(g, h, S, p, b) ==
    \E T \in SUBSET (S \cup {b}) :
       /\ p \in T /\ Blocks(g) /\ Units(g) = Units(h) /\ Ring(g, T)
       /\ DOMAIN g = (DOMAIN h \ (S \cup {b})) \cup T

LEMMA UpperIs ==
    ASSUME NEW h, NEW S, NEW p, NEW q, NEW b, Between(h, S, p, q, b)
    PROVE  LeavesUpper(H!JoinUpper(h, b, q), h, S, p, b)
<1> PICK g : g = H!JoinUpper(h, b, q)
  OBVIOUS
<1> SUFFICES LeavesUpper(g, h, S, p, b)
  OBVIOUS
<1>1. Blocks(h) /\ b \in DOMAIN h \ S /\ S \subseteq DOMAIN h /\ q # b /\ Follows(S \cup {b}, b, q)
  <2>1. Known(h, S, p, q, b)
    BY BetweenIs
  <2> QED BY <2>1 DEF Known, Between
<1>2. Headers(h) /\ b \in DOMAIN h /\ q \in S /\ q \in DOMAIN h
  BY <1>1 DEF Blocks, Headers, Follows
<1>3. /\ h[b].size \in Nat /\ h[b].ptr \in Int /\ h[q].size \in Nat /\ h[q].ptr \in Int
      /\ q \in Int /\ h[b] \in Header
  BY <1>1, <1>2, HeaderIs
<1>4. CASE b + h[b].size = q
  <2>1. PICK w : w = H!Without(h, q)
    OBVIOUS
  <2>2. DOMAIN w = DOMAIN h \ {q} /\ Headers(w) /\ \A a \in DOMAIN w : w[a] = h[a]
    BY <1>2, <2>1 DEF H!Without, Headers
  <2>3. PICK s \in Nat, t \in Int : s = h[b].size + h[q].size /\ t = h[q].ptr
    BY <1>3
  <2>4. g = H!Set(w, b, s, t)
    BY <1>4, <2>1, <2>3 DEF H!JoinUpper, H!Joins
  <2>5. IsSet(g, w, b, s, t)
    BY <2>2, <2>4, SetIs
  <2>6. /\ DOMAIN g = DOMAIN h \ {q} /\ g \in [DOMAIN g -> Header] /\ g[b].size = s /\ g[b].ptr = t
        /\ \A a \in DOMAIN g \ {b} : g[a] = h[a]
    BY <1>1, <2>2, <2>5 DEF IsSet
  <2>7. Blocks(g) /\ Units(g) = Units(h) /\ Placed(g, S \ {q}, p, b)
    <3>1. Swallows(g, h, b, q)
      BY <2>3, <2>6 DEF Swallows
    <3> QED BY <1>4, <3>1, UpperJoined
  <2>8. DOMAIN g = (DOMAIN h \ S) \cup (S \ {q})
    BY <1>1, <1>2, <2>6
  <2> QED BY <2>7, <2>8 DEF LeavesUpper
<1>5. CASE b + h[b].size # q
  <2>1. g = [h EXCEPT ![b].ptr = q]
    BY <1>5 DEF H!JoinUpper, H!Joins
  <2>2. /\ DOMAIN g = DOMAIN h /\ g[b] = [h[b] EXCEPT !.ptr = q]
        /\ \A a \in DOMAIN h \ {b} : g[a] = h[a]
    BY <1>2, <2>1 DEF Headers
  <2>3. g[b].size = h[b].size /\ g[b].ptr = q /\ g[b] \in Header
    BY <1>3, <2>2 DEF Header
  <2>4. g \in [DOMAIN g -> Header]
    <3>1. g = [a \in DOMAIN h |-> g[a]]
      BY <2>1
    <3>2. \A a \in DOMAIN h : g[a] \in Header
      BY <1>2, <2>2, <2>3 DEF Headers
    <3> QED BY <2>2, <3>1, <3>2
  <2>5. Blocks(g) /\ Units(g) = Units(h) /\ Placed(g, S, p, b)
    <3>1. Points(g, h, b, q)
      BY <2>2, <2>3, <2>4 DEF Points
    <3> QED BY <1>5, <3>1, UpperApart
  <2>6. DOMAIN g = (DOMAIN h \ S) \cup S
    BY <1>1, <2>2
  <2> QED BY <2>5, <2>6 DEF LeavesUpper
<1> QED BY <1>4, <1>5

LEMMA LowerIs ==
    ASSUME NEW h, Blocks(h), NEW S, NEW p, NEW b, Placed(h, S, p, b)
    PROVE  LeavesLower(H!JoinLower(h, p, b), h, S, p, b)
<1> PICK g : g = H!JoinLower(h, p, b)
  OBVIOUS
<1> SUFFICES LeavesLower(g, h, S, p, b)
  OBVIOUS
<1>1. b \in DOMAIN h \ S /\ S \subseteq DOMAIN h /\ p \in S
  BY DEF Placed, Gap
<1>2. Headers(h) /\ b \in DOMAIN h /\ p \in DOMAIN h /\ p # b
  BY <1>1 DEF Blocks, Headers
<1>3. /\ h[b].size \in Nat /\ h[b].ptr \in Int /\ h[p].size \in Nat /\ h[p].ptr \in Int
      /\ b \in Int /\ h[p] \in Header
  BY <1>2, HeaderIs
<1>4. CASE p + h[p].size = b
  <2>1. PICK w : w = H!Without(h, b)
    OBVIOUS
  <2>2. DOMAIN w = DOMAIN h \ {b} /\ Headers(w) /\ \A a \in DOMAIN w : w[a] = h[a]
    BY <1>2, <2>1 DEF H!Without, Headers
  <2>3. PICK s \in Nat, t \in Int : s = h[p].size + h[b].size /\ t = h[b].ptr
    BY <1>3
  <2>4. g = H!Set(w, p, s, t)
    BY <1>4, <2>1, <2>3 DEF H!JoinLower, H!Joins
  <2>5. IsSet(g, w, p, s, t)
    BY <2>2, <2>4, SetIs
  <2>6. /\ DOMAIN g = DOMAIN h \ {b} /\ g \in [DOMAIN g -> Header] /\ g[p].size = s /\ g[p].ptr = t
        /\ \A a \in DOMAIN g \ {p} : g[a] = h[a]
    BY <1>2, <2>2, <2>5 DEF IsSet
  <2>7. Blocks(g) /\ Units(g) = Units(h) /\ Ring(g, S)
    <3>1. Swallows(g, h, p, b)
      BY <2>3, <2>6 DEF Swallows
    <3> QED BY <1>4, <3>1, LowerJoined
  <2>8. DOMAIN g = (DOMAIN h \ (S \cup {b})) \cup S
    BY <1>1, <1>2, <2>6
  <2> QED BY <1>1, <2>7, <2>8 DEF LeavesLower
<1>5. CASE p + h[p].size # b
  <2>1. g = [h EXCEPT ![p].ptr = b]
    BY <1>5 DEF H!JoinLower, H!Joins
  <2>2. /\ DOMAIN g = DOMAIN h /\ g[p] = [h[p] EXCEPT !.ptr = b]
        /\ \A a \in DOMAIN h \ {p} : g[a] = h[a]
    BY <1>2, <2>1 DEF Headers
  <2>3. g[p].size = h[p].size /\ g[p].ptr = b /\ g[p] \in Header
    BY <1>3, <2>2 DEF Header
  <2>4. g \in [DOMAIN g -> Header]
    <3>1. g = [a \in DOMAIN h |-> g[a]]
      BY <2>1
    <3>2. \A a \in DOMAIN h : g[a] \in Header
      BY <1>2, <2>2, <2>3 DEF Headers
    <3> QED BY <2>2, <3>1, <3>2
  <2>5. Blocks(g) /\ Units(g) = Units(h) /\ Ring(g, S \cup {b})
    <3>1. Points(g, h, p, b)
      BY <2>2, <2>3, <2>4 DEF Points
    <3> QED BY <1>5, <3>1, LowerApart
  <2>6. DOMAIN g = (DOMAIN h \ (S \cup {b})) \cup (S \cup {b})
    BY <1>1, <2>2
  <2> QED BY <1>1, <2>5, <2>6 DEF LeavesLower
<1> QED BY <1>4, <1>5

LEMMA InsertKeeps == ASSUME HeapInv, H!Insert PROVE HeapInv'
<1>1. H!At("free") /\ H!Place /\ freep' = hop.p /\ UNCHANGED <<brk, taken, core>>
  BY DEF H!Insert
<1>2. Heap /\ Ring(hdr, H!OnList) /\ Blocks(hdr) /\ taken \subseteq DOMAIN hdr \ {H!Base}
  BY <1>1, AtOp DEF H!At, Heap
<1>3. PICK S \in SUBSET Nat : S = H!OnList
  BY OnListIs
<1>4. PICK p \in S, b \in DOMAIN hdr : p = hop.p /\ b = hop.bp
  BY <1>1, <1>3, FreeFields
<1>5. PICK q \in S : q = hdr[p].ptr
  BY <1>1, <1>3, <1>4, FreeFields, OnListIs
<1>6. /\ b \notin S /\ b \notin taken /\ b # H!Base /\ b \in Nat /\ S = DOMAIN hdr \ (taken \cup {b})
      /\ hop.n \in Nat /\ hop \in OpType
  BY <1>1, <1>3, <1>4, FreeFields, OnListIs
<1>7. Between(hdr, S, p, q, b)
  <2>1. Follows(S, p, q)
    BY <1>2, <1>3, <1>5 DEF Ring
  <2>2. (b > p /\ b < q) \/ (p >= q /\ (b > p \/ b < q))
    BY <1>1, <1>4, <1>5 DEF H!Place
  <2>3. Gap(S, p, b) /\ Follows(S \cup {b}, b, q)
    BY <1>6, <2>1, <2>2, PlaceIs
  <2> QED BY <1>2, <1>3, <1>5, <1>6, <2>3 DEF Between
<1>8. PICK g : g = H!JoinUpper(hdr, b, q)
  OBVIOUS
<1>9. PICK T \in SUBSET S :
          /\ Blocks(g) /\ Units(g) = Units(hdr) /\ Placed(g, T, p, b)
          /\ DOMAIN g = (DOMAIN hdr \ S) \cup T
  <2>1. LeavesUpper(g, hdr, S, p, b)
    BY <1>7, <1>8, UpperIs
  <2> QED BY <2>1 DEF LeavesUpper
<1>10. hdr' = H!JoinLower(g, p, b)
  BY <1>4, <1>5, <1>8 DEF H!Insert
<1>11. PICK R \in SUBSET (T \cup {b}) :
          /\ p \in R /\ Blocks(hdr') /\ Units(hdr') = Units(g) /\ Ring(hdr', R)
          /\ DOMAIN hdr' = (DOMAIN g \ (T \cup {b})) \cup R
  <2>1. LeavesLower(hdr', g, T, p, b)
    BY <1>9, <1>10, LowerIs
  <2> QED BY <2>1 DEF LeavesLower
<1>12. DOMAIN hdr' = taken \cup R /\ R \cap taken = {}
  <2>1. DOMAIN hdr \ S = taken \cup {b}
    BY <1>2, <1>6
  <2>2. DOMAIN g = taken \cup {b} \cup T /\ T \cap taken = {}
    BY <1>6, <1>9, <2>1
  <2> QED BY <1>6, <1>11, <2>2
<1>13. Heap'
  BY <1>1, <1>2, <1>9, <1>11, <1>12 DEF Heap
<1>14. H!Null \notin DOMAIN hdr' /\ p # H!Null /\ p \in DOMAIN hdr' /\ p \in Int
  BY <1>11, <1>12 DEF Blocks, H!Null
<1>15. hdr'[p].ptr \in Int
  BY <1>11, <1>14, HeaderIs
<1>16. CASE hop.n = 0
  <2>1. hop' = H!User
    BY <1>16 DEF H!Insert
  <2>2. H!OnList' = R
    BY <1>1, <1>12, <1>14, <2>1 DEF H!OnList, H!User
  <2>3. OpInv'
    BY <2>1 DEF OpInv, H!User, H!At, OpType, H!Null
  <2> QED BY <1>1, <1>4, <1>11, <1>13, <1>14, <2>2, <2>3 DEF HeapInv, Unused
<1>17. CASE hop.n # 0
  <2>1. PICK r \in Int : r = hdr'[p].ptr
    BY <1>15
  <2>2. hop' = [hop EXCEPT !.pc = "scan", !.bp = H!Null, !.prevp = p, !.p = r]
    BY <1>4, <1>17, <2>1 DEF H!Insert
  <2>3. /\ hop' \in OpType /\ hop'.pc = "scan" /\ hop'.n = hop.n /\ hop'.bp = H!Null
        /\ hop'.prevp = p /\ hop'.p = r
    <3>1. hop \in OpType /\ p \in Int /\ H!Null \in Int
      BY <1>6, <1>14 DEF H!Null
    <3> QED BY <2>2, <3>1 DEF OpType
  <2>4. H!OnList' = R
    BY <1>1, <1>12, <1>14, <2>3 DEF H!OnList
  <2>5. hop.n > 0
    BY <1>6, <1>17
  <2>6. OpInv'
    BY <1>11, <2>1, <2>3, <2>4, <2>5 DEF OpInv, H!At
  <2> QED BY <1>1, <1>4, <1>11, <1>13, <1>14, <2>4, <2>6 DEF HeapInv, Unused
<1> QED BY <1>16, <1>17

-----------------------------------------------------------------------------
LEMMA HeapInit == ASSUME H!Init PROVE HeapInv
<1>1. /\ hdr = [a \in {H!Base} |-> [ptr |-> H!Null, size |-> 0]] /\ freep = H!Null
      /\ brk = 1 /\ taken = {} /\ core = {} /\ hop = H!User
  BY DEF H!Init
<1>2. DOMAIN hdr = {H!Base} /\ hdr[H!Base].size = 0 /\ hdr \in [DOMAIN hdr -> Header]
  BY <1>1 DEF Header, H!Null
<1>3. Blocks(hdr)
  BY <1>2 DEF Blocks, H!Base
<1>4. Units(hdr) = {}
  <2>1. Extent(hdr, H!Base) = {}
    BY <1>2 DEF Extent, H!Base
  <2>2. \A a \in DOMAIN hdr : Extent(hdr, a) = {}
    BY <1>2, <2>1
  <2> QED BY <2>2 DEF Units
<1>5. OpInv
  BY <1>1 DEF OpInv, H!User, H!At, OpType, H!Null
<1> QED BY <1>1, <1>3, <1>4, <1>5 DEF HeapInv, Heap, Unused

LEMMA HeapStepKeeps == ASSUME H!UmallocConstants, HeapInv, [H!Next]_(H!vars) PROVE HeapInv'
<1>1. CASE UNCHANGED H!vars
  BY <1>1 DEF H!vars, HeapInv, Heap, Unused, OpInv, H!OnList, Blocks, Units, Extent, Ring,
     Follows, H!At
<1>2. CASE H!Next
  BY <1>2, MallocKeeps, TakeKeeps, NextBlockKeeps, MorecoreKeeps, FreeKeeps, FindPlaceKeeps,
     InsertKeeps, SbrkKeeps DEF H!Next
<1> QED BY <1>1, <1>2

LEMMA HeapInvariant == ASSUME H!UmallocConstants PROVE H!Spec => []HeapInv
<1>1. H!Init => HeapInv
  BY HeapInit
<1>2. HeapInv /\ [H!Next]_(H!vars) => HeapInv'
  BY HeapStepKeeps
<1> QED BY <1>1, <1>2, PTL DEF H!Spec

LEMMA HeapIsExact == ASSUME H!UmallocConstants PROVE H!Spec => []H!Exact
<1>1. HeapInv => H!Exact
  <2>1. SUFFICES ASSUME HeapInv
                 PROVE  /\ core = UNION {H!Block(a) : a \in DOMAIN hdr}
                        /\ \A a, b \in DOMAIN hdr : a # b => H!Block(a) \cap H!Block(b) = {}
                        /\ freep # H!Null =>
                             /\ freep \in H!OnList
                             /\ \A a \in H!OnList : hdr[a].ptr = H!After(a)
                             /\ \A a, b \in H!OnList : a = b \/ ~ H!Joins(hdr, a, b)
    BY DEF H!Exact
  <2>2. \A a : Extent(hdr, a) = H!Block(a)
    BY DEF Extent, H!Block
  <2>3. Heap /\ Blocks(hdr) /\ core = Units(hdr)
    BY <2>1 DEF HeapInv, Heap
  <2>4. core = UNION {H!Block(a) : a \in DOMAIN hdr}
    BY <2>2, <2>3 DEF Units
  <2>5. \A a, b \in DOMAIN hdr : a # b => H!Block(a) \cap H!Block(b) = {}
    BY <2>2, <2>3 DEF Blocks
  <2>6. ASSUME freep # H!Null
        PROVE  /\ freep \in H!OnList
               /\ \A a \in H!OnList : hdr[a].ptr = H!After(a)
               /\ \A a, b \in H!OnList : a = b \/ ~ H!Joins(hdr, a, b)
    <3>1. freep \in H!OnList /\ Ring(hdr, H!OnList)
      BY <2>1, <2>6 DEF HeapInv
    <3>2. \A a \in H!OnList : hdr[a].ptr = H!After(a)
      BY <2>3, <3>1, NextIs
    <3> QED BY <3>1, <3>2 DEF Ring, H!Joins
  <2> QED BY <2>4, <2>5, <2>6
<1> QED BY <1>1, HeapInvariant, PTL

-----------------------------------------------------------------------------
(* All of them in one run: each goes through its own steps and stuttering  *)
(* steps, and has of its own specification what its invariant needs.       *)

LEMMA UartRuns == SpecAll => U!Spec
<1>1. InitAll => U!Init
  BY DEF InitAll
<1>2. [NextAll]_all => [U!Next]_(U!vars)
  BY DEF NextAll, all, uart, U!vars, U!ring, U!dev
<1> QED BY <1>1, <1>2, PTL DEF SpecAll, U!Spec

LEMMA ConsoleRuns == SpecAll => C!Spec
<1>1. InitAll => C!Init
  BY DEF InitAll
<1>2. [NextAll]_all => [C!Next]_(C!vars)
  BY DEF NextAll, all, console, C!vars, C!cons
<1> QED BY <1>1, <1>2, PTL DEF SpecAll, C!Spec

LEMMA HeapRuns == SpecAll => H!Spec
<1>1. InitAll => H!Init
  BY DEF InitAll
<1>2. [NextAll]_all => [H!Next]_(H!vars)
  BY DEF NextAll, all, heap, H!vars
<1> QED BY <1>1, <1>2, PTL DEF SpecAll, H!Spec

LEMMA MemoryRuns == SpecAll => A!Spec
<1>1. InitAll => A!Init
  BY DEF InitAll
<1>2. [NextAll]_all => [A!Next]_(A!vars)
  BY DEF NextAll, all, memory, A!vars
<1> QED BY <1>1, <1>2, PTL DEF SpecAll, A!Spec

\* Output that waits in the ring of uart.c is never forgotten: the device is
\* busy, or has an interrupt to come, or a hart is on its way to look at it.
THEOREM OutputNeverStalls == SpecAll => []NeverStalls
<1>1. U!UartConstants
  BY InstanceConstants
<1>2. U!NeverStalls <=> NeverStalls
  BY DEF NeverStalls
<1> QED BY <1>1, <1>2, UartNeverStalls, UartRuns, PTL

\* The ring and the device are one queue, that uartputc() fills and the line
\* empties, in order.
THEOREM OutputInOrder == SpecAll => InOrder
<1>1. U!UartConstants
  BY InstanceConstants
<1>2. U!Spec => U!InOrder
  BY <1>1, UartIsFifo
<1> QED BY <1>2, UartRuns, PTL DEF InOrder

\* consoleread() never sleeps over a line that it could return.
THEOREM LinesWakeReaders == SpecAll => []ReadersAwake
<1>1. C!ConsoleConstants
  BY InstanceConstants
<1>2. C!ReadersAwake <=> ReadersAwake
  BY DEF ReadersAwake
<1> QED BY <1>1, <1>2, ConsoleReadersAwake, ConsoleRuns, PTL

\* What consoleread() returns is what has been typed, as line editing left it.
THEOREM LinesAreEdited == SpecAll => EditedLines
<1>1. C!ConsoleConstants
  BY InstanceConstants
<1>2. C!Spec => C!EditedLines
  BY <1>1, ConsoleEditsLines
<1> QED BY <1>2, ConsoleRuns, PTL DEF EditedLines

\* A pgaccess() that succeeds reports the pages that the process has used since
\* one last did, and no others, whatever the TLB holds and the copies between
\* them touch.
THEOREM AccessReported == SpecAll => []PgaccessExact
<1>1. A!UserMemoryConstants
  BY InstanceConstants
<1>2. A!PgaccessExact <=> PgaccessExact
  BY DEF PgaccessExact
<1> QED BY <1>1, <1>2, PgaccessIsExact, MemoryRuns, PTL

\* copyin(), copyout() and copyinstr(), page by page, do what copying byte by
\* byte would, and say so.
THEOREM CopiedExactly == SpecAll => []CopyExact
<1>1. A!UserMemoryConstants
  BY InstanceConstants
<1>2. A!CopyExact <=> CopyExact
  BY DEF CopyExact
<1> QED BY <1>1, <1>2, CopyIsExact, MemoryRuns, PTL

\* Between calls, whatever they were and whenever sbrk() failed or the program
\* called it itself: each unit that morecore() got is in one block, and the free
\* blocks are on a ring in the order of their addresses, none next to another.
THEOREM HeapStaysExact == SpecAll => []Exact
<1>1. H!UmallocConstants
  BY InstanceConstants
<1>2. H!Exact <=> Exact
  BY DEF Exact
<1> QED BY <1>1, <1>2, HeapIsExact, HeapRuns, PTL
=============================================================================
