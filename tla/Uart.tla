-------------------------------- MODULE Uart --------------------------------
(***************************************************************************)
(* The transmit half of uart.c, below consolewrite(): the ring that        *)
(* uartputc() fills and uartstart() empties, at the end of each uartputc() *)
(* and of each interrupt, and uartputc_sync(), with which consoleintr()    *)
(* sends its echo round the ring and its lock.                             *)
(*                                                                         *)
(* The device takes characters into a FIFO, says when that is empty, and   *)
(* interrupts when it has become so and when a character has arrived.  It  *)
(* does so at any moment, so that a look at LSR and the write to THR after *)
(* it are two steps.                                                       *)
(***************************************************************************)
EXTENDS Naturals, Sequences

CONSTANTS
    Writer,            \* processes that write to the console
    None,              \* nobody holds uart_tx_lock
    Intr,              \* the hart that handles the interrupt
    Char,              \* characters
    Echo,              \* what consoleintr() sends
    UART_TX_BUF_SIZE,
    UINT64,            \* the indices are modulo UINT64 (2^64)
    MaxWrite           \* bound: bytes in one write()

UartConstants ==
    /\ {None, Intr} \cap Writer = {} /\ None # Intr /\ Char # {} /\ Echo \notin Char
    /\ UART_TX_BUF_SIZE \in Nat \ {0} /\ MaxWrite \in Nat
    /\ UINT64 \in Nat /\ UINT64 > UART_TX_BUF_SIZE /\ UINT64 % UART_TX_BUF_SIZE = 0

VARIABLES
    uart_tx_buf, uart_tx_w, uart_tx_r,
    lock,     \* who holds uart_tx_lock
    pc,       \* where a process is in write(), or Intr in uartintr()
    left,     \* bytes that a write() has still to send
    asleep,   \* processes that sleep on &uart_tx_r
    fifo,     \* characters that the device has to send
    rx,       \* a character has arrived
    irq       \* the interrupt is pending

ring == <<uart_tx_buf, uart_tx_w, uart_tx_r>>
dev  == <<fifo, rx, irq>>
vars == <<ring, lock, pc, left, asleep, dev>>

At(h, l)   == pc[h] = l /\ h \notin asleep
Goto(h, l) == pc' = [pc EXCEPT ![h] = l]
Slot(i)    == i % UART_TX_BUF_SIZE
Full       == uart_tx_w = (uart_tx_r + UART_TX_BUF_SIZE) % UINT64
LSR_TX_IDLE == fifo = <<>>

-----------------------------------------------------------------------------
(* consolewrite() and uartputc()                                           *)

Write(p) ==
    /\ At(p, "user")
    /\ \E n \in 1 .. MaxWrite : left' = [left EXCEPT ![p] = n]
    /\ Goto(p, "put")
    /\ UNCHANGED <<ring, lock, asleep, dev>>

\* The loop is over, or either_copyin() fails.
WriteDone(p) ==
    /\ At(p, "put")
    /\ left' = [left EXCEPT ![p] = 0] /\ Goto(p, "user")
    /\ UNCHANGED <<ring, lock, asleep, dev>>

PutSleep(p) ==
    /\ At(p, "put") /\ left[p] > 0 /\ lock = None /\ Full
    /\ asleep' = asleep \cup {p}
    /\ UNCHANGED <<ring, lock, pc, left, dev>>

\* Mutant: one character too many in the ring.
MutPut(p) ==
    /\ At(p, "put") /\ left[p] > 0 /\ lock = None
    /\ uart_tx_w # (uart_tx_r + UART_TX_BUF_SIZE + 1) % UINT64
    /\ \E c \in Char : uart_tx_buf' = [uart_tx_buf EXCEPT ![Slot(uart_tx_w)] = c]
    /\ uart_tx_w' = (uart_tx_w + 1) % UINT64
    /\ left' = [left EXCEPT ![p] = @ - 1] /\ lock' = p /\ Goto(p, "start")
    /\ UNCHANGED <<uart_tx_r, asleep, dev>>

Put(p) ==
    /\ At(p, "put") /\ left[p] > 0 /\ lock = None /\ ~ Full
    /\ \E c \in Char : uart_tx_buf' = [uart_tx_buf EXCEPT ![Slot(uart_tx_w)] = c]
    /\ uart_tx_w' = (uart_tx_w + 1) % UINT64
    /\ left' = [left EXCEPT ![p] = @ - 1] /\ lock' = p /\ Goto(p, "start")
    /\ UNCHANGED <<uart_tx_r, asleep, dev>>

-----------------------------------------------------------------------------
(* uartstart()                                                             *)

\* One turn of the loop up to the look at LSR, or the end and release().
Start(h) ==
    /\ At(h, "start")
    /\ IF uart_tx_w = uart_tx_r \/ ~ LSR_TX_IDLE
       THEN lock' = None /\ Goto(h, IF h = Intr THEN "no" ELSE "put")
       ELSE Goto(h, "send") /\ UNCHANGED lock
    /\ UNCHANGED <<ring, left, asleep, dev>>

Send(h) ==
    /\ At(h, "send")
    /\ uart_tx_r' = (uart_tx_r + 1) % UINT64
    /\ fifo' = Append(fifo, uart_tx_buf[Slot(uart_tx_r)])
    /\ asleep' = {} /\ Goto(h, "start")
    /\ UNCHANGED <<uart_tx_buf, uart_tx_w, lock, left, rx, irq>>

-----------------------------------------------------------------------------
(* uartintr(), on one hart at a time: plic_claim() sees to that.           *)

Claim ==
    /\ At(Intr, "no") /\ irq
    /\ irq' = FALSE /\ Goto(Intr, "input")
    /\ UNCHANGED <<ring, lock, left, asleep, fifo, rx>>

\* uartgetc(); consoleintr() sends an echo, or none.
Getc ==
    /\ At(Intr, "input") /\ rx
    /\ rx' = FALSE
    /\ \E l \in {"input", "idle"} : Goto(Intr, l)
    /\ UNCHANGED <<ring, lock, left, asleep, fifo, irq>>

\* uartputc_sync() waits for LSR_TX_IDLE, and then writes to THR.
SyncIdle ==
    /\ At(Intr, "idle") /\ LSR_TX_IDLE
    /\ Goto(Intr, "echo")
    /\ UNCHANGED <<ring, lock, left, asleep, dev>>

SyncSend ==
    /\ At(Intr, "echo")
    /\ fifo' = Append(fifo, Echo) /\ Goto(Intr, "input")
    /\ UNCHANGED <<ring, lock, left, asleep, rx, irq>>

\* Mutant: the interrupt is taken for input only.
MutStartIntr ==
    /\ At(Intr, "input") /\ ~ rx /\ lock = None
    /\ Goto(Intr, "no")
    /\ UNCHANGED <<ring, lock, left, asleep, dev>>

\* acquire(&uart_tx_lock)
StartIntr ==
    /\ At(Intr, "input") /\ ~ rx /\ lock = None
    /\ lock' = Intr /\ Goto(Intr, "start")
    /\ UNCHANGED <<ring, left, asleep, dev>>

-----------------------------------------------------------------------------
(* The device                                                              *)

Transmit ==
    /\ fifo # <<>>
    /\ fifo' = Tail(fifo) /\ irq' = (irq \/ Len(fifo) = 1)
    /\ UNCHANGED <<ring, lock, pc, left, asleep, rx>>

Arrive ==
    /\ ~ rx
    /\ rx' = TRUE /\ irq' = TRUE
    /\ UNCHANGED <<ring, lock, pc, left, asleep, fifo>>

-----------------------------------------------------------------------------
Init ==
    /\ uart_tx_buf = [i \in 0 .. UART_TX_BUF_SIZE - 1 |-> CHOOSE c \in Char : TRUE]
    /\ uart_tx_w = 0 /\ uart_tx_r = 0 /\ lock = None
    /\ pc = [h \in Writer \cup {Intr} |-> IF h = Intr THEN "no" ELSE "user"]
    /\ left = [p \in Writer |-> 0] /\ asleep = {}
    /\ fifo = <<>> /\ rx = FALSE /\ irq = FALSE

Uartputc(p) == WriteDone(p) \/ PutSleep(p) \/ Put(p) \/ Start(p) \/ Send(p)
Uartintr    == Claim \/ Getc \/ SyncIdle \/ SyncSend \/ StartIntr \/ Start(Intr) \/ Send(Intr)

Next == \/ \E p \in Writer : Write(p) \/ Uartputc(p)
        \/ Uartintr \/ Transmit \/ Arrive

Spec == Init /\ [][Next]_vars

-----------------------------------------------------------------------------
(* Properties.                                                             *)

InRing == (uart_tx_w + UINT64 - uart_tx_r) % UINT64

TypeOK ==
    /\ uart_tx_buf \in [0 .. UART_TX_BUF_SIZE - 1 -> Char]
    /\ {uart_tx_r, uart_tx_w} \subseteq 0 .. UINT64 - 1 /\ InRing <= UART_TX_BUF_SIZE
    /\ lock \in Writer \cup {None, Intr} /\ asleep \subseteq Writer
    /\ pc \in [Writer \cup {Intr} -> {"user", "put", "start", "send", "no", "input", "idle", "echo"}]
    /\ left \in [Writer -> 0 .. MaxWrite]
    /\ fifo \in Seq(Char \cup {Echo}) /\ rx \in BOOLEAN /\ irq \in BOOLEAN

Waiting  == [k \in 1 .. InRing |-> uart_tx_buf[Slot(uart_tx_r + k - 1)]]
InDevice == {i \in DOMAIN fifo : fifo[i] # Echo}
Sent     == IF InDevice = {} THEN <<>> ELSE <<fifo[CHOOSE i \in InDevice : TRUE]>>

\* The characters of all writes leave the machine in the order in which they
\* were put into the ring, each once, whatever echo comes in between; the
\* device never has more than one of them.
Output == INSTANCE PipeFifo WITH
    Byte     <- Char,
    Capacity <- UART_TX_BUF_SIZE + 1,
    queue    <- Sent \o Waiting,
    readable <- TRUE
InOrder == Output!Spec

\* Output waits only while the device is busy or about to be looked at, also
\* when what made it busy was an echo; and a writer only for room.
NeverStalls == lock = None =>
    /\ uart_tx_w # uart_tx_r /\ LSR_TX_IDLE => irq \/ ~ At(Intr, "no")
    /\ asleep # {} => Full
=============================================================================
