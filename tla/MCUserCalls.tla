---------------------------- MODULE MCUserCalls ----------------------------
(***************************************************************************)
(* Pipes, the console, the UART, malloc() and the copies to and from user  *)
(* memory, for TLC, in one run: the first step chooses one of them, and    *)
(* the others stay as they are.                                            *)
(***************************************************************************)
EXTENDS Pipes, TLC

CONSTANTS
    p1, p2,
    Key, INPUT_BUF_SIZE, MaxRead,                                  \* Console
    Intr, Echo, UART_TX_BUF_SIZE, UINT64, MaxWrite,                \* Uart
    LIMIT, MORECORE, MaxUnits,                                     \* Umalloc
    NPAGE, PGSIZE, Kind, Nul, MAX_PAGES, MaskSize, BitmapSize,     \* UserMemory
    Counts, Lengths

VARIABLES
    on,                                                            \* which one runs
    cbuf, cr, cw, ce, clock, cop, casleep, ckilled,                \* Console
    ubuf, uw, ur, ulock, upc, uleft, uasleep, fifo, rx, irq,       \* Uart
    hdr, freep, brk, taken, core, hop,                             \* Umalloc
    accessed, tlb, touched, lost, call, panicked                   \* UserMemory

KindOf == 0 :> "code" @@ 1 :> "guard" @@ 2 :> "data" @@ 3 :> "data" @@ 4 :> "none"

C == INSTANCE Console WITH
    Reader <- Proc, Char <- Key,
    buf <- cbuf, r <- cr, w <- cw, e <- ce, lock <- clock, op <- cop,
    asleep <- casleep, killed <- ckilled
U == INSTANCE Uart WITH
    Writer <- Proc, Char <- Byte,
    uart_tx_buf <- ubuf, uart_tx_w <- uw, uart_tx_r <- ur, lock <- ulock, pc <- upc,
    left <- uleft, asleep <- uasleep
H == INSTANCE Umalloc WITH op <- hop
A == INSTANCE UserMemory

ASSUME InstanceConstants ==
    C!ConsoleConstants /\ U!UartConstants /\ H!UmallocConstants /\ A!UserMemoryConstants

console == <<cbuf, cr, cw, ce, clock, cop, casleep, ckilled>>
uart    == <<ubuf, uw, ur, ulock, upc, uleft, uasleep, fifo, rx, irq>>
heap    == <<hdr, freep, brk, taken, core, hop>>
memory  == <<accessed, tlb, touched, lost, call, panicked>>
all     == <<on, vars, console, uart, heap, memory>>

InitAll ==
    /\ on \in {"pipe", "console", "uart", "heap", "memory"}
    /\ Init /\ (on # "pipe" => \A i \in DOMAIN data : data[i] = 0)
    /\ C!Init /\ U!Init /\ H!Init /\ A!Init

NextAll ==
    /\ UNCHANGED on
    /\ \/ on = "pipe"    /\ Next   /\ UNCHANGED <<console, uart, heap, memory>>
       \/ on = "console" /\ C!Next /\ UNCHANGED <<vars, uart, heap, memory>>
       \/ on = "uart"    /\ U!Next /\ UNCHANGED <<vars, console, heap, memory>>
       \/ on = "heap"    /\ H!Next /\ UNCHANGED <<vars, console, uart, memory>>
       \/ on = "memory"  /\ A!Next /\ UNCHANGED <<vars, console, uart, heap>>

SpecAll == InitAll /\ [][NextAll]_all /\ \A p \in Proc : SF_vars(on = "pipe" /\ Step(p))

InOrder       == U!InOrder
NeverStalls   == U!NeverStalls
EditedLines   == C!EditedLines
ReadersAwake  == C!ReadersAwake
Exact         == H!Exact
PgaccessExact == A!PgaccessExact
CopyExact     == A!CopyExact
OnlyMask      == A!OnlyMask
=============================================================================
