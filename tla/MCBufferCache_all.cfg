CONSTANTS
    p1 = p1
    p2 = p2
    p3 = p3
    c1 = c1
    c2 = c2
    k1 = k1
    k2 = k2
    k3 = k3
    Proc = {p1, p2, p3}
    Buf = {c1, c2}
    Block = {k1, k2, k3}
    v1 = v1
    v2 = v2
    Val = {v1, v2}
    NUM = 4
    UINT16 = 4
    None = None
    MaxPin = 1
    CopyinFails = FALSE
SPECIFICATION SpecBoth
VIEW Current
SYMMETRY Symmetry
INVARIANTS CountsExact NoLostWakeup Descriptors NoLostInterrupt
PROPERTIES OneCopy Serial
