SPECIFICATION Spec
CONSTANTS
  p1 = p1
  p2 = p2
  p3 = p3
  Proc = {p1, p2, p3}
  InitProc = p1
  Null = Null
  Trampoline = Trampoline
  NumPages = 17
  Page <- MCPage
  Pick <- MCPick
  PGSIZE = 2
  RADIX = 4
  MAXVPN = 64
  MaxSz = 6
  UINT64 = 16
  MaxPid = 3
SYMMETRY Symmetry
VIEW UpToRenaming
INVARIANTS OneOwner NoLeak NoPanic UserImage UgetpidIsGetpid
PROPERTY AllOrNothing
