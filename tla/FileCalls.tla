----------------------------- MODULE FileCalls -----------------------------
(***************************************************************************)
(* The file system calls of sysfile.c on top of fs.c and file.c: inodes on *)
(* the disk and in the table of the kernel, directories, paths, open       *)
(* files, and the processes that use them.                                 *)
(*                                                                         *)
(* Below is the log, as AtomicDisk says: the disk changes when no call is  *)
(* in progress any more, and a crash leaves it as it was then.  A crash in *)
(* the middle of calls loses them and the memory, and so has the outcome   *)
(* of a crash right after the last commit, where it is modelled.           *)
(*                                                                         *)
(* A step is a critical section of itable.lock or ftable.lock, a change of *)
(* the disk that ialloc() can see, or what a process does from one ilock() *)
(* to the next lock it takes or gives back: nobody else looks at an inode  *)
(* that is locked.  iget() finds the entry of an inode or makes one while  *)
(* it holds itable.lock, so an inode has one entry, which bears its number.*)
(***************************************************************************)
EXTENDS Naturals, Sequences, FiniteSets

CONSTANTS
    Proc,        \* processes
    Boot,        \* the first process, which never exits
    Inum,        \* inode numbers
    ROOTINO,     \* the root directory
    Name,        \* names other than "." and ".."
    Calls,       \* bound: the calls that each process makes, with their paths
    Fd,          \* file descriptors of a process
    File,        \* entries of the file table
    NINODE,      \* entries of the inode table
    None,        \* a null pointer, a free directory entry, nobody
    RemoveInUse  \* bound: directories are removed while others refer to them

Names == Name \cup {".", ".."}
Path  == [abs : BOOLEAN, elems : Seq(Names) \ {<<>>}]

ASSUME FileConstants ==
    /\ Boot \in Proc /\ ROOTINO \in Inum /\ None \notin Inum \cup File \cup Proc
    /\ Name \cap {".", ".."} = {} /\ NINODE \in Nat /\ RemoveInUse \in BOOLEAN
    /\ \A S \in {Proc, Inum, Name, Fd, File} : IsFiniteSet(S)
    /\ \A p \in Proc : Calls[p] \subseteq
          [op : {"open", "create", "mkdir", "chdir", "link", "unlink"}, path : Path, new : Path]

VARIABLES
    inode,     \* struct dinode, and the entries of a directory, as bread() returns them
    itable,    \* struct inode; lock is the process that holds ip->lock
    ftable,    \* struct file
    ofile,     \* p->ofile
    cwd,       \* p->cwd
    call,      \* where a process is in a call, and its local variables
    orphans,   \* inodes without a link that a crash has left on the disk
    missed,    \* inodes without a link that iput() has left there
    panicked   \* the message of panic(), if it was called

vars == <<inode, itable, ftable, ofile, cwd, call, orphans, missed, panicked>>

NoEnts  == [n \in Names |-> None]
Free    == [type |-> "free", nlink |-> 0, ents |-> NoEnts]
NoEntry == [ref |-> 0, valid |-> FALSE, type |-> "free", nlink |-> 0, lock |-> None]
NoFile  == [ref |-> 0, type |-> "FD_NONE", ip |-> None]

\* at: the inode namex() has reached; ip, dp: as in the calls; put: the inode
\* that iput() drops, and ret where it returns to; path: what namex() has left,
\* new: the second path of link().
Idle == [pc |-> "idle", op |-> "none", path |-> <<>>, new |-> None, at |-> None,
         ip |-> None, dp |-> None, inum |-> None, put |-> None, ret |-> "none"]
Dead == [Idle EXCEPT !.pc = "dead"]
\* What a call still needs when it is done with its paths.
Only(i) == [Idle EXCEPT !.ip = i]

At(p, l)     == call[p].pc = l
Become(p, c) == call' = [call EXCEPT ![p] = c]
Panic(msg)   == /\ panicked' = msg
                /\ UNCHANGED <<inode, itable, ftable, ofile, cwd, call, orphans, missed>>

\* p goes on as c, with the disk fs and the inode table tab.
Write(p, fs, tab, c) ==
    /\ inode' = fs /\ itable' = tab /\ Become(p, c)
    /\ UNCHANGED <<ftable, ofile, cwd, orphans, missed, panicked>>
Step(p, tab, c) == Write(p, inode, tab, c)

-----------------------------------------------------------------------------
(* iget(), ilock(), iput() and the log.                                    *)

Iget(tab, i) ==
    [tab EXCEPT ![i].ref = @ + 1, ![i].valid = tab[i].ref > 0 /\ @]

InTable == {i \in Inum : itable[i].ref > 0}

\* p gets a reference to i, and goes on as c.
Get(p, i, tab, c) ==
    IF i \notin InTable /\ Cardinality(InTable) = NINODE
    THEN Panic("iget: no inodes")
    ELSE Step(p, Iget(tab, i), c)

\* The entry of i as ilock() leaves it, without the lock and with it.
Loaded(i) ==
    IF itable[i].valid THEN itable[i]
    ELSE [itable[i] EXCEPT !.valid = TRUE, !.type = inode[i].type, !.nlink = inode[i].nlink]
Seen(i)      == [itable EXCEPT ![i] = Loaded(i)]
Locked(p, i) == [itable EXCEPT ![i] = [Loaded(i) EXCEPT !.lock = p]]

\* The inode that p locks next.
Wanted(p) ==
    LET c == call[p] IN
    CASE c.pc = "walk" -> c.at
      [] c.pc \in {"open", "chdir", "exists", "fill", "unlink_ip", "link", "link_undo"} -> c.ip
      [] c.pc \in {"create", "unlink", "link_dir"} -> c.dp
      [] OTHER -> None

\* What the kernel panics with when p has locked it.
Fault(p) ==
    LET e == Loaded(Wanted(p)) IN
    IF e.type = "free" THEN "ilock: no type"
    ELSE IF call[p].pc \in {"create", "unlink", "link_dir"} /\ e.type # "dir"
    THEN "dirlookup not DIR"
    ELSE IF At(p, "unlink_ip") /\ e.nlink < 1 THEN "unlink: nlink < 1"
    ELSE "no"

\* At l, ilock() returns to p, which goes on with A.
Ilock(p, l, A) ==
    /\ At(p, l) /\ itable[Wanted(p)].lock = None
    /\ IF Fault(p) = "no" THEN A ELSE Panic(Fault(p))

\* c in iput(i), which returns to ret; for "put_ip", to iput(c.ip).
Iput(c, i, ret) == [c EXCEPT !.pc = "put", !.put = i, !.ret = ret]
Last(i) == Iput(Idle, i, "end")
PutDone(c) == IF c.ret = "put_ip" THEN Last(c.ip) ELSE [c EXCEPT !.pc = c.ret, !.put = None, !.ret = "none"]

\* Mutant: the count is tested as if it were decremented already.
MutLastPut(e) == e.ref = 0 /\ e.valid /\ e.nlink = 0

\* Mutant: the references of others are overlooked.
MutLastRef(e) == e.valid /\ e.nlink = 0

LastPut(e) == e.ref = 1 /\ e.valid /\ e.nlink = 0

\* The last reference to an inode without links.  If the sleep lock were not
\* free, iput() would sleep with itable.lock held.
IputLock(p) ==
    LET i == call[p].put IN
    /\ At(p, "put") /\ LastPut(itable[i])
    /\ IF itable[i].lock # None
       THEN Panic("sched locks")
       ELSE Step(p, [itable EXCEPT ![i].lock = p], [call[p] EXCEPT !.pc = "trunc"])

\* itrunc(), type = 0, iupdate(), valid = 0: from here on ialloc() finds it.
IputFree(p) ==
    LET i == call[p].put IN
    /\ At(p, "trunc")
    /\ Write(p, [inode EXCEPT ![i] = Free],
             [itable EXCEPT ![i].type = "free", ![i].valid = FALSE, ![i].lock = None],
             [call[p] EXCEPT !.pc = "drop"])

\* After the inode is freed iput() does not look again, although ialloc() may
\* have given it to others who are done with it already.
IputDrop(p) ==
    LET i == call[p].put IN
    /\ At(p, "drop") \/ (At(p, "put") /\ ~ LastPut(itable[i]))
    /\ itable' = [itable EXCEPT ![i].ref = @ - 1] /\ Become(p, PutDone(call[p]))
    /\ missed' = IF LastPut(itable[i]) THEN missed \cup {i} ELSE missed
    /\ UNCHANGED <<inode, ftable, ofile, cwd, orphans, panicked>>

\* iunlockput(ip), iunlockput(dp)
UnlockPutIp(p) ==
    LET c == call[p] IN
    /\ At(p, "unlockput_ip")
    /\ Step(p, [itable EXCEPT ![c.ip].lock = None], Last(c.ip))

UnlockPutDp(p) ==
    LET c == call[p] IN
    /\ At(p, "unlockput_dp")
    /\ Step(p, [itable EXCEPT ![c.dp].lock = None],
            Iput(Only(c.ip), c.dp, IF c.ip = None THEN "end" ELSE "link_undo"))

\* Between begin_op() and end_op().
InOp(p) == call[p].pc \notin {"idle", "dead", "closing", "exit"}

Returned(c) == CASE c.op = "exit" -> [Idle EXCEPT !.pc = "exit", !.op = "exit"]
                 [] c.op = "die"  -> Dead
                 [] OTHER         -> Idle

EndOp(p) == At(p, "end") /\ Step(p, itable, Returned(call[p]))

\* The last end_op() has committed: the disk is what is in "inode".
Committed == \A p \in Proc : ~ InOp(p)

-----------------------------------------------------------------------------
(* Directories, and namex()                                                *)

\* The inode that n names in d.
Dirlookup(d, n) == inode[d].ents[n]
Isdirempty(d)   == \A n \in Name : Dirlookup(d, n) = None

\* iget() of the root or idup() of the current directory.
Lookup(p, path, c) ==
    LET i == IF path.abs THEN ROOTINO ELSE cwd[p] IN
    Get(p, i, itable, [c EXCEPT !.pc = "walk", !.path = path.elems, !.at = i])

\* begin_op(), and namex() begins.
Call(p) ==
    /\ At(p, "idle")
    /\ \E c \in Calls[p] :
          Lookup(p, c.path, [Idle EXCEPT !.op = c.op, !.new = IF c.op = "link" THEN c.new ELSE None])

Second(c) == c.op = "link" /\ c.ip # None
\* nameiparent(), not namei().
Parent(c) == c.op \in {"create", "mkdir", "unlink"} \/ Second(c)

\* Where a call goes on when its path is found.
Found(c) == IF c.op = "mkdir" THEN "create" ELSE IF Second(c) THEN "link_dir" ELSE c.op

\* One turn of the loop: ilock(), dirlookup() or the end, iunlockput().
Namex(p) ==
    LET c    == call[p]
        i    == c.at
        j    == Dirlookup(i, Head(c.path))
        last == Len(c.path) = 1
    IN
    Ilock(p, "walk",
        IF Loaded(i).type = "dir" /\ Parent(c) /\ last
        THEN Step(p, Seen(i), [c EXCEPT !.pc = Found(c), !.dp = i, !.at = None])
        ELSE IF Loaded(i).type # "dir" \/ j = None
        THEN Step(p, Seen(i), Iput(Only(c.ip), i, IF c.ip = None THEN "end" ELSE "link_undo"))
        ELSE Get(p, j, Seen(i),
                 IF last THEN Iput([c EXCEPT !.at = None, !.ip = j, !.path = <<>>], i, Found(c))
                         ELSE Iput([c EXCEPT !.at = j, !.path = Tail(@)], i, "walk")))

-----------------------------------------------------------------------------
(* create(), for open(O_CREATE) and mkdir()                                *)

CreateLookup(p) ==
    LET c == call[p]
        j == Dirlookup(c.dp, Head(c.path))
    IN
    Ilock(p, "create",
        IF j # None
        THEN Get(p, j, Seen(c.dp),
                 Iput([c EXCEPT !.ip = j, !.dp = None, !.path = <<>>], c.dp, "exists"))
        ELSE Step(p, Locked(p, c.dp), [c EXCEPT !.pc = "ialloc"]))

CreateExists(p) ==
    LET c == call[p] IN
    Ilock(p, "exists",
        Step(p, Locked(p, c.ip),
             [Only(c.ip) EXCEPT !.pc = IF c.op = "create" /\ Loaded(c.ip).type = "file"
                                       THEN "file" ELSE "unlockput_ip"]))

NewType(op) == IF op = "mkdir" THEN "dir" ELSE "file"

\* ialloc(): which of the free inodes it takes makes no difference.
Ialloc(p) ==
    LET c    == call[p]
        free == {i \in Inum : inode[i].type = "free"}
    IN
    /\ At(p, "ialloc")
    /\ IF free = {}
       THEN Step(p, itable, [Idle EXCEPT !.pc = "unlockput_dp", !.dp = c.dp])
       ELSE \E i \in free :
               Write(p, [inode EXCEPT ![i] = [Free EXCEPT !.type = NewType(c.op)]], itable,
                     [c EXCEPT !.pc = "iget", !.inum = i])

IallocGet(p) ==
    LET c == call[p] IN
    /\ At(p, "iget")
    /\ Get(p, c.inum, itable, [c EXCEPT !.pc = "fill", !.ip = c.inum, !.inum = None])

\* Links of the directory d that mkdir() in it and unlink() of a directory change.
Up(tab, d, k) == [tab EXCEPT ![d].nlink = @ + k]
Down(tab, d)  == [tab EXCEPT ![d].nlink = @ - 1]

\* The new inode is locked and filled in, and entered into dp.  A dirlink()
\* fails when the disk is full.
Fill(p) ==
    LET c   == call[p]
        dir == c.op = "mkdir"
        up  == IF dir THEN 1 ELSE 0
        ents == IF dir THEN [NoEnts EXCEPT !["."] = c.ip, ![".."] = c.dp] ELSE NoEnts
        new  == [inode[c.ip] EXCEPT !.nlink = 1, !.ents = ents]
        tab  == Up(Locked(p, c.ip), c.ip, 1)
    IN
    Ilock(p, "fill",
        \/ Write(p, [inode EXCEPT ![c.ip] = new, ![c.dp].ents[Head(c.path)] = c.ip,
                                  ![c.dp].nlink = inode[c.dp].nlink + up],
                 [Up(tab, c.dp, up) EXCEPT ![c.dp].lock = None],
                 Iput(Only(c.ip), c.dp, IF dir THEN "unlockput_ip" ELSE "file"))
        \/ Write(p, [inode EXCEPT ![c.ip].ents = ents], Seen(c.ip),
                 Iput([Idle EXCEPT !.dp = c.dp], c.ip, "unlockput_dp")))

-----------------------------------------------------------------------------
(* open(), chdir(), link(), unlink()                                       *)

\* A directory is opened for reading only.
Open(p) ==
    LET c == call[p] IN
    Ilock(p, "open",
        \E rdonly \in BOOLEAN :
           Step(p, Locked(p, c.ip),
                [Only(c.ip) EXCEPT !.pc = IF Loaded(c.ip).type = "dir" /\ ~ rdonly
                                          THEN "unlockput_ip" ELSE "file"]))

Filealloc  == {f \in File : ftable[f].ref = 0}
Fdalloc(p) == {d \in Fd : ofile[p][d] = None}

\* Without a descriptor, fileclose() drops an inode if the entry bears the type
\* of its last user.
OpenFile(p) ==
    LET c     == call[p]
        stale == {f \in Filealloc : ftable[f].type = "FD_INODE"}
    IN
    /\ At(p, "file")
    /\ IF Filealloc = {} \/ Fdalloc(p) = {}
       THEN Step(p, itable, IF stale = {} THEN [c EXCEPT !.pc = "unlockput_ip"]
                            ELSE Iput(c, ftable[CHOOSE f \in stale : TRUE].ip, "unlockput_ip"))
       ELSE \E f \in Filealloc, d \in Fdalloc(p) :
            /\ ftable' = [ftable EXCEPT ![f] = [ref |-> 1, type |-> "FD_INODE", ip |-> c.ip]]
            /\ ofile' = [ofile EXCEPT ![p][d] = f]
            /\ itable' = [itable EXCEPT ![c.ip].lock = None]
            /\ Become(p, [Idle EXCEPT !.pc = "end"])
            /\ UNCHANGED <<inode, cwd, orphans, missed, panicked>>

\* p->cwd is set after end_op(): nobody else looks at it.
Chdir(p) ==
    LET c == call[p] IN
    Ilock(p, "chdir",
        /\ itable' = Seen(c.ip)
        /\ IF Loaded(c.ip).type = "dir"
           THEN /\ cwd' = [cwd EXCEPT ![p] = c.ip]
                /\ Become(p, Last(cwd[p]))
           ELSE Become(p, Last(c.ip)) /\ UNCHANGED cwd
        /\ UNCHANGED <<inode, ftable, ofile, orphans, missed, panicked>>)

Link(p) ==
    LET c == call[p] IN
    Ilock(p, "link",
        IF Loaded(c.ip).type = "dir"
        THEN Step(p, Seen(c.ip), Last(c.ip))
        ELSE Write(p, Up(inode, c.ip, 1), Up(Seen(c.ip), c.ip, 1), [c EXCEPT !.pc = "link_new"]))

LinkNew(p) ==
    /\ At(p, "link_new") /\ Lookup(p, call[p].new, [call[p] EXCEPT !.new = None])

\* dirlink(), which fails for a name that is there and when the disk is full.
LinkDir(p) ==
    LET c == call[p]
        d == c.dp
        n == Head(c.path)
        j == Dirlookup(d, n)
    IN
    Ilock(p, "link_dir",
        IF j # None
        THEN Get(p, j, Locked(p, d), Iput([Only(c.ip) EXCEPT !.dp = d], j, "unlockput_dp"))
        ELSE \/ Write(p, [inode EXCEPT ![d].ents[n] = c.ip], Seen(d),
                      Iput(Only(c.ip), d, "put_ip"))
             \/ Step(p, Seen(d), Iput(Only(c.ip), d, "link_undo")))

\* Mutant: the count is not taken back.
MutLinkUndo(p) ==
    LET c == call[p] IN
    Ilock(p, "link_undo",
        Step(p, Seen(c.ip), Last(c.ip)))

LinkUndo(p) ==
    LET c == call[p] IN
    Ilock(p, "link_undo",
        Write(p, Down(inode, c.ip), Down(Seen(c.ip), c.ip), Last(c.ip)))

\* Mutant: "." and ".." can be unlinked.
MutUnlink(p) ==
    LET c == call[p]
        j == Dirlookup(c.dp, Head(c.path))
    IN
    Ilock(p, "unlink",
        IF j = None
        THEN Step(p, Seen(c.dp), Last(c.dp))
        ELSE Get(p, j, Locked(p, c.dp), [c EXCEPT !.pc = "unlink_ip", !.ip = j]))

Unlink(p) ==
    LET c == call[p]
        n == Head(c.path)
        j == Dirlookup(c.dp, n)
    IN
    Ilock(p, "unlink",
        IF n \in {".", ".."} \/ j = None
        THEN Step(p, Seen(c.dp), Last(c.dp))
        ELSE Get(p, j, Locked(p, c.dp), [c EXCEPT !.pc = "unlink_ip", !.ip = j]))

\* The entry is erased.
UnlinkEntry(p) ==
    LET c   == call[p]
        dir == Loaded(c.ip).type = "dir"
        dn  == IF dir THEN 1 ELSE 0
    IN
    Ilock(p, "unlink_ip",
        IF dir /\ ~ Isdirempty(c.ip)
        THEN Step(p, Seen(c.ip), Iput([Idle EXCEPT !.dp = c.dp], c.ip, "unlockput_dp"))
        ELSE /\ dir => RemoveInUse \/ itable[c.ip].ref = 1
             /\ Write(p, [inode EXCEPT ![c.dp].ents[Head(c.path)] = None, ![c.dp].nlink = @ - dn],
                      [Locked(p, c.ip) EXCEPT ![c.dp].nlink = @ - dn, ![c.dp].lock = None],
                      Iput(Only(c.ip), c.dp, "unlinked")))

Unlinked(p) ==
    LET c == call[p] IN
    /\ At(p, "unlinked")
    /\ Write(p, Down(inode, c.ip), [Down(itable, c.ip) EXCEPT ![c.ip].lock = None],
             Last(c.ip))

-----------------------------------------------------------------------------
(* dup(), close(), fork(), exit()                                          *)

Dup(p) ==
    /\ At(p, "idle")
    /\ \E d, e \in Fd : /\ ofile[p][d] # None /\ ofile[p][e] = None
                        /\ ofile' = [ofile EXCEPT ![p][e] = ofile[p][d]]
                        /\ ftable' = [ftable EXCEPT ![ofile[p][d]].ref = @ + 1]
    /\ UNCHANGED <<inode, itable, cwd, call, orphans, missed, panicked>>

\* Mutant: fileclose() leaves the type of the entry.
MutClose(p, l) ==
    \E d \in Fd :
        LET f == ofile[p][d] IN
        /\ At(p, l) /\ f # None
        /\ ofile' = [ofile EXCEPT ![p][d] = None]
        /\ ftable' = [ftable EXCEPT ![f].ref = @ - 1]
        /\ IF ftable[f].ref > 1
           THEN UNCHANGED call
           ELSE Become(p, [Idle EXCEPT !.pc = "closing", !.op = l, !.put = ftable[f].ip])
        /\ UNCHANGED <<inode, itable, cwd, orphans, missed, panicked>>

\* close() of a descriptor and fileclose(); also in exit().
Close(p, l) ==
    \E d \in Fd :
        LET f == ofile[p][d] IN
        /\ At(p, l) /\ f # None
        /\ ofile' = [ofile EXCEPT ![p][d] = None]
        /\ IF ftable[f].ref > 1
           THEN ftable' = [ftable EXCEPT ![f].ref = @ - 1] /\ UNCHANGED call
           ELSE /\ ftable' = [ftable EXCEPT ![f].ref = 0, ![f].type = "FD_NONE"]
                /\ Become(p, [Idle EXCEPT !.pc = "closing", !.op = l, !.put = ftable[f].ip])
        /\ UNCHANGED <<inode, itable, cwd, orphans, missed, panicked>>

\* begin_op(); iput(ff.ip)
CloseOp(p) == At(p, "closing") /\ Step(p, itable, Iput(call[p], call[p].put, "end"))

\* fork(): the child, which does not run yet, has the files and the directory
\* of its parent.
Fork(p, q) ==
    /\ At(p, "idle") /\ At(q, "dead")
    /\ ofile' = [ofile EXCEPT ![q] = ofile[p]] /\ cwd' = [cwd EXCEPT ![q] = cwd[p]]
    /\ ftable' = [f \in File |-> [ftable[f] EXCEPT
                     !.ref = @ + Cardinality({d \in Fd : ofile[p][d] = f})]]
    /\ itable' = [itable EXCEPT ![cwd[p]].ref = @ + 1]
    /\ Become(q, Idle)
    /\ UNCHANGED <<inode, orphans, missed, panicked>>

Exit(p) ==
    /\ At(p, "idle") /\ p # Boot
    /\ Become(p, [Idle EXCEPT !.pc = "exit"])
    /\ UNCHANGED <<inode, itable, ftable, ofile, cwd, orphans, missed, panicked>>

\* begin_op(); iput(p->cwd)
ExitCwd(p) ==
    /\ At(p, "exit") /\ \A d \in Fd : ofile[p][d] = None
    /\ cwd' = [cwd EXCEPT ![p] = None]
    /\ Become(p, Iput([Idle EXCEPT !.op = "die"], cwd[p], "end"))
    /\ UNCHANGED <<inode, itable, ftable, ofile, orphans, missed, panicked>>

\* userinit() takes the root as its directory.
BootTable == [i \in Inum |-> IF i = ROOTINO THEN [NoEntry EXCEPT !.ref = 1] ELSE NoEntry]
BootFiles == [p \in Proc |-> [d \in Fd |-> None]]
BootCwd   == [p \in Proc |-> IF p = Boot THEN ROOTINO ELSE None]
BootCall  == [p \in Proc |-> IF p = Boot THEN Idle ELSE Dead]

\* The machine stops and boots.
Crash ==
    /\ Committed
    /\ itable' = BootTable /\ ftable' = [f \in File |-> NoFile]
    /\ ofile' = BootFiles /\ cwd' = BootCwd /\ call' = BootCall
    /\ orphans' = {i \in Inum : inode[i].type # "free" /\ inode[i].nlink = 0}
    /\ missed' = {}
    /\ UNCHANGED <<inode, panicked>>

-----------------------------------------------------------------------------
\* mkfs has made a root directory, which is its own parent.
Root == [type |-> "dir", nlink |-> 1,
         ents |-> [NoEnts EXCEPT !["."] = ROOTINO, ![".."] = ROOTINO]]
Init ==
    /\ inode = [i \in Inum |-> IF i = ROOTINO THEN Root ELSE Free]
    /\ itable = BootTable /\ ftable = [f \in File |-> NoFile]
    /\ ofile = BootFiles /\ cwd = BootCwd /\ call = BootCall
    /\ orphans = {} /\ missed = {} /\ panicked = "no"

CallStep(p) ==
    \/ IputLock(p) \/ IputFree(p) \/ IputDrop(p) \/ UnlockPutIp(p) \/ UnlockPutDp(p) \/ EndOp(p)
    \/ Namex(p) \/ CreateLookup(p) \/ CreateExists(p) \/ Ialloc(p) \/ IallocGet(p) \/ Fill(p)
    \/ Open(p) \/ OpenFile(p) \/ Chdir(p)
    \/ Link(p) \/ LinkNew(p) \/ LinkDir(p) \/ LinkUndo(p)
    \/ Unlink(p) \/ UnlinkEntry(p) \/ Unlinked(p)
    \/ CloseOp(p) \/ Close(p, "exit") \/ ExitCwd(p)

Next == /\ panicked = "no"
        /\ \/ \E p \in Proc : \/ CallStep(p) \/ Call(p) \/ Dup(p) \/ Close(p, "idle") \/ Exit(p)
                              \/ \E q \in Proc : Fork(p, q)
           \/ Crash

Spec == Init /\ [][Next]_vars
-----------------------------------------------------------------------------
(* Properties.                                                             *)

\* An inode has as many references as there are current directories, open
\* files, and pointers in the calls.
InodeRefs == \A i \in Inum :
    itable[i].ref = Cardinality({p \in Proc : cwd[p] = i})
                    + Cardinality({f \in File : ftable[f].ref > 0 /\ ftable[f].ip = i})
                    + Cardinality({pl \in Proc \X {"at", "ip", "dp", "put"} :
                                      call[pl[1]][pl[2]] = i})

\* An open file has as many as there are descriptors.
FileRefs == \A f \in File :
    ftable[f].ref = Cardinality({pd \in Proc \X Fd : ofile[pd[1]][pd[2]] = f})

\* fs.c, "ip->ref tracks the number of in-memory pointers to the entry", and
\* likewise f->ref: at every step, on every error path.
RefsExact == InodeRefs /\ FileRefs

\* The entries that name i in directories that have a name themselves.
Entries(i) ==
    {e \in Inum \X (Names \ {"."}) : inode[e[1]].nlink > 0 /\ inode[e[1]].ents[e[2]] = i}

\* On the disk, and after a crash at any time, the links of an inode are the
\* entries that name it, they name inodes that are allocated, and the
\* directories are a tree.
LinksExact == Committed => \A i \in Inum :
    /\ inode[i].nlink = Cardinality(Entries(i))
    /\ inode[i].type = "free" => inode[i].nlink = 0
    /\ inode[i].type = "dir" /\ inode[i].nlink > 0 /\ i # ROOTINO =>
          \E n \in Name : inode[inode[i].ents[".."]].ents[n] = i

\* No inode is lost but those that were unlinked and open at a crash.
Unused(i) == inode[i].type # "free" /\ inode[i].nlink = 0 /\ itable[i].ref = 0
             /\ \A p \in Proc : call[p].inum # i
Reclaimed == \A i \in Inum : Unused(i) => i \in orphans \cup missed

\* fs.c, "iput() frees if the reference and link counts have fallen to zero".
FreesUnused == \A i \in Inum : Unused(i) => i \in orphans

\* No assertion of fs.c, file.c and sysfile.c fails.
NoPanic == panicked = "no"

\* No processes wait for the inode locks of each other.
NoWaitCycle == \A S \in (SUBSET Proc) \ {{}} : \E p \in S :
    Wanted(p) = None \/ itable[Wanted(p)].lock \notin S
=============================================================================
