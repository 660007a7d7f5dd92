-------------------------------- MODULE Ramfs --------------------------------
(***************************************************************************)
(* The vnode cache of kernel/fs/vnode.c over the file system of            *)
(* kernel/fs/ramfs/ramfs.c, as operators on a state s, a record of         *)
(*                                                                         *)
(*   rfs_inodes  the inode table; a directory's entries are an array       *)
(*   vn          the vnode_t objects; a freed one keeps its contents until *)
(*               it is allocated again (slab_obj_free does not wipe it)    *)
(*   free        the free vnode_t objects, as the slab hands them out:     *)
(*               the one freed last first                                  *)
(*   asserts     TRUE while no KASSERT has failed                          *)
(*                                                                         *)
(* Nothing in ramfs blocks, so an operator is a whole call.  Sizes and     *)
(* offsets of directories are in entries: an offset inside an entry, which *)
(* ramfs_readdir refuses by a KASSERT, is left out.                        *)
(***************************************************************************)
EXTENDS Integers, Sequences, SequencesExt, FiniteSetsExt

CONSTANTS
    Names,             \* names of files, "." and ".." not among them
    LongNames,         \* those with NAME_LEN characters or more
    TooLongNames,      \* those with more than NAME_LEN characters
    Cut,               \* the name a long name is stored under
    RAMFS_MAX_FILES,
    RAMFS_MAX_DIRENT,
    PAGE_SIZE,         \* the size of a file's memory
    NVnodes            \* how many vnode_t objects a slab has

ASSUME NamesAssumption ==
    TooLongNames \subseteq LongNames /\ LongNames \subseteq Names /\ Cut \in Names \ LongNames
ASSUME SpaceAssumption ==
    /\ {RAMFS_MAX_FILES, PAGE_SIZE, NVnodes} \subseteq Nat \ {0}
    /\ RAMFS_MAX_DIRENT \in Nat /\ RAMFS_MAX_DIRENT >= 2
    /\ NVnodes >= RAMFS_MAX_FILES      \* vget always finds an object

DATA == "data"
DIR == "dir"
CHR == "chr"
Inos == 0 .. RAMFS_MAX_FILES - 1
Slots == 1 .. NVnodes
Null == 0                              \* the null pointer
RootIno == 0
AllNames == Names \cup {".", ".."}

NoEntry == [rd_name |-> "", rd_ino |-> RootIno]
Entry(name, ino) == [rd_name |-> name, rd_ino |-> ino]
Entries == [rd_name : AllNames \cup {""}, rd_ino : Inos]
NoInode == [rf_mode |-> "none", rf_linkcount |-> 0, rf_size |-> 0, ents |-> << >>]
Inodes == [rf_mode : {DATA, DIR, CHR, "none"}, rf_linkcount : Nat, rf_size : Nat, ents : Seq(Entries)]
Vnodes == [vn_vno : Inos, vn_refcount : Nat, vn_mode : {DATA, DIR, CHR, "none"}, vn_len : Nat]
FsStates ==
    [rfs_inodes : [Inos -> Inodes], vn : [Slots -> Vnodes], free : Seq(Slots), asserts : BOOLEAN]

\* What a call gives: the state after it, its result and the vnode it found.
Returns(s, err, v) == [s |-> s, err |-> err, vn |-> v]
Fails(s) == [s EXCEPT !.asserts = FALSE]

InUse(s) == Slots \ ToSet(s.free)
InCore(s, ino) == {v \in InUse(s) : s.vn[v].vn_vno = ino}
Exists(s, ino) == s.rfs_inodes[ino].rf_mode # "none"
VNODE_TO_RAMFSINODE(s, v) == s.rfs_inodes[s.vn[v].vn_vno]
IsDir(s, v) == s.vn[v].vn_mode = DIR
-----------------------------------------------------------------------------
(***************************************************************************)
(* vnode.c.  The pages of a vnode (vn_nrespages) are none: ramfs has no    *)
(* fillpage.                                                               *)
(***************************************************************************)
vref(s, v) ==
    [s EXCEPT !.asserts = @ /\ s.vn[v].vn_refcount > 0, !.vn[v].vn_refcount = @ + 1]

ramfs_read_vnode(s, v, ino) ==
    [s EXCEPT !.asserts = @ /\ Exists(s, ino),
              !.rfs_inodes[ino].rf_linkcount = @ + 1,
              !.vn[v] = [vn_vno |-> ino, vn_refcount |-> 1,
                         vn_mode |-> s.rfs_inodes[ino].rf_mode,
                         vn_len |-> s.rfs_inodes[ino].rf_size]]

\* Mutant: a vnode in core is not looked for.
vget_always_new(s, ino) ==
    Returns(ramfs_read_vnode([s EXCEPT !.free = Tail(@)], Head(s.free), ino), "ok", Head(s.free))

vget(s, ino) ==
    IF InCore(s, ino) = {}
    THEN Returns(ramfs_read_vnode([s EXCEPT !.free = Tail(@)], Head(s.free), ino), "ok", Head(s.free))
    ELSE Returns(vref(s, Min(InCore(s, ino))), "ok", Min(InCore(s, ino)))

ramfs_delete_vnode(s, v) ==
    LET ino == s.vn[v].vn_vno
        n   == s.rfs_inodes[ino].rf_linkcount - 1
    IN  [s EXCEPT !.rfs_inodes[ino] = IF n = 0 THEN NoInode ELSE [@ EXCEPT !.rf_linkcount = n]]

\* A vput of a vnode_t that is free fails the first KASSERT.
vput(s, v) ==
    IF v = Null \/ s.vn[v].vn_refcount = 0 THEN Fails(s)
    ELSE LET d == [s EXCEPT !.vn[v].vn_refcount = @ - 1]
         IN  IF d.vn[v].vn_refcount > 0 THEN d
             ELSE [ramfs_delete_vnode(d, v) EXCEPT !.free = <<v>> \o @]

VputReturns(s, v, err) == Returns(vput(s, v), err, Null)
-----------------------------------------------------------------------------
(***************************************************************************)
(* ramfs.c.  A name is stored cut to NAME_LEN - 1 characters.              *)
(***************************************************************************)
Stored(name) == IF name \in LongNames THEN Cut ELSE name

Matches(s, v, name) ==
    {i \in DOMAIN VNODE_TO_RAMFSINODE(s, v).ents : VNODE_TO_RAMFSINODE(s, v).ents[i].rd_name = name}

HasRoom(s, v) == Matches(s, v, "") # {}
FreeInos(s) == {ino \in Inos : ~ Exists(s, ino)}

ramfs_alloc_inode(s, ino, mode, ents) ==
    [s EXCEPT !.rfs_inodes[ino] = [rf_mode |-> mode, rf_linkcount |-> 1,
                                   rf_size |-> IF mode = DIR THEN 2 ELSE 0, ents |-> ents]]

\* "." and "..", the rest of the page zeroed.
DirEntries(ino, parent) ==
    [i \in 1 .. RAMFS_MAX_DIRENT |->
        CASE i = 1 -> Entry(".", ino) [] i = 2 -> Entry("..", parent) [] OTHER -> NoEntry]

ramfs_mount ==
    LET empty == [rfs_inodes |-> [ino \in Inos |-> NoInode],
                  vn |-> [v \in Slots |-> [vn_vno |-> RootIno, vn_refcount |-> 0,
                                           vn_mode |-> "none", vn_len |-> 0]],
                  free |-> [v \in Slots |-> v],
                  asserts |-> TRUE]
    IN  vget(ramfs_alloc_inode(empty, RootIno, DIR, DirEntries(RootIno, RootIno)), RootIno).s

ramfs_lookup(s, v, name) ==
    LET hits == Matches(s, v, name)
    IN  IF ~ Exists(s, s.vn[v].vn_vno) THEN Returns(Fails(s), "ENOENT", Null)
        ELSE IF hits = {} THEN Returns(s, "ENOENT", Null)
        ELSE vget(s, VNODE_TO_RAMFSINODE(s, v).ents[Min(hits)].rd_ino)

AddEntry(s, v, name, ino) ==
    [s EXCEPT !.rfs_inodes[s.vn[v].vn_vno].ents[Min(Matches(s, v, ""))] = Entry(Stored(name), ino),
              !.rfs_inodes[s.vn[v].vn_vno].rf_size = @ + 1]

\* Only the name is cleared: the free entry keeps its inode number.
RemoveEntry(s, v, name) ==
    [s EXCEPT !.rfs_inodes[s.vn[v].vn_vno].ents[Min(Matches(s, v, name))].rd_name = "",
              !.rfs_inodes[s.vn[v].vn_vno].rf_size = @ - 1]

\* KASSERT(0 != ramfs_lookup(dir, name, name_len, &vn))
NotThere(s, v, name) == [s EXCEPT !.asserts = @ /\ Matches(s, v, name) = {}]

\* ramfs_create, ramfs_mknod and ramfs_mkdir: room in the directory first,
\* then an inode, then the entry.
ramfs_new(s, v, name, mode) ==
    LET n   == NotThere(s, v, name)
        ino == Min(FreeInos(s))
        ents == CASE mode = DATA -> << >> [] mode = CHR -> << >>
                  [] mode = DIR -> DirEntries(ino, s.vn[v].vn_vno)
    IN  IF ~ HasRoom(s, v) \/ FreeInos(s) = {} THEN Returns(n, "ENOSPC", Null)
        ELSE Returns(AddEntry(ramfs_alloc_inode(n, ino, mode, ents), v, name, ino), "ok", Null)

GetMade(made, ino) == IF made.err # "ok" THEN made ELSE vget(made.s, ino)

ramfs_create(s, v, name) == GetMade(ramfs_new(s, v, name, DATA), Min(FreeInos(s)))

ramfs_mknod(s, v, name) == ramfs_new(s, v, name, CHR)
ramfs_mkdir(s, v, name) == ramfs_new(s, v, name, DIR)

\* Mutant: the link count stays.
ramfs_link_uncounted(s, old, v, name) ==
    LET n == NotThere(s, v, name)
    IN  IF ~ HasRoom(s, v) THEN Returns(n, "ENOSPC", Null)
        ELSE Returns(AddEntry(n, v, name, s.vn[old].vn_vno), "ok", Null)

ramfs_link(s, old, v, name) ==
    LET n == NotThere(s, v, name)
    IN  IF ~ HasRoom(s, v) THEN Returns(n, "ENOSPC", Null)
        ELSE Returns([AddEntry(n, v, name, s.vn[old].vn_vno)
                         EXCEPT !.rfs_inodes[s.vn[old].vn_vno].rf_linkcount = @ + 1],
                     "ok", Null)

\* The entry goes, the link count drops, the vnode of the lookup is put.
Unlinked(s, v, name, child) ==
    vput([RemoveEntry(s, v, name) EXCEPT !.rfs_inodes[s.vn[child].vn_vno].rf_linkcount = @ - 1], child)

UnlinkFound(l, v, name) ==
    IF l.err # "ok" THEN Returns(Fails(l.s), l.err, Null)
    ELSE IF IsDir(l.s, l.vn) THEN Returns(Fails(l.s), "ok", Null)
    ELSE Returns(Unlinked(l.s, v, name, l.vn), "ok", Null)

ramfs_unlink(s, v, name) == UnlinkFound(ramfs_lookup(s, v, name), v, name)

IsEmptyDir(s, v) ==
    \A i \in DOMAIN VNODE_TO_RAMFSINODE(s, v).ents :
        VNODE_TO_RAMFSINODE(s, v).ents[i].rd_name \in {".", "..", ""}

RmdirFound(l, v, name) ==
    IF l.err # "ok" THEN l
    ELSE IF ~ IsDir(l.s, l.vn) THEN VputReturns(l.s, l.vn, "ENOTDIR")
    ELSE IF ~ IsEmptyDir(l.s, l.vn) THEN VputReturns(l.s, l.vn, "ENOTEMPTY")
    ELSE Returns(Unlinked(l.s, v, name, l.vn), "ok", Null)

ramfs_rmdir(s, v, name) ==
    IF name \in {".", ".."} THEN Returns(Fails(s), "ok", Null)
    ELSE RmdirFound(ramfs_lookup(s, v, name), v, name)

\* The number of bytes moved, from offset pos of a file of that size.
ramfs_read(size, pos, count) == Max({0, Min({count, size - pos})})

\* Past the end of the file's page the count is negative, and memcpy gets it.
ramfs_write_count(pos, count) == Min({count, PAGE_SIZE - pos})

ramfs_write(s, v, pos, count) ==
    LET n   == ramfs_write_count(pos, count)
        len == Max({s.vn[v].vn_len, pos + n})
        ino == s.vn[v].vn_vno
    IN  [s EXCEPT !.asserts = @ /\ n >= 0 /\ Exists(s, ino)
                                /\ s.vn[v].vn_len = s.rfs_inodes[ino].rf_size,
                  !.vn[v].vn_len = len,
                  !.rfs_inodes[ino].rf_size = len]

\* How far the position moves: over the empty entries, past the next one.
ramfs_readdir(s, v, pos) ==
    LET ents == VNODE_TO_RAMFSINODE(s, v).ents
        next == {i \in DOMAIN ents : i > pos /\ ents[i].rd_name # ""}
    IN  IF next = {} THEN 0 ELSE Min(next) - pos
=============================================================================
