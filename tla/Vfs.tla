--------------------------------- MODULE Vfs ---------------------------------
(***************************************************************************)
(* The file system calls of one process: kernel/fs/vfs_syscall.c, open.c,  *)
(* file.c and namev.c, over the vnodes and the ramfs of module Ramfs.  The *)
(* state adds to Ramfs's                                                   *)
(*                                                                         *)
(*   file     the file_t objects a descriptor names or a call is filling   *)
(*            in; one with f_refcount 0 is free                            *)
(*   p_files  the process's descriptors                                    *)
(*   p_cwd    its working directory                                        *)
(*                                                                         *)
(* A path is its components and whether it starts with a slash; trailing   *)
(* and repeated slashes are left out.  A call is one step: nothing in it   *)
(* blocks on ramfs.  After a failed KASSERT the kernel has stopped.        *)
(***************************************************************************)
EXTENDS Ramfs

CONSTANTS
    Paths,       \* the paths calls are made with
    Counts,      \* byte counts of reads and writes
    Offsets,     \* offsets of lseek
    NFILES,      \* descriptors of a process
    MaxCalls     \* bound: calls that change the state

ASSUME FilesAssumption == {NFILES, MaxCalls} \subseteq Nat \ {0}

VARIABLES
    vfs,         \* the state
    calls        \* how many calls have changed it

vars == <<vfs, calls>>

Fds == 0 .. NFILES - 1
Files == 1 .. NFILES
Modes == SUBSET {"FMODE_READ", "FMODE_WRITE", "FMODE_APPEND"}
FileTypes == [f_refcount : Nat, f_mode : Modes, f_pos : Nat, f_vnode : Slots \cup {Null}]
NoFile == [f_refcount |-> 0, f_mode |-> {}, f_pos |-> 0, f_vnode |-> Null]
vfs_root_vn == 1
-----------------------------------------------------------------------------
(***************************************************************************)
(* file.c                                                                  *)
(***************************************************************************)
fref(s, f) ==
    [s EXCEPT !.asserts = @ /\ (s.file[f].f_refcount # 0 => s.file[f].f_vnode # Null),
              !.file[f].f_refcount = @ + 1]

FreeFiles(s) == {f \in Files : s.file[f].f_refcount = 0}

\* fget(-1): a fresh, zeroed file_t.
fget_new(s, f) == fref([s EXCEPT !.file[f] = NoFile], f)

fput(s, f) ==
    IF f = Null \/ s.file[f].f_refcount = 0 THEN Fails(s)
    ELSE IF s.file[f].f_refcount = 1
         THEN LET freed == [s EXCEPT !.file[f] = NoFile]
              IN  IF s.file[f].f_vnode = Null THEN freed ELSE vput(freed, s.file[f].f_vnode)
    ELSE [s EXCEPT !.file[f].f_refcount = @ - 1,
                   !.asserts = @ /\ s.file[f].f_vnode # Null]

VnodeOf(s, f) == s.file[f].f_vnode
-----------------------------------------------------------------------------
(***************************************************************************)
(* namev.c                                                                 *)
(***************************************************************************)
lookup(s, dir, name) ==
    IF ~ IsDir(s, dir) THEN Returns(s, "ENOTDIR", Null)
    ELSE IF name = "" THEN Returns(vref(s, dir), "ok", dir)
    ELSE ramfs_lookup(s, dir, name)

Basename(path) == IF path.comps = << >> THEN "" ELSE Last(path.comps)
IsEmptyPath(path) == path.comps = << >> /\ ~ path.abs

\* One component: the directory is put, what it holds is the next one.  A
\* component that is no directory keeps the reference lookup took.
StepTo(s, l) ==
    IF l.err # "ok" THEN Returns(s, l.err, Null)
    ELSE IF ~ IsDir(s, l.vn) THEN Returns(s, "ENOTDIR", Null)
    ELSE Returns(s, "ok", l.vn)

StepFound(dir, l) == StepTo(vput(l.s, dir), l)

dir_namev_step(r, name) ==
    IF r.err # "ok" THEN r
    ELSE IF ~ IsDir(r.s, r.vn) THEN VputReturns(r.s, r.vn, "ENOTDIR")
    ELSE StepFound(r.vn, lookup(r.s, r.vn, name))

Referenced(s, dir) == Returns(vget(s, s.vn[dir].vn_vno).s, "ok", dir)

dir_namev(s, path) ==
    FoldLeft(dir_namev_step,
             Referenced(s, IF path.abs THEN vfs_root_vn ELSE s.p_cwd),
             IF path.comps = << >> THEN << >> ELSE Front(path.comps))

\* The directory d of a path, and what lookup finds in it.
Found(d, path) == lookup(d.s, d.vn, Basename(path))

PutDir(r, dir) == Returns(vput(r.s, dir), r.err, r.vn)

OpenFound(d, l, path, creat) ==
    PutDir(IF l.err = "ok" \/ ~ creat THEN l ELSE ramfs_create(l.s, d.vn, Basename(path)), d.vn)

OpenIn(d, path, creat) ==
    IF d.err # "ok" THEN d
    ELSE IF ~ IsDir(d.s, d.vn) THEN VputReturns(d.s, d.vn, "ENOTDIR")
    ELSE OpenFound(d, Found(d, path), path, creat)

open_namev(s, path, creat) == OpenIn(dir_namev(s, path), path, creat)
-----------------------------------------------------------------------------
(***************************************************************************)
(* vfs_syscall.c: calls that name a path.  An operator In goes on from the *)
(* directory d, an operator Found from what lookup found in it.            *)
(***************************************************************************)
\* The result of the vnode operation r, after which dir is put.
Finished(r, dir) == VputReturns(r.s, dir, r.err)

\* The lookup overwrites the directory: when the path exists, it stays
\* referenced.
MknodFound(d, l, path) ==
    IF l.err = "ok" THEN VputReturns(l.s, l.vn, "EEXIST")
    ELSE IF l.err = "ENOENT" THEN Finished(ramfs_mknod(l.s, d.vn, Basename(path)), d.vn)
    ELSE Returns(l.s, l.err, Null)

MknodIn(d, path) == IF d.err # "ok" THEN d ELSE MknodFound(d, Found(d, path), path)

do_mknod(s, path) ==
    IF IsEmptyPath(path) THEN Returns(s, "EINVAL", Null) ELSE MknodIn(dir_namev(s, path), path)

MkdirFound(d, l, path) ==
    IF l.err = "ok" THEN VputReturns(vput(l.s, d.vn), l.vn, "EEXIST")
    ELSE IF l.err = "ENOENT" THEN Finished(ramfs_mkdir(l.s, d.vn, Basename(path)), d.vn)
    ELSE Returns(l.s, l.err, Null)

MkdirIn(d, path) ==
    IF d.err # "ok" THEN d
    ELSE IF Basename(path) \in TooLongNames THEN VputReturns(d.s, d.vn, "ENAMETOOLONG")
    ELSE MkdirFound(d, Found(d, path), path)

do_mkdir(s, path) == MkdirIn(dir_namev(s, path), path)

\* The directory found is never put.
RmdirFoundAt(d, l, path) ==
    IF l.err # "ok" THEN VputReturns(l.s, d.vn, l.err)
    ELSE Finished(ramfs_rmdir(l.s, d.vn, Basename(path)), d.vn)

RmdirIn(d, path) ==
    IF d.err # "ok" THEN d
    ELSE IF Basename(path) = "." THEN VputReturns(d.s, d.vn, "EINVAL")
    ELSE IF Basename(path) = ".." THEN VputReturns(d.s, d.vn, "ENOTEMPTY")
    ELSE IF Basename(path) \in TooLongNames THEN VputReturns(d.s, d.vn, "ENAMETOOLONG")
    ELSE RmdirFoundAt(d, Found(d, path), path)

do_rmdir(s, path) == RmdirIn(dir_namev(s, path), path)

\* Both vnodes are put after the operation.
PutBoth(r, child, dir) == VputReturns(vput(r.s, child), dir, r.err)

\* Mutant: directories are unlinked too.
UnlinkFoundAt_any(d, l, path) ==
    IF l.err # "ok" THEN VputReturns(l.s, d.vn, l.err)
    ELSE VputReturns(vput(Unlinked(vref(l.s, l.vn), d.vn, Basename(path), l.vn), l.vn), d.vn, "ok")

UnlinkFoundAt(d, l, path) ==
    IF l.err # "ok" THEN VputReturns(l.s, d.vn, l.err)
    ELSE IF IsDir(l.s, l.vn) THEN VputReturns(vput(l.s, d.vn), l.vn, "EISDIR")
    ELSE PutBoth(ramfs_unlink(l.s, d.vn, Basename(path)), l.vn, d.vn)

\* When the directory is not found, its null vnode is put.
UnlinkIn(d, path) ==
    IF d.err # "ok" THEN VputReturns(d.s, Null, d.err) ELSE UnlinkFoundAt(d, Found(d, path), path)

do_unlink(s, path) == UnlinkIn(dir_namev(s, path), path)

\* The directory is put before it is used; child is that directory when the
\* name is new, and the file of that name otherwise.
LinkTo(old, l, child, to) ==
    IF ~ IsDir(l.s, child) THEN VputReturns(l.s, child, "EISDIR")
    ELSE IF l.err = "ok" THEN VputReturns(vput(l.s, child), old, "EEXIST")
    ELSE IF l.err = "ENOENT" THEN Finished(ramfs_link(l.s, old, child, Basename(to)), old)
    ELSE VputReturns(l.s, old, l.err)

LinkFound(old, d, l, to) == LinkTo(old, l, IF l.err = "ok" THEN l.vn ELSE d.vn, to)

LinkIn(old, d, to) ==
    IF d.err # "ok" THEN VputReturns(d.s, old, d.err)
    ELSE LinkFound(old, d, lookup(vput(d.s, d.vn), d.vn, Basename(to)), to)

LinkOpened(o, to) == IF o.err # "ok" THEN o ELSE LinkIn(o.vn, dir_namev(o.s, to), to)

do_link(s, from, to) == LinkOpened(open_namev(s, from, FALSE), to)

\* "/" and "." are the paths of one character: names have more.
IsOneChar(path) == path.comps = << >> \/ (~ path.abs /\ path.comps = <<".">>)

do_rename(s, old, new) ==
    IF IsOneChar(old) /\ IsOneChar(new) THEN Returns(s, "EINVAL", Null)
    ELSE do_unlink(do_link(s, old, new).s, old)

ChdirOpened(o) ==
    IF o.err # "ok" THEN o
    ELSE IF ~ IsDir(o.s, o.vn) THEN VputReturns(o.s, o.vn, "ENOTDIR")
    ELSE Returns([vput(o.s, o.s.p_cwd) EXCEPT !.p_cwd = o.vn], "ok", Null)

do_chdir(s, path) ==
    IF IsEmptyPath(path) THEN Returns(s, "EINVAL", Null) ELSE ChdirOpened(open_namev(s, path, FALSE))

StatFound(l) == IF l.err = "ok" THEN VputReturns(l.s, l.vn, "ok") ELSE Returns(l.s, l.err, Null)

\* The directory is put before the lookup in it.
StatIn(d, path) ==
    IF d.err # "ok" THEN d ELSE StatFound(lookup(vput(d.s, d.vn), d.vn, Basename(path)))

do_stat(s, path) ==
    IF IsEmptyPath(path) THEN Returns(s, "EINVAL", Null) ELSE StatIn(dir_namev(s, path), path)
-----------------------------------------------------------------------------
(***************************************************************************)
(* open.c.  opt is O_CREAT or O_APPEND alone, or "none": no flag, O_TRUNC, *)
(* which nothing looks at, and every pair of flags, which the switch drops.*)
(***************************************************************************)
FreeFds(s) == {fd \in Fds : s.p_files[fd] = Null}
get_empty_fd(s) == Min(FreeFds(s))

FileMode(acc, opt) ==
    (IF opt = "O_APPEND" THEN {"FMODE_APPEND"} ELSE {})
       \cup (CASE acc = "O_RDONLY" -> {"FMODE_READ"}
               [] acc = "O_WRONLY" -> {"FMODE_WRITE"}
               [] acc = "O_RDWR" -> {"FMODE_READ", "FMODE_WRITE"})

\* Opened for writing only, the file is unlinked and created again; f_vnode
\* stays what it was.  Before that, an error drops the file_t on the floor.
Installed(s, f, acc, opt) ==
    [s EXCEPT !.p_files[get_empty_fd(s)] = f, !.file[f].f_mode = FileMode(acc, opt)]

OpenRecreated(c, f, acc, opt) ==
    IF c.err # "ok" THEN fput(c.s, Null) ELSE Installed(c.s, f, acc, opt)

OpenUnlinked(u, f, path, acc, opt) ==
    IF u.err # "ok" THEN fput(u.s, Null)
    ELSE OpenRecreated(open_namev(u.s, path, TRUE), f, acc, opt)

OpenNamed(s, f, path, acc, opt) ==
    IF IsDir(s, VnodeOf(s, f)) /\ acc # "O_RDONLY" THEN vput(s, VnodeOf(s, f))
    ELSE IF acc = "O_WRONLY" /\ opt # "O_APPEND"
         THEN OpenUnlinked(do_unlink(vput(s, VnodeOf(s, f)), path), f, path, acc, opt)
    ELSE Installed(s, f, acc, opt)

OpenOpened(o, f, path, acc, opt) ==
    IF o.err # "ok" THEN o.s
    ELSE OpenNamed([o.s EXCEPT !.file[f].f_vnode = o.vn], f, path, acc, opt)

OpenFile(s, f, path, acc, opt) ==
    OpenOpened(open_namev(fget_new(s, f), path, opt = "O_CREAT"), f, path, acc, opt)

do_open(s, path, acc, opt) ==
    IF FreeFds(s) = {} THEN s ELSE OpenFile(s, Min(FreeFiles(s)), path, acc, opt)
-----------------------------------------------------------------------------
(***************************************************************************)
(* vfs_syscall.c: calls that name a descriptor.                            *)
(***************************************************************************)
\* What a device's driver answers: some of the bytes, or none.
DeviceMoves(count) == 0 .. count

FileMoves(s, v, pos, count) ==
    IF s.vn[v].vn_mode = CHR THEN DeviceMoves(count)
    ELSE {ramfs_read(VNODE_TO_RAMFSINODE(s, v).rf_size, pos, count)}

\* At the end of the file the reference stays.
do_read(s, fd, count) ==
    LET f == s.p_files[fd]
        g == fref(s, f)
    IN  IF f = Null THEN {s}
        ELSE IF "FMODE_READ" \notin s.file[f].f_mode \/ IsDir(s, VnodeOf(s, f)) THEN {fput(g, f)}
        ELSE {IF n = 0 THEN g ELSE fput([g EXCEPT !.file[f].f_pos = @ + n], f) :
                n \in FileMoves(s, VnodeOf(s, f), s.file[f].f_pos, count)}

\* do_lseek(fd, 0, SEEK_END) moves the position of a file to append to.
do_write(s, fd, count) ==
    LET f == s.p_files[fd]
        g == fref(s, f)
        v == VnodeOf(s, f)
        pos == IF "FMODE_APPEND" \in s.file[f].f_mode THEN s.vn[v].vn_len ELSE s.file[f].f_pos
        n == ramfs_write_count(pos, count)
    IN  IF f = Null THEN {s}
        ELSE IF "FMODE_WRITE" \notin s.file[f].f_mode THEN {fput(g, f)}
        ELSE IF IsDir(s, v) THEN {g}
        ELSE IF s.vn[v].vn_mode = CHR
             THEN {fput([g EXCEPT !.file[f].f_pos = pos + m], f) : m \in DeviceMoves(count)}
        ELSE {fput([ramfs_write(g, v, pos, count) EXCEPT !.file[f].f_pos = pos + Max({n, 0})], f)}

do_close(s, fd) ==
    LET f == s.p_files[fd]
    IN  IF f = Null THEN s ELSE fput(fput([fref(s, f) EXCEPT !.p_files[fd] = Null], f), f)

\* A directory, or a full table, keeps the reference.
do_dup(s, fd) ==
    LET f == s.p_files[fd]
    IN  IF f = Null THEN s
        ELSE IF IsDir(s, VnodeOf(s, f)) \/ FreeFds(s) = {} THEN fref(s, f)
        ELSE [fref(s, f) EXCEPT !.p_files[get_empty_fd(s)] = f]

do_dup2(s, ofd, nfd) ==
    LET f == s.p_files[ofd]
    IN  IF f = Null THEN s
        ELSE IF ofd = nfd THEN fput(fref(s, f), f)
        ELSE IF IsDir(s, VnodeOf(s, f)) THEN fref(s, f)
        ELSE [do_close(fref(s, f), nfd) EXCEPT !.p_files[nfd] = f]

\* At the end of the directory the reference stays.
do_getdent(s, fd) ==
    LET f == s.p_files[fd]
        n == ramfs_readdir(s, VnodeOf(s, f), s.file[f].f_pos)
    IN  IF f = Null THEN s
        ELSE IF ~ IsDir(s, VnodeOf(s, f)) THEN fput(fref(s, f), f)
        ELSE IF n = 0 THEN fref(s, f)
        ELSE fput([fref(s, f) EXCEPT !.file[f].f_pos = @ + n], f)

\* A negative position becomes 0; a whence that is none keeps the reference.
do_lseek(s, fd, offset, whence) ==
    LET f == s.p_files[fd]
        base == CASE whence = "SEEK_SET" -> 0
                  [] whence = "SEEK_CUR" -> s.file[f].f_pos
                  [] whence = "SEEK_END" -> s.vn[VnodeOf(s, f)].vn_len
    IN  IF f = Null THEN s
        ELSE IF whence = "other" THEN fref(s, f)
        ELSE fput([fref(s, f) EXCEPT !.file[f].f_pos = Max({0, base + offset})], f)
-----------------------------------------------------------------------------
\* The file system is mounted, and its root is the working directory.
Init ==
    LET fs == vref(ramfs_mount, vfs_root_vn)
    IN  /\ vfs = [rfs_inodes |-> fs.rfs_inodes, vn |-> fs.vn, free |-> fs.free, asserts |-> fs.asserts,
                  file |-> [f \in Files |-> NoFile],
                  p_files |-> [fd \in Fds |-> Null],
                  p_cwd |-> vfs_root_vn]
        /\ calls = 0

\* A file_t whose references leaked is of no more use once no descriptor
\* names it: its vnode stays referenced.
ForgetLeaked(s) ==
    [s EXCEPT !.file = [f \in Files |-> IF \E fd \in Fds : s.p_files[fd] = f THEN @[f] ELSE NoFile]]

\* A call that leaves s; none is made once a KASSERT has failed.
Call(s) ==
    /\ vfs.asserts
    /\ calls < MaxCalls
    /\ vfs' = ForgetLeaked(s)
    /\ calls' = IF vfs' = vfs THEN calls ELSE calls + 1

Read(fd, count) == \E s \in do_read(vfs, fd, count) : Call(s)
Write(fd, count) == \E s \in do_write(vfs, fd, count) : Call(s)

Next ==
    \/ \E path \in Paths, acc \in {"O_RDONLY", "O_WRONLY", "O_RDWR"},
          opt \in {"none", "O_CREAT", "O_APPEND"} :
          Call(do_open(vfs, path, acc, opt))
    \/ \E fd \in Fds, count \in Counts : Read(fd, count)
    \/ \E fd \in Fds, count \in Counts : Write(fd, count)
    \/ \E fd \in Fds : Call(do_close(vfs, fd))
    \/ \E fd \in Fds : Call(do_dup(vfs, fd))
    \/ \E ofd \in Fds, nfd \in Fds : Call(do_dup2(vfs, ofd, nfd))
    \/ \E fd \in Fds : Call(do_getdent(vfs, fd))
    \/ \E fd \in Fds, offset \in Offsets, whence \in {"SEEK_SET", "SEEK_CUR", "SEEK_END", "other"} :
          Call(do_lseek(vfs, fd, offset, whence))
    \/ \E path \in Paths : Call(do_mknod(vfs, path).s)
    \/ \E path \in Paths : Call(do_mkdir(vfs, path).s)
    \/ \E path \in Paths : Call(do_rmdir(vfs, path).s)
    \/ \E path \in Paths : Call(do_unlink(vfs, path).s)
    \/ \E from \in Paths, to \in Paths : Call(do_link(vfs, from, to).s)
    \/ \E old \in Paths, new \in Paths : Call(do_rename(vfs, old, new).s)
    \/ \E path \in Paths : Call(do_chdir(vfs, path).s)
    \/ \E path \in Paths : Call(do_stat(vfs, path).s)

Spec == Init /\ [][Next]_vars
-----------------------------------------------------------------------------
\* Every field has its type: positions and link counts never get negative.
TypeOK ==
    /\ vfs.rfs_inodes \in [Inos -> Inodes]
    /\ vfs.vn \in [Slots -> Vnodes]
    /\ vfs.free \in Seq(Slots)
    /\ vfs.asserts \in BOOLEAN
    /\ vfs.file \in [Files -> FileTypes]
    /\ vfs.p_files \in [Fds -> Files \cup {Null}]
    /\ vfs.p_cwd \in Slots

\* The entries that name an inode, "." and ".." aside.
Links(s, ino) ==
    {e \in Inos \X (1 .. RAMFS_MAX_DIRENT) :
        /\ s.rfs_inodes[e[1]].rf_mode = DIR
        /\ s.rfs_inodes[e[1]].ents[e[2]].rd_name \in Names
        /\ s.rfs_inodes[e[1]].ents[e[2]].rd_ino = ino}

\* No inode is freed while it has a name or a vnode: the link count that
\* ramfs_delete_vnode frees it by covers its entries, which link, unlink and
\* rmdir count, and the vnode in core, which ramfs_read_vnode counts.  And fput
\* never frees a file_t a descriptor still names: f_refcount covers the
\* descriptors do_open, do_dup and do_dup2 gave it.
UsesAreCounted ==
    /\ TypeOK
    /\ vfs.asserts =>
          /\ \A ino \in Inos :
                /\ vfs.rfs_inodes[ino].rf_linkcount
                      >= Cardinality(Links(vfs, ino)) + Cardinality(InCore(vfs, ino))
                /\ Exists(vfs, ino) <=> vfs.rfs_inodes[ino].rf_linkcount > 0
          /\ \A f \in Files :
                vfs.file[f].f_refcount >= Cardinality({fd \in Fds : vfs.p_files[fd] = f})

\* vget finds the vnode a file has in core: there is never a second one, and
\* the one there is has the type of the file, so no inode was freed and
\* taken for another file under it.  A regular file in core has the length its
\* inode has, which ramfs_write asserts: a file opened, unlinked and created
\* anew never shows the length of the one before.
OneVnodePerFile ==
    vfs.asserts =>
        /\ \A ino \in Inos :
              /\ Cardinality(InCore(vfs, ino)) <= 1
              /\ \A v \in InCore(vfs, ino) : vfs.vn[v].vn_mode = vfs.rfs_inodes[ino].rf_mode
        /\ \A v \in InUse(vfs) :
              vfs.vn[v].vn_mode = DATA => vfs.vn[v].vn_len = VNODE_TO_RAMFSINODE(vfs, v).rf_size

\* No call takes a name from a directory that has files in it: do_rmdir
\* refuses it, and do_unlink, do_rename and do_open for writing, which unlink,
\* refuse directories.
FullDirectoriesKeepTheirNames ==
    [][\A ino \in Inos :
          (/\ vfs'.asserts
           /\ vfs.rfs_inodes[ino].rf_mode = DIR
           /\ \E i \in 1 .. RAMFS_MAX_DIRENT : vfs.rfs_inodes[ino].ents[i].rd_name \in Names)
          => Links(vfs, ino) \subseteq Links(vfs', ino)]_vars
-----------------------------------------------------------------------------
(***************************************************************************)
(* What the comments of the code promise and the code does not keep.       *)
(***************************************************************************)
\* The vnode of an open file is in use ("This integer counts every memory
\* reference to the relevant vnode", vnode.h).  do_open for writing only
\* puts the vnode it keeps.
OpenFileHasItsVnode ==
    vfs.asserts =>
        \A fd \in Fds : vfs.p_files[fd] # Null => VnodeOf(vfs, vfs.p_files[fd]) \in InUse(vfs)

\* No KASSERT fails.  do_unlink of a path whose directory does not exist puts
\* a null vnode; ramfs_write past the page of a file copies a negative count.
AssertsHold == vfs.asserts

\* do_rename gives the file the new name before it takes the old one: a file
\* with a name keeps one.  do_rename goes on when do_link has failed.
RenameKeepsFile ==
    vfs.asserts =>
        \A old \in Paths, new \in Paths :
            LET r == do_rename(vfs, old, new)
            IN  r.s.asserts => \A ino \in Inos : Links(vfs, ino) # {} => Links(r.s, ino) # {}
=============================================================================
