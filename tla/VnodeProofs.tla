----------------------------- MODULE VnodeProofs -----------------------------
(***************************************************************************)
(* The vnode cache keeps its vnodes in order, for any number of threads,   *)
(* files, vnodes and pages, although read_vnode, delete_vnode and the      *)
(* pages' I/O block.                                                       *)
(***************************************************************************)
EXTENDS Vnode, ListProofs

\* The stack s is that of a thread in read_vnode or delete_vnode of v.
Works(s, v) == s # <<>> /\ s[Len(s)].op \in {"read", "delete"} /\ s[Len(s)].x = v

\* A file has at most one vnode.  As long as no KASSERT has failed, nrespages and
\* mmo_respages tell the resident pages of a vnode; a vnode that is referenced is on
\* vnode_inuse_list and not busy; and one that is busy is on the list, has no pages,
\* and exactly one thread is reading or deleting it.
CacheInOrder ==
    /\ \A i, j \in DOMAIN inuse : vnode[inuse[i]].ino = vnode[inuse[j]].ino => i = j
    /\ \A v \in VnSlots : ~ vnpanic =>
        /\ vnode[v].nres = Len(vnode[v].pages)
        /\ Range(vnode[v].pages) = {f \in VnFrames : frame[f].obj = v}
        /\ vnode[v].refs > 0 => v \in Range(inuse) /\ ~ vnode[v].busy
        /\ vnode[v].busy => v \in Range(inuse) /\ vnode[v].pages = <<>>
        /\ vnode[v].busy <=> \E t \in VnThreads : Works(stack[t], v)
        /\ \A s, t \in VnThreads : Works(stack[s], v) /\ Works(stack[t], v) => s = t
-----------------------------------------------------------------------------
(***************************************************************************)
(* The inductive invariant.                                                *)
(***************************************************************************)
\* The calls a thread can be in.
Ops == {"vget", "read", "vput", "evict", "page", "delete", "io",
        "flush", "vnodes", "uncache", "halt"}

\* Links of a list of pages: a frame, the head of a list, or NULL.
PageLinks == VnFrames \cup {-v : v \in VnSlots} \cup {0}

\* What the list of vnodes gives as its first when it is empty.
NoVnode == Head(<<>>)

\* What a call is about, and where in a list it can be.
Typed(c) ==
    /\ c.op = "vget" => c.x \in VnInodes
    /\ c.op \in {"read", "vput", "evict", "page", "delete", "uncache"} => c.x \in VnSlots
    /\ c.op = "io" => c.x \in VnFrames
    /\ c.op \in {"evict", "uncache"} => c.link \in PageLinks
    /\ c.op = "page" => c.link \in VnFrames /\ c.next \in PageLinks

\* The calls, as records.
Calls == {c \in [op : Ops, x : VnInodes \cup VnSlots \cup VnFrames \cup {0},
                 link : Int \cup {NoVnode}, next : Int] : Typed(c)}

Vnodes == [ino : VnInodes, busy : BOOLEAN, refs : Int, nres : Int, pages : Seq(VnFrames)]
Pframes == [obj : VnSlots \cup {0}, busy : BOOLEAN, dirty : BOOLEAN]
Stacks == [VnThreads -> Seq(Calls)]

Types ==
    /\ vnode \in [VnSlots -> Vnodes]
    /\ inuse \in Seq(VnSlots)
    /\ frame \in [VnFrames -> Pframes]
    /\ stack \in Stacks

\* Only the innermost call of a thread is in read_vnode or delete_vnode.
Quiet(c) == c.op \notin {"read", "delete"}
Clean(s) == \A k \in 1 .. Len(s) : Quiet(s[k])
CleanBelow(s) == \A k \in 1 .. Len(s) - 1 : Quiet(s[k])
TopInv == \A t \in VnThreads : CleanBelow(stack[t])

\* No two vnodes on the list are for the same file.
Distinct == \A i, j \in DOMAIN inuse : vnode[inuse[i]].ino = vnode[inuse[j]].ino => i = j

\* The resident pages are those on mmo_respages.
PagesInv ==
    \A v \in VnSlots :
        /\ vnode[v].nres = Len(vnode[v].pages)
        /\ ListOf(vnode[v].pages, {f \in VnFrames : frame[f].obj = v})

\* A vnode that is referenced, busy or has pages is on the list.
PlaceInv ==
    \A v \in VnSlots :
        /\ vnode[v].refs > 0 => v \in Range(inuse) /\ ~ vnode[v].busy
        /\ vnode[v].busy => v \in Range(inuse) /\ vnode[v].pages = <<>>
        /\ v \notin Range(inuse) => vnode[v].pages = <<>>

\* One that is busy is read or deleted by one thread.
BusyInv ==
    \A v \in VnSlots :
        /\ vnode[v].busy <=> \E t \in VnThreads : Works(stack[t], v)
        /\ \A s, t \in VnThreads : Works(stack[s], v) /\ Works(stack[t], v) => s = t

\* What holds as long as no KASSERT has failed.
Sound == Types /\ TopInv /\ Distinct /\ PagesInv /\ PlaceInv /\ BusyInv

\* After a failed KASSERT nothing happens any more.
Inv == Distinct /\ (~ vnpanic => Sound)
-----------------------------------------------------------------------------
(***************************************************************************)
(* Stacks of calls.                                                        *)
(***************************************************************************)
\* A thread enters a call.
LEMMA EnterIs ==
    ASSUME NEW s \in Seq(Calls), Clean(s), NEW c \in Calls, Quiet(c)
    PROVE  Append(s, c) \in Seq(Calls) /\ Clean(Append(s, c))
  BY DEF Clean

\* What a step of the innermost call, and its return, do to the stack s.
Swapped(s, n, c) ==
    /\ n \in Seq(Calls) /\ Len(n) = Len(s) /\ n[Len(n)] = c
    /\ \A k \in 1 .. Len(n) - 1 : n[k] = s[k]

Popped(s, n) ==
    /\ n \in Seq(Calls) /\ Len(n) = Len(s) - 1
    /\ \A k \in 1 .. Len(n) : n[k] = s[k]

\* The innermost call goes on.
LEMMA ExceptSwaps ==
    ASSUME NEW s \in Seq(Calls), s # <<>>, NEW c \in Calls
    PROVE  Swapped(s, [s EXCEPT ![Len(s)] = c], c)
  BY DEF Swapped

\* The innermost call returns.
LEMMA SubSeqPops ==
    ASSUME NEW s \in Seq(Calls), s # <<>>
    PROVE  Popped(s, SubSeq(s, 1, Len(s) - 1))
<1>1. Len(s) \in Nat \ {0} /\ \A k \in 1 .. Len(s) : s[k] \in Calls
  OBVIOUS
<1>2. /\ SubSeq(s, 1, Len(s) - 1) \in Seq(Calls) /\ Len(SubSeq(s, 1, Len(s) - 1)) = Len(s) - 1
      /\ \A k \in 1 .. Len(s) - 1 : SubSeq(s, 1, Len(s) - 1)[k] = s[k]
  BY <1>1
<1> QED BY <1>2 DEF Popped

\* The calls of t that wait for the innermost one stay, whatever that does.
LEMMA NowIs ==
    ASSUME NEW t, stack[t] \in Seq(Calls), stack[t] # <<>>, CleanBelow(stack[t]), NEW c \in Calls
    PROVE  /\ Now(t, c) \in Seq(Calls) /\ Now(t, c) # <<>> /\ Now(t, c)[Len(Now(t, c))] = c
           /\ CleanBelow(Now(t, c)) /\ (Quiet(c) => Clean(Now(t, c)))
<1>1. PICK s \in Seq(Calls) : s = stack[t]
  OBVIOUS
<1>2. PICK n : n = Now(t, c)
  OBVIOUS
<1>3. s # <<>> /\ CleanBelow(s) /\ Len(s) \in Nat \ {0}
  BY <1>1
<1>4. Swapped(s, n, c)
  BY <1>1, <1>2, <1>3, ExceptSwaps, Zenon DEF Now
<1>5. n \in Seq(Calls) /\ n # <<>> /\ n[Len(n)] = c /\ CleanBelow(n)
  BY <1>3, <1>4 DEF Swapped, CleanBelow
<1>6. Quiet(c) => Clean(n)
  <2>1. \A k \in 1 .. Len(n) : k = Len(n) \/ k \in 1 .. Len(n) - 1
    BY <1>5
  <2> QED BY <1>5, <2>1 DEF CleanBelow, Clean
<1> QED BY <1>2, <1>5, <1>6, Zenon

\* When the innermost call returns, no other is in read_vnode or delete_vnode.
LEMMA ReturnIs ==
    ASSUME NEW s \in Seq(Calls), s # <<>>, CleanBelow(s)
    PROVE  SubSeq(s, 1, Len(s) - 1) \in Seq(Calls) /\ Clean(SubSeq(s, 1, Len(s) - 1))
<1>1. PICK n : n = SubSeq(s, 1, Len(s) - 1)
  OBVIOUS
<1>2. Popped(s, n)
  BY <1>1, SubSeqPops
<1>3. n \in Seq(Calls) /\ Clean(n)
  BY <1>2 DEF Popped, CleanBelow, Clean
<1> QED BY <1>1, <1>3

\* What is known when thread t is in a call.
LEMMA CallFacts ==
    ASSUME Sound, NEW t \in VnThreads, NEW op, In(t, op)
    PROVE  /\ stack[t] \in Seq(Calls) /\ stack[t] # <<>> /\ CleanBelow(stack[t])
           /\ Call(t) = stack[t][Len(stack[t])] /\ Call(t) \in Calls
           /\ Call(t).op = op /\ Typed(Call(t))
           /\ op \notin {"read", "delete"} => Clean(stack[t])
<1>1. stack[t] \in Seq(Calls) /\ stack[t] # <<>> /\ CleanBelow(stack[t])
  BY DEF Sound, Types, Stacks, TopInv, In
<1>2. Len(stack[t]) \in Nat \ {0} /\ stack[t][Len(stack[t])] \in Calls
  BY <1>1
<1>3. Call(t) = stack[t][Len(stack[t])] /\ Call(t).op = op
  BY DEF Call, In
<1>4. Typed(Call(t))
  BY <1>2, <1>3 DEF Calls
<1>5. op \notin {"read", "delete"} => Clean(stack[t])
  BY <1>1, <1>2, <1>3 DEF Clean, CleanBelow, Quiet
<1> QED BY <1>1, <1>2, <1>3, <1>4, <1>5

\* The calls of the other threads stay as they are.
OthersKept(t) == \A s \in VnThreads : s # t => stack'[s] = stack[s]

\* Thread t has the calls n now.
LEMMA StackIs ==
    ASSUME Sound, NEW t \in VnThreads, NEW n \in Seq(Calls), stack' = [stack EXCEPT ![t] = n]
    PROVE  stack' \in Stacks /\ stack'[t] = n /\ OthersKept(t)
  BY DEF Sound, Types, Stacks, OthersKept

\* A step of thread t that neither begins nor ends a read_vnode or delete_vnode.
QuietStack(t) == stack' \in Stacks /\ OthersKept(t) /\ Clean(stack[t]) /\ Clean(stack'[t])

\* Such steps: to other calls, or within one.
LEMMA QuietStackIs ==
    ASSUME Sound, NEW t \in VnThreads, Clean(stack[t])
    PROVE  /\ \A n \in Seq(Calls) : Clean(n) /\ stack' = [stack EXCEPT ![t] = n] => QuietStack(t)
           /\ stack' = stack => QuietStack(t)
<1>1. ASSUME NEW n \in Seq(Calls), Clean(n), stack' = [stack EXCEPT ![t] = n] PROVE QuietStack(t)
  BY <1>1, StackIs DEF QuietStack
<1>2. stack' = stack => QuietStack(t)
  BY DEF QuietStack, OthersKept, Sound, Types
<1> QED BY <1>1, <1>2

\* Who reads or deletes which vnode stays.
LEMMA QuietWorks ==
    ASSUME Sound, NEW t \in VnThreads, QuietStack(t)
    PROVE  /\ TopInv'
           /\ \A s \in VnThreads : \A v : Works(stack'[s], v) <=> Works(stack[s], v)
<1>1. stack[t] \in Seq(Calls) /\ stack'[t] \in Seq(Calls)
  BY DEF Sound, Types, Stacks, QuietStack
<1>2. \A v : ~ Works(stack[t], v) /\ ~ Works(stack'[t], v)
  <2>1. \A s \in Seq(Calls) : Clean(s) => \A v : ~ Works(s, v)
    BY DEF Clean, Quiet, Works
  <2> QED BY <1>1, <2>1 DEF QuietStack
<1>3. CleanBelow(stack'[t])
  BY <1>1 DEF QuietStack, Clean, CleanBelow
<1> QED BY <1>2, <1>3 DEF QuietStack, OthersKept, Sound, TopInv
-----------------------------------------------------------------------------
(***************************************************************************)
(* Steps that change counts and flags only.                                *)
(***************************************************************************)
\* The list and the files of the vnodes stay as they are.
InosKept == inuse' = inuse /\ \A v \in VnSlots : vnode'[v].ino = vnode[v].ino

\* Nothing but vn_refcount changes, and only that of a vnode in use.
OnlyRefs ==
    /\ inuse' = inuse /\ vnode' \in [VnSlots -> Vnodes]
    /\ \A w \in VnSlots :
        /\ vnode'[w].ino = vnode[w].ino /\ vnode'[w].busy = vnode[w].busy
        /\ vnode'[w].nres = vnode[w].nres /\ vnode'[w].pages = vnode[w].pages
        /\ vnode'[w].refs > 0 => w \in Range(inuse) /\ ~ vnode[w].busy

\* The pages stay with their vnodes.
SameObjs == frame' \in [VnFrames -> Pframes] /\ \A f \in VnFrames : frame'[f].obj = frame[f].obj

\* A reference more or less to a vnode v.
LEMMA RefsOf ==
    ASSUME Sound, inuse' = inuse
    PROVE  /\ vnode' = vnode => OnlyRefs
           /\ \A v \in VnSlots, m \in Int :
                /\ vnode' = [vnode EXCEPT ![v].refs = m]
                /\ m > 0 => v \in Range(inuse) /\ ~ vnode[v].busy
                => OnlyRefs
<1>1. vnode \in [VnSlots -> Vnodes]
  BY DEF Sound, Types
<1>2. vnode' = vnode => OnlyRefs
  BY <1>1 DEF Sound, PlaceInv, OnlyRefs
<1>3. ASSUME NEW v \in VnSlots, NEW m \in Int, vnode' = [vnode EXCEPT ![v].refs = m],
             m > 0 => v \in Range(inuse) /\ ~ vnode[v].busy
      PROVE  OnlyRefs
  <2>1. PICK r : r = [vnode[v] EXCEPT !.refs = m]
    OBVIOUS
  <2>2. /\ r \in Vnodes /\ r.ino = vnode[v].ino /\ r.busy = vnode[v].busy /\ r.refs = m
        /\ r.nres = vnode[v].nres /\ r.pages = vnode[v].pages
    BY <1>1, <2>1 DEF Vnodes
  <2>3. vnode' = [vnode EXCEPT ![v] = r]
    BY <1>1, <1>3, <2>1
  <2> QED BY <1>1, <1>3, <2>2, <2>3 DEF OnlyRefs, Sound, PlaceInv
<1> QED BY <1>2, <1>3

\* Steps that neither begin nor end a read_vnode or delete_vnode, and leave pages
\* and vnodes where they are.
LEMMA QuietSound ==
    ASSUME Sound, NEW t \in VnThreads, QuietStack(t), OnlyRefs, SameObjs
    PROVE  Sound'
<1>1. Types'
  BY DEF Sound, Types, OnlyRefs, SameObjs, QuietStack
<1>2. TopInv' /\ \A s \in VnThreads : \A v : Works(stack'[s], v) <=> Works(stack[s], v)
  BY QuietWorks
<1>3. Distinct'
  BY DEF Sound, Types, Distinct, OnlyRefs
<1>4. PagesInv'
  <2>1. \A v : {f \in VnFrames : frame'[f].obj = v} = {f \in VnFrames : frame[f].obj = v}
    BY DEF SameObjs
  <2> QED BY <2>1 DEF Sound, PagesInv, OnlyRefs
<1>5. PlaceInv'
  BY DEF Sound, PlaceInv, OnlyRefs
<1>6. BusyInv'
  BY <1>2 DEF Sound, BusyInv, OnlyRefs
<1> QED BY <1>1, <1>2, <1>3, <1>4, <1>5, <1>6 DEF Sound

\* A thread sleeps, or a file gets or loses its name.
LEMMA SameSound ==
    ASSUME Sound, UNCHANGED <<vnode, inuse, frame, stack>>
    PROVE  Sound'
  BY DEF Sound, Types, TopInv, Distinct, PagesInv, PlaceInv, BusyInv
-----------------------------------------------------------------------------
(***************************************************************************)
(* read_vnode and delete_vnode.                                            *)
(***************************************************************************)
\* Vnode v is r now.
Replaced(v, r) ==
    /\ vnode' \in [VnSlots -> Vnodes] /\ vnode'[v] = r
    /\ \A w \in VnSlots : w # v => vnode'[w] = vnode[w]

\* The vnode x with another vn_refcount and busy bit.
With(x, m, b) == [x EXCEPT !.refs = m, !.busy = b]

\* Its file and its pages are those of x.
LEMMA WithIs ==
    ASSUME NEW x \in Vnodes, NEW m \in Int, NEW b \in BOOLEAN
    PROVE  LET r == With(x, m, b)
           IN  /\ r \in Vnodes /\ r.ino = x.ino /\ r.busy = b /\ r.refs = m
               /\ r.nres = x.nres /\ r.pages = x.pages
  BY DEF Vnodes, With

\* How a vnode is replaced.
LEMMA ReplacedIs ==
    ASSUME Sound, NEW v \in VnSlots, NEW r \in Vnodes, vnode' = [vnode EXCEPT ![v] = r]
    PROVE  Replaced(v, r)
  BY DEF Sound, Types, Replaced

\* The pages of the vnodes stay, or there are none.
LEMMA SamePages ==
    ASSUME Sound, NEW v \in VnSlots, NEW r, Replaced(v, r), frame' = frame,
           r.nres = vnode[v].nres, r.pages = vnode[v].pages
    PROVE  PagesInv'
  BY DEF Sound, PagesInv, Replaced

\* Thread t goes to read_vnode or delete_vnode of a vnode that is not busy.
LEMMA WorkBegins ==
    ASSUME Sound, NEW t \in VnThreads, NEW v \in VnSlots, NEW r, Replaced(v, r), r.busy, ~ vnode[v].busy,
           OthersKept(t), CleanBelow(stack'[t]), Clean(stack[t]), Works(stack'[t], v)
    PROVE  TopInv' /\ BusyInv'
<1>1. \A w : ~ Works(stack[t], w)
  <2>1. stack[t] \in Seq(Calls)
    BY DEF Sound, Types, Stacks
  <2> QED BY <2>1 DEF Clean, Quiet, Works
<1>2. \A w : Works(stack'[t], w) => w = v
  BY DEF Works
<1>3. \A s \in VnThreads : ~ Works(stack[s], v)
  BY DEF Sound, BusyInv
<1>4. BusyInv'
  <2> SUFFICES ASSUME NEW w \in VnSlots
               PROVE  /\ vnode'[w].busy <=> \E s \in VnThreads : Works(stack'[s], w)
                      /\ \A s, u \in VnThreads : Works(stack'[s], w) /\ Works(stack'[u], w) => s = u
    BY DEF BusyInv
  <2>1. CASE w = v
    BY <1>3, <2>1 DEF Replaced, OthersKept
  <2>2. CASE w # v
    <3>1. \A s \in VnThreads : Works(stack'[s], w) <=> Works(stack[s], w)
      BY <1>1, <1>2, <2>2 DEF OthersKept
    <3> QED BY <2>2, <3>1 DEF Replaced, Sound, BusyInv
  <2> QED BY <2>1, <2>2
<1>5. TopInv'
  BY DEF Sound, TopInv, OthersKept
<1> QED BY <1>4, <1>5

\* Thread t comes from read_vnode or delete_vnode.
LEMMA WorkEnds ==
    ASSUME Sound, NEW t \in VnThreads, NEW v \in VnSlots, NEW r, Replaced(v, r), ~ r.busy,
           OthersKept(t), stack'[t] \in Seq(Calls), Clean(stack'[t]), Works(stack[t], v)
    PROVE  TopInv' /\ BusyInv'
<1>1. \A w : ~ Works(stack'[t], w)
  BY DEF Clean, Quiet, Works
<1>2. \A w : Works(stack[t], w) => w = v
  BY DEF Works
<1>3. \A s \in VnThreads : Works(stack[s], v) => s = t
  BY DEF Sound, BusyInv
<1>4. BusyInv'
  <2> SUFFICES ASSUME NEW w \in VnSlots
               PROVE  /\ vnode'[w].busy <=> \E s \in VnThreads : Works(stack'[s], w)
                      /\ \A s, u \in VnThreads : Works(stack'[s], w) /\ Works(stack'[u], w) => s = u
    BY DEF BusyInv
  <2>1. CASE w = v
    <3>1. \A s \in VnThreads : ~ Works(stack'[s], v)
      BY <1>1, <1>3 DEF OthersKept
    <3> QED BY <2>1, <3>1 DEF Replaced
  <2>2. CASE w # v
    <3>1. \A s \in VnThreads : Works(stack'[s], w) <=> Works(stack[s], w)
      BY <1>1, <1>2, <2>2 DEF OthersKept
    <3> QED BY <2>2, <3>1 DEF Replaced, Sound, BusyInv
  <2> QED BY <2>1, <2>2
<1>5. TopInv'
  <2>1. CleanBelow(stack'[t])
    BY DEF Clean, CleanBelow
  <2> QED BY <2>1 DEF Sound, TopInv, OthersKept
<1> QED BY <1>4, <1>5

\* The list of vnodes has no vnode twice, and no two for the same file.
LEMMA DistinctIs ==
    ASSUME Sound
    PROVE  /\ ListOf(inuse, Range(inuse)) /\ Range(inuse) \subseteq VnSlots
           /\ \A v, w \in Range(inuse) : vnode[v].ino = vnode[w].ino => v = w
<1>1. inuse \in Seq(VnSlots) /\ DOMAIN inuse = 1 .. Len(inuse)
  BY DEF Sound, Types
<1>2. inuse \in Seq(Range(inuse)) /\ Range(inuse) \subseteq VnSlots
  BY <1>1 DEF Range
<1> QED BY <1>1, <1>2 DEF Sound, Distinct, ListOf, Range

\* The list stays right when it has no vnode twice, and no two for the same file.
LEMMA DistinctNext ==
    ASSUME NEW S, S \subseteq VnSlots, ListOf(inuse', S),
           \A v, w \in S : vnode'[v].ino = vnode'[w].ino => v = w
    PROVE  Distinct' /\ Range(inuse') = S /\ inuse' \in Seq(VnSlots)
<1>1. inuse' \in Seq(S) /\ DOMAIN inuse' = 1 .. Len(inuse')
  BY DEF ListOf
<1>2. Distinct' /\ Range(inuse') = S
  BY <1>1, ListOfIsSet DEF Distinct, ListOf
<1> QED BY <1>1, <1>2

\* The vnode that vget finds is one on the list, for the file.
LEMMA CachedIs ==
    ASSUME Sound, NEW i
    PROVE  /\ \A v \in Cached(i) : v \in Range(inuse) /\ v \in VnSlots /\ vnode[v].ino = i
           /\ \A v \in Range(inuse) : vnode[v].ino = i => v \in Cached(i)
<1>1. inuse \in Seq(VnSlots) /\ DOMAIN inuse = 1 .. Len(inuse)
  BY DEF Sound, Types
<1>2. ASSUME NEW v \in Range(inuse), vnode[v].ino = i PROVE v \in Cached(i)
  <2>1. PICK k \in DOMAIN inuse : inuse[k] = v
    BY <1>2 DEF Range
  <2>2. \A j \in 1 .. k - 1 : j \in DOMAIN inuse /\ j # k
    BY <1>1, <2>1
  <2>3. \A j \in 1 .. k - 1 : vnode[inuse[j]].ino # i
    BY <1>2, <2>1, <2>2 DEF Sound, Distinct
  <2> QED BY <1>2, <2>1, <2>3 DEF Cached
<1>3. \A v \in Cached(i) : v \in Range(inuse) /\ v \in VnSlots /\ vnode[v].ino = i
  BY <1>1 DEF Cached, Range
<1> QED BY <1>2, <1>3

\* A free vnode_t, and a vnode before its file is read.
LEMMA NewVnode ==
    /\ FreeVnode \in Vnodes /\ ~ FreeVnode.busy /\ FreeVnode.refs = 0 /\ FreeVnode.nres = 0
    /\ FreeVnode.pages = <<>>
    /\ \A i \in VnInodes : LET r == [FreeVnode EXCEPT !.ino = i, !.busy = TRUE]
                           IN  r \in Vnodes /\ r.ino = i /\ r.busy /\ r.refs = 0 /\ r.nres = 0 /\ r.pages = <<>>
<1>1. FreeVnode \in Vnodes
  <2>1. RootIno \in VnInodes /\ <<>> \in Seq(VnFrames)
    BY VnodeAssumption
  <2> QED BY <2>1 DEF FreeVnode, Vnodes
<1>2. ~ FreeVnode.busy /\ FreeVnode.refs = 0 /\ FreeVnode.nres = 0 /\ FreeVnode.pages = <<>>
  BY DEF FreeVnode
<1> QED BY <1>1, <1>2 DEF Vnodes

\* vget puts the vnode of another file on the list, to read it.
LEMMA VgetNewSound ==
    ASSUME Sound, NEW t \in VnThreads, NEW v \in VnSlots, vget_new(t, v)
    PROVE  Sound'
<1>1. /\ In(t, "vget") /\ v \notin Range(inuse) /\ Cached(Call(t).x) = {}
      /\ vnode' = [vnode EXCEPT ![v] = [FreeVnode EXCEPT !.ino = Call(t).x, !.busy = TRUE]]
      /\ inuse' = <<v>> \o inuse /\ frame' = frame
      /\ stack' = [stack EXCEPT ![t] = Now(t, CallOf("read", v))]
  BY DEF vget_new, BlockIn
<1>2. /\ stack[t] \in Seq(Calls) /\ stack[t] # <<>> /\ CleanBelow(stack[t]) /\ Clean(stack[t])
      /\ Call(t).x \in VnInodes
  BY <1>1, CallFacts DEF Typed
<1>3. PICK i, r, c : /\ i = Call(t).x /\ i \in VnInodes /\ c = CallOf("read", v)
                     /\ r = [FreeVnode EXCEPT !.ino = i, !.busy = TRUE]
  BY <1>2
<1>4. c \in Calls /\ c.op = "read" /\ c.x = v
  BY <1>3 DEF CallOf, Calls, Typed, Ops
<1>5. r \in Vnodes /\ r.ino = i /\ r.busy /\ r.refs = 0 /\ r.nres = 0 /\ r.pages = <<>>
  BY <1>3, NewVnode
<1>6. Replaced(v, r)
  BY <1>1, <1>3, <1>5, ReplacedIs
<1>7. PICK n : n = Now(t, c)
  OBVIOUS
<1>8. n \in Seq(Calls) /\ n # <<>> /\ n[Len(n)] = c /\ CleanBelow(n)
  BY <1>2, <1>4, <1>7, NowIs
<1>9. stack' \in Stacks /\ stack'[t] = n /\ OthersKept(t)
  BY <1>1, <1>3, <1>7, <1>8, StackIs
<1>10. /\ ~ vnode[v].busy /\ ~ (vnode[v].refs > 0) /\ vnode[v].pages = <<>> /\ vnode[v].nres = 0
  BY <1>1 DEF Sound, PlaceInv, PagesInv
<1>11. TopInv' /\ BusyInv'
  <2>1. Works(stack'[t], v)
    BY <1>4, <1>8, <1>9 DEF Works
  <2> QED BY <1>2, <1>5, <1>6, <1>8, <1>9, <1>10, <2>1, WorkBegins
<1>12. Distinct' /\ Range(inuse') = Range(inuse) \cup {v} /\ inuse' \in Seq(VnSlots)
  <2>1. ListOf(inuse', Range(inuse) \cup {v}) /\ Range(inuse) \subseteq VnSlots
    BY <1>1, DistinctIs, PushLink
  <2>2. \A w \in Range(inuse) : vnode[w].ino # i
    BY <1>1, <1>3, CachedIs
  <2>3. \A x, y \in Range(inuse) \cup {v} : vnode'[x].ino = vnode'[y].ino => x = y
    BY <1>1, <1>5, <1>6, <2>1, <2>2, DistinctIs DEF Replaced
  <2> QED BY <2>1, <2>3, DistinctNext
<1>13. PagesInv'
  BY <1>1, <1>5, <1>6, <1>10, SamePages
<1>14. PlaceInv'
  BY <1>5, <1>6, <1>12 DEF Sound, PlaceInv, Replaced
<1>15. Types'
  BY <1>1, <1>6, <1>9, <1>12 DEF Sound, Types, Replaced
<1> QED BY <1>11, <1>12, <1>13, <1>14, <1>15 DEF Sound

\* read_vnode is over: the vnode has its first reference.
LEMMA VgetReadSound ==
    ASSUME Sound, NEW t \in VnThreads, vget_read(t)
    PROVE  Sound'
<1>1. /\ In(t, "read") /\ inuse' = inuse /\ frame' = frame
      /\ vnode' = [vnode EXCEPT ![Call(t).x].busy = FALSE, ![Call(t).x].refs = 1]
      /\ stack' = [stack EXCEPT ![t] = SubSeq(stack[t], 1, Len(stack[t]) - 1)]
  BY DEF vget_read, LeaveCall
<1>2. /\ stack[t] \in Seq(Calls) /\ stack[t] # <<>> /\ CleanBelow(stack[t])
      /\ Call(t).x \in VnSlots /\ Works(stack[t], Call(t).x)
  BY <1>1, CallFacts DEF Typed, Works
<1>3. PICK v \in VnSlots : v = Call(t).x
  BY <1>2
<1>4. vnode[v] \in Vnodes /\ vnode \in [VnSlots -> Vnodes]
  BY DEF Sound, Types
<1> DEFINE r == With(vnode[v], 1, FALSE)
<1>5. /\ r \in Vnodes /\ r.ino = vnode[v].ino /\ ~ r.busy /\ r.refs = 1
      /\ r.nres = vnode[v].nres /\ r.pages = vnode[v].pages
  <2>1. 1 \in Int /\ FALSE \in BOOLEAN
    OBVIOUS
  <2>2. /\ r \in Vnodes /\ r.ino = vnode[v].ino /\ r.busy = FALSE /\ r.refs = 1
        /\ r.nres = vnode[v].nres /\ r.pages = vnode[v].pages
    BY <1>4, <2>1, WithIs, Zenon
  <2> QED BY <2>2, Zenon
<1>6. Replaced(v, r)
  <2>1. vnode' = [vnode EXCEPT ![v] = r]
    BY <1>1, <1>3, <1>4 DEF With
  <2> HIDE DEF r
  <2> QED BY <1>5, <2>1, ReplacedIs
<1> HIDE DEF r
<1> PICK n : n = SubSeq(stack[t], 1, Len(stack[t]) - 1)
  OBVIOUS
<1>7. n \in Seq(Calls) /\ Clean(n)
  BY <1>2, ReturnIs
<1>8. stack' \in Stacks /\ stack'[t] = n /\ OthersKept(t)
  BY <1>1, <1>7, StackIs
<1>9. TopInv' /\ BusyInv'
  BY <1>2, <1>3, <1>5, <1>6, <1>7, <1>8, WorkEnds
<1>10. v \in Range(inuse)
  BY <1>2, <1>3 DEF Sound, BusyInv, PlaceInv
<1>11. Distinct'
  <2>1. \A w \in VnSlots : vnode'[w].ino = vnode[w].ino
    BY <1>5, <1>6 DEF Replaced
  <2> QED BY <1>1, <2>1 DEF Sound, Types, Distinct
<1>12. PagesInv'
  BY <1>1, <1>5, <1>6, SamePages
<1>13. PlaceInv'
  BY <1>1, <1>5, <1>6, <1>10 DEF Sound, PlaceInv, Replaced
<1>14. Types'
  BY <1>1, <1>6, <1>8 DEF Sound, Types, Replaced
<1> QED BY <1>9, <1>11, <1>12, <1>13, <1>14 DEF Sound

\* delete_vnode is over: the vnode is free, and off the list.
LEMMA VputDeletedSound ==
    ASSUME Sound, NEW t \in VnThreads, vput_deleted(t)
    PROVE  Sound'
<1>1. /\ In(t, "delete") /\ inuse' = list_remove(inuse, Call(t).x) /\ frame' = frame
      /\ vnode' = [vnode EXCEPT ![Call(t).x] = FreeVnode]
      /\ stack' = [stack EXCEPT ![t] = SubSeq(stack[t], 1, Len(stack[t]) - 1)]
  BY DEF vput_deleted, LeaveCall
<1>2. /\ stack[t] \in Seq(Calls) /\ stack[t] # <<>> /\ CleanBelow(stack[t])
      /\ Call(t).x \in VnSlots /\ Works(stack[t], Call(t).x)
  BY <1>1, CallFacts DEF Typed, Works
<1>3. PICK v \in VnSlots : v = Call(t).x
  BY <1>2
<1>4. /\ FreeVnode \in Vnodes /\ ~ FreeVnode.busy /\ FreeVnode.refs = 0 /\ FreeVnode.nres = 0
      /\ FreeVnode.pages = <<>>
  BY NewVnode
<1>5. Replaced(v, FreeVnode)
  BY <1>1, <1>3, <1>4, ReplacedIs
<1> PICK n : n = SubSeq(stack[t], 1, Len(stack[t]) - 1)
  OBVIOUS
<1>6. n \in Seq(Calls) /\ Clean(n)
  BY <1>2, ReturnIs
<1>7. stack' \in Stacks /\ stack'[t] = n /\ OthersKept(t)
  BY <1>1, <1>6, StackIs
<1>8. TopInv' /\ BusyInv'
  BY <1>2, <1>3, <1>4, <1>5, <1>6, <1>7, WorkEnds
<1>9. v \in Range(inuse) /\ vnode[v].pages = <<>> /\ vnode[v].nres = 0
  BY <1>2, <1>3 DEF Sound, BusyInv, PlaceInv, PagesInv
<1>10. Distinct' /\ Range(inuse') = Range(inuse) \ {v} /\ inuse' \in Seq(VnSlots)
  <2>1. ListOf(inuse', Range(inuse) \ {v}) /\ Range(inuse) \subseteq VnSlots
    BY <1>1, <1>3, <1>9, DistinctIs, RemoveLink
  <2>2. \A x, y \in Range(inuse) \ {v} : vnode'[x].ino = vnode'[y].ino => x = y
    BY <1>5, <2>1, DistinctIs DEF Replaced
  <2> QED BY <2>1, <2>2, DistinctNext
<1>11. PagesInv'
  BY <1>1, <1>4, <1>5, <1>9, SamePages
<1>12. PlaceInv'
  BY <1>4, <1>5, <1>10 DEF Sound, PlaceInv, Replaced
<1>13. Types'
  BY <1>1, <1>5, <1>7, <1>10 DEF Sound, Types, Replaced
<1> QED BY <1>8, <1>10, <1>11, <1>12, <1>13 DEF Sound

\* The last reference is put: the thread goes on to delete_vnode.
LEMMA LastPutSound ==
    ASSUME Sound, NEW t \in VnThreads, NEW v \in VnSlots, stack[t] # <<>>, Clean(stack[t]),
           vnode[v].refs > 0, vnode[v].nres = 0,
           vnode' = [vnode EXCEPT ![v].refs = 0, ![v].busy = TRUE],
           stack' = [stack EXCEPT ![t] = Now(t, CallOf("delete", v))],
           inuse' = inuse, frame' = frame
    PROVE  Sound'
<1>1. /\ stack[t] \in Seq(Calls) /\ CleanBelow(stack[t]) /\ vnode[v] \in Vnodes /\ vnode \in [VnSlots -> Vnodes]
  BY DEF Sound, Types, Stacks, TopInv
<1>2. PICK r, c : r = With(vnode[v], 0, TRUE) /\ c = CallOf("delete", v)
  OBVIOUS
<1>3. c \in Calls /\ c.op = "delete" /\ c.x = v
  BY <1>2 DEF CallOf, Calls, Typed, Ops
<1>4. /\ r \in Vnodes /\ r.ino = vnode[v].ino /\ r.busy /\ r.refs = 0
      /\ r.nres = vnode[v].nres /\ r.pages = vnode[v].pages
  <2>1. 0 \in Int /\ TRUE \in BOOLEAN
    OBVIOUS
  <2>2. /\ r \in Vnodes /\ r.ino = vnode[v].ino /\ r.busy = TRUE /\ r.refs = 0
        /\ r.nres = vnode[v].nres /\ r.pages = vnode[v].pages
    BY <1>1, <1>2, <2>1, WithIs, Zenon
  <2> QED BY <2>2, Zenon
<1>5. Replaced(v, r)
  <2>1. vnode' = [vnode EXCEPT ![v] = r]
    BY <1>1, <1>2 DEF With
  <2> QED BY <1>4, <2>1, ReplacedIs
<1>6. PICK n : n = Now(t, c)
  OBVIOUS
<1>7. n \in Seq(Calls) /\ n # <<>> /\ n[Len(n)] = c /\ CleanBelow(n)
  BY <1>1, <1>3, <1>6, NowIs
<1>8. stack' \in Stacks /\ stack'[t] = n /\ OthersKept(t)
  BY <1>2, <1>6, <1>7, StackIs
<1>9. v \in Range(inuse) /\ ~ vnode[v].busy
  BY DEF Sound, PlaceInv
<1>10. vnode[v].pages = <<>>
  <2>1. vnode[v].pages \in Seq(VnFrames) /\ Len(vnode[v].pages) = 0
    BY <1>1 DEF Vnodes, Sound, PagesInv
  <2> QED BY <2>1
<1>11. TopInv' /\ BusyInv'
  <2>1. Works(stack'[t], v)
    BY <1>3, <1>7, <1>8 DEF Works
  <2> QED BY <1>4, <1>5, <1>7, <1>8, <1>9, <2>1, WorkBegins
<1>12. Distinct'
  <2>1. \A w \in VnSlots : vnode'[w].ino = vnode[w].ino
    BY <1>4, <1>5 DEF Replaced
  <2> QED BY <2>1 DEF Sound, Types, Distinct
<1>13. PagesInv'
  BY <1>4, <1>5, SamePages
<1>14. PlaceInv'
  BY <1>4, <1>5, <1>9, <1>10 DEF Sound, PlaceInv, Replaced
<1>15. Types'
  BY <1>5, <1>8 DEF Sound, Types, Replaced
<1> QED BY <1>11, <1>12, <1>13, <1>14, <1>15 DEF Sound

\* The end of vput.
LEMMA UnrefSound ==
    ASSUME Sound, NEW t \in VnThreads, NEW v \in VnSlots, stack[t] # <<>>, Clean(stack[t]),
           NEW sound, sound => vnode[v].refs > 0, Unref(t, v, sound), ~ vnpanic'
    PROVE  Sound'
<1>1. /\ vnode[v].refs > 0 /\ (vnode[v].refs = 1 => vnode[v].nres = 0)
      /\ inuse' = inuse /\ frame' = frame
  BY DEF Unref, KASSERT
<1>2. /\ vnode[v].refs \in Int /\ stack[t] \in Seq(Calls) /\ CleanBelow(stack[t])
      /\ frame \in [VnFrames -> Pframes]
  BY DEF Sound, Types, Vnodes, Stacks, TopInv
<1>3. CASE vnode[v].refs > 1
  <2>1. /\ vnode' = [vnode EXCEPT ![v].refs = vnode[v].refs - 1]
        /\ stack' = [stack EXCEPT ![t] = SubSeq(stack[t], 1, Len(stack[t]) - 1)]
    BY <1>3 DEF Unref, LeaveCall
  <2>2. v \in Range(inuse) /\ ~ vnode[v].busy
    BY <1>1 DEF Sound, PlaceInv
  <2>3. vnode[v].refs - 1 \in Int
    BY <1>2
  <2>4. OnlyRefs
    BY <1>1, <2>1, <2>2, <2>3, RefsOf
  <2>5. QuietStack(t)
    BY <1>2, <2>1, ReturnIs, QuietStackIs
  <2>6. SameObjs
    BY <1>1, <1>2 DEF SameObjs
  <2> QED BY <2>4, <2>5, <2>6, QuietSound
<1>4. CASE ~ (vnode[v].refs > 1)
  <2>1. vnode[v].nres = 0
    BY <1>1, <1>2, <1>4
  <2>2. /\ vnode' = [vnode EXCEPT ![v].refs = 0, ![v].busy = TRUE]
        /\ stack' = [stack EXCEPT ![t] = Now(t, CallOf("delete", v))]
    BY <1>4 DEF Unref, BlockIn
  <2> QED BY <1>1, <2>1, <2>2, LastPutSound
<1> QED BY <1>3, <1>4
-----------------------------------------------------------------------------
(***************************************************************************)
(* The pages of vnodes.                                                    *)
(***************************************************************************)
\* The first link of a list of pages.
LEMMA FirstPageIs ==
    ASSUME Sound, NEW v \in VnSlots
    PROVE  FirstPage(v) \in PageLinks
<1>1. vnode[v].pages \in Seq(VnFrames)
  BY DEF Sound, Types, Vnodes
<1>2. vnode[v].pages # <<>> => Head(vnode[v].pages) \in VnFrames
  BY <1>1
<1> QED BY <1>2 DEF FirstPage, PageLinks

\* The next link after that of a page.
LEMMA PageAfterIs ==
    ASSUME Sound, NEW f \in VnFrames
    PROVE  PageAfter(f) \in PageLinks
<1>1. CASE frame[f].obj = 0
  BY <1>1 DEF PageAfter, PageLinks
<1>2. CASE frame[f].obj # 0
  <2>1. PICK v \in VnSlots : v = frame[f].obj
    BY <1>2 DEF Sound, Types, Pframes
  <2> DEFINE pages == vnode[v].pages
             i == CHOOSE k \in DOMAIN pages : pages[k] = f
  <2>0. pages \in Seq(VnFrames) /\ ListOf(pages, {g \in VnFrames : frame[g].obj = v})
    BY DEF Sound, Types, Vnodes, PagesInv
  <2>2. DOMAIN pages = 1 .. Len(pages) /\ Len(pages) \in Nat /\ \A k \in 1 .. Len(pages) : pages[k] \in VnFrames
    BY <2>0
  <2>3. \E k \in DOMAIN pages : pages[k] = f
    BY <2>0, <2>1, <2>2 DEF ListOf
  <2>4. i \in 1 .. Len(pages) /\ pages[i] = f
    BY <2>2, <2>3
  <2>5. PageAfter(f) = IF i = Len(pages) THEN -v ELSE pages[i + 1]
    BY <1>2, <2>1 DEF PageAfter
  <2> HIDE DEF i
  <2>6. i # Len(pages) => pages[i + 1] \in VnFrames
    BY <2>2, <2>4
  <2> QED BY <2>4, <2>5, <2>6 DEF PageLinks
<1> QED BY <1>1, <1>2

\* Links are numbers, and only those of pages are positive.
LEMMA PageLinksAre ==
    \A k \in PageLinks : k \in Int /\ (k > 0 => k \in VnFrames)
<1> SUFFICES ASSUME NEW k \in PageLinks PROVE k \in Int /\ (k > 0 => k \in VnFrames)
  OBVIOUS
<1>1. CASE k \in VnFrames \cup {0}
  BY <1>1, VnodeAssumption
<1>2. CASE k \in {-v : v \in VnSlots}
  <2>1. PICK v \in VnSlots : k = -v
    BY <1>2
  <2>2. v \in Nat \ {0}
    BY VnodeAssumption
  <2> QED BY <2>1, <2>2
<1> QED BY <1>1, <1>2 DEF PageLinks

\* The calls that threads enter.
LEMMA CallsAre ==
    /\ \A v \in VnSlots : CallOf("vput", v) \in Calls /\ Quiet(CallOf("vput", v))
    /\ \A f \in VnFrames : CallOf("io", f) \in Calls /\ Quiet(CallOf("io", f))
    /\ \A i \in VnInodes : CallOf("vget", i) \in Calls /\ Quiet(CallOf("vget", i))
    /\ \A op \in {"flush", "halt"} : CallOf(op, 0) \in Calls /\ Quiet(CallOf(op, 0))
    /\ \A op \in {"evict", "uncache"}, v \in VnSlots, link \in PageLinks :
            WalkOf(op, v, link) \in Calls /\ Quiet(WalkOf(op, v, link))
    /\ \A link \in Int \cup {NoVnode} : WalkOf("vnodes", 0, link) \in Calls /\ Quiet(WalkOf("vnodes", 0, link))
<1>1. \A v \in VnSlots : CallOf("vput", v) \in Calls /\ Quiet(CallOf("vput", v))
  BY DEF CallOf, Calls, Typed, Ops, Quiet
<1>2. \A f \in VnFrames : CallOf("io", f) \in Calls /\ Quiet(CallOf("io", f))
  BY DEF CallOf, Calls, Typed, Ops, Quiet
<1>3. \A i \in VnInodes : CallOf("vget", i) \in Calls /\ Quiet(CallOf("vget", i))
  BY DEF CallOf, Calls, Typed, Ops, Quiet
<1>4. \A op \in {"flush", "halt"} : CallOf(op, 0) \in Calls /\ Quiet(CallOf(op, 0))
  BY DEF CallOf, Calls, Typed, Ops, Quiet
<1>5. ASSUME NEW op \in {"evict", "uncache"}, NEW v \in VnSlots, NEW link \in PageLinks
      PROVE  WalkOf(op, v, link) \in Calls /\ Quiet(WalkOf(op, v, link))
  BY PageLinksAre DEF WalkOf, Calls, Typed, Ops, Quiet
<1>6. \A link \in Int \cup {NoVnode} : WalkOf("vnodes", 0, link) \in Calls /\ Quiet(WalkOf("vnodes", 0, link))
  BY DEF WalkOf, Calls, Typed, Ops, Quiet
<1> QED BY <1>1, <1>2, <1>3, <1>4, <1>5, <1>6

\* vput goes on to the pages, or to its end.
LEMMA VputSound ==
    ASSUME Sound, NEW t \in VnThreads, vput(t), ~ vnpanic'
    PROVE  Sound'
<1>1. In(t, "vput")
  BY DEF vput
<1>2. /\ stack[t] \in Seq(Calls) /\ stack[t] # <<>> /\ Clean(stack[t]) /\ CleanBelow(stack[t])
      /\ Call(t).x \in VnSlots
  BY <1>1, CallFacts DEF Typed
<1>3. PICK v \in VnSlots : v = Call(t).x
  BY <1>2
<1>4. CASE vnode[v].nres = vnode[v].refs - 1 /\ ~ query_vnode(v)
  <2>1. /\ stack' = [stack EXCEPT ![t] = Now(t, WalkOf("evict", v, FirstPage(v)))]
        /\ vnode' = vnode /\ inuse' = inuse /\ frame' = frame
    BY <1>3, <1>4 DEF vput, Continue
  <2>2. PICK c \in Calls : c = WalkOf("evict", v, FirstPage(v)) /\ Quiet(c)
    BY FirstPageIs, CallsAre
  <2>3. PICK n \in Seq(Calls) : n = Now(t, c) /\ Clean(n)
    BY <1>2, <2>2, NowIs
  <2>4. QuietStack(t)
    BY <1>2, <2>1, <2>2, <2>3, QuietStackIs
  <2>5. OnlyRefs /\ SameObjs
    BY <2>1, RefsOf DEF SameObjs, Sound, Types
  <2> QED BY <2>4, <2>5, QuietSound
<1>5. CASE ~ (vnode[v].nres = vnode[v].refs - 1 /\ ~ query_vnode(v))
  <2> DEFINE sound == 0 <= vnode[v].nres /\ vnode[v].nres < vnode[v].refs /\ ~ vnode[v].busy
  <2>1. Unref(t, v, sound)
    BY <1>3, <1>5 DEF vput
  <2>2. sound => vnode[v].refs > 0
    <3>1. vnode[v].nres \in Int /\ vnode[v].refs \in Int
      BY DEF Sound, Types, Vnodes
    <3> QED BY <3>1
  <2> HIDE DEF sound
  <2> QED BY <1>2, <2>1, <2>2, UnrefSound
<1> QED BY <1>4, <1>5

\* The loop of vput over the pages.
LEMMA EvictNextSound ==
    ASSUME Sound, NEW t \in VnThreads, evict_next(t), ~ vnpanic'
    PROVE  Sound'
<1>1. In(t, "evict")
  BY DEF evict_next
<1>2. /\ stack[t] \in Seq(Calls) /\ stack[t] # <<>> /\ Clean(stack[t]) /\ CleanBelow(stack[t])
      /\ Call(t).x \in VnSlots /\ Call(t) \in Calls /\ Call(t).op = "evict" /\ Call(t).link \in PageLinks
  BY <1>1, CallFacts DEF Typed
<1>3. CASE Call(t).link > 0
  <2> DEFINE c == [Call(t) EXCEPT !.op = "page", !.next = PageAfter(Call(t).link)]
  <2>1. /\ stack' = [stack EXCEPT ![t] = Now(t, c)]
        /\ vnode' = vnode /\ inuse' = inuse /\ frame' = frame
    BY <1>3 DEF evict_next, Continue
  <2>2. Call(t).link \in VnFrames /\ PageAfter(Call(t).link) \in PageLinks /\ PageAfter(Call(t).link) \in Int
    BY <1>2, <1>3, PageLinksAre, PageAfterIs
  <2>3. c \in Calls /\ Quiet(c)
    BY <1>2, <2>2 DEF Calls, Typed, Ops, Quiet
  <2> HIDE DEF c
  <2>4. PICK n \in Seq(Calls) : n = Now(t, c) /\ Clean(n)
    BY <1>2, <2>3, NowIs
  <2>5. QuietStack(t)
    BY <1>2, <2>1, <2>4, QuietStackIs
  <2>6. OnlyRefs /\ SameObjs
    BY <2>1, RefsOf DEF SameObjs, Sound, Types
  <2> QED BY <2>5, <2>6, QuietSound
<1>4. CASE ~ (Call(t).link > 0)
  <2>1. PICK v \in VnSlots : v = Call(t).x
    BY <1>2
  <2> DEFINE sound == Call(t).link = -v /\ vnode[v].nres = 0 /\ vnode[v].refs = 1
  <2>2. Unref(t, v, sound)
    BY <1>4, <2>1 DEF evict_next
  <2>3. sound => vnode[v].refs > 0
    OBVIOUS
  <2> HIDE DEF sound
  <2> QED BY <1>2, <2>2, <2>3, UnrefSound
<1> QED BY <1>3, <1>4

\* A vnode in use gets a page, or loses one.
LEMMA PageMoves ==
    ASSUME Sound, NEW t \in VnThreads, QuietStack(t), NEW v \in VnSlots, NEW r, Replaced(v, r), inuse' = inuse,
           v \in Range(inuse), ~ vnode[v].busy, r.ino = vnode[v].ino, ~ r.busy, r.nres = Len(r.pages),
           frame' \in [VnFrames -> Pframes], ListOf(r.pages, {g \in VnFrames : frame'[g].obj = v}),
           \A g \in VnFrames : \A w \in VnSlots : w # v => (frame'[g].obj = w <=> frame[g].obj = w)
    PROVE  Sound'
<1>1. Types'
  BY DEF Sound, Types, Replaced, QuietStack
<1>2. TopInv' /\ \A s \in VnThreads : \A w : Works(stack'[s], w) <=> Works(stack[s], w)
  BY QuietWorks
<1>3. \A w \in VnSlots : vnode'[w].ino = vnode[w].ino /\ (vnode'[w].busy <=> vnode[w].busy)
  BY DEF Replaced
<1>4. Distinct'
  BY <1>3 DEF Sound, Types, Distinct
<1>5. PagesInv'
  <2>1. \A w \in VnSlots : w # v => {g \in VnFrames : frame'[g].obj = w} = {g \in VnFrames : frame[g].obj = w}
    OBVIOUS
  <2> QED BY <2>1 DEF Sound, PagesInv, Replaced
<1>6. PlaceInv'
  BY DEF Sound, PlaceInv, Replaced
<1>7. BusyInv'
  BY <1>2, <1>3 DEF Sound, BusyInv
<1> QED BY <1>1, <1>2, <1>4, <1>5, <1>6, <1>7 DEF Sound

\* pframe_free, in a thread that is then in vput.
LEMMA FreeSound ==
    ASSUME Sound, NEW t \in VnThreads, NEW f \in VnFrames, NEW sound, NEW calls \in Seq(Calls),
           Clean(calls), Clean(stack[t]), pframe_free(t, f, sound, calls), inuse' = inuse, ~ vnpanic'
    PROVE  Sound'
<1>1. frame[f].obj # 0
  BY DEF pframe_free, KASSERT
<1>2. frame \in [VnFrames -> Pframes] /\ vnode \in [VnSlots -> Vnodes]
  BY DEF Sound, Types
<1>3. PICK v \in VnSlots : v = frame[f].obj
  BY <1>1, <1>2 DEF Pframes
<1>4. /\ frame' = [frame EXCEPT ![f] = FreePframe]
      /\ vnode' = [vnode EXCEPT ![v].nres = @ - 1, ![v].pages = list_remove(@, f)]
      /\ stack' = [stack EXCEPT ![t] = Append(calls, CallOf("vput", v))]
  BY <1>1, <1>3 DEF pframe_free, KASSERT, Continue
<1> DEFINE S == {g \in VnFrames : frame[g].obj = v}
<1>5. PICK new : new = list_remove(vnode[v].pages, f)
  OBVIOUS
<1>6. ListOf(vnode[v].pages, S) /\ f \in S /\ vnode[v].nres = Len(vnode[v].pages)
  BY <1>3 DEF Sound, PagesInv
<1>7. ListOf(new, S \ {f}) /\ Len(new) = Len(vnode[v].pages) - 1
  BY <1>5, <1>6, RemoveLink
<1>8. new \in Seq(VnFrames) /\ Len(new) \in Nat
  BY <1>7 DEF ListOf
<1>9. PICK r : r = [vnode[v] EXCEPT !.nres = vnode[v].nres - 1, !.pages = new]
  OBVIOUS
<1>10. r \in Vnodes /\ r.ino = vnode[v].ino /\ r.busy = vnode[v].busy /\ r.nres = Len(r.pages) /\ r.pages = new
  <2>1. vnode[v].nres - 1 = Len(new) /\ vnode[v].nres - 1 \in Int
    BY <1>6, <1>7, <1>8
  <2>2. /\ r \in Vnodes /\ r.ino = vnode[v].ino /\ r.busy = vnode[v].busy
        /\ r.nres = vnode[v].nres - 1 /\ r.pages = new
    BY <1>2, <1>8, <1>9, <2>1 DEF Vnodes
  <2> QED BY <2>1, <2>2
<1>11. Replaced(v, r)
  <2>1. vnode' = [vnode EXCEPT ![v] = r]
    BY <1>2, <1>4, <1>5, <1>9
  <2> QED BY <1>10, <2>1, ReplacedIs
<1>12. /\ frame' \in [VnFrames -> Pframes] /\ frame'[f].obj = 0
       /\ \A g \in VnFrames : g # f => frame'[g] = frame[g]
  BY <1>2, <1>4 DEF FreePframe, Pframes
<1>13. v \in Range(inuse) /\ ~ vnode[v].busy
  <2>1. vnode[v].pages # <<>>
    BY <1>6 DEF ListOf
  <2> QED BY <2>1 DEF Sound, PlaceInv
<1>14. QuietStack(t)
  <2>1. PICK n : n = Append(calls, CallOf("vput", v))
    OBVIOUS
  <2>2. n \in Seq(Calls) /\ Clean(n)
    BY <2>1, CallsAre, EnterIs
  <2> QED BY <1>4, <2>1, <2>2, QuietStackIs
<1>15. 0 \notin VnSlots
  BY VnodeAssumption
<1>16. {g \in VnFrames : frame'[g].obj = v} = S \ {f}
  BY <1>12, <1>15
<1>17. \A g \in VnFrames : \A w \in VnSlots : w # v => (frame'[g].obj = w <=> frame[g].obj = w)
  BY <1>3, <1>12, <1>15
<1> HIDE DEF S
<1> QED BY <1>7, <1>10, <1>11, <1>12, <1>13, <1>14, <1>16, <1>17, PageMoves

\* A page of an unlinked file goes.
LEMMA EvictFreesSound ==
    ASSUME Sound, NEW t \in VnThreads, evict_frees(t), ~ vnpanic'
    PROVE  Sound'
<1>1. In(t, "page")
  BY DEF evict_frees
<1>2. /\ stack[t] \in Seq(Calls) /\ stack[t] # <<>> /\ Clean(stack[t]) /\ CleanBelow(stack[t])
      /\ Call(t).x \in VnSlots /\ Call(t).link \in VnFrames /\ Call(t).next \in PageLinks
  BY <1>1, CallFacts DEF Typed
<1>3. PICK n : n = Now(t, WalkOf("evict", Call(t).x, Call(t).next))
  OBVIOUS
<1>4. n \in Seq(Calls) /\ Clean(n)
  <2>1. PICK c \in Calls : c = WalkOf("evict", Call(t).x, Call(t).next) /\ Quiet(c)
    BY <1>2, CallsAre
  <2> QED BY <1>2, <1>3, <2>1, NowIs
<1>5. pframe_free(t, Call(t).link, TRUE, n) /\ inuse' = inuse
  BY <1>3 DEF evict_frees
<1> QED BY <1>2, <1>4, <1>5, FreeSound

\* vnode_flush_all frees a page, or has freed all of the vnode's.
LEMMA FlushPageSound ==
    ASSUME Sound, flush_page, ~ vnpanic'
    PROVE  Sound'
<1>0. Idle \in VnThreads
  BY DEF VnThreads
<1>1. In(Idle, "uncache")
  BY DEF flush_page
<1>2. /\ stack[Idle] \in Seq(Calls) /\ stack[Idle] # <<>> /\ Clean(stack[Idle]) /\ CleanBelow(stack[Idle])
      /\ Call(Idle).x \in VnSlots /\ Call(Idle).link \in PageLinks
  BY <1>0, <1>1, CallFacts DEF Typed
<1>3. CASE Call(Idle).link > 0
  <2>0. PICK f \in VnFrames : f = Call(Idle).link
    BY <1>2, <1>3, PageLinksAre
  <2>1. PICK n : n = Now(Idle, WalkOf("uncache", Call(Idle).x, PageAfter(f)))
    OBVIOUS
  <2>2. n \in Seq(Calls) /\ Clean(n)
    <3>1. PICK c \in Calls : c = WalkOf("uncache", Call(Idle).x, PageAfter(f)) /\ Quiet(c)
      BY <1>2, PageAfterIs, CallsAre
    <3> QED BY <1>2, <2>1, <3>1, NowIs
  <2>3. pframe_free(Idle, f, ~ frame[f].dirty, n) /\ inuse' = inuse
    BY <1>3, <2>0, <2>1 DEF flush_page
  <2> QED BY <1>0, <1>2, <2>2, <2>3, FreeSound
<1>4. CASE ~ (Call(Idle).link > 0)
  <2>1. /\ stack' = [stack EXCEPT ![Idle] = SubSeq(stack[Idle], 1, Len(stack[Idle]) - 1)]
        /\ vnode' = vnode /\ inuse' = inuse /\ frame' = frame
    BY <1>4 DEF flush_page, LeaveCall
  <2>2. QuietStack(Idle)
    BY <1>0, <1>2, <2>1, ReturnIs, QuietStackIs
  <2>3. OnlyRefs /\ SameObjs
    BY <2>1, RefsOf DEF SameObjs, Sound, Types
  <2> QED BY <1>0, <2>2, <2>3, QuietSound
<1> QED BY <1>3, <1>4
-----------------------------------------------------------------------------
(***************************************************************************)
(* The other steps.                                                        *)
(***************************************************************************)
\* A thread outside of all calls, and one in a single call.
LEMMA FewCalls ==
    /\ <<>> \in Seq(Calls) /\ Clean(<<>>)
    /\ \A c \in Calls : Quiet(c) => <<c>> \in Seq(Calls) /\ Clean(<<c>>)
    /\ \A b, c \in Calls : Quiet(b) /\ Quiet(c) => <<b, c>> \in Seq(Calls) /\ Clean(<<b, c>>)
<1>1. <<>> \in Seq(Calls) /\ Clean(<<>>)
  BY DEF Clean
<1>2. ASSUME NEW c \in Calls, Quiet(c) PROVE <<c>> \in Seq(Calls) /\ Clean(<<c>>)
  BY <1>2 DEF Clean
<1>3. ASSUME NEW b \in Calls, NEW c \in Calls, Quiet(b), Quiet(c) PROVE <<b, c>> \in Seq(Calls) /\ Clean(<<b, c>>)
  <2>1. PICK n : n = <<b, c>>
    OBVIOUS
  <2>2. n \in Seq(Calls) /\ Len(n) = 2 /\ n[1] = b /\ n[2] = c
    BY <2>1
  <2>3. Clean(n)
    BY <1>3, <2>2 DEF Clean
  <2> QED BY <2>1, <2>2, <2>3
<1> QED BY <1>1, <1>2, <1>3

\* A step that goes to other calls, and moves no page.
LEMMA CallsSound ==
    ASSUME Sound, NEW t \in VnThreads, Clean(stack[t]), NEW n \in Seq(Calls), Clean(n),
           stack' = [stack EXCEPT ![t] = n], OnlyRefs, SameObjs
    PROVE  Sound'
  BY QuietStackIs, QuietSound

\* pframe_fill begins.
LEMMA GetPageSound ==
    ASSUME Sound, NEW t \in VnThreads, NEW v \in VnSlots, NEW f \in VnFrames, get_page(t, v, f), ~ vnpanic'
    PROVE  Sound'
<1>1. /\ stack[t] = <<>> /\ frame[f].obj = 0 /\ inuse' = inuse /\ vnode[v].refs > 0
      /\ frame' = [frame EXCEPT ![f] = [obj |-> v, busy |-> TRUE, dirty |-> FALSE]]
      /\ vnode' = [vnode EXCEPT ![v].refs = @ + 1, ![v].nres = @ + 1, ![v].pages = <<f>> \o @]
      /\ stack' = [stack EXCEPT ![t] = <<CallOf("io", f)>>]
  BY DEF get_page, Outside, KASSERT, BlockIn
<1>2. frame \in [VnFrames -> Pframes] /\ vnode \in [VnSlots -> Vnodes]
  BY DEF Sound, Types
<1> DEFINE S == {g \in VnFrames : frame[g].obj = v}
<1>3. PICK new : new = <<f>> \o vnode[v].pages
  OBVIOUS
<1>4. 0 \notin VnSlots
  BY VnodeAssumption
<1>5. ListOf(vnode[v].pages, S) /\ f \notin S /\ vnode[v].nres = Len(vnode[v].pages)
      /\ vnode[v].pages \in Seq(VnFrames)
  BY <1>1, <1>2, <1>4 DEF Sound, PagesInv, Vnodes
<1>6. ListOf(new, S \cup {f}) /\ Len(new) = Len(vnode[v].pages) + 1 /\ new \in Seq(VnFrames)
  <2>1. ListOf(new, S \cup {f})
    BY <1>3, <1>5, PushLink
  <2>2. Len(new) = Len(vnode[v].pages) + 1 /\ new \in Seq(VnFrames)
    BY <1>3, <1>5
  <2> QED BY <2>1, <2>2
<1>7. PICK r : r = [vnode[v] EXCEPT !.refs = vnode[v].refs + 1, !.nres = vnode[v].nres + 1, !.pages = new]
  OBVIOUS
<1>8. r \in Vnodes /\ r.ino = vnode[v].ino /\ r.busy = vnode[v].busy /\ r.nres = Len(r.pages) /\ r.pages = new
  <2>1. vnode[v].nres + 1 = Len(new) /\ vnode[v].nres + 1 \in Int /\ vnode[v].refs + 1 \in Int
    BY <1>2, <1>5, <1>6 DEF Vnodes
  <2>2. /\ r \in Vnodes /\ r.ino = vnode[v].ino /\ r.busy = vnode[v].busy
        /\ r.nres = vnode[v].nres + 1 /\ r.pages = new
    BY <1>2, <1>6, <1>7, <2>1 DEF Vnodes
  <2> QED BY <2>1, <2>2
<1>9. Replaced(v, r)
  <2>1. vnode' = [vnode EXCEPT ![v] = r]
    BY <1>1, <1>2, <1>3, <1>7
  <2> QED BY <1>8, <2>1, ReplacedIs
<1>10. /\ frame' \in [VnFrames -> Pframes] /\ frame'[f].obj = v
       /\ \A g \in VnFrames : g # f => frame'[g] = frame[g]
  <2>1. PICK p : p = [obj |-> v, busy |-> TRUE, dirty |-> FALSE]
    OBVIOUS
  <2>2. p \in Pframes /\ p.obj = v
    BY <2>1 DEF Pframes
  <2> QED BY <1>1, <1>2, <2>1, <2>2
<1>11. v \in Range(inuse) /\ ~ vnode[v].busy /\ inuse' = inuse
  BY <1>1 DEF Sound, PlaceInv
<1>12. QuietStack(t)
  <2>1. PICK n : n = <<CallOf("io", f)>>
    OBVIOUS
  <2>2. n \in Seq(Calls) /\ Clean(n) /\ Clean(stack[t])
    BY <1>1, <2>1, CallsAre, FewCalls
  <2> QED BY <1>1, <2>1, <2>2, QuietStackIs
<1>13. {g \in VnFrames : frame'[g].obj = v} = S \cup {f}
  BY <1>10
<1>14. \A g \in VnFrames : \A w \in VnSlots : w # v => (frame'[g].obj = w <=> frame[g].obj = w)
  BY <1>1, <1>4, <1>10
<1> HIDE DEF S
<1>15. ListOf(r.pages, {g \in VnFrames : frame'[g].obj = v}) /\ ~ r.busy
  BY <1>6, <1>8, <1>11, <1>13
<1> QED BY <1>8, <1>9, <1>10, <1>11, <1>12, <1>14, <1>15, PageMoves

\* A frame gets other flags.
LEMMA FlagsKeepObjs ==
    ASSUME Sound, NEW f \in VnFrames, NEW b \in BOOLEAN, NEW d \in BOOLEAN
    PROVE  /\ frame' = frame => SameObjs
           /\ frame' = [frame EXCEPT ![f].dirty = d] => SameObjs
           /\ frame' = [frame EXCEPT ![f].busy = b] => SameObjs
           /\ frame' = [frame EXCEPT ![f].dirty = d, ![f].busy = b] => SameObjs
<1>1. frame \in [VnFrames -> Pframes]
  BY DEF Sound, Types
<1>2. ASSUME NEW p \in Pframes, p.obj = frame[f].obj, frame' = [frame EXCEPT ![f] = p] PROVE SameObjs
  BY <1>1, <1>2 DEF SameObjs
<1>3. ASSUME frame' = [frame EXCEPT ![f].dirty = d] PROVE SameObjs
  <2>1. PICK p : p = [frame[f] EXCEPT !.dirty = d]
    OBVIOUS
  <2>2. p \in Pframes /\ p.obj = frame[f].obj
    BY <1>1, <2>1 DEF Pframes
  <2>3. frame' = [frame EXCEPT ![f] = p]
    BY <1>1, <1>3, <2>1
  <2> QED BY <1>2, <2>2, <2>3
<1>4. ASSUME frame' = [frame EXCEPT ![f].busy = b] PROVE SameObjs
  <2>1. PICK p : p = [frame[f] EXCEPT !.busy = b]
    OBVIOUS
  <2>2. p \in Pframes /\ p.obj = frame[f].obj
    BY <1>1, <2>1 DEF Pframes
  <2>3. frame' = [frame EXCEPT ![f] = p]
    BY <1>1, <1>4, <2>1
  <2> QED BY <1>2, <2>2, <2>3
<1>5. ASSUME frame' = [frame EXCEPT ![f].dirty = d, ![f].busy = b] PROVE SameObjs
  <2>1. PICK p : p = [frame[f] EXCEPT !.dirty = d, !.busy = b]
    OBVIOUS
  <2>2. p \in Pframes /\ p.obj = frame[f].obj
    BY <1>1, <2>1 DEF Pframes
  <2>3. frame' = [frame EXCEPT ![f] = p]
    BY <1>1, <1>5, <2>1
  <2> QED BY <1>2, <2>2, <2>3
<1>6. frame' = frame => SameObjs
  BY <1>1 DEF SameObjs
<1> QED BY <1>3, <1>4, <1>5, <1>6, Zenon

\* pframe_clean begins, in a thread that is then in it.
LEMMA CleanSound ==
    ASSUME Sound, NEW t \in VnThreads, NEW f \in VnFrames, NEW calls \in Seq(Calls),
           Clean(calls), Clean(stack[t]), pframe_clean(t, f, calls)
    PROVE  Sound'
<1>1. /\ frame' = [frame EXCEPT ![f].dirty = FALSE, ![f].busy = TRUE]
      /\ stack' = [stack EXCEPT ![t] = Append(calls, CallOf("io", f))]
      /\ vnode' = vnode /\ inuse' = inuse
  BY DEF pframe_clean, BlockIn
<1>2. SameObjs
  <2>1. TRUE \in BOOLEAN /\ FALSE \in BOOLEAN
    OBVIOUS
  <2> QED BY <1>1, <2>1, FlagsKeepObjs, Zenon
<1>3. PICK n : n = Append(calls, CallOf("io", f))
  OBVIOUS
<1>4. n \in Seq(Calls) /\ Clean(n)
  BY <1>3, CallsAre, EnterIs
<1> QED BY <1>1, <1>2, <1>3, <1>4, RefsOf, CallsSound

\* The page-out daemon cleans or frees a page.
LEMMA PageoutSound ==
    ASSUME Sound, NEW f \in VnFrames, pageoutd_run(f), ~ vnpanic'
    PROVE  Sound'
<1>1. VnPageoutd \in VnThreads /\ stack[VnPageoutd] = <<>>
  BY DEF VnThreads, pageoutd_run, Outside
<1>2. <<>> \in Seq(Calls) /\ Clean(<<>>)
  BY FewCalls
<1>3. CASE pframe_clean(VnPageoutd, f, <<>>)
  BY <1>1, <1>2, <1>3, CleanSound
<1>4. CASE pframe_free(VnPageoutd, f, TRUE, <<>>) /\ inuse' = inuse
  BY <1>1, <1>2, <1>4, FreeSound
<1> QED BY <1>3, <1>4 DEF pageoutd_run

\* vnode_flush_all cleans a page.
LEMMA FlushCleansSound ==
    ASSUME Sound, flush_cleans
    PROVE  Sound'
<1>1. Idle \in VnThreads /\ In(Idle, "flush")
  BY DEF VnThreads, flush_cleans
<1>2. stack[Idle] \in Seq(Calls) /\ Clean(stack[Idle])
  BY <1>1, CallFacts
<1>3. PICK f \in VnFrames : pframe_clean(Idle, f, stack[Idle])
  BY DEF flush_cleans, Dirty
<1> QED BY <1>1, <1>2, <1>3, CleanSound

\* The page's I/O is over.
LEMMA IoDoneSound ==
    ASSUME Sound, NEW t \in VnThreads, io_done(t)
    PROVE  Sound'
<1>1. /\ In(t, "io") /\ frame' = [frame EXCEPT ![Call(t).x].busy = FALSE]
      /\ stack' = [stack EXCEPT ![t] = SubSeq(stack[t], 1, Len(stack[t]) - 1)]
      /\ vnode' = vnode /\ inuse' = inuse
  BY DEF io_done, LeaveCall
<1>2. /\ stack[t] \in Seq(Calls) /\ stack[t] # <<>> /\ CleanBelow(stack[t]) /\ Clean(stack[t])
      /\ Call(t).x \in VnFrames
  BY <1>1, CallFacts DEF Typed
<1>3. SameObjs
  <2>1. TRUE \in BOOLEAN /\ FALSE \in BOOLEAN
    OBVIOUS
  <2> QED BY <1>1, <1>2, <2>1, FlagsKeepObjs, Zenon
<1> PICK n : n = SubSeq(stack[t], 1, Len(stack[t]) - 1)
  OBVIOUS
<1>4. n \in Seq(Calls) /\ Clean(n)
  BY <1>2, ReturnIs
<1> QED BY <1>1, <1>2, <1>3, <1>4, RefsOf, CallsSound

\* vget finds the vnode.
LEMMA VgetFoundSound ==
    ASSUME Sound, NEW t \in VnThreads, vget_found(t), ~ vnpanic'
    PROVE  Sound'
<1>1. In(t, "vget") /\ inuse' = inuse /\ frame' = frame
      /\ stack' = [stack EXCEPT ![t] = SubSeq(stack[t], 1, Len(stack[t]) - 1)]
  BY DEF vget_found, LeaveCall
<1>2. stack[t] \in Seq(Calls) /\ stack[t] # <<>> /\ CleanBelow(stack[t]) /\ Clean(stack[t])
  BY <1>1, CallFacts
<1>3. PICK v \in Cached(Call(t).x) : ~ vnode[v].busy /\ vnode' = [vnode EXCEPT ![v].refs = vnode[v].refs + 1]
  BY DEF vget_found
<1>4. v \in VnSlots /\ v \in Range(inuse) /\ vnode[v].refs + 1 \in Int
  BY CachedIs DEF Sound, Types, Vnodes
<1>5. OnlyRefs
  BY <1>1, <1>3, <1>4, RefsOf
<1>6. SameObjs
  BY <1>1 DEF SameObjs, Sound, Types
<1> PICK n : n = SubSeq(stack[t], 1, Len(stack[t]) - 1)
  OBVIOUS
<1>7. n \in Seq(Calls) /\ Clean(n)
  BY <1>2, ReturnIs
<1> QED BY <1>1, <1>2, <1>5, <1>6, <1>7, CallsSound

\* There is no room for the vnode, and vget looks again.
LEMMA VgetYieldsSound ==
    ASSUME Sound, NEW t \in VnThreads, vget_yields(t)
    PROVE  Sound'
<1>1. In(t, "vget") /\ inuse' = inuse /\ frame' = frame /\ vnode' = vnode
      /\ stack' = [stack EXCEPT ![t] = stack[t]]
  BY DEF vget_yields, BlockIn
<1>2. stack[t] \in Seq(Calls) /\ Clean(stack[t])
  BY <1>1, CallFacts
<1>3. OnlyRefs /\ SameObjs
  BY <1>1, RefsOf DEF SameObjs, Sound, Types
<1> QED BY <1>1, <1>2, <1>3, CallsSound

\* A thread outside of all calls uses a vnode, or goes to vget or vput.
LEMMA UseSound ==
    ASSUME Sound, NEW t \in VnCallers, VnodeUse(t), ~ vnpanic'
    PROVE  Sound'
<1>0. t \in VnThreads
  BY DEF VnThreads
<1>1. stack[t] = <<>> /\ Clean(stack[t])
  <2>1. stack[t] = <<>>
    BY DEF VnodeUse, get_file, link_file, vref, put_file, dirty_page, get_page, Outside
  <2> QED BY <2>1, FewCalls
<1>2. ASSUME NEW i \in VnInodes, get_file(t, i) PROVE Sound'
  <2>1. /\ stack' = [stack EXCEPT ![t] = <<CallOf("vget", i)>>]
        /\ vnode' = vnode /\ inuse' = inuse /\ frame' = frame
    BY <1>2 DEF get_file, Continue
  <2>2. <<CallOf("vget", i)>> \in Seq(Calls) /\ Clean(<<CallOf("vget", i)>>)
    BY CallsAre, FewCalls
  <2>3. OnlyRefs /\ SameObjs
    BY <2>1, RefsOf DEF SameObjs, Sound, Types
  <2> QED BY <1>0, <1>1, <2>1, <2>2, <2>3, CallsSound
<1>3. ASSUME NEW v \in VnSlots, link_file(t, v) PROVE Sound'
  BY <1>3, SameSound DEF link_file
<1>4. ASSUME NEW v \in VnSlots, vref(t, v) PROVE Sound'
  <2>1. /\ stack' = stack /\ inuse' = inuse /\ frame' = frame /\ vnode[v].refs > 0
        /\ vnode' = [vnode EXCEPT ![v].refs = vnode[v].refs + 1]
    BY <1>4 DEF vref, KASSERT
  <2>2. v \in Range(inuse) /\ ~ vnode[v].busy /\ vnode[v].refs + 1 \in Int
    BY <2>1 DEF Sound, PlaceInv, Types, Vnodes
  <2>3. OnlyRefs
    BY <2>1, <2>2, RefsOf
  <2>4. SameObjs
    BY <2>1 DEF SameObjs, Sound, Types
  <2> QED BY <1>0, <1>1, <2>1, <2>3, <2>4, QuietStackIs, QuietSound
<1>5. ASSUME NEW v \in VnSlots, put_file(t, v) PROVE Sound'
  <2>1. /\ stack' = [stack EXCEPT ![t] = <<CallOf("vput", v)>>]
        /\ vnode' = vnode /\ inuse' = inuse /\ frame' = frame
    BY <1>5 DEF put_file, Continue
  <2>2. <<CallOf("vput", v)>> \in Seq(Calls) /\ Clean(<<CallOf("vput", v)>>)
    BY CallsAre, FewCalls
  <2>3. OnlyRefs /\ SameObjs
    BY <2>1, RefsOf DEF SameObjs, Sound, Types
  <2> QED BY <1>0, <1>1, <2>1, <2>2, <2>3, CallsSound
<1>6. ASSUME NEW f \in VnFrames, dirty_page(t, f) PROVE Sound'
  <2>1. /\ frame' = [frame EXCEPT ![f].dirty = TRUE]
        /\ stack' = stack /\ vnode' = vnode /\ inuse' = inuse
    BY <1>6 DEF dirty_page
  <2>2. SameObjs
    <3>1. TRUE \in BOOLEAN /\ FALSE \in BOOLEAN
      OBVIOUS
    <3> QED BY <2>1, <3>1, FlagsKeepObjs, Zenon
  <2> QED BY <1>0, <1>1, <2>1, <2>2, RefsOf, QuietStackIs, QuietSound
<1>7. ASSUME NEW f \in VnFrames, NEW v \in VnSlots, get_page(t, v, f) PROVE Sound'
  BY <1>0, <1>7, GetPageSound
<1> QED BY <1>2, <1>3, <1>4, <1>5, <1>6, <1>7 DEF VnodeUse

\* Vnodes are numbered.
LEMMA SlotsAre ==
    \A v \in VnSlots : v \in Int
<1> SUFFICES ASSUME NEW v \in VnSlots PROVE v \in Int
  OBVIOUS
<1>1. v \in Nat \ {0}
  BY VnodeAssumption
<1> QED BY <1>1

\* The shutdown, but for the pages it frees.
LEMMA ShutdownSound ==
    ASSUME Sound, vfs_shutdown \/ flush_cleaned \/ flush_vnode \/ vnode_inuse
    PROVE  Sound'
<1>0. Idle \in VnThreads
  BY DEF VnThreads
<1>1. vnode' = vnode /\ inuse' = inuse /\ frame' = frame
  BY DEF vfs_shutdown, flush_cleaned, flush_vnode, vnode_inuse
<1>2. OnlyRefs /\ SameObjs
  BY <1>1, RefsOf DEF SameObjs, Sound, Types
<1>3. CASE vfs_shutdown
  <2>1. stack[Idle] = <<>> /\ stack' = [stack EXCEPT ![Idle] = <<CallOf("flush", 0)>>]
    BY <1>3 DEF vfs_shutdown, Outside, Continue
  <2>2. <<CallOf("flush", 0)>> \in Seq(Calls) /\ Clean(<<CallOf("flush", 0)>>) /\ Clean(stack[Idle])
    BY <2>1, CallsAre, FewCalls
  <2> QED BY <1>0, <1>2, <2>1, <2>2, CallsSound
<1>4. CASE flush_cleaned
  <2>1. In(Idle, "flush") /\ stack' = [stack EXCEPT ![Idle] = <<WalkOf("vnodes", 0, Head(inuse))>>]
    BY <1>4 DEF flush_cleaned, Continue
  <2>2. Clean(stack[Idle])
    BY <1>0, <2>1, CallFacts
  <2>3. Head(inuse) \in Int \cup {NoVnode}
    <3>1. inuse \in Seq(VnSlots)
      BY DEF Sound, Types
    <3>2. CASE inuse = <<>>
      BY <3>2 DEF NoVnode
    <3>3. CASE inuse # <<>>
      <4>1. Head(inuse) \in VnSlots
        BY <3>1, <3>3
      <4> QED BY <4>1, SlotsAre, Zenon
    <3> QED BY <3>2, <3>3
  <2>4. PICK c \in Calls : c = WalkOf("vnodes", 0, Head(inuse)) /\ Quiet(c)
    BY <2>3, CallsAre
  <2>5. <<c>> \in Seq(Calls) /\ Clean(<<c>>)
    BY <2>4, FewCalls
  <2> QED BY <1>0, <1>2, <2>1, <2>2, <2>4, <2>5, CallsSound
<1>5. CASE flush_vnode
  <2>1. In(Idle, "vnodes")
    BY <1>5 DEF flush_vnode
  <2>2. Clean(stack[Idle])
    BY <1>0, <2>1, CallFacts
  <2>3. CASE Call(Idle).link \in Range(inuse)
    <3>1. PICK v \in Range(inuse) : v = Call(Idle).link
      BY <2>3
    <3>2. stack' = [stack EXCEPT ![Idle] = <<WalkOf("vnodes", 0, VnodeAfter(v)), WalkOf("uncache", v, FirstPage(v))>>]
      BY <1>5, <3>1 DEF flush_vnode, Continue
    <3>3. v \in VnSlots
      BY DistinctIs
    <3>4. VnodeAfter(v) \in Int
      <4> DEFINE i == CHOOSE k \in DOMAIN inuse : inuse[k] = v
      <4>1. inuse \in Seq(VnSlots) /\ -1 \in Int
        BY DEF Sound, Types
      <4>2. i \in DOMAIN inuse
        BY DEF Range
      <4>3. VnodeAfter(v) = IF i = Len(inuse) THEN EndOfVnodes ELSE inuse[i + 1]
        BY DEF VnodeAfter
      <4> HIDE DEF i
      <4>4. i # Len(inuse) => inuse[i + 1] \in VnSlots
        BY <4>1, <4>2
      <4> QED BY <4>1, <4>3, <4>4, SlotsAre, Zenon DEF EndOfVnodes
    <3>5. PICK b \in Calls : b = WalkOf("vnodes", 0, VnodeAfter(v)) /\ Quiet(b)
      BY <3>4, CallsAre
    <3>6. PICK c \in Calls : c = WalkOf("uncache", v, FirstPage(v)) /\ Quiet(c)
      BY <3>3, FirstPageIs, CallsAre
    <3>7. <<b, c>> \in Seq(Calls) /\ Clean(<<b, c>>)
      BY <3>5, <3>6, FewCalls
    <3>8. stack' = [stack EXCEPT ![Idle] = <<b, c>>]
      BY <3>2, <3>5, <3>6
    <3> QED BY <1>0, <1>2, <2>2, <3>7, <3>8, CallsSound
  <2>4. CASE Call(Idle).link \notin Range(inuse)
    <3>1. stack' = [stack EXCEPT ![Idle] = <<CallOf("halt", 0), CallOf("vput", RootSlot)>>]
      BY <1>5, <2>4 DEF flush_vnode, Continue
    <3>2. RootSlot \in VnSlots
      BY VnodeAssumption DEF RootSlot
    <3>3. PICK b \in Calls : b = CallOf("halt", 0) /\ Quiet(b)
      BY CallsAre
    <3>4. PICK c \in Calls : c = CallOf("vput", RootSlot) /\ Quiet(c)
      BY <3>2, CallsAre
    <3>5. <<b, c>> \in Seq(Calls) /\ Clean(<<b, c>>)
      BY <3>3, <3>4, FewCalls
    <3>6. stack' = [stack EXCEPT ![Idle] = <<b, c>>]
      BY <3>1, <3>3, <3>4
    <3> QED BY <1>0, <1>2, <2>2, <3>5, <3>6, CallsSound
  <2> QED BY <2>3, <2>4
<1>6. CASE vnode_inuse
  <2>1. In(Idle, "halt") /\ stack' = [stack EXCEPT ![Idle] = SubSeq(stack[Idle], 1, Len(stack[Idle]) - 1)]
    BY <1>6 DEF vnode_inuse, LeaveCall
  <2>2. stack[Idle] \in Seq(Calls) /\ stack[Idle] # <<>> /\ CleanBelow(stack[Idle]) /\ Clean(stack[Idle])
    BY <1>0, <2>1, CallFacts
  <2> PICK n : n = SubSeq(stack[Idle], 1, Len(stack[Idle]) - 1)
    OBVIOUS
  <2>3. n \in Seq(Calls) /\ Clean(n)
    BY <2>2, ReturnIs
  <2> QED BY <1>0, <1>2, <2>1, <2>2, <2>3, CallsSound
<1> QED BY <1>3, <1>4, <1>5, <1>6

\* A step after which no KASSERT has failed.
LEMMA StepSound ==
    ASSUME Sound, VnodeActions, ~ vnpanic'
    PROVE  Sound'
<1>1. ASSUME NEW t \in VnThreads, VnodeStep(t) PROVE Sound'
  <2>1. CASE vget_busy(t) \/ evict_waits(t)
    BY <2>1, SameSound DEF vget_busy, evict_waits, sched_sleep_on
  <2>2. CASE vget_found(t)
    BY <2>2, VgetFoundSound
  <2>3. CASE vget_yields(t)
    BY <2>3, VgetYieldsSound
  <2>4. CASE \E v \in VnSlots : vget_new(t, v)
    BY <2>4, VgetNewSound
  <2>5. CASE vget_read(t)
    BY <2>5, VgetReadSound
  <2>6. CASE vput(t)
    BY <2>6, VputSound
  <2>7. CASE evict_next(t)
    BY <2>7, EvictNextSound
  <2>8. CASE evict_frees(t)
    BY <2>8, EvictFreesSound
  <2>9. CASE vput_deleted(t)
    BY <2>9, VputDeletedSound
  <2>10. CASE io_done(t)
    BY <2>10, IoDoneSound
  <2> QED BY <1>1, <2>1, <2>2, <2>3, <2>4, <2>5, <2>6, <2>7, <2>8, <2>9, <2>10 DEF VnodeStep
<1>2. ASSUME NEW t \in VnCallers, VnodeUse(t) PROVE Sound'
  BY <1>2, UseSound
<1>3. ASSUME NEW f \in VnFrames, pageoutd_run(f) PROVE Sound'
  BY <1>3, PageoutSound
<1>4. CASE vfs_shutdown \/ flush_cleaned \/ flush_vnode \/ vnode_inuse
  BY <1>4, ShutdownSound
<1>5. CASE flush_cleans
  BY <1>5, FlushCleansSound
<1>6. CASE flush_page
  BY <1>6, FlushPageSound
<1> QED BY <1>1, <1>2, <1>3, <1>4, <1>5, <1>6 DEF VnodeActions
-----------------------------------------------------------------------------
(***************************************************************************)
(* Failed KASSERTs, and the theorem.                                       *)
(***************************************************************************)
\* pframe_free touches no vnode when one of its KASSERTs fails.
LEMMA FreePanics ==
    ASSUME NEW t, NEW f, NEW sound, NEW calls, pframe_free(t, f, sound, calls), ~ vnpanic, vnpanic'
    PROVE  vnode' = vnode
  BY DEF pframe_free, KASSERT

\* vput changes no vnode's file, whatever its KASSERTs find.
LEMMA UnrefInos ==
    ASSUME Sound, NEW t, NEW v \in VnSlots, NEW sound, Unref(t, v, sound)
    PROVE  InosKept
<1>1. vnode \in [VnSlots -> Vnodes] /\ inuse' = inuse
  BY DEF Sound, Types, Unref
<1>2. PICK r : vnode' = [vnode EXCEPT ![v] = r] /\ r.ino = vnode[v].ino
  <2>1. CASE vnode[v].refs > 1
    <3>1. PICK r : r = [vnode[v] EXCEPT !.refs = vnode[v].refs - 1]
      OBVIOUS
    <3>2. vnode' = [vnode EXCEPT ![v] = r]
      BY <1>1, <2>1, <3>1 DEF Unref
    <3>3. r.ino = vnode[v].ino
      BY <1>1, <3>1 DEF Vnodes
    <3> QED BY <3>2, <3>3
  <2>2. CASE ~ (vnode[v].refs > 1)
    <3>1. PICK r : r = With(vnode[v], 0, TRUE)
      OBVIOUS
    <3>2. vnode' = [vnode EXCEPT ![v] = r]
      BY <1>1, <2>2, <3>1 DEF Unref, With
    <3>3. r.ino = vnode[v].ino
      <4>1. 0 \in Int /\ TRUE \in BOOLEAN /\ vnode[v] \in Vnodes
        BY <1>1
      <4> QED BY <3>1, <4>1, WithIs, Zenon
    <3> QED BY <3>2, <3>3
  <2> QED BY <2>1, <2>2
<1> QED BY <1>1, <1>2 DEF InosKept

\* Nor does a step in which a KASSERT fails.
LEMMA PanicInos ==
    ASSUME Sound, ~ vnpanic, VnodeActions, vnpanic'
    PROVE  InosKept
<1>1. vnode \in [VnSlots -> Vnodes]
  BY DEF Sound, Types
<1>2. vnode' = vnode /\ inuse' = inuse => InosKept
  BY DEF InosKept
<1>3. ASSUME NEW v \in VnSlots, NEW m, vnode' = [vnode EXCEPT ![v].refs = m], inuse' = inuse PROVE InosKept
  <2>1. PICK r : r = [vnode[v] EXCEPT !.refs = m]
    OBVIOUS
  <2>2. vnode' = [vnode EXCEPT ![v] = r]
    BY <1>1, <1>3, <2>1
  <2>3. r.ino = vnode[v].ino
    BY <1>1, <2>1 DEF Vnodes
  <2> QED BY <1>1, <1>3, <2>2, <2>3 DEF InosKept
<1>4. ASSUME NEW t \in VnThreads, VnodeStep(t) PROVE InosKept
  <2>1. CASE vget_found(t)
    <3>1. PICK v \in Cached(Call(t).x) : vnode' = [vnode EXCEPT ![v].refs = vnode[v].refs + 1]
      BY <2>1 DEF vget_found
    <3>2. v \in VnSlots /\ inuse' = inuse
      BY <2>1, CachedIs DEF vget_found
    <3> QED BY <1>3, <3>1, <3>2
  <2>2. CASE vput(t)
    <3>1. PICK v \in VnSlots : v = Call(t).x
      <4>1. In(t, "vput")
        BY <2>2 DEF vput
      <4> QED BY <4>1, CallFacts DEF Typed
    <3>2. CASE vnode' = vnode /\ inuse' = inuse
      BY <1>2, <3>2
    <3>3. CASE \E sound : Unref(t, v, sound)
      BY <3>3, UnrefInos
    <3> QED BY <2>2, <3>1, <3>2, <3>3 DEF vput
  <2>3. CASE evict_next(t)
    <3>1. PICK v \in VnSlots : v = Call(t).x
      <4>1. In(t, "evict")
        BY <2>3 DEF evict_next
      <4> QED BY <4>1, CallFacts DEF Typed
    <3>2. CASE vnode' = vnode /\ inuse' = inuse
      BY <1>2, <3>2
    <3>3. CASE \E sound : Unref(t, v, sound)
      BY <3>3, UnrefInos
    <3> QED BY <2>3, <3>1, <3>2, <3>3 DEF evict_next
  <2>4. CASE evict_frees(t)
    <3>1. inuse' = inuse /\ \E f, sound, calls : pframe_free(t, f, sound, calls)
      BY <2>4 DEF evict_frees
    <3> QED BY <1>2, <3>1, FreePanics
  <2>5. CASE \/ vget_busy(t) \/ vget_yields(t) \/ (\E v \in VnSlots : vget_new(t, v)) \/ vget_read(t)
             \/ evict_waits(t) \/ vput_deleted(t) \/ io_done(t)
    BY <2>5 DEF vget_busy, vget_yields, vget_new, vget_read, evict_waits, vput_deleted, io_done
  <2> QED BY <1>4, <2>1, <2>2, <2>3, <2>4, <2>5 DEF VnodeStep
<1>5. ASSUME NEW t \in VnCallers, VnodeUse(t) PROVE InosKept
  <2>1. CASE \E v \in VnSlots : vref(t, v)
    <3>1. PICK v \in VnSlots : vref(t, v)
      BY <2>1
    <3>2. vnode' = [vnode EXCEPT ![v].refs = vnode[v].refs + 1] /\ inuse' = inuse
      BY <3>1 DEF vref
    <3> QED BY <1>3, <3>2
  <2>2. CASE \E f \in VnFrames, v \in VnSlots : get_page(t, v, f)
    <3>1. PICK f \in VnFrames, v \in VnSlots : get_page(t, v, f)
      BY <2>2
    <3>2. PICK r : r = [vnode[v] EXCEPT !.refs = @ + 1, !.nres = @ + 1, !.pages = <<f>> \o @]
      OBVIOUS
    <3>3. vnode' = [vnode EXCEPT ![v] = r] /\ inuse' = inuse
      BY <1>1, <3>1, <3>2 DEF get_page
    <3>4. r.ino = vnode[v].ino
      BY <1>1, <3>2 DEF Vnodes
    <3> QED BY <1>1, <3>3, <3>4 DEF InosKept
  <2>3. CASE \/ \E i \in VnInodes : get_file(t, i)
             \/ \E v \in VnSlots : link_file(t, v) \/ put_file(t, v)
             \/ \E f \in VnFrames : dirty_page(t, f)
    BY <2>3 DEF get_file, link_file, put_file, dirty_page
  <2> QED BY <1>5, <2>1, <2>2, <2>3 DEF VnodeUse
<1>6. ASSUME NEW f \in VnFrames, pageoutd_run(f) PROVE InosKept
  <2>1. CASE pframe_clean(VnPageoutd, f, <<>>)
    BY <2>1 DEF pframe_clean
  <2>2. CASE pframe_free(VnPageoutd, f, TRUE, <<>>) /\ inuse' = inuse
    BY <1>2, <2>2, FreePanics
  <2> QED BY <1>6, <2>1, <2>2 DEF pageoutd_run
<1>7. CASE vfs_shutdown \/ flush_cleaned \/ flush_vnode \/ vnode_inuse \/ flush_cleans
  BY <1>2, <1>7 DEF vfs_shutdown, flush_cleaned, flush_vnode, vnode_inuse, flush_cleans, pframe_clean
<1>8. CASE flush_page
  <2>1. CASE \E f, sound, calls : pframe_free(Idle, f, sound, calls)
    BY <1>2, <1>8, <2>1, FreePanics DEF flush_page
  <2>2. CASE vnode' = vnode
    BY <1>2, <1>8, <2>2 DEF flush_page
  <2> QED BY <1>8, <2>1, <2>2 DEF flush_page
<1> QED BY <1>4, <1>5, <1>6, <1>7, <1>8 DEF VnodeActions

\* After a failed KASSERT there is no step.
LEMMA PanicStops ==
    ASSUME VnodeActions
    PROVE  ~ vnpanic
<1>1. ASSUME NEW t, VnodeStep(t) PROVE ~ vnpanic
  <2>1. \E op : In(t, op)
    BY <1>1, Zenon DEF VnodeStep, vget_busy, vget_found, vget_yields, vget_new, vget_read, vput, evict_next,
                       evict_waits, evict_frees, vput_deleted, io_done
  <2> QED BY <2>1 DEF In, Runs
<1>2. ASSUME NEW t, VnodeUse(t) PROVE ~ vnpanic
  <2>1. Outside(t)
    BY <1>2, Zenon DEF VnodeUse, get_file, link_file, vref, put_file, dirty_page, get_page
  <2> QED BY <2>1 DEF Outside, Runs
<1>3. ASSUME NEW f, pageoutd_run(f) PROVE ~ vnpanic
  BY <1>3 DEF pageoutd_run, Outside, Runs
<1>4. CASE vfs_shutdown \/ flush_cleans \/ flush_cleaned \/ flush_vnode \/ flush_page \/ vnode_inuse
  <2>1. Runs(Idle)
    BY <1>4, Zenon DEF vfs_shutdown, flush_cleans, flush_cleaned, flush_vnode, flush_page, vnode_inuse, Outside, In
  <2> QED BY <2>1 DEF Runs
<1> QED BY <1>1, <1>2, <1>3, <1>4 DEF VnodeActions

\* The mounted file system, of which only the root's vnode is in use.
LEMMA InitSound ==
    ASSUME VnodeInit
    PROVE  Sound
<1>1. RootSlot \in VnSlots /\ RootIno \in VnInodes /\ 0 \notin VnSlots
  BY VnodeAssumption DEF RootSlot
<1>2. PICK r : r = [FreeVnode EXCEPT !.refs = 1]
  OBVIOUS
<1>3. /\ FreeVnode \in Vnodes /\ ~ FreeVnode.busy /\ FreeVnode.refs = 0 /\ FreeVnode.nres = 0
      /\ FreeVnode.pages = <<>>
  BY NewVnode
<1>4. r \in Vnodes /\ ~ r.busy /\ r.refs = 1 /\ r.nres = 0 /\ r.pages = <<>>
  BY <1>2, <1>3 DEF Vnodes
<1>5. vnode = [v \in VnSlots |-> IF v = RootSlot THEN r ELSE FreeVnode]
  BY <1>2 DEF VnodeInit
<1>6. /\ vnode \in [VnSlots -> Vnodes]
      /\ \A v \in VnSlots : /\ ~ vnode[v].busy /\ vnode[v].nres = 0 /\ vnode[v].pages = <<>>
                            /\ vnode[v].refs = IF v = RootSlot THEN 1 ELSE 0
  BY <1>3, <1>4, <1>5
<1>7. inuse \in Seq(VnSlots) /\ DOMAIN inuse = {1} /\ Range(inuse) = {RootSlot}
  <2>1. inuse = <<RootSlot>>
    BY DEF VnodeInit
  <2>2. inuse \in Seq(VnSlots) /\ Len(inuse) = 1 /\ DOMAIN inuse = 1 .. 1 /\ inuse[1] = RootSlot
    BY <1>1, <2>1
  <2> QED BY <2>2 DEF Range
<1>8. frame \in [VnFrames -> Pframes] /\ \A f \in VnFrames : frame[f].obj = 0
  <2>1. FreePframe \in Pframes /\ FreePframe.obj = 0
    BY DEF FreePframe, Pframes
  <2> QED BY <2>1 DEF VnodeInit
<1>9. stack \in Stacks /\ \A t \in VnThreads : stack[t] = <<>>
  BY FewCalls DEF VnodeInit, Stacks
<1>10. Types
  BY <1>6, <1>7, <1>8, <1>9 DEF Types
<1>11. TopInv
  BY <1>9 DEF TopInv, CleanBelow
<1>12. Distinct
  BY <1>7 DEF Distinct
<1>13. PagesInv
  <2>1. \A v \in VnSlots : {f \in VnFrames : frame[f].obj = v} = {}
    BY <1>1, <1>8
  <2>2. ListOf(<<>>, {}) /\ Len(<<>>) = 0
    BY DEF ListOf
  <2> QED BY <1>6, <2>1, <2>2 DEF PagesInv
<1>14. PlaceInv
  BY <1>6, <1>7 DEF PlaceInv
<1>15. BusyInv
  BY <1>6, <1>9 DEF BusyInv, Works
<1> QED BY <1>10, <1>11, <1>12, <1>13, <1>14, <1>15 DEF Sound

\* The invariant says that the cache is in order.
LEMMA SoundSays ==
    ASSUME Inv
    PROVE  CacheInOrder
<1>1. \A i, j \in DOMAIN inuse : vnode[inuse[i]].ino = vnode[inuse[j]].ino => i = j
  BY DEF Inv, Distinct
<1>2. ASSUME ~ vnpanic, NEW v \in VnSlots
      PROVE  /\ vnode[v].nres = Len(vnode[v].pages)
             /\ Range(vnode[v].pages) = {f \in VnFrames : frame[f].obj = v}
             /\ vnode[v].refs > 0 => v \in Range(inuse) /\ ~ vnode[v].busy
             /\ vnode[v].busy => v \in Range(inuse) /\ vnode[v].pages = <<>>
             /\ vnode[v].busy <=> \E t \in VnThreads : Works(stack[t], v)
             /\ \A s, t \in VnThreads : Works(stack[s], v) /\ Works(stack[t], v) => s = t
  <2>1. Sound
    BY <1>2 DEF Inv
  <2>2. vnode[v].nres = Len(vnode[v].pages) /\ Range(vnode[v].pages) = {f \in VnFrames : frame[f].obj = v}
    BY <2>1, ListOfIsSet DEF Sound, PagesInv
  <2>3. /\ vnode[v].refs > 0 => v \in Range(inuse) /\ ~ vnode[v].busy
        /\ vnode[v].busy => v \in Range(inuse) /\ vnode[v].pages = <<>>
    BY <2>1 DEF Sound, PlaceInv
  <2>4. /\ vnode[v].busy <=> \E t \in VnThreads : Works(stack[t], v)
        /\ \A s, t \in VnThreads : Works(stack[s], v) /\ Works(stack[t], v) => s = t
    BY <2>1 DEF Sound, BusyInv
  <2> QED BY <2>2, <2>3, <2>4
<1> QED BY <1>1, <1>2 DEF CacheInOrder

\* However read_vnode, delete_vnode and the I/O of pages interleave, a file has at
\* most one vnode; and until a KASSERT fails, every vnode knows its resident pages,
\* is on vnode_inuse_list and not busy while it is referenced, and is read or deleted
\* by exactly one thread while it is busy.
THEOREM CacheAlwaysInOrder == VnodeSpec => []CacheInOrder
<1>1. VnodeInit => Inv
  BY InitSound DEF Inv, Sound
<1>2. Inv /\ [VnodeNext]_vnodeVars => Inv'
  <2> SUFFICES ASSUME Inv, [VnodeNext]_vnodeVars PROVE Inv'
    OBVIOUS
  <2>1. CASE VnodeNext
    <3>1. VnodeActions /\ ~ vnpanic /\ Sound
      BY <2>1, PanicStops DEF VnodeNext, Inv
    <3>2. CASE ~ vnpanic'
      BY <3>1, <3>2, StepSound DEF Inv, Sound
    <3>3. CASE vnpanic'
      <4>1. InosKept /\ inuse \in Seq(VnSlots) /\ Distinct
        BY <3>1, <3>3, PanicInos DEF Sound, Types
      <4> QED BY <3>3, <4>1 DEF Inv, Distinct, InosKept
    <3> QED BY <3>2, <3>3
  <2>2. CASE UNCHANGED vnodeVars
    <3>1. UNCHANGED <<vnode, inuse, frame, stack>> /\ vnpanic' = vnpanic
      BY <2>2 DEF vnodeVars
    <3>2. Distinct'
      BY <3>1 DEF Inv, Distinct
    <3> QED BY <3>1, <3>2, SameSound DEF Inv
  <2> QED BY <2>1, <2>2
<1>3. Inv => CacheInOrder
  BY SoundSays
<1> QED BY <1>1, <1>2, <1>3, PTL DEF VnodeSpec
=============================================================================
