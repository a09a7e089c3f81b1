-------------------------------- MODULE Arena --------------------------------
(***************************************************************************)
(* struct mulle_arena (src/src/mulle-arena.h): a bump allocator on pages   *)
(* from the default allocator, with two interfaces on one cursor: the      *)
(* native functions, where the caller names size and alignment, and the    *)
(* mulle_allocator vtable, where a header in front of every block keeps    *)
(* its size.                                                               *)
(*                                                                         *)
(* Addresses and sizes are numbers, so that alignment, headers and overlap *)
(* are those of the code; what a byte holds is abstract.  The client obeys *)
(* the asserts: sizes are not zero, alignments are powers of two, and it   *)
(* uses a block through the interface that block came from.                *)
(***************************************************************************)
EXTENDS Integers, Sequences, FiniteSets

CONSTANTS
  Handle,           \* the client's variables for blocks
  PageBases,        \* bound: where calloc may place a page
  AddrMax,          \* bound: the last address
  SizeT,            \* sizeof( size_t)
  MaxAlign,         \* MULLE_ARENA_DEFAULT_ALIGNMENT, which calloc obeys too
  SizeMax,          \* the largest size_t, and the largest address
  DefaultPageSize,  \* 4096 in the code
  PageSizes,        \* page_size arguments of _mulle_arena_init
  Sizes,            \* size arguments of the native functions
  Alignments,       \* their alignment arguments
  Requests,         \* <<n, size>> arguments of the vtable functions
  KeepCounts,       \* keep_count arguments of _mulle_arena_reset_keep_pages
  Percents,         \* percent arguments of _mulle_arena_reset_keep_percentage
  Debug,            \* whether DEBUG is set in the build
  Data,             \* bytes that a structure on the arena writes itself
  Zero, Poison, Junk, Src   \* bytes: 0, of 0xDEADDEAD, indeterminate, the caller's

ASSUME ArenaAssumption ==
  /\ SizeMax \in Nat /\ AddrMax \in 0 .. SizeMax
  /\ SizeT \in Nat \ {0}
  /\ MaxAlign \in Nat /\ SizeT <= MaxAlign
  /\ DefaultPageSize \in Nat \ {0}
  /\ \A b \in PageBases : b \in Nat \ {0} /\ b % MaxAlign = 0
  /\ PageSizes \subseteq Nat
  /\ Sizes \subseteq Nat \ {0}
  /\ Alignments \subseteq Nat \ {0}
  /\ Requests \subseteq Nat \X Nat
  /\ KeepCounts \subseteq Nat
  /\ Percents \subseteq Nat
  /\ Debug \in BOOLEAN

Null == 0
Addr == 1 .. AddrMax

\* One byte of the size header in front of a vtable block of s bytes.
Header(s) == [size |-> s]

\* A byte that the client puts into its block h.
Mark(h) == [of |-> h]

Cell == Data \cup {Zero, Poison, Junk, Src} \cup [size : Nat] \cup [of : Handle]

VARIABLES
  phase,       \* "raw" before init and after done, "up", "aborted" after a fail
  pageSize,    \* _page_size
  pages,       \* _pages, with the size calloc was asked for
  pageIndex,   \* _page_index
  current,     \* _current
  sentinel,    \* _sentinel
  last,        \* _last
  mem,         \* what every byte holds
  block        \* client: the block behind every handle

cursor == <<pages, pageIndex, current, sentinel, last>>
vars == <<phase, pageSize, cursor, mem, block>>

\* What the client was promised: size bytes at addr, aligned, the first len
\* of them holding val.
Block(kind, addr, size, align, len, val) ==
  [kind |-> kind, addr |-> addr, size |-> size, align |-> align,
   len |-> len, val |-> IF len = 0 THEN Zero ELSE val]

NoBlock == Block("none", Null, 0, 1, 0, Zero)

Live == {h \in Handle : block[h] # NoBlock}
NoBlocks == [h \in Handle |-> NoBlock]

Lesser(a, b) == IF a < b THEN a ELSE b

Span(addr, n) == addr .. addr + n - 1

\* n bytes at addr and m bytes at other have none in common.
Apart(addr, n, other, m) == addr + n <= other \/ other + m <= addr

\* memset and memcpy; a source byte outside of all memory is indeterminate.
Store(m, addr, n, v) == [x \in Addr |-> IF addr <= x /\ x < addr + n THEN v ELSE m[x]]

\* Mutant: memcpy of one byte less.
CopyBytes_Short(m, addr, from, n) ==
  [x \in Addr |->
     IF addr <= x /\ x < addr + n - 1
       THEN IF from + (x - addr) \in Addr THEN m[from + (x - addr)] ELSE Junk
       ELSE m[x]]

CopyBytes(m, addr, from, n) ==
  [x \in Addr |->
     IF addr <= x /\ x < addr + n
       THEN IF from + (x - addr) \in Addr THEN m[from + (x - addr)] ELSE Junk
       ELSE m[x]]

\* Sums of size_t and of pointers, which have the same width
Wrap(x) == x % (SizeMax + 1)

\* Mutants: rounded down instead of up; not at all.
Align_Down(p, a) == p - (p % a)
Align_None(p, a) == p

\* _mulle_arena_align_pointer for an alignment that is a power of two
Align(p, a) == Wrap(p + (a - 1)) - (Wrap(p + (a - 1)) % a)

-----------------------------------------------------------------------------
(***************************************************************************)
(* Pages.  The functions of the code are written as operators on a state   *)
(* of the arena and its memory: what they may leave behind is a set, with  *)
(* one state for each page calloc may return.                              *)
(***************************************************************************)

Now ==
  [pages |-> pages, index |-> pageIndex, current |-> current,
   sentinel |-> sentinel, last |-> last, mem |-> mem]

Become(s) ==
  /\ pages' = s.pages
  /\ pageIndex' = s.index
  /\ current' = s.current
  /\ sentinel' = s.sentinel
  /\ last' = s.last
  /\ mem' = s.mem

\* The pages calloc may return: memory that is in no page.
FreshPages(s, size) ==
  {[base |-> b, size |-> size] :
     b \in {x \in PageBases :
              /\ x + size - 1 <= AddrMax
              /\ \A i \in DOMAIN s.pages : Apart(x, size, s.pages[i].base, s.pages[i].size)}}

\* The cursor at the start of the page after the first i, size bytes of which are used.
Enter(s, i, size) ==
  [pages |-> s.pages, index |-> i, current |-> s.pages[i + 1].base,
   sentinel |-> s.pages[i + 1].base + size, last |-> s.last, mem |-> s.mem]

\* One more page, full of zero bytes as calloc returns it.
AddPage(s, page) ==
  [pages |-> Append(s.pages, page), index |-> s.index, current |-> s.current,
   sentinel |-> s.sentinel, last |-> s.last, mem |-> Store(s.mem, page.base, page.size, Zero)]

\* The next page that a reset kept, or a fresh one of min bytes or more.
NewPage(s, min) ==
  IF min <= pageSize /\ s.index + 1 < Len(s.pages)
    THEN {Enter(s, s.index + 1, pageSize)}
    ELSE {Enter(AddPage(s, page), Len(s.pages), page.size) :
            page \in FreshPages(s, IF min > pageSize THEN min ELSE pageSize)}

\* The cursor somewhere else in its page.
Bump(s, to, top, m) ==
  [pages |-> s.pages, index |-> s.index, current |-> to,
   sentinel |-> s.sentinel, last |-> top, mem |-> m]

-----------------------------------------------------------------------------

Init ==
  /\ phase = "raw"
  /\ pageSize = 0
  /\ pages = <<>>
  /\ pageIndex = 0
  /\ current = Null /\ sentinel = Null /\ last = Null
  /\ mem = [x \in Addr |-> Junk]
  /\ block = NoBlocks

InitArena(size) ==
  /\ phase = "raw"
  /\ phase' = "up"
  /\ pageSize' = IF size = 0 THEN DefaultPageSize ELSE size
  /\ UNCHANGED <<cursor, mem, block>>

\* All pages go back, the members that stay behind are dead.
Done ==
  /\ phase = "up"
  /\ phase' = "raw"
  /\ pageSize' = 0
  /\ pages' = <<>>
  /\ pageIndex' = 0
  /\ current' = Null /\ sentinel' = Null /\ last' = Null
  /\ mem' = [x \in Addr |-> Junk]
  /\ block' = NoBlocks

\* Mutant: the last block of the old cycle is still the last block.
Rewind_KeepsLast(kept) ==
  /\ current' = IF kept = 0 THEN Null ELSE pages[1].base
  /\ sentinel' = IF kept = 0 THEN Null ELSE pages[1].base + pageSize
  /\ pageIndex' = 0
  /\ UNCHANGED last

\* Mutant: the current page is the last one kept.
Rewind_IndexOfLastKept(kept) ==
  /\ current' = IF kept = 0 THEN Null ELSE pages[1].base
  /\ sentinel' = IF kept = 0 THEN Null ELSE pages[1].base + pageSize
  /\ pageIndex' = kept - 1
  /\ last' = Null

\* The cursor goes back to the start of the first page, if there is one.
Rewind(kept) ==
  /\ current' = IF kept = 0 THEN Null ELSE pages[1].base
  /\ sentinel' = IF kept = 0 THEN Null ELSE pages[1].base + pageSize
  /\ pageIndex' = 0
  /\ last' = Null

\* The first kept pages are wiped as far as _page_size, the others go back.
Reset(keepCount) ==
  LET kept == Lesser(keepCount, Len(pages))
      Wiped(x) == \E i \in 1 .. kept : x \in Span(pages[i].base, pageSize)
      Given(x) == \E i \in kept + 1 .. Len(pages) : x \in Span(pages[i].base, pages[i].size)
  IN  /\ phase = "up"
      /\ pages # <<>>
      /\ pages' = SubSeq(pages, 1, kept)
      /\ mem' = [x \in Addr |-> CASE Wiped(x) -> IF Debug THEN Poison ELSE Zero
                                  [] Given(x) -> Junk
                                  [] OTHER -> mem[x]]
      /\ Rewind(kept)
      /\ block' = NoBlocks
      /\ UNCHANGED <<phase, pageSize>>

ResetKeepPercentage(percent) ==
  Reset((Len(pages) * Lesser(percent, 100) + 99) \div 100)

-----------------------------------------------------------------------------
(***************************************************************************)
(* The native interface.                                                   *)
(***************************************************************************)

\* Mutants: a new page without the bytes to align in; end >= sentinel + 1 is
\* what it takes to get one.
Place_NoPadding(s, n, a) ==
  IF Wrap(Align(s.current, a) + n) <= s.sentinel THEN {s} ELSE NewPage(s, n)
Place_OffByOne(s, n, a) ==
  IF Wrap(Align(s.current, a) + n) <= s.sentinel + 1 THEN {s} ELSE NewPage(s, Wrap(n + a - 1))

\* Where _mulle_arena_alloc finds n bytes: behind the last block if they fit.
Place(s, n, a) ==
  IF Wrap(Align(s.current, a) + n) <= s.sentinel THEN {s} ELSE NewPage(s, Wrap(n + a - 1))

\* _mulle_arena_alloc, which returns last
RawAlloc(s, n, a) ==
  {Bump(c, Wrap(Align(c.current, a) + n), Align(c.current, a), c.mem) : c \in Place(s, n, a)}

\* The client's variable h gets the block b.
Give(h, b) ==
  /\ block' = [block EXCEPT ![h] = b]
  /\ UNCHANGED <<phase, pageSize>>

Available(h) == phase = "up" /\ h \notin Live

Alloc(h, n, a) ==
  /\ Available(h)
  /\ \E s \in RawAlloc(Now, n, a) :
       /\ Become(s)
       /\ Give(h, Block("raw", s.last, n, a, 0, Zero))

Calloc(h, n, a) ==
  /\ Available(h)
  /\ \E s \in RawAlloc(Now, n, a) :
       /\ Become([s EXCEPT !.mem = Store(@, s.last, n, Zero)])
       /\ Give(h, Block("raw", s.last, n, a, n, Zero))

\* _mulle_arena_memdup of bytes that are not the arena's
Memdup(h, n) ==
  /\ Available(h)
  /\ \E s \in RawAlloc(Now, n, 1) :
       /\ Become([s EXCEPT !.mem = Store(@, s.last, n, Src)])
       /\ Give(h, Block("raw", s.last, n, 1, n, Src))

\* _mulle_arena_strdup: the characters and the terminating zero
Strdup(h, length) == Memdup(h, length + 1)

\* _mulle_arena_memdup of the block g
MemdupBlock(h, g) ==
  LET b == block[g]
  IN  /\ Available(h)
      /\ g \in Live
      /\ \E s \in RawAlloc(Now, b.size, 1) :
           /\ Become([s EXCEPT !.mem = CopyBytes(@, s.last, b.addr, b.size)])
           /\ Give(h, Block("raw", s.last, b.size, 1, b.len, b.val))

\* In place if the block is the last one and the page has the room, or by
\* copy; the block is at last.
RawRealloc(s, p, old, n, a) ==
  IF p = s.last /\ Wrap(s.last + n) <= s.sentinel
    THEN {Bump(s, Wrap(s.last + n), s.last, s.mem)}
    ELSE {[c EXCEPT !.mem = CopyBytes(@, c.last, p, Lesser(old, n))] : c \in RawAlloc(s, n, a)}

\* _mulle_arena_realloc of a block; of NULL, it is Alloc.  The client is promised
\* the alignment it asks for, which the code looks at only if the block moves.
Realloc(h, n, a) ==
  LET b == block[h]
  IN  /\ phase = "up"
      /\ b.kind = "raw"
      /\ \E s \in RawRealloc(Now, b.addr, b.size, n, a) :
           /\ Become(s)
           /\ Give(h, Block("raw", s.last, n, a, Lesser(b.len, n), b.val))

-----------------------------------------------------------------------------
(***************************************************************************)
(* The mulle_allocator interface.  The user's block follows its header,    *)
(* which is at last.                                                       *)
(***************************************************************************)

\* Requests that are routed through fail, which does not return.
Fails(n, size) == n = 0 \/ size = 0 \/ n * size > SizeMax

\* The bytes asked of a new page; mutants of HeaderPlace: the header not
\* offset in a new page; no bytes in the page for the offset; one byte too many.
Total(n) == Wrap(SizeT + n + (MaxAlign - SizeT))
HeaderFits(s, n) == s.sentinel # Null /\ Wrap(s.current + SizeT + n) <= s.sentinel
Offset(c) == Bump(c, c.current + (MaxAlign - SizeT), c.last, c.mem)

HeaderPlace_NoOffset(s, n) ==
  IF HeaderFits(s, n) THEN {s} ELSE NewPage(s, Total(n))
HeaderPlace_NoPadding(s, n) ==
  IF HeaderFits(s, n) THEN {s} ELSE {Offset(c) : c \in NewPage(s, SizeT + n)}
HeaderPlace_OffByOne(s, n) ==
  IF HeaderFits(s, n - 1) THEN {s} ELSE {Offset(c) : c \in NewPage(s, Total(n))}

\* Where _mulle_arena_alloc_with_size_header finds n bytes and their header.
HeaderPlace(s, n) ==
  IF HeaderFits(s, n) THEN {s} ELSE {Offset(c) : c \in NewPage(s, Total(n))}

\* _current after a block that ends at end, ready for the next header
NextHeader(end) == Wrap(Align(end, MaxAlign) - SizeT)

WithHeader(m, raw, n) == Store(m, raw, SizeT, Header(n))

\* _mulle_arena_alloc_with_size_header
HeaderAlloc(s, n) ==
  {Bump(c, NextHeader(Wrap(c.current + SizeT + n)), c.current, WithHeader(c.mem, c.current, n)) :
     c \in HeaderPlace(s, n)}

\* What reading the header in front of p may yield: the size, or if other
\* bytes are there, anything; it is compared with total.
HeaderSizes(m, p, total) ==
  LET sizes == {n \in 0 .. SizeMax : \A x \in Span(p - SizeT, SizeT) : m[x] = Header(n)}
  IN  IF sizes # {} THEN sizes ELSE 0 .. total

\* Mutants: in place wherever the block is in the page; the header keeps the
\* old size when the block grows in place.
Reallocarray_IgnoresLast(s, p, total) ==
  IF s.sentinel - pageSize <= p /\ Wrap(p + total) <= s.sentinel
    THEN {[s EXCEPT !.mem = WithHeader(@, p - SizeT, total)]}
    ELSE {[c EXCEPT !.mem = CopyBytes(@, c.last + SizeT, p, Lesser(old, total))] :
            c \in HeaderAlloc(s, total), old \in HeaderSizes(s.mem, p, total)}
Reallocarray_StaleHeader(s, p, total) ==
  IF p - SizeT = s.last /\ Wrap(p + total) <= s.sentinel
    THEN {Bump(s, NextHeader(Wrap(p + total)), s.last, s.mem)}
    ELSE {[c EXCEPT !.mem = CopyBytes(@, c.last + SizeT, p, Lesser(old, total))] :
            c \in HeaderAlloc(s, total), old \in HeaderSizes(s.mem, p, total)}

\* _mulle_arena_reallocarray_v of a block
Reallocarray(s, p, total) ==
  IF p - SizeT = s.last /\ Wrap(p + total) <= s.sentinel
    THEN {Bump(s, NextHeader(Wrap(p + total)), s.last, WithHeader(s.mem, p - SizeT, total))}
    ELSE {[c EXCEPT !.mem = CopyBytes(@, c.last + SizeT, p, Lesser(old, total))] :
            c \in HeaderAlloc(s, total), old \in HeaderSizes(s.mem, p, total)}

\* _mulle_arena_free_v: only the last block gives its bytes back.
FreeBlock(s, p) ==
  LET raw == p - SizeT
  IN  IF raw = s.last
        THEN Bump(s, raw, Null,
                  IF Debug THEN Store(s.mem, raw, Wrap(s.current - raw), Poison) ELSE s.mem)
        ELSE s

VtableBlock(s, n, len, val) == Block("vtable", s.last + SizeT, n, MaxAlign, len, val)

CallocV(h, n, size) ==
  /\ Available(h)
  /\ ~Fails(n, size)
  /\ \E s \in HeaderAlloc(Now, n * size) :
       /\ Become([s EXCEPT !.mem = Store(@, s.last + SizeT, n * size, Zero)])
       /\ Give(h, VtableBlock(s, n * size, n * size, Zero))

\* _mulle_arena_reallocarray_v of NULL
AllocV(h, n, size) ==
  /\ Available(h)
  /\ ~Fails(n, size)
  /\ \E s \in HeaderAlloc(Now, n * size) :
       /\ Become(s)
       /\ Give(h, VtableBlock(s, n * size, 0, Zero))

ReallocV(h, n, size) ==
  LET b == block[h]
  IN  /\ phase = "up"
      /\ b.kind = "vtable"
      /\ ~Fails(n, size)
      /\ \E s \in Reallocarray(Now, b.addr, n * size) :
           /\ Become(s)
           /\ Give(h, VtableBlock(s, n * size, Lesser(b.len, n * size), b.val))

FreeV(h) ==
  /\ phase = "up"
  /\ block[h].kind = "vtable"
  /\ Become(FreeBlock(Now, block[h].addr))
  /\ Give(h, NoBlock)

\* _mulle_allocator_abort and mulle_allocator_size_multiply
Abort(n, size) ==
  /\ phase = "up"
  /\ Fails(n, size)
  /\ phase' = "aborted"
  /\ UNCHANGED <<pageSize, cursor, mem, block>>

-----------------------------------------------------------------------------

\* The client fills its block with bytes of its own.
Fill(h) ==
  LET b == block[h]
  IN  /\ phase = "up"
      /\ h \in Live
      /\ mem' = Store(mem, b.addr, b.size, Mark(h))
      /\ block' = [block EXCEPT ![h] = Block(b.kind, b.addr, b.size, b.align, b.size, Mark(h))]
      /\ UNCHANGED <<phase, pageSize, cursor>>

Life ==
  \/ \E size \in PageSizes : InitArena(size)
  \/ Done
  \/ \E k \in KeepCounts : Reset(k)
  \/ \E percent \in Percents : ResetKeepPercentage(percent)
  \/ \E h \in Handle : Fill(h)

Native ==
  \E h \in Handle :
    \/ \E n \in Sizes, a \in Alignments : Alloc(h, n, a) \/ Calloc(h, n, a) \/ Realloc(h, n, a)
    \/ \E n \in Sizes : Memdup(h, n) \/ Strdup(h, n - 1)
    \/ \E g \in Handle : MemdupBlock(h, g)

Vtable ==
  \E r \in Requests :
    \/ Abort(r[1], r[2])
    \/ \E h \in Handle : CallocV(h, r[1], r[2]) \/ AllocV(h, r[1], r[2]) \/ ReallocV(h, r[1], r[2])

Free == \E h \in Handle : FreeV(h)

\* Clients of the native functions, of the vtable, and of both.
NativeSpec == Init /\ [][Life \/ Native]_vars
VtableSpec == Init /\ [][Life \/ Vtable \/ Free]_vars
MixedSpec  == Init /\ [][Life \/ Native \/ Vtable \/ Free]_vars

-----------------------------------------------------------------------------

\* The types of the variables.
TypeOK ==
  /\ phase \in {"raw", "up", "aborted"}
  /\ pageSize \in Nat
  /\ pages \in Seq([base : PageBases, size : Nat])
  /\ pageIndex \in Nat
  /\ current \in Nat /\ sentinel \in Nat /\ last \in Nat
  /\ mem \in [Addr -> Cell]
  /\ block \in [Handle -> [kind : {"none", "raw", "vtable"}, addr : Nat, size : Nat,
                           align : Nat, len : Nat, val : Cell]]

\* Where the bytes begin and end that belong to a block, header included.
Start(b) == IF b.kind = "vtable" THEN b.addr - SizeT ELSE b.addr
End(b) == b.addr + b.size

\* The page index, the bump pointer and the sentinel name the same page, and
\* the bump pointer is not past its end.
CursorInPage ==
  IF pages = <<>>
    THEN current = Null /\ sentinel = Null /\ last = Null
    ELSE LET page == pages[pageIndex + 1]
         IN  /\ pageIndex < Len(pages)
             /\ page.base <= current /\ current <= sentinel
             /\ sentinel <= page.base + page.size

\* Every block and its header lie in one page the arena has reached since
\* the last reset, in front of the bump pointer if that page is the current
\* one: what is handed out next is nobody's.
BlocksBehindCursor ==
  \A h \in Live : \E i \in DOMAIN pages :
    /\ pages[i].base <= Start(block[h])
    /\ End(block[h]) <= pages[i].base + pages[i].size
    /\ i <= pageIndex + 1
    /\ i = pageIndex + 1 => End(block[h]) <= current

\* No two blocks share a byte, nor a block and the header of another one:
\* neither an extension in place nor a rewind by free reaches into a block.
BlocksApart ==
  \A g, h \in Live : g # h =>
    \/ End(block[g]) <= Start(block[h])
    \/ End(block[h]) <= Start(block[g])

\* A block holds what was last put into it, whatever happens around it.
ContentsKept ==
  \A h \in Live : \A x \in Span(block[h].addr, block[h].len) : mem[x] = block[h].val

\* A block has the alignment its client asked for, from the vtable the
\* default alignment (mulle-arena.h:293, 353 and 485).
Aligned == \A h \in Live : block[h].addr % block[h].align = 0

\* A block that is new or moves is aligned as asked, on page bases aligned less,
\* in kept and oversized pages (310-318, 381): what remains of Aligned for native
\* clients, whose realloc may leave a block where it is.
AlignedWherePlaced ==
  [][\A h \in Handle : block'[h].addr # block[h].addr =>
       block'[h].addr % block'[h].align = 0]_vars

\* realloc, reallocarray and free of a vtable block read its size correctly.
HeadersKept ==
  \A h \in Live : block[h].kind = "vtable" =>
    \A x \in Span(block[h].addr - SizeT, SizeT) : mem[x] = Header(block[h].size)

\* _last is in the current page with every other block of that page in front
\* of it, which is what makes it safe to grow the block at _last in place, and
\* to give back everything from _last on.
LastIsOnTop ==
  last # Null => \E i \in DOMAIN pages :
    /\ i = pageIndex + 1
    /\ pages[i].base <= last /\ last <= current
    /\ \A h \in Live : Start(block[h]) # last =>
         End(block[h]) <= last \/ pages[i].base + pages[i].size <= Start(block[h])

\* The arena writes into its own pages and nowhere else.
WritesInsidePages ==
  [][\A x \in Addr : mem'[x] # mem[x] =>
       \E p \in {pages[i] : i \in DOMAIN pages} \cup {pages'[i] : i \in DOMAIN pages'} :
         x \in Span(p.base, p.size)]_vars

\* A block larger than a page has a page of its size: "Oversized allocations
\* (larger than page_size) get their own dedicated page" (mulle-arena.h:62).
OversizedHaveTheirPage ==
  \A h \in Live : block[h].size > pageSize => \E i \in DOMAIN pages :
    /\ pages[i].base <= Start(block[h])
    /\ End(block[h]) <= pages[i].base + pages[i].size

\* The known bytes of a block are those found in memory at its address.
ClientView ==
  [h \in Handle |->
     [size |-> block[h].size,
      bytes |-> [i \in 1 .. block[h].len |-> mem[block[h].addr + i - 1]]]]

\* The arena implements the abstract region.
Blocks == INSTANCE Region WITH
  Size <- (Sizes \cup {r[1] * r[2] : r \in Requests}) \ {0},
  Byte <- [of : Handle] \cup {Src},
  data <- ClientView

ImplementsRegion == Blocks!RegionSpec
=============================================================================
