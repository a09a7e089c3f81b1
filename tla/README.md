# A verification project for mulle-storage

mulle-storage is a small C library of header-only allocators.  This directory
holds TLA+ modules that model it, TLC configurations that model-check small
instances, and theorems about it that TLAPS checks for all values of the
constants.  Paths are those of the repository; `storage.h`, `indexedstorage.h`
and `arena.h` stand for `src/mulle-storage.h`, `src/mulle-indexedstorage.h` and
`src/mulle-arena.h`.

## The system

| component | state | operations | uses |
|---|---|---|---|
| `mulle_storage` (storage.h) | `_structs`, a queue of buckets that never moves an element; `_freed`, a pointer array of freed nodes | init, done, malloc, calloc, copy, free, get_count | struct queue, pointer array |
| `mulle_indexedstorage` (indexedstorage.h) | `_structs`, one array that moves when it grows; `_freed`, a pointer array of `index + 1` | init, done, alloc, free, get, get_count | struct array, pointer array |
| `mulle_arena`, native functions (arena.h 77-425) | `_pages`, `_page_index`, `_current`, `_sentinel`, `_last`, `_page_size` | init, done, reset (three forms), alloc, calloc, realloc, memdup, strdup | default allocator, pointer array |
| `mulle_arena`, vtable (arena.h 430-609) | the same, and a size header in front of every block | calloc, realloc, reallocarray, free of a `mulle_allocator`; fail | the native part's pages |
| containers and default allocator | in other repositories | reserve, pop, add, count; calloc, free | |
| a container growing on an arena (`test/30-arena`) | its blocks | a client of the vtable: allocate, grow, free | the vtable |
| version constants, generated headers, benchmark | none | | |

The two storages are separate.  The native functions and the vtable of the
arena are two interfaces on one cursor, and one arena may be used through both.
The storages take any `mulle_allocator`, and an arena is one: then the buckets and
the freed array of a storage are blocks of the arena.
Nothing is concurrent, calls back, waits or is persisted: a structure belongs
to one thread, and a call runs to its end.  So what is hard about this code is
not interleaving or crash recovery but

- long sequences of legal calls (free, reuse, reset, rewind, growth in place)
  after which state that two places hold has to agree still: `_freed` and the
  queue, `_page_index` and `_current`, `_last` and the client's blocks;
- arithmetic on addresses: padding, headers between blocks, sentinels, sizes
  that are just what a page holds;
- pointers and cached values that become stale: a pointer into a moving array,
  `_last` after a reset, the size in a header;
- several structures that ask one arena for memory in turn: what is handed out,
  extended or taken back for one must not be another's.

What makes each component correct:

- *storages*: a node has one owner or is in `_freed` once; contents stay while a
  node is held; the structure grows exactly when everything it has is in use;
  the count is right (its unsigned difference does not wrap); in a DEBUG build
  what is freed is poisoned and stays poisoned; pointers are stable (storage) or
  are lost only by growth (indexedstorage).
- *arena*: blocks and headers are inside the pages, behind the cursor, disjoint
  and aligned; contents and headers are kept; what `_last` names is really the
  topmost block of the current page; nothing outside of the pages is written.
- *a storage on an arena*: it behaves as on an allocator that keeps blocks apart
  and as they are, although the arena's headers may lie in the storage's blocks.

## The modules

### NodePool and Region: what is promised

`NodePool` is the abstract pool: a node has one owner, only the owner's actions
change what the owner reads, and the pool grows only when every node it ever
had is held.  Both storages implement it.

`Region` is the abstract arena: blocks of any size with contents of their own,
a resize that keeps the common part, a duplicate, one end for all blocks.  There
is no memory, page, address or header in it.  The arena implements it through
either interface; "contents" are mapped to the bytes that memory holds at the
address of the block.

### Storage (storage.h)

| TLA+ | code |
|---|---|
| `structs`, `buckets` | elements in `_structs`, buckets it took from its allocator |
| `freed` | `_freed`, the last element at the end |
| `mem` | what the nodes hold |
| `held`, `peak` | ghosts: what the client relies on to read, the most it ever held |
| `MallocNode` | `_mulle_storage_malloc`: pop, else reserve |
| `Malloc`, `Calloc`, `CopyForeign`, `CopyNode`, `Free` | the functions of that name |
| `InitStorage`, `Done`, `GetCount` | init, done, get_count |

A node is named by the order in which the queue reserved it, which stands for
its address because the queue never moves an element.  `CopyNode` is
`_mulle_storage_copy` of a node of the same storage, where source and destination
are in the same queue.  In a DEBUG build `_mulle_storage_free` writes poison.

### IndexedStorage (indexedstorage.h)

As `Storage`, but with an array that moves: `room` is what it has memory for
and `base` names the memory it is in.  The client's pointers (`ptr`) remember
the memory they point into.  The client drops them when an index is handed out
that was never used, as the array may grow then, and keeps them when a freed index is
used again.  A write through a pointer into memory the array has left is lost: it never
happens, since only growth moves the array, but would if the array moved for a freed index
too, and the contents would be seen to be wrong.  `freed` holds
`Tag(index)`, `index + 1` in an unsigned int of `UintMod` values, and a popped NULL
is the empty array, as in the code.

### Arena (arena.h)

Addresses are numbers, so that alignment, padding, headers and overlap are
those of the code; the content of a byte is one of a few model values,
`Header(size)` for a byte of a size header, or `Mark(handle)` for one that the client
of that block wrote.  `Data` is what else may be written: the bytes of a structure
whose memory is the arena's, none if there is no such structure.

| TLA+ | code |
|---|---|
| `pages` | `_pages`, with the size each was allocated with |
| `pageIndex`, `current`, `sentinel`, `last`, `pageSize` | `_page_index`, `_current`, `_sentinel`, `_last`, `_page_size` |
| `mem` | memory, in pages and outside |
| `block` | ghost: what the client was promised for each block it has |
| `NewPage`, `Enter`, `AddPage` | `_mulle_arena_new_page`: the next kept page, or a fresh one added |
| `Reset`, `ResetKeepPercentage` | `_mulle_arena_reset*` |
| `Place`, `RawAlloc`, `Bump` | `_mulle_arena_alloc`: where the block is, and the cursor behind it |
| `Alloc`, `Calloc`, `Realloc`, `Memdup`, `MemdupBlock`, `Strdup` | the native functions |
| `HeaderPlace`, `NextHeader`, `WithHeader`, `HeaderAlloc` | `_mulle_arena_alloc_with_size_header` |
| `RawRealloc`, `Reallocarray`, `FreeBlock` | `_mulle_arena_realloc`, `_mulle_arena_reallocarray_v`, `_mulle_arena_free_v` |
| `CallocV`, `AllocV`, `ReallocV`, `FreeV`, `Abort` | the functions in the vtable |

The functions of the code are operators on a *state of the arena*, a record of the
variables above, that yield the set of states they may leave behind (one for
each page the allocator may return), so that a caller can go on with them as the
code does: `Reallocarray` calls `HeaderAlloc`, and a storage calls both.  An action
starts with `Now` and ends with `Become`.

`FreshPages` is the default allocator: it may return any address aligned to
`MaxAlign` where a page fits, and zeroed memory.  `HeaderSizes` is what a read of
a size header may return; if other bytes lie there, it is any size, compared with
the size requested.  A fail does not return (`Abort`).  Sums of sizes and of
pointers wrap at `SizeMax`, which is the largest address too (`Wrap`); strictly, a
pointer sum that wraps is undefined in C, and wraps in the builds there are.

Three specifications: `NativeSpec` (clients of the native functions),
`VtableSpec` (clients of the vtable) and `MixedSpec` (both on one arena).

### StorageOnArena (storage.h on arena.h)

`StorageOnArena` extends `Arena` with a storage whose allocator is the arena.  What
`Storage` has as a function from nodes to contents and as a sequence of nodes are
here bytes in blocks of the arena:

| TLA+ | code |
|---|---|
| `block[0]`, `block[i]` | the memory of `_freed`, the i-th bucket of `_structs` |
| `structs`, `freedCount` | the counts of the two containers |
| `NodeAt`, `SlotAt`, `Pointer` | addresses of nodes and slots, what a slot holds |
| `State`, `System`, `Written` | the arena, its blocks and the two counts as one record, as they are now, with other bytes in memory |
| `WithNode`, `WithCopy` | `memset` and `memcpy` of a node |
| `MallocNode`, `Pointed` | `_mulle_storage_malloc`: the pointer read from the last slot in use; other bytes there may point to any node |
| `Reserve`, `NewBucket` | one element more, with a bucket from `reallocarray` of `NULL` when the last one is full |
| `OpenStorage`, `InitFreed` | `_mulle_storage_init`: the freed array gets `capacity / 32` slots, and memory for them if there are any |
| `AddFreed`, `Room` | `mulle__pointerarray_add`: the array grows by `reallocarray` |
| `FreeNode` | `_mulle_storage_free`: poison, then add |
| `CloseStorage` | `_mulle_storage_done`: the array is freed, then the buckets; the one at `last` gives its bytes back, and from then on no block is at `last`, so that freeing the others does nothing |
| `EndOfScope` | the arena is done or reset under the storage, which is inited anew |

An operation is again an operator on one state, of both structures; `Commit` (`Adopt`, for
init) makes it the next state, and makes every byte indeterminate that is in no reserved
node, in no slot in use and not in the header of the freed array.  So the model
says what the storage relies on, and a read of anything else would be seen as a
read of junk.

`ImplementsStorage` maps it to `Storage` by what is read from memory: a node has
contents if its bytes agree (`NodeContents`), the freed array is the sequence of
nodes that its slots point to (`FreedNodes`), and `Buckets` counts blocks.
As `Storage` implements `NodePool`, so does this.

`FreedShares` stands for the 32 in storage.h 109.  From a capacity of 32 on, the freed array
is the first block that the storage takes, in front of all buckets; below, it is
taken at the first free, behind one bucket or several.  The repository's own numbers
show it: to grow to a million nodes takes 250,000 allocations with capacity 4, and 15,626 and
978 with 64 and 1024 (README.md 70 and 77), one more than there are buckets.
`BucketsFollowPeak` of `Storage` counts the buckets alone.

All modules let the client do what the asserts in the code permit: it frees,
reallocates and writes what it holds, once; sizes of native requests are not
zero; alignments are powers of two.

## What the runs show

`MCStorage`, `MCIndexedStorage`, `MCArena` and `MCStorageOnArena` instantiate the
modules for TLC.  `MCStorageOnArena` extends the module of the proofs, and
`MCNativeArena` and `MCVtableArena` are `MCArena` with theirs: they check the inductive
invariants too, and evaluate the theorems' hypotheses, which hold of the instances.  Model values that the code does not look at (contents, handles)
are symmetric, except in runs where the property names them.

| run | instance | what it shows |
|---|---|---|
| `storage` | 4 nodes, buckets of 2 | all properties of the storage, and that it implements `NodePool` |
| `indexed` | 4 indices, `UintMod` 5, array of 1 | the same for indexed storage; the array moves twice, at its limit `index + 1` is the largest unsigned int |
| `arena_native` | 2 blocks of 1 and 2 bytes, 3 pages of 3 or more, alignments 1 (duplicates) and 4 on pages aligned to 2, DEBUG | native clients, with resets that keep all of one or two pages or 2 of 3, and oversized pages between them: `IInv` is invariant; cursor, page index and `_last` stay in step; blocks are apart, and aligned where they are placed; nothing is written outside of the pages; the native functions implement `Region`, which says that blocks keep their contents |
| `arena_vtable` | 2 blocks, requests of 1, 3 and 5 bytes and bad ones, DEBUG | vtable clients: `VInv` is invariant; all of this, headers are kept too; the vtable implements `Region` |
| `storage_on_arena` | 4 nodes in buckets of two, one or two pages of 12 bytes or one of 16, freed array of no slot, one or two at init, DEBUG | the storage on an arena implements `Storage`; `RInv` is invariant; the freed array's header is intact, nodes and slots are apart, blocks aligned |

The bounds: a bug of the pools needs two nodes (one freed, one held), a second
bucket and a reuse after growth; four nodes in buckets of two have all of this
in every order.  A bug of the arena needs two blocks that meet, a page that is
full, an oversized page, a reset that keeps some pages, and padding that is
needed in one place and not in another; pages are placed at addresses with the
vtable's alignment but not the largest one asked for, so padding is needed on a
fresh page too.  In `storage_on_arena` a page of 12 bytes holds two buckets and
the first freed array in some order, so that a bucket's header lies in the
array's last slot and the array moves to another page when it grows; on a page
of 16 bytes it grows in place, or moves past a bucket.  Init takes a freed array of one slot or
of two, as it does for capacities of 32 and 64, or none (`FreedShares` is `{1, 2, 32}`): the array is in
front of the first bucket, whose header may be in its last slot, or behind it.

`AddrMax` and `PageBases` bound memory; when nothing fits, no action that needs a
page is possible, as an allocator that fails does not return.  `MaxNodes` bounds
the pools in the same way.

Deadlock is checked wherever the system may not stop.  `arena_vtable` says
`CHECK_DEADLOCK FALSE` since an aborted program stops.

`arena_vtable` is restricted by design to the conditions under which the vtable
is correct: block sizes that leave room for the next header (`size % MaxAlign` in `1 .. MaxAlign - SizeT`) and resets that
keep no page.  The next section shows what happens otherwise.
`storage_on_arena` keeps no page either, and its buckets have such a size; its
freed array does not: two or four pointers are a multiple of the alignment, as in
the code, so the header of the block behind it lies in its last slot.  The run
shows that this is harmless for a storage that is the arena's only client: a
bucket is only taken when nothing is freed, so the slot is not in use when the
header is written, and a bucket's header is not read again when the slot is
used.  Neither holds for a second client of the arena, whose block may follow a
full freed array.

There are no liveness properties and no fairness: nothing in this code runs by
itself, so nothing must eventually happen.

## What the code does and its comments do not say

Each of these is a run that TLC must find violated; PROJECT.json quotes the
comment.

| run | what the trace shows |
|---|---|
| `storage_fifo` | The API documentation says freed nodes are reused first in, first out.  `_freed` is popped where it is added to: last in, first out. |
| `arena_headers` | After a block whose size is a multiple of the alignment, `_current` is `align( end) - sizeof( size_t)`, in front of the block's end.  The header of the next block is written into the block, and the client's last bytes become its size. With 8-byte `size_t` and 16-byte alignment this is any size that modulo 16 is 0 or larger than 8. |
| `arena_keep` | A reset that keeps pages sets `_current` to the page's start, without the offset a fresh page gets, so the blocks there are not aligned. |
| `arena_realloc` | A native realloc of the last block returns it where it is if the page has the room, without a look at its alignment argument: a block allocated with alignment 1, or a duplicated string, is not aligned to the 4 that realloc was asked for ("Required alignment", arena.h 353). |
| `arena_mixed` | The vtable takes `_current` as it is; after a native allocation it has no offset, so the next vtable block is not aligned. |
| `arena_poison` | `_current` may be behind the page's end after a block that fills it; DEBUG poisons from the block to `_current`, past the page. |
| `arena_wrap` | For a request of `SIZE_MAX` bytes the sum for the end of the block and the one for the size of its page wrap, and the caller gets a block in an ordinary page.  The product was checked, the sums are not.  (The `memset` of a calloc runs off the page here; after a malloc, which writes nothing, the client has a block that is not there.) |

`arena_keep` and `arena_mixed` state alignment, which holds in `arena_vtable` and
`storage_on_arena`, where only the condition in question differs; of `arena_realloc`,
`AlignedWherePlaced` is what remains and `arena_native` checks.
On an ABI where the alignment is the size of a `size_t` (Windows x64), the headers
overlap whatever size a block has: `MaxAlign - SizeT` is zero.

More of the kind were met while modelling and have no run:

- a comment (arena.h 60) calls the vtable's free a no-op, but it takes the last
  block back; the API documentation knows;
- an oversized allocation makes `_mulle_arena_new_page` leave behind all pages a
  reset kept (they are used again after the next reset), and of a kept page that is
  oversized only the first `_page_size` bytes are wiped, which is all that is used
  of it from then on.

## What is proved

`StorageProofs` proves, for every number of nodes, every bucket size, with and
without DEBUG, all properties of `Storage` that the run `storage` checks:

| theorem | statement | rests on |
|---|---|---|
| `TypeCorrect` | `[]TypeOK` | |
| `OnePlace` | `[]OnePlaceForEveryNode` | `TypeCorrect`, `DownIsEmpty`, `MallocPlaces` |
| `Kept` | `[]ContentsKept` | `TypeCorrect`, `DownIsEmpty` |
| `GrowsToPeak` | `[]HighWater` | `Counted` |
| `Poisoned` | `[]FreedStayPoisoned` | `OnePlace` |
| `BucketsAsNeeded` | `[]BucketsFollowPeak` | `GrowsToPeak`, `NextBucket` |
| `Counted` | `[]CountIsLive` | `OnePlace` |
| `Refines` | `Spec => ImplementsNodePool` | `OnePlace`, `Kept` |

The assumptions are those of `StorageAssumption`: a positive bucket size, and
model values that differ from each other.

The heart is `OnePlaceForEveryNode`: the freed array has no node twice, what is
in it is not held, and the nodes below `structs` are exactly those held or in the
array.  None of the three parts is inductive alone.  That a popped node is not
in the rest of the array needs the first; that a free adds no node twice needs
the second (a node held is not in the array); that a reserved node is not held
yet needs the third.  Together with the types and one more fact they are: before
init and after done there are no nodes (`EmptyWhenDown`), or init would lose
some.  `MallocTakes` says what all ways to get a node have in common, so that
pop and reserve are treated once for the four operations that call
`_mulle_storage_malloc`.  The other invariants are one induction each on top of these,
three of them of `OnePlace`: for example the count is right because the nodes held
grow and shrink by one together with what `_freed` and the queue count, and the
high-water mark is exact because a reserve with nothing freed means, by the
count, that all reserved nodes are held.
`Refines` maps the free nodes of the pool to the freed array; a pop is a
`HandOut` of a node in the pool, a reserve one of a new node, which `NodePool`
permits only when every node is held, and that is what `freed = <<>>` and
`OnePlace` give.

`IndexedStorageProofs` proves, for every width of an unsigned int, every bound below
it and every capacity, all properties of `IndexedStorage` that the run `indexed`
checks:

| theorem | statement | rests on |
|---|---|---|
| `TypeCorrect` | `[]TypeOK` | `TagIsNext`, `AllocCases` |
| `OnePlace` | `[]OnePlaceForEveryIndex` | `InductiveOnePlace` |
| `Kept` | `[]ContentsKept` | `Fresh` |
| `OnlyGrowthMoves` | `MovesOnlyToGrow` | `AllocCases`, `DownIsEmpty` |
| `Counted` | `[]CountIsLive` | `InductiveOnePlace`, `Fresh` |
| `GrowsToPeak` | `[]HighWater` | `Counted` |
| `Refines` | `Spec => ImplementsNodePool` | `InductiveOnePlace`, `Fresh`, `Kept` |

The assumption that matters is `MaxNodes < UintMod`: with it `TagIsNext` says that
`index + 1` is neither cut off nor `NULL`, and `AllocCases` that a pop of `NULL` means
the empty array and nothing else.  `OnePlaceExpanded` is the inductive form of
`OnePlaceForEveryIndex`, in terms of indices that wait (their tag is in the freed
array) instead of tags.  Moving memory needs one invariant more, `PointersAreFresh`:
a pointer the client still may use is to an index it holds, in the memory the array
is in now; the reuse of a freed index keeps it so because the array does not move then
(`AllocCases`).  It is why a write through a kept pointer is not lost (`Kept`), and why
it does not make the client a holder of an index it has returned (`InductiveOnePlace`).

`SequenceEnds` has the lemma both rest on for the pop: what `Front` and `Last` are.

### The arena

`NativeArenaProofs` and `VtableArenaProofs` prove, of a client of either interface,
for all pages, sizes, alignments and numbers of blocks, with and without DEBUG, all
properties of `Arena` that its runs check:

| native functions | vtable | statement |
|---|---|---|
| `NativeInvariant` | `VtableInvariant` | `[]IInv`, `[]VInv`: the inductive invariants |
| `NativeTypeOK` | `VtableTypeOK` | `[]TypeOK` |
| `NativeCursorInPage` | `VtableCursorInPage` | `[]CursorInPage` |
| `NativeBlocksBehindCursor` | `VtableBlocksBehindCursor` | `[]BlocksBehindCursor` |
| `NativeBlocksApart` | `VtableBlocksApart` | `[]BlocksApart` |
| `NativeLastIsOnTop` | `VtableLastIsOnTop` | `[]LastIsOnTop` |
| | `VtableAligned` | `[]Aligned` |
| `NativeAlignedWherePlaced` | | `AlignedWherePlaced`: native blocks are aligned as asked when they are new or move; what realloc leaves in place need not be (`arena_realloc`) |
| `NativeContentsKept` | `VtableContentsKept` | `[]ContentsKept` |
| | `VtableHeadersKept` | `[]HeadersKept` |
| `NativeWritesInsidePages` | `VtableWritesInsidePages` | `WritesInsidePages` |
| `NativeImplementsRegion` | `VtableImplementsRegion` | the arena implements `Region` |

The hypotheses are what the code needs and does not check; for each there is a run
that shows what happens without it.

- `RequestsFit` (native): address plus size plus alignment does not exceed
  `SizeMax`; without it the sums in `_mulle_arena_alloc` wrap (`arena_wrap`).
- `VtableClient`: the same for the sums with a header; sizes leave room for the
  next header, `size % MaxAlign` in `1 .. MaxAlign - SizeT` (`arena_headers`); no reset
  keeps a page (`arena_keep`); in a DEBUG build a block ends where the next header
  goes (`Exact`), so that the poison stays in the page (`arena_poison`).
- `Exact`, for `VtableCursorInPage` only: otherwise `_current` may be behind the end
  of a page, by less than the alignment, as `Ready` says.

The invariants have the same parts, which `ArenaLayout` defines over a state of the
arena and the client's blocks, so that the operators of `Arena` can be reasoned about
one after the other:

- `Layout`: pages are in memory and apart (`PagesOK`), the cursor is in the current
  page (`CursorOK`), every block and its header are held (`Holds`: inside of one page
  that has been reached, behind the cursor if it is the current one) and apart from
  the other blocks (`BlocksOK`), and a block that does not start at `last` has no byte
  between `last` and the end of the current page (`LastOK`).  `BlocksApart` alone is not inductive: that a
  new block meets no other one needs all blocks behind the cursor, that a fresh
  page meets none needs them inside of other pages, which have to be apart; and that
  a block may grow or go in place needs `LastOK`.
- `AllIntact`: the bytes of a block and of its header are what they should be.  The
  header is needed for `AllIntact` itself: `Reallocarray` copies as many bytes as the
  header says.
- `Clean`: what is not in a page is not written to.
- facts of single blocks (`NativeBlock`, `VtableOK`), and `Ready` for the vtable: the
  cursor is where a header has to go for the next block to be aligned.

`ArenaLayout` has what both proofs share: `Align` (at least its argument, less than
that plus the alignment, a multiple of it), `NewPageOK` (a page is entered that
nothing is held in, whether kept or fresh), `Grown` and its lemmas (what a step that
hands out bytes at `last` leaves as it is), and one lemma for each way the layout
changes: `Allocated`, `GrownInPlace`, `Returned` (free of the last block), `Dropped` (of
another one), `FillKeeps`, `ResetRewinds` (no page is kept) and `ResetKeeps` (the bytes
of a kept page).  The
proof of each action names the operator it uses, shows that it is `Grown`, and cites
the lemma.

`ArenaRegion` is for the refinement.  The arena's view of its client's blocks
(`ClientView`, bytes read from memory) is, by `AllIntact`, the view of the client's own
records; so a step that turns one block into another is a step of the region
that changes one block (`ViewStep`), and what is left to show of each action is that
the new record is what the region says: `AsObtain`, `AsDuplicate`, `AsOverwrite`,
`AsResize`, `AsRelease`; `AsClear` is done and reset.  A request that fails is a stutter.

### The storage on an arena

`StorageOnArenaProofs` puts the two together: for all numbers and sizes of buckets, nodes,
slots and pages, with and without DEBUG,

| theorem | statement | rests on |
|---|---|---|
| `SystemInvariant` | `[]SInv`, the inductive invariant | the lemmas of `ArenaLayout` |
| `SystemTypes` | `[]SystemTypeOK` | `SystemInvariant` |
| `SystemFreedHeaderKept` | `[]FreedHeaderKept` | `SystemInvariant` |
| `SystemBodiesApart` | `[]BodiesApart` | `SystemInvariant` |
| `SystemAligned` | `[]Aligned` | `SystemInvariant` |
| `RefinementInvariant` | `[]RInv`, the inductive invariant of the refinement | `SystemInvariant`'s steps, `TakenStep` |
| `SystemImplementsStorage` | `SystemSpec => ImplementsStorage` | the steps of `RefinementInvariant` |
| `NodesInMemory` | `Storage`'s invariants, of what is in memory | `SystemImplementsStorage`, `StorageProofs` |
| `SystemImplementsNodePool` | the storage on an arena is a `NodePool` | `SystemImplementsStorage`, `Refines` |

The hypothesis is `StorageFits`: no reset keeps a page, a bucket leaves room for the next
header (`BucketSize % MaxAlign` in `1 .. MaxAlign - SizeT`), and sums with the size of a bucket
or of an array, be it init's, the first of a free or one that grows, do not wrap.  Nothing is asked of
the size of the freed array, which is a multiple of the alignment as soon as it has two slots or
four; nor of the capacity: init may take a freed array (`InitFreedSound`) or none, so that
the array is in front of all buckets or behind some.

So the layout of `ArenaLayout` does not hold of the blocks as they are: the header behind
the freed array lies in its last slot.  It holds of what is a block's *own* (`Own`): all of
a bucket with its header, and the freed array with its header but without its last
slot (`Trim`).  `SInv` says

- `Shape`: this layout, the vtable's cursor, the last slot in the page of the array,
  and, if there are blocks, one of them at `last`;
- `Counts`: reserved nodes are in buckets, pointers in slots;
- `ArrayReads`: the header of the array says its size, each slot in use points to a
  reserved node;
- the client holds reserved nodes only, and nothing is left of a storage that is done.

The last slot belongs to nobody by the layout, so that what is in it has to be shown to
stay in every step that writes.  A bucket, whose header may go there, is taken only
when nothing is freed (then `ArrayReads` says nothing of its slots); a slot in use is
written by nobody else (`MemoryKeeps`), and one that is written into may destroy a bucket's
header, of which no step reads.  When the array grows it is in one of three cases:
in place at `last` (`ArrayInPlace`), where the slot becomes the array's own; or by a copy
to the place behind the topmost bucket, or to a new page (`ArrayMoved`), whose header
is in no byte of the old array (`ArrayBytesStay`), since it goes behind a bucket that leaves
room for it.  That the array is not abandoned with its pointers needs the header to
say its size, as `Reallocarray` copies that many bytes (`CopyOfSlot`).

`BodiesApart` and `FreedHeaderKept` are not inductive alone: they do not say where the
cursor is, that blocks are in pages, or that `last` is the start of a block, without which
a growth in place may run over a neighbour.

The refinement has to show of each operation what is read after it from every node, every
slot and all buckets.  `RInv` adds to `SInv` what that needs:

- `Recorded`: a reserved node that the client does not hold has a slot pointing to it, so
  that with an empty freed array all reserved nodes are held, and the high-water mark
  rises exactly when the queue grows;
- `BucketsFilled`: the buckets are as many as the nodes fill, so that a bucket is taken when
  `Storage` takes one (`BucketCount`);
- `SpareJunk`: nodes with memory that are not reserved yet are indeterminate, as `Storage`
  has them; a node that is reserved must not read as anything else by accident.

Nodes lie apart (`NodesApart`), so that a write to one changes the contents of one
(`NodeChanged`); slots are copied when the array moves (`SlotsCopied`), so that the array reads as
before (`SameFreed`), with one node less (`LessFreed`) or more (`MoreFreed`); what `Commit` leaves
indeterminate is in no node and no slot (`CommitReads`); an array that grows leaves the buckets
alone (`RoomKeepsBuckets`).  `ReserveReads` and `AddFreedReads` put this together for the two
operations that ask the arena for memory, `TakenStep` for all that hand out a node.  The end of
the arena is `Done` of `Storage` if the storage is up, else a stutter, as is init of the arena.
Init of the storage is init of `Storage`, whether it takes a freed array or not: an array without
pointers reads as empty, and there is no bucket yet (`OpenStoragePlain`).

`PlainProofs` is `StorageProofs` under the refinement mapping: its theorems hold of `System`, since
`StorageOnArenaAssumption` implies what `Storage` assumes (`PlainAssumption`).  So what
`StorageProofs` shows of nodes that are taken for granted is true of bytes between headers.

### Only model-checked

`WritesInsidePages` and its kind for clients outside of the hypotheses above, where the
runs show that they fail.

Out of the prover's reach, and not needed here: liveness and induction over data.
No module declares a recursive operator.

## What is not modelled

- The containers and the default allocator are other repositories'.  They are
  modelled as this code uses them: a queue that does not move its elements, an
  array that moves when full, a pointer array used as a stack, a `calloc` that
  does not return when it fails.  Their growth factors are a guess that no
  property but `MovesOnlyToGrow` sees, and it only needs that a full array moves.
- `UINT_MAX` elements of an indexed storage; `MaxNodes` is below `UintMod`, as the
  array's own count is an unsigned int.
- An indexed storage on an arena: its array and freed array are two growing
  blocks as the one in `StorageOnArena`.  A storage on an arena with other clients,
  with buckets of sizes after which a header overlaps, or after a reset that keeps
  pages: the runs of `Arena` show what is wrong with these already.
- The link between the buckets of a `mulle_structqueue` (`HeadSize` is its room).
- `NULL` structures, `free` of `NULL` and other early returns of the wrapper
  functions, which change nothing.
- Strings longer than they are: `strdup` is `memdup` of length and terminator.
- A client that breaks an assert.
- Version constants, generated headers, the benchmark's timing.

## Plan

1. Done: `NodePool`, `Storage`, `IndexedStorage`, `Region`, `Arena`, `StorageOnArena`
   and their runs; `StorageProofs`, `IndexedStorageProofs`, and the arena's in
   `ArenaLayout`, `ArenaRegion`, `NativeArenaProofs`, `VtableArenaProofs`.
2. Done: `StorageOnArenaProofs`, the invariants of a storage on an arena, and that it
   implements `Storage` and by it `NodePool`.
3. Next: a storage on an arena that keeps pages, and one with other clients, for sizes
   after which no header overlaps.
