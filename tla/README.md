# Verification of coreKV

coreKV is the storage engine of an LSM-tree key-value store in C++: an in-memory
skip list, sorted tables on disk, a cache for their blocks, a manifest that says
which table is on which level, and what these stand on (files, allocators, a log).
This directory holds TLA+ models of the parts, TLC configurations that check
them on small instances, and proofs checked by TLAPS.

Paths are relative to the root of the repository. `PROJECT.json` lists the
components, runs, mutants, findings, hazards and theorems, and for every
definition the lines of code it stands for.

    tlc -workers 2 -config MCSkipList.cfg MCSkipList.tla
    tlapm SkipListProofs.tla

## 1. Inventory

There is no DB class yet: `src/src/db/db.h` is an empty facade, so nothing in the
repository joins the memtable, the tables and the manifest. The components below
are joined in twos and threes only, as the last column says.

| Component | State | Operations | Interacts with |
|---|---|---|---|
| SkipList `db/skiplist.h` | towers of atomic `next_` pointers, `cur_height_` | Insert (one thread), Contains (any thread, no lock) | Arena for nodes |
| ShardCache, LruCachePolicy `cache/` | per shard: list `nodes_`, map `index_`, map `wait_erase_`, a mutex; per node a count | Insert, Get, Release, Erase, Prune | table reader (blocks), clients that keep nodes outside the lock |
| ManifestHandler, ManifestChangeEdit `manifest/` | two maps, two counters; files MANIFEST and REWRITEMANIFEST | AddTableMeta, AddChanges, ReWrite, OpenManifestFile, RevertToManifest | FileWriter, FileTool, the directory of table files |
| FileWriter `file/file.cpp` | a buffer, a descriptor | Append, FlushBuffer, Sync, Close | write(2); TableBuilder, ManifestHandler |
| FileReader, FileTool | none | Read, Rename, ... | Table, ManifestHandler |
| TableBuilder `table/table_builder.cpp`, block builders, Footer | the open block, the index, offsets, the place waiting to be indexed | Add, Flush, Finish | FileWriter, comparator, filter policy |
| BloomFilter `filter/` | one string of bits for all tables | CreateFilter, MayMatch | FilterBlockBuilder, Table |
| Table `table/table.cpp` | `index_block_`, `bf_` | Open, ReadBlock, ReadMeta, ReadFilter; BlockReader (any thread) | FileReader, DataBlock, cache |
| DataBlockBuilder, DataBlock `table/` | prefix-compressed entries, restart points; an iterator | Add, Finish; SeekToFirst, SeekToLast, Next, Prev, Seek | comparator |
| ByteComparator `db/comparator.cpp` | none | Compare, FindShortest | builder, block |
| SimpleFreeListAlloc `memory/alloc.cpp` | free lists, a pool, malloc'd chunks | Allocate, Deallocate, Reallocate | malloc |
| SimpleVectorAlloc `memory/area.cpp` | blocks, a pointer, what remains | Allocate, AllocateFallback | SkipList |
| Log appenders `logger/` | a descriptor, a size, a mutex | Append, Rotate | every thread |
| Iterator cleanup list `db/iterator.cpp` | a list of callbacks | RegisterCleanup, destructor | BlockReader |
| CountMinSketch `cache/count_min_sketch.cpp` | counters | Increment, Estimate | nothing |
| Codec, crc32, hashes `utils/` | none | pure functions | builders and readers |

What is hard in each, and what makes it correct:

* **SkipList**: lookups run while an insertion splices its node level by level with
  plain stores. Every level must be a sorted chain at every instant, no
  uninitialised pointer may be loaded, both operations must look atomic, and
  a walk must end.
* **ShardCache**: iterators kept in a map to elements of a list that is
  spliced, erased and refilled; counts shared with clients that hold a node across
  other calls; Prune that goes through the shards one lock at a time.
* **Manifest**: the memory changes before the file; a rewrite appends
  to a second file and renames it; a process may die between any two of these.
* **FileWriter and TableBuilder**: a partial, interrupted or failing write(2)
  below a buffer, below offsets that are recorded before the bytes are written;
  index keys that are invented between two blocks.
* **BloomFilter**: one policy object shared by every table.
* **DataBlock**: an iterator moved in both directions over entries that only mean
  something relative to the entries before them.
* **BlockReader**: a block is known to the cache, to the iterator of the reader that
  missed it and to those of readers that hit it; the cache is unlocked between Get and
  Insert.
* **SimpleFreeListAlloc**: memory that moves between pool, lists and clients, with
  fragments, and with malloc failing.
* **SimpleVectorAlloc**: padding that must be counted the same way twice.
* **Log appenders**: a descriptor tested outside the mutex and replaced under it, an
  unsigned size that a failed write decreases, names with a resolution of a
  second, a file found at a restart.
* **Codec, crc32, the bytes of a manifest and of a block's trailer**: lengths and
  widths that seven does not divide, strings that end too early, four loops of which
  address and length decide which run, batches torn by a crash.

The hazards of the code, each at its line, with the properties that
cover it or the reason none does, are in `PROJECT.json`.

## 2. Modules

| Module | Models | Composes |
|---|---|---|
| `OrderedSet` | abstract: what the skip list promises | |
| `SkipList` | `db/skiplist.h`, a step per access to shared memory | refines `OrderedSet` |
| `SkipListRelaxed` | the same with the memory order of its stores | `SkipList` |
| `SkipListProofs` | theorems | `SkipList`, `SkipListRelaxed` |
| `RecencyCache` | abstract: which keys the cache keeps | |
| `ShardCache` | `cache/lru.h`, `cache/cache.h`, a step per critical section | refines `RecencyCache` |
| `Manifest` | `manifest/`, with crashes | |
| `ManifestProofs` | theorems | `Manifest` |
| `FileWriter` | `file/file.cpp`, a step per write(2) | |
| `ByteComparator` | `db/comparator.cpp`, operators | |
| `BloomFilter` | `filter/bloomfilter.cpp`, operators | |
| `TableBuilder` | `table/table_builder.cpp`, the block builders' sizes and order | `FileWriter`, `ByteComparator`, `BloomFilter` |
| `Table` | `table/table.cpp` up to the end of Open | `TableBuilder` |
| `TableProofs` | theorems | `FileWriter`, `Table` |
| `SortedCursor` | abstract: what an iterator promises | `ByteComparator` |
| `DataBlock` | block builder and block iterator, a step per round of a loop | refines `SortedCursor` |
| `DataBlockProofs` | theorems | `DataBlock` |
| `BlockReader` | `Table::BlockReader` and the cleanup of its iterators, as threads | `ShardCache` |
| `CacheProofs` | theorems | `ShardCache`, `BlockReader` |
| `FreeListAlloc` | `memory/alloc.cpp`, a step per call | |
| `Arena` | `memory/area.cpp`, a step per call and per new block | |
| `LogAppender` | `logger/log.cpp`, `logger/log_appender.cpp`: threads, failures, restarts | |
| `Codec` | `utils/codec.cpp`, `utils/codec.h`, operators at full width | |
| `CodecStream` | a string that is written, cut off and parsed | `Codec` |
| `ManifestCodec` | EncodeTo and DecodeTo on the bytes of a manifest file | `Codec` |
| `Crc32` | `utils/crc32.cpp`, `utils/crc32.h`, with the real tables | `Codec` |
| `EncodingProofs` | theorems | `CodecStream`, `ManifestCodec` |
| `BlockChecksum` | the trailer of a block: WriteBytesBlock, ReadBlock | `Crc32` |
| `ChecksumProofs` | theorems | `Crc32`, `BlockChecksum`, `EncodingProofs` |
| `LibraryProofs` | theorems | `FreeListAlloc`, `Arena`, `LogAppender`, and `MCLibraries`, which has them together |
| `MC*` | instances for TLC | |

A definition marked *Mutant* in a comment is a plausible wrong version of the
definition that follows it; each property of a passing run has one that breaks it.

### SkipList

A node is named by its key, a number from 1 to `MaxKey`; 0 is `head_`,
`MaxKey + 1` is `nullptr`, and `MaxKey + 2` an entry of `next_` that NewNode does not
initialise (or one past the end). `next[l][n]` is `n->next_[l]`, `tower[n]` its
height. The variables `cur`, `level`, `prev`, `index` are the locals of
FindGreaterOrEqual and Insert; `pc` says where a thread is. The actions are
LoadHeight, Forward, Down (one load of `next_` each), FoundPlace (the duplicate
test), Allocate (NewNode, the height, and `cur_height_`), FillNext and Link (the two
stores per level) and ReturnContains. Keys are their ranks, so that the comparison
is `<`. FindLessThan and FindLast have no caller and are left out.

`SkipList` interleaves the stores in program order. `SkipListRelaxed` keeps the
writer's stores in flight until they reach the memory that readers see, either
in program order or, as `std::memory_order_relaxed` allows, in any order but that
of two stores to one location. The construction of the key is a store of its own
there.

### ShardCache

Each operation of `LruCachePolicy` holds the shard's mutex from start to end and is
one step; `Prune` of the whole cache is one step per shard. An iterator is the
identity of a list element (`elem`), so that a stale one can be told from a good one.
`Clients` keep the node a Get returned until they Release it, across the steps of
others. The value of a node is the number of the Insert call. `Unref` is written
`if (!node)`: the count of a node that exists is never taken down, nothing is ever
deleted, and `freed` stays empty; `NoDanglingNode` therefore says of today's code
only that nobody is handed a deleted node because there is none, and its mutant
what would happen if the guard alone were put right: FinishErase and every Prune each
drop one reference of a node, so a client's node is deleted under it.
`RefModulus` stands for 2^32. Left out: `ttl` and `last_access_time` (written, never
read), `RegistCleanHandle` (the handler is called by no path), capacity 0, for which
Insert takes the back of an empty list, and the destructor.

### Manifest

`level_tables` and `table_levels` are the two maps, `files` the two manifest files as
sequences of batches, `ssts` the table files. AddChanges changes the memory
(action AddChanges) and then the file (AppendBatch); ReWrite appends
(RewriteAppend) and renames (RewriteRename or RewriteFails). `Crash` can fall between
any two steps or inside an append, which leaves a part of the batch; what Sync wrote
survives. The maps follow `ApplyChangeSet` to the letter: `resize` happens only
when the size is less than the level, so a level equal to the size indexes out of
bounds. That is undefined behaviour and ends the model's execution in
`pc = "undefined"`, of which `MapsAgree` says only when it is entered. A delete of a known table does
not change the maps, and ends the change set for an unknown one, as in the code.
ReplayManifestFile hands DecodeTo an empty input and is modelled as applying nothing.
RevertToManifest gets the table files that exist and runs after a successful open.
Left out: writes that fail (see `FileWriter`), and the bytes of a record.

### FileWriter, TableBuilder, BloomFilter, Table

`FileWriter` is a machine with one call in progress at most: `pending` is what Writen has
left, `rest` what Append will buffer or write afterwards. write(2) takes any part
(`WriteSome`), or fails (`WriteFails`); an interrupted call changes nothing.
Every byte carries its number in the stream handed to Append, which is what order
and loss are stated with.

`TableBuilder` extends it. The unit of size is an item (an entry, a restart array, a
trailer, the filter, the footer), so a block of two entries has length 3. The
builder goes on only when its call of the writer returned; its `pc` names the part of
Finish that comes next. As in the code the result of the first Append of
WriteBytesBlock is overwritten by that of the second, a failing Append does not stop
Finish, and Finish returns at once, with the file open, if the status was
bad before. The comparator is always there; compression copies, as it does in
the code.

`BloomFilter` has the arithmetic of the filter with the hash of a key given by the
constant `HashOf` (any numbers of `ShiftRight + ShiftLeft` bits); nothing but the
positions depends on it. The policy's `bloomfilter_data_` is the variable `policy`,
which `EarlierTables` says was used before.

`Table` extends `TableBuilder` with Open: footer, index block, meta block, filter.
Only tables without a failing write are opened. The code ignores the result of
ReadBlock in Open, so a damaged table is not told from a good one; the index block
is built on a local string that is gone at the end of Open, and no code reads it.

### DataBlock

Builder and iterator with offsets that count entries instead of bytes, so
NumRestarts, the restart array and the loops stay as they are; keys are sequences
of bytes, because prefixes are what the block is about. `Compare` in Seek passes a key
without a terminating NUL to `strcmp`: when that key is a proper prefix of the target
the bytes that follow decide, and `SearchGoesRight` allows both answers. (Targets are
NUL-terminated, as they come from strings.) Blocks are those the builder
wrote: the paths for damaged bytes are there (`Corruption`) and must not be taken.

### BlockReader

A client of the cache is a reader or it is not (`readers`, chosen at the start). With
readers, the others erase and prune; without, `BlockReader` is `ShardCache` with any mix of its
operations, so that the run of the cache is the composition's. LookUp is BlockReader up
to the answer of Get, `reading` the key whose block is being read from the
table, InsertBlock the rest of a miss, DeleteIterator the iterator's destructor with
the one cleanup it has. `held` keeps the node of a hit as long as the iterator lives.
ReleaseBlock casts its first argument, the cache, to a node and hands it to Release: Unref
gets a pointer that is neither null nor a node and does nothing, so the reference of
the hit is never returned. The iterator of a miss deletes its block although
the cache keeps it, and the next hit gets a deleted block; since
nothing ever leaves the cache by count, `BlockHasOneOwner` still holds: each block is
deleted once. Its mutants show what follows if one of the two faults is repaired
alone.

### FreeListAlloc

Sizes and addresses in units of `kAlignBytes`. `heap_size_ >> 4` grows the next chunk,
malloc succeeds or fails at any call (twice in a row ends the program), blocks come
back in any order. `memory_usage_` is only reported; Reallocate is a Deallocate
followed by an Allocate and adds no state of its own.

### Arena

A request and the blocks it takes are steps: Request, AllocateFallback as often as
Allocate calls itself, AllocateFitting. Addresses are numbers; new[] returns aligned
ones with a gap between two blocks (`NextBlock`). AllocateFallback adds the bytes of
the new block to what remains and leaves `alloc_ptr_` in the old one, so after the
first block nodes lie past its end, outside the block that `area.h:19` promises:
`InsideFirstBlock` says what is true, and
`NodesApart` and `NodesAligned` hold even then. Requests of no bytes are left out.

### LogAppender

`fd_` is the only field read outside the mutex, so a stretch under the mutex is
divided where `fd_` changes: Write (with the decision to rotate), MoveAside (rename, the
size, Close), Reopen. A file is its size, a directory is `active` and `rotated`, by the
second and the process id that GenerateLogFileName puts into the name. write, rename and open
fail at any call, up to `MaxFaults`; a write on -1 always does. Restart kills the
process at any point and opens the file there is. `rotations`, `tainted` and `open_failed`
are history. `SizeModulus` stands for 2^64. fstat does not fail; `EmptyAppender` and
`ConsoleAppender` keep no state; the level filter and the formatting are left out.

`WaiterReopens` is a property the code has by accident: after a failed open `fd_` is -1 and
the size 0; a call that was already waiting writes to -1, the size wraps to 2^64 - 1, and
the rotation this forces opens the file again. A call that comes later is dropped at the
test, forever.

### Codec, CodecStream, ManifestCodec

Integers and bytes are sets of the numbers of their one-bits, so 64 bits are
within reach of a checker with 32-bit numbers. Loops are recursive functions of how often
they have gone round. The two loops of the decoders are one
operator with the number of bytes they read. `CodecStream` puts values into a string, cuts it
anywhere and gets them back. `ManifestCodec` appends encoded batches to a file, any of
them torn, and states what DecodeTo, which reads the first record count only, makes of
it. `Manifest` knows batches as sequences of records; that DecodeTo gives back the first
one is `FirstBatchIsDecoded`.

### Crc32, BlockChecksum

The polynomial, the masks and the tables are those of the source, at full width; a table is
defined by what it holds, which are the 1280 numbers of the source. Strides, the
alignment of an address and the tails are modelled as they are written. The
reference definition is the division of the data by the polynomial, bit by bit. Extend is
affine over exclusive or, so that in the runs buffers with at most one bit set stand for
all; the proofs are about all bytes. `MCLibraries` assumes the
published check value of CRC-32C, which TLC evaluates.

## 3. Runs

| Run | Instance | What it shows |
|---|---|---|
| `skiplist` | 3 keys, 3 levels, writer and one reader | `TypeOK` (no index beyond `kMaxHeight`), `SortedChains`, `WalkOnLinkedNodes`, `SpliceAtPredecessor`, `Linearizable` (refines `OrderedSet`), `CallsReturn` |
| `skiplist_in_order` | 3 keys, 2 levels, delayed stores in program order | `FullyInitialized`, `SeenChains`, `SeenAnswers`: late stores are harmless if they stay in order |
| `skiplist_relaxed` | 2 keys, relaxed stores | violation of `FullyInitialized` |
| `shard_cache` | 2 clients, none, one or both of them readers of blocks, 2 shards of 2 nodes, 4 keys (3 in one shard), 3 insertions | `TypeOK`, `IndexMatchesList`, `NothingDeletedInUse` (`NoDanglingNode` of nodes, `BlockHasOneOwner` of blocks), `EvictsLeastRecent` (refines `RecencyCache`) |
| `shard_cache_value` | the same | violation of `ValueIsUpdated` |
| `manifest` | 2 tables, 2 levels, 3 changes, 2 rewrites, 1 crash | `TypeOK`, `MapsAgree` (`KnownIsListed`, `ListedIsKnown`, `MissedBySizeOnly`), `KnownIsRecorded`, `RewriteLosesNothing` |
| `manifest_replay` | the same | violation of `ReplayRestores` |
| `table` | 6 keys, blocks of 2 entries, a buffer of 2 items, 2 failing writes, with and without filter, fresh and used policy | `ReaderTypeOK`, `StreamIsKept` (`KeptInOrder`, `OnlyFailureLoses`), `OffsetsMatchFile`, `LookupFinds`, `OpenFindsBlocks`, `OwnArrayMatches`, `FinishReturns` |
| `table_last` | the same without failures | violation of `LastBlockIsIndexed` |
| `table_shared_filter` | the same, one table before | violation of `NoFalseNegatives` |
| `data_block` | every subset of 6 keys, restart intervals 1 and 2 | `TypeOK`, `RestartIndexFollows`, `RebuildsWhatWasAdded`, `IsSortedCursor` (refines `SortedCursor`), `OperationReturns` |
| `libraries` | one of seven machines, chosen at the start: | |
| | free list: 3 listed sizes and a large one, 2 blocks a refill, 16 units of heap, 3 blocks with clients | `EveryUnitHasOneOwner` (`NoOverlap`, `NothingLost`), `LibrariesTypeOK` |
| | arena: 4 requests of 1 to 9 bytes, alignment 4 | `NodesAreSound` (`NodesApart`, `NodesAligned`, `InsideFirstBlock`) |
| | log: 2 threads, 3 calls each, rotation at 2 bytes or never, sizes modulo 16, 2 seconds, 1 failing call, 2 processes | `DescriptorIsTracked` (`SizeIsTracked`, `ClosedOnlyInRotation`), `RotationKeepsFiles` (`RotatedAreFull`, `OnlySameSecondLoses`), `WaiterReopens`, `AppendReturns`, `LibrariesTypeOK` |
| | codec: strings of 2 values at the edges of every length (of 64-bit values, from 4 bytes on), and slices of up to 128 bytes, cut anywhere | `RoundTrips` (`ReadsBackWhatWasPut`, `RefusesExactlyTheCutOff`, `LengthIsAnnounced`) |
| | manifest: 2 batches of 1 or 2 records, each whole or torn anywhere | `DecodesFirstBatch` (`FirstBatchIsDecoded`, `TornBatchIsPrefix`) |
| | crc: buffers of 1 to 39 bytes at 4 addresses, extended byte by byte | `ExtendIsDivision` |
| | block: 4 blocks, 4 addresses, any byte changed in 16 ways | `ChecksumDecides` (`WrittenBlockIsRead`, `DamageIsNoticed`) |

**Why the bounds are enough.** Three keys let a node be spliced before, between and
behind two others, and three levels let a tower grow the list by more than one level
while a reader stands on any of them; a second reader shares nothing with the first
that either writes, and the proofs of section 5 cover any number. Three insertions into
a shard of two make one eviction and hits after it, and the reinsertion of a key that was
erased; to insert an evicted key again takes a fourth, for which the state space is too
large to be searched in minutes and the proofs of section 5, which hold for any number
of insertions, stand alone. One shard more makes Prune interleave with operations on the shard it has not
visited. Two rewrites and a crash give a rewrite that meets the leftover file of
one that died. A buffer of two items below blocks of one to three items reaches each of Append's
three ways. Six keys fill three blocks, the last of them exactly or not.
Keys that are prefixes of each other, with one, two and three bytes, and bytes
that are negative as `char`, are what FindShortest and prefix compression
distinguish. Intervals 1 and 2 put a restart point at every entry and at every other.
Two readers of one key miss it both, and one evicts or erases what the other inserted. Requests of
1 to 9 bytes meet every padding of an alignment of 4 and up to four fallbacks.
Two threads and three calls give a thread that waits while the other rotates, and two
rotations in one second; sizes modulo 16 are never reached from below, so the only wrap
is that of a failed write. Each group of a varint has a value that just fits it and one that
just does not. 39 bytes are 3 unaligned ones, two swaths and single words and bytes behind
them, in every combination. The libraries share no state, so
that their sum is checked in one run.

**Symmetry** is used in `shard_cache` only: clients, and the keys of one shard, are
interchangeable, and its properties are invariants and a refinement without fairness.
The set of readers is a variable, so it is permuted with the rest.

**Deadlock** is checked in the skip list, cache and block runs. The others may stop: bounds on
changes and crashes are used up (`manifest`), a table is finished and opened
(`table`), the program exits when malloc failed twice, a string is parsed, a block is
damaged (`libraries`).

**Fairness.** `skiplist`: the operating system runs every thread that is inside a
call, so each thread's steps inside a call are weakly fair, and nothing obliges a
caller to make a call. `table`: a call of Add or Finish runs to its end on its own thread,
and write(2) returns; it is assumed not to be interrupted forever, since Writen
would then loop forever. Failures need no fairness. `data_block`: the iterator is
sequential, a call runs to its end. `libraries`: a thread inside Append goes on
whenever it can: what it waits for is a std::mutex, and each thread makes a bounded
number of calls, so that no thread is overtaken forever. The other runs check safety only.

## 4. Where code and its comments differ

* `skiplist_relaxed`: `db/skiplist.h:147` says the acquire load observes "a fully
  initialized version of the returned Node", but the store that publishes the node is
  relaxed (line 54): a reader can load the pointer before it sees the node.
  `skiplist_in_order` shows that program order of the stores, as x86 gives, is enough.
* `shard_cache_value`: Insert of a cached key says it updates the node's value
  (`cache/lru.h:55`) and keeps the old node and value.
* `manifest_replay`: the replay of the manifest (`manifest/manifest.cpp:25`) reads
  into a string of length 0 and restores nothing.
* `table_last`: Finish writes an empty data block when the last key had just filled one and
  indexes that one under the last key (`table/table_builder.cpp:109,134`): the
  keys of the last full block cannot be found beyond the index key before it.
* `table_shared_filter`: several filters may share one `bloomfilter_data_`
  (`filter/bloomfilter.cpp:42`), but the filter block of the second table holds the
  arrays of both and MayMatch takes them for one: it denies keys that are there.
  `OwnArrayMatches` shows the array itself is right, and right at its own place.

Faults met while modelling that no run states. The first two contradict a comment:

* The arena's second block is never used: nodes run past the end of the first
  (`memory/area.cpp:17`), although `memory/area.h:19` promises "a newly allocated memory
  block of "bytes" bytes". `NodesAreSound` says what is left.
* A change for the level right behind the last is applied out of bounds
  (`manifest/manifest_change_edit.cpp:67` compares with `<`), although the comment above it
  says that the level "may be 0 or 1" and that the resize makes it safe. The first table on
  level 0 of an empty manifest is such a change; the model ends in `pc = "undefined"`, and
  `MissedBySizeOnly` says that there is no other.
* A table that is created again on another level, or deleted first, stays in the set
  of its old level: creating it does not look there, and the test of a delete
  (`manifest/manifest_change_edit.cpp:82`) is inverted, so that it erases nothing.
  `MapsAgree` says what is left.
* A request to the arena of no bytes that finds `alloc_ptr_` unaligned and too little
  left calls itself forever.
* A hit of BlockReader may get a block that the iterator of the miss has deleted
  (`table/table.cpp:112,134`): `BlockHasOneOwner` says only that it is deleted once.
  ReleaseBlock releases nothing (line 94); `cache_id` (line 109) collides between tables.
* `DataBlock` keeps a pointer into its argument, which for the index block and for
  BlockReader is a local string that is gone (`table/table.cpp:31,116`).
* The cache reclaims no node (`cache/lru.h:119`).
* Once another process has appended behind a torn first batch, DecodeTo makes up
  records that nobody wrote (`manifest/manifest_change_edit.cpp:46`, whose comment asks
  what should happen).
* Two rotations in one second of one process leave one file
  (`logger/log_appender.cpp:62`); after an open that failed the logger is silent unless a call
  was waiting (line 71).
* `log.cpp:52` appends `len + fmt_len` bytes, beyond the buffer when the message
  was cut off.
* Finish closes a table without fsync (`table/table_builder.cpp:148`); the status of a
  block's first Append is overwritten (line 99); Reallocate copies nothing
  (`memory/alloc.cpp:170`).
* `CountMinSketch::Estimate` starts its minimum at 0 and returns 0 always
  (`cache/count_min_sketch.cpp:61`).

## 5. Proofs

The `*Proofs` modules prove, for every value of the constants, what the runs check on
their instances. Each has an inductive invariant, a lemma per action that the action
preserves it, and theorems that follow from it. Where it is possible the invariants the
runs check are conjuncts of the inductive one; the rest says why they hold. TLC agrees
with the inductive invariants on small instances (infinite sets of values cut down where
it has to enumerate them); only `OwnFilter`, which says that some earlier string of bits
exists, was not tried.

| Module | Theorems | State (each `Spec => []P`, `Spec => [][A]_v` or a refinement) |
|---|---|---|
| `SkipListProofs` | `TypeCorrect`, `ChainsStaySorted`, `WalkIsSafe`, `SpliceIsRight`, `LinearizableTheorem` | the invariants of the run `skiplist`, and that `SkipList` implements `OrderedSet` |
| | `CallsAreBounded` | the bound on the steps of Insert and Contains (Calls, below) |
| | `InOrderInitialized`, `InOrderChains`, `InOrderAnswers` | if `ProgramOrder`, what `skiplist_in_order` checks |
| `CacheProofs` | `CacheTypeCorrect`, `IndexTheorem`, `OwnerTheorem`, `CacheAloneTheorem`, `RecencyTheorem` | the invariants of `shard_cache`, with readers and without, and that the cache implements `RecencyCache` |
| `ManifestProofs` | `ManifestTypeCorrect`, `MapsTheorem`, `RecordedTheorem`, `RewriteTheorem` | everything `manifest` checks |
| `TableProofs` | `StreamTheorem` | `StreamIsKept` for any owner that calls Append, FlushBuffer and Close one after the other |
| | `TableTypeCorrect`, `TableStreamTheorem`, `OffsetsTheorem`, `OpenTheorem`, `OwnArrayTheorem`, `LookupTheorem` | every invariant of `table` |
| | `WritenTheorem`, `TableCallsAreBounded` | the bounds on the steps of the writer, for any owner, and of Add and Finish |
| `DataBlockProofs` | `BlockTypeCorrect`, `RestartIndexTheorem`, `RebuildsTheorem`, `CursorTheorem` | the invariants of `data_block`, and that the iterator implements `SortedCursor` |
| | `OperationsAreBounded` | the bound on the steps of the iterator's operations |
| `LibraryProofs` | `FreeTypeCorrect`, `OneOwnerTheorem`, `ArenaTheorem` | `TypeOK` and `EveryUnitHasOneOwner` of the free lists, `NodesAreSound` of the arena |
| | `LogTypeCorrect`, `DescriptorTheorem`, `RotationTheorem`, `WaiterTheorem` | what `libraries` checks of the log, except that calls return |
| | `AppendTheorem` | that some call of Append is not blocked, and the bound on its steps |
| | `LibrariesTheorem` | `LibrariesTypeOK`, of the libraries put together |
| `EncodingProofs` | `CodecTheorem`, `ManifestCodecTheorem` | `RoundTrips` and `DecodesFirstBatch` |
| `ChecksumProofs` | `ExtendTheorem` | not about a behaviour: Extend takes the checksum of some data to that of the data with a buffer behind them, for any bytes at any address |
| | `CrcTheorem`, `BlockTheorem` | `ExtendIsDivision` and `ChecksumDecides` |

**Assumptions.** The theorems rest on the named `ASSUME`s of the modules and nothing
else: numbers that are sizes are natural and not 0 where the code divides by them or
loops over them; keys are non-empty strings of bytes that are not 0 (they come from C
strings); every key of a table has a hash; the writer of the skip list is no reader; a
rotation size is less than the width of the counter less one; an encoded string is shorter
than 2^32 bytes and a batch has fewer than 2^32 changes, as the code casts both to
`uint32_t`; a byte that changes on disk does change. Bounds of the runs
(`MaxNodes`, `MaxFailures`, `MaxCalls`, ...) are arbitrary numbers in the proofs. What
the models leave out, as section 2 says per module, the proofs leave out too. The
theorems on `SkipListRelaxed` also assume `ProgramOrder`; without it the run
`skiplist_relaxed` shows the first of them to be false.

**SkipList.** A store of Link keeps a level sorted only if the gathered predecessor is
still the immediate one (`SpliceAtPredecessor`); that holds because the walk stood on
linked nodes and did not overtake its key (`WalkOnLinkedNodes`), which needs the chains
to be sorted (`SortedChains`), and all of it needs the types. Their conjunction `IInv`
is inductive. The refinement maps `contents` to the nodes linked on level 0: Insert
takes effect at the Link of level 0, Contains at its last load, and each other step is a
stutter.

With late stores the readers are behind the writer. `InFlightIInv` says how: there are
memories, one between any two neighbouring stores in flight, from what the readers see
to what the writer did; each store leads from one to the next, each is a sound list
(sorted levels, contained in the level below, constructed nodes only), and no level ever
loses a key on the way. A store of the writer adds a memory at the end, a store that
becomes visible takes the first one away, and a reader that stands on a node of an old
memory stands on a node of every later one. This is where the order is needed: a store
that overtakes another leads to a memory the writer never had. `Pointed` adds that
nothing but a linked node is pointed to, so that a memory is known by its pointers.

**Cache.** `CacheIInv` makes list and index each other's inverse in every shard: each
element's key is in the index and leads back to that element, elements differ, and every
key of the index is in the list. `ReaderIInv` partitions the blocks: every block read is
deleted or owned by exactly one client's iterator. `freed = {}` is part of it, as
`Unref` returns at once for every node (section 2): that no node dangles is proved for
the reason the code gives, which is that it deletes none. The refinement maps each shard
to the keys of its list; all the counts and elements are stutters.

**Manifest.** `MapsAgree` is inductive with the types: each change of a set either keeps
the two maps together or asks for the level right behind the last. `KnownIsRecorded` is not, as
inside AddChanges the memory is ahead of the file. `Saved` says where the record is at
each point: in MANIFEST, in the batch about to be appended, or before the rename in both
files. `RewriteLosesNothing` follows from the third.

**FileWriter, TableBuilder, Table.** `FileIInv` says that file, pending, rest and buffer
are the stream in order (`StreamIsKept`), that the buffer is empty while Writen runs,
and that numbers are given out in order. `BuilderIInv` is stated over that stream and so
does not depend on how much of it has reached the file: what the builder has counted is
what it has handed over (`Offsets`), every place in the index holds a data block with
its trailer (`DataBlocks`), and each part of Finish is where its place says
(`FinishBlocks`). When the file is closed without a failure, stream and file are the
same, which gives `OffsetsMatchFile` and `OpenFindsBlocks`. `OwnFilter` says that once
the filter block is written the policy's data are what CreateFilter made of some data
before, with every probe of the table's own keys set; `LookupIInv` that every key before
`pre_key` is at home in the block its index entry leads to. That FindShortest returns a
string between its arguments is a lemma over strings of any length (`LookupFinds` rests
on it).

**DataBlock.** `BlockIInv` is the format: shared prefixes are those of the key before,
the rest is stored, restart points ascend, and sharing begins anew at each. `IterIInv`
says that `key_` is always what the next entry needs (`KeyOK`), and that on an entry
`restart_index_` is the last point not behind it (`Settled`). `SearchIInv` keeps what an
operation has found out: the left end of the binary search is before the target, each
entry passed over by a scan is. The refinement needs the keys to be added in ascending
order, as tables are built, and of `SearchGoesRight` only that it never goes right past
a key that is not before the target: where `strcmp` reads beyond a key and wrongly goes
left, the scan is longer and ends on the same entry.

**Allocators.** `FreeIInv`: what clients have, what the lists have and the pool together
are exactly the chunks of malloc, each unit once, by a set of spans that do not overlap
(`Shared`); chunks are apart and below the next address; a large block is a chunk.
Refill and split are lemmas on partitions. `ArenaIInv`: nodes lie before `alloc_ptr_`
and apart, and as long as there is one block, `alloc_ptr_` and what remains end where it
ends.

**LogAppender.** `LogIInv` relates the mutex to the positions of the threads
(`MutexOK`), an open descriptor to the active file and its size (`DescriptorOK`), a
closed one to a rotation in progress or an open that failed (`ClosedOK`: who still works
with it passed the test of `fd_` before, and the size is 0, so that its failing write
wraps and `WaiterReopens`), and the files to the order in which they were rotated
(`OrderOK`).

**Encodings.** What a loop computes for every length of its data is an induction over the
data. The loops are recursive functions on numbers. That there is such a function, and
what holds of it at every argument, is shown by looking at the least argument where it
fails (`StepsExist`, `UpTo`). On top of that the encodings are arithmetic of bits: a
varint's groups tile the bits of a value, so the decoder puts each bit back in its place
(`ReadsCode`), and reads of a cut code that it is cut (`RefusesCut`), with two different
limits of the decoders' loops for 32 and 64 bits. `CodecIInv` says that the codes of what
was put follow one another in the string (`CodesFollow`) and that the parser stands
between two of them. `ManifestIInv` says that the file begins with its first batch, or is
a beginning of it; `Follows` says where the decoder is after each record, and that a field
that is cut leaves it before bytes of which each says that more follow, which it refuses
again in every turn that is left.

**Checksums.** Words are sets of bits, exclusive or is symmetric difference, so everything
Extend does is linear (`DivisionLinear`) and a table is known by its definition for
single bytes. `WordDivides`: four steps of the byte table are the division of a word. Of the four
strides the invariant is what Combine would make of them: when a word is read into one of
them (`AdvanceWordIs`), and so for a swath (`STEP16Is`), it becomes the remainder after that word,
and at the end Combine is what they are left with (`StridesDivide`). With the bytes before and
behind them this gives `ExtendTheorem`, which needs nothing about the address, the length
or where the data are split. For `BlockTheorem` Mask is shown to have Unmask as its inverse (an
addition modulo 2^32 is the exclusive or with its carries, whose borrows are the same
bits). A block with one byte changed has another checksum, because different bytes on
one remainder leave different remainders, and every later byte keeps them different
(`ByteCounts`): shifting right loses only bit 0, which bit 31 of the polynomial records.
`BlockIInv` is: what is stored is what was written, or that with one
byte changed.

**Calls.** Each liveness property has a safety half that is proved: a number of steps, 0
outside a call, bounded at its start, that every step of the call makes smaller. A loop that
may go round for ever has no such number. For the walk of FindGreaterOrEqual it is the
level plus the distance to the key, `level + (key - cur)`: the walk goes right or down,
never back, and an insertion by somebody else moves neither, so that a lookup is not held
up by the writer (an insertion adds the two steps per level of its splice). DataBlock's is
what is left of the restart array to search and of the block to parse; it needs that
`left <= right` while Seek searches, which holds because the middle is rounded up. Writen's is the
bytes that are left, where a short write still writes one; Finish is a list of four blocks
of at most four steps, and `TableStepCounts` says that the steps of the writer take nothing
from it. Append has three steps at most, and as several threads wait for one mutex,
`NobodyIsStuck` says that it is free or its holder can go on. TLC finds
all of these to hold in the instances of the runs.

**Model-checked only.** Liveness under fairness: `CallsReturn`, `FinishReturns`,
`OperationReturns`, `AppendReturns`. What the bounds leave to TLC is that a call's next step
is possible and is taken, which is ENABLED and fairness and not in the provers' reach. Every
other property of a passing run is stated by a theorem. The properties of the violation
runs are false.

## 6. Not modelled

* **CountMinSketch**: nothing calls it, and what it computes is constant.
* **Hashes, random numbers**: the models take any value for them.
* **Lifetime of buffers** (DataBlock's pointer): the repository has no caller that
  reads such a block.
* **A reader without a cache**: its blocks are seen by nobody else.
* **FileWriter::Sync** apart from its effect in `Manifest`, and **FileTool** apart from Rename:
  one system call each.
* **The contents of a block that Reallocate moves**; the level filter and the text of a log
  message; **options, Status, string and time utilities, data_debug_iterator**:
  formatting, constants and plain structures.
* **Damaged bytes in DataBlock's iterator**: ReadBlock's checksum is in front of it
  (`ChecksumDecides`); the iterator's own tests are there and must not fire.
* **Tests, examples, main**: read for how the components are called.

## 7. Plan

The set of runs stays small enough to repeat on every change: a new component joins an
existing composition where it can.

Models, if the code grows: a DB class that composes memtable, tables and manifest.
