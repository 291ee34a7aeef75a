# Verification of `vector.h`

The repository re-implements `std::vector` for C++20 in one header,
`src/vector/vector.h`. This directory holds TLA+ modules that model it, TLC
configurations that model-check them, and TLAPS proofs about them.
`PROJECT.json` lists, for each definition, the lines of the header it stands
for, and the runs, mutants, findings, hazards and theorems.

## 1. The system

`vector<T, Allocator>` is a sequential data structure: no thread, no I/O,
nothing persistent. What makes it hard is that nearly every statement calls code
it does not know (the allocator, and constructors, assignments and destructors of
`T`), and almost each of those calls may throw. An exception may cut any method
at any element; the next call, or the destructor, starts from whatever is left.
The second difficulty is aliasing: `v.insert(p, v[k])` passes a reference to an
object that the method is about to move, overwrite or destroy.

### Parts, their state and operations

| part | state | operations | interacts with |
|---|---|---|---|
| size arithmetic | none (numbers of an unsigned `size_type`) | `max_size`, `calculate_growth` | called by every function that grows; throws `length_error` |
| storage | `m_start`, `m_finish`, `m_end_of_storage`, the blocks and the objects in them | `destroy_and_deallocate`, `~vector`, `clear`, `pop_back` | allocator (`allocate`, `deallocate`), elements (`construct`, `destroy`) |
| reallocation | `new_start`, `new_finish`, loop counters | `grow`, `realloc_append`, `realloc_resize`, `realloc_insert`, first branch of `insert(pos, n, v)`, `shrink_to_fit` | called by `reserve`, `push_back`, `emplace_back`, `resize`, `insert`, `emplace` |
| in-place insertion and erasure | loop counter, `m_finish` that follows late | second branches of `insert`, `emplace`, `resize`; `erase` | elements (construct, move-assign, copy-assign) |
| `temp_value` | one block of one element | constructor, `get`, destructor | `insert` and `emplace` in the middle; `insert(pos, T&&)` when full |
| constructors, `range_initialize` | as storage | `vector(n)`, `vector(n, v)`, `vector(first, last)`, `vector(initializer_list)` | `grow`, `realloc_append` |
| assignment of values | as storage | `assign` (three), `range_assign`, `operator=(initializer_list)` | `reserve`, `grow`, `realloc_append` |
| several vectors | as storage, `rebound_alloc` of each | copying and moving constructors, `operator=(const vector&)`, `operator=(vector&&)`, `swap` | propagation traits, `select_on_container_copy_construction`, allocator comparison |
| iterators | a pointer | arithmetic, comparison | — |
| comparisons, `erase`, `erase_if` | none | pure algorithms | elements, `erase(first, last)` |
| vendored `testsuite_util`, tests | counters, map of blocks | verify what the vector did | all of the above |

### What makes each part correct

* size arithmetic: the capacity returned holds what was asked for, is at most
  `max_size()`, and grows geometrically, whatever wraps.
* storage: the pointers describe the allocated block, `[m_start, m_finish)`
  holds objects and nothing else does, and each block is released once, with
  its own size, with no object in it.
* reallocation: an exception at any element undoes what was constructed, no
  more and no less; the old block goes last; an argument that refers to an
  element is read while the element is there.
* in-place loops: never read or assign a slot without an object, never go past
  the block, and end although they count down in an unsigned type.
* towards the caller: a call that returns has the effect the operation defines;
  one that throws leaves the contents as they were (where that is promised).
* constructors: one that throws has to give up its storage itself, since no
  destructor will run for the object.
* several vectors: no two share a block, no block is released with an allocator
  that is not equal to the one it came from, and elements and allocators end up
  where the arguments and the traits say.
* comparisons: `==` and `<=>` agree, whichever operators the elements have.

The hazards behind these properties are listed in `PROJECT.json` at their lines.

## 2. Modules

    Growth ──────────── VectorCapacity ── MCVectorCapacity
      │  └ GrowthProofs ─ VectorCapacityProofs
      │
    VectorCalls ─── VectorSpec                 (an abstract specification)
      │                 ┊ INSTANCE
    VectorState ─┬─ VectorRealloc ─┐
                 └─ VectorShift ───┴─ VectorAssign ── Vector ── VectorInvariant ── MCVector
                                                                     │
           VectorProofs ── VectorCallProofs ─┬─ VectorBooksProofs
                                             └─ VectorEffectProofs ── VectorSpecProofs

    AllocatorTraits ── TwoVectorsSpec          (an abstract specification)
      │                 ┊ INSTANCE
      └─ TwoVectors ── Comparisons ─┬─ MCTwoVectors
                                    └─ TwoVectorsProofs

    SinglePassInsert

**One vector, step by step**

* **Growth** — `max_size`, the guard and the result of `calculate_growth`, with
  `size_type` arithmetic modulo `2 * DiffMax + 2` (`Wrap`). `DiffMax` and
  `AllocMax` are parameters, so that the width is one too.
* **VectorCapacity** — a state machine with only `size` and `capacity`, and two
  history variables that count elements inserted and elements relocated.
  Insertions of any length that fit, that reallocate, or that are too long, and
  removals, in any order.
* **VectorCalls** — the calls a program may make, as records (operation,
  position, count, argument), and their preconditions. An argument is a value, a
  range of values, or the index of an element of the vector itself for the
  operations named by the constant `SelfArg`. `T&&` parameters never refer to
  own elements: the library may assume they are the only reference. `Used` names
  the operations an instance looks at.
* **VectorSpec** — the abstract specification: a sequence `contents`, calls that
  either take effect (`Return`) or leave it alone (`Fail`), and how the last one
  ended. `assign(first, last)` may also lose the elements. `Throwable` says which
  exception a call may end with: `length_error` or `out_of_range` only when it has
  to be refused, what the elements throw only when they may throw.
* **VectorState** — memory: `mem[block][slot]` is a value, `Moved` (an object
  that was moved from) or `Raw` (no object); `blk[block]` is the size it was
  allocated with, 0 when free. `m_finish` and `m_eos` are offsets from
  `m_start`. The operators `On...` judge each use of memory; what is wrong with
  it is added to `faults`: a read or an assignment (`read_raw`, `assign_raw`) or a
  destruction where no object is (`destroy_raw`), a deallocation that does not match
  (`free_wrong`), a construction over a living object and its block's deallocation
  (`construct_live`, `free_live`). Two kinds tell objects beyond `m_finish` apart,
  which an exception has left there and no later call knows of (`Stray`):
  `construct_stray`, `free_stray`. `destroy_unused` is raised by one line alone, 1120
  of `range_assign`, for unused slots (`OnReleaseCapacity`). `EndCall` is the way out of a method by return or by
  exception, the destructor of a `temp_value` in scope included; `Throw` is an
  exception that a caller inside the library may catch.
* **VectorRealloc** — the functions that fill a new block. They share a
  shape: allocate, construct the inserted elements at `[lo, hi)` (`Build`),
  construct the old ones around them (`Relocate`), release the old block and set
  the pointers (`Commit`). What differs is modelled where it differs: the order
  of the two constructions (`TimeToBuild`, `TimeToMove`), what each catch block
  destroys (`BuildThrows`, `Undone`), which of them end up setting the
  vector's own pointers to null (`CatchNullsPointers`), and where the caller goes
  on (`Afterwards`): `insert(pos, T&&)` calls itself, `insert(pos, first, last)` and
  `assign(count, value)` go on inside the storage without another look at it.
* **VectorShift** — the loops inside the block: construction at the end,
  `temp_value`, filling at the end, `resize` within the capacity, the shift of the
  tail, the placing of new elements, and erasure.
* **VectorAssign** — the constructors from values and `assign`: the storage is
  found (`ConstructVector`, `AssignFill`, `AssignRange`, `AssignInput`), existing
  elements are assigned to, the others constructed at `m_finish`, which follows
  them; over single-pass iterators the storage grows as they are read, through
  `realloc_append`, whose exception the loop catches (`Rollback`).
* **Vector** — one action per method, making the method's first decisions, and
  then the loops above; `Next`, the specifications and the properties.
* **VectorInvariant** — the inductive invariant `IInv`.

**Several vectors, function by function**

* **AllocatorTraits** — the propagation traits, `is_always_equal`, what
  `select_on_container_copy_construction` returns, and whether moving an element
  may throw, chosen once (`traits \in Traits`); an allocator is its *personality*,
  as in `uneq_allocator` and `propagating_allocator`. `last` is a history variable:
  the last function, its arguments, and what it threw.
* **TwoVectorsSpec** — the abstract specification: the elements and the allocator
  of each vector after every function, and what an exception may have changed. The
  function and its arguments are in `last`, which both modules share, so a function
  that returns has one permitted result in every vector.
* **TwoVectors** — vectors that share memory. A block remembers the personality
  it came from, as the map of `uneq_allocator` does. A step is a whole function, with
  the element at which it throws, if it does: what the loops do element by
  element is in the first group of modules, and nothing runs between their steps.
* **Comparisons** — `operator==`, `operator<=>` and `synth_three_way` as
  operators on the vectors of TwoVectors, for element types given by the relations
  `<` and `==` and by which operators they have.

**SinglePassInsert** — how `insert(pos, first, last)` counts and reads its range,
against `input_iterator_wrapper`, which verifies its own use. Small and apart:
`forward` ranges, which can be read twice, are what Vector inserts.

**MCVector**, **MCVectorCapacity**, **MCTwoVectors** — instances for TLC.

### From code to steps

In the first group a step is one use of the outside world: one allocation, one
construction, one assignment. Code between two of them runs together with the one
before. Destructors, `deallocate` and pointer operations never throw, so a
destruction loop is one step. The exception of a step and its catch block are one
step, since nothing in a catch block throws; only the catch block of the single-pass
loops, which may catch what `realloc_append` threw, is a step of its own. `fn`
names the function or loop being executed. `MayThrow` says what can throw:
`"alloc"`, and for the elements `"copy"`, `"move"`, `"ctor"` (any other
constructor), `"assign"`; with `NothrowMove`, `move_if_noexcept` moves, and
otherwise copies.

A move leaves `Moved` behind. Names in the model for overloads in the code:
`resize_v` is `resize(count, value)`; `push_back_rv` and `insert_rv` take `T&&`;
`insert_n` is `insert(pos, count, value)`; `build`, `build_n`, `build_range` and
`build_input` are the constructors from a count, a count and a value, a
forward and a single-pass range, and `assign_...` the same of `assign`; `destroy`
is the destructor, after which the program builds a `vector()` in the same place.
An `initializer_list` goes the way of a range.

## 3. What is checked

| run | question | instance |
|---|---|---|
| `capacity` | `CapacityInRange`, `AmortisedRelocation` | 5-bit `size_type`, allocator limit 13, at most `MaxWork = 26` insertions |
| `throwing_elements` | `StorageValid`, `NoUndefinedBehaviour`, `OnlyElementsLoseBlocks`, `FailedReallocationUndone` | everything may throw, moves too; insertions, removals, capacity; own elements as arguments; one value |
| `throwing_assignments` | `StorageValid`, `NoUndefinedBehaviour`, `OldStorageIntact`, `OnlyElementsLoseBlocks`, `FailedConstructionReleases` | everything may throw; constructors and the three forms of `assign`, with `reserve`, `push_back`, `pop_back`, `resize`; ranges of up to four |
| `nothrow_elements` | `NothingLost`, `ReferencesKept`, `ImplementsSpec` | only allocation fails; elements moved; two values; all operations but `assign(first, last)`; own elements as arguments at the end |
| `copied_implements` | `ImplementsSpec`, `CallReturns`, `CallsRunDown` | relocation copies; allocation and argument constructors throw; all operations; own elements as arguments except for `insert(pos, n, v)`; `FairSpec` |
| `two_vectors` | `StorageOwned`, `NoMisuse`, `OnlyElementsLoseBlocks`, `ImplementsSpec`, `ComparisonsAgree` | two vectors, nine combinations of traits, allocation, copies and assignments may throw; six kinds of elements to compare |

and six runs that show findings, below. What the passing ones show, in words:

* `StorageValid` is the basic exception guarantee at *every* step, not only
  between calls: the destructor is safe after an exception in any loop, and so is
  any sequence of later calls on a vector an exception has damaged.
* `NoUndefinedBehaviour` is what the checking allocators of `testsuite_util`
  would report: reading, assigning or destroying where no object is, a
  deallocation that does not match; and also constructing over, or freeing the block
  of, an object that the vector or the call in progress knows of, which is a handler
  that destroys too little. It admits three kinds of faults. `construct_stray` and
  `free_stray` are what happens to objects that an element's exception in the middle
  of a shift has left beyond `m_finish`: later calls construct over them without
  destroying them. That is a leak of the element's resources, not undefined
  behaviour. `destroy_unused` is finding 5: it can only come from line 1120, and a
  handler or another function that destroys too much raises `destroy_raw`, which is
  not admitted.
* `OldStorageIntact`: up to its commit a reallocation that copies has not touched
  the elements the caller saw. `FailedReallocationUndone` goes on to the end of the
  call: when such a reallocation fails, at whichever element, the vector shows what it
  showed before the call; or it is empty, when a copy of an old element threw and the
  handler is one of those that reset the pointers (finding 1). It never shows a part.
* `OnlyElementsLoseBlocks`: a block is lost only in a step in which an element
  throws, and only in the places `LosesBlock` names: the constructor of `temp_value`,
  which does not catch (line 1405), and the handlers of finding 1. `bad_alloc`,
  `length_error` and `out_of_range` never cost a block, not even in
  `insert(pos, T&&)`, which holds a `temp_value` while it grows, and no other handler
  forgets one.
* `FailedConstructionReleases`: a constructor that throws ends without storage,
  and loses no block on its way, with one exception, which is part of finding 1: when
  the constructor from a single-pass range grows, and a copy from the old block throws,
  `realloc_append` has reset the pointers (lines 1277, 1209) before the rollback at
  line 1104 looks at them, and the old block is lost with its elements.
* `NothingLost`: if no element throws, one block at most is out between calls,
  exactly the elements are alive, and nothing was misused on the way, strays and unused
  slots included.
* `ReferencesKept`: an insertion that fits, and an erasure, keep the block and the
  elements before the position.
* `ImplementsSpec` of Vector: the refinement. The caller's view is the contents
  at the time of the call until the call ends, then the contents of the storage;
  the mapping is a history variable, `before`. The strong guarantee is part of it, and
  so is that a call throws nothing it has no reason to throw.
  The two runs are the two classes of element types for which the code keeps it.
* `CallReturns`: every call ends, the loops that count down in an unsigned type
  and `insert(pos, T&&)` that calls itself included.
* `CallsRunDown` is the reason, without fairness: each step of a call, an exception
  included, lowers a measure ordered lexicographically: the parts of the method still to
  come (`PartsLeft`), the elements of the source still to be appended
  (`ElementsLeft`), the turns left to the loop that runs (`TurnsLeft`).
* `StorageOwned` and `NoMisuse`: through any sequence of constructions,
  assignments, swaps and removals, thrown out of anywhere, each vector holds a
  block of its own which its allocator may release.
* `ImplementsSpec` of TwoVectors: which elements and which allocator each vector
  has afterwards. Of a function that returns this is determined by its arguments and the
  traits (copy construction and assignment, `select_on_container_copy_construction`,
  what is left in a vector that was moved from, the elements `erase_if` keeps); all
  other vectors are as they were. When it throws, a constructor has changed nothing; a
  copy assignment has changed its target alone, which has as many elements, some of them
  assigned, or none when its storage had to go first; a move assignment may besides have
  moved from elements of the other vector; `erase_if` has lost none but what was moved from.
* `ComparisonsAgree`: in every reachable pair of vectors `==` says equal exactly
  when `<=>` says equivalent, and `<=>` is antisymmetric, for elements with `==`
  and `<=>`, with either, with `<` alone or besides `==`, and with unordered values.

**Bounds.** All runs of `MCVector` use a `size_type` of three bits
(`DiffMax = 3`), a `max_size()` of 3 elements and three blocks; they are unbounded
in the number of calls: TLC exhausts the state space. With three slots there is an
insertion position before, in and after the elements, a tail of one and of two
elements (so the shift both constructs and assigns), an exact fit, a fit with one
to spare, and counts that are 0, one past `max_size()`, and such that
`size() - 1 + count` starts from 0 - 1. Ranges have two elements (`MaxRange`), in
`throwing_assignments` four, one more than `max_size()`. Two values tell two
elements apart; one value suffices where the property only asks whether a slot
holds an object. A call holds at most three blocks (old, new, `temp_value`); the
fourth allocation that would be possible after blocks were lost fails with
`bad_alloc`, which the model allows at any time in the runs where blocks are lost.
`MaxWork` is twice the largest capacity, so that the vector can be filled, emptied
and filled again. `two_vectors` has three blocks (one for each vector and one for
the block being filled), vectors of up to two elements and two personalities, which
are enough for the allocators of two vectors and of a block to be equal or not
in every way; the construction sources are `<<>>`, `<<a>>` and `<<a, b>>`, from which
`erase_if` and exceptions reach the other contents. Its `VIEW` leaves `last` out of
the comparison of states: no function reads it and no invariant names it, so two
states that differ in it alone have the same successors, and the properties about
`last'` speak of steps, which TLC evaluates at each transition whether or not the
state it reaches is new.

The traits of `two_vectors` are those of `std::allocator`, `uneq_allocator`,
`propagating_allocator<T, true>` and `<T, false>`, each with elements that may and
may not throw when moved, and two more that isolate a trait. `Assignable` leaves
copy assignment out for the two of finding 6: with `propagating_allocator<T, false>`
and with `uneq_allocator`, the second of which ends up, after a copy assignment that
grows, with the allocator of the copy although it does not propagate on copy assignment.

**Fairness.** `FairSpec` asks for weak fairness of `CodeStep` alone: a call, once
made, keeps running, since nothing else runs on its thread and no step of it
waits. The caller need not make calls, and no exception need ever stop
happening or ever happen.

**Deadlock** is checked in every passing run: between calls a program can always
make one, and inside a call there is always a next step. Only the run
`single_pass_insert`, one call that ends, does not check it.

**Mutants.** For each property of each passing run, `PROJECT.json` names a
mutant: a definition in the module marked "Mutant of", which changes one modelled
definition as a plausible bug would and makes TLC find the property violated. The
specifications use none of them.

### Findings

Six runs show a disagreement between the code and what its comments or tests say.

1. `strong_guarantee`: an exception during reallocation empties the vector.
   `destroy_and_deallocate` (line 1203) also resets the vector's pointers, and the
   catch blocks of `grow`, `realloc_append`, `realloc_resize` and `insert` call it on
   the new block. The old block is lost, in the constructor from a single-pass range
   too. The comments at 556, 873 and 913, and `stress_test.cpp:400`,
   promise the strong guarantee. The stress test does not see it: its element type
   has a nothrow move constructor, so only the copies of the value argument throw,
   and those come before the old elements are touched.
2. `insert_self_realloc`: on a full vector `insert` and `emplace` move the elements
   before the position first, so an argument that refers to one of them is read
   after it was moved from ("args... is still valid", line 1359). For the same
   reason a constructor that throws in `emplace` leaves moved-from elements there.
3. `insert_self_fill`: `insert(pos, n, v[k])` inside the capacity makes a
   temporary, but assigns from `v[k]` itself after the shift (line 745).
4. `single_pass_insert`: `insert(pos, first, last)` accepts input iterators, counts
   them with `std::distance` and then reads the consumed range again (line 760).
5. `assign_over_capacity`: `range_assign` over the capacity destroys the slots up to
   `m_end_of_storage`, also those that hold no object (line 1120).
6. `copy_assign_allocator`: copy assignment beyond the capacity swaps with
   `vector temp(other)`, whose allocator is the one the other's allocator selects;
   without propagation on swap, blocks and allocators no longer belong together
   (line 315).

One divergence has no run, since it is by design: `pop_back` on an empty vector
throws, where `stress_test.cpp:103` expects it to return (action `PopBack`).

The two refinement runs of Vector leave out what these findings refute, and what the
code does not promise: `copied_implements` has no own elements as the argument of
`insert_n` (3), and no copy throws (1; the in-place insertions promise only the
basic guarantee when one does); `nothrow_elements` has no own elements as arguments
of insertions in the middle (2, 3), and no `assign(first, last)` (5).

## 4. What is proved

The proofs hold for every value of the constants: element values, number of blocks,
width of `size_type`, allocator limit, what may throw, whether moves may throw, which
arguments alias. The assumptions are those of the modules: `GrowthAssumption`
(`size_type` is unsigned and one bit wider than `difference_type`, the allocator's
limit is positive), `ValueAssumption` and `StateAssumption` (the markers are no
values, a nothrow move does not throw), `SelfArgAssumption`, `RangeAssumption`,
`TraitsAssumption`, `TwoVectorsAssumption`.

**One vector.** `VectorProofs` (with the lemmas about the operators of VectorState)
proves that `IInv` is inductive, and hence

* `BasicGuarantee == Spec => []StorageValid`
* `TypesHold == Spec => []TypeOK`

`StorageValid` is not inductive: a loop relies on what it did before. `IInv`
adds, per value of `fn`, how far its loops have come and which slots hold
objects because of it: in the new block the inserted elements built so far and
the old ones at `Dest(j)` (`ReallocValid`), beyond `m_finish` the shifted tail
(`ShiftValid`) or the elements of a growing `resize` (`FillValid`), in `temp` one
object (`TempValid`); and what the entry of each method established about
`call`. It says nothing about slots the functions do not rely on: earlier
exceptions may have left objects there, so it is also the statement that the
code is robust against that. The heart of the argument is short. A catch block
destroys a set of slots that `IInv` shows to hold objects (`AbandonIInv`); at a
commit both loops are through, so the new block is full (`NewBlockFull`); and
the in-place loops only ever turn raw slots into objects and objects into
objects (`LoopStep`), so `[m_start, m_finish)` can not lose one.

`VectorCallProofs` builds on `IInv`, each theorem with the invariant it needs besides:

* `BlocksKept == Spec => OnlyElementsLoseBlocks`, the places of `LosesBlock` included, with `NewBlockHeld`: outside
  the functions that fill a block none is held, so that no way out of a call
  forgets one unless an element threw.
* `FailedConstructionIsClean == Spec => FailedConstructionReleases`, with
  `BuildValid`: which loops a constructor can be in, and when it owns storage. It says
  both that the vector has no storage at the end and that no block was lost on the way
  but the one named above.
* `OldStorageKept == Spec => []OldStorageIntact`, with `CopyValid`: what the storage
  shows from the entry of a method to its reallocation, and that while elements are
  copied only the new block is written to.
* `FailureHasNoEffect == Spec => FailedReallocationUndone`, from the same invariant.
* `PrefixStays`: `ReferencesKept`, for elements whose copy constructor does not throw,
  with `PlaceValid`. The hypothesis is needed: `insert(end(), n, v)` that fits gives
  up the whole vector when a copy throws (line 723).
* `NoCallRunsForEver == Spec => CallsRunDown`, with `RoomMade`: the block into
  which `insert(pos, T&&)` grows has room for one element more, so that the call it
  makes to itself does not grow again. That the
  measure stays in the natural numbers follows from what `IInv` says of the loop
  counters.

`VectorBooksProofs` is about where there *are* objects, which `IInv` leaves open. It
proves `NothingUndefined == Spec => []NoUndefinedBehaviour`, for every program and every
exception, with the invariant `Tidy`: outside the storage only the slots that the call in
progress has filled hold objects (`Filled`: the new block; `temp_value`'s one slot), and in
the storage those beyond `m_finish` are the only ones not accounted for; in a new block
the constructions come in the order `BuildOrder` says, so that what a handler destroys is
all there is. And it proves `BooksBalance == Faultless => (Spec => []NothingLost)`,
where `Faultless` says that only allocation throws and `assign(first, last)` is not
used (finding 5). Its invariant `Books` says *exactly* which slots of which blocks hold
objects at each point of each loop.

`VectorEffectProofs` and `VectorSpecProofs` prove the refinement,
`KeepsContract == ContractKept => (Spec => ImplementsSpec)`: the three pointers and the
blocks implement a sequence of values. `ContractKept` names the programs it
holds for. Every allocation may fail; what else may throw (`MayThrow`) must spoil
none of the operations the program uses (`Used`), nor may it pass its own elements to
operations that move them before they read them:

| what may throw | `Spoiled`: operations that then lose elements or stop half-way |
|---|---|
| `"alloc"` | none |
| `"ctor"` (the constructor of `emplace_back`, `emplace`, `resize`) | `emplace`, where elements are moved (finding 2) |
| `"copy"` | `insert_n`, `insert_range`, `assign_n`; `insert`, where elements are moved; where they are copied, everything that relocates in `grow`, `realloc_append` or `realloc_resize`, and `emplace`, `insert_rv` (finding 1) |
| `"move"` | `insert`, `insert_rv`, `insert_n` |
| `"assign"` | insertions in the middle, `erase`, `assign_n`, `assign_range` |

| where elements are | `SelfSpoiled`: operations that read an own element too late |
|---|---|
| moved | `insert`, `emplace`, `insert_n` (findings 2, 3) |
| copied | `insert_n` (finding 3) |

The instances of both runs that check `ImplementsSpec` satisfy `ContractKept`, and the runs
of findings 1 to 3 are what happens outside of it. The proof has the usual form: `SpecInv`
says what each loop has made of the elements so far, in the terms of the contract: which
elements of `before` are where in the old block, the new one or the shifted tail
(`ReallocSpec`, `ShiftSpec`, `EraseSpec`), which slots already show what is
to be inserted (`Wanted`, `FillSpec`), what `temp_value` holds (`TempSpec`). Every step
either keeps `call` and `before`, and is a stutter of the contract, or ends the
call in one of the ways `Returned` and `Failed` describe. Sequences are compared element
by element, `Effect` being characterised once for each operation, so
that no induction over them is needed.

**Arithmetic.** `GrowthProofs` proves that the guard of `calculate_growth` is exact
and that its result lies between what is needed and `max_size()` although the sums
wrap; its lemmas serve both developments. `VectorCapacityProofs` proves

* `CapacityStaysInRange == Spec => []CapacityInRange`
* `RelocationIsAmortised == Spec => []AmortisedRelocation`
* `CapacityTypes == Spec => []TypeOK`

The bound `relocated <= 3 * appended` is not inductive either. Its strengthening
is a potential, `relocated + size <= 2 * appended + capacity` while the capacity is
below `max_size()`; at the cap no reallocation follows.

**Several vectors.** `TwoVectorsProofs` proves, for any number of vectors and blocks,
any elements and any traits,

* `OwnStorage`, `NothingMisused`, `VectorTypes`: `StorageOwned`, `NoMisuse`, `TypeOK`
* `BlocksKept`: `OnlyElementsLoseBlocks`

All suppose `CopiesMatch`: copy assignment is used with
allocators that are always equal, that propagate on swap, or that propagate on copy
assignment and select themselves. Finding 6 is what happens without it. `uneq_allocator`,
which propagates on swap only, satisfies it: its memory is safe, and only the
allocator it ends up with is wrong, so that `SoundToAssign` of the run is stronger
than the theorems need. The invariant is the conjunction of
`TypeOK`, `StorageOwned` and `NoMisuse`, with one lemma per function.

**Comparisons.** `ComparisonsHold == CopiesMatch /\ SoundComparisons => (Spec =>
[]ComparisonsAgree)`, also in `TwoVectorsProofs`, for vectors of any length.
`SoundComparisons` asks of the element type what the standard asks: `<` is asymmetric,
`==` symmetric and apart from `<`, and a type that has `==` but not `<=>` has the `==`
that its `<` gives. The first position at which two vectors differ, which `<=>` looks for,
exists because `<` on the naturals is well-founded (`Smallest`).

**The contract of several vectors.** `KeepsPromises == AssignsMatch => (Spec =>
ImplementsSpec)`, in the same module: memory and pointers implement the elements and
allocators of `TwoVectorsSpec`. `AssignsMatch` is stronger than `CopiesMatch`: copy assignment is used
with allocators that propagate on copy assignment and select themselves, or that are
always equal and do not propagate on swap. The allocators of `SoundToAssign`, with which
the run checks the property, all do. Each function has a lemma that shows its step to be the
step of the specification; what the vectors that take no part show is the same because
they hold other blocks (`OthersKept`), which is where `StorageOwned` is needed. `erase_if`
is the deepest: the specification asks for a strictly increasing choice of the elements
kept, the code moves each to the slot numbered by the kept ones before it, and the proof
shows that this numbering is monotone and leaves no slot out (`RankOrder`, `RankExact`, by
counting finite sets). The specification says this with a function and not with
`SelectSeq`, about whose recursive definition nothing could be proved.

Every safety property that a passing run checks is thus also a theorem. Out of the
prover's reach, and staying with TLC: `CallReturns` (liveness under fairness). Of its
two halves `NoCallRunsForEver` proves the first, that a call cannot go on for ever; the
second, that a call in progress always has a next step, is a statement about `ENABLED`
and is left to TLC, whose deadlock check is on in every passing run. The violated
properties of the finding runs are TLC's alone.

## 5. What is not modelled, and why

* **`normal_iterator`**: a pointer in a class; each operator is one expression on
  it. Positions are offsets from `m_start` in the model.
* **Element access** (`at`, `operator[]`, `front`, `back`, `data`): reads that change no
  state, with one bounds check each.
* **Deduction guides, `requires` clauses, `constexpr` evaluation, fancy pointers**
  (`to_address` is the identity on offsets): compile-time. Destructors that throw
  are outside the library's contract.
* **`assign(n, v[k])`** (line 383) and **`erase(c, c[k])`** (line 1432): the argument
  refers into what the call changes. The standard forbids the first and warns of the
  second, and nothing in the repository promises more: both take values of the
  caller in the model.
* **Self-assignment and self-swap**: the two vectors of an operation are different
  ones; for the same one both assignments test `this` and return, and a swap changes
  nothing.
* **Tests, stress and performance test, `testsuite_util`**: some 37,000 of the
  repository's 38,500 lines. They are the test suite of GCC's standard library with
  its support code for every container, iterator and type trait; what of it takes part
  in the vector's behaviour is modelled (the allocators that check, the iterators
  that verify, the types that throw), the rest has no state of the system in it: tests
  are straight-line programs, `safety.h` and `common_type` are templates
  evaluated at compile time or tables of test cases for other containers. The share of
  the whole tree that the modules cover is therefore small, while of `vector.h`
  nearly every function that changes state is.
