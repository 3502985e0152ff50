# PyramidKernel in TLA+

PyramidKernel is a 32-bit kernel of about 2,900 lines: it boots through GRUB,
sets up descriptor tables, interrupts, paging and a heap, and then reacts to
key presses. This directory holds TLA+ models of memory management, of interrupts
from the first instruction of `init_gdt` on, of the keyboard and the console, and of
the string functions; the TLC runs that check them; and TLAPS proofs about the heap,
its index, paging, interrupts, the command line, the screen and the string functions.

## 1. The system

| Part | Source | State | Operations | Interacts with |
|---|---|---|---|---|
| Kernel heap | `kernel/mm/kheap.c` | headers and footers in memory, `index`, `end_address` | `create_heap`, `alloc`, `free`, static `expand`, `contract`, `find_smallest_hole`; `kmalloc*`, `kfree` | ordered array (the index of holes), paging (pages for growth) |
| Ordered array | `kernel/mm/ordered_array.c` | `array[]`, `size` | insert, lookup, remove, place, (unused: create, destroy) | the heap passes the comparison |
| Paging | `kernel/mm/paging.c` | `frame_allocations`, page tables, `placement_address` | `init_paging`, `get_page`, `alloc_frame`, `free_frame`, `page_fault` | page tables come from `kmalloc`; `expand`/`contract` take and give back frames |
| Descriptor tables, PIC | `kernel/drivers/descriptor_tables.c` | GDT, IDT | `init_descriptor_tables`, which also enables interrupts | interrupt dispatch |
| Interrupt dispatch | `kernel/drivers/isr.c`, `asm/interrupt.s` | `interrupt_handlers[]` | `register_interrupt_handler`, `isr_handler`, `irq_handler` (acknowledges, then calls) | keyboard, `page_fault` |
| Keyboard | `kernel/drivers/keyboard.c` | `command[512]`, `cmd_index` | `keyboard_cb`: character, backspace, enter | console, commands |
| Console | `kernel/lib/shell.c` | `fb_col`, `fb_row`, frame buffer | `write`, `newline`, `back_space`, `scroll_down`, `init_prompt` | called from `main` and from the keyboard interrupt |
| Strings | `kernel/lib/string.c` | none | `itoa`, `uitoa`, `strcmp`, `memmove`, `printf` ... | everything that prints |
| Commands, generator | `kernel/drivers/shellcmds.c`, `cmdgen/cmdgen.py` | none | `reboot`, `uname` | dispatch in `keyboard.c` |
| Serial | `kernel/drivers/serial.c` | the UART | `serial_write` (no caller) | none |
| Panic | `kernel/lib/panic.c` | none | stops the machine | page faults, `alloc_frame` |
| Boot, `main` | `kernel/asm/*.s`, `kernel_main.c` | stack | start-up order | all of the above |

What makes each part correct, and what is hard to test in it:

* **Heap.** Every word of the heap belongs to exactly one block or hole; every
  hole is in the index once; tags written at one call are trusted many calls
  later; growth and contraction move the end of the heap while holes straddle
  it. Difficult: unsigned sizes, neighbours found by reading memory that may
  be anything, a recursion that must end, freed pages.
* **Ordered array.** Sorted between calls; loops that run up to and including
  cell `size`.
* **Paging.** No frame behind two pages; the identity map covers what is
  placed while it is being made; exhaustion.
  A page table made after the boot comes from the heap that is being extended.
* **Descriptor tables, interrupts.** Fields split over several places; a sequence
  of port writes in which one word more or less changes a mask into a vector; 48
  stubs that must agree with the processor about what is on the stack; the order of
  acknowledging and calling; stubs that set the interrupt flag before `iret`; an
  exception without a handler, raised again for ever.
* **Keyboard, console.** Interrupts are enabled before the keyboard has a handler;
  `main` and the handler share the cursor; unchecked buffer and cursor.
* **Strings.** A buffer of fixed size for every number with its prefix; loops that
  test before or after dividing; a `memmove` that copies in one direction.

The hazards, each at its line, are listed in `PROJECT.json`.

## 2. Modules

| Module | Contents |
|---|---|
| `OrderedArray` | insert and remove as operators on the sequence `array[0..size-1]` |
| `OrderedArraySpec` | abstract: a call begins, and returns with the array changed as asked |
| `OrderedArrayLoops` | the loops of `ordered_array.c`, one iteration per step; refines `OrderedArraySpec` |
| `OrderedArrayProofs` | type, memory and order invariants of the loops, and that they compute the abstract array, proved |
| `OrderedArrayTheorems` | lemmas about the operators and about sequences, for the proofs about the heap, the console and the strings |
| `Allocator` | abstract: regions are requested, granted disjointly, released |
| `KHeap` | `kheap.c` over words of memory; uses `OrderedArray`; refines `Allocator` |
| `KHeapProofs` | what the calls of `alloc` and `free` keep of the heap, the inductive invariant, and the theorems about the heap |
| `HeapTables` | extends `KHeap` with `get_page`: `expand` maps its pages one by one and enters `alloc` again for a page table; refines `KHeap` |
| `HeapTablesProofs` | that the tables are right and the heap whole at every step of `expand`, and that callers see the heap of `KHeap`, proved |
| `Paging` | `paging.c`, the boot sequence of `init_paging`, and what the heap asks of it |
| `PagingProofs` | the boot and the frames of the heap, proved |
| `Console` | `shell.c` as operators on a screen |
| `LineEditor` | abstract: a line that grows, shrinks and is run |
| `Keyboard` | `keyboard.c`, `isr.c` and the printing of `main`, interleaved; uses `Console`, refines `LineEditor` |
| `KeyboardProofs` | what `shell.c` does to a screen of any size; the command buffer, the line editor, the cursor and the screen, proved |
| `PIC` | the two 8259 as the kernel drives them, external |
| `Interrupts` | `descriptor_tables.c`, `interrupt.s`, `isr.c`, `reboot`, interleaved with devices, exceptions and NMIs; uses `PIC` |
| `InterruptsProofs` | the tables, the remapping, the stack and the nesting of handlers, proved |
| `Strings` | `string.c`: `printf` with its conversions, `strcmp`, `memmove`, `memset` |
| `StringsProofs` | recursion, numerals and joined sequences, and that the functions compute what is asked of them, proved |
| `MC*` | constants for TLC |

### The heap (`KHeap`)

`mem` is the memory, in words. `header_t` takes three words and `footer_t` two,
as in the build (the byte `is_hole` is padded to a word); all address and size
arithmetic that the code does in `uint32_t` is modulo `WORD`. `index` is the
ordered array of header addresses, `present` the pages whose entry is present.
`live` and `call` belong to the callers: the blocks they hold, and the call of
`alloc` in progress.

| Action | Code |
|---|---|
| `Call`, `AllocFromHole`, `AllocGrows` | `alloc`: entry; the part after a hole is found (219-281, computed by `Carved`: tight fit, alignment gap, block, remainder); one level of recursion (171-217, with `expand`) |
| `free` | all of `free`, as the composition `MakeHole`, `UnifyLeft`, `UnifyRight`, `ContractTail`, and the insertion at the end; each reads the memory the one before has written |
| `UserStores` | the owner of a block fills it |
| `Panic` | `page_fault`: an access to a page that is not present |

Nothing in the kernel calls the heap from an interrupt handler, so one call is
in progress at a time. A call of `free` is one step; `alloc` is one step for
each level of its recursion. `create_heap` is `Init`: it leaves one hole
without a footer. With the constants of the code, `create_heap` moves the start
of the data behind the index and then on by a page although it is aligned, so
the data region is 0xC0081000..0xC0100000 and the page below it is never
written: `mem` includes the two words below `START`, which `free` reads.

`contract` gives frames back but leaves the pages present. What a freed page
reads as depends on the TLB: `ContractTail` either keeps the words (the TLB
still has the entry) or loses them.

The code asks nothing of its callers, and several of its promises hold only for
some of them. `Growth`, `FreeOrder` and `Aligns` name those disciplines, so that
a run or a theorem says for whom it holds:

* `Growth = "none"`: callers keep within the minimum heap with a hole to spare;
  `"tail"`: a request beyond the holes comes only when the endmost hole reaches
  the end of the heap (or there is no hole); `"any"`.
* `FreeOrder = "never"`; `"inner"`: only blocks followed by a live block are
  freed; `"forward"`: no block is freed while a hole other than the one at the
  end follows it; `"any"`.
* `Aligns = {0}`: `kmalloc` and `kmalloc_p`; `{0, 1}` adds the page-aligned calls.

What the kernel itself does today, three calls of `kmalloc(8)` and no `kfree`,
is within every discipline. The runs `heap_extend` and `heap_contract` drop one
discipline each and show what then goes wrong. Two more can be dropped by hand:
`Aligns = {0, 1}` with `Growth = "none"` breaks `LiveBlocksDisjoint`, since the gap
in front of an aligned block may be smaller than the tags of the hole it becomes
(kheap.c:111); `FreeOrder = "any"` breaks `HoleTags`, since unify-right leaves a
footer that points to the old header (kheap.c:321).

### The heap and its page tables (`HeapTables`)

In `KHeap` growth takes its pages in one step. In the code `expand` calls `get_page`
for each, and a page whose table is missing makes `get_page` call `kmalloc_ap`:
`alloc` is entered again, on the heap that is being extended, while `end_address` is
still the old one. `HeapTables` keeps the state of `KHeap` and adds the directory,
the tables that the boot placed, the frames in use, and `expanding`, the calls of
`expand` in progress. A table that stands in the heap has its entries in `mem`, among
the headers and footers.

| Action | Code |
|---|---|
| `Request`, `Release` | `kmalloc`, `kfree` |
| `BeginExpand`, `MapPage`, `EndExpand` | `alloc` without a hole and the start of `expand`; an iteration of its loop, with `alloc_frame`; its end and the rest of that branch of `alloc` |
| `NeedTable`, `Serve`, `EnterTable` | `get_page` without a table; the last level of `alloc`; the `phys` result of `kmalloc_int`, `memset`, and the entries of the two directories |

`MayCross` is one more discipline of the callers, and a strong one: when growth needs
a new table, an existing hole must serve it, with room for tags in front
(`ServesTable`), and only one table is needed. Otherwise the inner `alloc`
finds no hole, enters `expand`, which needs the same table: the three functions
call each other until the stack is used up.

### The ordered array (`OrderedArrayLoops`)

`array` has `MaxSize` cells and one word behind them, which in the kernel is the
first word after the index. `Scan`, `ShiftUp` and `CloseGap` are iterations;
`AddAtEnd`, `PutInPlace`, `ShiftedUp` and `Closed` the code that follows a loop.
`before` and `request` are history variables. `MaxSize` is the caller's
discipline: no code compares `size` with `max_size`.

### Paging (`Paging`)

`pc` is the function of `init_paging` in progress and `i` its loop counter; a step
is one iteration, because `get_page` moves `placement_address`, which the
condition of `identity_map` reads. Page tables and the directory are placed by
`kmalloc_int` (`Aligned`). After the boot, `expand` takes one page at a time and
`contract` gives back a range, of which the code frees all but the first page.
The bitmap is the set of frames whose bit is set. Page protection bits do not
appear: `PAGE_USER` and `PAGE_SUPERVISOR` are both 0 and no code depends on the
read-only bit.

### Interrupts (`Interrupts`, `PIC`)

`main` runs from `init_gdt` to the registration of the keyboard handler; `pc` is
where it is. `at` is the code the processor executes, `main` or a place in a handler,
and `stack` what interrupts have pushed, the top first, a word for a word, with the
return address and the interrupt flag as values. `causes` is a history variable:
what raised each interrupt being served.

| Action | Code |
|---|---|
| `init_gdt`, `set_isr_gates`, `save_masks`, `outb`, `set_irq_gates`, `sti` | `init_descriptor_tables`; each of the ten port writes of `PIC_remap` is a step |
| `register_interrupt_handler` in `init_paging`, `init_keyboard` | the same names |
| `Enter`, `Return` | the gate and the stub up to its call, and from there to `iret` |
| `isr_handler`, `ack_slave`, `ack_master`, `irq_handler` | `isr.c`; the two acknowledgements are steps |
| `reboot` | an iteration of the loop on the controller, the reset command, the halt |

An interrupt is taken between any two steps. Gates are followed as the
processor follows them: the two halves of the address, the flags, the segment in the
GDT; whatever is wrong there ends in `"triple fault"`, and a stub that pops other than
what was pushed in `"wild"`. Both places are outside `TypeOK`.

External, modelled from how the kernel uses them: the 8259 pair (`PIC`: masks,
requests, in service, the state of the initialisation sequence, cascade, priority),
the keyboard controller (two flags), the processor's exceptions, NMIs, and devices
(`Edge`). `Spurious` is the request that is gone when it is acknowledged; only
that of the master is modelled. Assumed, by name: NMIs are off until there is an IDT
(`Loaded`); `main` meets exceptions, any that the
processor defines up to number 19, while interrupts are on (`Break`), and a page fault only
after paging is enabled; `iret` leads back to the instruction for a fault, behind it for a
trap (`Resumed`); `MaxEvents` bounds how many of all these
happen. The handler of the keyboard is reduced to its reading of the port and
the choice to reboot; the module `Keyboard` has the rest.

In the stubs, `sti` stands before `iret`. Its effect begins behind the next
instruction, which reloads the flag, so it changes nothing; `MutantReloaded` shows
what an instruction in between would do under an NMI.

### Strings (`Strings`)

A behaviour is one call: of `printf`, `strcmp`, `memmove` or `memset`. A character
is its code. A message is a sequence of pieces (`WellFormed`): characters and
conversions, each with spaces behind the percent sign, a letter and an argument;
`Spelled` is the format it is written as, `Shown` what it is to look like. The actions are the iterations of the loops
of `itoa`/`uitoa` (`PutDigit`, `SwapDigits`), of `printf` (`Literal`, `Conversion`), of
`strcmp` and of the memory functions. `printf` writes to the screen through `write`,
which `Console` models; here `out` is what it is given.

Callers are held to two conditions, which those of the kernel meet: no negative number
is printed with `%i` (`itoa` would take negative digits, string.c:32), and memory is
moved downwards or to a place apart. Of the constants `WORD` and `BUF` only
`WidthAssumption` is asked: that a word in decimal, and one in hexadecimal behind its
prefix, leaves a cell of `buf` for the 0. The machine has `WORD` = 2^32 and `BUF` = 20.

### The keyboard and the console (`Keyboard`, `Console`)

Interrupt gates and the `cli` of the stubs keep handlers from being interrupted,
so `irq_handler` is one step, which calls the operators of `Console`. `main` can
be interrupted anywhere: after `init_keyboard` it prints a line and the prompt, and
each read or write of `fb_col` and `fb_row`, each cell and each port write of
`move_cursor` is a step of its own. The kernel is compiled without optimisation,
so `fb_col++` is a load and a store (`Load`, `Store`), and the two coordinates of
`fb_col + fb_row*FB_WIDTH` may be loaded in either order. `scroll_down` and
`clear_screen`, which `main` calls before interrupts or not at all, are one step.

`pc` and `todo` say where `main` is; `obf` and `irq` are the keyboard controller's
buffer and its interrupt, which are external: the controller asks for one
interrupt per scan code, when it gets the code, and takes the next code when its
port has been read. `plain` is a history variable: no key of the line came before
the prompt was complete, and none with a character while backspacing had taken
`fb_col` off the screen. `alone` is another: no key has changed the screen while
`main` printed. `stray` records whether `write_cell` ever left the screen.

Discipline of the user, as constants: `KeysFrom` (from the registration of the
handler on, or from `sti` on), `MaxLine` (the code never compares `cmd_index` with
512) and `BootKeys` (keys handled before `main` has returned).

## 3. Runs

| Run | Shows |
|---|---|
| `ordered_array` | Four items, two with equal keys, four cells. The loops keep the array sorted between calls, never write past it, always return, and compute the operators `KHeap` uses (refinement of `OrderedArraySpec`). |
| `heap_fit` | Five pages of eight words, contracted to three, sizes 1 and 2, three blocks at once, callers storing. Splits, tight fits, both unifications, contraction, which frees the last page, whose words are then kept or lost: holes and blocks tile the heap, the tags of holes are whole, no two holes are adjacent, no page fault, and payloads change only by their owners. |
| `heap_grow` | One page grown to six, sizes 1 and 3. Both forms of growth (a new header, the endmost header enlarged) and reuse of inner holes. The heap implements `Allocator`, liveness included: every request is granted. |
| `heap_tables` | Three pages of sixteen words, tables of six entries, grown to sixteen pages. Growth within a table, into one served from a hole, and into a second; growth with an empty index while a table stands in the heap. Pages, frames, tables and the bitmap agree, the heap stays tiled, and its steps are those of `KHeap` with the table as one more block. |
| `paging` | The image ends at any of 64 offsets, in pages of 32 bytes with tables of 8 entries. The identity map catches up with `placement_address`, covers all that is placed, the bitmap is exact and no frame is shared. Contraction is by one page at a time, which frees no frame; `paging_contract` is the run in which one is freed. |
| `interrupts` | Timer, keyboard and a line of the slave, two settings of the masks, four events at any moment of the boot and of the handlers: IRQs, NMIs, spurious interrupts, a trap, faults with and without an error code, an abort. Each handler gets a whole frame of its own, IRQs do not nest, both controllers are told before a handler runs, the masks survive, every unmasked request is served although `main` may be stuck in an exception, and a reboot reaches its reset. |
| `strings` | Words of a byte, and `buf` just large enough: every byte in decimal and hexadecimal, alone and between other pieces, strings of up to three characters compared, and every permitted move and fill of five cells. Each call computes what its arguments stand for. |
| `keyboard` | A screen of 6 rows of 3 cells, up to 5 keys, all after `init_keyboard`, 2 of them while `main` prints and none filling the last row by then. Nothing is written off the screen; the buffer is zero behind the line; the keyboard implements the line editor at every interleaving with `main`; for plain lines the screen shows prompt and line, and, where no key came while `main` printed, nothing behind the cursor, through wrapping, backspacing over rows and scrolling; enter makes every line plain again; no scan code is left in the controller. Without keys `main` prints what the undivided operators print. |

Violation runs, each one property against a statement of the sources:

| Run | Property | Statement that fails |
|---|---|---|
| `heap_extend` | `LiveBlocksDisjoint` | kheap.h:45, "Allocates a contiguous region of memory", when the heap grows and the endmost hole is not at its end (kheap.c:207) |
| `heap_contract` | `EndOnPageBoundary` | kheap.c:64, "This should always be on a page boundary" |
| `paging_contract` | `FramesExclusive` | paging.c:18-24, the bitmap; `free_frame` passes a frame number as an address |
| `keyboard_prompt` | `PromptStands` | keyboard.c:44-45, "avoid backspace to not to delete prompt" |

The prompt of `keyboard_prompt` ends in `$`; that of the machine in a space behind it, so that
there two such keys are needed before the `$` is gone.

**Bounds.** The tags of a block take 5 words, so a page of 8 words holds one block
and the neighbouring block begins in the middle of a page; tags therefore
straddle pages. Of the two pages that `heap_fit` cuts off, `contract` frees the last. Sizes 1 and 2
differ by less than a tag (tight fits), two merged holes are large enough to be
split again. Three blocks give a left and a right neighbour, each of
which is a hole or not. `WORD` is large enough that only genuinely negative
differences wrap. `LIMIT` bounds growth; a call that might exceed it is not
made. In `Paging` a frame has more bytes than there are frames, as in the
machine (4096 bytes, 65536 frames, but fewer than 4096 of them in use by a
kernel this small), so that a frame number taken for an address falls in
frame 0; `ContractBy` bounds how much a single `contract` gives back.

`FramesAssumption` says that there are frames for the identity map and the largest
heap. Without it, and with `num_of_frames = 16`, the frames run out and `TypeOK`
fails: `first_free_frame` then returns the number behind the last frame, never the -1
of paging.c:79, and a page is given a frame that does not exist. The machine the
kernel assumes has 65536 frames, of which it uses a few hundred.

In `HeapTables` `DEPTH` would allow a nested `expand`; the discipline never needs it.
`Unwritten` is not 0, so a table that is not cleared is seen to have entries. The
sizes leave holes in which an aligned table fits, and one of them is the
whole first heap, so that the index can be empty. In `Interrupts` four events are
enough for an IRQ, an exception and an NMI within one another with a request pending
behind them; the lines are the highest of the master, the keyboard, and one that
comes through the cascade.

In `Keyboard` two characters fill a row behind the prompt, so that lines wrap and
backspacing crosses rows; two enters reach the last row and a third scrolls. The
screen leaves as many rows below the prompt as `BootKeys` can use up. That is the
situation of the machine, where the prompt is in row 10 of 25; were the last row
reached while `main` prints, `newline` could test `fb_row`, be interrupted, and
write below the screen (`FB_HEIGHT = 5` shows it).

**Fairness.** Weak fairness of `Alloc`, of the loops and of `init_paging`: the
processor goes on executing the function it is in; and of taking an interrupt
while the interrupt flag is set and one is requested. In `Interrupts` it is weak
fairness of the processor as a whole (`Running`: it takes an NMI, else an interrupt,
else goes on with its code), and of the keyboard controller taking what was written
to it. Nothing is assumed of devices or of the callers. `heap_grow` ends where `LIMIT` allows no further request, and the
processor then has nothing to do: deadlock is not checked there, nor in
`heap_tables`, for the same reason, nor in `heap_contract`, where the heap may have
panicked, nor in the keyboard runs and `interrupts`, where `reboot` and a page fault
halt the machine, nor in `strings`, where a behaviour is one call.

Each module with properties also defines `Mutant...` operators: slips a
programmer could make in one definition. No other definition uses them; each
property of a passing run is violated when the definition named in
`PROJECT.json` is replaced by its mutant.

## 4. Proofs

Each theorem holds for every value of the constants that the `ASSUME`s of its module
admit. What a caller or a user has to observe beyond that is a hypothesis of the
theorem, named here.

### The ordered array

`OrderedArrayProofs`: for every capacity, set of items and key, the loops keep
their types (`TypeCorrect`), never write the word behind the array (`NoWriteOutside`),
and leave it sorted (`AlwaysSorted`). The inductive invariant says what each loop
relies on in the middle of a call: while shifting, the item in hand belongs between
the two halves of the array. `LoopsCompute` is the safety part of `ImplementsArray`:
each step of a loop is a step of `OrderedArraySpec` or does not show. `CallInv` carries
it: in the middle of a call the cells already passed hold what the request makes of
`before`, and the others still hold `before`.

### The heap

`KHeapProofs`: for every page size, heap size, magic number and set of request
sizes, **for callers that are `Disciplined`**: no alignment, and either
`Growth = "tail"` with `FreeOrder` "never" or "inner", or `Growth = "none"` with
`FreeOrder` "never", "inner" or "forward". The first is the discipline of the run
`heap_grow`; the second, with "forward", that of `heap_fit`, where holes are joined on
both sides and the heap contracts.

* `BlocksDisjoint`: no word is owned twice (`LiveBlocksDisjoint`);
* `NoLeak`: blocks and holes tile the heap (`FreeSpaceIndexed`);
* `TagsSurvive`, `HolesTagged`: the tags of blocks and holes stand (`BoundaryTags`,
  `HoleTags`);
* `HolesApart`: no two holes are adjacent (`Coalesced`);
* `NeverStops`: no page that is not present is touched (`KeepsRunning`);
* `PayloadsSurvive`: only its owner changes the words of a block (`PayloadIntact`);
* `TypeCorrect`; and `ImplementsAllocator`, the safety part of `KeepsPromise`.

None of them is inductive alone. `IInv` is `Sound /\ Asked`, where `Asked` only says
that blocks and calls are of the sizes and alignments requested, and `Sound` is
`Base /\ Coalesced /\ Spare`; `Base` joins to the tiling, the tags and the types
(`HeapTypes`)

* `HoleTags`: `free` trusts the footer on its left, so the footers of holes
  matter to the tiling;
* `CallServed`: a call in progress was made when the endmost hole reached the end
  of the heap, else growth would enlarge a hole under a live block;
* `NothingBelow`: the word below the heap does not look like a footer;
* `AllPresent`: every page of the heap is present.

`Coalesced` is needed by contraction: had the last two holes not been joined, the
endmost could begin behind the new end. `Spare` is what `Growth = "none"` amounts
to: the heap has its first size or its least, a hole reaches its end, and it begins
low enough that `alloc` never calls `expand` and `contract` always cuts to the least
size inside that hole.

The argument: `PutHeaderWrites` and `PutFooterWrites` say which words change;
`TagsKept`, that a change confined to one piece of the tiling leaves the tags
of all others; `SplitTile`, `MergeTiles`, `ExtendTile`, `AppendTile` and
`TruncateTiles`, what the calls do to the tiling; `InsertHoleItems`, `SearchFinds` and
`RemoveHoleItems`, what the index holds. `CarvedPlain` reduces the code of `alloc` to
those cases; `UnifyLeftResult`, `RightOfHole` and `TailContracted` say what `free` has
done behind each of its stages, and `FreeBeforeBlock` and `FreeBeforeTail` put them
together. Then there is one lemma per action. The assumptions are those of
`KHeap`: page-aligned bounds, a magic number that is no address of the heap, and
callers that do not store it. The addresses of the model are counted
in words from a base near 0, so `MagicAssumption` takes a number above them for
0x123890AB, which is neither an address of the kernel's heap nor a size in it.

### The heap and its page tables

`HeapTablesProofs`: for every size of a page, of a table and of the heap, and every set
of request sizes, if `Growth = "tail"` (the discipline of the run `heap_tables`;
`MayCross` and `MayFree` are guards of the model):

* `TablesSound`: `TablesHold`. The tables, which `alloc` and `free` do not know from
  other blocks, map each page of the heap to a frame of its own, at every iteration of
  `expand`;
* `TablesLeakNothing`: `FreeSpaceIndexed` at every such step, also for the `alloc` that
  `get_page` enters while the outer one has not changed the heap yet;
* `TablesRefineHeap`: `ImplementsHeap`, which has no liveness and so is proved whole. To
  its callers this is the heap of `KHeap`, which grows in one step: a table is one more
  live block, whose words they see as 0.

The invariant `TInv` keeps `Base`, whose lemmas serve again (`StoresPreserve`,
`AllocFromHolePreserves`, `GrowthPreserves`, `FreesInnerPreserves` and what they leave
of the words of other blocks), and adds

* `PagesMapped`: the mapped pages reach from `START` to the end of the heap or to where
  `expand` is, and the used frames run along with them, which makes `FirstFree` known;
* `Tables`: a table of the heap is a live block on a page boundary, entered once, and
  its words are the entries of its pages (`EntriesTell`);
* `Planned` and `Provided`: the pages a request will add lack one table at most, and
  then a hole can serve it. `Provided` must survive until `expand` comes to that page;
* `Expansion`: the call of `expand` in progress maps (`Maps`), has asked for a table
  (`AsksTable`), or holds one that is not entered yet (`HoldsTable`): a block that no
  entry of the directory may name before it is cleared.

`CarvedAligned` is the code of `alloc` for a page-aligned request, which `KHeapProofs`
leaves out: the hole is split in up to three. Physical addresses come out right since
a table lies below `end_address`, on pages mapped before `expand` began (`TableMapped`).

The refinement has one lemma per action. What a caller sees of the memory is `Masked`:
the words of tables are hidden. `TagsOutside` and `HolesOutside` say that no tag and no
word of a hole is one of them, so that `alloc`, `free` and the end of `expand` read the
same from either memory and write the same into it (`AbsSearch`, `CarvedMasked`,
`JoinedMasked`, `GrowthMasked`); `HeapBacked`, that no page they touch is hidden with
the pages `expand` has mapped so far. In `KHeap` a call of `alloc` begins with its entry; here
a request for which the heap must grow begins, to its callers, when its pages are
mapped (`AbsCall`). `Pending` is what that needs beyond `TInv`: no hole has become large
enough for the request while `expand` was at work (`TooBig`), and a table that is still
missing has room below `LIMIT` (`RoomForTable`).

### Paging

`PagingProofs`: for every size of page, table and heap, every end of the image, and
enough frames (`FramesAssumption`), `PagingFramesExclusive`, `PagingIdentityMapped`,
`PagingBitmapExact`, `PagingHeapBacked` and `PagingTypeCorrect`. The hypothesis
`OnePage` is that `contract` is asked for one page at a time. It then gives back no
frame at all, since the loop of `contract` ends before the frame of the last page; the
run `paging_contract` shows what a second page does, so no weaker one will do.

The invariant `PInv` is that frames are handed out in order: for some `n` and `h`, the
first `n` pages are mapped to themselves, the next `h` frames back the heap, and no
other bit is set (`Ascending`), where `n` and `h` are as far as `pc` and `i` say
(`Progress`). `identity_map` ends, and ends behind `placement_address`, because each
table is placed at most once (`Tabled`) and moves that address by at most two frames
while it maps `TABLE` of them (`Placed`).

### Interrupts

`InterruptsProofs`: for every set of lines, exceptions and masks of the firmware, and
any number of events, with no discipline: `InterruptsTypeCorrect` (neither a triple
fault nor a wild return), `InterruptsFramesWhole`, `InterruptsDoNotNest`,
`InterruptsEndedBeforeHandler` and `InterruptsMasksRestored`. The set of exceptions is any of
those from 0 to 19 that the processor defines, so that each stub an exception, the NMI or an
IRQ can enter is covered; those of 15, 20 to 31 and 34 are entered by nothing. `IntInv` has four parts: `Types`; `Tables`, how much of the
GDT and IDT is filled; `Remapping`, how many of the ten writes each controller has
received; and `Context`. That part lists where the processor can be: in `main`, in one
handler over it, in an NMI over either; with, for each, the very words on the stack,
what the controllers have in service, and the interrupt flag. That there is no deeper
nesting is what the proof shows: `sti` in a stub is undone by its `iret` (the frame
says with which flag), exceptions come from `main` alone (assumed of `Break`), and an IRQ has been
acknowledged before its handler runs. `OwnStub` says that each gate, put together
from the two halves of its address, leads to the stub of its own vector; `Pushed` and
`Popped`, that the gate, the stub and the common code push a `Frame` and that `iret`
takes it off; `Acknowledge`, what becomes of a request through one or both
controllers.

### The console and the keyboard

`KeyboardProofs` begins with the lemmas about `shell.c`. `write` is a fold over the text;
`FoldExists` and `UpTo` unroll it character by character, and `WriteInto` makes of it
the rule the other proofs use: a set of screens that no character leads out of is one
that no text leads out of. `MoveCursorIs` says that the four port writes put the
position into the cursor, whatever index register was left selected. `Following` is the
set of screens whose cursor is where the next character goes, `Standing(k)` of those
from which `k` backspaces stay on the screen.

The theorems hold for every size of screen, text, prompt, command set and output:

* `Terminated`, `EndsInBuffer`: the buffer holds zeros behind the line, and the string
  `strcmp` reads ends within it. The invariant `LineInv` adds that a waiting key with a
  character has room in the line: the user's promise is made when the key is pressed
  and needed when the handler runs.
* `KeyboardEdits`: `ImplementsEditor`, which has no liveness and so is proved whole:
  the handler is a line editor, and enter runs the command whose text the line holds.
  `TextIsMeant` says that `strcmp` reads the text the editor means.
* `TypeCorrect`, by `TypeInv`: what the two threads hold keeps its range.
* `Follows`: `CursorFollows`. By `FollowInv` the coordinates `main` has loaded are
  those of the screen while the line is plain, and the bytes it has sent to the ports
  are those of the position.
* `BootPrints`: `BootScreen`. By `BootInv` the screen before the first key is, at each
  statement of `main`, on its way from the text written to the text with one character
  more.
* `OnlyOnScreen`: `WritesOnScreen` if at most `FirstRow * FB_WIDTH` keys come while
  `main` prints, and none of them takes the screen to its last row (`RoomForKeys`, a
  condition on behaviours). The machine prints its prompt in row 10 of 25, so both
  hold of a boot in which the user types only a few lines ahead of the prompt. The
  second is needed: with `FB_HEIGHT = 3` and `FirstRow = 2`, a key handled between the test of
  `advance_pos` and the load of `fb_col++` fills the last row, and the next character of
  `main` goes to the cell behind the screen. `OnlyOnScreenAtPrompt` is without a
  condition, when the keys come at the prompt (`BootKeys = 0`).
  `RoomInv` is `Standing(cmd_index)` at the prompt and, while `main` prints, `Booting`,
  which bounds what it has loaded as well as what the screen holds.
* `LineShown`: `Echo`, under the conditions of `OnlyOnScreen`, and `LineShownAtPrompt`
  without one: at a plain line the cells before the cursor hold the prompt and the keys
  of the line. It needs all of the invariants above: `FollowInv` for the cells that
  `main` writes from coordinates it has loaded, `RoomInv` for backspaces that must not
  leave the screen, `BootInv` for the screen at the moment the prompt is complete.
  Stated for every boot, its second half (nothing behind the cursor) is false: with
  `BootKeys = 3` and `FB_HEIGHT = 8` a key handled between the load and the store of
  `fb_row++` makes `main` take back a row that the key has moved down, and its text
  stays below the cursor. `alone` restricts that half to boots where it cannot happen.

### The string functions

`StringsProofs`: for every width of a word and of `buf` that `WidthAssumption` admits,
every message, pair of strings, memory and permitted copy.

* `NumbersFit`: `TypeOK`, of which the point is that no number is written outside `buf`;
* `Correct`: `Computes`. `printf` has written `Shown` of every piece and taken as many
  arguments as it was given; the result of `strcmp` is 0 for equal strings only and
  negative in the order of their first difference; `memmove` and `memset` have written
  their destination and nothing else.

The invariant `IInv` says how far each loop has come. `Between` and `Within`: what
`printf` has read of the format, taken of the arguments and written is the joined
`Spelled`, `Arg` and `Shown` of the first pieces. `Collects`: the numeral of the
number that is left begins the numeral of the argument, and the digits already in
`buf` are the rest of it, backwards. `Reverses`: outside `s .. e` each digit is where
it belongs, inside in its mirror place. `CompareInv` and `CopyInv` are the same for
the other loops.

Numerals, powers and joined messages are defined by recursion. The library's rules of
induction take an operator as a parameter and cannot be used; instead the proofs reason from a least counterexample
(`LeastElement`, from the well-foundedness of the naturals). `RecursionSolved` says that a definition by
recursion on a smaller number has a solution, which gives `NumeralIs`, `PowerIs` and
`UptoIs`, the equations of the definitions; from these follow `NumeralLength` (a
number below the n-th power of the radix has at most n digits, which is what `RoomInBuf`
needs) and `Concat` (a sequence is joined one part at a time).

### Only model-checked

* Liveness (`KeepsPromise` and `ImplementsArray` beyond their safety parts, `Boots`,
  `Served`, `KeysTaken`): liveness and `ENABLED` are beyond the prover.
* Callers of the heap that are not `Disciplined`. Where the runs `heap_extend` and
  `heap_contract` and the experiments of section 2 go, the properties fail. They also
  fail for `Growth = "tail"` with `FreeOrder = "forward"`, which differs from both
  disciplines of the theorems in one point each: a heap of one page whose last block,
  a tight fit, is freed makes unify-right read a header behind `end_address`, on a page
  that is not present (kheap.c:316), and the kernel panics.

## 5. Not modelled

`serial.c`, `strupper`, `strlower`, `back_pos`, `create_ordered_array`,
`destroy_ordered_array` and `sleep`, which have no caller and so no behaviour in this
kernel; the single instructions of `input_output.s` (the devices behind the ports are
modelled where they are used); `cmdgen.py` and the build scripts, which run before the
kernel; the multiboot header and the loader's stack; layout of messages and colours.
