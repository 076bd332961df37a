# A TLA+ verification of the programs in GoodCommand

GoodCommand is a collection of notes (Sphinx pages, most of the repository) with
the programs the notes talk about: small C programs and two copies of the kernel's
`list.h`, the kernel's `fs.h`, and shell and Python scripts. None of it has tests.
This directory models what has behaviour of its own, checks the models with TLC
and proves the main invariants with TLAPS.

All paths below are relative to `source/` of the repository.

## 1. The system's parts

The programs do not call each other. What they share is by copy or by include: the
two calculators solve one problem in two ways, `linux_list.c` repeats a part of
`list.h`, three scripts run fio over a grid each in its own way, and
`parase_fio.py` reads what one of them makes fio write.

| part | state it keeps | operations | what is hard |
|---|---|---|---|
| `src/leetcode/double_stack_224.c` | two bounded stacks, a scan index | `calculate()`: scan, reduce, drain | a pop of an empty stack and a push on a full one are silent; loops that rely on what lies on a stack |
| `src/leetcode/224.c` | a **global** stack block and index, a postfix buffer | `mtob()`, `cal_bstr()`, `main()` calling both again and again | unchecked pops, a push test that is one too wide, an index no call resets, a buffer sized by counting |
| `list.h`, lists | the two pointers of each cell | 20 functions, tests | pointers that must stay inverse through every sequence of calls; neighbours, single entries, the head as an argument |
| `list.h`, loops | a cursor and, in the safe forms, a saved next | the loop, its body, other threads while the lock is given up | a saved pointer that goes stale |
| `list.h`, `list_empty_careful` | the same, on two CPUs | `list_del_init()` against `list_empty_careful()` | a race that is meant to be benign |
| `list.h`, hash lists | `next`, and `pprev`, the address of somebody else's pointer | 9 functions, tests, a loop | every insertion, deletion and move must fix an address kept elsewhere |
| `fs.h`, write access | two signed counters per file | 12 functions on them, without a lock | a test of a sign and a change that must be one step |
| `fs.h`, leases | counts of openers, a list of leases | `break_lease()` and its two sisters, against tasks that set leases | a list looked at without its lock, in any order the CPU likes |
| `fs.h`, freezing | a level for the file system, a count for each level | nine functions to enter and leave three levels, against the freezer | levels and locks nested in one another: who waits for whom |
| `fs.h`, the size | two words and a sequence count | `i_size_read()` against `i_size_write()` | words of two sizes; a count that stays odd |
| `fs.h`, direct I/O | a count of requests in flight, a lock, a wait queue | begin, end, drain | requests end without the lock; a wake-up between a look and a sleep |
| `src/leetcode/25-reverse-nodes-in-k-group.c` | `next` pointers, loop variables | `create_list()`, `reverseKGroup()`, `do_revert()` | in-place surgery with a cursor into the part that moves |
| the other exercises in `src/leetcode/` | none | pure functions | boundaries, a map that is not cleared, a `qsort` that may order equals anyhow, overflow |
| `src/getrlimit/threads.c` | threads, the task count of the user | create, greet, sleep, end | interleavings, creation failing half-way, `main` ending first |
| `src/rdtsc/*.c` | two time stamps | signal, alarm, pause, handler | a signal at any point, a counter in two registers, clocks that are set back |
| `script/use_sysrq_dump.sh`, the two register readers | the dump file, the register file; outside of them the kernel's log ring | trigger, copy, clear, read, for ever | the kernel logs between any two commands; the ring loses its oldest messages |
| `script/disk_fio_test.sh`, `io_all.sh`, `hdd_io_all.sh`, `parase_fio.py` | a directory of result files, or a log; a table | one result per point of a grid; a table of the files | runs that are killed and started again, truncated files, the order of the walk |
| `src/python-web/anti_idel.py` | one file per page | fetch, write, fetch the images | failures in the middle, a file emptied before there is anything to put in it |
| the rest | none | one library or system call, or I/O | nothing a model checker reaches |

`PROJECT.json` lists every part, those that are not modelled with the reason,
and the hazards: the places where the code could go wrong and a test would
hardly notice, each at its line, with the properties that would notice.

### What makes each part correct

* **Calculators**: every well-formed expression gets the value of the grammar
  (`*` and `/` first, equal priorities from the left, division toward zero), or
  SIGFPE if it divides by zero; every loop ends; no stack or buffer overflows or
  is read where nothing was written; no call leaves anything to the next.
* **Lists**: the pointers are each other's inverse; a loop meets exactly what
  was put on the list; every function does to the sequence of entries what its
  comment says, and nothing to other lists; the tests answer what a loop would.
* **Loops**: no entry that stays is skipped, none is met twice, none is met that
  was removed, and the loop ends.
* **`list_empty_careful`**: a yes is final: the other CPU is done with the entry.
* **`fs.h`**: writers and those who deny writing exclude each other; no lease is
  granted against an open that was let through; a frozen file system has nobody
  inside and freezing ends; a size that is read was the file's; who drains finds
  quiet and is woken up.
* **Exercises**: each function returns what its task asks for.
* **Threads**: each greets with its own number, and all do if all were created,
  though `main` ends first.
* **Scripts**: a section of a dump file holds its own dump; a message is only
  lost where the script cannot help it; a table has the results of one run;
  a visit that ends early costs one page.

## 2. Modules

Parts that share nothing are checked side by side: an MC module with a variable
`part` (in `MCPrograms`, `program`) chooses one of them for each behaviour and leaves the other ones in a state of
rest. Their product would add states but no step of one that another one sees.
Parts that interact are composed: the benchmark with its report, the two
calculators' token model, the loops with the list's functions.

### Calculators

| module | content |
|---|---|
| `Infix` | tokens, character tests, priorities and arithmetic, which both programs have in common, and `WellFormed`, the strings they are written for |
| `CalcReference` | `Value`: an expression's value by its grammar, without a stack; `ExprsUpTo`, `Strings`: the expressions up to a length |
| `Calculator` | abstract specification: each call is answered with `Value` of its argument, or dies if there is none (`Safety`), and is answered (`Answered`) |
| `DoubleStackCalc` | `calculate()` of `double_stack_224.c` |
| `PostfixCalc` | `main()`, `mtob()` and `cal_bstr()` of `224.c` |
| `MCCalculators` | the inputs, and the refinement mapping of both to `Calculator` |
| `CalculatorsProofs` | proofs about both |

A token is what one `sscanf` of the scan loop consumes. `pc` names the loop that
runs (`scan`, `close` for `)`, `reduce` for an operator that may have to wait,
`drain`), and one action is one round of it: `PushOp`, `Enter`, `SkipSpace`,
`PushNum`, `CloseStep`/`CloseEnd`, `ReduceStep`/`ReduceEnd`, `EndOfScan`,
`DrainStep`, `Return`. The stack functions are operators that drop, or answer 0,
exactly where the code does. In `PostfixCalc` the global index `it` lives from
call to call, a block is a function on its cells, a freed block has none, and
`heap` counts the blocks that are allocated. Division by zero leads to `trap`.
Arithmetic is unbounded: the programs' own inputs stay far inside `int`.

### Kernel lists

| module | content |
|---|---|
| `ListHeap` | the functions of `list.h` as operators from heap to heap, in the order of the C assignments (a later assignment reads what an earlier one wrote) |
| `KernelList` | a client that calls any function with any arguments its comment allows; one action per function |
| `Lists` | abstract specification: a list is a sequence, a function is an edit of it |
| `KernelListProperties`, `MCKernelList` | the loops (`Ring`), the tests, and `KernelList` against `Lists` |
| `KernelListProofs` | proofs |
| `KernelHlist`, `KernelHlistProperties`, `MCKernelHlist`, `KernelHlistProofs` | the same for hash lists, against the same `Lists` |
| `SafeIteration` | every form of the loops over a list, on `ListHeap` |
| `CarefulEmpty` | `list_empty_careful` against `list_del_init` |
| `MCListReaders` | these two |
| `ListReadersProofs` | proofs about both |

`heap` is the memory: `heap.next` and `heap.prev`. `on` is what a caller knows and
the code does not store: on which list each cell is. The preconditions (`Free`,
`Position`, `Linked`, `Segment`, ...) are in terms of `on` and come from the
comments and from the calls within the header; everything the functions do
is in terms of `heap`. The two are related by the invariants only, which is what
makes these worth checking. In hash lists the address of a pointer is named by
the cell the pointer is in. The two copies of the header assign in the same order.
The older one, `linux_root/include/linux/list.h`, lacks `list_for_each_continue` and
`hlist_unhashed_lockless`.

`SafeIteration` runs one loop: plain or safe (`safe`), forwards or backwards
(`dir`), from the head (`ForEach`), behind an entry (`ForEachContinue`) or at one
(`ForEachFrom`). The body keeps or, in a safe form, removes the entry it is at; it
may give up the lock, with the entry pinned, while others remove and add entries,
and a safe form calls `list_safe_reset_next` afterwards: what the comment at
`list.h:741-751` asks for. To follow a pointer of a removed entry is a fault.

`CarefulEmpty` splits the functions into their loads and stores. The stores wait
in `stores` and become visible in any order but for stores to one pointer, and
the poller's two loads happen in either order: the weakest ordering that a
machine may give to plain accesses (the `WRITE_ONCE` of the code orders nothing).

### `fs.h`

| module | content |
|---|---|
| `Sides` | abstract specification: a resource with two sides that exclude each other |
| `WriteAccess` | `i_writecount` and `i_mmap_writable` and their functions |
| `MCWriteAccess` | the run: the counters (`Access`) against the two sides (`TwoSides`) |
| `LeaseBreak` | `break_lease()`, `break_deleg()`, `break_layout()` against tasks that set leases |
| `InodeSize` | `i_size_read()` and `i_size_write()` where a long has 32 bits |
| `DirectIo` | `inode_dio_begin()`, `inode_dio_end()`, `inode_drain_writes()` |
| `MCInode` | the last three, which race on one inode |
| `InodeProofs` | proofs about all three, and about the counters |
| `FreezeProtection` | `sb_start_write()` and its kind, `file_start_write()` and its kind |
| `FreezeProtectionProofs` | proofs |

Most of `fs.h` declares types and functions of other files. These five are the
inline functions that have behaviour of their own. What they call (`fs/locks.c`,
`fs/super.c`, `linux/seqlock.h`, `filemap_write_and_wait()`) is not in the
repository; it is modelled as far as these functions need it, and marked external.

* A conditional atomic operation is a read (`Look`) and a loop of
  compare-and-exchange (`CompareAndExchange`), so that other CPUs come between.
* In `LeaseBreak` an opener counts itself (`Count`) and then loads the context and
  the list head's two pointers, in any order that an address dependency or a
  barrier does not forbid; the setter's stores become visible one by one (`Store`).
  `seen` is what an opener has loaded. A setter links its lease, and only then
  looks at the counts (`CheckOpeners`).
* In `FreezeProtection` a task is inside of levels and locks (`inside`, the innermost
  last), and may wait for one more (`want`). The freezer closes level after level and
  waits for each to empty. The comments order only some of the levels and locks
  (`Before`): `sb_start_write()` is outside of everything else, `mmap_sem` outside of
  `sb_start_pagefault()`, and that outside of `sb_start_intwrite()`; `i_mutex` and
  `s_umount` stand side by side. Two things are *assumed* beyond them: all tasks keep
  to one order of everything they take, which may be any that obeys the comments
  (`order`, chosen from `Orders` at the start and never changed), and a task that takes
  `s_umount` is inside of the outermost level.
* In `InodeSize` the sequence count is incremented by a load and a store, and the
  size is two words; `valid` has the sizes a reader may truthfully return.
* In `DirectIo` a request ends (`inode_dio_end`) and wakes (`wake_up_bit`) in two
  steps, and who drains looks at the count and sleeps in two.

### Exercises and programs

`ReverseKGroup` follows `main()` building a list with `create_list(n)` and
calling `reverseKGroup(k)`; `MoveToFront` is one round of the loop of
`do_revert()`, with `removenode` and `insert` as operators on `next`. Proofs:
`LeetcodeProofs`.

`StringExercises` and `NumberExercises` have the other exercises as operators and
recursive functions: the longest window without a repeat, the longest palindrome,
the reversed words, the sort by frequency, the two scanners of `sscanf.c` and
`as.c`, the median, the k smallest pairs, and the difference of times that
`clock_gettime.c` prints. Where `qsort` may leave equal elements in any order, the
operator is the set of all results. `Exercises` calls one of them on an input
(`Called`, `Returns`) and states what each has to return without a loop: by the
windows, the runs, the counts of the input. Which inputs there are is given by
constants, with what the code needs of them as assumptions (`StringsAssumption`,
`ArraysAssumption`). `MCLeetcode` does either that or `ReverseKGroup` (`part`).
Proofs: `LeetcodeProofs`.

`longestPalindrome` makes its answer with `snprintf()`, the input being the format
(`5-longest-palindromic-substring.c:62` and `67`), in 1001 bytes (line 56). `Snprintf`
says what that prints: of `%%` one `%`, while any other directive lacks its argument
and is not defined. `Exercises` calls it for the `Printable` strings only, without a
`%` and of at most 1000 characters, and what is checked and proved of it is about
these.

`HelloThreads` has one action for each step of `main`
(`Create`, `CreateFails`, `MainExits`) and of a thread (`Greet`, `End`). That
`pthread_create` fails at the user's task limit, and that a process ends with its
last thread, are the system's; so are the user's other tasks (`OtherTask`).

`CycleMeter` is `rdtsc.c`: `main()` step by step (`Signal`, `ReadFirst`, `Alarm`,
`Pause`), the handler (`ReadSecond`, `Printf`, `Kill`), which takes over between any
two of them (`Deliver`), and the counter that goes on meanwhile (`Cycle`).
`Registers` says what `"=A"` names. `MCPrograms` has this and `HelloThreads`; the
proofs about both, and about the three parts of `MCScripts`, are in `ProgramsProofs`.

### Scripts

`SysrqDump` has one action per command of the loop (`Title`, `Trigger`,
`Snapshot`, `Clear`, `ReadRegister`), for whichever dump is next (`at`). Which dumps
and registers there are makes it `use_sysrq_dump.sh` or one of the register
readers. The kernel's ring (`Arrive`), its other messages (`Message`) and the dump
it writes before the write to `sysrq-trigger` returns (`DumpLine`) are external.
`gap`, `overrun` and `own` record what became of each message and are read by the
properties only.

`DiskBenchmark` runs fio for one point after another. The three scripts differ in
what they test before they start, in how they clear what is there, and in when a
result is there: fio writes the file itself, or the script waits until no fio runs,
anybody's, and then writes the line. They are killed anywhere and started again.
`FioReport` extends it with the report, which lists the directory at any time and
opens the files later: one may be gone or not written to its end.

`PageVisitor` is `anti_idel.py`. A file keeps its text in a buffer (`pageFile`)
until it is closed; a fetch fails, or the process is killed, anywhere. `MCScripts`
has the three.

Definitions that stand next to another one and differ from it in one point
(`PopAndCalKeep` beside `PopAndCal`) are the same code with a plausible mistake.
`Next` does not use them: `PROJECT.json` names, for every property, one such
variant under which the property fails.

## 3. Runs

All runs end within five minutes on two workers.

| run | bounds | distinct states | shows |
|---|---|---|---|
| `calculators` | two stacks: every expression of up to 7 tokens over `{0, 7}` and four operators, a space at any place up to 5; up to 9 over `{7}`, `-`, `*`. Postfix: 5 tokens (3 with spaces; 7 over fewer symbols), two calls with any two strings | 135 000 | `OperandsBalance`, `NeverDropped`, `ParensMatch`, `StaysInBlock`, `CallsLeaveNothing`, `ImplementsCalculator` |
| `kernel_list` | 3 entries, 2 heads, any sequence of calls | 6 200 up to symmetry | `TypeOK`, `WellLinked`, `ReadersAgree`, `FunctionsKeepTheirWord` |
| `kernel_hlist` | 4 nodes, 2 heads, any sequence of calls | 1 000 | `TypeOK`, `PprevLeadsHere`, `TestsAreRight`, `NodesGoWhereTold` |
| `list_readers` | loops: lists of 0 to 4 entries, the rest to be added; poller: a list of 3 | 293 000 | `BodyRunsOnceEach`, `NoneSkipped`, `LoopEnds`, `YesIsFinal`, `DeletionIsSeen` |
| `leetcode` | lists of 0 to 7 nodes, k from 1 to 7; strings of up to 6 over four characters, of up to 4 with `%`, texts of up to 5, arrays of 0 to 2 numbers from -3 to 3, k of 0, 1, 3, 5 | 83 000 | `GroupsInOrder`, `AnswersReversed`, `Terminates`, `AnswersAreRight` |
| `programs` | 5 threads, a limit of 6 tasks; a counter below 16, a second of 5 cycles, 3 cycles of delay | 52 000 | `EachGreetsAsItself`, `AllGreet`, `EndsMeasured` |
| `scripts` | a grid of 3, 2 starts, 2 sets of options; a ring of 3, dumps of 2 lines, 12 messages; 3 pages, 2 images | 1 830 000 | `OneResultEach`, `TableMatchesGrid`, `SectionsHoldTheirDump`, `EachMessageOnce`, `AtMostOneLost` |
| `write_access` | 3 users, both counters | 377 000 up to symmetry | `CountsOneSide`, `ImplementsSides` |
| `inode` | 1 reader, 1 writer, 2 setters; 2 writers of the size, 3 writes, words of 1 bit; 3 submitters, 2 who drain | 217 000 | `NoLeaseUnnoticed`, `SizeIsOne`, `DrainedIsQuiet`, `ReadsEnd`, `DrainEnds` |
| `freeze` | 2 tasks, one with a regular file, 3 levels or locks each, each of the 20 orders that obey the comments | 659 000 | `NobodyInFrozen`, `FreezeEnds` |
| `rdtsc_x86_64` | as `programs`, registers of 64 bits | finding | violates `MeasuresCycles` |
| `anti_idle_failure` | as `scripts` | finding | violates `FailureIsPassedOver` |

Why the bounds are enough:

* Seven tokens hold two operators and a pair of parentheses around either, or
  four operands in a row; nine hold nested parentheses on either side of an
  operator of either priority. The numbers 0 and 7 tell `-` from its
  reverse, and division that truncates, traps, or acts on a negative number.
  One digit is the hardest case for the buffers, since a longer number takes
  more room in `strlen(s)` than on a stack. Two calls are what a stale global needs.
* Three entries give a list that is empty, has one entry, two that are neighbours
  on both sides, and one with an inner entry; two heads are what splicing,
  cutting and moving take. Entries are interchangeable, heads are too, so the
  symmetry is sound (all properties of that run are safety properties). Hash
  lists have four nodes because an insertion there looks at two neighbours.
* Four entries give a loop a cursor, a neighbour on each side and one beyond.
  `Test` stops a loop that has met more entries than there are. Three entries give
  the poller an inner one whose neighbours are deleted before, after and with it.
* Seven nodes are three groups of two and one left, two of three and one left,
  and every k up to the length, and above it. Six characters hold two words with
  blanks around and between them, a repeat in and out of the window, palindromes of
  even and odd length that overlap; the last character the pool of `frequencySort`
  has room for is one of the four. The strings with `%` are what the exercises other
  than `longestPalindrome` must not mind.
* A limit of six fits the five threads and `main` if no other task runs, so that
  creation fails at every point, and may succeed. A counter of two words of two
  bits wraps around within the second that is measured.
* A ring of three holds one dump and one more message, so it overflows when two
  others come; twelve messages allow a second round of the dumps. Two starts are
  what a run needs that was cut off and is done again. Three pages give one with
  pages in front of it and behind it.
* Three users: two hold one side, or race for it, while a third comes between. The
  counters differ in their functions only, and users are interchangeable; the
  properties of the run are safety properties, so the symmetry is sound.
* Two setters: one lease is granted while another is being added. Two writers of
  the size contend for the lock, and three writes let a reader see a count twice
  the same only if nothing was written in between. Three submitters: one begins
  while one ends and one wakes; two who drain meet on the queue.
* Three things are all the levels in one another, or a level and two locks: a task may
  hold a level and a lock and wait for what the freezer or the other one has, in any
  order. With the order of the comments alone, in place of one that all tasks keep
  to, TLC finds two tasks inside of the first level that have `i_mutex` and `s_umount`
  and wait for each other's. Four things, over the same orders, make 2 019 000 states,
  too many for five minutes; both properties hold there too.

`CHECK_DEADLOCK FALSE` is set for `list_readers`, which stops when all entries are
deleted and were found to be, and for `leetcode`, where a call returns once.

Fairness: the sequential programs keep running (weak fairness of the whole step,
or of the steps after a call; `main()` may call or not). In `list_readers` a store
becomes visible in the end, the poller goes on, the loop's thread runs and gets the
lock back; which entry the poller asks about is open, so `DeletionIsSeen` says that
an entry that is asked about again and again is found. In `programs` the scheduler
runs `main` and each thread, a sleep ends, cycles pass and a signal that is due is
delivered. In `inode` requests in flight end and a task that can run does; readers
only finish because the writes do (`MaxWrites`): a reader that is always overtaken
spins for ever, in the code too. In `freeze` a level or lock is given to those who
wait for it again and again (strong fairness of `Get`: the kernel's semaphores are
fair), what a task does inside ends, and the freezer goes on; that all tasks keep to
one order is a further assumption (section 2). `write_access`, `scripts` and the other
runs of `list.h` check no liveness.

### The properties worth reading

* `ImplementsCalculator`: a refinement of `Calculator` by both programs, with
  its liveness. It says that no loop hangs and each answer is right; for
  `224.c`, that the answer depends on this call's argument only.
* `FunctionsKeepTheirWord`, `NodesGoWhereTold`: each step of the pointer code is
  the edit of sequences that `Lists` gives for the function. The lists are read
  off the heap by the loops (`Ring`, `Chain`), not from `on`.
* `ReadersAgree`: loops in both directions end, agree, and meet what `on`
  says is there; entries poisoned or given up are never met; the tests of `list.h`
  answer what the loops would.
* `YesIsFinal`: after a yes of `list_empty_careful`, no store of the other CPU
  hits the entry. It takes the test of both pointers: with that of `next` alone
  TLC finds the store to `prev` that comes late.
* `NoneSkipped`, `LoopEnds`: for every form of loop, under removal and insertion.
* `NoLeaseUnnoticed`: without the barrier between the count and the loads, TLC
  finds an opener that looked before it could be seen, and a setter that did too.
* `ImplementsSides`: the two signed counters, with reads and exchanges that others
  come between, refine two sides that exclude each other, and a refusal is always
  justified at the moment it is given.
* `FreezeEnds`: if all tasks keep to one order that obeys the comments at
  `fs.h:1639-1687`, whichever it is, the freezer, who takes `s_umount` half-way, and the
  tasks never wait for each other. The comments by themselves are not enough: they say
  nothing of `i_mutex` and `s_umount` next to each other, and two tasks that take them in
  opposite orders keep the freezer waiting for ever. What they do say is needed: were
  `sb_start_pagefault()` allowed inside of `sb_start_intwrite()`, a task that is inside
  of the latter would wait for the level that is closed first.
* `DrainEnds`: the last request's wake-up is not missed.
* `TableMatchesGrid`, `OneResultEach`: a table of a finished benchmark has rows of
  this run only, whatever was killed before, whichever file came first.
* `EachMessageOnce`: a message that is in no section, nor still in the log, was
  cleared between the two `dmesg`, or pushed out of the ring. This is as much as
  the script can give, and the loss between the two calls is real.
* `AtMostOneLost`: the file of the page whose fetch failed is empty, and "write
  successful" may have been printed for it; no other page is touched.

### What the runs that fail show

* `rdtsc_x86_64`: `src/rdtsc/rdtsc.c:17` reads the counter with `"=A"` on every
  machine. The note `command/rdtsc.rst:30-37` has `"=A"` for `__i386__` only and
  reads two registers on `__x86_64__`. With 64-bit registers `"=A"` is one register,
  which has one of the counter's halves: what is printed as the cycles of a second
  is not these.
* `anti_idle_failure`: `src/python-web/anti_idel.py:36` says `except UOSError`, with
  `pass` and `continue` behind it, and there is no such exception: the first page
  that cannot be fetched ends the visit of all others.

## 4. Proofs

TLAPS checks 30 426 obligations in eight modules, with no step left open.

* **`CalculatorsProofs`** is about *every* set of well-formed strings, of any length
  and depth. The lemmas it begins with count along a sequence (`CountStep`,
  `DepthStep`, `OperandEndsStep`) and on a stack (`StackAppend`, `CountPop`).
  *`double_stack_224.c`*: `TypeOK`, `OperandsBalance` and `NothingLeft`,
  `NeverDropped`, `ParensMatch` and `PrioritiesAscend`. The inductive invariant
  `IInv` is their conjunction with `LoopContext`, which says what the token is
  while a loop runs. They need each other: that a reduction finds two numbers
  follows from `OperandsBalance`; that the loop of `)` finds its `(` from
  `ParensMatch`, which needs the depth of a well-formed string to be positive at
  a `)`; that no push is dropped from `NeverDropped`, counting tokens.
  *`224.c`*: `StaysInBlock` and `CallsLeaveNothing`, for any number of calls. Nothing
  in its stack functions prevents a read below a block or a write behind it, so this
  rests on the string that `mtob()` writes. `PostfixInv` says that each operator in it
  finds two numbers (`IsPostfix`), and that evaluating what is written so far would
  leave one number for each operator that waits and for an operand that has just
  ended. `cal_bstr()` inherits that: its index is the height of the string it has
  read (`Evaluates`), which is 1 at the end, so that a call ends with the index it
  began with. `SameOperators` is there because the instance of `PostfixCalc` has
  copies of the operators both use.
  *Their answers*: `AnswersWithValue` and `PostfixAnswersWithValue` say that an answer is
  the value which the grammar gives to the text (`CalcReference`, where a text is
  split at its last operator of the lowest priority outside parentheses), and that the
  process dies only of a text that has none; `ImplementsSafety`, that both programs
  implement `Calculator` but for its liveness. `ValuesExist` shows by a least
  counterexample that `Values` is defined, and `ValueIs` how the value of a part follows
  from those of its parts. The operators that wait on a stack cut the text that is
  read into parts (`Cuts`): each ends in front of its operator and is what the operator
  has on its left, and the last one is split, if at all, at operators that bind tighter
  than the last that waits (`LastPart`). The lemmas `CutRead`, `CutPushed`,
  `CutReduced` and `CutClosed` say what a token, a push, a reduction and a `)` make of
  the cuts. In `double_stack_224.c` the numbers on the other stack are the values of
  these parts (`Holds`). In `224.c` they are not computed yet: the postfix string is cut
  as the text is, and each piece of it *leaves* the value of its part on top of any
  stack it is evaluated on (`Leaves`, `Written`); at the end the whole leaves
  the value of the text, and `cal_bstr()` follows that evaluation (`Computes`). A
  division by zero dies at once, where the grammar computes on with `Undefined`: what
  is computed with it is `Undefined` as well (`HoldsRuin`, `UndefinedLast`).
  The assumptions are `InputsAssumption` and `CalculatorsAssumption`: the inputs are
  well-formed.
* **`KernelListProofs`** proves all four properties of the run, for any finite set of
  entries and heads. That the pointers are each other's inverse (`TypeOK`,
  `WellLinked`) is inductive by itself: each function is computed as two maps
  (`LinkIs`, `UnlinkIs`, `CutIs`, ...) and shown to keep the invariant of maps
  (`LinkSound`, ...). What a loop meets is not said by it, so the invariant gets the
  lists themselves: `Holds(heap, on, L)` adds that from each head the pointers lead
  over the sequence `L` of entries and back (`Laid`). Linked both ways, such a list is
  a ring that meets each cell once (`RoundRings`: of two places with the same cell,
  the least would be the head), so that the loop ends there and has met `L`
  (`RingIs`; its map of steps exists for every length by a least counterexample), and
  the loop along `prev` has met its reverse (`BackIs`): with the tests this is
  `ReadersAgree`. For the refinement each function has a lemma that says where `next`
  leads afterwards, and that these pointers lead over the edited sequence
  (`InsertLaid`, `SwapLaid`, `BulkMoveLaid`, `CutLaid`, `JoinLaid`, ...), also where
  the cells it is given are neighbours or the same; from it one that says what the
  call does (`AddPutsIn`, `SwapKeepsPlaces`, `CutPositionCuts`, ...). The loops find
  exactly those sequences (`ContentsAre`), and that is `FunctionsKeepTheirWord`. The
  assumptions are `ListAssumption` (cells and constants differ, and there are
  finitely many cells) and `EndlessAssumption` (the value of a loop that does not end
  is not a sequence of entries).
* **`KernelHlistProofs`** proves all four properties of the run, for any finite set of
  nodes and heads. `TypeOK` and `PprevLeadsHere` need `UnhashedIsClear`: an unhashed
  node's pointers are NULL. Without it a node that becomes a fake list keeps a stale
  `next` and its deletion writes into another list. `TestsAreRight` and the
  refinement `NodesGoWhereTold` are about what a loop over a list meets, so the
  invariant gets the lists themselves (`LoopsFollow`): under each head is a sequence
  whose stops, from the head to the NULL, are linked both ways (`Leads`), and every
  hashed node is on one. `ChainIs` computes the loop from it: its map of steps is
  unique (at the least place where two would differ there is none), and the walk ends
  within as many steps as there are cells (`Short`), which is where the assumption
  that there are finitely many is used. A function changes one walk, by a node put in
  or taken out (`InsertKeeps`, `RemoveKeeps`), or renames its head
  (`MoveListMoves`); so the sequence after the call is the one `Lists` computes.
* **`InodeProofs`** has four parts: the modules that race on the inode, and the
  counters of writers and mappings.
  *Leases*: `NoLeaseUnnoticed` for any openers and setters, in every order of their
  loads and stores that the model has. Its invariant says that nobody has loaded
  anything before it was counted (`CountedFirst`, the barrier); that a granted
  lease is on the list and the head's pointers lead to it (`Visible`); and that
  who is counted while a granted lease is in its way has loaded nothing that hides
  it, or is waiting already (`Watched`). A setter that grants has looked at the
  counts, so it only has to hold for those not counted; a load keeps it by `Visible`.
  *Direct I/O*: `DrainedIsQuiet` for any finite set of tasks. `DioCounted`:
  `i_dio_count` is the number of requests in flight. `DioLocked`: the lock is held
  by one alone or by those who share it, and a request begins under the shared
  lock only. So a count that was found zero under the lock stays zero (`Drained`).
  *Size*: `SizeIsOne` for any number of readers and of writes and any base of the
  two words. The count is odd while a writer stores (`Writing`), and otherwise the
  two words are those of the current size (`Whole`); half-way one word is new and
  one is old (`Halfway`). The words a reader has loaded under an even count that
  still stands are all of one size (`ReaderAt`).
  *Write access*: `CountsOneSide`, and that `WriteAccess` implements `Sides`, for any
  finite set of users (`AccessAssumption`). The strengthening is `CallsAllowed`: who is
  in a call has seen a value that does not refuse it, and holds nothing yet. When the
  exchange succeeds the value is still that one, and `AllowedIsFree` says that nobody
  is on the other side then; `Joins` and `Leaves` count along one user's step. The
  refinement follows step by step: a look that refuses is `Refuse`, an exchange
  `Enter`, a read that goes on a stutter.
* **`FreezeProtectionProofs`** proves `NobodyInFrozen` for any finite set of tasks
  (`FreezeAssumption`) and any depth. `Counted`: a level's semaphore is the number
  of tasks inside. It needs `Ordered`: what a task is inside of ascends in the order
  that was chosen, of which only that it is one of `Orders` is used, so that the task is
  inside of a level at most once (`OncePerLevel`), whichever function it came in by.
  `Closed`: the levels the freezer has been through are at zero; who enters finds its
  level open, and who leaves was inside.
* **`ListReadersProofs`** proves `BodyRunsOnceEach` and `NoneSkipped` of every form of
  loop, and `YesIsFinal` of `list_empty_careful`, for any number of entries. A list
  that changes under a loop has no fixed order, so the invariant of the loop has a
  witness: one order `later` of everything that was ever on the list, which an
  insertion extends (`Inserted`) and a removal leaves alone. The pointers weave the
  entries that are on the list into a ring in that order (`Woven`); the cursor has
  passed exactly what the body has run for (`Cursor`), and what was seen is in order
  (`History`). For the poller, the owner's own view of its stores is a list in order
  (`InOrder`), the memory is that view without the stores that wait (`Shows`), and
  the last store to an entry that was deleted makes it point to itself (`Settles`):
  so two self-pointers, read in either order, say that it left for good.
* **`LeetcodeProofs`** proves `GroupsInOrder` and `AnswersReversed` for lists of any
  length and every `k` from 1 on (`ReverseKGroupAssumption`). Between two rounds of
  `do_revert()` the list is given by one map from places to nodes, `Order(lo, hi)`:
  whole groups are reversed up to place `lo`, places `lo + 1` to `hi` hold a reversed
  beginning of the next group, and the rest is in order. The invariant says that the
  pointers lead over it and that `head`, `cur` and `next` are where they have to be; one
  `MoveToFront` is a step from `hi` to `hi + 1`, the first of a group one from `lo` to
  the group's end. The reversal is its own inverse, so each node has one place. What a
  walk from the head meets is computed as for the loops over a list (`WalkIs`).
  `AnswersTheorem` is `AnswersAreRight`, for inputs of any length and any numbers that
  the assumptions on the constants admit; it puts together one theorem for each
  exercise, from `TimeIsPassed` to `WordsAreReversed`. Where the model has a loop as a
  recursive function or a fold, two things are shown of it. It exists: a function by
  recursion that goes from larger arguments to smaller ones is put together from
  functions that obey it up to a size (`Recursion`; a fold is such a recursion over
  the sets of places, `FoldExists`). And it is right: of the arguments for which it
  might be wrong one has the least size, and for it one round of the loop gives the
  right answer from the smaller ones. What the rounds keep is said by an operator of
  its own: the window that ends here cannot begin earlier, and the longest so far is
  known (`Longest`); the best centre so far (`BestUpTo`); the characters laid out so
  far (`Arranged`); the runs from here on, in order, have been listed (`ListedAll`,
  for both scanners); the words copied are those of the rest, the last one first
  (`Mirror`, `WordsAreReversed`); the merged array is sorted and has the elements of
  both, each as often (`Merges`). The median and the smallest pairs then follow by
  counting, with the cardinalities of `FiniteSetTheorems`; that `cpmSum` does not
  overflow is where `ArraysAssumption` is needed, and that no character has the pool's
  end as its index, where `StringsAssumption` is. `LongestPalindrome` is about
  `Printable` strings: of such a format `snprintf()` prints as much as it is asked for
  (`PrintedIs`), which is the window that was found (`PrintedWindow`), and no window of
  such a string is longer than the buffer.
* **`ProgramsProofs`** has a part for each program of `MCPrograms` and `MCScripts`.
  *Threads*: `EachGreetsAsItself` for any number of threads and any limit; the
  strengthening (`Numbered`) says that `t` counts the threads and that each was given
  its own number. *Alarm*: `MeasuresCycles` for words of any width, any number of cycles
  in a second that the counter tells apart, and wherever the signal is delivered,
  provided that `"=A"` names both registers. `MeterInv` relates the first reading to the
  cycles that passed since (`After`); `WrapsAround` is the difference of two readings
  when the counter overflows in between. *Benchmark and report*: `OneResultEach` and
  `TableMatchesGrid` for any grid, number of starts and options, under kills anywhere.
  `BenchmarkInv`: each point that had its turn since the last start has one result, of
  this start; `ReportInv`: a listing taken when the benchmark is through is of one run,
  and the table's rows are those of it that were opened. *Dumps*:
  `SectionsHoldTheirDump` and `EachMessageOnce` for rings, dumps and numbers of
  messages of any size. The log is a sequence of ascending messages that ends with the
  newest (`LogIsNewest`), so what was pushed out is all up to one number; when
  a dump begins the log has nothing of the dumps before, and of this one all that the
  ring has not lost (`LogIsOfOneDump`); `Accounted` says where each message is. *Visitor*:
  `AtMostOneLost` for any pages and images; a visit that ends early has one file open.
  The assumptions are `ScriptsAssumption`, `DiskBenchmarkAssumption` and
  `ProgramsAssumption`.

Only model-checked: liveness and what needs `ENABLED`, which are out of this prover's
reach (the liveness in `ImplementsCalculator`, `LoopEnds`, `Terminates`, `AllGreet`,
`EndsMeasured`, `DeletionIsSeen`, `ReadsEnd`, `DrainEnds`, `FreezeEnds`). Every safety
property of a passing run is a theorem. The installed provers cannot instantiate an
induction principle that takes a predicate; where there is an induction, over numbers
or over sizes of data, the proofs take a least counterexample instead. The two runs
that find a violation prove themselves.

## 5. What is not modelled

* Inputs the calculators are not written for: other characters, unbalanced
  parentheses, the empty string. `double_stack_224.c` loops for ever on some of
  these (lines 151-199); `prio()` returns an uninitialised value for others.
* `k = 0` in the reversal, which no caller passes; the memory it never frees.
* The exercises outside of what their tasks allow: arrays that are both empty,
  characters from `CHAR_MAX` on, numbers of a quarter of the range of an `int` and
  more, whose sums the comparator of `kSmallestPairs.c` cannot subtract. Strings with a
  `%` or of more than 1000 characters in `longestPalindrome`: the former is a directive
  of the format, so that `"%%"` returns `"%"` and others are undefined; a palindrome
  that is longer than the latter is written past the end of the buffer. The numbers
  that the scanners read have no upper bound in the model; what `%d` does with one
  that is no `int` is not defined.
* Concurrent use of `list.h` except for `list_empty_careful` and loops that give up
  the lock: its callers lock. Address arithmetic (`list_entry`).
* The rest of `fs.h`: declarations, flags and one-line tests. `i_size_read()` where
  a long has 64 bits is one load. The comment above `inode_dio_begin()`
  (`fs.h:3200-3206`) is a copy of that of `inode_dio_end()`; the model follows the
  code.
* A synchronous direct I/O request that ends before its submitter gives back the
  inode's shared lock: in `DirectIo` every request ends after it. The properties do not
  tell the two apart, since both keep the request counted while it is in flight.
* In the benchmark, the `--parse-only` that `disk_fio_test.sh:38` passes to fio, which
  makes it check its options and leave no result: the model has fio run, as the two
  sister scripts do; that every result is missing (`"none"`) is among its behaviours.
* What becomes of a report when a result cannot be read: `FioReport` has it
  (`Raise`), but nothing in the repository says what should.
* Of the measurements, `ceph_cycle.c` and `google_benchmark_cycle.c`: one
  instruction for each processor. `get_view.py`: one fetch and prints.
* `linux_list.c`, whose `list_add()` and walks are those of `list.h`.
* `trust/src/sumk.c` does not compile.
* The kernel's own part in `use_sysrq_dump.sh` and `threads.c` beyond what is
  described above.
* Demonstrations, I/O and notes: see the components in `PROJECT.json`.

## 6. Plan

Done: every part of section 1 that has behaviour of its own, and a proof of every
safety property that a passing run checks. What is left is liveness, which stays with
TLC: larger instances of the runs in section 3 are the way on from here.
