# A verification of the osDevClass kernel

osDevClass is a small 32-bit x86 teaching kernel: one CPU, three virtual
terminals, up to `MAX_NUM_PROCESS` programs, a read-only file system, a keyboard,
a real-time clock and a timer that switches terminals round robin. This directory
holds TLA+ models of it, TLC runs that check them on small instances, and proofs
that TLAPS checks for every instance.

## The system

| part | code | state | operations |
|---|---|---|---|
| processes | `pcb.c`, `syscall_exec.c`, `system_call.c` | `global_pcb_ptrs`, the PCBs, `top_process`, `num_progs`, TSS, CR3 | `do_execute`, `halt`, exceptions |
| scheduler | `scheduler.c` | the saved `esp`, `ebp`, `esp0` of each PCB | `pit_handler`, `switch_task` |
| execute's command | `syscall_exec.c`, `system_call.c` | `cmd_name`, `cmd_args` | `parse_command`, `check_executable`, `load_executable`, `sys_getargs` |
| terminals | `keyboard.c` | `displayed_terminal`, the user video page of each directory | `change_terminal` (ALT-F1..F3) |
| terminal read | `keyboard.c` | `index`, `terminal_buf`, `read_on`, `read_return` | `terminal_read`, `keyboard_handler` |
| keyboard | `keyboard.c` | `shift_press`, `ctrl_press`, `alt_press`, `caps_on` | `keyboard_handler` |
| screen | `lib.c`, `keyboard.c` | text memory, `screen_x`, `screen_y`, `video_mem`, `key_press`, the TLB | `putc`, `backspace`, `reset_screen`, `terminal_write` |
| file descriptors | `system_call.c`, `pcb.c`, `file_system.c` | `file_array` of each PCB | `open`, `close`, `read`, `write` |
| file system | `file_system.c` | the image, read-only | `read_dentry_by_name`, `read_data`, `read_dir` |
| real-time clock | `rtc.c` | `rtcreadcalled`, `RTCreadCheck`, the chip | `rtc_open`, `rtc_read`, `rtc_write`, `rtc_handler` |
| interrupt controllers | `i8259.c`, `interrupt_handler.c`, `kernel.c` | requests, service and mask registers | `enable_irq`, `send_eoi`, `common_handler` |
| paging | `paging.c` | page directories and tables | `enable_global_pages`, `map_page`, `remap_page`, `cleanup_pg_dir` |

The parts meet in shared variables, not messages. A program enters by `int $0x80`
through a trap gate, so system calls run with interrupts on. Exceptions and device
interrupts use interrupt gates. `do_execute` begins with `cli`; `putc` ends with
`sti` unless the keyboard handler called it (`key_press`). `execute` builds a new process and leaves its own stack
frame waiting at the label `halt_ret`, to which the child's `halt` jumps. The PIT
and `change_terminal` save the frame they interrupt in the same PCB fields, and
the PIT resumes the top process of the next terminal from them. `halt` puts the
parent in its place one statement at a time with interrupts on, and it restarts
the shell if the last one of a terminal ends. `open_file` finds "its" descriptor by
looking at the file array that `sys_open` has just changed. `execute` calls it as well, on
its caller's array; if `change_terminal` executes a shell, the caller is the process that the
key interrupted.

**What is hard here.** Interrupts between two statements of `halt`, of
`terminal_read` and of the RTC calls; fields of the PCB with several writers;
slots, page directories and descriptors that are reused; counts that promise
resources; liveness that rests on a timer interrupt. `PROJECT.json` lists each
hazard at its line with the property that covers it.

**What makes each part correct.** Processes: each runs on its own stack and
directory, is resumable when it is off the CPU, is counted, and is returned to by
its child's halt. Terminals: the process on top draws where its terminal is
shown, and the terminal on display has a program. Descriptors: each reads the
file it was opened with, in order, and no call disturbs another descriptor.
Terminal read: what is typed for one read is delivered to it, and to no other.
RTC: a read waits for a tick after it began, and a write that succeeds sets the
clock. Interrupts: each is served, and none stays in service. File system: the bytes
asked for, the entry named, and execute runs just the file its command names with
just its arguments. Screen: each terminal has one of its own that only its programs
and its keys change. Paging: a slot has the whole address space of one program or none.

## Modules

| module | uses | what it holds |
|---|---|---|
| `Kernel` | | processes, scheduler, terminals |
| `KernelProps`, `KernelInv` | `Kernel` | its type invariant, safety and liveness properties; the inductive invariant |
| `Sessions` | | abstract: a stack of programs per terminal |
| `KernelSessions` | `KernelInv`, `Sessions` | the refinement mapping from `Kernel` to `Sessions` |
| `KernelProofs` | `KernelSessions`, `NatFacts` | the proofs about `Kernel` |
| `NatFacts` | | facts about naturals and finite sets the proofs share |
| `FileDesc`, `FileDescProofs` | `NatFacts` | descriptors of a process |
| `TerminalRead`, `TerminalReadProofs` | | a read against the keyboard interrupt |
| `Pic` | | the two interrupt controllers |
| `Rtc` | | the clock driver and its chip |
| `Clock`, `RtcProofs` | `Rtc`, `Pic` | boot, PIT, keyboard and RTC interrupts, composed |
| `Lib` | | the string functions |
| `Arguments`, `DirLookup`, `ReadData` | `Lib` | command lines; the directory; file data |
| `Exec`, `ExecProofs` | the three above; `NatFacts` | from a command to a program and what it reads, composed |
| `Keyboard` | | what a scan code means |
| `Screens` | | abstract: one screen per terminal |
| `Console`, `ConsoleProofs` | `Keyboard`, `Screens` | screen, echo, terminal switch, TLB, composed; implements `Screens` |
| `AddressSpaces` | | abstract: a whole address space per slot, or none |
| `Paging`, `PagingProofs` | `AddressSpaces` | directories and tables; implements `AddressSpaces` |
| `MC...` | `Kernel`, `FileDesc`, `TerminalRead`, `Clock`, `Exec`, `Console`, `Paging` | constants for TLC |

A definition marked "Seeded fault" changes the one after it the way a plausible bug
would; no specification uses it. It documents what a property notices.

### Kernel

A context is a PCB slot or the boot stack; `cur` is the one ESP is on, which is
what `get_pcb_ptr()` computes. `place[c]` says where the code of a context stands:
in its program or an ordinary system call (`"run"`), inside `execute` (`"exec"`), or
at a step of `halt`. Whatever runs with IF=0 is one action (`DoExecute`,
`SwitchTask`, `ChangeTerminal`); `halt` is one action per statement that others can
see. `ChangeTerminal` and `LaunchShell` are two actions because the second may fail,
with `launching` keeping interrupts off in between. `esp[c]` holds the kind of frame
that `pcb.esp` and `pcb.ebp` save: one of `do_execute` or one of an interrupt.
Returning into a frame whose function has gone, or loading a directory without
the kernel in it, ends in `cur = Wild`. Of a page directory, the model keeps what
`USER_VIDEO` maps, or that the directory is empty. The TSS, CR3 and the fields
`esp0` hold contexts in place of addresses. Whether a command names an executable
is a free choice.

**Windows.** The code is not safe under every interrupt. `Windows` is the set of
steps at which interrupts may come, besides programs and ordinary system calls,
where they always may. `SafeWindows` are the steps of `halt` before it hands over to
the parent. With a window beyond them, TLC refutes (three slots, two terminals,
the window alone, `CHECK_DEADLOCK FALSE`, one property per run):

| window | refuted |
|---|---|
| `"boot"`: ALT-Fn before the first shell | NoCrash |
| `"background"`: execute from a terminal not displayed | ExecuteReturnsFromHalt (run `kernel_background`) |
| `"fault"`: between the exception handler's mark and halt | ExceptionFlag (run `kernel_fault`) |
| `"last_cleanup"` | NoCrash |
| `"last_destroy"` | NoCrash, VideoFollowsDisplay |
| `"last_count"` | NoCrash, TopsResumable, CountsAgree, VideoFollowsDisplay |
| `"relaunch"` | NoCrash, VideoFollowsDisplay, DisplayedLive |
| `"tss"` | VideoFollowsDisplay |
| `"cr3"` | TopsResumable, VideoFollowsDisplay |
| `"cleanup"` | NoCrash, TopsResumable |
| `"top"` | NoCrash, TopsResumable, VideoFollowsDisplay |
| `"count"` | NoCrash, TopsResumable, VideoFollowsDisplay |
| `"destroy"` | NoCrash, TopsResumable, CountsAgree, and HaltCompletes with fairness |
| `"return"` | NoCrash, TopsResumable |

Two of these are runs because the code itself says otherwise in words; the
others show how far the guarantee of the safe runs reaches: `halt` needs `cli` from
its remap of the parent's page to its jump.

**Sessions** is what a user is promised: a terminal is a stack of programs, `Start`
pushes, `End` pops and the one below goes on, an empty terminal on display gets a
shell, and every terminal with a program runs again and again. `KernelSessions` reads
the stack off the PCBs: the parents of `TrueTop(t)`, `Depth(t)` of them. A slot
has left it when `destroy_pcb_ptr` has run. Every other statement of `halt`, every PIT tick
that finds no other terminal, and every failed `execute` is a stutter.
`ImplementsSessions` is `S!Spec` with its fairness.

### FileDesc

One process, as each has its own `file_array` and the files are read-only. A name is a directory
entry, a file is its length and the positions that lie in a block the image does not have
(`BadPositions`). A read that meets one gives -1, and `read_file_wrapper` adds that to the
position. `opened`, `delivered`, `failed` and `replaced` are history.

`StartProgram` is what `do_execute` does to its caller's descriptors: `open_file` writes the inode of
the program into the last open one. The caller is the program itself (`Execute`, at any time) or
whatever the keyboard interrupted when ALT-Fn launches a shell (`Launch`). The run `files_launch`
shows a file swapped this way. What still holds is checked by `files_core`: only the last open
descriptor is hit and only its inode (`FilesUndisturbed`), it has lost its file only if it was
(`ReadsItsFile`, history `replaced`), and its position stays what its reads returned. `Sequential`
speaks of a descriptor until one of its reads fails (`failed`): after a -1 the position is one less
than what was delivered, at 0 even `2^32 - 1`.

`Holes` says whether the program closes a descriptor below an open one. `open_file` cannot handle it
(run `files_hole`); without holes only starting a program touches a descriptor that is not the one
named. `ClosedClean` needs no restriction.

### TerminalRead

One terminal, one action per statement of `terminal_read` that touches what the
keyboard handler writes. A character is NUL, an Enter, another key, or `"stale"`: typed
for an earlier read. With the window `"late"`, keys come between any two statements; without
it, only while the read waits. With `"fault"`, the copy may fault on the
caller's buffer. Both are open in the run. `ReturnsWhatItCopied` and `WholeLine` speak
of reads in which no key came late (history `late`): the value returned is `index` as it
is at the return, not as it was for the copy. `NoStaleEnter` speaks of terminals not
marked as reading, as a faulted copy leaves `read_on` and `read_return` set for the next
read to trip over.

### Clock, with Rtc and Pic

`Clock` starts where `entry()` has initialised the controllers and the chip, and
goes through what it enables, `sti`, `terminal_open` and the first shell (`Boot`).
Handlers run with IF=0. A handler need not end where it began: `pit_handler` leaves
through the frame of the next terminal, and a `keyboard_handler` that launches a shell
stays behind (`suspended`) until the PIT comes back to its terminal, and then sends a
second EOI. `Pic` has the request, service and mask registers of both chips as
external; `enable_irq` and `send_eoi` change them as the code does. `AcceptSpurious` is
the slave's answer to a line that has gone: interrupt 15, for which `common_handler`
has no branch and sends no EOI, so the slave is shut out for good
(`interrupt_handler.c:115`). The properties say so with `spurious`. `Rtc` has the
chip's registers A and C and its index port. In the run the programs of each terminal may
read, write, and open at any time. The window `"select"` lets interrupts in between selecting a
register and using the data port; `ReadWaitsForTick` and `NothingLeftInService` are
proved with it open, while with `Windows = {"select"}` TLC refutes `ClockAsRequested`:
`rtc_handler` reselects the index. Frequency 0 is an entry of the table in
`rtc_write` and turns the interrupt off, so `ReadReturns` is conditional on the
rate staying above 0 in the end.

### Exec, with Lib, Arguments, DirLookup and ReadData

One PCB slot in which commands are executed one after another, each on the slot that
the last one leaves. `parse_command` splits, `check_executable` opens and reads the
header, `load_executable` reads the file buffer by buffer, and the program calls
`sys_getargs`, reads files anywhere, lists the directory, makes bad calls, or
halts. `DirLookup` compares one entry at a time, `ReadData` copies block by block. A
byte is its place in the image, so that one from the wrong block or offset shows;
`FileRange`, `FirstWord` and `Rest` are the references results are compared with.
The code's edges are kept: a `-1` of `open_file` is passed on as an inode number;
`load_executable` stops at 0 only, so a `-1` in the middle of a load is used as a length
(`"lost"`). The empty command is parsed without complaint, though the comment of `parse_command`
promises -1, and then names no file.

`sys_getargs` writes a NUL behind the bytes it copied, so one byte more than `nbytes`
if the arguments do not fit, which may lie behind the caller's buffer. Its comment
(`system_call.c:258`) calls `nbytes` the "Number of bytes to be read"; TLC refutes that no more
than `nbytes` bytes are written (`Len(answer.bytes) <= nbytes` for each answer). `ArgumentsDelivered`
speaks of the buffer only: arguments that fit with their NUL are all there, of others the first
`nbytes` bytes, and it claims nothing of what lies behind.

Commands fit `cmd_name` and `cmd_args` (`StringAssumption`). `parse_command` does not check that
(`syscall_exec.c:197-213`): what a longer one writes over is not modelled. Read positions
are below half the word (`RequestAssumption`), so a position that a failed read has moved below 0
(`file_system.c:247`) occurs in `FileDesc`, not here.

### Console, with Keyboard and Screens

`Keyboard` has the counters of the modifiers, the order of the tests of
`keyboard_handler` and the two tables, over kinds of keys. `KeysMeanWhatIsHeld` holds
as long as no modifier repeats its make code. A keyboard that repeats one moves its counter
up twice (`keyboard.c:79`) and down once, so that it no longer "indicates if corresponding key is
pressed" (`keyboard.c:32`): with `Repeats = TRUE` TLC refutes `KeysMeanWhatIsHeld`. `Console` adds text memory: the
page `VIDEO`, a buffer for each terminal, and `USER_VIDEO`, which the directory of a
program maps to one of them. A program writes through `USER_VIDEO`, the handler through
`VIDEO`; `key_press` and `video_mem` tell `putc` who calls. `putc` runs between `cli` and `sti`, so
a character is a step and a string is not. The TLB keeps what was used until CR3 is loaded and
forgets nothing by itself, the worst case for `remap_page`. `Screens` gives each terminal
a screen and a position; change of display changes neither.

### Paging, with AddressSpaces

Directories and tables with the real page numbers, restricted to the indexes the kernel uses.
`init_paging` is computed with `enable_global_pages` and `map_page` as in the code;
`do_execute`'s seven maps are seven steps, `cleanup_pg_dir` two (directory, then table), with
remaps by `change_terminal` and cleanups of other slots in between. The scheduler may load any
directory in use, also one that is wiped: `halt` wipes its own at `system_call.c:100` with interrupts on and
stays `top_process` until `system_call.c:106`. That the kernel is then no longer mapped is the
window `"cleanup"` of `Kernel`, which refutes `NoCrash`; nothing here claims that CR3 has the
kernel. `AddressSpaces` is what the directories should amount to.
`Kernel` uses the same fact in a smaller form, `user_video` and `pg_dir`.

## Runs

| run | bounds | shows |
|---|---|---|
| `kernel_core` | 3 slots, 3 terminals, SafeWindows, fair | safety and liveness of the core; it implements `Sessions` |
| `kernel_leak` | 4 slots, 3 terminals, windows `destroy`, `fault`, `tss` | with slots leaking, free ones stay clean and a dead shell finds one |
| `kernel_background`, `kernel_fault` | 3 slots, 2 terminals, one window | counterexamples |
| `files_core` | 4 descriptors, 4 entries, one file with an invalid block, reads of up to 2 bytes, `WORD` 8 | descriptors under stack discipline, failed reads and launches |
| `files_hole` | the same with `Holes = TRUE` | counterexample |
| `files_launch` | as `files_core` | counterexample |
| `terminal` | buffer of 3, reads of 0, 2, 4 and 6 bytes of at most 5, keys and faults anywhere, fair | nothing is left for a later read; lines are whole; Enter ends a read |
| `clock` | 2 terminals, frequencies invalid, off and in the table, fair | the clock runs as asked, reads wait and return, interrupts are served and ended |
| `exec` | all commands of up to 4 characters, names of 2, 2 files, 4 directories, blocks of 3 bytes, header and loader buffer of 2, fair | what runs, its arguments as far as they are asked for, its reads, and that calls end |
| `console` | 2 terminals of 2 by 2 characters, 2 modifiers held, 2 marks put | it implements `Screens`; cursor; meaning of keys |
| `paging` | 3 slots, real page numbers | it implements `AddressSpaces`; maps of a new directory accepted |

**Why the bounds are enough.** Three terminals let the round robin skip one and
come from either side. `kernel_core` has three slots, a parent and child beside another
terminal or a chain of three; a fourth slot takes too long with liveness and
refinement, and its safety is proved for any number. Two descriptors for files are one that `open` returns
beside one it must not touch, a last open one beside another, and an array that fills. `WORD` is small so that a position could wrap. A read below,
at and above the buffer size meets each of the three ends of the wait. Blocks of 3
with a loader buffer of 2 make loads meet block borders at every offset. The directories have a
name that begins another, the two orders of them, a name twice and one that fills its
entry; a file has blocks in order, out of order, one that does not exist, and
lengths on and off a block border. A screen of 2 by 2 has every edge `putc` tests. Three slots let
two address spaces exist while a third is built or wiped.
Named bounds: `MaxBytes`, `Requests`, `Commands`, `Images`, `Lengths` and `Numbers` bound
inputs; `MaxHeld` the fingers of the user and `MaxCount` the repeats (none in the run); `MaxMarks` the
characters other than newlines put on all screens. No counter of the kernel is cut off by a bound.

**Deadlock.** It is checked in every run but four: `kernel_leak`,
`kernel_background` and `kernel_fault` open windows after which the kernel may be
dead, and in `exec` a load that has run away (`"lost"`) is the end of the kernel.

**Fairness.** *Kernel*: weak fairness of the boot code's first execute and of
`LaunchShell`, which runs with IF=0, since the CPU executes what it is at. Strong
fairness of `PitHandler`: the PIC latches IRQ0, so a tick due while interrupts
are off is delivered once they are on. Strong fairness of `Halt` per process: the PIT
gives a process the CPU again and again and each turn executes some instructions.
Programs have no fairness; they may run for ever. *Sessions*: what is promised, namely that
an empty terminal on display gets its shell and every terminal with a program its turn;
it follows from Kernel's. *TerminalRead*: weak fairness of the reader. Nobody has to type.
*Clock*: weak fairness of the boot code and the handlers (the CPU runs), of the PIT's
period and of the tick of the RTC, and of `Rest`, which says that the PIT and the
keyboard are slow compared with a handler; strong fairness of accepting interrupts, as requests are
latched; strong fairness of `Steps(t)`, as a time slice is long enough for a statement of the
driver. Neither programs nor keys are obliged to do anything. *Exec*: weak fairness of
the kernel's steps.

## Proofs

Theorems hold for any number of slots, terminals and descriptors, any size of screen,
buffer, block and name, and any image, command and request, under the named assumptions on the
constants, which TLC also evaluates and which exclude some states of the code: see
"Assumptions". A theorem whose hypothesis leaves behaviour of the code out states it in its
comment and in its entry of `PROJECT.json`. Every safety property of the runs is a theorem, and so is the
refinement of each abstract specification, for `Sessions` without its fairness.

* **`KernelProofs`**, for every set of windows: type correctness (with the fact that `halt` has a
  parent after its test for NULL), `FreeSlotsClean`, and `RelaunchPossible`; `ExceptionFlag` while
  the exception handler is not interrupted. `RelaunchPossible` rests on the fact that a dead
  last shell's slot is free until it is relaunched (`SlotGone`), whatever becomes of the counts.
  When `Windows` is a subset of `SafeWindows`: `NoCrash`, `OwnContext`, `TopsResumable`,
  `CountsAgree`, `VideoFollowsDisplay`, `DisplayedLive`, `ExecuteReturnsFromHalt`, and the
  steps of `Sessions`.
  The properties speak of states in which no halt is under way, so none is
  inductive. `IInv` says for each step of halt what is undone already:
  `Depth(t)` and `TrueTop(t)` are the number and the innermost of the programs that
  still have a PCB when `num_progs` and `top_process` are ahead of it or behind.
  The chain of parents is a numbering of the PCBs of each terminal by levels 1 to
  `Depth(t)`, each level's parent one below (`ChainInv`): a witness that each step
  extends or cuts at its top, where a recursive definition of the chain would need
  induction. The other parts say which frame each process has (`StackInv`), which
  stack and directory the CPU has at each step (`RegsInv`), what the directories
  map (`DirInv`, `VideoInv`), and that counts are cardinalities (`CountInv`).
  `change_terminal`'s test that a slot is left rests on the sum of the counts being the
  number of PCBs (`ProgramCountIsUsed`), with the sum as a recursive function.
  No run lists `IInv`, as it is proved; to check a change of it first, add it to the
  invariants of `kernel_core`.
* **`SessionsImplemented`**, at the end of `KernelProofs`: each step of execute, halt,
  `change_terminal` and the PIT is one move of `Sessions` or none. `StackOf(t)` follows the
  pointers to the parents by a recursive function. A sequence in which each element's parent is
  the one before it and whose last is the top (`Spine`) is the only one of its length
  (`SpineUnique`, by the least place where two differ, `LeastMember` of `NatFacts`
  standing in for an induction), and `ChainInv` gives it all its elements. So a stack is its spine, and
  it is enough to see that a step leaves the spine (`StackKept`), adds to it (`StackGrows`) or takes
  its top (`StackShrinks`). Of halt's steps only `destroy` moves.
* **`FileDescProofs`**: `ClosedClean` for every habit. `ReadsItsFile`, `OpenTouchesOnlyItsOwn`,
  `Sequential` and `FilesUndisturbed` for `~Holes`, with launches and failing reads: the open
  descriptors are always the first ones (`Contiguous`), so the one before the first free one is the
  one just claimed, or, if a program is started, the last open one. Until a read fails the position of
  a descriptor stays within its file (`EntryInv`), so that the unsigned arithmetic does not wrap.
* **`TerminalReadProofs`**, for every window: `NoStaleData`, `NoStaleEnter`, the index bound,
  `ReturnsWhatItCopied` and `WholeLine`. The flags go up in one order and down in the other, so
  read_return is set only under read_on or at the one statement between the two resets; what lies
  before index was typed for this read. `LineInv` says at each statement of a read that no key
  came late for which part of the line is there and which is copied.
* **`RtcProofs`**, of `Clock`: with the window open, `ReadWaitsForTick`, as a tick is pending
  only for a read that has begun before it; and `NothingLeftInService`, from an invariant that
  says for each handler under way at most what may be in service. With it closed
  `ClockAsRequested`: the index port holds the register that the terminal in the middle of an
  access has selected, and only one terminal is (`AccessInv`).
* **`ExecProofs`**, for commands that fit their buffers and positions below half the word:
  `ReadsTheRange`, `ListsTheDirectory`, `ArgumentsDelivered` and `ExecutesWhatIsNamed`. `ExecInv` holds the loop invariants: that of `read_data` says that the
  bytes copied are the first of the range and which block and offset come next
  (`RangeInv`), that of `read_dentry_by_name` that no entry before index has the name
  (`LookupInv`), and that of `load_executable` that memory is the file up to its position
  (`Loading` in `PhaseInv`). `CommandInv` says what the fields of the PCB hold. With a loop's
  content in the state, no induction over the data is left to do. Strings are compared
  with the references `FirstWord` and `Rest` by the first place of a space.
* **`PagingProofs`**: `MapsAccepted` and `ImplementsSpaces`, from `PagingInv`:
  `Built(s, k, view)` is what directory and table of a slot contain before map k of
  `do_execute`; a free slot is `Built(s, 1, ...)`, a running one complete, and one whose
  directory is wiped still has its table.
* **`ConsoleProofs`**: of `Keyboard`, `KeysMeanWhatIsHeld` as long as no key repeats
  (`~Repeats`): a counter is 1 or 0 as its key is held. Of `Console`, `CursorFollows` and
  `ImplementsScreens`, from `ConInv`: a terminal's page is the screen or its buffer, each
  terminal that has programs has its `USER_VIDEO` there, and so has the TLB, so that a character goes to
  the screen of the one who puts it.

**Assumptions.** Sizes are positive, and those of the file system fit half a word: the code
compares some as signed. `ImageAssumption` says what an image is: names filled up with NUL, entries
with an inode, files that end in a block they have. `StringAssumption` says that a
command is a string, ended by its only NUL, and no longer than
`MAX_COMMAND_LENGTH`, which the kernel does not check (`syscall_exec.c:197-213`); a line of
the terminal has at most 128 bytes, but another program may pass a longer string. `RequestAssumption` keeps the positions of reads below half the
word, which the code does not check either: a read that fails at position 0
leaves `2^32 - 1` (`file_system.c:247`). `HeaderAssumption` has the ELF
header within a block: 40 bytes of 4096. `ScreenAssumption` asks for two rows and two columns,
as `putc` divides by `NUM_COLS - 1`. `TerminalKeysAssumption` and `FKeysAssumption` are the
three keys that the handler tests. `InodeAssumption`, `LengthAssumption`, `TypeAssumption`,
`NamesAssumption` and `BadAssumption` are the image once more, as `FileDesc` sees it.

**Model-checked only.** Liveness (`TerminalsServed`, `HaltCompletes`, `EnterEndsRead`,
`EveryInterruptServed`, `ReadReturns`, `CallsEnd`), which is beyond this prover, and with it
the fairness of `ImplementsSessions`. The counterexamples of the next section are TLC's: they show
that the hypotheses on `Windows` and `Holes`, and the history `replaced`, are needed; that of
`~Repeats` is shown by TLC as said under Console.

## Findings

| run | what the code does against its own words |
|---|---|
| `kernel_background` | `do_execute` files a new process under the displayed terminal, not its caller's; the PIT then resumes the caller inside `execute` |
| `kernel_fault` | `is_exception` may be consumed by another program's `halt` |
| `files_hole` | `open_file` writes the inode into the descriptor before the first free one |
| `files_launch` | ALT-Fn to an empty terminal makes the last open descriptor of the interrupted program read the shell's file, though `open_file` declares no side effects |

Two more that TLC shows have no run of their own: a repeated make code of a held modifier leaves its
counter above 0 (see Console), and `sys_getargs` may write one byte more than `nbytes` (see Exec).

## What is not modelled

* Formatting: `printf`, `itoa`, `strrev`. What they print is characters that `putc` puts.
* `memset`, `memcpy` and `memmove`, which are assignments in the models.
* `disable_irq` and `terminal_close`, which calls it: no table of file operations holds it.
* The divisor `pit_init` gives the timer; the descriptor tables, multiboot parsing and
  `boot.S`, straight-line set-up of the hardware before interrupts are on.
* The saving and restoring of registers by the entry macros; the frame is one of two kinds.
* `sys_set_handler` and `sys_sigreturn`, which return 0. `sys_vidmap` keeps no state and returns
  a constant; its range check lets through addresses past the task's page.
* `read_dentry_by_index`, which only the tests call; `read_dir` of a negative length, as
  what `strncpy` then does to memory cannot be said in the model.
* The flags of page entries other than PRESENT. A range of `enable_global_pages` that ends at exactly
  4 MB is an error in the code, and no call has one.
* Debugging code, tests and build files.

An instruction of C is taken as atomic where it is one access to a shared variable, which
holds on one CPU. What happens after the kernel has crashed is not followed.

## What is left to do

Every component has its model, every run's safety property its proof. What is left is to carry the
theorems across modules: that the slots `Kernel` calls clean are those `Paging` calls free, and that a
read of `FileDesc` is a read of `Exec`, are assumptions made by writing the same code twice. The
theorems with a hypothesis (`~Holes`, safe windows, no repeats, commands that fit) end where the code does; a change
of the code that closes a window should move the hypothesis, and the run that refutes it.
