# Unix-style kernel: verification

TLA+ models of the kernel in `src/student-distrib`, TLC runs on small instances
and TLAPS proofs for every value of the constants. The kernel is a teaching
operating system for one x86 processor: three text terminals that the user
switches between with Alt-F1..F3, a shell at the bottom of each, programs that
execute programs and halt, a read-only file system, a real-time clock shared by
virtual clocks, a round-robin scheduler driven by the 8254 timer.

`PROJECT.json` lists components, runs, seeded faults (one per property: a
plausible bug of the code that the run must catch), the source lines behind
every definition, hazards, findings and theorems.

## 1. The system and its parts

There is one processor and no thread in the kernel beside the kernel stacks of
the processes. What makes the code hard is that it is interrupted. System calls
and exceptions come in through trap gates (interrupts stay on), devices through
interrupt gates (off). Three handlers touch everybody's state: the timer switches
to another terminal's stack in the middle of whatever was going on, the keyboard
edits the line of the terminal on the *screen*, the RTC counts for *all*
terminals. And functions that turn interrupts off turn them on again
unconditionally, so a `sti` deep inside a call (terminal_write, remapB8,
sys_halt) opens a window in a caller that thinks it has interrupts off.

| part (source) | state it keeps | operations | interacts with | hard behaviour | what makes it correct |
|---|---|---|---|---|---|
| process manager, scheduler (`system_call.c`, `PIT.c`) | `terminal_PID`, `global_process_count`, `is_base_shell`, `current_pid`, `curr_pcb`, PCB contexts, user page, `tss.esp0`, `current_terminal`, boot counters | sys_execute, sys_halt, PIT_interrupt_handler, terminal_swap | every other part: who runs, on which page and stack | ticks at every point; two ways of switching stacks (tick, execute/halt) with the contexts in the same PCB; restart of base shells; boot ticks that never return | the records of who runs agree; a context that is resumed exists; a halt returns to the parent; the process limit; no terminal starves |
| interrupts (`i8259.c`, `idt.c`, `idt_helper.S`, `kernel.c`) | masks, requests, in-service bits; gates; the order of the boot | enable_irq, send_eoi, the three handlers, exceptions | scheduler (a tick leaves handlers suspended), devices | acknowledgement on another stack than the one interrupted; `sti` in the middle of the boot | a line in service has exactly one handler that will acknowledge it; nothing runs before it is set up; no line goes dead |
| RTC (`rtc.c`) | `rtc_interval`, `rtc_counter` per terminal; registers A, C | rtc_open, rtc_read, rtc_write, handler | scheduler; interrupts | one handler counts for waiting programs that are not running; unsigned arithmetic; a read loop that tests equality | a read waits for its own interval and returns |
| line discipline (`keyboard.c`, `terminal.c`) | `terminal_buffer`, `numchar`, `enter_flag` per terminal; modifiers | a key, terminal_read, terminal_write's windows | scheduler, screen (echo), swap, halt | the handler is suspended between storing a character and counting it; the reader, with interrupts on, tests a count the handler changes | no overflow; the buffer is the line the user sees; a read delivers it; Enter ends it |
| screen (`lib.c`, `paging.c`, swap and vidmap in `system_call.c`) | four pages, the page at 0xB8000, cursors | putc, putc_for_keyboard, clears, terminal_swap, remapB8, sys_vidmap | scheduler, keyboard | aliases: the same page has several addresses, and addresses change their page; wrap, scroll and erase at the corners; a key is echoed first and counted later, on the terminal that was shown when it began | each terminal's picture is what a console of its own would show |
| file contents (`filesys.c`) | inode, data blocks; the offset of a descriptor | read_data, read_file, read_file_execute | sys_execute (loads programs), sys_read | block boundaries, end of file, requests of any sign | the bytes of the file once, in order, and from its blocks only |
| descriptors, names, directory, commands (`system_call.c`, `filesys.c`) | `fd_table` of each PCB, the shared `syscall_open_dentry` and `arg_command` | sys_open, sys_close, read_dir, the lookups, sys_getargs; the parsing and the file checks of sys_execute; what execute and halt do to tables | process manager, scheduler | names of full length have no terminator; globals shared by all terminals; a file header of which no byte was read | names and commands find their file and no other; tables stay with their programs |
| page tables (`paging.c`) | three entries that change, what the processor has cached of them, the frames of the programs | set_user_page, remapB8, flush_tlb, paging_init | process manager, screen | five places change the mapping; sys_execute loads a program through it | who runs finds its own program at 128 MB, and no load destroys another; output lands on the terminal's own page |
| user programs (`syscalls/`) | cat, grep: a buffer, a partial line | reads through the kernel, output | file contents | a line cut by the end of the buffer; short reads | cat copies the file; grep prints the lines that match |
| library (`lib.c`) | registers and a digit buffer | memset, memcpy, memmove, printf, itoa, strrev | everybody | unaligned ends, overlap, the most negative number | memory is copied and no other byte touched; a number is printed with the digits that denote it |
| linkage (`idt_helper.S`, `system_call_asm.S`) | registers | entry and exit | interrupts | - | not proved: register saving |
| Lebron AI (`terminal.c`, `lebron.c`) | `LebronAI_flag` | a chat inside terminal_read | sys_execute refuses while it is on | - | the flag is modelled |
| boot loader interface, signals, kernel tests, debugging macros, host tools | - | - | - | - | not modelled, see section 7 |

## 2. Modules

| module | models | abstraction |
|---|---|---|
| `TerminalStacks` | what the process manager promises: one stack of programs per terminal, the processor goes round, process slots are limited | - |
| `Scheduling` | process manager and scheduler | a flow is a kernel stack; a saved `esp`/`ebp` is the flow it points into; a section with interrupts off is one action |
| `Interrupts` | 8259s, gates, boot order, nesting and acknowledgement | handlers are stages: entered (interrupts off), on again, has switched flows |
| `Rtc` | the clock driver | a word of `WordSize` values; interrupts as events |
| `TerminalLine` | keyboard handler and terminal_read | a character is a model value; the handler is split where terminal_write opens a window, and the load and store of `numchar++` |
| `Display` | pages, aliases, cursor, putc and its variants | cells hold glyphs; no attributes, no hardware cursor |
| `SequentialFile` | what a descriptor of a regular file promises: a read takes in one step all it asks for, or all that is left | no blocks, no loop |
| `FileRead` | read_data and its callers | a byte is the pair (block, offset) it is read from |
| `Programs` | cat and grep above `FileRead`, which it extends: every kernel step of a read is a step here | a file is a sequence of characters; searching one line is one step |
| `OpenFiles` | descriptors, names, directory, commands and their arguments | a name is a sequence of small numbers, characters only matter for equality, as space and as the end of the string |
| `AddressSpaces` | the page tables, cached translations and user frames, above `Scheduling`, which it extends: every step of the process manager with what it maps | an entry is the frame it points to; a frame holds the program loaded into it |
| `Library` | memset, memcpy, memmove; printf, itoa, strrev | one turn of a loop is a step; `%c` and `%s` stand for a character and a string chosen by the word |
| `MC<module>` | values of the constants for TLC | - |
| `SchedulingProofs` (with the refinement and `AddressSpaces`), `InterruptsProofs`, `RtcProofs`, `TerminalLineProofs`, `DisplayProofs`, `FileReadProofs` (with `Programs`), `OpenFilesProofs`, `LibraryProofs` | theorems and proofs | - |

The modules meet in the actions they share: `PITTick` (in `Scheduling` with all
its effects, elsewhere as "the processor passes to the next terminal"),
`TerminalSwap` / `terminal_swap`, and the halt of a program, which each module
models with what it does to that module's state. `Scheduling` justifies what
the others assume: that a terminal's foreground program is the only flow of that
terminal that makes steps, and that every terminal gets the processor again and
again (`RunningIsCurrent`, `ContextsSaved`, `EveryTerminalRuns`).

### Windows

Some properties fail in a few windows of the code. Rather than leave those
behaviours out, each module takes a constant `Hazards`, the set of windows a run
lets the environment hit, with the guard at the action. A run that shows that a
property holds uses the empty set, or the windows the property survives; a run that
shows a divergence opens the window. What is in each window:

| module | name | window |
|---|---|---|
| `Scheduling` | boot | a tick between the `sti` of remapB8 in a boot tick and the `cli` of its sys_execute |
| | restart | a tick between the `sti` of sys_halt of a base shell and the `cli` of the sys_execute that replaces it |
| | early | a command before the boot ticks are over |
| | ai | a base shell exits while Lebron AI is on: the restart is refused |
| `TerminalLine` | key | a key between Enter and the end of the read that Enter ends |
| | halt | a program halts while a key of its terminal is stored and not yet counted |
| `Display` | stale | output between a swap and the next tick |
| | tab | a tab that wraps off the last row |
| | mapped | a swap while a program has the screen mapped |
| | back | a program prints `'\b'` at column 0, or while the user of its terminal has a line under way |
| | prompt | the user types a line that begins like the shell's prompt |
| | echo | a swap between the spaces of a tab that is typed |
| `OpenFiles` | open | an open while another terminal's open is half done |
| | header | sys_execute of an entry without data reads no byte and takes what its stack holds for the header |
| `Interrupts` | bootkey | a character typed before the first tick |

## 3. How modules correspond to the code

**Scheduling.** A process identifier `<<t, s>>` is the number `6 t + s` of the
code. `BootTick` and `BootExecute`/`BootExecuteRefused` are the first three timer
interrupts, split at the `sti` in remapB8; `PITTick` is every later one, whole
(IRQ0 is in service until its final send_eoi, and it has the highest priority, so
its own `sti` lets nothing in). `Execute` is a successful sys_execute by a program, `HaltChild` sys_halt
of a program, `HaltBaseShell` + `RestartBaseShell`/`RestartRefused` that of a base
shell, split at the `sti`. `cpu = NULL` says that the kernel loaded a stack pointer that
points nowhere. The contexts of a freed PCB are forgotten at once (nothing reads
them before init_pcb).

**Interrupts.** `booted` walks through the calls of `kernel.c:entry`; `Deliver` is
the 8259's choice of the highest unmasked request above everything in service,
through an interrupt gate; `KeyEchoed` is the `sti` inside terminal_write,
`KeyDone` the specific EOI; `PIT_interrupt_handler` acknowledges on the flow it
came in on and continues as the tail of a handler suspended on another.

**Rtc.** `Open`/`OpenReturns`, `Write`/`WriteReturns` are the sections before and
behind the `sti`; `Read`/`ReadReturns` the loop; `WriteZero` the division by zero
that the exception handler turns into a halt.

**TerminalLine.** A key is accepted (`KeyChar`, `KeyTab`, ...) up to the window in
terminal_write; the frame pushed on the interrupted flow remembers the terminal
that was on the screen and how many characters are left to store (`Put`), load (`Load`) and
count (`Store`, with the end of interrupt after the last). `KeySwap` pushes a frame
that runs `Swap` later: terminal_swap is entered with interrupts on. terminal_read is cut
at every access to a shared variable: the wait, both tests, each character copied, the
count, the reset, the memset (of the size of a pointer).

**Display.** `page` has the four pages, `b8` the one at 0xB8000. `PutChar`,
`PrintNewline`, `PrintTab`, `PrintBackspace`, `PrintPrompt` are the branches of putc that terminal_write
reaches (it drops only NUL), drawing at `b8` with the cursor of the current terminal. The two `'\b'` differ: putc's goes from column 0
to column 80 of the row above (`PutBack`), putc_for_keyboard's to column 79 (`Back`).
Keys draw on the physical screen with the cursor of the shown terminal. Enter, backspace and Control-L keep interrupts off and are
one step. A character echoes through terminal_write, which ends in `sti`, and is counted afterwards: `Type`
echoes, `KeyCounts` counts, and `key` remembers in between which terminal's flow the handler is on, which
terminal it counts on (the pointer it took when it began) and the count it has loaded. A tab is one such handler with four echoes and four
counts: `TypeTab`, then `KeyCounts` and `TabGoesOn` in turn; ticks, reads and swaps come in
between, no second key (IRQ1 is in service). `EchoOf` is terminal_write with the typed line as its buffer: its test for
the prompt looks at that too, and its newline then goes to the terminal that runs, whichever is
typed on. `terminal_swap` saves and loads pages; `PITTick` remaps. `console` is the reference: a list of lines
that only knows what was printed and typed on this terminal. Two bounds: `Followed` stops at a cursor that "back"
took above the page or beyond a second row's width, and `Kept = FALSE` forgets what a swap leaves
in the backing page of the terminal it shows, which the next swap overwrites before anybody reads it (the run holds with
`Kept = TRUE` too, with one terminal that maps the screen; the proofs take either).

**FileRead.** `Call` is read_data up to its loop, `CopyByte` one round, `Returns` the end
and read_file's update of the offset. nbytes is converted to unsigned. `Descriptor` maps it to
`SequentialFile`: the bytes delivered go by their place in the file, a call of read_file that is
in its loop has asked and not yet taken.

**Programs.** A program calls `read_file` of `FileRead` and goes on when that module is
back in "program"; the characters it finds are those of the file at the bytes the kernel
stored, zeros behind its end. `cat_reads`/`cat_writes` are the loop of cat;
`grep_reads`, `grep_fills`, `grep_keeps` (a line cut by the end of the buffer is moved to
its front) and `grep_searches` that of grep's do_one_file, `grep_opens` its call for the next file.
`Garbage` is what the byte behind the buffer may hold: grep looks at it before
anything has been written there. The reference takes the whole text: where its lines start
(`LineStarts`), which of them contain the pattern (`Matches`), and that the output is those in
front of a place, in order (`PrintedBefore`).

**OpenFiles.** `OpenLookup` is sys_open up to the copy into the shared dentry,
`OpenEntry` the rest; `ReadDir`, `Close`, `Execute`, `Halt`, `HaltBaseShell` are whole.
`Matches` is strlen and strncmp of read_dentry_by_name on fixed-length, possibly
unterminated names. `NameOf` and `ArgsOf` are the loop of sys_execute over the command,
`HeaderAccepted` the read of 28 bytes and the comparison with the ELF magic; `ExecuteFails` is
a call that fails after it has overwritten `arg_command`. `command` and `args` remember what
each program was executed with.

**AddressSpaces.** `entry` has the frames of the three entries that change, `tlb` those at the
last write to cr3: between the two an access may go either way (`Reached`). `BootTickMaps`,
`SwitchMaps`, `ExecuteLoads`, `HaltMaps` and `MapsNothing` divide the steps of `Scheduling` by
what they map; `ExecuteLoads` writes the image through the mapping that it finds, after the flush. `OutputReachesTerminal` is about the two video
entries: an invariant (`OnePlace`) and what a step may do (`Follows`), since a swap changes the screen and leaves the entries as they are until
the next tick.

**Library.** The phases of a memory call are the labels of its assembly (`TopByte` until
`edi` is aligned, `Aligned`, `MoveWord`, `BottomByte`; `MoveByte` is `rep movsb`, backwards when
memmove needs it), those of printf the states of its loop; `itoa` and `strrev` make a step for
each digit. The reference for printf says that the text can be cut into what each character of the
format stands for (`Expands`, `StandsFor`), and what a numeral is by its value (`IsNumeral`).

## 4. What the runs check

Every passing run explores its whole state space. Times are for two workers.

| run | question | bounds, and why they are enough | result |
|---|---|---|---|
| `scheduling` (`MCAddressSpaces`) | do the records of who runs agree, is there always a context to resume, does halt return to the parent, is the limit enforced; does every terminal run, a base shell come back; is it a `TerminalStacks`; does who runs find its own program mapped, and does every switch put its output on its own picture, where it stays until the screen is swapped? | 3 terminals and 6 slots as in the code; `CountFloor` is not reached without the "ai" window | 51 117 states, ½ min, 11 properties hold |
| `hazards` | does the process count survive every window? | 2 terminals, 3 slots, base shells that halt under refused restarts down to a count of -2: each window and each pair of them occurs | `CountIsBounded` holds |
| `rtc` | does a read count its own interval and return? | 2 terminals; a word of 8 with frequencies that are negative, zero, refused, too fast: intervals 0, 1 and 5 | holds |
| `line` | overflow; the buffer is the line; a read delivers it | 2 terminals, one of them reads; a buffer of 2 and tabs of 2, so tab and character both meet "full" and "one short"; requests of 1 and 2 against lines of 0..2; handlers two deep, so that keys, swaps and ticks come between the halves of a swap | 3.3 million states, 1½ min, holds |
| `line_live` | does Enter end the read, does the keyboard come back, with keys in the window "key" | the same with tabs and spaces only, handlers one deep | holds |
| `read_count` | does terminal_read return "how many bytes we read"? | a buffer of 3 with every window open | violated |
| `file_read` (`MCPrograms`) | are reads those of `SequentialFile`: bytes once, in order, none short; inside the blocks; does cat copy, does grep find, whatever the reads cut? | blocks of 3, files of 0..7 bytes (before, at and after a block end, in three blocks), requests from -1 to above a block; a program buffer of 4: every text of up to 6 of two letters and newline, then one of up to 5; patterns of 1 and 2; the byte behind the buffer a letter or 0 | 449 376 states, ¼ min, holds |
| `interrupts` | acknowledgement, suspension, boot order, starvation, the RTC going silent | the three lines in use, 3 terminals, any mask left by the boot loader | holds |
| `display` | is each picture that of a console of its own; do erasures and mapped programs stay where they belong? | 2 terminals, both may map the screen; a screen of 2 by 2, tabs of 2, lines of 2: every character is next to an edge, every newline scrolls, a typed tab is two echoes and two counts | 710 932 states, 1 min, holds |
| `open_files` | names, listings, commands, tables across execute and halt | names of length up to 2 = NAME_LENGTH, one of them the prefix of another; 4 dentries, one more unused; commands with an empty argument, behind two spaces, with a space in front, naming a directory or nothing; 2 open files, a table of 4 | 158 804 states, holds |
| `own_args` | does a program get its own arguments? | the same | violated in three steps |
| `library` | memory copied whole and nothing else touched; numbers printed right | memory of 11 bytes: every call of every alignment, length and overlap, with two whole words in reach; every well-formed format of up to 4 of `% # d u x c s`, on 8-bit numbers that include 0 and the most negative | 60 900 states, holds |

The seeded faults (defined beside the definition they replace, each marked
"Seeded fault") are taken where possible from the bugs that
`src/student-distrib/bug_log.txt` records: the wrong esp0 (bug 9), erasing across a
line end, vidmap.

### Findings

- `read_count`: a key between `nbytes < numchar` and `nbytes >= numchar` makes both
  false; terminal_read returns a variable it never set.
- `own_args`: one buffer holds the arguments of all terminals.

### Known divergences without a run

Found while modelling, visible in the modules, not given a run of their own:

- Output between a swap and the next tick goes to the page of the terminal that
  was shown when the tick came (window "stale"; bug_log.txt, bug 16, is its neighbour).
- A second boot tick in the window "boot" starts two shells on one terminal.
- sys_halt of a base shell sets `is_base_shell`, turns interrupts on and calls
  sys_execute. A tick in between lets a program of another terminal execute; that call
  believes it is the restart and takes slot 0 of its own terminal, which is in use, although
  sys_execute promises a new process (window "restart").
- A base shell that exits while Lebron AI is on is not replaced, and `is_base_shell`
  stays set (window "ai").
- A character typed before the first tick can leave IRQ1 in service on the boot stack
  for good (window "bootkey").
- A program that called sys_vidmap while its terminal was off the screen keeps
  drawing on the backing page when it is shown (window "mapped").
- A tab that wraps off the last row puts its other spaces below the screen (window "tab").
- A program's `'\b'` (`lib.c:252`) at column 0 leaves the cursor at column 80 of the row above, where
  putc_for_keyboard uses 79 (`lib.c:346`), and at the top of the page above it; at other columns it takes back what the user
  has typed and may erase again, which then goes up one character too far. Both are the window "back", in which TLC refutes
  `EraseStaysOnScreen` and `PictureIsConsole`.
- terminal_write's test for the prompt (`terminal.c:71`, its first four characters: the length is that of a pointer) looks at what is
  *typed* as well: a line that begins with "391O" makes the terminal that runs start a new line with every
  further character (window "prompt", which refutes `PictureIsConsole`; the newline only moves a cursor forward, so
  `EraseStaysOnScreen` survives it).
- A tab's handler keeps the pointer to the terminal it began on (`keyboard.c:146`), while its echoes go to the one on the screen: after a
  swap between its spaces the later ones are drawn on one terminal and counted on the other (window "echo",
  which refutes both properties).
- An open on one terminal can give another terminal's half-done open its dentry (window "open").
- sys_execute does not look how many bytes of the header it read: for a directory, the RTC
  or an empty name it compares what its stack holds with the ELF magic (`system_call.c:266`, window "header").
- grep tests the byte behind its buffer to see whether a line is unfinished; on a stack that
  holds a newline there it prints a cut line (a `Garbage` with the newline refutes `GrepPrintsMatches`).
- sys_vidmap accepts any address from 0x8000000 to 0xC000000 (`system_call.c:511`), of which 4 MB are mapped.
- The shell's "program terminated by exception" for 256 (`ece391shell.c:30`) is never
  printed: sys_execute does not pass a halt's status on.
- A command that begins like "Lebron AI" in its first four characters returns 0 without executing
  (`system_call.c:205`: the length compared is that of a pointer).
- printf sends `%d` and `%u` to the running terminal and everything else to the one shown; a
  format that ends in `%` runs past its end. strncpy looks at `src[n]` (`lib.c:707`).
  memmove leaves the direction flag set after a backward copy (`lib.c:646`).
- rtc_open leaves the device at 1024 Hz and the interval as it was (comment, `rtc.c:114`: 2 Hz);
  rtc_read with interval 0 returns without an interrupt (`rtc.c:160`).
- terminal_read's memset clears the size of a pointer, not the buffer (`terminal.c:497`).
- read_file returns a count where its comment promises 0 (`filesys.c:87`).
- sys_read, sys_write and sys_close have no upper bound for descriptors (`system_call.c:461`);
  the test `err_big_fd` (`ece391syserr.c:68`) expects -1.
- PIT_init writes the port number 0x43 as mode byte; it is a legal mode.

## 5. Fairness

- `Scheduling`: `SF` of a tick: the timer is periodic and the 8259 latches a request
  until interrupts are on, so a tick that is possible again and again is taken. `WF`
  of the second halves of a boot tick and a restart: straight-line kernel code. Nothing
  is assumed of programs or users: a program may run for ever, execute for ever, or
  never halt.
- `Rtc`: the device and the timer tick; the loop of rtc_read gets a turn in which it
  tests (`SF`: a time slice is 25 ms, and between two device interrupts or for good
  the condition stays true).
- `TerminalLine`: the timer ticks; a flow inside the handler or terminal_read that
  has the processor again and again moves (`SF`). Users need not type.
- `Interrupts`: the timer and the RTC ask again; the processor takes an interrupt it is
  offered again and again (`SF`); handlers and the boot go on. `KeyDone` needs
  `SF`, because its flow has the processor only now and then. The keyboard owes nothing.
- `AddressSpaces` has the fairness of `Scheduling`.
- `Display`, `FileRead`, `Programs`, `OpenFiles` and `Library` have no liveness property and no fairness.

`hazards` switches deadlock detection off: in the windows the kernel may load a
context that does not exist (`cpu = NULL`), after which nothing happens. `file_read` and
`library` switch it off because their programs and calls end.

## 6. What is proved

All theorems hold for any number of terminals and any sizes, under the assumptions
named in the modules (`SchedulingAssumption`, `RtcAssumption`, `LineAssumption`,
`DisplayAssumption`, `FileAssumption`, `ProgramsAssumption`, `OpenFilesAssumption`,
`InterruptsAssumption`, `LibraryAssumption`): positive sizes,
`NumTerminals <= MaxProcesses`, a tab no longer than the line buffer or a row (4, 128 and 80 in the
code), a line that fits on the screen without its last row (128 and 24 rows of 80), a directory with
different names of legal length, and a shell in it; a buffer of grep of at least 2 bytes (1024), newline and '\0'
different, a pattern without either (it is one argument); formats that printf reads to their end and that have
their arguments. Texts, formats and argument lists are sequences, which the provers
have to be told. `WordSize` is any positive number: that it is a power of 2 is not needed. TLC evaluates each of them.

**Process manager** (`SchedulingProofs`). `TypeCorrect` holds in every window.
Outside the windows (`NoWindows`), `SchedInvariant` proves `SchedInv`, the inductive invariant, from
which `SchedulingIsSafe` follows. The safety properties are not inductive alone: that a tick
finds a context to resume needs to know who is suspended where, which during
the boot depends on how many ticks there have been. `BootInv` ties the boot
counters to the shells started; `FlowInv` says which flow can be in a window and that
a base shell is being restarted exactly in that one; `ContextsSaved` and
`ParentWaits` say what every stack is suspended in; `SlotInv` ties the count to the
table. `SlotsStayDense`, `TerminalsCanResume` and `ParentsCanResume` state
`PidsArePrefix`, `ContextsSaved` and `ParentWaits`. There is one lemma per action for the control part (`BootTickStep` ... `RestartBaseShellStep`),
and `SlotStep` for the count. `KernelExecuteSucceeds` shows that the kernel's own
sys_execute is never refused outside the windows.

**Refinement** (`SchedulingProofs`). `SchedulingRefinesStacks`: the initial state and
every step map to `TerminalStacks` under `depth` = number of identifiers of a
terminal, `turn` = `current_terminal`, `free` = what the counters leave. The
arithmetic on cardinalities is in `DepthType`, `DepthAfterTake`, `DepthAfterRelease`.
`HaltIsReturn` proves the action property `HaltReturnsToParent`.
`CountNeverExceeds` proves `CountIsBounded` in every window, from the weaker `CountInv`
that needs no knowledge of who runs.

**Page tables** (`SchedulingProofs`). `MemoryFollowsScheduling` proves that a run of
`AddressSpaces` is one of `Scheduling`, so that `SchedInv` may be used. `MemInv` says that the
translations in use are those of the tables, that the page at 128 MB is that of `user_page`, and that the
frame of every living program holds its image; the step that loads a program needs that
frames of different identifiers differ (`FramesDiffer`). `ProgramsKeepTheirImages`
follows (outside the windows). `OutputStaysOnTerminal` proves both halves of `OutputReachesTerminal`: the two
video entries have one frame, the screen or the backing page of the running terminal (`OnePage`), and of every step,
that it puts output on the running terminal's picture if it switches terminals, and keeps it there unless it swaps the
screen (`OutputStep`). That output *always* reaches the picture is not claimed: between a swap and the next tick it is false.

**Interrupts** (`InterruptsProofs`), in every window. A handler that has not acknowledged its line
has a debt (`Debt`), wherever it is suspended; `ServiceInv` says that the lines in service are
those of the debts and that no line has two. That is not inductive without the order of the frames
on a stack (`StackInv`), who is suspended in a switch (`FlowInv`) and how far the boot is
(`BootInv`). `IntInvariant` proves them together; `EveryLineHasItsHandler`,
`SwitchFindsItsFrame` and `BootIsInOrder` state the properties of the run.

**RTC** (`RtcProofs`). `TypeCorrect` (intervals stay in a word, negative
frequencies included) and `ReadsCountTheirOwn`, inductive with the types.

**Line discipline** (`TerminalLineProofs`). `LineInvariant` proves, in every window and for
any depth of nesting, that at most one handler is counting (IRQ1 is in service
until it is done, so no second one starts), that the room it found is still
there, and that a copy stays inside both buffers; `TypeCorrect` and
`NoOverflow` follow. The lemmas on frames say what pushing, replacing and
popping a handler does to the stacks of all flows.

Outside the windows `TypedInvariant` proves `TypedInv` on top of it: `FlagInv` keeps keys off the line of
a read that is awake; `PendingInv` says what the one handler that counts still owes to the line;
`LinesInv` is the buffer of a line that nobody owes anything to; `ReadsInv` says, place by place of
terminal_read, what has been delivered. `BufferKeepsTheLine` and `ReadsDeliverTheLine` state the two
properties of the run.

**Screen** (`DisplayProofs`). `ErasesStayOnScreen` assumes that nobody is in the windows "back" and "echo", which refute it; the
other four are open. `RoomInv` compares, as one number (row times columns plus column), the cursor with the
count of what the user may erase, and shows that a scroll takes at most the row that the cursor gives back. Since a character is
echoed before it is counted, the comparison has to include the debt of the key under way (`Owed`): what its handler will
still count on that terminal, and nothing on the others. `KeyInv` says that there is room for it and whose screen it echoes on.
`PicturesAreConsoles` (windows "stale", "tab", "back", "prompt" and "echo" excluded, each of which refutes it) rests on `Pictures`: every terminal's page, with its cursor, *shows* the
lines of its console. `Shows` says so cell by cell, and each way of drawing has its lemma: a glyph
drawn on the screen is a glyph added to the lines (`GlyphShows`), a scroll drops the first line (`ScrollShows`), an erasure
takes the last glyph back over a line's end, a tab is `TabSpaces` glyphs as long as it does not wrap
off the last row. Tabs are recursive functions: that they exist and what they preserve
is proved with a least counterexample (`LeastNatural`), since the library's induction cannot be used. `VidmapsArePictures`
(windows "stale" and "mapped" excluded) uses `VidmapInv`: 0xB8000 is the terminal's own page as
long as somebody has the screen mapped.

**File contents** (`FileReadProofs`). `FileInv` relates the four counters of
read_data to the position in the file (`Walk`) and what has been stored to the
bytes of the file; `StoresTheFile`, `DeliversInOrder`, `NeverRefused` and
`TypeCorrect` follow, for any block size and file. The division facts are in `DivMod`.

**Refinement of reads** (`FileReadProofs`). `ReadsAreSteps` states all of `ImplementsDescriptor`, since
`SequentialFile` has no fairness, and under every program of `Programs`: the rounds of the loop are invisible (`DescriptorStays`), a call
asks or finds the end (`ReadAsks`), the end of the loop takes exactly what was asked for or is left
(`ReturnsTakes`: with `Walk`, the loop ends at the first of the two), and loading a program moves nothing (`LoadLeaves`).

**Programs** (`FileReadProofs`). `FileInv` stays inductive under cat, grep and their next file
(`ProgramsReadFiles`). `CatInv` adds that what cat has shown is the text up to the offset of its last read
(`CatShowsTheFile`). For grep, `GrepHolds` says what the buffer is: from `line_start` on, the text from `LinePlace`
on; in front of a read, the beginning of one line; behind the last one, the end of the file. `GrepFound` says that
`LinePlace` starts a line, or is where one ends that was already searched, and that the output is what matches in front of
it. Filling the buffer and moving a cut line keep the place (`GrepFills`, `GrepKeeps`); searching a line prints it if and only if it
matches, and takes the place to the next start of a line, past none (`SearchFacts`, `GrepSearches`).
`GrepFindsLines` is `GrepPrintsMatches` for every text and every size of buffer and block. Its
hypothesis `NL \notin Garbage` is the exception of section 4: with a newline in the
byte behind the buffer the property is false. `IsSearchable` in the property, lines no longer than the buffer and no
'\0', is what grep itself relies on.

**Descriptors, names, commands** (`OpenFilesProofs`), outside the windows. `MatchIsEqual` proves that
the comparison of read_dentry_by_name, with its cases for names of full length, is equality of names;
`Lookup` that the search finds the one dentry of a name; `CommandParts` that a command is its name, a space
and its arguments. `OpenFilesInvariant` proves `OpenFilesInv`: `TableInv` (every descriptor),
`ProgramInv` (every program was found by its command's name), `LookupInv` (the shared
dentry is that of the one open that is half done). `OpensFindTheirFiles`, `DirectoriesAreListed`,
`CommandsRunTheirFiles` and `HaltsCloseTheirOwn` state the properties of the run.

**Library** (`LibraryProofs`). `MemoryInv` says how many bytes the registers say have been
moved (`Counters`) and that memory is the source in those and untouched elsewhere (`Contents`), for memmove from
whichever end it works; `MemoryRoutinesCopy` follows for every alignment, length and overlap the routine allows.
`PrintInv` is the loop of printf over the format (`FormatInv`: what has been printed is what the characters in front of
`buf` stand for, with `esp` at the argument the next one takes) and the number it works on (`NumberInv`:
the digits itoa has stored, least first, are those the rest of the value needs to become the value again; strrev has
exchanged those outside `beg .. end`). `PrintfPrintsFormats` says that every well-formed format is printed as
the reference reads it, the most negative number included. The number of digits is what the value needs:
no bound on the word is used.

**Only model-checked:** liveness (`EveryTerminalRuns`, `BaseShellRestarts`,
`EveryReadReturns`, `EnterEndsRead`, `KeyboardComesBack`, `NoStarvation`,
`RtcKeepsTicking`, and in `ImplementsStacks` the fairness of `TerminalStacks`), which is out of the
reach of the prover. Every invariant and every other action property of a passing run is stated by a theorem. The properties
of the two runs that expect a violation are false.

## 7. What is not modelled, and assumptions

- A tick that lands after the `sti` at the end of a section is modelled as one just
  after it: nothing happens in between. The same holds for the `sti` at the end of a handler.
- After a window has led to a state the kernel was not meant to be in (two users of
  one identifier), the models go on with the code's own bookkeeping, but not with
  memory that two flows overwrite.
- `Scheduling` and `OpenFiles` each have the part of sys_execute that concerns them: in the first
  whether a command names a program is open, in the second whether there is a free slot.
- The second lookup in sys_execute finds what the first found: the file system is read only.
- Names and arguments fit into the buffers of sys_execute (150 bytes each; the shell reads up to 1023).
- The directory has an unused entry (the image has far fewer than 63 files). With a full one
  read_dir would read the first inode as an entry.
- Descriptors are below FD_TABLE_SIZE; see "known divergences".
- No key arrives before i8259_init has masked the lines; an exception happens in
  programs.
- `History` in `TerminalLine` keeps no reference line in the windows: there the kernel
  and the user disagree about it by design of the run.
- In `Display` a scroll moves cells; that the memcpy behind it, whose source and destination overlap, moves bytes that way
  is what `Library` checks.
- Hardware cursor, attributes and colours, the text of Lebron AI: output and text only.
- strcpy and strncpy are the loops they read as; the word variants of memset, putc_for_files and
  test_interrupts have no caller. printf is given formats that do not end in `%` or `#`.
- Attribute bits of page entries, the GDT, multiboot: written once by straight-line code.
  Register saving in the linkage.
- Kernel tests: not called by the kernel that boots; read for what they expect. User programs
  other than cat and grep: the environment, which the models let do any system call in any
  order. Host tools and images: data. Signals: both calls return -1.

## 8. Plan

The order so far: the process manager and scheduler with its abstract specification and
proofs, since every other part runs under it; the interrupts that drive it; the
line discipline and the RTC, where handlers and programs share state; the screen; files,
descriptors and commands; the page tables under the scheduler; programs above the files; the library;
the proofs of all invariants that the passing runs check.

What is left:

1. Prove more: abstract specifications with a refinement that can be proved: `Display` as the
   implementation of a module of consoles (`Pictures` is the mapping), `TerminalLine` of a module of lines.
2. Prove that the windows are the only ones: weaken the hypotheses of `SchedInvariant`, window by window, to what survives it.
3. Model more: a module that composes `TerminalLine` and `Display` (echo and buffer
   change in the same handler: what is on the screen is what a read delivers); the shell as a program,
   above `TerminalLine` and `OpenFiles`.
