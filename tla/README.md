# A TLA+ verification of audio-analyzer

`audio-analyzer` is a command-line program in C. It takes files and directories,
maps every WAV file it finds, finds the samples in it, copies them from
interleaved frames into one plane per channel, and prints the level of the
loudest sample. One thread does all of it. The program is one translation unit:
`src/src/main.c` includes the other `.c` files and the headers in `src/src/base`.

What is hard in it is not concurrency but trust: a file's own fields steer
pointers, divisors and allocation sizes; every system call may fail and few
results are looked at; and the two builds differ, since a Debug build has
assertions where a Release build goes on. The modules follow these paths in both
builds (`ndebug` is a variable) and state what exactly holds of them, the known
exceptions named one by one.

## 1. Inventory

| Component | State it keeps | Operations | Talks to |
|---|---|---|---|
| `parse_file_info` (parse_file_info.c) | two pointers into the file, the record it returns | one scan for the `fmt ` chunk, one for the `data` chunk | reads the mapping of `load_file` |
| `prepare_data`, `unload_prepared_data` (prepare_data.c) | an anonymous mapping of samples | allocate, one loop per bit depth, unmap | reads the payload; writes what the level loop reads |
| level computation (main.c:138-180) | the maximum so far | two nested loops over the planes | reads the copy |
| `load_file`, `unload_file` (load_file.c) | a descriptor, a mapping | open, fstat, mmap, close; munmap | the operating system |
| `process_file` (main.c:106-190) | an arena of its own, the records of the stages, the totals | calls the stages above in order | called by `main` |
| `main` (main.c:192-275) | `arena_global`, `arena_temp`, the array `paths` | resolve arguments, examine paths, read directories | `process_file`, the file system |
| arena (base/arena.h) | start, capacity, position | make, alloc, clear, release, delete | mappings of base/memory.h |
| memory (base/memory.h) | none | thin wrappers of mmap, munmap, madvise | the operating system |
| array (base/array.h) | length and capacity in front of the elements | make, read the header | an arena |
| string (base/string.h) | start, length, capacity | copies, comparisons, slices, appending, tokenizing | an arena |
| sample conversions, decibels (prepare_data.c, main.c) | none | shifts, sign extension, `log10` | - |

The results of the stages are records with a `result` field (types.h), handed
from stage to stage by value.

What makes each part correct:

- **parse_file_info**: reads stay inside the file; the scan goes from chunk to
  chunk; it returns, or it is known where it stays or traps; a success names a
  payload inside the file.
- **prepare_data and the level**: each sample has its own place in the copy, the
  level reads each one once, from the member of the union it was written to,
  nothing is written outside the copy, and the whole copy is given back; the
  conversion of a sample loses nothing, and the level is that of the loudest.
- **load_file / process_file**: whatever fails, descriptors and mappings are
  released; a call reports only what was loaded and parsed; a good file never
  ends the process.
- **main**: each argument that can be examined is examined, and each file it comes
  upon is processed and counted; the arenas fill up with what they have to hold and
  nothing else; the run ends.
- **arena**: blocks lie inside the mapping, are aligned, are large enough, and
  do not overlap.
- **memory**: no mapping loses a page while it lives, and keeps none afterwards.
- **string**: a view ends inside the block it was cut from, a call writes to one
  block, a text arrives as it was, and a string is split into exactly its tokens.

Where the code falls short of this the property says by how much, and a reader
finds the exception in the property's text. The list of hazards in PROJECT.json
names the lines.

## 2. Modules

| Module | Models | Shape |
|---|---|---|
| `FileInfo` | types.h and the sizes of the WAV structures | constants only |
| `ParseContract` | what `parse_file_info` promises | two steps: it returns, or it traps |
| `ParseFileInfo` | the chunk scan | one action per loop iteration and per way out |
| `PrepareContract` | what becomes of a parsed file, as `process_file` sees it | three steps |
| `PrepareData` | allocation, deinterleaving, the level loops, unmapping | one action per loop iteration and per way out |
| `Level` | `PrepareData` with the values of samples: their conversions, the maximum, what is reported | the actions of `PrepareData`, two of them with values |
| `CallContract` | what a call of `process_file` promises | three steps |
| `ProcessFile` | `process_file`, `load_file`, `unload_file` | one action per system call or stage |
| `Main` | `main` | one action per statement that changes state, calls or branches |
| `Arena` | arena.h with `align_size` | one action per function |
| `BitTricks` | `is_power_of_two`, `align_size` as bit operations | operators only |
| `Memory` | the Linux mappings of memory.h, by page | one action per function |
| `Str` | string.h without `str_tokenize` | one action per function |
| `Split` | what `str_tokenize` promises to a caller that repeats it | two steps |
| `Tokenize` | `str_tokenize` | one action per case of the loop and per way out |
| `MC...` | instances for TLC | constants only |
| `...Proofs` | theorems and their proofs | - |

How they compose:

    Main ----uses----> CallContract <----implemented by---- ProcessFile
                                                              |      |
                               ParseContract <-----uses-------+      +---uses---> PrepareContract
                                     ^                                                  ^
                               implemented by                                     implemented by
                                     |                                                  |
                               ParseFileInfo                                       PrepareData

    Tokenize ----implements----> Split

Each contract is the abstract specification of one component; those of the upper
picture stand for it in the module of its caller. `ImplementsContract`,
`ImplementsCalls` and `ImplementsSplit` state the refinements, with the mapping
written at the INSTANCE; TLC checks the four, and TLAPS proves them.

The other modules look at one thing more closely than the modules they stand
beside, and `Level` is laid over `PrepareData`: it EXTENDS it, adds variables, and
each of its steps is a step of `PrepareData`, so what is proved of the copy holds
of it too (`LevelSteps`, `LevelCopyInv`). `Main` and `Str` see an arena as a position only, `Arena` has its blocks
and alignments, `BitTricks` the mask behind `AlignSize`. `ProcessFile` counts
mappings, `Memory` has their pages. In `PrepareData` a sample is a number, in
`Level` it has a value.

### State and actions against the code

- **ParseFileInfo.** `fmt_chunk_in_file` and `data_chunk_in_file` are the
  pointers, as offsets. The content of the file is unconstrained: when a pointer
  arrives somewhere new, the header found there is any member of `Chunks`.
  Pointers never move back (proved: `LoopsMoveForward`), so no header is chosen
  twice. `Advance` is the u32 sum of lines 63 and 104, `AfterFmt` the pointer sum
  of line 94, which does not wrap. `reach` records the furthest byte read.
  A file is mapped in whole pages of `PageSize` bytes, and `BytesBehind` is what of
  the last one lies behind the file. The GUID of an EXTENSIBLE fmt chunk is read up
  to 12 bytes behind the file (line 80): `GuidTraps` is that read where it leaves the
  last page. It may also go on, if another mapping follows there. `MayTrap` of
  `ParseContract` says of the size alone for which files this can happen, and
  `ProcessFile` lets a call stop in the scan of just these.
  `sample_rate` and `byterate` are only passed on and are left out.
- **PrepareData.** A sample is represented by its number in the file and the
  member it is written to, so the copy shows which sample is where.
  `Deinterleave` is one iteration of the loop of the file's depth: the five
  loops differ in sample size and member only. An access outside the mapping
  traps, or, where another mapping happens to follow, goes on. `Tails` is how far
  bytes can be read behind the payload.
- **ProcessFile.** Counts of descriptors, file mappings, arenas and copies stand
  for the resources. `denied` records that the environment refused something.
  `FileShrinks` is another process truncating the file while it is mapped.
- **Main.** `paths` is a function from argument to path or `Hole`; realpath,
  stat, opendir and readdir may do anything. `entries` counts directory entries.
  `files` is a history variable: how often main came upon a file whose name ends
  with v, as an argument or as an entry. Two arguments may name one file, and it is
  then come upon, and processed, twice.
- **Arena.** `blocks` records what was handed out since the last clear. Any power
  of two is an alignment, as the assertion of arena_alloc_aligned has it, those above
  a page included; the program itself uses 8 only. Of an empty block nothing is
  read, so the properties are about those with bytes (`Filled`).
- **Level.** `file` has the samples by their number, each the number its bytes
  make; the elements of `data` say which sample they hold, and `ValueOf` what the
  loop of the depth makes of it. `ConvertInt` goes the way of the loops through
  u32: sign extension, shift, back to i32. `MeasureSample` is `AnalyzeSample` with
  the maximum (`Current`, `MaxWith`: main.c:151-165), `ReportLevel` is `Report`
  with the cast to i32 of main.c:155, and `I32ToDb` keeps what fabs and the threshold do to a
  level and leaves out the logarithm, which is monotone. A float is an integer
  multiple of a small unit, or NaN.
- **Memory.** `owner` says which mapping a page of the address space belongs to,
  so what munmap frees beyond or short of a mapping shows. `SizeGiven` is the size
  each caller passes: the size of the file, the capacity of the arena, and of a
  copy the number of its samples (prepare_data.c:141).
- **Str.** A `str_t` is a view of the bytes of one arena; `block` is a history
  variable, the block a view was cut from. Slices and trimmed views share bytes
  with their sources. memmove reads all of its source first (`Moved`). As in the
  code, `str_append` leaves the length of the destination alone, and the string
  `str_from_append` returns has the length 0 of `str_from_size` although both texts
  are in its bytes. The assertions on the arguments of a slice are conditions
  on its inputs. C strings hold no NUL and lie outside the arena.
- **Tokenize.** Of a character only whether it is the separator is kept. The
  caller repeats the call with the same context until it returns false, as the
  comment at string.h:322 tells it to; `tokens` records what it got. `Split` says
  what that should be without a loop: the longest runs without a separator, from
  the left.
- **BitTricks.** `&` and `~` of the community module Bitwise, on a u64 of `Bits`
  bits. `MCArena` evaluates `TricksAreArithmetic`: on every value, the assertion
  passes the powers of two and nothing else, and the mask is the arithmetic that
  the other modules use, where the sum wraps too.

A definition named after another with a suffix (`AdvanceNoPad` for `Advance`) is
a mistaken form of it that a programmer might have written. No specification
uses one; each is there to show that a property tells it from the right form, and
PROJECT.json lists which. Where the two differ in one place only, both are
instances of a form with a parameter (`SkipToFmtUntil(room)`).

## 3. Assumptions

- The Linux branches of the conditional code. Division by zero ends the process,
  as it does on x86. A write to `MAP_FAILED` or NULL ends the process.
- `parse_file_info` of a file that was not loaded copies 12 bytes from a null
  pointer into a variable nothing reads. A compiler may drop the copy, so
  `ParseNothing` has both outcomes.
- A file's bytes do not change while it is mapped; it may become shorter.
- mmap maps an arena into the lower half of the addresses, where a process has
  its own: an aligned position then does not wrap (`ArenaMake`).
- Alignments are powers of two below 2^64, and a page is one too
  (`AlignmentsAssumption` says it as divisibility).
- Length of a path, mode of a file and order of directory entries are free.
- What `prepare_data` gets for a file that was not parsed has an empty payload
  (`InfosAssumption`): the contract of the scan says so, and `ScanRefinesContract`
  proves it.
- A f64 that no f32 can hold becomes infinite or 0, as IEC 60559 has it; C itself
  leaves the conversion undefined.
- **Fairness** is `WF_vars(Next)`: one thread runs from the first line to the
  last, so while it can take a step it takes one. Nothing else is assumed, and no
  choice of the environment is fair: a system call returns, but it may fail every
  time. `Tokenize` has a caller that repeats the call. `Arena`, `Memory` and `Str`
  are libraries without a thread of their own and have no fairness.
  Directories are finite (`MaxEntries`).
- `CHECK_DEADLOCK FALSE` throughout: each model is of a function that returns or
  of a process that exits.

## 4. Runs

| Run | Asks | Bounds, and why they are enough |
|---|---|---|
| `parse_file_info` | reads inside the file; even pointers; steps from chunk to chunk; returns, stays at a size that wraps to 0, or traps at a GUID behind the last page; implements `ParseContract` | pages of 16 bytes, so that the file of 128 bytes fills its last page, that of 131 ends 13 bytes before the end of one and that of 150 ends 10; a u32 of 512 values, so that 503, 504 and 511 are 2^32-9, 2^32-8 and 2^32-1; files of 128, 131 and 150 bytes are smaller than the largest chunk size, as in the code; chunk sizes end before, at and behind the end of each file |
| `prepare_data` | places of samples, bounds, coverage of the level, union members, unmapping, end; implements `PrepareContract` | every depth of the switch, 4 bits (less than a byte), 12 and 40 bits (not in the switch); up to 3 channels and none; payloads with and without whole samples and frames, empty, and longer than a page of 16 bytes |
| `process_file` | release of files, no silent skip, why the process stops, reports only of parsed files, calls end; implements `CallContract` | three calls, so that a file follows one that left something behind; sizes around the least, of which 128 fills its last page of 16 bytes and 212 leaves 12 bytes of it, just enough for the GUID; records of each shape that `prepare_data` treats differently |
| `main` | which paths are lost, when a Debug build aborts, what arena_temp holds, that each file come upon is counted once, when an arena is full, end | four arguments, so that two that fail stand before, between and behind two good ones; arenas that hold some of the paths and entries and not all; PATH_MAX is 9, so that one of the paths is as long as a path can be and the bound on what an arena must hold is met exactly |
| `arena` | bounds, overlap, size of blocks; `AlignSize` against the bit operations | four blocks of four alignments (8, a page, and two above it), pages of 16 bytes; arenas that start at a multiple of every alignment, and at one of no alignment above a page; a u64 of 256 values with sizes that wrap for every alignment, for some and for none |
| `tokenize` | implements `Split`; the calls come to an end | every string of up to seven characters: three tokens with separators in front, between, doubled and behind them |
| `str` | views stay in their block; one block is written per call; texts arrive whole where strings share bytes; trimmed views are tight; C strings read as the text | three strings in an arena of six bytes, so that it fills up; a letter, a blank and a NUL; every cut of a view |
| `level` | conversions are exact; the loudest sample is reported, NaN and extremes included | bytes of four values, so 256 stands for 2^32; of one byte every sample, of more the extremes and the neighbours of 0; up to three samples and an incomplete one in up to three channels, so that NaN stands before, between and behind, and some samples are lost |
| `memory` | live mappings are whole; what stays behind; only arenas may lose their bytes | six pages and three mappings, so that one is made where pages of another were left; copies of which all pages are given back, one of three, and two of five |

In each of these the type invariant is not checked on the instance:
it is a theorem, see below.

The further runs each check one statement of the code that does not hold:

| Run | Statement | What happens |
|---|---|---|
| `unchecked_stages` | parse_file_info.c:43, `assert(loaded_file->result == LOAD_FILE_SUCCESS)`, and prepare_data.c:13, `assert(parsed_file_info->result == PARSE_FILE_INFO_SUCCESS)` | a file below 128 bytes, or one that cannot be opened, gets to the first: a Debug build aborts, a Release build reads through NULL. A file without a `fmt ` or `data` chunk gets to the second: a Debug build aborts, a Release build divides by 0 channels at main.c:140 |
| `parsed_stops` | memory.h:41, `assert(alloc != MAP_FAILED)`, and prepare_data.c:117, `assert(false)` | a payload without a sample asks for 0 bytes, which mmap refuses; and a file of 12 bits gets to the default case, where a Release build reports the level of zeros |
| `failed_argument` | string.h:111, `assert(str_valid(str))` | `nonexistent good.wav`: the first element of `paths` was never written, and it is the one that is examined |

TLC stops at the first of the two ways each of the first two statements fails.

More observations are part of passing properties:

- prepare_data.c:141 passes a number of samples where bytes are expected, so
  copies larger than a page are only partly unmapped (`LeftBehind`, which says
  exactly which pages stay);
- the GUID of an EXTENSIBLE fmt chunk is read before it is known to lie in the
  file (parse_file_info.c:78-80). In a file that ends fewer than 12 bytes before the
  end of its last page this may end the process: a file of 4096 bytes with its fmt
  chunk at 4072 (`ScanEnds`, `StopExplained`);
- arena_alloc_aligned checks the room against the size alone, so a block of an
  alignment above a page may end behind the mapping, by less than the alignment, and
  its pointer has that alignment only if the arena has (`BlocksInArena`,
  `PointersAligned`);
- arena_alloc_aligned does not count the padding in front of a block, so a block
  of a looser alignment may start inside one of a stricter alignment before it
  (`OverlapsOnlyStricter`; the program uses one alignment only);
- the comments of the switch give 8, 16 and 24 bits as "int only" and 64 as
  "float only" (prepare_data.c:49, 58, 68, 106), and nothing rejects the other
  format: such a file is written to one member of the union and read from the
  other (`ReadAsWritten`);
- the shift of prepare_data.c:81 drops the bits that the sign extension of the
  24-bit loop sets, and 8-bit samples are taken as two's complement
  (`ScaledExactly`).

## 5. Proofs

The theorems hold for every value of the constants that the named assumptions
allow: all widths of u32 and u64, all file sizes, chunks, fmt contents, numbers
of calls, alignments and blocks.

**ParseFileInfoProofs.** `ReadsInFile` alone is not inductive: that a read stays
inside depends on where the pointer was left by the step before. `ScanInv` adds

- `FmtPointerFits`, `DataPointerFits`: a scanning pointer has room for what is
  read next (24 bytes, 8 bytes);
- `InFmtScan`: no fmt chunk has been read before the second scan, so the
  allowance for the GUID cannot be used early;
- `PayloadUntouched`: until the return the record is still the empty one but for
  the data type, which is what makes every rejection a rejection in the sense of
  the contract;
- `OutcomeInContract`: what was returned is allowed.

That the scan traps only where the contract lets it follows from the room for the
24 bytes of a fmt chunk: the GUID ends 12 bytes behind them, so it lies behind the
last page only if fewer than 12 bytes of that page are left (`TrapsAllowed`).

`AdvanceFacts` has the u32 arithmetic: a step is even (the width is), and it is
either the true distance to the next chunk or, if the sum wraps, at most 8. From
`ScanInv` follow `TypeCorrect`, `ReadsStayInFile`, `PointersWordAligned`, the
action property `LoopsMoveForward`, and the refinement `ScanRefinesContract`.

**ProcessFileProofs.** `CallInv` adds to the checked invariants what a call
holds at each point (`ArenasMatch`, `CopiesMatch`: one arena more than the
reported files left behind, while a call is on its way), why a file was not
loaded (`LoadFailures`) and what is known of the record before and after parsing
(`ParseKnown`). `StopsAreExplained` needs all of them: a stop in `prepare_data`
is explained by the record, and one at main.c:140 by a record that did not parse.
`ReportsAreParsed` and the refinement `CallsAreImplemented` follow from the same
invariant.

**ArenaProofs.** `ArenaInv` adds `WholePages` (capacity is a multiple of a page,
and the mapping ends in the lower half of the u64 range, so neither an aligned
position nor an aligned pointer wraps)
and `BlocksPlaced`: a block is aligned and it ends no later than the first place
a block of its own, or of a stricter, alignment could start. This is what
carries `OverlapsOnlyStricter` over further allocations: the position may be
below the end of a block, but aligned up to the alignment of the block it is not.
`BlocksStayInside` then compares the capacity with the aligned position: an
alignment of at most a page divides the capacity, so a position that has room has it
when aligned, too; of a stricter one the aligned position is still a multiple of a
page, and less than the alignment behind the last that has room.

**PrepareDataProofs.** The samples have a place each, and the proof is about a
loop that fills them in the order of the file and two loops that read them in the
order of the planes. `CopyInv` has what a mapping has room for (`Mapping`), how
far the copy is (`Copying`: `i` is a whole number of samples), what was returned
(`Returned`), and

- `Layout`: place t of the plane of channel c holds sample t * channels + c once
  the loop has passed it, and sample Frames * channels + c - 1 once it has passed
  that, if t is 0 and the file is that ragged. `PlaneHits` is the arithmetic: an
  index falls on a place for exactly these two samples;
- `Reading`: what has been read is the elements below
  channel * sample_count_channel + sample, so the planes lie one behind the other.

`PlanarLayout` follows from `Layout` when the loop is through, and
`LevelIsComplete` from `Reading` and `Layout`: `KeptHasPlace` gives each sample
that is not lost a place, and `Planes` reads every place. The refinement
`CopyImplementsContract` needs `WellFormedCopies` and `WellFormedReads`: in a
well formed file no access leaves the mapping.

The second half of the module is about `Level`, for every even number of values
of a byte, so for 256. It has the arithmetic once: `Sizes` (the values of k bytes,
times the shift of that depth, are those of a u32), `Wrapped` (an i32 gets back
any number it holds from a u32 that is equal modulo 2^32), from which
`Conversion` follows for all four depths, and `CastFacts` (the cast of main.c:155
loses the sign of 2^31, which fabs restores, and nothing else). `NarrowFacts`
shows that the conversion of f64 to f32 keeps the order of magnitudes, which is
what lets the maximum be taken behind it. `LevelInv` adds to `CopyInv`

- `FileOfInfo` and `CopyOfFile`: every element that was written, and every one
  that was read, is a sample of the file. An element is never read before it was
  written, which comes from `ReadAsWritten` and the depths of the switch;
- `LoudestSoFar`: the maximum is the largest magnitude of what has been read, of
  integers; and of floats it is what the f32 keeps of the largest number that has
  been read, NaN left out. `LoudestReported` and `NumbersReported` say it of the
  end only, and so are not inductive;
- `Told`: the level is that of the maximum.

`LevelCoversFile` of `CopyInv` then turns "what has been read" into "the samples
of the file that are not lost": `LoudestIsReported`, `NumbersAreReported`.

**MainProofs.** `RunInv` adds `Counting` (as many paths are found as are counted,
all in front of the argument that comes next), `Walk` (the loop has examined the
elements 1 to i - 1, holes included) and `Room` (what a position of an arena is at
most, by the paths it has had to hold). `EachFileIsCounted` needs nothing more: while a
call runs there is one file that is not counted yet. `TrapsAreForRoom` follows from
`Room` at the three places where a path takes something of an arena: the path that
is refused is one more. `PathsAreLost` is then a fact about two sets of one
size (`SameSizeDifference`): as many paths are behind the count as holes are in
front of it. `TempTracks` is the count of arena_temp: where a path is taken or
looked at, it is what the copies since `cleared` have taken. The sum `Taken`
is a recursive function; that one exists for any number of arguments is proved
(`SumsExist`) without induction, from the least n below which there is none
(`LeastNat`, from the well-foundedness of the naturals).

**TokenizeProofs.** The loop has no record of the tokens to come, so
`TokenizeInv` says what was returned as a set of runs: those up to `context`
(`ReturnedUpToContext`), where `context` is a separator or an end
(`ContextBetween`). `ScanKnown` names the three states of the loop: in front of a
token, inside it, and behind it with the separators seen so far. `TokenIsNextRun`
shows that what is returned is the first run that was not.

**StrProofs.** `StrInv` adds `BlocksBelow`: blocks end below the position of the
arena, so a new one is apart from all others. Every action keeps every view
inside its block and writes into one block (`ViewsStayInBlock`,
`OneBlockIsWritten`), from the capacities alone, so it holds of views of views of
any depth. `AppendsLandBehind` rests on the source being read before it is
written over, and so does `CopiesAreTheText`: `CopiedText` says what is in the
destination, `SameText` when str_eq holds of it. `TrimsAreTight` needs that the two
loops of str_trim stop at the first and last character that is not trimmed
(`TrimPlaces`, each the least number of characters to leave out there). `CstrIsText` compares
the text with the C string character by character up to the first NUL.

**MemoryProofs.** The three properties are inductive only together, with
`MadeOfPages`: an unmapping harms no other mapping because each live one has all
its own pages, and the size given is never larger than that of the mapping.
`CountOfPages` relates page numbers and bytes for every page size.

**The loops end.** `ScanEnds`, `Ends`, `MainEnds` and `TokensEnd` rest on fairness,
which the prover does not treat. What the code contributes to them is proved: a
natural number that every step makes smaller, whatever the constants
(`ScanCountsDown`, `StagesCountDown`, `PathsCountDown`, `TokensCountDown`). It is the
bytes behind the scanning pointer; the bytes left to copy and elements left to
read, with the stages; the arguments, paths and entries left; and, of
str_tokenize, the characters left to a scan and the most that further calls can
cost. The scan has the one exception `ScanEnds` names: `ZeroSteps` shows that a
step is of 0 bytes for the sizes 2^32 - 8 and 2^32 - 9 only, and the theorem that
such a step stays at its chunk. Fairness adds that the process takes the next
step while there is one.

Theorems `TypeCorrect` state the type invariant of each of these modules, and
`PointersAreAligned` that blocks have the alignment they were asked for.

Assumptions on constants are named in the modules (`U32Assumption`,
`AlignmentsAssumption`, ...) and evaluated by TLC in the runs.

## 6. What is only model-checked

- Liveness: `ScanEnds`, `Ends`, `CallsEnd`, `MainEnds`, `TokensEnd`. The prover has
  no rules for fairness and ENABLED; that the steps of all but `CallsEnd` count down
  is proved (section 5). That a step is possible until the end is left to TLC.
- `TricksAreArithmetic` of `MCArena`, which is about one width: Bitwise is written
  with RECURSIVE operators, which the prover does not take.

## 7. What is not modelled, and why

- The logarithm and the rounding of floats: no floating point in TLC.
- The conversions of decibels back to numbers: nothing in the program calls them.
- `str_write` and the wording of the output, and the totals that are printed last:
  output only.
- The capacity in the header of an array: nothing reads it.
- Windows and macOS branches; ASAN poisoning; the profiler macros; the vendored
  dirent.h.
- The bytes of the paths of directory entries, and the cut at PATH_MAX that
  snprintf makes (main.c:244).

## 8. Plan

Done, in the order of importance: `ParseFileInfo` (a file steers the pointers),
`PrepareData` (it steers the indices), `ProcessFile` (failures of every stage),
`Main` (arguments and arenas), `Arena`, then `Level`, `Str`, `Tokenize`, `Memory`
and `BitTricks`; the proofs of every property the runs check, but for those of
section 6.

Left:

1. `Main` with the lengths of the paths of entries and the PATH_MAX cut of
   snprintf, and the totals.
