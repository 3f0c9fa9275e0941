# A verification of boombox

boombox reads Xbox disc images (XDFS) and runs Xbox executables (XBE) on Linux
by converting them to ELF files and stepping through them with ptrace. It is
about 1700 lines of C++ under `src/src/cc`, without tests or documentation. This
directory holds TLA+ modules that model its core, configurations that check
them with TLC on small instances, and proofs that TLAPS checks for all
instances. Paths below are relative to `src/src/cc`.

## 1. Inventory

The programs are `extract_files`, `print_files`, `print_xbe`, `make_elf` and
`exec_xbe`. Each is one thread; `exec_xbe` forks. There are no locks and no
messages: components interact by calls and share one thing, the host file
descriptor inside `XdfsBackend`.

| component | state | operations | what is hard | what makes it correct |
|---|---|---|---|---|
| `io/file` (File) | `fd_` | Create, Open, Read, Write, Seek, Close, move, destructor | a File goes through an `ErrorOr` and into an `Xdfs`; `Close` keeps `fd_`, the destructor closes again; counts are the caller's business | each open descriptor has one File, which closes it |
| `io/xdfs/xdfs_backend` | the host file and its offset | ReadDirEntry, ReadSector | one offset for all open files and directories; short reads | every read is from where it was asked |
| `io/xdfs/xdfs_common` | none | SectorToOffset, IsDir, ReadDirEntryAtOffset | a 32-bit product; abort on a failed read | |
| `io/xdfs/xdfs_file` | `current_offset_`, `sector_offset_`, `current_sector_` | Read, Write, Seek, Close | a one-sector buffer with boundaries at sector and file ends; a read that fails half-way; a CHECK that aborts | a handle is a stream of its file; the CHECK holds |
| `io/xdfs/xdfs_dir` | `entries_read_`, `cached_entries_` | ReadEntries | a tree walk with an explicit stack over data from the disc; a cache | each entry once; the same answer again |
| `io/xdfs/xdfs` | `root_entry_`, the backend | CreateXdfs, OpenFile, OpenDir, move | splitting of paths; a search with case ignored and a match with case; pointers to the backend that are handed out | a path opens what it names; "not found" means absent; a handle reads its own image |
| `io/xdfs/extract_files` | the path vectors; the host's files | FindAllFilePaths, MakeDirs, CopyFiles | host calls that fail between any two steps; short writes; a second run | complete when it ends well; ends early only for a cause |
| `io/xdfs/print_files` | a path vector | the same search, then output | one vector for two purposes: a path is printed and looked up again | what is printed is the tree, a directory before what is in it, and no path twice |
| `exec/xbe/xbe_common`, `print_xbe` | none | headers, formatting | | |
| `exec/elf/elf`, `make_elf` | the ELF file | MakeElfFromXbe | offsets computed from different counts; reads past the end | no two parts of the ELF overlap; each is where its header says |
| `exec/elf/exec_xbe` | parent and child process | InitExec, WatchExec, ExecElf | two processes and a user; a child that dies at any time; stops for different reasons | one instruction per command; no wait hangs; no child is left behind |
| `utils/error` | Error, ErrorOr | PASS_ERROR, CHECK_ERROR, FAIL | an error either ends the call or the process | |

`PROJECT.json` lists the hazards, each at its line, with the properties that
would show it going wrong.

## 2. Plan

1. `XdfsFile`: the reader of files, with its abstract specification
   `FileStream` (done, proved).
2. `XdfsDisc`, `XdfsDir`, `Xdfs`: directory tables, their listing and the path
   lookup; abstract specification `DirListing` (done, proved).
3. `DiscSearch`, `ExtractFiles`, `PrintFiles`: the programs over these
   components, using what they were shown to do; the two parts of the volume
   descriptor (done, proved).
4. `ExecXbe`: the tracer and its child (done, proved).
5. `XbeToElf`: `MakeElfFromXbe`, with all it writes and where (done, proved).
6. `FileHandle`: ownership of descriptors over move, Close and destructor, with
   the host's reuse of numbers; and the backend pointers of an `Xdfs` that is
   moved (done, proved).

Every safety property that a run checks is now a theorem. What is left is out of
the prover's reach: liveness (section 5).

## 3. Modules

| module | models | abstract specification | checked by | proofs |
|---|---|---|---|---|
| `XdfsCommon` | `xdfs_common.h`: offsets, the directory bit | | with its users | |
| `XdfsFile` | `xdfs_file.cc`, `xdfs_backend.cc` | `FileStream` | `MCXdfsFile` | `XdfsFileProofs` |
| `XdfsDisc` | `xdfs_common.cc`; the tables of a disc | | with its users | `XdfsDiscProofs` |
| `XdfsDir` | `xdfs_dir.cc` | `DirListing` | `MCXdfsDir` | `XdfsDirProofs` |
| `Xdfs` | `xdfs.cc` | | `MCXdfs` | `XdfsProofs` |
| `DiscSearch` | `CreateXdfs`; the search of `extract_files.cc` and `print_files.cc` | | with its users | `DiscSearchProofs` |
| `ExtractFiles` | `extract_files.cc` | | `MCExtractFiles` | `DiscSearchProofs` |
| `PrintFiles` | `print_files.cc` | | `MCPrintFiles` | `DiscSearchProofs` |
| `FileHandle` | `file.h`, `file.cc`, `ErrorOr`, the moves of `xdfs.h` and `xdfs_backend.h` | | `FileHandle` | `FileHandleProofs` |
| `XbeToElf` | `elf.cc`, `make_elf.cc` | | `MCXbeToElf` | `XbeToElfProofs` |
| `ExecXbe` | `exec_xbe.cc` | | `ExecXbe` | `ExecXbeProofs` |

`MCDisc` has what the instances build their discs from, `MCSearch` the images of
both programs that search one.

### XdfsFile

The variables are the fields of the `XdfsFile` objects, one function per field,
the host's `cursor`, and the locals of the `Read` in progress (`reader`,
`max_to_read`, `buffer`). A step is one round of the loop of `Read`; a call
that has begun is not interleaved with others, since there is one thread.
`LoadFirstSector` and `CrossSector` are the two places that read a sector; each
has a twin in which the host call fails, with exactly the assignments that have
happened by then. `OtherBackendUse` is any directory read: it leaves the shared
cursor elsewhere. The byte at offset x of the image is x itself, so a byte that
is served from the wrong place is never right by accident; a byte that no read
has set is `Junk`. `returned` and `torn` are history: what each caller has got,
and the handles that lost a read between two sectors.

`FileStream` is what a caller relies on. It exempts handles in `torn`, because
after such a failure the buffer really is wrong (section 6), and files behind
the point where `SectorToOffset` wraps or behind the end of the image.

A caller's `buffer` keeps its length when `Read` fails; the bytes written to it
by then have no count and are not modelled.

### XdfsDisc, XdfsDir, Xdfs

A disc is a function from offsets to directory entries. `Subtree` is defined
without recursion, as what every set closed under child pointers contains, so
that the prover can use it. Names are records with the rank of the upper-cased
name and the spelling, which is all that the search and the match tell apart.

The code takes for granted that tables are search trees with distinct names and
that child pointers lead to entries; `XdfsDisc` states this as four named
assumptions. A table with a cycle keeps both `ReadEntries` and the lookup going
for ever. An empty directory has no table of its own, but the code does not
look at the size: it reads whatever is at the start sector. On a disc padded
with zeros this is an entry without a name and without children, and it is
listed as a file. The model keeps this: the entry is part of the disc.

Where names lead is defined once, in `XdfsDisc`: `Chains` are the chains of
entries, each in the directory before it, that a sequence of names leads along,
`DirsNamed` and `FilesNamed` what is at their end. `Xdfs` is checked against
these, and `DiscSearch` uses them.

`XdfsDir` has the stack walk: `ScanEntry` is a round of the loop of
`ReadEntriesImpl`, `ScanEnds` its return together with the assignments to the
cache, `ReadEntriesCached` a later call. `Xdfs` has the path as a sequence of
slashes and names; a step reads one directory entry. `Components` says which
names a path has without splitting it from left to right: by the places where
they end (`Ends`), numbered in order. `walked` and `trail` are history; no
property of an answer is stated with them.

### DiscSearch, PrintFiles, ExtractFiles

`DiscSearch` is what the two programs have in common. The process reads the two
parts of the volume descriptor (`start`, `part 2`), then searches the image:
`ListDir` takes the last directory off `dirs_to_search` and lists it,
`TakeEntry` is a round of the inner loop. Listing and lookup are used through
what the modules above show: a listing is a sequence of the table's entries
(`ListedAssumption`), a path opens the chain of entries it names (`Chains`). A
path is the components that `SplitPath` makes of it and whether a slash ends
it; `PathTo` says what the concatenation in the loop comes to, for an entry
without a name too. `SearchFails` ends the process where the host is called.

`PrintFiles` adds the vector that is printed (its definitions have `Print` in
their names where `ExtractFiles` has the same one, since the proofs take both
modules). `ExtractFiles` adds the two vectors and
what follows: the process goes through `mkdirs` and `copy` and ends `done` or
`aborted`. A file is read in order, as `XdfsFile` is shown to do. The host has
directories and files by name; `CanMake` and `CanCreate` are when mkdir and
creat succeed. `CopyFails` may end the process at every step that calls the
host, after creat too. `Rerun` starts the program again on what is there.

### FileHandle

A `Place` is wherever a `File` may be: a variable, the union of an `ErrorOr`, the
backend of an `Xdfs`. An action is a move constructor, a destructor, or a call;
callers may do them in any order that C++ allows. The host's `table` says which
file it has under which number, and gives out closed numbers again. `image` and
`opened` are history: which file a handle or a `File` came with. Two histories
bound what can be promised. `stale` has the numbers that `Close` closed and that
some `File` still has: until the last such `File` is gone, its number may be
somebody else's, and be closed under them. `loose` has the handles whose `Xdfs` was moved or
destroyed under them, or had no file to begin with. Only `exec_xbe.cc` calls `Close`, and none of the
programs moves an `Xdfs` after it has opened something.

### XbeToElf

The ELF file is a function from the offsets written so far to units; a unit
tells what structure it is part of, which one of these, and its place in it, so
that a structure that was overwritten or misplaced is never right by accident.
What the fields of the ELF structures hold is left out except the offsets and
counts that decide where something goes. An action is one call of `Write`, and
the `Seek` before it; `NamePart` lists the three writes for a name. A write may
be cut short (once in a conversion, `Amounts`) and nobody looks. `HostFails`
ends the conversion at any step.

The XBE is a member of `Xbes`: its section headers, the header read behind them
(the loop at line 295 reads one more than there are; zeros at the end of the
file), the offsets at which a zero-terminated string begins, and its size. A
name without an end reads behind the file, where `current_char` is never set:
`ReadName` and `ReadNameHangs` are the two things that can follow. Addresses of
names are taken modulo 2^32, also in the map's key 0xffffffff.

### ExecXbe

`parent` and `child` are where the two processes are, `image` which program the
child runs. What the kernel does is taken from the manual pages: a traced child
stops on every signal, a wait reports a stop or a death, ptrace wants a stopped
child, waitpid does not take `WEXITED`, and when the tracer dies the child is
let go with the signal that stopped it. `Killed` takes the child away at any
time.

## 4. Runs

| run | instance | what it shows |
|---|---|---|
| `xdfs_file` | sector of 3 bytes, image of 14, files of 7, 2 and 1 bytes, reads of 2 and 4, seeks to 0, 4, 9 | types, the CHECK, the inductive invariant, refinement of `FileStream`, every `Read` ends |
| `xdfs_dir` | four objects on three tables of up to five entries | invariant, refinement of `DirListing`, every scan ends and why |
| `xdfs_lookup` | nineteen paths on the same disc | an answer is what the components of the path name on the disc; not found is absent; how paths are split; the inductive invariant; every lookup ends and why |
| `print_files` | five images: a tree with two names for one directory and one nested in it, one without directories, one with an empty directory, two that are none | what is printed is the tree, parents first, no path twice but a directory's with a blank entry; early end only for a cause; the search ends |
| `extract` | the same images, files of 0 to 4 bytes; two runs | complete at the end; early end only for a cause; a second run changes no file where the first left directories; every run ends |
| `file_handle` | three places, one handle, two descriptors, three files opened | a descriptor has one owner; none leaks; a handle reads its own image |
| `xbe_to_elf` | six XBEs of up to three sections; pages of 8, buffers of 2, a count of headers modulo 4 | what the kernel needs is intact; name indices; one cause for the exception; every step gets on unless a name has no end, and the conversion ends if all names do |
| `exec_xbe` | six commands | the handshake of parent and child; no wait hangs; who may be left behind |
| `xdfs_file_offset`, `xdfs_file_buffer`, `exec_xbe_exec`, `exec_xbe_death` | as above | the divergences of section 6 |

Why the bounds are enough. In `xdfs_file` the long file crosses two sector
boundaries and ends inside a sector, the second ends with an image that ends in
the middle of a sector, the third lies where the product wraps; the reads end
before, at and behind boundaries, and the seeks go before, into and behind each
file. Handles do not share anything but the cursor, so a third handle adds
nothing to the interference of two. In the disc runs every shape of node occurs
(leaf, left child only, right child only, both), names that differ in case
only, a table reached by two objects, and the blank entry. The buffer of
`extract` holds two bytes: files of 0 to 4 bytes are the cases that the
copy loop tells apart, and those that fill the buffer exactly, once ("m") and
twice ("g"), need the extra read. The tables of the images are listed in more
than one order. In `file_handle` two descriptors are the fewest with which one can
be reused while the other is open; three places are a source, a target and a
bystander; with three files a number is given out twice and more. In `exec_xbe` the state between two commands does not depend on their
number. The six XBEs of `xbe_to_elf` are: two sections, one that begins inside
a page and one that the file cuts off; two sections of one name, with a segment
read behind the headers and no name where the inserted header wants it; no
section; a name just below the base address and one without an end; segments
that overlap each other and the tables; three sections, with which the count
of program headers wraps. Segments are of 0 to 8 units with a
buffer of 2, so the copy loop leaves remainders of 0, 1 and 2. The sizes 3, 2
and 3 of the ELF structures have the order of the real 52, 32 and 40 that
matters: a section header is larger than a program header. Counters are bounded by `MaxRuns`,
`MaxSteps` and `MaxOpens` in the guards of `Rerun`, `SingleStep` and `Open`.

Where a run checks an inductive invariant without `TypeOK`, it has `TypeOK` as
its first part.

Deadlock is not checked: the programs end, callers may stop calling, and an
aborted process does nothing.

Fairness. In `XdfsFile`, `XdfsDir`, `Xdfs`, `PrintFiles`, `ExtractFiles` and
`XbeToElf` a call, or a process, that has begun keeps running: there is one thread and nothing it could
wait for. The failing variants of host calls are not part of the fair actions,
so no property holds because the host has to fail, and nobody is obliged to
make a call or to start a run. In `ExecXbe` both processes are scheduled and an
instruction comes to its end (one that blocks in a system call would not); the
user need not type, and `Killed` need not happen.

## 5. Proofs

All theorems are of the form `Spec => []Inv`, `Spec => [][A]_vars` or
`Spec => AbstractSpec` and hold for every value of the constants that meets the named assumptions.

`XdfsFileProofs`. The CHECK and the stream property are not inductive. `IInv`
adds: the buffered sector is what the host has at `sector_offset_` (for handles
that are not torn); while bytes remain, the offset lies in the buffered sector
or just behind it; while bytes remain, the offset counts the bytes handed out;
the bytes handed out are the prefix of the file. That `Seek` never lands on an
offset that is still to be read is what makes the second part inductive: with
`std::min` in place of `std::max`, as one may well expect there, the CHECK
would fail after a seek back into an earlier sector, because `Read` compares
forwards only (this is the mutant of `CheckNeverFails`). Refinement follows:
only `ReadReturn` extends a stream and `CrossSectorFails` releases one, every
other step stutters.

`XdfsDiscProofs` has the facts about `Subtree`: it is closed, contains its
root, and is its root together with the subtrees of the children. And those
about names: a chain goes on to each entry of the table it ends in
(`NamedEntry`), its beginning is a chain (`ChainPrefix`), and names lead along
one chain at most (`OneChain`), since no two entries of a table have one name.

`XdfsDirProofs`. The invariant is that the table is the disjoint union of what
was scanned and of the subtrees that wait on the stack. With the tree
assumption every scanned entry splits its subtree into itself and two disjoint
parts. At the end the stack is empty and the scanned offsets are the table.
`ScanShrinks` follows from the same: what a round reads was on the stack, so it
was not read before.

`XdfsProofs`. The invariant of the search is that an entry with the wanted
name, if the table has one, is in the subtree of the node reached; the step
uses that names on the left are smaller and names on the right are not, with
case ignored, which is also right for names that differ in case only.
`SplitsPath`, and with it `SplitInv`, is inductive by one fact about
`Components`: those of a path are what std::getline takes off and those of what
it leaves (`ComponentsFirst`). The ends are numbered in one way only
(`OneNumbering`: where two numberings part, one has passed over an end), and
there always is one (`SomeNumbering`: a shortest path without one has a first
component, and the numbering of what is behind it goes on to one of the path).
Here `TokenAssumption` is needed, that two names are not next to each other. An
answer relates to the disc by the trail, which is the chain that the components
walked lead along (`TrailChain`); with `OneChain` there is no other
(`OpensRightEntry`), and where the search found no entry of the next name no
chain goes on (`SearchMissesNothing`). These are the facts that `DiscSearch`
uses of a lookup: a path that leads to a directory or a file opens it as that.
`LookupShrinks`: a component found is taken off the path, and a search that goes
down to a child leaves the node behind, since a table is a tree
(`ChildReachesLess`).

`XbeToElfProofs`. The invariant says that the headers are the inserted one and
those that were read, that the names before the position reached are in the
table of names, and that every name is indexed once the string table is
written. `ThrowHasCause` follows with one lemma about addresses: taking the base
off and putting it back is the identity modulo 2^32. For the types, the
remainder that is taken off an offset is not larger than the offset. That is
`IInv`. `WInv` adds what the file holds while no write has been cut short.
`NamesWritten`: the names that have an index stand there, in front of
`str_table_size`, and no two names share a key, since adding the base is
one-to-one modulo 2^32. `NameInv`: how much of the name at hand is written.
`ElfWritten`: the headers, the segments up to `segment_number`, and of that one
the first `amount_written` bytes are in place. No step writes over these: the
program headers are in front of the string table, which needs
`LayoutAssumption` (`sizeof(Elf32_Phdr)` = 32 <= `sizeof(Elf32_Shdr)` = 40),
because the string table is placed for one program header fewer than there are;
the null and the section headers are behind the program headers, and in front
of the segments if the segments are behind the string table by one program
header, which `Separate` asks for; and the segments are apart from each other.
That the section headers do run over the string table is why `NamesWritten`
ends with the phase `copy`. `Loadable` and `NamesIndexed` follow; that every
header is counted holds below `HalfModulus` only, where the remainder is the
number itself (`ModSmall`). `ConvertAdvances` follows from `IInv`: a name that
gets an index had none, and the copy loop stays within the segment (its sum is
one of `size_t`, of 64 bits, and does not wrap). A step into a name without an
end is exempt, `StaysInName`.

`ExecXbeProofs`. The invariant lists where the child can be for each place of
the parent, and relates commands and steps. The rest are its consequences.

`DiscSearchProofs`, for `ExtractFiles`. `AbortHasCause` says that no lookup, no mkdir and no creat
fails by itself, and its invariant says why. `OpenInv`: every path found opens,
because it is the path of a directory that opens with a name from that
directory's table (`PathOpens`), and what is left of the listing is from one
table. `ParentInv`: the parent of a path was found before it, so mkdir and creat
find it made. `NewInv`: no path is found twice, because a directory waits on
the stack once, nothing below it is found before it is taken off, and no two
entries of a table have one name; so mkdir finds nothing in the way. `RootInv`
and `HostInv` relate the host to the search: where there are files of an earlier
run but no directories, the image has no directories, so those files do not
stand in the way of a mkdir either. `CInv` adds what `DoneIsComplete` and
`RerunTouchesNoFile` rest on. `CompleteInv`: a directory that was found waits on
the stack, or each of its entries is found or in the rest of the listing.
`MadeInv`: the first directory made is one of the image's root, and every later
one adds to it; so a run that finds directories finds one that it has to make
itself, and since by `CompleteInv` no directory of the root is forgotten, it does
not get to `CopyFiles`. That is why files of an earlier run are not touched, and
why a run that copies has found none. `CopiedInv`: what is written of the file at hand
is the beginning of the entry's bytes, up to the offset; a file that was passed
has all of them, since the read that does not fill the buffer is the one that
reaches the size, and since a path opens one entry only (`OneOpens`: no two
entries of a table have one name, so names lead along one chain). The theorems
hold for every image whose tables are trees, any order of listing, and any sizes
of files and buffer.

`DiscSearchProofs`, for `PrintFiles`. The search is the same, and so are the
lemmas about what a path opens and what is left of a listing; what differs is
that one vector, `printed`, has the directories too, with the slash that a blank
entry adds. `PrintOpenInv`: what is printed opens, so the program ends early
only for a cause. `PrintParentInv`: the directory of a path stands before it.
`PrintNewInv`: a path that is printed twice is a directory with a blank entry,
by the argument for `NewInv`, since a blank entry is the only one whose path is
its directory's. `PrintCompleteInv`: each entry of a directory that was found is printed, or in
the rest of the listing, or the directory still waits. At the end nothing waits
(`PrintedIsTree`).

`FileHandleProofs`. `OwnsItsNumber` and `NothingLeaks` are inductive together: the
host gives out only a number that is free, and by `NothingLeaks` the destructor of a
`File` that is not stale closes the file it came with. That a stale number is
left to the last `File` that has it is what keeps `Destroy` from being the step
that breaks it. For handles the invariant adds that the `Xdfs` is still where it was, with
the file that the handle was made for.

Only model-checked: liveness. That reads end, scans end, lookups end, the programs
end and no wait hangs are properties under fairness, which the prover cannot
treat; the runs check each of them. For scans, lookups and the conversion the
part that does not need fairness is proved: `ScanShrinks`, `LookupShrinks` and
`ConvertAdvances` say that each step leaves less to do (but for names without an end), in an order without
infinite descent (subsets of a finite table, the length of the path, positions
up to a bound). What the runs add is that such a step is always possible until
the end, and that therefore the end comes.

## 6. What the checks found

- `xdfs_file.cc:41`: `Seek` moves to the larger of the offset asked for and the
  size. It cannot be used to go back, and leaves an offset behind the end of the
  file where the field is said to be "within file" (run `xdfs_file_offset`).
- `xdfs_file.cc:24`: `sector_offset_` is assigned before the read that may
  fail. If the caller tries again after the error, it is served bytes of the
  previous sector (run `xdfs_file_buffer`).
- `exec_xbe.cc:66`: the first wait is said to be for execve, but a traced child
  whose execve failed is stopped by the SIGABRT of its own `abort()` and taken
  for one that succeeded (run `exec_xbe_exec`).
- `exec_xbe.cc:119`: the wait for the child's death passes an option that
  waitpid refuses, so it never waits (run `exec_xbe_death`). Line 121 is dead.

`XbeToElf` shows what the odd counts in `elf.cc` come to. `section_header_num`
is increased (line 286), so one header too many is read (line 295), and another
is inserted (line 306). The ELF header counts the inserted header and the n
sections, which is right, and `Loadable` says that the kernel finds all it
needs. This goes up to 65534 sections: `MakeElfHeader` takes the count as a
`uint16_t` (line 32) of the `uint32_t` it is given (line 324), so that from
65535 sections on `e_phnum` is the count modulo 2^16 (`Ehdr`, `HalfModulus`).
The headers and segments are then still where they belong, but the kernel looks
for the first `e_phnum` only; `Countable` is what exempts this. But n+2 segments are written, so the section headers begin one program
header behind `e_shoff` (line 341), and the last of them overwrites the end of
the string table's own header and the beginning of the string table. Section
headers give the offset in the XBE (`sh_offset`, line 166), which is not always
where the segment was put. Nothing in the source promises a section table, so
this is a hazard and not a finding; the comments "Removed this." (lines 285,
305) stand above code that is there. Apart from segments that overlap, the
conversion works only if some section's name is at the address 69720 that
`MakeImageHeaderSectionHeader` fixes (`ThrowHasCause`); otherwise at() throws,
and nobody catches.

Two more consequences are part of passing properties: an image with an empty
directory is never extracted completely (`AbortHasCause` names the nameless
entry, `file_paths[next].slash`, as a cause; creat is then given a path that ends with a slash), and an
interrupted extraction cannot be taken up again (`RerunTouchesNoFile`). And what
`FileHandle` exempts is really so: `Close` (`file.cc:61`) keeps `fd_`, so a file
that is opened later under that number can be read through the closed `File` and
is closed by its destructor. No program here reaches that destructor, so it is
a hazard and not a finding.

## 7. Not modelled

`ReserveAndZeroElf` in `elf.cc` and `DumpMem` in `exec_xbe.cc` are called from
nowhere. XBEs whose image header is cut off, and offsets and counts of sections that
reach 2^32, are left out of `XbeToElf`; so are the numbers of the section table
in the ELF header (`e_shoff`, `e_shnum`, `e_shstrndx`), which nothing that is
said of the conversion depends on. `print_xbe`, the headers of `xbe_common`, the `ToString`
functions and all messages are output. Short reads of directory entries are left
out: the count is ignored and the structure is then partly uninitialized. A
volume descriptor that is read short is not told from a host that fails. An
entry without a name is taken to be a blank one, with attributes 0
(`NamelessAssumption`); a directory without a name would be searched for ever.
The text that the errors of `utils/error.h` collect is left out.
EOF on the input of `exec_xbe` counts as a command, as in the code; no property
says that the program should end there.
