# A verification of rpmctl

rpmctl keeps variables in a Berkeley DB store and expands `$(name)` and
`$(namespace::name)` placeholders in configuration files with them. This
directory holds TLA+ modules translated from its source, the TLC runs that check
them, and theorems about them that TLAPS proves. `PROJECT.json` lists the runs,
for every definition the source lines it models, the hazards the properties are
aimed at, what the runs found, and a mutant of the code for every property.

    tlc -config MCTemplateParser.cfg MCTemplateParser.tla
    tlapm TemplateParser_proofs.tla

## 1. The system

Paths are relative to `src/src/main/rpmctl/`.

| part | source | state | operations |
|---|---|---|---|
| parser | `parser.hh` | text buffer, open file | `run`: events `on_start`, `on_text`, `on_variable`, `on_qualified_variable`, then `on_eof` or `on_error` |
| template engine | `stemplate.cc` | one handler per file: its path and a temporary file | the events: write text, look variables up, flush and rename at the end, unlink on error |
| scoped files | `scoped_file.cc`, `scoped_fh.cc`, `scoped_tmpfh.cc`, `file_utils.cc` | a path, a stream | construct, open (again), move, unlink and close in the destructors |
| environment | `environment.hh` | a map of variables | `has`, `get`, `put`, two `list` |
| Berkeley DB environment | `bdb_environment.cc` | master database, secondary index by namespace, log, shared region | the same, and open with recovery, close |
| byte encoding | `machine.cc` | none | integers and strings to bytes and back |
| packages | `rpm.cc`, `rpm_read_sinks.cc` | header of the package, its path; a stream | `name`, `conffiles`, `read_file` into a sink, `set_perms` |
| router | `ui/router.cc` | table of commands | `route`: a first pass over the command line, dispatch |
| commands | `ui/{put,def,get,apply}_command.cc` | option values | `exec`: a second pass, validation, the work |
| main | `../rpmctl.cc` | | binds the commands; catches nothing |

**Interaction.** A process runs one command. `main` calls the router, the router
the command's `exec`, which creates a `bdb_environment` and uses it. `apply` runs
a parser with the template engine as its handler; the engine asks the
environment for each variable, writes to a temporary file and renames it over
the file that was read. With `-p` the packaged file is first copied to a
temporary file of `apply`'s own, expanded there, renamed over the configuration
file and given the package's owner and mode.

**Where it is hard.** Nothing is threaded; what is concurrent are processes
that share the store and the configuration file. (a) Every process opens the
store with `DB_RECOVER`, which throws away the region the others use and fences
them in the middle of their commands. (b) A put writes two databases; `def` reads
and then writes; `get` reads twice; `apply` reads once per placeholder. (c) Any
process can die between two calls, and every exception ends it without
destructors. (d) The parser sees a file in pieces cut anywhere. (e) The
command line is read twice, by different tables, with some arguments removed in
between. (f) Reading a file may fail at any call, and the code takes the answer
for an empty read, the end of the file or nothing at all. (g) A package is opened
once for its header and again for its contents, by its path. What makes each part
correct:

- parser: its events are those of the whole file, however it is read; nothing is
  lost; the handler is released exactly once, whatever fails.
- store: each command is atomic; index and master agree after any crash; `def`
  overwrites nothing; somebody always gets through.
- apply: the configuration file is always whole and expanded from one state of
  the store; success means that it was expanded, has its permissions, and that
  no temporary file is left.
- command line: the command does what the line says, or says why not, and the
  exit status tells which.
- scoped files: every stream and every temporary name has exactly one object that
  will close or unlink it, whatever is reopened and whatever throws.
- packages: a file is read whole and from one package unless the archive or the disk
  fails, descriptors are closed, a set-ID mode meets no other owner by the object's
  own doing.
- encoding: what is put is what is got and listed, under distinct keys, in
  buffers of the right size.

## 2. The modules

| module | models | abstract or detailed |
|---|---|---|
| `TemplateSyntax` | placeholder syntax, ICU string operations; `Tokens`, a reference reading of a whole template | pure |
| `TokenStream` | what the parser promises its handler | abstract |
| `TemplateParser` | `parser<T>::run` | implements `TokenStream` |
| `EnvironmentTypes` | variables and commands, shared by the next two | constants |
| `Environment` | what the environment promises: atomic commands on a map | abstract |
| `BdbEnvironment` | `bdb_environment` and put, def, get and apply's lookups on it, many processes | implements `Environment` |
| `ConfigFile` | what `apply` promises of a configuration file | abstract |
| `ApplyCommand` | `apply` with engine, files and package, several processes, other processes' commands | composes the promises of parser and store; implements `ConfigFile` |
| `ScopedFiles` | `scoped_fh`, `scoped_file`, `scoped_tmpfh`, `file_utils::move`, in any order of calls | |
| `RpmPackage` | `rpm` and `file_sink`, in any order of calls | |
| `CommandLine` | `route` and the `exec` methods' reading, validation and exit status | |
| `Machine`, `ByteStore` | the encoding, and the two databases as bytes | |
| `MC...` | the instances for TLC | |
| `..._proofs` | theorems about the module of that name (`BdbRefinement_proofs`: that the store implements `Environment`) | |

**TemplateParser.** `txt`, `unread` and `feof` are the buffer, the rest of the
file and `u_feof`; `pc` the place in `run`. One action is one pass through a
branch: `Read` (`__exread`), `ScanPlain` (no opener: all but the last character
is text), `ScanVariable`, `ScanUnclosed` (wait for more), `FinishText`, `Finish`.
`Raise` is a throwing call in the try block and `VariableRefused` one that
throws behind an accepted `on_text`; `Start` may refuse, before the try block.
`Read` returns any number of characters up to the buffer's size, and the end of
file shows with the last characters or after one more, empty read. `ReadNothing` is
a read that fails: ICU answers 0 characters, not the -1 `__exread` waits for, and
`u_feof` stays false. `reported` and
`spans` are history: which part of the file the events stand for. `events` holds
one token per character of text, as handlers only concatenate.

**BdbEnvironment.** One action per Berkeley DB call: `OpenEnv` (a new region,
rebuilt from the committed state: `DB_RECOVER`), `AttachDbs`, `Has`, `PutIndex`,
`PutMaster`, `Commit` (the auto-committed transaction of `Db::put` on an
associated database), `Probe` and `Fetch` (the two reads of `get`), `CursorNext`
and `CursorEnd`, `Close` (the destructor). `disk` is the committed state, `cache`
the region, `region` the process that made it. A process whose region was
replaced is fenced at its next call (`Fenced`, `DB_RUNRECOVERY`) and, since main
catches nothing, dies, the destructor's calls included. `Crash` is a kill, or a
failure of a call, anywhere. Berkeley DB is external: its behaviour is modelled
from the flags the code passes. Assumed of it: a call checks for the fence and
acts in one step; recoveries do not overlap; a transaction's writes reach the log
together.

**ApplyCommand.** A directory of names and inodes, so that rename, unlink by
name and reading a file that was replaced meanwhile are what they are. One action
per step of `exec` and of the handler's events, several processes with `-n` or
`-p`. Lookups answer from the store or raise `LookupFenced`, as `BdbEnvironment`
proves they do; other processes open the store (`OtherOpens`) and commit what they
put (`Put`) as long as they are not fenced themselves. A value may read as a
placeholder. Each process may have its own version of the package, and `perm` tells which
version declared the owner and which the mode an inode has. `chown` and `chmod` go by
name, so another apply can come between them, and `chown` takes set-ID bits away
(`cleared`); `by` is history: the processes whose `set_perms` came to the inode. The
package's header is assumed to list the configuration file. `ReadNothing` is the read
that fails, anywhere in the file, as in `TemplateParser`. `Raise` goes through
`on_error`; `Abort`, `CannotOpen` and `Kill` do not. `Faults` names failures the code does *not* notice ("archive", "write"):
with none the run shows what holds; with one the violation runs show what is
lost. `snapshot` and `installer` are history. `ConfigFile` is the promise: a begin,
a look, a replacement in one step by the expansion of what was seen, a success.

**ScopedFiles.** Objects that are constructed (with or without a stream, or as a
temporary file), opened again, moved away and destroyed; every `u_fopen` may fail,
and a constructor that throws has no destructor. `orphans` is history: the names
of temporary files whose constructor threw.

**RpmPackage.** One action per call into librpm, libarchive or the system. `hdr` is
the header in memory, `reading` the package the last `Fopen` found under the path,
`Replace` another process that puts another package there. `buffered` and `file`
split what the sink's `ofstream` holds back from what is on disk, where the parser
reads it; a stream that cannot be opened, a write that fails half way and a flush
that fails set `bad`, which nobody asks for, so `read_file` returns all the same.
`lost` is history: descriptors forgotten by an exception. `mode` and `owner` of a
file change one at a time, and `chown` takes set-ID bits away. `NewFile` and
`OtherChown` are other applies, which reach the file by its name at any time;
`overtaken` is history: the files they reached between this object's `chown` and `chmod`.

**CommandLine.** The router's pass (`RouteGlobal`, `RouteWord`, `RouteStops`),
the dispatch, and the command's pass over the line without `--help` and
`--version`, then the chain of checks of each `exec`. popt is external: an
option takes the next argument whatever it is, and reading stops at an error.
`WithoutGlobals` is the loop that copies the line for the command. The properties are
about the line as it was typed (`asked`) and read it by themselves: `IsOption` by the
number of options before an argument, `ValueOf` by the last place of an option.
`effect` is the work begun; how it is done is the business of the two modules
above.

**Machine, ByteStore.** `machine.cc` with bytes of `ByteBase` values and C++'s
signed conversions, two bytes to an `int16_t` and two of those to an `int32_t`,
as the code builds them; on top `put`, `get` and the listings on sets of byte
strings. What `get` takes for a defined variable is a stored value that does not fit
into a buffer of no bytes (`TooSmall`).

## 3. What TLC checks

Each property of a passing run has a mutant of the code that breaks it.

| run | instance | shows |
|---|---|---|
| `parser` | all 5,461 templates of up to 6 characters over `$ ( ) :`, reads of 1 or 2, any read failing | type invariant; `Lossless`; `NoPlaceholderLeaks`; `HandlerReleased`; `StreamSpec` (the events are the reference tokens); `EndsOnceReadable` |
| `store` | 2 processes, 3 variables in 2 namespaces, 2 values, 9 commands of all kinds | type invariant; `IndexMatchesMaster`; `LiveReadsCommitted`; `OnlyPutOverwrites`; `EnvironmentSpec` (atomicity); `EveryCommandEnds`; `LastOpenerSucceeds` |
| `apply` | 2 processes, each `-n` or `-p`, with two versions of the package, one of them set-ID, other processes' commands, 2 values (one of them a placeholder), a file `x text x` | type invariant; `TemporariesRemoved`; `PermissionsRestored`; `SuccessIsApplied`; `ConfigFileSpec`; `EveryApplyEnds` |
| `cli` | 5,543 lines: all of up to three phrases out of 17, and complete commands with one more phrase anywhere | type invariant; `DoesWhatWasAsked`; `HelpChangesNothing`; `StatusTellsEffect` |
| `bytes` | base 4, 6 variables, 2 values, all sequences of puts | type invariant; `BuffersFit`; `GetAnswersLastPut`; `ListingsAgree` |
| `package` | 2 versions of a package under one path, 2 files, 2 descriptors | type invariant; `DescriptorsHeld`; `WholeFile`; `SpecialOnlyForOwner`; `CallsEnd` |
| `scoped_files` | 3 objects, 4 streams, 3 temporary names | type invariant; `StreamsHeld`; `NamesOwned` |

**Why the bounds are enough.** The parser keeps nothing but a buffer between two
characters, and its markers have at most two characters: six allow a placeholder
with text on either side, one with a `::` and a neighbour, an opener in an opener,
an unclosed one; reads of one and two put a boundary at every place. Any alphabet
larger than the four special characters adds only characters that behave as a
`:` outside `::`. In the store a process meets at most one live owner of the
region; two processes give every pair of commands, one of them fenced or not. The file of `apply` needs a variable twice, to be mixed, and a text; two
processes, to overtake one another, and two versions whose owners and modes they mix. Three phrases cover every ordered pair of
options behind a command. Base 4 makes lengths of 2 and 3 reach the sign bit of
the lowest byte and of 8 the second byte. The two packages differ in all the object
looks at: contents, place in the archive, owner, set-ID, and a file only one of
them has; an entry of two blocks lets the first be written and the second not; of two
descriptors one can be lost and one used, and none be left.
`apply -p` has three scoped objects at a time; a fourth stream lets a reopened
object get a new one while three are held. `MaxLen`, the commands, the phrases and
the strings are the only bounds; no counter is capped in a guard.

**Fairness.** Weak fairness of the steps of a process that was started: nothing
the code calls waits for another process (no `DB_INIT_LOCK`, no file locks), so a
process that is scheduled goes on. Failures, failing reads among
them, kills, new commands and puts are never part of a fairness condition: no liveness
property relies on them. That
`__exfwrite`'s loop ends relies on `u_file_write` making progress, and
`EndsOnceReadable` and `EveryApplyEnds` assume in their statements no more than that
reads do not fail for ever; `parser_stuck` shows what happens otherwise. In
`RpmPackage` the weak fairness is that of what a call does when nothing fails
(`Progress`); that no call is made is always allowed.
`LastOpenerSucceeds` leaves out the processes that another one overtakes: endless
newcomers can keep fencing each other.

### Violations

Five runs state what a document says and find the code doing otherwise
(`findings` in `PROJECT.json`):

- `parser_stuck`: when the file cannot be read (a directory, an I/O error) `run` spins,
  and neither `on_eof` nor `on_error` is called.
- `apply_again`: after `apply -n` the placeholders are gone; the README's "do these
  steps again" changes nothing.
- `apply_archive`: an archive error ends `read_file` as the end of the file does, and
  a part of the file is installed.
- `apply_write`: write errors are not noticed, and a shortened file replaces a whole
  one.
- `cli_value`: `__without_globals` takes a `--help` out of the line also where it is the
  argument of an option: `put -n a -k a -v --help -v b` puts `-v`, not `b`.
  `DoesWhatWasAsked` leaves out the lines where a global is an option's argument, and
  holds of all others.

One more is visible in the model and has no run of its own: errors found by popt, and
unknown commands with options, exit 0, where `router.hh:107` says "0=success; failure
if something else". (So does an `apply` with both `-n` and `-p` that agree, without
doing or saying anything: `StatusTellsEffect` shows that it is the only command
that does.)

**What three properties leave to the environment.** `PermissionsRestored` allows the
owner and mode of another version when the other apply's `set_perms` reached the file
late, and a set-ID mode that such a `chown` took away: both happen (by name,
`rpm.cc:204`). `SpecialOnlyForOwner` leaves out a file that another process moves or
chowns there between the two calls, until the next `chown`. `WholeFile` leaves out a
stream that failed, since `read_file` returns then as well; `apply_write` shows what
`apply` makes of it.

## 4. What is proved

For every value of the constants, under the assumptions the modules name. These
only say that a placeholder value (`NULL`, `Undefined`, `NoProc`, ...) is none of
the real ones and give the constants their types; `MachineAssumption` adds that a
byte has an even number of values and that the conversion to UTF-8 tells strings
apart. What a theorem assumes beyond them is in the table.

| theorem | statement |
|---|---|
| `TypeCorrect`, `NothingLost`, `PlaceholdersFound`, `ReleasedOnce` | `TemplateParser`: `Spec => []TypeOK`, `[]Lossless`, `[]NoPlaceholderLeaks`, `[]HandlerReleased` |
| `ParserImplementsTokenStream` | `TemplateParser`: `Spec => StreamSpec` |
| `BdbTypeCorrect`, `IndexCorrect`, `ReadsCommitted` | `BdbSpec => []BdbTypeOK`, `[]IndexMatchesMaster`, `[]LiveReadsCommitted` |
| `DefNeverOverwrites` | `BdbSpec => OnlyPutOverwrites` |
| `StoreImplementsEnvironment` | `BdbSpec => EnvironmentSpec` |
| `ApplyTypeCorrect`, `ApplyLeavesNoFiles`, `ApplyRestoresPermissions` | `ApplyCommand`: `Spec => []TypeOK`, `[]TemporariesRemoved`, `[]PermissionsRestored` |
| `SuccessMeansApplied` | `Spec => []SuccessIsApplied`, if `Faults = {}` |
| `ApplyImplementsConfigFile` | `Spec => ConfigFileSpec`, if `Faults = {}` |
| `ScopedTypeCorrect`, `EveryStreamHeld`, `EveryNameOwned` | `ScopedFiles`: `Spec => []TypeOK`, `[]StreamsHeld`, `[]NamesOwned` |
| `PackageTypeCorrect`, `DescriptorsAreHeld`, `FileIsWhole`, `SetIdNeedsOwner` | `RpmPackage`: `Spec => []TypeOK`, `[]DescriptorsHeld`, `[]WholeFile`, `[]SpecialOnlyForOwner` |
| `BuffersAlwaysFit` | `ByteStore`: `Spec => []BuffersFit` |
| `StoreTypeCorrect`, `GetIsRight`, `ListingsAreRight` | `ByteStore`: `Spec => []TypeOK`, `[]GetAnswersLastPut`, `[]ListingsAgree`, if `Short`: every string's length fits its 32 bits |
| `CommandLineTypeCorrect`, `BegunAsAsked`, `StatusIsRight`, `HelpIsHarmless` | `CommandLine`: `Spec => []TypeOK`, `[]DoesWhatWasAsked`, `[]StatusTellsEffect`, `[]HelpChangesNothing` |

**Parser.** `IInv` joins the four properties with `HeldBack`: between two reads the
buffer holds at most one character, or the beginning of a placeholder without any
closer. `NoPlaceholderLeaks` alone is not inductive: at the end of the file the rest
of the buffer is reported as text, and only `HeldBack` says that no complete
placeholder is in it. The lemmas say what `IndexOf`, `Mid` and `Remove` return, so
that an opener in the file and a hit in the buffer are the same thing (`Window`).

**Parser, refinement.** `Rest(s)[i]` is what the reference makes of `s` from its `i`-th
character on (`RestExists`: there is such a function; `RestUnfolds`: one step of
it). `StreamInv` adds to `IInv` that the tokens of the whole file are those that
were delivered followed by `Rest` behind what was reported. A pass that reports a
piece in which no placeholder begins keeps it by `TextRun`; `ScanVariable` by
`PlaceholderDelivered`: the closer found in the buffer is the one the reference finds in
the file, and `BodyToken` says that both split the body at the same `::`. So the events
are always a beginning of `Tokens` (`StepDelivers`) and all of it at the end
(`NothingLeft`), and each pass is a `Deliver`, `Fail`, `Finish` or a stutter.

**Store.** `BdbIInv` adds to the type and the index: `RightCommand` (a process in
a put step runs a put or a def), `RegionContents` (what the region holds more
than the disk, exactly, at each step of a put by the process that owns it), and
`DefStillUndefined` (while a def that owns the region is between its look and
its commit, its variable is undefined on disk). The last is what fencing buys:
nobody else can have committed, since that takes opening the store, which would
have taken the region away. `DefNeverOverwrites` follows, as only `Commit` changes
the disk.

**Refinement.** `defs` is the master database on disk; a process has `performed`
once it is at its close. `AnswerSoFar` says that what a live process has been told
is what the committed state says now, of the lookups done or of a part of the
listing: so at its last lookup, or at its cursor's end, the whole answer is the
abstract `Reply`, and that step is the abstract `Perform`. Every other step of a
running command stutters; a fenced or crashed process `Die`s.

**Apply.** `ApplyIInv` joins `Places` (which inode each name stands for, at each step
of its process; the configuration file is the old one or the handler's file of
somebody who is past the replacement), `Reads` (who owns the store has the
variables of the time it opened it; what was written is the expansion of what was
read so far; with `-p` all comes from the package), `Permitted` (the file of the
process that installed last has an owner behind that process's `chown` and a mode
behind its `chmod`, for any other apply that moves a file there takes the role of the
last away) and `Installed`. For the permissions `Marks` says of every inode that its
owner and mode come from versions of processes that reached it, and that set-ID bits
are missing only where another process came as well: a process that comes twice to
one inode does so with `chown` first and `chmod` then. None of the properties is
inductive alone: that a process unlinks no other's file needs the places of all of
them, and that a file is not a mixture needs that a lookup is only answered to the
store's owner. `Faults = {}` is used at two steps, where the whole file is copied and
flushed. The refinement maps a process to "begun" until its file is opened, and its
one `Replace` or `Install` that moves a file over the configuration to the abstract
replacement.

**Scoped files and packages.** The invariants of `ScopedFiles` need one another:
`Destroy` unlinks no other object's file because names are held once. For
`WholeFile`, `Prefix` says that what the stream wrote and what it holds back are together
the blocks it was given, while it has not failed, and these the beginning of the entry the
reader is at, and `NoneBefore` that it is the first of that name; for
`SpecialOnlyForOwner`, `OwnerFirst` that between `chown` and `chmod` the declared
owner is set and no set-ID bit is left, unless another process came between.

**Bytes.** The lemmas `Int16ReadBack`, `Int32ReadBack` and `StringReadBack` say that
reading anywhere undoes writing there, by arithmetic of remainders and signed
halves for any even base; `KeyParsed` that a pair of strings is found again in its
key, so keys are distinct. `Kept` is the invariant: both databases hold one entry
for every variable that was put and nothing else. `BuffersAlwaysFit` needs no
bound on lengths.

**Command line.** `RouterReads` says that the router has seen every `--help` and
`--version` up to `next`, all of the front of the line when it stops. For what is begun,
`LineIInv`: the command was read as the first word of the line (`RouteInv`), and
while options are read (`OptionsInv`) an even number of options stands directly before
`next`, so the argument there is an option exactly when `IsOption` says so by
its position alone, and `opts` holds of each option the last value given before
`next`. The parity is what makes it inductive: without it a step could take
the value of an option, `-n -k` say, for an option. That is about the line without globals. `PlacingExists` says where each argument of the
line as it was typed goes when they are taken out, in order (`PlacesAscend`) and with
nothing added (`PlacesCover`). When no global is an option's argument, the options
before a place are an even number in both lines or in neither (`RunsAgree`): so the same
arguments are options, with the same arguments of their own (`OptionsAgree`), and the
last value of each is the same (`ValuesAgree`). That premise, `GlobalsStandAlone`, is
what `cli_value` shows to be needed.

**Induction.** The library's induction theorems take an operator and no installed
prover can instantiate them. Where a proof needs induction over the file (`RestExists`,
`TextRun`) or over the line (`PlacingExists`, `RunsAgree`) it goes through `SetInduction`, which says
the same of a set of numbers and follows from the least-number principle.

**Only model-checked.** Liveness under fairness (`EndsOnceReadable`,
`EveryCommandEnds`, `LastOpenerSucceeds`, `EveryApplyEnds`, `CallsEnd`), which is out of the prover's reach. Every invariant and every safety property of the
passing runs is stated by a theorem.

## 5. What is not modelled

- popt's help, the texts and layout of messages, ICU's conversion of characters (a
  table of byte sequences in `ByteStore`), librpm's and libarchive's insides and
  their initialisation in `main`.
- `name` and `conffiles`, which only look into the header; `memory_sink`, `nil_env` and
  `machine`'s `char*` variants, which nothing in the program calls; `remove_filename`,
  a function of a string; exception classes and pointer adapters, which have no
  state of their own.
- Crashes of the host: nothing is fsynced, so a model would restate that. After one
  the configuration file may be empty.
- Symbolic links: names in `ApplyCommand` are directory entries. When the
  configuration file is a link, `apply` replaces the link.
- Resources the process gives back when it ends: the descriptor `mkstemp` returns and
  `scoped_tmpfh` drops, and the buffer that grows after an unclosed `$(`.
- Strings of 2^31 bytes, whose length field overflows: no command line argument is as
  long, and `Short` excludes them from the proofs.
- `apply -n` leaves its file without the declared owner and mode. The model records
  it (`perm`); no document says what should happen.
- `set_perms` of a file the header does not list does nothing and returns as if it had.
  With `apply -p` this takes another package under the same path between header and
  contents; `RpmPackage` allows it, and no document forbids it.

## 6. Possible extensions

Done: all components that keep state, abstract specifications of the parser, the
store and the configuration file, and proofs of all safety properties. What is left:

1. `ApplyCommand` composed with `Environment` by INSTANCE, in place of its own
   `defs` and `region`: the abstract environment answers a process's lookups at one
   instant, `ApplyCommand` one by one, so the composition would need the detailed
   store, and its state space.
2. `ScopedFiles` and `RpmPackage` as the files of `ApplyCommand`, whose own files are
   those of one fixed order of calls.
