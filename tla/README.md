# Verification of drperf

TLA+ models of drperf (`../src`), their TLC runs and the TLAPS proofs about them.
drperf counts the instructions of marked regions with a DynamoRIO client and derives
cost formulas from the counts; its one promise is that the counts are exact, or that
the run says why they are not. The modules here are about that promise.

## Parts of the system

| part | state it keeps | operations | what makes it correct |
|---|---|---|---|
| marker path (`client/drperf.c`) | the thread list, `leader`, `shared_key`, `leader_lock`; per thread the open regions, `cur` (raw TLS) and `followed` | begin, end, thread init and exit, `update_shared`, `steer_follower` | a thread in a region counts into it, any other into the leader's innermost one; no thread counts through a null pointer; the leader is alive and not starved |
| frames, statistics, trace (`client/drperf.c`, read by `lib/derive.py`, `lib/runner.py`) | frames of each thread, `kstats_t`, trace records, the loss counters | begin, end, `perfmark_state`, `close_frame`, `trace_append`, thread exit; `nested_map`, `validity` | self counts are what ran innermost; nesting can be read from sequence numbers; what overflows or is cut is reported |
| keys and counter arrays (`client/drperf.c`) | `key_table`, `keys`, `region_keys`, `counter_bytes`; per thread `key_cache` and `fast` | `get_key`, `region_key_budget`, `slots_for` | one combination, one key; only `<other>` mixes combinations; budgets hold; what is not counted is reported |
| blocks, modules and symbols (`client/drperf.c`) | `slot_table`, `slot_pc`, `slot_mod`, `modules`, the counter arrays, `syms`, `slot_sym` | `event_module_load`, `event_analysis`, `event_insert`, `event_exit`, `write_key`, `sym_index_for_slot`, `topn_insert` | an address counts into its own slot unless overflow is reported; no count is lost; a function gets what its blocks ran |
| readers (`lib/derive.py`, `lib/runner.py`) | the files of a run | `load_blocks`, `blocks_of_set`, `per_state`, `nested_map`, `validity`, `exact_relations` | blocks of several processes meet, calls are placed at their state point or counted as left out |
| cost derivation (`lib/derive.py`) | the regimes of a region | `affine_fit`, `derive_regime`, `derive`, `regime_for` | affine counts give their exact cost; every other error is bounded by the tolerances |
| late attach (`perfmark/perfmark.c`) | `attach_state` | `perfmark_begin`, `perfmark_begin_v`, `late_attach` | one thread attaches, the starting call is seen once, lost begins are reported, every begin returns |
| Python binding (`perfmark.py`, `_perfmark.c`) | region objects, `_calibrate_pending` | `with`, decorators, `begin`, `end`, `state`, `capture_exit`, `calibrate` | every begin has its end, exceptions or not; the reader gets the states the block declared |
| region switch (`bin/perfmark-regions`) | source files | `turn_off`, `turn_on`, `main` | off then on restores the file |
| Rust binding, command line | none | begin/end around code, printing | - |

They interact so: the program (or a binding) calls the markers; late attach may start
DynamoRIO inside the first; from then on the client's wrappers run at the entry of every
marker. A begin asks the key table for a key, opens a frame, makes the key's array the
thread's counter pointer and, if the thread leads, steers the others; the code put into
every block adds to the thread's clock and, through the pointer, to a slot of that array.
At exit the client writes keys, slots, statistics and trace, which the Python code reads.

Hard to test are: the exchange that steers a thread that is in its own callback; updates
that some threads make under a lock and others without; threads that start or exit in the
middle; caches in front of a shared table with budgets; limits (stacks, slots, states,
trace, memory) each of which must be reported; attach raced by other threads; and files of
several processes put together. `PROJECT.json` lists these hazards at their lines, with
the properties that watch them.

## Modules

An operator whose name ends in `_bug` is a slip in the definition after it; no
specification uses one. They show that the properties notice.

**MarkerPath** (`begin_common`, `pre_end`, `event_thread_init`, `event_thread_exit`,
`set_thread_cur`, `steer_follower`, `update_shared`). The callbacks share `cur`,
`followed`, `leader` and `shared_key` without a common lock, so an action is one load or
store of those: `Begin`, `End`, `Exit` and `Register` are the entries of the four
callbacks, `SetCur` and `NoteFollowed` the two stores of `set_thread_cur`, `Fast*` the
branch of `update_shared` for a single thread, `Lock` to `Unlock` the other, with
`LoadExpected`, `Steer`, `Mark` for `steer_follower`. `pc[t]` is where the thread is,
`op[t]` the callback it is in. A key stands for its array. Abstracted: memory is
sequentially consistent (the delayed stores of x86 are not modelled); the order of the
thread list is arbitrary; the frames an end closes are popped in one step (`RegionStack`
has them one by one); `slots_for` always grants (`KeyTable` has refusals); `ReadTop`
takes the innermost key in one step, although it may be another thread's.
Three ways of missing the exchange exist, and the properties name them, in the history
variable `crossed`: `StaleStore` (the thread's store of an older `shared_key` is overtaken
by a walk), `SameKey` (its own region has the key the leader expected), `NotedFirst` (the
leader loads `followed` after the thread stored it for its own region). `raced` says that
a thread registered inside another's lock-free update. Everything else is excluded.

**MarkerPathInvariant** is the inductive invariant, **MarkerPathProofs** its proof.

**RegionStack** (`begin_common`, `pre_end`, `close_frame`, `trace_append`, `pre_state`,
`event_thread_exit`; `nested_map` as `Inside`, `validity` as `Reported`). A callback is
one step up to its sequence number and one more (`Close`) per frame it closes, as the
counters it draws from are shared. `Run` is an instruction of a thread. History
variables keep what the program did (`nest`, `ran`, and `own` and `above` in the frames).
Left out: system calls, timestamps, minima and maxima (they go the way of the sums).
**RegionStackProofs** holds its theorems and those of Relations, in three parts: the nesting, the
books (counts and sums), and the relations.

**Relations** (`write_trace`, `relation_lines`, `trace_regions`, `feature_rows`,
`dedupe_columns`, `exact_relations`) extends RegionStack with the reader that looks for
relations between states. `Walk` is the body of the loop of `feature_rows`, `Rows` the fold of
it over the records in the order of their begins; `FeatureAt` is what SPEC.md says a row has, in
sets; `Keep`, `Aliases` and `Exact` are the
columns that stay, the names they share and the search. Each region has one numeric state,
and the records are of one process. Only coefficients 1, -1, 2, -2 of different features are
sought, as in the code; a sum of copies of one feature (say four times it) can be lost,
which is why `RelationsExact` speaks of different ones.

**Ordering** has `InOrder`, the elements of a set in an order that is given as the elements before
each. It is how Relations and PythonBinding sort and select (`Fired`, `Ended`; `Picked`):
`SortSeq` and `SelectSeq` are recursive, which would keep the modules from being proved about.

**KeyTable** (`get_key`, `key_matches`, `remember_key`, `region_key_budget`, `slots_for`).
A lookup that hits a private cache is one step; one that takes `keys_lock` is cut before
it and before the request for the array, which is a step of its own and is cut between the
two tests of `slots_for`. `Steer` is the leader asking for another thread's array. The
string key is the combination itself or `<other>` of its region; hashes and cache cells are
constants, so that collisions are chosen. `Long` are regions whose name `RNAME_MAX` cuts.
Left out: two state names cut to one, and the assertion at `MAX_KEYS`.

**KeyMap** is what KeyTable promises the reader, without caches, hashes, lock or budgets: a
begin (`Ask`) counts its combination under its own name or its region's bucket, for good, and
no two keys have one name. KeyTable implements it (`ImplementsKeyMap`): `names` are what
the names of the keys say (`Denotes`), `map` is the name a combination got at its first
begin (`Answer`), `got` the key a thread got last. A step of KeyTable that caches, waits or
allocates maps to a stutter. **KeyTableProofs** proves this and the safety of KeyTable.

**LateAttach** (`perfmark_begin`, `perfmark_begin_v`, `late_attach`). An action is one
test or store of `attach_state`. `dr_app_setup_and_start` is external: it succeeds and
takes over all threads, or fails; a second call may do either. The client's side is the
stack of begins it saw. Region names do not matter to the protocol and are all one.
**LateAttachProofs** proves its safety.

**BlockCounts** (`event_module_load`, `module_index_for_pc`, `event_analysis`,
`event_insert`, `write_key`, `event_exit`; `load_blocks`, `blocks_of_set`, `per_state`).
A process maps files at places and runs their blocks; `Run` finds or assigns the slot when
the block is translated and adds to it. The slot table is under `slots_lock` and arrays are
summed over threads at exit, so one thread per process stands for all; processes share
nothing before their files are read, so they run one after another. `Unload` is external:
the client is not told of it. `VecOf`, `AtPoint`, `Left`, `Summed` are what the readers make of
the files. The exceptions the properties need are named: a process that maps one file, or
two files of one base name, at two places (`OnePlace`: their slots get one name and
`blocks_of_set` keeps the later); a place used again by another file, whose blocks keep the
first file's slots and module (`Stable`); instances still open at exit (`AllEnded`); a
region that declares different states under the same number of names (`OneNaming`:
`per_state` compares the numbers only). None of these is reported by the run. A file without
a name, or generated code, is known to the readers by its place, so that one block can have
several ids (`IdsOf`). **BlockCountsProofs** proves its safety.

**ExitReport** (`enum_cb`, `nearest_symbol`, `sym_index_for_slot`, `write_key`, `topn_insert`)
extends BlockCounts with the report of a key: `Described` is the symbol of a slot
(`Located` what the debug information says, `Nearest` the bisection of the sorted listing where it
says nothing), `Symbolize` gives each listed slot an entry of `syms` through the strings of `KeyOf`,
key by key (`AskAll`) and slot by slot (`Ask`), and `TopOf` inserts the sums. A start of 0 is "none"
in the code, so no symbol may start there (`DebugAssumption`; a file begins with its header). The process has one thread then, so these are
functions of the state `Exit` left, and no actions. **BlockCountsProofs** proves it too.

**PythonBinding** (`_split_state`, `region`, `calibrate`, `capture_exit`; `Region_init`,
`Region_enter`, `Region_exit`, `Region_state`, `mod_begin`; on the client's side `pre_begin`,
`pre_begin_v`, `pre_state`, `pre_end`; and `write_trace`'s state object with `key_state`). The
program is a stack of open blocks and a flag for an exception on its way: `With`, `Decorate`
and `Call` enter blocks, `Begin` opens one that no exception ends, `Leave` and `Unwind` end
them, `Attach` and `Capture` add states. `Client*` are the marker calls as functions of the
client's record; RegionStack has their numbers and counts. The extension's `__enter__` raises
after its begin call when a value does not fit in 64 bits, and such frames are `abandoned`.
Reading back is `Written` (a record's state object), `ReadBack` (what a reader of a JSON object with
a name twice keeps of it) and `KeyState`. A note can have any name, a keyword's too: `later` is
the history of what the program attached to a frame, and `Expected` the value that a reader gets for a
declared state, its own or that of the last note of its name.
**PythonBindingProofs** proves its safety.

**CostFormula** (`affine_fit`, `derive_regime`, `derive`, `regime_for`) derives the formula of a
region of one state. A run starts from some counts and has one step, `Derive`. Fits are exact
integers over a common denominator, where the code has floating point and its `1e-9`; which
of the splits wins (a mean of fractions) is left open, so the properties hold for any.
**CostFormulaProofs** proves them.

**SumLemmas** has the facts about sums over finite sets, folds and orders that the proofs share.

**RegionSwitch** (`turn_off`, `turn_on`, `main`) rewrites files of lines, each a level of
indentation and a kind: statements, headers of blocks and of regions, and the comments left by
`off`. The author writes a file that parses (`Write`, `Save`), and the tool turns its regions
off and on, a block at a time (`OffStep`, `OnStep`). Regions the tool refuses are blocks like
any other; multi-line strings and the import comments are left out.

## Runs

| run | instance | shows |
|---|---|---|
| `marker_pair` | two threads, one of them starting late; two keys; stacks of two | live leader, `shared_key` right between updates, own region and follower counted right, pointers steerable, a live leader kept, the leader never starved |
| `marker_own_region` | two threads, stacks of one | *violated:* `OwnRegionAlways` |
| `stack_one` | one thread, six calls, two regions, three keys, two frames, one state, three records, relations of up to two terms | nesting sums, statistics against the trace, the books of begins and ends, silent means exact, relations exact |
| `stack_pair` | two threads, four calls, three frames | nesting from numbers, self counts, features of every trigger |
| `stack_overflow` | one thread, two frames | *violated:* `OverflowReported` |
| `keys_pair` | two threads, colliding hashes, one key per region, one listed region, three arrays | one key per combination, budgets, exact bytes, counted or said, and KeyMap implemented |
| `attach_pair` | two threads of three begins, late and not, with and without DynamoRIO | the client's stack is a suffix of the program's, the starter is seen, losses are reported, begins return |
| `blocks_one` | one process, two files, two places, blocks at two offsets, three slots, two loads, four runs, lists of two symbols | own slot unless reported, totals kept, functions get what their blocks ran, the list is the largest |
| `blocks_pair` | two processes, two files, two places, a table of one module, three keys, three loads | blocks joined across processes, calls at their points |
| `python` | four statements, two regions, four lists of keywords, three notes (two under names of keywords), three frames, five attached states | a frame for each open block, the declared states read back, or the notes of their names |
| `formula` | four points with seven counts beside five shapes, six points with three counts, and too few | exact formulas, bounded errors |
| `region_switch` | files of four lines, two levels | *violated:* `RoundTrip` |

The bounds are small because the hazards are: a crossing needs a leader and one thread it
steers, and what three threads add is proved (below); a third frame is the first
that overflows a bound of two, and a fourth block one of three; a third record fills the trace and a fourth is dropped; one
end can close two frames with a stack of two and three with a stack of three; three
records of one region are the fewest rows the tool prints a relation for; two
combinations exhaust a budget of one; a file must be mapped, unmapped and another mapped in
its place for an address to be used again, and three loads let a second process map it
elsewhere. Two symbols of one module, one that debug information finds and one that it does
not, and generated code fill a list of two and drop its smallest. A keyword list of one value
that does not fit, and one of four with three integers, are the paths of `Region_enter`;
two blocks, an exception and a handler, or a capture in a block, are four statements; so are a
block of one keyword, two notes of its name and a capture, which fit in a frame; notes of the key
state and of the text of a block of four fit too, and its capture exceeds the frame. Six
points are the fewest that `derive` splits. Counters of calls, instructions, begins, loads and runs are bounded in guards
(`MaxCalls`, `MaxClock`, `MaxBegins`, `MaxLoads`, `MaxRuns`, `MaxLines`, `MaxLevel`), each marked so where it is declared.
Deadlock is checked in the passing runs; a program that has ended takes `Finished`, a stutter.
Symmetry is used in safety runs only: of threads and of combinations with the same hash
in KeyTable, of places in BlockCounts.

Fairness is weak, per thread, and only of the steps inside a callback (`Handler`): a
thread the system schedules finishes its callback. The program is not obliged to call a
marker, and `leader_lock` is not fair: `LeaderReturns` holds because
only the leader, a thread that would lead and an exiting leader ever wait for it.
`BeginReturns` assumes that `dr_app_setup_and_start` returns.

## Where code and documents differ

Shown by a run:

* `OwnRegionAlways`: `steer_follower` loads `followed` after its depth check, so a thread
  that opened its region in between loses its own array until its next marker; the comment
  above it (`client/drperf.c:331-334`) says the exchange fails then.
* `OverflowReported`: `validity` does not read `depth_overflows`.
* `RoundTrip`: a region that directly follows the header of another is not restored by `on`.
  Two more shapes break it, and in files the tool then accepts: a comment after the colon of
  a region's header (the search for the header's end goes on into the body, and statements
  are commented out), and a header of two lines in another region (`on` counts both as levels
  and indents what follows the region).

Seen while modelling, and part of the models:

* A thread that starts inside the leader's lock-free update follows the previous key
  (`README.md:185-187` promises exact counts under concurrency): `raced` in MarkerPath.
* A region beyond the 64 entries of `region_keys` has no budget (`README.md:188-189` says at
  most 128 combinations): `Entered` in `BudgetHonoured`.
* `attach_state` is tested and set without an exchange, so two threads can both attach
  (`perfmark/perfmark.c:15`): LateAttach lets them.
* A constant block enters the formula with its mean and can be off by twice the tolerance;
  SPEC.md's P2 has it once. `ErrorBounded` states the bound the code keeps. (Counts 106, 0, 21
  and 170 at 1 to 4 are a constant 74.25, off by 95.75, with a tolerance of 64.)
* `_calibrate_once` says that calibration runs at the first real region; on the C extension it
  runs when the first region object is made, which for a decorator is at import.
* A state that a program attaches (`region.state`, `state`; `perfmark.py:166-168`, `228-230`) under the
  name of a declared one is a second member of that name in the trigger's JSON object
  (`client/drperf.c:1271-1281`): it replaces the declared value, at its place, and
  `derive.key_state`, whose docstring speaks of the "declared (key) state values", reads it (a
  text as 0). No counter says so, and the files of keys keep the declared value.
  `StatesRead` says exactly this (`Expected`); H36 in PROJECT.json is this case.
* The docstring of `lib/derive.py` says that nested regions are added back; SPEC.md and the
  code say that a region's cost is its own.

## Proofs

`MarkerPathProofs`, for any number of threads, keys and frames: `Invariance` (`IInv`), and from it
`TypeCorrect`, `LeaderLive`, `NeverNull`, `SharedExact`, `OwnRegionExact`, `FollowersExact`,
`AlwaysSteerable`, `LeaderKept`. The safety properties are not inductive: they speak of threads
outside their callbacks, and a step depends on what the others have loaded. `IInv` says
where each thread can be (`LifeInv`), who may be leading and hold the lock (`LeaderInv`,
`LockInv`), when the pointer is set (`SetInv`), what a thread with a region has loaded and
stored at each point (`OwnInv`), how `followed` stands to `cur` and to the expected value of
a walk aimed at the thread (`MatchInv`), what `shared_key` is at each point of an update
(`SharedInv`) and which threads already follow it (`FollowInv`). It is proved action by
action, from `ThreadsAssumption`, `KeysAssumption` and `DepthAssumption`.

`RegionStackProofs`, for any number of threads, keys, frames, records, calls and
instructions: `Invariance`, and from it `TypeCorrect`, `SelfExact`, `NestingExact`,
`NumbersUnique`. `IInv` says that what a frame ran itself is the time up to now, or up to the
frame above it, less its start and what its closed children reported (`FrameInv`); that the
numbers of open frames grow with depth and are below the counter (`SeqInv`); that a record's
descendants are those its numbers enclose (`RecordInv`), also for the frames still open (`OpenInv`);
and that no two frames or records share a begin (`UniqueInv`). Assumed: `BoundsAssumption`, `RegionAssumption`.

`KeyTableProofs`, for any threads, combinations, hashes and budgets: `Invariance`, and from it
`TypeCorrect`, `OneKeyAlways`, `Refinement` (KeyTable implements KeyMap), `BudgetAlways`,
`BytesAlways`, `CountedAlways`. `IInv` says that the table and the names of the keys are inverse
to each other (`TableInv`, `KeysInv`), that `key_cache` agrees with the table where it has
anything (`CacheInv`; of `fast` nothing is needed, `key_matches` compares what it finds), and
that what was given for a combination is its own key, or a bucket of its region while the
combination has no key and can get none (`GivenInv`). The last part rests on
`StaysFolded`: neither memory nor a region's budget comes back, so a folded combination
stays folded. Without it `OneKey` fails at the next begin. The refinement then
maps the answer of a begin to an `Ask` (`GotIsAsk`) and the rest to stutters. The budgets
need two more invariants: a listed region's entry is the number of its own keys, and a region
without entry came when `region_keys` was full (`BudgetInv`); the arrays that are there
are finitely many and as many as `counter_bytes` says (`BytesInv`). Assumed:
`CombosAssumption`, `BudgetAssumption`.

The books of `RegionStack` have an invariant of their own, `BooksIInv`, on top of `IInv`:
`BooksInvariance`, and from it `StatisticsExact`, `InclusiveExact`, `BalanceAlways`,
`SilentRunsExact`. A thread's records are finitely many (`FiniteInv`, without which no sum
over them means anything); what a frame was charged for its children is what the closed
instances directly below it ran (`KidsInv`), which turns the subtraction of `close_frame`
into a sum over a subtree; until a state is lost an instance has the states it was given
(`StatesInv`); `BooksInv` is the balance of begins and ends in the middle of an end as well; and
`SilentInv` says that a thread whose ends matched is in step with its program: the same
regions open, and every instruction of a key in a record or in an open frame.

Relations has no steps of its own, so its theorems `FeaturesAlways` and `RelationsAlways` follow from
the invariants of RegionStack. Records are ordered by their numbers, which are all different
(`NumbersUnique`), so that both orders of the reader are total (`RecordOrders`, `FiredIs`,
`EndedIs`). The loop of `feature_rows` is a fold, and `KeptAt` its invariant: after k triggers the
sums are over the first k begins, the pointer has passed just the ends before the last of them,
and each row written is `FeatureAt` its trigger. The step (`KeptStep`) needs that the pointer never
passes an end too many: what ended before an earlier begin ended before this one, and ends are
sorted. Of the search, `ReadingHolds` says that a relation keeps holding when terms are read
as their aliases, since equal columns give equal sums (`RenamedIs`); and `KeptSum` that a relation
between different columns becomes one between kept ones, by replacing every column with the
first one equal to it (`KeptOne`; different columns stay different, `KeptApart`) and leaving out the
constant ones, which change nothing but the constant. A relation that is left without a term
would make the state constant, and such a state is not asked about. Assumed besides: `ValuesAssumption`, `TermsAssumption`, `KeysAssumption`, `ThreadsAssumption`.

`LateAttachProofs`, for any number of threads and begins: `Invariance`, and from it
`TypeCorrect`, `SuffixAlways`, `StarterAlways`, `LossesReported`. `IInv` says that begins are
numbered upwards in a program's stack (`NestInv`), that the client's stack is the end of it,
and empty before DynamoRIO runs (`SeenInv`), that only a late start attaches and that the first claim of
`attach_state` keeps later begins out, so that a thread found in `late_attach` began before
DynamoRIO ran (`AttachInv`), and that the begin that started it is the innermost one until it
is made again and in the client's stack from then on (`StarterInv`). Assumed: `BeginsAssumption`.

`BlockCountsProofs`, for any number of processes, and finite sets of files, places, offsets and
keys: `Invariance`, and from it `TypeCorrect`, `OwnSlotAlways`, `CallsPlaced`, `TotalsAlways`,
`BlocksAlways`. `IInv` ties the tables of a process to each other (`SlotInv`, `FragmentInv`,
`KeyInv`, `CountInv`, `ModuleInv`, `HomeInv`: which module a slot has, and why it has none) and
keeps three equations, for every set of keys: calls begun, executions, and, while nothing
overflowed and no place had two files, the executions of each block (`CallsInv`, `TotalInv`,
`BlockInv`). What the readers compute is then the same sum under other indices. The
attempt at `BlocksAlways` showed that a block without a module name has an id per place,
which `IdsOf` did not say at first. Assumed: `BoundsAssumption`, `FiniteAssumption`,
`NamesAssumption`, `KeysAssumption`.

The last part is about ExitReport, loop by loop: `SymbolsAlways`, `TopAlways`. A listing can
be sorted (`ArrangeOneMore`, `SortedIs`), and the bisection keeps the symbol sought between its
bounds while they close in (`HalveKeeps`), so that it finds the last that starts at the offset or
before it (`NearestIs`). The table keeps an entry per string, and a slot with an entry that of its
own string (`AskKeeps`); after the loops every listed slot has one (`SymbolizeIs`); and two
strings are equal when the functions are (`SymbolHome`), which fails for two symbols at offset 0.
The list holds the largest of the sums met so far (`InsertKeeps`). Assumed besides: `DebugAssumption`,
`TopAssumption`.

`CostFormulaProofs`, for any inputs and tolerances: `Invariance`, and from it `TypeCorrect`,
`FormulaAlways`, `ErrorAlways`. The points of a regime differ, so the denominator of the fit
(the spread of the points) is positive and there is a line; the fit of counts that are on a
line is that line (`LineSlope`, `LineFit`), so no tolerance makes a block constant or irregular
and no split is tried; and a block is off by at most its tolerance as a line and twice that
as a constant (`AffineOff`, `ConstantOff`), which add up over the blocks (`SumWithin`).
Assumed: `InputsAssumption`, `ToleranceAssumption`.

`PythonBindingProofs`, for any regions, keywords, notes and limits: `Invariance`, and from it
`TypeCorrect`, `BracketedAlways`. First it says what the calls make of the client's frames: a
marker, a calibration and a list of attached states keep them (`MarkerIs`, `CalibrateIs`,
`StatesAre`), entering a block puts one on top (`EnterIs`), unless a begin overflows. `IInv` then says
that frames and blocks are in the order of their calls, that each block has a frame, each
frame a block or is abandoned, and (`NotHidden`) that no abandoned frame lies above a live one of
its region. The last part is what makes the end of a block close the block's own frame
(`EndsOwn`), and what `mixed` is about. Assumed: `StatesAssumption`, `NamesAssumption`.

`StatesReadAlways` has an invariant of its own on top of it, `Good`: while no counter says that
anything was lost, every frame on the stack or in the trace that is not the binding's own was
given a list of keywords, and tells it (`Kept`) unless it was abandoned. A frame tells a list
when its key is the list's first integers, in order and with their values (`KeyAt`), and its other
states are the rest of the list and otherwise states `Foreign` to all keywords or notes: of each
name of the list the last value is the expected one (`Among`). That
`_split_state` makes such a key and such a rest is the invariant of its loop (`SplitStep`,
`SplitIsAt`); that the extension passes the key on whole needs that it has room for as many states as
the Python code takes (`PassedWhole`, `PassedAssumption`); `EnterAdds` follows the calls of
`Region_enter` one by one. Captured states are foreign (`NamesAssumption`: no keyword is called
`name@exit`, which is no identifier), so they can be appended at any time (`GoodState`); this needs
`Good` itself, because what is captured are the states of a frame. A note is appended to the
frame's states and to `later` at once, and changes what is expected under its name and no
other (`ExpectedNext`), so `Among` is kept (`AmongMore`, `GoodNote`). `ReadBackIs` then says that
the reader keeps the names of the key in front, and finds for every declared state the expected value.
Assumed besides: `PassedAssumption`. No more is assumed of names than that keywords are unique
and none ends in `@exit` after another's name.

`SumLemmas`: sums of the community modules (`SumFunctionOnSet`, which are folds, defined by a
`CHOOSE`) over finite sets: that the fold exists, what adding or changing an element does,
sums over images, unions and products; that a fold over a sequence exists and keeps what
each of its steps keeps (`Table`, `FoldRuns`); that `InOrder` arranges a set that is totally ordered
(`Orders`, `OrderIs`). The induction over finite sets it needs is made
from `WFMin` and the well-foundedness of the naturals.

Only model-checked: liveness (`LeaderReturns`, `BeginReturns`), which the prover does not
reach. Every invariant and every other property of the passing runs is proved, and so is the
refinement of KeyMap.

## Not modelled

The text of the files, minima and maxima, and the counts of system calls (they go the way of
the sums); option parsing and start-up (one sequential pass over the arguments); the command line and
the Rust guard (no state of their own); the ctypes fallback of the Python binding (the same calls in
the same order but for where it calibrates); formulas in several states and the
floating point of the fits (TLC has neither reals nor the least squares of a singular system);
the suppression of unused imports by the region switch (an external tool decides it); the
store delays of the hardware; DynamoRIO; tests and examples.

## Plan

Done, in this order: MarkerPath, RegionStack, KeyTable, LateAttach, BlockCounts, Relations,
the proofs of the first two, KeyMap, its refinement and the proofs of KeyTable, ExitReport, PythonBinding,
CostFormula, RegionSwitch; the proofs of the books of RegionStack, of LateAttach, BlockCounts,
ExitReport, CostFormula and PythonBinding; those of Relations, and of the states of PythonBinding.

Next:

1. Relations over several processes, each with its own sequence numbers: `feature_rows` sorts
   triggers by run but ends over all runs, and does not reset its sums between them.
2. `per_trigger`, `nested_calls` and `inclusive_vectors` on top of RegionStack's records.
