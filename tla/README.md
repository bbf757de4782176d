# TLA+ models of llm-guard

llm-guard is a C++20 service that masks sensitive values in LLM requests and
restores them in the responses. Its own code is header-only, under `src/`.
This directory holds TLA+ models of its core, TLC configurations for small
instances and TLAPS proofs. File names below are relative to `src/` of the
repository.

## 1. Inventory

| Component | State | Operations | What makes it correct |
|---|---|---|---|
| Masker (`guard/Masker.hpp`) | scan results; `MaskerState`: dedup map, counters per TYPE, reserved literals, replacements | `mask_texts`: Phase A scans texts in parallel, Phase B masks them in order | every text scanned; the lowest failing text is reported; placeholders are distinct and collide with nothing in the request; the result is invertible |
| Placeholder recognizer (`guard/PlaceholderRegex.hpp`) | none | builds a tolerant pattern for a TYPE and an upper bound on the length of a match | the bound is never too small |
| Demasker (`guard/demask/Demasker.hpp`) | `Config` (immutable), `pending_` | `demask_chunk`, flush, `DemaskError` | the output does not depend on how the response was cut; no byte lost or repeated; runes stay whole; the buffer is bounded |
| Connection pool (`database/Database.hpp`) | queue of connections, `active_connections_`, sleepers in `cv_` | `acquire`, lazy fill, `release`, `shutdown` | never over `pool_size`, no leaked slot, no lost wakeup, no use after free |
| Application lifecycle (`core/Core.hpp`, `main.cpp`) | one global per subsystem, metric sinks, timers, shutdown flags | boot, unwind, serve, drain, tear down | nothing outlives what it uses; a failed boot is unwound; the process stops |
| DatabaseManager and `utils/Retry.hpp` | pools, replica cursor | `execute_*` with retries, replica fallback | writes at most once per acknowledged outcome, bounded attempts |
| Migrations (`database/Migrations.hpp`) | `schema_migrations`, an advisory lock | apply pending files at boot | each migration applied once, replicas booting together serialize |
| Scanner (`guard/Scanner.hpp`) | none between calls | keyword filter, parallel scan of rules, `resolve_conflicts` | the same result serially and in parallel; sorted, disjoint matches; the filter costs no recall |
| Registry, Prefilter, Validators (`guard/*.hpp`) | compiled rules | `build`, `compile_rule`, `regex_guarantees_keyword`, `passes_validators` | only sound rules are built; a rule is skipped only when it cannot match; check digits are computed as their schemes say |
| JSON and extractors (`guard/json`, `guard/extract`) | none | find values as spans, extract the texts of three wire formats, splice new ones in | every scannable text is found once; nothing else of the body changes; only JSON is accepted |
| SSE framing (`guard/sse/Common.hpp`) | partial frame, tail tracker, recorder | split, classify, rebuild frames; `feed`, `record` | independent of how reads cut the stream |
| Cache (`cache/Cache.hpp`) | a global, keys in Redis | fail-open commands, `set_nx`, `incr`, `cached` | old values do not stay; an error is neither a lock nor a count |
| Tasks, Observability, Config, HTTP API, utilities | globals, timers | thin layers over libraries | mostly input and output |

How they interact. A request's texts are extracted, scanned against a pinned
registry snapshot and masked; `MaskingState` is all that survives until the
response, which the demasker restores chunk by chunk with the same snapshot. At
this commit the guard headers are used by tests only: no handler calls them, so
the models take the callers' part from the contracts in the headers. Handlers run
on Drogon's IO threads and borrow connections from the pool; Core owns the
lifetime of every subsystem; main, the shutdown monitor, the signal handler and
the IO threads share two atomic flags.

What is hard here: parallel scans that finish in any order, thread starts that
fail half way, a stream cut at any byte, a restoring pass that fails after the
buffer was cleared, one condition variable for two kinds of waiters, handshakes
outside a mutex, boots that fail in the middle, teardown while threads still run,
replicas that migrate one database and die half way, commits and cache commands
whose answer is lost, and byte spans of a raw document that must still fit when it is
patched. `PROJECT.json` lists each hazard at its line.

## 2. Modules

| Module | Models | Extends / composes |
|---|---|---|
| `Masker` | one `mask_texts` call | |
| `MaskerProofs` | theorems about `Masker` | `Masker` |
| `PlaceholderRegex` | the tolerant pattern, its language and its length bound | |
| `Demasker` | one response stream | constants from `PlaceholderRegex` in the MC module |
| `DemaskerProofs` | theorems about `Demasker` | `Demasker` |
| `RoundTrip` | one request: mask, echo, demask | instances of `Masker` and `Demasker` |
| `ConnectionPool` | the pool and its borrowers | |
| `ConnectionPoolProofs` | theorems about `ConnectionPool` | `ConnectionPool` |
| `CoreLifecycle` | boot, serve, drain, tear down | |
| `CoreLifecycleProofs` | theorems about `CoreLifecycle` | `CoreLifecycle` |
| `Migrations` | replicas that migrate one database | |
| `MigrationsProofs` | theorems about `Migrations` | `Migrations` |
| `DatabaseManager` | calls of `execute_*`, retries, replicas | |
| `DatabaseManagerProofs` | theorems about `DatabaseManager` | `DatabaseManager` |
| `Scanner` | one `scan_rules` call | |
| `ScannerProofs` | theorems about `Scanner` | `Scanner` |
| `Prefilter`, `Validators` | the proof that a regex needs a keyword; check digits | |
| `Registry` | compiling rules, choosing them by data type | `Prefilter`, `Validators` |
| `Json` | the strict scanner, lookup, string codec, splicer | |
| `ExtractTypes`, `ChatCompletions`, `Messages`, `Responses` | the extractors of the wire formats | `Json` |
| `Extract` | the dispatch over formats, `wants_stream` | instances of the three extractors |
| `Sse` | frames, tail tracker, recorder | |
| `Wire` | one exchange: extract, rewrite, splice, answer or stream | `Extract`, `Sse` |
| `Cache` | threads, a writer and Redis | |
| `CacheProofs` | theorems about `Cache` | `Cache` |
| `MC*` | small instances | the module of the same name (`MCScanner` also `Registry`) |

**Masker.** A text is a sequence of units; a unit is a character or a whole
literal `<TYPE_N>`, because all the masker ever asks of a literal is which one it
is. `scan_rules` is represented by its contract: each text of a request comes with
matches inside it that are sorted and disjoint (`InBounds`, `InOrder`; `ScannerContract`
assumes of `Masker` what `ScannedIsReturned` proves of `Scanner`), or with a failing
scan. Phase A has one step per scanned
text: `ScanSerial` for the serial path, `LaunchTask`, `ScanTask(w)` and
`LaunchFails` (std::async throws `std::system_error`) for the parallel one; the
caller moves on at `Scanned`, which is `f.get()` on every future, or `UnwindLaunch`,
which is the futures' destructors. Phase B has one step per match: `SkipMatch`,
`ReusePlaceholder`, or an iteration of `next_placeholder`'s loop (`SkipReserved`,
`MintPlaceholder`). The collision guard sees only TYPEs over `[A-Za-z0-9_]`
(`WordType`), as its regular expression does. `mask_text`'s check for a null rule is
left out: `scan_rules` never returns one. The `int` counter is not bounded: a
request would need 2^31 distinct values of one TYPE to overflow it.

**PlaceholderRegex.** A pattern is a sequence of pieces with the strings one copy
matches under `(?i)` and the width `BoundedLengthParser` charges for it. Letters have
their fold partners, so that a letter can match more bytes than it is written with
(s and k in the code). The parser is modelled on the constructs the template uses.
Matching is RE2's part: `Language` enumerates it.

**Demasker.** Text is bytes. `DemaskChunk`, `Flush` and `DemaskError` are the
outcomes of one `demask_chunk` call with any chunk length, including an empty
chunk; `apply_exact`, `scan_rule`, `resolve_conflicts`, `apply_placeholder_regex`,
`utf8_safe_prefix_end` follow the functions of the same names. `DemaskError` also
takes the caller's part of the contract: it emits the bytes the exception carries.
The flushing call that fails is `DemaskError` with the rest of the stream followed by
an empty `Flush`. `demask_json_arguments` is not modelled. `DemaskerAssumption` says
that responses, originals and placeholders are whole runes (`Utf8`), that a recognizer
takes whole runes only, and that a placeholder is at least as long as the widest rune
(it has its delimiters, a TYPE, `_` and an index); how many rules, streams, bytes or
replacements there are is left open. `Lossless` compares what was emitted and is held
back with what was received, `AsOnePiece` what the client has read in the end with what
`demask_chunk` makes of the response in one call, and `StreamRestored` (in
`MCDemasker`) with the text that was meant, which is known without the demasker.
`TableApart` and `FormsFit` say what the theorems about the first two need of a table and
of its recognizers. TLC evaluates both as assumptions: `MCTables`, that the tables of this
run have the first, and `MCForms` in `MCRoundTrip`, that the recognizers of that run, one
with a wide fold, have the second.

**RoundTrip.** `M == INSTANCE Masker`, `D == INSTANCE Demasker`; the only new action
is `Respond`, the upstream model that repeats one masked text.

**ConnectionPool.** What happens under `pool_mutex_` is one step. A thread in `cv_`
is "waiting" until `notify_one` picks it ("woken") or its `wait_for` expires; either
way it evaluates `can_proceed` again. `notify_one` may pick any sleeper, `shutdown()`
included. `shutdown()` may begin at any moment, as nothing in it checks who is where.
`loop_stopped` says that it came after the event loop had returned (which is what
`CoreLifecycle` shows of the program): then no thread is inside `acquire()` and no call
follows, but a connection may still be in use elsewhere. `Free` is
`primary_pool_.reset()`. After it nothing is modelled: a `release()` then would be
undefined behaviour, which is what `FreedOnlyWhenDrained` excludes for an orderly
shutdown.

**CoreLifecycle.** Each subsystem's global is "null", "allocated" (set, but its inner
`initialize` has thrown) or "ready". `BootThrows` covers every place a boot can throw:
before the global is set, inside, and after with the metric sink bound or not.
`Application::shutdown` is one step per subsystem. `StartMonitor` starts the monitor's
thread and `RunLoop` is `run()` with its event loop running; between the two the monitor
may already act on a signal that came during the boot. Drogon is external: `quit()` does
nothing to a loop that does not run, `run()` returns only when no handler runs, and may
also return without being told. Health checks and `reload_config` are not modelled.

**Migrations.** Each replica runs `MigrationRunner::initialize`; the database (the
table, what has taken effect, the advisory lock) is shared. `LookForTable` and
`CreateTable` are the two halves of `CREATE TABLE IF NOT EXISTS`, which runs before the
lock: the loser of that race fails its boot. A file is applied by `TakeLock`,
`Recheck`, and either `ApplyInTransaction` (SQL, row and lock end with one commit, whose
answer may be lost) or `RunStatement`, `Record`, `Unlock`. `StatementFails` is any
statement that throws; `ProcessDies` leaves the session, its lock and a statement that
was sent to the server, until `SessionEnds`. `effects` counts how often the SQL of a
version has taken effect, which the code cannot see. Versions within one replica are
distinct; two files with one number are not modelled (`PROJECT.json` lists the hazard).

**DatabaseManager.** One attempt of `execute_with_` is one step, with one of the error
classes the classifiers tell apart. An error around COMMIT may or may not have landed,
except the two PostgreSQL guarantees to have rolled back. `Retry` is another iteration
of `Retry::run`, `FallBack` the catch clause of `execute_read`, `Throw` the end.
Replicas replay the primary's commits one by one, late. The pool itself is
`ConnectionPool`. `runs` counts, for the primary and for a replica, how often the
caller's function was invoked: an attempt that could not borrow a connection
("unborrowed" in `Outcome`) is an attempt but no invocation.

**Scanner.** A rule comes with what its regex matches from each position, so RE2 is an
input. `Accepted` is the loop of `scan_one_rule` (leftmost match, empty matches), a
recursive function of the search position and the end of the previous match,
`sensitive_span` the choice of the capture group. Buckets are scanned rule by rule by
tasks in any order; `LaunchFails` is std::async throwing. The sweep of
`resolve_conflicts` has one step per match. The result is the contract that `Masker`
takes for its matches.

**Registry, Prefilter, Validators.** Pure functions. `build` compiles a list of rules up
to the first error, in the order of the checks. `Prefilter` is the recursive descent
parser over sequences of characters; a composite node carries its verdict in place of
its children, since `guarantees_keyword` asks nothing else of them. The alphabet has
U+212A and U+017F, the runes outside ASCII whose case folds are k and s.
`Validators` has every scheme with a check digit; email, entropy, ban list and addresses
are a parameter (which of them accept). `MCScanner` puts them under the scanner:
patterns are written together with the words they match, compiled by `build`, chosen by
`for_data_types` and scanned over a text they match, without a keyword where there is
such a text.

**Json.** A document is a sequence of characters; a literal, a word and the four digits
of a `\u` escape are one character each, everything with structure is its own. The
container walk of `skip_value` keeps the code's stack of states. `find_value`'s two
branches are `MembersFrom` and `ElementsFrom`, which `string_leaves` repeats in the code.
The work lists that replace native recursion there are recursive functions here.
The nesting limit of the machine's memory is not modelled.

**Extractors.** The walk of an extractor is written as a query: each step takes places
(values with their paths) to the places one step further, in document order. The three
modules follow the functions of the same names; helpers that every extractor repeats are
in `ExtractTypes`. Keys and types are single characters of the alphabet.

**Sse.** Bytes are the characters of `Json`, with `data:` and `[DONE]` in halves so that
a read can end inside them. `Wire` has the read loop, which prepends the tail of the last
read as the contract of `split_frames` demands.

**Wire.** `ExtractFields` and `Rewrite` treat a body, of the request and then of the
answer; `AnswerStream` and `Read` are taken when the request asked for a stream. What the
masker makes of a text is the constant `Substitute`. The handler is not in the
repository, so these actions are marked external.

**Cache.** One step per Redis command. A command that reaches Redis takes effect whether
or not the reply arrives; while Redis is away commands do nothing. `RedisReturns` may
come back empty. `holders` is what the callers of `set_nx` were told, which an outage
does not change: a lease ends with its TTL (`LockExpires`), or, when Redis has lost the
key (`lost`), for the caller alone (`LostLeaseEnds`). `Enter`, `Get`, `Load`, `Store`
are the steps of `cached()` between which other threads run; `Update` and `Invalidate`
are a writer that changes the source and then calls `del`. An entry written by another
release cannot be parsed (`OtherShape`).

## 3. Runs

| Run | Checks | Bounds |
|---|---|---|
| `masker` | six properties of one `mask_texts` call | all requests of up to 3 texts from a pool of 7, plus 5 texts on 4 tasks (ranges of two texts, a short last range and an empty one); `ParallelMinBytes` 5 so that both paths occur |
| `demasker` | four properties of one stream | fragments of canonical, drifted, truncated and foreign placeholders and multi-byte runes, 2 per stream, chunks of 0 to 4 bytes, one drift character, one-digit index |
| `roundtrip` | `EchoRestored` | requests of up to 2 texts, chunks of 0 to 3 bytes |
| `roundtrip_lookalike` | `EchoRestored`, violated | one request |
| `pool` | five properties of the pool | 4 threads, 2 connections, 2 calls each: two sleepers while both slots are out, `shutdown()` asleep beside them |
| `core` | four properties of the lifecycle | 2 IO threads, 2 boots in one process |
| `core_retry` | `FailedBootLeavesNothing`, violated | the same |
| `migrations` | four properties of concurrent boots | 2 replicas of two releases (versions 0, 1 and 0, 1, 2), one version outside a transaction, 3 faults: enough for a crash, a late statement of the dead session and a second failure during the repetition |
| `database` | three properties of calls and retries | 2 clients, 3 calls together, 0 to 2 replicas, policies of 0 to 2 attempts: a retry on each path |
| `scanner` | five properties of one `scan_rules` call | 3 rules over 4 runes: a rule with any one or two matches, one with any single match, one with groups, a validator, a keyword or a defect; 1, 2 and 3 tasks; thresholds of 4 runes and 2 rules so that both paths occur. 6840 patterns of up to three pieces with classes, escapes, flags, quantifiers and groups nested to the depth limit (2 here, 1000 in the code), 3 sets of keywords, matches of up to 3 runes. 9 numbers of each length and scheme, completed with the model's check digits, and issued ones that the model did not make, plain, in groups, and for Luhn and IBAN with every misread digit and every swap of neighbours |
| `wire` | five properties of an exchange | bodies of all three formats with strings, lists of two parts, nested inputs, wrong types, duplicate keys (also inside a tool input) and absent fields, each with and without white space; every document one character away from two valid ones; streams of one object cut into two or three events at every place, with both separators, read in pieces of every size |
| `cache` | three properties of the cache | 2 clients, 3 versions of the source, a counter up to 2: a client can load before an update and store after the invalidation while another one calls, and a second caller can get the key that Redis lost |

What the two violated runs show:

* `core_retry`: a boot that throws inside `Database::initialize`,
  `Migrations::initialize`, `Cache::initialize` or `Observability::initialize` leaves
  that global set. `Application::shutdown` skips it, because `is_initialized()` is
  false for it, and a second boot throws "already initialized". `Core.hpp` says the
  unwinding "leaves nothing dangling for a retry".
* `roundtrip_lookalike`: the collision guard reserves exact spellings while the
  tolerant pass accepts any case and separator, so a user's own `<e_1>` comes back as
  the value of `<E_1>`. `Masker.hpp` says this "can never" happen.

`roundtrip` itself passes because its users write canonical spellings only, which is
the case the guard is made for.

Fairness. `masker`: the calling thread and every task run until they end; nothing else
is assumed, in particular not that a thread can be started. `pool`: a thread that can
run runs, a borrower gives its connection back and a handshake ends; no timeout has to
expire, so `Served` and `ShutdownEnds` do not lean on one. It is weak fairness per
thread, which an operating system's scheduler gives; which sleeper `notify_one` wakes is
free. `ShutdownEnds` also rests on `MaxCalls`: threads that called `acquire()` for ever
could keep the wakeups from `shutdown()` until its five seconds are over. `core`: main,
monitor and handlers run, and `run()` returns after a `quit()` that found its loop; no
signal has to arrive. `migrations`: a replica's own steps, a restart of a replica that
is down (the orchestrator's part) and the end of a dead session are weakly fair, and a
waiter gets the lock in the end, since PostgreSQL queues the waiters (strong fairness of
`TakeLock`). Faults are bounded: `Converges` says what holds once they stop. `cache`:
time passes, so an entry with a TTL expires (`EntryExpires`); no client and no outage
has to end. The source changes at most `MaxVersion` times, which is what "once the
source no longer changes" means in `EventuallyFresh`.

Deadlock is checked in every run: a finished call, stream, pool or process has an
explicit stuttering step.

Each property has a mutant: a small change of a modelled definition, written next to
it and marked "A bug", under which TLC finds the property violated.

## 4. Proofs

All for every value of the constants, under the assumptions `MaskerAssumption`,
`ScannerContract`, `DemaskerAssumption`, `PoolAssumption`, `CoreAssumption`,
`MigrationsAssumption`, `ManagerAssumption`, `ScannerAssumption` and `CacheAssumption`.
TLC evaluates each of them in a run.

Masker:

* `TypeCorrect`: `Masker`'s `TypeOK`, with `CursorInText` (the cursor never passes the
  end of the text), without which a splice could not be typed.
* `MapInvertible`: `PlaceholdersInjective`, with `MintedAbsent` (no placeholder whose TYPE
  is made of word characters occurs in a text of the request, from `NeverReserved`; see
  section 6 for other TYPEs) and `ReplacementsAreTheMap`, which are proved and not
  checked by a run. They are not inductive by themselves: a candidate could
  equal an old placeholder. `CountersAhead` (every placeholder of a TYPE has an index no
  larger than the TYPE's counter) makes them so; `CandidateFresh` is the lemma that uses it.
* `ScanComplete`, `TasksJoined`, `FirstErrorReported`: `EveryTextScanned`,
  `NoTaskOutlivesScan` and `LowestErrorWins`, from `ScanInv`. `ScanProgress` says which
  texts a task has behind it; `ChunksCover` is the arithmetic of the ranges (rounding up
  covers every text, and the launch loop's `break` leaves none out).
* `SplicesExact`: `SplicedExactly`, from `WalkInv`. The output so far is the image of what
  the cursor has passed (`TextUnderway`), the texts behind it are whole images
  (`TextMasked`), every match behind the cursor has its placeholder (`Settled`, so that
  minting one for a later match changes no image: `ImageStable`), and the match the loop
  is at is ahead of the cursor (`CursorBetween`). `ImageOfGap` and `ImageOfMatch` are what
  a splice adds. A consequence met in `SkipWalks`: with matches that keep the scanner's
  contract, `mask_text`'s test `start < pos` never holds.

Demasker:

* `RunesKeptWhole`, `BufferBounded` and, from the two, `CutAtTheBound`: `RunesWhole`,
  `HoldBackBounded` and `HoldBackExact`, from `HInv`.
  `Reads(s, a, b)` says that `s`, read where a bytes of a rune are missing, ends where b
  are. The held bytes and the rest of the response read on from each other up to a
  boundary (`Continues`), and while no call has failed the held bytes start at one. Both
  passes are splices of slices that are whole runes (`Spliceable`), and a splice reads as
  the text it is made from (`SpliceReads`); that `apply_exact`, `scan_rule`,
  `resolve_conflicts` and the tolerant pass are such functions, defined for every text, is
  `ExactReads`, `ScanRule`, `Resolved` (no two matches that stay start together) and
  `TolerantReads`. `SafePrefix` is about `utf8_safe_prefix_end`: the end it returns is a
  boundary and less than one rune before the end it was given. It needs that the bytes
  behind that end are at least one rune: a rune that the chunk itself cuts off is then
  wholly behind it, which is why `max_pending` must not be shorter than a rune. After a
  `DemaskError` the held bytes may start inside a rune, and only the bound is claimed.
* `NothingLost`: `Lossless`, for every table with `TableApart`: every placeholder and
  every recognized form is a `<`, bytes that are no delimiters, and a `>`, and an original
  is not empty and, laid over any of them, differs from it where they meet. Without that
  it is false: an original that is spelt like a placeholder can be demasked again
  with the next chunk (section 6). Most of the argument is about texts, not about the code.
  `Rewrites(W, V, t, g)` says that in t a word of W is replaced by its value in V where it
  stands and any other byte is kept; a `Rewriter` does so with every text. A `Barrier` is
  a text that no word overlaps, unless it is that word, as delimited words and apart
  originals are: what surrounds it is rewritten apart (`RewriteAround`). What is written
  brings no word about (`TailIsRaw`, `RewriteClean`). Hence a piece may be rewritten ahead
  of the whole, by the exact pass alone (`FirstPassAhead`: what a `DemaskError` hands
  back) or by both (`PassesAhead`). `ExactIsPass` shows that `apply_exact` is such a pass
  over the literals, and `TolerantIsPass` that scanning with every rule, resolving the
  conflicts and splicing is one over the forms that have an entry, whichever rules take a
  form and whatever else they match. The invariant is `PassesInv`: what was emitted and is
  held back, followed by anything, reads as the received text followed by the same.
* `CutUnseen`: `AsOnePiece`, for the same tables when no recognizer takes more than its
  `placeholder_len` (`FormsFit`). From `WholeInv`: what follows the held-back text changes
  nothing in front of it (`Final`). `LetGo` is the lemma: two passes leave no word, so one
  that a later chunk completes starts less than its length before the end, and
  `max_pending` is at least that (`WordsFit`, `ChunkCut`). It takes both bounds of
  `make_config`; the mutant of `AsOnePiece` keeps only the literals'.

Scanner:

* `LoopComplete`: `FindingsComplete`. Every match of a rule is accepted by the loop or
  starts inside one that is, by induction over the positions the loop can be at, and no
  two accepted ones overlap (`AcceptedApart`).
* `NoFailureHidden`: `FailureSurfaces`, in both directions: a call that fails met a broken
  rule or a thread that could not be started, and one that returns launched every bucket
  and scanned every rule. From `FanInv`: each rule is still in some
  bucket's `todo` or what it detects is in some bucket's `found` (`Covered`), and a
  future is ready only when its bucket is empty.
* `ScannedIsReturned`: what the rules that were scanned detect, coalesced, is the result,
  in order and disjoint. From `SweepInv`: the run being swept is connected, no candidate
  left starts before it, and what has been emitted, all of it before the run, are the
  clusters of what was passed.
* `PromiseKept`: `ResultIsPromised`, from the two invariants, for a pre-filter that keeps
  its contract: a rule it leaves out detects nothing (`PrefilterContract`, a hypothesis of
  the theorem). Where rules are made by the registry that is `PrefilterSound`, which
  `scanner` checks.

Lifecycle:

* `NothingDangles`, `HandlersSafe`, `CleanSlate`: `DependenciesOutlive`,
  `HandlersSeeAllSubsystems` and `NothingLeftRunning`, from `LifeInv`: what a boot has
  come to is up and nothing else is (`BootUpTo`), what a teardown has passed is down
  (`UnwoundTo`), and handlers run only inside a complete boot (`ServesWhenReady`).

Database and cache:

* `PoolBounded`, `PoolWakes`, `PoolDrains`: from `PoolInv`. Its parts: `Counters`
  (`active_connections_` is the number of slots in use), `Wakeups` (while somebody
  sleeps, every slot that is not in use has a thread on its way to it, counted, which is
  stronger than `NoLostWakeup` and inductive where that is not) and `Drained`. The last
  two stop at `shutdown()` and start from `loop_stopped` (section 6).
* `AppliedOnce`, `UpMeansMigrated`, `RunsInOrder`: from `MigrationsProofs!IndInv`. It
  adds to the properties that a replica past `TakeLock` holds the lock (`LockHeld`), that
  the re-check stays true while it does (`RecheckHolds`), that what the loop has passed is
  recorded (`WalkedIsApplied`), and the count of repetitions: a statement that runs on in
  a dead session has its fault counted already (`OrphansCounted`, `RepeatsCounted`).
* `WritesOnce`, `PrimaryReadsFresh`: from `CallInv`, which says of every call that a
  write still being tried has not landed (it was retried only on a confirmed rollback)
  and that nobody was told of a commit the primary does not have.
* `AttemptsAreBounded`: from `RunsBounded`, on top of `CallInv`: on the server a call is
  at, its function ran at most once per attempt of `Retry::run` so far; on the other one,
  at most as often as a whole `Retry::run` tries, and not at all on the primary while the
  call is still on a replica.
* `LeaseExclusive`, `CountsKept`: from `CacheInv`, the two properties themselves with the
  types of the counters; the point of the proofs is that a reply is seen only for a
  command that was carried out. Both say what holds until Redis loses its data: a lease
  whose key is lost is excepted, and the count starts again with the counter.

Induction. The library's induction theorems take a predicate, which the provers cannot
instantiate. `ScannerProofs`, `MaskerProofs` and `DemaskerProofs` therefore prove, from
the well-foundedness of the naturals, an induction lemma whose property is a set
(`RankInduction`) and the existence of a function defined by recursion to lower ranks
(`RecursiveFunction`); what `Accepted`, `filter_by_keywords`, `FlattenSeq` and the
demasker's passes compute is proved with these.

Only model-checked: liveness (`Terminates`, `Served`, `ShutdownEnds`, `ProcessStops`,
`Converges`, `EventuallyFresh`), which the prover does not do; `StreamRestored`, since
it is about the fragments of one run, and what lies beneath it, that the pattern built
from a rule's name takes the drifted spellings and none longer than `regex_max_len`, is
an induction over the pattern (`MCForms` evaluates `FormsFit` for the rules of `roundtrip`);
`EchoRestored`, which needs a proof that demasking undoes a splice of every text,
between the units of `Masker` and the bytes of `Demasker`; `PrefilterSound`,
`CheckDigitsDecide` and the properties of `wire`, which are about RECURSIVE operators,
out of reach of the prover's SMT backend.

## 5. Plan

1. Done: `Masker`, `PlaceholderRegex`, `Demasker`, `RoundTrip`, `ConnectionPool`,
   `CoreLifecycle`, `Migrations`, `DatabaseManager`, `Scanner`, with the proofs above;
   `Registry`, `Prefilter` and `Validators` under the scanner; `Json`, the extractors and
   `Sse` in one exchange (`Wire`); `Cache`.
2. `EchoRestored` as a theorem, from `SplicesExact`, `MapInvertible` and `CutUnseen`, for
   requests whose values are apart from the placeholders minted for them.
3. `Scanner` composed with `Masker` in place of the contract.
4. `Migrations` with the file as the unit, so that two files can share a number, checked
   against `docs/CONVENTIONS.md`.
5. `demask_json_arguments`, on top of `Json` and `Demasker`.

## 6. Observations

Met while modelling, outside the runs:

* The monitor's thread is started (`main.cpp:201`) before `run()`. With a signal during
  the boot and a `pre_stop_delay_sec` of 0 (5 by default, not checked) it may call
  `quit()` before the loop runs, which is lost. `main.cpp:215` says that `run()` "Blocks
  until quit() is called"; here it was called, and `run()` blocks on. TLC finds
  `monitor = "done" ~> server = "returned"` violated; `ProcessStops` shows that this is
  the only way in which a signal does not end the process.
* On each of its two paths `execute_read` retries, so the caller's function is invoked up
  to `max_attempts` times on a replica and again on the primary. `Database.hpp:574` says
  it "is invoked at most once per path". TLC finds `runs[s] <= 1` violated with a policy
  of two attempts; `AttemptsBounded` is what holds.
* An original that the exact pass has inserted is read again by the tolerant pass, so a
  value that looks like another value's placeholder is replaced twice. With
  `roundtrip`'s modules, a request whose masked value is spelt like a drifted placeholder
  of another one shows it. `tests/unit/test_guard_demasker.cpp:722` says an original
  "must NOT be re-demasked"; that test has no rule, so the tolerant pass is off.
* The bound on the demasker's buffer holds for UTF-8 only. In front of a run of
  continuation bytes that no rune starts, `utf8_safe_prefix_end` returns 0 however long
  the run is (`guard/demask/Demasker.hpp:348`), and `demask_chunk` holds all of it back
  until the flush.
* `array_elements` skips white space in front of the first element only
  (`guard/json/Json.hpp:942`): the span of a later element starts at the space after its
  comma and is not marked as a string, unlike `find_value`'s. The extractors are not
  affected: they look inside elements with `find_value_in`, which skips it.
* Of a duplicate key `find_value` takes the first value (`guard/json/Json.hpp:31`), so the
  extractors never see the others: a text under a second `content` or `text` passes on as
  it is, whatever a receiver that takes the last one reads. `ExtractsScannable` counts
  the first only. `string_leaves` gives every value of a duplicate key, with one path and
  a span of its own; the extractors patch by the span.
* A Redis that comes back without its data grants a lease again while the first caller
  still holds it, although `set_nx` answers false on an error "to avoid double-processing
  during outages" (`cache/Cache.hpp:242`). `LockHeldOnce` excepts such leases. Only tests
  call `set_nx` at this commit.
* `shutdown()` of the pool relies on the order of the teardown. Called while threads are
  inside `acquire()`, it may take a wakeup one of them needed, and may free the pool under
  a thread that connects; `Served`, `NoLostWakeup` and `FreedOnlyWhenDrained` do not speak
  of that case.
* Nothing restricts the characters of a rule's placeholder (`guard/Registry.hpp:282`),
  while the collision guard searches the texts for word characters only. The shipped rules
  all use `[A-Z0-9_]+`; a TYPE such as `CARD-NO` would not be guarded.
* `build_event_frame` is read back as the same event only for data without line breaks.
* In `guard/Prefilter.hpp` a POSIX class followed by another `[` in one bracket
  expression (`[[:alpha:]key[x]`) ends the class early, and what follows is taken for
  required text. Such patterns are not in the `scanner` run.
* The check digits of SNILS, INN and OGRN do not detect every misread digit, by design
  of those schemes; `CheckDigitsDecide` asks it of Luhn and IBAN only. For all schemes it
  asks that issued numbers pass and that miscopied ones do not (`Issued`, `Miscopied`).
* `Cache::initialize` leaves its global set when the ping throws; it is one of the
  subsystems of `core_retry`.

## 7. Not modelled

HTTP routing, middleware, YAML rules, email, entropy, ban list and address validators,
base64, hashing, logging, metrics and tracing: stateless conversions or output.
`ReloadableRegistry` is one atomic `shared_ptr`: a caller's copy is a snapshot whatever
follows. Of the cache, the wrappers that only pass a command on. PostgreSQL, Redis, RE2,
Drogon and the upstream model are external; where they matter (RE2's matching,
`notify_one`, Drogon's threads, PostgreSQL's locks, commits and replicas, Redis' TTLs and
lost replies, the upstream's answers) they are modelled from how the code uses them. The
reason for each part is in `PROJECT.json`.
