# kernelradar: TLA+ models, checks and proofs

kernelradar is a daemon that watches a Linux kernel through BPF programs and
raises alerts. This directory holds TLA+ modules that model its control flow,
TLC configurations that check them on small instances, and TLAPS proofs of the
properties that matter most for every value of the constants.

`D` below stands for `src/crates/kernelradar-detectors/src`, `B` for
`src/crates/kernelradar-bpf`, `C` for `src/crates/kernelradar-cli/src`, and
`K` for `src/crates/kernelradar-core/src`.

Contents: [the system](#the-system), [the modules](#the-modules),
[what is checked](#what-is-checked), [disagreements](#disagreements-between-the-code-and-its-documentation),
[fairness](#fairness), [what is proved](#what-is-proved),
[what is only checked](#what-is-only-checked), [what is not modelled](#what-is-not-modelled),
[plan](#plan), [running](#running).

## The system

    kernel              BPF programs  --ring buffer-->  detector task (one per detector)
                        LSM programs  --decide-->       calls of other processes
    user space          detector task: filter (allowlists, CIDRs) -> print_alert
                        print_alert:   baseline -> rate limiter -> counters -> output, webhook
                        hourly task:   counters + rate limiter -> summary
                        periodic task: baseline -> file        SIGHUP task: file -> lists
                        exporter:      counters -> scrape      main: join detectors, last save

| Component | State | Operations | What makes it correct |
|---|---|---|---|
| Rate limiter, `D/dedup.rs` | one map of counters per (detector, comm, event type), under a mutex | `check` per alert, `drain_suppressed` per hour | bounded; at most `window_max` per window; a flood shows as a BURST; nothing held back is lost from the summary |
| Baseline, `D/baseline.rs` | hour-of-day buckets and open minutes per (detector, comm), under a mutex | `record_and_score` per alert, `reset`, `save`, `load_or_default` | every event in the bucket of its hour; bounded; a flood does not train; the file is never torn |
| Alert pipeline, `D/util.rs`, `D/metrics.rs` | counters under a mutex | `print_alert`, hourly summary, scrape | each alert is reported once; counters agree with what was sent |
| Event loops, `D/runtime.rs`, `D/lsm.rs`, `C/main.rs` | ring buffers, readiness, the shutdown future of every turn | load, drain, stop, join, last save | no event slept over, no loss uncounted; no detector abandoned at shutdown; what was learned is saved |
| Configuration reload, `C/main.rs`, `D/allowlist.rs`, `D/cidr.rs` | shared lists behind `Arc<RwLock>` | SIGHUP: read, validate, replace one by one; handlers read two of them | only valid configurations get in force, a reload is not lost, no unsafe mixture |
| Enforcement, `D/lsm.rs`, `B/src/enforce_*.bpf.c`, `B/src/selfprotect.bpf.c` | attached programs, comm maps, the protected TGID | install at startup, decisions on others' calls | a program enforces its whole list or nothing; listed processes are not denied |
| Webhook, `D/webhook.rs` | a semaphore of 100, one task per delivery | `submit`, the delivery | bounded; every permit comes back; alerts are dropped only at the bound |
| Exporter, `D/prometheus.rs` | a semaphore of 16, one task per connection | accept, read, write | bounded in number and in time |
| Matching rules, `D/allowlist.rs`, `D/cidr.rs`, `D/fim.rs`, `D/cred.rs`, ... | none | predicates on paths, addresses, names | agree with what the configuration means |
| Validation, `K/config.rs` | none | `validate`, `allowlist_for`, `detector_enabled` | reports what would not be served as it is written |
| Integrity, `D/integrity.rs`, `crates/kernelradar-detectors/build.rs` | hashes, one mode | `verify`, `set_strict_mode` | in strict mode the kernel runs what was built; in relaxed mode nothing is refused for its bytes |
| Process attribution, `D/util.rs` | none | reads of `/proc` | names the process that made the event |

What is hard about it: the detectors, the hourly and periodic tasks, the SIGHUP
task and the exporter run on the threads of one runtime and meet in four
mutexes, a call at a time, so their critical sections interleave freely; BPF
programs run on every CPU at once; futures are made and dropped on every turn of
a `select!`; signals, crashes and power cuts may come between any two steps;
tables sit at their caps; a wall clock may be set back. Under "hazards",
`PROJECT.json` lists these places line by line, with the properties that
watch them.

## The modules

| Module | Models | Variables and actions |
|---|---|---|
| `WindowLimiter` | what the limiter promises, abstractly: a fixed window per key | `Request`, `Advance` |
| `RateLimiter` | `D/dedup.rs` | `state` is the map; `Check` is one call of `check` (evict, note the severity, count the burst, roll the window, decide), `Drain` one of `drain_suppressed` |
| `RateLimiterHistory` | the same, with what each key asked for and got | the history variables keep running totals of arrivals, passes and bursts by tick, and what the drains reported |
| `Baseline` | `D/baseline.rs` in memory | `pairs`, `curMinute`; `Record` is one call of `record_and_score` with eviction, minute roll and gates; `Reset`; `ClockMove`; the history variable `allowance` is how many samples a profile may have by the clock |
| `AtomicFile` | what the baseline file promises: an atomic cell | `Publish`, `Clear`, `Commit`, `PowerLoss` |
| `BaselineFile` | `save` and `load_or_default`, `baseline reset` | one action per system call of `save`, each of which may fail; `Kill` and `PowerLoss` between any two |
| `Daemon` | `run` of every detector, `shutdown_signal`, `run_daemon` | `phase[t]` is where a task is in its `select!` loop, `heard` the futures that were polled when the signal came; `Join`, `FinalSave`, `PeriodicSave`, `Signal`, `Kill` |
| `AlertPipeline` | `print_alert`, `emit_summary`, `render_metrics` | one action per critical section, in the order of the code |
| `Validation` | `K/config.rs`: `validate`, `allowlist_for`, `detector_enabled` | operators only, on a configuration as its file says it: `Valid` is "no issue", the others what the daemon takes from it |
| `Reload` | `Config::from_path`, `spawn_sighup_handler`, the lists, `NetworkDetector::handle` | extends `Validation`; one action per replaced list, one per list read; `Start` takes the file, valid or not |
| `Matching` | the filters of `B/src/fim.bpf.c`, `cred.bpf.c`, `network.bpf.c`; `D/fim.rs`, `D/cred.rs`, `D/cidr.rs`, `D/allowlist.rs` | operators only: `Visible` is the window of 32 bytes, `Candidate`, `Dotdot` and `Private` the filters, `Match` the rules, `Parse`, `InCidrs`, `Build` and `IsAllowed` the lists |
| `Syscalls` | the programs and handlers of privesc, container, injection, kmod and bpf-loader | operators only: `SyscallEvents` is what the C program makes of a call, `Titles` and `Graded` what the Rust handler makes of that event, `Alerts` both together; `Call` is the set of all calls, which is infinite, and `Watches` and `Stated` (the severities) what the documentation says of them |
| `Detection` | a call on its way from the tracepoint to a verdict: the handlers of all detectors, `read_exe_path_verified` | composes `Reload`, `Matching` and `Syscalls`: `Trace` or `Filter`, `LookUpAddr`, `DropOwn`, `ReadComm`, `ReadExe`, `LookUpProcess`, `Decide`, with `Become` (the process changes) and a reload between any two |
| `EventRing` | tracepoint programs, `kr_stats`, the drain loop | per CPU: `Observe`, `Reserve`, `Submit`, `Notify`; the detector: `Wake`, `HandleNext`, `Drained`, `ClearReady`; a restart; the kernel's wake-up and tokio's readiness are external |
| `Enforcement` | `install_lsm_if_enabled`, the three LSM programs, the detectors that load after them | `Load`, `Arm`, `Insert`, `Refuse`, `FillFails`; `LoadDetector` and `DetectorFails` are the daemon's own loads; what other processes ask for changes nothing, and `Grants` is the answer |
| `Integrity` | the table that `crates/kernelradar-detectors/build.rs` makes, `set_strict_mode`, `verify`, the loads of `D/lsm.rs` and `D/runtime.rs` | composes with `Enforcement`: `Boot`, `Read` (the file, and its check), `LoadChecked`, `LoadStops`, with `Replace` (somebody changes a file) between any two |
| `PermitPool` | what a semaphore with no queue promises: a holder per permit, nobody waits | `Enter`, `Refuse`, `Leave` |
| `Permits` | `D/webhook.rs` and the connections of `D/prometheus.rs`, side by side | `at[u]` is how far an alert or a client has come, `permits` the two semaphores, `age` and `held` the time since its present and its first deadline were set; both outlets refine `PermitPool` |

`MC<Module>` gives TLC the values that a `.cfg` cannot write and the symmetry
sets; `<Module>Proofs` holds theorems. `MCMatching` has the inputs on which
`Matching`'s operators are compared with their references. A definition whose comment begins
with "Faulty variant" is not part of a specification: it is the definition below
it with a plausible bug, kept to show that the properties notice it.

How the modules fit together. `AlertPipeline` leaves the answers of the baseline
and of the limiter free; `Baseline` and `RateLimiter` say which answers occur.
`Daemon` takes a save for one step; `BaselineFile` takes it apart. `Daemon` has
ring buffers that lose nothing and a readiness that is always right; `EventRing`
shows under which behaviour of the kernel and of the runtime that is so. `Reload`'s
handler is refined by `Detection`, which knows what the lists match.
`Enforcement` takes a load for one step; `Integrity` takes it apart into the read of
the file, its check and the call of the kernel, and implements `Enforcement`. Each of these seams is a mutex, a file or a return value in the code.

Main abstractions, by module:

- `RateLimiter`: `KeyState.allowed`, which nothing reads, is left out. The order
  in which a hash map yields its first eight entries is any order.
- `Baseline`: the EWMA is replaced by the number of events that reached a bucket,
  and the comparison of the score by a free choice once the gates are passed.
- `BaselineFile`: a baseline is the number of events it has learned and the reset
  its learning began after. The file system keeps a synced file whole and may
  undo a rename it has not committed.
- `Validation`: an entry of an allowlist is whether it is a pattern, whether it
  compiles, and the names it matches; a number is itself; whether the guard of
  webhook urls objects to one is a set of urls.
- `Reload`: a configuration is the edit that made it and its text; a text that
  does not parse says nothing.
- `Matching`: a path is a sequence of tokens with their widths, cut where some
  pattern begins or ends, so that a window may show a part of one (names of users and files
  begin with neither s nor g, and a token with a slash inside is the first of its
  path; a user is all up to the first slash, however many tokens); an address is a
  word of `AddrBits` bits, 32 in the code, whose first 16 are the octets that the
  filter in the kernel looks at; words are shifted and combined bit by bit; a pattern of an allowlist is the set of names it matches.
- `Detection`: one call at a time. Handlers of several detectors run at once, but
  share nothing that they write. A section of the file is there or not for each
  detector by itself. `ran` and `swapped` are history and decide nothing.
- `EventRing`: the ring counts records; the filters before the counter are
  `Matching`'s.
- `Enforcement`: names are tokens; the ones that do not fit a comm are a subset.
- `Integrity`: a hash stands for the content, which is what was built or not.
- `Syscalls`: of a record only the type, the severity and the first word, where a
  handler looks at it.

## What is checked

Every run finishes its whole state space, the largest (`enforce`, 1.9 million
states, `daemon`, 650 000, and `reload`, 450 000) in a minute or two.

| Run | Instance | Shows |
|---|---|---|
| `limiter` | 3 keys, a map of 2, 2 severities, rate windows of 3 ticks and burst windows of 2, times 0 to 4 | the cap and the victims, freshest entries survive; fewer than two windows' worth in any span; `2 * threshold - 1` events in a burst window raise a BURST; what was held back is reported once; refinement of `WindowLimiter` |
| `baseline` | 3 pairs, table of 2, oversized and stale loads, clock set back | counters belong to tracked pairs, events to their hour; no score without the samples that the clock allows the present profile, growth within the cap, oldest forgotten first |
| `file` | 3 events, 2 resets, crashes and power cuts at will | the file is never torn, a restart resumes with the last successful save, a stopped daemon's reset sticks, refinement of `AtomicFile` |
| `daemon` | 2 detectors and an unawaited reader, 2 events each, an operator who insists | a graceful stop loses nothing the detectors learned, nor what the reader had recorded by then; the daemon does not stop unasked; repeated signals end it |
| `pipeline` | 2 threads, 2 alerts, summaries and scrapes at will | summaries conserve, counters agree with the output, scrapes are consistent with one another, a quiet hour was one |
| `reload` | bpf-loader, fim and network, 2 edits of a file that was never validated, SIGHUP at will, 3 images for a process to be; 208 paths, written and read, two levels of directories and empty user names among them, with user names on both sides of each length that the window decides, 390 destinations against 120 CIDRs, and every watched system call with its neighbours | no CIDRs ahead of the allowlist, only valid and wholly served reloads, no lost reload; no call let go but by a listed name of its caller, none reported with one; filters, handlers and rules agree, on the names of calls and the severities that are stated of them too |
| `ring` | 2 CPUs, a ring of 2, 4 events, a restart | losses are counted, no sleep over a readable record, every record is handled at last |
| `enforce` | every choice of hooks, unusable entries, one list longer than its map; object files with and without a hash, one replacement, both modes | a program enforces its whole list or is gone; in strict mode only what was built runs; in relaxed mode nothing is refused for its bytes |
| `permits` | 3 alerts and 2 clients for 2 permits and 1 | no permit is lost: both outlets refine `PermitPool`, none is held past its deadlines, there is room again and again |
| `daemon_one_signal`, `file_reset`, `enforce_own` | | the three [disagreements](#disagreements-between-the-code-and-its-documentation) |

Why these bounds are enough. A cap is interesting with one key more than it
holds, an eviction order with two candidates, a mutex with two threads, a window
edge with two windows that are not aligned, a lost update with two writers, a ring
with one event more than it holds and a second CPU that overtakes the first. Each
instance has all of these at once where they meet. All bounds are named
constants (`MaxTime`, `MaxPerTick`, `MaxClockMoves`, `MaxPerMinute`, `MaxEvents`,
`MaxAlerts`, `MaxGen`, `MaxResets`, `MaxEdits`, `MaxStarts`, `MaxReplaced`) and appear
only in guards; `SetLimit` is how many patterns compile into one set, and
`AddrBits` is 18 in `reload`, so that two bits lie below the octets; the theorems hold for all their values. Runs with symmetry check no
liveness property. Deadlock is checked where the system never stops (`permits`)
and not where it may: the bounds stop the others, or the daemon ends.

`OpensAgree`, `DestinationsAgree` and `CallsAgree` compare `Matching` and `Syscalls`,
which `Detection` uses, with their references over the inputs of `MCMatching` and
over `Asked`, whatever the state of the daemon; the theorems behind them
(`EveryOpenAgrees`, `EveryDestinationAgrees`, `EveryCallAgrees`) leave no bound on
the inputs. The type invariants are parts of
the invariants that are proved; no run repeats them.

Every property is paired in `PROJECT.json` with a mutant: a faulty variant of a
definition that makes TLC find the property violated.

## Disagreements between the code and its documentation

Three runs state what a document or a comment says; TLC finds a behaviour of the
code that violates it.

| Run | Says | The code |
|---|---|---|
| `daemon_one_signal` | on one signal every join handle resolves (C/main.rs:464-466) | a detector that loads, handles events or is between two turns does not hear it, and the daemon waits for that detector |
| `file_reset` | after a reset a restart does not reload the baseline (C/main.rs:280) | a running daemon's next save writes the old baseline back |
| `enforce_own` | processes on the list, `kernelradar` among them, may load programs (docs/hardening.md:132,140) | the daemon's worker threads have another comm and its own detectors are denied |

Other places where a text says more than the code does. The models follow the
code; the last column names what does hold of it.

| Text | The code | Holds |
|---|---|---|
| "sliding window" (docs/architecture.md:163) | a fixed window: a span across its edge passes more than one window's worth | `SpanBelowTwoWindows` |
| more than `burst_threshold` events within `burst_window` raise a BURST | not across the edge of two burst windows | `FloodRaisesBurst`, with `2 * threshold - 1` |
| after the cap the next alert waits `backoff_initial`, doubling | the roll of the window takes the step back first, so the gap never decides | `HeldBackOnlyWhenFull` |
| the oldest entry is dropped | the oldest of the first eight | `FreshestSurvive` |
| `keys_max = 0` is unbounded (K/config.rs:390) | it keeps one key | `KeyCap` |
| younger pairs are kept even at cap (D/baseline.rs:49) | the oldest tenth of them, at least one, is dropped, once per call | `GrowsOnlyWithinCap`, `OldestForgottenFirst` |
| under-sampled buckets are scored against a floor | they are not scored | `FloodDoesNotTrain` |
| the daemon reads `/proc/<pid>/exe` and re-reads `/proc/<pid>/comm` (docs/architecture.md:144-149) | the comm is read first and compared, then the exe (D/util.rs:129-136) | `ExemptionHasGround`, with the reads in the order of the code |
| `enforce_kmod` denies `READING_MODULE` (docs/hardening.md:154, docs/architecture.md:107) | the program has 1 for it (B/src/enforce_kmod.bpf.c:18), which in the kernel's enum is firmware; modules have 2, and `init_module` does not come through `kernel_read_file` at all | `EnforcedOnlyWhole`, of whatever the hook decides on; `Grants` is the list's answer |
| the summary splits alerts into emitted and suppressed | a BURST over the limit is counted in both | `SummariesConserve`, `CountersMatchOutput` |
| lists are swapped atomically | each list by itself; one event may see two configurations | `CidrsNeverAhead` |
| "Bad regex was already caught by Config::validate at startup" (D/allowlist.rs:55) | nothing validates at startup, and a file that does not parse is the defaults without a word (C/main.rs:147); the list of the command line is never validated; and patterns that compile one by one may be too large as a set | `ReloadsAreValid` and `ListedIsExempt`, which speak of what a reload put in force |
| "Live-reload by sending SIGHUP" (docs/architecture.md:219) | a reload replaces allowlists and CIDRs; whether a detector is enabled is decided at the start (`Watched`) | `ReloadConverges`, of the lists |
| relaxed is the default of the integrity check (D/integrity.rs:14-16, 69-70), and any bytes are accepted for an object that had no hash (crates/kernelradar-detectors/build.rs:11-13) | strict is the default (D/integrity.rs:31), and a missing hash refuses the load | `RunsWhatWasBuilt`, `RelaxedRefusesNone` |
| the last field of NSpid is the global pid (D/lsm.rs:168-169) | `host_tgid` takes the first (D/util.rs:82) | not modelled: `MayKill` knows the daemon's pid |
| setresuid, setresgid and the exec of a setuid binary have event types (B/include/events.h:33-35) | no program makes them | `CallsAgree`, of the types that are made |
| `/..` in a path is reported "regardless of the prefix", for example `/var/lib/../../etc/shadow` (docs/threat-model.md:81-84) | paths below `/sys/`, `/proc/`, `/var/`, `/tmp/` and `/run/` are exempt (B/src/fim.bpf.c:81-93), that example too | `OpensAgree`, of paths without `..` or elsewhere |
| `/home/<user>/.aws/credentials` is an exact rule (D/cred.rs:85-92) | a prefix is compared, and the window of 32 bytes holds all of it only for user names of up to 8 bytes; with 17, a write to `.bashrc_old` reads as one to `.bashrc` | `OpensAgree`, of what fits the window |
| the severities of the rules are "2 = WARNING, 3 = ALERT" (D/fim.rs:115) | 2 is an alert and 3 critical (K/event.rs:43-48) | the rules' numbers are `Match`'s |
| counters are pinned for collectors (D/runtime.rs:37) | nothing removes the pin, so after a restart it leads to the dead process's counters | not modelled |

## Fairness

- `Daemon!FairSpec`: every task that can go on is run, and so is `main`. The
  multi-threaded runtime polls every woken task. Events, failures, the periodic
  timer and systemd's SIGKILL are not fair. `InsistentSpec` adds an operator who
  repeats the signal, which the code cannot guarantee: it says what has to be
  done for the daemon to end.
- `Reload!FairSpec` and `Detection!DFairSpec`: the SIGHUP task is run. Nobody has
  to start the process, to call or to end a call.
- `EventRing!FairSpec`: a BPF program runs to its end (the verifier sees to it);
  the reactor and the drain loop are run. Events are not fair.
- `Permits!Spec`: tasks are run, time passes and timers fire; collectors and
  clients owe nothing.

Strong fairness is nowhere needed.

## What is proved

All theorems hold for every value of the constants that satisfies the module's
assumption; each assumption only types the constants (numbers, finite sets).
`RateLimiter`'s also asks for windows of at least one tick, which `validate` asks
for too, but only of a file that is reloaded or checked, `Validation`'s for
addresses of at least two octets, and `Permits`' for at least one permit per outlet,
which are constants in the code; a timeout may be 0.

| Module | Theorems | Argument |
|---|---|---|
| `RateLimiterProofs` | types, cap, backoff, `HeldBackOnlyWhenFull`, sampled eviction, drains account for what is held back, `SpanBelowTwoWindows`, `FloodRaisesBurst`, refinement of `WindowLimiter` | `TypeOK /\ KeyCap /\ BackoffFollowsWindow` is inductive. A backoff step is only set with the window full and never passes 1, so an alert that finds room finds no gap: this gives the refinement of a limiter that has no backoff at all. For the drains, `HIInv` adds what a key's entry still holds to what was reported. For spans and floods, `RecordsKept` says of each key's entry what the running totals were when its open window began: since then `windowCount` passed and `burstCount` came, and everything before lies in windows that ended, each with less than its limit; a span of one window's length meets at most two of them |
| `BaselineProofs` | of `Baseline`: types, no orphaned minute, every event in its hour, no score beyond what the clock allows (`FloodDoesNotTrain`), growth within the cap, eviction by age | the invariant says that a profile has no more samples than its `allowance`, and one less while a minute that has ended is not charged yet: such a minute has used up no change of the clock. At the cap a call drops all stale pairs or at least one young pair (`RoomForOne`, by cardinalities) |
| | of `BaselineFile`: types, never torn, restart keeps saves, a stopped daemon's reset sticks, refinement of `AtomicFile` | the invariant says what `tmp` holds at each step of `save` (`Staged`), that the file holds at least `floor`, and that nothing on disk is of a past era unless the reset raced |
| `DaemonProofs` | types, no survivor abandoned, a graceful stop keeps all, the reader's events before the last save are kept, never stops unasked | `SignalsAreSent` links what a future heard to a signal that was sent; once all detectors have ended none records again, so the last save is final; nothing is saved finally before |
| `DetectionProofs` | types, CIDRs never ahead, only valid reloads, uniform between reloads; `Detection` implements `Reload`; grounds for an exemption, no report of a listed name; no signal is lost; every call is reported under its own name and a stated severity; every open and every destination agree with the rules and the notation (`OpensAgree`, `DestinationsAgree`) | the invariant says which prefix of the lists the reload has replaced and that configurations are numbered by their edits; `Grounds`, that `ran` holds every executable that bore the comm, so that one that was read is among them; `OneFile`, that a reload of the present generation is one of the present file, so that a list that is in force is replaced by the same. The calls, paths, addresses and CIDR entries are arbitrary. A rule and the path it matches begin with the same tokens, and those decide the filter; below `/home` the first slash after the user's name is at the same place in the path and in what the window shows of it (`UserEnd`, `HomeTailRule`); as the widths of tokens add up (`EndsStep`), a watched part that fits the window is a prefix of what is seen, which some rule still matches then (`WindowKeepsRule`). For words of any length from 16 bits on, the mask of k host bits is `Word` - 2^k (`Masks`), its bits are 0 below k and 1 above (`MaskBits`), so the bitwise and of an address keeps `Shr(addr)[k]`, doubled k times (`MaskedBits`), and two addresses agree under it when these do; the nine ranges then are intervals of what the first two octets are as a number (`Ranges`) |
| `EventRingProofs` | losses are counted, never asleep over work | an event is handled, in the ring or dropped, counted by cardinalities; a record that the reader stands at and nobody announced is one whose program is still at `Notify`, or the detector has not cleared its readiness yet |
| `AlertPipelineProofs` | summaries conserve, counters match, scrapes fit, quiet hours | how many workers stand between an alert and each of its counters, by cardinalities of the sets of workers at each step |
| `PermitsProofs` | types, no permit held past its deadlines, both outlets refine `PermitPool` | `PermitsCounted`: what is left of a semaphore and the number of its holders make up its cap; `AgesKept`: how long a permit was held, by stage, against the age of the deadline that runs now. Every step but `Tick` moves one user to its next stage, and what that does to the pools is proved once (`Move`) |
| `IntegrityProofs` | `Integrity` implements `Enforcement`; whole lists or none, listed names granted, only what was built runs, relaxed refuses none | `FilledSoFar`: at entry n the map has the usable ones of the first n - 1, and a hook whose turn has not come is untouched; `ModeFirst`: nothing is read before the mode is set, so a check was made in the mode that is configured |

`PROJECT.json` names each theorem and the property it proves. The invariants are
inductive conjunctions of named parts; most of the safety properties are not
inductive by themselves (for example, that the file is whole says nothing about
the file that is about to be renamed over it).

## What is only checked

- Liveness (`InsistenceStops`, `ReloadConverges`, `EventsAreHandled`,
  `RoomAgain`): out of the prover's reach. What they rest on in every state is
  proved: `NoSignalLost`, `NoSleepOverWork`, `PermitsCounted`.

Every safety and action property of a passing run is also proved. What they
leave open is what the models abstract from, for example that a path is a sequence
of tokens.

Induction over data needs no induction theorem here. The library's take an
operator as a parameter, which the provers cannot instantiate; `Least`, that a set
of numbers has a least one, follows from the theorem that proper subsets of finite
sets are well-founded, which takes none. `Induct` (what a set contains from 0 on,
step by step) and `Recursion` (that a function defined by steps exists) follow from
it, and all facts about the recursive functions `Ends`, `Powers`, `Shr`, `Shl` and `And`
from those. So these are recursive functions, not recursive operators.

## What is not modelled

- The grammar of TOML, and how the guard of webhook urls takes a url apart
  (`webhook_url_security_issue`): a function of one text, without state, covered by
  its unit tests. Its verdict is `Guarded`.
- SHA-256, of which two copies exist (build.rs and integrity.rs): a hash stands for
  the content.
- The process tree and the user name that an alert shows: text that decides
  nothing.
- The pin of the counters: no state of the daemon depends on it.
- Output formats, escaping, logging, argument parsing, preflight warnings, build
  scripts: text and wiring without state.
- The arithmetic of the EWMA and of the z-score: floating point.
- The exporter's and the webhook's HTTP: the responses do not depend on state
  beyond what `AlertPipeline` reads.
- A stop signal before any task has polled `shutdown_signal`: no handler is
  installed yet and the signal ends the process. `Daemon` has it as an end of the
  process; nothing has been learned by then, so nothing is lost.
- The `continue` of the drain loop on a record shorter than an event
  (D/runtime.rs:105-107): the programs reserve whole events.
- The rate of a flood: the drain loop ends only when the ring is empty, and a
  source as fast as the handler keeps a detector from hearing a stop signal. The
  models bound the number of events.

## Plan

1. Done: the rate limiter, the baseline in memory and on disk, the daemon's
   loops, the alert pipeline, validation and reload, the ring buffers, enforcement
   with the integrity check, the two outlets, the filters, rules and handlers of
   all detectors with their reads of `/proc`, all checked; every safety property
   of a run is proved.
2. What liveness rests on for `InsistenceStops`: a bound on the signals that the
   daemon may still miss.

## Running

    tlc -workers 2 -config limiter.cfg MCRateLimiter.tla
    tlapm RateLimiterProofs.tla

`PROJECT.json` lists for each run its module and configuration, and maps
definitions to the lines they model.
