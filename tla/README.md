# OpenCapital: formal models

TLA+ models of the OpenCapital desktop application, checked with TLC, and
machine-checked proofs (TLAPS) of the properties that matter most.

OpenCapital is a desktop shell (Rust/Tauri) that runs a financial data plane on
the user's machine (PostgreSQL and RisingWave, or one WSL distro on Windows),
launches Grafana and a Python compute sidecar on top of it, installs the
plugins the user chose, and serves Grafana through a loopback proxy. Inside
RisingWave an embedded Python aggregate, `fold_kernel`, folds the event log of
a portfolio into cash, positions and realised profit.

Three parts carry the program's own logic and most of its risk: the
*supervision of processes by threads that share handles*, the *accounting of
the fold*, and the *files and directories that one run of the shell leaves to
the next*, which it may leave at any point and which nothing locks.

Paths below are relative to `src/`; `R` stands for
`opencapital-app/src-tauri/src`, `RW` for `dataplane/risingwave/schemas`.

## 1. Inventory

### Data-plane lifecycle (`R/dataplane.rs`, `R/wsl.rs`, `R/lib.rs`)

- *State*: `Shared.pg_child`, `rw_child`, `wsl_child` (one slot per service),
  `shutting_down`, the restart counters local to each `supervise` thread, and
  the processes of the operating system.
- *Operations*: the start-up `kill_stray_dataplane`; `bring_up` (for each
  service: ensure, spawn, store, health, supervise, schema); `supervise` (take
  the child, wait, look at the flag, count, respawn, store, health);
  `shutdown_children` on `RunEvent::Exit`.
- *Interactions*: slots behind mutexes, an atomic flag, signals by `pkill -f`,
  fixed ports.
- *Hard*: the teardown against threads between their check and their spawn; a
  kill of the shell at any moment; an orphan that holds the port; handles
  passed between a slot and a thread.
- *Correct when*: every child has exactly one owner that can reap it; strays of
  any earlier run are terminating once the shell is up; supervision ends
  silently only in a teardown; the plane settles.

### Launch of Grafana and compute (`R/grafana.rs`, `R/compute.rs`, `R/proxy.rs`)

- *State*: `Shared.child`, `compute_child`, `grafana_port`, `compute_port`,
  `generation`; one launch task per click; one crash monitor per launch.
- *Operations*: `launch`, `compute::start`, the two `start_crash_monitor`s, the
  exit kills.
- *Interactions*: tasks and monitors share one handle and one port per kind;
  the generation tells a Grafana monitor that it is superseded; the proxy reads
  `grafana_port` on every request.
- *Hard*: overlapping launches, a relaunch against a monitor in the middle of a
  restart, the exit against a respawn.
- *Correct when*: one Grafana; the proxy points to it; whatever came up is
  attended by its own monitor or reported.

### Portfolio fold kernel (`RW/03-functions/fold_kernel.sql`, `RW/05-fold/fold_per_event.sql`)

- *State*: per currency a bucket of FIFO lots and margin borrows; the registry
  of pending borrows; FX bases of purchases and of foreign sales; per
  instrument a FIFO and an average-cost accumulator, the FX tracker and the
  current cycle.
- *Operations*: `accumulate` with a handler for TRADE, CASHFLOW, DIVIDEND,
  TRANSFER_IN and FX_CONVERSION; `finish`.
- *Interactions*: RisingWave calls it for the events in the order of business
  time; views project its result.
- *Hard*: FX bases that are known only when a loan is covered, in slices; fees
  deferred to that moment; two cost methods side by side; sales of more than is
  held.
- *Correct when*: balances, base value, fees, cost and cycles are conserved
  over every sequence of events.

### Data-plane bootstrap (`R/dataplane.rs`, `dataplane/risingwave/apply.sh`, `dataplane/postgres/init`)

- *State*: the cluster directory and its `PG_VERSION`, `control_db` with its
  roles and the portfolios table, RisingWave's objects, the record of the
  baseline in `_schema_migrations`.
- *Operations*: initdb, `bootstrap_control_db` (create the database, run the
  two scripts), `apply_rw_schema` / `apply.sh` (all files, then the record).
- *Interactions*: one boot thread, two databases that commit statement by
  statement.
- *Hard*: a crash or failure between two statements; the tests for "already
  done" look at the first step only; a query that fails reads as "no".
- *Correct when*: the next boot completes what is missing, repeats nothing that
  does not bear it, and never takes away what users wrote.

### Runtime artifacts (`R/runtime.rs`, `ensure_*` of `R/dataplane.rs`)

- *State*: three unpacked archives (PostgreSQL, RisingWave, Grafana), each with
  a marker and a staging directory; the app's frontend laid over Grafana's,
  with a marker of its own inside the tree.
- *Operations*: `ensure_postgres`, `ensure_risingwave`, `ensure_grafana`,
  `overlay_grafana`.
- *Interactions*: the boot thread and every launch call them; nothing but the
  file system keeps them apart.
- *Hard*: a kill between removal, rename and marker; two threads in one staging
  directory; ignored errors of a removal.
- *Correct when*: a marked directory is complete and of the release the app
  ships, and it is not exchanged under somebody who was given it.

### Plugin selection and pins (`R/config.rs`, `R/kinde.rs`), catalog (`R/catalog`)

- *State*: `selection.json`, `pins.json`, `sources.json`, all truncated
  and rewritten in place; the cache of what the sources list; the answer of the
  network, of which any part may be missing.
- *Operations*: toggle, seed, pin, add and remove a source; at every launch,
  `reconcile_plugin_selection` reads the selection, adds what is required, and
  writes it back, and `build_resolved_plugins` reads everything again.
- *Interactions*: the plugins view (one command at a time), the sources view
  (commands that overlap) and launches share files and cache without a lock.
- *Hard*: a click between a launch's read and its write is lost; a kill between
  truncation and write; a source that cannot be reached looks like one with no
  plugins; a cache entry that outlives its sources.
- *Correct when*: a choice of the user is never undone by a launch or a crash,
  and a source that was removed is no longer served.

### Plugin reconciler (`R/reconcile`, `R/grafana.rs`)

- *State*: the cache of downloaded versions with their markers (the digest),
  the links in Grafana's plugin directory, provisioning documents, the list of
  plugins that may load unsigned, dashboards.
- *Operations*: `install_all`, `install`, `link_plugin`, `prune`, `render`,
  `prune_provisioning`, `write_unsigned_plugins_list`, `provision_dashboards`.
- *Interactions*: publishers release and re-publish; Grafana reads the result
  when it starts; users put directories of their own beside the links.
- *Hard*: a failed install of one of several; a kill between two steps; prune
  goes by the wished plugins, provisioning by the installed ones; a catalog
  that came back short.
- *Correct when*: a launch that comes up serves whole directories of the
  releases it resolved, documents and dashboards are those of the plugins it
  installed, and some launch gets there.

### Library panels (`R/reconcile/library_panels.rs`)

- *State*: Grafana's folders and library elements with their versions; one pass
  per launch.
- *Operations*: find or create a folder, look a panel up, create it or patch it
  with the version that was read.
- *Interactions*: HTTP requests to Grafana, whose users edit meanwhile.
- *Hard*: requests whose answer is lost; edits between look and write; one bad
  panel; renamed plugins.
- *Correct when*: success means published, no edit is overwritten unseen, and
  relaunching changes nothing that is up to date.

### WSL packaging (`dataplane/wsl/supervisor.sh`, `R/wsl.rs`)

The same bootstrap in shell, then `wait` for two background jobs. `wait`
returns only when both are gone, so the death of one is not seen by the host.
`ensure_distro` imports the distro once; an update never replaces it.

### Other parts

- *Loopback proxy* (`R/proxy.rs`): a thread per request that reads the upstream
  port. Its upstream is a property of Launch.
- *Compute sidecar* (`services/compute/compute`): a threaded HTTP server with a
  TTL cache shared by its threads (values are fetched outside the lock) and
  two stores between which queries are routed.
- *Financial metrics* (`services/compute/compute/metrics`): pure functions.
- *RisingWave pipeline* (`RW/04-fx`, `RW/05-fold`, `RW/06-metrics`, ...): as-of
  joins of prices, FX rates and fold states. `closures_per_event` is modelled
  with the kernel.
- *Sources, discovery and entity views*, *sign-in*, *user interface*,
  *schemas, build and scripts*: little state or external protocols; see
  `PROJECT.json` for the reason each is left out.

The hazards of these parts, each at its line, are listed in `PROJECT.json` with
the properties that cover them.

## 2. Modules

| module | models | extends |
|---|---|---|
| `OsProcess` | processes: spawn, wait, pkill, exit, port (external) | |
| `DataPlane` | boot, supervision, teardown, kill and restart of the shell | `OsProcess` |
| `Launch` | launch tasks, crash monitors, exit | `OsProcess` |
| `Bootstrap` | initdb, `control_db`, the RisingWave baseline | |
| `Provisioned` | abstract: what the unpacking of artifacts promises | |
| `ArtifactCache` | `ensure_*`: staging, removal, rename, marker; implements `Provisioned` | |
| `Overlay` | `overlay_grafana` on top of it | `ArtifactCache` |
| `Selection` | the two files of the user's choices, the refs cache, the readers of a launch | |
| `Reconcile` | plugin cache, links, provisioning, dashboards | |
| `LibraryPanels` | a pass over the library panels against a Grafana in use | |
| `Rationals` | exact numbers for the fold | |
| `CashBucket` | a currency's lots, borrows, the registry of borrows | `Rationals` |
| `CostBasis` | FIFO and average cost, cycles, closures, the FX tracker | `CashBucket` |
| `FoldKernel` | the aggregate: one action per event type | `CostBasis` |
| `DataPlaneProofs` | the proofs about `DataPlane` and, with the same thread and disk in view, `Bootstrap` | both |
| `ArtifactCacheProofs` | the proofs about `ArtifactCache`, and about `Overlay` on top of it | `Overlay` |
| `LaunchProofs`, `SelectionProofs`, `ReconcileProofs`, `LibraryPanelsProofs` | the proofs about the component of that name | the module of that name |
| `FoldLemmas` | what the fold's operators compute: arithmetic, sums, loops over lots, deposits, covers, drains, the registry's loans and what they are worth | `FoldKernel` |
| `FoldKernelProofs` | the proofs about `FoldKernel` | `FoldLemmas` |
| `MCDataPlane`, `MCLaunch`, `MCSelection`, `MCReconcile`, `MCLibraryPanels`, `MCFoldKernel` | instances for TLC; `Overlay` and `Bootstrap` need none | |

`PROJECT.json` ("map") gives for every definition the lines it stands for.

How they hang together: `DataPlane` and `Launch` are the two owners of
processes and share `OsProcess`. `DataPlane` takes each `ensure` and schema step
as a call that succeeds or fails; what such a call leaves on the disk is the
subject of `ArtifactCache` and `Bootstrap`. `Launch` likewise has one step for
what happens between the compute sidecar and the spawn of Grafana; that step is
`Overlay`, then the second half of `Selection`, then `Reconcile`, and after
Grafana is healthy `LibraryPanels`.

### OsProcess

A process has a program, a state (`starting`, `serving`, `zombie`), a pending
SIGTERM, and whether it is a child of the running shell. `pkill` does not wait,
and it only reaches what exists at that moment. A child stays a zombie until it
is waited for, so a handle that is lost is visible as a process id that never
becomes free. When the shell ends its children become orphans.

### DataPlane

Each thread is a program counter and the locals that matter. The steps are cut
where another thread can intervene: `supervise` reads `shutting_down`
(`MonDecide`) and spawns later (`MonRespawn`). Spawn and store are one step
here, because nothing else reads the slot between them; in `Launch` they are
two, because others do. The restart window of five minutes is an arbitrary
choice to reset the counter. `ensure_*` and the schema steps may fail.
`KillApp` may happen in any state of a running shell.

`racing` is a history variable: the services some thread could still spawn,
without looking at the flag again, when the teardown began.

### Launch

A program is a pair of kind and launch, because every launch picks fresh ports.
A task goes through the steps of `launch`; the steps between compute and the
generation's bump are one step that may fail. Monitors of Grafana look at the
generation once (`MonCheck`); between that look and the end of their restart a
relaunch may overtake them. `racing` records, at the kill of a relaunch,
whether some thread was in that stretch, and, for compute, whether two threads
used the one slot at once.

### Bootstrap

One boot thread and what it leaves: the state of the cluster directory, the sets
of objects in `control_db` and in RisingWave, and the record of the baseline.
The scripts are sequences of statements; a statement adds objects, needs
objects, drops objects (with what CASCADE takes along, or refused while they have
users), and says whether it refuses to run when its object is there (`Plain`) or
not (`Guarded`). Each is committed by itself. `Fault` fails the call under way,
and `Kill` ends the shell between any two statements. A failed query of
`is_applied` reads as "not applied", which is what the shell function does.

That RisingWave refuses to drop an aggregate that a view calls is not in the
repository: it is what the RisingWave the app ships does, which records the
functions a view uses and drops with RESTRICT unless told CASCADE. In consequence
the `DROP ... CASCADE` of `fold_per_event.sql` finds nothing to drop whenever it
is reached.

### ArtifactCache, Provisioned and Overlay

`ArtifactCache` is the protocol the three `ensure_*` share. A directory has a
tree (none, partial, whole), the release it is of, and the release its marker
names. Removal deletes entry by entry, the marker at any point of it, and its
error is ignored. Threads share the staging directory: what one clears or
renames is missing from what another is unpacking ("clash"). A kill may happen
anywhere, and newer releases of the app are installed while it is off. Three
things are simpler than on a disk: the staging directory is always cleared
(`remove_dir_all` at `R/runtime.rs:58` ignores its error; what stays there is
unpacked over, and a second directory beside it makes `single_subdir` refuse
rather than place the wrong one); Grafana and the overlay have one release
number, as the app ships both; and an older app is never installed over a newer
one.

`Provisioned` says what callers rely on: an artifact is in place in one release
or not at all, who is given it gets what is in place, and it is not exchanged
under somebody who was given it. `Implements` is the refinement: `have` is the
release of a whole tree, `given` the threads that `ensure` has answered. Where
two threads prepared one artifact at once (`overlap`) `Provisioned` allows
anything for that artifact, and nothing for the others.

`Overlay` adds the frontend: per part what is in it, the second marker, and the
launch copying. Each step of `ArtifactCache` on Grafana's directory is conjoined
with what it does to the overlay (`Carried`), because the overlay lies inside
the tree that is exchanged.

### Selection

A writer reads the file, changes what it read, truncates and writes: three
steps, with a kill possible in between, and other writers too. Writers are the
main thread (the plugins view, one command at a time), launches, and the
commands of the sources view, which overlap each other. Two contents written
over each other may or may not parse. `stale` in a job says that another has
written the file since it was read; the history `raced` holds the files written
by such a job, and `lost` those a kill left unreadable. The write itself
does not fail: a full disk (`R/config.rs:375`, `R/catalog/sources.rs:48`) leaves
what a kill between truncation and write leaves, a torn file, but the command
answers with the error.

A launch reads the sources, asks the refs cache or the network, stores the
answer, seeds and heals the selection; then `build_resolved_plugins` reads
everything again. Of any list, manifest or version any part may be missing.
Pins are not in the model: commands store and show them, and nothing on the way
to an installation reads them.

### Reconcile

One step per change of the file system: the removal of a version's directory
(file by file, the marker at any time), the rename, the marker, the removal of a
link and the new link, each link pruned, each document, the list of unsigned
plugins, each title's dashboards. Each may fail (`Fault`), and the shell may be
killed after each. `Publish` releases a plugin, under a new version or, as
publishers may, under one it had before; a marker holds the digest, which is
what tells the two apart. `Resolve` is the wish that `build_resolved_plugins`
returns; it falls short of the catalog only at the cost of a fault. Two plugins
may have one title, and then share a directory of dashboards. Two loops are one
step each: `link_plugin` removes what has the plugin's name at once and with
success (`R/reconcile/download.rs:420-421` ignores errors; a directory that
stays makes the new link fail, which `symlink` may do anyway), and
`prune_provisioning` removes all stale documents or none, so a kill in the
middle of the removals is not seen.

### LibraryPanels

A pass walks over the panels in the order in which the files are read. Each
request to Grafana is a step that succeeds, is refused, or is lost, before or
after Grafana carried it out. Users edit, move and delete panels and folders
between any two steps. What Grafana does is external: it refuses a version that
is not the current one, fills in defaults, and keeps folder titles unique. A
panel's file may be bad in one release and repaired in the next; a new release
may rename the plugin, and with it the folder.

### The fold

The operators of `CashBucket` and `CostBasis` are the kernel's helpers; they
take the aggregate's state and return the new one. Loops that eat a list from
its front are written in closed form (`Taken`, `Rest`); which loan a deposit
covers, and in which order, is kept. Differences to the code, each deliberate:

- numbers are exact rationals, and the tolerances `EPS` and `EPS_LOT` are 0:
  rounding is not what the properties are about;
- a currency or instrument that the code would create on demand is an empty
  one; the contract multiplier is 1; `fx_fees_native`, malformed payloads and
  totals that only add up inputs are left out; so is `finish`;
- event ids are places in the log; the order of the log is the order of the
  fold, so that a sale before its purchase occurs;
- lots and closures have one field more than in the code: `entry`, the event that
  opened the lot. The code has its time (`event_ts_us`, `entry_ts`), which two
  events may share. `lot_id` is the code's: the event's id for a purchase, the
  `transfer_id` for a transfer that has one, whatever number that is.

Payloads are not trusted: `EventOK` says of which type the numbers of an event
are and nothing of their signs, so that events of nothing, fees above the
proceeds and conversions of a currency into itself are in the log like any
other. The properties say what each of them comes to (`Moved`, `PaysNothing`,
`Exchanges`, `ConvertsNothing`).

The heavy values are handed on as parameters of operators, not as `LET`s used
several times: TLC's coverage expands every use.

## 3. Properties and runs

Each run asks one question of one component, or of one instance of it.

| run | expects | shows |
|---|---|---|
| `dataplane` | pass | `TypeOK`, `OneOwner`, `StrayIsDying`, `SilentOnlyInShutdown`, `SurvivorRaced`, and that the plane settles (`PlaneSettles`), over two runs of the shell |
| `launch` | pass | `TypeOK`, `SingleGrafana`, `ReadyIsAttended`, `UpstreamIsCurrent`, `LaunchSettles` for two launches of Grafana, overlapping or not |
| `launch_lost` | violation | an older monitor takes the new Grafana's handle |
| `fold` | pass | `TypeOK`, `BalanceIsNetCash`, `BorrowsCovered`, `FeesBookedOnce`, `ValueConserved`, `CostConserved`, `MethodsAgree`, `ProfitIsAccounted`, `TrackerFollowsLots` over all logs of five events that move cash, or that trade, or that are odd |
| `fold_loan` | violation | two loans of one conversion share an id |
| `fold_expiry` | violation | an option that expires stays held |
| `overlay` | pass | markers do not lie (`MarkedIsWhole`, `OverlayInv`), and the unpacking protocol implements `Provisioned` (`Implements`) |
| `bootstrap` | pass | a plane that is up is complete (`BootInv`), only the disks in `Wedged` stop a boot in which nothing failed (`OnlyWedgesStop`), what users wrote stays (`UserDataKept`), and boots end up (`BootSettles`) |
| `selection` | pass | `ChoicesKept`, `CatalogOfItsSources`, `TornIsKept` |
| `reconcile` | pass | `ServedIsResolved`, `RequiredIfKnown`, `RenderedIsCurrent`, `UserEntriesKept`, `ReconcileSettles` |
| `reconcile_offline` | violation | without the catalog, required plugins that are in the cache are unlinked |
| `panels` | pass | `PassInv`, `EditsAreSeen`, `NoNeedlessWrite`, `GoodPrefixPublished` |

Properties with `Inv` in their name join a component's type invariant to the
safety property of the run.

*Deadlock* is checked in `reconcile`, `reconcile_offline` and `panels`, where
the user can always launch again. Elsewhere the system may really stop, or the
bounds end it: the shell is off and its runs are used up, the log has reached
`MaxEvents`, every boot thread has ended, `MCSelection` ends after a race.

Three more configurations can be run by hand. They ask what the runs above, or
the theorems, answer for more than one instance:

| configuration | module | expects | shows |
|---|---|---|---|
| `MCLaunch_compute.cfg` | `MCLaunch` | pass | `ReadyIsAttended` for the compute sidecar, which no generation supersedes; `LaunchReadyIsAttended` proves it for both kinds |
| `MCFoldKernel_lot.cfg` | `MCFoldKernel` | violation of `LotsAreEvents` | the lots of one transfer share an id |
| `MCBootstrap_rerun.cfg` | `Bootstrap` | violation of `ApplyIsRerunnable` | a baseline that was interrupted behind `fold_per_event` stops every later boot |

### Bounds

- `dataplane`: two services (the most the code has), three process ids, two
  runs of the shell, one restart, one crash. Three ids allow a child, its
  orphaned predecessor and a third that competes for the port, and they run
  out, so that a failed spawn is forced as well as chosen. Two runs are needed
  for strays; a third repeats the second. One restart (of the code's three)
  reaches both outcomes of `should_respawn`. The proofs cover all bounds.
- `launch`, `launch_lost`: two launches, which give every pair
  of tasks and monitors, three process ids, one restart, two crashes.
- `fold`: logs of five events. Five are enough to buy on margin, to cover in two
  slices at two rates and to sell. A log draws from eight kinds of event that
  move cash, from nine that trade, or from nine odd ones (conversions of a
  currency into itself, movements of nothing, a sale whose fee exceeds its
  proceeds, an expiry, a transfer of one lot without a batch). The transfers
  among the trades are all of one batch. The events are in `MCFoldKernel`: small amounts chosen so that
  lots are split and borrows are covered in part.
- `overlay`: two threads, Grafana's artifact, two releases, two kills. A kill
  leaves one intermediate state, and the second one hits the repair of the
  first. More artifacts do not meet; the proofs cover them.
- `bootstrap`: two kills and two failing calls, for the same reason.
- `selection`: a required and an optional plugin, one source to add, one launch,
  two overlapping source commands, the main thread, any number of kills. The
  run stops where two writers raced (`MCSpec`), because the properties promise
  nothing for the file after that; the theorems are about all behaviours.
- `reconcile`: a required data source and two optional apps of one title, one
  of which re-publishes its version while the other bumps it; two releases,
  one failure, one kill.
- `panels`: four panels of two plugins, one with terse files, one bad in the
  first release; a rename; two acts of users, two lost requests.

### Fairness

- `DataPlane`, `Launch`: threads that can move do (the scheduler of the
  operating system), health checks return (they have a time limit in the code),
  a process eventually binds a free port or exits, and eventually obeys a
  signal. Nobody has to quit, click, crash or kill. `PlaneSettles` and
  `LaunchSettles` are conditional on the shell staying up.
- `Bootstrap`, `Reconcile`, `LibraryPanels`: the one worker thread goes on, and
  the user launches again after a failure. Both are needed: nothing in the code
  retries by itself, so what these properties show is that relaunching is
  enough. Failures and kills are finite by their bounds.
- `Selection`, `ArtifactCache` and the fold state no liveness.

*Symmetry.* Process ids are interchangeable: `MCDataPlane` and `MCLaunch` give a
new process the first free id (`FirstFree`), which is sound for liveness too.
Permutations of the source commands are used in `selection`, a run of invariants
only.

### What the violations show

Each is a disagreement between the code and a sentence of the repository, with
the sentence quoted in `PROJECT.json` ("findings").

1. `launch_lost`: `Shared.child` does not say whose child it is. A monitor that
   is restarting the previous Grafana comes back to the slot, takes the new
   one's handle, and the new monitor finds nothing and ends.
   `ReadyIsAttended` holds when no such thread was under way.
2. `fold_loan`: a conversion whose fee is borrowed in another currency gives
   both loans one id, so the deposit that covers the fee settles the conversion.
   `BorrowsCovered` leaves exactly these events out.
3. `fold_expiry`: the schema says that the kernel closes an option's lot when it
   expires, is exercised or assigned; the dispatcher has no handler for these
   events and the position stays. `CostConserved` (in `HeldAfter`) and the other
   properties of the fold take the code's side: such an event changes nothing.
4. `reconcile_offline`: the catalog degrades to an empty list, the wish becomes
   empty, and `prune` unlinks what it does not find there, required plugins
   included. `RequiredIfKnown` states what does hold.

Two smaller ones have a configuration and no finding:

- `MCFoldKernel_lot.cfg`: a lot that is transferred in is named after its
  transfer where there is one (`RW/03-functions/fold_kernel.sql:751`), not after
  its event, as `schemas/portfolio_events.payload.md:168` says ("`source_id` =
  `lot_id`"); line 173 lets several lots have one transfer. The lots of a batch
  then have one id. `ClosuresFirstInFirstOut` says what holds: each lot by the
  event that opened it, and the lots of a batch together by their id.
- `MCBootstrap_rerun.cfg`: an apply that stopped between `fold_per_event` and the
  record of its success cannot be run again, although the plan of the data
  plane says that `apply.sh` "must remain safe to re-run": the drop of the
  aggregate (`fold_kernel.sql:26`, without CASCADE) is refused while the view
  uses it. `OnlyWedgesStop` counts these disks among the `Wedged`.

### Seen while modelling

Behaviours a reader of the models should know of; the properties say where they
end.

- *Teardown.* `supervise` reads `shutting_down` when `wait` returns and spawns
  later (`R/dataplane.rs:470`); Launch's monitors never read it
  (`R/lib.rs:78-80`). `SurvivorRaced` states what the teardown does guarantee.
- *Ports.* A failed launch or respawn leaves handle and port published
  (`R/grafana.rs:214`, `627`); `free_port` releases its probe before the
  program binds (`R/grafana.rs:637`); the start-up kill does not wait until
  ports are free.
- *Bootstrap.* The states in `Wedged` need repair by hand: a cluster whose
  initdb was killed, a `control_db` without its roles, and a `fold_per_event`
  created before the baseline was recorded. The other way round, a baseline that
  runs over a complete schema because a query failed is stopped at the same drop
  before it takes anything away.
- *Unpacking.* A launch that prepares an artifact while another does may get a
  partial tree; the overlay's `remove_dir_all` that fails makes `cp -R` copy
  into the directory it finds.
- *Selection.* Files are truncated in place, although the comment at
  `R/catalog/sources.rs:44` says "atomically". A file torn by a kill fails every
  later read and nothing repairs it; `TornIsKept` is the good side of that. A
  click between a launch's read and its write is lost.
- *Reconciler.* Documents of data sources are never pruned (the directory of
  apps is); an optional plugin that fails to install keeps its old link
  although nothing is provisioned for it.
- *Library panels.* Panels of plugins that were removed stay; the first bad
  panel keeps all later ones, of all plugins, from being published; a catalog
  that cannot be reached makes a pass that publishes nothing and succeeds.
- *The fold.* `closures_per_event` reads a key the kernel does not write
  (`quantity`, the kernel writes `qty`); a sale whose fees exceed its proceeds
  leaves the balance unchanged, and the fee is booked all the same; a conversion
  of a currency into itself on margin covers its own loan before the loan is in
  the registry, which then stays open for ever; after a sale of more than is held, average cost
  has realised profit on units never held while FIFO has not; a lot bought on
  margin keeps the provisional FX rate 1 after its loan is covered.

## 4. Proofs

All theorems hold for any values of the constants that satisfy the assumptions
named in the modules, which say no more than that bounds are numbers, that
names are not confused, that sets and orders are of the things they are said to
be of, and that there are finitely many currencies. Listed in `PROJECT.json`
("theorems"):

| module | theorems, each `Spec => []P` unless said otherwise |
|---|---|
| `DataPlaneProofs` | `DataPlaneTypes` (`TypeOK`), `DataPlaneOwnership` (`OneOwner`), `DataPlaneStrays` (`StrayIsDying`), `DataPlaneReports` (`SilentOnlyInShutdown`), `DataPlaneTeardown` (`SurvivorRaced`); of `BootSpec`: `BootstrapInvariant`, `BootstrapUpIsComplete` (`BootInv`), `BootstrapOnlyWedgesStop` (`OnlyWedgesStop`), `BootstrapKeepsUserData` (`=> UserDataKept`) |
| `LaunchProofs` | `LaunchTypeCorrect` (`TypeOK`), `LaunchSingleGrafana` (`SingleGrafana`), `LaunchReadyIsAttended` (`ReadyIsAttended`), `LaunchUpstreamIsCurrent` (`UpstreamIsCurrent`) |
| `ArtifactCacheProofs` | `TypeCorrect` (`TypeOK`), `MarkersTell` (`MarkedIsWhole`), `CacheImplements` (`Spec => Implements`); of `OverlaySpec`: `OverlayKeepsCache` (`=> Spec`), `OverlayImplements` (`=> Implements`), `OverlayMarkersTell` (`MarkedIsWhole`), `OverlayTells` (`OverlayInv`) |
| `SelectionProofs` | `SelectionTypes` (`TypeOK`), `FilesSayChoices` (`ChoicesKept`), `NothingOverTorn` (`TornIsKept`), `OwnCatalog` (`CatalogOfItsSources`) |
| `ReconcileProofs` | `ReconcileInvariant`, `ReconcileServesResolved` (`ServedIsResolved`), `ReconcileHasRequired` (`RequiredIfKnown`), `ReconcileRenders` (`RenderedIsCurrent`), `ReconcileKeepsUserEntries` (`Spec => UserEntriesKept`) |
| `LibraryPanelsProofs` | `PanelsInvariant`, `PanelsPublished` (`PassInv`), `PanelsEditsAreSeen` (`Spec => EditsAreSeen`), `PanelsNoNeedlessWrite` (`Spec => NoNeedlessWrite`) |
| `FoldKernelProofs` | `FoldTypes` (`TypeOK`), `FoldBalance` (`BalanceIsNetCash`), `FoldTrackers` (`TrackerFollowsLots`), `FoldCosts` (`CostConserved`), `FoldMethods` (`MethodsAgree`), `FoldProfit` (`ProfitIsAccounted`), `FoldLoans` (`BorrowsCovered`), `FoldFees` (`FeesBookedOnce`), `FoldValue` (`ValueConserved`) |

With these, every safety invariant and action property that a passing run
checks is a theorem. Each inductive invariant below
was itself checked by TLC, on instances with more kills, faults or launches
than the run where that was feasible, before it was proved. Each proof has one
lemma per action, named for it (`...Keeps`), and frame lemmas for the parts of
the invariant an action does not touch.

### DataPlane

None of the last four is inductive. The proof is by one invariant,

    IInv == TypeInv /\ Shape /\ OneOwner /\ Strays /\ SilentOnlyInShutdown /\ Teardown

- `TypeInv` is `TypeOK` and that a thread that has not given up is within the
  restart cap, without which counting one more restart leaves the type;
- `Shape` tells who holds a handle from where the threads are: a supervise
  thread holds its child exactly while it waits, a slot is full exactly between
  a spawn and the take that follows, the supervise threads started so far are
  those of the services `bring_up` has passed, and `bring_up` has not begun
  while the shell is off or still killing strays;
- `Strays` states `StrayIsDying` pattern by pattern while the start-up kill is
  under way;
- `Teardown` adds to `SurvivorRaced` that no thread can enter its spawn window
  once the flag is set: this is what makes `racing`, fixed at that moment,
  still right later.

There is one lemma per conjunct (`NextTypeInv`, `NextShape`, ...), with one
step per action. The lemmas at the head of `DataPlaneProofs` and `LaunchProofs`
say what the process operators do to each process. Frame lemmas (`OwnerFrame`, `StrayFrame`, `TeardownFrame`) deal with
the actions that leave a conjunct's part of the state alone.

### Launch

    IInv == /\ TypeInv /\ Shape /\ Gens /\ Handles
            /\ Attendance /\ Sole /\ Lone /\ UpstreamIsCurrent

- `Shape` tells, from where a task and a monitor are, which program the task is
  starting, whether it has bumped the generation, and who holds a handle;
- `Gens`: the generation counts the launches that bumped it, and no two of them
  remember the same value, so "current" names one launch;
- `Handles`: a handle in a slot, in a task or in a monitor is that of a child
  nobody has waited for, and no two places hold the same one. A handle is a
  number, and the number is used again once the child is reaped: without this
  a monitor could wait for somebody else's process;
- `Attendance` (behind `ReadyIsAttended`): without a race the slot holds the
  handle of the program whose task or monitor put it there, and a monitor that
  ended has reported;
- `Sole` and `Lone` (behind `SingleGrafana`): at most one launch may still spawn
  a Grafana or touch the shared handle or port, namely the current one or one
  that got past its look at the generation before; and if there is a Grafana
  nobody told to stop, it is the one that launch minds.

The two conjuncts about Grafana are under `Calm`, the hypothesis of the
property: a race ends what they say, and nothing is claimed of compute, which
has no generation. The kill of a relaunch re-establishes them: it marks every
Grafana, and `racing` is decided at that moment by looking for threads in their
window.

### Bootstrap

    BootIInv == BootTypeOK /\ ClusterInv /\ ControlInv /\ BaselineInv /\ OnlyWedgesStop

`UpIsComplete` says something of the end of a boot only. The invariant says at
every statement what is there: all that the statements before it add (`Before`),
and from `fold_per_event` on nothing else. The statements of the scripts are
tabulated once (`BaselineTable`, `ControlTable`), and `RunFacts` executes one of
them. `BaselineInv` has the fact the whole bootstrap rests on, that a recorded
baseline is a complete one, whatever was read of the tracker: what is built on
`fold_per_event` (`Late`) is there only with it, and with it there the third
statement is refused (`OnlyTheDropIsRefused`). `StatementLeaves` says what any
other statement leaves, and `OnlyWedgesStop` is kept because the objects a
`Plain` statement must not find are then absent.

### ArtifactCache and Overlay

    IInv == TypeOK /\ Shape /\ Solo /\ Known /\ MarkedIsWhole

`MarkedIsWhole` alone is not inductive: that the marker may be written depends
on what the thread knows of the disk at each of its steps (`Known`), and it
knows that only because it is alone with the artifact (`Solo`). `Shape` bounds
markers by the release shipped, so that an upgrade makes every marker stale.

`EnsureMoves` reduces the steps of `ensure` to one form: a thread goes to
another place and leaves its artifact's directory in another state, which is
right for that place if the thread is alone. `MovesIInv` preserves the invariant
for that form, and `MovesPromised` maps it to a step of `Provisioned` or a
stutter; `Ask`, `Kill` and `Upgrade` have their own lemmas.

`OverlayKeepsCache` maps the steps of `Overlay` to steps of `ArtifactCache` or
stutters, so that all this holds with the overlay too. `OverlayInv` itself needs

    OverlayIInv == OverlayTypeOK /\ IInv /\ CopierHasTree /\ Alone /\ Laying /\ Kept

`Laying` is what a launch that lays the overlay alone knows of the parts behind
it. `Kept` is the link between the two markers: where the overlay's names our
version the archive's is current, so `IInv` says that no thread is in the middle
of an exchange, and nothing can take the tree away from under the overlay
(`EnsureLeavesMarked`).

### Selection

    IInv == TypeOK /\ FileInv /\ JobInv /\ ReaderInv /\ CacheInv

(the three in the middle for every file, writer and launch). `FileInv` is
`ChoicesKept`, `TornIsKept` and that a missing file was never written. `JobInv`
ties a write under way to the choice it will complete: what the job is about to
write is what the user will then have chosen, unless it read what has been
replaced, and it is not about to write over a file a crash left. `ReaderInv` and
`CacheInv` are `CatalogOfItsSources`, for launches and for the cache. `JobStep`
and `ReaderStep` deal with actions that move one writer or one launch;
`WrittenKeeps`, used by commands and launches alike, is where a write makes all
other jobs on the file stale. The theorems are about `Spec`; the run stops
behaviours after a race only to stay small.

### Reconcile

    IInv == /\ TypeOK /\ DirInv /\ Progress /\ CurInv
            /\ Installed /\ Documents /\ Dashboards

`ServedIsResolved` rests on when a marker can be trusted. It cannot always: a
removal that was killed may leave a marker in half a directory. `DirInv` says
why that does no harm: the marker a launch looks for is that of the release it
wishes for or of a newer one, releases only go up, and a directory is removed
only when its marker is another; so a marker of that release (`Bound`) is in a
whole directory. The marker is the digest, hence a release that re-publishes a
version is told apart; the mutant in which any marker will do breaks this. `Progress` has
what is left to do, and that every required plugin is installed or still to
come, because a failure of one ends the launch. `CurInv` is about the plugin
under way, `Documents` and `Dashboards` about what is rendered so far; two
plugins of one title take turns in one directory, and the last one copied is an
owner.

### LibraryPanels

    IInv == TypeOK /\ Folders /\ Versions /\ Position /\ Published

- `Published` is `SuccessIsComplete` for the panels a pass has gone by. It is
  kept because a user can only spoil a panel by touching it, and cannot delete
  the folder of a panel that is there (`Folders`);
- `Position` has `Seen`: before a write the panel is what was read, or its
  version is higher. With Grafana's comparison of versions this is
  `EditsAreSeen`;
- `Versions` bounds a panel's version by two for each edit and one for each
  release, which makes the type of `version` inductive. It holds because a pass
  writes only what differs: `NoNeedlessWrite` in numbers.

That `Skip` finds the next panel needs the least element of a set of positions;
`HasLeast` gets it from the well-foundedness of `<` on the naturals.

### The fold

The fold's invariants relate sums: over the log, over lots, over closures. Three
layers carry the proof.

*Numbers.* `Rationals` has numbers in lowest terms. `FoldLemmas` shows first that
`Reduced` depends on the ratio only, then takes each law of arithmetic from the
integers by giving the numbers a common denominator (`Common2`, `Common3`).

*Lists.* Induction over data is done with sets. A recursive function is what its
equations say because a function that satisfies them exists, by induction; a
claim about all lists is proved for the set of lengths for which it holds
(`Induction`, from `WellFoundedInduction`). So `Taken`, `Rest`, `Kept` and the
sums are characterised once: what is taken is the lesser of the amount and the
total (`TakenWell`), what is left weighs what was there less what was taken
(`RestWell`), and a list is taken from its front.

*Events.* A lemma per operator of the cash side says what a deposit, the covers
it pays for, or a drain does to a bucket (`CashKeeps`, `MovedBy`, `GapsKept`,
`DrainWell`); one per handler puts them together, and all of them end in one
relation, `EventStep(st, s, ev)`: what the event moves in each currency, what it
does to each instrument, and what to each tracker. Each theorem is an induction
over that relation and never looks at the handlers again:

| theorem | the invariant that is inductive |
|---|---|
| `FoldTypes`, `FoldBalance` | `Books` (the state is of its type, lots are positive, each bucket holds lots or borrows) and `Balanced` |
| `FoldTrackers` | `TrackersFollow`: the same for every log, foreign or not |
| `FoldCosts` | `CostKept`: quantities of both accumulators against `HeldIn`, and what the lots cost against `Results` |
| `FoldMethods` | `GapsClosed` for cash (`FxGap`: the gains apart are the costs apart), `CostsAgree` for instruments |
| `FoldProfit` | `CyclesKept` and `ClosuresKept`; the latter needs that the lots lie in the order of their events (`InOrder`), which is what makes "oldest first" more than a sum; its sums are by either key of a lot (`Keys`), the event that opened it and its `lot_id` |
| `FoldLoans` | `LoansInOrder`: every entry of the registry belongs to an event of the log and, but for the two kinds of conversion, says what its lots owe (`LoanOK`); no lot belongs to an event to come |
| `FoldFees` | `LoansInOrder` and `FeesInOrder`: an event has one entry in the registry at most (`Keyed`); what is booked in a currency and what its entries still have to book (`FeeBal`) are the fees of the events |
| `FoldValue` | both of those and `ValueInOrder`: unless an event spends what lacks a basis (`SpendsBasis`), `ValueHeld`: what purses and open entries are worth (`Worth`) is what went out less what came in; no lot belongs to a loan that the registry lacks (`AllEntered`); a purchase whose loan is settled has a basis that comes to what the loan cost (`Priced`); registry and bases agree with the log (`Noted`) |

`FoldLoans` needs to look inside an event. A single deposit covers any number of
loans, one lot after the other, and each cover changes the registry, the fees,
the gains and the bases that the next one reads. `CoveredFn` is that loop as a
function of the number of lots covered; by induction over it, after every lot an
entry of the registry has been covered for what was taken of its lots so far, and
is settled from the lot that pays the rest of it, which is the last one it has
(`DebtTaken`, the part of what is taken that belongs to one loan). Then a deposit
keeps every entry right (`LoansKept`), a drain makes a loan with a new number
that no lot has, and the handler that registers it does so with the quantity the
drain reports (`DrainOK`). `EventTo` gives the state an event leads to as a
function of the state before, so the walk through the handlers has the same
shape as that for `EventStep`.

`FoldFees` adds the registry up by event: `Ledger` has, for each event of the
log, what its entry counts for by a weight (`FeeW` here), and `LedgerStep` and
`LedgerEntry` say what replacing or entering one of them makes of the sum. A
cover that settles a purchase takes its fee out of that sum and books it
(`CoverFees`); `CoveredAll` carries it through all covers of a deposit. So moving
cash leaves `FeeBal` alone, also while it settles other loans, and an event adds
its own fee to it, once (`EventFees`). That a new entry does not replace one that
is still open follows from `LoansInOrder`: the event has no loan before.

`FoldValue` weighs everything in base currency. `Worth` is the gains of all
currencies less what their lots cost (`Purses`), plus `Ledger` with the weight
`LoanW`: less what the loan of a purchase has cost so far, and for an open
conversion what it is still to gain. Parts of an event that touch neither leave
it alone (`Still`); for every other part a `WorthStep` says by how much it changes
it. A cover of `qty` at the rate `fx` takes `qty ** fx` off, whichever of the two
consumed the loan and whether or not it is the last (`CoverWorth`). `CoveredAll`
carries that through the lots of a deposit (`CoversWorth`), which then cost what
the deposit put in; it may, because of `Entered`, kept at each turn: a lot whose
turn has come belongs to an entry, and by `LoansInOrder` that entry is still open
and owes at least that lot. When the last of a purchase's loan is paid, its basis
is set so that it comes to what `LoanW` has by then (`Priced`). An event then changes `Worth` by
what it takes out less what it brings in (`ValueAfter`), and no later event
revises what earlier ones brought in or took out (`FlowsKept`). `ValueOf` and
`OpenValue` show that `Worth` and the two sums are the terms of `ValueConserved`.
Sums over currencies need that there are finitely many, `CurrencyAssumption`.

`FxGap` is why the FX gain does not depend on the method: a deposit, a cover, or
a drain that is a conversion, each leave the difference between the two gains
equal to the difference between what the two methods say the lots cost. Nothing
is assumed of the signs of prices, rates, amounts or fees. Only quantities are
known to be positive, and only where the handler tests them.

### Only model-checked

- Liveness (`PlaneSettles`, `LaunchSettles`, `BootSettles`, `ReconcileSettles`,
  `GoodPrefixPublished`): liveness under fairness and ENABLED are out of the
  prover's reach.
- That the fairness of the specifications lets their steps happen (ENABLED).

## 5. Not modelled, and plan

Not modelled, with the reason for each in `PROJECT.json` ("components"): sign-in
(external protocols), the views of the pipeline (state of a streaming database),
the metrics (real analysis), the WSL supervisor script, pins, the wire formats of
the registry, the user interface beyond its calls of `launch`, and build scripts.

1. *Supervision, abstractly*: a supervised service that is down, up, given up
   or abandoned; `DataPlane`'s supervise thread shown to implement it.
2. *Two launches in Reconcile*: the unpacking of `ArtifactCache` with links and
   documents on top.
3. *Compute's cache*, the as-of joins of the pipeline, and `twr` and `drawdown`
   as operators against reference definitions.
4. *The fold*: `finish`, FX fees, multipliers.
