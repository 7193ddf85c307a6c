# frpc-web: specification, model checking and proofs

frpc-web is a Go panel for frpc and frps: it keeps its own state in one JSON
file, lets one operator in by a password, shows the frpc configurations it finds
on the disk, and scrapes the dashboards of frps servers.  This directory holds
TLA+ specifications of its core, the TLC models that check them and the proofs
that TLAPS checks.

`PROJECT.json` maps every definition to the lines it models and lists the runs,
the mutants, the findings, the hazards and the theorems.

## Inventory

| Component | State | Operations | Interacts with | What makes it hard | What makes it correct |
|---|---|---|---|---|---|
| Login limiter, `internal/server/ratelimit.go` | map client -> failures, lock, last failure | `Allow`, `Fail` (with a sweep), `Reset` | called three times by the login handler, each call under its own lock | overlapping logins, a clock, a decay window shorter than the longest locks, a bounded map | a lock keeps the client out for its whole time; failures are neither forgotten early nor kept for ever |
| State file, `internal/storage/store.go` | `state.json`, its temporary files, the v1 backup; the state in memory | `Open`, `save` | every other component that stores something | each system call may fail, the process or the machine may stop between any two | the file is always a complete state; what was reported as saved is saved |
| Access, `internal/app/service.go`, `internal/server/auth.go` | password hash, sessions | login, logout, change of the password, session check, key reset | state file, limiter, every API route | requests are several critical sections with bcrypt between them; failed saves; restarts | only the password in force lets in; acknowledged changes and logouts are final; nothing is served before the first password |
| frps targets and monitor, `service.go`, `internal/app/frps_monitor.go` | list of targets and history (settings), states in memory with status, sample and rates, a refresh token, one goroutine per scrape | create, update, delete, test; loop, scrape, parse, save of the history | state file; dashboards over HTTP | load-change-save without a lock, a channel that drops, scrapes that overlap because they may take longer than their interval, counters that restart | every edit reaches the monitor; the page is right again a fixed time after the last change; a rate is one of a counter against itself; the saved history follows the states |
| Audit log and health events, `store.go`, `auth.go` | bounded lists in the state | add, list in pages, clear | every API route that changes something | entries stored after their requests, cuts and clears between two pages | the newest entries are kept, who clears the log is in it, whoever pages through it misses nothing |
| Configuration scanner, `internal/app/configscan.go` | cache of servers and their status | scan, probe, refresh | files, admin API, save and import of files | concurrent refreshes, cancelled contexts, a shared slice | the cache follows the files |
| Configuration files, `service.go` | files on the disk, temporary files | read, save, import, export | scanner, editor, frpc, whoever edits them by hand | replaced in several system calls, by overlapping requests, with kills in between | files are replaced whole, at once, at most once, and with their own text |
| Configuration parser, `configparse.go` | none | parse | scanner | scopes that open, close and come again in any order | a key goes to the scope it stands in |
| Self-update, `selfupdate.go`, `cmd/release-sign` | the binary, a temporary file | check, apply, restart | GitHub, settings | concurrent applies, a restart under running requests | a complete, verified binary at any time |
| frpc runtime and admin client, `internal/frpc` | none | status, reload, tail of a log | frpc | blocks that cut lines, of a file that grows | whole lines, the last ones |
| HTTP server, `server.go` | none | routes, middleware | all | order of the middleware | see Access |
| Process, `cmd/frpc-web/main.go` | none | start, key reset, stop | all | stop during requests | see State file and Access |
| Web client, `web/src` | pages | polls, editor, dialogs | API | late answers | an answer goes where it was asked for |

## Modules

    DurableRegister        what the panel expects of its state file (abstract)
      ^ refined by
    StateFile              Open and save, one system call at a time
      StoreProofs            (of AuditLog too)
      MC_StateFile
    Auth                   password and sessions, on memory and file of the store
      AuthProofs
      MC_Auth
    LoginLimiter           the limiter and the login handler around it
      LoginLimiterProofs
      MC_LoginLimiter
    FrpsTargets            targets, monitor loop, scrapes, saved history
      FrpsTargetsProofs
      MC_FrpsTargets
    FrpsTimes              the times of the monitor, which two modules share
    FrpsStatus             status and sample of one target, in real time
      FrpsMonitorProofs      (of FrpsRates and MetricsText too)
      MC_FrpsStatus
    ConfigScanner          cache of frpc configurations, saves and imports
      FrpcProofs             (of ConfigText and LogTail too)
      MC_ConfigScanner
    FileWrites             what a save or an import may do to the files (abstract)
      ^ refined by
    ConfigFiles            editor, save, import and export, one system call at a time
      ConfigFilesProofs
      MC_ConfigFiles
    SelfUpdate             download, check, replacement and restart of the binary
      SelfUpdateProofs
      MC_SelfUpdate
    MC_Readings            five small components, each behaviour of one of them:
      MetricsText            the answer of a dashboard
      FrpsRates              the rates of overlapping scrapes
      ConfigText             the scopes of a frpc configuration
      LogTail                the last lines of a growing log
      AuditLog               entries, clearing and paging

Operators named `Mutant_...` stand before the definition they alter.  They are
plausible mistakes in that piece of code; nothing of the specification uses
them.  Put in place of the definition, each must break the property that
`PROJECT.json` pairs it with.

### LoginLimiter

`attempts` is the map of the limiter, `flight` the login each handler is
verifying, `now` the clock.  `Allow`, `Fail` and `Reset` are one step each
because the limiter holds its mutex for the whole call; between them other
handlers run, as in `apiHandler.login`.  A refusal (429) changes nothing and is a
stuttering step.  `Tick` lets time pass and bounds the time a login takes by
`LoginTime`, which the assumption `LoginTimeAssumption` keeps within the failure
window: a bcrypt comparison takes well under 15 minutes.

### StateFile and DurableRegister

Each system call of `save` (create, write, sync, rename) is a step that may fail;
`Crash` and `PowerLoss` may come between any two.  `file` is what processes
see, `fileDisk` the contents a power loss may leave: a rename may be undone until
the disk has settled, and data that was not synced may be torn.  The v1 backup is
written in place in two steps.  `DurableRegister` is the promise: whole values,
replaced at once.  `Implements` is that promise with `file` and `fileDisk` for the
register's two values.

### Auth

`mem` and `disk` are the state in memory and in the file; a call of the store is
one step because it holds the store's mutex to the end of its save, and `Save(ok)`
is the outcome of `StateFile`: all or nothing.  A request is a sequence of steps
(`req[h].pc`).  `LoginBegin` and `ChangeCheck` are the first look at the password,
`LoginVerify` and `ChangeVerify` the second; bcrypt runs between steps.  `Admit` is
`VerifySession` in the middleware, `Gate` the check for the first password.
`valid`, `born`, `wrote`, `acked` and `gone` are history variables: they guard
nothing.

### FrpsTargets

`targets` and `saved` are the two settings, `states` the monitor's map (the
number of points a history has ever held stands for the history), `refresh` the
channel of capacity one, `loop` the goroutine of `Run`, `scrape` those of
`scrapeOne`, `api` the API calls.  An API call loads the list when it begins and
saves what it made of it later, as the code does without a lock.
`persistHistory` holds `saveMu` from `PersistSnapshot` to `PersistWrite`;
`DeleteFrpsTarget` does its load and save of the history without it.  The order
of the targets within one pass of the loop is left open.

### FrpsStatus

One target, since targets do not touch each other's state.  `target` is its entry
in the list, `up` the dashboards that answer, `state` what the monitor keeps of
it, `scrape` the goroutines.  Time is counted in ticks of the monitor's ticker and
kept as ages: `attempt` since the last attempt, `age` of a request since it was
sent and of an answer since it was read.  `Tick` waits for what is due, so that no
request outlives its timeout and no goroutine holds an answer longer than
`MaxDelay`: that is the real-time assumption, and the only one.  An age is right to
within a tick, so that an attempt that is `Interval` old may or may not be due
(`MaybeDue`): the code dates it after the tick that led to it, or in the middle of one
when it was forced, and compares the time since then with the interval.  One tick later it is (`SurelyDue`).
`RefreshNow` is an edit of another target, which forces an attempt of this one too.
`quiet` counts the ticks since the last edit or change of a server and `calm` those
since the last edit of any target; `Settle` is twice the life of a scrape, an
interval, one tick for the attempt that was not quite due and one to be past it all.

### FrpsRates, MetricsText

`FrpsRates` follows one counter of one server through overlapping scrapes (`reading`):
`Answer` is the moment the server puts it in its answer, `Parsed` the moment the clock
is read, `Stored` the comparison with the last sample.  `OtherAnswer` brings another
number in its place: an edit of the address keeps the sample, so that a scrape of the
new server is compared with one of the old, and an answer longer than the 2 MiB that
are read of it leaves proxies out, which then count 0.  `of` is a history variable that
says whose number it is: the counter's, in the life of the server that it is in
(`life`) or in an earlier one (`past`), or another (`other`).  A rate is kept as a growth and a time, so
that a division by zero is a rate of the wrong type.  The unit of traffic is what
the server carries in a tick.  `MetricsText` is `parseFrpsMetrics`, one step per line:
`metrics` is what has been read of the answer, each line the metric, its labels, its
value; `acc` is what the parser has gathered, and `Sampled` what it would return if
the answer ended here.

### ConfigText, LogTail

`ConfigText` is both parsers, one step per line: `config` is what has been read of the
text, each line a header, a key with its value, a line of an array or blank; `toml`
and `ini` are the variables of the two parsers.  A table of the parser is named by
the line it was made at, and a string by the line it stands in, which is what makes
two values of a key differ.  An array that goes on over several lines is entered
when it begins and grows with them; the code enters it when it is complete, and only
then is something told of it.  `format` is what `looksLikeINI` says of all of the text
before the first line is read.  The texts are those TOML or frpc's INI allow, with
keys that have no dot of their own; the reference is where a line stands.

`LogTail` is `tailLines`, one step per block (`ReadBlock`) and one per part of it
(`SkipBlank`, `TakeLine`), while frpc appends to the file (`AppendToLog`).  `tail` is what the
call holds: `pos`, `remainder` and `lines` are the variables of the code, `size` is what `Stat`
said, `left` the parts of the block that the inner loop has still to see.  A text is
the set of the places its bytes have in the file, so that a line that is lost, joined,
cut or given twice differs from a whole one even where all characters are the same;
`Ends`, `FirstPart`, `LastPart` and `WithoutLast` are what `strings.Split` makes of it.  The answer is
compared with the neighbours among the newlines of the file as it was asked for
(`Cuts`, `IsLine`).

### AuditLog

`request` holds what the entry of a request will say once its handler is done;
`Serve` is the handler and `AddAudit` what `auditMiddleware` does after it.  Entries
are numbered in the order in which they are stored (`stored`, `cleared`: history).
A page is a set of places in the log: which of the entries that match have so many
others before them (`Before`).  `client` reads page after page until it has seen as many as there are.

### ConfigFiles and FileWrites

`disk` and `kind` are the files, `list` the scanner's cache, `temp` the temporary file
of each request, `handler` the requests, `page` and `reads` the editor and its calls.
A text has the file it was written for and a revision; a file that is being
written holds a part of one.  A save and an import are the same steps, one file
after the other: `RefuseLink`, `CreateTemp`, `WriteTemp`, `Rename`, or `WriteFails`, then
`Finish` with its refresh.  The operator may close the editor and open it for any file
while calls of it are under way, as nothing in the page prevents it; their answers
then come as they come, to whatever the editor shows (`ReadArrives`, `SaveAnswered`).
`late` is a history variable that says that one of them has come where it can do
harm: a text to an editor opened for another file since, or the answer of a save to
an editor that waits for its text, which it makes ready for a save of the text it
showed before.  `Kill` ends all requests at any step; `Edited` is somebody
at the machine.  `FileWrites` is the promise: what was asked for is written whole,
at most once, or dropped, and nothing else is touched.  `ours` is a history
variable that tells a write of the panel from one from outside; without it the
abstract specification could not say "at most once".

### ConfigScanner

`files` is the disk, `up` whether the frpc of a file answers its admin API,
`cache` the list of the scanner, `work` the loop and the calls.  A refresh is
`Discover` (the names), `SnapshotStatus`, one `ReadFile` per file, `Install`,
`CopyServers`, one `Probe` per server with an admin port, and `StoreStatuses`: the
places where `scan` and `probeStatuses` take or leave the mutex, or read outside
it.  A save or an import writes its files and then refreshes in its own request,
whose context `Cancel` cancels; the loop's context never is.  Of a content only
its age and its kind matter: with an admin port, without, not parsing.  `quiet`
and `wasDown` are history variables.

### SelfUpdate

`exe` and `tmp` are the binary and the temporary file of all updates; each is two
pieces.  `req[h].file` says where the file is that a call has open: a rename
takes it along from `tmp` to `exe`, and further to nowhere.  `Open` is the
`O_TRUNC` of `os.WriteFile`, which empties the file for every call that has it
open.  `Exec` and `Exit` are the two ends of the goroutine that restarts the
process 800 ms after the answer, `Start` is systemd.  The build has a signing
key and the process may replace its binary; otherwise `ApplyUpdate` refuses at
once.  What the signature and the checksum compute is left out: a download is
the release that was asked for or it is not.

## Runs

| Run | Instance | Shows |
|---|---|---|
| `limiter` | 2 clients, 2 handlers, threshold 2, lock unit 1, window 3, room for 1 key, clock to 9 | all properties of the limiter |
| `state_file` | 1 old and 3 new states | atomicity, reported saves, backup kept; refinement of `DurableRegister` |
| `auth` | 2 handlers, 2 passwords, 2 sessions, 2 password writes | all properties of access |
| `auth_sessions` | the same | finding: a session of the old password survives a change |
| `frps_targets` | 1 target, 1 caller, 2 scrapes, 2 points, fair | no lost refresh, ordered saves of the history; edits reach the monitor, scrapes end |
| `frps_targets_delete` | 1 target, 1 caller, 1 scrape | finding: the history of a deleted target is written back |
| `frps_status` | 2 addresses, 3 scrapes, interval and timeout of 2 ticks, delay of 1 | the page is right a fixed time after the last change; scrapes stay few once no target is edited |
| `scanner` | 1 file, the loop and 1 call, 2 writes, fair | exact after a quiet refresh, only scans list; the cache settles |
| `config_files` | 2 files of which one at most is a link or read-only, 2 requests, 1 call of the editor, 1 revision, up to the first late answer | whole files, each with its own text until an answer is late; refinement of `FileWrites` |
| `readings` | answers of 3 lines, configurations of 5, logs of 8 bytes in blocks of 2, 2 scrapes, 5 audit entries of which 3 are kept | readings against their references, rates, the audit log |
| `self_update` | 1 call at a time, 3 releases, fair | a whole binary at any time; what was announced is installed and runs |
| `self_update_overlap` | 2 calls, 1 release | finding: overlapping updates leave a torn binary |

Why the bounds are enough.  Every hazard of the limiter is about two logins of one
client, or a second client that fills the map; the clock runs past the longest
lock of two such failures and the window after it.  The steps of a save do not
depend on the values, so a state of the old structure, one that changes when it
is loaded and two that do not are all there is to tell apart.  In `Auth` each
property speaks of one request and what overlaps with it; two writes of the
password are an old and a new one, two sessions one from before and one from
after.  For the history, two scrapes that store one point each suffice to be
saved in the wrong order; what more callers of the API could do to the refresh
token is proved instead.  The properties of the scanner speak of one file and of
two refreshes that overlap, the loop's and a request's; a second write makes a
content that a refresh has read an old one.  Three releases let an update follow
one that was cut off and one whose restart is still due.  A target of `FrpsStatus` has an
old and a new address, and as many scrapes as can live at once with an edit or
two; for longer intervals and more scrapes there is the proof.  Two files and two
requests are all that a temporary file, a bundle or the editor can mix up; more
revisions would only tell apart texts of one file, which no property does.  Its
search ends where an answer is late (`CONSTRAINT OnTime`), since `TextsStayWithTheirFile`
asks nothing from there on; with one call of the editor that answer is one of a save.
For more calls, and for the writes after a late answer, there are the proofs.  The
readings are of data: a short text already has a total before and after its
proxies, a scope that is left and comes again, an array in an element, a line
over up to four blocks, blank lines and none at the end, in a log of one character
besides the newline, since places tell lines apart; three entries and pages of
one or two give a page that is full, one that is not and one that is cut in
between.  Handlers, clients,
passwords and scrapes are interchangeable; symmetry is used except where a run
checks liveness.  Deadlock is checked except for the limiter, whose clock ends at
`MaxTime`, and for the readings, whose texts end at their bounds.

`MaxTime`, `MaxSessions`, `MaxWrites`, `MaxPoints`, `MaxRelease`, `MaxTraffic`, `MaxEntries`,
`MaxLosses`, `MaxMetrics`, `MaxLines`, `MaxSize` and `MaxTail` bound counters and inputs for TLC only;
the number of `Scrapers` bounds goroutines that the code starts without limit.

### Fairness

`FrpsTargets`: `FairSpec` assumes that the loop goes on
(its goroutine is never blocked), that a refresh token that stays in the channel
is taken in the end (`select` chooses at random among the cases that are ready),
that each scrape goes on (the HTTP client has a timeout of 5 seconds), and that
whoever waits for `saveMu` gets it in the end (Go's mutex hands itself over to a
waiter that starves).

`ConfigScanner`: the ticker fires, and a refresh that has begun goes on, since
its probes have a timeout of 3 seconds each and nothing else in it waits.
`StatusSettles` supposes in addition that the requests come to rest.  It has to:
while refreshes keep overlapping, each may take over from the cache a status that
another has left there and install it again after a newer one was stored.

`SelfUpdate`: the timer of a restart fires, and systemd starts what has ended
(`Restart=on-failure` in `install.sh`).

`FrpsStatus` states its promise in real time and needs no fairness: that the loop
and the scrapes are not late is in the guard of `Tick`.

Nothing is assumed of the operator of the editor, of the callers of the API, of the files, or of GitHub.

## Findings

Held to a run each, which TLC finds violated:

1. A login that overlaps a change of the password may leave a session of the old
   one (`service.go:189`; `auth_sessions`).
2. A scrape may save the history of a target after it has been deleted
   (`service.go:550`; `frps_targets_delete`).
3. Two overlapping updates may leave an incomplete binary (`selfupdate.go:127`;
   `self_update_overlap`).

Stated in a module as a property that the code does not keep, to be seen by
naming the property in the configuration given:

4. `LoginLimiter!CountSurvivesItsLock`: the count of failures does not survive its own
   lock from the 7th failure on (`ratelimit.go:46`), although the release notes
   (`CHANGELOG.md:247`) promise locks that grow up to 30 minutes: a client that waits
   for the end of its lock has four free failures again.  `MC_LoginLimiter.cfg` with
   one key, one handler, `LockThreshold = 5`, `LimiterMaxKeys = 8`, `LoginTime = 0` and
   `MaxTime = 14`.
5. `StateFile!BackedUpBeforeOverwrite`: a backup of the v1 state that fails, or that a
   crash cut short, does not stop `Open` from overwriting that state (`store.go:81`),
   although the comment at `store.go:77` says why it is made.  `MC_StateFile.cfg`.
6. `ConfigScanner!StoppedWasDown`: a client that goes away while its save or import
   probes the servers makes the panel show them as stopped (`configscan.go:160`),
   which `models.go:131` says of unreachable ones.  `MC_ConfigScanner.cfg`.
7. `ConfigFiles!ReadOnlyFilesAreSkipped`: an import replaces a read-only file of a
   writable directory (`service.go:773`), which the comment at `service.go:805` says
   is skipped.  `MC_ConfigFiles.cfg`.
8. `ConfigFiles!TextsNeverStray`: after a late answer the editor offers to save the
   text of the one file under the name of the other, and does (`ServersPage.vue:79`,
   `ServersPage.vue:107`).  `MC_ConfigFiles.cfg` without its `CONSTRAINT`.
9. `FrpsRates!RatesAreNeverMadeUp`: after an edit of the address the rate is the
   difference of two servers (`frps_monitor.go:333`, since `service.go:378` keeps the
   sample); a proxy that the last sample left out shows all it has ever carried as
   the rate of one interval (`frps_monitor.go:436`); and so does a counter whose
   server was started anew after it answered and before the answer was stored.
   `MC_Readings.cfg`.

Seen while modelling, and not held to a run: `ChangeAccessKey` decides whether the
current password is needed before it hashes the new one, so that of two first
changes that overlap the later replaces the earlier unchecked (`service.go:177`);
edits of targets load, change and save the list without a lock, so that one of two
may be lost (`service.go:379`); a scan that has read a file before it was saved may
list the older content for up to one tick after the save has returned
(`configscan.go:134`); a file that does not parse is not listed at all, although
`models.go:131` names a status for it (`configscan.go:125`); a section `[COMMON]` makes a
file an INI file and is then not read (`configparse.go:38`, `configparse.go:220`);
keys of a TOML table below a list element, as `[proxies.transport]`, go to the root
and are not shown with the proxy (`configparse.go:149`); a metrics line whose label
holds a blank is dropped (`frps_monitor.go:568`); an import that wrote nothing and a
save of a file that is not writable answer 200 and are audited as a success
(`service.go:715`, `service.go:836`); the secrets of rules are masked in the cache
itself (`configscan.go:76`).

## Proofs

All theorems hold for every value of the constants that satisfies the named
assumptions of their modules.

* `LoginLimiterProofs`.  `IInv` adds to `InFlightPredatesLock`,
  `LockMatchesFailures` and `ThresholdLocks` that a login in flight is no older than
  `LoginTime`.  The three need each other and it: a login that fails late must
  not find its entry swept or decayed while a lock depends on it.  The action
  properties `LockNeverShortened`, `NoEarlyForgiveness` and `GrowsOnlyWithLiveEntries`
  follow, the last with the finiteness of the map (`MapIsFinite`) and the library's
  facts about cardinalities.
* `StoreProofs`.  Of `StateFile`, `IInv` ties the temporary file to the step of save, and says
  that no content the disk may hold is torn.  `SaveIsAtomic` is step refinement:
  `Rename` is `Write`, a failure of `save` within `Open` is `Crash` of the register,
  the other calls are stuttering.  `BackupsAreKept` needs `BackupIsNew`: a backup that
  is being written replaces none that is complete.  Of `AuditLog`, `AuditIInv` adds to
  the three properties that what has been stored, cleared and is under way agrees
  (`CountsTell`) and that of the entries a client wants and has not seen each still
  comes on the page it asks for next or on a later one (`UnseenComesLater`), which
  holds because whatever is stored meanwhile comes before them and what is cut off
  after them (`NewestComeFirst`, with an injection between the places before and
  after a step).
* `AuthProofs`.  `IInv` adds that a change has verified nothing before its check
  (`NotYetVerified`), that the writes of the password that were acknowledged or are
  about to revoke are no newer than those of the memory and the file
  (`WritesInOrder`), that the password in force is among those each request under
  way has seen (`CurrentIsValid`), and that a session that is gone had been issued
  (`GoneWereIssued`).  `AckedChangeIsFinal` needs the second: it is what makes a
  crash between the two saves harmless.  `AcceptedWasInForce` needs the third.
* `FrpsTargetsProofs`.  `IInv` adds to `NoLostRefresh` that one scrape at most is
  between taking `saveMu` and leaving it (`OneSaver`), that scrapes and deletes are
  about targets that have been in the list (`ScrapesSeen`, `DeletesSeen`), and that
  for a target that was never dropped the saved history is no newer than the
  snapshot on its way to the file, and that no newer than the state
  (`HistoriesTrail`).  `SavedHistoryNeverGoesBack` is the step of it.
* `FrpcProofs`.  Of `ConfigScanner`, `IInv` says that a quiet refresh is the only one
  (`QuietAlone`) and that what it has read, installed and probed so far is what is
  there (`QuietGood`), whatever the cache was before; `FreshStart` says that it
  begins with no list and a context that nobody has cancelled.  Of `ConfigText`,
  `ConfigIInv` says that after every line the parser is in the scope of the last header
  (`TomlWhere`, `IniWhere`) and that every entry of its tables is what the last line for
  the key has said in the scopes that share the table (`TomlEntriesTell`,
  `IniEntriesTell`); for the lines to come it needs that an open array is the last
  thing said (`TomlOpenTells`) and that a section is named by its first header
  (`IniSectionsTell`).  The lemmas before it (`GrownSaid`, `GrownLastSaid`, ...) say what one
  more line changes in what a text says.
  Of `LogTail`, `LogIInv` says of a call that reads that the lines it has found stand
  between neighbours among the newlines, from the end of the file on (`Told`), that
  what is left to see and to read ends where the last of them begins (`ShortTells`,
  `UpTo`), and that once there are enough, later ones, which may be out of their place
  since the inner loop stops in the middle of a block, come after those the answer
  takes (`FullTells`).  That a text with a newline has a last one, which `Parts` splits it
  at, is the least-number principle (`SmallestOne`, `LargestOne`), from the library's fact
  that `<` is well-founded on `Nat`.  `AppendIInv` is why the file may grow: what comes is
  behind all the places a call has in its hands.
* `FrpsMonitorProofs`.  Of `FrpsStatus`: that the page is right after a time says
  nothing of the states before.  `IInv` adds that a scrape that may still tell
  something outdated is at least as old as the last change (`OldOnesAge`), that a due
  target gets its attempt before time goes on (`DueBegins`), and that, as long as the
  page is wrong, the attempt that will correct it is due or under way, and young
  enough not to be outlived by an old one (`RightInTime`).  `StatusIsRightInTime` is that
  at the moment when no attempt can still be in time.  That an attempt may be a tick
  later than its interval is part of it: `DueBegins` holds for the age at which a
  target is surely due.  `ScrapesNeverPileUp` has an
  invariant of its own, `FInv`: each scrape that began since the last edit of any target can be given
  an age since its beginning (`Dated`, an existential, since the state does not hold
  it), any two of them an interval apart (`Spaced`); the bound is then the pigeonhole
  principle over the parts of a life, by the library's facts about injections.
  Of `FrpsRates`, `RatesIInv` says that what a scrape has read of the counter, and the
  last sample of it, are no more behind the counter than the server can have carried
  since (`ReadNotLongAgo`, `SampleNotLongAgo`), and that of two of them the one dated
  later is ahead by no more than the time between the dates and that of an answer
  (`DatesTell`, `SampleTells`), whatever is read and stored of other counters between
  them.  `RatesOfOneCounterArePlausible` is `SampleTells` for the reading that is compared;
  where the two are not of one counter (`Fair`) nothing can be promised (finding 9).
  Of `MetricsText`, `MetricsIInv` says of every prefix of an answer that what has been
  gathered is what the prefix says: totals (`TotalsTell`), proxies (`ProxiesTell`) and
  whether it is of a frps at all (`SeenTells`).  Reading line by line is what makes a
  fold over a text provable: the induction is the one over the steps.  The sum is the
  same fold on both sides and is never expanded.
* `ConfigFilesProofs`.  `WInv` says that the disk holds whole texts only
  (`FilesAreWhole`), that a temporary file that is complete holds what its request
  was asked to write and that no request has a file left to write that it has
  written (`WritesWhatWasAsked`), and that the editor saves what it has read
  (`EditorIsReady`).  `SavesAreAtomic` is step refinement: `Rename` is the write of
  `FileWrites`, `Kill` drops what was asked, the calls before it are stuttering.
  `TextsStay` adds, as long as no answer was late, that what is about to be written
  goes to the file it was written for (`TextsMatch`), and that the editor shows the
  text of the file edited whenever it is ready, or would be if no save were under way
  (`EditorMatches`); what it shows otherwise is left open, since no text can be saved
  before a read has replaced it.
* `SelfUpdateProofs`.  `TypeCorrect` holds whatever calls overlap; it needs
  `OpenIsThere`, that the temporary file exists while somebody has it open, so that
  whoever renames or removes it moves the file of everybody.  The other two theorems
  are about behaviours in which no two calls overlap (`[]OneAtATime`), for any number
  of goroutines; the code does not see to that (finding 3).  `IInv` says that a call
  that writes has verified what it writes (`WrittenWasVerified`), that the temporary
  file is the only one anybody has open (`OpenIsTemporary`), so that nobody writes to
  the binary itself, and that releases are announced in order (`AnnouncedInOrder`).

Each proof has one lemma per action (or group of actions) that can disturb the
invariant; the temporal step is last.

Each of these modules also proves the type invariant of its component; the runs check
it only for `ConfigFiles`, `SelfUpdate` and `FrpsRates`, and the rest of their time goes
to other properties.

Every safety property of the passing runs is proved.  Only model-checked: the
liveness properties (`EditsReachTheMonitor`, `ScrapesEnd`, `ContentSettles`, `StatusSettles` of the scanner,
`AnnouncedRuns`): liveness under fairness is out of the prover's reach.  So are
recursive operators and the induction theorems of the library; the proofs about texts
do without, since a parser that goes line by line, or part by part, makes of the
induction over a text one over steps.

## Not modelled

* Power loss for the configuration files and the binary: the code does not sync
  them (`service.go:747`, `selfupdate.go:135`), so that nothing can be promised.
* The data race on the rules of the cached servers, and the masks themselves: the
  code does what a property would forbid, and nothing else reads the masked copy.
* The proxy status (`status.go`), the calls of the admin API, the overview's sums and
  the test of a target: requests that change no state and whose parts do not
  meet.
* Health events: nothing of the program adds one.
* Quoting, comments and escapes in texts, versions, signatures and checksums:
  abstracted to what the rest tells apart.
* Static files, routing, the release signing tool, the installation script and
  the look of the pages.
* Temporary files left behind by a failed or interrupted save (`store.go:160`,
  `service.go:754`), which nothing removes and nothing reads, and the state of a target
  that a late scrape makes anew after its deletion (`frps_monitor.go:387`), which no
  list shows.
