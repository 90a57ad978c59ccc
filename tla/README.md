# torbox-fuse in TLA+

TLA+ models of torbox-fuse, the TLC configurations that check them, and proofs
checked by TLAPS. Paths below are relative to the repository root.

torbox-fuse mounts the media of a TorBox account as a read-only file system. A
process lists the TorBox libraries, turns the cached files into media records,
keeps the records in a bbolt file and mounts a tree of them. Reads of a mounted
file go through a disk cache of blocks to a temporary download URL. A ticker
and a web page keep the mount up to date and tell Plex and Jellyfin to scan it.

## Inventory

| Component | State | Operations | Talks to |
|---|---|---|---|
| Block cache, `internal/cache/block_cache.go` | `entries`, `used`, `inflight` under `mu`; `.blk` and `.blk.tmp` files; `lastEnd`, `prefetchGen`, `prefetchSem` | `New` (scan, evict), `Read`, `getBlock`, `maybePrefetch`, `readCached`, `writeCached`, `evictLocked` | the callback `fetch` of the file handle; the disk |
| File system, `internal/fusefs/fs.go` | the tree, an `atomic.Value` | `Swap`, `Lookup`, `Readdir`, `Open`, `Read` | the cache, the resolver, the client; called by kernel threads |
| URL resolver, `internal/fusefs/url_resolver.go` | table of resolved URLs with an expiry, under `mu` | `Resolve`, `Invalidate` | the client |
| TorBox client, `internal/torbox/client.go` | none | `ListDownloads`, `ListDownloadsPage`, `CreateTorrent`, `DeleteTorrent`, `ResolveDownloadURL`, `ReadRange` | TorBox over HTTP |
| Refresh manager, `internal/refresh/refresh.go` | `baselines`, `hasRun` under `mu` | `Run`, `Poll` | the client, the records, the store |
| Store, `internal/store/store.go` | the bucket of records | `ReplaceAll`, `All` | bbolt |
| Process, `cmd/torbox-fuse/main.go` | the mount, the tickers | startup, `refreshOnce`, `addTorrent`, `deleteTorrent`, shutdown | everything above |
| Web page, `cmd/torbox-fuse/web.go` | none | handlers for refresh, add, delete; browsing, grouping, search | `refreshOnce`, the store |
| Plex, Jellyfin, `internal/plex`, `internal/jellyfin` | none | `RefreshMountPaths`, `NotifyMountPaths` | the media servers, which scan the mount |
| Media records, `internal/media/process.go` | a pool of workers per call | `ProcessItems`, subtitles | classification, names |
| Names, `internal/media/canonical_case.go`, `plex_naming.go` | none | `ApplyCanonicalRootCasing`, `ApplyPlexVersionNaming` | |
| Tree, `internal/vfs/tree.go` | directories and files | `Build`, `ListDir`, `GetFile` | |
| Classification, `internal/media/intelliseg.go`, `torrent_name.go` | none | `Classify` | |
| Configuration, templates | none | | |

What is hard here, and what makes each part correct:

- **Shared calls of the cache.** FUSE threads and read-ahead goroutines ask for
  the same block at once. One of them fetches and the others wait. Correct
  means: one fetch per block at a time, nobody waits for an answer that never
  comes, and every call returns.
- **Disk and index of the cache.** A file is renamed into place before it is
  registered; a file is read after the mutex was released; a crash can happen
  between any two system calls; the system calls fail, and the errors of some are
  ignored. Correct means: no cut-off block is ever served, every block on disk
  that could be removed is accounted for, the sum `used` is exact, and eviction
  keeps what was just stored.
- **Expiry of URLs.** Many reads share one URL. It dies at any time, and the
  table can be given a dead URL back; the body of an answer can be short. Correct
  means: a read returns the bytes asked for, as far as TorBox has sent them, or
  an error, and errors stop when TorBox is well.
- **Read-ahead.** Reads start goroutines for the blocks ahead, which compete for
  two slots and may be overtaken by a seek. Correct means: a slot comes back
  whichever way a goroutine returns, and what is fetched ahead belongs to where
  somebody reads, or knows that it is stale.
- **Names.** The workers deliver records in any order, names are read by two
  parsers, and folders are renamed for spelling and labels after that. Correct
  means: every video is in the tree once, in the folder of its work, under the
  same path at every refresh.
- **Requests around a swap.** The kernel keeps inodes longer than a tree lives.
  Correct means: a handle has one whole record, that of the tree it was opened
  in.
- **Refresh.** A ticker and web handlers run `Run` and `Poll`; only those two
  are serialized; the swap and the notification are not. Listings fail half
  way, TorBox changes between two requests, the process dies. Correct means:
  the baselines belong to the stored listing, a quiet probe has overlooked only
  what it is meant to overlook, and the mount ends up showing TorBox.

## Modules

| Module | Models | Kind |
|---|---|---|
| `SharedFetch` | what `getBlock` promises its callers | abstract specification |
| `BlockCache` | `block_cache.go` without read loop and read-ahead | state machine, refines `SharedFetch` |
| `BlockCacheProofs` | | proofs about `BlockCache` |
| `Sums` | | lemmas on sums over finite sets and on counting by a map |
| `ReadAhead` | `maybePrefetch` of `block_cache.go`, with the calls of `getBlock` it shares | state machine |
| `ReadAheadProofs` | | proofs about `ReadAhead` |
| `ReadPath` | `fileHandle.Read`, `BlockCache.Read`, the resolver, the two requests | state machine |
| `ReadPathProofs` | | proofs about `ReadPath` |
| `Fingerprint` | the probe of `refresh.go` as operators on libraries | pure operators |
| `FingerprintProofs` | | proofs about the probe |
| `MediaServers` | which libraries of Plex and Jellyfin a notification scans | pure operators |
| `Refresh` | `Run`, `Poll`, `refreshOnce`, tickers, notifications, mutations, paging, crash | state machine over `Fingerprint` and `MediaServers` |
| `RefreshProofs` | | proofs about `Refresh` |
| `ReleaseNames` | `parseTorrentName`, `Classify`, `technicalLabel` | pure operators |
| `MediaRecords` | `ProcessItems`, casing, version labels, subtitles, `vfs.Build` | state machine over `ReleaseNames` |
| `MediaRecordsProofs` | | proofs about `MediaRecords` and `WebPages` |
| `Mount` | `Lookup`, `Open`, `Getattr` of `fs.go` around a swap | state machine composed with `MediaRecords` |
| `MountProofs` | | proofs about `Mount` |
| `WebPages` | `buildMountEntries`, `groupTorrentSummaries`, the order of `store.All` | pure operators on `MediaRecords` |
| `MCBlockCache`, `MCReadAhead`, `MCReadPath`, `MCRefresh`, `MCMediaRecords` | symmetry sets, reads, releases, libraries and media servers for TLC | |

### BlockCache

One action is one step another goroutine can observe: a critical section of
`mu`, a system call, or the request upstream. `pc` is the place in `getBlock`:

| Place | Code | Action |
|---|---|---|
| `lookup` | `readCached` 213-221 | `Lookup` |
| `read`, `drop` | 222-227 | `ReadFile`, `Drop` |
| `join`, `wait` | `getBlock` 112-121 | `Join`, `Wake`, `Cancel` |
| `fetch` | `fetchBlock` 143 | `Fetch` |
| `open`, `fill`, `rename` | `writeCached` 235-241 | `OpenTmp`, `FillTmp`, `RenameTmp` |
| `register`, `evict` | 242-249, `evictLocked` | `Register`, `Evict` |
| `publish`, `leave` | `getBlock` 127-130 | `Publish`, `Leave` |

`atime` is abstracted to a ranking of the blocks, bytes to their number, the
call record to the thread that leads it. The eviction removes one file per step
while the mutex is held (`MutexFree`), because a crash can interrupt it.
`Crash` empties the memory and leaves the files; `Scan` and `BootEvict` are
`New`. Errors of the disk are choices of the environment: of `ReadFile` also
where the file is there, of the three steps of `writeCached`, and of `os.Remove`
(`Remove`), whose result `removeLocked` and `writeCached` ignore. `left` is not in
the code: it keeps which block files could not be removed since the start, at
most `MaxLeft`; a new file of the block or a restart, which scans the directory,
takes a block out of it. Power loss (a rename that reaches the disk before the
bytes) is outside the model: the operating system survives a crash here.

### ReadAhead

One file, since generations and the end of the last read are kept per file, and
the slots are shared by all. A read that has its bytes comes to `Note`, the
critical section of `maybePrefetch`: it either goes on (`Follow`) or is a seek
(`Seek`). `Spawn` is one turn of the loop that starts goroutines. A goroutine is
an element of the bag `work`, because two can be alike: `Check`, `TakeSlot`,
`Recheck`, `TaskGet`, `EndCall`, `Release` are its steps. A goroutine does not
need the number of its generation, only whether `sameGeneration` will hold, so
`Seek` marks all of them, and the readers that have read the generation but not
started theirs, as stale. `span` is not in the code: it keeps between which ends
there have been reads since the last seek. `getBlock` is reduced to hit, join,
lead and end; `BlockCache` has its steps.

### ReadPath

`Begin` starts a read at any offset. `Take` is the body of the loop of
`BlockCache.Read`, for a block of which `n` bytes are there; `Receive` decides
between the next block, the retry and EIO.
The calls of `getBlock` keep the steps that matter to the callers: join, wake,
publish, leave. A URL is a generation number, `origin` the one TorBox still
serves, and `Remember` stores a URL whatever happened to the table since it was
asked for, as `url_resolver.go` 40-42 does. `known` says whether TorBox reports
the size of the file. `out` is the sequence of offsets whose bytes were
returned, so a hole or a byte returned twice is visible. An answer is a number of
bytes or an error: as a fault, `ReadRange` succeeds with any shorter body, also
an empty one, and what is not empty is stored (`cached` is how many bytes of each
block are on disk). `cut` is not in the code: it keeps which blocks have ever
been sent short.

### Fingerprint and Refresh

A library is a sequence of items with an id and the flag `cached`.
`Fingerprint` translates `windowFor`, `renderFingerprint`, `baselineFor` and
`probe` for libraries of any length. `Refresh` runs them: `Main` is the startup,
`Ticker` the goroutine of both tickers, and each member of `Web` a handler. A
probe of a long library is two steps and a listing is one step per page, since
TorBox may change between two requests. `stored` and `tree` keep the listing
that records were made from; `Visible` says what of it shows under movies and
series. `Commit` is the transaction of `Run`, `Adopt` its last assignments, and
`Swap` comes after the mutex was released, and after it the notification.

| Place | Code | Action |
|---|---|---|
| `polling`, `probe`, `head` | `Poll`, `probe` | `LockPoll`, `Probe`, `ProbeHead`, `PollFails` |
| `refresh`, `list` | `Run` 49-63, `ListDownloads` | `LockRun`, `List`, `RunFails` |
| `commit`, `adopt` | `Run` 64-74, `store.All`, `store.ReplaceAll` | `Commit`, `Adopt`, `RunFails` |
| `swap` | `refreshOnce` 87, startup 72-77 | `Swap` |
| `notify` | `RefreshMountPaths`, `NotifyMountPaths` | `AskServer`, `RequestScan` |

`MediaServers` computes from the sections of Plex and the folders of Jellyfin
the scans a notification requests: for each directory, the first section that
has it; every folder that has one, once. `turn` is the server being told, and
`request` its request: 0 for the list, then the scans. Any request can fail,
with or without effect, and a timeout takes the rest of that server's with it.
Two variables are not in the code. `missed` remembers for the properties which
servers' last notification did not go through, and `overtaken` whether the
listing in the store was committed while another refresh stood between its `Run`
and its `Swap`.

### ReleaseNames

A name is a sequence of tokens; the kind of a token says which regular
expressions find it, and the last dot of a name cuts it in stem and extension,
as `filepath.Ext` does also for names of items. Everything after the
expressions is translated: which spans are noise (`Marked`), the first run of
text that is none (`FirstUnmatchedTitle`), which year counts, a year that is a
title, the two ways to find season and episode and their precedence, samples,
menus, directories of extras, editions, and what folder and name come of it
(`Classify`).

### MediaRecords

`Refresh` keeps listings because the records are a function of them; this
module opens that function, and asks whether it is one. A worker takes a video
(`Take`) and delivers its record (`Deliver`) in any order; `Collected` cases
the roots and forms the groups of duplicates, sets of indices of records;
`LabelGroup` labels one group, in any order because the code ranges over a map; `Finish` matches the subtitles,
sorts, and goes to the next source; `BuildTree` is `vfs.Build`; `Refresh` does
it all again, for the same library or for one that may follow it, and keeps the
records of before in `earlier` if the library is the same.

A text is the sequence of its words. How a word is written in small letters,
whether it has capitals, and its part of `titleLikeScore` are given in
`Letters`; which words are parts of which, in `Within` (`ContainsText` is
`strings.Contains`, for which "show 1" is in "show 10"). The pure parts are operators: `CanonicalRoot` with the order of
`betterRootCasing`, `LabelOne` for one round of the loop of
`ApplyPlexVersionNaming`, `FindMatchingVideo`, `RecordPath`, `AddFile`.

### Mount and WebPages

`Mount` interleaves the requests of the kernel with the refreshes of
`MediaRecords`. An inode keeps the record of its first `Lookup` until `Open` or
`Getattr` write it again from the tree they load (`Load`, `Write`), and a handle
copies it (`Copy`). `fileNode.rec` has no lock and is many words long: its parts,
here the key and the rest, are written and copied one at a time in any order.
An inode can be opened without a `Lookup`, which is what the kernel's two
seconds of cached entries amount to, also when its path has left the tree.
`clashed` is not in the code: it marks the inodes on which two requests met that
had loaded different records.

`WebPages` states what the pages compute from the store: the tree of
`buildMountEntries`, built from the records in the order of their keys, and the
torrents of `groupTorrentSummaries`.

## Runs

| Run | Checks | Bounds |
|---|---|---|
| `BlockCacheSafety` | `TypeOK`, `SingleFlight`, `WholeBlocks`, `NoOrphan`, `UsedAccounting`, `NewestSurvives` | 3 threads, 2 blocks of 1 or 2 bytes, cache of 2: a leader, a waiter and a late caller; two blocks that do not fit, so every store may evict; crashes unbounded, no block file that cannot be removed |
| `BlockCacheLiveness` | `NoOrphan`, `UsedAccounting`, `EveryCallReturns`, `ImplementsSharedFetch` | 2 threads, 2 blocks of 2 bytes, up to 2 block files that cannot be removed, which is both, no symmetry |
| `ReadAheadSlots` | `TypeOK`, `SlotsAreHeld`, `WorkFollowsReader`, `ReadsReturn`, `SlotsComeBack` | 2 readers, at most 4 goroutines, 2 slots, 3 blocks and a window of 2: goroutines without a slot, blocks behind the end of the file, a seek between every two steps |
| `ReadPathSafety` | `TypeOK`, `ReturnsWhatTorBoxSent` | 2 readers, blocks of 2 bytes, a file of 3 (a short last block), reads of 1 and 3 bytes from every offset up to one behind the last block, size reported or not, 1 expiry, 1 other failure or short body |
| `ReadPathLiveness` | `EveryReadReturns`, `ReadsRecover` | the same with a file of one block |
| `ReadPathExpiry` | `OneExpiryIsAbsorbed`, **violated** | 2 readers, 1 expiry, no other failure |
| `ReadPathTail` | `TailIsReadable`, **violated** | 1 reader, a file of two whole blocks, size not reported |
| `RefreshSafety` | `TypeOK`, `Serialized`, `BaselineMatchesStore`, `QuietProbeIsSound`, `LastStoredIsMounted`, `MountConverges` | 1 source, 1 web handler, 3 ids, windows 1 and 2, pages of 2, 2 changes, 1 fault: libraries shorter than, as long as and longer than the window and a page |
| `RefreshTicker` | `ServersConverge` | 2 sources, no web handler, 2 changes, 1 fault, both media servers: two sections with the movies, a folder with both directories, one with one and one without an item ID |
| `RefreshSwap` | `MountShowsStore`, **violated** | 1 web handler, 1 change, no fault |
| `MediaRecordsSafety` | `TypeOK`, `EveryVideoOnce`, `WorksKeepTheirFolder`, `OneSpellingPerTitle`, `SpellingIsStable`, `LabelsKeepApart`, `SubtitleBesideVideo`, `TreeShowsRecords`, `NothingIsHidden`, `OpenServesMount`, `PageShowsMount`, `PageShowsTorrent` | 3 workers, 2 sources, 450 libraries: three versions of a movie in three spellings; a pack with two versions of an episode and one subtitle, and the episode again in other items; extras of a season that collide with a label; an item with videos of which one's name begins the other's; paths that two sources share; two spellings that tie in all but the key; each pair of 21 releases of six works (a film, its final cut, its extended version, its remake, a film called after a year, a show), with their extras, samples and menus; and a library of one movie that is added again or deleted, whose path two callers use |
| `MediaRecordsSameView` | `SameLibrarySameView`, **violated** | the same |

The runs of `Refresh` other than `RefreshTicker` have no media server. The
states of `MediaRecords` and `Mount` are finite without a bound, since the
libraries are given. The bounds are `MaxTasks` in `ReadAhead`, which keeps a read
from starting while too many goroutines are alive, `MaxLeft` in `BlockCache`,
`MaxExpiries` and `MaxFaults` in `ReadPath`, and `MaxChanges` and `MaxFaults` in
`Refresh`; the last five cap what the environment does, never what the program
does. `BlockCacheSafety` and `BlockCacheLiveness` share the work: three threads
for the first, files that cannot be removed for the second, since both at once
would be too many states. Each property is accompanied by a mutant, a definition
with a plausible bug that stands before the one it varies; each is named after
its bug, and its run finds the property violated when it takes that place.

### What the violated runs show

- `ReadPathExpiry`: `getBlock` closes a call (line 127) before it takes it out
  of the table (line 129). A waiter of a fetch that failed with 403 invalidates
  the URL and tries again, finds the finished call still in the table, and gets
  the 403 again. Its only retry is used up without a request, and the read
  fails with EIO although TorBox would have served it.
- `ReadPathTail`: when TorBox reports no size, a read that crosses the end of a
  file whose length is a multiple of the block size gets 416 for the block
  behind the end and drops the bytes it had.
- `RefreshSwap`: `refreshOnce` swaps after `Run` has released the mutex. Two
  refreshes can store in one order and swap in the other, and the mount shows
  an older listing than the store and the baselines have. `LastStoredIsMounted`
  shows that there is no other way to get there, and `MountConverges` that the
  next resync repairs it.
- `MediaRecordsSameView`: `findMatchingVideo` searches the videos of an item in
  the order the workers delivered them; they are sorted only afterwards. Where
  an item has two versions of an episode, the name of its subtitle depends on
  that order. A resync of an unchanged library renames it and counts as a
  change of the visible media.

Observations that are not runs of their own:

- A caller that misses the cache before another one's fetch ends, and looks at
  the table after it has left, fetches a cached block again.
- `ReadRange` looks at the status of an answer and cuts a body that is too long;
  a 206 with fewer bytes than the range, which HTTP allows, or with none, passes
  for the block. If not empty it is stored, and until it is evicted every read
  that comes to its end stops there without an error, as if the file did, while
  `block_cache.go` 20 says that a fetch returns "exactly size bytes at off when
  available". `ReturnsWhatTorBoxSent` is what the code does keep: nothing but such
  a block, the end of the file or the size asked for ends a read; without such
  blocks reads return what was asked (`WholeBlocksWholeReads`).
- `scan` takes `.blk` files only. What a crash between the write and the rename
  leaves is called `.blk.tmp`, is never counted, and stays until the same block is
  stored again; after two crashes the directory can be larger than `CACHE_SIZE`.
- A block file that could not be removed has no entry, is not counted, and no
  eviction finds it: `NoOrphan` says that no other file is in that state, and
  that it ends when the block is stored again or the process starts again.
- With a web handler `ServersConverge` fails too, without any failed request:
  after swaps in the wrong order the last scan can be of the older tree; the
  resync mounts the newer one, but compares the store with what it has listed,
  finds no change, and tells nobody.
- Plex is asked to scan the first section that has a directory; another section
  with the same directory is never scanned.
- Casing and labels are computed per source. A movie that is once in the
  torrents and once in the usenet downloads can get one path twice. The mount
  shows the file of the later source under it, the web page the one with the
  larger key, because the store returns records in the order of their keys.
- Two extras of the same name hide one another, in two versions of a movie, or
  in season 1 and in no season of a show (which is shown in season 1).
- Two requests for one inode that loaded different trees write its record
  without a lock (`fs.go` 112, 118): a handle opened then can have the key of
  one file with the link of another, and blocks would be cached under it.
- A read at offset 0 counts as sequential wherever the last one ended, so that
  it leaves the work for the old position as it was. Goroutines take the slots
  in no order: the far block of a window may be fetched and the near one given
  up, and both slots may be taken for one block. `lastEnd` and `prefetchGen` keep
  an entry for every file ever read.
- `filepath.Ext` takes what follows the last dot of an item's name for an
  extension: of `Film.2010` the year is lost. The words of an edition become part
  of the title when they stand between it and the year. A number that looks like
  a year ends the title (`Blade Runner 2049 (2017)` is "Blade Runner"), and a year
  alone at the beginning gives way to what follows (`1923.S01E01.Pilot` is
  "Pilot"). One word behind a last ` - ` is taken for a release group. The year of
  the item comes before those of its files, so that in a collection all films
  get one year. A name of small letters with an edition counts as mixed case.
  `WorksKeepTheirFolder` is therefore a property of the releases in the libraries,
  which have none of these names, and not of any release: for these it is
  false. What holds for any names is the theorem about it (see Proofs).
- Labelling takes the old path of a file out of `usedPaths` (`plex_naming.go`
  65) even where another video still has it; a later label could land on it.

## Fairness

- `BlockCache`: `SF` on the steps of each thread, because Go's mutex hands over
  to every waiter (its starvation mode) and every fetch has a timeout (60 s in
  the HTTP client); `WF` on the startup. `Begin`, `Cancel` and `Crash` are not
  fair: nobody has to read, interrupt or crash.
- `ReadAhead`: `WF` on the steps of each reader and on each step of the
  goroutines as long as some goroutine is there (goroutines that are alike are
  one element of the bag), and on the end of every call, which has a timeout.
  New reads, interruptions and evictions are not fair.
- `ReadPath`: `WF` on the steps of each reader. Retirement, eviction, expiry of
  a table entry and faults are not fair.
- `MediaRecords`, `Mount`: no liveness; nothing in them waits for anything but
  the workers.
- `Refresh`: `SF` on the steps of each actor, for the same reasons; `SF` on the
  two tickers, because `select` chooses among ready channels at random, so each
  tick that keeps firing is taken. Changes of TorBox, mutations, manual
  refreshes and crashes are not fair.

## Proofs

TLAPS proves the following for every value of the constants that satisfies the
named assumptions of each module. These are: positive sizes and windows, a
finite set of blocks and of readers, distinct actors, reads inside the file and
(in `ReadAhead`) inside one block, servers in the order `main.go` makes them,
and in `MediaRecords` a listing without two files of one key (`KeysAssumption`:
the key is made of the source, the item's id and the file's, and is a number in
the model, its place in their order), names that are
sequences and letters that have an integer score (`NamesAssumption`), and in
`WebPages` that the torrents are one of the sources.

| Theorem | Property | Module |
|---|---|---|
| `TypeCorrect` | `TypeOK` | `BlockCacheProofs`, `ReadPathProofs`, `ReadAheadProofs`, `RefreshProofs`, `MediaRecordsProofs` |
| `SingleFlightHolds`, `WholeBlocksHold`, `NoOrphanHolds` | `SingleFlight`, `WholeBlocks`, `NoOrphan` | `BlockCacheProofs` |
| `Implements` | `ImplementsSharedFetch` | `BlockCacheProofs` |
| `UsedAccountingHolds`, `NewestSurvivesHolds` | `UsedAccounting`, `NewestSurvives` | `BlockCacheProofs` |
| `ReturnsWhatTorBoxSentHolds` | `ReturnsWhatTorBoxSent` | `ReadPathProofs` |
| `WholeBlocksWholeReads` | `ReturnsWhatWasAsked` as long as no block was sent short; no property of a run | `ReadPathProofs` |
| `SlotsAreHeldHolds`, `WorkFollowsReaderHolds` | `SlotsAreHeld`, `WorkFollowsReader` | `ReadAheadProofs` |
| `NoFalseAlarm`, `QuietProbe`, `CompletionNoticed` | about the probe, no property of a run | `FingerprintProofs` |
| `SerializedHolds`, `BaselineMatchesStoreHolds`, `QuietProbeIsSoundHolds` | `Serialized`, `BaselineMatchesStore`, `QuietProbeIsSound` | `RefreshProofs` |
| `LastStoredIsMountedHolds` | `LastStoredIsMounted` | `RefreshProofs` |
| `OpenServesMountHolds` | `OpenServesMount` | `MountProofs` |
| `EveryVideoOnceHolds`, `OneSpellingPerTitleHolds`, `SpellingIsStableHolds` | `EveryVideoOnce`, `OneSpellingPerTitle`, `SpellingIsStable` | `MediaRecordsProofs` |
| `SubtitleBesideVideoHolds`, `TreeShowsRecordsHolds`, `PageShowsTorrentHolds` | `SubtitleBesideVideo`, `TreeShowsRecords`, `PageShowsTorrent` | `MediaRecordsProofs` |
| `WorksKeepTheirFolderHolds` | when and only when `WorksKeepTheirFolder` holds | `MediaRecordsProofs` |
| `LabelsKeepApartHolds`, `OnePathEachHolds` | `LabelsKeepApart`, and more, for clear names | `MediaRecordsProofs` |
| `PageShowsMountHolds` | `PageShowsMount`, if no file is a directory of another | `MediaRecordsProofs` |

The argument of each, and why its invariant is what it is:

- `BlockCacheProofs`. The inductive invariant adds to the three properties that
  the registered calls are exactly those of the leading threads, that a thread
  on its way to a rename has written what its temporary file holds, that what a
  leader carries has the right form at each place, and that memory is empty of
  calls while `New` runs. Without the link between table and leaders
  `SingleFlight` is not inductive, and without the one between leader and
  temporary file `WholeBlocks` is not. `used` is the sum of the entries in every state
  (`Accounted`): what `Register` adds is what the entry grows by, what `Drop` and
  `Evict` subtract is what they remove. `used <= MaxBytes` holds only while
  nobody evicts (`Bounded`). That the block just stored survives needs the ranks
  to be distinct (`Ranked`, so that the oldest is one block) and the evicting
  thread to be the only one, with its block on top (`Evictor`). Nothing is assumed
  of `os.Remove`: it fails as often as `MaxLeft` lets it, for any `MaxLeft`.
- `ReadPathProofs`. `Gathered` says for every place of a read what it has
  collected: the bytes from its offset to its position, and that when it ends the
  read is full, or the position behind the file or in a block that was cut. The
  bytes a waiter is given are those of its block because the table has a call
  only for the block that its leader is at (`CallTable`). A call that ended well,
  or a cached block, has a beginning of the block, and the whole of it unless
  TorBox has sent it short (`AsSent`). `WholeBlocksWholeReads` is the case
  `cut = {}`.
- `ReadAheadProofs`. The goroutines are a bag, so the invariant counts them:
  the slots taken are the goroutines at the places that hold one (`SlotsOK`).
  The cap `MaxTasks` of the model is kept because what each reader may still
  start is counted with what is there (`Room`), which needs a reader in the loop
  to be in the window behind its end and that end to be one since the last seek
  (`ReaderWindow`). `WorkFollowsReader` is inductive with those two: a `Seek`
  marks every goroutine and every reader on its way, which maps the bag to
  another with equal counts (`ImageCounts`).
- `FingerprintProofs`. A library equal to its baseline's is never reported; what
  the absence of a report implies; a completed download of the watched part is
  always reported: for libraries and windows of any size, from lemmas on
  pages, on the depth of the last uncached item and on the window.
- `RefreshProofs`. The inductive invariant is `TypeOK`, `Serialized`,
  `BaselineMatchesStore` and `Carried` (who is about to adopt has stored what it
  listed): that the boundary request of a probe names an id needs the baseline
  to be the one of the store, and that needs the mutex. `QuietProbeIsSound`
  follows from them and `QuietProbe`. `LastStoredIsMountedHolds` needs two more
  parts, both as long as the last listing overtook nobody: who is about to swap
  carries what is stored (`CarriedToMount`), and the tree is of the store whenever
  nobody stands between storing and swapping (`MountFollows`). A swap of an older
  listing can come after a newer one was stored only if its refresh stood before
  its `Swap` at that `Commit`, which is what `overtaken` records.
- `MountProofs`. Nothing is assumed of the trees: the steps of `MediaRecords`
  matter only in that they leave the inodes and the requests alone. A record is
  copied part by part, so the invariant says what holds in the middle: requests
  on an inode that have not clashed loaded the same record (`Agreed`), the parts
  a request has written are still so (`Written`), those it has copied are those
  of the inode (`Copied`), and an inode has parts of two records only while
  somebody has still to write (`MixedIsWritten`).
- `MediaRecordsProofs`. While the videos of a source are collected, each is in
  exactly one place: with the feeder (`Queued`), with a worker (`InHand`) or in
  one record (`Delivered`), and none is in no place (`NoneLost`). The records of
  the sources done are `Final`: each is of a listed video or of a subtitle whose
  item has one, and the root folder of a video is `Spelled`, what the library
  alone determines. `Spelled` chooses among the listed videos in listing order;
  that the records in order of delivery give the same choice is `CasingIs`, and
  that there is a best spelling at all, and only one, is `BestSpelling`: two
  spellings are first used by different keys, so their merits differ. From there
  on only names change (`RoundsRename`), so `SpellingIsStable` needs nothing of
  the labels. `SubtitleBesideVideo` needs that every label leaves the name of a
  record a sequence (`Worded`): the name of a subtitle is that of its video
  without extension, with something behind it, and this is true of texts only.
  Hence the first half of the module, which follows texts through the two
  parsers. `AllBeside` is inductive because the records of a source are put
  behind those of the sources before and nothing is renamed after that.
- `MediaRecordsProofs`, the works. `WorksKeepTheirFolder` depends on what the
  parsers read: two films of one title and year share a folder, and should. What
  the program adds to that is the casing, the workers and the labels, and
  `WorksKeepTheirFolderHolds` says that they change nothing: the property holds
  exactly if media type and folded title tell the listed works apart
  (`TitlesTellWorks`). One direction needs that casing never joins more than the
  case (`SpelledFolds`), the other that it joins all of that (`SpelledAlike`) and
  that every video has its record (`NoneLost`).
- `MediaRecordsProofs`, the labels. The invariant between two groups is `Kept`:
  every video's path is in `usedPaths`, a labelled one shares its path with
  nobody, and the groups to come are whole and have their first names. It is not
  true inside the loop, because a label takes the old path out of `usedPaths`
  where another version may still have it; `Labelling` says when a path may be
  missing (its video awaits its label and a version labelled before has left
  the path), and has the next label land on no such path. That needs three
  things of the names (`Clear`), which the code does not check: the short id of a
  video is not a word of another (a name with the id is not looked up again), two
  videos with one path are in one group, and no path that two versions share is
  the name of a third followed by a dash. With them `OnePathEach` holds too: no
  two movies or episodes of a source have one path, labelled or not. They hold
  for all libraries of the runs (TLC evaluates `NamesAreClear` there if `Words`,
  `Clear` and it are copied to a module over `MCMediaRecords`), those with groups
  of duplicates and with the extras of a season included.
- `MediaRecordsProofs`, the tree. `TreeOf` says after every call of `addFile` what
  the tree consists of: the paths of the records so far and what is above them,
  and for each file the last record of its path. It is proved by the loop of
  `Build` for any records, so that `TreeShowsRecords` needs only that the mounted
  tree was built of the stored records (`Mounted`). `SameTree` compares the trees
  of one set of records in two orders. They can differ where a record's file is
  also a directory above another's: `PageShowsMountHolds` therefore has the
  hypothesis `NoFileIsDirectory(all)`. The program does not ensure it for every
  library, because a video is known by its MIME type and may have no extension;
  it holds for those of the runs, where `NothingIsHidden` has it as a part. That
  records of one path are in the same order in the store and in the refresh, as
  far as one source goes, is `Ascending`.

`Sums` proves what the sum of the community modules computes, although it is
recursive: over a finite set a claim that fails somewhere fails at a smallest
subset, which is a first-order fact. `ReadAheadProofs` and `BlockCacheProofs`
count with it. `MediaRecordsProofs` does the same with least numbers for the
loops over a group and over all records (`FoldLeft`, in the lemma `Running`, with
one step for each kind of loop because an operator cannot be a parameter), for
joined texts (`FlattenSeq`) and for the greatest of a finite set. Sorting and selecting are one operator each
(`InOrder`, `Selected` in `ReleaseNames`) that is stated by ranks, so that what
they keep is proved once (`Ordering`, `Selection`).

Only model-checked:

- Liveness (`EveryCallReturns`, `ReadsReturn`, `SlotsComeBack`,
  `EveryReadReturns`, `ReadsRecover`, `MountConverges`, `ServersConverge`):
  fairness and ENABLED are out of the prover's reach.
- `NothingIsHidden`: that no movie or episode is hidden by another record of its
  source is true of the given libraries and not of every one (an extra and a
  subtitle can be called alike). What is proved of it is `OnePathEach`.
- That `NamesAreClear`, `TitlesTellWorks` and `NoFileIsDirectory` hold of a
  library: they are hypotheses about names, and the runs have the libraries whose
  names are hard to tell apart.
- The choice of media libraries, evaluated on the sections and folders of
  `MCRefresh`.

## Not modelled

- Configuration: environment variables read once at startup. Templates:
  generated HTML.
- The search, the statistics, sizes and the order of entries on the web pages:
  wording of a page computed from the records on every request.
- Which strings the regular expressions find. `ReleaseNames` starts from tokens;
  brackets around other tokens are left out.
- The disk below the operating system, the bbolt file, the sizes the kernel
  caches (files are opened with direct I/O, so reads do not use them), clocks.
  The five minutes of a URL are the action `Ttl`.
- Shutdown: it ends the process wherever its goroutines are, which is what
  `Crash` does; the unmount itself is go-fuse's.

## Plan

1. Block cache, read path, refresh with their proofs: done.
2. Media records and media servers: done.
3. Read-ahead, release names, the mount around a swap, the web pages: done.
4. Proofs of the sum `used`, the survival of the newest block, the bytes a
   read returns, the listing that is mounted, the slots of the read-ahead and
   the handles of the mount: done.
5. Proofs about `MediaRecords` and the page of a torrent: done.
6. Proofs of the folders of works, the paths of labelled versions, the tree, and
   the page of the mount: done.
7. Short bodies and failed removals as faults of `ReadPath` and `BlockCache`, with
   their proofs: done.
