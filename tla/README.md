# A TLA+ model of thumbrella

Thumbrella is a thumbnail server in three tiers. Tier 1 (`tier1/`) is the entry:
it takes a URL, looks for an answer in its caches, connects to the source,
inspects the content, takes a cheap shortcut to a thumbnail where there is one,
and otherwise hands the job to tier 2 (`tier2/`, FFmpeg and image decoders) or
tier 3 (`tier3/`, external tools in a scratch sandbox) over HTTP. Tier 1 alone
owns the caches and drives the fallback from tier to tier.

## Inventory

| Component | Source | State | Operations | Hard part | What makes it correct |
|---|---|---|---|---|---|
| Debounce frontend | `cache/mod.rs` (`frontend`, `DebounceLeader`, `debounce_*`) | sticky results, in-flight slots with generation ids, oneshot channels | lookup (hit, join, lead), complete, cancel, drop of the guard, wait with a 30 s timeout | superseded leaders, reused `Arc` addresses, tasks dropped at awaits | a slot always has a leader; only the last elected leader publishes; every lookup returns |
| Handoff chain | `cook.rs` (`run_with_progress`, `apply_handoff_response`), `handoff.rs` | table of handoffs in flight, the cook's tier | choose a tier, lead, join, post, fall back, complete | cooks of one key with different routes, dropped leaders | one deduplicated handoff per key; chain goes on after failures and placeholders; it ends |
| Cache backends | `cache/memory.rs`, `cache/sqlite.rs`, `cache/chain.rs`, `cache/cloud.rs`, `cache/pins.rs` | entries with freshness, retention and pin deadlines, pin aliases | get, get_pin, put, promote, revalidate, claim_pin, evict | links written one after the other by concurrent cooks, delayed background copies, requests that get lost, expiry between steps | copies never renew a lifetime; a background copy never replaces a live render of another cache string; a pin SQLite has advertised keeps its promise |
| Cook | `cook.rs` | status, sources, token, message, render image, deferred writes | resolve_cache, connect, inspect, shortcut, render, hand off, finish, store | early exits, a placeholder's way through several tiers and the cache | every result has a thumbnail that is what it says it is; nothing is stored that hides a better answer |
| Freshness | `cook.rs` (`resolve_cache`), `source.rs` (`CacheHints`), `http_cache.rs` | hints of client, entry and source | conditional GET, serve, revalidate, store | validator of one version stored with bytes of another; deadlines added up over several hops | what is served unasked is within the source's grant; what a 304 confirms was rendered from that version |
| HTTP buffer | `http_buf.rs` | cached blocks, cursor, stream position, EOF | read, seek, range fetch, close | range answers of another length, errors between seek and read | bytes returned for an offset are the source's bytes |
| Fetch protection | `fetch_guard.rs`, `pipeline/connect.rs`, `connect.rs`, `url_safety.rs` | failed URLs, origins in back-off | check, record, connect | cooks of one origin that answer each other's check late | while a window lasts only cooks that had passed the check fetch |
| Inspect, dispatch, deliver | `pipeline/inspect.rs`, `dispatch.rs`, `pipeline/deliver.rs` | media facts, chosen tier, image | sniff, route, fit | three sources of a type that disagree; rounding | a file goes to a tier that claims it; the content lies on the canvas |
| Shortcuts | `pipeline/shortcut.rs` | what was read, where it gave up | one attempt per media kind | offsets inside offsets, files that end early, fall-through to a renderer | decoded bytes are the bytes the container names; the renderer finds the source intact |
| Batch and routes | `routes.rs`, `after.rs` | open jobs, one channel of lines | single and batch requests, progress stream | order and number of lines per item, panics, clients that leave | one final line per item, the response ends |
| Renderers | `tier2/src`, `tier3/src` | decoder and tool chains, child processes | claim, render, fall back, deadline | a tool that is missing, fails or hangs | a renderer leaves the cook in a state the chain can go on from |
| Configuration, CLI, checks, tracing | `config*.rs`, `cli.rs`, `check.rs`, `ux.rs`, `startup.rs`, `tracelog/` | none at run time | parse, print, record | none | out of scope |

Interaction: a request goes through the debounce frontend first; its leader runs
one cook. The cook reads the durable cache chain, validates the source with a
conditional GET, opens the HTTP buffer, inspects and tries the shortcuts, renders
in process or enters the handoff chain, and defers its cache writes until the
response is out. Everything runs as tokio tasks; a task can be dropped at any
`await` when its client goes away. The frontend, the single-flight table, the fetch
protection and the memory cache are shared maps behind locks that are never held
across an `await`; SQLite is shared through a pool.

## Modules

| Module | Models | How state and actions correspond to the code |
|---|---|---|
| `Coalesce` | what debouncing promises | abstract: a request cooks, or shares a result published for its key that it can use |
| `Debounce` | `cache/mod.rs` frontend | `sticky`, `inflight` are the two maps; `id` the `Arc` a task holds, `msg` its oneshot channel, `toSend` the senders a completing leader took out of the slot. One action per critical section and per send; `LeaderAbort`, `JoinerAbort` and `DropLeader` are dropped futures and the guard |
| `HandoffChain` | `cook.rs` tier loop, `HandoffInflight` | `slot`, `waiters` are the table, `tier`, `first`, `leading` the loop's locals, `final` the accepted answer. `PostReturns` is the leader's `complete` and its own use of the answer, which no `await` separates |
| `CacheChain` | `chain.rs`, `memory.rs`, `sqlite.rs`, `cloud.rs`, `pins.rs` | `store[t]` is a link, `alias` the pin table of the last link; a call on a link is one step, everything between two calls interleaves. An entry's `cache` is the cache string a revalidation compares, which several renders may share, its `tok` (history) the cook whose response it is from. `tasks` are the promotions spawned by reads, the requests to the cloud their cook has given up (`put`, `revalidate`, `promote`) and rows the cloud has worked out from what it read and writes later, whatever is there by then (`land`); `setup` is the configured chain |
| `Leases` | what the pins of a durable cache promise (SQLite; memory may evict a pinned row and the cloud caps it) | abstract: an identifier is leased to one key until a deadline, which only moves away, never beyond one lifetime, and ends by the clock alone; what clients are told is covered by a lease |
| `Formats` | `inspect.rs`, `dispatch.rs`, the renderers' lists | pure: `Sniffed` from the three sources in their order, the manifest of each tier, the lowest tier that lists a format |
| `Renderers` | `tier2/renderer.rs`, `tier3/renderer.rs` | the set of outcomes of one call of a renderer: did it claim, is the reader taken, is there an image, was the cook failed |
| `Cook` | `cook.rs`, one cook after another | `entry` is the durable entry, the client's copy is `own`, `pc` the stage. The deferred write of one cook may still wait when the next begins; cooks handed off by a lower tier (`remote`) have no cache |
| `Hints` | `CacheHints`, `http_cache.rs` | pure: hints of a response, their wire form and back, freshness, retention and the headers of a pin |
| `CookFreshness` | `resolve_cache`, stores and revalidations, several cooks at once | a version stands for content and validator; `copy` is what each client keeps, `origin` the source, `now` the clock; `allowed` and `lent` are history |
| `HttpBuffer` | `http_buf.rs` | a page is its length, `wrong` the cached offsets that do not hold the source's byte; `pc` is where a call waits. `Seek` stands for seek, rewind and seek_relative, also those of `SyncHttpReader` |
| `Containers` | the formats `shortcut.rs` walks | pure: the walk over TIFF directories, segments, ID3 frames and a ZIP directory, as the code does it and as a set of everything the container names. A directory is parsed in a buffer (`from`, `upto`) in which the values of its fields are looked up: one value is in the directory, several begin at an offset (`tiff_u32_values`) |
| `ShortcutRead` | `shortcut.rs` calls on the buffer, then a renderer | the order of the pipeline (`step`), what the walk knows (`look`) and what the reader in turn has got (`got`). A read that fails (`ReadFailed`) ends the shortcut, not the cook: the next one, or the renderer, goes on with the cursor where the read left it |
| `Fit` | `pre_scale_to_target`, `fit_to_target`, tier 2's scaling | pure: sizes, with the set of values `f32` rounding may give |
| `Thumbnail` | a cook that reads and delivers | `ShortcutRead` with `image`, what `deliver` made of a decoded size |
| `SqliteEvict` | `evict_oldest` and the statements around it | a row is its size, last use, cost and expiry; `written` marks the step after a write |
| `FetchGuard` | `fetch_guard.rs`, the outcomes of `connect` | `until` is the two caches, `window` (history) whom a window excuses |
| `ToolRun` | `sandbox.rs` and the tools run without it | one tool: limited or not, its phase, whether something still holds its pipes |
| `Answers` | what a batch promises | abstract: every item is answered once or lost, the response ends after that |
| `Batch` | `POST /batch` | `lines` is the channel of the stream, `got` what the client has read; a cook is a check, an answer of the source, progress, a tool, a result, and may panic |

Compositions. `ShortcutRead` extends `HttpBuffer`: each of its actions is one of the
buffer's calls together with the pipeline's step; `Thumbnail` extends it with `Fit`.
`Cook` extends `Renderers`, which extends `Formats`. `CookFreshness` extends `Hints`.
`Batch` extends `FetchGuard` and `ToolRun`, so the cooks of a batch share one fetch
protection and each runs its tool. Refinements: `Debounce` implements `Coalesce`, `CacheChain`
implements `Leases` and `Batch` implements `Answers` (`INSTANCE ... WITH`), all checked and all proved.

`DebounceProofs`, `HandoffProofs`, `ChainProofs`, `FreshnessProofs`, `CookProofs`,
`ThumbnailProofs`, `EvictProofs` and `BatchProofs` hold the proofs. The `MC*` modules add model values, functions and symmetry for
TLC and nothing else. Operators whose comment begins with "Seeded fault" are deliberate
mistakes: put in the place of the definition they stand next to, they must break a property.

## Runs

| Run | Asks | Bounds, and why they are enough |
|---|---|---|
| `debounce` | Are slots always owned (`SlotOwned`), do channels carry the own leader's result (`DeliveredByOwnLeader`), does only the last leader publish (`LastElectedPublishes`), is a cooking leader only superseded by its own timed-out joiner, does an empty 304 reach only clients with that copy, and does all this implement `Coalesce`? | one key (keys do not interact), three requests, three reusable ids: an old leader, a new leader and a joiner, with an id that comes back. Two expiry values tell two copies apart; symmetric |
| `debounce_live` | Does every lookup end though cooks may hang? | the same, with clients that send no expiry hint: leaders that are dropped, time out or hang, and superseded ones. Rounds after a result that does not match the client's copy are explored by `debounce`, for safety only; with them the liveness graph is too large |
| `handoff` | Is there one deduplicated flight per key, has a cook that leaves without a render had the last tier's answer (`LastTierAsked`), and does every chain end? | two keys, three cooks: leader, joiner, outsider; both tiers configured, content routed to tier 1, 2 or 3, so that leader and joiner may be at different tiers; cooks dropped anywhere |
| `handoff_abort` | Do joiners resume when their leader is dropped? (no) | two cooks of one key |
| `chain` | Do pins that SQLite advertised resolve at the pin route until their deadline, does a live thumbnail of a native link give way only to a put or to a render shown under the same cache string, does no copy outlive its response, and does the chain implement `Leases`? | two links, two cooks, cache strings that coincide, differ or are empty; memory in front of SQLite with two keys whose pin identifiers collide and pins that end with the next second, then with one key and pins that are still live, and extended, in the next second; memory in front of the cloud with one key, once with a plan shorter than the pin lifetime, so that it caps, and once without pins while time passes, with one request that is lost, acts late, or writes a row worked out from an older one |
| `freshness` | Is a kept thumbnail as new as its validator, is nothing reused unasked beyond the source's grant, does a 304 confirm what was rendered? | two clients, one of whom keeps his cache string, a source that changes once; three policies (lifetime with an age, validator only, not cacheable), lifetimes up to two seconds and a clock that passes all of them |
| `http_buffer` | Do reads deliver the source's bytes and its real end, and does every call come back? | three bytes in pages of two: a whole page, a short last page that is also the tail, chunks of one to three bytes, a Range that begins inside a page, answers that are not the range |
| `shortcut_read` | What do the shortcuts decode, and what do they leave to the renderer? Is what comes of it placed on the canvas? | lengths 0, 3 and 9 in pages of two, a header of three pages, files whose directories link to each other in every way, inside, across and beyond the header, at the end of the file and in circles, with fields in the directory, in the header, and partly or as a whole beyond it, two sub-directories read of three; any read may fail (371843 states); sizes around the canvas, the pixel art limit and the slack |
| `evict` | Order and size of SQLite's eviction | three rows, sizes 1 to 3 and limit 4: one, two or three rows reach it; equal and different seconds and costs |
| `cook` | Which thumbnail, token and message does a result have, and what is stored? | sources of every group the routing tells apart, processes of each tier with all tools or none and with every choice of targets, cooks one after another with one deferred write waiting |
| `cook_thumbnail` | Is there always a thumbnail? (no) | the same |
| `batch` | Who may fetch during a window, what lines does the client get in which order, does the response end? | three items of which one is over the limit, two URLs of one origin, stream and array, windows below, at and beyond the ceiling and one beyond what an `Instant` holds |

`Debounce`, `SqliteEvict`, `Batch`, `Cook`, `CookFreshness` and `CacheChain` also have a `TypeOK`, which
their runs leave to the other properties; it can be named in their cfg.

Deadlock is not checked where the system may stop: when every request has been
answered, when the buffer is closed, and when the bounded clock or source is used up.
The bounds `MaxTime`, `MaxVersion`, `MaxChunk`, `Limit`, `MaxLost`, `MaxProgress`, `Pending`
and `Attempts` only end an otherwise endless behaviour. `MaxInstant` and `Ceiling` stand for
the largest `Instant` and the longest back-off of the code.

## Fairness

- `Debounce`: weak fairness of each request's synchronous sections, its wake-ups and
  the 30 s timer. tokio polls a woken task and fires a timer. A cook is not assumed to
  end, so `LookupReturns` holds for the joiners of a leader that hangs; for a request
  that itself cooks it says that the lookup has returned.
- `HandoffChain`: weak fairness of each cook. The client that posts handoffs has a connect
  and a read timeout (`handoff.rs:130`), so a POST ends. Dropping a cook is possible and
  never assumed.
- `HttpBuffer`: weak fairness of the running call. The stream delivers, ends, or fails by
  the client's read timeout. Which of them happens is free.
- `Batch`: weak fairness of each cook's own steps (a source answers or runs into the
  client's timeouts, `http_buf.rs:834`), of a tool's deadline, and of a client that stays and
  reads. `Release`, that whatever a killed tool left behind lets go of its pipes some day, is
  an assumption about the environment. Nothing is assumed of a tool: `BatchEnds` excepts
  tools that are run without a deadline and never exit.

## Proofs

The theorems hold for every value of the constants that satisfies the module's named
assumptions; each assumption states what the code configures (a page has at least one byte,
thresholds are natural numbers, a value stands for Rust's `None`) and is evaluated by TLC in the runs.

**`DebounceProofs`**: for any sets of keys, requests, ids, validators and expiry
values, `Debounce` keeps its type invariant and its five safety properties and
implements `Coalesce`. The properties are not inductive, because ids are reused. `IInv`
strengthens them: leaders hold pairwise different ids (`LeaderIdsDiffer`), which follows from
an id staying referenced for as long as anybody holds it; a slot's id is held by the
leader of the last election (`SlotOwnerIsLast`); a joiner's term is that of the leader
whose slot or sends its sender is in (`JoinedItsLeader`); senders belong to requests
that still wait (`SendersWait`); whatever is in the sticky cache, in a channel or
about to be sent has been published (`OnlyPublishedTravels`); and no request has an
outcome before it ends (`NoEarlyOutcome`). One lemma per action shows that a step keeps
every part it can disturb. The action properties and the refinement use `IInv` in the state
before the step: `LeaderComplete` maps to `Answer`, `LookupHit` and `Receive` to `Share`, and
the slot and channel steps to stuttering.

**`HandoffProofs`**: types, one flight per key, and `LastTierAsked`, for any tiers with a URL and any routes,
tier 3 included. `IInv` says that only a cook that posts leads, that its slot is registered while it does, and that a cook awaits
tiers that can be asked.
`LastTierIsAsked` needs a second invariant: `Started` ties the tier of a cook's deduplicated attempt to where it came in,
`Informed` says that the answer on its way to a joiner is from the tier where some cook of its key begins, and
`NotPast` that a cook whose loop has gone past the last tier has that tier's answer. The property itself excepts one
case (`Misled`), which the code gets wrong, see the findings: a cook routed straight to tier 3 while one of its
key came in below.

**`ChainProofs`**: types, `PinPromiseKept`, `CopiesNeverOutlive` and `ReplacedOnlyByRender` for any
number of links, cooks, keys, cache strings and pin identifiers, any lifetimes and plans, lost requests and late writes.
Four invariants carry them. `Shape` adds to the types what a cook carries in each phase. `PinsGood`
says that a pin of an SQLite link stands from the claim on, before the client hears of it; it is kept because every
effect on a link keeps the live pins of SQLite's rows and their aliases (`PinsStay`, one lemma
per way of writing). Nothing of the kind is claimed of a memory link, which may evict, or of the cloud. `Pinless` says that without
a pin lifetime nobody gets that far, so that the pin route, which answers nothing then, loses nothing. `Told` speaks of the
answers cooks have given, each a render and the cache string it was sent with: every entry, in a link, in a cook's hands,
in a late request or in a row about to land, shows the render of its own response under that response's string and lasts no longer than was
granted (`Right`, `Sound`); a cook has at most one late put on its way (`OnePut`); only the cloud is told of an entry that is over
(`Expiring`). A revalidation may find a row of another render under the string it expects, since strings need not differ; what it
puts there was shown by a response under that string (`Expects`), and this is what `ReplacedOnlyByRender` allows besides a put. A decision
gives an answer to a cook that had none, so nothing that was said of the others changes (`Onward`).
`PinsAreLeases` proves the refinement of `Leases`. A lease is the live pin an identifier leads to in an
SQLite link at the end of the chain, its deadline that of the row; chains that end in memory or in the cloud map to a table
without leases, as a memory link may drop a row at any time and the cloud may shorten its pin. `OneKey` says that a call on a link moves the deadline of one key and gives
free identifiers to that key alone (one lemma per call), and `PinsTimely`, an invariant, that no deadline
in a link, in a cook's hands or in a late write is more than a lifetime away. With `PinsStay` for the
direction in which deadlines move, such a call is one `Extend` or a stutter (`LeasesExtend`), a client
hears only what `PinsGood` covers (`LeasesPromise`), and the clock ends leases alone (`LeasesTick`).

**`FreshnessProofs`**: the three properties of `freshness` for any number of clients, versions and
policies and any lifetimes. `IInv` follows every copy on its way: in the entry, with a client, in
the hands of a cook, in a deferred write, each is as new as its validator (or `lent`) and
fresh no longer than was `allowed`. The arithmetic of `Hints` is in lemmas of its own:
a wire string and back does not gain time, a 304 gives no more than its own response says.

**`CookProofs`**: types and the five properties of `cook` for every source, every choice of
targets, tools and quota, any number of cooks one after another and any deferred writes that
still wait. They depend on the lists of formats only through a few lemmas about what `Formats` and
`Renderers` return (`ExtKind` and those after it). `CacheSound` says what the entry and each
waiting write may hold, so that a cook can restore what an earlier one stored; `AskedRight` ties
the hint that was sent to the copy it stands for and the stage to what the tier may still do;
`InProgress` says what a cook carries between two stages (no image without a taken picture, no
token or message yet), and `Results` what a result shows. Without `AskedRight` a 304 could restore
an entry that was never asked about.

**`ThumbnailProofs`, the buffer**: types, `StreamedBytesKept`, `ReadsSourceBytes` and `EndIsReal` for every page size,
source and sequence of calls and answers. The properties speak of what a read has returned; the
invariant has to speak of what the cache holds while a call waits. `WrongIsSuspect` confines cached
bytes that are not the source's to pages a bad answer touched, `ChunkOfStreaming` ties the chunk
buffer to the stream's position, `Waits` says what is known of the page a waiting call is about
and `CopyHasByte` that a page about to be copied holds the byte at the cursor. Lemmas about
pages stand in front of division, which the provers handle badly.

**`BatchProofs`**: the windows of the fetch protection, the order of lines and the refinement of
`Answers`, for any number of items and any limit. `WindowIsRecorded` ties the history of windows
to the caches; `NothingBefore`, `RefusalsFirst`, `FinalWhenDone`, `FinalOnce` and `EndLast` say what
the channel holds at each stage of a job, without which a second final line could not be
ruled out. A panic maps to the loss of one item in a stream and of all in an array.

**`ThumbnailProofs`, the reads of a cook**: `ReadAtLeavesSource` and `ProgressivePrefix` for every file,
whatever offsets and sizes it names. `ReadInv` says that the cache holds bytes of the source in their places,
that a call belongs to the step that made it, that a cook none of whose reads has failed and that only used `read_at` is in no
mode and has the cursor where the renderer will begin (`Undisturbed`, with `CursorAtStart` also while a Range request is out), and
that a loop of reads that began at byte 0 has got exactly what is before the cursor (`ReadsOn`). A failed read ends its shortcut
with the cursor displaced: from there on `ReadAtLeavesSource` promises nothing, and `ProgressivePrefix`, whose
shortcut rewinds, still does. Hypothesis:
`Answers \subseteq {"range"}`, a Range request that is answered is answered with its range. Other answers
spoil pages, which is the subject of `HttpBuffer` and the exception `ReadsSourceBytes` makes.

**`ThumbnailProofs`, what the shortcuts find**: `PreviewIsLongest` and `DecodesNamedBytes` for every file and
every header, window and page size and any limit on sub-directories, whatever Range requests answer and whichever reads fail.
Longest means of what the scanned header tells of: previews and links whose fields lie in it. Of the bytes a container names one
origin is lost by the code and excepted (`Displaced`): the arrays of a raw directory that is read by itself. The walks are recursive
functions, of which the prover knows nothing, not even that there is one. `TailRecursion` shows that a function
that ends in itself exists on any domain, whether it ends there or not. `WalkFinds` shows by a
least counterexample that the walk over TIFF directories ends (the directories left to visit, then the
queue, decrease) and returns a longest preview of those it searched; `SegmentsFind`,
`FramesFind` and `FirstNamedIs` do the same for the segments of an image, the frames of a tag and
the entries of an archive. `LookInv` carries this to the moment of decoding: what was found
stays found while the calls on the buffer go on (`FileKept`, `WindowFixed`), nothing of one shortcut
is left for the next (`NothingFoundYet`), and the two searches of raw files hold the longest of what they
have read at each of their steps (`SubIfdsFind`, `RawRendererFinds`, `SpanIsRight`).
`FilesAssumption` states the shapes of what the files contain, no more: offsets and sizes are any
natural numbers, links may go in circles, the values of a field may lie anywhere or nowhere. The proof found a mistake of the model: the
sub-directories that count as candidates are those with a preview that was read, and the set they were
compared with had also held those the read had skipped.

**`ThumbnailProofs`, the geometry**: for every size of image and canvas and every rounding `f32` may do, the content lies on
the canvas and the crop window in the image (`FitsCanvas`), and the halving before it keeps what
covered the canvas covering it (`PreScaleCovers`). `PlacesThumbnail` proves `ThumbnailPlaced` for the
canvas of `ThumbnailConfig::CANONICAL`, 250×200 with a slack of 8 pixels, and images of every size.
`Canonical` is a hypothesis because the property needs it: a canvas of 185×100 skips a resize and
stays under its minimum. Four lemmas carry it. `MinimalPart`: a plan that is not clamped scales to at least
166×132 (`NormalIsLarge`), so an image that skips the resize is large enough (`SkippedIsLarge`).
`PreScaled`: the resize of tier 2 loses at most one column. `NotScaledUp`: the scale of a plan is at most the one
that fills (`BlendBelowFill`), which is below 1 but for that column (`ResizeShrinks`). `KeepsProportion`:
each scale multiplies the error of the proportions and adds one pixel (`SkewScaled`), the
halvings leave less than one, which the scale after them at least halves. Scales are pairs of natural numbers
and nothing is divided: every leaf compares products. `DeliveredLast` is the invariant; nothing
follows a delivery (`NothingFollows`).

**`EvictProofs`**: `OvershootBounded` and `EvictsInOrder` for any finite set of keys (a table has finitely many
rows), any sizes, costs, lifetime and limit. The totals are folds over sets; their recursion equation
is shown by a least counterexample among the finite subsets, after the function that solves it has
been shown to exist (`SolutionExists`). From it follow that totals grow with the set, that the running totals
follow the order of eviction, and that the rows which go are a beginning of that order.

Only model-checked: liveness (`LookupReturns`, `ChainEnds`, `CallReturns`, `BatchEnds`), as the prover
does not do fairness.

## Findings

Recorded as runs with an expected violation:

- `handoff_abort`: `HandoffInflight` has no drop guard. A leader dropped during its POST
  leaves its slot in the table; its joiners and all later cooks of that key wait for good.
- `cook_thumbnail`: the handoff route clears the bytes of a placeholder and the tier below stores
  that result before `finish` fills its icon in. Once the entry is stale and the source answers 304,
  the empty thumbnail is restored and served; `GET /thumb.jpeg` makes an error of it.

Further statements the code does not keep. The definitions are in the modules; naming one
in the cfg given here produces the behaviour:

| Statement | cfg | What happens |
|---|---|---|
| `TiersAgree` | `MCCacheChain.cfg` | `put` writes the links one after the other, so two cooks of one key can leave different renders in memory and in SQLite (`chain.rs:12` says each layer is populated together) |
| `NewerRenderStays` | `MCCacheChain.cfg`, as PROPERTY | two renders can have the same cache string (the same validator, or none). One cook has put its render into both links, a newer render with that string has reached memory but not SQLite; the first cook's pin refresh reads its own row back from SQLite, finds its string in memory and puts the older thumbnail over the newer one (`memory.rs:178`, `sqlite.rs:210`, `sqlite.rs:222`) |
| `CloudPinKept` | `MCCacheChain.cfg` | the plan is shorter than the pin lifetime: the service caps the row, and the client has been promised the whole lifetime (`cloud.rs:98`); rows written late from an older one lose deadlines as well (`cloud.rs:99`) |
| `PlaceholderEscalates` | `MCHandoffChain.cfg` | a cook that starts at tier 3 and joins a tier-2 handoff tests the answer with its own tier and keeps tier 2's placeholder (`cook.rs:1314`) |
| `FailureEscalates` | `MCHandoffChain.cfg` | the same cook takes tier 2's failure for that of tier 3 and goes past the last tier without having asked it |
| `EofLimitsReads` | `MCHttpBuffer.cfg` | `read_streaming` does not clamp a read to the artificial end, as `read_cached` does (`http_buf.rs:33`) |
| `CursorKept` | `MCHttpBuffer.cfg` | the `?` in `read_at` returns before the cursor is restored (`http_buf.rs:347`) |
| `TailFetchedOnce` | `MCHttpBuffer.cfg` | streaming mode decides on the tail fetch before it looks into the cache and sends the same Range again (`http_buf.rs:447`) |
| `NotModifiedServesCurrent` | `MCCookFreshness.cfg` | a handoff joiner stores its leader's thumbnail under the validator of its own, later response; the next 304 confirms the old thumbnail (`cook.rs:1286`) |
| `RetryRenders` | `MCCookFreshness.cfg` | a placeholder keeps the source's validator, so the retry it announces is answered 304 and the placeholder stays (`cook.rs:1418`) |
| `RendererReadsSource` | `MCShortcutRead.cfg` | the progressive JPEG shortcut leaves the cursor behind its budget and the buffer in streaming mode; an in-process renderer then reads the file without its head (`shortcut.rs:181`). A read that fails in any other shortcut leaves the cursor where it stood, with the same effect (`http_buf.rs:356`, swallowed at `shortcut.rs:142`, `169`, `223`, `238`, `317`, `347`, `391`) |
| `TiffPreviewServed` | `MCShortcutRead.cfg` | the size of a TIFF is never known when its preview is judged, so no preview of a TIFF is served, nor one of a PNG without Exif dimensions (`shortcut.rs:250`) |
| `FailureLeavesConnection` | `MCShortcutRead.cfg` | the audio cover closes the connection before it decodes (the doc says it is left untouched on any failure) |
| `LargestPreviewServed` | `MCShortcutRead.cfg` | a small preview inside the first 32 KiB of a raw file wins over a larger one behind them; of more than 32 sub-directories the rest is not read, nor are fields whose arrays lie outside the buffer (`shortcut.rs:1317`) |
| `SpanInFile` | `MCShortcutRead.cfg` | a directory of a raw file that is read by itself has the arrays of its strips or tiles looked up in its own 512 bytes, though their offsets count from the start of the file (`shortcut.rs:347`, `1274`); tier 2's search takes the offset of such an array for the offset of the preview (`tier2/renderer.rs:552`) |
| `RawHeaderRead` | `MCShortcutRead.cfg` | one `read` of 32 KiB returns at most one page of 4 KiB (`tier2/renderer.rs:382`), as do those of its tables and of the rotation hint |
| `HintFromStart` | `MCShortcutRead.cfg` | the search for the rotation box starts where the search for a preview stopped (`tier2/renderer.rs:1168`) |
| `TierTwoCovers` | `MCShortcutRead.cfg` | tier 2 hands over images smaller than the canvas: 1247×1000 becomes 249×200, and libav frames are scaled to cover before they are turned (`tier2/renderer.rs:968`, `avdecode.rs:697`) |
| `TotalFits` | `MCSqliteEvict.cfg` | `evict_oldest` deletes the rows whose running total is at most the excess, so the row that crosses it stays and the total remains over `max_bytes` (`sqlite.rs:444`) |

The bytes `ReadsSourceBytes` excepts are real: Range answers are stored whatever their
status (`http_buf.rs:562`), and a range that begins inside a page, such as the ZIP
window, fills the bytes before it with zeros that count as cached (`http_buf.rs:617`).

Differences between code and documentation met while modelling, each visible in the
definition that translates the code:

- `Hints`: a 304 without `Cache-Control` restarts the full stored lifetime and ignores `Age`;
  `private` encodes to nothing, so the `private` branch of `http_cache.rs` is never taken.
- `FetchGuard`: of several `Retry-After` values of one origin the last wins; one that
  `Instant::now() +` cannot hold panics, which costs a stream the item's final line and an
  array the whole response.
- `Formats`: `usda` and `usdc` become `usd`, which no list has; the manifest names `jxl`, `hdr`, `pbm`, `tga`,
  `mef`, `rwl` and audio, which tier 2 does not handle; `jp2` and `j2k` are in the documentation of
  tier 3's fallback and not in its list; a deployment of tiers 1 and 3 never renders an SVG.
- `Renderers`: the image path of tier 3 returns false with the reader taken and the cook failed when
  its tool is missing; a late marker of arithmetic coding fails the cook that a comment hands on.
- `Cook`: `take_reader` does not enter streaming mode; `render_disabled_ttl_secs` is not used for
  placeholders over the quota; the branch for `Complete` after a shortcut is never taken.
- `Fit`: images that are almost square skip the last resize and keep thin bands; a page count of 0
  reaches `0u32.ilog2()`, which panics.
- `Containers`: a directory exactly at the end of the header is skipped; digits in a frame id are rejected
  though the documentation allows them; the extended header of version 2.3 tags is read as
  one of 2.4; the scan for a cover goes past the declared end of the tag.
- `CacheChain`: the put of an elapsed entry asks the cloud with an ordinary lookup, so a row that is
  only pinned is not replaced there, unlike in memory and SQLite; a put the client gave up
  can replace a newer render, its lifetime counted from its arrival.
- `ToolRun`: `sandbox::output` kills only the tool itself; most tools are run without a deadline.

## Simplifications

- One version of the source per buffer: Range requests carry no `If-Range`, but pages that mix
  two versions are not modelled.
- In `ShortcutRead` Range requests that are answered are answered with the range; what other
  answers do is the subject of `HttpBuffer`. A stream that has failed once may fail again or go on;
  one that the client reports as ended too early after an error is not modelled.
- `Containers`: a preview is what the tags of one directory name; the compression tag and the field types are part of
  which fields a directory has. Reading a directory that its buffer cuts off counts as reading none, except
  in tier 2's search, where it may give something or nothing.
- `CacheChain` runs without byte limits: an eviction under `max_bytes` may drop a row that a pin
  promises, and `PinPromiseKept` is about SQLite without one. A memory link may lose any entry
  at any time. The cloud is the last link, modelled from what `cloud.rs:70`–`100` says of it: it caps both deadlines at the
  account's plan, and its conditional writes and pin refreshes are reads followed, perhaps much later, by a write. It settles
  collisions of pin identifiers itself, so one key is looked at in front of it. A late lookup is not modelled, and a cook may drop its deferred
  writes. Cache strings are members of a small set, any of which a cacheable response may have; a response that
  must not be cached may have any, the empty one included.
- The random part of a pin identifier is the function `Candidate`, chosen so that identifiers collide.
- `Hints`: `noStore` stands for `no-store` and `private`, which the code treats alike. `stale-while-revalidate`,
  `immutable` and the ETag match of pins are left out, as is the sticky window in front of the cooks of
  `CookFreshness`.
- `Fit` gives the set of values the `f32` arithmetic may round to where the exact result is a tie or whole.
- `Batch` reduces a cook to what the batch can see of it; `Cook` has the rest.
- Each deferred write runs after the response in the order the code schedules; a process that stops
  before it runs is a cook that leaves.

## Not modelled

PDF parsing and pixel work; libav's choice of a stream and its seek, which are free outcomes here; the
files of the scratch arena and the limits of the sandbox (each renderer has an arena of its own and
drops it); the address rules of `url_safety.rs`; schema migration and the SQLite pool; configuration, command line and
environment checks, which are read once; logging and tracing, which nothing reads back; packaging. The generated
FFmpeg bindings are declarations and more than a third of the repository's lines. The single-threaded
WASM frontend is a plain map without joiners. `PROJECT.json` lists each part with its reason.

## Plan

Order of the work: the shared-state core first (debouncing, single flight, caches), then the data
path (buffer, shortcuts, fit), then the edges (fetch protection, batch, tools). Done: everything in
the tables above, and a proof of every safety and action property of the passing runs.
What is left, in this order:

1. A second version of the source in `HttpBuffer`, so that a Range answer can come from another
   version than the stream.
2. Quotas of `routes.rs` and the capacities of the fetch protection's caches.
3. The byte limit inside `CacheChain`, with the pins it may break.
