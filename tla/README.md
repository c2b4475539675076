# A formal model of redfish-explorer

`rfx` is a terminal browser for Redfish services: a location, the response it
gave, and a pane of links to go on from. The program is small, but its update
loop talks to goroutines - fetches and clipboard commands - whose answers come
back in any order, between any two key presses, through a cache they share. That
is what this project models: TLA+ modules translated from the Go source, TLC runs
that check them on small instances, and theorems that TLAPS checks for every
value of the constants.

    tlc -config MCNavigation.cfg MCExplorer.tla      # a run
    tlapm ExplorerProofs.tla                         # a proof

## The system

| Part | Source | State | Operations |
|---|---|---|---|
| response cache | `internal/cache/cache.go` | entries by absolute URL with the time stored, ttl | `Get`, `Set`, `Invalidate`, under one mutex |
| fetch command | `internal/tui/fetch.go` | one goroutine each: resource, policy | resolve, look up, request, store, post a `fetchedMsg` |
| update loop | `internal/tui/model.go` | location, response, rows, cursor, request awaited, notice, modes | one handler per message: answers, keys, clipboard, resize |
| history | `internal/tui/history.go` | visits, at most `maxHistory` | push on a forward landing, drop on a landing back |
| link pane | `internal/tui/linkpane.go`, `model.go` | rows | build, select, restore the cursor, scroll |
| editor, clipboard | `model.go`, `clipboard.go` | text, refusal, mode | open, type, paste, submit, leave; copy a curl line |
| response pane | `bodypane.go`, `jsonfmt.go` | viewport; while colouring, a stack of keys | render, fold headers, colour |
| header, footer | `header.go`, layout of `model.go` | none | what is said of the location and of the highlighted row |
| client | `internal/redfish/client.go` | configuration, HTTP client | `Connect`, `Resolve`, `Fetch`, `Close` |
| link extraction | `links.go`, `jsonpath.go` | none | `ExtractLinks`: a response to groups of links |
| paths, curl, OEM | `path.go`, `curl.go`, `oem.go` | none | pure functions |
| command line | `cmd/rfx/main.go` | configuration | flags, environment, connect, run the UI |

The update loop is the only writer of the model; it handles one message at a
time. It starts commands (`tea.Cmd`), which the runtime runs in goroutines and
whose results it posts back as messages. Fetches share the cache, whose mutex
makes each call atomic but not the lookup-request-store sequence of a fetch.
What is hard, therefore:

- *ordering*: answers of several fetches overtake each other and the user
  (`fetch.go:67` matches them by resource and nothing else);
- *atomicity*: a request and the store of its answer are two steps
  (`fetch.go:50-57`), and so are the key that asks for a step back and the
  landing that drops the visit (`model.go:529`, `history.go:80`);
- *stale state*: remembered row numbers, a rendered copy of the response, a
  notice about a row, a refusal about a text, all of which outlive what they
  were made from unless something clears them;
- *two readings of one thing*: a resource spelled as a path or as a URL, the
  footer and the key it foretells, the scanner that colours a body and the walk
  that lists its links, a row number and the order of rows;
- *failure and time*: a failed fetch keeps the place and shows an error; the
  cache expires; startup has three requests and one deadline;
- *progress*: the spinner must stop.

`PROJECT.json` lists the hazards line by line with the properties that cover
them, and, for those no property covers, why.

## Modules

| Module | Models | Uses |
|---|---|---|
| `ResponseCache` | the store after each method of the cache, and its clock | |
| `CacheClients` | the cache called by anybody in any order | `ResponseCache` |
| `LeaseStore` | *abstract*: responses on leases that count down | |
| `Fetching` | fetch commands running side by side | `ResponseCache` |
| `LinkPane` | rows, selectable rows, where the cursor comes to rest | |
| `Explorer` | `Model.Update`: every message, and the commands it starts | `Fetching`, `LinkPane` |
| `Trail` | *abstract*: a place and a bounded trail back | |
| `Screen` | what is drawn of the explorer's state: curl command, footer, rows on screen | `Explorer` |
| `ExplorerProperties` | what the explorer promises | `Screen`, `Trail` |
| `ExplorerClaims` | what the repository says and the code does not keep | `ExplorerProperties` |
| `RedfishPath` | the strings that name resources: `parent`, `resolve`, `resourceTarget`, `renderCurl` | |
| `JsonValues` | JSON as the walks see it | `RedfishPath` |
| `LinkExtraction` | `ExtractLinks`: the walk, actions, headers, groups, labels, order | `JsonValues` |
| `BodyColors` | the scanner that colours a body, and `OEMTypes` | `LinkExtraction` |
| `ExtractionProperties` | what listing and colouring promise, from definitions that do not walk | `BodyColors` |
| `Startup` | `run`, `parseFlags`, `clientConfig`, `Connect`, `verifyAccess` | |
| `CacheProofs` | theorems about the cache | `CacheClients` |
| `ExplorerProofs` | types, requests and what becomes of them | `ExplorerProperties` |
| `ScreenProofs` | whose response is whose, the trail, what is on screen | `ExplorerProofs` |
| `StartupProofs` | theorems about startup | `Startup`, `DataTheorems` |
| `DataTheorems` | numbers, sequences, induction and recursion, for the modules below | |
| `PathProofs` | theorems about paths | `RedfishPath`, `DataTheorems` |
| `DocumentProofs` | what the walks over a document find, and what the scanner draws | `ExtractionProperties`, `PathProofs` |
| `ExtractionProofs` | what is listed and shown | `DocumentProofs` |
| `MCCacheClients`, `MCExtraction`, `MCStartup` | instances for TLC | |
| `MCExplorer` | the explorer's instances, composed with the path functions and the extractor | `RedfishPath`, `LinkExtraction` |
| `MCJson`, `MCDocuments` | the documents of `MCExtraction`, and what they consist of | `JsonValues` |

### How they correspond to the code

**ResponseCache / CacheClients.** `entries`, `ttl` and `now` are the fields of
`cache.Cache`; time is counted in ticks. `AfterGet` drops an expired entry, as
`Get` does; `AfterSet` stores nothing while the cache is disabled. In
`CacheClients` each call is an action, and `got` is what the last `Get` reported.

**Fetching.** A slot holds one running fetch. `fetchCmd` is cut where other
goroutines can come between: `LookUp` or `SkipCache` (or `Refuse`, when
`Resolve` fails), `Respond` or `Fail`, `Store`; then the outcome is posted and
waits for the update loop. A response is its URL, one of the pages the service
may hold under that URL, and the time it was made; HTTP error statuses are
pages, since the code caches and shows them like any other. A slot that is
posted without a response is a message with an error.

**Explorer.** One action per handler, with every call it makes inside.
`handleFetched` is discard, `withFetchError` or `WithResponse`; `startFetch` sets
the request fields and starts the command; `goUp`, `follow`, `followAction`,
`refuseAction`, `goBack`, `reload`, `moveUp`, `moveDown`, `toggleHeaders`,
`SwitchFocus`, `Scroll`, `OpenHelp`, `CloseHelp`, `copyCurl`, `startEditing`,
`Quit` are the bindings of normal mode; `forwardToEditor`, `paste`,
`submitEditedLocation`, `stopEditing` those of the editor; `handlePasted`,
`handleCopied`, `handleResize` the remaining messages. `err` is
`failed`/`errResource`, the texts of notices and refusals are what they are about,
`content` is what `SetContent` was last given. `asked` is a history variable: the
resource of the latest `startFetch`.

Abstractions: `groups` and `linkErr` are functions of the response and not
kept apart from it. Rows are numbered from 1, so `noCursor` is 0. `Resolve`,
`Parent`, `PathOf`, trimming blanks (`Trim`) and trailing slashes (`Bare`), the curl
command's URL (`Curl`) and link extraction (`Links`) are constants: the theorems hold for all of them that
satisfy the named assumptions, the runs for those of the instance. Spinner ticks
and mouse wheel events change nothing that is modelled. A paste by the terminal is
text, like a key the editor takes.

**Screen.** The drawing functions that tell the user where a key leads:
`curlResource`, `footerLeft`, `linkScroll` with the heights that lead to its
argument, `renderLinkPane` and `render` as the set of rows drawn. They read the
state of `Explorer` and have none of their own.

**RedfishPath.** A string that names a resource is a record of what precedes the
path - nothing, the service's own scheme and host, another's, or no path at all -
the sequence of its segments, where a trailing slash is an empty last one, and where it
has a blank: before or behind the rest, or escaped, as `%20`, at its end. That is what the
code's string functions tell apart: `TrimSpace`, `TrimRight`, `LastIndex`, `HasPrefix`,
`url.Parse` with the comparison of hosts, and `RequestURI`, which escapes a blank.
`resolve` trims before it looks, `renderCurl` and `resourceTarget` do not, as in the code.
Left out are blanks on both sides, which do what one in front does, other escapes,
queries and fragments, and URLs without a scheme.

**LinkExtraction.** A JSON value is a tree of objects (their members in document
order), arrays, strings and anything else. The walks are recursive functions over
the constant `Json`, a set of values that holds every part of each of its members, with
`depth` to say that documents are finite; each returns a function of the path it is
called with. `Index` spells the position of an element of an array as a step of a path,
no two alike and none like a key, which is what the code's type for a step says.
`Json` need not be finite and may be as deep and wide as one likes. `turned`, of
`ExtractionProperties`, is the same document with the members of every object in the
opposite order. `walk`, `actions`, `action`,
`selfOrLink`, `pathLikeString`, `headerLinks`, `dropShadowedURIs` and `groups` are
the functions of that name; what is found is a sequence, as the order decides which
of several mentions is kept, and what is listed is the sequence of groups, each with
the sequence of its links. A label is the sequence of the names it is made of, a blank
at its end being one of them, and `strings.Compare` and `ToLower` are a rank and a table
of the names in the documents; `spelled` ends each string with a mark, so that none
begins another.

**BodyColors.** `Colorize` over the tokens of a document: the same stack of keys,
pushed and popped at braces and brackets, and the style of each key and string. The
tokens carry the path they came from, which the scanner does not see and the
property compares with.

**Composition.** `MCExplorer` writes each page of its services as a document and each
name as the string it stands for. `Resolve`, `Parent`, `PathOf`, `Trim`, `Bare` and `Curl`
of the instances are tables computed with `RedfishPath`, and `ASSUME RowsAreExtracted` has TLC
verify that the rows of each page are what `ExtractLinks` and `buildRows` make of its
document. So the rows that the explorer's runs walk over, with their order, headings,
absolute URLs and ActionInfos, are the extractor's, not the modeller's.

**Startup.** The stages of `run`, with the command line, the environment, the
credentials' validity and the service's ServiceRoot chosen at the start. `Expire`
is `connectTimeout`; after it every request fails, before it any may. `strict`
is a service that refuses unknown credentials even where it would have answered
none.

## Runs

| Run | States | Shows |
|---|---|---|
| `cache` | 1 374 | `CacheInv`; the cache implements `LeaseStore` |
| `navigation` | 683 000 | types; no waiting for nothing; the screen answers the last request; the cursor rests on a row; requests fit the place they were made from; the explorer implements `Trail` |
| `cached` | 0.7 M | with cache and clock: responses are filed under their own URL, rows belong to the location, a disabled cache stays silent |
| `screen` | 1.7 M | all key bindings, editor, clipboard, resize: notice, pane and refusal are never out of date, the cursor's row is drawn at every height, the curl command asks what rfx asks, Enter does what the footer says |
| `progress` | 0.1 M | loading ends, fetches finish |
| `extraction` | 74 k | what is listed is what the document offers, under the right group, with its meaning kept; no mention twice; OEM apart; no row to nowhere, nor with two meanings but for blanks the service put around it; rows do not depend on the document's order; colours and schemas agree with the listing |
| `startup` | 1.6 M | the client is closed, the UI is entitled, credentials come together, startup ends |

Five more runs each refute one statement of the repository; see *Findings*.

### Bounds, and why they are enough

- `Slot`: two fetches at once. Matching is by one pending resource, so whatever
  an answer can do wrong shows with the awaited fetch and one other; a third would
  be another of the second kind. A key that would start a third fetch waits,
  which only removes interleavings. `screen` is about chrome and editor, which do
  not see fetches but one at a time, and runs with one.
- `maxHistory`: two in `navigation`, so that trimming happens with a visit left
  over; one elsewhere. The code's is 256.
- `MaxNow`, `Ttls`: five ticks with leases of two and a disabled cache (of ttl 0
  and -1) in `cache`; one tick with ttl 1, so that entries are fresh, expire and
  are fetched again, in `cached`. `Respond` stamps with the clock.
- `MaxCommands`: one copy and one paste in flight in `screen`: the outcome of a
  paste can meet a closed, the same or another editing session.
- `Keys`: the bindings a run uses. `navigation` has those that move or load;
  `screen` has all but back, so that the trail, which nothing reads without that
  key, stays out of the state.
- The services: `MC...` has the root, a collection linked with a trailing slash
  and walked up to without, a member, a link from a page to itself, and a
  collection page that changes so that a remembered row becomes a heading or an
  action; `Small...` has the root and one collection that answers with actions,
  with and without ActionInfo, or with an error page without links; `UI...` is
  `Small...` with an off-host link, URLs and blanks among what can be typed and a page
  of eight rows.
- `Heights`: one below `minHeight`, where nothing is drawn; 15, where the link pane
  has seven lines for the eight rows and has to scroll; 16, where they just fit; 24.
- `VIEW InSight` in `screen` leaves out of a state what no key of the run and no
  property can tell apart: the text of a closed editor, the trail, the scroll
  position, and what was asked for before.
- `MCResponses`: 36 800 responses: a branch of up to three keys or array elements
  from those that mean something to the walk, ending in one of 26 values, alone or
  before or after one of seven others, with and without headers; the empty, the
  broken and the rootless document. Names are paths and URLs, among them some with a
  blank before or behind. Every rule about order or repetition involves
  two mentions, and every rule about place at most three keys. For
  `RowsKeepTheirPlace` each is extracted a second time with the members of every
  object reversed.
- `Json`, `depth`, `turned`: the values that those documents consist of, upright and
  turned, computed by `MCJson` with recursive operators that only the runs use.
- `Index`: arrays of up to three elements; a label is told from the next by one.
- `Probes`: three ServiceRoot keys of the code's five: one that cannot be used,
  the one chosen, one too late.

`SYMMETRY` permutes the slots of `navigation` and `cached`, which check
invariants and one safety refinement; slots are told apart by nothing.

Deadlock is checked where the system cannot stop. It may stop after the user has
quit (`screen`, `progress`), after the links are extracted (`extraction`) and after `run` has returned (`startup`).

### Fairness

`FairSpec` of `Explorer` assumes weak fairness of each fetch's next step and of
the delivery of each posted outcome. The first is justified by the goroutine
scheduler and the client's request timeout: a request that nobody answers ends
with `Fail`. The second is the Bubble Tea runtime's, whose loop receives every
message sent to it. No key press is fair. `FairSpec` of `Startup` assumes that
reading the command line goes on, that the deadline passes, and that behind it no
request is waited for, which is what the context of `connectTimeout` does to requests
(`main.go:84`). It assumes neither that a service answers before nor that the user
quits.

## Proofs

All theorems are about the specifications the runs check, for any constants that
satisfy the `ASSUME`s of the modules: any number of fetches in flight, any
service, any cache, any history bound of at least one, documents of any depth and width.
Every property of a passing run is stated by a theorem, but for the liveness properties.

**Cache** (`CacheProofs`).

- `CacheInvariant` proves `CacheInv` inductive as it stands.
- `CacheImplementsLease` maps entries to leases by what is left of them
  (`storedAt + ttl - now`), dropping those with nothing left: a tick shortens
  every lease by one, a `Get` that removes an expired entry is a read that leaves
  the leases alone, `Set` of a disabled cache is a stutter. `StampsAreSound` is
  what makes a disabled cache empty.

**Explorer** (`ExplorerProofs`).

- `TypeInv` is `TypeOK` with the first row being `..`
  (`ParentFirst`) and `CursorRests`. `TypeOK` alone is not inductive: the type of
  the next request rests on the row under the cursor being there and having a
  target, and the cursor has a row to go to only because `..` is never missing.
  From it, `VariablesKeepTheirTypes` and `CursorNeverStrays`.
- `RequestInv` is the strengthening for requests. The code tells
  "nothing is awaited" by an empty `pending`, which works exactly as long as
  nothing is named by the empty string: `NamesNotBlank` carries that through
  rows, history and fetches, `AwaitedIsAsked` ties `pending` to `loading` and to
  the latest request. On these rest `PendingInFlight` (an answer that is
  discarded is not the awaited one, so the awaited one is still in flight),
  `ScreenAnswersLastRequest` (an answer that is not discarded ends the latest
  request), `RequestFitsPlace` (place and history only change when the request
  they belong to ends) and `StepsMove`. The theorems assume `Start # Blank`; the run
  `blank_start` shows that they fail without it, and that it can be made to
  fail from the command line.

**Screen** (`ScreenProofs`).

- `ResponseInv` joins `FiledUnderOwnUrl`, `RowsBelongToLocation`
  and `DisabledCacheIsSilent`, none of which is inductive alone: the rows are the
  location's because the answer landed on was filed under the location's URL,
  that answer was because the cache entry it came from was, and nothing on
  screen is from a disabled cache because no fetch was answered by one. It needs
  nothing of names, so it holds for `Start = Blank` too: an answer that lands
  where nobody waits for it is still drawn under its own name.
- `ExplorerNavigatesTrail`: initial states map to the start
  of `Trail`, and every step to a step forward, a step back or a stutter.
  A landing back is `Back` of the abstract trail only because the visit it drops
  is the one landed on, which is `RequestFitsPlace`.
- `RefusalNeedsEditor`, `BodyIsCurrent` and `NoticeDescribesRow` are
  inductive over `TypeInv`; each needs that the handlers that change one side change
  the other. `CursorOnScreen` needs no induction beyond `TypeInv`: the scroll offset
  is computed, and the theorem is the arithmetic of `linkScroll` for every height
  and number of rows. `CurlStaysTrue` strengthens to `PlacesAgree`: every place the
  explorer is at, awaits, remembers or lists has a curl command for its own URL;
  it assumes that of `Start`. `FooterKeepsItsWord` rests on `RowsBelongToLocation`:
  the mark on `..` is that of the location on screen.

**Startup** (`StartupProofs`). `ClientsAreClosed` and the types are inductive together;
`UIIsEntitled` rests on `SomethingToProbe`: of the keys that offer a resource one
comes first, whatever precedes it, so a ServiceRoot that offers anything is probed.

**Paths** (`PathProofs`). For strings of any length, `Parent` moves except at the root
(`ParentMoves`) and shortens (`ParentShortens`), so going up ends there; `Resolve` never
leaves the endpoint (`ResolveStaysHome`); what a URL is cut down to is the same
request, unless a link's has a blank behind it (`PathMeansTheSame`). `TypedCurlsTheSame`
and `ParentIsAPlace` are two conjuncts of `Screen`'s `CurlAssumption`, and `ParentMoves`
the second of `ScreenAssumption`: what `ScreenProofs` assumes of the constants is proved
of the operators that the code's functions are modelled by. The third conjunct, that the
curl commands of what a page links to agree, `LinksCurlTheSame` proves of targets without
blanks around them, and refutes of those with: so it is an assumption on the service, and
`CurlStaysTrue` holds for services that write no such names.

**Documents** (`DataTheorems`, `DocumentProofs`). These proofs are inductions over the
depth of a document, and over the length of a sequence within each level.
`DataTheorems` states induction with sets (`DepthInduction`: a set that holds whatever it
holds all less deep elements for holds everything) and recursion with functions
(`Recursion`: if one step, as a function from functions to functions, looks only at less
deep elements, its equation has a solution), as no prover here can instantiate the
library's theorems, which take operators. With them each recursive function of the model
is shown to exist and to be what its equation says (`ActionsDefined`, `WalkDefined`,
`ValuesDefined`, `TokensDefined` and so on), and then to find what a definition
that does not walk says is there:

- the walk for links, the places of the document that call for one, each with the right
  text, group and label;
- the walk over a turned document, the same as over the upright one;
- the walk for vendor schemas, what is below the outermost `Oem`;
- the scanner, the strings of the document, each in its colour. The scanner sees tokens
  and keeps a stack. `ScannerDraws` is what is inductive about it: wherever the tokens
  of a value stand in a document, the scanner that reaches them knowing whether it is
  below `Oem` draws that value's strings and leaves them with the stack *and the latest
  key* it came with (`Grows`). Without the key the claim is not inductive: after a closing
  brace the key decides whether the next element of an array belongs to the vendor, which
  is why `closeContainer` of `jsonfmt.go` restores it.

**Listing** (`ExtractionProofs`). `Inv` says that what is listed is what `ExtractLinks`
makes of the response at hand; each theorem is one property of that function.

- `AllListed`, `MeaningKept`, `OEMApart`: of several mentions of a target in a group the
  first stays (`kept`), so every mention is represented, and a path-like string is dropped
  only for a link that is kept or for the document itself.
- `ListedOnce`: groups and links are sorted by relations that are strict total orders on
  what is sorted; counting predecessors then numbers them without gap or repetition.
- `RowsLead`: what a link leads to is reduced, never empty, and means the same to `resolve`
  and `renderCurl` exactly if no blanks are around it, by `PathProofs`.
- `MeaningKept` leaves out the one spelling that reducing changes (`BlankJoinsName`).
- `RowsStay`: two walks that find the same set, whatever their order, list the same
  sequence if a group mentions a target once: `compareLinks` then tells any two rows of a
  group apart, by their targets if not by their labels, and the document's order never
  decides.
- `BodyShown` and `TypesFound` read the two results above off the property's sets.

Attempts that failed said something about the model, and changed it:

- `RowsKeepTheirPlace` is false of a document with a key twice in one object: turning it
  around changes which of the two is read. It now asks for `WrittenOnce`, and the code's
  two readings are noted below.
- It is also false if two positions of an array are spelled alike, and `groupFor` could
  take a key for an index: `NamesAssumption` now says that neither happens, which the
  code has by the type of a path's steps.
- The guards of `groupFor` were cases that overlapped, which leaves a value of TLA+'s
  `CASE` open; the code's order of tests is now an `IF` chain.
- `VendorTypesAreFound` counted a type named inside an `@odata.type` that is an object; the
  walk does not look there.

Only model-checked: liveness (`LoadingEnds`, `FetchesFinish`, `StartupEnds`), which
is out of the prover's reach. Not proved either: that the
explorer's constant `Links` is what `ExtractLinks` makes of a page, which
`RowsAreExtracted` evaluates for the instances; the theorems about the explorer hold for
every `Links` with the named assumptions.

## Findings

Each is a run that TLC must find violated.

1. `blank_start` - `rfx -host bmc ""` starts on the empty resource. `Resolve` takes
   it for the root, but for `handleFetched` (`fetch.go:67`) it is the same as
   nothing pending, so a second answer for it is drawn over whatever has been
   loaded since, which `fetch.go:65-66` says must not happen.
2. `reload_fresh` - a reload pressed while a fetch of the location is in flight
   can be ended by that fetch's *cached* answer; the fresh one is then discarded
   as late. README.md:197: "`r` forces a fresh request".
3. `reload_replaces` - two requests for one URL store their answers in the order
   they reach the cache; an older answer can replace the reload's. `fetch.go:19`:
   "skipCache forces a request and replaces the cached entry".
4. `self_link` - a nested object whose `@odata.id` is the document's own, or a
   `Content-Location` header that names it, is listed. `links.go:112`: "The self
   link is never among the groups".
5. `wrong_credentials` - a service that answers bad credentials with a 401 at the
   ServiceRoot itself passes `verifyAccess`, which does not look at that status
   (`client.go:283-292`). README.md:79-81: "wrong credentials ... are reported on a
   plain terminal".

Seen while modelling, without a run:

- `rfx` started on a full URL keeps it as its location: fetches work, but the curl
  command shown and copied has the endpoint twice (`main.go:175`, `curl.go:50`), and
  `..` leads to the service root from anywhere (`path.go:54`). Started on `""`, the
  command asks for the endpoint itself. `CurlStaysTrue` assumes a start on a path.
- `New` marks `..` as disabled wherever the session starts (`model.go:137`): until the
  first answer the footer says "already at the service root", although `goUp`, which
  does not look at the mark, would go up.
- The footer of an action names its POST target, while Enter opens its ActionInfo
  (`header.go:173-177`, `model.go:477-483`). `FooterForetellsEnter` is about links and `..`.
- `IsResourcePath` accepts `/redfish/V1/...` (`links.go:555`); from such a place `Parent`
  jumps to the root, as it compares with the lower-case spelling (`path.go:54`). It
  also takes `/redfish/v10` for a place below the root.
- A target that the service wrote with blanks around it can be followed, as `Resolve` trims
  it (`client.go:242`), but the curl command puts it behind the endpoint with its blanks
  (`curl.go:50`), another URL; `curl.go:10` calls the command
  "equivalent to the request rfx makes for resource".
- A URL of the service's own with a blank behind it becomes a path that ends in `%20`
  (`links.go:185`), while a fetch of the URL as written would leave the blank out.
- `headerTarget` takes the path of a Location without its escapes (`links.go:571`), so a
  `%20` at its end becomes a blank, which `Resolve` then leaves out.
- `headerTarget` reduces a Location on another host to a path on this one, where
  `resourceTarget` would leave it to be refused.
- Of several mentions of a resource in a group the first gives the row its label, so
  a service that repeats itself in another order can still move its rows; hence the
  second condition of `RowsKeepTheirPlace`.
- Of several members of an object with the same key, which JSON permits, `selfOrLink`
  takes the first and `action` the last (`links.go:250-256`, `324-335`).
- A string that is the value of `Oem` itself is drawn in the standard colour, since
  `insideOEM` asks for open containers; the link pane files it as OEM.
- `oem.go:11` says the header uses `OEMTypes`; nothing does at this commit.

## Not modelled

Layout and styles (`styles.go`, most of `header.go`, the text `bodypane.go` makes of the
headers), help texts, TLS and the transport, the service metadata of the header,
`Breadcrumb` and `NormalizeHost`, the options and the quoting of the curl command, the
token boundaries of the JSON scanner (escapes, numbers, literals) and the HTTP test
fixture (`redfishtest`). They are renderings or parsings of one string, without state
and without a second definition to hold them against; the repository's unit tests are the
better tool for them.

## Plan

1. Freshness of answers: what a cached view guarantees about its age, and what the
   "cached ... ago" marker of the header says of it.
2. `Breadcrumb` over the segments of `RedfishPath`: the trail of a place is that of its
   parent and one crumb, with a proof.
3. The curl command's options: it is anonymous exactly when the request is.
