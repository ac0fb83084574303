# The academic resource hub in TLA+

A verification project for the Go backend of the IIITONE academic resource
hub: TLA+ modules translated from the code, TLC configurations that check them
on small instances, and TLAPS proofs for instances of any size.  Paths below
are relative to the repository.

## Inventory

The backend is one process (`cmd/server/main.go`) behind a chi router. It keeps
no state of its own: requests run concurrently, each a goroutine, over
Postgres, a MinIO bucket and a Redis cache. No handler opens a transaction or
takes a lock, so two requests interleave between any two calls.

| Component | State | Operations | Talks to |
|---|---|---|---|
| Schema (`migrations/`) | tables `users`, `courses`, `materials`, `flags`; UNIQUE, foreign keys, CHECKs, a cascade, the search-vector trigger | the SQL statements of the repositories | everything |
| Upload (`internal/materials/upload_handler.go`) | a temporary file per request | `POST /api/materials`: hash, duplicate check, course, store, insert | courses, materials, bucket |
| PDF text (`internal/materials/pdf.go`) | none | magic bytes, text-layer tokenizer | upload |
| Moderation (`internal/moderation`) | none | approve, reject, flag, resolve, two queues | materials, flags, bucket |
| Detail (`internal/materials/detail_handler.go`) | none | one row and a presigned URL | materials, bucket |
| Search (`internal/search`) | Redis entries with a TTL of two minutes | `GET /api/search` | materials, Redis |
| Courses (`internal/courses`) | rows | find-or-create, listing | upload |
| Login (`internal/auth/handlers.go`, `oauth.go`) | a state cookie and a session cookie in the browser | start, callback | Google, users |
| Gate (`internal/auth/middleware.go`, `jwt.go`) | none: the token carries user and role for seven days | `RequireAuth`, `RequireAdmin` | every `/api` route |
| Users (`internal/users`) | rows | profile, ban, unban, upsert at login | login |
| Metrics (`internal/metrics`) | counters per path, method and status | middleware | every route |
| Start-up (`cmd/server`, `config`, `db`, `router`) | none | read the environment, connect, route | all |

What is hard, and what makes each part correct:

* **Upload and moderation.** A material is a row *and* an object, and no
  transaction ties them. Races (duplicate check against insert, deletion
  against upload, two deletions, approval against deletion), failures after
  half of the work, lost answers and crashes must leave rows unique, rows
  backed by objects, objects owned by rows, flags on materials that exist, and
  answers that mean what they say.
* **Detail.** A link is signed without a look at the object and outlives the
  row. A client that finds nothing behind it must have a reason for it.
* **Search.** Cached results outlive the rows they were computed from. They
  must belong to the question asked, must never show a material that was not
  published, and must become right again.
* **Login, gate, users.** A token outlives the role and the status it was
  issued for; the state cookie is single-use and shared by all tabs; nothing
  binds a code to the state it comes with; a ban races a login; the upsert is
  keyed by one of two unique columns, so two first logins can collide in the other.
* **PDF text.** A hand-written tokenizer over arbitrary bytes must end and stay in
  bounds wherever strings and dictionaries break off, must not show an
  operand twice or under the next operator, and must read back what a PDF writer
  wrote. That Postgres does not store every text it produces is a finding.

## Modules

| Module | Models | Notes |
|---|---|---|
| `Tables` | tables and bucket; one operator per statement or storage call | shared by the next two |
| `UploadHandler` | one upload: `phase[u]` is its next call or its answer | one action per call and outcome |
| `Moderation` | one moderation request: `mphase[d]` | reject and resolve share `deleteMaterial` |
| `MaterialHub` | the composition, crashes, properties, inductive invariant | |
| `Catalogue` | abstract specification: a file is nowhere, pending, or approved | refined by `MaterialHub` |
| `Reading` | the hub with clients of `GET /api/materials/{id}` and of the bucket: `rphase[r]` | extends `MaterialHub`, changes nothing of it |
| `ContentSyntax` | the bytes and words of a content stream that the code tells apart | shared by the next three |
| `PdfText` | `ExtractText`: a step is one pass of the innermost loop, `mode` the loop | sequential; every file is an initial state |
| `Lexemes` | what the strings, words, comments of a page are and mean, told from the bytes between two positions | no loop, no recursion |
| `ContentStream` | abstract specification: a page is read lexeme by lexeme, and operators show the strings before them | refined by `PdfText` |
| `Writing` | how a page is written: a string unit by unit, a page piece by piece, each adding to what the page shows | read back by `PdfText` |
| `Ranking` | queries, filters and the result cap of `Repository.Query` | shared by the next two |
| `SearchIndex` | abstract specification: an answer is what the table would have given at one recent moment | refined by `SearchCache` |
| `SearchCache` | search requests over Postgres and Redis, with time | one action per call of the handler; `Tick` ages the entries |
| `Sessions` | sign-in, users table, cookies, token, gate | one action per call of the callback; `Reply` is the arrival of the answer |
| `Admission` | abstract specification: a consent admits its account once, as what it is at one moment, for a bounded time | refined by `Sessions` |
| `MCMaterialHub`, `MCReading`, `MCPdfText`, `MCSearchCache`, `MCSessions` | instances for TLC | `MCPdfText` writes the documents to be read back |
| `MaterialHubProofs` | types, inductive invariant, uniqueness, backing | |
| `CatalogueProofs` | what a step does to a row, the refinement | |
| `AnswerProofs` | rejects are final, flags end with their material or by a resolve that deleted what it named, what explains a 500, an idle course and a row without object | |
| `ReadingProofs` | readers change nothing, dead links and orphaned objects explained | |
| `PdfTextProofs` | types, bounds, progress of the tokenizer | |
| `ContentStreamProofs` | the tokenizer implements `ContentStream`, lexemes are unambiguous, and what is written is read back | extends `PdfTextProofs` |
| `SearchCacheProofs` | filters, publication, age of what is shown, the refinement of `SearchIndex` | |
| `SessionsProofs` | one consent per session, bans and when they take effect, age of the admin role, why a sign-in is refused, the refinement of `Admission` | |

### State and code

A row of `materials` has a random id and is inserted by exactly one upload
request, so the request names the row: `status[m]` is `"absent"`, the status
column, or `"deleted"`. A content names its SHA-256, its file key and its object
(`fileKey := "materials/" + hash + ".pdf"`); collisions are not modelled.
`Refused` holds the pairs of a title and a content that no row can hold: the title or
the extracted text has zero bytes or is not UTF-8, which a `TEXT` column refuses, or both
together have more words than the `tsvector` takes that the trigger makes of them.
`ExtractText` passes the bytes on unchanged, and of the title the handler only looks
whether it is blank. `title[u]` is chosen where it is used, in `Create`: no step before
it depends on more than that.
A course id is the row of a (name, branch, year, semester) tuple; `None` is an
id that names no row.

Each call out of a handler is one step. `Check` is `ExistsByContentHash`,
`CourseByName` is `FindOrCreate`, `Put` and `Purge` are storage calls, and so
on. The validation that follows a call without another call is part of that
call's step. An action with `Fails` in its name is the same call reporting an
error: the statement may have been applied all the same (a lost answer), except
where the code makes no call. A client that disconnects cancels the request's
context, which looks like such a failure. `Crash` stops the process: requests
under way are `"lost"`, tables and bucket stay.

`contended` is a history variable: the contents two requests have worked on at
once, that is, an upload let past the duplicate check while another upload of
the content was past it, or a deletion begun while another deletion of the
same row was under way. It is never read by a guard. It names the race the code
has, so that what holds outside of it can be stated and proved.

**Reading.** A reader asks for a row that exists or existed (`AskDetail`),
`GetByID` and `PresignedGetURL` are the two calls of the handler, and `Follow`
is the client's own request to the bucket, at any time after the answer. A link
that expired is one never followed, so the fifteen minutes need no clock.
`"sign"` in `Faults` lets signing fail.

**PDF text.** Bytes are numbers, `pos` is the code's index plus one and -1 stands
for the end of the data. A page is a sequence of bytes, or `Unreadable` when
`os.ReadFile` fails. `mode` is the loop the code is in (`scan`, `comment`,
`literal`, `hex`, `dict`, `token`), `last`, `haveLast`, `inArray` and `arr` are
the variables the closures share (`arr` already joined), and a string, once
parsed, becomes an operand in one step (`Operand`). A token's bytes collect in
`buf`, and `TokenEnds` is `flushOperator` or the kerning branch. What
`strconv.ParseFloat` takes is the domain of the constant `Kerning`; an error of pdfcpu and a file
without pages are alternatives of `Extract`. `start` is where what is being read began: the
code's local of that name for a token, history for the other loops.

`Lexemes` says what these loops look for without looping: `Escapes` tells an
escaping backslash from an escaped one by the parity of the run of backslashes before
it, `Marks` are the positions between `i` and `j` inside no escape, `Depth` counts the
parentheses among them, `LiteralBytes` and `HexBytes` are what the positions stand for, in
order. The steps of `ContentStream` are whole lexemes, so a string is
closed where its parentheses balance for the first time (`ClosedLiteral`) or runs to the end of the page
(`OpenLiteral`). Two things stay as loose as the code's intent: which `>>` closes an inline
dictionary, and which files pdfcpu does not take.

`Writing` is the other side: a string is a run of units (a byte for itself, an escape), a page a
run of pieces (blanks, comments, dictionaries, brackets, strings, words), and each says what it adds to the
bytes of the string, or to what the page shows (`WrittenString`, `WrittenPage`). A run is a
sequence of its intermediate states, so that nothing recurses. A dictionary ends
here where the code's count of `<<` and `>>` ends it.

**Search.** An entry is what a reader stored with the time it has left, `ttl`,
and, as history, the time since its results were read, `age`. `CacheKey` is the
identity because the code hashes the whole query as JSON (in which all bytes that are not
UTF-8 look alike; the queries of the model differ in their filters). `Selections` is
the result cap with ties broken either way; what `ts_rank` and the stemmer
compute is a constant. `Miss` covers a Redis that does not answer, an
evicted entry and a value that does not parse. `recent[n]` is history too: the sets of
approved materials there were in the tick `n` ticks ago, as far back as `Lag = TTL + Slack - 1`.
Approvals and deletions are single statements here; how they come about, and
that nothing else moves a row, is `MaterialHub`'s subject (`StatusMoves`).

**Sessions.** A sign-in `l` stands for its random state, `granted[l]` for the code
Google hands out for the account that consented, which Google takes once
(`spent`). Callback requests may come from any browser and repeatedly, with the state of
one sign-in and the code of another (`Callback(c, b, s, l)`): the handler compares the state with
the cookie, and neither a nonce nor PKCE binds the code to it. So the sign-in a
browser began and the consent that signs it in may be two, and
`SessionsAreConsented` promises no more than the code does: one consent for each session, in a browser that began
a sign-in. A code that Google never gave out is answered 502 like a spent one and is left out.
The upsert has two steps because Postgres looks for the `google_sub` first and then
inserts: another callback of the same account may insert its row in between (`FindsNoRow`), and then
`users.email`, which `ON CONFLICT (google_sub)` does not arbitrate, refuses the second (`EmailTaken`).
Postgres fills the indexes of a table in the order they were created, so the address is
noticed before the `google_sub` would be, and the statement does not start over.
What the handler does after the upsert is one step up to its answer; cookies change when
that answer arrives (`Reply`), so a request sent earlier carries the old ones.
An HS256 signature is taken to be unforgeable and issuing a token never to
fail. The token's life is counted from the arrival of the answer, at most
`Slack` after it was issued. `Promote` and `Demote` are manual SQL: no endpoint
writes roles. `/api/me` and the other routes behind the gate do not change what
is modelled here. `lost`, `since`, `age` and `barred` are history: how long an account has been no
administrator, how long banned, how old the callback's upsert is, and banned ever since it arrived.

`Admission` knows neither cookies nor calls. A sign-in is `used` in it once Google has taken its code and
no callback has its upsert before it; a `warrant` is a 302 on its way, a `pass` a
cookie the gate lets through.

## Runs

| Run | Instance | Question |
|---|---|---|
| `hub_faults` | 3 uploads of 1 file, 2 moderation requests, 1 flag, all faults and crashes | the inductive invariant; unique contents; rows backed; 204 answers; how a row's status moves; refinement of `Catalogue` |
| `hub_quiet` | 2 uploads, 2 files and 2 titles (one of each refused by Postgres), 2 courses, 2 requests, 1 flag, 1 reader, crashes and failed signing, fairness | when an upload is answered 500; a resolve deletes its material; how flags end; why a course has no material; which objects no row owns; why a link leads nowhere, and that it dies with its material; which rows are without object in the end |
| `hub_fetchable` | 2 uploads of a file, 1 deletion, no fault | finding: a live row without object |
| `hub_resolve_db` | 1 upload, 1 resolve, database errors | finding: resolved, and still live |
| `hub_text_layer` | 1 upload, 2 files, 2 titles | finding: text that cannot be stored fails the upload, though its title can |
| `pdf_text` | every page of up to 4 of the 10 bytes `% ' ( ) 4 < > [ \\ LF`; files that show strings of up to 2 of 5 bytes, fairness | types; no reading past the page nor collecting more than was read; written strings are read back; refinement of `ContentStream`; each step moves on; the extraction ends |
| `search` | 2 readers, 2 materials, a wide and a narrow query, cap 1, Redis and Postgres failing | the invariant of the cache; filters; publication |
| `search_index` | the same with the wide query only, fairness | refinement of `SearchIndex`; how long a withdrawn material is shown; that nothing is missed once the table rests; that the cache becomes right |
| `search_at_once` | 1 reader | finding: a deleted material is still served from the cache (a `Hit`; results read before the deletion do not count) |
| `sessions_safe` | 3 accounts (one of another domain), 2 browsers, 2 sign-ins, 1 callback at a time, everything failing | the invariant of sign-in; one consent for each session; bans stop sign-ins and take effect in time; age of the admin role; refinement of `Admission` |
| `sessions_quiet` | 3 accounts (one inherits an address), 2 sign-ins, 2 callbacks at once, no fault, fairness | which refusals there are, those of two first sign-ins of one account included; refinement of `Admission` with callbacks that race; a ban is effective in the end |
| `sessions_gate` | 1 administrator | finding: the admin gate trusts the token |

Bounds: three uploads are the least that show a file uploaded, withdrawn and
uploaded again while a third upload of it is past its check; two moderation
requests are the least that race each other and each upload. One file suffices
where properties speak of one file; `hub_quiet` has two so that files could
disturb each other. `hub_quiet` has two uploads: one to be
linked to and withdrawn, one to race it or to bring the file back; readers do
not see each other, so one is enough. It uses no symmetry, which is not sound
for properties under fairness. Requests and flags are symmetric, and
properties that hold are proved for every size below. Deadlock is not checked
in the hub's runs: a state in which every request was answered has no successor.

For PDF text, four bytes are enough to open any two of the structures and to
break off in either, or in an escape of three digits; the ten bytes are one of
each kind the code tells apart, with `'` the shortest operator and `4` a digit
that is octal, hexadecimal and a kerning number. `MovesOn`, `NoLongerThanPage` and
`ImplementsStream` are proved for all bytes and lengths. The documents of `ShowsDocument` hold
strings of up to two of `(`, `)`, backslash, `A` and byte 128, each written in six ways
(escaped, nested, octal, octal above 255, hexadecimal, folded over lines), alone or two in an
array with gaps of -250, -100 and -99, with a comment, a font operator or a
dictionary in front of the operator, and pages that break off before it.

For search, `TTL = 2` and `Slack = 1` let an entry be stale in its first and last
tick and let results be cached a tick after they were read; `Lag` is how far back
`recent` reaches, the oldest an answer can be. Two readers are the least that overwrite each
other's entry; the cap of 1 hides the lower of two materials. The two runs share the model:
`search` has two queries whose entries could be confused and, without fairness,
symmetric readers; `search_index` has one query, for which the temporal properties are affordable.
For sessions, `Horizon` (`TTL + Slack + 1`) is where all elapsed times stop, one past the largest
the properties tell apart; two browsers show
a callback from the wrong one, two sign-ins share a cookie, and two callbacks
at once meet in `sessions_quiet`, whose shorter lives (`TTL = 1`, `Slack = 0`) pay
for them. Browsers, sign-ins and callbacks are interchangeable in `sessions_safe`. Two sign-ins mean that its behaviours end with everybody's tokens:
what it shows is that no step on the way keeps a banned account in.

Divergences from comments and documents that were met on the way and that no run
states: a state cookie is not consumed until the answer arrives
(`internal/auth/handlers.go:98`), a duplicate that races the first upload is
stored before it is refused (design document, line 117), flags on pending
materials are queued (line 135), and `ResolveFlag` "hard-deletes the flagged material"
(`internal/moderation/handlers.go:124`) only if the `material_id` it is given is the flag's, which it
does not compare.

Fairness. In the hub (`Fairness`, used in `hub_quiet`) every upload and moderation
request under way takes its next step, which may be that its call failed; nobody
has to send a request, readers have no fairness, and a crash ends whatever is
under way. The tokenizer has weak fairness of its one goroutine. For search and
sessions, `FairSpec` assumes that time passes (`Tick`) and that each request under
way takes its next step, that is, calls return or fail; Go runs every ready
goroutine, and drivers and sockets have finite timeouts on the client side or
break. Nothing is assumed of those who search, sign in, approve or delete, nor
of Redis evicting. `Tick` is disabled only while a request has used up its
`Slack`. The code sets no such bound (`http.ListenAndServe` without timeouts,
`cmd/server/main.go:64`): properties that mention `Slack` say what staleness
costs on top of it.

## Proofs

Assumptions: `None` is not an id (`NoneAssumption`), `Refused` is a set of
pairs of a title and a content, `Faults` a set of known faults; `TTL` is positive, `Slack` a natural
number (`TimesAssumption`, `LivesAssumption`), asked queries are queries, and
`Nobody` is nobody; pages are sequences of bytes (`FilesAssumption`) and numbers
non-empty ones (`KerningAssumption`). Nothing is assumed finite.

`HubInv` is the inductive invariant. Uniqueness of contents is inductive by the
UNIQUE constraint alone, but `Backed` is not: to see that a deletion does not
strip another row, and that an insertion finds its object, one has to know who
else is working on that content. `LoneUpload` says that an upload past its check
whose content is not contended is alone with it, `LoneDeletion` the same of a
deletion past its lookup, `StoredFirst` that the object precedes the row, and
`RowsComeFromCreate` and `TargetsKnown` tie requests to rows. The proofs go
action by action; actions that only move a request on share a lemma
(`UploadMoves`, `ModerationMoves`). `CatalogueProofs` reduces every step to one
of four effects on one row (`RowMove`), from which both the action property
`StatusMoves` and the refinement follow.

`CacheInv` says of which moment results are: an entry and a request under way hold
results that answer their query `AsOf` the moment `age` ticks ago, and `age + ttl <= TTL +
Slack`, so the older the results the shorter they stay. A tick moves `recent`, `age` and
`ttl` together, so that all of it stays true; a step that answers then answers as of at most `Lag`
ticks ago. That is the refinement of `SearchIndex` (`SearchImplementsIndex`): each answer is mapped to
the abstract answer at the entry's `age`, approvals and deletions to the moves of the
shelf, fetching, caching, evicting and failing to stuttering. `WithdrawnSoonGone` and
`SettledIsCurrent` follow at the same step, the first because a set that is `Lag` ticks old is the oldest
there is, the second because all remembered sets are then one.
`SessionInv` relates three clocks in the same way for the role in a token and for a ban (`TokenInv`):
how long the account has lost what the token says, and what is left of the token. It also
says where things came from: a cookie from a sign-in of its browser, a callback
from a browser that began one, a session from a consent that neither another session
nor a callback under way has (`SourceInv`, whose witness is a function from browsers to
sign-ins, changed only where an answer arrives). `BanStopsLogin` needs that `barred` means
banned for as long as the callback is on its way.

`SessionsImplementAdmission` maps the upsert to the admission or, for a banned account, to a refusal; an account
of another domain, a failed `Verify` and a failed upsert to a refusal, which may leave a row behind; the
arrival of the answer to `Deliver` or `Drop`, a tick to a tick. Everything else
of sign-in is stuttering: a successful `Verify`, a callback that is answered at once or replayed, a
cookie that expires. That a consent admits once needs more than that Google takes a code once: no two
callbacks may be between the exchange and the arrival of the answer with the same code, which is the last conjunct
of `LoginInv`. A callback that found no row has not used its consent yet: `FindsNoRow` is a stutter.

`AnswerProofs` and `ReadingProofs` add invariants to `HubInv`, one for each
explanation. `ResolvedMeansGone` needs that a resolve past its lookup has a
deleted target; `OnlyRacesReach500`, that a request's course exists from the moment it was
resolved, so that only the UNIQUE constraint and the title and text are left to refuse the row;
`CoursesAccounted`, that the upload that resolved a course goes on naming it, and had a row if it
was answered 201.
`FlagsAccounted` needs three invariants at once: flags are about rows (`FlagsHaveMaterial`, from foreign key and cascade), a
resolve past its deletion has deleted its target, and a closed flag has a resolve answered 204 that names it.
`OnlyRacesStripRows` delimits the finding of `hub_fetchable`: with `"db"` and `"crash"` not in
`Faults`, a live row lacks its object only under a race or in the middle of its deletion; `Backed`
alone also excuses deletions that broke off, and `NoneBrokenOff` says there are none.
`OrphanInv` says that a deletion about to remove its row has removed the
object, unless an upload past its check has stored it again: only so does the DELETE
leave no object behind. `MissExplained` is inductive once every explanation is seen to stay:
contended contents stay contended, deleted rows stay deleted, a half-done
deletion ends in one of its own outcomes. Theorems about the hub carry
over to `Reading` by `ReadingImplementsHub`. Seven of them assume which calls do not
fail (`"db"`, `"store"`, `"disk"` or `"crash"` not in `Faults`), as the properties do, and
`RefusalsKnown` that `Faults` of `Sessions` is empty; the findings show what happens otherwise.

In `PdfTextProofs`, `NoLongerThanPage` is inductive because the sum of what is
shown, held and collected grows by at most what `pos` does: an escape takes two
bytes for one, a hex byte two digits for one, and the line end after a string is paid
for by its delimiter or its operator. `MovesOn` bounds the run by two steps a byte, which is why
`ExtractionEnds` holds; that last conclusion needs induction over the length of the file
and is only model-checked.

`ContentStreamProofs` proves that the byte loops implement `ContentStream`. A loop's result is a
recursive function of the page, and tlapm has no induction over data; but the loop itself is the
induction, if an invariant says what has been read so far in terms that do not recurse. That is
`ReadInv` (proved as `ReadsLexemes`), one part per mode: in a literal, no escape reaches past `pos`,
`depth` is `Depth`, `buf` is `LiteralBytes`, and an even number of backslashes stands before `pos`, which is why
the code may call a backslash an escape without looking back. The lemmas under it say what one
more byte or escape (`Unit`) does to each of these: `UnitEnds` and `UnitMarks` that it adds one
mark, although it may be four bytes long (`NoEscapeWithin`: what looks like an escape
inside an escape is none), `UnitDepth`, `UnitBytes` and, for hexadecimal strings, `HexGrows` what the mark adds;
`OrderedSnoc` is what they rest on, that the last of a set of positions is the last in order.
`SameLexemes` and its kin identify the operators of the instance with those the invariant uses.
`StreamStep` then maps the step that leaves a loop to the lexeme that was read, everything before
to stuttering. That the abstract specification prescribes one text is `LexemesUnambiguous`: at each
place of a page begins at most one lexeme, and it has one end, dictionaries excepted.

`PagesShowWhatIsWritten` is about the whole page: if the page was written as some run of pieces, then at its end the
tokenizer has shown what that run shows, for every page and every way of writing it. A proof by
induction over the run is again not to be had, so `FollowInv` follows the run along with the
tokenizer: for every way the page could have been written, some state of the run (`AtPiece`) is where the tokenizer is now, with
its operands and its output; inside a string the same holds of the string's run
(`StringFollows`), inside a dictionary of its nesting (`DictFollows`). When a loop is
left, the run has one more piece and not another, because lexemes are unambiguous (`PieceByFirst`).
A page that could not be written at all would make this hollow: `EveryStringIsShown` writes any
sequence of bytes, each as three octal digits, constructs its run, and concludes that the page shows
exactly it.

Only model-checked: `ShowsDocument`, which compares the text of whole files with what the
documents of the instance were written to show (`PagesShowWhatIsWritten` is the same of
every page; how `MCPdfText` concatenates its documents is not proved to be a run of pieces); and the properties under fairness, `ExtractionEnds`,
`SettlesBacked`, `EventuallyFresh` and `BannedEventuallyOut`.

## Plan

Done: the hub with its abstract catalogue and its readers, search with its abstract
index, sign-in with its abstract admission, the tokenizer with its abstract stream; every safety
property of these runs but `ShowsDocument` proved, and all four refinements. Left: a composition of
`SearchCache` with `Reading`, so that what is found is also fetched (how long a search can lead to a dead link).

## Not modelled

* A storage call that is applied long after it was reported as failed.
* The `h.store == nil` and `h.courses == nil` branches: `main` always sets them.
* Column data no property depends on: types, sizes, branches, names.
* The listings and `GET /api/me`, which read and change nothing.
* `PATCH /api/me`: it writes a branch and a year of the caller's own row, which
  only the caller's profile shows again.
* pdfcpu and `strconv.ParseFloat`, external; spaces outside ASCII in
  `strings.TrimSpace`, which only decide whether a text counts as a text layer.
  The text is a parameter of the upload (`Refused`), not composed with it.
* Metrics: a counter that is incremented after each request and that nothing
  in the repository reads; any property of it would restate the increment.
* Start-up, configuration and routing: run once before the first request, from
  environment variables. Which gate is before which handler is in `Sessions`.
* 204 answers for users or materials that do not exist.
