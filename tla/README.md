# Verification of the Discovery API

TLA+ models of the Mentor Hub Discovery API (`src/`), model-checked with TLC and, in part, proved with
TLAPS. Paths below are relative to the repository. `PROJECT.json` maps every definition that models code
to the lines it models.

## 1. The system

Discovery is a Flask service that runs under gunicorn (`Dockerfile`) or `app.run`, as one or more processes. A worker keeps no
state between requests; all state is in MongoDB, which other domain APIs write as well. Discovery
**controls** one collection, Notification, and **consumes** the others (Profile, Customer, Journey, Event,
Note, Path, Plan, Resource) to build *cards*. A request handler is sequential, holds no lock and runs no
transaction: the atomic unit is one MongoIO call, and everything between two calls of a request is
interleaved with other requests, other domain APIs and the end of the worker.

### Inventory

| Component | State it keeps | Operations | What makes it correct |
|---|---|---|---|
| Notification control (`notification_service.py`, `notification_routes.py`) | the Notification collection: target ids, global flag, status, `created`, `dismissed`, `cancelled` | create, dismiss, cancel, active read | control breadcrumbs are earned, permanent and visible to later reads; refusals are right |
| Identifiers and claims (`encode_document`, `ObjectId`, `str`) | none | encode, print | two spellings of an id are one id wherever ids are compared |
| Home composition (`card_service.get_home_cards`) | none | one page of the combined list | a walk over the pages sees the combined list exactly |
| Home sections and assembly (`card_service`, `profile_service`, `journey_service`, `event_service`, `note_service`) | none; reads six collections | one query per section, two reads per Member and per Mentee | every card is current and in scope, nothing that stays is overlooked, one card per document |
| Mentee description (`card_service._mentee_description`) | none | fetch notes, truncate | fits the schema, shows the newest notes |
| Member description (`card_service._member_description`, `journey_service`) | none | two reads per Member | its own profile's numbers, read only in scope |
| Card projection and links (`card_service.project`) | none | field table, type, link | a card leads to its own document, in its reader's application |
| Notification card list (`NotificationCardService`, `card_routes`) | none | admin-only filters, list query | no filter of a non-admin reaches a query, a blank filter means none |
| Event cards and display names (`event_service`, `display_names_for_ids`) | none; reads two collections | list, then one name query | each event under a name its own profile had |
| Path, Plan, Resource lists | none | project a shared list | the list of one moment |
| Route table (`register_list_only_blueprint`) | `app.add_url_rule`, the URL map | register | exactly the documented rules exist, the patch never outlives its blueprint |
| Server lifecycle (`server.py`) | the MongoIO singleton, signal handlers | boot, `handle_exit` | the process ends cleanly, whatever signals come and whatever the driver does |

**Interaction.** Routes read the token (`create_flask_token`), mint a breadcrumb and call a service class
method. `CardService` calls `NotificationService` and `ProfileService` for the sections, and
`JourneyService`, `EventService` and `NoteService` for descriptions. Services call `MongoIO` and the list
queries of the shared library `api_utils`. There are no callbacks and no messages except HTTP.

**Hard behaviour.** Check-then-act between `get_document` and `update_document`; overlapping controls and
retries of one document; a worker that ends between the write and the answer; a page that is put together
from dozens of reads with no common snapshot; offset pagination over a list concatenated from limited
queries; two reads of one list with a rename in between; text and ObjectId comparison of the same ids; a length
limit with several terms; a method of the application replaced and restored during boot; signals in the middle of
a request, of the boot, or of the signal handler itself. `hazards` in
`PROJECT.json` lists them with the line where each bites and the property that would notice.

### Not modelled

* The shared library `api_utils` and MongoDB are outside the repository; what `src/` uses of them is modelled
  from that use and marked external.
* The Member description's numbers (Library, Now, Next): `len` of two arrays and one sum, of one document read in
  one call, and their wording. That the reads happen, for whom and in which order, is modelled (`ReadJourney`).
* Authentication (401), invalid ids (400 or 404 from the library) and pagination headers out of range (400) are
  refused before any code modelled here runs; the filters and orders of the typed lists other than notifications
  are the shared factories'.
* Texts: truncation works on lengths, everything else on equality and on being set.

## 2. Modules

| Module | Models | Extends |
|---|---|---|
| `ObjectIds` | ids, claims, `encode_document`, `str(ObjectId)` | |
| `NotificationControl` | create, dismiss, cancel and the active read, request by request | `ObjectIds` |
| `NotificationBoard` | abstract: a board on which every request acts in one step | |
| `NotificationRefinement` | the refinement mapping and the property `BoardSpec` | `NotificationControl`, `INSTANCE NotificationBoard` |
| `HomePage` | gates, `section_size`, concatenation and slice as functions | `ObjectIds` |
| `HomeSections` | the documents behind each section and the lists a query may return | `HomePage` |
| `HomeAssembly` | a page request read by read, a client walking pages, the writers | `HomeSections` |
| `MenteeNotes` | the note query and the truncating loop | |
| `CardProjection` | `project`: fields, type, link; the event description | `ObjectIds` |
| `TypedCards` | a request to one of the five typed lists, read by read, and the writers | `CardProjection` |
| `ServerLifecycle` | boot, URL rules, requests, signals, `handle_exit` | |
| `MC...` | the instances TLC checks | the module of the same name |
| `...Proofs` | theorems | the module of the same name, `TLAPS` |
| `HomeCompletenessProofs` | that a first page overlooks nothing | `HomeAssemblyProofs` |
| `HomeWalkProofs` | that the pages of a walk fit together | `HomeCompletenessProofs` |

Operators whose comment begins with *Mutant of* are deliberate mistakes, kept next to the definition they
distort: each property has one that it must notice.

### NotificationControl

`store` is the collection. Every request has a program counter `pc` and a `call`; it takes one step per
MongoIO call: `new` (arrival) → `insert` | `read` → `write` | `query` → `reply` → an answer. `GetDocument`
is `_set_control_breadcrumb` up to `_check_permission`, `UpdateDocument` its unconditional one-field update.
`MongoFails` (500) and `WorkerDies` (no answer) may strike at every working point, so from `reply` a write
has been applied whose answer is lost. A retry is another request. A breadcrumb is identified with the
request that minted it. `page` and `before` record what a home read returned and what it could already rely
on when it began (which documents existed, which retirements had been acknowledged).

A body sent to create may carry system-managed fields (`sent`); if they were not stripped, a `Forged` value
would be in the collection, which `TypeOK` and `BreadcrumbsEarned` exclude. Ids keep their spelling in
claims and bodies and lose it in the collection; `Visible` compares ObjectIds, `Permitted` compares text, as
the code does.

### NotificationBoard, NotificationRefinement

The board says what the API promises with no word on how: a request is asked, takes effect in one step (`Post`,
`PutMark`, `Read`, or `Refuse`) and is answered, or is lost before or after that. The refinement mapping hides
the read before an update and the reply after it: `insert`, `read`, `write` and `query` are all *pending*, `reply`
is *taken*. A stored document becomes an entry: its marks (breadcrumbs), its viewers (`Visible`), addressees and
keepers (`Permitted`). So `BoardSpec` states that each request takes effect at one moment between its arrival and
its answer (linearizability), and who may be refused.

### HomePage, HomeSections, HomeAssembly

`HomePage!HomeCards` is `get_home_cards` as a function of the contents of the sections: role and claim
gates, `section_size = min(offset + size, MAX_SIZE)`, concatenation, slice. `CombinedList` is the list the
API contract speaks of: every section in full. `HomeSections` says which documents a section's query
returns: outbound RBAC (unrestricted for an admin), customer scope for Members, the caller's `profile_id`
for Mentees. A sort that leaves two documents equal may put either first, so a query stands for a set of lists
(`Orderings`). `HomeAssembly` runs the request one read at a time (`stage` is the section, `queue` the
profiles whose descriptions are still to be read) while `SaveProfile`, `CreateNotice`, `RetireNotice`,
`ArchiveCustomer` and `EventsMove` write the collections. `span` records, from the moment the request began,
what has matched each section at some moment (`seen`) and at every moment (`stayed`), and which profiles the
description reads asked for. `drift` records what the writes since the walk began did to the sections: nothing,
only additions (forward), or a document taken away (backward). The client asks for the next page while pages are full, as the contract's bare
arrays require.

### MenteeNotes

The query (subject, not archived, author, newest first, at most `CardLimit`) followed by the two loops of
`_mentee_description`. A text is its length; `text` and `length` differ because a note of blanks is true in
Python and folds to nothing. `Joined(lines)` is the length of `"\n".join(lines)`, measured anew in every iteration as
the code does. Notes of one age come in any order. `NewestNotesShown` and `OnlyNewestFew` pin the order of sort, cap
and text filter from both sides: nothing newer with a text is left out, and nothing beyond the newest `CardLimit` is shown.
The final slice to the maximal length is the identity: that is what `FitsSchema` shows, which the model
states for the text *before* that slice.

### CardProjection, TypedCards

One request to a typed list: `Ask` (with the refusal of filters from non-admins, decided before any query),
`ReadList` (the one MongoIO call of a list, projected at once unless events need names) and `ReadNames` (the second
call, one query for all names). `Store`, `Archive` and `Rename` are the other domain APIs. A filter value is not
sent, sent blank, or sent. The parser of the shared library skips blanks (`Parsed`), the route puts the blank keys back
(`Sent`); the refusal looks at which keys are there, the query at which values are not blank, as
`_admin_filter_requested` and `_applicable_card_filters` do. An event holds its profile in two fields, as an ObjectId
or, in old documents, as text, which may be malformed: `UniqueIds` skips that, and without any id there is no second
query. The names are keyed by `str(ObjectId)`. `Wanted` restates the contract without looking at how the code computes
it; `span` keeps every list it would have promised since the request began (none to a caller it refuses, so answering
him breaks `ListIsOfOneMoment`), and every name each profile had. `NamesAreOwn` holds the code to the contract for
references in every form (`Denotes`); it passes while text is canonical and fails for upper-case text (`typed_names`).
`LinksFollowContract` spells out the link table, type, application, page and id, from the document a card stands for.
The entries of `CardProjection` for customers, members and mentees belong to the home list and are exercised by no
property: `HomeAssembly` is about which document becomes which type of card, not about its fields.

### ServerLifecycle

`step` walks through the import of `server.py`: connect, enumerators and versions, ten blueprints in their order,
two signal handlers, `app.run`. `adder` is the `add_url_rule` in place. `register_list_only_blueprint` is one step:
nothing interrupts it but a signal, and a signal at that point ends the process or leaves the import alone.

Until `server.py` installs its handlers the host's are in place. Under `app.run` they end the process (`Killed`). A
gunicorn worker installs its own before the import: TERM only clears `alive` (`StopLater`), so that the import is
finished and the worker then finds its loop over (`StopBeforeServing`), without `handle_exit` and without a disconnect;
INT exits at once (`StopNow`), also out of a `handle_exit` that came between the two installations. `BootFails` may
strike at every step of the import and, under `app.run`, after both handlers are installed, when `API_PORT` is no
number or the port is taken. `ShutdownIsClean` therefore speaks of a process in which `handle_exit` has begun.

A gunicorn worker has one thread, so
the handler suspends its request; under `app.run` other threads run on until the process is gone. `handle_exit`
takes three steps (`SignalHandled`, `Disconnect` or `DisconnectFails`, `Exit`), and any of them may be interrupted by
another signal. It replaces gunicorn's own handler of TERM, which would let the request finish: requests under way are
dropped.

## 3. Runs

| Run | Instance | Shows |
|---|---|---|
| `control_race` (1.5 million states) | 3 requests, 2 documents, 3 tokens (admin, addressee, customer member), 3 create bodies; requests symmetric | the seven invariants and `RetirementIsFinal` under every interleaving |
| `control_live` (59 thousand) | 2 requests, weak fairness of handlers | requests settle, an admitted dismiss or cancel sets its own field whatever came in between, every step is a step of the abstract board |
| `home_race` (170 thousand) | 5 callers of all roles, 2 profiles saved at the same time, 2 notices, 2 customers, 2 writes, a page of 5 | cards current, in scope, unique, complete; every page settles |
| `home_walk` (46 thousand) | 6 callers, 3 profiles, pages of 2 up to index 12, 1 write | the pages of an undisturbed walk are the combined list; a walk that only drifts forward loses nothing |
| `mentee_notes` (50 thousand) | all collections of 3 notes over 9 shapes, ties included, cap 2, room for two short lines | limit kept, newest notes first, none beyond the newest two |
| `typed_cards` (38 thousand) | 3 callers, 9 documents of all lists, 2 profiles, every combination of filters, 2 writes | the list of one moment and none to a refused caller, names and links right |
| `server_life` (1.9 thousand) | both hosts, 2 requests of 2 calls, 2 signals | documented rules, a clean and certain end, no call on a closed connection in a worker |
| `control_spelling`, `home_beyond`, `home_admin`, `mentee_notes_blank`, `typed_names` | see section 4 | a statement of the documentation that the code does not keep |

**Why the bounds are enough.** Lost control, double control and check-then-act need two requests on one
document and a third actor: three requests and `Archive`. Two documents separate "this document" from "some
document", one seeded and one created. The three bodies and the seed cover profile, customer and global targets. In `home_race`
one write before and one after any read make a document leave one section and come back, or move to the
front; two profiles suffice for a Member who is also somebody's Mentee. In `home_walk` pages of two cut
sections of one, two and three cards at every position, for a caller with all sections. The notes' lengths
are chosen on both sides of the room that is left: 0 (blank), 1, one less and exactly what fits, and too long.
In `typed_cards` two writes can archive one event and rename its profile, or store one and archive another, on
either side of either read; the four events are about a profile by ObjectId with the other one in the legacy field,
by text (canonical, or upper-case in `typed_names`) with the other one in the legacy field, by the legacy field alone,
and by malformed text with the id of a profile that is gone. In `server_life` the second signal is what can interrupt the
handler of the first, or arrive between the two installations; a third would only repeat that. `control_live` runs
with two requests because checking the refinement for three takes several times as long and needs no third party:
`Archive` is there, and `Linearizable` proves it for any number.
Bounds in guards: `Reach` (the walk's last index), `MaxWrites`, `MaxSignals`; `MaxSize` stands for the library's
100, and the pages of `typed_cards` are as long as the list.

**Fairness.** `control_live` assumes weak fairness of `Serve(r)` alone, `home_race` of `Work` alone: a
handler that can take its next step does so, because it waits for no lock and no other request, and a
MongoIO call ends in a result or an exception. Clients, writers, failures and the death of a worker are
never forced. The guarantee is that a request is answered *or dropped*. `server_life` assumes that the interpreter
goes on with the import (`Boot`), with the main thread and with each request's thread, and that a driver call, a
disconnect included, returns or raises; signals are never forced. The import is straight-line code, and its fairness is
what ends a worker that gunicorn told to stop while it was still importing. That a disconnect started on top of a driver call finds no lock of that call is the driver's business
(hazards, `server.py:119`).

**Deadlock** is checked in every run. Where a bounded supply of requests is used up the models stutter
explicitly (`Quiescent`, `WalkOver`, `Done`, `Rest`), so a state in which a request hangs is still reported.

## 4. Where the code and its documents disagree

* **`control_spelling`.** `_check_permission` (`src/services/notification_service.py:111`) compares
  `str(target)` with the claim's text. A caller whose `profile_id` is upper-case hexadecimal sees the
  notification addressed to it and is refused (403) when dismissing it. F030 says that a targeted
  notification the caller can see is one the caller may retire.
* **`mentee_notes_blank`.** A newest note of white space ends the loop (`src/services/card_service.py:231`):
  the card says *No notes* although older notes have a text.
* **`home_admin`.** For an admin `_customer_match` (`card_service.py:436`) is unrestricted, so an admin who is
  also a customer gets the first customer by name as "own" card.
* **`home_beyond`.** Beyond `MAX_SIZE` documents of one section a page is no slice of the combined list
  (`card_service.py:327`): in the trace the second page comes out short, so that the client stops, and the last member
  is never shown. F030 accepts that such cards are not reachable; the OpenAPI text does not say so.

* **`typed_names`.** `display_names_for_ids` keys its answer by `str(_id)` (`profile_service.py:292`), and the event
  list looks a profile up by `str` of what the event holds. An event of old that names its profile in upper-case
  hexadecimal stays unnamed although the profile was fetched; the OpenAPI text promises the `display_name` for
  `context.profile_id`, and the docstring accepts ids as strings.

`ForbiddenOnlyForGlobal`, `CustomerCardIsOwn` and `NamesAreOwn` also run as *passing* properties: with canonical claims
(`control_race`), without callers who are both admin and customer (`home_race`), and with canonical references
(`typed_cards`); so does `WalkIsExact` below `MAX_SIZE` (`home_walk`).

One more disagreement needs no run: `docs/openapi.yaml:83` makes Mentee cards depend on the `mentor_id` claim, while the
code (`card_service.py:398`, and the docstring of `mentor_scope_id`) uses `profile_id`, and so does the model.

## 5. Proofs

TLAPS proves the following for every value of the constants that satisfies the modules' assumptions (ids are
not `Absent`, tokens and bodies have their shapes, the seed carries no control breadcrumb, the length limit
leaves room for the empty-notes line, the collections are finite).

**NotificationControlProofs.** `Invariance` establishes
`IInv == TypeOK /\ CallFitsPC /\ InsertIsFresh /\ WriteLanded /\ BeforeHolds /\ PermittedAtWrite /\ BreadcrumbsEarned /\ AckedRetirementHidden /\ HomeMissesNothing`.
The invariants of the runs are not inductive by themselves: `CallFitsPC` says what kind of request can be at
which program point, `InsertIsFresh` that nobody else uses the id of a pending create (otherwise an insert
could wipe out a breadcrumb), `WriteLanded` extends `AckedControlSticks` back to the moment of the write,
`BeforeHolds` says that what a home read relied on is still so. Two lemmas about any step carry the
argument: `StepGrowsStore` (a stored document keeps its target, its breadcrumbs and its archived status) and
`StepKeepsCalls`. Because permission depends on the target alone (`PermissionFollowsTarget`), the window
between read and write is harmless. The theorems `TypeCorrect`, `Provenance` (with `PermittedAtWrite`),
`NoLostControl`, `CheckThenActIsSafe`, `HomeReadIsFresh`, `HomeReadIsComplete` and `Finality` follow. `RefusalOnlyForGlobal` needs one more hypothesis,
`CanonicalClaims`; `control_spelling` shows that it cannot be dropped.

The second part of the module is `Linearizable`: `Spec => BoardSpec`. The mapping takes initial states to initial
states, and under `IInv` every step to a step of the board or a stutter: arrivals to `Ask`, a malformed body to
`TurnAway`, a home read of a caller without a profile to `AskForNothing`; `insert`, an update and a query to `Post`,
`PutMark` and `Read`; a refused `GetDocument` to `Refuse`, an admitted one to nothing. The update is unconditional, so
`PutMark`'s guard (the caller is a keeper *now*) rests on `PermittedAtWrite`, and `Post`'s (the notice does not hang
yet) on `InsertIsFresh`.

**HomePageProofs.** `PageIsSlice`: as long as `offset + size <= MaxSize`, a page is the slice of the combined
list, whatever the sections hold. The limited queries and the full sections agree on their first
`offset + size` elements (`AgreeUpTo`), concatenation preserves that (`ConcatAgrees`), and a slice looks no
further (`PageAgrees`). `PagesTile` is the induction step of a walk. `home_beyond` shows that the bound is
needed.

**HomeAssemblyProofs.** `HomeInvariance` establishes an `IInv` from which `HomeTypes`, `HomeIsCurrent`,
`HomeCounts`, `HomeReadsInScope`, `HomeShowsOnce` and, for callers who are not both admin and customer,
`HomeCustomerIsOwn` follow, for any collections, callers, page size and writes. `Good` is what is known of a card on
the list, `Pending` of a queued profile; both survive any write because the span only widens (`GoodGrows`).
`SpanCovers` says that the span has seen what is there now, so that whatever the next query returns is covered.
`Apart` is what makes cards unique: each section is worked on once (`StageFacts`), a query names a document once
however ties fall (`OrderingShape`), and in the loop a profile is either on the list or in the queue. `home_admin`
shows that the hypothesis of `HomeCustomerIsOwn` cannot be dropped.

**HomeCompletenessProofs.** `HomeIsComplete`: the property `NothingStayingIsMissed`, if the Customer card is certain
(`CustomerIsCertain`: no token carries both roles, or no two customers share a name). `Complete`, inductive relative
to `IInv`, says where a document that stayed is while its section is worked on: on the list, or still in the queue
(`DocsOfMove`), unless the list and the queue together reach the limit, and then a first page is full
(`SliceCompletes`). A query that was not cut returns everything there is (`ListingComplete`, by counting: an ordering
of a finite set leaves no id out), and a write can only take from what stayed (`WriteCompletes`). The hypothesis is
needed because `_customer_home_card` asks for one document: an admin with the customer role is not held to one
customer, and of two with the same name either may come back.

**HomeWalkProofs.** Two theorems about a client that walks through the list, both under `SeedsApart` (documents of a
collection were saved at distinct moments, before any write, and the Customer card is certain) and `Reach <= MaxSize`.
A write is later than every earlier save, so times stay distinct (`SavedApart`), and then a sort has one outcome:
`OneOrdering` builds it from each key's rank. `home_walk` is an instance that satisfies both hypotheses; `home_beyond`
shows that the second is needed. Without the first two pages may see two orders of the same documents, so that one is
shown twice and the other never.

* `HomeWalkIsExact` (the property `WalkIsExact`). `Exact` says that, while nobody writes, the cards on the list
  followed by the described rest of the sections (`ToCome`) are the assembled list at every step of the request: a query,
  a description and the end of a section only move cards across that line. `Slice` then answers the slice that
  `PageIsSlice` promises, and `PagesTile` appends it to the pages before.
* `HomeWalkLosesNothing` (the property `ForwardDriftLosesNothing`). Here writes interleave, and each page is put
  together from another order of documents. `Lossless` counts instead of comparing lists. Call a document *owed* if
  it is on a section, nobody wrote it since the walk began, and the client has not seen it. During a request
  (`Underway`) at least `offset` documents stood in front of every owed one when the request began, each card on the
  line stands behind those before it, and an owed document whose section was read is on the line behind `offset`
  (`FrontIsListed`: everything in front of it is listed first), or the limit cut it off, and then a full page and all
  pages before stand in front of it (`CutIsBehind`). After the slice (`LeftBehind`) what is still owed has as many
  documents in front of it as the client has seen cards, and the page was full: that is the count the next request
  starts from. A write that is forward only adds to the front (`WriteDrifts`). TLC found `Lossless` invariant on the
  instance of `home_walk` before it was proved.

**TypedCardsProofs.** `OneMoment` and `LinksAreRight`. The key lemma is `ResultIsWanted`: for a
query that was not refused, the match the code sends returns exactly what the contract words, because blank values
are dropped for an admin and nobody else sent any; a request the contract refuses does not get as far (`Admitted`). The cards then carry the ids that one query found (`CardsShape`),
whenever the name query follows, and the type and link of the document found under each id (`CardIsLinked`). `CardsFitSchema` (the type invariant, with the shape of the schema's card) and
`NamesBelong` (the property `NamesAreOwn`) rest on `NInv`, which adds to both that the span has recorded every name a
profile has while a query is still to come (`Recorded`), and that only the event list waits for names. A name found by
text is then one that the very profile the event holds had at the second read. `NamesBelong` needs one hypothesis,
`CanonicalReferences` (text in an event is spelled as `str(ObjectId)` spells it); `typed_names` shows that it cannot be
dropped. An event description is the
concatenation of the parts that are known (`Given`), so that its length and its lines follow from facts about `\o`.

**ServerLifecycleProofs.** `SurfaceCorrect` from an invariant that counts, per boot step, the rules registered so far
with the plain `add_url_rule` in place. `CleanExit` and `NoClosedCalls` follow from what `handle_exit` has done in each
phase (`ExitProgress`): once begun it never returns to the boot or to serving, so no failing start can follow it; it
disconnects before it exits; and once it closed the connection the one thread of a worker is never a request's again.

**MenteeNotesProofs.** `NotesTypes`, `DescriptionFits`, `NewestFirst` and `NewestFew` from an inductive invariant that
adds, to the properties themselves: at which point which variable is still empty (`Progress`), that the bodies are the
notes with a text in the order of the notes (`BodiesFollowNotes`), and that once a note had to be cut the description is
full (`LinesFollowBodies`), which is why nothing can follow a cut note. The length of the joined lines is a recursive
function, measured anew at each line: the lemmas on `Joined` say that appending a line adds its length and a joiner.
`NewestFew` counts: what is newer than a shown note stands before it among the fetched notes, which are distinct.

Every invariant, `RetirementIsFinal` and the refinement that the passing runs check is proved. Only model-checked are
the liveness properties (`AdmittedControlLands`, `EveryRequestSettles`, `EveryPageSettles`, `SignalEndsServer`), which
are beyond this prover, and the five statements of the documents that the code does not keep.

## 6. Assumptions about what is outside the repository

* `build_outbound_match` yields `{}` for an admin and otherwise the conjunction it is given; the scope of a
  notification is: not archived, and global or addressed to one of the token's claims (F030).
* `get_notifications` encodes the ids of the match it is given (F140), `create_notification` encodes the body
  and strips `SYSTEM_MANAGED_FIELDS`, `update_document` with `set_data` sets the named field of one document
  atomically, reads are linearizable.
* `pymongo` mints a fresh `_id` for an insert; Discovery and the other domain APIs never delete a
  Notification, they archive it.
* A sort says nothing about documents with equal keys, and may decide differently in the next query. Only
  `WalkIsExact` is checked on an instance whose times are distinct: under ties two pages need not fit together.
* The blueprints of the shared factories mount a list rule and a by-id rule. A MongoIO call on a closed connection
  raises. gunicorn's default worker runs one request at a time in its main thread, and installs its signal handlers
  before it imports the application: TERM clears `alive`, INT exits with 0. The `SystemExit` of `handle_exit` passes
  through the worker's loop; a host that took it for the failure of one request would go on with a closed connection, and
  `SignalEndsServer` and `WorkerNeverRunsClosed` would not hold for a signal in the middle of a request.
* A token without a claim and a document without a field compare as *not set*; `Absent` is none of the values that
  appear in its place.
* The token layer refuses tokens without `profile_id` (`test/e2e/e2e_auth.py:22`); the services guard against
  them all the same, and the instances keep one such caller to exercise the guard.
* In `NotificationControl` a home read takes all active notifications of the caller at once; the limit and the
  slice are the subject of `HomePage` and `HomeAssembly`.

## 7. Plan

In the order of their importance:

1. *done* `NotificationControl` with its proofs, the only state Discovery owns.
2. *done* `HomePage`, `HomeSections`, `HomeAssembly`: the composite home list, with their proofs.
3. *done* `MenteeNotes` with its proofs.
4. *done* `NotificationBoard`, the abstract specification, and the refinement, checked and proved.
5. *done* `CardProjection`, `TypedCards`: filters, event names, projection and links, with proofs.
6. *done* `ServerLifecycle`: route table, boot, signals, shutdown, with proofs.
7. *done* The walk: `WalkIsExact` and `ForwardDriftLosesNothing` for any collections, callers, page size and writes.
8. *left* The Library, Now and Next counts of a Member card, should they ever depend on more than one document.
