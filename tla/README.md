# Verification of CleanArchitecture

TLA+ specifications of the book catalogue in this repository, the TLC
configurations that check them and TLAPS proofs of what matters most.
`PROJECT.json` relates every definition to the source lines it stands for, and
lists the runs, the hazards, the disagreements found and the theorems.

## 1. Inventory

| Component | State | Operations | Talks to |
|---|---|---|---|
| Book aggregate (`CleanArchitecture.Domain`) | title, genre, recorded events | `Create`, `Update`, `Genre.FromCode` | called by the command handlers |
| Validators and mediator pipeline (`CleanArchitecture.Application`) | none | `ValidationBehaviour`, the book validators | before every handler |
| Command and query handlers (`CleanArchitecture.Application`) | one `DbContext` per request | create, update, delete, get, list | the `DbContext` |
| Persistence (`CleanArchitecture.Infrastructure.Persistence`) | the Book table, the change tracker | `SaveEntitiesAsync`, the audit and event interceptors, the retrying execution strategy | PostgreSQL, the event dispatcher |
| Domain events | events recorded on an entity | dispatch, `BookAddedEventHandler` | the save |
| Authorization and HTTP (`CleanArchitecture.Infrastructure/Security`, `API`) | none | policies, endpoints, `ResultExtensions`, `GlobalExceptionHandler` | the mediator |
| Book listing (`GetBooksQueryHandler`, `Pagination.tsx`) | none between pages | count, page, page window | the Book table |
| Admin session (`admin/src/lib/auth`, `app/api`) | session cookie, refresh token at the identity provider | sign-in, refresh, proxy, federated sign-out | Keycloak or Entra, the API |
| Admin client (`QueryContext`, `useBookMutation`, `BookForm`) | query cache, form | queries, mutations, invalidation | the proxy |
| Migrator (`CleanArchitecture.DbMigrator`) | attempt counter, the migration history | migrate with retries, exit | PostgreSQL; restarted as a job |
| Hosting (`CleanArchitecture.AppHost`) | resources, waits, a generated secret, settings | start, run again, import of the realm | every host, Keycloak, PostgreSQL |
| E-mail (`BrevoEmailService`) | none | registration and validation of its options, send | Brevo; no caller in the repository |
| Admin shell (`SidebarContext`, `AppSidebar`, `Modal`, `Dropdown`, `LanguageContext`) | sidebar, submenu, dialogs, dropdowns, language | toggle, hover, resize, navigate, open, close, press | the window and the document |
| Generated client, migrations, template widgets, tests | | | see *Not modelled* |

What makes each one correct:

* **Commands and persistence**: an answer agrees with what happened; rows satisfy
  the aggregate's rules though concurrent updates are merged column by column;
  deleted books stay deleted; one delete wins; creation dates never move; every
  accepted request is answered.
* **Domain events**: an event is dispatched exactly for what is committed.
* **Listing**: items and totals describe one page of one table; page arithmetic
  stays in range.
* **Session**: no token known to be expired is handed out; the newest refresh token is
  not lost; the user's roles are named as long as the provider's tokens allow; a 401 leads
  to a live token or to a page that says why not.
* **Client cache**: after a mutation no page keeps showing what it contradicts; one form's
  saves are carried out in their order; what is typed yields only to something newer.
* **Permissions**: the pages offer everything the policies admit.
* **Migrator**: it succeeds only with the schema complete, fails only when its attempts
  are spent, and ends.
* **Hosting**: the waits are not circular; both sides of a sign-in get the same
  provider, all settings it demands and the secret the realm has.
* **Shell**: content and sidebar do not overlap; what is open shows; nothing stays stuck
  after the dialog, the page or the width that caused it is gone.

What is hard: handlers run concurrently over one table with a read and a later
write and no concurrency token; the execution strategy repeats statements whose
outcome it does not know; cancellation may strike at any await; the admin
application refreshes tokens in several processes at once and caches on the
client; a fetch, a time-out and a late commit meet in one form; containers and secrets
outlive a run of the AppHost and the realm does not follow them; and what the shell
shows is computed by several components from state each of them keeps.

## 2. Modules

| Module | Role |
|---|---|
| `BookRules` | Pure: titles, genres, validators, policies, error classification |
| `BookLifecycle` | Abstract: what the service promises about its table |
| `BookApi` | Detailed: concurrent requests, change tracking, save, retries, faults |
| `MCBookApi` | Instances of `BookApi` for TLC |
| `BookApiProofs` | TLAPS proofs about `BookApi` |
| `BookForms` | Over `BookApi`, without state: what the form sends, what an answer carries, how the pages read it |
| `BookFormsProofs` | TLAPS proofs about `BookForms` |
| `BookOutcomeProofs` | TLAPS proofs about the answers of `BookApi` and its refinement of `BookLifecycle` |
| `BookListing` | The paged list: the two statements of a listing, the pager, the writers |
| `BookListingProofs` | TLAPS proofs about `BookListing` |
| `MCBookListing` | Instances of `BookListing` for TLC |
| `TokenSession` | The admin session: cookie, refresh, proxy, sign-in and sign-out |
| `TokenSessionProofs` | TLAPS proofs about `TokenSession` |
| `BookAdmin` | One tab of the admin: query cache, pages, form, dialog, mutations, against an abstract API |
| `BookAdminProofs` | TLAPS proofs about `BookAdmin` |
| `Startup` | The AppHost's resources, waits and settings, and the migrator |
| `StartupProofs` | TLAPS proofs about `Startup` |
| `AdminShell` | Sidebar, submenu, dialogs, dropdowns and language of one tab |
| `AdminShellProofs` | TLAPS proofs about `AdminShell` |

`BookApi` uses `BookRules` and implements `BookLifecycle`. `BookAdmin` stands on an API
reduced to what a client can tell apart (a write, a refusal, an answer that may be lost);
it and `TokenSession` describe the same tab from two sides and are checked apart: of a
session `BookAdmin` needs the roles only, as a set, and the way back from signing in is a `Load`.

### BookRules

Texts are abstract. A title is told apart by its length and by being blank, a
genre code by its length and by what trimming leaves of it, because this is all
that `ValidBookTitle`, `ValidBookGenre`, `Book.ValidateTitle` and
`Genre.FromCode` look at. `Viewer`, `Editor` and `Admin` are the three policies;
`Classify` and `SuccessStatus` are `ResultExtensions`.

### BookApi

The state is the Book table (`book`), the GUIDs drawn so far (`issued`), the
readings taken from the `TimeProvider` (`clock`), and for every request its call,
stage, book, change-tracker entry, used retries and answer. `dispatched`,
`committed` and `lostAcks` record what happened. An action is the code between
two awaits:

| Stage | Actions | Code |
|---|---|---|
| idle | `RejectToken`, `RejectRole`, `RejectMalformed`, `RejectInvalid`, `Accept` | middleware, policies, the binding of the body, `ValidationBehaviour` |
| accepted | `HandleCreate`, `HandleUpdate`, `HandleDelete`, `HandleGet`, `HandleMissing`, `HandleRejected`, `ReadFails` | the four handlers up to `SaveEntitiesAsync` |
| handled | `BeginSave` | both `SavingChangesAsync` interceptors, in registration order |
| sent | `Commit`, `Conflict`, `SaveFails`, `Retry`, `LoseAck` | the statement, the `catch` blocks of `SaveEntitiesAsync`, the execution strategy |
| any in flight | `Abandon` | cancellation token, process stop |

Entity Framework is external and is modelled from how this code uses it. One
entity changes per save, so a save is one autocommitted statement. An `UPDATE`
writes the columns whose value differs from the one loaded and finds its row by
key alone, since `BookConfiguration` declares no concurrency token (`Written`,
`UpdatedRow`, `StatementApplies`). A statement that affects no row raises
`DbUpdateConcurrencyException`. `EnrichNpgsqlDbContext` turns the retrying
execution strategy on; it repeats the statement but not the interceptors, and it
cannot tell a lost acknowledgement from a statement that never ran (`LoseAck`).

Choices worth knowing:

* The clock moves forward with every reading. A system clock set back between two
  saves would break the order of the audit columns, and nothing in the code
  prevents it; the model does not include it.
* A token always carries a user name. `CurrentUser` can also return none, which
  leaves `UpdatedBy` empty.
* The replaced `Genre` is an owned entity, so an update always counts as a change
  (`HasChangedOwnedEntities`) and is always stamped.
* GUIDs are version 7 and never repeat; `Id \ issued` says so.
* A get reads through a projection and is answered in the step that reads; its
  body is left out.

### BookLifecycle

`book` and `gone`: a book appears once, is revised in place with its creation date
fixed, holds only sound content, and once removed its identity never returns.
`BookApi` implements it with `gone` mapped to the books of committed deletes.

### BookForms

The admin's side of a call: which books the form lets through (`bookSchema`), what body and
which error codes each answer carries (`Bodies`), how the admin reads it (`parseResponseBody`,
`extractApiErrors`, `getFieldErrors`), and the alert and the marked fields that follow
(`BookForm`, `ErrorAlert`). All of it is a function of a call and its answer, so the module
adds no state to `BookApi` and is checked on every answer the run `inputs` reaches.

`AnswersAreUnderstood` says what a user gets to see, and where it is exact it shows gaps that
no document denies:

* The 409 of an update or a delete, and the 422 of a read with the empty GUID, are answered but
  not declared to the client (`AnswersAreDeclared` exempts the two).
* A form whose book failed to load again shows that error instead of those of the save, while the
  fields at fault stay marked.
* A text that something on the way puts in place of an answer is shown as it is.

Two things are left out. In development a malformed body is answered 500, because the framework
throws and `GlobalExceptionHandler` has no case for it; the form sends none. And `Input` passes on
the props it names only, so the `aria-invalid` and `onBlur` of the title's field are dropped.

### BookListing

`GetBooksQueryHandler` counts the table (`Count`) and reads the rows of a page
(`Fetch`) in two statements without a transaction. The client opens any page
(`Open`) or follows the pager's next link (`FollowNext`), and `Add`, `Remove` and
`Retitle` may fall between any two statements. Titles and identities are numbers
because only their order counts, as in `OrderBy(Title).ThenBy(Id)`. The offset is
computed in an `int` of `IntBits` bits (`AsInt`); a width of 8 never wraps with the
pages of `walk`, one of 4 wraps where 32 bits wrap for pages above 21 million.
The pager reads the totals of the answer's payload, and falls back on the page asked for and one
page without them (`payload`, `pagination`).
The rest of the state is history: the books present when the walk began, those
shown, those shown twice and the kinds of write since.

Between the address bar and the handler the page's schema reads an unusable page as
the first one, and a size outside the limits as ten. The model lets any request
reach the validator, as another client of the API may.

### TokenSession

One browser's session cookie, one tab, one identity provider. Time passes in ticks.

| Actions | Code |
|---|---|
| `Ask`, `Refresh`, `RefreshFails` | the `jwt` callback and `refreshAccessToken` on both sides of its `fetch` |
| `Grant`, `Timeout` | the identity provider (external) |
| `Deliver`, `Discard` | what becomes of the result: the session endpoint sets the cookie again, a page rendered on the server (`getServerSession`) cannot |
| `Forward`, `Arrive` | the proxy route with `getAccessToken`, and the bearer check of the API |
| `Gate`, `SignIn`, `SignInFails`, `TryAgain` | `proxy.ts`, the sign-in page, `applyAccount` |
| `SignOut`, `EndSession`, `StaySignedIn` | `handleSignOut`, the provider's logout, `resolveSafeRedirectUrl` falling back to `/` |

A *reader* is any request that runs the `jwt` callback, and several may run at once:
tabs, page loads, the session endpoint. Each works on the cookie it came with and
sets the cookie whatever happened to it meanwhile. A session holds its sign-in
(`grant`), a refresh token and an access token. Refresh tokens are numbered per
sign-in because only their order counts, and an access token is the time it expires
at. `serial` is the refresh token the provider issued last. `mishap` is history: a
spent refresh token whose successor was lost, dropped by a page, or overwritten.

`Rotates` says whether the provider accepts a refresh token once, which
`auth-options.ts:161` prepares for; the realm in this repository reuses them.
`ReportsExpiry` says whether it names a lifetime. `Leeway` is the clock skew the bearer
middleware allows, five minutes unless it is configured. A session without a refresh
token is not distinguished: its refresh fails as any other (`RefreshFails`).

`RolesIn` says on which tokens the provider puts the roles. Sign-in reads the access token
and falls back on the id token (`applyAccount`), a refresh reads the access token only
(`Refreshed`), a failed one leaves what was there. `roles` is whether the session names
any; which roles, and how a claim spells them, is left out. Of `RolesIn` the run takes the
case the two paths tell apart: `{"id"}`, where the comment at `auth-options.ts:91` sees
Entra ID.

`MaxDelay <= Skew` is an assumption about the world: an answer of the token endpoint is
at most 30 seconds old when it is read. The code sets no time-out on that `fetch`, and
without the assumption `NeverReturnsExpired` is false, because the expiry is counted
from the arrival of the answer (`auth-options.ts:165`, and for a sign-in by the library
that fills `expires_at`).

### BookAdmin

The content of a book is abstracted to a *stamp*, the moment of its last change, because
the properties only ask which of two contents is the newer. A *visit* is the life of one
mounted page: form, dialog and pending flags go with it, cache and requests do not.

| Actions | Code |
|---|---|
| `Navigate`, `Load`, `Arrive` | links and history; the address bar; the redirect after a save |
| `Type`, `submit`, `handleDeleteClick`, `handleCloseModal`, `handleConfirm` | `BookForm`, the list's `PageContent`, `BookDeleteModal` |
| `Commit`, `Refuse`, `OtherWrite` | the API: a request carried out or refused, other users |
| `Render` | the render after a submission, which disables the button |
| `Resume`, `Continue` | the query library goes on with the mutations, or the fetch, it has held |
| `Lose` | the end of `orvalFetch` without an answer: its time limit, a broken connection, an error |
| `InvalidateList`, `InvalidateDetail`, `Settle` | the callbacks of `useBookMutation`, one action per await |
| `Read`, `Receive`, `FetchFails` | a fetch, read by the API and then delivered or failed |
| `Age`, `Collect`, `Reconnect` | the query library's staleness, garbage collection and refetch |

The query library is external and modelled from the options the code gives it
(`QueryContext`, `book-queries.ts`). An invalidation marks a query and refetches it if a
page shows it, cancelling a refetch under way but not a first load (`Invalidated`); the
query functions pass the signal on, so a fetch dies with its last observer (`Switched`).
A form is filled again when the query delivers *different* data, because equal data keeps
its reference (`Refilled`). The ten-second limit applies to calls without a signal, hence
to mutations only. A mutation that the client has given up may still be carried out: `Lose`
and `Commit` are independent.

`QueryContext` leaves the library's `networkMode` at its default, so it starts nothing while the
browser is offline, and resumes nothing and tries nothing again until the tab is in front too.
The connection may break and come back between any two steps and so has no variable: at every
start a mutation may be held (`unsent`) or a fetch (`paused`), and be let go at any later moment
or never. A held mutation is pending, which disables its form, but has made no request: `Lose`,
and with it the time limit, is for mutations that have been sent. `invalidateQueries` awaits no
refetch that is held (`Invalidate`).

Nothing but an attribute of the last render keeps the user from submitting twice: `handleSubmit`
validates asynchronously, and `isPending` reaches the button a render after `mutate`. Until that
`Render` the form and the dialog can be submitted again (`rendered`, `Disabled`, `Pressable`), and a
call sent in that gap is marked `early`. Nothing else is let happen in the gap: it may as well
happen after it.

The links are those each component renders: the rows' (`RowLinks`), which an error of the list
hides, the list's own (`ListLinks`, `canCreate`), the detail page's (`DetailLinks`).

### Startup

The state of each resource and what it still waits for, the secret and realm of a developer's
runs, the health checks with their outages, and the migrator. `WaitsFor` is what the AppHost
declares per environment. A wait is over (`WaitEnds`) once the other resource has run and, if the
hosting packages register a health check for it (`Checked`: PostgreSQL with its database, and
Keycloak, in both environments), has been seen healthy; a resource starts when all its waits are
over (`Ready`). `WaitForCompletion`, which would ask for an exit code, is used nowhere. The waits are
those of an AppHost that orchestrates; in a deployment on Azure nothing waits, so for production the model
says what `aspire run` does with those settings.

The settings each side is given (`ConfigureKeycloak`, `ConfigureEntra`, the settings files) stand
beside what it demands (`ApiDemands`, `AdminDemands`, `EmailOptionsValid`), as the names of
settings that are not empty. A value is named for what it is made of. `ProvidersMatch` compares
what the admin registers (`buildProviders`) with where it refreshes and as whom
(`getOAuthEndpoints`, `getOAuthClientCredentials`), and the realm or tenant with the one the API
takes tokens of (`TakesTokens`); whom Entra issues a token for depends on the scopes the operator
configures and is left out.

| Actions | Code |
|---|---|
| `Start`, `Rerun` | a resource starts; `aspire run` again, over persistent containers and a stored secret |
| `StartMigrator`, `Apply`, `Complete`, `Fail`, `Delay` | `DbMigrator/Program.cs`: the loop, its two `catch` clauses, the delay |
| `Kill`, `Restart` | the job's replica timeout and retry limit (production) |
| `WaitEnds` | the AppHost notices that a wait of a resource is over |
| `Heal`, `GoAway` | a health check answers, or ceases to; without PostgreSQL an attempt of the migrator fails |

`sound` says whether the data and the rights admit the migrations: `ConstrainGenreCode`
narrows a column and fails on a code that is too long, on every attempt. An `NpgsqlException`
counts as transient whatever its cause, so such an error is retried like an outage.

### AdminShell

A commit of React with its effects is one step, because effects run before the next
event is handled. The state of `SidebarContext`, `AppSidebar`, the `Modal`s, the
`Dropdown`s and `LanguageContext` is kept under its names; what several of them compute
from it (`mainContentMargin` in the layout, `sidebarSpace` in the sidebar) is written as each
computes it. A press is a `mousedown`, heard by the document, and then a click
(`handleClickOutside`, `Clicked`); with the keyboard there is no `mousedown`, and every
control can be reached, those behind a dialog too, since the dialogs keep no focus.
On windows below 1024 pixels the second row of the header, with the language and the
dropdowns, is there only while the application menu is open (`HeaderShown`,
`toggleApplicationMenu`); closing it or narrowing the window hides an open dropdown
without closing it. The items of a dropdown differ in where they lead and are alike in
closing it (`Item`); a press inside on none of them, such as the button to sign out, leaves it
open (`Inside`). The cards of the dashboard have dropdowns of the same kind (`Chart`), which go
with their page. Two can be open at once, since a press on the toggle of one leaves another open.
The effect that measures a submenu runs whenever the object `openSubmenu` is a new one, and the
model's (`Measures`) only when it opens or closes, which is less often.
`handleSave` is Save on a card of the profile, which stores nothing.
`Commit` includes the layout effect that measures a submenu. Arabic has the direction of
Persian and is left out of the run, as are the third card of the profile and two of the three cards of the
dashboard, which do what the others do.

## 3. Runs

| Run | Question | Bounds | Result |
|---|---|---|---|
| `inputs` | is every request answered, through conflicts, failures and retries, and what does the user get to see of the answer? | 1 request; all operations, 5 users, 5 titles around both limits, 8 codes; empty table or one book; 1 retry, 1 lost acknowledgement | 16,104 states |
| `race` | do concurrent requests keep the lifecycle? | 3 requests, 2 ids, 1 retry, no lost acknowledgement | 301,013 states |
| `faults` | do answers and table agree under faults? | 3 requests, 2 ids, 1 retry, 1 lost acknowledgement | 231,008 states |
| `walk` | what does walking the pages show while the table changes, and where does the pager lead? | 3 ids, 2 titles, sizes 1 to 3 with at most 2 allowed, pages 0, 1 and 6 | 93,594 states |
| `session` | what do two readers and a rotating provider leave in the cookie, which roles does it name, and where does a 401 lead? | 2 readers, 1 call, lifetime 2, skew 1, delay 1, 3 ticks, 2 sign-ins; roles on the id token | 1,003,156 states |
| `admin` | do cache, form and dialog keep up with the user's own saves and those of others? | 1 book, 1 set of roles (all of them; `AdmittedIsOffered` ranges over its subsets), 2 visits, 2 mutations, 2 changes of the books of which 1 another user's, no retry of a fetch | 340,801 states |
| `startup` | does every start end with matching settings, and the migrator with the truth? | 3 attempts, 2 restarts, 1 outage of a health check, 3 runs of the AppHost; both environments, providers and kinds of data | 135,996 states |
| `shell` | does the shell stay consistent through any mixture of events? | 3 widths, 3 pages, 3 dialogs, 3 dropdowns, 2 languages; unbounded events | 508,800 states |
| `events_lost`, `wrong_updater` | a comment of the code against the code | 1 or 2 requests | violated |
| `page_overflow` | the same, for the offset of a page | 3 ids, ints of 4 bits | violated |
| `api_waits` | the README against the waits of the AppHost | 2 attempts, 1 run | violated |

The bounds are enough for what the properties relate. They speak of at most two
requests on one book and of a third that interferes; two identities suffice for
the seeded book and one created meanwhile. One retry separates "repeated" from
"used up", and one lost acknowledgement is what it takes for a statement to run
twice; a second adds a second run of the same statement. Requests are symmetric in
`race` and `faults`. In `walk` three books fill three pages of one, or a page of
two and a partial one, so a walk has a first, a middle and a last page; two
titles make some books tie. In `session` two readers are what an overwritten
cookie takes, a lifetime of two ticks with a skew of one gives a token each of
the three ages (trusted, about to expire, expired), three ticks let a refreshed
token expire too, and the second sign-in meets the answers to readers of the
first. `MaxTime` stops the clock and `MaxGrant` ends the user's work after that
many sign-ins; what is under way still goes on. In `admin` two visits are a page and the one
that follows it, two mutations are a request and the one sent after it was given up or
answered, and two changes of the books are an own save and another user's, or two own ones. After the last
mutation the user types nothing more and opens no dialog. The code retries a
failed fetch twice; a retry changes nothing but the number of fetches, so
`MaxQueryRetries` is 0 in the run. In `startup` three attempts and two restarts (ten and
three in the code) have a first, a middle and a last; three runs of the AppHost are one
that imports the realm, one that finds it, and one after its removal. The shell is finite as
it is. Every run of `BookApi` and of `Startup` disables the deadlock check, because a
behaviour ends when each request has its answer, or the start is finished.

`race` and `faults` declare their requests symmetric; neither checks liveness.

A definition whose name ends in `_Something` is a mistake planted beside the one
it spoils; each property has one that makes its run fail.

What the runs show beyond "it holds":

* `GoneForGood` holds without lost acknowledgements: a 409 always means that the
  book no longer exists. The advice in its message, to reload and try again,
  can then never succeed.
* With a lost acknowledgement `GoneForGood` and the refinement fail, which is why
  `race` excludes it: the repeated `INSERT` of a create adds the book again after
  somebody deleted it. `NoResurrection` states exactly what remains true.

* A walk through the list may miss a book when another is removed, and repeat one
  when another is added; `RemovalsRepeatNothing` and `AdditionsSkipNothing` state
  the two halves that do hold. The second has one exception, found by TLC: a book
  added between the count and the rows of the last page pushes one off the page
  while the total still says that the page is the last.
* While there are two pages or more, the pager offers a way back even from beyond
  the end (`PagerLeadsBack`). With one page or none it renders nothing, so a reader
  left on page two after deletions has no link there.

* With a rotating provider two readers can end a session that was alive: the one that
  comes second is refused, and if its response is delivered last the cookie says
  `RefreshAccessTokenError` (TLC counts this as a `mishap`). `RotationKept` states what is left: without
  a mishap, and with nothing under way, the provider still knows the cookie's token.
* A page rendered on the server spends a rotating refresh token and drops its successor
  (`Discard`), so with such a provider opening a page can be what ends the session.
* A provider that puts the roles on the id token only loses them at the first refresh:
  `RolesShown` says that the session names them until then and not after, whichever
  reader refreshes and whatever becomes of its answer. From then on the pages offer nothing
  that takes a role. With the roles on the access token the session names them throughout.
* A response under way while the user signs out sets the cookie again (`Deliver` after
  `SignOut`), and its access token works until it expires. Nothing in the repository
  promises otherwise, so nothing is stated.
* If the API keeps refusing tokens that the provider keeps issuing, 401 and sign-in
  alternate for ever, each time reaching the "live token" of `UnauthorizedHeals`.

* A save under way when its page is left still invalidates, and still redirects the tab to
  the list (`Arrive`). A deletion whose dialog was closed meanwhile closes the dialog that is
  open for another book when it ends (`Settle`).
* `OwnSaveSeen` has two exceptions, both the library's or the code's: a first load under way at the
  invalidation is not repeated, and shows what it read before the save until it is stale;
  and the detail of a deleted book stays cached, since `useDeleteBook` invalidates the list
  only.
* `OwnSavesInOrder` has two exceptions. A save given up after ten seconds may be carried out after
  the one that was submitted in its place. And two submissions before the page has rendered its
  pending flag are two requests under way at once, which the API may take in either order.
* `MutationEnds` has the exception the library makes: a mutation submitted without a connection
  is pending, and its form disabled, for as long as the connection is down, with no time limit;
  so is one that meets a refetch which is held later. Once nothing is held any more, it ends.
* `AdmittedIsOffered` holds for every set of roles; its converse does not, since a policy asks for all the roles up to
  its own and a page for one.
* A migration that cannot be applied costs all the attempts of a run, and all the
  restarts of the job; `GivesUpWhenSpent` and `MigratorEnds` say that this is all it costs.
* Nothing waits for the migrator in production, and in development the API waits only
  until it runs. `AdminStarts` holds whatever the migrator ends with, so the API may serve
  requests over an incomplete schema. It asks that no health check of a declared resource fail
  for good: one that does holds the start up for ever. An outage after a wait was over stops
  nothing.
* After a load on the dashboard its submenu starts closed, and follows the route only once
  another page has been visited. Two dialogs opened over each other with the keyboard let
  the page scroll as soon as one of them is closed. Neither is promised otherwise.

### Disagreements with comments and documents

1. `BookAddedEvent` is never dispatched: the interceptor looks for
   `AggregateRoot`, and `Book` is not one (`events_lost`).
2. `UpdatedBy` may name somebody other than the last writer, because the column
   is omitted when it equals the loaded value (`wrong_updater`).
3. "The items for the current page" may be those of another: the offset of a large
   page wraps around (`page_overflow`). A negative offset is refused by the
   database.
4. "The migrator runs on every `aspire run`, and the API waits for it to finish": `WaitFor`
   lets the API start as soon as the migrator runs (`api_waits`). In the trace, one of the
   development environment, PostgreSQL and Keycloak are healthy and the migrator is in its first
   attempt when the API starts. In production nothing waits for it by design
   (`README.md:228`), and the property does not speak of that.

Known from the models and not run as disagreements of their own:

* A concurrent modification is overwritten and not reported as a conflict; only a
  deletion is. `StatementApplies` looks at the key alone.
* "The write could not be committed" may be answered for a write that was, when the
  acknowledgements of all its attempts are lost. In the same way a repeated `DELETE` finds
  nothing and is answered as a conflict with itself, which is why `AnswerMatchesEffect` leaves
  409 out.
* "A token cannot expire while a request is in flight" holds where the session is
  read. The proxy attaches whatever the cookie holds without looking at its expiry; what
  follows is a 401 after the leeway, and a sign-in that leaves the page being edited.
* The admin's settings are validated when they are first read (`getEnvVars`), not when it
  starts.

### Fairness

`Fairness` is weak fairness of `Handle(r) \/ Save(r)` for each request: the server
schedules the continuation of every request it has accepted, and each await of
the code ends in a result or an exception. Nothing is assumed of `Enter` or
`Abandon`, nor that any particular outcome of a save occurs; termination comes from the bounded
number of retries.

In `TokenSession`, `Leave` is weakly fair: once the tab is on its way to the provider or
back, the redirect ends, in success (`SignIn`), with an error (`SignInFails`), or at home
(`StaySignedIn`). The sign-in page starts the redirect by itself (`page.tsx:38`). No
fairness is assumed of the user, of the readers or of time.

In `BookAdmin` rendering and a fetch that has been sent are weakly fair: the fetch is answered or
fails. A query carries no time limit of its own (it passes the library's signal instead), so this rests on
the API, which answers every request it has accepted (`EveryRequestAnswered`), and on the
runtime of the proxy, whose `fetch` gives up on a server that is silent. The
callbacks of a mutation are strongly fair, because a callback resumes once the fetch it
awaits has ended, even if another one starts at once. That some callback of some mutation does is
all that is assumed, and is enough, since each mutation has only a few. The time limit of `orvalFetch` makes
`Lose` possible as long as no answer has come to a mutation that has been sent. Nothing is assumed
of the user, of the API, of the cache's clock, or of the connection: what is held may be held for
ever. In `Startup` a wait that is over is noticed and a resource that may start does (the AppHost
starts it), an attempt of the migrator ends (`Complete`, `Apply` or `Fail`: a command has a time-out), and
the delay passes. In production nobody is assumed to start the job, and nowhere is a
health check assumed to answer or an outage to end. `AdminShell` has no fairness: everything is up to the user.

## 4. Proofs

### BookApi

`BookApiProofs` proves, for every set of requests, identities, titles, codes and
users, every number of retries and of lost acknowledgements, and every initial
table that satisfies `ApiAssumption`:

| Theorem | Statement |
|---|---|
| `Invariance` | `Spec => []IInv` |
| `TypeCorrect` | `Spec => []TypeOK` |
| `RowsAlwaysSound` | `Spec => []RowsSound` |
| `CreationDateIsKept` | `Spec => CreatedDateKept` |
| `GoneIsGone` | `Spec => NoResurrection` |

`RowsSound` is not inductive: an `UPDATE` takes some columns from the request and
keeps others that a concurrent update wrote. `IInv` adds what makes the mixture
sound. `EntriesSound`: what a context is about to write is valid by itself.
`OneCreatedDate`: every context that loaded a book, the row, and a creation still
being retried agree on the creation date, so a new `UpdatedDate` beside the stored
`CreatedDate`, or the reverse, is in order. This needs `Identity` (a GUID belongs to
one creation) and `ContextScope` (a context lives from the load to the answer and
only acts for somebody its policy admits). The proof
sorts the steps into those that only answer (`AnswerInvariant`), those that
change what a request tracks, and those that run a statement
(`StatementTable`, `StatementInvariant`).

`BookOutcomeProofs` goes on from `IInv` and proves what answers say of the table, the last
three for `MaxLostAck = 0`:

| Theorem | Statement |
|---|---|
| `AnswersMatchEffects` | `Spec => []AnswerMatchesEffect` |
| `CreatedBooksSurvive` | `Spec => []CreatedBookSurvives` |
| `OneDeleteWins` | `Spec => []OneDeleteSucceeds` |
| `GoneStaysGone` | `Spec => []GoneForGood` |
| `ServiceImplementsLifecycle` | `Spec => ImplementsLifecycle` |

`StepKind` sorts every step into four kinds: a refusal, which answers and writes nothing, a
progress, which neither answers nor writes, a committed statement, and a statement whose
acknowledgement is lost. `OutcomeInv` adds that who is before the save has no write to
its name and that only a delete tracks a deletion (`Settled`). Without lost
acknowledgements, what has taken effect has been answered; `FinalInv` adds that a
book still being created is seen by nobody else, and that who deleted a book or met a
conflict about it looks at an identity that is not in the table and, being issued, is
not drawn again. For the refinement a committed statement maps to `Add`, `Revise` or `Remove` of
`BookLifecycle`, every other step to a stutter.

### BookForms

`BookFormsProofs` goes on from the same `IInv`, for every set of titles, codes and users and every
number of retries and failures:

| Theorem | Statement |
|---|---|
| `AnswersAlwaysFit` | `Spec => []AnswersFit` |
| `AnswersAlwaysUnderstood` | `Spec => []AnswersAreUnderstood` |
| `StoredBooksFitTheForm` | every live row passes the form's own rules |

An answer and its call are all `AnswersAreUnderstood` looks at, so the invariant says which go
together (`Answerable`): a 422 only for content the validator or the domain refuses, a 409 only for
an update or a delete, a 404 for no creation. It is inductive because a read never gets to a save.
From there each conjunct of `AnswersAreUnderstood` is a statement
about the codes: those of the service meet those of `fieldErrorMap` exactly where a field is at fault.

### BookListing

`BookListingProofs` proves, for every set of books, every page and page size, and every width of
an int that holds the largest page:

| Theorem | Statement |
|---|---|
| `TypeCorrect` | `Spec => []TypeOK` |
| `RemovalsNeverRepeat` | `Spec => []RemovalsRepeatNothing` |
| `AdditionsNeverSkip` | `Spec => []AdditionsSkipNothing` |
| `QuietWalksAreExact` | `Spec => []QuietWalkIsExact` |
| `PagerAlwaysLeadsBack` | `Spec => []PagerLeadsBack` |
| `FittingPagesAreExact` | every step of `Spec` that shows a page whose offset fits an int shows the books of its ranks |
| `PagesHoldTheirBooks` | `Spec => PageHoldsItsBooks`, if the offsets of valid requests fit and an int can count the table |

The properties speak of the end of a walk or of what it has shown; the invariant follows it by the
number of places its pages have covered (`Covered`). While books are only removed the others move
forward, so what was shown stays behind that point (`ShownStaysBehind`); while they are only added
they move back, so what was not shown stays beyond it (`RestStaysAhead`). The offset of any page
may wrap around (`page_overflow`), but not that of a page a walk reaches: it is at most a page
beyond one that fitted, and comes out negative, which the database refuses (`NoWrap`, `AsIntIs`).
The powers of two this needs come from counting subsets (`Doubling`).

`PageHoldsItsBooks` is false without a hypothesis, as the run `page_overflow` shows: nothing in the
code bounds the page number. `FittingPagesAreExact` puts the condition into the step (`Fits`) and
holds of every table and request; `PagesHoldTheirBooks` puts it on the requests a client makes and
proves that the next page of a page that fits does too, since it begins within the table
(`NextPageBegins`).

### TokenSession

`TokenSessionProofs` proves, for every set of readers, pages and calls, every lifetime,
skew and delay that satisfy `SessionAssumption`, and every provider:

| Theorem | Statement |
|---|---|
| `Invariance` | `Spec => []IInv` |
| `TypeCorrect` | `Spec => []TypeOK` |
| `RotationIsKept` | `Spec => []RotationKept` |
| `ExpiredIsNeverReturned` | `Spec => NeverReturnsExpired` |
| `RolesAreShown` | `Spec => []RolesShown` |

`RotationKept` looks only at quiet moments and so is not inductive. `IInv` says what
holds while reads are under way: a new refresh token is the newest of its sign-in and is
held by exactly one reader, everybody else holding an older one (`NewTokenIsAlone`), and
without a mishap the newest token is in the cookie or carried by such a reader
(`NewestIsKept`). When no reader is left, the second disjunct is gone. For
`NeverReturnsExpired` the invariant bounds how much later than the truth a session
believes its token to expire (`Dated`: by at most `MaxDelay`), which the skew covers.
`RolesShown` speaks of the cookie only; `RolesInv` says the same of what every reader holds
and brings back, and that a rotating provider never grants the first refresh token again,
so that the token in the cookie tells whether the session was refreshed.

### BookAdmin

`BookAdminProofs` proves, for every set of books and roles, every number of retries, changes,
visits and mutations:

| Theorem | Statement |
|---|---|
| `TypeCorrect` | `Spec => []TypeOK` |
| `SavesKeepOrder` | `Spec => []OwnSavesInOrder` |
| `TypingYieldsToNewer` | `Spec => EditsYieldToNewer` |
| `AdmittedAlwaysOffered` | `Spec => []AdmittedIsOffered` |
| `OwnSavesAreSeen` | `Spec => []OwnSaveSeen` |

`OwnSavesInOrder` becomes inductive with `CallsInTurn`: of two calls of
one visit the earlier one is settled or failed, unless one of those after it up to the later one
is `early`: a page sends one kind of call, and once it has rendered its pending flag that holds the
next back. A settled call was carried out before the next one was sent, so its
stamp is smaller; a failed one is the exception the property makes. `EditsYieldToNewer` needs
`Fresh`: what a query holds is no newer than the book, an answer under way no older than what
it will replace, and the form of an open edit page was filled from what the query holds. The only
step that clears `typed` without a new visit is `Receive`, and it does so only for data that
differ, which then are newer. Most steps treat a query in one of a few ways that bring no
new data (`Tame`), and one lemma serves them all.

`OwnSaveSeen` speaks of a settled call and of the queries long afterwards, so it needs a second
invariant, `CacheInv`, on top of the first. From the moment the invalidation after a call has
reached a query (`Told`), the query *sees* the call (`Sees`): data older than the call are marked,
and fetched or shown as an error while a page shows them, and an older answer is under way only to a
first load the call met. Every step of a query keeps that for every call a book could have had
(`Follows`), so one lemma, `CacheFollows`, carries all the steps of the tab. The step that makes a
query see is the invalidation itself, and it relies on a query without an observer being idle: that
of a hidden query only marks it. The API's own steps disturb it from the other side:
a write makes every older content outdated, but the call it belongs to has told nobody yet. A
`Create` names its book only when it is carried out; nobody knew the book before, so no query is
older than its creation (`Newest`), and that is why `useBookMutation` has to invalidate no detail then.

### Startup

`StartupProofs` proves, for every number of attempts, restarts, outages and runs:

| Theorem | Statement |
|---|---|
| `TypeCorrect` | `Spec => []TypeOK` |
| `SuccessIsMigrated` | `Spec => []ExitZeroIsMigrated` |
| `FailureIsSpent` | `Spec => []GivesUpWhenSpent` |
| `SecretsAlwaysMatch` | `Spec => []SecretsMatch` |
| `ProvidersAlwaysMatch` | `Spec => []ProvidersMatch` |

`SecretsMatch` is not inductive: it speaks of a running admin, while
the secret is fixed when the AppHost starts and the realm when Keycloak does.
`SecretsKept` says that the secret of this run is the stored one, that a realm has that one
or none, that in development a wait that is over was for a resource that has started, and that a
running admin implies a running API and so an imported realm, which the waits give. The two statements about exit codes need that a migrator with
a code is over (`TypeOK`) and that the AppHost's view of it agrees (`StatesAgree`).
`ProvidersMatch` is a fact about the settings. The
proof has one lemma per kind of step (`StartInvariant`, `RerunInvariant`,
`FinishInvariant`, `FailInvariant`) and a QED that adds up the rest.

### AdminShell

`AdminShellProofs` proves for every choice of the languages, of the profile's cards and of the
dashboard's:

| Theorem | Statement |
|---|---|
| `TypeCorrect` | `Spec => []TypeOK` |
| `NeverOverlaps` | `Spec => []ContentBesideSidebar` |
| `OpenNeverHidden` | `Spec => []OpenSubmenuShows` |
| `ChoiceStaysOnPage` | `Spec => []SubmenuStaysOnPage` |
| `NeverStuck` | `Spec => []PageScrolls` |
| `PressAlwaysToggles` | `Spec => PressToggles` |

The invariant says why: a wide window never has the overlay and the document's direction is that of
its language (`WideIsPlain`), a closed submenu's height is only applied to one that is closed, because
opening measures it (`HeightFits`), and only a toggle leaves a choice to open (`ChoiceIsToggled`).

### Assumptions and limits

The assumptions are the named ones: lengths are natural numbers, canonical genre codes are
fixed by trimming and fit their column, the initial rows are sound (`BookRules`, `BookApi`);
identities and titles are ordered like numbers and an int holds the largest page (`BookListing`);
the token endpoint's delay is within the skew (`TokenSession`); there is at least one attempt and
one run (`StartupAssumption`); the bounds of `BookAdmin` are natural numbers and its keys are
distinct (`AdminAssumption`); the languages of `AdminShell` are what their name says. TLC evaluates them in every run of a module that extends theirs.

Only model-checked: the liveness properties (`EveryRequestAnswered`, `UnauthorizedHeals`,
`MutationEnds`, `MigratorEnds`, `AdminStarts`), which are out of the prover's reach.
Every invariant and action property of a passing run has a theorem.

### Not modelled

* **Request logging, telemetry, health checks**: they change no state and pass every
  result through.
* **Sending e-mail** (`BrevoEmailService`): one HTTP call without state, which nothing in the
  repository makes; what its options decide at start-up is in `Startup`.
* **Template pages and widgets** (the content of charts, calendar, tables, form elements, icons):
  layout, or state no other part reads. The dropdowns of the dashboard's cards are modelled. The theme is one flag in local storage; the header's search
  field touches nothing else. Of the profile's cards the dialogs and what Save does are
  modelled, their forms save nothing.
* **The spelling of roles in a token** and the construction of the provider's addresses:
  pure conversions.
* **Generated code**: the client's types, the migrations' designers and the snapshot.
* **Tests**: read as documentation of the intent.

## 5. Plan

1. Done: `BookRules`, `BookLifecycle`, `BookApi`, their runs and first proofs.
2. Done: `BookListing`: the two reads of a listing among concurrent writers, the
   offset, the page window of the pager.
3. Done: `TokenSession`: the cookie, refresh with rotation in concurrent readers, the
   proxy, sign-in and sign-out, and its invariants proved.
4. Done: `BookAdmin`: the client cache with staleness, invalidation, time-outs and
   resubmission against an abstract API; what the pages offer against what the policies
   admit.
5. Done: `Startup`: the waits and settings of the AppHost, the migrator's retries and
   restarts, and its invariants proved.
6. Done: `AdminShell`: what surrounds the pages and outlives them.
7. Done: proofs of the answers of `BookApi` and of its refinement, of `BookListing`,
   `BookAdmin` and `AdminShell`.
8. Done: `BookForms`: what the user gets to see of an answer, over `BookApi`, and proved.
9. Left: `BookAdmin` over `TokenSession`, so that a 401 in the middle of a save ends the
   visit.
