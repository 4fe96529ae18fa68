# Formal models of AntTorrent

TLA+ specifications of the AntTorrent backend (`src/backend`) and of the
frontend's logic (`src/frontend/src`), the TLC configurations that check them
on small instances, and TLAPS proofs of the most important properties for every
instance. Run the tools in this directory:

    tlc -workers 2 -config AuthStore_server.cfg MCAuthStore.tla
    tlapm AuthStoreProofs.tla

Backend paths below are relative to `src/backend/internal/`, frontend paths
(`.ts`, `.tsx`) to `src/frontend/src/`.

## 1. The system

AntTorrent is one Go process that serves a React frontend and stands between
the browser and any number of qBittorrent and Transmission instances. In the
backend, state lives in mutex-guarded structs; every HTTP request, WebSocket
connection, Telegram update and MCP process has goroutines of its own, and
nearly every operation takes a mutex several times with network or disk access
in between. In the frontend a handler runs without interruption to its next
`await`, and everything may have changed by the time it goes on: the server
shown, the item selected, the login. That is where this code is hard, and what
the models are about.

| component | state | operations | interacts with | what makes it correct |
|---|---|---|---|---|
| account store (`auth/store.go`, `session.go`, `api/auth.go`, `cli.go`) | record, presence, file fingerprint; `auth.json` | status, setup, login, verify + sliding refresh, change password, CLI reset | the CLI process through the file; every protected route | resets are noticed, changes kick out exactly the older sessions, no takeover |
| login limiter (`auth/limiter.go`) | failure records per address, one global record | Allow, Fail, Reset, RetryAfter | authLogin, around a slow password comparison | locks run their time and are not forgotten; failures are bounded |
| agent connections (`agent/manager.go`, `api/agent_ws.go`, `api/fs.go`) | registry of connections, pending calls per connection | Serve, Call, Remove, pings | agents over WebSocket, token and delete handlers, directory picker | no stray connection, every call answered by its own answer, nothing leaks or blocks |
| qBittorrent session (`qbt/`, `api/handler.go`) | one SID per server id | login, request with one retry after 403, connection test, update, delete | qBittorrent over HTTP; proxy, typed endpoints, AI tools, Telegram | no request executed twice, stale sessions heal |
| Telegram bot (`telegram/`, `api/telegram.go`) | run handle and status; one add flow per chat | Reconcile, run, fail; message and callback handlers | settings store, Telegram, downloaders | one poller at a time and a badge that tells the truth; one add per decision |
| MCP servers (`ai/mcp/manager.go`) | registry and entries: session, process, status | Reconcile, EnsureStarted, CallTool, watch, shutdown | child processes, chat loop, settings endpoint | a live session is not forgotten; no leaked process |
| AI chat (`ai/`) | a conversation in flight | ChatStream rounds, stream assembly | providers, tools, MCP | every tool call gets one result, bounded rounds |
| AI and MCP settings (`api/ai.go`, `AiTab.tsx`, `McpSection.tsx`) | a section of `settings.json`; the form with JSON blocks | load, edit, save with masked secrets | settings store, MCP manager | no secret is lost or swapped |
| Transmission client (`transmission/`) | session id and mutex per server | call with 409 handshake, label and add operations | Transmission over HTTP | one handshake at a time, retried once |
| server configuration (`config/store.go`) | list of servers, `servers.json` | CRUD, back-filling of types and tokens | all of the above | memory and disk agree, ids unique |
| settings and logs (`settings/`, `logging/`, `logbuf/`) | three sections of `settings.json`; ring of lines | save, apply, append | handlers, Telegram, chat | sections do not overwrite one another; the ring keeps the last lines |
| local browsing, messages (`fsbrowse/`, `i18n/`, `apierr/`) | none | pure | | |
| frontend: client and login (`services/api/client.ts`, `stores/authStore.ts`, `auth/`) | phase of the login, calls in flight, the mute of the 401 dispatch | login, setup, logout, password, 401 dispatch | auth endpoints | only the end of a session logs out, and it always does |
| frontend: servers and polling (`stores/`, `hooks/useTorrentPolling.ts`) | list, active server, snapshots | load, add, edit, remove, poll, refresh | API, every page | rounds do not overlap, every server is polled, none after the logout |
| frontend: torrents, RSS, downloader settings (`pages/`) | ticks, windows, forms, trees | actions on what was picked; save per tab | typed endpoints of two kinds of downloader | an action hits what it was meant for, on its own server; a save of one tab touches no other |
| frontend: assistant, directory picker (`assistant/`, `components/DirPathInput.tsx`) | bubbles, event stream; tree, phase | send, stop, clear; open, expand, type, confirm | AI and fs endpoints | the stream is read whole; no answer of an earlier opening is taken |

`PROJECT.json` lists the components with their status and the hazards, each at
its line, with the properties that cover it.

## 2. The modules

Each component is one module; `MC*.tla` gives its constants values for TLC
(bounds, symmetry), `*Proofs.tla` holds its theorems. Definitions introduced by
a comment "Mutant:" are wrong variants of the definition that follows them;
nothing refers to them, they exist so that each property can be seen to fail on
a plausible bug.

### Backend

**AuthStore.** `file` = [rec, stamp] is `auth.json` with its (mtime, size) as
`stamp`; `mem`, `stamp` and `up` are `Store.rec`, `Store.stamp` and whether the
process runs; `cs` = [by, step, saw] the critical section under `Store.mu`:
stat (`Lock`), read (`Read`), the operation's body, stat after the rename
(`Restat`). `req[h]` is what a handler goroutine is doing, with its password
and token; `tokens` the unexpired cookies by secret, epoch and age; `cli` the
`reset-password` process (loaded, about to rename); `gen` a history of the
records committed to disk. A password hash is the password it accepts, the
session secret the number of the setup that drew it. Handlers exclude one
another, the CLI excludes nobody: its actions fall between any two steps.
`Crash` and `Start` restart the server, `Tamper` deletes or truncates the file.

**Account** is the abstract specification of the same: a password, the valid
sessions, and five steps (set up, change, grant, age, lose everything). The
refinement mapping is in AuthStore (`Now`, `Password`, `LetIn`): the account is
what the running server goes by, that is the record its next operation will
find: the one in the file if that can be read and is not known already, else the
one in memory, so also after a change whose write failed. While no server runs
it is the record in the file. The valid sessions are the tokens that record lets
in. Reloads, restarts, failed logins and the rest of the critical section are
stutters. `AccountKept` states it. Like `EpochNeverRollsBack` it is claimed of
one writer at a time: of a server whose writes succeed, through restarts and
damage; of a server with a failed write as long as it runs, since the restart
puts back the record the failed change had replaced in memory; of the CLI, whose
writes may fail, through restarts of the server. Nor is it claimed of a reset
whose file is deleted before the server has read it: the server goes on with the
old password until the next restart.

**LoginLimiter.** `fails` and `global` are the records, `login[h]` where
`authLogin` is (let in and comparing the password, or refused), `now` a clock
with 0 as Go's zero time, `hist` a history: when an address failed since its
last lock or successful login. `Allow`,
`Fail`, `Reset` and `RetryAfter` are the four critical sections; time passes
between them.

**AgentManager.** `conns` is `Manager.conns`, `conn[c]` the position of a
connection's `Serve` goroutine, `closed` the connections whose `closeCh` is
closed, `pending` and `chan` the two halves of the rendezvous in `Conn.call`,
`sent` what the agent has received, `call[k]` the position of a directory
listing, `adm[a]` that of a token or delete request, `token` the store's tokens
by generation. Every locked section and every channel operation is an action;
an agent answers requests that were sent, in any order, repeatedly, or never.

**Listing** is the abstract specification of a directory listing: which agents
are connected, whom each listing asked, what has arrived for it, and its stage.
It promises what the opening comment of `api/fs.go` says: the downloader's own
agent is asked, at most once; only its answer to that request is passed on, and
once; the backend's own directories are listed for a downloader on this machine
whose agent is not connected or has just gone, never because an agent is slow.
The mapping is in AgentManager (`Online`, `Goals`, `AskedOf`, `Stages`, and the
channels as they are); registration, ids, pending entries and the hands of the
read loop are below it. `ListingKept` states the refinement.

**QbtSession.** `conf` is the server's entry in the store, `sid` the entry of
`ClientManager.clients`, `req[h]` a request with the settings it read on
arrival, `alive` and `down` what the qBittorrent instances (external) know.
`Arrive`, `Ensure`, `Login`, `Store`, `Send`, `Answer` are the steps that
`proxyToQbt` and `doWithRetry` share; `Test` is the connection test, a login
under the same id with settings of its own. `calm` is a history variable: set
on arrival if the request has what it needs, cleared by any event or by any
request for another instance.

**TelegramBot.** `putter[p]` is a PUT handler between its save and the end of
its Reconcile (look, take `startMu`, stop the old instance, wait for its
`done`, start), `instances[n]` a `run` goroutine from its start over `getMe`
and the menu to polling, its last look at the status and its end. `current` is
the instance that `cancel` and `done` belong to.

**McpManager.** One stdio server, since servers share only `Manager.mu`, under
which they are touched in single steps. `entries[e]` is a `managed` (one per
configuration started), with its session, its command, whether `startMu` is
held and how far its shutdown is; `sessions[s]` a session and the process
behind it, which may die at any time; chats ensure, start, gather and call;
savers reconcile.

**AiSettings** covers both ends of one endpoint: the form with one JSON block
per MCP server, its parsing on each keystroke, and the handler that merges what
it is sent into what is stored. A block is abstracted to the name and the
secret in it and to whether it parses.

### Frontend

The chain **ApiClient** - **AppStore** - **WebAuth** - **WebApp** composes, by
EXTENDS, the HTTP client, the list of servers, the login and the poll with the
backend's endpoints for them: `calls` are the calls in flight with the cookie
they were sent with and the verdict of their answer, `muted` the one second in
which no further 401 is reported, `status` the phase of the login, `running`
the flag of the round under way, `shards` the snapshots, `seen` the
dependencies the polling effect last ran with. `Refuse` is the middleware that
answers 401, `Lose` a lost answer, `Renew` the sliding cookie, `Expire` the end
of all sessions, `SetUpElsewhere` another tab.

The pages are one module each over **Page**, which holds what they share: a
click's handler runs to its next await in one action, its request joins `reqs`,
the backend handles it (`Handled`), and the answers come in any order.
**Downloaders** names the servers of either kind; **Filter** is the filter of an
array, written by the places of what is kept, so that what it yields can be
proved without an induction over the list.

| module | code | the difficult part |
|---|---|---|
| DirPicker | `components/DirPathInput.tsx` | answers of an earlier opening or another root |
| Assistant | `assistant/`, `services/api/ai.ts` | a stream cut anywhere; stop and clear under way |
| TorrentList | `pages/torrents/TorrentsPage.tsx`, `TorrentContextMenu.tsx`, `torrentOps.ts` | ticks and windows across a change of tab |
| TorrentDialogs | `AddTorrentModal.tsx`, `TorrentDetailDrawer.tsx`, `TrackersTab.tsx` | a drawer that turns to another torrent |
| TorrentRows | `services/status.ts`, `transmission.ts` (`mapTrStatus`) | two vocabularies of states, one set of filters |
| TorrentColumns | `columns.tsx`, `ColumnSettings.tsx` | pinned columns against drags and stored orders |
| RssFeeds | `pages/rss/RssPage.tsx` | a selection that moves under an open window |
| RssRules | `RssRulesModal.tsx`, `client.ts` (rssApi) | a full replacement of a rule from a partial form |
| SettingsForms | `pages/settings-qbt/`, `pages/settings-tr/` | saves per tab, change of server, failed loads, the reload of a switch of the language |

Three of them say in the model what a reader of the code may miss:

* TorrentList keeps, as history, what the user means (`picked`): for the page
  what is ticked now, a tick taken back or cleared by a batch no longer being
  meant, and for the menu what it was opened for. Each operation records what
  was meant when it was asked for, a deletion what its dialog was opened for.
* TorrentDialogs: a tracker reload is not cancelled when the drawer turns
  (`TorrentDetailDrawer.tsx:65`), so `ReloadDone` may put the trackers of one
  torrent into the drawer of another. Such a list is marked `stray`, and
  `DetailOfDrawer` allows no other foreign list and never a foreign detail.
* SettingsForms: `PickDraft` puts the form's default where a Transmission does
  not report a field as the form knows it (`Unreported`), and a save of that tab
  sends it. `SwitchLanguage` is the header's: `load` depends on `t`, runs again
  and overwrites every tab. Both are in the code; `TrUnsavedKept` and
  `NothingInvented` say what remains true beside them.

**MCParts** puts these pages and the two managers into one instance. They share
only the requests of the browser tab, or nothing at all, so a behaviour looks at
one of them (`focus`) while the others rest; every part is explored as if it were alone,
with its own budget of clicks (`ClicksOn`).

## 3. What the runs check

With two workers `AuthStore_server` takes 160 s for 1.6 million states, `Parts`
140 s for 1.3 million, `Backend` 120 s for 2.4 million, and no other run more
than 90 s. `CHECK_DEADLOCK FALSE`
is set wherever the instance really ends: budgets of outside events, clicks,
the clock and identities used once run out, and a damaged `auth.json` stops the
server for good.

| run | bounds | shows |
|---|---|---|
| `AuthStore_server` | 2 handlers, 2 passwords; one of: 2 setups, 1 change, 1 damage and 1 restart; 1 setup, 1 change, 1 damage and 1 failed write of the server; 2 resets; 1 reset, 1 failed write and 1 restart | the store is coherent, a change kicks out exactly the older sessions, nobody takes the account over; the store implements Account |
| `AuthStore_live` | 2 handlers, 2 passwords; 1 setup, 1 change, 1 failing write | every request is answered |
| `AgentManager_calls` | 1 server, 2 connections, 2 calls, 2 administrators, 1 regeneration | no connection lost track of, answers reach their own caller, nothing leaks, the read loop never blocks; the manager implements Listing |
| `AgentManager_live` | 1 server, 2 connections, 1 call | calls return if the timers fire; closed connections leave even if they do not |
| `Backend` | limiter: 2 handlers, 2 addresses; 3 failures in 2 ticks lock an address for 2, 4 in 1 all addresses; 7 ticks. qBittorrent: 2 instances, 2 requests, 3 logins, 2 events | locks hold, and at most 2 * (max - 1) failures per window's length without a lock; requests are executed at most once, undisturbed ones are served |
| `WebApp_all` | 2 servers, 4 calls in flight, any two outside events or clicks | rounds do not overlap; a logout has a cause; the end of a session is noticed; the poll stops after it; new servers are polled |
| `Parts` | per page 2 servers, 3 to 5 clicks; bot: 2 savers, 2 configurations, 3 instances, 2 saves; MCP: 2 chats, 1 saver, 2 entries, 2 sessions, 3 moves | one property per page, within the limits its comment states; one bot polls; a live MCP session is not forgotten |

Two handlers (connections, calls, savers) are enough for a step of one to fall
between any two steps of the other, which is what each hazard needs. Agent
servers share nothing but the manager's lock, so one is enough there; the
proofs cover any number. Budgets allow each kind of outside event at least
once, in any order; two resets or setups are needed for a record to be replaced
twice. The ticks cover two windows and a lock, or a lock and the window after
it. A page's hazards need a click whose answer is late, a click that turns the
page to something else, and one that acts on it: three clicks, and four or five
where a window has to be opened first. Two servers suffice as an answer is
either for the one shown or for another.

### Disagreements between the code and what it says

The `violation` runs each check one statement of the documentation or of a
comment, which the code does not keep. `PROJECT.json` quotes the statement and
the line.

* `AuthStore_race`: the CLI's rename between the server's rename and its stat is
  never noticed (`auth/store.go:230`).
* `AgentManager_token`: a connection admitted by the old token outlives the
  regeneration (`api/agent_ws.go:27`).
* `Parts_settings`: saving one tab of a qBittorrent's preferences loses what
  was entered in another (`pages/settings-qbt/QbtSettingsPage.tsx:84`).
* `Parts_menu`: pause and resume of the context menu act on the ticked rows and
  not on those the menu was opened for (`pages/torrents/TorrentsPage.tsx:347`).
* `Parts_orphan`: a chat starts the process of an MCP server that was removed
  while it waited; nothing stops that process (`ai/mcp/manager.go:162`).

Met while modelling, without a run of their own:

* a password change that could not be written has already changed memory; a
  restart revives the old password and sessions (`auth/store.go:152`), so that
  the epoch falls back. The properties are restricted to runs without that
  restart, and no run shows it;
* a switch of the language loads a settings panel again and overwrites what is
  entered in it (`pages/settings-tr/SessionSettingsTab.tsx:174`, likewise
  `hooks/usePreferencesForm.ts:53`); a field a Transmission does not report is
  shown, and saved, as the form's default (`SessionSettingsTab.tsx:83`);
* a tracker list asked for by a drawer closed since is shown in the drawer open
  by then (`pages/torrents/TorrentDetailDrawer.tsx:65`);
* after a failed load the AI settings offer their empty form, and a save of it
  deletes every stored server (`pages/settings-app/AiTab.tsx:72`, `:125`);
  `SecretsKept` speaks of the servers whose texts the form had, so it says
  nothing there;
* of the feeds, a tree asked for on one server may arrive on another's page
  (`pages/rss/RssPage.tsx:136`); `RenameHitsChosen` compares the path that is
  renamed, not the server the tree came from;
* expired failure counts are never evicted, only expired locks are
  (`auth/limiter.go:93`);
* the typed endpoints answer 401 for a refused qBittorrent login
  (`qbt/torrents.go:37`), the code reserved for the browser's own session; the
  proxy answers 502 (`api/handler.go`), which is what the poll of WebApp sees;
* a CLI reset and a password change that read the same record write the same
  epoch, hence the assumptions `SoleWriter` and `Reader` of the proofs;
* the sliding refresh may cross a password change and renew into the new epoch;
  `SessionsKicked` therefore speaks of the record a token was minted from;
* the limiter's window is fixed, not sliding: an address may fail nearly twice
  as often within its length as the threshold says. `FailuresBounded` gives
  2 * (max - 1), which is loose by one, as a span in which two counts meet never
  holds the first failure of the earlier one;
* `nextMcpID` compares a new id only with those before it in the same save: were
  it to meet the id of a server after it, that server would get another id and
  lose its secrets (`api/ai.go:23`); 1 in 10^6 and left out of AiSettings;
* a Reconcile with the configuration that is running returns at once although
  an earlier save is stopping that run (`telegram/manager.go:100`): the bot may
  end up on a configuration that is not the last saved one, and `OnePoller`
  speaks of the last aligned one.

Hazards a property stops short of, as their notes in `PROJECT.json` say: a token
renewed by `IssueToken` after a change counts as one of the new record
(`api/auth.go:142`); a login let in before a lock may delete it by succeeding
(`api/auth.go:99`), which `LockHolds` exempts; `HealthyServed` promises nothing
to a request that meets a connection test or a change of address
(`qbt/client.go:81`); `SaveLands` is about the fields a rule's form shows.

Further hazards, not in the list of `PROJECT.json` because nothing here would
catch them: the fingerprint has the clock's granularity (`auth/store.go:213`);
`Conn.status` and the tools of an MCP entry are read without their mutex
(`agent/manager.go:143`, `ai/mcp/manager.go:183`); server ids are the time
modulo 100000 ns (`config/store.go:217`) and an unreadable `servers.json` is
overwritten (`:57`); `SetLabels` of the Transmission client reads, groups and
writes back (`transmission/torrents.go:145`); the settings in memory are
replaced before the write that may fail (`settings/settings.go:106`); the
refresh of one server overlapping a poll writes the shard it read before its
await (`hooks/useTorrentPolling.ts:26`).

## 4. Fairness

No model assumes anything of the outside: browsers' users, administrators,
agents, downloaders, Telegram and the network may always stay silent.

* `AuthStore`: weak fairness of each handler's step inside the critical section
  and strong fairness of acquiring `Store.mu` (Go's mutex hands itself to a
  waiter that starves). Nothing is assumed of requests, the CLI or restarts.
* `AgentManager`: weak fairness of each goroutine's next step, a read on a
  closed socket included. `AgentManager_live` runs under `Slow`, in which no
  timer need ever fire: a closed connection leaves without one. `CallsReturn`
  takes the timers' fairness as its premise.
* `WebApp`: the effect runs, the interval and the mute's timer fire while the
  page is visible (`Tick`, `Unmute`), and some call in flight is answered or
  fails, which one being left open. Nothing is assumed of the user, of the
  backend's sessions or of what an answer says.
* `LoginLimiter`, `QbtSession`, the pages and the two managers of `Parts`:
  safety only, no fairness.

## 5. What is proved

The proofs hold for every value of the constants, subject to the named
assumptions of each module (sentinels distinct from data, bounds natural
numbers). The shape is the same throughout: an inductive invariant, one lemma
per action saying that it is preserved, and the theorem by PTL.

* **AuthStoreProofs.** `TypeInv` adds to `TypeOK` that a handler inside a
  section holds a record where it needs one and that no work is under way in a
  stopped server. `WriterInv` then shows, as long as the server is the only
  writer and its writes succeed (`SoleWriter`: no CLI, no failing write), that
  memory agrees with the file whenever that can be read, and that tokens carry the generation of the record they were minted from:
  `StampsNeverLie`, `ChangeKicksSessions`, `SessionsSurvive`, `NoTakeover`,
  `EpochsMoveOn`. Both assumptions are needed: `AuthStore_race` refutes
  coherence without the first, and a change whose write failed is undone by a
  restart, so that the epoch falls back. `ResetsAreNoticed` is the complementary case, a server that only
  reads (`Reader`) and any number of CLI resets.
  `ServerKeepsAccount` is the refinement: under `SoleWriter` every step maps to
  a step of Account or to a stutter. `NowIsCurrent` says that the record of the
  mapping is the one last committed; the steps then fall into those that leave
  the account and its sessions alone (`SameAccount`), those that set it up or
  replace its record, so that no older token is let in (`FreshAccount`), and
  those that damage the file of a stopped server (`LostAccount`); `StepKept`
  collects them.
* **AgentManagerProofs.** `RegistryInv` = types, registered connections alive,
  connections taken by an administrator not registered, no strays. `RpcInv` =
  ids never reused (`Numbered`), answers on the wire belong to the request of
  that id (`OnWire`), a pending entry has an empty channel (`Unanswered`) and so
  has an answer in the hands of the read loop (`Held`). `OwnAnswer` and
  `ReaderFree` are not inductive alone: they rest on ids being fresh and on
  each entry being taken out of pending at most once.
  `ListingsKeepPromise` is the refinement and needs both, with `Kept`: a listing
  works on a connection of its own downloader, because the registry is keyed by
  downloader when it is looked up (`Aimed`); whoever waits was written to, and so
  was whoever's answer is being handed over (`Reached`); a listing that was
  answered gets nothing more (`Settled`). Each action is then one step of Listing
  or a stutter: only `Register`, `Unregister` and `Take` change who is connected,
  only `Deliver` lets an answer arrive.
* **LoginLimiterProofs.** `TypeOK` is inductive; the lock properties are action
  properties that follow from it step by step. `FewPerWindow` needs what the
  record still knows of the past (`HistoryKept`): its last failures are those
  the record counts, from `start` on, and what lies max - 1 failures before them
  came more than a window before `start` (`Remembers`); of two failures that are
  2 * (max - 1) apart the later one came a window later (`Spread`). A record
  counts max - 1 failures at most before it locks, so a failure that opens a
  window has two full counts between itself and the one compared with it.
* **QbtSessionProofs.** `ExecInv` (a request's effects by the step it is at) for
  `NeverExecutedTwice`; `CalmInv` for `UndisturbedServed`: while nothing
  disturbs a request, its instance is up, its credentials fit, the other
  requests work on the same instance (`Company`), and once it has logged in the
  stored session is one the instance knows (`Undisturbed`).
* **PartsProofs**, TelegramBot: `BotInv` = types, `OnlyCurrent` (an instance that has
  not ended is the one `current` names), `Unborn` (instances not begun have no
  state), `AsAligned` (the current instance has the configuration of the last
  Reconcile) and `BadgeBacked` (the badge says running only while an uncancelled
  instance polls). That two pollers never meet rests on `startMu` being held
  from the look at `done` to the start of the next instance, whoever saved.
* **PartsProofs**, McpManager: `McpInv` adds to the types three parts. `Backed`: only a
  running entry that was made has a session. `Starting`: whoever dials for an
  entry holds its lock alone and finds no session there, since `start` looks at
  the status under the lock. `Stopping`: so does a shutdown. With them the only
  steps that take a session off an entry are its shutdown and `Lost`, which
  names the session it means; hence `LiveSessionKept`.
* **TorrentProofs.** `PickedInv` adds to `OnlyPicked` that the selection, and
  the targets of the menu and of a dialog while one is open, are what the user
  means on the tab shown (`AllPickedHere`): no tab can be chosen below an open
  dialog, and a selection does not outlive its tab. `DialogsInv` adds that the box of an open
  dialog shows what the ref of its component holds (`BoxIsTicked`), which is why
  the reset on opening matters. `DrawerInv` adds that a detail request whose
  answer will be taken was made for the drawer that is open (`AskedForIt`): the
  effect's cleanup cancels the others; tracker reloads have no such cleanup, and
  the property allows the list one of them brings. `OneLifecycleAlways` is a case analysis
  of the two vocabularies of states, with every value of the fields
  Transmission reports. `ColInv`, for `ColumnsStaySound`, is about the stored
  order alone: it has no column twice, lacks none but one added since, and what
  is dragged, and over what, is in it. A drag takes a column out and puts it back
  in, and keeps both (`MovedKeeps`, from `WithoutOf` and `WithOf`); what is
  displayed is three parts of the order put together, of columns no two parts
  share (`PartOf`, `Joined`), so that it is sound whatever the order
  (`DisplayedSound`).
* **PageProofs.** DirPicker's `SpinnerBacked` is inductive. `FeedInv` adds that
  below an open rename dialog nothing but its feed is selected
  (`RenamesSelected`): the handlers that go on below it may only clear the
  selection or keep it. `RuleInv` has at most one request of each click
  (`OnePerClick`), so that the answer seen after a step is that of the request
  open before it, and types for rules, forms and requests; `SaveLands` then
  follows of every step. `FormInv` has one load at a time for a Transmission's
  panel, of its own opening, and no form before it was answered, as long as the
  language is not switched (`LoadsOnce`): nothing is entered that an answer could
  take away; and `LoadedChosen`: once loaded, a field holds the form's default
  only where the server did not report it, hence no other default is saved.
  `SecretsSurvive` speaks of secrets neither the page nor its request holds.
  `AiInv` therefore relates what is stored to what stands for it in three
  places: in the draft and in the request of a save under its id, its name and a
  sentinel where it has a secret (`Mirrors`), and in the editor as a text that
  began with it and still has its name and that sentinel (`TextsKept`). Ids and
  names being unique on both sides (`AreServers`) is what lets the parser find
  the id by the name and the handler the secret by the id; it is preserved
  because a new id is nobody else's (`IdsGiven`; the model takes `nextMcpID` not
  to meet, within its range of 10^6, an id already given).
  `FramesStayWhole` is about a stream cut anywhere. `ChatInv` says that what is
  buffered and under way is the stream of the events not yet called back, each
  with its empty line (`StreamWhole`), and that what is buffered is less than
  one frame. The last empty line of a chunk ends its last whole frame (`CutAt`),
  what is before it parses into as many events (`FramesOf`), and the rest, with
  what is still under way, is a stream again (`StreamCut`). It rests on the lemmas about `Sifted`: the n-th
  value kept is the one at the place of rank n (`SiftedIs`), and the places that
  are kept, in order, are all there is (`SiftedInOrder`). An induction over the
  list, which the provers cannot do, is not needed: ranks are cardinalities, of
  which the library has the theorems.
* **WebAppProofs.** `WebInv` has, beside `OneRound`, that a session is granted
  before a call carries it (`CredsGranted`), that a 401 stands for a session the
  backend will not accept again (`Barred`), and that while the state of the
  account is asked for nothing else is under way (`Booting`). `Barred` is what
  makes a late 401 harmless to a new login; it rests on numbers of sessions
  never being used twice. Every action of the page is one of few shapes
  (a call goes out, one is answered, several are exchanged), and each shape
  preserves the invariant once.

The components of `Parts` have specifications of their own (`DirSpec`,
`ChatSpec`, `TorSpec`, `DlgSpec`, `RowSpec`, `ColSpec`, `FeedSpec`, `RuleSpec`,
`FormSpec`, `AiSpec`, `BotSpec`, `McpSpec`), which the theorems above are about.
That their properties hold of what `Parts` checks, MCParts!Spec, is proved in
**PartsProofs**, too: `PartsStaySafe` for the invariants and `PartsStepSafely`
for the action properties, for every value of the constants. A behaviour of
MCParts looks at one part: there it is a behaviour of that part's specification,
and any other part rests in its initial state (`DirRuns` to `McpRuns`, from
`OneMoves`). The parts that ask for nothing behave as on their own throughout
(`AloneAlways`). The pages share `reqs`, so a resting page sees it change, and
the properties of the torrents and of the rules that speak of requests in flight
need `PagesApart`: in flight is only what the page looked at asks for (`PageOps`),
which each of the eight pages preserves (`DirOwn` to `AiOwn`). That two pages are
used in turns in one behaviour is outside MCParts, and of these theorems.

Model-checked only:

* the liveness properties `RequestsAnswered`, `CallsReturn`, `ClosedLeaves`,
  `SessionLossNoticed`, `PollingStops`, `NewServerPolled`: the prover has
  neither ENABLED nor reasoning about fairness;
* what the violation runs refute.

`TypeOK` of LoginLimiter and QbtSession is proved and no longer part of a run.

## 6. What is not modelled

Hashing, signing, random numbers and the user name (never changed after setup);
texts and their language; rendering, themes and layout; the status text of an
agent; the parameters and answers of the typed downloader endpoints; the
contents of detail panes, file priorities and the conversions of limits; the
history of speeds. The components with status `not_modelled` in `PROJECT.json`
either keep no state, or are one mutex around one operation (log ring, settings
sections, Transmission's call), or are sequential within one request (chat
loop). Two have races that are listed as hazards and not modelled: the
persistence of the server list and the add flow of the Telegram bot.

## 7. What is left

1. Telegram's add flow: buttons of old messages against the flow of the chat.
2. Transmission's handshake and label operations with partial failures.
3. The server list against `servers.json`, across failing writes and restarts.
4. Chat rounds of the backend against the stream that Assistant reads.
