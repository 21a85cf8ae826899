# A TLA+ model of wl_framework

wl_framework is a Wayland client library in Python: one `WaylandConnection`
per socket, an `Interface` object for every protocol object, and thin
integrations with three event loops.  It is single threaded.  What makes it
hard is not threads but *order*: two processes that send messages past each
other, ids and file descriptors that are used again, callbacks that change the
tables their caller is walking, exceptions that leave a handler half way, and
tables that several handlers keep by hand.

The modules here translate that code to TLA+, TLC checks them on small
instances, and TLAPS proves for every value of the constants what matters most:
the handling of object ids and events, of bytes and descriptors, of timers and
transfers, of the registry's tables, of selections and workspaces, and of key maps.  Paths below are relative to
`src/wl_framework/`.

## Inventory

| part | state | operations | talks to |
|---|---|---|---|
| **Connection: ids and handlers** (`network/connection.py`, `protocols/base.py`) | `_obj_ids_reuse` and the id generator, `_event_handlers` | `get_new_obj_id`, `free_obj_id`, `add_event_handler`, `remove_event_handler`, `_handle_event`, `send_opcode`, `do_sync` | every `Interface`; the compositor through two FIFO streams |
| **Connection: reading** (`do_read`, `shutdown`) | `_leftover`, `_incoming_fds` | one `recvmsg` per readable notification, then all complete messages | event loop, handlers |
| **Connection: writing** (`send_opcode`, `Arg*`) | none | header, arguments, partial `sendmsg`, descriptors | kernel |
| **Connection: readers and timers** | `_read_callbacks`, `_timer_callbacks` | `add_reader`, `remove_reader`, `add_timer`, `remove_timer`, `_notify_*_cb` | the integration below it |
| **PollIntegration** (`loop_integrations/poll.py`) | `_callbacks`, the poll object, `_timers` | `run`, `handle_event`, `check_timers` | connection |
| **AsyncIOIntegration, GLibIntegration** | `_timer_ids`, `_fds` | `create_timer`, `remove_timer`, `_timer_cb` | a foreign event loop |
| **Display and Registry** (`protocols/wayland.py`) | `_registry`, `_interfaces`, `_initial_sync`, `outputs` | `on_global`, `on_global_remove`, `do_bind`, `on_initial_sync`, `get_output_by_id`, `on_output_del` | all managers bind through it |
| **Foreign toplevels** (`protocols/foreign_toplevel.py`) | `windows`; each window's `title`, `states`, `outputs` | new, done, closed; requests by object id | `Display.outputs`, the application's callbacks |
| **Cosmic workspaces** (`protocols/cosmic_workspaces.py`) | `groups`; each group's `workspaces` and `outputs`; `states` | new group, new workspace, state, done, remove; requests and `commit` | the same |
| **Data control** (`protocols/data_control.py`) | manager: `_sources`; device: `_offers`, `_selection`, `_primary_selection`; offer: `_transfers`, `_fd_timers`, `_mime_types` | `on_data_offer`, `_set_selection`, `on_finished`, `create_data_source`, `set_selection`, `on_cancelled`, `on_send`, `receive`, `_read_cb`, `_read_idle` | connection's readers and timers, the peer that owns the selection |
| **Virtual keyboard, KeyMap** (`protocols/virtual_keyboard.py`, `_keymap.py`) | `_map`, `changed`, `_modifiers` | `write`, `send_key`, `modifier`, `_update_keymap` | compositor, one way only |
| **Idle notification, Shm** | little besides the objects | create and destroy | connection |
| **wlctrl** (`examples/wlctrl.py`) | the request to send, the return code | first sync, look up, request, second sync, exit | Foreign toplevels, `sync`, `shutdown` |
| **Panel** (`examples/wl_example_panel.py`) | a button per window, `active_button`, one menu | made, labelled, removed by callbacks; clicks | Foreign toplevels |
| **Workspaces example** (`examples/cosmic_workspaces.py`) | | prints at done, answers a removal with a request | Cosmic workspaces |
| **wl_monitor, wl_virtual_keyboard, DummyIntegration** | | | not modelled |

What is hard, and what must hold:

* *Ids.*  `destroy`, `delete_id` and a `new_id` cross on the socket.  An id must
  not be handed out while either side still uses it, must come back in the end,
  and an event must never reach another object that has, or had, the same id:
  `_handle_event` looks handlers up by id alone.
* *Reading.*  A message may be cut anywhere; a handler may raise in the middle of
  a buffer; descriptors come with bytes, not with messages.
* *Timers.*  Callbacks add and remove timers and readers, their own included,
  while a batch or a sweep over a snapshot is under way.
* *Transfers.*  A closed descriptor's number is given out again while readers,
  timers, the selector's map or epoll may still know it.
* *Registry.*  Several tables kept in step by hand in different handlers; events that
  name an output that has just been removed.
* *Applications.*  What a tool knows of the compositor's windows is always late.  It can rest on the
  order of the two streams (a sync as a barrier), and it names windows by ids that are used again.
* *Key map.*  Keys are numbers in whatever map the compositor got last, a new map
  resets the modifiers, and sending one can fail.

`PROJECT.json` lists the hazards one by one, each at its line with the
properties that cover it.

## Modules

Built in this order, the behaviour everything else depends on first.

| module | models | abstract specification |
|---|---|---|
| `ObjectLease` | what the client's ids promise: one lease per id, opening, open, closing, over | |
| `Connection` | the client's ids and handlers, the compositor's table, both streams | `ObjectLease` |
| `ConnectionProofs` | types, the lease of ids, which table or queue an object is in from its creation to its end, what the compositor makes of the requests | proves `ObjectLease` |
| `OrderedDelivery` | what reading promises: messages 1, 2, ... in order, each when it has arrived | |
| `SocketRead`, `MCSocketRead`, `IntegrationProofs` | `do_read` byte by byte | `OrderedDelivery` |
| `WireFormat`, `MCWireFormat` | both directions of the argument encodings, `send_opcode` with partial writes | the layout of the protocol |
| `TimerService` | what timers promise under any loop | |
| `PollLoop`, `PollLoopProofs` | `PollIntegration.run` with both levels of tables | `TimerService` |
| `EventLoopTimers`, `IntegrationProofs` | asyncio and GLib timers | `TimerService` |
| `DataTransfer`, `MCDataTransfer`, `DataTransferProofs` | `DataControlOffer.receive` under the three loops | |
| `Registry`, `MCRegistry`, `RegistryProofs` | registry, outputs, the objects on outputs | |
| `Selections`, `MCSelections`, `SelectionsProofs` | `DataControlDevice` with its offers, the manager and its sources | |
| `VirtualKeyboard`, `MCVirtualKeyboard`, `ProtocolProofs` | key map, keys, modifier blocks | |
| `Toplevels`, `ToplevelsProofs` | `ForeignTopLevel`, its windows, and a compositor with windows; no application | |
| `Wlctrl`, `MCWlctrl`, `ToplevelsProofs` | `wlctrl` on top of `Toplevels` | |
| `Panel`, `MCPanel`, `ToplevelsProofs` | the panel on top of `Toplevels` | |
| `Workspaces`, `MCWorkspaces`, `ProtocolProofs` | the workspace manager with the workspaces example on top | |

### How they correspond to the code

**Connection.**  An action per entry point: `DoSync`, `Create` (every constructor
that takes an id, installs a handler and sends a request), `CreateSilent`
(the virtual keyboard, which installs none), `Destroy`, and one `Handle...` for
each kind of event.  The many classes differ, as far as ids go, only in how they
end, so they are six *kinds*; `HandlersAfterDestroy` says which of them remove
their handler.  `CreateFails` is a creation whose arguments cannot be packed or whose
descriptor cannot be sent: the id is taken, the handler is installed, and the compositor never
hears of it, so that the next id leaves a gap; the compositor rejects an id that is in use
or beyond the next one (`Acceptable`, as libwayland does), and `Reject` ends its side.  The compositor (`ServeCreate`, `ServeSync`, `ServeDestroy`,
`SendEvent`, `SendFinished`, `SendNew`) otherwise does whatever the protocol allows: it
gives client ids back with `delete_id`, reuses its own at once, and sends events
until it has read a destroy.  `gen` is not in the code; it tells an object from a later
one with its id, and is what `NoMisrouting` is about.  An exception in a handler
leaves `PollIntegration.run()`, so `raised` stops the client, and what is shown of the connection and of the
protocols on it is shown up to the first exception.  asyncio and GLib go on after one: when the
constructor of an object was refused because a destroyed group still has its handler, later events of that object would reach the group.

**SocketRead.**  A byte is its position in the stream, so a wrongly cut message is
seen to be one.  Each turn of the loop in `do_read` is an action, which lets an
exception leave it anywhere.  Whether the event loop survives that (asyncio and GLib do,
`run()` does not) is chosen initially.

**WireFormat.**  A word has a small base instead of 2^8 per byte (`Base` = 8), which scales the
limits of words and of the sixteen-bit size with it; texts are bytes.  `Layout`,
`Padded` and `Message` state the protocol independently of the code, and the
code's `create`, `parse` and `send_opcode` are compared with them.

**PollLoop.**  `pc` is the place in `run()`; callbacks are places where any
`Application` action may happen any number of times.  Time is discrete, passes in `poll()` and in
callbacks (`Work`), and never between two statements.  The sweep visits its snapshot in any
order, the code in that of the dict.

**EventLoopTimers.**  The foreign loop is its schedule: asyncio consumes a handle when
it calls it, a GLib source stays until its callback returns False or raises.

**DataTransfer.**  Descriptors are numbers given out lowest first, as the kernel
does; data is the number of its pipe, so a mix-up is visible.  What the loops do
with a closed descriptor that is still registered differs, and is modelled
(`Watch`, `Unwatch`, `Forget`).

**Registry.**  Globals come and go at any time; a holder (`Holders`) is a toplevel or a
workspace group.  A bind of a global that is already gone yields a dead object, as in
libwayland.  Names of globals are never announced twice and removals only follow
announcements; the code's tolerance of the opposite is kept in the actions.

**Selections.**  The three places that know an offer by id, the compositor reusing ids as soon
as it may, and an application that may call `destroy()` on an offer itself.  A destroy names its offer by id; in
the model it also keeps the offer it was called on (`meant`), so that `astray`, a history variable, tells which offers
were ended by a destroy of another.  In the other direction
the application makes sources and sets each as a selection once, as the protocol demands; the
compositor cancels the source that is replaced and may ask for its data at any time.  A source
is a number that is not used again: that ids of the client's own objects are safe is what
`ObjectLease` is about.  `DataControl` may have been bound with version 1 or 2.

**Toplevels.**  A window of the compositor has a number, the object the client knows it by has an
id and that number, so that a request for an earlier window of the same id is seen to go astray
(`meant`, `served`).  Title and `activated` stand for all a window reports, since the code
stores each with a plain assignment.  Changes are followed by `done` some time later (`unsynced`).

**Wlctrl.**  Starts where `on_initial_sync` ends, with the bind and the sync on their way, and ends with the
exception of `shutdown()`.  Arguments are any action with any target (`Actions`, `Targets`).

**Panel.**  Buttons are identified with the toplevel they were made for.  A menu is open for one window
and stays open until an item is chosen; it is assumed that GTK leaves it open when the button goes, as the code does nothing about it.

**Workspaces.**  `done` carries what the compositor had when it sent it, to compare with what the
example then prints.  A request that a callback sends from inside `on_remove` is in the
model at that place (`OnWorkspaceRemoved`), and another application may call `destroy()` there.

**VirtualKeyboard.**  A text gives numbers to its new characters, one after the other from the first that is free
(`write`); the outcome is stated at once, each new name the number after those of the new names before it (`LearnAll`).  Nothing comes back from the compositor, so its side is a function of
what has been sent.  Failing to send a key map is an input; it means the memfd or the
descriptor could not be made.

## Runs

Every module has a type invariant, `TypeOK` (with the module's name before it where two modules are proved about together).  In `Connection` it is a property and a theorem of
its own, elsewhere it is the first conjunct of the run's first invariant.  Every run sets
`CHECK_DEADLOCK FALSE`, because the bounds on objects, bytes,
time and so on end every behaviour; liveness is checked separately.  The runs of `Panel`,
`Workspaces` and `Selections`, which check invariants only, use symmetry in the ids (and titles).

| run | states | bounds | shows |
|---|---|---|---|
| `Connection` | 63 k | 2 objects besides the initial ones, all six kinds, 2 free ids, 1 remote id, 1 plain event | `NeverRejected`, `NoMisrouting`, `TablesAgree`, `LeaseSpec`, `RepliesCome`; exceptions only for the causes in `RaisesExplained` |
| `SocketRead` | 162 k | 3 messages of 8, 8 and 12 bytes, reads of up to 16, 2 descriptors that ride on the message before, one faulty handler | `NothingLost`, `FdsMatch`, `DeliverySpec`, `Handled` |
| `WireFormat` | 7 k | numbers and texts at the boundaries of a word and of the header | `RequestsWellFormed`, `EventsUnderstood` |
| `PollLoop` | 546 k | 2 descriptors, 2 timers, intervals shorter and longer than the poll timeout | `TablesAgree`, `ServiceSpec`, `Punctual` (`TimersRun`, `NeverEarly` and `OnTime` together); failures only for the causes in `FailuresExplained` |
| `EventLoopTimers` | 11 k | 3 timers, both loops | `ScheduleAgrees`, `ServiceSpec` |
| `DataTransfer` | 222 k | 3 receives, 2 types, peers that write nothing, 1 chunk and 2, three loops | `Intact`, `Tidy`, `ReceiveAnswered` |
| `Registry` | 749 k | seat, shm and output, one more output or seat, 1 object that enters twice, 1 manager | `TablesInverse`, `ViewsAgree`, `OutputsFound`, `BindsValid` |
| `VirtualKeyboard` | 91 k | 4 characters, 3 names, blocks 3 deep | `TypedAsAsked`, `ModifiersCurrent`, `ModifiersHeld` |
| `Selections` | 1.4 M | 3 ids, 3 offers and sources, 2 selections set, 3 requests in flight | `PlacesAgree`, `SelectionsAgree`, `FailsOnlyAfterAppDestroy`, `SourcesAgree` |
| `Wlctrl` | 210 k | 2 windows, 2 ids, 2 titles, 1 change of title, 3 actions, 3 targets | `ExitTrue`, `DoneBeforeExit`, `Finishes` |
| `Panel` | 391 k | 2 windows, 2 ids, 2 titles, 1 change of title or focus besides those requests cause, 1 click | `PanelShows`, `RequestsMeant` |
| `Workspaces` | 926 k | 3 groups and workspaces, 3 ids, 2 changes, 2 calls | `SyncedView`, `FailsOnlyAfterDestroy` |

Why the bounds are enough: with two objects besides the initial ones an id can be
destroyed, returned and handed out again, and 3, the id of the initial sync, with it; the
sixth kind of interaction, a third object, only repeats one of the pairs.  A read of 16 bytes can
hold the end of one message, all of the next and part of a third.  Two timers and two
descriptors are one that acts and one that is acted on.  Three receives are one that
ends, one that takes over its descriptor and one beside them.  Three offers fill both
selections and replace one; an offer and two sources let one source replace another.  The
constraint `FewRequests` stops the run at states with four requests on their way, which it still
checks; the proofs are of the specification without it.  Three nested
blocks have one between two others.  Two windows are the one the user or the tool means and the one that takes its
id or its focus.  A group, its workspace and the object that gets the id of either are the three of `Workspaces`.

### Conditional properties

The library survives some uses and not others.  Where it does not, the property names
the cause, with a history variable where the state does not keep it, so that the same
run shows both that the cause is possible and that nothing else leads to the failure:

* `RaisesExplained`: `_handle_event` raises only for an object whose `destroy()`
  removed its handler while events were on their way (`connection.py:225`);
  `add_event_handler` only for the id of a group that was destroyed.
* `NothingLost`: under a loop that goes on after an exception, a handler that
  raises leaves `_leftover` stale (`connection.py:160`), and the stream may be
  misread from there on; nothing else loses or misreads a byte.
* `FailuresExplained`: `run()` raises KeyError for a one-shot timer that its own
  callback removed, and for a descriptor of the batch whose reader an earlier
  callback removed (`poll.py:76`).
* `TablesAgree` of `PollLoop`: only repeating timers removed in their own
  callback stay in the loop's table, as `poll.py:72` stores them again.
  `ScheduleAgrees`: the same under asyncio (`asyncio.py:23`), not under GLib; and
  a callback that raises ends its timer under both.  `ServiceSpec` shows that the
  callbacks of removed timers do not run again all the same.
* `ReceiveAnswered` and `Intact`: not when a type is received twice at a time, which
  shares one buffer (`data_control.py:197`).
* `OutputsFound`: only an output the compositor removed from under an object.
* `ModifiersHeld`: modifiers are lost for the outer of two blocks that share them,
  and stay pressed when an exception leaves a block, for `modifier()` has no `try`.
* `FailsOnlyAfterAppDestroy`, `PlacesAgree`, `SelectionsAgree`: an application that
  destroys an offer it was given leaves it in `_offers` and in the attribute.  The
  next selection raises, or, when the compositor has reused the id, destroys the old offer
  a second time and so the new one in its place (`data_control.py:122`).  In
  `FailsOnlyAfterAppDestroy` this is the only way in which a destroy ends another offer than the one it was
  called on, and only under ids of which the application has destroyed an offer; `PlacesAgree`
  and `SelectionsAgree` except every run in which it destroys one.
* `SourcesAgree`: the version check of `set_primary_selection` looks at the device's own version,
  which is always 2 (`data_control.py:58`, `:101`), so a manager bound with version 1 sends a
  request the compositor rejects; so does a selection that is set after `on_finished`, of which the
  application is not told.  A source destroyed by the application stays in `_sources`, and has no handler for
  `cancelled` or `send` on their way.  `on_send` itself always ends in NameError, as it logs `fd` (`data_control.py:146`).
* `NeverRejected`: a creation that failed has taken an id the compositor never hears of, and
  the next new id skips it.  The compositor rejects that one, unless a returned id was used first.
* `PanelShows`: a window that lost the focus to none and got it back, with no other active in between,
  is not shown as active, because `active_button` still is its button (`wl_example_panel.py:137`).
* `RequestsMeant`: an item chosen from a menu whose window has closed meanwhile names an object
  that is gone, which the compositor rejects, or a later window under its id.
* `ExitTrue`, `DoneBeforeExit`: these hold without a condition.  `Finishes` excepts a target `#x` that is no
  number, for which `int()` raises in the callback.  An id that was printed by an earlier call of the tool may
  by now be another window's, as its usage text warns.
* `SyncedView`, `FailsOnlyAfterDestroy`: a group that the compositor removed stays in `groups` for good, without
  workspaces, but only the workspaces of objects the application destroyed itself are left out of the comparison.  An application that destroys a workspace leaves it in the set, and its events raise; one that
  destroys a group leaves its handler (`cosmic_workspaces.py:123`), and the next object under its id is refused.

Some of these are plain mistakes and worth a fix: a one-shot timer that its own callback removes ends the loop
with KeyError; `_read_idle` calls `_read_cb` with an argument missing (`data_control.py:264`), so the callback of
a transfer that was given up never runs, and under asyncio the loop still knows its descriptor's number, so
that the next transfer to get that number may not be watched either, which is why `ReceiveAnswered` excepts
every transfer once one has been given up; `on_send`; `CosmicWorkspaceGroup.destroy()`; the panel's `active_button`.

## Fairness

`FairSpec` assumes weak fairness of the steps of the program that follow by
themselves (`Dispatch`, `DoRead`, `Reader`, `Loop`; in `Wlctrl` all that the tool does is `Dispatch`) and of the other side serving what it
has been sent (`Serve`, `Peer`).  The first is what an event loop is for: it calls a
reader as long as its descriptor is readable, and handlers return.  The second is the
protocol: a compositor reads its clients' requests in order; a peer that has taken a pipe
writes and closes, however late, and `ReceiveAnswered` excludes the transfers whose
timer gave up before.  `PollLoop` also assumes that time passes while `poll()` waits.
No fairness is assumed of the application, of a compositor's announcements, or of
anything that arrives unasked.

## Proofs

The proofs hold for any number of objects, ids, bytes, descriptors, timers, globals, holders, offers, sources,
workspaces, windows, names and blocks: where
a run's bound is a constant of the module, it is no restriction there.  The assumptions are those named in the
modules (`...Assumption`), which TLC evaluates on the instances: ids from 1 and apart
from the compositor's, natural bounds, messages that follow each other without gaps, and the like.  Each proof
has the same shape: an inductive invariant that contains the property, a lemma per action that it is kept (and
under it a step per conjunct), and the theorems from it.  The invariants were checked by TLC on the runs before they were proved.

**The lease of ids** (`ConnectionProofs`).  `TypeCorrect` is the type invariant.  That no id is leased twice is not
inductive: an id may leave the lease only to come back through `_obj_ids_reuse`, so the invariant must
account for *every* id.  `LeaseInv` says that each id of the client's range is in at most one
place: not yet reached by the counter, waiting in `_obj_ids_reuse`
(once), or leased to one object, which is named by one request on its way, or is alive at the compositor, or is named by one
`delete_id` on its way back.  From it `LeaseExclusive`, no two objects hold a lease of one id, and
`LeaseImplemented`: every step of `Connection` is one of `ObjectLease` or leaves it alone.

**Handlers and events** (`ConnectionProofs`).  `NoMisrouting`, `RaisesExplained` and `TablesAgree` speak of a handler at
the moment an event is handled, or of quiet moments, and hold because of everything in between.  `HandlerInv` follows
an object through its life: a handler belongs to an object that is being created, alive, or being given back, and
stays for as long as it should (`HandlersKnown`, `HandlersKept`); failed creations are known to
nobody (`FailedLost`); a destroy on its way names an object that is alive when it arrives (`DestroysServed`); an event
names an object that was alive when it was sent, and comes before the `delete_id` (`EventsTimely`); the same for
the compositor's own objects, whose ids it uses again at once (`Announcements`, `LiveKnown`, `EventsInTurn`,
`HandlersServed`); and a destroyed group's handler is the only one that outlives its object (`GroupsKnown`).

**Requests** (`ConnectionProofs` as well).  `NeverRejected` needs the order of requests as well: ids are opened in the order of
the counter unless they are used again (`OpenedInOrder`), and every id given out has reached the compositor, is on its
way, or was lost with a creation that failed (`IdsInOrder`).  `RequestsAccepted` is that theorem;
`CallbacksInOrder` says that the callbacks of syncs come in the order of the calls, each once, from the order of
what is in the two queues (`SyncInv`).

**Reading** (`IntegrationProofs`).  `ReadInv` says what the buffers hold: until a handler raises, `_leftover` and what is
being read begin at a message (`Framed`) and are followed by what the kernel has (`BytesInOrder`); what was handled is 1,
2, ... (`InOrder`); a message that has been handled is never at the head again (`NeverAgain`); and the descriptors in the
list are those of the next messages that have one, in order (`FdsInOrder`).  From it `NothingIsLost`,
`DescriptorsMatch`, and `DeliveryImplemented`: `do_read` implements `OrderedDelivery` for any stream, any cuts and any
way descriptors travel.

**Timers** (`IntegrationProofs`, `PollLoopProofs`).  `TimerInv` and `PollInv` relate the tables of
the connection, of the integration and of the loop at every place of the code, inside callbacks too, where the
properties say nothing: a table knows only timers that were added, as what they were added as; the loop knows every timer
the connection has; what the loop has besides was removed in its own callback; a timer that is over stays over.
`PollInv` adds the batch, the sweep and the deadlines (`Rearmed`, `Swept`).  From them `ScheduleFollowsTables`,
`TablesMatch`, `FailuresHaveReasons`, `TimersPunctual` (the two halves of `Punctual` that are about safety)
and twice that `TimerService` is implemented (`TimersImplemented`, `PollTimersImplemented`).

**Transfers** (`DataTransferProofs`).  `TransferInv` says that an open read end has its reader and its pipe, and timers
belong to open read ends (`ReadersKnowPipes`, `TimersKnowPipes`), that until a transfer is given up exactly
those are watched (`AllWatched`), how much of a pipe's data is where (`Flow`), and whose it is (`OwnContent`), also once a
transfer has been given up and its number is another's.  From it `ContentIsWhole` and `NothingIsLeft`.

**Registry** (`RegistryProofs`).  The tables of the two sides agree only when nothing is in flight, so the
invariant says what each event and request will find when it arrives.  `GlobalsFollow`: a
global exists exactly if the client knows of it or will, and has not been told that it is gone; `ToldInOrder`:
it is told of each global once, and of its end afterwards; `NamesFixed`: wherever a global is named with its interface, in a
table or a queue, it is the same one.  `IdsFixed` and `BoundKnown` follow an output from the bind on its way to
the list; `HoldersInOrder`, `MovesFound` and `MovesFollow` say that a holder's events come between its announcement and its end,
which output each will find, and that the outputs a holder will be on when all events have been handled are those the
compositor has it on.  From it `TablesAreInverse`, `OutputsAreFound`, `ViewsCatchUp` and `BindsAreValid` (of which the second half
is about steps: no bind is *sent* for a global whose removal has been read).

**Selections** (`SelectionsProofs`).  An id of an offer is used again at once, so that what the device does by id is right
only because of what is on its way.  `OffersAccounted` says of each offer the compositor has that it is on its
way to the client, among its handlers, or on its way out, in one of these only; `EventsPaired` and `EndingLast` that an
offer is introduced right before the event that names it, and nothing about offers follows `finished`.  With these
`PlacesFollow` gives the three places between the two events as well: the handlers are those of the selections and of the
one offer about to become one; and `ChosenFollows` says that the last event of a kind names what the compositor
chose.  `MeantInv` goes on where the application does destroy offers: under every other id (`Clean`) a destroy on its way
is for an offer the compositor still has, and the table and the attributes hold the offer with the handler, so that what
the compositor ends under that id is what was meant.  A source that was set is in one place, on its way, a selection or about to be cancelled, and has its handler
until then (`CancelsFind`), which rests on the order in which it is created, set and destroyed (`SourcesAccounted`).
From it `PlacesAlwaysAgree`, `SelectionsArrive`, `FailuresAreTheApplications` and `SourcesMatch`.

**Workspaces** (`ProtocolProofs`).  What is printed at a `done` has to be compared with what the compositor had when it
*sent* it, so the invariant reads the tables together with the events: `TablesMatch` relates them to the handlers,
`Announced`, `EventsFind` and `RemovedLast` say that the events about an object come between the one that makes it
and the one that removes it, and find it under its id and no other (`IdsApart`); `ViewFollows(k)` says that the first
k - 1 events make of the tables what a `done` in the k-th place stands for, and `TruthFollows` that all of them make of
them what the compositor has.  All this is claimed only until an exception has ended the loop
(`ClientInv`).  `RequestsKnown` gives each request its object.  From it `ShowsWhatIsThere` and `OnlyDestroyFails`.

**Virtual keyboard** (`ProtocolProofs`).  `KeyboardInv` says that the keys of a map have numbers of their own which fill
1, 2, ... (`KeysNumbered`, without which a new character could take the number of another), that the compositor
has the map as it is unless `changed` is set (`KeymapCurrent`), and what each two nested blocks have in common
(`OverlapsKnown`).  `TextLearned` says what a text makes of the map, for any text.  From it `TypesAsAsked`,
`ModifiersAreCurrent` and `BlocksHoldModifiers`.

**Windows, panel and wlctrl** (`ToplevelsProofs`).  `ToplevelsInv` is about `Toplevels` alone, so that both programs
build on it.  The events on their way are read as a story: `Known(o, k)` says whether the object is known after the
first k - 1 of them, `Heard(a, o, v, k)` that its title or activation is then v.  A new object comes with its details
(`Announced`), every event finds its object (`EventsFind`), and after all of them the objects of open windows are known
and have what the compositor has (`TruthFollows`, `DetailsFollow`), although an id is used again as soon as its destroy is
read, for a destroy is sent once and only of what is not known any more (`DestroysFind`).  `CommandsFind` says the same
of requests on windows: the destroy of the window they mean is not before them.

`PanelInv` adds that one window at most is active whenever a `done` is read (`OneActive`, which is why the panel may
keep a single `active_button`), and that each window's button shows what was read of it or the `done` that will see to
that comes after everything else there is to say (`Synced`).  From it `ShowsTheWindows` and `RequestsAsMeant`.
`WlctrlInv` has the four steps of a run (`Asked`, `Informed`, `Requested`, `Finishing`): while the first callback is on its
way, the events before it make of the client's tables what the compositor had when it sent it (`AtSync`), and later the one
request is before the second sync or carried out.  That the windows found are as many as are named (`DecisionTrue`) is a
bijection between the two sets.  From it `ExitIsTrue` and `DoneBeforeLeaving`.

Only model-checked:

* liveness (`RepliesCome`, `Handled`, `TimersRun` within `Punctual`, `ReceiveAnswered`, `Finishes`), which rests on fairness;
* `RequestsWellFormed` and `EventsUnderstood` of `WireFormat`, which are about what recursive definitions compute.

## Not modelled

* The id counter running on past the client's range (the code does not bound it): it takes billions of ids in use at a time.
  The model stops creating objects at `MaxId`.
* `sendmsg` blocking while the compositor does not read; the README of the library accepts it.
* UTF-8, geometry and modes of outputs, application ids and parents of windows, names and capabilities of
  workspaces: values that are stored or passed on and decide nothing.  Of a window's states there is
  `activated` only; that `set_minimize` and its like send one of two opcodes is left out.
* What is written to the descriptor of `on_send`: the code does not get that far.
* The bounds check and the formats of `create_buffer`, which refuse a call before it does anything, and the
  fallback between the two idle protocols, which is `do_bind` tried twice.
* `wl_monitor` and `wl_virtual_keyboard`, which print or make one fixed sequence of calls; of the other
  examples what is not about the connection: printing, widgets, arguments.
* Use of `PollIntegration` inside a foreign poll loop.

## Plan

Everything that has state of its own is modelled, and every safety property the runs check is proved but for the two of
`WireFormat`.  What is left is what the prover does not reach: liveness, and what recursive definitions compute.
