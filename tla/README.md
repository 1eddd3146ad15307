# A TLA+ model of Charge and Charged Miners

Charge is a small game engine in D; Charged Miners, a Classic Minecraft client,
and `box`, a networked physics demo, are built on it.  This directory models the
parts of the program where the order of events decides whether it is right,
checks them with TLC and proves their safety properties with TLAPS.

Paths below are relative to `src/src/` of the repository.

## 1. The system

| part | state | operations | talks to |
|---|---|---|---|
| `Connection` (`charge/net/connection.d`, `packet.d`) | `state`, four counters, `unAckedPackets`, `outOfOrderPackets`, times | `send`, `close`, `finalizeClose`, `tick`, `processData` | its socket; its `ConnectionListener` by callback |
| UDP client and server (`charge/net/client.d`, `server.d`, `box/`) | `Client.c`, `Server.connections`, `ServerRunner.con`, the sync baselines | `connect`, `close`, `tick`, `sendAll`, `doSync` | each other, by datagrams |
| Runner stack (`charge/game/app.d`, `runner.d`) | `vec`, `del`, `currentInput`, `dirty`, `running`, `builders` | `push`, `remove`, `deleteMe`, `manageRunners`, `logic`, `close` | every runner: `logic`, `assumeControl`, `close` |
| Game, menus, classic session (`miners/game.d`, `miners/menu`, `miners/classic/runner.d`, `connection.d`) | which menus and worlds exist, who owns the TCP connection | buttons, keys, server packets, `display*`, `connectedTo`, `classicWorldChange` | the runner stack; the server, polled in `logic` |
| HTTP (`charge/net/http.d`, `download.d`) and its users (`miners/skin.d`, `classic/webpage.d`, `charge/game/update.d`) | socket, read offsets, current request, queue | `doTick` and five callbacks | runners, polled in `logic` |
| Startup (`charge/game/startup.d`, `miners/startup.d`) | `added`, `active`, `signaled`, `done` | `build`, `manageTasks`, `addTask`, `signalDone`, `signalError` | the builders of the runner stack |
| Resource pool (`charge/sys/resource.d`) | reference counts, `map`, `marked` | `reference`, `collect`, lookups | everything that draws or plays |
| Terrain (`miners/terrain`) | chunks, their `dirty`/`gfx`/`valid` flags, the view, the place of `buildOne` | `setCenter`, `setViewRadii`, `markVolumeDirty`, `buildOne` | worlds, and the builders |
| Containers (`charge/util`) | `Vector`, `Fifo`, `Signal` | add, remove, iterate | all of the above |
| Virtual CPU (`lib/dcpu/c`, `charge/game/dcpu`) | memory, registers, interrupt queue, `sleep`, `skip`, `halted`, `queue_interrupts` | `vm_cycle`, `vm_interrupt`, one function per instruction | the Ion world cycles it in every logic step; devices answer `HWI` |
| Engine wrappers, Lua, mesh builder, GUI, vendored code | | | out of scope, see section 8 |

The program has one thread.  What makes it hard is that callbacks run in the
middle of loops, that deletions wait for a later step, and that the network
delivers what it likes.  (`ThreadedTcpConnection` does start a thread, but
nothing in the repository makes one.)  `hazards` in `PROJECT.json` lists, at its
line, every place found where this can go wrong; each names the properties that
watch it, or says why none does yet.

### What makes each part correct

* **Connection, client, server**: the listener is handed the reliable packets in
  order, once; an acknowledged packet is one the other end has; only the client
  the server has chosen is sent differences; an end whose other end is gone ends.
* **Runner stack and game**: a runner is closed once and the router keeps no
  reference to it; nobody is forgotten; the input goes to the top; an open server
  connection has one owner, who is its listener; everything is closed at the end.
* **HTTP and its users**: bytes of one response never reach another request; a
  failure of one skin does not cost the next; "done" means the files are there.
* **Startup**: it ends once, with the game only if everything is loaded; every
  task is closed once, and its connection with it.
* **Pool**: a count is the number of holders; what somebody holds, or could find
  by its name, is never deleted; what nobody holds is deleted at last.
* **Terrain**: no mesh shows old blocks without being marked; the builder never
  passes a chunk it should have built; everything is shown at last.
* **Virtual CPU**: an interrupt handler gives the interrupted program its place
  back; what is skipped, and a machine that has halted, changes nothing; the
  queue of interrupts stays in its array.

## 2. Modules

| module | models | notes |
|---|---|---|
| `Connection` | one connection object, a method per operator | a record from before to after; the datagrams a method sends are a set |
| `UdpSession` | clients, server, network, and the listener of `box/server.d` | EXTENDS `Connection` |
| `ReliableChannel` | what reliable packets promise, for all clients | implemented by `UdpSession` |
| `MCUdpSession` | symmetry for TLC | |
| `UdpSessionProofs` | types, and the direction to the server | EXTENDS `UdpSession` and `TLAPS` |
| `UdpChannelProofs` | the way back, the Acks, who is sent differences, the refinement | EXTENDS `UdpSessionProofs` |
| `RunnerStack` | the methods of `Router` on a record of `RouterApp`'s fields | |
| `GameApp` | the main loop, the menus, the worlds and their connections | EXTENDS `RunnerStack` |
| `RunnerLife` | what becomes of a runner: made, doomed, closed | implemented by `GameApp` |
| `MCGameApp` | the instances for TLC | |
| `GameProofs` | theorems and proofs about `GameApp` and `RunnerStack` | EXTENDS `GameApp` and `TLAPS` |
| `StartupRunner` | the startup runner and what its tasks may do, for any tasks | |
| `MCStartup` | the tasks of Miners and their order | EXTENDS `StartupRunner` |
| `StartupProofs` | theorems and proofs about `StartupRunner` | EXTENDS it and `TLAPS` |
| `ResourcePool` | counted resources, their holders, the pool | TLC runs it as it is |
| `ResourcePoolProofs` | theorems and proofs about `ResourcePool` | EXTENDS it and `TLAPS` |
| `FiniteTerrain` | the chunks of a classic level and the building of their meshes | |
| `MCTerrain` | a level, places of edits and of the player | EXTENDS `FiniteTerrain` |
| `FiniteTerrainProofs` | theorems and proofs about `FiniteTerrain` | EXTENDS it and `TLAPS` |
| `HttpConnection` | one HTTP connection object, a method per operator | a record from before to after |
| `SkinDownloader` | the downloader of skins over that object, and the server | EXTENDS `HttpConnection` |
| `SkinDownloaderProofs` | theorems and proofs about `SkinDownloader` | EXTENDS it and `TLAPS` |
| `Dcpu` | the virtual CPU, a step per `vm_cycle` | |
| `MCDcpu` | an instruction set of forty, bit tables, a device, the programs | EXTENDS `Dcpu` |
| `DcpuProofs` | theorems and proofs about `Dcpu` | EXTENDS it and `TLAPS` |

Definitions marked *Slip* in a comment are not part of the model.  Each is a
variation of the definition below it with a plausible mistake in it (a lost
guard, a missing reset, an off-by-one), used to see that the properties notice.

### 2.1 Connection and UdpSession

`cl[k]` is the `Connection` of the client with address `k`, `sv[k]` the object
the server keeps for that address; state `"Closed"` stands for no object.
`toServer[k]` and `toClient[k]` are the datagrams in flight, as sets.  Sets make
reordering free, and a datagram that is never read is a lost one; with
`Duplicating` a datagram stays in the set after it was read.  Datagrams carry no
identity of the object that sent them, as in the code, so that old datagrams meet
new objects of the same address.

Client actions are `ClientConnect`, `ClientSend`, `ClientSendUnrealible`,
`ClientClose` (`Client.connect`, the two `send`s, `Client.close`),
`ClientReceive` (one turn of the receive loop of `Client.tick`) and `ClientTick`
(what follows the loop).  `ServerReceive` and `ServerTick` are the same for
`Server.tick`; the listener's `opened()` and `closed()` run inside them, as in
the code.  `DoSync` is the half of `ServerRunner.logic` that sends,
`SendAllUnrealible` is `sendAll` of an unreliable packet, `ServerClose` is the
runner's `close`.  `ClientReady` and `ServerReady` say that the program does
these between two ticks, never in the middle of a receive loop.

Abstractions.  Time: `tick` compares a clock with `lastSent`, `lastReceived` and
the time of each packet.  The model lets any set of packets be due, and a
connection time out whenever nothing was processed since the last tick; the only
link it keeps is the one the code's numbers force, that a connection that is
quiet enough to ping has nothing unacknowledged.  `outOfOrderPackets` is a vector
that is searched from the front, so the first packet with an id hides the others:
a set that ignores them.  Payloads are model values.  Ids are natural numbers, 32
bits wide in the code.  `sent`, `got` and `base` are histories.

### 2.2 RunnerStack and GameApp

`app` holds `RouterApp`'s fields and the objects made so far; a runner is its
index.  Objects are never forgotten, so that a dangling reference in the code is
a reference to an object with `closes > 0`.  `phase` is where `SimpleApp.loop` is,
`cursor` the index of the loop in `RouterApp.logic`, `reading` the `doPackets`
call in progress.  Handlers are operators from stack to stack: `PauseOther`,
`LevelInitialize` and the rest are compositions of `Make`, `DeleteMe` and `Quit`
in the order of the code.  `Input` gives one event to the runner in control, which
may be one that has already asked to be deleted.  `RunLogic` is one turn of the
loop in `logic`; `Packet` is one packet of `doPackets`, delivered to whoever
listens by then.  Whether there is a session cookie is chosen in `Init` from
`Cookies` and never changes.  `app.parted` is a history: the worlds that the Part
button of a pause menu has asked to delete after they were deleted already.

Abstractions.  A world without a connection stands for every local world; a
failed load shows the error menu as a lost connection does; of the web page only
the callbacks that end the menu appear; `ErrorMenu` is the kind `Error` or
`Panic`.  `LevelMenu` and `IonRunner`, chat and block editing are left out, as are
exceptions that leave the main loop, which end the program.  `StartupDone` is the
end of the startup tasks, and `Started` what `doneStartup` may show: a menu, a
world, the connecting menu, the web page or the list of servers, and for what it
throws an error menu that is a panic or not.

### 2.3 StartupRunner

`active`, `done`, `added` and `signaled` are the four lists of
`charge/game/startup.d`, as sets: their order decides nothing.  `build()` is three
kinds of step, `StartBuild` (the guard and the first `manageTasks`), one
`BuildTask` for every active task (`todo` holds those still to come) and
`EndBuild` (the second `manageTasks`, which may call `handleNoTaskLeft`).
`BuildPlain` is a task that loads or computes; `BuildFetcher` and `Fetch` are
`LoadDefaultSkin` without and with a download; `List` is `ClassicGetList`.
`conn[t]` is the connection object of a task, `"shut"` when only its socket is
gone.  `Close` is the runner's `close()`, called by the router after `deleteMe` or
when the program ends.  `Quit` is the escape key or the window.  The assertions of
the code are conjuncts of `asserts'`, where the code has them.

Abstractions.  The order of the tasks is the parameter `Follow`; `MCStartup` gives
it the value it has in `miners/startup.d`.  What a task loads is left out; so are
the progress bars and the value `build()` returns, which only decides how long
the program sleeps.  An exception that a task does not catch ends the program.

### 2.4 ResourcePool

A holder is a variable of the program (`Slot`) or a resource that keeps another
one: a `WrappedTexture` keeps a texture.  `ref[h]` is what a holder holds, so a
count can be compared with what it counts.  `Reference(h, new)` is
`reference(&h, new)` with its order: the new target is counted before the old one
is given up.  Its parts (`IncCount`, `Unmarked`, `DecCount`, `Marked`, `Doomed`)
are functions of values, so that `FindWrapped`, the path of
`WrappedTexture.opCall` that finds the name in the pool, is the same parts
composed: two counts up, one down.  `building` says whether any runner has
registered a builder with the router (`AddBuilder`, `RemoveBuilder`).

Deleting runs a destructor that gives up what the resource held and may delete
more.  `todo` holds the resources whose destructor is due, and the handlers of
the program wait (`Quiet`) until it is empty.  `CollectRound` is one turn of the
loop of `Pool.collect`, which goes on as long as destructors mark more.  It begins
only while there is a builder: `RouterApp.idle` returns before it calls `collect`
when there is none (`app.d:263`).

Abstractions.  A resource holds one other at most and wrapping is one level deep,
as in the code.  What is in a resource, and where a file is found and how it is
loaded, are left out.

### 2.5 FiniteTerrain

`gfx` and `dirty` are the two flags of a chunk.  `stale` says what `dirty` is
for: a mesh is stale when a block that it was built from has changed since.
`CopyLoop` and `CopySlice` are the two ways `extractWorkspace` copies blocks along
an axis, as pairs of a place in the level and a place in the workspace; `Wanted`
is what they should copy.  `Marked` is the arithmetic of `markVolumeDirty`: the
division that goes towards zero, and the stop that is compared without a sign.
`SetBlock` is what the runner does for one block: set it, mark, `resetBuild`.
`BuildOne` takes the first place from `saved` on, in the order of the three loops
of `buildOne`, whose chunk needs building.

The size of the level is what the server says, chosen in `Init` and never
changed.  The workspace has two columns more than a chunk.  At just that size on
x or z the loop of `extractWorkspace` goes one column further for the first chunk
(`finite.d:286`-`289`).  The default build (`-debug`) checks the index, nothing
between there and `main` catches the exception, and the program ends: `BuildOver`,
after which nothing happens any more.  `Fits` says of a chunk that its copy stays
inside.

Abstractions.  A block is only its place.  A block's metadata, the build type by
`setBuildType` (every renderer has the same one, so it returns at once) and
`unbuildAll` (otherwise called only when the terrain breaks apart) are left out,
as are the Lua functions that mark and reset separately, and a build without the
check of the index, in which the column too much overwrites what comes next.

### 2.6 HttpConnection and SkinDownloader

The stream is cut into units that say which request they answer, so that a
mixture of two answers can be told from one.  `Receive` is the part of `doTick`
after `select`; an `Outcome` is the object afterwards and the handler that is to be
called.  `SkinDownloader` gives the handlers: `Handle` is `handleResponse` and
`handleError`, `HandleDisconnect` leaves the socket open as the code does.  The
server's answer is chosen when it is asked: with any length or none, cut at any
unit, or with a unit too much; then it closes.  Any number of units may be read at
once.  `ConnectFails` and `SelectFails` are the two exceptions a POSIX socket can
raise; a refused connection is an answer of nothing.  `asked`, `failed`,
`answer` and `torn` are histories.

A header is three units: its first line, the line with the length (or one
without it) and its end.  `GetHeader` looks for them as the code does, in all that
is in the buffer: the first end, and the first length before it
(`getContentLength`).  After an interrupted `select` the buffer begins with a part
of another answer, and that length may be the other answer's.  `torn` counts how
many such parts there are, two standing for more.

Abstractions.  A unit stands for any number of bytes.  A read falls between two
units.  An interrupted transfer may have ended in the middle of a line, and the
header that is put together with it is then not one that can be read: `Read`
chooses that (`readable`).  `Picture` is what the decoder finds in a body: the
picture it begins with, if all of it is there; what follows it is not looked at.
The buffer's size, and `close()` at the end of the program, are left out.

### 2.7 Dcpu

`vm` is one record, the `vm_t`, and each `vm_op_...` of `dcpuops.c` is an operator
from machine to machine; one for those that share their shape.  `Decode` is a
parameter: which word is which instruction decides nothing that is checked, and
with it a small machine can have forty instructions in sixty-four words.  `Bits`
and `Lost` are the bit operations and what a shift leaves in `EX`; `Devices` and
`Dumps` are what `HWQ` reports and what a device copies into memory.  `Resolve`,
`ResolveOnce` and `GetStore` are the three functions that read and find operands.
`Dispatch` and `Run` are the two halves of `vm_cycle`, and `Cycle` is both, since
nothing runs between them.  `vm.frame` is a history: what the last interrupt
saved, and whether the two words have been written over since.

The model keeps what the code does where it surprises: `vm_resolve_value_once`
takes the word before the program counter for the next word of `b`; a skipped
`INT` fires and a skipped word that is no instruction halts; the next word of a
skipped `PICK` is not consumed.  The copy that moves the queue down by one
overlaps itself; the model takes it as a move.

Abstractions.  Hooks, which nothing registers, the registration of
devices and what the screen shows are left out.  So are the list of devices that
outlives a machine, and `HWI` with a number no device has registered under.

## 3. Runs

| run | configuration | checks |
|---|---|---|
| `udp_session` | one client, 2+2 packets, duplication | `TypeOK`, `InOrderToServer`, `InOrderToClient`, `AckedMeansReceived` |
| `udp_two_clients` | two clients, duplication | `OnlyConIsSentTo` |
| `udp_reopen` | one client, two server objects, fairness | `ToServerIsReliable`, `BothEndsEnd` |
| `udp_match` | as `udp_session`, server to client | `ClientMatchesServer`: **violated** |
| `game` | with and without a cookie, 9 runners | `TypeOK`, `OnlyPartDeletesTwice`, `NothingLeft`, `RunnersLive`, `OneOwner`, `NoneForgotten`, `InputGoesToTop`, `OneTurnEach` |
| `game_part` | cookie, 9 runners | `DeletedOnce`: **violated** |
| `startup` | Miners' nine tasks, cookie, fairness | `TypeOK`, `AssertionsHold`, `EndsOnce`, `GameStartsLoaded`, `ClosedOnce`, `StartupEnds` |
| `pool` | three variables, three objects, two names, fairness | `TypeOK`, `CountsAreHolders`, `NothingDangles`, `MarkedIffUnused`, `CollectedAtLast` |
| `terrain` | three levels of up to six chunks, two edits, fairness | `TypeOK`, `StaleIsDirty`, `PassedIsBuilt`, `FinishedIsShown`, `ShownAtLast` |
| `skins` | three skins, bodies of up to two units, fairness | `TypeOK`, `FreshBetween`, `ShownIsWhole`, `CompleteIsShown`, `SkinsEnd` |
| `skins_zombie` | two skins, bodies of one unit | `EachIsAsked`: **violated** |
| `dcpu` | 64 words, 40 instructions, 125440 programs | `TypeOK`, `FrameRestored`, `SkippedChangesNothing`, `HaltedStaysPut` |

What each shows:

* `udp_session`: whatever is lost, repeated or overtaken, each end is handed the
  payloads of the other in order and once, and no packet is forgotten by its
  sender before the other end has it.
* `udp_two_clients`: two clients that come and go at any time never both get
  differences, and the one that does gets them from the baseline on.
* `udp_reopen`: with stale datagrams of an earlier connection about, the direction
  to the server implements `ReliableChannel`, and no end stays when the other has
  gone.
* `game`: a connection has one owner, who is its listener, through menus, world
  changes and disconnects; `logic()` gives every runner one turn whatever the
  stack does under it; closing the program closes everything; the only way to
  delete a runner twice is the pause menu's Part.
* `startup`: the startup ends, once, and with the game only if all is loaded;
  each task and each connection is closed once.
* `pool`: as in section 1, with `CollectedAtLast` for a program in which a builder
  stays registered in the end.
* `terrain`: as in section 1, in levels of a size that ends the program, too, up
  to its end; `ShownAtLast` is about the others.
* `skins`: the offsets of the connection object are clean between transfers, a
  picture that is shown is the whole one the server sent for that player, also
  after a transfer that was interrupted, a whole answer is shown, and every skin
  comes to an end, downloaded or not.
* `dcpu`: as in section 1, for every program of three instructions and for those
  of four out of the first sixteen, with what follows from running them
  until they repeat.

**Bounds.**  Two reliable packets each way after the Connect are the least with
which one can arrive ahead of another and be buffered; a third adds no new case
of `processRealible`.  Two clients are the least with which `opened()` closes
somebody; two objects for one address the least for a stale datagram to meet a
new object.  Nine runners are background, debug overlay, startup menu and six
more: enough for connecting menu, world, world change, pause menu and error menu
to exist in one history.  `StartupRunner` is finite and has no bounds; with the
cookie the list is fetched beside the other tasks, which is the only case with
two active tasks.  Three objects in `ResourcePool` are a wrapper, the texture it has and the
texture it takes.  The first level of `MCTerrain` is 5 x 3 x 1 blocks in chunks of
2 x 2 x 2: chunks that are cut off on each axis, a chunk in the middle, and
one axis with a single chunk.  The other two have four blocks, as many as the
workspace, on x and on z.  Blocks are set on both sides of borders, at the
edges and outside of the level on either side of zero; the player is in the
middle, at a corner and outside.  Three skins are the least with which a
skin is taken between two failures, two units the least body that can be cut in
the middle.  Room for two interrupts is the least in which a queue has a second,
and is filled by a program of four instructions.  Most bounds are guards (`MaxSend`,
`MaxSync`, `MaxUnsend`, `MaxOpen`, `MaxRunners`, `MaxEdits`), the others sizes of
data (`MaxBody`, `IrqMax`, `W`); all are constants.

`CHECK_DEADLOCK FALSE`: a session ends when both ends are closed, a game when the
program closes, the startup when it has ended, the downloader when nothing is
asked for, the terrain when a copy has left the workspace, and a halted CPU
changes no more.

**Symmetry** of keys and payloads is used in the safety runs of the session only.

**Fairness** (`FairSpec`).

* UDP: the frame loop calls `tick` for ever and clocks advance; so an end that is
  no longer sent anything finds its timeout gone at some tick.  Nothing is
  assumed of the network, nor of anybody wanting to send, read or close.
* Startup: the main loop builds in every frame and closes what is doomed; a server
  may stay silent for ever, so `StartupEnds` allows the startup to wait for one.
* Pool: `collect()` is called in every frame in which a builder is registered and
  what it starts it finishes.  A resource may be asked for again and dropped
  between any two frames, so that `CollectRound` is enabled again and again rather
  than always: strong fairness, but only for a program in which, from some time on,
  a builder stays registered, as the startup and the worlds have one.  The menus
  have none.
* Terrain: `RouterApp.idle` calls the builders in every frame, and a world with a
  terrain is one of them.  Edits are bounded,
  the player may move for ever.
* Skins: `Game.logic` calls `doTick` in every step, and a server that was asked
  answers or closes in the end.  No failure is counted on.

**`game`** contains behaviours in which a runner has been deleted twice (finding
2), after which the real program's memory is undefined.  There the run shows that
the bookkeeping of the stack itself stays right.

## 4. Findings

1. `udp_match`: a reliable packet that arrives ahead of its turn is acknowledged
   and buffered, but the buffer is looked at only by the packet that opens the
   connection (`connection.d:237`).  Once that is past, a packet that overtakes
   another is lost: its sender has the Ack and will not repeat it, and everything
   after it is buffered too.  `InOrderToServer` holds: the stream stops, it is
   not corrupted.
2. `game_part`: the pause menu keeps the world it was opened from.  If the server
   ends that world, Part closes and deletes it again (`menu/pause.d:108`).  The
   shortest history needs no open menu at all: the disconnected world still has
   the input, Escape makes it open the menu, and only then is it deleted.
3. `skins_zombie`: when the server closes before an answer is complete,
   `handleDisconnect` forgets the skin and leaves the socket open (`skin.d:139`).
   Every later skin finds the end of the stream on it and is given up without
   having been asked for.

Facts met on the way, about which no line of the repository says the opposite, so
that no run is kept for them: a Connect read after a Disconnect opens a
connection that is over (`connection.d:238`); `StartupRunner.close` closes the
active tasks and not one that was added in the same frame, whose `close()` happens
to be empty (`startup.d:63`); the three surprises of section 2.7; the list of
devices is global and a closed CPU's device stays on it (`dcpu/cpu.d:50`).
While the player is in the menus after the startup no builder is registered and
nothing is collected, for as long as that lasts (`app.d:263`): without its
condition `CollectedAtLast` is violated.  A level that is 18 blocks wide or deep
ends the program when its first chunk on that side is built (`finite.d:286`).  After two
interrupted transfers the picture of one player can be shown for another
(`http.d:78`, `505`): the buffer has the first one's length, larger than that of
the second, and the second one's body; what is read for a third player makes up
the length, and the decoder finds the second player's picture.  Without `torn < 2`,
`ShownIsWhole` is violated.

## 5. What is proved

Every invariant, every action property and both refinements that the passing
runs check are theorems, for every value of the constants the assumptions allow.

`UdpSessionProofs`, for every set of clients, keys and payloads and every value of
the bounds, from the named assumptions on the constants (`NoDataAssumption`,
`NoKeyAssumption`, `BoundsAssumption`):

* `TypeCorrect`: `Spec => []TypeOK`.
* `DeliversInOrder`: `Spec => []InOrderToServer`.  `InOrderToServer` is not
  inductive: the next payload to be handed over comes out of a datagram or out of
  the buffer.  The strengthening `Flow` says of every reliable packet, in the
  network, in a buffer or waiting for its Ack, that it carries the payload its
  number says (`Carries`), that a sender's counter is one more than what it has
  sent (`Numbered`), and that a receiver has been handed as many packets as its
  counter says (`Received`).  Each action keeps it because the only ones that
  make a packet number it with the counter, and the only ones that hand one over
  take the number the receiver waits for.

`UdpChannelProofs` goes on from there, with the same assumptions and `TypeOK` and
`Flow` as known facts.  It begins with lemmas that say of each action of the
server what becomes of every single connection, the one that is kicked included,
so that an invariant about single connections need not look at the action again.

* `OnlyConGetsDifferences`: `Spec => []OnlyConIsSentTo`.  Inductive with one more
  fact, `OpenedOnce`: an object of the server has been opened by the datagram
  that made it.  Without it a kicked client could be opened a second time with
  the differences it was sent still counted.
* `DeliversInOrderToClient`: `Spec => []InOrderToClient`, by `Flow` in the other
  direction as long as one object was made for the address (`FlowToClient`).
* `AcksAreTrue`: `Spec => []AckedMeansReceived`.  The invariant `AckInv` says of
  the two ends of an address that every Ack on its way names a packet its receiver
  has or has buffered (`Truthful`), and that what a sender may still repeat is
  never an Ack.  It has to hold in both directions at once, since each end's Acks
  travel with the other end's packets, and only for two first objects neither of
  which is over: an Ack meant for an older object is believed by a newer one.
* `ImplementsChannel`: `Spec => ToServerIsReliable`, every step is a send, a
  delivery of the next packets, a new start or a stutter of `ReliableChannel`.

`GameProofs`, from `GameAssumption`: at least three runner objects may be made,
since the background, the debug overlay and the startup menu exist before the
main loop begins.

* `GameInvariant`: `Spec => []GameInv`, from which the others follow.  `Stack`: a
  runner is on `vec` or on `del`, once.  `Ends`: one that is closed is on neither
  and holds nothing, one that is not is on one of them.  `Control`: who has the
  input is not closed and, unless `dirty`, is the topmost that takes it.  `Conns`:
  who holds a connection listens to it, and who listens to an open one holds it.
  `Owed` and `Left` are the main loop's: below the index of the loop in `logic` is
  what was on the stack when the pass began, and while `doPackets` reads, its
  listener has had its turn.
* `GameTypes`, `DeletesOnce`, `ConnectionsHaveOneOwner`, `RunnersAreKept`,
  `TopTakesInput`, `TurnsAreFair`, `EverythingIsClosed`: the seven invariants of
  the run.
* `RunnersLiveOnce`: `Spec => RunnersLive`, the refinement of `RunnerLife`.

A handler is a composition of a few methods of the router, so the argument is by
composition too.  `Since(g, h)` says how a router `h` may come from `g` within a
handler: nobody is closed, nobody leaves `del`, and who is new on `del` was there
before the handler began.  `Turn` says that the part of the stack that waits for
its turn stays where it is and that whoever joins the stack is new.  Each method
keeps both, and so each handler does (`Handled`), with whatever it was called
from: the loop in `logic`, the middle of `doPackets`, or an event.
`manageRunners` closes each runner on `del` once because `del` has no repetition,
which holds because `deleteMe` looks for the runner first; `deleteAll` is followed
down the stack by induction.  `OnlyPartDeletesTwice` and `NothingLeft` are proved
as the run checks them: before a pause menu has parted from a world that is over
nobody is closed twice, after it the bookkeeping of the stack still holds.

`StartupProofs`, for every set of tasks, from `TaskAssumption` and
`ForestAssumption`: a task is made by one other task at most, and the first and
the last by none.  That is how `nextTask` is used in `miners/startup.d`, and TLC
evaluates it there.

* `StartupAsserts`: `Spec => []AssertionsHold`; `StartupEndsOnce`,
  `StartupLoaded`, `StartupClosedOnce`, `StartupTypeCorrect` likewise, each from
  the one inductive invariant `Inv`.  Its heart is `Order`: a task that is on any
  list was put there by one that has already signaled.  So a task that is about
  to signal has added nobody yet, and what it adds is new; with `Lists` (a task
  is on one list, and outside of `build()` only the first or the last task can be
  added and not active) this gives the assertions, the single close and that no
  connection is open at the end.  `Loaded` carries the converse, that without an
  error nobody who signaled has left a follower out.

`ResourcePoolProofs`, for every finite set of variables and of resources and every
set of names: `PoolTypeCorrect`, `PoolCounts`, `PoolNothingDangles` and
`PoolMarks`, the four invariants of the run.  They are one induction, on
`PoolOK`, which says of the values of the variables what the four say together:
without `NothingDangles` a count could be right and the resource gone, without
the counts a mark could be wrong.  `PoolOK` is stated over values and not over
the variables, with lemmas for counting one up (`reference`'s first half) and one
down (its second), so that `FindWrapped`, which calls `reference` twice, is the
same lemmas once more.

`FiniteTerrainProofs`, for every level and chunk size, every place of edits
and of the player, and every number of edits: `TerrainTypeCorrect`,
`TerrainStaleIsDirty`, `TerrainPassedIsBuilt`, `TerrainFinishedIsShown`.  The
arithmetic comes first, as lemmas about integers: the chunks cover the level
(`ChunksCover`), the copy is the wanted one unless it leaves the workspace
(`CopyRight`, `FitIsRight`), what depends on a block is marked for it, on either
side of zero (`MarkedCovers`), and the offsets round the player reach every chunk
(`OffsetReaches`).  The invariant is `TypeOK /\ StaleIsDirty /\ PassedIsBuilt`,
and the last theorem follows from it.  Nothing is assumed of the size but that it
is positive, which the constructor checks (`finite.d:76`).

`DcpuProofs`, for every size of memory and queue, every decoding, bit table,
device and program: `DcpuTypeCorrect`, `DcpuHaltedStaysPut`,
`DcpuFrameRestored`, `DcpuSkippedChangesNothing`.  The invariant adds two things
to the types.  `Undisturbed`: while the machine is halted or skips and an
interrupt waits that may be sent, no handler is set, so that sending it first, as
`vm_cycle` does, changes nothing.  It holds because the instruction that starts
to skip, or halts, came after a dispatch, which has left nothing waiting, no
handler, or the queue on; and those that turn the queue off or set a handler
(`RFI`, `IAQ`, `IAS`) do neither.  `Framed`: as long as the saved words are not written over they are what
the interrupted program had.  Each instruction keeps it because every write to
memory goes through `Store` or a device's copy, which both say whether they hit
them.

`SkinDownloaderProofs`, for every set of players and every length of a body:

* `SkinTypes`: `Spec => []TypeOK`; a name waits once, and not while it is the one
  that is worked on.
* `SkinStream`: `Spec => []StreamInv`.  The invariant says where the units of the
  current answer are: what has been read of it is the end of the buffer, what has
  not is on the wire, and together they are the answer (`OnTheWay`).  What lies in
  the buffer before it is the rest of a transfer an exception broke off; without
  such an exception there is none, and the offsets are where a transfer begins.
* `SkinFresh`, `SkinWhole`, `SkinComplete`: `FreshBetween` as an invariant,
  `ShownIsWhole` and `CompleteIsShown` of every step.  `ShownIsWhole` has its weight
  where a part of an old answer is still in the buffer, and the length is taken
  from there.  What is handed over as a body reaches to the end of the buffer.  If
  it begins with units of the current answer, it begins where that answer's body
  does (`HeadedOn`), and a picture is as long as those units say, whatever the
  header did; if it begins with units of the old one, the buffer does not have all
  of that body, and a whole picture would go past it, into the first line of the
  current answer (`NoneFromBefore`).

**How.**  Sequences are reasoned about by what their elements are, with lemmas
for a front, a rest, a removal and an insertion stated once in each module.
Induction over a loop, or over a function that is defined by recursion on a
number (`DeleteAll`), is by a least counterexample, which the library gives for
the well-founded order of numbers.

**Only model-checked**: the liveness properties `BothEndsEnd`, `StartupEnds`,
`CollectedAtLast`, `ShownAtLast` and `SkinsEnd`, which need fairness and `ENABLED`
and are out of the prover's reach.  The three violated properties of section 4 are
refuted by their runs.

## 6. Plan

Done, in this order: `Connection`, `UdpSession` and `ReliableChannel`;
`RunnerStack`, `GameApp`, `RunnerLife`; `StartupRunner`; `HttpConnection` and
`SkinDownloader`; `FiniteTerrain`; `ResourcePool`; `Dcpu`; the proofs of section 5.

Left, most useful first:

1. `BetaTerrain`, whose window moves with the player, over the operators of
   `FiniteTerrain`.
2. The update downloader over `HttpConnection`; then the bytes of a classic
   session, with a server that stops in the middle of a packet.

## 7. Running it

    tlc -config MCUdpSession.cfg MCUdpSession
    tlc -config MCUdpTwoClients.cfg MCUdpSession
    tlc -config MCUdpReopen.cfg MCUdpSession
    tlc -config MCUdpMatch.cfg MCUdpSession
    tlc -config MCGameApp.cfg MCGameApp
    tlc -config MCGamePart.cfg MCGameApp
    tlc -config MCStartup.cfg MCStartup
    tlc -config ResourcePool.cfg ResourcePool
    tlc -config MCTerrain.cfg MCTerrain
    tlc -config SkinDownloader.cfg SkinDownloader
    tlc -config SkinZombie.cfg SkinDownloader
    tlc -config MCDcpu.cfg MCDcpu
    tlapm UdpSessionProofs.tla
    tlapm UdpChannelProofs.tla
    tlapm GameProofs.tla
    tlapm SkinDownloaderProofs.tla
    tlapm StartupProofs.tla
    tlapm ResourcePoolProofs.tla
    tlapm FiniteTerrainProofs.tla
    tlapm DcpuProofs.tla

Each run and each proof takes from a few seconds to a few minutes on two cores.

## 8. Not modelled

* Most lines of C in the repository are third-party libraries that are built in:
  Lua (`lib/lua/c`), expat (`lib/xml/c`), cNBT and zlib's headers (`lib/nbt/c`).
  They are not this program's logic; the program calls them through bindings.
  The one C library with state this program steps itself, the virtual CPU, is
  modelled.  Everything else modelled here is the D code.
* Graphics, sound, physics, input devices and the platform layer are calls into
  OpenGL, OpenAL, ODE and SDL.
* Lua scripting is bindings to the interpreter.  The mesh builder is a pure
  function from blocks to vertices.  GUI layout, console editing and option
  storage have little state that parts share.
* `ThreadedTcpConnection`: no code makes one.
* The decoding of the classic protocol, and exceptions that leave the main loop:
  a host name that does not resolve ends the program (`classic/connection.d:563`),
  and a server that closes its end is never noticed (`classic/connection.d:521`).
* The web page and the update downloader: they use `HttpConnection` as the skins
  do.  The update takes an early end for a finished one (`update.d:324`).
* `BetaTerrain`, and the window of chunks it moves.
* Within the modelled parts: byte layouts, the network byte order, addresses,
  widths of counters that no session fills, log messages, and `Server.accept`,
  which no code calls.
