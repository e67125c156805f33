# TLA+ models of the Tadpole demo client

The Tadpole demo (`src/examples/demo/tadpole/static/js/`) is the browser client
of nano's World service. It has four files:

| file | what it does |
|---|---|
| `StarXService.js` | Connection handshake (`starx.init` → `wsInit` → Manager.Login → `joyLogin` → World.Enter → `welcomeHandler`). Push handlers `update`, `leave`, `message`, `close`. Notifies `World.Update` and `World.Message`. |
| `App.js` | Model (`model.tadpoles`, `model.arrows`, `userTadpole`). The 30 ms `app.update` tick with the update throttle. Input handlers (keys, mouse, touch). Drawing. |
| `Components.js` | `Tadpole` (`userUpdate`, `update`, message expiry, hover), `Message`, `Arrow`, `TadpoleTail`, `WaterParticle`: mostly canvas geometry. |
| `main.js` | Bootstrap (`initApp`, `forceInit`, `setInterval(runLoop, 30)`), `uiEnabled` with `showUILayer` / `hideUILayer`, and static Vue panels. |

Everything runs on the browser's single event loop. The concurrency is in
the interleaving of events:

- socket callbacks (request responses, server pushes, close);
- the 30 ms timer;
- user input.

Any of these can come between any two others. Two groups of state are shared:

- `StarXService`'s handlers and `app.update` share `model.tadpoles`,
  `model.arrows`, the user tadpole's id, and `hasConnection`.
- The input handlers and `Tadpole.update` share `keyNav` and
  `userTadpole.targetMomentum`.

These two groups touch disjoint state, so they are two modules, Sync and
Input. Page composes Input with the bootstrap that registers its handlers.
Hover joins the peers' arrival and departure with the mouse handlers.

## Modules

| module | models | checked by |
|---|---|---|
| `Sync.tla` | `StarXService.js` whole; `app.update` (throttle and send); `Tadpole.userUpdate` (`changed`); message ageing and expiry of `Tadpole.update` | `MC_Sync.tla` with `MC_Sync.cfg`, `MC_Sync_close.cfg` |
| `Sync_proofs.tla` | TLAPS proofs for Sync | `tlapm` |
| `Input.tla` | `app.keydown/keyup/mousedown/mouseup/touchstart/touchend`, `showUILayer`, `hideUILayer`, the `uiEnabled` reset of `Tadpole.update` | `MC_Input.tla` with `MC_Input.cfg` |
| `Input_proofs.tla` | TLAPS proofs for Input | `tlapm` |
| `Messages.tla` | one tadpole's message queue and the backward splice loop of `Tadpole.update` (Components.js 233-240) | `MC_Messages.tla` with `MC_Messages.cfg` |
| `Messages_proofs.tla` | TLAPS proofs for Messages | `tlapm` |
| `Page.tla` | main.js's bootstrap (capability check, `initApp`, `forceInit`, `setInterval(runLoop, 30)`) composed with Input | `MC_Page.tla` with `MC_Page.cfg` |
| `Page_proofs.tla` | TLAPS proofs of `SingleLoop`, of `Rest` in the composed page, and of its type | `tlapm` |
| `Hover.tla` | `tadpole.hover` and `mouse.tadpole` (Components.js 241-265) with `app.mousedown`, as peers join and leave | `MC_Hover.tla` with `MC_Hover.cfg` |

### Sync

State:

- `sock` (`connecting`/`open`/`closed`) and `phase`: how far the handshake got;
- `hasConnection`, `cantConnect`: the `#cant-connect` element shown;
- `serverId`: the id World.Enter will assign;
- `userId`: `model.userTadpole.id`;
- `tadpoles`, `arrows`: `model.tadpoles` and `model.arrows` as total functions
  on `Ids ∪ {-1}`, with `None` for a missing key;
- `nextObj`: the next fresh `new Tadpole()`;
- `msgs`: each tadpole object's message queue, as a bag of ages;
- `age`: `userTadpole.age % 6`;
- `changed`: `userTadpole.changed > 1`;
- `sentIds`: the ids of every World.Update sent;
- `chatSent`: a World.Message has been sent.

Tadpole objects are identities: `User` = 0 is the App constructor's object,
and 1..`MaxObjs` are the objects `updateHandler` allocates. An arrow is
identified with the tadpole it was built for.

Each handler is one action: `wsInit`, `ConnectFail` (the socket never
opens), `joyLogin`, `welcomeHandler`, `updateHandler(id)`, `leaveHandler(id)`,
`messageHandler(id)`, `closeHandler`, `Tick` (`app.update`) and `sendMessage`.

`Tick` is the whole of `app.update` as far as this state goes:

- `userUpdate` grows `changed` nondeterministically (`grow`), because it
  depends on floating-point turn and momentum;
- `age` advances;
- on `age % 6 == 0 && changed && hasConnection` the update is sent and
  `changed` is reset;
- every tadpole in `model.tadpoles` ages its messages (`Aged`: the
  `Message.update` and splice loop applied to the bag).

`closeHandler` models what the code does: its first statement assigns to an
undeclared `webSocketService` and throws a ReferenceError, so nothing changes
but the socket.

The server is the environment:

- it pushes updates, messages and leaves for peers at any time once
  `wsInit` registered the listeners (`Listening`);
- it pushes the client's own id only as the echo of an update or chat
  message the client sent (`UpdateIds`, `MessageIds`);
- it never pushes a leave for this session.

The client itself guarantees the echo order: nothing is sent before
`welcomeHandler`.

### Input

State:

- `navX`, `navY`: `keyNav`;
- `targetMomentum`;
- `uiEnabled`;
- the physical environment: `held` keys, `pressed` buttons, and the number of
  `touches`.

A release is enabled only for something held. `mousedown(b, consumed)`
covers the early return when the hovered tadpole's `onclick` consumes the
click: a ctrl+left click on an authorised tadpole, or a middle click.

### Messages

A queue is the sequence of its messages' ages. `push` is `messageHandler`'s
`messages.push(new Message(...))`.

The loop runs one iteration per step, from `i = length - 1` down to 0:

- `startPass` sets the start index;
- `loopStep` does `msg.update()`, then `splice(i, 1)` if `age == maxAge`,
  then `i--`;
- `loopEnd` ends the pass.

A push never falls inside a pass, because the browser runs one handler at a
time. `before` keeps the queue the pass started from. `Expire`, the reference
definition, ages every message and filters out those that reached `maxAge`,
keeping their order.

`SurvivorsFrom(q, s, 1)` states the same result as `Expire` without
recursion: a strictly increasing map sends every index of `q` to the index of
`s` it came from, and its image is exactly the indices whose message does not
reach `maxAge`. The proofs use it, because they cannot reason about
`SelectSeq`.

### Page

State:

- `capable`: the Modernizr check;
- `loaded`: the page script has run;
- `appCreated`: `app != null`;
- `loops`: how many `setInterval(runLoop, 30)` timers were started;
- `unsupportedShown`: `#unsupported-browser` is displayed;
- `buttonListener`: `forceInit` is registered on the force-init button.

Actions:

- `load` is the page script: `initApp()` on a capable browser, otherwise the
  fallback message and the force-init listener, which is never removed.
- `initApp` returns early if the App exists. Otherwise it creates the App and
  starts one timer.
- `forceInit` calls `initApp` and then hides the fallback message.

Input's handlers run only once `initApp` has registered them, and its tick
runs only once a timer exists.

### Hover

State:

- `present`: the objects filed in `model.tadpoles`;
- `gone`: the objects `leaveHandler` removed;
- `authorized`: the objects whose name starts with "@";
- `near`: the objects within `size + 2` of the mouse. Positions are
  abstracted to this set, which the environment changes at will;
- `hover`: each object's hover flag;
- `mouseTadpole`: `mouse.tadpole`;
- `opened`: the object whose page the last click opened.

Actions:

- `tickHover` is the hover part of `Tadpole.update` over the present entries
  in for..in order. Of the tadpoles under the mouse, the last one in that
  order ends up in `mouse.tadpole`.
- `mousedown` is `app.mousedown`'s early-return test together with
  `Tadpole.onclick`. A consumed left click is a ctrl+left click on an
  authorised, hovered tadpole, and `onclick` opens that player's page. A
  consumed middle click only calls `preventDefault` and opens nothing.

## Runs

| run | cfg | expect | properties |
|---|---|---|---|
| `sync_safety` | `MC_Sync.cfg` | pass | `TypeOK`, `UserTadpoleUnique`, `ArrowsFollowTadpoles`, `UpdatesCarryAssignedId`, `EntriesNeverReplaced`, `UpdateEventuallySent` |
| `sync_close` | `MC_Sync_close.cfg` | violation | `ConnectionLossShown` |
| `input_rest` | `MC_Input.cfg` | pass | `Rest` |
| `messages_expiry` | `MC_Messages.cfg` | pass | `PassMatchesReference` |
| `page_single_loop` | `MC_Page.cfg` | pass | `SingleLoop` |
| `hover_stale` | `MC_Hover.cfg` | violation | `ClickGoesToPresentTadpole` |

What the properties say:

- **UserTadpoleUnique**: the user's tadpole is under exactly one key, the one
  its id names. It is broken if the re-keying keeps key -1.
- **ArrowsFollowTadpoles**: every arrow points at the tadpole of its key and
  never at the user's.
- **UpdatesCarryAssignedId**: no World.Update carries -1 or a foreign id.
- **EntriesNeverReplaced** (action property): a key's object is created, kept
  or deleted, never swapped for another. A swap would orphan its arrow and its
  queue.
- **UpdateEventuallySent** (liveness): a change made while the client is
  connected and the socket is open is eventually sent while the socket is
  still open, unless the socket closes first. A send into a closed socket
  does not count. It would count in the code, because `closeHandler` never
  resets `hasConnection`; that case belongs to `ConnectionLossShown`.
- **Rest**: with no arrow key, no left button and no finger down, the target
  momentum is 0, whatever order the handlers ran in.
- **PassMatchesReference**: when a pass of the splice loop ends, the queue
  equals `Expire` of the queue it started from. This includes two messages
  pushed in one tick that expire together, so the splice shifts the ones
  behind them. Testing `age == maxAge` before `msg.update()`
  (`loopStepTestFirst`) keeps an expired message one pass too long.
- **SingleLoop**: at most one runLoop timer, and exactly one once the App
  exists, however often force-init is clicked. It is broken without the
  `app != null` guard (`initAppNoGuard`).
- **ClickGoesToPresentTadpole** (expected violation): a ctrl+left click
  never opens the page of a player who has left. TLC finds four steps: an
  authorised peer joins, a tick puts it under the mouse, it leaves, and a
  ctrl+left mousedown opens its page. The departed tadpole keeps
  `hover = true` because only `Tadpole.update` of present entries resets it,
  and `mouse.tadpole` is never cleared. This is recorded under `findings`.
- **ConnectionLossShown** is the error-handling promise of the design
  document: losing the connection resets `hasConnection` and shows
  `#cant-connect`. TLC refutes it in two steps (`wsInit`, `closeHandler`).
  In that trace the socket closes during login, so `hasConnection` was
  already false. What fails is `#cant-connect`, which is never shown.
  This is the code bug recorded under `findings`.

Each property of a passing run has a mutant in `PROJECT.json` that breaks it,
for example:

- `welcomeKeepsTempKey` breaks `UserTadpoleUnique`;
- `leaveKeepsArrow` breaks `ArrowsFollowTadpoles`;
- `TickIgnoresConnection` breaks `UpdatesCarryAssignedId`;
- `TickKeepsChanged` breaks `UpdateEventuallySent`;
- `keyupTestFirst` breaks `Rest`.

Bounds:

- **Sync**: three session ids as model values (the client's and two peers'),
  `MaxObjs` = 3 allocations, `MaxAge` = 3, `MaxBurst` = 1 message per tick.
  - Three ids let a peer leave and another join while the handshake is under
    way.
  - Three objects let a leave be followed by a re-join under a fresh object,
    which is what `EntriesNeverReplaced` is about.
  - `MaxAge` = 3 lets a queue hold messages of two ages and expire one. The
    code's 300 changes only how long that takes.
  - Six ticks is one full throttle period.
  - About 680,000 states in under two minutes.
  - Symmetry over the ids is not used, because `UpdateEventuallySent` is a
    liveness property.
- **Input**: `MaxTouches` = 2, so that the first finger lifts while the second
  is down. 9,264 states. The same bound gives Page 18,534 states.
- **Messages**: `MaxAge` = 4 and up to 4 queued messages, 245 states. This
  covers messages of up to three different ages, with two or more of equal
  age expiring in the same pass. New messages are pushed at the end with
  age 1, so the queue is ordered oldest first and the expiring messages are
  always at its front. `Expire` is evaluated on every reachable queue, so the comparison
  is exhaustive up to that length.
- **Hover**: two peers, enough for one to leave while hovered and another to
  take the mouse afterwards.

Fairness: only `WF_vars(Tick)`. `setInterval(runLoop, 30)` keeps calling
`app.update` whatever happens on the socket. Nothing obliges the server or the
user to act, so no other action is fair. `Input` has no liveness property and
no fairness.

## Proofs (TLAPS)

`Sync_proofs.tla`:

- **TypeCorrect**: `Spec => []TypeOK`. The type invariant is inductive. The
  Boolean-valued variables are handled by Zenon (`BoolsOK`), and `msgs` by the
  lemma `AgedType`.
- **SafetyInvariant**: `Spec => []Inv`, with
  `Inv == UserTadpoleUnique /\ ArrowsFollowTadpoles /\ UpdatesCarryAssignedId`.
  `Inv` alone is not inductive. A state with the user's tadpole under -1 and a
  peer's entry under `serverId` satisfies it, but `welcomeHandler` would break
  it. The strengthening `IInv == TypeOK /\ Handshake /\ Inv` adds `Handshake`:
  - before `welcomeHandler`, `userId = -1`, nothing is filed under
    `serverId`, nothing has been sent, and no chat has been sent;
  - afterwards, `userId = serverId`;
  - `hasConnection` implies the handshake is done;
  - a connecting socket implies nothing has started.

  `IInv` was checked with TLC before it was proved. The step proof has one
  case per action. The actions that leave the key maps alone go through the
  lemma `Frame`.
- **UserTadpoleUniqueHolds**, **ArrowsFollowTadpolesHolds** and
  **UpdatesCarryAssignedIdHolds**: each property that `sync_safety` checks,
  for every set of ids and all bounds.

`Page_proofs.tla`:

- **SingleLoopHolds**: `PageSpec => []SingleLoop`. The invariant is
  strengthened by `loops \in Nat`. The lemma `InitAppStep` covers both
  callers of `initApp`.
- **RestInPage**: `PageSpec => []Rest`. `PageStepIsInputStep` shows that
  every Page step is an Input step or leaves Input's variables unchanged.
  `load` and `forceInit` touch only the page's variables, and `inputStep`,
  `uiStep` and `tickStep` are Input actions under an extra guard. So Input's
  inductive `IInv` carries over unchanged.
- **PageTypeCorrect**: `PageSpec => []PageTypeOK`. It combines three
  inductive facts:
  - Input's `IInv`, carried over as for `RestInPage`;
  - `LoopsInv`;
  - `PageFlagsOK`, the Boolean flags of the page (`PageFlagsStep`).

`Sync_proofs.tla` also proves:

- **EntriesNeverReplacedHolds**: `Spec => EntriesNeverReplaced`, from the
  step lemma `NoSwapStep`: `IInv /\ [Next]_vars => [NoSwap]_tadpoles`.
  - `welcomeHandler` files the user under `serverId`. `Handshake` in `IInv`
    says nothing was there.
  - `updateHandler` allocates only when the entry is `None`.
  - `leaveHandler` only deletes.

`Messages_proofs.tla`:

- **PassKeepsSurvivorsInOrderHolds**: `Spec => []PassKeepsSurvivorsInOrder`
  for every `MaxAge` and `MaxLen`. `PassKeepsSurvivorsInOrder` is
  `PassMatchesReference` with `SurvivorsFrom` in place of `Expire`. TLC
  checks the latter, and the proof establishes the former for all sizes. The loop invariant `IInv` (in
  `Messages.tla`, checked by TLC first) says three things during a pass:
  - every queued message is younger than `maxAge`;
  - indices `1..i` are still those of `before`;
  - the part beyond `i` satisfies `SurvivorsFrom(queue, before, i + 1)`.

  A `loopStep` either splices out message `i`, shifting the map of the
  visited part down by one, or ages it in place, extending the map by
  `i |-> i`. Both maps are built explicitly in the proof. The lemma
  `SpliceProperties` gives the length and the elements of
  `SubSeq(s, 1, j - 1) \o SubSeq(s, j + 1, Len(s))`.
- **TypeCorrect**: `Spec => []TypeOK` for Messages. `IInv` also bounds the
  loop index by `MaxLen`, for the idle state between passes.

`Input_proofs.tla`:

- **RestInvariant**: `Spec => []Rest`, through the inductive `IInv` of
  `Input.tla`. An axis of `keyNav` is set only while a key of that axis is
  held. A non-zero target momentum is backed by a set axis, the left button,
  or a finger.
- **TypeCorrect**: `Spec => []TypeOK` for Input.

The proofs assume only `IdsAssumption` (-1 is not a session id, and there is
one), `BoundsAssumption`, `TouchesAssumption` and `MessagesAssumption`
(`maxAge` at least 2, and room for one message).

What stays with TLC:

- the liveness property `UpdateEventuallySent` (TLAPS does not reason about
  fairness and ENABLED);
- the refutations of `ConnectionLossShown` and `ClickGoesToPresentTadpole`;
- `PassMatchesReference`. `SelectSeq` is defined by a recursive function
  over the sequence, so what it computes for every input would need
  induction over data, which the provers cannot do here. TLC checks it on
  every queue up to the bound. The same result against the non-recursive
  `SurvivorsFrom` is proved (`PassKeepsSurvivorsInOrderHolds`).

## Not modelled

- Rendering: all the draw functions, the tail, water particles and arrow
  angles. This is floating-point canvas geometry with no control state.
- Positions, angles, names and `timeSinceLastServerUpdate`. No property reads
  them.
- `messageQuota`: incremented in `app.update` and never read.
- `mousemove`, `touchmove` and `resize`: they only store coordinates.
- The Vue panels: static data. `messageDialog.drop` only calls
  `hideUILayer`.
- `addStats`: it is called only if `debug`, which is the constant false, and
  its other caller is commented out.
- The Vue panels beyond `messageDialog.drop` (`try`, `back`,
  `selectConversation`, `showDetail`, `messageList.sendMessage`). They
  toggle elements whose initial visibility is set by markup outside these
  sources. `messageList.sendMessage` appends to a hard-coded local list and
  sends nothing.
- The starx library and the server, beyond the environment assumptions
  above.

## Plan for later work

Done so far: the splice loop (`Messages`), proved; the hover model
(`Hover`); and the bootstrap (`Page`).
Left:

1. `Client.tla`: Sync and Input composed through the shared tick
   (`app.update` runs `userUpdate` with `keyNav` and `targetMomentum`),
   tying the `grow` of `userUpdate` to the momentum.
2. A run with a server that pushes the client's own id before
   `welcomeHandler`, or a leave for this session (StarXService.js:26 and
   :69), to show the two ordering hazards the environment assumption now
   excludes.
3. A proof that `Hover`'s `mouse.tadpole` always names an object that was
   filed at some point, with the typing of `Hover`.
