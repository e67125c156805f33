-------------------------------- MODULE Sync --------------------------------
(***************************************************************************)
(* The network side of the Tadpole client: StarXService.js together with  *)
(* the parts of App.js that share its state.                              *)
(*                                                                         *)
(*  - the handshake: starx.init -> wsInit (Manager.Login request and the   *)
(*    four push listeners) -> joyLogin (World.Enter request) ->            *)
(*    welcomeHandler, which re-keys the user's tadpole from -1 to the id   *)
(*    the server assigned;                                                 *)
(*  - the push handlers update / leave / message / close, which create and *)
(*    delete entries of model.tadpoles and model.arrows;                   *)
(*  - the 30 ms tick App.update, as far as it touches this state: the      *)
(*    throttled World.Update notify and the ageing of every queued chat    *)
(*    message of every tadpole in model.tadpoles;                          *)
(*  - app.sendMessage, the World.Message notify of the chat box.           *)
(*                                                                         *)
(* Tadpole objects are identities: User (the object built in the App      *)
(* constructor) and 1..MaxObjs for the objects updateHandler allocates.    *)
(* model.tadpoles and model.arrows are total functions on Keys with None   *)
(* for a missing entry; an arrow is identified with the tadpole object it  *)
(* was built for (new Arrow(model.tadpoles[data.id], ...)).  Positions,    *)
(* angles, names and timers are data no property here distinguishes and   *)
(* are left out.  A chat message is only its age: a queue is a bag of      *)
(* ages, msgs[o][a] messages of age a, since every message of a queue      *)
(* ages by one on every tick.                                              *)
(*                                                                         *)
(* The server (nano's World service) is the environment: it pushes         *)
(* updates, messages and leaves of peers at any time once the listeners    *)
(* are registered, and echoes this client's own update or message only     *)
(* after the client sent one; it never pushes a leave for the session it   *)
(* is talking to.                                                          *)
(***************************************************************************)
EXTENDS Integers, Functions

CONSTANTS
    Ids,        \* session ids the server may hand out (this one's and peers')
    MaxObjs,    \* bound on the Tadpole objects updateHandler allocates
    MaxAge,     \* Message.maxAge (300 in the code)
    MaxBurst    \* bound on messages a tadpole receives within one tick

\* The key the App constructor files the user's tadpole under before login.
TempKey == -1
Keys == Ids \cup {TempKey}

User == 0
None == -1
Objs == 0..MaxObjs
Ages == 1..MaxAge

ASSUME IdsAssumption == TempKey \notin Ids /\ Ids # {}
ASSUME BoundsAssumption ==
    /\ MaxObjs \in Nat
    /\ MaxAge \in Nat \ {0, 1}
    /\ MaxBurst \in Nat \ {0}

VARIABLES
    sock,           \* the starx socket: "connecting", "open" or "closed"
    phase,          \* how far the handshake got
    hasConnection,  \* StarXService.hasConnection
    cantConnect,    \* whether #cant-connect has been faded in
    serverId,       \* the session id the server assigned to this client
    userId,         \* model.userTadpole.id
    tadpoles,       \* model.tadpoles: key -> tadpole object or None
    arrows,         \* model.arrows: key -> the tadpole object of the arrow
    nextObj,        \* the next fresh Tadpole object
    msgs,           \* msgs[o][a]: messages of age a queued on object o
    age,            \* model.userTadpole.age % 6 (only age % 6 is read)
    changed,        \* model.userTadpole.changed > 1
    sentIds,        \* the ids carried by every World.Update sent so far
    chatSent        \* a World.Message has been sent

vars == <<sock, phase, hasConnection, cantConnect, serverId, userId,
          tadpoles, arrows, nextObj, msgs, age, changed, sentIds, chatSent>>

Phases == {"init", "loginSent", "enterSent", "entered"}

TypeOK ==
    /\ sock \in {"connecting", "open", "closed"}
    /\ phase \in Phases
    /\ hasConnection \in BOOLEAN
    /\ cantConnect \in BOOLEAN
    /\ serverId \in Ids
    /\ userId \in Keys
    /\ tadpoles \in [Keys -> Objs \cup {None}]
    /\ arrows \in [Keys -> Objs \cup {None}]
    /\ nextObj \in 1..(MaxObjs + 1)
    /\ msgs \in [Objs -> [Ages -> Nat]]
    /\ age \in 0..5
    /\ changed \in BOOLEAN
    /\ sentIds \subseteq Keys
    /\ chatSent \in BOOLEAN

NoMsgs == [a \in Ages |-> 0]

\* The App constructor: the user's tadpole under key -1, no arrows, then
\* new StarXService(model) calls starx.init.
Init ==
    /\ sock = "connecting"
    /\ phase = "init"
    /\ hasConnection = FALSE
    /\ cantConnect = FALSE
    /\ serverId \in Ids
    /\ userId = TempKey
    /\ tadpoles = [k \in Keys |-> IF k = TempKey THEN User ELSE None]
    /\ arrows = [k \in Keys |-> None]
    /\ nextObj = 1
    /\ msgs = [o \in Objs |-> NoMsgs]
    /\ age = 0
    /\ changed = FALSE
    /\ sentIds = {}
    /\ chatSent = FALSE

-----------------------------------------------------------------------------
(* The handshake.                                                          *)

\* The socket opens and starx.init calls wsInit: Manager.Login is requested
\* and the close/update/leave/message listeners are registered.
wsInit ==
    /\ sock = "connecting"
    /\ sock' = "open"
    /\ phase' = "loginSent"
    /\ UNCHANGED <<hasConnection, cantConnect, serverId, userId, tadpoles,
                   arrows, nextObj, msgs, age, changed, sentIds, chatSent>>

\* The socket never opens: wsInit never runs, so no close listener exists.
ConnectFail ==
    /\ sock = "connecting"
    /\ sock' = "closed"
    /\ UNCHANGED <<phase, hasConnection, cantConnect, serverId, userId,
                   tadpoles, arrows, nextObj, msgs, age, changed, sentIds,
                   chatSent>>

\* The Manager.Login response: its callback joyLogin requests World.Enter.
joyLogin ==
    /\ sock = "open"
    /\ phase = "loginSent"
    /\ phase' = "enterSent"
    /\ UNCHANGED <<sock, hasConnection, cantConnect, serverId, userId,
                   tadpoles, arrows, nextObj, msgs, age, changed, sentIds,
                   chatSent>>

\* Mutant: the re-keying copies the user's tadpole but keeps key -1.
welcomeKeepsTempKey ==
    /\ sock = "open"
    /\ phase = "enterSent"
    /\ phase' = "entered"
    /\ hasConnection' = TRUE
    /\ userId' = serverId
    /\ tadpoles' = [tadpoles EXCEPT ![serverId] = tadpoles[TempKey]]
    /\ UNCHANGED <<sock, cantConnect, serverId, arrows, nextObj, msgs, age,
                   changed, sentIds, chatSent>>

\* The World.Enter response: the user's tadpole takes the assigned id and
\* moves from key -1 to that key (the chat box is initialised here too).
welcomeHandler ==
    /\ sock = "open"
    /\ phase = "enterSent"
    /\ phase' = "entered"
    /\ hasConnection' = TRUE
    /\ userId' = serverId
    /\ tadpoles' = [tadpoles EXCEPT ![serverId] = tadpoles[TempKey],
                                    ![TempKey] = None]
    /\ UNCHANGED <<sock, cantConnect, serverId, arrows, nextObj, msgs, age,
                   changed, sentIds, chatSent>>

-----------------------------------------------------------------------------
(* The push handlers.  A push is delivered only on an open socket, and     *)
(* only once wsInit has registered the listeners.                          *)

Listening == sock = "open" /\ phase # "init"

\* The ids the server may push an update or message for: any peer, and
\* this client's own id once it has sent something to be echoed.
UpdateIds == (Ids \ {serverId}) \cup (IF sentIds # {} THEN {serverId} ELSE {})
MessageIds == (Ids \ {serverId}) \cup (IF chatSent THEN {serverId} ELSE {})

\* Mutant: the !model.tadpoles[data.id] test is dropped.
updateAlwaysNew(id) ==
    /\ Listening
    /\ id \in UpdateIds
    /\ nextObj <= MaxObjs
    /\ tadpoles' = [tadpoles EXCEPT ![id] = nextObj]
    /\ arrows' = [arrows EXCEPT ![id] = nextObj]
    /\ nextObj' = nextObj + 1
    /\ UNCHANGED <<sock, phase, hasConnection, cantConnect, serverId, userId,
                   msgs, age, changed, sentIds, chatSent>>

\* "update": a key not yet in model.tadpoles gets a fresh Tadpole and an
\* Arrow for it.  Whether the entry is the user's (tadpole.id ==
\* model.userTadpole.id) only decides which data fields are written.
updateHandler(id) ==
    /\ Listening
    /\ id \in UpdateIds
    /\ IF tadpoles[id] = None
         THEN /\ nextObj <= MaxObjs
              /\ tadpoles' = [tadpoles EXCEPT ![id] = nextObj]
              /\ arrows' = [arrows EXCEPT ![id] = nextObj]
              /\ nextObj' = nextObj + 1
         ELSE UNCHANGED <<tadpoles, arrows, nextObj>>
    /\ UNCHANGED <<sock, phase, hasConnection, cantConnect, serverId, userId,
                   msgs, age, changed, sentIds, chatSent>>

\* Mutant: the arrow is left behind.
leaveKeepsArrow(id) ==
    /\ Listening
    /\ id \in Ids \ {serverId}
    /\ IF tadpoles[id] # None
         THEN tadpoles' = [tadpoles EXCEPT ![id] = None]
         ELSE UNCHANGED tadpoles
    /\ UNCHANGED <<sock, phase, hasConnection, cantConnect, serverId, userId,
                   arrows, nextObj, msgs, age, changed, sentIds, chatSent>>

\* "leave": drop the entry and its arrow, if there is one.
leaveHandler(id) ==
    /\ Listening
    /\ id \in Ids \ {serverId}
    /\ IF tadpoles[id] # None
         THEN /\ tadpoles' = [tadpoles EXCEPT ![id] = None]
              /\ arrows' = [arrows EXCEPT ![id] = None]
         ELSE UNCHANGED <<tadpoles, arrows>>
    /\ UNCHANGED <<sock, phase, hasConnection, cantConnect, serverId, userId,
                   nextObj, msgs, age, changed, sentIds, chatSent>>

\* "message": a new Message (age 1) is pushed on the tadpole's queue; a
\* message for a key not in model.tadpoles is dropped.
messageHandler(id) ==
    /\ Listening
    /\ id \in MessageIds
    /\ IF tadpoles[id] # None
         THEN /\ msgs[tadpoles[id]][1] < MaxBurst
              /\ msgs' = [msgs EXCEPT ![tadpoles[id]][1] = @ + 1]
         ELSE UNCHANGED msgs
    /\ UNCHANGED <<sock, phase, hasConnection, cantConnect, serverId, userId,
                   tadpoles, arrows, nextObj, age, changed, sentIds, chatSent>>

\* "close": the socket is gone.  closeHandler's first statement assigns to
\* webSocketService.hasConnection, and no variable webSocketService exists
\* in this code, so it throws a ReferenceError: neither
\* StarXService.hasConnection nor #cant-connect changes.
closeHandler ==
    /\ Listening
    /\ sock' = "closed"
    /\ UNCHANGED <<phase, hasConnection, cantConnect, serverId, userId,
                   tadpoles, arrows, nextObj, msgs, age, changed, sentIds,
                   chatSent>>

-----------------------------------------------------------------------------
(* The client's own steps.                                                 *)

\* One round of Message.update over a queue: every message ages by one and
\* the ones reaching maxAge are spliced out.
Aged(q) == [a \in Ages |-> IF a = 1 \/ a = MaxAge THEN 0 ELSE q[a - 1]]

\* Tadpole.userUpdate, for the user's tadpole: the turn and the momentum
\* of the step are added to changed, which only grows until a send resets
\* it; grow is whether this step takes it past 1.
userUpdate(grow) == changed \/ grow

\* Mutants of App.update: TickMut(wrap, guard, reset) sends when the age
\* counter (wrapped at 6 or not) hits 0, with or without the hasConnection
\* guard, and with or without resetting changed.
TickMut(wrap, guard, reset) ==
    \E grow \in BOOLEAN :
        LET ch   == userUpdate(grow)
            a1   == IF wrap THEN (age + 1) % 6 ELSE age + 1
            send == a1 = 0 /\ ch /\ (hasConnection \/ ~guard)
        IN  /\ age' = a1
            /\ changed' = (ch /\ ~(send /\ reset))
            /\ sentIds' = IF send THEN sentIds \cup {userId} ELSE sentIds
            /\ msgs' = [o \in Objs |->
                          IF o \in Range(tadpoles) THEN Aged(msgs[o])
                                                   ELSE msgs[o]]
            /\ UNCHANGED <<sock, phase, hasConnection, cantConnect, serverId,
                           userId, tadpoles, arrows, nextObj, chatSent>>
TickNoWrap == TickMut(FALSE, TRUE, TRUE)
TickIgnoresConnection == TickMut(TRUE, FALSE, TRUE)
TickKeepsChanged == TickMut(TRUE, TRUE, FALSE)

\* App.update, every 30 ms.  userUpdate increments age and adds the turn
\* and momentum of the step to changed (grow: whether that pushes it past
\* 1); every sixth tick a changed tadpole is sent if hasConnection holds,
\* which resets changed; then Tadpole.update runs for every entry of
\* model.tadpoles and ages its messages.
Tick ==
    \E grow \in BOOLEAN :
        LET ch   == userUpdate(grow)
            a1   == (age + 1) % 6
            send == a1 = 0 /\ ch /\ hasConnection
        IN  /\ age' = a1
            /\ changed' = (ch /\ ~send)
            /\ sentIds' = IF send THEN sentIds \cup {userId} ELSE sentIds
            /\ msgs' = [o \in Objs |->
                          IF o \in Range(tadpoles) THEN Aged(msgs[o])
                                                   ELSE msgs[o]]
            /\ UNCHANGED <<sock, phase, hasConnection, cantConnect, serverId,
                           userId, tadpoles, arrows, nextObj, chatSent>>

\* app.sendMessage, called by the chat box that welcomeHandler initialised;
\* it notifies World.Message without looking at hasConnection.
sendMessage ==
    /\ phase = "entered"
    /\ chatSent' = TRUE
    /\ UNCHANGED <<sock, phase, hasConnection, cantConnect, serverId, userId,
                   tadpoles, arrows, nextObj, msgs, age, changed, sentIds>>

-----------------------------------------------------------------------------
Next ==
    \/ wsInit \/ ConnectFail \/ joyLogin \/ welcomeHandler
    \/ \E id \in Ids : updateHandler(id) \/ leaveHandler(id)
                       \/ messageHandler(id)
    \/ closeHandler
    \/ Tick
    \/ sendMessage

\* setInterval(runLoop, 30) keeps firing whatever the socket does; nothing
\* obliges the server or the user to act.
Fairness == WF_vars(Tick)

Spec == Init /\ [][Next]_vars /\ Fairness


-----------------------------------------------------------------------------
(* Properties.                                                             *)

\* The user's own tadpole is filed under exactly one key of model.tadpoles,
\* the one model.userTadpole.id names: -1 until welcomeHandler re-keys it,
\* the server's id afterwards.  Broken if the re-keying in welcomeHandler,
\* or an update or leave pushed for the user's id, leaves it under two keys,
\* under none, or under a key other than its id.
UserTadpoleUnique ==
    \A k \in Keys : tadpoles[k] = User <=> k = userId

\* Every arrow of model.arrows points at the very tadpole object filed under
\* its key, and the user's own tadpole has no arrow: updateHandler creates
\* the two together, leaveHandler drops them together, and welcomeHandler's
\* re-keying must not land the user on a key that already has an arrow.
ArrowsFollowTadpoles ==
    \A k \in Keys : arrows[k] # None =>
                      /\ arrows[k] = tadpoles[k]
                      /\ tadpoles[k] # User

\* App.update never sends a World.Update carrying the temporary id -1 or any
\* id but the one the server assigned: the hasConnection guard of the
\* throttle holds back every send until welcomeHandler has set the id.
UpdatesCarryAssignedId ==
    sentIds \subseteq {serverId}

\* A step never swaps the tadpole object filed under a key for another one:
\* an entry is created, kept or deleted.  updateHandler must reuse the
\* entry it finds, and welcomeHandler must not overwrite a peer's entry,
\* or the arrow and the message queue of the old object are orphaned.
EntriesNeverReplaced ==
    [][\A k \in Keys : tadpoles[k] # None /\ tadpoles'[k] # None
                         => tadpoles'[k] = tadpoles[k]]_tadpoles

\* Once the user's tadpole has moved far enough and the client is
\* connected, the 30 ms tick eventually sends a World.Update while the
\* socket is still open, unless the socket closes first.  A send into a
\* closed socket does not count: losing the connection is the case
\* ConnectionLossShown is about.
UpdateEventuallySent ==
    (changed /\ hasConnection /\ sock = "open")
        ~> ((~changed /\ sock = "open") \/ sock = "closed")

\* Section 7 of the spec: losing the real-time connection flips the
\* hasConnection flag and reveals the "can't connect" element.  Stated for
\* a socket that had opened (wsInit ran and registered closeHandler).
ConnectionLossShown ==
    (sock = "closed" /\ phase # "init") => (~hasConnection /\ cantConnect)


-----------------------------------------------------------------------------
(* The safety invariant, and the strengthening that makes it inductive.    *)

Inv == UserTadpoleUnique /\ ArrowsFollowTadpoles /\ UpdatesCarryAssignedId

\* Until welcomeHandler runs, the user's id is -1, nothing has been sent,
\* and nothing is filed under the id the server is going to assign (the
\* server echoes only what was sent); afterwards the user's id is that id.
\* hasConnection is only ever set by welcomeHandler, and the handshake
\* starts only once the socket has opened.
Handshake ==
    /\ phase = "entered" => userId = serverId
    /\ phase # "entered" => /\ userId = TempKey
                            /\ tadpoles[serverId] = None
                            /\ arrows[serverId] = None
                            /\ sentIds = {}
                            /\ ~chatSent
    /\ hasConnection => phase = "entered"
    /\ sock = "connecting" => phase = "init"

IInv == TypeOK /\ Handshake /\ Inv

=============================================================================
