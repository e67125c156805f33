----------------------------- MODULE Sync_proofs -----------------------------
(***************************************************************************)
(* Proofs about Sync for every set of session ids and every bound.        *)
(*                                                                         *)
(* TypeCorrect: every reachable state is well typed.                       *)
(* SafetyInvariant: the user's tadpole is filed under exactly its own key, *)
(* every arrow points at the tadpole of its key and never at the user's,  *)
(* and no World.Update carries an id but the assigned one.  Inv is not    *)
(* inductive by itself: welcomeHandler writes key serverId, so the proof  *)
(* needs to know that nothing is filed or has an arrow there beforehand,  *)
(* and the send guard hasConnection needs to imply that the user's id is  *)
(* already serverId.  IInv adds exactly those facts.                      *)
(***************************************************************************)
EXTENDS Sync, TLAPS

USE IdsAssumption, BoundsAssumption DEF TempKey, Keys, User, None, Objs, Ages,
                                        Phases

-----------------------------------------------------------------------------
(* Typing.                                                                 *)

LEMMA AgedType ==
    ASSUME NEW q \in [Ages -> Nat]
    PROVE  Aged(q) \in [Ages -> Nat]
BY DEF Aged

\* The Boolean-valued part of TypeOK, which Zenon handles better than SMT.
BoolsOK ==
    /\ hasConnection \in BOOLEAN
    /\ cantConnect \in BOOLEAN
    /\ changed \in BOOLEAN
    /\ chatSent \in BOOLEAN

LEMMA TypeInit == Init => TypeOK
<1> SUFFICES ASSUME Init PROVE TypeOK
    OBVIOUS
<1>1. BoolsOK
    BY Zenon DEF Init, BoolsOK
<1>2. msgs \in [Objs -> [Ages -> Nat]]
    BY DEF Init, NoMsgs
<1>3. QED
    BY <1>1, <1>2 DEF Init, TypeOK, BoolsOK

LEMMA TypeStep == TypeOK /\ [Next]_vars => TypeOK'
<1> SUFFICES ASSUME TypeOK, [Next]_vars PROVE TypeOK'
    OBVIOUS
<1>0. BoolsOK
    BY DEF TypeOK, BoolsOK
<1>1. CASE wsInit
    <2>1. BoolsOK'
        BY <1>0, <1>1, Zenon DEF wsInit, BoolsOK
    <2>2. QED
        BY <1>1, <2>1 DEF wsInit, TypeOK, BoolsOK
<1>2. CASE ConnectFail
    <2>1. BoolsOK'
        BY <1>0, <1>2, Zenon DEF ConnectFail, BoolsOK
    <2>2. QED
        BY <1>2, <2>1 DEF ConnectFail, TypeOK, BoolsOK
<1>3. CASE joyLogin
    <2>1. BoolsOK'
        BY <1>0, <1>3, Zenon DEF joyLogin, BoolsOK
    <2>2. QED
        BY <1>3, <2>1 DEF joyLogin, TypeOK, BoolsOK
<1>4. CASE welcomeHandler
    <2>1. BoolsOK'
        BY <1>0, <1>4, Zenon DEF welcomeHandler, BoolsOK
    <2>2. tadpoles' \in [Keys -> Objs \cup {None}] /\ userId' \in Keys
        BY <1>4, Zenon DEF TypeOK, welcomeHandler
    <2>3. /\ phase' = "entered"
          /\ UNCHANGED <<sock, cantConnect, serverId, arrows, nextObj, msgs,
                         age, changed, sentIds, chatSent>>
        BY <1>4 DEF welcomeHandler
    <2>4. QED
        BY <2>1, <2>2, <2>3 DEF TypeOK, BoolsOK
<1>5. ASSUME NEW id \in Ids, updateHandler(id) PROVE TypeOK'
    <2>1. BoolsOK'
        BY <1>0, <1>5, Zenon DEF updateHandler, BoolsOK
    <2>2. /\ tadpoles' \in [Keys -> Objs \cup {None}]
          /\ arrows' \in [Keys -> Objs \cup {None}]
          /\ nextObj' \in 1..(MaxObjs + 1)
        <3>1. CASE tadpoles[id] = None
            <4>1. /\ nextObj <= MaxObjs
                  /\ tadpoles' = [tadpoles EXCEPT ![id] = nextObj]
                  /\ arrows' = [arrows EXCEPT ![id] = nextObj]
                  /\ nextObj' = nextObj + 1
                BY <1>5, <3>1 DEF updateHandler
            <4>2. nextObj \in Objs
                BY <4>1 DEF TypeOK
            <4>3. QED
                BY <4>1, <4>2 DEF TypeOK
        <3>2. CASE tadpoles[id] # None
            BY <1>5, <3>2 DEF updateHandler, TypeOK
        <3>3. QED
            BY <3>1, <3>2
    <2>3. UNCHANGED <<sock, phase, hasConnection, cantConnect, serverId,
                      userId, msgs, age, changed, sentIds, chatSent>>
        BY <1>5 DEF updateHandler
    <2>4. QED
        BY <2>1, <2>2, <2>3 DEF TypeOK, BoolsOK
<1>6. ASSUME NEW id \in Ids, leaveHandler(id) PROVE TypeOK'
    <2>1. BoolsOK'
        BY <1>0, <1>6, Zenon DEF leaveHandler, BoolsOK
    <2>2. /\ tadpoles' \in [Keys -> Objs \cup {None}]
          /\ arrows' \in [Keys -> Objs \cup {None}]
        <3>1. CASE tadpoles[id] # None
            BY <1>6, <3>1, Zenon DEF leaveHandler, TypeOK
        <3>2. CASE tadpoles[id] = None
            BY <1>6, <3>2 DEF leaveHandler, TypeOK
        <3>3. QED
            BY <3>1, <3>2
    <2>3. UNCHANGED <<sock, phase, hasConnection, cantConnect, serverId,
                      userId, nextObj, msgs, age, changed, sentIds, chatSent>>
        BY <1>6 DEF leaveHandler
    <2>4. QED
        BY <2>1, <2>2, <2>3 DEF TypeOK, BoolsOK
<1>7. ASSUME NEW id \in Ids, messageHandler(id) PROVE TypeOK'
    <2>1. BoolsOK'
        BY <1>0, <1>7, Zenon DEF messageHandler, BoolsOK
    <2>2. msgs' \in [Objs -> [Ages -> Nat]]
        <3>1. CASE tadpoles[id] # None
            <4>1. tadpoles[id] \in Objs
                BY <3>1, Zenon DEF TypeOK
            <4>2. msgs[tadpoles[id]] \in [Ages -> Nat] /\ 1 \in Ages
                BY <4>1 DEF TypeOK
            <4>3. [msgs[tadpoles[id]] EXCEPT ![1] = @ + 1] \in [Ages -> Nat]
                BY <4>2
            <4>4. msgs' = [msgs EXCEPT ![tadpoles[id]] =
                             [msgs[tadpoles[id]] EXCEPT ![1] = @ + 1]]
                BY <1>7, <3>1 DEF messageHandler
            <4>5. QED
                BY <4>1, <4>3, <4>4 DEF TypeOK
        <3>2. CASE tadpoles[id] = None
            BY <1>7, <3>2 DEF messageHandler, TypeOK
        <3>3. QED
            BY <3>1, <3>2
    <2>3. QED
        BY <1>7, <2>1, <2>2 DEF messageHandler, TypeOK, BoolsOK
<1>8. CASE closeHandler
    <2>1. BoolsOK'
        BY <1>0, <1>8, Zenon DEF closeHandler, BoolsOK
    <2>2. QED
        BY <1>8, <2>1 DEF closeHandler, TypeOK, BoolsOK
<1>9. CASE Tick
    <2>1. PICK grow \in BOOLEAN :
            LET ch   == changed \/ grow
                a1   == (age + 1) % 6
                send == a1 = 0 /\ ch /\ hasConnection
            IN  /\ age' = a1
                /\ changed' = (ch /\ ~send)
                /\ sentIds' = IF send THEN sentIds \cup {userId} ELSE sentIds
                /\ msgs' = [o \in Objs |->
                              IF o \in Range(tadpoles) THEN Aged(msgs[o])
                                                       ELSE msgs[o]]
                /\ UNCHANGED <<sock, phase, hasConnection, cantConnect,
                               serverId, userId, tadpoles, arrows, nextObj,
                               chatSent>>
        BY <1>9 DEF Tick, userUpdate
    <2>2. BoolsOK'
        BY <1>0, <2>1 DEF BoolsOK
    <2>3. msgs' \in [Objs -> [Ages -> Nat]]
        <3>1. \A o \in Objs : /\ msgs[o] \in [Ages -> Nat]
                              /\ Aged(msgs[o]) \in [Ages -> Nat]
            <4> TAKE o \in Objs
            <4>1. msgs[o] \in [Ages -> Nat]
                BY DEF TypeOK
            <4>2. QED
                BY <4>1, AgedType
        <3>2. QED
            BY <2>1, <3>1
    <2>4. age' \in 0..5 /\ sentIds' \subseteq Keys
        BY <2>1 DEF TypeOK
    <2>5. QED
        BY <2>1, <2>2, <2>3, <2>4 DEF TypeOK, BoolsOK
<1>10. CASE sendMessage
    <2>1. BoolsOK'
        BY <1>0, <1>10, Zenon DEF sendMessage, BoolsOK
    <2>2. QED
        BY <1>10, <2>1 DEF sendMessage, TypeOK, BoolsOK
<1>11. CASE UNCHANGED vars
    BY <1>11 DEF vars, TypeOK
<1>12. QED
    BY <1>1, <1>2, <1>3, <1>4, <1>5, <1>6, <1>7, <1>8, <1>9, <1>10, <1>11
       DEF Next

\* Every reachable state of Sync is well typed.
THEOREM TypeCorrect == Spec => []TypeOK
BY TypeInit, TypeStep, PTL DEF Spec

-----------------------------------------------------------------------------
(* The safety invariant.                                                   *)

LEMMA IInvInit == Init => IInv
<1> SUFFICES ASSUME Init PROVE IInv
    OBVIOUS
<1>1. TypeOK
    BY TypeInit
<1>2. Handshake
    BY DEF Init, Handshake
<1>3. Inv
    BY DEF Init, Inv, UserTadpoleUnique, ArrowsFollowTadpoles,
           UpdatesCarryAssignedId
<1>4. QED
    BY <1>1, <1>2, <1>3 DEF IInv

\* A step that leaves the dictionaries, the ids, what was sent and
\* hasConnection alone, and does not cross into or out of "entered",
\* preserves Handshake and Inv.
LEMMA Frame ==
    ASSUME Handshake, Inv,
           UNCHANGED <<hasConnection, serverId, userId, tadpoles, arrows,
                       sentIds, chatSent>>,
           phase' = "entered" <=> phase = "entered",
           sock' = "connecting" => phase' = "init"
    PROVE  Handshake' /\ Inv'
<1>1. Handshake'
    BY DEF Handshake
<1>2. Inv'
    BY DEF Inv, UserTadpoleUnique, ArrowsFollowTadpoles,
           UpdatesCarryAssignedId
<1>3. QED
    BY <1>1, <1>2

LEMMA IInvStep == IInv /\ [Next]_vars => IInv'
<1> SUFFICES ASSUME IInv, [Next]_vars PROVE IInv'
    OBVIOUS
<1>0. TypeOK /\ Handshake /\ Inv /\ TypeOK'
    BY TypeStep DEF IInv
<1> SUFFICES Handshake' /\ Inv'
    BY <1>0 DEF IInv
<1>1. CASE wsInit
    BY <1>0, <1>1, Frame DEF wsInit, Handshake
<1>2. CASE ConnectFail
    BY <1>0, <1>2, Frame DEF ConnectFail
<1>3. CASE joyLogin
    BY <1>0, <1>3, Frame DEF joyLogin
<1>4. CASE welcomeHandler
    <2>1. /\ tadpoles[TempKey] = User /\ arrows[TempKey] = None
          /\ userId = TempKey
          /\ tadpoles[serverId] = None /\ arrows[serverId] = None
          /\ sentIds = {}
        BY <1>0, <1>4 DEF welcomeHandler, Handshake, Inv, UserTadpoleUnique,
                          ArrowsFollowTadpoles, TypeOK
    <2>2. Handshake'
        BY <1>4 DEF welcomeHandler, Handshake
    <2>3. UserTadpoleUnique'
        BY <1>0, <1>4, <2>1 DEF welcomeHandler, Inv, UserTadpoleUnique,
                                TypeOK
    <2>4. ArrowsFollowTadpoles'
        BY <1>0, <1>4, <2>1 DEF welcomeHandler, Inv, ArrowsFollowTadpoles,
                                TypeOK
    <2>5. UpdatesCarryAssignedId'
        BY <1>4, <2>1 DEF welcomeHandler, UpdatesCarryAssignedId
    <2>6. QED
        BY <2>2, <2>3, <2>4, <2>5 DEF Inv
<1>5. ASSUME NEW id \in Ids, updateHandler(id) PROVE Handshake' /\ Inv'
    <2>1. phase # "entered" => id # serverId
        BY <1>0, <1>5 DEF updateHandler, UpdateIds, Handshake
    <2>2. tadpoles[id] = None => id # userId
        BY <1>0 DEF Inv, UserTadpoleUnique, TypeOK
    <2>3. CASE tadpoles[id] = None
        <3>1. /\ nextObj <= MaxObjs
              /\ tadpoles' = [tadpoles EXCEPT ![id] = nextObj]
              /\ arrows' = [arrows EXCEPT ![id] = nextObj]
              /\ UNCHANGED <<phase, hasConnection, serverId, userId, sentIds,
                             chatSent, sock>>
            BY <1>5, <2>3 DEF updateHandler
        <3>2. nextObj # User /\ nextObj # None
            BY <1>0 DEF TypeOK
        <3>3. Handshake'
            BY <1>0, <2>1, <3>1, <3>2 DEF Handshake, TypeOK
        <3>4. UserTadpoleUnique'
            BY <1>0, <2>2, <2>3, <3>1, <3>2 DEF Inv, UserTadpoleUnique,
                                                TypeOK
        <3>5. ArrowsFollowTadpoles'
            BY <1>0, <3>1, <3>2 DEF Inv, ArrowsFollowTadpoles, TypeOK
        <3>6. UpdatesCarryAssignedId'
            BY <1>0, <3>1 DEF Inv, UpdatesCarryAssignedId
        <3>7. QED
            BY <3>3, <3>4, <3>5, <3>6 DEF Inv
    <2>4. CASE tadpoles[id] # None
        <3>1. UNCHANGED <<sock, phase, hasConnection, serverId, userId,
                          tadpoles, arrows, sentIds, chatSent>>
            BY <1>5, <2>4 DEF updateHandler
        <3>2. QED
            BY <1>0, <3>1, Frame DEF Handshake
    <2>5. QED
        BY <2>3, <2>4
<1>6. ASSUME NEW id \in Ids, leaveHandler(id) PROVE Handshake' /\ Inv'
    <2>1. id # userId /\ id # serverId /\ id # TempKey
        BY <1>0, <1>6 DEF leaveHandler, Handshake, TypeOK
    <2>2. CASE tadpoles[id] # None
        <3>1. /\ tadpoles' = [tadpoles EXCEPT ![id] = None]
              /\ arrows' = [arrows EXCEPT ![id] = None]
              /\ UNCHANGED <<phase, hasConnection, serverId, userId, sentIds,
                             chatSent, sock>>
            BY <1>6, <2>2 DEF leaveHandler
        <3>2. Handshake'
            BY <1>0, <2>1, <3>1 DEF Handshake, TypeOK
        <3>3. UserTadpoleUnique'
            BY <1>0, <2>1, <3>1 DEF Inv, UserTadpoleUnique, TypeOK
        <3>4. ArrowsFollowTadpoles'
            BY <1>0, <3>1 DEF Inv, ArrowsFollowTadpoles, TypeOK
        <3>5. UpdatesCarryAssignedId'
            BY <1>0, <3>1 DEF Inv, UpdatesCarryAssignedId
        <3>6. QED
            BY <3>2, <3>3, <3>4, <3>5 DEF Inv
    <2>3. CASE tadpoles[id] = None
        <3>1. UNCHANGED <<sock, phase, hasConnection, serverId, userId,
                          tadpoles, arrows, sentIds, chatSent>>
            BY <1>6, <2>3 DEF leaveHandler
        <3>2. QED
            BY <1>0, <3>1, Frame DEF Handshake
    <2>4. QED
        BY <2>2, <2>3
<1>7. ASSUME NEW id \in Ids, messageHandler(id) PROVE Handshake' /\ Inv'
    <2>1. UNCHANGED <<sock, phase, hasConnection, serverId, userId,
                      tadpoles, arrows, sentIds, chatSent>>
        BY <1>7 DEF messageHandler
    <2>2. QED
        BY <1>0, <2>1, Frame DEF Handshake
<1>8. CASE closeHandler
    BY <1>0, <1>8, Frame DEF closeHandler
<1>9. CASE Tick
    <2>1. PICK grow \in BOOLEAN :
            LET ch   == changed \/ grow
                a1   == (age + 1) % 6
                send == a1 = 0 /\ ch /\ hasConnection
            IN  /\ sentIds' = IF send THEN sentIds \cup {userId} ELSE sentIds
                /\ UNCHANGED <<sock, phase, hasConnection, cantConnect,
                               serverId, userId, tadpoles, arrows, nextObj,
                               chatSent>>
        BY <1>9 DEF Tick, userUpdate
    <2>2. sentIds' \subseteq sentIds \cup (IF hasConnection THEN {userId}
                                                             ELSE {})
        BY <2>1
    <2>3. hasConnection => userId = serverId
        BY <1>0 DEF Handshake
    <2>4. UpdatesCarryAssignedId'
        BY <1>0, <2>1, <2>2, <2>3 DEF Inv, UpdatesCarryAssignedId
    <2>5. Handshake'
        BY <1>0, <2>1, <2>2 DEF Handshake
    <2>6. UserTadpoleUnique' /\ ArrowsFollowTadpoles'
        BY <1>0, <2>1 DEF Inv, UserTadpoleUnique, ArrowsFollowTadpoles
    <2>7. QED
        BY <2>4, <2>5, <2>6 DEF Inv
<1>10. CASE sendMessage
    <2>1. /\ phase = "entered" /\ phase' = "entered"
          /\ UNCHANGED <<sock, hasConnection, serverId, userId, tadpoles,
                         arrows, sentIds>>
        BY <1>10 DEF sendMessage
    <2>2. QED
        BY <1>0, <2>1 DEF Handshake, Inv, UserTadpoleUnique,
                          ArrowsFollowTadpoles, UpdatesCarryAssignedId
<1>11. CASE UNCHANGED vars
    <2>1. UNCHANGED <<sock, phase, hasConnection, serverId, userId,
                      tadpoles, arrows, sentIds, chatSent>>
        BY <1>11 DEF vars
    <2>2. QED
        BY <1>0, <2>1, Frame DEF Handshake
<1>12. QED
    BY <1>1, <1>2, <1>3, <1>4, <1>5, <1>6, <1>7, <1>8, <1>9, <1>10, <1>11
       DEF Next

\* The user's tadpole is filed under exactly its own key, every arrow of
\* model.arrows points at the tadpole of its key and never at the user's,
\* and every World.Update sent carries the id the server assigned.
THEOREM SafetyInvariant == Spec => []Inv
<1>1. Init => IInv
    BY IInvInit
<1>2. IInv /\ [Next]_vars => IInv'
    BY IInvStep
<1>3. IInv => Inv
    BY DEF IInv
<1>4. QED
    BY <1>1, <1>2, <1>3, PTL DEF Spec
\* welcomeHandler's re-keying, and the update and leave handlers run in any
\* order against it, keep the user's tadpole under exactly the key its id
\* names, for any set of session ids and any bounds.
THEOREM UserTadpoleUniqueHolds == Spec => []UserTadpoleUnique
<1>1. Inv => UserTadpoleUnique
    BY DEF Inv
<1>2. QED
    BY <1>1, SafetyInvariant, PTL

\* updateHandler creates an arrow with its tadpole and leaveHandler drops
\* them together, so no arrow ever points at a tadpole that is not filed
\* under its key, nor at the user's own tadpole.
THEOREM ArrowsFollowTadpolesHolds == Spec => []ArrowsFollowTadpoles
<1>1. Inv => ArrowsFollowTadpoles
    BY DEF Inv
<1>2. QED
    BY <1>1, SafetyInvariant, PTL

\* The hasConnection guard of App.update's throttle holds every
\* World.Update back until welcomeHandler set the assigned id.
THEOREM UpdatesCarryAssignedIdHolds == Spec => []UpdatesCarryAssignedId
<1>1. Inv => UpdatesCarryAssignedId
    BY DEF Inv
<1>2. QED
    BY <1>1, SafetyInvariant, PTL
-----------------------------------------------------------------------------
(* The action property: no step swaps the object filed under a key.       *)

\* One step of EntriesNeverReplaced.
NoSwap ==
    \A k \in Keys : tadpoles[k] # None /\ tadpoles'[k] # None
                      => tadpoles'[k] = tadpoles[k]

LEMMA NoSwapStep == IInv /\ [Next]_vars => [NoSwap]_tadpoles
<1> SUFFICES ASSUME IInv, [Next]_vars PROVE [NoSwap]_tadpoles
    OBVIOUS
<1>0. TypeOK /\ Handshake
    BY DEF IInv
<1>1. CASE UNCHANGED tadpoles
    BY <1>1
<1>2. CASE welcomeHandler
    <2>1. /\ phase # "entered" /\ tadpoles[serverId] = None
          /\ tadpoles' = [tadpoles EXCEPT ![serverId] = tadpoles[TempKey],
                                          ![TempKey] = None]
        BY <1>0, <1>2 DEF welcomeHandler, Handshake
    <2>2. QED
        BY <1>0, <2>1 DEF NoSwap, TypeOK
<1>3. ASSUME NEW id \in Ids, updateHandler(id) PROVE [NoSwap]_tadpoles
    <2>1. CASE tadpoles[id] = None
        <3>1. tadpoles' = [tadpoles EXCEPT ![id] = nextObj]
            BY <1>3, <2>1 DEF updateHandler
        <3>2. QED
            BY <1>0, <2>1, <3>1 DEF NoSwap, TypeOK
    <2>2. CASE tadpoles[id] # None
        BY <1>3, <2>2 DEF updateHandler
    <2>3. QED
        BY <2>1, <2>2
<1>4. ASSUME NEW id \in Ids, leaveHandler(id) PROVE [NoSwap]_tadpoles
    <2>1. CASE tadpoles[id] # None
        <3>1. tadpoles' = [tadpoles EXCEPT ![id] = None]
            BY <1>4, <2>1 DEF leaveHandler
        <3>2. QED
            BY <1>0, <3>1 DEF NoSwap, TypeOK
    <2>2. CASE tadpoles[id] = None
        BY <1>4, <2>2 DEF leaveHandler
    <2>3. QED
        BY <2>1, <2>2
<1>5. QED
    BY <1>1, <1>2, <1>3, <1>4
       DEF Next, vars, wsInit, ConnectFail, joyLogin, messageHandler,
           closeHandler, Tick, userUpdate, sendMessage

\* updateHandler fills only an empty key, leaveHandler only empties one,
\* and welcomeHandler moves the user onto a key that Handshake shows is
\* still empty: in any interleaving, the tadpole object filed under a key
\* is never exchanged for another, for every set of ids and all bounds.
THEOREM EntriesNeverReplacedHolds == Spec => EntriesNeverReplaced
<1>1. IInv /\ [Next]_vars => [NoSwap]_tadpoles
    BY NoSwapStep
<1>2. QED
    BY <1>1, IInvInit, IInvStep, PTL DEF Spec, EntriesNeverReplaced, NoSwap
=============================================================================
