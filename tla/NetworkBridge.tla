---------------------------- MODULE NetworkBridge ----------------------------
(***************************************************************************)
(* Custom opcodes over the client's connection                             *)
(* (extensions/wxl-runtime/src/NetworkBridge.cpp).  The network thread     *)
(* swallows the messages of registered opcodes into a bounded queue; the   *)
(* game thread drains part of the queue each update and hands every packet *)
(* to the opcode's owner and then to its observers.  Registrations arrive  *)
(* from extensions at any time, also from inside a handler.                *)
(***************************************************************************)
EXTENDS Integers, Sequences, SequencesExt

CONSTANTS
    Opcodes,     \* custom opcodes, all at or above kFirstWxlOpcode
    Features,    \* registrants: one (handler, user) pair each
    NameOf,      \* the name each registers under
    Sizes,       \* payload sizes that arrive
    MaxPackets,  \* kMaxPendingPackets
    Quota,       \* kPendingPacketQuota
    MaxDispatch, \* kMaxDispatchPackets
    ByteBudget,  \* kDispatchByteBudget
    MaxArrivals, \* bound of the model: messages the server sends
    None

ASSUME NetworkAssumption ==
    /\ Sizes \subseteq Nat
    /\ MaxPackets \in Nat /\ Quota \in Nat
    /\ MaxDispatch \in Nat \ {0} /\ ByteBudget \in Nat \ {0}
    /\ MaxArrivals \in Nat
    /\ None \notin Features \cup Opcodes

VARIABLES
    server,       \* per opcode, the feature owning it
    observers,    \* per opcode, its observers in registration order
    arrived,      \* number of messages received so far
    receiving,    \* the message the network thread is about to queue
    pending,      \* g_pendingPackets
    pendingBytes, \* g_pendingBytes
    update,       \* the game thread's OnUpdate
    delivered,    \* the handler calls made, in order
    due           \* per queued message, who was registered when it arrived

regVars == <<server, observers>>
netVars == <<arrived, receiving, due>>
netAll == <<regVars, netVars, pending, pendingBytes, update, delivered>>

HandlerCalls == {"owner", "observer"} \X Features
Packets == [id : 1 .. MaxArrivals, opcode : Opcodes, size : Sizes]
Asleep == [at |-> "asleep", packet |-> None, calls |-> << >>,
           count |-> 0, bytes |-> 0]

NetInit ==
    /\ server = [o \in Opcodes |-> None]
    /\ observers = [o \in Opcodes |-> << >>]
    /\ arrived = 0
    /\ receiving = None
    /\ pending = << >> /\ pendingBytes = 0
    /\ update = Asleep
    /\ delivered = << >>
    /\ due = [i \in 1 .. MaxArrivals |-> {}]

-----------------------------------------------------------------------------

(* The first registration of an opcode owns it for good.                   *)
OwnerAfter(current, f) == IF current = None THEN f ELSE current

RegisterServerOpcode(o, f) ==
    /\ server' = [server EXCEPT ![o] = OwnerAfter(@, f)]
    /\ UNCHANGED <<observers, netVars, pending, pendingBytes, update, delivered>>

(* An observer's name is taken once per opcode.                            *)
SameName(o, f) == {g \in ToSet(observers[o]) : NameOf[g] = NameOf[f]}

RegisterServerObserver(o, f) ==
    /\ observers' = [observers EXCEPT ![o] =
                        IF SameName(o, f) = {} THEN Append(@, f) ELSE @]
    /\ UNCHANGED <<server, netVars, pending, pendingBytes, update, delivered>>

(* RegisterServerObserver inserts the opcode's observer list before it     *)
(* looks at it, but a registered opcode is one that has somebody.          *)
IsRegisteredServerOpcode(o) == server[o] # None \/ observers[o] # << >>

Registered(o) ==
    (IF server[o] = None THEN {} ELSE {<<"owner", server[o]>>})
       \cup {<<"observer", f>> : f \in ToSet(observers[o])}

-----------------------------------------------------------------------------

(* ProcessMessage: the definitions' mutex is released before the queue's   *)
(* is taken.  A message nobody registered goes on to the client.           *)
ProcessMessage(o, size) ==
    /\ receiving = None /\ arrived < MaxArrivals
    /\ arrived' = arrived + 1
    /\ \/ /\ IsRegisteredServerOpcode(o)
          /\ receiving' = [id |-> arrived + 1, opcode |-> o, size |-> size]
          /\ due' = [due EXCEPT ![arrived + 1] = Registered(o)]
       \/ /\ ~IsRegisteredServerOpcode(o)
          /\ UNCHANGED <<receiving, due>>
    /\ UNCHANGED <<regVars, pending, pendingBytes, update, delivered>>

HasRoom(size) == Len(pending) < MaxPackets /\ size <= Quota - pendingBytes

Enqueue(packet) == Append(pending, packet)

(* QueuePacket: full queue and failed allocation both drop the message.    *)
QueuePacket ==
    /\ receiving # None
    /\ receiving' = None
    /\ \/ /\ HasRoom(receiving.size)
          /\ pending' = Enqueue(receiving)
          /\ pendingBytes' = pendingBytes + receiving.size
       \/ UNCHANGED <<pending, pendingBytes>>
    /\ UNCHANGED <<regVars, arrived, due, update, delivered>>

-----------------------------------------------------------------------------

(* OnUpdate: at most MaxDispatch packets, and none after ByteBudget.        *)
NetUpdate ==
    /\ update.at = "asleep"
    /\ update' = [update EXCEPT !.at = "take", !.count = 0, !.bytes = 0]
    /\ UNCHANGED <<regVars, netVars, pending, pendingBytes, delivered>>

BytesKept(size) == pendingBytes
BytesAfterTake(size) == IF size <= pendingBytes THEN pendingBytes - size ELSE 0

TakePending ==
    /\ update.at = "take"
    /\ \/ /\ pending = << >>
          /\ update' = Asleep
          /\ UNCHANGED <<pending, pendingBytes>>
       \/ /\ pending # << >>
          /\ pending' = Tail(pending)
          /\ pendingBytes' = BytesAfterTake(Head(pending).size)
          /\ update' = [update EXCEPT !.at = "copy", !.packet = Head(pending),
                                      !.count = @ + 1,
                                      !.bytes = @ + Head(pending).size]
    /\ UNCHANGED <<regVars, netVars, delivered>>

(* Dispatch copies the registrations under the mutex and calls outside it. *)
ObserverCalls(o) == [k \in 1 .. Len(observers[o]) |-> <<"observer", observers[o][k]>>]
HandlersOf(o) ==
    IF server[o] = None THEN ObserverCalls(o)
    ELSE <<<<"owner", server[o]>>>> \o ObserverCalls(o)

CopyHandlers ==
    /\ update.at = "copy"
    /\ update' = [update EXCEPT !.at = "call",
                                !.calls = HandlersOf(update.packet.opcode)]
    /\ UNCHANGED <<regVars, netVars, pending, pendingBytes, delivered>>

(* A handler that throws is caught: the next one is called all the same.   *)
AfterCallOrThrow ==
    \/ update' = [update EXCEPT !.calls = Tail(@)]
    \/ update' = [update EXCEPT !.calls = << >>]
AfterCall == update' = [update EXCEPT !.calls = Tail(@)]
RunHandler ==
    /\ update.at = "call" /\ update.calls # << >>
    /\ delivered' = Append(delivered, [id   |-> update.packet.id,
                                       call |-> Head(update.calls)])
    /\ AfterCall
    /\ UNCHANGED <<regVars, netVars, pending, pendingBytes>>

Spent == update.bytes >= ByteBudget \/ update.count = MaxDispatch

PacketDoneDropsRest ==
    /\ update.at = "call" /\ update.calls = << >>
    /\ IF Spent THEN update' = Asleep /\ pending' = << >> /\ pendingBytes' = 0
       ELSE /\ update' = [update EXCEPT !.at = "take", !.packet = None]
            /\ UNCHANGED <<pending, pendingBytes>>
    /\ UNCHANGED <<regVars, netVars, delivered>>
PacketDone ==
    /\ update.at = "call" /\ update.calls = << >>
    /\ update' = IF Spent THEN Asleep
                 ELSE [update EXCEPT !.at = "take", !.packet = None]
    /\ UNCHANGED <<regVars, netVars, pending, pendingBytes, delivered>>

-----------------------------------------------------------------------------

NetRegister ==
    \E o \in Opcodes, f \in Features :
        RegisterServerOpcode(o, f) \/ RegisterServerObserver(o, f)

Receive ==
    (\E o \in Opcodes, size \in Sizes : ProcessMessage(o, size)) \/ QueuePacket

GameThread == NetUpdate \/ TakePending \/ CopyHandlers \/ RunHandler \/ PacketDone

NetNext == NetRegister \/ Receive \/ GameThread

NetSpec == NetInit /\ [][NetNext]_netAll

(* The client updates every frame and its network thread keeps running;    *)
(* nobody has to register and nothing has to arrive.                       *)
NetFairSpec == NetSpec /\ WF_netAll(GameThread) /\ WF_netAll(QueuePacket)

-----------------------------------------------------------------------------

NetTypeOK ==
    /\ server \in [Opcodes -> Features \cup {None}]
    /\ observers \in [Opcodes -> Seq(Features)]
    /\ arrived \in 0 .. MaxArrivals
    /\ receiving \in Packets \cup {None}
    /\ pending \in Seq(Packets)
    /\ pendingBytes \in Nat
    /\ update \in [at : {"asleep", "take", "copy", "call"}, packet : Packets \cup {None},
                   calls : Seq(HandlerCalls), count : 0 .. MaxDispatch, bytes : Nat]
    /\ delivered \in Seq([id : 1 .. MaxArrivals, call : HandlerCalls])
    /\ due \in [1 .. MaxArrivals -> SUBSET HandlerCalls]

(* The payload from each packet of the queue to its end, added up.         *)
AddsUp(rest) ==
    /\ rest[Len(pending) + 1] = 0
    /\ \A k \in DOMAIN pending : rest[k] = pending[k].size + rest[k + 1]

(* The queue holds at most its packets and at most its bytes, and          *)
(* g_pendingBytes is the payload waiting in it, so that                    *)
(* `kPendingPacketQuota - g_pendingBytes` never wraps and the quota is     *)
(* given back when packets leave.                                          *)
QueueBounded ==
    /\ NetTypeOK
    /\ Len(pending) <= MaxPackets /\ pendingBytes <= Quota
    /\ \E rest \in [1 .. Len(pending) + 1 -> 0 .. Quota] :
          AddsUp(rest) /\ rest[1] = pendingBytes

CallsFor(id) == {delivered[i].call :
                    i \in {j \in DOMAIN delivered : delivered[j].id = id}}

(* The queue stays within its bounds and its books are right.  When a      *)
(* packet is done, everybody registered when it was taken from the client  *)
(* has been called with it, whoever threw and whoever joined since; nobody *)
(* has seen it twice, nor anything that arrived after it.                  *)
OwedIsDelivered ==
    /\ QueueBounded
    /\ update.at = "call" /\ update.calls = << >> =>
        /\ due[update.packet.id] \subseteq CallsFor(update.packet.id)
        /\ \A i, j \in DOMAIN delivered :
              /\ delivered[i].id <= update.packet.id
              /\ i # j => delivered[i] # delivered[j]

(* Every packet that was queued is dispatched, however full the queue.     *)
QueueDrains ==
    \A id \in 1 .. MaxArrivals :
        (\E i \in DOMAIN pending : pending[i].id = id)
            ~> (update.at = "call" /\ update.packet.id = id)

=============================================================================
