# Verification of the game servers

A TLA+ model of the servers of this repository: small instances are checked
with TLC, and the properties that carry the design are proved with TLAPS for
every size.

## The system

All servers are Windows C++ programs on the same network library, NetLib, of
which each project holds a copy (`BaseServer.cpp` of the group, chat and
multithreaded chat servers agree in everything that matters here; the login
server's copy differs, see `LoginCopy` below).

| Component | State | Operations | Correct when |
|---|---|---|---|
| Session engine, `NetLib/BaseServer.*`, `Session.h` | array of `Session` (control word, id, state, socket, rings, `sendFlag`), stack of free indexes, counters, IOCP | `acceptThread`, `workerThread`, `SendPacket`, `DisConnect`, `postRecv`, `postSend`, `requestRelease`, `releaseSession` | references are counted exactly; a slot is reused only when nothing refers to it; a released session ends once; one sender per session; packets are sent and given back |
| Packet, `NetLib/Packet.h` | reference count, buffer, encoded flag | `Init`, `AddRef`, `SubRef`, `<<`, `>>` | in its pool only when nobody uses it; encoded once |
| Ring buffer, encryption | front, rear; keys | enqueue, dequeue, peek, segments; encode, decode | bytes come out as they went in; decode inverts encode |
| Group server, `GroupServer/*` | player map under a lock, a mailbox and a player map per group | `OnClientJoin`, `OnClientLeave`, `OnRecv`, `Update` of each group, `handleLogin` | a player belongs to one group, is freed once and not used after |
| Chat server, `ChatServer/ChatingServer/*` | player map, 50 x 50 sectors, Redis client | login, sector move, message, heartbeat, time-out | a player is in one sector; one login per account; a key admits once |
| Login server, `LoginServer/LoginServer/*` | job queues of content threads, players, MySQL, Redis | join, leave, login | jobs of a session in order; the key is in Redis before the client is told |
| DB server, `DBServer/*` | job queue, update thread, writer thread, events | enqueue, update, write, trade | no job lost, no sleep with work queued, a trade happens wholly or not at all |
| Lock-free queue, `lock-free-queue/LockFreeQueue.h` | linked nodes, head, tail, hazard pointers, retired lists | `Enqueue`, `TryDequeue`, `Retire`, `ScanRetired` | a FIFO queue; no node reclaimed under a reader |
| Memory pools, `LockFreeMemoryPool.h`, `MemoryPoolTLS.h` | stack of free nodes with a tag, thread caches, shared chunks | `Alloc`, `Free` | a node is handed out once |
| `LanClient`, `MonitorClient` | one connection, control word, send ring | `Connect`, `SendPacket`, release | as the session engine |

How they interact. The engine calls the application (`OnClientJoin`,
`OnClientLeave`, `OnRecv`) from its own threads; the application calls back with
session ids (`SendPacket`, `DisConnect`) from any thread, at any time, also for
sessions that are gone. The kernel completes I/O into one completion port that
all workers take from. The login server leaves a session key in Redis that the
chat server consumes. Nodes, packets, players and sessions are pooled and
reused, so every lifetime error is an error on somebody else's object.

Hard behaviours: everything is concurrent and almost nothing is under a lock
that covers a whole operation. The hazards are listed, with their lines, in
`PROJECT.json`.

## What is modelled: the session engine

`BaseServer.tla` models `BaseServer.cpp` and `Session.h` of the group server.
Each step of a thread is one atomic access of the code (a CAS that succeeds, a
`fetch_sub`, an `exchange`, a `store`), one critical section or one kernel call;
`pc[t]` names the next one. What a thread keeps in C++ locals is in `op`
(the call or completion it serves), `arg` (the id it was given), `slot` (its
`Session*`), `pkt` (its `Packet*`), `own` (references it has to give back) and
`zero` (`before == 0` in `requestRelease`).

| Model | Code |
|---|---|
| `ioCount`, `release`, `cleanup` | the halves of `Session::control` and its two flags |
| `recv`, `send` | the overlapped operation: `"none"`, `"pending"` in the kernel, or the outcome its completion carries (`"ok"`, `"fin"` = 0 bytes, `"failed"`) until a worker takes it |
| `posted` | RELEASE completions in the IOCP |
| `Accept`, `AssignId`, `Publish`, `Register`, `Join`, then `RecvRef`, `WsaRecv` | `acceptThread`, `createSession`, `Session::Init`, `postRecv` |
| `DisConnect`, `SendPacket`, `Acquire`, `Recheck`, `Enqueue` | `findSession` with both calls, `IncreaseIoCount`, the re-validation, the send ring |
| `Exchange`, `Drain`, `SendRef`, `WsaSend`, `ClearFlag`, `ResetFlag` | `postSend` and the end of a completed send |
| `RecvEnded`, `RecvData`, `SendFailed`, `SendDone`, `ReleaseTaken` | the cases of `workerThread` |
| `SetRelease`, `Cancel`, `DropIo`, `DropCall` | `requestRelease` and `decreaseSessionIoCount` at the place each caller has them |
| `Cleanup`, `CloseSocket`, `Leave`, `DrainAll`, `Reset`, `Push` | `releaseSession` |
| `Network` | the peer and the kernel: how a pending operation ends |

Steps of the code are merged only where no other thread can see the states
between. `Publish` stores the state, the counter and the socket of a session
whose id nobody has; `Reset` erases a session whose count is 0 and closed for
good; the read and the CAS of `IncreaseIoCount` are one step since a failed CAS
starts over.

Abstractions. Data is not modelled: a packet is a model value, parsing is the
outcome `parseError`. Known ids are those `OnClientJoin` told, for ever, so every
call with a stale id is in the model. What `OnRecv` does in a worker is what
an application thread may do at any time. The free stack is a set, its order being
of no consequence to any property. The control word's two halves are separate
variables: `RefCountExact` shows that the count is never decremented at 0, the
only way one half could disturb the other.

`LoginCopy = TRUE` is the login server's copy: the first receive is posted before
`OnClientJoin`, and an error of `WSASend` does not request the release.

`SessionLease.tla` is the abstract specification: a slot is leased to one
connection, is held by parties, admits no holder once closing, its end is told
once when nobody holds it, and only then it is free. `BaseServerLease.tla` is the
refinement mapping: thread references and I/O are the holders, FLAG_RELEASE
closes the lease.

## What is modelled: the group server

`GroupServer.tla` models `GroupServer/*` of the echo server on top of the engine:
who may touch a `Player`, from `OnClientJoin` to its return to the pool. The
engine is reduced to what `BaseServer` shows of it: the calls of one session come
one after the other, join first, leave last and once (`JoinBeforeLeave`, `LeaseSpec`), one
join at a time (one accept thread), and different sessions at once. Two cases are special. A
session that the completion port did not take is told to leave without a join: it is in no map,
so `OnClientLeave` does nothing, and it is left out. A session that is thrown out before
`OnClientJoin` has inserted it, as an answer to another session can reach it then, may have
been told to leave by the time it is inserted: `JoinInsert` may end in `"gone"`, and the player
stays in the map.

| Model | Code |
|---|---|
| `map` | `mPlayerMap`; an access under `mPlayerMapLock` is one step |
| `sid`, `group`, `willDelete` | `Player::mSessionID`, `mGroup`, `mWillDelete` |
| `mailbox`, `local` | `JobMailbox::mQueue`, and the jobs `Update` has drained |
| `members`, `count` | `Group::mPlayers`, `mPlayerCount` |
| `avail` | how often an object lies in `playerMemoryPool` (a double `Free` makes it 2) |
| `unread`, `SendCap` | how much of the send ring of a session is taken by answers that the client has not made room for, and its size |
| `JoinAlloc`, `JoinInit`, `JoinInsert`; `OnRecv`; `OnClientLeave`, `LeaveCheck` | the three callbacks |
| `Drain`, `OnEnter`, `OnLeave` | `Group::Update`, `onEnter`, `onLeave` |
| `LatePacket`, `Refuse`, `Accepted`, `HandOver`, `Move`, `EraseMoved`, `Reply` | `LoginGroup::OnRecv` and the numbered steps of `handleLogin` |
| `Echo`, `Reject` | `EchoGroup::OnRecv` |
| `SendPacket`, `Transmit` | what `SendPacket` does to the session: the packet is in the ring; the ring is full and the session released; or the session is gone or going. `postSend` takes packets out |

Abstractions. A packet is its sender and one of three kinds: a well-formed login,
an echo or heartbeat, anything else. `OnRecv` loads `mGroup` and enqueues in one
step; both are inside the shared lock, and the login thread, which takes no lock,
can only move the player between them: the packet then lies in the old mailbox
as if it had come before the move.

The pool hands out any object that lies in it, so players are reused from the first
`Free` on: what a content thread frees reaches the accept thread through the shared chunks when the
cache of that thread overflows (`MOVENODESIZE`), at a time nobody else knows. A thread that still
refers to the player of a session that ended then works on the player of another one, and the
model follows the code into it: `LeaveCheck` frees by what `mGroup` is now, `LoginGroup::OnRecv` tests
the group the player has now, `EraseMoved` and `Reply` read the session id it has now. `stale` is
the history of it: what was done for which session on the player of which other one (`Uses`). `kicked` is
history as well: the live sessions that the server itself disconnected, and why. Two uses spoil
what comes after them, the free of another session's player and the handling of a packet for
another session, as the code has no further protection: most properties speak of the time
until then (`NoStrayFree`, `NoStrayPacket`), and `group_stale_use` shows that it ends. The
other two, the erase and the answer, they live with, and say what these leave behind.

A few branches of the code are in the model and never taken in a run: the duplicate id in
`OnClientJoin`, as an id is inserted once; and those for a player without a group in `OnRecv`,
`OnClientLeave` and `OnLeave`, which take a stale player that is being reused for a third
session.

## What is modelled: the lock-free queue

`LockFreeQueue.tla` models `LockFreeQueue.h` with one step per atomic access:
`Enqueue` and `TryDequeue` with `Protect`, the re-checks, both compare-and-swaps and
the help of a lagging tail, the hazard records, `Retire`, `ScanRetired` with its walk
over the records, and the destructor. `heap` holds the addresses that are not
allocated; `Enqueue` may get any of them from `new`, so a node comes back under the
same address at once, the case hazard pointers exist for. `FifoQueue.tla` is the
abstract specification: a call takes effect at one moment between its beginning and its
return; `FifoSpec` is the refinement (an item is in from the link of its node to the
move of `mHead`; "empty" is decided when `next == nullptr` is read).

Abstractions. The accesses are taken in one order: the hazard pointers are stored
and read `seq_cst`, and the rest is as strong on the x64 the project builds for. A weak
compare-and-swap that fails spuriously repeats a loop without an effect. The two stores
of `ClearHazards` are one step, since a scan that reads `first`, then `second` sees no
more for it. Below 0 `size` stands for the wrapped `size_t`. The queue is used by its own
test program only, whose consumers stop on `Size` (`main.cpp:52`, see `SizeTells`).

## What is modelled: login and chat

`SessionKeys.tla` is Redis: a value per account, `SETEX` of the login server, the
compare-and-delete script of the chat server, the end of the time to live.
`LoginServer.tla` and `ChatServer.tla` each extend it with their server, and
`LoginChat.tla` composes the two: a client logs in, closes that connection, and joins
the chat, or joins without.

| Model | Code |
|---|---|
| `jobs`, `step` | the completion port of each content thread, and how far it is in the job at the head |
| `OnClientJoin`, `OnLoginRecv`, `OnLoginLeave` | the callbacks of `LoginServer`, in the order of the login server's copy of the engine (`AcceptLogin` posts the first receive before the join) |
| `DoJoin`, `DoLeave`, `NoPlayer`, `DoBad`, `Query`, `StoreKey`, `Answer` | the cases of `contentThread`, and `login` cut at MySQL, Redis and the answer |
| `phase`, `live` | a chat player from `Alloc` to `Free`; the sessions nobody has disconnected |
| `place`, `sector` | `Player::mSectorX/Y`; how often a sector's list has the player |
| `pc`, `packet`, `rest`, `found` | the worker that runs `OnRecv` for a session, its packet, its loops |
| `Consume`, `Scan`, `EnterChat`, `Reply` | `ChatServer::login` |
| `EraseOld`, `InsertNew` | `movePlayerSector` |
| `Collect`, `SendAll` | `broadcast`, one sector under its lock after the other |
| `OnChatLeave`, `LeaveSector`, `FreePlayer` | `OnClientLeave` |

The lock of the player map is modelled by its effect: workers hold it shared for a
whole packet, so joins and leaves wait until all are idle. The loop over the map visits
the players in any order, as a hash map does. Keys and accounts are model values; a key
with a zero byte in it is one of `WithNul`, as the login server stores it cut short
(`LoginServer.cpp:228`) and the chat server compares all 64 bytes: its owner can never
get in. `fate`, `issued`, `admitted`, `evictor`, `proven`, `blind`, `stayed` and `late` are
history. A client sends one request to the login server; the account is looked up or
not found, MySQL and Redis may fail, and an answer of Redis may be lost after the key was
consumed.

## What is modelled: the DB server

`DBServer.tla` models the update threads, the queue with its auto-reset event, the
writer thread with its handlers, and the end. A request is its thread, its number and
whether it is a trade: the other four kinds are one statement each. `useTransaction` is
chosen at the start. `db` is MySQL, external: a statement outside a transaction is saved
at once, inside it is pending; any statement may be refused, with the transaction kept or
rolled back by the server (as after a deadlock); the connection may break before the
server gets a query, or after it before the answer, and is never set up again. A server
that is up does not refuse ROLLBACK: with that alone a failed trade could be committed by
the START TRANSACTION of the next one, as the result of `Rollback` is not looked at.

## What is modelled: from SendPacket to OnRecv

`RingBuffer.tla` and `Encryption.tla` translate the operations of `RingBuffer.h` and
`Encryption.h`, indices, wrap and chained XOR included. `Wire.tla` uses them for the
way of a packet: the double-checked encoding under the lock of the packet, the header,
the send ring, the bytes on a TCP connection that delivers any number of them at a time,
the areas given to `WSARecv`, the parse loop, `Decode` and the checksum. Both ends run
the engine's format. `FramePipe.tla` is what the application relies on: payloads come
out as they were put, each once and in order, until the session ends for a reason.
References, `sendFlag` and the release are in `BaseServer`, where parsing is an outcome; here
the session is there until it is closed. Packets that do not keep the format are put
by an external peer (`BadFrames`), one for each way out of the parse loop. A byte has 4
values, which makes sums and keys overflow as often as possible.

## Runs

The `base_` runs instantiate `MCBaseServer`, the `group_` runs `MCGroupServer`, the others
`MCLockFreeQueue`, `MCLoginChat`, `MCDBServer` and `MCWire`.
Every bound is a constant: `MaxUnique`
connections and `MaxSends` calls of `SendPacket` in a behaviour; calls of
`DisConnect` are not bounded, `RingCap` and `Batch` stand for 256 and 32.
`MaxPackets` bounds the packets all clients of the group or chat server send, `Values` and
`MaxDequeues` the calls of a queue, `PerThread` the requests of an update thread and
`MaxFaults` the failures of MySQL. Deadlock is
not checked: when all connections, packets or calls are used up and the peers are silent
the system rightly stops.

| Run | Instance | Shows |
|---|---|---|
| `base_safety` | 2 slots, 2 connections, 2 workers, 2 application threads, ring 2; 3 sends with one connection at a time, none with both (`WithinBounds`) | the safety properties below |
| `base_lease` | 1 slot, 2 connections, 1 application thread, 2 sends | the engine implements `SessionLease`; `ReleaseCompletes` |
| `base_stranded` | 1 connection, 3 sends | violated: a packet left in the ring with no sender |
| `base_silent_peer` | 1 connection | violated: a release that waits for a silent peer |
| `base_packet_leak` | 1 connection | violated: packets of a failed send are never given back |
| `base_login_order` | `LoginCopy` | violated: leave before join |
| `group_ownership` | 2 sessions, 2 players in a pool that reuses them, 1 echo group, 2 packets, a send ring of 1 | the safety properties of the group server and `PlayerFreed` |
| `group_stale_use` | 2 sessions that share 1 player through the pool | violated: what is done for a session is done on the player of another one |
| `queue_fifo` | 2 threads, one of which may stall, 3 addresses, 2 items, 3 dequeues, a scan at each retirement | the queue is a FIFO queue, safe memory, lock freedom |
| `login_chat` | 2 clients from the start with 2 packets; 2 clients in the chat with 6; a third client of an account that was just taken over, with 3 | the properties of login and chat |
| `db_trades` | 2 update threads, 2 requests each, 1 failure | the properties of the DB server, with and without transactions |
| `wire_pipe` | 2 senders, 2 packets, 3 sends, a receive ring of 7 bytes, a send ring of 2 | the engine's way of a packet implements `FramePipe`; what the kernel was given arrives |

Two connections are the hard case of the engine, one after the other through one slot:
that is what makes stale
ids, `Session::Init` under a stale reference and recycling happen. Two
application threads, two workers and the accept thread are the parties that
meet in `postSend` and in the release. A ring of 2 with a batch of 1 leaves
packets behind in `Drain` and is filled by the third send.

Two sessions and one echo group are enough for the group server: the races are
between the engine, the login thread and the echo thread over one player, and the
second session makes the mailboxes interleave and the maps differ. Two packets
are a login and one more, before or behind it, or one of each session. Each of the four stale uses
happens within these bounds, with one player and with two. A send ring of 1 is full with the answer to
the login, and the next echo throws the client out. The safety properties held with three sessions
and one packet as well.

Three addresses make the queue reuse one while a reader still names it, and scanning
at every retirement (64 in the code) makes each reuse as early as it can be. The safety
properties also held with three threads under symmetry, which liveness forbids. In the
chat, three sectors in a row are two that hear each other and one out of reach; clients
of two accounts move past each other, or two and three of one account replace each
other. With two failures of MySQL the DB server's properties hold as well. A receive ring
of 7 bytes is the smallest that takes the longest packet: every packet wraps sooner or later,
also inside its header.

Properties of the engine.
`RefCountExact`: `ioCount` is the number of references of threads and I/O.
`ReferencedIsLive`: a slot is neither cleaned nor free while one exists.
`ReleaseExactlyOnce`: from the moment a released session has count 0 until its
slot is free there is exactly one RELEASE on its way, and none before.
`TargetAlive`: past its re-validation a call works on the session it named.
`OneSender`: `sendFlag` is a lock. `PacketsHeld`: a queued or sent packet keeps
its references. `CleanRecycled`: nothing of the old connection is in a free slot.
`JoinBeforeLeave`: the application hears of the end of a session after its beginning, except
of one that the completion port did not take, of which it hears the end only
(`BaseServer.cpp:606-611`). `SessionCountExact`: what the monitor is told. `NoRefAfterRelease`: the count of a released session only
falls.

Properties of the group server.
`FreedOnce`: a player is in the pool, or one session's, or on its way to the pool in one LEAVE,
so nobody frees it twice or hands it out while it is in use. It holds until `OnClientLeave` frees
another session's player, and no other step can break it. The rest holds until the login group handles
a packet for another session, too. `EnterFirst`: a group hears of a player before its packets or its
end, also when the LEAVE was forwarded. `NoDangling`: a freed or reused player is in no map, no group
and no job that will be acted on, except the entry in the login group that `handleLogin` is
about to erase by the id, or has missed because the id is another one by then. `CountExact`: the
monitor's numbers fit the maps. `OnlyOffendersKicked`: a client whose first packet is its LOGIN
and that echoes from then on is not thrown out for a violation, waiting for the answer or
not, and for a full send ring only if it sent more packets than the ring holds, or an answer
reached it that was another session's. `PlayerFreed`: a player whose LEAVE was posted is freed at last.
`NoStaleUse` (violated): what is done for a session is done on its own player.

Properties of the queue.
`NoUseAfterFree`: a node a thread works on is not deleted, nor back under its address.
`OneOwner`: every node is in one place, so none is lost or deleted twice. `SizeTells`: the
counter lags behind the list, yet 0 with no enqueue under way means empty. `FifoSpec`:
the queue implements `FifoQueue`. `CallsReturn`: calls return though another thread stalls.

Properties of login and chat.
`KeyAdmitsOnce`: a stored key lets in one session. `OnlyProvenReplace`: only who had the
key throws out an earlier session. `OneSession`: an account has one live session,
except (`blind`) when two of its logins overlapped, or when the login met two sessions of the
account in the map, the first already leaving: the loop at `ChatServer.cpp:222` stops at
the first it finds, and the other stays. `SectorsExact`: a player is in the list of
its sector, once, and in no other. `StayersHear`: a message is collected once for everybody who stays
within reach while it is; who moves meanwhile may miss it or get it twice. `OnlyLateJoins`: the order of
the jobs is all that can leave a request without an answer or a player behind, that is, when
the JOIN was posted behind the request or after the end. `ToldIsStored`: the key is in Redis
before the client is told, unless storing it failed, which nobody looks at.

Properties of the DB server.
`TradeAtomic`: with a transaction a trade is saved whole or not at all, whatever fails and
whatever the requests after it commit. `SavedUnlessFailed`: what was handled and is not
saved was reported as failed. `ShutsDown`: no wake-up is lost, and the end comes after
the last request.

Properties of the way of a packet.
`PipeSpec`: the refinement of `FramePipe`. `AllArrive`: what `postSend` gave to the kernel is
received, unless the session ended, and the callers return; the receive ring never fills with a
packet that is not whole. Of a packet in the send ring nothing is promised (finding 1).

Fairness of the engine (`FairSpec`): every thread runs on (weak fairness per thread); a send
that was accepted ends, as the kernel buffers it; completions are taken from the
IOCP in the order of arrival, so none is passed over for ever (strong fairness
per slot). `PeerFairSpec` adds that a receive ends, which no code guarantees: the
run `base_silent_peer` shows what remains without it, and it is the reason
`ReleaseCompletes` is checked under the stronger assumption.

Fairness of the group server: each content thread loops until the end of the
server, and a worker that runs `OnClientLeave` comes back from it. Nothing is
assumed of the clients: a session may never end.

Fairness of the queue: a thread inside a call is scheduled, except one that may stall for
ever; nobody has to call. Of the DB server: the threads are scheduled and the MySQL library
returns, if only with an error. Of the way of a packet: a call of `SendPacket` that began goes on,
the network delivers what was sent, and a worker takes what completes; nobody has to
call, and nothing is assumed of `Transmit`: `base_stranded` shows that a packet may stay in the
send ring with nobody to send it. Login and chat are checked for safety only.

## Findings

1. `postSend` looks into the ring under the lock and opens `sendFlag` after it
   (`BaseServer.cpp:401`). A `SendPacket` in between leaves its packet to a sender
   that has already looked.
2. `requestRelease` cancels I/O once (`BaseServer.cpp:472`); a `postRecv` that took
   its reference before calls `WSARecv` after. The session then lives until its
   peer acts.
3. A failed send (`BaseServer.cpp:649`) does not give back its packets.
4. The login server tells the application of a session after it started to
   receive on it (`LoginServer/Netlib/BaseServer.cpp:559`).
5. A player outlives its session in the hands of threads that are not done with it, and the
   pool may have leased it to another session by then (`group_stale_use`). It takes a
   thread that lags behind and a pool that has come round, so each case is rare.
   - The login group recognises a late packet by `player->mGroup != this`
     (`LoginGroup.cpp:9`); if the player was reused for a session that has not logged in, the
     test lets the packet through. The job does not carry the session it was sent by.
   - `OnClientLeave` reads `mGroup` again after it posted the LEAVE and released the lock
     (`GroupServer.cpp:78`); `OnClientJoin` of another session has just cleared it, and the player
     is freed under that session.
   - `handleLogin` erases the player from the login group by its session id after it handed it
     over (`LoginGroup.cpp:69`); with the id of the next session the old entry stays.
   - `handleLogin` answers to the session id read at that time (`LoginGroup.cpp:76`); another session
     gets the answer.

## Proofs

Each `*Proofs.tla` module proves theorems of a specification for every value of its
constants, from the assumptions that the modules name and that TLC evaluates in every
run (`ThreadAssumption`, `ConstantAssumption`, `GroupAssumption`, ...): finite sets of
threads, clients and the like, bounds that are natural numbers, null values that are no
elements. No bound of a run is used. Every safety property of the passing runs is proved
but `PipeSpec`.

All follow one pattern. The properties are not inductive: they say what must not happen,
and not why each thread is kept from it. The inductive invariant adds what a thread
knows at each of its labels; it was checked with TLC on the instances of the runs before
it was proved. There is a lemma for each action, and under it a step for each conjunct that
the action can disturb; frame lemmas carry the parts it does not touch.

| Module | Proves | Rests on |
|---|---|---|
| `BaseServerProofs` | `TypeOK`, `RefCountExact`, `ReferencedIsLive`, `OneSender`, `NoRefAfterRelease` | `IInv` (`BaseServerInvariant`) |
| `BaseServerLifeProofs` | `ReleaseExactlyOnce`, `TargetAlive`, `CleanRecycled`, `SessionCountExact`, `JoinBeforeLeave` | `IInv`, `LifeInv` |
| `BaseServerPacketProofs` | `PacketsHeld` | `IInv`, `PacketInv` |
| `BaseServerLeaseProofs` | `LeaseSpec`: the engine implements `SessionLease` | `IInv`, `LifeInv` |
| `GroupServerProofs` | `TypeOK`, `EnterFirst`, `NoDangling`, `FreedOnce`, `CountExact`, `OnlyOffendersKicked` | `PlayerInv`, `Packets`, `Answers` (`GroupServerInvariant`) |
| `LockFreeQueueProofs` | `TypeOK`, `NoUseAfterFree`, `OneOwner`, `SizeTells`; `FifoSpec`: the queue implements `FifoQueue` | `QueueInv`, `SizeInv`, `ItemInv` (`LockFreeQueueInvariant`) |
| `LoginChatProofs` | `OnlyLateJoins`, `ToldIsStored`, `KeyAdmitsOnce`, `OnlyProvenReplace`, `OneSession`, `SectorsExact`, `StayersHear` | `LoginInv`, `KeyInv`, `ChatInv` (`LoginChatInvariant`) |
| `DBServerProofs` | `TypeOK`, `TradeAtomic`, `SavedUnlessFailed` | `IInv` |

The engine. `RefCountExact` alone is not inductive. A decrement
keeps it only if the thread owns what it drops, so `IInv`
says what a thread owns at each label (`ThreadInv`);
an I/O handed to the kernel must not replace another one, so one thread at most
sends and one receives (`SendInv`, `RecvInv`); `Session::Init` stores 0, so a free
slot has no references (`ReferencedIsLive`), which needs that after FLAG_RELEASE
none is taken and that the cleaner is alone (`SlotInv`, `CleanerInv`); a call that
passed its re-validation must be on a session that has an id (`SolidInv`), and ids
are fresh (`FreshIds`), so that the session the accept thread prepares is nobody
else's yet (`PrepareInv`). Lemmas on cardinalities carry the count.

The life of a session (`LifeInv`). `ReleaseExactlyOnce` counts the turns to release that are
on their way: a thread that has seen the count reach 0 in `requestRelease`, a RELEASE in the
completion port, the worker that took it. That the last reference leaves exactly one of them
needs the exact count; that the second comes too late needs `cleanup`, exchanged once. The
state, the socket, the ring and `sendFlag` of a session go with its phase, and what
the application was told with its id. `JoinBeforeLeave` is proved for the copies that
call `OnClientJoin` before the first receive: the ids that were told to leave are among those that joined and
those that were refused (`refused` is history), and none is both; `base_login_order` refutes it for the other.
The refinement maps each step to one of `SessionLease` or to a stutter: references that
come and go are holders, `OnClientLeave` is the one end, `Push` frees the slot.

Packets (`PacketInv`). A packet is held by the threads that have it in hand, by
each place in a ring and by each place in a send under way, and its counter is at least their
number. It is no equality: a failed send never gives its packets back (finding 3).

The group server. A `Player` is known to the engine's map, to jobs in mailboxes, to the
groups' maps and to `handleLogin`, and no lock covers two of them. Nothing is assumed of the pool
but that it hands out what lies in it. The invariant has three layers. `Typed` holds always. `Tokens`
is who may free a player, and holds until a stray free: from `Alloc` on the right to free it lies
with its session, then with one LEAVE, which moves between mailboxes but is never doubled, and then it is in
the pool; a player of which there is a LEAVE still has the id of the session it belonged to. `Core`,
until a stray packet as well, says what each reference says of its player. A packet is *late*
when its session is not the one the player has now; a late packet is in the login group
only, its session has ended, and it stands before all jobs of the player's present session (`InOrder`,
`LateOf`), so that it is dropped, or is the stray packet, and nothing behind it is disturbed. Of the
other jobs the entry of a player in a group is the first and its LEAVE the last, in one mailbox only
(`TimelyOf`); a group in whose map it is gets its LEAVE (`Members`, `Known`); between
the steps of the hand-over the two groups know it in turn (`HandOvers`), and an entry of the
login group that is not its player's any more is one that an erase under way, or one that missed, left
(`MemberOf`). `Packets` adds the client's side: a packet that the login group may meet before
the LOGIN is none of a client that began with it. `Answers` bounds what is in a send ring together with
the packets still to be answered by the packets sent, which is why a ring fills only under who
sent more than it holds; an answer to the wrong session breaks the sum, and is the exception.

The queue. `NoUseAfterFree` has the whole argument for hazard pointers behind it. `Disjoint`
gives each node one owner. `Chain` says that the `next` pointers are one list from `mHead` and
that a node that left it has a successor for ever: so a stale CAS of `next` from `nullptr`
fails, even on a node that is back under its address. `Readers` says that what a thread
validated is in the list or retired, and named by its hazard pointer. `Scans` is the
heart: a node in use that a scan has taken is one it saw a hazard pointer on, or the
hazard pointer that names it is still to be read; a thread that publishes
afterwards fails its validation, as the node is out of the list. `SizeInv` counts who is between
its CAS and its `fetch_add`.

That it is a FIFO queue rests on `ItemInv`: `Linked` is a path through all nodes of the list, each once
(`InOrder`), every node behind the first carries an item (`Valued`), and a dequeuer that is about to
move `mHead` holds a copy of the item behind it (`ItemOf`), which nobody overwrites as the node is
in use. So a CAS that links appends one item, a CAS on `mHead` takes the first, and a
`next` that was read as `nullptr` and then validated was behind `mHead` with nothing in the queue. A
path is unique (`PathIsUnique`, by the least place where two differ) and, visiting no node twice, no
longer than there are nodes (`DistinctInPaths`); that is what the `CHOOSE` of `Linked` needs.

Login and chat. `LoginInv` says what a job in a content thread's queue says of its session, and
that jobs of one session are in the order of its callbacks unless its JOIN was late. `KeyInv`
is the ledger of keys: a key has let in no more sessions than it was issued, less one
if it is still stored, since the script compares and deletes in one step. `ChatInv` says
of each session in the chat what its worker found and has still to do (`ClientsInv`), which with
the shared lock of the player map gives `OneSession` by following who was in the map when
somebody scanned it (`Singles`); `Stayers` says that who is within reach and has not been collected is
in the part of the loop that is to come.

The DB server. `TradeAtomic` speaks of what is saved and is not inductive: COMMIT
saves what is pending, so its `IInv` says what the connection holds at each label of the
writer (`ConnectionInv`): outside a transaction nothing is pending, in one exactly the
statements executed so far, and all four at COMMIT. `StatementsInv` carries the statements
of the request under way to the moment it is handled, and `OnceInv` says that a request is
in the queue, with the writer, or handled, and once.

Model-checked only:

- Liveness (`ReleaseCompletes`, `PlayerFreed`, `CallsReturn`, `ShutsDown`, `AllArrive`) is out of
  the proof system's reach.
- `PipeSpec` and what `Wire` is built on: `Encryption` uses bitwise operators,
  of which the provers know nothing.

## Not modelled

- Memory pools. `LockFreeMemoryPool.h` is a wrapper of the SLIST of Windows, whose
  algorithm is not in this repository. `MemoryPoolTLS.h` moves chunks between thread caches;
  `GroupServer` has what it relies on of `Alloc` and `Free`.
- `LanClient` and `MonitorClient`: the lifetime protocol of a session once more, for one
  connection that reconnects.
- The multithreaded chat server: the same `ChatServer.cpp` but for comments, without keys
  in Redis. Its NetLib, and the chat server's, are copies of the one that is modelled;
  only the group server starts its threads after construction (`Start`).
- Diagnostics, monitoring and time-out checks: they count and write the log.
- Half of the lines under `src/` are headers of MySQL and Redis, and of the rest the four
  copies of NetLib are modelled once.

## Plan

What is left, the most important first.

1. Proofs: what the ring buffer does to the bytes in it (`RingBuffer`: what `Enqueue` appends,
   `Peek` shows and `Dequeue` removes, with and without a wrap), and as much of `PipeSpec` as needs no
   key.
2. The caches of `MemoryPoolTLS`, and `LanClient`.

Each module declares its parameters as CONSTANTS with named assumptions and has
one action per operation; no module with a proof uses RECURSIVE operators.
