------------------------------ MODULE Channel ------------------------------
(***************************************************************************)
(* Remote procedure calls over shared memory: Channel (include/shadesmar/  *)
(* rpc/channel.h) with the clients and the server that use it.  A channel  *)
(* is a circular queue of elements, each with a request, a response, a     *)
(* mutex and a condition variable, and one heap for requests and one for   *)
(* responses.  A client claims an element, fills in its request and waits  *)
(* there for the response; the server goes round all elements.             *)
(*                                                                         *)
(* A critical section is one step where all it touches is only accessed    *)
(* under the mutex; each access outside of one is a step.  The size of a   *)
(* message tells it apart from the others.  Response blocks are never      *)
(* freed, so a response is what the server wrote, and its heap a count.    *)
(***************************************************************************)
EXTENDS Integers, Sequences, FiniteSets

CONSTANTS Clients,
          QueueSize,      \* QUEUE_SIZE, a power of two
          ReqBlocks,      \* the requests there is room for
          RespBlocks,     \* the number of responses there is room for
          MaxCalls,       \* bound: how many calls each client makes
          MaySendEmpty,   \* the clients that send messages of size 0, too
          MayCrash,       \* the clients that may die
          MaxRestarts,    \* bound: how often the server dies and is replaced
          NoBlock,        \* the handle 0
          Nothing,        \* a message of size 0
          Garbage,        \* bytes that are no message
          Error           \* a response with the handle 0

ASSUME ChannelAssumption ==
  /\ QueueSize \in Nat \ {0} /\ IsFiniteSet(Clients)
  /\ RespBlocks \in Nat /\ MaxCalls \in [Clients -> Nat]
  /\ NoBlock \notin ReqBlocks
  /\ MayCrash \subseteq Clients /\ MaxRestarts \in Nat

VARIABLES counter,   \* shared_queue_->counter
          req,       \* the requests in the elements
          resp,      \* the responses in the elements
          memory,    \* the message in each block of the request heap
          live,      \* the request heap: the blocks in use, oldest first
          respUsed,  \* the response heap: how many blocks are in use
          client,    \* the state of each client
          server,    \* the state of the server
          calls,     \* history: how many calls a client has started
          alive,     \* the clients that have not died
          restarts   \* how often the server has been replaced

heaps == <<memory, live, respUsed>>
processes == <<alive, restarts>>
vars == <<counter, req, resp, heaps, client, server, calls, processes>>

Slots == 0 .. QueueSize - 1
Call == [by : Clients, n : Nat]
Message == Call \cup {Nothing, Garbage}

(* Mutant: the mask is one too wide. *)
SlotWide(position) == position % (QueueSize + 1)

(* pos & (queue_size() - 1) *)
Slot(position) == position % QueueSize

EmptyReq == [empty |-> TRUE, address_handle |-> NoBlock, size |-> Nothing]
EmptyResp == [empty |-> TRUE, message |-> Nothing]

Same(b, c) == b = c
ReqHeap == INSTANCE FifoAllocator WITH Blocks <- ReqBlocks, Overlap <- Same

ClientIdle == [pc |-> "idle", slot |-> 0, block |-> NoBlock]

(* pos is pos_, the element to look at next. *)
ServerIdle(pos) ==
  [pc |-> "idle", pos |-> pos, slot |-> 0, block |-> NoBlock, message |-> Nothing]

(* The message a client is sending. *)
Current(c) == [by |-> c, n |-> calls[c]]

(* The server has the mutex of an element. *)
Locked(q) == server.pc \in {"handle", "size"} /\ server.slot = q

Init ==
  /\ counter = 0
  /\ req = [q \in Slots |-> EmptyReq]
  /\ resp = [q \in Slots |-> EmptyResp]
  /\ memory = [b \in ReqBlocks |-> Nothing]
  /\ ReqHeap!Init
  /\ respUsed = 0
  /\ client = [c \in Clients |-> ClientIdle]
  /\ server = ServerIdle(0)
  /\ calls = [c \in Clients |-> 0]
  /\ alive = Clients
  /\ restarts = 0

-----------------------------------------------------------------------------
(* Client::send, Channel::write_client *)

At(c, place) == c \in alive /\ client[c].pc = place
Return(c) == client' = [client EXCEPT ![c] = ClientIdle]
Goto(c, place) == client' = [client EXCEPT ![c].pc = place]

(* A call begins with reading the position.  (A request that is larger     *)
(* than what get_free_memory reports is refused before and changes nothing.) *)
Begin(c) ==
  /\ At(c, "idle") /\ calls[c] < MaxCalls[c]
  /\ calls' = [calls EXCEPT ![c] = @ + 1]
  /\ client' = [client EXCEPT ![c].pc = "claim", ![c].slot = Slot(counter)]
  /\ UNCHANGED <<counter, req, resp, heaps, server, processes>>

(* Mutant: the element is claimed whether or not it is empty. *)
ClaimAny(c) ==
  LET q == client[c].slot
  IN /\ At(c, "claim") /\ ~ Locked(q)
     /\ counter' = Slot(counter + 1)
     /\ req' = [req EXCEPT ![q].empty = FALSE]
     /\ Goto(c, "alloc")
     /\ UNCHANGED <<resp, heaps, server, calls, processes>>

(* The element is claimed, if it is empty; else send returns false.  Of   *)
(* the counter only the element it stands for matters.                     *)
Claim(c) ==
  LET q == client[c].slot
  IN /\ At(c, "claim") /\ ~ Locked(q)
     /\ \/ /\ req[q].empty
           /\ counter' = Slot(counter + 1)
           /\ req' = [req EXCEPT ![q].empty = FALSE]
           /\ Goto(c, "alloc")
        \/ /\ ~ req[q].empty
           /\ Return(c)
           /\ UNCHANGED <<counter, req>>
     /\ UNCHANGED <<resp, heaps, server, calls, processes>>

(* A block is taken and the message copied to it ... *)
AllocAndCopy(c) ==
  /\ At(c, "alloc")
  /\ \E b \in ReqBlocks :
       /\ ReqHeap!Alloc(b)
       /\ memory' = [memory EXCEPT ![b] = Current(c)]
       /\ client' = [client EXCEPT ![c].pc = "handle", ![c].block = b]
  /\ UNCHANGED <<counter, req, resp, respUsed, server, calls, processes>>

(* ... or there is none, the request is reset, without the mutex, and send *)
(* returns false.                                                          *)
AllocFails(c) ==
  /\ At(c, "alloc")
  /\ req' = [req EXCEPT ![client[c].slot] = EmptyReq]
  /\ Return(c)
  /\ UNCHANGED <<counter, resp, heaps, server, calls, processes>>

(* The request is filled in, without the mutex: first its handle ... *)
StoreHandle(c) ==
  /\ At(c, "handle")
  /\ req' = [req EXCEPT ![client[c].slot].address_handle = client[c].block]
  /\ Goto(c, "size")
  /\ UNCHANGED <<counter, resp, heaps, server, calls, processes>>

(* ... then its size, and send returns true.  A message may be of size 0,   *)
(* and then nobody looks at its block.                                     *)
StoreSize(c) ==
  /\ At(c, "size")
  /\ \E size \in {Current(c)} \cup (IF c \in MaySendEmpty THEN {Nothing} ELSE {}) :
       req' = [req EXCEPT ![client[c].slot].size = size]
  /\ Goto(c, "recv")
  /\ UNCHANGED <<counter, resp, heaps, server, calls, processes>>

(* Client::recv, Channel::read_client *)

(* There is no response yet: the client waits on the condition variable. *)
Wait(c) ==
  LET q == client[c].slot
  IN /\ At(c, "recv") /\ ~ Locked(q)
     /\ resp[q].empty
     /\ Goto(c, "wait")
     /\ UNCHANGED <<counter, req, resp, heaps, server, calls, processes>>

(* Mutant: the request is only marked as empty. *)
ReceiveKeepsRequest(c) ==
  LET q == client[c].slot
  IN /\ At(c, "recv") /\ ~ Locked(q)
     /\ ~ resp[q].empty
     /\ IF req[q].size # Nothing /\ live # <<>> /\ req[q].address_handle = Head(live)
        THEN ReqHeap!Free(req[q].address_handle)
        ELSE UNCHANGED live
     /\ req' = [req EXCEPT ![q].empty = TRUE]
     /\ resp' = [resp EXCEPT ![q] = EmptyResp]
     /\ Return(c)
     /\ UNCHANGED <<counter, memory, respUsed, server, calls, processes>>

(* The response is read; clean_up frees the block of the request, unless   *)
(* the request is of size 0 or the heap does not take it back, and resets  *)
(* the element.                                                            *)
Receive(c) ==
  LET q == client[c].slot
  IN /\ At(c, "recv") /\ ~ Locked(q)
     /\ ~ resp[q].empty
     /\ IF req[q].size # Nothing /\ live # <<>> /\ req[q].address_handle = Head(live)
        THEN ReqHeap!Free(req[q].address_handle)
        ELSE UNCHANGED live
     /\ req' = [req EXCEPT ![q] = EmptyReq]
     /\ resp' = [resp EXCEPT ![q] = EmptyResp]
     /\ Return(c)
     /\ UNCHANGED <<counter, memory, respUsed, server, calls, processes>>

-----------------------------------------------------------------------------
(* Server::serve, Channel::read_server, Channel::write_server *)

(* pos_.fetch_add(1); if that element has a request, its mutex is kept. *)
Poll ==
  /\ server.pc = "idle"
  /\ server' = IF req[server.pos].empty
               THEN ServerIdle(Slot(server.pos + 1))
               ELSE [server EXCEPT !.pc = "handle", !.slot = server.pos,
                                   !.pos = Slot(@ + 1)]
  /\ UNCHANGED <<counter, req, resp, heaps, client, calls, processes>>

(* The handle of the request is read ... *)
ReadHandle ==
  /\ server.pc = "handle"
  /\ server' = [server EXCEPT !.pc = "size",
                              !.block = req[server.slot].address_handle]
  /\ UNCHANGED <<counter, req, resp, heaps, client, calls, processes>>

(* ... then its size, and as many bytes are copied; the mutex is released. *)
(* A handle of 0 stands for the first bytes of the heap.                   *)
ReadSize ==
  LET size == req[server.slot].size
      whole == server.block # NoBlock /\ memory[server.block] = size
  IN /\ server.pc = "size"
     /\ server' = [server EXCEPT
          !.pc = "reply",
          !.block = NoBlock,
          !.message = IF size = Nothing \/ whole THEN size ELSE Garbage]
     /\ UNCHANGED <<counter, req, resp, heaps, client, calls, processes>>

(* Mutant: nobody is woken. *)
SignalNobody(q) == q \in Slots /\ UNCHANGED client

(* elem->cond_var.signal() wakes one of the clients that wait there. *)
Signal(q) ==
  LET waiting == { c \in Clients : client[c].pc = "wait" /\ client[c].slot = q }
  IN \/ waiting = {} /\ UNCHANGED client
     \/ \E c \in waiting : Goto(c, "recv")

(* The response is copied to a new block, which goes into the element.     *)
(* (If the callback fails the response is of size 0.)                      *)
Reply ==
  /\ server.pc = "reply"
  /\ respUsed < RespBlocks /\ respUsed' = respUsed + 1
  /\ resp' = [resp EXCEPT
       ![server.slot] = [empty |-> FALSE, message |-> server.message]]
  /\ Signal(server.slot)
  /\ server' = ServerIdle(server.pos)
  /\ UNCHANGED <<counter, req, memory, live, calls, processes>>

(* There is no room for the response, whose size is up to the callback:    *)
(* signal_error.                                                           *)
ReplyError ==
  /\ server.pc = "reply"
  /\ resp' = [resp EXCEPT ![server.slot] = [empty |-> FALSE, message |-> Error]]
  /\ Signal(server.slot)
  /\ server' = ServerIdle(server.pos)
  /\ UNCHANGED <<counter, req, heaps, calls, processes>>

-----------------------------------------------------------------------------
(* Processes *)

(* A client dies outside of the critical sections; the element stays as it *)
(* is.  (What becomes of a mutex that dies locked is not modelled.)        *)
Crash(c) ==
  /\ c \in MayCrash \cap alive
  /\ alive' = alive \ {c}
  /\ UNCHANGED <<counter, req, resp, heaps, client, server, calls, restarts>>

(* The server dies outside of the critical sections, between two requests  *)
(* or with one that it has not answered, and another takes its place.      *)
Restart ==
  /\ restarts < MaxRestarts /\ restarts' = restarts + 1
  /\ server.pc \in {"idle", "reply"}
  /\ server' = ServerIdle(0)
  /\ UNCHANGED <<counter, req, resp, heaps, client, calls, alive>>

Lock(c) == Claim(c) \/ Wait(c) \/ Receive(c)
Send(c) == AllocAndCopy(c) \/ AllocFails(c) \/ StoreHandle(c) \/ StoreSize(c)
Serve == Poll \/ ReadHandle \/ ReadSize \/ Reply \/ ReplyError

Next ==
  \/ \E c \in Clients : Begin(c) \/ Lock(c) \/ Send(c)
  \/ \E c \in MayCrash : Crash(c)
  \/ Serve \/ Restart

Spec == Init /\ [][Next]_vars

(* A call runs on until it returns and the server serves for ever.  A     *)
(* client gets a mutex that is free time and again.                        *)
FairSpec ==
  /\ Spec
  /\ \A c \in Clients : WF_vars(Send(c)) /\ SF_vars(Lock(c))
  /\ WF_vars(Serve)

-----------------------------------------------------------------------------
(* Properties *)

TypeOK ==
  /\ {counter, server.pos, server.slot} \subseteq Slots
  /\ req \in [Slots -> [empty : BOOLEAN,
                        address_handle : ReqBlocks \cup {NoBlock},
                        size : Call \cup {Nothing}]]
  /\ resp \in [Slots -> [empty : BOOLEAN, message : Message \cup {Error}]]
  /\ memory \in [ReqBlocks -> Call \cup {Nothing}]
  /\ live \in Seq(ReqBlocks)
  /\ respUsed \in 0 .. RespBlocks
  /\ alive \subseteq Clients /\ restarts \in 0 .. MaxRestarts
  /\ server.pc \in {"idle", "handle", "size", "reply"}
  /\ server.message \in Message
  /\ \A c \in Clients :
       /\ client[c].pc \in {"idle", "claim", "alloc", "handle", "size", "recv", "wait"}
       /\ client[c].slot \in Slots
       /\ client[c].block \in ReqBlocks \cup {NoBlock}

(* The clients that are inside of an element. *)
Claimants(q) ==
  { c \in Clients : client[c].slot = q
                    /\ client[c].pc \in {"alloc", "handle", "size", "recv", "wait"} }

(* An element belongs to one client from the claim to the response, and is *)
(* empty otherwise, however positions are shared and whenever send fails.  *)
ClaimedByOne ==
  \A q \in Slots : Cardinality(Claimants(q)) = IF req[q].empty THEN 0 ELSE 1

(* A request that is filled in is that of the client in the element, and   *)
(* its block is in use and unchanged: no response, late or early, frees it *)
(* or lets another client write to it.                                     *)
RequestIntact ==
  \A q \in Slots : req[q].size # Nothing =>
    /\ \E c \in Claimants(q) : req[q].size = Current(c)
    /\ \E i \in DOMAIN live : live[i] = req[q].address_handle
    /\ memory[req[q].address_handle] = req[q].size

(* A call returns, whether it is refused, answered or given an error.      *)
CallReturns ==
  \A c \in Clients :
    client[c].pc # "idle" ~> client[c].pc = "idle" \/ c \notin alive

(* The response that ends a call is the answer to that call, unless it     *)
(* tells of a failure. *)
AnswersOwnCall ==
  [][\A c \in Clients :
       client[c].pc = "recv" /\ client'[c].pc = "idle" =>
         resp[client[c].slot].message \in {Current(c), Nothing, Garbage, Error}]_vars

(* The server does not read an element before its client has filled it in. *)
ReadsFilled ==
  server.pc \in {"handle", "size"} =>
    \A c \in Claimants(server.slot) : client[c].pc \in {"recv", "wait"}

=============================================================================
